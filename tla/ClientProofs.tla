------------------------------ MODULE ClientProofs ------------------------------
(***************************************************************************)
(* The IRC client.  Of ClientLifecycle, for every list of delays: its      *)
(* types, and that nothing of a connection outlives it.  Of                *)
(* ApplicationEvents, for every set of nicks and accounts, every size of   *)
(* the queues and any number of lines: the accounts follow the server.     *)
(***************************************************************************)
EXTENDS ClientLifecycle, ApplicationEvents, TLAPS

\* The types in three parts: those of the delays need arithmetic.
Flags ==
  /\ registered \in BOOLEAN /\ sender \in BOOLEAN /\ established \in BOOLEAN
  /\ stop \in BOOLEAN /\ missed \in BOOLEAN

States ==
  /\ phase \in Idle \cup Closing \cup {"greeting", "registering", "listening"}
  /\ outcome \in {"normal", "error"}
  /\ writer \in {"none", "open", "closed"}
  /\ writer = "none" <=> phase \in Idle
  /\ reader \in {"none", "running", "ended", "raised"}
  /\ stopping \in [Callers -> {"no", "quit", "close", "done"}]

Backoff == failure_count \in 0 .. Len(Delays) /\ delay \in Nat

(***************************************************************************)
(* What NothingOutlivesConnection needs to be inductive: from when on the  *)
(* tasks are gone, and that a stop() that the reader is in has the reader. *)
(***************************************************************************)
TasksEnd ==
  /\ phase \in Idle \cup {"greeting", "draining", "unwinding"} => reader = "none"
  /\ phase \in Idle \cup {"unwinding"} => ~sender
  /\ stopping["reader"] \in {"quit", "close"} => reader = "running"

Inv == States /\ TasksEnd

-----------------------------------------------------------------------------
LEMMA InitBackoff == Init => Backoff
  BY DelaysAssumption DEF Init, Backoff

\* The delay is always one of the list, and the index never leaves it.
LEMMA EndedBackoff ==
  ASSUME Backoff, NEW how, Ended(how)
  PROVE  Backoff'
<1>1. Delays \in Seq(Nat \ {0}) /\ Len(Delays) \in Nat /\ Len(Delays) > 0
  BY DelaysAssumption
<1>2. AtMost(failure_count, Len(Delays) - 1) + 1 \in 1 .. Len(Delays)
  BY <1>1 DEF Backoff, AtMost
<1>3. AtMost(failure_count + 1, Len(Delays)) \in 0 .. Len(Delays)
  BY <1>1 DEF Backoff, AtMost
<1>4. \A i \in 1 .. Len(Delays) : Delays[i] \in Nat
  BY <1>1
<1>5. 1 \in 1 .. Len(Delays)
  BY <1>1
<1> QED
  BY <1>1, <1>2, <1>3, <1>4, <1>5 DEF Backoff, Ended

LEMMA NextBackoff ==
  ASSUME Backoff, [Next]_vars
  PROVE  Backoff'
<1>1. CASE \E how : Ended(how)
  BY <1>1, EndedBackoff
<1>2. CASE UNCHANGED <<failure_count, delay>>
  BY <1>2 DEF Backoff
<1>3. ConnectFails => Ended("error")
  BY DEF ConnectFails
<1>4. Unwind => Ended(outcome)
  BY DEF Unwind
<1>5. [Next]_vars => ConnectFails \/ Unwind \/ UNCHANGED <<failure_count, delay>>
  BY DEF Next, MainNext, StopNext, Loop, Waited, Connected, Greeted, SeesRegistration,
         RegistrationTimeout, ReaderOverBeforeRegistration, ReaderOverAfterRegistration,
         CancelTasks, StopSender, Welcome, ReaderRaises, ReaderEnds, ConnectionLost,
         Stop, QuitSent, StopReturns, Leave, vars, run, conn, stops
<1> QED
  BY <1>1, <1>2, <1>3, <1>4, <1>5

LEMMA NextFlags ==
  ASSUME Flags, [Next]_vars
  PROVE  Flags'
<1> USE DEF Flags, run, conn, stops
<1>1. CASE Loop \/ Waited \/ ConnectFails \/ Connected \/ Greeted \/ SeesRegistration
  BY <1>1, Zenon DEF Loop, Waited, ConnectFails, Connected, Greeted, SeesRegistration
<1>2. CASE \/ RegistrationTimeout \/ ReaderOverBeforeRegistration
           \/ ReaderOverAfterRegistration \/ CancelTasks \/ StopSender \/ Unwind
  BY <1>2, Zenon DEF RegistrationTimeout, ReaderOverBeforeRegistration,
         ReaderOverAfterRegistration, CancelTasks, StopSender, Unwind, Leave
<1>3. CASE Welcome \/ ReaderRaises \/ ReaderEnds \/ ConnectionLost
  BY <1>3, Zenon DEF Welcome, ReaderRaises, ReaderEnds, ConnectionLost
<1>4. CASE StopNext \/ \E c \in Callers : Stop(c)
  <2>1. ASSUME NEW c \in Callers, Stop(c)
        PROVE  Flags'
    <3>1. (missed \/ phase = "connecting") \in BOOLEAN
      OBVIOUS
    <3> QED
      BY <2>1, <3>1, Zenon DEF Stop
  <2> QED
    BY <1>4, <2>1, Zenon DEF StopNext, QuitSent, StopReturns
<1>5. CASE UNCHANGED vars
  BY <1>5, Zenon DEF vars
<1> QED
  BY <1>1, <1>2, <1>3, <1>4, <1>5, Zenon DEF Next, MainNext

-----------------------------------------------------------------------------
LEMMA InitInv == Init => Inv
  BY DEF Init, Inv, States, TasksEnd, Idle, Closing, Callers

LEMMA MainInv ==
  ASSUME Inv, MainNext
  PROVE  Inv'
<1> USE DEF Inv, States, TasksEnd, Idle, Closing, Callers, run, conn, stops
<1>1. CASE Loop
  BY <1>1 DEF Loop
<1>2. CASE Waited
  BY <1>2 DEF Waited
<1>3. CASE ConnectFails
  BY <1>3 DEF ConnectFails, Ended
<1>4. CASE Connected
  BY <1>4 DEF Connected
<1>5. CASE Greeted
  BY <1>5 DEF Greeted
<1>6. CASE SeesRegistration
  BY <1>6 DEF SeesRegistration
<1>7. CASE RegistrationTimeout
  BY <1>7 DEF RegistrationTimeout, Leave
<1>8. CASE ReaderOverBeforeRegistration
  BY <1>8 DEF ReaderOverBeforeRegistration, Leave
<1>9. CASE ReaderOverAfterRegistration
  BY <1>9 DEF ReaderOverAfterRegistration, Leave
<1>10. CASE CancelTasks
  BY <1>10 DEF CancelTasks
<1>11. CASE StopSender
  BY <1>11 DEF StopSender
<1>12. CASE Unwind
  BY <1>12 DEF Unwind, Ended
<1> QED
  BY <1>1, <1>2, <1>3, <1>4, <1>5, <1>6, <1>7, <1>8, <1>9, <1>10, <1>11, <1>12, MainNext
     DEF MainNext

LEMMA StopInv ==
  ASSUME Inv, NEW c \in Callers, Stop(c) \/ QuitSent(c) \/ StopReturns(c)
  PROVE  Inv'
<1> USE DEF Inv, States, TasksEnd, Idle, Closing, Callers, run, conn, stops
<1>1. CASE Stop(c)
  BY <1>1 DEF Stop
<1>2. CASE QuitSent(c)
  BY <1>2 DEF QuitSent
<1>3. CASE StopReturns(c)
  BY <1>3 DEF StopReturns
<1> QED
  BY <1>1, <1>2, <1>3

LEMMA PeerInv ==
  ASSUME Inv, Welcome \/ ReaderRaises \/ ReaderEnds \/ ConnectionLost
  PROVE  Inv'
<1> USE DEF Inv, States, TasksEnd, Idle, Closing, Callers, run, conn, stops
<1>1. CASE Welcome
  BY <1>1 DEF Welcome
<1>2. CASE ReaderRaises
  BY <1>2 DEF ReaderRaises
<1>3. CASE ReaderEnds
  BY <1>3 DEF ReaderEnds
<1>4. CASE ConnectionLost
  BY <1>4 DEF ConnectionLost
<1> QED
  BY <1>1, <1>2, <1>3, <1>4

LEMMA NextInv ==
  ASSUME Inv, [Next]_vars
  PROVE  Inv'
<1>1. CASE MainNext
  BY <1>1, MainInv
<1>2. CASE StopNext \/ \E c \in Callers : Stop(c)
  BY <1>2, StopInv DEF StopNext
<1>3. CASE Welcome \/ ReaderRaises \/ ReaderEnds \/ ConnectionLost
  BY <1>3, PeerInv
<1>4. CASE UNCHANGED vars
  BY <1>4 DEF vars, run, conn, stops, Inv, States, TasksEnd
<1> QED
  BY <1>1, <1>2, <1>3, <1>4 DEF Next

-----------------------------------------------------------------------------
(***************************************************************************)
(* The types of run(), _connect_once() and stop(), for every list of       *)
(* delays: self.writer is set exactly while there is a connection, and the *)
(* index into reconnect_delays is always one of the list.                  *)
(***************************************************************************)
THEOREM LifecycleTypeCorrect == Spec => []TypeOK
<1>1. Init => Inv /\ Flags /\ Backoff
  BY InitInv, InitBackoff DEF Init, Flags
<1>2. Inv /\ Flags /\ Backoff /\ [Next]_vars => (Inv /\ Flags /\ Backoff)'
  BY NextInv, NextFlags, NextBackoff
<1>3. Inv /\ Flags /\ Backoff => TypeOK
  BY DEF Inv, States, Flags, Backoff, TypeOK
<1> QED
  BY <1>1, <1>2, <1>3, PTL DEF Spec

(***************************************************************************)
(* Whatever ends a connection, and wherever stop() is called meanwhile, no *)
(* reader, no sender and no stop() of a reader outlives _connect_once().   *)
(***************************************************************************)
THEOREM NothingOutlives == Spec => []NothingOutlivesConnection
<1>1. Inv /\ [Next]_vars => Inv'
  BY NextInv
<1>2. Inv => NothingOutlivesConnection
  BY DEF Inv, States, TasksEnd, NothingOutlivesConnection, Callers
<1> QED
  BY InitInv, <1>1, <1>2, PTL DEF Spec

-----------------------------------------------------------------------------
(* The accounts in the events of the application.                          *)

\* What lies in the queue, and the ACTION in moderation, may be out of date:
\* all that is needed of them is that they are events.
EventTypes ==
  /\ queue \in Seq(Events) /\ acting \in Seq(Events)
  /\ handler = "moderating" => acting # <<>>

PeopleTypes ==
  /\ online \subseteq Nicks
  /\ told \in [Nicks -> Values] /\ account \in [Nicks -> Values]

PeopleInv == EventTypes /\ PeopleTypes /\ AccountsTracked

LEMMA InitPeople == EventsInit => PeopleInv
BY DEF EventsInit, PeopleInv, EventTypes, PeopleTypes, AccountsTracked, Nobody, Values

-----------------------------------------------------------------------------
(* The queue of events.                                                    *)

\* An event that is enqueued, or for which there is no room.
LEMMA DispatchTypes ==
  ASSUME EventTypes, NEW e \in Events, _dispatch_application(e), UNCHANGED loop
  PROVE  EventTypes'
BY DEF EventTypes, _dispatch_application, loop

LEMMA NotifyTypes ==
  ASSUME EventTypes, NEW n \in Nicks, Notify(n), UNCHANGED loop
  PROVE  EventTypes'
<1>1. [kind |-> "other", nick |-> n, account |-> NoAccount] \in Events
  BY DEF Events, Values
<1> QED
  BY <1>1, DispatchTypes DEF Notify

-----------------------------------------------------------------------------
(* The reader: what the server tells of a nick is what the state says then.*)

LEMMA ToldIsKept ==
  ASSUME PeopleTypes, AccountsTracked, NEW n \in Nicks, NEW a \in Values,
         Tell(n, a), set_account(n, a), online' \subseteq online \cup {n}
  PROVE  PeopleTypes' /\ AccountsTracked'
<1> USE DEF PeopleTypes, Tell, set_account
<1>1. PeopleTypes'
  OBVIOUS
<1>2. ASSUME NEW m \in online' \ revived' PROVE account'[m] = told'[m]
  <2>1. CASE m = n
    BY <2>1
  <2>2. CASE m # n
    BY <1>2, <2>2 DEF AccountsTracked
  <2> QED
    BY <2>1, <2>2
<1> QED
  BY <1>1, <1>2 DEF AccountsTracked

\* The user object moves, with its account and with the exception.
LEMMA NickInv ==
  ASSUME PeopleInv, NEW n \in Nicks, NEW m \in Nicks, Nick(n, m)
  PROVE  PeopleInv'
<1> USE DEF PeopleInv, Nick
<1>1. EventTypes'
  BY NotifyTypes DEF Read
<1>2. PeopleTypes'
  BY DEF PeopleTypes, Values
<1>3. ASSUME NEW k \in online' \ revived' PROVE account'[k] = told'[k]
  <2>1. CASE k = m
    <3>1. n \in online \ revived
      BY <1>3, <2>1
    <3>2. account'[m] = account[n] /\ told'[m] = told[n]
      BY DEF PeopleTypes
    <3> QED
      BY <2>1, <3>1, <3>2 DEF AccountsTracked
  <2>2. CASE k # m
    <3>1. k # n /\ k \in online \ revived
      BY <1>3, <2>2
    <3>2. account'[k] = account[k] /\ told'[k] = told[k]
      BY <2>2, <3>1 DEF PeopleTypes
    <3> QED
      BY <3>1, <3>2 DEF AccountsTracked
  <2> QED
    BY <2>1, <2>2
<1> QED
  BY <1>1, <1>2, <1>3 DEF AccountsTracked

LEMMA MessageInv ==
  ASSUME PeopleInv, NEW n \in Nicks, NEW kind \in {"message", "action", "other"},
         Message(n, kind)
  PROVE  PeopleInv'
<1> USE DEF PeopleInv, Message
<1>1. PeopleTypes' /\ AccountsTracked'
  <2>1. CASE told[n] # NoAccount
    <3>1. told[n] \in Values
      BY DEF PeopleTypes
    <3> QED
      BY <2>1, <3>1, ToldIsKept
  <2>2. CASE told[n] = NoAccount
    BY <2>2 DEF PeopleTypes, AccountsTracked
  <2> QED
    BY <2>1, <2>2
<1>2. [kind |-> kind, nick |-> n, account |-> account'[n]] \in Events
  BY <1>1 DEF PeopleTypes, Events
<1>3. EventTypes'
  BY <1>2, DispatchTypes DEF Read
<1> QED
  BY <1>1, <1>3

LEMMA ReaderInv ==
  ASSUME PeopleInv,
         \/ \E n \in Nicks, a \in Values : Arrives(n, a) \/ Account(n, a)
         \/ \E n \in Nicks, kind \in {"message", "action"} : Message(n, kind)
         \/ \E n \in Nicks : Leaves(n) \/ OtherLine(n) \/ WhoReply(n)
         \/ \E n, m \in Nicks : Nick(n, m)
  PROVE  PeopleInv'
<1> USE DEF PeopleInv, Read
<1>1. ASSUME NEW n \in Nicks, NEW a \in Values, Arrives(n, a) \/ Account(n, a) PROVE PeopleInv'
  BY <1>1, NotifyTypes, ToldIsKept DEF Arrives, Account
<1>2. ASSUME NEW n \in Nicks, Leaves(n) PROVE PeopleInv'
  <2>1. NoAccount \in Values
    BY DEF Values
  <2> QED
    BY <1>2, <2>1, NotifyTypes, ToldIsKept DEF Leaves
<1>3. ASSUME NEW n \in Nicks, WhoReply(n) PROVE PeopleInv'
  <2>1. told[n] \in Values
    BY DEF PeopleTypes
  <2>2. PeopleTypes' /\ AccountsTracked'
    BY <1>3, <2>1, ToldIsKept DEF WhoReply
  <2>3. EventTypes'
    BY <1>3 DEF WhoReply, EventTypes, loop
  <2> QED
    BY <2>2, <2>3
<1> QED
  BY <1>1, <1>2, <1>3, MessageInv, NickInv DEF OtherLine

-----------------------------------------------------------------------------
(* The handlers: what is written late is told, or the nick is an exception.*)

LEMMA WriteBackInv ==
  ASSUME PeopleTypes, AccountsTracked, NEW e \in Events, UNCHANGED <<online, told>>,
         WriteBack(e) \/ UNCHANGED <<account, revived>>
  PROVE  PeopleTypes' /\ AccountsTracked'
<1>1. CASE UNCHANGED <<account, revived>>
  BY <1>1 DEF PeopleTypes, AccountsTracked
<1>2. CASE e.account # NoAccount /\ WriteBack(e)
  <2>0. e.nick \in Nicks /\ e.account \in Values
    BY DEF Events
  <2>1. account' = [account EXCEPT ![e.nick] = e.account]
    BY <1>2 DEF WriteBack
  <2>2. ASSUME NEW m \in online' \ revived' PROVE account'[m] = told'[m]
    <3>1. CASE m = e.nick
      <4>1. told[e.nick] = e.account
        BY <1>2, <2>2, <3>1 DEF WriteBack
      <4> QED
        BY <2>0, <2>1, <3>1, <4>1 DEF PeopleTypes
    <3>2. CASE m # e.nick
      <4>1. m \in online \ revived
        BY <1>2, <2>2 DEF WriteBack
      <4> QED
        BY <2>1, <3>2, <4>1 DEF PeopleTypes, AccountsTracked
    <3> QED
      BY <3>1, <3>2
  <2> QED
    BY <2>0, <2>1, <2>2 DEF PeopleTypes, AccountsTracked
<1> QED
  BY <1>1, <1>2 DEF WriteBack

LEMMA HandleInv ==
  ASSUME PeopleInv, Handle \/ Moderated PROVE PeopleInv'
<1> USE DEF PeopleInv
<1>1. CASE Handle
  <2>1. Head(queue) \in Events /\ Tail(queue) \in Seq(Events)
    BY <1>1 DEF Handle, EventTypes
  <2>2. PeopleTypes' /\ AccountsTracked'
    BY <1>1, <2>1, WriteBackInv DEF Handle
  <2>3. EventTypes'
    BY <1>1, <2>1 DEF Handle, EventTypes
  <2> QED
    BY <2>2, <2>3
<1>2. CASE Moderated
  <2>1. acting[1] \in Events
    BY <1>2 DEF Moderated, EventTypes
  <2>2. PeopleTypes' /\ AccountsTracked'
    BY <1>2, <2>1, WriteBackInv DEF Moderated
  <2>3. EventTypes'
    BY <1>2 DEF Moderated, EventTypes
  <2> QED
    BY <2>2, <2>3
<1> QED
  BY <1>1, <1>2

\* The rest of the loop, the sender's queue and PING touch no account.
LEMMA QuietInv ==
  ASSUME PeopleInv,
         \/ Ping \/ Pong \/ Query
         \/ ReaderSends \/ HandlerSends \/ OtherSends \/ Transmit
         \/ HandlerGivesUp \/ Reply \/ Done \/ UNCHANGED eventVars
  PROVE  PeopleInv'
<1>1. UNCHANGED <<people, queue, acting>>
  BY DEF Ping, Pong, Query, Read, ReaderSends, HandlerSends, OtherSends, Transmit,
         HandlerGivesUp, Reply, Done, eventVars, loop
<1>2. handler' = "moderating" => handler = "moderating"
  BY DEF Ping, Pong, Query, Read, ReaderSends, HandlerSends, OtherSends, Transmit,
         HandlerGivesUp, Reply, Done, eventVars, loop
<1> QED
  BY <1>1, <1>2 DEF PeopleInv, EventTypes, PeopleTypes, AccountsTracked, people

\* A connection ends and the next begins with nobody.
LEMMA EndInv ==
  ASSUME EndConnection PROVE PeopleInv'
BY DEF EndConnection, PeopleInv, EventTypes, PeopleTypes, AccountsTracked, Nobody, Values

LEMMA NextPeople == PeopleInv /\ [EventsNext]_eventVars => PeopleInv'
BY ReaderInv, HandleInv, QuietInv, EndInv DEF EventsNext, Reconnect, ReaderGivesUp

-----------------------------------------------------------------------------
(***************************************************************************)
(* Through any order of joins, logins, logouts, messages, nick changes and *)
(* departures, however late the handlers of the queued messages run, the   *)
(* account of a user is what the server said last, but for the nicks a     *)
(* late handler wrote an older one to.                                     *)
(***************************************************************************)
THEOREM AccountsFollow == EventsSpec => []AccountsTracked
<1>1. PeopleInv => AccountsTracked
  BY DEF PeopleInv
<1> QED
  BY InitPeople, NextPeople, <1>1, PTL DEF EventsSpec

-----------------------------------------------------------------------------
(* The types, with the bounds of the two queues.                           *)

Tasks == {"handler", "reader", "other"}

\* A task waits in send() exactly while a line of it is in the queue, and there
\* is never a second one.
Where(box, task) == {i \in DOMAIN box : box[i] = task}

Lined(box, task, sent) ==
  /\ Where(box, task) # {} <=> sent
  /\ \A i, j \in Where(box, task) : i = j

OutboxTypes ==
  /\ reading \in {"idle", "sending", "sent"}
  /\ handler \in {"idle", "moderating", "running", "sending", "sent"}
  /\ outbox \in Seq(Tasks) /\ Len(outbox) <= OutboxSize
  /\ Lined(outbox, "reader", reading = "sent") /\ Lined(outbox, "handler", handler = "sent")

LoopTypes ==
  /\ Len(queue) <= QueueSize
  /\ Len(acting) = (IF handler = "moderating" THEN 1 ELSE 0)

LineTypes == ping \in BOOLEAN /\ lines \in 0 .. MaxLines /\ revived \subseteq online

QueuesInv == OutboxTypes /\ LoopTypes /\ LineTypes

LEMMA EventsTyping == PeopleInv /\ QueuesInv => EventsTypeOK
BY DEF PeopleInv, EventTypes, PeopleTypes, QueuesInv, OutboxTypes, Tasks, Lined, Where, LoopTypes,
       LineTypes, EventsTypeOK

LEMMA AppendedLine ==
  ASSUME NEW box \in Seq(Tasks), NEW t \in Tasks
  PROVE  /\ Append(box, t) \in Seq(Tasks) /\ Len(Append(box, t)) = Len(box) + 1
         /\ \A u : Where(Append(box, t), u) =
                     Where(box, u) \cup (IF t = u THEN {Len(box) + 1} ELSE {})
<1>1. Append(box, t) \in Seq(Tasks) /\ Len(Append(box, t)) = Len(box) + 1
  OBVIOUS
<1>2. /\ DOMAIN Append(box, t) = DOMAIN box \cup {Len(box) + 1}
      /\ \A i \in DOMAIN box : Append(box, t)[i] = box[i]
      /\ Append(box, t)[Len(box) + 1] = t
  OBVIOUS
<1> QED
  BY <1>1, <1>2 DEF Where

LEMMA FirstLineSent ==
  ASSUME NEW box \in Seq(Tasks), box # <<>>
  PROVE  /\ Tail(box) \in Seq(Tasks) /\ Len(Tail(box)) = Len(box) - 1
         /\ \A u : \A sent : Lined(box, u, sent) =>
                     Lined(Tail(box), u, IF Head(box) = u THEN FALSE ELSE sent)
<1>1. /\ Tail(box) \in Seq(Tasks) /\ Len(Tail(box)) = Len(box) - 1
      /\ 1 \in DOMAIN box /\ Head(box) = box[1] /\ DOMAIN box \subseteq Nat
  OBVIOUS
<1>2. /\ \A i \in DOMAIN Tail(box) : i + 1 \in DOMAIN box /\ i + 1 # 1 /\ Tail(box)[i] = box[i + 1]
      /\ \A j \in DOMAIN box : j # 1 => j - 1 \in DOMAIN Tail(box) /\ Tail(box)[j - 1] = box[j]
  OBVIOUS
<1>3. ASSUME NEW u, NEW sent, Lined(box, u, sent)
      PROVE  Lined(Tail(box), u, IF Head(box) = u THEN FALSE ELSE sent)
  <2>1. \A i \in Where(Tail(box), u) : i + 1 \in Where(box, u) /\ i + 1 # 1 /\ i \in Int
    BY <1>1, <1>2 DEF Where
  <2>2. \A j \in Where(box, u) : j # 1 => j - 1 \in Where(Tail(box), u)
    BY <1>2 DEF Where
  <2>3. \A i, j \in Where(box, u) : i = j
    BY <1>3 DEF Lined
  <2>4. \A i, j \in Where(Tail(box), u) : i = j
    BY <2>1, <2>3
  <2>5. CASE Head(box) = u
    <3>1. 1 \in Where(box, u)
      BY <1>1, <2>5 DEF Where
    <3>2. Where(Tail(box), u) = {}
      BY <2>1, <2>3, <3>1
    <3> QED
      BY <2>5, <3>2 DEF Lined
  <2>6. CASE Head(box) # u
    <3>1. 1 \notin Where(box, u)
      BY <1>1, <2>6 DEF Where
    <3>2. Where(Tail(box), u) # {} <=> Where(box, u) # {}
      BY <2>1, <2>2, <3>1
    <3> QED
      BY <1>3, <2>4, <2>6, <3>2 DEF Lined
  <2> QED
    BY <2>5, <2>6
<1> QED
  BY <1>1, <1>3

LEMMA SendsTypes ==
  ASSUME OutboxTypes, ReaderSends \/ HandlerSends \/ OtherSends
  PROVE  OutboxTypes'
<1> USE DEF OutboxTypes
<1>1. Len(outbox) \in Nat /\ OutboxSize \in Nat /\ \A i \in DOMAIN outbox : i # Len(outbox) + 1
  BY EventsAssumption
<1>2. ASSUME NEW t \in Tasks, outbox' = Append(outbox, t), Len(outbox) < OutboxSize
      PROVE  /\ outbox' \in Seq(Tasks) /\ Len(outbox') <= OutboxSize
             /\ Where(outbox', t) = Where(outbox, t) \cup {Len(outbox) + 1}
             /\ \A u \in Tasks \ {t} : Where(outbox', u) = Where(outbox, u)
  <2>1. /\ Append(outbox, t) \in Seq(Tasks) /\ Len(Append(outbox, t)) = Len(outbox) + 1
        /\ \A u : Where(Append(outbox, t), u) =
                    Where(outbox, u) \cup (IF t = u THEN {Len(outbox) + 1} ELSE {})
    BY AppendedLine
  <2>2. outbox' \in Seq(Tasks) /\ Len(outbox') <= OutboxSize
    BY <1>1, <1>2, <2>1
  <2>3. Where(outbox', t) = Where(outbox, t) \cup {Len(outbox) + 1}
    BY <1>2, <2>1
  <2>4. ASSUME NEW u \in Tasks \ {t}
        PROVE  Where(outbox', u) = Where(outbox, u)
    <3>1. Where(Append(outbox, t), u) = Where(outbox, u) \cup {}
      BY <2>1
    <3> QED
      BY <1>2, <3>1
  <2> QED
    BY <2>2, <2>3, <2>4
<1>3. CASE ReaderSends
  <2>1. "reader" \in Tasks /\ "handler" \in Tasks \ {"reader"}
    BY DEF Tasks
  <2>2. Where(outbox, "reader") = {} /\ reading' = "sent" /\ handler' = handler
    BY <1>3 DEF ReaderSends, Lined, loop
  <2>3. Where(outbox', "reader") = {Len(outbox) + 1} /\ Where(outbox', "handler") = Where(outbox, "handler")
    BY <1>2, <1>3, <2>1, <2>2 DEF ReaderSends
  <2> QED
    BY <1>2, <1>3, <2>1, <2>2, <2>3 DEF ReaderSends, Lined
<1>4. CASE HandlerSends
  <2>1. "handler" \in Tasks /\ "reader" \in Tasks \ {"handler"}
    BY DEF Tasks
  <2>2. Where(outbox, "handler") = {} /\ handler' = "sent" /\ reading' = reading
    BY <1>4 DEF HandlerSends, Lined
  <2>3. Where(outbox', "handler") = {Len(outbox) + 1} /\ Where(outbox', "reader") = Where(outbox, "reader")
    BY <1>2, <1>4, <2>1, <2>2 DEF HandlerSends
  <2> QED
    BY <1>2, <1>4, <2>1, <2>2, <2>3 DEF HandlerSends, Lined
<1>5. CASE OtherSends
  <2>1. "other" \in Tasks /\ {"handler", "reader"} \subseteq Tasks \ {"other"}
    BY DEF Tasks
  <2>2. handler' = handler /\ reading' = reading
    BY <1>5 DEF OtherSends, loop
  <2>3. Where(outbox', "handler") = Where(outbox, "handler") /\ Where(outbox', "reader") = Where(outbox, "reader")
    BY <1>2, <1>5, <2>1 DEF OtherSends
  <2> QED
    BY <1>2, <1>5, <2>1, <2>2, <2>3 DEF OtherSends, Lined
<1> QED
  BY <1>3, <1>4, <1>5

LEMMA TransmitTypes ==
  ASSUME OutboxTypes, Transmit
  PROVE  OutboxTypes'
<1> USE DEF OutboxTypes
<1>1. outbox' = Tail(outbox) /\ outbox # <<>>
  BY DEF Transmit
<1>2. outbox' \in Seq(Tasks) /\ Len(outbox') <= OutboxSize
  BY <1>1, FirstLineSent, EventsAssumption
<1>3. /\ Lined(outbox', "reader", IF Head(outbox) = "reader" THEN FALSE ELSE reading = "sent")
      /\ Lined(outbox', "handler", IF Head(outbox) = "handler" THEN FALSE ELSE handler = "sent")
  BY <1>1, FirstLineSent
<1>4. /\ reading' = "sent" <=> (IF Head(outbox) = "reader" THEN FALSE ELSE reading = "sent")
      /\ handler' = "sent" <=> (IF Head(outbox) = "handler" THEN FALSE ELSE handler = "sent")
  BY DEF Transmit
<1>5. Lined(outbox', "reader", reading' = "sent") /\ Lined(outbox', "handler", handler' = "sent")
  BY <1>3, <1>4 DEF Lined
<1> QED
  BY <1>2, <1>5 DEF Transmit

\* The steps that send no line and wait for none.
LEMMA OtherOutbox ==
  ASSUME OutboxTypes, [EventsNext]_eventVars
  PROVE  OutboxTypes' \/ ReaderSends \/ HandlerSends \/ OtherSends \/ Transmit
<1> USE DEF OutboxTypes
<1>1. CASE UNCHANGED <<handler, reading, outbox>>
  BY <1>1
<1>2. CASE EndConnection
  <2>1. outbox' = <<>> /\ <<>> \in Seq(Tasks) /\ Len(<<>>) = 0 /\ Where(<<>>, "reader") = {}
        /\ Where(<<>>, "handler") = {} /\ OutboxSize \in Nat
    BY <1>2, EventsAssumption DEF EndConnection, Where
  <2> QED
    BY <1>2, <2>1 DEF EndConnection, Lined
<1>3. CASE Query \/ HandlerGivesUp \/ Handle \/ Moderated \/ Reply \/ Done
  BY <1>3 DEF Query, Read, HandlerGivesUp, Handle, Moderated, Reply, Done, loop, Lined
<1>4. ASSUME NEW n \in Nicks,
             \/ \E a \in Values : Arrives(n, a) \/ Account(n, a)
             \/ \E kind \in {"message", "action", "other"} : Message(n, kind)
             \/ Leaves(n) \/ WhoReply(n) \/ \E m \in Nicks : Nick(n, m)
      PROVE  UNCHANGED <<handler, reading, outbox>>
  BY <1>4 DEF Arrives, Account, Message, Leaves, WhoReply, Nick, Notify, _dispatch_application, Read, loop
<1>5. CASE Ping \/ Pong \/ UNCHANGED eventVars
  BY <1>5 DEF Ping, Pong, eventVars, loop
<1> QED
  BY <1>1, <1>2, <1>3, <1>4, <1>5 DEF EventsNext, OtherLine, Reconnect, ReaderGivesUp

LEMMA NextLoop ==
  ASSUME PeopleInv, OutboxTypes, LoopTypes, [EventsNext]_eventVars
  PROVE  LoopTypes'
<1> USE DEF LoopTypes, PeopleInv, EventTypes
<1>1. Len(queue) \in Nat /\ QueueSize \in Nat
  BY EventsAssumption
<1>2. ASSUME NEW e, _dispatch_application(e), UNCHANGED loop PROVE LoopTypes'
  BY <1>1, <1>2 DEF _dispatch_application, loop
<1>3. ASSUME NEW n \in Nicks,
             \/ \E a \in Values : Arrives(n, a) \/ Account(n, a)
             \/ \E kind \in {"message", "action", "other"} : Message(n, kind)
             \/ Leaves(n) \/ \E m \in Nicks : Nick(n, m)
      PROVE  LoopTypes'
  BY <1>2, <1>3 DEF Arrives, Account, Message, Leaves, Nick, Notify, Read
<1>4. CASE EndConnection
  BY <1>1, <1>4 DEF EndConnection
<1>5. CASE Handle
  <2>1. Len(queue') <= QueueSize
    BY <1>1, <1>5 DEF Handle
  <2>2. Len(acting') = (IF handler' = "moderating" THEN 1 ELSE 0)
    BY <1>5 DEF Handle
  <2> QED
    BY <2>1, <2>2
<1>6. CASE Moderated
  BY <1>6 DEF Moderated
<1>7. CASE HandlerGivesUp \/ HandlerSends \/ Reply \/ Done
  BY <1>7 DEF HandlerGivesUp, HandlerSends, Reply, Done
<1>8. CASE Transmit
  <2>1. Head(outbox) = "handler" => 1 \in Where(outbox, "handler")
    BY <1>8 DEF Transmit, Where, OutboxTypes
  <2>2. Head(outbox) = "handler" => handler = "sent"
    BY <2>1 DEF OutboxTypes, Lined
  <2> QED
    BY <1>8, <2>2 DEF Transmit
<1>9. CASE \/ Ping \/ Pong \/ Query \/ ReaderSends \/ OtherSends \/ UNCHANGED eventVars
           \/ \E n \in Nicks : WhoReply(n)
  BY <1>9 DEF Ping, Pong, Query, Read, WhoReply, ReaderSends, OtherSends, eventVars, loop
<1> QED
  BY <1>3, <1>4, <1>5, <1>6, <1>7, <1>8, <1>9 DEF EventsNext, OtherLine, Reconnect, ReaderGivesUp

\* Exceptions are named only of who is there.
LEMMA NextLines ==
  ASSUME PeopleInv, LineTypes, [EventsNext]_eventVars
  PROVE  LineTypes'
<1> USE DEF LineTypes
<1>1. ASSUME Read PROVE lines' \in 0 .. MaxLines /\ ping' = ping
  BY <1>1, EventsAssumption DEF Read
<1>2. ASSUME NEW n \in Nicks,
             \/ \E a \in Values : Arrives(n, a) \/ Account(n, a)
             \/ \E kind \in {"message", "action", "other"} : Message(n, kind)
             \/ Leaves(n) \/ WhoReply(n) \/ \E m \in Nicks : Nick(n, m)
      PROVE  LineTypes'
  <2>1. Read
    BY <1>2 DEF Arrives, Account, Message, Leaves, WhoReply, Nick
  <2>2. revived' \subseteq online'
    BY <1>2 DEF Arrives, Account, Message, Leaves, WhoReply, Nick, Tell
  <2> QED
    BY <1>1, <2>1, <2>2
<1>3. CASE Query
  BY <1>1, <1>3 DEF Query, people
<1>4. CASE Ping \/ Pong
  BY <1>4 DEF Ping, Pong, people
<1>5. CASE Handle \/ Moderated
  <2>1. ASSUME NEW e, WriteBack(e) PROVE revived' \subseteq revived \cup online
    BY <2>1 DEF WriteBack
  <2> QED
    BY <1>5, <2>1 DEF Handle, Moderated
<1>6. CASE EndConnection
  BY <1>6 DEF EndConnection
<1>7. CASE \/ ReaderSends \/ HandlerSends \/ OtherSends \/ Transmit \/ HandlerGivesUp \/ Reply \/ Done
           \/ UNCHANGED eventVars
  BY <1>7 DEF ReaderSends, HandlerSends, OtherSends, Transmit, HandlerGivesUp, Reply, Done, eventVars,
              people
<1> QED
  BY <1>2, <1>3, <1>4, <1>5, <1>6, <1>7 DEF EventsNext, OtherLine, Reconnect, ReaderGivesUp

(***************************************************************************)
(* For any nicks and any size of the queues: the event queue and the       *)
(* sender's queue stay within their bounds, and the reader and the handler *)
(* each have at most one line in the sender's queue, exactly while they    *)
(* wait in send() (_dispatch_application(), _event_loop()).                *)
(***************************************************************************)
THEOREM EventsTypeCorrect == EventsSpec => []EventsTypeOK
<1>1. EventsInit => PeopleInv /\ QueuesInv
  <2> SUFFICES ASSUME EventsInit PROVE QueuesInv
    BY InitPeople
  <2>1. /\ Where(<<>>, "reader") = {} /\ Where(<<>>, "handler") = {} /\ <<>> \in Seq(Tasks)
        /\ Len(<<>>) = 0 /\ OutboxSize \in Nat /\ QueueSize \in Nat /\ MaxLines \in Nat
    BY EventsAssumption DEF Where
  <2>2. OutboxTypes
    BY <2>1 DEF EventsInit, OutboxTypes, Lined
  <2>3. ping \in BOOLEAN
    BY Zenon DEF EventsInit
  <2> QED
    BY <2>1, <2>2, <2>3 DEF EventsInit, QueuesInv, LoopTypes, LineTypes
<1>2. PeopleInv /\ QueuesInv /\ [EventsNext]_eventVars => (PeopleInv /\ QueuesInv)'
  <2> SUFFICES ASSUME PeopleInv, QueuesInv, [EventsNext]_eventVars PROVE PeopleInv' /\ QueuesInv'
    OBVIOUS
  <2>1. PeopleInv'
    BY NextPeople
  <2>2. OutboxTypes'
    BY OtherOutbox, SendsTypes, TransmitTypes DEF QueuesInv
  <2> QED
    BY <2>1, <2>2, NextLoop, NextLines DEF QueuesInv
<1> QED
  BY <1>1, <1>2, EventsTyping, PTL DEF EventsSpec

=============================================================================
