--------------------------- MODULE ApplicationEvents ---------------------------
(***************************************************************************)
(* core/client.py: the protocol reader and the loop that runs commands and *)
(* plugins, with the bounded queue between them.  The reader keeps the     *)
(* accounts of irc/state.py, and so does the handler of a message, later.  *)
(*                                                                         *)
(* account-tag, account-notify and extended-join are active.  The server   *)
(* (external) sends one stream, so a line and its reading are one step.    *)
(***************************************************************************)
EXTENDS Integers, Sequences

CONSTANTS
  Nicks, Accounts,
  NoAccount,      \* None
  QueueSize,      \* network.event_queue_size
  OutboxSize,     \* room in the sender's queue
  MaxLines        \* bound: lines that change or enqueue something

ASSUME EventsAssumption ==
  /\ NoAccount \notin Accounts
  /\ QueueSize \in Nat \ {0} /\ OutboxSize \in Nat \ {0} /\ MaxLines \in Nat

VARIABLES
  online,   \* who shares a channel with the bot
  told,     \* the account that the server told of each of them last
  account,  \* IRCUser.account; of a user that the state does not have, None
  queue,    \* _event_queue: coroutines with their arguments
  handler,  \* _event_task: waits for an event, runs one or waits in send()
  acting,   \* the ACTION that it is moderating
  reading,  \* idle, or in a CTCP reply or a WHO: about to send(), or waiting in it
  outbox,   \* the sender's queue: who waits for the line
  ping,     \* the server waits for a PONG
  lines,    \* lines so far
  revived   \* history: nicks for which a handler wrote what was not told last

people == <<online, told, account, revived>>
loop == <<handler, acting>>
eventVars == <<people, queue, loop, reading, outbox, ping, lines>>

Values == Accounts \cup {NoAccount}

\* What a coroutine in the queue was created with.
Events == [kind : {"message", "action", "other"}, nick : Nicks, account : Values]

Nobody == [n \in Nicks |-> NoAccount]

EventsTypeOK ==
  /\ online \subseteq Nicks /\ revived \subseteq online
  /\ told \in [Nicks -> Values] /\ account \in [Nicks -> Values]
  /\ queue \in Seq(Events) /\ Len(queue) <= QueueSize
  /\ handler \in {"idle", "moderating", "running", "sending", "sent"}
  /\ acting \in Seq(Events) /\ Len(acting) = (IF handler = "moderating" THEN 1 ELSE 0)
  /\ reading \in {"idle", "sending", "sent"}
  /\ outbox \in Seq({"handler", "reader", "other"}) /\ Len(outbox) <= OutboxSize
  /\ \A task \in {"handler", "reader"} :
       (\E i \in DOMAIN outbox : outbox[i] = task)
         <=> (IF task = "reader" THEN reading ELSE handler) = "sent"
  /\ ping \in BOOLEAN /\ lines \in 0 .. MaxLines

EventsInit ==
  /\ online = {} /\ told = Nobody /\ account = Nobody /\ revived = {}
  /\ queue = <<>> /\ handler = "idle" /\ acting = <<>> /\ reading = "idle" /\ outbox = <<>>
  /\ ping = FALSE /\ lines = 0

-----------------------------------------------------------------------------
(* The reader.                                                             *)

\* The reader has come back from the line before and takes the next, unless
\* that is the PING.
Read ==
  /\ reading = "idle" /\ ~ping
  /\ lines < MaxLines
  /\ lines' = lines + 1
  /\ UNCHANGED <<loop, outbox, ping>>

\* Mutant of _dispatch_application: put() for put_nowait().  The reader waits
\* for room, which a handler that never returns never makes.
_dispatch_application_waits(event) ==
  IF Len(queue) < QueueSize
    THEN queue' = Append(queue, event) /\ UNCHANGED reading
    ELSE reading' = "waits" /\ UNCHANGED queue

\* An event for which there is no room is dropped.
_dispatch_application(event) ==
  /\ queue' = IF Len(queue) < QueueSize THEN Append(queue, event) ELSE queue
  /\ UNCHANGED reading

\* The events of the other hooks: their handlers write no state.
Notify(n) == _dispatch_application([kind |-> "other", nick |-> n, account |-> NoAccount])

\* Mutant of set_account: the marker of a logout is not an account.
set_account_kept(n, a) ==
  account' = IF a = NoAccount THEN account ELSE [account EXCEPT ![n] = a]

\* IRCState.set_account(), with "*" and "0" as None
set_account(n, a) == account' = [account EXCEPT ![n] = a]

Tell(n, a) == told' = [told EXCEPT ![n] = a] /\ revived' = revived \ {n}

\* extended-join: the account of who joins, or "*"
Arrives(n, a) ==
  /\ Read /\ n \notin online
  /\ online' = online \cup {n}
  /\ Tell(n, a) /\ set_account(n, a)
  /\ Notify(n)

\* ACCOUNT, of a login or of a logout
Account(n, a) ==
  /\ Read /\ n \in online
  /\ told[n] # a
  /\ Tell(n, a) /\ set_account(n, a)
  /\ Notify(n)
  /\ UNCHANGED online

\* PRIVMSG and NOTICE, or ACTION.  Its account-tag names the account of a
\* sender who has one; the coroutine is created with the account in the state.
Message(n, kind) ==
  /\ Read /\ n \in online
  /\ IF told[n] # NoAccount
       THEN Tell(n, told[n]) /\ set_account(n, told[n])
       ELSE UNCHANGED <<told, revived, account>>
  /\ _dispatch_application([kind |-> kind, nick |-> n, account |-> account'[n]])
  /\ UNCHANGED online

\* QUIT, or PART of the last channel: the user is dropped.
Leaves(n) ==
  /\ Read /\ n \in online
  /\ online' = online \ {n}
  /\ Tell(n, NoAccount) /\ set_account(n, NoAccount)
  /\ Notify(n)

\* NICK: the user object moves to the new key, and with it what it says.
Nick(n, m) ==
  /\ Read /\ n \in online /\ m \notin online
  /\ online' = (online \ {n}) \cup {m}
  /\ told' = [told EXCEPT ![m] = told[n], ![n] = NoAccount]
  /\ account' = [account EXCEPT ![m] = account[n], ![n] = NoAccount]
  /\ revived' = (revived \ {n, m}) \cup (IF n \in revived THEN {m} ELSE {})
  /\ Notify(n)

\* AWAY, CHGHOST, INVITE, TAGMSG, MODE, TOPIC: for the account they are as
\* messages, and each is an event of its hook.
OtherLine(n) == Message(n, "other")

\* WHOX (354): the reply names the account, "0" for none.
WhoReply(n) ==
  /\ Read /\ n \in online
  /\ Tell(n, told[n]) /\ set_account(n, told[n])
  /\ UNCHANGED <<online, queue, reading>>

Ping ==
  /\ ~ping /\ ping' = TRUE
  /\ UNCHANGED <<people, queue, loop, reading, outbox, lines>>

\* PONG has priority: the sender writes it without queueing it.
Pong ==
  /\ reading = "idle" /\ ping
  /\ ping' = FALSE
  /\ UNCHANGED <<people, queue, loop, reading, outbox, lines>>

\* A CTCP query or the bot's own JOIN, for which the reader itself sends a line.
Query ==
  /\ Read
  /\ reading' = "sending"
  /\ UNCHANGED <<people, queue>>

-----------------------------------------------------------------------------
\* The end of _connect_once() and the start of the next: both tasks are
\* cancelled, _close_event_queue(), the sender stops, the state is cleared.
EndConnection ==
  /\ online' = {} /\ told' = Nobody /\ account' = Nobody /\ revived' = {}
  /\ queue' = <<>> /\ handler' = "idle" /\ acting' = <<>>
  /\ reading' = "idle" /\ outbox' = <<>> /\ ping' = FALSE
  /\ UNCHANGED lines

-----------------------------------------------------------------------------
(* The sender's queue: send() returns when the line has been written.      *)

ReaderSends ==
  /\ reading = "sending" /\ Len(outbox) < OutboxSize
  /\ outbox' = Append(outbox, "reader") /\ reading' = "sent"
  /\ UNCHANGED <<people, queue, loop, ping, lines>>

\* The timeout of the put: an error to whoever runs the handler.
HandlerGivesUp ==
  /\ handler = "sending" /\ Len(outbox) = OutboxSize
  /\ handler' = "running"
  /\ UNCHANGED <<people, queue, acting, reading, outbox, ping, lines>>

HandlerSends ==
  /\ handler = "sending" /\ Len(outbox) < OutboxSize
  /\ outbox' = Append(outbox, "handler") /\ handler' = "sent"
  /\ UNCHANGED <<people, queue, acting, reading, ping, lines>>

\* Feeds, the control socket and tasks of modules
OtherSends ==
  /\ Len(outbox) < OutboxSize
  /\ outbox' = Append(outbox, "other")
  /\ UNCHANGED <<people, queue, loop, reading, ping, lines>>

Transmit ==
  /\ outbox # <<>>
  /\ outbox' = Tail(outbox)
  /\ handler' = IF Head(outbox) = "handler" THEN "running" ELSE handler
  /\ reading' = IF Head(outbox) = "reader" THEN "idle" ELSE reading
  /\ UNCHANGED <<people, queue, acting, ping, lines>>

-----------------------------------------------------------------------------
(* _event_loop().                                                          *)

\* The handler writes the account it was created with, unless it is None.
WriteBack(e) ==
  IF e.account # NoAccount
    THEN /\ account' = [account EXCEPT ![e.nick] = e.account]
         /\ revived' = IF e.nick \in online /\ told[e.nick] # e.account
                         THEN revived \cup {e.nick} ELSE revived
    ELSE UNCHANGED <<account, revived>>

\* get() and the coroutine up to its first await.
Handle ==
  /\ handler = "idle" /\ queue # <<>>
  /\ LET e == Head(queue) IN
       /\ IF e.kind = "message" THEN WriteBack(e) ELSE UNCHANGED <<account, revived>>
       /\ handler' = IF e.kind = "action" THEN "moderating" ELSE "running"
       /\ acting' = IF e.kind = "action" THEN <<e>> ELSE <<>>
  /\ queue' = Tail(queue)
  /\ UNCHANGED <<online, told, reading, outbox, ping, lines>>

\* An ACTION is moderated before its account is written, if it still is.  The
\* moderation's own commands are part of the step, which may be as late as
\* they are: the place they take in the sender's queue is not counted.
Moderated ==
  /\ handler = "moderating"
  /\ handler' = "running" /\ acting' = <<>>
  /\ WriteBack(acting[1]) \/ UNCHANGED <<account, revived>>
  /\ UNCHANGED <<online, told, queue, reading, outbox, ping, lines>>

\* A reply, or a moderation command
Reply ==
  /\ handler = "running"
  /\ handler' = "sending"
  /\ UNCHANGED <<people, queue, acting, reading, outbox, ping, lines>>

\* It returned or raised; task_done() either way.
Done ==
  /\ handler = "running"
  /\ handler' = "idle"
  /\ UNCHANGED <<people, queue, acting, reading, outbox, ping, lines>>

Reconnect == EndConnection

\* The timeout of the reader's own put() raises out of _listen().
ReaderGivesUp ==
  /\ reading = "sending" /\ Len(outbox) = OutboxSize
  /\ EndConnection

EventsNext ==
  \/ \E n \in Nicks, a \in Values : Arrives(n, a) \/ Account(n, a)
  \/ \E n \in Nicks, kind \in {"message", "action"} : Message(n, kind)
  \/ \E n \in Nicks : Leaves(n) \/ OtherLine(n) \/ WhoReply(n)
  \/ \E n, m \in Nicks : Nick(n, m)
  \/ Ping \/ Pong \/ Query
  \/ ReaderSends \/ HandlerSends \/ OtherSends \/ Transmit
  \/ HandlerGivesUp \/ ReaderGivesUp
  \/ Handle \/ Moderated \/ Reply \/ Done \/ Reconnect

\* The reader and the sender are scheduled, and put() ends, if only by its
\* timeout.  A handler need never return.
Fairness ==
  /\ WF_eventVars(Pong) /\ WF_eventVars(Transmit)
  /\ WF_eventVars(ReaderSends \/ ReaderGivesUp)

EventsSpec == EventsInit /\ [][EventsNext]_eventVars /\ Fairness

-----------------------------------------------------------------------------
(* Properties.                                                             *)

\* The state has the account that the server told last (login, logout, tag,
\* join), through nick changes and departures, but for the nicks for which a
\* handler has written an older one since.
AccountsTracked == \A n \in online \ revived : account[n] = told[n]

\* The same with no exception: `account-notify' is said to be tracked, logout
\* included.  A message that was queued before the logout and handled after it
\* brings the account back.
AccountsAsTold == \A n \in online : account[n] = told[n]

\* However long a command or plugin takes, even for ever, and whatever else is
\* sent, the server gets its PONG, though the reader sends its own replies
\* through the queue that commands fill, or the connection is given up.
PingsAnswered == ping ~> ~ping
=============================================================================
