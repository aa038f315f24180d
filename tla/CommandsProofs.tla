----------------------------- MODULE CommandsProofs -----------------------------
(***************************************************************************)
(* Theorems about Commands and the PluginWorker in it, for every set of    *)
(* dispatchers, users and seeded owners: requests and their answers, the   *)
(* child process, who owns the bot, and the numbers of role bindings.      *)
(***************************************************************************)
EXTENDS Commands, FiniteSetTheorems, WellFoundedInduction, TLAPS

\* Nothing is on its way through the pipes.
Idle == requests = <<>> /\ job = 0 /\ responses = <<>>

\* One request is, that of the caller who waits.
InFlight ==
  /\ lock # NoCaller /\ call[lock] = "reading" /\ asked[lock] # 0
  /\ \/ requests = <<asked[lock]>> /\ job = 0 /\ responses = <<>>
     \/ requests = <<>> /\ job = asked[lock] /\ responses = <<>>
     \/ /\ requests = <<>> /\ job = 0
        /\ \E ok \in BOOLEAN : responses = <<[id |-> asked[lock], ok |-> ok]>>

CallTypes ==
  /\ serial \in Nat
  /\ asked \in [Callers -> Nat] /\ answered \in [Callers -> Nat]
  /\ lock \in Callers \cup {NoCaller}
  /\ call \in [Callers -> {"idle", "reading", "reaping"}]
  /\ \A c \in Callers : call[c] # "idle" <=> lock = c

Inv ==
  /\ CallTypes
  /\ process \in BOOLEAN
  /\ loader = "no" => lock = NoCaller /\ ~process /\ ~started
  /\ child = "up" => process
  /\ ~process => Idle
  /\ Idle \/ InFlight
  /\ AnswersMatch

LEMMA InitInv == Init => Inv
<1> SUFFICES ASSUME Init PROVE Inv
  OBVIOUS
<1> USE WorkerAssumption DEF Init, WorkerInit, Callers
<1>1. CallTypes
  BY DEF CallTypes
<1>2. Idle
  BY DEF Idle
<1>3. AnswersMatch
  BY DEF AnswersMatch
<1> QED
  BY <1>1, <1>2, <1>3 DEF Inv

\* Whatever ends a request, the pipes of its child go with it.
LEMMA FailInv ==
  ASSUME Inv, NEW c \in Callers, Fail(c), lock \in {c, NoCaller},
         UNCHANGED <<serial, asked, answered, loader, started>>
  PROVE  Inv'
<1> USE WorkerAssumption DEF Fail, on_unload, Inv, Callers
<1>1. CallTypes'
  BY DEF CallTypes
<1>2. ~process' /\ Idle'
  BY DEF Idle, subprocess
<1>3. AnswersMatch' /\ child' # "up"
  BY DEF AnswersMatch, subprocess
<1>4. loader' = "no" => lock' = NoCaller /\ ~started'
  OBVIOUS
<1> QED
  BY <1>1, <1>2, <1>3, <1>4

\* A request is written only when nothing is on its way.
LEMMA WriteInv ==
  ASSUME Inv, NEW c \in Callers, lock = NoCaller, Write(c),
         process' = TRUE, job' = job, responses' = responses,
         loader' # "no"
  PROVE  Inv'
<1> USE WorkerAssumption DEF Write, Inv, Callers
<1>1. Idle
  BY DEF InFlight
<1>2. CallTypes'
  BY DEF CallTypes
<1>3. serial' # 0 /\ asked'[c] = serial' /\ lock' = c /\ call'[c] = "reading"
  BY DEF CallTypes
<1>4. requests' = <<serial'>>
  BY <1>1 DEF Idle
<1>5. InFlight'
  BY <1>1, <1>3, <1>4 DEF InFlight, Idle
<1>6. AnswersMatch'
  BY DEF AnswersMatch, CallTypes
<1> QED
  BY <1>2, <1>5, <1>6

LEMMA RequestInv ==
  ASSUME Inv, NEW c \in Callers, request(c), started, UNCHANGED started
  PROVE  Inv'
<1> USE DEF request
<1>1. CASE Busy
  BY <1>1 DEF Busy, Inv, calls, subprocess, CallTypes, Idle, InFlight, AnswersMatch
<1>2. CASE \E oversized \in BOOLEAN : Refuse(c, oversized)
  BY <1>2, FailInv DEF Refuse
<1>3. CASE lock = NoCaller /\ process /\ Write(c) /\ UNCHANGED <<process, child, job, responses>>
  <2>1. loader' # "no" /\ process' = TRUE
    BY <1>3 DEF Inv
  <2> QED
    BY <1>3, <2>1, WriteInv
<1> QED
  BY <1>1, <1>2, <1>3

\* The caller's own steps: an answer is that to what it wrote.
LEMMA CallerInv ==
  ASSUME Inv, NEW c \in Callers, UNCHANGED started,
         Read(c) \/ EndOfFile(c) \/ TimeOut(c) \/ Cancel(c) \/ Reaped(c)
  PROVE  Inv'
<1> USE WorkerAssumption
<1>1. call[c] # "idle" => lock = c
  BY DEF Inv, CallTypes
<1>2. CASE Read(c)
  <2> DEFINE Given ==
        /\ answered' = [answered EXCEPT ![c] = Head(responses).id]
        /\ responses' = Tail(responses)
        /\ call' = [call EXCEPT ![c] = "idle"] /\ lock' = NoCaller
        /\ UNCHANGED <<process, child, job, requests>>
  <2>1. call[c] = "reading" /\ responses # <<>> /\ UNCHANGED <<asked, serial, loader>>
    BY <1>2 DEF Read
  <2>2. Given \/ (Fail(c) /\ UNCHANGED answered)
    BY <1>2 DEF Read
  <2>3. CASE Given
    <3>1. lock = c /\ c # NoCaller
      BY <1>1, <2>1 DEF Callers
    <3>2. InFlight
      BY <2>1 DEF Inv, Idle
    <3>3. requests = <<>> /\ job = 0 /\ \E ok \in BOOLEAN : responses = <<[id |-> asked[c], ok |-> ok]>>
      BY <2>1, <3>1, <3>2 DEF InFlight
    <3>4. Head(responses).id = asked[c] /\ Tail(responses) = <<>>
      BY <3>3
    <3>5. Idle'
      BY <2>3, <3>3, <3>4 DEF Idle
    <3>6. asked[c] \in Nat
      BY DEF Inv, CallTypes
    <3>7. CallTypes'
      BY <2>1, <2>3, <3>1, <3>4, <3>6 DEF Inv, CallTypes, Callers
    <3>8. AnswersMatch'
      BY <2>1, <2>3, <3>4 DEF Inv, AnswersMatch, CallTypes
    <3> QED
      BY <2>1, <2>3, <3>1, <3>5, <3>7, <3>8 DEF Inv
  <2>4. CASE Fail(c) /\ UNCHANGED answered
    BY <1>1, <2>1, <2>4, FailInv
  <2> QED
    BY <2>2, <2>3, <2>4
<1>3. CASE EndOfFile(c)
  BY <1>1, <1>3, FailInv DEF EndOfFile
<1>4. CASE TimeOut(c)
  BY <1>1, <1>4, FailInv DEF TimeOut
<1>5. CASE Cancel(c) /\ call[c] = "reading"
  BY <1>1, <1>5, FailInv DEF Cancel
<1>6. CASE call[c] = "reaping" /\ (Reaped(c) \/ Cancel(c))
  <2>1. lock = c /\ c # NoCaller
    BY <1>1, <1>6 DEF Callers
  <2>2. Idle
    BY <1>6, <2>1 DEF Inv, InFlight
  <2>3. call' = [call EXCEPT ![c] = "idle"] /\ lock' = NoCaller
        /\ UNCHANGED <<process, subprocess, asked, answered, serial, loader>>
    BY <1>6 DEF Reaped, Cancel
  <2>4. CallTypes'
    BY <2>1, <2>3 DEF Inv, CallTypes, Callers
  <2> QED
    BY <2>2, <2>3, <2>4 DEF Inv, subprocess, Idle, AnswersMatch
<1> QED
  BY <1>2, <1>3, <1>4, <1>5, <1>6 DEF Cancel, Reaped

\* The child's steps hand the one request on.
LEMMA ChildInv ==
  ASSUME Inv, UNCHANGED started, Take \/ (\E ok \in BOOLEAN : Respond(ok)) \/ Die
  PROVE  Inv'
<1>1. UNCHANGED <<lock, call, asked, answered, serial, loader, process>>
  BY DEF Take, Respond, Die, calls
<1>2. CallTypes' /\ AnswersMatch'
  BY <1>1 DEF Inv, CallTypes, AnswersMatch
<1>3. CASE Take
  <2>1. InFlight /\ requests = <<asked[lock]>> /\ job = 0 /\ responses = <<>>
    BY <1>3 DEF Take, Inv, Idle, InFlight
  <2>2. Head(requests) = asked[lock] /\ Tail(requests) = <<>>
    BY <2>1
  <2>3. InFlight'
    BY <1>1, <1>3, <2>1, <2>2 DEF Take, InFlight
  <2> QED
    BY <1>1, <1>2, <1>3, <2>3 DEF Take, Inv
<1>4. CASE \E ok \in BOOLEAN : Respond(ok)
  <2> PICK ok \in BOOLEAN : Respond(ok)
    BY <1>4
  <2>1. InFlight /\ requests = <<>> /\ job = asked[lock] /\ responses = <<>>
    BY DEF Respond, Inv, Idle, InFlight
  <2>2. responses' = <<[id |-> asked[lock], ok |-> ok]>>
    BY <2>1 DEF Respond
  <2>3. InFlight'
    BY <1>1, <2>1, <2>2 DEF Respond, InFlight
  <2> QED
    BY <1>1, <1>2, <2>3 DEF Respond, Inv
<1>5. CASE Die
  <2>1. (Idle \/ InFlight)'
    BY <1>1, <1>5 DEF Die, Inv, Idle, InFlight
  <2> QED
    BY <1>1, <1>2, <1>5, <2>1 DEF Die, Inv
<1> QED
  BY <1>3, <1>4, <1>5

LEMMA NextInv ==
  ASSUME Inv, [Next]_vars
  PROVE  Inv'
<1> USE WorkerAssumption
<1>1. CASE Boot
  <2>1. lock = NoCaller /\ ~process /\ Idle
    BY <1>1 DEF Boot, Inv
  <2> QED
    BY <1>1, <2>1, WriteInv DEF Boot, start, Callers
<1>2. CASE LoadWorker
  BY <1>2 DEF LoadWorker, Loaded, Inv, calls, subprocess, CallTypes, Idle, InFlight,
              AnswersMatch
<1>3. CASE BeginUnload
  <2>1. CallTypes' /\ AnswersMatch' /\ ~process' /\ loader' # "no"
    BY <1>3 DEF BeginUnload, Unload, on_unload, calls, Inv, CallTypes, AnswersMatch
  <2>2. Idle' /\ child' # "up" /\ process' \in BOOLEAN
    BY <1>3 DEF BeginUnload, Unload, on_unload, subprocess, Inv, Idle
  <2> QED
    BY <2>1, <2>2 DEF Inv
<1>4. CASE EndUnload
  BY <1>4 DEF EndUnload, Unloaded, Inv, calls, subprocess, CallTypes, Idle, InFlight,
              AnswersMatch
<1>5. CASE Restart
  BY <1>5 DEF Restart, Inv, CallTypes, Idle, AnswersMatch, Callers
<1>6. ASSUME NEW d \in Dispatchers, NEW user \in Identities, NEW command \in {"role", "worker"},
             dispatch(d, user, command)
      PROVE  Inv'
  <2>1. CASE request(d)
    BY <1>6, <2>1, RequestInv DEF dispatch, Callers
  <2>2. CASE UNCHANGED workerVars
    BY <1>6, <2>2 DEF dispatch, workerVars, calls, subprocess, Inv, CallTypes, Idle,
                      InFlight, AnswersMatch
  <2> QED
    BY <1>6, <2>1, <2>2 DEF dispatch
<1>7. CASE Hook
  BY <1>7, RequestInv, CommandsAssumption DEF Hook, Other, Callers
<1>8. CASE \E c \in Callers :
             (Read(c) \/ EndOfFile(c) \/ TimeOut(c) \/ Cancel(c) \/ Reaped(c)) /\ Other
  BY <1>8, CallerInv DEF Other
<1>9. CASE (Take \/ (\E ok \in BOOLEAN : Respond(ok)) \/ Die) /\ Other
  BY <1>9, ChildInv DEF Other
<1>10. CASE UNCHANGED vars \/ OrphanEnds
  BY <1>10 DEF vars, OrphanEnds, workerVars, calls, subprocess, Inv, CallTypes, Idle, InFlight,
               AnswersMatch
<1> QED
  BY <1>1, <1>2, <1>3, <1>4, <1>5, <1>6, <1>7, <1>8, <1>9, <1>10 DEF Next

-----------------------------------------------------------------------------
(***************************************************************************)
(* For any number of dispatchers, whatever times out, is cancelled, dies   *)
(* or is unloaded: a caller of request() is given the replies to its own   *)
(* request, because no second one is written before the pipes are empty.   *)
(***************************************************************************)
THEOREM EveryAnswerMatches == Spec => []AnswersMatch
<1>1. Inv /\ [Next]_vars => Inv'
  BY NextInv
<1>2. Inv => AnswersMatch
  BY DEF Inv
<1> QED
  BY InitInv, <1>1, <1>2, PTL DEF Spec

(***************************************************************************)
(* Nothing is handled, or waits to be, of a request that nobody awaits any *)
(* more: whatever ended the request has ended the child with it.           *)
(***************************************************************************)
THEOREM NoWorkIsLeft == Spec => []WorkIsAwaited
<1>1. Inv /\ [Next]_vars => Inv'
  BY NextInv
<1>2. ASSUME Inv
      PROVE  WorkIsAwaited
  <2>1. CASE Idle
    BY <2>1 DEF Idle, WorkIsAwaited, ToSet
  <2>2. CASE InFlight
    <3>1. lock \in Callers /\ call[lock] = "reading" /\ asked[lock] # 0
      BY <1>2, <2>2 DEF Inv, CallTypes, InFlight
    <3>2. {job} \cup ToSet(requests) \subseteq {0, asked[lock]}
      BY <2>2 DEF InFlight, ToSet
    <3> QED
      BY <3>1, <3>2 DEF WorkIsAwaited
  <2> QED
    BY <1>2, <2>1, <2>2 DEF Inv
<1> QED
  BY InitInv, <1>1, <1>2, PTL DEF Spec

-----------------------------------------------------------------------------
\* Of the callers' steps, only the one who reads ends the worker.
LEMMA CallerEnds ==
  ASSUME Inv, NEW d \in Callers,
         Read(d) \/ EndOfFile(d) \/ TimeOut(d) \/ Cancel(d) \/ Reaped(d),
         process, ~process'
  PROVE  lock = d /\ call'[d] # "reading"
<1>1. call[d] # "idle" /\ Fail(d)
  BY DEF Read, EndOfFile, TimeOut, Cancel, Reaped
<1> QED
  BY <1>1 DEF Fail, Inv, CallTypes

(***************************************************************************)
(* Whoever else calls while a request is out, the worker goes on for it:   *)
(* it ends with a failure of the reader, or with an unload.                *)
(***************************************************************************)
THEOREM OnlyItsReaderEndsIt == Spec => NobodyElseEndsIt
<1>1. Inv /\ [Next]_vars => Inv'
  BY NextInv
<1>2. ASSUME Inv, [Next]_vars, NEW c \in Callers, call[c] = "reading", process, ~process'
      PROVE  call'[c] # "reading" \/ loader' = "unloading"
  <2> USE WorkerAssumption
  <2>1. lock = c /\ c # NoCaller /\ loader # "no"
    BY <1>2 DEF Inv, CallTypes, Callers
  <2>2. ~Boot
    BY <2>1 DEF Boot
  <2>3. CASE LoadWorker \/ EndUnload
    BY <1>2, <2>3 DEF LoadWorker, Loaded, EndUnload, Unloaded
  <2>4. CASE BeginUnload
    BY <2>4 DEF BeginUnload, Unload
  <2>5. CASE Restart
    BY <2>5 DEF Restart
  <2>6. ASSUME NEW d \in Dispatchers, request(d)
        PROVE  FALSE
    BY <1>2, <2>1, <2>6 DEF request, Busy, Refuse
  <2>7. ASSUME NEW d \in Callers,
               Read(d) \/ EndOfFile(d) \/ TimeOut(d) \/ Cancel(d) \/ Reaped(d)
        PROVE  call'[c] # "reading"
    BY <1>2, <2>1, <2>7, CallerEnds
  <2>8. CASE Take \/ (\E ok \in BOOLEAN : Respond(ok)) \/ Die
    BY <1>2, <2>8 DEF Take, Respond, Die
  <2>9. ~UNCHANGED workerVars
    BY <1>2 DEF workerVars
  <2>10. ~UNCHANGED vars /\ ~OrphanEnds
    BY <2>9 DEF vars, OrphanEnds
  <2> QED
    BY <1>2, <2>2, <2>3, <2>4, <2>5, <2>6, <2>7, <2>8, <2>9, <2>10, CommandsAssumption
       DEF Next, dispatch, Hook
<1>3. Inv /\ [Next]_vars =>
        [\A c \in Callers : call[c] = "reading" /\ process /\ ~process' =>
           call'[c] # "reading" \/ loader' = "unloading"]_workerVars
  BY <1>2
<1> QED
  BY InitInv, <1>1, <1>3, PTL DEF Spec, NobodyElseEndsIt

-----------------------------------------------------------------------------
\* What a step does to the bindings: nothing, a start's seeds, or a command.
LEMMA TableSteps ==
  ASSUME [Next]_vars
  PROVE  \/ UNCHANGED <<table, seeded>>
         \/ ~started /\ bootstrap_owner_bindings
         \/ started /\ RoleCommand
<1> USE DEF authVars, Other
<1>1. CASE Boot
  BY <1>1 DEF Boot
<1>2. CASE LoadWorker \/ BeginUnload \/ EndUnload \/ Restart \/ OrphanEnds \/ Hook
  BY <1>2 DEF LoadWorker, BeginUnload, EndUnload, Restart, OrphanEnds, Hook
<1>3. CASE \E d \in Dispatchers, user \in Identities, command \in {"role", "worker"} :
             dispatch(d, user, command)
  BY <1>3 DEF dispatch
<1> QED
  BY <1>1, <1>2, <1>3 DEF Next, vars

LEMMA RemovalLeavesAnOwner ==
  ASSUME NEW id, RoleRemove(id), Owners(table) # {}
  PROVE  Owners(table') # {}
<1> PICK b \in table :
      ~(b.role = "owner" /\ Cardinality(Owners(table)) = 1) /\ table' = table \ {b}
  BY DEF RoleRemove, Commit
<1>1. CASE b.role # "owner"
  BY <1>1 DEF Owners
<1>2. CASE b.role = "owner"
  <2>1. Owners(table) # {b}
    BY <1>2, FS_Singleton
  <2> QED
    BY <1>2, <2>1 DEF Owners
<1> QED
  BY <1>1, <1>2

(***************************************************************************)
(* For any number of users and bindings: an owner who is there stays, or   *)
(* another does.  The rule counts owners before it removes, in one step.   *)
(***************************************************************************)
THEOREM SomebodyOwns == Spec => OwnerRemains
<1>1. ASSUME [Next]_vars, Owners(table) # {}
      PROVE  Owners(table') # {}
  <2>1. CASE UNCHANGED <<table, seeded>>
    BY <1>1, <2>1
  <2>2. CASE bootstrap_owner_bindings
    BY <1>1, <2>2 DEF bootstrap_owner_bindings, Owners
  <2>3. CASE RoleCommand
    <3>1. ASSUME NEW role \in RoleNames, NEW user \in Users, RoleAdd(role, user)
          PROVE  Owners(table') # {}
      BY <1>1, <3>1 DEF RoleAdd, Commit, Owners
    <3>2. ASSUME NEW id \in 1 .. MaxBindings, RoleRemove(id)
          PROVE  Owners(table') # {}
      BY <1>1, <3>2, RemovalLeavesAnOwner
    <3>3. CASE RoleOther
      BY <1>1, <3>3 DEF RoleOther
    <3> QED
      BY <2>3, <3>1, <3>2, <3>3 DEF RoleCommand
  <2> QED
    BY <1>1, <2>1, <2>2, <2>3, TableSteps
<1>2. [Next]_vars => [Owners(table) # {} => Owners(table') # {}]_vars
  BY <1>1
<1> QED
  BY <1>2, PTL DEF Spec, OwnerRemains

(***************************************************************************)
(* No start changes who owns the bot, once somebody does or did.           *)
(***************************************************************************)
THEOREM NoStartRestores == Spec => RemovedStaysRemoved
<1>1. [Next]_vars =>
        [~started /\ Owners(table') # Owners(table) => Owners(table) = {} /\ ~seeded]_vars
  BY TableSteps DEF bootstrap_owner_bindings
<1> QED
  BY <1>1, PTL DEF Spec, RemovedStaysRemoved

-----------------------------------------------------------------------------
\* From the start on the copy has nothing but what is in the table, or was
\* removed since the last refresh; nobody is served before that.
AuthInv ==
  /\ loader # "no" => cache \subseteq table \cup overdue
  /\ loader = "no" => ~started

LEMMA AuthInvInductive ==
  ASSUME AuthInv, [Next]_vars
  PROVE  AuthInv'
<1> USE DEF AuthInv, authVars, Other
<1>1. CASE Boot
  BY <1>1 DEF Boot, Refreshed, start
<1>2. CASE LoadWorker \/ BeginUnload \/ EndUnload \/ Restart \/ OrphanEnds
  BY <1>2 DEF LoadWorker, Loaded, BeginUnload, Unload, EndUnload, Unloaded, Restart, OrphanEnds,
              workerVars
<1>3. ASSUME NEW d \in Dispatchers, NEW user \in Identities, NEW command \in {"role", "worker"},
             dispatch(d, user, command)
      PROVE  AuthInv'
  <2>1. CASE RoleCommand /\ UNCHANGED workerVars
    <3>1. \/ \E bindings : Commit(bindings)
          \/ UNCHANGED <<table, cache, overdue>>
      BY <2>1 DEF RoleCommand, RoleAdd, RoleRemove, RoleOther
    <3>2. cache \subseteq table \cup overdue => cache' \subseteq table' \cup overdue'
      BY <3>1 DEF Commit, Refreshed
    <3> QED
      BY <1>3, <2>1, <3>2 DEF dispatch, workerVars
  <2>2. CASE request(d) /\ UNCHANGED authVars
    BY <1>3, <2>2 DEF dispatch, request
  <2> QED
    BY <1>3, <2>1, <2>2 DEF dispatch
<1>4. CASE Hook
  BY <1>4 DEF Hook, request
<1>5. CASE \E c \in Callers :
             (Read(c) \/ EndOfFile(c) \/ TimeOut(c) \/ Cancel(c) \/ Reaped(c)) /\ Other
  BY <1>5 DEF Read, EndOfFile, TimeOut, Cancel, Reaped
<1>6. CASE (Take \/ (\E ok \in BOOLEAN : Respond(ok)) \/ Die) /\ Other
  BY <1>6 DEF Take, Respond, Die
<1>7. CASE UNCHANGED vars
  BY <1>7 DEF vars, workerVars
<1> QED
  BY <1>1, <1>2, <1>3, <1>4, <1>5, <1>6, <1>7 DEF Next

(***************************************************************************)
(* For every role that the worker asks for and any number of users: the    *)
(* role that lets a user in is in the table when the command begins, or    *)
(* was removed by a command whose refresh failed, and none succeeded since.*)
(***************************************************************************)
THEOREM AuthorityComesFromTheTable == Spec => AuthorityIsCurrent
<1>1. Init => AuthInv
  BY DEF Init, WorkerInit, AuthInv
<1>2. AuthInv /\ [Next]_vars => AuthInv'
  BY AuthInvInductive
<1>3. ASSUME AuthInv, Next, NEW u \in Users, NEW command \in {"role", "worker"},
             ran' = <<u, command>>
      PROVE  _roles_satisfy({"user"} \cup {b.role : b \in {d \in table \cup overdue : d.user = u}},
                            Required(command))
  <2>1. ran' # <<>>
    BY <1>3
  <2>2. PICK d \in Dispatchers, user \in Identities, asks \in {"role", "worker"} :
          dispatch(d, user, asks)
    BY <1>3, <2>1 DEF Next, Boot, LoadWorker, BeginUnload, EndUnload, Restart, OrphanEnds, Hook,
                      Other
  <2>3. user = u /\ asks = command /\ u # Local
    BY <1>3, <2>2, CommandsAssumption DEF dispatch
  <2>4. cache \subseteq table \cup overdue
    BY <1>3, <2>2 DEF dispatch, AuthInv
  <2>5. _roles_satisfy(RolesOf(u), Required(command))
    BY <2>2, <2>3 DEF dispatch
  <2>6. RolesOf(u) \subseteq {"user"} \cup {b.role : b \in {e \in table \cup overdue : e.user = u}}
    BY <2>3, <2>4 DEF RolesOf
  <2> QED
    BY <2>5, <2>6 DEF _roles_satisfy
<1>4. AuthInv /\ [Next]_vars =>
        [\A u \in Users, command \in {"role", "worker"} :
           ran' = <<u, command>> =>
             _roles_satisfy({"user"} \cup {b.role : b \in {d \in table \cup overdue : d.user = u}},
                            Required(command))]_vars
  BY <1>3
<1> QED
  BY <1>1, <1>2, <1>4, PTL DEF Spec, AuthorityIsCurrent

-----------------------------------------------------------------------------
(* The types, with the numbers of the bindings, of which `role remove'     *)
(* names one.                                                              *)

LEMMA LargestThere ==
  ASSUME NEW S \in SUBSET Nat, IsFiniteSet(S), S # {}
  PROVE  \E m \in S : \A k \in S : k <= m
<1> DEFINE Above(i) == {k \in S : i <= k}
           T == {Above(i) : i \in S}
           R == StrictSubsetOrdering(S)
<1>1. T \subseteq FiniteSubsetsOf(S) /\ T # {}
  <2>1. ASSUME NEW i \in S
        PROVE  Above(i) \in FiniteSubsetsOf(S)
    BY FS_Subset DEF FiniteSubsetsOf
  <2> QED
    BY <2>1
<1>2. \E x \in T : \A y \in T : ~(<<y, x>> \in R)
  <2>1. IsWellFoundedOn(R, FiniteSubsetsOf(S))
    BY FS_StrictSubsetOrderingWellFounded
  <2> HIDE DEF T, R
  <2> QED
    BY <1>1, <2>1, WFMin
<1>3. PICK m \in S : \A y \in T : ~(<<y, Above(m)>> \in R)
  BY <1>2
<1>4. ASSUME NEW k \in S, m < k
      PROVE  FALSE
  <2>1. k \in Nat /\ m \in Nat /\ \A i \in S : i \in Nat
    OBVIOUS
  <2>2. \A i \in S : k <= i => m <= i
    BY <1>4, <2>1
  <2>3. m <= m /\ ~(k <= m)
    BY <1>4, <2>1
  <2>4. Above(k) \subseteq Above(m) /\ m \in Above(m) /\ m \notin Above(k)
    BY <2>2, <2>3
  <2>5. <<Above(k), Above(m)>> \in R
    BY <2>4 DEF StrictSubsetOrdering
  <2> QED
    BY <1>3, <2>5
<1> QED
  BY <1>4

\* The number of a binding names it.
Numbered(bindings) == \A b, d \in bindings : b.id = d.id => b = d

\* A bot that has not been seeded, and could be, has no bindings yet: with
\* them, the numbers of the seeds might not fit.
Rows ==
  /\ table \subseteq Bindings /\ cache \subseteq Bindings /\ overdue \subseteq Bindings
  /\ Numbered(table)
  /\ seeded \in BOOLEAN
  /\ ~seeded /\ Seeds # {} => table = {} /\ loader = "no"

LEMMA NextIdFresh ==
  ASSUME table \subseteq Bindings
  PROVE  /\ NextId \in Nat \ {0} /\ \A b \in table : b.id < NextId
         /\ table = {} => NextId = 1
<1>1. CASE table = {}
  BY <1>1 DEF NextId
<1>2. CASE table # {}
  <2> DEFINE ids == {b.id : b \in table}
  <2>1. ids \subseteq 1 .. MaxBindings /\ ids # {}
    BY <1>2 DEF Bindings
  <2>2. IsFiniteSet(ids) /\ ids \in SUBSET Nat
    <3>1. IsFiniteSet(1 .. MaxBindings) /\ 1 .. MaxBindings \subseteq Nat
      BY FS_Interval, CommandsAssumption
    <3> HIDE DEF ids
    <3> QED
      BY <2>1, <3>1, FS_Subset
  <2>3. \E m \in ids : \A k \in ids : k <= m
    <3> HIDE DEF ids
    <3> QED
      BY <2>1, <2>2, LargestThere
  <2>4. \E b \in table : \A d \in table : d.id <= b.id
    BY <2>3
  <2> DEFINE top == CHOOSE b \in table : \A d \in table : d.id <= b.id
  <2>5. top \in table /\ \A d \in table : d.id <= top.id
    BY <2>4
  <2>6. NextId = top.id + 1
    BY <1>2 DEF NextId
  <2>7. \A b \in table : b.id \in 1 .. MaxBindings
    BY DEF Bindings
  <2> HIDE DEF top
  <2>8. top.id \in Nat /\ \A b \in table : b.id \in Nat
    BY <2>5, <2>7, CommandsAssumption
  <2> QED
    BY <1>2, <2>5, <2>6, <2>8
<1> QED
  BY <1>1, <1>2

\* The seeds of a bot without bindings are numbered from 1.
LEMMA SeedsNumbered ==
  ASSUME table = {}
  PROVE  SeedRows \subseteq Bindings /\ Numbered(SeedRows)
<1> DEFINE free == NextId .. NextId + Cardinality(Seeds) - 1
           number == CHOOSE f \in [Seeds -> free] : \A s, u \in Seeds : f[s] = f[u] => s = u
<1>1. NextId = 1 /\ Cardinality(Seeds) \in Nat /\ IsFiniteSet(Seeds)
  BY CommandsAssumption, FS_CardinalityType DEF NextId
<1>2. free = 1 .. Cardinality(Seeds)
  BY <1>1
<1>3. IsFiniteSet(free) /\ Cardinality(free) = Cardinality(Seeds)
  <2>1. /\ IsFiniteSet(1 .. Cardinality(Seeds))
        /\ Cardinality(1 .. Cardinality(Seeds)) =
             IF 1 > Cardinality(Seeds) THEN 0 ELSE Cardinality(Seeds) - 1 + 1
    BY <1>1, FS_Interval
  <2> QED
    BY <1>1, <1>2, <2>1
<1>4. ExistsBijection(Seeds, free)
  <2> HIDE DEF free
  <2> QED
    BY <1>1, <1>3, FS_SameCardinalityBij
<1>5. \E f \in [Seeds -> free] : \A s, u \in Seeds : f[s] = f[u] => s = u
  BY <1>4 DEF ExistsBijection, Bijection, Injection, IsInjective
<1>6. number \in [Seeds -> free] /\ \A s, u \in Seeds : number[s] = number[u] => s = u
  BY <1>5
<1>7. SeedRows = {[id |-> number[s], role |-> "owner", user |-> s] : s \in Seeds}
  BY DEF SeedRows
<1>8. \A s \in Seeds : number[s] \in 1 .. MaxBindings
  <2> HIDE DEF number
  <2> QED
    BY <1>1, <1>2, <1>6, CommandsAssumption
<1> HIDE DEF number, free
<1>9. SeedRows \subseteq Bindings
  BY <1>7, <1>8, CommandsAssumption DEF Bindings, RoleNames
<1>10. Numbered(SeedRows)
  BY <1>6, <1>7 DEF Numbered
<1> QED
  BY <1>9, <1>10

LEMMA AddNumbered ==
  ASSUME table \subseteq Bindings, Numbered(table), NEW role \in RoleNames, NEW user \in Users,
         RoleAdd(role, user)
  PROVE  table' \subseteq Bindings /\ Numbered(table')
<1> DEFINE row == [id |-> NextId, role |-> role, user |-> user]
<1>1. table' = table \cup {row} /\ NextId <= MaxBindings
  BY DEF RoleAdd, Commit
<1>2. NextId \in Nat \ {0} /\ \A b \in table : b.id < NextId /\ b.id \in Nat
  BY NextIdFresh, CommandsAssumption DEF Bindings
<1>3. row \in Bindings
  BY <1>1, <1>2, CommandsAssumption DEF Bindings
<1>4. \A b \in table : b.id # row.id
  BY <1>2
<1> HIDE DEF row
<1> QED
  BY <1>1, <1>3, <1>4 DEF Numbered

LEMMA RowsInductive ==
  ASSUME Rows, AuthInv, [Next]_vars
  PROVE  Rows'
<1>1. cache' \in {cache, table'} /\ overdue' \in {overdue, {}, overdue \cup (table \ table')}
  <2>1. CASE Boot \/ LoadWorker \/ BeginUnload \/ EndUnload \/ Restart \/ OrphanEnds \/ Hook
    BY <2>1 DEF Boot, LoadWorker, BeginUnload, EndUnload, Restart, OrphanEnds, Hook, Other,
                Refreshed, authVars
  <2>2. CASE \E d \in Dispatchers, user \in Identities, command \in {"role", "worker"} :
               dispatch(d, user, command)
    BY <2>2 DEF dispatch, RoleCommand, RoleAdd, RoleRemove, RoleOther, Commit, Refreshed, authVars
  <2> QED
    BY <2>1, <2>2 DEF Next, Other, authVars, vars
<1>2. CASE UNCHANGED <<table, seeded>>
  <2>1. ~seeded /\ Seeds # {} => loader' = "no"
    <3>1. loader = "no" /\ loader' # "no" => Boot
      BY DEF Next, LoadWorker, Loaded, BeginUnload, Unload, EndUnload, Unloaded, Restart, OrphanEnds,
             dispatch, Hook, request, Read, EndOfFile, TimeOut, Cancel, Reaped, Take, Respond, Die, vars,
             workerVars
    <3>2. Boot => (Seeds # {} => seeded')
      BY DEF Boot, bootstrap_owner_bindings
    <3> QED
      BY <1>2, <3>1, <3>2 DEF Rows
  <2> QED
    BY <1>1, <1>2, <2>1 DEF Rows, Numbered
<1>3. CASE ~started /\ bootstrap_owner_bindings
  <2>1. seeded' = (seeded \/ Seeds # {})
    BY <1>3 DEF bootstrap_owner_bindings
  <2>2. CASE table' = table
    BY <1>1, <2>1, <2>2 DEF Rows, Numbered
  <2>3. CASE table' = table \cup SeedRows /\ ~seeded
    <3>1. CASE Seeds = {}
      <4>1. SeedRows = {}
        BY <3>1 DEF SeedRows
      <4> QED
        BY <1>1, <2>1, <2>3, <3>1, <4>1 DEF Rows, Numbered
    <3>2. CASE Seeds # {}
      <4>1. table = {} /\ table' = SeedRows
        BY <2>3, <3>2 DEF Rows
      <4>2. table' \subseteq Bindings /\ Numbered(table')
        BY <4>1, SeedsNumbered
      <4> QED
        BY <1>1, <2>1, <3>2, <4>2 DEF Rows, Numbered
    <3> QED
      BY <3>1, <3>2
  <2> QED
    BY <1>3, <2>2, <2>3 DEF bootstrap_owner_bindings
<1>4. CASE started /\ RoleCommand
  <2>1. seeded' = seeded /\ (~seeded => Seeds = {})
    BY <1>4 DEF RoleCommand, Rows, AuthInv
  <2>2. table' \subseteq Bindings /\ Numbered(table')
    <3>1. CASE \E role \in RoleNames, user \in Users : RoleAdd(role, user)
      BY <3>1, AddNumbered DEF Rows, Numbered
    <3>2. CASE \E id \in 1 .. MaxBindings : RoleRemove(id)
      BY <3>2 DEF RoleRemove, Commit, Rows, Numbered
    <3>3. CASE RoleOther
      BY <3>3 DEF RoleOther, Rows, Numbered
    <3> QED
      BY <1>4, <3>1, <3>2, <3>3 DEF RoleCommand
  <2> QED
    BY <1>1, <2>1, <2>2 DEF Rows, Numbered
<1> QED
  BY <1>2, <1>3, <1>4, TableSteps

\* What is written is numbered, and what is on its way is what was written.
Counted ==
  /\ serial \in 0 .. MaxRequests /\ asked \in [Callers -> 0 .. MaxRequests]
  /\ child \in {"absent", "up", "gone"}
  /\ loader \in {"no", "starting", "loaded", "unloading", "unloaded"}
  /\ registered \in BOOLEAN /\ started \in BOOLEAN
  /\ ran \in {<<>>} \cup Identities \X {"role", "worker"}
  /\ restarts \in 0 .. MaxRestarts /\ orphans \subseteq 1 .. MaxRequests

CommandTypes == Inv /\ AuthInv /\ Rows /\ Counted

\* The worker's part of a step.
WorkerCounted ==
  /\ serial \in 0 .. MaxRequests /\ asked \in [Callers -> 0 .. MaxRequests]
  /\ child \in {"absent", "up", "gone"}
  /\ loader \in {"no", "starting", "loaded", "unloading", "unloaded"}

LEMMA WriteCounted ==
  ASSUME serial \in 0 .. MaxRequests, asked \in [Callers -> 0 .. MaxRequests],
         NEW c \in Callers, Write(c)
  PROVE  serial' \in 0 .. MaxRequests /\ asked' \in [Callers -> 0 .. MaxRequests]
<1>1. serial' \in 0 .. MaxRequests
  BY WorkerAssumption DEF Write
<1> QED
  BY <1>1 DEF Write

LEMMA RequestCounted ==
  ASSUME WorkerCounted, NEW c \in Callers, request(c)
  PROVE  WorkerCounted'
<1>1. child' \in {"absent", "up", "gone"}
  BY DEF request, Busy, Refuse, Fail, on_unload, Write, subprocess, WorkerCounted
<1>2. serial' \in 0 .. MaxRequests /\ asked' \in [Callers -> 0 .. MaxRequests]
  BY WriteCounted DEF request, Busy, Refuse, calls, WorkerCounted
<1> QED
  BY <1>1, <1>2 DEF request, WorkerCounted

LEMMA CallerCounted ==
  ASSUME WorkerCounted, NEW c \in Callers,
         Read(c) \/ EndOfFile(c) \/ TimeOut(c) \/ Cancel(c) \/ Reaped(c)
  PROVE  WorkerCounted'
<1>1. UNCHANGED <<serial, asked, loader>>
  BY DEF Read, EndOfFile, TimeOut, Cancel, Reaped
<1>2. child' \in {child, "gone"}
  BY DEF Read, EndOfFile, TimeOut, Cancel, Reaped, Fail, on_unload, subprocess
<1> QED
  BY <1>1, <1>2 DEF WorkerCounted

LEMMA CountedInductive ==
  ASSUME Inv, Counted, [Next]_vars
  PROVE  Counted'
<1>1. WorkerCounted
  BY DEF Counted, WorkerCounted
<1>2. WorkerCounted'
  <2>1. CASE Boot
    <3>1. start /\ Loader \in Callers
      BY <2>1 DEF Boot, Callers
    <3> QED
      BY <1>1, <3>1, WriteCounted DEF start, WorkerCounted
  <2>2. CASE LoadWorker \/ BeginUnload \/ EndUnload
    BY <1>1, <2>2 DEF LoadWorker, Loaded, BeginUnload, Unload, EndUnload, Unloaded, on_unload,
                      calls, subprocess, WorkerCounted
  <2>3. CASE Restart
    BY <1>1, <2>3, WorkerAssumption DEF Restart, WorkerCounted
  <2>4. CASE \E d \in Dispatchers, user \in Identities, command \in {"role", "worker"} :
               dispatch(d, user, command)
    BY <1>1, <2>4, RequestCounted DEF dispatch, Callers, workerVars, calls, subprocess,
       WorkerCounted
  <2>5. CASE Hook
    BY <1>1, <2>5, RequestCounted, CommandsAssumption DEF Hook, Callers
  <2>6. CASE \E c \in Callers : Read(c) \/ EndOfFile(c) \/ TimeOut(c) \/ Cancel(c) \/ Reaped(c)
    BY <1>1, <2>6, CallerCounted
  <2>7. CASE Take \/ (\E ok \in BOOLEAN : Respond(ok)) \/ Die
    BY <1>1, <2>7 DEF Take, Respond, Die, calls, WorkerCounted
  <2>8. CASE UNCHANGED vars \/ OrphanEnds
    BY <1>1, <2>8 DEF vars, OrphanEnds, workerVars, calls, subprocess, WorkerCounted
  <2> QED
    BY <2>1, <2>2, <2>3, <2>4, <2>5, <2>6, <2>7, <2>8 DEF Next
<1>3. registered' \in BOOLEAN
  BY DEF Next, Boot, LoadWorker, BeginUnload, EndUnload, Restart, OrphanEnds, dispatch, Hook,
         Other, vars, Counted
<1>4. started' \in BOOLEAN
  BY DEF Next, Boot, LoadWorker, BeginUnload, EndUnload, Restart, OrphanEnds, dispatch, Hook,
         Other, vars, Counted
<1>5. ran' \in {<<>>} \cup Identities \X {"role", "worker"}
  BY DEF Next, Boot, LoadWorker, BeginUnload, EndUnload, Restart, OrphanEnds, dispatch, Hook,
         Other, vars, Counted
<1>6. restarts' \in 0 .. MaxRestarts
  BY CommandsAssumption
     DEF Next, Boot, LoadWorker, BeginUnload, EndUnload, Restart, OrphanEnds, dispatch, Hook,
         Other, vars, Counted
<1>7. orphans' \subseteq 1 .. MaxRequests
  <2>1. CASE Restart
    <3>1. ToSet(requests) \cup {job} \subseteq {0} \cup {asked[c] : c \in Callers}
      BY DEF Inv, Idle, InFlight, CallTypes, ToSet
    <3>2. (ToSet(requests) \cup {job}) \ {0} \subseteq 1 .. MaxRequests
      BY <3>1, WorkerAssumption DEF Counted
    <3> QED
      BY <2>1, <3>2 DEF Restart, Counted
  <2>2. CASE ~Restart
    <3>1. orphans' \subseteq orphans
      BY <2>2 DEF Next, Boot, LoadWorker, BeginUnload, EndUnload, OrphanEnds, dispatch, Hook,
                  Other, vars
    <3> QED
      BY <3>1 DEF Counted
  <2> QED
    BY <2>1, <2>2
<1> QED
  BY <1>2, <1>3, <1>4, <1>5, <1>6, <1>7 DEF WorkerCounted, Counted

LEMMA CommandTypesInit == Init => CommandTypes
<1> SUFFICES ASSUME Init PROVE CommandTypes
  OBVIOUS
<1>1. Inv
  BY InitInv
<1>2. AuthInv /\ Rows
  BY DEF Init, WorkerInit, AuthInv, Rows, Numbered
<1>3. serial \in 0 .. MaxRequests /\ asked \in [Callers -> 0 .. MaxRequests] /\ restarts \in 0 .. MaxRestarts
      /\ orphans \subseteq 1 .. MaxRequests
  BY WorkerAssumption, CommandsAssumption DEF Init, WorkerInit
<1>4. registered \in BOOLEAN /\ started \in BOOLEAN
  BY Zenon DEF Init
<1>5. Counted
  BY <1>3, <1>4 DEF Init, WorkerInit, Counted
<1> QED
  BY <1>1, <1>2, <1>5 DEF CommandTypes

LEMMA CommandTypesImply == CommandTypes => TypeOK
<1> SUFFICES ASSUME CommandTypes PROVE TypeOK
  OBVIOUS
<1> USE DEF CommandTypes
<1>1. CallTypes /\ process \in BOOLEAN /\ AnswersMatch /\ (Idle \/ InFlight)
  BY DEF Inv
<1>2. answered \in [Callers -> 0 .. MaxRequests]
  <2>1. \A c \in Callers : answered[c] \in 0 .. MaxRequests
    BY <1>1, WorkerAssumption DEF AnswersMatch, Counted
  <2> QED
    BY <1>1, <2>1 DEF CallTypes
<1>3. /\ job \in 0 .. MaxRequests /\ requests \in Seq(1 .. MaxRequests)
      /\ responses \in Seq([id : 1 .. MaxRequests, ok : BOOLEAN])
  <2>1. CASE Idle
    BY <2>1, WorkerAssumption DEF Idle
  <2>2. CASE InFlight
    <3>1. asked[lock] \in 1 .. MaxRequests
      BY <1>1, <2>2, WorkerAssumption DEF InFlight, CallTypes, Counted
    <3>2. 1 .. MaxRequests \subseteq 0 .. MaxRequests /\ 0 \in 0 .. MaxRequests
      BY WorkerAssumption
    <3>3. CASE requests = <<asked[lock]>> /\ job = 0 /\ responses = <<>>
      BY <3>1, <3>2, <3>3
    <3>4. CASE requests = <<>> /\ job = asked[lock] /\ responses = <<>>
      BY <3>1, <3>2, <3>4
    <3>5. ASSUME requests = <<>>, job = 0, NEW ok \in BOOLEAN,
                 responses = <<[id |-> asked[lock], ok |-> ok]>>
          PROVE  /\ job \in 0 .. MaxRequests /\ requests \in Seq(1 .. MaxRequests)
                 /\ responses \in Seq([id : 1 .. MaxRequests, ok : BOOLEAN])
      <4>1. [id |-> asked[lock], ok |-> ok] \in [id : 1 .. MaxRequests, ok : BOOLEAN]
        BY <3>1
      <4> QED
        BY <3>2, <3>5, <4>1
    <3> QED
      BY <2>2, <3>3, <3>4, <3>5 DEF InFlight
  <2> QED
    BY <1>1, <2>1, <2>2
<1>4. WorkerTypeOK
  BY <1>1, <1>2, <1>3 DEF WorkerTypeOK, CallTypes, Counted
<1> QED
  BY <1>4 DEF TypeOK, Rows, Numbered, Counted

(***************************************************************************)
(* For any users, seeds and dispatchers the state keeps its types, and the *)
(* numbers of bindings are unambiguous: SQLite's next number is in use     *)
(* nowhere, and the seeds of a start find an empty table, so they are      *)
(* numbered from 1 (RoleBindingRepository, bootstrap_owner_bindings()).    *)
(***************************************************************************)
THEOREM CommandTypesCorrect == Spec => []TypeOK
<1>1. CommandTypes /\ [Next]_vars => CommandTypes'
  BY NextInv, AuthInvInductive, RowsInductive, CountedInductive DEF CommandTypes
<1> QED
  BY CommandTypesInit, <1>1, CommandTypesImply, PTL DEF Spec
===============================================================================
