-------------------------------- MODULE Commands --------------------------------
(***************************************************************************)
(* core/commands.py, core/auth.py and the role bindings of                 *)
(* core/database.py: who may run what, while roles are changed by commands *)
(* of several tasks and kept across restarts.  One command is the isolated *)
(* worker's, the other is `role'.                                          *)
(*                                                                         *)
(* The event loop dispatches for IRC users, each control client for the    *)
(* local owner.  Parsing, the role and rate checks, and all of the role    *)
(* command up to its reply have no await: they are one step.               *)
(***************************************************************************)
EXTENDS PluginWorker, FiniteSets, SequencesExt

CONSTANTS
  Users,        \* identities: hostmask, account or certfp
  Irc,          \* the dispatcher that is the event loop
  Seeds,        \* owner_seed_bindings(): who config and environment name
  WorkerRole,   \* the role that the worker's command asks for
  MaxBindings,  \* bound: identifiers of bindings
  MaxRestarts   \* bound

Local == "local"  \* who commands through the control socket

ASSUME CommandsAssumption ==
  /\ Local \notin Users
  /\ Irc \in Dispatchers /\ Seeds \subseteq Users /\ IsFiniteSet(Seeds)
  /\ WorkerRole \in {"user", "admin", "owner"}
  /\ MaxBindings \in Nat /\ Cardinality(Seeds) <= MaxBindings /\ MaxRestarts \in Nat

VARIABLES
  table,       \* table role_bindings
  seeded,      \* instance_metadata: the bootstrap has been done
  cache,       \* AuthManager._persistent_bindings
  overdue,     \* history: bindings removed since the cache was last refreshed
  registered,  \* is the worker's command in the registry?
  started,     \* has async_main() got as far as its dispatchers?
  restarts,
  orphans,     \* requests that children of ended bots still handle
  ran          \* history: who has just been given which command

authVars == <<table, seeded, cache, overdue>>
vars == <<workerVars, authVars, registered, started, restarts, orphans, ran>>

Identities == Users \cup {Local}
RoleNames == {"admin", "owner"}
Bindings == [id : 1 .. MaxBindings, role : RoleNames, user : Users]

TypeOK ==
  /\ WorkerTypeOK
  /\ table \subseteq Bindings /\ cache \subseteq Bindings /\ overdue \subseteq Bindings
  /\ \A b, d \in table : b.id = d.id => b = d
  /\ seeded \in BOOLEAN /\ registered \in BOOLEAN /\ started \in BOOLEAN
  /\ ran \in {<<>>} \cup Identities \X {"role", "worker"}
  /\ restarts \in 0 .. MaxRestarts /\ orphans \subseteq 1 .. MaxRequests

Init ==
  /\ WorkerInit
  /\ table = {} /\ seeded = FALSE /\ cache = {} /\ overdue = {}
  /\ registered = FALSE /\ started = FALSE /\ restarts = 0 /\ orphans = {} /\ ran = <<>>

-----------------------------------------------------------------------------
(* Role bindings.                                                          *)

Owners(bindings) == {b \in bindings : b.role = "owner"}

\* SQLite gives the next identifier after the largest one in the table.
NextId == IF table = {} THEN 1
          ELSE (CHOOSE b \in table : \A d \in table : d.id <= b.id).id + 1

SeedRows ==
  LET number == CHOOSE f \in [Seeds -> NextId .. NextId + Cardinality(Seeds) - 1] :
                  \A s, u \in Seeds : f[s] = f[u] => s = u
  IN {[id |-> number[s], role |-> "owner", user |-> s] : s \in Seeds}

\* Mutant of bootstrap_owner_bindings: seeds whoever is missing, at every start.
bootstrap_owner_bindings_always ==
  /\ table' = table \cup {r \in SeedRows : ~\E b \in table : b.role = "owner" /\ b.user = r.user}
  /\ seeded' = (seeded \/ Seeds # {})

\* Seeds owners once; with owners there it only sets the marker.
bootstrap_owner_bindings ==
  /\ table' = IF seeded \/ Owners(table) # {} THEN table ELSE table \cup SeedRows
  /\ seeded' = (seeded \/ Seeds # {})

\* set_persistent_bindings(list_role_bindings()).
Refreshed == cache' = table' /\ overdue' = {}

\* The transaction is committed.  The read for the refresh opens the database
\* anew and may fail: the command ends with `Command failed.', the copy is old.
Commit(bindings) ==
  /\ table' = bindings
  /\ Refreshed \/ (UNCHANGED cache /\ overdue' = overdue \cup (table \ bindings))

\* role add: the table has no unique index, the same binding twice is two rows.
RoleAdd(role, user) ==
  /\ NextId <= MaxBindings
  /\ Commit(table \cup {[id |-> NextId, role |-> role, user |-> user]})

\* Mutant of RoleRemove: the last binding is kept, whatever its role.
RoleRemove_any(id) ==
  \E b \in table :
    b.id = id /\ Cardinality(table) # 1 /\ Commit(table \ {b})

\* Mutant of RoleRemove: the cache is not refreshed.
RoleRemove_stale(id) ==
  \E b \in table :
    /\ b.id = id /\ ~(b.role = "owner" /\ Cardinality(Owners(table)) = 1)
    /\ table' = table \ {b} /\ UNCHANGED <<cache, overdue>>

\* role remove: not the last owner.
RoleRemove(id) ==
  \E b \in table :
    /\ b.id = id /\ ~(b.role = "owner" /\ Cardinality(Owners(table)) = 1)
    /\ Commit(table \ {b})

\* `list', a refusal, a usage message, or an error before the commit.
RoleOther == UNCHANGED <<table, cache, overdue>>

RoleCommand ==
  /\ \/ \E role \in RoleNames, user \in Users : RoleAdd(role, user)
     \/ \E id \in 1 .. MaxBindings : RoleRemove(id)
     \/ RoleOther
  /\ UNCHANGED seeded

-----------------------------------------------------------------------------
(* Dispatching.                                                            *)

\* roles_for_identity(); local commands come with the owner role.
RolesOf(user) ==
  IF user = Local THEN {"owner"} ELSE {"user"} \cup {b.role : b \in {d \in cache : d.user = user}}

_roles_satisfy(roles, required) ==
  \/ "owner" \in roles
  \/ required = "admin" /\ "admin" \in roles
  \/ required = "user"

Required(command) == IF command = "role" THEN "owner" ELSE WorkerRole

\* What request() raises is answered with `Command failed.'.  A dispatch that the
\* rate limit refuses only replies, and so does one without the role.
dispatch(d, user, command) ==
  /\ started /\ call[d] = "idle"
  /\ d = Irc <=> user # Local
  /\ command = "worker" => registered
  /\ _roles_satisfy(RolesOf(user), Required(command))
  /\ ran' = <<user, command>>
  /\ \/ command = "role" /\ RoleCommand /\ UNCHANGED workerVars
     \/ command = "worker" /\ request(d) /\ UNCHANGED authVars
  /\ UNCHANGED <<registered, started, restarts, orphans>>

Other == ran' = <<>> /\ UNCHANGED <<authVars, registered, started, restarts, orphans>>

\* A hook of the worker: on_message(), or dispatch_hook().
Hook ==
  /\ started /\ registered /\ call[Irc] = "idle"
  /\ request(Irc)
  /\ Other

-----------------------------------------------------------------------------
(* Start, unload and restart.                                              *)

\* async_main() up to the loader; the commands are registered before start().
Boot ==
  /\ loader = "no" /\ ~started
  /\ bootstrap_owner_bindings /\ Refreshed
  /\ start
  /\ registered' = TRUE
  /\ ran' = <<>> /\ UNCHANGED <<started, restarts, orphans>>

\* The worker is loaded: control and the client are started after that.  If it
\* is not, async_main() ends, and its commands are gone.
LoadWorker ==
  /\ Loaded
  /\ started' = (loader' = "loaded") /\ registered' = (loader' = "loaded")
  /\ ran' = <<>> /\ UNCHANGED <<authVars, restarts, orphans>>

\* unload(): control clients may still be connected.
BeginUnload ==
  /\ Unload
  /\ Other

EndUnload ==
  /\ Unloaded
  /\ registered' = FALSE
  /\ ran' = <<>> /\ UNCHANGED <<authVars, started, restarts, orphans>>

\* The bot's process ends, in any state.  Its child has a session of its own and
\* sees the end of its input only between requests: what it was given, it handles.
Restart ==
  /\ restarts < MaxRestarts /\ restarts' = restarts + 1
  /\ LET given == IF child # "up" THEN {} ELSE (ToSet(requests) \cup {job}) \ {0}
     IN orphans' \in {orphans, orphans \cup given}   \* killed with the bot, or not
  /\ process' = FALSE /\ child' = "absent" /\ job' = 0 /\ requests' = <<>> /\ responses' = <<>>
  /\ lock' = NoCaller /\ call' = [c \in Callers |-> "idle"]
  /\ asked' = [c \in Callers |-> 0] /\ answered' = [c \in Callers |-> 0]
  /\ loader' = "no" /\ registered' = FALSE /\ started' = FALSE /\ ran' = <<>>
  /\ UNCHANGED <<serial, authVars>>

\* handle() returns, in a child that nobody has a pipe to.
OrphanEnds ==
  /\ \E n \in orphans : orphans' = orphans \ {n}
  /\ ran' = <<>> /\ UNCHANGED <<workerVars, authVars, registered, started, restarts>>

Next ==
  \/ Boot \/ LoadWorker \/ BeginUnload \/ EndUnload \/ Restart \/ OrphanEnds
  \/ \E d \in Dispatchers, user \in Identities, command \in {"role", "worker"} :
       dispatch(d, user, command)
  \/ Hook
  \/ \E c \in Callers :
       (Read(c) \/ EndOfFile(c) \/ TimeOut(c) \/ Cancel(c) \/ Reaped(c)) /\ Other
  \/ (Take \/ (\E ok \in BOOLEAN : Respond(ok)) \/ Die) /\ Other

\* asyncio's timeouts and the end of a killed child; whether a child answers,
\* and whether anybody asks, is open.
Fairness ==
  \A c \in Callers : WF_vars((TimeOut(c) \/ Reaped(c)) /\ Other)

Spec == Init /\ [][Next]_vars /\ Fairness

-----------------------------------------------------------------------------
\* Once somebody owns the bot, somebody does, whatever the owners remove and
\* however often it is restarted (role remove, bootstrap_owner_bindings()).
OwnerRemains == [][Owners(table) # {} => Owners(table') # {}]_vars

\* A start seeds owners only into a bot without any: whom the others have
\* removed is not brought back by the configuration.
RemovedStaysRemoved ==
  [][~started /\ Owners(table') # Owners(table) => Owners(table) = {} /\ ~seeded]_vars

\* Whoever is given a command has the role for it in the database at that
\* moment, not in an older copy.  A binding whose removal was committed while
\* the refresh failed goes on to count until the next `role add' or `role
\* remove' that refreshes, or the next start (dispatch(), role()).
AuthorityIsCurrent ==
  [][\A u \in Users, command \in {"role", "worker"} :
       ran' = <<u, command>> =>
         _roles_satisfy({"user"} \cup {b.role : b \in {d \in table \cup overdue : d.user = u}},
                        Required(command))]_vars
=============================================================================
