------------------------------- MODULE Runtime -------------------------------
(***************************************************************************)
(* One run of the program: async_main() of __main__.py starts and stops    *)
(* the external plugins (PluginLoader), the built-in modules               *)
(* (PluginManager), their background tasks (TaskSupervisor), the feed      *)
(* engine and the control socket (UnixControlServer), in that order.       *)
(*                                                                         *)
(* Instances share one socket path: a restarted bot and its predecessor,   *)
(* or two bots on the default path.  Plugins, modules and control clients  *)
(* are the environment: they may fail, and some may never return.          *)
(***************************************************************************)
EXTENDS Integers, Sequences, FiniteSets, SequencesExt

CONSTANTS
  Instances,
  plugins,   \* [Instances -> Seq]: [plugins] load
  modules,   \* [Instances -> Seq]: [modules] enabled
  None,
  MaxRuns    \* bound: starts of each instance

ASSUME RuntimeAssumption ==
  /\ MaxRuns \in Nat /\ None \notin Instances \cup {"idle"}
  /\ \A i \in Instances :
       /\ plugins[i] \in Seq(STRING) /\ modules[i] \in Seq(STRING)
       /\ IsInjective(plugins[i] \o modules[i])

VARIABLES
  at,       \* where async_main() of each instance is
  left,     \* the names load_all() or start_builtin_modules() has not reached
  failed,   \* load_all(): has a plugin failed?
  loaded,   \* PluginLoader.plugins, in order
  started,  \* PluginManager._started_modules
  owners,   \* who has commands in the registry
  hooks,    \* who has hooks
  tasks,    \* background tasks of modules: "none", "running" or "stubborn"
  deaf,     \* does the stop() that is awaited suppress its cancellation?
  poll,     \* FeedEngine._task: "off", "running" or "dead" of an exception
  serving,  \* UnixControlServer._server
  client,   \* a control client: None, "idle", or whose command it runs
  irc,      \* whose command or hook the event loop runs
  path,     \* control.socket_path: None, or the instance that bound the file
  runs,
  begun, ended,  \* whose on_load() returned or start() was called; whose
                 \* on_unload() or stop() was called
  raised    \* which awaits of whose code a CancelledError came out of

loader == <<failed, loaded, hooks>>
manager == <<started, tasks, deaf>>
outcome == <<ended, raised>>
dispatchers == <<client, irc>>
socket == <<serving, path>>
local == <<left, loader, manager, owners, poll, dispatchers, begun, outcome>>
vars == <<at, local, socket, runs>>

Everyone(i) == ToSet(plugins[i]) \cup ToSet(modules[i])
Names == UNION {Everyone(i) : i \in Instances}

Starting ==
  {"loading", "on_load", "undo_load", "undo_on_unload", "starting", "in_start",
   "roll_one", "in_stop_one", "roll_back", "in_roll_back", "feeds", "control",
   "unlink_stale", "bind", "web"}
Stopping ==
  {"stop_control", "drain", "unlink", "stop_feeds", "unload", "on_unload",
   "stop_modules", "in_stop", "stop_tasks"}
Ended == {"exited", "cut_off"}  \* async_main() has returned, or feeds.stop() raised
InStop == {"in_stop_one", "in_roll_back", "in_stop"}
Calls == {"on_load", "undo_on_unload", "on_unload", "in_start"} \cup InStop

TypeOK ==
  /\ at \in [Instances -> Starting \cup Stopping \cup Ended \cup {"down", "running"}]
  /\ \A i \in Instances :
       /\ \A s \in {left[i], loaded[i], started[i], begun[i], ended[i]} :
            ToSet(s) \subseteq Everyone(i)
       /\ owners[i] \subseteq Everyone(i) /\ hooks[i] \subseteq Everyone(i)
       /\ client[i] \in {None, "idle"} \cup Everyone(i)
       /\ irc[i] \in {None} \cup Everyone(i)
  /\ failed \in [Instances -> BOOLEAN] /\ serving \in [Instances -> BOOLEAN]
  /\ poll \in [Instances -> {"off", "running", "dead"}]
  /\ tasks \in [Instances -> [Names -> {"none", "running", "stubborn"}]]
  /\ path \in Instances \cup {None}
  /\ runs \in [Instances -> 0..MaxRuns]
  /\ deaf \in [Instances -> BOOLEAN]
  /\ \A i \in Instances : raised[i] \subseteq Calls \X Everyone(i)

Init ==
  /\ at = [i \in Instances |-> "down"]
  /\ left = [i \in Instances |-> << >>] /\ loaded = left /\ started = left
  /\ begun = left /\ ended = left
  /\ failed = [i \in Instances |-> FALSE] /\ serving = failed
  /\ deaf = failed
  /\ owners = [i \in Instances |-> {}] /\ hooks = owners /\ raised = owners
  /\ tasks = [i \in Instances |-> [n \in Names |-> "none"]]
  /\ poll = [i \in Instances |-> "off"]
  /\ client = [i \in Instances |-> None] /\ irc = client
  /\ path = None /\ runs = [i \in Instances |-> 0]

Goto(i, step) == at' = [at EXCEPT ![i] = step]

(* `except Exception' lets a CancelledError pass: of an await that was     *)
(* cancelled by the plugin itself, as in `task.cancel(); await task'.      *)
Raise(i, name) == raised' = [raised EXCEPT ![i] = @ \cup {<<at[i], name>>}]
Aborted(i, call) == \E name \in Names : <<call, name>> \in raised[i]

-----------------------------------------------------------------------------
(***************************************************************************)
(* PluginLoader.load_all(): the commands are registered before on_load()   *)
(* is awaited, which has no timeout; a failure does not stop the loop.     *)
(***************************************************************************)
Start(i) ==
  /\ at[i] = "down" /\ runs[i] < MaxRuns
  /\ runs' = [runs EXCEPT ![i] = @ + 1]
  /\ \/ Goto(i, "loading") /\ left' = [left EXCEPT ![i] = plugins[i]]
     \/ Goto(i, "stop_control") /\ UNCHANGED left   \* load_builtin() raises
  /\ UNCHANGED <<loader, manager, owners, poll, dispatchers, begun, outcome, socket>>

load(i) ==
  LET p == Head(left[i]) IN
  \/ /\ at[i] = "loading" /\ left[i] /= << >>
     /\ Goto(i, "on_load") /\ owners' = [owners EXCEPT ![i] = @ \cup {p}]
     /\ UNCHANGED <<left, loader, begun, raised>>
  \/ /\ at[i] = "on_load" /\ Goto(i, "loading") /\ left' = [left EXCEPT ![i] = Tail(@)]
     /\ loaded' = [loaded EXCEPT ![i] = Append(@, p)]
     /\ hooks' = [hooks EXCEPT ![i] = @ \cup {p}]
     /\ begun' = [begun EXCEPT ![i] = Append(@, p)]
     /\ UNCHANGED <<failed, owners, raised>>
  \/ /\ at[i] = "on_load" /\ Goto(i, "loading") /\ left' = [left EXCEPT ![i] = Tail(@)]
     /\ failed' = [failed EXCEPT ![i] = TRUE]
     /\ owners' = [owners EXCEPT ![i] = @ \ {p}]
     /\ UNCHANGED <<loaded, hooks, begun, raised>>
  \/ /\ at[i] = "on_load" /\ Goto(i, "stop_control") /\ Raise(i, p)
     /\ UNCHANGED <<left, loader, owners, begun>>   \* its commands stay

Load(i) ==
  load(i) /\ UNCHANGED <<manager, poll, dispatchers, ended, socket, runs>>

load_all_ends(i) ==
  /\ at[i] = "loading" /\ left[i] = << >>
  /\ IF failed[i]
       THEN Goto(i, "undo_load") /\ UNCHANGED left
       ELSE Goto(i, "starting") /\ left' = [left EXCEPT ![i] = modules[i]]
  /\ UNCHANGED <<loader, manager, owners, poll, dispatchers, begun, outcome, socket, runs>>

(* unload_all(): the last loaded first.  An exception of on_unload() is    *)
(* logged; on_unload() has no timeout either.  A CancelledError ends the   *)
(* loop, after the `finally' of unload(); in plugins.stop() the modules    *)
(* are stopped before it goes on.                                          *)
Forget(i, p) ==
  /\ loaded' = [loaded EXCEPT ![i] = Front(@)]
  /\ hooks' = [hooks EXCEPT ![i] = @ \ {p}]
  /\ owners' = [owners EXCEPT ![i] = @ \ {p}]

Unloading(i, loop, call, next) ==
  \/ /\ at[i] = loop /\ loaded[i] /= << >> /\ Goto(i, call)
     /\ ended' = [ended EXCEPT ![i] = Append(@, Last(loaded[i]))]
     /\ UNCHANGED <<left, loaded, hooks, owners, raised>>
  \/ /\ at[i] = loop /\ loaded[i] = << >> /\ Goto(i, next)
     /\ left' = [left EXCEPT ![i] = started[i]]
     /\ UNCHANGED <<loaded, hooks, owners, outcome>>
  \/ /\ at[i] = call /\ Forget(i, Last(loaded[i])) /\ UNCHANGED ended
     /\ \/ Goto(i, loop) /\ UNCHANGED <<left, raised>>   \* returned, or raised
        \/ /\ Goto(i, next) /\ left' = [left EXCEPT ![i] = started[i]]
           /\ Raise(i, Last(loaded[i]))

unload_all(i) ==
  /\ \/ Unloading(i, "undo_load", "undo_on_unload", "stop_control")
     \/ Unloading(i, "unload", "on_unload", "stop_modules")
  /\ UNCHANGED <<failed, manager, poll, dispatchers, begun, socket, runs>>

(***************************************************************************)
(* start_builtin_modules(): start() registers commands and creates a task  *)
(* before it returns, raises or exceeds its timeout.  A stubborn task      *)
(* suppresses its cancellation.  After a CancelledError nothing is undone. *)
(***************************************************************************)
start_module(i) ==
  LET m == Head(left[i]) IN
  /\ \/ /\ at[i] = "starting" /\ left[i] /= << >> /\ Goto(i, "in_start")
        /\ begun' = [begun EXCEPT ![i] = Append(@, m)]
        /\ owners' = [owners EXCEPT ![i] = @ \cup {m}]
        /\ \E t \in {"running", "stubborn"} : tasks' = [tasks EXCEPT ![i][m] = t]
        /\ UNCHANGED <<left, started, raised>>
     \/ /\ at[i] = "in_start" /\ Goto(i, "starting")
        /\ started' = [started EXCEPT ![i] = Append(@, m)]
        /\ left' = [left EXCEPT ![i] = Tail(@)]
        /\ UNCHANGED <<owners, tasks, begun, raised>>
     \/ /\ at[i] = "in_start" /\ Goto(i, "roll_one")
        /\ UNCHANGED <<left, started, owners, tasks, begun, raised>>
     \/ /\ at[i] = "in_start" /\ Goto(i, "stop_control") /\ Raise(i, m)
        /\ UNCHANGED <<left, started, owners, tasks, begun>>
     \/ /\ at[i] = "starting" /\ left[i] = << >> /\ Goto(i, "feeds")
        /\ UNCHANGED <<left, started, owners, tasks, begun, raised>>
  /\ UNCHANGED <<loader, deaf, poll, dispatchers, ended, socket, runs>>

(* cancel_owner() has cancelled the tasks and waited for them: on a        *)
(* timeout too, as wait_for() waits for what it has cancelled.  stop() may *)
(* end before it unregisters.                                              *)
_stop_builtin_module(i, m) ==
  /\ tasks[i][m] /= "stubborn"
  /\ tasks' = [tasks EXCEPT ![i][m] = "none"]
  /\ ended' = [ended EXCEPT ![i] = Append(@, m)]
  /\ \E suppresses \in BOOLEAN : deaf' = [deaf EXCEPT ![i] = suppresses]
  /\ \E gone \in {{}, {m}} : owners' = [owners EXCEPT ![i] = @ \ gone]

(* Mutant: the module whose start failed is not stopped.                   *)
roll_one_skipped(i) ==
  /\ at[i] = "roll_one" /\ Goto(i, "roll_back")
  /\ left' = [left EXCEPT ![i] = started[i]]
  /\ UNCHANGED <<started, owners, tasks, deaf, ended>>

roll_one(i) ==
  /\ at[i] = "roll_one" /\ Goto(i, "in_stop_one")
  /\ _stop_builtin_module(i, Head(left[i])) /\ UNCHANGED <<left, started>>

(* The list is cleared behind the loop only.                               *)
stop_builtin_modules(i) ==
  /\ at[i] \in {"roll_back", "stop_modules"}
  /\ IF left[i] = << >>
       THEN /\ Goto(i, IF at[i] = "roll_back" THEN "stop_control"
                       ELSE IF Aborted(i, "on_unload") THEN "exited" ELSE "stop_tasks")
            /\ started' = [started EXCEPT ![i] = << >>]
            /\ UNCHANGED <<left, owners, tasks, deaf, ended>>
       ELSE /\ Goto(i, IF at[i] = "roll_back" THEN "in_roll_back" ELSE "in_stop")
            /\ left' = [left EXCEPT ![i] = Front(@)]
            /\ _stop_builtin_module(i, Last(left[i])) /\ UNCHANGED started

StopModules(i) ==
  /\ roll_one(i) \/ stop_builtin_modules(i)
  /\ UNCHANGED <<loader, poll, dispatchers, begun, raised, socket, runs>>

(* stop() is over: it returned, raised an Exception or was timed out.      *)
Stopped(i) ==
  /\ at[i] \in InStop /\ deaf' = [deaf EXCEPT ![i] = FALSE]
  /\ IF at[i] = "in_stop_one"
       THEN Goto(i, "roll_back") /\ left' = [left EXCEPT ![i] = started[i]]
       ELSE /\ Goto(i, IF at[i] = "in_roll_back" THEN "roll_back" ELSE "stop_modules")
            /\ UNCHANGED left
  /\ UNCHANGED <<loader, started, tasks, owners, poll, dispatchers, begun, outcome,
                 socket, runs>>

StopReturns(i) == Stopped(i)

(* Mutant: stop() is awaited without a timeout.                            *)
StopTimesOut_never(i) == deaf[i] /\ ~deaf[i] /\ Stopped(i)

StopTimesOut(i) == ~deaf[i] /\ Stopped(i)

(* A CancelledError comes out of stop(): the rest of the loop is skipped,  *)
(* and in plugins.stop() so is tasks.shutdown().                           *)
StopRaises(i) ==
  /\ at[i] \in InStop /\ deaf' = [deaf EXCEPT ![i] = FALSE]
  /\ Goto(i, IF at[i] = "in_stop" THEN "exited" ELSE "stop_control")
  /\ Raise(i, Last(ended[i]))
  /\ UNCHANGED <<left, loader, started, tasks, owners, poll, dispatchers, begun, ended,
                 socket, runs>>

(***************************************************************************)
(* UnixControlServer.start(): a socket that refuses connections is stale.  *)
(* asyncio itself removes a socket file before it binds.                   *)
(***************************************************************************)
FeedsStart(i) ==
  /\ at[i] = "feeds"
  /\ Goto(i, "control") \/ Goto(i, "web")   \* [control] enabled, or not
  /\ poll' = [poll EXCEPT ![i] = "running"]
  /\ UNCHANGED <<left, loader, manager, owners, dispatchers, begun, outcome, socket, runs>>

Listening(i) == i /= None /\ serving[i]

Probed(i) ==
  CASE path = None -> "bind"
    [] Listening(path) -> "stop_control"   \* "already in use"
    [] OTHER -> "unlink_stale"

Probe(i) ==
  /\ at[i] = "control" /\ Goto(i, Probed(i))
  /\ UNCHANGED <<local, socket, runs>>

UnlinkStale(i) ==
  /\ at[i] = "unlink_stale"
  /\ IF path = None THEN Goto(i, "stop_control") ELSE Goto(i, "bind")
  /\ path' = None
  /\ UNCHANGED <<local, serving, runs>>

Bind(i) ==
  /\ at[i] = "bind" /\ Goto(i, "web")
  /\ path' = i /\ serving' = [serving EXCEPT ![i] = TRUE]
  /\ UNCHANGED <<local, runs>>

(* web_api.start() may find its port taken.                                *)
WebStart(i) ==
  /\ at[i] = "web" /\ (Goto(i, "running") \/ Goto(i, "stop_control"))
  /\ UNCHANGED <<local, socket, runs>>

(***************************************************************************)
(* While the bot runs.  A control client may come as soon as the socket    *)
(* listens; the event loop is there while client.run() is.                 *)
(***************************************************************************)
ClientConnects(i) ==
  /\ Listening(i) /\ path = i /\ client[i] = None
  /\ client' = [client EXCEPT ![i] = "idle"]
  /\ UNCHANGED <<at, left, loader, manager, owners, poll, irc, begun, outcome, socket,
                 runs>>

ClientCommand(i) ==
  /\ client[i] = "idle"
  /\ \E o \in owners[i] : client' = [client EXCEPT ![i] = o]
  /\ UNCHANGED <<at, left, loader, manager, owners, poll, irc, begun, outcome, socket,
                 runs>>

ClientAnswered(i) ==
  /\ client[i] \notin {None, "idle"}
  /\ client' = [client EXCEPT ![i] = "idle"]
  /\ UNCHANGED <<at, left, loader, manager, owners, poll, irc, begun, outcome, socket,
                 runs>>

(* Its command goes on, if one runs, but nobody counts or awaits it.       *)
ClientLeaves(i) ==
  /\ client[i] /= None
  /\ client' = [client EXCEPT ![i] = None]
  /\ UNCHANGED <<at, left, loader, manager, owners, poll, irc, begun, outcome, socket,
                 runs>>

IRCEvent(i) ==
  /\ \/ /\ at[i] = "running" /\ irc[i] = None
        /\ \E o \in owners[i] \cup hooks[i] : irc' = [irc EXCEPT ![i] = o]
     \/ irc[i] /= None /\ irc' = [irc EXCEPT ![i] = None]
  /\ UNCHANGED <<at, left, loader, manager, owners, poll, client, begun, outcome,
                 socket, runs>>

PollDies(i) ==
  /\ poll[i] = "running" /\ poll' = [poll EXCEPT ![i] = "dead"]
  /\ UNCHANGED <<at, left, loader, manager, owners, dispatchers, begun, outcome,
                 socket, runs>>

(* A background task returns, by itself or late after its cancellation.    *)
TaskEnds(i) ==
  /\ \E n \in Names : tasks[i][n] /= "none" /\ tasks' = [tasks EXCEPT ![i][n] = "none"]
  /\ UNCHANGED <<at, left, loader, started, deaf, owners, poll, dispatchers, begun,
                 outcome, socket, runs>>

(***************************************************************************)
(* The finally block of async_main().  _connect_once() has awaited the     *)
(* event task by then; the server waits for its clients' connections, not  *)
(* for the tasks that handle them; a poll task that died raises once more  *)
(* in feeds.stop(), and nothing after it is reached.                       *)
(***************************************************************************)
RunEnds(i) ==
  /\ at[i] = "running" /\ irc[i] = None /\ Goto(i, "stop_control")
  /\ UNCHANGED <<local, socket, runs>>

(* From Python 3.13 on closing a server removes the file it has bound.     *)
ControlCloses(i) ==
  /\ at[i] = "stop_control"
  /\ Goto(i, IF serving[i] THEN "drain" ELSE "unlink")
  /\ serving' = [serving EXCEPT ![i] = FALSE]
  /\ path' \in {path, IF path = i /\ serving[i] THEN None ELSE path}
  /\ UNCHANGED <<local, runs>>

(* Mutant: wait_closed() is not awaited.                                   *)
ControlDrained_at_once(i) ==
  /\ at[i] = "drain" /\ Goto(i, "unlink")
  /\ UNCHANGED <<local, socket, runs>>

ControlDrained(i) ==
  /\ at[i] = "drain" /\ client[i] = None /\ Goto(i, "unlink")
  /\ UNCHANGED <<local, socket, runs>>

(* Whoever has bound it, and whether or not this instance ever did.        *)
ControlUnlinks(i) ==
  /\ at[i] = "unlink" /\ Goto(i, "stop_feeds") /\ path' = None
  /\ UNCHANGED <<local, serving, runs>>

FeedsStop(i) ==
  /\ at[i] = "stop_feeds"
  /\ IF poll[i] = "dead"
       THEN Goto(i, "cut_off") /\ UNCHANGED poll
       ELSE Goto(i, "unload") /\ poll' = [poll EXCEPT ![i] = "off"]
  /\ UNCHANGED <<left, loader, manager, owners, dispatchers, begun, outcome, socket, runs>>

(* cancel_owner() for one owner after the other.                           *)
TasksShutdown(i) ==
  /\ at[i] = "stop_tasks"
  /\ IF \A n \in Names : tasks[i][n] = "none"
       THEN Goto(i, "exited") /\ UNCHANGED tasks
       ELSE /\ \E n \in Names :
                 tasks[i][n] = "running" /\ tasks' = [tasks EXCEPT ![i][n] = "none"]
            /\ UNCHANGED at
  /\ UNCHANGED <<left, loader, started, deaf, owners, poll, dispatchers, begun,
                 outcome, socket, runs>>

(* The process is gone: after its exit, or killed at any time.             *)
Gone(i) ==
  /\ at[i] /= "down" /\ Goto(i, "down")
  /\ left' = [left EXCEPT ![i] = << >>] /\ loaded' = [loaded EXCEPT ![i] = << >>]
  /\ started' = [started EXCEPT ![i] = << >>] /\ begun' = [begun EXCEPT ![i] = << >>]
  /\ ended' = [ended EXCEPT ![i] = << >>]
  /\ failed' = [failed EXCEPT ![i] = FALSE] /\ serving' = [serving EXCEPT ![i] = FALSE]
  /\ owners' = [owners EXCEPT ![i] = {}] /\ hooks' = [hooks EXCEPT ![i] = {}]
  /\ tasks' = [tasks EXCEPT ![i] = [n \in Names |-> "none"]]
  /\ poll' = [poll EXCEPT ![i] = "off"]
  /\ client' = [client EXCEPT ![i] = None] /\ irc' = [irc EXCEPT ![i] = None]
  /\ deaf' = [deaf EXCEPT ![i] = FALSE] /\ raised' = [raised EXCEPT ![i] = {}]
  /\ UNCHANGED <<path, runs>>

-----------------------------------------------------------------------------
async_main(i) ==
  \/ Load(i) \/ load_all_ends(i) \/ unload_all(i) \/ start_module(i) \/ StopModules(i)
  \/ StopTimesOut(i)
  \/ FeedsStart(i) \/ Probe(i) \/ UnlinkStale(i) \/ Bind(i) \/ WebStart(i)
  \/ ControlCloses(i) \/ ControlDrained(i) \/ ControlUnlinks(i) \/ FeedsStop(i)
  \/ TasksShutdown(i)

Environment(i) ==
  \/ Start(i) \/ RunEnds(i) \/ Gone(i) \/ PollDies(i) \/ TaskEnds(i) \/ IRCEvent(i)
  \/ StopReturns(i) \/ StopRaises(i)
  \/ ClientConnects(i) \/ ClientCommand(i) \/ ClientAnswered(i) \/ ClientLeaves(i)

Next == \E i \in Instances : async_main(i) \/ Environment(i)

Waiting(i) == at[i] \in {"on_load", "on_unload", "undo_on_unload", "in_start"}

(* The event loop goes on, and the timeouts of stop() expire; what plugins *)
(* and modules await is theirs.                                            *)
Fairness ==
  \A i \in Instances : WF_vars(async_main(i) /\ ~Waiting(i))

Spec == Init /\ [][Next]_vars /\ Fairness

-----------------------------------------------------------------------------
(* No command or hook of a plugin or module runs once its on_unload() or   *)
(* stop() was called, nor before on_load() returned, for the event loop or *)
(* for a control client that is still there: the order in which            *)
(* async_main() starts and stops its parts keeps them out.                 *)
NoCallAfterUnload ==
  \A i \in Instances : \A o \in {client[i], irc[i]} \ {None, "idle"} :
    o \in ToSet(begun[i]) /\ o \notin ToSet(ended[i])

(* `m' stands before `n' in the sequence `s'.                              *)
Before(s, m, n) == \E p, q \in DOMAIN s : p < q /\ s[p] = m /\ s[q] = n

(* Of a kind, what was ended first was begun last, and nothing was twice.  *)
LastFirst(ends, begins, kind) ==
  \A p, q \in DOMAIN ends :
    p < q /\ ends[p] \in kind /\ ends[q] \in kind => Before(begins, ends[q], ends[p])

(* docs/PLUGINS.md:81-82, 111-112: on_unload() runs during a clean         *)
(* shutdown, and takes commands and hooks with it.  When async_main()      *)
(* returns, however far it came, all that was begun was ended, once, the   *)
(* last begun of its kind first, and no task is left.  A CancelledError    *)
(* that came out of a call takes away what it skips, and no more: of       *)
(* on_load(), the plugin's commands stay; of on_unload(), the plugins      *)
(* loaded before stay, and tasks; of start(), this module is not stopped;  *)
(* of stop() in a roll-back, modules are stopped twice; of stop() in the   *)
(* end, the modules started before stay, and tasks.                        *)
PairedAtExit ==
  \A i \in Instances : at[i] = "exited" =>
    /\ LastFirst(ended[i], begun[i], ToSet(plugins[i]))
    /\ ToSet(ended[i]) \subseteq ToSet(begun[i])
    /\ ~Aborted(i, "on_unload") =>
         /\ loaded[i] = << >> /\ hooks[i] = {}
         /\ ToSet(begun[i]) \cap ToSet(plugins[i]) \subseteq ToSet(ended[i])
    /\ \A o \in owners[i] \ ToSet(modules[i]) :
         o \in ToSet(loaded[i]) \/ <<"on_load", o>> \in raised[i]
    /\ ~Aborted(i, "in_roll_back") => LastFirst(ended[i], begun[i], ToSet(modules[i]))
    /\ ~Aborted(i, "in_stop") =>
         \A m \in ToSet(begun[i]) \cap ToSet(modules[i]) :
           m \in ToSet(ended[i]) \/ <<"in_start", m>> \in raised[i]
    /\ ~Aborted(i, "on_unload") /\ ~Aborted(i, "in_stop") =>
         \A n \in Names : tasks[i][n] = "none"

(* A shutdown ends, unless it waits for an on_unload(), for a control      *)
(* client that stays, or for a task or a stop() that suppresses its        *)
(* cancellation.                                                           *)
ShutdownEnds ==
  \A i \in Instances :
    /\ []<>(client[i] = None) /\ []<>~Waiting(i)
    /\ []<>(~deaf[i] /\ \A n \in Names : tasks[i][n] /= "stubborn")
    => (at[i] \in Stopping ~> at[i] \in Ended \cup {"down"})

(* tests/test_control.py:46, refuses an active socket: a start takes the   *)
(* path from no instance that serves on it.  It may: of two starts that    *)
(* found no socket, or a stale one, the second takes it from the first.    *)
StartRefusesActiveSocket ==
  [][\A i, j \in Instances :
       i /= j /\ serving[j] /\ serving'[j] /\ path = j /\ path' /= j =>
         ~(at[i] \in {"unlink_stale", "bind"} /\ at'[i] /= at[i])]_vars

(* core/plugins.py:645: stop_builtin_modules() stops every started module  *)
(* `without skipping later cleanup'.  It does skip it after a              *)
(* CancelledError.                                                         *)
EveryStartedIsStopped ==
  \A i \in Instances : at[i] = "exited" => ToSet(started[i]) \subseteq ToSet(ended[i])
=============================================================================
