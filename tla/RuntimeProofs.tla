----------------------------- MODULE RuntimeProofs -----------------------------
(***************************************************************************)
(* Theorems about Runtime, for any number of instances with any plugins    *)
(* and modules on the socket path: whose code runs, and that what was      *)
(* begun is ended, once and in order, but for what a CancelledError skips. *)
(***************************************************************************)
EXTENDS Runtime, TLAPS

USE DEF loader, manager, outcome, dispatchers, socket, local

\* The provers need not know what a name is.
Strings == STRING

LEMMA Configured ==
  \A i \in Instances : plugins[i] \in Seq(Strings) /\ modules[i] \in Seq(Strings)
BY RuntimeAssumption DEF Strings

Types ==
  /\ DOMAIN at = Instances /\ DOMAIN owners = Instances /\ DOMAIN hooks = Instances
  /\ DOMAIN ended = Instances /\ DOMAIN serving = Instances
  /\ DOMAIN client = Instances /\ DOMAIN irc = Instances
  /\ left \in [Instances -> Seq(Strings)] /\ begun \in [Instances -> Seq(Strings)]
  /\ started \in [Instances -> Seq(Strings)]

\* Who is not there yet, or no more, has nothing that could be called.
Empty(i) ==
  at[i] = "down" =>
    begun[i] = << >> /\ ended[i] = << >> /\ owners[i] = {} /\ hooks[i] = {}

\* The name that load() or start_module() has in its hand.
Named(i) == at[i] \in {"on_load", "in_start"} => left[i] # << >>

\* Dispatchers are there between Bind and ControlDrained only.
Dispatching(i) ==
  /\ serving[i] => at[i] \in {"web", "running", "stop_control"}
  /\ client[i] # None => serving[i] \/ at[i] = "drain"
  /\ irc[i] # None => at[i] = "running"

\* Nothing is ended yet that somebody may call.
Open(i) ==
  at[i] \in (Starting \cup {"down", "running"})
              \ {"undo_load", "undo_on_unload", "roll_one", "in_stop_one", "roll_back",
                 "in_roll_back"}
    \/ serving[i] \/ client[i] # None

Callable(i) ==
  Open(i) =>
    /\ ended[i] = << >>
    /\ hooks[i] \subseteq ToSet(begun[i])
    /\ owners[i] \subseteq ToSet(begun[i])
         \cup (IF at[i] = "on_load" THEN {Head(left[i])} ELSE {})

Called(i) == {client[i], irc[i]} \ {None, "idle"} \subseteq ToSet(begun[i])

Sound(i) == Empty(i) /\ Named(i) /\ Dispatching(i) /\ Callable(i) /\ Called(i)

Inv == Types /\ \A i \in Instances : Sound(i)

\* What an instance has is its own: a step of another leaves it sound.
LEMMA OthersStaySound ==
  ASSUME NEW j, Sound(j),
         at'[j] = at[j], left'[j] = left[j], owners'[j] = owners[j],
         hooks'[j] = hooks[j], begun'[j] = begun[j], ended'[j] = ended[j],
         serving'[j] = serving[j], client'[j] = client[j], irc'[j] = irc[j]
  PROVE  Sound(j)'
BY DEF Sound, Empty, Named, Dispatching, Open, Callable, Called

\* ToSet() of one more.
LEMMA AppendedSet ==
  ASSUME NEW S, NEW s \in Seq(S), NEW n \in S
  PROVE  /\ Append(s, n) \in Seq(S)
         /\ ToSet(Append(s, n)) = ToSet(s) \cup {n}
<1>1. /\ DOMAIN s = 1 .. Len(s) /\ DOMAIN Append(s, n) = 1 .. Len(s) + 1 /\ Len(s) \in Nat
      /\ \A k \in 1 .. Len(s) : Append(s, n)[k] = s[k]
      /\ Append(s, n)[Len(s) + 1] = n
  OBVIOUS
<1>2. \A k \in DOMAIN Append(s, n) : k \in DOMAIN s \/ k = Len(s) + 1
  BY <1>1
<1>3. ToSet(Append(s, n)) = ToSet(s) \cup {n}
  BY <1>1, <1>2 DEF ToSet
<1> QED
  BY <1>3

LEMMA NoName == ToSet(<< >>) = {} /\ << >> \in Seq(Strings)
BY DEF ToSet

\* Lists get longer at the end and shorter at both.
LEMMA ShorterLists ==
  ASSUME NEW S, NEW s \in Seq(S), s # << >>
  PROVE  /\ Front(s) \in Seq(S) /\ Tail(s) \in Seq(S) /\ Head(s) \in S /\ Last(s) \in S
         /\ ToSet(s) = ToSet(Front(s)) \cup {Last(s)}
         /\ ToSet(Tail(s)) \subseteq ToSet(s) /\ Head(s) \in ToSet(s)
<1>1. /\ Len(s) \in Nat \ {0} /\ DOMAIN s = 1 .. Len(s) /\ s = [k \in 1 .. Len(s) |-> s[k]]
      /\ \A k \in 1 .. Len(s) : s[k] \in S
  OBVIOUS
<1>2. /\ Tail(s) \in Seq(S) /\ DOMAIN Tail(s) = 1 .. Len(s) - 1
      /\ \A k \in 1 .. Len(s) - 1 : Tail(s)[k] = s[k + 1]
      /\ Head(s) = s[1] /\ Head(s) \in S
  OBVIOUS
<1>3. /\ Front(s) \in Seq(S) /\ DOMAIN Front(s) = 1 .. Len(s) - 1
      /\ \A k \in 1 .. Len(s) - 1 : Front(s)[k] = s[k]
  BY <1>1 DEF Front
<1>4. Last(s) = s[Len(s)] /\ Last(s) \in S
  BY <1>1 DEF Last
<1>5. ToSet(s) = ToSet(Front(s)) \cup {Last(s)}
  <2>1. \A k \in DOMAIN s : k = Len(s) \/ k \in DOMAIN Front(s)
    BY <1>1, <1>3
  <2>2. \A k \in DOMAIN Front(s) : k \in DOMAIN s /\ Front(s)[k] = s[k]
    BY <1>1, <1>3
  <2>3. Len(s) \in DOMAIN s
    BY <1>1
  <2> QED
    BY <1>4, <2>1, <2>2, <2>3 DEF ToSet
<1>6. ToSet(Tail(s)) \subseteq ToSet(s) /\ Head(s) \in ToSet(s)
  <2>1. \A k \in DOMAIN Tail(s) : k + 1 \in DOMAIN s /\ Tail(s)[k] = s[k + 1]
    BY <1>1, <1>2
  <2> QED
    BY <1>1, <1>2, <2>1 DEF ToSet
<1> QED
  BY <1>2, <1>3, <1>4, <1>5, <1>6

LEMMA InitInv == Init => Inv
BY NoName DEF Init, Inv, Types, Sound, Empty, Named, Dispatching, Open, Callable, Called

LEMMA LoadInv ==
  ASSUME Inv, NEW i \in Instances, Load(i) \/ load_all_ends(i)
  PROVE  Inv'
<1> USE DEF Inv, Types
<1>1. ASSUME NEW j \in Instances, j # i PROVE Sound(j)'
  BY <1>1, OthersStaySound DEF Load, load, load_all_ends, Goto
<1>2. CASE load_all_ends(i)
  <2>1. Types'
    BY <1>2, Configured DEF load_all_ends, Goto
  <2>2. Sound(i)'
    BY <1>2 DEF load_all_ends, Goto, Sound, Empty, Named, Dispatching,
                Open, Callable, Called, Starting
  <2> QED
    BY <1>1, <2>1, <2>2
<1>3. CASE Load(i)
  <2> DEFINE p == Head(left[i])
  <2>1. at[i] # "down" /\ Sound(i) /\ ~serving[i] /\ client[i] = None /\ irc[i] = None
    BY <1>3 DEF Load, load, Sound, Dispatching
  <2>2. left[i] # << >> /\ p \in Strings /\ Tail(left[i]) \in Seq(Strings)
    BY <1>3, <2>1, ShorterLists DEF Load, load, Sound, Named
  <2>3. /\ Append(begun[i], p) \in Seq(Strings)
        /\ ToSet(Append(begun[i], p)) = ToSet(begun[i]) \cup {p}
    BY <2>2, AppendedSet
  <2>4. Types'
    <3>1. left' \in [Instances -> Seq(Strings)]
      BY <1>3, <2>2 DEF Load, load
    <3>2. begun' \in [Instances -> Seq(Strings)]
      BY <1>3, <2>3 DEF Load, load
    <3> QED
      BY <1>3, <3>1, <3>2 DEF Load, load, Goto
  <2>5. Open(i)
    BY <1>3 DEF Load, load, Open, Starting
  <2>6. /\ ended'[i] = ended[i] /\ ~serving'[i] /\ client'[i] = None /\ irc'[i] = None
        /\ at'[i] \in {"loading", "on_load", "stop_control"}
    BY <1>3, <2>1 DEF Load, load, Goto
  <2>7. Callable(i)'
    <3>1. /\ ended[i] = << >> /\ hooks[i] \subseteq ToSet(begun[i])
          /\ owners[i] \subseteq ToSet(begun[i])
               \cup (IF at[i] = "on_load" THEN {Head(left[i])} ELSE {})
      BY <2>1, <2>5 DEF Sound, Callable
    <3>2. CASE at[i] = "loading"
      <4>1. /\ at'[i] = "on_load" /\ owners'[i] = owners[i] \cup {p} /\ left' = left
            /\ hooks' = hooks /\ begun' = begun
        BY <1>3, <3>2 DEF Load, load, Goto
      <4> QED
        BY <2>6, <3>1, <3>2, <4>1 DEF Callable
    <3>3. CASE /\ at[i] = "on_load" /\ at'[i] = "loading" /\ owners' = owners
               /\ begun'[i] = Append(begun[i], p) /\ hooks'[i] = hooks[i] \cup {p}
      BY <2>3, <2>6, <3>1, <3>3 DEF Callable
    <3>4. CASE /\ at[i] = "on_load" /\ at'[i] = "loading" /\ owners'[i] = owners[i] \ {p}
               /\ begun' = begun /\ hooks' = hooks
      BY <2>6, <3>1, <3>4 DEF Callable
    <3>5. CASE at'[i] = "stop_control"
      BY <2>6, <3>5 DEF Callable, Open, Starting
    <3> QED
      BY <1>3, <3>2, <3>3, <3>4, <3>5 DEF Load, load, Goto
  <2>8. Named(i)'
    BY <1>3, <2>2, <2>6 DEF Load, load, Goto, Named
  <2>9. Empty(i)' /\ Dispatching(i)' /\ Called(i)'
    BY <2>6 DEF Empty, Dispatching, Called
  <2> QED
    BY <1>1, <2>4, <2>7, <2>8, <2>9 DEF Sound
<1> QED
  BY <1>2, <1>3

\* Whoever starts a step in which nothing is called leaves nothing to call.
LEMMA QuietInv ==
  ASSUME Inv, NEW i \in Instances, Types', ~serving[i], client[i] = None, irc[i] = None,
         serving' = serving, client' = client, irc' = irc,
         at'[i] \in {"undo_load", "undo_on_unload", "unload", "on_unload", "stop_control",
                     "stop_modules", "in_stop", "in_stop_one", "roll_back", "in_roll_back",
                     "stop_tasks", "exited"},
         \A j \in Instances \ {i} :
           UNCHANGED <<at[j], left[j], owners[j], hooks[j], begun[j], ended[j]>>
  PROVE  Inv'
<1>1. \A j \in Instances \ {i} : Sound(j)'
  BY OthersStaySound DEF Inv
<1>2. Sound(i)'
  BY DEF Inv, Sound, Empty, Named, Dispatching, Open, Callable, Called, Starting
<1> QED
  BY <1>1, <1>2 DEF Inv

LEMMA UnloadInv ==
  ASSUME Inv, NEW i \in Instances,
         \/ unload_all(i) \/ StopModules(i)
         \/ StopReturns(i) \/ StopTimesOut(i) \/ StopRaises(i)
  PROVE  Inv'
<1>1. Types /\ Sound(i)
  BY DEF Inv
<1>2. /\ ~serving[i] /\ client[i] = None /\ irc[i] = None
      /\ serving' = serving /\ client' = client /\ irc' = irc /\ begun' = begun
  BY <1>1 DEF unload_all, Unloading, StopModules, roll_one, stop_builtin_modules, StopReturns,
       StopTimesOut, StopRaises, Stopped, InStop, Sound, Dispatching
<1>3. \A j \in Instances \ {i} :
        UNCHANGED <<at[j], left[j], owners[j], hooks[j], begun[j], ended[j]>>
  <2>1. CASE unload_all(i)
    BY <1>1, <2>1 DEF Types, unload_all, Unloading, Forget, Goto
  <2>2. CASE StopModules(i)
    BY <1>1, <2>2
       DEF Types, StopModules, roll_one, stop_builtin_modules, _stop_builtin_module, Goto
  <2>3. CASE StopReturns(i) \/ StopTimesOut(i) \/ StopRaises(i)
    BY <1>1, <2>3 DEF Types, StopReturns, StopTimesOut, StopRaises, Stopped, Goto
  <2> QED
    BY <2>1, <2>2, <2>3
<1>4. left' \in [Instances -> Seq(Strings)] /\ started' \in [Instances -> Seq(Strings)]
  <2>1. \/ left' = left \/ left' = [left EXCEPT ![i] = started[i]]
        \/ left' = [left EXCEPT ![i] = Front(left[i])] /\ left[i] # << >>
    BY DEF unload_all, Unloading, StopModules, roll_one, stop_builtin_modules, StopReturns,
         StopTimesOut, StopRaises, Stopped
  <2>2. started' = started \/ started' = [started EXCEPT ![i] = << >>]
    BY DEF unload_all, Unloading, StopModules, roll_one, stop_builtin_modules, StopReturns,
         StopTimesOut, StopRaises, Stopped
  <2>3. left[i] # << >> => Front(left[i]) \in Seq(Strings)
    BY <1>1, ShorterLists DEF Types
  <2>4. left' \in [Instances -> Seq(Strings)]
    BY <1>1, <2>1, <2>3 DEF Types
  <2>5. started' \in [Instances -> Seq(Strings)]
    BY <1>1, <2>2, NoName DEF Types
  <2> QED
    BY <2>4, <2>5
<1>5. Types'
  <2>1. DOMAIN at' = Instances /\ DOMAIN owners' = Instances /\ DOMAIN hooks' = Instances
        /\ DOMAIN ended' = Instances
    <3>1. CASE unload_all(i)
      BY <1>1, <3>1 DEF Types, unload_all, Unloading, Forget, Goto
    <3>2. CASE StopModules(i)
      BY <1>1, <3>2
         DEF Types, StopModules, roll_one, stop_builtin_modules, _stop_builtin_module, Goto
    <3>3. CASE StopReturns(i) \/ StopTimesOut(i) \/ StopRaises(i)
      BY <1>1, <3>3 DEF Types, StopReturns, StopTimesOut, StopRaises, Stopped, Goto
    <3> QED
      BY <3>1, <3>2, <3>3
  <2> QED
    BY <1>1, <1>2, <1>4, <2>1 DEF Types
<1>6. at'[i] \in {"undo_load", "undo_on_unload", "unload", "on_unload", "stop_control",
                  "stop_modules", "in_stop", "in_stop_one", "roll_back", "in_roll_back",
                  "stop_tasks", "exited"}
  BY <1>1 DEF Types, unload_all, Unloading, StopModules, roll_one, stop_builtin_modules,
       StopReturns, StopTimesOut, StopRaises, Stopped, Goto
<1> QED
  BY <1>2, <1>3, <1>5, <1>6, QuietInv

LEMMA StartModuleInv ==
  ASSUME Inv, NEW i \in Instances, start_module(i)
  PROVE  Inv'
<1> USE DEF Inv, Types
<1> DEFINE m == Head(left[i])
<1>1. ASSUME NEW j \in Instances, j # i PROVE Sound(j)'
  BY <1>1, OthersStaySound DEF start_module, Goto
<1>2. /\ ~serving[i] /\ client[i] = None /\ irc[i] = None /\ Sound(i) /\ Open(i)
      /\ serving' = serving /\ client' = client /\ irc' = irc
      /\ ended' = ended /\ hooks' = hooks
  BY DEF start_module, Sound, Dispatching, Open, Starting
<1>3. left[i] # << >> => m \in Strings /\ Tail(left[i]) \in Seq(Strings)
        /\ Append(begun[i], m) \in Seq(Strings) /\ Append(started[i], m) \in Seq(Strings)
        /\ ToSet(Append(begun[i], m)) = ToSet(begun[i]) \cup {m}
  BY AppendedSet, ShorterLists
<1>4. Types'
  <2>1. left' \in [Instances -> Seq(Strings)] /\ started' \in [Instances -> Seq(Strings)]
    <3>1. at[i] = "in_start" => left[i] # << >>
      BY <1>2 DEF Sound, Named
    <3>2. \/ left' = left /\ started' = started
          \/ /\ at[i] = "in_start" /\ left' = [left EXCEPT ![i] = Tail(left[i])]
             /\ started' = [started EXCEPT ![i] = Append(started[i], m)]
      BY DEF start_module
    <3> HIDE DEF m
    <3>3. left[i] # << >> => /\ [left EXCEPT ![i] = Tail(left[i])] \in [Instances -> Seq(Strings)]
                             /\ [started EXCEPT ![i] = Append(started[i], m)]
                                  \in [Instances -> Seq(Strings)]
      BY <1>3
    <3> QED
      BY <3>1, <3>2, <3>3
  <2>2. begun' \in [Instances -> Seq(Strings)]
    BY <1>3 DEF start_module
  <2> QED
    BY <2>1, <2>2 DEF start_module, Goto
<1>5. at'[i] \in {"starting", "in_start", "roll_one", "feeds", "stop_control"}
  BY DEF start_module, Goto
<1>6. Named(i)'
  BY <1>2, <1>5 DEF start_module, Goto, Named
<1>7. Callable(i)'
  <2>1. /\ ended[i] = << >> /\ hooks[i] \subseteq ToSet(begun[i])
        /\ owners[i] \subseteq ToSet(begun[i])
    BY <1>2 DEF start_module, Sound, Callable
  <2>2. CASE left[i] # << >> /\ begun'[i] = Append(begun[i], m) /\ owners'[i] = owners[i] \cup {m}
    BY <1>2, <1>3, <1>5, <2>1, <2>2 DEF Callable
  <2>3. CASE begun' = begun /\ owners' = owners
    BY <1>2, <1>5, <2>1, <2>3 DEF Callable
  <2> QED
    BY <2>2, <2>3 DEF start_module
<1>8. Empty(i)' /\ Dispatching(i)' /\ Called(i)'
  BY <1>2, <1>5 DEF Empty, Dispatching, Called
<1> QED
  BY <1>1, <1>4, <1>6, <1>7, <1>8 DEF Sound

LEMMA StartInv ==
  ASSUME Inv, NEW i \in Instances, Start(i)
  PROVE  Inv'
<1> USE DEF Inv, Types
<1>1. ASSUME NEW j \in Instances, j # i PROVE Sound(j)'
  BY <1>1, OthersStaySound DEF Start, Goto
<1>2. Types'
  BY Configured DEF Start, Goto
<1>3. Sound(i)'
  BY NoName DEF Start, Goto, Sound, Empty, Named, Dispatching, Open, Callable, Called, Starting
<1> QED
  BY <1>1, <1>2, <1>3

\* The steps between the modules' starts and the run, and the run's end.
LEMMA ServingInv ==
  ASSUME Inv, NEW i \in Instances,
         \/ FeedsStart(i) \/ Probe(i) \/ UnlinkStale(i) \/ Bind(i) \/ WebStart(i)
         \/ RunEnds(i) \/ ControlCloses(i) \/ ControlDrained(i) \/ ControlUnlinks(i)
         \/ FeedsStop(i) \/ TasksShutdown(i)
  PROVE  Inv'
<1> USE DEF Inv, Types
<1>1. /\ UNCHANGED <<left, started, hooks, owners, begun, ended, client, irc>>
      /\ \A j \in Instances \ {i} : at'[j] = at[j] /\ serving'[j] = serving[j]
      /\ DOMAIN at' = Instances /\ DOMAIN serving' = Instances
  BY DEF FeedsStart, Probe, UnlinkStale, Bind, WebStart, RunEnds, ControlCloses,
         ControlDrained, ControlUnlinks, FeedsStop, TasksShutdown, Goto
<1>2. \/ at[i] \in {"feeds", "control", "unlink_stale", "bind"}
           /\ at'[i] \in {"control", "web", "unlink_stale", "bind", "stop_control"}
           /\ (serving'[i] => serving[i] \/ at'[i] = "web")
      \/ at[i] = "web" /\ at'[i] \in {"running", "stop_control"} /\ serving' = serving
      \/ at[i] = "running" /\ irc[i] = None /\ at'[i] = "stop_control" /\ serving' = serving
      \/ at[i] = "stop_control" /\ at'[i] \in {"drain", "unlink"} /\ ~serving'[i]
           /\ (at'[i] = "unlink" => ~serving[i])
      \/ at[i] = "drain" /\ client[i] = None /\ at'[i] = "unlink" /\ serving' = serving
      \/ at[i] \in {"unlink", "stop_feeds", "stop_tasks"}
           /\ at'[i] \in {"stop_feeds", "cut_off", "unload", "stop_tasks", "exited"}
           /\ serving' = serving
  BY DEF FeedsStart, Probe, Probed, UnlinkStale, Bind, WebStart, RunEnds, ControlCloses,
         ControlDrained, ControlUnlinks, FeedsStop, TasksShutdown, Goto
<1>3. ASSUME NEW j \in Instances, j # i PROVE Sound(j)'
  BY <1>1, <1>3, OthersStaySound
<1>4. Sound(i) /\ Empty(i)' /\ Named(i)' /\ Called(i)'
  BY <1>1, <1>2 DEF Sound, Empty, Named, Called
<1>5. Dispatching(i)'
  BY <1>1, <1>2, <1>4 DEF Sound, Dispatching
<1>6. Callable(i)'
  BY <1>1, <1>2, <1>4 DEF Sound, Dispatching, Open, Callable, Starting
<1> QED
  BY <1>1, <1>3, <1>4, <1>5, <1>6 DEF Sound

\* Whoever calls finds what is begun and not ended.
LEMMA CallsInv ==
  ASSUME Inv, NEW i \in Instances,
         \/ ClientConnects(i) \/ ClientCommand(i) \/ ClientAnswered(i) \/ ClientLeaves(i)
         \/ IRCEvent(i) \/ PollDies(i) \/ TaskEnds(i)
  PROVE  Inv'
<1> USE DEF Inv, Types
<1>1. /\ UNCHANGED <<at, left, started, hooks, owners, begun, ended, serving>>
      /\ \A j \in Instances \ {i} : client'[j] = client[j] /\ irc'[j] = irc[j]
      /\ DOMAIN client' = Instances /\ DOMAIN irc' = Instances
  BY DEF ClientConnects, ClientCommand, ClientAnswered, ClientLeaves, IRCEvent, PollDies, TaskEnds
<1>2. /\ client'[i] # None => client[i] # None \/ serving[i]
      /\ irc'[i] # None => at[i] = "running"
  BY RuntimeAssumption
     DEF ClientConnects, ClientCommand, ClientAnswered, ClientLeaves, IRCEvent, PollDies, TaskEnds,
         Listening, Sound, Dispatching
<1>3. client'[i] \in {client[i], None, "idle"} \cup (IF client[i] # None THEN owners[i] ELSE {})
      /\ irc'[i] \in {irc[i], None} \cup (IF at[i] = "running" THEN owners[i] \cup hooks[i] ELSE {})
  BY RuntimeAssumption
     DEF ClientConnects, ClientCommand, ClientAnswered, ClientLeaves, IRCEvent, PollDies, TaskEnds
<1>4. ASSUME NEW j \in Instances, j # i PROVE Sound(j)'
  BY <1>1, <1>4, OthersStaySound
<1>5. Empty(i)' /\ Named(i)' /\ Dispatching(i)' /\ Callable(i)'
  BY <1>1, <1>2 DEF Sound, Empty, Named, Dispatching, Open, Callable
<1>6. Called(i)'
  BY <1>1, <1>3 DEF Sound, Dispatching, Open, Callable, Called, Starting
<1> QED
  BY <1>1, <1>4, <1>5, <1>6 DEF Sound

LEMMA GoneInv ==
  ASSUME Inv, NEW i \in Instances, Gone(i)
  PROVE  Inv'
<1> USE DEF Inv, Types
<1>1. ASSUME NEW j \in Instances, j # i PROVE Sound(j)'
  BY <1>1, OthersStaySound DEF Gone, Goto
<1>2. Types'
  BY NoName DEF Gone, Goto
<1>3. Sound(i)'
  BY NoName DEF Gone, Goto, Sound, Empty, Named, Dispatching, Open, Callable, Called, Starting
<1> QED
  BY <1>1, <1>2, <1>3

LEMMA StepInv == Inv /\ [Next]_vars => Inv'
<1> SUFFICES ASSUME Inv, [Next]_vars PROVE Inv'
  OBVIOUS
<1>1. CASE UNCHANGED vars
  BY <1>1, OthersStaySound DEF vars, Inv, Types
<1>2. ASSUME NEW i \in Instances, async_main(i) PROVE Inv'
  BY <1>2, LoadInv, UnloadInv, StartModuleInv, ServingInv DEF async_main
<1>3. ASSUME NEW i \in Instances, Environment(i) PROVE Inv'
  BY <1>3, StartInv, UnloadInv, ServingInv, CallsInv, GoneInv DEF Environment
<1> QED
  BY <1>1, <1>2, <1>3 DEF Next

LEMMA InvImplies == Inv => NoCallAfterUnload
<1> SUFFICES ASSUME Inv, NEW i \in Instances, NEW o \in {client[i], irc[i]} \ {None, "idle"}
             PROVE  o \in ToSet(begun[i]) /\ o \notin ToSet(ended[i])
  BY DEF NoCallAfterUnload
<1>1. Sound(i) /\ Open(i)
  BY DEF Inv, Sound, Dispatching, Open, Starting
<1> QED
  BY <1>1, NoName DEF Sound, Callable, Called

\* Nobody calls into a plugin or module that is not there yet or is being
\* ended: dispatchers are there from Bind to ControlDrained and while the bot
\* runs, and in between nothing has been ended (async_main()).
THEOREM CallsFindTheirOwners == Spec => []NoCallAfterUnload
<1>1. Init => Inv
  BY InitInv
<1>2. Inv /\ [Next]_vars => Inv'
  BY StepInv
<1> QED
  BY <1>1, <1>2, InvImplies, PTL DEF Spec

-----------------------------------------------------------------------------
(* Pairs: of the plugins and of the modules, what was begun is open, the   *)
(* last begun last, or was ended, or a CancelledError lost it.             *)

\* The last or the first name of a list in which no name stands twice.
LEMMA FrontNames ==
  ASSUME NEW S, NEW s \in Seq(S), s # << >>, IsInjective(s)
  PROVE  /\ Front(s) \in Seq(S) /\ Last(s) \in S /\ Last(s) \in ToSet(s)
         /\ Len(Front(s)) = Len(s) - 1 /\ \A k \in DOMAIN Front(s) : k \in DOMAIN s /\ Front(s)[k] = s[k]
         /\ IsInjective(Front(s)) /\ ToSet(Front(s)) = ToSet(s) \ {Last(s)}
<1>1. /\ Len(s) \in Nat \ {0} /\ DOMAIN s = 1 .. Len(s)
      /\ Front(s) \in Seq(S) /\ Len(Front(s)) = Len(s) - 1 /\ DOMAIN Front(s) = 1 .. Len(s) - 1
      /\ \A k \in 1 .. Len(s) - 1 : Front(s)[k] = s[k]
      /\ Last(s) = s[Len(s)] /\ Last(s) \in S
  <2>1. Len(s) \in Nat \ {0} /\ DOMAIN s = 1 .. Len(s)
    OBVIOUS
  <2>2. Last(s) = s[Len(s)] /\ Last(s) \in S
    BY <2>1 DEF Last
  <2>3. /\ Front(s) \in Seq(S) /\ Len(Front(s)) = Len(s) - 1
        /\ \A k \in 1 .. Len(s) - 1 : Front(s)[k] = s[k]
    BY <2>1 DEF Front
  <2> QED
    BY <2>1, <2>2, <2>3
<1>2. IsInjective(Front(s))
  BY <1>1 DEF IsInjective
<1>3. ToSet(Front(s)) \subseteq ToSet(s) \ {Last(s)}
  BY <1>1 DEF ToSet, IsInjective
<1>4. ToSet(s) \ {Last(s)} \subseteq ToSet(Front(s))
  <2> SUFFICES ASSUME NEW k \in DOMAIN s, s[k] # Last(s)
               PROVE  s[k] \in ToSet(Front(s))
    BY DEF ToSet
  <2>1. k \in 1 .. Len(s) - 1
    BY <1>1
  <2> QED
    BY <1>1, <2>1 DEF ToSet
<1>5. Last(s) \in ToSet(s)
  BY <1>1 DEF ToSet
<1> QED
  BY <1>1, <1>2, <1>3, <1>4, <1>5

LEMMA TailNames ==
  ASSUME NEW S, NEW s \in Seq(S), s # << >>, IsInjective(s)
  PROVE  /\ Tail(s) \in Seq(S) /\ Head(s) \in S /\ Head(s) \in ToSet(s)
         /\ IsInjective(Tail(s)) /\ ToSet(Tail(s)) = ToSet(s) \ {Head(s)}
<1>1. /\ Len(s) \in Nat \ {0} /\ DOMAIN s = 1 .. Len(s)
      /\ Tail(s) \in Seq(S) /\ DOMAIN Tail(s) = 1 .. Len(s) - 1
      /\ \A k \in 1 .. Len(s) - 1 : Tail(s)[k] = s[k + 1]
      /\ Head(s) = s[1] /\ Head(s) \in S
  OBVIOUS
<1>2. IsInjective(Tail(s))
  BY <1>1 DEF IsInjective
<1>3. ToSet(Tail(s)) \subseteq ToSet(s) \ {Head(s)}
  BY <1>1 DEF ToSet, IsInjective
<1>4. ToSet(s) \ {Head(s)} \subseteq ToSet(Tail(s))
  <2> SUFFICES ASSUME NEW k \in DOMAIN s, s[k] # Head(s)
               PROVE  s[k] \in ToSet(Tail(s))
    BY DEF ToSet
  <2>1. k - 1 \in 1 .. Len(s) - 1 /\ Tail(s)[k - 1] = s[k]
    BY <1>1
  <2> QED
    BY <1>1, <2>1 DEF ToSet
<1>5. Head(s) \in ToSet(s)
  BY <1>1 DEF ToSet
<1> QED
  BY <1>1, <1>2, <1>3, <1>4, <1>5

LEMMA AppendNames ==
  ASSUME NEW S, NEW s \in Seq(S), NEW n \in S
  PROVE  /\ DOMAIN Append(s, n) = DOMAIN s \cup {Len(s) + 1} /\ Append(s, n)[Len(s) + 1] = n
         /\ \A k \in DOMAIN s : Append(s, n)[k] = s[k] /\ k < Len(s) + 1 /\ k \in Nat
         /\ Len(s) + 1 \in Nat
         /\ Append(s, n) # << >> /\ Front(Append(s, n)) = s /\ Last(Append(s, n)) = n
         /\ n \notin ToSet(s) /\ IsInjective(s) => IsInjective(Append(s, n))
<1>1. /\ DOMAIN s = 1 .. Len(s) /\ DOMAIN Append(s, n) = 1 .. Len(s) + 1 /\ Len(s) \in Nat
      /\ \A k \in 1 .. Len(s) : Append(s, n)[k] = s[k]
      /\ Append(s, n)[Len(s) + 1] = n /\ Len(Append(s, n)) = Len(s) + 1
      /\ Append(s, n) \in Seq(S)
  OBVIOUS
<1>2. DOMAIN Append(s, n) = DOMAIN s \cup {Len(s) + 1}
  BY <1>1
<1>3. Last(Append(s, n)) = n
  BY <1>1 DEF Last
<1>4. Front(Append(s, n)) = s
  <2>1. Front(Append(s, n)) \in Seq(S) /\ Len(Front(Append(s, n))) = Len(s)
        /\ \A k \in 1 .. Len(s) : Front(Append(s, n))[k] = s[k]
    BY <1>1 DEF Front
  <2> QED
    BY <2>1
<1>5. ASSUME n \notin ToSet(s), IsInjective(s)
      PROVE  IsInjective(Append(s, n))
  BY <1>1, <1>2, <1>5 DEF ToSet, IsInjective
<1> QED
  BY <1>1, <1>2, <1>3, <1>4, <1>5

LEMMA BeforeAppend ==
  ASSUME NEW S, NEW s \in Seq(S), NEW n \in S
  PROVE  /\ \A x, y : Before(s, x, y) => Before(Append(s, n), x, y)
         /\ \A x \in ToSet(s) : Before(Append(s, n), x, n)
<1>1. \A x, y : Before(s, x, y) => Before(Append(s, n), x, y)
  BY AppendNames DEF Before
<1>2. ASSUME NEW k \in DOMAIN s
      PROVE  Before(Append(s, n), s[k], n)
  BY AppendNames DEF Before
<1> QED
  BY <1>1, <1>2 DEF ToSet

Ordered(s, t) == \A p, q \in DOMAIN s : p < q => Before(t, s[p], s[q])

\* Of a kind, whoever is open has begun and not ended, but `ending' has its end
\* called.  The open ones are in the order in which they began, and before
\* whatever has ended.
Half(kind, open, begins, ends, ending) ==
  /\ IsInjective(open) /\ Ordered(open, begins)
  /\ ToSet(open) \subseteq kind \cap ToSet(begins)
  /\ ToSet(open) \cap ToSet(ends) = ending
  /\ \A n \in ToSet(open), x \in ToSet(ends) \cap kind : n /= x => Before(begins, n, x)
  /\ LastFirst(ends, begins, kind)

LEMMA HalfEmpty == \A kind : Half(kind, << >>, << >>, << >>, {})
BY NoName DEF Half, IsInjective, Ordered, LastFirst

\* One more begins.
LEMMA HalfBegins ==
  ASSUME NEW S, NEW kind, NEW open \in Seq(S), NEW begins \in Seq(S), NEW n \in S,
         Half(kind, open, begins, << >>, {}), n \in kind, n \notin ToSet(begins)
  PROVE  Half(kind, Append(open, n), Append(begins, n), << >>, {})
<1>1. ToSet(<< >>) = {} /\ LastFirst(<< >>, Append(begins, n), kind)
  BY NoName DEF LastFirst
<1>2. IsInjective(open) /\ Ordered(open, begins) /\ ToSet(open) \subseteq kind
      /\ ToSet(open) \subseteq ToSet(begins)
  BY DEF Half
<1>3. IsInjective(Append(open, n))
  <2>1. n \notin ToSet(open)
    BY <1>2
  <2> QED
    BY <1>2, <2>1, AppendNames
<1>4. Ordered(Append(open, n), Append(begins, n))
  <2> SUFFICES ASSUME NEW p \in DOMAIN Append(open, n), NEW q \in DOMAIN Append(open, n), p < q
               PROVE  Before(Append(begins, n), Append(open, n)[p], Append(open, n)[q])
    BY DEF Ordered
  <2>1. p \in DOMAIN open /\ Append(open, n)[p] = open[p]
    BY AppendNames
  <2>2. CASE q \in DOMAIN open
    <3>1. Append(open, n)[q] = open[q]
      BY <2>2, AppendNames
    <3>2. Before(begins, open[p], open[q])
      BY <1>2, <2>1, <2>2 DEF Ordered
    <3> QED
      BY <2>1, <3>1, <3>2, BeforeAppend
  <2>3. CASE q = Len(open) + 1
    <3>1. Append(open, n)[q] = n
      BY <2>3, AppendNames
    <3>2. open[p] \in ToSet(begins)
      BY <1>2, <2>1 DEF ToSet
    <3> QED
      BY <2>1, <3>1, <3>2, BeforeAppend
  <2> QED
    BY <2>2, <2>3, AppendNames
<1>5. ToSet(Append(open, n)) = ToSet(open) \cup {n}
      /\ ToSet(Append(begins, n)) = ToSet(begins) \cup {n}
  BY AppendedSet
<1> QED
  BY <1>1, <1>2, <1>3, <1>4, <1>5 DEF Half

\* One of another kind begins.
LEMMA HalfWaits ==
  ASSUME NEW S, NEW kind, NEW open \in Seq(S), NEW begins \in Seq(S), NEW ends, NEW ending,
         NEW n \in S, Half(kind, open, begins, ends, ending), n \notin kind
  PROVE  Half(kind, open, Append(begins, n), ends, ending)
<1>1. ToSet(Append(begins, n)) = ToSet(begins) \cup {n}
  BY AppendedSet
<1>2. Ordered(open, Append(begins, n)) /\ LastFirst(ends, Append(begins, n), kind)
  BY BeforeAppend DEF Half, Ordered, LastFirst
<1>3. \A m \in ToSet(open), x \in ToSet(ends) \cap kind :
        m /= x => Before(Append(begins, n), m, x)
  BY BeforeAppend DEF Half
<1> QED
  BY <1>1, <1>2, <1>3 DEF Half

\* One of this kind, or of another, has its end called.
LEMMA LastFirstAppend ==
  ASSUME NEW S, NEW begins, NEW ends \in Seq(S), NEW kind, NEW n \in S,
         LastFirst(ends, begins, kind),
         n \in kind => \A x \in ToSet(ends) \cap kind : Before(begins, n, x)
  PROVE  LastFirst(Append(ends, n), begins, kind)
<1> DEFINE longer == Append(ends, n)
<1>1. /\ \A k \in DOMAIN ends : longer[k] = ends[k] /\ k \in Nat
      /\ DOMAIN longer = DOMAIN ends \cup {Len(ends) + 1} /\ longer[Len(ends) + 1] = n
      /\ \A k \in DOMAIN ends : k < Len(ends) + 1
      /\ Len(ends) + 1 \in Nat
  BY AppendNames
<1> HIDE DEF longer
<1> SUFFICES ASSUME NEW p \in DOMAIN longer, NEW q \in DOMAIN longer, p < q,
                    longer[p] \in kind, longer[q] \in kind
             PROVE  Before(begins, longer[q], longer[p])
  BY DEF LastFirst, longer
<1>2. p \in DOMAIN ends /\ longer[p] = ends[p]
  BY <1>1
<1>3. CASE q \in DOMAIN ends
  BY <1>1, <1>2, <1>3 DEF LastFirst
<1>4. CASE q = Len(ends) + 1
  <2>1. ends[p] \in ToSet(ends) \cap kind /\ longer[q] = n
    BY <1>1, <1>2, <1>4 DEF ToSet
  <2> QED
    BY <1>2, <2>1
<1> QED
  BY <1>1, <1>3, <1>4

LEMMA HalfEnds ==
  ASSUME NEW S, NEW kind, NEW open \in Seq(S), open # << >>, NEW begins, NEW ends \in Seq(S),
         Half(kind, open, begins, ends, {})
  PROVE  Half(kind, open, begins, Append(ends, Last(open)), {Last(open)})
<1> DEFINE n == Last(open)
<1>1. n \in S /\ n \in ToSet(open) /\ n \in kind /\ n \notin ToSet(ends)
      /\ ToSet(open) \subseteq kind /\ IsInjective(open) /\ Ordered(open, begins)
  BY FrontNames DEF Half
<1>2. ToSet(Append(ends, n)) = ToSet(ends) \cup {n}
  BY <1>1, AppendedSet
<1>3. LastFirst(Append(ends, n), begins, kind)
  <2>1. \A x \in ToSet(ends) \cap kind : Before(begins, n, x)
    BY <1>1 DEF Half
  <2> QED
    BY <1>1, <2>1, LastFirstAppend DEF Half
<1>4. \A m \in ToSet(open) : m /= n => Before(begins, m, n)
  <2> SUFFICES ASSUME NEW k \in DOMAIN open, open[k] # n
               PROVE  Before(begins, open[k], n)
    BY DEF ToSet
  <2>1. Len(open) \in DOMAIN open /\ n = open[Len(open)] /\ k < Len(open)
    BY DEF Last
  <2> QED
    BY <1>1, <2>1 DEF Ordered
<1> HIDE DEF n
<1>5. \A m \in ToSet(open), x \in (ToSet(ends) \cup {n}) \cap kind : m /= x => Before(begins, m, x)
  BY <1>4 DEF Half
<1>6. Half(kind, open, begins, Append(ends, n), {n})
  BY <1>1, <1>2, <1>3, <1>5 DEF Half
<1> QED
  BY <1>6 DEF n

LEMMA HalfStays ==
  ASSUME NEW S, NEW kind, NEW open, NEW begins, NEW ends \in Seq(S), NEW ending, NEW n \in S,
         Half(kind, open, begins, ends, ending), n \notin kind
  PROVE  Half(kind, open, begins, Append(ends, n), ending)
<1>1. ToSet(Append(ends, n)) = ToSet(ends) \cup {n}
  BY AppendedSet
<1>2. LastFirst(Append(ends, n), begins, kind)
  BY LastFirstAppend DEF Half
<1> QED
  BY <1>1, <1>2 DEF Half

\* The end has been called, and the last is open no more.
LEMMA HalfGone ==
  ASSUME NEW S, NEW kind, NEW open \in Seq(S), open # << >>, NEW begins, NEW ends,
         Half(kind, open, begins, ends, {Last(open)})
  PROVE  Half(kind, Front(open), begins, ends, {})
<1>1. /\ IsInjective(Front(open)) /\ ToSet(Front(open)) = ToSet(open) \ {Last(open)}
      /\ Last(open) \in ToSet(open)
      /\ \A k \in DOMAIN Front(open) : k \in DOMAIN open /\ Front(open)[k] = open[k]
  BY FrontNames DEF Half
<1>2. Ordered(Front(open), begins)
  BY <1>1 DEF Half, Ordered
<1> QED
  BY <1>1, <1>2 DEF Half

\* The last is open no more, and nothing will end it.
LEMMA HalfLoses ==
  ASSUME NEW S, NEW kind, NEW open \in Seq(S), open # << >>, NEW begins, NEW ends,
         Half(kind, open, begins, ends, {})
  PROVE  Half(kind, Front(open), begins, ends, {})
<1>1. /\ IsInjective(Front(open)) /\ ToSet(Front(open)) \subseteq ToSet(open)
      /\ \A k \in DOMAIN Front(open) : k \in DOMAIN open /\ Front(open)[k] = open[k]
  BY FrontNames DEF Half
<1>2. Ordered(Front(open), begins)
  BY <1>1 DEF Half, Ordered
<1> QED
  BY <1>1, <1>2 DEF Half

LEMMA HalvesApart ==
  ASSUME NEW S, NEW p \in Seq(S), NEW m \in Seq(S), IsInjective(p \o m)
  PROVE  IsInjective(p) /\ IsInjective(m) /\ ToSet(p) \cap ToSet(m) = {}
<1> DEFINE all == p \o m
<1>1. /\ DOMAIN p = 1 .. Len(p) /\ Len(p) \in Nat /\ DOMAIN m = 1 .. Len(m) /\ Len(m) \in Nat
      /\ Len(all) = Len(p) + Len(m) /\ all \in Seq(S)
  OBVIOUS
<1>2. DOMAIN all = 1 .. Len(p) + Len(m)
  BY <1>1
<1>3. ASSUME NEW k \in DOMAIN p
      PROVE  k \in DOMAIN all /\ all[k] = p[k]
  BY <1>1, <1>2
<1>4. ASSUME NEW k \in DOMAIN m
      PROVE  Len(p) + k \in DOMAIN all /\ all[Len(p) + k] = m[k]
  <2>1. Len(p) + k \in 1 .. Len(p) + Len(m) /\ Len(p) + k > Len(p) /\ (Len(p) + k) - Len(p) = k
    BY <1>1
  <2> QED
    BY <1>1, <1>2, <2>1
<1>5. \A k, l \in DOMAIN all : all[k] = all[l] => k = l
  BY DEF IsInjective
<1> HIDE DEF all
<1>6. IsInjective(p)
  BY <1>3, <1>5 DEF IsInjective
<1>7. IsInjective(m)
  BY <1>1, <1>4, <1>5 DEF IsInjective
<1>8. ASSUME NEW k \in DOMAIN p, NEW l \in DOMAIN m
      PROVE  p[k] # m[l]
  <2>1. k # Len(p) + l
    BY <1>1
  <2> QED
    BY <1>3, <1>4, <1>5, <2>1
<1> QED
  BY <1>6, <1>7, <1>8 DEF ToSet

\* No name is that of a plugin and of a module.
LEMMA KindsApart ==
  ASSUME NEW i \in Instances
  PROVE  /\ IsInjective(plugins[i]) /\ IsInjective(modules[i])
         /\ ToSet(plugins[i]) \cap ToSet(modules[i]) = {}
BY Configured, HalvesApart, RuntimeAssumption

\* on_unload() is called before the plugin is taken from the list, start()
\* returns before the module is put into it, and a loop over the started
\* modules leaves the list alone until its end.
InUnload(i) == at[i] \in {"on_unload", "undo_on_unload"}
InStart(i) == at[i] \in {"in_start", "roll_one"}
Winding(i) ==
  at[i] \in {"roll_back", "in_roll_back", "stop_modules", "in_stop", "stop_tasks", "exited"}

EndingPlugin(i) == IF InUnload(i) THEN {Last(loaded[i])} ELSE {}
OpenModules(i) ==
  IF InStart(i) THEN Append(started[i], Head(left[i]))
  ELSE IF Winding(i) THEN left[i] ELSE started[i]

\* After a stop() that raised in a roll-back the list holds modules that were
\* stopped.
Pairs(i) ==
  /\ Half(ToSet(plugins[i]), loaded[i], begun[i], ended[i], EndingPlugin(i))
  /\ ~Aborted(i, "in_roll_back") =>
       Half(ToSet(modules[i]), OpenModules(i), begun[i], ended[i], {})

\* What has begun was ended or is in a list, or its start() raised.
Covered(i) ==
  /\ ToSet(begun[i]) \cap ToSet(plugins[i]) \subseteq ToSet(ended[i]) \cup ToSet(loaded[i])
  /\ \A m \in ToSet(begun[i]) \cap ToSet(modules[i]) :
       \/ m \in ToSet(ended[i]) \/ m \in ToSet(started[i]) \/ <<"in_start", m>> \in raised[i]
       \/ InStart(i) /\ m = Head(left[i])
  /\ ToSet(started[i]) \subseteq ToSet(begun[i]) \cap ToSet(modules[i])
  /\ Winding(i) =>
       /\ ToSet(started[i]) \subseteq ToSet(left[i]) \cup ToSet(ended[i])
       /\ ToSet(left[i]) \subseteq ToSet(begun[i]) \cap ToSet(modules[i])
  /\ ToSet(ended[i]) \subseteq ToSet(begun[i]) /\ ToSet(begun[i]) \subseteq Everyone(i)

\* Who is still to come has not begun.
ToCome(i) ==
  /\ at[i] \in {"loading", "on_load"} =>
       /\ IsInjective(left[i]) /\ started[i] = << >>
       /\ ToSet(left[i]) \subseteq ToSet(plugins[i]) \ ToSet(begun[i])
  /\ at[i] = "starting" =>
       IsInjective(left[i]) /\ ToSet(left[i]) \subseteq ToSet(modules[i]) \ ToSet(begun[i])
  /\ InStart(i) =>
       /\ left[i] # << >> /\ IsInjective(left[i])
       /\ ToSet(left[i]) \subseteq ToSet(modules[i])
       /\ ToSet(Tail(left[i])) \cap ToSet(begun[i]) = {}
  /\ InUnload(i) => loaded[i] # << >>

\* A CancelledError that came out of a call has ended the start.
Skipped(i) ==
  /\ raised[i] \subseteq Calls \X Everyone(i)
  /\ at[i] \in Starting \cup {"down", "running"} => raised[i] = {}
  /\ at[i] \in InStop => ended[i] # << >>

\* How far the shutdown has come.
Emptied(i) ==
  /\ at[i] = "down" => loaded[i] = << >> /\ started[i] = << >>
  /\ at[i] \in {"stop_modules", "in_stop", "stop_tasks", "exited"} /\ ~Aborted(i, "on_unload") =>
       loaded[i] = << >>
  /\ at[i] = "stop_tasks" => left[i] = << >> /\ ~Aborted(i, "on_unload")
  /\ at[i] = "exited" /\ ~Aborted(i, "in_stop") =>
       /\ left[i] = << >>
       /\ ~Aborted(i, "on_unload") => \A n \in Names : tasks[i][n] = "none"

\* Whose commands and hooks there are.
Owned(i) ==
  /\ hooks[i] = ToSet(loaded[i])
  /\ \A o \in owners[i] \ ToSet(modules[i]) :
       \/ o \in ToSet(loaded[i]) \/ <<"on_load", o>> \in raised[i]
       \/ at[i] = "on_load" /\ o = Head(left[i])

Paired(i) == Pairs(i) /\ Covered(i) /\ ToCome(i) /\ Skipped(i) /\ Emptied(i) /\ Owned(i)

Tasks == [Names -> {"none", "running", "stubborn"}]

PairInv ==
  /\ Inv
  /\ loaded \in [Instances -> Seq(Strings)] /\ ended \in [Instances -> Seq(Strings)]
  /\ DOMAIN raised = Instances /\ tasks \in [Instances -> Tasks]
  /\ \A i \in Instances : Paired(i)

\* What an instance has of its own, as far as Paired() reads it.
Own(j) ==
  <<at[j], left[j], loaded[j], started[j], owners[j], hooks[j], tasks[j], raised[j], begun[j],
    ended[j]>>

LEMMA OthersStayPaired ==
  ASSUME NEW j \in Instances, Paired(j), UNCHANGED Own(j)
  PROVE  Paired(j)'
<1> USE DEF Own
<1>1. Pairs(j)' /\ ToCome(j)'
  BY DEF Paired, Pairs, ToCome, EndingPlugin, OpenModules, InUnload, InStart, Winding, Aborted
<1>2. Covered(j)' /\ Skipped(j)' /\ Emptied(j)' /\ Owned(j)'
  BY DEF Paired, Covered, Skipped, Emptied, Owned, InStart, Winding, Aborted, Everyone
<1> QED
  BY <1>1, <1>2 DEF Paired

\* A step of one instance: what PairInv says of the lists' types, and of it.
LEMMA OneSteps ==
  ASSUME PairInv, Inv', NEW i \in Instances, Paired(i)',
         loaded' \in [Instances -> Seq(Strings)], ended' \in [Instances -> Seq(Strings)],
         DOMAIN raised' = Instances, tasks' \in [Instances -> Tasks],
         \A j \in Instances \ {i} : UNCHANGED Own(j)
  PROVE  PairInv'
<1>1. \A j \in Instances \ {i} : Paired(j)'
  BY OthersStayPaired DEF PairInv
<1> QED
  BY <1>1 DEF PairInv

LEMMA InitPaired == Init => PairInv
<1> SUFFICES ASSUME Init PROVE PairInv
  OBVIOUS
<1>1. Inv
  BY InitInv
<1>2. ASSUME NEW i \in Instances
      PROVE  Paired(i)
  <2>1. /\ at[i] = "down" /\ loaded[i] = << >> /\ started[i] = << >> /\ begun[i] = << >>
        /\ ended[i] = << >> /\ hooks[i] = {} /\ owners[i] = {} /\ raised[i] = {}
    BY DEF Init
  <2>2. Pairs(i)
    BY <2>1, HalfEmpty DEF Pairs, EndingPlugin, OpenModules, InUnload, InStart, Winding
  <2>3. Covered(i) /\ ToCome(i) /\ Skipped(i) /\ Emptied(i) /\ Owned(i)
    BY <2>1, NoName DEF Covered, ToCome, Skipped, Emptied, Owned, InUnload, InStart, Winding, InStop
  <2> QED
    BY <2>2, <2>3 DEF Paired
<1>3. /\ loaded \in [Instances -> Seq(Strings)] /\ ended \in [Instances -> Seq(Strings)]
      /\ DOMAIN raised = Instances /\ tasks \in [Instances -> Tasks]
  BY NoName DEF Init, Tasks
<1> QED
  BY <1>1, <1>2, <1>3 DEF PairInv

\* What is known of the instance that does a step.
LEMMA OfOne ==
  ASSUME PairInv, NEW i \in Instances
  PROVE  /\ Paired(i) /\ Sound(i)
         /\ left[i] \in Seq(Strings) /\ loaded[i] \in Seq(Strings) /\ started[i] \in Seq(Strings)
         /\ begun[i] \in Seq(Strings) /\ ended[i] \in Seq(Strings)
         /\ DOMAIN at = Instances /\ DOMAIN owners = Instances /\ DOMAIN hooks = Instances
         /\ left \in [Instances -> Seq(Strings)] /\ loaded \in [Instances -> Seq(Strings)]
         /\ started \in [Instances -> Seq(Strings)] /\ begun \in [Instances -> Seq(Strings)]
         /\ ended \in [Instances -> Seq(Strings)] /\ DOMAIN raised = Instances
         /\ tasks \in [Instances -> Tasks] /\ tasks[i] \in Tasks
BY DEF PairInv, Inv, Types

\* Nothing was raised, so nothing is excepted.
LEMMA Unharmed ==
  ASSUME NEW i \in Instances, raised[i] = {}
  PROVE  \A call : ~Aborted(i, call)
BY DEF Aborted

\* A CancelledError out of a call is remembered.
LEMMA Remembered ==
  ASSUME NEW i \in Instances, DOMAIN raised = Instances, NEW name, Raise(i, name)
  PROVE  /\ raised'[i] = raised[i] \cup {<<at[i], name>>} /\ DOMAIN raised' = Instances
         /\ \A j \in Instances \ {i} : raised'[j] = raised[j]
BY DEF Raise

LEMMA LoadPaired ==
  ASSUME PairInv, NEW i \in Instances, Load(i)
  PROVE  PairInv'
<1> DEFINE n == Head(left[i])
<1>1. Inv'
  BY LoadInv DEF PairInv
<1>2. /\ left[i] \in Seq(Strings) /\ loaded[i] \in Seq(Strings) /\ begun[i] \in Seq(Strings)
      /\ DOMAIN at = Instances /\ DOMAIN hooks = Instances /\ DOMAIN owners = Instances
      /\ left \in [Instances -> Seq(Strings)] /\ begun \in [Instances -> Seq(Strings)]
      /\ loaded \in [Instances -> Seq(Strings)] /\ DOMAIN raised = Instances
      /\ Sound(i) /\ Paired(i)
  BY OfOne
<1>3. left[i] # << >> /\ at[i] \in {"loading", "on_load"}
      /\ at'[i] \in {"loading", "on_load", "stop_control"}
      /\ ended' = ended /\ started' = started /\ tasks' = tasks
  BY <1>2 DEF Load, load, Goto, Sound, Named
<1>4. ended[i] = << >> /\ raised[i] = {}
  BY <1>2, <1>3 DEF Sound, Callable, Open, Starting, Paired, Skipped
<1>5. /\ IsInjective(left[i]) /\ started[i] = << >>
      /\ ToSet(left[i]) \subseteq ToSet(plugins[i]) \ ToSet(begun[i])
  BY <1>2, <1>3 DEF Paired, ToCome
<1>6. /\ n \in Strings /\ n \in ToSet(left[i]) /\ IsInjective(Tail(left[i]))
      /\ Tail(left[i]) \in Seq(Strings) /\ ToSet(Tail(left[i])) = ToSet(left[i]) \ {n}
  BY <1>2, <1>3, <1>5, TailNames
<1>7. n \in ToSet(plugins[i]) /\ n \notin ToSet(modules[i]) /\ n \notin ToSet(begun[i])
  BY <1>5, <1>6, KindsApart
<1>8. /\ Half(ToSet(plugins[i]), loaded[i], begun[i], << >>, {})
      /\ Half(ToSet(modules[i]), << >>, begun[i], << >>, {})
      /\ ToSet(begun[i]) \subseteq Everyone(i) /\ hooks[i] = ToSet(loaded[i])
      /\ ToSet(begun[i]) \cap ToSet(plugins[i]) \subseteq ToSet(loaded[i])
      /\ ToSet(begun[i]) \cap ToSet(modules[i]) = {}
      /\ \A o \in owners[i] \ ToSet(modules[i]) :
           o \in ToSet(loaded[i]) \/ (at[i] = "on_load" /\ o = n)
  <2>1. /\ Half(ToSet(plugins[i]), loaded[i], begun[i], << >>, {})
        /\ Half(ToSet(modules[i]), << >>, begun[i], << >>, {})
    BY <1>2, <1>3, <1>4, <1>5, Unharmed
       DEF Paired, Pairs, EndingPlugin, OpenModules, InUnload, InStart, Winding
  <2>2. /\ ToSet(begun[i]) \subseteq Everyone(i)
        /\ ToSet(begun[i]) \cap ToSet(plugins[i]) \subseteq ToSet(loaded[i])
        /\ ToSet(begun[i]) \cap ToSet(modules[i]) = {}
    BY <1>2, <1>3, <1>4, <1>5, NoName DEF Paired, Covered, InStart
  <2> QED
    BY <1>2, <1>4, <2>1, <2>2 DEF Paired, Owned
<1> DEFINE more == Append(begun[i], n)
<1>9. /\ Half(ToSet(plugins[i]), Append(loaded[i], n), more, << >>, {})
      /\ Half(ToSet(modules[i]), << >>, more, << >>, {})
      /\ ToSet(more) = ToSet(begun[i]) \cup {n}
      /\ Append(loaded[i], n) \in Seq(Strings)
      /\ ToSet(Append(loaded[i], n)) = ToSet(loaded[i]) \cup {n}
  <2>1. Half(ToSet(plugins[i]), Append(loaded[i], n), more, << >>, {})
    BY <1>2, <1>6, <1>7, <1>8, HalfBegins
  <2>2. << >> \in Seq(Strings)
    BY NoName
  <2>3. Half(ToSet(modules[i]), << >>, more, << >>, {})
    BY <1>2, <1>6, <1>7, <1>8, <2>2, HalfWaits
  <2> QED
    BY <1>2, <1>6, <2>1, <2>3, AppendedSet
<1>10. ToSet(<< >>) = {} /\ started'[i] = << >> /\ ended'[i] = << >>
  BY <1>3, <1>4, <1>5, NoName
<1> HIDE DEF more
<1>11. ASSUME at[i] = "loading", at'[i] = "on_load", owners'[i] = owners[i] \cup {n},
              UNCHANGED <<left, loaded, hooks, begun, raised>>
       PROVE  Paired(i)'
  <2>1. Pairs(i)'
    BY <1>4, <1>8, <1>10, <1>11
       DEF Pairs, EndingPlugin, OpenModules, InUnload, InStart, Winding
  <2>2. Covered(i)' /\ ToCome(i)'
    BY <1>4, <1>5, <1>8, <1>10, <1>11
       DEF Covered, ToCome, InUnload, InStart, Winding, Everyone
  <2>3. Skipped(i)' /\ Emptied(i)' /\ Owned(i)'
    BY <1>4, <1>8, <1>11 DEF Skipped, Emptied, Owned, InStop
  <2> QED
    BY <2>1, <2>2, <2>3 DEF Paired
<1>12. ASSUME at[i] = "on_load", at'[i] = "loading", left'[i] = Tail(left[i]),
              loaded'[i] = Append(loaded[i], n), hooks'[i] = hooks[i] \cup {n},
              begun'[i] = more, UNCHANGED <<owners, raised>>
       PROVE  Paired(i)'
  <2>1. Pairs(i)'
    BY <1>9, <1>10, <1>12 DEF Pairs, EndingPlugin, OpenModules, InUnload, InStart, Winding
  <2>2. Covered(i)'
    BY <1>7, <1>8, <1>9, <1>10, <1>12 DEF Covered, InStart, Winding, Everyone
  <2>3. ToCome(i)' /\ Skipped(i)' /\ Emptied(i)' /\ Owned(i)'
    BY <1>4, <1>5, <1>6, <1>8, <1>9, <1>10, <1>12
       DEF ToCome, Skipped, Emptied, Owned, InUnload, InStart, InStop
  <2> QED
    BY <2>1, <2>2, <2>3 DEF Paired
<1>13. ASSUME at[i] = "on_load", at'[i] = "loading", left'[i] = Tail(left[i]),
              owners'[i] = owners[i] \ {n}, UNCHANGED <<loaded, hooks, begun, raised>>
       PROVE  Paired(i)'
  <2>1. Pairs(i)'
    BY <1>8, <1>10, <1>13 DEF Pairs, EndingPlugin, OpenModules, InUnload, InStart, Winding
  <2>2. Covered(i)'
    BY <1>8, <1>10, <1>13 DEF Covered, InStart, Winding, Everyone
  <2>3. ToCome(i)' /\ Skipped(i)' /\ Emptied(i)' /\ Owned(i)'
    BY <1>4, <1>5, <1>6, <1>8, <1>10, <1>13
       DEF ToCome, Skipped, Emptied, Owned, InUnload, InStart, InStop
  <2> QED
    BY <2>1, <2>2, <2>3 DEF Paired
<1>14. ASSUME at[i] = "on_load", at'[i] = "stop_control", raised'[i] = {<<"on_load", n>>},
              UNCHANGED <<left, loaded, hooks, begun, owners>>
       PROVE  Paired(i)'
  <2>1. Pairs(i)'
    BY <1>8, <1>10, <1>14 DEF Pairs, EndingPlugin, OpenModules, InUnload, InStart, Winding
  <2>2. Covered(i)' /\ ToCome(i)'
    BY <1>8, <1>10, <1>14 DEF Covered, ToCome, InUnload, InStart, Winding, Everyone
  <2>3. Skipped(i)'
    BY <1>7, <1>14 DEF Skipped, Starting, InStop, Calls, Everyone
  <2>4. Emptied(i)' /\ Owned(i)'
    BY <1>8, <1>14 DEF Emptied, Owned
  <2> QED
    BY <2>1, <2>2, <2>3, <2>4 DEF Paired
<1>15. \/ /\ at[i] = "loading" /\ at'[i] = "on_load" /\ owners'[i] = owners[i] \cup {n}
          /\ UNCHANGED <<left, loaded, hooks, begun, raised>>
       \/ /\ at[i] = "on_load" /\ at'[i] = "loading" /\ left'[i] = Tail(left[i])
          /\ loaded' = [loaded EXCEPT ![i] = Append(loaded[i], n)]
          /\ hooks'[i] = hooks[i] \cup {n} /\ begun'[i] = more /\ UNCHANGED <<owners, raised>>
       \/ /\ at[i] = "on_load" /\ at'[i] = "loading" /\ left'[i] = Tail(left[i])
          /\ owners'[i] = owners[i] \ {n} /\ UNCHANGED <<loaded, hooks, begun, raised>>
       \/ /\ at[i] = "on_load" /\ at'[i] = "stop_control" /\ Raise(i, n)
          /\ UNCHANGED <<left, loaded, hooks, begun, owners>>
  BY <1>2 DEF Load, load, Goto, more
<1> HIDE DEF n
<1>16. Raise(i, n) => /\ raised'[i] = raised[i] \cup {<<at[i], n>>} /\ DOMAIN raised' = Instances
                      /\ \A j \in Instances \ {i} : raised'[j] = raised[j]
  BY <1>2, Remembered
<1>17. loaded' \in [Instances -> Seq(Strings)] /\ DOMAIN raised' = Instances
  BY <1>2, <1>9, <1>15, <1>16
<1>18. Paired(i)'
  <2>1. CASE raised' = raised
    BY <1>2, <1>11, <1>12, <1>13, <1>14, <1>15, <1>4, <1>16, <2>1
  <2>2. CASE Raise(i, n)
    BY <1>4, <1>14, <1>15, <1>16, <2>2
  <2> QED
    BY <1>15, <2>1, <2>2
<1>19. \A j \in Instances \ {i} : UNCHANGED Own(j)
  <2>1. \A j \in Instances \ {i} : raised'[j] = raised[j]
    BY <1>15, <1>16
  <2>2. \A j \in Instances \ {i} :
          UNCHANGED <<at[j], left[j], loaded[j], hooks[j], owners[j], begun[j]>>
    BY <1>2 DEF Load, load, Goto
  <2> QED
    BY <1>3, <2>1, <2>2 DEF Own
<1> QED
  BY <1>1, <1>3, <1>17, <1>18, <1>19, OfOne, OneSteps

LEMMA LoadedPaired ==
  ASSUME PairInv, NEW i \in Instances, load_all_ends(i)
  PROVE  PairInv'
<1>1. Inv'
  BY LoadInv DEF PairInv
<1>2. Sound(i) /\ Paired(i) /\ DOMAIN at = Instances /\ left \in [Instances -> Seq(Strings)]
  BY OfOne
<1>3. /\ UNCHANGED <<loaded, started, ended, begun, hooks, owners, raised, tasks>>
      /\ at[i] = "loading"
      /\ at'[i] = "undo_load" \/ (at'[i] = "starting" /\ left'[i] = modules[i])
  BY <1>2 DEF load_all_ends, Goto
<1>4. ended[i] = << >> /\ started[i] = << >> /\ raised[i] = {}
  BY <1>2, <1>3 DEF Sound, Callable, Open, Starting, Paired, ToCome, Skipped
<1>5. ToSet(begun[i]) \cap ToSet(modules[i]) = {}
  BY <1>2, <1>3, <1>4, NoName DEF Paired, Covered, InStart
<1>6. Pairs(i)'
  BY <1>2, <1>3
     DEF Paired, Pairs, EndingPlugin, OpenModules, InUnload, InStart, Winding, Aborted
<1>7. Covered(i)' /\ Skipped(i)' /\ Emptied(i)' /\ Owned(i)'
  BY <1>2, <1>3, <1>4
     DEF Paired, Covered, Skipped, Emptied, Owned, InStart, Winding, Everyone, InStop
<1>8. ToCome(i)'
  BY <1>3, <1>5, KindsApart DEF ToCome, InStart, InUnload
<1>9. \A j \in Instances \ {i} : UNCHANGED Own(j)
  BY <1>2 DEF load_all_ends, Goto, Own
<1> QED
  BY <1>1, <1>3, <1>6, <1>7, <1>8, <1>9, OfOne, OneSteps DEF Paired

\* on_unload() is called for the last one, returns or raises, or none is left.
LEMMA UnloadPaired ==
  ASSUME PairInv, NEW i \in Instances, unload_all(i)
  PROVE  PairInv'
<1> DEFINE n == Last(loaded[i])
           ends == Append(ended[i], n)
<1>1. Inv'
  BY UnloadInv DEF PairInv
<1>2. /\ loaded[i] \in Seq(Strings) /\ ended[i] \in Seq(Strings) /\ Paired(i)
      /\ started[i] \in Seq(Strings)
      /\ DOMAIN at = Instances /\ DOMAIN hooks = Instances /\ DOMAIN owners = Instances
      /\ loaded \in [Instances -> Seq(Strings)] /\ ended \in [Instances -> Seq(Strings)]
      /\ left \in [Instances -> Seq(Strings)] /\ DOMAIN raised = Instances
      /\ tasks \in [Instances -> Tasks]
  BY OfOne
<1>3. UNCHANGED <<started, begun, tasks>>
  BY DEF unload_all
<1>4. at[i] \in {"undo_load", "unload", "undo_on_unload", "on_unload"}
      /\ \/ /\ at[i] \in {"undo_load", "unload"} /\ loaded[i] # << >>
            /\ at'[i] \in {"undo_on_unload", "on_unload"}
            /\ ended' = [ended EXCEPT ![i] = ends] /\ UNCHANGED <<left, loaded, hooks, owners, raised>>
         \/ /\ at[i] \in {"undo_load", "unload"} /\ loaded[i] = << >>
            /\ at'[i] \in {"stop_control", "stop_modules"} /\ left'[i] = started[i]
            /\ UNCHANGED <<loaded, hooks, owners, ended, raised>>
         \/ /\ at[i] \in {"undo_on_unload", "on_unload"} /\ Forget(i, n) /\ ended' = ended
            /\ at'[i] \in {"undo_load", "unload"} /\ UNCHANGED <<left, raised>>
         \/ /\ at[i] = "undo_on_unload" /\ Forget(i, n) /\ ended' = ended
            /\ at'[i] = "stop_control" /\ left'[i] = started[i] /\ Raise(i, n)
         \/ /\ at[i] = "on_unload" /\ Forget(i, n) /\ ended' = ended
            /\ at'[i] = "stop_modules" /\ left'[i] = started[i] /\ Raise(i, n)
  BY <1>2 DEF unload_all, Unloading, Goto
<1>5. /\ Half(ToSet(plugins[i]), loaded[i], begun[i], ended[i], EndingPlugin(i))
      /\ ~Aborted(i, "in_roll_back") => Half(ToSet(modules[i]), started[i], begun[i], ended[i], {})
      /\ hooks[i] = ToSet(loaded[i])
      /\ \A o \in owners[i] \ ToSet(modules[i]) :
           o \in ToSet(loaded[i]) \/ <<"on_load", o>> \in raised[i]
      /\ Covered(i) /\ Skipped(i)
  BY <1>2, <1>4 DEF Paired, Pairs, Owned, OpenModules, InStart, Winding
<1>6. ASSUME loaded[i] # << >>
      PROVE  n \in Strings /\ n \in ToSet(loaded[i]) /\ n \in ToSet(begun[i])
             /\ n \in ToSet(plugins[i]) /\ n \notin ToSet(modules[i])
             /\ Front(loaded[i]) \in Seq(Strings) /\ ends \in Seq(Strings) /\ ends # << >>
             /\ ToSet(ends) = ToSet(ended[i]) \cup {n}
             /\ ToSet(Front(loaded[i])) = ToSet(loaded[i]) \ {n}
  <2>1. IsInjective(loaded[i]) /\ ToSet(loaded[i]) \subseteq ToSet(plugins[i])
        /\ ToSet(loaded[i]) \subseteq ToSet(begun[i])
    BY <1>5 DEF Half
  <2>2. n \in Strings /\ n \in ToSet(loaded[i]) /\ Front(loaded[i]) \in Seq(Strings)
        /\ ToSet(Front(loaded[i])) = ToSet(loaded[i]) \ {n}
    BY <1>2, <1>6, <2>1, FrontNames
  <2> HIDE DEF n
  <2>3. ends \in Seq(Strings) /\ ends # << >> /\ ToSet(ends) = ToSet(ended[i]) \cup {n}
    <3>1. ends \in Seq(Strings) /\ ToSet(ends) = ToSet(ended[i]) \cup {n}
      BY <1>2, <2>2, AppendedSet
    <3>2. ends # << >>
      BY <1>2, <2>2, AppendNames
    <3> QED
      BY <3>1, <3>2
  <2>4. n \in ToSet(begun[i]) /\ n \in ToSet(plugins[i]) /\ n \notin ToSet(modules[i])
    BY <2>1, <2>2, KindsApart
  <2> QED
    BY <2>2, <2>3, <2>4
<1> HIDE DEF n, ends
<1>0. at'[i] \in Starting => at[i] \in Starting /\ raised' = raised
  BY <1>2 DEF unload_all, Unloading, Goto, Starting
<1>7. ASSUME at[i] \in {"undo_load", "unload"}, loaded[i] # << >>,
             at'[i] \in {"undo_on_unload", "on_unload"}, ended'[i] = ends,
             UNCHANGED <<left, loaded, hooks, owners, raised>>
      PROVE  Paired(i)'
  <2>1. Half(ToSet(plugins[i]), loaded[i], begun[i], ended[i], {})
    BY <1>5, <1>7 DEF EndingPlugin, InUnload
  <2>2. /\ Half(ToSet(plugins[i]), loaded[i], begun[i], ends, {n})
        /\ ~Aborted(i, "in_roll_back") => Half(ToSet(modules[i]), started[i], begun[i], ends, {})
    <3>1. Half(ToSet(plugins[i]), loaded[i], begun[i], ends, {n})
      BY <1>2, <1>7, <2>1, HalfEnds DEF ends, n
    <3>2. ~Aborted(i, "in_roll_back") => Half(ToSet(modules[i]), started[i], begun[i], ends, {})
      BY <1>2, <1>5, <1>6, <1>7, HalfStays DEF ends
    <3> QED
      BY <3>1, <3>2
  <2>3. Pairs(i)'
    BY <1>3, <1>7, <2>2
       DEF Pairs, EndingPlugin, OpenModules, InUnload, InStart, Winding, Aborted, n
  <2>4. Covered(i)'
    BY <1>3, <1>5, <1>6, <1>7 DEF Covered, InStart, Winding, Everyone
  <2>5. ToCome(i)' /\ Emptied(i)' /\ Owned(i)'
    BY <1>3, <1>5, <1>7 DEF ToCome, Emptied, Owned, InUnload, InStart
  <2>6. Skipped(i)'
    BY <1>0, <1>5, <1>7 DEF Skipped, InStop, Everyone
  <2> QED
    BY <2>3, <2>4, <2>5, <2>6 DEF Paired
<1>8. ASSUME at[i] \in {"undo_load", "unload"}, loaded[i] = << >>,
             at'[i] \in {"stop_control", "stop_modules"}, left'[i] = started[i],
             UNCHANGED <<loaded, hooks, owners, ended, raised>>
      PROVE  Paired(i)'
  <2>1. Pairs(i)'
    BY <1>3, <1>5, <1>8
       DEF Pairs, EndingPlugin, OpenModules, InUnload, InStart, Winding, Aborted
  <2>2. Covered(i)'
    BY <1>3, <1>5, <1>8 DEF Covered, InStart, Winding, Everyone
  <2>3. ToCome(i)' /\ Emptied(i)' /\ Owned(i)' /\ Skipped(i)'
    BY <1>3, <1>5, <1>8
       DEF ToCome, Emptied, Owned, Skipped, InUnload, InStart, InStop, Starting, Everyone
  <2> QED
    BY <2>1, <2>2, <2>3 DEF Paired
<1>9. ASSUME at[i] \in {"undo_on_unload", "on_unload"}, Forget(i, n), ended' = ended,
             raised[i] \subseteq raised'[i],
             \/ at'[i] \in {"undo_load", "unload"} /\ left' = left /\ raised' = raised
             \/ at'[i] = "stop_control" /\ left'[i] = started[i]
             \/ at'[i] = "stop_modules" /\ left'[i] = started[i] /\ <<"on_unload", n>> \in raised'[i],
             raised'[i] \subseteq raised[i] \cup {<<at[i], n>>}
      PROVE  Paired(i)' /\ loaded' \in [Instances -> Seq(Strings)]
  <2>1. loaded[i] # << >> /\ Half(ToSet(plugins[i]), loaded[i], begun[i], ended[i], {n})
    BY <1>2, <1>5, <1>9 DEF EndingPlugin, InUnload, Paired, ToCome, n
  <2>2. Half(ToSet(plugins[i]), Front(loaded[i]), begun[i], ended[i], {})
    BY <1>2, <2>1, HalfGone DEF n
  <2>3. /\ loaded'[i] = Front(loaded[i]) /\ loaded' \in [Instances -> Seq(Strings)]
        /\ hooks'[i] = hooks[i] \ {n} /\ owners'[i] = owners[i] \ {n}
    BY <1>2, <1>6, <1>9, <2>1 DEF Forget
  <2>4. n \in Everyone(i) /\ n \in Names /\ n \in ToSet(ended[i])
    BY <1>6, <2>1 DEF Everyone, Names, Half
  <2>5. Pairs(i)'
    <3>1. ~Aborted(i, "in_roll_back")' => ~Aborted(i, "in_roll_back")
      BY <1>9 DEF Aborted
    <3>2. OpenModules(i)' = started[i] /\ EndingPlugin(i)' = {}
      BY <1>3, <1>9 DEF OpenModules, EndingPlugin, InUnload, InStart, Winding
    <3> QED
      BY <1>3, <1>5, <1>9, <2>2, <2>3, <3>1, <3>2 DEF Pairs
  <2>6. Covered(i)'
    <3>1. ToSet(begun[i]) \cap ToSet(plugins[i])
            \subseteq ToSet(ended[i]) \cup ToSet(Front(loaded[i]))
      BY <1>5, <1>6, <2>1, <2>4 DEF Covered
    <3> QED
      BY <1>3, <1>5, <1>9, <2>3, <3>1 DEF Covered, InStart, Winding, Everyone
  <2>7. ToCome(i)' /\ Owned(i)'
    BY <1>5, <1>6, <1>9, <2>1, <2>3 DEF ToCome, Owned, InUnload, InStart
  <2>8. Emptied(i)'
    BY <1>9, <2>4 DEF Emptied, Aborted
  <2>9. Skipped(i)'
    <3>1. raised'[i] \subseteq Calls \X Everyone(i)
      BY <1>5, <1>9, <2>4 DEF Skipped, Calls
    <3> QED
      BY <1>0, <1>5, <1>9, <3>1 DEF Skipped, InStop, Everyone
  <2> QED
    BY <2>3, <2>5, <2>6, <2>7, <2>8, <2>9 DEF Paired
<1>10. Raise(i, n) => /\ raised'[i] = raised[i] \cup {<<at[i], n>>} /\ DOMAIN raised' = Instances
                      /\ \A j \in Instances \ {i} : raised'[j] = raised[j]
  BY <1>2, Remembered
<1>11. /\ Paired(i)' /\ loaded' \in [Instances -> Seq(Strings)]
       /\ ended' \in [Instances -> Seq(Strings)] /\ DOMAIN raised' = Instances
  <2> DEFINE Done == /\ Paired(i)' /\ loaded' \in [Instances -> Seq(Strings)]
                     /\ ended' \in [Instances -> Seq(Strings)] /\ DOMAIN raised' = Instances
  <2>1. ASSUME at[i] \in {"undo_load", "unload"}, loaded[i] # << >>,
               at'[i] \in {"undo_on_unload", "on_unload"}, ended' = [ended EXCEPT ![i] = ends],
               UNCHANGED <<left, loaded, hooks, owners, raised>>
        PROVE  Done
    <3>1. ended'[i] = ends /\ ended' \in [Instances -> Seq(Strings)]
      BY <1>2, <1>6, <2>1
    <3> QED
      BY <1>2, <1>7, <2>1, <3>1
  <2>2. ASSUME at[i] \in {"undo_load", "unload"}, loaded[i] = << >>,
               at'[i] \in {"stop_control", "stop_modules"}, left'[i] = started[i],
               UNCHANGED <<loaded, hooks, owners, ended, raised>>
        PROVE  Done
    BY <1>2, <1>8, <2>2
  <2>3. ASSUME at[i] \in {"undo_on_unload", "on_unload"}, Forget(i, n), ended' = ended,
               at'[i] \in {"undo_load", "unload"}, UNCHANGED <<left, raised>>
        PROVE  Done
    BY <1>2, <1>9, <2>3
  <2>4. ASSUME at[i] \in {"undo_on_unload", "on_unload"}, Forget(i, n), ended' = ended,
               left'[i] = started[i], Raise(i, n),
               at'[i] = IF at[i] = "on_unload" THEN "stop_modules" ELSE "stop_control"
        PROVE  Done
    <3>1. raised'[i] = raised[i] \cup {<<at[i], n>>} /\ DOMAIN raised' = Instances
      BY <1>10, <2>4
    <3>2. at'[i] = "stop_control" \/ (at'[i] = "stop_modules" /\ <<"on_unload", n>> \in raised'[i])
      BY <2>4, <3>1
    <3>3. Paired(i)' /\ loaded' \in [Instances -> Seq(Strings)]
      BY <1>9, <2>4, <3>1, <3>2
    <3> QED
      BY <1>2, <2>4, <3>1, <3>3
  <2> QED
    BY <1>4, <2>1, <2>2, <2>3, <2>4
<1>12. \A j \in Instances \ {i} : UNCHANGED Own(j)
  <2>1. \A j \in Instances \ {i} : raised'[j] = raised[j]
    BY <1>4, <1>10
  <2> QED
    BY <1>2, <1>3, <2>1 DEF unload_all, Unloading, Forget, Goto, Own
<1> QED
  BY <1>1, <1>2, <1>3, <1>11, <1>12, OneSteps

LEMMA AppendedOne ==
  ASSUME NEW S, NEW s \in Seq(S), NEW n \in S
  PROVE  Append(s, n) # << >> /\ Front(Append(s, n)) = s /\ Last(Append(s, n)) = n
BY AppendNames

LEMMA StartModulePaired ==
  ASSUME PairInv, NEW i \in Instances, start_module(i)
  PROVE  PairInv'
<1> DEFINE m == Head(left[i])
           more == Append(begun[i], m)
           open == Append(started[i], m)
<1>1. Inv'
  BY StartModuleInv DEF PairInv
<1>2. /\ left[i] \in Seq(Strings) /\ started[i] \in Seq(Strings) /\ begun[i] \in Seq(Strings)
      /\ loaded[i] \in Seq(Strings)
      /\ DOMAIN at = Instances /\ DOMAIN owners = Instances /\ DOMAIN raised = Instances
      /\ left \in [Instances -> Seq(Strings)] /\ begun \in [Instances -> Seq(Strings)]
      /\ started \in [Instances -> Seq(Strings)] /\ Sound(i) /\ Paired(i)
      /\ tasks \in [Instances -> Tasks]
  BY OfOne
<1>3. UNCHANGED <<loaded, hooks, ended>> /\ at[i] \in {"starting", "in_start"}
  BY DEF start_module
<1>4. \/ /\ at[i] = "starting" /\ left[i] # << >> /\ at'[i] = "in_start"
         /\ begun'[i] = more /\ owners'[i] = owners[i] \cup {m}
         /\ UNCHANGED <<left, started, raised>>
      \/ /\ at[i] = "in_start" /\ at'[i] = "starting" /\ left'[i] = Tail(left[i])
         /\ started'[i] = open /\ UNCHANGED <<owners, begun, raised>>
      \/ /\ at[i] = "in_start" /\ at'[i] = "roll_one"
         /\ UNCHANGED <<left, started, owners, begun, raised>>
      \/ /\ at[i] = "in_start" /\ at'[i] = "stop_control" /\ Raise(i, m)
         /\ UNCHANGED <<left, started, owners, begun>>
      \/ /\ at[i] = "starting" /\ at'[i] = "feeds"
         /\ UNCHANGED <<left, started, owners, begun, raised>>
  <2>1. CASE at[i] = "starting" /\ left[i] # << >>
    BY <1>2, <2>1 DEF start_module, Goto
  <2>2. CASE at[i] = "starting" /\ left[i] = << >>
    BY <1>2, <2>2 DEF start_module, Goto
  <2>3. CASE at[i] = "in_start"
    BY <1>2, <2>3 DEF start_module, Goto
  <2> HIDE DEF m, more, open
  <2> QED
    BY <1>3, <2>1, <2>2, <2>3
<1>5. tasks' \in [Instances -> Tasks]
  <2>1. ASSUME NEW t \in {"running", "stubborn"}, tasks' = [tasks EXCEPT ![i][m] = t]
        PROVE  tasks' \in [Instances -> Tasks]
    BY <1>2, <2>1 DEF Tasks
  <2>2. tasks' = tasks \/ \E t \in {"running", "stubborn"} : tasks' = [tasks EXCEPT ![i][m] = t]
    BY DEF start_module
  <2> QED
    BY <1>2, <2>1, <2>2
<1>6. ended[i] = << >> /\ raised[i] = {} /\ ToSet(<< >>) = {}
  BY <1>2, <1>3, NoName DEF Sound, Callable, Open, Starting, Paired, Skipped
<1>7. /\ Half(ToSet(plugins[i]), loaded[i], begun[i], << >>, {})
      /\ Half(ToSet(modules[i]), OpenModules(i), begun[i], << >>, {})
      /\ hooks[i] = ToSet(loaded[i])
      /\ \A o \in owners[i] \ ToSet(modules[i]) : o \in ToSet(loaded[i])
      /\ IsInjective(left[i]) /\ ToSet(left[i]) \subseteq ToSet(modules[i])
  <2>1. /\ Half(ToSet(plugins[i]), loaded[i], begun[i], << >>, {})
        /\ Half(ToSet(modules[i]), OpenModules(i), begun[i], << >>, {})
    BY <1>2, <1>3, <1>6, Unharmed DEF Paired, Pairs, EndingPlugin, InUnload
  <2> QED
    BY <1>2, <1>3, <1>6, <2>1 DEF Paired, ToCome, Owned, InStart
<1>8. /\ ToSet(begun[i]) \subseteq Everyone(i)
      /\ ToSet(begun[i]) \cap ToSet(plugins[i]) \subseteq ToSet(loaded[i])
      /\ \A x \in ToSet(begun[i]) \cap ToSet(modules[i]) :
           x \in ToSet(started[i]) \/ (at[i] = "in_start" /\ x = m)
      /\ ToSet(started[i]) \subseteq ToSet(begun[i]) \cap ToSet(modules[i])
  BY <1>2, <1>3, <1>6 DEF Paired, Covered, InStart
<1>9. ASSUME left[i] # << >>
      PROVE  /\ m \in Strings /\ m \in ToSet(modules[i]) /\ m \notin ToSet(plugins[i])
             /\ IsInjective(Tail(left[i])) /\ ToSet(Tail(left[i])) = ToSet(left[i]) \ {m}
             /\ m \in ToSet(left[i]) /\ open \in Seq(Strings)
             /\ ToSet(open) = ToSet(started[i]) \cup {m}
             /\ ToSet(more) = ToSet(begun[i]) \cup {m}
             /\ open # << >> /\ Front(open) = started[i]
  <2>1. /\ m \in Strings /\ m \in ToSet(left[i])
        /\ IsInjective(Tail(left[i])) /\ ToSet(Tail(left[i])) = ToSet(left[i]) \ {m}
    BY <1>2, <1>7, <1>9, TailNames
  <2>2. m \in ToSet(modules[i]) /\ m \notin ToSet(plugins[i])
    BY <1>7, <2>1, KindsApart
  <2> HIDE DEF m
  <2>3. /\ open \in Seq(Strings) /\ ToSet(open) = ToSet(started[i]) \cup {m}
        /\ ToSet(more) = ToSet(begun[i]) \cup {m}
    BY <1>2, <2>1, AppendedSet
  <2>4. open # << >> /\ Front(open) = started[i]
    BY <1>2, <2>1, AppendedOne
  <2> QED
    BY <2>1, <2>2, <2>3, <2>4
<1> HIDE DEF more
<1>10. ASSUME at[i] = "starting", left[i] # << >>, at'[i] = "in_start", begun'[i] = more,
              owners'[i] = owners[i] \cup {m}, UNCHANGED <<left, started, raised>>
       PROVE  Paired(i)'
  <2>1. m \notin ToSet(begun[i]) /\ ToSet(left[i]) \cap ToSet(begun[i]) = {}
    BY <1>2, <1>9, <1>10 DEF Paired, ToCome
  <2>2. Half(ToSet(modules[i]), started[i], begun[i], << >>, {})
    BY <1>7, <1>10 DEF OpenModules, InStart, Winding
  <2>3. Half(ToSet(modules[i]), open, more, << >>, {})
    BY <1>2, <1>9, <1>10, <2>1, <2>2, HalfBegins DEF more
  <2>4. Half(ToSet(plugins[i]), loaded[i], more, << >>, {})
    <3>1. << >> \in Seq(Strings)
      BY NoName
    <3> QED
      BY <1>2, <1>7, <1>9, <1>10, <3>1, HalfWaits DEF more
  <2>5. Pairs(i)'
    BY <1>3, <1>6, <1>10, <2>3, <2>4
       DEF Pairs, EndingPlugin, OpenModules, InUnload, InStart
  <2>6. Covered(i)'
    BY <1>3, <1>6, <1>8, <1>9, <1>10 DEF Covered, InStart, Winding, Everyone
  <2>7. ToCome(i)'
    BY <1>7, <1>9, <1>10, <2>1 DEF ToCome, InUnload, InStart
  <2>8. Skipped(i)' /\ Emptied(i)' /\ Owned(i)'
    BY <1>3, <1>6, <1>7, <1>9, <1>10 DEF Skipped, Emptied, Owned, InStop
  <2> QED
    BY <2>5, <2>6, <2>7, <2>8 DEF Paired
<1>11. ASSUME at[i] = "in_start", at'[i] = "starting", left'[i] = Tail(left[i]),
              started'[i] = open, UNCHANGED <<owners, begun, raised>>
       PROVE  Paired(i)'
  <2>1. left[i] # << >> /\ ToSet(Tail(left[i])) \cap ToSet(begun[i]) = {}
    BY <1>2, <1>11 DEF Paired, ToCome, InStart
  <2>2. Half(ToSet(modules[i]), open, begun[i], << >>, {})
    BY <1>7, <1>11 DEF OpenModules, InStart
  <2>3. Pairs(i)'
    BY <1>3, <1>6, <1>7, <1>11, <2>2
       DEF Pairs, EndingPlugin, OpenModules, InUnload, InStart, Winding
  <2>4. Covered(i)'
    <3>1. ToSet(open) \subseteq ToSet(begun[i]) \cap ToSet(modules[i])
      BY <2>2 DEF Half
    <3> QED
      BY <1>3, <1>6, <1>8, <1>9, <1>11, <2>1, <3>1 DEF Covered, InStart, Winding, Everyone
  <2>5. ToCome(i)'
    BY <1>7, <1>9, <1>11, <2>1 DEF ToCome, InUnload, InStart
  <2>6. Skipped(i)' /\ Emptied(i)' /\ Owned(i)'
    BY <1>3, <1>6, <1>7, <1>11 DEF Skipped, Emptied, Owned, InStop
  <2> QED
    BY <2>3, <2>4, <2>5, <2>6 DEF Paired
<1>12. ASSUME UNCHANGED <<left, started, owners, begun, raised>>,
              (at[i] = "in_start" /\ at'[i] = "roll_one") \/ (at[i] = "starting" /\ at'[i] = "feeds")
       PROVE  Paired(i)'
  <2>1. Pairs(i)'
    BY <1>3, <1>6, <1>7, <1>12
       DEF Pairs, EndingPlugin, OpenModules, InUnload, InStart, Winding
  <2>2. Covered(i)' /\ ToCome(i)'
    BY <1>2, <1>3, <1>6, <1>8, <1>12
       DEF Paired, Covered, ToCome, InUnload, InStart, Winding, Everyone
  <2>3. Skipped(i)' /\ Emptied(i)' /\ Owned(i)'
    BY <1>3, <1>6, <1>7, <1>12 DEF Skipped, Emptied, Owned, InStop
  <2> QED
    BY <2>1, <2>2, <2>3 DEF Paired
<1>13. ASSUME UNCHANGED <<left, started, owners, begun>>, at[i] = "in_start",
              at'[i] = "stop_control", raised'[i] = {<<"in_start", m>>}
       PROVE  Paired(i)'
  <2>1. left[i] # << >>
    BY <1>2, <1>13 DEF Paired, ToCome, InStart
  <2>2. Half(ToSet(modules[i]), open, begun[i], << >>, {})
    BY <1>7, <1>13 DEF OpenModules, InStart
  <2>3. Half(ToSet(modules[i]), started[i], begun[i], << >>, {})
    <3> HIDE DEF m, open
    <3>1. /\ open \in Seq(Strings) /\ open # << >> /\ Front(open) = started[i]
      BY <1>9, <2>1
    <3>2. Half(ToSet(modules[i]), Front(open), begun[i], << >>, {})
      BY <2>2, <3>1, HalfLoses
    <3> QED
      BY <3>1, <3>2
  <2>4. Pairs(i)'
    BY <1>3, <1>6, <1>7, <1>13, <2>3
       DEF Pairs, EndingPlugin, OpenModules, InUnload, InStart, Winding
  <2>5. Covered(i)' /\ ToCome(i)'
    BY <1>3, <1>6, <1>8, <1>13 DEF Covered, ToCome, InUnload, InStart, Winding, Everyone
  <2>6. Skipped(i)'
    BY <1>9, <1>13, <2>1 DEF Skipped, Starting, InStop, Calls, Everyone
  <2>7. Emptied(i)' /\ Owned(i)'
    BY <1>3, <1>7, <1>13 DEF Emptied, Owned
  <2> QED
    BY <2>4, <2>5, <2>6, <2>7 DEF Paired
<1> HIDE DEF m, open
<1>14. Raise(i, m) => /\ raised'[i] = raised[i] \cup {<<at[i], m>>} /\ DOMAIN raised' = Instances
                      /\ \A j \in Instances \ {i} : raised'[j] = raised[j]
  BY <1>2, Remembered
<1>15. Paired(i)' /\ DOMAIN raised' = Instances
  <2>1. CASE at'[i] = "stop_control" /\ Raise(i, m)
    BY <1>4, <1>6, <1>13, <1>14, <2>1
  <2>2. CASE raised' = raised /\ at'[i] # "stop_control"
    BY <1>2, <1>4, <1>10, <1>11, <1>12, <2>2
  <2> QED
    BY <1>4, <2>1, <2>2
<1>16. \A j \in Instances \ {i} : UNCHANGED Own(j)
  <2>1. \A j \in Instances \ {i} : raised'[j] = raised[j]
    BY <1>4, <1>14
  <2>2. \A j \in Instances \ {i} :
          UNCHANGED <<at[j], left[j], started[j], owners[j], tasks[j], begun[j]>>
    BY <1>2 DEF start_module, Goto
  <2> QED
    BY <1>3, <2>1, <2>2 DEF Own
<1> QED
  BY <1>1, <1>3, <1>5, <1>15, <1>16, OfOne, OneSteps

\* The stop() of a module is called.
LEMMA StopCalled ==
  ASSUME PairInv, NEW i \in Instances, NEW m \in Strings, _stop_builtin_module(i, m)
  PROVE  /\ ended'[i] = Append(ended[i], m) /\ ended' \in [Instances -> Seq(Strings)]
         /\ ended'[i] # << >> /\ ToSet(ended'[i]) = ToSet(ended[i]) \cup {m}
         /\ tasks' \in [Instances -> Tasks] /\ owners'[i] \subseteq owners[i]
         /\ \A j \in Instances \ {i} : UNCHANGED <<ended[j], tasks[j], owners[j]>>
<1>1. /\ ended \in [Instances -> Seq(Strings)] /\ tasks \in [Instances -> Tasks]
      /\ DOMAIN owners = Instances
  BY OfOne
<1>2. /\ ended' = [ended EXCEPT ![i] = Append(ended[i], m)]
      /\ tasks' = [tasks EXCEPT ![i] = [tasks[i] EXCEPT ![m] = "none"]]
      /\ \E gone : owners' = [owners EXCEPT ![i] = owners[i] \ gone]
  BY DEF _stop_builtin_module
<1>3. /\ Append(ended[i], m) \in Seq(Strings) /\ Append(ended[i], m) # << >>
      /\ ToSet(Append(ended[i], m)) = ToSet(ended[i]) \cup {m}
  <2>1. ended[i] \in Seq(Strings)
    BY <1>1
  <2> QED
    BY <2>1, AppendedSet, AppendNames
<1>4. /\ ended'[i] = Append(ended[i], m) /\ ended' \in [Instances -> Seq(Strings)]
      /\ \A j \in Instances \ {i} : ended'[j] = ended[j]
  BY <1>1, <1>2, <1>3
<1>5. tasks' \in [Instances -> Tasks] /\ \A j \in Instances \ {i} : tasks'[j] = tasks[j]
  <2>1. [tasks[i] EXCEPT ![m] = "none"] \in Tasks
    BY <1>1 DEF Tasks
  <2> QED
    BY <1>1, <1>2, <2>1
<1>6. owners'[i] \subseteq owners[i] /\ \A j \in Instances \ {i} : owners'[j] = owners[j]
  BY <1>1, <1>2
<1> QED
  BY <1>3, <1>4, <1>5, <1>6

\* Of the open modules the last one has its stop() called.
LEMMA HalfStops ==
  ASSUME NEW i \in Instances, NEW open \in Seq(Strings), open # << >>, NEW begins,
         NEW ends \in Seq(Strings), Half(ToSet(modules[i]), open, begins, ends, {})
  PROVE  /\ Half(ToSet(modules[i]), Front(open), begins, Append(ends, Last(open)), {})
         /\ Last(open) \in ToSet(begins) /\ Last(open) \in ToSet(modules[i])
<1> DEFINE n == Last(open)
<1>1. Half(ToSet(modules[i]), open, begins, Append(ends, n), {n})
  BY HalfEnds
<1>2. Half(ToSet(modules[i]), Front(open), begins, Append(ends, n), {})
  BY <1>1, HalfGone
<1>3. n \in ToSet(open)
  BY FrontNames DEF Half
<1> QED
  BY <1>2, <1>3 DEF Half

\* The module whose start() failed is stopped first.
LEMMA RollOnePaired ==
  ASSUME PairInv, NEW i \in Instances, StopModules(i), roll_one(i)
  PROVE  PairInv'
<1> DEFINE m == Head(left[i])
           open == Append(started[i], m)
<1>1. Inv'
  BY UnloadInv DEF PairInv
<1>2. /\ left[i] \in Seq(Strings) /\ started[i] \in Seq(Strings) /\ ended[i] \in Seq(Strings)
      /\ DOMAIN at = Instances /\ Paired(i) /\ DOMAIN raised = Instances
      /\ loaded \in [Instances -> Seq(Strings)]
  BY OfOne
<1>3. UNCHANGED <<left, started, loaded, hooks, begun, raised>>
      /\ at[i] = "roll_one" /\ at'[i] = "in_stop_one"
  BY <1>2 DEF StopModules, roll_one, Goto
<1>4. left[i] # << >> /\ m \in Strings
  BY <1>2, <1>3, ShorterLists DEF Paired, ToCome, InStart
<1>5. /\ ended'[i] = Append(ended[i], m) /\ ended' \in [Instances -> Seq(Strings)]
      /\ ended'[i] # << >> /\ ToSet(ended'[i]) = ToSet(ended[i]) \cup {m}
      /\ tasks' \in [Instances -> Tasks] /\ owners'[i] \subseteq owners[i]
      /\ \A j \in Instances \ {i} : UNCHANGED <<ended[j], tasks[j], owners[j]>>
  BY <1>4, StopCalled DEF roll_one
<1>6. /\ open \in Seq(Strings) /\ open # << >> /\ Front(open) = started[i] /\ Last(open) = m
  BY <1>2, <1>4, AppendedOne, AppendedSet
<1>7. /\ Half(ToSet(plugins[i]), loaded[i], begun[i], ended[i], {})
      /\ Half(ToSet(modules[i]), open, begun[i], ended[i], {})
      /\ raised[i] = {} /\ Covered(i) /\ Owned(i)
  <2>1. raised[i] = {}
    BY <1>2, <1>3 DEF Paired, Skipped, Starting
  <2> QED
    BY <1>2, <1>3, <2>1, Unharmed
       DEF Paired, Pairs, EndingPlugin, OpenModules, InUnload, InStart
<1> HIDE DEF m, open
<1>8. /\ Half(ToSet(modules[i]), started[i], begun[i], ended'[i], {})
      /\ m \in ToSet(begun[i]) /\ m \in ToSet(modules[i])
  <2>1. /\ Half(ToSet(modules[i]), Front(open), begun[i], Append(ended[i], Last(open)), {})
        /\ Last(open) \in ToSet(begun[i]) /\ Last(open) \in ToSet(modules[i])
    BY <1>2, <1>6, <1>7, HalfStops
  <2> QED
    BY <1>5, <1>6, <2>1
<1>9. Half(ToSet(plugins[i]), loaded[i], begun[i], ended'[i], {})
  <2>1. m \notin ToSet(plugins[i]) /\ m \in Strings
    BY <1>4, <1>8, KindsApart DEF m
  <2>2. Half(ToSet(plugins[i]), loaded[i], begun[i], Append(ended[i], m), {})
    BY <1>2, <1>7, <2>1, HalfStays
  <2> QED
    BY <1>5, <2>2
<1>10. Pairs(i)'
  BY <1>3, <1>8, <1>9 DEF Pairs, EndingPlugin, OpenModules, InUnload, InStart, Winding
<1>11. Covered(i)' /\ ToCome(i)'
  BY <1>3, <1>5, <1>7, <1>8 DEF Covered, ToCome, InUnload, InStart, Winding, Everyone, m
<1>12. Skipped(i)' /\ Emptied(i)' /\ Owned(i)'
  BY <1>3, <1>5, <1>7 DEF Skipped, Emptied, Owned
<1>13. \A j \in Instances \ {i} : UNCHANGED Own(j)
  BY <1>2, <1>3, <1>5 DEF StopModules, roll_one, Goto, Own
<1> QED
  BY <1>1, <1>2, <1>3, <1>5, <1>10, <1>11, <1>12, <1>13, OneSteps DEF Paired

\* The loop of stop_builtin_modules().
LEMMA LoopPaired ==
  ASSUME PairInv, NEW i \in Instances, StopModules(i), stop_builtin_modules(i)
  PROVE  PairInv'
<1> DEFINE m == Last(left[i])
<1>1. Inv'
  BY UnloadInv DEF PairInv
<1>2. /\ left[i] \in Seq(Strings) /\ started[i] \in Seq(Strings) /\ ended[i] \in Seq(Strings)
      /\ DOMAIN at = Instances /\ Paired(i) /\ DOMAIN raised = Instances
      /\ loaded \in [Instances -> Seq(Strings)] /\ ended \in [Instances -> Seq(Strings)]
      /\ left \in [Instances -> Seq(Strings)] /\ started \in [Instances -> Seq(Strings)]
      /\ tasks \in [Instances -> Tasks]
  BY OfOne
<1>3. /\ UNCHANGED <<loaded, hooks, begun, raised>> /\ at[i] \in {"roll_back", "stop_modules"}
      /\ Winding(i)
  BY DEF StopModules, stop_builtin_modules, Winding
<1>4. /\ Half(ToSet(plugins[i]), loaded[i], begun[i], ended[i], {})
      /\ ~Aborted(i, "in_roll_back") =>
           Half(ToSet(modules[i]), left[i], begun[i], ended[i], {})
      /\ Covered(i) /\ Owned(i) /\ Skipped(i) /\ Emptied(i)
  BY <1>2, <1>3
     DEF Paired, Pairs, EndingPlugin, OpenModules, InUnload, InStart
<1>5. CASE left[i] = << >>
  <2>1. /\ UNCHANGED <<left, owners, tasks, ended>> /\ started'[i] = << >>
        /\ \/ at[i] = "roll_back" /\ at'[i] = "stop_control"
           \/ at[i] = "stop_modules" /\ Aborted(i, "on_unload") /\ at'[i] = "exited"
           \/ at[i] = "stop_modules" /\ ~Aborted(i, "on_unload") /\ at'[i] = "stop_tasks"
    <3>1. CASE at[i] = "roll_back"
      BY <1>2, <1>5, <3>1 DEF stop_builtin_modules, Goto
    <3>2. CASE at[i] = "stop_modules" /\ Aborted(i, "on_unload")
      BY <1>2, <1>5, <3>2 DEF stop_builtin_modules, Goto
    <3>3. CASE at[i] = "stop_modules" /\ ~Aborted(i, "on_unload")
      BY <1>2, <1>5, <3>3 DEF stop_builtin_modules, Goto
    <3> QED
      BY <1>3, <3>1, <3>2, <3>3
  <2>2. Pairs(i)'
    BY <1>3, <1>4, <1>5, <2>1
       DEF Pairs, EndingPlugin, OpenModules, InUnload, InStart, Winding, Aborted
  <2>3. Covered(i)' /\ ToCome(i)'
    BY <1>3, <1>4, <1>5, <2>1, NoName
       DEF Covered, ToCome, InUnload, InStart, Winding, Everyone
  <2>4. Emptied(i)'
    BY <1>3, <1>4, <1>5, <2>1 DEF Emptied, Aborted
  <2>5. Skipped(i)' /\ Owned(i)'
    BY <1>3, <1>4, <2>1 DEF Skipped, Owned, Starting, InStop, Everyone
  <2>6. \A j \in Instances \ {i} : UNCHANGED Own(j)
    BY <1>2, <1>3, <1>5, <2>1 DEF stop_builtin_modules, Goto, Own
  <2> QED
    BY <1>1, <1>2, <1>3, <2>1, <2>2, <2>3, <2>4, <2>5, <2>6, OneSteps DEF Paired
<1>6. CASE left[i] # << >>
  <2>1. /\ started' = started /\ left'[i] = Front(left[i]) /\ _stop_builtin_module(i, m)
        /\ \/ at[i] = "roll_back" /\ at'[i] = "in_roll_back"
           \/ at[i] = "stop_modules" /\ at'[i] = "in_stop"
    BY <1>2, <1>6 DEF stop_builtin_modules, Goto
  <2>2. m \in Strings /\ ToSet(left[i]) = ToSet(Front(left[i])) \cup {m}
    BY <1>2, <1>6, ShorterLists
  <2>3. /\ ended'[i] = Append(ended[i], m) /\ ended' \in [Instances -> Seq(Strings)]
        /\ ended'[i] # << >> /\ ToSet(ended'[i]) = ToSet(ended[i]) \cup {m}
        /\ tasks' \in [Instances -> Tasks] /\ owners'[i] \subseteq owners[i]
        /\ \A j \in Instances \ {i} : UNCHANGED <<ended[j], tasks[j], owners[j]>>
    BY <2>1, <2>2, StopCalled
  <2>4. m \in ToSet(begun[i]) /\ m \in ToSet(modules[i])
    BY <1>3, <1>4, <2>2 DEF Covered
  <2>5. Half(ToSet(plugins[i]), loaded[i], begun[i], ended'[i], {})
    <3> HIDE DEF m
    <3>1. m \notin ToSet(plugins[i])
      BY <2>4, KindsApart
    <3>2. Half(ToSet(plugins[i]), loaded[i], begun[i], Append(ended[i], m), {})
      BY <1>2, <1>4, <2>2, <3>1, HalfStays
    <3> QED
      BY <2>3, <3>2
  <2>6. ~Aborted(i, "in_roll_back") =>
          Half(ToSet(modules[i]), Front(left[i]), begun[i], ended'[i], {})
    BY <1>2, <1>4, <1>6, <2>3, HalfStops
  <2>7. Pairs(i)'
    BY <1>3, <2>1, <2>5, <2>6
       DEF Pairs, EndingPlugin, OpenModules, InUnload, InStart, Winding, Aborted
  <2> HIDE DEF m
  <2>8. Covered(i)' /\ ToCome(i)'
    BY <1>3, <1>4, <2>1, <2>2, <2>3, <2>4
       DEF Covered, ToCome, InUnload, InStart, Winding, Everyone
  <2>9. Emptied(i)'
    BY <1>3, <1>4, <2>1 DEF Emptied, Aborted
  <2>10. Skipped(i)' /\ Owned(i)'
    <3>1. at'[i] = "in_roll_back" => raised[i] = {}
      BY <1>4, <2>1 DEF Skipped, Starting
    <3> QED
      BY <1>3, <1>4, <2>1, <2>3, <3>1 DEF Skipped, Owned, Starting, InStop, Everyone
  <2>11. \A j \in Instances \ {i} : UNCHANGED Own(j)
    BY <1>2, <1>3, <1>6, <2>1, <2>3 DEF stop_builtin_modules, Goto, Own
  <2> QED
    BY <1>1, <1>2, <1>3, <2>3, <2>7, <2>8, <2>9, <2>10, <2>11, OneSteps DEF Paired
<1> QED
  BY <1>5, <1>6

\* stop() is over, or a CancelledError comes out of it.
LEMMA StoppedPaired ==
  ASSUME PairInv, NEW i \in Instances, Stopped(i), StopReturns(i) \/ StopTimesOut(i)
  PROVE  PairInv'
<1>1. Inv'
  BY UnloadInv DEF PairInv
<1>2. /\ DOMAIN at = Instances /\ Paired(i) /\ DOMAIN raised = Instances
      /\ loaded \in [Instances -> Seq(Strings)] /\ ended \in [Instances -> Seq(Strings)]
      /\ left \in [Instances -> Seq(Strings)] /\ tasks \in [Instances -> Tasks]
  BY OfOne
<1>3. /\ UNCHANGED <<loaded, hooks, begun, raised, started, tasks, owners, ended>>
      /\ \/ at[i] = "in_stop_one" /\ at'[i] = "roll_back" /\ left'[i] = started[i]
         \/ at[i] = "in_roll_back" /\ at'[i] = "roll_back" /\ left' = left
         \/ at[i] = "in_stop" /\ at'[i] = "stop_modules" /\ left' = left
  BY <1>2 DEF Stopped, InStop, Goto
<1>4. Pairs(i)'
  BY <1>2, <1>3
     DEF Paired, Pairs, EndingPlugin, OpenModules, InUnload, InStart, Winding, Aborted
<1>5. Covered(i)' /\ ToCome(i)'
  BY <1>2, <1>3 DEF Paired, Covered, ToCome, InUnload, InStart, Winding, Everyone
<1>6. Skipped(i)' /\ Emptied(i)' /\ Owned(i)'
  BY <1>2, <1>3 DEF Paired, Skipped, Emptied, Owned, Aborted, Starting, InStop, Everyone
<1>7. \A j \in Instances \ {i} : UNCHANGED Own(j)
  BY <1>2, <1>3 DEF Stopped, Goto, Own
<1> QED
  BY <1>1, <1>2, <1>3, <1>4, <1>5, <1>6, <1>7, OneSteps DEF Paired

LEMMA RaisedPaired ==
  ASSUME PairInv, NEW i \in Instances, StopRaises(i)
  PROVE  PairInv'
<1> DEFINE m == Last(ended[i])
<1>1. Inv'
  BY UnloadInv DEF PairInv
<1>2. /\ DOMAIN at = Instances /\ Paired(i) /\ DOMAIN raised = Instances
      /\ loaded \in [Instances -> Seq(Strings)] /\ ended \in [Instances -> Seq(Strings)]
      /\ ended[i] \in Seq(Strings) /\ tasks \in [Instances -> Tasks]
  BY OfOne
<1>3. /\ UNCHANGED <<left, loaded, hooks, begun, started, tasks, owners, ended>>
      /\ Raise(i, m) /\ \A j \in Instances \ {i} : at'[j] = at[j]
      /\ \/ at[i] \in {"in_stop_one", "in_roll_back"} /\ at'[i] = "stop_control"
         \/ at[i] = "in_stop" /\ at'[i] = "exited"
  BY <1>2 DEF StopRaises, InStop, Goto
<1>4. /\ raised'[i] = raised[i] \cup {<<at[i], m>>} /\ DOMAIN raised' = Instances
      /\ \A j \in Instances \ {i} : raised'[j] = raised[j]
  BY <1>2, <1>3, Remembered
<1>5. m \in Everyone(i) /\ m \in Names
  <2>1. ended[i] # << >>
    BY <1>2, <1>3 DEF Paired, Skipped, InStop
  <2>2. m \in ToSet(ended[i])
    BY <1>2, <2>1, ShorterLists
  <2> QED
    BY <1>2, <2>2 DEF Paired, Covered, Names
<1> HIDE DEF m
<1>6. \A call : /\ ~Aborted(i, call)' => ~Aborted(i, call)
                /\ call = at[i] => Aborted(i, call)'
  BY <1>4, <1>5 DEF Aborted
<1>7. Pairs(i)'
  <2>1. EndingPlugin(i)' = EndingPlugin(i)
    BY <1>3 DEF EndingPlugin, InUnload
  <2>2. at[i] # "in_roll_back" => OpenModules(i)' = OpenModules(i)
    BY <1>3 DEF OpenModules, InStart, Winding
  <2>3. CASE at[i] = "in_roll_back"
    BY <1>2, <1>3, <1>6, <2>1, <2>3 DEF Paired, Pairs
  <2>4. CASE at[i] # "in_roll_back"
    BY <1>2, <1>3, <1>6, <2>1, <2>2, <2>4 DEF Paired, Pairs
  <2> QED
    BY <2>3, <2>4
<1>8. Covered(i)' /\ ToCome(i)'
  BY <1>2, <1>3, <1>4 DEF Paired, Covered, ToCome, InUnload, InStart, Winding, Everyone
<1>9. Emptied(i)'
  BY <1>2, <1>3, <1>6 DEF Paired, Emptied
<1>10. Skipped(i)' /\ Owned(i)'
  BY <1>2, <1>3, <1>4, <1>5 DEF Paired, Skipped, Owned, Starting, InStop, Everyone, Calls
<1>11. \A j \in Instances \ {i} : UNCHANGED Own(j)
  BY <1>3, <1>4 DEF Own
<1> QED
  BY <1>1, <1>2, <1>3, <1>4, <1>7, <1>8, <1>9, <1>10, <1>11, OneSteps DEF Paired

\* Nothing has begun.
LEMMA StartPaired ==
  ASSUME PairInv, NEW i \in Instances, Start(i)
  PROVE  PairInv'
<1>1. Inv'
  BY StartInv DEF PairInv
<1>2. Sound(i) /\ Paired(i) /\ DOMAIN at = Instances /\ left \in [Instances -> Seq(Strings)]
  BY OfOne
<1>3. /\ UNCHANGED <<loaded, started, ended, begun, hooks, owners, raised, tasks>>
      /\ at[i] = "down"
      /\ at'[i] = "stop_control" \/ (at'[i] = "loading" /\ left'[i] = plugins[i])
  BY <1>2 DEF Start, Goto
<1>4. begun[i] = << >> /\ started[i] = << >> /\ raised[i] = {}
  BY <1>2, <1>3 DEF Sound, Empty, Paired, Emptied, Skipped
<1>5. Pairs(i)'
  BY <1>2, <1>3
     DEF Paired, Pairs, EndingPlugin, OpenModules, InUnload, InStart, Winding, Aborted
<1>6. Covered(i)' /\ Skipped(i)'
  BY <1>2, <1>3, <1>4 DEF Paired, Covered, Skipped, InStart, Winding, Everyone, InStop
<1>7. Emptied(i)' /\ Owned(i)'
  BY <1>2, <1>3 DEF Paired, Emptied, Owned
<1>8. ToCome(i)'
  BY <1>3, <1>4, NoName, KindsApart DEF ToCome, InStart, InUnload
<1>9. \A j \in Instances \ {i} : UNCHANGED Own(j)
  BY <1>2, <1>3 DEF Start, Goto, Own
<1> QED
  BY <1>1, <1>3, <1>5, <1>6, <1>7, <1>8, <1>9, OfOne, OneSteps DEF Paired

LEMMA GonePaired ==
  ASSUME PairInv, NEW i \in Instances, Gone(i)
  PROVE  PairInv'
<1>1. Inv'
  BY GoneInv DEF PairInv
<1>2. /\ DOMAIN at = Instances /\ DOMAIN hooks = Instances /\ DOMAIN owners = Instances
      /\ DOMAIN raised = Instances /\ loaded \in [Instances -> Seq(Strings)]
      /\ left \in [Instances -> Seq(Strings)]
      /\ begun \in [Instances -> Seq(Strings)] /\ started \in [Instances -> Seq(Strings)]
      /\ ended \in [Instances -> Seq(Strings)] /\ tasks \in [Instances -> Tasks]
  BY OfOne
<1>3. /\ at'[i] = "down" /\ loaded'[i] = << >> /\ started'[i] = << >> /\ begun'[i] = << >>
      /\ ended'[i] = << >> /\ hooks'[i] = {} /\ owners'[i] = {} /\ raised'[i] = {}
  BY <1>2 DEF Gone, Goto
<1>4. /\ loaded' \in [Instances -> Seq(Strings)] /\ ended' \in [Instances -> Seq(Strings)]
      /\ DOMAIN raised' = Instances
  BY <1>2, NoName DEF Gone
<1>5. tasks' \in [Instances -> Tasks]
  BY <1>2 DEF Gone, Tasks
<1>6. Pairs(i)'
  BY <1>3, HalfEmpty DEF Pairs, EndingPlugin, OpenModules, InUnload, InStart, Winding
<1>7. Covered(i)' /\ ToCome(i)' /\ Skipped(i)' /\ Emptied(i)' /\ Owned(i)'
  BY <1>3, NoName
     DEF Covered, ToCome, Skipped, Emptied, Owned, InUnload, InStart, Winding, InStop
<1>8. \A j \in Instances \ {i} : UNCHANGED Own(j)
  BY <1>2 DEF Gone, Goto, Own
<1> QED
  BY <1>1, <1>4, <1>5, <1>6, <1>7, <1>8, OneSteps DEF Paired

\* The steps that neither begin nor end anything: the pairs stay, and only
\* what was shut down is empty.
LEMMA ServingPaired ==
  ASSUME PairInv, NEW i \in Instances,
         \/ FeedsStart(i) \/ Probe(i) \/ UnlinkStale(i) \/ Bind(i) \/ WebStart(i)
         \/ RunEnds(i) \/ ControlCloses(i) \/ ControlDrained(i) \/ ControlUnlinks(i)
         \/ FeedsStop(i) \/ TasksShutdown(i)
  PROVE  PairInv'
<1>1. Inv'
  BY ServingInv DEF PairInv
<1>2. Paired(i) /\ DOMAIN at = Instances /\ tasks \in [Instances -> Tasks]
  BY OfOne
<1>3. UNCHANGED <<left, loaded, started, owners, hooks, begun, ended, raised>>
  BY DEF FeedsStart, Probe, UnlinkStale, Bind, WebStart, RunEnds, ControlCloses,
         ControlDrained, ControlUnlinks, FeedsStop, TasksShutdown
<1>4. \/ /\ at[i] \in {"feeds", "control", "unlink_stale", "bind", "web", "running",
                       "stop_control", "drain", "unlink", "stop_feeds"}
         /\ at'[i] \in {"control", "web", "unlink_stale", "bind", "stop_control", "running",
                        "drain", "unlink", "stop_feeds", "unload", "cut_off"}
         /\ at'[i] \in Starting \cup {"running"} => at[i] \in Starting \cup {"running"}
         /\ tasks' = tasks
      \/ at[i] = "stop_tasks" /\ TasksShutdown(i)
  BY <1>2 DEF FeedsStart, Probe, Probed, UnlinkStale, Bind, WebStart, RunEnds, ControlCloses,
         ControlDrained, ControlUnlinks, FeedsStop, TasksShutdown, Goto, Starting
<1>5. ASSUME TasksShutdown(i)
      PROVE  /\ tasks' \in [Instances -> Tasks] /\ \A j \in Instances \ {i} : tasks'[j] = tasks[j]
             /\ \/ at'[i] = "exited" /\ \A n \in Names : tasks'[i][n] = "none"
                \/ at'[i] = at[i]
  <2>1. CASE \A n \in Names : tasks[i][n] = "none"
    BY <1>2, <1>5, <2>1 DEF TasksShutdown, Goto
  <2>2. CASE \E n \in Names : tasks[i][n] # "none"
    <3>1. PICK n \in Names : tasks' = [tasks EXCEPT ![i] = [tasks[i] EXCEPT ![n] = "none"]]
      BY <1>5, <2>2 DEF TasksShutdown
    <3>2. [tasks[i] EXCEPT ![n] = "none"] \in Tasks
      BY <1>2 DEF Tasks
    <3>3. tasks' \in [Instances -> Tasks] /\ \A j \in Instances \ {i} : tasks'[j] = tasks[j]
      BY <1>2, <3>1, <3>2
    <3>4. at' = at
      BY <1>5, <2>2 DEF TasksShutdown
    <3> QED
      BY <3>3, <3>4
  <2> QED
    BY <2>1, <2>2
<1>6. tasks' \in [Instances -> Tasks]
  BY <1>2, <1>4, <1>5
<1>7. ASSUME at[i] # "stop_tasks" PROVE Paired(i)'
  <2>1. Pairs(i)'
    BY <1>2, <1>3, <1>4, <1>7
       DEF Paired, Pairs, EndingPlugin, OpenModules, InUnload, InStart, Winding, Aborted
  <2>2. Covered(i)' /\ ToCome(i)'
    BY <1>2, <1>3, <1>4, <1>7
       DEF Paired, Covered, ToCome, InUnload, InStart, Winding, Everyone
  <2>3. Skipped(i)' /\ Emptied(i)' /\ Owned(i)'
    BY <1>2, <1>3, <1>4, <1>7 DEF Paired, Skipped, Emptied, Owned, InStop, Everyone
  <2> QED
    BY <2>1, <2>2, <2>3 DEF Paired
<1>8. ASSUME at[i] = "stop_tasks" PROVE Paired(i)'
  <2>1. at'[i] \in {"stop_tasks", "exited"}
        /\ (at'[i] = "exited" => \A n \in Names : tasks'[i][n] = "none")
    BY <1>4, <1>5, <1>8
  <2>2. Pairs(i)'
    BY <1>2, <1>3, <1>8, <2>1
       DEF Paired, Pairs, EndingPlugin, OpenModules, InUnload, InStart, Winding, Aborted
  <2>3. Covered(i)' /\ ToCome(i)'
    BY <1>2, <1>3, <1>8, <2>1
       DEF Paired, Covered, ToCome, InUnload, InStart, Winding, Everyone
  <2>4. Emptied(i)'
    BY <1>2, <1>3, <1>8, <2>1 DEF Paired, Emptied, Aborted
  <2>5. Skipped(i)' /\ Owned(i)'
    BY <1>2, <1>3, <1>8, <2>1 DEF Paired, Skipped, Owned, InStop, Starting, Everyone
  <2> QED
    BY <2>2, <2>3, <2>4, <2>5 DEF Paired
<1>9. \A j \in Instances \ {i} : UNCHANGED Own(j)
  <2>1. \A j \in Instances \ {i} : at'[j] = at[j]
    BY <1>2 DEF FeedsStart, Probe, UnlinkStale, Bind, WebStart, RunEnds, ControlCloses,
           ControlDrained, ControlUnlinks, FeedsStop, TasksShutdown, Goto
  <2> QED
    BY <1>3, <1>4, <1>5, <2>1 DEF Own
<1> QED
  BY <1>1, <1>3, <1>6, <1>7, <1>8, <1>9, OfOne, OneSteps

\* A call of a command or hook, and a task or the poll task that ends.
LEMMA CallsPaired ==
  ASSUME PairInv, NEW i \in Instances,
         \/ ClientConnects(i) \/ ClientCommand(i) \/ ClientAnswered(i) \/ ClientLeaves(i)
         \/ IRCEvent(i) \/ PollDies(i) \/ TaskEnds(i)
  PROVE  PairInv'
<1>1. Inv'
  BY CallsInv DEF PairInv
<1>2. UNCHANGED <<at, left, loaded, started, owners, hooks, begun, ended, raised>>
  BY DEF ClientConnects, ClientCommand, ClientAnswered, ClientLeaves, IRCEvent, PollDies, TaskEnds
<1>3. Paired(i) /\ tasks \in [Instances -> Tasks]
  BY OfOne
<1>4. /\ tasks' \in [Instances -> Tasks] /\ \A j \in Instances \ {i} : tasks'[j] = tasks[j]
      /\ \A n \in Names : tasks[i][n] = "none" => tasks'[i][n] = "none"
  <2>1. CASE tasks' = tasks
    BY <1>3, <2>1
  <2>2. CASE \E n \in Names : tasks' = [tasks EXCEPT ![i] = [tasks[i] EXCEPT ![n] = "none"]]
    <3>1. PICK n \in Names : tasks' = [tasks EXCEPT ![i] = [tasks[i] EXCEPT ![n] = "none"]]
      BY <2>2
    <3>2. /\ [tasks[i] EXCEPT ![n] = "none"] \in Tasks
          /\ \A m \in Names : tasks[i][m] = "none" => [tasks[i] EXCEPT ![n] = "none"][m] = "none"
      BY <1>3 DEF Tasks
    <3> QED
      BY <1>3, <3>1, <3>2
  <2> QED
    BY <2>1, <2>2 DEF ClientConnects, ClientCommand, ClientAnswered, ClientLeaves, IRCEvent,
                      PollDies, TaskEnds
<1>5. Pairs(i)' /\ ToCome(i)'
  BY <1>2, <1>3
     DEF Paired, Pairs, ToCome, EndingPlugin, OpenModules, InUnload, InStart, Winding, Aborted
<1>6. Covered(i)' /\ Skipped(i)' /\ Owned(i)'
  BY <1>2, <1>3 DEF Paired, Covered, Skipped, Owned, InStart, Winding, Everyone
<1>7. Emptied(i)'
  BY <1>2, <1>3, <1>4 DEF Paired, Emptied, Aborted
<1>8. \A j \in Instances \ {i} : UNCHANGED Own(j)
  BY <1>2, <1>4 DEF Own
<1> QED
  BY <1>1, <1>2, <1>4, <1>5, <1>6, <1>7, <1>8, OfOne, OneSteps DEF Paired

LEMMA StepPaired == PairInv /\ [Next]_vars => PairInv'
<1> SUFFICES ASSUME PairInv, [Next]_vars PROVE PairInv'
  OBVIOUS
<1>1. CASE UNCHANGED vars
  <2>1. Inv'
    BY <1>1, StepInv DEF PairInv
  <2>2. \A j \in Instances : Paired(j)'
    BY <1>1, OthersStayPaired DEF vars, PairInv, Own
  <2> QED
    BY <1>1, <2>1, <2>2 DEF vars, PairInv
<1>2. ASSUME NEW i \in Instances, async_main(i) PROVE PairInv'
  <2>1. CASE StopModules(i)
    BY <2>1, RollOnePaired, LoopPaired DEF StopModules
  <2>2. CASE StopTimesOut(i)
    BY <2>2, StoppedPaired DEF StopTimesOut
  <2> QED
    BY <1>2, <2>1, <2>2, LoadPaired, LoadedPaired, UnloadPaired, StartModulePaired, ServingPaired
       DEF async_main
<1>3. ASSUME NEW i \in Instances, Environment(i) PROVE PairInv'
  <2>1. CASE StopReturns(i)
    BY <2>1, StoppedPaired DEF StopReturns
  <2> QED
    BY <1>3, <2>1, RaisedPaired, StartPaired, ServingPaired, CallsPaired, GonePaired
       DEF Environment
<1> QED
  BY <1>1, <1>2, <1>3 DEF Next

LEMMA PairsImply == PairInv => PairedAtExit
<1> SUFFICES ASSUME PairInv, NEW i \in Instances, at[i] = "exited"
             PROVE  /\ LastFirst(ended[i], begun[i], ToSet(plugins[i]))
                    /\ ToSet(ended[i]) \subseteq ToSet(begun[i])
                    /\ ~Aborted(i, "on_unload") =>
                         /\ loaded[i] = << >> /\ hooks[i] = {}
                         /\ ToSet(begun[i]) \cap ToSet(plugins[i]) \subseteq ToSet(ended[i])
                    /\ \A o \in owners[i] \ ToSet(modules[i]) :
                         o \in ToSet(loaded[i]) \/ <<"on_load", o>> \in raised[i]
                    /\ ~Aborted(i, "in_roll_back") =>
                         LastFirst(ended[i], begun[i], ToSet(modules[i]))
                    /\ ~Aborted(i, "in_stop") =>
                         \A m \in ToSet(begun[i]) \cap ToSet(modules[i]) :
                           m \in ToSet(ended[i]) \/ <<"in_start", m>> \in raised[i]
                    /\ ~Aborted(i, "on_unload") /\ ~Aborted(i, "in_stop") =>
                         \A n \in Names : tasks[i][n] = "none"
  BY DEF PairedAtExit
<1>1. Pairs(i) /\ Covered(i) /\ Emptied(i) /\ Owned(i) /\ Winding(i) /\ ~InStart(i)
  BY DEF PairInv, Paired, Winding, InStart
<1>2. /\ LastFirst(ended[i], begun[i], ToSet(plugins[i]))
      /\ ~Aborted(i, "in_roll_back") => LastFirst(ended[i], begun[i], ToSet(modules[i]))
  BY <1>1 DEF Pairs, Half
<1>3. /\ ToSet(ended[i]) \subseteq ToSet(begun[i])
      /\ ~Aborted(i, "on_unload") =>
           /\ loaded[i] = << >> /\ hooks[i] = {}
           /\ ToSet(begun[i]) \cap ToSet(plugins[i]) \subseteq ToSet(ended[i])
  BY <1>1, NoName DEF Covered, Emptied, Owned
<1>4. \A o \in owners[i] \ ToSet(modules[i]) :
        o \in ToSet(loaded[i]) \/ <<"on_load", o>> \in raised[i]
  BY <1>1 DEF Owned
<1>5. ~Aborted(i, "in_stop") =>
        \A m \in ToSet(begun[i]) \cap ToSet(modules[i]) :
          m \in ToSet(ended[i]) \/ <<"in_start", m>> \in raised[i]
  <2>1. ~Aborted(i, "in_stop") => ToSet(started[i]) \subseteq ToSet(ended[i])
    BY <1>1, NoName DEF Covered, Emptied
  <2> QED
    BY <1>1, <2>1 DEF Covered
<1>6. ~Aborted(i, "on_unload") /\ ~Aborted(i, "in_stop") => \A n \in Names : tasks[i][n] = "none"
  BY <1>1 DEF Emptied
<1> QED
  BY <1>2, <1>3, <1>4, <1>5, <1>6

\* An async_main() that returns has ended everything that it began, and nothing
\* else, once, the last begun of its kind first, and leaves no hook, no plugin's
\* command and no task, however far the start came and whatever failed or was
\* refused on the way; and where a CancelledError came past an `except
\* Exception', only what that await skips is missing (async_main(), unload_all(),
\* start_builtin_modules(), stop_builtin_modules(), TaskSupervisor.shutdown()).
THEOREM WhatBeganHasEnded == Spec => []PairedAtExit
<1>1. Init => PairInv
  BY InitPaired
<1>2. PairInv /\ [Next]_vars => PairInv'
  BY StepPaired
<1> QED
  BY <1>1, <1>2, PairsImply, PTL DEF Spec

-----------------------------------------------------------------------------
(* The types.  Those of the lists of names are part of PairInv.            *)

Steps == Starting \cup Stopping \cup Ended \cup {"down", "running"}

\* What the steps of an instance do one at a time.
Values ==
  /\ at \in [Instances -> Steps] /\ failed \in [Instances -> BOOLEAN]
  /\ serving \in [Instances -> BOOLEAN] /\ poll \in [Instances -> {"off", "running", "dead"}]
  /\ runs \in [Instances -> 0 .. MaxRuns] /\ deaf \in [Instances -> BOOLEAN]
  /\ path \in Instances \cup {None}

\* Whom an instance may be about to begin, or be calling.
Known(i) ==
  /\ ToSet(left[i]) \subseteq Everyone(i)
  /\ client[i] \in {None, "idle"} \cup Everyone(i) /\ irc[i] \in {None} \cup Everyone(i)

RuntimeTypes == PairInv /\ Values /\ \A i \in Instances : Known(i)

LEMMA OthersStayKnown ==
  ASSUME NEW j, Known(j), UNCHANGED <<left[j], client[j], irc[j]>>
  PROVE  Known(j)'
BY DEF Known

\* Everybody that there is a command or hook of is configured.
LEMMA OwnersKnown ==
  ASSUME PairInv, NEW i \in Instances
  PROVE  /\ ToSet(loaded[i]) \subseteq Everyone(i) /\ ToSet(started[i]) \subseteq Everyone(i)
         /\ ToSet(begun[i]) \subseteq Everyone(i) /\ ToSet(ended[i]) \subseteq Everyone(i)
         /\ owners[i] \subseteq Everyone(i) /\ hooks[i] \subseteq Everyone(i)
         /\ raised[i] \subseteq Calls \X Everyone(i)
<1>1. Paired(i) /\ Sound(i) /\ left[i] \in Seq(Strings)
  BY OfOne
<1>2. /\ ToSet(loaded[i]) \subseteq Everyone(i) /\ ToSet(started[i]) \subseteq Everyone(i)
      /\ ToSet(begun[i]) \subseteq Everyone(i) /\ ToSet(ended[i]) \subseteq Everyone(i)
      /\ raised[i] \subseteq Calls \X Everyone(i)
  BY <1>1 DEF Paired, Pairs, Half, Covered, Skipped, Everyone
<1>3. hooks[i] \subseteq Everyone(i)
  BY <1>1, <1>2 DEF Paired, Owned
<1>4. ASSUME at[i] = "on_load"
      PROVE  Head(left[i]) \in Everyone(i)
  <2>1. left[i] # << >> /\ ToSet(left[i]) \subseteq Everyone(i)
    BY <1>1, <1>4 DEF Sound, Named, Paired, ToCome, Everyone
  <2> QED
    BY <1>1, <2>1, ShorterLists
<1>5. owners[i] \subseteq Everyone(i)
  <2>1. \A o : <<"on_load", o>> \in raised[i] => o \in Everyone(i)
    BY <1>2
  <2> QED
    BY <1>1, <1>2, <1>4, <2>1 DEF Paired, Owned, Everyone
<1> QED
  BY <1>2, <1>3, <1>5

LEMMA TypesInit == Init => RuntimeTypes
<1> SUFFICES ASSUME Init PROVE RuntimeTypes
  OBVIOUS
<1>1. PairInv
  BY InitPaired
<1>2. Values
  BY RuntimeAssumption DEF Init, Values, Steps
<1>3. \A i \in Instances : Known(i)
  BY NoName DEF Init, Known
<1> QED
  BY <1>1, <1>2, <1>3 DEF RuntimeTypes

\* The steps of start and stop that do not touch the socket.
LEMMA TypesLists ==
  ASSUME RuntimeTypes, NEW i \in Instances,
         \/ Load(i) \/ load_all_ends(i) \/ unload_all(i) \/ start_module(i) \/ StopModules(i)
         \/ StopReturns(i) \/ StopTimesOut(i) \/ StopRaises(i) \/ TasksShutdown(i)
  PROVE  Values' /\ \A j \in Instances : Known(j)'
<1>1. /\ UNCHANGED <<client, irc, serving, poll, path, runs>>
      /\ \A j \in Instances \ {i} : left'[j] = left[j]
  <2>1. UNCHANGED <<client, irc, serving, poll, path, runs>>
    BY DEF Load, load, load_all_ends, unload_all, start_module, StopModules, StopReturns,
         StopTimesOut, StopRaises, Stopped, TasksShutdown
  <2>2. left' = left \/ \E list : left' = [left EXCEPT ![i] = list]
    BY DEF Load, load, load_all_ends, unload_all, Unloading, start_module, StopModules, roll_one,
         stop_builtin_modules, StopReturns, StopTimesOut, StopRaises, Stopped, TasksShutdown
  <2> QED
    BY <2>1, <2>2 DEF RuntimeTypes, PairInv, Inv, Types
<1>2. at' \in [Instances -> Steps]
  <2>1. \/ at' = at
        \/ \E step \in Steps : Goto(i, step)
    <3>1. CASE Load(i) \/ load_all_ends(i)
      BY <3>1 DEF Load, load, load_all_ends, Steps, Starting, Stopping
    <3>2. CASE unload_all(i)
      BY <3>2 DEF unload_all, Unloading, Steps, Starting, Stopping
    <3>3. CASE start_module(i)
      BY <3>3 DEF start_module, Steps, Starting, Stopping
    <3>4. CASE StopModules(i)
      BY <3>4 DEF StopModules, roll_one, stop_builtin_modules, Steps, Starting, Stopping, Ended
    <3>5. CASE StopReturns(i) \/ StopTimesOut(i) \/ StopRaises(i) \/ TasksShutdown(i)
      BY <3>5 DEF StopReturns, StopTimesOut, StopRaises, Stopped, TasksShutdown, Steps, Starting,
                  Stopping, Ended
    <3> QED
      BY <3>1, <3>2, <3>3, <3>4, <3>5
  <2> QED
    BY <2>1 DEF Goto, RuntimeTypes, Values
<1>3. failed' \in [Instances -> BOOLEAN] /\ deaf' \in [Instances -> BOOLEAN]
  <2>1. failed' = failed \/ failed' = [failed EXCEPT ![i] = TRUE]
    BY DEF Load, load, load_all_ends, unload_all, start_module, StopModules, StopReturns,
         StopTimesOut, StopRaises, Stopped, TasksShutdown
  <2>2. deaf' = deaf \/ \E suppresses \in BOOLEAN : deaf' = [deaf EXCEPT ![i] = suppresses]
    BY DEF Load, load, load_all_ends, unload_all, start_module, StopModules, roll_one,
         stop_builtin_modules, _stop_builtin_module, StopReturns, StopTimesOut, StopRaises,
         Stopped, TasksShutdown
  <2> QED
    BY <2>1, <2>2 DEF RuntimeTypes, Values
<1>4. ToSet(left'[i]) \subseteq Everyone(i)
  <2>1. /\ left \in [Instances -> Seq(Strings)] /\ ToSet(left[i]) \subseteq Everyone(i)
        /\ at[i] \in {"on_load", "in_start"} => left[i] # << >>
        /\ ToSet(started[i]) \subseteq Everyone(i)
    BY OwnersKnown DEF RuntimeTypes, PairInv, Inv, Types, Known, Sound, Named
  <2>2. \/ left' = left \/ left' = [left EXCEPT ![i] = modules[i]]
        \/ left' = [left EXCEPT ![i] = started[i]]
        \/ left' = [left EXCEPT ![i] = Tail(left[i])] /\ left[i] # << >>
        \/ left' = [left EXCEPT ![i] = Front(left[i])] /\ left[i] # << >>
    BY <2>1 DEF Load, load, load_all_ends, unload_all, Unloading, start_module, StopModules,
         roll_one, stop_builtin_modules, StopReturns, StopTimesOut, StopRaises, Stopped,
         TasksShutdown
  <2>3. left[i] # << >> => /\ ToSet(Tail(left[i])) \subseteq ToSet(left[i])
                           /\ ToSet(Front(left[i])) \subseteq ToSet(left[i])
    BY <2>1, ShorterLists
  <2> QED
    BY <2>1, <2>2, <2>3 DEF Everyone
<1>5. \A j \in Instances : Known(j)'
  BY <1>1, <1>4, OthersStayKnown DEF RuntimeTypes, Known
<1> QED
  BY <1>1, <1>2, <1>3, <1>5 DEF RuntimeTypes, Values

\* Those that do, and those of the feeds and of the web interface.
LEMMA TypesSocket ==
  ASSUME RuntimeTypes, NEW i \in Instances,
         \/ FeedsStart(i) \/ Probe(i) \/ UnlinkStale(i) \/ Bind(i) \/ WebStart(i)
         \/ RunEnds(i) \/ ControlCloses(i) \/ ControlDrained(i) \/ ControlUnlinks(i)
         \/ FeedsStop(i) \/ PollDies(i) \/ TaskEnds(i)
  PROVE  Values' /\ \A j \in Instances : Known(j)'
<1>1. UNCHANGED <<left, client, irc, failed, deaf, runs>>
  BY DEF FeedsStart, Probe, UnlinkStale, Bind, WebStart, RunEnds, ControlCloses, ControlDrained,
         ControlUnlinks, FeedsStop, PollDies, TaskEnds
<1>2. path' \in Instances \cup {None}
  BY DEF FeedsStart, Probe, UnlinkStale, Bind, WebStart, RunEnds, ControlCloses, ControlDrained,
         ControlUnlinks, FeedsStop, PollDies, TaskEnds, RuntimeTypes, Values
<1>3. at' \in [Instances -> Steps]
  <2>1. Probed(i) \in Steps
    BY DEF Probed, Steps, Starting, Stopping
  <2> QED
    BY <2>1 DEF FeedsStart, Probe, UnlinkStale, Bind, WebStart, RunEnds, ControlCloses,
         ControlDrained, ControlUnlinks, FeedsStop, PollDies, TaskEnds, Goto, RuntimeTypes, Values, Steps,
         Starting, Stopping, Ended
<1>4. /\ serving' \in [Instances -> BOOLEAN] /\ poll' \in [Instances -> {"off", "running", "dead"}]
  BY DEF FeedsStart, Probe, UnlinkStale, Bind, WebStart, RunEnds, ControlCloses, ControlDrained,
         ControlUnlinks, FeedsStop, PollDies, TaskEnds, RuntimeTypes, Values
<1>5. \A j \in Instances : Known(j)'
  BY <1>1, OthersStayKnown DEF RuntimeTypes
<1> QED
  BY <1>1, <1>2, <1>3, <1>4, <1>5 DEF RuntimeTypes, Values

LEMMA TypesCalls ==
  ASSUME RuntimeTypes, NEW i \in Instances,
         \/ ClientConnects(i) \/ ClientCommand(i) \/ ClientAnswered(i) \/ ClientLeaves(i)
         \/ IRCEvent(i)
  PROVE  Values' /\ \A j \in Instances : Known(j)'
<1>1. /\ UNCHANGED <<at, left, failed, deaf, serving, poll, path, runs>>
      /\ \A j \in Instances \ {i} : UNCHANGED <<client[j], irc[j]>>
  BY DEF ClientConnects, ClientCommand, ClientAnswered, ClientLeaves, IRCEvent,
         RuntimeTypes, PairInv, Inv, Types
<1>2. Values'
  BY <1>1 DEF RuntimeTypes, Values
<1>3. \A j \in Instances \ {i} : Known(j)'
  BY <1>1, OthersStayKnown DEF RuntimeTypes
<1>4. owners[i] \subseteq Everyone(i) /\ hooks[i] \subseteq Everyone(i)
  BY OwnersKnown DEF RuntimeTypes
<1>5. client'[i] \in {None, "idle"} \cup Everyone(i) /\ irc'[i] \in {None} \cup Everyone(i)
  BY <1>4 DEF ClientConnects, ClientCommand, ClientAnswered, ClientLeaves, IRCEvent,
              RuntimeTypes, PairInv, Inv, Types, Known
<1>6. Known(i)'
  BY <1>1, <1>5 DEF RuntimeTypes, Known
<1> QED
  BY <1>2, <1>3, <1>6

LEMMA TypesLife ==
  ASSUME RuntimeTypes, NEW i \in Instances, Start(i) \/ Gone(i)
  PROVE  Values' /\ \A j \in Instances : Known(j)'
<1>1. /\ path' = path /\ \A j \in Instances \ {i} : UNCHANGED <<left[j], client[j], irc[j]>>
  BY DEF Start, Gone, RuntimeTypes, PairInv, Inv, Types
<1>2. \A j \in Instances \ {i} : Known(j)'
  BY <1>1, OthersStayKnown DEF RuntimeTypes
<1>3. CASE Start(i)
  <2>1. runs' \in [Instances -> 0 .. MaxRuns]
    BY <1>3, RuntimeAssumption DEF Start, RuntimeTypes, Values
  <2>2. at' \in [Instances -> Steps]
    BY <1>3 DEF Start, Goto, RuntimeTypes, Values, Steps, Starting, Stopping
  <2>3. Values'
    BY <1>3, <2>1, <2>2 DEF Start, RuntimeTypes, Values
  <2>4. Known(i)'
    BY <1>3 DEF Start, RuntimeTypes, PairInv, Inv, Types, Known, Everyone
  <2> QED
    BY <1>2, <2>3, <2>4
<1>4. CASE Gone(i)
  <2>1. Values'
    BY <1>4 DEF Gone, Goto, RuntimeTypes, Values, Steps
  <2>2. Known(i)'
    BY <1>4, NoName DEF Gone, RuntimeTypes, PairInv, Inv, Types, Known
  <2> QED
    BY <1>2, <2>1, <2>2
<1> QED
  BY <1>3, <1>4

LEMMA TypesNext == RuntimeTypes /\ [Next]_vars => RuntimeTypes'
<1> SUFFICES ASSUME RuntimeTypes, [Next]_vars PROVE RuntimeTypes'
  OBVIOUS
<1>1. PairInv'
  BY StepPaired DEF RuntimeTypes
<1>2. ASSUME UNCHANGED vars
      PROVE  Values' /\ \A j \in Instances : Known(j)'
  BY <1>2, OthersStayKnown DEF vars, RuntimeTypes, Values
<1>3. ASSUME NEW i \in Instances, async_main(i)
      PROVE  Values' /\ \A j \in Instances : Known(j)'
  BY <1>3, TypesLists, TypesSocket DEF async_main
<1>4. ASSUME NEW i \in Instances, Environment(i)
      PROVE  Values' /\ \A j \in Instances : Known(j)'
  BY <1>4, TypesLists, TypesSocket, TypesCalls, TypesLife DEF Environment
<1> QED
  BY <1>1, <1>2, <1>3, <1>4 DEF Next, RuntimeTypes

\* For any number of instances with any plugins and modules the state keeps its
\* types: in particular commands, hooks and the names in the lists are those of
\* plugins and modules that are configured.
THEOREM RuntimeTypesCorrect == Spec => []TypeOK
<1>1. RuntimeTypes => TypeOK
  <2> SUFFICES ASSUME RuntimeTypes PROVE TypeOK
    OBVIOUS
  <2>1. Values /\ tasks \in [Instances -> [Names -> {"none", "running", "stubborn"}]]
    BY DEF RuntimeTypes, PairInv, Tasks
  <2>2. ASSUME NEW i \in Instances
        PROVE  /\ \A s \in {left[i], loaded[i], started[i], begun[i], ended[i]} :
                    ToSet(s) \subseteq Everyone(i)
               /\ owners[i] \subseteq Everyone(i) /\ hooks[i] \subseteq Everyone(i)
               /\ client[i] \in {None, "idle"} \cup Everyone(i)
               /\ irc[i] \in {None} \cup Everyone(i)
               /\ raised[i] \subseteq Calls \X Everyone(i)
    BY OwnersKnown DEF RuntimeTypes, Known
  <2> QED
    BY <2>1, <2>2 DEF TypeOK, Values, Steps
<1> QED
  BY TypesInit, TypesNext, <1>1, PTL DEF Spec
=============================================================================
