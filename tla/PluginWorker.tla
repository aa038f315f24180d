------------------------------ MODULE PluginWorker ------------------------------
(***************************************************************************)
(* core/plugin_worker.py and its child: one request at a time goes through *)
(* the pipes of a subprocess, and whatever goes wrong with a request ends  *)
(* the subprocess for good.                                                *)
(*                                                                         *)
(* A caller is a task in dispatch(): the event loop with a hook or a       *)
(* command, or a client of the control socket.  The loader is the caller   *)
(* of start().  A payload is the serial number of its request.             *)
(***************************************************************************)
EXTENDS Integers, Sequences, SequencesExt

CONSTANTS
  Dispatchers,  \* tasks that may call dispatch()
  Loader,       \* the task that loads and unloads
  NoCaller,     \* nobody holds the lock
  MaxRequests   \* bound: requests that are written

ASSUME WorkerAssumption ==
  /\ Loader \notin Dispatchers /\ NoCaller \notin Dispatchers \cup {Loader}
  /\ MaxRequests \in Nat

VARIABLES
  process,    \* self.process: is there one?
  child,      \* the subprocess: absent, up, or gone
  job,        \* the request that it is handling, or 0
  requests,   \* its stdin
  responses,  \* its stdout: lines [id, ok]
  lock,       \* who holds self.lock
  call,       \* of each caller: idle, reading, or reaping (process.wait())
  asked,      \* the request that it wrote last
  answered,   \* the request that the replies it was given belong to, or 0
  serial,     \* requests so far
  loader      \* no, starting, loaded, unloading, unloaded

Callers == Dispatchers \cup {Loader}
subprocess == <<child, job, requests, responses>>
calls == <<lock, call, asked, answered>>
workerVars == <<process, subprocess, calls, serial, loader>>

WorkerTypeOK ==
  /\ process \in BOOLEAN /\ child \in {"absent", "up", "gone"}
  /\ job \in 0 .. MaxRequests /\ serial \in 0 .. MaxRequests
  /\ requests \in Seq(1 .. MaxRequests)
  /\ responses \in Seq([id : 1 .. MaxRequests, ok : BOOLEAN])
  /\ lock \in Callers \cup {NoCaller}
  /\ call \in [Callers -> {"idle", "reading", "reaping"}]
  /\ \A c \in Callers : call[c] # "idle" <=> lock = c
  /\ asked \in [Callers -> 0 .. MaxRequests] /\ answered \in [Callers -> 0 .. MaxRequests]
  /\ loader \in {"no", "starting", "loaded", "unloading", "unloaded"}

WorkerInit ==
  /\ process = FALSE /\ child = "absent" /\ job = 0
  /\ requests = <<>> /\ responses = <<>>
  /\ lock = NoCaller /\ call = [c \in Callers |-> "idle"]
  /\ asked = [c \in Callers |-> 0] /\ answered = [c \in Callers |-> 0]
  /\ serial = 0 /\ loader = "no"

-----------------------------------------------------------------------------
(* The parent.                                                             *)

\* Mutant of on_unload: the handle is dropped and the child is left alone.
on_unload_without_kill ==
  /\ process' = FALSE
  /\ UNCHANGED subprocess

\* Takes the handle and kills the group in one step; its pipes go with it.
on_unload ==
  /\ process' = FALSE
  /\ IF process
     THEN child' = "gone" /\ job' = 0 /\ requests' = <<>> /\ responses' = <<>>
     ELSE UNCHANGED subprocess

\* Mutant of Fail: the request is given up, the worker is kept.
Fail_keeping_worker(c) ==
  /\ call' = [call EXCEPT ![c] = "idle"] /\ lock' = NoCaller
  /\ UNCHANGED <<process, subprocess>>

\* `except BaseException': with a process to wait for, the lock is held on.
Fail(c) ==
  /\ on_unload
  /\ IF process
     THEN call' = [call EXCEPT ![c] = "reaping"] /\ lock' = c
     ELSE call' = [call EXCEPT ![c] = "idle"] /\ lock' = NoCaller

Write(c) ==
  /\ serial < MaxRequests
  /\ serial' = serial + 1
  /\ requests' = Append(requests, serial')
  /\ asked' = [asked EXCEPT ![c] = serial'] /\ answered' = [answered EXCEPT ![c] = 0]
  /\ call' = [call EXCEPT ![c] = "reading"] /\ lock' = c

\* Mutant of Busy: the question is asked inside the try.
Busy_inside_try ==
  /\ lock # NoCaller
  /\ on_unload
  /\ UNCHANGED <<serial, calls>>

\* request() while another is in flight: it raises and touches nothing.
Busy ==
  /\ lock # NoCaller
  /\ UNCHANGED <<process, subprocess, serial, calls>>

\* The process is gone or was never there, or the payload is too large.
Refuse(c, oversized) ==
  /\ lock = NoCaller
  /\ oversized \/ ~process \/ child = "gone"
  /\ Fail(c)
  /\ UNCHANGED <<serial, asked, answered>>

\* dispatch(), for a command or a hook.
request(c) ==
  /\ call[c] = "idle"
  /\ \/ Busy
     \/ \E oversized \in BOOLEAN : Refuse(c, oversized)
     \/ /\ lock = NoCaller /\ process
        /\ Write(c)
        /\ UNCHANGED <<process, child, job, responses>>
  /\ UNCHANGED loader

\* start(), whose two awaits are one step: until it has returned nobody else
\* calls, so that nothing can come between the spawn and the load request.
start ==
  /\ loader = "no"
  /\ process' = TRUE /\ child' = "up"
  /\ Write(Loader)
  /\ loader' = "starting"
  /\ UNCHANGED <<job, responses>>

\* A line arrives: replies, or `ok' is not true, or they are not acceptable.
Read(c) ==
  /\ call[c] = "reading" /\ process /\ responses # <<>>
  /\ \/ /\ Head(responses).ok
        /\ answered' = [answered EXCEPT ![c] = Head(responses).id]
        /\ responses' = Tail(responses)
        /\ call' = [call EXCEPT ![c] = "idle"] /\ lock' = NoCaller
        /\ UNCHANGED <<process, child, job, requests>>
     \/ /\ Fail(c)
        /\ UNCHANGED answered
  /\ UNCHANGED <<asked, serial, loader>>

\* The pipe was closed under the reader.
EndOfFile(c) ==
  /\ call[c] = "reading"
  /\ ~process \/ (child = "gone" /\ responses = <<>>)
  /\ Fail(c)
  /\ UNCHANGED <<asked, answered, serial, loader>>

\* Mutant of TimeOut: no asyncio.timeout().
TimeOut_never(c) == FALSE /\ UNCHANGED workerVars

TimeOut(c) ==
  /\ call[c] = "reading"
  /\ Fail(c)
  /\ UNCHANGED <<asked, answered, serial, loader>>

\* The task is cancelled: the event loop at the end of a connection.
Cancel(c) ==
  /\ \/ /\ call[c] = "reading"
        /\ Fail(c)
     \/ /\ call[c] = "reaping"
        /\ call' = [call EXCEPT ![c] = "idle"] /\ lock' = NoCaller
        /\ UNCHANGED <<process, subprocess>>
  /\ UNCHANGED <<asked, answered, serial, loader>>

\* process.wait() has returned.
Reaped(c) ==
  /\ call[c] = "reaping"
  /\ call' = [call EXCEPT ![c] = "idle"] /\ lock' = NoCaller
  /\ UNCHANGED <<process, subprocess, asked, answered, serial, loader>>

\* _load_worker() goes on, or undoes itself: on_unload() finds nothing left.
Loaded ==
  /\ loader = "starting" /\ call[Loader] = "idle"
  /\ loader' = IF answered[Loader] # 0 THEN "loaded" ELSE "unloaded"
  /\ UNCHANGED <<process, subprocess, calls, serial>>

\* PluginLoader.unload(): first the worker, later its registrations.
Unload ==
  /\ loader = "loaded"
  /\ on_unload
  /\ loader' = "unloading"
  /\ UNCHANGED <<calls, serial>>

Unloaded ==
  /\ loader = "unloading"
  /\ loader' = "unloaded"
  /\ UNCHANGED <<process, subprocess, calls, serial>>

-----------------------------------------------------------------------------
(* The child.                                                              *)

Take ==
  /\ child = "up" /\ job = 0 /\ requests # <<>>
  /\ job' = Head(requests) /\ requests' = Tail(requests)
  /\ UNCHANGED <<process, child, responses, calls, serial, loader>>

\* handle() returns, or raises: then the child answers so and exits.
Respond(ok) ==
  /\ child = "up" /\ job # 0
  /\ responses' = Append(responses, [id |-> job, ok |-> ok])
  /\ job' = 0 /\ child' = IF ok THEN "up" ELSE "gone"
  /\ UNCHANGED <<process, requests, calls, serial, loader>>

\* It crashes, or exits over a response that is too large.
Die ==
  /\ child = "up"
  /\ child' = "gone" /\ job' = 0
  /\ UNCHANGED <<process, requests, responses, calls, serial, loader>>

Worker ==
  \/ start \/ Loaded \/ Unload \/ Unloaded
  \/ \E c \in Callers : Read(c) \/ EndOfFile(c) \/ TimeOut(c) \/ Cancel(c) \/ Reaped(c)
  \/ Take \/ (\E ok \in BOOLEAN : Respond(ok)) \/ Die

-----------------------------------------------------------------------------
\* Replies are those to the request that the caller wrote: an answer that comes
\* after the timeout of its request reaches nobody (request()).
AnswersMatch == \A c \in Callers : answered[c] \in {0, asked[c]}

\* docs/PLUGINS.md:211-212: timeouts, cancellation, malformed replies and an
\* unload terminate the worker.  So the child of this process handles nothing
\* that nobody waits for any more (request(), on_unload()).
WorkIsAwaited ==
  \A n \in {job} \cup ToSet(requests) :
    n # 0 => \E c \in Callers : call[c] = "reading" /\ asked[c] = n

\* While a caller waits for its answer, only its own failure and an unload end
\* the worker: a second caller is turned away and changes nothing (request(),
\* lines 57-58 before the try).
NobodyElseEndsIt ==
  [][\A c \in Callers : call[c] = "reading" /\ process /\ ~process' =>
       call'[c] # "reading" \/ loader' = "unloading"]_workerVars

\* Every request is over at some time, also when the child hangs (request()).
RequestsEnd == \A c \in Callers : call[c] # "idle" ~> call[c] = "idle"
=============================================================================
