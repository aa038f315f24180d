-------------------------- MODULE RateLimitedSender --------------------------
(***************************************************************************)
(* novariusirc/irc/transport.py: the bounded token-bucket queue behind     *)
(* every ordinary line the bot sends.                                      *)
(*                                                                         *)
(* Actors: any number of tasks that await send() (one per member of        *)
(* Lines), the task _run() that drains the queue into the writer, and the  *)
(* client, which starts the sender for a connection and stops it when the  *)
(* connection ends.  All of them run on one asyncio loop: code between two *)
(* awaits is one step here, and `ready' is the loop's FIFO of the wakeups  *)
(* whose order matters, the blocked putters that a get() released and the  *)
(* continuation of stop().                                                 *)
(*                                                                         *)
(* One tick is the time in which 1/Cost of a token comes back, so a rate   *)
(* of r lines per second is a tick of 1/(r * Cost) seconds.                *)
(***************************************************************************)
EXTENDS Integers, SequencesExt

CONSTANTS
  Lines,      \* the send() calls with normal priority, each a task of its own
  None,       \* no line in the hands of _run()
  Stopper,    \* the continuation of stop() in `ready'
  QueueSize,  \* queue_size
  Burst,      \* burst
  Cost,       \* units a line takes from the bucket (ticks per token)
  Horizon,    \* bound: the clock runs freely up to here, then only for a sleep
  MaxConns    \* bound: connections, that is calls of start()

ASSUME SenderAssumption ==
  /\ QueueSize \in Nat \ {0}
  /\ Burst \in Nat \ {0}
  /\ Cost \in Nat \ {0}
  /\ Horizon \in Nat
  /\ MaxConns \in Nat
  /\ None \notin Lines
  /\ Stopper \notin Lines

VARIABLES
  call,       \* where each send() stands, see CallStates
  queue,      \* asyncio.Queue: lines accepted and not yet taken
  putters,    \* put() calls blocked on the full queue, oldest first
  ready,      \* wakeups the loop will run, in order
  task,       \* _run(): where it awaits
  held,       \* the line _run() has taken from the queue
  stopping,   \* stop() has cancelled _run() and awaits it
  tokens,     \* _run()'s tokens, in units
  lastRefill, \* _run()'s last_refill
  now,        \* time.monotonic()
  wire,       \* history: lines that reached the stream
  conns,      \* calls of start() so far
  abandoned,  \* history: lines that a stop() found held or still blocked in put()
  since,      \* observer: when the measuring window was opened
  used        \* observer: lines paid for in the window

callVars == <<call, queue, putters, ready>>
bucket == <<tokens, lastRefill, now, since, used>>
vars == <<call, queue, putters, ready, task, held, stopping, wire, conns, abandoned,
          tokens, lastRefill, now, since, used>>

Capacity == Burst * Cost

\* A result is pending from "putting" to "waiting"; "stale" is a put() still
\* blocked on the queue of a sender that was stopped.
CallStates == {"new", "putting", "stale", "waiting",
               "sent", "failed", "full", "cancelled"}
Resolved == {"sent", "failed", "full", "cancelled"}
TaskStates == {"none", "get", "sleep", "write", "done"}

QueueTypes ==
  /\ queue \in Seq(Lines)
  /\ Len(queue) <= QueueSize
  /\ putters \in Seq(Lines)
  /\ ready \in Seq(Lines \cup {Stopper})

RunTypes ==
  /\ task \in TaskStates
  /\ held \in Lines \cup {None}
  /\ held # None <=> task \in {"sleep", "write"}
  /\ stopping \in BOOLEAN
  /\ conns \in 0 .. MaxConns
  /\ wire \in Seq(Lines)
  /\ abandoned \subseteq Lines

BucketTypes ==
  /\ tokens \in 0 .. Capacity
  /\ now \in Nat
  /\ lastRefill \in 0 .. now
  /\ since \in 0 .. now
  /\ used \in Nat

CallTypes == call \in [Lines -> CallStates]

TypeOK == CallTypes /\ QueueTypes /\ RunTypes /\ BucketTypes

Init ==
  /\ call = [l \in Lines |-> "new"]
  /\ queue = <<>> /\ putters = <<>> /\ ready = <<>>
  /\ task = "none" /\ held = None /\ stopping = FALSE
  /\ tokens = Capacity /\ lastRefill = 0 /\ now = 0
  /\ wire = <<>> /\ conns = 0 /\ abandoned = {}
  /\ since = 0 /\ used = 0

-----------------------------------------------------------------------------
(* asyncio.Queue, as the sender uses it.                                   *)

AtMost(a, b) == IF a <= b THEN a ELSE b

\* n calls of get_nowait() release the oldest n blocked put() calls; they run
\* after what the loop already has in `before', and before `after'.
Release(n, before, after) ==
  LET k == AtMost(n, Len(putters))
  IN /\ ready' = before \o SubSeq(putters, 1, k) \o after
     /\ putters' = SubSeq(putters, k + 1, Len(putters))

\* set_exception() on the results that are still pending.
FailResults(lines) ==
  [l \in Lines |-> IF l \in lines /\ call[l] = "waiting" THEN "failed" ELSE call[l]]

QueuedLines == ToSet(queue)

\* put() calls blocked on the queue of a sender that was stopped since.
BlockedStale == {l \in Lines : call[l] = "stale"} \ ToSet(ready)

-----------------------------------------------------------------------------
(* send(), as far as the queue.                                            *)

is_running == task \in {"get", "sleep", "write"}

\* Mutant of Send: the queue is not bounded.
Send_unbounded(l) ==
  /\ call[l] = "new"
  /\ is_running
  /\ queue' = Append(queue, l)
  /\ call' = [call EXCEPT ![l] = "waiting"]
  /\ UNCHANGED <<putters, ready, task, held, stopping, wire, conns, abandoned, bucket>>

\* put() finds room, or joins the blocked putters.
Send(l) ==
  /\ call[l] = "new"
  /\ is_running
  /\ IF Len(queue) < QueueSize
       THEN /\ queue' = Append(queue, l)
            /\ call' = [call EXCEPT ![l] = "waiting"]
            /\ UNCHANGED putters
       ELSE /\ putters' = Append(putters, l)
            /\ call' = [call EXCEPT ![l] = "putting"]
            /\ UNCHANGED queue
  /\ UNCHANGED <<ready, task, held, stopping, wire, conns, abandoned, bucket>>

\* Without a running task the line goes straight to the writer, which writes,
\* or raises, with the line in the stream or not.
SendDirect(l) ==
  /\ call[l] = "new"
  /\ ~is_running
  /\ \/ /\ \E end \in {"sent", "failed"} : call' = [call EXCEPT ![l] = end]
        /\ wire' = Append(wire, l)
     \/ /\ call' = [call EXCEPT ![l] = "failed"]
        /\ UNCHANGED wire
  /\ UNCHANGED <<queue, putters, ready, task, held, stopping, conns, abandoned, bucket>>

\* A released put() runs again: it takes the free place, or finds that a
\* newer send() took it first and blocks again at the end.
ResumePut ==
  /\ ready # <<>> /\ Head(ready) # Stopper
  /\ LET l == Head(ready)
     IN IF Len(queue) < QueueSize \/ call[l] = "stale"
          THEN /\ queue' = IF call[l] = "stale" THEN queue ELSE Append(queue, l)
               /\ call' = [call EXCEPT ![l] = "waiting"]
               /\ UNCHANGED putters
          ELSE /\ putters' = Append(putters, l)
               /\ UNCHANGED <<queue, call>>
  /\ ready' = Tail(ready)
  /\ UNCHANGED <<task, held, stopping, wire, conns, abandoned, bucket>>

\* wait_for() times out ("full") or the caller is cancelled while it blocks.
GiveUpBlocked(l) ==
  /\ \/ \E i \in 1 .. Len(putters) :
          /\ putters[i] = l
          /\ putters' = RemoveAt(putters, i)
     \/ /\ l \in BlockedStale
        /\ UNCHANGED putters
  /\ \E end \in {"full", "cancelled"} : call' = [call EXCEPT ![l] = end]
  /\ UNCHANGED <<queue, ready, task, held, stopping, wire, conns, abandoned, bucket>>

\* The same when the put() was already released: its CancelledError hands the
\* free place on to the next blocked put().
GiveUpReleased ==
  /\ ready # <<>> /\ Head(ready) # Stopper
  /\ LET l == Head(ready)
     IN /\ \E end \in {"full", "cancelled"} : call' = [call EXCEPT ![l] = end]
        /\ \/ /\ call[l] = "stale"
              /\ UNCHANGED putters
              /\ \/ /\ BlockedStale = {} /\ ready' = Tail(ready)
                 \/ \E heir \in BlockedStale : ready' = Append(Tail(ready), heir)
           \/ /\ call[l] = "putting"
              /\ Release(IF Len(queue) < QueueSize THEN 1 ELSE 0, Tail(ready), <<>>)
  /\ UNCHANGED <<queue, task, held, stopping, wire, conns, abandoned, bucket>>

\* The caller is cancelled while it awaits the result; the item stays queued.
CancelWaiting(l) ==
  /\ call[l] = "waiting"
  /\ call' = [call EXCEPT ![l] = "cancelled"]
  /\ UNCHANGED <<queue, putters, ready, task, held, stopping, wire, conns, abandoned, bucket>>
-----------------------------------------------------------------------------
(* _run(), and what the client does to it.                                 *)

Refilled == AtMost(Capacity, tokens + (now - lastRefill))

\* start(), for a new connection: an empty queue and a full bucket.
Start ==
  /\ task = "none"
  /\ conns < MaxConns
  /\ conns' = conns + 1
  /\ task' = "get"
  /\ tokens' = Capacity /\ lastRefill' = now
  /\ since' = now /\ used' = 0
  /\ UNCHANGED <<callVars, held, stopping, wire, abandoned, now>>

\* The bucket pays for the head of the queue at once, or _run() sleeps until
\* it can.
PayOrSleep ==
  /\ held' = Head(queue)
  /\ lastRefill' = now
  /\ IF Refilled < Cost
       THEN tokens' = Refilled /\ task' = "sleep" /\ UNCHANGED used
       ELSE tokens' = Refilled - Cost /\ task' = "write" /\ used' = used + 1

\* Mutant of TakeLine: the item is looked at but stays in the queue.
TakeLine_peek ==
  /\ task = "get" /\ ~stopping
  /\ queue # <<>>
  /\ PayOrSleep
  /\ UNCHANGED <<callVars, stopping, wire, conns, abandoned, now, since>>

\* _run() takes the next item; a cancelled one is skipped.
TakeLine ==
  /\ task = "get" /\ ~stopping
  /\ queue # <<>>
  /\ queue' = Tail(queue)
  /\ Release(1, ready, <<>>)
  /\ IF call[Head(queue)] = "cancelled"
       THEN UNCHANGED <<task, held, tokens, lastRefill, used>>
       ELSE PayOrSleep
  /\ UNCHANGED <<call, stopping, wire, conns, abandoned, now, since>>

\* Mutant of EndSleep: last_refill stays, the time slept is credited again.
EndSleep_creditTwice ==
  /\ task = "sleep" /\ ~stopping
  /\ now - lastRefill >= Cost - tokens
  /\ tokens' = 0
  /\ used' = used + 1
  /\ task' = "write"
  /\ UNCHANGED <<callVars, held, stopping, wire, conns, abandoned, lastRefill, now, since>>

\* Mutant of EndSleep: a sleep that ends too early.
EndSleep_early ==
  /\ task = "sleep" /\ ~stopping
  /\ lastRefill' = now
  /\ tokens' = 0
  /\ used' = used + 1
  /\ task' = "write"
  /\ UNCHANGED <<callVars, held, stopping, wire, conns, abandoned, now, since>>

\* The sleep lasts at least until the missing part has come back; whatever it
\* overshoots is given up with tokens = 0.
EndSleep ==
  /\ task = "sleep" /\ ~stopping
  /\ now - lastRefill >= Cost - tokens
  /\ lastRefill' = now
  /\ tokens' = 0
  /\ used' = used + 1
  /\ task' = "write"
  /\ UNCHANGED <<callVars, held, stopping, wire, conns, abandoned, now, since>>

\* The writer returns: the line is in the stream, the caller gets its result.
WriteLine ==
  /\ task = "write" /\ ~stopping
  /\ wire' = Append(wire, held)
  /\ call' = [call EXCEPT ![held] = IF @ = "waiting" THEN "sent" ELSE @]
  /\ held' = None /\ task' = "get"
  /\ UNCHANGED <<queue, putters, ready, stopping, conns, abandoned, bucket>>

\* A held line whose writer is left early may be in the stream or not.
MaybeWritten == wire' = wire \/ wire' = Append(wire, held)

\* The writer raises: on_failure, _fail_pending() and _run() is over.
WriteFails ==
  /\ task = "write" /\ ~stopping
  /\ MaybeWritten
  /\ call' = FailResults(QueuedLines \cup {held})
  /\ queue' = <<>> /\ Release(Len(queue), ready, <<>>)
  /\ held' = None /\ task' = "done"
  /\ UNCHANGED <<stopping, conns, abandoned, bucket>>

\* Mutant of Detach: no second drain.
Detach_noDrain(rest) ==
  LET blocked == Lines \cap (ToSet(putters) \cup ToSet(rest))
  IN /\ call' = [l \in Lines |-> IF l \in blocked THEN "stale" ELSE call[l]]
     /\ ready' = rest
     /\ abandoned' = abandoned \cup blocked
     /\ putters' = <<>> /\ queue' = <<>>
     /\ task' = "none" /\ held' = None /\ stopping' = FALSE

\* stop() from its last await on: drain once more and forget the queue.
\* `rest' are the wakeups that stay in the loop.
Detach(rest) ==
  LET k == AtMost(Len(queue), Len(putters))
      blocked == Lines \cap (ToSet(putters) \cup ToSet(rest))
  IN /\ call' = [l \in Lines |-> IF l \in blocked THEN "stale"
                                 ELSE FailResults(QueuedLines)[l]]
     /\ ready' = rest \o SubSeq(putters, 1, k)
     /\ abandoned' = abandoned \cup blocked
     /\ putters' = <<>> /\ queue' = <<>>
     /\ task' = "none" /\ held' = None /\ stopping' = FALSE

\* stop() of a sender whose _run() is over awaits nothing.
StopAfterFailure ==
  /\ task = "done" /\ ~stopping
  /\ Detach(ready)
  /\ UNCHANGED <<wire, conns, bucket>>

\* stop() of a live sender: task.cancel(), then wait for it.
StopRequest ==
  /\ is_running /\ ~stopping
  /\ stopping' = TRUE
  /\ UNCHANGED <<callVars, task, held, wire, conns, abandoned, bucket>>

\* The CancelledError ends _run(). It is no Exception, so only the finally
\* clauses run: they drain the queue and say nothing to the held line's caller.
CancelRun ==
  /\ stopping /\ is_running
  /\ IF task = "write" THEN MaybeWritten ELSE UNCHANGED wire
  /\ call' = FailResults(QueuedLines)
  /\ Release(Len(queue), ready, <<Stopper>>)
  /\ queue' = <<>>
  /\ abandoned' = abandoned \cup ({held} \ {None})
  /\ held' = None /\ task' = "done"
  /\ UNCHANGED <<stopping, conns, bucket>>

StopFinish ==
  /\ ready # <<>> /\ Head(ready) = Stopper
  /\ Detach(Tail(ready))
  /\ UNCHANGED <<wire, conns, bucket>>

-----------------------------------------------------------------------------
Tick ==
  /\ \/ now < Horizon
     \/ task = "sleep" /\ now - lastRefill < Cost
  /\ now' = now + 1
  /\ UNCHANGED <<callVars, task, held, stopping, wire, conns, abandoned,
                 tokens, lastRefill, since, used>>

\* The observer starts to count anew.
OpenWindow ==
  /\ since # now \/ used # 0
  /\ since' = now /\ used' = 0
  /\ UNCHANGED <<callVars, task, held, stopping, wire, conns, abandoned,
                 tokens, lastRefill, now>>

Next ==
  \/ \E l \in Lines : Send(l) \/ SendDirect(l) \/ GiveUpBlocked(l) \/ CancelWaiting(l)
  \/ ResumePut \/ GiveUpReleased
  \/ Start \/ TakeLine \/ EndSleep \/ WriteLine \/ WriteFails
  \/ StopAfterFailure \/ StopRequest \/ CancelRun \/ StopFinish
  \/ Tick \/ OpenWindow

\* The loop runs what is ready, time passes, enqueue_timeout fires, a write
\* ends one way or the other, and the client stops a failed sender (the
\* finally clause of _connect_once). Nobody has to send, cancel or reconnect.
Fairness ==
  /\ WF_vars(TakeLine) /\ WF_vars(EndSleep) /\ WF_vars(WriteLine \/ WriteFails)
  /\ WF_vars(CancelRun) /\ WF_vars(StopFinish) /\ WF_vars(StopAfterFailure)
  /\ WF_vars(ResumePut \/ GiveUpReleased)
  /\ \A l \in Lines : WF_vars(GiveUpBlocked(l))
  /\ WF_vars(Tick)

SafetySpec == Init /\ [][Next]_vars
Spec == SafetySpec /\ Fairness
-----------------------------------------------------------------------------
(* Properties.                                                             *)

(***************************************************************************)
(* What a caller is told is true of the stream: a line is in it at most    *)
(* once, a send() that returned has its line in it, and one that was told  *)
(* the queue is full, or still waits for a place, has not.  Cancelled      *)
(* callers, released put() calls and the drains all touch the same queue.  *)
(***************************************************************************)
ResultsTellTheWire ==
  /\ \A i, j \in 1 .. Len(wire) : wire[i] = wire[j] => i = j
  /\ \A l \in Lines :
       LET written == \E i \in 1 .. Len(wire) : wire[i] = l
       IN /\ call[l] = "sent" => written
          /\ call[l] \in {"new", "putting", "stale", "full"} => ~written

\* The detailed sender against the bucket it promises.
Bucket == INSTANCE TokenBucket WITH clock <- now, level <- Refilled

(***************************************************************************)
(* Flow control: in any window of one connection, wherever it starts, the  *)
(* queue task pays for at most one burst more than the rate allows.        *)
(***************************************************************************)
PacedWithinBudget == used * Cost <= Capacity + (now - since)

\* Every step of the sender is a step of the token bucket or none: the lazy
\* refill, the sleep and the reset at a reconnect never create tokens.
ImplementsTokenBucket == Bucket!BucketSpec

Pending == {"putting", "stale", "waiting"}

(***************************************************************************)
(* Every send() returns or raises: through full queues, overtaken and      *)
(* cancelled callers, writer failures, stops and reconnects. The only      *)
(* callers exempted are those of the line in the hands of _run() when      *)
(* stop() cancels it, and of the put() calls still blocked when stop()     *)
(* forgets the queue.                                                      *)
(***************************************************************************)
SendSettlesUnlessAbandoned ==
  \A l \in Lines : call[l] \in Pending ~> (call[l] \in Resolved \/ l \in abandoned)

\* Callers whose result nobody can set any more.
Orphans == {l \in Lines : call[l] = "waiting"} \ (QueuedLines \cup {held})

(***************************************************************************)
(* Stopping the sender settles every accepted line (stop() passes the      *)
(* error that pending results get), so that no caller waits for ever.      *)
(* It does not: see the README.                                            *)
(***************************************************************************)
StopSettlesAll == task = "none" => Orphans = {}
=============================================================================
