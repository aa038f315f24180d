--------------------------- MODULE ClientLifecycle ---------------------------
(***************************************************************************)
(* novariusirc/core/client.py: run(), _connect_once(), the reader as far as*)
(* the connection sees it, and stop(), which a signal handler calls in a   *)
(* task of its own and which a K-line makes the reader call.               *)
(*                                                                         *)
(* Code between two awaits is one step.  What the reader makes of the      *)
(* lines is in CapNegotiation, what the sender does in RateLimitedSender.  *)
(***************************************************************************)
EXTENDS Integers, Sequences

CONSTANT Delays  \* network.reconnect_delays

ASSUME DelaysAssumption == Delays \in Seq(Nat \ {0}) /\ Delays # <<>>

VARIABLES
  phase,         \* where run() and _connect_once() await
  failure_count, \* up to Len(Delays), from where on it makes no difference
  delay,         \* the last delay chosen
  outcome,       \* how _connect_once() will end: "normal" or "error"
  writer,        \* self.writer: none, open, or closed by either end
  reader,        \* the task listen_task
  registered,    \* _registration_complete, _registration_event
  sender,        \* the sender's task is running
  stop,          \* the event _stop
  stopping,      \* where each call of stop() stands
  missed,        \* history: a stop() found no writer because it was connecting
  established    \* history: the last attempt got as far as "listening"

run == <<phase, failure_count, delay, outcome>>
conn == <<writer, reader, registered, sender, established>>
stops == <<stop, stopping, missed>>
vars == <<run, conn, stops>>

\* Bound: two signals and one K-line.
Callers == {"signal", "second signal", "reader"}
Idle == {"check", "connecting", "waiting", "over"}
Closing == {"closing", "draining", "unwinding"}

TypeOK ==
  /\ phase \in Idle \cup Closing \cup {"greeting", "registering", "listening"}
  /\ failure_count \in 0 .. Len(Delays)
  /\ delay \in Nat
  /\ outcome \in {"normal", "error"}
  /\ writer \in {"none", "open", "closed"}
  /\ writer = "none" <=> phase \in Idle
  /\ reader \in {"none", "running", "ended", "raised"}
  /\ registered \in BOOLEAN /\ sender \in BOOLEAN /\ established \in BOOLEAN
  /\ stop \in BOOLEAN /\ missed \in BOOLEAN
  /\ stopping \in [Callers -> {"no", "quit", "close", "done"}]

Init ==
  /\ phase = "check" /\ failure_count = 0 /\ delay = 0 /\ outcome = "error"
  /\ writer = "none" /\ reader = "none"
  /\ registered = FALSE /\ sender = FALSE /\ established = FALSE
  /\ stop = FALSE /\ stopping = [c \in Callers |-> "no"] /\ missed = FALSE

-----------------------------------------------------------------------------
(* run().                                                                  *)

AtMost(a, b) == IF a <= b THEN a ELSE b

\* `while not self._stop.is_set()'
Loop ==
  /\ phase = "check"
  /\ phase' = IF stop THEN "over" ELSE "connecting"
  /\ UNCHANGED <<failure_count, delay, outcome, conn, stops>>

\* What run() does when _connect_once() has raised or returned.
Ended(how) ==
  /\ IF how = "error"
       THEN /\ delay' = Delays[AtMost(failure_count, Len(Delays) - 1) + 1]
            /\ failure_count' = AtMost(failure_count + 1, Len(Delays))
       ELSE /\ delay' = Delays[1]
            /\ failure_count' = 0
  /\ phase' = IF stop THEN "over" ELSE "waiting"

\* _wait_for_reconnect() ends when the delay is over or stop() sets _stop.
Waited ==
  /\ phase = "waiting"
  /\ phase' = "check"
  /\ UNCHANGED <<failure_count, delay, outcome, conn, stops>>

-----------------------------------------------------------------------------
(* _connect_once().                                                        *)

\* The certificate, the address, the server or the timeout.
ConnectFails ==
  /\ phase = "connecting"
  /\ Ended("error")
  /\ established' = FALSE
  /\ UNCHANGED <<outcome, writer, reader, registered, sender, stops>>

\* Connected: all state of the last connection is reset, the sender started.
\* The reset reads the moderation store, which is taken not to raise: it would
\* leave the connection open, outside of the try.
Connected ==
  /\ phase = "connecting"
  /\ phase' = "greeting"
  /\ writer' = "open" /\ sender' = TRUE
  /\ registered' = FALSE /\ established' = FALSE
  /\ UNCHANGED <<failure_count, delay, outcome, reader, stops>>

\* _register() has written CAP LS, NICK and USER, or raises.
Greeted ==
  /\ phase = "greeting"
  /\ \/ phase' = "registering" /\ reader' = "running" /\ UNCHANGED outcome
     \/ phase' = "closing" /\ outcome' = "error" /\ UNCHANGED reader
  /\ UNCHANGED <<failure_count, delay, writer, registered, sender, established, stops>>

Leave(how) ==
  /\ phase' = "closing"
  /\ outcome' = how
  /\ UNCHANGED <<failure_count, delay, conn, stops>>

ReaderOver == reader \in {"ended", "raised"}

SeesRegistration ==
  /\ phase = "registering" /\ registered
  /\ phase' = "listening"
  /\ established' = TRUE
  /\ UNCHANGED <<failure_count, delay, outcome, writer, reader, registered, sender, stops>>

\* Mutant of RegistrationTimeout: it is forgotten.
RegistrationTimeout_never == FALSE /\ Leave("error")

\* It can also beat a registration that the main task has not seen yet.
RegistrationTimeout == phase = "registering" /\ Leave("error")

ReaderOverBeforeRegistration == phase = "registering" /\ ~registered /\ ReaderOver /\ Leave("error")

\* The only way out without an exception: end of file after stop().
ReaderOverAfterRegistration ==
  /\ phase = "listening" /\ ReaderOver
  /\ Leave(IF reader = "ended" /\ stop THEN "normal" ELSE "error")

\* Mutant of CancelTasks: the reader is left to itself.
CancelTasks_noReader ==
  /\ phase = "closing"
  /\ phase' = "draining"
  /\ UNCHANGED <<failure_count, delay, outcome, conn, stops>>

\* The finally clause: a reader that still runs is cancelled, and with it the
\* stop() it may be in; so are the registration and the application tasks.
CancelTasks ==
  /\ phase = "closing"
  /\ phase' = "draining"
  /\ reader' = "none"
  /\ stopping' = [stopping EXCEPT !["reader"] = IF @ = "no" THEN "no" ELSE "done"]
  /\ UNCHANGED <<failure_count, delay, outcome, writer, registered, sender, established,
                 stop, missed>>

\* sender.stop() returns, then the writer is closed and waited for.
StopSender ==
  /\ phase = "draining"
  /\ phase' = "unwinding"
  /\ sender' = FALSE /\ writer' = "closed"
  /\ UNCHANGED <<failure_count, delay, outcome, reader, registered, established, stops>>

\* Mutant of Unwind: the closed writer stays in self.writer.
Unwind_keepWriter ==
  /\ phase = "unwinding"
  /\ Ended(outcome)
  /\ UNCHANGED <<outcome, conn, stops>>

Unwind ==
  /\ phase = "unwinding"
  /\ writer' = "none"
  /\ Ended(outcome)
  /\ UNCHANGED <<outcome, reader, registered, sender, established, stops>>

-----------------------------------------------------------------------------
(* The reader, the sender and the peer.                                    *)

\* 001 is handled; what was buffered can still be read from a closed stream.
Welcome ==
  /\ reader = "running" /\ stopping["reader"] \in {"no", "done"} /\ ~registered
  /\ registered' = TRUE
  /\ UNCHANGED <<run, writer, reader, sender, established, stops>>

\* ERROR, a refused registration, a read that was idle for too long, or a
\* handler that could not write.
ReaderRaises ==
  /\ reader = "running" /\ stopping["reader"] \in {"no", "done"}
  /\ reader' = "raised"
  /\ UNCHANGED <<run, writer, registered, sender, established, stops>>

\* The end of the stream, which a closed writer brings about.
ReaderEnds ==
  /\ reader = "running" /\ stopping["reader"] \in {"no", "done"}
  /\ writer = "closed"
  /\ reader' = "ended"
  /\ UNCHANGED <<run, writer, registered, sender, established, stops>>

\* The peer closes, the line is cut, or on_failure closes the writer.
ConnectionLost ==
  /\ writer = "open"
  /\ writer' = "closed"
  /\ UNCHANGED <<run, reader, registered, sender, established, stops>>

-----------------------------------------------------------------------------
(* stop().                                                                 *)

\* Up to the first await.
Stop(c) ==
  /\ stopping[c] = "no"
  /\ c = "reader" => reader = "running"
  /\ stop' = TRUE
  /\ stopping' = [stopping EXCEPT ![c] =
       CASE writer = "none" -> "done" [] writer = "open" -> "quit" [] OTHER -> "close"]
  /\ missed' = (missed \/ phase = "connecting")
  /\ UNCHANGED <<run, conn>>

\* Mutant of QuitSent: the server is trusted to close the connection.
QuitSent_noClose(c) ==
  /\ stopping[c] = "quit"
  /\ stopping' = [stopping EXCEPT ![c] = "close"]
  /\ UNCHANGED <<run, conn, stop, missed>>

\* QUIT is written, fails, or takes two seconds; the writer is closed anyway.
QuitSent(c) ==
  /\ stopping[c] = "quit"
  /\ stopping' = [stopping EXCEPT ![c] = "close"]
  /\ writer' = IF writer = "open" THEN "closed" ELSE writer
  /\ UNCHANGED <<run, reader, registered, sender, established, stop, missed>>

\* wait_closed() returns.
StopReturns(c) ==
  /\ stopping[c] = "close"
  /\ writer # "open"
  /\ stopping' = [stopping EXCEPT ![c] = "done"]
  /\ UNCHANGED <<run, conn, stop, missed>>

MainNext ==
  \/ Loop \/ Waited \/ ConnectFails \/ Connected \/ Greeted
  \/ SeesRegistration \/ RegistrationTimeout
  \/ ReaderOverBeforeRegistration \/ ReaderOverAfterRegistration
  \/ CancelTasks \/ StopSender \/ Unwind

StopNext == \E c \in Callers : QuitSent(c) \/ StopReturns(c)

Next ==
  \/ MainNext \/ StopNext
  \/ Welcome \/ ReaderRaises \/ ReaderEnds \/ ConnectionLost
  \/ \E c \in Callers : Stop(c)

\* The loop runs every task that can run, connect_timeout_seconds and
\* registration_timeout_seconds pass, and a closed stream ends.  Nobody has
\* to stop the bot, to welcome it or to close the connection.
Spec == Init /\ [][Next]_vars /\ WF_vars(MainNext) /\ WF_vars(StopNext) /\ WF_vars(ReaderEnds)

-----------------------------------------------------------------------------
(* Properties.                                                             *)

(***************************************************************************)
(* Nothing of a connection outlives it: when run() waits, connects or is   *)
(* over, no reader handles lines of an old stream, no sender task runs and *)
(* no stop() of an old reader is half way.                                 *)
(***************************************************************************)
NothingOutlivesConnection ==
  phase \in Idle => reader = "none" /\ ~sender /\ stopping["reader"] \in {"no", "done"}

(***************************************************************************)
(* No attempt hangs: a server that accepts and then says nothing, closes,  *)
(* or is left by stop() while it registers does not keep run() from going  *)
(* on to listen, to wait or to its end.                                    *)
(***************************************************************************)
AttemptsEnd == phase = "connecting" ~> phase \in {"listening", "waiting", "over"}

(***************************************************************************)
(* stop() ends run(), wherever run() is, except while it connects.         *)
(***************************************************************************)
StopEndsRunUnlessMissed == stop /\ ~missed ~> phase = "over"

(***************************************************************************)
(* stop() ends run(): SIGTERM is "a graceful stop" (README.md).            *)
(* It does not, if it arrives while open_connection() is awaited.          *)
(***************************************************************************)
StopEndsRun == stop ~> phase = "over"

(***************************************************************************)
(* The retry delay "resets after a connection was established"             *)
(* (docs/IRC_PROTOCOL.md).  It does not: losing an established connection  *)
(* is an exception too.                                                    *)
(***************************************************************************)
BackoffResetsAfterEstablished == phase = "waiting" /\ established => delay = Delays[1]
=============================================================================
