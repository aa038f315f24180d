----------------------------- MODULE TokenBucket -----------------------------
(***************************************************************************)
(* What the flow control of novariusirc/irc/transport.py promises, without *)
(* its queue, its tasks and its callers: a bucket that fills by one unit   *)
(* per tick up to Capacity, and lines that each take Cost units out of it. *)
(* RateLimitedSender computes the level lazily and sleeps when it is too   *)
(* low; this module keeps it exactly, at every tick.                       *)
(*                                                                         *)
(* `since' and `used' belong to an observer, who may open a measuring      *)
(* window at any moment: `used' counts the lines paid for since then.      *)
(***************************************************************************)
EXTENDS Integers

CONSTANTS
  Capacity,   \* what a full bucket holds: burst lines
  Cost        \* what one line takes: the ticks one token needs to come back

\* What the constructor's checks on rate_per_second and burst amount to.
BucketConstants ==
  /\ Cost \in Nat \ {0}
  /\ Capacity \in Nat
  /\ Cost <= Capacity

VARIABLES
  clock,      \* ticks since the process started
  level,      \* units in the bucket
  since,      \* when the observer's window was opened
  used        \* lines paid for in the observer's window

bucketVars == <<clock, level, since, used>>

Least(a, b) == IF a <= b THEN a ELSE b

BucketInit ==
  /\ clock = 0
  /\ level = Capacity
  /\ since = 0
  /\ used = 0

\* One tick passes.
Elapse ==
  /\ clock' = clock + 1
  /\ level' = Least(Capacity, level + 1)
  /\ UNCHANGED <<since, used>>

\* A line is paid for; a sender may give up part of what is left.
Pay ==
  /\ level >= Cost
  /\ \E rest \in 0 .. (level - Cost) : level' = rest
  /\ used' = used + 1
  /\ UNCHANGED <<clock, since>>

\* A new connection has a full bucket; what the old one used is its own.
Refill ==
  /\ level' = Capacity
  /\ since' = clock
  /\ used' = 0
  /\ UNCHANGED clock

OpenWindow ==
  /\ since' = clock
  /\ used' = 0
  /\ UNCHANGED <<clock, level>>

BucketNext == Elapse \/ Pay \/ Refill \/ OpenWindow

BucketSpec == BucketInit /\ [][BucketNext]_bucketVars

BucketTypeOK ==
  /\ clock \in Nat
  /\ level \in 0 .. Capacity
  /\ since \in 0 .. clock
  /\ used \in Nat

(***************************************************************************)
(* In any window of one connection, however it lies against the refills,   *)
(* at most one burst is paid for beyond what the rate allows.              *)
(***************************************************************************)
WindowBound == used * Cost <= Capacity + (clock - since)

\* The inductive form: what is still in the bucket is not yet spent.
BudgetInv == used * Cost + level <= Capacity + (clock - since)

=============================================================================
