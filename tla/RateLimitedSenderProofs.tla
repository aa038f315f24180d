----------------------- MODULE RateLimitedSenderProofs -----------------------
(***************************************************************************)
(* Theorems about RateLimitedSender for every set of callers, queue size,  *)
(* burst and rate: type correctness, that the sender implements the token  *)
(* bucket, from which its pacing bound follows, and that what callers are  *)
(* told is true of the stream.                                             *)
(***************************************************************************)
EXTENDS RateLimitedSender, TLAPS

LEMMA CapacityProp == Capacity \in Nat /\ Cost \in Nat \ {0} /\ Cost <= Capacity
<1>1. \A b, c \in Nat \ {0} : b * c \in Nat /\ c <= b * c
  OBVIOUS
<1>2. QED
  BY <1>1, SenderAssumption DEF Capacity

\* What releasing blocked put() calls leaves behind is well typed.
LEMMA ReleaseTypes ==
  ASSUME putters \in Seq(Lines), NEW n \in Nat,
         NEW before \in Seq(Lines \cup {Stopper}), NEW after \in Seq(Lines \cup {Stopper}),
         Release(n, before, after)
  PROVE  putters' \in Seq(Lines) /\ ready' \in Seq(Lines \cup {Stopper})
<1> DEFINE k == AtMost(n, Len(putters))
<1>1. k \in 0 .. Len(putters)
  BY DEF AtMost
<1>2. SubSeq(putters, 1, k) \in Seq(Lines) /\ SubSeq(putters, k + 1, Len(putters)) \in Seq(Lines)
  BY <1>1
<1>3. SubSeq(putters, 1, k) \in Seq(Lines \cup {Stopper})
  BY <1>2
<1>4. before \o SubSeq(putters, 1, k) \o after \in Seq(Lines \cup {Stopper})
  BY <1>3
<1> QED
  BY <1>2, <1>4 DEF Release

LEMMA PlainRelease ==
  ASSUME QueueTypes, NEW n \in Nat, Release(n, ready, <<>>)
  PROVE  putters' \in Seq(Lines) /\ ready' \in Seq(Lines \cup {Stopper})
<1>1. <<>> \in Seq(Lines \cup {Stopper})
  OBVIOUS
<1>2. putters \in Seq(Lines) /\ ready \in Seq(Lines \cup {Stopper})
  BY DEF QueueTypes
<1> QED
  BY <1>1, <1>2, ReleaseTypes

LEMMA FailResultsType ==
  ASSUME CallTypes, NEW S
  PROVE  FailResults(S) \in [Lines -> CallStates]
BY DEF FailResults, CallStates, CallTypes

LEMMA DetachTypes ==
  ASSUME QueueTypes, NEW rest \in Seq(Lines \cup {Stopper}), Detach(rest)
  PROVE  QueueTypes'
<1> DEFINE k == AtMost(Len(queue), Len(putters))
<1>1. k \in 0 .. Len(putters)
  BY DEF AtMost, QueueTypes
<1>2. SubSeq(putters, 1, k) \in Seq(Lines)
  BY <1>1 DEF QueueTypes
<1>3. SubSeq(putters, 1, k) \in Seq(Lines \cup {Stopper})
  BY <1>2
<1>4. rest \o SubSeq(putters, 1, k) \in Seq(Lines \cup {Stopper})
  BY <1>3
<1>5. ready' \in Seq(Lines \cup {Stopper}) /\ putters' = <<>> /\ queue' = <<>>
  BY <1>4 DEF Detach
<1> QED
  BY <1>5, SenderAssumption DEF QueueTypes

LEMMA RefilledType ==
  ASSUME BucketTypes
  PROVE  Refilled \in 0 .. Capacity /\ Refilled >= tokens
BY CapacityProp DEF BucketTypes, Refilled, AtMost

LEMMA BucketUnchanged == BucketTypes /\ UNCHANGED bucket => BucketTypes'
BY DEF BucketTypes, bucket

\* The steps that leave the bucket, the clock and the observer alone.
QuietStep ==
  \/ \E l \in Lines : Send(l) \/ SendDirect(l) \/ GiveUpBlocked(l) \/ CancelWaiting(l)
  \/ ResumePut \/ GiveUpReleased \/ WriteLine \/ WriteFails
  \/ StopAfterFailure \/ StopRequest \/ CancelRun \/ StopFinish

LEMMA QuietStepIsQuiet == QuietStep => UNCHANGED bucket
BY DEF QuietStep, Send, SendDirect, GiveUpBlocked, CancelWaiting, ResumePut,
       GiveUpReleased, WriteLine, WriteFails, StopAfterFailure, StopRequest,
       CancelRun, StopFinish

LEMMA BucketTyping ==
  ASSUME BucketTypes, [Next]_vars
  PROVE  BucketTypes'
<1> USE CapacityProp
<1>1. CASE QuietStep
  BY <1>1, QuietStepIsQuiet, BucketUnchanged
<1>2. CASE Start
  BY <1>2 DEF Start, BucketTypes
<1>3. CASE TakeLine
  <2>1. Refilled \in 0 .. Capacity
    BY RefilledType
  <2>2. tokens' \in 0 .. Capacity /\ lastRefill' \in 0 .. now /\ used' \in Nat
    BY <1>3, <2>1 DEF TakeLine, PayOrSleep, BucketTypes
  <2> QED
    BY <1>3, <2>2 DEF TakeLine, BucketTypes
<1>4. CASE EndSleep
  BY <1>4 DEF EndSleep, BucketTypes
<1>5. CASE Tick
  BY <1>5 DEF Tick, BucketTypes
<1>6. CASE OpenWindow
  BY <1>6 DEF OpenWindow, BucketTypes
<1>7. CASE UNCHANGED vars
  BY <1>7 DEF vars, BucketTypes
<1> QED
  BY <1>1, <1>2, <1>3, <1>4, <1>5, <1>6, <1>7 DEF Next, QuietStep

LEMMA HeadsAndTails ==
  ASSUME QueueTypes
  PROVE  /\ queue # <<>> => /\ Head(queue) \in Lines
                            /\ Tail(queue) \in Seq(Lines)
                            /\ Len(Tail(queue)) <= QueueSize
         /\ ready # <<>> => /\ Head(ready) \in Lines \cup {Stopper}
                            /\ Tail(ready) \in Seq(Lines \cup {Stopper})
BY SenderAssumption DEF QueueTypes

LEMMA RunTyping ==
  ASSUME QueueTypes, RunTypes, [Next]_vars
  PROVE  RunTypes'
<1> USE SenderAssumption DEF RunTypes, TaskStates
<1>1. ASSUME NEW l \in Lines, Send(l) \/ GiveUpBlocked(l) \/ CancelWaiting(l) PROVE RunTypes'
  BY <1>1 DEF Send, GiveUpBlocked, CancelWaiting
<1>2. ASSUME NEW l \in Lines, SendDirect(l) PROVE RunTypes'
  BY <1>2 DEF SendDirect
<1>3. CASE ResumePut \/ GiveUpReleased
  BY <1>3 DEF ResumePut, GiveUpReleased
<1>4. CASE Start
  BY <1>4 DEF Start
<1>5. CASE TakeLine
  BY <1>5, HeadsAndTails DEF TakeLine, PayOrSleep
<1>6. CASE EndSleep
  BY <1>6 DEF EndSleep
<1>7. CASE WriteLine
  BY <1>7 DEF WriteLine
<1>8. CASE WriteFails
  <2>1. wire' \in Seq(Lines)
    BY <1>8 DEF WriteFails, MaybeWritten
  <2> QED
    BY <1>8, <2>1 DEF WriteFails
<1>9. ASSUME NEW rest, Detach(rest), UNCHANGED <<wire, conns>> PROVE RunTypes'
  <2>1. abandoned' \subseteq Lines
    BY <1>9 DEF Detach
  <2> QED
    BY <1>9, <2>1 DEF Detach
<1>10. CASE StopAfterFailure
  BY <1>9, <1>10 DEF StopAfterFailure
<1>11. CASE StopRequest
  BY <1>11 DEF StopRequest
<1>12. CASE CancelRun
  <2>1. (MaybeWritten /\ held \in Lines) \/ UNCHANGED wire
    BY <1>12 DEF CancelRun
  <2>2. wire' \in Seq(Lines)
    BY <2>1 DEF MaybeWritten
  <2> QED
    BY <1>12, <2>2 DEF CancelRun
<1>13. CASE StopFinish
  BY <1>9, <1>13 DEF StopFinish
<1>14. CASE Tick \/ OpenWindow \/ UNCHANGED vars
  BY <1>14 DEF Tick, OpenWindow, vars
<1> QED
  BY <1>1, <1>2, <1>3, <1>4, <1>5, <1>6, <1>7, <1>8, <1>10, <1>11, <1>12, <1>13,
     <1>14 DEF Next

LEMMA CallTyping ==
  ASSUME CallTypes, QueueTypes, RunTypes, [Next]_vars
  PROVE  CallTypes'
<1> USE SenderAssumption
<1>1. ASSUME NEW l \in Lines,
             Send(l) \/ SendDirect(l) \/ GiveUpBlocked(l) \/ CancelWaiting(l)
      PROVE  CallTypes'
  BY <1>1 DEF Send, SendDirect, GiveUpBlocked, CancelWaiting, CallTypes, CallStates
<1>2. CASE ResumePut \/ GiveUpReleased \/ WriteLine
  BY <1>2 DEF ResumePut, GiveUpReleased, WriteLine, CallTypes, CallStates
<1>3. CASE WriteFails \/ CancelRun
  BY <1>3, FailResultsType DEF WriteFails, CancelRun, CallTypes
<1>4. ASSUME NEW rest, Detach(rest) PROVE CallTypes'
  <2>1. FailResults(QueuedLines) \in [Lines -> CallStates]
    BY FailResultsType
  <2> QED
    BY <1>4, <2>1 DEF Detach, CallTypes, CallStates
<1>5. CASE StopAfterFailure \/ StopFinish
  BY <1>4, <1>5 DEF StopAfterFailure, StopFinish
<1>6. CASE Start \/ TakeLine \/ EndSleep \/ StopRequest \/ Tick \/ OpenWindow
  BY <1>6 DEF Start, TakeLine, EndSleep, StopRequest, Tick, OpenWindow, callVars, CallTypes
<1>7. CASE UNCHANGED vars
  BY <1>7 DEF vars, CallTypes
<1> QED
  BY <1>1, <1>2, <1>3, <1>5, <1>6, <1>7 DEF Next

LEMMA QueueTyping ==
  ASSUME QueueTypes, RunTypes, [Next]_vars
  PROVE  QueueTypes'
<1> USE SenderAssumption
<1>1. ASSUME NEW l \in Lines, Send(l) PROVE QueueTypes'
  <2>1. UNCHANGED ready
    BY <1>1 DEF Send
  <2>2. CASE Len(queue) < QueueSize /\ queue' = Append(queue, l) /\ putters' = putters
    BY <2>1, <2>2 DEF QueueTypes
  <2>3. CASE putters' = Append(putters, l) /\ queue' = queue
    BY <2>1, <2>3 DEF QueueTypes
  <2> QED
    BY <1>1, <2>2, <2>3 DEF Send
<1>2. ASSUME NEW l \in Lines, SendDirect(l) \/ CancelWaiting(l) PROVE QueueTypes'
  BY <1>2 DEF SendDirect, CancelWaiting, QueueTypes
<1>3. ASSUME NEW l \in Lines, GiveUpBlocked(l) PROVE QueueTypes'
  <2>1. ASSUME NEW s \in Seq(Lines), NEW i \in 1 .. Len(s)
        PROVE  RemoveAt(s, i) \in Seq(Lines)
    <3>1. SubSeq(s, 1, i - 1) \in Seq(Lines) /\ SubSeq(s, i + 1, Len(s)) \in Seq(Lines)
      OBVIOUS
    <3>2. SubSeq(s, 1, i - 1) \o SubSeq(s, i + 1, Len(s)) \in Seq(Lines)
      BY <3>1
    <3> QED
      BY <3>2 DEF RemoveAt
  <2>2. putters' \in Seq(Lines)
    <3>1. putters \in Seq(Lines)
      BY DEF QueueTypes
    <3>2. \/ putters' = putters
          \/ \E i \in 1 .. Len(putters) : putters' = RemoveAt(putters, i)
      BY <1>3 DEF GiveUpBlocked
    <3> QED
      BY <2>1, <3>1, <3>2
  <2> QED
    BY <1>3, <2>2 DEF GiveUpBlocked, QueueTypes
<1>4. CASE ResumePut
  <2>1. Head(ready) \in Lines /\ Tail(ready) \in Seq(Lines \cup {Stopper})
    BY <1>4, HeadsAndTails DEF ResumePut
  <2>2. queue' \in Seq(Lines) /\ Len(queue') <= QueueSize
    <3>1. CASE queue' = queue
      BY <3>1 DEF QueueTypes
    <3>2. CASE queue' = Append(queue, Head(ready)) /\ Len(queue) < QueueSize
      BY <3>2, <2>1 DEF QueueTypes
    <3> QED
      BY <1>4, <3>1, <3>2 DEF ResumePut
  <2>3. putters' \in Seq(Lines)
    <3>1. CASE putters' = putters
      BY <3>1 DEF QueueTypes
    <3>2. CASE putters' = Append(putters, Head(ready))
      BY <3>2, <2>1 DEF QueueTypes
    <3> QED
      BY <1>4, <3>1, <3>2 DEF ResumePut
  <2> QED
    BY <1>4, <2>1, <2>2, <2>3 DEF ResumePut, QueueTypes
<1>5. CASE GiveUpReleased
  <2>1. Head(ready) \in Lines /\ Tail(ready) \in Seq(Lines \cup {Stopper})
    BY <1>5, HeadsAndTails DEF GiveUpReleased
  <2>2. putters' \in Seq(Lines) /\ ready' \in Seq(Lines \cup {Stopper})
    <3>1. CASE Release(IF Len(queue) < QueueSize THEN 1 ELSE 0, Tail(ready), <<>>)
      <4>1. <<>> \in Seq(Lines \cup {Stopper}) /\ putters \in Seq(Lines)
        BY DEF QueueTypes
      <4>2. (IF Len(queue) < QueueSize THEN 1 ELSE 0) \in Nat
        OBVIOUS
      <4> QED
        BY <3>1, <2>1, <4>1, <4>2, ReleaseTypes
    <3>2. CASE UNCHANGED putters /\ ready' = Tail(ready)
      BY <3>2, <2>1 DEF QueueTypes
    <3>3. CASE /\ UNCHANGED putters
               /\ \E heir \in BlockedStale : ready' = Append(Tail(ready), heir)
      BY <3>3, <2>1 DEF QueueTypes, BlockedStale
    <3> QED
      BY <1>5, <3>1, <3>2, <3>3 DEF GiveUpReleased
  <2> QED
    BY <1>5, <2>1, <2>2 DEF GiveUpReleased, QueueTypes
<1>6. CASE TakeLine
  <2>1. putters' \in Seq(Lines) /\ ready' \in Seq(Lines \cup {Stopper})
    BY <1>6, PlainRelease DEF TakeLine
  <2> QED
    BY <1>6, <2>1, HeadsAndTails DEF TakeLine, QueueTypes
<1>7. CASE WriteFails
  <2>1. Len(queue) \in Nat
    BY DEF QueueTypes
  <2>2. putters' \in Seq(Lines) /\ ready' \in Seq(Lines \cup {Stopper})
    BY <1>7, <2>1, PlainRelease DEF WriteFails
  <2> QED
    BY <1>7, <2>2 DEF WriteFails, QueueTypes
<1>8. CASE StopAfterFailure
  <2>1. ready \in Seq(Lines \cup {Stopper})
    BY DEF QueueTypes
  <2> QED
    BY <1>8, <2>1, DetachTypes DEF StopAfterFailure
<1>9. CASE CancelRun
  <2>1. /\ <<Stopper>> \in Seq(Lines \cup {Stopper}) /\ ready \in Seq(Lines \cup {Stopper})
        /\ putters \in Seq(Lines) /\ Len(queue) \in Nat
    BY DEF QueueTypes
  <2>2. putters' \in Seq(Lines) /\ ready' \in Seq(Lines \cup {Stopper})
    BY <1>9, <2>1, ReleaseTypes DEF CancelRun
  <2> QED
    BY <1>9, <2>2 DEF CancelRun, QueueTypes
<1>10. CASE StopFinish
  BY <1>10, HeadsAndTails, DetachTypes DEF StopFinish
<1>11. CASE Start \/ EndSleep \/ WriteLine \/ StopRequest \/ Tick \/ OpenWindow
  BY <1>11 DEF Start, EndSleep, WriteLine, StopRequest, Tick, OpenWindow, callVars,
               QueueTypes
<1>12. CASE UNCHANGED vars
  BY <1>12 DEF vars, QueueTypes
<1> QED
  BY <1>1, <1>2, <1>3, <1>4, <1>5, <1>6, <1>7, <1>8, <1>9, <1>10, <1>11, <1>12 DEF Next

(***************************************************************************)
(* Type correctness, with the queue bound: no interleaving of released     *)
(* put() calls, new callers, drains and restarts overfills the queue.      *)
(***************************************************************************)
THEOREM TypeCorrect == SafetySpec => []TypeOK
<1>1. Init => TypeOK
  <2> SUFFICES ASSUME Init PROVE TypeOK
    OBVIOUS
  <2>1. CallTypes /\ QueueTypes
    <3>1. CallTypes
      BY DEF Init, CallTypes, CallStates
    <3>2. queue = <<>> /\ putters = <<>> /\ ready = <<>>
      BY DEF Init
    <3> QED
      BY <3>1, <3>2, SenderAssumption DEF QueueTypes
  <2>2. wire \in Seq(Lines) /\ task = "none" /\ task \in TaskStates /\ held = None
    BY DEF Init, TaskStates
  <2>3. conns \in 0 .. MaxConns /\ abandoned \subseteq Lines /\ stopping \in BOOLEAN
    <3>1. conns = 0 /\ abandoned = {} /\ stopping = FALSE
      BY DEF Init
    <3>2. conns \in 0 .. MaxConns
      BY <3>1, SenderAssumption DEF SenderAssumption
    <3>3. abandoned \subseteq Lines /\ stopping \in BOOLEAN
      BY <3>1
    <3> QED
      BY <3>2, <3>3
  <2>4. RunTypes
    BY <2>2, <2>3 DEF RunTypes
  <2>5. BucketTypes
    BY CapacityProp DEF Init, BucketTypes
  <2> QED
    BY <2>1, <2>4, <2>5 DEF TypeOK
<1>2. TypeOK /\ [Next]_vars => TypeOK'
  BY BucketTyping, RunTyping, QueueTyping, CallTyping DEF TypeOK
<1>3. QED
  BY <1>1, <1>2, PTL DEF SafetySpec

-----------------------------------------------------------------------------
(* Refinement.                                                             *)

LEMMA BucketConstantsHold == Bucket!BucketConstants
BY CapacityProp DEF Bucket!BucketConstants

\* Multiplication by a constant, in the one form the steps need: SMT treats
\* the product as an unknown.
LEMMA OneMoreLine == \A n, c \in Nat : (n + 1) * c = n * c + c /\ n * c \in Nat
  OBVIOUS

LEMMA BucketLevels == Bucket!BucketSpec => []Bucket!BucketTypeOK
<1> USE BucketConstantsHold DEF Bucket!BucketConstants, Bucket!BucketTypeOK
<1>1. Bucket!BucketInit => Bucket!BucketTypeOK
  BY DEF Bucket!BucketInit
<1>2. Bucket!BucketTypeOK /\ [Bucket!BucketNext]_(Bucket!bucketVars) => Bucket!BucketTypeOK'
  BY DEF Bucket!BucketNext, Bucket!bucketVars, Bucket!Elapse, Bucket!Pay, Bucket!Refill,
         Bucket!OpenWindow, Bucket!Least
<1>3. QED
  BY <1>1, <1>2, PTL DEF Bucket!BucketSpec

(***************************************************************************)
(* Whatever is paid for in a window was in the bucket when the window was  *)
(* opened, or came back since: the bucket never holds unearned units.      *)
(***************************************************************************)
THEOREM BucketBudget == Bucket!BucketSpec => []Bucket!BudgetInv
<1>1. Bucket!BucketInit => Bucket!BudgetInv
  BY BucketConstantsHold DEF Bucket!BucketConstants, Bucket!BucketInit, Bucket!BudgetInv
<1>2. Bucket!BucketTypeOK /\ Bucket!BudgetInv /\ [Bucket!BucketNext]_(Bucket!bucketVars)
        => Bucket!BudgetInv'
  <2> SUFFICES ASSUME Bucket!BucketTypeOK, Bucket!BudgetInv,
                      [Bucket!BucketNext]_(Bucket!bucketVars)
               PROVE  Bucket!BudgetInv'
    OBVIOUS
  <2> USE BucketConstantsHold
      DEF Bucket!BucketConstants, Bucket!BucketTypeOK, Bucket!BudgetInv
  <2> used * Cost \in Nat
    BY OneMoreLine
  <2>1. CASE Bucket!Elapse
    BY <2>1 DEF Bucket!Elapse, Bucket!Least
  <2>2. CASE Bucket!Pay
    <3>1. (used + 1) * Cost = used * Cost + Cost
      BY OneMoreLine
    <3>2. PICK rest \in 0 .. (Refilled - Cost) : Refilled' = rest
      BY <2>2 DEF Bucket!Pay
    <3>3. used' * Cost + Refilled' <= used * Cost + Refilled
      BY <2>2, <3>1, <3>2 DEF Bucket!Pay
    <3> QED
      BY <2>2, <3>2, <3>3, OneMoreLine DEF Bucket!Pay
  <2>3. CASE Bucket!Refill
    BY <2>3 DEF Bucket!Refill
  <2>4. CASE Bucket!OpenWindow
    BY <2>4 DEF Bucket!OpenWindow
  <2>5. CASE UNCHANGED Bucket!bucketVars
    BY <2>5 DEF Bucket!bucketVars
  <2> QED
    BY <2>1, <2>2, <2>3, <2>4, <2>5 DEF Bucket!BucketNext
<1>3. QED
  BY <1>1, <1>2, BucketLevels, PTL DEF Bucket!BucketSpec

\* The bound itself: in any window, one burst beyond the rate at most.
THEOREM BucketWindow == Bucket!BucketSpec => []Bucket!WindowBound
<1>1. Bucket!BucketTypeOK /\ Bucket!BudgetInv => Bucket!WindowBound
  <2> SUFFICES ASSUME Bucket!BucketTypeOK, Bucket!BudgetInv PROVE Bucket!WindowBound
    OBVIOUS
  <2>1. used * Cost \in Nat
    BY OneMoreLine, BucketConstantsHold DEF Bucket!BucketConstants, Bucket!BucketTypeOK
  <2> QED
    BY <2>1, BucketConstantsHold
       DEF Bucket!BucketConstants, Bucket!BucketTypeOK, Bucket!BudgetInv, Bucket!WindowBound
<1>2. QED
  BY <1>1, BucketLevels, BucketBudget, PTL

(***************************************************************************)
(* The sender implements the token bucket: the lazily computed level is    *)
(* the level the bucket would keep at every tick, and each step of the     *)
(* sender is one step of the bucket or none.                               *)
(***************************************************************************)
THEOREM SenderRefinesBucket == SafetySpec => ImplementsTokenBucket
<1> USE CapacityProp
<1>1. Init => Bucket!BucketInit
  BY DEF Init, Bucket!BucketInit, Refilled, AtMost
<1>2. TypeOK /\ [Next]_vars => [Bucket!BucketNext]_(Bucket!bucketVars)
  <2> SUFFICES ASSUME BucketTypes, [Next]_vars
               PROVE  Bucket!BucketNext \/ UNCHANGED Bucket!bucketVars
    BY DEF TypeOK
  <2>0. Refilled \in 0 .. Capacity
    BY RefilledType
  <2>1. CASE QuietStep \/ UNCHANGED vars
    BY <2>1, QuietStepIsQuiet DEF Bucket!bucketVars, bucket, vars, Refilled, AtMost
  <2>2. CASE Start
    BY <2>2 DEF Start, BucketTypes, Refilled, AtMost, Bucket!BucketNext, Bucket!Refill
  <2>3. CASE TakeLine
    <3>1. CASE UNCHANGED <<tokens, lastRefill, used>>
      BY <2>3, <3>1 DEF TakeLine, Bucket!bucketVars, Refilled, AtMost
    <3>2. CASE PayOrSleep
      <4>1. CASE Refilled < Cost
        BY <2>0, <2>3, <3>2, <4>1
           DEF TakeLine, PayOrSleep, BucketTypes, Bucket!bucketVars, Refilled, AtMost
      <4>2. CASE ~(Refilled < Cost)
        <5>1. Refilled' = Refilled - Cost
          BY <2>0, <2>3, <3>2, <4>2 DEF TakeLine, PayOrSleep, BucketTypes, Refilled, AtMost
        <5>2. Bucket!Pay
          BY <2>0, <2>3, <3>2, <4>2, <5>1 DEF TakeLine, PayOrSleep, Bucket!Pay
        <5> QED
          BY <5>2 DEF Bucket!BucketNext
      <4> QED
        BY <4>1, <4>2
    <3> QED
      BY <2>3, <3>1, <3>2 DEF TakeLine
  <2>4. CASE EndSleep
    <3>1. Refilled >= Cost
      BY <2>4 DEF EndSleep, BucketTypes, Refilled, AtMost
    <3>2. Refilled' = 0
      BY <2>4 DEF EndSleep, BucketTypes, Refilled, AtMost
    <3>3. Bucket!Pay
      BY <2>0, <2>4, <3>1, <3>2 DEF EndSleep, Bucket!Pay
    <3> QED
      BY <3>3 DEF Bucket!BucketNext
  <2>5. CASE Tick
    <3>1. Refilled' = Bucket!Least(Capacity, Refilled + 1)
      BY <2>5 DEF Tick, BucketTypes, Refilled, AtMost, Bucket!Least
    <3> QED
      BY <2>5, <3>1 DEF Tick, Bucket!BucketNext, Bucket!Elapse
  <2>6. CASE OpenWindow
    <3>1. Refilled' = Refilled
      BY <2>6 DEF OpenWindow, Refilled, AtMost
    <3> QED
      BY <2>6, <3>1 DEF OpenWindow, Bucket!BucketNext, Bucket!OpenWindow
  <2> QED
    BY <2>1, <2>2, <2>3, <2>4, <2>5, <2>6 DEF Next, QuietStep
<1>3. QED
  BY <1>1, <1>2, TypeCorrect, PTL DEF SafetySpec, ImplementsTokenBucket, Bucket!BucketSpec

(***************************************************************************)
(* In any window of one connection, at most one burst more than the rate   *)
(* allows: the bound of the token bucket, carried over by the refinement.  *)
(***************************************************************************)
THEOREM SenderPacing == SafetySpec => []PacedWithinBudget
<1>1. Bucket!WindowBound => PacedWithinBudget
  BY DEF Bucket!WindowBound, PacedWithinBudget
<1>2. QED
  BY <1>1, BucketWindow, SenderRefinesBucket, PTL DEF ImplementsTokenBucket

-----------------------------------------------------------------------------
(***************************************************************************)
(* What callers are told.  A line is in one place at a time, and the state *)
(* of its call says in which: blocked, released, queued, held or written.  *)
(***************************************************************************)

\* No line twice in a sequence; Stopper is not a line.
Once(s) == \A i, j \in DOMAIN s : s[i] \in Lines /\ s[i] = s[j] => i = j

Wakeups == Lines \cup {Stopper}

Placed(l) ==
  /\ l \in ToSet(queue) => call[l] \in {"waiting", "cancelled"} /\ l \notin ToSet(wire)
  /\ l \in ToSet(putters) => call[l] = "putting" /\ l \notin ToSet(ready)
  /\ l \in ToSet(ready) => call[l] \in {"putting", "stale"}
  /\ l = held => /\ call[l] \in {"waiting", "cancelled"}
                 /\ l \notin ToSet(wire) /\ l \notin ToSet(queue)
  /\ l \in ToSet(wire) => call[l] \in {"sent", "waiting", "failed", "cancelled"}
  /\ call[l] = "sent" => l \in ToSet(wire)

LinesInv ==
  /\ Once(queue) /\ Once(putters) /\ Once(ready) /\ Once(wire)
  /\ \A l \in Lines : Placed(l)

LEMMA OnceAppend ==
  ASSUME NEW s \in Seq(Wakeups), NEW x \in Wakeups
  PROVE  /\ ToSet(Append(s, x)) = ToSet(s) \cup {x}
         /\ Once(s) /\ (x \in Lines => x \notin ToSet(s)) => Once(Append(s, x))
<1>1. /\ DOMAIN s = 1 .. Len(s) /\ DOMAIN Append(s, x) = 1 .. Len(s) + 1 /\ Len(s) \in Nat
      /\ \A i \in 1 .. Len(s) : Append(s, x)[i] = s[i]
      /\ Append(s, x)[Len(s) + 1] = x
  OBVIOUS
<1>2. \A i \in DOMAIN Append(s, x) : i \in DOMAIN s \/ i = Len(s) + 1
  BY <1>1
<1> HIDE DEF ToSet
<1>3. ToSet(Append(s, x)) = ToSet(s) \cup {x}
  BY <1>1, <1>2 DEF ToSet
<1>4. ASSUME Once(s), x \in Lines => x \notin ToSet(s) PROVE Once(Append(s, x))
  BY <1>1, <1>2, <1>4 DEF Once, ToSet
<1> QED
  BY <1>3, <1>4

LEMMA OnceTail ==
  ASSUME NEW s \in Seq(Wakeups), s # <<>>
  PROVE  /\ Tail(s) \in Seq(Wakeups) /\ Head(s) \in ToSet(s)
         /\ ToSet(Tail(s)) \subseteq ToSet(s)
         /\ Once(s) => Once(Tail(s)) /\ (Head(s) \in Lines => Head(s) \notin ToSet(Tail(s)))
<1>1. /\ Tail(s) \in Seq(Wakeups) /\ Head(s) = s[1] /\ 1 \in DOMAIN s
      /\ \A i \in DOMAIN Tail(s) : i + 1 \in DOMAIN s /\ i \in Nat \ {0} /\ Tail(s)[i] = s[i + 1]
  OBVIOUS
<1>2. Head(s) \in ToSet(s) /\ ToSet(Tail(s)) \subseteq ToSet(s)
  BY <1>1 DEF ToSet
<1>3. ASSUME Once(s) PROVE Once(Tail(s))
  <2>1. ASSUME NEW i \in DOMAIN Tail(s), NEW j \in DOMAIN Tail(s),
               Tail(s)[i] \in Lines, Tail(s)[i] = Tail(s)[j]
        PROVE  i = j
    <3>1. i + 1 = j + 1
      BY <1>1, <1>3, <2>1 DEF Once
    <3> QED
      BY <1>1, <3>1
  <2> QED
    BY <2>1 DEF Once
<1>4. ASSUME Once(s), Head(s) \in Lines PROVE Head(s) \notin ToSet(Tail(s))
  <2>1. ASSUME NEW i \in DOMAIN Tail(s), Tail(s)[i] = Head(s) PROVE FALSE
    <3>1. i + 1 = 1
      BY <1>1, <1>4, <2>1 DEF Once
    <3> QED
      BY <1>1, <3>1
  <2> QED
    BY <2>1 DEF ToSet
<1> QED
  BY <1>1, <1>2, <1>3, <1>4

LEMMA OnceConcat ==
  ASSUME NEW s \in Seq(Wakeups), NEW t \in Seq(Wakeups)
  PROVE  /\ s \o t \in Seq(Wakeups)
         /\ ToSet(s \o t) = ToSet(s) \cup ToSet(t)
         /\ Once(s) /\ Once(t) /\ Lines \cap ToSet(s) \cap ToSet(t) = {} => Once(s \o t)
<1> DEFINE u == s \o t
           n == Len(s)
<1>1. /\ u \in Seq(Wakeups) /\ n \in Nat
      /\ \A i \in DOMAIN u : i \in Nat
           /\ \/ i <= n /\ i \in DOMAIN s /\ u[i] = s[i]
              \/ i > n /\ i - n \in DOMAIN t /\ u[i] = t[i - n]
      /\ \A i \in DOMAIN s : i \in DOMAIN u /\ u[i] = s[i]
      /\ \A i \in DOMAIN t : i + n \in DOMAIN u /\ u[i + n] = t[i]
  OBVIOUS
<1> HIDE DEF u, n
<1>2. ToSet(u) = ToSet(s) \cup ToSet(t)
  BY <1>1 DEF ToSet
<1>3. ASSUME Once(s), Once(t), Lines \cap ToSet(s) \cap ToSet(t) = {},
             NEW i \in DOMAIN u, NEW j \in DOMAIN u, u[i] \in Lines, u[i] = u[j]
      PROVE  i = j
  <2>1. CASE i <= n /\ j <= n
    BY <1>1, <1>3, <2>1 DEF Once
  <2>2. CASE i > n /\ j > n
    <3>1. /\ i - n \in DOMAIN t /\ u[i] = t[i - n]
          /\ j - n \in DOMAIN t /\ u[j] = t[j - n]
      BY <1>1, <2>2
    <3>2. i - n = j - n
      BY <1>3, <3>1 DEF Once
    <3> QED
      BY <1>1, <3>2
  <2>3. ASSUME NEW x \in DOMAIN u, NEW y \in DOMAIN u, x <= n, y > n PROVE u[x] # u[y] \/ u[x] \notin Lines
    <3>1. x \in DOMAIN s /\ u[x] = s[x] /\ y - n \in DOMAIN t /\ u[y] = t[y - n]
      BY <1>1, <2>3
    <3>2. u[x] \in ToSet(s) /\ u[y] \in ToSet(t)
      BY <3>1 DEF ToSet
    <3> QED
      BY <1>3, <3>2
  <2> QED
    BY <1>1, <1>3, <2>1, <2>2, <2>3
<1>4. Once(s) /\ Once(t) /\ Lines \cap ToSet(s) \cap ToSet(t) = {} => Once(u)
  BY <1>3 DEF Once
<1> QED
  BY <1>1, <1>2, <1>4 DEF u

\* A sequence of lines cut at k, and with what lies between the parts left out.
LEMMA OnceCut ==
  ASSUME NEW s \in Seq(Lines), NEW k \in 0 .. Len(s), NEW m \in k .. Len(s), Once(s)
  PROVE  /\ SubSeq(s, 1, k) \in Seq(Lines) /\ SubSeq(s, m + 1, Len(s)) \in Seq(Lines)
         /\ Once(SubSeq(s, 1, k)) /\ Once(SubSeq(s, m + 1, Len(s)))
         /\ ToSet(SubSeq(s, 1, k)) \subseteq ToSet(s)
         /\ ToSet(SubSeq(s, m + 1, Len(s))) \subseteq ToSet(s)
         /\ ToSet(SubSeq(s, 1, k)) \cap ToSet(SubSeq(s, m + 1, Len(s))) = {}
         /\ \A i \in k + 1 .. m : /\ s[i] \notin ToSet(SubSeq(s, 1, k))
                                  /\ s[i] \notin ToSet(SubSeq(s, m + 1, Len(s)))
<1> DEFINE a == SubSeq(s, 1, k)
           b == SubSeq(s, m + 1, Len(s))
<1>1. /\ a \in Seq(Lines) /\ b \in Seq(Lines) /\ k \in Nat /\ m \in Nat /\ k <= m
      /\ \A i \in DOMAIN a : i \in DOMAIN s /\ i \in Nat /\ i <= k /\ a[i] = s[i]
      /\ \A i \in DOMAIN b : i + m \in DOMAIN s /\ i \in Nat \ {0} /\ b[i] = s[i + m]
      /\ \A i \in DOMAIN s : s[i] \in Lines
      /\ \A i \in k + 1 .. m : i \in DOMAIN s /\ i \in Nat
  OBVIOUS
<1> HIDE DEF a, b
<1>2. ToSet(a) \subseteq ToSet(s) /\ ToSet(b) \subseteq ToSet(s)
  BY <1>1 DEF ToSet
<1>3. Once(a)
  BY <1>1 DEF Once
<1>4. Once(b)
  <2>1. ASSUME NEW i \in DOMAIN b, NEW j \in DOMAIN b, b[i] = b[j] PROVE i = j
    <3>1. i + m = j + m
      BY <1>1, <2>1 DEF Once
    <3> QED
      BY <1>1, <3>1
  <2> QED
    BY <2>1 DEF Once
<1>5. ASSUME NEW i \in DOMAIN a, NEW j \in DOMAIN b, a[i] = b[j] PROVE FALSE
  <2>1. i = j + m
    BY <1>1, <1>5 DEF Once
  <2> QED
    BY <1>1, <2>1
<1>6. ToSet(a) \cap ToSet(b) = {}
  BY <1>5 DEF ToSet
<1>7. ASSUME NEW i \in k + 1 .. m PROVE s[i] \notin ToSet(a) /\ s[i] \notin ToSet(b)
  <2>1. ASSUME NEW j \in DOMAIN a, s[i] = a[j] PROVE FALSE
    <3>1. i = j
      BY <1>1, <2>1 DEF Once
    <3> QED
      BY <1>1, <3>1
  <2>2. ASSUME NEW j \in DOMAIN b, s[i] = b[j] PROVE FALSE
    <3>1. i = j + m
      BY <1>1, <2>2 DEF Once
    <3> QED
      BY <1>1, <3>1
  <2> QED
    BY <2>1, <2>2 DEF ToSet
<1> QED
  BY <1>1, <1>2, <1>3, <1>4, <1>6, <1>7 DEF a, b

LEMMA LinesAreWakeups ==
  ASSUME NEW s \in Seq(Lines)
  PROVE  s \in Seq(Wakeups) /\ ToSet(s) \subseteq Lines
BY DEF Wakeups, ToSet

\* Released put() calls move from one sequence to the other.
LEMMA ReleaseMoves ==
  ASSUME putters \in Seq(Lines), NEW n \in Nat,
         NEW before \in Seq(Wakeups), NEW after \in Seq(Wakeups),
         Once(putters), Once(before), Once(after), ToSet(after) \cap Lines = {},
         ToSet(before) \cap ToSet(putters) = {},
         Release(n, before, after)
  PROVE  /\ Once(putters') /\ Once(ready')
         /\ ToSet(putters') \subseteq ToSet(putters)
         /\ Lines \cap ToSet(ready') \subseteq ToSet(before) \cup ToSet(putters)
         /\ ToSet(putters') \cap ToSet(ready') = {}
<1> DEFINE k == AtMost(n, Len(putters))
           freed == SubSeq(putters, 1, k)
           left == SubSeq(putters, k + 1, Len(putters))
<1>1. k \in 0 .. Len(putters) /\ k \in k .. Len(putters)
  BY DEF AtMost
<1> HIDE DEF k
<1>2. /\ freed \in Seq(Lines) /\ left \in Seq(Lines) /\ Once(freed) /\ Once(left)
      /\ ToSet(freed) \subseteq ToSet(putters) /\ ToSet(left) \subseteq ToSet(putters)
      /\ ToSet(freed) \cap ToSet(left) = {}
  BY <1>1, OnceCut
<1> HIDE DEF freed, left
<1>3. freed \in Seq(Wakeups) /\ ToSet(left) \subseteq Lines
  BY <1>2, LinesAreWakeups
<1>4. /\ before \o freed \in Seq(Wakeups) /\ Once(before \o freed)
      /\ ToSet(before \o freed) = ToSet(before) \cup ToSet(freed)
  BY <1>2, <1>3, OnceConcat
<1>5. /\ Once(before \o freed \o after)
      /\ ToSet(before \o freed \o after) = ToSet(before) \cup ToSet(freed) \cup ToSet(after)
  BY <1>4, OnceConcat
<1>6. ready' = before \o freed \o after /\ putters' = left
  BY DEF Release, k, freed, left
<1> QED
  BY <1>2, <1>3, <1>5, <1>6

LEMMA PlainReleaseMoves ==
  ASSUME QueueTypes, LinesInv, NEW n \in Nat, Release(n, ready, <<>>)
  PROVE  /\ Once(putters') /\ Once(ready')
         /\ ToSet(putters') \subseteq ToSet(putters)
         /\ Lines \cap ToSet(ready') \subseteq ToSet(ready) \cup ToSet(putters)
         /\ ToSet(putters') \cap ToSet(ready') = {}
<1>1. <<>> \in Seq(Wakeups) /\ Once(<<>>) /\ ToSet(<<>>) = {}
  BY DEF Once, ToSet
<1>2. putters \in Seq(Lines) /\ ready \in Seq(Wakeups)
  BY DEF QueueTypes, Wakeups
<1>3. ToSet(ready) \cap ToSet(putters) = {}
  BY <1>2, LinesAreWakeups DEF LinesInv, Placed
<1> QED
  BY <1>1, <1>2, <1>3, ReleaseMoves DEF LinesInv

\* stop() forgets the queue: what was blocked is stale, what was queued failed.
LEMMA DetachLines ==
  ASSUME QueueTypes, CallTypes, LinesInv, NEW rest \in Seq(Wakeups), Once(rest),
         ToSet(rest) \subseteq ToSet(ready),
         Detach(rest), UNCHANGED wire
  PROVE  LinesInv'
<1> DEFINE k == AtMost(Len(queue), Len(putters))
           freed == SubSeq(putters, 1, k)
<1>1. k \in 0 .. Len(putters) /\ Len(putters) \in k .. Len(putters)
  BY DEF AtMost, QueueTypes
<1>2. putters \in Seq(Lines) /\ Once(putters)
  BY DEF QueueTypes, LinesInv
<1> HIDE DEF k
<1>3. freed \in Seq(Lines) /\ Once(freed) /\ ToSet(freed) \subseteq ToSet(putters)
  BY <1>1, <1>2, OnceCut
<1> HIDE DEF freed
<1>4. freed \in Seq(Wakeups) /\ ToSet(putters) \subseteq Lines
  BY <1>2, <1>3, LinesAreWakeups
<1>5. ToSet(rest) \cap ToSet(freed) = {}
  BY <1>3, <1>4 DEF LinesInv, Placed
<1>6. Once(rest \o freed) /\ ToSet(rest \o freed) = ToSet(rest) \cup ToSet(freed)
  BY <1>3, <1>4, <1>5, OnceConcat
<1>7. ready' = rest \o freed /\ queue' = <<>> /\ putters' = <<>> /\ held' = None
  BY DEF Detach, k, freed
<1>8. Once(<<>>) /\ ToSet(<<>>) = {}
  BY DEF Once, ToSet
<1>9. ASSUME NEW l \in Lines PROVE Placed(l)'
  <2>1. call'[l] = IF l \in ToSet(putters) \cup ToSet(rest) THEN "stale"
                   ELSE IF l \in ToSet(queue) /\ call[l] = "waiting" THEN "failed" ELSE call[l]
    BY DEF Detach, FailResults, QueuedLines
  <2>2. Placed(l)
    BY DEF LinesInv
  <2> QED
    BY <1>3, <1>6, <1>7, <1>8, <2>1, <2>2, SenderAssumption DEF Placed
<1> QED
  BY <1>6, <1>7, <1>8, <1>9 DEF LinesInv

-----------------------------------------------------------------------------
LEMMA SendLines ==
  ASSUME TypeOK, LinesInv, NEW l \in Lines,
         Send(l) \/ SendDirect(l) \/ GiveUpBlocked(l) \/ CancelWaiting(l)
  PROVE  LinesInv'
<1> USE DEF TypeOK, CallTypes
<1>0. /\ queue \in Seq(Wakeups) /\ putters \in Seq(Wakeups) /\ wire \in Seq(Wakeups)
      /\ l \in Wakeups /\ call[l] \in CallStates
  BY LinesAreWakeups DEF QueueTypes, RunTypes, Wakeups
<1>1. Placed(l) /\ Once(queue) /\ Once(putters) /\ Once(ready) /\ Once(wire)
  BY DEF LinesInv
<1>2. CASE Send(l)
  <2>1. l \notin ToSet(queue) /\ l \notin ToSet(putters) /\ l \notin ToSet(wire)
    BY <1>1, <1>2 DEF Send, Placed
  <2>2. /\ Once(Append(queue, l)) /\ ToSet(Append(queue, l)) = ToSet(queue) \cup {l}
        /\ Once(Append(putters, l)) /\ ToSet(Append(putters, l)) = ToSet(putters) \cup {l}
    BY <1>0, <1>1, <2>1, OnceAppend
  <2>3. ASSUME NEW m \in Lines PROVE Placed(m)'
    BY <1>1, <1>2, <2>1, <2>2 DEF Send, LinesInv, Placed
  <2> QED
    BY <1>1, <1>2, <2>2, <2>3 DEF Send, LinesInv
<1>3. CASE SendDirect(l)
  <2>1. l \notin ToSet(wire)
    BY <1>1, <1>3 DEF SendDirect, Placed
  <2>2. Once(Append(wire, l)) /\ ToSet(Append(wire, l)) = ToSet(wire) \cup {l}
    BY <1>0, <1>1, <2>1, OnceAppend
  <2>3. ASSUME NEW m \in Lines PROVE Placed(m)'
    BY <1>1, <1>3, <2>1, <2>2 DEF SendDirect, LinesInv, Placed
  <2> QED
    BY <1>1, <1>3, <2>2, <2>3 DEF SendDirect, LinesInv
<1>4. CASE GiveUpBlocked(l)
  <2>1. /\ Once(putters') /\ ToSet(putters') \subseteq ToSet(putters) \ {l}
        /\ l \notin ToSet(ready) /\ call[l] \in {"putting", "stale"}
    <3>1. ASSUME NEW i \in 1 .. Len(putters), putters[i] = l, putters' = RemoveAt(putters, i)
          PROVE  /\ Once(putters') /\ ToSet(putters') \subseteq ToSet(putters) \ {l}
                 /\ l \in ToSet(putters)
      <4> DEFINE a == SubSeq(putters, 1, i - 1)
                 b == SubSeq(putters, i + 1, Len(putters))
      <4>0. putters \in Seq(Lines)
        BY DEF QueueTypes
      <4>1. i - 1 \in 0 .. Len(putters) /\ i \in i - 1 .. Len(putters) /\ i \in i - 1 + 1 .. i
        BY <4>0
      <4>2. /\ a \in Seq(Lines) /\ b \in Seq(Lines) /\ Once(a) /\ Once(b)
            /\ ToSet(a) \subseteq ToSet(putters) /\ ToSet(b) \subseteq ToSet(putters)
            /\ ToSet(a) \cap ToSet(b) = {}
            /\ putters[i] \notin ToSet(a) /\ putters[i] \notin ToSet(b)
        BY <1>1, <4>0, <4>1, OnceCut
      <4> HIDE DEF a, b
      <4>3. Once(a \o b) /\ ToSet(a \o b) = ToSet(a) \cup ToSet(b)
        BY <4>2, LinesAreWakeups, OnceConcat
      <4>4. putters' = a \o b
        BY <3>1 DEF RemoveAt, a, b
      <4>5. l \in ToSet(putters)
        BY <3>1, <4>0 DEF ToSet
      <4> QED
        BY <3>1, <4>2, <4>3, <4>4, <4>5
    <3>2. CASE l \in BlockedStale /\ UNCHANGED putters
      BY <1>1, <3>2 DEF BlockedStale, Placed
    <3> QED
      BY <1>1, <1>4, <3>1, <3>2 DEF GiveUpBlocked, Placed
  <2>2. PICK end \in {"full", "cancelled"} : call' = [call EXCEPT ![l] = end]
    BY <1>4 DEF GiveUpBlocked
  <2>3. UNCHANGED <<queue, ready, wire, held>>
    BY <1>4 DEF GiveUpBlocked
  <2>4. ASSUME NEW m \in Lines PROVE Placed(m)'
    BY <1>1, <2>1, <2>2, <2>3 DEF LinesInv, Placed
  <2> QED
    BY <1>1, <2>1, <2>3, <2>4 DEF LinesInv
<1>5. CASE CancelWaiting(l)
  <2>1. ASSUME NEW m \in Lines PROVE Placed(m)'
    BY <1>1, <1>5 DEF CancelWaiting, LinesInv, Placed
  <2> QED
    BY <1>1, <1>5, <2>1 DEF CancelWaiting, LinesInv
<1> QED
  BY <1>2, <1>3, <1>4, <1>5

LEMMA WakeupLines ==
  ASSUME TypeOK, LinesInv, ResumePut \/ GiveUpReleased
  PROVE  LinesInv'
<1> DEFINE l == Head(ready)
<1> USE DEF TypeOK, CallTypes
<1>0. /\ queue \in Seq(Wakeups) /\ putters \in Seq(Wakeups) /\ ready \in Seq(Wakeups)
      /\ putters \in Seq(Lines) /\ ToSet(putters) \subseteq Lines
  BY LinesAreWakeups DEF QueueTypes, Wakeups
<1>1. /\ Tail(ready) \in Seq(Wakeups) /\ l \in Lines /\ l \in ToSet(ready)
      /\ ToSet(Tail(ready)) \subseteq ToSet(ready) \ {l} /\ Once(Tail(ready))
  <2>1. ready # <<>> /\ Head(ready) # Stopper
    BY DEF ResumePut, GiveUpReleased
  <2>2. Head(ready) \in Wakeups
    BY <1>0, <2>1
  <2> QED
    BY <1>0, <2>1, <2>2, OnceTail DEF LinesInv, Wakeups
<1>2. Once(queue) /\ Once(putters) /\ Once(wire) /\ Placed(l)
  BY <1>1 DEF LinesInv
<1>3. /\ call[l] \in {"putting", "stale"} /\ l \in Wakeups
      /\ l \notin ToSet(queue) /\ l \notin ToSet(putters) /\ l \notin ToSet(wire) /\ l # held
  BY <1>1, <1>2 DEF Placed, Wakeups
<1> HIDE DEF l
<1>4. CASE ResumePut
  <2>1. /\ Once(Append(queue, l)) /\ ToSet(Append(queue, l)) = ToSet(queue) \cup {l}
        /\ Once(Append(putters, l)) /\ ToSet(Append(putters, l)) = ToSet(putters) \cup {l}
    BY <1>0, <1>2, <1>3, OnceAppend
  <2>2. ready' = Tail(ready) /\ UNCHANGED <<wire, held>>
    BY <1>4 DEF ResumePut
  <2>3. \/ /\ queue' \in {queue, Append(queue, l)} /\ UNCHANGED putters
           /\ call' = [call EXCEPT ![l] = "waiting"]
        \/ putters' = Append(putters, l) /\ UNCHANGED <<queue, call>> /\ call[l] # "stale"
    BY <1>4 DEF ResumePut, l
  <2>4. ASSUME NEW m \in Lines PROVE Placed(m)'
    <3>1. Placed(m)
      BY DEF LinesInv
    <3> QED
      BY <1>1, <1>3, <2>1, <2>2, <2>3, <3>1 DEF Placed
  <2> QED
    BY <1>1, <1>2, <2>1, <2>2, <2>3, <2>4 DEF LinesInv
<1>5. CASE GiveUpReleased
  <2>1. PICK end \in {"full", "cancelled"} : call' = [call EXCEPT ![l] = end]
    BY <1>5 DEF GiveUpReleased, l
  <2>2. UNCHANGED <<queue, wire, held>>
    BY <1>5 DEF GiveUpReleased
  <2> DEFINE Moved ==
        /\ Once(putters') /\ Once(ready') /\ ToSet(putters') \subseteq ToSet(putters)
        /\ ToSet(putters') \cap ToSet(ready') = {}
        /\ \A m \in Lines : m \in ToSet(ready') => m # l /\ call[m] \in {"putting", "stale"}
  <2>3. Moved
    <3>0. ToSet(putters) \cap ToSet(Tail(ready)) = {}
      BY <1>0, <1>1 DEF LinesInv, Placed
    <3>1. CASE UNCHANGED putters /\ ready' = Tail(ready)
      BY <1>1, <1>2, <3>0, <3>1 DEF LinesInv, Placed
    <3>2. ASSUME UNCHANGED putters, NEW heir \in BlockedStale, ready' = Append(Tail(ready), heir)
          PROVE  Moved
      <4>1. /\ heir \in Lines /\ heir \in Wakeups /\ call[heir] = "stale"
            /\ heir \notin ToSet(ready) /\ heir \notin ToSet(putters)
        BY DEF BlockedStale, Wakeups, LinesInv, Placed
      <4>2. Once(ready') /\ ToSet(ready') = ToSet(Tail(ready)) \cup {heir}
        BY <1>1, <3>2, <4>1, OnceAppend
      <4> QED
        BY <1>1, <1>2, <3>0, <3>2, <4>1, <4>2 DEF LinesInv, Placed
    <3>3. CASE Release(IF Len(queue) < QueueSize THEN 1 ELSE 0, Tail(ready), <<>>)
      <4>1. <<>> \in Seq(Wakeups) /\ Once(<<>>) /\ ToSet(<<>>) = {}
        BY DEF Once, ToSet
      <4>2. (IF Len(queue) < QueueSize THEN 1 ELSE 0) \in Nat
        OBVIOUS
      <4>3. /\ Once(putters') /\ Once(ready') /\ ToSet(putters') \subseteq ToSet(putters)
            /\ Lines \cap ToSet(ready') \subseteq ToSet(Tail(ready)) \cup ToSet(putters)
            /\ ToSet(putters') \cap ToSet(ready') = {}
        BY <1>0, <1>1, <1>2, <3>0, <3>3, <4>1, <4>2, ReleaseMoves
      <4> QED
        BY <1>1, <1>3, <4>3 DEF LinesInv, Placed
    <3> QED
      BY <1>5, <3>1, <3>2, <3>3 DEF GiveUpReleased
  <2>4. ASSUME NEW m \in Lines PROVE Placed(m)'
    <3>1. Placed(m)
      BY DEF LinesInv
    <3> QED
      BY <1>3, <2>1, <2>2, <2>3, <3>1 DEF Placed
  <2> QED
    BY <1>2, <2>2, <2>3, <2>4 DEF LinesInv
<1> QED
  BY <1>4, <1>5

\* _run() takes a line, writes it, fails or is cancelled with it in its hand.
LEMMA RunLines ==
  ASSUME TypeOK, LinesInv, TakeLine \/ WriteLine \/ WriteFails \/ CancelRun
  PROVE  LinesInv'
<1> USE SenderAssumption DEF TypeOK, CallTypes
<1>0. /\ queue \in Seq(Wakeups) /\ wire \in Seq(Wakeups) /\ Len(queue) \in Nat
      /\ Lines \subseteq Wakeups
  BY LinesAreWakeups DEF QueueTypes, RunTypes, Wakeups
<1>1. Once(queue) /\ Once(wire) /\ \A m \in Lines : Placed(m)
  BY DEF LinesInv
<1>2. CASE TakeLine
  <2> DEFINE l == Head(queue)
  <2>1. /\ Once(Tail(queue)) /\ ToSet(Tail(queue)) \subseteq ToSet(queue) \ {l}
        /\ l \in Lines /\ l \in ToSet(queue)
    BY <1>0, <1>1, <1>2, HeadsAndTails, OnceTail DEF TakeLine
  <2>2. /\ Once(putters') /\ Once(ready') /\ ToSet(putters') \subseteq ToSet(putters)
        /\ Lines \cap ToSet(ready') \subseteq ToSet(ready) \cup ToSet(putters)
        /\ ToSet(putters') \cap ToSet(ready') = {}
    BY <1>2, PlainReleaseMoves DEF TakeLine
  <2>3. queue' = Tail(queue) /\ UNCHANGED <<call, wire>> /\ held' \in {held, l}
    BY <1>2 DEF TakeLine, PayOrSleep
  <2> HIDE DEF l
  <2>4. ASSUME NEW m \in Lines PROVE Placed(m)'
    BY <1>1, <2>1, <2>2, <2>3 DEF Placed
  <2> QED
    BY <1>1, <2>1, <2>2, <2>3, <2>4 DEF LinesInv
<1>3. ASSUME task = "write"
      PROVE  /\ held \in Lines /\ call[held] \in {"waiting", "cancelled"}
             /\ held \notin ToSet(queue)
             /\ Once(Append(wire, held)) /\ ToSet(Append(wire, held)) = ToSet(wire) \cup {held}
  <2>1. held \in Lines
    BY <1>3 DEF RunTypes
  <2>2. /\ call[held] \in {"waiting", "cancelled"}
        /\ held \notin ToSet(wire) /\ held \notin ToSet(queue)
    BY <1>1, <2>1 DEF Placed
  <2> QED
    BY <1>0, <1>1, <2>1, <2>2, OnceAppend
<1>4. CASE WriteLine
  <2>1. /\ wire' = Append(wire, held) /\ held' = None /\ UNCHANGED <<queue, putters, ready>>
        /\ call' = [call EXCEPT ![held] = IF @ = "waiting" THEN "sent" ELSE @]
        /\ task = "write"
    BY <1>4 DEF WriteLine
  <2>2. ASSUME NEW m \in Lines PROVE Placed(m)'
    BY <1>1, <1>3, <2>1 DEF Placed
  <2> QED
    BY <1>3, <2>1, <2>2 DEF LinesInv
<1>5. ASSUME queue' = <<>>, held' = None,
             \/ wire' = wire
             \/ task = "write" /\ wire' = Append(wire, held),
             call' \in {FailResults(QueuedLines), FailResults(QueuedLines \cup {held})},
             /\ Once(putters') /\ Once(ready') /\ ToSet(putters') \subseteq ToSet(putters)
             /\ Lines \cap ToSet(ready') \subseteq ToSet(ready) \cup ToSet(putters)
             /\ ToSet(putters') \cap ToSet(ready') = {}
      PROVE  LinesInv'
  <2>1. Once(queue') /\ ToSet(queue') = {}
    BY <1>5 DEF Once, ToSet
  <2>2. Once(wire')
    BY <1>1, <1>3, <1>5
  <2>3. \A m \in Lines : \/ call'[m] = call[m]
                         \/ call[m] = "waiting" /\ call'[m] = "failed"
    BY <1>5 DEF FailResults
  <2>4. ASSUME NEW m \in Lines PROVE Placed(m)'
    <3>1. CASE wire' = wire
      BY <1>1, <1>5, <2>1, <2>3, <3>1 DEF Placed
    <3>2. CASE task = "write" /\ wire' = Append(wire, held)
      BY <1>1, <1>3, <1>5, <2>1, <2>3, <3>2 DEF Placed
    <3> QED
      BY <1>5, <3>1, <3>2
  <2> QED
    BY <1>5, <2>1, <2>2, <2>4 DEF LinesInv
<1>6. CASE WriteFails
  BY <1>0, <1>5, <1>6, PlainReleaseMoves DEF WriteFails, MaybeWritten
<1>7. CASE CancelRun
  <2>1. /\ <<Stopper>> \in Seq(Wakeups) /\ Once(<<Stopper>>)
        /\ ToSet(<<Stopper>>) \cap Lines = {}
    BY DEF Wakeups, Once, ToSet
  <2>2. /\ putters \in Seq(Lines) /\ ready \in Seq(Wakeups) /\ Once(putters) /\ Once(ready)
        /\ ToSet(ready) \cap ToSet(putters) = {}
    BY LinesAreWakeups DEF QueueTypes, Wakeups, LinesInv, Placed
  <2>3. /\ Once(putters') /\ Once(ready') /\ ToSet(putters') \subseteq ToSet(putters)
        /\ Lines \cap ToSet(ready') \subseteq ToSet(ready) \cup ToSet(putters)
        /\ ToSet(putters') \cap ToSet(ready') = {}
    BY <1>0, <1>7, <2>1, <2>2, ReleaseMoves DEF CancelRun
  <2> QED
    BY <1>5, <1>7, <2>3 DEF CancelRun, MaybeWritten
<1> QED
  BY <1>2, <1>4, <1>6, <1>7

LEMMA LinesStep == TypeOK /\ LinesInv /\ [Next]_vars => LinesInv'
<1> SUFFICES ASSUME TypeOK, LinesInv, [Next]_vars PROVE LinesInv'
  OBVIOUS
<1>1. CASE StopAfterFailure \/ StopFinish
  <2>1. ready \in Seq(Wakeups) /\ Once(ready)
    BY DEF TypeOK, QueueTypes, LinesInv, Wakeups
  <2>2. CASE StopAfterFailure
    BY <2>1, <2>2, DetachLines DEF StopAfterFailure, TypeOK
  <2>3. CASE StopFinish
    BY <2>1, <2>3, OnceTail, DetachLines DEF StopFinish, TypeOK
  <2> QED
    BY <1>1, <2>2, <2>3
<1>2. CASE Start \/ EndSleep \/ StopRequest \/ Tick \/ OpenWindow \/ UNCHANGED vars
  BY <1>2 DEF Start, EndSleep, StopRequest, Tick, OpenWindow, callVars, vars, LinesInv, Placed
<1> QED
  BY <1>1, <1>2, SendLines, WakeupLines, RunLines DEF Next

(***************************************************************************)
(* For any number of callers and any size of the queue: no line is twice   *)
(* in the stream, a send() that returned has its line there, and one that  *)
(* was told `full', or still waits for a place, has not.                   *)
(***************************************************************************)
THEOREM ResultsAreTrue == SafetySpec => []ResultsTellTheWire
<1>1. Init => LinesInv
  <2> SUFFICES ASSUME Init PROVE LinesInv
    OBVIOUS
  <2>1. Once(<<>>) /\ ToSet(<<>>) = {}
    BY DEF Once, ToSet
  <2> QED
    BY <2>1, SenderAssumption DEF Init, LinesInv, Placed
<1>2. TypeOK /\ LinesInv => ResultsTellTheWire
  <2> SUFFICES ASSUME TypeOK, LinesInv PROVE ResultsTellTheWire
    OBVIOUS
  <2>1. wire \in Seq(Lines)
    BY DEF TypeOK, RunTypes
  <2>2. \A i, j \in 1 .. Len(wire) : wire[i] = wire[j] => i = j
    BY <2>1 DEF LinesInv, Once
  <2>3. \A l \in Lines : (\E i \in 1 .. Len(wire) : wire[i] = l) <=> l \in ToSet(wire)
    BY <2>1 DEF ToSet
  <2> QED
    BY <2>2, <2>3 DEF ResultsTellTheWire, LinesInv, Placed
<1>3. QED
  BY <1>1, <1>2, LinesStep, TypeCorrect, PTL DEF SafetySpec
=============================================================================
