----------------------------- MODULE HandoffProofs -----------------------------
(****************************************************************************)
(* Proofs about Handoff, for any set of conditions.  The inductive          *)
(* invariant is a conjunction of parts; each part says what is known at a   *)
(* place of a thread, in terms of what the other threads can no longer do.  *)
(****************************************************************************)
EXTENDS Handoff, TLAPS

(* Places by what a thread has behind it.                                   *)

\* A's places once it has seen a flag, in the order of its program.
AAsked == {"query", "await_done", "post_query", "finish", "wait_done",
           "destroy_begin", "destroy", "destroyed", "not_destroyed", "release", "finished"}
AStarted == AAsked \union {"await_invalidate"}
ALaunched == AStarted \union {"await_marker", "start_stamp", "announce"}
AArmed == ALaunched \union {"launch_stamp", "launch"}

AQueried == AAsked \ {"query"}
ALeft == {"catch", "failed"}

\* B's places once it has been released, launched, completed or announced.
BAnnounced == {"verify", "finished"}
BCompleted == BAnnounced \union {"announce_done"}
BSynced    == BCompleted \union {"complete_stamp"}
BStamped   == BSynced \union {"launch", "synchronize"}
BReleased  == BStamped \union {"launch_stamp"}

CAsked   == {"go", "get_a", "get_b", "report", "returned"}
CStarted == {"wait_delay", "invalidate_stamp", "invalidate", "go"}

--------------------------------------------------------------------------------
(* The inductive invariant.                                                 *)

\* No stamp is ahead of the clock.
ClockInv ==
  /\ s.b_ready <= clock /\ s.a_launch <= clock /\ s.a_start_observed <= clock
  /\ s.invalidate <= clock /\ s.destroy_begin <= clock /\ s.destroy_return <= clock
  /\ s.b_launch <= clock /\ s.b_complete <= clock /\ s.a_post_b_query_end <= clock
  /\ completed <= clock

\* A flag is up only after its thread raised it, and a thread is past a wait
\* only when the flag is up.
FlagInv ==
  /\ signals.b_armed => pc.B \notin {"ready", "arm"}
  /\ signals.a_started => pc.A \in AStarted \union ALeft \union {"abandoned"}
  /\ signals.invalidate => pc.C \in CAsked
  /\ signals.b_go => signals.invalidate
  /\ signals.b_go /\ ~keep_a => pc.A = "finished"
  /\ signals.b_done => pc.B \in BAnnounced \union {"catch", "failed"}
  /\ pc.A \in AArmed => signals.b_armed
  /\ pc.C \in CStarted => signals.a_started
  /\ pc.A \in AAsked => signals.invalidate
  /\ pc.B \in BReleased => signals.b_go
  /\ pc.A \in {"post_query", "finish"} => signals.b_done
  /\ signals.b_go /\ keep_a => pc.C \in {"get_a", "get_b", "report", "returned"}
  /\ pc.C = "go" => signals.invalidate
  /\ signals.invalidate => signals.a_started

\* A takes only the branch of its condition.
BranchInv ==
  /\ idle => pc.A \notin {"launch_stamp", "launch", "await_marker", "start_stamp",
                          "finish"}
  /\ keep_a => pc.A \notin {"wait_done", "destroy_begin", "destroy",
                            "destroyed", "not_destroyed", "release"}
  /\ ~keep_a => pc.A \notin {"await_done", "post_query", "finish"}
  /\ condition # "wait-then-destroy" => pc.A # "wait_done"
  /\ pc.C = "go" => keep_a

\* The stamps takeover compares are in order as soon as both are set.
OrderInv ==
  /\ ~idle /\ pc.A \in ALaunched \union {"launch"} => s.b_ready <= s.a_launch
  /\ pc.C \in {"invalidate"} \/ signals.invalidate => s.a_start_observed <= s.invalidate
  /\ pc.B \in BStamped => s.invalidate <= s.b_launch
  /\ pc.B \in BCompleted => s.b_launch <= s.b_complete /\ s.b_complete # 0
  /\ ~keep_a /\ pc.A \in {"destroy", "destroyed", "not_destroyed", "release", "finished"} =>
       s.invalidate <= s.destroy_begin
  /\ ~keep_a /\ pc.A \in {"release", "finished"} => s.destroy_begin <= s.destroy_return
  /\ ~keep_a /\ pc.B \in BStamped => s.destroy_return <= s.b_launch
  /\ keep_a => s.destroy_begin = 0 /\ s.destroy_return = 0 /\ ctx
  /\ keep_a /\ pc.A \in {"finish", "finished"} =>
       /\ s.a_alive_after_b = "yes" /\ s.b_complete <= s.a_post_b_query_begin
       /\ s.a_post_b_query_begin <= s.a_post_b_query_end
  /\ pc.A = "finished" /\ keep_a => signals.b_done

\* What is known of the kernels where the threads stand.
KernelInv ==
  /\ idle => kernel.A = "done"
  /\ kernel.A = "killed" => condition = "destroy" /\ pc.A \in
       {"destroyed", "release", "finished"} \union ALeft
  /\ condition = "wait-then-destroy" /\ pc.A \in
       {"destroy_begin", "destroy", "destroyed", "not_destroyed", "release"} =>
       kernel.A = "done"
  /\ ~keep_a /\ pc.A \in {"destroyed", "release", "finished"} => kernel.A \notin Busy
  /\ ~keep_a /\ pc.A \in {"release", "finished"} => s.destroy_result = "success"
  /\ ~(pc.A \in {"release", "finished"} \union ALeft) \/ keep_a =>
       s.destroy_result = "unset"
  /\ keep_a /\ pc.A = "finished" => kernel.A = "done"
  /\ kernel.B \in Busy => signals.b_go
  /\ pc.B \in BSynced => kernel.B = "done"
  /\ kernel.A # "done" => completed = 0
  /\ ~idle /\ pc.A \in ALaunched /\ kernel.A = "done" => completed # 0
  /\ pc.A \in {"await_armed", "launch_stamp", "launch"} =>
       kernel.A = "done" /\ completed = 0

\* What A recorded of its event agrees with when its kernel completed.
QueryInv ==
  /\ idle => s.a_pending # "yes" /\ s.a_pending_after_b # "yes"
  /\ pc.A \in AQueried => s.a_pending # "unset"
  /\ pc.A \in AQueried /\ s.a_pending = "yes" =>
       completed = 0 \/ completed > s.invalidate
  /\ ~(pc.A \in {"finish", "finished"} \union ALeft) => s.a_pending_after_b = "unset"
  /\ ~keep_a => s.a_pending_after_b = "unset"
  /\ pc.A \in {"finish", "finished"} /\ s.a_pending_after_b = "yes" =>
       completed = 0 \/ completed > s.b_complete

\* Nobody gives up quietly: a cancellation has a thread whose failure is on its
\* way to the caller, and the controller collects it.
ErrorInv ==
  /\ signals.cancelled => pc.A = "failed" \/ pc.B = "failed" \/ error = "C"
  /\ pc.A = "abandoned" \/ pc.B = "abandoned" => signals.cancelled
  /\ pc.C \in CAsked => signals.invalidate \/ signals.cancelled
  /\ error = "A" => pc.A = "failed"
  /\ error = "B" => pc.B = "failed"
  /\ error # "none" => pc.C \in {"get_a", "get_b", "report", "returned"}
  /\ pc.C \in {"get_b", "report", "returned"} =>
       Settled("A") /\ (pc.A = "failed" => error = "A")
  /\ pc.C \in {"report", "returned"} =>
       Settled("B") /\ (pc.B = "failed" => error # "none")
  /\ result # "none" <=> pc.C = "returned"
  /\ result = "error" <=> pc.C = "returned" /\ error # "none"

\* How the call returned, when it did.
ResultInv ==
  /\ ChecksNeverFire
  /\ result = "ok" /\ ~idle => s.a_pending = "yes"

Shape ==
  /\ ClockInv
  /\ FlagInv
  /\ BranchInv
  /\ OrderInv
  /\ KernelInv
  /\ QueryInv
  /\ ErrorInv
  /\ ResultInv

IInv == TypeOK /\ Shape

\* The steps that are not of one thread's program.
OtherStep ==
  \/ Throw \/ AThrowInDestroy
  \/ \E th \in Owners : OwnerCatch(th)
  \/ \E k \in Owners : GpuStep(k)

--------------------------------------------------------------------------------
(* Every step keeps the types.                                              *)

USE DEF TypeOK, Sample, Kernels, Places, Results, Answers, Flags, Goto, Stamp,
       Raise, Await, sideEffects, reports, quiet, idle, keep_a, Busy, Settled

LEMMA BStepType == ASSUME TypeOK, BStep PROVE TypeOK'
<1>1. CASE BReady
  BY <1>1 DEF BReady
<1>2. CASE BArm
  BY <1>2 DEF BArm
<1>3. CASE BAwaitGo
  BY <1>3 DEF BAwaitGo
<1>4. CASE BLaunchStamp
  BY <1>4 DEF BLaunchStamp
<1>5. CASE BLaunch
  BY <1>5 DEF BLaunch
<1>6. CASE BSynchronize
  BY <1>6 DEF BSynchronize
<1>7. CASE BComplete
  BY <1>7 DEF BComplete
<1>8. CASE BAnnounceDone
  BY <1>8 DEF BAnnounceDone
<1>9. CASE BVerify
  BY <1>9 DEF BVerify
<1> QED
  BY <1>1, <1>2, <1>3, <1>4, <1>5, <1>6, <1>7, <1>8, <1>9 DEF BStep

LEMMA AStepType == ASSUME TypeOK, AStep PROVE TypeOK'
<1>1. CASE AAwaitArmed
  BY <1>1 DEF AAwaitArmed
<1>2. CASE ALaunchStamp
  BY <1>2 DEF ALaunchStamp
<1>3. CASE ALaunch
  BY <1>3 DEF ALaunch
<1>4. CASE AAwaitMarker
  BY <1>4 DEF AAwaitMarker
<1>5. CASE AStartStamp
  BY <1>5 DEF AStartStamp
<1>6. CASE AAnnounce
  BY <1>6 DEF AAnnounce
<1>7. CASE AAwaitInvalidate
  BY <1>7 DEF AAwaitInvalidate
<1>8. CASE AQuery
  BY <1>8 DEF AQuery, EventPending
<1>9. CASE AAwaitDone
  BY <1>9 DEF AAwaitDone
<1>10. CASE APostQuery
  <2>1. EventPending \in Answers /\ clock + 1 \in Nat /\ clock + 2 \in Nat
    BY <1>10 DEF APostQuery, EventPending
  <2>2. (IF ctx THEN "yes" ELSE "no") \in Answers
    OBVIOUS
  <2>3. s' \in Sample
    BY ONLY <1>10, <2>1, <2>2, s \in Sample DEF APostQuery, Sample, Answers
  <2>4. pc' \in [A : Places.A, B : Places.B, C : Places.C] /\ clock' \in Nat
    BY <1>10 DEF APostQuery
  <2> QED
    BY <1>10, <2>3, <2>4 DEF APostQuery
<1>11. CASE AFinish
  BY <1>11 DEF AFinish
<1>12. CASE AWaitDone
  BY <1>12 DEF AWaitDone
<1>13. CASE ADestroyBegin
  <2>1. s' \in Sample /\ clock' \in Nat
    BY <1>13 DEF ADestroyBegin
  <2>2. pc' \in [A : Places.A, B : Places.B, C : Places.C]
    BY <1>13 DEF ADestroyBegin
  <2> QED
    BY ONLY <1>13, <2>1, <2>2, TypeOK DEF TypeOK, ADestroyBegin
<1>14. CASE ADestroy
  BY <1>14 DEF ADestroy
<1>15. CASE ADestroyReturn
  <2>1. clock + 1 \in Nat
    OBVIOUS
  <2>2. s' \in Sample
    BY ONLY <1>15, <2>1, s \in Sample DEF ADestroyReturn, Sample, Answers
  <2>3. pc' \in [A : Places.A, B : Places.B, C : Places.C] /\ clock' \in Nat
    BY <1>15 DEF ADestroyReturn
  <2> QED
    BY <1>15, <2>2, <2>3 DEF ADestroyReturn
<1>16. CASE ARelease
  BY <1>16 DEF ARelease
<1>17. CASE ADestroyFailed
  <2>1. clock + 1 \in Nat
    OBVIOUS
  <2>2. s' \in Sample
    BY ONLY <1>17, <2>1, s \in Sample DEF ADestroyFailed, Sample, Answers
  <2>3. pc' \in [A : Places.A, B : Places.B, C : Places.C] /\ clock' \in Nat
    BY <1>17 DEF ADestroyFailed
  <2> QED
    BY <1>17, <2>2, <2>3 DEF ADestroyFailed
<1> QED
  BY <1>1, <1>2, <1>3, <1>4, <1>5, <1>6, <1>7, <1>8, <1>9, <1>10, <1>11, <1>12,
    <1>13, <1>14, <1>15, <1>16, <1>17 DEF AStep

LEMMA CStepType == ASSUME TypeOK, CStep PROVE TypeOK'
<1>1. CASE CAwaitStarted
  BY <1>1 DEF CAwaitStarted
<1>2. CASE CWaitDelay
  BY <1>2 DEF CWaitDelay
<1>3. CASE CInvalidateStamp
  BY <1>3 DEF CInvalidateStamp
<1>4. CASE CInvalidate
  BY <1>4 DEF CInvalidate
<1>5. CASE CGo
  BY <1>5 DEF CGo
<1>6. CASE CGetA
  BY <1>6 DEF CGetA, Settled
<1>7. CASE CGetB
  BY <1>7 DEF CGetB, Settled
<1>8. CASE CReport
  BY <1>8 DEF CReport, OrderHolds
<1>9. CASE CCatch
  BY <1>9 DEF CCatch
<1> QED
  BY <1>1, <1>2, <1>3, <1>4, <1>5, <1>6, <1>7, <1>8, <1>9 DEF CStep

LEMMA OtherStepType ==
  ASSUME TypeOK, OtherStep PROVE TypeOK'
<1>1. CASE Throw
  <2>1. CASE ThrowFrom("A", AMayThrow)
    BY <2>1 DEF ThrowFrom, AMayThrow
  <2>2. CASE ThrowFrom("B", BMayThrow)
    BY <2>2 DEF ThrowFrom, BMayThrow
  <2>3. CASE ThrowFrom("C", CMayThrow)
    BY <2>3 DEF ThrowFrom, CMayThrow
  <2> QED
    BY <1>1, <2>1, <2>2, <2>3 DEF Throw
<1>2. CASE AThrowInDestroy
  <2>1. pc' \in [A : Places.A, B : Places.B, C : Places.C]
    BY <1>2 DEF AThrowInDestroy
  <2>2. ctx' \in BOOLEAN
    BY <1>2 DEF AThrowInDestroy
  <2>3. UNCHANGED <<condition, signals, s, clock, kernel, completed, error, result>>
    BY <1>2 DEF AThrowInDestroy
  <2> QED
    BY ONLY <2>1, <2>2, <2>3, TypeOK DEF TypeOK
<1>3. ASSUME NEW th \in Owners, OwnerCatch(th) PROVE TypeOK'
  <2>1. CASE th = "A"
    BY <1>3, <2>1 DEF OwnerCatch
  <2>2. CASE th = "B"
    BY <1>3, <2>2 DEF OwnerCatch
  <2> QED
    BY <2>1, <2>2 DEF Owners
<1>4. ASSUME NEW k \in Owners, KernelBegin(k) PROVE TypeOK'
  <2>1. CASE k = "A"
    BY <1>4, <2>1 DEF KernelBegin
  <2>2. CASE k = "B"
    BY <1>4, <2>2 DEF KernelBegin
  <2> QED
    BY <2>1, <2>2 DEF Owners
<1>5. ASSUME NEW k \in Owners, KernelEnd(k) PROVE TypeOK'
  <2>1. CASE k = "A"
    BY <1>5, <2>1 DEF KernelEnd
  <2>2. CASE k = "B"
    BY <1>5, <2>2 DEF KernelEnd
  <2> QED
    BY <2>1, <2>2 DEF Owners
<1> QED
  BY <1>1, <1>2, <1>3, <1>4, <1>5 DEF OtherStep, GpuStep

LEMMA TypeInit == Init => TypeOK
BY DEF Init, InitCall

LEMMA TypeNext == TypeOK /\ [Next]_vars => TypeOK'
<1> SUFFICES ASSUME TypeOK, [Next]_vars PROVE TypeOK'
  OBVIOUS
<1>1. CASE AStep \/ BStep \/ CStep \/ OtherStep
  BY <1>1, AStepType, BStepType, CStepType, OtherStepType
<1>2. CASE UNCHANGED vars
  BY <1>2 DEF vars
<1> QED
  BY <1>1, <1>2 DEF Next, OtherStep, Returned

\* Every variable keeps its type.
THEOREM TypeCorrect == Spec => []TypeOK
<1> HIDE DEF TypeOK
<1> QED
  BY TypeInit, TypeNext, PTL DEF Spec

--------------------------------------------------------------------------------
(* Every step keeps the other parts, which need one another.                *)

USE DEF IInv, Shape, ClockInv, FlagInv, BranchInv, OrderInv, KernelInv, QueryInv,
       ErrorInv, ResultInv, ChecksNeverFire, AAsked, AStarted, ALaunched, AArmed,
       AQueried, ALeft, BAnnounced, BCompleted, BSynced, BStamped, BReleased,
       CAsked, CStarted

LEMMA BStepShape == ASSUME IInv, BStep PROVE Shape'
<1>1. CASE BReady
  BY <1>1 DEF BReady
<1>2. CASE BArm
  BY <1>2 DEF BArm
<1>3. CASE BAwaitGo
  BY <1>3 DEF BAwaitGo
<1>4. CASE BLaunchStamp
  BY <1>4 DEF BLaunchStamp
<1>5. CASE BLaunch
  BY <1>5 DEF BLaunch
<1>6. CASE BSynchronize
  BY <1>6 DEF BSynchronize
<1>7. CASE BComplete
  BY <1>7 DEF BComplete
<1>8. CASE BAnnounceDone
  BY <1>8 DEF BAnnounceDone
<1>9. CASE BVerify
  BY <1>9 DEF BVerify
<1> QED
  BY <1>1, <1>2, <1>3, <1>4, <1>5, <1>6, <1>7, <1>8, <1>9 DEF BStep

LEMMA AStepShape == ASSUME IInv, AStep PROVE Shape'
<1>1. CASE AAwaitArmed
  BY <1>1 DEF AAwaitArmed
<1>2. CASE ALaunchStamp
  BY <1>2 DEF ALaunchStamp
<1>3. CASE ALaunch
  BY <1>3 DEF ALaunch
<1>4. CASE AAwaitMarker
  BY <1>4 DEF AAwaitMarker
<1>5. CASE AStartStamp
  BY <1>5 DEF AStartStamp
<1>6. CASE AAnnounce
  BY <1>6 DEF AAnnounce
<1>7. CASE AAwaitInvalidate
  BY <1>7 DEF AAwaitInvalidate
<1>8. CASE AQuery
  BY <1>8 DEF AQuery, EventPending
<1>9. CASE AAwaitDone
  BY <1>9 DEF AAwaitDone
<1>10. CASE APostQuery
  BY <1>10 DEF APostQuery, EventPending
<1>11. CASE AFinish
  BY <1>11 DEF AFinish
<1>12. CASE AWaitDone
  BY <1>12 DEF AWaitDone
<1>13. CASE ADestroyBegin
  BY <1>13 DEF ADestroyBegin
<1>14. CASE ADestroy
  BY <1>14, ConditionsAssumption DEF ADestroy, Serial, Keep
<1>15. CASE ADestroyReturn
  BY <1>15 DEF ADestroyReturn
<1>16. CASE ARelease
  BY <1>16 DEF ARelease
<1>17. CASE ADestroyFailed
  BY <1>17 DEF ADestroyFailed
<1> QED
  BY <1>1, <1>2, <1>3, <1>4, <1>5, <1>6, <1>7, <1>8, <1>9, <1>10, <1>11, <1>12,
    <1>13, <1>14, <1>15, <1>16, <1>17 DEF AStep

LEMMA CStepShape == ASSUME IInv, CStep PROVE Shape'
<1>1. CASE CAwaitStarted
  BY <1>1 DEF CAwaitStarted
<1>2. CASE CWaitDelay
  BY <1>2 DEF CWaitDelay
<1>3. CASE CInvalidateStamp
  BY <1>3 DEF CInvalidateStamp
<1>4. CASE CInvalidate
  BY <1>4 DEF CInvalidate
<1>5. CASE CGo
  BY <1>5 DEF CGo
<1>6. CASE CGetA
  BY <1>6 DEF CGetA, Settled
<1>7. CASE CGetB
  BY <1>7 DEF CGetB, Settled
<1>8. CASE CReport
  BY <1>8 DEF CReport, OrderHolds
<1>9. CASE CCatch
  BY <1>9 DEF CCatch
<1> QED
  BY <1>1, <1>2, <1>3, <1>4, <1>5, <1>6, <1>7, <1>8, <1>9 DEF CStep

LEMMA OtherStepShape ==
  ASSUME IInv, OtherStep PROVE Shape'
<1>1. CASE Throw
  <2>1. CASE ThrowFrom("A", AMayThrow)
    BY <2>1 DEF ThrowFrom, AMayThrow
  <2>2. CASE ThrowFrom("B", BMayThrow)
    BY <2>2 DEF ThrowFrom, BMayThrow
  <2>3. CASE ThrowFrom("C", CMayThrow)
    BY <2>3 DEF ThrowFrom, CMayThrow
  <2> QED
    BY <1>1, <2>1, <2>2, <2>3 DEF Throw
<1>2. CASE AThrowInDestroy
  BY <1>2 DEF AThrowInDestroy
<1>3. ASSUME NEW th \in Owners, OwnerCatch(th) PROVE Shape'
  <2>1. CASE th = "A"
    BY <1>3, <2>1 DEF OwnerCatch
  <2>2. CASE th = "B"
    BY <1>3, <2>2 DEF OwnerCatch
  <2> QED
    BY <2>1, <2>2 DEF Owners
<1>4. ASSUME NEW k \in Owners, KernelBegin(k) PROVE Shape'
  <2>1. CASE k = "A"
    BY <1>4, <2>1 DEF KernelBegin
  <2>2. CASE k = "B"
    BY <1>4, <2>2 DEF KernelBegin
  <2> QED
    BY <2>1, <2>2 DEF Owners
<1>5. ASSUME NEW k \in Owners, KernelEnd(k) PROVE Shape'
  <2>1. CASE k = "A"
    BY <1>5, <2>1 DEF KernelEnd
  <2>2. CASE k = "B"
    BY <1>5, <2>2 DEF KernelEnd
  <2> QED
    BY <2>1, <2>2 DEF Owners
<1> QED
  BY <1>1, <1>2, <1>3, <1>4, <1>5 DEF OtherStep, GpuStep

LEMMA IInvInit == Init => IInv
BY ConditionsAssumption, TypeInit DEF Init, InitCall

LEMMA IInvNext == IInv /\ [Next]_vars => IInv'
<1> SUFFICES ASSUME IInv, [Next]_vars PROVE Shape'
  BY TypeNext
<1>1. CASE AStep \/ BStep \/ CStep \/ OtherStep
  BY <1>1, AStepShape, BStepShape, CStepShape, OtherStepShape
<1>2. CASE UNCHANGED vars
  BY <1>2 DEF vars
<1> QED
  BY <1>1, <1>2 DEF Next, OtherStep, Returned

HIDE DEF IInv, TypeOK

\* The inductive invariant.
THEOREM Inductive == Spec => []IInv
BY IInvInit, IInvNext, PTL DEF Spec

--------------------------------------------------------------------------------
(* What the invariant says of the program.                                  *)

\* The order check and the idle check at the end of takeover cannot fail.
THEOREM ChecksUnreachable == Spec => []ChecksNeverFire
<1>1. IInv => ChecksNeverFire
  BY DEF IInv, TypeOK, ChecksNeverFire
<1> HIDE DEF ChecksNeverFire
<1> QED
  BY <1>1, Inductive, PTL

\* A's and B's kernels never meet on the GPU in a serial condition.
THEOREM SerialConditionsExclude == Spec => []SerialExclusion
<1>1. IInv => SerialExclusion
  BY ConditionsAssumption DEF IInv, TypeOK, SerialExclusion, Serial, Keep
<1> HIDE DEF SerialExclusion
<1> QED
  BY <1>1, Inductive, PTL

\* A success was reached by both tasks, none of them cancelled.
THEOREM SuccessMeansBothRan == Spec => []NoSilentAbandonment
<1>1. IInv => NoSilentAbandonment
  BY DEF IInv, TypeOK, NoSilentAbandonment
<1> HIDE DEF NoSilentAbandonment
<1> QED
  BY <1>1, Inductive, PTL

\* takeover throws exactly when one of its three threads failed.
THEOREM FailuresReachTheCaller == Spec => []FailureIsReported
<1>1. IInv => FailureIsReported
  BY DEF IInv, TypeOK, FailureIsReported
<1> HIDE DEF FailureIsReported
<1> QED
  BY <1>1, Inductive, PTL

\* The stack frame outlives both tasks.
THEOREM FrameIsSafe == Spec => []FrameOutlivesTasks
<1>1. IInv => FrameOutlivesTasks
  BY DEF IInv, TypeOK, FrameOutlivesTasks
<1> HIDE DEF FrameOutlivesTasks
<1> QED
  BY <1>1, Inductive, PTL

\* A row reported as an interruption interrupted A.
THEOREM InterruptionMeasured == Spec => []InterruptionIsReal
<1>1. IInv => InterruptionIsReal
  BY DEF IInv, TypeOK, InterruptionIsReal
<1> HIDE DEF InterruptionIsReal
<1> QED
  BY <1>1, Inductive, PTL

\* A row reported as an overlap had A outlast B.
THEOREM OverlapMeasured == Spec => []OverlapIsReal
<1>1. IInv => OverlapIsReal
  BY DEF IInv, TypeOK, OverlapIsReal
<1> HIDE DEF OverlapIsReal
<1> QED
  BY <1>1, Inductive, PTL

\* Nothing of the call is left on the GPU after a normal return.
THEOREM QuietOnReturn == Spec => []QuietAfterReturn
<1>1. IInv => QuietAfterReturn
  BY ConditionsAssumption DEF IInv, TypeOK, QuietAfterReturn, Serial, Keep
<1> HIDE DEF QuietAfterReturn
<1> QED
  BY <1>1, Inductive, PTL

\* takeover tells the truth about itself, whoever fails and wherever.
THEOREM OutcomeHonest == Spec => []OutcomeIsHonest
BY ChecksUnreachable, SuccessMeansBothRan, FailuresReachTheCaller, PTL
DEF OutcomeIsHonest

\* The two flags of a row are true of the GPU.
THEOREM RowTrue == Spec => []RowIsTrue
BY InterruptionMeasured, OverlapMeasured, PTL DEF RowIsTrue

\* The call leaves nothing behind, on the GPU or in its tasks.
THEOREM NothingStaysBehind == Spec => []NothingLeftBehind
BY FrameIsSafe, QuietOnReturn, PTL DEF NothingLeftBehind

--------------------------------------------------------------------------------
(* The call implements its contract.                                        *)

LEMMA ContractInit == Init => Contract!Init
BY DEF Init, InitCall, Contract!Init

\* Six steps are steps of the contract; the contract sees none of the others.
LEMMA ContractStep == IInv /\ [Next]_vars => [Contract!Next]_(Contract!contractVars)
<1> SUFFICES ASSUME IInv, [Next]_vars
             PROVE  Contract!Next \/ UNCHANGED Contract!contractVars
  OBVIOUS
<1> USE DEF IInv, TypeOK
<1>1. CASE CInvalidate
  BY <1>1 DEF CInvalidate, Contract!Next, Contract!Ask, Contract!Open
<1>2. CASE ADestroyReturn
  BY <1>2, ConditionsAssumption DEF ADestroyReturn, Serial, Keep, Contract!Next,
     Contract!Retire, Contract!Open, Contract!contractVars
<1>3. CASE ARelease \/ CGo
  BY <1>3, ConditionsAssumption DEF ARelease, CGo, Serial, Keep, Contract!Next,
     Contract!Release, Contract!Open
<1>4. CASE BComplete
  BY <1>4 DEF BComplete, Contract!Next, Contract!RunB, Contract!Open
<1>5. CASE CReport
  <2>1. CASE error # "none"
    BY <1>5, <2>1 DEF CReport, Contract!Next, Contract!Throw, Contract!Open
  <2>2. CASE error = "none"
    BY <1>5, <2>2, ConditionsAssumption, CStepShape DEF CReport, CStep, Serial, Keep,
       Contract!Next, Contract!Return, Contract!Open
  <2> QED
    BY <2>1, <2>2
<1>6. CASE BStep /\ ~BComplete
  BY <1>6 DEF Contract!contractVars, BStep, BReady, BArm, BAwaitGo, BLaunchStamp,
     BLaunch, BSynchronize, BAnnounceDone, BVerify
<1>7. CASE AStep /\ ~ADestroyReturn /\ ~ARelease
  <2>1. CASE APostQuery
    BY <2>1 DEF APostQuery, EventPending, Contract!contractVars
  <2>2. CASE ADestroyFailed
    BY <2>2 DEF ADestroyFailed, Contract!contractVars
  <2>3. CASE ADestroyBegin \/ AQuery
    BY <2>3 DEF ADestroyBegin, AQuery, EventPending, Contract!contractVars
  <2>4. CASE AAwaitArmed \/ ALaunchStamp \/ ALaunch \/ AAwaitMarker \/ AStartStamp
             \/ AAnnounce \/ AAwaitInvalidate \/ AAwaitDone \/ AFinish \/ AWaitDone
             \/ ADestroy
    BY <2>4 DEF AAwaitArmed, ALaunchStamp, ALaunch, AAwaitMarker, AStartStamp,
       AAnnounce, AAwaitInvalidate, AAwaitDone, AFinish, AWaitDone, ADestroy,
       Contract!contractVars
  <2> QED
    BY <1>7, <2>1, <2>2, <2>3, <2>4 DEF AStep
<1>8. CASE CStep /\ ~CInvalidate /\ ~CGo /\ ~CReport
  BY <1>8 DEF Contract!contractVars, CStep, CAwaitStarted, CWaitDelay,
     CInvalidateStamp, CGetA, CGetB, CCatch
<1>9. CASE OtherStep \/ Returned \/ UNCHANGED vars
  BY <1>9 DEF Contract!contractVars, OtherStep, Throw, ThrowFrom, AThrowInDestroy,
     OwnerCatch, GpuStep, KernelBegin, KernelEnd, Returned, vars
<1> QED
  BY <1>1, <1>2, <1>3, <1>4, <1>5, <1>6, <1>7, <1>8, <1>9 DEF Next, OtherStep

\* takeover keeps its promises to the driver: retire A before B in a serial
\* condition, run B at most once released, return once.
THEOREM ImplementsContract == Spec => ContractSpec
BY ContractInit, ContractStep, Inductive, PTL DEF Spec, ContractSpec, Contract!Spec

================================================================================
