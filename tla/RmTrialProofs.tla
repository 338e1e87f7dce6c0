----------------------------- MODULE RmTrialProofs -----------------------------
(****************************************************************************)
(* Proofs about RmTrial, for any set of conditions and any number of clock  *)
(* failures inside a control.  As in HandoffProofs the inductive invariant  *)
(* is a conjunction of parts, each of which says what is known at a place   *)
(* of a thread in terms of what the others can no longer do.                *)
(****************************************************************************)
EXTENDS RmTrial, TLAPS

(* Places by what a thread has behind it.                                   *)

\* A's places from its end back to its start: at rest again, past the
\* re-enable, past the second query, past B, past its start, past B's arming.
ACompared == {"reuse_stamp", "reuse", "finished"}
AIdle     == ACompared \union {"compare"}
ATail     == AIdle \union {"finish"}
AObserved == ATail \union {"enable", "enabling"}
AAfterB   == AObserved \union {"hold_wait", "hold_query"}
ADone     == AAfterB \union {"post_query"}
AGone     == ADone \union {"await_done"}
AQueried  == AGone \union {"preempt", "disable", "disabling", "control_ready", "go"}
AStarted  == AQueried \union {"query", "await_invalidate"}
ALaunched == AStarted \union {"await_marker", "start_stamp", "announce"}
AArmed    == ALaunched \union {"launch_stamp", "launch"}
ALeft     == {"catch", "undo", "undoing", "failed"}

\* A's places before it knows a disable to have succeeded, and while it does.
AFree == {"abandoned", "await_armed", "disable", "disabling", "preempt", "query"} \union
         (ALaunched \ AQueried) \union {"launch_stamp", "launch"}
AHolds == {"control_ready", "go", "await_done", "post_query", "hold_wait", "hold_query",
           "enable"}

\* B's places once it has announced its completion, completed, been released.
BAnnounced == {"verify", "finished"}
BSynced    == BAnnounced \union {"complete_stamp", "announce_done"}
BStamped   == BSynced \union {"launch", "synchronize"}
BReleased  == BStamped \union {"launch_stamp"}

\* The controller's places once it has asked or given up, and once A started.
CAsked   == {"go", "get_a", "get_b", "report", "returned"}
CStarted == {"wait_delay", "invalidate_stamp", "invalidate", "go"}

Places ==
  [A |-> AArmed \union ALeft \union {"await_armed", "abandoned"},
   B |-> BReleased \union {"ready", "arm", "await_go", "abandoned", "catch", "failed"},
   C |-> CAsked \union CStarted \union {"await_started", "catch"}]

--------------------------------------------------------------------------------
(* The inductive invariant.                                                 *)

Types == TypeOK /\ pc \in [A : Places.A, B : Places.B, C : Places.C] /\ ctx \in BOOLEAN

\* No stamp is ahead of the clock.
ClockInv ==
  /\ s.a_start_observed <= clock /\ s.invalidate <= clock /\ s.b_launch <= clock
  /\ s.b_complete <= clock /\ s.a_post_b_query_end <= clock
  /\ s.a_complete_observed <= clock
  /\ r.control_ready <= clock /\ r.preempt_end <= clock /\ r.hold_query <= clock
  /\ r.disable.begin <= clock /\ r.disable.end <= clock /\ r.enable.begin <= clock

\* A flag is up only after its thread raised it, and a thread is past a wait
\* only when the flag is up.
FlagInv ==
  /\ signals.a_started => pc.A \in AStarted \union ALeft \union {"abandoned"}
  /\ signals.invalidate => pc.C \in CAsked /\ signals.a_started
  /\ signals.b_go => signals.invalidate
  /\ signals.b_go /\ ~live => pc.A \in AGone \union ALeft
  /\ signals.b_go /\ live => pc.C \in CAsked \ {"go"}
  /\ signals.b_done => pc.B \in BAnnounced \union {"catch", "failed"}
  /\ signals.b_done => signals.b_go
  /\ pc.C \in CStarted => signals.a_started
  /\ pc.C = "go" => live /\ signals.invalidate
  /\ pc.A \in AQueried \union {"query"} => signals.invalidate
  /\ pc.B \in BReleased => signals.b_go
  /\ pc.A \in ADone => signals.b_done

\* A takes only the branch of its condition.
BranchInv ==
  /\ live => pc.A \notin {"preempt", "disable", "disabling", "control_ready", "go"}
  /\ ~hold => /\ pc.A \notin {"disable", "disabling", "enable", "enabling", "undo", "undoing"}
              /\ channel = "enabled" /\ ~disabled
              /\ r.disable.result = "unset" /\ r.enable.result = "unset"

\* The stamps rm_trial compares are in order as soon as both are set.
OrderInv ==
  /\ pc.C = "invalidate" \/ signals.invalidate => s.a_start_observed <= s.invalidate
  /\ live /\ signals.invalidate => r.control_ready = s.invalidate
  /\ pc.A \in AGone \union {"go"} => s.invalidate <= r.control_ready
  /\ signals.b_go => s.invalidate <= r.control_ready
  /\ pc.B \in BStamped \/ signals.b_done => r.control_ready <= s.b_launch
  /\ pc.B \in BAnnounced \union {"announce_done"} \/ signals.b_done =>
       s.b_launch <= s.b_complete
  /\ r.hold_query # 0 => signals.b_done
  /\ pc.A \in AAfterB => s.b_complete <= s.a_post_b_query_begin
  /\ pc.A \in AObserved => s.a_post_b_query_end <= r.hold_query
  /\ pc.A \in AIdle => r.hold_query <= s.a_complete_observed
  /\ pc.A \in {"reuse", "finished"} => s.a_complete_observed <= r.reuse_launch

\* So are those of its controls.
ControlInv ==
  /\ hold /\ pc.A \in AGone \union {"disabling", "control_ready", "go"} =>
       r.preempt_end <= r.disable.begin
  /\ hold /\ pc.A \in AGone \union {"go"} => r.disable.end <= r.control_ready
  /\ hold /\ pc.A \in ATail \union {"enabling"} => r.hold_query <= r.enable.begin

\* What A knows of its controls, and what is true of its channels.
HoldInv ==
  /\ pc.A \in AFree => ~disabled
  /\ pc.A \in AFree \ {"disabling"} => channel = "enabled" /\ r.disable.result = "unset"
  /\ pc.A = "disabling" /\ r.disable.result = "accepted" => channel = "disabled"
  /\ disabled => r.disable.result = "accepted"
  /\ hold /\ pc.A \in AHolds => disabled /\ channel = "disabled"
  /\ pc.A \in {"enable", "enabling", "undo", "undoing"} => disabled
  /\ pc.A \in AFree \union AHolds \union {"undo"} => r.enable.result = "unset"
  /\ pc.A \in {"enabling", "undoing"} => r.enable.result # "unset"
  /\ r.enable.result # "unset" => r.disable.result = "accepted"
  /\ pc.A \in {"enabling", "undoing"} /\ r.enable.result = "accepted" =>
       channel = "enabled"
  /\ pc.A \in ATail => ~disabled /\ channel = "enabled"
  /\ pc.A = "failed" /\ disabled => r.enable.result # "unset" \/ "undo" \in clockFaults

\* While B runs in a condition with a control, A waits for it.
KernelInv ==
  /\ kernel.B \in Busy => pc.B \in {"synchronize", "catch", "failed"}
  /\ signals.b_go /\ ~live /\ ~signals.b_done /\ ~signals.cancelled => pc.A = "await_done"
  /\ pc.B \in BReleased \ BAnnounced /\ ~live => ~signals.cancelled /\ ~signals.b_done
  /\ pc.A \in AIdle => kernel.A = "done"
  /\ condition \in FifoHold /\ pc.A \in {"hold_wait", "hold_query"} =>
       s.a_pending_after_b = EventPending
  /\ condition \in FifoHold /\ pc.A \in AObserved =>
       s.a_pending_after_b = r.pending_before_rearm

\* Nobody gives up quietly: a cancellation has a thread whose failure is on its
\* way to the caller, and the controller collects it.
ErrorInv ==
  /\ signals.cancelled => pc.A \in ALeft \ {"catch"} \/ pc.B = "failed" \/ error = "C"
  /\ pc.A = "abandoned" \/ pc.B = "abandoned" => signals.cancelled
  /\ error = "A" => pc.A = "failed"
  /\ error = "B" => pc.B = "failed"
  /\ error = "C" => ~signals.invalidate
  /\ error # "none" => pc.C \in CAsked \ {"go"}
  /\ pc.C \in {"get_b", "report", "returned"} =>
       Settled("A") /\ (pc.A = "failed" => error = "A")
  /\ pc.C \in {"report", "returned"} =>
       Settled("B") /\ (pc.B = "failed" => error # "none")
  /\ result # "none" <=> pc.C = "returned"
  /\ result = "error" <=> pc.C = "returned" /\ error # "none"
  /\ result # "order_violated"

Shape ==
  /\ ClockInv /\ FlagInv /\ BranchInv /\ OrderInv /\ ControlInv /\ HoldInv
  /\ KernelInv /\ ErrorInv

IInv == Types /\ Shape

--------------------------------------------------------------------------------
(* The steps of Next, grouped for the proofs.                               *)

StopStep ==
  \/ AAwaitArmed \/ AQuery \/ APreempt \/ ADisable \/ ADisableReturn \/ AControlReady
  \/ AGo \/ AAwaitDone \/ APostQuery \/ AHoldWait \/ AHoldQuery

ResumeStep ==
  \/ AEnable \/ AEnableReturn \/ AFinish \/ ACompare \/ AReuseStamp \/ AReuse
  \/ ACatch \/ AUndo \/ AUndoReturn

OtherStep ==
  \/ Throw \/ AClockFault
  \/ OwnerCatch("B") /\ UNCHANGED rm
  \/ \E k \in Owners : RmGpuStep(k)

LEMMA StepCases ==
  ASSUME [Next]_rmVars
  PROVE  \/ BStep /\ UNCHANGED rm
         \/ SharedAStep \/ StopStep \/ ResumeStep \/ CStep \/ OtherStep
         \/ UNCHANGED rmVars
BY DEF Next, AStep, RmBStep, StopStep, ResumeStep, OtherStep, Returned

--------------------------------------------------------------------------------
(* Every step keeps the types.                                              *)

USE DEF Types, TypeOK, Sample, Record, Calls, Call, Places, Answers, Flags, Goto,
       Stamp, Raise, Await, sideEffects, reports, quiet, rm, live, hold, Hold,
       FifoHold, Busy, Settled, ControlPlaces, ACompared, AIdle, ATail, AObserved,
       AAfterB, ADone, AGone, AQueried, AStarted, ALaunched, AArmed, ALeft, AFree,
       AHolds, BAnnounced, BSynced, BStamped, BReleased, CAsked, CStarted

LEMMA BStepType == ASSUME Types, BStep /\ UNCHANGED rm PROVE Types'
<1>1. CASE BReady
  BY <1>1 DEF BReady
<1>2. CASE BArm
  BY <1>2 DEF BArm
<1>3. CASE BAwaitGo
  BY <1>3 DEF BAwaitGo
<1>4. CASE BLaunchStamp
  BY <1>4 DEF BLaunchStamp
<1>5. CASE BLaunch
  BY <1>5 DEF BLaunch
<1>6. CASE BSynchronize
  BY <1>6 DEF BSynchronize
<1>7. CASE BComplete
  BY <1>7 DEF BComplete
<1>8. CASE BAnnounceDone
  BY <1>8 DEF BAnnounceDone
<1>9. CASE BVerify
  BY <1>9 DEF BVerify
<1> QED
  BY <1>1, <1>2, <1>3, <1>4, <1>5, <1>6, <1>7, <1>8, <1>9 DEF BStep

LEMMA SharedAStepType == ASSUME Types, SharedAStep PROVE Types'
<1>1. CASE ALaunchStamp /\ UNCHANGED rm
  BY <1>1 DEF ALaunchStamp
<1>2. CASE ALaunch /\ UNCHANGED rm
  BY <1>2 DEF ALaunch
<1>3. CASE AAwaitMarker /\ UNCHANGED rm
  BY <1>3 DEF AAwaitMarker
<1>4. CASE AStartStamp /\ UNCHANGED rm
  BY <1>4 DEF AStartStamp
<1>5. CASE AAnnounce /\ UNCHANGED rm
  BY <1>5 DEF AAnnounce
<1>6. CASE AAwaitInvalidate /\ UNCHANGED rm
  BY <1>6 DEF AAwaitInvalidate
<1> QED
  BY <1>1, <1>2, <1>3, <1>4, <1>5, <1>6 DEF SharedAStep

LEMMA StopStepType == ASSUME Types, StopStep PROVE Types'
<1>1. CASE AAwaitArmed
  BY <1>1 DEF AAwaitArmed
<1>2. CASE AQuery
  BY <1>2 DEF AQuery, EventPending
<1>3. CASE APreempt
  BY <1>3 DEF APreempt
<1>4. CASE ADisable
  BY <1>4 DEF ADisable, ControlCall
<1>5. CASE ADisableReturn
  BY <1>5 DEF ADisableReturn, ControlReturn
<1>6. CASE AControlReady
  BY <1>6 DEF AControlReady
<1>7. CASE AGo
  BY <1>7 DEF AGo
<1>8. CASE AAwaitDone
  BY <1>8 DEF AAwaitDone
<1>9. CASE APostQuery
  <2>1. EventPending \in Answers /\ clock + 1 \in Nat /\ clock + 2 \in Nat
    BY DEF EventPending
  <2>2. s' \in Sample
    BY ONLY <1>9, <2>1, s \in Sample DEF APostQuery, Sample, Answers
  <2>3. pc' \in [A : Places.A, B : Places.B, C : Places.C] /\ clock' \in Nat
    BY <1>9 DEF APostQuery
  <2> QED
    BY <1>9, <2>2, <2>3 DEF APostQuery
<1>10. CASE AHoldWait
  BY <1>10 DEF AHoldWait
<1>11. CASE AHoldQuery
  <2>1. EventPending \in Answers /\ clock + 1 \in Nat
    BY DEF EventPending
  <2>2. r' \in Record
    BY ONLY <1>11, <2>1, r \in Record DEF AHoldQuery, Record, Answers
  <2>3. pc' \in [A : Places.A, B : Places.B, C : Places.C] /\ clock' \in Nat
    BY <1>11 DEF AHoldQuery
  <2> QED
    BY <1>11, <2>2, <2>3 DEF AHoldQuery
<1> QED
  BY <1>1, <1>2, <1>3, <1>4, <1>5, <1>6, <1>7, <1>8, <1>9, <1>10, <1>11 DEF StopStep

LEMMA ResumeStepType == ASSUME Types, ResumeStep PROVE Types'
<1>1. CASE AEnable
  BY <1>1 DEF AEnable, ControlCall
<1>2. CASE AEnableReturn
  BY <1>2 DEF AEnableReturn, ControlReturn
<1>3. CASE AFinish
  BY <1>3 DEF AFinish
<1>4. CASE ACompare
  BY <1>4 DEF ACompare
<1>5. CASE AReuseStamp
  BY <1>5 DEF AReuseStamp
<1>6. CASE AReuse
  BY <1>6 DEF AReuse
<1>7. CASE ACatch
  BY <1>7 DEF ACatch
<1>8. CASE AUndo
  BY <1>8 DEF AUndo, ControlCall
<1>9. CASE AUndoReturn
  BY <1>9 DEF AUndoReturn, ControlReturn
<1> QED
  BY <1>1, <1>2, <1>3, <1>4, <1>5, <1>6, <1>7, <1>8, <1>9 DEF ResumeStep

LEMMA CStepType == ASSUME Types, CStep PROVE Types'
<1>1. CASE CAwaitStarted /\ UNCHANGED rm
  BY <1>1 DEF CAwaitStarted
<1>2. CASE CWaitDelay /\ UNCHANGED rm
  BY <1>2 DEF CWaitDelay
<1>3. CASE CInvalidateStamp /\ UNCHANGED rm
  BY <1>3 DEF CInvalidateStamp
<1>4. CASE CGo /\ UNCHANGED rm
  BY <1>4 DEF CGo
<1>5. CASE CGetA /\ UNCHANGED rm
  BY <1>5 DEF CGetA
<1>6. CASE CGetB /\ UNCHANGED rm
  BY <1>6 DEF CGetB
<1>7. CASE CCatch /\ UNCHANGED rm
  BY <1>7 DEF CCatch
<1>8. CASE CInvalidate
  BY <1>8 DEF CInvalidate
<1>9. CASE CReport
  BY <1>9 DEF CReport, OrderHolds, HoldOrderHolds
<1> QED
  BY <1>1, <1>2, <1>3, <1>4, <1>5, <1>6, <1>7, <1>8, <1>9 DEF CStep, SharedCStep

LEMMA OtherStepType == ASSUME Types, OtherStep PROVE Types'
<1>1. CASE ThrowFrom("A", AMayThrow) /\ UNCHANGED rm
  BY <1>1 DEF ThrowFrom, AMayThrow
<1>2. CASE ThrowFrom("B", BMayThrow) /\ UNCHANGED rm
  BY <1>2 DEF ThrowFrom, BMayThrow
<1>3. CASE ThrowFrom("C", CMayThrow) /\ UNCHANGED rm
  BY <1>3 DEF ThrowFrom, CMayThrow
<1>4. ASSUME NEW from \in ControlPlaces,
             ControlClockFault(from, IF from \in {"undo", "undoing"} THEN "failed" ELSE "catch")
      PROVE  Types'
  BY <1>4 DEF ControlClockFault
<1>5. CASE OwnerCatch("B") /\ UNCHANGED rm
  BY <1>5 DEF OwnerCatch
<1>6. ASSUME NEW k \in Owners, KernelBegin(k), RmGpuStep(k) PROVE Types'
  <2>1. CASE k = "A"
    BY <1>6, <2>1 DEF KernelBegin, RmGpuStep
  <2>2. CASE k = "B"
    BY <1>6, <2>2 DEF KernelBegin, RmGpuStep
  <2> QED
    BY <2>1, <2>2 DEF Owners
<1>7. ASSUME NEW k \in Owners, KernelEnd(k), RmGpuStep(k) PROVE Types'
  <2>1. CASE k = "A"
    BY <1>7, <2>1 DEF KernelEnd, RmGpuStep, Held
  <2>2. CASE k = "B"
    BY <1>7, <2>2 DEF KernelEnd, RmGpuStep
  <2> QED
    BY <2>1, <2>2 DEF Owners
<1> HIDE DEF Types
<1> QED
  BY <1>1, <1>2, <1>3, <1>4, <1>5, <1>6, <1>7
  DEF OtherStep, Throw, AClockFault, RmGpuStep, GpuStep

LEMMA TypeInit == Init => Types
<1> SUFFICES ASSUME Init PROVE Types
  OBVIOUS
<1>1. r \in Record
  BY DEF Init
<1>2. s \in Sample
  BY DEF Init, InitCall
<1>3. pc \in [A : Places.A, B : Places.B, C : Places.C] /\ ctx \in BOOLEAN
  BY DEF Init, InitCall
<1>4. TypeOK
  <2>1. signals \in [Flags -> BOOLEAN] /\ kernel \in [Owners -> {"queued", "running", "done"}]
    BY DEF Init, InitCall, Owners
  <2>2. /\ condition \in Conditions /\ clock \in Nat /\ completed \in Nat
        /\ error \in {"none", "A", "B", "C"}
        /\ result \in {"none", "ok", "error", "order_violated"}
    BY DEF Init, InitCall
  <2>3. disabled \in BOOLEAN /\ channel \in {"enabled", "disabled"}
        /\ clockFaults \subseteq ControlPlaces
    BY ONLY Init DEF Init
  <2> QED
    BY ONLY <1>1, <1>2, <2>1, <2>2, <2>3 DEF TypeOK
<1> QED
  BY ONLY <1>3, <1>4 DEF Types

LEMMA TypeNext == Types /\ [Next]_rmVars => Types'
<1> SUFFICES ASSUME Types, [Next]_rmVars PROVE Types'
  OBVIOUS
<1>1. CASE UNCHANGED rmVars
  BY <1>1 DEF rmVars, vars
<1> HIDE DEF Types
<1> QED
  BY <1>1, StepCases, BStepType, SharedAStepType, StopStepType, ResumeStepType, CStepType,
    OtherStepType

HIDE DEF Types

\* Every variable keeps its type.
THEOREM TypeCorrect == Spec => []TypeOK
<1>1. Types => TypeOK
  BY DEF Types
<1> HIDE DEF TypeOK
<1> QED
  BY <1>1, TypeInit, TypeNext, PTL DEF Spec

--------------------------------------------------------------------------------
(* Every step keeps the other parts, which need one another.                *)

USE DEF IInv, Types, Shape, ClockInv, FlagInv, BranchInv, OrderInv, ControlInv, HoldInv,
       KernelInv, ErrorInv, EventPending

LEMMA BStepShape == ASSUME IInv, BStep /\ UNCHANGED rm PROVE Shape'
<1>1. CASE BReady
  BY <1>1 DEF BReady
<1>2. CASE BArm
  BY <1>2 DEF BArm
<1>3. CASE BAwaitGo
  BY <1>3 DEF BAwaitGo
<1>4. CASE BLaunchStamp
  BY <1>4 DEF BLaunchStamp
<1>5. CASE BLaunch
  BY <1>5 DEF BLaunch
<1>6. CASE BSynchronize
  BY <1>6 DEF BSynchronize
<1>7. CASE BComplete
  BY <1>7 DEF BComplete
<1>8. CASE BAnnounceDone
  BY <1>8 DEF BAnnounceDone
<1>9. CASE BVerify
  <2>1. ClockInv'
    BY <1>9 DEF BVerify
  <2>2. FlagInv'
    BY <1>9 DEF BVerify
  <2>3. BranchInv'
    BY <1>9 DEF BVerify
  <2>4. OrderInv'
    BY <1>9 DEF BVerify
  <2>5. ControlInv'
    BY <1>9 DEF BVerify
  <2>6. HoldInv'
    BY <1>9 DEF BVerify
  <2>7. KernelInv'
    BY <1>9 DEF BVerify
  <2>8. ErrorInv'
    BY <1>9 DEF BVerify
  <2> QED
    BY <2>1, <2>2, <2>3, <2>4, <2>5, <2>6, <2>7, <2>8
<1> QED
  BY <1>1, <1>2, <1>3, <1>4, <1>5, <1>6, <1>7, <1>8, <1>9 DEF BStep

LEMMA SharedAStepShape == ASSUME IInv, SharedAStep PROVE Shape'
<1>1. CASE ALaunchStamp /\ UNCHANGED rm
  BY <1>1 DEF ALaunchStamp
<1>2. CASE ALaunch /\ UNCHANGED rm
  BY <1>2 DEF ALaunch
<1>3. CASE AAwaitMarker /\ UNCHANGED rm
  BY <1>3 DEF AAwaitMarker
<1>4. CASE AStartStamp /\ UNCHANGED rm
  BY <1>4 DEF AStartStamp
<1>5. CASE AAnnounce /\ UNCHANGED rm
  BY <1>5 DEF AAnnounce
<1>6. CASE AAwaitInvalidate /\ UNCHANGED rm
  BY <1>6 DEF AAwaitInvalidate
<1> QED
  BY <1>1, <1>2, <1>3, <1>4, <1>5, <1>6 DEF SharedAStep

LEMMA StopStepShape == ASSUME IInv, StopStep PROVE Shape'
<1>1. CASE AAwaitArmed
  BY <1>1 DEF AAwaitArmed
<1>2. CASE AQuery
  BY <1>2 DEF AQuery, EventPending
<1>3. CASE APreempt
  BY <1>3 DEF APreempt
<1>4. CASE ADisable
  BY <1>4 DEF ADisable, ControlCall
<1>5. CASE ADisableReturn
  BY <1>5 DEF ADisableReturn, ControlReturn
<1>6. CASE AControlReady
  <2>1. ClockInv'
    BY <1>6 DEF AControlReady
  <2>2. FlagInv'
    BY <1>6 DEF AControlReady
  <2>3. BranchInv'
    BY <1>6 DEF AControlReady
  <2>4. OrderInv'
    BY <1>6 DEF AControlReady
  <2>5. ControlInv'
    BY <1>6 DEF AControlReady
  <2>6. HoldInv'
    BY <1>6 DEF AControlReady
  <2>7. KernelInv'
    BY <1>6 DEF AControlReady
  <2>8. ErrorInv'
    BY <1>6 DEF AControlReady
  <2> QED
    BY <2>1, <2>2, <2>3, <2>4, <2>5, <2>6, <2>7, <2>8
<1>7. CASE AGo
  BY <1>7 DEF AGo
<1>8. CASE AAwaitDone
  BY <1>8 DEF AAwaitDone
<1>9. CASE APostQuery
  BY <1>9 DEF APostQuery, EventPending
<1>10. CASE AHoldWait
  <2>1. ClockInv'
    BY <1>10 DEF AHoldWait
  <2>2. FlagInv'
    BY <1>10 DEF AHoldWait
  <2>3. BranchInv'
    BY <1>10 DEF AHoldWait
  <2>4. OrderInv'
    BY <1>10 DEF AHoldWait
  <2>5. ControlInv'
    BY <1>10 DEF AHoldWait
  <2>6. HoldInv'
    BY <1>10 DEF AHoldWait
  <2>7. KernelInv'
    BY <1>10 DEF AHoldWait
  <2>8. ErrorInv'
    BY <1>10 DEF AHoldWait
  <2> QED
    BY <2>1, <2>2, <2>3, <2>4, <2>5, <2>6, <2>7, <2>8
<1>11. CASE AHoldQuery
  BY <1>11 DEF AHoldQuery, EventPending
<1> QED
  BY <1>1, <1>2, <1>3, <1>4, <1>5, <1>6, <1>7, <1>8, <1>9, <1>10, <1>11 DEF StopStep

LEMMA ResumeStepShape == ASSUME IInv, ResumeStep PROVE Shape'
<1>1. CASE AEnable
  BY <1>1 DEF AEnable, ControlCall
<1>2. CASE AEnableReturn
  <2>1. ClockInv'
    BY <1>2 DEF AEnableReturn, ControlReturn
  <2>2. FlagInv'
    BY <1>2 DEF AEnableReturn, ControlReturn
  <2>3. BranchInv'
    BY <1>2 DEF AEnableReturn, ControlReturn
  <2>4. OrderInv'
    BY <1>2 DEF AEnableReturn, ControlReturn
  <2>5. ControlInv'
    BY <1>2 DEF AEnableReturn, ControlReturn
  <2>6. HoldInv'
    <3>1. r' = [r EXCEPT !.enable.end = clock + 1] /\ disabled' = (r.enable.result # "accepted")
      BY <1>2 DEF AEnableReturn, ControlReturn
    <3>2. r'.enable.result = r.enable.result /\ r'.disable.result = r.disable.result
      BY <3>1
    <3>3. CASE r.enable.result = "accepted"
      <4>1. pc'.A = "finish" /\ ~disabled' /\ UNCHANGED <<condition, channel, clockFaults>>
        BY <1>2, <3>1, <3>3 DEF AEnableReturn, ControlReturn
      <4>2. channel = "enabled" /\ r.disable.result = "accepted"
        BY <1>2, <3>3 DEF AEnableReturn, ControlReturn
      <4> QED
        BY <4>1, <4>2, <3>2, <3>3
    <3>4. CASE r.enable.result # "accepted"
      BY <1>2, <3>1, <3>2, <3>4 DEF AEnableReturn, ControlReturn
    <3> QED
      BY <3>3, <3>4
  <2>7. KernelInv'
    BY <1>2 DEF AEnableReturn, ControlReturn
  <2>8. ErrorInv'
    BY <1>2 DEF AEnableReturn, ControlReturn
  <2> QED
    BY <2>1, <2>2, <2>3, <2>4, <2>5, <2>6, <2>7, <2>8
<1>3. CASE AFinish
  BY <1>3 DEF AFinish
<1>4. CASE ACompare
  BY <1>4 DEF ACompare
<1>5. CASE AReuseStamp
  BY <1>5 DEF AReuseStamp
<1>6. CASE AReuse
  BY <1>6 DEF AReuse
<1>7. CASE ACatch
  BY <1>7 DEF ACatch
<1>8. CASE AUndo
  BY <1>8 DEF AUndo, ControlCall
<1>9. CASE AUndoReturn
  BY <1>9 DEF AUndoReturn, ControlReturn
<1> QED
  BY <1>1, <1>2, <1>3, <1>4, <1>5, <1>6, <1>7, <1>8, <1>9 DEF ResumeStep

LEMMA CStepShape == ASSUME IInv, CStep PROVE Shape'
<1>1. CASE CAwaitStarted /\ UNCHANGED rm
  BY <1>1 DEF CAwaitStarted
<1>2. CASE CWaitDelay /\ UNCHANGED rm
  BY <1>2 DEF CWaitDelay
<1>3. CASE CInvalidateStamp /\ UNCHANGED rm
  BY <1>3 DEF CInvalidateStamp
<1>4. CASE CGo /\ UNCHANGED rm
  BY <1>4 DEF CGo
<1>5. CASE CGetA /\ UNCHANGED rm
  BY <1>5 DEF CGetA
<1>6. CASE CGetB /\ UNCHANGED rm
  BY <1>6 DEF CGetB
<1>7. CASE CCatch /\ UNCHANGED rm
  BY <1>7 DEF CCatch
<1>8. CASE CInvalidate
  <2>1. ClockInv'
    BY <1>8 DEF CInvalidate
  <2>2. FlagInv'
    BY <1>8 DEF CInvalidate
  <2>3. BranchInv'
    BY <1>8 DEF CInvalidate
  <2>4. OrderInv'
    BY <1>8 DEF CInvalidate
  <2>5. ControlInv'
    BY <1>8 DEF CInvalidate
  <2>6. HoldInv'
    BY <1>8 DEF CInvalidate
  <2>7. KernelInv'
    BY <1>8 DEF CInvalidate
  <2>8. ErrorInv'
    BY <1>8 DEF CInvalidate
  <2> QED
    BY <2>1, <2>2, <2>3, <2>4, <2>5, <2>6, <2>7, <2>8
<1>9. CASE CReport
  BY <1>9 DEF CReport, OrderHolds, HoldOrderHolds
<1> QED
  BY <1>1, <1>2, <1>3, <1>4, <1>5, <1>6, <1>7, <1>8, <1>9 DEF CStep, SharedCStep

LEMMA OtherStepShape == ASSUME IInv, OtherStep PROVE Shape'
<1>1. CASE ThrowFrom("A", AMayThrow) /\ UNCHANGED rm
  BY <1>1 DEF ThrowFrom, AMayThrow
<1>2. CASE ThrowFrom("B", BMayThrow) /\ UNCHANGED rm
  <2>1. ClockInv'
    BY <1>2 DEF ThrowFrom, BMayThrow
  <2>2. FlagInv'
    BY <1>2 DEF ThrowFrom, BMayThrow
  <2>3. BranchInv'
    BY <1>2 DEF ThrowFrom, BMayThrow
  <2>4. OrderInv'
    BY <1>2 DEF ThrowFrom, BMayThrow
  <2>5. ControlInv'
    BY <1>2 DEF ThrowFrom, BMayThrow
  <2>6. HoldInv'
    BY <1>2 DEF ThrowFrom, BMayThrow
  <2>7. KernelInv'
    BY <1>2 DEF ThrowFrom, BMayThrow
  <2>8. ErrorInv'
    BY <1>2 DEF ThrowFrom, BMayThrow
  <2> QED
    BY <2>1, <2>2, <2>3, <2>4, <2>5, <2>6, <2>7, <2>8
<1>3. CASE ThrowFrom("C", CMayThrow) /\ UNCHANGED rm
  BY <1>3 DEF ThrowFrom, CMayThrow
<1>4. ASSUME NEW from \in ControlPlaces,
             ControlClockFault(from, IF from \in {"undo", "undoing"} THEN "failed" ELSE "catch")
      PROVE  Shape'
  BY <1>4 DEF ControlClockFault
<1>5. CASE OwnerCatch("B") /\ UNCHANGED rm
  <2>1. ClockInv'
    BY <1>5 DEF OwnerCatch
  <2>2. FlagInv'
    BY <1>5 DEF OwnerCatch
  <2>3. BranchInv'
    BY <1>5 DEF OwnerCatch
  <2>4. OrderInv'
    BY <1>5 DEF OwnerCatch
  <2>5. ControlInv'
    BY <1>5 DEF OwnerCatch
  <2>6. HoldInv'
    BY <1>5 DEF OwnerCatch
  <2>7. KernelInv'
    BY <1>5 DEF OwnerCatch
  <2>8. ErrorInv'
    BY <1>5 DEF OwnerCatch
  <2> QED
    BY <2>1, <2>2, <2>3, <2>4, <2>5, <2>6, <2>7, <2>8
<1>6. ASSUME NEW k \in Owners, KernelBegin(k), RmGpuStep(k) PROVE Shape'
  <2>1. CASE k = "A"
    <3>1. ClockInv'
      BY <1>6, <2>1 DEF KernelBegin, RmGpuStep
    <3>2. FlagInv'
      BY <1>6, <2>1 DEF KernelBegin, RmGpuStep
    <3>3. BranchInv'
      BY <1>6, <2>1 DEF KernelBegin, RmGpuStep
    <3>4. OrderInv'
      BY <1>6, <2>1 DEF KernelBegin, RmGpuStep
    <3>5. ControlInv'
      BY <1>6, <2>1 DEF KernelBegin, RmGpuStep
    <3>6. HoldInv'
      BY <1>6, <2>1 DEF KernelBegin, RmGpuStep
    <3>7. KernelInv'
      BY <1>6, <2>1 DEF KernelBegin, RmGpuStep
    <3>8. ErrorInv'
      BY <1>6, <2>1 DEF KernelBegin, RmGpuStep
    <3> QED
      BY <3>1, <3>2, <3>3, <3>4, <3>5, <3>6, <3>7, <3>8
  <2>2. CASE k = "B"
    <3>1. ClockInv'
      BY <1>6, <2>2 DEF KernelBegin, RmGpuStep
    <3>2. FlagInv'
      BY <1>6, <2>2 DEF KernelBegin, RmGpuStep
    <3>3. BranchInv'
      BY <1>6, <2>2 DEF KernelBegin, RmGpuStep
    <3>4. OrderInv'
      BY <1>6, <2>2 DEF KernelBegin, RmGpuStep
    <3>5. ControlInv'
      BY <1>6, <2>2 DEF KernelBegin, RmGpuStep
    <3>6. HoldInv'
      BY <1>6, <2>2 DEF KernelBegin, RmGpuStep
    <3>7. KernelInv'
      BY <1>6, <2>2 DEF KernelBegin, RmGpuStep
    <3>8. ErrorInv'
      BY <1>6, <2>2 DEF KernelBegin, RmGpuStep
    <3> QED
      BY <3>1, <3>2, <3>3, <3>4, <3>5, <3>6, <3>7, <3>8
  <2> QED
    BY <2>1, <2>2 DEF Owners
<1>7. ASSUME NEW k \in Owners, KernelEnd(k), RmGpuStep(k) PROVE Shape'
  <2>1. CASE k = "A"
    BY <1>7, <2>1 DEF KernelEnd, RmGpuStep, Held
  <2>2. CASE k = "B"
    <3>1. ClockInv'
      BY <1>7, <2>2 DEF KernelEnd, RmGpuStep
    <3>2. FlagInv'
      BY <1>7, <2>2 DEF KernelEnd, RmGpuStep
    <3>3. BranchInv'
      BY <1>7, <2>2 DEF KernelEnd, RmGpuStep
    <3>4. OrderInv'
      BY <1>7, <2>2 DEF KernelEnd, RmGpuStep
    <3>5. ControlInv'
      BY <1>7, <2>2 DEF KernelEnd, RmGpuStep
    <3>6. HoldInv'
      BY <1>7, <2>2 DEF KernelEnd, RmGpuStep
    <3>7. KernelInv'
      BY <1>7, <2>2 DEF KernelEnd, RmGpuStep
    <3>8. ErrorInv'
      BY <1>7, <2>2 DEF KernelEnd, RmGpuStep
    <3> QED
      BY <3>1, <3>2, <3>3, <3>4, <3>5, <3>6, <3>7, <3>8
  <2> QED
    BY <2>1, <2>2 DEF Owners
<1> HIDE DEF IInv, Shape
<1> QED
  BY <1>1, <1>2, <1>3, <1>4, <1>5, <1>6, <1>7
  DEF OtherStep, Throw, AClockFault, RmGpuStep, GpuStep

LEMMA IInvInit == Init => IInv
BY ConditionsAssumption, TypeInit DEF Init, InitCall, RmConditions

LEMMA IInvNext == IInv /\ [Next]_rmVars => IInv'
<1> SUFFICES ASSUME IInv, [Next]_rmVars PROVE Shape'
  BY TypeNext
<1>1. CASE UNCHANGED rmVars
  BY <1>1 DEF rmVars, vars, EventPending
<1> HIDE DEF IInv, Shape
<1> QED
  BY <1>1, StepCases, BStepShape, SharedAStepShape, StopStepShape, ResumeStepShape,
    CStepShape, OtherStepShape

HIDE DEF IInv, TypeOK

\* The inductive invariant.
THEOREM Inductive == Spec => []IInv
BY IInvInit, IInvNext, PTL DEF Spec

--------------------------------------------------------------------------------
(* What the invariant says of the program.                                  *)

\* A hold is real: A is off the GPU while B runs, the observation covers B's
\* run, and A is frozen in it.
THEOREM HoldsAreReal == Spec => []HoldIsReal
<1>1. IInv => HeldWhileBRuns
  BY DEF IInv, TypeOK, HeldWhileBRuns
<1>2. IInv => HoldFreezesA
  BY DEF IInv, TypeOK, HoldFreezesA
<1>3. IInv => IntervalCoversB
  BY DEF IInv, TypeOK, IntervalCoversB
<1> HIDE DEF HeldWhileBRuns, HoldFreezesA, IntervalCoversB
<1> QED
  BY <1>1, <1>2, <1>3, Inductive, PTL DEF HoldIsReal

\* The error path undoes a known disable and no other.
THEOREM UndoIsCorrect == Spec => []UndoIsRight
<1>1. IInv => OnlyUndoesKnown
  BY DEF IInv, TypeOK, OnlyUndoesKnown
<1>2. IInv => NeverLeftHeld
  BY DEF IInv, TypeOK, NeverLeftHeld
<1> HIDE DEF OnlyUndoesKnown, NeverLeftHeld
<1> QED
  BY <1>1, <1>2, Inductive, PTL DEF UndoIsRight

\* rm_trial tells the truth about itself and leaves nothing behind.
THEOREM ReturnsClean == Spec => []ReturnIsClean
<1>1. IInv => ChecksNeverFire
  BY DEF IInv, TypeOK, ChecksNeverFire
<1>2. IInv => FailureIsReported
  BY DEF IInv, TypeOK, FailureIsReported
<1>3. IInv => FrameOutlivesTasks
  BY DEF IInv, TypeOK, FrameOutlivesTasks
<1>4. IInv => QuietAfterReturn
  <2> SUFFICES ASSUME IInv, result = "ok"
               PROVE  channel = "enabled" /\ kernel.A = "done" /\ kernel.B = "done"
    BY DEF QuietAfterReturn
  <2>1. pc.A = "finished" /\ pc.B = "finished"
    BY <1>2 DEF FailureIsReported
  <2> QED
    BY <2>1 DEF IInv, TypeOK, Owners
<1> HIDE DEF ChecksNeverFire, FailureIsReported, FrameOutlivesTasks, QuietAfterReturn
<1> QED
  BY <1>1, <1>2, <1>3, <1>4, Inductive, PTL DEF ReturnIsClean

LEMMA AnsweredStays ==
  ASSUME IInv, [Next]_rmVars, NEW name \in {"disable", "enable"}, r[name].result # "unset"
  PROVE  r'[name].begin = r[name].begin
<1> USE DEF IInv, TypeOK
<1>1. CASE SharedAStep \/ OtherStep \/ UNCHANGED rm
  BY <1>1 DEF SharedAStep, OtherStep, Throw, AClockFault, ControlClockFault, RmGpuStep, rmVars
<1>2. CASE StopStep
  <2>1. CASE ADisable \/ ADisableReturn
    BY <2>1 DEF ADisable, ADisableReturn, ControlCall, ControlReturn
  <2>2. CASE APreempt \/ AControlReady \/ AHoldQuery
    <3>1. CASE APreempt
      BY ONLY <3>1, r \in Record, name \in {"disable", "enable"} DEF APreempt, Record
    <3>2. CASE AControlReady
      BY ONLY <3>2, r \in Record, name \in {"disable", "enable"} DEF AControlReady, Record
    <3>3. CASE AHoldQuery
      BY ONLY <3>3, r \in Record, name \in {"disable", "enable"} DEF AHoldQuery, Record
    <3> QED
      BY <2>2, <3>1, <3>2, <3>3
  <2>3. CASE AAwaitArmed \/ AQuery \/ AGo \/ AAwaitDone \/ APostQuery \/ AHoldWait
    BY <2>3 DEF AAwaitArmed, AQuery, AGo, AAwaitDone, APostQuery, AHoldWait
  <2> QED
    BY <1>2, <2>1, <2>2, <2>3 DEF StopStep
<1>3. CASE ResumeStep
  BY <1>3 DEF ResumeStep, AEnable, ControlCall, AEnableReturn, ControlReturn, AFinish,
    ACompare, AReuseStamp, AReuse, ACatch, AUndo, AUndoReturn
<1>4. CASE CStep
  BY <1>4 DEF CStep, SharedCStep, CInvalidate, CReport
<1>5. CASE UNCHANGED rmVars
  BY <1>5 DEF rmVars
<1> HIDE DEF IInv, TypeOK
<1> QED
  BY <1>1, <1>2, <1>3, <1>4, <1>5, StepCases

\* No control is ever issued again once it has been answered.
THEOREM ControlsAreNotRetried == Spec => NeverRetried
<1>1. IInv /\ [Next]_rmVars =>
        [\A name \in {"disable", "enable"} :
           r[name].result # "unset" => r'[name].begin = r[name].begin]_rmVars
  BY AnsweredStays
<1> QED
  BY <1>1, Inductive, PTL DEF Spec, NeverRetried

================================================================================
