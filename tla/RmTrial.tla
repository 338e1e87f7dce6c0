-------------------------------- MODULE RmTrial --------------------------------
(****************************************************************************)
(* rm_trial (src/src/rm_handoff.hpp): one handoff in which A's context      *)
(* stays alive and A is stopped by resource-manager (RM) controls, issued   *)
(* through RmBridge.control by A's own thread.                              *)
(*                                                                          *)
(* TwoOwners has B's task, A's task until the invalidation and the flags.   *)
(* Here are A's controls, the observation interval, the re-enable and its   *)
(* one attempt on the error path, and the controller's end of the call.     *)
(*                                                                          *)
(* A control that reports success and acceptance took effect; of one that   *)
(* reports anything else nobody knows whether it did.                       *)
(****************************************************************************)
EXTENDS TwoOwners, FiniteSets

CONSTANTS
  Conditions,     \* the conditions a run exercises
  MaxClockFaults  \* bound: failures of now_ns inside RmBridge.control

FifoHold == {"preempt-hold", "fifo-hold"}
Hold     == FifoHold \union {"schedule-hold"}
RmConditions == Hold \union {"live-handoff", "preempt-resume"}

ASSUME ConditionsAssumption == Conditions \subseteq RmConditions
ASSUME FaultsAssumption == MaxClockFaults \in Nat

VARIABLES
  r,           \* the RmRecord fields the call compares or reports
  disabled,    \* A's local variable: a disable is known to have succeeded
  channel,     \* ground truth: whether the GPU may schedule A's channels
  clockFaults  \* where now_ns has failed inside RmBridge.control

rm     == <<r, disabled, channel, clockFaults>>
rmVars == <<vars, rm>>

live == condition = "live-handoff"
hold == condition \in Hold

\* FIFO_DISABLE_CHANNELS keeps A off the GPU until the re-enable.  The group
\* schedule control is accepted too, but A has been seen to run on under it.
Held == channel = "disabled" /\ condition \in FifoHold

Call == [begin |-> 0, end |-> 0, result |-> "unset"]

Init ==
  /\ condition \in Conditions
  /\ InitCall
  /\ r = [control_ready |-> 0, preempt_end |-> 0, disable |-> Call, enable |-> Call,
          hold_query |-> 0, pending_before_rearm |-> "unset", reuse_launch |-> 0]
  /\ disabled = FALSE
  /\ channel = "enabled"
  /\ clockFaults = {}

--------------------------------------------------------------------------------
(* RmBridge.control.  It stamps, calls the bridge, stamps, and throws unless *)
(* the call was reported as successful and accepted.                        *)

\* The call itself; took says whether the RM acted on it.
ControlCall(name, from, to, effect) ==
  /\ Goto("A", from, to)
  /\ clock' = clock + 1
  /\ \E reported \in {"accepted", "unaccepted", "error"}, took \in BOOLEAN :
       /\ reported = "accepted" => took
       /\ r' = [r EXCEPT ![name] = [begin |-> clock + 1, end |-> 0, result |-> reported]]
       /\ channel' = IF took THEN effect ELSE channel
  /\ UNCHANGED <<signals, s, sideEffects, reports, disabled, clockFaults>>

\* The return of the call.
ControlReturn(name, from, to, otherwise) ==
  /\ Goto("A", from, IF r[name].result = "accepted" THEN to ELSE otherwise)
  /\ clock' = clock + 1
  /\ r' = [r EXCEPT ![name].end = clock + 1]
  /\ UNCHANGED <<signals, s, sideEffects, reports, channel, clockFaults>>

\* now_ns fails before the call or after it: the control throws.
ControlClockFault(from, otherwise) ==
  /\ Cardinality(clockFaults) < MaxClockFaults
  /\ clockFaults' = clockFaults \union {from}
  /\ Goto("A", from, otherwise)
  /\ UNCHANGED <<quiet, r, disabled, channel>>

--------------------------------------------------------------------------------
(* Faulty variants of steps below.  No specification uses them: each shows   *)
(* that a property notices the mistake it makes.                            *)

\* The status of the disable is recorded but not checked.
ADisableReturnUnchecked ==
  /\ Goto("A", "disabling", "control_ready")
  /\ clock' = clock + 1
  /\ r' = [r EXCEPT !.disable.end = clock + 1]
  /\ disabled' = TRUE
  /\ UNCHANGED <<signals, s, sideEffects, reports, channel, clockFaults>>

\* A goes on when it has started, not when B is done.
AAwaitDoneEarly ==
  /\ Await("A", "a_started", "await_done", "post_query", "catch")
  /\ UNCHANGED <<quiet, rm>>

\* The first answer of the event is reported for the query after B.
APostQueryStale ==
  /\ Goto("A", "post_query", "hold_wait")
  /\ clock' = clock + 2
  /\ s' = [s EXCEPT !.a_post_b_query_begin = clock + 1, !.a_post_b_query_end = clock + 2,
                    !.a_pending_after_b = s.a_pending, !.a_alive_after_b = "yes"]
  /\ UNCHANGED <<signals, sideEffects, reports, rm>>

\* finish_long does not synchronize.
AFinishAtOnce ==
  /\ Goto("A", "finish", "compare")
  /\ Stamp("a_complete_observed")
  /\ UNCHANGED <<signals, sideEffects, reports, rm>>

\* The error path re-enables A whether or not that has been tried.
ACatchRetries ==
  /\ Goto("A", "catch", IF disabled THEN "undo" ELSE "failed")
  /\ Raise("cancelled")
  /\ UNCHANGED <<s, clock, sideEffects, reports, rm>>

\* The error path re-enables A after any disable it has sent.
ACatchUndoesUnknown ==
  /\ Goto("A", "catch",
          IF r.disable.result # "unset" /\ r.enable.result = "unset" THEN "undo" ELSE "failed")
  /\ Raise("cancelled")
  /\ UNCHANGED <<s, clock, sideEffects, reports, rm>>

\* The error path leaves A as it is.
ACatchAbandons ==
  /\ Goto("A", "catch", "failed")
  /\ Raise("cancelled")
  /\ UNCHANGED <<s, clock, sideEffects, reports, rm>>

\* The controller forgets the start of a live observation interval.
CInvalidateOnly ==
  /\ Goto("C", "invalidate", IF live THEN "go" ELSE "get_a")
  /\ Raise("invalidate")
  /\ UNCHANGED <<s, clock, sideEffects, reports, rm>>

--------------------------------------------------------------------------------
(* A's task.                                                                *)

AAwaitArmed ==
  /\ Await("A", "b_armed", "await_armed", "launch_stamp", "abandoned")
  /\ UNCHANGED <<quiet, rm>>

\* A that has already finished ends the whole run.
AQuery ==
  /\ Goto("A", "query",
          IF EventPending = "no" THEN "catch"
          ELSE IF live THEN "await_done"
          ELSE IF condition = "fifo-hold" THEN "disable" ELSE "preempt")
  /\ s' = [s EXCEPT !.a_pending = EventPending]
  /\ UNCHANGED <<signals, clock, sideEffects, reports, rm>>

\* Group PREEMPT takes A off the GPU once and leaves it runnable; a failure is
\* one of the exceptions below.
APreempt ==
  /\ Goto("A", "preempt", IF hold THEN "disable" ELSE "control_ready")
  /\ clock' = clock + 1
  /\ r' = [r EXCEPT !.preempt_end = clock + 1]
  /\ UNCHANGED <<signals, s, sideEffects, reports, disabled, channel, clockFaults>>

ADisable == ControlCall("disable", "disable", "disabling", "disabled")

ADisableReturn ==
  /\ ControlReturn("disable", "disabling", "control_ready", "catch")
  /\ disabled' = (r.disable.result = "accepted")

AControlReady ==
  /\ Goto("A", "control_ready", "go")
  /\ clock' = clock + 1
  /\ r' = [r EXCEPT !.control_ready = clock + 1]
  /\ UNCHANGED <<signals, s, sideEffects, reports, disabled, channel, clockFaults>>

AGo ==
  /\ Goto("A", "go", "await_done")
  /\ Raise("b_go")
  /\ UNCHANGED <<s, clock, sideEffects, reports, rm>>

\* Here a cancellation is an exception: "B failed during the RM experiment".
AAwaitDone ==
  /\ Await("A", "b_done", "await_done", "post_query", "catch")
  /\ UNCHANGED <<quiet, rm>>

APostQuery ==
  /\ Goto("A", "post_query", "hold_wait")
  /\ clock' = clock + 2
  /\ s' = [s EXCEPT !.a_post_b_query_begin = clock + 1, !.a_post_b_query_end = clock + 2,
                    !.a_pending_after_b = EventPending, !.a_alive_after_b = "yes"]
  /\ UNCHANGED <<signals, sideEffects, reports, rm>>

\* The interval passes; it is not cut short by a cancellation.
AHoldWait ==
  /\ Goto("A", "hold_wait", "hold_query")
  /\ UNCHANGED <<quiet, rm>>

AHoldQuery ==
  /\ Goto("A", "hold_query", IF disabled THEN "enable" ELSE "finish")
  /\ clock' = clock + 1
  /\ r' = [r EXCEPT !.hold_query = clock + 1, !.pending_before_rearm = EventPending]
  /\ UNCHANGED <<signals, s, sideEffects, reports, disabled, channel, clockFaults>>

AEnable == ControlCall("enable", "enable", "enabling", "enabled")

AEnableReturn ==
  /\ ControlReturn("enable", "enabling", "finish", "catch")
  /\ disabled' = (r.enable.result # "accepted")

AFinish ==
  /\ Goto("A", "finish", "compare")
  /\ kernel.A = "done"
  /\ Stamp("a_complete_observed")
  /\ UNCHANGED <<signals, sideEffects, reports, rm>>

\* A's whole output equals the reference; otherwise it throws.
ACompare ==
  /\ Goto("A", "compare", "reuse_stamp")
  /\ UNCHANGED <<quiet, rm>>

AReuseStamp ==
  /\ Goto("A", "reuse_stamp", "reuse")
  /\ clock' = clock + 1
  /\ r' = [r EXCEPT !.reuse_launch = clock + 1]
  /\ UNCHANGED <<signals, s, sideEffects, reports, disabled, channel, clockFaults>>

\* run_tiny on A and the comparison of its context and buffer.
AReuse ==
  /\ Goto("A", "reuse", "finished")
  /\ ~Held
  /\ UNCHANGED <<quiet, rm>>

\* "Only undo a known-successful disable", and only if that was not tried yet.
ACatch ==
  /\ Goto("A", "catch",
          IF disabled /\ r.enable.result = "unset" THEN "undo" ELSE "failed")
  /\ Raise("cancelled")
  /\ UNCHANGED <<s, clock, sideEffects, reports, rm>>

AUndo == ControlCall("enable", "undo", "undoing", "enabled")

\* Whatever became of it, the first exception is the one rethrown.
AUndoReturn ==
  /\ ControlReturn("enable", "undoing", "failed", "failed")
  /\ UNCHANGED disabled

ControlPlaces == {"disable", "disabling", "enable", "enabling", "undo", "undoing"}

AClockFault ==
  \E from \in ControlPlaces :
    ControlClockFault(from, IF from \in {"undo", "undoing"} THEN "failed" ELSE "catch")

AMayThrow == {"launch_stamp", "launch", "await_marker", "start_stamp", "query", "preempt",
              "control_ready", "post_query", "hold_wait", "hold_query", "finish",
              "compare", "reuse_stamp", "reuse"}

--------------------------------------------------------------------------------
(* The controller.                                                          *)

CInvalidate ==
  /\ Goto("C", "invalidate", IF live THEN "go" ELSE "get_a")
  /\ r' = [r EXCEPT !.control_ready = IF live THEN s.invalidate ELSE @]
  /\ Raise("invalidate")
  /\ UNCHANGED <<s, clock, sideEffects, reports, disabled, channel, clockFaults>>

\* "RM host timestamp order violated"
OrderHolds ==
  /\ s.a_start_observed <= s.invalidate /\ s.invalidate <= s.b_launch
  /\ s.b_launch <= s.b_complete /\ s.b_complete <= s.a_post_b_query_begin
  /\ s.a_post_b_query_end <= r.hold_query /\ r.hold_query <= s.a_complete_observed
  /\ s.a_complete_observed <= r.reuse_launch

\* "RM disable/re-enable ordering violated"
HoldOrderHolds ==
  /\ r.preempt_end = 0 \/ r.preempt_end <= r.disable.begin
  /\ r.disable.end <= s.b_launch
  /\ r.hold_query <= r.enable.begin

CReport ==
  /\ Goto("C", "report", "returned")
  /\ result' = IF error # "none" THEN "error"
               ELSE IF ~OrderHolds \/ (hold /\ ~HoldOrderHolds) THEN "order_violated"
               ELSE "ok"
  /\ UNCHANGED <<condition, error, signals, s, clock, sideEffects, rm>>

--------------------------------------------------------------------------------

RmGpuStep(k) == GpuStep(k) /\ ~(k = "A" /\ Held) /\ UNCHANGED rm

SharedAStep ==
  /\ ALaunchStamp \/ ALaunch \/ AAwaitMarker \/ AStartStamp \/ AAnnounce
     \/ AAwaitInvalidate
  /\ UNCHANGED rm

AStep ==
  \/ SharedAStep \/ AAwaitArmed \/ AQuery \/ APreempt \/ ADisable \/ ADisableReturn
  \/ AControlReady \/ AGo \/ AAwaitDone \/ APostQuery \/ AHoldWait \/ AHoldQuery
  \/ AEnable \/ AEnableReturn \/ AFinish \/ ACompare \/ AReuseStamp \/ AReuse
  \/ ACatch \/ AUndo \/ AUndoReturn

RmBStep == (BStep \/ OwnerCatch("B")) /\ UNCHANGED rm

SharedCStep ==
  /\ CAwaitStarted \/ CWaitDelay \/ CInvalidateStamp \/ CGo \/ CGetA \/ CGetB \/ CCatch
  /\ UNCHANGED rm

CStep == SharedCStep \/ CInvalidate \/ CReport

Throw ==
  /\ ThrowFrom("A", AMayThrow) \/ ThrowFrom("B", BMayThrow) \/ ThrowFrom("C", CMayThrow)
  /\ UNCHANGED rm

Returned == result # "none" /\ UNCHANGED rmVars

Next ==
  \/ AStep \/ RmBStep \/ CStep
  \/ Throw \/ AClockFault
  \/ \E k \in Owners : RmGpuStep(k)
  \/ Returned

\* As in takeover: threads are scheduled and kernels are finite, if not held.
Fairness ==
  /\ WF_rmVars(AStep)
  /\ WF_rmVars(RmBStep)
  /\ WF_rmVars(CStep)
  /\ \A k \in Owners : WF_rmVars(RmGpuStep(k))

Spec == Init /\ [][Next]_rmVars /\ Fairness

--------------------------------------------------------------------------------
(* Properties.                                                              *)

Calls == [begin : Nat, end : Nat, result : {"unset", "accepted", "unaccepted", "error"}]

Record == [control_ready : Nat, preempt_end : Nat, disable : Calls, enable : Calls,
           hold_query : Nat, pending_before_rearm : Answers, reuse_launch : Nat]

\* The type of every variable.
TypeOK ==
  /\ condition \in Conditions
  /\ signals \in [Flags -> BOOLEAN]
  /\ s \in Sample
  /\ clock \in Nat
  /\ kernel \in [Owners -> {"queued", "running", "done"}]
  /\ completed \in Nat
  /\ error \in {"none", "A", "B", "C"}
  /\ result \in {"none", "ok", "error", "order_violated"}
  /\ r \in Record
  /\ disabled \in BOOLEAN
  /\ channel \in {"enabled", "disabled"}
  /\ clockFaults \subseteq ControlPlaces

\* The two ordering checks at the end of rm_trial are unreachable.
ChecksNeverFire == result # "order_violated"

\* "Persistent stop begins when the FIFO disable returns successfully": while
\* B's task has a kernel on the GPU, A's channels stay disabled.
HeldWhileBRuns ==
  condition \in FifoHold /\ kernel.B \in Busy /\ pc.B \notin {"catch", "failed"} =>
    channel = "disabled"

\* Under a FIFO hold A makes no progress between B's completion and the end of
\* the observation interval, so both reported queries give the same answer.
HoldFreezesA ==
  result = "ok" /\ condition \in FifoHold => r.pending_before_rearm = s.a_pending_after_b

\* The interval in which A is observed starts after the invalidation and before
\* B's launch, so it covers B's run, whoever stamped its start.
IntervalCoversB ==
  r.hold_query # 0 => s.invalidate <= r.control_ready /\ r.control_ready <= s.b_launch

\* "Failed or unknown states do not retry a control": once a call has been
\* answered, it is not issued again.
NeverRetried ==
  [][\A name \in {"disable", "enable"} :
       r[name].result # "unset" => r'[name].begin = r[name].begin]_rmVars

\* "Only undo a known-successful disable".
OnlyUndoesKnown == r.enable.result # "unset" => r.disable.result = "accepted"

\* A task that ends while it knows A to be disabled has tried to re-enable it,
\* even if the clock failed in the first try: only the clock failing in the
\* error path itself leaves A disabled without a try.
NeverLeftHeld ==
  Settled("A") /\ disabled => r.enable.result # "unset" \/ "undo" \in clockFaults

\* After a normal return A's channels are enabled, its kernel has completed and
\* B is done: the next trial starts from an idle GPU.
QuietAfterReturn ==
  result = "ok" => /\ channel = "enabled"
                   /\ kernel.A = "done" /\ kernel.B = "done"

\* An exception in any of the three threads reaches the caller, and no task that
\* left early is taken for a success.
FailureIsReported ==
  /\ result = "ok" => pc.A = "finished" /\ pc.B = "finished"
  /\ result # "none" =>
       (result = "error" <=> (error = "C" \/ pc.A = "failed" \/ pc.B = "failed"))

\* When rm_trial returns neither task can touch its stack frame again.
FrameOutlivesTasks == result # "none" => Settled("A") /\ Settled("B")

\* A hold is what it is reported to be: A is off the GPU while B runs, the
\* observation interval covers B's run, and A is frozen in it.
HoldIsReal == HeldWhileBRuns /\ HoldFreezesA /\ IntervalCoversB

\* The error path re-enables A when it is known to be disabled, and only then.
UndoIsRight == OnlyUndoesKnown /\ NeverLeftHeld

\* rm_trial tells the truth about itself: success when everything ran, an
\* exception when something failed, never a failed self-check; and it leaves
\* nothing behind, neither on the GPU nor in its tasks.
ReturnIsClean ==
  ChecksNeverFire /\ FailureIsReported /\ FrameOutlivesTasks /\ QuietAfterReturn

\* The call returns or throws, whatever fails and however the controls end: no
\* wait is for a kernel that is held.
AlwaysReturns == <>(result # "none")

================================================================================
