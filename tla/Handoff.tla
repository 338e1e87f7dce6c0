-------------------------------- MODULE Handoff --------------------------------
(****************************************************************************)
(* takeover (src/src/main.cpp): one handoff from context A to context B.    *)
(*                                                                          *)
(* TwoOwners has what this call shares with rm_trial; here are A's task     *)
(* once it has seen the invalidation, the controller's end of the call, and *)
(* the properties.                                                          *)
(****************************************************************************)
EXTENDS TwoOwners

CONSTANTS Conditions  \* the conditions a run exercises

Serial == {"destroy", "wait-then-destroy"}
Keep   == {"idle", "live-handoff"}

ASSUME ConditionsAssumption == Conditions \subseteq Serial \union Keep

idle   == condition = "idle"
keep_a == condition \in Keep

Init ==
  /\ condition \in Conditions
  /\ InitCall

--------------------------------------------------------------------------------
(* Faulty variants of steps below.  No specification uses them: each shows   *)
(* that a property notices the mistake it makes.                            *)

\* A's start was seen, so A is taken to be pending without asking the event.
AQuerySkipped ==
  /\ Goto("A", "query",
          IF keep_a THEN "await_done"
          ELSE IF condition = "wait-then-destroy" THEN "wait_done" ELSE "destroy_begin")
  /\ s' = [s EXCEPT !.a_pending = IF idle THEN "no" ELSE "yes"]
  /\ UNCHANGED <<signals, clock, sideEffects, reports>>

\* The answer of the first query is reported for the second one.
APostQueryStale ==
  /\ Goto("A", "post_query", IF idle THEN "finished" ELSE "finish")
  /\ clock' = clock + 2
  /\ s' = [s EXCEPT !.a_post_b_query_begin = clock + 1, !.a_post_b_query_end = clock + 2,
                    !.a_pending_after_b = s.a_pending,
                    !.a_alive_after_b = IF ctx THEN "yes" ELSE "no"]
  /\ UNCHANGED <<signals, sideEffects, reports>>

\* finish_long does not synchronize.
AFinishAtOnce ==
  /\ Goto("A", "finish", "finished")
  /\ Stamp("a_complete_observed")
  /\ UNCHANGED <<signals, sideEffects, reports>>

\* The result of cuCtxDestroy is recorded but not checked.
ADestroyUnchecked ==
  /\ Goto("A", "not_destroyed", "release")
  /\ clock' = clock + 1
  /\ s' = [s EXCEPT !.destroy_return = clock + 1, !.destroy_result = "failure",
                    !.a_alive_after_b = "no"]
  /\ UNCHANGED <<signals, sideEffects, reports>>

\* The controller releases B in every condition.
CInvalidateThenGo ==
  /\ Goto("C", "invalidate", "go")
  /\ Raise("invalidate")
  /\ UNCHANGED <<s, clock, sideEffects, reports>>

--------------------------------------------------------------------------------
(* A's task.                                                                *)

AAwaitArmed ==
  /\ Await("A", "b_armed", "await_armed",
           IF idle THEN "announce" ELSE "launch_stamp", "abandoned")
  /\ UNCHANGED quiet

AQuery ==
  /\ Goto("A", "query",
          IF keep_a THEN "await_done"
          ELSE IF condition = "wait-then-destroy" THEN "wait_done" ELSE "destroy_begin")
  /\ s' = [s EXCEPT !.a_pending = EventPending]
  /\ UNCHANGED <<signals, clock, sideEffects, reports>>

AAwaitDone ==
  /\ Await("A", "b_done", "await_done", "post_query", "abandoned")
  /\ UNCHANGED quiet

APostQuery ==
  /\ Goto("A", "post_query", IF idle THEN "finished" ELSE "finish")
  /\ clock' = clock + 2
  /\ s' = [s EXCEPT !.a_post_b_query_begin = clock + 1, !.a_post_b_query_end = clock + 2,
                    !.a_pending_after_b = EventPending,
                    !.a_alive_after_b = IF ctx THEN "yes" ELSE "no"]
  /\ UNCHANGED <<signals, sideEffects, reports>>

\* finish_long: A completes naturally, its context stays alive.
AFinish ==
  /\ Goto("A", "finish", "finished")
  /\ kernel.A = "done"
  /\ Stamp("a_complete_observed")
  /\ UNCHANGED <<signals, sideEffects, reports>>

AWaitDone ==
  /\ Goto("A", "wait_done", "destroy_begin")
  /\ kernel.A = "done"
  /\ UNCHANGED quiet

\* destroy gives up every handle before it calls the Driver.
ADestroyBegin ==
  /\ Goto("A", "destroy_begin", "destroy")
  /\ Stamp("destroy_begin")
  /\ ctx' = FALSE
  /\ UNCHANGED <<signals, kernel, completed, reports>>

\* cuCtxDestroy ends whatever A still runs, or fails and ends nothing.
ADestroy ==
  /\ \/ /\ Goto("A", "destroy", "destroyed")
        /\ kernel' = [kernel EXCEPT !.A = IF @ \in Busy THEN "killed" ELSE @]
     \/ /\ Goto("A", "destroy", "not_destroyed")
        /\ UNCHANGED kernel
  /\ UNCHANGED <<signals, s, clock, ctx, completed, reports>>

\* Its result is recorded once the clock has been read.
ADestroyReturn ==
  /\ Goto("A", "destroyed", "release")
  /\ clock' = clock + 1
  /\ s' = [s EXCEPT !.destroy_return = clock + 1, !.destroy_result = "success",
                    !.a_alive_after_b = "no"]
  /\ UNCHANGED <<signals, sideEffects, reports>>

\* A result other than success is recorded and thrown.
ADestroyFailed ==
  /\ Goto("A", "not_destroyed", "catch")
  /\ clock' = clock + 1
  /\ s' = [s EXCEPT !.destroy_return = clock + 1, !.destroy_result = "failure"]
  /\ UNCHANGED <<signals, sideEffects, reports>>

ARelease ==
  /\ Goto("A", "release", "finished")
  /\ Raise("b_go")
  /\ UNCHANGED <<s, clock, sideEffects, reports>>

--------------------------------------------------------------------------------
(* The controller.                                                          *)

CInvalidate ==
  /\ Goto("C", "invalidate", IF keep_a THEN "go" ELSE "get_a")
  /\ Raise("invalidate")
  /\ UNCHANGED <<s, clock, sideEffects, reports>>

\* The condition under which takeover throws "Host timestamp ordering violated".
OrderHolds ==
  /\ s.invalidate <= s.b_launch /\ s.b_launch <= s.b_complete
  /\ ~idle => s.b_ready <= s.a_launch /\ s.a_start_observed <= s.invalidate
  /\ ~keep_a => /\ s.invalidate <= s.destroy_begin
                /\ s.destroy_begin <= s.destroy_return
                /\ s.destroy_return <= s.b_launch
  /\ keep_a => /\ s.destroy_begin = 0
               /\ s.destroy_return = 0
               /\ s.a_alive_after_b = "yes"
               /\ s.b_complete <= s.a_post_b_query_begin
               /\ s.a_post_b_query_begin <= s.a_post_b_query_end

CReport ==
  /\ Goto("C", "report", "returned")
  /\ result' = IF error # "none" THEN "error"
               ELSE IF idle /\ s.a_pending = "yes" THEN "not_idle"
               ELSE IF ~OrderHolds THEN "order_violated"
               ELSE IF ~idle /\ s.a_pending = "no" THEN "a_already_complete"
               ELSE "ok"
  /\ UNCHANGED <<condition, error, signals, s, clock, sideEffects>>

--------------------------------------------------------------------------------
(* Exceptions.  A step that calls the clock or the Driver may throw; so may *)
(* the start marker's and the event's time limits.                          *)

AMayThrow == {"launch_stamp", "launch", "await_marker", "start_stamp", "query",
              "wait_done", "post_query", "finish", "destroyed", "not_destroyed"}

Throw ==
  ThrowFrom("A", AMayThrow) \/ ThrowFrom("B", BMayThrow) \/ ThrowFrom("C", CMayThrow)

\* The clock fails inside destroy: the handle is already gone, so nobody will
\* destroy the context any more.
AThrowInDestroy ==
  /\ Goto("A", "destroy_begin", "catch")
  /\ ctx' = FALSE
  /\ UNCHANGED <<signals, s, clock, kernel, completed, reports>>

--------------------------------------------------------------------------------

AStep ==
  \/ AAwaitArmed \/ ALaunchStamp \/ ALaunch \/ AAwaitMarker \/ AStartStamp
  \/ AAnnounce \/ AAwaitInvalidate \/ AQuery \/ AAwaitDone \/ APostQuery
  \/ AFinish \/ AWaitDone \/ ADestroyBegin \/ ADestroy \/ ADestroyReturn
  \/ ADestroyFailed \/ ARelease

CStep ==
  \/ CAwaitStarted \/ CWaitDelay \/ CInvalidateStamp \/ CInvalidate \/ CGo
  \/ CGetA \/ CGetB \/ CReport \/ CCatch

\* takeover has returned; a state without a step before that is a deadlock.
Returned == result # "none" /\ UNCHANGED vars

Next ==
  \/ AStep \/ BStep \/ CStep
  \/ Throw \/ AThrowInDestroy
  \/ \E th \in Owners : OwnerCatch(th)
  \/ \E k \in Owners : GpuStep(k)
  \/ Returned

\* Every thread is scheduled, and every submitted kernel is finite.  Nothing
\* obliges a call to fail.
Fairness ==
  /\ WF_vars(AStep \/ OwnerCatch("A"))
  /\ WF_vars(BStep \/ OwnerCatch("B"))
  /\ WF_vars(CStep)
  /\ \A k \in Owners : WF_vars(GpuStep(k))

Spec == Init /\ [][Next]_vars /\ Fairness

--------------------------------------------------------------------------------
(* Properties.                                                              *)

Places == [
  A |-> {"await_armed", "launch_stamp", "launch", "await_marker", "start_stamp",
         "announce", "await_invalidate", "query", "await_done", "post_query", "finish",
         "wait_done", "destroy_begin", "destroy", "destroyed", "not_destroyed", "release",
         "catch", "finished", "abandoned", "failed"},
  B |-> {"ready", "arm", "await_go", "launch_stamp", "launch", "synchronize",
         "complete_stamp", "announce_done", "verify",
         "catch", "finished", "abandoned", "failed"},
  C |-> {"await_started", "wait_delay", "invalidate_stamp", "invalidate", "go",
         "catch", "get_a", "get_b", "report", "returned"}]

Kernels == [A : {"queued", "running", "done", "killed"},
            B : {"queued", "running", "done"}]

Results == {"none", "ok", "a_already_complete", "error", "not_idle", "order_violated"}

\* The type of every variable.
TypeOK ==
  /\ condition \in Conditions
  /\ pc \in [A : Places.A, B : Places.B, C : Places.C]
  /\ signals \in [Flags -> BOOLEAN]
  /\ s \in Sample
  /\ clock \in Nat
  /\ ctx \in BOOLEAN
  /\ kernel \in Kernels
  /\ completed \in Nat
  /\ error \in {"none", "A", "B", "C"}
  /\ result \in Results

\* The two self-checks at the end of takeover are unreachable: whatever the
\* interleaving and whoever fails, the stamps it compares are in order and A is
\* idle in the idle baseline.
ChecksNeverFire == result \notin {"not_idle", "order_violated"}

\* In a serial condition the two contexts never have work on the GPU together:
\* B launches only after A's context, and the kernel in it, are gone.
SerialExclusion ==
  condition \in Serial => ~(kernel.A \in Busy /\ kernel.B \in Busy)

\* await_flag lets a task return early without an exception.  No such task is
\* taken for a success: without an error both tasks ran to their end.
NoSilentAbandonment ==
  result \in {"ok", "a_already_complete"} => pc.A = "finished" /\ pc.B = "finished"

\* An exception in any of the three threads reaches the caller.
FailureIsReported ==
  result # "none" =>
    (result = "error" <=> (error = "C" \/ pc.A = "failed" \/ pc.B = "failed"))

\* "Always drain both futures before releasing stack data, including on error":
\* when takeover returns neither task can touch signals or s again.
FrameOutlivesTasks == result # "none" => Settled("A") /\ Settled("B")

\* A row that is not marked a_already_complete really interrupted A: its kernel
\* was unfinished when the invalidation was stamped.
InterruptionIsReal ==
  result = "ok" /\ ~idle => completed = 0 \/ completed > s.invalidate

\* a_event_pending_after_b_complete = 1 claims that A outlasted B: A's kernel
\* completed after B's completion was stamped.
OverlapIsReal ==
  result \in {"ok", "a_already_complete"} /\ s.a_pending_after_b = "yes" =>
    completed > s.b_complete

\* After a normal return the GPU is quiet, so the calibration kernels that
\* follow measure nothing of this call; and A is only killed by "destroy".
QuietAfterReturn ==
  /\ result \in {"ok", "a_already_complete"} =>
       kernel.A \notin Busy /\ kernel.B \notin Busy
  /\ kernel.A = "killed" => condition = "destroy"

\* takeover tells the truth about itself: success when everything ran, an
\* exception when something failed, and never a failed self-check.
OutcomeIsHonest == ChecksNeverFire /\ NoSilentAbandonment /\ FailureIsReported

\* The two flags of the CSV row are true of the GPU.
RowIsTrue == InterruptionIsReal /\ OverlapIsReal

\* takeover leaves nothing behind, neither on the GPU nor in its tasks.
NothingLeftBehind == FrameOutlivesTasks /\ QuietAfterReturn

\* The call returns or throws, whichever thread fails at whatever step.
AlwaysReturns == <>(result # "none")

\* The call implements the contract the driver relies on.
Contract == INSTANCE HandoffContract WITH
  asked    <- signals.invalidate,
  retired  <- s.destroy_result = "success",
  released <- signals.b_go,
  bRan     <- s.b_complete # 0,
  result   <- IF result \in {"not_idle", "order_violated"} THEN "error" ELSE result

ContractSpec == Contract!Spec

================================================================================
