------------------------------- MODULE TwoOwners -------------------------------
(****************************************************************************)
(* What takeover (src/src/main.cpp) and rm_trial (src/src/rm_handoff.hpp)   *)
(* have in common.                                                          *)
(*                                                                          *)
(* Three threads take part: the controller ("C") and the owner threads of A *)
(* and B, each executing the task submitted to it.  They share the atomic   *)
(* flags of Signals and the Sample s, whose time stamps are drawn from one  *)
(* monotonic clock.  The GPU runs A's long kernel and B's tiny kernel, at   *)
(* the same time if both are submitted.                                     *)
(*                                                                          *)
(* await_flag is one step: a flag is never cleared, so its two loads can be *)
(* taken at the later one.  A stamp and the call it brackets are separate   *)
(* steps where another thread's stamp may fall between them and be compared.*)
(****************************************************************************)
EXTENDS Naturals

Threads == {"A", "B", "C"}
Owners  == {"A", "B"}
Flags   == {"b_armed", "a_started", "invalidate", "b_go", "b_done", "cancelled"}

VARIABLES
  condition,  \* o.action of takeover, s.condition of rm_trial
  pc,         \* where each thread is
  signals,    \* struct Signals
  s,          \* the Sample fields the call compares or reports
  clock,      \* the last value now_ns returned
  ctx,        \* A's GpuState::ctx_ is not null
  kernel,     \* the last kernel each context submitted
  completed,  \* ground truth: when A's long kernel completed, 0 if it has not
  error,      \* whose exception the local variable error holds
  result      \* "none" until the call returns

vars == <<condition, pc, signals, s, clock, ctx, kernel, completed, error, result>>

Busy == {"queued", "running"}

Answers == {"unset", "yes", "no"}

Sample ==
  [b_ready : Nat, a_launch : Nat, a_start_observed : Nat, invalidate : Nat,
   destroy_begin : Nat, destroy_return : Nat, b_launch : Nat, b_complete : Nat,
   a_post_b_query_begin : Nat, a_post_b_query_end : Nat, a_complete_observed : Nat,
   a_pending : Answers, a_pending_after_b : Answers, a_alive_after_b : Answers,
   destroy_result : {"unset", "success", "failure"}]

\* Where both calls start, for a given condition.
InitCall ==
  /\ pc = [A |-> "await_armed", B |-> "ready", C |-> "await_started"]
  /\ signals = [flag \in Flags |-> FALSE]
  /\ s = [b_ready |-> 0, a_launch |-> 0, a_start_observed |-> 0, invalidate |-> 0,
          destroy_begin |-> 0, destroy_return |-> 0, b_launch |-> 0, b_complete |-> 0,
          a_post_b_query_begin |-> 0, a_post_b_query_end |-> 0, a_complete_observed |-> 0,
          a_pending |-> "unset", a_pending_after_b |-> "unset",
          a_alive_after_b |-> "unset", destroy_result |-> "unset"]
  /\ clock = 0
  /\ ctx = TRUE
  /\ kernel = [A |-> "done", B |-> "done"]
  /\ completed = 0
  /\ error = "none"
  /\ result = "none"

--------------------------------------------------------------------------------
(* Steps of a thread.                                                       *)

Goto(th, from, to) == pc[th] = from /\ pc' = [pc EXCEPT ![th] = to]

Stamp(field) ==
  /\ clock' = clock + 1
  /\ s' = [s EXCEPT ![field] = clock + 1]

Raise(flag) == signals' = [signals EXCEPT ![flag] = TRUE]

\* await_flag: true only if the flag is up and nobody has cancelled.
Await(th, flag, from, to, otherwise) ==
  /\ pc[th] = from
  /\ signals[flag] \/ signals.cancelled
  /\ pc' = [pc EXCEPT ![th] = IF signals.cancelled THEN otherwise ELSE to]

sideEffects == <<ctx, kernel, completed>>
reports     == <<condition, error, result>>
quiet       == <<signals, s, clock, sideEffects, reports>>

\* A future is ready when its task has returned or thrown.
Settled(th) == pc[th] \in {"finished", "abandoned", "failed"}

--------------------------------------------------------------------------------
(* Faulty variants of steps below.  No specification uses them: each shows   *)
(* that a property notices the mistake it makes.                            *)

\* B waits for A's start instead of its own release.
BAwaitStartOnly ==
  /\ Await("B", "a_started", "await_go", "launch_stamp", "abandoned")
  /\ UNCHANGED quiet

\* The raw result of the query is stored in the flag.
EventPendingRaw == kernel.A

\* An exception of A is rethrown before B's future is waited for.
CGetARethrows ==
  /\ pc.C = "get_a"
  /\ pc.A \in {"finished", "abandoned", "failed"}
  /\ pc' = [pc EXCEPT !.C = IF pc.A = "failed" THEN "report" ELSE "get_b"]
  /\ error' = IF pc.A = "failed" THEN "A" ELSE error
  /\ UNCHANGED <<condition, result, signals, s, clock, sideEffects>>

\* An exception of B is dropped.
CGetBIgnored ==
  /\ Goto("C", "get_b", "report")
  /\ pc.B \in {"finished", "abandoned", "failed"}
  /\ UNCHANGED <<error, condition, result, signals, s, clock, sideEffects>>

\* The task cancels the others but does not rethrow.
OwnerCatchSwallows(th) ==
  /\ Goto(th, "catch", "abandoned")
  /\ Raise("cancelled")
  /\ UNCHANGED <<s, clock, sideEffects, reports>>

\* The task rethrows but does not cancel the others.
OwnerCatchSilent(th) ==
  /\ Goto(th, "catch", "failed")
  /\ UNCHANGED <<signals, s, clock, sideEffects, reports>>

--------------------------------------------------------------------------------
(* B's task, the same in both calls.                                        *)

BReady ==
  /\ Goto("B", "ready", "arm")
  /\ Stamp("b_ready")
  /\ UNCHANGED <<signals, sideEffects, reports>>

BArm ==
  /\ Goto("B", "arm", "await_go")
  /\ Raise("b_armed")
  /\ UNCHANGED <<s, clock, sideEffects, reports>>

BAwaitGo ==
  /\ Await("B", "b_go", "await_go", "launch_stamp", "abandoned")
  /\ UNCHANGED quiet

BLaunchStamp ==
  /\ Goto("B", "launch_stamp", "launch")
  /\ Stamp("b_launch")
  /\ UNCHANGED <<signals, sideEffects, reports>>

BLaunch ==
  /\ Goto("B", "launch", "synchronize")
  /\ kernel' = [kernel EXCEPT !.B = "queued"]
  /\ UNCHANGED <<signals, s, clock, ctx, completed, reports>>

BSynchronize ==
  /\ Goto("B", "synchronize", "complete_stamp")
  /\ kernel.B = "done"
  /\ UNCHANGED quiet

BComplete ==
  /\ Goto("B", "complete_stamp", "announce_done")
  /\ Stamp("b_complete")
  /\ UNCHANGED <<signals, sideEffects, reports>>

\* completed->store comes before the elapsed time, the copy and the check.
BAnnounceDone ==
  /\ Goto("B", "announce_done", "verify")
  /\ Raise("b_done")
  /\ UNCHANGED <<s, clock, sideEffects, reports>>

BVerify ==
  /\ Goto("B", "verify", "finished")
  /\ UNCHANGED quiet

BStep ==
  \/ BReady \/ BArm \/ BAwaitGo \/ BLaunchStamp \/ BLaunch \/ BSynchronize
  \/ BComplete \/ BAnnounceDone \/ BVerify

--------------------------------------------------------------------------------
(* A's task until it has seen the invalidation.                             *)

ALaunchStamp ==
  /\ Goto("A", "launch_stamp", "launch")
  /\ Stamp("a_launch")
  /\ UNCHANGED <<signals, sideEffects, reports>>

ALaunch ==
  /\ Goto("A", "launch", "await_marker")
  /\ kernel' = [kernel EXCEPT !.A = "queued"]
  /\ UNCHANGED <<signals, s, clock, ctx, completed, reports>>

\* wait_started spins on the marker the kernel writes when it begins.
AAwaitMarker ==
  /\ Goto("A", "await_marker", "start_stamp")
  /\ kernel.A # "queued"
  /\ UNCHANGED quiet

AStartStamp ==
  /\ Goto("A", "start_stamp", "announce")
  /\ Stamp("a_start_observed")
  /\ UNCHANGED <<signals, sideEffects, reports>>

AAnnounce ==
  /\ Goto("A", "announce", "await_invalidate")
  /\ Raise("a_started")
  /\ UNCHANGED <<s, clock, sideEffects, reports>>

AAwaitInvalidate ==
  /\ Await("A", "invalidate", "await_invalidate", "query", "abandoned")
  /\ UNCHANGED quiet

\* cuEventQuery(end_): the event recorded after A's last kernel.
EventPending == IF kernel.A = "done" THEN "no" ELSE "yes"

--------------------------------------------------------------------------------
(* The controller.                                                          *)

CAwaitStarted ==
  /\ Await("C", "a_started", "await_started", "wait_delay", "get_a")
  /\ UNCHANGED quiet

\* The delay after the observed start passes, or someone cancels: either way
\* the controller goes on to publish the invalidation.
CWaitDelay ==
  /\ Goto("C", "wait_delay", "invalidate_stamp")
  /\ UNCHANGED quiet

CInvalidateStamp ==
  /\ Goto("C", "invalidate_stamp", "invalidate")
  /\ Stamp("invalidate")
  /\ UNCHANGED <<signals, sideEffects, reports>>

CGo ==
  /\ Goto("C", "go", "get_a")
  /\ Raise("b_go")
  /\ UNCHANGED <<s, clock, sideEffects, reports>>

\* A's exception replaces the controller's own; B's only fills a gap.
CGetA ==
  /\ Goto("C", "get_a", "get_b")
  /\ Settled("A")
  /\ error' = IF pc.A = "failed" THEN "A" ELSE error
  /\ UNCHANGED <<condition, result, signals, s, clock, sideEffects>>

CGetB ==
  /\ Goto("C", "get_b", "report")
  /\ Settled("B")
  /\ error' = IF error = "none" /\ pc.B = "failed" THEN "B" ELSE error
  /\ UNCHANGED <<condition, result, signals, s, clock, sideEffects>>

--------------------------------------------------------------------------------
(* Exceptions: a step that calls the clock or the Driver may throw.          *)

ThrowFrom(th, places) ==
  /\ pc[th] \in places
  /\ pc' = [pc EXCEPT ![th] = "catch"]
  /\ UNCHANGED quiet

CMayThrow == {"wait_delay", "invalidate_stamp"}
BMayThrow == {"ready", "launch_stamp", "launch", "synchronize", "complete_stamp", "verify"}

\* catch (...) of a task: cancel the others and rethrow into the future.
OwnerCatch(th) ==
  /\ Goto(th, "catch", "failed")
  /\ Raise("cancelled")
  /\ UNCHANGED <<s, clock, sideEffects, reports>>

\* catch (...) of the controller: cancel, remember, and still drain the tasks.
CCatch ==
  /\ Goto("C", "catch", "get_a")
  /\ Raise("cancelled")
  /\ error' = "C"
  /\ UNCHANGED <<condition, result, s, clock, sideEffects>>

--------------------------------------------------------------------------------
(* The GPU.                                                                 *)

KernelBegin(k) ==
  /\ kernel[k] = "queued"
  /\ kernel' = [kernel EXCEPT ![k] = "running"]
  /\ UNCHANGED <<pc, signals, s, clock, ctx, completed, reports>>

KernelEnd(k) ==
  /\ kernel[k] = "running"
  /\ kernel' = [kernel EXCEPT ![k] = "done"]
  /\ clock' = clock + 1
  /\ completed' = IF k = "A" THEN clock + 1 ELSE completed
  /\ UNCHANGED <<pc, signals, s, ctx, reports>>

GpuStep(k) == KernelBegin(k) \/ KernelEnd(k)

================================================================================
