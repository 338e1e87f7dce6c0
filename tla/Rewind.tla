--------------------------------- MODULE Rewind ---------------------------------
(****************************************************************************)
(* run_rewind (src/src/rewind_experiment.hpp): does stopping A's channels   *)
(* with GP_PUT rewound remove the work that is queued behind a running      *)
(* kernel?  Every case queues an "old" sentinel behind A's long kernel,     *)
(* holds A, lets it go, submits a "new" sentinel on a fresh stream, and     *)
(* classifies what became of the old one from tokens and events alone.      *)
(*                                                                          *)
(* The calling thread waits for every task it submits, so program order is  *)
(* one <<phase, op>>, the two columns of .epoch_calls.csv.  What runs       *)
(* beside it is the GPU.  Of the RM nothing is assumed: an accepted control *)
(* may have had no effect and a refused one may have had one, a rewind may  *)
(* drop any of the queued entries, and what was dropped may come back.      *)
(****************************************************************************)
EXTENDS Integers, FiniteSets

CONSTANTS
  Options,   \* the values of --rm-case and --trials a run exercises
  MaxPolls   \* bound: repetitions of a polling loop before its deadline

ASSUME OptionsAssumption ==
  Options \subseteq [rm_case : {"rewind-false", "rewind-true", "rewind-paired"}, trials : Nat \ {0}]
ASSUME PollsAssumption == MaxPolls \in Nat

VARIABLES
  o,               \* the options
  index,           \* the case
  phase, op,       \* where the program is
  polls,           \* polls left before the deadline of the current loop
  rc,              \* a_rc, old_rc and new_rc: the last answers of the events
  hold_pending,
  classification, reason,
  slots,           \* the mapped memory: what the sentinels have published
  queue,           \* the GPU's side: every entry of every case
  channel,         \* whether the GPU may schedule A's channels
  rows,            \* the classifications in .epochs.csv
  stopped, run_status,
  outcome          \* how run_rewind ended

locals == <<rc, hold_pending, classification, reason>>
gpu    == <<slots, queue, channel>>
ending == <<rows, stopped, run_status, outcome>>
vars   == <<o, index, phase, op, polls, locals, gpu, ending>>

paired == o.rm_case = "rewind-paired"
CaseCount == o.trials * (IF paired THEN 2 ELSE 1)
Cases == 0..(CaseCount - 1)

\* Paired cases alternate which of the two conditions comes first.
IsRewind(i) == IF paired THEN ((i \div 2) + (i % 2)) % 2 = 1 ELSE o.rm_case = "rewind-true"

\* Faulty variants of the two definitions below: one slot for every case, and
\* tokens out of the range that is reserved for them.
SlotReused(i) == 0
TokenTooLarge(i) == CaseCount + 1

\* Every case has slots and tokens of its own; 0 is an empty slot.
SlotOf(i) == i
Token(i)  == i + 1
slot == slots[SlotOf(index)]
old_ok == slot.old = Token(index)
new_ok == slot.new = Token(index)

\* A's stream carries the first four in this order, the fresh stream the others.
OldStream == {"long", "a_end", "old", "old_end"}
Entries   == OldStream \union {"new", "new_end"}
Rank == [long |-> 1, a_end |-> 2, old |-> 3, old_end |-> 4, new |-> 1, new_end |-> 2]
Active == {"queued", "running"}

Answer(e) == IF queue[index][e] = "done" THEN "SUCCESS" ELSE "NOT_READY"

At(ph, call) == phase = ph /\ op = call
Go(ph, call) == phase' = ph /\ op' = call

Init ==
  /\ o \in Options
  /\ index = 0 /\ phase = "calibrate" /\ op = "run" /\ polls = MaxPolls
  /\ rc = [a |-> "NOT_READY", old |-> "NOT_READY", new |-> "NOT_READY"]
  /\ hold_pending = TRUE
  /\ classification = "ambiguous" /\ reason = "none"
  /\ slots = [k \in Cases |-> [old |-> 0, new |-> 0, gpu_ns |-> 0]]
  /\ queue = [i \in Cases |-> [e \in Entries |-> "none"]]
  /\ channel = "enabled"
  /\ rows = [i \in Cases |-> "none"]
  /\ stopped = FALSE /\ run_status = "none" /\ outcome = "none"

--------------------------------------------------------------------------------
(* Faulty variants of definitions below.  No specification uses them: each   *)
(* shows that a property notices the mistake it makes.                      *)

\* A's event alone shows that the hold held.
StillPendingOnlyA == rc.a = "NOT_READY"

\* The token alone shows that the old work is complete.
ClassByToken(same) ==
  IF ~hold_pending \/ ~same THEN "ambiguous"
  ELSE IF old_ok THEN "old_queue_preserved"
  ELSE IF rc.a = "SUCCESS" /\ rc.old = "NOT_READY" THEN "queued_sentinel_removed_context_reusable"
  ELSE "ambiguous"

\* The event alone shows that the old sentinel is absent.
ClassByEvent(same) ==
  IF ~hold_pending \/ ~same THEN "ambiguous"
  ELSE IF old_ok /\ rc.a = "SUCCESS" /\ rc.old = "SUCCESS" THEN "old_queue_preserved"
  ELSE IF rc.a = "SUCCESS" /\ rc.old = "NOT_READY" THEN "queued_sentinel_removed_context_reusable"
  ELSE "ambiguous"

\* Only an ambiguous case stops the run.
RecordPoisonedGoesOn ==
  /\ At("record", "write")
  /\ \/ /\ rows' = [rows EXCEPT ![index] = classification]
        /\ stopped' = (classification = "ambiguous")
        /\ Go("next", "case")
     \/ /\ rows' \in {rows, [rows EXCEPT ![index] = classification]}
        /\ Go("catch", "write")
        /\ UNCHANGED stopped
  /\ UNCHANGED <<o, index, polls, locals, gpu, run_status, outcome>>

\* Only the outer loop ends once stopped.
NextCaseInner ==
  /\ At("next", "case")
  /\ IF index + 1 < CaseCount /\ (stopped => paired /\ index % 2 = 0)
       THEN /\ index' = index + 1
            /\ IF paired /\ (index' % 2) = 1 THEN Go("reference", "run") ELSE Go("calibrate", "run")
       ELSE Go("finish", "write") /\ UNCHANGED index
  /\ UNCHANGED <<o, polls, locals, gpu, ending>>

\* An exception is reported but does not count as a stop.
CatchGoesOn ==
  /\ At("catch", "write")
  /\ \/ Go("leave", "write") /\ run_status' = "stopped" /\ UNCHANGED outcome
     \/ Go("done", "done") /\ outcome' = "unwound" /\ UNCHANGED run_status
  /\ UNCHANGED <<o, index, polls, locals, gpu, rows, stopped>>

\* The reference waits for its event without a deadline.
ReferenceSynchronizes ==
  /\ At("reference", "run")
  /\ channel = "enabled" /\ \A i \in Cases : queue[i].old \notin {"queued", "running"}
  /\ Go("enqueue", "launch_long")
  /\ rc' = [a |-> "NOT_READY", old |-> "NOT_READY", new |-> "NOT_READY"]
  /\ hold_pending' = TRUE /\ classification' = "ambiguous" /\ reason' = "none"
  /\ UNCHANGED <<o, index, polls, gpu, ending>>

--------------------------------------------------------------------------------
(* Endings of a case that is not classified.  Each is an exception.          *)

Fail(class, why) ==
  /\ Go("record", "write")
  /\ classification' = class /\ reason' = why
  /\ UNCHANGED <<rc, hold_pending>>

\* EpochLog.api: anything but SUCCESS and NOT_READY is an EpochCudaError.
ApiOps == {"launch_old", "record_old", "query_A", "query_old", "create", "launch_new",
           "record_new", "query_new", "classify"}

ApiFails ==
  /\ op \in ApiOps
  /\ Fail("context_or_submission_poisoned", "cuda_error")
  /\ UNCHANGED <<o, index, polls, gpu, ending>>

\* Any other exception: a timeout, the clock, or an evidence file that cannot
\* be written.
CaseOps == ApiOps \union {"launch_long", "wait_started", "check", "disable", "enable", "verify_new"}

CaseFails ==
  /\ op \in CaseOps
  /\ Fail("ambiguous", "other")
  /\ UNCHANGED <<o, index, polls, gpu, ending>>

--------------------------------------------------------------------------------
(* The steps of a case.                                                     *)

Submitted(es) == queue' = [queue EXCEPT ![index] =
                             [e \in Entries |-> IF e \in es THEN "queued" ELSE @[e]]]

Idle == /\ channel = "enabled"
        /\ \A i \in Cases, e \in OldStream : queue[i][e] \notin Active

\* One calibration per trial; its waits are bounded by --query-timeout-ms.
Calibrate ==
  /\ At("calibrate", "run")
  /\ \/ Idle /\ Go("reference", "run")
     \/ Go("catch", "write")
  /\ UNCHANGED <<o, index, polls, locals, gpu, ending>>

\* The same work, uninterrupted; the hold must be longer than that took.
Reference ==
  /\ At("reference", "run")
  /\ rc' = [a |-> "NOT_READY", old |-> "NOT_READY", new |-> "NOT_READY"]
  /\ hold_pending' = TRUE
  /\ classification' = "ambiguous"
  /\ \/ Idle /\ Go("enqueue", "launch_long") /\ reason' = "none"
     \/ Go("record", "write") /\ reason' = "reference"
  /\ UNCHANGED <<o, index, polls, gpu, ending>>

\* GpuState.launch_long checks its calls with CU, not with EpochLog.api; the last
\* of them may fail with the kernel launched.
LaunchLong ==
  /\ At("enqueue", "launch_long")
  /\ \/ /\ Go("enqueue", "launch_old")
        /\ Submitted({"long", "a_end"})
        /\ UNCHANGED locals
     \/ /\ Fail("ambiguous", "cuda_error")
        /\ UNCHANGED queue \/ Submitted({"long"})
  /\ UNCHANGED <<o, index, polls, slots, channel, ending>>

Enqueue(call, e, next) ==
  /\ At("enqueue", call)
  /\ Go("enqueue", next)
  /\ Submitted({e})
  /\ UNCHANGED <<o, index, polls, locals, slots, channel, ending>>

EnqueueOld == Enqueue("launch_old", "old", "record_old") \/ Enqueue("record_old", "old_end", "wait_started")

WaitStarted ==
  /\ At("enqueue", "wait_started")
  /\ queue[index].long \in {"running", "done"}
  /\ Go("before_disable", "query_A")
  /\ UNCHANGED <<o, index, polls, locals, gpu, ending>>

\* query_old: A's event, then the old sentinel's; what follows reads the token.
QueryA ==
  /\ op = "query_A" /\ Go(phase, "query_old")
  /\ rc' = [rc EXCEPT !.a = Answer("a_end")]
  /\ UNCHANGED <<o, index, polls, hold_pending, classification, reason, gpu, ending>>

QueryOld ==
  /\ op = "query_old" /\ Go(phase, "check")
  /\ rc' = [rc EXCEPT !.old = Answer("old_end")]
  /\ UNCHANGED <<o, index, polls, hold_pending, classification, reason, gpu, ending>>

StillPending == rc.a = "NOT_READY" /\ rc.old = "NOT_READY" /\ slot.old = 0

\* "Old/new epoch precondition is not distinguishable"
Precondition ==
  /\ At("before_disable", "check")
  /\ IF StillPending /\ slot.new = 0
       THEN Go("control", "disable") /\ UNCHANGED locals
       ELSE Fail("ambiguous", "precondition")
  /\ UNCHANGED <<o, index, polls, gpu, ending>>

\* What a rewind may do to the entries that have not been consumed.
Rewound(drop) == [queue EXCEPT ![index] = [e \in Entries |-> IF e \in drop THEN "dropped" ELSE @[e]]]

Disable ==
  /\ At("control", "disable")
  /\ \E accepted, took \in BOOLEAN :
       /\ channel' = IF took THEN "disabled" ELSE channel
       /\ \E drop \in SUBSET {e \in OldStream : queue[index][e] = "queued"} :
            /\ drop # {} => took /\ IsRewind(index)
            /\ queue' = Rewound(drop)
       /\ IF accepted THEN Go("hold", "query_A") /\ UNCHANGED locals
                      ELSE Fail("ambiguous", "control")
  /\ polls' = MaxPolls
  /\ UNCHANGED <<o, index, slots, ending>>

\* The loop over the hold interval, and the same check once more at its end.
HoldCheck ==
  /\ At("hold", "check")
  /\ hold_pending' = (hold_pending /\ StillPending)
  /\ \/ polls > 0 /\ polls' = polls - 1 /\ Go("hold", "query_A")
     \/ polls' = MaxPolls /\ Go("hold_end", "query_A")
  /\ UNCHANGED <<o, index, rc, classification, reason, gpu, ending>>

HoldEndCheck ==
  /\ At("hold_end", "check")
  /\ hold_pending' = (hold_pending /\ StillPending)
  /\ Go("control", "enable")
  /\ UNCHANGED <<o, index, polls, rc, classification, reason, gpu, ending>>

Enable ==
  /\ At("control", "enable")
  /\ \E accepted, took \in BOOLEAN :
       /\ channel' = IF took THEN "enabled" ELSE channel
       /\ IF accepted THEN Go("after_enable", "query_A") /\ UNCHANGED locals
                      ELSE Fail("ambiguous", "control")
  /\ UNCHANGED <<o, index, polls, slots, queue, ending>>

\* observe_old: until the old work is seen to be complete, or the deadline.
ObserveOld(ph, nextPhase, nextOp) ==
  /\ At(ph, "check")
  /\ \/ /\ polls > 0 /\ ~(rc.a = "SUCCESS" /\ rc.old = "SUCCESS" /\ old_ok)
        /\ polls' = polls - 1 /\ Go(ph, "query_A")
     \/ polls' = MaxPolls /\ Go(nextPhase, nextOp)
  /\ UNCHANGED <<o, index, locals, gpu, ending>>

ObserveAfterEnable == ObserveOld("after_enable", "new_epoch", "create")
ObserveAfterNew    == ObserveOld("after_new_complete", "identity", "classify")

CreateStream ==
  /\ At("new_epoch", "create") /\ Go("new_epoch", "launch_new")
  /\ UNCHANGED <<o, index, polls, locals, gpu, ending>>

\* After a rewind the driver's own PUT is stale: the submission may be lost.
LaunchNew ==
  /\ At("new_epoch", "launch_new") /\ Go("new_epoch", "record_new")
  /\ \/ Submitted({"new"})
     \/ IsRewind(index) /\ queue' = [queue EXCEPT ![index].new = "dropped"]
  /\ UNCHANGED <<o, index, polls, locals, slots, channel, ending>>

RecordNew ==
  /\ At("new_epoch", "record_new") /\ Go("new_epoch", "query_new")
  /\ Submitted({"new_end"})
  /\ UNCHANGED <<o, index, polls, locals, slots, channel, ending>>

\* "New submission did not finish within deadline"
QueryNew ==
  /\ At("new_epoch", "query_new")
  /\ \/ /\ rc' = [rc EXCEPT !.new = Answer("new_end")]
        /\ \/ rc'.new = "SUCCESS" /\ Go("new_epoch", "verify_new") /\ UNCHANGED polls
           \/ rc'.new # "SUCCESS" /\ polls > 0 /\ polls' = polls - 1 /\ UNCHANGED <<phase, op>>
        /\ UNCHANGED <<hold_pending, classification, reason>>
     \/ Answer("new_end") # "SUCCESS" /\ Fail("ambiguous", "deadline") /\ UNCHANGED polls
  /\ UNCHANGED <<o, index, gpu, ending>>

VerifyNew ==
  /\ At("new_epoch", "verify_new")
  /\ IF new_ok THEN Go("after_new_complete", "query_A") /\ UNCHANGED locals
               ELSE Fail("context_or_submission_poisoned", "new_output")
  /\ polls' = MaxPolls
  /\ UNCHANGED <<o, index, gpu, ending>>

\* Both sentinels, the held interval and the identity of context and buffers
\* decide the class.
ClassOf(same) ==
  IF ~hold_pending \/ ~same THEN "ambiguous"
  ELSE IF old_ok /\ rc.a = "SUCCESS" /\ rc.old = "SUCCESS" THEN "old_queue_preserved"
  ELSE IF slot.old = 0 /\ rc.a = "SUCCESS" /\ rc.old = "NOT_READY"
    THEN "queued_sentinel_removed_context_reusable"
  ELSE "ambiguous"

Classify ==
  /\ At("identity", "classify")
  /\ \E same \in BOOLEAN :
       /\ classification' = ClassOf(same)
       /\ reason' = "evidence"
  /\ Go("record", "write")
  /\ UNCHANGED <<o, index, polls, rc, hold_pending, gpu, ending>>

Invalid == {"ambiguous", "context_or_submission_poisoned"}
Valid   == {"old_queue_preserved", "queued_sentinel_removed_context_reusable"}

\* The row, then the journal; either may fail, and then the task throws.
Record ==
  /\ At("record", "write")
  /\ \/ /\ rows' = [rows EXCEPT ![index] = classification]
        /\ stopped' = (classification \in Invalid)
        /\ Go("next", "case")
     \/ /\ rows' \in {rows, [rows EXCEPT ![index] = classification]}
        /\ Go("catch", "write")
        /\ UNCHANGED stopped
  /\ UNCHANGED <<o, index, polls, locals, gpu, run_status, outcome>>

\* Both loops end once stopped; a new trial calibrates again.
NextCase ==
  /\ At("next", "case")
  /\ IF ~stopped /\ index + 1 < CaseCount
       THEN /\ index' = index + 1
            /\ IF paired /\ (index' % 2) = 1 THEN Go("reference", "run") ELSE Go("calibrate", "run")
       ELSE Go("finish", "write") /\ UNCHANGED index
  /\ UNCHANGED <<o, polls, locals, gpu, ending>>

--------------------------------------------------------------------------------
(* The end: evidence is written, then the process exits without touching    *)
(* CUDA.  Metadata that cannot be written throws.                           *)

Finish ==
  /\ At("finish", "write")
  /\ \/ Go("leave", "write") /\ run_status' = IF stopped THEN "stopped" ELSE "completed"
     \/ Go("catch", "write") /\ UNCHANGED run_status
  /\ UNCHANGED <<o, index, polls, locals, gpu, rows, stopped, outcome>>

\* run_rewind throws; its caller's destructors destroy both contexts.
Unwind == Go("done", "done") /\ outcome' = "unwound"

Catch ==
  /\ At("catch", "write")
  /\ stopped' = TRUE
  /\ \/ Go("leave", "write") /\ run_status' = "stopped" /\ UNCHANGED outcome
     \/ Unwind /\ UNCHANGED run_status
  /\ UNCHANGED <<o, index, polls, locals, gpu, rows>>

Leave ==
  /\ At("leave", "write")
  /\ \/ Go("done", "done") /\ outcome' = IF stopped THEN "exit 3" ELSE "exit 0"
     \/ Unwind
  /\ UNCHANGED <<o, index, polls, locals, gpu, rows, stopped, run_status>>

--------------------------------------------------------------------------------
(* The GPU.                                                                 *)

\* A stream runs its entries in order; the old stream carries every case's.
Ready(i, e) ==
  /\ channel = "enabled"
  /\ queue[i][e] \in Active
  /\ \A f \in Entries : Rank[f] < Rank[e] /\ (f \in OldStream <=> e \in OldStream) =>
       queue[i][f] \notin Active
  /\ e \in OldStream => \A j \in 0..(i - 1), f \in OldStream : queue[j][f] \notin Active

\* When a sentinel ran, by the host's program: before the last check of the
\* hold (0), before the new one was seen to be complete (1), before the case was
\* classified (2), or later (3).
Stage(i) ==
  IF i # index \/ phase \in {"record", "next", "finish", "catch", "leave", "done"} THEN 3
  ELSE IF phase \in {"after_new_complete", "identity"} \/ op = "verify_new" THEN 2
  ELSE IF phase \in {"after_enable", "new_epoch"} \/ op = "enable" THEN 1 ELSE 0

\* A sentinel publishes its token.
Publish(i, e) ==
  slots' = CASE e = "old" -> [slots EXCEPT ![SlotOf(i)].old = Token(i), ![SlotOf(i)].gpu_ns = Stage(i)]
             [] e = "new" -> [slots EXCEPT ![SlotOf(i)].new = Token(i)]
             [] OTHER     -> slots

GpuRuns(i, e) ==
  /\ Ready(i, e)
  /\ LET next == IF e = "long" /\ queue[i][e] = "queued" THEN "running" ELSE "done"
     IN queue' = [queue EXCEPT ![i][e] = next]
  /\ Publish(i, e)
  /\ UNCHANGED <<o, index, phase, op, polls, locals, channel, ending>>

\* The driver publishes its PUT again: what a rewind dropped is back in the ring.
Republish(i) ==
  /\ \E e \in Entries : queue[i][e] = "dropped"
  /\ queue' = [queue EXCEPT ![i] = [e \in Entries |-> IF @[e] = "dropped" THEN "queued" ELSE @[e]]]
  /\ UNCHANGED <<o, index, phase, op, polls, locals, slots, channel, ending>>

Done == outcome # "none" /\ UNCHANGED vars

HostStep ==
  \/ Calibrate \/ Reference \/ LaunchLong \/ EnqueueOld \/ WaitStarted
  \/ QueryA \/ QueryOld \/ Precondition \/ Disable \/ HoldCheck \/ HoldEndCheck \/ Enable
  \/ ObserveAfterEnable \/ CreateStream \/ LaunchNew \/ RecordNew \/ QueryNew \/ VerifyNew
  \/ ObserveAfterNew \/ Classify \/ Record \/ NextCase
  \/ ApiFails \/ CaseFails \/ Finish \/ Catch \/ Leave

GpuStep == \E i \in Cases : (\E e \in Entries : GpuRuns(i, e)) \/ Republish(i)

Next == HostStep \/ GpuStep \/ Done

\* The program's threads are scheduled.  Nothing is assumed of the GPU: it may
\* be held for good.
Spec == Init /\ [][Next]_vars /\ WF_vars(HostStep)

--------------------------------------------------------------------------------
(* Properties.                                                              *)

Answers == {"SUCCESS", "NOT_READY"}

\* The type of every variable.
TypeOK ==
  /\ o \in Options
  /\ index \in Cases
  /\ polls \in 0..MaxPolls
  /\ rc \in [a : Answers, old : Answers, new : Answers]
  /\ hold_pending \in BOOLEAN
  /\ classification \in Valid \union Invalid
  /\ reason \in {"none", "reference", "precondition", "cuda_error", "control", "deadline",
                 "new_output", "evidence", "other"}
  /\ slots \in [Cases -> [old : 0..CaseCount, new : 0..CaseCount, gpu_ns : 0..3]]
  /\ queue \in [Cases -> [Entries -> {"none", "queued", "running", "done", "dropped"}]]
  /\ channel \in {"enabled", "disabled"}
  /\ rows \in [Cases -> {"none"} \union Valid \union Invalid]
  /\ stopped \in BOOLEAN
  /\ run_status \in {"none", "stopped", "completed"}
  /\ outcome \in {"none", "exit 0", "exit 3", "unwound"}

\* "Never reuse a measured slot: a delayed old write must stay visible".  A token
\* shows that this case's own sentinel ran, and one that ran shows its token,
\* also if it does so after its case was classified.
TokensAreTheCasesOwn ==
  \A i \in Cases :
    /\ slots[SlotOf(i)].old # 0 <=> queue[i].old = "done"
    /\ slots[SlotOf(i)].new # 0 <=> queue[i].new = "done"

\* A case counts only if its old sentinel had not run by the end of the hold,
\* whatever the RM did with the control it accepted.
ValidMeansHeld ==
  \A i \in Cases :
    rows[i] \in Valid /\ queue[i].old = "done" => slots[SlotOf(i)].gpu_ns >= 1

\* "old_queue_preserved": all the work of the case ran, old and new.
PreservedMeansComplete ==
  \A i \in Cases :
    rows[i] = "old_queue_preserved" => \A e \in Entries : queue[i][e] = "done"

\* "queued_sentinel_removed_context_reusable": A and the new sentinel are
\* complete; the old one was absent until the case was classified, and if it ran
\* after that its token says so.
RemovedMeansAbsent ==
  \A i \in Cases :
    rows[i] = "queued_sentinel_removed_context_reusable" =>
      /\ \A e \in {"long", "a_end", "new", "new_end"} : queue[i][e] = "done"
      /\ queue[i].old = "done" => slots[SlotOf(i)].gpu_ns = 3

\* A row is true of the work it speaks of, its tokens as much as its class,
\* however the moments of observation interleave with the GPU.
ClassesAreTrue ==
  TokensAreTheCasesOwn /\ ValidMeansHeld /\ PreservedMeansComplete /\ RemovedMeansAbsent

\* "An error or an ambiguity stops the remaining cases at once": after such a row
\* nothing is submitted and no channel is touched.
StopsForGood ==
  [][(\E i \in Cases : rows[i] \in Invalid) =>
       /\ UNCHANGED <<index, channel>>
       /\ \A i \in Cases, e \in Entries :
            queue[i][e] = "none" => queue'[i][e] = "none"]_vars

\* Exit status 0 stands for a completed run: every case has a valid row, the
\* metadata says "completed", and A's channels are enabled.
ExitZeroMeansCompleted ==
  /\ outcome = "exit 0" =>
       /\ run_status = "completed" /\ channel = "enabled"
       /\ \A i \in Cases : rows[i] \in Valid
  /\ outcome = "exit 3" => run_status = "stopped"

\* The process ends although A may be held and the GPU may never answer: every
\* wait has a deadline.
AlwaysEnds == <>(outcome # "none")

\* REWIND_EXPERIMENT.md: "context_or_submission_poisoned" is the class of a case
\* in which a CUDA call of the measurement answered with an error.
CudaErrorIsPoisoned ==
  At("next", "case") /\ reason = "cuda_error" =>
    rows[index] = "context_or_submission_poisoned"

\* rewind_experiment.hpp: after a stop or a successful end the process exits
\* without CUDA cleanup, so that no context is destroyed.
NeverDestroysContext == outcome # "unwound"

================================================================================
