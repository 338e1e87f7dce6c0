------------------------------ MODULE RewindProofs ------------------------------
(****************************************************************************)
(* Proofs about Rewind, for any number of trials and any length of the      *)
(* polling loops.  The host is one thread: the invariant says what is known *)
(* of the GPU's entries at each of its places, and what stays known of the  *)
(* cases that lie behind it.                                                *)
(****************************************************************************)
EXTENDS Rewind, TLAPS

(* The places of the program.                                               *)

Observing == {"before_disable", "hold", "hold_end", "after_enable", "after_new_complete"}
After == {"next", "finish", "catch", "leave", "done"}

EntryStates == {"none", "queued", "running", "done", "dropped"}
Reasons == {"none", "reference", "precondition", "cuda_error", "control", "deadline",
            "new_output", "evidence", "other"}

Places ==
  \/ phase \in {"calibrate", "reference"} /\ op = "run"
  \/ phase = "enqueue" /\ op \in {"launch_long", "launch_old", "record_old", "wait_started"}
  \/ phase \in Observing /\ op \in {"query_A", "query_old", "check"}
  \/ phase = "control" /\ op \in {"disable", "enable"}
  \/ phase = "new_epoch" /\ op \in {"create", "launch_new", "record_new", "query_new", "verify_new"}
  \/ phase = "identity" /\ op = "classify"
  \/ phase \in {"record", "finish", "catch", "leave"} /\ op = "write"
  \/ phase = "next" /\ op = "case"
  \/ phase = "done" /\ op = "done"

\* A's kernel is known to have begun.
Started == phase \in Observing \union {"control", "new_epoch", "identity"}

\* A's stream is being filled, or is filled.
InCase == Started \/ (phase = "enqueue" /\ op # "launch_long")

\* The hold has ended.
HoldOver ==
  \/ phase \in {"after_enable", "new_epoch", "after_new_complete", "identity"}
  \/ op = "enable"

\* Nothing of the new sentinel has been submitted.
BeforeNew ==
  \/ phase \in {"enqueue", "before_disable", "control", "hold", "hold_end", "after_enable"}
  \/ op \in {"create", "launch_new"}

\* The new sentinel's event has been seen.
NewSeen == phase \in {"after_new_complete", "identity"} \/ op = "verify_new"

--------------------------------------------------------------------------------
(* The inductive invariant.                                                 *)

\* The types, in the parts that one step changes together.
RunTypes  == o \in Options /\ index \in Cases /\ polls \in 0..MaxPolls /\ Places
CaseTypes ==
  /\ rc \in [a : Answers, old : Answers, new : Answers]
  /\ hold_pending \in BOOLEAN
  /\ classification \in Valid \union Invalid
  /\ reason \in Reasons
SlotTypes  == slots \in [Cases -> [old : 0..CaseCount, new : 0..CaseCount, gpu_ns : 0..3]]
QueueTypes == queue \in [Cases -> [Entries -> EntryStates]] /\ channel \in {"enabled", "disabled"}
EndTypes ==
  /\ rows \in [Cases -> {"none"} \union Valid \union Invalid]
  /\ stopped \in BOOLEAN
  /\ run_status \in {"none", "stopped", "completed"}
  /\ outcome \in {"none", "exit 0", "exit 3", "unwound"}
Types == RunTypes /\ CaseTypes /\ SlotTypes /\ QueueTypes /\ EndTypes

\* What lies ahead has not been submitted, so that no entry is submitted twice.
FreshInv ==
  /\ \A i \in Cases : i > index => \A e \in Entries : queue[i][e] = "none"
  /\ phase \in {"calibrate", "reference"} \/ op = "launch_long" =>
       \A e \in Entries : queue[index][e] = "none"
  /\ op = "launch_old" => queue[index].old = "none" /\ queue[index].old_end = "none"
  /\ op = "record_old" => queue[index].old_end = "none"
  /\ BeforeNew => queue[index].new = "none" /\ queue[index].new_end = "none"
  /\ op = "record_new" => queue[index].new_end = "none"

\* A token is that of its own case, and is there exactly when its sentinel has run.
TokenInv ==
  \A i \in Cases :
    /\ slots[i].old \in {0, Token(i)} /\ slots[i].new \in {0, Token(i)}
    /\ slots[i].old # 0 <=> queue[i].old = "done"
    /\ slots[i].new # 0 <=> queue[i].new = "done"

\* What the events have answered stays so.
SeenInv ==
  /\ InCase => queue[index].long \in {"queued", "running", "done"}
  /\ Started => queue[index].long \in {"running", "done"}
  /\ InCase /\ queue[index].a_end = "done" => queue[index].long = "done"
  /\ InCase \/ phase = "enqueue" =>
       /\ rc.a = "SUCCESS" => queue[index].a_end = "done"
       /\ rc.old = "SUCCESS" => queue[index].old_end = "done"
  /\ op \in {"query_new", "verify_new"} \/ NewSeen =>
       (queue[index].new_end = "done" => channel = "enabled")
  /\ NewSeen => queue[index].new_end = "done"
  /\ phase \in {"after_new_complete", "identity"} => queue[index].new = "done"

\* An old sentinel that was seen to be pending at the end of the hold runs later.
HeldSoFar == queue[index].old = "done" => slots[index].gpu_ns >= 1
HeldInv == HoldOver /\ hold_pending => HeldSoFar

\* What class c says of case i.
Good(i, c) ==
  /\ queue[i].old = "done" => slots[i].gpu_ns >= 1
  /\ c = "old_queue_preserved" => \A e \in Entries : queue[i][e] = "done"
  /\ c = "queued_sentinel_removed_context_reusable" =>
       /\ \A e \in {"long", "a_end", "new", "new_end"} : queue[i][e] = "done"
       /\ queue[i].old = "done" => slots[i].gpu_ns = 3

\* Every class that is valid is true, once given and from then on.
RowsInv ==
  /\ phase = "record" /\ classification \in Valid =>
       Good(index, classification) /\ channel = "enabled"
  /\ \A i \in Cases :
       /\ rows[i] \in Valid => Good(i, rows[i])
       /\ rows[i] # "none" => i < index \/ (i = index /\ phase \in After)
       /\ rows[i] \in Invalid => phase \in After /\ (phase = "next" => stopped)
       /\ i < index => rows[i] \in Valid

\* How the run goes on, and how it ends.
EndInv ==
  /\ stopped => phase \in After
  /\ phase = "next" /\ ~stopped => rows[index] \in Valid /\ channel = "enabled"
  /\ phase = "finish" /\ ~stopped =>
       (\A i \in Cases : rows[i] \in Valid) /\ channel = "enabled"
  /\ phase = "leave" \/ outcome \in {"exit 0", "exit 3"} =>
       IF stopped THEN run_status = "stopped"
       ELSE /\ run_status = "completed" /\ channel = "enabled"
            /\ \A i \in Cases : rows[i] \in Valid
  /\ outcome # "none" => phase = "done"
  /\ outcome = "exit 0" => ~stopped
  /\ outcome = "exit 3" => stopped

IInv == Types /\ FreshInv /\ TokenInv /\ SeenInv /\ HeldInv /\ RowsInv /\ EndInv

--------------------------------------------------------------------------------
(* The constants and the cases.                                             *)

USE DEF Answers, Valid, Invalid, Entries, OldStream, Token, SlotOf, At, Go, locals, gpu, ending

LEMMA SameCases == ASSUME o' = o PROVE Cases' = Cases /\ CaseCount' = CaseCount
BY DEF Cases, CaseCount, paired

LEMMA CountPositive == ASSUME o \in Options PROVE CaseCount \in Nat \ {0}
<1>1. o.trials \in Nat \ {0}
  BY OptionsAssumption
<1>2. CASE paired
  BY <1>1, <1>2 DEF CaseCount
<1>3. CASE ~paired
  BY <1>1, <1>3 DEF CaseCount
<1> QED
  BY <1>2, <1>3

LEMMA CaseNumbers ==
  ASSUME o \in Options
  PROVE  /\ 0 \in Cases
         /\ \A i \in Cases : i \in Nat /\ i + 1 \in 0..CaseCount /\ i + 1 # 0
         /\ \A i \in Cases : i + 1 < CaseCount => i + 1 \in Cases
         /\ \A i \in Cases : ~(i + 1 < CaseCount) => \A j \in Cases : j < i \/ j = i
BY CountPositive DEF Cases

LEMMA TypesAreTypes == Types => TypeOK
BY DEF Types, TypeOK, RunTypes, CaseTypes, SlotTypes, QueueTypes, EndTypes, Reasons, EntryStates

LEMMA InitEstablishes == Init => IInv
<1> SUFFICES ASSUME Init PROVE IInv
  OBVIOUS
<1>0. o \in Options /\ 0 \in Cases
  BY CaseNumbers DEF Init
<1>1. RunTypes
  BY <1>0, PollsAssumption DEF Init, RunTypes, Places
<1>2. CaseTypes /\ EndTypes
  BY <1>0 DEF Init, CaseTypes, EndTypes, Reasons
<1>3. SlotTypes
  BY <1>0, CountPositive DEF Init, SlotTypes
<1>4. QueueTypes
  BY <1>0 DEF Init, QueueTypes, EntryStates
<1>5. FreshInv /\ TokenInv
  BY <1>0, CaseNumbers DEF Init, FreshInv, TokenInv, BeforeNew
<1>6. SeenInv /\ HeldInv
  BY DEF Init, SeenInv, HeldInv, InCase, Started, NewSeen, HoldOver, Observing
<1>7. RowsInv /\ EndInv
  BY <1>0, CaseNumbers DEF Init, RowsInv, EndInv, After, Cases
<1> QED
  BY <1>1, <1>2, <1>3, <1>4, <1>5, <1>6, <1>7 DEF IInv, Types

--------------------------------------------------------------------------------
(* What the operators on the queue do.                                      *)

LEMMA SubmittedFacts ==
  ASSUME IInv, Cases' = Cases, NEW es, Submitted(es), channel' = channel
  PROVE  /\ QueueTypes'
         /\ \A i \in Cases : i # index => queue'[i] = queue[i]
         /\ \A e \in Entries : queue'[index][e] = IF e \in es THEN "queued" ELSE queue[index][e]
<1>0. QueueTypes /\ index \in Cases
  BY DEF IInv, Types, RunTypes
<1>1. queue' \in [Cases -> [Entries -> EntryStates]]
  BY <1>0 DEF QueueTypes, Submitted, EntryStates
<1>2. \A i \in Cases : i # index => queue'[i] = queue[i]
  BY <1>0 DEF QueueTypes, Submitted
<1>3. \A e \in Entries : queue'[index][e] = IF e \in es THEN "queued" ELSE queue[index][e]
  BY <1>0 DEF QueueTypes, Submitted
<1> QED
  BY <1>0, <1>1, <1>2, <1>3 DEF QueueTypes

LEMMA RunFacts ==
  ASSUME IInv, NEW i \in Cases, NEW e \in Entries, GpuRuns(i, e)
  PROVE  /\ Cases' = Cases /\ CaseCount' = CaseCount
         /\ channel = "enabled" /\ channel' = channel
         /\ queue[i][e] \in {"queued", "running"}
         /\ e = "long" /\ queue[i][e] = "queued" => queue'[i][e] = "running"
         /\ ~(e = "long" /\ queue[i][e] = "queued") => queue'[i][e] = "done"
         /\ e = "a_end" => queue[i].long \notin {"queued", "running"}
         /\ \A j \in Cases, f \in Entries : j # i \/ f # e => queue'[j][f] = queue[j][f]
         /\ QueueTypes'
<1>0. QueueTypes /\ o' = o
  BY DEF IInv, Types, RunTypes, GpuRuns
<1>1. Cases' = Cases /\ CaseCount' = CaseCount /\ channel = "enabled" /\ channel' = channel
      /\ queue[i][e] \in {"queued", "running"}
  BY <1>0, SameCases DEF GpuRuns, Ready, Active
<1>2. PICK next \in {"running", "done"} :
        /\ queue' = [queue EXCEPT ![i][e] = next]
        /\ next = IF e = "long" /\ queue[i][e] = "queued" THEN "running" ELSE "done"
  BY DEF GpuRuns
<1>3. queue'[i][e] = next
  BY <1>0, <1>2 DEF QueueTypes
<1>4. \A j \in Cases, f \in Entries : j # i \/ f # e => queue'[j][f] = queue[j][f]
  BY <1>0, <1>2 DEF QueueTypes
<1>5. queue' \in [Cases -> [Entries -> EntryStates]]
  BY <1>0, <1>2 DEF QueueTypes, EntryStates
<1>6. e = "a_end" => queue[i].long \notin {"queued", "running"}
  BY DEF GpuRuns, Ready, Active, Rank
<1> QED
  BY <1>0, <1>1, <1>2, <1>3, <1>4, <1>5, <1>6 DEF QueueTypes

LEMMA StageRange == Stage(index) \in 0..3 /\ \A i \in Cases : Stage(i) \in 0..3
BY DEF Stage

LEMMA PublishFacts ==
  ASSUME IInv, NEW i \in Cases, NEW e \in Entries, GpuRuns(i, e)
  PROVE  /\ SlotTypes'
         /\ \A j \in Cases : j # i => slots'[j] = slots[j]
         /\ slots'[i].old = IF e = "old" THEN i + 1 ELSE slots[i].old
         /\ slots'[i].new = IF e = "new" THEN i + 1 ELSE slots[i].new
         /\ slots'[i].gpu_ns = IF e = "old" THEN Stage(i) ELSE slots[i].gpu_ns
<1>0. /\ SlotTypes /\ Cases' = Cases /\ CaseCount' = CaseCount
      /\ i + 1 \in 0..CaseCount /\ Stage(i) \in 0..3
  BY SameCases, CaseNumbers, StageRange DEF IInv, Types, RunTypes, GpuRuns
<1>1. CASE e = "old"
  <2>1. slots' = [slots EXCEPT ![i].old = i + 1, ![i].gpu_ns = Stage(i)]
    BY <1>1 DEF GpuRuns, Publish
  <2> QED
    BY <1>0, <1>1, <2>1 DEF SlotTypes
<1>2. CASE e = "new"
  <2>1. slots' = [slots EXCEPT ![i].new = i + 1]
    BY <1>2 DEF GpuRuns, Publish
  <2> QED
    BY <1>0, <1>2, <2>1 DEF SlotTypes
<1>3. CASE e \notin {"old", "new"}
  <2>1. slots' = slots
    BY <1>3 DEF GpuRuns, Publish
  <2> QED
    BY <1>0, <1>3, <2>1 DEF SlotTypes
<1> QED
  BY <1>1, <1>2, <1>3

--------------------------------------------------------------------------------
(* Steps that leave the GPU alone, and steps that end a case.               *)

LEMMA QuietGpu ==
  ASSUME IInv, UNCHANGED <<o, gpu>>
  PROVE  SlotTypes' /\ QueueTypes' /\ TokenInv'
<1>0. Cases' = Cases /\ CaseCount' = CaseCount
  BY SameCases
<1>1. SlotTypes'
  BY <1>0 DEF IInv, Types, SlotTypes
<1>2. QueueTypes'
  BY <1>0 DEF IInv, Types, QueueTypes
<1>3. TokenInv'
  BY <1>0 DEF IInv, TokenInv
<1> QED
  BY <1>1, <1>2, <1>3

LEMMA FailKeeps ==
  ASSUME IInv, phase \notin After, NEW class \in Invalid, NEW why \in Reasons,
         Fail(class, why), polls' \in 0..MaxPolls, UNCHANGED <<o, index, gpu, ending>>
  PROVE  IInv'
<1>0. index \in Cases /\ Cases' = Cases /\ CaseCount' = CaseCount
  BY SameCases DEF IInv, Types, RunTypes, Fail
<1>1. RunTypes'
  BY <1>0 DEF IInv, Types, RunTypes, Places, Observing, Fail
<1>2. CaseTypes'
  BY <1>0 DEF IInv, Types, CaseTypes, Fail
<1>3. SlotTypes'
  BY <1>0, QuietGpu DEF Fail
<1>4. QueueTypes'
  BY <1>0, QuietGpu DEF Fail
<1>5. EndTypes'
  BY <1>0 DEF IInv, Types, EndTypes, Fail
<1>6. FreshInv'
  BY <1>0 DEF IInv, Types, RunTypes, Places, Observing, FreshInv, BeforeNew, Fail
<1>7. TokenInv'
  BY <1>0, QuietGpu DEF Fail
<1>8. SeenInv'
  BY <1>0 DEF IInv, Types, RunTypes, Places, Observing, SeenInv, InCase, Started,
    NewSeen, Fail
<1>9. HeldInv'
  BY <1>0 DEF IInv, Types, RunTypes, Places, Observing, HeldInv, HeldSoFar, HoldOver,
    Fail
<1>10. RowsInv'
  BY <1>0 DEF IInv, Types, RunTypes, Places, Observing, RowsInv, Good, After, Fail
<1>11. EndInv'
  BY <1>0 DEF IInv, Types, RunTypes, Places, Observing, EndInv, After, Fail
<1> QED
  BY <1>1, <1>2, <1>3, <1>4, <1>5, <1>6, <1>7, <1>8, <1>9, <1>10, <1>11 DEF IInv, Types

LEMMA CalibrateKeeps == ASSUME IInv, Calibrate PROVE IInv'
<1>0. index \in Cases /\ Cases' = Cases /\ CaseCount' = CaseCount
  BY SameCases DEF IInv, Types, RunTypes, Calibrate
<1>1. RunTypes'
  BY <1>0 DEF IInv, Types, RunTypes, Places, Observing, Calibrate
<1>2. CaseTypes'
  BY <1>0 DEF IInv, Types, CaseTypes, Calibrate
<1>3. SlotTypes'
  BY <1>0, QuietGpu DEF Calibrate
<1>4. QueueTypes'
  BY <1>0, QuietGpu DEF Calibrate
<1>5. EndTypes'
  BY <1>0 DEF IInv, Types, EndTypes, Calibrate
<1>6. FreshInv'
  BY <1>0 DEF IInv, Types, RunTypes, Places, Observing, FreshInv, BeforeNew, Calibrate
<1>7. TokenInv'
  BY <1>0, QuietGpu DEF Calibrate
<1>8. SeenInv'
  BY <1>0 DEF IInv, Types, RunTypes, Places, Observing, SeenInv, InCase, Started,
    NewSeen, Calibrate
<1>9. HeldInv'
  BY <1>0 DEF IInv, Types, RunTypes, Places, Observing, HeldInv, HeldSoFar, HoldOver,
    Calibrate
<1>10. RowsInv'
  BY <1>0 DEF IInv, Types, RunTypes, Places, Observing, RowsInv, Good, After, Calibrate
<1>11. EndInv'
  BY <1>0 DEF IInv, Types, RunTypes, Places, Observing, EndInv, After, Calibrate
<1> QED
  BY <1>1, <1>2, <1>3, <1>4, <1>5, <1>6, <1>7, <1>8, <1>9, <1>10, <1>11 DEF IInv, Types

LEMMA ReferenceKeeps == ASSUME IInv, Reference PROVE IInv'
<1>0. index \in Cases /\ Cases' = Cases /\ CaseCount' = CaseCount
  BY SameCases DEF IInv, Types, RunTypes, Reference
<1>1. RunTypes'
  BY <1>0 DEF IInv, Types, RunTypes, Places, Observing, Reference
<1>2. CaseTypes'
  BY <1>0 DEF IInv, Types, CaseTypes, Reference, Reasons
<1>3. SlotTypes'
  BY <1>0, QuietGpu DEF Reference
<1>4. QueueTypes'
  BY <1>0, QuietGpu DEF Reference
<1>5. EndTypes'
  BY <1>0 DEF IInv, Types, EndTypes, Reference
<1>6. FreshInv'
  BY <1>0 DEF IInv, Types, RunTypes, Places, Observing, FreshInv, BeforeNew, Reference
<1>7. TokenInv'
  BY <1>0, QuietGpu DEF Reference
<1>8. SeenInv'
  BY <1>0 DEF IInv, Types, RunTypes, Places, Observing, SeenInv, InCase, Started,
    NewSeen, Reference
<1>9. HeldInv'
  BY <1>0 DEF IInv, Types, RunTypes, Places, Observing, HeldInv, HeldSoFar, HoldOver,
    Reference
<1>10. RowsInv'
  BY <1>0 DEF IInv, Types, RunTypes, Places, Observing, RowsInv, Good, After, Reference
<1>11. EndInv'
  BY <1>0 DEF IInv, Types, RunTypes, Places, Observing, EndInv, After, Reference
<1> QED
  BY <1>1, <1>2, <1>3, <1>4, <1>5, <1>6, <1>7, <1>8, <1>9, <1>10, <1>11 DEF IInv, Types

LEMMA WaitStartedKeeps == ASSUME IInv, WaitStarted PROVE IInv'
<1>0. index \in Cases /\ Cases' = Cases /\ CaseCount' = CaseCount
  BY SameCases DEF IInv, Types, RunTypes, WaitStarted
<1>1. RunTypes'
  BY <1>0 DEF IInv, Types, RunTypes, Places, Observing, WaitStarted
<1>2. CaseTypes'
  BY <1>0 DEF IInv, Types, CaseTypes, WaitStarted
<1>3. SlotTypes'
  BY <1>0, QuietGpu DEF WaitStarted
<1>4. QueueTypes'
  BY <1>0, QuietGpu DEF WaitStarted
<1>5. EndTypes'
  BY <1>0 DEF IInv, Types, EndTypes, WaitStarted
<1>6. FreshInv'
  BY <1>0 DEF IInv, Types, RunTypes, Places, Observing, FreshInv, BeforeNew, WaitStarted
<1>7. TokenInv'
  BY <1>0, QuietGpu DEF WaitStarted
<1>8. SeenInv'
  BY <1>0 DEF IInv, Types, RunTypes, Places, Observing, SeenInv, InCase, Started,
    NewSeen, WaitStarted
<1>9. HeldInv'
  BY <1>0 DEF IInv, Types, RunTypes, Places, Observing, HeldInv, HeldSoFar, HoldOver,
    WaitStarted
<1>10. RowsInv'
  BY <1>0 DEF IInv, Types, RunTypes, Places, Observing, RowsInv, Good, After,
    WaitStarted
<1>11. EndInv'
  BY <1>0 DEF IInv, Types, RunTypes, Places, Observing, EndInv, After, WaitStarted
<1> QED
  BY <1>1, <1>2, <1>3, <1>4, <1>5, <1>6, <1>7, <1>8, <1>9, <1>10, <1>11 DEF IInv, Types

LEMMA QueryAKeeps == ASSUME IInv, QueryA PROVE IInv'
<1>0. index \in Cases /\ Cases' = Cases /\ CaseCount' = CaseCount
  BY SameCases DEF IInv, Types, RunTypes, QueryA
<1>1. RunTypes'
  BY <1>0 DEF IInv, Types, RunTypes, Places, Observing, QueryA
<1>2. CaseTypes'
  BY <1>0 DEF IInv, Types, CaseTypes, QueryA, Answer
<1>3. SlotTypes'
  BY <1>0, QuietGpu DEF QueryA
<1>4. QueueTypes'
  BY <1>0, QuietGpu DEF QueryA
<1>5. EndTypes'
  BY <1>0 DEF IInv, Types, EndTypes, QueryA
<1>6. FreshInv'
  BY <1>0 DEF IInv, Types, RunTypes, Places, Observing, FreshInv, BeforeNew, QueryA
<1>7. TokenInv'
  BY <1>0, QuietGpu DEF QueryA
<1>8. SeenInv'
  BY <1>0 DEF IInv, Types, RunTypes, Places, Observing, SeenInv, InCase, Started,
    NewSeen, QueryA, Answer, CaseTypes
<1>9. HeldInv'
  BY <1>0 DEF IInv, Types, RunTypes, Places, Observing, HeldInv, HeldSoFar, HoldOver,
    QueryA
<1>10. RowsInv'
  BY <1>0 DEF IInv, Types, RunTypes, Places, Observing, RowsInv, Good, After, QueryA
<1>11. EndInv'
  BY <1>0 DEF IInv, Types, RunTypes, Places, Observing, EndInv, After, QueryA
<1> QED
  BY <1>1, <1>2, <1>3, <1>4, <1>5, <1>6, <1>7, <1>8, <1>9, <1>10, <1>11 DEF IInv, Types

LEMMA QueryOldKeeps == ASSUME IInv, QueryOld PROVE IInv'
<1>0. index \in Cases /\ Cases' = Cases /\ CaseCount' = CaseCount
  BY SameCases DEF IInv, Types, RunTypes, QueryOld
<1>1. RunTypes'
  BY <1>0 DEF IInv, Types, RunTypes, Places, Observing, QueryOld
<1>2. CaseTypes'
  BY <1>0 DEF IInv, Types, CaseTypes, QueryOld, Answer
<1>3. SlotTypes'
  BY <1>0, QuietGpu DEF QueryOld
<1>4. QueueTypes'
  BY <1>0, QuietGpu DEF QueryOld
<1>5. EndTypes'
  BY <1>0 DEF IInv, Types, EndTypes, QueryOld
<1>6. FreshInv'
  BY <1>0 DEF IInv, Types, RunTypes, Places, Observing, FreshInv, BeforeNew, QueryOld
<1>7. TokenInv'
  BY <1>0, QuietGpu DEF QueryOld
<1>8. SeenInv'
  BY <1>0 DEF IInv, Types, RunTypes, Places, Observing, SeenInv, InCase, Started,
    NewSeen, QueryOld, Answer, CaseTypes
<1>9. HeldInv'
  BY <1>0 DEF IInv, Types, RunTypes, Places, Observing, HeldInv, HeldSoFar, HoldOver,
    QueryOld
<1>10. RowsInv'
  BY <1>0 DEF IInv, Types, RunTypes, Places, Observing, RowsInv, Good, After, QueryOld
<1>11. EndInv'
  BY <1>0 DEF IInv, Types, RunTypes, Places, Observing, EndInv, After, QueryOld
<1> QED
  BY <1>1, <1>2, <1>3, <1>4, <1>5, <1>6, <1>7, <1>8, <1>9, <1>10, <1>11 DEF IInv, Types

LEMMA HoldCheckKeeps == ASSUME IInv, HoldCheck PROVE IInv'
<1>0. index \in Cases /\ Cases' = Cases /\ CaseCount' = CaseCount
  BY SameCases DEF IInv, Types, RunTypes, HoldCheck
<1>1. RunTypes'
  BY <1>0, PollsAssumption DEF IInv, Types, RunTypes, Places, Observing, HoldCheck
<1>2. CaseTypes'
  BY <1>0 DEF IInv, Types, CaseTypes, HoldCheck
<1>3. SlotTypes'
  BY <1>0, QuietGpu DEF HoldCheck
<1>4. QueueTypes'
  BY <1>0, QuietGpu DEF HoldCheck
<1>5. EndTypes'
  BY <1>0 DEF IInv, Types, EndTypes, HoldCheck
<1>6. FreshInv'
  BY <1>0 DEF IInv, Types, RunTypes, Places, Observing, FreshInv, BeforeNew, HoldCheck
<1>7. TokenInv'
  BY <1>0, QuietGpu DEF HoldCheck
<1>8. SeenInv'
  BY <1>0 DEF IInv, Types, RunTypes, Places, Observing, SeenInv, InCase, Started,
    NewSeen, HoldCheck
<1>9. HeldInv'
  BY <1>0 DEF IInv, Types, RunTypes, Places, Observing, HeldInv, HeldSoFar, HoldOver,
    HoldCheck
<1>10. RowsInv'
  BY <1>0 DEF IInv, Types, RunTypes, Places, Observing, RowsInv, Good, After, HoldCheck
<1>11. EndInv'
  BY <1>0 DEF IInv, Types, RunTypes, Places, Observing, EndInv, After, HoldCheck
<1> QED
  BY <1>1, <1>2, <1>3, <1>4, <1>5, <1>6, <1>7, <1>8, <1>9, <1>10, <1>11 DEF IInv, Types

LEMMA ObserveAfterEnableKeeps == ASSUME IInv, ObserveAfterEnable PROVE IInv'
<1>0. index \in Cases /\ Cases' = Cases /\ CaseCount' = CaseCount
  BY SameCases DEF IInv, Types, RunTypes, ObserveAfterEnable, ObserveOld
<1>1. RunTypes'
  BY <1>0, PollsAssumption DEF IInv, Types, RunTypes, Places, Observing,
    ObserveAfterEnable, ObserveOld
<1>2. CaseTypes'
  BY <1>0 DEF IInv, Types, CaseTypes, ObserveAfterEnable, ObserveOld
<1>3. SlotTypes'
  BY <1>0, QuietGpu DEF ObserveAfterEnable, ObserveOld
<1>4. QueueTypes'
  BY <1>0, QuietGpu DEF ObserveAfterEnable, ObserveOld
<1>5. EndTypes'
  BY <1>0 DEF IInv, Types, EndTypes, ObserveAfterEnable, ObserveOld
<1>6. FreshInv'
  BY <1>0 DEF IInv, Types, RunTypes, Places, Observing, FreshInv, BeforeNew,
    ObserveAfterEnable, ObserveOld
<1>7. TokenInv'
  BY <1>0, QuietGpu DEF ObserveAfterEnable, ObserveOld
<1>8. SeenInv'
  BY <1>0 DEF IInv, Types, RunTypes, Places, Observing, SeenInv, InCase, Started,
    NewSeen, ObserveAfterEnable, ObserveOld
<1>9. HeldInv'
  BY <1>0 DEF IInv, Types, RunTypes, Places, Observing, HeldInv, HeldSoFar, HoldOver,
    ObserveAfterEnable, ObserveOld
<1>10. RowsInv'
  BY <1>0 DEF IInv, Types, RunTypes, Places, Observing, RowsInv, Good, After,
    ObserveAfterEnable, ObserveOld
<1>11. EndInv'
  BY <1>0 DEF IInv, Types, RunTypes, Places, Observing, EndInv, After,
    ObserveAfterEnable, ObserveOld
<1> QED
  BY <1>1, <1>2, <1>3, <1>4, <1>5, <1>6, <1>7, <1>8, <1>9, <1>10, <1>11 DEF IInv, Types

LEMMA CreateStreamKeeps == ASSUME IInv, CreateStream PROVE IInv'
<1>0. index \in Cases /\ Cases' = Cases /\ CaseCount' = CaseCount
  BY SameCases DEF IInv, Types, RunTypes, CreateStream
<1>1. RunTypes'
  BY <1>0 DEF IInv, Types, RunTypes, Places, Observing, CreateStream
<1>2. CaseTypes'
  BY <1>0 DEF IInv, Types, CaseTypes, CreateStream
<1>3. SlotTypes'
  BY <1>0, QuietGpu DEF CreateStream
<1>4. QueueTypes'
  BY <1>0, QuietGpu DEF CreateStream
<1>5. EndTypes'
  BY <1>0 DEF IInv, Types, EndTypes, CreateStream
<1>6. FreshInv'
  BY <1>0 DEF IInv, Types, RunTypes, Places, Observing, FreshInv, BeforeNew,
    CreateStream
<1>7. TokenInv'
  BY <1>0, QuietGpu DEF CreateStream
<1>8. SeenInv'
  BY <1>0 DEF IInv, Types, RunTypes, Places, Observing, SeenInv, InCase, Started,
    NewSeen, CreateStream
<1>9. HeldInv'
  BY <1>0 DEF IInv, Types, RunTypes, Places, Observing, HeldInv, HeldSoFar, HoldOver,
    CreateStream
<1>10. RowsInv'
  BY <1>0 DEF IInv, Types, RunTypes, Places, Observing, RowsInv, Good, After,
    CreateStream
<1>11. EndInv'
  BY <1>0 DEF IInv, Types, RunTypes, Places, Observing, EndInv, After, CreateStream
<1> QED
  BY <1>1, <1>2, <1>3, <1>4, <1>5, <1>6, <1>7, <1>8, <1>9, <1>10, <1>11 DEF IInv, Types

LEMMA ObserveAfterNewKeeps == ASSUME IInv, ObserveAfterNew PROVE IInv'
<1>0. index \in Cases /\ Cases' = Cases /\ CaseCount' = CaseCount
  BY SameCases DEF IInv, Types, RunTypes, ObserveAfterNew, ObserveOld
<1>1. RunTypes'
  BY <1>0, PollsAssumption DEF IInv, Types, RunTypes, Places, Observing,
    ObserveAfterNew, ObserveOld
<1>2. CaseTypes'
  BY <1>0 DEF IInv, Types, CaseTypes, ObserveAfterNew, ObserveOld
<1>3. SlotTypes'
  BY <1>0, QuietGpu DEF ObserveAfterNew, ObserveOld
<1>4. QueueTypes'
  BY <1>0, QuietGpu DEF ObserveAfterNew, ObserveOld
<1>5. EndTypes'
  BY <1>0 DEF IInv, Types, EndTypes, ObserveAfterNew, ObserveOld
<1>6. FreshInv'
  BY <1>0 DEF IInv, Types, RunTypes, Places, Observing, FreshInv, BeforeNew,
    ObserveAfterNew, ObserveOld
<1>7. TokenInv'
  BY <1>0, QuietGpu DEF ObserveAfterNew, ObserveOld
<1>8. SeenInv'
  BY <1>0 DEF IInv, Types, RunTypes, Places, Observing, SeenInv, InCase, Started,
    NewSeen, ObserveAfterNew, ObserveOld
<1>9. HeldInv'
  BY <1>0 DEF IInv, Types, RunTypes, Places, Observing, HeldInv, HeldSoFar, HoldOver,
    ObserveAfterNew, ObserveOld
<1>10. RowsInv'
  BY <1>0 DEF IInv, Types, RunTypes, Places, Observing, RowsInv, Good, After,
    ObserveAfterNew, ObserveOld
<1>11. EndInv'
  BY <1>0 DEF IInv, Types, RunTypes, Places, Observing, EndInv, After, ObserveAfterNew,
    ObserveOld
<1> QED
  BY <1>1, <1>2, <1>3, <1>4, <1>5, <1>6, <1>7, <1>8, <1>9, <1>10, <1>11 DEF IInv, Types

LEMMA FinishKeeps == ASSUME IInv, Finish PROVE IInv'
<1>0. index \in Cases /\ Cases' = Cases /\ CaseCount' = CaseCount
  BY SameCases DEF IInv, Types, RunTypes, Finish
<1>1. RunTypes'
  BY <1>0 DEF IInv, Types, RunTypes, Places, Observing, Finish
<1>2. CaseTypes'
  BY <1>0 DEF IInv, Types, CaseTypes, Finish
<1>3. SlotTypes'
  BY <1>0, QuietGpu DEF Finish
<1>4. QueueTypes'
  BY <1>0, QuietGpu DEF Finish
<1>5. EndTypes'
  BY <1>0 DEF IInv, Types, EndTypes, Finish
<1>6. FreshInv'
  BY <1>0 DEF IInv, Types, RunTypes, Places, Observing, FreshInv, BeforeNew, Finish
<1>7. TokenInv'
  BY <1>0, QuietGpu DEF Finish
<1>8. SeenInv'
  BY <1>0 DEF IInv, Types, RunTypes, Places, Observing, SeenInv, InCase, Started,
    NewSeen, Finish
<1>9. HeldInv'
  BY <1>0 DEF IInv, Types, RunTypes, Places, Observing, HeldInv, HeldSoFar, HoldOver,
    Finish
<1>10. RowsInv'
  BY <1>0 DEF IInv, Types, RunTypes, Places, Observing, RowsInv, Good, After, Finish
<1>11. EndInv'
  BY <1>0 DEF IInv, Types, RunTypes, Places, Observing, EndInv, After, Finish
<1> QED
  BY <1>1, <1>2, <1>3, <1>4, <1>5, <1>6, <1>7, <1>8, <1>9, <1>10, <1>11 DEF IInv, Types

LEMMA CatchKeeps == ASSUME IInv, Catch PROVE IInv'
<1>0. index \in Cases /\ Cases' = Cases /\ CaseCount' = CaseCount
  BY SameCases DEF IInv, Types, RunTypes, Catch, Unwind
<1>1. RunTypes'
  BY <1>0 DEF IInv, Types, RunTypes, Places, Observing, Catch, Unwind
<1>2. CaseTypes'
  BY <1>0 DEF IInv, Types, CaseTypes, Catch, Unwind
<1>3. SlotTypes'
  BY <1>0, QuietGpu DEF Catch, Unwind
<1>4. QueueTypes'
  BY <1>0, QuietGpu DEF Catch, Unwind
<1>5. EndTypes'
  BY <1>0 DEF IInv, Types, EndTypes, Catch, Unwind
<1>6. FreshInv'
  BY <1>0 DEF IInv, Types, RunTypes, Places, Observing, FreshInv, BeforeNew, Catch,
    Unwind
<1>7. TokenInv'
  BY <1>0, QuietGpu DEF Catch, Unwind
<1>8. SeenInv'
  BY <1>0 DEF IInv, Types, RunTypes, Places, Observing, SeenInv, InCase, Started,
    NewSeen, Catch, Unwind
<1>9. HeldInv'
  BY <1>0 DEF IInv, Types, RunTypes, Places, Observing, HeldInv, HeldSoFar, HoldOver,
    Catch, Unwind
<1>10. RowsInv'
  BY <1>0 DEF IInv, Types, RunTypes, Places, Observing, RowsInv, Good, After, Catch,
    Unwind
<1>11. EndInv'
  BY <1>0 DEF IInv, Types, RunTypes, Places, Observing, EndInv, After, Catch, Unwind
<1> QED
  BY <1>1, <1>2, <1>3, <1>4, <1>5, <1>6, <1>7, <1>8, <1>9, <1>10, <1>11 DEF IInv, Types

LEMMA HoldEndCheckKeeps == ASSUME IInv, HoldEndCheck PROVE IInv'
<1>0. index \in Cases /\ Cases' = Cases /\ CaseCount' = CaseCount
  BY SameCases DEF IInv, Types, RunTypes, HoldEndCheck
<1>1. RunTypes'
  BY <1>0 DEF IInv, Types, RunTypes, Places, Observing, HoldEndCheck
<1>2. CaseTypes'
  BY <1>0 DEF IInv, Types, CaseTypes, HoldEndCheck
<1>3. SlotTypes'
  BY <1>0, QuietGpu DEF HoldEndCheck
<1>4. QueueTypes'
  BY <1>0, QuietGpu DEF HoldEndCheck
<1>5. EndTypes'
  BY <1>0 DEF IInv, Types, EndTypes, HoldEndCheck
<1>6. FreshInv'
  BY <1>0 DEF IInv, Types, RunTypes, Places, Observing, FreshInv, BeforeNew,
    HoldEndCheck
<1>7. TokenInv'
  BY <1>0, QuietGpu DEF HoldEndCheck
<1>8. SeenInv'
  BY <1>0 DEF IInv, Types, RunTypes, Places, Observing, SeenInv, InCase, Started,
    NewSeen, HoldEndCheck
<1>9. HeldInv'
  <2>1. slots[index].old = 0 => queue[index].old # "done"
    BY <1>0 DEF IInv, TokenInv
  <2> QED
    BY <1>0, <2>1 DEF HeldInv, HeldSoFar, HoldEndCheck, StillPending, slot
<1>10. RowsInv'
  BY <1>0 DEF IInv, Types, RunTypes, Places, Observing, RowsInv, Good, After,
    HoldEndCheck
<1>11. EndInv'
  BY <1>0 DEF IInv, Types, RunTypes, Places, Observing, EndInv, After, HoldEndCheck
<1> QED
  BY <1>1, <1>2, <1>3, <1>4, <1>5, <1>6, <1>7, <1>8, <1>9, <1>10, <1>11 DEF IInv, Types

LEMMA ClassifyKeeps == ASSUME IInv, Classify PROVE IInv'
<1>0. index \in Cases /\ Cases' = Cases /\ CaseCount' = CaseCount
  BY SameCases DEF IInv, Types, RunTypes, Classify
<1>1. RunTypes'
  BY <1>0 DEF IInv, Types, RunTypes, Places, Observing, Classify
<1>2. CaseTypes'
  BY <1>0 DEF IInv, Types, CaseTypes, Classify, ClassOf, Reasons
<1>3. SlotTypes'
  BY <1>0, QuietGpu DEF Classify
<1>4. QueueTypes'
  BY <1>0, QuietGpu DEF Classify
<1>5. EndTypes'
  BY <1>0 DEF IInv, Types, EndTypes, Classify
<1>6. FreshInv'
  BY <1>0 DEF IInv, Types, RunTypes, Places, Observing, FreshInv, BeforeNew, Classify
<1>7. TokenInv'
  BY <1>0, QuietGpu DEF Classify
<1>8. SeenInv'
  BY <1>0 DEF IInv, Types, RunTypes, Places, Observing, SeenInv, InCase, Started,
    NewSeen, Classify
<1>9. HeldInv'
  BY <1>0 DEF IInv, Types, RunTypes, Places, Observing, HeldInv, HeldSoFar, HoldOver,
    Classify
<1>10. RowsInv'
  <2>1. PICK same \in BOOLEAN : classification' = ClassOf(same)
    BY DEF Classify
  <2>2. /\ phase = "identity" /\ phase' = "record"
        /\ UNCHANGED <<o, index, rc, hold_pending, slots, queue, channel, rows, stopped>>
    BY DEF Classify
  <2>3. /\ rc.a = "SUCCESS" => queue[index].a_end = "done" /\ queue[index].long = "done"
        /\ rc.old = "SUCCESS" => queue[index].old_end = "done"
        /\ queue[index].new = "done" /\ queue[index].new_end = "done" /\ channel = "enabled"
    BY <2>2 DEF IInv, SeenInv, InCase, Started, NewSeen
  <2>4. hold_pending => (queue[index].old = "done" => slots[index].gpu_ns >= 1)
    BY <2>2 DEF IInv, HeldInv, HeldSoFar, HoldOver
  <2>5. slots[index].old # 0 <=> queue[index].old = "done"
    BY <1>0 DEF IInv, TokenInv
  <2>6. CASE ClassOf(same) = "old_queue_preserved"
    <3>1. hold_pending /\ old_ok /\ rc.a = "SUCCESS" /\ rc.old = "SUCCESS"
      BY <2>6 DEF ClassOf
    <3>2. queue[index].old = "done"
      BY <1>0, <2>5, <3>1, CaseNumbers DEF old_ok, slot, IInv, Types, RunTypes
    <3>3. Good(index, "old_queue_preserved")
      BY <2>3, <2>4, <3>1, <3>2 DEF Good
    <3> QED
      BY <1>0, <2>1, <2>2, <2>3, <2>6, <3>3 DEF IInv, RowsInv, Good, After
  <2>7. CASE ClassOf(same) = "queued_sentinel_removed_context_reusable"
    <3>1. hold_pending /\ slots[index].old = 0 /\ rc.a = "SUCCESS"
      BY <2>7 DEF ClassOf, slot
    <3>2. Good(index, "queued_sentinel_removed_context_reusable")
      BY <2>3, <2>4, <2>5, <3>1 DEF Good
    <3> QED
      BY <1>0, <2>1, <2>2, <2>3, <2>7, <3>2 DEF IInv, RowsInv, Good, After
  <2>8. CASE ClassOf(same) = "ambiguous"
    BY <1>0, <2>1, <2>2, <2>8 DEF IInv, RowsInv, Good, After
  <2> QED
    BY <2>6, <2>7, <2>8 DEF ClassOf
<1>11. EndInv'
  BY <1>0 DEF IInv, Types, RunTypes, Places, Observing, EndInv, After, Classify
<1> QED
  BY <1>1, <1>2, <1>3, <1>4, <1>5, <1>6, <1>7, <1>8, <1>9, <1>10, <1>11 DEF IInv, Types

LEMMA RecordKeeps == ASSUME IInv, Record PROVE IInv'
<1>0. /\ index \in Cases /\ Cases' = Cases /\ CaseCount' = CaseCount
      /\ phase = "record" /\ op = "write" /\ rows[index] = "none" /\ stopped = FALSE
      /\ outcome = "none" /\ rows \in [Cases -> {"none"} \union Valid \union Invalid]
      /\ classification \in Valid \union Invalid
  <2>1. o' = o /\ phase = "record" /\ op = "write"
    BY DEF Record
  <2>2. index \in Cases /\ ~(index < index)
    BY CaseNumbers DEF IInv, Types, RunTypes
  <2>3. /\ rows \in [Cases -> {"none"} \union Valid \union Invalid]
        /\ classification \in Valid \union Invalid
    BY DEF IInv, Types, EndTypes, CaseTypes
  <2>4. rows[index] = "none" /\ stopped = FALSE /\ outcome = "none"
    BY <2>1, <2>2, <2>3 DEF IInv, Types, EndTypes, RowsInv, EndInv, After
  <2> QED
    BY <2>1, <2>2, <2>3, <2>4, SameCases
<1>1. /\ UNCHANGED <<o, index, polls, locals, gpu, run_status, outcome>>
      /\ rows' \in [Cases -> {"none"} \union Valid \union Invalid]
      /\ \A i \in Cases : i # index => rows'[i] = rows[i]
      /\ rows'[index] \in {"none", classification}
      /\ \/ /\ phase' = "next" /\ op' = "case" /\ rows'[index] = classification
            /\ stopped' = (classification \in Invalid)
         \/ phase' = "catch" /\ op' = "write" /\ stopped' = stopped
  BY <1>0 DEF Record
<1>2. RunTypes' /\ CaseTypes' /\ EndTypes'
  <2>1. RunTypes'
    BY <1>0, <1>1 DEF IInv, Types, RunTypes, Places
  <2>2. CaseTypes'
    BY <1>1 DEF IInv, Types, CaseTypes
  <2>3. stopped' \in BOOLEAN
    <3>1. CASE stopped' = (classification \in Invalid)
      BY <3>1, SMT
    <3>2. CASE stopped' = stopped
      BY <1>0, <3>2
    <3> QED
      BY <1>1, <3>1, <3>2
  <2>4. EndTypes'
    BY <1>0, <1>1, <2>3 DEF IInv, Types, EndTypes
  <2> QED
    BY <2>1, <2>2, <2>4
<1>3. SlotTypes' /\ QueueTypes' /\ TokenInv'
  BY <1>1, QuietGpu
<1>4. FreshInv'
  BY <1>0, <1>1 DEF IInv, FreshInv, BeforeNew
<1>5. SeenInv' /\ HeldInv'
  BY <1>0, <1>1 DEF SeenInv, InCase, Started, NewSeen, HeldInv, HoldOver, Observing
<1>6. RowsInv'
  <2>1. classification \in Valid => Good(index, classification) /\ channel = "enabled"
    BY <1>0 DEF IInv, RowsInv
  <2>2. \A i \in Cases : i # index =>
          /\ rows'[i] \in Valid => Good(i, rows'[i])
          /\ rows'[i] # "none" => i < index
          /\ rows'[i] \notin Invalid
          /\ i < index => rows'[i] \in Valid
    BY <1>0, <1>1 DEF IInv, RowsInv, After
  <2>3. /\ rows'[index] \in Valid => Good(index, rows'[index])
        /\ rows'[index] # "none" => phase' \in After
        /\ rows'[index] \in Invalid => phase' \in After /\ (phase' = "next" => stopped')
        /\ ~(index < index)
    <3>1. ~(index < index)
      BY <1>0, CaseNumbers DEF IInv, Types, RunTypes
    <3>2. CASE rows'[index] = "none"
      BY <1>1, <3>1, <3>2
    <3>3. CASE rows'[index] = classification
      BY <1>0, <1>1, <2>1, <3>1, <3>3 DEF After
    <3> QED
      BY <1>1, <3>2, <3>3
  <2>4. \A i \in Cases, c \in Valid : Good(i, c) => Good(i, c)'
    BY <1>1 DEF Good
  <2> QED
    BY <1>0, <1>1, <2>2, <2>3, <2>4 DEF RowsInv
<1>7. EndInv'
  BY <1>0, <1>1 DEF IInv, RowsInv, EndInv, After
<1> QED
  BY <1>2, <1>3, <1>4, <1>5, <1>6, <1>7 DEF IInv, Types

LEMMA NextCaseKeeps == ASSUME IInv, NextCase PROVE IInv'
<1>0. /\ index \in Cases /\ Cases' = Cases /\ CaseCount' = CaseCount
      /\ phase = "next" /\ op = "case"
      /\ UNCHANGED <<o, polls, locals, gpu, ending>>
  BY SameCases DEF IInv, Types, RunTypes, NextCase
<1>1. CASE ~stopped /\ index + 1 < CaseCount
  <2>1. /\ index' = index + 1 /\ index + 1 \in Cases
        /\ phase' \in {"calibrate", "reference"} /\ op' = "run"
    BY <1>0, <1>1, CaseNumbers DEF NextCase, IInv, Types, RunTypes
  <2>2. RunTypes' /\ CaseTypes' /\ EndTypes'
    BY <1>0, <2>1 DEF IInv, Types, RunTypes, CaseTypes, EndTypes, Places
  <2>3. SlotTypes' /\ QueueTypes' /\ TokenInv'
    BY <1>0, QuietGpu
  <2>4. \A i \in Cases : i < index' <=> (i < index \/ i = index)
    BY <1>0, <2>1, CaseNumbers DEF IInv, Types, RunTypes
  <2>5. \A i \in Cases : i > index' \/ i = index' => i > index
    BY <1>0, <2>1, CaseNumbers DEF IInv, Types, RunTypes
  <2>6. FreshInv'
    BY <1>0, <2>1, <2>5 DEF IInv, FreshInv, BeforeNew
  <2>7. SeenInv' /\ HeldInv'
    BY <2>1 DEF SeenInv, InCase, Started, NewSeen, HeldInv, HoldOver, Observing
  <2>8. RowsInv'
    <3>1. rows[index] \in Valid
      BY <1>0, <1>1 DEF IInv, EndInv
    <3>2. \A i \in Cases :
            /\ rows[i] \in Valid => Good(i, rows[i])
            /\ rows[i] # "none" => i < index'
            /\ i < index' => rows[i] \in Valid
      BY <1>0, <2>4, <3>1 DEF IInv, RowsInv
    <3>3. \A i \in Cases : rows[i] \notin Invalid
      BY <1>0, <1>1 DEF IInv, RowsInv
    <3> QED
      BY <1>0, <2>1, <3>2, <3>3 DEF RowsInv, Good
  <2>9. EndInv'
    BY <1>0, <1>1, <2>1 DEF IInv, EndInv
  <2> QED
    BY <2>2, <2>3, <2>6, <2>7, <2>8, <2>9 DEF IInv, Types
<1>2. CASE ~(~stopped /\ index + 1 < CaseCount)
  <2>1. phase' = "finish" /\ op' = "write" /\ index' = index
    BY <1>2 DEF NextCase
  <2>2. RunTypes' /\ CaseTypes' /\ EndTypes'
    BY <1>0, <2>1 DEF IInv, Types, RunTypes, CaseTypes, EndTypes, Places
  <2>3. SlotTypes' /\ QueueTypes' /\ TokenInv'
    BY <1>0, QuietGpu
  <2>4. FreshInv' /\ SeenInv' /\ HeldInv'
    BY <1>0, <2>1 DEF IInv, FreshInv, BeforeNew, SeenInv, InCase, Started, NewSeen, HeldInv,
                      HoldOver, Observing
  <2>5. RowsInv'
    BY <1>0, <2>1 DEF IInv, RowsInv, Good, After
  <2>6. EndInv'
    <3>1. ~stopped => \A i \in Cases : i < index \/ i = index
      BY <1>0, <1>2, CaseNumbers DEF IInv, Types, RunTypes
    <3>2. ~stopped => \A i \in Cases : rows[i] \in Valid
      BY <1>0, <3>1 DEF IInv, RowsInv, EndInv
    <3> QED
      BY <1>0, <2>1, <3>2 DEF IInv, EndInv, After
  <2> QED
    BY <2>2, <2>3, <2>4, <2>5, <2>6 DEF IInv, Types
<1> QED
  BY <1>1, <1>2

LEMMA LeaveKeeps == ASSUME IInv, Leave PROVE IInv'
<1>0. index \in Cases /\ Cases' = Cases /\ CaseCount' = CaseCount
  BY SameCases DEF IInv, Types, RunTypes, Leave, Unwind
<1>1. RunTypes'
  BY <1>0 DEF IInv, Types, RunTypes, Places, Observing, Leave, Unwind
<1>2. CaseTypes'
  BY <1>0 DEF IInv, Types, CaseTypes, Leave, Unwind
<1>3. SlotTypes'
  BY <1>0, QuietGpu DEF Leave, Unwind
<1>4. QueueTypes'
  BY <1>0, QuietGpu DEF Leave, Unwind
<1>5. EndTypes'
  BY <1>0 DEF IInv, Types, EndTypes, Leave, Unwind
<1>6. FreshInv'
  BY <1>0 DEF IInv, Types, RunTypes, Places, Observing, FreshInv, BeforeNew, Leave,
    Unwind
<1>7. TokenInv'
  BY <1>0, QuietGpu DEF Leave, Unwind
<1>8. SeenInv'
  BY <1>0 DEF IInv, Types, RunTypes, Places, Observing, SeenInv, InCase, Started,
    NewSeen, Leave, Unwind
<1>9. HeldInv'
  BY <1>0 DEF IInv, Types, RunTypes, Places, Observing, HeldInv, HeldSoFar, HoldOver,
    Leave, Unwind
<1>10. RowsInv'
  <2>1. phase = "leave" /\ phase' = "done" /\ UNCHANGED <<index, gpu, rows>>
    BY DEF Leave, Unwind
  <2> QED
    BY <1>0, <2>1 DEF IInv, RowsInv, Good, After
<1>11. EndInv'
  BY <1>0 DEF IInv, Types, RunTypes, Places, Observing, EndInv, After, Leave, Unwind
<1> QED
  BY <1>1, <1>2, <1>3, <1>4, <1>5, <1>6, <1>7, <1>8, <1>9, <1>10, <1>11 DEF IInv, Types

--------------------------------------------------------------------------------
(* Steps that change what the GPU has, or may fail.                         *)

\* Work that was not there before makes nothing untrue of what was.
LEMMA SubmissionKeepsRest ==
  ASSUME IInv, NEW es, \A e \in es : queue[index][e] = "none",
         \A i \in Cases : i # index => queue'[i] = queue[i],
         NEW to \in {"queued", "dropped"},
         \A e \in Entries : queue'[index][e] = IF e \in es THEN to ELSE queue[index][e],
         phase \notin After, phase' \notin After, phase' # "record",
         UNCHANGED <<o, index, polls, locals, slots, channel, ending>>,
         QueueTypes', RunTypes', FreshInv', SeenInv', HeldInv'
  PROVE  IInv'
<1>0. index \in Cases /\ Cases' = Cases /\ CaseCount' = CaseCount
  BY SameCases DEF IInv, Types, RunTypes
<1>1. CaseTypes' /\ EndTypes'
  BY <1>0 DEF IInv, Types, CaseTypes, EndTypes
<1>2. SlotTypes'
  BY <1>0 DEF IInv, Types, SlotTypes
<1>3. TokenInv'
  <2>1. \A i \in Cases, e \in Entries : queue'[i][e] = "done" <=> queue[i][e] = "done"
    BY <1>0
  <2> QED
    BY <1>0, <2>1 DEF IInv, TokenInv
<1>4. RowsInv'
  <2>1. \A i \in Cases : rows[i] # "none" => i < index
    BY DEF IInv, RowsInv
  <2>2. \A i \in Cases : rows[i] \in Valid => queue'[i] = queue[i]
    BY <1>0, <2>1, CaseNumbers DEF IInv, Types, RunTypes
  <2>3. \A i \in Cases : rows[i] \in Valid => Good(i, rows[i])'
    BY <2>2 DEF IInv, RowsInv, Good
  <2> QED
    BY <1>0, <2>1, <2>3 DEF IInv, RowsInv
<1>5. EndInv'
  <2>1. ~stopped /\ outcome = "none"
    BY DEF IInv, EndInv, After
  <2> QED
    BY <2>1 DEF EndInv, After
<1> QED
  BY <1>1, <1>2, <1>3, <1>4, <1>5 DEF IInv, Types

LEMMA LaunchLongSubmits ==
  ASSUME IInv, LaunchLong, Submitted({"long", "a_end"}),
         Go("enqueue", "launch_old"), UNCHANGED locals
  PROVE  IInv'
<1>0. /\ phase = "enqueue" /\ op = "launch_long" /\ phase' = "enqueue" /\ op' = "launch_old"
      /\ UNCHANGED <<o, index, polls, locals, slots, channel, ending>>
  BY DEF LaunchLong
<1>1. \A e \in {"long", "a_end"} : queue[index][e] = "none"
  BY <1>0 DEF IInv, FreshInv, BeforeNew
<1>2. index \in Cases /\ Cases' = Cases /\ CaseCount' = CaseCount
  BY <1>0, SameCases DEF IInv, Types, RunTypes
<1>3. /\ QueueTypes'
      /\ \A i \in Cases : i # index => queue'[i] = queue[i]
      /\ \A e \in Entries :
           queue'[index][e] = IF e \in {"long", "a_end"} THEN "queued" ELSE queue[index][e]
  BY <1>0, <1>2, SubmittedFacts
<1>4. RunTypes'
  BY <1>0, <1>2 DEF IInv, Types, RunTypes, Places
<1>5. FreshInv'
  <2>1. \A i \in Cases : i > index => queue'[i] = queue[i]
    BY <1>2, <1>3, CaseNumbers DEF IInv, Types, RunTypes
  <2>2. \A i \in Cases : i > index => \A e \in Entries : queue'[i][e] = "none"
    BY <2>1 DEF IInv, FreshInv
  <2> QED
    BY <1>0, <1>2, <1>3, <2>2 DEF IInv, FreshInv, BeforeNew
<1>6. SeenInv'
  BY <1>0, <1>1, <1>3 DEF IInv, SeenInv, InCase, Started, NewSeen, Observing
<1>7. HeldInv'
  BY <1>0, <1>3 DEF IInv, HeldInv, HeldSoFar, HoldOver
<1> QED
  BY <1>0, <1>1, <1>2, <1>3, <1>4, <1>5, <1>6, <1>7, SubmissionKeepsRest DEF After

LEMMA LaunchOldSubmits ==
  ASSUME IInv, Enqueue("launch_old", "old", "record_old"), Submitted({"old"})
  PROVE  IInv'
<1>0. /\ phase = "enqueue" /\ op = "launch_old" /\ phase' = "enqueue" /\ op' = "record_old"
      /\ UNCHANGED <<o, index, polls, locals, slots, channel, ending>>
  BY DEF Enqueue
<1>1. \A e \in {"old"} : queue[index][e] = "none"
  BY <1>0 DEF IInv, FreshInv, BeforeNew
<1>2. index \in Cases /\ Cases' = Cases /\ CaseCount' = CaseCount
  BY <1>0, SameCases DEF IInv, Types, RunTypes
<1>3. /\ QueueTypes'
      /\ \A i \in Cases : i # index => queue'[i] = queue[i]
      /\ \A e \in Entries :
           queue'[index][e] = IF e \in {"old"} THEN "queued" ELSE queue[index][e]
  BY <1>0, <1>2, SubmittedFacts
<1>4. RunTypes'
  BY <1>0, <1>2 DEF IInv, Types, RunTypes, Places
<1>5. FreshInv'
  <2>1. \A i \in Cases : i > index => queue'[i] = queue[i]
    BY <1>2, <1>3, CaseNumbers DEF IInv, Types, RunTypes
  <2>2. \A i \in Cases : i > index => \A e \in Entries : queue'[i][e] = "none"
    BY <2>1 DEF IInv, FreshInv
  <2> QED
    BY <1>0, <1>2, <1>3, <2>2 DEF IInv, FreshInv, BeforeNew
<1>6. SeenInv'
  BY <1>0, <1>1, <1>3 DEF IInv, SeenInv, InCase, Started, NewSeen, Observing
<1>7. HeldInv'
  BY <1>0, <1>3 DEF IInv, HeldInv, HeldSoFar, HoldOver
<1> QED
  BY <1>0, <1>1, <1>2, <1>3, <1>4, <1>5, <1>6, <1>7, SubmissionKeepsRest DEF After

LEMMA RecordOldSubmits ==
  ASSUME IInv, Enqueue("record_old", "old_end", "wait_started"), Submitted({"old_end"})
  PROVE  IInv'
<1>0. /\ phase = "enqueue" /\ op = "record_old" /\ phase' = "enqueue" /\ op' = "wait_started"
      /\ UNCHANGED <<o, index, polls, locals, slots, channel, ending>>
  BY DEF Enqueue
<1>1. \A e \in {"old_end"} : queue[index][e] = "none"
  BY <1>0 DEF IInv, FreshInv, BeforeNew
<1>2. index \in Cases /\ Cases' = Cases /\ CaseCount' = CaseCount
  BY <1>0, SameCases DEF IInv, Types, RunTypes
<1>3. /\ QueueTypes'
      /\ \A i \in Cases : i # index => queue'[i] = queue[i]
      /\ \A e \in Entries :
           queue'[index][e] = IF e \in {"old_end"} THEN "queued" ELSE queue[index][e]
  BY <1>0, <1>2, SubmittedFacts
<1>4. RunTypes'
  BY <1>0, <1>2 DEF IInv, Types, RunTypes, Places
<1>5. FreshInv'
  <2>1. \A i \in Cases : i > index => queue'[i] = queue[i]
    BY <1>2, <1>3, CaseNumbers DEF IInv, Types, RunTypes
  <2>2. \A i \in Cases : i > index => \A e \in Entries : queue'[i][e] = "none"
    BY <2>1 DEF IInv, FreshInv
  <2> QED
    BY <1>0, <1>2, <1>3, <2>2 DEF IInv, FreshInv, BeforeNew
<1>6. SeenInv'
  BY <1>0, <1>1, <1>3 DEF IInv, SeenInv, InCase, Started, NewSeen, Observing
<1>7. HeldInv'
  BY <1>0, <1>3 DEF IInv, HeldInv, HeldSoFar, HoldOver
<1> QED
  BY <1>0, <1>1, <1>2, <1>3, <1>4, <1>5, <1>6, <1>7, SubmissionKeepsRest DEF After

LEMMA LaunchNewSubmits ==
  ASSUME IInv, LaunchNew, Submitted({"new"})
  PROVE  IInv'
<1>0. /\ phase = "new_epoch" /\ op = "launch_new" /\ phase' = "new_epoch" /\ op' = "record_new"
      /\ UNCHANGED <<o, index, polls, locals, slots, channel, ending>>
  BY DEF LaunchNew
<1>1. \A e \in {"new"} : queue[index][e] = "none"
  BY <1>0 DEF IInv, FreshInv, BeforeNew
<1>2. index \in Cases /\ Cases' = Cases /\ CaseCount' = CaseCount
  BY <1>0, SameCases DEF IInv, Types, RunTypes
<1>3. /\ QueueTypes'
      /\ \A i \in Cases : i # index => queue'[i] = queue[i]
      /\ \A e \in Entries :
           queue'[index][e] = IF e \in {"new"} THEN "queued" ELSE queue[index][e]
  BY <1>0, <1>2, SubmittedFacts
<1>4. RunTypes'
  BY <1>0, <1>2 DEF IInv, Types, RunTypes, Places
<1>5. FreshInv'
  <2>1. \A i \in Cases : i > index => queue'[i] = queue[i]
    BY <1>2, <1>3, CaseNumbers DEF IInv, Types, RunTypes
  <2>2. \A i \in Cases : i > index => \A e \in Entries : queue'[i][e] = "none"
    BY <2>1 DEF IInv, FreshInv
  <2> QED
    BY <1>0, <1>2, <1>3, <2>2 DEF IInv, FreshInv, BeforeNew
<1>6. SeenInv'
  BY <1>0, <1>1, <1>3 DEF IInv, SeenInv, InCase, Started, NewSeen, Observing
<1>7. HeldInv'
  BY <1>0, <1>3 DEF IInv, HeldInv, HeldSoFar, HoldOver
<1> QED
  BY <1>0, <1>1, <1>2, <1>3, <1>4, <1>5, <1>6, <1>7, SubmissionKeepsRest DEF After

LEMMA RecordNewSubmits ==
  ASSUME IInv, RecordNew, Submitted({"new_end"})
  PROVE  IInv'
<1>0. /\ phase = "new_epoch" /\ op = "record_new" /\ phase' = "new_epoch" /\ op' = "query_new"
      /\ UNCHANGED <<o, index, polls, locals, slots, channel, ending>>
  BY DEF RecordNew
<1>1. \A e \in {"new_end"} : queue[index][e] = "none"
  BY <1>0 DEF IInv, FreshInv, BeforeNew
<1>2. index \in Cases /\ Cases' = Cases /\ CaseCount' = CaseCount
  BY <1>0, SameCases DEF IInv, Types, RunTypes
<1>3. /\ QueueTypes'
      /\ \A i \in Cases : i # index => queue'[i] = queue[i]
      /\ \A e \in Entries :
           queue'[index][e] = IF e \in {"new_end"} THEN "queued" ELSE queue[index][e]
  BY <1>0, <1>2, SubmittedFacts
<1>4. RunTypes'
  BY <1>0, <1>2 DEF IInv, Types, RunTypes, Places
<1>5. FreshInv'
  <2>1. \A i \in Cases : i > index => queue'[i] = queue[i]
    BY <1>2, <1>3, CaseNumbers DEF IInv, Types, RunTypes
  <2>2. \A i \in Cases : i > index => \A e \in Entries : queue'[i][e] = "none"
    BY <2>1 DEF IInv, FreshInv
  <2> QED
    BY <1>0, <1>2, <1>3, <2>2 DEF IInv, FreshInv, BeforeNew
<1>6. SeenInv'
  BY <1>0, <1>1, <1>3 DEF IInv, SeenInv, InCase, Started, NewSeen, Observing
<1>7. HeldInv'
  BY <1>0, <1>3 DEF IInv, HeldInv, HeldSoFar, HoldOver
<1> QED
  BY <1>0, <1>1, <1>2, <1>3, <1>4, <1>5, <1>6, <1>7, SubmissionKeepsRest DEF After

LEMMA PreconditionHoldsKeeps ==
  ASSUME IInv, Precondition, Go("control", "disable"), UNCHANGED locals
  PROVE  IInv'
<1>0. index \in Cases /\ Cases' = Cases /\ CaseCount' = CaseCount
  BY SameCases DEF IInv, Types, RunTypes, Precondition
<1>1. RunTypes'
  BY <1>0 DEF IInv, Types, RunTypes, Places, Observing, Precondition
<1>2. CaseTypes'
  BY <1>0 DEF IInv, Types, CaseTypes, Precondition
<1>3. SlotTypes'
  BY <1>0, QuietGpu DEF Precondition
<1>4. QueueTypes'
  BY <1>0, QuietGpu DEF Precondition
<1>5. EndTypes'
  BY <1>0 DEF IInv, Types, EndTypes, Precondition
<1>6. FreshInv'
  BY <1>0 DEF IInv, Types, RunTypes, Places, Observing, FreshInv, BeforeNew,
    Precondition
<1>7. TokenInv'
  BY <1>0, QuietGpu DEF Precondition
<1>8. SeenInv'
  BY <1>0 DEF IInv, Types, RunTypes, Places, Observing, SeenInv, InCase, Started,
    NewSeen, Precondition
<1>9. HeldInv'
  BY <1>0 DEF IInv, Types, RunTypes, Places, Observing, HeldInv, HeldSoFar, HoldOver,
    Precondition
<1>10. RowsInv'
  BY <1>0 DEF IInv, Types, RunTypes, Places, Observing, RowsInv, Good, After,
    Precondition
<1>11. EndInv'
  BY <1>0 DEF IInv, Types, RunTypes, Places, Observing, EndInv, After, Precondition
<1> QED
  BY <1>1, <1>2, <1>3, <1>4, <1>5, <1>6, <1>7, <1>8, <1>9, <1>10, <1>11 DEF IInv, Types

LEMMA QueryNewAnswersKeeps ==
  ASSUME IInv, QueryNew, rc' = [rc EXCEPT !.new = Answer("new_end")],
         \/ rc'.new = "SUCCESS" /\ Go("new_epoch", "verify_new") /\ UNCHANGED polls
         \/ rc'.new # "SUCCESS" /\ polls > 0 /\ polls' = polls - 1 /\ UNCHANGED <<phase, op>>,
         UNCHANGED <<hold_pending, classification, reason>>
  PROVE  IInv'
<1>0. index \in Cases /\ Cases' = Cases /\ CaseCount' = CaseCount
  BY SameCases DEF IInv, Types, RunTypes, QueryNew
<1>1. RunTypes'
  BY <1>0, PollsAssumption DEF IInv, Types, RunTypes, Places, QueryNew
<1>2. CaseTypes'
  BY <1>0 DEF IInv, Types, CaseTypes, Answer
<1>3. SlotTypes'
  BY <1>0, QuietGpu DEF QueryNew
<1>4. QueueTypes'
  BY <1>0, QuietGpu DEF QueryNew
<1>5. EndTypes'
  BY <1>0 DEF IInv, Types, EndTypes, QueryNew
<1>6. FreshInv'
  BY <1>0 DEF IInv, FreshInv, BeforeNew, QueryNew
<1>7. TokenInv'
  BY <1>0, QuietGpu DEF QueryNew
<1>8. SeenInv'
  <2>1. rc'.a = rc.a /\ rc'.old = rc.old /\ rc'.new = Answer("new_end")
    BY DEF IInv, Types, CaseTypes
  <2>2. /\ phase = "new_epoch" /\ op = "query_new" /\ phase' = "new_epoch"
        /\ op' = "verify_new" \/ op' = "query_new"
        /\ op' = "verify_new" => Answer("new_end") = "SUCCESS"
        /\ UNCHANGED <<o, index, gpu>>
    BY <2>1 DEF QueryNew
  <2> QED
    BY <2>1, <2>2 DEF IInv, SeenInv, InCase, Started, NewSeen, Observing, Answer
<1>9. HeldInv'
  BY <1>0 DEF IInv, HeldInv, HeldSoFar, HoldOver, QueryNew
<1>10. RowsInv'
  <2>1. phase = "new_epoch" /\ phase' = "new_epoch" /\ UNCHANGED <<index, gpu, ending>>
    BY DEF QueryNew
  <2> QED
    BY <1>0, <2>1 DEF IInv, RowsInv, Good, After
<1>11. EndInv'
  BY <1>0 DEF IInv, EndInv, After, QueryNew
<1> QED
  BY <1>1, <1>2, <1>3, <1>4, <1>5, <1>6, <1>7, <1>8, <1>9, <1>10, <1>11 DEF IInv, Types

LEMMA VerifyNewSucceedsKeeps ==
  ASSUME IInv, VerifyNew, Go("after_new_complete", "query_A"), UNCHANGED locals, new_ok
  PROVE  IInv'
<1>0. index \in Cases /\ Cases' = Cases /\ CaseCount' = CaseCount
  BY SameCases DEF IInv, Types, RunTypes, VerifyNew
<1>1. RunTypes'
  BY <1>0, PollsAssumption DEF IInv, Types, RunTypes, Places, Observing, VerifyNew
<1>2. CaseTypes'
  BY <1>0 DEF IInv, Types, CaseTypes, VerifyNew
<1>3. SlotTypes'
  BY <1>0, QuietGpu DEF VerifyNew
<1>4. QueueTypes'
  BY <1>0, QuietGpu DEF VerifyNew
<1>5. EndTypes'
  BY <1>0 DEF IInv, Types, EndTypes, VerifyNew
<1>6. FreshInv'
  BY <1>0 DEF IInv, Types, RunTypes, Places, Observing, FreshInv, BeforeNew, VerifyNew
<1>7. TokenInv'
  BY <1>0, QuietGpu DEF VerifyNew
<1>8. SeenInv'
  <2>1. slots[index].new # 0 => queue[index].new = "done"
    BY <1>0 DEF IInv, TokenInv
  <2>2. slots[index].new # 0
    BY <1>0, CaseNumbers DEF new_ok, slot, IInv, Types, RunTypes
  <2> QED
    BY <1>0, <2>1, <2>2 DEF IInv, SeenInv, InCase, Started, NewSeen, Observing, VerifyNew
<1>9. HeldInv'
  BY <1>0 DEF IInv, Types, RunTypes, Places, Observing, HeldInv, HeldSoFar, HoldOver,
    VerifyNew
<1>10. RowsInv'
  BY <1>0 DEF IInv, Types, RunTypes, Places, Observing, RowsInv, Good, After, VerifyNew
<1>11. EndInv'
  BY <1>0 DEF IInv, Types, RunTypes, Places, Observing, EndInv, After, VerifyNew
<1> QED
  BY <1>1, <1>2, <1>3, <1>4, <1>5, <1>6, <1>7, <1>8, <1>9, <1>10, <1>11 DEF IInv, Types

\* The kernel has been launched, but its end could not be recorded.
LEMMA LaunchLongFailsLate ==
  ASSUME IInv, LaunchLong, Submitted({"long"}), Fail("ambiguous", "cuda_error")
  PROVE  IInv'
<1>0. /\ phase = "enqueue" /\ op = "launch_long" /\ phase' = "record" /\ op' = "write"
      /\ classification' = "ambiguous" /\ reason' = "cuda_error" /\ UNCHANGED <<rc, hold_pending>>
      /\ UNCHANGED <<o, index, polls, slots, channel, ending>>
  BY DEF LaunchLong, Fail
<1>1. queue[index].long = "none"
  BY <1>0 DEF IInv, FreshInv
<1>2. index \in Cases /\ Cases' = Cases /\ CaseCount' = CaseCount
  BY <1>0, SameCases DEF IInv, Types, RunTypes
<1>3. /\ QueueTypes'
      /\ \A i \in Cases : i # index => queue'[i] = queue[i]
      /\ \A e \in Entries :
           queue'[index][e] = IF e \in {"long"} THEN "queued" ELSE queue[index][e]
  BY <1>0, <1>2, SubmittedFacts
<1>4. RunTypes' /\ CaseTypes' /\ SlotTypes' /\ EndTypes'
  BY <1>0, <1>2
     DEF IInv, Types, RunTypes, Places, Observing, CaseTypes, Reasons, SlotTypes, EndTypes
<1>5. FreshInv'
  <2>1. \A i \in Cases : i > index => queue'[i] = queue[i]
    BY <1>2, <1>3, CaseNumbers DEF IInv, Types, RunTypes
  <2>2. \A i \in Cases : i > index => \A e \in Entries : queue'[i][e] = "none"
    BY <2>1 DEF IInv, FreshInv
  <2> QED
    BY <1>0, <1>2, <2>2 DEF FreshInv, BeforeNew
<1>6. TokenInv'
  <2>1. \A i \in Cases, e \in Entries : queue'[i][e] = "done" <=> queue[i][e] = "done"
    BY <1>1, <1>2, <1>3
  <2> QED
    BY <1>0, <1>2, <2>1 DEF IInv, TokenInv
<1>7. SeenInv' /\ HeldInv'
  BY <1>0 DEF SeenInv, InCase, Started, NewSeen, Observing, HeldInv, HoldOver
<1>8. RowsInv'
  <2>1. \A i \in Cases : rows[i] # "none" => i < index
    BY <1>0 DEF IInv, RowsInv, After
  <2>2. \A i \in Cases : rows[i] \in Valid => queue'[i] = queue[i]
    BY <1>2, <1>3, <2>1, CaseNumbers DEF IInv, Types, RunTypes
  <2>3. \A i \in Cases : rows[i] \in Valid => Good(i, rows[i])'
    BY <1>0, <2>2 DEF IInv, RowsInv, Good
  <2> QED
    BY <1>0, <1>2, <2>1, <2>3 DEF IInv, RowsInv, After
<1>9. EndInv'
  <2>1. ~stopped /\ outcome = "none"
    BY <1>0 DEF IInv, EndInv, After
  <2> QED
    BY <1>0, <2>1 DEF EndInv, After
<1> QED
  BY <1>3, <1>4, <1>5, <1>6, <1>7, <1>8, <1>9 DEF IInv, Types

LEMMA LaunchLongKeeps == ASSUME IInv, LaunchLong PROVE IInv'
<1>1. CASE Submitted({"long", "a_end"}) /\ Go("enqueue", "launch_old") /\ UNCHANGED locals
  BY <1>1, LaunchLongSubmits
<1>2. CASE Fail("ambiguous", "cuda_error") /\ UNCHANGED queue
  <2>1. phase \notin After /\ polls' \in 0..MaxPolls /\ UNCHANGED <<o, index, gpu, ending>>
    BY <1>2 DEF LaunchLong, After, IInv, Types, RunTypes
  <2> QED
    BY <1>2, <2>1, FailKeeps DEF Reasons
<1>3. CASE Fail("ambiguous", "cuda_error") /\ Submitted({"long"})
  BY <1>3, LaunchLongFailsLate
<1> QED
  BY <1>1, <1>2, <1>3 DEF LaunchLong

LEMMA EnqueueOldKeeps == ASSUME IInv, EnqueueOld PROVE IInv'
<1>1. CASE Enqueue("launch_old", "old", "record_old")
  BY <1>1, LaunchOldSubmits DEF Enqueue
<1>2. CASE Enqueue("record_old", "old_end", "wait_started")
  BY <1>2, RecordOldSubmits DEF Enqueue
<1> QED
  BY <1>1, <1>2 DEF EnqueueOld

LEMMA PreconditionKeeps == ASSUME IInv, Precondition PROVE IInv'
<1>1. CASE Go("control", "disable") /\ UNCHANGED locals
  BY <1>1, PreconditionHoldsKeeps
<1>2. CASE Fail("ambiguous", "precondition")
  <2>1. phase \notin After /\ polls' \in 0..MaxPolls /\ UNCHANGED <<o, index, gpu, ending>>
    BY DEF Precondition, After, IInv, Types, RunTypes
  <2> QED
    BY <1>2, <2>1, FailKeeps DEF Reasons
<1> QED
  BY <1>1, <1>2 DEF Precondition

LEMMA LaunchNewIsLost ==
  ASSUME IInv, LaunchNew, queue' = [queue EXCEPT ![index].new = "dropped"]
  PROVE  IInv'
<1>0. /\ phase = "new_epoch" /\ op = "launch_new" /\ phase' = "new_epoch" /\ op' = "record_new"
      /\ UNCHANGED <<o, index, polls, locals, slots, channel, ending>>
  BY DEF LaunchNew
<1>1. \A e \in {"new"} : queue[index][e] = "none"
  BY <1>0 DEF IInv, FreshInv, BeforeNew
<1>2. index \in Cases /\ Cases' = Cases /\ CaseCount' = CaseCount
  BY <1>0, SameCases DEF IInv, Types, RunTypes
<1>3. /\ QueueTypes'
      /\ \A i \in Cases : i # index => queue'[i] = queue[i]
      /\ \A e \in Entries :
           queue'[index][e] = IF e \in {"new"} THEN "dropped" ELSE queue[index][e]
  <2>1. queue' \in [Cases -> [Entries -> EntryStates]]
    BY <1>2 DEF IInv, Types, QueueTypes, EntryStates
  <2>2. \A i \in Cases : i # index => queue'[i] = queue[i]
    BY <1>2 DEF IInv, Types, QueueTypes
  <2>3. \A e \in Entries : queue'[index][e] = IF e \in {"new"} THEN "dropped" ELSE queue[index][e]
    BY <1>2 DEF IInv, Types, QueueTypes
  <2> QED
    BY <1>0, <1>2, <2>1, <2>2, <2>3 DEF IInv, Types, QueueTypes
<1>4. RunTypes'
  BY <1>0, <1>2 DEF IInv, Types, RunTypes, Places
<1>5. FreshInv'
  <2>1. \A i \in Cases : i > index => queue'[i] = queue[i]
    BY <1>2, <1>3, CaseNumbers DEF IInv, Types, RunTypes
  <2>2. \A i \in Cases : i > index => \A e \in Entries : queue'[i][e] = "none"
    BY <2>1 DEF IInv, FreshInv
  <2> QED
    BY <1>0, <1>2, <1>3, <2>2 DEF IInv, FreshInv, BeforeNew
<1>6. SeenInv'
  BY <1>0, <1>1, <1>3 DEF IInv, SeenInv, InCase, Started, NewSeen, Observing
<1>7. HeldInv'
  BY <1>0, <1>3 DEF IInv, HeldInv, HeldSoFar, HoldOver
<1> QED
  BY <1>0, <1>1, <1>2, <1>3, <1>4, <1>5, <1>6, <1>7, SubmissionKeepsRest DEF After

LEMMA LaunchNewKeeps == ASSUME IInv, LaunchNew PROVE IInv'
<1>1. CASE Submitted({"new"})
  BY <1>1, LaunchNewSubmits
<1>2. CASE queue' = [queue EXCEPT ![index].new = "dropped"]
  BY <1>2, LaunchNewIsLost
<1> QED
  BY <1>1, <1>2 DEF LaunchNew

LEMMA RecordNewKeeps == ASSUME IInv, RecordNew PROVE IInv'
BY RecordNewSubmits DEF RecordNew

LEMMA QueryNewKeeps == ASSUME IInv, QueryNew PROVE IInv'
<1>1. CASE Fail("ambiguous", "deadline") /\ UNCHANGED polls
  <2>1. phase \notin After /\ polls' \in 0..MaxPolls /\ UNCHANGED <<o, index, gpu, ending>>
    BY <1>1 DEF QueryNew, After, IInv, Types, RunTypes
  <2> QED
    BY <1>1, <2>1, FailKeeps DEF Reasons
<1>2. CASE ~(Fail("ambiguous", "deadline") /\ UNCHANGED polls)
  BY <1>2, QueryNewAnswersKeeps DEF QueryNew
<1> QED
  BY <1>1, <1>2

LEMMA VerifyNewKeeps == ASSUME IInv, VerifyNew PROVE IInv'
<1>1. CASE new_ok
  BY <1>1, VerifyNewSucceedsKeeps DEF VerifyNew
<1>2. CASE ~new_ok
  <2>1. /\ phase \notin After /\ polls' \in 0..MaxPolls /\ UNCHANGED <<o, index, gpu, ending>>
        /\ Fail("context_or_submission_poisoned", "new_output")
    BY <1>2, PollsAssumption DEF VerifyNew, After
  <2> QED
    BY <2>1, FailKeeps DEF Reasons
<1> QED
  BY <1>1, <1>2

LEMMA AnyFailureKeeps == ASSUME IInv, ApiFails \/ CaseFails PROVE IInv'
<1>1. op \in CaseOps
  BY DEF ApiFails, CaseFails, CaseOps
<1>2. phase \notin After
  BY <1>1 DEF CaseOps, ApiOps, After, Observing, IInv, Types, RunTypes, Places
<1>3. polls' \in 0..MaxPolls /\ UNCHANGED <<o, index, gpu, ending>>
  BY DEF ApiFails, CaseFails, IInv, Types, RunTypes
<1>4. \/ Fail("context_or_submission_poisoned", "cuda_error")
      \/ Fail("ambiguous", "other")
  BY DEF ApiFails, CaseFails
<1> QED
  BY <1>2, <1>3, <1>4, FailKeeps DEF Reasons

\* A control may take effect or not, whatever its answer.
LEMMA DisableKeeps == ASSUME IInv, Disable PROVE IInv'
<1>0. /\ phase = "control" /\ op = "disable" /\ channel' \in {"enabled", "disabled"}
      /\ \/ phase' = "hold" /\ op' = "query_A" /\ UNCHANGED locals
         \/ /\ phase' = "record" /\ op' = "write" /\ classification' = "ambiguous"
            /\ reason' = "control" /\ UNCHANGED <<rc, hold_pending>>
      /\ polls' = MaxPolls /\ UNCHANGED <<o, index, slots, ending>>
  BY DEF Disable, Fail, IInv, Types, QueueTypes
<1>1. index \in Cases /\ Cases' = Cases /\ CaseCount' = CaseCount
  BY <1>0, SameCases DEF IInv, Types, RunTypes
<1>2. PICK drop \in SUBSET {e \in OldStream : queue[index][e] = "queued"} : queue' = Rewound(drop)
  BY DEF Disable
<1>3. /\ QueueTypes'
      /\ \A i \in Cases : i # index => queue'[i] = queue[i]
      /\ \A e \in Entries : queue'[index][e] = IF e \in drop THEN "dropped" ELSE queue[index][e]
  <2>1. queue' \in [Cases -> [Entries -> EntryStates]]
    BY <1>1, <1>2 DEF IInv, Types, QueueTypes, EntryStates, Rewound
  <2>2. \A i \in Cases : i # index => queue'[i] = queue[i]
    BY <1>1, <1>2 DEF IInv, Types, QueueTypes, Rewound
  <2>3. \A e \in Entries : queue'[index][e] = IF e \in drop THEN "dropped" ELSE queue[index][e]
    BY <1>1, <1>2 DEF IInv, Types, QueueTypes, Rewound
  <2> QED
    BY <1>0, <1>1, <2>1, <2>2, <2>3 DEF QueueTypes
<1>4. \A e \in drop : e \in OldStream /\ queue[index][e] = "queued"
  BY <1>2
<1>5. RunTypes' /\ CaseTypes' /\ EndTypes'
  <2>1. RunTypes'
    BY <1>0, <1>1, PollsAssumption DEF IInv, Types, RunTypes, Places, Observing
  <2>2. CaseTypes'
    BY <1>0 DEF IInv, Types, CaseTypes, Reasons
  <2>3. EndTypes'
    BY <1>0, <1>1 DEF IInv, Types, EndTypes
  <2> QED
    BY <2>1, <2>2, <2>3
<1>6. SlotTypes'
  BY <1>0, <1>1 DEF IInv, Types, SlotTypes
<1>7. FreshInv'
  <2>1. \A i \in Cases : i > index => queue'[i] = queue[i]
    BY <1>1, <1>3, CaseNumbers DEF IInv, Types, RunTypes
  <2>2. \A i \in Cases : i > index => \A e \in Entries : queue'[i][e] = "none"
    BY <2>1 DEF IInv, FreshInv
  <2>3. queue'[index].new = "none" /\ queue'[index].new_end = "none"
    BY <1>0, <1>3, <1>4 DEF IInv, FreshInv, BeforeNew
  <2> QED
    BY <1>0, <1>1, <2>2, <2>3 DEF FreshInv
<1>8. TokenInv'
  <2>1. \A i \in Cases, e \in Entries : queue'[i][e] = "done" <=> queue[i][e] = "done"
    BY <1>1, <1>3, <1>4
  <2> QED
    BY <1>0, <1>1, <2>1 DEF IInv, TokenInv
<1>9. SeenInv'
  BY <1>0, <1>3, <1>4 DEF IInv, SeenInv, InCase, Started, NewSeen, Observing
<1>10. HeldInv'
  BY <1>0 DEF HeldInv, HoldOver
<1>11. RowsInv'
  <2>1. \A i \in Cases : rows[i] # "none" => i < index
    BY <1>0 DEF IInv, RowsInv, After
  <2>2. \A i \in Cases : rows[i] \in Valid => queue'[i] = queue[i]
    BY <1>1, <1>3, <2>1, CaseNumbers DEF IInv, Types, RunTypes
  <2>3. \A i \in Cases : rows[i] \in Valid => Good(i, rows[i])'
    BY <1>0, <2>2 DEF IInv, RowsInv, Good
  <2>4. \A i \in Cases : rows[i] \notin Invalid /\ (i < index => rows[i] \in Valid)
    BY <1>0 DEF IInv, RowsInv, After
  <2> QED
    BY <1>0, <1>1, <2>1, <2>3, <2>4 DEF RowsInv
<1>12. EndInv'
  <2>1. ~stopped /\ outcome = "none"
    BY <1>0 DEF IInv, EndInv, After
  <2> QED
    BY <1>0, <2>1 DEF EndInv, After
<1> QED
  BY <1>3, <1>5, <1>6, <1>7, <1>8, <1>9, <1>10, <1>11, <1>12 DEF IInv, Types

LEMMA EnableKeeps == ASSUME IInv, Enable PROVE IInv'
<1>0. /\ phase = "control" /\ op = "enable" /\ channel' \in {"enabled", "disabled"}
      /\ \/ phase' = "after_enable" /\ op' = "query_A" /\ UNCHANGED locals
         \/ /\ phase' = "record" /\ op' = "write" /\ classification' = "ambiguous"
            /\ reason' = "control" /\ UNCHANGED <<rc, hold_pending>>
      /\ UNCHANGED <<o, index, polls, slots, queue, ending>>
  BY DEF Enable, Fail, IInv, Types, QueueTypes
<1>1. index \in Cases /\ Cases' = Cases /\ CaseCount' = CaseCount
  BY <1>0, SameCases DEF IInv, Types, RunTypes
<1>2. RunTypes'
  BY <1>0, <1>1 DEF IInv, Types, RunTypes, Places, Observing
<1>3. CaseTypes'
  BY <1>0 DEF IInv, Types, CaseTypes, Reasons
<1>4. SlotTypes' /\ QueueTypes' /\ EndTypes'
  BY <1>0, <1>1 DEF IInv, Types, SlotTypes, QueueTypes, EndTypes
<1>5. FreshInv' /\ TokenInv'
  BY <1>0, <1>1 DEF IInv, FreshInv, BeforeNew, TokenInv
<1>6. SeenInv'
  BY <1>0 DEF IInv, SeenInv, InCase, Started, NewSeen, Observing
<1>7. HeldInv'
  BY <1>0 DEF IInv, HeldInv, HeldSoFar, HoldOver
<1>8. RowsInv'
  BY <1>0, <1>1 DEF IInv, RowsInv, Good, After
<1>9. EndInv'
  BY <1>0, <1>1 DEF IInv, EndInv, After
<1> QED
  BY <1>2, <1>3, <1>4, <1>5, <1>6, <1>7, <1>8, <1>9 DEF IInv, Types

--------------------------------------------------------------------------------
(* The GPU's steps.                                                         *)

LEMMA QuietHost ==
  ASSUME IInv, UNCHANGED <<o, index, phase, op, polls, locals, ending>>
  PROVE  RunTypes' /\ CaseTypes' /\ EndTypes'
<1>0. Cases' = Cases
  BY SameCases
<1>1. RunTypes'
  BY <1>0 DEF IInv, Types, RunTypes, Places
<1>2. CaseTypes'
  BY DEF IInv, Types, CaseTypes
<1>3. EndTypes'
  BY <1>0 DEF IInv, Types, EndTypes
<1> QED
  BY <1>1, <1>2, <1>3

LEMMA GpuRunsKeeps ==
  ASSUME IInv, NEW i \in Cases, NEW e \in Entries, GpuRuns(i, e)
  PROVE  IInv'
<1>0. UNCHANGED <<o, index, phase, op, polls, locals, channel, ending>>
  BY DEF GpuRuns
<1>1. /\ index \in Cases /\ Cases' = Cases /\ CaseCount' = CaseCount
      /\ queue[i][e] \in {"queued", "running"} /\ queue'[i][e] \in {"running", "done"}
      /\ queue'[i][e] = "running" => e = "long"
      /\ \A j \in Cases, f \in Entries : j # i \/ f # e => queue'[j][f] = queue[j][f]
  BY RunFacts DEF IInv, Types, RunTypes
<1>2. /\ \A j \in Cases, f \in Entries : queue[j][f] = "done" => queue'[j][f] = "done"
      /\ \A j \in Cases, f \in Entries : queue[j][f] = "none" => queue'[j][f] = "none"
      /\ \A j \in Cases, f \in Entries :
           queue[j][f] # "done" /\ queue'[j][f] = "done" => j = i /\ f = e
  BY <1>1
<1>3. RunTypes' /\ CaseTypes' /\ EndTypes'
  BY <1>0, QuietHost
<1>4. SlotTypes' /\ QueueTypes'
  BY RunFacts, PublishFacts
<1>5. FreshInv'
  BY <1>0, <1>1, <1>2 DEF IInv, FreshInv, BeforeNew
<1>6. TokenInv'
  <2> SUFFICES ASSUME NEW j \in Cases
               PROVE  /\ slots'[j].old \in {0, Token(j)} /\ slots'[j].new \in {0, Token(j)}
                      /\ slots'[j].old # 0 <=> queue'[j].old = "done"
                      /\ slots'[j].new # 0 <=> queue'[j].new = "done"
    BY <1>1 DEF TokenInv
  <2>1. i + 1 # 0
    BY CaseNumbers DEF IInv, Types, RunTypes
  <2>2. CASE j # i
    BY <1>1, <2>2, PublishFacts DEF IInv, TokenInv
  <2>3. CASE j = i
    BY <1>1, <2>1, <2>3, PublishFacts DEF IInv, TokenInv
  <2> QED
    BY <2>2, <2>3
<1>7. SeenInv'
  <2>1. queue'[index].long \in {"queued", "running", "done"}
        \/ queue'[index].long = queue[index].long
    BY <1>1
  <2>2. queue[index].long \in {"running", "done"} => queue'[index].long \in {"running", "done"}
    BY <1>1
  <2>3. queue'[index].a_end = "done" /\ queue[index].a_end # "done" /\ InCase =>
          queue'[index].long = "done"
    <3> SUFFICES ASSUME queue'[index].a_end = "done", queue[index].a_end # "done", InCase
                 PROVE  queue'[index].long = "done"
      OBVIOUS
    <3>1. i = index /\ e = "a_end"
      BY <1>1, <1>2
    <3>2. queue[index].long \notin {"queued", "running"}
      BY <3>1, RunFacts
    <3> QED
      BY <1>1, <1>2, <3>2 DEF IInv, SeenInv
  <2>4. queue'[index].new_end = "done" => channel' = "enabled" \/ queue[index].new_end = "done"
    BY <1>1, <1>2, RunFacts
  <2> QED
    BY <1>0, <1>1, <1>2, <2>1, <2>2, <2>3, <2>4
    DEF IInv, SeenInv, InCase, Started, NewSeen
<1>8. HeldInv'
  <2>1. CASE i = index /\ e = "old"
    <3>1. HoldOver => Stage(i) >= 1
      BY <2>1 DEF HoldOver, Stage
    <3> QED
      BY <1>0, <2>1, <3>1, PublishFacts DEF HeldInv, HeldSoFar, HoldOver
  <2>2. CASE ~(i = index /\ e = "old")
    <3>1. queue'[index].old = queue[index].old /\ slots'[index].gpu_ns = slots[index].gpu_ns
      BY <1>1, <2>2, PublishFacts
    <3> QED
      BY <1>0, <3>1 DEF IInv, HeldInv, HeldSoFar, HoldOver
  <2> QED
    BY <2>1, <2>2
<1>9. RowsInv'
  <2>1. ASSUME NEW j \in Cases, NEW c \in Valid, Good(j, c),
               j # index \/ phase \in After \union {"record"}
        PROVE  Good(j, c)'
    <3>1. Stage(j) = 3
      BY <2>1 DEF Stage, After
    <3>2. slots'[j].gpu_ns = slots[j].gpu_ns \/ (j = i /\ slots'[j].gpu_ns = 3)
      BY <3>1, PublishFacts
    <3>3. queue'[j].old = "done" /\ queue[j].old # "done" => slots'[j].gpu_ns = 3
      BY <1>2, <3>1, PublishFacts
    <3> QED
      BY <1>2, <2>1, <3>2, <3>3 DEF Good
  <2>2. \A j \in Cases : rows[j] \in Valid => j # index \/ phase \in After
    <3>1. ~(index < index)
      BY <1>1, CaseNumbers DEF IInv, Types, RunTypes
    <3> QED
      BY <3>1 DEF IInv, RowsInv
  <2>3. \A j \in Cases : rows[j] \in Valid => Good(j, rows[j])'
    BY <1>0, <2>1, <2>2 DEF IInv, RowsInv, Good
  <2>4. phase = "record" /\ classification \in Valid => Good(index, classification)'
    BY <1>0, <1>1, <2>1 DEF IInv, RowsInv, Good
  <2> QED
    BY <1>0, <1>1, <2>3, <2>4 DEF IInv, RowsInv, After, Good
<1>10. EndInv'
  BY <1>0, <1>1 DEF IInv, EndInv, After
<1> QED
  BY <1>3, <1>4, <1>5, <1>6, <1>7, <1>8, <1>9, <1>10 DEF IInv, Types

LEMMA RepublishKeeps == ASSUME IInv, NEW i \in Cases, Republish(i) PROVE IInv'
<1>0. UNCHANGED <<o, index, phase, op, polls, locals, slots, channel, ending>>
  BY DEF Republish
<1>1. index \in Cases /\ Cases' = Cases /\ CaseCount' = CaseCount
  BY <1>0, SameCases DEF IInv, Types, RunTypes
<1>2. /\ queue' \in [Cases -> [Entries -> EntryStates]]
      /\ \A j \in Cases : j # i => queue'[j] = queue[j]
      /\ \A e \in Entries :
           queue'[i][e] = IF queue[i][e] = "dropped" THEN "queued" ELSE queue[i][e]
  BY DEF IInv, Types, QueueTypes, EntryStates, Republish
<1>3. \A j \in Cases, e \in Entries :
        queue'[j][e] = queue[j][e] \/ (queue[j][e] = "dropped" /\ queue'[j][e] = "queued")
  BY <1>2
<1>4. RunTypes' /\ CaseTypes' /\ EndTypes'
  BY <1>0, QuietHost
<1>5. SlotTypes' /\ QueueTypes'
  BY <1>0, <1>1, <1>2 DEF IInv, Types, SlotTypes, QueueTypes
<1>6. FreshInv'
  BY <1>0, <1>1, <1>3 DEF IInv, FreshInv, BeforeNew
<1>7. TokenInv'
  BY <1>0, <1>1, <1>3 DEF IInv, TokenInv
<1>8. SeenInv'
  BY <1>0, <1>1, <1>3 DEF IInv, SeenInv, InCase, Started, NewSeen
<1>9. HeldInv'
  BY <1>0, <1>1, <1>3 DEF IInv, HeldInv, HeldSoFar, HoldOver
<1>10. RowsInv'
  <2>1. \A j \in Cases, c \in Valid : Good(j, c) => Good(j, c)'
    BY <1>0, <1>3 DEF Good
  <2> QED
    BY <1>0, <1>1, <2>1 DEF IInv, RowsInv, After
<1>11. EndInv'
  BY <1>0, <1>1 DEF IInv, EndInv, After
<1> QED
  BY <1>4, <1>5, <1>6, <1>7, <1>8, <1>9, <1>10, <1>11 DEF IInv, Types

--------------------------------------------------------------------------------
(* The theorems.                                                            *)

LEMMA NextKeeps == ASSUME IInv, [Next]_vars PROVE IInv'
<1>1. CASE HostStep
  BY <1>1, CalibrateKeeps, ReferenceKeeps, LaunchLongKeeps, EnqueueOldKeeps, WaitStartedKeeps,
     QueryAKeeps, QueryOldKeeps, PreconditionKeeps, DisableKeeps, HoldCheckKeeps,
     HoldEndCheckKeeps, EnableKeeps, ObserveAfterEnableKeeps, CreateStreamKeeps, LaunchNewKeeps,
     RecordNewKeeps, QueryNewKeeps, VerifyNewKeeps, ObserveAfterNewKeeps, ClassifyKeeps,
     RecordKeeps, NextCaseKeeps, AnyFailureKeeps, FinishKeeps, CatchKeeps, LeaveKeeps
  DEF HostStep
<1>2. CASE GpuStep
  BY <1>2, GpuRunsKeeps, RepublishKeeps DEF GpuStep
<1>3. CASE UNCHANGED vars
  <2>1. UNCHANGED <<o, index, phase, op, polls, locals, gpu, ending>>
    BY <1>3 DEF vars
  <2>2. Cases' = Cases /\ CaseCount' = CaseCount
    BY <2>1, SameCases
  <2>3. RunTypes' /\ CaseTypes' /\ EndTypes'
    BY <2>1, QuietHost
  <2>4. SlotTypes' /\ QueueTypes' /\ TokenInv'
    BY <2>1, QuietGpu
  <2>5. FreshInv' /\ SeenInv' /\ HeldInv'
    BY <2>1, <2>2 DEF IInv, FreshInv, BeforeNew, SeenInv, InCase, Started, NewSeen, HeldInv,
                      HeldSoFar, HoldOver
  <2>6. RowsInv'
    BY <2>1, <2>2 DEF IInv, RowsInv, Good, After
  <2>7. EndInv'
    BY <2>1, <2>2 DEF IInv, EndInv, After
  <2> QED
    BY <2>3, <2>4, <2>5, <2>6, <2>7 DEF IInv, Types
<1> QED
  BY <1>1, <1>2, <1>3 DEF Next, Done

\* The strengthened invariant holds in every reachable state, whatever the RM and
\* the GPU do.
THEOREM Inductive == Spec => []IInv
<1>1. Init => IInv
  BY InitEstablishes
<1>2. IInv /\ [Next]_vars => IInv'
  BY NextKeeps
<1> QED
  BY <1>1, <1>2, PTL DEF Spec

\* Every variable keeps its type.
THEOREM TypeCorrect == Spec => []TypeOK
<1>1. IInv => TypeOK
  BY TypesAreTypes DEF IInv
<1> QED
  BY <1>1, Inductive, PTL

\* A row of run_rewind is true of the work it speaks of: its tokens are those of
\* its own case and its class says what ran and when, also if a delayed write
\* comes after the case was classified.
THEOREM ClassesStayTrue == Spec => []ClassesAreTrue
<1>1. IInv => TokensAreTheCasesOwn
  BY DEF IInv, TokenInv, TokensAreTheCasesOwn
<1>2. IInv => ValidMeansHeld /\ PreservedMeansComplete /\ RemovedMeansAbsent
  BY DEF IInv, RowsInv, Good, ValidMeansHeld, PreservedMeansComplete, RemovedMeansAbsent
<1> QED
  BY <1>1, <1>2, Inductive, PTL DEF ClassesAreTrue

\* Exit status 0 stands for a completed run with a valid row for every case and
\* A's channels enabled, exit status 3 for one that says it was stopped.
THEOREM ExitIsHonest == Spec => []ExitZeroMeansCompleted
<1>1. IInv => ExitZeroMeansCompleted
  BY DEF IInv, EndInv, ExitZeroMeansCompleted
<1> QED
  BY <1>1, Inductive, PTL

\* After the first case that has no valid class the host submits nothing more and
\* touches no channel, for as long as the process lives.
THEOREM StopsAfterInvalid == Spec => StopsForGood
<1>1. ASSUME IInv, [Next]_vars, \E i \in Cases : rows[i] \in Invalid
      PROVE  /\ UNCHANGED <<index, channel>>
             /\ \A i \in Cases, e \in Entries : queue[i][e] = "none" => queue'[i][e] = "none"
  <2>1. phase \in After /\ (phase = "next" => stopped)
    BY <1>1 DEF IInv, RowsInv
  <2>2. CASE HostStep
    <3>1. UNCHANGED <<index, channel, queue>>
      <4>1. op \in {"case", "write", "done"} /\ phase # "record"
        BY <1>1, <2>1 DEF After, IInv, Types, RunTypes, Places, Observing
      <4>2. NextCase \/ Finish \/ Catch \/ Leave
        BY <2>1, <2>2, <4>1
        DEF HostStep, After, Calibrate, Reference, LaunchLong, EnqueueOld, Enqueue, WaitStarted,
            QueryA, QueryOld, Precondition, Disable, HoldCheck, HoldEndCheck, Enable,
            ObserveAfterEnable, ObserveOld, CreateStream, LaunchNew, RecordNew, QueryNew,
            VerifyNew, ObserveAfterNew, Classify, Record, ApiFails, CaseFails, ApiOps, CaseOps
      <4> QED
        BY <2>1, <4>2 DEF NextCase, Finish, Catch, Leave
    <3> QED
      BY <3>1
  <2>3. CASE GpuStep
    <3>1. PICK i \in Cases : (\E e \in Entries : GpuRuns(i, e)) \/ Republish(i)
      BY <2>3 DEF GpuStep
    <3>2. CASE Republish(i)
      BY <1>1, <3>2 DEF Republish, IInv, Types, QueueTypes
    <3>3. ASSUME NEW e \in Entries, GpuRuns(i, e)
          PROVE  /\ UNCHANGED <<index, channel>>
                 /\ \A j \in Cases, f \in Entries :
                      queue[j][f] = "none" => queue'[j][f] = "none"
      <4>1. UNCHANGED <<index, channel>>
        BY <3>3 DEF GpuRuns
      <4> QED
        BY <1>1, <3>3, <4>1, RunFacts
    <3> QED
      BY <3>1, <3>2, <3>3
  <2>4. CASE UNCHANGED vars
    BY <2>4 DEF vars
  <2> QED
    BY <1>1, <2>2, <2>3, <2>4 DEF Next, Done
<1> QED
  BY <1>1, Inductive, PTL DEF Spec, StopsForGood

================================================================================
