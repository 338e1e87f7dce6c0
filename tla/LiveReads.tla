------------------------------- MODULE LiveReads -------------------------------
(****************************************************************************)
(* A bounded read experiment end to end: run_userd_mapping of               *)
(* src/src/userd_mapping.hpp (the probe), the launcher                      *)
(* src/scripts/run_userd_mapping.py with the gates of                       *)
(* analyze_userd_progress.py and analyze_gpfifo_entry.py, and libcuda, whose *)
(* threads may change the address space at any moment.                      *)
(*                                                                          *)
(* The probe takes a snapshot, says it is ready, and waits for a plan.  The *)
(* launcher, in another process, validates the log up to the snapshot and   *)
(* the live mappings, and publishes a plan by renaming a file.  The probe   *)
(* then arms the observer at the snapshot's sequence and samples.  In mode  *)
(* userd-progress there is one such window; in gpfifo-entry a second one    *)
(* reads the ring of the new plan but USERD at the addresses of the first;  *)
(* in graph-entry (graph_entry_experiment of src/src/graph_entry.hpp, gates *)
(* of analyze_graph_entry.py) each case has a window with a plan, a USERD   *)
(* and a ring of its own.                                                   *)
(*                                                                          *)
(* RM's own view of the channel (handles, generations, registry) is taken   *)
(* to stay as it was; how many samples a window takes is left open.  Files  *)
(* are sequences with one element per snapshot or window.                   *)
(****************************************************************************)
EXTENDS UserdObserver, Functions

CONSTANTS Modes,  \* the modes a run exercises
          Cases   \* bound: of the five cases of mode graph-entry

ASSUMPTION ModesAssumption ==
  Modes \subseteq {"userd-progress", "gpfifo-entry", "graph-entry"} /\ Cases \in 1..5

VARIABLES
  mode,         \* --mode
  pc,           \* where the probe is, or how its process ended
  vmas,         \* <label>.maps of each snapshot: the pages that map USERD
  snapshot_seq, \* the sequence of the last snapshot's mark
  ready,        \* ready, ring_ready, <case>.ready: the sequence written in each
  plan,         \* read.plan, ring.plan, <case>.plan
  addresses,    \* the probe's vector of USERD addresses
  reported,     \* the rounds finish_reads returned for each window
  run_status,   \* in the metadata
  launcher,     \* where the launcher is
  turn,         \* the window the launcher serves
  draft,        \* the plan it is about to publish
  exit_code     \* what it records, NoCode until then

probe == <<mode, pc, vmas, snapshot_seq, ready, addresses, reported, run_status>>
boss  == <<plan, launcher, turn, draft, exit_code>>
vars  == <<observer, probe, boss>>

NoCode == 999

\* The snapshots of a run, by their marks.
Snap(k) ==
  IF mode = "graph-entry" /\ k > 2
  THEN Mark(IF k % 2 = 1 THEN "graph_before" ELSE "graph_after", (k - 1) \div 2)
  ELSE Mark(<<"after_warmup", "after_tiny", "after_entries">>[k], 0)

Snapshots ==
  CASE mode = "userd-progress" -> 2
    [] mode = "gpfifo-entry"   -> 3
    [] mode = "graph-entry"    -> 2 + 2 * Cases

\* Those that are followed by a window: in graph-entry the launch of the first
\* window, but not after_tiny.
Served ==
  CASE mode = "userd-progress" -> <<1>>
    [] mode = "gpfifo-entry"   -> <<1, 2>>
    [] mode = "graph-entry"    -> [w \in 1..(Cases + 1) |-> 2 * w - 1]

Windows == Len(Served)

Finish(w) ==
  Mark(CASE w = 1                               -> "reads_finished"
         [] w > 1 /\ mode = "gpfifo-entry"      -> "ring_reads_finished"
         [] w > 1 /\ mode = "graph-entry"       -> "graph_reads_finished", 0)

\* What a sample of window w may ask for.
Asks(w) ==
  CASE w = 1                           -> {"userd"}
    [] w > 1 /\ mode = "gpfifo-entry"  -> {"userd", "ring"}
    [] w > 1 /\ mode = "graph-entry"   -> {"set"}

Plan   == [sequence : Nat, page : Pages]
NoPlan == [sequence |-> 0]

Ended == pc \in {"captured", "failed", "returned", "killed"}

Mapped == {p \in Pages : page[p] = "userd"}

LiveInit ==
  /\ Init
  /\ mode \in Modes
  /\ pc = "maps"
  /\ vmas = <<>> /\ snapshot_seq = 0 /\ ready = <<>> /\ addresses = {}
  /\ reported = <<>> /\ run_status = "initializing"
  /\ plan = <<>> /\ draft = NoPlan
  /\ launcher = "wait_ready" /\ turn = 1
  /\ exit_code = NoCode

\* The last snapshot, and the window being prepared or read.
current == Len(vmas)
opened  == Len(ready)

Else(condition, place) == pc' = IF condition THEN place ELSE "catch"

--------------------------------------------------------------------------------
(* Faulty variants of definitions below, used by no specification.          *)

\* The plan is written in place, and may be read half written.
PublishInPlace ==
  /\ launcher = "publish"
  /\ \E p \in Pages : plan' = Append(plan, [draft EXCEPT !.page = p])
  /\ IF turn < Windows THEN launcher' = "wait_ready" /\ turn' = turn + 1
                       ELSE launcher' = "wait_exit" /\ UNCHANGED turn
  /\ UNCHANGED <<draft, exit_code, observer, probe>>

\* One window too many is served.
NextTurnOneMore ==
  IF turn <= Windows THEN launcher' = "wait_ready" /\ turn' = turn + 1
                     ELSE launcher' = "wait_exit" /\ UNCHANGED turn

\* The second plan is validated for itself only.
ProgressGateSkipped(rows) == TRUE

\* The plan of an earlier window is accepted.
CheckPlanOfEarlier ==
  /\ pc = "check"
  /\ pc' = "arm"
  /\ addresses' = {plan[1].page}
  /\ UNCHANGED <<mode, vmas, snapshot_seq, ready, reported, run_status, observer>>

\* The launcher waits for the file without a deadline.
GiveUpWaitingNever == FALSE /\ UNCHANGED vars

\* The catch block ends the process as after a capture.
CatchKeepsStatus ==
  /\ pc = "catch"
  /\ WriteMark("failed", 0)
  /\ pc' = "captured"
  /\ run_status' = "failed"
  /\ UNCHANGED <<mode, vmas, snapshot_seq, ready, addresses, reported>>

--------------------------------------------------------------------------------
(* The probe.  A step of the observer is a step of it.                      *)

\* snapshot: the maps are saved, then the mark is written, then ok is asked.
SaveMaps ==
  /\ pc = "maps"
  /\ vmas' = Append(vmas, Mapped)
  /\ pc' = "mark"
  /\ UNCHANGED <<mode, snapshot_seq, ready, addresses, reported, run_status, observer>>

MarkSnapshot ==
  /\ pc = "mark"
  /\ WriteMark(Snap(current).label, Snap(current).n)
  /\ snapshot_seq' = IF emitted THEN Len(log') ELSE 0
  /\ Else(emitted, "ok")
  /\ UNCHANGED <<mode, vmas, ready, addresses, reported, run_status>>

AskOk ==
  /\ pc = "ok"
  /\ mutex = Nobody
  /\ Else(~failed, CASE current \in Range(Served) -> "ready"
                     [] current = Snapshots       -> "report"
                     [] OTHER                     -> "maps")
  /\ UNCHANGED <<mode, vmas, snapshot_seq, ready, addresses, reported, run_status, observer>>

SayReady ==
  /\ pc = "ready"
  /\ ready' = Append(ready, snapshot_seq)
  /\ pc' = "await"
  /\ UNCHANGED <<mode, vmas, snapshot_seq, addresses, reported, run_status, observer>>

\* The plan appears, or five seconds pass.
AwaitPlan ==
  /\ pc = "await"
  /\ \/ Len(plan) >= opened /\ pc' = "check"
     \/ Len(plan) < opened /\ pc' = "catch"
  /\ UNCHANGED <<mode, vmas, snapshot_seq, ready, addresses, reported, run_status, observer>>

CheckPlan ==
  /\ pc = "check"
  /\ Else(plan[opened].sequence = snapshot_seq, "arm")
  /\ addresses' = IF opened = 1 \/ mode = "graph-entry" THEN {plan[opened].page} ELSE addresses
  /\ UNCHANGED <<mode, vmas, snapshot_seq, ready, reported, run_status, observer>>

Arm ==
  /\ pc = "arm"
  /\ \/ /\ ArmReads(snapshot_seq, addresses)
        /\ pc' = IF opened = 1 THEN "read" ELSE "arm_ring"
     \/ RefuseReads(snapshot_seq, addresses) /\ pc' = "catch"
  /\ UNCHANGED <<mode, vmas, snapshot_seq, ready, addresses, reported, run_status>>

FinishArming ==
  /\ pc = "arm_ring"
  /\ ArmRing({plan[opened].page}, mode = "graph-entry")
  /\ Else(~failed, "read")
  /\ UNCHANGED <<mode, vmas, snapshot_seq, ready, addresses, reported, run_status>>

Read ==
  /\ pc = "read"
  /\ \E what \in Asks(opened) :
       \/ SampleEnter(what) /\ pc' = what
       \/ SampleRefused(what) /\ pc' = "catch"
  /\ UNCHANGED <<mode, vmas, snapshot_seq, ready, addresses, reported, run_status>>

Load ==
  /\ pc \in {"userd", "ring", "set"}
  /\ SampleEmit(pc)
  /\ Else(emitted, "read")
  /\ UNCHANGED <<mode, vmas, snapshot_seq, ready, addresses, reported, run_status>>

StopReading ==
  /\ pc = "read" /\ rounds # 0
  /\ \/ /\ FinishReads
        /\ Else(emitted, "maps")
        /\ reported' = IF emitted THEN Append(reported, rounds) ELSE reported
     \/ RefuseFinish /\ pc' = "catch" /\ UNCHANGED reported
  /\ UNCHANGED <<mode, vmas, snapshot_seq, ready, addresses, run_status>>

\* Anything else in the try block throws: a file cannot be written, the identity
\* of the channel group has changed, a CUDA call of the measured launch fails or
\* its completion is not seen in time.  If it is the metadata that cannot be
\* written, they cannot be from then on.
Throw ==
  /\ \/ pc \in {"maps", "ready", "check", "read", "report"} /\ pc' = "catch"
     \/ pc \in {"maps", "report"} /\ pc' = "catch_unwritable"
  /\ UNCHANGED <<mode, vmas, snapshot_seq, ready, addresses, reported, run_status, observer>>

Report ==
  /\ pc = "report"
  /\ run_status' = "captured"
  /\ pc' = "captured"
  /\ UNCHANGED <<mode, vmas, snapshot_seq, ready, addresses, reported, observer>>

\* Where the metadata cannot be written, the handler throws in its turn, and main
\* returns 1.
Catch ==
  /\ \/ pc = "catch" /\ run_status' = "failed" /\ pc' = "failed"
     \/ pc = "catch_unwritable" /\ pc' = "returned" /\ UNCHANGED run_status
  /\ WriteMark("failed", 0)
  /\ UNCHANGED <<mode, vmas, snapshot_seq, ready, addresses, reported>>

ProbeStep ==
  /\ \/ SaveMaps \/ MarkSnapshot \/ AskOk \/ SayReady \/ AwaitPlan \/ CheckPlan
     \/ Arm \/ FinishArming \/ Read \/ Load \/ StopReading \/ Throw
     \/ Report \/ Catch
  /\ UNCHANGED boss

--------------------------------------------------------------------------------
(* The launcher.                                                            *)

\* resolve_channel: the mmap rows of the log up to the k-th snapshot's mark that
\* no later row undoes and that the saved maps confirm.
MarkOf(rows, k) == CHOOSE i \in DOMAIN rows : rows[i] = Snap(k)

Bindings(rows, k) ==
  {i \in 1..MarkOf(rows, k) :
     /\ rows[i].kind = "mmap" /\ rows[i].page \in vmas[k]
     /\ \A j \in i+1..MarkOf(rows, k) :
          rows[j].kind \in {"munmap", "mmap_fixed"} => rows[j].page # rows[i].page}

\* read_observations
Readable(rows) == \A i \in DOMAIN rows : rows[i] # Torn /\ rows[i] # Mark("failed", 0)

\* analyze of analyze_userd_progress: the first window holds its samples only,
\* and the mapping is the same before and after it.
ProgressGate(rows) ==
  \E f \in DOMAIN rows :
    /\ rows[f] = Finish(1)
    /\ f > MarkOf(rows, 1) + 1
    /\ \A i \in MarkOf(rows, 1)+1..f-1 :
         rows[i] = Sample("userd_sample", i - MarkOf(rows, 1) - 1)
    /\ Bindings(rows, 1) = Bindings(rows, 2)

\* What publish_plan, publish_ring_plan and publish_graph_plan require of the log.
LogAccepted(rows, w) ==
  /\ Readable(rows)
  /\ rows[Len(rows)] = Snap(Served[w])
  /\ Len(rows) = ready[w]
  /\ Cardinality(Bindings(rows, Served[w])) = 1
  /\ w > 1 => ProgressGate(rows)

Kill(code) ==
  /\ pc' = IF Ended THEN pc ELSE "killed"
  /\ exit_code' = code
  /\ launcher' = "exited"
  /\ UNCHANGED <<plan, turn, draft, observer, mode, vmas, snapshot_seq, ready, addresses,
                 reported, run_status>>

NextTurn ==
  IF turn < Windows THEN launcher' = "wait_ready" /\ turn' = turn + 1
                    ELSE launcher' = "wait_exit" /\ UNCHANGED turn

SeesReady ==
  /\ launcher = "wait_ready"
  /\ IF Ended THEN NextTurn
              ELSE /\ Len(ready) >= turn
                   /\ launcher' = "validate" /\ UNCHANGED turn
  /\ UNCHANGED <<plan, draft, exit_code, observer, probe>>

\* The launcher's 45 seconds may be over whenever it looks.
GiveUpWaiting ==
  /\ launcher = "wait_ready"
  /\ ~Ended /\ Len(ready) < turn
  /\ Kill(124)

Validate ==
  /\ launcher = "validate"
  /\ IF LogAccepted(log, turn)
       THEN /\ \E i \in Bindings(log, Served[turn]) :
                 draft' = [sequence |-> ready[turn], page |-> log[i].page]
            /\ launcher' = "check_maps"
            /\ UNCHANGED <<plan, turn, exit_code, observer, probe>>
       ELSE Kill(125)

\* /proc/<pid>/maps is compared with the saved one, and is empty if the child
\* has ended.
CheckMaps ==
  /\ launcher = "check_maps"
  /\ IF ~Ended /\ Mapped = vmas[Served[turn]]
       THEN /\ launcher' = "publish"
            /\ UNCHANGED <<plan, turn, draft, exit_code, observer, probe>>
       ELSE Kill(125)

Publish ==
  /\ launcher = "publish"
  /\ plan' = Append(plan, draft)
  /\ NextTurn
  /\ UNCHANGED <<draft, exit_code, observer, probe>>

WaitExit ==
  /\ launcher = "wait_exit"
  /\ Ended
  /\ exit_code' = CASE pc = "captured" -> 0 [] pc = "returned" -> 1 [] OTHER -> 2
  /\ launcher' = "exited"
  /\ UNCHANGED <<plan, turn, draft, observer, probe>>

GiveUpExit == launcher = "wait_exit" /\ ~Ended /\ Kill(124)

LauncherStep ==
  \/ SeesReady \/ GiveUpWaiting \/ Validate \/ CheckMaps \/ Publish
  \/ WaitExit \/ GiveUpExit

--------------------------------------------------------------------------------
Driver ==
  /\ ~Ended
  /\ \E d \in Drivers : Hook(d)
  /\ UNCHANGED <<probe, boss>>

Deadline ==
  /\ ~Ended
  /\ ReadDeadline
  /\ UNCHANGED <<probe, boss>>

Done == launcher = "exited" /\ UNCHANGED vars

Next == ProbeStep \/ Driver \/ Deadline \/ LauncherStep \/ Done

\* Only the launcher is scheduled for certain: a call into the driver may hang,
\* and the probe with it.
Fairness == WF_vars(LauncherStep)

Spec == LiveInit /\ [][Next]_vars /\ Fairness

--------------------------------------------------------------------------------
(* Properties.                                                              *)

\* The type of every variable.
TypeOK ==
  /\ ObserverTypeOK
  /\ mode \in Modes
  /\ pc \in {"maps", "mark", "ok", "ready", "await", "check", "arm", "arm_ring", "read",
             "userd", "ring", "set", "report", "catch", "catch_unwritable", "captured", "failed",
             "returned", "killed"}
  /\ vmas \in Seq(SUBSET Pages)
  /\ snapshot_seq \in Nat
  /\ ready \in Seq(Nat)
  /\ plan \in Seq(Plan)
  /\ addresses \subseteq Pages
  /\ reported \in Seq(Nat)
  /\ run_status \in {"initializing", "captured", "failed"}
  /\ launcher \in {"wait_ready", "validate", "check_maps", "publish", "wait_exit", "exited"}
  /\ turn \in 1..Windows
  /\ draft \in Plan \union {NoPlan}
  /\ exit_code \in {0, 1, 2, 124, 125, NoCode}

\* Whenever the probe dereferences an address, USERD is still mapped there: the
\* mapping the launcher saw in another process, some time ago, has not moved.
LoadsAreAudited ==
  pc \in {"userd", "ring", "set"} =>
    \A p \in Targets(pc) : page[p] = "userd"

\* "Any newly captured row in the window stops the reads": between a recorded
\* sample and the mark of the snapshot it belongs to, the log holds nothing but
\* the samples of the same window, each with its number.
SamplesFollowTheirSnapshot ==
  \A j \in DOMAIN log : log[j].kind \in SampleKinds =>
    \E w \in DOMAIN Served : \E i \in 1..j-1 :
      /\ (w = 1) = (log[j].kind = "userd_sample")
      /\ log[i] = Snap(Served[w])
      /\ log[j].round = j - i - 1
      /\ \A m \in i+1..j-1 : log[m].kind \in SampleKinds

\* The rounds reported for a window are all in the log, between its snapshot's
\* mark and the mark that ends it.
ReportedRoundsAreLogged ==
  \A k \in DOMAIN reported :
    \E f \in DOMAIN log :
      /\ log[f] = Finish(k)
      /\ f > reported[k] + 1
      /\ log[f - reported[k] - 1] = Snap(Served[k])

\* Exit code 0 is recorded only for a capture that is complete: every window
\* finished, and no row of the log up to the last snapshot lost.
SuccessIsComplete ==
  exit_code = 0 =>
    /\ run_status = "captured"
    /\ Len(reported) = Windows
    /\ \E m \in DOMAIN log :
         /\ log[m] = Snap(Snapshots)
         /\ \A i \in 1..m : log[i] # Torn

\* What the probe and the launcher report is in the log: no round and no window is
\* claimed that was not captured, and no sample that was not of its window.
ReportIsComplete ==
  SamplesFollowTheirSnapshot /\ ReportedRoundsAreLogged /\ SuccessIsComplete

\* The launcher records an exit code and leaves no child behind, even if the
\* probe or the driver under it hangs.
Concludes == <>(launcher = "exited" /\ Ended)

================================================================================
