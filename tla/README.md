# Verification of the context ping-pong benchmark

TLA+ models of the benchmark in `src/`, checked with TLC on small instances, and
theorems about them proved with TLAPS for every value of their constants.

The program measures how fast one GPU can be handed from a CUDA context A, which
runs a long kernel, to a context B, which waits with a tiny one. It does so with
two owner threads, a controller, and, in its optional modes, with resource-manager
(RM) controls, a preloaded observer of libcuda, and a Python launcher. A wrong
order of steps does not crash it: it yields a row that looks like a measurement.
The properties here are therefore about what a row, a report or an exit code
*claims*, and about the calls ending at all.

## 1. Inventory

| Component | Source | State | Operations | What makes it correct |
|---|---|---|---|---|
| Owner thread | `main.cpp` `Worker` 529–567 | deque, mutex, condition variable, stop flag, the thread's `GpuState` | `submit`, thread loop, `~Worker` | no wakeup is lost; tasks run once, in order; the destructor drains, destroys the context and returns |
| Handoff | `main.cpp` `takeover` 625–712 | `Signals` (six atomics), the `Sample`, two futures on the caller's stack | both tasks, controller, cancellation | B starts only after what the condition promises; success, failure and both flags of the row are true; the frame outlives the tasks; it returns |
| RM handoff | `rm_handoff.hpp` `rm_trial` 151–254, `control` 78–95 | `RmRecord`, `disabled`, the channels' real state | preempt, disable, enable, undo | A is held while B runs; no control is retried; a known hold is undone, once |
| Start estimate | `main.cpp` `clock_anchor`, `estimate_start` 587–624 | two anchors, one sample | anchor, estimate | B's true start lies in the reported interval |
| Experiment driver | `main.cpp` `experiments` 828–951, `main`; `rm_handoff.hpp` `rm_experiments` 256–351 | loops, contexts, calibration, reference, launch numbers, rows, RM binding and budget, `run_status` | one `submit().get()` after the other | rows mean what their labels say; conditions are balanced and share work; completed runs are complete; controls are covered |
| Rewind experiment | `rewind_experiment.hpp` `run_rewind` | a slot pair per case, events, held flag, rows | reference, enqueue, disable, poll, enable, new epoch, classify, record | a valid class is true of the old work; the first invalid case stops everything; it always ends |
| Observer | `userd_observer.cpp` | log, failure flag, read window, ring | hooks, marks, arming, samples | nothing is loaded from memory that may be gone |
| Live read probe and launcher | `userd_mapping.hpp`, `run_userd_mapping.py`, `analyze_userd_progress.py`, `analyze_gpfifo_entry.py` | files in a directory, process exit | snapshot, ready, plan, window, exit | plans are current; what is reported was captured; the launcher concludes |
| Graph entry probe | `graph_entry.hpp`, `analyze_graph_entry.py` | two captured graphs, four result slots, the start stamps seen last | capture, five windows, preparation, verify | a plan serves one case only; a result is its own case's; an exclusive entry set is exactly what the launch wrote |
| Mapping and binding analysis | `analyze_userd_mapping.py`, `gpfifo_binding.py` | none (pure), over the observer's rows | `birth`, `resolve_channel`, `resolve_ring` | the CPU sees USERD or the ring at the resolved address |
| Ring attribution | `analyze_gpfifo_entry.py`, `userd_observer.cpp` ring samples | frames | `stable_frame`, `attribute_launch`, `same_publication` | a frame is a snapshot; a PUT delta names the slots written |
| Reports, options, output, kernels | the rest | | | not concurrent; see section 7 |

How they interact. The driver owns two Workers and calls `takeover` or `rm_trial`,
which submit one task to each and wait for both futures. The tasks talk through
`Signals`. `rm_trial` and `run_rewind` call the RM bridge from A's owner thread.
Modes userd-map, userd-progress, gpfifo-entry and graph-entry instead run the probe
under the preloaded observer; the launcher, another process, validates its log and
publishes plans through files.

Hard behaviour, and where it is listed: `PROJECT.json` "hazards", each at its line.
It is mostly interleaving (three threads, the GPU, libcuda's threads), staleness
(events, plans, bindings and anchors are used later than they were read), partial
failure (every step may throw while two other threads wait), and controls whose
effect is unknown.

## 2. Modules

| Module | Stands for | Composes |
|---|---|---|
| `TaskChannel` | abstract: a FIFO of tasks with futures | |
| `OwnerThread` | `Worker`, at the granularity of lock, test, wait, notify | implements `TaskChannel` |
| `HandoffContract` | abstract: what a driver may rely on from one handoff | |
| `TwoOwners` | what `takeover` and `rm_trial` share: B's task, A's until the invalidation, the controller, flags, stamps, the GPU | |
| `Handoff` | `takeover` | extends `TwoOwners`, implements `HandoffContract` |
| `RmTrial` | `rm_trial` and `RmBridge::control` | extends `TwoOwners` |
| `ClockEstimate` | `clock_anchor`, `estimate_start`, two drifting clocks | |
| `Experiments` | `experiments`, `main`, `rm_experiments`, binding and budget of `RmBridge` | a handoff is one step |
| `Rewind` | `run_rewind`, `EpochState`, `EpochLog` | |
| `UserdObserver` | `userd_observer.cpp`: hooks, log, marks, arming, samples, finishing | |
| `LiveReads` | the probe, the launcher and its gates, files, libcuda, in modes userd-progress, gpfifo-entry and graph-entry | extends `UserdObserver` |
| `RingFrames` | the rings, libcuda writing them, a ring sample reading them word by word, `stable_frame` | |
| `EntryWindows` | the windows of modes gpfifo-entry and graph-entry, and what the analyzers conclude from them | extends `RingFrames` |
| `MappingBinding` | `resolve_channel`, `resolve_ring` over the decoded rows, against RM, the kernel and UVM | |
| `*Proofs` | theorems; `AnalysisProofs` those of `ClockEstimate` and `MappingBinding` | extend their component |
| `MC*` | bounds for TLC | extend their component |

Conventions. An action is one step of one thread. A time stamp and the call it
brackets are separate actions where another thread's stamp can fall between them
and is compared; otherwise they are one. Stamps are drawn from one counter: only
their order is compared by the code. A thread that may throw has its places in
`AMayThrow`, `BMayThrow`, `CMayThrow`; `Throw` sends it to its handler. Variables
that stand for the truth the program cannot see (`completed`, `channel`, `began`,
`queue` of `Rewind`, `page`) are marked so where they are declared. Definitions
under "Faulty variants", or directly before a definition with a comment that states
the mistake, are used by no specification: replacing the definition by the variant
must violate the property that guards it.

### Correspondence with the code

*OwnerThread.* `worker` is where the owner thread is between `main.cpp` 541 and 548:
"testing" holds the mutex and looks at the predicate, "blocking" is the atomic
release of `cv_.wait`, "asleep" may be woken by `Notify` or spuriously. The
controller's places cover `submit` (lock, push, notify), `get` and `~Worker` (lock,
stop, notify, join); it is the only caller, as in the code. A task ends with a value
or an exception and may leave the context in either state.

*Handoff, TwoOwners.* `pc` has a place per statement that touches shared state.
`await_flag` is a single step, since no flag is ever lowered. The GPU runs `kernel.A`
and `kernel.B` concurrently if it wants to; `cuCtxDestroy` kills what runs. Submission
to the Workers is taken to be infallible (only an allocation failure could break it).

*RmTrial.* A control that was accepted took effect; of one that was refused or
unanswered nothing is known, so both outcomes are explored. The group schedule
control does not stop A, as the documents report. The clock may fail inside
`control`, before or after the RM acted.

*ClockEstimate.* Both clocks advance; their offset drifts one way or not at all.

*Experiments.* The calling thread waits for every task, so that `pc` names the next
`submit().get()`; the loops are `target`, `part`, `trial`, `order`. `present` in a row
is the set of threads that had a context when it was measured: it is what the row's
label claims. `reference.after` is how many rows there were when a reference was
taken. `a_already_complete` rows are rows like others for the driver.

*Rewind.* `<<phase, op>>` is the position of the host. Nothing is assumed of the RM
or the GPU: accepted controls may have had no effect, refused ones may have had one,
a rewind may drop any queued entry, dropped entries may come back at any time, and A
may be held for ever.

*UserdObserver, LiveReads.* libcuda's threads map and unmap pages at any moment; a
call takes effect before it is recorded. Every file is written in the order the code
writes it; the plan appears by rename. Launcher and probe each may give up. The three
modes share the places of the probe and differ in their snapshots, windows, marks and
in how a window is armed; in graph-entry every case has a plan of its own. A failing
step leads to the handler in `run_userd_mapping` ("catch"), which ends the process with 2; if
it is the metadata that cannot be written ("catch_unwritable"), its stream stays bad, the
handler throws as well and `main` returns 1. A hook may lose the row of a call in its
`catch (...)`, which fails the observer.

*RingFrames, EntryWindows.* A frame is read one word at a time (`ReadPut`, `ReadSlot`)
in the order of `userd_observer_ring_sample`, and libcuda may write an entry or move
PUT between any two words. An entry is a value that may or may not equal the one it
replaces (`reuse`). `pc` is the label of the frame being taken, or the call, the pause
or the judgement between frames; `made` is the truth: where libcuda wrote for this
launch. The analysis is evaluated where the window ends; a window that it rejects ends
the behaviour, as the analyzers raise at the first one.

*MappingBinding.* `sys` is the truth: objects with a generation per birth, what is
attached to each file, the CPU's and the GPU's page tables. `log` holds the rows.
libcuda makes the calls of its set-up in order, may begin again at any of them, and any
two other rows may come in between, refused calls among them. `ChannelResolved` and
`RingResolved` translate the two functions clause by clause.

## 3. What is checked

| Run | States | Shows |
|---|---|---|
| `owner_thread` | 10 241 | `NothingIsLost` (no lost wakeup, order, drain); `Progress` (futures and destructor); refinement of `TaskChannel` |
| `handoff` | 3 334 | `SerialExclusion`; `OutcomeIsHonest`; `RowIsTrue`; `NothingLeftBehind`; `AlwaysReturns`; refinement of `HandoffContract` |
| `rm_trial` | 24 523 | `HoldIsReal` (A is held while B runs, and was seen to be); `UndoIsRight`; `ReturnIsClean`; `NeverRetried`; `AlwaysReturns` |
| `clock_estimate` | 544 424 | `EnvelopeSound`; `ConstantOffsetAccepted` |
| `experiments` | 61 607 | `RowsMeanWhatTheySay` (contexts and work behind a row's label); `CompletedIsBalanced`; `LaunchesAreNumbered`; `ControlsAreCovered` |
| `rewind` | 1 004 678 | `ClassesAreTrue` (with the tokens the classes rest on); `StopsForGood`; `ExitZeroMeansCompleted`; `AlwaysEnds` |
| `live_reads` | 2 325 008 | `LoadsAreAudited`; `ReportIsComplete`; `Concludes` |
| `entry_windows` | 1 937 097 | `FramesAreInstants`; `AttributionIsTrue`; `VerifiedIsFresh` |
| `mapping_binding` | 403 811 | `ResolvedIsLive` |

Every run also checks its module's `TypeOK` (`BindingTypeOK` in `MappingBinding`). Most properties are conjunctions of
named parts, each with its comment, e.g.
`OutcomeIsHonest == ChecksNeverFire /\ NoSilentAbandonment /\ FailureIsReported`.

Three runs end in a violation that is a finding (`PROJECT.json` "findings"):

- `unmarked_trial` (`FailedTrialsAreMarked`): README.md:148 says that a failed trial
  is marked `valid=0,status=error`. Only `takeover` is inside a handler that writes
  such a row. If a standby trial's launch, the warm B request or the second clock
  anchor throws, the trial has no row at all.
- `rewind_poisoned` (`CudaErrorIsPoisoned`): REWIND_EXPERIMENT.md:122 files a CUDA
  error of the measurement under `context_or_submission_poisoned`; an error of A's
  measured launch comes out as ambiguous, since `launch_long` throws another type.
- `rewind_unwind` (`NeverDestroysContext`): `rewind_experiment.hpp`:93 promises an exit
  without CUDA cleanup; if the metadata cannot be written the exception leaves
  `run_rewind`, and unwinding destroys the contexts.

### Bounds, and why they are enough

- `owner_thread`: three tasks. Order needs two queued at once; a lost wakeup needs one
  more that arrives while the thread runs a task. No symmetry, since liveness is checked.
- `handoff`, `rm_trial`: one call, all conditions, no bound on failures except
  `MaxClockFaults = 2` (one in the disable, one in the undo). The only unbounded
  quantity, the clock, advances once per stamp.
- `clock_estimate`: two tries, so that a try can be kept or replaced; six ticks let
  both anchors and B have every relation of widths; drift of up to two ticks. The
  clock bound stops the run, hence no deadlock check. The proof has no bounds.
- `experiments`: two targets (the second finds what the first left behind), three
  trials (one full rotation of three conditions), every mode and RM case; a
  calibration takes one of two launch counts.
- `rewind`: two cases, as a pair or as two trials; one repetition of each polling loop
  (`MaxPolls`). A later case can only be disturbed by an earlier one.
- `live_reads`: two of the five cases of graph-entry (a plan can only be confused with
  an earlier one), two pages, two calls of libcuda, two rounds of samples for 256, a log
  of thirteen rows for 20 000, which the longest behaviours overflow.
- `entry_windows`: two channels, so that entries can go where they should not; rings of
  two and four entries, so that PUT wraps often; a launch may write one
  slot more than a ring of two has. All five cases of graph-entry run. The start of a
  window is arbitrary, hence more windows would show nothing new.
- `mapping_binding`: two memory objects (one can be mistaken for the other), each handle
  may be born again; four CPU and two GPU addresses of one unit, so that mappings can
  overlap in part, move and be replaced; two calls besides the set-up. A single call
  can take a mapping away; a second one can put another in its place.

## 4. Fairness

- `OwnerThread`: weak fairness of both threads' steps, strong fairness where a mutex is
  taken (a mutex free again and again is granted by the scheduler). Spurious wakeups
  and submissions are never forced.
- `Handoff`, `RmTrial`: weak fairness of each thread and of each kernel. Kernels are
  finite loops; under a hold A's kernel makes no progress and nothing is assumed of it.
  `wait_started` has a deadline in the code; the model needs none, as a submitted
  kernel starts.
- `Rewind`: the host only. The GPU owes nothing, which is what the deadlines are for.
- `LiveReads`: the launcher and its 45 second limit only. A call into the driver may
  hang and the probe with it.
- `Experiments`, `ClockEstimate`, `EntryWindows` and `MappingBinding` state no liveness:
  in the first two nothing waits, and the waits of the windows are those of `LiveReads`.

Failures (`Throw`, `Fail`, `GiveUp...`) are never fair.

## 5. What is proved

`OwnerThreadProofs` (any set of tasks): `TypeCorrect`, `NeverSleepsThroughWork`,
`RunsInOrder`, `DestructionDrains`, `NothingGetsLost`, and `IsChannel`, that every step is
a step of `TaskChannel` or a stutter. The invariant adds to the
properties what each thread's place says about the mutex (who holds it), about the
future of the task in hand, and, decisive for the wakeup, that a thread which is
asleep with something to do has a controller between its push (or stop) and its notify.

`HandoffProofs` (any subset of the four conditions): `TypeCorrect`, `OutcomeHonest`,
`RowTrue`, `NothingStaysBehind`, `SerialConditionsExclude`, and `ImplementsContract`,
with the parts as theorems of their own. The inductive invariant `IInv` is `TypeOK` and
eight named parts: stamps lie in the past; a flag is up only after its thread raised
it, and a thread is past a wait only if the flag is up; which places a condition
excludes; the order of the stamps `takeover` compares; what is known of the kernels at
each place; that an event answer belongs to its moment; that a cancellation always
has a failed thread behind it whose error is on its way; and how the call returned.
None of the properties is inductive by itself: `SerialExclusion`, for instance, needs
that `b_go` implies A's task finished, which needs that the context was destroyed
successfully, which needs where A's task raised the flag. Each step is proved once per
action, types first. The refinement proof maps every step to a contract step or a
stutter under `IInv`.

`AnalysisProofs` on `ClockEstimate` (any number of tries, any clocks, any drift in one direction):
`TypeCorrect`, `EstimateIsSound`, `EstimateIsNotWithheld`. The arithmetic of the interval is a lemma
by itself; the invariant puts every completed measurement between its launch and its
completion and orders the offsets at which they were taken.

`RmTrialProofs` (any subset of the five conditions, any number of clock failures):
`TypeCorrect`, `HoldsAreReal`, `UndoIsCorrect`, `ReturnsClean`, `ControlsAreNotRetried`.
The argument: B is released only where A's task waits for B, and a released B that
nobody cancelled means that A's task has not failed. In a hold condition A's task gets
there only past an accepted disable, and the place where it enables again lies behind
`b_done`; so the channel is disabled while B runs, whatever the other threads do. A
cancellation has a failed thread behind it, which is what makes the return clean.

`EntryWindowsProofs` (any number of channels, any ring sizes): `FramesAreOrdered`,
`StableFramesAreInstants`, `TypeCorrect`, `AttributionHolds` and `VerifiedHolds`. The first invariant measures, for each slot read, how far behind the
end of the ring it lay when the frame was begun. Less than a ring of entries arrives
while one frame is read, so that each slot is written at most once and PUT never comes
back to a value it had. Equal PUTs around the rings then mean that PUT did not move,
and two equal readings of a ring that both show it as it was in between, even if
entries recur. The other two properties are about what the analysis of a window concludes,
and rest on a second invariant, `WindowInv` (`WindowsAreKept`): the frames before the launch
and the settling frame are read while libcuda does nothing, so each holds the rings of its
stage; fewer entries than a ring lie at the places of PUT's interval, a ring or more changes
every slot, of which PUT's interval accounts for some only; and a stamp a result carries is
not later than the last start that was accepted, which the graph's order of the chain gives.

`RewindProofs` (any options, any number of cases and polls): `TypeCorrect`,
`ClassesStayTrue`, `ExitIsHonest`, `StopsAfterInvalid`. Nothing is assumed of the GPU, so
the invariant says what the host may still conclude: what lies ahead in the case has not
been submitted and its slot is unwritten; a token stands in a slot only if the entry that
writes it was done, and only once the host has submitted it; answers of events that were
positive stay true; an old sentinel that is still pending when the hold ends runs, if at
all, after it; and classes of rows written are never made false by later steps.

`ExperimentsProofs` (any settings, targets, trials, warm-ups and refinements, in every
mode, with a failure at any step): `TypeCorrect`, `RowsMean`, `LaunchesNumbered`,
`ControlsCovered`. The invariant says which contexts exist at each place of the plan; that the reference in hand
is of the work in hand and, in a handoff, newer than every row; that rows of the target
(or trial) being measured share the work in hand, and that there is none before its
calibration; and that the sample which will become a row has launch numbers above those of
all rows and within the totals. The properties quantify over pairs of rows, possibly many
trials apart, so that each needs the half about what is in hand to survive the next row.
For the controls a second invariant, `BudgetInv`, adds the account: the conditions of one
trial take at most two controls of a kind together, in whatever order they rotate, and so
does the idle probe; the trials behind, counted over targets, are fewer than the budget
has room for. A third, `CaseInv`, counts: of the plan that is behind, each case has exactly
one row, in its turn, so that a run that completes has its conditions balanced
(`CompletedBalanced`): the trials n with (n + first) % L = x - 1 are as many for every place x
of a rotation of one, two or three, by bijections between their sets.

`LiveReadsProofs` (any pages, threads of libcuda, calls, samples, length of the log, in
every mode): `TypeCorrect`, `Audited`, `ReportComplete`. The first invariant reads the log as a record of the
address space: while the observer has not failed, a page that the log shows as bound is
mapped, but for the call that holds the mutex between its effect and its row
(`AuditInv`). A plan names a page that is bound at its own mark and, in gpfifo-entry, the
first plan's page is still bound at the second mark, which is what the launcher's
`ProgressGate` is for: it compares the bindings of both marks, and each mark stands in the log
once (`SnapInv`). The probe arms only while that mark is the last row; from then on a row
that could undo the binding fails the observer, and a failed observer reads nothing. That the
log stays whole is not assumed: a full log or a short write fails it as well. The report rests on
a second invariant, `ReportInv`, about the rows: how many windows the snapshots behind have
(`Counted`), that the last mark stands at `snapshot_seq` and only samples follow it, as many as
there were rounds, that what the report's reader finds of a window are its samples and its end
mark, that a row is lost only with the observer, and that the exit code is 0 only after `captured`.

`AnalysisProofs` on `MappingBinding` (any objects, files and pages, any set-up, any number of other
calls of the kinds in `Call`): `BindingTypeCorrect`, `RowsAreKept`, `ResolvedHolds`. What a call does
is proved for each part of the system by itself, then restated by the row the call leaves.
The invariant `RowsInv` says of each kind of row what it tells of the system as long as no
later row takes it back: an allocation that its object lives, under a generation no other
has; a map_memory what its file is attached to; the first mmap of that file, if nothing
spoils it, which units its pages show; a registration that the channel is bound, in an
address space registered before; an external mapping what the GPU sees at the ring's
address and that its range stands. The anonymous mmaps that leave no row
take free pages only. That two objects never share a generation is needed for an unmap_memory
of another object, and that one range at most holds the ring for a free of another range.
The clauses of `resolve_channel` and `resolve_ring` then say that nothing was taken back: the greatest
birth, the least use and the sets of one element that they take are found by lemmas. Not
every clause is needed: neither the saved maps nor the one create_range row enter the argument
but for the address being one of the pages.

The part about `ClockEstimate` is the shortest proof; `ExperimentsProofs`, `HandoffProofs`,
`LiveReadsProofs` and `RewindProofs` are the long ones. They share a layout: the invariant's
parts are named, types are proved first, each action has a lemma per part it can disturb, and
the QED steps combine them.

Assumptions: only those on constants (`NoTaskAssumption`, `ConditionsAssumption`,
`TriesAssumption`, `BoundsAssumption`, `CountAssumption`, `SizesAssumption`,
`EntryBoundsAssumption` and the like), all evaluated by the runs.

Every invariant that a passing run checks is a theorem. Only model-checked: liveness and
fairness everywhere (with the fairness part of the refinement of `TaskChannel`), which are
out of the prover's reach.

## 6. Assumptions of the models

- A destroyed context's kernel is gone; `cuCtxDestroy` may fail without effect.
- An accepted control is effective in `RmTrial`; nothing of the kind in `Rewind`.
- `Handoff` and `RmTrial`: an unheld kernel ends.
- Offsets between the clocks drift in one direction between two anchors.
- In `LiveReads` the launcher's `kill` and `wait` are one step: a killed child is taken to end
  (one that the kernel cannot end would hold the launcher in `wait`, which has no deadline);
  after a failing handler of the probe, unwinding joins idle Workers and ends; and `mremap` is
  a `munmap` and an `mmap` with MAP_FIXED, as its row undoes both ranges for the analysis.
- In `LiveReads` the RM's own tables do not change under the probe; the log holds one
  channel.
- `RingFrames`: while one frame is read, fewer entries are added to a ring than it holds.
  The code has no such guarantee; it reads at once, while the program itself submits
  nothing.
- `EntryWindows`: what a launch hands to libcuda has been written and published when the
  pause after the call is over; preparing launches publish before they return. A launch
  adds less than a ring of entries to a channel whose ring is not read, or if entries may
  recur: beyond that no reading could tell (hazard at `analyze_gpfifo_entry.py`:89).
- `MappingBinding`: rows stand in the order of the calls' effects, as the observer's mutex
  makes it; the snapshot is asked for after the set-up has returned. `mprotect` and calls
  libcuda makes without libc are not interposed by the code, and not modelled.
- The bridge (external) refuses a control on a binding older than the last context
  captured and one beyond the budget of its kind.

## 7. Not modelled

- Floating point: `calibrate`'s arithmetic, `a_gflops`, the reports.
- Parsing, formatting, file creation; that a write may throw is modelled.
- The decoding of ioctl payloads below the fields the analyses join on; several clients,
  GPUs, channels or UVM files at once; the context share and the checks of flags, profiles
  and file signatures in `resolve_channel`.
- The samples of the pause between frames, `repeat_follows` and the gaps between cases,
  which add reported numbers only; mode userd-map, which reads nothing.
- The offline reports (`summarize.py`, `analyze_nsys.py`, `analyze_hold_trace.py`, `analyze_rewind.py`): joins over finished files.
- The GPU program's own arithmetic; NVTX marks; CPU affinity.
- An allocation failure between the two submissions of a handoff.
- The warm-up of `EpochState`, and the log that `run_rewind` opens and the metadata it writes
  before its `try` (`rewind_experiment.hpp`:97-105); a failure there leaves before any case.

## 8. Plan

Written in this order, most important behaviour first: `OwnerThread`, `Handoff` with
its contract and proofs, `RmTrial`, `ClockEstimate`, `UserdObserver` with `LiveReads`,
`Rewind`, `Experiments`, `RingFrames` with `EntryWindows`, `MappingBinding`, then the proofs
of `EntryWindows`, `RmTrial`, `Rewind`, `Experiments`, `LiveReads` and of the refinement
of `TaskChannel`, then those of what windows, reports, completed runs and
resolved addresses conclude. Next:

1. `MappingBinding` with the context share and a second channel, and the proofs that go with it.
