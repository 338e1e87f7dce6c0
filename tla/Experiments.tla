------------------------------ MODULE Experiments ------------------------------
(****************************************************************************)
(* The experiment driver: experiments and main (src/src/main.cpp) and       *)
(* rm_experiments with its bridge session (src/src/rm_handoff.hpp).         *)
(*                                                                          *)
(* One thread goes through targets, parts, trials and conditions, submits   *)
(* work to the two owner threads and waits for each piece, so that a step   *)
(* here is one submit().get() with the row it leads to.  Contexts, launch   *)
(* numbers, calibrated work and the bridge's binding live on across trials; *)
(* what a row claims depends on all that was done before it.  A handoff is  *)
(* the single step that Handoff and RmTrial detail; any step may fail.      *)
(****************************************************************************)
EXTENDS Integers, Sequences, FiniteSets

CONSTANTS
  Settings,       \* the option values a run exercises
  Warmup,         \* --warmup
  MaxRefinements  \* bound: further launches of one calibration

Owners == {"A", "B"}

Modes == {"all", "standby", "takeover", "live-handoff", "preempt-hold"}

RmCases == {"all", "live-handoff", "preempt-resume", "preempt-hold", "schedule-hold",
            "fifo-hold", "rewind-false", "rewind-true", "rewind-paired"}

IsRewind(o) == o.rm_case \in {"rewind-false", "rewind-true", "rewind-paired"}

\* What parse accepts.
Options ==
  {o \in [mode : Modes, action : {"destroy", "wait-then-destroy", "both"}, estimate : BOOLEAN,
          rm_case : RmCases, rm_probe : BOOLEAN, trials : Nat \ {0}, targets : Nat \ {0}] :
     /\ o.mode # "preempt-hold" => o.rm_case = "all" /\ ~o.rm_probe
     /\ IsRewind(o) => o.targets = 1 /\ ~o.rm_probe}

ASSUME SettingsAssumption == Settings \subseteq Options
ASSUME WarmupAssumption == Warmup \in Nat \ {0}
ASSUME MaxRefinementsAssumption == MaxRefinements \in Nat

VARIABLES
  o,           \* the options of this run
  pc,          \* the next submit().get()
  target, part, trial, order,  \* the loops
  ctx,         \* GpuState::exists, of both threads
  launches,    \* GpuState::launch_sequence_, of both threads
  cal,         \* the calibration in use, numbered
  reference,   \* the reference duration: of which work, after how many rows
  s,           \* what takeover or rm_trial left in the Sample
  rows,        \* the CSV
  counts,      \* thread_a_launch_count and thread_b_launch_count
  revision,    \* contexts the bridge has seen being created
  bound,       \* the revision its binding was made at, 0 before bind
  controls,    \* controls issued, of each kind
  run_status,  \* the last value of run_status in the metadata
  failure,     \* the step that threw, "output" for a row that was not written
  outcome      \* how the process ended

place == <<target, part, trial, order>>
work == <<cal, reference, s>>
bridge == <<bound, controls>>
files == <<rows, counts, run_status>>
ending == <<failure, outcome>>
vars == <<o, pc, target, part, trial, order, ctx, launches, cal, reference, s, rows, counts,
          revision, bound, controls, run_status, failure, outcome>>

--------------------------------------------------------------------------------
(* The plan of a run.                                                       *)

IsRm == o.mode = "preempt-hold"

Parts ==
  CASE o.mode = "all"                 -> <<"standby", "takeover">>
    [] IsRm /\ (IsRewind(o) \/ o.rm_probe) -> <<>>
    [] OTHER                          -> <<o.mode>>

Part == Parts[part]

\* The conditions of a part, in the order of its first trial.
ConditionsOf(p) ==
  CASE p = "standby"      -> <<"a_only", "a_with_idle_b">>
    [] p = "takeover"     -> IF o.action = "both" THEN <<"destroy", "wait-then-destroy">>
                                                  ELSE <<o.action>>
    [] p = "live-handoff" -> <<"live-handoff", "serial-destroy", "idle">>
    [] OTHER              -> IF o.rm_case = "all"
                             THEN <<"live-handoff", "preempt-resume", "preempt-hold">>
                             ELSE <<o.rm_case>>

\* The conditions always in the same order.
conditionUnrotated == ConditionsOf(Part)[order + 1]

\* The conditions take turns in each place of the order.
condition ==
  LET c == ConditionsOf(Part) IN c[((trial + order) % Len(c)) + 1]

\* Conditions in which A's context is destroyed.
IsSerial(c) == c \in {"destroy", "wait-then-destroy", "serial-destroy"}

\* Every condition measures work calibrated for it alone.
CaseStartRecalibrates(p) ==
  CASE p = "standby" -> "set_b" [] p = "takeover" -> "prepare" [] OTHER -> "recalibrate"

CaseStart(p) ==
  CASE p = "standby"  -> "set_b"
    [] p = "takeover" -> "prepare"
    [] OTHER          -> "reference"

TrialStart(p) == IF p \in {"live-handoff", "preempt-hold"} THEN "recalibrate" ELSE CaseStart(p)

PartStart(p) == IF p \in {"takeover", "live-handoff"} THEN "warm_b" ELSE TrialStart(p)

TargetStart == IF IsRm THEN TrialStart("preempt-hold") ELSE "close_b"

\* A trial too many.
LastTrialPassed == trial = o.trials

LastTrial == trial + 1 = o.trials

\* Controls of each kind that one handoff under condition c may take.
ControlsOf(c) ==
  [preempt  |-> IF c \in {"preempt-resume", "preempt-hold"} THEN 1 ELSE 0,
   fifo     |-> IF c \in {"preempt-hold", "fifo-hold"} THEN 2 ELSE 0,
   schedule |-> IF c = "schedule-hold" THEN 2 ELSE 0]

\* The kind of control the idle probe and the hold of a case use.
HoldKind == IF o.rm_case = "schedule-hold" THEN "schedule" ELSE "fifo"

ProbeControls == [ControlsOf("idle") EXCEPT ![HoldKind] = 2]

RewindCases == IF o.rm_case = "rewind-paired" THEN 2 * o.trials ELSE o.trials

\* The idle probe is not counted in.
BudgetForCases == (IF o.rm_case = "rewind-paired" THEN 4 ELSE 2) * o.trials * o.targets

Budget == (IF o.rm_case = "rewind-paired" THEN 4 ELSE 2) * o.trials * o.targets + 2

Probes == IsRewind(o) \/ o.rm_probe
          \/ o.rm_case \in {"all", "preempt-hold", "schedule-hold", "fifo-hold"}

\* A row as the driver fills it in; sample is what the call measured.
Row(experiment, c, w, ref, sample) ==
  [experiment |-> experiment, condition |-> c, target |-> target, trial |-> trial,
   order |-> order, status |-> "ok", work |-> w, reference |-> ref,
   present |-> sample.present,
   a_launch_seq |-> sample.a_launch_seq, b_launch_seq |-> sample.b_launch_seq]

Present == {th \in Owners : ctx[th]}

NoSample == [present |-> {}, a_launch_seq |-> 0, b_launch_seq |-> 0]

--------------------------------------------------------------------------------
(* What the steps do to contexts, launch numbers and the bridge.            *)

Create(S) ==
  /\ ctx' = [th \in Owners |-> ctx[th] \/ th \in S]
  /\ revision' = revision + Cardinality(S \ Present)

Close(S) ==
  /\ ctx' = [th \in Owners |-> ctx[th] /\ th \notin S]
  /\ UNCHANGED revision

\* The sequence starts again with every context.
LaunchPerContext(a, b) ==
  launches' = [A |-> (IF ctx.A THEN launches.A ELSE 0) + a,
               B |-> (IF ctx.B THEN launches.B ELSE 0) + b]

Launch(a, b) == launches' = [A |-> launches.A + a, B |-> launches.B + b]

\* A second create is a no-op, and only a new context is warmed up.
WarmB ==
  IF ctx.B THEN UNCHANGED <<ctx, revision, launches>>
           ELSE Create({"B"}) /\ Launch(0, Warmup)

\* calibrate: warm-up, one measurement and at least one refinement.
Calibration ==
  /\ \E more \in 0..MaxRefinements : Launch(Warmup + 2 + more, 0)
  /\ cal' = cal + 1

AnchorLaunches == 7

\* The bridge refuses a control on a stale binding or beyond its budget.
Allowed(needed) ==
  /\ bound = revision
  /\ \A kind \in DOMAIN controls : controls[kind] + needed[kind] <= Budget

Issue(needed) == controls' = [kind \in DOMAIN controls |-> controls[kind] + needed[kind]]

\* On to the next condition, trial, part or target.
EndCase ==
  LET lastOrder == order + 1 = Len(ConditionsOf(Part))
      lastTrial == lastOrder /\ LastTrial
      lastPart  == lastTrial /\ part = Len(Parts)
  IN \/ /\ ~lastOrder
        /\ order' = order + 1
        /\ pc' = CaseStart(Part)
        /\ UNCHANGED <<target, part, trial>>
     \/ /\ lastOrder /\ ~lastTrial
        /\ order' = 0 /\ trial' = trial + 1
        /\ pc' = TrialStart(Part)
        /\ UNCHANGED <<target, part>>
     \/ /\ lastTrial /\ ~lastPart
        /\ order' = 0 /\ trial' = 0 /\ part' = part + 1
        /\ pc' = PartStart(Parts[part + 1])
        /\ UNCHANGED target
     \/ /\ lastPart /\ target < o.targets
        /\ order' = 0 /\ trial' = 0 /\ part' = 1 /\ target' = target + 1
        /\ pc' = TargetStart
     \/ /\ lastPart /\ target = o.targets
        /\ pc' = "counts"
        /\ UNCHANGED place

--------------------------------------------------------------------------------
(* Targets and standby.                                                     *)

\* B's context of the target before stays.
CloseBSkipped ==
  /\ pc = "close_b"
  /\ pc' = "calibrate"
  /\ UNCHANGED <<o, place, ctx, launches, work, files, revision, bridge, ending>>

CloseB ==
  /\ pc = "close_b"
  /\ Close({"B"})
  /\ pc' = "calibrate"
  /\ UNCHANGED <<o, place, launches, work, files, bridge, ending>>

Calibrate ==
  /\ pc = "calibrate"
  /\ Create({"A"})
  /\ Calibration
  /\ reference' = [work |-> cal', after |-> Len(rows)]
  /\ rows' = Append(rows, Row("calibration", "a_only", cal', reference',
                              [NoSample EXCEPT !.present = Present \union {"A"}]))
  /\ pc' = PartStart(Part)
  /\ UNCHANGED <<o, place, s, counts, run_status, bridge, ending>>

SetB ==
  /\ pc = "set_b"
  /\ IF condition = "a_with_idle_b" THEN WarmB ELSE Close({"B"}) /\ UNCHANGED launches
  /\ pc' = "measure_a"
  /\ UNCHANGED <<o, place, work, files, bridge, ending>>

MeasureA ==
  /\ pc = "measure_a"
  /\ ctx.A
  /\ Launch(Warmup + 1, 0)
  /\ rows' = Append(rows, Row("standby", condition, cal, reference,
                              [present |-> Present, a_launch_seq |-> launches'.A, b_launch_seq |-> 0]))
  /\ EndCase
  /\ UNCHANGED <<o, ctx, work, counts, run_status, revision, bridge, ending>>

--------------------------------------------------------------------------------
(* Handoffs.                                                                *)

PrepareB ==
  /\ pc = "warm_b"
  /\ WarmB
  /\ pc' = TrialStart(Part)
  /\ UNCHANGED <<o, place, work, files, bridge, ending>>

\* Once per trial; only live-handoff recreates A and writes a row.
Recalibrate ==
  /\ pc = "recalibrate"
  /\ Calibration
  /\ reference' = [work |-> cal', after |-> Len(rows)]
  /\ IF IsRm
     THEN ctx.A /\ UNCHANGED <<ctx, revision, rows>>
     ELSE /\ Create({"A"})
          /\ rows' = Append(rows, Row("calibration", "a_with_idle_b", cal', reference',
                                      [NoSample EXCEPT !.present = Present \union {"A"}]))
  /\ pc' = "reference"
  /\ UNCHANGED <<o, place, s, counts, run_status, bridge, ending>>

\* The natural duration of the fixed work, just before each condition.
Reference ==
  /\ pc = "reference"
  /\ IF IsRm THEN ctx.A /\ Launch(1, 0) /\ UNCHANGED <<ctx, revision>>
             ELSE Create({"A"}) /\ Launch(Warmup + 1, 0)
  /\ reference' = [work |-> cal, after |-> Len(rows)]
  /\ pc' = "anchor"
  /\ UNCHANGED <<o, place, cal, s, files, bridge, ending>>

Anchor ==
  /\ pc = "anchor"
  /\ ctx.B
  /\ Launch(0, AnchorLaunches)
  /\ pc' = "handoff"
  /\ UNCHANGED <<o, place, ctx, work, files, revision, bridge, ending>>

\* A is taken to be alive after a handoff.
PrepareWithoutA ==
  /\ pc = "prepare"
  /\ Launch(Warmup, 0)
  /\ pc' = "idle_b"
  /\ UNCHANGED <<o, place, ctx, work, files, revision, bridge, ending>>

Prepare ==
  /\ pc = "prepare"
  /\ Create({"A"})
  /\ Launch(Warmup, 0)
  /\ pc' = "idle_b"
  /\ UNCHANGED <<o, place, work, files, bridge, ending>>

\* The warm B alone, and its clock if the start is to be estimated.
IdleB ==
  /\ pc = "idle_b"
  /\ ctx.B
  /\ Launch(0, IF o.estimate THEN 1 + AnchorLaunches ELSE 1)
  /\ rows' = Append(rows, Row("takeover", "b_with_idle_a", cal, reference,
                              [present |-> Present, a_launch_seq |-> 0, b_launch_seq |-> launches.B + 1]))
  /\ pc' = "handoff"
  /\ UNCHANGED <<o, place, ctx, work, counts, run_status, revision, bridge, ending>>

\* What takeover or rm_trial launches: nothing of A in the idle baseline, and
\* once more on A after an rm_trial, to see that it is usable.
ALaunches == IF condition = "idle" THEN 0 ELSE IF IsRm THEN 2 ELSE 1

Measured ==
  [present |-> Present,
   a_launch_seq |-> IF condition = "idle" THEN 0 ELSE launches.A + 1,
   b_launch_seq |-> launches.B + 1]

\* takeover or rm_trial returns.
HandOff ==
  /\ pc = "handoff"
  /\ ctx.A /\ ctx.B
  /\ IF IsRm THEN Allowed(ControlsOf(condition)) /\ Issue(ControlsOf(condition))
             ELSE UNCHANGED controls
  /\ Launch(ALaunches, 1)
  /\ s' = Measured
  /\ Close(IF ~IsRm /\ IsSerial(condition) THEN {"A"} ELSE {})
  /\ pc' = "post"
  /\ UNCHANGED <<o, place, cal, reference, files, bound, ending>>

Anchored == Part # "takeover" \/ o.estimate

\* The clock again, now that A's and B's work has ended, and the row.
Post ==
  /\ pc = "post"
  /\ IF Anchored THEN ctx.B /\ Launch(0, AnchorLaunches) ELSE UNCHANGED launches
  /\ rows' = Append(rows, Row(Part, condition, cal, reference, s))
  /\ s' = NoSample
  /\ EndCase
  /\ UNCHANGED <<o, ctx, cal, reference, counts, run_status, revision, bridge, ending>>

--------------------------------------------------------------------------------
(* The RM session.                                                          *)

\* A's context, and the sentinels of a rewind run, in the allocation scope.
Scope ==
  /\ pc = "scope"
  /\ Create({"A"})
  /\ Launch(IF IsRewind(o) THEN Warmup + 1 ELSE Warmup, 0)
  /\ pc' = "b_context"
  /\ UNCHANGED <<o, place, work, files, bridge, ending>>

BContext ==
  /\ pc = "b_context"
  /\ Create({"B"})
  /\ Launch(0, Warmup)
  /\ pc' = "bind"
  /\ UNCHANGED <<o, place, work, files, bridge, ending>>

\* The binding is made from what was captured when A was complete.
BindEarly ==
  /\ pc = "bind"
  /\ bound' = revision - 1
  /\ pc' = IF Probes THEN "probe" ELSE TargetStart
  /\ UNCHANGED <<o, place, ctx, launches, work, files, revision, controls, ending>>

Bind ==
  /\ pc = "bind"
  /\ bound' = revision
  /\ pc' = IF Probes THEN "probe" ELSE TargetStart
  /\ UNCHANGED <<o, place, ctx, launches, work, files, revision, controls, ending>>

\* Disable and enable an idle A, and use it.
Probe ==
  /\ pc = "probe"
  /\ ctx.A
  /\ Allowed(ProbeControls)
  /\ Issue(ProbeControls)
  /\ Launch(1, 0)
  /\ pc' = CASE IsRewind(o) -> "rewind"
             [] o.rm_probe  -> "counts"
             [] OTHER       -> TargetStart
  /\ UNCHANGED <<o, place, ctx, work, files, revision, bound, ending>>

\* run_rewind ends the process, after all its cases or at the first bad one.
RewindRun ==
  /\ pc = "rewind"
  /\ \E cases \in 1..RewindCases :
       /\ Allowed([ProbeControls EXCEPT !.fifo = 2 * cases])
       /\ Issue([ProbeControls EXCEPT !.fifo = 2 * cases])
       /\ \/ cases = RewindCases /\ run_status' = "completed" /\ outcome' = "exit 0"
          \/ run_status' = "stopped" /\ outcome' = "exit 3"
  /\ pc' = "ended"
  /\ UNCHANGED <<o, place, ctx, launches, work, rows, counts, revision, bound, failure>>

--------------------------------------------------------------------------------
(* The end.                                                                 *)

Counts ==
  /\ pc = "counts"
  /\ counts' = launches
  /\ pc' = "close"
  /\ UNCHANGED <<o, place, ctx, launches, work, rows, run_status, revision, bridge, ending>>

CloseBoth ==
  /\ pc = "close"
  /\ Close(Owners)
  /\ pc' = "complete"
  /\ UNCHANGED <<o, place, launches, work, files, bridge, ending>>

Complete ==
  /\ pc = "complete"
  /\ run_status' = "completed"
  /\ pc' = "report"
  /\ UNCHANGED <<o, place, ctx, launches, work, rows, counts, revision, bridge, ending>>

\* std::filesystem::absolute, in the last message, may fail.
Report ==
  /\ pc = "report"
  /\ outcome' \in {"exit 0", "exit 1"}
  /\ pc' = "ended"
  /\ UNCHANGED <<o, place, ctx, launches, work, files, revision, bridge, failure>>

\* takeover may throw at any point: with or without its launches.
PartOf(sample) ==
  {[sample EXCEPT !.a_launch_seq = a, !.b_launch_seq = b] :
     a \in {0, sample.a_launch_seq}, b \in {0, sample.b_launch_seq}}

\* The handlers that mark a failed handoff: around takeover, and in the RM
\* experiment around the second clock anchor as well.
Marked == pc = "handoff" \/ (IsRm /\ pc = "post")

Erroneous(sample) ==
  rows' = Append(rows, [Row(Part, condition, cal, reference, sample) EXCEPT !.status = "error"])

ErrorRow ==
  \/ pc = "post" /\ Erroneous(s) /\ UNCHANGED launches
  \/ /\ pc = "handoff"
     /\ \E sample \in PartOf(Measured) :
          /\ Erroneous(sample)
          /\ launches' = [A |-> IF sample.a_launch_seq = 0 THEN launches.A ELSE sample.a_launch_seq,
                          B |-> IF sample.b_launch_seq = 0 THEN launches.B ELSE sample.b_launch_seq]

\* A call fails, or writing a row does.
Fail ==
  /\ pc \notin {"report", "unwind", "ended"}
  /\ \/ Marked /\ ErrorRow /\ failure' = pc
     \/ ~Marked /\ failure' = pc /\ UNCHANGED <<rows, launches>>
     \/ failure' = "output" /\ UNCHANGED <<rows, launches>>
  /\ pc' = "unwind"
  /\ UNCHANGED <<o, place, ctx, work, counts, run_status, revision, bridge, outcome>>

\* ~Worker destroys the contexts, then main tries to record the failure.
Unwind ==
  /\ pc = "unwind"
  /\ Close(Owners)
  /\ run_status' \in {"failed", run_status}
  /\ outcome' = "exit 1"
  /\ pc' = "ended"
  /\ UNCHANGED <<o, place, launches, work, rows, counts, bridge, failure>>

Done == pc = "ended" /\ UNCHANGED vars

Init ==
  /\ o \in Settings
  /\ target = 1 /\ part = 1 /\ trial = 0 /\ order = 0
  /\ pc = IF IsRm THEN "scope" ELSE "close_b"
  /\ ctx = [th \in Owners |-> FALSE]
  /\ launches = [A |-> 0, B |-> 0]
  /\ cal = 0
  /\ reference = [work |-> 0, after |-> 0]
  /\ s = NoSample
  /\ rows = <<>>
  /\ counts = [A |-> 0, B |-> 0]
  /\ revision = 0
  /\ bound = 0
  /\ controls = [kind \in {"preempt", "fifo", "schedule"} |-> 0]
  /\ run_status = "initializing"
  /\ failure = "none"
  /\ outcome = "none"

Next ==
  \/ CloseB \/ Calibrate \/ SetB \/ MeasureA
  \/ PrepareB \/ Recalibrate \/ Reference \/ Anchor \/ Prepare \/ IdleB \/ HandOff \/ Post
  \/ Scope \/ BContext \/ Bind \/ Probe \/ RewindRun
  \/ Counts \/ CloseBoth \/ Complete \/ Report
  \/ Fail \/ Unwind \/ Done

\* Every step is a call that returns or throws.
Spec == Init /\ [][Next]_vars

--------------------------------------------------------------------------------
(* Properties.                                                              *)

\* The type of every variable.
TypeOK ==
  /\ o \in Settings
  /\ ctx \in [Owners -> BOOLEAN]
  /\ launches \in [Owners -> Nat] /\ counts \in [Owners -> Nat]
  /\ order < 3 /\ trial < o.trials /\ target <= o.targets /\ part <= 2
  /\ cal \in Nat /\ reference \in [work : Nat, after : Nat]
  /\ \A i \in DOMAIN rows : rows[i].status \in {"ok", "error"}
  /\ revision \in Nat /\ bound \in 0..revision
  /\ run_status \in {"initializing", "completed", "failed", "stopped"}
  /\ outcome \in {"none", "exit 0", "exit 1", "exit 3"}

\* "a_only" rows were measured without a context of B, all others with both
\* contexts alive, whatever the trials before destroyed or left behind; and
\* every call finds the context it needs.
SettingsAreReal ==
  /\ \A i \in DOMAIN rows :
       rows[i].status = "ok" =>
         rows[i].present = IF rows[i].condition = "a_only" THEN {"A"} ELSE Owners
  /\ pc = "measure_a" => ctx.A
  /\ pc \in {"idle_b", "handoff"} => ctx.A /\ ctx.B
  /\ pc \in {"anchor", "post"} => ctx.B

\* A row's reference is of the work it says, and rows that are compared measured
\* the same work; a handoff's reference was taken right before it, after the row of
\* the condition before.
ComparisonsShareWork ==
  \A i \in DOMAIN rows :
    /\ rows[i].reference.work = rows[i].work
    /\ rows[i].experiment \in {"live-handoff", "preempt-hold"} =>
         rows[i].reference.after = i - 1
    /\ \A j \in DOMAIN rows :
         /\ rows[i].experiment = rows[j].experiment /\ rows[i].experiment # "calibration"
         /\ rows[i].target = rows[j].target /\ rows[i].trial = rows[j].trial
         => rows[i].work = rows[j].work

\* What a row says of its condition, its work and its reference is so.
RowsMeanWhatTheySay == SettingsAreReal /\ ComparisonsShareWork

RowsAt(p, c, t, n) ==
  {i \in DOMAIN rows : /\ rows[i].experiment = p /\ rows[i].condition = c
                       /\ rows[i].target = t /\ rows[i].order = n}

\* A run recorded as completed has every condition once per trial and target, in
\* each place of the order equally often up to one; and exit status 0 means so.
CompletedIsBalanced ==
  /\ run_status = "completed" =>
       \A k \in DOMAIN Parts, t \in 1..o.targets :
         LET p == Parts[k]
             c == ConditionsOf(p)
             times(x, n) == Cardinality(RowsAt(p, x, t, n - 1))
         IN \A x \in DOMAIN c :
              /\ Cardinality(UNION {RowsAt(p, c[x], t, n - 1) : n \in DOMAIN c}) = o.trials
              /\ \A m, n \in DOMAIN c : times(c[x], m) <= times(c[x], n) + 1
  /\ outcome = "exit 0" => run_status = "completed"

\* Launch numbers identify launches for a profiler: over all rows, and across
\* contexts that were destroyed and created again, they only grow, and they stay
\* within the total that the metadata gives.
LaunchesAreNumbered ==
  \A i \in DOMAIN rows :
    LET seq == [A |-> rows[i].a_launch_seq, B |-> rows[i].b_launch_seq]
    IN /\ \A j \in 1..(i - 1) :
            /\ seq.A # 0 => rows[j].a_launch_seq < seq.A
            /\ seq.B # 0 => rows[j].b_launch_seq < seq.B
       /\ run_status = "completed" => seq.A <= counts.A /\ seq.B <= counts.B

\* No control is refused for a reason of the driver's own making: at each of
\* them the binding is current and the budget covers what the step may need.
ControlsAreCovered ==
  /\ pc = "probe" => Allowed(ProbeControls)
  /\ pc = "handoff" /\ IsRm => Allowed(ControlsOf(condition))
  /\ pc = "rewind" => Allowed([ProbeControls EXCEPT !.fifo = 2 * RewindCases])

\* README.md: a failed trial is marked valid=0, status=error.
FailedTrialsAreMarked ==
  failure \in {"measure_a", "idle_b", "handoff", "post"} =>
    rows # <<>> /\ rows[Len(rows)].status = "error"

================================================================================
