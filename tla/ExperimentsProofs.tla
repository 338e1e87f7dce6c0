--------------------------- MODULE ExperimentsProofs ---------------------------
(****************************************************************************)
(* Proofs about Experiments, for any numbers of targets, trials, warm-ups   *)
(* and refinements and any of the modes.  One thread does one thing after   *)
(* the other; what has to be carried from step to step is what its place    *)
(* in the plan says of the contexts and the work in hand, how the rows      *)
(* written before compare with the next one, and what controls were taken.  *)
(****************************************************************************)
EXTENDS Experiments, FiniteSetTheorems, FunctionTheorems, SequenceTheorems, TLAPS

(* Places and names.                                                        *)

Loops == {"warm_b", "set_b", "measure_a", "recalibrate", "reference", "anchor", "prepare",
          "idle_b", "handoff", "post"}
Session == {"scope", "b_context", "bind", "probe", "rewind"}
Endings == {"counts", "close", "complete", "report", "unwind", "ended"}

PartNames == {"standby", "takeover", "live-handoff", "preempt-hold"}
Conditions == {"a_only", "a_with_idle_b", "destroy", "wait-then-destroy", "serial-destroy", "idle",
               "b_with_idle_a"} \union RmCases

\* Modes that calibrate once per trial.
Live == o.mode \in {"live-handoff", "preempt-hold"}

RowSet ==
  [experiment : PartNames \union {"calibration"}, condition : Conditions, target : Nat,
   trial : Nat, order : Nat, status : {"ok", "error"}, work : Nat,
   reference : [work : Nat, after : Nat], present : SUBSET Owners,
   a_launch_seq : Nat, b_launch_seq : Nat]

SampleSet == [present : SUBSET Owners, a_launch_seq : Nat, b_launch_seq : Nat]

--------------------------------------------------------------------------------
(* The inductive invariant.                                                 *)

\* Where the driver is, and which part of the plan has such a place.
PlanInv ==
  /\ o \in Settings
  /\ target \in 1..o.targets /\ part \in 1..2 /\ trial \in 0..(o.trials - 1) /\ order \in 0..2
  /\ pc \in Loops \union Session \union Endings \union {"close_b", "calibrate"}
  /\ pc \in Loops =>
       /\ part \in 1..Len(Parts) /\ order < Len(ConditionsOf(Part))
       /\ IsRm => ~IsRewind(o) /\ ~o.rm_probe
  /\ pc \in {"close_b", "calibrate"} => ~IsRm /\ part = 1 /\ trial = 0 /\ order = 0
  /\ pc \in Session => IsRm /\ target = 1 /\ part = 1 /\ trial = 0 /\ order = 0
  /\ pc = "rewind" => IsRewind(o)
  /\ pc \in {"set_b", "measure_a"} => Part = "standby"
  /\ pc \in {"prepare", "idle_b"} => Part = "takeover"
  /\ pc = "warm_b" => Part \in {"takeover", "live-handoff"}
  /\ pc \in {"recalibrate", "reference", "anchor"} => Part \in {"live-handoff", "preempt-hold"}
  /\ pc \in {"handoff", "post"} => Part # "standby"

TypeInv ==
  /\ ctx \in [Owners -> BOOLEAN]
  /\ launches \in [Owners -> Nat] /\ counts \in [Owners -> Nat]
  /\ cal \in Nat /\ reference \in [work : Nat, after : Nat]
  /\ s \in SampleSet
  /\ rows \in Seq(RowSet)
  /\ revision \in Nat /\ bound \in 0..revision
  /\ run_status \in {"initializing", "completed", "failed", "stopped"}
  /\ outcome \in {"none", "exit 0", "exit 1", "exit 3"}

\* Which contexts are there.
CtxInv ==
  /\ pc = "calibrate" => ~ctx.B
  /\ pc \in {"set_b", "measure_a", "idle_b", "handoff", "anchor"} => ctx.A
  /\ pc \in {"prepare", "idle_b", "recalibrate", "reference", "anchor", "handoff", "post"} => ctx.B
  /\ pc = "measure_a" => (ctx.B <=> condition = "a_with_idle_b")
  /\ IsRm /\ pc \in {"b_context", "bind", "probe"} \union Loops => ctx.A
  /\ IsRm /\ pc \in {"bind", "probe"} => ctx.B

\* The rows, and the sample that will be one, say which contexts were there.
Attended(r) == r.status = "ok" => r.present = IF r.condition = "a_only" THEN {"A"} ELSE Owners
PresentInv ==
  /\ pc = "post" => s.present = Owners
  /\ \A i \in DOMAIN rows : Attended(rows[i])

\* The reference in hand is of the work in hand; that of a handoff is the newest.
Referred(r, i) ==
  /\ r.reference.work = r.work
  /\ r.experiment \in {"live-handoff", "preempt-hold"} => r.reference.after = i - 1
ReferenceInv ==
  /\ ~Live /\ pc \in Loops => reference.work = cal
  /\ Live /\ pc \in {"anchor", "handoff", "post"} => reference = [work |-> cal, after |-> Len(rows)]
  /\ \A i \in DOMAIN rows : Referred(rows[i], i)

\* A row, not one of a calibration, belongs to what is being measured now.
Here(r) ==
  r.experiment # "calibration" /\ r.target = target /\ (Live => r.trial = trial)

\* Rows lie behind; those of what is measured now share the work in hand.
Behind(r) ==
  /\ r.target <= target
  /\ Live /\ r.target = target => r.trial <= trial
  /\ Here(r) => r.work = cal

SameWork(p, q) ==
  /\ p.experiment = q.experiment /\ p.experiment # "calibration"
  /\ p.target = q.target /\ p.trial = q.trial
  => p.work = q.work

\* There is no row yet of what is measured before its work is calibrated.
Uncalibrated == pc \in {"close_b", "calibrate"} \/ (Live /\ pc \in {"warm_b", "recalibrate"})

WorkInv ==
  /\ \A i \in DOMAIN rows : Behind(rows[i])
  /\ \A i, j \in DOMAIN rows : SameWork(rows[i], rows[j])
  /\ Uncalibrated => \A i \in DOMAIN rows : ~Here(rows[i])

\* The launches of the sample, and then of its row, are newer than all before.
Newer(r, q) ==
  /\ r.a_launch_seq # 0 => q.a_launch_seq < r.a_launch_seq
  /\ r.b_launch_seq # 0 => q.b_launch_seq < r.b_launch_seq
Within(r, total) == r.a_launch_seq <= total.A /\ r.b_launch_seq <= total.B
NumberInv ==
  /\ \A i \in DOMAIN rows : Within(rows[i], launches)
  /\ pc = "post" => Within(s, launches) /\ \A i \in DOMAIN rows : Newer(s, rows[i])
  /\ \A i, j \in DOMAIN rows : j < i => Newer(rows[i], rows[j])

\* The totals of a completed run are those at its end.
CountsInv ==
  /\ pc \in {"close", "complete"} => counts = launches
  /\ pc \in Session => rows = <<>>
  /\ run_status = "completed" =>
       /\ pc \in {"report", "ended"}
       /\ \A i \in DOMAIN rows : Within(rows[i], counts)

IInv == /\ PlanInv /\ TypeInv /\ CtxInv /\ PresentInv /\ ReferenceInv /\ WorkInv
        /\ NumberInv /\ CountsInv

--------------------------------------------------------------------------------
(* The plan.                                                                *)

LEMMA OptionFacts ==
  ASSUME o \in Settings
  PROVE  /\ o.mode \in Modes /\ o.rm_case \in RmCases
         /\ o.trials \in Nat \ {0} /\ o.targets \in Nat \ {0}
         /\ o.action \in {"destroy", "wait-then-destroy", "both"}
         /\ IsRewind(o) => o.targets = 1
         /\ ~IsRm => o.rm_case = "all"
<1>1. o \in Options
  BY SettingsAssumption
<1> QED
  BY <1>1 DEF Options, IsRewind, IsRm

LEMMA PartsFacts ==
  ASSUME o \in Settings
  PROVE  /\ o.mode = "all" => Parts = <<"standby", "takeover">>
         /\ o.mode \in {"standby", "takeover", "live-handoff"} => Parts = <<o.mode>>
         /\ IsRm /\ ~IsRewind(o) /\ ~o.rm_probe => Parts = <<"preempt-hold">>
<1>1. o.mode \in Modes
  BY OptionFacts
<1>2. CASE o.mode = "all"
  BY <1>2 DEF Parts, IsRm
<1>3. CASE o.mode \in {"standby", "takeover", "live-handoff"}
  BY <1>3 DEF Parts, IsRm
<1>4. CASE o.mode = "preempt-hold"
  BY <1>4 DEF Parts, IsRm
<1> QED
  BY <1>1, <1>2, <1>3, <1>4 DEF Modes, IsRm

LEMMA PartFacts ==
  ASSUME o \in Settings, part \in 1..2, part \in 1..Len(Parts),
         IsRm => ~IsRewind(o) /\ ~o.rm_probe
  PROVE  /\ Part \in PartNames
         /\ Live <=> Part \in {"live-handoff", "preempt-hold"}
         /\ IsRm <=> Part = "preempt-hold"
         /\ Live => Len(Parts) = 1
         /\ part = Len(Parts) \/ (part = 1 /\ Len(Parts) = 2 /\ Parts[2] = "takeover")
         /\ Len(Parts) \in 1..2 /\ Parts[1] \in PartNames
         /\ IsRm => Parts[1] = "preempt-hold"
<1>1. o.mode \in Modes
  BY OptionFacts
<1>2. CASE o.mode = "all"
  <2>1. Parts = <<"standby", "takeover">>
    BY <1>2, PartsFacts
  <2>2. Len(Parts) = 2 /\ Parts[1] = "standby" /\ Parts[2] = "takeover"
    BY <2>1
  <2> QED
    BY <1>2, <2>2 DEF Part, PartNames, Live, IsRm
<1>3. CASE o.mode \in {"standby", "takeover", "live-handoff"}
  <2>1. Parts = <<o.mode>>
    BY <1>3, PartsFacts
  <2>2. Len(Parts) = 1 /\ Parts[1] = o.mode
    BY <2>1
  <2> QED
    BY <1>3, <2>2 DEF Part, PartNames, Live, IsRm
<1>4. CASE o.mode = "preempt-hold"
  <2>1. Parts = <<"preempt-hold">>
    BY <1>4, PartsFacts DEF IsRm
  <2>2. Len(Parts) = 1 /\ Parts[1] = "preempt-hold"
    BY <2>1
  <2> QED
    BY <1>4, <2>2 DEF Part, PartNames, Live, IsRm
<1> QED
  BY <1>1, <1>2, <1>3, <1>4 DEF Modes

LEMMA ConditionsFacts ==
  ASSUME o \in Settings, NEW p \in PartNames
  PROVE  /\ Len(ConditionsOf(p)) \in 1..3
         /\ \A k \in 1..Len(ConditionsOf(p)) :
              /\ ConditionsOf(p)[k] \in Conditions
              /\ p = "standby" <=> ConditionsOf(p)[k] \in {"a_only", "a_with_idle_b"}
<1>0. o.rm_case \in RmCases /\ o.action \in {"destroy", "wait-then-destroy", "both"}
  BY OptionFacts
<1>1. CASE p = "standby"
  <2>1. ConditionsOf(p) = <<"a_only", "a_with_idle_b">>
    BY <1>1 DEF ConditionsOf
  <2> QED
    BY <1>1, <2>1 DEF Conditions
<1>2. CASE p = "takeover"
  <2>1. ConditionsOf(p) = <<"destroy", "wait-then-destroy">> \/ ConditionsOf(p) = <<o.action>>
    BY <1>2 DEF ConditionsOf
  <2>2. ConditionsOf(p) = <<o.action>> => o.action \in {"destroy", "wait-then-destroy"}
    BY <1>0, <1>2 DEF ConditionsOf
  <2> QED
    BY <1>2, <2>1, <2>2 DEF Conditions
<1>3. CASE p = "live-handoff"
  <2>1. ConditionsOf(p) = <<"live-handoff", "serial-destroy", "idle">>
    BY <1>3 DEF ConditionsOf
  <2> QED
    BY <1>3, <2>1 DEF Conditions, RmCases
<1>4. CASE p = "preempt-hold"
  <2>1. \/ ConditionsOf(p) = <<"live-handoff", "preempt-resume", "preempt-hold">>
        \/ ConditionsOf(p) = <<o.rm_case>>
    BY <1>4 DEF ConditionsOf
  <2> QED
    BY <1>0, <1>4, <2>1 DEF Conditions, RmCases
<1> QED
  BY <1>1, <1>2, <1>3, <1>4 DEF PartNames

LEMMA ConditionFacts ==
  ASSUME PlanInv, pc \in Loops
  PROVE  /\ Len(ConditionsOf(Part)) \in 1..3
         /\ condition \in Conditions
         /\ Part = "standby" <=> condition \in {"a_only", "a_with_idle_b"}
<1>1. Part \in PartNames
  BY PartFacts DEF PlanInv
<1>2. Len(ConditionsOf(Part)) \in 1..3
  BY <1>1, ConditionsFacts DEF PlanInv
<1>3. ((trial + order) % Len(ConditionsOf(Part))) + 1 \in 1..Len(ConditionsOf(Part))
  BY <1>2 DEF PlanInv
<1> QED
  BY <1>1, <1>2, <1>3, ConditionsFacts DEF PlanInv, condition

\* Where EndCase leads.
LEMMA EndCaseFacts ==
  ASSUME PlanInv, pc \in Loops, EndCase
  PROVE  \/ /\ order + 1 < Len(ConditionsOf(Part)) /\ order' = order + 1 /\ pc' = CaseStart(Part)
            /\ UNCHANGED <<target, part, trial>>
         \/ /\ trial + 1 < o.trials /\ order' = 0 /\ trial' = trial + 1 /\ pc' = TrialStart(Part)
            /\ UNCHANGED <<target, part>>
         \/ /\ part = 1 /\ Len(Parts) = 2 /\ order' = 0 /\ trial' = 0 /\ part' = 2
            /\ pc' = "warm_b" /\ Parts[2] = "takeover" /\ ~Live /\ UNCHANGED target
         \/ /\ trial + 1 = o.trials /\ target < o.targets /\ order' = 0 /\ trial' = 0 /\ part' = 1
            /\ target' = target + 1 /\ pc' = TargetStart
         \/ pc' = "counts" /\ UNCHANGED place
<1>1. /\ part = Len(Parts) \/ (part = 1 /\ Len(Parts) = 2 /\ Parts[2] = "takeover")
      /\ Len(Parts) \in 1..2 /\ Live => Len(Parts) = 1
  BY PartFacts DEF PlanInv
<1>2. Len(ConditionsOf(Part)) \in 1..3
  BY ConditionFacts
<1>3. o.trials \in Nat \ {0} /\ o.targets \in Nat \ {0}
  BY OptionFacts DEF PlanInv
<1>4. CASE order + 1 # Len(ConditionsOf(Part))
  BY <1>2, <1>4 DEF EndCase, PlanInv
<1>5. CASE order + 1 = Len(ConditionsOf(Part)) /\ trial + 1 # o.trials
  BY <1>3, <1>5 DEF EndCase, PlanInv, LastTrial
<1>6. CASE order + 1 = Len(ConditionsOf(Part)) /\ trial + 1 = o.trials /\ part # Len(Parts)
  BY <1>1, <1>6 DEF EndCase, PlanInv, LastTrial, PartStart
<1>7. CASE order + 1 = Len(ConditionsOf(Part)) /\ trial + 1 = o.trials /\ part = Len(Parts)
  BY <1>3, <1>7 DEF EndCase, PlanInv, LastTrial, place
<1> QED
  BY <1>4, <1>5, <1>6, <1>7

--------------------------------------------------------------------------------
(* Contexts and rows.                                                       *)

LEMMA PresentFacts ==
  ASSUME ctx \in [Owners -> BOOLEAN]
  PROVE  /\ Present \in SUBSET Owners
         /\ ctx.A /\ ctx.B <=> Present = Owners
         /\ ctx.A /\ ~ctx.B => Present = {"A"}
         /\ ~ctx.B => Present \union {"A"} = {"A"}
         /\ ctx.B => Present \union {"A"} = Owners
BY DEF Present, Owners

LEMMA CreateFacts ==
  ASSUME ctx \in [Owners -> BOOLEAN], revision \in Nat, NEW S \in SUBSET Owners, Create(S)
  PROVE  /\ ctx' \in [Owners -> BOOLEAN]
         /\ \A th \in Owners : ctx'[th] <=> ctx[th] \/ th \in S
         /\ revision' \in Nat /\ revision' >= revision
         /\ S \subseteq Present => revision' = revision
<1>1. IsFiniteSet(S \ Present)
  <2>1. IsFiniteSet({"A"}) /\ IsFiniteSet({"B"}) /\ Owners = {"A"} \union {"B"}
    BY FS_Singleton DEF Owners
  <2>2. IsFiniteSet(Owners)
    BY <2>1, FS_Union
  <2> QED
    BY <2>2, FS_Subset
<1>2. Cardinality(S \ Present) \in Nat
  BY <1>1, FS_CardinalityType
<1>3. S \subseteq Present => Cardinality(S \ Present) = 0
  <2>1. S \subseteq Present => S \ Present = {}
    OBVIOUS
  <2> QED
    BY <2>1, FS_EmptySet
<1>4. ctx' \in [Owners -> BOOLEAN]
  BY DEF Create
<1>5. \A th \in Owners : ctx'[th] <=> ctx[th] \/ th \in S
  BY DEF Create
<1> QED
  BY <1>2, <1>3, <1>4, <1>5 DEF Create

LEMMA CloseFacts ==
  ASSUME ctx \in [Owners -> BOOLEAN], NEW S \in SUBSET Owners, Close(S)
  PROVE  /\ ctx' \in [Owners -> BOOLEAN]
         /\ \A th \in Owners : ctx'[th] <=> ctx[th] /\ th \notin S
         /\ revision' = revision
BY DEF Close

LEMMA LaunchFacts ==
  ASSUME launches \in [Owners -> Nat], NEW a \in Nat, NEW b \in Nat, Launch(a, b)
  PROVE  /\ launches' \in [Owners -> Nat]
         /\ launches'.A = launches.A + a /\ launches'.B = launches.B + b
<1>1. launches.A \in Nat /\ launches.B \in Nat
  BY DEF Owners
<1>2. launches' = [A |-> launches.A + a, B |-> launches.B + b]
  BY DEF Launch
<1> QED
  BY <1>1, <1>2 DEF Owners

\* What a new row changes.
LEMMA AppendFacts ==
  ASSUME rows \in Seq(RowSet), NEW r \in RowSet, rows' = Append(rows, r)
  PROVE  /\ rows' \in Seq(RowSet)
         /\ DOMAIN rows' = DOMAIN rows \union {Len(rows) + 1}
         /\ Len(rows) + 1 \notin DOMAIN rows /\ Len(rows) \in Nat
         /\ \A i \in DOMAIN rows : i \in Nat /\ i < Len(rows) + 1 /\ rows'[i] = rows[i]
         /\ rows'[Len(rows) + 1] = r
OBVIOUS

LEMMA SamePlan ==
  ASSUME UNCHANGED <<o, part, trial, order>>
  PROVE  /\ Part' = Part /\ Parts' = Parts /\ condition' = condition
         /\ ConditionsOf(Part)' = ConditionsOf(Part)
         /\ Live' = Live /\ IsRm' = IsRm /\ IsRewind(o)' = IsRewind(o)
         /\ TargetStart' = TargetStart
<1>1. IsRm' = IsRm /\ IsRewind(o)' = IsRewind(o) /\ Live' = Live
  BY DEF IsRm, IsRewind, Live
<1>2. Parts' = Parts
  BY <1>1 DEF Parts
<1>3. Part' = Part
  BY <1>2 DEF Part
<1>4. ConditionsOf(Part)' = ConditionsOf(Part)
  BY <1>3 DEF ConditionsOf
<1>5. condition' = condition
  BY <1>4 DEF condition
<1>6. TargetStart' = TargetStart
  BY <1>1 DEF TargetStart, TrialStart, CaseStart
<1> QED
  BY <1>1, <1>2, <1>3, <1>4, <1>5, <1>6

\* Steps that keep the place in the plan and are still in, or out of, its loops.
LEMMA SamePlanInv ==
  ASSUME PlanInv, UNCHANGED <<o, place>>, pc' \in Endings \/ (pc \in Loops /\ pc' \in Loops),
         pc' \in {"set_b", "measure_a"} => Part = "standby",
         pc' \in {"prepare", "idle_b"} => Part = "takeover",
         pc' = "warm_b" => Part \in {"takeover", "live-handoff"},
         pc' \in {"recalibrate", "reference", "anchor"} => Part \in {"live-handoff", "preempt-hold"},
         pc' \in {"handoff", "post"} => Part # "standby"
  PROVE  PlanInv'
<1>1. UNCHANGED <<target, part, trial, order>>
  BY DEF place
<1>2. pc' \notin Session \union {"close_b", "calibrate"} /\ pc' # "rewind"
  BY DEF Loops, Endings, Session
<1>3. pc' \in Loops => pc \in Loops
  BY DEF Loops, Endings
<1> QED
  BY <1>1, <1>2, <1>3, SamePlan DEF PlanInv

--------------------------------------------------------------------------------
(* What a new row makes true, or leaves so.                                 *)

LEMMA MeasuredRow ==
  ASSUME IInv, NEW r \in RowSet, rows' = Append(rows, r),
         r.experiment \in PartNames, r.target = target, r.trial = trial, r.work = cal,
         Attended(r), Referred(r, Len(rows) + 1), \A i \in DOMAIN rows : Newer(r, rows[i])
  PROVE  /\ rows' \in Seq(RowSet)
         /\ \A i \in DOMAIN rows' : Attended(rows'[i]) /\ Referred(rows'[i], i) /\ Behind(rows'[i])
         /\ \A i, j \in DOMAIN rows' : SameWork(rows'[i], rows'[j])
         /\ \A i, j \in DOMAIN rows' : j < i => Newer(rows'[i], rows'[j])
<1>0. /\ rows' \in Seq(RowSet) /\ rows \in Seq(RowSet)
      /\ DOMAIN rows' = DOMAIN rows \union {Len(rows) + 1}
      /\ Len(rows) + 1 \notin DOMAIN rows /\ Len(rows) \in Nat
      /\ \A i \in DOMAIN rows : i \in Nat /\ i < Len(rows) + 1 /\ rows'[i] = rows[i]
      /\ rows'[Len(rows) + 1] = r
  BY AppendFacts DEF IInv, TypeInv
<1>1. target \in Nat /\ trial \in Nat
  BY OptionFacts DEF IInv, PlanInv
<1>2. Behind(r)
  BY <1>1 DEF Behind
<1>3. \A i \in DOMAIN rows' : Attended(rows'[i]) /\ Referred(rows'[i], i) /\ Behind(rows'[i])
  BY <1>0, <1>2 DEF IInv, PresentInv, ReferenceInv, WorkInv
<1>4. \A i \in DOMAIN rows : SameWork(rows[i], r) /\ SameWork(r, rows[i])
  <2> SUFFICES ASSUME NEW i \in DOMAIN rows PROVE SameWork(rows[i], r) /\ SameWork(r, rows[i])
    OBVIOUS
  <2>1. Behind(rows[i])
    BY DEF IInv, WorkInv
  <2>2. rows[i].experiment # "calibration" /\ rows[i].target = target /\ rows[i].trial = trial =>
          rows[i].work = cal
    BY <2>1 DEF Behind, Here
  <2>3. CASE rows[i].experiment # "calibration" /\ rows[i].target = target /\ rows[i].trial = trial
    BY <2>2, <2>3 DEF SameWork
  <2>4. CASE ~(rows[i].experiment # "calibration" /\ rows[i].target = target /\ rows[i].trial = trial)
    BY <2>4 DEF SameWork, PartNames
  <2> QED
    BY <2>3, <2>4
<1>5. SameWork(r, r)
  BY DEF SameWork
<1>6. \A i, j \in DOMAIN rows' : SameWork(rows'[i], rows'[j])
  BY <1>0, <1>4, <1>5 DEF IInv, WorkInv
<1>7. \A i, j \in DOMAIN rows' : j < i => Newer(rows'[i], rows'[j])
  <2> SUFFICES ASSUME NEW i \in DOMAIN rows', NEW j \in DOMAIN rows', j < i
               PROVE  Newer(rows'[i], rows'[j])
    OBVIOUS
  <2>1. j \in DOMAIN rows
    BY <1>0
  <2>2. CASE i \in DOMAIN rows
    BY <1>0, <2>1, <2>2 DEF IInv, NumberInv
  <2>3. CASE i = Len(rows) + 1
    BY <1>0, <2>1, <2>3
  <2> QED
    BY <1>0, <2>2, <2>3
<1> QED
  BY <1>0, <1>3, <1>6, <1>7

\* A calibration, while there is no row yet of what will be measured.
LEMMA CalibrationRow ==
  ASSUME IInv, Uncalibrated, UNCHANGED <<o, place>>,
         NEW r \in RowSet, rows' = Append(rows, r), r.experiment = "calibration",
         r.target = target, r.trial = trial, r.a_launch_seq = 0, r.b_launch_seq = 0, Attended(r),
         r.reference.work = r.work
  PROVE  /\ rows' \in Seq(RowSet)
         /\ \A i \in DOMAIN rows' : Attended(rows'[i]) /\ Referred(rows'[i], i)
         /\ WorkInv'
         /\ \A i, j \in DOMAIN rows' : j < i => Newer(rows'[i], rows'[j])
<1>0. /\ rows' \in Seq(RowSet) /\ rows \in Seq(RowSet)
      /\ DOMAIN rows' = DOMAIN rows \union {Len(rows) + 1}
      /\ Len(rows) + 1 \notin DOMAIN rows /\ Len(rows) \in Nat
      /\ \A i \in DOMAIN rows : i \in Nat /\ i < Len(rows) + 1 /\ rows'[i] = rows[i]
      /\ rows'[Len(rows) + 1] = r
  BY AppendFacts DEF IInv, TypeInv
<1>1. target \in Nat /\ trial \in Nat /\ target' = target /\ trial' = trial /\ Live' = Live
  BY OptionFacts, SamePlan DEF IInv, PlanInv, place
<1>2. Referred(r, Len(rows) + 1) /\ \A i \in DOMAIN rows : Newer(r, rows[i])
  BY DEF Referred, Newer
<1>3. \A i \in DOMAIN rows' : Attended(rows'[i]) /\ Referred(rows'[i], i)
  BY <1>0, <1>2 DEF IInv, PresentInv, ReferenceInv
<1>4. \A i \in DOMAIN rows' : ~Here(rows'[i])
  BY <1>0 DEF IInv, WorkInv, Here
<1>5. \A i \in DOMAIN rows' : Behind(rows[i])' /\ ~Here(rows[i])'
  <2> SUFFICES ASSUME NEW i \in DOMAIN rows' PROVE Behind(rows[i])' /\ ~Here(rows[i])'
    OBVIOUS
  <2>1. /\ rows'[i].target <= target
        /\ Live /\ rows'[i].target = target => rows'[i].trial <= trial
    BY <1>0, <1>1 DEF IInv, WorkInv, Behind
  <2> QED
    BY <1>1, <1>4, <2>1 DEF Behind, Here
<1>6. \A i, j \in DOMAIN rows' : SameWork(rows'[i], rows'[j])
  BY <1>0 DEF IInv, WorkInv, SameWork
<1>7. \A i, j \in DOMAIN rows' : j < i => Newer(rows'[i], rows'[j])
  <2> SUFFICES ASSUME NEW i \in DOMAIN rows', NEW j \in DOMAIN rows', j < i
               PROVE  Newer(rows'[i], rows'[j])
    OBVIOUS
  <2>1. j \in DOMAIN rows
    BY <1>0
  <2>2. CASE i \in DOMAIN rows
    BY <1>0, <2>1, <2>2 DEF IInv, NumberInv
  <2>3. CASE i = Len(rows) + 1
    BY <1>0, <1>2, <2>1, <2>3
  <2> QED
    BY <1>0, <2>2, <2>3
<1> QED
  BY <1>0, <1>3, <1>5, <1>6, <1>7 DEF WorkInv

\* No row, and the same place.
LEMMA NoRow ==
  ASSUME IInv, UNCHANGED <<o, place, rows, cal>>, Uncalibrated' => Uncalibrated \/ rows = <<>>
  PROVE  WorkInv' /\ \A i \in DOMAIN rows' : Attended(rows'[i]) /\ Referred(rows'[i], i)
<1>1. target' = target /\ trial' = trial /\ Live' = Live
  BY SamePlan DEF place
<1>2. \A i \in DOMAIN rows : Behind(rows[i])' /\ (~Here(rows[i]) => ~Here(rows[i])')
  BY <1>1 DEF IInv, WorkInv, Behind, Here
<1>3. \A i, j \in DOMAIN rows : SameWork(rows[i], rows[j])'
  BY DEF IInv, WorkInv, SameWork
<1>4. Uncalibrated' => \A i \in DOMAIN rows : ~Here(rows[i])
  BY DEF IInv, WorkInv
<1> QED
  BY <1>2, <1>3, <1>4 DEF IInv, WorkInv, PresentInv, ReferenceInv, Attended, Referred

\* More launches, and no row.
LEMMA MoreLaunches ==
  ASSUME IInv, UNCHANGED rows, launches' \in [Owners -> Nat],
         launches'.A >= launches.A, launches'.B >= launches.B, pc' # "post"
  PROVE  NumberInv'
<1>1. launches.A \in Nat /\ launches.B \in Nat /\ launches'.A \in Nat /\ launches'.B \in Nat
  BY DEF IInv, TypeInv, Owners
<1>2. \A i \in DOMAIN rows : rows[i].a_launch_seq \in Nat /\ rows[i].b_launch_seq \in Nat
  <2>1. rows \in Seq(RowSet)
    BY DEF IInv, TypeInv
  <2>2. \A i \in DOMAIN rows : rows[i] \in RowSet
    BY <2>1
  <2> QED
    BY <2>2 DEF RowSet
<1>3. \A i \in DOMAIN rows : Within(rows[i], launches')
  BY <1>1, <1>2 DEF IInv, NumberInv, Within
<1> QED
  BY <1>3 DEF IInv, NumberInv, Newer, Within

\* The totals concern the end only.
LEMMA SameCounts ==
  ASSUME IInv, UNCHANGED <<counts, run_status>>, pc \notin {"report", "ended"},
         pc' \notin Session \union {"close", "complete"}
  PROVE  CountsInv'
BY DEF IInv, CountsInv

--------------------------------------------------------------------------------
(* What the steps change.                                                   *)

LEMMA TypeFacts ==
  ASSUME TypeInv
  PROVE  /\ ctx \in [Owners -> BOOLEAN] /\ launches \in [Owners -> Nat]
         /\ launches.A \in Nat /\ launches.B \in Nat
         /\ revision \in Nat /\ cal \in Nat /\ reference \in [work : Nat, after : Nat]
         /\ s \in SampleSet /\ rows \in Seq(RowSet) /\ Len(rows) \in Nat
<1>1. /\ ctx \in [Owners -> BOOLEAN] /\ launches \in [Owners -> Nat]
      /\ revision \in Nat /\ cal \in Nat /\ reference \in [work : Nat, after : Nat]
      /\ s \in SampleSet /\ rows \in Seq(RowSet)
  BY DEF TypeInv
<1>2. launches.A \in Nat /\ launches.B \in Nat
  BY <1>1 DEF Owners
<1>3. Len(rows) \in Nat
  BY <1>1
<1> QED
  BY <1>1, <1>2, <1>3

\* Contexts, launches and the bridge's revision, and nothing else.
LEMMA SameTypes ==
  ASSUME TypeInv, UNCHANGED <<cal, reference, s, rows, counts, bound, run_status, outcome>>,
         ctx' \in [Owners -> BOOLEAN], launches' \in [Owners -> Nat],
         revision' \in Nat, revision' >= revision
  PROVE  TypeInv'
<1>1. bound' \in 0..revision'
  <2>1. bound \in 0..revision /\ revision \in Nat
    BY DEF TypeInv
  <2> QED
    BY <2>1
<1> QED
  BY <1>1 DEF TypeInv

LEMMA RowType ==
  ASSUME PlanInv, NEW e \in PartNames \union {"calibration"}, NEW c \in Conditions, NEW w \in Nat,
         NEW ref \in [work : Nat, after : Nat], NEW sample \in SampleSet,
         NEW status \in {"ok", "error"}
  PROVE  /\ Row(e, c, w, ref, sample) \in RowSet
         /\ [Row(e, c, w, ref, sample) EXCEPT !.status = "error"] \in RowSet
<1>1. target \in Nat /\ trial \in Nat /\ order \in Nat
  BY OptionFacts DEF PlanInv
<1>2. sample.present \in SUBSET Owners /\ sample.a_launch_seq \in Nat /\ sample.b_launch_seq \in Nat
  BY DEF SampleSet
<1> QED
  BY <1>1, <1>2 DEF Row, RowSet

\* WarmB finds B's context or makes it.
LEMMA WarmBFacts ==
  ASSUME TypeInv, WarmB
  PROVE  /\ ctx' \in [Owners -> BOOLEAN] /\ revision' \in Nat /\ revision' >= revision
         /\ (ctx'.A <=> ctx.A) /\ ctx'.B
         /\ launches' \in [Owners -> Nat]
         /\ launches'.A >= launches.A /\ launches'.B >= launches.B
<1>0. /\ ctx \in [Owners -> BOOLEAN] /\ revision \in Nat /\ launches \in [Owners -> Nat]
      /\ launches.A \in Nat /\ launches.B \in Nat
  BY TypeFacts
<1>1. CASE ctx.B
  BY <1>0, <1>1 DEF WarmB
<1>2. CASE ~ctx.B
  <2>1. Create({"B"}) /\ Launch(0, Warmup)
    BY <1>2 DEF WarmB
  <2>2. /\ ctx' \in [Owners -> BOOLEAN] /\ revision' \in Nat /\ revision' >= revision
        /\ \A th \in Owners : ctx'[th] <=> ctx[th] \/ th \in {"B"}
    BY <1>0, <2>1, CreateFacts DEF Owners
  <2>3. /\ launches' \in [Owners -> Nat]
        /\ launches'.A = launches.A + 0 /\ launches'.B = launches.B + Warmup
    BY <1>0, <2>1, LaunchFacts, WarmupAssumption
  <2>4. (ctx'.A <=> ctx.A) /\ ctx'.B
    BY <2>2 DEF Owners
  <2>5. launches'.A >= launches.A /\ launches'.B >= launches.B
    BY <1>0, <2>3, WarmupAssumption
  <2> QED
    BY <2>2, <2>3, <2>4, <2>5
<1> QED
  BY <1>1, <1>2

LEMMA SetBFacts ==
  ASSUME TypeInv, SetB
  PROVE  /\ ctx' \in [Owners -> BOOLEAN] /\ revision' \in Nat /\ revision' >= revision
         /\ (ctx'.A <=> ctx.A) /\ (ctx'.B <=> condition = "a_with_idle_b")
         /\ launches' \in [Owners -> Nat]
         /\ launches'.A >= launches.A /\ launches'.B >= launches.B
<1>0. /\ ctx \in [Owners -> BOOLEAN] /\ revision \in Nat /\ launches \in [Owners -> Nat]
      /\ launches.A \in Nat /\ launches.B \in Nat
  BY TypeFacts
<1>1. CASE condition = "a_with_idle_b"
  <2>1. WarmB
    BY <1>1 DEF SetB
  <2> QED
    BY <1>1, <2>1, WarmBFacts
<1>2. CASE condition # "a_with_idle_b"
  <2>1. Close({"B"}) /\ launches' = launches
    BY <1>2 DEF SetB
  <2>2. /\ ctx' \in [Owners -> BOOLEAN] /\ revision' = revision
        /\ \A th \in Owners : ctx'[th] <=> ctx[th] /\ th \notin {"B"}
    BY <1>0, <2>1, CloseFacts DEF Owners
  <2>3. (ctx'.A <=> ctx.A) /\ ~ctx'.B
    BY <2>2 DEF Owners
  <2> QED
    BY <1>0, <1>2, <2>1, <2>2, <2>3
<1> QED
  BY <1>1, <1>2

\* A calibration is of new work.
LEMMA CalibrationFacts ==
  ASSUME TypeInv, Calibration
  PROVE  /\ cal' = cal + 1 /\ cal' \in Nat /\ launches' \in [Owners -> Nat]
         /\ launches'.A >= launches.A /\ launches'.B >= launches.B
<1>1. PICK more \in 0..MaxRefinements : Launch(Warmup + 2 + more, 0)
  BY DEF Calibration
<1>2. more \in Nat /\ Warmup + 2 + more \in Nat
  BY WarmupAssumption, MaxRefinementsAssumption
<1>3. /\ launches' \in [Owners -> Nat]
      /\ launches'.A = launches.A + (Warmup + 2 + more) /\ launches'.B = launches.B + 0
  BY <1>1, <1>2, TypeFacts, LaunchFacts
<1> QED
  BY <1>2, <1>3, TypeFacts DEF Calibration

\* Launches that come now are newer than those of all rows.
LEMMA NewestLaunch ==
  ASSUME IInv, NEW r, r.a_launch_seq \in Nat, r.b_launch_seq \in Nat,
         r.a_launch_seq = 0 \/ r.a_launch_seq > launches.A,
         r.b_launch_seq = 0 \/ r.b_launch_seq > launches.B
  PROVE  \A i \in DOMAIN rows : Newer(r, rows[i])
<1> SUFFICES ASSUME NEW i \in DOMAIN rows PROVE Newer(r, rows[i])
  OBVIOUS
<1>1. launches.A \in Nat /\ launches.B \in Nat
  BY TypeFacts DEF IInv
<1>2. rows[i] \in RowSet
  BY TypeFacts DEF IInv
<1>3. rows[i].a_launch_seq \in Nat /\ rows[i].b_launch_seq \in Nat
  BY <1>2 DEF RowSet
<1>4. rows[i].a_launch_seq <= launches.A /\ rows[i].b_launch_seq <= launches.B
  BY DEF IInv, NumberInv, Within
<1> QED
  BY <1>1, <1>3, <1>4 DEF Newer

LEMMA StillWithin ==
  ASSUME IInv, launches' \in [Owners -> Nat], launches'.A >= launches.A, launches'.B >= launches.B
  PROVE  \A i \in DOMAIN rows : Within(rows[i], launches')
<1> SUFFICES ASSUME NEW i \in DOMAIN rows PROVE Within(rows[i], launches')
  OBVIOUS
<1>1. launches.A \in Nat /\ launches.B \in Nat /\ launches'.A \in Nat /\ launches'.B \in Nat
  BY TypeFacts DEF IInv, Owners
<1>2. rows[i] \in RowSet
  BY TypeFacts DEF IInv
<1>3. rows[i].a_launch_seq \in Nat /\ rows[i].b_launch_seq \in Nat
  BY <1>2 DEF RowSet
<1>4. rows[i].a_launch_seq <= launches.A /\ rows[i].b_launch_seq <= launches.B
  BY DEF IInv, NumberInv, Within
<1> QED
  BY <1>1, <1>3, <1>4 DEF Within

--------------------------------------------------------------------------------
(* On to the next case.                                                     *)

LEMMA StartFacts ==
  ASSUME o \in Settings
  PROVE  /\ ~IsRm => /\ Len(Parts) \in 1..2
                     /\ Parts[1] \in {"standby", "takeover", "live-handoff"}
                     /\ Live <=> Parts[1] = "live-handoff"
         /\ IsRm /\ ~IsRewind(o) /\ ~o.rm_probe => Len(Parts) = 1 /\ Parts[1] = "preempt-hold"
<1>1. o.mode \in Modes
  BY OptionFacts
<1>2. CASE o.mode = "all"
  <2>1. Parts = <<"standby", "takeover">>
    BY <1>2, PartsFacts
  <2>2. Len(Parts) = 2 /\ Parts[1] = "standby"
    BY <2>1
  <2> QED
    BY <1>2, <2>2 DEF Live, IsRm
<1>3. CASE o.mode \in {"standby", "takeover", "live-handoff"}
  <2>1. Parts = <<o.mode>>
    BY <1>3, PartsFacts
  <2>2. Len(Parts) = 1 /\ Parts[1] = o.mode
    BY <2>1
  <2> QED
    BY <1>3, <2>2 DEF Live, IsRm
<1>4. CASE o.mode = "preempt-hold"
  <2>1. IsRm
    BY <1>4 DEF IsRm
  <2>2. ~IsRewind(o) /\ ~o.rm_probe => Parts = <<"preempt-hold">>
    BY <2>1, PartsFacts
  <2>3. ~IsRewind(o) /\ ~o.rm_probe => Len(Parts) = 1 /\ Parts[1] = "preempt-hold"
    BY <2>2
  <2> QED
    BY <2>1, <2>3
<1> QED
  BY <1>1, <1>2, <1>3, <1>4 DEF Modes

\* The first place of a part.
LEMMA StartPlaces ==
  ASSUME NEW p \in PartNames
  PROVE  /\ CaseStart(p) \in {"set_b", "prepare", "reference"}
         /\ PartStart(p) \in {"set_b", "warm_b", "recalibrate"}
         /\ CaseStart(p) = "set_b" <=> p = "standby"
         /\ CaseStart(p) = "prepare" <=> p = "takeover"
         /\ CaseStart(p) = "reference" <=> p \in {"live-handoff", "preempt-hold"}
         /\ TrialStart(p) = IF p \in {"live-handoff", "preempt-hold"} THEN "recalibrate"
                            ELSE CaseStart(p)
         /\ PartStart(p) = "set_b" <=> p = "standby"
         /\ PartStart(p) = "warm_b" <=> p \in {"takeover", "live-handoff"}
         /\ PartStart(p) = "recalibrate" <=> p = "preempt-hold"
BY DEF PartNames, CaseStart, TrialStart, PartStart

LEMMA TargetStartFacts ==
  TargetStart = IF IsRm THEN "recalibrate" ELSE "close_b"
BY DEF TargetStart, TrialStart

\* The places that follow, each with what it needs.
LEMMA EndCasePlaces ==
  ASSUME PlanInv, pc \in Loops, EndCase
  PROVE  /\ pc' \in {"set_b", "prepare", "reference", "recalibrate", "warm_b", "close_b", "counts"}
         /\ pc' = "set_b" => Part = "standby"
         /\ pc' = "prepare" => Part = "takeover"
         /\ pc' \in {"reference", "recalibrate"} => Part \in {"live-handoff", "preempt-hold"}
         /\ pc' = "warm_b" => ~IsRm
         /\ pc' = "close_b" => ~IsRm
<1>1. Part \in PartNames /\ (IsRm <=> Part = "preempt-hold")
      /\ (Live <=> Part \in {"live-handoff", "preempt-hold"})
  BY PartFacts DEF PlanInv
<1>2. CASE pc' = CaseStart(Part)
  BY <1>1, <1>2, StartPlaces
<1>3. CASE pc' = TrialStart(Part)
  BY <1>1, <1>3, StartPlaces
<1>4. CASE pc' = "warm_b" /\ ~Live
  BY <1>4 DEF Live, IsRm
<1>5. CASE pc' = TargetStart
  BY <1>1, <1>5, TargetStartFacts
<1>6. CASE pc' = "counts"
  BY <1>6
<1> QED
  BY <1>2, <1>3, <1>4, <1>5, <1>6, EndCaseFacts

LEMMA EndCasePlan ==
  ASSUME PlanInv, pc \in Loops, EndCase, o' = o
  PROVE  PlanInv'
<1>0. /\ Part \in PartNames /\ (IsRm <=> Part = "preempt-hold") /\ IsRm' = IsRm
      /\ IsRewind(o)' = IsRewind(o) /\ Parts' = Parts
      /\ o.trials \in Nat \ {0} /\ o.targets \in Nat \ {0}
  BY PartFacts, OptionFacts DEF PlanInv, IsRm, IsRewind, Parts
<1>1. CASE /\ order + 1 < Len(ConditionsOf(Part)) /\ order' = order + 1 /\ pc' = CaseStart(Part)
           /\ UNCHANGED <<target, part, trial>>
  <2>1. Part' = Part /\ ConditionsOf(Part)' = ConditionsOf(Part)
    BY <1>0, <1>1 DEF Part, ConditionsOf
  <2>2. Len(ConditionsOf(Part)) \in 1..3
    BY ConditionFacts
  <2>3. pc' \in {"set_b", "prepare", "reference"}
    BY <1>0, <1>1, StartPlaces
  <2>4. order' \in 0..2 /\ order' < Len(ConditionsOf(Part))
    <3>1. order \in 0..2
      BY DEF PlanInv
    <3>2. PICK n \in 1..3 : n = Len(ConditionsOf(Part))
      BY <2>2
    <3>3. order + 1 < n /\ order' = order + 1
      BY <1>1, <3>2
    <3>4. order' \in 0..2 /\ order' < n
      BY <3>1, <3>3
    <3> QED
      BY <3>2, <3>4
  <2>5. pc' \in {"set_b", "prepare"} => Part = IF pc' = "set_b" THEN "standby" ELSE "takeover"
    BY <1>0, <1>1, StartPlaces
  <2>6. pc' = "reference" => Part \in {"live-handoff", "preempt-hold"}
    BY <1>0, <1>1, StartPlaces
  <2> QED
    BY <1>0, <1>1, <2>1, <2>3, <2>4, <2>5, <2>6 DEF PlanInv, Loops, Session, Endings
<1>2. CASE /\ trial + 1 < o.trials /\ order' = 0 /\ trial' = trial + 1 /\ pc' = TrialStart(Part)
           /\ UNCHANGED <<target, part>>
  <2>1. Part' = Part /\ ConditionsOf(Part)' = ConditionsOf(Part)
    BY <1>0, <1>2 DEF Part, ConditionsOf
  <2>2. Len(ConditionsOf(Part)) \in 1..3
    BY ConditionFacts
  <2>3. pc' \in {"set_b", "prepare", "recalibrate"}
    BY <1>0, <1>2, StartPlaces DEF PartNames
  <2>4. trial' \in 0..(o.trials - 1)
    BY <1>0, <1>2 DEF PlanInv
  <2>5. pc' \in {"set_b", "prepare"} => Part = IF pc' = "set_b" THEN "standby" ELSE "takeover"
    BY <1>0, <1>2, StartPlaces DEF PartNames
  <2>6. pc' = "recalibrate" => Part \in {"live-handoff", "preempt-hold"}
    BY <1>0, <1>2, StartPlaces DEF PartNames
  <2> QED
    BY <1>0, <1>2, <2>1, <2>2, <2>3, <2>4, <2>5, <2>6 DEF PlanInv, Loops, Session, Endings
<1>3. CASE /\ part = 1 /\ Len(Parts) = 2 /\ order' = 0 /\ trial' = 0 /\ part' = 2
           /\ pc' = "warm_b" /\ Parts[2] = "takeover" /\ ~Live /\ UNCHANGED target
  <2>1. Part' = "takeover" /\ ~IsRm
    BY <1>0, <1>3 DEF Part, Live, IsRm
  <2>2. Len(ConditionsOf(Part)') \in 1..3
    <3>1. Len(ConditionsOf("takeover")) \in 1..3
      BY ConditionsFacts DEF PartNames, PlanInv
    <3>2. ConditionsOf("takeover")' = ConditionsOf("takeover")
      BY <1>0 DEF ConditionsOf
    <3> QED
      BY <2>1, <3>1, <3>2
  <2>3. /\ o' \in Settings /\ target' \in 1..(o').targets /\ part' \in 1..2 /\ order' \in 0..2
        /\ trial' \in 0..((o').trials - 1) /\ part' \in 1..Len(Parts')
        /\ order' < Len(ConditionsOf(Part)') /\ ~IsRm'
    <3>1. o \in Settings /\ target \in 1..o.targets
      BY DEF PlanInv
    <3>2. order' < Len(ConditionsOf(Part)')
      <4>1. PICK n \in 1..3 : n = Len(ConditionsOf(Part)')
        BY <2>2
      <4>2. order' < n
        BY <1>3
      <4> QED
        BY <4>1, <4>2
    <3>3. part' \in 1..Len(Parts')
      BY <1>0, <1>3
    <3>4. trial' \in 0..((o').trials - 1)
      BY <1>0, <1>3
    <3> QED
      BY <1>0, <1>3, <2>1, <3>1, <3>2, <3>3, <3>4
  <2> QED
    BY <1>3, <2>1, <2>3 DEF PlanInv, Loops, Session, Endings
<1>4. CASE /\ trial + 1 = o.trials /\ target < o.targets /\ order' = 0 /\ trial' = 0 /\ part' = 1
           /\ target' = target + 1 /\ pc' = TargetStart
  <2>1. target' \in 1..o.targets /\ trial' \in 0..(o.trials - 1)
    BY <1>0, <1>4 DEF PlanInv
  <2>2. CASE ~IsRm
    BY <1>0, <1>4, <2>1, <2>2, TargetStartFacts DEF PlanInv, Loops, Session, Endings
  <2>3. CASE IsRm
    <3>1. ~IsRewind(o) /\ ~o.rm_probe
      BY <2>3 DEF PlanInv
    <3>2. Len(Parts) = 1 /\ Parts[1] = "preempt-hold"
      BY <2>3, <3>1, StartFacts DEF PlanInv
    <3>3. Part' = "preempt-hold" /\ part' \in 1..Len(Parts)
      BY <1>0, <1>4, <3>2 DEF Part
    <3>4. Len(ConditionsOf(Part)') \in 1..3
      <4>1. Len(ConditionsOf("preempt-hold")) \in 1..3
        BY ConditionsFacts DEF PartNames, PlanInv
      <4>2. ConditionsOf("preempt-hold")' = ConditionsOf("preempt-hold")
        BY <1>0 DEF ConditionsOf
      <4> QED
        BY <3>3, <4>1, <4>2
    <3>5. pc' = "recalibrate"
      BY <1>4, <2>3, TargetStartFacts
    <3>6. /\ o' \in Settings /\ target' \in 1..(o').targets /\ part' \in 1..2 /\ order' \in 0..2
          /\ trial' \in 0..((o').trials - 1) /\ part' \in 1..Len(Parts')
          /\ order' < Len(ConditionsOf(Part)') /\ ~IsRewind(o)' /\ ~(o').rm_probe
      <4>1. o \in Settings
        BY DEF PlanInv
      <4>2. order' < Len(ConditionsOf(Part)')
        <5>1. PICK n \in 1..3 : n = Len(ConditionsOf(Part)')
          BY <3>4
        <5>2. order' < n
          BY <1>4
        <5> QED
          BY <5>1, <5>2
      <4>3. part' \in 1..2 /\ order' \in 0..2
        BY <1>4
      <4>4. (o').rm_probe = o.rm_probe /\ (o').targets = o.targets /\ (o').trials = o.trials
        OBVIOUS
      <4> QED
        BY <1>0, <2>1, <3>1, <3>3, <4>1, <4>2, <4>3, <4>4
    <3> QED
      BY <3>3, <3>5, <3>6 DEF PlanInv, Loops, Session, Endings
  <2> QED
    BY <2>2, <2>3
<1>5. CASE pc' = "counts" /\ UNCHANGED place
  BY <1>5, SamePlanInv DEF Endings
<1> QED
  BY <1>1, <1>2, <1>3, <1>4, <1>5, EndCaseFacts

\* The rows of a case that has ended lie behind what comes next.
LEMMA EndCaseRows ==
  ASSUME PlanInv, pc \in Loops, EndCase, UNCHANGED <<o, cal>>, rows' \in Seq(RowSet),
         \A i \in DOMAIN rows' : Behind(rows'[i]),
         \A i, j \in DOMAIN rows' : SameWork(rows'[i], rows'[j])
  PROVE  WorkInv'
<1>0. /\ Live' = Live /\ (IsRm => Live) /\ IsRm' = IsRm
      /\ target \in Nat /\ trial \in Nat
      /\ Part \in PartNames /\ (Live <=> Part \in {"live-handoff", "preempt-hold"})
  BY PartFacts, OptionFacts DEF PlanInv, Live, IsRm
<1>1. \A i \in DOMAIN rows' : rows'[i].target \in Nat /\ rows'[i].trial \in Nat
  <2>1. \A i \in DOMAIN rows' : rows'[i] \in RowSet
    OBVIOUS
  <2> QED
    BY <2>1 DEF RowSet
<1>2. \A i, j \in DOMAIN rows' : SameWork(rows[i], rows[j])'
  BY DEF SameWork
<1>3. ASSUME NEW i \in DOMAIN rows' PROVE Behind(rows[i])' /\ (Uncalibrated' => ~Here(rows[i])')
  <2> DEFINE r == rows'[i]
  <2>0. r.target \in Nat /\ r.trial \in Nat /\ r = rows'[i]
    BY <1>1
  <2>1. /\ r.target <= target /\ (Live /\ r.target = target => r.trial <= trial)
        /\ Here(r) => r.work = cal
    BY DEF Behind
  <2> HIDE DEF r
  <2>2. CASE UNCHANGED <<target, trial>> /\ ~Uncalibrated'
    BY <1>0, <2>0, <2>1, <2>2 DEF Behind, Here
  <2>3. CASE trial' = trial + 1 /\ target' = target /\ Live
    BY <1>0, <2>0, <2>1, <2>3 DEF Behind, Here
  <2>4. CASE target' = target /\ ~Live /\ ~Uncalibrated'
    BY <1>0, <2>0, <2>1, <2>4 DEF Behind, Here
  <2>5. CASE target' = target + 1
    BY <1>0, <2>0, <2>1, <2>5 DEF Behind, Here
  <2>6. CASE pc' = CaseStart(Part) /\ UNCHANGED <<target, trial>>
    <3>1. pc' \in {"set_b", "prepare", "reference"}
      BY <1>0, <2>6, StartPlaces
    <3> QED
      BY <2>2, <2>6, <3>1 DEF Uncalibrated
  <2>7. CASE pc' = TrialStart(Part) /\ trial' = trial + 1 /\ target' = target
    <3>1. ~Live => pc' \in {"set_b", "prepare", "reference"}
      BY <1>0, <2>7, StartPlaces
    <3> QED
      BY <1>0, <2>3, <2>4, <2>7, <3>1 DEF Uncalibrated
  <2>8. CASE pc' = "warm_b" /\ ~Live /\ target' = target
    BY <1>0, <2>4, <2>8 DEF Uncalibrated
  <2>9. CASE pc' = "counts" /\ UNCHANGED place
    BY <2>2, <2>9 DEF Uncalibrated, place
  <2> QED
    BY <2>5, <2>6, <2>7, <2>8, <2>9, EndCaseFacts
<1> QED
  BY <1>2, <1>3 DEF WorkInv

--------------------------------------------------------------------------------
(* Each step keeps the invariant: targets, standby and preparations.        *)

LEMMA CloseBKeeps == ASSUME IInv, CloseB PROVE IInv'
<1>1. /\ pc = "close_b"
      /\ pc' = "calibrate"
      /\ UNCHANGED <<o, place, launches, cal, reference, s, rows, counts, run_status, bound, outcome>>
  BY DEF CloseB, place, work, files, bridge, ending
<1>2. PlanInv /\ TypeInv /\ CtxInv /\ UNCHANGED <<o, target, part, trial, order>>
  BY <1>1 DEF IInv, place
<1>3. /\ ctx \in [Owners -> BOOLEAN] /\ launches \in [Owners -> Nat] /\ revision \in Nat
      /\ launches.A \in Nat /\ launches.B \in Nat
  BY <1>2, TypeFacts
<1>4. /\ ctx' \in [Owners -> BOOLEAN] /\ revision' = revision
      /\ \A th \in Owners : ctx'[th] <=> ctx[th] /\ th \notin {"B"}
  BY <1>1, <1>2, <1>3, CloseFacts DEF CloseB, Owners
<1>5. PlanInv'
  BY <1>1, <1>2, <1>3, <1>4, SamePlan DEF PlanInv, Loops, Session, Endings
<1>6. TypeInv'
  BY <1>1, <1>2, <1>3, <1>4, SameTypes
<1>7. CtxInv'
  BY <1>1, <1>2, <1>3, <1>4, SamePlan DEF CtxInv, Owners, Loops
<1>8. PresentInv'
  BY <1>1, <1>2, NoRow DEF PresentInv, Uncalibrated, Loops
<1>9. ReferenceInv'
  BY <1>1, <1>2, SamePlan DEF IInv, ReferenceInv, Referred, Loops
<1>10. WorkInv'
  BY <1>1, <1>2, NoRow, SamePlan DEF Uncalibrated, PlanInv
<1>11. NumberInv'
  BY <1>1, <1>2, <1>3, <1>4, MoreLaunches
<1>12. CountsInv'
  BY <1>1, <1>2, SameCounts DEF Session
<1> QED
  BY <1>5, <1>6, <1>7, <1>8, <1>9, <1>10, <1>11, <1>12 DEF IInv

LEMMA SetBKeeps == ASSUME IInv, SetB PROVE IInv'
<1>1. /\ pc = "set_b" /\ pc \in Loops
      /\ pc' = "measure_a"
      /\ UNCHANGED <<o, place, cal, reference, s, rows, counts, run_status, bound, outcome>>
  BY DEF SetB, Loops, place, work, files, bridge, ending
<1>2. PlanInv /\ TypeInv /\ CtxInv /\ UNCHANGED <<o, target, part, trial, order>>
  BY <1>1 DEF IInv, place
<1>3. /\ ctx \in [Owners -> BOOLEAN] /\ launches \in [Owners -> Nat] /\ revision \in Nat
      /\ launches.A \in Nat /\ launches.B \in Nat
  BY <1>2, TypeFacts
<1>4. /\ ctx' \in [Owners -> BOOLEAN] /\ revision' \in Nat /\ revision' >= revision
      /\ (ctx'.A <=> ctx.A) /\ (ctx'.B <=> condition = "a_with_idle_b")
      /\ launches' \in [Owners -> Nat]
      /\ launches'.A >= launches.A /\ launches'.B >= launches.B
  BY <1>1, <1>2, <1>3, SetBFacts
<1>5. PlanInv'
  BY <1>1, <1>2, SamePlanInv, PartFacts DEF Loops, Endings, PlanInv, PartNames
<1>6. TypeInv'
  BY <1>1, <1>2, <1>3, <1>4, SameTypes
<1>7. CtxInv'
  BY <1>1, <1>2, <1>3, <1>4, SamePlan DEF CtxInv, Owners, Loops
<1>8. PresentInv'
  BY <1>1, <1>2, NoRow DEF PresentInv, Uncalibrated, Loops
<1>9. ReferenceInv'
  BY <1>1, <1>2, SamePlan DEF IInv, ReferenceInv, Referred, Loops
<1>10. WorkInv'
  BY <1>1, <1>2, NoRow, SamePlan DEF Uncalibrated, PlanInv
<1>11. NumberInv'
  BY <1>1, <1>2, <1>3, <1>4, MoreLaunches
<1>12. CountsInv'
  BY <1>1, <1>2, SameCounts DEF Session
<1> QED
  BY <1>5, <1>6, <1>7, <1>8, <1>9, <1>10, <1>11, <1>12 DEF IInv

LEMMA PrepareKeeps == ASSUME IInv, Prepare PROVE IInv'
<1>1. /\ pc = "prepare" /\ pc \in Loops
      /\ pc' = "idle_b"
      /\ UNCHANGED <<o, place, cal, reference, s, rows, counts, run_status, bound, outcome>>
  BY DEF Prepare, Loops, place, work, files, bridge, ending
<1>2. PlanInv /\ TypeInv /\ CtxInv /\ UNCHANGED <<o, target, part, trial, order>>
  BY <1>1 DEF IInv, place
<1>3. /\ ctx \in [Owners -> BOOLEAN] /\ launches \in [Owners -> Nat] /\ revision \in Nat
      /\ launches.A \in Nat /\ launches.B \in Nat
  BY <1>2, TypeFacts
<1>4. /\ ctx' \in [Owners -> BOOLEAN] /\ revision' \in Nat /\ revision' >= revision
      /\ \A th \in Owners : ctx'[th] <=> ctx[th] \/ th \in {"A"}
  BY <1>1, <1>2, <1>3, CreateFacts DEF Prepare, Owners
<1>5. /\ launches' \in [Owners -> Nat]
      /\ launches'.A >= launches.A /\ launches'.B >= launches.B
  <2>1. Launch(Warmup, 0) /\ Warmup \in Nat /\ 0 \in Nat
    BY WarmupAssumption DEF Prepare, AnchorLaunches
  <2>2. launches' \in [Owners -> Nat]
        /\ launches'.A = launches.A + (Warmup) /\ launches'.B = launches.B + (0)
    BY <1>3, <2>1, LaunchFacts
  <2> QED
    BY <1>3, <2>1, <2>2
<1>6. PlanInv'
  BY <1>1, <1>2, SamePlanInv, PartFacts DEF Loops, Endings, PlanInv, PartNames
<1>7. TypeInv'
  BY <1>1, <1>2, <1>3, <1>4, <1>5, SameTypes
<1>8. CtxInv'
  BY <1>1, <1>2, <1>3, <1>4, <1>5, SamePlan DEF CtxInv, Owners, Loops
<1>9. PresentInv'
  BY <1>1, <1>2, NoRow DEF PresentInv, Uncalibrated, Loops
<1>10. ReferenceInv'
  BY <1>1, <1>2, SamePlan DEF IInv, ReferenceInv, Referred, Loops
<1>11. WorkInv'
  BY <1>1, <1>2, NoRow, SamePlan DEF Uncalibrated, PlanInv
<1>12. NumberInv'
  BY <1>1, <1>2, <1>3, <1>4, <1>5, MoreLaunches
<1>13. CountsInv'
  BY <1>1, <1>2, SameCounts DEF Session
<1> QED
  BY <1>6, <1>7, <1>8, <1>9, <1>10, <1>11, <1>12, <1>13 DEF IInv

LEMMA AnchorKeeps == ASSUME IInv, Anchor PROVE IInv'
<1>1. /\ pc = "anchor" /\ pc \in Loops /\ ctx.B
      /\ pc' = "handoff"
      /\ UNCHANGED <<o, place, ctx, revision, cal, reference, s, rows, counts, run_status, bound, outcome>>
  BY DEF Anchor, Loops, place, work, files, bridge, ending
<1>2. PlanInv /\ TypeInv /\ CtxInv /\ UNCHANGED <<o, target, part, trial, order>>
  BY <1>1 DEF IInv, place
<1>3. /\ ctx \in [Owners -> BOOLEAN] /\ launches \in [Owners -> Nat] /\ revision \in Nat
      /\ launches.A \in Nat /\ launches.B \in Nat
  BY <1>2, TypeFacts
<1>4. /\ launches' \in [Owners -> Nat]
      /\ launches'.A >= launches.A /\ launches'.B >= launches.B
  <2>1. Launch(0, AnchorLaunches) /\ 0 \in Nat /\ AnchorLaunches \in Nat
    BY WarmupAssumption DEF Anchor, AnchorLaunches
  <2>2. launches' \in [Owners -> Nat]
        /\ launches'.A = launches.A + (0) /\ launches'.B = launches.B + (AnchorLaunches)
    BY <1>3, <2>1, LaunchFacts
  <2> QED
    BY <1>3, <2>1, <2>2
<1>5. PlanInv'
  BY <1>1, <1>2, SamePlanInv, PartFacts DEF Loops, Endings, PlanInv, PartNames
<1>6. TypeInv'
  BY <1>1, <1>2, <1>3, <1>4, SameTypes
<1>7. CtxInv'
  BY <1>1, <1>2, <1>3, <1>4, SamePlan DEF CtxInv, Owners, Loops
<1>8. PresentInv'
  BY <1>1, <1>2, NoRow DEF PresentInv, Uncalibrated, Loops
<1>9. ReferenceInv'
  BY <1>1, <1>2, SamePlan DEF IInv, ReferenceInv, Referred, Loops
<1>10. WorkInv'
  BY <1>1, <1>2, NoRow, SamePlan DEF Uncalibrated, PlanInv
<1>11. NumberInv'
  BY <1>1, <1>2, <1>3, <1>4, MoreLaunches
<1>12. CountsInv'
  BY <1>1, <1>2, SameCounts DEF Session
<1> QED
  BY <1>5, <1>6, <1>7, <1>8, <1>9, <1>10, <1>11, <1>12 DEF IInv

LEMMA PrepareBKeeps == ASSUME IInv, PrepareB PROVE IInv'
<1>1. /\ pc = "warm_b" /\ pc \in Loops
      /\ pc' = TrialStart(Part)
      /\ UNCHANGED <<o, place, cal, reference, s, rows, counts, run_status, bound, outcome>>
  BY DEF PrepareB, Loops, place, work, files, bridge, ending
<1>2. PlanInv /\ TypeInv /\ CtxInv /\ UNCHANGED <<o, target, part, trial, order>>
  BY <1>1 DEF IInv, place
<1>3. /\ ctx \in [Owners -> BOOLEAN] /\ launches \in [Owners -> Nat] /\ revision \in Nat
      /\ launches.A \in Nat /\ launches.B \in Nat
  BY <1>2, TypeFacts
<1>4. /\ Part \in {"takeover", "live-handoff"} /\ ~IsRm
      /\ Part = "takeover" => pc' = "prepare"
      /\ Part = "live-handoff" => pc' = "recalibrate" /\ Live
  <2>1. Part \in {"takeover", "live-handoff"} /\ Part \in PartNames
        /\ (IsRm <=> Part = "preempt-hold") /\ (Live <=> Part \in {"live-handoff", "preempt-hold"})
    BY <1>1, <1>2, PartFacts DEF PlanInv, Loops
  <2> QED
    BY <1>1, <2>1, StartPlaces
<1>5. /\ ctx' \in [Owners -> BOOLEAN] /\ revision' \in Nat /\ revision' >= revision
      /\ (ctx'.A <=> ctx.A) /\ ctx'.B
      /\ launches' \in [Owners -> Nat]
      /\ launches'.A >= launches.A /\ launches'.B >= launches.B
  BY <1>1, <1>2, <1>3, WarmBFacts DEF PrepareB
<1>6. PlanInv'
  BY <1>1, <1>2, <1>3, <1>4, <1>5, SamePlanInv DEF Loops, Endings
<1>7. TypeInv'
  BY <1>1, <1>2, <1>3, <1>4, <1>5, SameTypes
<1>8. CtxInv'
  BY <1>1, <1>2, <1>3, <1>4, <1>5, SamePlan DEF CtxInv, Owners, Loops
<1>9. PresentInv'
  BY <1>1, <1>2, <1>3, <1>4, <1>5, NoRow DEF PresentInv, Uncalibrated
<1>10. ReferenceInv'
  BY <1>1, <1>2, <1>3, <1>4, <1>5, SamePlan DEF IInv, ReferenceInv, Referred, Loops
<1>11. WorkInv'
  BY <1>1, <1>2, <1>3, <1>4, <1>5, NoRow DEF Uncalibrated
<1>12. NumberInv'
  BY <1>1, <1>2, <1>3, <1>4, <1>5, MoreLaunches
<1>13. CountsInv'
  BY <1>1, <1>2, <1>3, <1>4, <1>5, SameCounts DEF Session
<1> QED
  BY <1>6, <1>7, <1>8, <1>9, <1>10, <1>11, <1>12, <1>13 DEF IInv

LEMMA ReferenceKeeps == ASSUME IInv, Reference PROVE IInv'
<1>1. /\ pc = "reference" /\ pc \in Loops
      /\ pc' = "anchor" /\ reference' = [work |-> cal, after |-> Len(rows)]
      /\ UNCHANGED <<o, place, cal, s, rows, counts, run_status, bound, outcome>>
  BY DEF Reference, Loops, place, work, files, bridge, ending
<1>2. PlanInv /\ TypeInv /\ CtxInv /\ UNCHANGED <<o, target, part, trial, order>>
  BY <1>1 DEF IInv, place
<1>3. /\ ctx \in [Owners -> BOOLEAN] /\ launches \in [Owners -> Nat] /\ revision \in Nat
      /\ launches.A \in Nat /\ launches.B \in Nat
  BY <1>2, TypeFacts
<1>4. /\ ctx' \in [Owners -> BOOLEAN] /\ revision' \in Nat /\ revision' >= revision
      /\ ctx'.A /\ (ctx'.B <=> ctx.B)
      /\ launches' \in [Owners -> Nat]
      /\ launches'.A >= launches.A /\ launches'.B >= launches.B
  <2>1. CASE IsRm
    <3>1. Launch(1, 0) /\ ctx.A /\ ctx' = ctx /\ revision' = revision
      BY <2>1 DEF Reference
    <3>2. launches' \in [Owners -> Nat]
          /\ launches'.A = launches.A + 1 /\ launches'.B = launches.B + 0
      BY <1>3, <3>1, LaunchFacts
    <3> QED
      BY <1>3, <3>1, <3>2
  <2>2. CASE ~IsRm
    <3>1. Create({"A"}) /\ Launch(Warmup + 1, 0) /\ Warmup + 1 \in Nat
      BY <2>2, WarmupAssumption DEF Reference
    <3>2. launches' \in [Owners -> Nat]
          /\ launches'.A = launches.A + (Warmup + 1) /\ launches'.B = launches.B + 0
      BY <1>3, <3>1, LaunchFacts
    <3>3. /\ ctx' \in [Owners -> BOOLEAN] /\ revision' \in Nat /\ revision' >= revision
          /\ \A th \in Owners : ctx'[th] <=> ctx[th] \/ th \in {"A"}
      BY <1>3, <3>1, CreateFacts DEF Owners
    <3>4. ctx'.A /\ (ctx'.B <=> ctx.B)
      BY <3>3 DEF Owners
    <3> QED
      BY <1>3, <3>1, <3>2, <3>3, <3>4
  <2> QED
    BY <2>1, <2>2
<1>5. PlanInv'
  BY <1>1, <1>2, SamePlanInv, PartFacts DEF Loops, Endings, PlanInv, PartNames
<1>6. TypeInv'
  <2>1. reference' \in [work : Nat, after : Nat]
    BY <1>1, <1>2, TypeFacts
  <2>2. bound' \in 0..revision'
    <3>1. bound \in 0..revision
      BY <1>2 DEF TypeInv
    <3> QED
      BY <1>1, <1>3, <1>4, <3>1
  <2> QED
    BY <1>1, <1>2, <1>4, <2>1, <2>2 DEF TypeInv
<1>7. CtxInv'
  BY <1>1, <1>2, <1>3, <1>4, SamePlan DEF CtxInv, Owners, Loops
<1>8. PresentInv'
  BY <1>1, <1>2, NoRow DEF PresentInv, Uncalibrated, Loops
<1>9. ReferenceInv'
  <2>1. \A i \in DOMAIN rows' : Referred(rows'[i], i)
    BY <1>1 DEF IInv, ReferenceInv
  <2> QED
    BY <1>1, <2>1 DEF ReferenceInv
<1>10. WorkInv'
  BY <1>1, <1>2, NoRow, SamePlan DEF Uncalibrated, PlanInv
<1>11. NumberInv'
  BY <1>1, <1>2, <1>3, <1>4, MoreLaunches
<1>12. CountsInv'
  BY <1>1, <1>2, SameCounts DEF Session
<1> QED
  BY <1>5, <1>6, <1>7, <1>8, <1>9, <1>10, <1>11, <1>12 DEF IInv

LEMMA HandOffKeeps == ASSUME IInv, HandOff PROVE IInv'
<1>1. /\ pc = "handoff" /\ pc \in Loops /\ ctx.A /\ ctx.B
      /\ pc' = "post"
      /\ UNCHANGED <<o, place, cal, reference, rows, counts, run_status, bound, outcome>>
  BY DEF HandOff, Loops, place, work, files, bridge, ending
<1>2. PlanInv /\ TypeInv /\ CtxInv /\ UNCHANGED <<o, target, part, trial, order>>
  BY <1>1 DEF IInv, place
<1>3. /\ ctx \in [Owners -> BOOLEAN] /\ launches \in [Owners -> Nat] /\ revision \in Nat
      /\ launches.A \in Nat /\ launches.B \in Nat
  BY <1>2, TypeFacts
<1>4. /\ ctx' \in [Owners -> BOOLEAN] /\ revision' = revision
      /\ ctx'.B /\ (IsRm => ctx'.A)
  <2>1. Close(IF ~IsRm /\ IsSerial(condition) THEN {"A"} ELSE {})
        /\ (IF ~IsRm /\ IsSerial(condition) THEN {"A"} ELSE {}) \in SUBSET Owners
    BY DEF HandOff, Owners
  <2>2. /\ ctx' \in [Owners -> BOOLEAN] /\ revision' = revision
        /\ \A th \in Owners :
             ctx'[th] <=> ctx[th] /\ th \notin IF ~IsRm /\ IsSerial(condition) THEN {"A"} ELSE {}
    BY <1>3, <2>1, CloseFacts
  <2> QED
    BY <1>1, <2>2 DEF Owners
<1>5. /\ launches' \in [Owners -> Nat]
      /\ launches'.A >= launches.A /\ launches'.B >= launches.B
      /\ Measured.a_launch_seq <= launches'.A /\ Measured.b_launch_seq <= launches'.B
  <2>1. Launch(ALaunches, 1) /\ ALaunches \in {0, 1, 2} /\ (condition # "idle" => ALaunches >= 1)
    BY DEF HandOff, ALaunches
  <2>2. launches' \in [Owners -> Nat]
        /\ launches'.A = launches.A + ALaunches /\ launches'.B = launches.B + 1
    BY <1>3, <2>1, LaunchFacts
  <2> QED
    BY <1>3, <2>1, <2>2 DEF Measured
<1>6. s' = Measured /\ s' \in SampleSet /\ s'.present = Owners
      /\ (s'.a_launch_seq = 0 \/ s'.a_launch_seq = launches.A + 1)
      /\ s'.b_launch_seq = launches.B + 1
  <2>1. Present = Owners
    BY <1>1, <1>3, PresentFacts
  <2> QED
    BY <1>1, <1>3, <2>1 DEF HandOff, Measured, SampleSet
<1>7. PlanInv'
  BY <1>1, <1>2, SamePlanInv, PartFacts DEF Loops, Endings, PlanInv, PartNames
<1>8. TypeInv'
  <2>1. bound' \in 0..revision'
    BY <1>1, <1>2, <1>4 DEF TypeInv
  <2> QED
    BY <1>1, <1>2, <1>4, <1>5, <1>6, <2>1 DEF TypeInv
<1>9. CtxInv'
  BY <1>1, <1>2, <1>3, <1>4, <1>5, <1>6, SamePlan DEF CtxInv, Owners, Loops
<1>10. PresentInv'
  <2>1. \A i \in DOMAIN rows' : Attended(rows'[i])
    BY <1>1 DEF IInv, PresentInv
  <2> QED
    BY <1>6, <2>1 DEF PresentInv
<1>11. ReferenceInv'
  BY <1>1, <1>2, SamePlan DEF IInv, ReferenceInv, Referred, Loops
<1>12. WorkInv'
  BY <1>1, <1>2, NoRow, SamePlan DEF Uncalibrated, PlanInv
<1>13. NumberInv'
  <2>1. \A i \in DOMAIN rows : Within(rows[i], launches')
    BY <1>5, StillWithin
  <2>2. \A i \in DOMAIN rows : Newer(s', rows[i])
    <3>1. s'.a_launch_seq \in Nat /\ s'.b_launch_seq \in Nat
      BY <1>6 DEF SampleSet
    <3>2. /\ s'.a_launch_seq = 0 \/ s'.a_launch_seq > launches.A
          /\ s'.b_launch_seq = 0 \/ s'.b_launch_seq > launches.B
      BY <1>3, <1>6
    <3> QED
      BY <3>1, <3>2, NewestLaunch
  <2>3. Within(s', launches')
    BY <1>5, <1>6 DEF Within
  <2>4. \A i, j \in DOMAIN rows : j < i => Newer(rows[i], rows[j])
    BY DEF IInv, NumberInv
  <2>5. rows' = rows
    BY <1>1
  <2> QED
    BY <2>1, <2>2, <2>3, <2>4, <2>5 DEF NumberInv
<1>14. CountsInv'
  BY <1>1, <1>2, SameCounts DEF Session
<1> QED
  BY <1>7, <1>8, <1>9, <1>10, <1>11, <1>12, <1>13, <1>14 DEF IInv

--------------------------------------------------------------------------------
(* Each step keeps the invariant: the RM session and the end.               *)

LEMMA ScopeKeeps == ASSUME IInv, Scope PROVE IInv'
<1>1. /\ pc = "scope" /\ pc \in Session
      /\ pc' = "b_context"
      /\ UNCHANGED <<o, place, cal, reference, s, rows, counts, run_status, bound, outcome>>
  BY DEF Scope, Session, place, work, files, bridge, ending
<1>2. PlanInv /\ TypeInv /\ CtxInv /\ UNCHANGED <<o, target, part, trial, order>>
  BY <1>1 DEF IInv, place
<1>3. /\ ctx \in [Owners -> BOOLEAN] /\ launches \in [Owners -> Nat] /\ revision \in Nat
      /\ launches.A \in Nat /\ launches.B \in Nat
  BY <1>2, TypeFacts
<1>4. /\ ctx' \in [Owners -> BOOLEAN] /\ revision' \in Nat /\ revision' >= revision
      /\ \A th \in Owners : ctx'[th] <=> ctx[th] \/ th \in {"A"}
  BY <1>1, <1>2, <1>3, CreateFacts DEF Scope, Owners
<1>5. /\ launches' \in [Owners -> Nat]
      /\ launches'.A >= launches.A /\ launches'.B >= launches.B
  <2>1. Launch(IF IsRewind(o) THEN Warmup + 1 ELSE Warmup, 0)
        /\ (IF IsRewind(o) THEN Warmup + 1 ELSE Warmup) \in Nat
    BY WarmupAssumption DEF Scope
  <2>2. launches' \in [Owners -> Nat]
        /\ launches'.A = launches.A + (IF IsRewind(o) THEN Warmup + 1 ELSE Warmup)
        /\ launches'.B = launches.B + 0
    BY <1>3, <2>1, LaunchFacts
  <2> QED
    BY <1>3, <2>1, <2>2
<1>6. rows = <<>> /\ IsRm
  BY <1>1, <1>2 DEF IInv, CountsInv, PlanInv, Session
<1>7. PlanInv'
  BY <1>1, <1>2, <1>3, <1>4, <1>5, <1>6, SamePlan DEF PlanInv, Loops, Session, Endings
<1>8. TypeInv'
  BY <1>1, <1>2, <1>3, <1>4, <1>5, <1>6, SameTypes
<1>9. CtxInv'
  BY <1>1, <1>2, <1>3, <1>4, <1>5, <1>6, SamePlan DEF CtxInv, Owners, Loops
<1>10. PresentInv'
  BY <1>1, <1>2, NoRow DEF PresentInv, Uncalibrated, Loops
<1>11. ReferenceInv'
  BY <1>1, <1>2, SamePlan DEF IInv, ReferenceInv, Referred, Loops
<1>12. WorkInv'
  BY <1>1, <1>2, NoRow, SamePlan DEF Uncalibrated, PlanInv
<1>13. NumberInv'
  BY <1>1, <1>2, <1>3, <1>4, <1>5, <1>6, MoreLaunches
<1>14. CountsInv'
  BY <1>1, <1>2, <1>3, <1>4, <1>5, <1>6, SamePlan DEF IInv, CountsInv, Session
<1> QED
  BY <1>7, <1>8, <1>9, <1>10, <1>11, <1>12, <1>13, <1>14 DEF IInv

LEMMA BContextKeeps == ASSUME IInv, BContext PROVE IInv'
<1>1. /\ pc = "b_context" /\ pc \in Session
      /\ pc' = "bind"
      /\ UNCHANGED <<o, place, cal, reference, s, rows, counts, run_status, bound, outcome>>
  BY DEF BContext, Session, place, work, files, bridge, ending
<1>2. PlanInv /\ TypeInv /\ CtxInv /\ UNCHANGED <<o, target, part, trial, order>>
  BY <1>1 DEF IInv, place
<1>3. /\ ctx \in [Owners -> BOOLEAN] /\ launches \in [Owners -> Nat] /\ revision \in Nat
      /\ launches.A \in Nat /\ launches.B \in Nat
  BY <1>2, TypeFacts
<1>4. /\ ctx' \in [Owners -> BOOLEAN] /\ revision' \in Nat /\ revision' >= revision
      /\ \A th \in Owners : ctx'[th] <=> ctx[th] \/ th \in {"B"}
  BY <1>1, <1>2, <1>3, CreateFacts DEF BContext, Owners
<1>5. /\ launches' \in [Owners -> Nat]
      /\ launches'.A >= launches.A /\ launches'.B >= launches.B
  <2>1. Launch(0, Warmup) /\ 0 \in Nat /\ Warmup \in Nat
    BY WarmupAssumption DEF BContext, AnchorLaunches
  <2>2. launches' \in [Owners -> Nat]
        /\ launches'.A = launches.A + (0) /\ launches'.B = launches.B + (Warmup)
    BY <1>3, <2>1, LaunchFacts
  <2> QED
    BY <1>3, <2>1, <2>2
<1>6. rows = <<>> /\ IsRm
  BY <1>1, <1>2 DEF IInv, CountsInv, PlanInv, Session
<1>7. PlanInv'
  BY <1>1, <1>2, <1>3, <1>4, <1>5, <1>6, SamePlan DEF PlanInv, Loops, Session, Endings
<1>8. TypeInv'
  BY <1>1, <1>2, <1>3, <1>4, <1>5, <1>6, SameTypes
<1>9. CtxInv'
  BY <1>1, <1>2, <1>3, <1>4, <1>5, <1>6, SamePlan DEF CtxInv, Owners, Loops
<1>10. PresentInv'
  BY <1>1, <1>2, NoRow DEF PresentInv, Uncalibrated, Loops
<1>11. ReferenceInv'
  BY <1>1, <1>2, SamePlan DEF IInv, ReferenceInv, Referred, Loops
<1>12. WorkInv'
  BY <1>1, <1>2, NoRow, SamePlan DEF Uncalibrated, PlanInv
<1>13. NumberInv'
  BY <1>1, <1>2, <1>3, <1>4, <1>5, <1>6, MoreLaunches
<1>14. CountsInv'
  BY <1>1, <1>2, <1>3, <1>4, <1>5, <1>6, SamePlan DEF IInv, CountsInv, Session
<1> QED
  BY <1>7, <1>8, <1>9, <1>10, <1>11, <1>12, <1>13, <1>14 DEF IInv

LEMMA BindKeeps == ASSUME IInv, Bind PROVE IInv'
<1>1. /\ pc = "bind" /\ pc \in Session /\ bound' = revision
      /\ pc' = IF Probes THEN "probe" ELSE TargetStart
      /\ UNCHANGED <<o, place, ctx, launches, revision, cal, reference, s, rows, counts, run_status, outcome>>
  BY DEF Bind, Session, place, work, files, bridge, ending
<1>2. PlanInv /\ TypeInv /\ CtxInv /\ UNCHANGED <<o, target, part, trial, order>>
  BY <1>1 DEF IInv, place
<1>3. /\ ctx \in [Owners -> BOOLEAN] /\ launches \in [Owners -> Nat] /\ revision \in Nat
      /\ launches.A \in Nat /\ launches.B \in Nat
  BY <1>2, TypeFacts
<1>4. rows = <<>> /\ IsRm
  BY <1>1, <1>2 DEF IInv, CountsInv, PlanInv, Session
<1>5. /\ pc' \in {"probe", "recalibrate"}
      /\ pc' = "recalibrate" => ~IsRewind(o) /\ ~o.rm_probe
  BY <1>1, <1>4, TargetStartFacts DEF Probes
<1>6. /\ launches'.A >= launches.A /\ launches'.B >= launches.B /\ launches' \in [Owners -> Nat]
  <2>1. launches' = launches
    BY <1>1
  <2> QED
    BY <1>3, <2>1
<1>7. PlanInv'
  <2>1. CASE pc' # "recalibrate"
    BY <1>1, <1>2, <1>5, <2>1, SamePlan DEF PlanInv, Loops, Session, Endings
  <2>2. CASE pc' = "recalibrate"
    <3>1. Len(Parts) = 1 /\ Parts[1] = "preempt-hold"
      BY <1>2, <1>4, <1>5, <2>2, StartFacts DEF PlanInv
    <3>2. part = 1 /\ order = 0 /\ trial = 0 /\ target = 1
      BY <1>1, <1>2, <1>4 DEF PlanInv
    <3>3. Part = "preempt-hold"
      BY <3>1, <3>2 DEF Part
    <3>4. Len(ConditionsOf(Part)) \in 1..3
      BY <1>2, <3>3, ConditionsFacts DEF PartNames, PlanInv
    <3>5. order < Len(ConditionsOf(Part))
      <4>1. PICK n \in 1..3 : n = Len(ConditionsOf(Part))
        BY <3>4
      <4> QED
        BY <3>2, <4>1
    <3>6. part \in 1..Len(Parts)
      BY <3>1, <3>2
    <3>7. ~IsRewind(o) /\ ~o.rm_probe
      BY <1>5, <2>2
    <3> QED
      BY <1>1, <1>2, <2>2, <3>3, <3>5, <3>6, <3>7, SamePlan DEF PlanInv, Loops, Session, Endings
  <2> QED
    BY <2>1, <2>2
<1>8. TypeInv'
  <2>1. bound' \in 0..revision'
    BY <1>1, <1>3
  <2> QED
    BY <1>1, <1>2, <2>1 DEF TypeInv
<1>9. CtxInv'
  BY <1>1, <1>2, <1>3, <1>4, <1>5, <1>6, SamePlan DEF CtxInv, Owners, Loops
<1>10. PresentInv'
  BY <1>1, <1>2, <1>3, <1>4, <1>5, <1>6, NoRow DEF PresentInv
<1>11. ReferenceInv'
  <2>1. Live
    BY <1>4 DEF Live, IsRm
  <2> QED
    BY <1>1, <1>2, <1>4, <1>5, <2>1, SamePlan DEF ReferenceInv
<1>12. WorkInv'
  BY <1>1, <1>2, <1>3, <1>4, <1>5, <1>6, NoRow
<1>13. NumberInv'
  BY <1>1, <1>2, <1>3, <1>4, <1>5, <1>6, MoreLaunches
<1>14. CountsInv'
  BY <1>1, <1>2, <1>3, <1>4, <1>5, <1>6, SamePlan DEF IInv, CountsInv, Session
<1> QED
  BY <1>7, <1>8, <1>9, <1>10, <1>11, <1>12, <1>13, <1>14 DEF IInv

LEMMA ProbeKeeps == ASSUME IInv, Probe PROVE IInv'
<1>1. /\ pc = "probe" /\ pc \in Session
      /\ pc' = CASE IsRewind(o) -> "rewind" [] o.rm_probe -> "counts" [] OTHER -> TargetStart
      /\ UNCHANGED <<o, place, ctx, revision, bound, cal, reference, s, rows, counts, run_status, outcome>>
  BY DEF Probe, Session, place, work, files, bridge, ending
<1>2. PlanInv /\ TypeInv /\ CtxInv /\ UNCHANGED <<o, target, part, trial, order>>
  BY <1>1 DEF IInv, place
<1>3. /\ ctx \in [Owners -> BOOLEAN] /\ launches \in [Owners -> Nat] /\ revision \in Nat
      /\ launches.A \in Nat /\ launches.B \in Nat
  BY <1>2, TypeFacts
<1>4. rows = <<>> /\ IsRm
  BY <1>1, <1>2 DEF IInv, CountsInv, PlanInv, Session
<1>5. /\ pc' \in {"rewind", "counts", "recalibrate"} /\ (pc' = "rewind" => IsRewind(o))
      /\ pc' = "recalibrate" => ~IsRewind(o) /\ ~o.rm_probe
  BY <1>1, <1>4, TargetStartFacts
<1>6. /\ launches' \in [Owners -> Nat]
      /\ launches'.A >= launches.A /\ launches'.B >= launches.B
  <2>1. Launch(1, 0) /\ 1 \in Nat /\ 0 \in Nat
    BY WarmupAssumption DEF Probe, AnchorLaunches
  <2>2. launches' \in [Owners -> Nat]
        /\ launches'.A = launches.A + (1) /\ launches'.B = launches.B + (0)
    BY <1>3, <2>1, LaunchFacts
  <2> QED
    BY <1>3, <2>1, <2>2
<1>7. PlanInv'
  <2>1. CASE pc' # "recalibrate"
    BY <1>1, <1>2, <1>5, <2>1, SamePlan DEF PlanInv, Loops, Session, Endings
  <2>2. CASE pc' = "recalibrate"
    <3>1. Len(Parts) = 1 /\ Parts[1] = "preempt-hold"
      BY <1>2, <1>4, <1>5, <2>2, StartFacts DEF PlanInv
    <3>2. part = 1 /\ order = 0 /\ trial = 0 /\ target = 1
      BY <1>1, <1>2, <1>4 DEF PlanInv
    <3>3. Part = "preempt-hold"
      BY <3>1, <3>2 DEF Part
    <3>4. Len(ConditionsOf(Part)) \in 1..3
      BY <1>2, <3>3, ConditionsFacts DEF PartNames, PlanInv
    <3>5. order < Len(ConditionsOf(Part))
      <4>1. PICK n \in 1..3 : n = Len(ConditionsOf(Part))
        BY <3>4
      <4> QED
        BY <3>2, <4>1
    <3>6. part \in 1..Len(Parts)
      BY <3>1, <3>2
    <3>7. ~IsRewind(o) /\ ~o.rm_probe
      BY <1>5, <2>2
    <3> QED
      BY <1>1, <1>2, <2>2, <3>3, <3>5, <3>6, <3>7, SamePlan DEF PlanInv, Loops, Session, Endings
  <2> QED
    BY <2>1, <2>2
<1>8. TypeInv'
  BY <1>1, <1>2, <1>3, <1>4, <1>5, <1>6, SameTypes
<1>9. CtxInv'
  BY <1>1, <1>2, <1>3, <1>4, <1>5, <1>6, SamePlan DEF CtxInv, Owners, Loops
<1>10. PresentInv'
  BY <1>1, <1>2, <1>3, <1>4, <1>5, <1>6, NoRow DEF PresentInv
<1>11. ReferenceInv'
  <2>1. Live
    BY <1>4 DEF Live, IsRm
  <2> QED
    BY <1>1, <1>2, <1>4, <1>5, <2>1, SamePlan DEF ReferenceInv
<1>12. WorkInv'
  BY <1>1, <1>2, <1>3, <1>4, <1>5, <1>6, NoRow
<1>13. NumberInv'
  BY <1>1, <1>2, <1>3, <1>4, <1>5, <1>6, MoreLaunches
<1>14. CountsInv'
  BY <1>1, <1>2, <1>3, <1>4, <1>5, <1>6, SamePlan DEF IInv, CountsInv, Session
<1> QED
  BY <1>7, <1>8, <1>9, <1>10, <1>11, <1>12, <1>13, <1>14 DEF IInv

LEMMA RewindRunKeeps == ASSUME IInv, RewindRun PROVE IInv'
<1>1. /\ pc = "rewind"
      /\ pc' = "ended" /\ run_status' \in {"completed", "stopped"} /\ outcome' \in {"exit 0", "exit 3"}
      /\ UNCHANGED <<o, place, ctx, launches, revision, bound, cal, reference, s, rows, counts>>
  BY DEF RewindRun, place, work, files, bridge, ending
<1>2. PlanInv /\ TypeInv /\ CtxInv /\ UNCHANGED <<o, target, part, trial, order>>
  BY <1>1 DEF IInv, place
<1>3. /\ ctx \in [Owners -> BOOLEAN] /\ launches \in [Owners -> Nat] /\ revision \in Nat
      /\ launches.A \in Nat /\ launches.B \in Nat
  BY <1>2, TypeFacts
<1>4. rows = <<>>
  BY <1>1 DEF IInv, CountsInv, Session
<1>5. /\ launches'.A >= launches.A /\ launches'.B >= launches.B /\ launches' \in [Owners -> Nat]
  <2>1. launches' = launches
    BY <1>1
  <2> QED
    BY <1>3, <2>1
<1>6. PlanInv'
  BY <1>1, <1>2, <1>3, <1>4, <1>5, SamePlanInv DEF Endings
<1>7. TypeInv'
  BY <1>1, <1>2, <1>3, <1>4, <1>5 DEF TypeInv
<1>8. CtxInv'
  BY <1>1, <1>2, <1>3, <1>4, <1>5, SamePlan DEF CtxInv, Loops
<1>9. PresentInv'
  BY <1>1, <1>2, <1>3, <1>4, <1>5, NoRow DEF PresentInv, Uncalibrated
<1>10. ReferenceInv'
  BY <1>1, <1>2, <1>3, <1>4, <1>5, NoRow, SamePlan DEF IInv, ReferenceInv, Uncalibrated,
    Loops
<1>11. WorkInv'
  BY <1>1, <1>2, <1>3, <1>4, <1>5, NoRow DEF Uncalibrated
<1>12. NumberInv'
  BY <1>1, <1>2, <1>3, <1>4, <1>5, MoreLaunches
<1>13. CountsInv'
  <2>1. rows' = <<>>
    BY <1>1, <1>4
  <2>2. DOMAIN rows' = {}
    BY <2>1
  <2> QED
    BY <1>1, <2>1, <2>2 DEF CountsInv, Session
<1> QED
  BY <1>6, <1>7, <1>8, <1>9, <1>10, <1>11, <1>12, <1>13 DEF IInv

LEMMA CountsKeeps == ASSUME IInv, Counts PROVE IInv'
<1>1. /\ pc = "counts"
      /\ pc' = "close" /\ counts' = launches
      /\ UNCHANGED <<o, place, ctx, launches, revision, bound, cal, reference, s, rows, run_status, outcome>>
  BY DEF Counts, place, work, files, bridge, ending
<1>2. PlanInv /\ TypeInv /\ CtxInv /\ UNCHANGED <<o, target, part, trial, order>>
  BY <1>1 DEF IInv, place
<1>3. /\ ctx \in [Owners -> BOOLEAN] /\ launches \in [Owners -> Nat] /\ revision \in Nat
      /\ launches.A \in Nat /\ launches.B \in Nat
  BY <1>2, TypeFacts
<1>4. /\ launches'.A >= launches.A /\ launches'.B >= launches.B /\ launches' \in [Owners -> Nat]
  <2>1. launches' = launches
    BY <1>1
  <2> QED
    BY <1>3, <2>1
<1>5. PlanInv'
  BY <1>1, <1>2, <1>3, <1>4, SamePlanInv DEF Endings
<1>6. TypeInv'
  BY <1>1, <1>2, <1>3, <1>4 DEF TypeInv
<1>7. CtxInv'
  BY <1>1, <1>2, <1>3, <1>4, SamePlan DEF CtxInv, Loops
<1>8. PresentInv'
  BY <1>1, <1>2, <1>3, <1>4, NoRow DEF PresentInv, Uncalibrated
<1>9. ReferenceInv'
  BY <1>1, <1>2, <1>3, <1>4, NoRow, SamePlan DEF IInv, ReferenceInv, Uncalibrated, Loops
<1>10. WorkInv'
  BY <1>1, <1>2, <1>3, <1>4, NoRow DEF Uncalibrated
<1>11. NumberInv'
  BY <1>1, <1>2, <1>3, <1>4, MoreLaunches
<1>12. CountsInv'
  BY <1>1, <1>2, <1>3, <1>4 DEF IInv, CountsInv, Session
<1> QED
  BY <1>5, <1>6, <1>7, <1>8, <1>9, <1>10, <1>11, <1>12 DEF IInv

LEMMA CloseBothKeeps == ASSUME IInv, CloseBoth PROVE IInv'
<1>1. /\ pc = "close"
      /\ pc' = "complete"
      /\ UNCHANGED <<o, place, launches, cal, reference, s, rows, counts, run_status, bound, outcome>>
  BY DEF CloseBoth, place, work, files, bridge, ending
<1>2. PlanInv /\ TypeInv /\ CtxInv /\ UNCHANGED <<o, target, part, trial, order>>
  BY <1>1 DEF IInv, place
<1>3. /\ ctx \in [Owners -> BOOLEAN] /\ launches \in [Owners -> Nat] /\ revision \in Nat
      /\ launches.A \in Nat /\ launches.B \in Nat
  BY <1>2, TypeFacts
<1>4. /\ ctx' \in [Owners -> BOOLEAN] /\ revision' = revision
      /\ \A th \in Owners : ctx'[th] <=> ctx[th] /\ th \notin Owners
  BY <1>1, <1>2, <1>3, CloseFacts DEF CloseBoth, Owners
<1>5. /\ launches'.A >= launches.A /\ launches'.B >= launches.B /\ launches' \in [Owners -> Nat]
  <2>1. launches' = launches
    BY <1>1
  <2> QED
    BY <1>3, <2>1
<1>6. PlanInv'
  BY <1>1, <1>2, <1>3, <1>4, <1>5, SamePlanInv DEF Endings
<1>7. TypeInv'
  BY <1>1, <1>2, <1>3, <1>4, <1>5, SameTypes
<1>8. CtxInv'
  BY <1>1, <1>2, <1>3, <1>4, <1>5, SamePlan DEF CtxInv, Loops
<1>9. PresentInv'
  BY <1>1, <1>2, <1>3, <1>4, <1>5, NoRow DEF PresentInv, Uncalibrated
<1>10. ReferenceInv'
  BY <1>1, <1>2, <1>3, <1>4, <1>5, NoRow, SamePlan DEF IInv, ReferenceInv, Uncalibrated,
    Loops
<1>11. WorkInv'
  BY <1>1, <1>2, <1>3, <1>4, <1>5, NoRow DEF Uncalibrated
<1>12. NumberInv'
  BY <1>1, <1>2, <1>3, <1>4, <1>5, MoreLaunches
<1>13. CountsInv'
  BY <1>1, <1>2, <1>3, <1>4, <1>5 DEF IInv, CountsInv, Session
<1> QED
  BY <1>6, <1>7, <1>8, <1>9, <1>10, <1>11, <1>12, <1>13 DEF IInv

LEMMA CompleteKeeps == ASSUME IInv, Complete PROVE IInv'
<1>1. /\ pc = "complete"
      /\ pc' = "report" /\ run_status' = "completed"
      /\ UNCHANGED <<o, place, ctx, launches, revision, bound, cal, reference, s, rows, counts, outcome>>
  BY DEF Complete, place, work, files, bridge, ending
<1>2. PlanInv /\ TypeInv /\ CtxInv /\ UNCHANGED <<o, target, part, trial, order>>
  BY <1>1 DEF IInv, place
<1>3. /\ ctx \in [Owners -> BOOLEAN] /\ launches \in [Owners -> Nat] /\ revision \in Nat
      /\ launches.A \in Nat /\ launches.B \in Nat
  BY <1>2, TypeFacts
<1>4. /\ launches'.A >= launches.A /\ launches'.B >= launches.B /\ launches' \in [Owners -> Nat]
  <2>1. launches' = launches
    BY <1>1
  <2> QED
    BY <1>3, <2>1
<1>5. PlanInv'
  BY <1>1, <1>2, <1>3, <1>4, SamePlanInv DEF Endings
<1>6. TypeInv'
  BY <1>1, <1>2, <1>3, <1>4 DEF TypeInv
<1>7. CtxInv'
  BY <1>1, <1>2, <1>3, <1>4, SamePlan DEF CtxInv, Loops
<1>8. PresentInv'
  BY <1>1, <1>2, <1>3, <1>4, NoRow DEF PresentInv, Uncalibrated
<1>9. ReferenceInv'
  BY <1>1, <1>2, <1>3, <1>4, NoRow, SamePlan DEF IInv, ReferenceInv, Uncalibrated, Loops
<1>10. WorkInv'
  BY <1>1, <1>2, <1>3, <1>4, NoRow DEF Uncalibrated
<1>11. NumberInv'
  BY <1>1, <1>2, <1>3, <1>4, MoreLaunches
<1>12. CountsInv'
  <2>1. counts' = launches /\ \A i \in DOMAIN rows : Within(rows[i], launches)
    BY <1>1 DEF IInv, CountsInv, NumberInv
  <2> QED
    BY <1>1, <2>1 DEF CountsInv, Session
<1> QED
  BY <1>5, <1>6, <1>7, <1>8, <1>9, <1>10, <1>11, <1>12 DEF IInv

LEMMA ReportKeeps == ASSUME IInv, Report PROVE IInv'
<1>1. /\ pc = "report"
      /\ pc' = "ended" /\ outcome' \in {"exit 0", "exit 1"}
      /\ UNCHANGED <<o, place, ctx, launches, revision, bound, cal, reference, s, rows, counts, run_status>>
  BY DEF Report, place, work, files, bridge, ending
<1>2. PlanInv /\ TypeInv /\ CtxInv /\ UNCHANGED <<o, target, part, trial, order>>
  BY <1>1 DEF IInv, place
<1>3. /\ ctx \in [Owners -> BOOLEAN] /\ launches \in [Owners -> Nat] /\ revision \in Nat
      /\ launches.A \in Nat /\ launches.B \in Nat
  BY <1>2, TypeFacts
<1>4. /\ launches'.A >= launches.A /\ launches'.B >= launches.B /\ launches' \in [Owners -> Nat]
  <2>1. launches' = launches
    BY <1>1
  <2> QED
    BY <1>3, <2>1
<1>5. PlanInv'
  BY <1>1, <1>2, <1>3, <1>4, SamePlanInv DEF Endings
<1>6. TypeInv'
  BY <1>1, <1>2, <1>3, <1>4 DEF TypeInv
<1>7. CtxInv'
  BY <1>1, <1>2, <1>3, <1>4, SamePlan DEF CtxInv, Loops
<1>8. PresentInv'
  BY <1>1, <1>2, <1>3, <1>4, NoRow DEF PresentInv, Uncalibrated
<1>9. ReferenceInv'
  BY <1>1, <1>2, <1>3, <1>4, NoRow, SamePlan DEF IInv, ReferenceInv, Uncalibrated, Loops
<1>10. WorkInv'
  BY <1>1, <1>2, <1>3, <1>4, NoRow DEF Uncalibrated
<1>11. NumberInv'
  BY <1>1, <1>2, <1>3, <1>4, MoreLaunches
<1>12. CountsInv'
  BY <1>1, <1>2, <1>3, <1>4 DEF IInv, CountsInv, Session
<1> QED
  BY <1>5, <1>6, <1>7, <1>8, <1>9, <1>10, <1>11, <1>12 DEF IInv

LEMMA UnwindKeeps == ASSUME IInv, Unwind PROVE IInv'
<1>1. /\ pc = "unwind"
      /\ pc' = "ended" /\ outcome' = "exit 1" /\ run_status' \in {"failed", run_status}
      /\ UNCHANGED <<o, place, launches, bound, cal, reference, s, rows, counts>>
  BY DEF Unwind, place, work, files, bridge, ending
<1>2. PlanInv /\ TypeInv /\ CtxInv /\ UNCHANGED <<o, target, part, trial, order>>
  BY <1>1 DEF IInv, place
<1>3. /\ ctx \in [Owners -> BOOLEAN] /\ launches \in [Owners -> Nat] /\ revision \in Nat
      /\ launches.A \in Nat /\ launches.B \in Nat
  BY <1>2, TypeFacts
<1>4. /\ ctx' \in [Owners -> BOOLEAN] /\ revision' = revision
      /\ \A th \in Owners : ctx'[th] <=> ctx[th] /\ th \notin Owners
  BY <1>1, <1>2, <1>3, CloseFacts DEF Unwind, Owners
<1>5. /\ launches'.A >= launches.A /\ launches'.B >= launches.B /\ launches' \in [Owners -> Nat]
  <2>1. launches' = launches
    BY <1>1
  <2> QED
    BY <1>3, <2>1
<1>6. PlanInv'
  BY <1>1, <1>2, <1>3, <1>4, <1>5, SamePlanInv DEF Endings
<1>7. TypeInv'
  BY <1>1, <1>2, <1>3, <1>4, <1>5 DEF TypeInv
<1>8. CtxInv'
  BY <1>1, <1>2, <1>3, <1>4, <1>5, SamePlan DEF CtxInv, Loops
<1>9. PresentInv'
  BY <1>1, <1>2, <1>3, <1>4, <1>5, NoRow DEF PresentInv, Uncalibrated
<1>10. ReferenceInv'
  BY <1>1, <1>2, <1>3, <1>4, <1>5, NoRow, SamePlan DEF IInv, ReferenceInv, Uncalibrated,
    Loops
<1>11. WorkInv'
  BY <1>1, <1>2, <1>3, <1>4, <1>5, NoRow DEF Uncalibrated
<1>12. NumberInv'
  BY <1>1, <1>2, <1>3, <1>4, <1>5, MoreLaunches
<1>13. CountsInv'
  <2>1. run_status' # "completed"
    BY <1>1 DEF IInv, CountsInv
  <2> QED
    BY <1>1, <2>1 DEF CountsInv, Session
<1> QED
  BY <1>6, <1>7, <1>8, <1>9, <1>10, <1>11, <1>12, <1>13 DEF IInv

--------------------------------------------------------------------------------
(* Each step keeps the invariant: rows.                                     *)

\* A case ends with its row.
LEMMA CaseEnds ==
  ASSUME IInv, pc \in Loops, EndCase,
         UNCHANGED <<o, ctx, cal, reference, counts, run_status, revision, bound, outcome>>,
         launches' \in [Owners -> Nat], launches'.A >= launches.A, launches'.B >= launches.B,
         s' \in SampleSet, IF Part = "standby" THEN ctx.A ELSE ctx.B,
         NEW r \in RowSet, rows' = Append(rows, r),
         r.experiment = Part, r.target = target, r.trial = trial, r.work = cal,
         Attended(r), Referred(r, Len(rows) + 1), \A i \in DOMAIN rows : Newer(r, rows[i]),
         Within(r, launches')
  PROVE  IInv'
<1>0. PlanInv /\ TypeInv /\ CtxInv /\ Live' = Live /\ IsRm' = IsRm
  BY DEF IInv, Live, IsRm
<1>1. Part \in PartNames
  BY <1>0, PartFacts DEF PlanInv
<1>2. /\ rows' \in Seq(RowSet)
      /\ \A i \in DOMAIN rows' : Attended(rows'[i]) /\ Referred(rows'[i], i) /\ Behind(rows'[i])
      /\ \A i, j \in DOMAIN rows' : SameWork(rows'[i], rows'[j])
      /\ \A i, j \in DOMAIN rows' : j < i => Newer(rows'[i], rows'[j])
  BY <1>1, MeasuredRow
<1>3. /\ pc' \in {"set_b", "prepare", "reference", "recalibrate", "warm_b", "close_b", "counts"}
      /\ pc' = "set_b" => Part = "standby"
      /\ pc' = "prepare" => Part = "takeover"
      /\ pc' \in {"reference", "recalibrate"} => Part \in {"live-handoff", "preempt-hold"}
      /\ pc' = "warm_b" => ~IsRm
      /\ pc' = "close_b" => ~IsRm
  BY <1>0, EndCasePlaces
<1>4. PlanInv'
  BY <1>0, EndCasePlan
<1>5. TypeInv'
  <2>1. bound' \in 0..revision'
    BY <1>0 DEF TypeInv
  <2> QED
    BY <1>0, <1>2, <2>1 DEF TypeInv
<1>6. CtxInv'
  <2>1. pc' = "set_b" => ctx.A
    BY <1>3
  <2>2. pc' \in {"prepare", "reference", "recalibrate"} => ctx.B
    BY <1>3
  <2>3. IsRm => ctx.A
    BY <1>0 DEF CtxInv
  <2> QED
    BY <1>0, <1>3, <2>1, <2>2, <2>3 DEF CtxInv
<1>7. PresentInv'
  BY <1>2, <1>3 DEF PresentInv
<1>8. ReferenceInv'
  <2>1. ~Live => reference.work = cal
    BY DEF IInv, ReferenceInv
  <2> QED
    BY <1>0, <1>2, <1>3, <2>1 DEF ReferenceInv
<1>9. WorkInv'
  BY <1>0, <1>2, EndCaseRows
<1>10. NumberInv'
  <2>1. \A i \in DOMAIN rows : Within(rows[i], launches')
    BY StillWithin
  <2>2. \A i \in DOMAIN rows' : Within(rows'[i], launches')
    BY <1>0, <2>1, AppendFacts, TypeFacts
  <2> QED
    BY <1>2, <1>3, <2>2 DEF NumberInv
<1>11. CountsInv'
  <2>1. pc \notin {"report", "ended"}
    BY DEF Loops
  <2> QED
    BY <1>3, <2>1, SameCounts DEF Session
<1> QED
  BY <1>4, <1>5, <1>6, <1>7, <1>8, <1>9, <1>10, <1>11 DEF IInv

LEMMA MeasureAKeeps == ASSUME IInv, MeasureA PROVE IInv'
<1>0. PlanInv /\ TypeInv /\ CtxInv
  BY DEF IInv
<1>1. /\ pc = "measure_a" /\ pc \in Loops /\ ctx.A /\ EndCase
      /\ UNCHANGED <<o, ctx, cal, reference, s, counts, run_status, revision, bound, outcome>>
  BY DEF MeasureA, Loops, work, bridge, ending
<1>2. /\ ctx \in [Owners -> BOOLEAN] /\ launches.A \in Nat /\ launches.B \in Nat /\ cal \in Nat
      /\ reference \in [work : Nat, after : Nat] /\ s \in SampleSet
  BY <1>0, TypeFacts
<1>3. Part = "standby" /\ ~Live /\ reference.work = cal
  <2>1. Part = "standby"
    BY <1>0, <1>1 DEF PlanInv
  <2>2. ~Live
    BY <1>0, <1>1, <2>1, PartFacts DEF PlanInv
  <2> QED
    BY <1>1, <2>1, <2>2 DEF IInv, ReferenceInv
<1>4. condition \in {"a_only", "a_with_idle_b"} /\ condition \in Conditions
  BY <1>0, <1>1, <1>3, ConditionFacts
<1>5. Present = IF condition = "a_only" THEN {"A"} ELSE Owners
  BY <1>0, <1>1, <1>2, <1>4, PresentFacts DEF CtxInv
<1>6. /\ launches' \in [Owners -> Nat] /\ launches'.A > launches.A /\ launches'.B >= launches.B
      /\ launches'.A \in Nat /\ launches'.B \in Nat
  <2>1. Launch(Warmup + 1, 0) /\ Warmup + 1 \in Nat
    BY WarmupAssumption DEF MeasureA
  <2>2. launches' \in [Owners -> Nat]
        /\ launches'.A = launches.A + (Warmup + 1) /\ launches'.B = launches.B + 0
    BY <1>0, <2>1, LaunchFacts, TypeFacts
  <2> QED
    BY <1>2, <2>2, WarmupAssumption
<1> DEFINE sample == [present |-> Present, a_launch_seq |-> launches'.A, b_launch_seq |-> 0]
           r == Row("standby", condition, cal, reference, sample)
<1>7. rows' = Append(rows, r)
  BY DEF MeasureA
<1>8. sample \in SampleSet
  BY <1>2, <1>6, PresentFacts DEF SampleSet
<1>9. r \in RowSet
  BY <1>0, <1>2, <1>4, <1>8, RowType DEF PartNames
<1>10. /\ r.experiment = "standby" /\ r.target = target /\ r.trial = trial /\ r.work = cal
       /\ r.reference = reference /\ r.condition = condition /\ r.present = Present
       /\ r.a_launch_seq = launches'.A /\ r.b_launch_seq = 0
  BY DEF Row
<1> HIDE DEF r, sample
<1>11. Attended(r) /\ Referred(r, Len(rows) + 1) /\ Within(r, launches')
  BY <1>3, <1>5, <1>6, <1>10 DEF Attended, Referred, Within
<1>12. \A i \in DOMAIN rows : Newer(r, rows[i])
  BY <1>6, <1>10, NewestLaunch
<1>13. launches'.A >= launches.A
  BY <1>2, <1>6
<1> QED
  BY <1>1, <1>2, <1>3, <1>6, <1>7, <1>9, <1>10, <1>11, <1>12, <1>13, CaseEnds

LEMMA PostKeeps == ASSUME IInv, Post PROVE IInv'
<1>0. PlanInv /\ TypeInv /\ CtxInv
  BY DEF IInv
<1>1. /\ pc = "post" /\ pc \in Loops /\ EndCase /\ s' = NoSample
      /\ UNCHANGED <<o, ctx, cal, reference, counts, run_status, revision, bound, outcome>>
  BY DEF Post, Loops, bridge, ending
<1>2. /\ ctx \in [Owners -> BOOLEAN] /\ launches.A \in Nat /\ launches.B \in Nat /\ cal \in Nat
      /\ reference \in [work : Nat, after : Nat] /\ s \in SampleSet
      /\ launches \in [Owners -> Nat]
  BY <1>0, TypeFacts
<1>3. Part # "standby" /\ ctx.B /\ Part \in PartNames
  <2>1. Part # "standby" /\ Part \in PartNames
    BY <1>0, <1>1, PartFacts DEF PlanInv
  <2>2. ctx.B
    BY <1>0, <1>1 DEF CtxInv
  <2> QED
    BY <2>1, <2>2
<1>4. condition \in Conditions /\ condition # "a_only"
  BY <1>0, <1>1, <1>3, ConditionFacts
<1>5. s.present = Owners
  BY <1>1 DEF IInv, PresentInv
<1>6. launches' \in [Owners -> Nat] /\ launches'.A >= launches.A /\ launches'.B >= launches.B
  <2>1. CASE Launch(0, AnchorLaunches)
    <3>1. launches' \in [Owners -> Nat]
          /\ launches'.A = launches.A + 0 /\ launches'.B = launches.B + AnchorLaunches
      BY <1>2, <2>1, LaunchFacts DEF AnchorLaunches
    <3> QED
      BY <1>2, <3>1 DEF AnchorLaunches
  <2>2. CASE launches' = launches
    BY <1>2, <2>2
  <2> QED
    BY <2>1, <2>2 DEF Post
<1> DEFINE r == Row(Part, condition, cal, reference, s)
<1>7. rows' = Append(rows, r)
  BY DEF Post
<1>8. NoSample \in SampleSet
  BY DEF SampleSet, NoSample
<1>9. r \in RowSet
  BY <1>0, <1>2, <1>3, <1>4, RowType
<1>10. /\ r.experiment = Part /\ r.target = target /\ r.trial = trial /\ r.work = cal
       /\ r.reference = reference /\ r.condition = condition /\ r.present = s.present
       /\ r.a_launch_seq = s.a_launch_seq /\ r.b_launch_seq = s.b_launch_seq
  BY DEF Row
<1> HIDE DEF r
<1>11. Attended(r)
  BY <1>4, <1>5, <1>10 DEF Attended
<1>12. Referred(r, Len(rows) + 1)
  <2>1. Live => reference = [work |-> cal, after |-> Len(rows)]
    BY <1>1 DEF IInv, ReferenceInv
  <2>2. ~Live => reference.work = cal
    BY <1>1 DEF IInv, ReferenceInv
  <2>3. Live <=> Part \in {"live-handoff", "preempt-hold"}
    BY <1>0, <1>1, PartFacts DEF PlanInv
  <2>4. Len(rows) + 1 - 1 = Len(rows)
    BY <1>0, TypeFacts
  <2> QED
    BY <1>3, <1>10, <2>1, <2>2, <2>3, <2>4 DEF Referred, PartNames
<1>13. Within(r, launches') /\ \A i \in DOMAIN rows : Newer(r, rows[i])
  <2>1. Within(s, launches) /\ \A i \in DOMAIN rows : Newer(s, rows[i])
    BY <1>1 DEF IInv, NumberInv
  <2>2. s.a_launch_seq \in Nat /\ s.b_launch_seq \in Nat
    BY <1>2 DEF SampleSet
  <2>3. launches'.A \in Nat /\ launches'.B \in Nat
    BY <1>6 DEF Owners
  <2>4. Within(r, launches')
    BY <1>2, <1>6, <1>10, <2>1, <2>2, <2>3 DEF Within
  <2> QED
    BY <1>10, <2>1, <2>4 DEF Newer
<1> QED
  BY <1>1, <1>3, <1>6, <1>7, <1>8, <1>9, <1>10, <1>11, <1>12, <1>13, CaseEnds

LEMMA SameBehind ==
  ASSUME UNCHANGED <<o, place, cal>>, NEW i
  PROVE  Behind(rows[i])' <=> Behind(rows'[i])
<1>1. target' = target /\ trial' = trial /\ Live' = Live
  BY DEF place, Live
<1> QED
  BY <1>1 DEF Behind, Here

LEMMA IdleBKeeps == ASSUME IInv, IdleB PROVE IInv'
<1>0. PlanInv /\ TypeInv /\ CtxInv
  BY DEF IInv
<1>1. /\ pc = "idle_b" /\ pc \in Loops /\ ctx.B /\ pc' = "handoff"
      /\ UNCHANGED <<o, place, target, part, trial, order, ctx, cal, reference, s, counts>>
      /\ UNCHANGED <<run_status, revision, bound, outcome>>
  BY DEF IdleB, Loops, work, bridge, ending, place
<1>2. /\ ctx \in [Owners -> BOOLEAN] /\ launches.A \in Nat /\ launches.B \in Nat /\ cal \in Nat
      /\ reference \in [work : Nat, after : Nat] /\ s \in SampleSet
      /\ launches \in [Owners -> Nat]
  BY <1>0, TypeFacts
<1>3. Part = "takeover" /\ ~Live /\ reference.work = cal /\ Live' = Live /\ ~IsRm
  <2>1. Part = "takeover"
    BY <1>0, <1>1 DEF PlanInv
  <2>2. ~Live /\ ~IsRm
    BY <1>0, <1>1, <2>1, PartFacts DEF PlanInv
  <2> QED
    BY <1>1, <2>1, <2>2, SamePlan DEF IInv, ReferenceInv
<1>4. ctx.A /\ Present = Owners
  <2>1. ctx.A
    BY <1>0, <1>1 DEF CtxInv
  <2> QED
    BY <1>1, <1>2, <2>1, PresentFacts
<1>5. /\ launches' \in [Owners -> Nat] /\ launches'.A >= launches.A /\ launches'.B >= launches.B + 1
      /\ launches'.B >= launches.B /\ launches'.A \in Nat /\ launches'.B \in Nat
  <2>1. PICK n \in Nat : n >= 1 /\ Launch(0, n)
    BY DEF IdleB, AnchorLaunches
  <2>2. launches' \in [Owners -> Nat]
        /\ launches'.A = launches.A + 0 /\ launches'.B = launches.B + n
    BY <1>2, <2>1, LaunchFacts
  <2> QED
    BY <1>2, <2>1, <2>2
<1> DEFINE sample == [present |-> Present, a_launch_seq |-> 0, b_launch_seq |-> launches.B + 1]
           r == Row("takeover", "b_with_idle_a", cal, reference, sample)
<1>6. rows' = Append(rows, r)
  BY DEF IdleB
<1>7. sample \in SampleSet
  BY <1>2, PresentFacts DEF SampleSet
<1>8. r \in RowSet
  BY <1>0, <1>2, <1>7, RowType DEF PartNames, Conditions
<1>9. /\ r.experiment = "takeover" /\ r.target = target /\ r.trial = trial /\ r.work = cal
      /\ r.reference = reference /\ r.condition = "b_with_idle_a" /\ r.present = Present
      /\ r.a_launch_seq = 0 /\ r.b_launch_seq = launches.B + 1
  BY DEF Row
<1> HIDE DEF r, sample
<1>10. Attended(r) /\ Referred(r, Len(rows) + 1) /\ Within(r, launches')
  BY <1>2, <1>3, <1>4, <1>5, <1>9 DEF Attended, Referred, Within
<1>11. \A i \in DOMAIN rows : Newer(r, rows[i])
  <2>1. r.a_launch_seq \in Nat /\ r.b_launch_seq \in Nat /\ r.b_launch_seq > launches.B
    BY <1>2, <1>9
  <2> QED
    BY <1>9, <2>1, NewestLaunch
<1>12. /\ rows' \in Seq(RowSet)
       /\ \A i \in DOMAIN rows' : Attended(rows'[i]) /\ Referred(rows'[i], i) /\ Behind(rows'[i])
       /\ \A i, j \in DOMAIN rows' : SameWork(rows'[i], rows'[j])
       /\ \A i, j \in DOMAIN rows' : j < i => Newer(rows'[i], rows'[j])
  <2>1. r.experiment \in PartNames
    BY <1>9 DEF PartNames
  <2> QED
    BY <1>6, <1>8, <1>9, <1>10, <1>11, <2>1, MeasuredRow
<1>13. PlanInv'
  <2>1. pc' \in Loops
    BY <1>1 DEF Loops
  <2> QED
    BY <1>0, <1>1, <1>3, <2>1, SamePlanInv
<1>14. TypeInv'
  <2>1. bound' \in 0..revision'
    BY <1>0, <1>1 DEF TypeInv
  <2> QED
    BY <1>0, <1>1, <1>5, <1>12, <2>1 DEF TypeInv
<1>15. CtxInv'
  BY <1>0, <1>1, <1>4, SamePlan DEF CtxInv
<1>16. PresentInv'
  BY <1>1, <1>12 DEF PresentInv
<1>17. ReferenceInv'
  BY <1>1, <1>3, <1>12 DEF ReferenceInv
<1>18. WorkInv'
  <2>1. \A i \in DOMAIN rows' : Behind(rows[i])'
    BY <1>1, <1>12, SameBehind
  <2>2. \A i, j \in DOMAIN rows' : SameWork(rows[i], rows[j])'
    BY <1>12 DEF SameWork
  <2>3. ~Uncalibrated'
    BY <1>1 DEF Uncalibrated
  <2> QED
    BY <2>1, <2>2, <2>3 DEF WorkInv
<1>19. NumberInv'
  <2>1. \A i \in DOMAIN rows : Within(rows[i], launches')
    BY <1>5, StillWithin
  <2>2. \A i \in DOMAIN rows' : Within(rows'[i], launches')
    BY <1>0, <1>6, <1>8, <1>10, <2>1, AppendFacts, TypeFacts
  <2> QED
    BY <1>1, <1>12, <2>2 DEF NumberInv
<1>20. CountsInv'
  BY <1>1, SameCounts DEF Session
<1> QED
  BY <1>13, <1>14, <1>15, <1>16, <1>17, <1>18, <1>19, <1>20 DEF IInv

\* A calibration's row, or none, and the new work.
LEMMA CalibrationKeeps ==
  ASSUME IInv, Uncalibrated, UNCHANGED <<o, place, s, counts, run_status, bound, outcome>>,
         Calibration, ctx' \in [Owners -> BOOLEAN], revision' \in Nat, revision' >= revision,
         reference' \in [work : Nat, after : Nat],
         pc \in Loops \union {"calibrate"}, pc' \in Loops \ {"post"},
         \/ rows' = rows
         \/ \E r \in RowSet :
              /\ rows' = Append(rows, r) /\ r.experiment = "calibration" /\ Attended(r)
              /\ r.reference.work = r.work
              /\ r.target = target /\ r.trial = trial /\ r.a_launch_seq = 0 /\ r.b_launch_seq = 0
  PROVE  /\ TypeInv' /\ WorkInv' /\ NumberInv' /\ CountsInv' /\ PresentInv'
         /\ \A i \in DOMAIN rows' : Referred(rows'[i], i)
<1>0. PlanInv /\ TypeInv
  BY DEF IInv
<1>1. /\ cal' = cal + 1 /\ cal' \in Nat /\ launches' \in [Owners -> Nat]
      /\ launches'.A >= launches.A /\ launches'.B >= launches.B
      /\ launches'.A \in Nat /\ launches'.B \in Nat
  BY <1>0, CalibrationFacts DEF Owners
<1>2. rows' \in Seq(RowSet) /\ WorkInv' /\ NumberInv'
      /\ \A i \in DOMAIN rows' : Attended(rows'[i]) /\ Referred(rows'[i], i)
  <2>1. CASE rows' = rows
    <3>1. target' = target /\ trial' = trial /\ Live' = Live
      BY DEF place, Live
    <3>2. \A i \in DOMAIN rows' : Behind(rows[i])' /\ ~Here(rows[i])'
      <4>1. \A i \in DOMAIN rows : Behind(rows[i]) /\ ~Here(rows[i])
        BY DEF IInv, WorkInv
      <4> QED
        BY <2>1, <3>1, <4>1 DEF Behind, Here
    <3>3. \A i, j \in DOMAIN rows' : SameWork(rows[i], rows[j])'
      BY <2>1 DEF IInv, WorkInv, SameWork
    <3>4. WorkInv'
      BY <3>2, <3>3 DEF WorkInv
    <3>5. NumberInv'
      BY <1>1, <2>1, MoreLaunches
    <3>6. \A i \in DOMAIN rows' : Attended(rows'[i]) /\ Referred(rows'[i], i)
      BY <2>1 DEF IInv, PresentInv, ReferenceInv
    <3>7. rows' \in Seq(RowSet)
      BY <1>0, <2>1, TypeFacts
    <3> QED
      BY <3>4, <3>5, <3>6, <3>7
  <2>2. CASE rows' # rows
    <3>1. PICK r \in RowSet :
            /\ rows' = Append(rows, r) /\ r.experiment = "calibration" /\ Attended(r)
            /\ r.reference.work = r.work
            /\ r.target = target /\ r.trial = trial /\ r.a_launch_seq = 0 /\ r.b_launch_seq = 0
      BY <2>2
    <3>2. /\ rows' \in Seq(RowSet)
          /\ \A i \in DOMAIN rows' : Attended(rows'[i]) /\ Referred(rows'[i], i)
          /\ WorkInv'
          /\ \A i, j \in DOMAIN rows' : j < i => Newer(rows'[i], rows'[j])
      BY <3>1, CalibrationRow
    <3>3. \A i \in DOMAIN rows : Within(rows[i], launches')
      BY <1>1, StillWithin
    <3>4. Within(r, launches')
      BY <1>1, <3>1 DEF Within
    <3>5. \A i \in DOMAIN rows' : Within(rows'[i], launches')
      BY <1>0, <3>1, <3>3, <3>4, AppendFacts, TypeFacts
    <3>6. NumberInv'
      BY <3>2, <3>5 DEF NumberInv
    <3> QED
      BY <3>2, <3>6
  <2> QED
    BY <2>1, <2>2
<1>3. TypeInv'
  <2>1. bound' \in 0..revision'
    <3>1. bound \in 0..revision /\ revision \in Nat
      BY <1>0 DEF TypeInv
    <3> QED
      BY <3>1
  <2> QED
    BY <1>0, <1>1, <1>2, <2>1 DEF TypeInv
<1>4. CountsInv'
  <2>1. pc \notin {"report", "ended"} /\ pc' \notin Session \union {"close", "complete"}
    BY DEF Loops, Session
  <2> QED
    BY <2>1, SameCounts
<1>5. PresentInv'
  BY <1>2 DEF PresentInv
<1> QED
  BY <1>2, <1>3, <1>4, <1>5

LEMMA CalibrateKeeps == ASSUME IInv, Calibrate PROVE IInv'
<1>0. PlanInv /\ TypeInv /\ CtxInv
  BY DEF IInv
<1>1. /\ pc = "calibrate" /\ pc' = PartStart(Part) /\ Create({"A"}) /\ Calibration
      /\ reference' = [work |-> cal', after |-> Len(rows)]
      /\ UNCHANGED <<o, place, target, part, trial, order, s, counts, run_status, bound, outcome>>
  BY DEF Calibrate, bridge, ending, place
<1>2. /\ ctx \in [Owners -> BOOLEAN] /\ revision \in Nat /\ Len(rows) \in Nat
  BY <1>0, TypeFacts
<1>3. /\ ctx' \in [Owners -> BOOLEAN] /\ revision' \in Nat /\ revision' >= revision
      /\ ctx'.A /\ cal' \in Nat
  <2>1. /\ ctx' \in [Owners -> BOOLEAN] /\ revision' \in Nat /\ revision' >= revision
        /\ \A th \in Owners : ctx'[th] <=> ctx[th] \/ th \in {"A"}
    BY <1>1, <1>2, CreateFacts DEF Owners
  <2>2. ctx'.A
    BY <2>1 DEF Owners
  <2> QED
    BY <1>0, <1>1, <2>1, <2>2, CalibrationFacts
<1>4. /\ ~IsRm /\ part = 1 /\ trial = 0 /\ order = 0 /\ Len(Parts) \in 1..2
      /\ Part \in {"standby", "takeover", "live-handoff"} /\ (Live <=> Part = "live-handoff")
  BY <1>0, <1>1, StartFacts DEF PlanInv, Part
<1>5. /\ pc' \in {"set_b", "warm_b"}
      /\ pc' = "set_b" <=> Part = "standby"
      /\ pc' = "warm_b" <=> Part \in {"takeover", "live-handoff"}
  BY <1>1, <1>4, StartPlaces DEF PartNames
<1>6. reference' \in [work : Nat, after : Nat]
  BY <1>1, <1>2, <1>3
<1> DEFINE sample == [NoSample EXCEPT !.present = Present \union {"A"}]
           r == Row("calibration", "a_only", cal', reference', sample)
<1>7. rows' = Append(rows, r)
  BY DEF Calibrate
<1>8. sample \in SampleSet /\ sample.present = {"A"}
  <2>1. ~ctx.B
    BY <1>0, <1>1 DEF CtxInv
  <2>2. Present \union {"A"} = {"A"}
    BY <1>2, <2>1, PresentFacts
  <2> QED
    BY <2>2 DEF SampleSet, NoSample, Owners
<1>9. r \in RowSet
  BY <1>0, <1>3, <1>6, <1>8, RowType DEF Conditions
<1>10. /\ r.experiment = "calibration" /\ r.target = target /\ r.trial = trial
       /\ r.condition = "a_only" /\ r.present = {"A"} /\ r.a_launch_seq = 0 /\ r.b_launch_seq = 0
       /\ r.reference.work = r.work
  BY <1>1, <1>8 DEF Row, NoSample
<1> HIDE DEF r, sample
<1>11. Attended(r)
  BY <1>10 DEF Attended
<1>12. Uncalibrated /\ pc' \in Loops \ {"post"} /\ pc \in Loops \union {"calibrate"}
  BY <1>1, <1>5 DEF Uncalibrated, Loops
<1>13. /\ TypeInv' /\ WorkInv' /\ NumberInv' /\ CountsInv' /\ PresentInv'
       /\ \A i \in DOMAIN rows' : Referred(rows'[i], i)
  BY <1>1, <1>3, <1>6, <1>7, <1>9, <1>10, <1>11, <1>12, CalibrationKeeps
<1>14. PlanInv'
  <2>1. Part' = Part /\ Parts' = Parts /\ ConditionsOf(Part)' = ConditionsOf(Part) /\ IsRm' = IsRm
    BY <1>1, SamePlan
  <2>2. PICK n \in 1..3 : n = Len(ConditionsOf(Part))
    BY <1>0, <1>4, ConditionsFacts DEF PartNames, PlanInv
  <2>3. order' < Len(ConditionsOf(Part)')
    <3>1. Len(ConditionsOf(Part)') = n
      BY <2>1, <2>2
    <3>2. order' = 0
      BY <1>1, <1>4
    <3> QED
      BY <2>2, <3>1, <3>2
  <2>4. part' \in 1..Len(Parts')
    <3>1. part' = 1
      BY <1>1, <1>4
    <3>2. PICK m \in 1..2 : m = Len(Parts)
      BY <1>4
    <3>3. Len(Parts') = m
      BY <2>1, <3>2
    <3> QED
      BY <3>1, <3>3
  <2>5. /\ o' \in Settings /\ target' \in 1..(o').targets /\ part' \in 1..2 /\ order' \in 0..2
        /\ trial' \in 0..((o').trials - 1)
    BY <1>0, <1>1 DEF PlanInv
  <2> QED
    BY <1>4, <1>5, <2>1, <2>3, <2>4, <2>5 DEF PlanInv, Loops, Session, Endings
<1>15. CtxInv'
  <2>1. ~IsRm'
    BY <1>1, <1>4, SamePlan
  <2> QED
    BY <1>3, <1>5, <2>1 DEF CtxInv
<1>16. ReferenceInv'
  BY <1>1, <1>5, <1>13 DEF ReferenceInv
<1> QED
  BY <1>13, <1>14, <1>15, <1>16 DEF IInv

LEMMA RecalibrateKeeps == ASSUME IInv, Recalibrate PROVE IInv'
<1>0. PlanInv /\ TypeInv /\ CtxInv
  BY DEF IInv
<1>1. /\ pc = "recalibrate" /\ pc \in Loops /\ pc' = "reference" /\ Calibration
      /\ UNCHANGED <<o, place, target, part, trial, order, s, counts, run_status, bound, outcome>>
      /\ reference' = [work |-> cal', after |-> Len(rows)]
  BY DEF Recalibrate, bridge, ending, place, Loops
<1>2. /\ ctx \in [Owners -> BOOLEAN] /\ revision \in Nat /\ cal' \in Nat
      /\ reference' \in [work : Nat, after : Nat]
  BY <1>0, <1>1, TypeFacts, CalibrationFacts
<1>3. Part \in {"live-handoff", "preempt-hold"} /\ Live /\ ctx.B /\ Live' = Live
  <2>1. Part \in {"live-handoff", "preempt-hold"} /\ Live
    BY <1>0, <1>1, PartFacts DEF PlanInv
  <2> QED
    BY <1>0, <1>1, <2>1, SamePlan DEF CtxInv
<1>4. /\ ctx' \in [Owners -> BOOLEAN] /\ revision' \in Nat /\ revision' >= revision
      /\ ctx'.A /\ ctx'.B
  <2>1. CASE IsRm
    <3>1. ctx.A /\ ctx' = ctx /\ revision' = revision
      BY <2>1 DEF Recalibrate
    <3> QED
      BY <1>2, <1>3, <3>1
  <2>2. CASE ~IsRm
    <3>1. Create({"A"})
      BY <2>2 DEF Recalibrate
    <3>2. /\ ctx' \in [Owners -> BOOLEAN] /\ revision' \in Nat /\ revision' >= revision
          /\ \A th \in Owners : ctx'[th] <=> ctx[th] \/ th \in {"A"}
      BY <1>2, <3>1, CreateFacts DEF Owners
    <3> QED
      BY <1>3, <3>2 DEF Owners
  <2> QED
    BY <2>1, <2>2
<1>5. \/ rows' = rows
      \/ \E r \in RowSet :
           /\ rows' = Append(rows, r) /\ r.experiment = "calibration" /\ Attended(r)
           /\ r.reference.work = r.work
           /\ r.target = target /\ r.trial = trial /\ r.a_launch_seq = 0 /\ r.b_launch_seq = 0
  <2>1. CASE IsRm
    BY <2>1 DEF Recalibrate
  <2>2. CASE ~IsRm
    <3> DEFINE sample == [NoSample EXCEPT !.present = Present \union {"A"}]
               r == Row("calibration", "a_with_idle_b", cal', reference', sample)
    <3>1. rows' = Append(rows, r)
      BY <2>2 DEF Recalibrate
    <3>2. sample \in SampleSet /\ sample.present = Owners
      BY <1>2, <1>3, PresentFacts DEF SampleSet, NoSample
    <3>3. r \in RowSet
      BY <1>0, <1>2, <3>2, RowType DEF Conditions
    <3>4. /\ r.experiment = "calibration" /\ r.target = target /\ r.trial = trial
          /\ r.condition = "a_with_idle_b" /\ r.present = Owners
          /\ r.a_launch_seq = 0 /\ r.b_launch_seq = 0 /\ r.reference.work = r.work
      BY <1>1, <3>2 DEF Row, NoSample
    <3> HIDE DEF r, sample
    <3>5. Attended(r)
      BY <3>4 DEF Attended
    <3> QED
      BY <3>1, <3>3, <3>4, <3>5
  <2> QED
    BY <2>1, <2>2
<1>6. Uncalibrated /\ pc' \in Loops \ {"post"} /\ pc \in Loops \union {"calibrate"}
  BY <1>1, <1>3 DEF Uncalibrated, Loops
<1>7. /\ TypeInv' /\ WorkInv' /\ NumberInv' /\ CountsInv' /\ PresentInv'
      /\ \A i \in DOMAIN rows' : Referred(rows'[i], i)
  BY <1>1, <1>2, <1>4, <1>5, <1>6, CalibrationKeeps
<1>8. PlanInv'
  BY <1>0, <1>1, <1>3, <1>6, SamePlanInv
<1>9. CtxInv'
  BY <1>1, <1>4 DEF CtxInv
<1>10. ReferenceInv'
  BY <1>1, <1>3, <1>7 DEF ReferenceInv
<1> QED
  BY <1>7, <1>8, <1>9, <1>10 DEF IInv

\* The row of a failed handoff.
LEMMA ErrorRowFacts ==
  ASSUME IInv, ErrorRow, Marked
  PROVE  \E r \in RowSet :
           /\ rows' = Append(rows, r) /\ r.experiment \in PartNames
           /\ r.target = target /\ r.trial = trial /\ r.work = cal
           /\ Attended(r) /\ Referred(r, Len(rows) + 1)
           /\ \A i \in DOMAIN rows : Newer(r, rows[i])
           /\ launches' \in [Owners -> Nat]
           /\ launches'.A >= launches.A /\ launches'.B >= launches.B /\ Within(r, launches')
<1>0. PlanInv /\ TypeInv
  BY DEF IInv
<1>1. pc \in {"handoff", "post"} /\ pc \in Loops
  BY DEF Marked, Loops
<1>2. /\ launches \in [Owners -> Nat] /\ launches.A \in Nat /\ launches.B \in Nat /\ cal \in Nat
      /\ reference \in [work : Nat, after : Nat] /\ s \in SampleSet /\ Len(rows) \in Nat
      /\ ctx \in [Owners -> BOOLEAN]
  BY <1>0, TypeFacts
<1>3. Part \in PartNames /\ Part # "standby" /\ (Live <=> Part \in {"live-handoff", "preempt-hold"})
  BY <1>0, <1>1, PartFacts DEF PlanInv
<1>4. condition \in Conditions
  BY <1>0, <1>1, ConditionFacts
<1>5. PICK sample \in {s} \union PartOf(Measured) :
        /\ pc = "post" => sample = s /\ launches' = launches
        /\ pc # "post" =>
             /\ sample \in PartOf(Measured)
             /\ launches' = [A |-> IF sample.a_launch_seq = 0 THEN launches.A ELSE sample.a_launch_seq,
                             B |-> IF sample.b_launch_seq = 0 THEN launches.B ELSE sample.b_launch_seq]
        /\ rows' = Append(rows, [Row(Part, condition, cal, reference, sample) EXCEPT !.status = "error"])
  BY <1>1 DEF ErrorRow, Erroneous
<1>6. /\ sample \in SampleSet
      /\ pc # "post" => /\ sample.a_launch_seq = 0 \/ sample.a_launch_seq = launches.A + 1
                        /\ sample.b_launch_seq = 0 \/ sample.b_launch_seq = launches.B + 1
  <2>1. CASE pc = "post"
    BY <1>2, <1>5, <2>1
  <2>2. CASE pc # "post"
    <3>1. sample \in PartOf(Measured)
      BY <1>5, <2>2
    <3>2. /\ Measured.present \in SUBSET Owners
          /\ Measured.a_launch_seq \in {0, launches.A + 1} /\ Measured.b_launch_seq = launches.B + 1
      BY <1>2, PresentFacts DEF Measured
    <3>3. PICK a \in {0, Measured.a_launch_seq}, b \in {0, Measured.b_launch_seq} :
            sample = [Measured EXCEPT !.a_launch_seq = a, !.b_launch_seq = b]
      BY <3>1 DEF PartOf
    <3>4. sample = [present |-> Measured.present, a_launch_seq |-> a, b_launch_seq |-> b]
      BY <3>3 DEF Measured
    <3> HIDE DEF Measured
    <3> QED
      BY <1>2, <2>2, <3>2, <3>3, <3>4 DEF SampleSet
  <2> QED
    BY <2>1, <2>2
<1> DEFINE r == [Row(Part, condition, cal, reference, sample) EXCEPT !.status = "error"]
<1>7. rows' = Append(rows, r)
  BY <1>5
<1>8. r \in RowSet
  BY <1>0, <1>2, <1>3, <1>4, <1>6, RowType
<1>9. /\ r.experiment = Part /\ r.target = target /\ r.trial = trial /\ r.work = cal
      /\ r.reference = reference /\ r.status = "error"
      /\ r.a_launch_seq = sample.a_launch_seq /\ r.b_launch_seq = sample.b_launch_seq
  BY DEF Row
<1> HIDE DEF r
<1>10. Attended(r)
  BY <1>9 DEF Attended
<1>11. Referred(r, Len(rows) + 1)
  <2>1. Live => reference = [work |-> cal, after |-> Len(rows)]
    BY <1>1 DEF IInv, ReferenceInv
  <2>2. ~Live => reference.work = cal
    BY <1>1 DEF IInv, ReferenceInv
  <2>3. Len(rows) + 1 - 1 = Len(rows)
    BY <1>2
  <2> QED
    BY <1>3, <1>9, <2>1, <2>2, <2>3 DEF Referred, PartNames
<1>12. sample.a_launch_seq \in Nat /\ sample.b_launch_seq \in Nat
  BY <1>6 DEF SampleSet
<1>13. \A i \in DOMAIN rows : Newer(r, rows[i])
  <2>1. CASE pc = "post"
    <3>1. \A i \in DOMAIN rows : Newer(s, rows[i])
      BY <2>1 DEF IInv, NumberInv
    <3> QED
      BY <1>5, <1>9, <2>1, <3>1 DEF Newer
  <2>2. CASE pc # "post"
    <3>1. /\ r.a_launch_seq = 0 \/ r.a_launch_seq > launches.A
          /\ r.b_launch_seq = 0 \/ r.b_launch_seq > launches.B
      BY <1>2, <1>6, <1>9, <2>2
    <3> QED
      BY <1>9, <1>12, <3>1, NewestLaunch
  <2> QED
    BY <2>1, <2>2
<1>14. /\ launches' \in [Owners -> Nat]
       /\ launches'.A >= launches.A /\ launches'.B >= launches.B /\ Within(r, launches')
  <2>1. CASE pc = "post"
    <3>1. Within(s, launches)
      BY <2>1 DEF IInv, NumberInv
    <3> QED
      BY <1>2, <1>5, <1>9, <2>1, <3>1 DEF Within
  <2>2. CASE pc # "post"
    <3>1. launches'.A = (IF sample.a_launch_seq = 0 THEN launches.A ELSE sample.a_launch_seq)
          /\ launches'.B = (IF sample.b_launch_seq = 0 THEN launches.B ELSE sample.b_launch_seq)
      BY <1>5, <2>2
    <3>2. launches' \in [Owners -> Nat]
      BY <1>2, <1>5, <1>12, <2>2 DEF Owners
    <3>3. launches'.A >= launches.A /\ launches'.B >= launches.B
      BY <1>2, <1>6, <2>2, <3>1
    <3>4. sample.a_launch_seq <= launches'.A /\ sample.b_launch_seq <= launches'.B
      BY <1>2, <1>12, <3>1
    <3> QED
      BY <1>9, <3>2, <3>3, <3>4 DEF Within
  <2> QED
    BY <2>1, <2>2
<1> QED
  BY <1>3, <1>7, <1>8, <1>9, <1>10, <1>11, <1>13, <1>14

LEMMA FailKeeps == ASSUME IInv, Fail PROVE IInv'
<1>0. PlanInv /\ TypeInv /\ CtxInv
  BY DEF IInv
<1>1. /\ pc' = "unwind" /\ pc \notin {"report", "unwind", "ended"}
      /\ UNCHANGED <<o, place, target, part, trial, order, ctx, cal, reference, s, counts>>
      /\ UNCHANGED <<run_status, revision, bound, outcome>>
      /\ (Marked /\ ErrorRow) \/ UNCHANGED <<rows, launches>>
  BY DEF Fail, work, bridge, place
<1>2. PlanInv'
  BY <1>0, <1>1, SamePlanInv DEF Endings
<1>3. /\ rows' \in Seq(RowSet) /\ launches' \in [Owners -> Nat]
      /\ \A i \in DOMAIN rows' : Attended(rows'[i]) /\ Referred(rows'[i], i)
      /\ WorkInv' /\ NumberInv'
  <2>1. CASE UNCHANGED <<rows, launches>>
    <3>1. rows' \in Seq(RowSet) /\ launches' \in [Owners -> Nat]
          /\ launches'.A >= launches.A /\ launches'.B >= launches.B
      BY <1>0, <2>1, TypeFacts
    <3>2. ~Uncalibrated'
      BY <1>1 DEF Uncalibrated
    <3>3. WorkInv' /\ \A i \in DOMAIN rows' : Attended(rows'[i]) /\ Referred(rows'[i], i)
      BY <1>1, <2>1, <3>2, NoRow
    <3>4. NumberInv'
      BY <1>1, <2>1, <3>1, MoreLaunches
    <3> QED
      BY <3>1, <3>3, <3>4
  <2>2. CASE Marked /\ ErrorRow
    <3>1. PICK r \in RowSet :
            /\ rows' = Append(rows, r) /\ r.experiment \in PartNames
            /\ r.target = target /\ r.trial = trial /\ r.work = cal
            /\ Attended(r) /\ Referred(r, Len(rows) + 1)
            /\ \A i \in DOMAIN rows : Newer(r, rows[i])
            /\ launches' \in [Owners -> Nat]
            /\ launches'.A >= launches.A /\ launches'.B >= launches.B /\ Within(r, launches')
      BY <2>2, ErrorRowFacts
    <3>2. /\ rows' \in Seq(RowSet)
          /\ \A i \in DOMAIN rows' : Attended(rows'[i]) /\ Referred(rows'[i], i) /\ Behind(rows'[i])
          /\ \A i, j \in DOMAIN rows' : SameWork(rows'[i], rows'[j])
          /\ \A i, j \in DOMAIN rows' : j < i => Newer(rows'[i], rows'[j])
      BY <3>1, MeasuredRow
    <3>3. WorkInv'
      <4>1. \A i \in DOMAIN rows' : Behind(rows[i])'
        BY <1>1, <3>2, SameBehind
      <4>2. \A i, j \in DOMAIN rows' : SameWork(rows[i], rows[j])'
        BY <3>2 DEF SameWork
      <4>3. ~Uncalibrated'
        BY <1>1 DEF Uncalibrated
      <4> QED
        BY <4>1, <4>2, <4>3 DEF WorkInv
    <3>4. \A i \in DOMAIN rows : Within(rows[i], launches')
      BY <3>1, StillWithin
    <3>5. \A i \in DOMAIN rows' : Within(rows'[i], launches')
      BY <1>0, <3>1, <3>4, AppendFacts, TypeFacts
    <3>6. NumberInv'
      BY <1>1, <3>2, <3>5 DEF NumberInv
    <3> QED
      BY <3>1, <3>2, <3>3, <3>6
  <2> QED
    BY <1>1, <2>1, <2>2
<1>4. TypeInv'
  BY <1>0, <1>1, <1>3 DEF TypeInv
<1>5. CtxInv'
  BY <1>1 DEF CtxInv, Loops
<1>6. PresentInv'
  BY <1>1, <1>3 DEF PresentInv
<1>7. ReferenceInv'
  BY <1>1, <1>3 DEF ReferenceInv, Loops
<1>8. CountsInv'
  BY <1>1, SameCounts DEF Session
<1> QED
  BY <1>2, <1>3, <1>4, <1>5, <1>6, <1>7, <1>8 DEF IInv

LEMMA StutterKeeps == ASSUME IInv, UNCHANGED vars PROVE IInv'
<1>0. PlanInv /\ TypeInv /\ CtxInv
  BY DEF IInv
<1>1. /\ UNCHANGED <<o, pc, place, target, part, trial, order, ctx, launches, cal, reference, s>>
      /\ UNCHANGED <<rows, counts, revision, bound, run_status, outcome>>
  BY DEF vars, place
<1>2. /\ Part' = Part /\ Parts' = Parts /\ condition' = condition
      /\ ConditionsOf(Part)' = ConditionsOf(Part)
      /\ Live' = Live /\ IsRm' = IsRm /\ IsRewind(o)' = IsRewind(o)
  BY <1>1, SamePlan
<1>3. Uncalibrated' <=> Uncalibrated
  BY <1>1, <1>2 DEF Uncalibrated
<1>4. WorkInv' /\ \A i \in DOMAIN rows' : Attended(rows'[i]) /\ Referred(rows'[i], i)
  BY <1>1, <1>3, NoRow
<1>5. PlanInv'
  BY <1>0, <1>1, <1>2 DEF PlanInv
<1>6. TypeInv'
  BY <1>0, <1>1 DEF TypeInv
<1>7. CtxInv'
  BY <1>0, <1>1, <1>2 DEF CtxInv
<1>8. PresentInv'
  BY <1>1, <1>4 DEF IInv, PresentInv
<1>9. ReferenceInv'
  BY <1>1, <1>2, <1>4 DEF IInv, ReferenceInv
<1>10. NumberInv'
  BY <1>1 DEF IInv, NumberInv, Within, Newer
<1>11. CountsInv'
  BY <1>1 DEF IInv, CountsInv
<1> QED
  BY <1>4, <1>5, <1>6, <1>7, <1>8, <1>9, <1>10, <1>11 DEF IInv

LEMMA NextKeeps == ASSUME IInv, [Next]_vars PROVE IInv'
<1>1. CASE UNCHANGED vars
  BY <1>1, StutterKeeps
<1>2. CASE Done
  BY <1>2, StutterKeeps DEF Done
<1> QED
  BY <1>1, <1>2, CloseBKeeps, CalibrateKeeps, SetBKeeps, MeasureAKeeps, PrepareBKeeps,
     RecalibrateKeeps, ReferenceKeeps, AnchorKeeps, PrepareKeeps, IdleBKeeps, HandOffKeeps,
     PostKeeps, ScopeKeeps, BContextKeeps, BindKeeps, ProbeKeeps, RewindRunKeeps, CountsKeeps,
     CloseBothKeeps, CompleteKeeps, ReportKeeps, FailKeeps, UnwindKeeps DEF Next

LEMMA InitIInv == ASSUME Init PROVE IInv
<1>1. /\ o \in Settings /\ target = 1 /\ part = 1 /\ trial = 0 /\ order = 0
      /\ pc = (IF IsRm THEN "scope" ELSE "close_b") /\ rows = <<>> /\ cal = 0
      /\ run_status = "initializing" /\ outcome = "none" /\ s = NoSample
      /\ reference = [work |-> 0, after |-> 0] /\ revision = 0 /\ bound = 0
      /\ ctx = [th \in Owners |-> FALSE]
      /\ launches = [A |-> 0, B |-> 0] /\ counts = [A |-> 0, B |-> 0]
  BY DEF Init
<1>2. DOMAIN rows = {}
  BY <1>1
<1>3. o.trials \in Nat \ {0} /\ o.targets \in Nat \ {0}
  BY <1>1, OptionFacts
<1>4. PlanInv
  <2>1. target \in 1..o.targets /\ trial \in 0..(o.trials - 1)
    BY <1>1, <1>3
  <2> QED
    BY <1>1, <2>1 DEF PlanInv, Loops, Session, Endings
<1>5. TypeInv
  <2>1. launches \in [Owners -> Nat] /\ counts \in [Owners -> Nat]
    BY <1>1 DEF Owners
  <2>2. rows \in Seq(RowSet)
    BY <1>1
  <2>3. s \in SampleSet
    BY <1>1 DEF NoSample, SampleSet
  <2> QED
    BY <1>1, <2>1, <2>2, <2>3 DEF TypeInv
<1>6. CtxInv
  BY <1>1 DEF CtxInv, Loops, Owners
<1>7. PresentInv /\ ReferenceInv /\ WorkInv /\ NumberInv /\ CountsInv
  BY <1>1, <1>2 DEF PresentInv, ReferenceInv, WorkInv, NumberInv, CountsInv, Loops
<1> QED
  BY <1>4, <1>5, <1>6, <1>7 DEF IInv

--------------------------------------------------------------------------------
(* Controls: the trials behind, and the conditions of this one.             *)

Kinds == {"preempt", "fifo", "schedule"}

\* The condition in place k of the order of this trial, and what it took.
InPlace(k) == LET c == ConditionsOf(Part) IN c[((trial + k) % Len(c)) + 1]
Spent(kind, k) == IF k < order THEN ControlsOf(InPlace(k))[kind] ELSE 0

TrialsBehind == (target - 1) * o.trials + trial

\* The binding is current; each trial behind took two controls of a kind at
\* most, and so did the idle probe.
BudgetInv ==
  /\ controls \in [Kinds -> Nat]
  /\ IsRm /\ pc \in {"probe", "rewind"} \union Loops => bound = revision
  /\ IsRm /\ pc \in Session \ {"rewind"} => \A kind \in Kinds : controls[kind] = 0
  /\ pc = "rewind" => controls = ProbeControls
  /\ IsRm /\ pc \in Loops \ {"post"} => \A kind \in Kinds :
       controls[kind] <= 2 + 2 * TrialsBehind + Spent(kind, 0) + Spent(kind, 1)
  /\ IsRm /\ pc = "post" => \A kind \in Kinds :
       controls[kind] <= 2 + 2 * TrialsBehind + Spent(kind, 0) + Spent(kind, 1)
                         + ControlsOf(condition)[kind]

LEMMA ControlsFacts ==
  ASSUME NEW c
  PROVE  /\ ControlsOf(c) \in [Kinds -> Nat] /\ \A kind \in Kinds : ControlsOf(c)[kind] \in 0..2
         /\ ProbeControls \in [Kinds -> Nat] /\ \A kind \in Kinds : ProbeControls[kind] \in 0..2
<1>1. /\ ControlsOf(c) \in [Kinds -> Nat]
      /\ \A kind \in Kinds : ControlsOf(c)[kind] \in 0..2
  BY DEF ControlsOf, Kinds
<1>2. /\ ControlsOf("idle") = [preempt |-> 0, fifo |-> 0, schedule |-> 0]
      /\ HoldKind \in {"fifo", "schedule"}
  BY DEF ControlsOf, HoldKind
<1>3. /\ ProbeControls \in [Kinds -> Nat]
      /\ \A kind \in Kinds : ProbeControls[kind] \in 0..2
  BY <1>2 DEF ProbeControls, Kinds
<1> QED
  BY <1>1, <1>3

LEMMA IssueFacts ==
  ASSUME controls \in [Kinds -> Nat], NEW needed \in [Kinds -> Nat], Issue(needed)
  PROVE  /\ controls' \in [Kinds -> Nat]
         /\ \A kind \in Kinds : controls'[kind] = controls[kind] + needed[kind]
<1>1. controls' = [kind \in Kinds |-> controls[kind] + needed[kind]]
  BY DEF Issue
<1> QED
  BY <1>1

\* The conditions of one trial take two controls of a kind together.
LEMMA TrialCost ==
  ASSUME PlanInv, IsRm, pc \in Loops, NEW kind \in Kinds
  PROVE  /\ Spent(kind, 0) \in Nat /\ Spent(kind, 1) \in Nat
         /\ ControlsOf(condition)[kind] \in Nat
         /\ Spent(kind, 0) + Spent(kind, 1) + ControlsOf(condition)[kind] <= 2
<1>1. /\ Part = "preempt-hold" /\ trial \in Nat /\ order \in 0..2
      /\ order < Len(ConditionsOf(Part))
  BY PartFacts, OptionFacts DEF PlanInv
<1>2. condition = InPlace(order)
  BY DEF condition, InPlace
<1>3. \A k \in 0..2 : ControlsOf(InPlace(k))[kind] \in 0..2
  BY ControlsFacts
<1>4. CASE o.rm_case = "all"
  <2> DEFINE c == <<"live-handoff", "preempt-resume", "preempt-hold">>
             q == trial % 3
             at(k) == c[((trial + k) % 3) + 1]
  <2>1. ConditionsOf(Part) = c /\ Len(c) = 3
    BY <1>1, <1>4 DEF ConditionsOf
  <2>2. \A k \in 0..2 : InPlace(k) = at(k)
    BY <2>1 DEF InPlace
  <2>3. /\ q \in 0..2 /\ (trial + 0) % 3 = q
        /\ (trial + 1) % 3 = (IF q = 2 THEN 0 ELSE q + 1)
        /\ (trial + 2) % 3 = (IF q = 0 THEN 2 ELSE q - 1)
    BY <1>1
  <2>4. /\ at(0) # at(1) /\ at(1) # at(2) /\ at(0) # at(2)
        /\ \A k \in 0..2 : at(k) \in {"live-handoff", "preempt-resume", "preempt-hold"}
    <3>1. CASE q = 0
      <4>1. (trial + 0) % 3 = 0 /\ (trial + 1) % 3 = 1 /\ (trial + 2) % 3 = 2
        BY <2>3, <3>1
      <4>2. at(0) = "live-handoff" /\ at(1) = "preempt-resume" /\ at(2) = "preempt-hold"
        BY <4>1
      <4> QED
        BY <4>2
    <3>2. CASE q = 1
      <4>1. (trial + 0) % 3 = 1 /\ (trial + 1) % 3 = 2 /\ (trial + 2) % 3 = 0
        BY <2>3, <3>2
      <4>2. at(0) = "preempt-resume" /\ at(1) = "preempt-hold" /\ at(2) = "live-handoff"
        BY <4>1
      <4> QED
        BY <4>2
    <3>3. CASE q = 2
      <4>1. (trial + 0) % 3 = 2 /\ (trial + 1) % 3 = 0 /\ (trial + 2) % 3 = 1
        BY <2>3, <3>3
      <4>2. at(0) = "preempt-hold" /\ at(1) = "live-handoff" /\ at(2) = "preempt-resume"
        BY <4>1
      <4> QED
        BY <4>2
    <3> QED
      BY <2>3, <3>1, <3>2, <3>3
  <2> HIDE DEF at, q, c
  <2>5. \A x \in {"live-handoff", "preempt-resume", "preempt-hold"} :
          ControlsOf(x)[kind] = IF kind = "preempt" THEN (IF x = "live-handoff" THEN 0 ELSE 1)
                                ELSE IF kind = "fifo" THEN (IF x = "preempt-hold" THEN 2 ELSE 0)
                                ELSE 0
    BY DEF ControlsOf, Kinds
  <2>6. ControlsOf(at(0))[kind] + ControlsOf(at(1))[kind] + ControlsOf(at(2))[kind] <= 2
    BY <2>4, <2>5
  <2>7. /\ Spent(kind, 0) = IF 0 < order THEN ControlsOf(at(0))[kind] ELSE 0
        /\ Spent(kind, 1) = IF 1 < order THEN ControlsOf(at(1))[kind] ELSE 0
        /\ ControlsOf(condition)[kind] = ControlsOf(at(order))[kind]
        /\ \A k \in 0..2 : ControlsOf(at(k))[kind] \in 0..2
    BY <1>1, <1>2, <1>3, <2>2 DEF Spent
  <2> QED
    <3>1. CASE order = 0
      BY <2>7, <3>1
    <3>2. CASE order = 1
      BY <2>6, <2>7, <3>2
    <3>3. CASE order = 2
      BY <2>6, <2>7, <3>3
    <3> QED
      BY <1>1, <3>1, <3>2, <3>3
<1>5. CASE o.rm_case # "all"
  <2>1. ConditionsOf(Part) = <<o.rm_case>>
    BY <1>1, <1>5 DEF ConditionsOf
  <2>2. order = 0
    <3>1. order < Len(<<o.rm_case>>)
      BY <1>1, <2>1
    <3>2. order < 1
      BY <3>1
    <3> QED
      BY <1>1, <3>2
  <2> QED
    BY <1>2, <1>3, <2>2 DEF Spent
<1> QED
  BY <1>4, <1>5

\* Up to the last trial of the last target there is room for two more.
LEMMA RoomForTrial ==
  ASSUME PlanInv, IsRm, pc \in Loops
  PROVE  TrialsBehind \in Nat /\ 2 + 2 * TrialsBehind + 2 <= Budget
<1> DEFINE t == o.trials
           n == o.targets
<1>1. t \in Nat \ {0} /\ n \in Nat \ {0} /\ target \in 1..n /\ trial \in 0..(t - 1)
  BY OptionFacts DEF PlanInv
<1>2. o.rm_case # "rewind-paired"
  BY DEF PlanInv, IsRewind
<1>3. Budget = 2 * t * n + 2
  BY <1>2 DEF Budget
<1>4. TrialsBehind = (target - 1) * t + trial
  BY DEF TrialsBehind
<1> HIDE DEF t, n
<1>5. PICK behind \in Nat : behind = target - 1
  BY <1>1
<1>6. PICK left \in Nat : n = behind + 1 + left
  <2>1. n - target \in Nat /\ n = behind + 1 + (n - target)
    BY <1>1, <1>5
  <2> QED
    BY <2>1
<1>7. behind * t \in Nat /\ left * t \in Nat
  BY <1>1
<1>8. t * n = behind * t + t + left * t
  BY <1>1, <1>5, <1>6
<1>9. 2 * t * n = 2 * (t * n) /\ t * n \in Nat
  BY <1>1
<1> QED
  BY <1>1, <1>3, <1>4, <1>5, <1>7, <1>8, <1>9

LEMMA SameSpent ==
  ASSUME UNCHANGED <<o, place>>
  PROVE  /\ TrialsBehind' = TrialsBehind /\ IsRm' = IsRm
         /\ \A kind : Spent(kind, 0)' = Spent(kind, 0) /\ Spent(kind, 1)' = Spent(kind, 1)
         /\ \A kind : ControlsOf(condition)[kind]' = ControlsOf(condition)[kind]
<1>1. UNCHANGED <<target, part, trial, order>>
  BY DEF place
<1>2. ConditionsOf(Part)' = ConditionsOf(Part) /\ condition' = condition /\ IsRm' = IsRm
  BY <1>1, SamePlan
<1>3. InPlace(0)' = InPlace(0) /\ InPlace(1)' = InPlace(1)
  BY <1>1, <1>2 DEF InPlace
<1>4. TrialsBehind' = TrialsBehind
  BY <1>1 DEF TrialsBehind
<1>5. \A kind : Spent(kind, 0)' = Spent(kind, 0) /\ Spent(kind, 1)' = Spent(kind, 1)
  BY <1>1, <1>3 DEF Spent, ControlsOf
<1> QED
  BY <1>2, <1>4, <1>5 DEF ControlsOf

\* Only an RM run has a bridge.
LEMMA OtherModes ==
  ASSUME BudgetInv, PlanInv', ~IsRm, UNCHANGED <<o, controls>>
  PROVE  BudgetInv'
<1>1. ~IsRm' /\ pc' # "rewind"
  BY DEF IsRm, PlanInv, Session
<1> QED
  BY <1>1 DEF BudgetInv

\* Steps within a trial that neither create a context nor issue a control.
LEMMA SameBudget ==
  ASSUME BudgetInv, UNCHANGED <<o, place, bound, controls, revision>>,
         pc \in Loops \ {"post"}, pc' \in Loops \ {"post"}
  PROVE  BudgetInv'
<1>1. pc # "rewind" /\ pc' # "rewind" /\ pc' \notin Session
  BY DEF Loops, Session
<1>2. ASSUME IsRm', NEW kind \in Kinds
      PROVE  controls'[kind] <= 2 + 2 * TrialsBehind' + Spent(kind, 0)' + Spent(kind, 1)'
  BY <1>2, SameSpent DEF BudgetInv
<1>3. IsRm' => bound' = revision'
  BY SameSpent DEF BudgetInv
<1> QED
  BY <1>1, <1>2, <1>3 DEF BudgetInv

\* Steps that end the plan.
LEMMA BudgetAtEnd ==
  ASSUME controls' \in [Kinds -> Nat], pc' \in Endings
  PROVE  BudgetInv'
<1>1. pc' \notin Session \union Loops /\ pc' \notin {"rewind", "probe", "post"}
  BY DEF Loops, Session, Endings
<1> QED
  BY <1>1 DEF BudgetInv

LEMMA BudgetStarts ==
  ASSUME PlanInv, PlanInv', IsRm, UNCHANGED <<o, place>>, target = 1, trial = 0, order = 0,
         pc' = "recalibrate", bound' = revision', controls' \in [Kinds -> Nat],
         \A kind \in Kinds : controls'[kind] <= 2
  PROVE  BudgetInv'
<1>1. pc' \notin Session /\ pc' # "rewind" /\ pc' # "post" /\ IsRm'
  BY SameSpent DEF Session
<1>2. /\ TrialsBehind' = 0
      /\ \A kind : Spent(kind, 0)' = 0 /\ Spent(kind, 1)' = 0
  <2>1. target' = 1 /\ trial' = 0 /\ order' = 0 /\ o'.trials \in Nat
    BY OptionFacts DEF place, PlanInv
  <2> QED
    BY <2>1 DEF TrialsBehind, Spent
<1> QED
  BY <1>1, <1>2 DEF BudgetInv

LEMMA HandOffBudget == ASSUME IInv, BudgetInv, HandOff, IsRm PROVE BudgetInv'
<1>1. /\ pc = "handoff" /\ pc' = "post" /\ pc \in Loops
      /\ UNCHANGED <<o, place, bound>> /\ Issue(ControlsOf(condition)) /\ UNCHANGED revision
  BY DEF HandOff, Close, Loops
<1>2. /\ controls' \in [Kinds -> Nat] /\ controls \in [Kinds -> Nat]
      /\ \A kind \in Kinds : controls'[kind] = controls[kind] + ControlsOf(condition)[kind]
  BY <1>1, ControlsFacts, IssueFacts DEF BudgetInv
<1>3. pc' \notin Session /\ pc' # "rewind" /\ IsRm'
  BY <1>1, SameSpent DEF Session
<1>4. bound' = revision'
  BY <1>1 DEF BudgetInv
<1>5. TrialsBehind \in Nat
  BY <1>1, RoomForTrial DEF IInv
<1>6. ASSUME NEW kind \in Kinds
      PROVE  controls'[kind] <= 2 + 2 * TrialsBehind' + Spent(kind, 0)' + Spent(kind, 1)'
                                + ControlsOf(condition)[kind]'
  <2>1. controls[kind] <= 2 + 2 * TrialsBehind + Spent(kind, 0) + Spent(kind, 1)
    BY <1>1 DEF BudgetInv
  <2>2. /\ Spent(kind, 0) \in Nat /\ Spent(kind, 1) \in Nat
        /\ ControlsOf(condition)[kind] \in Nat /\ controls[kind] \in Nat
    BY <1>1, <1>2, TrialCost DEF IInv
  <2>3. controls'[kind] <= 2 + 2 * TrialsBehind + Spent(kind, 0) + Spent(kind, 1)
                           + ControlsOf(condition)[kind]
    BY <1>2, <1>5, <2>1, <2>2
  <2> QED
    BY <1>1, <2>3, SameSpent
<1> QED
  BY <1>1, <1>2, <1>3, <1>4, <1>6 DEF BudgetInv

LEMMA PostBudget == ASSUME IInv, IInv', BudgetInv, Post, IsRm PROVE BudgetInv'
<1>1. /\ pc = "post" /\ pc \in Loops /\ EndCase /\ UNCHANGED <<o, revision, bound, controls>>
      /\ PlanInv /\ PlanInv'
  BY DEF Post, bridge, Loops, IInv
<1>2. /\ IsRm' /\ IsRewind(o)' = IsRewind(o) /\ Live /\ Parts' = Parts
      /\ controls \in [Kinds -> Nat] /\ bound = revision
  BY <1>1 DEF IsRm, IsRewind, Live, BudgetInv, Parts
<1>3. /\ TrialsBehind \in Nat /\ o.trials \in Nat \ {0} /\ trial \in Nat /\ target \in Nat \ {0}
      /\ order \in 0..2 /\ part \in 1..2 /\ part \in 1..Len(Parts) /\ Len(Parts) = 1
      /\ Part = "preempt-hold" /\ Parts[1] = "preempt-hold"
  BY <1>1, <1>2, RoomForTrial, OptionFacts, PartFacts DEF PlanInv
<1>4. ASSUME NEW kind \in Kinds
      PROVE  /\ Spent(kind, 0) \in Nat /\ Spent(kind, 1) \in Nat
             /\ ControlsOf(condition)[kind] \in Nat /\ controls[kind] \in Nat
             /\ Spent(kind, 0) + Spent(kind, 1) + ControlsOf(condition)[kind] <= 2
             /\ controls[kind] <= 2 + 2 * TrialsBehind + Spent(kind, 0) + Spent(kind, 1)
                                  + ControlsOf(condition)[kind]
  BY <1>1, <1>2, TrialCost DEF BudgetInv
<1>5. ASSUME NEW kind \in Kinds PROVE controls[kind] <= 2 + 2 * (TrialsBehind + 1)
  BY <1>3, <1>4
<1>6. CASE /\ order + 1 < Len(ConditionsOf(Part)) /\ order' = order + 1 /\ pc' = CaseStart(Part)
           /\ UNCHANGED <<target, part, trial>>
  <2>1. pc' = "reference" /\ pc' \in Loops
    BY <1>3, <1>6 DEF CaseStart, Loops
  <2>2. Part' = Part /\ ConditionsOf(Part)' = ConditionsOf(Part)
    <3>1. Part' = Part
      BY <1>2, <1>6 DEF Part
    <3> QED
      BY <1>1, <3>1 DEF ConditionsOf
  <2>3. InPlace(0)' = InPlace(0) /\ InPlace(1)' = InPlace(1)
    BY <1>6, <2>2 DEF InPlace
  <2>4. TrialsBehind' = TrialsBehind
    BY <1>1, <1>6 DEF TrialsBehind
  <2>5. order \in 0..1 /\ condition = InPlace(order)
    <3>1. Len(ConditionsOf(Part)) \in 1..3
      BY <1>1, ConditionFacts
    <3>2. PICK n \in 1..3 : n = Len(ConditionsOf(Part))
      BY <3>1
    <3>3. order + 1 < n
      BY <1>6, <3>2
    <3>4. order \in 0..1
      BY <1>3, <3>3
    <3>5. condition = InPlace(order)
      BY DEF condition, InPlace
    <3> QED
      BY <3>4, <3>5
  <2>6. ASSUME NEW kind \in Kinds
        PROVE  Spent(kind, 0)' + Spent(kind, 1)' =
               Spent(kind, 0) + Spent(kind, 1) + ControlsOf(condition)[kind]
    <3>1. /\ ControlsOf(InPlace(0))[kind]' = ControlsOf(InPlace(0))[kind]
          /\ ControlsOf(InPlace(1))[kind]' = ControlsOf(InPlace(1))[kind]
      BY <2>3 DEF ControlsOf
    <3>2. ControlsOf(condition)[kind] \in Nat
      BY <1>4
    <3>3. CASE order = 0
      BY <1>6, <2>5, <3>1, <3>2, <3>3 DEF Spent
    <3>4. CASE order = 1
      BY <1>4, <1>6, <2>5, <3>1, <3>2, <3>4 DEF Spent
    <3> QED
      BY <2>5, <3>3, <3>4
  <2>7. ASSUME NEW kind \in Kinds
        PROVE  controls'[kind] <= 2 + 2 * TrialsBehind' + Spent(kind, 0)' + Spent(kind, 1)'
    <3>1. Spent(kind, 0)' \in Nat /\ Spent(kind, 1)' \in Nat
      <4>1. ControlsOf(InPlace(0)')[kind] \in Nat /\ ControlsOf(InPlace(1)')[kind] \in Nat
        BY ControlsFacts
      <4>2. /\ Spent(kind, 0)' \in {0, ControlsOf(InPlace(0)')[kind]}
            /\ Spent(kind, 1)' \in {0, ControlsOf(InPlace(1)')[kind]}
        BY DEF Spent, ControlsOf
      <4> QED
        BY <4>1, <4>2
    <3> QED
      BY <1>1, <1>3, <1>4, <2>4, <2>6, <3>1
  <2> QED
    BY <1>1, <1>2, <2>1, <2>7 DEF BudgetInv, Session
<1>7. ASSUME order' = 0, TrialsBehind' = TrialsBehind + 1, pc' = "recalibrate"
      PROVE  BudgetInv'
  <2>1. \A kind : Spent(kind, 0)' = 0 /\ Spent(kind, 1)' = 0
    BY <1>7 DEF Spent
  <2>2. ASSUME NEW kind \in Kinds
        PROVE  controls'[kind] <= 2 + 2 * TrialsBehind' + Spent(kind, 0)' + Spent(kind, 1)'
    BY <1>1, <1>3, <1>4, <1>5, <1>7, <2>1
  <2> QED
    BY <1>1, <1>2, <1>7, <2>2 DEF BudgetInv, Session
<1>8. CASE /\ trial + 1 < o.trials /\ order' = 0 /\ trial' = trial + 1 /\ pc' = TrialStart(Part)
           /\ UNCHANGED <<target, part>>
  <2>1. pc' = "recalibrate"
    BY <1>3, <1>8 DEF TrialStart
  <2>2. TrialsBehind' = TrialsBehind + 1
    <3>1. (target - 1) * o.trials \in Int
      BY <1>3
    <3>2. TrialsBehind' = (target - 1) * o.trials + (trial + 1)
      BY <1>1, <1>8 DEF TrialsBehind
    <3> QED
      BY <1>3, <3>1, <3>2 DEF TrialsBehind
  <2> QED
    BY <1>7, <1>8, <2>1, <2>2
<1>9. CASE /\ trial + 1 = o.trials /\ target < o.targets /\ order' = 0 /\ trial' = 0 /\ part' = 1
           /\ target' = target + 1 /\ pc' = TargetStart
  <2>1. pc' = "recalibrate"
    BY <1>9 DEF TargetStart, TrialStart
  <2>2. TrialsBehind' = TrialsBehind + 1
    <3>1. TrialsBehind' = ((target + 1) - 1) * o.trials + 0
      BY <1>1, <1>9 DEF TrialsBehind
    <3>2. target * o.trials = (target - 1) * o.trials + o.trials
      BY <1>3
    <3>3. (target - 1) * o.trials \in Int
      BY <1>3
    <3>4. (target + 1) - 1 = target
      BY <1>3
    <3> QED
      BY <1>3, <1>9, <3>1, <3>2, <3>3, <3>4 DEF TrialsBehind
  <2> QED
    BY <1>7, <1>9, <2>1, <2>2
<1>10. CASE pc' = "counts"
  <2>1. pc' \in Endings /\ controls' \in [Kinds -> Nat]
    BY <1>1, <1>2, <1>10 DEF Endings
  <2> QED
    BY <2>1, BudgetAtEnd
<1> QED
  BY <1>1, <1>2, <1>3, <1>6, <1>8, <1>9, <1>10, EndCaseFacts

\* An RM run, before its plan and within it.
LEMMA SessionBudget ==
  ASSUME IInv, IInv', BudgetInv, IsRm, Scope \/ BContext \/ Bind \/ Probe
  PROVE  BudgetInv'
<1>1. /\ PlanInv /\ PlanInv' /\ pc \in Session \ {"rewind"} /\ UNCHANGED <<o, place>>
      /\ controls \in [Kinds -> Nat] /\ \A kind \in Kinds : controls[kind] = 0
      /\ target = 1 /\ trial = 0 /\ order = 0
  BY DEF IInv, BudgetInv, PlanInv, Scope, BContext, Bind, Probe, Session
<1>2. TargetStart = "recalibrate" /\ IsRm'
  BY <1>1 DEF TargetStart, TrialStart, IsRm
<1>3. CASE Scope \/ BContext
  <2>1. pc' \in {"b_context", "bind"} /\ UNCHANGED controls
    BY <1>3 DEF Scope, BContext, bridge
  <2> QED
    BY <1>1, <2>1 DEF BudgetInv, Session, Loops
<1>4. CASE Bind
  <2>1. bound' = revision' /\ UNCHANGED controls /\ pc' \in {"probe", "recalibrate"}
    BY <1>2, <1>4 DEF Bind
  <2>2. CASE pc' = "recalibrate"
    BY <1>1, <2>1, <2>2, BudgetStarts
  <2>3. CASE pc' = "probe"
    BY <1>1, <2>1, <2>3 DEF BudgetInv, Session, Loops
  <2> QED
    BY <2>1, <2>2, <2>3
<1>5. CASE Probe
  <2>1. /\ UNCHANGED <<bound, revision>> /\ Issue(ProbeControls) /\ bound = revision
        /\ pc' \in {"rewind", "counts", "recalibrate"}
    BY <1>2, <1>5 DEF Probe, BudgetInv
  <2>2. /\ controls' \in [Kinds -> Nat] /\ ProbeControls \in [Kinds -> Nat]
        /\ \A kind \in Kinds : controls'[kind] = ProbeControls[kind] /\ controls'[kind] <= 2
    <3>1. /\ controls' \in [Kinds -> Nat] /\ ProbeControls \in [Kinds -> Nat]
          /\ \A kind \in Kinds : controls'[kind] = controls[kind] + ProbeControls[kind]
          /\ \A kind \in Kinds : ProbeControls[kind] \in 0..2
      BY <1>1, <2>1, ControlsFacts, IssueFacts
    <3> QED
      BY <1>1, <3>1
  <2>3. CASE pc' = "recalibrate"
    BY <1>1, <2>1, <2>2, <2>3, BudgetStarts
  <2>4. CASE pc' = "counts"
    BY <2>2, <2>4, BudgetAtEnd DEF Endings
  <2>5. CASE pc' = "rewind"
    <3>1. controls' = ProbeControls
      BY <2>2
    <3>2. ProbeControls' = ProbeControls
      BY <1>1 DEF ProbeControls, ControlsOf, HoldKind
    <3> QED
      BY <2>1, <2>2, <2>5, <3>1, <3>2 DEF BudgetInv, Session, Loops
  <2> QED
    BY <2>1, <2>3, <2>4, <2>5
<1> QED
  BY <1>3, <1>4, <1>5

LEMMA EndBudget ==
  ASSUME BudgetInv, RewindRun \/ Counts \/ CloseBoth \/ Complete \/ Report \/ Fail \/ Unwind
  PROVE  BudgetInv'
<1>1. pc' \in Endings
  BY DEF RewindRun, Counts, CloseBoth, Complete, Report, Fail, Unwind, Endings
<1>2. CASE RewindRun
  <2>1. PICK cases \in 1..RewindCases : Issue([ProbeControls EXCEPT !.fifo = 2 * cases])
    BY <1>2 DEF RewindRun
  <2>2. cases \in Nat
    BY DEF RewindCases
  <2>3. [ProbeControls EXCEPT !.fifo = 2 * cases] \in [Kinds -> Nat]
    BY <2>2, ControlsFacts DEF Kinds
  <2>4. controls' \in [Kinds -> Nat]
    BY <2>1, <2>3, IssueFacts DEF BudgetInv
  <2> QED
    BY <1>1, <2>4, BudgetAtEnd
<1>3. CASE Counts \/ CloseBoth \/ Complete \/ Report \/ Fail \/ Unwind
  <2>1. UNCHANGED controls
    BY <1>3 DEF Counts, CloseBoth, Complete, Report, Fail, Unwind, bridge
  <2> QED
    BY <1>1, <2>1, BudgetAtEnd DEF BudgetInv
<1> QED
  BY <1>2, <1>3

\* Steps that an RM run does not take.
LEMMA NotRm ==
  ASSUME IInv, CloseB \/ Calibrate \/ SetB \/ MeasureA \/ PrepareB \/ Prepare \/ IdleB
  PROVE  ~IsRm
<1>1. /\ PlanInv
      /\ pc \in {"close_b", "calibrate", "set_b", "measure_a", "warm_b", "prepare", "idle_b"}
  BY DEF IInv, CloseB, Calibrate, SetB, MeasureA, PrepareB, Prepare, IdleB
<1>2. pc \in {"close_b", "calibrate"} => ~IsRm
  BY <1>1 DEF PlanInv
<1>3. pc \in {"set_b", "measure_a", "warm_b", "prepare", "idle_b"} => pc \in Loops
  BY DEF Loops
<1>4. pc \in {"set_b", "measure_a", "warm_b", "prepare", "idle_b"} => Part # "preempt-hold"
  BY <1>3 DEF IInv, PlanInv
<1>5. pc \in Loops => (IsRm <=> Part = "preempt-hold")
  BY <1>1, PartFacts DEF PlanInv
<1> QED
  BY <1>1, <1>2, <1>3, <1>4, <1>5

LEMMA NextBudget == ASSUME IInv, IInv', BudgetInv, [Next]_vars PROVE BudgetInv'
<1>1. PlanInv /\ PlanInv'
  BY DEF IInv
<1>2. CASE CloseB \/ Calibrate \/ SetB \/ MeasureA \/ PrepareB \/ Prepare \/ IdleB
  <2>1. UNCHANGED <<o, controls>>
    BY <1>2 DEF CloseB, Calibrate, SetB, MeasureA, PrepareB, Prepare, IdleB, bridge
  <2> QED
    BY <1>1, <1>2, <2>1, NotRm, OtherModes
<1>3. CASE ~IsRm /\ (Recalibrate \/ Reference \/ Anchor \/ HandOff \/ Post)
  <2>1. UNCHANGED <<o, controls>>
    BY <1>3 DEF Recalibrate, Reference, Anchor, HandOff, Post, bridge
  <2> QED
    BY <1>1, <1>3, <2>1, OtherModes
<1>4. CASE IsRm /\ (Recalibrate \/ Reference \/ Anchor)
  <2>1. /\ UNCHANGED <<o, place, bound, controls, revision>>
        /\ pc \in Loops \ {"post"} /\ pc' \in Loops \ {"post"}
    BY <1>4 DEF Recalibrate, Reference, Anchor, bridge, Loops
  <2> QED
    BY <2>1, SameBudget
<1>5. CASE IsRm /\ (HandOff \/ Post)
  BY <1>5, HandOffBudget, PostBudget
<1>6. CASE Scope \/ BContext \/ Bind \/ Probe
  <2>1. IsRm
    BY <1>1, <1>6 DEF PlanInv, Scope, BContext, Bind, Probe, Session
  <2> QED
    BY <1>6, <2>1, SessionBudget
<1>7. CASE UNCHANGED vars
  <2>1. /\ UNCHANGED <<o, place, pc, bound, controls, revision>>
    BY <1>7 DEF vars, place
  <2>2. ProbeControls' = ProbeControls
    BY <2>1 DEF ProbeControls, ControlsOf, HoldKind
  <2> QED
    BY <2>1, <2>2, SameSpent DEF BudgetInv
<1>8. CASE RewindRun \/ Counts \/ CloseBoth \/ Complete \/ Report \/ Fail \/ Unwind
  BY <1>8, EndBudget
<1> QED
  BY <1>2, <1>3, <1>4, <1>5, <1>6, <1>7, <1>8 DEF Next, Done

LEMMA InitBudget == ASSUME Init PROVE BudgetInv
<1>1. /\ controls = [kind \in Kinds |-> 0]
      /\ pc = (IF IsRm THEN "scope" ELSE "close_b")
  BY DEF Init, Kinds
<1> QED
  BY <1>1 DEF BudgetInv, Session, Loops

\* Where a control is due, the binding is current and the budget suffices.
LEMMA BudgetSuffices == ASSUME IInv, BudgetInv PROVE ControlsAreCovered
<1>1. PlanInv /\ controls \in [Kinds -> Nat]
  BY DEF IInv, BudgetInv
<1>2. ASSUME NEW needed, bound = revision,
             \A kind \in Kinds : controls[kind] + needed[kind] <= Budget
      PROVE  Allowed(needed)
  BY <1>1, <1>2 DEF Allowed
<1>3. o.trials \in Nat \ {0} /\ o.targets \in Nat \ {0}
  BY <1>1, OptionFacts DEF PlanInv
<1>4. ASSUME pc = "probe" PROVE Allowed(ProbeControls)
  <2>1. IsRm /\ bound = revision /\ \A kind \in Kinds : controls[kind] = 0
    BY <1>1, <1>4 DEF BudgetInv, PlanInv, Session
  <2>2. 2 <= Budget /\ Budget \in Nat
    <3>1. o.trials * o.targets \in Nat
      BY <1>3
    <3>2. \/ Budget = 4 * (o.trials * o.targets) + 2
          \/ Budget = 2 * (o.trials * o.targets) + 2
      BY <1>3 DEF Budget
    <3> QED
      BY <3>1, <3>2
  <2>3. \A kind \in Kinds : ProbeControls[kind] \in 0..2
    BY ControlsFacts
  <2>4. \A kind \in Kinds : controls[kind] + ProbeControls[kind] <= Budget
    BY <2>1, <2>2, <2>3
  <2> QED
    BY <1>2, <2>1, <2>4
<1>5. ASSUME pc = "handoff", IsRm PROVE Allowed(ControlsOf(condition))
  <2>1. pc \in Loops /\ bound = revision
    BY <1>5 DEF BudgetInv, Loops
  <2>2. TrialsBehind \in Nat /\ 2 + 2 * TrialsBehind + 2 <= Budget
    BY <1>1, <1>5, <2>1, RoomForTrial
  <2>3. ASSUME NEW kind \in Kinds PROVE controls[kind] + ControlsOf(condition)[kind] <= Budget
    <3>1. controls[kind] <= 2 + 2 * TrialsBehind + Spent(kind, 0) + Spent(kind, 1)
      BY <1>5, <2>1 DEF BudgetInv
    <3>2. /\ Spent(kind, 0) \in Nat /\ Spent(kind, 1) \in Nat
          /\ ControlsOf(condition)[kind] \in Nat /\ controls[kind] \in Nat
          /\ Spent(kind, 0) + Spent(kind, 1) + ControlsOf(condition)[kind] <= 2
      BY <1>1, <1>5, <2>1, TrialCost
    <3>3. Budget \in Nat
      <4>1. o.trials * o.targets \in Nat
        BY <1>3
      <4>2. \/ Budget = 4 * (o.trials * o.targets) + 2
            \/ Budget = 2 * (o.trials * o.targets) + 2
        BY <1>3 DEF Budget
      <4> QED
        BY <4>1, <4>2
    <3> QED
      BY <2>2, <3>1, <3>2, <3>3
  <2> QED
    BY <1>2, <2>1, <2>3
<1>6. ASSUME pc = "rewind"
      PROVE  Allowed([ProbeControls EXCEPT !.fifo = 2 * RewindCases])
  <2>1. IsRewind(o) /\ IsRm /\ bound = revision /\ controls = ProbeControls
    BY <1>1, <1>6 DEF BudgetInv, PlanInv, Session
  <2>2. ProbeControls = [preempt |-> 0, fifo |-> 2, schedule |-> 0]
    <3>1. HoldKind = "fifo"
      BY <2>1 DEF HoldKind, IsRewind
    <3>2. ControlsOf("idle") = [preempt |-> 0, fifo |-> 0, schedule |-> 0]
      BY DEF ControlsOf
    <3> QED
      BY <3>1, <3>2 DEF ProbeControls
  <2>3. o.targets = 1
    BY <1>1, <2>1, OptionFacts DEF PlanInv
  <2>4. 2 + 2 * RewindCases <= Budget /\ RewindCases \in Nat /\ Budget \in Nat
    <3>1. CASE o.rm_case = "rewind-paired"
      BY <1>3, <2>3, <3>1 DEF RewindCases, Budget
    <3>2. CASE o.rm_case # "rewind-paired"
      BY <1>3, <2>3, <3>2 DEF RewindCases, Budget
    <3> QED
      BY <3>1, <3>2
  <2>5. [ProbeControls EXCEPT !.fifo = 2 * RewindCases] =
        [preempt |-> 0, fifo |-> 2 * RewindCases, schedule |-> 0]
    BY <2>2
  <2>6. \A kind \in Kinds :
          controls[kind] + [preempt |-> 0, fifo |-> 2 * RewindCases, schedule |-> 0][kind] <= Budget
    BY <2>1, <2>2, <2>4 DEF Kinds
  <2> QED
    BY <1>2, <2>1, <2>5, <2>6
<1> QED
  BY <1>4, <1>5, <1>6 DEF ControlsAreCovered

--------------------------------------------------------------------------------
(* The cases of a run.                                                      *)

\* The condition in one place of the order of a trial.
ConditionAt(p, tr, n) == LET c == ConditionsOf(p) IN c[((tr + n) % Len(c)) + 1]

\* A row of a condition, not of a calibration or of the idle baseline.
IsCase(r) == r.experiment # "calibration" /\ r.condition # "b_with_idle_a"

\* Which case a row is of, and the one being measured.
CaseOf(r) == [part |-> r.experiment, target |-> r.target, trial |-> r.trial, order |-> r.order]
ThisCase == [part |-> Part, target |-> target, trial |-> trial, order |-> order]

\* The cases that the options ask for.
Cases ==
  UNION {[part : {Parts[k]}, target : 1..o.targets, trial : 0..(o.trials - 1),
          order : 0..(Len(ConditionsOf(Parts[k])) - 1)] : k \in DOMAIN Parts}

\* Those that lie behind.
CasesBehind ==
  {q \in Cases :
     \/ pc \in Endings
     \/ q.target < target
     \/ /\ q.target = target
        /\ \/ part = 2 /\ q.part = Parts[1]
           \/ /\ q.part = Part
              /\ q.trial < trial \/ (q.trial = trial /\ q.order < order)}

\* Each of the cases has one row, and no other case has any.
OneRowEach(R, S) ==
  /\ \A i \in DOMAIN R : IsCase(R[i]) => CaseOf(R[i]) \in S
  /\ \A i, j \in DOMAIN R : IsCase(R[i]) /\ IsCase(R[j]) /\ CaseOf(R[i]) = CaseOf(R[j]) => i = j
  /\ \A q \in S : \E i \in DOMAIN R : IsCase(R[i]) /\ CaseOf(R[i]) = q

\* The condition whose turn it was.
InTurn(r) == IsCase(r) => r.condition = ConditionAt(r.experiment, r.trial, r.order)

\* Nothing has failed.
Running == pc \notin {"unwind", "ended"} \/ run_status = "completed"

CaseInv ==
  /\ Running => OneRowEach(rows, CasesBehind) /\ \A i \in DOMAIN rows : InTurn(rows[i])
  /\ pc = "report" \/ outcome = "exit 0" => run_status = "completed"

\* The parts of a run are at most two, and not the same.
LEMMA PartsAre ==
  ASSUME o \in Settings
  PROVE  /\ DOMAIN Parts = 1..Len(Parts) /\ Len(Parts) \in 0..2
         /\ \A k \in DOMAIN Parts : Parts[k] \in PartNames
         /\ 2 \in DOMAIN Parts => Parts[1] = "standby" /\ Parts[2] = "takeover"
<1>1. o.mode \in Modes
  BY OptionFacts
<1>2. CASE o.mode = "all"
  <2>1. Parts = <<"standby", "takeover">>
    BY <1>2, PartsFacts
  <2> QED
    BY <2>1 DEF PartNames
<1>3. CASE o.mode \in {"standby", "takeover", "live-handoff"}
  <2>1. Parts = <<o.mode>>
    BY <1>3, PartsFacts
  <2> QED
    BY <1>3, <2>1 DEF PartNames
<1>4. CASE o.mode = "preempt-hold"
  <2>1. Parts = <<"preempt-hold">> \/ Parts = <<>>
    BY <1>4 DEF Parts, IsRm
  <2> QED
    BY <2>1 DEF PartNames
<1> QED
  BY <1>1, <1>2, <1>3, <1>4 DEF Modes

LEMMA SameOptions ==
  ASSUME o' = o
  PROVE  /\ Parts' = Parts /\ IsRm' = IsRm /\ Cases' = Cases
         /\ \A p : ConditionsOf(p)' = ConditionsOf(p)
<1>1. IsRm' = IsRm /\ IsRewind(o)' = IsRewind(o)
  BY DEF IsRm, IsRewind
<1>2. Parts' = Parts
  BY <1>1 DEF Parts
<1>3. \A p : ConditionsOf(p)' = ConditionsOf(p)
  BY DEF ConditionsOf
<1>4. \A k \in DOMAIN Parts : ConditionsOf(Parts[k])' = ConditionsOf(Parts[k])
  BY <1>2 DEF ConditionsOf
<1>5. Cases' = Cases
  BY <1>2, <1>4 DEF Cases
<1> QED
  BY <1>1, <1>2, <1>3, <1>5

\* What is in the plan.
LEMMA CasesAre ==
  ASSUME NEW k \in DOMAIN Parts, NEW t \in 1..o.targets, NEW tr \in 0..(o.trials - 1),
         NEW n \in 0..(Len(ConditionsOf(Parts[k])) - 1)
  PROVE  [part |-> Parts[k], target |-> t, trial |-> tr, order |-> n] \in Cases
<1>1. [part |-> Parts[k], target |-> t, trial |-> tr, order |-> n] \in
        [part : {Parts[k]}, target : 1..o.targets, trial : 0..(o.trials - 1),
         order : 0..(Len(ConditionsOf(Parts[k])) - 1)]
  OBVIOUS
<1> QED
  BY <1>1 DEF Cases

LEMMA CaseFacts ==
  ASSUME NEW q \in Cases
  PROVE  /\ q = [part |-> q.part, target |-> q.target, trial |-> q.trial, order |-> q.order]
         /\ q.target \in 1..o.targets /\ q.trial \in 0..(o.trials - 1)
         /\ \E k \in DOMAIN Parts :
              q.part = Parts[k] /\ q.order \in 0..(Len(ConditionsOf(Parts[k])) - 1)
<1>1. PICK k \in DOMAIN Parts :
        q \in [part : {Parts[k]}, target : 1..o.targets, trial : 0..(o.trials - 1),
               order : 0..(Len(ConditionsOf(Parts[k])) - 1)]
  BY DEF Cases
<1> QED
  BY <1>1

\* Without parts there is nothing to measure.
LEMMA NoCases == Parts = <<>> => Cases = {}
BY DEF Cases

\* The case being measured is one of the plan, and does not lie behind.
LEMMA ThisCaseAhead ==
  ASSUME PlanInv, pc \in Loops
  PROVE  ThisCase \in Cases /\ ThisCase \notin CasesBehind
<1>1. part \in DOMAIN Parts /\ Part = Parts[part]
  <2>1. part \in 1..Len(Parts) /\ o \in Settings
    BY DEF PlanInv
  <2>2. DOMAIN Parts = 1..Len(Parts)
    BY <2>1, PartsAre
  <2> QED
    BY <2>1, <2>2 DEF Part
<1>2. order \in 0..(Len(ConditionsOf(Part)) - 1)
  <2>1. Len(ConditionsOf(Part)) \in 1..3
    BY ConditionFacts
  <2> QED
    BY <2>1 DEF PlanInv
<1>3. target \in 1..o.targets /\ trial \in 0..(o.trials - 1) /\ order \in 0..2 /\ part \in 1..2
  BY DEF PlanInv
<1>4. ThisCase \in Cases
  BY <1>1, <1>2, <1>3, CasesAre DEF ThisCase
<1>5. o \in Settings /\ o.targets \in Nat /\ o.trials \in Nat
  BY OptionFacts DEF PlanInv
<1>6. ThisCase.target = target /\ ThisCase.part = Part /\ ThisCase.trial = trial /\ ThisCase.order = order
  BY DEF ThisCase
<1>7. part = 2 => Part # Parts[1]
  BY <1>1, <1>5, PartsAre
<1>8. pc \notin Endings
  BY DEF Loops, Endings
<1>9. ~(target < target) /\ ~(trial < trial) /\ ~(order < order)
  BY <1>3, <1>5
<1> QED
  BY <1>4, <1>6, <1>7, <1>8, <1>9 DEF CasesBehind

LEMMA SameCasesBehind ==
  ASSUME UNCHANGED <<o, place>>, pc \in Endings <=> pc' \in Endings
  PROVE  CasesBehind' = CasesBehind
<1>1. Cases' = Cases /\ Parts' = Parts
  BY SameOptions
<1>2. UNCHANGED <<target, part, trial, order>> /\ Part' = Part
  BY <1>1 DEF place, Part
<1>3. \A q : q \in CasesBehind' <=> q \in CasesBehind
  BY <1>1, <1>2 DEF CasesBehind
<1> QED
  BY <1>3

\* At the end all cases lie behind.
LEMMA AllBehind == pc \in Endings => CasesBehind = Cases
BY DEF CasesBehind

\* The next case is the one right after this one.
LEMMA BehindGrows ==
  ASSUME PlanInv, pc \in Loops, EndCase, o' = o
  PROVE  CasesBehind' = CasesBehind \union {ThisCase}
<1>0. Cases' = Cases /\ Parts' = Parts
  BY SameOptions
<1>1. /\ o.trials \in Nat /\ o.targets \in Nat /\ o \in Settings
      /\ target \in 1..o.targets /\ part \in 1..2 /\ trial \in 0..(o.trials - 1) /\ order \in 0..2
      /\ part \in 1..Len(Parts)
  BY OptionFacts DEF PlanInv
<1>2. /\ DOMAIN Parts = 1..Len(Parts) /\ Len(Parts) \in 0..2
      /\ 2 \in DOMAIN Parts => Parts[1] # Parts[2]
  BY <1>1, PartsAre
<1> DEFINE L == Len(ConditionsOf(Part))
           P(q) == \/ q.target < target
                   \/ /\ q.target = target
                      /\ \/ part = 2 /\ q.part = Parts[1]
                         \/ /\ q.part = Parts[part]
                            /\ q.trial < trial \/ (q.trial = trial /\ q.order < order)
           Q(q) == \/ pc' \in Endings
                   \/ q.target < target'
                   \/ /\ q.target = target'
                      /\ \/ part' = 2 /\ q.part = Parts[1]
                         \/ /\ q.part = Parts[part']
                            /\ q.trial < trial' \/ (q.trial = trial' /\ q.order < order')
<1>3. L \in 1..3
  BY ConditionFacts
<1>4. CasesBehind = {q \in Cases : P(q)}
  BY DEF CasesBehind, Part, Loops, Endings
<1>5. CasesBehind' = {q \in Cases : Q(q)}
  BY <1>0 DEF CasesBehind, Part
<1>6. ThisCase \in Cases
  BY ThisCaseAhead
<1>7. pc' # "counts" => pc' \notin Endings
  BY EndCasePlaces DEF Endings
<1>8. ASSUME NEW q \in Cases PROVE Q(q) <=> P(q) \/ q = ThisCase
  <2>1. PICK k \in DOMAIN Parts :
          /\ q.part = Parts[k] /\ q.order \in 0..(Len(ConditionsOf(Parts[k])) - 1)
          /\ q.target \in 1..o.targets /\ q.trial \in 0..(o.trials - 1)
          /\ q = [part |-> q.part, target |-> q.target, trial |-> q.trial, order |-> q.order]
    BY CaseFacts
  <2>2. q = ThisCase <=> /\ q.part = Parts[part] /\ q.target = target
                         /\ q.trial = trial /\ q.order = order
    BY <2>1 DEF ThisCase, Part
  <2>3. q.part = Parts[part] => q.order <= L - 1
    BY <2>1, <1>3 DEF Part
  <2>4. k \in 1..2 /\ q.order \in Nat /\ (q.part = Parts[part] <=> k = part)
        /\ (q.part = Parts[1] <=> k = 1)
    <3>1. Len(ConditionsOf(Parts[k])) \in 1..3
      BY <1>1, PartsAre, ConditionsFacts
    <3> QED
      BY <1>1, <1>2, <2>1, <3>1
  <2>5. CASE order + 1 # L
    <3>1. order + 1 < L
      BY <1>1, <1>3, <2>5 DEF PlanInv
    <3>2. /\ order' = order + 1 /\ UNCHANGED <<target, part, trial>> /\ pc' \notin Endings
      <4>1. CaseStart(Part) # "counts"
        BY DEF CaseStart
      <4> QED
        BY <1>7, <2>5, <4>1 DEF EndCase
    <3> QED
      BY <1>1, <2>1, <2>2, <2>3, <2>4, <3>1, <3>2
  <2>6. CASE order + 1 = L /\ ~LastTrial
    <3>1. /\ order' = 0 /\ trial' = trial + 1 /\ UNCHANGED <<target, part>> /\ pc' \notin Endings
      <4>1. TrialStart(Part) # "counts"
        BY DEF TrialStart, CaseStart
      <4> QED
        BY <1>7, <2>6, <4>1 DEF EndCase
    <3> QED
      BY <1>1, <2>1, <2>2, <2>3, <2>4, <2>6, <3>1
  <2>7. CASE order + 1 = L /\ LastTrial /\ part # Len(Parts)
    <3>1. /\ order' = 0 /\ trial' = 0 /\ part' = part + 1 /\ target' = target /\ pc' \notin Endings
      <4>1. PartStart(Parts[part + 1]) # "counts"
        BY DEF PartStart, TrialStart, CaseStart
      <4> QED
        BY <1>7, <2>7, <4>1 DEF EndCase
    <3>2. part = 1
      <4>1. PICK m \in 0..2 : m = Len(Parts)
        BY <1>2
      <4>2. part \in 1..m /\ part # m
        BY <1>1, <2>7, <4>1
      <4> QED
        BY <4>1, <4>2
    <3>3. part' = 2
      BY <3>1, <3>2
    <3>4. trial + 1 = o.trials
      BY <2>7 DEF LastTrial
    <3> QED
      BY <1>1, <2>1, <2>2, <2>3, <2>4, <2>7, <3>1, <3>2, <3>3, <3>4
  <2>8. CASE order + 1 = L /\ LastTrial /\ part = Len(Parts)
    <3>0. trial + 1 = o.trials
      BY <2>8 DEF LastTrial
    <3>1. trial + 1 = o.trials /\ k <= part /\ (target < o.targets \/ target = o.targets)
      BY <1>1, <1>2, <2>4, <2>1, <2>8, <3>0
    <3>2. q.target < target + 1 <=> P(q) \/ q = ThisCase
      <4>1. CASE k = part
        <5>1. q.trial < trial \/ (q.trial = trial /\ q.order < order) \/ (q.trial = trial /\ q.order = order)
          BY <1>1, <1>3, <2>1, <2>3, <2>4, <2>8, <3>1, <4>1
        <5> QED
          BY <1>1, <2>1, <2>2, <2>4, <4>1, <5>1
      <4>2. CASE k # part
        <5>1. k = 1 /\ part = 2
          BY <1>1, <2>4, <3>1, <4>2
        <5> QED
          BY <1>1, <2>1, <2>2, <2>4, <4>2, <5>1
      <4> QED
        BY <4>1, <4>2
    <3>3. CASE target < o.targets
      <4>1. /\ order' = 0 /\ trial' = 0 /\ part' = 1 /\ target' = target + 1 /\ pc' \notin Endings
        <5>1. TargetStart # "counts"
          BY TargetStartFacts
        <5> QED
          BY <1>1, <1>7, <2>8, <3>3, <5>1 DEF EndCase
      <4>2. ~(q.trial < trial' \/ (q.trial = trial' /\ q.order < order'))
        BY <2>1, <2>4, <4>1
      <4> QED
        BY <3>2, <4>1, <4>2
    <3>4. CASE target = o.targets
      <4>1. pc' = "counts" /\ pc' \in Endings
        BY <1>1, <2>8, <3>4 DEF EndCase, Endings
      <4>2. q.target < target + 1
        BY <1>1, <2>1, <3>4
      <4> QED
        BY <3>2, <4>1, <4>2
    <3> QED
      BY <3>1, <3>3, <3>4
  <2> QED
    BY <2>5, <2>6, <2>7, <2>8
<1> HIDE DEF P, Q, L
<1> QED
  BY <1>4, <1>5, <1>6, <1>8

\* The conditions of a part differ from each other and from the idle baseline.
LEMMA ConditionsDiffer ==
  ASSUME o \in Settings, NEW p \in PartNames
  PROVE  /\ DOMAIN ConditionsOf(p) = 1..Len(ConditionsOf(p))
         /\ \A j, k \in DOMAIN ConditionsOf(p) : ConditionsOf(p)[j] = ConditionsOf(p)[k] => j = k
         /\ \A k \in DOMAIN ConditionsOf(p) : ConditionsOf(p)[k] # "b_with_idle_a"
<1>0. o.rm_case \in RmCases /\ o.action \in {"destroy", "wait-then-destroy", "both"}
  BY OptionFacts
<1>1. CASE p = "standby"
  <2>1. ConditionsOf(p) = <<"a_only", "a_with_idle_b">>
    BY <1>1 DEF ConditionsOf
  <2> QED
    BY <2>1
<1>2. CASE p = "takeover"
  <2>1. ConditionsOf(p) = <<"destroy", "wait-then-destroy">> \/ ConditionsOf(p) = <<o.action>>
    BY <1>2 DEF ConditionsOf
  <2> QED
    BY <1>0, <2>1
<1>3. CASE p = "live-handoff"
  <2>1. ConditionsOf(p) = <<"live-handoff", "serial-destroy", "idle">>
    BY <1>3 DEF ConditionsOf
  <2> QED
    BY <2>1
<1>4. CASE p = "preempt-hold"
  <2>1. \/ ConditionsOf(p) = <<"live-handoff", "preempt-resume", "preempt-hold">>
        \/ ConditionsOf(p) = <<o.rm_case>>
    BY <1>4 DEF ConditionsOf
  <2> QED
    BY <1>0, <2>1 DEF RmCases
<1> QED
  BY <1>1, <1>2, <1>3, <1>4 DEF PartNames

LEMMA ThisCondition ==
  ASSUME PlanInv, pc \in Loops
  PROVE  condition = ConditionAt(Part, trial, order) /\ condition # "b_with_idle_a"
<1>1. Part \in PartNames /\ o \in Settings
  BY PartFacts DEF PlanInv
<1>2. Len(ConditionsOf(Part)) \in 1..3
  BY ConditionFacts
<1>3. ((trial + order) % Len(ConditionsOf(Part))) + 1 \in 1..Len(ConditionsOf(Part))
  BY <1>2 DEF PlanInv
<1>4. condition = ConditionAt(Part, trial, order)
  BY DEF condition, ConditionAt
<1>5. condition # "b_with_idle_a"
  BY <1>1, <1>3, ConditionsDiffer DEF condition
<1> QED
  BY <1>4, <1>5

\* A new row, of no case or of one that had none.
LEMMA NewRow ==
  ASSUME NEW R \in Seq(RowSet), NEW r \in RowSet, NEW S, OneRowEach(R, S)
  PROVE  /\ ~IsCase(r) => OneRowEach(Append(R, r), S)
         /\ IsCase(r) /\ CaseOf(r) \notin S => OneRowEach(Append(R, r), S \union {CaseOf(r)})
<1> DEFINE Q == Append(R, r)
<1>1. /\ DOMAIN Q = DOMAIN R \union {Len(R) + 1} /\ Len(R) + 1 \notin DOMAIN R
      /\ \A i \in DOMAIN R : Q[i] = R[i]
      /\ Q[Len(R) + 1] = r
  OBVIOUS
<1> HIDE DEF Q
<1>2. ASSUME ~IsCase(r) PROVE OneRowEach(Q, S)
  <2>1. \A i \in DOMAIN Q : IsCase(Q[i]) => i \in DOMAIN R /\ Q[i] = R[i]
    BY <1>1, <1>2
  <2>2. \A q \in S : \E i \in DOMAIN Q : IsCase(Q[i]) /\ CaseOf(Q[i]) = q
    BY <1>1 DEF OneRowEach
  <2> QED
    BY <2>1, <2>2 DEF OneRowEach
<1>3. ASSUME IsCase(r), CaseOf(r) \notin S PROVE OneRowEach(Q, S \union {CaseOf(r)})
  <2>1. \A i \in DOMAIN Q : IsCase(Q[i]) => CaseOf(Q[i]) \in S \union {CaseOf(r)}
    BY <1>1 DEF OneRowEach
  <2>2. ASSUME NEW i \in DOMAIN Q, NEW j \in DOMAIN Q, IsCase(Q[i]), IsCase(Q[j]),
               CaseOf(Q[i]) = CaseOf(Q[j])
        PROVE  i = j
    <3>1. CASE i \in DOMAIN R /\ j \in DOMAIN R
      BY <1>1, <2>2, <3>1 DEF OneRowEach
    <3>2. CASE i \notin DOMAIN R /\ j \in DOMAIN R
      BY <1>1, <1>3, <2>2, <3>2 DEF OneRowEach
    <3>3. CASE i \in DOMAIN R /\ j \notin DOMAIN R
      BY <1>1, <1>3, <2>2, <3>3 DEF OneRowEach
    <3>4. CASE i \notin DOMAIN R /\ j \notin DOMAIN R
      BY <1>1, <3>4
    <3> QED
      BY <3>1, <3>2, <3>3, <3>4
  <2>3. \A q \in S \union {CaseOf(r)} : \E i \in DOMAIN Q : IsCase(Q[i]) /\ CaseOf(Q[i]) = q
    BY <1>1, <1>3 DEF OneRowEach
  <2> QED
    BY <2>1, <2>2, <2>3 DEF OneRowEach
<1> QED
  BY <1>2, <1>3 DEF Q

\* The rows that are there have had their turn, whatever comes.
LEMMA StayInTurn ==
  ASSUME o' = o, \A i \in DOMAIN rows' : InTurn(rows'[i])
  PROVE  \A i \in DOMAIN rows' : InTurn(rows[i])'
<1> SUFFICES ASSUME NEW i \in DOMAIN rows' PROVE InTurn(rows[i])'
  OBVIOUS
<1>1. InTurn(rows'[i])
  OBVIOUS
<1> QED
  BY <1>1 DEF InTurn, ConditionAt, ConditionsOf, IsCase

LEMMA NewCases ==
  ASSUME o' = o, OneRowEach(rows', CasesBehind'), \A i \in DOMAIN rows' : InTurn(rows'[i]),
         pc' = "report" \/ outcome' = "exit 0" => run_status' = "completed"
  PROVE  CaseInv'
<1>1. \A i \in DOMAIN rows' : InTurn(rows[i])'
  BY StayInTurn
<1>2. OneRowEach(rows, CasesBehind)'
  BY DEF OneRowEach, IsCase, CaseOf
<1> QED
  BY <1>1, <1>2 DEF CaseInv

\* No row, and nothing else behind than before.
LEMMA SameRows ==
  ASSUME CaseInv, Running, UNCHANGED <<o, rows>>, CasesBehind' = CasesBehind,
         pc' = "report" \/ outcome' = "exit 0" => run_status' = "completed"
  PROVE  CaseInv'
BY NewCases DEF CaseInv

\* A row of no case.
LEMMA OtherRow ==
  ASSUME CaseInv, Running, o' = o, rows \in Seq(RowSet), NEW r \in RowSet, ~IsCase(r),
         rows' = Append(rows, r), CasesBehind' = CasesBehind,
         UNCHANGED <<run_status, outcome>>, pc' # "report"
  PROVE  CaseInv'
<1>1. OneRowEach(rows, CasesBehind) /\ \A i \in DOMAIN rows : InTurn(rows[i])
  BY DEF CaseInv
<1>2. OneRowEach(rows', CasesBehind')
  BY <1>1, NewRow
<1>3. \A i \in DOMAIN rows' : InTurn(rows'[i])
  BY <1>1, AppendFacts DEF InTurn
<1> QED
  BY <1>2, <1>3, NewCases DEF CaseInv

\* The row of the case being measured, which then lies behind.
LEMMA ThisRow ==
  ASSUME CaseInv, PlanInv, pc \in Loops, EndCase, o' = o, rows \in Seq(RowSet), NEW r \in RowSet,
         CaseOf(r) = ThisCase, r.experiment = Part, r.trial = trial, r.order = order,
         r.condition = condition, rows' = Append(rows, r), UNCHANGED <<run_status, outcome>>
  PROVE  CaseInv'
<1>0. pc' # "report" /\ Running
  BY EndCasePlaces DEF Running, Loops
<1>1. OneRowEach(rows, CasesBehind) /\ \A i \in DOMAIN rows : InTurn(rows[i])
  BY <1>0 DEF CaseInv
<1>2. IsCase(r) /\ InTurn(r)
  <2>1. Part # "calibration"
    BY PartFacts DEF PlanInv, PartNames
  <2> QED
    BY <2>1, ThisCondition DEF IsCase, InTurn
<1>3. OneRowEach(rows', CasesBehind')
  BY <1>1, <1>2, NewRow, BehindGrows, ThisCaseAhead
<1>4. \A i \in DOMAIN rows' : InTurn(rows'[i])
  BY <1>1, <1>2, AppendFacts
<1> QED
  BY <1>0, <1>3, <1>4, NewCases DEF CaseInv

\* A run for which nothing is measured: an RM probe, or the rewind experiment.
LEMMA NothingPlanned ==
  ASSUME o \in Settings, IsRm, IsRewind(o) \/ o.rm_probe
  PROVE  Cases = {} /\ CasesBehind = {}
<1>1. Parts = <<>>
  <2>1. o.mode # "all"
    BY DEF IsRm
  <2> QED
    BY <2>1 DEF Parts
<1> QED
  BY <1>1, NoCases DEF CasesBehind

LEMMA PlainCases ==
  ASSUME IInv, CaseInv,
         \/ CloseB \/ SetB \/ PrepareB \/ (IsRm /\ Recalibrate) \/ Reference \/ Anchor \/ Prepare
         \/ HandOff \/ Scope \/ BContext \/ Bind \/ Counts \/ CloseBoth
  PROVE  CaseInv'
<1>1. UNCHANGED <<o, place, rows, run_status, outcome>>
  BY DEF CloseB, SetB, PrepareB, Recalibrate, Reference, Anchor, Prepare, HandOff, Scope, BContext,
         Bind, Counts, CloseBoth, files, ending
<1>2. /\ pc \notin {"unwind", "ended"} /\ pc' \notin {"unwind", "ended", "report"}
      /\ pc \in Endings <=> pc' \in Endings
  <2>1. TargetStart \in {"recalibrate", "close_b"} /\ TrialStart(Part) \notin Endings \union {"report"}
    BY TargetStartFacts DEF TrialStart, CaseStart, Endings
  <2> QED
    BY <2>1 DEF CloseB, SetB, PrepareB, Recalibrate, Reference, Anchor, Prepare, HandOff, Scope, BContext,
         Bind, Counts, CloseBoth, Endings
<1>3. Running /\ CasesBehind' = CasesBehind
  BY <1>1, <1>2, SameCasesBehind DEF Running
<1>4. outcome' = "exit 0" => run_status' = "completed"
  BY <1>1 DEF CaseInv
<1> QED
  BY <1>1, <1>2, <1>3, <1>4, SameRows

LEMMA ProbeCases ==
  ASSUME IInv, CaseInv, Probe
  PROVE  CaseInv'
<1>1. UNCHANGED <<o, place, rows, run_status, outcome>> /\ pc = "probe"
  BY DEF Probe, files, ending
<1>2. IsRm /\ o \in Settings
  BY <1>1 DEF IInv, PlanInv, Session
<1>3. Running /\ pc' # "report" /\ (outcome' = "exit 0" => run_status' = "completed")
  <2>1. pc' \in {"rewind", "counts", TargetStart}
    BY DEF Probe
  <2> QED
    BY <1>1, <2>1, TargetStartFacts DEF CaseInv, Running
<1>4. CasesBehind' = CasesBehind
  <2>1. CASE IsRewind(o) \/ o.rm_probe
    <3>1. Cases = {} /\ CasesBehind = {}
      BY <1>2, <2>1, NothingPlanned
    <3>2. Cases' = {}
      BY <1>1, <3>1, SameOptions
    <3> QED
      BY <3>1, <3>2 DEF CasesBehind
  <2>2. CASE ~(IsRewind(o) \/ o.rm_probe)
    <3>1. pc' = TargetStart
      BY <2>2 DEF Probe
    <3> QED
      BY <1>1, <3>1, TargetStartFacts, SameCasesBehind DEF Endings
  <2> QED
    BY <2>1, <2>2
<1> QED
  BY <1>1, <1>3, <1>4, SameRows

LEMMA RewindRunCases ==
  ASSUME IInv, CaseInv, RewindRun
  PROVE  CaseInv'
<1>1. UNCHANGED <<o, place, rows>> /\ pc = "rewind" /\ pc' = "ended"
  BY DEF RewindRun
<1>2. IsRm /\ IsRewind(o) /\ o \in Settings
  BY <1>1 DEF IInv, PlanInv, Session
<1>3. CasesBehind = {} /\ CasesBehind' = {}
  <2>1. Cases = {} /\ CasesBehind = {}
    BY <1>2, NothingPlanned
  <2>2. Cases' = {}
    BY <1>1, <2>1, SameOptions
  <2> QED
    BY <2>1, <2>2 DEF CasesBehind
<1>4. outcome' = "exit 0" => run_status' = "completed"
  BY DEF RewindRun
<1> QED
  BY <1>1, <1>3, <1>4, SameRows DEF Running

LEMMA RowCases ==
  ASSUME IInv, CaseInv, Calibrate \/ (~IsRm /\ Recalibrate) \/ IdleB
  PROVE  CaseInv'
<1>1. /\ UNCHANGED <<o, place, run_status, outcome>>
      /\ pc \notin Endings /\ pc' \notin Endings \union {"report"}
  <2>1. Calibrate => PartStart(Part) \notin Endings \union {"report"}
    BY DEF PartStart, TrialStart, CaseStart, Endings
  <2> QED
    BY <2>1 DEF Calibrate, Recalibrate, IdleB, ending, Endings
<1>2. Running /\ CasesBehind' = CasesBehind /\ rows \in Seq(RowSet)
  BY <1>1, SameCasesBehind, TypeFacts DEF Running, Endings, IInv
<1>3. ASSUME NEW r \in RowSet, rows' = Append(rows, r), ~IsCase(r) PROVE CaseInv'
  BY <1>1, <1>2, <1>3, OtherRow
<1>4. PlanInv /\ cal \in Nat /\ reference \in [work : Nat, after : Nat] /\ Len(rows) \in Nat
      /\ launches.B \in Nat
  BY TypeFacts DEF IInv
<1>5. Present \in SUBSET Owners
  BY DEF Present
<1>6. CASE Calibrate
  <2>1. cal' \in Nat
    BY <1>6, CalibrationFacts DEF Calibrate, IInv
  <2>2. reference' \in [work : Nat, after : Nat]
    BY <1>4, <1>6, <2>1 DEF Calibrate
  <2>3. [NoSample EXCEPT !.present = Present \union {"A"}] \in SampleSet
    BY <1>5 DEF NoSample, SampleSet, Owners
  <2> DEFINE r == Row("calibration", "a_only", cal', reference',
                      [NoSample EXCEPT !.present = Present \union {"A"}])
  <2>4. r \in RowSet
    BY <1>4, <2>1, <2>2, <2>3, RowType DEF Conditions
  <2>5. ~IsCase(r) /\ rows' = Append(rows, r)
    BY <1>6 DEF IsCase, Row, Calibrate
  <2> HIDE DEF r
  <2> QED
    BY <1>3, <2>4, <2>5
<1>7. CASE ~IsRm /\ Recalibrate
  <2>1. cal' \in Nat
    BY <1>7, CalibrationFacts DEF Recalibrate, IInv
  <2>2. reference' \in [work : Nat, after : Nat]
    BY <1>4, <1>7, <2>1 DEF Recalibrate
  <2>3. [NoSample EXCEPT !.present = Present \union {"A"}] \in SampleSet
    BY <1>5 DEF NoSample, SampleSet, Owners
  <2> DEFINE r == Row("calibration", "a_with_idle_b", cal', reference',
                      [NoSample EXCEPT !.present = Present \union {"A"}])
  <2>4. r \in RowSet
    BY <1>4, <2>1, <2>2, <2>3, RowType DEF Conditions
  <2>5. ~IsCase(r) /\ rows' = Append(rows, r)
    BY <1>7 DEF IsCase, Row, Recalibrate
  <2> HIDE DEF r
  <2> QED
    BY <1>3, <2>4, <2>5
<1>8. CASE IdleB
  <2> DEFINE q == [present |-> Present, a_launch_seq |-> 0, b_launch_seq |-> launches.B + 1]
             r == Row("takeover", "b_with_idle_a", cal, reference, q)
  <2>3. q \in SampleSet
    BY <1>4, <1>5 DEF SampleSet
  <2>4. r \in RowSet
    BY <1>4, <2>3, RowType DEF Conditions, PartNames
  <2>5. ~IsCase(r) /\ rows' = Append(rows, r)
    BY <1>8 DEF IsCase, Row, IdleB
  <2> HIDE DEF r
  <2> QED
    BY <1>3, <2>4, <2>5
<1> QED
  BY <1>6, <1>7, <1>8

LEMMA MeasuredCases ==
  ASSUME IInv, CaseInv, MeasureA \/ Post
  PROVE  CaseInv'
<1>1. UNCHANGED <<o, run_status, outcome>> /\ EndCase /\ pc \in Loops
  BY DEF MeasureA, Post, ending, Loops
<1>2. PlanInv /\ cal \in Nat /\ reference \in [work : Nat, after : Nat] /\ rows \in Seq(RowSet)
      /\ s \in SampleSet
  BY TypeFacts DEF IInv
<1>3. Part \in PartNames /\ condition \in Conditions
  BY <1>1, <1>2, PartFacts, ConditionFacts DEF PlanInv
<1>4. ASSUME NEW sample \in SampleSet,
             rows' = Append(rows, Row(Part, condition, cal, reference, sample))
      PROVE  CaseInv'
  <2> DEFINE r == Row(Part, condition, cal, reference, sample)
  <2>1. r \in RowSet
    BY <1>2, <1>3, RowType
  <2>2. /\ CaseOf(r) = ThisCase /\ r.experiment = Part /\ r.trial = trial /\ r.order = order
        /\ r.condition = condition
    BY DEF Row, CaseOf, ThisCase
  <2>3. rows' = Append(rows, r)
    BY <1>4
  <2> HIDE DEF r
  <2> QED
    BY <1>1, <1>2, <2>1, <2>2, <2>3, ThisRow
<1>5. CASE MeasureA
  <2>1. Launch(Warmup + 1, 0) /\ launches \in [Owners -> Nat] /\ Warmup + 1 \in Nat
    BY <1>5, TypeFacts, WarmupAssumption DEF MeasureA, IInv
  <2>2. launches'.A \in Nat
    BY <2>1, LaunchFacts DEF Owners
  <2>3. [present |-> Present, a_launch_seq |-> launches'.A, b_launch_seq |-> 0] \in SampleSet
    BY <2>2 DEF SampleSet, Present
  <2>4. Part = "standby"
    BY <1>2, <1>5 DEF MeasureA, PlanInv
  <2> QED
    BY <1>4, <1>5, <2>3, <2>4 DEF MeasureA
<1>6. CASE Post
  BY <1>2, <1>4, <1>6 DEF Post
<1> QED
  BY <1>5, <1>6

LEMMA EndCases ==
  ASSUME IInv, CaseInv, Complete \/ Report \/ Fail \/ Unwind
  PROVE  CaseInv'
<1>1. run_status = "completed" => pc \in {"report", "ended"}
  BY DEF IInv, CountsInv
<1>2. CASE Complete
  <2>1. /\ UNCHANGED <<o, place, rows>> /\ run_status' = "completed"
        /\ pc = "complete" /\ pc' = "report"
    BY <1>2 DEF Complete
  <2> QED
    BY <2>1, SameRows, SameCasesBehind DEF Running, Endings
<1>3. CASE Report
  <2>1. /\ UNCHANGED <<o, place, rows, run_status>>
        /\ pc = "report" /\ pc' = "ended"
    BY <1>3 DEF Report, files
  <2>2. run_status' = "completed"
    BY <2>1 DEF CaseInv
  <2> QED
    BY <2>1, <2>2, SameRows, SameCasesBehind DEF Running, Endings
<1>4. CASE Fail
  <2>1. /\ UNCHANGED <<run_status, outcome>> /\ pc' = "unwind" /\ pc \notin {"report", "ended"}
    BY <1>4 DEF Fail
  <2> QED
    BY <1>1, <2>1 DEF CaseInv, Running
<1>5. CASE Unwind
  <2>1. /\ run_status' \in {"failed", run_status} /\ outcome' = "exit 1" /\ pc = "unwind"
        /\ pc' = "ended"
    BY <1>5 DEF Unwind
  <2> QED
    BY <1>1, <2>1 DEF CaseInv, Running
<1> QED
  BY <1>2, <1>3, <1>4, <1>5

LEMMA NextCases == ASSUME IInv, CaseInv, [Next]_vars PROVE CaseInv'
<1>1. CASE UNCHANGED vars
  <2>1. UNCHANGED <<o, place, rows, pc, run_status, outcome>>
    BY <1>1 DEF vars, place
  <2>2. CASE Running
    <3>1. CasesBehind' = CasesBehind
      BY <2>1, SameCasesBehind
    <3>2. pc' = "report" \/ outcome' = "exit 0" => run_status' = "completed"
      BY <2>1 DEF CaseInv
    <3> QED
      BY <2>1, <2>2, <3>1, <3>2, SameRows
  <2>3. CASE ~Running
    BY <2>1, <2>3 DEF CaseInv, Running
  <2> QED
    BY <2>2, <2>3
<1> QED
  BY <1>1, PlainCases, ProbeCases, RewindRunCases, RowCases, MeasuredCases, EndCases DEF Next, Done

LEMMA InitCases == ASSUME Init PROVE CaseInv
<1>1. /\ rows = <<>> /\ outcome = "none" /\ o \in Settings
      /\ target = 1 /\ part = 1 /\ trial = 0 /\ order = 0 /\ pc \in {"scope", "close_b"}
  BY DEF Init
<1>2. CasesBehind = {}
  <2> SUFFICES ASSUME NEW q \in CasesBehind PROVE FALSE
    OBVIOUS
  <2>1. q \in Cases
    BY DEF CasesBehind
  <2>2. PICK k \in DOMAIN Parts : q.order \in 0..(Len(ConditionsOf(Parts[k])) - 1)
    BY <2>1, CaseFacts
  <2>3. Len(ConditionsOf(Parts[k])) \in 1..3
    BY <1>1, PartsAre, ConditionsFacts
  <2>4. q.target \in 1..o.targets /\ q.trial \in 0..(o.trials - 1) /\ q.order \in Nat
    BY <2>1, <2>2, <2>3, CaseFacts
  <2>5. o.targets \in Nat /\ o.trials \in Nat
    BY <1>1, OptionFacts
  <2>6. ~(q.target < 1) /\ ~(q.trial < 0) /\ ~(q.order < 0)
    BY <2>4, <2>5
  <2> QED
    BY <1>1, <2>6 DEF CasesBehind, Endings
<1> QED
  BY <1>1, <1>2 DEF CaseInv, OneRowEach

--------------------------------------------------------------------------------
(* Counting.                                                                *)

\* How often a condition has a place of the order: every so many trials.
LEMMA Turns ==
  ASSUME NEW N \in Nat, NEW L \in 1..3, NEW r \in 0..(L - 1)
  PROVE  /\ IsFiniteSet({n \in 0..(N - 1) : n % L = r})
         /\ Cardinality({n \in 0..(N - 1) : n % L = r}) = (N + L - 1 - r) \div L
<1> DEFINE Q == (N + L - 1 - r) \div L
           S == 0..(Q - 1)
           T == {n \in 0..(N - 1) : n % L = r}
           f == [q \in S |-> L * q + r]
<1>1. Q \in Nat
  BY SMT
<1>2. \A q \in S : L * q + r \in T
  <2> SUFFICES ASSUME NEW q \in S PROVE L * q + r \in 0..(N - 1) /\ (L * q + r) % L = r
    OBVIOUS
  <2>1. CASE L = 1
    BY <1>1, <2>1
  <2>2. CASE L = 2
    BY <1>1, <2>2
  <2>3. CASE L = 3
    BY <1>1, <2>3
  <2> QED
    BY <2>1, <2>2, <2>3
<1>3. \A n \in T : \E q \in S : n = L * q + r
  <2> SUFFICES ASSUME NEW n \in T PROVE \E q \in S : n = L * q + r
    OBVIOUS
  <2>1. n \div L \in S /\ n = L * (n \div L) + r
    <3>1. CASE L = 1
      BY <1>1, <3>1
    <3>2. CASE L = 2
      BY <1>1, <3>2
    <3>3. CASE L = 3
      BY <1>1, <3>3
    <3> QED
      BY <3>1, <3>2, <3>3
  <2> QED
    BY <2>1
<1>4. \A p, q \in S : L * p + r = L * q + r => p = q
  <2> SUFFICES ASSUME NEW p \in S, NEW q \in S, L * p + r = L * q + r PROVE p = q
    OBVIOUS
  <2>1. CASE L = 1
    BY <1>1, <2>1
  <2>2. CASE L = 2
    BY <1>1, <2>2
  <2>3. CASE L = 3
    BY <1>1, <2>3
  <2> QED
    BY <2>1, <2>2, <2>3
<1>5. IsFiniteSet(S) /\ Cardinality(S) = Q
  BY <1>1, FS_Interval
<1> HIDE DEF Q, S, T
<1>6. f \in Bijection(S, T)
  <2>1. f \in [S -> T]
    BY <1>2
  <2>2. \A p, q \in S : f[p] = f[q] => p = q
    BY <1>4
  <2>3. \A n \in T : \E q \in S : f[q] = n
    BY <1>3
  <2> QED
    BY <2>1, <2>2, <2>3, Fun_IsBij
<1>7. ExistsBijection(S, T)
  BY <1>6 DEF ExistsBijection
<1>8. IsFiniteSet(T) /\ Cardinality(T) = Q
  BY <1>5, <1>7, FS_Bijection
<1> QED
  BY <1>8 DEF T, Q

LEMMA TurnsBalance ==
  ASSUME NEW N \in Nat, NEW L \in 1..3, NEW r \in 0..(L - 1), NEW q \in 0..(L - 1)
  PROVE  (N + L - 1 - r) \div L <= (N + L - 1 - q) \div L + 1
<1>1. CASE L = 1
  BY <1>1
<1>2. CASE L = 2
  BY <1>2
<1>3. CASE L = 3
  BY <1>3
<1> QED
  BY <1>1, <1>2, <1>3

\* The trials in which the x-th condition has the m-th place.
LEMMA TurnOf ==
  ASSUME NEW L \in 1..3, NEW x \in 1..L, NEW m \in 0..(L - 1), NEW n \in Nat
  PROVE  ((n + m) % L) + 1 = x <=> n % L = (x - 1 - m + L) % L
<1>1. CASE L = 1
  BY <1>1
<1>2. CASE L = 2
  BY <1>2
<1>3. CASE L = 3
  BY <1>3
<1> QED
  BY <1>1, <1>2, <1>3

\* Every condition has one place in each trial.
LEMMA OnePlace ==
  ASSUME NEW L \in 1..3, NEW x \in 1..L, NEW n \in Nat
  PROVE  /\ \E m \in 0..(L - 1) : ((n + m) % L) + 1 = x
         /\ \A m, j \in 0..(L - 1) : ((n + m) % L) + 1 = x /\ ((n + j) % L) + 1 = x => m = j
<1> DEFINE m == (x - 1 - (n % L) + L) % L
<1>1. m \in 0..(L - 1) /\ ((n + m) % L) + 1 = x
  <2>1. CASE L = 1
    BY <2>1
  <2>2. CASE L = 2
    BY <2>2
  <2>3. CASE L = 3
    BY <2>3
  <2> QED
    BY <2>1, <2>2, <2>3
<1>2. ASSUME NEW i \in 0..(L - 1), NEW j \in 0..(L - 1),
             ((n + i) % L) + 1 = x, ((n + j) % L) + 1 = x
      PROVE  i = j
  <2>1. CASE L = 1
    BY <1>2, <2>1
  <2>2. CASE L = 2
    BY <1>2, <2>2
  <2>3. CASE L = 3
    BY <1>2, <2>3
  <2> QED
    BY <2>1, <2>2, <2>3
<1> QED
  BY <1>1, <1>2

LEMMA PlaceRange ==
  ASSUME NEW L \in 1..3, NEW a \in Nat
  PROVE  (a % L) + 1 \in 1..L
OBVIOUS

\* The rows of one condition, of one part and target.
LEMMA RowsOfCondition ==
  ASSUME IInv, CaseInv, run_status = "completed",
         NEW k \in DOMAIN Parts, NEW t \in 1..o.targets, NEW x \in DOMAIN ConditionsOf(Parts[k])
  PROVE  LET p == Parts[k]
             c == ConditionsOf(p)
         IN /\ Len(c) \in 1..3 /\ DOMAIN c = 1..Len(c)
            /\ \A m \in 0..(Len(c) - 1) :
                 /\ \A i \in RowsAt(p, c[x], t, m) :
                      /\ i \in DOMAIN rows /\ rows[i].trial \in 0..(o.trials - 1)
                      /\ ((rows[i].trial + m) % Len(c)) + 1 = x
                 /\ \A n \in 0..(o.trials - 1) :
                      ((n + m) % Len(c)) + 1 = x =>
                        \E i \in RowsAt(p, c[x], t, m) : rows[i].trial = n
            /\ \A m, n \in 0..(Len(c) - 1) :
                 \A i \in RowsAt(p, c[x], t, m), j \in RowsAt(p, c[x], t, n) :
                   rows[i].trial = rows[j].trial /\ m = n => i = j
<1> DEFINE p == Parts[k]
           c == ConditionsOf(p)
           L == Len(c)
<1>1. o \in Settings /\ p \in PartNames /\ o.trials \in Nat
  <2>1. o \in Settings
    BY DEF IInv, PlanInv
  <2> QED
    BY <2>1, PartsAre, OptionFacts
<1>2. /\ L \in 1..3 /\ DOMAIN c = 1..L
      /\ \A j, n \in DOMAIN c : c[j] = c[n] => j = n
      /\ \A n \in DOMAIN c : c[n] # "b_with_idle_a"
  BY <1>1, ConditionsFacts, ConditionsDiffer
<1>3. /\ OneRowEach(rows, Cases) /\ \A i \in DOMAIN rows : InTurn(rows[i])
  <2>1. pc \in Endings
    BY DEF IInv, CountsInv, Endings
  <2> QED
    BY <2>1, AllBehind DEF CaseInv, Running
<1>4. x \in 1..L /\ p # "calibration"
  BY <1>1, <1>2 DEF PartNames
<1>5. ASSUME NEW m \in 0..(L - 1), NEW i \in RowsAt(p, c[x], t, m)
      PROVE  /\ i \in DOMAIN rows /\ rows[i].trial \in 0..(o.trials - 1)
             /\ ((rows[i].trial + m) % L) + 1 = x
             /\ IsCase(rows[i])
             /\ CaseOf(rows[i]) = [part |-> p, target |-> t, trial |-> rows[i].trial, order |-> m]
  <2>1. /\ i \in DOMAIN rows /\ rows[i].experiment = p /\ rows[i].condition = c[x]
        /\ rows[i].target = t /\ rows[i].order = m
    BY DEF RowsAt
  <2>2. IsCase(rows[i])
    BY <1>2, <1>4, <2>1 DEF IsCase
  <2>3. CaseOf(rows[i]) = [part |-> p, target |-> t, trial |-> rows[i].trial, order |-> m]
    BY <2>1 DEF CaseOf
  <2>4. CaseOf(rows[i]) \in Cases
    BY <1>3, <2>1, <2>2 DEF OneRowEach
  <2>5. rows[i].trial \in 0..(o.trials - 1)
    BY <2>3, <2>4, CaseFacts
  <2>6. c[x] = c[((rows[i].trial + m) % L) + 1]
    BY <1>3, <2>1, <2>2 DEF InTurn, ConditionAt
  <2>7. ((rows[i].trial + m) % L) + 1 \in 1..L
    <3>1. rows[i].trial + m \in Nat
      BY <1>1, <1>2, <2>5
    <3> QED
      BY <1>2, <3>1, PlaceRange
  <2>8. ((rows[i].trial + m) % L) + 1 = x
    BY <1>2, <1>4, <2>6, <2>7
  <2> QED
    BY <2>1, <2>2, <2>3, <2>5, <2>8
<1>6. ASSUME NEW m \in 0..(L - 1), NEW n \in 0..(o.trials - 1), ((n + m) % L) + 1 = x
      PROVE  \E i \in RowsAt(p, c[x], t, m) : rows[i].trial = n
  <2>1. [part |-> p, target |-> t, trial |-> n, order |-> m] \in Cases
    BY CasesAre
  <2>2. PICK i \in DOMAIN rows :
          /\ IsCase(rows[i])
          /\ CaseOf(rows[i]) = [part |-> p, target |-> t, trial |-> n, order |-> m]
    BY <1>3, <2>1 DEF OneRowEach
  <2>3. rows[i].experiment = p /\ rows[i].target = t /\ rows[i].trial = n /\ rows[i].order = m
    BY <2>2 DEF CaseOf
  <2>4. rows[i].condition = c[x]
    BY <1>3, <1>6, <2>2, <2>3 DEF InTurn, ConditionAt
  <2> QED
    BY <2>3, <2>4 DEF RowsAt
<1>7. ASSUME NEW m \in 0..(L - 1), NEW i \in RowsAt(p, c[x], t, m), NEW j \in RowsAt(p, c[x], t, m),
             rows[i].trial = rows[j].trial
      PROVE  i = j
  <2>1. IsCase(rows[i]) /\ IsCase(rows[j]) /\ i \in DOMAIN rows /\ j \in DOMAIN rows
    BY <1>5
  <2>2. CaseOf(rows[i]) = CaseOf(rows[j])
    BY <1>5, <1>7
  <2> QED
    BY <1>3, <2>1, <2>2 DEF OneRowEach
<1> HIDE DEF L
<1> QED
  BY <1>2, <1>5, <1>6, <1>7 DEF L

\* So many of them have one place of the order.
LEMMA RowsInPlace ==
  ASSUME IInv, CaseInv, run_status = "completed",
         NEW k \in DOMAIN Parts, NEW t \in 1..o.targets, NEW x \in DOMAIN ConditionsOf(Parts[k]),
         NEW m \in 0..(Len(ConditionsOf(Parts[k])) - 1)
  PROVE  LET c == ConditionsOf(Parts[k])
         IN Cardinality(RowsAt(Parts[k], c[x], t, m)) =
              (o.trials + Len(c) - 1 - ((x - 1 - m + Len(c)) % Len(c))) \div Len(c)
<1> DEFINE p == Parts[k]
           c == ConditionsOf(p)
           L == Len(c)
           S == RowsAt(p, c[x], t, m)
           T == {n \in 0..(o.trials - 1) : n % L = (x - 1 - m + L) % L}
           f == [i \in S |-> rows[i].trial]
<1>1. /\ L \in 1..3 /\ x \in 1..L
      /\ \A i \in S : /\ i \in DOMAIN rows /\ rows[i].trial \in 0..(o.trials - 1)
                      /\ ((rows[i].trial + m) % L) + 1 = x
      /\ \A n \in 0..(o.trials - 1) :
           ((n + m) % L) + 1 = x => \E i \in S : rows[i].trial = n
      /\ \A i, j \in S : rows[i].trial = rows[j].trial => i = j
  BY RowsOfCondition
<1>2. o.trials \in Nat
  BY OptionFacts DEF IInv, PlanInv
<1>3. IsFiniteSet(S)
  <2>1. DOMAIN rows = 1..Len(rows) /\ Len(rows) \in Nat
    BY TypeFacts DEF IInv
  <2>2. IsFiniteSet(DOMAIN rows)
    BY <2>1, FS_Interval
  <2>3. S \subseteq DOMAIN rows
    BY DEF RowsAt
  <2> QED
    BY <2>2, <2>3, FS_Subset
<1>4. (x - 1 - m + L) % L \in 0..(L - 1)
  BY <1>1
<1>5. Cardinality(T) = (o.trials + L - 1 - ((x - 1 - m + L) % L)) \div L
  BY <1>1, <1>2, <1>4, Turns
<1> HIDE DEF S, L
<1>6. \A n \in 0..(o.trials - 1) : n \in T <=> ((n + m) % L) + 1 = x
  <2> SUFFICES ASSUME NEW n \in 0..(o.trials - 1) PROVE n \in T <=> ((n + m) % L) + 1 = x
    OBVIOUS
  <2>1. L \in 1..3 /\ x \in 1..L /\ m \in 0..(L - 1) /\ n \in Nat
    BY <1>1, <1>2 DEF L
  <2>2. ((n + m) % L) + 1 = x <=> n % L = (x - 1 - m + L) % L
    BY <2>1, TurnOf, Zenon
  <2> QED
    BY <2>2
<1>7. T \subseteq 0..(o.trials - 1)
  OBVIOUS
<1> HIDE DEF T
<1>8. f \in Bijection(S, T)
  <2>1. f \in [S -> T]
    BY <1>1, <1>6
  <2>2. \A i, j \in S : f[i] = f[j] => i = j
    BY <1>1
  <2>3. \A n \in T : \E i \in S : f[i] = n
    BY <1>1, <1>6, <1>7
  <2> QED
    BY <2>1, <2>2, <2>3, Fun_IsBij
<1>9. ExistsBijection(S, T)
  BY <1>8 DEF ExistsBijection
<1>10. Cardinality(T) = Cardinality(S)
  BY <1>3, <1>9, FS_Bijection
<1> QED
  BY <1>5, <1>10 DEF S, L

\* Together they are one for each trial.
LEMMA RowsInAll ==
  ASSUME IInv, CaseInv, run_status = "completed",
         NEW k \in DOMAIN Parts, NEW t \in 1..o.targets, NEW x \in DOMAIN ConditionsOf(Parts[k])
  PROVE  LET c == ConditionsOf(Parts[k])
         IN Cardinality(UNION {RowsAt(Parts[k], c[x], t, n - 1) : n \in DOMAIN c}) = o.trials
<1> DEFINE p == Parts[k]
           c == ConditionsOf(p)
           L == Len(c)
           At(m) == RowsAt(p, c[x], t, m)
           S == UNION {At(n - 1) : n \in DOMAIN c}
           T == 0..(o.trials - 1)
           f == [i \in S |-> rows[i].trial]
<1>1. /\ L \in 1..3 /\ x \in 1..L /\ DOMAIN c = 1..L
      /\ \A m \in 0..(L - 1) : \A i \in At(m) :
           /\ i \in DOMAIN rows /\ rows[i].trial \in T
           /\ ((rows[i].trial + m) % L) + 1 = x
      /\ \A m \in 0..(L - 1) : \A n \in T :
           ((n + m) % L) + 1 = x => \E i \in At(m) : rows[i].trial = n
      /\ \A m \in 0..(L - 1) : \A i, j \in At(m) : rows[i].trial = rows[j].trial => i = j
  <2>1. L \in 1..3 /\ DOMAIN c = 1..L
    BY RowsOfCondition
  <2>2. ASSUME NEW m \in 0..(L - 1)
        PROVE  /\ \A i \in At(m) : /\ i \in DOMAIN rows /\ rows[i].trial \in T
                                  /\ ((rows[i].trial + m) % L) + 1 = x
               /\ \A n \in T : ((n + m) % L) + 1 = x => \E i \in At(m) : rows[i].trial = n
               /\ \A i, j \in At(m) : rows[i].trial = rows[j].trial => i = j
    <3>1. /\ \A i \in At(m) : /\ i \in DOMAIN rows /\ rows[i].trial \in T
                             /\ ((rows[i].trial + m) % L) + 1 = x
          /\ \A n \in T : ((n + m) % L) + 1 = x => \E i \in At(m) : rows[i].trial = n
      BY <2>2, RowsOfCondition
    <3>2. \A i, j \in At(m) : rows[i].trial = rows[j].trial /\ m = m => i = j
      BY <2>2, RowsOfCondition
    <3> QED
      BY <3>1, <3>2
  <2> QED
    BY <2>1, <2>2
<1>2. o.trials \in Nat
  BY OptionFacts DEF IInv, PlanInv
<1> HIDE DEF L, At, T
<1>3. /\ \A i \in S : \E m \in 0..(L - 1) : i \in At(m)
      /\ \A m \in 0..(L - 1) : At(m) \subseteq S
  <2>1. \A n \in 1..L : n - 1 \in 0..(L - 1)
    BY <1>1
  <2>2. \A m \in 0..(L - 1) : m + 1 \in 1..L /\ (m + 1) - 1 = m
    BY <1>1
  <2>3. ASSUME NEW i \in S PROVE \E m \in 0..(L - 1) : i \in At(m)
    <3>1. PICK n \in 1..L : i \in At(n - 1)
      BY <1>1, <2>3
    <3> QED
      BY <2>1, <3>1
  <2>4. ASSUME NEW m \in 0..(L - 1) PROVE At(m) \subseteq S
    <3>1. At((m + 1) - 1) \subseteq S
      BY <1>1, <2>2
    <3> QED
      BY <2>2, <3>1
  <2> QED
    BY <2>3, <2>4
<1> HIDE DEF S
<1>4. IsFiniteSet(S)
  <2>1. DOMAIN rows = 1..Len(rows) /\ Len(rows) \in Nat
    BY TypeFacts DEF IInv
  <2>2. IsFiniteSet(DOMAIN rows)
    BY <2>1, FS_Interval
  <2>3. S \subseteq DOMAIN rows
    BY <1>1, <1>3
  <2> QED
    BY <2>2, <2>3, FS_Subset
<1>5. T \subseteq Nat /\ Cardinality(T) = o.trials
  <2>1. 0 \in Int /\ o.trials - 1 \in Int
    BY <1>2
  <2>2. Cardinality(0..(o.trials - 1)) =
          IF 0 > o.trials - 1 THEN 0 ELSE (o.trials - 1) - 0 + 1
    BY <2>1, FS_Interval
  <2> QED
    BY <1>2, <2>2 DEF T
<1>6. f \in Bijection(S, T)
  <2>1. f \in [S -> T]
    BY <1>1, <1>3
  <2>2. ASSUME NEW i \in S, NEW j \in S, f[i] = f[j] PROVE i = j
    <3>1. PICK m \in 0..(L - 1) : i \in At(m)
      BY <1>3
    <3>2. PICK n \in 0..(L - 1) : j \in At(n)
      BY <1>3
    <3>3. /\ rows[i].trial = rows[j].trial /\ rows[i].trial \in Nat
          /\ ((rows[i].trial + m) % L) + 1 = x /\ ((rows[i].trial + n) % L) + 1 = x
      BY <1>1, <1>5, <2>2, <3>1, <3>2
    <3>4. m = n
      <4>1. L \in 1..3 /\ x \in 1..L /\ rows[i].trial \in Nat
        BY <1>1, <3>3
      <4>2. \A a, b \in 0..(L - 1) :
              ((rows[i].trial + a) % L) + 1 = x /\ ((rows[i].trial + b) % L) + 1 = x => a = b
        BY <4>1, OnePlace, Zenon
      <4> QED
        BY <3>3, <4>2, Zenon
    <3> QED
      BY <1>1, <3>1, <3>2, <3>3, <3>4
  <2>3. ASSUME NEW n \in T PROVE \E i \in S : f[i] = n
    <3>1. PICK m \in 0..(L - 1) : ((n + m) % L) + 1 = x
      <4>1. L \in 1..3 /\ x \in 1..L /\ n \in Nat
        BY <1>1, <1>5
      <4> QED
        BY <4>1, OnePlace, Zenon
    <3>2. PICK i \in At(m) : rows[i].trial = n
      BY <1>1, <3>1
    <3> QED
      BY <1>3, <3>2
  <2> QED
    BY <2>1, <2>2, <2>3, Fun_IsBij
<1>7. ExistsBijection(S, T)
  BY <1>6 DEF ExistsBijection
<1>8. Cardinality(S) = o.trials
  BY <1>4, <1>5, <1>7, FS_Bijection
<1> QED
  BY <1>8 DEF S, At

LEMMA CasesBalance == ASSUME IInv, CaseInv PROVE CompletedIsBalanced
<1>1. outcome = "exit 0" => run_status = "completed"
  BY DEF CaseInv
<1>2. ASSUME run_status = "completed", NEW k \in DOMAIN Parts, NEW t \in 1..o.targets,
             NEW x \in DOMAIN ConditionsOf(Parts[k])
      PROVE  LET p == Parts[k]
                 c == ConditionsOf(p)
                 times(y, n) == Cardinality(RowsAt(p, y, t, n - 1))
             IN /\ Cardinality(UNION {RowsAt(p, c[x], t, n - 1) : n \in DOMAIN c}) = o.trials
                /\ \A m, n \in DOMAIN c : times(c[x], m) <= times(c[x], n) + 1
  <2> DEFINE p == Parts[k]
             c == ConditionsOf(p)
             L == Len(c)
             rest(m) == (x - 1 - (m - 1) + L) % L
             count(m) == Cardinality(RowsAt(p, c[x], t, m - 1))
  <2>1. L \in 1..3 /\ DOMAIN c = 1..L /\ o.trials \in Nat
    BY <1>2, RowsOfCondition, OptionFacts DEF IInv, PlanInv
  <2>2. ASSUME NEW m \in 1..L
        PROVE  /\ count(m) = (o.trials + L - 1 - rest(m)) \div L
               /\ rest(m) \in 0..(L - 1)
    <3>1. m - 1 \in 0..(L - 1)
      BY <2>1
    <3>2. count(m) = (o.trials + L - 1 - rest(m)) \div L
      BY <1>2, <3>1, RowsInPlace
    <3>3. rest(m) \in 0..(L - 1)
      BY <2>1, <3>1
    <3> QED
      BY <3>2, <3>3
  <2> HIDE DEF rest, count, L
  <2>3. \A m, n \in 1..L : count(m) <= count(n) + 1
    BY <2>1, <2>2, TurnsBalance
  <2>4. Cardinality(UNION {RowsAt(p, c[x], t, n - 1) : n \in DOMAIN c}) = o.trials
    BY <1>2, RowsInAll
  <2> QED
    BY <2>1, <2>3, <2>4 DEF count
<1> QED
  BY <1>1, <1>2 DEF CompletedIsBalanced

--------------------------------------------------------------------------------
(* Theorems.                                                                *)

\* The invariant holds in every state the driver can be in.
THEOREM Inductive == Spec => []IInv
<1>1. Init => IInv
  BY InitIInv
<1>2. IInv /\ [Next]_vars => IInv'
  BY NextKeeps
<1> QED
  BY <1>1, <1>2, PTL DEF Spec

\* Every variable has its type, for any settings, targets, trials and warm-ups.
THEOREM TypeCorrect == Spec => []TypeOK
<1>1. IInv => TypeOK
  <2> SUFFICES ASSUME IInv PROVE TypeOK
    OBVIOUS
  <2>1. PlanInv /\ TypeInv
    BY DEF IInv
  <2>2. order < 3 /\ trial < o.trials /\ target <= o.targets /\ part <= 2 /\ o \in Settings
    <3>1. o.trials \in Nat \ {0} /\ o.targets \in Nat \ {0}
      BY <2>1, OptionFacts DEF PlanInv
    <3>2. /\ target \in 1..o.targets /\ part \in 1..2 /\ trial \in 0..(o.trials - 1)
          /\ order \in 0..2 /\ o \in Settings
      BY <2>1 DEF PlanInv
    <3> QED
      BY <3>1, <3>2
  <2>3. \A i \in DOMAIN rows : rows[i].status \in {"ok", "error"}
    <3>1. \A i \in DOMAIN rows : rows[i] \in RowSet
      BY <2>1, TypeFacts
    <3> QED
      BY <3>1 DEF RowSet
  <2> QED
    BY <2>1, <2>2, <2>3 DEF TypeOK, TypeInv
<1> QED
  BY <1>1, Inductive, PTL

\* What a row says of its contexts, its work and its reference is so, whatever
\* the trials before destroyed, recreated or recalibrated, for any number of them.
THEOREM RowsMean == Spec => []RowsMeanWhatTheySay
<1>1. IInv => RowsMeanWhatTheySay
  <2> SUFFICES ASSUME IInv PROVE RowsMeanWhatTheySay
    OBVIOUS
  <2>1. SettingsAreReal
    <3>1. CtxInv /\ PresentInv
      BY DEF IInv
    <3>2. /\ pc = "measure_a" => ctx.A
          /\ pc \in {"idle_b", "handoff"} => ctx.A /\ ctx.B
          /\ pc \in {"anchor", "post"} => ctx.B
      BY <3>1 DEF CtxInv
    <3>3. \A i \in DOMAIN rows : Attended(rows[i])
      BY <3>1 DEF PresentInv
    <3> QED
      BY <3>2, <3>3 DEF SettingsAreReal, Attended
  <2>2. ComparisonsShareWork
    <3>1. \A i \in DOMAIN rows : Referred(rows[i], i)
      BY DEF IInv, ReferenceInv
    <3>2. \A i, j \in DOMAIN rows : SameWork(rows[i], rows[j])
      BY DEF IInv, WorkInv
    <3> QED
      BY <3>1, <3>2 DEF ComparisonsShareWork, Referred, SameWork
  <2> QED
    BY <2>1, <2>2 DEF RowsMeanWhatTheySay
<1> QED
  BY <1>1, Inductive, PTL

\* Launch numbers only grow over the rows, and stay within the totals, although
\* contexts are destroyed and created in between.
THEOREM LaunchesNumbered == Spec => []LaunchesAreNumbered
<1>1. IInv => LaunchesAreNumbered
  <2> SUFFICES ASSUME IInv, NEW i \in DOMAIN rows
               PROVE  /\ \A j \in 1..(i - 1) :
                           /\ rows[i].a_launch_seq # 0 => rows[j].a_launch_seq < rows[i].a_launch_seq
                           /\ rows[i].b_launch_seq # 0 => rows[j].b_launch_seq < rows[i].b_launch_seq
                      /\ run_status = "completed" =>
                           rows[i].a_launch_seq <= counts.A /\ rows[i].b_launch_seq <= counts.B
    BY DEF LaunchesAreNumbered
  <2>1. \A j \in 1..(i - 1) : Newer(rows[i], rows[j])
    <3> SUFFICES ASSUME NEW j \in 1..(i - 1) PROVE Newer(rows[i], rows[j])
      OBVIOUS
    <3>1. rows \in Seq(RowSet)
      BY TypeFacts DEF IInv
    <3>2. j \in DOMAIN rows /\ j < i
      BY <3>1
    <3> QED
      BY <3>2 DEF IInv, NumberInv
  <2>2. run_status = "completed" => Within(rows[i], counts)
    BY DEF IInv, CountsInv
  <2> QED
    BY <2>1, <2>2 DEF Newer, Within
<1> QED
  BY <1>1, Inductive, PTL

\* No control of any run is refused for a stale binding or an exhausted budget,
\* for any number of targets, trials and rewind cases and in every order.
THEOREM ControlsCovered == Spec => []ControlsAreCovered
<1>1. Init => BudgetInv
  BY InitBudget
<1>2. IInv /\ IInv' /\ BudgetInv /\ [Next]_vars => BudgetInv'
  BY NextBudget
<1>3. IInv /\ BudgetInv => ControlsAreCovered
  BY BudgetSuffices
<1> QED
  BY <1>1, <1>2, <1>3, Inductive, PTL DEF Spec

\* A completed run has measured every condition once per trial and target, and in
\* each place of the order equally often up to one, for any number of trials.
THEOREM CompletedBalanced == Spec => []CompletedIsBalanced
<1>1. Init => CaseInv
  BY InitCases
<1>2. IInv /\ IInv' /\ CaseInv /\ [Next]_vars => CaseInv'
  BY NextCases
<1>3. IInv /\ CaseInv => CompletedIsBalanced
  BY CasesBalance
<1> QED
  BY <1>1, <1>2, <1>3, Inductive, PTL DEF Spec

================================================================================
