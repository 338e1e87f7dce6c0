----------------------------- MODULE ClockEstimate -----------------------------
(****************************************************************************)
(* clock_anchor and estimate_start (src/src/main.cpp).  The CPU's and the   *)
(* GPU's clocks are never subtracted from each other: B's start, known only *)
(* on the GPU's clock, is put on the CPU's by two anchors.  An anchor is a  *)
(* tiny kernel whose GPU start lies between its launch and its completion   *)
(* on the CPU, the tightest of several tries; one is taken before the       *)
(* handoff and one after it.                                                *)
(*                                                                          *)
(* began is the truth the program does not have: the CPU time of the start. *)
(****************************************************************************)
EXTENDS Integers

CONSTANTS
  Tries,     \* tiny kernels per anchor
  MaxTime,   \* bound on the CPU clock
  MaxDrift   \* bound on how far the offset of the two clocks moves

ASSUME TriesAssumption == Tries \in Nat \ {0}
ASSUME BoundsAssumption == MaxTime \in Nat /\ MaxDrift \in Nat

VARIABLES
  cpu,        \* CLOCK_MONOTONIC_RAW
  gpu,        \* %globaltimer
  direction,  \* how the offset drifts: 0 not at all, 1 up or -1 down
  drift,      \* how far it has drifted
  phase,      \* "pre", "b", "post" or "done": what is being measured
  try,        \* tries of the current anchor that are complete
  place,      \* "idle", "launched" or "started": where the tiny kernel is
  run,        \* the current measurement
  pre, sample, post  \* the anchor before, B's measurement, the anchor after

vars == <<cpu, gpu, direction, drift, phase, try, place, run, pre, sample, post>>

\* A measurement: before = launch, after = completion, gpu_ns = start.
Empty == [before |-> 0, after |-> 0, gpu_ns |-> 0, began |-> 0]

low(anchor)  == anchor.before - anchor.gpu_ns
high(anchor) == anchor.after - anchor.gpu_ns

Lesser(a, b)  == IF a <= b THEN a ELSE b
Greater(a, b) == IF a <= b THEN b ELSE a

--------------------------------------------------------------------------------
(* Faulty variants of operators below.                                      *)

\* Only the offset before the handoff is used.
lowestOffsetPre(p, q) == low(p)

\* Brackets that only touch are taken for inconsistent.
consistentStrict(p, q) == Greater(low(p), low(q)) < Lesser(high(p), high(q))

\* One try too many.
moreTriesOneMore == phase # "b" /\ try < Tries

--------------------------------------------------------------------------------
(* estimate_start.                                                          *)

lowestOffset(p, q)  == Lesser(low(p), low(q))
highestOffset(p, q) == Greater(high(p), high(q))

\* The brackets of the two offsets overlap.
consistent(p, q) == Greater(low(p), low(q)) <= Lesser(high(p), high(q))

bounded_low(p, b, q)  == Greater(b.gpu_ns + lowestOffset(p, q), b.before)
bounded_high(p, b, q) == Lesser(b.gpu_ns + highestOffset(p, q), b.after)

start_est_valid(p, b, q) ==
  /\ p.gpu_ns <= b.gpu_ns /\ b.gpu_ns <= q.gpu_ns
  /\ consistent(p, q)
  /\ bounded_low(p, b, q) <= bounded_high(p, b, q)

--------------------------------------------------------------------------------

Init ==
  /\ cpu = 1
  /\ gpu \in {0, 2}
  /\ direction \in {-1, 0, 1}
  /\ drift = 0
  /\ phase = "pre"
  /\ try = 0
  /\ place = "idle"
  /\ run = Empty
  /\ pre = Empty /\ sample = Empty /\ post = Empty

measured == <<phase, try, place, run, pre, sample, post>>

\* Both clocks advance at the same rate...
Tick ==
  /\ cpu < MaxTime
  /\ cpu' = cpu + 1
  /\ gpu' = gpu + 1
  /\ UNCHANGED <<direction, drift, measured>>

\* ... except where the offset drifts: one of them advances alone.
Drift ==
  /\ direction # 0
  /\ drift < MaxDrift
  /\ cpu < MaxTime
  /\ drift' = drift + 1
  /\ IF direction = 1 THEN cpu' = cpu + 1 /\ UNCHANGED gpu
                      ELSE gpu' = gpu + 1 /\ UNCHANGED cpu
  /\ UNCHANGED <<direction, measured>>

\* run_tiny: b_launch = now_ns(), the kernel's first instruction, b_complete.
Launch ==
  /\ phase # "done"
  /\ place = "idle"
  /\ place' = "launched"
  /\ run' = [Empty EXCEPT !.before = cpu]
  /\ UNCHANGED <<cpu, gpu, direction, drift, phase, try, pre, sample, post>>

Start ==
  /\ place = "launched"
  /\ place' = "started"
  /\ run' = [run EXCEPT !.gpu_ns = gpu, !.began = cpu]
  /\ UNCHANGED <<cpu, gpu, direction, drift, phase, try, pre, sample, post>>

\* The first try, or a tighter one, becomes the anchor.
better(anchor) == anchor.after = 0 \/ cpu - run.before < anchor.after - anchor.before

Keep(anchor) == IF better(anchor) THEN [run EXCEPT !.after = cpu] ELSE anchor

moreTries == phase # "b" /\ try + 1 < Tries

Complete ==
  /\ place = "started"
  /\ place' = "idle"
  /\ run' = Empty
  /\ \/ /\ phase = "pre"
        /\ pre' = Keep(pre)
        /\ UNCHANGED <<sample, post>>
     \/ /\ phase = "b"
        /\ sample' = [run EXCEPT !.after = cpu]
        /\ UNCHANGED <<pre, post>>
     \/ /\ phase = "post"
        /\ post' = Keep(post)
        /\ UNCHANGED <<pre, sample>>
  /\ IF moreTries
     THEN try' = try + 1 /\ UNCHANGED phase
     ELSE /\ try' = 0
          /\ phase' = CASE phase = "pre" -> "b" [] phase = "b" -> "post"
                        [] OTHER -> "done"
  /\ UNCHANGED <<cpu, gpu, direction, drift>>

Next == Tick \/ Drift \/ Launch \/ Start \/ Complete

Spec == Init /\ [][Next]_vars

--------------------------------------------------------------------------------
(* Properties.                                                              *)

Measurement == [before : Int, after : Int, gpu_ns : Int, began : Int]

\* The type of every variable.
TypeOK ==
  /\ cpu \in Int
  /\ gpu \in Int
  /\ direction \in {-1, 0, 1}
  /\ drift \in Nat
  /\ phase \in {"pre", "b", "post", "done"}
  /\ try \in 0 .. Tries - 1
  /\ place \in {"idle", "launched", "started"}
  /\ run \in Measurement
  /\ pre \in Measurement
  /\ sample \in Measurement
  /\ post \in Measurement

\* The reported interval contains B's true start, as long as the offset of the
\* two clocks moved in one direction only between the anchors.
EnvelopeSound ==
  phase = "done" => /\ bounded_low(pre, sample, post) <= sample.began
                    /\ sample.began <= bounded_high(pre, sample, post)

\* If the offset did not move at all the estimate is reported, never withheld.
ConstantOffsetAccepted ==
  phase = "done" /\ drift = 0 => start_est_valid(pre, sample, post)

================================================================================
