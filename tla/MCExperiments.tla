----------------------------- MODULE MCExperiments -----------------------------
(* Bounds for Experiments: every mode, with two targets and three trials, so  *)
(* that three conditions rotate once; and every kind of RM run.               *)
EXTENDS Experiments

Bench(mode, action, estimate) ==
  [mode |-> mode, action |-> action, estimate |-> estimate, rm_case |-> "all",
   rm_probe |-> FALSE, trials |-> 3, targets |-> 2]

Rm(rm_case, probe, targets) ==
  [mode |-> "preempt-hold", action |-> "destroy", estimate |-> FALSE, rm_case |-> rm_case,
   rm_probe |-> probe, trials |-> 3, targets |-> targets]

EveryMode ==
  {Bench("all", "both", FALSE), Bench("standby", "destroy", FALSE),
   Bench("takeover", "both", TRUE), Bench("takeover", "wait-then-destroy", FALSE),
   Bench("live-handoff", "destroy", TRUE),
   Rm("all", FALSE, 2), Rm("all", TRUE, 2), Rm("preempt-resume", FALSE, 1),
   Rm("schedule-hold", FALSE, 2), Rm("fifo-hold", FALSE, 1),
   Rm("rewind-true", FALSE, 1), Rm("rewind-paired", FALSE, 1)}

================================================================================
