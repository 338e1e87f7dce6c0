---------------------------- MODULE MCClockEstimate ----------------------------
(* Two tries per anchor, a CPU clock of six ticks and an offset that drifts *)
(* by at most two of them, in either direction or not at all.                *)
EXTENDS ClockEstimate

================================================================================
