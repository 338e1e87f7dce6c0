------------------------------- MODULE MCHandoff -------------------------------
(* One call of takeover in each of the four conditions the driver uses, with *)
(* any number of failures in any of the three threads.                       *)
EXTENDS Handoff

================================================================================
