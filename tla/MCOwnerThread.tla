----------------------------- MODULE MCOwnerThread -----------------------------
(* A Worker with three tasks.  The tasks are interchangeable, but the run    *)
(* checks liveness, so no symmetry is declared.                              *)
EXTENDS OwnerThread

================================================================================
