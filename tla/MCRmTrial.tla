------------------------------- MODULE MCRmTrial -------------------------------
(* One rm_trial in each of its five conditions, with any outcome of every    *)
(* control, any number of failures elsewhere, and two failures of the clock  *)
(* inside a control.                                                         *)
EXTENDS RmTrial

================================================================================
