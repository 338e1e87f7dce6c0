-------------------------------- MODULE MCRewind --------------------------------
(* Two cases, in either way a run comes to have two: a pair, in which the    *)
(* rewind comes second, and two rewinds, the first of which may leave        *)
(* entries behind.                                                          *)
EXTENDS Rewind

TwoCases == {[rm_case |-> "rewind-paired", trials |-> 1], [rm_case |-> "rewind-true", trials |-> 2]}

================================================================================
