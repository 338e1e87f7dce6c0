------------------------------ MODULE MCLiveReads ------------------------------
(* Modes gpfifo-entry and graph-entry, the latter with two cases; at most two  *)
(* samples a window, and a log that the longest behaviours overflow.           *)
EXTENDS LiveReads

================================================================================
