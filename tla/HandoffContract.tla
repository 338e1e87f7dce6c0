---------------------------- MODULE HandoffContract ----------------------------
(****************************************************************************)
(* What one call of takeover promises the experiment driver, with no        *)
(* threads, flags or streams.  The driver asks for the handoff; in a serial *)
(* condition A's context is retired before B is released; B's kernel runs   *)
(* once at most; the call returns exactly once, and what A and B did is     *)
(* frozen from then on.                                                     *)
(****************************************************************************)

CONSTANTS Serial  \* the conditions in which A's context is destroyed first

VARIABLES
  condition,  \* the condition of this call
  asked,      \* the invalidation has been published
  retired,    \* A's context is destroyed
  released,   \* B may submit its kernel
  bRan,       \* B's kernel has completed
  result      \* "none" until the call returns, then how it returned

contractVars == <<condition, asked, retired, released, bRan, result>>

Open == result = "none"

Init ==
  /\ asked = FALSE
  /\ retired = FALSE
  /\ released = FALSE
  /\ bRan = FALSE
  /\ result = "none"

Ask ==
  /\ Open
  /\ asked' = TRUE
  /\ UNCHANGED <<condition, retired, released, bRan, result>>

Retire ==
  /\ Open
  /\ condition \in Serial
  /\ asked
  /\ retired' = TRUE
  /\ UNCHANGED <<condition, asked, released, bRan, result>>

\* A serial handoff releases B after A is gone, a concurrent one when asked.
Release ==
  /\ Open
  /\ asked
  /\ condition \in Serial => retired
  /\ released' = TRUE
  /\ UNCHANGED <<condition, asked, retired, bRan, result>>

RunB ==
  /\ Open
  /\ released
  /\ bRan' = TRUE
  /\ UNCHANGED <<condition, asked, retired, released, result>>

\* A normal return: B has run, and A is gone exactly if it had to go.
Return ==
  /\ Open
  /\ bRan
  /\ retired <=> condition \in Serial
  /\ result' \in {"ok", "a_already_complete"}
  /\ UNCHANGED <<condition, asked, retired, released, bRan>>

Throw ==
  /\ Open
  /\ result' = "error"
  /\ UNCHANGED <<condition, asked, retired, released, bRan>>

Next == Ask \/ Retire \/ Release \/ RunB \/ Return \/ Throw

Spec == Init /\ [][Next]_contractVars

================================================================================
