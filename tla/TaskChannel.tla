------------------------------ MODULE TaskChannel ------------------------------
(****************************************************************************)
(* What a Worker promises to the thread that owns it, without its mutex,    *)
(* condition variable or thread: tasks settle one at a time, in the order   *)
(* in which they were submitted, and the Worker is gone only when none is   *)
(* outstanding and no CUDA context is left behind.                          *)
(****************************************************************************)
EXTENDS Sequences

CONSTANTS Tasks

VARIABLES
  outstanding,  \* submitted tasks whose future is not ready, oldest first
  future,       \* what the future of each task holds
  ctx,          \* does the owner thread have a live CUDA context?
  open          \* does the Worker object still exist?

chanVars == <<outstanding, future, ctx, open>>

Init ==
  /\ outstanding = <<>>
  /\ future = [t \in Tasks |-> "none"]
  /\ ctx = FALSE
  /\ open = TRUE

Submit(t) ==
  /\ open
  /\ future[t] = "none"
  /\ outstanding' = Append(outstanding, t)
  /\ future' = [future EXCEPT ![t] = "pending"]
  /\ UNCHANGED <<ctx, open>>

\* Only the oldest outstanding task can settle; it may create or destroy the
\* context, and an exception settles its future as well as a value does.
Settle ==
  /\ open
  /\ outstanding # <<>>
  /\ \E result \in {"value", "error"} :
       future' = [future EXCEPT ![Head(outstanding)] = result]
  /\ outstanding' = Tail(outstanding)
  /\ ctx' \in BOOLEAN
  /\ UNCHANGED open

\* The thread destroys what is left of its context once nothing is outstanding.
Cleanup ==
  /\ outstanding = <<>>
  /\ ctx
  /\ ctx' = FALSE
  /\ UNCHANGED <<outstanding, future, open>>

Close ==
  /\ open
  /\ outstanding = <<>>
  /\ ~ctx
  /\ open' = FALSE
  /\ UNCHANGED <<outstanding, future, ctx>>

Next == (\E t \in Tasks : Submit(t)) \/ Settle \/ Cleanup \/ Close

Spec == Init /\ [][Next]_chanVars /\ WF_chanVars(Settle)

================================================================================
