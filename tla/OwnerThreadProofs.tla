--------------------------- MODULE OwnerThreadProofs ---------------------------
(****************************************************************************)
(* Proofs about OwnerThread, for any set of tasks.                          *)
(****************************************************************************)
EXTENDS OwnerThread, TLAPS

(* The strengthening, by theme.                                             *)

\* The mutex is held exactly inside the critical sections.
MutexInv ==
  /\ mutex = "worker" <=> worker \in {"testing", "blocking"}
  /\ mutex = "controller" <=> controller \in {"pushing", "stopping"}

\* The predicate tested with the lock held is still false on the way to sleep.
SleepInv ==
  /\ worker = "blocking" => ~Runnable
  /\ NoLostWakeup

\* stop_ is set once, and the thread returns only after it has seen it with
\* an empty queue, which nobody refills.
StopInv ==
  /\ stop <=> controller \in {"stopped", "joining", "gone"}
  /\ worker \in {"returning", "exited"} => stop /\ queue = <<>>
  /\ worker = "exited" => ~ctx
  /\ controller = "gone" => worker = "exited"

\* A future that is not ready belongs to the running task or to a queued one.
FutureInv ==
  /\ controller \in {"pushing", "getting"} => arg \in Tasks
  /\ worker = "running" <=> task # NoTask
  /\ \A t \in Tasks : future[t] = "pending" =>
       t = task \/ \E i \in 1..Len(queue) : queue[i] = t

\* The part of TypeOK about sequences, for steps that prove it on its own.
SeqTypes ==
  /\ queue \in Seq(Tasks)
  /\ submitted \in Seq(Tasks)
  /\ started \in Seq(Tasks)

IInv ==
  /\ TypeOK
  /\ StartedInOrder
  /\ MutexInv
  /\ SleepInv
  /\ StopInv
  /\ FutureInv

--------------------------------------------------------------------------------

LEMMA InitIInv == Init => IInv
<1> SUFFICES ASSUME Init PROVE IInv
  OBVIOUS
<1> USE DEF Init
<1>1. SeqTypes /\ StartedInOrder
  BY DEF SeqTypes, StartedInOrder
<1>2. TypeOK
  BY <1>1 DEF TypeOK, SeqTypes, WorkerPlaces, ControllerPlaces
<1>3. MutexInv /\ SleepInv /\ StopInv
  BY DEF MutexInv, SleepInv, NoLostWakeup, StopInv
<1>4. FutureInv
  BY NoTaskAssumption DEF FutureInv
<1> QED
  BY <1>1, <1>2, <1>3, <1>4 DEF IInv

\* Appending to the right part of a concatenation appends to the whole.
LEMMA AppendConcat ==
  ASSUME NEW S, NEW left \in Seq(S), NEW right \in Seq(S), NEW x \in S
  PROVE  Append(left \o right, x) = left \o Append(right, x)
  OBVIOUS

\* Steps that leave the deque and both histories alone, by thread.
QuietWorkerStep ==
  \/ WorkerLock \/ WorkerFindsNothing \/ WorkerSleep \/ SpuriousWakeup
  \/ WorkerReturn \/ WorkerRun \/ WorkerCleanup

QuietControllerStep ==
  \/ SubmitNotify \/ GetEnd
  \/ DestroyLock \/ DestroySetStop \/ DestroyNotify \/ DestroyJoin
  \/ \E t \in Tasks : SubmitLock(t) \/ GetBegin(t)

LEMMA QuietWorkerIInv == IInv /\ QuietWorkerStep => IInv'
<1> SUFFICES ASSUME IInv, QuietWorkerStep PROVE IInv'
  OBVIOUS
<1> USE DEF IInv, QuietWorkerStep, WorkerLock, WorkerFindsNothing, WorkerSleep,
            SpuriousWakeup, WorkerReturn, WorkerRun, WorkerCleanup, controllerOnly
<1>1. UNCHANGED <<queue, submitted, started, stop, arg, controller>>
  OBVIOUS
<1>2. TypeOK'
  <2>1. mutex' \in {"free", "worker", "controller"} /\ worker' \in WorkerPlaces
    BY DEF TypeOK, WorkerPlaces
  <2>2. task' \in Tasks \union {NoTask} /\ ctx' \in BOOLEAN
    BY DEF TypeOK
  <2>3. future' \in [Tasks -> {"none", "pending", "value", "error"}]
    BY DEF TypeOK
  <2> QED
    BY <1>1, <2>1, <2>2, <2>3 DEF TypeOK
<1>3. StartedInOrder'
  BY <1>1 DEF StartedInOrder
<1>4. MutexInv'
  BY DEF MutexInv
<1>5. SleepInv'
  BY <1>1 DEF SleepInv, NoLostWakeup, Runnable
<1>6. StopInv'
  BY DEF StopInv
<1>7. FutureInv'
  BY NoTaskAssumption DEF FutureInv, TypeOK
<1> QED
  BY <1>2, <1>3, <1>4, <1>5, <1>6, <1>7

LEMMA QuietControllerIInv == IInv /\ QuietControllerStep => IInv'
<1> SUFFICES ASSUME IInv, QuietControllerStep PROVE IInv'
  OBVIOUS
<1> USE DEF IInv, QuietControllerStep, SubmitNotify, GetEnd, DestroyLock,
            DestroySetStop, DestroyNotify, DestroyJoin, SubmitLock, GetBegin, Notify,
            workerOnly
<1>1. UNCHANGED <<queue, submitted, started, task, ctx, future>>
  OBVIOUS
<1>2. TypeOK'
  <2>1. mutex' \in {"free", "worker", "controller"} /\ worker' \in WorkerPlaces
    BY DEF TypeOK, WorkerPlaces
  <2>2. stop' \in BOOLEAN /\ controller' \in ControllerPlaces
    BY DEF TypeOK, ControllerPlaces
  <2>3. arg' \in Tasks \union {NoTask}
    BY DEF TypeOK
  <2> QED
    BY <1>1, <2>1, <2>2, <2>3 DEF TypeOK
<1>3. StartedInOrder'
  BY <1>1 DEF StartedInOrder
<1>4. MutexInv'
  BY DEF MutexInv
<1>5. SleepInv'
  BY <1>1 DEF SleepInv, NoLostWakeup, Runnable, MutexInv, StopInv
<1>6. StopInv'
  BY DEF StopInv, MutexInv, TypeOK
<1>7. FutureInv'
  BY DEF FutureInv, TypeOK
<1> QED
  BY <1>2, <1>3, <1>4, <1>5, <1>6, <1>7

LEMMA PopIInv == IInv /\ WorkerPop => IInv'
<1> SUFFICES ASSUME IInv, WorkerPop PROVE IInv'
  OBVIOUS
<1> USE DEF IInv, WorkerPop, controllerOnly
<1>1. SeqTypes' /\ task' \in Tasks
  BY DEF TypeOK, SeqTypes
<1>2. TypeOK'
  BY <1>1 DEF TypeOK, SeqTypes, WorkerPlaces, ControllerPlaces
<1>3. StartedInOrder'
  BY DEF StartedInOrder, TypeOK
<1>4. MutexInv' /\ SleepInv' /\ StopInv'
  BY DEF MutexInv, SleepInv, NoLostWakeup, StopInv
<1>5. ASSUME NEW t \in Tasks, future[t] = "pending"
      PROVE  t = task' \/ \E i \in 1..Len(queue') : queue'[i] = t
  <2>1. PICK i \in 1..Len(queue) : queue[i] = t
    BY <1>5, NoTaskAssumption DEF FutureInv
  <2>2. CASE i = 1
    <3>1. task' = t
      BY <2>1, <2>2 DEF TypeOK
    <3> QED
      BY <3>1
  <2>3. CASE i # 1
    <3>1. i - 1 \in 1..Len(queue') /\ queue'[i - 1] = t
      BY <2>1, <2>3 DEF TypeOK
    <3> QED
      BY <3>1
  <2> QED
    BY <2>2, <2>3
<1>6. FutureInv'
  BY <1>1, <1>5, NoTaskAssumption DEF FutureInv
<1> QED
  BY <1>2, <1>3, <1>4, <1>6

LEMMA PushIInv == IInv /\ SubmitPush => IInv'
<1> SUFFICES ASSUME IInv, SubmitPush PROVE IInv'
  OBVIOUS
<1> USE DEF IInv, SubmitPush, workerOnly
<1>1. arg \in Tasks
  BY DEF FutureInv
<1>2. SeqTypes'
  BY <1>1 DEF TypeOK, SeqTypes
<1>3. TypeOK'
  BY <1>1, <1>2 DEF TypeOK, SeqTypes, WorkerPlaces, ControllerPlaces
<1>4. StartedInOrder'
  <2>1. submitted = started \o queue
    BY DEF StartedInOrder
  <2>2. Append(started \o queue, arg) = started \o Append(queue, arg)
    <3>1. started \in Seq(Tasks) /\ queue \in Seq(Tasks)
      BY DEF TypeOK
    <3> HIDE DEF IInv, SubmitPush
    <3> QED
      BY <1>1, <3>1, AppendConcat
  <2> QED
    BY <2>1, <2>2, Zenon DEF StartedInOrder
<1>5. MutexInv' /\ SleepInv'
  <2>1. worker \notin {"testing", "blocking"} /\ worker' = worker
    BY DEF MutexInv
  <2> QED
    BY <2>1 DEF MutexInv, SleepInv, NoLostWakeup
<1>6. StopInv'
  BY DEF StopInv
<1>7. /\ Len(queue') = Len(queue) + 1
      /\ queue'[Len(queue')] = arg
      /\ \A i \in 1..Len(queue) : queue'[i] = queue[i]
  BY <1>1 DEF TypeOK
<1>8. ASSUME NEW t \in Tasks, future'[t] = "pending"
      PROVE  t = task' \/ \E i \in 1..Len(queue') : queue'[i] = t
  <2>1. CASE t = arg
    BY <1>7, <2>1 DEF TypeOK
  <2>2. CASE t # arg
    BY <1>1, <1>7, <1>8, <2>2 DEF TypeOK, FutureInv
  <2> QED
    BY <2>1, <2>2
<1>9. FutureInv'
  BY <1>8 DEF FutureInv
<1> QED
  BY <1>3, <1>4, <1>5, <1>6, <1>9

LEMMA NextIInv == IInv /\ [Next]_vars => IInv'
<1> SUFFICES ASSUME IInv, [Next]_vars PROVE IInv'
  OBVIOUS
<1>1. CASE QuietWorkerStep \/ QuietControllerStep
  BY <1>1, QuietWorkerIInv, QuietControllerIInv
<1>2. CASE WorkerPop
  BY <1>2, PopIInv
<1>3. CASE SubmitPush
  BY <1>3, PushIInv
<1>4. CASE UNCHANGED vars
  BY <1>4 DEF vars, IInv, TypeOK, StartedInOrder, MutexInv, SleepInv,
              NoLostWakeup, Runnable, StopInv, FutureInv
<1> QED
  BY <1>1, <1>2, <1>3, <1>4 DEF Next, WorkerStep, CallStep, QuietWorkerStep,
                               QuietControllerStep, Destroyed

LEMMA Inductive == Spec => []IInv
<1> QED
  BY InitIInv, NextIInv, PTL DEF Spec

--------------------------------------------------------------------------------
(* Theorems.                                                                *)

\* Every variable of the Worker model keeps its type, whatever the tasks are.
THEOREM TypeCorrect == Spec => []TypeOK
<1>1. IInv => TypeOK
  BY DEF IInv
<1> QED
  BY <1>1, Inductive, PTL

\* submit and the thread's loop run every task at most once and in the order of
\* submission, however the two threads interleave.
THEOREM RunsInOrder == Spec => []StartedInOrder
<1>1. IInv => StartedInOrder
  BY DEF IInv
<1> QED
  BY <1>1, Inductive, PTL

\* The owner thread never sleeps in cv_.wait while there is work or a stop that
\* nobody is about to announce.
THEOREM NeverSleepsThroughWork == Spec => []NoLostWakeup
<1>1. IInv => NoLostWakeup
  BY DEF IInv, SleepInv
<1> QED
  BY <1>1, Inductive, PTL

\* When ~Worker has joined the thread, all futures are ready, the deque is empty
\* and the context of the thread is gone.
THEOREM DestructionDrains == Spec => []DrainedWhenGone
<1>1. ASSUME IInv, controller = "gone"
      PROVE  queue = <<>> /\ ~ctx /\ \A t \in Tasks : future[t] # "pending"
  <2>1. worker = "exited" /\ queue = <<>> /\ ~ctx
    BY <1>1 DEF IInv, StopInv
  <2>2. task = NoTask /\ Len(queue) = 0
    BY <1>1, <2>1 DEF IInv, FutureInv
  <2> QED
    BY <1>1, <2>1, <2>2, NoTaskAssumption DEF IInv, FutureInv
<1>2. IInv => DrainedWhenGone
  BY <1>1 DEF DrainedWhenGone
<1> QED
  BY <1>2, Inductive, PTL

\* No task is lost, repeated, reordered or slept through, and the destructor leaves
\* none behind.
THEOREM NothingGetsLost == Spec => []NothingIsLost
BY RunsInOrder, NeverSleepsThroughWork, DestructionDrains, PTL DEF NothingIsLost

--------------------------------------------------------------------------------
(* The Worker implements the channel, but for its fairness.                 *)

\* A task being submitted is new, one that was submitted is not.
NewInv ==
  /\ controller = "pushing" => future[arg] = "none"
  /\ worker = "running" => future[task] # "none"
  /\ \A i \in 1..Len(queue) : queue[i] \in Tasks /\ future[queue[i]] # "none"

LEMMA InitNewInv == Init => NewInv
BY DEF Init, NewInv

LEMMA NextNewInv == IInv /\ NewInv /\ [Next]_vars => NewInv'
<1> SUFFICES ASSUME IInv, NewInv, [Next]_vars PROVE NewInv'
  OBVIOUS
<1> USE DEF IInv, TypeOK, FutureInv
<1>1. CASE WorkerRun
  BY <1>1 DEF WorkerRun, NewInv, controllerOnly
<1>2. CASE QuietWorkerStep /\ ~WorkerRun
  BY <1>2 DEF QuietWorkerStep, WorkerLock, WorkerFindsNothing, WorkerSleep,
    SpuriousWakeup, WorkerReturn, WorkerCleanup, NewInv, controllerOnly
<1>3. CASE QuietControllerStep
  BY <1>3 DEF QuietControllerStep, SubmitNotify, GetEnd, DestroyLock, DestroySetStop,
    DestroyNotify, DestroyJoin, SubmitLock, GetBegin, Notify, NewInv, workerOnly
<1>4. CASE WorkerPop
  <2>1. Len(queue) >= 1 /\ Head(queue) = queue[1] /\ Len(queue') = Len(queue) - 1
        /\ \A i \in 1..Len(queue') : queue'[i] = queue[i + 1] /\ i + 1 \in 1..Len(queue)
    BY <1>4 DEF WorkerPop
  <2> QED
    BY <1>4, <2>1 DEF WorkerPop, NewInv, controllerOnly
<1>5. CASE SubmitPush
  <2>1. /\ arg \in Tasks /\ Len(queue') = Len(queue) + 1 /\ queue'[Len(queue) + 1] = arg
        /\ \A i \in 1..Len(queue) : queue'[i] = queue[i]
    BY <1>5 DEF SubmitPush
  <2>2. future'[arg] = "pending" /\ \A t \in Tasks \ {arg} : future'[t] = future[t]
    BY <1>5, <2>1 DEF SubmitPush
  <2>3. controller' = "pushed" /\ UNCHANGED <<worker, task>>
    BY <1>5 DEF SubmitPush, workerOnly
  <2>4. \A i \in 1..Len(queue') : queue'[i] \in Tasks /\ future'[queue'[i]] # "none"
    BY <2>1, <2>2 DEF NewInv
  <2>5. worker' = "running" => future'[task'] # "none"
    BY <2>2, <2>3 DEF NewInv
  <2> QED
    BY <2>3, <2>4, <2>5 DEF NewInv
<1>6. CASE UNCHANGED vars
  BY <1>6 DEF vars, NewInv
<1> QED
  BY <1>1, <1>2, <1>3, <1>4, <1>5, <1>6 DEF Next, WorkerStep, CallStep, QuietWorkerStep,
    QuietControllerStep, Destroyed

\* The channel without its fairness.
ChannelSafety == Channel!Init /\ [][Channel!Next]_(Channel!chanVars)

outstanding == (IF worker = "running" THEN <<task>> ELSE <<>>) \o queue

LEMMA ChannelInit == Init => Channel!Init
BY DEF Init, Channel!Init

LEMMA ConcatEmpty == ASSUME NEW S, NEW q \in Seq(S) PROVE <<>> \o q = q
OBVIOUS

\* Pushing submits, running settles, the end of the thread cleans up and the join
\* closes; the channel sees nothing else.
LEMMA ChannelStep ==
  IInv /\ NewInv /\ [Next]_vars => [Channel!Next]_(Channel!chanVars)
<1> SUFFICES ASSUME IInv, NewInv, [Next]_vars
             PROVE  Channel!Next \/ UNCHANGED Channel!chanVars
  OBVIOUS
<1> USE DEF IInv, TypeOK
<1>1. CASE SubmitPush
  <2>1. arg \in Tasks /\ future[arg] = "none" /\ UNCHANGED <<worker, task, ctx>>
    BY <1>1 DEF SubmitPush, FutureInv, NewInv, workerOnly
  <2>2. outstanding' = Append(outstanding, arg)
    <3>1. (IF worker = "running" THEN <<task>> ELSE <<>>) \in Seq(Tasks)
      BY NoTaskAssumption DEF FutureInv
    <3>2. queue \in Seq(Tasks) /\ queue' = Append(queue, arg)
      BY <1>1 DEF SubmitPush
    <3> HIDE DEF IInv
    <3> QED
      BY <2>1, <3>1, <3>2, AppendConcat DEF outstanding
  <2>3. future' = [future EXCEPT ![arg] = "pending"] /\ controller = "pushing"
        /\ controller' = "pushed"
    BY <1>1 DEF SubmitPush
  <2>4. Channel!Submit(arg)
    BY ONLY <2>1, <2>2, <2>3 DEF Channel!Submit, outstanding
  <2> QED
    BY <2>1, <2>4 DEF Channel!Next
<1>2. CASE WorkerPop
  <2>1. outstanding' = queue /\ outstanding = queue
    BY <1>2 DEF WorkerPop, outstanding
  <2> QED
    BY <1>2, <2>1 DEF WorkerPop, controllerOnly, outstanding, Channel!chanVars
<1>3. CASE WorkerRun
  <2>1. task \in Tasks /\ worker = "running" /\ outstanding = <<task>> \o queue
    BY <1>3, NoTaskAssumption DEF WorkerRun, FutureInv, outstanding
  <2>2. outstanding # <<>> /\ Head(outstanding) = task /\ Tail(outstanding) = queue
    BY <2>1
  <2>3. outstanding' = queue
    BY <1>3 DEF WorkerRun, outstanding
  <2>4. controller # "gone" /\ controller' = controller
    BY <1>3 DEF WorkerRun, StopInv, controllerOnly
  <2>5. Channel!Settle
    BY ONLY <1>3, <2>2, <2>3, <2>4 DEF WorkerRun, Channel!Settle, outstanding
  <2> QED
    BY <2>5 DEF Channel!Next
<1>4. CASE WorkerCleanup
  <2>1. outstanding = <<>> /\ outstanding' = <<>>
    BY <1>4 DEF WorkerCleanup, StopInv, outstanding
  <2>2. UNCHANGED <<future, controller>> /\ ctx' = FALSE
    BY <1>4 DEF WorkerCleanup, controllerOnly
  <2> QED
    BY <2>1, <2>2 DEF Channel!Next, Channel!Cleanup, Channel!chanVars, outstanding
<1>5. CASE DestroyJoin
  <2>1. outstanding = <<>> /\ outstanding' = <<>> /\ ~ctx
    BY <1>5 DEF DestroyJoin, StopInv, outstanding, workerOnly
  <2>2. UNCHANGED <<future, ctx>> /\ controller # "gone" /\ controller' = "gone"
    BY <1>5 DEF DestroyJoin, workerOnly
  <2> QED
    BY <2>1, <2>2 DEF Channel!Next, Channel!Close, outstanding
<1>6. CASE QuietWorkerStep /\ ~WorkerRun /\ ~WorkerCleanup
  <2>1. UNCHANGED <<queue, task, ctx, future, controller>>
        /\ worker # "running" /\ worker' # "running"
    BY <1>6 DEF QuietWorkerStep, WorkerLock, WorkerFindsNothing, WorkerSleep,
      SpuriousWakeup, WorkerReturn, controllerOnly
  <2> QED
    BY <2>1 DEF Channel!chanVars
<1>7. CASE QuietControllerStep /\ ~DestroyJoin
  <2>1. UNCHANGED <<queue, task, ctx, future>> /\ controller # "gone"
        /\ controller' # "gone" /\ (worker' = "running" <=> worker = "running")
    BY <1>7 DEF QuietControllerStep, SubmitNotify, GetEnd, DestroyLock, DestroySetStop,
      DestroyNotify, SubmitLock, GetBegin, Notify, workerOnly
  <2> QED
    BY <2>1 DEF Channel!chanVars
<1>8. CASE UNCHANGED vars
  BY <1>8 DEF vars, Channel!chanVars
<1> HIDE DEF IInv, TypeOK
<1> QED
  BY <1>1, <1>2, <1>3, <1>4, <1>5, <1>6, <1>7, <1>8 DEF Next, WorkerStep, CallStep,
    QuietWorkerStep, QuietControllerStep, Destroyed

\* To whoever submits to it, the Worker is a channel that settles its tasks one at a
\* time, oldest first, and closes when none is outstanding and no context is left.
THEOREM IsChannel == Spec => ChannelSafety
BY InitNewInv, NextNewInv, ChannelInit, ChannelStep, Inductive, PTL
DEF Spec, ChannelSafety

================================================================================
