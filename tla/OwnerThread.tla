------------------------------ MODULE OwnerThread ------------------------------
(****************************************************************************)
(* class Worker (src/src/main.cpp): a thread that owns one GpuState and     *)
(* runs the tasks other code submits, over a mutex, a condition variable, a *)
(* deque and a stop flag.  The controller is the one thread that submits,   *)
(* waits on futures and destroys the Worker.                                *)
(*                                                                          *)
(* A critical section is split into the acquisition of the mutex and the    *)
(* step that ends it, so that the gap between the predicate of cv_.wait and *)
(* the sleep is visible.  A task is an opaque step that ends with a value   *)
(* or an exception and may leave the thread with or without a context.      *)
(****************************************************************************)
EXTENDS Naturals, Sequences

CONSTANTS Tasks, NoTask

ASSUME NoTaskAssumption == NoTask \notin Tasks

VARIABLES
  mutex,       \* mutex_: "free", or the thread that holds it
  queue,       \* queue_
  stop,        \* stop_
  worker,      \* where the owner thread is
  task,        \* its local variable task
  controller,  \* where the controller is
  arg,         \* the task it is submitting or waiting for
  future,      \* the shared state of each task's future
  ctx,         \* GpuState::ctx_ of the thread's local state is not null
  submitted,   \* history: the tasks pushed, in order
  started      \* history: the tasks popped, in order

vars == <<mutex, queue, stop, worker, task, controller, arg, future, ctx,
          submitted, started>>

workerOnly     == <<worker, task, ctx, started>>
controllerOnly == <<controller, arg, submitted>>

Init ==
  /\ mutex = "free"
  /\ queue = <<>>
  /\ stop = FALSE
  /\ worker = "top"
  /\ task = NoTask
  /\ controller = "ready"
  /\ arg = NoTask
  /\ future = [t \in Tasks |-> "none"]
  /\ ctx = FALSE
  /\ submitted = <<>>
  /\ started = <<>>

--------------------------------------------------------------------------------
(* Faulty variants of steps below.  No specification uses them: each shows   *)
(* that a property notices the mistake it makes.                            *)

\* The newest task is popped first.
WorkerPopNewest ==
  /\ worker = "testing"
  /\ queue # <<>>
  /\ task' = queue[Len(queue)]
  /\ queue' = SubSeq(queue, 1, Len(queue) - 1)
  /\ started' = Append(started, queue[Len(queue)])
  /\ mutex' = "free"
  /\ worker' = "running"
  /\ UNCHANGED <<stop, ctx, controllerOnly, future>>

\* The thread returns as soon as it sees stop_, whatever is queued.
WorkerReturnAtOnce ==
  /\ worker = "testing"
  /\ stop
  /\ mutex' = "free"
  /\ worker' = "returning"
  /\ UNCHANGED <<queue, stop, task, ctx, started, controllerOnly, future>>

\* The thread exits without destroying its context.
WorkerLeaks ==
  /\ worker = "returning"
  /\ worker' = "exited"
  /\ UNCHANGED <<mutex, queue, stop, task, ctx, started, controllerOnly, future>>

\* A moved-from task is pushed.
SubmitPushMoved ==
  /\ controller = "pushing"
  /\ queue' = Append(queue, NoTask)
  /\ submitted' = Append(submitted, arg)
  /\ future' = [future EXCEPT ![arg] = "pending"]
  /\ mutex' = "free"
  /\ controller' = "pushed"
  /\ UNCHANGED <<stop, workerOnly, arg>>

\* submit does not notify.
SubmitSilently ==
  /\ controller = "pushed"
  /\ controller' = "ready"
  /\ arg' = NoTask
  /\ UNCHANGED <<mutex, queue, stop, workerOnly, future, submitted>>

\* stop_ is set without taking the mutex.
DestroyUnlocked ==
  /\ controller \in {"ready", "unwinding"}
  /\ controller' = "stopping"
  /\ UNCHANGED <<mutex, queue, stop, workerOnly, arg, future, submitted>>

\* ~Worker does not notify.
DestroySilently ==
  /\ controller = "stopped"
  /\ controller' = "joining"
  /\ UNCHANGED <<mutex, queue, stop, workerOnly, arg, future, submitted>>

--------------------------------------------------------------------------------
(* The owner thread.                                                        *)

\* The predicate cv_.wait tests with the mutex held.
Runnable == stop \/ queue # <<>>

WorkerLock ==
  /\ worker \in {"top", "woken"}
  /\ mutex = "free"
  /\ mutex' = "worker"
  /\ worker' = "testing"
  /\ UNCHANGED <<queue, stop, task, ctx, started, controllerOnly, future>>

\* The predicate was false: the thread is on its way to sleep, lock held.
WorkerFindsNothing ==
  /\ worker = "testing"
  /\ ~Runnable
  /\ worker' = "blocking"
  /\ UNCHANGED <<mutex, queue, stop, task, ctx, started, controllerOnly, future>>

\* Releasing the mutex and falling asleep is one step of cv_.wait.
WorkerSleep ==
  /\ worker = "blocking"
  /\ mutex' = "free"
  /\ worker' = "asleep"
  /\ UNCHANGED <<queue, stop, task, ctx, started, controllerOnly, future>>

SpuriousWakeup ==
  /\ worker = "asleep"
  /\ worker' = "woken"
  /\ UNCHANGED <<mutex, queue, stop, task, ctx, started, controllerOnly, future>>

WorkerPop ==
  /\ worker = "testing"
  /\ queue # <<>>
  /\ task' = Head(queue)
  /\ queue' = Tail(queue)
  /\ started' = Append(started, Head(queue))
  /\ mutex' = "free"
  /\ worker' = "running"
  /\ UNCHANGED <<stop, ctx, controllerOnly, future>>

\* if (queue_.empty() && stop_) return: what is queued runs before the stop.
WorkerReturn ==
  /\ worker = "testing"
  /\ queue = <<>>
  /\ stop
  /\ mutex' = "free"
  /\ worker' = "returning"
  /\ UNCHANGED <<queue, stop, task, ctx, started, controllerOnly, future>>

\* task(state): the packaged_task stores the value or the exception.
WorkerRun ==
  /\ worker = "running"
  /\ \E result \in {"value", "error"} :
       future' = [future EXCEPT ![task] = result]
  /\ ctx' \in BOOLEAN
  /\ task' = NoTask
  /\ worker' = "top"
  /\ UNCHANGED <<mutex, queue, stop, started, controllerOnly>>

\* ~GpuState on the owner thread.
WorkerCleanup ==
  /\ worker = "returning"
  /\ ctx' = FALSE
  /\ worker' = "exited"
  /\ UNCHANGED <<mutex, queue, stop, task, started, controllerOnly, future>>

--------------------------------------------------------------------------------
(* The controller.                                                          *)

\* cv_.notify_one wakes the thread if it is asleep and is lost otherwise.
Notify == worker' = IF worker = "asleep" THEN "woken" ELSE worker

SubmitLock(t) ==
  /\ controller = "ready"
  /\ future[t] = "none"
  /\ mutex = "free"
  /\ mutex' = "controller"
  /\ controller' = "pushing"
  /\ arg' = t
  /\ UNCHANGED <<queue, stop, workerOnly, future, submitted>>

SubmitPush ==
  /\ controller = "pushing"
  /\ queue' = Append(queue, arg)
  /\ submitted' = Append(submitted, arg)
  /\ future' = [future EXCEPT ![arg] = "pending"]
  /\ mutex' = "free"
  /\ controller' = "pushed"
  /\ UNCHANGED <<stop, workerOnly, arg>>

SubmitNotify ==
  /\ controller = "pushed"
  /\ Notify
  /\ controller' = "ready"
  /\ arg' = NoTask
  /\ UNCHANGED <<mutex, queue, stop, task, ctx, started, future, submitted>>

\* future.get() blocks; an exception it rethrows unwinds to ~Worker.
GetBegin(t) ==
  /\ controller = "ready"
  /\ future[t] # "none"
  /\ arg' = t
  /\ controller' = "getting"
  /\ UNCHANGED <<mutex, queue, stop, workerOnly, future, submitted>>

GetEnd ==
  /\ controller = "getting"
  /\ future[arg] \in {"value", "error"}
  /\ controller' = IF future[arg] = "value" THEN "ready" ELSE "unwinding"
  /\ arg' = NoTask
  /\ UNCHANGED <<mutex, queue, stop, workerOnly, future, submitted>>

\* ~Worker, at the end of the scope or while an exception unwinds it.
DestroyLock ==
  /\ controller \in {"ready", "unwinding"}
  /\ mutex = "free"
  /\ mutex' = "controller"
  /\ controller' = "stopping"
  /\ UNCHANGED <<queue, stop, workerOnly, arg, future, submitted>>

DestroySetStop ==
  /\ controller = "stopping"
  /\ stop' = TRUE
  /\ mutex' = "free"
  /\ controller' = "stopped"
  /\ UNCHANGED <<queue, workerOnly, arg, future, submitted>>

DestroyNotify ==
  /\ controller = "stopped"
  /\ Notify
  /\ controller' = "joining"
  /\ UNCHANGED <<mutex, queue, stop, task, ctx, started, arg, future, submitted>>

DestroyJoin ==
  /\ controller = "joining"
  /\ worker = "exited"
  /\ controller' = "gone"
  /\ UNCHANGED <<mutex, queue, stop, workerOnly, arg, future, submitted>>

--------------------------------------------------------------------------------

WorkerStep ==
  \/ WorkerLock \/ WorkerFindsNothing \/ WorkerSleep \/ WorkerPop
  \/ WorkerReturn \/ WorkerRun \/ WorkerCleanup

\* A call the controller has begun; it is free never to begin another one.
CallStep ==
  \/ SubmitPush \/ SubmitNotify \/ GetEnd
  \/ DestroySetStop \/ DestroyNotify \/ DestroyJoin

UnwindStep == controller = "unwinding" /\ DestroyLock

\* The Worker no longer exists; any other state without a step is a deadlock.
Destroyed == controller = "gone" /\ UNCHANGED vars

Next ==
  \/ WorkerStep
  \/ SpuriousWakeup
  \/ CallStep
  \/ \E t \in Tasks : SubmitLock(t) \/ GetBegin(t)
  \/ DestroyLock
  \/ Destroyed

\* Both are ordinary threads of a preemptive scheduler, and a mutex that is
\* free again and again is granted: strong fairness where a lock is taken.
Fairness ==
  /\ WF_vars(WorkerStep)
  /\ SF_vars(WorkerLock)
  /\ WF_vars(CallStep)
  /\ SF_vars(UnwindStep)

Spec == Init /\ [][Next]_vars /\ Fairness

--------------------------------------------------------------------------------
(* Properties.                                                              *)

WorkerPlaces == {"top", "testing", "blocking", "asleep", "woken", "running",
                 "returning", "exited"}

ControllerPlaces == {"ready", "pushing", "pushed", "getting", "unwinding",
                     "stopping", "stopped", "joining", "gone"}

\* The type of every variable.
TypeOK ==
  /\ mutex \in {"free", "worker", "controller"}
  /\ queue \in Seq(Tasks)
  /\ stop \in BOOLEAN
  /\ worker \in WorkerPlaces
  /\ task \in Tasks \union {NoTask}
  /\ controller \in ControllerPlaces
  /\ arg \in Tasks \union {NoTask}
  /\ future \in [Tasks -> {"none", "pending", "value", "error"}]
  /\ ctx \in BOOLEAN
  /\ submitted \in Seq(Tasks)
  /\ started \in Seq(Tasks)

\* Tasks start in submission order, none twice and none skipped: what was
\* submitted is what has started followed by what is still queued.
StartedInOrder == submitted = started \o queue

\* cv_.wait never sleeps through work or a stop: if there is a reason to run,
\* a sleeping thread is about to be notified.
NoLostWakeup ==
  worker = "asleep" /\ Runnable => controller \in {"pushed", "stopped"}

\* ~Worker returns only when every future handed out is ready and the thread
\* has destroyed its context: nothing is dropped by stop_ and nothing leaks.
DrainedWhenGone ==
  controller = "gone" =>
    /\ queue = <<>>
    /\ ~ctx
    /\ \A t \in Tasks : future[t] # "pending"

\* No task is lost, run twice, run out of order or slept through while the Worker
\* lives, and its destructor leaves none behind.
NothingIsLost == StartedInOrder /\ NoLostWakeup /\ DrainedWhenGone

\* A future that was handed out becomes ready, whatever the controller does.
EveryFutureReady ==
  \A t \in Tasks : future[t] = "pending" ~> future[t] \in {"value", "error"}

\* Once begun, ~Worker returns: join never waits for a thread that sleeps on.
DestructorReturns == controller \in {"unwinding", "stopping"} ~> controller = "gone"

\* The caller never waits for ever, for a future or for the destructor.
Progress == EveryFutureReady /\ DestructorReturns

\* The Worker implements the channel: a popped task is still outstanding.
Channel == INSTANCE TaskChannel WITH
  outstanding <- (IF worker = "running" THEN <<task>> ELSE <<>>) \o queue,
  open <- controller # "gone"

ChannelSpec == Channel!Spec

================================================================================
