----------------------------- MODULE ThreadPool -----------------------------
(***************************************************************************)
(* The worker pool of hw4/ThreadPool.cc: one owner thread that constructs  *)
(* the pool, dispatches tasks to it and destroys it, and NumThreads worker *)
(* threads that run ThreadLoop.  Everything shared is protected by q_lock_ *)
(* and the workers sleep on the condition variable q_cond_.                *)
(*                                                                         *)
(* A step is one stretch of code between two points at which another       *)
(* thread can run: acquiring the lock is a step of its own, and a critical *)
(* section runs up to the next release of the lock.                        *)
(***************************************************************************)
EXTENDS Integers, Sequences, FiniteSets

CONSTANTS NumThreads,   \* the constructor's argument
          MaxTasks      \* bound: how many times the owner calls Dispatch

ASSUME NumThreadsAssumption == NumThreads \in Nat \ {0}
ASSUME MaxTasksAssumption == MaxTasks \in Nat

Owner   == 0
Workers == 1..NumThreads
Threads == 0..NumThreads
Free    == -1           \* q_lock_ is held by nobody

\* Tasks are numbered in the order in which they are dispatched.
Tasks  == 1..MaxTasks
NoTask == 0

VARIABLES
    q_lock_,               \* the thread that holds the mutex, or Free
    work_queue_,           \* the tasks dispatched and not picked up
    terminate_threads_,
    num_threads_running_,
    pc,                    \* where each worker is in ThreadLoop
    opc,                   \* where the owner is
    idx,                   \* the owner's loop index i
    num_threads,           \* the destructor's copy of num_threads_running_
    nextTask,              \* the task each thread took off the queue, or NoTask
    dispatched,            \* history: how many tasks were dispatched
    runs                   \* history: how often func_ ran to its end, per task

vars == <<q_lock_, work_queue_, terminate_threads_, num_threads_running_, pc,
          opc, idx, num_threads, nextTask, dispatched, runs>>

(***************************************************************************)
(* The places where a worker can be.                                       *)
(*   unborn   not created yet          start   at the first mutex_lock     *)
(*   loop     at the outer while (H)   asleep  in cond_wait, not signalled *)
(*   woken    in cond_wait, signalled, acquiring the lock again            *)
(*   queue    at the inner while (H)   run     in func_, lock released     *)
(*   relock   func_ returned, acquiring the lock                           *)
(*   exited   unlocked for the last time   dead  ThreadLoop has returned   *)
(* (H): the worker holds q_lock_.                                          *)
(***************************************************************************)
WorkerPC == {"unborn", "start", "loop", "asleep", "woken", "queue", "run",
             "relock", "exited", "dead"}
HoldingPC == {"loop", "queue"}
AlivePC   == {"loop", "asleep", "woken", "queue", "run", "relock"}

(***************************************************************************)
(* The places where the owner can be.                                      *)
(*   ctor     entering the constructor   create  the creation loop (H)     *)
(*   check    the birth-wait loop (H)    sleep   in sleep(1)               *)
(*   idle     between calls              dispatch  in Dispatch (H)         *)
(*   join     the destructor's loop (H)  joining in pthread_join           *)
(*   rejoin   joined, acquiring again    drain   the final loop            *)
(*   serial   running a drained task     gone    the pool is destroyed     *)
(*   abort    a Verify333 failed and the process exited                    *)
(***************************************************************************)
OwnerPC == {"ctor", "create", "check", "sleep", "idle", "dispatch", "join",
            "joining", "rejoin", "drain", "serial", "gone", "abort"}
OwnerHoldingPC == {"create", "check", "dispatch", "join"}
ConstructingPC == {"ctor", "create", "check", "sleep"}
DrainingPC     == {"drain", "serial", "gone"}

Init ==
    /\ q_lock_ = Free
    /\ work_queue_ = <<>>
    /\ terminate_threads_ = FALSE
    /\ num_threads_running_ = 0
    /\ pc = [w \in Workers |-> "unborn"]
    /\ opc = "ctor"
    /\ idx = 0
    /\ num_threads = 0
    /\ nextTask = [t \in Threads |-> NoTask]
    /\ dispatched = 0
    /\ runs = [t \in Tasks |-> 0]

\* pthread_mutex_lock and pthread_mutex_unlock
Acquire(t) == q_lock_ = Free /\ q_lock_' = t
Release    == q_lock_' = Free

AsleepWorkers == {w \in Workers : pc[w] = "asleep"}

\* Deviation: wakes a sleeper only when the queue was empty before.
SignalIfWasEmpty ==
    IF AsleepWorkers = {} \/ work_queue_ # <<>>
    THEN pc' = pc
    ELSE \E w \in AsleepWorkers : pc' = [pc EXCEPT ![w] = "woken"]

\* Deviation: the call is forgotten.
NoSignal == pc' = pc

\* pthread_cond_signal wakes one sleeper if there is one.
Signal ==
    IF AsleepWorkers = {}
    THEN pc' = pc
    ELSE \E w \in AsleepWorkers : pc' = [pc EXCEPT ![w] = "woken"]

\* pthread_cond_broadcast wakes every sleeper.
Broadcast ==
    pc' = [w \in Workers |-> IF pc[w] = "asleep" THEN "woken" ELSE pc[w]]

\* Verify333(cond): the owner goes on at next, or the process exits and what
\* else the step writes is lost with it.
Verify333(cond, next) == opc' = IF cond THEN next ELSE "abort"

\* Deviation: front without pop_front.
FrontOnly(t) ==
    /\ nextTask' = [nextTask EXCEPT ![t] = Head(work_queue_)]
    /\ UNCHANGED work_queue_

\* Deviation: back and pop_back.
PopBack(t) ==
    /\ nextTask' = [nextTask EXCEPT ![t] = work_queue_[Len(work_queue_)]]
    /\ work_queue_' = SubSeq(work_queue_, 1, Len(work_queue_) - 1)

\* front and pop_front, by thread t
PopFront(t) ==
    /\ nextTask' = [nextTask EXCEPT ![t] = Head(work_queue_)]
    /\ work_queue_' = Tail(work_queue_)

\* Thread t calls func_ of the task it popped; the task finishes.
RunTask(t) ==
    /\ runs' = [runs EXCEPT ![nextTask[t]] = @ + 1]
    /\ nextTask' = [nextTask EXCEPT ![t] = NoTask]

-----------------------------------------------------------------------------
\* ThreadLoop: the steps of worker w.

Start(w) ==
    /\ pc[w] = "start"
    /\ Acquire(w)
    /\ num_threads_running_' = num_threads_running_ + 1
    /\ pc' = [pc EXCEPT ![w] = "loop"]
    /\ UNCHANGED <<work_queue_, terminate_threads_, opc, idx, num_threads,
                   nextTask, dispatched, runs>>

\* The outer loop goes on: cond_wait releases the lock and sleeps.
Wait(w) ==
    /\ pc[w] = "loop"
    /\ ~terminate_threads_
    /\ Release
    /\ pc' = [pc EXCEPT ![w] = "asleep"]
    /\ UNCHANGED <<work_queue_, terminate_threads_, num_threads_running_, opc,
                   idx, num_threads, nextTask, dispatched, runs>>

\* POSIX lets cond_wait return without a signal.
SpuriousWakeup(w) ==
    /\ pc[w] = "asleep"
    /\ pc' = [pc EXCEPT ![w] = "woken"]
    /\ UNCHANGED <<q_lock_, work_queue_, terminate_threads_,
                   num_threads_running_, opc, idx, num_threads, nextTask,
                   dispatched, runs>>

\* Deviation: the count is incremented inside the loop.
RelockCounting(w) ==
    /\ pc[w] \in {"woken", "relock"}
    /\ Acquire(w)
    /\ num_threads_running_' = num_threads_running_ + 1
    /\ pc' = [pc EXCEPT ![w] = "queue"]
    /\ UNCHANGED <<work_queue_, terminate_threads_, opc, idx, num_threads,
                   nextTask, dispatched, runs>>

\* cond_wait returns, or the worker comes back from func_: in both cases it
\* acquires the lock and stands before the inner loop.
Relock(w) ==
    /\ pc[w] \in {"woken", "relock"}
    /\ Acquire(w)
    /\ pc' = [pc EXCEPT ![w] = "queue"]
    /\ UNCHANGED <<work_queue_, terminate_threads_, num_threads_running_, opc,
                   idx, num_threads, nextTask, dispatched, runs>>

Dequeue(w) ==
    /\ pc[w] = "queue"
    /\ work_queue_ # <<>>
    /\ ~terminate_threads_
    /\ PopFront(w)
    /\ Release
    /\ pc' = [pc EXCEPT ![w] = "run"]
    /\ UNCHANGED <<terminate_threads_, num_threads_running_, opc, idx,
                   num_threads, dispatched, runs>>

Run(w) ==
    /\ pc[w] = "run"
    /\ RunTask(w)
    /\ pc' = [pc EXCEPT ![w] = "relock"]
    /\ UNCHANGED <<q_lock_, work_queue_, terminate_threads_,
                   num_threads_running_, opc, idx, num_threads, dispatched>>

\* The inner loop ends: the worker goes back to the outer one.
Drained(w) ==
    /\ pc[w] = "queue"
    /\ work_queue_ = <<>> \/ terminate_threads_
    /\ pc' = [pc EXCEPT ![w] = "loop"]
    /\ UNCHANGED <<q_lock_, work_queue_, terminate_threads_,
                   num_threads_running_, opc, idx, num_threads, nextTask,
                   dispatched, runs>>

\* Deviation: the worker leaves without decrementing the count.
ExitUncounted(w) ==
    /\ pc[w] = "loop"
    /\ terminate_threads_
    /\ Release
    /\ pc' = [pc EXCEPT ![w] = "exited"]
    /\ UNCHANGED <<work_queue_, terminate_threads_, num_threads_running_, opc,
                   idx, num_threads, nextTask, dispatched, runs>>

Exit(w) ==
    /\ pc[w] = "loop"
    /\ terminate_threads_
    /\ num_threads_running_' = num_threads_running_ - 1
    /\ Release
    /\ pc' = [pc EXCEPT ![w] = "exited"]
    /\ UNCHANGED <<work_queue_, terminate_threads_, opc, idx, num_threads,
                   nextTask, dispatched, runs>>

Return(w) ==
    /\ pc[w] = "exited"
    /\ pc' = [pc EXCEPT ![w] = "dead"]
    /\ UNCHANGED <<q_lock_, work_queue_, terminate_threads_,
                   num_threads_running_, opc, idx, num_threads, nextTask,
                   dispatched, runs>>

-----------------------------------------------------------------------------
\* The owner: the constructor.

CtorLock ==
    /\ opc = "ctor"
    /\ Acquire(Owner)
    /\ opc' = "create"
    /\ UNCHANGED <<work_queue_, terminate_threads_, num_threads_running_, pc,
                   idx, num_threads, nextTask, dispatched, runs>>

\* pthread_create of the next worker, the lock held throughout the loop.
CreateThread ==
    /\ opc = "create"
    /\ idx < NumThreads
    /\ pc' = [pc EXCEPT ![idx + 1] = "start"]
    /\ idx' = idx + 1
    /\ opc' = IF idx' = NumThreads THEN "check" ELSE "create"
    /\ UNCHANGED <<q_lock_, work_queue_, terminate_threads_,
                   num_threads_running_, num_threads, nextTask, dispatched,
                   runs>>

\* Deviation: sleeps with the lock held.
CtorYieldLocked ==
    /\ opc = "check"
    /\ num_threads_running_ # NumThreads
    /\ opc' = "sleep"
    /\ UNCHANGED <<q_lock_, work_queue_, terminate_threads_,
                   num_threads_running_, pc, idx, num_threads, nextTask,
                   dispatched, runs>>

\* Not all workers are born: release the lock and sleep(1).
CtorYield ==
    /\ opc = "check"
    /\ num_threads_running_ # NumThreads
    /\ Release
    /\ opc' = "sleep"
    /\ UNCHANGED <<work_queue_, terminate_threads_, num_threads_running_, pc,
                   idx, num_threads, nextTask, dispatched, runs>>

CtorRelock ==
    /\ opc = "sleep"
    /\ Acquire(Owner)
    /\ opc' = "check"
    /\ UNCHANGED <<work_queue_, terminate_threads_, num_threads_running_, pc,
                   idx, num_threads, nextTask, dispatched, runs>>

\* Deviation: does not wait for the workers to be born.
CtorReturnEarly ==
    /\ opc = "check"
    /\ Release
    /\ opc' = "idle"
    /\ UNCHANGED <<work_queue_, terminate_threads_, num_threads_running_, pc,
                   idx, num_threads, nextTask, dispatched, runs>>

CtorReturn ==
    /\ opc = "check"
    /\ num_threads_running_ = NumThreads
    /\ Release
    /\ opc' = "idle"
    /\ UNCHANGED <<work_queue_, terminate_threads_, num_threads_running_, pc,
                   idx, num_threads, nextTask, dispatched, runs>>

-----------------------------------------------------------------------------
\* The owner: Dispatch.

DispatchLock ==
    /\ opc = "idle"
    /\ dispatched < MaxTasks
    /\ Acquire(Owner)
    /\ opc' = "dispatch"
    /\ UNCHANGED <<work_queue_, terminate_threads_, num_threads_running_, pc,
                   idx, num_threads, nextTask, dispatched, runs>>

DispatchPush ==
    /\ opc = "dispatch"
    /\ Verify333(~terminate_threads_, "idle")
    /\ dispatched' = dispatched + 1
    /\ work_queue_' = Append(work_queue_, dispatched + 1)
    /\ Signal
    /\ Release
    /\ UNCHANGED <<terminate_threads_, num_threads_running_, idx, num_threads,
                   nextTask, runs>>

-----------------------------------------------------------------------------
\* The owner: the destructor.

DtorLock ==
    /\ opc = "idle"
    /\ Acquire(Owner)
    /\ num_threads' = num_threads_running_
    /\ terminate_threads_' = TRUE
    /\ idx' = 0
    /\ opc' = "join"
    /\ UNCHANGED <<work_queue_, num_threads_running_, pc, nextTask, dispatched,
                   runs>>

\* One round of the join loop up to pthread_join: broadcast and unlock.
DtorBroadcast ==
    /\ opc = "join"
    /\ idx < num_threads
    /\ Broadcast
    /\ Release
    /\ opc' = "joining"
    /\ UNCHANGED <<work_queue_, terminate_threads_, num_threads_running_, idx,
                   num_threads, nextTask, dispatched, runs>>

\* Deviation: pthread_join is left out.
NoJoin ==
    /\ opc = "joining"
    /\ opc' = "rejoin"
    /\ UNCHANGED <<q_lock_, work_queue_, terminate_threads_,
                   num_threads_running_, pc, idx, num_threads, nextTask,
                   dispatched, runs>>

\* pthread_join of thread_array_[idx] returns once that worker is dead.
Join ==
    /\ opc = "joining"
    /\ pc[idx + 1] = "dead"
    /\ opc' = "rejoin"
    /\ UNCHANGED <<q_lock_, work_queue_, terminate_threads_,
                   num_threads_running_, pc, idx, num_threads, nextTask,
                   dispatched, runs>>

DtorRelock ==
    /\ opc = "rejoin"
    /\ Acquire(Owner)
    /\ idx' = idx + 1
    /\ opc' = "join"
    /\ UNCHANGED <<work_queue_, terminate_threads_, num_threads_running_, pc,
                   num_threads, nextTask, dispatched, runs>>

DtorJoined ==
    /\ opc = "join"
    /\ idx >= num_threads
    /\ Verify333(num_threads_running_ = 0, "drain")
    /\ Release
    /\ UNCHANGED <<work_queue_, terminate_threads_, num_threads_running_, pc,
                   idx, num_threads, nextTask, dispatched, runs>>

\* The owner empties the queue itself, without the lock.
DrainPop ==
    /\ opc = "drain"
    /\ work_queue_ # <<>>
    /\ PopFront(Owner)
    /\ opc' = "serial"
    /\ UNCHANGED <<q_lock_, terminate_threads_, num_threads_running_, pc, idx,
                   num_threads, dispatched, runs>>

DrainRun ==
    /\ opc = "serial"
    /\ RunTask(Owner)
    /\ opc' = "drain"
    /\ UNCHANGED <<q_lock_, work_queue_, terminate_threads_,
                   num_threads_running_, pc, idx, num_threads, dispatched>>

\* Deviation: the queue is not emptied.
DtorReturnEarly ==
    /\ opc = "drain"
    /\ opc' = "gone"
    /\ UNCHANGED <<q_lock_, work_queue_, terminate_threads_,
                   num_threads_running_, pc, idx, num_threads, nextTask,
                   dispatched, runs>>

DtorReturn ==
    /\ opc = "drain"
    /\ work_queue_ = <<>>
    /\ opc' = "gone"
    /\ UNCHANGED <<q_lock_, work_queue_, terminate_threads_,
                   num_threads_running_, pc, idx, num_threads, nextTask,
                   dispatched, runs>>

-----------------------------------------------------------------------------
ThreadLoop(w) ==
    \/ Start(w) \/ Wait(w) \/ SpuriousWakeup(w) \/ Relock(w)
    \/ Dequeue(w) \/ Run(w) \/ Drained(w) \/ Exit(w) \/ Return(w)

Constructor == CtorLock \/ CreateThread \/ CtorYield \/ CtorRelock \/ CtorReturn
Dispatch    == DispatchLock \/ DispatchPush
Destructor  == \/ DtorLock \/ DtorBroadcast \/ Join \/ DtorRelock \/ DtorJoined
               \/ DrainPop \/ DrainRun \/ DtorReturn

\* After the destructor the system has stopped for good.
Stopped == opc = "gone" /\ UNCHANGED vars

Next ==
    \/ Constructor \/ Dispatch \/ Destructor
    \/ \E w \in Workers : ThreadLoop(w)
    \/ Stopped

Spec == Init /\ [][Next]_vars

(***************************************************************************)
(* Fairness.  A thread that is not blocked runs on, and a task terminates  *)
(* (WF).  A thread that keeps finding the mutex free every now and then    *)
(* gets it (SF): the code counts on it where the constructor sleeps "to    *)
(* give another thread the chance to acquire the lock".  Nobody has to     *)
(* call Dispatch or the destructor, and no spurious wakeup has to come.    *)
(***************************************************************************)
WorkerFairness(w) ==
    /\ SF_vars(Start(w))
    /\ SF_vars(Relock(w))
    /\ WF_vars(Wait(w) \/ Drained(w) \/ Dequeue(w) \/ Run(w) \/ Exit(w) \/ Return(w))

OwnerFairness ==
    /\ SF_vars(CtorLock \/ CtorRelock \/ DtorRelock)
    /\ WF_vars(CreateThread \/ CtorYield \/ CtorReturn)
    /\ WF_vars(DispatchPush)
    /\ WF_vars(DtorBroadcast \/ Join \/ DtorJoined)
    /\ WF_vars(DrainPop \/ DrainRun \/ DtorReturn)

FairSpec == Spec /\ OwnerFairness /\ \A w \in Workers : WorkerFairness(w)

-----------------------------------------------------------------------------
\* Every variable keeps its type: the count stays within the number of
\* workers, and the queue holds dispatched tasks only.
TypeOK ==
    /\ q_lock_ \in Threads \cup {Free}
    /\ work_queue_ \in Seq(1..dispatched)
    /\ terminate_threads_ \in BOOLEAN
    /\ num_threads_running_ \in 0..NumThreads
    /\ pc \in [Workers -> WorkerPC]
    /\ opc \in OwnerPC
    /\ idx \in 0..NumThreads
    /\ num_threads \in 0..NumThreads
    /\ nextTask \in [Threads -> 0..dispatched]
    /\ dispatched \in 0..MaxTasks
    /\ runs \in [Tasks -> Nat]

\* No Verify333 of the pool ever fails: Dispatch never meets the terminate
\* flag, and the destructor counts no running worker after its last join.
NoAbort == opc # "abort"

\* Where the constructor ends (ThreadPool.cc:55-57) every worker has been born
\* and counted, so that no signal of Dispatch can precede a worker's first wait.
ReadyWhenConstructed ==
    opc \notin ConstructingPC => \A w \in Workers : pc[w] \notin {"unborn", "start"}

\* Workers on their way to look at the queue.
Lookers == {w \in Workers : pc[w] \in {"woken", "queue", "relock"}}

\* No signal is lost: while a worker sleeps, every queued task has a worker of
\* its own on the way to the queue.  (Dispatch signals once per task, a worker
\* waits only after it has seen the queue empty.)
NoLostSignal ==
    ~terminate_threads_ /\ AsleepWorkers # {} =>
        Len(work_queue_) <= Cardinality(Lookers)

popped == dispatched - Len(work_queue_)
Held(t) == \E u \in Threads : nextTask[u] = t

InOrder == \A i \in DOMAIN work_queue_ : work_queue_[i] = popped + i

InOnePlace ==
    \A t \in Tasks : /\ t > popped  => runs[t] = 0 /\ ~Held(t)
                     /\ t <= popped => runs[t] = IF Held(t) THEN 0 ELSE 1

OneHolder ==
    \A u, v \in Threads : u # v /\ nextTask[u] # NoTask => nextTask[u] # nextTask[v]

\* Tasks leave the queue in the order of dispatch (ThreadPool.cc:98, 122), and
\* each is in one place: in the queue, in the hands of one thread, or run once.
ExactlyOnce == InOrder /\ InOnePlace /\ OneHolder

\* The destructor touches the queue without the lock, and frees the pool, only
\* after every worker has returned.
DrainsAlone == opc \in DrainingPC => \A w \in Workers : pc[w] = "dead"

\* When the destructor returns, every dispatched task has run, the ones no
\* worker picked up included (test_threadpool.cc deletes the pool to force it).
NothingLeftBehind ==
    opc = "gone" => \A t \in Tasks : t <= dispatched => runs[t] = 1

-----------------------------------------------------------------------------
\* The constructor returns: its loop ends, whatever the order of the births.
ConstructorReturns == <>(opc = "idle")

\* A dispatched task is run even if the owner never does anything again.
EveryTaskRuns == \A t \in Tasks : dispatched >= t ~> runs[t] = 1

\* A destructor that has begun returns: every worker sees the flag and dies.
DestructorReturns == terminate_threads_ ~> opc = "gone"

-----------------------------------------------------------------------------
\* The pool implements the abstract task pool.
ActiveTasks   == {nextTask[t] : t \in Threads} \ {NoTask}
FinishedTasks == {t \in Tasks : runs[t] > 0}
PoolPhase     == IF opc = "gone" THEN "closed"
                 ELSE IF terminate_threads_ THEN "closing" ELSE "open"

Abstract == INSTANCE TaskPool WITH
    Limit <- NumThreads, pending <- work_queue_, active <- ActiveTasks,
    finished <- FinishedTasks, phase <- PoolPhase

\* Every step of the pool is a step of TaskPool or none, and the pool gets on
\* with its tasks as TaskPool says.
Implements == Abstract!FairSpec
=============================================================================
