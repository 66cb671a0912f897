-------------------------- MODULE ThreadPool_proofs --------------------------
(***************************************************************************)
(* Proofs about ThreadPool, for every number of workers and of tasks.      *)
(***************************************************************************)
EXTENDS ThreadPool, FiniteSetTheorems, TLAPS

-----------------------------------------------------------------------------
(***************************************************************************)
(* The inductive invariant, in parts.                                      *)
(***************************************************************************)

\* A thread is in a critical section exactly when it holds the mutex.
LockInv ==
    /\ \A w \in Workers : pc[w] \in HoldingPC <=> q_lock_ = w
    /\ opc \in OwnerHoldingPC <=> q_lock_ = Owner

\* num_threads_running_ counts the workers that are born and have not exited.
Alive == {w \in Workers : pc[w] \in AlivePC}
CountInv == num_threads_running_ = Cardinality(Alive)

TerminatingPC == {"join", "joining", "rejoin"} \cup DrainingPC

\* What the owner's position says of the workers.
PhaseInv ==
    /\ opc # "abort"
    /\ terminate_threads_ <=> opc \in TerminatingPC
    /\ terminate_threads_ => num_threads = NumThreads
    /\ opc = "ctor" => idx = 0
    /\ opc = "create" => idx < NumThreads
    /\ opc \in {"ctor", "create"} =>
          \A w \in Workers : w > idx => pc[w] = "unborn"
    /\ opc \in {"ctor", "create"} =>
          \A w \in Workers : w <= idx => pc[w] # "unborn"
    /\ opc \notin {"ctor", "create"} => \A w \in Workers : pc[w] # "unborn"
    /\ opc \in ConstructingPC => dispatched = 0
    /\ opc = "dispatch" => dispatched < MaxTasks
    /\ opc \notin ConstructingPC => \A w \in Workers : pc[w] # "start"
    /\ ~terminate_threads_ => \A w \in Workers : pc[w] \notin {"exited", "dead"}
    /\ opc \in {"joining", "rejoin"} => idx < num_threads
    /\ opc = "rejoin" => pc[idx + 1] = "dead"
    /\ opc \in {"join", "joining", "rejoin"} =>
          \A w \in Workers : w <= idx => pc[w] = "dead"
    /\ opc \in DrainingPC => \A w \in Workers : pc[w] = "dead"

\* A worker is about to wait only when it has seen the queue empty.
SignalInv ==
    /\ \A w \in Workers : pc[w] = "loop" /\ ~terminate_threads_ => work_queue_ = <<>>
    /\ NoLostSignal

\* A thread holds a task exactly while it runs func_.
TaskInv ==
    /\ \A w \in Workers : pc[w] = "run" <=> nextTask[w] # NoTask
    /\ opc = "serial" <=> nextTask[Owner] # NoTask
    /\ opc = "gone" => work_queue_ = <<>>
    /\ ExactlyOnce

ControlInv == TypeOK /\ LockInv /\ CountInv /\ PhaseInv

-----------------------------------------------------------------------------
(***************************************************************************)
(* Counting workers.                                                       *)
(***************************************************************************)

\* Sets of workers are finite and their cardinalities natural; the whole set has
\* NumThreads members.
LEMMA WorkerSets ==
    ASSUME NEW S \in SUBSET Workers
    PROVE  /\ IsFiniteSet(S)
           /\ Cardinality(S) \in 0..NumThreads
           /\ Cardinality(S) = NumThreads => S = Workers
           /\ Cardinality(S) = 0 <=> S = {}
<1>1. IsFiniteSet(Workers) /\ Cardinality(Workers) = NumThreads
  BY FS_Interval, NumThreadsAssumption DEF Workers
<1>2. /\ IsFiniteSet(S)
      /\ Cardinality(S) <= NumThreads
      /\ NumThreads = Cardinality(S) => Workers = S
  BY <1>1, FS_Subset
<1>3. Cardinality(S) \in Nat
  BY <1>2, FS_CardinalityType
<1>4. Cardinality(S) = 0 <=> S = {}
  BY <1>2, FS_EmptySet
<1> QED
  BY <1>2, <1>3, <1>4, NumThreadsAssumption

\* A worker that enters a set of workers adds one to its size.
LEMMA AddWorker ==
    ASSUME NEW S \in SUBSET Workers, NEW w \in Workers, w \notin S
    PROVE  Cardinality(S \cup {w}) = Cardinality(S) + 1
BY WorkerSets, FS_AddElement

\* A worker that leaves a set of workers takes one from its size.
LEMMA RemoveWorker ==
    ASSUME NEW S \in SUBSET Workers, NEW w \in S
    PROVE  Cardinality(S \ {w}) = Cardinality(S) - 1
BY WorkerSets, FS_RemoveElement

-----------------------------------------------------------------------------
(***************************************************************************)
(* Types, mutual exclusion, the count and the phases hold together: the    *)
(* count is in range because it counts workers, the owner leaves the       *)
(* constructor because the count is complete, and a Verify333 holds        *)
(* because of the phase.                                                   *)
(***************************************************************************)

\* The control invariant holds when the constructor is entered.
LEMMA ControlInit == Init => ControlInv
<1> SUFFICES ASSUME Init PROVE ControlInv
  OBVIOUS
<1>1. Alive = {}
  BY DEF Init, Alive, AlivePC
<1>2. CountInv
  BY <1>1, FS_EmptySet DEF Init, CountInv
<1>3. TypeOK
  <2>1. work_queue_ \in Seq(1..dispatched)
    BY DEF Init
  <2>2. pc \in [Workers -> WorkerPC] /\ opc \in OwnerPC
    BY DEF Init, WorkerPC, OwnerPC
  <2>3. nextTask \in [Threads -> 0..dispatched] /\ runs \in [Tasks -> Nat]
    BY DEF Init, NoTask
  <2>4. /\ q_lock_ \in Threads \cup {Free}
        /\ num_threads_running_ \in 0..NumThreads
        /\ idx \in 0..NumThreads
        /\ num_threads \in 0..NumThreads
        /\ dispatched \in 0..MaxTasks
    BY NumThreadsAssumption, MaxTasksAssumption DEF Init
  <2> QED
    BY <2>1, <2>2, <2>3, <2>4 DEF Init, TypeOK
<1>4. LockInv
  BY NumThreadsAssumption
  DEF Init, LockInv, HoldingPC, OwnerHoldingPC, Workers, Free, Owner
<1>5. PhaseInv
  BY NumThreadsAssumption
  DEF Init, PhaseInv, TerminatingPC, DrainingPC, ConstructingPC, Workers
<1> QED
  BY <1>2, <1>3, <1>4, <1>5 DEF ControlInv

\* Counting a run keeps the type of runs, whatever the task.
LEMMA CountedRun ==
    ASSUME NEW f \in [Tasks -> Nat], NEW x
    PROVE  [f EXCEPT ![x] = @ + 1] \in [Tasks -> Nat]
<1>1. CASE x \in Tasks
  <2>1. f[x] + 1 \in Nat
    BY <1>1
  <2> QED
    BY <2>1
<1>2. CASE x \notin Tasks
  BY <1>2
<1> QED
  BY <1>1, <1>2

\* Every step of the owner and of a worker keeps the control invariant.
LEMMA ControlStep == ControlInv /\ [Next]_vars => ControlInv'
<1> SUFFICES ASSUME ControlInv, [Next]_vars PROVE ControlInv'
  OBVIOUS
<1> USE NumThreadsAssumption, MaxTasksAssumption DEF ControlInv
<1>1. ASSUME NEW w \in Workers, Start(w) PROVE ControlInv'
  <2>1. Alive' = Alive \cup {w} /\ w \notin Alive
    BY <1>1 DEF Start, Acquire, Alive, AlivePC, TypeOK, WorkerPC
  <2>2. CountInv'
    BY <1>1, <2>1, AddWorker DEF Start, Acquire, CountInv, Alive
  <2>3. TypeOK'
    <3>1. Alive' \in SUBSET Workers
      BY DEF Alive
    <3>2. num_threads_running_' \in 0..NumThreads
      BY <2>2, <3>1, WorkerSets DEF CountInv
    <3> QED
      BY <1>1, <3>2 DEF Start, Acquire, TypeOK, WorkerPC, OwnerPC, Threads, Tasks, Workers, NoTask, Free, Owner
  <2>4. LockInv'
    BY <1>1 DEF Start, Acquire, LockInv, TypeOK, HoldingPC, OwnerHoldingPC, Workers, Threads, Free, Owner
  <2>5. PhaseInv'
    BY <1>1 DEF Start, Acquire, PhaseInv, TypeOK, LockInv, HoldingPC, OwnerHoldingPC, TerminatingPC, DrainingPC, ConstructingPC, Workers, Threads, Owner
  <2> QED
    BY <2>2, <2>3, <2>4, <2>5
<1>2. ASSUME NEW w \in Workers, Wait(w) PROVE ControlInv'
  <2>1. Alive' = Alive
    BY <1>2 DEF Wait, Release, Alive, AlivePC, TypeOK, WorkerPC
  <2>2. CountInv'
    BY <1>2, <2>1 DEF Wait, Release, CountInv
  <2>3. TypeOK'
    BY <1>2 DEF Wait, Release, TypeOK, WorkerPC, OwnerPC, Threads, Tasks, Workers, NoTask, Free, Owner
  <2>4. LockInv'
    BY <1>2 DEF Wait, Release, LockInv, TypeOK, HoldingPC, OwnerHoldingPC, Workers, Threads, Free, Owner
  <2>5. PhaseInv'
    BY <1>2 DEF Wait, Release, PhaseInv, TypeOK, LockInv, HoldingPC, OwnerHoldingPC, TerminatingPC, DrainingPC, ConstructingPC, Workers, Threads, Owner
  <2> QED
    BY <2>2, <2>3, <2>4, <2>5
<1>3. ASSUME NEW w \in Workers, SpuriousWakeup(w) PROVE ControlInv'
  <2>1. Alive' = Alive
    BY <1>3 DEF SpuriousWakeup, Alive, AlivePC, TypeOK, WorkerPC
  <2>2. CountInv'
    BY <1>3, <2>1 DEF SpuriousWakeup, CountInv
  <2>3. TypeOK'
    BY <1>3 DEF SpuriousWakeup, TypeOK, WorkerPC, OwnerPC, Threads, Tasks, Workers, NoTask, Free, Owner
  <2>4. LockInv'
    BY <1>3 DEF SpuriousWakeup, LockInv, TypeOK, HoldingPC, OwnerHoldingPC, Workers, Threads, Free, Owner
  <2>5. PhaseInv'
    BY <1>3 DEF SpuriousWakeup, PhaseInv, TypeOK, LockInv, HoldingPC, OwnerHoldingPC, TerminatingPC, DrainingPC, ConstructingPC, Workers, Threads, Owner
  <2> QED
    BY <2>2, <2>3, <2>4, <2>5
<1>4. ASSUME NEW w \in Workers, Relock(w) PROVE ControlInv'
  <2>1. Alive' = Alive
    BY <1>4 DEF Relock, Acquire, Alive, AlivePC, TypeOK, WorkerPC
  <2>2. CountInv'
    BY <1>4, <2>1 DEF Relock, Acquire, CountInv
  <2>3. TypeOK'
    BY <1>4 DEF Relock, Acquire, TypeOK, WorkerPC, OwnerPC, Threads, Tasks, Workers, NoTask, Free, Owner
  <2>4. LockInv'
    BY <1>4 DEF Relock, Acquire, LockInv, TypeOK, HoldingPC, OwnerHoldingPC, Workers, Threads, Free, Owner
  <2>5. PhaseInv'
    BY <1>4 DEF Relock, Acquire, PhaseInv, TypeOK, LockInv, HoldingPC, OwnerHoldingPC, TerminatingPC, DrainingPC, ConstructingPC, Workers, Threads, Owner
  <2> QED
    BY <2>2, <2>3, <2>4, <2>5
<1>5. ASSUME NEW w \in Workers, Dequeue(w) PROVE ControlInv'
  <2>1. Alive' = Alive
    BY <1>5 DEF Dequeue, PopFront, Release, Alive, AlivePC, TypeOK, WorkerPC
  <2>2. CountInv'
    BY <1>5, <2>1 DEF Dequeue, PopFront, Release, CountInv
  <2>3. TypeOK'
    <3>1. Head(work_queue_) \in 1..dispatched /\ Tail(work_queue_) \in Seq(1..dispatched)
      BY <1>5 DEF Dequeue, TypeOK
    <3>2. nextTask' \in [Threads -> 0..dispatched]
      BY <1>5, <3>1 DEF Dequeue, PopFront, TypeOK, Workers, Threads
    <3> QED
      BY <1>5, <3>1, <3>2 DEF Dequeue, PopFront, Release, TypeOK, WorkerPC, Free
  <2>4. LockInv'
    BY <1>5 DEF Dequeue, PopFront, Release, LockInv, TypeOK, HoldingPC, OwnerHoldingPC, Workers, Threads, Free, Owner
  <2>5. PhaseInv'
    BY <1>5 DEF Dequeue, PopFront, Release, PhaseInv, TypeOK, LockInv, HoldingPC, OwnerHoldingPC, TerminatingPC, DrainingPC, ConstructingPC, Workers, Threads, Owner
  <2> QED
    BY <2>2, <2>3, <2>4, <2>5
<1>6. ASSUME NEW w \in Workers, Run(w) PROVE ControlInv'
  <2>1. Alive' = Alive
    BY <1>6 DEF Run, RunTask, Alive, AlivePC, TypeOK, WorkerPC
  <2>2. CountInv'
    BY <1>6, <2>1 DEF Run, RunTask, CountInv
  <2>3. TypeOK'
    <3>1. [runs EXCEPT ![nextTask[w]] = @ + 1] \in [Tasks -> Nat]
      BY CountedRun DEF TypeOK
    <3> QED
      BY <1>6, <3>1 DEF Run, RunTask, TypeOK, WorkerPC, OwnerPC, Threads, Tasks, Workers, NoTask, Free, Owner
  <2>4. LockInv'
    BY <1>6 DEF Run, RunTask, LockInv, TypeOK, HoldingPC, OwnerHoldingPC, Workers, Threads, Free, Owner
  <2>5. PhaseInv'
    BY <1>6 DEF Run, RunTask, PhaseInv, TypeOK, LockInv, HoldingPC, OwnerHoldingPC, TerminatingPC, DrainingPC, ConstructingPC, Workers, Threads, Owner
  <2> QED
    BY <2>2, <2>3, <2>4, <2>5
<1>7. ASSUME NEW w \in Workers, Drained(w) PROVE ControlInv'
  <2>1. Alive' = Alive
    BY <1>7 DEF Drained, Alive, AlivePC, TypeOK, WorkerPC
  <2>2. CountInv'
    BY <1>7, <2>1 DEF Drained, CountInv
  <2>3. TypeOK'
    BY <1>7 DEF Drained, TypeOK, WorkerPC, OwnerPC, Threads, Tasks, Workers, NoTask, Free, Owner
  <2>4. LockInv'
    BY <1>7 DEF Drained, LockInv, TypeOK, HoldingPC, OwnerHoldingPC, Workers, Threads, Free, Owner
  <2>5. PhaseInv'
    <3>1. \A v \in Workers : pc'[v] = pc[v] \/ (pc[v] = "queue" /\ pc'[v] = "loop")
      BY <1>7 DEF Drained, TypeOK
    <3>2. opc = "rejoin" => pc'[idx + 1] = "dead"
      BY <1>7, <3>1 DEF Drained, PhaseInv, TypeOK, Workers
    <3> QED
      BY <1>7, <3>1, <3>2 DEF Drained, PhaseInv
  <2> QED
    BY <2>2, <2>3, <2>4, <2>5
<1>8. ASSUME NEW w \in Workers, Exit(w) PROVE ControlInv'
  <2>1. Alive' = Alive \ {w} /\ w \in Alive
    BY <1>8 DEF Exit, Release, Alive, AlivePC, TypeOK, WorkerPC
  <2>2. CountInv'
    BY <1>8, <2>1, RemoveWorker DEF Exit, Release, CountInv, Alive
  <2>3. TypeOK'
    <3>1. Alive' \in SUBSET Workers
      BY DEF Alive
    <3>2. num_threads_running_' \in 0..NumThreads
      BY <2>2, <3>1, WorkerSets DEF CountInv
    <3> QED
      BY <1>8, <3>2 DEF Exit, Release, TypeOK, WorkerPC, OwnerPC, Threads, Tasks, Workers, NoTask, Free, Owner
  <2>4. LockInv'
    BY <1>8 DEF Exit, Release, LockInv, TypeOK, HoldingPC, OwnerHoldingPC, Workers, Threads, Free, Owner
  <2>5. PhaseInv'
    BY <1>8 DEF Exit, Release, PhaseInv, TypeOK, LockInv, HoldingPC, OwnerHoldingPC, TerminatingPC, DrainingPC, ConstructingPC, Workers, Threads, Owner
  <2> QED
    BY <2>2, <2>3, <2>4, <2>5
<1>9. ASSUME NEW w \in Workers, Return(w) PROVE ControlInv'
  <2>1. Alive' = Alive
    BY <1>9 DEF Return, Alive, AlivePC, TypeOK, WorkerPC
  <2>2. CountInv'
    BY <1>9, <2>1 DEF Return, CountInv
  <2>3. TypeOK'
    BY <1>9 DEF Return, TypeOK, WorkerPC, OwnerPC, Threads, Tasks, Workers, NoTask, Free, Owner
  <2>4. LockInv'
    BY <1>9 DEF Return, LockInv, TypeOK, HoldingPC, OwnerHoldingPC, Workers, Threads, Free, Owner
  <2>5. PhaseInv'
    BY <1>9 DEF Return, PhaseInv, TypeOK, LockInv, HoldingPC, OwnerHoldingPC, TerminatingPC, DrainingPC, ConstructingPC, Workers, Threads, Owner
  <2> QED
    BY <2>2, <2>3, <2>4, <2>5
<1>10. CASE CtorLock
  <2>1. Alive' = Alive
    BY <1>10 DEF CtorLock, Acquire, Alive, AlivePC, TypeOK, WorkerPC
  <2>2. CountInv'
    BY <1>10, <2>1 DEF CtorLock, Acquire, CountInv
  <2>3. TypeOK'
    BY <1>10 DEF CtorLock, Acquire, TypeOK, WorkerPC, OwnerPC, Threads, Tasks, Workers, NoTask, Free, Owner
  <2>4. LockInv'
    BY <1>10 DEF CtorLock, Acquire, LockInv, TypeOK, HoldingPC, OwnerHoldingPC, Workers, Threads, Free, Owner
  <2>5. PhaseInv'
    BY <1>10 DEF CtorLock, Acquire, PhaseInv, TypeOK, LockInv, HoldingPC, OwnerHoldingPC, TerminatingPC, DrainingPC, ConstructingPC, Workers, Threads, Owner
  <2> QED
    BY <2>2, <2>3, <2>4, <2>5
<1>11. CASE CreateThread
  <2>1. Alive' = Alive
    BY <1>11 DEF CreateThread, Alive, AlivePC, TypeOK, WorkerPC, PhaseInv, Workers
  <2>2. CountInv'
    BY <1>11, <2>1 DEF CreateThread, CountInv
  <2>3. TypeOK'
    BY <1>11 DEF CreateThread, TypeOK, WorkerPC, OwnerPC, Threads, Tasks, Workers, NoTask, Free, Owner
  <2>4. LockInv'
    BY <1>11 DEF CreateThread, LockInv, TypeOK, HoldingPC, OwnerHoldingPC, Workers, Threads, Free, Owner
  <2>5. PhaseInv'
    BY <1>11 DEF CreateThread, PhaseInv, TypeOK, LockInv, HoldingPC, OwnerHoldingPC, TerminatingPC, DrainingPC, ConstructingPC, Workers, Threads, Owner
  <2> QED
    BY <2>2, <2>3, <2>4, <2>5
<1>12. CASE CtorYield
  <2>1. Alive' = Alive
    BY <1>12 DEF CtorYield, Release, Alive, AlivePC, TypeOK, WorkerPC
  <2>2. CountInv'
    BY <1>12, <2>1 DEF CtorYield, Release, CountInv
  <2>3. TypeOK'
    BY <1>12 DEF CtorYield, Release, TypeOK, WorkerPC, OwnerPC, Threads, Tasks, Workers, NoTask, Free, Owner
  <2>4. LockInv'
    BY <1>12 DEF CtorYield, Release, LockInv, TypeOK, HoldingPC, OwnerHoldingPC, Workers, Threads, Free, Owner
  <2>5. PhaseInv'
    BY <1>12 DEF CtorYield, Release, PhaseInv, TypeOK, LockInv, HoldingPC, OwnerHoldingPC, TerminatingPC, DrainingPC, ConstructingPC, Workers, Threads, Owner
  <2> QED
    BY <2>2, <2>3, <2>4, <2>5
<1>13. CASE CtorRelock
  <2>1. Alive' = Alive
    BY <1>13 DEF CtorRelock, Acquire, Alive, AlivePC, TypeOK, WorkerPC
  <2>2. CountInv'
    BY <1>13, <2>1 DEF CtorRelock, Acquire, CountInv
  <2>3. TypeOK'
    BY <1>13 DEF CtorRelock, Acquire, TypeOK, WorkerPC, OwnerPC, Threads, Tasks, Workers, NoTask, Free, Owner
  <2>4. LockInv'
    BY <1>13 DEF CtorRelock, Acquire, LockInv, TypeOK, HoldingPC, OwnerHoldingPC, Workers, Threads, Free, Owner
  <2>5. PhaseInv'
    BY <1>13 DEF CtorRelock, Acquire, PhaseInv, TypeOK, LockInv, HoldingPC, OwnerHoldingPC, TerminatingPC, DrainingPC, ConstructingPC, Workers, Threads, Owner
  <2> QED
    BY <2>2, <2>3, <2>4, <2>5
<1>14. CASE CtorReturn
  <2>1. Alive' = Alive
    BY <1>14 DEF CtorReturn, Release, Alive, AlivePC, TypeOK, WorkerPC
  <2>2. CountInv'
    BY <1>14, <2>1 DEF CtorReturn, Release, CountInv
  <2>3. TypeOK'
    BY <1>14 DEF CtorReturn, Release, TypeOK, WorkerPC, OwnerPC, Threads, Tasks, Workers, NoTask, Free, Owner
  <2>4. LockInv'
    BY <1>14 DEF CtorReturn, Release, LockInv, TypeOK, HoldingPC, OwnerHoldingPC, Workers, Threads, Free, Owner
  <2>5. Alive = Workers
    BY <1>14, WorkerSets DEF CtorReturn, Release, Alive, CountInv
  <2>6. PhaseInv'
    BY <1>14, <2>5 DEF CtorReturn, Release, PhaseInv, TypeOK, LockInv, Alive, AlivePC, HoldingPC, OwnerHoldingPC, TerminatingPC, DrainingPC, ConstructingPC, Workers, Owner
  <2> QED
    BY <2>2, <2>3, <2>4, <2>6
<1>15. CASE DispatchLock
  <2>1. Alive' = Alive
    BY <1>15 DEF DispatchLock, Acquire, Alive, AlivePC, TypeOK, WorkerPC
  <2>2. CountInv'
    BY <1>15, <2>1 DEF DispatchLock, Acquire, CountInv
  <2>3. TypeOK'
    BY <1>15 DEF DispatchLock, Acquire, TypeOK, WorkerPC, OwnerPC, Threads, Tasks, Workers, NoTask, Free, Owner
  <2>4. LockInv'
    BY <1>15 DEF DispatchLock, Acquire, LockInv, TypeOK, HoldingPC, OwnerHoldingPC, Workers, Threads, Free, Owner
  <2>5. PhaseInv'
    BY <1>15 DEF DispatchLock, Acquire, PhaseInv, TypeOK, LockInv, HoldingPC, OwnerHoldingPC, TerminatingPC, DrainingPC, ConstructingPC, Workers, Threads, Owner
  <2> QED
    BY <2>2, <2>3, <2>4, <2>5
<1>16. CASE DispatchPush
  <2>1. Alive' = Alive
    BY <1>16 DEF DispatchPush, Signal, Release, Verify333, AsleepWorkers, Alive, AlivePC, TypeOK, WorkerPC
  <2>2. CountInv'
    BY <1>16, <2>1 DEF DispatchPush, Signal, Release, Verify333, AsleepWorkers, CountInv
  <2>3. TypeOK'
    <3>1. dispatched' = dispatched + 1 /\ dispatched' \in 0..MaxTasks
      BY <1>16 DEF DispatchPush, TypeOK, PhaseInv
    <3>2. Seq(1..dispatched) \subseteq Seq(1..dispatched')
      BY <3>1 DEF TypeOK
    <3>3. work_queue_' \in Seq(1..dispatched')
      BY <1>16, <3>1, <3>2 DEF DispatchPush, TypeOK
    <3>4. pc' \in [Workers -> WorkerPC]
      BY <1>16 DEF DispatchPush, Signal, AsleepWorkers, TypeOK, WorkerPC
    <3> QED
      BY <1>16, <3>1, <3>3, <3>4 DEF DispatchPush, Release, Verify333, TypeOK, OwnerPC, Threads, Free
  <2>4. LockInv'
    BY <1>16 DEF DispatchPush, Signal, Release, Verify333, AsleepWorkers, LockInv, TypeOK, HoldingPC, OwnerHoldingPC, Workers, Threads, Free, Owner
  <2>5. PhaseInv'
    BY <1>16 DEF DispatchPush, Signal, Release, Verify333, AsleepWorkers, PhaseInv, TypeOK, LockInv, HoldingPC, OwnerHoldingPC, TerminatingPC, DrainingPC, ConstructingPC, Workers, Threads, Owner
  <2> QED
    BY <2>2, <2>3, <2>4, <2>5
<1>17. CASE DtorLock
  <2>1. Alive' = Alive
    BY <1>17 DEF DtorLock, Acquire, Alive, AlivePC, TypeOK, WorkerPC
  <2>2. CountInv'
    BY <1>17, <2>1 DEF DtorLock, Acquire, CountInv
  <2>3. TypeOK'
    BY <1>17 DEF DtorLock, Acquire, TypeOK, WorkerPC, OwnerPC, Threads, Tasks, Workers, NoTask, Free, Owner
  <2>4. LockInv'
    BY <1>17 DEF DtorLock, Acquire, LockInv, TypeOK, HoldingPC, OwnerHoldingPC, Workers, Threads, Free, Owner
  <2>5. num_threads_running_ = NumThreads
    <3>1. Alive = Workers
      BY <1>17 DEF DtorLock, Alive, AlivePC, PhaseInv, TypeOK, WorkerPC, ConstructingPC, TerminatingPC, DrainingPC
    <3> QED
      BY <3>1, FS_Interval DEF CountInv, Workers
  <2>6. PhaseInv'
    BY <1>17, <2>5 DEF DtorLock, PhaseInv, TypeOK, TerminatingPC, DrainingPC, ConstructingPC, Workers
  <2> QED
    BY <2>2, <2>3, <2>4, <2>6
<1>18. CASE DtorBroadcast
  <2>1. Alive' = Alive
    BY <1>18 DEF DtorBroadcast, Broadcast, Release, Alive, AlivePC, TypeOK, WorkerPC
  <2>2. CountInv'
    BY <1>18, <2>1 DEF DtorBroadcast, Broadcast, Release, CountInv
  <2>3. TypeOK'
    BY <1>18 DEF DtorBroadcast, Broadcast, Release, TypeOK, WorkerPC, OwnerPC, Threads, Tasks, Workers, NoTask, Free, Owner
  <2>4. LockInv'
    BY <1>18 DEF DtorBroadcast, Broadcast, Release, LockInv, TypeOK, HoldingPC, OwnerHoldingPC, Workers, Threads, Free, Owner
  <2>5. PhaseInv'
    BY <1>18 DEF DtorBroadcast, Broadcast, Release, PhaseInv, TypeOK, LockInv, HoldingPC, OwnerHoldingPC, TerminatingPC, DrainingPC, ConstructingPC, Workers, Threads, Owner
  <2> QED
    BY <2>2, <2>3, <2>4, <2>5
<1>19. CASE Join
  <2>1. Alive' = Alive
    BY <1>19 DEF Join, Alive, AlivePC, TypeOK, WorkerPC
  <2>2. CountInv'
    BY <1>19, <2>1 DEF Join, CountInv
  <2>3. TypeOK'
    BY <1>19 DEF Join, TypeOK, WorkerPC, OwnerPC, Threads, Tasks, Workers, NoTask, Free, Owner
  <2>4. LockInv'
    BY <1>19 DEF Join, LockInv, TypeOK, HoldingPC, OwnerHoldingPC, Workers, Threads, Free, Owner
  <2>5. PhaseInv'
    BY <1>19 DEF Join, PhaseInv, TypeOK, LockInv, HoldingPC, OwnerHoldingPC, TerminatingPC, DrainingPC, ConstructingPC, Workers, Threads, Owner
  <2> QED
    BY <2>2, <2>3, <2>4, <2>5
<1>20. CASE DtorRelock
  <2>1. Alive' = Alive
    BY <1>20 DEF DtorRelock, Acquire, Alive, AlivePC, TypeOK, WorkerPC
  <2>2. CountInv'
    BY <1>20, <2>1 DEF DtorRelock, Acquire, CountInv
  <2>3. TypeOK'
    BY <1>20 DEF DtorRelock, Acquire, TypeOK, WorkerPC, OwnerPC, Threads, Tasks, Workers, NoTask, Free, Owner, PhaseInv
  <2>4. LockInv'
    BY <1>20 DEF DtorRelock, Acquire, LockInv, TypeOK, HoldingPC, OwnerHoldingPC, Workers, Threads, Free, Owner
  <2>5. \A w \in Workers : w <= idx' => pc[w] = "dead"
    <3> SUFFICES ASSUME NEW w \in Workers, w <= idx + 1 PROVE pc[w] = "dead"
      BY <1>20 DEF DtorRelock
    <3>1. w <= idx \/ w = idx + 1
      BY DEF TypeOK, Workers
    <3> QED
      BY <1>20, <3>1 DEF DtorRelock, PhaseInv
  <2>6. PhaseInv'
    BY <1>20, <2>5 DEF DtorRelock, PhaseInv, TypeOK, TerminatingPC, DrainingPC, ConstructingPC, Workers
  <2> QED
    BY <2>2, <2>3, <2>4, <2>6
<1>21. CASE DtorJoined
  <2>1. Alive' = Alive
    BY <1>21 DEF DtorJoined, Release, Verify333, Alive, AlivePC, TypeOK, WorkerPC
  <2>2. CountInv'
    BY <1>21, <2>1 DEF DtorJoined, Release, Verify333, CountInv
  <2>3. TypeOK'
    BY <1>21 DEF DtorJoined, Release, Verify333, TypeOK, WorkerPC, OwnerPC, Threads, Tasks, Workers, NoTask, Free, Owner
  <2>4. LockInv'
    BY <1>21 DEF DtorJoined, Release, Verify333, LockInv, TypeOK, HoldingPC, OwnerHoldingPC, Workers, Threads, Free, Owner
  <2>5. num_threads_running_ = 0
    <3>1. \A w \in Workers : pc[w] = "dead"
      BY <1>21 DEF DtorJoined, PhaseInv, TypeOK, TerminatingPC, Workers
    <3>2. Alive = {}
      BY <3>1 DEF Alive, AlivePC
    <3> QED
      BY <3>2, FS_EmptySet DEF CountInv
  <2>6. PhaseInv'
    BY <1>21, <2>5 DEF DtorJoined, Verify333, PhaseInv, TypeOK, TerminatingPC, DrainingPC, ConstructingPC, Workers
  <2> QED
    BY <2>2, <2>3, <2>4, <2>6
<1>22. CASE DrainPop
  <2>1. Alive' = Alive
    BY <1>22 DEF DrainPop, PopFront, Alive, AlivePC, TypeOK, WorkerPC
  <2>2. CountInv'
    BY <1>22, <2>1 DEF DrainPop, PopFront, CountInv
  <2>3. TypeOK'
    BY <1>22 DEF DrainPop, PopFront, TypeOK, WorkerPC, OwnerPC, Threads, Tasks, Workers, NoTask, Free, Owner
  <2>4. LockInv'
    BY <1>22 DEF DrainPop, PopFront, LockInv, TypeOK, HoldingPC, OwnerHoldingPC, Workers, Threads, Free, Owner
  <2>5. PhaseInv'
    BY <1>22 DEF DrainPop, PopFront, PhaseInv, TypeOK, LockInv, HoldingPC, OwnerHoldingPC, TerminatingPC, DrainingPC, ConstructingPC, Workers, Threads, Owner
  <2> QED
    BY <2>2, <2>3, <2>4, <2>5
<1>23. CASE DrainRun
  <2>1. Alive' = Alive
    BY <1>23 DEF DrainRun, RunTask, Alive, AlivePC, TypeOK, WorkerPC
  <2>2. CountInv'
    BY <1>23, <2>1 DEF DrainRun, RunTask, CountInv
  <2>3. TypeOK'
    <3>1. [runs EXCEPT ![nextTask[Owner]] = @ + 1] \in [Tasks -> Nat]
      BY CountedRun DEF TypeOK
    <3> QED
      BY <1>23, <3>1 DEF DrainRun, RunTask, TypeOK, WorkerPC, OwnerPC, Threads, Tasks, Workers, NoTask, Free, Owner
  <2>4. LockInv'
    BY <1>23 DEF DrainRun, RunTask, LockInv, TypeOK, HoldingPC, OwnerHoldingPC, Workers, Threads, Free, Owner
  <2>5. PhaseInv'
    BY <1>23 DEF DrainRun, RunTask, PhaseInv, TypeOK, LockInv, HoldingPC, OwnerHoldingPC, TerminatingPC, DrainingPC, ConstructingPC, Workers, Threads, Owner
  <2> QED
    BY <2>2, <2>3, <2>4, <2>5
<1>24. CASE DtorReturn
  <2>1. Alive' = Alive
    BY <1>24 DEF DtorReturn, Alive, AlivePC, TypeOK, WorkerPC
  <2>2. CountInv'
    BY <1>24, <2>1 DEF DtorReturn, CountInv
  <2>3. TypeOK'
    BY <1>24 DEF DtorReturn, TypeOK, WorkerPC, OwnerPC, Threads, Tasks, Workers, NoTask, Free, Owner
  <2>4. LockInv'
    BY <1>24 DEF DtorReturn, LockInv, TypeOK, HoldingPC, OwnerHoldingPC, Workers, Threads, Free, Owner
  <2>5. PhaseInv'
    BY <1>24 DEF DtorReturn, PhaseInv, TypeOK, LockInv, HoldingPC, OwnerHoldingPC, TerminatingPC, DrainingPC, ConstructingPC, Workers, Threads, Owner
  <2> QED
    BY <2>2, <2>3, <2>4, <2>5
<1>25. CASE UNCHANGED vars
  BY <1>25 DEF vars, TypeOK, LockInv, CountInv, Alive, PhaseInv, Stopped
<1> QED
  BY <1>1, <1>2, <1>3, <1>4, <1>5, <1>6, <1>7, <1>8, <1>9, <1>10, <1>11, <1>12, <1>13, <1>14, <1>15, <1>16, <1>17, <1>18, <1>19, <1>20, <1>21, <1>22, <1>23, <1>24, <1>25
  DEF Next, ThreadLoop, Constructor, Dispatch, Destructor, Stopped

-----------------------------------------------------------------------------
(***************************************************************************)
(* No signal is lost.                                                      *)
(***************************************************************************)

\* No signal is lost when nothing has been dispatched and nobody sleeps.
LEMMA SignalInit == Init => SignalInv
BY DEF Init, SignalInv, NoLostSignal, AsleepWorkers

\* Every step keeps a looker for each queued task: Dispatch wakes one or finds
\* nobody asleep, a worker that takes a task comes back to look again.
LEMMA SignalStep == ControlInv /\ SignalInv /\ [Next]_vars => SignalInv'
<1> SUFFICES ASSUME ControlInv, SignalInv, [Next]_vars, ~terminate_threads_'
             PROVE  SignalInv'
  BY DEF SignalInv, NoLostSignal
<1>0. /\ Lookers \in SUBSET Workers
      /\ Lookers' \in SUBSET Workers
      /\ Cardinality(Lookers) \in Nat
      /\ Cardinality(Lookers') \in Nat
      /\ Len(work_queue_) \in Nat
  <2>1. Lookers \in SUBSET Workers /\ Lookers' \in SUBSET Workers
    BY DEF Lookers
  <2>2. Cardinality(Lookers) \in 0..NumThreads /\ Cardinality(Lookers') \in 0..NumThreads
    BY <2>1, WorkerSets
  <2> QED
    BY <2>1, <2>2 DEF ControlInv, TypeOK
<1>1. ASSUME NEW w \in Workers, Start(w) PROVE SignalInv'
  <2>1. dispatched = 0
    BY <1>1 DEF Start, ControlInv, PhaseInv
  <2>2. work_queue_ = <<>>
    BY <2>1 DEF ControlInv, TypeOK
  <2>3. AsleepWorkers' = AsleepWorkers /\ Lookers' = Lookers
    BY <1>1 DEF Start, AsleepWorkers, Lookers, ControlInv, TypeOK
  <2> QED
    BY <1>0, <1>1, <2>2, <2>3 DEF Start, SignalInv, NoLostSignal
<1>2. ASSUME NEW w \in Workers, Wait(w) PROVE SignalInv'
  <2>1. work_queue_' = <<>>
    BY <1>2 DEF Wait, SignalInv
  <2> QED
    BY <1>0, <2>1 DEF SignalInv, NoLostSignal
<1>3. ASSUME NEW w \in Workers, SpuriousWakeup(w) PROVE SignalInv'
  <2>1. Lookers' = Lookers \cup {w} /\ w \notin Lookers
    BY <1>3 DEF SpuriousWakeup, Lookers, ControlInv, TypeOK
  <2>2. Cardinality(Lookers') = Cardinality(Lookers) + 1
    BY <1>0, <2>1, AddWorker
  <2>3. AsleepWorkers # {}
    BY <1>3 DEF SpuriousWakeup, AsleepWorkers
  <2>4. \A v \in Workers : pc'[v] = "loop" => pc[v] = "loop"
    BY <1>3 DEF SpuriousWakeup, ControlInv, TypeOK
  <2> QED
    BY <1>0, <1>3, <2>2, <2>3, <2>4 DEF SpuriousWakeup, SignalInv, NoLostSignal
<1>4. ASSUME NEW w \in Workers, Relock(w) PROVE SignalInv'
  <2>1. Lookers' = Lookers /\ AsleepWorkers' = AsleepWorkers
    BY <1>4 DEF Relock, Lookers, AsleepWorkers, ControlInv, TypeOK
  <2>2. \A v \in Workers : pc'[v] = "loop" => pc[v] = "loop"
    BY <1>4 DEF Relock, ControlInv, TypeOK
  <2> QED
    BY <1>4, <2>1, <2>2 DEF Relock, SignalInv, NoLostSignal
<1>5. ASSUME NEW w \in Workers, Dequeue(w) PROVE SignalInv'
  <2>1. Lookers' = Lookers \ {w} /\ w \in Lookers
    BY <1>5 DEF Dequeue, Lookers, ControlInv, TypeOK
  <2>2. Cardinality(Lookers') = Cardinality(Lookers) - 1
    BY <1>0, <2>1, RemoveWorker
  <2>3. Len(work_queue_') = Len(work_queue_) - 1
    BY <1>5 DEF Dequeue, PopFront, ControlInv, TypeOK
  <2>4. AsleepWorkers' = AsleepWorkers
    BY <1>5 DEF Dequeue, AsleepWorkers, ControlInv, TypeOK
  <2>5. \A v \in Workers : pc'[v] # "loop"
    BY <1>5 DEF Dequeue, ControlInv, TypeOK, LockInv, HoldingPC
  <2> QED
    BY <1>0, <1>5, <2>2, <2>3, <2>4, <2>5 DEF Dequeue, SignalInv, NoLostSignal
<1>6. ASSUME NEW w \in Workers, Run(w) PROVE SignalInv'
  <2>1. Lookers' = Lookers \cup {w} /\ w \notin Lookers
    BY <1>6 DEF Run, Lookers, ControlInv, TypeOK
  <2>2. Cardinality(Lookers') = Cardinality(Lookers) + 1
    BY <1>0, <2>1, AddWorker
  <2>3. AsleepWorkers' = AsleepWorkers
    BY <1>6 DEF Run, AsleepWorkers, ControlInv, TypeOK
  <2>4. \A v \in Workers : pc'[v] = "loop" => pc[v] = "loop"
    BY <1>6 DEF Run, ControlInv, TypeOK
  <2> QED
    BY <1>0, <1>6, <2>2, <2>3, <2>4 DEF Run, SignalInv, NoLostSignal
<1>7. ASSUME NEW w \in Workers, Drained(w) PROVE SignalInv'
  <2>1. work_queue_' = <<>>
    BY <1>7 DEF Drained
  <2> QED
    BY <1>0, <2>1 DEF SignalInv, NoLostSignal
<1>8. ASSUME NEW w \in Workers, Exit(w) PROVE SignalInv'
  BY <1>8 DEF Exit
<1>9. ASSUME NEW w \in Workers, Return(w) PROVE SignalInv'
  BY <1>9 DEF Return, ControlInv, PhaseInv
<1>10. CASE CreateThread
  <2>1. \A v \in Workers : pc'[v] = pc[v] \/ (pc[v] = "unborn" /\ pc'[v] = "start")
    BY <1>10 DEF CreateThread, ControlInv, TypeOK, PhaseInv, Workers
  <2>2. Lookers' = Lookers /\ AsleepWorkers' = AsleepWorkers
    BY <2>1 DEF Lookers, AsleepWorkers
  <2> QED
    BY <1>10, <2>1, <2>2 DEF CreateThread, SignalInv, NoLostSignal
<1>11. CASE DispatchPush
  <2>1. \A v \in Workers : pc[v] # "loop"
    BY <1>11 DEF DispatchPush, ControlInv, LockInv, HoldingPC, OwnerHoldingPC, Workers, Owner
  <2>2. Len(work_queue_') = Len(work_queue_) + 1
    BY <1>11 DEF DispatchPush, ControlInv, TypeOK
  <2>3. CASE AsleepWorkers = {}
    BY <1>11, <2>1, <2>3 DEF DispatchPush, Signal, SignalInv, NoLostSignal, AsleepWorkers
  <2>4. CASE AsleepWorkers # {}
    <3>1. PICK v \in AsleepWorkers : pc' = [pc EXCEPT ![v] = "woken"]
      BY <1>11, <2>4 DEF DispatchPush, Signal
    <3>2. v \in Workers /\ pc[v] = "asleep"
      BY DEF AsleepWorkers
    <3>3. Lookers' = Lookers \cup {v} /\ v \notin Lookers
      BY <3>1, <3>2 DEF Lookers, ControlInv, TypeOK
    <3>4. Cardinality(Lookers') = Cardinality(Lookers) + 1
      BY <1>0, <3>2, <3>3, AddWorker
    <3>5. \A u \in Workers : pc'[u] # "loop"
      BY <2>1, <3>1 DEF ControlInv, TypeOK
    <3> QED
      BY <1>0, <1>11, <2>2, <2>4, <3>4, <3>5 DEF DispatchPush, SignalInv, NoLostSignal
  <2> QED
    BY <2>3, <2>4
<1>12. CASE \/ CtorLock \/ CtorYield \/ CtorRelock \/ CtorReturn \/ DispatchLock
            \/ UNCHANGED vars
  <2>1. UNCHANGED <<pc, work_queue_, terminate_threads_>>
    BY <1>12 DEF CtorLock, CtorYield, CtorRelock, CtorReturn, DispatchLock, vars
  <2>2. Lookers' = Lookers /\ AsleepWorkers' = AsleepWorkers
    BY <2>1 DEF Lookers, AsleepWorkers
  <2> QED
    BY <2>1, <2>2 DEF SignalInv, NoLostSignal
<1>13. CASE Destructor
  <2>1. terminate_threads_'
    BY <1>13 DEF Destructor, DtorLock, DtorBroadcast, Join, DtorRelock, DtorJoined,
       DrainPop, DrainRun, DtorReturn, ControlInv, PhaseInv, TerminatingPC, DrainingPC
  <2> QED
    BY <2>1
<1> QED
  BY <1>1, <1>2, <1>3, <1>4, <1>5, <1>6, <1>7, <1>8, <1>9, <1>10, <1>11, <1>12, <1>13
  DEF Next, ThreadLoop, Constructor, Dispatch, Stopped

-----------------------------------------------------------------------------
(***************************************************************************)
(* Every task is in one place.  A step disturbs this in three ways only:   *)
(* a thread pops a task, a thread ends a task, the owner appends one.      *)
(***************************************************************************)

\* No task has been dispatched at first: each is in no place.
LEMMA TaskInit == Init => TaskInv
<1> SUFFICES ASSUME Init PROVE TaskInv
  OBVIOUS
<1>1. popped = 0 /\ work_queue_ = <<>>
  <2>1. dispatched = 0
    BY DEF Init
  <2>2. Len(work_queue_) = 0
    BY DEF Init
  <2>3. popped = 0
    BY <2>1, <2>2 DEF popped
  <2> QED
    BY <2>3 DEF Init
<1>2. \A t \in Tasks : ~Held(t)
  BY DEF Init, Held, Tasks, NoTask
<1>3. InOrder
  BY <1>1 DEF InOrder
<1>4. InOnePlace
  BY <1>1, <1>2 DEF InOnePlace, Init, Tasks
<1>5. OneHolder
  BY DEF Init, OneHolder
<1>6. /\ \A w \in Workers : pc[w] = "run" <=> nextTask[w] # NoTask
      /\ opc = "serial" <=> nextTask[Owner] # NoTask
      /\ opc # "gone"
  BY NumThreadsAssumption DEF Init, Workers, Threads, Owner
<1> QED
  BY <1>3, <1>4, <1>5, <1>6 DEF TaskInv, ExactlyOnce

\* A thread that takes the front of the queue keeps every task in one place.
LEMMA PopKeeps ==
    ASSUME TypeOK, ExactlyOnce, NEW t \in Threads, nextTask[t] = NoTask,
           work_queue_ # <<>>, PopFront(t), UNCHANGED <<dispatched, runs>>
    PROVE  ExactlyOnce'
<1> DEFINE h == Head(work_queue_)
<1>1. /\ Len(work_queue_) \in Nat \ {0}
      /\ h = work_queue_[1]
      /\ Len(work_queue_') = Len(work_queue_) - 1
      /\ \A i \in DOMAIN work_queue_' : /\ i + 1 \in DOMAIN work_queue_
                                        /\ work_queue_'[i] = work_queue_[i + 1]
  BY DEF TypeOK, PopFront
<1>2. dispatched \in Nat /\ dispatched \in 0..MaxTasks /\ popped \in Int /\ popped' = popped + 1
  BY <1>1, MaxTasksAssumption DEF TypeOK, popped
<1>3. h = popped + 1 /\ h \in 1..dispatched
  BY <1>1 DEF ExactlyOnce, InOrder, TypeOK
<1>4. /\ nextTask' = [nextTask EXCEPT ![t] = h]
      /\ \A u \in Threads : nextTask'[u] = IF u = t THEN h ELSE nextTask[u]
  BY DEF PopFront, TypeOK
<1>5. \A s \in Tasks : Held(s)' <=> Held(s) \/ s = h
  BY <1>3, <1>4 DEF Held, Tasks, NoTask
<1>6. InOrder'
  <2> SUFFICES ASSUME NEW i \in DOMAIN work_queue_'
               PROVE  work_queue_'[i] = popped' + i
    BY DEF InOrder
  <2>1. i \in Nat
    BY DEF PopFront, TypeOK
  <2>2. work_queue_'[i] = popped + (i + 1)
    BY <1>1 DEF ExactlyOnce, InOrder
  <2> QED
    BY <1>2, <2>1, <2>2
<1>7. InOnePlace'
  <2> SUFFICES ASSUME NEW s \in Tasks
               PROVE  /\ s > popped'  => runs[s] = 0 /\ ~Held(s)'
                      /\ s <= popped' => runs[s] = IF Held(s)' THEN 0 ELSE 1
    BY DEF InOnePlace
  <2>1. CASE s = h
    BY <1>2, <1>3, <1>5, <2>1 DEF ExactlyOnce, InOnePlace
  <2>2. CASE s # h
    BY <1>2, <1>3, <1>5, <2>2 DEF ExactlyOnce, InOnePlace, Tasks
  <2> QED
    BY <2>1, <2>2
<1>8. \A u \in Threads : nextTask[u] # h
  BY <1>2, <1>3, MaxTasksAssumption DEF ExactlyOnce, InOnePlace, Held, Tasks
<1>9. OneHolder'
  BY <1>3, <1>4, <1>8 DEF ExactlyOnce, OneHolder, NoTask
<1> QED
  BY <1>6, <1>7, <1>9 DEF ExactlyOnce

\* A thread that ends its task keeps every task in one place.
LEMMA RunKeeps ==
    ASSUME TypeOK, ExactlyOnce, NEW t \in Threads, nextTask[t] # NoTask,
           RunTask(t), UNCHANGED <<dispatched, work_queue_>>
    PROVE  ExactlyOnce'
<1> DEFINE k == nextTask[t]
<1>1. k \in Tasks
  BY MaxTasksAssumption DEF TypeOK, Tasks, NoTask
<1>2. popped' = popped /\ popped \in Int
  BY MaxTasksAssumption DEF popped, TypeOK
<1>3. Held(k) /\ k <= popped /\ runs[k] = 0
  BY <1>1, <1>2 DEF ExactlyOnce, InOnePlace, Held, Tasks
<1>4. \A u \in Threads : nextTask'[u] = IF u = t THEN NoTask ELSE nextTask[u]
  BY DEF RunTask, TypeOK
<1>5. \A s \in Tasks : Held(s)' <=> Held(s) /\ s # k
  BY <1>1, <1>4 DEF Held, ExactlyOnce, OneHolder, Tasks, NoTask
<1>6. \A s \in Tasks : runs'[s] = IF s = k THEN runs[s] + 1 ELSE runs[s]
  BY DEF RunTask, TypeOK
<1>7. InOrder'
  BY <1>2 DEF ExactlyOnce, InOrder
<1>8. InOnePlace'
  <2> SUFFICES ASSUME NEW s \in Tasks
               PROVE  /\ s > popped  => runs'[s] = 0 /\ ~Held(s)'
                      /\ s <= popped => runs'[s] = IF Held(s)' THEN 0 ELSE 1
    BY <1>2 DEF InOnePlace
  <2>1. CASE s = k
    BY <1>1, <1>2, <1>3, <1>5, <1>6, <2>1 DEF Tasks
  <2>2. CASE s # k
    BY <1>5, <1>6, <2>2 DEF ExactlyOnce, InOnePlace
  <2> QED
    BY <2>1, <2>2
<1>9. OneHolder'
  BY <1>4 DEF ExactlyOnce, OneHolder
<1> QED
  BY <1>7, <1>8, <1>9 DEF ExactlyOnce

\* Dispatch appends the next task and keeps every task in one place.
LEMMA PushKeeps ==
    ASSUME TypeOK, ExactlyOnce, DispatchPush
    PROVE  ExactlyOnce'
<1>1. /\ dispatched' = dispatched + 1
      /\ work_queue_' = Append(work_queue_, dispatched + 1)
      /\ UNCHANGED <<nextTask, runs>>
  BY DEF DispatchPush
<1>2. /\ Len(work_queue_) \in Nat
      /\ Len(work_queue_') = Len(work_queue_) + 1
      /\ DOMAIN work_queue_ = 1..Len(work_queue_)
      /\ DOMAIN work_queue_' = 1..(Len(work_queue_) + 1)
      /\ \A i \in 1..(Len(work_queue_) + 1) :
            work_queue_'[i] = IF i <= Len(work_queue_) THEN work_queue_[i]
                              ELSE dispatched + 1
  BY <1>1 DEF TypeOK
<1>3. dispatched \in Nat /\ popped' = popped /\ popped \in Int
  BY <1>1, <1>2, MaxTasksAssumption DEF popped, TypeOK
<1>4. InOrder'
  BY <1>1, <1>2, <1>3 DEF ExactlyOnce, InOrder, popped
<1>5. InOnePlace'
  BY <1>1, <1>3 DEF ExactlyOnce, InOnePlace, Held
<1>6. OneHolder'
  BY <1>1 DEF ExactlyOnce, OneHolder
<1> QED
  BY <1>4, <1>5, <1>6 DEF ExactlyOnce

\* Every step keeps every task in one place.
LEMMA TaskStep == ControlInv /\ TaskInv /\ [Next]_vars => TaskInv'
<1> SUFFICES ASSUME ControlInv, TaskInv, [Next]_vars PROVE TaskInv'
  OBVIOUS
<1> USE DEF ControlInv
<1>0. Owner \in Threads /\ Workers \subseteq Threads /\ Owner \notin Workers
  BY NumThreadsAssumption DEF Owner, Workers, Threads
<1>1. ASSUME UNCHANGED <<work_queue_, nextTask, dispatched, runs>>,
             \A w \in Workers : pc'[w] = "run" <=> pc[w] = "run",
             opc' = "serial" <=> opc = "serial",
             opc' = "gone" => opc = "gone" \/ work_queue_ = <<>>
      PROVE  TaskInv'
  BY <1>1 DEF TaskInv, ExactlyOnce, InOrder, InOnePlace, OneHolder, Held, popped
<1>2. ASSUME NEW w \in Workers,
             Start(w) \/ Wait(w) \/ SpuriousWakeup(w) \/ Relock(w) \/ Drained(w)
                      \/ Exit(w) \/ Return(w)
      PROVE  TaskInv'
  BY <1>1, <1>2 DEF Start, Wait, SpuriousWakeup, Relock, Drained, Exit, Return, TypeOK
<1>3. ASSUME NEW w \in Workers, Dequeue(w) PROVE TaskInv'
  <2>1. nextTask[w] = NoTask
    BY <1>3 DEF Dequeue, TaskInv
  <2>2. ExactlyOnce'
    BY <1>0, <1>3, <2>1, PopKeeps DEF Dequeue, TaskInv
  <2>3. Head(work_queue_) # NoTask
    BY <1>3 DEF Dequeue, TypeOK, NoTask
  <2>4. /\ \A u \in Threads : nextTask'[u] = IF u = w THEN Head(work_queue_) ELSE nextTask[u]
        /\ \A u \in Workers : pc'[u] = IF u = w THEN "run" ELSE pc[u]
        /\ opc' = opc
    BY <1>3 DEF Dequeue, PopFront, TypeOK
  <2>5. opc # "gone"
    BY <1>3 DEF Dequeue, TaskInv
  <2> QED
    BY <1>0, <2>2, <2>3, <2>4, <2>5 DEF TaskInv
<1>4. ASSUME NEW w \in Workers, Run(w) PROVE TaskInv'
  <2>1. nextTask[w] # NoTask
    BY <1>4 DEF Run, TaskInv
  <2>2. ExactlyOnce'
    BY <1>0, <1>4, <2>1, RunKeeps DEF Run, TaskInv
  <2>3. /\ \A u \in Threads : nextTask'[u] = IF u = w THEN NoTask ELSE nextTask[u]
        /\ \A u \in Workers : pc'[u] = IF u = w THEN "relock" ELSE pc[u]
        /\ opc' = opc
    BY <1>4 DEF Run, RunTask, TypeOK
  <2>4. work_queue_' = work_queue_
    BY <1>4 DEF Run
  <2> QED
    BY <1>0, <2>2, <2>3, <2>4 DEF TaskInv
<1>5. CASE CreateThread
  <2>1. \A w \in Workers : pc'[w] = "run" <=> pc[w] = "run"
    BY <1>5 DEF CreateThread, TypeOK, PhaseInv, Workers
  <2> QED
    BY <1>1, <1>5, <2>1 DEF CreateThread
<1>6. CASE CtorLock \/ CtorYield \/ CtorRelock \/ CtorReturn \/ DispatchLock
  BY <1>1, <1>6 DEF CtorLock, CtorYield, CtorRelock, CtorReturn, DispatchLock
<1>7. CASE DispatchPush
  <2>1. ExactlyOnce'
    BY <1>7, PushKeeps DEF TaskInv
  <2>2. \A w \in Workers : pc'[w] = "run" <=> pc[w] = "run"
    BY <1>7 DEF DispatchPush, Signal, AsleepWorkers, TypeOK
  <2> QED
    BY <1>7, <2>1, <2>2 DEF DispatchPush, Verify333, TaskInv
<1>8. CASE DtorLock \/ Join \/ DtorRelock \/ DtorJoined \/ DtorReturn
  BY <1>1, <1>8 DEF DtorLock, Join, DtorRelock, DtorJoined, DtorReturn, Verify333
<1>9. CASE DtorBroadcast
  <2>1. \A w \in Workers : pc'[w] = "run" <=> pc[w] = "run"
    BY <1>9 DEF DtorBroadcast, Broadcast, TypeOK
  <2> QED
    BY <1>1, <1>9, <2>1 DEF DtorBroadcast
<1>10. CASE DrainPop
  <2>1. nextTask[Owner] = NoTask
    BY <1>10 DEF DrainPop, TaskInv
  <2>2. ExactlyOnce'
    BY <1>0, <1>10, <2>1, PopKeeps DEF DrainPop, TaskInv
  <2>3. Head(work_queue_) # NoTask
    BY <1>10 DEF DrainPop, TypeOK, NoTask
  <2>4. /\ \A u \in Threads : nextTask'[u] = IF u = Owner THEN Head(work_queue_) ELSE nextTask[u]
        /\ pc' = pc
        /\ opc' = "serial"
    BY <1>10 DEF DrainPop, PopFront, TypeOK
  <2> QED
    BY <1>0, <2>2, <2>3, <2>4 DEF TaskInv
<1>11. CASE DrainRun
  <2>1. nextTask[Owner] # NoTask
    BY <1>11 DEF DrainRun, TaskInv
  <2>2. ExactlyOnce'
    BY <1>0, <1>11, <2>1, RunKeeps DEF DrainRun, TaskInv
  <2>3. /\ \A u \in Threads : nextTask'[u] = IF u = Owner THEN NoTask ELSE nextTask[u]
        /\ pc' = pc
        /\ opc' = "drain"
    BY <1>11 DEF DrainRun, RunTask, TypeOK
  <2> QED
    BY <1>0, <2>2, <2>3 DEF TaskInv
<1>12. CASE UNCHANGED vars
  BY <1>1, <1>12 DEF vars
<1> QED
  BY <1>2, <1>3, <1>4, <1>5, <1>6, <1>7, <1>8, <1>9, <1>10, <1>11, <1>12
  DEF Next, ThreadLoop, Constructor, Dispatch, Destructor, Stopped

-----------------------------------------------------------------------------
(***************************************************************************)
(* The theorems.                                                           *)
(***************************************************************************)

Inv == ControlInv /\ SignalInv /\ TaskInv

\* The three parts together are an invariant of the pool.
THEOREM Invariance == Spec => []Inv
<1>1. Init => Inv
  BY ControlInit, SignalInit, TaskInit DEF Inv
<1>2. Inv /\ [Next]_vars => Inv'
  BY ControlStep, SignalStep, TaskStep DEF Inv
<1> QED
  BY <1>1, <1>2, PTL DEF Spec

\* Type correctness: in particular the count never leaves 0..NumThreads.
THEOREM TypeCorrect == Spec => []TypeOK
<1>1. Inv => TypeOK
  BY DEF Inv, ControlInv
<1> QED
  BY <1>1, Invariance, PTL

\* No Verify333 of ThreadPool.cc fails in any execution.
THEOREM NeverAborts == Spec => []NoAbort
<1>1. Inv => NoAbort
  BY DEF Inv, ControlInv, PhaseInv, NoAbort
<1> QED
  BY <1>1, Invariance, PTL

\* The constructor returns only when every worker has been born and counted.
THEOREM ConstructorWaitsForAll == Spec => []ReadyWhenConstructed
<1>1. Inv => ReadyWhenConstructed
  BY DEF Inv, ControlInv, PhaseInv, ReadyWhenConstructed, ConstructingPC
<1> QED
  BY <1>1, Invariance, PTL

\* While a worker sleeps, every queued task has a worker on its way to it.
THEOREM SignalsReachWorkers == Spec => []NoLostSignal
<1>1. Inv => NoLostSignal
  BY DEF Inv, SignalInv
<1> QED
  BY <1>1, Invariance, PTL

\* Every dispatched task is in one place, and tasks are taken in order.
THEOREM TasksRunExactlyOnce == Spec => []ExactlyOnce
<1>1. Inv => ExactlyOnce
  BY DEF Inv, TaskInv
<1> QED
  BY <1>1, Invariance, PTL

\* The destructor empties the queue and frees the pool after all workers died.
THEOREM DestructorDrainsAlone == Spec => []DrainsAlone
<1>1. Inv => DrainsAlone
  BY DEF Inv, ControlInv, PhaseInv, DrainsAlone
<1> QED
  BY <1>1, Invariance, PTL

\* The destructor returns with every dispatched task run.
THEOREM DestructorLeavesNothing == Spec => []NothingLeftBehind
<1>1. Inv => NothingLeftBehind
  <2> SUFFICES ASSUME Inv, opc = "gone", NEW t \in Tasks, t <= dispatched
               PROVE  runs[t] = 1
    BY DEF NothingLeftBehind
  <2>1. t <= popped
    <3>1. Len(work_queue_) = 0
      BY DEF Inv, TaskInv
    <3>2. popped = dispatched
      BY <3>1, MaxTasksAssumption DEF popped, Inv, ControlInv, TypeOK
    <3> QED
      BY <3>2
  <2>2. \A u \in Threads : nextTask[u] = NoTask
    <3>1. \A w \in Workers : nextTask[w] = NoTask
      BY DEF Inv, ControlInv, PhaseInv, TaskInv, DrainingPC
    <3>2. nextTask[Owner] = NoTask
      BY DEF Inv, TaskInv
    <3> QED
      BY <3>1, <3>2, NumThreadsAssumption DEF Threads, Workers, Owner
  <2>3. ~Held(t)
    BY <2>2 DEF Held, Tasks, NoTask
  <2> QED
    BY <2>1, <2>3 DEF Inv, TaskInv, ExactlyOnce, InOnePlace
<1> QED
  BY <1>1, Invariance, PTL

-----------------------------------------------------------------------------
(***************************************************************************)
(* The pool implements TaskPool: initial states and steps.                 *)
(***************************************************************************)

Holders == {t \in Threads : nextTask[t] # NoTask}

\* At most as many tasks are active as threads hold one.
LEMMA ActiveBound ==
    ASSUME NEW S \in SUBSET Workers, Holders \subseteq S
    PROVE  IsFiniteSet(ActiveTasks) /\ Cardinality(ActiveTasks) <= Cardinality(S)
<1>1. IsFiniteSet(S) /\ Cardinality(S) \in Nat
  BY WorkerSets, NumThreadsAssumption
<1>2. /\ IsFiniteSet(Holders)
      /\ Cardinality(Holders) <= Cardinality(S)
  BY <1>1, FS_Subset
<1>3. [t \in Holders |-> nextTask[t]] \in Surjection(Holders, ActiveTasks)
  BY DEF Surjection, Holders, ActiveTasks
<1>4. /\ IsFiniteSet(ActiveTasks)
      /\ Cardinality(ActiveTasks) <= Cardinality(Holders)
  BY <1>2, <1>3, FS_Surjection
<1>5. Cardinality(Holders) \in Nat /\ Cardinality(ActiveTasks) \in Nat
  BY <1>2, <1>4, FS_CardinalityType
<1> QED
  BY <1>1, <1>2, <1>4, <1>5

\* Every initial state of the pool is one of TaskPool, and every step of the
\* pool (ThreadPool.cc) is a step of TaskPool or leaves its variables alone.
THEOREM PoolImplementsTaskPool == Spec => Abstract!Spec
<1> USE NumThreadsAssumption, MaxTasksAssumption
<1>1. Init => Abstract!Init
  BY DEF Init, Abstract!Init, ActiveTasks, FinishedTasks, PoolPhase, NoTask
<1>2. Inv /\ [Next]_vars => [Abstract!Next]_(Abstract!vars)
  <2> SUFFICES ASSUME Inv, [Next]_vars PROVE [Abstract!Next]_(Abstract!vars)
    OBVIOUS
  <2> USE DEF Inv, ControlInv, TaskInv
  <2>0. Owner \in Threads /\ Workers \subseteq Threads /\ Owner \notin Workers
    BY DEF Owner, Workers, Threads
  <2>1. ASSUME UNCHANGED <<work_queue_, nextTask, runs, terminate_threads_>>,
               opc' = "gone" <=> opc = "gone"
        PROVE  UNCHANGED Abstract!vars
    BY <2>1 DEF Abstract!vars, ActiveTasks, FinishedTasks, PoolPhase
  <2>2. ASSUME NEW t \in Threads, work_queue_ # <<>>, PopFront(t), nextTask[t] = NoTask,
               UNCHANGED <<runs, terminate_threads_>>, opc # "gone", opc' # "gone",
               IF PoolPhase = "open" THEN Cardinality(ActiveTasks) < NumThreads ELSE ActiveTasks = {}
        PROVE  Abstract!Begin
    <3>1. ActiveTasks' = ActiveTasks \cup {Head(work_queue_)}
      <4>1. Head(work_queue_) # NoTask
        BY <2>2 DEF TypeOK, NoTask
      <4>2. \A u \in Threads : nextTask'[u] = IF u = t THEN Head(work_queue_) ELSE nextTask[u]
        BY <2>2 DEF PopFront, TypeOK
      <4> QED
        BY <2>2, <4>1, <4>2 DEF ActiveTasks
    <3>2. FinishedTasks' = FinishedTasks /\ PoolPhase' = PoolPhase
      BY <2>2 DEF FinishedTasks, PoolPhase
    <3>3. work_queue_' = Tail(work_queue_)
      BY <2>2 DEF PopFront
    <3>4. Abstract!Cardinality(ActiveTasks) = Cardinality(ActiveTasks)
      BY DEF Abstract!Cardinality, Cardinality
    <3> QED
      BY <2>2, <3>1, <3>2, <3>3, <3>4 DEF Abstract!Begin
  <2>3. ASSUME NEW t \in Threads, nextTask[t] # NoTask, RunTask(t),
               UNCHANGED <<work_queue_, terminate_threads_>>, opc # "gone", opc' # "gone"
        PROVE  Abstract!Finish(nextTask[t]) /\ nextTask[t] \in Tasks
    <3>1. nextTask[t] \in Tasks
      BY <2>3 DEF TypeOK, Tasks, NoTask
    <3>2. ActiveTasks' = ActiveTasks \ {nextTask[t]}
      <4>1. \A u \in Threads : nextTask'[u] = IF u = t THEN NoTask ELSE nextTask[u]
        BY <2>3 DEF RunTask, TypeOK
      <4> QED
        BY <2>3, <4>1 DEF ActiveTasks, ExactlyOnce, OneHolder
    <3>3. FinishedTasks' = FinishedTasks \cup {nextTask[t]}
      <4>1. \A s \in Tasks : runs[s] \in Nat /\ runs'[s] = IF s = nextTask[t] THEN runs[s] + 1 ELSE runs[s]
        BY <2>3, <3>1 DEF RunTask, TypeOK
      <4> QED
        BY <3>1, <4>1 DEF FinishedTasks
    <3>4. nextTask[t] \in ActiveTasks /\ PoolPhase' = PoolPhase
      BY <2>3 DEF ActiveTasks, PoolPhase
    <3> QED
      BY <2>3, <3>1, <3>2, <3>3, <3>4 DEF Abstract!Finish
  <2>4. ASSUME NEW w \in Workers, ThreadLoop(w) PROVE [Abstract!Next]_(Abstract!vars)
    <3>1. CASE Dequeue(w)
      <4>1. opc \notin DrainingPC /\ nextTask[w] = NoTask /\ nextTask[Owner] = NoTask
        BY <3>1 DEF Dequeue, PhaseInv, DrainingPC, TerminatingPC
      <4>2. Holders \subseteq Workers \ {w}
        BY <4>1 DEF Holders, Threads, Workers, Owner
      <4>3. Workers \ {w} \in SUBSET Workers /\ Cardinality(Workers \ {w}) = NumThreads - 1
        <5>1. Cardinality(Workers) = NumThreads
          BY FS_Interval DEF Workers
        <5> QED
          BY <5>1, RemoveWorker
      <4>4. Cardinality(ActiveTasks) < NumThreads
        <5>1. IsFiniteSet(ActiveTasks) /\ Cardinality(ActiveTasks) <= NumThreads - 1
          BY <4>2, <4>3, ActiveBound
        <5> QED
          BY <5>1, FS_CardinalityType
      <4>5. PoolPhase = "open"
        BY <3>1, <4>1 DEF Dequeue, DrainingPC, PoolPhase
      <4> QED
        BY <2>0, <2>2, <3>1, <4>1, <4>4, <4>5 DEF Dequeue, DrainingPC, Abstract!Next
    <3>2. CASE Run(w)
      <4>1. opc # "gone" /\ nextTask[w] # NoTask
        BY <3>2 DEF Run, PhaseInv, DrainingPC
      <4> QED
        BY <2>0, <2>3, <3>2, <4>1 DEF Run, Abstract!Next, Abstract!Tasks, Tasks
    <3>3. CASE ~Dequeue(w) /\ ~Run(w)
      BY <2>1, <2>4, <3>3 DEF ThreadLoop, Start, Wait, SpuriousWakeup, Relock, Drained, Exit, Return
    <3> QED
      BY <3>1, <3>2, <3>3
  <2>5. CASE Constructor \/ DispatchLock \/ DtorBroadcast \/ Join \/ DtorRelock \/ DtorJoined
    BY <2>1, <2>5 DEF Constructor, CtorLock, CreateThread, CtorYield, CtorRelock, CtorReturn,
       DispatchLock, DtorBroadcast, Join, DtorRelock, DtorJoined, Verify333
  <2>6. CASE DispatchPush
    <3>1. dispatched + 1 \in Tasks
      BY <2>6 DEF DispatchPush, PhaseInv, TypeOK, Tasks
    <3>2. dispatched + 1 \notin Abstract!Known
      <4>1. \A i \in DOMAIN work_queue_ : work_queue_[i] # dispatched + 1
        BY DEF TypeOK
      <4>2. dispatched + 1 \notin ActiveTasks
        BY DEF ActiveTasks, TypeOK
      <4>3. dispatched + 1 \notin FinishedTasks
        <5>1. dispatched + 1 > popped
          BY DEF popped, TypeOK
        <5> QED
          BY <3>1, <5>1 DEF FinishedTasks, ExactlyOnce, InOnePlace
      <4> QED
        BY <4>1, <4>2, <4>3 DEF Abstract!Known
    <3>3. PoolPhase = "open" /\ PoolPhase' = "open"
      BY <2>6 DEF DispatchPush, Verify333, PoolPhase, PhaseInv, TerminatingPC, DrainingPC
    <3>4. ActiveTasks' = ActiveTasks /\ FinishedTasks' = FinishedTasks
      BY <2>6 DEF DispatchPush, ActiveTasks, FinishedTasks
    <3>5. Abstract!Submit(dispatched + 1)
      BY <2>6, <3>2, <3>3, <3>4 DEF DispatchPush, Abstract!Submit
    <3> QED
      BY <3>1, <3>5 DEF Abstract!Next, Abstract!Tasks, Tasks
  <2>7. CASE DtorLock
    BY <2>7 DEF DtorLock, PhaseInv, TerminatingPC, DrainingPC, PoolPhase, ActiveTasks, FinishedTasks,
       Abstract!Next, Abstract!Close
  <2>8. CASE DrainPop
    <3>1. Holders = {} /\ nextTask[Owner] = NoTask
      BY <2>8 DEF DrainPop, Holders, PhaseInv, DrainingPC, Threads, Workers, Owner
    <3>2. ActiveTasks = {} /\ PoolPhase # "open"
      BY <2>8, <3>1 DEF DrainPop, ActiveTasks, Holders, PoolPhase, PhaseInv, TerminatingPC, DrainingPC
    <3> QED
      BY <2>0, <2>2, <2>8, <3>1, <3>2 DEF DrainPop, Abstract!Next
  <2>9. CASE DrainRun
    <3>1. nextTask[Owner] # NoTask
      BY <2>9 DEF DrainRun
    <3> QED
      BY <2>0, <2>3, <2>9, <3>1 DEF DrainRun, Abstract!Next, Abstract!Tasks, Tasks
  <2>10. CASE DtorReturn
    <3>1. ActiveTasks = {}
      BY <2>10 DEF DtorReturn, ActiveTasks, PhaseInv, DrainingPC, Threads, Workers, Owner
    <3>2. PoolPhase = "closing" /\ PoolPhase' = "closed"
      BY <2>10 DEF DtorReturn, PoolPhase, PhaseInv, TerminatingPC, DrainingPC
    <3>3. ActiveTasks' = ActiveTasks /\ FinishedTasks' = FinishedTasks
      BY <2>10 DEF DtorReturn, ActiveTasks, FinishedTasks
    <3> QED
      BY <2>10, <3>1, <3>2, <3>3 DEF DtorReturn, Abstract!Next, Abstract!Closed
  <2>11. CASE UNCHANGED vars
    BY <2>1, <2>11 DEF vars
  <2> QED
    BY <2>4, <2>5, <2>6, <2>7, <2>8, <2>9, <2>10, <2>11
    DEF Next, Dispatch, Destructor, Stopped
<1> QED
  BY <1>1, <1>2, Invariance, PTL DEF Spec, Abstract!Spec
=============================================================================
