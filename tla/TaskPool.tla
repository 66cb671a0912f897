------------------------------ MODULE TaskPool ------------------------------
(***************************************************************************)
(* What hw4/ThreadPool.h promises its users: a dispatched task is run once,*)
(* tasks are started in the order of their dispatch, at most Limit of them *)
(* at a time, and a pool that has been closed has run them all.  Threads,  *)
(* the lock and the condition variable do not appear.                      *)
(***************************************************************************)
EXTENDS Integers, Sequences, FiniteSets

CONSTANTS MaxTasks,   \* bound: how many tasks are submitted
          Limit       \* how many tasks may run at once

Tasks == 1..MaxTasks

VARIABLES pending,    \* the submitted tasks that no thread has started
          active,     \* the tasks being run
          finished,   \* the tasks that were run
          phase       \* open, closing or closed

vars == <<pending, active, finished, phase>>

Known == {pending[i] : i \in DOMAIN pending} \cup active \cup finished

Init == pending = <<>> /\ active = {} /\ finished = {} /\ phase = "open"

Submit(t) ==
    /\ phase = "open"
    /\ t \notin Known
    /\ pending' = Append(pending, t)
    /\ UNCHANGED <<active, finished, phase>>

\* While the pool is open up to Limit tasks run at once; what is left when it
\* is closed runs one by one.
Begin ==
    /\ pending # <<>>
    /\ IF phase = "open" THEN Cardinality(active) < Limit ELSE active = {}
    /\ active' = active \cup {Head(pending)}
    /\ pending' = Tail(pending)
    /\ UNCHANGED <<finished, phase>>

Finish(t) ==
    /\ t \in active
    /\ active' = active \ {t}
    /\ finished' = finished \cup {t}
    /\ UNCHANGED <<pending, phase>>

Close ==
    /\ phase = "open"
    /\ phase' = "closing"
    /\ UNCHANGED <<pending, active, finished>>

Closed ==
    /\ phase = "closing"
    /\ pending = <<>>
    /\ active = {}
    /\ phase' = "closed"
    /\ UNCHANGED <<pending, active, finished>>

Next ==
    \/ \E t \in Tasks : Submit(t) \/ Finish(t)
    \/ Begin \/ Close \/ Closed

Spec == Init /\ [][Next]_vars

\* A task that can be started is started, a started task ends, and a pool that
\* is being closed with nothing left to do is closed.
FairSpec ==
    /\ Spec
    /\ WF_vars(Begin) /\ WF_vars(Closed)
    /\ \A t \in Tasks : WF_vars(Finish(t))
=============================================================================
