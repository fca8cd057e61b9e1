------------------------------ MODULE TaskPool ------------------------------
(***************************************************************************)
(* What ThreadPool (HalalCloud.Portable.Helpers) promises: a task that is  *)
(* accepted is started once, in the order of acceptance, by one of a fixed *)
(* number of workers; a pool that is stopped accepts no more but finishes  *)
(* what it has accepted.  ThreadPool implements this module, and           *)
(* DownloadManager is built on it.                                         *)
(***************************************************************************)
EXTENDS Naturals, Sequences, FiniteSets

CONSTANTS
  Tasks,      \* the closures handed to the pool
  Capacity    \* how many tasks run at a time

ASSUME CapacityAssumption == Capacity \in Nat

VARIABLES
  queued,     \* tasks accepted and not yet started, in order
  running,    \* tasks a worker is running
  finished,   \* tasks that have returned
  open        \* the pool accepts tasks

poolVars == << queued, running, finished, open >>

Accepted == {queued[i] : i \in DOMAIN queued} \cup running \cup finished

PoolInit ==
  /\ queued = << >>
  /\ running = {}
  /\ finished = {}
  /\ open = TRUE

Submit(task) ==
  /\ open
  /\ task \notin Accepted
  /\ queued' = Append(queued, task)
  /\ UNCHANGED << running, finished, open >>

Start(task) ==
  /\ queued # << >>
  /\ task = Head(queued)
  /\ Cardinality(running) < Capacity
  /\ queued' = Tail(queued)
  /\ running' = running \cup {task}
  /\ UNCHANGED << finished, open >>

Finish(task) ==
  /\ task \in running
  /\ running' = running \ {task}
  /\ finished' = finished \cup {task}
  /\ UNCHANGED << queued, open >>

Close ==
  /\ open
  /\ open' = FALSE
  /\ UNCHANGED << queued, running, finished >>

PoolNext ==
  \/ \E task \in Tasks : Submit(task) \/ Start(task) \/ Finish(task)
  \/ Close

\* What a pool never does, and what it owes besides: the tasks accepted are
\* started and finished.
PoolSafety == PoolInit /\ [][PoolNext]_poolVars

PoolSpec ==
  /\ PoolSafety
  /\ \A task \in Tasks : WF_poolVars(Start(task)) /\ WF_poolVars(Finish(task))
=============================================================================
