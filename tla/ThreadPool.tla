----------------------------- MODULE ThreadPool -----------------------------
(***************************************************************************)
(* ThreadPool (HalalCloud.Portable.Helpers.cpp): workers that wait on a    *)
(* condition variable for the queue to fill, producers that push under the *)
(* mutex and notify one waiter after releasing it, and a destructor that   *)
(* lets the workers empty the queue and joins them.  A waiter may also     *)
(* wake up spuriously; a notification finds nobody if nobody waits.        *)
(***************************************************************************)
EXTENDS Naturals, Sequences, FiniteSets

CONSTANTS
  Workers,     \* the threads the constructor starts
  Producers,   \* the threads that call Enqueue
  Destroyer,   \* the thread that runs the destructor
  Nobody,      \* nobody holds the mutex
  NoTask,      \* a worker has no task
  Tasks        \* the closures to run

ASSUME ThreadsAssumption ==
  /\ Workers \cap Producers = {}
  /\ Destroyer \notin Workers \cup Producers
  /\ Nobody \notin Workers \cup Producers \cup {Destroyer}
ASSUME TasksAssumption == NoTask \notin Tasks /\ IsFiniteSet(Workers)

VARIABLES
  running,     \* m_Running
  queue,       \* m_TaskQueue
  mutex,       \* who holds m_TaskQueueMutex
  waiting,     \* the workers blocked on m_TaskQueueCondition
  pc,          \* where each thread is
  task,        \* the task each worker took or each producer enqueues
  done         \* history: the tasks that have returned

vars == << running, queue, mutex, waiting, pc, task, done >>

Threads == Workers \cup Producers \cup {Destroyer}
Go(t, to) == pc' = [pc EXCEPT ![t] = to]

Init ==
  /\ running = TRUE
  /\ queue = << >>
  /\ mutex = Nobody
  /\ waiting = {}
  /\ pc = [t \in Threads |-> IF t \in Workers THEN "lock" ELSE "idle"]
  /\ task = [t \in Workers \cup Producers |-> NoTask]
  /\ done = {}

-----------------------------------------------------------------------------
(* The worker's loop.                                                      *)

Lock(w) ==
  /\ pc[w] = "lock"
  /\ mutex = Nobody
  /\ mutex' = w
  /\ Go(w, "check")
  /\ UNCHANGED << running, queue, waiting, task, done >>

\* The predicate of the wait.
MayGoOn == ~running \/ queue # << >>

\* Seeded fault: a stopped pool's workers leave whatever is in the queue.
LeavesWork == ~running

\* The pool is stopped and there is nothing left to do.
NothingLeft == ~running /\ queue = << >>

\* The predicate is evaluated with the mutex held ...
CheckFalse(w) ==
  /\ pc[w] = "check"
  /\ ~MayGoOn
  /\ Go(w, "block")
  /\ UNCHANGED << running, queue, mutex, waiting, task, done >>

\* ... and wait gives the mutex up and blocks in one step.
Block(w) ==
  /\ pc[w] = "block"
  /\ waiting' = waiting \cup {w}
  /\ mutex' = Nobody
  /\ Go(w, "asleep")
  /\ UNCHANGED << running, queue, task, done >>

WakeSpuriously(w) ==
  /\ w \in waiting
  /\ waiting' = waiting \ {w}
  /\ Go(w, "lock")
  /\ UNCHANGED << running, queue, mutex, task, done >>

Leave(w) ==
  /\ pc[w] = "check"
  /\ NothingLeft
  /\ mutex' = Nobody
  /\ Go(w, "left")
  /\ UNCHANGED << running, queue, waiting, task, done >>

Take(w) ==
  /\ pc[w] = "check"
  /\ MayGoOn /\ ~NothingLeft
  /\ task' = [task EXCEPT ![w] = Head(queue)]
  /\ queue' = Tail(queue)
  /\ mutex' = Nobody
  /\ Go(w, "run")
  /\ UNCHANGED << running, waiting, done >>

\* The task returns (a task that throws ends the process).
Run(w) ==
  /\ pc[w] = "run"
  /\ done' = done \cup {task[w]}
  /\ task' = [task EXCEPT ![w] = NoTask]
  /\ Go(w, "lock")
  /\ UNCHANGED << running, queue, mutex, waiting >>

-----------------------------------------------------------------------------
(* Enqueue.                                                                *)

Given == done \cup {queue[i] : i \in DOMAIN queue} \cup {task[t] : t \in DOMAIN task}

CallEnqueue(p, k) ==
  /\ pc[p] = "idle"
  /\ pc[Destroyer] # "destroyed"
  /\ k \notin Given
  /\ task' = [task EXCEPT ![p] = k]
  /\ Go(p, "lock")
  /\ UNCHANGED << running, queue, mutex, waiting, done >>

\* Seeded fault: the closure is pushed after it has been moved away.
LockAndPushMoved(p) ==
  /\ p \in Producers
  /\ pc[p] = "lock"
  /\ mutex = Nobody
  /\ running
  /\ task' = [task EXCEPT ![p] = NoTask]
  /\ queue' = Append(queue, task'[p])
  /\ Go(p, "notify")
  /\ UNCHANGED << running, mutex, waiting, done >>

LockAndPush(p) ==
  /\ p \in Producers
  /\ pc[p] = "lock"
  /\ mutex = Nobody
  /\ running
  /\ queue' = Append(queue, task[p])
  /\ task' = [task EXCEPT ![p] = NoTask]
  /\ Go(p, "notify")
  /\ UNCHANGED << running, mutex, waiting, done >>

\* A stopped pool throws std::runtime_error.
EnqueueThrows(p) ==
  /\ p \in Producers
  /\ pc[p] = "lock"
  /\ mutex = Nobody
  /\ ~running
  /\ task' = [task EXCEPT ![p] = NoTask]
  /\ Go(p, "idle")
  /\ UNCHANGED << running, queue, mutex, waiting, done >>

Notified(p) ==
  IF waiting = {}
  THEN Go(p, "idle") /\ UNCHANGED waiting
  ELSE \E w \in waiting :
         /\ waiting' = waiting \ {w}
         /\ pc' = [pc EXCEPT ![p] = "idle", ![w] = "lock"]

\* Seeded fault: only a push to an empty queue notifies.
NotifyIfFirst(p) ==
  /\ p \in Producers
  /\ pc[p] = "notify"
  /\ IF Len(queue) = 1 THEN Notified(p) ELSE Go(p, "idle") /\ UNCHANGED waiting
  /\ UNCHANGED << running, queue, mutex, task, done >>

\* notify_one, after the mutex has been released.
NotifyOne(p) ==
  /\ p \in Producers
  /\ pc[p] = "notify"
  /\ Notified(p)
  /\ UNCHANGED << running, queue, mutex, task, done >>

-----------------------------------------------------------------------------
(* ~ThreadPool.  Whoever is still in Enqueue finds the pool open or         *)
(* stopped.                                                                *)

\* Seeded fault: the flag is set without the mutex.
StopUnlocked ==
  /\ pc[Destroyer] = "idle"
  /\ running' = FALSE
  /\ Go(Destroyer, "notify")
  /\ UNCHANGED << queue, mutex, waiting, task, done >>

Stop ==
  /\ pc[Destroyer] = "idle"
  /\ mutex = Nobody
  /\ running' = FALSE
  /\ Go(Destroyer, "notify")
  /\ UNCHANGED << queue, mutex, waiting, task, done >>

\* Seeded fault: one worker is notified instead of all.
NotifyAllOne ==
  /\ pc[Destroyer] = "notify"
  /\ \E w \in Workers :
       /\ waiting' = waiting \ {w}
       /\ pc' = [t \in Threads |-> IF t = Destroyer THEN "join"
                                   ELSE IF t = w /\ w \in waiting THEN "lock" ELSE pc[t]]
  /\ UNCHANGED << running, queue, mutex, task, done >>

NotifyAll ==
  /\ pc[Destroyer] = "notify"
  /\ waiting' = {}
  /\ pc' = [t \in Threads |-> IF t = Destroyer THEN "join"
                              ELSE IF t \in waiting THEN "lock" ELSE pc[t]]
  /\ UNCHANGED << running, queue, mutex, task, done >>

Join ==
  /\ pc[Destroyer] = "join"
  /\ \A w \in Workers : pc[w] = "left"
  /\ Go(Destroyer, "destroyed")
  /\ UNCHANGED << running, queue, mutex, waiting, task, done >>

-----------------------------------------------------------------------------
WorkerStep(w) ==
  \/ Lock(w) \/ CheckFalse(w) \/ Block(w) \/ Leave(w) \/ Take(w) \/ Run(w)
ProducerStep(p) == LockAndPush(p) \/ EnqueueThrows(p) \/ NotifyOne(p)
DestroyerStep == NotifyAll \/ Join

Next ==
  \/ \E w \in Workers : WorkerStep(w) \/ WakeSpuriously(w)
  \/ \E p \in Producers : ProducerStep(p) \/ \E k \in Tasks : CallEnqueue(p, k)
  \/ Stop
  \/ DestroyerStep

\* The operating system runs every thread, and a mutex that is free again and
\* again is got at last; nobody need call Enqueue or the destructor.
Fairness ==
  /\ \A w \in Workers : SF_vars(WorkerStep(w))
  /\ \A p \in Producers : SF_vars(ProducerStep(p))
  /\ WF_vars(DestroyerStep)

Spec == Init /\ [][Next]_vars
FairSpec == Spec /\ Fairness

-----------------------------------------------------------------------------
TypeOK ==
  /\ running \in BOOLEAN
  /\ queue \in Seq(Tasks)
  /\ mutex \in Workers \cup {Nobody}
  /\ waiting \subseteq Workers
  /\ pc \in [Threads -> {"idle", "lock", "check", "block", "asleep", "run", "left",
                         "notify", "join", "destroyed"}]
  /\ task \in [Workers \cup Producers -> Tasks \cup {NoTask}]
  /\ done \subseteq Tasks

\* No wakeup is lost, of those the pushes give and of the one the stop gives:
\* a task lies in the queue while every worker sleeps only as long as a
\* notification for it is still to come, and a worker sleeps in a stopped pool
\* only as long as the destructor's notification is.
NoLostWakeup ==
  /\ queue # << >> /\ Workers # {} /\ waiting = Workers
       => \E p \in Producers : pc[p] = "notify"
  /\ ~running /\ waiting # {} => pc[Destroyer] = "notify"

\* The destructor returns: it finds every worker it must wake, also one that
\* has read the flag before it was set and is about to sleep; the workers
\* finish what was accepted and leave.
DestructorReturns == pc[Destroyer] = "notify" ~> pc[Destroyer] = "destroyed"

\* The pool as its users see it.
Abstract == INSTANCE TaskPool WITH
  Capacity <- Cardinality(Workers),
  queued <- queue,
  running <- {task[w] : w \in {x \in Workers : pc[x] = "run"}},
  finished <- done,
  open <- running

\* The pool implements TaskPool: a task is started once, in order, by a free
\* worker, and every accepted task is started and finished, stop or no stop.
ImplementsTaskPool == Abstract!PoolSpec
=============================================================================
