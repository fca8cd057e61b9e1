-------------------------- MODULE ThreadPool_proofs --------------------------
(***************************************************************************)
(* Theorems about ThreadPool, for any workers, producers and tasks.        *)
(***************************************************************************)
EXTENDS ThreadPool, FiniteSetTheorems, TLAPS

USE ThreadsAssumption, TasksAssumption

(***************************************************************************)
(* Where each thread may be, and what that says of the shared state.       *)
(***************************************************************************)
Places ==
  /\ \A w \in Workers : pc[w] \in {"lock", "check", "block", "asleep", "run", "left"}
  /\ \A p \in Producers : pc[p] \in {"idle", "lock", "notify"}
  /\ pc[Destroyer] \in {"idle", "notify", "join", "destroyed"}

\* The mutex is a worker's from its lock to its wait or its task; producers
\* and the destructor are done with it in one step.
HoldsMutex == \A w \in Workers : mutex = w <=> pc[w] \in {"check", "block"}

Sleepers == \A w \in Workers : w \in waiting <=> pc[w] = "asleep"

\* A thread has a task in hand exactly while it runs or is about to push it.
HasTask ==
  /\ \A w \in Workers : task[w] # NoTask <=> pc[w] = "run"
  /\ \A p \in Producers : task[p] # NoTask <=> pc[p] = "lock"

\* What the predicate of the wait has found stays so until the worker sleeps,
\* since a push and the stop need the mutex.
BlocksOnNothing == \A w \in Workers : pc[w] = "block" => ~MayGoOn

OpenUntilStopped == running <=> pc[Destroyer] = "idle"

PoolInv ==
  TypeOK /\ Places /\ HoldsMutex /\ Sleepers /\ HasTask /\ BlocksOnNothing /\ OpenUntilStopped

LEMMA InvInit == Init => PoolInv
BY DEF Init, PoolInv, TypeOK, Places, HoldsMutex, Sleepers, HasTask, BlocksOnNothing,
       OpenUntilStopped, MayGoOn, Threads

LEMMA InvStep == PoolInv /\ [Next]_vars => PoolInv'
<1> SUFFICES ASSUME PoolInv, [Next]_vars PROVE PoolInv'
  OBVIOUS
<1> USE DEF PoolInv, TypeOK, Places, HoldsMutex, Sleepers, HasTask, BlocksOnNothing,
            OpenUntilStopped, MayGoOn, Threads, Go
<1>1. ASSUME NEW w \in Workers, WorkerStep(w) \/ WakeSpuriously(w) PROVE PoolInv'
  <2>1. CASE Lock(w)
    BY <2>1 DEF Lock
  <2>2. CASE CheckFalse(w)
    BY <2>2 DEF CheckFalse
  <2>3. CASE Block(w)
    BY <2>3 DEF Block
  <2>4. CASE WakeSpuriously(w)
    BY <2>4 DEF WakeSpuriously
  <2>5. CASE Leave(w)
    BY <2>5 DEF Leave
  <2>6. CASE Take(w)
    <3>1. queue # << >>
      BY <2>6 DEF Take, NothingLeft
    <3>2. Head(queue) \in Tasks /\ Tail(queue) \in Seq(Tasks)
      BY <3>1
    <3> QED
      BY <2>6, <3>2 DEF Take
  <2>7. CASE Run(w)
    BY <2>7 DEF Run
  <2> QED
    BY <1>1, <2>1, <2>2, <2>3, <2>4, <2>5, <2>6, <2>7 DEF WorkerStep
<1>2. ASSUME NEW p \in Producers, NEW k \in Tasks, CallEnqueue(p, k) PROVE PoolInv'
  BY <1>2 DEF CallEnqueue
<1>3. ASSUME NEW p \in Producers, ProducerStep(p) PROVE PoolInv'
  <2>1. CASE LockAndPush(p)
    <3>1. task[p] \in Tasks
      BY <2>1 DEF LockAndPush
    <3>2. Append(queue, task[p]) \in Seq(Tasks)
      BY <3>1
    <3> QED
      BY <2>1, <3>1, <3>2 DEF LockAndPush
  <2>2. CASE EnqueueThrows(p)
    BY <2>2 DEF EnqueueThrows
  <2>3. CASE NotifyOne(p)
    BY <2>3 DEF NotifyOne, Notified
  <2> QED
    BY <1>3, <2>1, <2>2, <2>3 DEF ProducerStep
<1>4. CASE Stop
  BY <1>4 DEF Stop
<1>5. CASE DestroyerStep
  BY <1>5 DEF DestroyerStep, NotifyAll, Join
<1>6. CASE UNCHANGED vars
  BY <1>6 DEF vars
<1> QED
  BY <1>1, <1>2, <1>3, <1>4, <1>5, <1>6 DEF Next

LEMMA InvAlways == Spec => []PoolInv
BY InvInit, InvStep, PTL DEF Spec

\* The pool's state keeps its type.
THEOREM TypeCorrect == Spec => []TypeOK
<1>1. PoolInv => TypeOK
  BY DEF PoolInv
<1> QED
  BY InvAlways, <1>1, PTL

(***************************************************************************)
(* A task in the queue has its notification, and so has the end: the       *)
(* worker that could miss either is between its look at the queue and the  *)
(* flag and its sleep, and there it has the mutex.                         *)
(***************************************************************************)
TaskIsNoticed ==
  queue # << >> /\ Workers # {} /\ waiting = Workers
    => \E p \in Producers : pc[p] = "notify"
EndIsNoticed == ~running /\ waiting # {} => pc[Destroyer] = "notify"

LEMMA TaskStep == PoolInv /\ TaskIsNoticed /\ [Next]_vars => TaskIsNoticed'
<1> SUFFICES ASSUME PoolInv, TaskIsNoticed, [Next]_vars PROVE TaskIsNoticed'
  OBVIOUS
<1> USE DEF PoolInv, TypeOK, TaskIsNoticed, Threads, Go
<1>1. ASSUME NEW w \in Workers, WorkerStep(w) \/ WakeSpuriously(w) PROVE TaskIsNoticed'
  <2>1. CASE Block(w)
    BY <2>1 DEF Block, BlocksOnNothing, MayGoOn
  <2>2. CASE Lock(w) \/ CheckFalse(w) \/ Leave(w) \/ Run(w)
    BY <2>2 DEF Lock, CheckFalse, Leave, Run
  <2>3. CASE Take(w)
    BY <2>3 DEF Take, Sleepers
  <2>4. CASE WakeSpuriously(w)
    BY <2>4 DEF WakeSpuriously
  <2> QED
    BY <1>1, <2>1, <2>2, <2>3, <2>4 DEF WorkerStep
<1>2. ASSUME NEW p \in Producers, NEW k \in Tasks, CallEnqueue(p, k) PROVE TaskIsNoticed'
  BY <1>2 DEF CallEnqueue
<1>3. ASSUME NEW p \in Producers, ProducerStep(p) PROVE TaskIsNoticed'
  <2>1. CASE LockAndPush(p)
    BY <2>1 DEF LockAndPush
  <2>2. CASE EnqueueThrows(p)
    BY <2>2 DEF EnqueueThrows
  <2>3. CASE NotifyOne(p)
    BY <2>3 DEF NotifyOne, Notified
  <2> QED
    BY <1>3, <2>1, <2>2, <2>3 DEF ProducerStep
<1>4. CASE Stop
  BY <1>4 DEF Stop
<1>5. CASE DestroyerStep
  BY <1>5 DEF DestroyerStep, NotifyAll, Join
<1>6. CASE UNCHANGED vars
  BY <1>6 DEF vars
<1> QED
  BY <1>1, <1>2, <1>3, <1>4, <1>5, <1>6 DEF Next

LEMMA EndStep == PoolInv /\ EndIsNoticed /\ [Next]_vars => EndIsNoticed'
<1> SUFFICES ASSUME PoolInv, EndIsNoticed, [Next]_vars PROVE EndIsNoticed'
  OBVIOUS
<1> USE DEF PoolInv, TypeOK, EndIsNoticed, Threads, Go
<1>1. ASSUME NEW w \in Workers, WorkerStep(w) \/ WakeSpuriously(w) PROVE EndIsNoticed'
  <2>1. CASE Block(w)
    BY <2>1 DEF Block, BlocksOnNothing, MayGoOn
  <2>2. CASE Lock(w) \/ CheckFalse(w) \/ Leave(w) \/ Take(w) \/ Run(w) \/ WakeSpuriously(w)
    BY <2>2 DEF Lock, CheckFalse, Leave, Take, Run, WakeSpuriously
  <2> QED
    BY <1>1, <2>1, <2>2 DEF WorkerStep
<1>2. ASSUME NEW p \in Producers,
             ProducerStep(p) \/ \E k \in Tasks : CallEnqueue(p, k)
      PROVE  EndIsNoticed'
  BY <1>2 DEF ProducerStep, CallEnqueue, LockAndPush, EnqueueThrows, NotifyOne, Notified
<1>3. CASE Stop
  BY <1>3 DEF Stop
<1>4. CASE NotifyAll
  BY <1>4 DEF NotifyAll
<1>5. CASE Join
  BY <1>5 DEF Join
<1>6. CASE UNCHANGED vars
  BY <1>6 DEF vars
<1> QED
  BY <1>1, <1>2, <1>3, <1>4, <1>5, <1>6 DEF Next, DestroyerStep

\* However many workers sleep and producers push, and whenever the destructor
\* stops them: a task does not lie in the queue of a pool that is all asleep,
\* and nobody sleeps in a pool that is stopped, with no notification to come.
THEOREM NoWakeupIsLost == Spec => []NoLostWakeup
<1>1. Init => TaskIsNoticed /\ EndIsNoticed
  BY DEF Init, TaskIsNoticed, EndIsNoticed
<1>2. TaskIsNoticed /\ EndIsNoticed => NoLostWakeup
  BY DEF TaskIsNoticed, EndIsNoticed, NoLostWakeup
<1> QED
  BY InvAlways, <1>1, <1>2, TaskStep, EndStep, PTL DEF Spec

(***************************************************************************)
(* The pool implements TaskPool.  A task is at one place at a time: in the *)
(* hands of one thread, at one position of the queue, or done.             *)
(***************************************************************************)
Hands == Workers \cup Producers

OnePlace ==
  /\ \A i, j \in 1 .. Len(queue) : queue[i] = queue[j] => i = j
  /\ \A i \in 1 .. Len(queue) : queue[i] \notin done
  /\ \A i \in 1 .. Len(queue), t \in Hands : queue[i] # task[t]
  /\ \A t, u \in Hands : task[t] # NoTask /\ task[t] = task[u] => t = u
  /\ \A t \in Hands : task[t] \notin done

OnceInv == PoolInv /\ OnePlace

LEMMA OnceInit == Init => OnePlace
BY DEF Init, OnePlace, Hands

LEMMA OnceStep == OnceInv /\ [Next]_vars => OnePlace'
<1> SUFFICES ASSUME OnceInv, [Next]_vars PROVE OnePlace'
  OBVIOUS
<1> USE DEF OnceInv, PoolInv, TypeOK, OnePlace, Hands
<1>1. ASSUME NEW w \in Workers, WorkerStep(w) \/ WakeSpuriously(w) PROVE OnePlace'
  <2>1. CASE Take(w)
    <3>1. queue # << >>
      BY <2>1 DEF Take, MayGoOn, NothingLeft
    <3>2. /\ Head(queue) = queue[1] /\ 1 \in 1 .. Len(queue)
          /\ Len(Tail(queue)) = Len(queue) - 1
          /\ \A i \in 1 .. Len(Tail(queue)) :
               i + 1 \in 1 .. Len(queue) /\ Tail(queue)[i] = queue[i + 1]
      BY <3>1
    <3>3. /\ queue' = Tail(queue) /\ done' = done
          /\ task' = [task EXCEPT ![w] = queue[1]]
      BY <2>1, <3>2 DEF Take
    <3>4. \A i \in 1 .. Len(queue') : i + 1 # 1
      BY <3>3
    <3> QED
      BY <3>2, <3>3, <3>4
  <2>2. CASE Run(w)
    BY <2>2, TasksAssumption DEF Run, HasTask
  <2>3. CASE Lock(w) \/ CheckFalse(w) \/ Block(w) \/ Leave(w) \/ WakeSpuriously(w)
    BY <2>3 DEF Lock, CheckFalse, Block, Leave, WakeSpuriously
  <2> QED
    BY <1>1, <2>1, <2>2, <2>3 DEF WorkerStep
<1>2. ASSUME NEW p \in Producers, NEW k \in Tasks, CallEnqueue(p, k) PROVE OnePlace'
  <2>1. /\ k \notin done
        /\ \A i \in 1 .. Len(queue) : queue[i] # k
        /\ \A t \in Hands : task[t] # k
    BY <1>2 DEF CallEnqueue, Given
  <2> QED
    BY <1>2, <2>1 DEF CallEnqueue
<1>3. ASSUME NEW p \in Producers, ProducerStep(p) PROVE OnePlace'
  <2>1. CASE LockAndPush(p)
    <3>1. task[p] \in Tasks
      BY <2>1 DEF LockAndPush, HasTask
    <3>2. /\ Len(Append(queue, task[p])) = Len(queue) + 1
          /\ \A i \in 1 .. Len(queue) + 1 :
               Append(queue, task[p])[i] = IF i = Len(queue) + 1 THEN task[p] ELSE queue[i]
      BY <3>1
    <3>3. \A i \in 1 .. Len(queue) + 1 : i = Len(queue) + 1 \/ i \in 1 .. Len(queue)
      OBVIOUS
    <3> QED
      BY <2>1, <3>1, <3>2, <3>3 DEF LockAndPush
  <2>2. CASE EnqueueThrows(p)
    BY <2>2 DEF EnqueueThrows
  <2>3. CASE NotifyOne(p)
    BY <2>3 DEF NotifyOne
  <2> QED
    BY <1>3, <2>1, <2>2, <2>3 DEF ProducerStep
<1>4. CASE Stop \/ DestroyerStep
  BY <1>4 DEF Stop, DestroyerStep, NotifyAll, Join
<1>5. CASE UNCHANGED vars
  BY <1>5 DEF vars
<1> QED
  BY <1>1, <1>2, <1>3, <1>4, <1>5 DEF Next

-----------------------------------------------------------------------------
\* The workers that run a task, and the tasks they run.
Busy == {w \in Workers : pc[w] = "run"}
InRun == {task[w] : w \in Busy}

\* A worker that is free leaves room for a task.
LEMMA FreeWorkerIsRoom ==
  ASSUME NEW w \in Workers, pc[w] # "run"
  PROVE  Cardinality(InRun) < Cardinality(Workers)
<1>1. IsFiniteSet(Busy) /\ Cardinality(Busy) <= Cardinality(Workers \ {w})
  <2>1. Busy \subseteq Workers \ {w}
    BY DEF Busy
  <2>2. IsFiniteSet(Workers \ {w})
    BY FS_RemoveElement
  <2> QED
    BY <2>1, <2>2, FS_Subset
<1>2. IsFiniteSet(InRun) /\ Cardinality(InRun) <= Cardinality(Busy)
  <2> DEFINE takes == [x \in Busy |-> task[x]]
  <2>1. takes \in Surjection(Busy, InRun)
    BY DEF Surjection, InRun
  <2> QED
    BY <1>1, <2>1, FS_Surjection
<1>3. Cardinality(Workers \ {w}) = Cardinality(Workers) - 1
  BY FS_RemoveElement
<1>4. /\ Cardinality(Workers) \in Nat /\ Cardinality(Busy) \in Nat
      /\ Cardinality(InRun) \in Nat
  BY <1>1, <1>2, FS_CardinalityType
<1> QED
  BY <1>1, <1>2, <1>3, <1>4

LEMMA SameCardinality == \A S : Abstract!Cardinality(S) = Cardinality(S)
BY DEF Abstract!Cardinality, Cardinality, Abstract!IsFiniteSet, IsFiniteSet

LEMMA StepRefines ==
  OnceInv /\ OnceInv' /\ [Next]_vars => [Abstract!PoolNext]_(Abstract!poolVars)
<1> SUFFICES ASSUME OnceInv, OnceInv', [Next]_vars
             PROVE  [Abstract!PoolNext]_(Abstract!poolVars)
  OBVIOUS
<1> DEFINE Stutters == queue' = queue /\ InRun' = InRun /\ done' = done /\ running' = running
<1>0. Stutters => UNCHANGED Abstract!poolVars
  BY DEF Abstract!poolVars, InRun, Busy
<1> USE DEF OnceInv, PoolInv, TypeOK, Threads, Go
<1>1. ASSUME NEW w \in Workers, WorkerStep(w) \/ WakeSpuriously(w)
      PROVE  Abstract!PoolNext \/ Stutters
  <2>1. CASE Take(w)
    <3>1. queue # << >> /\ Head(queue) \in Tasks
      BY <2>1 DEF Take, MayGoOn, NothingLeft
    <3>2. Cardinality(InRun) < Cardinality(Workers)
      BY <2>1, FreeWorkerIsRoom DEF Take
    <3>3. InRun' = InRun \cup {Head(queue)}
      <4>1. Busy' = Busy \cup {w} /\ w \notin Busy
        BY <2>1 DEF Take, Busy
      <4>2. \A x \in Busy : task'[x] = task[x]
        BY <2>1, <4>1 DEF Take, Busy
      <4>3. task'[w] = Head(queue)
        BY <2>1 DEF Take
      <4> QED
        BY <4>1, <4>2, <4>3 DEF InRun
    <3>4. queue' = Tail(queue) /\ done' = done /\ running' = running
      BY <2>1 DEF Take
    <3>5. PICK k \in Tasks : k = Head(queue)
      BY <3>1
    <3>6. Abstract!Start(k)
      BY <3>1, <3>2, <3>3, <3>4, <3>5, SameCardinality DEF Abstract!Start, InRun, Busy
    <3> QED
      BY <3>6 DEF Abstract!PoolNext
  <2>2. CASE Run(w)
    <3>1. w \in Busy /\ task[w] \in Tasks
      BY <2>2 DEF Run, Busy, HasTask
    <3>2. InRun' = InRun \ {task[w]}
      <4>1. Busy' = Busy \ {w}
        BY <2>2 DEF Run, Busy
      <4>2. \A x \in Busy \ {w} : task'[x] = task[x] /\ task[x] # task[w]
        BY <2>2, <3>1 DEF Run, Busy, HasTask, OnePlace, Hands
      <4> QED
        BY <4>1, <4>2 DEF InRun
    <3>3. done' = done \cup {task[w]} /\ queue' = queue /\ running' = running
      BY <2>2 DEF Run
    <3>4. PICK k \in Tasks : k = task[w]
      BY <3>1
    <3>5. Abstract!Finish(k)
      BY <3>1, <3>2, <3>3, <3>4 DEF Abstract!Finish, InRun, Busy
    <3> QED
      BY <3>5 DEF Abstract!PoolNext
  <2>3. CASE Lock(w) \/ CheckFalse(w) \/ Block(w) \/ Leave(w)
    BY <2>3 DEF Lock, CheckFalse, Block, Leave, InRun, Busy
  <2>4. CASE WakeSpuriously(w)
    BY <2>4 DEF WakeSpuriously, InRun, Busy, Sleepers
  <2> QED
    BY <1>1, <2>1, <2>2, <2>3, <2>4 DEF WorkerStep
<1>2. ASSUME NEW p \in Producers, NEW k \in Tasks, CallEnqueue(p, k) PROVE Stutters
  BY <1>2 DEF CallEnqueue, InRun, Busy
<1>3. ASSUME NEW p \in Producers, LockAndPush(p) PROVE Abstract!PoolNext
  <2>1. task[p] \in Tasks
    BY <1>3 DEF LockAndPush, HasTask
  <2>2. task[p] \notin Abstract!Accepted
    <3>1. DOMAIN queue = 1 .. Len(queue)
      OBVIOUS
    <3>2. \A w \in Workers : task[w] # task[p]
      BY <2>1 DEF OnePlace, Hands
    <3>3. task[p] \notin {queue[i] : i \in DOMAIN queue} /\ task[p] \notin done
      BY <2>1, <3>1 DEF OnePlace, Hands
    <3> QED
      BY <3>2, <3>3 DEF Abstract!Accepted
  <2>3. /\ queue' = Append(queue, task[p])
        /\ InRun' = InRun /\ done' = done /\ running /\ running' = running
    BY <1>3 DEF LockAndPush, InRun, Busy
  <2>4. Abstract!Submit(task[p])
    BY <2>2, <2>3 DEF Abstract!Submit, InRun, Busy
  <2> QED
    BY <2>1, <2>4 DEF Abstract!PoolNext
<1>4. ASSUME NEW p \in Producers, EnqueueThrows(p) PROVE Stutters
  BY <1>4 DEF EnqueueThrows, InRun, Busy
<1>5. ASSUME NEW p \in Producers, NotifyOne(p) PROVE Stutters
  BY <1>5 DEF NotifyOne, Notified, InRun, Busy, Sleepers
<1>6. ASSUME Stop PROVE Abstract!PoolNext
  BY <1>6 DEF Stop, OpenUntilStopped, Abstract!PoolNext, Abstract!Close
<1>7. ASSUME DestroyerStep PROVE Stutters
  BY <1>7 DEF DestroyerStep, NotifyAll, Join, InRun, Busy, Sleepers
<1>8. ASSUME UNCHANGED vars PROVE Stutters
  BY <1>8 DEF vars, InRun, Busy
<1> QED
  BY <1>0, <1>1, <1>2, <1>3, <1>4, <1>5, <1>6, <1>7, <1>8 DEF Next, ProducerStep

\* The pool does what TaskPool says, whatever the wakeups: a task is started
\* once, in the order of acceptance, by a worker that is free, and none is
\* accepted after the stop.
THEOREM ImplementsPoolSafety == Spec => Abstract!PoolSafety
<1>1. Init => Abstract!PoolInit
  BY DEF Init, Abstract!PoolInit, Threads
<1>2. Spec => []OnceInv
  <2>1. Init => OnceInv
    BY InvInit, OnceInit DEF OnceInv
  <2>2. OnceInv /\ [Next]_vars => OnceInv'
    BY InvStep, OnceStep DEF OnceInv
  <2> QED
    BY <2>1, <2>2, PTL DEF Spec
<1> QED
  BY <1>1, <1>2, StepRefines, PTL DEF Spec, Abstract!PoolSafety
=============================================================================
