--------------------------- MODULE DownloadManager ---------------------------
(***************************************************************************)
(* DownloadManager (HalalCloud.Portable.Helpers.cpp): a table of download  *)
(* tasks keyed by a caller's id, one closure per task on the thread pool,  *)
(* and callers that wait on a condition variable for a task to be ready or *)
(* to have failed.  The closure knows its task by the id alone.  The pool  *)
(* is TaskPool, which ThreadPool implements.                               *)
(*                                                                         *)
(* Critical sections of m_Mutex make no remote call and are single steps.  *)
(***************************************************************************)
EXTENDS TaskPool

CONSTANTS
  Clients,      \* threads that use the manager
  Ids, NoId,    \* task ids; none
  Destroys,     \* the manager is destroyed at some time
  MaxSlips      \* bound: calls that are not in order (see below)

ASSUME UseAssumption == Destroys \in BOOLEAN /\ MaxSlips \in Nat
ASSUME JobsAssumption == Tasks \subseteq Nat \ {0}

\* The jobs are the closures, numbered as Add makes them; no job is 0.
Jobs == Tasks
NoJob == 0
Settled == {"Ready", "Failed"}

VARIABLES
  tasks,        \* m_Tasks: id -> status, with the job that Add made for it
  jobId,        \* the id each closure has captured
  jobPc,        \* where each closure is
  reads,        \* the task whose source and target each closure has copied
  outcome,      \* how each closure's download ended
  pc,           \* where each client is
  on,           \* the id each client is concerned with
  blocked,      \* the clients blocked on m_Condition
  phase,        \* whether the manager lives
  slips,        \* history: the calls that were not in order
  cancelled     \* history: jobs whose task the destructor marked as failed

vars ==
  << poolVars, tasks, jobId, jobPc, reads, outcome, pc, on, blocked, phase, slips, cancelled >>

Present(id) == id \in DOMAIN tasks
Task(status, job) == [status |-> status, job |-> job]

\* m_Tasks[id].Status = status
SetStatus(id, status) ==
  [i \in DOMAIN tasks |-> IF i = id THEN [tasks[i] EXCEPT !.status = status] ELSE tasks[i]]

\* operator[] makes a default task for an id that is not in the table.
Looked(id) ==
  [i \in DOMAIN tasks \cup {id} |-> IF Present(i) THEN tasks[i] ELSE Task("Waiting", NoJob)]

Init ==
  /\ PoolInit
  /\ tasks = [i \in {} |-> Task("Waiting", NoJob)]
  /\ jobId = << >>
  /\ jobPc = [j \in Jobs |-> "none"]
  /\ reads = [j \in Jobs |-> NoJob]
  /\ outcome = [j \in Jobs |-> "none"]
  /\ pc = [c \in Clients |-> "idle"]
  /\ on = [c \in Clients |-> NoId]
  /\ blocked = {}
  /\ phase = "alive"
  /\ slips = 0
  /\ cancelled = {}

-----------------------------------------------------------------------------
(* The clients' calls.  A call that throws changes nothing.  The calls are *)
(* in order when a client waits only for what it added, removes it only    *)
(* after its wait has returned, and nobody clears the table.               *)

Orderly == slips = 0

InOrder(b) ==
  /\ b \/ slips < MaxSlips
  /\ slips' = IF b THEN slips ELSE slips + 1

Add(c, id) ==
  LET j == Len(jobId) + 1 IN
  /\ phase = "alive"
  /\ pc[c] = "idle"
  /\ ~Present(id)
  /\ j \in Jobs
  /\ tasks' = [i \in DOMAIN tasks \cup {id} |-> IF i = id THEN Task("Waiting", j) ELSE tasks[i]]
  /\ jobId' = Append(jobId, id)
  /\ jobPc' = [jobPc EXCEPT ![j] = "queued"]
  /\ Submit(j)
  /\ pc' = [pc EXCEPT ![c] = "added"]
  /\ on' = [on EXCEPT ![c] = id]
  /\ UNCHANGED << reads, outcome, blocked, phase, slips, cancelled >>

\* The predicate of Wait; evaluating it makes the entry if there is none.
Predicate(id) == Looked(id)[id].status \in Settled

\* The wait evaluates its predicate with the mutex held, and returns or blocks.
EvaluateWait(c, id) ==
  /\ tasks' = Looked(id)
  /\ pc' = [pc EXCEPT ![c] = IF Predicate(id) THEN "returned" ELSE "blocked"]
  /\ blocked' = IF Predicate(id) THEN blocked \ {c} ELSE blocked \cup {c}

Wait(c, id) ==
  /\ phase = "alive"
  /\ pc[c] \in {"idle", "added"}
  /\ InOrder(pc[c] = "added" /\ on[c] = id)
  /\ Present(id)
  /\ EvaluateWait(c, id)
  /\ on' = [on EXCEPT ![c] = id]
  /\ UNCHANGED << poolVars, jobId, jobPc, reads, outcome, phase, cancelled >>

\* A client that was notified, or woke up for no reason, looks again.
WaitAgain(c) ==
  /\ pc[c] = "woken"
  /\ phase # "destroyed"
  /\ EvaluateWait(c, on[c])
  /\ UNCHANGED << poolVars, jobId, jobPc, reads, outcome, on, phase, slips, cancelled >>

\* The destructor waits for the closures and for no client: one that has
\* been woken and gets here after it takes a mutex and reads a table that are
\* gone.  What comes of that is undefined; the client gets no answer.
WokenTooLate(c) ==
  /\ pc[c] = "woken"
  /\ phase = "destroyed"
  /\ pc' = [pc EXCEPT ![c] = "lost"]
  /\ UNCHANGED << poolVars, tasks, jobId, jobPc, reads, outcome, on, blocked, phase, slips, cancelled >>

Resume(c) == WaitAgain(c) \/ WokenTooLate(c)

WakeSpuriously(c) ==
  /\ c \in blocked
  /\ blocked' = blocked \ {c}
  /\ pc' = [pc EXCEPT ![c] = "woken"]
  /\ UNCHANGED << poolVars, tasks, jobId, jobPc, reads, outcome, on, phase, slips, cancelled >>

Remove(c, id) ==
  /\ phase = "alive"
  /\ pc[c] \in {"idle", "added", "returned"}
  /\ InOrder(pc[c] = "returned" /\ on[c] = id)
  /\ Present(id)
  /\ tasks' = [i \in DOMAIN tasks \ {id} |-> tasks[i]]
  /\ pc' = [pc EXCEPT ![c] = "idle"]
  /\ on' = [on EXCEPT ![c] = NoId]
  /\ UNCHANGED << poolVars, jobId, jobPc, reads, outcome, blocked, phase, cancelled >>

Clear(c) ==
  /\ InOrder(FALSE)
  /\ phase = "alive"
  /\ pc[c] \in {"idle", "added", "returned"}
  /\ tasks' = [i \in {} |-> Task("Waiting", NoJob)]
  /\ pc' = [pc EXCEPT ![c] = "idle"]
  /\ on' = [on EXCEPT ![c] = NoId]
  /\ UNCHANGED << poolVars, jobId, jobPc, reads, outcome, blocked, phase, cancelled >>

-----------------------------------------------------------------------------
(* A closure on a worker of the pool.                                      *)

StartJob(j) ==
  /\ Start(j)
  /\ jobPc' = [jobPc EXCEPT ![j] = "begin"]
  /\ UNCHANGED << tasks, jobId, reads, outcome, pc, on, blocked, phase, slips, cancelled >>

EndJob(j) == Finish(j) /\ jobPc' = [jobPc EXCEPT ![j] = "ended"]

\* The task has been removed: the closure returns.
FindsNoTask(j) ==
  /\ jobPc[j] \in {"begin", "store"}
  /\ ~Present(jobId[j])
  /\ EndJob(j)
  /\ UNCHANGED << tasks, jobId, reads, outcome, pc, on, blocked, phase, slips, cancelled >>

MarkRunning(j) ==
  /\ jobPc[j] = "begin"
  /\ Present(jobId[j])
  /\ tasks' = SetStatus(jobId[j], "Running")
  /\ reads' = [reads EXCEPT ![j] = tasks[jobId[j]].job]
  /\ jobPc' = [jobPc EXCEPT ![j] = "download"]
  /\ UNCHANGED << poolVars, jobId, outcome, pc, on, blocked, phase, slips, cancelled >>

\* Seeded fault: a download that fails ends the closure.
DownloadDropping(j) ==
  /\ jobPc[j] = "download"
  /\ \/ /\ outcome' = [outcome EXCEPT ![j] = "ok"]
        /\ jobPc' = [jobPc EXCEPT ![j] = "store"]
        /\ UNCHANGED poolVars
     \/ outcome' = [outcome EXCEPT ![j] = "failed"] /\ EndJob(j)
  /\ UNCHANGED << tasks, jobId, reads, pc, on, blocked, phase, slips, cancelled >>

\* HccDownloadFile returns.
Download(j) ==
  /\ jobPc[j] = "download"
  /\ \E o \in {"ok", "failed"} : outcome' = [outcome EXCEPT ![j] = o]
  /\ jobPc' = [jobPc EXCEPT ![j] = "store"]
  /\ UNCHANGED << poolVars, tasks, jobId, reads, pc, on, blocked, phase, slips, cancelled >>

\* Seeded fault: every download is taken for a success.
ReadyAnyway(j) == "Ready"

StatusOf(j) == IF outcome[j] = "ok" THEN "Ready" ELSE "Failed"

StoreStatus(j) ==
  /\ jobPc[j] = "store"
  /\ Present(jobId[j])
  /\ tasks' = SetStatus(jobId[j], StatusOf(j))
  /\ jobPc' = [jobPc EXCEPT ![j] = "notify"]
  /\ UNCHANGED << poolVars, jobId, reads, outcome, pc, on, blocked, phase, slips, cancelled >>

\* Seeded fault: the waiters are taken off the list and left where they are.
WakeNone == blocked' = {} /\ UNCHANGED pc

WakeAll ==
  /\ blocked' = {}
  /\ pc' = [c \in Clients |-> IF c \in blocked THEN "woken" ELSE pc[c]]

\* Seeded fault: one waiting client is notified instead of all.
NotifyOne(j) ==
  /\ jobPc[j] = "notify"
  /\ IF blocked = {} THEN WakeAll
     ELSE \E c \in blocked : blocked' = blocked \ {c} /\ pc' = [pc EXCEPT ![c] = "woken"]
  /\ EndJob(j)
  /\ UNCHANGED << tasks, jobId, reads, outcome, on, phase, slips, cancelled >>

NotifyAll(j) ==
  /\ jobPc[j] = "notify"
  /\ WakeAll
  /\ EndJob(j)
  /\ UNCHANGED << tasks, jobId, reads, outcome, on, phase, slips, cancelled >>

-----------------------------------------------------------------------------
(* ~DownloadManager, with clients at most blocked in Wait, and after it    *)
(* the destructor of the pool, the member declared last.                   *)

MarkFailed ==
  /\ Destroys
  /\ phase = "alive"
  /\ tasks' = [i \in DOMAIN tasks |-> IF tasks[i].status = "Waiting"
                                      THEN [tasks[i] EXCEPT !.status = "Failed"] ELSE tasks[i]]
  /\ cancelled' = {tasks[i].job : i \in {k \in DOMAIN tasks : tasks[k].status = "Waiting"}}
  /\ phase' = "notify"
  /\ UNCHANGED << poolVars, jobId, jobPc, reads, outcome, pc, on, blocked, slips >>

NotifyAndClosePool ==
  /\ phase = "notify"
  /\ WakeAll
  /\ Close
  /\ phase' = "join"
  /\ UNCHANGED << tasks, jobId, jobPc, reads, outcome, on, slips, cancelled >>

JoinPool ==
  /\ phase = "join"
  /\ queued = << >> /\ running = {}
  /\ phase' = "destroyed"
  /\ UNCHANGED << poolVars, tasks, jobId, jobPc, reads, outcome, pc, on, blocked, slips, cancelled >>

-----------------------------------------------------------------------------
Client(c) ==
  \/ \E id \in Ids : Add(c, id) \/ Wait(c, id) \/ Remove(c, id)
  \/ Clear(c)
  \/ WakeSpuriously(c)

Job(j) ==
  StartJob(j) \/ FindsNoTask(j) \/ MarkRunning(j) \/ Download(j) \/ StoreStatus(j) \/ NotifyAll(j)

Destructor == NotifyAndClosePool \/ JoinPool

Next ==
  \/ \E c \in Clients : Client(c) \/ Resume(c)
  \/ \E j \in Jobs : Job(j)
  \/ MarkFailed
  \/ Destructor

Spec == Init /\ [][Next]_vars

\* The pool runs what it accepted (TaskPool), downloads return, and a client
\* that was woken goes on; nobody need call anything.
FairSpec ==
  /\ Spec
  /\ \A j \in Jobs : WF_vars(Job(j))
  /\ \A c \in Clients : WF_vars(Resume(c))
  /\ WF_vars(Destructor)

-----------------------------------------------------------------------------

\* What the table, its entries and the positions in the code range over.
Statuses == {"Waiting", "Running"} \cup Settled
Entries == [status : Statuses, job : Jobs \cup {NoJob}]
IsTable(t) == DOMAIN t \subseteq Ids /\ \A i \in DOMAIN t : t[i] \in Entries
JobPoints == {"none", "queued", "begin", "download", "store", "notify", "ended"}
ClientPoints == {"idle", "added", "blocked", "woken", "returned", "lost"}

\* The table holds tasks, the condition variable's list is that of the clients
\* blocked on it, and closures and clients are at points of their code.
TypeOK ==
  /\ IsTable(tasks)
  /\ jobId \in Seq(Ids)
  /\ jobPc \in [Jobs -> JobPoints]
  /\ reads \in [Jobs -> Jobs \cup {NoJob}]
  /\ outcome \in [Jobs -> {"none", "ok", "failed"}]
  /\ pc \in [Clients -> ClientPoints]
  /\ on \in [Clients -> Ids \cup {NoId}]
  /\ blocked = {c \in Clients : pc[c] = "blocked"}
  /\ slips \in 0 .. MaxSlips
  /\ phase \in {"alive", "notify", "join", "destroyed"}
  /\ cancelled \subseteq Jobs \cup {NoJob}

\* A task that is shown as running is being worked on: whatever is removed,
\* added again or cleared in between, some closure of that id has yet to
\* store its status.
RunningIsWorkedOn ==
  \A i \in DOMAIN tasks : tasks[i].status = "Running" =>
    \E j \in running : jobId[j] = i /\ jobPc[j] \in {"download", "store"}

\* As long as calls are in order, a task is ready only when the file it names
\* has been downloaded: by a closure that read its source and target, and
\* succeeded.
ReadyMeansDownloaded ==
  Orderly => \A i \in DOMAIN tasks : tasks[i].status = "Ready" =>
               \E j \in Jobs : outcome[j] = "ok" /\ reads[j] = tasks[i].job /\ reads[j] # NoJob

\* As long as calls are in order, the destructor leaves no client blocked on
\* the condition variable it destroys: each has been woken, by the end of its
\* closure or by the destructor.  It need not have left Wait (WokenTooLate).
NobodyBlockedAtEnd == Orderly /\ phase = "destroyed" => blocked = {}

\* "Cancel all waiting tasks via marking them as failed"
\* (HalalCloud.Portable.Helpers.cpp:88): none of them is downloaded any more.
CancelledNeverDownloaded ==
  \A j \in cancelled \cap Jobs : outcome[j] = "none" /\ jobPc[j] # "download"

\* A client that waits for a task it added gets its answer, as long as calls
\* are in order: only a manager that is destroyed before the client has its
\* mutex again gives none, and even then the client is not left asleep.
WaitReturns ==
  \A c \in Clients :
    pc[c] = "blocked" ~> \/ pc[c] = "returned"
                         \/ pc[c] = "lost" /\ phase = "destroyed"
                         \/ ~Orderly
=============================================================================
