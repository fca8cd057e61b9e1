------------------------ MODULE DownloadManager_proofs ------------------------
(***************************************************************************)
(* Theorems about DownloadManager, for any clients, ids and closures.      *)
(***************************************************************************)
EXTENDS DownloadManager, TLAPS

USE JobsAssumption, UseAssumption

Created == 1 .. Len(jobId)
AtWork == {"begin", "download", "store", "notify"}
Pending == {"queued", "begin", "download", "store"}
Stored == {"notify", "ended"}

(***************************************************************************)
(* The closures and the pool: a closure is in the queue, or on a worker,   *)
(* or done, as its place says.                                             *)
(***************************************************************************)
InPool ==
  /\ queued \in Seq(Jobs)
  /\ running \subseteq Jobs
  /\ Created \subseteq Jobs
  /\ \A j \in Jobs : jobPc[j] # "none" <=> j \in Created
  /\ \A j \in Jobs : jobPc[j] \in AtWork <=> j \in running
  /\ \A k \in DOMAIN queued : jobPc[queued[k]] = "queued"
  /\ \A k, m \in DOMAIN queued : queued[k] = queued[m] => k = m
  /\ \A j \in Jobs : jobPc[j] = "queued" => \E k \in DOMAIN queued : queued[k] = j

\* A client that has added something has an id.
Named == \A c \in Clients : pc[c] # "idle" => on[c] \in Ids

(***************************************************************************)
(* As long as calls are in order, a table's entry and its closure belong   *)
(* to each other, and a client to the entry it added.                      *)
(***************************************************************************)
Engaged(c) == pc[c] # "idle"

\* The entries and their closures.
OwnEntries ==
  /\ \A i \in DOMAIN tasks : tasks[i].job \in Created /\ jobId[tasks[i].job] = i
  /\ \A j \in Created : jobPc[j] \in Pending => Present(jobId[j]) /\ tasks[jobId[j]].job = j
  /\ \A j \in Created : jobPc[j] \in {"download", "store"} \cup Stored => reads[j] = j

\* What an entry's status says of its closure.
StatusTells ==
  \A i \in DOMAIN tasks :
    /\ tasks[i].status = "Ready" =>
         jobPc[tasks[i].job] \in Stored /\ outcome[tasks[i].job] = "ok"
    /\ tasks[i].status = "Failed" /\ phase = "alive" => jobPc[tasks[i].job] \in Stored
    /\ jobPc[tasks[i].job] \in Stored => tasks[i].status \in Settled

\* The clients and their entries.
OwnTasks ==
  /\ \A c \in Clients : Engaged(c) => Present(on[c])
  /\ \A c, d \in Clients : Engaged(c) /\ Engaged(d) /\ on[c] = on[d] => c = d
  /\ \A c \in Clients : pc[c] = "returned" /\ phase = "alive" =>
       jobPc[tasks[on[c]].job] \in Stored
  /\ \A c \in Clients : pc[c] = "blocked" =>
       \/ tasks[on[c]].status \notin Settled
       \/ jobPc[tasks[on[c]].job] = "notify"
       \/ phase = "notify"

InOrderInv == Orderly => OwnEntries /\ StatusTells /\ OwnTasks

PoolIsDone == phase = "destroyed" => queued = << >> /\ running = {}

ManagerInv == TypeOK /\ InPool /\ Named /\ RunningIsWorkedOn /\ PoolIsDone /\ InOrderInv

-----------------------------------------------------------------------------
(***************************************************************************)
(* The operations on the table.                                            *)
(***************************************************************************)
LEMMA NamedTypes ==
  /\ \A j \in Jobs \cup {NoJob} : Task("Waiting", j) \in Entries
  /\ "Running" \in Statuses /\ "Ready" \in Statuses /\ "Failed" \in Statuses
BY DEF Settled, Entries, Statuses, Task

LEMMA SetStatusOnly ==
  ASSUME TypeOK, NEW id, NEW status \in Statuses
  PROVE  /\ DOMAIN SetStatus(id, status) = DOMAIN tasks
         /\ \A i \in DOMAIN tasks :
              /\ SetStatus(id, status)[i] \in Entries
              /\ SetStatus(id, status)[i].job = tasks[i].job
              /\ i = id => SetStatus(id, status)[i].status = status
              /\ i # id => SetStatus(id, status)[i] = tasks[i]
<1>1. \A i \in DOMAIN tasks : tasks[i] \in Entries
  BY DEF TypeOK, IsTable
<1>2. \A i \in DOMAIN tasks : [tasks[i] EXCEPT !.status = status] \in Entries
  BY <1>1 DEF Entries
<1> QED
  BY <1>1, <1>2 DEF SetStatus, Entries

LEMMA MarkFailedOnly ==
  ASSUME TypeOK, MarkFailed
  PROVE  /\ DOMAIN tasks' = DOMAIN tasks
         /\ \A i \in DOMAIN tasks :
              /\ tasks'[i].job = tasks[i].job
              /\ tasks[i].status = "Waiting" => tasks'[i].status = "Failed"
              /\ tasks[i].status # "Waiting" => tasks'[i].status = tasks[i].status
<1>1. tasks' = [i \in DOMAIN tasks |-> IF tasks[i].status = "Waiting"
                                       THEN [tasks[i] EXCEPT !.status = "Failed"] ELSE tasks[i]]
  BY DEF MarkFailed
<1>2. \A i \in DOMAIN tasks : tasks[i] \in Entries
  BY DEF TypeOK, IsTable
<1>3. \A i \in DOMAIN tasks : LET t == [tasks[i] EXCEPT !.status = "Failed"] IN
        t.status = "Failed" /\ t.job = tasks[i].job
  BY <1>2 DEF Entries
<1> QED
  BY <1>1, <1>3

LEMMA LookedAdds ==
  ASSUME NEW id
  PROVE  /\ DOMAIN Looked(id) = DOMAIN tasks \cup {id}
         /\ \A i \in DOMAIN tasks : Looked(id)[i] = tasks[i]
         /\ ~Present(id) => Looked(id)[id] = Task("Waiting", NoJob)
BY DEF Looked, Present

LEMMA PredicateIs ==
  ASSUME NEW id, Present(id) PROVE Predicate(id) <=> tasks[id].status \in Settled
BY LookedAdds DEF Predicate, Present

LEMMA NamedPoints ==
  /\ {"none", "queued", "begin", "download", "store", "notify", "ended"} = JobPoints
  /\ {"idle", "added", "blocked", "woken", "returned", "lost"} = ClientPoints
BY DEF JobPoints, ClientPoints

LEMMA AppendIds ==
  ASSUME NEW s \in Seq(Ids), NEW id \in Ids
  PROVE  /\ Append(s, id) \in Seq(Ids) /\ Len(Append(s, id)) = Len(s) + 1 /\ Len(s) \in Nat
         /\ Append(s, id)[Len(s) + 1] = id
         /\ \A k \in 1 .. Len(s) : Append(s, id)[k] = s[k]
OBVIOUS

LEMMA SlipsCount ==
  ASSUME NEW b \in BOOLEAN, slips \in 0 .. MaxSlips, InOrder(b)
  PROVE  slips' \in 0 .. MaxSlips /\ (slips' = 0 => b /\ slips = 0)
BY DEF InOrder

-----------------------------------------------------------------------------
LEMMA TypeInit == Init => TypeOK
<1> SUFFICES ASSUME Init PROVE TypeOK
  OBVIOUS
<1>1. IsTable(tasks) /\ jobPc \in [Jobs -> JobPoints] /\ jobId \in Seq(Ids)
  BY NamedPoints DEF Init, IsTable
<1>2. /\ reads \in [Jobs -> Jobs \cup {NoJob}] /\ outcome \in [Jobs -> {"none", "ok", "failed"}]
      /\ slips \in 0 .. MaxSlips
  BY DEF Init
<1>3. /\ pc \in [Clients -> ClientPoints]
      /\ on \in [Clients -> Ids \cup {NoId}]
      /\ blocked = {c \in Clients : pc[c] = "blocked"}
  BY NamedPoints DEF Init
<1> QED
  BY <1>1, <1>2, <1>3 DEF Init, TypeOK

\* The clients that were blocked are woken.
LEMMA WakeAllTyped ==
  ASSUME TypeOK, WakeAll
  PROVE  /\ pc' \in [Clients -> ClientPoints]
         /\ blocked' = {c \in Clients : pc'[c] = "blocked"} /\ blocked' = {}
         /\ \A c \in Clients : pc'[c] = IF pc[c] = "blocked" THEN "woken" ELSE pc[c]
BY NamedPoints DEF WakeAll, TypeOK

LEMMA WaitTyped ==
  ASSUME TypeOK, NEW c \in Clients, NEW id \in Ids, EvaluateWait(c, id)
  PROVE  /\ IsTable(tasks')
         /\ pc' \in [Clients -> ClientPoints]
         /\ blocked' = {d \in Clients : pc'[d] = "blocked"}
<1>1. IsTable(tasks')
  <2>1. tasks' = Looked(id) /\ Task("Waiting", NoJob) \in Entries
    BY NamedTypes DEF EvaluateWait
  <2>2. \A i \in DOMAIN tasks : tasks[i] \in Entries
    BY DEF TypeOK, IsTable
  <2>3. \A i \in DOMAIN Looked(id) : Looked(id)[i] \in Entries
    BY <2>1, <2>2, LookedAdds DEF Present
  <2>4. DOMAIN Looked(id) \subseteq Ids
    <3>1. DOMAIN tasks \subseteq Ids
      BY DEF TypeOK, IsTable
    <3>2. DOMAIN Looked(id) = DOMAIN tasks \cup {id}
      BY LookedAdds
    <3> QED
      BY <3>1, <3>2, Zenon
  <2> QED
    BY <2>1, <2>3, <2>4 DEF IsTable
<1>2. CASE Predicate(id)
  BY <1>1, <1>2, NamedPoints DEF EvaluateWait, TypeOK
<1>3. CASE ~Predicate(id)
  BY <1>1, <1>3, NamedPoints DEF EvaluateWait, TypeOK
<1> QED
  BY <1>2, <1>3

LEMMA TypeStep == TypeOK /\ InPool /\ Named /\ [Next]_vars => TypeOK'
<1> SUFFICES ASSUME TypeOK, InPool, Named, [Next]_vars PROVE TypeOK'
  OBVIOUS
<1>1. ASSUME NEW c \in Clients, NEW id \in Ids, Add(c, id) PROVE TypeOK'
  <2>1. Len(jobId) + 1 \in Jobs /\ Task("Waiting", Len(jobId) + 1) \in Entries
    BY <1>1, NamedTypes DEF Add
  <2>2. IsTable(tasks')
    BY <1>1, <2>1 DEF Add, IsTable, TypeOK
  <2>3. jobId' \in Seq(Ids)
    BY <1>1, AppendIds DEF Add, TypeOK
  <2>4. jobPc' \in [Jobs -> JobPoints]
    BY <1>1, NamedPoints DEF Add, TypeOK
  <2>5. /\ pc' \in [Clients -> ClientPoints] /\ on' \in [Clients -> Ids \cup {NoId}]
        /\ blocked' = {d \in Clients : pc'[d] = "blocked"}
    BY <1>1, NamedPoints DEF Add, TypeOK
  <2> QED
    BY <1>1, <2>2, <2>3, <2>4, <2>5 DEF Add, TypeOK
<1>2. ASSUME NEW c \in Clients, NEW id \in Ids, Wait(c, id) PROVE TypeOK'
  <2>1. slips' \in 0 .. MaxSlips
    BY <1>2, SlipsCount DEF Wait, TypeOK
  <2>2. on' \in [Clients -> Ids \cup {NoId}]
    BY <1>2 DEF Wait, TypeOK
  <2> QED
    BY <1>2, <2>1, <2>2, WaitTyped DEF Wait, TypeOK
<1>3. ASSUME NEW c \in Clients, WaitAgain(c) PROVE TypeOK'
  <2>1. on[c] \in Ids
    BY <1>3 DEF WaitAgain, Named
  <2> QED
    BY <1>3, <2>1, WaitTyped DEF WaitAgain, TypeOK
<1>4. ASSUME NEW c \in Clients, WakeSpuriously(c) \/ WokenTooLate(c) PROVE TypeOK'
  <2>1. /\ pc' \in [Clients -> ClientPoints]
        /\ blocked' = {d \in Clients : pc'[d] = "blocked"}
    BY <1>4, NamedPoints DEF WakeSpuriously, WokenTooLate, TypeOK
  <2> QED
    BY <1>4, <2>1 DEF WakeSpuriously, WokenTooLate, TypeOK
<1>5. ASSUME NEW c \in Clients, (\E id \in Ids : Remove(c, id)) \/ Clear(c) PROVE TypeOK'
  <2>1. slips' \in 0 .. MaxSlips
    BY <1>5, SlipsCount DEF Remove, Clear, TypeOK
  <2>2. IsTable(tasks')
    BY <1>5 DEF Remove, Clear, IsTable, TypeOK
  <2>3. on' \in [Clients -> Ids \cup {NoId}]
    BY <1>5 DEF Remove, Clear, TypeOK
  <2>4. /\ pc' \in [Clients -> ClientPoints]
        /\ blocked' = {d \in Clients : pc'[d] = "blocked"}
    BY <1>5, NamedPoints DEF Remove, Clear, TypeOK
  <2> QED
    BY <1>5, <2>1, <2>2, <2>3, <2>4 DEF Remove, Clear, TypeOK
<1>6. ASSUME NEW j \in Jobs, StartJob(j) \/ FindsNoTask(j) PROVE TypeOK'
  <2>1. jobPc' \in [Jobs -> JobPoints]
    BY <1>6, NamedPoints DEF StartJob, FindsNoTask, EndJob, TypeOK
  <2> QED
    BY <1>6, <2>1 DEF StartJob, FindsNoTask, TypeOK
<1>7. ASSUME NEW j \in Jobs, MarkRunning(j) PROVE TypeOK'
  <2>1. IsTable(tasks')
    BY <1>7, SetStatusOnly, NamedTypes DEF MarkRunning, IsTable, TypeOK
  <2>2. tasks[jobId[j]].job \in Jobs \cup {NoJob}
    BY <1>7 DEF MarkRunning, Present, IsTable, Entries, TypeOK
  <2>3. jobPc' \in [Jobs -> JobPoints]
    BY <1>7, NamedPoints DEF MarkRunning, TypeOK
  <2> QED
    BY <1>7, <2>1, <2>2, <2>3 DEF MarkRunning, TypeOK
<1>8. ASSUME NEW j \in Jobs, Download(j) PROVE TypeOK'
  <2>1. jobPc' \in [Jobs -> JobPoints] /\ outcome' \in [Jobs -> {"none", "ok", "failed"}]
    BY <1>8, NamedPoints DEF Download, TypeOK
  <2> QED
    BY <1>8, <2>1 DEF Download, TypeOK
<1>9. ASSUME NEW j \in Jobs, StoreStatus(j) PROVE TypeOK'
  <2>1. StatusOf(j) \in Statuses
    BY NamedTypes DEF StatusOf
  <2>2. IsTable(tasks')
    BY <1>9, <2>1, SetStatusOnly DEF StoreStatus, IsTable, TypeOK
  <2>3. jobPc' \in [Jobs -> JobPoints]
    BY <1>9, NamedPoints DEF StoreStatus, TypeOK
  <2> QED
    BY <1>9, <2>2, <2>3 DEF StoreStatus, TypeOK
<1>10. ASSUME NEW j \in Jobs, NotifyAll(j) PROVE TypeOK'
  <2>1. jobPc' \in [Jobs -> JobPoints]
    BY <1>10, NamedPoints DEF NotifyAll, EndJob, TypeOK
  <2> QED
    BY <1>10, <2>1, WakeAllTyped DEF NotifyAll, TypeOK
<1>11. ASSUME MarkFailed PROVE TypeOK'
  <2>1. \A i \in DOMAIN tasks : [tasks[i] EXCEPT !.status = "Failed"] \in Entries
    BY NamedTypes DEF IsTable, Entries, TypeOK
  <2>2. IsTable(tasks')
    BY <1>11, <2>1 DEF MarkFailed, IsTable, TypeOK
  <2>3. cancelled' \subseteq Jobs \cup {NoJob}
    BY <1>11 DEF MarkFailed, IsTable, Entries, TypeOK
  <2> QED
    BY <1>11, <2>2, <2>3 DEF MarkFailed, TypeOK
<1>12. ASSUME NotifyAndClosePool PROVE TypeOK'
  BY <1>12, WakeAllTyped DEF NotifyAndClosePool, TypeOK
<1>13. ASSUME JoinPool PROVE TypeOK'
  BY <1>13 DEF JoinPool, TypeOK
<1>14. ASSUME UNCHANGED vars PROVE TypeOK'
  <2>1. /\ tasks' = tasks /\ jobId' = jobId /\ jobPc' = jobPc /\ reads' = reads
        /\ outcome' = outcome /\ pc' = pc /\ on' = on /\ blocked' = blocked
        /\ phase' = phase /\ slips' = slips /\ cancelled' = cancelled
    BY <1>14 DEF vars
  <2> QED
    BY <2>1, Zenon DEF TypeOK
<1> QED
  BY <1>1, <1>2, <1>3, <1>4, <1>5, <1>6, <1>7, <1>8, <1>9, <1>10, <1>11, <1>12, <1>13, <1>14
     DEF Next, Client, Resume, Job, Destructor

-----------------------------------------------------------------------------
(***************************************************************************)
(* The closures and the pool.                                              *)
(***************************************************************************)
LEMMA HeadAndTail ==
  ASSUME NEW S, NEW s \in Seq(S), s # << >>
  PROVE  /\ Len(s) \in Nat \ {0} /\ DOMAIN s = 1 .. Len(s) /\ Head(s) = s[1]
         /\ Tail(s) \in Seq(S) /\ DOMAIN Tail(s) = 1 .. Len(s) - 1
         /\ \A k \in 1 .. Len(s) - 1 : Tail(s)[k] = s[k + 1]
OBVIOUS

LEMMA AppendOne ==
  ASSUME NEW S, NEW s \in Seq(S), NEW x \in S
  PROVE  /\ Append(s, x) \in Seq(S) /\ Len(s) \in Nat /\ DOMAIN s = 1 .. Len(s)
         /\ DOMAIN Append(s, x) = 1 .. Len(s) + 1
         /\ Append(s, x)[Len(s) + 1] = x
         /\ \A k \in 1 .. Len(s) : Append(s, x)[k] = s[k]
OBVIOUS

LEMMA InPoolInit == Init => InPool
BY DEF Init, PoolInit, InPool, Created, AtWork

LEMMA InPoolStays ==
  ASSUME InPool, UNCHANGED << queued, running, jobId, jobPc >> PROVE InPool'
BY DEF InPool, Created

\* A closure on a worker goes on.
LEMMA InPoolWorks ==
  ASSUME TypeOK, InPool, NEW j \in Jobs, jobPc[j] \in AtWork, NEW to \in AtWork,
         jobPc' = [jobPc EXCEPT ![j] = to], UNCHANGED << queued, running, jobId >>
  PROVE  InPool'
<1>1. \A k \in Jobs : jobPc'[k] = IF k = j THEN to ELSE jobPc[k]
  BY DEF TypeOK
<1>2. \A k \in DOMAIN queued : queued[k] \in Jobs
  BY DEF InPool
<1> QED
  BY <1>1, <1>2 DEF InPool, Created, AtWork

LEMMA InPoolEnds ==
  ASSUME TypeOK, InPool, NEW j \in Jobs, EndJob(j), jobId' = jobId PROVE InPool'
<1>1. \A k \in Jobs : jobPc'[k] = IF k = j THEN "ended" ELSE jobPc[k]
  BY DEF TypeOK, EndJob
<1>2. \A k \in DOMAIN queued : queued[k] \in Jobs
  BY DEF InPool
<1>3. j \in running /\ running' = running \ {j} /\ queued' = queued
  BY DEF EndJob, Finish
<1> QED
  BY <1>1, <1>2, <1>3 DEF InPool, Created, AtWork

LEMMA InPoolStarts ==
  ASSUME TypeOK, InPool, NEW j \in Jobs, StartJob(j) PROVE InPool'
<1>1. \A k \in Jobs : jobPc'[k] = IF k = j THEN "begin" ELSE jobPc[k]
  BY DEF TypeOK, StartJob
<1>2. /\ queued # << >> /\ j = Head(queued) /\ queued' = Tail(queued)
      /\ running' = running \cup {j} /\ jobId' = jobId
  BY DEF StartJob, Start
<1>3. queued \in Seq(Jobs) /\ queued # << >>
  BY <1>2 DEF InPool
<1>4. /\ Len(queued) \in Nat \ {0} /\ DOMAIN queued = 1 .. Len(queued) /\ j = queued[1]
      /\ queued' \in Seq(Jobs) /\ DOMAIN queued' = 1 .. Len(queued) - 1
      /\ \A k \in 1 .. Len(queued) - 1 : queued'[k] = queued[k + 1]
  BY <1>2, <1>3, HeadAndTail
<1>5. \A k \in DOMAIN queued' :
        k + 1 \in DOMAIN queued /\ queued'[k] = queued[k + 1] /\ queued[k + 1] # j
  BY <1>4 DEF InPool
<1>6. \A k \in DOMAIN queued' : jobPc'[queued'[k]] = "queued"
  BY <1>1, <1>4, <1>5 DEF InPool
<1>7. \A k, m \in DOMAIN queued' : queued'[k] = queued'[m] => k = m
  BY <1>4, <1>5 DEF InPool
<1>8. \A i \in Jobs : jobPc'[i] = "queued" => \E k \in DOMAIN queued' : queued'[k] = i
  <2> SUFFICES ASSUME NEW i \in Jobs, jobPc'[i] = "queued"
               PROVE  \E k \in DOMAIN queued' : queued'[k] = i
    OBVIOUS
  <2>1. i # j /\ jobPc[i] = "queued"
    BY <1>1
  <2>2. PICK k \in DOMAIN queued : queued[k] = i
    BY <2>1 DEF InPool
  <2>3. k # 1 /\ k - 1 \in DOMAIN queued' /\ (k - 1) + 1 = k
    BY <1>4, <2>1, <2>2
  <2> QED
    BY <1>5, <2>2, <2>3
<1>9. jobPc[j] = "queued"
  BY <1>4 DEF InPool
<1> QED
  BY <1>1, <1>2, <1>4, <1>6, <1>7, <1>8, <1>9 DEF InPool, Created, AtWork

LEMMA InPoolAdds ==
  ASSUME TypeOK, InPool, NEW c \in Clients, NEW id \in Ids, Add(c, id) PROVE InPool'
<1> DEFINE j == Len(jobId) + 1
<1>1. /\ j \in Jobs /\ Len(jobId) \in Nat /\ j \notin Created
      /\ jobId' \in Seq(Ids) /\ Len(jobId') = j
  BY AppendIds DEF Add, TypeOK, Created
<1>2. (Created)' = Created \cup {j}
  BY <1>1 DEF Created
<1>3. \A k \in Jobs : jobPc'[k] = IF k = j THEN "queued" ELSE jobPc[k]
  BY DEF TypeOK, Add
<1>4. queued' = Append(queued, j) /\ running' = running
  BY DEF Add, Submit
<1>5. queued \in Seq(Jobs) /\ jobPc[j] = "none"
  BY <1>1 DEF InPool
<1>6. /\ queued' \in Seq(Jobs) /\ Len(queued) \in Nat /\ DOMAIN queued = 1 .. Len(queued)
      /\ DOMAIN queued' = 1 .. Len(queued) + 1 /\ queued'[Len(queued) + 1] = j
      /\ \A k \in 1 .. Len(queued) : queued'[k] = queued[k]
  BY <1>1, <1>4, <1>5, AppendOne
<1>7. \A k \in DOMAIN queued : queued[k] \in Jobs /\ queued[k] # j
  BY <1>5 DEF InPool
<1>8. \A k \in DOMAIN queued' : k \in DOMAIN queued \/ k = Len(queued) + 1
  BY <1>6
<1>9. \A k \in DOMAIN queued' : jobPc'[queued'[k]] = "queued"
  BY <1>1, <1>3, <1>6, <1>7, <1>8 DEF InPool
<1>10. \A k, m \in DOMAIN queued' : queued'[k] = queued'[m] => k = m
  BY <1>6, <1>7, <1>8 DEF InPool
<1>11. \A i \in Jobs : jobPc'[i] = "queued" => \E k \in DOMAIN queued' : queued'[k] = i
  BY <1>3, <1>6 DEF InPool
<1> HIDE DEF j
<1>12. (Created)' \subseteq Jobs
  BY <1>1, <1>2 DEF InPool
<1>13. \A i \in Jobs : jobPc'[i] # "none" <=> i \in (Created)'
  BY <1>2, <1>3 DEF InPool
<1>14. \A i \in Jobs : jobPc'[i] \in AtWork <=> i \in running'
  <2>1. "queued" \notin AtWork /\ "none" \notin AtWork
    BY DEF AtWork
  <2>2. j \notin running
    BY <1>1, <1>5, <2>1 DEF InPool
  <2> QED
    BY <1>3, <1>4, <2>1, <2>2 DEF InPool
<1>15. running' \subseteq Jobs
  BY <1>4 DEF InPool
<1> QED
  BY <1>6, <1>9, <1>10, <1>11, <1>12, <1>13, <1>14, <1>15 DEF InPool

LEMMA InPoolStep == TypeOK /\ InPool /\ [Next]_vars => InPool'
<1> SUFFICES ASSUME TypeOK, InPool, [Next]_vars PROVE InPool'
  OBVIOUS
<1>1. ASSUME NEW c \in Clients,
             \/ \E id \in Ids : Wait(c, id) \/ Remove(c, id)
             \/ Clear(c) \/ WakeSpuriously(c) \/ Resume(c)
      PROVE  InPool'
  BY <1>1, InPoolStays
     DEF Wait, Remove, Clear, WakeSpuriously, Resume, WaitAgain, WokenTooLate, poolVars
<1>2. ASSUME MarkFailed \/ NotifyAndClosePool \/ JoinPool PROVE InPool'
  BY <1>2, InPoolStays DEF MarkFailed, NotifyAndClosePool, Close, JoinPool, poolVars
<1>3. ASSUME NEW j \in Jobs, FindsNoTask(j) \/ NotifyAll(j) PROVE InPool'
  BY <1>3, InPoolEnds DEF FindsNoTask, NotifyAll
<1>4. ASSUME NEW j \in Jobs, MarkRunning(j) \/ Download(j) \/ StoreStatus(j) PROVE InPool'
  <2>1. PICK to \in AtWork : jobPc' = [jobPc EXCEPT ![j] = to]
    BY <1>4 DEF MarkRunning, Download, StoreStatus, AtWork
  <2> QED
    BY <1>4, <2>1, InPoolWorks DEF MarkRunning, Download, StoreStatus, AtWork, poolVars
<1>5. ASSUME UNCHANGED vars PROVE InPool'
  BY <1>5, InPoolStays DEF vars, poolVars
<1> QED
  BY <1>1, <1>2, <1>3, <1>4, <1>5, InPoolStarts, InPoolAdds
     DEF Next, Client, Job, Destructor

-----------------------------------------------------------------------------
(***************************************************************************)
(* A task that is shown as running is being worked on.                     *)
(***************************************************************************)
\* Nobody who works on a task is disturbed by entries that come or go.
LEMMA RunningStays ==
  ASSUME RunningIsWorkedOn,
         \A i \in DOMAIN tasks' :
           tasks'[i].status = "Running" => i \in DOMAIN tasks /\ tasks[i].status = "Running",
         UNCHANGED << running, jobId, jobPc >>
  PROVE  RunningIsWorkedOn'
BY DEF RunningIsWorkedOn

LEMMA RunningStep ==
  TypeOK /\ InPool /\ RunningIsWorkedOn /\ [Next]_vars => RunningIsWorkedOn'
<1> SUFFICES ASSUME TypeOK, InPool, RunningIsWorkedOn, [Next]_vars PROVE RunningIsWorkedOn'
  OBVIOUS
<1>1. ASSUME NEW c \in Clients, NEW id, EvaluateWait(c, id), UNCHANGED << running, jobId, jobPc >>
      PROVE  RunningIsWorkedOn'
  <2>1. \A i \in DOMAIN tasks' :
          tasks'[i].status = "Running" => i \in DOMAIN tasks /\ tasks[i].status = "Running"
    <3>1. tasks' = Looked(id) /\ Task("Waiting", NoJob).status = "Waiting"
      BY <1>1 DEF EvaluateWait, Task
    <3> SUFFICES ASSUME NEW i \in DOMAIN Looked(id), Looked(id)[i].status = "Running"
                 PROVE  i \in DOMAIN tasks /\ tasks[i].status = "Running"
      BY <3>1
    <3>2. CASE i \in DOMAIN tasks
      BY <3>2, LookedAdds
    <3>3. CASE i \notin DOMAIN tasks
      <4>1. i = id /\ ~Present(id)
        BY <3>3, LookedAdds DEF Present
      <4> QED
        BY <3>1, <4>1, LookedAdds
    <3> QED
      BY <3>2, <3>3
  <2> QED
    BY <1>1, <2>1, RunningStays
<1>2. ASSUME NEW c \in Clients, (\E id \in Ids : Wait(c, id)) \/ WaitAgain(c)
      PROVE  RunningIsWorkedOn'
  BY <1>1, <1>2 DEF Wait, WaitAgain, poolVars
<1>3. ASSUME NEW c \in Clients,
             (\E id \in Ids : Remove(c, id)) \/ Clear(c) \/ WakeSpuriously(c) \/ WokenTooLate(c)
      PROVE  RunningIsWorkedOn'
  BY <1>3, RunningStays DEF Remove, Clear, WakeSpuriously, WokenTooLate, poolVars
<1>4. ASSUME MarkFailed PROVE RunningIsWorkedOn'
  <2>1. \A i \in DOMAIN tasks' :
          tasks'[i].status = "Running" => i \in DOMAIN tasks /\ tasks[i].status = "Running"
    <3> SUFFICES ASSUME NEW i \in DOMAIN tasks', tasks'[i].status = "Running"
                 PROVE  i \in DOMAIN tasks /\ tasks[i].status = "Running"
      OBVIOUS
    <3>1. i \in DOMAIN tasks
      BY <1>4, MarkFailedOnly
    <3>2. tasks[i].status # "Waiting"
      BY <1>4, <3>1, MarkFailedOnly
    <3> QED
      BY <1>4, <3>1, <3>2, MarkFailedOnly
  <2> QED
    BY <1>4, <2>1, RunningStays DEF MarkFailed, poolVars
<1>5. ASSUME NotifyAndClosePool \/ JoinPool \/ UNCHANGED vars PROVE RunningIsWorkedOn'
  BY <1>5, RunningStays DEF NotifyAndClosePool, Close, JoinPool, vars, poolVars
<1>6. ASSUME NEW c \in Clients, NEW id \in Ids, Add(c, id) PROVE RunningIsWorkedOn'
  <2> SUFFICES ASSUME NEW i \in DOMAIN tasks', tasks'[i].status = "Running"
               PROVE  \E j \in running' : jobId'[j] = i /\ jobPc'[j] \in {"download", "store"}
    BY DEF RunningIsWorkedOn
  <2>1. i \in DOMAIN tasks /\ tasks[i].status = "Running"
    BY <1>6 DEF Add, Task
  <2>2. PICK j \in running : jobId[j] = i /\ jobPc[j] \in {"download", "store"}
    BY <2>1 DEF RunningIsWorkedOn
  <2>3. j \in Jobs /\ j \in 1 .. Len(jobId)
    BY <2>2 DEF InPool, Created
  <2>4. jobId'[j] = jobId[j] /\ Len(jobId) \in Nat
    BY <1>6, <2>3, AppendIds DEF Add, TypeOK
  <2>5. jobPc'[j] = jobPc[j] /\ running' = running
    BY <1>6, <2>3, <2>4 DEF Add, Submit, TypeOK
  <2> QED
    BY <2>2, <2>4, <2>5
<1>7. ASSUME NEW j \in Jobs, StartJob(j) PROVE RunningIsWorkedOn'
  <2>1. /\ tasks' = tasks /\ jobId' = jobId /\ running' = running \cup {j}
        /\ jobPc' = [jobPc EXCEPT ![j] = "begin"]
    BY <1>7 DEF StartJob, Start
  <2>2. j \notin running
    <3>1. queued \in Seq(Jobs) /\ queued # << >> /\ j = Head(queued)
      BY <1>7 DEF StartJob, Start, InPool
    <3>2. 1 \in DOMAIN queued /\ j = queued[1]
      BY <3>1, HeadAndTail
    <3> QED
      BY <3>2 DEF InPool, AtWork
  <2>3. \A k \in running : jobPc'[k] = jobPc[k]
    BY <2>1, <2>2 DEF TypeOK, InPool
  <2> QED
    BY <2>1, <2>3 DEF RunningIsWorkedOn
<1>8. ASSUME NEW j \in Jobs, FindsNoTask(j) \/ NotifyAll(j) PROVE RunningIsWorkedOn'
  <2>1. /\ tasks' = tasks /\ jobId' = jobId /\ running' = running \ {j}
        /\ jobPc' = [jobPc EXCEPT ![j] = "ended"]
        /\ jobPc[j] \in {"download", "store"} => ~Present(jobId[j])
    BY <1>8 DEF FindsNoTask, NotifyAll, EndJob, Finish
  <2>2. \A k \in running \ {j} : jobPc'[k] = jobPc[k]
    BY <2>1 DEF TypeOK, InPool
  <2> QED
    BY <2>1, <2>2 DEF RunningIsWorkedOn, Present
<1>9. ASSUME NEW j \in Jobs, Download(j) PROVE RunningIsWorkedOn'
  <2>1. /\ tasks' = tasks /\ jobId' = jobId /\ running' = running
        /\ jobPc' = [jobPc EXCEPT ![j] = "store"]
    BY <1>9 DEF Download, poolVars
  <2>2. jobPc'[j] = "store" /\ \A k \in running \ {j} : jobPc'[k] = jobPc[k]
    BY <2>1 DEF TypeOK, InPool
  <2> QED
    BY <2>1, <2>2 DEF RunningIsWorkedOn
<1>10. ASSUME NEW j \in Jobs, MarkRunning(j) PROVE RunningIsWorkedOn'
  <2>1. /\ tasks' = SetStatus(jobId[j], "Running") /\ jobId' = jobId /\ running' = running
        /\ jobPc' = [jobPc EXCEPT ![j] = "download"] /\ jobPc[j] = "begin"
    BY <1>10 DEF MarkRunning, poolVars
  <2>2. /\ jobPc'[j] = "download" /\ \A k \in running \ {j} : jobPc'[k] = jobPc[k]
        /\ j \in running
    BY <2>1 DEF TypeOK, InPool, AtWork
  <2>3. /\ DOMAIN tasks' = DOMAIN tasks
        /\ \A i \in DOMAIN tasks : i # jobId[j] => tasks'[i] = tasks[i]
    BY <2>1, SetStatusOnly, NamedTypes
  <2> QED
    BY <2>1, <2>2, <2>3 DEF RunningIsWorkedOn
<1>11. ASSUME NEW j \in Jobs, StoreStatus(j) PROVE RunningIsWorkedOn'
  <2>1. /\ tasks' = SetStatus(jobId[j], StatusOf(j)) /\ jobId' = jobId /\ running' = running
        /\ jobPc' = [jobPc EXCEPT ![j] = "notify"] /\ Present(jobId[j])
    BY <1>11 DEF StoreStatus, poolVars
  <2>2. \A k \in running \ {j} : jobPc'[k] = jobPc[k]
    BY <2>1 DEF TypeOK, InPool
  <2>3. StatusOf(j) \in Statuses /\ StatusOf(j) # "Running"
    BY NamedTypes DEF StatusOf
  <2>4. /\ DOMAIN tasks' = DOMAIN tasks /\ jobId[j] \in DOMAIN tasks
        /\ tasks'[jobId[j]].status # "Running"
        /\ \A i \in DOMAIN tasks : i # jobId[j] => tasks'[i] = tasks[i]
    BY <2>1, <2>3, SetStatusOnly DEF Present
  <2> QED
    BY <2>1, <2>2, <2>4 DEF RunningIsWorkedOn
<1> QED
  BY <1>2, <1>3, <1>4, <1>5, <1>6, <1>7, <1>8, <1>9, <1>10, <1>11
     DEF Next, Client, Resume, Job, Destructor

-----------------------------------------------------------------------------
LEMMA NamedStep == TypeOK /\ Named /\ [Next]_vars => Named'
<1> SUFFICES ASSUME TypeOK, Named, [Next]_vars PROVE Named'
  OBVIOUS
<1>1. ASSUME NEW c \in Clients, NEW id \in Ids, Add(c, id) \/ Wait(c, id) \/ Remove(c, id)
      PROVE  Named'
  BY <1>1 DEF Add, Wait, EvaluateWait, Remove, Named, TypeOK
<1>2. ASSUME NEW c \in Clients, Clear(c) \/ WakeSpuriously(c) \/ Resume(c) PROVE Named'
  BY <1>2
     DEF Clear, WakeSpuriously, Resume, WaitAgain, WokenTooLate, EvaluateWait, Named, TypeOK
<1>3. ASSUME WakeAll, on' = on PROVE Named'
  BY <1>3, WakeAllTyped DEF Named
<1>4. ASSUME UNCHANGED << pc, on >> PROVE Named'
  BY <1>4 DEF Named
<1>5. ASSUME NEW j \in Jobs, Job(j) PROVE Named'
  BY <1>3, <1>4, <1>5
     DEF Job, StartJob, FindsNoTask, MarkRunning, Download, StoreStatus, NotifyAll
<1>6. ASSUME MarkFailed \/ Destructor \/ UNCHANGED vars PROVE Named'
  BY <1>3, <1>4, <1>6 DEF MarkFailed, Destructor, NotifyAndClosePool, JoinPool, vars
<1> QED
  BY <1>1, <1>2, <1>5, <1>6 DEF Next, Client

LEMMA PoolIsDoneStep == TypeOK /\ PoolIsDone /\ [Next]_vars => PoolIsDone'
<1> SUFFICES ASSUME TypeOK, PoolIsDone, [Next]_vars PROVE PoolIsDone'
  OBVIOUS
<1>1. ASSUME UNCHANGED << phase, queued, running >> PROVE PoolIsDone'
  BY <1>1 DEF PoolIsDone
<1>2. ASSUME NEW c \in Clients, Client(c) \/ Resume(c) PROVE PoolIsDone'
  BY <1>1, <1>2
     DEF Client, Add, Wait, Remove, Clear, WakeSpuriously, Resume, WaitAgain, WokenTooLate,
         poolVars, PoolIsDone
<1>3. ASSUME NEW j \in Jobs, StartJob(j) \/ FindsNoTask(j) \/ NotifyAll(j) PROVE PoolIsDone'
  BY <1>3 DEF StartJob, Start, FindsNoTask, NotifyAll, EndJob, Finish, PoolIsDone
<1>4. ASSUME NEW j \in Jobs, MarkRunning(j) \/ Download(j) \/ StoreStatus(j) PROVE PoolIsDone'
  BY <1>1, <1>4 DEF MarkRunning, Download, StoreStatus, poolVars
<1>5. ASSUME MarkFailed \/ Destructor \/ UNCHANGED vars PROVE PoolIsDone'
  BY <1>5 DEF MarkFailed, Destructor, NotifyAndClosePool, JoinPool, vars, poolVars, PoolIsDone
<1> QED
  BY <1>2, <1>3, <1>4, <1>5 DEF Next, Job

-----------------------------------------------------------------------------
(***************************************************************************)
(* Calls in order.                                                         *)
(***************************************************************************)
InTouch == OwnEntries /\ StatusTells /\ OwnTasks

LEMMA InTouchInit == Init => InTouch
BY DEF Init, InTouch, OwnEntries, StatusTells, OwnTasks, Created, Engaged

\* A closure and the entry it works for.
LEMMA WorksForOne ==
  ASSUME InPool, OwnEntries, NEW j \in Jobs, jobPc[j] \in Pending
  PROVE  /\ j \in Created /\ Present(jobId[j]) /\ tasks[jobId[j]].job = j
         /\ \A i \in DOMAIN tasks : i # jobId[j] => tasks[i].job # j
BY DEF InPool, OwnEntries, Pending

LEMMA EntriesInJobs ==
  ASSUME TypeOK, InPool, OwnEntries, NEW i \in DOMAIN tasks
  PROVE  tasks[i].job \in Jobs /\ tasks[i].status \in Statuses
BY DEF InPool, OwnEntries, TypeOK, IsTable, Entries

\* A client looks whether its task is settled.
LEMMA LooksInTouch ==
  ASSUME TypeOK, InPool, InTouch, NEW c \in Clients, Engaged(c), EvaluateWait(c, on[c]),
         UNCHANGED << jobId, jobPc, reads, outcome, on, phase >>
  PROVE  InTouch'
<1>1. Present(on[c])
  BY DEF InTouch, OwnTasks
<1>2. DOMAIN tasks' = DOMAIN tasks /\ \A i \in DOMAIN tasks : tasks'[i] = tasks[i]
  BY <1>1, LookedAdds DEF EvaluateWait, Present
<1>3. (OwnEntries /\ StatusTells)'
  BY <1>2 DEF InTouch, OwnEntries, StatusTells, Created, Present
<1>4. \A d \in Clients : d # c => pc'[d] = pc[d]
  BY DEF EvaluateWait, TypeOK
<1>5. pc'[c] = IF tasks[on[c]].status \in Settled THEN "returned" ELSE "blocked"
  BY <1>1, PredicateIs DEF EvaluateWait, TypeOK
<1>6. phase = "alive" /\ tasks[on[c]].status \in Settled => jobPc[tasks[on[c]].job] \in Stored
  BY <1>1 DEF InTouch, StatusTells, Present, Settled
<1>7. \A d \in Clients : (Engaged(d))' <=> Engaged(d)
  BY <1>4, <1>5 DEF Engaged
<1>8. \A d \in Clients : Engaged(d) => on[d] \in DOMAIN tasks
  BY DEF InTouch, OwnTasks, Present
<1>9. OwnTasks'
  <2>1. \A d \in Clients : (Engaged(d))' => (Present(on[d]))'
    BY <1>2, <1>7, <1>8 DEF Present
  <2>2. \A d, e \in Clients : (Engaged(d))' /\ (Engaged(e))' /\ on'[d] = on'[e] => d = e
    BY <1>7 DEF InTouch, OwnTasks
  <2>3. \A d \in Clients : pc'[d] = "returned" /\ phase' = "alive" =>
          jobPc'[tasks'[on'[d]].job] \in Stored
    <3> SUFFICES ASSUME NEW d \in Clients, pc'[d] = "returned", phase = "alive"
                 PROVE  jobPc[tasks'[on[d]].job] \in Stored
      OBVIOUS
    <3>1. tasks'[on[d]] = tasks[on[d]]
      BY <1>2, <1>7, <1>8 DEF Engaged
    <3> QED
      BY <1>4, <1>5, <1>6, <3>1 DEF InTouch, OwnTasks
  <2>4. \A d \in Clients : pc'[d] = "blocked" =>
          \/ tasks'[on'[d]].status \notin Settled
          \/ jobPc'[tasks'[on'[d]].job] = "notify"
          \/ phase' = "notify"
    <3> SUFFICES ASSUME NEW d \in Clients, pc'[d] = "blocked"
                 PROVE  \/ tasks'[on[d]].status \notin Settled
                        \/ jobPc[tasks'[on[d]].job] = "notify"
                        \/ phase = "notify"
      OBVIOUS
    <3>1. tasks'[on[d]] = tasks[on[d]]
      BY <1>2, <1>7, <1>8 DEF Engaged
    <3> QED
      BY <1>4, <1>5, <3>1 DEF InTouch, OwnTasks
  <2> QED
    BY <2>1, <2>2, <2>3, <2>4 DEF OwnTasks
<1> QED
  BY <1>3, <1>9 DEF InTouch

LEMMA AddsInTouch ==
  ASSUME TypeOK, InPool, InTouch, NEW c \in Clients, NEW id \in Ids, Add(c, id)
  PROVE  InTouch'
<1> DEFINE j == Len(jobId) + 1
<1>1. /\ j \in Jobs /\ Len(jobId) \in Nat /\ j \notin Created /\ (Created)' = Created \cup {j}
      /\ jobId'[j] = id /\ \A k \in Created : jobId'[k] = jobId[k]
  BY AppendIds DEF Add, TypeOK, Created
<1>2. /\ id \notin DOMAIN tasks /\ DOMAIN tasks' = DOMAIN tasks \cup {id}
      /\ tasks'[id] = Task("Waiting", j) /\ \A i \in DOMAIN tasks : tasks'[i] = tasks[i]
  BY DEF Add, Present
<1>3. /\ jobPc'[j] = "queued" /\ \A k \in Created : jobPc'[k] = jobPc[k]
      /\ UNCHANGED << reads, outcome, phase >>
  BY <1>1 DEF Add, TypeOK, InPool
<1>4. /\ pc[c] = "idle" /\ pc'[c] = "added" /\ on'[c] = id
      /\ \A d \in Clients : d # c => pc'[d] = pc[d] /\ on'[d] = on[d]
  BY DEF Add, TypeOK
<1>5. /\ tasks'[id].status = "Waiting" /\ tasks'[id].job = j
      /\ \A i \in DOMAIN tasks : i # id /\ tasks[i].job \in Created
  BY <1>2 DEF Task, InTouch, OwnEntries
<1> HIDE DEF j
<1>6. OwnEntries'
  BY <1>1, <1>2, <1>3, <1>5 DEF InTouch, OwnEntries, Present, Pending, Stored
<1>7. StatusTells'
  BY <1>1, <1>2, <1>3, <1>5 DEF InTouch, StatusTells, Stored
<1>8. \A d \in Clients : d # c /\ Engaged(d) => on[d] \in DOMAIN tasks /\ on[d] # id
  BY <1>2 DEF InTouch, OwnTasks, Present
<1>9. OwnTasks'
  <2>1. \A d \in Clients : (Engaged(d))' => (Present(on[d]))'
    BY <1>2, <1>4, <1>8 DEF Present, Engaged
  <2>2. \A d, e \in Clients : (Engaged(d))' /\ (Engaged(e))' /\ on'[d] = on'[e] => d = e
    BY <1>4, <1>8 DEF InTouch, OwnTasks, Engaged
  <2>3. \A d \in Clients : pc'[d] \in {"returned", "blocked"} =>
          /\ pc'[d] = pc[d] /\ on'[d] = on[d] /\ on[d] \in DOMAIN tasks
          /\ tasks'[on[d]] = tasks[on[d]] /\ tasks[on[d]].job \in Created
    BY <1>2, <1>4, <1>5, <1>8 DEF Engaged
  <2> QED
    BY <1>3, <2>1, <2>2, <2>3 DEF InTouch, OwnTasks
<1> QED
  BY <1>6, <1>7, <1>9 DEF InTouch

LEMMA RemovesInTouch ==
  ASSUME TypeOK, InPool, InTouch, NEW c \in Clients, pc[c] = "returned", Remove(c, on[c])
  PROVE  InTouch'
<1>1. /\ DOMAIN tasks' = DOMAIN tasks \ {on[c]} /\ phase = "alive"
      /\ \A i \in DOMAIN tasks' : tasks'[i] = tasks[i]
      /\ UNCHANGED << jobId, jobPc, reads, outcome, phase >>
  BY DEF Remove, poolVars
<1>2. /\ pc'[c] = "idle" /\ \A d \in Clients : d # c => pc'[d] = pc[d] /\ on'[d] = on[d]
  BY DEF Remove, TypeOK
<1>3. jobPc[tasks[on[c]].job] \in Stored
  BY <1>1 DEF InTouch, OwnTasks
<1>4. \A j \in Created : jobPc[j] \in Pending => jobId[j] # on[c]
  BY <1>3 DEF InTouch, OwnEntries, Pending, Stored
<1>5. OwnEntries' /\ StatusTells'
  BY <1>1, <1>4 DEF InTouch, OwnEntries, StatusTells, Present, Created
<1>6. \A d \in Clients : d # c /\ Engaged(d) => on[d] \in DOMAIN tasks'
  BY <1>1 DEF InTouch, OwnTasks, Present, Engaged
<1>7. OwnTasks'
  BY <1>1, <1>2, <1>6 DEF InTouch, OwnTasks, Present, Engaged
<1> QED
  BY <1>5, <1>7 DEF InTouch

\* A closure starts, or ends.
LEMMA JobsInTouch ==
  ASSUME TypeOK, InPool, InTouch, NEW j \in Jobs, StartJob(j) \/ Download(j)
  PROVE  InTouch'
<1>1. /\ jobPc[j] \in {"queued", "download"}
      /\ jobPc' = [jobPc EXCEPT ![j] = IF jobPc[j] = "queued" THEN "begin" ELSE "store"]
      /\ jobPc[j] = "queued" => outcome' = outcome
      /\ \A k \in Jobs : k # j => outcome'[k] = outcome[k]
      /\ UNCHANGED << tasks, jobId, reads, pc, on, phase >>
  <2>1. CASE StartJob(j)
    <3>1. queued \in Seq(Jobs) /\ queued # << >> /\ j = Head(queued)
      BY <2>1 DEF StartJob, Start, InPool
    <3>2. 1 \in DOMAIN queued /\ j = queued[1]
      BY <3>1, HeadAndTail
    <3>3. jobPc[j] = "queued"
      BY <3>2 DEF InPool
    <3> QED
      BY <2>1, <3>3 DEF StartJob
  <2>2. CASE Download(j)
    BY <2>2 DEF Download, TypeOK
  <2> QED
    BY <2>1, <2>2
<1>2. /\ \A k \in Jobs : k # j => jobPc'[k] = jobPc[k]
      /\ jobPc'[j] = IF jobPc[j] = "queued" THEN "begin" ELSE "store"
  BY <1>1 DEF TypeOK
<1>3. \A k \in Jobs : /\ jobPc'[k] \in Stored <=> jobPc[k] \in Stored
                      /\ jobPc'[k] \in Pending <=> jobPc[k] \in Pending
                      /\ jobPc'[k] = "notify" <=> jobPc[k] = "notify"
                      /\ jobPc'[k] \in {"download", "store"} <=> jobPc[k] \in {"download", "store"}
  BY <1>1, <1>2 DEF Stored, Pending
<1>4. \A k \in Jobs : jobPc[k] \in Stored => outcome'[k] = outcome[k]
  BY <1>1 DEF Stored
<1>5. Created \subseteq Jobs /\ (Created)' = Created
  BY <1>1 DEF InPool, Created
<1>6. \A i \in DOMAIN tasks : tasks[i].job \in Jobs
  BY EntriesInJobs DEF InTouch
<1>7. OwnEntries'
  BY <1>1, <1>3, <1>5 DEF InTouch, OwnEntries, Present
<1>8. StatusTells'
  BY <1>1, <1>3, <1>4, <1>6 DEF InTouch, StatusTells
<1>9. OwnTasks'
  BY <1>1, <1>3, <1>6 DEF InTouch, OwnTasks, Present, Engaged
<1> QED
  BY <1>7, <1>8, <1>9 DEF InTouch

LEMMA MarksInTouch ==
  ASSUME TypeOK, InPool, InTouch, NEW j \in Jobs, MarkRunning(j)
  PROVE  InTouch'
<1> DEFINE id == jobId[j]
<1>1. /\ jobPc[j] = "begin" /\ tasks' = SetStatus(id, "Running")
      /\ UNCHANGED << jobId, outcome, pc, on, phase >>
      /\ jobPc' = [jobPc EXCEPT ![j] = "download"]
      /\ reads' = [reads EXCEPT ![j] = tasks[id].job]
  BY DEF MarkRunning
<1>2. /\ j \in Created /\ id \in DOMAIN tasks /\ tasks[id].job = j
      /\ \A i \in DOMAIN tasks : i # id => tasks[i].job # j
  BY <1>1, WorksForOne DEF InTouch, Pending, Present
<1>3. /\ DOMAIN tasks' = DOMAIN tasks /\ tasks'[id].status = "Running" /\ tasks'[id].job = j
      /\ \A i \in DOMAIN tasks : i # id => tasks'[i] = tasks[i]
      /\ \A i \in DOMAIN tasks : tasks'[i].job = tasks[i].job
  BY <1>1, <1>2, SetStatusOnly, NamedTypes
<1>4. /\ jobPc'[j] = "download" /\ reads'[j] = j
      /\ \A k \in Jobs : k # j => jobPc'[k] = jobPc[k] /\ reads'[k] = reads[k]
  BY <1>1, <1>2 DEF TypeOK
<1>5. Created \subseteq Jobs /\ (Created)' = Created
  BY <1>1 DEF InPool, Created
<1>6. \A i \in DOMAIN tasks : tasks[i].job \in Jobs
  BY EntriesInJobs DEF InTouch
<1>7. "begin" \in Pending /\ "begin" \notin Stored /\ "download" \notin Stored /\ "Running" \notin Settled
  BY DEF Pending, Stored, Settled
<1> HIDE DEF id
<1>8. OwnEntries'
  <2>1. \A i \in DOMAIN tasks' : tasks'[i].job \in (Created)' /\ jobId'[tasks'[i].job] = i
    BY <1>1, <1>3, <1>5 DEF InTouch, OwnEntries
  <2>2. \A k \in Created : jobPc'[k] \in Pending => jobPc[k] \in Pending
    BY <1>1, <1>4, <1>5, <1>7
  <2>3. \A k \in Created : jobPc[k] \in Pending => jobId[k] \in DOMAIN tasks' /\ tasks'[jobId[k]].job = k
    BY <1>3 DEF InTouch, OwnEntries, Present
  <2>4. \A k \in Created : jobPc'[k] \in {"download", "store"} \cup Stored => reads'[k] = k
    BY <1>4, <1>5 DEF InTouch, OwnEntries
  <2> QED
    BY <1>1, <1>5, <2>1, <2>2, <2>3, <2>4 DEF OwnEntries, Present
<1>9. StatusTells'
  BY <1>1, <1>2, <1>3, <1>4, <1>6, <1>7 DEF InTouch, StatusTells
<1>10. OwnTasks'
  <2>1. \A d \in Clients : Engaged(d) => on[d] \in DOMAIN tasks
    BY DEF InTouch, OwnTasks, Present
  <2>2. \A d \in Clients : pc[d] = "returned" /\ phase = "alive" =>
          jobPc'[tasks'[on[d]].job] \in Stored
    BY <1>1, <1>2, <1>3, <1>4, <1>6, <1>7, <2>1 DEF InTouch, OwnTasks, Engaged
  <2>3. \A d \in Clients : pc[d] = "blocked" =>
          \/ tasks'[on[d]].status \notin Settled
          \/ jobPc'[tasks'[on[d]].job] = "notify"
          \/ phase = "notify"
    BY <1>1, <1>2, <1>3, <1>4, <1>6, <1>7, <2>1 DEF InTouch, OwnTasks, Engaged
  <2> QED
    BY <1>1, <1>3, <2>1, <2>2, <2>3 DEF InTouch, OwnTasks, Present, Engaged
<1> QED
  BY <1>8, <1>9, <1>10 DEF InTouch

LEMMA StoresInTouch ==
  ASSUME TypeOK, InPool, InTouch, NEW j \in Jobs, StoreStatus(j)
  PROVE  InTouch'
<1> DEFINE id == jobId[j]
<1>1. /\ jobPc[j] = "store" /\ tasks' = SetStatus(id, StatusOf(j))
      /\ UNCHANGED << jobId, reads, outcome, pc, on, phase >>
      /\ jobPc' = [jobPc EXCEPT ![j] = "notify"]
  BY DEF StoreStatus
<1>2. /\ j \in Created /\ id \in DOMAIN tasks /\ tasks[id].job = j
      /\ \A i \in DOMAIN tasks : i # id => tasks[i].job # j
  BY <1>1, WorksForOne DEF InTouch, Pending, Present
<1>3. /\ StatusOf(j) \in Statuses /\ StatusOf(j) \in Settled
      /\ StatusOf(j) = "Ready" => outcome[j] = "ok"
  BY NamedTypes DEF StatusOf, Settled
<1>4. /\ DOMAIN tasks' = DOMAIN tasks /\ tasks'[id].status = StatusOf(j) /\ tasks'[id].job = j
      /\ \A i \in DOMAIN tasks : i # id => tasks'[i] = tasks[i]
      /\ \A i \in DOMAIN tasks : tasks'[i].job = tasks[i].job
  BY <1>1, <1>2, <1>3, SetStatusOnly
<1>5. /\ jobPc'[j] = "notify" /\ \A k \in Jobs : k # j => jobPc'[k] = jobPc[k]
  BY <1>1 DEF TypeOK
<1>6. Created \subseteq Jobs /\ (Created)' = Created
  BY <1>1 DEF InPool, Created
<1>7. \A i \in DOMAIN tasks : tasks[i].job \in Jobs
  BY EntriesInJobs DEF InTouch
<1>8. "notify" \notin Pending /\ "notify" \in Stored /\ "store" \notin Stored
  BY DEF Pending, Stored
<1> HIDE DEF id
<1>9. OwnEntries'
  <2>1. \A i \in DOMAIN tasks' : tasks'[i].job \in (Created)' /\ jobId'[tasks'[i].job] = i
    BY <1>1, <1>4, <1>6 DEF InTouch, OwnEntries
  <2>2. \A k \in Created : jobPc'[k] \in Pending => jobPc[k] \in Pending
    BY <1>5, <1>6, <1>8
  <2>3. \A k \in Created : jobPc[k] \in Pending => jobId[k] \in DOMAIN tasks' /\ tasks'[jobId[k]].job = k
    BY <1>4 DEF InTouch, OwnEntries, Present
  <2>4. \A k \in Created : jobPc'[k] \in {"download", "store"} \cup Stored => reads'[k] = k
    BY <1>1, <1>5, <1>6 DEF InTouch, OwnEntries
  <2> QED
    BY <1>1, <1>6, <2>1, <2>2, <2>3, <2>4 DEF OwnEntries, Present
<1>10. StatusTells'
  BY <1>1, <1>2, <1>3, <1>4, <1>5, <1>7, <1>8 DEF InTouch, StatusTells
<1>11. OwnTasks'
  <2>1. \A d \in Clients : Engaged(d) => on[d] \in DOMAIN tasks
    BY DEF InTouch, OwnTasks, Present
  <2>2. \A d \in Clients : pc[d] = "returned" /\ phase = "alive" =>
          jobPc'[tasks'[on[d]].job] \in Stored
    BY <1>1, <1>4, <1>5, <1>7, <1>8, <2>1 DEF InTouch, OwnTasks, Engaged
  <2>3. \A d \in Clients : pc[d] = "blocked" =>
          \/ tasks'[on[d]].status \notin Settled
          \/ jobPc'[tasks'[on[d]].job] = "notify"
          \/ phase = "notify"
    BY <1>1, <1>2, <1>4, <1>5, <1>7, <2>1 DEF InTouch, OwnTasks, Engaged
  <2> QED
    BY <1>1, <1>4, <2>1, <2>2, <2>3 DEF InTouch, OwnTasks, Present, Engaged
<1> QED
  BY <1>9, <1>10, <1>11 DEF InTouch

\* The clients are woken by the end of a closure or of the manager.
LEMMA WakesInTouch ==
  ASSUME TypeOK, InPool, InTouch, WakeAll, NEW j \in Jobs,
         jobPc' = jobPc \/ (jobPc[j] = "notify" /\ jobPc' = [jobPc EXCEPT ![j] = "ended"]),
         UNCHANGED << tasks, jobId, reads, outcome, on >>, phase' = "alive" => phase = "alive"
  PROVE  InTouch'
<1>1. \A k \in Jobs : /\ jobPc'[k] \in Stored <=> jobPc[k] \in Stored
                      /\ jobPc'[k] \in Pending <=> jobPc[k] \in Pending
                      /\ jobPc'[k] \in {"download", "store"} <=> jobPc[k] \in {"download", "store"}
  BY DEF Stored, Pending, TypeOK
<1>2. Created \subseteq Jobs /\ (Created)' = Created
  BY DEF InPool, Created
<1>3. \A i \in DOMAIN tasks : tasks[i].job \in Jobs
  BY EntriesInJobs DEF InTouch
<1>4. \A d \in Clients : /\ pc'[d] # "blocked" /\ ((Engaged(d))' <=> Engaged(d))
                         /\ pc'[d] = "returned" => pc[d] = "returned"
  BY WakeAllTyped DEF Engaged
<1>5. OwnEntries'
  BY <1>1, <1>2 DEF InTouch, OwnEntries, Present
<1>6. StatusTells'
  BY <1>1, <1>3 DEF InTouch, StatusTells
<1>7. OwnTasks'
  <2>1. \A d \in Clients : Engaged(d) => on[d] \in DOMAIN tasks
    BY DEF InTouch, OwnTasks, Present
  <2>2. \A d \in Clients : pc'[d] = "returned" /\ phase' = "alive" =>
          jobPc'[tasks[on[d]].job] \in Stored
    BY <1>1, <1>3, <1>4, <2>1 DEF InTouch, OwnTasks, Engaged
  <2> QED
    BY <1>4, <2>1, <2>2 DEF InTouch, OwnTasks, Present
<1> QED
  BY <1>5, <1>6, <1>7 DEF InTouch

LEMMA FailsInTouch ==
  ASSUME TypeOK, InPool, InTouch, MarkFailed PROVE InTouch'
<1>1. /\ phase' = "notify" /\ UNCHANGED << jobId, jobPc, reads, outcome, pc, on >>
  BY DEF MarkFailed
<1>2. /\ DOMAIN tasks' = DOMAIN tasks /\ (Created)' = Created
      /\ \A i \in DOMAIN tasks : tasks'[i].job = tasks[i].job
  BY <1>1, MarkFailedOnly DEF Created
<1>3. \A i \in DOMAIN tasks : /\ tasks'[i].status = "Ready" => tasks[i].status = "Ready"
                              /\ tasks[i].status \in Settled => tasks'[i].status \in Settled
  <2> SUFFICES ASSUME NEW i \in DOMAIN tasks
               PROVE  /\ tasks'[i].status = "Ready" => tasks[i].status = "Ready"
                      /\ tasks[i].status \in Settled => tasks'[i].status \in Settled
    OBVIOUS
  <2>1. CASE tasks[i].status = "Waiting"
    BY <2>1, MarkFailedOnly DEF Settled
  <2>2. CASE tasks[i].status # "Waiting"
    BY <2>2, MarkFailedOnly
  <2> QED
    BY <2>1, <2>2
<1>4. OwnEntries'
  BY <1>1, <1>2 DEF InTouch, OwnEntries, Present
<1>5. StatusTells'
  BY <1>1, <1>2, <1>3 DEF InTouch, StatusTells
<1>6. OwnTasks'
  BY <1>1, <1>2 DEF InTouch, OwnTasks, Present, Engaged
<1> QED
  BY <1>4, <1>5, <1>6 DEF InTouch

LEMMA InOrderStep == TypeOK /\ InPool /\ InOrderInv /\ [Next]_vars => InOrderInv'
<1> SUFFICES ASSUME TypeOK, InPool, InOrderInv, [Next]_vars, slips' = 0 PROVE InTouch'
  BY DEF InOrderInv, InTouch, Orderly
<1> DEFINE T == slips = 0 => InTouch
<1>0. T
  BY DEF InOrderInv, InTouch, Orderly
<1>1. ASSUME NEW c \in Clients, NEW id \in Ids, Add(c, id) PROVE InTouch'
  BY <1>0, <1>1, AddsInTouch DEF Add
<1>2. ASSUME NEW c \in Clients, NEW id \in Ids, Wait(c, id) PROVE InTouch'
  <2>1. slips = 0 /\ pc[c] = "added" /\ on[c] = id
    BY <1>2, SlipsCount DEF Wait, TypeOK
  <2>2. on' = on
    BY <1>2, <2>1 DEF Wait, TypeOK
  <2> QED
    BY <1>0, <1>2, <2>1, <2>2, LooksInTouch DEF Wait, Engaged
<1>3. ASSUME NEW c \in Clients, WaitAgain(c) PROVE InTouch'
  BY <1>0, <1>3, LooksInTouch DEF WaitAgain, Engaged
<1>4. ASSUME NEW c \in Clients, WakeSpuriously(c) \/ WokenTooLate(c) PROVE InTouch'
  <2>1. InTouch /\ UNCHANGED << tasks, jobId, jobPc, reads, outcome, on, phase >>
    BY <1>0, <1>4 DEF WakeSpuriously, WokenTooLate
  <2>2. \A d \in Clients : /\ (Engaged(d))' <=> Engaged(d)
                           /\ pc'[d] \in {"returned", "blocked"} => pc'[d] = pc[d]
    BY <1>4 DEF WakeSpuriously, WokenTooLate, TypeOK, Engaged
  <2>3. OwnEntries' /\ StatusTells'
    BY <2>1 DEF InTouch, OwnEntries, StatusTells, Present, Created
  <2>4. OwnTasks'
    BY <2>1, <2>2 DEF InTouch, OwnTasks, Present
  <2> QED
    BY <2>3, <2>4 DEF InTouch
<1>5. ASSUME NEW c \in Clients, NEW id \in Ids, Remove(c, id) PROVE InTouch'
  <2>1. slips = 0 /\ pc[c] = "returned" /\ on[c] = id
    BY <1>5, SlipsCount DEF Remove, TypeOK
  <2> QED
    BY <1>0, <1>5, <2>1, RemovesInTouch
<1>6. ASSUME NEW c \in Clients, Clear(c) PROVE InTouch'
  BY <1>6, SlipsCount DEF Clear, TypeOK
<1>7. ASSUME NEW j \in Jobs, StartJob(j) \/ Download(j) PROVE InTouch'
  BY <1>0, <1>7, JobsInTouch DEF StartJob, Download
<1>8. ASSUME NEW j \in Jobs, MarkRunning(j) PROVE InTouch'
  BY <1>0, <1>8, MarksInTouch DEF MarkRunning
<1>9. ASSUME NEW j \in Jobs, StoreStatus(j) PROVE InTouch'
  BY <1>0, <1>9, StoresInTouch DEF StoreStatus
<1>10. ASSUME NEW j \in Jobs, FindsNoTask(j) PROVE InTouch'
  BY <1>0, <1>10, WorksForOne DEF FindsNoTask, InTouch, Pending
<1>11. ASSUME NEW j \in Jobs, NotifyAll(j) PROVE InTouch'
  BY <1>0, <1>11, WakesInTouch DEF NotifyAll, EndJob
<1>12. ASSUME MarkFailed PROVE InTouch'
  BY <1>0, <1>12, FailsInTouch DEF MarkFailed
<1>13. ASSUME NotifyAndClosePool PROVE InTouch'
  <2>1. CASE Jobs = {}
    <3>1. DOMAIN tasks = {} /\ Created = {}
      BY <1>0, <1>13, <2>1, EntriesInJobs DEF InTouch, InPool, NotifyAndClosePool
    <3>2. DOMAIN tasks' = {} /\ (Created)' = {} /\ on' = on
      BY <1>13, <3>1 DEF NotifyAndClosePool, Created
    <3>3. \A d \in Clients : ~Engaged(d)
      BY <1>0, <1>13, <3>1 DEF InTouch, OwnTasks, Present, NotifyAndClosePool
    <3>4. \A d \in Clients : pc'[d] = "idle"
      BY <1>13, <3>3, WakeAllTyped DEF NotifyAndClosePool, Engaged
    <3> QED
      BY <3>2, <3>4 DEF InTouch, OwnEntries, StatusTells, OwnTasks, Engaged
  <2>2. CASE Jobs # {}
    BY <1>0, <1>13, <2>2, WakesInTouch DEF NotifyAndClosePool
  <2> QED
    BY <2>1, <2>2
<1>14. ASSUME JoinPool PROVE InTouch'
  <2>1. /\ InTouch /\ phase = "join" /\ phase' = "destroyed"
        /\ UNCHANGED << tasks, jobId, jobPc, reads, outcome, pc, on >>
    BY <1>0, <1>14 DEF JoinPool
  <2> QED
    BY <2>1 DEF InTouch, OwnEntries, StatusTells, OwnTasks, Present, Created, Engaged
<1>15. ASSUME UNCHANGED vars PROVE InTouch'
  BY <1>0, <1>15 DEF InTouch, OwnEntries, StatusTells, OwnTasks, Present, Created, Engaged, vars
<1> QED
  BY <1>1, <1>2, <1>3, <1>4, <1>5, <1>6, <1>7, <1>8, <1>9, <1>10, <1>11, <1>12, <1>13, <1>14, <1>15
     DEF Next, Client, Resume, Job, Destructor

-----------------------------------------------------------------------------
LEMMA ManagerInvAlways == Spec => []ManagerInv
<1>1. Init => ManagerInv
  <2>1. Init => Named /\ RunningIsWorkedOn /\ PoolIsDone
    BY DEF Init, Named, RunningIsWorkedOn, PoolIsDone
  <2> QED
    BY <2>1, TypeInit, InPoolInit, InTouchInit DEF ManagerInv, InOrderInv, InTouch
<1>2. ManagerInv /\ [Next]_vars => ManagerInv'
  BY TypeStep, InPoolStep, NamedStep, RunningStep, PoolIsDoneStep, InOrderStep DEF ManagerInv
<1> QED
  BY <1>1, <1>2, PTL DEF Spec

\* The table, the closures and the clients keep their types.
THEOREM TypeCorrect == Spec => []TypeOK
<1>1. ManagerInv => TypeOK
  BY DEF ManagerInv
<1> QED
  BY ManagerInvAlways, <1>1, PTL

\* Whatever is removed, added again or cleared under a closure, and also when
\* the manager is being destroyed: a task that is shown as running is one that
\* a closure has yet to store the status of.
THEOREM RunningAlwaysWorkedOn == Spec => []RunningIsWorkedOn
<1>1. ManagerInv => RunningIsWorkedOn
  BY DEF ManagerInv
<1> QED
  BY ManagerInvAlways, <1>1, PTL

\* Of clients that keep to the order of calls, nobody is told that a task is
\* ready that was not downloaded.
THEOREM ReadyAlwaysDownloaded == Spec => []ReadyMeansDownloaded
<1>1. ManagerInv => ReadyMeansDownloaded
  <2> SUFFICES ASSUME ManagerInv, Orderly, NEW i \in DOMAIN tasks, tasks[i].status = "Ready"
               PROVE  \E j \in Jobs : outcome[j] = "ok" /\ reads[j] = tasks[i].job /\ reads[j] # NoJob
    BY DEF ReadyMeansDownloaded
  <2>1. /\ tasks[i].job \in Created /\ Created \subseteq Jobs
        /\ jobPc[tasks[i].job] \in Stored /\ outcome[tasks[i].job] = "ok"
        /\ reads[tasks[i].job] = tasks[i].job
    BY DEF ManagerInv, InOrderInv, OwnEntries, StatusTells, InPool
  <2>2. tasks[i].job # NoJob
    BY <2>1 DEF Jobs, NoJob
  <2> QED
    BY <2>1, <2>2
<1> QED
  BY ManagerInvAlways, <1>1, PTL

\* And the destructor leaves no client asleep on its condition variable.
THEOREM NobodyLeftBlocked == Spec => []NobodyBlockedAtEnd
<1>1. ManagerInv => NobodyBlockedAtEnd
  <2> SUFFICES ASSUME ManagerInv, Orderly, phase = "destroyed", NEW c \in blocked PROVE FALSE
    BY DEF NobodyBlockedAtEnd
  <2>1. c \in Clients /\ pc[c] = "blocked"
    BY DEF ManagerInv, TypeOK
  <2>2. on[c] \in DOMAIN tasks /\ tasks[on[c]].job \in Created
    BY <2>1 DEF ManagerInv, InOrderInv, OwnTasks, OwnEntries, Engaged, Present
  <2> DEFINE j == tasks[on[c]].job
  <2>3. j \in Jobs /\ jobPc[j] # "none" /\ jobPc[j] \notin AtWork /\ jobPc[j] # "queued"
    BY <2>2 DEF ManagerInv, InPool, PoolIsDone
  <2>4. jobPc[j] = "ended"
    BY <2>3 DEF ManagerInv, TypeOK, JobPoints, AtWork
  <2>5. tasks[on[c]].status \in Settled
    BY <2>2, <2>4 DEF ManagerInv, InOrderInv, StatusTells, Stored
  <2> QED
    BY <2>1, <2>4, <2>5 DEF ManagerInv, InOrderInv, OwnTasks
<1> QED
  BY ManagerInvAlways, <1>1, PTL
=============================================================================
