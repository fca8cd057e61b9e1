------------------------ MODULE FileInformationCache ------------------------
(***************************************************************************)
(* The file information cache behind the mounted drive                     *)
(* (HalalCloud.Client/HccFuseWorker.cpp): a map from directory paths to    *)
(* the listings of those directories, filled by a walk of the whole tree   *)
(* when the drive is mounted and brought up to date by every getattr and   *)
(* readdir callback, which ask the service what changed since the last     *)
(* time.  The FUSE loop runs callbacks on several threads; one mutex       *)
(* guards the map and is held over the remote calls of a whole update.     *)
(*                                                                         *)
(* The service is external: a tree of files and directories, each with the *)
(* time of its last change, that other clients change at any moment.       *)
(***************************************************************************)
EXTENDS Integers, Sequences, FiniteSets

CONSTANTS
  Paths,        \* the paths below "/", each a sequence of names
  KindsOf,      \* what other clients make of each path: "file", "dir" or both
  Reported,     \* the paths whose changes list_recent_updated_files reports
  Threads,      \* the threads of the FUSE loop
  NoThread,     \* nobody holds the mutex
  NoPath,       \* no item is being processed
  MaxClock,     \* bound: the last instant of the service's clock
  ClockSkew     \* this computer's clock minus the service's clock

Root == << >>
Parent(p) == SubSeq(p, 1, Len(p) - 1)
Dirs == Paths \cup {Root}

\* A path is the sequence of the names in it, and has its ancestors among the
\* paths.
ASSUME PathsAssumption ==
  /\ Paths \subseteq Seq(STRING)
  /\ Root \notin Paths
  /\ \A p \in Paths : Parent(p) \in Dirs
  /\ NoPath \notin Dirs

ASSUME KindsAssumption == KindsOf \in [Paths -> SUBSET {"file", "dir"}]

\* The service reports a path's changes only if it reports its directory's.
ASSUME ReportedAssumption ==
  /\ Reported \subseteq Paths
  /\ \A p \in Reported : Parent(p) \in Reported \cup {Root}

ASSUME ThreadsAssumption == NoThread \notin Threads
ASSUME ClockAssumption == MaxClock \in Nat \ {0} /\ ClockSkew \in Int

Kinds == {"none", "file", "dir"}
Entries == [path : Paths, kind : {"file", "dir"}, ts : 0 .. MaxClock]
Calls == [call : {"getattr"}, path : Paths] \cup [call : {"readdir"}, path : Dirs]
NoCall == [call |-> "readdir", path |-> Root]
Items == [path : Paths, deleted : BOOLEAN]

VARIABLES
  kind,          \* the service: what there is at each path
  ts,            \* the service: when each path last changed
  clock,         \* the service's clock
  cache,         \* g_FileInformationCache: directory -> set of entries
  lastUpdate,    \* g_FileInformationCacheLastUpdateTime
  mutex,         \* the thread holding g_FileInformationCacheMutex
  phase,         \* where the FUSE worker is in the cache's life
  toVisit,       \* PathStack of the initial walk
  pc,            \* where each thread is in its callback
  op,            \* the call each thread is serving
  batch,         \* UpdateList, what the holder has left of it
  current,       \* the item the holder is processing
  changedSince,  \* history: paths changed since the holder's list was made
  lost,          \* history: paths with a change no later update will bring
  fresh          \* history: the thread's update has not failed, and nothing
                 \* its call looks at has changed since it began

server == << kind, ts, clock >>
pass == << batch, current >>
vars == << kind, ts, clock, cache, lastUpdate, mutex, phase, toVisit, pc, op,
           batch, current, changedSince, lost, fresh >>

-----------------------------------------------------------------------------
(* The tree and the service's answers.                                     *)

Children(d) == {p \in Paths : Parent(p) = d}
Below(d) == {p \in Paths : Len(p) > Len(d) /\ SubSeq(p, 1, Len(d)) = d}
IsDirectory(d) == d = Root \/ (d \in Paths /\ kind[d] = "dir")

ServiceEntry(p) == [path |-> p, kind |-> kind[p], ts |-> ts[p]]
ServiceListing(d) == {ServiceEntry(p) : p \in {q \in Children(d) : kind[q] # "none"}}

\* "/v6/userfile/list_recent_updated_files": start_ts is inclusive.
ChangedSince(since) == {p \in Reported : ts[p] >= since}
RecentUpdates(since) ==
  {[path |-> p, deleted |-> kind[p] = "none"] : p \in ChangedSince(since)}

(* std::map: erase, assignment, and operator[] on a key that is missing.   *)
NoListings == [d \in {} |-> {}]
Erase(m, d) == [e \in DOMAIN m \ {d} |-> m[e]]
Store(m, d, l) == [e \in DOMAIN m \cup {d} |-> IF e = d THEN l ELSE m[e]]
ListingOf(m, d) == IF d \in DOMAIN m THEN m[d] ELSE {}

Initialized == DOMAIN cache # {}
Now == clock + ClockSkew

-----------------------------------------------------------------------------
(* The service's tree changes.  A change stamped before lastUpdate is      *)
(* never reported to this client: the history variable lost records it.    *)

Affected(p) == {p} \cup Children(p)

Changed(p) ==
  /\ ts' = [ts EXCEPT ![p] = clock]
  /\ changedSince' = IF \E t \in Threads : pc[t] = "stamp"
                     THEN changedSince \cup Affected(p) ELSE changedSince
  /\ lost' = IF clock < lastUpdate THEN lost \cup Affected(p) ELSE lost
  /\ fresh' = [t \in Threads |->
                 fresh[t] /\ op[t].path \notin Affected(p) \cup Below(p) \cup {Parent(p)}]
  /\ UNCHANGED << clock, cache, lastUpdate, mutex, phase, toVisit, pc, op, pass >>

\* A file or directory is created, or a file is written again.
Put(p, k) ==
  /\ IsDirectory(Parent(p))
  /\ k \in KindsOf[p]
  /\ kind[p] = "none" \/ (kind[p] = "file" /\ k = "file")
  /\ kind' = [kind EXCEPT ![p] = k]
  /\ Changed(p)

\* A path is deleted with all that is below it; only the path is stamped.
Delete(p) ==
  /\ kind[p] # "none"
  /\ kind' = [q \in Paths |-> IF q = p \/ q \in Below(p) THEN "none" ELSE kind[q]]
  /\ Changed(p)

Tick ==
  /\ clock < MaxClock
  /\ clock' = clock + 1
  /\ UNCHANGED << kind, ts, cache, lastUpdate, mutex, phase, toVisit, pc, op, pass,
                  changedSince, lost, fresh >>

-----------------------------------------------------------------------------
(* InitializeFileInformationCache: StartFuseWorker fills the cache before  *)
(* the FUSE loop, and with it any callback, runs.                          *)

InitializeFileInformationCache ==
  /\ phase = "stopped"
  /\ ~Initialized
  /\ phase' = "walk"
  /\ lastUpdate' = Now
  /\ toVisit' = {Root}
  /\ lost' = {}
  /\ UNCHANGED << server, cache, mutex, pc, op, pass, changedSince, fresh >>

\* Paths that the listing of d brings up to date: what is not a directory.
Settled(d) == {p \in Children(d) : kind[p] # "dir"}

\* One round of the walk: the listing of the path on top of the stack.  The
\* order in which siblings are visited is the service's, so any of them.
VisitDirectory(d) ==
  /\ phase = "walk"
  /\ d \in toVisit
  /\ IsDirectory(d)
  /\ cache' = Store(cache, d, ServiceListing(d))
  /\ toVisit' = (toVisit \ {d}) \cup {p \in Children(d) : kind[p] = "dir"}
  /\ lost' = lost \ Settled(d)
  /\ UNCHANGED << server, lastUpdate, mutex, phase, pc, op, pass, changedSince, fresh >>

\* The listing fails, or the directory has gone: the walk goes on without it.
SkipDirectory(d) ==
  /\ phase = "walk"
  /\ d \in toVisit
  /\ toVisit' = toVisit \ {d}
  /\ lost' = lost \cup {d} \cup Below(d)
  /\ UNCHANGED << server, cache, lastUpdate, mutex, phase, pc, op, pass, changedSince,
                  fresh >>

\* Seeded fault: the time is taken after the walk instead of before it.
FinishWalkStamping ==
  /\ phase = "walk"
  /\ toVisit = {}
  /\ phase' = "run"
  /\ lastUpdate' = Now
  /\ UNCHANGED << server, cache, mutex, toVisit, pc, op, pass, changedSince, lost, fresh >>

FinishWalk ==
  /\ phase = "walk"
  /\ toVisit = {}
  /\ phase' = "run"
  /\ UNCHANGED << server, cache, lastUpdate, mutex, toVisit, pc, op, pass, changedSince,
                  lost, fresh >>

\* CleanupWorkerContext calls it when fuse_loop_mt has returned, so that no
\* callback is running.  An empty cache is left alone, its time included.
UninitializeFileInformationCache ==
  /\ phase = "run"
  /\ \A t \in Threads : pc[t] = "idle"
  /\ phase' = "stopped"
  /\ cache' = NoListings
  /\ lastUpdate' = IF Initialized THEN 0 ELSE lastUpdate
  /\ UNCHANGED << server, mutex, toVisit, pc, op, pass, changedSince, lost, fresh >>

-----------------------------------------------------------------------------
(* UpdateFileInformationCache, called first thing by both callbacks.       *)

\* Seeded fault: the early return of an update without a cache is missing.
AlwaysUpdates == TRUE

\* UpdateFileInformationCache returns at once if there is no cache.
UpdatesCache == Initialized

\* A callback begins; the unlocked check of the cache decides whether it
\* goes for the mutex or straight to its lookup.
BeginCallback(t, c) ==
  /\ phase = "run"
  /\ pc[t] = "idle"
  /\ op' = [op EXCEPT ![t] = c]
  /\ pc' = [pc EXCEPT ![t] = IF UpdatesCache THEN "lock" ELSE "lookup"]
  /\ fresh' = [fresh EXCEPT ![t] = UpdatesCache]
  /\ UNCHANGED << server, cache, lastUpdate, mutex, phase, toVisit, pass, changedSince, lost >>

LockForUpdate(t) ==
  /\ pc[t] = "lock"
  /\ mutex = NoThread
  /\ mutex' = t
  /\ pc' = [pc EXCEPT ![t] = "list"]
  /\ UNCHANGED << server, cache, lastUpdate, phase, toVisit, op, pass, changedSince, lost,
                  fresh >>

\* Seeded fault: an update that ends keeps the mutex.
EndUpdateLocked(t) ==
  /\ mutex' = mutex
  /\ pc' = [pc EXCEPT ![t] = "lookup"]
  /\ batch' = {}
  /\ current' = NoPath

\* The update returns: the lock_guard lets go of the mutex.
EndUpdate(t) ==
  /\ mutex' = NoThread
  /\ pc' = [pc EXCEPT ![t] = "lookup"]
  /\ batch' = {}
  /\ current' = NoPath

ListRecentUpdatedFiles(t) ==
  /\ pc[t] = "list"
  /\ batch' = RecentUpdates(lastUpdate)
  /\ pc' = [pc EXCEPT ![t] = IF batch' = {} THEN "items" ELSE "stamp"]
  /\ changedSince' = {}
  /\ UNCHANGED << server, cache, lastUpdate, mutex, phase, toVisit, op, current, lost,
                  fresh >>

ListRecentUpdatedFilesFails(t) ==
  /\ pc[t] = "list"
  /\ EndUpdate(t)
  /\ fresh' = [fresh EXCEPT ![t] = FALSE]
  /\ UNCHANGED << server, cache, lastUpdate, phase, toVisit, op, changedSince, lost >>

\* The list is not empty: the time of the last update is now.  What changed
\* after the list was made and before now is in no list, this or a later one.
StampUpdateTime(t) ==
  /\ pc[t] = "stamp"
  /\ lastUpdate' = Now
  /\ lost' = lost \cup {p \in changedSince : ts[p] < Now}
                  \cup {p \in changedSince : Parent(p) \in Paths /\ ts[Parent(p)] < Now}
  /\ changedSince' = {}
  /\ pc' = [pc EXCEPT ![t] = "items"]
  /\ UNCHANGED << server, cache, mutex, phase, toVisit, op, pass, fresh >>

\* Seeded fault: the entry of the same name is left where it was.
DroppedListing(m, p) == {Erase(m, p)}

\* Takes an item out of the cache: its own listing, if it has one, and the
\* first entry of its name in its directory's listing.
Dropped(m, p) ==
  LET n == Erase(m, p)
      d == Parent(p)
      same == {e \in ListingOf(n, d) : e.path = p}
  IN  IF same = {} THEN {n} ELSE {Store(n, d, n[d] \ {e}) : e \in same}

ProcessItem(t) ==
  /\ pc[t] = "items"
  /\ \E item \in batch :
       /\ batch' = batch \ {item}
       /\ cache' \in Dropped(cache, item.path)
       /\ current' = IF item.deleted THEN NoPath ELSE item.path
       /\ pc' = [pc EXCEPT ![t] = IF item.deleted THEN "items" ELSE "fetch"]
       /\ lost' = IF item.deleted /\ kind[item.path] # "none"
                  THEN lost \cup Affected(item.path) ELSE lost
  /\ UNCHANGED << server, lastUpdate, mutex, phase, toVisit, op, changedSince, fresh >>

\* Seeded fault: the error for a missing path is taken for an answer.
FoundAnyway(p) == p \in Paths

\* "/v6/userfile/get" has an answer for what exists.
Found(p) == kind[p] # "none"

\* GetFileInformation answers: the entry is appended to the directory's
\* listing, which operator[] creates if the directory was not cached.
FetchInformation(t) ==
  /\ pc[t] = "fetch"
  /\ Found(current)
  /\ cache' = Store(cache, Parent(current),
                    ListingOf(cache, Parent(current)) \cup {ServiceEntry(current)})
  /\ pc' = [pc EXCEPT ![t] = IF kind[current] = "dir" THEN "relist" ELSE "items"]
  /\ current' = IF kind[current] = "dir" THEN current ELSE NoPath
  /\ lost' = lost \ {current}
  /\ UNCHANGED << server, lastUpdate, mutex, phase, toVisit, op, batch, changedSince,
                  fresh >>

RelistDirectory(t) ==
  /\ pc[t] = "relist"
  /\ IsDirectory(current)
  /\ cache' = Store(cache, current, ServiceListing(current))
  /\ pc' = [pc EXCEPT ![t] = "items"]
  /\ current' = NoPath
  /\ lost' = lost \ Settled(current)
  /\ UNCHANGED << server, lastUpdate, mutex, phase, toVisit, op, batch, changedSince,
                  fresh >>

\* GetFileInformation or GetFileList throws (the call failed, or there is no
\* such path any more): catch (...) drops the rest of the list.
AbortUpdate(t) ==
  /\ pc[t] \in {"fetch", "relist"}
  /\ lost' = lost \cup UNION {Affected(p) : p \in {current} \cup {i.path : i \in batch}}
  /\ EndUpdate(t)
  /\ fresh' = [fresh EXCEPT ![t] = FALSE]
  /\ UNCHANGED << server, cache, lastUpdate, phase, toVisit, op, changedSince >>

FinishUpdate(t) ==
  /\ pc[t] = "items"
  /\ batch = {}
  /\ EndUpdate(t)
  /\ UNCHANGED << server, cache, lastUpdate, phase, toVisit, op, changedSince, lost, fresh >>

-----------------------------------------------------------------------------
(* The callbacks' own reading of the cache.                                *)

\* GetAttributesCallback: the entry of that name in the directory's listing.
Attributes(p) == {e \in ListingOf(cache, Parent(p)) : e.path = p}

\* ReadDirectoryCallback: the directory's listing.  Without such an entry, or
\* without a listing, the answer is -ENOENT.
Answer(c) ==
  IF c.call = "getattr"
  THEN [found |-> Attributes(c.path) # {}, entries |-> Attributes(c.path)]
  ELSE [found |-> c.path \in DOMAIN cache, entries |-> ListingOf(cache, c.path)]

\* The call is over and its locals are gone.
Return(t) ==
  /\ pc' = [pc EXCEPT ![t] = "idle"]
  /\ op' = [op EXCEPT ![t] = NoCall]
  /\ fresh' = [fresh EXCEPT ![t] = FALSE]

\* Seeded fault: the callback reads the map without the mutex.
LookupUnlocked(t) ==
  /\ pc[t] = "lookup"
  /\ Return(t)
  /\ UNCHANGED << server, cache, lastUpdate, mutex, phase, toVisit, pass, changedSince, lost >>

\* The callback reads the map under the mutex and returns Answer(op[t]).
Lookup(t) ==
  /\ pc[t] = "lookup"
  /\ mutex = NoThread
  /\ Return(t)
  /\ UNCHANGED << server, cache, lastUpdate, mutex, phase, toVisit, pass, changedSince, lost >>

-----------------------------------------------------------------------------
Init ==
  /\ kind \in [Paths -> Kinds]
  /\ \A p \in Paths : kind[p] # "none" => IsDirectory(Parent(p)) /\ kind[p] \in KindsOf[p]
  /\ ts = [p \in Paths |-> 0]
  /\ clock = 1
  /\ cache = NoListings
  /\ lastUpdate = 0
  /\ mutex = NoThread
  /\ phase = "stopped"
  /\ toVisit = {}
  /\ pc = [t \in Threads |-> "idle"]
  /\ op = [t \in Threads |-> NoCall]
  /\ batch = {}
  /\ current = NoPath
  /\ changedSince = {}
  /\ lost = {}
  /\ fresh = [t \in Threads |-> FALSE]

Service ==
  \/ \E p \in Paths, k \in {"file", "dir"} : Put(p, k)
  \/ \E p \in Paths : Delete(p)
  \/ Tick

Walk ==
  \/ \E d \in Dirs : VisitDirectory(d)
  \/ \E d \in Dirs : SkipDirectory(d)
  \/ FinishWalk

\* The steps of a callback that holds the mutex for its update.
Update(t) ==
  \/ ListRecentUpdatedFiles(t)
  \/ ListRecentUpdatedFilesFails(t)
  \/ StampUpdateTime(t)
  \/ ProcessItem(t)
  \/ FetchInformation(t)
  \/ RelistDirectory(t)
  \/ AbortUpdate(t)
  \/ FinishUpdate(t)

Callback(t) ==
  \/ \E c \in Calls : BeginCallback(t, c)
  \/ LockForUpdate(t)
  \/ Update(t)
  \/ Lookup(t)

Next ==
  \/ Service
  \/ InitializeFileInformationCache
  \/ Walk
  \/ UninitializeFileInformationCache
  \/ \E t \in Threads : Callback(t)

Spec == Init /\ [][Next]_vars

\* A thread that runs keeps running, and a remote call returns or fails: the
\* update of a thread goes on as long as it can.
FairSpec == Spec /\ \A t \in Threads : WF_vars(Update(t))

-----------------------------------------------------------------------------
(* Type invariant.                                                         *)
PassSteps == {"list", "stamp", "items", "fetch", "relist"}

TypeOK ==
  /\ kind \in [Paths -> Kinds]
  /\ ts \in [Paths -> 0 .. MaxClock]
  /\ clock \in 0 .. MaxClock
  /\ DOMAIN cache \subseteq Dirs
  /\ cache \in [DOMAIN cache -> SUBSET Entries]
  /\ lastUpdate \in Int
  /\ mutex \in Threads \cup {NoThread}
  /\ phase \in {"stopped", "walk", "run"}
  /\ toVisit \subseteq Dirs
  /\ pc \in [Threads -> {"idle", "lock", "lookup"} \cup PassSteps]
  /\ op \in [Threads -> Calls]
  /\ batch \subseteq Items
  /\ current \in Paths \cup {NoPath}
  /\ changedSince \subseteq Paths
  /\ lost \subseteq Dirs
  /\ fresh \in [Threads -> BOOLEAN]

\* The claim IsFileInformationCacheInitialized rests on (HccFuseWorker.cpp:29):
\* a cache that holds anything holds the root, so that "empty" and "not
\* initialized" are the same; no update, aborted or not, breaks that.
RootCached == Initialized => Root \in DOMAIN cache

\* No directory is shown with two entries of one name, whatever is renewed,
\* aborted or listed again in between.
UniqueNames ==
  \A d \in DOMAIN cache : \A e, f \in cache[d] : e.path = f.path => e = f

\* A path whose directory exists at the service.
Attached(p) == IsDirectory(Parent(p))

\* The next list will name the path or its directory.
Pending(p) == p \in ChangedSince(lastUpdate) \/ Parent(p) \in ChangedSince(lastUpdate)

Shown(p) == Attributes(p)
Expected(p) == {e \in ServiceListing(Parent(p)) : e.path = p}

\* Between updates, a reported path on which the cache and the service differ
\* will be reported by the next list, or is one of those the code gave up on:
\* below a directory the walk skipped, in the rest of an aborted update,
\* changed between an update's list and its time stamp, or changed at a time
\* this computer's clock had already passed.  Nothing else is ever missed.
UpdatesReachCache ==
  phase = "run" /\ mutex = NoThread /\ Initialized =>
    \A p \in Reported :
      Attached(p) /\ Shown(p) # Expected(p) => Pending(p) \/ p \in lost

\* The paths a call's answer tells about.
About(c) == IF c.call = "getattr" THEN {c.path} ELSE {c.path} \cup Children(c.path)

ServiceAnswer(c) ==
  IF c.call = "getattr"
  THEN [found |-> Expected(c.path) # {}, entries |-> Expected(c.path)]
  ELSE [found |-> IsDirectory(c.path), entries |-> ServiceListing(c.path)]

InScope(c) ==
  /\ About(c) \subseteq (Reported \cup {Root}) \ lost
  /\ IF c.call = "getattr" THEN Attached(c.path) ELSE IsDirectory(c.path)

\* A callback whose own update went through answers with what the service
\* has, if that has not changed since the callback began and none of it is
\* lost: no interleaving with another thread's update, finished or aborted,
\* shows it a file that is gone or hides one that is there.
AnswersAreCurrent ==
  [][\A t \in Threads :
       pc[t] = "lookup" /\ pc'[t] = "idle" /\ fresh[t] /\ InScope(op[t])
         => Answer(op[t]) = ServiceAnswer(op[t])]_vars

\* A thread that took the mutex for an update lets go of it, however the
\* update's remote calls end: no callback is shut out for good.
MutexReleased == \A t \in Threads : mutex = t ~> mutex = NoThread

\* What the comment at HccFuseWorker.cpp:29-30 says of a mounted drive: the
\* root is cached.  The walk that cannot list it leaves the cache empty.
MountedRootCached == phase = "run" => Root \in DOMAIN cache
=============================================================================
