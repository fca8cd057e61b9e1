--------------------- MODULE FileInformationCache_proofs ---------------------
(* Proofs about the file information cache, for any tree of paths, any     *)
(* number of FUSE threads and any skew of the clock.                       *)
EXTENDS FileInformationCache, SequenceTheorems, WellFoundedInduction, TLAPS

(***************************************************************************)
(* Lemmas about the tree and the map.                                      *)
(***************************************************************************)

\* No path is the root, and every path's directory is a directory.
LEMMA ParentIsDir == ASSUME NEW p \in Paths PROVE Parent(p) \in Dirs /\ p # Root
BY PathsAssumption

\* A map of listings stays one when a listing is assigned or erased.
Maps(m) == DOMAIN m \subseteq Dirs /\ m \in [DOMAIN m -> SUBSET Entries]

LEMMA StoreType ==
  ASSUME NEW m, Maps(m), NEW d \in Dirs, NEW l \in SUBSET Entries
  PROVE  Maps(Store(m, d, l)) /\ DOMAIN Store(m, d, l) = DOMAIN m \cup {d}
BY DEF Maps, Store

LEMMA EraseType ==
  ASSUME NEW m, Maps(m), NEW d
  PROVE  Maps(Erase(m, d)) /\ DOMAIN Erase(m, d) = DOMAIN m \ {d}
BY DEF Maps, Erase

LEMMA ListingType ==
  ASSUME NEW m, Maps(m), NEW d
  PROVE  ListingOf(m, d) \subseteq Entries
BY DEF Maps, ListingOf

\* What the service lists are entries.
LEMMA ServiceEntryType ==
  ASSUME TypeOK, NEW p \in Paths, kind[p] # "none"
  PROVE  ServiceEntry(p) \in Entries
BY DEF TypeOK, ServiceEntry, Entries, Kinds

LEMMA ServiceListingType ==
  ASSUME TypeOK, NEW d
  PROVE  ServiceListing(d) \in SUBSET Entries
BY ServiceEntryType DEF ServiceListing, Children

\* The service's list of changes is a list of items.
LEMMA RecentUpdatesType == \A since : RecentUpdates(since) \subseteq Items
<1> TAKE since
<1>1. \A p \in ChangedSince(since) : p \in Paths
  BY ReportedAssumption DEF ChangedSince
<1>2. \A p \in Paths : (kind[p] = "none") \in BOOLEAN
  OBVIOUS
<1>3. \A p \in Paths, b \in BOOLEAN : [path |-> p, deleted |-> b] \in Items
  BY DEF Items
<1>4. \A p \in ChangedSince(since) : [path |-> p, deleted |-> kind[p] = "none"] \in Items
  BY <1>1, <1>2, <1>3, Zenon
<1> QED
  BY <1>4, Zenon DEF RecentUpdates

\* Dropping an item leaves a map, and the root's listing where it was.
LEMMA DroppedType ==
  ASSUME NEW m, Maps(m), NEW p \in Paths, NEW n \in Dropped(m, p)
  PROVE  Maps(n) /\ (Root \in DOMAIN m => Root \in DOMAIN n)
<1> DEFINE k == Erase(m, p)
           d == Parent(p)
           same == {e \in ListingOf(k, d) : e.path = p}
<1>1. Maps(k) /\ DOMAIN k = DOMAIN m \ {p}
  BY EraseType
<1>2. CASE same = {}
  BY <1>1, <1>2, ParentIsDir DEF Dropped
<1>3. CASE same # {}
  <2>1. PICK e \in same : n = Store(k, d, k[d] \ {e})
    BY <1>3 DEF Dropped
  <2>2. d \in DOMAIN k
    BY <2>1 DEF ListingOf
  <2>3. k[d] \ {e} \in SUBSET Entries
    BY <1>1, <2>2 DEF Maps
  <2>4. Maps(n) /\ DOMAIN n = DOMAIN k \cup {d}
    BY <1>1, <2>1, <2>3, StoreType, ParentIsDir
  <2> QED
    BY <1>1, <2>4, ParentIsDir
<1> QED
  BY <1>2, <1>3

(***************************************************************************)
(* The mutex: a thread is between its lock and its unlock exactly when the *)
(* mutex is its own, and the item it processes is a path.                  *)
(***************************************************************************)
HolderInPass == \A t \in Threads : pc[t] \in PassSteps <=> mutex = t
CurrentIsPath == \A t \in Threads : pc[t] \in {"fetch", "relist"} => current \in Paths

TypeInv == TypeOK /\ HolderInPass /\ CurrentIsPath

LEMMA TypeInit == Init => TypeInv
<1> SUFFICES ASSUME Init PROVE TypeInv
  OBVIOUS
<1>1. NoCall \in Calls
  BY DEF NoCall, Calls, Dirs
<1>2. TypeOK
  BY <1>1, ClockAssumption DEF Init, TypeOK, NoListings
<1>3. HolderInPass /\ CurrentIsPath
  BY ThreadsAssumption DEF Init, HolderInPass, CurrentIsPath, PassSteps
<1> QED
  BY <1>2, <1>3 DEF TypeInv

LEMMA TypeStep == TypeInv /\ [Next]_vars => TypeInv'
<1> SUFFICES ASSUME TypeInv, [Next]_vars PROVE TypeInv'
  OBVIOUS
<1> USE DEF TypeInv
<1>0. NoCall \in Calls
  BY DEF NoCall, Calls, Dirs
<1>1. ASSUME NEW p \in Paths, NEW k \in {"file", "dir"}, Put(p, k) PROVE TypeInv'
  BY <1>1 DEF TypeOK, HolderInPass, CurrentIsPath, Put, Changed, Kinds, Affected,
              Children, Dirs, pass
<1>2. ASSUME NEW p \in Paths, Delete(p) PROVE TypeInv'
  BY <1>2 DEF TypeOK, HolderInPass, CurrentIsPath, Delete, Changed, Kinds, Affected,
              Children, Dirs, pass
<1>3. CASE Tick
  BY <1>3, ClockAssumption DEF TypeOK, HolderInPass, CurrentIsPath, Tick, pass
<1>4. CASE InitializeFileInformationCache
  BY <1>4, ClockAssumption DEF TypeOK, HolderInPass, CurrentIsPath,
     InitializeFileInformationCache, Now, Dirs, server, pass
<1>5. ASSUME NEW d \in Dirs, VisitDirectory(d) PROVE TypeInv'
  <2>1. Maps(cache')
    BY <1>5, StoreType, ServiceListingType DEF VisitDirectory, TypeOK, Maps
  <2> QED
    BY <1>5, <2>1 DEF TypeOK, Maps, HolderInPass, CurrentIsPath, VisitDirectory,
       Children, Dirs, server, pass
<1>6. ASSUME NEW d \in Dirs, SkipDirectory(d) PROVE TypeInv'
  BY <1>6 DEF TypeOK, HolderInPass, CurrentIsPath, SkipDirectory, Below, Dirs, server, pass
<1>7. CASE FinishWalk
  BY <1>7 DEF TypeOK, HolderInPass, CurrentIsPath, FinishWalk, server, pass
<1>8. CASE UninitializeFileInformationCache
  BY <1>8 DEF TypeOK, HolderInPass, CurrentIsPath, UninitializeFileInformationCache,
     NoListings, server, pass
<1>9. ASSUME NEW t \in Threads, NEW c \in Calls, BeginCallback(t, c) PROVE TypeInv'
  BY <1>9 DEF TypeOK, HolderInPass, CurrentIsPath, BeginCallback, PassSteps, UpdatesCache,
     Initialized, server, pass
<1>10. ASSUME NEW t \in Threads, LockForUpdate(t) PROVE TypeInv'
  BY <1>10, ThreadsAssumption DEF TypeOK, HolderInPass, CurrentIsPath, LockForUpdate,
     PassSteps, server, pass
<1>11. ASSUME NEW t \in Threads, ListRecentUpdatedFiles(t) PROVE TypeInv'
  <2>1. batch' \subseteq Items
    BY <1>11, RecentUpdatesType DEF ListRecentUpdatedFiles
  <2> QED
    BY <1>11, <2>1 DEF TypeOK, HolderInPass, CurrentIsPath, ListRecentUpdatedFiles,
       PassSteps, server
<1>12. ASSUME NEW t \in Threads, ListRecentUpdatedFilesFails(t) PROVE TypeInv'
  BY <1>12, ThreadsAssumption DEF TypeOK, HolderInPass, CurrentIsPath,
     ListRecentUpdatedFilesFails, EndUpdate, PassSteps, server
<1>13. ASSUME NEW t \in Threads, StampUpdateTime(t) PROVE TypeInv'
  BY <1>13, ClockAssumption DEF TypeOK, HolderInPass, CurrentIsPath, StampUpdateTime, Now,
     PassSteps, Dirs, server, pass
<1>14. ASSUME NEW t \in Threads, ProcessItem(t) PROVE TypeInv'
  <2>1. PICK item \in batch :
          /\ batch' = batch \ {item}
          /\ cache' \in Dropped(cache, item.path)
          /\ current' = IF item.deleted THEN NoPath ELSE item.path
          /\ pc' = [pc EXCEPT ![t] = IF item.deleted THEN "items" ELSE "fetch"]
          /\ lost' = IF item.deleted /\ kind[item.path] # "none"
                     THEN lost \cup Affected(item.path) ELSE lost
    BY <1>14 DEF ProcessItem
  <2>2. item \in Items /\ item.path \in Paths /\ item.deleted \in BOOLEAN
    BY DEF TypeOK, Items
  <2>3. Maps(cache')
    BY <2>1, <2>2, DroppedType DEF TypeOK, Maps
  <2>4. lost' \subseteq Dirs
    BY <2>1, <2>2 DEF TypeOK, Affected, Children, Dirs
  <2>5. TypeOK'
    BY <1>14, <2>1, <2>2, <2>3, <2>4 DEF ProcessItem, TypeOK, Maps, PassSteps, server
  <2>6. HolderInPass' /\ CurrentIsPath'
    BY <1>14, <2>1, <2>2 DEF ProcessItem, TypeOK, HolderInPass, CurrentIsPath, PassSteps
  <2> QED
    BY <2>5, <2>6
<1>15. ASSUME NEW t \in Threads, FetchInformation(t) PROVE TypeInv'
  <2>1. current \in Paths /\ mutex = t
    BY <1>15 DEF FetchInformation, CurrentIsPath, HolderInPass, PassSteps
  <2>2. ListingOf(cache, Parent(current)) \cup {ServiceEntry(current)} \in SUBSET Entries
    BY <1>15, <2>1, ListingType, ServiceEntryType DEF FetchInformation, Found, TypeOK, Maps
  <2>3. Maps(cache')
    BY <1>15, <2>1, <2>2, StoreType, ParentIsDir DEF FetchInformation, TypeOK, Maps
  <2> QED
    BY <1>15, <2>1, <2>3 DEF FetchInformation, TypeOK, Maps, HolderInPass, CurrentIsPath,
       PassSteps, server
<1>16. ASSUME NEW t \in Threads, RelistDirectory(t) PROVE TypeInv'
  <2>1. current \in Paths /\ mutex = t
    BY <1>16 DEF RelistDirectory, CurrentIsPath, HolderInPass, PassSteps
  <2>2. Maps(cache')
    BY <1>16, <2>1, StoreType, ServiceListingType DEF RelistDirectory, TypeOK, Maps, Dirs
  <2> QED
    BY <1>16, <2>1, <2>2 DEF RelistDirectory, TypeOK, Maps, HolderInPass, CurrentIsPath,
       PassSteps, server
<1>17. ASSUME NEW t \in Threads, AbortUpdate(t) PROVE TypeInv'
  <2>1. current \in Paths /\ mutex = t
    BY <1>17 DEF AbortUpdate, CurrentIsPath, HolderInPass, PassSteps
  <2>2. {i.path : i \in batch} \subseteq Paths
    BY DEF TypeOK, Items
  <2>3. lost' \subseteq Dirs
    BY <1>17, <2>1, <2>2 DEF AbortUpdate, TypeOK, Affected, Children, Dirs
  <2> QED
    BY <1>17, <2>1, <2>3, ThreadsAssumption DEF AbortUpdate, EndUpdate, TypeOK,
       HolderInPass, CurrentIsPath, PassSteps, server
<1>18. ASSUME NEW t \in Threads, FinishUpdate(t) PROVE TypeInv'
  BY <1>18, ThreadsAssumption DEF FinishUpdate, EndUpdate, TypeOK, HolderInPass,
     CurrentIsPath, PassSteps, server
<1>19. ASSUME NEW t \in Threads, Lookup(t) PROVE TypeInv'
  BY <1>0, <1>19 DEF Lookup, Return, TypeOK, HolderInPass, CurrentIsPath, PassSteps, server, pass
<1>20. CASE UNCHANGED vars
  BY <1>20 DEF vars, TypeOK, HolderInPass, CurrentIsPath
<1> QED
  BY <1>1, <1>2, <1>3, <1>4, <1>5, <1>6, <1>7, <1>8, <1>9, <1>10, <1>11, <1>12, <1>13,
     <1>14, <1>15, <1>16, <1>17, <1>18, <1>19, <1>20
     DEF Next, Service, Walk, Callback, Update

\* The cache, the lists and the threads always have the values their types
\* allow, and the mutex always belongs to the thread that is updating.
THEOREM TypeCorrect == Spec => []TypeOK
<1>1. TypeInv => TypeOK
  BY DEF TypeInv
<1> QED
  BY <1>1, TypeInit, TypeStep, PTL DEF Spec

(***************************************************************************)
(* The root is cached.  RootCached alone is not inductive: an update keeps *)
(* the root's listing only because no update starts without one, and the   *)
(* walk stores it first only because nothing but the root is on the stack  *)
(* as long as nothing is cached.                                           *)
(***************************************************************************)
RootInv ==
  /\ RootCached
  /\ phase = "stopped" => ~Initialized
  /\ phase = "walk" /\ ~Initialized => toVisit \subseteq {Root}
  /\ \A t \in Threads : pc[t] # "idle" => phase = "run"
  /\ \A t \in Threads : pc[t] \in {"lock"} \cup PassSteps => Root \in DOMAIN cache

LEMMA RootInit == Init => RootInv
BY DEF Init, RootInv, RootCached, Initialized, NoListings, PassSteps

LEMMA RootStep == TypeInv /\ RootInv /\ [Next]_vars => RootInv'
<1> SUFFICES ASSUME TypeInv, RootInv, [Next]_vars PROVE RootInv'
  OBVIOUS
<1> USE DEF TypeInv, RootInv, RootCached, Initialized
<1>1. ASSUME NEW p \in Paths, NEW k \in {"file", "dir"}, Put(p, k) PROVE RootInv'
  BY <1>1 DEF Put, Changed
<1>2. ASSUME NEW p \in Paths, Delete(p) PROVE RootInv'
  BY <1>2 DEF Delete, Changed
<1>3. CASE Tick
  BY <1>3 DEF Tick
<1>4. CASE InitializeFileInformationCache
  BY <1>4 DEF InitializeFileInformationCache, PassSteps
<1>5. ASSUME NEW d \in Dirs, VisitDirectory(d) PROVE RootInv'
  <2>1. DOMAIN cache' = DOMAIN cache \cup {d}
    BY <1>5, StoreType, ServiceListingType DEF VisitDirectory, TypeOK, Maps
  <2>2. Root \in DOMAIN cache'
    BY <1>5, <2>1 DEF VisitDirectory
  <2> QED
    BY <1>5, <2>1, <2>2 DEF VisitDirectory, PassSteps
<1>6. ASSUME NEW d \in Dirs, SkipDirectory(d) PROVE RootInv'
  BY <1>6 DEF SkipDirectory
<1>7. CASE FinishWalk
  BY <1>7 DEF FinishWalk
<1>8. CASE UninitializeFileInformationCache
  BY <1>8 DEF UninitializeFileInformationCache, NoListings, PassSteps
<1>9. ASSUME NEW t \in Threads, NEW c \in Calls, BeginCallback(t, c) PROVE RootInv'
  BY <1>9 DEF BeginCallback, UpdatesCache, PassSteps, TypeOK
<1>10. ASSUME NEW t \in Threads, LockForUpdate(t) PROVE RootInv'
  BY <1>10 DEF LockForUpdate, PassSteps, TypeOK
<1>11. ASSUME NEW t \in Threads, ListRecentUpdatedFiles(t) PROVE RootInv'
  BY <1>11 DEF ListRecentUpdatedFiles, PassSteps, TypeOK
<1>12. ASSUME NEW t \in Threads, ListRecentUpdatedFilesFails(t) PROVE RootInv'
  BY <1>12 DEF ListRecentUpdatedFilesFails, EndUpdate, PassSteps, TypeOK
<1>13. ASSUME NEW t \in Threads, StampUpdateTime(t) PROVE RootInv'
  BY <1>13 DEF StampUpdateTime, PassSteps, TypeOK
<1>14. ASSUME NEW t \in Threads, ProcessItem(t) PROVE RootInv'
  <2>1. PICK item \in batch : /\ cache' \in Dropped(cache, item.path)
                              /\ pc' = [pc EXCEPT ![t] = IF item.deleted THEN "items" ELSE "fetch"]
    BY <1>14 DEF ProcessItem
  <2>2. item.path \in Paths
    BY DEF TypeOK, Items
  <2>3. Root \in DOMAIN cache
    BY <1>14 DEF ProcessItem, PassSteps
  <2>4. Root \in DOMAIN cache'
    BY <2>1, <2>2, <2>3, DroppedType DEF TypeOK, Maps
  <2>5. phase = "run" /\ phase' = phase
    BY <1>14 DEF ProcessItem
  <2> QED
    BY <2>4, <2>5 DEF PassSteps
<1>15. ASSUME NEW t \in Threads, FetchInformation(t) PROVE RootInv'
  <2>1. Root \in DOMAIN cache
    BY <1>15 DEF FetchInformation, PassSteps
  <2>2. Root \in DOMAIN cache'
    BY <1>15, <2>1 DEF FetchInformation, Store
  <2>3. phase = "run" /\ phase' = phase
    BY <1>15 DEF FetchInformation
  <2> QED
    BY <2>2, <2>3 DEF PassSteps
<1>16. ASSUME NEW t \in Threads, RelistDirectory(t) PROVE RootInv'
  <2>1. Root \in DOMAIN cache
    BY <1>16 DEF RelistDirectory, PassSteps
  <2>2. Root \in DOMAIN cache'
    BY <1>16, <2>1 DEF RelistDirectory, Store
  <2>3. phase = "run" /\ phase' = phase
    BY <1>16 DEF RelistDirectory
  <2> QED
    BY <2>2, <2>3 DEF PassSteps
<1>17. ASSUME NEW t \in Threads, AbortUpdate(t) PROVE RootInv'
  BY <1>17 DEF AbortUpdate, EndUpdate, PassSteps, TypeOK
<1>18. ASSUME NEW t \in Threads, FinishUpdate(t) PROVE RootInv'
  BY <1>18 DEF FinishUpdate, EndUpdate, PassSteps, TypeOK
<1>19. ASSUME NEW t \in Threads, Lookup(t) PROVE RootInv'
  BY <1>19 DEF Lookup, Return, PassSteps, TypeOK
<1>20. CASE UNCHANGED vars
  BY <1>20 DEF vars
<1> QED
  BY <1>1, <1>2, <1>3, <1>4, <1>5, <1>6, <1>7, <1>8, <1>9, <1>10, <1>11, <1>12, <1>13,
     <1>14, <1>15, <1>16, <1>17, <1>18, <1>19, <1>20
     DEF Next, Service, Walk, Callback, Update

\* A cache that holds anything holds the root: "empty" tells "not initialized"
\* for every tree, whatever the updates do and wherever they are cut short.
THEOREM RootAlwaysCached == Spec => []RootCached
<1>1. Init => TypeInv /\ RootInv
  BY TypeInit, RootInit
<1>2. TypeInv /\ RootInv /\ [Next]_vars => (TypeInv /\ RootInv)'
  BY TypeStep, RootStep
<1>3. RootInv => RootCached
  BY DEF RootInv
<1> QED
  BY <1>1, <1>2, <1>3, PTL DEF Spec

(***************************************************************************)
(* No name is listed twice.  What makes it inductive is that the item      *)
(* being fetched has been taken out of its directory's listing, and that   *)
(* only the thread with the mutex changes a listing until it is put back.  *)
(***************************************************************************)
OneEach(l) == \A e, f \in l : e.path = f.path => e = f
UniqueMap(m) == \A d \in DOMAIN m : OneEach(m[d])

UniqueInv ==
  /\ UniqueMap(cache)
  /\ \A t \in Threads : pc[t] = "fetch" =>
       \A e \in ListingOf(cache, Parent(current)) : e.path # current

LEMMA StoreUnique ==
  ASSUME NEW m, UniqueMap(m), NEW d, NEW l, OneEach(l)
  PROVE  UniqueMap(Store(m, d, l))
BY DEF UniqueMap, Store

LEMMA ServiceListingUnique == \A d : OneEach(ServiceListing(d))
BY DEF OneEach, ServiceListing, ServiceEntry

\* A dropped item's name is in its directory's listing no more.
LEMMA DroppedUnique ==
  ASSUME NEW m, UniqueMap(m), NEW p \in Paths, NEW n \in Dropped(m, p)
  PROVE  UniqueMap(n) /\ \A e \in ListingOf(n, Parent(p)) : e.path # p
<1> DEFINE k == Erase(m, p)
           d == Parent(p)
           same == {e \in ListingOf(k, d) : e.path = p}
<1>1. UniqueMap(k)
  BY DEF UniqueMap, Erase
<1>2. CASE same = {}
  BY <1>1, <1>2 DEF Dropped
<1>3. CASE same # {}
  <2>1. PICK e \in same : n = Store(k, d, k[d] \ {e})
    BY <1>3 DEF Dropped
  <2>2. d \in DOMAIN k /\ ListingOf(k, d) = k[d]
    BY <2>1 DEF ListingOf
  <2>3. OneEach(k[d])
    BY <1>1, <2>2 DEF UniqueMap
  <2>4. OneEach(k[d] \ {e}) /\ \A f \in k[d] \ {e} : f.path # p
    BY <2>1, <2>2, <2>3 DEF OneEach
  <2>5. ListingOf(n, d) = k[d] \ {e}
    BY <2>1 DEF ListingOf, Store
  <2> QED
    BY <1>1, <2>1, <2>4, <2>5, StoreUnique
<1> QED
  BY <1>2, <1>3

\* While one thread is in its update no other thread fetches.
LEMMA OthersDoNotFetch ==
  ASSUME TypeInv, NEW t \in Threads, pc[t] \in PassSteps, NEW u \in Threads, u # t
  PROVE  pc[u] # "fetch"
BY DEF TypeInv, HolderInPass, PassSteps

LEMMA UniqueInit == Init => UniqueInv
BY DEF Init, UniqueInv, UniqueMap, NoListings

LEMMA UniqueStep == TypeInv /\ RootInv /\ UniqueInv /\ [Next]_vars => UniqueInv'
<1> SUFFICES ASSUME TypeInv, RootInv, UniqueInv, [Next]_vars PROVE UniqueInv'
  OBVIOUS
<1> USE DEF TypeInv, UniqueInv
<1>1. ASSUME NEW p \in Paths, NEW k \in {"file", "dir"}, Put(p, k) PROVE UniqueInv'
  BY <1>1 DEF Put, Changed, pass
<1>2. ASSUME NEW p \in Paths, Delete(p) PROVE UniqueInv'
  BY <1>2 DEF Delete, Changed, pass
<1>3. CASE Tick
  BY <1>3 DEF Tick, pass
<1>4. CASE InitializeFileInformationCache
  BY <1>4 DEF InitializeFileInformationCache, pass
<1>5. ASSUME NEW d \in Dirs, VisitDirectory(d) PROVE UniqueInv'
  <2>1. UniqueMap(cache')
    BY <1>5, StoreUnique, ServiceListingUnique DEF VisitDirectory
  <2>2. \A t \in Threads : pc'[t] # "fetch"
    BY <1>5 DEF VisitDirectory, RootInv
  <2> QED
    BY <2>1, <2>2
<1>6. ASSUME NEW d \in Dirs, SkipDirectory(d) PROVE UniqueInv'
  BY <1>6 DEF SkipDirectory, pass
<1>7. CASE FinishWalk
  BY <1>7 DEF FinishWalk, pass
<1>8. CASE UninitializeFileInformationCache
  BY <1>8 DEF UninitializeFileInformationCache, UniqueMap, NoListings
<1>9. ASSUME NEW t \in Threads, NEW c \in Calls, BeginCallback(t, c) PROVE UniqueInv'
  BY <1>9 DEF BeginCallback, TypeOK, pass
<1>10. ASSUME NEW t \in Threads, LockForUpdate(t) PROVE UniqueInv'
  BY <1>10 DEF LockForUpdate, TypeOK, pass
<1>11. ASSUME NEW t \in Threads, ListRecentUpdatedFiles(t) PROVE UniqueInv'
  BY <1>11 DEF ListRecentUpdatedFiles, TypeOK
<1>12. ASSUME NEW t \in Threads, ListRecentUpdatedFilesFails(t) PROVE UniqueInv'
  BY <1>12, OthersDoNotFetch DEF ListRecentUpdatedFilesFails, EndUpdate, TypeOK, PassSteps
<1>13. ASSUME NEW t \in Threads, StampUpdateTime(t) PROVE UniqueInv'
  BY <1>13 DEF StampUpdateTime, TypeOK, pass
<1>14. ASSUME NEW t \in Threads, ProcessItem(t) PROVE UniqueInv'
  <2>1. PICK item \in batch :
          /\ cache' \in Dropped(cache, item.path)
          /\ current' = IF item.deleted THEN NoPath ELSE item.path
          /\ pc' = [pc EXCEPT ![t] = IF item.deleted THEN "items" ELSE "fetch"]
    BY <1>14 DEF ProcessItem
  <2>2. item.path \in Paths
    BY DEF TypeOK, Items
  <2>3. UniqueMap(cache') /\ \A e \in ListingOf(cache', Parent(item.path)) : e.path # item.path
    BY <2>1, <2>2, DroppedUnique
  <2>4. ASSUME NEW u \in Threads, pc'[u] = "fetch" PROVE u = t
    BY <1>14, <2>1, <2>4, OthersDoNotFetch DEF ProcessItem, TypeOK, PassSteps
  <2>5. ASSUME pc'[t] = "fetch" PROVE current' = item.path
    BY <2>1, <2>5 DEF TypeOK
  <2> QED
    BY <2>3, <2>4, <2>5
<1>15. ASSUME NEW t \in Threads, FetchInformation(t) PROVE UniqueInv'
  <2> DEFINE l == ListingOf(cache, Parent(current))
  <2>1. OneEach(l) /\ \A e \in l : e.path # current
    BY <1>15 DEF FetchInformation, UniqueMap, OneEach, ListingOf
  <2>2. OneEach(l \cup {ServiceEntry(current)})
    BY <2>1 DEF OneEach, ServiceEntry
  <2>3. UniqueMap(cache')
    BY <1>15, <2>2, StoreUnique DEF FetchInformation
  <2>4. \A u \in Threads : pc'[u] # "fetch"
    BY <1>15, OthersDoNotFetch DEF FetchInformation, TypeOK, PassSteps
  <2> QED
    BY <2>3, <2>4
<1>16. ASSUME NEW t \in Threads, RelistDirectory(t) PROVE UniqueInv'
  <2>1. UniqueMap(cache')
    BY <1>16, StoreUnique, ServiceListingUnique DEF RelistDirectory
  <2>2. \A u \in Threads : pc'[u] # "fetch"
    BY <1>16, OthersDoNotFetch DEF RelistDirectory, TypeOK, PassSteps
  <2> QED
    BY <2>1, <2>2
<1>17. ASSUME NEW t \in Threads, AbortUpdate(t) PROVE UniqueInv'
  BY <1>17, OthersDoNotFetch DEF AbortUpdate, EndUpdate, TypeOK, PassSteps
<1>18. ASSUME NEW t \in Threads, FinishUpdate(t) PROVE UniqueInv'
  BY <1>18, OthersDoNotFetch DEF FinishUpdate, EndUpdate, TypeOK, PassSteps
<1>19. ASSUME NEW t \in Threads, Lookup(t) PROVE UniqueInv'
  BY <1>19 DEF Lookup, Return, TypeOK, pass
<1>20. CASE UNCHANGED vars
  BY <1>20 DEF vars
<1> QED
  BY <1>1, <1>2, <1>3, <1>4, <1>5, <1>6, <1>7, <1>8, <1>9, <1>10, <1>11, <1>12, <1>13,
     <1>14, <1>15, <1>16, <1>17, <1>18, <1>19, <1>20
     DEF Next, Service, Walk, Callback, Update

\* No directory is ever shown with two entries of one name, for every tree,
\* every number of threads and every interleaving of their updates.
THEOREM NamesAlwaysUnique == Spec => []UniqueNames
<1>1. Init => TypeInv /\ RootInv /\ UniqueInv
  BY TypeInit, RootInit, UniqueInit
<1>2. TypeInv /\ RootInv /\ UniqueInv /\ [Next]_vars => (TypeInv /\ RootInv /\ UniqueInv)'
  BY TypeStep, RootStep, UniqueStep
<1>3. UniqueInv => UniqueNames
  BY DEF UniqueInv, UniqueMap, OneEach, UniqueNames
<1> QED
  BY <1>1, <1>2, <1>3, PTL DEF Spec
(***************************************************************************)
(* The tree of paths.                                                      *)
(***************************************************************************)
LEMMA PathLengths ==
  /\ \A p \in Dirs : p \in Seq(STRING) /\ Len(p) \in Nat
  /\ \A p \in Paths : Len(p) \in Nat \ {0} /\ Parent(p) \in Dirs /\ Len(Parent(p)) = Len(p) - 1
<1>0. << >> \in Seq(STRING)
  OBVIOUS
<1>1. \A p \in Dirs : p \in Seq(STRING) /\ Len(p) \in Nat
  <2>1. \A p \in Dirs : p \in Seq(STRING)
    BY <1>0, PathsAssumption, Zenon DEF Dirs, Root
  <2> QED
    BY <2>1
<1>2. ASSUME NEW p \in Paths PROVE Len(p) \in Nat \ {0} /\ Len(Parent(p)) = Len(p) - 1
  <2>1. p \in Seq(STRING) /\ p # << >>
    BY PathsAssumption DEF Root
  <2>2. Len(p) \in Nat \ {0} /\ \A i \in 1 .. Len(p) : p[i] \in STRING
    BY <2>1
  <2>3. ASSUME NEW n \in Nat, n <= Len(p) PROVE Len(SubSeq(p, 1, n)) = n
    BY <2>1, <2>2, <2>3
  <2>4. Len(p) - 1 \in Nat /\ Len(p) - 1 <= Len(p)
    BY <2>2
  <2>5. Len(SubSeq(p, 1, Len(p) - 1)) = Len(p) - 1
    BY <2>3, <2>4, Zenon
  <2> QED
    BY <2>2, <2>5 DEF Parent
<1> QED
  BY <1>1, <1>2, PathsAssumption

\* A beginning of a beginning is a beginning.
LEMMA Prefixes ==
  ASSUME NEW p \in Seq(STRING), NEW m \in 0 .. Len(p), NEW n \in 0 .. m
  PROVE  SubSeq(SubSeq(p, 1, m), 1, n) = SubSeq(p, 1, n)
<1>1. CASE n = 0
  BY <1>1, SubSeqEmpty
<1>2. CASE n # 0
  <2>1. m \in 1 .. Len(p) /\ 1 \in 1 .. Len(p) /\ n \in 1 .. m /\ 1 \in 1 .. m
    BY <1>2
  <2>2. 1 + 1 - 1 = 1 /\ 1 + n - 1 = n /\ m - 1 + 1 = m
    OBVIOUS
  <2>3. SubSeq(SubSeq(p, 1, m), 1, n) = SubSeq(p, 1 + 1 - 1, 1 + n - 1)
    BY <2>1, <2>2, SubSeqOfSubSeq
  <2> QED
    BY <2>2, <2>3
<1> QED
  BY <1>1, <1>2

\* A path's directory is the nearest of those it is below.
LEMMA BelowParent ==
  ASSUME NEW p \in Paths
  PROVE  p \in Below(Parent(p))
BY PathLengths DEF Below, Parent

LEMMA BelowSelf ==
  ASSUME NEW p \in Paths
  PROVE  Parent(p) # p /\ p \notin Below(p)
BY PathLengths DEF Below

LEMMA BelowRoot == \A p \in Paths : p \in Below(Root)
<1> TAKE p \in Paths
<1>1. SubSeq(p, 1, 0) = << >>
  BY SubSeqEmpty
<1> QED
  BY <1>1, PathLengths DEF Below, Root

LEMMA BelowTransitive ==
  ASSUME NEW a \in Dirs, NEW b \in Paths, NEW c \in Paths, b \in Below(a), c \in Below(b)
  PROVE  c \in Below(a)
<1>1. /\ Len(b) > Len(a) /\ SubSeq(b, 1, Len(a)) = a
      /\ Len(c) > Len(b) /\ SubSeq(c, 1, Len(b)) = b
  BY DEF Below
<1>2. c \in Seq(STRING) /\ Len(b) \in 0 .. Len(c) /\ Len(a) \in 0 .. Len(b)
  BY <1>1, PathLengths DEF Dirs
<1>3. SubSeq(SubSeq(c, 1, Len(b)), 1, Len(a)) = SubSeq(c, 1, Len(a))
  BY <1>2, Prefixes
<1>4. SubSeq(c, 1, Len(a)) = a
  BY <1>1, <1>3
<1>5. Len(c) > Len(a)
  BY <1>1, PathLengths DEF Dirs
<1> QED
  BY <1>4, <1>5 DEF Below

LEMMA ParentBelow ==
  ASSUME NEW a \in Dirs, NEW p \in Below(a)
  PROVE  Parent(p) = a \/ Parent(p) \in Below(a)
<1>1. p \in Paths /\ Len(p) > Len(a) /\ SubSeq(p, 1, Len(a)) = a
  BY DEF Below
<1>2. Len(p) \in Nat \ {0} /\ Len(a) \in Nat /\ p \in Seq(STRING)
  BY <1>1, PathLengths DEF Dirs
<1>3. CASE Len(a) = Len(p) - 1
  BY <1>1, <1>3 DEF Parent
<1>4. CASE Len(a) # Len(p) - 1
  <2>1. Len(p) - 1 \in 0 .. Len(p) /\ Len(a) \in 0 .. Len(p) - 1
    BY <1>1, <1>2
  <2>2. SubSeq(Parent(p), 1, Len(a)) = a
    BY <1>1, <1>2, <2>1, Prefixes DEF Parent
  <2>3. Len(Parent(p)) > Len(a) /\ Parent(p) \in Dirs
    BY <1>1, <1>2, <1>4, PathLengths
  <2>4. Parent(p) # Root
    BY <2>3, <1>2 DEF Root
  <2> QED
    BY <2>2, <2>3, <2>4 DEF Below, Dirs
<1> QED
  BY <1>3, <1>4

\* A child is below nothing but its directory's own ancestors.
LEMMA ChildrenBelow ==
  ASSUME NEW d \in Dirs, NEW p \in Children(d)
  PROVE  p \in Below(d)
BY BelowParent DEF Children
LEMMA LeastNumber ==
  ASSUME NEW T \in SUBSET Nat, T # {}
  PROVE  \E n \in T : \A m \in T : n <= m
<1>1. PICK n \in T : \A m \in T : ~ (<< m, n >> \in OpToRel(<, Nat))
  BY WFMin, NatLessThanWellFounded
<1>2. \A m \in T : ~ (m < n)
  BY <1>1 DEF OpToRel
<1> QED
  BY <1>2

LEMMA WayDown ==
  ASSUME NEW a \in Dirs
  PROVE  \A p \in Below(a) : Parent(p) = a \/ \E c \in Children(a) : p \in Below(c)
<1> DEFINE Reached(p) == Parent(p) = a \/ \E c \in Children(a) : p \in Below(c)
           T == {Len(p) : p \in {q \in Below(a) : ~Reached(q)}}
<1> SUFFICES ASSUME \E p \in Below(a) : ~Reached(p) PROVE FALSE
  OBVIOUS
<1>1. T \in SUBSET Nat /\ T # {}
  BY PathLengths DEF Below
<1> HIDE DEF Reached
<1>2. PICK p \in Below(a) : ~Reached(p) /\ \A n \in T : Len(p) <= n
  BY <1>1, LeastNumber
<1>3. p \in Paths /\ Len(p) \in Nat /\ Len(Parent(p)) = Len(p) - 1
  BY PathLengths DEF Below
<1>4. Parent(p) # a /\ Parent(p) \in Below(a)
  BY <1>2, ParentBelow DEF Reached
<1>5. Reached(Parent(p))
  BY <1>2, <1>3, <1>4
<1>6. Parent(p) \in Paths /\ p \in Below(Parent(p))
  BY <1>3, <1>4, BelowParent DEF Below
<1>7. CASE Parent(Parent(p)) = a
  BY <1>2, <1>6, <1>7 DEF Reached, Children
<1>8. ASSUME NEW c \in Children(a), Parent(p) \in Below(c) PROVE FALSE
  BY <1>2, <1>3, <1>6, <1>8, BelowTransitive DEF Reached, Children, Dirs
<1> QED
  BY <1>5, <1>7, <1>8 DEF Reached

Tree == \A p, q \in Paths : q \in Below(p) /\ kind[q] # "none" => kind[p] = "dir"

LEMMA TreeFromParents ==
  ASSUME \A p \in Paths : kind[p] # "none" => IsDirectory(Parent(p))
  PROVE  Tree
<1> SUFFICES ASSUME NEW p \in Paths,
                    \E q \in Paths : q \in Below(p) /\ kind[q] # "none" /\ kind[p] # "dir"
             PROVE  FALSE
  BY DEF Tree
<1> DEFINE T == {Len(q) : q \in {r \in Below(p) : kind[r] # "none"}}
<1>1. T \in SUBSET Nat /\ T # {}
  BY PathLengths DEF Below
<1>2. PICK q \in Below(p) : kind[q] # "none" /\ \A n \in T : Len(q) <= n
  BY <1>1, LeastNumber
<1>3. q \in Paths /\ Len(q) \in Nat /\ Len(Parent(q)) = Len(q) - 1
  BY PathLengths DEF Below
<1>4. IsDirectory(Parent(q)) /\ Parent(q) # Root
  <2>1. Parent(q) \in Below(p) \/ Parent(q) = p
    BY <1>3, ParentBelow DEF Dirs
  <2> QED
    BY <1>2, <1>3, <2>1, PathsAssumption DEF Below
<1>5. Parent(q) \in Below(p) /\ kind[Parent(q)] # "none"
  BY <1>3, <1>4, ParentBelow DEF IsDirectory, Dirs
<1>6. Len(Parent(q)) \in T
  BY <1>5
<1> QED
  BY <1>2, <1>3, <1>6
(***************************************************************************)
(* What is changed at the service reaches the cache.                       *)
(***************************************************************************)

\* Where the thread with the mutex is.
Stage == IF mutex = NoThread THEN "none" ELSE pc[mutex]

InBatch(p) == \E item \in batch : item.path = p
Listed(p) == Stage # "stamp" /\ p \in ChangedSince(lastUpdate)

\* The entry of a path is not what it should be, the update in progress will
\* not see to it and has not given it up, but a list or the walk will.
EntryWrong(p) == Attached(p) /\ Shown(p) # Expected(p)
EntryOnItsWay(p) ==
  \/ InBatch(p)
  \/ InBatch(Parent(p))
  \/ Stage = "fetch" /\ current = p
  \/ current = Parent(p)
  \/ p \in lost
EntryMissed(p) == EntryWrong(p) /\ ~EntryOnItsWay(p)
EntryAhead(p) ==
  \/ Listed(p)
  \/ Listed(Parent(p))
  \/ p \in changedSince
  \/ \E d \in toVisit : p \in Below(d)

\* The same of a directory whose listing the cache does not have.
ListingWrong(d) == IsDirectory(d) /\ d \notin DOMAIN cache
ListingOnItsWay(d) == InBatch(d) \/ current = d \/ d \in lost
ListingMissed(d) == ListingWrong(d) /\ ~ListingOnItsWay(d)
ListingAhead(d) ==
  \/ Listed(d)
  \/ d \in changedSince
  \/ \E e \in toVisit : d = e \/ d \in Below(e)

\* Outside an update there is nothing left of one.
NothingLeft ==
  /\ Stage \notin {"stamp", "items", "fetch", "relist"} => batch = {}
  /\ Stage \notin {"fetch", "relist"} => current = NoPath
  /\ Stage # "stamp" => changedSince = {}
  /\ phase # "walk" => toVisit = {}

Stamps == \A p \in Paths : ts[p] <= clock

Caught ==
  phase # "stopped" =>
    \A p \in Reported :
      /\ EntryMissed(p) => EntryAhead(p)
      /\ ListingMissed(p) => ListingAhead(p)

\* An entry is listed where it belongs.
Placed == \A d \in DOMAIN cache : \A e \in cache[d] : Parent(e.path) = d

\* What a callback will tell about is not missed from the moment its update
\* has been told what changed.
Answering(t) == pc[t] \in {"stamp", "items", "fetch", "relist", "lookup"}
FreshInv ==
  \A t \in Threads : fresh[t] =>
    /\ Root \in DOMAIN cache
    /\ pc[t] # "idle"
    /\ Answering(t) =>
         \A p \in Reported \cap About(op[t]) : ~EntryMissed(p) /\ ~ListingMissed(p)

LEMMA StageNow ==
  ASSUME TypeInv, NEW t \in Threads, pc[t] \in PassSteps
  PROVE  Stage = pc[t] /\ mutex = t
BY ThreadsAssumption DEF TypeInv, HolderInPass, Stage

LEMMA StageNext ==
  ASSUME TypeInv', NEW t \in Threads, pc'[t] \in PassSteps
  PROVE  Stage' = pc'[t] /\ mutex' = t
BY ThreadsAssumption DEF TypeInv, HolderInPass, Stage

LEMMA StageNone ==
  ASSUME TypeInv, Stage \in PassSteps
  PROVE  mutex \in Threads
BY DEF TypeInv, TypeOK, Stage, PassSteps

\* The threads that do not hold the mutex do not move the stage.
LEMMA StageStays ==
  /\ UNCHANGED << pc, mutex >> => Stage' = Stage
  /\ \A t \in Threads, c \in Calls : TypeInv /\ BeginCallback(t, c) => Stage' = Stage
  /\ \A t \in Threads : TypeInv /\ LockForUpdate(t) => Stage = "none" /\ Stage' = "list"
  /\ \A t \in Threads : TypeInv /\ Lookup(t) => Stage = "none" /\ Stage' = "none"
<1>1. UNCHANGED << pc, mutex >> => Stage' = Stage
  BY DEF Stage
<1>2. ASSUME NEW t \in Threads, NEW c \in Calls, TypeInv, BeginCallback(t, c) PROVE Stage' = Stage
  <2>1. pc[t] = "idle" /\ mutex # t /\ mutex' = mutex
    BY <1>2 DEF TypeInv, HolderInPass, BeginCallback, PassSteps
  <2>2. \A u \in Threads : u # t => pc'[u] = pc[u]
    BY <1>2 DEF BeginCallback, TypeInv, TypeOK
  <2> QED
    BY <1>2, <2>1, <2>2 DEF Stage, TypeInv, TypeOK
<1>3. ASSUME NEW t \in Threads, TypeInv, LockForUpdate(t) PROVE Stage = "none" /\ Stage' = "list"
  BY <1>3, ThreadsAssumption DEF Stage, LockForUpdate, TypeInv, TypeOK
<1>4. ASSUME NEW t \in Threads, TypeInv, Lookup(t) PROVE Stage = "none" /\ Stage' = "none"
  BY <1>4 DEF Lookup, Stage
<1> QED
  BY <1>1, <1>2, <1>3, <1>4

LEMMA StageEnds ==
  ASSUME NEW t \in Threads, EndUpdate(t)
  PROVE  Stage' = "none" /\ batch' = {} /\ current' = NoPath
BY DEF EndUpdate, Stage

LEMMA NothingLeftStep == TypeInv /\ RootInv /\ NothingLeft /\ [Next]_vars => NothingLeft'
<1> SUFFICES ASSUME TypeInv, RootInv, NothingLeft, [Next]_vars PROVE NothingLeft'
  OBVIOUS
<1>0. TypeInv'
  BY TypeStep
<1>1. ASSUME NEW p \in Paths, Changed(p), UNCHANGED << pc, mutex, phase, toVisit >>
      PROVE  NothingLeft'
  <2>1. Stage' = Stage /\ UNCHANGED << batch, current, phase, toVisit >>
    BY <1>1, StageStays DEF Changed, pass
  <2>2. ASSUME Stage # "stamp" PROVE changedSince' = changedSince
    BY <1>1, <2>2, StageNow DEF Changed, PassSteps
  <2> QED
    BY <2>1, <2>2 DEF NothingLeft
<1>2. ASSUME NEW p \in Paths, NEW k \in {"file", "dir"}, Put(p, k) PROVE NothingLeft'
  BY <1>1, <1>2 DEF Put, Changed
<1>3. ASSUME NEW p \in Paths, Delete(p) PROVE NothingLeft'
  BY <1>1, <1>3 DEF Delete, Changed
<1>4. ASSUME UNCHANGED << pc, mutex, pass, changedSince >>,
             phase' # "walk" => toVisit' = {}
      PROVE  NothingLeft'
  BY <1>4, StageStays DEF NothingLeft, pass
<1>5. ASSUME NEW d \in Dirs, VisitDirectory(d) PROVE NothingLeft'
  BY <1>4, <1>5 DEF VisitDirectory
<1>6. ASSUME NEW d \in Dirs, SkipDirectory(d) PROVE NothingLeft'
  BY <1>4, <1>6 DEF SkipDirectory
<1>7. CASE Tick \/ InitializeFileInformationCache \/ FinishWalk
           \/ UninitializeFileInformationCache \/ UNCHANGED vars
  BY <1>4, <1>7 DEF Tick, InitializeFileInformationCache, FinishWalk,
     UninitializeFileInformationCache, vars, pass, NothingLeft
<1>8. ASSUME NEW t \in Threads, NEW c \in Calls, BeginCallback(t, c) PROVE NothingLeft'
  BY <1>8, StageStays DEF BeginCallback, NothingLeft, pass
<1>9. ASSUME NEW t \in Threads, LockForUpdate(t) PROVE NothingLeft'
  BY <1>9, StageStays DEF LockForUpdate, NothingLeft, pass
<1>10. ASSUME NEW t \in Threads, Lookup(t) PROVE NothingLeft'
  BY <1>10, StageStays DEF Lookup, NothingLeft, pass
<1>11. ASSUME NEW t \in Threads, pc[t] \in PassSteps, EndUpdate(t),
              UNCHANGED << phase, toVisit, changedSince >>, pc[t] # "stamp"
       PROVE  NothingLeft'
  BY <1>11, StageEnds, StageNow DEF NothingLeft
<1>12. ASSUME NEW t \in Threads, ListRecentUpdatedFilesFails(t) PROVE NothingLeft'
  BY <1>11, <1>12 DEF ListRecentUpdatedFilesFails, PassSteps
<1>13. ASSUME NEW t \in Threads, AbortUpdate(t) PROVE NothingLeft'
  BY <1>11, <1>13 DEF AbortUpdate, PassSteps
<1>14. ASSUME NEW t \in Threads, FinishUpdate(t) PROVE NothingLeft'
  BY <1>11, <1>14 DEF FinishUpdate, PassSteps
<1>15. ASSUME NEW t \in Threads, pc[t] \in PassSteps, pc'[t] \in PassSteps,
              UNCHANGED << phase, toVisit >>,
              pc'[t] # "stamp" => changedSince' = {},
              pc'[t] \notin {"fetch", "relist"} => current' = NoPath,
              pc'[t] = "list" => batch' = {}
       PROVE  NothingLeft'
  BY <1>0, <1>15, StageNext DEF NothingLeft, PassSteps
<1>16. ASSUME NEW t \in Threads, ListRecentUpdatedFiles(t) PROVE NothingLeft'
  <2>1. Stage = "list"
    BY <1>16, StageNow DEF ListRecentUpdatedFiles, PassSteps
  <2> QED
    BY <1>15, <1>16, <2>1 DEF ListRecentUpdatedFiles, NothingLeft, PassSteps, TypeInv, TypeOK
<1>17. ASSUME NEW t \in Threads, StampUpdateTime(t) PROVE NothingLeft'
  <2>1. Stage = "stamp"
    BY <1>17, StageNow DEF StampUpdateTime, PassSteps
  <2> QED
    BY <1>15, <1>17, <2>1 DEF StampUpdateTime, NothingLeft, PassSteps, TypeInv, TypeOK, pass
<1>18. ASSUME NEW t \in Threads, ProcessItem(t) PROVE NothingLeft'
  <2>1. Stage = "items"
    BY <1>18, StageNow DEF ProcessItem, PassSteps
  <2> QED
    BY <1>15, <1>18, <2>1 DEF ProcessItem, NothingLeft, PassSteps, TypeInv, TypeOK
<1>19. ASSUME NEW t \in Threads, FetchInformation(t) PROVE NothingLeft'
  <2>1. Stage = "fetch"
    BY <1>19, StageNow DEF FetchInformation, PassSteps
  <2> QED
    BY <1>15, <1>19, <2>1 DEF FetchInformation, NothingLeft, PassSteps, TypeInv, TypeOK
<1>20. ASSUME NEW t \in Threads, RelistDirectory(t) PROVE NothingLeft'
  <2>1. Stage = "relist"
    BY <1>20, StageNow DEF RelistDirectory, PassSteps
  <2> QED
    BY <1>15, <1>20, <2>1 DEF RelistDirectory, NothingLeft, PassSteps, TypeInv, TypeOK
<1> QED
  BY <1>2, <1>3, <1>5, <1>6, <1>7, <1>8, <1>9, <1>10, <1>12, <1>13, <1>14, <1>16, <1>17,
     <1>18, <1>19, <1>20 DEF Next, Service, Walk, Callback, Update

-----------------------------------------------------------------------------
(* The service and its time stamps.                                        *)

\* Only the service's own steps change what it has.
LEMMA ServiceStays ==
  ASSUME [Next]_vars
  PROVE  \/ \E p \in Paths, k \in {"file", "dir"} : Put(p, k)
         \/ \E p \in Paths : Delete(p)
         \/ Tick
         \/ UNCHANGED server
BY DEF Next, Service, InitializeFileInformationCache, Walk,
   VisitDirectory, SkipDirectory, FinishWalk, UninitializeFileInformationCache, Callback,
   BeginCallback, LockForUpdate, Update, ListRecentUpdatedFiles, ListRecentUpdatedFilesFails,
   StampUpdateTime, ProcessItem, FetchInformation, RelistDirectory, AbortUpdate,
   FinishUpdate, Lookup, vars, server

LEMMA TreeStep == TypeOK /\ Tree /\ [Next]_vars => Tree'
<1> SUFFICES ASSUME TypeOK, Tree, [Next]_vars PROVE Tree'
  OBVIOUS
<1>1. ASSUME NEW p \in Paths, NEW k \in {"file", "dir"}, Put(p, k) PROVE Tree'
  <2> SUFFICES ASSUME NEW r \in Paths, NEW q \in Paths, q \in Below(r), kind'[q] # "none"
               PROVE  kind'[r] = "dir"
    BY DEF Tree, Below
  <2>1. kind' = [kind EXCEPT ![p] = k] /\ kind \in [Paths -> Kinds]
    BY <1>1 DEF Put, TypeOK
  <2>2. IsDirectory(Parent(p)) /\ (kind[p] = "none" \/ (kind[p] = "file" /\ k = "file"))
    BY <1>1 DEF Put
  <2>3. CASE q # p
    <3>1. kind[r] = "dir"
      BY <2>1, <2>3 DEF Tree
    <3> QED
      BY <2>1, <2>2, <3>1
  <2>4. CASE q = p
    <3>1. r # p
      BY <2>4, BelowSelf
    <3>2. kind[r] = "dir"
      <4>1. Parent(p) = r \/ Parent(p) \in Below(r)
        BY <2>4, ParentBelow DEF Dirs
      <4>2. CASE Parent(p) = r
        BY <2>2, <4>2, PathsAssumption DEF IsDirectory
      <4>3. CASE Parent(p) \in Below(r)
        BY <2>2, <4>3, PathsAssumption DEF IsDirectory, Tree, Below
      <4> QED
        BY <4>1, <4>2, <4>3
    <3> QED
      BY <2>1, <3>1, <3>2
  <2> QED
    BY <2>3, <2>4
<1>2. ASSUME NEW p \in Paths, Delete(p) PROVE Tree'
  <2> SUFFICES ASSUME NEW r \in Paths, NEW q \in Paths, q \in Below(r), kind'[q] # "none"
               PROVE  kind'[r] = "dir"
    BY DEF Tree, Below
  <2>1. kind' = [s \in Paths |-> IF s = p \/ s \in Below(p) THEN "none" ELSE kind[s]]
    BY <1>2 DEF Delete
  <2>2. q # p /\ q \notin Below(p) /\ kind[q] # "none"
    BY <2>1
  <2>3. r # p /\ r \notin Below(p)
    BY <2>2, BelowTransitive DEF Dirs
  <2> QED
    BY <2>1, <2>2, <2>3 DEF Tree
<1>3. CASE Tick \/ UNCHANGED server
  BY <1>3 DEF Tree, Below, Tick, server
<1> QED
  BY <1>1, <1>2, <1>3, ServiceStays

LEMMA StampsStep == TypeOK /\ Stamps /\ [Next]_vars => Stamps'
<1> SUFFICES ASSUME TypeOK, Stamps, [Next]_vars PROVE Stamps'
  OBVIOUS
<1> USE DEF TypeOK, Stamps
<1>1. ASSUME NEW p \in Paths, Changed(p) PROVE Stamps'
  BY <1>1, ClockAssumption DEF Changed
<1>2. CASE Tick
  BY <1>2, ClockAssumption DEF Tick
<1>3. CASE UNCHANGED server
  BY <1>3 DEF server
<1> QED
  BY <1>1, <1>2, <1>3, ServiceStays DEF Put, Delete

-----------------------------------------------------------------------------
(* What an entry and a listing depend on.                                  *)

LEMMA ExpectedIs ==
  /\ \A p \in Paths : Expected(p) = IF kind[p] = "none" THEN {} ELSE {ServiceEntry(p)}
  /\ \A p \in Paths : Expected(p)' = IF kind'[p] = "none" THEN {} ELSE {ServiceEntry(p)'}
<1>1. \A p \in Paths : p \in Children(Parent(p))
  BY DEF Children
<1>2. \A p \in Paths : Expected(p) = IF kind[p] = "none" THEN {} ELSE {ServiceEntry(p)}
  BY <1>1 DEF Expected, ServiceListing, ServiceEntry
<1>3. \A p \in Paths : Expected(p)' = IF kind'[p] = "none" THEN {} ELSE {ServiceEntry(p)'}
  BY <1>1 DEF Expected, ServiceListing, ServiceEntry, Children
<1> QED
  BY <1>2, <1>3

LEMMA EntryDepends ==
  ASSUME NEW p \in Paths, kind'[p] = kind[p], ts'[p] = ts[p],
         IsDirectory(Parent(p))' => IsDirectory(Parent(p)),
         Shown(p)' = Shown(p), EntryWrong(p)'
  PROVE  EntryWrong(p)
BY ExpectedIs DEF EntryWrong, Attached, ServiceEntry

LEMMA ListingDepends ==
  ASSUME NEW d, IsDirectory(d)' => IsDirectory(d),
         DOMAIN cache \subseteq DOMAIN cache', ListingWrong(d)'
  PROVE  ListingWrong(d)
BY DEF ListingWrong

\* Without a step of the service.
LEMMA ServerSame ==
  ASSUME UNCHANGED server
  PROVE  /\ \A p \in Paths : Expected(p)' = Expected(p)
         /\ \A d : IsDirectory(d)' = IsDirectory(d)
         /\ \A d : ServiceListing(d)' = ServiceListing(d)
         /\ \A p : Attached(p)' = Attached(p)
<1>1. kind' = kind /\ ts' = ts
  BY DEF server
<1> QED
  BY <1>1 DEF Expected, IsDirectory, ServiceListing, ServiceEntry, Attached

\* Without a change of the cache, either.
LEMMA CacheSame ==
  ASSUME UNCHANGED << server, cache >>
  PROVE  /\ \A p \in Paths : EntryWrong(p)' = EntryWrong(p)
         /\ \A d : ListingWrong(d)' = ListingWrong(d)
<1>1. \A p : Shown(p)' = Shown(p)
  BY DEF Shown, Attributes, ListingOf
<1> QED
  BY <1>1, ServerSame DEF EntryWrong, ListingWrong

-----------------------------------------------------------------------------
(* The steps, one by one: what they make wrong is on its way to be put     *)
(* right, and what was ahead still is.                                     *)

MissesNothing ==
  \A p \in Reported : /\ EntryMissed(p)' => EntryMissed(p)
                      /\ ListingMissed(p)' => ListingMissed(p)

KeepsAhead ==
  \A p \in Reported : /\ EntryMissed(p)' /\ EntryAhead(p) => EntryAhead(p)'
                      /\ ListingMissed(p)' /\ ListingAhead(p) => ListingAhead(p)'

Calm == Stage \notin {"fetch", "stamp"}

\* A step that moves a thread and nothing else.
LEMMA QuietStep ==
  ASSUME UNCHANGED << server, cache, lost, batch, current, lastUpdate, changedSince, toVisit >>,
         Stage' = Stage \/ (Calm /\ Calm')
  PROVE  MissesNothing /\ KeepsAhead
<1>1. \A p \in Paths : EntryWrong(p)' = EntryWrong(p)
  BY CacheSame
<1>2. \A d : ListingWrong(d)' = ListingWrong(d)
  BY CacheSame
<1>3. \A p : EntryOnItsWay(p)' <=> EntryOnItsWay(p)
  BY DEF EntryOnItsWay, InBatch, Calm
<1>4. \A p : ListingOnItsWay(p)' <=> ListingOnItsWay(p)
  BY DEF ListingOnItsWay, InBatch
<1>5. \A p : Listed(p)' <=> Listed(p)
  BY DEF Listed, ChangedSince, Calm, server
<1>6. \A p : EntryAhead(p)' <=> EntryAhead(p)
  BY <1>5 DEF EntryAhead, Below
<1>7. \A p : ListingAhead(p)' <=> ListingAhead(p)
  BY <1>5 DEF ListingAhead, Below
<1> QED
  BY <1>1, <1>2, <1>3, <1>4, <1>6, <1>7, ReportedAssumption
     DEF MissesNothing, KeepsAhead, EntryMissed, ListingMissed

\* During an update nothing is ahead but what will be listed.
LEMMA AheadInUpdate ==
  ASSUME TypeInv, RootInv, NothingLeft, Stage \in PassSteps
  PROVE  /\ \A p : EntryAhead(p) <=> Listed(p) \/ Listed(Parent(p)) \/ p \in changedSince
         /\ \A p : ListingAhead(p) <=> Listed(p) \/ p \in changedSince
         /\ phase = "run"
<1>1. phase = "run"
  <2>1. mutex \in Threads /\ pc[mutex] = Stage
    BY StageNone DEF Stage, PassSteps
  <2> QED
    BY <2>1 DEF RootInv, PassSteps
<1>2. toVisit = {}
  BY <1>1 DEF NothingLeft
<1> QED
  BY <1>1, <1>2 DEF EntryAhead, ListingAhead

\* A step in the middle of an update, which leaves lists and times alone.
LEMMA AheadStays ==
  ASSUME UNCHANGED << server, lastUpdate, changedSince, toVisit >>, Stage # "stamp",
         Stage' # "stamp"
  PROVE  KeepsAhead
<1>1. \A p : Listed(p)' <=> Listed(p)
  BY DEF Listed, ChangedSince, server
<1> QED
  BY <1>1 DEF KeepsAhead, EntryAhead, ListingAhead, Below

LEMMA BeginReaches ==
  ASSUME TypeInv, NEW t \in Threads, NEW c \in Calls, BeginCallback(t, c)
  PROVE  MissesNothing /\ KeepsAhead
BY StageStays, QuietStep DEF BeginCallback, pass

LEMMA LockReaches ==
  ASSUME TypeInv, NEW t \in Threads, LockForUpdate(t)
  PROVE  MissesNothing /\ KeepsAhead
BY StageStays, QuietStep DEF LockForUpdate, pass, Calm

LEMMA LookupReaches ==
  ASSUME TypeInv, NEW t \in Threads, Lookup(t)
  PROVE  MissesNothing /\ KeepsAhead
BY StageStays, QuietStep DEF Lookup, pass, Calm

LEMMA FailureReaches ==
  ASSUME TypeInv, NothingLeft, NEW t \in Threads, ListRecentUpdatedFilesFails(t)
  PROVE  MissesNothing /\ KeepsAhead
<1>1. Stage = "list"
  BY StageNow DEF ListRecentUpdatedFilesFails, PassSteps
<1>2. Stage' = "none" /\ batch' = {} /\ current' = NoPath
  BY StageEnds DEF ListRecentUpdatedFilesFails
<1> QED
  BY <1>1, <1>2, QuietStep DEF ListRecentUpdatedFilesFails, NothingLeft, Calm

LEMMA FinishReaches ==
  ASSUME TypeInv, NothingLeft, NEW t \in Threads, FinishUpdate(t)
  PROVE  MissesNothing /\ KeepsAhead
<1>1. Stage = "items"
  BY StageNow DEF FinishUpdate, PassSteps
<1>2. Stage' = "none" /\ batch' = {} /\ current' = NoPath
  BY StageEnds DEF FinishUpdate
<1> QED
  BY <1>1, <1>2, QuietStep DEF FinishUpdate, NothingLeft, Calm

\* The list brings what was ahead on its way.
LEMMA ListReaches ==
  ASSUME TypeInv, TypeInv', RootInv, NothingLeft, NEW t \in Threads, ListRecentUpdatedFiles(t)
  PROVE  /\ MissesNothing
         /\ \A p \in Reported : /\ EntryAhead(p) => ~EntryMissed(p)'
                                /\ ListingAhead(p) => ~ListingMissed(p)'
<1>1. Stage = "list" /\ Stage \in PassSteps
  BY StageNow DEF ListRecentUpdatedFiles, PassSteps
<1>2. Stage' # "fetch"
  <2>1. pc'[t] \in {"items", "stamp"}
    BY DEF ListRecentUpdatedFiles, TypeInv, TypeOK
  <2> QED
    BY <2>1, StageNext DEF PassSteps
<1>3. batch = {} /\ changedSince = {}
  BY <1>1 DEF NothingLeft
<1>4. UNCHANGED << server, cache, lost, current >> /\ batch' = RecentUpdates(lastUpdate)
  BY DEF ListRecentUpdatedFiles
<1>5. \A p \in Reported : EntryOnItsWay(p) => EntryOnItsWay(p)'
  BY <1>1, <1>3, <1>4 DEF EntryOnItsWay, InBatch
<1>6. \A p : ListingOnItsWay(p) => ListingOnItsWay(p)'
  BY <1>3, <1>4 DEF ListingOnItsWay, InBatch
<1>7. MissesNothing
  BY <1>4, <1>5, <1>6, CacheSame, ReportedAssumption DEF MissesNothing, EntryMissed, ListingMissed
<1>8. \A p : Listed(p) => InBatch(p)'
  <2> SUFFICES ASSUME NEW p, Listed(p) PROVE InBatch(p)'
    OBVIOUS
  <2> DEFINE item == [path |-> p, deleted |-> kind[p] = "none"]
  <2>1. item \in batch'
    BY <1>4, Zenon DEF Listed, RecentUpdates
  <2>2. item.path = p
    OBVIOUS
  <2> QED
    BY <2>1, <2>2, Zenon DEF InBatch
<1>9. \A p \in Reported : /\ EntryAhead(p) => EntryOnItsWay(p)'
                          /\ ListingAhead(p) => ListingOnItsWay(p)'
  BY <1>1, <1>3, <1>8, AheadInUpdate DEF EntryOnItsWay, ListingOnItsWay
<1> QED
  BY <1>7, <1>9 DEF EntryMissed, ListingMissed

LEMMA StampReaches ==
  ASSUME TypeInv, TypeInv', RootInv, NothingLeft, NEW t \in Threads, StampUpdateTime(t)
  PROVE  MissesNothing /\ KeepsAhead
<1>1. Stage = "stamp" /\ Stage \in PassSteps
  BY StageNow DEF StampUpdateTime, PassSteps
<1>2. Stage' = "items"
  <2>1. pc'[t] = "items"
    BY DEF StampUpdateTime, TypeInv, TypeOK
  <2> QED
    BY <2>1, StageNext DEF PassSteps
<1>3. UNCHANGED << server, cache, batch, current >> /\ lastUpdate' = Now
  BY DEF StampUpdateTime, pass
<1>4. lost \subseteq lost' /\ \A p \in changedSince : ts[p] < Now => p \in lost'
  BY DEF StampUpdateTime
<1>5. \A p : EntryOnItsWay(p) => EntryOnItsWay(p)'
  BY <1>1, <1>3, <1>4 DEF EntryOnItsWay, InBatch
<1>6. \A p : ListingOnItsWay(p) => ListingOnItsWay(p)'
  BY <1>3, <1>4 DEF ListingOnItsWay, InBatch
<1>7. MissesNothing
  BY <1>3, <1>5, <1>6, CacheSame, ReportedAssumption DEF MissesNothing, EntryMissed, ListingMissed
<1>8. \A p \in Reported : p \in changedSince => p \in lost' \/ Listed(p)'
  <2> SUFFICES ASSUME NEW p \in Reported, p \in changedSince, ~(ts[p] < Now)
               PROVE  Listed(p)'
    BY <1>4
  <2>1. ts[p] \in Int /\ Now \in Int
    BY ReportedAssumption, ClockAssumption DEF TypeInv, TypeOK, Now
  <2>2. ts'[p] >= lastUpdate'
    BY <1>3, <2>1 DEF server
  <2> QED
    BY <1>2, <2>2 DEF Listed, ChangedSince
<1>9. \A p : ~Listed(p)
  BY <1>1 DEF Listed
<1>10. KeepsAhead
  <2>1. \A p \in Reported : EntryAhead(p) => p \in lost' \/ EntryAhead(p)'
    BY <1>1, <1>8, <1>9, AheadInUpdate DEF EntryAhead
  <2>2. \A p \in Reported : ListingAhead(p) => p \in lost' \/ ListingAhead(p)'
    BY <1>1, <1>8, <1>9, AheadInUpdate DEF ListingAhead
  <2> QED
    BY <2>1, <2>2 DEF KeepsAhead, EntryMissed, ListingMissed, EntryOnItsWay, ListingOnItsWay
<1> QED
  BY <1>7, <1>10

\* What dropping an item leaves alone.
LEMMA DroppedLeaves ==
  ASSUME NEW m, NEW p \in Paths, NEW n \in Dropped(m, p)
  PROVE  /\ DOMAIN m \ {p} \subseteq DOMAIN n
         /\ \A q \in Paths : q # p /\ Parent(q) # p =>
              {e \in ListingOf(n, Parent(q)) : e.path = q} = {e \in ListingOf(m, Parent(q)) : e.path = q}
<1> DEFINE k == Erase(m, p)
           d == Parent(p)
           same == {e \in ListingOf(k, d) : e.path = p}
<1>1. DOMAIN k = DOMAIN m \ {p} /\ \A x \in DOMAIN k : k[x] = m[x]
  BY DEF Erase
<1>2. \A x : x # p => ListingOf(k, x) = ListingOf(m, x)
  BY <1>1 DEF ListingOf
<1>3. CASE same = {}
  BY <1>1, <1>2, <1>3 DEF Dropped
<1>4. CASE same # {}
  <2>1. PICK e \in same : n = Store(k, d, k[d] \ {e})
    BY <1>4 DEF Dropped
  <2>2. d \in DOMAIN k /\ e.path = p
    BY <2>1 DEF ListingOf
  <2>3. DOMAIN n = DOMAIN k \cup {d} /\ \A x \in DOMAIN n : n[x] = IF x = d THEN k[d] \ {e} ELSE k[x]
    BY <2>1 DEF Store
  <2>4. \A x : ListingOf(n, x) = IF x = d THEN k[d] \ {e} ELSE ListingOf(k, x)
    BY <2>2, <2>3 DEF ListingOf
  <2>5. ListingOf(k, d) = k[d]
    BY <2>2 DEF ListingOf
  <2>6. \A q \in Paths : q # p =>
          {f \in ListingOf(n, Parent(q)) : f.path = q} = {f \in ListingOf(k, Parent(q)) : f.path = q}
    BY <2>2, <2>4, <2>5
  <2> QED
    BY <1>1, <1>2, <2>3, <2>6
<1> QED
  BY <1>3, <1>4

LEMMA ItemReaches ==
  ASSUME TypeInv, TypeInv', RootInv, UniqueInv, NothingLeft,
         NEW t \in Threads, ProcessItem(t)
  PROVE  MissesNothing /\ KeepsAhead
<1>1. Stage = "items"
  BY StageNow DEF ProcessItem, PassSteps
<1>2. PICK item \in batch :
        /\ batch' = batch \ {item}
        /\ cache' \in Dropped(cache, item.path)
        /\ current' = IF item.deleted THEN NoPath ELSE item.path
        /\ pc' = [pc EXCEPT ![t] = IF item.deleted THEN "items" ELSE "fetch"]
        /\ lost' = IF item.deleted /\ kind[item.path] # "none"
                   THEN lost \cup Affected(item.path) ELSE lost
  BY DEF ProcessItem
<1> DEFINE p == item.path
<1>3. p \in Paths /\ item.deleted \in BOOLEAN
  BY DEF TypeInv, TypeOK, Items
<1>4. Stage' = IF item.deleted THEN "items" ELSE "fetch"
  <2>1. pc'[t] = IF item.deleted THEN "items" ELSE "fetch"
    BY <1>2 DEF TypeInv, TypeOK
  <2> QED
    BY <2>1, StageNext DEF PassSteps
<1>5. UNCHANGED << server, lastUpdate, toVisit, changedSince >>
  BY DEF ProcessItem
<1>6. KeepsAhead
  BY <1>1, <1>4, <1>5, AheadStays
<1>7. current = NoPath /\ NoPath \notin Paths
  BY <1>1, PathsAssumption DEF NothingLeft, Dirs
<1>8. \A q : InBatch(q) => InBatch(q)' \/ q = p
  BY <1>2 DEF InBatch
<1>9. ASSUME NEW q \in Reported, q # p, Parent(q) # p
      PROVE  /\ EntryMissed(q)' => EntryMissed(q)
  <2>1. q \in Paths
    BY ReportedAssumption
  <2>2. Shown(q)' = Shown(q)
    BY <1>2, <1>3, <1>9, <2>1, DroppedLeaves DEF Shown, Attributes
  <2>3. EntryWrong(q)' => EntryWrong(q)
    BY <1>5, <2>1, <2>2, ServerSame DEF EntryWrong
  <2>4. EntryOnItsWay(q) => EntryOnItsWay(q)'
    <3>1. Parent(q) # NoPath
      BY <2>1, PathsAssumption
    <3> QED
      BY <1>1, <1>2, <1>7, <1>8, <1>9, <3>1 DEF EntryOnItsWay
  <2> QED
    BY <2>3, <2>4 DEF EntryMissed
<1>10. ASSUME NEW q \in Reported, q # p
       PROVE  ListingMissed(q)' => ListingMissed(q)
  <2>1. q \in Paths
    BY ReportedAssumption
  <2>2. ListingWrong(q)' => ListingWrong(q)
    <3>1. DOMAIN cache \ {p} \subseteq DOMAIN cache'
      BY <1>2, <1>3, DroppedLeaves
    <3> QED
      BY <1>5, <1>10, <3>1, ServerSame DEF ListingWrong
  <2>3. ListingOnItsWay(q) => ListingOnItsWay(q)'
    BY <1>2, <1>7, <1>8, <1>10, <2>1 DEF ListingOnItsWay
  <2> QED
    BY <2>2, <2>3 DEF ListingMissed
<1>11. ASSUME ~item.deleted
       PROVE  /\ \A q : q = p \/ Parent(q) = p => ~EntryMissed(q)'
              /\ ~ListingMissed(p)'
  BY <1>2, <1>4, <1>11 DEF EntryMissed, EntryOnItsWay, ListingMissed, ListingOnItsWay
<1>12. ASSUME item.deleted, kind[p] # "none"
       PROVE  /\ \A q \in Paths : q = p \/ Parent(q) = p => ~EntryMissed(q)'
              /\ ~ListingMissed(p)'
  BY <1>2, <1>12 DEF Affected, Children, EntryMissed, EntryOnItsWay, ListingMissed, ListingOnItsWay
<1>13. ASSUME item.deleted, kind[p] = "none"
       PROVE  /\ \A q \in Paths : q = p \/ Parent(q) = p => ~EntryMissed(q)'
              /\ ~ListingMissed(p)'
  <2>1. ~IsDirectory(p)'
    BY <1>3, <1>5, <1>13, PathsAssumption DEF IsDirectory, server
  <2>2. Shown(p)' = {}
    BY <1>2, <1>3, DroppedUnique DEF UniqueInv, Shown, Attributes
  <2>3. Expected(p)' = {}
    BY <1>3, <1>5, <1>13, ExpectedIs DEF server
  <2> QED
    BY <2>1, <2>2, <2>3 DEF EntryMissed, EntryWrong, Attached, ListingMissed, ListingWrong
<1>14. MissesNothing
  BY <1>9, <1>10, <1>11, <1>12, <1>13, ReportedAssumption DEF MissesNothing
<1> QED
  BY <1>6, <1>14

\* What storing a listing shows.
LEMMA StoreShows ==
  ASSUME NEW d, NEW l, cache' = Store(cache, d, l), NEW q
  PROVE  Shown(q)' = IF Parent(q) = d THEN {e \in l : e.path = q} ELSE Shown(q)
<1>1. ListingOf(cache', Parent(q)) = IF Parent(q) = d THEN l ELSE ListingOf(cache, Parent(q))
  BY DEF ListingOf, Store
<1>2. Shown(q)' = {e \in ListingOf(cache', Parent(q)) : e.path = q}
  BY DEF Shown, Attributes, ListingOf
<1> QED
  BY <1>1, <1>2 DEF Shown, Attributes

LEMMA StoreKeeps ==
  ASSUME NEW d, NEW l, cache' = Store(cache, d, l)
  PROVE  DOMAIN cache' = DOMAIN cache \cup {d}
BY DEF Store

LEMMA FetchReaches ==
  ASSUME TypeInv, TypeInv', RootInv, UniqueInv, NothingLeft,
         NEW t \in Threads, FetchInformation(t)
  PROVE  MissesNothing /\ KeepsAhead
<1>0. PICK c : c = current
  OBVIOUS
<1> DEFINE d == Parent(c)
           l == ListingOf(cache, d) \cup {ServiceEntry(c)}
<1>1. Stage = "fetch" /\ c \in Paths /\ kind[c] # "none"
  BY <1>0, StageNow DEF FetchInformation, Found, PassSteps, TypeInv, CurrentIsPath
<1>2. Stage' = IF kind[c] = "dir" THEN "relist" ELSE "items"
  <2>1. pc'[t] = IF kind[c] = "dir" THEN "relist" ELSE "items"
    BY <1>0 DEF FetchInformation, TypeInv, TypeOK
  <2> QED
    BY <2>1, StageNext DEF PassSteps
<1>3. /\ UNCHANGED << server, lastUpdate, toVisit, changedSince, batch >>
      /\ cache' = Store(cache, d, l)
      /\ current' = IF kind[c] = "dir" THEN c ELSE NoPath
      /\ lost' = lost \ {c}
  BY <1>0 DEF FetchInformation
<1>4. KeepsAhead
  BY <1>1, <1>2, <1>3, AheadStays
<1>5. Shown(c)' = {ServiceEntry(c)}
  <2>1. \A e \in ListingOf(cache, d) : e.path # c
    BY <1>0, StageNow DEF UniqueInv, FetchInformation
  <2>2. \A q : Shown(q)' = IF Parent(q) = d THEN {e \in l : e.path = q} ELSE Shown(q)
    BY <1>3, StoreShows, Zenon
  <2>3. Shown(c)' = {e \in l : e.path = c}
    BY <2>2
  <2> QED
    BY <2>1, <2>3 DEF ServiceEntry
<1>6. ~EntryWrong(c)'
  <2>1. Expected(c)' = Expected(c)
    BY <1>1, <1>3, ServerSame
  <2>2. Expected(c) = {ServiceEntry(c)}
    BY <1>1, ExpectedIs
  <2> QED
    BY <1>5, <2>1, <2>2 DEF EntryWrong
<1>7. ASSUME NEW q \in Paths, q # c PROVE Shown(q)' = Shown(q)
  <2>1. Shown(q)' = IF Parent(q) = d THEN {e \in l : e.path = q} ELSE Shown(q)
    BY <1>3, StoreShows, Zenon
  <2>2. ServiceEntry(c).path # q
    BY <1>7 DEF ServiceEntry
  <2> QED
    BY <2>1, <2>2 DEF Shown, Attributes
<1>8. ASSUME NEW q \in Paths, q # c
      PROVE  EntryMissed(q)' => EntryMissed(q)
  <2>1. EntryWrong(q)' => EntryWrong(q)
    BY <1>3, <1>7, <1>8, ServerSame DEF EntryWrong
  <2>2. CASE Parent(q) # c \/ kind[c] = "dir"
    BY <1>0, <1>1, <1>3, <1>8, <2>1, <2>2 DEF EntryMissed, EntryOnItsWay, InBatch
  <2>3. CASE Parent(q) = c /\ kind[c] # "dir"
    <3>1. ~IsDirectory(c)
      BY <1>1, <2>3, PathsAssumption DEF IsDirectory
    <3>2. ~Attached(q)
      BY <2>3, <3>1 DEF Attached
    <3> QED
      BY <2>1, <3>2 DEF EntryMissed, EntryWrong
  <2> QED
    BY <2>2, <2>3
<1>9. ASSUME NEW q \in Paths PROVE ListingMissed(q)' => ListingMissed(q)
  <2>1. ListingWrong(q)' => ListingWrong(q)
    BY <1>3, ServerSame, StoreKeeps DEF ListingWrong
  <2>2. CASE q # c \/ kind[c] = "dir"
    BY <1>0, <1>3, <2>1, <2>2 DEF ListingMissed, ListingOnItsWay, InBatch
  <2>3. CASE q = c /\ kind[c] # "dir"
    <3>1. ~IsDirectory(c)
      BY <1>1, <2>3, PathsAssumption DEF IsDirectory
    <3> QED
      BY <2>1, <2>3, <3>1 DEF ListingMissed, ListingWrong
  <2> QED
    BY <2>2, <2>3
<1>10. MissesNothing
  <2>1. ~EntryMissed(c)'
    BY <1>6 DEF EntryMissed
  <2> QED
    BY <1>8, <1>9, <2>1, ReportedAssumption DEF MissesNothing
<1> QED
  BY <1>4, <1>10

\* What a service's listing shows of a path is what is expected there.
LEMMA ServiceShows ==
  ASSUME NEW d, UNCHANGED server, cache' = Store(cache, d, ServiceListing(d)),
         NEW q \in Paths, Parent(q) = d
  PROVE  ~EntryWrong(q)'
<1>1. Shown(q)' = IF Parent(q) = d THEN {e \in ServiceListing(d) : e.path = q} ELSE Shown(q)
  BY StoreShows, Zenon
<1>2. Expected(q)' = Expected(q)
  BY ServerSame
<1> QED
  BY <1>1, <1>2 DEF EntryWrong, Expected

LEMMA RelistReaches ==
  ASSUME TypeInv, TypeInv', RootInv, NothingLeft, NEW t \in Threads, RelistDirectory(t)
  PROVE  MissesNothing /\ KeepsAhead
<1>1. Stage = "relist" /\ current \in Paths /\ IsDirectory(current)
  BY StageNow DEF RelistDirectory, PassSteps, TypeInv, CurrentIsPath
<1>2. Stage' = "items"
  <2>1. pc'[t] = "items"
    BY DEF RelistDirectory, TypeInv, TypeOK
  <2> QED
    BY <2>1, StageNext DEF PassSteps
<1>3. /\ UNCHANGED << server, lastUpdate, toVisit, changedSince, batch >>
      /\ cache' = Store(cache, current, ServiceListing(current))
      /\ current' = NoPath
      /\ lost' = lost \ Settled(current)
  BY DEF RelistDirectory
<1>4. KeepsAhead
  BY <1>1, <1>2, <1>3, AheadStays
<1>5. ASSUME NEW q \in Paths, Parent(q) # current
      PROVE  EntryMissed(q)' => EntryMissed(q)
  <2>1. EntryWrong(q)' => EntryWrong(q)
    BY <1>3, <1>5, ServerSame, StoreShows DEF EntryWrong
  <2>2. q \in lost => q \in lost'
    BY <1>3, <1>5 DEF Settled, Children
  <2> QED
    BY <1>1, <1>2, <1>3, <1>5, <2>1, <2>2 DEF EntryMissed, EntryOnItsWay, InBatch
<1>6. ASSUME NEW q \in Paths PROVE ListingMissed(q)' => ListingMissed(q)
  <2>1. DOMAIN cache' = DOMAIN cache \cup {current}
    BY <1>3, StoreKeeps
  <2>2. ListingWrong(q)' => ListingWrong(q) /\ q # current
    BY <1>3, <2>1, ServerSame DEF ListingWrong
  <2>3. ListingWrong(q) /\ q \in lost => q \in lost'
    BY <1>3, PathsAssumption DEF ListingWrong, IsDirectory, Settled
  <2> QED
    BY <1>3, <2>2, <2>3 DEF ListingMissed, ListingOnItsWay, InBatch
<1>7. ASSUME NEW q \in Paths, Parent(q) = current PROVE ~EntryMissed(q)'
  BY <1>3, <1>7, ServiceShows DEF EntryMissed
<1>8. MissesNothing
  BY <1>5, <1>6, <1>7, ReportedAssumption DEF MissesNothing
<1> QED
  BY <1>4, <1>8

LEMMA AbortReaches ==
  ASSUME TypeInv, TypeInv', RootInv, NothingLeft, NEW t \in Threads, AbortUpdate(t)
  PROVE  MissesNothing /\ KeepsAhead
<1>1. Stage \in {"fetch", "relist"} /\ current \in Paths
  BY StageNow DEF AbortUpdate, PassSteps, TypeInv, CurrentIsPath
<1>2. Stage' = "none"
  BY StageEnds DEF AbortUpdate
<1>3. /\ UNCHANGED << server, cache, lastUpdate, toVisit, changedSince >>
      /\ lost' = lost \cup UNION {Affected(p) : p \in {current} \cup {i.path : i \in batch}}
  BY DEF AbortUpdate
<1>4. KeepsAhead
  BY <1>1, <1>2, <1>3, AheadStays
<1>5. \A p \in {current} \cup {i.path : i \in batch} : Affected(p) \subseteq lost'
  BY <1>3, Zenon
<1>6. \A p : InBatch(p) \/ p = current => Affected(p) \subseteq lost'
  BY <1>5 DEF InBatch
<1>7. \A q \in Paths : EntryOnItsWay(q) => q \in lost'
  BY <1>3, <1>6 DEF EntryOnItsWay, Affected, Children
<1>8. \A q \in Paths : ListingOnItsWay(q) => q \in lost'
  BY <1>3, <1>6 DEF ListingOnItsWay, Affected
<1>9. MissesNothing
  BY <1>3, <1>7, <1>8, CacheSame, ReportedAssumption
     DEF MissesNothing, EntryMissed, ListingMissed, EntryOnItsWay, ListingOnItsWay
<1> QED
  BY <1>4, <1>9

-----------------------------------------------------------------------------
(* The steps of the service, and the walk.                                 *)

\* What was listed before a change is listed after it.
LEMMA ListedStays ==
  ASSUME TypeOK, Stamps, NEW p \in Paths, Changed(p), NEW q, Listed(q)
  PROVE  Listed(q)'
<1>1. Stage' = Stage /\ lastUpdate' = lastUpdate
  BY StageStays DEF Changed
<1>2. q \in Paths /\ ts[q] >= lastUpdate
  BY ReportedAssumption DEF Listed, ChangedSince
<1>3. ts'[q] >= lastUpdate
  BY <1>2, ClockAssumption DEF Changed, TypeOK, Stamps
<1> QED
  BY <1>1, <1>3 DEF Listed, ChangedSince

\* A change is ahead, or lost because it was made before the last update.
LEMMA ChangeIsAhead ==
  ASSUME TypeInv, NEW p \in Paths, Changed(p), NEW q \in Reported \cap Affected(p)
  PROVE  /\ q \in lost' \/ EntryAhead(q)'
         /\ q = p => q \in lost' \/ ListingAhead(q)'
<1>1. Stage' = Stage /\ lastUpdate' = lastUpdate
  BY StageStays DEF Changed
<1>2. p \in Reported /\ (q = p \/ Parent(q) = p)
  BY ReportedAssumption, PathsAssumption DEF Affected, Children
<1>3. CASE Stage = "stamp"
  <2>1. \E t \in Threads : pc[t] = "stamp"
    BY <1>3, StageNone DEF Stage, PassSteps
  <2>2. q \in changedSince'
    BY <2>1 DEF Changed
  <2> QED
    BY <2>2 DEF EntryAhead, ListingAhead
<1>4. CASE clock < lastUpdate
  BY <1>4 DEF Changed
<1>5. CASE Stage # "stamp" /\ ~(clock < lastUpdate)
  <2>1. ts'[p] >= lastUpdate'
    BY <1>1, <1>5, ClockAssumption DEF Changed, TypeInv, TypeOK
  <2>2. Listed(p)'
    BY <1>1, <1>2, <1>5, <2>1 DEF Listed, ChangedSince
  <2> QED
    BY <1>2, <2>2 DEF EntryAhead, ListingAhead
<1> QED
  BY <1>3, <1>4, <1>5

\* A change leaves other entries and listings as right as they were.
LEMMA PutElsewhere ==
  ASSUME TypeOK, NEW p \in Paths, NEW k \in {"file", "dir"}, Put(p, k), NEW q \in Paths
  PROVE  /\ q \notin Affected(p) /\ EntryWrong(q)' => EntryWrong(q)
         /\ q # p /\ ListingWrong(q)' => ListingWrong(q)
<1>1. /\ kind' = [kind EXCEPT ![p] = k] /\ ts' = [ts EXCEPT ![p] = clock] /\ cache' = cache
  BY DEF Put, Changed
<1>2. \A x : x # p => IsDirectory(x)' = IsDirectory(x)
  BY <1>1 DEF IsDirectory, TypeOK
<1>3. Shown(q)' = Shown(q)
  BY <1>1 DEF Shown, Attributes, ListingOf
<1>4. ASSUME q \notin Affected(p), EntryWrong(q)' PROVE EntryWrong(q)
  <2>1. q # p /\ Parent(q) # p
    BY <1>4 DEF Affected, Children
  <2>2. kind'[q] = kind[q] /\ ts'[q] = ts[q]
    BY <1>1, <2>1 DEF TypeOK
  <2> QED
    BY <1>2, <1>3, <1>4, <2>1, <2>2, EntryDepends
<1> QED
  BY <1>1, <1>2, <1>4 DEF ListingWrong

LEMMA DeleteElsewhere ==
  ASSUME TypeOK, NEW p \in Paths, Delete(p), NEW q \in Paths
  PROVE  /\ q \notin Affected(p) /\ EntryWrong(q)' => EntryWrong(q)
         /\ ListingWrong(q)' => ListingWrong(q)
<1>1. /\ kind' = [x \in Paths |-> IF x = p \/ x \in Below(p) THEN "none" ELSE kind[x]]
      /\ ts' = [ts EXCEPT ![p] = clock] /\ cache' = cache
  BY DEF Delete, Changed
<1>2. \A x : IsDirectory(x)' => IsDirectory(x)
  BY <1>1 DEF IsDirectory, TypeOK
<1>3. Shown(q)' = Shown(q)
  BY <1>1 DEF Shown, Attributes, ListingOf
<1>4. ASSUME q \notin Affected(p), EntryWrong(q)' PROVE EntryWrong(q)
  <2>1. q # p /\ Parent(q) # p
    BY <1>4 DEF Affected, Children
  <2>2. q \notin Below(p)
    <3>1. ASSUME q \in Below(p) PROVE FALSE
      <4>1. Parent(q) \in Below(p)
        BY <2>1, <3>1, ParentBelow DEF Dirs
      <4>2. Parent(q) \in Paths /\ kind'[Parent(q)] = "none" /\ Parent(q) # Root
        BY <1>1, <4>1, PathsAssumption DEF Below
      <4> QED
        BY <1>4, <4>2 DEF EntryWrong, Attached, IsDirectory
    <3> QED
      BY <3>1
  <2>3. kind'[q] = kind[q] /\ ts'[q] = ts[q]
    BY <1>1, <2>1, <2>2 DEF TypeOK
  <2> QED
    BY <1>2, <1>3, <1>4, <2>3, EntryDepends
<1> QED
  BY <1>1, <1>2, <1>4 DEF ListingWrong

\* A change itself puts nothing off its way.
LEMMA ChangeKeepsWay ==
  ASSUME NEW p \in Paths, Changed(p), NEW q
  PROVE  /\ EntryOnItsWay(q) => EntryOnItsWay(q)'
         /\ ListingOnItsWay(q) => ListingOnItsWay(q)'
<1>1. Stage' = Stage /\ UNCHANGED << batch, current >> /\ lost \subseteq lost'
  BY StageStays DEF Changed, pass
<1> QED
  BY <1>1 DEF EntryOnItsWay, ListingOnItsWay, InBatch

LEMMA ChangeMisses ==
  ASSUME TypeOK, NEW p \in Paths, Delete(p) \/ \E k \in {"file", "dir"} : Put(p, k),
         NEW q \in Paths
  PROVE  /\ q \notin Affected(p) => (EntryMissed(q)' => EntryMissed(q))
         /\ q # p => (ListingMissed(q)' => ListingMissed(q))
<1>1. Changed(p)
  BY DEF Put, Delete
<1> QED
  BY <1>1, PutElsewhere, DeleteElsewhere, ChangeKeepsWay DEF EntryMissed, ListingMissed

LEMMA ChangeReaches ==
  ASSUME TypeInv, Stamps, Caught, NEW p \in Paths,
         Delete(p) \/ \E k \in {"file", "dir"} : Put(p, k)
  PROVE  Caught'
<1>1. Changed(p)
  BY DEF Put, Delete
<1>2. UNCHANGED << phase, toVisit >> /\ changedSince \subseteq changedSince'
  BY <1>1 DEF Changed
<1>3. \A q : Listed(q) => Listed(q)'
  BY <1>1, ListedStays DEF TypeInv
<1>4. \A q : EntryAhead(q) => EntryAhead(q)'
  BY <1>2, <1>3 DEF EntryAhead, Below
<1>5. \A q : ListingAhead(q) => ListingAhead(q)'
  BY <1>2, <1>3 DEF ListingAhead, Below
<1> SUFFICES ASSUME phase # "stopped", NEW q \in Reported
             PROVE  /\ EntryMissed(q)' => EntryAhead(q)'
                    /\ ListingMissed(q)' => ListingAhead(q)'
  BY <1>2 DEF Caught
<1>6. q \in Paths
  BY ReportedAssumption
<1>7. EntryMissed(q)' => EntryAhead(q)'
  <2>1. CASE q \in Affected(p)
    BY <1>1, <2>1, ChangeIsAhead DEF EntryMissed, EntryOnItsWay
  <2>2. CASE q \notin Affected(p)
    BY <1>4, <1>6, <2>2, ChangeMisses DEF Caught, TypeInv
  <2> QED
    BY <2>1, <2>2
<1>8. ListingMissed(q)' => ListingAhead(q)'
  <2>1. CASE q = p
    BY <1>1, <2>1, ChangeIsAhead DEF ListingMissed, ListingOnItsWay, Affected
  <2>2. CASE q # p
    BY <1>5, <1>6, <2>2, ChangeMisses DEF Caught, TypeInv
  <2> QED
    BY <2>1, <2>2
<1> QED
  BY <1>7, <1>8

\* On the way down to a directory that exists there are only directories.
LEMMA DirectoriesOnly ==
  ASSUME Tree, NEW d \in Dirs, NEW c \in Children(d), NEW p \in Below(c), Attached(p)
  PROVE  kind[c] = "dir"
<1>1. c \in Paths /\ p \in Paths
  BY DEF Children, Below
<1>2. Parent(p) = c \/ Parent(p) \in Below(c)
  BY <1>1, ParentBelow DEF Dirs
<1>3. Parent(p) \in Paths
  BY <1>1, <1>2 DEF Below
<1>4. kind[Parent(p)] = "dir"
  BY <1>3, PathsAssumption DEF Attached, IsDirectory
<1> QED
  BY <1>1, <1>2, <1>3, <1>4 DEF Tree

LEMMA VisitReaches ==
  ASSUME TypeInv, RootInv, Tree, NothingLeft, Caught, NEW d \in Dirs, VisitDirectory(d)
  PROVE  Caught'
<1>1. /\ UNCHANGED << server, lastUpdate, mutex, phase, pc, batch, current, changedSince >>
      /\ cache' = Store(cache, d, ServiceListing(d))
      /\ toVisit' = (toVisit \ {d}) \cup {p \in Children(d) : kind[p] = "dir"}
      /\ lost' = lost \ Settled(d)
      /\ phase = "walk"
  BY DEF VisitDirectory, pass
<1>2. Stage' = Stage
  BY <1>1, StageStays
<1>3. \A q : Listed(q) => Listed(q)'
  BY <1>1, <1>2 DEF Listed, ChangedSince, server
<1>4. DOMAIN cache' = DOMAIN cache \cup {d}
  BY <1>1, StoreKeeps
<1>5. ASSUME NEW q \in Paths, EntryMissed(q)', EntryMissed(q) => EntryAhead(q)
      PROVE  EntryAhead(q)'
  <2>1. Parent(q) # d
    BY <1>1, <1>5, ServiceShows DEF EntryMissed
  <2>2. EntryWrong(q)
    <3>1. Shown(q)' = IF Parent(q) = d THEN {e \in ServiceListing(d) : e.path = q} ELSE Shown(q)
      BY <1>1, StoreShows, Zenon
    <3> QED
      BY <1>1, <1>5, <2>1, <3>1, ServerSame DEF EntryMissed, EntryWrong
  <2>3. q \in lost => q \in lost'
    BY <1>1, <2>1 DEF Settled, Children
  <2>4. EntryMissed(q)
    BY <1>1, <1>2, <1>5, <2>2, <2>3 DEF EntryMissed, EntryOnItsWay, InBatch
  <2>5. CASE Listed(q) \/ Listed(Parent(q)) \/ q \in changedSince
    BY <1>1, <1>3, <2>5 DEF EntryAhead
  <2>6. ASSUME NEW e \in toVisit, q \in Below(e) PROVE EntryAhead(q)'
    <3>1. CASE e # d
      BY <1>1, <2>6, <3>1 DEF EntryAhead, Below
    <3>2. CASE e = d
      <4>1. PICK c \in Children(d) : q \in Below(c)
        BY <2>1, <2>6, <3>2, WayDown
      <4>2. kind[c] = "dir"
        BY <2>2, <4>1, DirectoriesOnly DEF EntryWrong
      <4> QED
        BY <1>1, <4>1, <4>2 DEF EntryAhead, Below
    <3> QED
      BY <3>1, <3>2
  <2> QED
    BY <1>5, <2>4, <2>5, <2>6 DEF EntryAhead
<1>6. ASSUME NEW q \in Paths, ListingMissed(q)', ListingMissed(q) => ListingAhead(q)
      PROVE  ListingAhead(q)'
  <2>1. q # d /\ ListingWrong(q) /\ kind[q] = "dir"
    BY <1>1, <1>4, <1>6, ServerSame, PathsAssumption DEF ListingMissed, ListingWrong, IsDirectory
  <2>2. q \in lost => q \in lost'
    BY <1>1, <2>1 DEF Settled
  <2>3. ListingMissed(q)
    BY <1>1, <1>6, <2>1, <2>2 DEF ListingMissed, ListingOnItsWay, InBatch
  <2>4. CASE Listed(q) \/ q \in changedSince
    BY <1>1, <1>3, <2>4 DEF ListingAhead
  <2>5. ASSUME NEW e \in toVisit, e = q \/ q \in Below(e) PROVE ListingAhead(q)'
    <3>1. CASE e # d
      BY <1>1, <2>5, <3>1 DEF ListingAhead, Below
    <3>2. CASE e = d
      <4>1. CASE Parent(q) = d
        BY <1>1, <2>1, <4>1 DEF ListingAhead, Children
      <4>2. ASSUME NEW c \in Children(d), q \in Below(c) PROVE ListingAhead(q)'
        <5>1. kind[c] = "dir"
          BY <2>1, <4>2 DEF Tree, Children
        <5> QED
          BY <1>1, <4>2, <5>1 DEF ListingAhead, Below
      <4> QED
        BY <2>1, <2>5, <3>2, <4>1, <4>2, WayDown
    <3> QED
      BY <3>1, <3>2
  <2> QED
    BY <1>6, <2>3, <2>4, <2>5 DEF ListingAhead
<1> QED
  BY <1>1, <1>5, <1>6, ReportedAssumption DEF Caught

LEMMA SkipReaches ==
  ASSUME TypeInv, Caught, NEW d \in Dirs, SkipDirectory(d)
  PROVE  Caught'
<1>1. /\ UNCHANGED << server, cache, lastUpdate, mutex, phase, pc, batch, current, changedSince >>
      /\ toVisit' = toVisit \ {d}
      /\ lost' = lost \cup {d} \cup Below(d)
      /\ phase = "walk"
  BY DEF SkipDirectory, pass
<1>2. Stage' = Stage
  BY <1>1, StageStays
<1>3. \A q : Listed(q) => Listed(q)'
  BY <1>1, <1>2 DEF Listed, ChangedSince, server
<1>4. \A q \in Paths : /\ EntryMissed(q)' => EntryMissed(q)
                       /\ ListingMissed(q)' => ListingMissed(q)
  BY <1>1, <1>2, CacheSame DEF EntryMissed, ListingMissed, EntryOnItsWay, ListingOnItsWay, InBatch
<1>5. \A q : EntryAhead(q) => q \in lost' \/ EntryAhead(q)'
  BY <1>1, <1>3 DEF EntryAhead, Below
<1>6. \A q : ListingAhead(q) => q \in lost' \/ ListingAhead(q)'
  BY <1>1, <1>3 DEF ListingAhead, Below
<1> QED
  BY <1>1, <1>4, <1>5, <1>6, ReportedAssumption
     DEF Caught, EntryMissed, ListingMissed, EntryOnItsWay, ListingOnItsWay

\* The walk begins with everything ahead of it.
LEMMA InitializeReaches ==
  ASSUME InitializeFileInformationCache
  PROVE  Caught'
<1>1. toVisit' = {Root}
  BY DEF InitializeFileInformationCache
<1>2. \A q \in Paths : EntryAhead(q)' /\ ListingAhead(q)'
  BY <1>1, BelowRoot DEF EntryAhead, ListingAhead, Below
<1> QED
  BY <1>2, ReportedAssumption DEF Caught

LEMMA CaughtStep ==
  TypeInv /\ RootInv /\ UniqueInv /\ Tree /\ Stamps /\ NothingLeft /\ Caught /\ [Next]_vars
    => Caught'
<1> SUFFICES ASSUME TypeInv, RootInv, UniqueInv, Tree, Stamps, NothingLeft, Caught, [Next]_vars
             PROVE  Caught'
  OBVIOUS
<1>0. TypeInv'
  BY TypeStep
<1>1. ASSUME NEW p \in Paths, NEW k \in {"file", "dir"}, Put(p, k) PROVE Caught'
  BY <1>1, ChangeReaches
<1>2. ASSUME NEW p \in Paths, Delete(p) PROVE Caught'
  BY <1>2, ChangeReaches
<1>3. CASE Tick
  <2>1. \A q \in Paths : /\ EntryMissed(q)' <=> EntryMissed(q)
                         /\ ListingMissed(q)' <=> ListingMissed(q)
    <3>1. UNCHANGED << kind, ts, cache, mutex, pc, batch, current, lost >>
      BY <1>3 DEF Tick, pass
    <3> QED
      BY <3>1 DEF EntryMissed, EntryWrong, Attached, IsDirectory, Shown, Attributes, ListingOf,
         Expected, ServiceListing, ServiceEntry, EntryOnItsWay, InBatch, Stage, ListingMissed,
         ListingWrong, ListingOnItsWay
  <2>2. \A q : /\ EntryAhead(q)' <=> EntryAhead(q)
               /\ ListingAhead(q)' <=> ListingAhead(q)
    BY <1>3 DEF Tick, pass, EntryAhead, ListingAhead, Listed, ChangedSince, Stage, Below
  <2> QED
    BY <1>3, <2>1, <2>2, ReportedAssumption DEF Tick, Caught
<1>4. CASE InitializeFileInformationCache
  BY <1>4, InitializeReaches
<1>5. ASSUME NEW d \in Dirs, VisitDirectory(d) PROVE Caught'
  BY <1>5, VisitReaches
<1>6. ASSUME NEW d \in Dirs, SkipDirectory(d) PROVE Caught'
  BY <1>6, SkipReaches
<1>7. ASSUME MissesNothing, KeepsAhead, phase' # "stopped" => phase # "stopped" PROVE Caught'
  BY <1>7 DEF Caught, MissesNothing, KeepsAhead
<1>8. CASE FinishWalk
  BY <1>7, <1>8, QuietStep, StageStays DEF FinishWalk, pass
<1>9. CASE UninitializeFileInformationCache
  BY <1>9 DEF UninitializeFileInformationCache, Caught
<1>10. ASSUME NEW t \in Threads, NEW c \in Calls, BeginCallback(t, c) PROVE Caught'
  BY <1>7, <1>10, BeginReaches DEF BeginCallback
<1>11. ASSUME NEW t \in Threads, LockForUpdate(t) PROVE Caught'
  BY <1>7, <1>11, LockReaches DEF LockForUpdate
<1>12. ASSUME NEW t \in Threads, ListRecentUpdatedFiles(t) PROVE Caught'
  BY <1>0, <1>12, ListReaches DEF ListRecentUpdatedFiles, MissesNothing, Caught
<1>13. ASSUME NEW t \in Threads, ListRecentUpdatedFilesFails(t) PROVE Caught'
  BY <1>7, <1>13, FailureReaches DEF ListRecentUpdatedFilesFails
<1>14. ASSUME NEW t \in Threads, StampUpdateTime(t) PROVE Caught'
  BY <1>0, <1>7, <1>14, StampReaches DEF StampUpdateTime
<1>15. ASSUME NEW t \in Threads, ProcessItem(t) PROVE Caught'
  BY <1>0, <1>7, <1>15, ItemReaches DEF ProcessItem
<1>16. ASSUME NEW t \in Threads, FetchInformation(t) PROVE Caught'
  BY <1>0, <1>7, <1>16, FetchReaches DEF FetchInformation
<1>17. ASSUME NEW t \in Threads, RelistDirectory(t) PROVE Caught'
  BY <1>0, <1>7, <1>17, RelistReaches DEF RelistDirectory
<1>18. ASSUME NEW t \in Threads, AbortUpdate(t) PROVE Caught'
  BY <1>0, <1>7, <1>18, AbortReaches DEF AbortUpdate
<1>19. ASSUME NEW t \in Threads, FinishUpdate(t) PROVE Caught'
  BY <1>7, <1>19, FinishReaches DEF FinishUpdate
<1>20. ASSUME NEW t \in Threads, Lookup(t) PROVE Caught'
  BY <1>7, <1>20, LookupReaches DEF Lookup
<1>21. CASE UNCHANGED vars
  BY <1>7, <1>21, QuietStep, StageStays DEF vars, server
<1> QED
  BY <1>1, <1>2, <1>3, <1>4, <1>5, <1>6, <1>8, <1>9, <1>10, <1>11, <1>12, <1>13, <1>14,
     <1>15, <1>16, <1>17, <1>18, <1>19, <1>20, <1>21
     DEF Next, Service, Walk, Callback, Update

-----------------------------------------------------------------------------
(* What the callbacks answer.                                              *)

LEMMA StorePlaced ==
  ASSUME Placed, NEW d, NEW l, cache' = Store(cache, d, l), \A e \in l : Parent(e.path) = d
  PROVE  Placed'
BY DEF Placed, Store

LEMMA DroppedShrinks ==
  ASSUME NEW m, NEW p, NEW n \in Dropped(m, p), NEW x \in DOMAIN n
  PROVE  x \in DOMAIN m /\ n[x] \subseteq m[x]
<1> DEFINE k == Erase(m, p)
           d == Parent(p)
           same == {e \in ListingOf(k, d) : e.path = p}
<1>1. DOMAIN k \subseteq DOMAIN m /\ \A y \in DOMAIN k : k[y] = m[y]
  BY DEF Erase
<1>2. CASE same = {}
  BY <1>1, <1>2 DEF Dropped
<1>3. CASE same # {}
  <2>1. PICK e \in same : n = Store(k, d, k[d] \ {e})
    BY <1>3 DEF Dropped
  <2>2. d \in DOMAIN k
    BY <2>1 DEF ListingOf
  <2>3. DOMAIN n = DOMAIN k /\ n[x] = IF x = d THEN k[d] \ {e} ELSE k[x]
    BY <2>1, <2>2 DEF Store
  <2> QED
    BY <1>1, <2>3
<1> QED
  BY <1>2, <1>3

LEMMA PlacedStep == TypeInv /\ Placed /\ [Next]_vars => Placed'
<1> SUFFICES ASSUME TypeInv, Placed, [Next]_vars PROVE Placed'
  OBVIOUS
<1>1. \A d : \A e \in ServiceListing(d) : Parent(e.path) = d
  BY DEF ServiceListing, ServiceEntry, Children
<1>2. ASSUME NEW d \in Dirs, VisitDirectory(d) PROVE Placed'
  BY <1>1, <1>2, StorePlaced DEF VisitDirectory
<1>3. ASSUME NEW t \in Threads, ProcessItem(t) PROVE Placed'
  <2>1. PICK item \in batch : cache' \in Dropped(cache, item.path)
    BY <1>3 DEF ProcessItem
  <2>2. \A d \in DOMAIN cache' : d \in DOMAIN cache /\ cache'[d] \subseteq cache[d]
    BY <2>1, DroppedShrinks
  <2> QED
    BY <2>2 DEF Placed
<1>4. ASSUME NEW t \in Threads, FetchInformation(t) PROVE Placed'
  <2>1. \A e \in ListingOf(cache, Parent(current)) \cup {ServiceEntry(current)} :
          Parent(e.path) = Parent(current)
    BY DEF Placed, ListingOf, ServiceEntry
  <2> QED
    BY <1>4, <2>1, StorePlaced DEF FetchInformation
<1>5. ASSUME NEW t \in Threads, RelistDirectory(t) PROVE Placed'
  BY <1>1, <1>5, StorePlaced DEF RelistDirectory
<1>6. CASE UninitializeFileInformationCache
  BY <1>6 DEF UninitializeFileInformationCache, NoListings, Placed
<1>7. CASE UNCHANGED cache
  BY <1>7 DEF Placed
<1> QED
  BY <1>2, <1>3, <1>4, <1>5, <1>6, <1>7 DEF Next, Service, Put, Delete, Changed, Tick,
     InitializeFileInformationCache, Walk, SkipDirectory, FinishWalk, Callback, BeginCallback,
     LockForUpdate, Update, ListRecentUpdatedFiles, ListRecentUpdatedFilesFails,
     StampUpdateTime, AbortUpdate, FinishUpdate, Lookup, vars

\* A callback's answer stays in sight as long as nothing is newly missed.
LEMMA FreshKept ==
  ASSUME FreshInv, MissesNothing, Root \in DOMAIN cache => Root \in DOMAIN cache',
         NEW t \in Threads, fresh[t], op'[t] = op[t], pc'[t] # "idle", Answering(t)' => Answering(t)
  PROVE  /\ Root \in DOMAIN cache'
         /\ Answering(t)' =>
              \A p \in Reported \cap About(op'[t]) : ~EntryMissed(p)' /\ ~ListingMissed(p)'
BY DEF FreshInv, MissesNothing

\* The steps of a thread.
LEMMA FreshThread ==
  ASSUME TypeInv, FreshInv, MissesNothing, Root \in DOMAIN cache => Root \in DOMAIN cache',
         NEW t \in Threads, \A u \in Threads \ {t} : UNCHANGED << pc[u], op[u], fresh[u] >>,
         fresh'[t] => fresh[t] /\ op'[t] = op[t] /\ pc'[t] # "idle"
                      /\ (Answering(t)' => Answering(t))
  PROVE  FreshInv'
<1> SUFFICES ASSUME NEW u \in Threads, fresh'[u]
             PROVE  /\ Root \in DOMAIN cache'
                    /\ pc'[u] # "idle"
                    /\ Answering(u)' =>
                         \A p \in Reported \cap About(op'[u]) : ~EntryMissed(p)' /\ ~ListingMissed(p)'
  BY DEF FreshInv, About, Children
<1>1. fresh[u] /\ op'[u] = op[u] /\ pc'[u] # "idle" /\ (Answering(u)' => Answering(u))
  BY DEF FreshInv, Answering
<1> QED
  BY <1>1, FreshKept

\* No callback runs while the cache is filled or emptied.
LEMMA NobodyFresh ==
  ASSUME RootInv, FreshInv, UNCHANGED << pc, fresh >>, phase # "run"
  PROVE  FreshInv'
BY DEF RootInv, FreshInv

LEMMA FreshStep ==
  TypeInv /\ RootInv /\ UniqueInv /\ NothingLeft /\ Caught /\ FreshInv /\ [Next]_vars
    => FreshInv'
<1> SUFFICES ASSUME TypeInv, RootInv, UniqueInv, NothingLeft, Caught, FreshInv, [Next]_vars
             PROVE  FreshInv'
  OBVIOUS
<1>0. TypeInv'
  BY TypeStep
<1>1. ASSUME NEW p \in Paths, Delete(p) \/ \E k \in {"file", "dir"} : Put(p, k) PROVE FreshInv'
  <2>1. /\ UNCHANGED << cache, pc, op >>
        /\ fresh' = [t \in Threads |->
                 fresh[t] /\ op[t].path \notin Affected(p) \cup Below(p) \cup {Parent(p)}]
    BY <1>1 DEF Put, Delete, Changed
  <2>2. ASSUME NEW t \in Threads, fresh'[t], NEW q \in Reported \cap About(op[t])
        PROVE  q \notin Affected(p)
    <3>1. op[t].path \notin Affected(p) /\ op[t].path # Parent(p)
      BY <2>1, <2>2
    <3>2. q = op[t].path \/ Parent(q) = op[t].path
      BY <2>2 DEF About, Children
    <3> QED
      BY <3>1, <3>2 DEF Affected, Children
  <2>3. ASSUME NEW t \in Threads, fresh'[t], NEW q \in Reported \cap About(op[t])
        PROVE  /\ EntryMissed(q)' => EntryMissed(q)
               /\ ListingMissed(q)' => ListingMissed(q)
    BY <1>1, <2>2, <2>3, ChangeMisses, ReportedAssumption DEF TypeInv, Affected
  <2>4. \A t \in Threads : fresh'[t] => fresh[t]
    BY <2>1
  <2> SUFFICES ASSUME NEW t \in Threads, fresh'[t]
               PROVE  /\ Root \in DOMAIN cache'
                      /\ pc'[t] # "idle"
                      /\ Answering(t)' => \A q \in Reported \cap About(op'[t]) :
                                            ~EntryMissed(q)' /\ ~ListingMissed(q)'
    BY DEF FreshInv, About, Children
  <2> QED
    BY <2>1, <2>3, <2>4 DEF FreshInv, Answering
<1>2. CASE Tick
  <2>1. UNCHANGED << kind, ts, cache, mutex, pc, op, batch, current, lost, fresh >>
    BY <1>2 DEF Tick, pass
  <2>2. \A q : /\ EntryMissed(q)' <=> EntryMissed(q)
               /\ ListingMissed(q)' <=> ListingMissed(q)
    BY <2>1 DEF EntryMissed, EntryWrong, Attached, IsDirectory, Shown, Attributes, ListingOf,
       Expected, ServiceListing, ServiceEntry, EntryOnItsWay, InBatch, Stage, ListingMissed,
       ListingWrong, ListingOnItsWay
  <2> QED
    BY <2>1, <2>2 DEF FreshInv, Answering, About, Children
<1>3. CASE InitializeFileInformationCache
  BY <1>3, NobodyFresh DEF InitializeFileInformationCache
<1>4. ASSUME NEW d \in Dirs, VisitDirectory(d) PROVE FreshInv'
  BY <1>4, NobodyFresh DEF VisitDirectory
<1>5. ASSUME NEW d \in Dirs, SkipDirectory(d) PROVE FreshInv'
  BY <1>5, NobodyFresh DEF SkipDirectory
<1>6. CASE FinishWalk
  BY <1>6, NobodyFresh DEF FinishWalk
<1>7. CASE UninitializeFileInformationCache
  BY <1>7 DEF UninitializeFileInformationCache, FreshInv
<1>8. ASSUME NEW t \in Threads, NEW c \in Calls, BeginCallback(t, c) PROVE FreshInv'
  <2>1. MissesNothing
    BY <1>8, BeginReaches
  <2>2. /\ cache' = cache
        /\ pc' = [pc EXCEPT ![t] = IF UpdatesCache THEN "lock" ELSE "lookup"]
        /\ op' = [op EXCEPT ![t] = c]
        /\ fresh' = [fresh EXCEPT ![t] = UpdatesCache]
    BY <1>8 DEF BeginCallback
  <2>3. ASSUME NEW u \in Threads, u # t, fresh'[u]
        PROVE  /\ Root \in DOMAIN cache'
               /\ pc'[u] # "idle"
               /\ Answering(u)' => \A q \in Reported \cap About(op'[u]) :
                                     ~EntryMissed(q)' /\ ~ListingMissed(q)'
    <3>1. fresh[u] /\ op'[u] = op[u] /\ pc'[u] = pc[u]
      BY <2>2, <2>3 DEF TypeInv, TypeOK
    <3>2. pc[u] # "idle" /\ (Answering(u)' => Answering(u))
      BY <3>1 DEF FreshInv, Answering
    <3> QED
      BY <2>1, <2>2, <3>1, <3>2, FreshKept
  <2>4. ASSUME fresh'[t]
        PROVE  Root \in DOMAIN cache' /\ pc'[t] # "idle" /\ ~Answering(t)'
    <3>1. UpdatesCache
      BY <2>2, <2>4 DEF TypeInv, TypeOK
    <3>2. pc'[t] = "lock"
      BY <2>2, <3>1 DEF TypeInv, TypeOK
    <3> QED
      BY <2>2, <3>1, <3>2 DEF UpdatesCache, RootInv, RootCached, Answering
  <2> SUFFICES ASSUME NEW u \in Threads, fresh'[u]
               PROVE  /\ Root \in DOMAIN cache'
                      /\ pc'[u] # "idle"
                      /\ Answering(u)' => \A q \in Reported \cap About(op'[u]) :
                                            ~EntryMissed(q)' /\ ~ListingMissed(q)'
    BY DEF FreshInv, About, Children
  <2> QED
    BY <2>3, <2>4
<1>9. ASSUME NEW t \in Threads, LockForUpdate(t) PROVE FreshInv'
  <2>1. MissesNothing
    BY <1>9, LockReaches
  <2> QED
    BY <1>9, <2>1, FreshThread DEF LockForUpdate, TypeInv, TypeOK, Answering
<1>10. ASSUME NEW t \in Threads, ListRecentUpdatedFiles(t) PROVE FreshInv'
  <2>1. MissesNothing
    BY <1>0, <1>10, ListReaches
  <2>2. phase = "run"
    <3>1. pc[t] # "idle"
      BY <1>10 DEF ListRecentUpdatedFiles
    <3> QED
      BY <3>1 DEF RootInv
  <2>3. \A q \in Reported : ~EntryMissed(q)' /\ ~ListingMissed(q)'
    BY <1>0, <1>10, <2>1, <2>2, ListReaches DEF Caught, MissesNothing
  <2>4. /\ UNCHANGED << cache, op, fresh >>
        /\ \A u \in Threads : pc'[u] # "idle" \/ pc'[u] = pc[u]
    BY <1>10 DEF ListRecentUpdatedFiles, TypeInv, TypeOK
  <2> QED
    BY <2>3, <2>4 DEF FreshInv, About, Children
<1>11. ASSUME NEW t \in Threads, ListRecentUpdatedFilesFails(t) PROVE FreshInv'
  <2>1. MissesNothing
    BY <1>11, FailureReaches
  <2> QED
    BY <1>11, <2>1, FreshThread DEF ListRecentUpdatedFilesFails, EndUpdate, TypeInv, TypeOK
<1>12. ASSUME NEW t \in Threads, StampUpdateTime(t) PROVE FreshInv'
  <2>1. MissesNothing
    BY <1>0, <1>12, StampReaches
  <2> QED
    BY <1>12, <2>1, FreshThread DEF StampUpdateTime, TypeInv, TypeOK, Answering
<1>13. ASSUME NEW t \in Threads, ProcessItem(t) PROVE FreshInv'
  <2>1. MissesNothing
    BY <1>0, <1>13, ItemReaches
  <2>2. Root \in DOMAIN cache => Root \in DOMAIN cache'
    <3>1. PICK item \in batch : cache' \in Dropped(cache, item.path)
      BY <1>13 DEF ProcessItem
    <3>2. item.path \in Paths
      BY DEF TypeInv, TypeOK, Items
    <3> QED
      BY <3>1, <3>2, DroppedLeaves, PathsAssumption
  <2>3. UNCHANGED << op, fresh >> /\ pc[t] = "items" /\ pc'[t] \in {"items", "fetch"}
        /\ \A u \in Threads \ {t} : pc'[u] = pc[u]
    BY <1>13 DEF ProcessItem, TypeInv, TypeOK
  <2> QED
    BY <2>1, <2>2, <2>3, FreshThread DEF Answering
<1>14. ASSUME NEW t \in Threads, FetchInformation(t) PROVE FreshInv'
  <2>1. MissesNothing
    BY <1>0, <1>14, FetchReaches
  <2>2. Root \in DOMAIN cache => Root \in DOMAIN cache'
    BY <1>14, StoreKeeps DEF FetchInformation
  <2>3. UNCHANGED << op, fresh >> /\ pc[t] = "fetch" /\ pc'[t] \in {"items", "relist"}
        /\ \A u \in Threads \ {t} : pc'[u] = pc[u]
    BY <1>14 DEF FetchInformation, TypeInv, TypeOK
  <2> QED
    BY <2>1, <2>2, <2>3, FreshThread DEF Answering
<1>15. ASSUME NEW t \in Threads, RelistDirectory(t) PROVE FreshInv'
  <2>1. MissesNothing
    BY <1>0, <1>15, RelistReaches
  <2>2. Root \in DOMAIN cache => Root \in DOMAIN cache'
    BY <1>15, StoreKeeps DEF RelistDirectory
  <2>3. UNCHANGED << op, fresh >> /\ pc[t] = "relist" /\ pc'[t] = "items"
        /\ \A u \in Threads \ {t} : pc'[u] = pc[u]
    BY <1>15 DEF RelistDirectory, TypeInv, TypeOK
  <2> QED
    BY <2>1, <2>2, <2>3, FreshThread DEF Answering
<1>16. ASSUME NEW t \in Threads, AbortUpdate(t) PROVE FreshInv'
  <2>1. MissesNothing
    BY <1>0, <1>16, AbortReaches
  <2> QED
    BY <1>16, <2>1, FreshThread DEF AbortUpdate, EndUpdate, TypeInv, TypeOK
<1>17. ASSUME NEW t \in Threads, FinishUpdate(t) PROVE FreshInv'
  <2>1. MissesNothing
    BY <1>17, FinishReaches
  <2> QED
    BY <1>17, <2>1, FreshThread DEF FinishUpdate, EndUpdate, TypeInv, TypeOK, Answering
<1>18. ASSUME NEW t \in Threads, Lookup(t) PROVE FreshInv'
  <2>1. MissesNothing
    BY <1>18, LookupReaches
  <2> QED
    BY <1>18, <2>1, FreshThread DEF Lookup, Return, TypeInv, TypeOK
<1>19. CASE UNCHANGED vars
  <2>1. MissesNothing
    BY <1>19, QuietStep, StageStays DEF vars, server
  <2> QED
    BY <1>19, <2>1 DEF FreshInv, MissesNothing, vars, Answering, About, Children
<1> QED
  BY <1>1, <1>2, <1>3, <1>4, <1>5, <1>6, <1>7, <1>8, <1>9, <1>10, <1>11, <1>12, <1>13,
     <1>14, <1>15, <1>16, <1>17, <1>18, <1>19 DEF Next, Service, Walk, Callback, Update

-----------------------------------------------------------------------------
ReachInv ==
  TypeInv /\ RootInv /\ UniqueInv /\ Tree /\ Stamps /\ NothingLeft /\ Caught /\ Placed /\ FreshInv

LEMMA ReachInit == Init => ReachInv
<1> SUFFICES ASSUME Init PROVE ReachInv
  OBVIOUS
<1>1. TypeInv /\ RootInv /\ UniqueInv
  BY TypeInit, RootInit, UniqueInit
<1>2. Tree
  BY TreeFromParents DEF Init
<1>3. Stamps /\ Caught
  BY DEF Init, Stamps, Caught
<1>4. NothingLeft
  BY DEF Init, NothingLeft
<1>5. Placed /\ FreshInv
  BY DEF Init, Placed, FreshInv, NoListings
<1> QED
  BY <1>1, <1>2, <1>3, <1>4, <1>5 DEF ReachInv

LEMMA ReachStep == ReachInv /\ [Next]_vars => ReachInv'
BY TypeStep, RootStep, UniqueStep, TreeStep, StampsStep, NothingLeftStep, CaughtStep,
   PlacedStep, FreshStep DEF ReachInv, TypeInv

\* With the mutex free, no update has anything on its way.
LEMMA NothingOnItsWay ==
  ASSUME ReachInv, mutex = NoThread, NEW p \in Paths
  PROVE  /\ EntryOnItsWay(p) => p \in lost
         /\ ListingOnItsWay(p) => p \in lost
<1>1. Stage = "none"
  BY DEF Stage
<1>2. batch = {} /\ current = NoPath
  BY <1>1 DEF ReachInv, NothingLeft
<1>3. p # NoPath /\ Parent(p) # NoPath
  BY PathsAssumption DEF Dirs
<1> QED
  BY <1>1, <1>2, <1>3 DEF EntryOnItsWay, ListingOnItsWay, InBatch

LEMMA CaughtIsReached == ReachInv => UpdatesReachCache
<1> SUFFICES ASSUME ReachInv, phase = "run", mutex = NoThread, NEW p \in Reported,
                    EntryWrong(p), ~Pending(p), p \notin lost
             PROVE  FALSE
  BY DEF UpdatesReachCache, EntryWrong
<1>1. p \in Paths
  BY ReportedAssumption
<1>2. EntryMissed(p)
  BY <1>1, NothingOnItsWay DEF EntryMissed
<1>3. EntryAhead(p)
  BY <1>2 DEF ReachInv, Caught
<1>4. Stage = "none"
  BY DEF Stage
<1>5. changedSince = {} /\ toVisit = {}
  BY <1>4 DEF ReachInv, NothingLeft
<1> QED
  BY <1>3, <1>5 DEF EntryAhead, Listed, Pending

\* Whatever the service's tree and however its changes, the walk, updates of
\* any number of threads and their failures interleave, a path on which cache
\* and service differ is in the next list, or was given up on where the code
\* gives up.
THEOREM ChangesReachCache == Spec => []UpdatesReachCache
BY ReachInit, ReachStep, CaughtIsReached, PTL DEF Spec

\* Only the lookup ends a callback, and it waits for the mutex.
LEMMA LookupEnds ==
  ASSUME TypeOK, [Next]_vars, NEW t \in Threads, pc[t] = "lookup", pc'[t] = "idle"
  PROVE  mutex = NoThread
<1>1. ASSUME NEW u \in Threads, Callback(u) PROVE mutex = NoThread
  <2>1. CASE u # t
    <3>1. pc'[t] = pc[t]
      BY <1>1, <2>1 DEF TypeOK, Callback, BeginCallback, LockForUpdate, Update,
         ListRecentUpdatedFiles, ListRecentUpdatedFilesFails, StampUpdateTime, ProcessItem,
         FetchInformation, RelistDirectory, AbortUpdate, FinishUpdate, EndUpdate, Lookup, Return
    <3> QED
      BY <3>1
  <2>2. CASE u = t
    BY <1>1, <2>2 DEF Callback, BeginCallback, LockForUpdate, Update,
       ListRecentUpdatedFiles, ListRecentUpdatedFilesFails, StampUpdateTime, ProcessItem,
       FetchInformation, RelistDirectory, AbortUpdate, FinishUpdate, Lookup
  <2> QED
    BY <2>1, <2>2
<1>2. ASSUME UNCHANGED pc PROVE FALSE
  BY <1>2
<1> QED
  BY <1>1, <1>2 DEF Next, Service, Put, Delete, Changed, Tick, InitializeFileInformationCache,
     Walk, VisitDirectory, SkipDirectory, FinishWalk, UninitializeFileInformationCache, vars

LEMMA FreshAnswers ==
  ASSUME ReachInv, mutex = NoThread, NEW t \in Threads, pc[t] = "lookup", fresh[t],
         InScope(op[t])
  PROVE  Answer(op[t]) = ServiceAnswer(op[t])
<1> DEFINE c == op[t]
           p == c.path
<1>1. c \in Calls /\ p \in Dirs
  BY DEF ReachInv, TypeInv, TypeOK, Calls, Dirs
<1>2. \A q \in Reported \cap About(c) : Shown(q) = Expected(q) \/ ~Attached(q)
  <2>1. \A q \in Reported \cap About(c) : ~EntryMissed(q) /\ q \notin lost /\ q \in Paths
    BY ReportedAssumption DEF ReachInv, FreshInv, Answering, InScope
  <2> QED
    BY <2>1, NothingOnItsWay DEF EntryMissed, EntryWrong
<1>3. \A q \in Reported \cap About(c) : IsDirectory(q) => q \in DOMAIN cache
  <2>1. \A q \in Reported \cap About(c) : ~ListingMissed(q) /\ q \notin lost /\ q \in Paths
    BY ReportedAssumption DEF ReachInv, FreshInv, Answering, InScope
  <2> QED
    BY <2>1, NothingOnItsWay DEF ListingMissed, ListingWrong
<1>4. About(c) \subseteq Reported \cup {Root}
  BY DEF InScope
<1>5. CASE c.call = "getattr"
  <2>1. p \in Paths /\ p # Root /\ About(c) = {p} /\ Attached(p)
    BY <1>1, <1>5, PathsAssumption DEF Calls, About, InScope
  <2>2. Shown(p) = Expected(p)
    BY <1>2, <1>4, <2>1
  <2> QED
    BY <1>5, <2>2 DEF Answer, ServiceAnswer, Shown
<1>6. CASE c.call # "getattr"
  <2>1. IsDirectory(p) /\ p \in About(c) /\ Children(p) \subseteq About(c)
    BY <1>6 DEF InScope, About
  <2>2. p \in DOMAIN cache
    BY <1>3, <1>4, <2>1 DEF ReachInv, FreshInv
  <2>3. \A q \in Children(p) : Shown(q) = Expected(q)
    <3> SUFFICES ASSUME NEW q \in Children(p) PROVE Shown(q) = Expected(q)
      OBVIOUS
    <3>1. q \in Paths /\ q # Root /\ Attached(q)
      BY <2>1, PathsAssumption DEF Children, Attached
    <3>2. q \in Reported \cap About(c)
      BY <1>4, <2>1, <3>1
    <3> QED
      BY <1>2, <3>1, <3>2
  <2>4. ListingOf(cache, p) = ServiceListing(p)
    <3>1. ASSUME NEW e \in cache[p] PROVE e \in ServiceListing(p)
      <4>1. e.path \in Children(p)
        <5>1. e \in Entries
          BY <2>2, <3>1 DEF ReachInv, TypeInv, TypeOK
        <5>2. Parent(e.path) = p
          BY <2>2, <3>1 DEF ReachInv, Placed
        <5> QED
          BY <5>1, <5>2 DEF Entries, Children
      <4>2. e \in Shown(e.path)
        BY <2>2, <3>1, <4>1 DEF Shown, Attributes, ListingOf, Children
      <4> QED
        BY <2>3, <4>1, <4>2 DEF Expected, Children
    <3>2. ASSUME NEW e \in ServiceListing(p) PROVE e \in cache[p]
      <4>1. PICK q \in Children(p) : e = ServiceEntry(q) /\ e.path = q
        BY <3>2 DEF ServiceListing, ServiceEntry
      <4>2. e \in Expected(q)
        BY <3>2, <4>1 DEF Expected, Children
      <4> QED
        BY <2>2, <2>3, <4>1, <4>2 DEF Shown, Attributes, ListingOf, Children
    <3> QED
      BY <2>2, <3>1, <3>2 DEF ListingOf
  <2> QED
    BY <1>6, <2>1, <2>2, <2>4 DEF Answer, ServiceAnswer
<1> QED
  BY <1>5, <1>6

\* A callback whose update went through, and with nothing it tells about
\* changed since or given up on, answers what the service has, whatever other
\* threads' updates do to the cache in the meantime.
THEOREM CallbacksAnswerTheService == Spec => AnswersAreCurrent
<1>1. ReachInv /\ [Next]_vars =>
        [\A t \in Threads :
           pc[t] = "lookup" /\ pc'[t] = "idle" /\ fresh[t] /\ InScope(op[t])
             => Answer(op[t]) = ServiceAnswer(op[t])]_vars
  BY LookupEnds, FreshAnswers DEF ReachInv, TypeInv
<1> QED
  BY <1>1, ReachInit, ReachStep, PTL DEF Spec, AnswersAreCurrent
=============================================================================
