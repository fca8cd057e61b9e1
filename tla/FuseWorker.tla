----------------------------- MODULE FuseWorker -----------------------------
(***************************************************************************)
(* The life of the FUSE worker (StartFuseWorker, FuseWorker,               *)
(* CleanupWorkerContext and StopFuseWorker of HccFuseWorker.cpp): the main *)
(* thread starts a thread that mounts the drive and serves it until it is  *)
(* told to leave or the drive goes away, and cleans up after itself; when  *)
(* the program quits the main thread tells it to leave, joins it and       *)
(* cleans up again.  Only plain globals tell one thread about the other.   *)
(***************************************************************************)

CONSTANT Callers   \* the threads of fuse_loop_mt

Main == "main"
Worker == "worker"

VARIABLES
  running,     \* g_WorkerRunning
  thread,      \* g_WorkerThread: none, joinable or joined
  channel,     \* g_Channel: null, mounted, or stale after fuse_unmount
  instance,    \* g_Instance: null, live, or stale after fuse_destroy
  cached,      \* the file information cache is initialised
  leaving,     \* fuse_exit was called on the instance
  serving,     \* the callers inside a callback
  pc,          \* where each thread is
  misused,     \* history: fuse_exit was called without an instance
  freedTwice   \* history: a channel or an instance was disposed of twice

fuse == << channel, instance, leaving >>
vars == << running, thread, fuse, serving, cached, pc, misused, freedTwice >>

Threads == {Main, Worker}
At(t, from) == pc[t] = from
Go(t, to) == pc' = [pc EXCEPT ![t] = to]

Init ==
  /\ running = FALSE
  /\ thread = "none"
  /\ channel = "null" /\ instance = "null"
  /\ cached = FALSE
  /\ leaving = FALSE
  /\ serving = {}
  /\ pc = [t \in Threads |-> IF t = Main THEN "start" ELSE "none"]
  /\ misused = FALSE
  /\ freedTwice = FALSE

-----------------------------------------------------------------------------
(* StartFuseWorker, on the main thread; a worker that runs is left alone.  *)
(* Asking for the user's name may throw.                                   *)

InitializeContext ==
  /\ At(Main, "start")
  /\ ~running
  /\ running' = TRUE
  /\ cached' = TRUE
  /\ Go(Main, "spawn") \/ Go(Main, "terminated")
  /\ UNCHANGED << thread, fuse, serving, misused, freedTwice >>

StartThread ==
  /\ At(Main, "spawn")
  /\ thread' = "joinable"
  /\ pc' = [pc EXCEPT ![Main] = "window", ![Worker] = "mount"]
  /\ UNCHANGED << running, fuse, serving, cached, misused, freedTwice >>

-----------------------------------------------------------------------------
(* FuseWorker.                                                             *)

Mount ==
  /\ At(Worker, "mount")
  /\ \/ channel' = "mounted" /\ Go(Worker, "new")
     \/ channel' = "null" /\ Go(Worker, "uninitialize")
  /\ UNCHANGED << running, thread, instance, leaving, serving, cached, misused, freedTwice >>

New ==
  /\ At(Worker, "new")
  /\ \/ instance' = "live" /\ Go(Worker, "loop")
     \/ instance' = "null" /\ Go(Worker, "uninitialize")
  /\ UNCHANGED << running, thread, channel, leaving, serving, cached, misused, freedTwice >>

EnterCallback(c) ==
  /\ At(Worker, "loop")
  /\ ~leaving
  /\ serving' = serving \cup {c}
  /\ UNCHANGED << running, thread, fuse, cached, pc, misused, freedTwice >>

LeaveCallback(c) ==
  /\ c \in serving
  /\ serving' = serving \ {c}
  /\ UNCHANGED << running, thread, fuse, cached, pc, misused, freedTwice >>

\* fuse_loop_mt returns when it was told to, and its threads are done ...
LoopLeaves ==
  /\ At(Worker, "loop")
  /\ leaving
  /\ serving = {}
  /\ Go(Worker, "uninitialize")
  /\ UNCHANGED << running, thread, fuse, serving, cached, misused, freedTwice >>

\* ... or when the drive is unmounted from outside.
DriveGoesAway ==
  /\ At(Worker, "loop")
  /\ serving = {}
  /\ Go(Worker, "uninitialize")
  /\ UNCHANGED << running, thread, fuse, serving, cached, misused, freedTwice >>

-----------------------------------------------------------------------------
(* CleanupWorkerContext, on either thread.                                 *)

Uninitialize(t) ==
  /\ At(t, "uninitialize")
  /\ cached' = FALSE
  /\ Go(t, IF channel = "null" THEN "destroy" ELSE "unmount")
  /\ UNCHANGED << running, thread, fuse, serving, misused, freedTwice >>

Unmount(t) ==
  /\ At(t, "unmount")
  /\ channel' = "stale"
  /\ freedTwice' = (freedTwice \/ channel = "stale")
  /\ Go(t, "forget channel")
  /\ UNCHANGED << running, thread, instance, leaving, serving, cached, misused >>

ForgetChannel(t) ==
  /\ At(t, "forget channel")
  /\ channel' = "null"
  /\ Go(t, "destroy")
  /\ UNCHANGED << running, thread, instance, leaving, serving, cached, misused, freedTwice >>

Destroy(t) ==
  /\ At(t, "destroy")
  /\ IF instance = "null"
     THEN Go(t, "reset") /\ UNCHANGED << instance, freedTwice >>
     ELSE /\ instance' = "stale"
          /\ freedTwice' = (freedTwice \/ instance = "stale")
          /\ Go(t, "forget instance")
  /\ UNCHANGED << running, thread, channel, leaving, serving, cached, misused >>

\* Seeded fault: the pointer is left as it is.
KeepPointer == UNCHANGED instance

NullPointer == instance' = "null"

ForgetInstance(t) ==
  /\ At(t, "forget instance")
  /\ NullPointer
  /\ Go(t, "reset")
  /\ UNCHANGED << running, thread, channel, leaving, serving, cached, misused, freedTwice >>

\* Seeded fault: the worker takes itself for the main thread.
AlwaysStopped(t) == "stopped"

AfterCleanup(t) == IF t = Main THEN "stopped" ELSE "ended"

Reset(t) ==
  /\ At(t, "reset")
  /\ running' = FALSE
  /\ Go(t, AfterCleanup(t))
  /\ UNCHANGED << thread, fuse, serving, cached, misused, freedTwice >>

-----------------------------------------------------------------------------
(* StopFuseWorker, on the main thread.                                     *)

\* The program quits; a worker that does not run is left alone.
StopIgnored ==
  /\ At(Main, "window")
  /\ ~running
  /\ Go(Main, "stopped")
  /\ UNCHANGED << running, thread, fuse, serving, cached, misused, freedTwice >>

StopRequested ==
  /\ At(Main, "window")
  /\ running
  /\ Go(Main, "exit")
  /\ UNCHANGED << running, thread, fuse, serving, cached, misused, freedTwice >>

\* Seeded fault: the loop is not told.
TellNobody == UNCHANGED leaving

Tell == leaving' = TRUE

\* fuse_exit; without an instance it crashes or does nothing.
Exit ==
  /\ At(Main, "exit")
  /\ IF instance = "live"
     THEN Tell /\ Go(Main, "join") /\ UNCHANGED misused
     ELSE /\ misused' = TRUE
          /\ Go(Main, "join") \/ Go(Main, "terminated")
          /\ UNCHANGED leaving
  /\ UNCHANGED << running, thread, channel, instance, serving, cached, freedTwice >>

\* Seeded fault: the cleanup does not wait for the worker's.
Waits == TRUE

WorkerEnded == At(Worker, "ended")

Join ==
  /\ At(Main, "join")
  /\ WorkerEnded
  /\ thread' = "joined"
  /\ Go(Main, "uninitialize")
  /\ UNCHANGED << running, fuse, serving, cached, misused, freedTwice >>

\* The destructor of g_WorkerThread ends the program if it is not joined.
ReturnFromMain ==
  /\ At(Main, "stopped")
  /\ Go(Main, IF thread = "joinable" THEN "terminated" ELSE "exited")
  /\ UNCHANGED << running, thread, fuse, serving, cached, misused, freedTwice >>

-----------------------------------------------------------------------------
Alive == pc[Main] \notin {"terminated", "exited"}

Cleanup(t) ==
  Uninitialize(t) \/ Unmount(t) \/ ForgetChannel(t) \/ Destroy(t) \/ ForgetInstance(t) \/ Reset(t)

WorkerStep == Alive /\ (Mount \/ New \/ LoopLeaves \/ Cleanup(Worker))
MainStep ==
  Alive /\ (InitializeContext \/ StartThread \/ Exit \/ Join \/ Cleanup(Main) \/ ReturnFromMain)
CallerStep(c) == Alive /\ LeaveCallback(c)

Next ==
  \/ WorkerStep
  \/ MainStep
  \/ \E c \in Callers : CallerStep(c) \/ (Alive /\ EnterCallback(c))
  \/ Alive /\ (DriveGoesAway \/ StopIgnored \/ StopRequested)

Spec == Init /\ [][Next]_vars

\* Every thread goes on, and callbacks return.
FairSpec ==
  Spec /\ WF_vars(WorkerStep) /\ WF_vars(MainStep) /\ \A c \in Callers : WF_vars(CallerStep(c))

-----------------------------------------------------------------------------
CleanupPoints ==
  {"uninitialize", "unmount", "forget channel", "destroy", "forget instance", "reset"}
MainPoints ==
  {"start", "spawn", "window", "exit", "join", "stopped", "exited", "terminated"} \cup CleanupPoints
WorkerPoints == {"none", "mount", "new", "loop", "ended"} \cup CleanupPoints

\* The globals of HccFuseWorker.cpp and the points each thread may be at.
TypeOK ==
  /\ running \in BOOLEAN
  /\ thread \in {"none", "joinable", "joined"}
  /\ channel \in {"null", "mounted", "stale"}
  /\ instance \in {"null", "live", "stale"}
  /\ cached \in BOOLEAN /\ leaving \in BOOLEAN
  /\ serving \subseteq Callers
  /\ pc \in [Threads -> MainPoints \cup WorkerPoints]
  /\ pc[Main] \in MainPoints /\ pc[Worker] \in WorkerPoints
  /\ misused \in BOOLEAN /\ freedTwice \in BOOLEAN

\* CleanupWorkerContext runs on both threads, and each pointer it frees is
\* freed once.
DisposedOnce == ~freedTwice

\* No callback of the loop finds the file information cache taken down under
\* it by UninitializeFileInformationCache.
CacheOutlivesCallbacks == serving # {} /\ Alive => cached

\* Quitting comes to its end when fuse_exit has reached an instance, also if
\* the drive goes away at the same time.
StopEnds == (At(Main, "join") /\ ~misused) ~> At(Main, "exited")

\* "Stop FUSE worker" (HalalCloud.Client.cpp:78): when StopFuseWorker has
\* returned the worker's thread has been joined.
StoppedIsJoined == At(Main, "stopped") => thread = "joined"
=============================================================================
