----------------------------- MODULE Playground -----------------------------
(***************************************************************************)
(* The playground's program (HalalCloud.Client.Playground.cpp): main with  *)
(* its session, and the threads of fuse_loop_mt that read files through    *)
(* the session (HccFuseReadCallback).  A read acquires its blocks one      *)
(* after another, each under the session's mutex; every read goes through  *)
(* that mutex, with the downloads.  Which blocks a read needs and what it  *)
(* copies out of them is FileBlocks'; the cache is BlockCache's, with the  *)
(* other processes that share its directory.                               *)
(***************************************************************************)
EXTENDS BlockCache, Naturals, Sequences

CONSTANTS
  Home,            \* the process of this program
  Threads,         \* the threads of its FUSE loop
  Reads,           \* what a read may ask for: sequences of blocks
  ElsewhereBlocks  \* the blocks other processes ask for

ASSUME HomeAssumption == Home \in Processes
ASSUME ReadsAssumption == Reads \subseteq Seq(Blocks) \ {<< >>}
ASSUME ElsewhereAssumption == ElsewhereBlocks \subseteq Blocks

VARIABLES
  stage,     \* where main is
  reading,   \* where the read of each thread is
  wanted,    \* RequestedBlocks of each thread's read
  taken      \* how many of them AcquireBlock has returned

reads == << reading, wanted, taken >>
playgroundVars == << vars, stage, reads >>

PlaygroundInit ==
  /\ Init
  /\ stage = "login"
  /\ reading = [t \in Threads |-> "none"]
  /\ wanted = [t \in Threads |-> << >>]
  /\ taken = [t \in Threads |-> 0]

-----------------------------------------------------------------------------
(* main.                                                                   *)

\* Session::Authenticate asks for the state of its code until there is a
\* token for it.  Then the drive is mounted, and served.
Authenticate ==
  /\ stage = "login"
  /\ stage' = "loop"
  /\ UNCHANGED << vars, reads >>

\* There is no drive, or no longer: fuse_loop_mt returns when its threads
\* are done, and Session::Logout follows.
LoopEnds ==
  /\ stage = "loop"
  /\ \A t \in Threads : reading[t] = "none"
  /\ stage' = "logout"
  /\ UNCHANGED << vars, reads >>

\* The process ends, and another begins.  It may be killed, and nothing
\* catches an authorization that failed, a logoff that was refused, or a
\* directory that cannot be listed while the drive is read.
Restart ==
  /\ Kill(Home)
  /\ stage' = "login"
  /\ reading' = [t \in Threads |-> "none"]
  /\ wanted' = [t \in Threads |-> << >>]
  /\ taken' = [t \in Threads |-> 0]

-----------------------------------------------------------------------------
(* HccFuseReadCallback, from the addresses of its blocks on.               *)

Read(t) ==
  /\ stage = "loop"
  /\ reading[t] = "none"
  /\ reading' = [reading EXCEPT ![t] = "waits"]
  /\ \E r \in Reads : wanted' = [wanted EXCEPT ![t] = r]
  /\ UNCHANGED << vars, stage, taken >>

\* AcquireBlock's lock_guard, and what the read has been told of the block.
Lock(t) ==
  /\ reading[t] = "waits"
  /\ \A u \in Threads : reading[u] # "acquires"
  /\ \E k \in Keys : Begin(Home, wanted[t][taken[t] + 1], k)
  /\ reading' = [reading EXCEPT ![t] = "acquires"]
  /\ UNCHANGED << stage, wanted, taken >>

\* Seeded fault: a read that is over keeps the mutex.
ReturnLocked(t) == UNCHANGED reads

\* The callback returns: the bytes, or -EINVAL.
ReturnRead(t) ==
  /\ reading' = [reading EXCEPT ![t] = "none"]
  /\ wanted' = [wanted EXCEPT ![t] = << >>]
  /\ taken' = [taken EXCEPT ![t] = 0]

\* The next address is that of another block.
RefuseAddress(t) ==
  /\ reading[t] = "waits"
  /\ ReturnRead(t)
  /\ UNCHANGED << vars, stage >>

\* AcquireBlock returns, and with it the mutex.  Without a block, and after
\* the last one, the read is over.
TakeBlock(t) ==
  IF plain'[Home] = Nothing \/ taken[t] + 1 = Len(wanted[t]) THEN ReturnRead(t)
  ELSE /\ reading' = [reading EXCEPT ![t] = "waits"]
       /\ taken' = [taken EXCEPT ![t] = @ + 1]
       /\ UNCHANGED wanted

AcquireFor(t, step) ==
  /\ reading[t] = "acquires"
  /\ step
  /\ IF pc'[Home] = "idle" THEN TakeBlock(t) ELSE UNCHANGED reads
  /\ UNCHANGED stage

\* The transfer ends when the server or the connection does: curl is given
\* no timeout.
Transfer(t) == AcquireFor(t, TransferEnds(Home) \/ TransferFails(Home))

Proceed(t) ==
  AcquireFor(t, \/ HitTrusted(Home) \/ Distrust(Home) \/ HitUntrusted(Home) \/ Miss(Home)
                \/ OpenTarget(Home) \/ OpenTargetFails(Home)
                \/ Accept(Home) \/ Reject(Home))

-----------------------------------------------------------------------------
Elsewhere ==
  /\ \/ \E p \in Processes \ {Home} :
          Acquire(p) \/ Kill(p) \/ \E b \in ElsewhereBlocks, k \in Keys : Begin(p, b, k)
     \/ \E b \in Blocks : Damage(b)
  /\ UNCHANGED << stage, reads >>

PlaygroundNext ==
  \/ Authenticate \/ LoopEnds \/ Restart
  \/ \E t \in Threads : Read(t) \/ Lock(t) \/ RefuseAddress(t) \/ Transfer(t) \/ Proceed(t)
  \/ Elsewhere

PlaygroundSpec == PlaygroundInit /\ [][PlaygroundNext]_playgroundVars

\* A thread runs, and gets a mutex that is free again and again.  Nothing is
\* said of transfers, nor of the user and other processes.
PlaygroundFairSpec ==
  /\ PlaygroundSpec
  /\ \A t \in Threads : SF_playgroundVars(Lock(t)) /\ WF_playgroundVars(Proceed(t))

-----------------------------------------------------------------------------
PlaygroundTypeOK ==
  /\ TypeOK
  /\ stage \in {"login", "loop", "logout"}
  /\ reading \in [Threads -> {"none", "waits", "acquires"}]
  /\ wanted \in [Threads -> Reads \cup {<< >>}]
  /\ taken \in [Threads -> Nat]

\* A session's mutex is one thread's, and AcquireBlock is not entered but
\* under it.
OneAtATime ==
  /\ \A t, u \in Threads : reading[t] = "acquires" /\ reading[u] = "acquires" => t = u
  /\ (\E t \in Threads : reading[t] = "acquires") <=> ~At(Home, "idle")

\* Every read that has begun returns, whatever becomes of its blocks and of
\* the other reads in front of it, unless some transfer does not end: the
\* mutex is let go of on every path out of AcquireBlock, failures included.
ReadEnds ==
  \A t \in Threads :
    []<>~At(Home, "transfer") => (reading[t] # "none" ~> reading[t] = "none")
=============================================================================
