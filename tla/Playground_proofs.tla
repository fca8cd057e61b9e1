-------------------------- MODULE Playground_proofs --------------------------
(***************************************************************************)
(* Theorems about BlockCache and about Playground, which is built on it,   *)
(* for any processes, blocks, keys, threads and reads.                     *)
(***************************************************************************)
EXTENDS Playground, TLAPS

-----------------------------------------------------------------------------
(* The block cache.                                                        *)

USE BlocksAssumption, ContentsAssumption, OneKeyAssumption

\* TypeOK is an invariant.
LEMMA TypeInit == Init => TypeOK
BY DEF Init, TypeOK, Blocks, Contents, At

LEMMA TypeStep == TypeOK /\ [Next]_vars => TypeOK'
<1> SUFFICES ASSUME TypeOK, [Next]_vars PROVE TypeOK'
  OBVIOUS
<1> USE DEF TypeOK, At, Go, Contents, Full, call
<1>1. ASSUME NEW p \in Processes, Acquire(p) PROVE TypeOK'
  <2> USE DEF Bytes, Hash, Decrypted
  <2>1. CASE HitTrusted(p)
    BY <2>1 DEF HitTrusted, Return
  <2>2. CASE Distrust(p)
    BY <2>2 DEF Distrust, Forget
  <2>3. CASE HitUntrusted(p)
    BY <2>3 DEF HitUntrusted, Passes, Return, Emplace
  <2>4. CASE Miss(p)
    BY <2>4 DEF Miss
  <2>5. CASE OpenTarget(p)
    BY <2>5 DEF OpenTarget
  <2>6. CASE OpenTargetFails(p)
    BY <2>6 DEF OpenTargetFails, Fails
  <2>7. CASE TransferEnds(p)
    BY <2>7 DEF TransferEnds, Written
  <2>8. CASE TransferFails(p)
    BY <2>8 DEF TransferFails, Fails
  <2>9. CASE Accept(p)
    BY <2>9 DEF Accept, Passes, Return, Emplace
  <2>10. CASE Reject(p)
    BY <2>10 DEF Reject, Fails
  <2> QED
    BY <1>1, <2>1, <2>2, <2>3, <2>4, <2>5, <2>6, <2>7, <2>8, <2>9, <2>10 DEF Acquire
<1>2. ASSUME NEW p \in Processes, NEW b \in Blocks, NEW k \in Keys, Begin(p, b, k) PROVE TypeOK'
  BY <1>2 DEF Begin
<1>3. ASSUME NEW p \in Processes, Kill(p) PROVE TypeOK'
  BY <1>3 DEF Kill
<1>4. ASSUME NEW b \in Blocks, Damage(b) PROVE TypeOK'
  BY <1>4 DEF Damage
<1>5. CASE UNCHANGED vars
  BY <1>5 DEF vars
<1> QED
  BY <1>1, <1>2, <1>3, <1>4, <1>5 DEF Next

\* The variables have their types (AcquireBlock and everything it calls).
THEOREM TypeCorrect == Spec => []TypeOK
BY TypeInit, TypeStep, PTL DEF Spec

(***************************************************************************)
(* What a process trusts about a block with a CID is the block itself.     *)
(***************************************************************************)
TrustsGenuine ==
  \A p \in Processes, b \in Hashed : trusted[p][b] \in Keys \cup {Nothing}

GenuineInv == TypeOK /\ TrustsGenuine /\ HashedIsGenuine

\* Bytes of a block with a CID that pass the check, or match a hash that is
\* trusted, are those encrypted with the key at hand.
LEMMA PassesGenuine ==
  ASSUME NEW p \in Processes, TypeOK, ~At(p, "idle"), block[p] \in Hashed, Passes(p)
  PROVE  Bytes(p) \in Keys /\ Decrypted(Bytes(p), key[p]) = Genuine
BY DEF Passes, Decrypted, TypeOK

LEMMA MatchesGenuine ==
  ASSUME NEW p \in Processes, TypeOK, TrustsGenuine, ~At(p, "idle"), block[p] \in Hashed,
         Bytes(p) \in Full, HashMatches(p)
  PROVE  Decrypted(Bytes(p), key[p]) = Genuine
BY DEF HashMatches, Hash, Bytes, Decrypted, TypeOK, TrustsGenuine, Full

LEMMA GenuineInit == Init => GenuineInv
BY TypeInit DEF Init, GenuineInv, TrustsGenuine, HashedIsGenuine, Blocks

LEMMA GenuineStep == GenuineInv /\ [Next]_vars => GenuineInv'
<1> SUFFICES ASSUME GenuineInv, [Next]_vars PROVE TrustsGenuine' /\ HashedIsGenuine'
  BY TypeStep DEF GenuineInv
<1> USE DEF GenuineInv, TrustsGenuine, HashedIsGenuine, At, Go, call
<1> TypeOK
  OBVIOUS
<1>1. ASSUME NEW p \in Processes, Acquire(p) PROVE TrustsGenuine' /\ HashedIsGenuine'
  <2>1. CASE HitTrusted(p)
    <3>1. ~At(p, "idle") /\ (block[p] \in Hashed => Decrypted(Bytes(p), key[p]) = Genuine)
      BY <2>1, MatchesGenuine DEF HitTrusted
    <3> QED
      BY <2>1, <3>1 DEF HitTrusted, Return, TypeOK
  <2>2. CASE Distrust(p)
    BY <2>2 DEF Distrust, Forget, TypeOK
  <2>3. CASE HitUntrusted(p) \/ Accept(p)
    <3>1. /\ ~At(p, "idle")
          /\ block[p] \in Hashed => Bytes(p) \in Keys /\ Decrypted(Bytes(p), key[p]) = Genuine
      BY <2>3, PassesGenuine DEF HitUntrusted, Accept
    <3>2. Return(p) /\ Emplace(p)
      BY <2>3 DEF HitUntrusted, Accept
    <3>3. TrustsGenuine'
      BY <3>1, <3>2 DEF Return, Emplace, TypeOK
    <3>4. HashedIsGenuine'
      BY <3>1, <3>2 DEF Return, TypeOK
    <3> QED
      BY <3>3, <3>4
  <2>4. CASE Miss(p) \/ OpenTarget(p) \/ TransferEnds(p)
    BY <2>4 DEF Miss, OpenTarget, TransferEnds
  <2>5. CASE OpenTargetFails(p) \/ TransferFails(p) \/ Reject(p)
    BY <2>5 DEF OpenTargetFails, TransferFails, Reject, Fails
  <2> QED
    BY <1>1, <2>1, <2>2, <2>3, <2>4, <2>5 DEF Acquire
<1>2. ASSUME NEW p \in Processes, NEW b \in Blocks, NEW k \in Keys, Begin(p, b, k)
      PROVE  TrustsGenuine' /\ HashedIsGenuine'
  BY <1>2 DEF Begin, TypeOK
<1>3. ASSUME NEW p \in Processes, Kill(p) PROVE TrustsGenuine' /\ HashedIsGenuine'
  BY <1>3 DEF Kill, TypeOK, Blocks
<1>4. ASSUME NEW b \in Blocks, Damage(b) PROVE TrustsGenuine' /\ HashedIsGenuine'
  BY <1>4 DEF Damage
<1>5. CASE UNCHANGED vars
  BY <1>5 DEF vars
<1> QED
  BY <1>1, <1>2, <1>3, <1>4, <1>5 DEF Next

\* A block with a CID is never anything but the block, whatever is left in
\* the cache directory (AcquireBlock).
THEOREM HashedAlwaysGenuine == Spec => []HashedIsGenuine
<1>1. GenuineInv => HashedIsGenuine
  BY DEF GenuineInv
<1> QED
  BY GenuineInit, GenuineStep, <1>1, PTL DEF Spec

(***************************************************************************)
(* A hash is stored together with the answer it vouches for.               *)
(***************************************************************************)
ReturnedInv == TypeOK /\ TrustsWhatItReturned

LEMMA ReturnedInit == Init => ReturnedInv
BY TypeInit DEF Init, ReturnedInv, TrustsWhatItReturned

LEMMA ReturnedStep == ReturnedInv /\ [Next]_vars => ReturnedInv'
<1> SUFFICES ASSUME ReturnedInv, [Next]_vars PROVE TrustsWhatItReturned'
  BY TypeStep DEF ReturnedInv
<1> USE DEF ReturnedInv, TrustsWhatItReturned, At, Go, call
<1>1. ASSUME NEW p \in Processes, Acquire(p) PROVE TrustsWhatItReturned'
  <2>1. CASE HitTrusted(p)
    BY <2>1 DEF HitTrusted, Return, TypeOK
  <2>2. CASE Distrust(p)
    BY <2>2 DEF Distrust, Forget, TypeOK
  <2>3. CASE HitUntrusted(p) \/ Accept(p)
    <3>1. ~At(p, "idle") /\ Return(p) /\ Emplace(p)
      BY <2>3 DEF HitUntrusted, Accept
    <3> QED
      BY <3>1 DEF Return, Emplace, TypeOK, Hash
  <2>4. CASE Miss(p) \/ OpenTarget(p) \/ TransferEnds(p)
    BY <2>4 DEF Miss, OpenTarget, TransferEnds
  <2>5. CASE OpenTargetFails(p) \/ TransferFails(p) \/ Reject(p)
    BY <2>5 DEF OpenTargetFails, TransferFails, Reject, Fails
  <2> QED
    BY <1>1, <2>1, <2>2, <2>3, <2>4, <2>5 DEF Acquire
<1>2. ASSUME NEW p \in Processes, NEW b \in Blocks, NEW k \in Keys, Begin(p, b, k)
      PROVE  TrustsWhatItReturned'
  BY <1>2 DEF Begin
<1>3. ASSUME NEW p \in Processes, Kill(p) PROVE TrustsWhatItReturned'
  BY <1>3 DEF Kill, TypeOK
<1>4. ASSUME NEW b \in Blocks, Damage(b) PROVE TrustsWhatItReturned'
  BY <1>4 DEF Damage
<1>5. CASE UNCHANGED vars
  BY <1>5 DEF vars
<1> QED
  BY <1>1, <1>2, <1>3, <1>4, <1>5 DEF Next

\* A process trusts only the hashes of bytes it has returned.
THEOREM TrustIsEarned == Spec => []TrustsWhatItReturned
<1>1. ReturnedInv => TrustsWhatItReturned
  BY DEF ReturnedInv
<1> QED
  BY ReturnedInit, ReturnedStep, <1>1, PTL DEF Spec

-----------------------------------------------------------------------------
(* The playground.                                                         *)

\* A read under way has a block still to take; one that begins has taken none.
HasNext ==
  \A t \in Threads :
    IF reading[t] = "none" THEN taken[t] = 0
    ELSE wanted[t] \in Reads /\ taken[t] + 1 \in DOMAIN wanted[t]

PlaygroundInv == PlaygroundTypeOK /\ HasNext /\ OneAtATime

LEMMA NextBlock ==
  ASSUME PlaygroundInv, NEW t \in Threads, reading[t] # "none"
  PROVE  wanted[t][taken[t] + 1] \in Blocks
<1>1. wanted[t] \in Seq(Blocks) /\ taken[t] + 1 \in DOMAIN wanted[t]
  BY ReadsAssumption DEF PlaygroundInv, HasNext
<1> QED
  BY <1>1

(***************************************************************************)
(* Every step of the program is one of the block cache, or none: the cache *)
(* sees the program as a process that asks for blocks.                     *)
(***************************************************************************)
AcquireStep(t) == Transfer(t) \/ Proceed(t)

LEMMA AcquireStepAcquires ==
  ASSUME NEW t \in Threads, AcquireStep(t)
  PROVE  Acquire(Home) /\ reading[t] = "acquires"
BY DEF AcquireStep, Transfer, Proceed, AcquireFor, Acquire

LEMMA StepImplements ==
  ASSUME PlaygroundInv, [PlaygroundNext]_playgroundVars
  PROVE  [Next]_vars
<1>1. CASE Authenticate \/ LoopEnds \/ UNCHANGED playgroundVars
  BY <1>1 DEF Authenticate, LoopEnds, playgroundVars
<1>2. CASE Restart
  BY <1>2, HomeAssumption DEF Restart, Next
<1>3. ASSUME NEW t \in Threads, Read(t) \/ RefuseAddress(t) PROVE [Next]_vars
  BY <1>3 DEF Read, RefuseAddress
<1>4. ASSUME NEW t \in Threads, Lock(t) PROVE [Next]_vars
  <2>1. wanted[t][taken[t] + 1] \in Blocks
    BY <1>4, NextBlock DEF Lock
  <2>2. PICK k \in Keys : Begin(Home, wanted[t][taken[t] + 1], k)
    BY <1>4 DEF Lock
  <2> QED
    BY <2>1, <2>2, HomeAssumption DEF Next
<1>5. ASSUME NEW t \in Threads, AcquireStep(t) PROVE [Next]_vars
  BY <1>5, AcquireStepAcquires, HomeAssumption DEF Next
<1>6. CASE Elsewhere
  BY <1>6, ElsewhereAssumption DEF Elsewhere, Next
<1> QED
  BY <1>1, <1>2, <1>3, <1>4, <1>5, <1>6 DEF PlaygroundNext, AcquireStep

-----------------------------------------------------------------------------
LEMMA PlaygroundInitInv == PlaygroundInit => PlaygroundInv
BY TypeInit, HomeAssumption
   DEF PlaygroundInit, PlaygroundInv, PlaygroundTypeOK, HasNext, OneAtATime, Init, At

\* What a step of AcquireBlock leaves of the read it is made for.
LEMMA TakeBlockKeeps ==
  ASSUME PlaygroundInv, NEW t \in Threads, reading[t] = "acquires", TakeBlock(t)
  PROVE  /\ reading' \in [Threads -> {"none", "waits", "acquires"}]
         /\ wanted' \in [Threads -> Reads \cup {<< >>}]
         /\ taken' \in [Threads -> Nat]
         /\ HasNext'
         /\ reading'[t] # "acquires"
         /\ \A u \in Threads \ {t} : reading'[u] = reading[u]
<1> USE DEF PlaygroundInv, PlaygroundTypeOK, HasNext
<1>1. CASE ReturnRead(t)
  BY <1>1 DEF ReturnRead
<1>2. CASE ~ReturnRead(t)
  <2>1. /\ taken[t] + 1 # Len(wanted[t])
        /\ reading' = [reading EXCEPT ![t] = "waits"]
        /\ taken' = [taken EXCEPT ![t] = taken[t] + 1]
        /\ wanted' = wanted
    BY <1>2 DEF TakeBlock
  <2>2. wanted[t] \in Seq(Blocks) /\ taken[t] \in Nat /\ taken[t] + 1 \in DOMAIN wanted[t]
    BY ReadsAssumption
  <2>3. taken[t] + 2 \in DOMAIN wanted[t]
    BY <2>1, <2>2
  <2> QED
    BY <2>1, <2>2, <2>3
<1> QED
  BY <1>1, <1>2

\* Every step of AcquireBlock is made where the process is in it.
LEMMA AcquireBusy ==
  ASSUME NEW p \in Processes, Acquire(p)
  PROVE  ~At(p, "idle")
BY DEF Acquire, HitTrusted, Distrust, HitUntrusted, Miss, OpenTarget, OpenTargetFails,
       TransferEnds, TransferFails, Accept, Reject, At

LEMMA ElsewhereKeepsHome ==
  ASSUME TypeOK, Elsewhere
  PROVE  pc'[Home] = pc[Home]
<1>1. ASSUME NEW p \in Processes \ {Home}, Acquire(p) PROVE pc'[Home] = pc[Home]
  BY <1>1, HomeAssumption
     DEF TypeOK, Acquire, HitTrusted, Distrust, HitUntrusted, Miss, OpenTarget,
         OpenTargetFails, TransferEnds, TransferFails, Accept, Reject, Return, Fails, Go
<1>2. ASSUME NEW p \in Processes \ {Home}, Kill(p) PROVE pc'[Home] = pc[Home]
  BY <1>2, HomeAssumption DEF TypeOK, Kill, Go
<1>3. ASSUME NEW p \in Processes \ {Home}, NEW b, NEW k, Begin(p, b, k)
      PROVE pc'[Home] = pc[Home]
  BY <1>3, HomeAssumption DEF TypeOK, Begin, Go
<1>4. ASSUME NEW b \in Blocks, Damage(b) PROVE pc'[Home] = pc[Home]
  BY <1>4 DEF Damage
<1> QED
  BY <1>1, <1>2, <1>3, <1>4 DEF Elsewhere

LEMMA PlaygroundStepInv ==
  PlaygroundInv /\ [PlaygroundNext]_playgroundVars => PlaygroundInv'
<1> SUFFICES ASSUME PlaygroundInv, [PlaygroundNext]_playgroundVars PROVE PlaygroundInv'
  OBVIOUS
<1>t. TypeOK'
  BY StepImplements, TypeStep DEF PlaygroundInv, PlaygroundTypeOK
<1> USE DEF PlaygroundInv, PlaygroundTypeOK, HasNext, OneAtATime, At
<1>1. CASE Authenticate \/ LoopEnds \/ UNCHANGED playgroundVars
  BY <1>1, <1>t DEF Authenticate, LoopEnds, playgroundVars, vars, reads
<1>2. CASE Restart
  BY <1>2, <1>t, HomeAssumption DEF Restart, Kill, Go, TypeOK
<1>3. ASSUME NEW t \in Threads, Read(t) PROVE PlaygroundInv'
  <2>1. PICK r \in Reads : wanted' = [wanted EXCEPT ![t] = r]
    BY <1>3 DEF Read
  <2>2. r \in Seq(Blocks) /\ r # << >>
    BY ReadsAssumption
  <2> QED
    BY <1>3, <1>t, <2>1, <2>2 DEF Read, vars
<1>4. ASSUME NEW t \in Threads, Lock(t) PROVE PlaygroundInv'
  <2>1. At(Home, "idle") /\ pc' = [pc EXCEPT ![Home] = "cache"]
    BY <1>4 DEF Lock, Begin, Go
  <2> QED
    BY <1>4, <1>t, <2>1, HomeAssumption DEF Lock, TypeOK
<1>5. ASSUME NEW t \in Threads, RefuseAddress(t) PROVE PlaygroundInv'
  BY <1>5, <1>t DEF RefuseAddress, ReturnRead, vars
<1>6. ASSUME NEW t \in Threads, AcquireStep(t) PROVE PlaygroundInv'
  <2>1. reading[t] = "acquires" /\ stage' = stage
    BY <1>6 DEF AcquireStep, Transfer, Proceed, AcquireFor
  <2>2. CASE pc'[Home] = "idle"
    <3>1. TakeBlock(t)
      BY <1>6, <2>2 DEF AcquireStep, Transfer, Proceed, AcquireFor
    <3>2. /\ reading' \in [Threads -> {"none", "waits", "acquires"}]
          /\ wanted' \in [Threads -> Reads \cup {<< >>}]
          /\ taken' \in [Threads -> Nat]
          /\ HasNext'
          /\ reading'[t] # "acquires"
          /\ \A u \in Threads \ {t} : reading'[u] = reading[u]
      BY <2>1, <3>1, TakeBlockKeeps
    <3>3. \A u \in Threads : reading'[u] # "acquires"
      BY <2>1, <3>2
    <3>4. OneAtATime'
      BY <2>2, <3>3
    <3> QED
      BY <2>1, <3>2, <3>4, <1>t
  <2>3. CASE pc'[Home] # "idle"
    <3>1. UNCHANGED reads
      BY <1>6, <2>3 DEF AcquireStep, Transfer, Proceed, AcquireFor
    <3> QED
      BY <2>1, <2>3, <3>1, <1>t DEF reads
  <2> QED
    BY <2>2, <2>3
<1>7. CASE Elsewhere
  BY <1>7, <1>t, ElsewhereKeepsHome DEF Elsewhere, reads
<1> QED
  BY <1>1, <1>2, <1>3, <1>4, <1>5, <1>6, <1>7 DEF PlaygroundNext, AcquireStep

-----------------------------------------------------------------------------
\* AcquireBlock runs for one thread of the session at a time, and only under
\* the mutex.
THEOREM MutexIsOneThreads == PlaygroundSpec => []OneAtATime
<1>1. PlaygroundInv => OneAtATime
  BY DEF PlaygroundInv
<1> QED
  BY PlaygroundInitInv, PlaygroundStepInv, <1>1, PTL DEF PlaygroundSpec

\* The program that reads files with any number of threads implements the
\* block cache's specification, so that what holds of the cache holds in it.
THEOREM ImplementsBlockCache == PlaygroundSpec => Spec
<1>1. PlaygroundInit => Init
  BY DEF PlaygroundInit
<1>2. PlaygroundInv /\ [PlaygroundNext]_playgroundVars => [Next]_vars
  BY StepImplements
<1> QED
  BY PlaygroundInitInv, PlaygroundStepInv, <1>1, <1>2, PTL DEF PlaygroundSpec, Spec

\* In the program, too, a block with a CID is never anything but the block.
THEOREM ReadsAreGenuine == PlaygroundSpec => []HashedIsGenuine
BY ImplementsBlockCache, HashedAlwaysGenuine, PTL
=============================================================================
