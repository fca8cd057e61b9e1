----------------------------- MODULE BlockCache -----------------------------
(***************************************************************************)
(* Session::AcquireBlock (HalalCloud.Client.Session.cpp): a block of a     *)
(* file is taken from the cache directory if what lies there has the right *)
(* size and a hash the process trusts, and downloaded over it otherwise.   *)
(* A session's mutex lets one call of its process run at a time; several   *)
(* processes share the directory, and any of them may be killed in the     *)
(* middle of a download.                                                   *)
(*                                                                         *)
(* A file of the right size holds the block as encrypted under some key,   *)
(* or junk; Short stands for every file of another size, or none.  A hash  *)
(* tells all of these apart, so that a hash stands for what was hashed.    *)
(***************************************************************************)

CONSTANTS
  Processes,
  Hashed,      \* blocks whose identifier is a CID, with the SHA-256 of the block
  Legacy,      \* blocks whose identifier is none
  Keys,        \* the encryption byte the service answers with for a block
  Short, Junk, \* contents of files
  Genuine,     \* a block as its file consists of it
  Nothing      \* no hash, no result, no block

ASSUME BlocksAssumption == Hashed \cap Legacy = {}
ASSUME ContentsAssumption ==
  /\ Short # Junk /\ Nothing \notin {Short, Junk, Genuine} /\ Genuine # Junk
  /\ Keys \cap {Short, Junk, Nothing} = {}
\* The service encrypts a block in one way (the code compares no keys).
ASSUME OneKeyAssumption == \A k, l \in Keys : k = l

Blocks == Hashed \cup Legacy
Full == Keys \cup {Junk}         \* contents of the right size
Contents == Full \cup {Short}

VARIABLES
  file,       \* the file of each block in the cache directory
  trusted,    \* m_CachedBlocks of each process: the hash, or Nothing
  pc,         \* where each process is in AcquireBlock
  block,      \* the block each process was asked for
  key,        \* the encryption byte in each call's BlockInfo
  plain,      \* what the last call of each process returned
  returned    \* history: the encrypted bytes behind each process's answers

call == << block, key >>
vars == << file, trusted, pc, call, plain, returned >>

\* HccXorBufferWithByte: only the key it was encrypted with gives the block.
Decrypted(bytes, k) == IF bytes = k THEN Genuine ELSE Junk

Init ==
  /\ file = [b \in Blocks |-> Short]
  /\ trusted = [p \in Processes |-> [b \in Blocks |-> Nothing]]
  /\ pc = [p \in Processes |-> "idle"]
  /\ block = [p \in Processes |-> Nothing]
  /\ key = [p \in Processes |-> Nothing]
  /\ plain = [p \in Processes |-> Nothing]
  /\ returned = [p \in Processes |-> [b \in Blocks |-> {}]]

-----------------------------------------------------------------------------
At(p, from) == pc[p] = from
Go(p, to) == pc' = [pc EXCEPT ![p] = to]

Begin(p, b, k) ==
  /\ At(p, "idle")
  /\ Go(p, "cache")
  /\ block' = [block EXCEPT ![p] = b]
  /\ key' = [key EXCEPT ![p] = k]
  /\ plain' = [plain EXCEPT ![p] = Nothing]
  /\ UNCHANGED << file, trusted, returned >>

Bytes(p) == file[block[p]]
Hash(p) == trusted[p][block[p]]

\* Seeded fault: a block with a CID is only checked for its size.
PassesBySize(p) == Bytes(p) \in Full

\* Seeded fault: the size is not looked at.
PassesAnySize(p) == block[p] \in Hashed => Decrypted(Bytes(p), key[p]) = Genuine

\* What is asked of bytes without a hash to compare with: the right size,
\* and for a CID the SHA-256 in it.
Passes(p) ==
  Bytes(p) \in Full /\ (block[p] \in Hashed => Decrypted(Bytes(p), key[p]) = Genuine)

\* The call returns the decrypted bytes.
Return(p) ==
  /\ plain' = [plain EXCEPT ![p] = Decrypted(Bytes(p), key[p])]
  /\ returned' = [returned EXCEPT ![p][block[p]] = @ \cup {Bytes(p)}]
  /\ Go(p, "idle")
  /\ UNCHANGED << file, call >>

\* Seeded fault: a stored hash vouches for any bytes.
HashMatchesAny(p) == Hash(p) # Nothing

HashMatches(p) == Hash(p) = Bytes(p)

\* The file is as it was when its hash was stored.
HitTrusted(p) ==
  /\ At(p, "cache")
  /\ Bytes(p) \in Full
  /\ HashMatches(p)
  /\ Return(p)
  /\ UNCHANGED trusted

\* Seeded fault: the hash of the changed bytes is taken instead.
TrustAnew(p) == trusted' = [trusted EXCEPT ![p][block[p]] = Bytes(p)]

Forget(p) == trusted' = [trusted EXCEPT ![p][block[p]] = Nothing]

\* A file of the right size that is not what was hashed.  (A file of another
\* size leaves the hash as it is, and emplace will not replace it.)
Distrust(p) ==
  /\ At(p, "cache")
  /\ Bytes(p) \in Full /\ Hash(p) # Nothing /\ ~HashMatches(p)
  /\ Forget(p)
  /\ Go(p, "download")
  /\ UNCHANGED << file, call, plain, returned >>

\* emplace leaves a hash that is there alone.
Emplace(p) ==
  trusted' = IF Hash(p) = Nothing THEN [trusted EXCEPT ![p][block[p]] = Bytes(p)] ELSE trusted

\* A file from an earlier run, or from another process.
HitUntrusted(p) ==
  /\ At(p, "cache")
  /\ Hash(p) = Nothing
  /\ Passes(p)
  /\ Return(p)
  /\ Emplace(p)

Miss(p) ==
  /\ At(p, "cache")
  /\ Bytes(p) \notin Full \/ (Hash(p) = Nothing /\ ~Passes(p))
  /\ Go(p, "download")
  /\ UNCHANGED << file, trusted, call, plain, returned >>

-----------------------------------------------------------------------------
(* HccDownloadFile, and the second look at the file.                       *)

Fails(p) == Go(p, "idle") /\ UNCHANGED << trusted, call, plain, returned >>

OpenTarget(p) ==
  /\ At(p, "download")
  /\ file' = [file EXCEPT ![block[p]] = Short]
  /\ Go(p, "transfer")
  /\ UNCHANGED << trusted, call, plain, returned >>

OpenTargetFails(p) == At(p, "download") /\ Fails(p) /\ UNCHANGED file

\* Who else is writing the same file.
Shared(p) == \E q \in Processes \ {p} : At(q, "transfer") /\ block[q] = block[p]

\* The body is written as it comes; another writer may have cut the file
\* short in between.  A server may also serve something else.
Written(p) == IF Shared(p) THEN Contents ELSE {key[p], Junk}

TransferEnds(p) ==
  /\ At(p, "transfer")
  /\ \E c \in Written(p) : file' = [file EXCEPT ![block[p]] = c]
  /\ Go(p, "check")
  /\ UNCHANGED << trusted, call, plain, returned >>

\* The connection breaks, or the body is that of an error: it stays there.
TransferFails(p) ==
  /\ At(p, "transfer")
  /\ \E c \in {Short, Junk} : file' = [file EXCEPT ![block[p]] = c]
  /\ Fails(p)

Accept(p) ==
  /\ At(p, "check")
  /\ Passes(p)
  /\ Return(p)
  /\ Emplace(p)

Reject(p) ==
  /\ At(p, "check")
  /\ ~Passes(p)
  /\ Fails(p)
  /\ UNCHANGED file

-----------------------------------------------------------------------------
\* The process is killed, and started again.
Kill(p) ==
  /\ trusted' = [trusted EXCEPT ![p] = [b \in Blocks |-> Nothing]]
  /\ returned' = [returned EXCEPT ![p] = [b \in Blocks |-> {}]]
  /\ Go(p, "idle")
  /\ block' = [block EXCEPT ![p] = Nothing]
  /\ key' = [key EXCEPT ![p] = Nothing]
  /\ plain' = [plain EXCEPT ![p] = Nothing]
  /\ UNCHANGED file

\* The disk, or somebody else, damages a file or removes it.
Damage(b) ==
  /\ \E c \in {Short, Junk} : file' = [file EXCEPT ![b] = c]
  /\ UNCHANGED << trusted, pc, call, plain, returned >>

Acquire(p) ==
  \/ HitTrusted(p) \/ Distrust(p) \/ HitUntrusted(p) \/ Miss(p)
  \/ OpenTarget(p) \/ OpenTargetFails(p) \/ TransferEnds(p) \/ TransferFails(p)
  \/ Accept(p) \/ Reject(p)

Next ==
  \/ \E p \in Processes : Acquire(p)
  \/ \E p \in Processes, b \in Blocks, k \in Keys : Begin(p, b, k)
  \/ \E p \in Processes : Kill(p)
  \/ \E b \in Blocks : Damage(b)

Spec == Init /\ [][Next]_vars

-----------------------------------------------------------------------------
TypeOK ==
  /\ file \in [Blocks -> Contents]
  /\ trusted \in [Processes -> [Blocks -> Full \cup {Nothing}]]
  /\ pc \in [Processes -> {"idle", "cache", "download", "transfer", "check"}]
  /\ block \in [Processes -> Blocks \cup {Nothing}]
  /\ key \in [Processes -> Keys \cup {Nothing}]
  /\ plain \in [Processes -> {Genuine, Junk, Nothing}]
  /\ returned \in [Processes -> [Blocks -> SUBSET Full]]
  /\ \A p \in Processes : ~At(p, "idle") => block[p] \in Blocks /\ key[p] \in Keys

\* A block with a CID is never anything but the block: whatever a download
\* broken off, another process or the disk has left in the cache, and also
\* where a stored hash makes the CID unnecessary.  (It rests on
\* OneKeyAssumption: the bytes a stored hash vouches for are decrypted with
\* the key of the latest answer and not compared with the CID again.)
HashedIsGenuine ==
  \A p \in Processes : block[p] \in Hashed => plain[p] # Junk

\* A process trusts only bytes it has returned, and so has checked: a block
\* without a CID, of which only the size tells, does not change in the
\* directory under a process without being downloaded again.
TrustsWhatItReturned ==
  \A p \in Processes, b \in Blocks :
    trusted[p][b] # Nothing => trusted[p][b] \in returned[p][b]
=============================================================================
