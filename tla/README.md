# HalalCloud Client: a TLA+ model

HalalCloud Client is a cloud storage client for Windows. It logs a user in with
a QR code, mounts the user's files as a read-only drive through FUSE
(`HalalCloud.Client`), and has a playground program with the pieces of the next
version: a block cache, file reads, a thread pool and a download manager
(`HalalCloud.Client.Playground`). `HccApi` is the C library below both.

These modules model the parts of it in which threads, processes, the service
and the disk meet. The repository has no tests and hardly any docs beside its
comments; the models are translated from the code, and the comments are what
the code is compared with.

## 1. Inventory

### File information cache (`HccFuseWorker.cpp`, 30-184, 337-462)

*State.* A map from directories to their listings, the time of the last update,
a mutex. *Operations.* The initial walk of the whole tree; an update at the
beginning of every `getattr` and `readdir` (ask what changed since the last
time, drop each item, fetch it, list it again if it is a directory); the lookup.
*Interactions.* Several threads of the FUSE loop call it; every update makes
remote calls with the mutex held; other clients change the tree meanwhile.
*Hard.* The list of changes and the time it is stamped with are taken one after
the other; any remote call of an update may throw and the rest of the list is
dropped; the time is that of this computer, compared with the service's.
*Correct means.* A path on which cache and service differ will be in the next
list, unless it is one of those the code knowingly gives up on; no listing has
two entries of one name; the mutex is released.

### User token and profile (`HccProtocolWrappers.cpp`, `HalalCloud.Client.cpp`, `HccUxMainWindow.cpp`)

*State.* One `UserToken` (access and refresh token), shared without a lock;
`Profile.json`. *Operations.* `Request` posts, and on UNAUTHENTICATED refreshes,
assigns, saves and posts again; `Logoff`; load, save; `main` from restore over
login to the save at exit. *Interactions.* The main thread and every thread of
the FUSE loop may be in `Request` at once; the service may withdraw a refresh
token when it is used; the process may be killed between any two steps. *Hard.*
Overlapping refreshes, a save composed before another refresh and written after
it, a logoff while a refresh is under way, a reply that never arrives. *Correct
means.* The two halves of the token belong together, the client does not throw
away the token the service accepts, the profile follows the token.

### Login dialog (`HccUxNewCredentialDialog.cpp`)

*State.* Code, code verifier and link, used by two threads without a lock; a
stop flag; queued signals. *Operations.* The worker authorizes, polls, emits
signals; the slots draw the QR code and get the token; closing joins the worker.
*Hard.* Slots run long after the signal; codes run out; the join happens on the
thread the signals wait for; a link may be too long for a QR code. *Correct
means.* The token is asked for with the verifier its code was issued for; what is
shown is what is polled; closing ends; the worker is gone when the drive comes.

### FUSE worker (`HccFuseWorker.cpp`, 186-243, 478-541)

*State.* Plain globals: running, thread, channel, instance. *Operations.* Start,
mount and serve, clean up (on either thread), stop. *Hard.* The drive may go
away by itself, the mount may fail, the quit may come at any of these moments.
*Correct means.* Nothing is disposed of twice or under a callback; a quit ends.

### Thread pool and download manager (`HalalCloud.Portable.Helpers.cpp`)

*State.* A queue, a flag, a mutex and a condition variable; a map of tasks by
id with a second mutex and condition variable. *Operations.* `Enqueue`, the
workers, the destructor; `Add`, `Wait`, `Remove`, `Clear`, the closures and the
destructor. *Hard.* Wakeups between a predicate and its block, the destructor
against both, ids that are removed and added again while a closure runs.
*Correct means.* No wakeup is lost, destructors return, a task is ready only
when its own file was downloaded, no waiter is left behind.

### Block cache (`HalalCloud.Client.Session.cpp`, 155-340; `HccApi.cpp`, 1027-1202)

*State.* The files of the cache directory (shared by processes), the hashes a
process trusts. *Operations.* `AcquireBlock` with `HccDownloadFile`. *Hard.* A
kill in the middle of a download, two processes writing one file, error bodies
left in the file, a damaged file. *Correct means.* A block with a CID is genuine
or not returned; a process trusts only what it has returned.

### File reads (`HalalCloud.Client.Session.cpp`, 40-139, 478-591; `HalalCloud.Client.Playground.cpp`, 58-159)

*State.* None beyond the call. *Operations.* From offset and size to blocks,
addresses in batches of 200, the copying. *Hard.* Off-by-ones at the first
block, the last block, a range's end, the file's end. *Correct means.* A read
returns the bytes of the file.

### Playground program (`HalalCloud.Client.Playground.cpp`, 58-159, 310-441)

*State.* One session on main's stack, with its token, its trusted hashes and a
mutex. *Operations.* Log in, mount, serve reads on several threads, log off.
*Interactions.* Every read takes the session's mutex for each of its blocks and
holds it over the download. *Hard.* Transfers have no timeout; a read may fail at
any block; a callback that throws ends the process in the middle of the others'
downloads. *Correct means.* Every read returns as long as transfers do.

### HccApi (`HccApi.cpp`)

*State.* None beyond a call. *Operations.* A signed POST whose body comes in
pieces (`HccRpcPostRequest`), the XOR of a buffer with a byte, the SHA-256 in a
CID, downloads (part of the block cache). *Hard.* A buffer's unaligned ends; a
body that breaks off, memory that runs out, an HMAC that fails in the middle of
its chain; strings that are nearly CIDs. *Correct means.* Every byte of the
buffer is changed once and none outside; success means a whole answer; a
signature covers everything; a text is a CID exactly if it is taken for one.

### Parts that are not modelled, or in part

- `HccApi`'s wrappers of SHA-256, HMAC and Base64 pass on to mbedTLS; a hash
  stands for what was hashed.
- Main window: showing, hiding and quitting are part of `Client`, the log-off
  button and the request for the user's information of `TokenSession`; widgets
  are not modelled.
- Playground: `Impersonate`, `CreateFolder`, `UploadFile` and `DownloadFile` are
  called by nobody; `Authenticate` polls as the login dialog does.
- Not modelled: `qrcodegen` and `HalalCloud.Dependencies` are vendored. Nine
  tenths of the repository's lines of code are the headers of curl, mbedTLS and
  zlib, which declare and do nothing. Icons, resources and build files have no
  behaviour.

## 2. Modules

| Module | Models | Correspondence |
| --- | --- | --- |
| `FileInformationCache` | the cache and the service's tree | one action per remote call of an update and per critical section; `Put`, `Delete`, `Tick` are the service |
| `TokenSession` | token, profile, `Request`, `main` | one action per step another thread or a kill can come between: post, refresh, each of the two moves of the assignment, compose, open and write of a save |
| `CredentialDialog` | the login dialog and its worker | one action per round of the worker's loop or part of it around a remote call, and per field it assigns; the slots take the head of a queue of signals |
| `FuseWorker` | the worker thread's life | one action per call of the FUSE library and per assignment the other thread can see |
| `Client` | the program: login dialog, then drive and window | extends `CredentialDialog`, takes `FuseWorker` as an instance; the dialog's steps while nobody has a token, the drive's after that, the window's while main is in it |
| `TaskPool` | abstract specification of a pool | tasks are started in order, each once, by a free worker, and every accepted task is finished |
| `ThreadPool` | the pool with mutex and condition variable | one action per critical section, block, notification; implements `TaskPool` |
| `DownloadManager` | the manager, over `TaskPool` | extends `TaskPool`; a closure's critical sections and its download are steps of their own |
| `BlockCache` | `AcquireBlock` in several processes | cache hit, distrust, miss, open, transfer, second look; `Kill` and `Damage` are the environment |
| `FileBlocks` | a read from offset to bytes | one action per remote call and per block copied; a byte is its position in the file |
| `Playground` | the playground's main and its reads | extends `BlockCache`: a thread's read locks the session, makes `BlockCache`'s steps for one process, and unlocks; other processes run beside it |
| `XorBuffer` | `HccXorBufferWithByte` | one action per unit of a loop and per decision between the loops |
| `RpcRequest` | `HccRpcPostRequest` | one action per link of the signature's chain, per piece of the body, for the copy |
| `Cid` | `HccCidGetSha256`, `DecodeBase32Rfc4648` | one action per character |
| `HccApi` | the sum of the last three | a call of one of the functions |
| `FileInformationCache_proofs`, `TokenSession_proofs`, `Client_proofs`, `ThreadPool_proofs`, `DownloadManager_proofs`, `Playground_proofs`, `FileBlocks_proofs`, `HccApi_proofs` | theorems | section 5 |

An `MC` module extends its specification with symmetry sets and with constants
a `.cfg` cannot write down. The definitions commented as seeded faults are not
used by any specification: each is the form of a neighbouring definition that a
plausible bug would give it, and shows that a property can fail.

How they compose. `DownloadManager` uses `TaskPool` in place of the pool, which
`ThreadPool` is shown to implement: what is checked of the manager holds with
the real pool. `FuseWorker` abstracts the callbacks to entering and leaving;
`FileInformationCache` takes from it that the cache is filled before and emptied
after all callbacks (`CacheOutlivesCallbacks`), `TokenSession` that quitting
joins the loop. `Client` runs dialog and drive in the order main does, on one
main thread. `Playground` is proved to implement `BlockCache`, so that what holds
of the cache holds with any number of reading threads. `FileBlocks` takes from
`BlockCache` that a block is genuine or refused.

## 3. Runs

Bounds are the constants of the `.cfg` files.

| Run | Shows | Bounds, and why they are enough |
| --- | --- | --- |
| `file_information_cache` | type, `RootCached`, `UniqueNames`, `UpdatesReachCache`, `AnswersAreCurrent` | two threads, a path that may be a file or a directory and one below it, two instants after mounting: enough for a change before, within and after an update, for a directory replaced by a file, and for two updates overlapping |
| `file_information_cache_skewed` | `UpdatesReachCache` with the local clock ahead and only the root's children reported; `MutexReleased` | the same with a path that is a directory or nothing, without symmetry |
| `token_session` | type, `PairMatched`, `KeepsSession`, `QuitEnds` | main and two threads, three pairs of tokens: two overlapping refreshes and one more to see their result |
| `token_session_saved` | *violated*: finding 1 | one FUSE thread, four pairs |
| `thread_pool` | type, `NoLostWakeup`, `DestructorReturns`, `ImplementsTaskPool` | two workers, two producers, three tasks: more tasks than workers, more sleepers than notifications and the reverse |
| `download_manager` | type, `RunningIsWorkedOn`, `ReadyMeansDownloaded`, `NobodyBlockedAtEnd`, `WaitReturns` | two clients, two ids, two tasks on two workers, one slip: an id that is used again needs two tasks, the client that does so is the second one |
| `client` | type, `TokenAskedWithItsVerifier`, `ShownIsPolled`, `LoginThreadGone`, `DisposedOnce`, `CacheOutlivesCallbacks`, `CloseEnds`, `ConfirmedIsNoticed`, `StopEnds` | two codes, the second after a lost reply, three verifiers; three callers; there is one dialog, one worker and one main thread |
| `credential_dialog_regenerates` | *violated*: finding 2 | the same |
| `playground` | `BlockCache`'s type, `HashedIsGenuine`, `TrustsWhatItReturned`; `ReadEnds` | two threads that read a block with a CID and one without, another process that asks for the former: threads meet at the mutex, processes at a file; for more of either, section 5 |
| `file_blocks` | type, `ReadReturnsFile`, `FailsOnlyAcrossRanges` | every file of one or two ranges of up to three blocks of up to three bytes, every offset, requests of up to seven bytes, units of two bytes in the XOR, batches of two answered with any of their addresses in any order: every position of both ends of a read relative to blocks, ranges and batches |
| `hcc_api` | `FlipsBuffer`, `SignedInFull`, `SuccessIsWhole`, `CidNamesItsHash` | units of four bytes, buffers of up to 15 at every address: every combination of the three parts of the XOR, and counts of four bits; bodies of up to three pieces, every status code the code knows and one it does not; CIDs of three hashes of two bytes with up to two characters changed, and a decoder's buffer that overflows after two of them |
| `hcc_api_xor` | *violated*: finding 3 | the same, with fewer strings |

A *slip* of a client of the download manager is to remove an id that somebody
uses or to add one that is there. `WaitReturns`, `NobodyBlockedAtEnd` and
`ReadyMeansDownloaded` are stated for behaviours without one: a waiter whose id
is removed waits for good, and section 4 says what happens with ids that are
used again. `RunningIsWorkedOn` holds with slips, too. Both properties of the
waiters say that they are woken, not that they have left `Wait` before the manager
is gone: section 4.

`KeepsSession` excuses a client that has lost a refresh's reply, and one whose
logoff is under way with the token it names: the service may withdraw it although
the logoff's reply does not arrive. `FailsOnlyAcrossRanges` excuses the
decryption of a block that is at least as long as a unit (`DecryptionRunsOff`):
finding 3.

`FlipsBuffer` leaves out the buffers of finding 3.

`CHECK_DEADLOCK FALSE` stands where the program really ends: the dialog is
closed, the worker and main have ended, the destructor has returned, a read has
been answered, a function has returned.

### Fairness

- `FileInformationCache`: weak fairness of a thread's update. A thread runs, and
  each of its steps is always enabled until taken, as a remote call returns or
  throws.
- `TokenSession`: weak fairness of every thread's steps of a request under way
  and of main's own. Nobody need start a request, and the user need do nothing.
- `CredentialDialog`: weak fairness of both threads; strong fairness of the
  polls' and the authorization's answers, as a service that is asked again and
  again answers again and again (each single request may throw).
- `FuseWorker`: weak fairness of both threads and of callbacks returning. Quits
  whose `fuse_exit` did not reach a live instance are left out of `StopEnds`.
- `Client`: the fairness of the two, and none for the user.
- `Playground`: weak fairness of a thread's steps in `AcquireBlock` and strong
  fairness of its lock. Transfers are not fair: `ReadEnds` has for its premise
  that none goes on for ever.
- `ThreadPool`: strong fairness of each worker and producer, since a mutex can
  be taken by others again and again, and the operating system's mutexes do not
  starve a thread for ever; weak fairness of the destructor. Nobody need call.
- `DownloadManager`: weak fairness of each closure, waiter and the destructor.

No clock or timeout is modelled: the transfers have none (`HccApi.cpp`:1078).

## 4. Findings

Three runs show the code doing other than its comments say:

1. `SavedTokenCurrent` with FUSE threads. "Save the new token to the local
   storage": two overlapping saves may leave the older refresh token in the
   profile (`HccProtocolWrappers.cpp`:479).
2. `FailureRegenerates`. After a failed code the worker returns, under a comment
   that says it regenerates (`HccUxNewCredentialDialog.cpp`:133-135).
3. `StaysInBuffer`. A buffer that ends with a whole unit leaves nothing to the
   last loop of the XOR, which is a do-while and runs 2^32 times from the count 0
   on (`HccApi.cpp`:178). A read of the playground whose block ends so crashes when
   it decrypts it: `DecryptionRunsOff` in `FileBlocks`, `Kill` in `BlockCache`.

The modules state more of what comments promise than the listed runs check.
These definitions are part of no run, and the model shows why they fail:

- `MountedRootCached` (`FileInformationCache`): a walk that cannot list the root
  leaves a mounted drive with an empty cache that nothing fills any more; the
  comment at `HccFuseWorker.cpp`:29 takes empty to mean not initialized.
- `LogoffLeavesNoToken` (`TokenSession`, with a FUSE thread): a refresh under way
  at the logoff brings a token back, and the exit saves it
  (`HccProtocolWrappers.cpp`:520).
- `BuffersFreed` (`TokenSession`): the body of a refused request is dropped by
  the retry and by the throw (`HccProtocolWrappers.cpp`:481, 499; `HccApi.h`:215).
- `CancelledNeverDownloaded` (`DownloadManager`): tasks marked as failed by the
  destructor ("cancel all waiting tasks") are downloaded all the same before the
  pool is gone (`HalalCloud.Portable.Helpers.cpp`:88, 132).
- `ReadyMeansDownloaded` after a slip (`DownloadManager`): the
  outcome of an id's old download is stored for the task that was added under
  that id meanwhile (`HalalCloud.Portable.Helpers.cpp`:144).
- `StoppedIsJoined` (`FuseWorker`): if the worker has ended by itself,
  `StopFuseWorker` returns before the join, and the program is terminated at its
  exit by the destructor of a joinable thread (`HccFuseWorker.cpp`:528).

Seen while modelling, and contradicted by nothing the repository says: the
manager's destructor wakes its waiters but does not wait until they have left
`Wait`, so that one that gets the mutex after the destructor's end locks and reads
what is no longer there (`HalalCloud.Portable.Helpers.cpp`:95-98, 166-176;
`WokenTooLate`, where the model stops following that client). A read
that crosses from one size range into the next fails with `-EINVAL`, so that a
read that reaches a smaller last block does (`HalalCloud.Client.Session.cpp`:105;
`FailsOnlyAcrossRanges` says that no other read is refused). Fewer addresses than
asked for are indexed out of range (`HalalCloud.Client.Playground.cpp`:119;
`AddressMissing`). The copy of an answer reads one byte behind the vector
(`HccApi.cpp`:885; `Copy`, `CopyCrashes`). A listing that throws leaves the
playground's callback and ends the process (`HalalCloud.Client.Playground.cpp`:270).
Without a profile the mount point is empty, is saved empty, and stays so
(`HccProtocolWrappers.cpp`:415). `GetToken` may throw out of a slot
(`HccUxNewCredentialDialog.cpp`:175), the Escape key leaves the dialog's worker
running, a pool on a machine that reports no processors has no workers
(`HalalCloud.Portable.Helpers.cpp`:45), the pages of a listing are not taken at
one instant (`HccProtocolWrappers.cpp`:594), and a transfer that never ends keeps
the block cache's mutex (`HccApi.cpp`:1078).

## 5. Proofs

`tlapm` checks the following for every value of the constants that satisfies
the named assumptions of the modules.

Every safety property that a passing run checks is proved. In each module the theorem follows from an inductive invariant,
laid out as `Init => Inv`, `Inv /\ [Next]_vars => Inv'` with one step per action,
and the temporal conclusion; TLC has checked the invariants on the runs'
instances. What follows says why the invariants are what they are.

`FileInformationCache_proofs`, any tree of paths, threads, clocks and skew:

- `TypeCorrect`: `Spec => []TypeOK`. `TypeInv` adds who holds the mutex (exactly
  the thread between its lock and its unlock) and that the item being fetched
  is a path; without it the listings an update stores have no type.
- `RootAlwaysCached`: `Spec => []RootCached`. `RootCached` is not inductive: an
  update keeps the root only because no update starts without it, and the walk
  stores it first only because nothing else is on its stack while the cache is
  empty. `RootInv` says both.
- `NamesAlwaysUnique`: `Spec => []UniqueNames`. `UniqueInv` adds that the name
  of an item being fetched is missing from its directory's listing, which holds
  from the drop to the append because only the holder of the mutex writes.
- `ChangesReachCache`: `Spec => []UpdatesReachCache`. A difference between cache
  and service that is not what an update is just at, nor given up by one that
  failed, is missed (`EntryMissed`, `ListingMissed`); `Caught` says that what is
  missed is ahead (`EntryAhead`, `ListingAhead`): newer than the last update, in
  the list of changes being gone through, or below the walk's stack. The
  rest of `ReachInv` says that the service's tree is one (a path has a directory
  above it), that no time stamp is later than the clock, that what is
  gone from the cache below a dropped directory is not a difference, and that an
  entry is listed in its own directory. That a path has an ancestor in a set which
  an action treats as a whole is proved by the least length of a counterexample
  (`LeastNumber`): the induction theorems take operators, but a set has a least
  number by `WFMin` without them.
- `CallbacksAnswerTheService`: `Spec => AnswersAreCurrent`, an action property,
  from the same invariant with `FreshInv`: a callback whose update was complete
  keeps what it is about caught up until it answers, although the mutex is
  released before.

`TokenSession_proofs`, any threads:

- `TypeCorrect`: `Spec => []TypeOK`, with `MainAlone` (where main must be for the
  other threads to run at all).
- `SessionIsKept`: `Spec => []KeepsSession`, which is about the token in memory; the
  profile is finding 1's. A pair of tokens is on its way from
  the service's answer to the end of the assignment; `Session` says that what is
  on its way is accepted, that with rotation at most one is and the refresh token
  it replaces is not, and that with none on its way the token held is accepted.
  `Flights` (a pair is on its way once, and is no pair that was held before) is
  what keeps two overlapping refreshes apart. A logoff withdraws the token that
  was held when its body was composed (`body`), which is never one on its way.
- `HalvesBelongTogether`: `Spec => []PairMatched`, from `Pair`: between the two
  moves of an assignment the access token is the new one, and nobody else is
  at that point.

`Client_proofs`, any codes, verifiers and callers:

- `TypeCorrect`: `ClientSpec => []ClientTypeOK`.
- `TokenMatchesItsVerifier`: `ClientSpec => []TokenAskedWithItsVerifier`, and
  `ScreenIsPolled`: `ClientSpec => []ShownIsPolled`. The fields are the worker's as
  long as it polls (`FieldsMatch`), it has left before the main thread gets to the
  token and nobody writes them after (`LeftFieldsAlone`), and a code that is not
  on the screen yet has its signal in the queue (`ShownOrSignalled`).
- `NoLoginBesideTheDrive`: `ClientSpec => []LoginThreadGone`.
- `PointersDisposedOnce`: `ClientSpec => []DisposedOnce`, and
  `CallbacksHaveTheirCache`: `ClientSpec => []CacheOutlivesCallbacks`. One thread
  cleans up at a time (`OneCleansUp`), a pointer dangles only from the call that
  frees it to its assignment (`DanglesBriefly`), and callbacks run only in the loop
  (`ServedFromCache`). The drive's steps are `FuseWorker`'s, taken as an instance.

`ThreadPool_proofs`, any workers, producers and tasks:

- `TypeCorrect`: `Spec => []TypeOK`.
- `NoWakeupIsLost`: `Spec => []NoLostWakeup`, of a task in the queue and of the end
  of the pool. A worker that has found nothing to do holds the mutex until it
  sleeps, so that what it found still holds then (`BlocksOnNothing`): the
  invariant is about that instant. Its two halves are proved one after the other
  (`TaskIsNoticed`, `EndIsNoticed`).
- `ImplementsPoolSafety`: `Spec => Abstract!PoolSafety`, the safety half of the
  refinement of `TaskPool`, by which the manager uses the pool. Every step is one
  of `TaskPool` or none, as a task is at one place at a time (`OnePlace`).

`DownloadManager_proofs`, any clients, ids, tasks and slips:

- `TypeCorrect`: `Spec => []TypeOK`.
- `RunningAlwaysWorkedOn`: `Spec => []RunningIsWorkedOn`, slips or not, with `InPool`:
  a closure is queued, on a worker or done, as its place says.
- `ReadyAlwaysDownloaded`: `Spec => []ReadyMeansDownloaded`, and
  `NobodyLeftBlocked`: `Spec => []NobodyBlockedAtEnd`. As long as calls are in
  order, an entry of the table and its closure belong to each other
  (`OwnEntries`), an entry's status tells what its closure did (`StatusTells`), and
  a blocked waiter has an entry that is not settled, or a notification to come
  (`OwnTasks`). `NobodyLeftBlocked` says that nobody is asleep when the manager is
  destroyed, not that nobody is still in `Wait`.

`Playground_proofs` on `BlockCache`, any processes and blocks, under
`OneKeyAssumption` (the service encrypts a block in one way):

- `TypeCorrect`: `Spec => []TypeOK`.
- `HashedAlwaysGenuine`: `Spec => []HashedIsGenuine`. The strengthening is that
  a hash trusted for a block with a CID is that of bytes encrypted with the key.
- `TrustIsEarned`: `Spec => []TrustsWhatItReturned`, inductive with the type.

and on `Playground`, any threads, reads and processes:

- `ImplementsBlockCache`: `PlaygroundSpec => Spec`. Every step of the program is
  one of `BlockCache` or none. For a lock to be a call of `AcquireBlock` there
  must be a block left to take: `HasNext`, with `PlaygroundTypeOK` and
  `OneAtATime` the inductive invariant.
- `ReadsAreGenuine`: `PlaygroundSpec => []HashedIsGenuine`, from the former and
  `HashedAlwaysGenuine`.
- `MutexIsOneThreads`: `PlaygroundSpec => []OneAtATime`.

`FileBlocks_proofs`, any files of any size ranges, requests and batches:

- `TypeCorrect`: `Spec => []TypeOK`, `AnswersAreTheFile`: `Spec => []ReadReturnsFile`,
  and `OneRangeIsRead`: `Spec => []FailsOnlyAcrossRanges`, from one invariant: the
  blocks that were looked up lie one after another in the file, the first has the
  byte at the offset, together they have what is asked for and nothing behind the
  end (`LookedUp`); what has been copied is the part of it that the blocks before
  `next` have (`Copied`); and the addresses are those of the blocks, in order,
  unless the service answered otherwise (`AddressesInOrder`). The lemmas say what
  the sums over the ranges are (`SumsAdd`: the recursive function exists, or there
  would be a least length for which it does not), that a block is in one range
  (`OneHome`), where a read starts (`StartBlock`) and when the range it starts in
  does not suffice (`BlocksSuffice`). That only a block with a whole unit in it
  runs off (`RunsOffUnits`) is the theorem's second half: the copying itself does
  not crash.

`HccApi_proofs`, any size of a unit, width of a count, address space, texts, length
of a hash, and bodies of any number of pieces:

- `BufferIsFlipped`: `HccSpec => []FlipsBuffer`. In each loop the bytes in front of
  the pointer are flipped, and the count times the stride is what the part has
  left (`Loops`). It is where the remainder of the buffer's end by a unit is not 0
  that the last loop has a count to begin with (`RestIs`), and a count that is not
  0 does not wrap (`Decrement`).
- `SignaturesAreFull`: `HccSpec => []SignedInFull`. The chain has as many links as
  steps were taken, or none.
- `SuccessesAreWhole`: `HccSpec => []SuccessIsWhole`. What has arrived is a beginning
  of the answer.
- `CidsNameTheirHashes`: `HccSpec => []CidNamesItsHash`, both ways. The bits of the
  content are the first bits of the text, those that are left over are the
  lowest ones of the buffer (`Decoding`), and the reduction of the buffer modulo
  its width does not reach the twelve bits a byte is taken from (`Wraps`).

*Assumptions.* The provers know no powers of two, so that `CountsAssumption` and
`BufferAssumption` state of `2 ^ CountBits` and `2 ^ BufferBits` what is so for every
`CountBits`, and for every `BufferBits` from 12 on (the code has 32 and 64).
`PathsAssumption` says that a path is a sequence of names, has its ancestors
among the paths, and is not the root; `ReportedAssumption` that changes of a path
are reported only if those of its directory are. The other assumptions are that
model values differ and that bounds are numbers. TLC evaluates all of them.

*Model-checked only.* All liveness (`MutexReleased`, `QuitEnds`,
`DestructorReturns`, `WaitReturns`, `CloseEnds`, `ConfirmedIsNoticed`, `StopEnds`,
`ReadEnds`, and the fairness half of `ImplementsTaskPool`): the provers have no
rule for fairness or `ENABLED`.

## 6. Abstractions

The service is a tree of paths with times, a set of accepted tokens, a list of
codes; it may change, refuse or fail at any step its clients could see it do so.
Times are instants of one clock, with the local clock at a fixed distance.
Tokens, codes and blocks are numbers or model values. A listing is taken in one
step (its pages are not modelled). A hash stands for what was hashed: SHA-256
does not collide. Data races on plain variables are modelled by interleaving
the accesses; the torn read of a string is not. The implicit move assignment of
a token is two steps.

## 7. Plan

In order of importance:

1. `FileInformationCache`, `TokenSession`, `ThreadPool`, `DownloadManager`,
   `CredentialDialog`, `FuseWorker` and `Client`, `BlockCache` and `Playground`,
   `FileBlocks`, `XorBuffer`, `RpcRequest`, `Cid`: modelled.
2. Several pages of a listing in `FileInformationCache`; Base64 for URLs.
3. Proofs: every safety property. What is left of the refinement of `TaskPool`
   is its fairness, which is model-checked.
