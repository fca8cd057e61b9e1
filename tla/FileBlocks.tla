----------------------------- MODULE FileBlocks -----------------------------
(***************************************************************************)
(* From a read of a file to the blocks it is made of (HccFuseReadCallback  *)
(* of HalalCloud.Client.Playground.cpp, GetBlocks and                      *)
(* GetBlockStorageInformation of HalalCloud.Client.Session.cpp).  A file's *)
(* blocks are numbered from 0; consecutive blocks of one size make a size  *)
(* range.  A byte is represented by its position in the file, so that what *)
(* a read returns can be compared with what it asked for.                  *)
(***************************************************************************)
EXTENDS Integers, SequencesExt

CONSTANTS
  Layouts,     \* files: sequences of [count, size], one per size range
  MaxRequest,  \* bound: the bytes asked for at once
  Batch,       \* identifiers in one request for addresses, 200 in the code
  NativeSize   \* the bytes decryption takes at a time, as in XorBuffer

ASSUME LayoutsAssumption ==
  \A l \in Layouts : l \in Seq([count : Nat \ {0}, size : Nat \ {0}]) /\ l # << >>
ASSUME BoundsAssumption == MaxRequest \in Nat /\ Batch \in Nat \ {0}
ASSUME UnitAssumption == NativeSize \in Nat \ {0}

VARIABLES
  pc,          \* where the callback is
  ranges,      \* SizeRanges of the file
  offset,      \* offset and size the callback is asked for
  size,
  blocks,      \* RequestedBlocks: [index, size]
  start,       \* StartBlockOffset
  asked,       \* the identifiers the service has been asked for, Proceeded
  addresses,   \* BlocksInfo: the index of the block each address is for
  next,        \* the block to copy
  buf,         \* the bytes written, as positions in the file
  excused      \* history: a remote call of this read failed, or was answered
               \* with other addresses than it asked for

request == << ranges, offset, size >>
vars == << pc, request, blocks, start, asked, addresses, next, buf, excused >>

Least(S) == CHOOSE x \in S : \A y \in S : x <= y

-----------------------------------------------------------------------------
(* FileStorageSizeRange and FileStorageInformation.                        *)

IsInRange(r, i) == r.first <= i /\ i <= r.last
GetRangeBlockCount(r) == r.last - r.first + 1
GetRangeTotalSize(r) == GetRangeBlockCount(r) * r.size

\* What a loop over numbers has added up before its first round, after it,
\* after the second, ...
Sums(s) ==
  LET sum[k \in 0 .. Len(s)] == IF k = 0 THEN 0 ELSE sum[k - 1] + s[k]
  IN sum

\* Where in the file range k begins, and with the last one, the file ends.
SizeBefore(rs, k) == Sums([i \in DOMAIN rs |-> GetRangeTotalSize(rs[i])])[k - 1]

\* Size: GetFileStorageInformation refuses an answer whose ranges do not
\* make up the file.
SizeOf(rs) == SizeBefore(rs, Len(rs) + 1)

\* The service's answer for a layout.
RangesOf(layout) ==
  [k \in DOMAIN layout |->
     LET first == Sums([i \in DOMAIN layout |-> layout[i].count])[k - 1]
     IN [first |-> first, last |-> first + layout[k].count - 1, size |-> layout[k].size]]

\* What is left of the offset when the loop gets to range k.
Rest(rs, o, k) == o - SizeBefore(rs, k)

GetStartBlockIndex(rs, o) ==
  LET k == Least({i \in DOMAIN rs : Rest(rs, o, i) < GetRangeTotalSize(rs[i])})
  IN [index |-> rs[k].first + Rest(rs, o, k) \div rs[k].size,
      offset |-> Rest(rs, o, k) % rs[k].size]

\* Seeded fault: the first block counts as a whole.
ProceededWhole(r, from, i) == (i - from.index + 1) * r.size

\* ProceededSize when block i has been added.
Proceeded(r, from, i) == (i - from.index + 1) * r.size - from.offset

\* The blocks of the range the read begins in, up to the last one needed;
\* none if that range does not suffice: no other contains the start index.
\* A request that goes beyond the file is refused.
GetBlocks(rs, o, n) ==
  LET from == GetStartBlockIndex(rs, o)
      home == CHOOSE k \in DOMAIN rs : IsInRange(rs[k], from.index)
      last == {i \in from.index .. rs[home].last : Proceeded(rs[home], from, i) >= n}
  IN IF o + n > SizeOf(rs) \/ last = {} THEN << >>
     ELSE [j \in 1 .. Least(last) - from.index + 1 |->
             [index |-> from.index + j - 1, size |-> rs[home].size]]

-----------------------------------------------------------------------------
Init ==
  /\ pc = "idle"
  /\ ranges = << >> /\ offset = 0 /\ size = 0
  /\ blocks = << >> /\ start = 0
  /\ asked = 0 /\ addresses = << >> /\ next = 1
  /\ buf = << >>
  /\ excused = FALSE

\* The service tells what the file consists of.
Ask(layout, o, n) ==
  /\ pc = "idle"
  /\ ranges' = RangesOf(layout)
  /\ offset' = o
  /\ size' = n
  /\ pc' = "look up"
  /\ UNCHANGED << blocks, start, asked, addresses, next, buf, excused >>

BeyondEnd ==
  /\ pc = "look up"
  /\ offset >= SizeOf(ranges)
  /\ pc' = "answered"
  /\ UNCHANGED << request, blocks, start, asked, addresses, next, buf, excused >>

\* Seeded fault: a request is not cut at the end of the file.
SizeAsAsked == size

RequestedSize == IF offset + size > SizeOf(ranges) THEN SizeOf(ranges) - offset ELSE size

LookUp ==
  /\ pc = "look up"
  /\ offset < SizeOf(ranges)
  /\ blocks' = GetBlocks(ranges, offset, RequestedSize)
  /\ start' = GetStartBlockIndex(ranges, offset).offset
  /\ pc' = IF blocks' = << >> THEN "failed" ELSE "addresses"
  /\ UNCHANGED << request, asked, addresses, next, buf, excused >>

\* One request for every Batch identifiers, and one for the rest.  The answer
\* need not have every address, nor have them in the order they were asked in.
GetAddresses ==
  LET last == Least({asked + Batch, Len(blocks)})
      batch == [i \in 1 .. last - asked |-> blocks[asked + i].index]
  IN /\ pc = "addresses"
     /\ \E n \in 0 .. Len(batch) : \E answer \in Injection(1 .. n, ToSet(batch)) :
          /\ addresses' = addresses \o answer
          /\ excused' = (excused \/ answer # batch)
     /\ asked' = last
     /\ pc' = IF last = Len(blocks) THEN "copy" ELSE "addresses"
     /\ UNCHANGED << request, blocks, start, next, buf >>

\* The file, an address or a block cannot be had.
RemoteFailure ==
  /\ pc \in {"look up", "addresses", "copy"}
  /\ excused' = TRUE
  /\ pc' = "failed"
  /\ UNCHANGED << request, blocks, start, asked, addresses, next, buf >>

\* The first byte of block i.
Base(i) ==
  LET home == CHOOSE k \in DOMAIN ranges : IsInRange(ranges[k], i)
  IN SizeBefore(ranges, home) + (i - ranges[home].first) * ranges[home].size

\* AcquireBlock returns as many bytes as it is asked for, decrypted.
BytesOf(i, n) == [j \in 1 .. n |-> Base(i) + j - 1]

\* Seeded fault: the offset in the first block is not skipped.
CopyFromStart(bytes) == bytes

CopyFrom(bytes) == IF buf = << >> THEN SubSeq(bytes, start + 1, Len(bytes)) ELSE bytes

\* Seeded fault: the last block is copied whole.
CopyWhole(bytes) == Len(bytes)

CopySize(bytes) == Least({Len(bytes), size - Len(buf)})

\* Seeded fault: what an address is for is not looked at.
AddressTaken == TRUE

AddressFits == addresses[next] = blocks[next].index

CopyBlock ==
  LET bytes == CopyFrom(BytesOf(addresses[next], blocks[next].size)) IN
  /\ pc = "copy" /\ next <= Len(addresses)
  /\ AddressFits
  /\ buf' = buf \o SubSeq(bytes, 1, CopySize(bytes))
  /\ next' = next + 1
  /\ pc' = IF next = Len(blocks) THEN "answered" ELSE "copy"
  /\ UNCHANGED << request, blocks, start, asked, addresses, excused >>

\* n bytes that begin at the given place of a unit, decrypted with a byte that
\* is not 0: whole units lie in them and nothing remains behind the last one,
\* so that the loop over the remaining bytes does not end (XorBuffer).
RunsOff(place, n) ==
  /\ (place + n) % NativeSize = 0
  /\ place + n > IF place = 0 THEN 0 ELSE NativeSize

\* The block is had, and its decryption runs off the vector it is in, which
\* may begin at any place of a unit: the memory behind it is overwritten.
DecryptionRunsOff ==
  /\ pc = "copy" /\ next <= Len(addresses)
  /\ AddressFits
  /\ \E place \in 0 .. NativeSize - 1 : RunsOff(place, blocks[next].size)
  /\ pc' = "crashed"
  /\ UNCHANGED << request, blocks, start, asked, addresses, next, buf, excused >>

AddressOfAnother ==
  /\ pc = "copy" /\ next <= Len(addresses)
  /\ ~AddressFits
  /\ pc' = "failed"
  /\ UNCHANGED << request, blocks, start, asked, addresses, next, buf, excused >>

\* The vector of addresses is read beyond its end: what is found there is
\* not the block's identifier, or not memory.
AddressMissing ==
  /\ pc = "copy" /\ next > Len(addresses)
  /\ pc' \in {"failed", "crashed"}
  /\ UNCHANGED << request, blocks, start, asked, addresses, next, buf, excused >>

Next ==
  \/ \E l \in Layouts, n \in 0 .. MaxRequest :
       \E o \in 0 .. SizeOf(RangesOf(l)) : Ask(l, o, n)
  \/ BeyondEnd
  \/ LookUp
  \/ GetAddresses
  \/ RemoteFailure
  \/ CopyBlock \/ DecryptionRunsOff \/ AddressOfAnother \/ AddressMissing

Spec == Init /\ [][Next]_vars

-----------------------------------------------------------------------------
TypeOK ==
  /\ pc \in {"idle", "look up", "addresses", "copy", "answered", "failed", "crashed"}
  /\ ranges \in Seq([first : Nat, last : Nat, size : Nat \ {0}])
  /\ \A k \in DOMAIN ranges : ranges[k].first <= ranges[k].last
  /\ offset \in 0 .. SizeOf(ranges)
  /\ size \in 0 .. MaxRequest
  /\ blocks \in Seq([index : Nat, size : Nat \ {0}])
  /\ asked \in 0 .. Len(blocks)
  /\ addresses \in Seq(Nat) /\ Len(addresses) <= asked
  /\ start \in Nat
  /\ next \in 1 .. Len(blocks) + 1
  /\ buf \in Seq(0 .. SizeOf(ranges)) /\ Len(buf) <= size
  /\ excused \in BOOLEAN

\* How many bytes of the file lie behind the offset and were asked for.
Available == Least({size, SizeOf(ranges) - offset})

\* A read returns the bytes of the file from its offset on, as many as asked
\* for or as there are: the blocks are the right ones, each is copied from
\* the right place and in its turn, however the ranges and batches fall, and
\* whatever addresses the service answers with.
ReadReturnsFile ==
  pc = "answered" => buf = [i \in 1 .. Available |-> offset + i - 1]

\* The bytes asked for lie in one size range.
InOneRange ==
  \E k \in DOMAIN ranges :
    /\ SizeBefore(ranges, k) <= offset
    /\ offset + Available <= SizeBefore(ranges, k) + GetRangeTotalSize(ranges[k])

\* When the service gives what it is asked for: only a read that crosses from
\* one size range into the next is refused, and none crashes but in decrypting
\* a block that is at least as long as a unit, so never over the addresses.
FailsOnlyAcrossRanges ==
  ~excused =>
    /\ pc = "failed" => ~InOneRange
    /\ pc = "crashed" => next <= Len(blocks) /\ blocks[next].size >= NativeSize
=============================================================================
