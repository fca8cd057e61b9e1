------------------------------ MODULE XorBuffer ------------------------------
(***************************************************************************)
(* HccXorBufferWithByte (HccApi.cpp): the bytes in front of the first      *)
(* aligned address one by one, then whole native units, then the bytes     *)
(* that remain.  Each part is a do-while loop over a count of a fixed      *)
(* width.  What matters of a byte is whether it has been flipped.          *)
(***************************************************************************)
EXTENDS Naturals

CONSTANTS
  NativeSize,  \* sizeof(NativeType): 16, or that of a pointer
  CountBits,   \* the width of a count and of a size: 32
  Room         \* the address space: bytes from here on cannot be touched

ASSUME NativeAssumption == NativeSize \in Nat \ {0} /\ CountBits \in Nat \ {0} /\ Room \in Nat

\* So it is for every CountBits; the provers know no powers.
ASSUME CountsAssumption == 2 ^ CountBits \in Nat \ {0}

\* 0 is the null pointer.
Addresses == 0 .. Room - 1
Sizes == 0 .. 2 ^ CountBits - 1

VARIABLES
  flipped,      \* the bytes that differ from what they were before the call
  start, size,  \* Buffer and BufferSize as they were passed
  xorPc,        \* where the call is
  at,           \* TypedBuffer, or Buffer between the loops
  rest,         \* BufferSize, or what is left of it
  count         \* Count of the loop

xorArgs == << start, size >>
xorVars == << flipped, xorArgs, xorPc, at, rest, count >>

XorInit ==
  /\ flipped = {}
  /\ start = 0 /\ size = 0
  /\ xorPc = "none"
  /\ at = 0 /\ rest = 0 /\ count = 0

\* Seeded fault: the aligned address at or in front of the given one.
AlignedDown(n) == (n \div NativeSize) * NativeSize

GetAlignedSize(n) == ((n + NativeSize - 1) \div NativeSize) * NativeSize

XorEnter(to, n) == xorPc' = to /\ count' = n

XorReturn == XorEnter("returned", 0)

-----------------------------------------------------------------------------
\* A null pointer, no bytes, or a byte 0 that would change none.
XorNothing(b, n, byte) ==
  /\ xorPc = "none"
  /\ b = 0 \/ n = 0 \/ byte = 0
  /\ start' = b /\ size' = 0
  /\ XorReturn
  /\ UNCHANGED << flipped, at, rest >>

XorCall(b, n) ==
  /\ xorPc = "none"
  /\ b # 0 /\ n # 0 /\ b + n <= Room
  /\ start' = b /\ size' = n
  /\ at' = b /\ rest' = n
  /\ XorEnter("align", 0)
  /\ UNCHANGED flipped

\* The bytes in front of the first aligned address, or as many as there are.
Unaligned ==
  LET n == GetAlignedSize(start) - start IN IF n > size THEN size ELSE n

XorAlign ==
  /\ xorPc = "align"
  /\ IF Unaligned = 0 THEN XorEnter("split", 0) ELSE XorEnter("unaligned", Unaligned)
  /\ UNCHANGED << flipped, xorArgs, at, rest >>

\* A buffer that is too small for one unit is done bytewise.
XorSplit ==
  /\ xorPc = "split"
  /\ IF rest < NativeSize THEN XorEnter("small", rest)
                          ELSE XorEnter("aligned", rest \div NativeSize)
  /\ UNCHANGED << flipped, xorArgs, at, rest >>

-----------------------------------------------------------------------------
(* XorBufferWithSingleUInt.                                                *)

Unit == IF xorPc = "aligned" THEN NativeSize ELSE 1

\* What follows a loop: the second part of the call, its third, its end.
XorProceed ==
  \/ /\ xorPc = "unaligned"
     /\ rest' = rest - Unaligned
     /\ IF rest' = 0 THEN XorReturn ELSE XorEnter("split", 0)
  \/ xorPc = "aligned" /\ XorEnter("remaining", rest % NativeSize) /\ UNCHANGED rest
  \/ xorPc \in {"small", "remaining"} /\ XorReturn /\ UNCHANGED rest

XorLoops == xorPc \in {"unaligned", "small", "aligned", "remaining"}

\* Seeded fault: a unit is as long as a byte.
Bytewise == 1

Stride == Unit

\* *TypedBuffer++ ^= XorValue; then --Count, which is unsigned.
XorIterate ==
  LET left == (count + 2 ^ CountBits - 1) % 2 ^ CountBits IN
  /\ XorLoops
  /\ at + Unit <= Room
  /\ flipped' = (flipped \ (at .. at + Unit - 1)) \cup ((at .. at + Unit - 1) \ flipped)
  /\ at' = at + Stride
  /\ IF left = 0 THEN XorProceed
                 ELSE count' = left /\ UNCHANGED << xorPc, rest >>
  /\ UNCHANGED xorArgs

\* There is no memory here.
XorFault ==
  /\ XorLoops
  /\ at + Unit > Room
  /\ XorEnter("crashed", 0)
  /\ UNCHANGED << flipped, xorArgs, at, rest >>

XorNext ==
  \/ \E b \in Addresses, n \in Sizes, byte \in {0, 1} : XorNothing(b, n, byte)
  \/ \E b \in Addresses, n \in Sizes : XorCall(b, n)
  \/ XorAlign \/ XorSplit
  \/ XorIterate \/ XorFault

-----------------------------------------------------------------------------
XorTypeOK ==
  /\ flipped \subseteq Addresses
  /\ start \in Addresses /\ size \in Sizes
  /\ xorPc \in {"none", "align", "unaligned", "split", "small", "aligned", "remaining",
                "returned", "crashed"}
  /\ at \in 0 .. Room /\ rest \in Sizes /\ count \in Sizes

\* The buffer has whole units and ends with one: nothing remains, and the
\* count of the last loop is 0.
EndsOnUnit ==
  /\ size # 0
  /\ (start + size) % NativeSize = 0
  /\ GetAlignedSize(start) < start + size

\* Unless nothing remains after the whole units, every byte of the buffer is
\* flipped, once, and none outside, however the buffer lies.
FlipsBuffer ==
  ~EndsOnUnit =>
    /\ xorPc # "crashed"
    /\ xorPc = "returned" => flipped = start .. start + size - 1

\* "Execute XOR operation on a buffer with a single byte" (HccApi.h:51), "The
\* size of the buffer, in bytes" (HccApi.h:53): no byte behind it is touched.
StaysInBuffer == flipped \subseteq start .. start + size - 1
=============================================================================
