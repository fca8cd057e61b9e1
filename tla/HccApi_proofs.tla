---------------------------- MODULE HccApi_proofs ----------------------------
(***************************************************************************)
(* Theorems about the functions of HccApi.                                 *)
(***************************************************************************)
EXTENDS HccApi, SequenceTheorems, TLAPS

(***************************************************************************)
(* The functions share no state: each moves only its own.                  *)
(***************************************************************************)
LEMMA StepsApart ==
  ASSUME [HccNext]_hccVars
  PROVE  /\ XorNext \/ UNCHANGED xorVars
         /\ PostNext \/ UNCHANGED postVars
         /\ CidNext \/ UNCHANGED cidVars
BY Zenon DEF HccNext, hccVars

(***************************************************************************)
(* HccXorBufferWithByte.                                                   *)
(***************************************************************************)

LEMMA DivMod ==
  ASSUME NEW x \in Nat, NEW n \in Nat \ {0}
  PROVE  /\ x \div n \in Nat /\ x % n \in 0 .. n - 1
         /\ x = (n * (x \div n)) + (x % n)
OBVIOUS

LEMMA DivModIs ==
  ASSUME NEW n \in Nat \ {0}, NEW q \in Nat, NEW r \in 0 .. n - 1
  PROVE  ((n * q) + r) \div n = q /\ ((n * q) + r) % n = r
OBVIOUS

LEMMA Products ==
  ASSUME NEW n \in Nat, NEW q \in Nat, NEW r \in Nat
  PROVE  n * (q + r) = (n * q) + (n * r) /\ n * q \in Nat /\ n * r \in Nat
OBVIOUS

Width == 2 ^ CountBits

LEMMA WidthIs == Width \in Nat \ {0} /\ Sizes = 0 .. Width - 1
BY CountsAssumption DEF Width, Sizes

\* The decrement of a count that is not 0 does not wrap.
LEMMA Decrement ==
  ASSUME NEW c \in 1 .. Width - 1
  PROVE  (c + Width - 1) % Width = c - 1
<1>1. Width \in Nat \ {0} /\ c - 1 \in 0 .. Width - 1
  BY WidthIs
<1>2. ((Width * 1) + (c - 1)) % Width = c - 1
  BY <1>1, DivModIs, Zenon
<1> QED
  BY <1>1, <1>2

\* The first aligned address from an address on.
LEMMA AlignedIs ==
  ASSUME NEW n \in Nat
  PROVE  /\ GetAlignedSize(n) \in Nat /\ GetAlignedSize(n) >= n
         /\ \E k \in Nat : GetAlignedSize(n) = NativeSize * k
<1> DEFINE m == n + NativeSize - 1
           q == m \div NativeSize
<1>1. m \in Nat /\ NativeSize \in Nat \ {0}
  BY NativeAssumption
<1>2. q \in Nat /\ m % NativeSize \in 0 .. NativeSize - 1 /\ m = (NativeSize * q) + (m % NativeSize)
  BY <1>1, DivMod, Zenon
<1>3. GetAlignedSize(n) = NativeSize * q
  BY <1>1, <1>2 DEF GetAlignedSize
<1> HIDE DEF q
<1>4. NativeSize * q \in Nat
  BY <1>1, <1>2
<1>5. NativeSize * q >= n
  BY <1>1, <1>2, <1>4
<1> QED
  BY <1>2, <1>3, <1>4, <1>5

\* Past the bytes in front there is an aligned address, or no byte.
LEMMA UnalignedIs ==
  ASSUME start \in Nat, size \in Nat
  PROVE  /\ Unaligned \in 0 .. size
         /\ Unaligned < size => start + Unaligned = GetAlignedSize(start)
BY AlignedIs DEF Unaligned

\* What is left after the whole units is what the end lies behind a unit.
LEMMA RestIs ==
  ASSUME start \in Nat, size \in Nat \ {0}, ~EndsOnUnit,
         NEW r \in Nat, r >= NativeSize, GetAlignedSize(start) + r = start + size
  PROVE  r % NativeSize # 0
<1>1. NativeSize \in Nat \ {0} /\ GetAlignedSize(start) < start + size
  BY NativeAssumption, AlignedIs
<1>2. (start + size) % NativeSize # 0
  BY <1>1 DEF EndsOnUnit
<1>3. PICK k \in Nat : GetAlignedSize(start) = NativeSize * k
  BY AlignedIs
<1> DEFINE q == r \div NativeSize
           w == r % NativeSize
<1>4. q \in Nat /\ w \in 0 .. NativeSize - 1 /\ r = (NativeSize * q) + w
  BY <1>1, DivMod, Zenon
<1> HIDE DEF q, w
<1>5. start + size = (NativeSize * (k + q)) + w
  BY <1>1, <1>3, <1>4, Products
<1>6. ((NativeSize * (k + q)) + w) % NativeSize = w
  <2>1. k + q \in Nat
    BY <1>4
  <2> QED
    BY <1>1, <1>4, <2>1, DivModIs, Zenon
<1> QED
  BY <1>2, <1>5, <1>6 DEF w

\* The bytes in front of TypedBuffer are flipped, and what is still to do is
\* what the buffer has behind it.
Loops ==
  /\ xorPc = "unaligned" =>
       count \in 1 .. Unaligned /\ at + count = start + Unaligned /\ rest = size
  /\ xorPc = "split" =>
       at = start + Unaligned /\ rest >= 1 /\ at + rest = start + size
  /\ xorPc = "small" =>
       count \in 1 .. rest /\ at + count = start + size
  /\ xorPc = "aligned" =>
       /\ count \in 1 .. rest \div NativeSize
       /\ rest >= NativeSize /\ GetAlignedSize(start) + rest = start + size
       /\ at + (NativeSize * count) + (rest % NativeSize) = start + size
  /\ xorPc = "remaining" =>
       count \in 1 .. size /\ at + count = start + size

Working == {"unaligned", "split", "small", "aligned", "remaining"}

XorInv ==
  /\ xorPc = "none" => flipped = {} /\ size = 0
  /\ ~EndsOnUnit =>
       /\ start \in Nat /\ size \in Sizes
       /\ xorPc \in {"none", "align", "returned"} \cup Working
       /\ xorPc \in {"align"} \cup Working =>
            /\ size \in Nat \ {0} /\ start + size <= Room
            /\ at \in Nat /\ rest \in 0 .. size
       /\ xorPc = "align" => flipped = {} /\ at = start /\ rest = size
       /\ xorPc \in Working => flipped = start .. at - 1 /\ Loops
       /\ xorPc = "returned" => flipped = start .. start + size - 1

\* What depends on the arguments only.
LEMMA ArgsKept ==
  ASSUME UNCHANGED xorArgs
  PROVE  /\ Unaligned' = Unaligned
         /\ GetAlignedSize(start)' = GetAlignedSize(start)
         /\ EndsOnUnit' = EndsOnUnit
BY DEF xorArgs, Unaligned, GetAlignedSize, EndsOnUnit

\* In a loop, with the quotient and the remainder of a division by the size of
\* a unit given names.
LEMMA InLoop ==
  ASSUME XorInv, XorLoops, ~EndsOnUnit,
         NEW q, q = rest \div NativeSize, NEW w, w = rest % NativeSize
  PROVE  /\ start \in Nat /\ size \in Nat \ {0} /\ size \in Sizes
         /\ start + size <= Room /\ at \in Nat /\ rest \in 0 .. size
         /\ flipped = start .. at - 1
         /\ xorPc \in {"unaligned", "small", "aligned", "remaining"}
         /\ Unaligned \in 0 .. size
         /\ NativeSize \in Nat \ {0} /\ q \in 0 .. rest /\ w \in 0 .. NativeSize - 1
         /\ rest = (NativeSize * q) + w
         /\ xorPc = "unaligned" => count \in 1 .. Unaligned /\ at + count = start + Unaligned /\ rest = size
         /\ xorPc = "small" => count \in 1 .. rest /\ at + count = start + size
         /\ xorPc = "aligned" =>
              /\ count \in 1 .. q
              /\ rest >= NativeSize /\ GetAlignedSize(start) + rest = start + size
              /\ at + (NativeSize * count) + w = start + size
         /\ xorPc = "remaining" => count \in 1 .. size /\ at + count = start + size
<1>1. /\ start \in Nat /\ size \in Nat \ {0} /\ size \in Sizes
      /\ start + size <= Room /\ at \in Nat /\ rest \in 0 .. size
      /\ flipped = start .. at - 1 /\ Loops
      /\ xorPc \in {"unaligned", "small", "aligned", "remaining"}
  BY DEF XorInv, XorLoops, Working
<1>2. Unaligned \in 0 .. size
  BY <1>1, UnalignedIs
<1>3. /\ NativeSize \in Nat \ {0} /\ q \in Nat /\ w \in 0 .. NativeSize - 1
      /\ rest = (NativeSize * q) + w
  <2>1. rest \in Nat /\ NativeSize \in Nat \ {0}
    BY <1>1, NativeAssumption
  <2> QED
    BY <2>1, DivMod, Zenon
<1>4. q \in 0 .. rest
  <2>1. NativeSize * q >= q
    BY <1>3
  <2> QED
    BY <1>3, <2>1
<1>5. /\ xorPc = "unaligned" => count \in 1 .. Unaligned /\ at + count = start + Unaligned /\ rest = size
      /\ xorPc = "small" => count \in 1 .. rest /\ at + count = start + size
      /\ xorPc = "aligned" =>
           /\ count \in 1 .. q
           /\ rest >= NativeSize /\ GetAlignedSize(start) + rest = start + size
           /\ at + (NativeSize * count) + w = start + size
      /\ xorPc = "remaining" => count \in 1 .. size /\ at + count = start + size
  BY <1>1 DEF Loops
<1> QED
  BY <1>1, <1>2, <1>3, <1>4, <1>5

\* A step of a loop does not reach past the buffer.
LEMMA InRoom ==
  ASSUME XorInv, XorLoops, ~EndsOnUnit
  PROVE  /\ Unit \in Nat \ {0} /\ at \in Nat /\ start \in 0 .. at
         /\ at + Unit <= start + size /\ start + size <= Room
<1>1. PICK q, w : q = rest \div NativeSize /\ w = rest % NativeSize
  OBVIOUS
<1>2. CASE xorPc = "aligned"
  <2>1. /\ start \in Nat /\ size \in Nat /\ start + size <= Room /\ at \in Nat
        /\ flipped = start .. at - 1
        /\ NativeSize \in Nat \ {0} /\ w \in Nat
        /\ q \in Nat /\ count \in 1 .. q /\ rest <= size
        /\ rest = (NativeSize * q) + w
        /\ at + (NativeSize * count) + w = start + size
    BY <1>1, <1>2, InLoop
  <2>2. /\ NativeSize * count >= NativeSize /\ NativeSize * count \in Nat
        /\ NativeSize * count <= NativeSize * q /\ NativeSize * q \in Nat
    BY <2>1
  <2> QED
    BY <1>2, <2>1, <2>2 DEF Unit
<1>3. CASE xorPc # "aligned"
  <2>1. /\ start \in Nat /\ size \in Nat /\ start + size <= Room /\ at \in Nat
        /\ rest \in 0 .. size /\ Unaligned \in 0 .. size
        /\ xorPc \in {"unaligned", "small", "remaining"}
        /\ xorPc = "unaligned" => count \in 1 .. Unaligned /\ at + count = start + Unaligned
        /\ xorPc = "small" => count \in 1 .. rest /\ at + count = start + size
        /\ xorPc = "remaining" => count \in 1 .. size /\ at + count = start + size
    BY <1>1, <1>3, InLoop
  <2>2. Unit = 1
    BY <1>3 DEF Unit
  <2> QED
    BY <2>1, <2>2, NativeAssumption
<1> QED
  BY <1>2, <1>3

\* One step of a loop, as long as it has steps left.
LEMMA IterateStep ==
  ASSUME XorInv, XorIterate, ~EndsOnUnit
  PROVE  XorInv'
<1> DEFINE to == at + Unit
<1>1. XorLoops /\ UNCHANGED << start, size >> /\ ~EndsOnUnit'
  BY ArgsKept DEF XorIterate, xorArgs
<1>2. PICK q, w : q = rest \div NativeSize /\ w = rest % NativeSize
  OBVIOUS
<1>3. /\ Unit \in Nat \ {0} /\ at \in Nat /\ start \in 0 .. at
      /\ to \in Nat /\ to > at /\ to <= start + size
  BY <1>1, InRoom
<1>4. /\ flipped' = (flipped \ (at .. to - 1)) \cup ((at .. to - 1) \ flipped)
      /\ at' = to
  <2>1. /\ flipped' = (flipped \ (at .. at + Unit - 1)) \cup ((at .. at + Unit - 1) \ flipped)
        /\ at' = at + Unit
    BY Zenon DEF XorIterate, Stride
  <2>2. at + Unit - 1 = to - 1
    BY <1>3
  <2> QED
    BY <2>1, <2>2, Zenon
<1>5. IF (count + Width - 1) % Width = 0
      THEN XorProceed ELSE count' = (count + Width - 1) % Width /\ UNCHANGED << xorPc, rest >>
  BY Zenon DEF XorIterate, Width
<1>6. count \in 1 .. Width - 1
  <2>1. /\ size \in Nat /\ size <= Width - 1 /\ rest \in 0 .. size /\ Unaligned \in 0 .. size
        /\ q \in 0 .. rest
        /\ xorPc \in {"unaligned", "small", "aligned", "remaining"}
    BY <1>1, <1>2, InLoop, WidthIs
  <2>2. /\ xorPc = "unaligned" => count \in 1 .. Unaligned
        /\ xorPc = "small" => count \in 1 .. rest
        /\ xorPc = "aligned" => count \in 1 .. q
        /\ xorPc = "remaining" => count \in 1 .. size
    BY <1>1, <1>2, InLoop
  <2> QED
    BY <2>1, <2>2, WidthIs
<1>7. (count + Width - 1) % Width = count - 1
  BY <1>6, Decrement
<1>8. IF count = 1 THEN XorProceed ELSE count' = count - 1 /\ UNCHANGED << xorPc, rest >>
  BY <1>5, <1>6, <1>7
<1>9. flipped' = start .. to - 1
  <2>1. flipped = start .. at - 1
    BY <1>1, InLoop
  <2>2. at .. to - 1 = (at .. to - 1) \ flipped /\ flipped = flipped \ (at .. to - 1)
    BY <1>3, <2>1
  <2>3. flipped' = (start .. at - 1) \cup (at .. to - 1)
    BY <1>4, <2>1, <2>2
  <2> QED
    BY <1>3, <2>3
<1>10. UNCHANGED << Unaligned, GetAlignedSize(start) >>
  BY ArgsKept DEF XorIterate
<1>11. /\ size \in Nat \ {0} /\ size \in Sizes /\ start + size <= Room
       /\ rest \in 0 .. size /\ Unaligned \in 0 .. size
       /\ xorPc \in {"unaligned", "small", "aligned", "remaining"}
  BY <1>1, <1>2, InLoop
<1> HIDE DEF to
<1>12. CASE count # 1
  <2>1. count' = count - 1 /\ UNCHANGED << xorPc, rest >> /\ count \in Nat
    BY <1>6, <1>8, <1>12
  <2>2. CASE xorPc = "aligned"
    <3>1. /\ NativeSize \in Nat \ {0} /\ q \in Nat /\ w \in Nat /\ count \in 1 .. q
          /\ rest >= NativeSize /\ GetAlignedSize(start) + rest = start + size
          /\ at + (NativeSize * count) + w = start + size
      BY <1>1, <1>2, <2>2, InLoop
    <3>2. to = at + NativeSize /\ NativeSize * (count - 1) = (NativeSize * count) - NativeSize
      BY <2>2, <3>1 DEF to, Unit
    <3>3. NativeSize * count \in Nat
      BY <3>1
    <3>4. to + (NativeSize * (count - 1)) + w = start + size
      BY <1>3, <3>1, <3>2, <3>3
    <3>5. count - 1 \in 1 .. q
      BY <1>12, <3>1
    <3>6. Loops'
      BY <1>1, <1>2, <1>4, <1>10, <2>1, <2>2, <3>1, <3>4, <3>5 DEF Loops
    <3> QED
      BY <1>1, <1>3, <1>4, <1>9, <1>11, <2>1, <3>6 DEF XorInv, Working
  <2>3. CASE xorPc # "aligned"
    <3>1. to = at + 1
      BY <2>3 DEF to, Unit
    <3>2. /\ xorPc = "unaligned" => count \in 1 .. Unaligned /\ at + count = start + Unaligned /\ rest = size
          /\ xorPc = "small" => count \in 1 .. rest /\ at + count = start + size
          /\ xorPc = "remaining" => count \in 1 .. size /\ at + count = start + size
      BY <1>1, <1>2, InLoop
    <3>3. Loops'
      BY <1>1, <1>3, <1>4, <1>10, <1>11, <1>12, <2>1, <2>3, <3>1, <3>2 DEF Loops
    <3> QED
      BY <1>1, <1>3, <1>4, <1>9, <1>11, <2>1, <3>3 DEF XorInv, Working
  <2> QED
    BY <2>2, <2>3
<1>13. CASE count = 1
  <2>1. XorProceed
    BY <1>8, <1>13
  <2>2. CASE xorPc = "unaligned"
    <3>1. to = start + Unaligned /\ rest = size
      BY <1>1, <1>2, <1>13, <2>2, InLoop DEF to, Unit
    <3>2. rest' = size - Unaligned /\ IF rest' = 0 THEN xorPc' = "returned" ELSE xorPc' = "split"
      BY <2>1, <2>2, <3>1 DEF XorProceed, XorReturn, XorEnter
    <3>3. CASE rest' = 0
      <4>1. xorPc' = "returned" /\ flipped' = start .. start + size - 1
        BY <1>3, <1>9, <1>11, <3>1, <3>2, <3>3
      <4> QED
        BY <1>1, <1>3, <1>11, <4>1 DEF XorInv, Working
    <3>4. CASE rest' # 0
      <4>1. xorPc' = "split" /\ at' = start + Unaligned /\ rest' \in 1 .. size
            /\ at' + rest' = start + size
        BY <1>3, <1>4, <1>11, <3>1, <3>2, <3>4
      <4>2. Loops'
        BY <1>1, <1>10, <4>1 DEF Loops
      <4> QED
        BY <1>1, <1>3, <1>4, <1>9, <1>11, <4>1, <4>2 DEF XorInv, Working
    <3> QED
      BY <3>3, <3>4
  <2>3. CASE xorPc = "aligned"
    <3>1. xorPc' = "remaining" /\ count' = w /\ UNCHANGED rest
      BY <1>2, <2>1, <2>3 DEF XorProceed, XorEnter
    <3>2. /\ NativeSize \in Nat \ {0} /\ w \in Nat
          /\ rest >= NativeSize /\ GetAlignedSize(start) + rest = start + size
          /\ at + (NativeSize * count) + w = start + size
      BY <1>1, <1>2, <2>3, InLoop
    <3>3. NativeSize * count = NativeSize
      BY <1>13, <3>2
    <3>4. to + w = start + size
      BY <1>3, <2>3, <3>2, <3>3 DEF to, Unit
    <3>5. w # 0
      BY <1>2, <1>3, <1>11, <3>2, RestIs
    <3>6. w \in 1 .. size
      BY <1>3, <1>11, <3>2, <3>4, <3>5
    <3>7. Loops'
      BY <1>1, <1>4, <3>1, <3>4, <3>6 DEF Loops
    <3> QED
      BY <1>1, <1>3, <1>4, <1>9, <1>11, <3>1, <3>7 DEF XorInv, Working
  <2>4. CASE xorPc \in {"small", "remaining"}
    <3>1. xorPc' = "returned"
      BY <2>1, <2>4 DEF XorProceed, XorReturn, XorEnter
    <3>2. to = start + size
      BY <1>1, <1>2, <1>13, <2>4, InLoop DEF to, Unit
    <3> QED
      BY <1>1, <1>3, <1>9, <1>11, <3>1, <3>2 DEF XorInv, Working
  <2> QED
    BY <1>11, <2>2, <2>3, <2>4
<1> QED
  BY <1>12, <1>13

\* A part of the call begins, or the call is over.
LEMMA XorStep == XorInv /\ (XorNext \/ UNCHANGED xorVars) => XorInv'
<1> SUFFICES ASSUME XorInv, XorNext \/ UNCHANGED xorVars PROVE XorInv'
  OBVIOUS
<1> USE NativeAssumption
<1>1. ASSUME NEW b \in Addresses, NEW n \in Sizes, NEW byte \in {0, 1}, XorNothing(b, n, byte)
      PROVE  XorInv'
  <2>1. /\ flipped' = {} /\ start' \in Nat /\ size' = 0 /\ xorPc' = "returned"
    BY <1>1 DEF XorNothing, XorReturn, XorEnter, Addresses, XorInv
  <2>2. 0 \in Sizes
    BY WidthIs
  <2>3. \A m \in Nat : m .. m + 0 - 1 = {}
    OBVIOUS
  <2>4. start' .. start' + size' - 1 = {}
    BY <2>1, <2>3, Zenon
  <2> QED
    BY <2>1, <2>2, <2>4 DEF XorInv, Working
<1>2. ASSUME NEW b \in Addresses, NEW n \in Sizes, XorCall(b, n)
      PROVE  XorInv'
  <2>1. /\ flipped' = {} /\ start' = b /\ size' = n /\ at' = b /\ rest' = n
        /\ xorPc' = "align" /\ b + n <= Room /\ n # 0
    BY <1>2 DEF XorCall, XorEnter, XorInv
  <2>2. b \in Nat /\ n \in Nat
    BY WidthIs DEF Addresses
  <2> QED
    BY <2>1, <2>2 DEF XorInv, Working
<1>3. CASE UNCHANGED xorVars
  BY <1>3, ArgsKept DEF xorVars, xorArgs, XorInv, Loops, Working, EndsOnUnit, Unaligned
<1>4. CASE EndsOnUnit /\ UNCHANGED xorArgs /\ xorPc' # "none"
  BY <1>4, ArgsKept DEF XorInv
<1>5. CASE XorAlign
  <2>1. /\ xorPc = "align" /\ UNCHANGED << flipped, xorArgs, start, size, at, rest >>
        /\ IF Unaligned = 0 THEN xorPc' = "split" ELSE xorPc' = "unaligned" /\ count' = Unaligned
    BY <1>5 DEF XorAlign, XorEnter, xorArgs
  <2>2. CASE EndsOnUnit
    BY <2>1, <2>2, <1>4
  <2>3. CASE ~EndsOnUnit
    <3>1. /\ start \in Nat /\ size \in Nat \ {0} /\ size \in Sizes
          /\ start + size <= Room /\ at = start /\ rest = size /\ flipped = {}
      BY <2>1, <2>3 DEF XorInv
    <3>2. Unaligned \in 0 .. size /\ UNCHANGED << Unaligned, EndsOnUnit >>
      BY <2>1, <3>1, UnalignedIs, ArgsKept
    <3>3. Loops' /\ xorPc' \in Working
      BY <2>1, <3>1, <3>2 DEF Loops, Working
    <3>4. flipped' = start' .. at' - 1
      BY <2>1, <3>1
    <3> QED
      BY <2>1, <2>3, <3>1, <3>2, <3>3, <3>4 DEF XorInv, Working
  <2> QED
    BY <2>2, <2>3
<1>6. CASE XorSplit
  <2>1. /\ xorPc = "split" /\ UNCHANGED << flipped, xorArgs, start, size, at, rest >>
        /\ IF rest < NativeSize THEN xorPc' = "small" /\ count' = rest
                                ELSE xorPc' = "aligned" /\ count' = rest \div NativeSize
    BY <1>6 DEF XorSplit, XorEnter, xorArgs
  <2>2. CASE EndsOnUnit
    BY <2>1, <2>2, <1>4
  <2>3. CASE ~EndsOnUnit
    <3> DEFINE q == rest \div NativeSize
               w == rest % NativeSize
    <3>1. /\ start \in Nat /\ size \in Nat \ {0} /\ size \in Sizes
          /\ start + size <= Room /\ at \in Nat /\ rest \in 0 .. size /\ flipped = start .. at - 1
          /\ at = start + Unaligned /\ rest >= 1 /\ at + rest = start + size
      BY <2>1, <2>3 DEF XorInv, Loops, Working
    <3>2. /\ Unaligned \in 0 .. size /\ UNCHANGED << Unaligned, EndsOnUnit, GetAlignedSize(start) >>
          /\ Unaligned < size => start + Unaligned = GetAlignedSize(start)
      BY <2>1, <3>1, UnalignedIs, ArgsKept
    <3>3. at = GetAlignedSize(start)
      BY <3>1, <3>2
    <3>4. rest \in Nat /\ NativeSize \in Nat \ {0}
      BY <3>1
    <3>5. q \in Nat /\ w \in 0 .. NativeSize - 1 /\ rest = (NativeSize * q) + w
      BY <3>4, DivMod, Zenon
    <3>6. rest' % NativeSize = w /\ rest' \div NativeSize = q
      BY <2>1
    <3>7. xorPc' = "aligned" => count' = q
      BY <2>1, <3>1
    <3>8. xorPc' \in {"small", "aligned"} /\ (xorPc' = "aligned" <=> ~(rest < NativeSize))
      BY <2>1
    <3> HIDE DEF q, w
    <3>9. CASE rest < NativeSize
      <4>1. Loops'
        BY <2>1, <3>1, <3>9 DEF Loops
      <4> QED
        BY <2>1, <3>1, <3>8, <4>1 DEF XorInv, Working
    <3>10. CASE ~(rest < NativeSize)
      <4>1. q >= 1
        BY <3>4, <3>5, <3>10
      <4>2. NativeSize * q \in Nat
        BY <3>4, <3>5
      <4>3. at + (NativeSize * q) + w = start + size
        BY <3>1, <3>5, <4>2
      <4>4. Loops'
        BY <2>1, <3>1, <3>2, <3>3, <3>4, <3>5, <3>6, <3>7, <3>8, <3>10, <4>1, <4>3 DEF Loops
      <4> QED
        BY <2>1, <3>1, <3>8, <4>4 DEF XorInv, Working
    <3> QED
      BY <3>9, <3>10
  <2> QED
    BY <2>2, <2>3
<1>7. CASE XorIterate
  <2>1. UNCHANGED xorArgs /\ xorPc' # "none"
    BY <1>7 DEF XorIterate, XorLoops, XorProceed, XorReturn, XorEnter
  <2> QED
    BY <1>4, <1>7, <2>1, IterateStep
<1>8. CASE XorFault
  <2>1. xorPc' = "crashed" /\ UNCHANGED << xorArgs, start, size >> /\ at + Unit > Room
        /\ xorPc \in {"unaligned", "small", "aligned", "remaining"}
    BY <1>8 DEF XorFault, XorLoops, XorEnter, xorArgs
  <2>2. CASE EndsOnUnit
    BY <1>4, <2>1, <2>2
  <2>3. CASE ~EndsOnUnit
    <3>1. /\ Unit \in Nat \ {0} /\ at \in Nat /\ start \in 0 .. at
          /\ at + Unit <= start + size /\ start + size <= Room
      BY <2>3, <1>8, InRoom DEF XorFault
    <3>2. size \in Nat
      BY <2>1, <2>3 DEF XorInv, Working
    <3> QED
      BY <2>1, <3>1, <3>2
  <2> QED
    BY <2>2, <2>3
<1> QED
  BY <1>1, <1>2, <1>3, <1>5, <1>6, <1>7, <1>8 DEF XorNext

\* Unless nothing remains behind the whole units, every byte of the buffer is
\* flipped once, and no other: for every size of a unit and of a count, and
\* wherever the buffer lies.
THEOREM BufferIsFlipped == HccSpec => []FlipsBuffer
<1>1. HccInit => XorInv
  <2>1. 0 \in Sizes
    BY WidthIs
  <2> QED
    BY <2>1 DEF HccInit, XorInit, XorInv, Working
<1>2. XorInv /\ [HccNext]_hccVars => XorInv'
  BY StepsApart, XorStep
<1>3. XorInv => FlipsBuffer
  BY DEF XorInv, FlipsBuffer, Working
<1> QED
  BY <1>1, <1>2, <1>3, PTL DEF HccSpec

(***************************************************************************)
(* HccRpcPostRequest.                                                      *)
(***************************************************************************)

Links == {"prefix and secret", "date", "access token", "suffix", "string to sign"}

First == << "prefix and secret" >>

\* The chain of HMACs has as many links as steps have been taken, or none.
ChainInv ==
  /\ link \in 1 .. 5
  /\ postPc \in {"none", "sign"} => link \in 1 .. 4
  /\ links # NoKey =>
       /\ links \in Seq(Links) /\ Len(links) = link
       /\ links[1] = First[1]
       /\ \A i \in 1 .. link - 1 : links[i + 1] = Chain[i]

LEMMA ChainIs == Chain \in Seq(Links) /\ Len(Chain) = 4
BY DEF Chain, Links

LEMMA FirstIs == First \in Seq(Links) /\ Len(First) = 1
BY DEF First, Links

LEMMA ChainStep == ChainInv /\ (PostNext \/ UNCHANGED postVars) => ChainInv'
<1> SUFFICES ASSUME ChainInv, PostNext \/ UNCHANGED postVars PROVE ChainInv'
  OBVIOUS
<1>1. CASE Sign
  <2>1. link \in 1 .. 4 /\ link' = link + 1 /\ postPc' = IF link = 4 THEN "send" ELSE "sign"
    BY <1>1, ChainIs DEF Sign, ChainInv
  <2>2. CASE links' = NoKey
    BY <2>1, <2>2 DEF ChainInv
  <2>3. CASE links # << >> /\ links' = Append(links, Chain[link])
    <3>1. /\ links \in Seq(Links) /\ Len(links) = link
          /\ links[1] = First[1]
          /\ \A i \in 1 .. link - 1 : links[i + 1] = Chain[i]
      BY <2>3 DEF ChainInv, NoKey
    <3>2. Chain[link] \in Links
      BY <2>1, ChainIs, ElementOfSeq
    <3>3. /\ links' \in Seq(Links) /\ Len(links') = link + 1
          /\ \A i \in 1 .. link : links'[i] = links[i]
          /\ links'[link + 1] = Chain[link]
      BY <2>3, <3>1, <3>2, AppendProperties
    <3>4. \A i \in 1 .. link : links'[i + 1] = Chain[i]
      BY <2>1, <3>1, <3>3
    <3> QED
      BY <2>1, <3>1, <3>3, <3>4 DEF ChainInv
  <2> QED
    BY <1>1, <2>2, <2>3 DEF Sign
<1>2. CASE UNCHANGED << links, link >> /\ (postPc' = postPc \/ postPc' \notin {"none", "sign"} \/ postPc = "none")
  BY <1>2 DEF ChainInv
<1> QED
  BY <1>1, <1>2 DEF PostNext, PostBegin, PostReturn, PostFails, PostSend, PieceArrives,
     NoMemoryForPiece, BodyEnds, NoCopy, Copy, CopyCrashes, postVars

\* What has arrived is a beginning of the answer; only a copy of the whole of
\* an answer that says so makes a success.
AnswerInv ==
  /\ body \in Seq(Nat) /\ \A i \in 1 .. Len(body) : body[i] = i
  /\ postPc \in {"receive", "copy"} => answer.code \in HttpCodes
  /\ postPc = "copy" => Len(body) = answer.pieces
  /\ postPc # "returned" => status = None
  /\ SuccessIsWhole

\* No status code but one is a success.
LEMMA OnlyOK ==
  ASSUME NEW c \in HttpCodes, StatusOfCode[c] = "OK"
  PROVE  c = 200
BY DEF StatusOfCode

LEMMA AnswerStep == AnswerInv /\ (PostNext \/ UNCHANGED postVars) => AnswerInv'
<1> SUFFICES ASSUME AnswerInv, PostNext \/ UNCHANGED postVars PROVE AnswerInv'
  OBVIOUS
<1>1. CASE PostBegin
  BY <1>1 DEF PostBegin, PostReturn, AnswerInv, SuccessIsWhole, None
<1>2. CASE Sign
  BY <1>2 DEF Sign, AnswerInv, SuccessIsWhole, None
<1>3. CASE PostFails
  BY <1>3 DEF PostFails, PostReturn, AnswerInv, SuccessIsWhole
<1>4. CASE PostSend
  BY <1>4 DEF PostSend, AnswerInv, SuccessIsWhole, None
<1>5. CASE PieceArrives
  BY <1>5 DEF PieceArrives, AnswerInv, SuccessIsWhole, None
<1>6. CASE NoMemoryForPiece
  BY <1>6 DEF NoMemoryForPiece, PostReturn, AnswerInv, SuccessIsWhole
<1>7. CASE BodyEnds
  BY <1>7 DEF BodyEnds, AnswerInv, SuccessIsWhole, None
<1>8. CASE NoCopy
  BY <1>8, OnlyOK DEF NoCopy, PostReturn, AnswerInv, SuccessIsWhole
<1>9. CASE Copy
  <2>1. /\ response'.text = body /\ UNCHANGED << wanted, answer, body >>
        /\ status' = StatusOfCode[answer.code] /\ postPc' = "returned" /\ postPc = "copy"
    BY <1>9 DEF Copy, PostReturn
  <2>2. body = [i \in 1 .. answer.pieces |-> i]
    BY <2>1 DEF AnswerInv
  <2>3. status' = "OK" => answer.code = 200
    BY <2>1, OnlyOK DEF AnswerInv
  <2> QED
    BY <2>1, <2>2, <2>3 DEF AnswerInv, SuccessIsWhole
<1>10. CASE CopyCrashes
  BY <1>10 DEF CopyCrashes, AnswerInv, SuccessIsWhole, None
<1>11. CASE UNCHANGED postVars
  BY <1>11 DEF postVars, AnswerInv, SuccessIsWhole
<1> QED
  BY <1>1, <1>2, <1>3, <1>4, <1>5, <1>6, <1>7, <1>8, <1>9, <1>10, <1>11 DEF PostNext

\* Whatever link of the chain fails, a signature is over everything or there
\* is none.
THEOREM SignaturesAreFull == HccSpec => []SignedInFull
<1>1. HccInit => ChainInv
  <2>1. HccInit => links = First /\ link = 1
    BY DEF HccInit, PostInit, First
  <2> QED
    BY <2>1, FirstIs DEF ChainInv
<1>2. ChainInv /\ [HccNext]_hccVars => ChainInv'
  BY StepsApart, ChainStep
<1>3. ChainInv => SignedInFull
  <2> SUFFICES ASSUME ChainInv, link > 4, links # NoKey PROVE links = First \o Chain
    BY ChainIs DEF SignedInFull, First, NoKey
  <2>1. /\ links \in Seq(Links) /\ Len(links) = 5
        /\ links[1] = First[1] /\ \A i \in 1 .. 4 : links[i + 1] = Chain[i]
    BY DEF ChainInv
  <2>2. /\ First \o Chain \in Seq(Links) /\ Len(First \o Chain) = 5
        /\ \A i \in 1 .. 5 : (First \o Chain)[i] = IF i <= 1 THEN First[i] ELSE Chain[i - 1]
    <3>1. /\ First \o Chain \in Seq(Links) /\ Len(First \o Chain) = Len(First) + Len(Chain)
          /\ \A i \in 1 .. Len(First) + Len(Chain) :
               (First \o Chain)[i] = IF i <= Len(First) THEN First[i] ELSE Chain[i - Len(First)]
      BY FirstIs, ChainIs, ConcatProperties, Zenon
    <3> QED
      BY <3>1, FirstIs, ChainIs
  <2>3. \A i \in 1 .. 5 : links[i] = (First \o Chain)[i]
    BY <2>1, <2>2
  <2> QED
    BY <2>1, <2>2, <2>3, SeqEqual
<1> QED
  BY <1>1, <1>2, <1>3, PTL DEF HccSpec

\* However many pieces a body comes in, and wherever a call breaks off: who is
\* told of success has an answer that says so, and all of it.
THEOREM SuccessesAreWhole == HccSpec => []SuccessIsWhole
<1>1. HccInit => AnswerInv
  <2>1. HccInit => body = << >> /\ postPc = "none" /\ status = None
    BY DEF HccInit, PostInit
  <2>2. << >> \in Seq(Nat) /\ Len(<< >>) = 0
    BY EmptySeq
  <2> QED
    BY <2>1, <2>2 DEF AnswerInv, SuccessIsWhole, None
<1>2. AnswerInv /\ [HccNext]_hccVars => AnswerInv'
  BY StepsApart, AnswerStep
<1>3. AnswerInv => SuccessIsWhole
  BY DEF AnswerInv
<1> QED
  BY <1>1, <1>2, <1>3, PTL DEF HccSpec

(***************************************************************************)
(* HccCidGetSha256 and DecodeBase32Rfc4648.                                *)
(***************************************************************************)

\* What a buffer modulo 2 ^ BufferBits forgets is above its lowest twelve bits.
LEMMA Wraps ==
  ASSUME NEW x \in Nat
  PROVE  /\ x % 2 ^ BufferBits \in Nat
         /\ (x % 2 ^ BufferBits) % 4096 = x % 4096
<1> DEFINE m == 2 ^ BufferBits
           y == x % m
           d == x \div m
           f == m \div 4096
<1>1. m \in Nat \ {0} /\ m % 4096 = 0
  BY BufferAssumption
<1> HIDE DEF m
<1>2. y \in Nat /\ d \in Nat /\ x = (m * d) + y
  BY <1>1
<1>3. f \in Nat /\ m = 4096 * f
  BY <1>1
<1> HIDE DEF y, d, f
<1>4. m * d = 4096 * (f * d) /\ f * d \in Nat
  BY <1>2, <1>3
<1>5. PICK z \in Nat : x = (4096 * z) + y
  BY <1>2, <1>4
<1>6. x % 4096 = y % 4096
  BY <1>2, <1>5
<1> QED
  BY <1>2, <1>6 DEF y, m

Bit(x, e) == (x \div 2 ^ e) % 2

\* The twelve lowest bits are those of what is below 4096.
LEMMA LowBit ==
  ASSUME NEW x \in Nat, NEW y \in Nat, x % 4096 = y % 4096, NEW e \in 0 .. 11
  PROVE  Bit(x, e) = Bit(y, e)
<1>0. CASE e = 0
  BY <1>0 DEF Bit
<1>1. CASE e = 1
  BY <1>1 DEF Bit
<1>2. CASE e = 2
  BY <1>2 DEF Bit
<1>3. CASE e = 3
  BY <1>3 DEF Bit
<1>4. CASE e = 4
  BY <1>4 DEF Bit
<1>5. CASE e = 5
  BY <1>5 DEF Bit
<1>6. CASE e = 6
  BY <1>6 DEF Bit
<1>7. CASE e = 7
  BY <1>7 DEF Bit
<1>8. CASE e = 8
  BY <1>8 DEF Bit
<1>9. CASE e = 9
  BY <1>9 DEF Bit
<1>10. CASE e = 10
  BY <1>10 DEF Bit
<1>11. CASE e = 11
  BY <1>11 DEF Bit
<1> QED
  BY <1>0, <1>1, <1>2, <1>3, <1>4, <1>5, <1>6, <1>7, <1>8, <1>9, <1>10, <1>11

\* A character moves what is in the buffer up by five bits.
LEMMA Shifts ==
  ASSUME NEW x \in Nat, NEW v \in 0 .. 31, NEW e \in 0 .. 11
  PROVE  /\ e < 5 => Bit((x * 32) + v, e) = Bit(v, e)
         /\ e >= 5 => Bit((x * 32) + v, e) = Bit(x, e - 5)
<1> DEFINE y == (x * 32) + v
<1>1. y \in Nat /\ v \in Nat
  OBVIOUS
<1>2. y \div 32 = x
  OBVIOUS
<1>3. /\ y % 2 = v % 2 /\ (y \div 2) % 2 = (v \div 2) % 2 /\ (y \div 4) % 2 = (v \div 4) % 2
      /\ (y \div 8) % 2 = (v \div 8) % 2 /\ (y \div 16) % 2 = (v \div 16) % 2
  OBVIOUS
<1>4. /\ y \div 64 = x \div 2 /\ y \div 128 = x \div 4 /\ y \div 256 = x \div 8
      /\ y \div 512 = x \div 16 /\ y \div 1024 = x \div 32 /\ y \div 2048 = x \div 64
  OBVIOUS
<1>5. y \div 1 = y /\ v \div 1 = v /\ x \div 1 = x
  OBVIOUS
<1> HIDE DEF y
<1>6. /\ Bit(y, 0) = Bit(v, 0) /\ Bit(y, 1) = Bit(v, 1) /\ Bit(y, 2) = Bit(v, 2)
      /\ Bit(y, 3) = Bit(v, 3) /\ Bit(y, 4) = Bit(v, 4)
  BY <1>1, <1>3, <1>5 DEF Bit
<1>7. /\ Bit(y, 5) = Bit(x, 0) /\ Bit(y, 6) = Bit(x, 1) /\ Bit(y, 7) = Bit(x, 2)
      /\ Bit(y, 8) = Bit(x, 3) /\ Bit(y, 9) = Bit(x, 4) /\ Bit(y, 10) = Bit(x, 5)
      /\ Bit(y, 11) = Bit(x, 6)
  BY <1>1, <1>2, <1>4, <1>5 DEF Bit
<1>8. ASSUME e < 5 PROVE Bit(y, e) = Bit(v, e)
  <2>1. e = 0 \/ e = 1 \/ e = 2 \/ e = 3 \/ e = 4
    BY <1>8
  <2> QED
    BY <1>6, <2>1
<1>9. ASSUME e >= 5 PROVE Bit(y, e) = Bit(x, e - 5)
  <2>1. \/ e = 5 /\ e - 5 = 0
        \/ e = 6 /\ e - 5 = 1
        \/ e = 7 /\ e - 5 = 2
        \/ e = 8 /\ e - 5 = 3
        \/ e = 9 /\ e - 5 = 4
        \/ e = 10 /\ e - 5 = 5
        \/ e = 11 /\ e - 5 = 6
    BY <1>9
  <2> QED
    BY <1>7, <2>1, Zenon
<1> QED
  BY <1>8, <1>9 DEF y

\* The bits of a byte are those of what it is the rest of.
LEMMA ByteBits ==
  ASSUME NEW x \in Nat
  PROVE  x % 256 \in 0 .. 255 /\ \A e \in 0 .. 7 : Bit(x % 256, e) = Bit(x, e)
<1> DEFINE y == x % 256
<1>1. y \in 0 .. 255
  OBVIOUS
<1>2. /\ (y \div 1) % 2 = (x \div 1) % 2 /\ (y \div 2) % 2 = (x \div 2) % 2 /\ (y \div 4) % 2 = (x \div 4) % 2
      /\ (y \div 8) % 2 = (x \div 8) % 2 /\ (y \div 16) % 2 = (x \div 16) % 2 /\ (y \div 32) % 2 = (x \div 32) % 2
      /\ (y \div 64) % 2 = (x \div 64) % 2 /\ (y \div 128) % 2 = (x \div 128) % 2
  OBVIOUS
<1> HIDE DEF y
<1>3. /\ Bit(y, 0) = Bit(x, 0) /\ Bit(y, 1) = Bit(x, 1) /\ Bit(y, 2) = Bit(x, 2)
      /\ Bit(y, 3) = Bit(x, 3) /\ Bit(y, 4) = Bit(x, 4) /\ Bit(y, 5) = Bit(x, 5)
      /\ Bit(y, 6) = Bit(x, 6) /\ Bit(y, 7) = Bit(x, 7)
  BY <1>1, <1>2 DEF Bit
<1>4. \A e \in 0 .. 7 : Bit(y, e) = Bit(x, e)
  BY <1>3
<1> QED
  BY <1>1, <1>4 DEF y

\* Division by a power of two moves the bits down.
LEMMA Drops ==
  ASSUME NEW x \in Nat, NEW l \in 0 .. 4
  PROVE  x \div 2 ^ l \in Nat /\ \A e \in 0 .. 7 : Bit(x \div 2 ^ l, e) = Bit(x, l + e)
<1> DEFINE z == x \div 2 ^ l
<1>5. /\ l = 0 => z = x \div 1
      /\ l = 1 => z = x \div 2
      /\ l = 2 => z = x \div 4
      /\ l = 3 => z = x \div 8
      /\ l = 4 => z = x \div 16
  <2>1. l = 0 => 2 ^ l = 1
    OBVIOUS
  <2>2. l = 1 => 2 ^ l = 2
    OBVIOUS
  <2>3. l = 2 => 2 ^ l = 4
    OBVIOUS
  <2>4. l = 3 => 2 ^ l = 8
    OBVIOUS
  <2>5. l = 4 => 2 ^ l = 16
    OBVIOUS
  <2> QED
    BY <2>1, <2>2, <2>3, <2>4, <2>5, Zenon
<1>6. z \in Nat
  BY <1>5
<1> HIDE DEF z
<1>0. ASSUME l = 0 PROVE \A e \in 0 .. 7 : Bit(z, e) = Bit(x, l + e)
  <2>1. z = x \div 1 /\ z \in Nat
    BY <1>0, <1>5, <1>6
  <2>2. /\ z \div 1 = x \div 1 /\ z \div 2 = x \div 2 /\ z \div 4 = x \div 4 /\ z \div 8 = x \div 8
        /\ z \div 16 = x \div 16 /\ z \div 32 = x \div 32 /\ z \div 64 = x \div 64 /\ z \div 128 = x \div 128
    BY <2>1
  <2>3. /\ Bit(z, 0) = Bit(x, 0) /\ Bit(z, 1) = Bit(x, 1) /\ Bit(z, 2) = Bit(x, 2) /\ Bit(z, 3) = Bit(x, 3)
        /\ Bit(z, 4) = Bit(x, 4) /\ Bit(z, 5) = Bit(x, 5) /\ Bit(z, 6) = Bit(x, 6) /\ Bit(z, 7) = Bit(x, 7)
    BY <2>2 DEF Bit
  <2> QED
    BY <1>0, <2>3
<1>1. ASSUME l = 1 PROVE \A e \in 0 .. 7 : Bit(z, e) = Bit(x, l + e)
  <2>1. z = x \div 2 /\ z \in Nat
    BY <1>1, <1>5, <1>6
  <2>2. /\ z \div 1 = x \div 2 /\ z \div 2 = x \div 4 /\ z \div 4 = x \div 8 /\ z \div 8 = x \div 16
        /\ z \div 16 = x \div 32 /\ z \div 32 = x \div 64 /\ z \div 64 = x \div 128 /\ z \div 128 = x \div 256
    BY <2>1
  <2>3. /\ Bit(z, 0) = Bit(x, 1) /\ Bit(z, 1) = Bit(x, 2) /\ Bit(z, 2) = Bit(x, 3) /\ Bit(z, 3) = Bit(x, 4)
        /\ Bit(z, 4) = Bit(x, 5) /\ Bit(z, 5) = Bit(x, 6) /\ Bit(z, 6) = Bit(x, 7) /\ Bit(z, 7) = Bit(x, 8)
    BY <2>2 DEF Bit
  <2> QED
    BY <1>1, <2>3
<1>2. ASSUME l = 2 PROVE \A e \in 0 .. 7 : Bit(z, e) = Bit(x, l + e)
  <2>1. z = x \div 4 /\ z \in Nat
    BY <1>2, <1>5, <1>6
  <2>2. /\ z \div 1 = x \div 4 /\ z \div 2 = x \div 8 /\ z \div 4 = x \div 16 /\ z \div 8 = x \div 32
        /\ z \div 16 = x \div 64 /\ z \div 32 = x \div 128 /\ z \div 64 = x \div 256 /\ z \div 128 = x \div 512
    BY <2>1
  <2>3. /\ Bit(z, 0) = Bit(x, 2) /\ Bit(z, 1) = Bit(x, 3) /\ Bit(z, 2) = Bit(x, 4) /\ Bit(z, 3) = Bit(x, 5)
        /\ Bit(z, 4) = Bit(x, 6) /\ Bit(z, 5) = Bit(x, 7) /\ Bit(z, 6) = Bit(x, 8) /\ Bit(z, 7) = Bit(x, 9)
    BY <2>2 DEF Bit
  <2> QED
    BY <1>2, <2>3
<1>3. ASSUME l = 3 PROVE \A e \in 0 .. 7 : Bit(z, e) = Bit(x, l + e)
  <2>1. z = x \div 8 /\ z \in Nat
    BY <1>3, <1>5, <1>6
  <2>2. /\ z \div 1 = x \div 8 /\ z \div 2 = x \div 16 /\ z \div 4 = x \div 32 /\ z \div 8 = x \div 64
        /\ z \div 16 = x \div 128 /\ z \div 32 = x \div 256 /\ z \div 64 = x \div 512 /\ z \div 128 = x \div 1024
    BY <2>1
  <2>3. /\ Bit(z, 0) = Bit(x, 3) /\ Bit(z, 1) = Bit(x, 4) /\ Bit(z, 2) = Bit(x, 5) /\ Bit(z, 3) = Bit(x, 6)
        /\ Bit(z, 4) = Bit(x, 7) /\ Bit(z, 5) = Bit(x, 8) /\ Bit(z, 6) = Bit(x, 9) /\ Bit(z, 7) = Bit(x, 10)
    BY <2>2 DEF Bit
  <2> QED
    BY <1>3, <2>3
<1>4. ASSUME l = 4 PROVE \A e \in 0 .. 7 : Bit(z, e) = Bit(x, l + e)
  <2>1. z = x \div 16 /\ z \in Nat
    BY <1>4, <1>5, <1>6
  <2>2. /\ z \div 1 = x \div 16 /\ z \div 2 = x \div 32 /\ z \div 4 = x \div 64 /\ z \div 8 = x \div 128
        /\ z \div 16 = x \div 256 /\ z \div 32 = x \div 512 /\ z \div 64 = x \div 1024 /\ z \div 128 = x \div 2048
    BY <2>1
  <2>3. /\ Bit(z, 0) = Bit(x, 4) /\ Bit(z, 1) = Bit(x, 5) /\ Bit(z, 2) = Bit(x, 6) /\ Bit(z, 3) = Bit(x, 7)
        /\ Bit(z, 4) = Bit(x, 8) /\ Bit(z, 5) = Bit(x, 9) /\ Bit(z, 6) = Bit(x, 10) /\ Bit(z, 7) = Bit(x, 11)
    BY <2>2 DEF Bit
  <2> QED
    BY <1>4, <2>3
<1> QED
  BY <1>0, <1>1, <1>2, <1>3, <1>4, <1>6 DEF z

\* A byte is the sum of its bits, and so bytes with the same bits are the same.
LEMMA Binary ==
  ASSUME NEW x \in 0 .. 255
  PROVE  x = Bit(x, 0) + 2 * Bit(x, 1) + 4 * Bit(x, 2) + 8 * Bit(x, 3) + 16 * Bit(x, 4)
             + 32 * Bit(x, 5) + 64 * Bit(x, 6) + 128 * Bit(x, 7)
<1>1. x = 2 * (x \div 2) + (x % 2) /\ x \div 2 = 2 * (x \div 4) + ((x \div 2) % 2)
  OBVIOUS
<1>2. /\ x \div 4 = 2 * (x \div 8) + ((x \div 4) % 2) /\ x \div 8 = 2 * (x \div 16) + ((x \div 8) % 2)
  OBVIOUS
<1>3. /\ x \div 16 = 2 * (x \div 32) + ((x \div 16) % 2) /\ x \div 32 = 2 * (x \div 64) + ((x \div 32) % 2)
  OBVIOUS
<1>4. /\ x \div 64 = 2 * (x \div 128) + ((x \div 64) % 2) /\ x \div 128 = (x \div 128) % 2
  OBVIOUS
<1>5. x \div 1 = x
  OBVIOUS
<1>6. x = (x % 2) + 2 * ((x \div 2) % 2) + 4 * ((x \div 4) % 2) + 8 * ((x \div 8) % 2)
          + 16 * ((x \div 16) % 2) + 32 * ((x \div 32) % 2) + 64 * ((x \div 64) % 2)
          + 128 * ((x \div 128) % 2)
  BY <1>1, <1>2, <1>3, <1>4
<1> QED
  BY <1>5, <1>6 DEF Bit

LEMMA SameBits ==
  ASSUME NEW x \in 0 .. 255, NEW y \in 0 .. 255,
         \A e \in 0 .. 7 : Bit(x, e) = Bit(y, e)
  PROVE  x = y
<1>1. /\ Bit(x, 0) = Bit(y, 0) /\ Bit(x, 1) = Bit(y, 1) /\ Bit(x, 2) = Bit(y, 2)
      /\ Bit(x, 3) = Bit(y, 3) /\ Bit(x, 4) = Bit(y, 4) /\ Bit(x, 5) = Bit(y, 5)
      /\ Bit(x, 6) = Bit(y, 6) /\ Bit(x, 7) = Bit(y, 7)
  OBVIOUS
<1> QED
  BY <1>1, Binary

\* Bit n of the text.
Text(n) == BitOf(Digits, 5, n)

\* Five bits of the text are those of a character behind the b.
LEMMA TextIs ==
  ASSUME NEW k \in Nat, NEW j \in 1 .. 5
  PROVE  Text((5 * k) + j) = Bit(Digits[k + 1], 5 - j)
<1>1. /\ (((5 * k) + j) - 1) \div 5 = k /\ (((5 * k) + j) - 1) % 5 = j - 1
      /\ 5 - 1 - (j - 1) = 5 - j
  OBVIOUS
<1> QED
  BY <1>1 DEF Text, BitOf, Bit

\* Encodes, byte by byte.
LEMMA EncodesIs ==
  ASSUME NEW s \in Seq(0 .. 255), NEW n \in Nat
  PROVE  Encodes(s, n) <=>
           \A i \in 1 .. Len(s), j \in 1 .. 8 : Bit(s[i], 8 - j) = Text(n + (8 * (i - 1)) + j)
<1>1. ASSUME NEW i \in 1 .. Len(s), NEW j \in 1 .. 8
      PROVE  /\ (8 * (i - 1)) + j \in 1 .. 8 * Len(s)
             /\ BitOf(s, 8, (8 * (i - 1)) + j) = Bit(s[i], 8 - j)
             /\ n + (8 * (i - 1)) + j = n + ((8 * (i - 1)) + j)
  <2>1. /\ (((8 * (i - 1)) + j) - 1) \div 8 + 1 = i /\ (((8 * (i - 1)) + j) - 1) % 8 = j - 1
        /\ 8 - 1 - (j - 1) = 8 - j
    OBVIOUS
  <2>2. BitOf(s, 8, (8 * (i - 1)) + j) = Bit(s[i], 8 - j)
    BY <2>1 DEF BitOf, Bit
  <2> QED
    BY <2>2
<1>2. ASSUME NEW m \in 1 .. 8 * Len(s)
      PROVE  \E i \in 1 .. Len(s), j \in 1 .. 8 : m = (8 * (i - 1)) + j
  <2> WITNESS ((m - 1) \div 8) + 1 \in 1 .. Len(s), ((m - 1) % 8) + 1 \in 1 .. 8
  <2> QED
    OBVIOUS
<1>3. ASSUME Encodes(s, n), NEW i \in 1 .. Len(s), NEW j \in 1 .. 8
      PROVE  Bit(s[i], 8 - j) = Text(n + (8 * (i - 1)) + j)
  BY <1>1, <1>3 DEF Encodes, Text
<1>4. ASSUME \A i \in 1 .. Len(s), j \in 1 .. 8 : Bit(s[i], 8 - j) = Text(n + (8 * (i - 1)) + j),
             NEW m \in 1 .. 8 * Len(s)
      PROVE  BitOf(s, 8, m) = Text(n + m)
  <2>1. PICK i \in 1 .. Len(s), j \in 1 .. 8 : m = (8 * (i - 1)) + j
    BY <1>2
  <2> QED
    BY <1>1, <1>4, <2>1
<1> QED
  BY <1>3, <1>4 DEF Encodes, Text

\* What is decoded has the bits of the text, and what is left of them is in
\* the lowest bits of the buffer.
Decoding ==
  /\ text \in Seq(Characters) /\ Len(text) = StringLength /\ text[1] = 1
  /\ next \in 2 .. StringLength + 1
  /\ \A i \in 1 .. next - 1 : text[i] < Pad
  /\ bits \in 0 .. 7 /\ buffer \in Nat
  /\ content \in Seq(0 .. 255)
  /\ (8 * Len(content)) + bits = 5 * (next - 2)
  /\ Encodes(content, 0)
  /\ \A j \in 1 .. bits : Bit(buffer, bits - j) = Text((8 * Len(content)) + j)

\* Of a bit of the buffer after a character.
LEMMA Taken ==
  ASSUME NEW x \in Nat, NEW v \in 0 .. 31, NEW e \in 0 .. 11
  PROVE  /\ e < 5 => Bit(((x * 32) + v) % 2 ^ BufferBits, e) = Bit(v, e)
         /\ e >= 5 => Bit(((x * 32) + v) % 2 ^ BufferBits, e) = Bit(x, e - 5)
<1> DEFINE y == (x * 32) + v
<1>1. y \in Nat
  OBVIOUS
<1>2. /\ e < 5 => Bit(y, e) = Bit(v, e)
      /\ e >= 5 => Bit(y, e) = Bit(x, e - 5)
  BY Shifts
<1> HIDE DEF y
<1>3. Bit(y % 2 ^ BufferBits, e) = Bit(y, e)
  BY <1>1, Wraps, LowBit
<1> QED
  BY <1>2, <1>3 DEF y

\* A character adds its bits to those in the buffer, and eight of them may be
\* a byte of the content.
LEMMA DecodeStep == Decoding /\ DecodeCharacter => Decoding'
<1> SUFFICES ASSUME Decoding, DecodeCharacter PROVE Decoding'
  OBVIOUS
<1> DEFINE L == Len(content)
           v == Value(text[next])
           k == next - 2
<1>1. /\ text \in Seq(Characters) /\ Len(text) = StringLength /\ text[1] = 1
      /\ next \in 2 .. StringLength + 1 /\ StringLength \in Nat
      /\ bits \in 0 .. 7 /\ buffer \in Nat
      /\ content \in Seq(0 .. 255) /\ L \in Nat /\ k \in Nat
      /\ (8 * L) + bits = 5 * k
      /\ \A j \in 1 .. bits : Bit(buffer, bits - j) = Text((8 * L) + j)
  BY CidAssumption DEF Decoding
<1>2. /\ next <= StringLength /\ text[next] < Pad
      /\ buffer' = ((buffer * 32) + v) % 2 ^ BufferBits
      /\ next' = next + 1 /\ UNCHANGED << text, Digits >>
  BY <1>1 DEF DecodeCharacter, Digits
<1>3. v \in 0 .. 31 /\ v = Digits[k + 1]
  <2>1. text[next] \in Characters
    BY <1>1, <1>2, ElementOfSeq
  <2>2. v \in 0 .. 31
    BY <2>1 DEF Value, Characters, Other
  <2>3. k + 1 \in 1 .. Len(text) - 1 /\ k + 1 + 1 = next
    BY <1>1, <1>2
  <2> QED
    BY <2>2, <2>3 DEF Digits, Value
<1> HIDE DEF v, k, L
<1>4. buffer' \in Nat
  <2>1. buffer \in Nat /\ v \in 0 .. 31
    BY <1>1, <1>3
  <2>2. (buffer * 32) + v \in Nat
    BY <2>1
  <2>3. ((buffer * 32) + v) % 2 ^ BufferBits \in Nat
    BY <2>2, Wraps
  <2> QED
    BY <1>2, <2>3
<1>5. ASSUME NEW j \in 1 .. bits + 5
      PROVE  Bit(buffer', bits + 5 - j) = Text((8 * L) + j)
  <2>1. CASE j <= bits
    <3>1. /\ bits + 5 - j \in 0 .. 11 /\ bits + 5 - j >= 5 /\ (bits + 5 - j) - 5 = bits - j
          /\ j \in 1 .. bits
      BY <1>1, <2>1
    <3>2. Bit(buffer', bits + 5 - j) = Bit(buffer, (bits + 5 - j) - 5)
      BY <1>1, <1>2, <1>3, <3>1, Taken, Zenon
    <3> QED
      BY <1>1, <3>1, <3>2
  <2>2. CASE j > bits
    <3>1. /\ bits + 5 - j \in 0 .. 11 /\ bits + 5 - j < 5
          /\ j - bits \in 1 .. 5 /\ 5 - (j - bits) = bits + 5 - j
      BY <1>1, <2>2
    <3>2. Bit(buffer', bits + 5 - j) = Bit(v, bits + 5 - j)
      BY <1>1, <1>2, <1>3, <3>1, Taken, Zenon
    <3>3. Text((5 * k) + (j - bits)) = Bit(v, 5 - (j - bits))
      BY <1>1, <1>3, <3>1, TextIs
    <3>4. (5 * k) + (j - bits) = (8 * L) + j
      BY <1>1
    <3> QED
      BY <3>1, <3>2, <3>3, <3>4
  <2> QED
    BY <1>1, <2>1, <2>2
<1>6. UNCHANGED Digits
  BY <1>2
<1>7. /\ text' = text /\ Len(text') = StringLength /\ next' \in 2 .. StringLength + 1
      /\ \A i \in 1 .. next' - 1 : text'[i] < Pad
  BY <1>1, <1>2 DEF Decoding
<1>8. ASSUME bits + 5 < 8 PROVE Decoding'
  <2>1. bits' = bits + 5 /\ content' = content
    BY <1>8 DEF DecodeCharacter
  <2>2. \A j \in 1 .. bits' : Bit(buffer', bits' - j) = Text((8 * L) + j)
    <3> TAKE j \in 1 .. bits'
    <3>1. j \in 1 .. bits + 5 /\ bits' - j = bits + 5 - j
      BY <1>1, <2>1
    <3> QED
      BY <1>5, <3>1
  <2>3. bits' \in 0 .. 7 /\ (8 * L) + bits' = 5 * (next' - 2)
    BY <1>1, <1>2, <1>8, <2>1 DEF k
  <2>4. Encodes(content, 0)'
    BY <1>6, <2>1 DEF Decoding, Encodes
  <2>5. \A j \in 1 .. bits' : Bit(buffer', bits' - j) = Text((8 * Len(content)) + j)'
    BY <1>6, <2>1, <2>2 DEF Text, L
  <2>6. (8 * Len(content')) + bits' = 5 * (next' - 2) /\ content' \in Seq(0 .. 255)
    BY <1>1, <2>1, <2>3 DEF L
  <2> QED
    BY <1>4, <1>7, <2>3, <2>4, <2>5, <2>6 DEF Decoding
<1>9. ASSUME ~(bits + 5 < 8) PROVE Decoding'
  <2> DEFINE y == (buffer' \div 2 ^ Left) % 256
  <2>1. bits' = Left /\ content' = Append(content, y) /\ Left \in 0 .. 4 /\ Left = bits - 3
    BY <1>1, <1>9 DEF DecodeCharacter, Left
  <2>2. y \in 0 .. 255 /\ \A e \in 0 .. 7 : Bit(y, e) = Bit(buffer', Left + e)
    <3> DEFINE z == buffer' \div 2 ^ Left
    <3>1. z \in Nat /\ \A e \in 0 .. 7 : Bit(z, e) = Bit(buffer', Left + e)
      BY <1>4, <2>1, Drops, Zenon
    <3> HIDE DEF z
    <3>2. z % 256 \in 0 .. 255 /\ \A e \in 0 .. 7 : Bit(z % 256, e) = Bit(z, e)
      BY <3>1, ByteBits
    <3> QED
      BY <3>1, <3>2 DEF z
  <2> HIDE DEF y
  <2>3. /\ content' \in Seq(0 .. 255) /\ Len(content') = L + 1
        /\ \A i \in 1 .. L : content'[i] = content[i]
        /\ content'[L + 1] = y
    BY <1>1, <2>1, <2>2, AppendProperties DEF L
  <2>4. ASSUME NEW j \in 1 .. 8
        PROVE  Bit(y, 8 - j) = Text((8 * L) + j)
    <3>1. /\ 8 - j \in 0 .. 7 /\ Left + (8 - j) = bits + 5 - j /\ j \in 1 .. bits + 5
      BY <1>1, <1>9, <2>1
    <3> QED
      BY <1>5, <2>2, <3>1
  <2>5. Encodes(content, 0)'
    <3>1. PICK c : c = content'
      OBVIOUS
    <3>2. ASSUME NEW i \in 1 .. Len(c), NEW j \in 1 .. 8
          PROVE  Bit(c[i], 8 - j) = Text(0 + (8 * (i - 1)) + j)
      <4>1. CASE i \in 1 .. L
        <5>1. Bit(content[i], 8 - j) = Text(0 + (8 * (i - 1)) + j)
          BY <1>1, <4>1, EncodesIs DEF Decoding, L
        <5> QED
          BY <2>3, <3>1, <4>1, <5>1
      <4>2. CASE i = L + 1
        <5>1. 0 + (8 * (i - 1)) + j = (8 * L) + j
          BY <1>1, <4>2
        <5> QED
          BY <2>3, <2>4, <3>1, <4>2, <5>1
      <4> QED
        BY <1>1, <2>3, <3>1, <4>1, <4>2
    <3>3. Encodes(c, 0)
      BY <2>3, <3>1, <3>2, EncodesIs
    <3> QED
      BY <1>6, <3>1, <3>3 DEF Encodes
  <2>6. \A j \in 1 .. bits' : Bit(buffer', bits' - j) = Text((8 * (L + 1)) + j)
    <3> TAKE j \in 1 .. bits'
    <3>1. j + 8 \in 1 .. bits + 5 /\ bits + 5 - (j + 8) = bits' - j /\ (8 * L) + (j + 8) = (8 * (L + 1)) + j
      BY <1>1, <2>1
    <3> QED
      BY <1>5, <3>1
  <2>7. bits' \in 0 .. 7 /\ (8 * Len(content')) + bits' = 5 * (next' - 2)
    BY <1>1, <1>2, <1>9, <2>1, <2>3 DEF k
  <2>8. \A j \in 1 .. bits' : Bit(buffer', bits' - j) = Text((8 * Len(content)) + j)'
    BY <1>6, <2>3, <2>6 DEF Text
  <2> QED
    BY <1>4, <1>7, <2>3, <2>5, <2>7, <2>8 DEF Decoding
<1> QED
  BY <1>8, <1>9

\* The header is four bytes, whatever the length of the hash.
LEMMA HeaderIs ==
  /\ Header \in Seq(0 .. 255) /\ Len(Header) = 4
  /\ ContentLength = HashLength + 4 /\ HashLength \in 1 .. 255
<1>1. HashLength \in 1 .. 255
  BY CidAssumption
<1>2. Header \in Seq(0 .. 255) /\ Len(Header) = 4
  BY <1>1 DEF Header
<1> QED
  BY <1>1, <1>2 DEF ContentLength

\* Bytes with the same bits are the same.
LEMMA SameBytes ==
  ASSUME NEW s \in Seq(0 .. 255), NEW t \in Seq(0 .. 255), Len(s) = Len(t),
         Encodes(s, 0), Encodes(t, 0)
  PROVE  s = t
<1>0. /\ \A i \in 1 .. Len(s), j \in 1 .. 8 : Bit(s[i], 8 - j) = Text(0 + (8 * (i - 1)) + j)
      /\ \A i \in 1 .. Len(t), j \in 1 .. 8 : Bit(t[i], 8 - j) = Text(0 + (8 * (i - 1)) + j)
  <2>1. 0 \in Nat
    OBVIOUS
  <2> QED
    BY <2>1, EncodesIs, Zenon
<1>1. ASSUME NEW i \in 1 .. Len(s)
      PROVE  s[i] = t[i]
  <2>1. s[i] \in 0 .. 255 /\ t[i] \in 0 .. 255
    BY ElementOfSeq
  <2>2. ASSUME NEW e \in 0 .. 7
        PROVE  Bit(s[i], e) = Bit(t[i], e)
    <3>1. PICK j \in 1 .. 8 : e = 8 - j
      <4> WITNESS 8 - e \in 1 .. 8
      <4> QED
        OBVIOUS
    <3>2. /\ Bit(s[i], 8 - j) = Text(0 + (8 * (i - 1)) + j)
          /\ Bit(t[i], 8 - j) = Text(0 + (8 * (i - 1)) + j)
      BY <1>0
    <3> QED
      BY <3>1, <3>2
  <2> QED
    BY <2>1, <2>2, SameBits
<1> QED
  BY <1>1, SeqEqual

\* A part of the bytes has a part of the bits.
LEMMA PartEncodes ==
  ASSUME NEW s \in Seq(0 .. 255), NEW m \in 1 .. Len(s) + 1, NEW n \in Nat, n <= Len(s), m <= n + 1,
         Encodes(s, 0)
  PROVE  /\ SubSeq(s, m, n) \in Seq(0 .. 255) /\ Len(SubSeq(s, m, n)) = n + 1 - m
         /\ Encodes(SubSeq(s, m, n), 8 * (m - 1))
<1> DEFINE p == SubSeq(s, m, n)
<1>1. /\ p \in Seq(0 .. 255) /\ Len(p) = n + 1 - m
      /\ \A i \in 1 .. n + 1 - m : p[i] = s[m - 1 + i]
  <2>1. m \in Int /\ n \in Int
    OBVIOUS
  <2>2. \A i \in m .. n : s[i] \in 0 .. 255
    <3> TAKE i \in m .. n
    <3>1. i \in 1 .. Len(s)
      OBVIOUS
    <3> QED
      BY <3>1, ElementOfSeq
  <2>3. /\ p \in Seq(0 .. 255)
        /\ Len(p) = IF m <= n THEN n - m + 1 ELSE 0
        /\ \A i \in 1 .. n - m + 1 : p[i] = s[m + i - 1]
    BY <2>1, <2>2, SubSeqProperties
  <2> HIDE DEF p
  <2>6. n - m + 1 = n + 1 - m
    OBVIOUS
  <2>7. ASSUME NEW i \in 1 .. n + 1 - m PROVE p[i] = s[m - 1 + i]
    <3>1. i \in 1 .. n - m + 1 /\ m + i - 1 = m - 1 + i
      BY <2>6
    <3> QED
      BY <2>3, <3>1
  <2> QED
    BY <2>3, <2>6, <2>7
<1> HIDE DEF p
<1>2. ASSUME NEW i \in 1 .. Len(p), NEW j \in 1 .. 8
      PROVE  Bit(p[i], 8 - j) = Text((8 * (m - 1)) + (8 * (i - 1)) + j)
  <2>1. m - 1 + i \in 1 .. Len(s) /\ p[i] = s[m - 1 + i]
    BY <1>1
  <2>2. Bit(s[m - 1 + i], 8 - j) = Text(0 + (8 * ((m - 1 + i) - 1)) + j)
    BY <2>1, EncodesIs
  <2>3. 0 + (8 * ((m - 1 + i) - 1)) + j = (8 * (m - 1)) + (8 * (i - 1)) + j
    BY <1>1
  <2> QED
    BY <2>1, <2>2, <2>3
<1>3. 8 * (m - 1) \in Nat
  OBVIOUS
<1>4. Encodes(p, 8 * (m - 1))
  BY <1>1, <1>2, <1>3, EncodesIs
<1> QED
  BY <1>1, <1>4 DEF p

\* How the loop of the decoder ends: with the text, at the padding, or at a
\* character that is not Base32, which leaves nothing.
Decoded ==
  \/ Decoding /\ (next \in DOMAIN text => text[next] = Pad)
  \/ /\ text \in Seq(Characters) /\ Len(text) = StringLength
     /\ next \in 1 .. StringLength /\ text[next] = Other /\ content = << >>

CidInv ==
  /\ cidPc = "none" => next = 2 /\ bits = 0 /\ buffer = 0 /\ content = << >>
  /\ cidPc = "decode" => Decoding
  /\ cidPc = "check" => Decoded
  /\ CidNamesItsHash

\* What is decoded in full has the length of a CID's content.
LEMMA LengthIs ==
  ASSUME Decoding
  PROVE  Len(content) = ContentLength <=> next = StringLength + 1
<1>1. /\ StringLength \in Nat /\ ContentLength \in Nat
      /\ 5 * (StringLength - 1) \in 8 * ContentLength .. 8 * ContentLength + 4
  BY CidAssumption, HeaderIs
<1>2. /\ next \in 2 .. StringLength + 1 /\ bits \in 0 .. 7 /\ Len(content) \in Nat
      /\ (8 * Len(content)) + bits = 5 * (next - 2)
  BY DEF Decoding
<1> QED
  BY <1>1, <1>2

\* The header is found exactly if the text is a CID.
LEMMA HeaderFound == Decoded => (HasHeader <=> IsCid)
<1> SUFFICES ASSUME Decoded PROVE HasHeader <=> IsCid
  OBVIOUS
<1>1. ASSUME Decoding, HasHeader PROVE IsCid
  <2>1. /\ text \in Seq(Characters) /\ Len(text) = StringLength /\ text[1] = 1
        /\ content \in Seq(0 .. 255) /\ Encodes(content, 0)
        /\ \A i \in 1 .. next - 1 : text[i] < Pad
    BY <1>1 DEF Decoding
  <2>2. next = StringLength + 1 /\ Len(content) = ContentLength /\ SubSeq(content, 1, 4) = Header
    BY <1>1, LengthIs DEF HasHeader
  <2>3. 1 \in 1 .. Len(content) + 1 /\ 4 <= Len(content) /\ 8 * (1 - 1) = 0
    BY <2>2, HeaderIs
  <2>4. Encodes(Header, 0)
    <3>1. 4 \in Nat /\ 1 <= 4 + 1
      OBVIOUS
    <3>2. Encodes(SubSeq(content, 1, 4), 8 * (1 - 1))
      BY <2>1, <2>3, <3>1, PartEncodes, Zenon
    <3> QED
      BY <2>2, <2>3, <3>2, Zenon
  <2>5. \A i \in 1 .. StringLength : text[i] < Pad
    BY <2>1, <2>2, CidAssumption
  <2> QED
    BY <2>1, <2>4, <2>5 DEF IsCid
<1>2. ASSUME Decoding, next \in DOMAIN text => text[next] = Pad, IsCid PROVE HasHeader
  <2>1. /\ text \in Seq(Characters) /\ Len(text) = StringLength
        /\ content \in Seq(0 .. 255) /\ Encodes(content, 0)
        /\ next \in 2 .. StringLength + 1
    BY <1>2 DEF Decoding
  <2>2. next = StringLength + 1
    <3>1. next \in 1 .. StringLength => text[next] < Pad /\ text[next] = Pad
      BY <1>2, <2>1 DEF IsCid
    <3> QED
      BY <2>1, <3>1, CidAssumption DEF Pad
  <2>3. Len(content) = ContentLength
    BY <1>2, <2>2, LengthIs
  <2>4. /\ SubSeq(content, 1, 4) \in Seq(0 .. 255) /\ Len(SubSeq(content, 1, 4)) = 4
        /\ Encodes(SubSeq(content, 1, 4), 0)
    <3>1. 1 \in 1 .. Len(content) + 1 /\ 4 <= Len(content) /\ 8 * (1 - 1) = 0 /\ 4 + 1 - 1 = 4
      BY <2>3, HeaderIs
    <3> QED
      BY <2>1, <3>1, PartEncodes
  <2>5. SubSeq(content, 1, 4) = Header
    BY <1>2, <2>4, HeaderIs, SameBytes DEF IsCid
  <2> QED
    BY <2>3, <2>5 DEF HasHeader
<1>3. ASSUME next \in 1 .. StringLength, text[next] = Other, content = << >> PROVE ~HasHeader /\ ~IsCid
  <2>1. ~IsCid
    BY <1>3 DEF IsCid, Pad, Other
  <2>2. Len(content) = 0
    BY <1>3
  <2> QED
    BY <2>1, <2>2, HeaderIs DEF HasHeader
<1> QED
  BY <1>1, <1>2, <1>3 DEF Decoded

LEMMA CidStep == CidInv /\ (CidNext \/ UNCHANGED cidVars) => CidInv'
<1> SUFFICES ASSUME CidInv, CidNext \/ UNCHANGED cidVars PROVE CidInv'
  OBVIOUS
<1>1. CASE CidBegin
  <2>1. /\ cidPc = "none" /\ text' \in Seq(Characters)
        /\ cidPc' = IF Len(text') = StringLength /\ text'[1] = 1 THEN "decode" ELSE "false"
        /\ UNCHANGED << next, buffer, bits, content, hash >>
    BY <1>1, CidAssumption DEF CidBegin, CidGo
  <2>2. next = 2 /\ bits = 0 /\ buffer = 0 /\ content = << >>
    BY <2>1 DEF CidInv
  <2>3. CASE Len(text') = StringLength /\ text'[1] = 1
    <3>1. StringLength \in Nat \ {0}
      <4>1. ContentLength \in Nat
        BY HeaderIs
      <4> QED
        BY <4>1, CidAssumption
    <3>2. content' \in Seq(0 .. 255) /\ Len(content') = 0
      BY <2>1, <2>2, EmptySeq
    <3>3. Encodes(content, 0)'
      BY <3>2 DEF Encodes
    <3>4. Decoding'
      BY <2>1, <2>2, <2>3, <3>1, <3>2, <3>3 DEF Decoding, Pad
    <3> QED
      BY <2>1, <2>3, <3>4 DEF CidInv, CidNamesItsHash
  <2>4. CASE ~(Len(text') = StringLength /\ text'[1] = 1)
    BY <2>1, <2>4 DEF CidInv, CidNamesItsHash, IsCid
  <2> QED
    BY <2>3, <2>4
<1>2. CASE DecodeCharacter
  <2>1. cidPc = "decode" /\ cidPc' = cidPc
    BY <1>2 DEF DecodeCharacter
  <2> QED
    BY <1>2, <2>1, DecodeStep DEF CidInv, CidNamesItsHash
<1>3. CASE DecodeEnds
  <2>1. /\ Decoding /\ (next \in DOMAIN text => text[next] = Pad) /\ cidPc' = "check"
        /\ UNCHANGED << text, next, buffer, bits, content, hash >>
    BY <1>3 DEF DecodeEnds, CidGo, CidInv
  <2>2. Decoded'
    <3>1. Decoded
      BY <2>1 DEF Decoded
    <3> QED
      BY <2>1, <3>1 DEF Decoded, Decoding, Encodes, BitOf, Digits, Text
  <2> QED
    BY <2>1, <2>2 DEF CidInv, CidNamesItsHash
<1>4. CASE DecodeFails
  <2>1. /\ Decoding /\ next <= Len(text) /\ text[next] = Other /\ cidPc' = "check"
        /\ content' = << >> /\ UNCHANGED << text, next >>
    BY <1>4 DEF DecodeFails, CidGo, CidInv
  <2>2. /\ text \in Seq(Characters) /\ Len(text) = StringLength /\ next \in 1 .. StringLength
    BY <2>1, CidAssumption DEF Decoding
  <2>3. Decoded'
    BY <2>1, <2>2 DEF Decoded
  <2> QED
    BY <2>1, <2>3 DEF CidInv, CidNamesItsHash
<1>5. CASE CidCheck
  <2>1. Decoded /\ UNCHANGED << text, content >>
    BY <1>5 DEF CidCheck, CidInv
  <2>2. HasHeader <=> IsCid
    BY <2>1, HeaderFound
  <2>3. IsCid' <=> IsCid
    BY <2>1 DEF IsCid, Encodes, BitOf, Digits
  <2>4. CASE HasHeader
    <3>1. cidPc' = "true" /\ hash' = SubSeq(content, 5, ContentLength)
      BY <1>5, <2>4 DEF CidCheck, CidGo
    <3>2. Len(content) = ContentLength /\ Decoding
      <4>1. Len(content) = ContentLength
        BY <2>4 DEF HasHeader
      <4>2. content # << >>
        BY <4>1, HeaderIs
      <4> QED
        BY <2>1, <4>1, <4>2 DEF Decoded
    <3>3. /\ Len(SubSeq(content, 5, ContentLength)) = HashLength
          /\ Encodes(SubSeq(content, 5, ContentLength), 8 * Len(Header))
      <4>1. /\ content \in Seq(0 .. 255) /\ Encodes(content, 0)
            /\ 5 \in 1 .. Len(content) + 1 /\ ContentLength \in Nat /\ ContentLength <= Len(content)
            /\ 5 <= ContentLength + 1
            /\ 8 * (5 - 1) = 8 * Len(Header) /\ ContentLength + 1 - 5 = HashLength
        BY <3>2, HeaderIs DEF Decoding
      <4> QED
        BY <4>1, PartEncodes
    <3>4. Len(hash') = HashLength /\ Encodes(hash, 8 * Len(Header))'
      BY <2>1, <3>1, <3>3 DEF Encodes, BitOf, Digits, Header
    <3> QED
      BY <2>2, <2>3, <2>4, <3>1, <3>4 DEF CidInv, CidNamesItsHash
  <2>5. CASE ~HasHeader
    <3>1. cidPc' = "false"
      BY <1>5, <2>5 DEF CidCheck, CidGo
    <3> QED
      BY <2>2, <2>3, <2>5, <3>1 DEF CidInv, CidNamesItsHash
  <2> QED
    BY <2>4, <2>5
<1>6. CASE UNCHANGED cidVars
  <2>1. UNCHANGED << cidPc, text, next, buffer, bits, content, hash >>
    BY <1>6 DEF cidVars
  <2>2. Decoding' <=> Decoding
    BY <2>1 DEF Decoding, Encodes, BitOf, Digits, Text
  <2>3. Decoded' <=> Decoded
    BY <2>1, <2>2 DEF Decoded
  <2>4. CidNamesItsHash' <=> CidNamesItsHash
    BY <2>1 DEF CidNamesItsHash, IsCid, Encodes, BitOf, Digits
  <2> QED
    BY <2>1, <2>2, <2>3, <2>4 DEF CidInv
<1> QED
  BY <1>1, <1>2, <1>3, <1>4, <1>5, <1>6 DEF CidNext

\* A text is taken for a CID exactly if it is one, for every length of a hash
\* and every width of the decoder's buffer that is wide enough.
THEOREM CidsNameTheirHashes == HccSpec => []CidNamesItsHash
<1>1. HccInit => CidInv
  BY DEF HccInit, CidInit, CidInv, CidNamesItsHash
<1>2. CidInv /\ [HccNext]_hccVars => CidInv'
  BY StepsApart, CidStep
<1>3. CidInv => CidNamesItsHash
  BY DEF CidInv
<1> QED
  BY <1>1, <1>2, <1>3, PTL DEF HccSpec
=============================================================================
