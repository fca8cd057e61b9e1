-------------------------- MODULE FileBlocks_proofs --------------------------
(***************************************************************************)
(* Theorems about FileBlocks, for any files, requests and batches.         *)
(***************************************************************************)
EXTENDS FileBlocks, SequenceTheorems, WellFoundedInduction, TLAPS

USE LayoutsAssumption, BoundsAssumption

-----------------------------------------------------------------------------
(* Numbers and sums.                                                       *)

LEMMA LeastNumber ==
  ASSUME NEW T \in SUBSET Nat, T # {}
  PROVE  Least(T) \in T /\ \A m \in T : Least(T) <= m
<1>1. PICK n \in T : \A m \in T : ~ (<< m, n >> \in OpToRel(<, Nat))
  BY WFMin, NatLessThanWellFounded
<1>2. \A m \in T : ~ (m < n)
  BY <1>1 DEF OpToRel
<1>3. \A m \in T : n <= m
  BY <1>2
<1> QED
  BY <1>3 DEF Least

LEMMA LeastOfTwo ==
  ASSUME NEW a \in Nat, NEW b \in Nat
  PROVE  Least({a, b}) = IF a <= b THEN a ELSE b
BY LeastNumber

\* g has the sums of the first 0, 1, ..., n numbers of s.
Adds(s, n, g) == g[0] = 0 /\ \A k \in 1 .. n : g[k] = g[k - 1] + s[k]

LEMMA SumsExist ==
  ASSUME NEW s \in Seq(Nat)
  PROVE  \E g \in [0 .. Len(s) -> Nat] : Adds(s, Len(s), g)
<1> DEFINE Found(n) == \E g \in [0 .. n -> Nat] : Adds(s, n, g)
           T == {n \in 0 .. Len(s) : ~Found(n)}
<1>1. T \in SUBSET Nat
  OBVIOUS
<1>2. SUFFICES ASSUME T # {} PROVE FALSE
  BY DEF Adds
<1>3. Least(T) \in T /\ \A m \in T : Least(T) <= m
  BY <1>1, <1>2, LeastNumber
<1> DEFINE n == Least(T)
<1>4. n \in 0 .. Len(s) /\ ~Found(n)
  BY <1>3
<1>5. CASE n = 0
  <2>1. [k \in 0 .. 0 |-> 0] \in [0 .. 0 -> Nat] /\ Adds(s, 0, [k \in 0 .. 0 |-> 0])
    BY DEF Adds
  <2> QED
    BY <1>4, <1>5, <2>1
<1>6. CASE n # 0
  <2>1. n - 1 \in 0 .. Len(s) /\ n - 1 \notin T
    <3>1. n - 1 \in T => n <= n - 1
      BY <1>3
    <3> HIDE DEF n, T
    <3> QED
      BY <1>4, <1>6, <3>1
  <2>2. PICK g \in [0 .. n - 1 -> Nat] : Adds(s, n - 1, g)
    BY <2>1
  <2> DEFINE h == [k \in 0 .. n |-> IF k = n THEN g[n - 1] + s[n] ELSE g[k]]
  <2>3. s[n] \in Nat
    BY <1>4, <1>6
  <2> HIDE DEF n
  <2>4. h \in [0 .. n -> Nat]
    BY <1>4, <1>6, <2>3
  <2>5. Adds(s, n, h)
    BY <1>4, <1>6, <2>2 DEF Adds
  <2> QED
    BY <1>4, <2>4, <2>5
<1> QED
  BY <1>5, <1>6

LEMMA SumsAdd ==
  ASSUME NEW s \in Seq(Nat)
  PROVE  Sums(s) \in [0 .. Len(s) -> Nat] /\ Adds(s, Len(s), Sums(s))
<1>1. PICK g \in [0 .. Len(s) -> Nat] : Adds(s, Len(s), g)
  BY SumsExist
<1>2. g = [k \in 0 .. Len(s) |-> IF k = 0 THEN 0 ELSE g[k - 1] + s[k]]
  BY <1>1 DEF Adds
<1>3. Sums(s) = [k \in 0 .. Len(s) |-> IF k = 0 THEN 0 ELSE Sums(s)[k - 1] + s[k]]
  BY <1>2 DEF Sums
<1> DEFINE T == {k \in 0 .. Len(s) : Sums(s)[k] # g[k]}
<1>4. T = {}
  <2> SUFFICES ASSUME T # {} PROVE FALSE
    OBVIOUS
  <2>1. Least(T) \in T /\ \A m \in T : Least(T) <= m
    BY LeastNumber
  <2> DEFINE n == Least(T)
  <2>2. n \in 0 .. Len(s) /\ Sums(s)[n] # g[n] /\ (n # 0 => Sums(s)[n - 1] = g[n - 1])
    BY <2>1
  <2> HIDE DEF n, T
  <2> QED
    BY <1>2, <1>3, <2>2
<1>5. \A k \in 0 .. Len(s) : Sums(s)[k] = g[k]
  BY <1>4
<1>6. Sums(s) = g
  BY <1>1, <1>2, <1>3, <1>5
<1> QED
  BY <1>1, <1>6

LEMMA SumsGrow ==
  ASSUME NEW s \in Seq(Nat), NEW j \in 0 .. Len(s), NEW k \in j .. Len(s)
  PROVE  Sums(s)[j] <= Sums(s)[k]
<1> DEFINE T == {n \in j .. Len(s) : ~ (Sums(s)[j] <= Sums(s)[n])}
<1> SUFFICES ASSUME T # {} PROVE FALSE
  OBVIOUS
<1>1. T \in SUBSET Nat
  OBVIOUS
<1> HIDE DEF T
<1>2. PICK n \in T : \A m \in T : n <= m
  BY <1>1, LeastNumber
<1> USE DEF T
<1>5. n \in j .. Len(s) /\ ~ (Sums(s)[j] <= Sums(s)[n])
  BY <1>2
<1>6. n # j => Sums(s)[j] <= Sums(s)[n - 1]
  BY <1>2, <1>5
<1> HIDE DEF T
<1>3. CASE n = j
  BY <1>5, <1>3, SumsAdd
<1>4. CASE n # j
  <2>1. n \in 1 .. Len(s) /\ n - 1 \in 0 .. Len(s)
    BY <1>5, <1>4
  <2>2. Sums(s)[n] = Sums(s)[n - 1] + s[n] /\ s[n] \in Nat
    BY <2>1, SumsAdd DEF Adds
  <2>3. /\ Sums(s)[j] \in Nat /\ Sums(s)[n - 1] \in Nat
        /\ Sums(s)[j] <= Sums(s)[n - 1] /\ ~ (Sums(s)[j] <= Sums(s)[n])
    BY <1>4, <1>5, <1>6, <2>1, SumsAdd
  <2> QED
    BY <2>2, <2>3
<1> QED
  BY <1>3, <1>4

\* n numbers from b on.
Run(b, n) == [j \in 1 .. n |-> b + j - 1]

LEMMA RunIsSeq ==
  \A b, n \in Nat : /\ Run(b, n) \in Seq(Nat) /\ Len(Run(b, n)) = n
                    /\ \A j \in 1 .. n : Run(b, n)[j] = b + j - 1
<1> SUFFICES ASSUME NEW b \in Nat, NEW n \in Nat
             PROVE  /\ Run(b, n) \in Seq(Nat) /\ Len(Run(b, n)) = n
                    /\ \A j \in 1 .. n : Run(b, n)[j] = b + j - 1
  OBVIOUS
<1>1. \A j \in 1 .. n : b + j - 1 \in Nat
  OBVIOUS
<1>2. Run(b, n) \in Seq(Nat)
  BY <1>1, IsASeq DEF Run
<1> QED
  BY <1>2 DEF Run

LEMMA RunPart ==
  ASSUME NEW b \in Nat, NEW n \in Nat, NEW i \in 0 .. n, NEW m \in i .. n
  PROVE  SubSeq(Run(b, n), i + 1, m) = Run(b + i, m - i)
<1> DEFINE part == SubSeq(Run(b, n), i + 1, m)
<1>1. b + i \in Nat /\ m - i \in Nat /\ Run(b, n) \in Seq(Nat) /\ Len(Run(b, n)) = n
  BY RunIsSeq
<1>2. i + 1 \in 1 .. Len(Run(b, n)) + 1 /\ m \in (i + 1) - 1 .. Len(Run(b, n))
  BY <1>1
<1>3. /\ part \in Seq(Nat) /\ Len(part) = m - (i + 1) + 1
      /\ \A j \in 1 .. m - (i + 1) + 1 : part[j] = Run(b, n)[(i + 1) + j - 1]
  BY <1>1, <1>2, SubSeqProperties
<1>4. /\ Run(b + i, m - i) \in Seq(Nat) /\ Len(Run(b + i, m - i)) = m - i
      /\ \A j \in 1 .. m - i : Run(b + i, m - i)[j] = (b + i) + j - 1
  BY <1>1, RunIsSeq
<1> HIDE DEF part
<1>5. ASSUME NEW j \in 1 .. m - i PROVE part[j] = Run(b + i, m - i)[j]
  <2>1. (i + 1) + j - 1 \in 1 .. n /\ (i + 1) + j - 1 = i + j /\ j \in 1 .. m - (i + 1) + 1
    OBVIOUS
  <2>2. Run(b, n)[i + j] = b + (i + j) - 1
    BY <2>1, RunIsSeq
  <2> QED
    BY <1>3, <1>4, <2>1, <2>2
<1>6. m - (i + 1) + 1 = m - i
  OBVIOUS
<1>7. part = Run(b + i, m - i)
  BY <1>3, <1>4, <1>5, <1>6, SeqEqual
<1> QED
  BY <1>7 DEF part

LEMMA RunHead ==
  ASSUME NEW b \in Nat, NEW n \in Nat, NEW m \in 0 .. n
  PROVE  SubSeq(Run(b, n), 1, m) = Run(b, m)
<1>1. 0 \in 0 .. n /\ 0 + 1 = 1 /\ b + 0 = b /\ m - 0 = m
  OBVIOUS
<1>2. SubSeq(Run(b, n), 0 + 1, m) = Run(b + 0, m - 0)
  BY <1>1, RunPart
<1> QED
  BY <1>1, <1>2

LEMMA RunTail ==
  ASSUME NEW b \in Nat, NEW n \in Nat, NEW i \in 0 .. n
  PROVE  SubSeq(Run(b, n), i + 1, n) = Run(b + i, n - i)
<1>1. n \in i .. n
  OBVIOUS
<1> QED
  BY <1>1, RunPart

LEMMA RunConcat ==
  ASSUME NEW b \in Nat, NEW n \in Nat, NEW m \in Nat
  PROVE  Run(b, n) \o Run(b + n, m) = Run(b, n + m)
<1> DEFINE both == Run(b, n) \o Run(b + n, m)
<1>1. b + n \in Nat /\ n + m \in Nat
  OBVIOUS
<1>2. /\ Run(b, n) \in Seq(Nat) /\ Len(Run(b, n)) = n
      /\ Run(b + n, m) \in Seq(Nat) /\ Len(Run(b + n, m)) = m
      /\ Run(b, n + m) \in Seq(Nat) /\ Len(Run(b, n + m)) = n + m
  BY <1>1, RunIsSeq
<1>3. /\ both \in Seq(Nat) /\ Len(both) = n + m
      /\ \A j \in 1 .. n + m : both[j] = IF j <= n THEN Run(b, n)[j] ELSE Run(b + n, m)[j - n]
  <2>1. \A s, t \in Seq(Nat) :
          /\ s \o t \in Seq(Nat) /\ Len(s \o t) = Len(s) + Len(t)
          /\ \A j \in 1 .. Len(s) + Len(t) :
               (s \o t)[j] = IF j <= Len(s) THEN s[j] ELSE t[j - Len(s)]
    BY ConcatProperties
  <2>2. /\ both \in Seq(Nat) /\ Len(both) = Len(Run(b, n)) + Len(Run(b + n, m))
        /\ \A j \in 1 .. Len(Run(b, n)) + Len(Run(b + n, m)) :
             both[j] = IF j <= Len(Run(b, n)) THEN Run(b, n)[j]
                       ELSE Run(b + n, m)[j - Len(Run(b, n))]
    BY <1>2, <2>1, Zenon
  <2> QED
    BY <1>2, <2>2, Zenon
<1> HIDE DEF both
<1>4. ASSUME NEW j \in 1 .. n + m PROVE both[j] = Run(b, n + m)[j]
  <2>1. Run(b, n + m)[j] = b + j - 1
    BY <1>1, RunIsSeq
  <2>2. CASE j <= n
    <3>1. j \in 1 .. n
      BY <2>2
    <3> QED
      BY <1>3, <2>1, <2>2, <3>1, RunIsSeq
  <2>3. CASE ~ (j <= n)
    <3>1. j - n \in 1 .. m
      BY <2>3
    <3>2. Run(b + n, m)[j - n] = (b + n) + (j - n) - 1
      BY <1>1, <3>1, RunIsSeq
    <3> QED
      BY <1>3, <2>1, <2>3, <3>2
  <2> QED
    BY <2>2, <2>3
<1>5. both = Run(b, n + m)
  BY <1>2, <1>3, <1>4, SeqEqual
<1> QED
  BY <1>5 DEF both

\* Quotient and remainder.
LEMMA Divide ==
  ASSUME NEW a \in Nat, NEW b \in Nat \ {0}
  PROVE  /\ a \div b \in Nat /\ a % b \in 0 .. b - 1
         /\ a = (a \div b) * b + (a % b)
OBVIOUS

LEMMA TimesGrows ==
  ASSUME NEW a \in Int, NEW b \in Int, NEW c \in Nat, a <= b
  PROVE  a * c <= b * c
OBVIOUS

LEMMA TimesAdd ==
  ASSUME NEW a \in Int, NEW b \in Int, NEW c \in Nat
  PROVE  a * c \in Int /\ b * c \in Int /\ (a + b) * c = a * c + b * c
OBVIOUS

-----------------------------------------------------------------------------
(* A file's ranges.                                                        *)

SizeRange == [first : Nat, last : Nat, size : Nat \ {0}]

\* Ranges follow one another, none is empty.
Consecutive(rs) ==
  /\ rs \in Seq(SizeRange)
  /\ \A k \in DOMAIN rs : rs[k].first <= rs[k].last
  /\ \A i, k \in DOMAIN rs : i < k => rs[i].last < rs[k].first

LEMMA AnsweredRanges ==
  ASSUME NEW l \in Layouts
  PROVE  Consecutive(RangesOf(l))
<1> DEFINE counts == [i \in DOMAIN l |-> l[i].count]
           rs == RangesOf(l)
<1>1. l \in Seq([count : Nat \ {0}, size : Nat \ {0}])
  OBVIOUS
<1>11. Len(l) \in Nat /\ DOMAIN l = 1 .. Len(l)
  BY <1>1
<1>12. \A k \in 1 .. Len(l) : l[k] \in [count : Nat \ {0}, size : Nat \ {0}]
  BY <1>1, ElementOfSeq
<1>13. DOMAIN counts = 1 .. Len(l) /\ \A k \in 1 .. Len(l) : counts[k] = l[k].count
  BY <1>11
<1>2. counts \in Seq(Nat) /\ Len(counts) = Len(l) /\ DOMAIN l = 1 .. Len(l)
  <2>1. \A k \in 1 .. Len(l) : l[k].count \in Nat
    BY <1>12
  <2>2. [k \in 1 .. Len(l) |-> l[k].count] \in Seq(Nat)
    BY <1>11, <2>1, IsASeq
  <2> QED
    BY <1>11, <2>2
<1> HIDE DEF counts
<1>3. \A k \in 1 .. Len(l) : /\ counts[k] \in Nat \ {0} /\ l[k].size \in Nat \ {0}
                             /\ counts[k] = l[k].count
  BY <1>12, <1>13
<1>4. \A k \in 1 .. Len(l) : /\ Sums(counts)[k - 1] \in Nat
                             /\ Sums(counts)[k] = Sums(counts)[k - 1] + counts[k]
  <2>1. Sums(counts) \in [0 .. Len(l) -> Nat] /\ Adds(counts, Len(l), Sums(counts))
    BY <1>2, SumsAdd
  <2>2. \A k \in 1 .. Len(l) : k - 1 \in 0 .. Len(l)
    BY <1>11
  <2> QED
    BY <2>1, <2>2 DEF Adds
<1>5. \A i \in 1 .. Len(l) : \A k \in i .. Len(l) : Sums(counts)[i] <= Sums(counts)[k]
  <2>1. \A i \in 0 .. Len(counts) : \A k \in i .. Len(counts) : Sums(counts)[i] <= Sums(counts)[k]
    BY <1>2, SumsGrow
  <2> QED
    BY <1>2, <1>11, <2>1
<1>6. DOMAIN rs = 1 .. Len(l) /\ \A k \in 1 .. Len(l) :
        rs[k] = [first |-> Sums(counts)[k - 1], last |-> Sums(counts)[k - 1] + counts[k] - 1,
                 size |-> l[k].size]
  BY <1>2, <1>3 DEF RangesOf, counts
<1> HIDE DEF rs
<1>7. ASSUME NEW k \in 1 .. Len(l) PROVE rs[k] \in SizeRange /\ rs[k].first <= rs[k].last
  <2>1. Sums(counts)[k - 1] \in Nat /\ counts[k] \in Nat \ {0} /\ l[k].size \in Nat \ {0}
    BY <1>3, <1>4
  <2>2. rs[k] = [first |-> Sums(counts)[k - 1], last |-> Sums(counts)[k - 1] + counts[k] - 1,
                 size |-> l[k].size]
    BY <1>6
  <2>3. Sums(counts)[k - 1] <= Sums(counts)[k - 1] + counts[k] - 1
        /\ Sums(counts)[k - 1] + counts[k] - 1 \in Nat
    <3>1. \A a \in Nat : \A b \in Nat \ {0} : a <= a + b - 1 /\ a + b - 1 \in Nat
      OBVIOUS
    <3> QED
      BY <2>1, <3>1
  <2> QED
    BY <2>1, <2>2, <2>3 DEF SizeRange
<1>8. rs \in Seq(SizeRange)
  <2>1. rs = [k \in 1 .. Len(l) |-> rs[k]]
    BY <1>2 DEF RangesOf, rs
  <2> QED
    BY <1>1, <1>7, <2>1, IsASeq
<1>9. ASSUME NEW i \in 1 .. Len(l), NEW k \in 1 .. Len(l), i < k
      PROVE  rs[i].last < rs[k].first
  <2>1. /\ rs[i].last = Sums(counts)[i - 1] + counts[i] - 1
        /\ rs[k].first = Sums(counts)[k - 1]
    BY <1>6
  <2>2. Sums(counts)[i] <= Sums(counts)[k - 1]
    BY <1>5, <1>9, <1>11
  <2>3. i - 1 \in Nat /\ Sums(counts)[i - 1] \in Nat /\ Sums(counts)[k - 1] \in Nat
    BY <1>4
  <2>4. Sums(counts)[i] = Sums(counts)[i - 1] + counts[i] /\ counts[i] \in Nat
    BY <1>3, <1>4
  <2> HIDE DEF counts
  <2>5. \A a, b, c, d \in Nat : d = a + b /\ d <= c => a + b - 1 < c
    OBVIOUS
  <2>6. Sums(counts)[i] \in Nat
    BY <2>3, <2>4
  <2> QED
    BY <2>1, <2>2, <2>3, <2>4, <2>5, <2>6
<1>10. Consecutive(rs)
  BY <1>6, <1>7, <1>8, <1>9 DEF Consecutive
<1> QED
  BY <1>10 DEF rs

LEMMA NoRanges == Consecutive(<< >>) /\ SizeOf(<< >>) = 0
<1> DEFINE s == [i \in DOMAIN << >> |-> GetRangeTotalSize(<< >>[i])]
<1>1. s \in Seq(Nat)
  OBVIOUS
<1>2. Sums(s)[0] = 0
  BY <1>1, SumsAdd DEF Adds
<1> QED
  BY <1>2 DEF Consecutive, SizeOf, SizeBefore

LEMMA RangeFacts ==
  ASSUME NEW rs, Consecutive(rs), NEW k \in DOMAIN rs
  PROVE  /\ rs[k].first \in Nat /\ rs[k].last \in Nat /\ rs[k].size \in Nat \ {0}
         /\ rs[k].first <= rs[k].last
         /\ GetRangeTotalSize(rs[k]) \in Nat
         /\ GetRangeTotalSize(rs[k]) = (rs[k].last - rs[k].first + 1) * rs[k].size
         /\ DOMAIN rs = 1 .. Len(rs) /\ Len(rs) \in Nat
<1>1. rs[k] \in SizeRange
  BY DEF Consecutive
<1> QED
  BY <1>1 DEF Consecutive, SizeRange, GetRangeTotalSize, GetRangeBlockCount

LEMMA SizesAdd ==
  ASSUME NEW rs, Consecutive(rs)
  PROVE  /\ SizeBefore(rs, 1) = 0
         /\ SizeOf(rs) \in Nat
         /\ \A k \in DOMAIN rs :
              /\ SizeBefore(rs, k) \in Nat
              /\ SizeBefore(rs, k + 1) = SizeBefore(rs, k) + GetRangeTotalSize(rs[k])
              /\ SizeBefore(rs, k + 1) <= SizeOf(rs)
         /\ \A i, k \in DOMAIN rs : i < k => SizeBefore(rs, i + 1) <= SizeBefore(rs, k)
<1> DEFINE s == [i \in DOMAIN rs |-> GetRangeTotalSize(rs[i])]
<1>1. DOMAIN rs = 1 .. Len(rs) /\ Len(rs) \in Nat
  BY DEF Consecutive
<1>2. s \in Seq(Nat) /\ Len(s) = Len(rs)
  BY <1>1, RangeFacts
<1>3. \A k \in DOMAIN rs : s[k] = GetRangeTotalSize(rs[k])
  OBVIOUS
<1>4. \A k : SizeBefore(rs, k) = Sums(s)[k - 1]
  BY DEF SizeBefore
<1> HIDE DEF s
<1>5. Sums(s) \in [0 .. Len(rs) -> Nat] /\ Adds(s, Len(rs), Sums(s))
  BY <1>2, SumsAdd
<1>6. \A i \in 0 .. Len(rs) : \A k \in i .. Len(rs) : Sums(s)[i] <= Sums(s)[k]
  BY <1>2, SumsGrow
<1>7. \A k \in 0 .. Len(rs) : SizeBefore(rs, k + 1) = Sums(s)[k]
  BY <1>4, <1>1
<1>8. \A k \in DOMAIN rs :
              /\ SizeBefore(rs, k) \in Nat
              /\ SizeBefore(rs, k + 1) = SizeBefore(rs, k) + GetRangeTotalSize(rs[k])
  BY <1>1, <1>3, <1>4, <1>5, <1>7 DEF Adds
<1>9. SizeBefore(rs, 1) = 0 /\ SizeOf(rs) \in Nat
  BY <1>1, <1>4, <1>5, <1>7 DEF Adds, SizeOf
<1>10. \A k \in DOMAIN rs : SizeBefore(rs, k + 1) <= SizeOf(rs)
  BY <1>1, <1>6, <1>7 DEF SizeOf
<1>11. \A i, k \in DOMAIN rs : i < k => SizeBefore(rs, i + 1) <= SizeBefore(rs, k)
  BY <1>1, <1>4, <1>6, <1>7
<1> QED
  BY <1>8, <1>9, <1>10, <1>11

\* A block is in one range.
LEMMA OneHome ==
  ASSUME NEW rs, Consecutive(rs), NEW k \in DOMAIN rs, NEW i \in rs[k].first .. rs[k].last
  PROVE  (CHOOSE h \in DOMAIN rs : IsInRange(rs[h], i)) = k
<1>1. IsInRange(rs[k], i)
  BY RangeFacts DEF IsInRange
<1>2. ASSUME NEW h \in DOMAIN rs, IsInRange(rs[h], i), h # k PROVE FALSE
  <2>1. h < k \/ k < h
    BY <1>2, RangeFacts
  <2>2. rs[h].last < rs[k].first \/ rs[k].last < rs[h].first
    BY <2>1 DEF Consecutive
  <2> QED
    BY <1>2, <1>1, <2>2, RangeFacts DEF IsInRange
<1> QED
  BY <1>1, <1>2

-----------------------------------------------------------------------------
(* The blocks of a request.                                                *)

\* The first block is in range k, and the offset this far into it.
Starts(rs, o, k, from) ==
  /\ from.index \in rs[k].first .. rs[k].last
  /\ from.offset \in 0 .. rs[k].size - 1
  /\ SizeBefore(rs, k) <= o
  /\ o < SizeBefore(rs, k) + GetRangeTotalSize(rs[k])
  /\ o = SizeBefore(rs, k) + (from.index - rs[k].first) * rs[k].size + from.offset

LEMMA StartBlock ==
  ASSUME NEW rs, Consecutive(rs), NEW o \in Nat, o < SizeOf(rs)
  PROVE  \E k \in DOMAIN rs : Starts(rs, o, k, GetStartBlockIndex(rs, o))
<1> DEFINE T == {i \in DOMAIN rs : Rest(rs, o, i) < GetRangeTotalSize(rs[i])}
           k == Least(T)
<1>1. Len(rs) \in Nat /\ DOMAIN rs = 1 .. Len(rs)
  BY DEF Consecutive
<1>2. Len(rs) # 0
  BY <1>1, SizesAdd DEF SizeOf
<1>3. Len(rs) \in T
  <2>1. /\ SizeBefore(rs, Len(rs)) \in Nat
        /\ SizeOf(rs) = SizeBefore(rs, Len(rs)) + GetRangeTotalSize(rs[Len(rs)])
    BY <1>1, <1>2, SizesAdd DEF SizeOf
  <2>2. GetRangeTotalSize(rs[Len(rs)]) \in Nat
    BY <1>1, <1>2, RangeFacts
  <2> QED
    BY <1>1, <1>2, <2>1, <2>2 DEF Rest
<1>4. k \in T /\ \A m \in T : k <= m
  <2>1. T \in SUBSET Nat
    BY <1>1
  <2> HIDE DEF T
  <2> QED
    BY <1>3, <2>1, LeastNumber
<1>5. GetStartBlockIndex(rs, o) =
        [index |-> rs[k].first + (Rest(rs, o, k) \div rs[k].size),
         offset |-> Rest(rs, o, k) % rs[k].size]
  BY DEF GetStartBlockIndex
<1>6. k \in DOMAIN rs /\ Rest(rs, o, k) < GetRangeTotalSize(rs[k])
  BY <1>4
<1>7. k # 1 => k - 1 \in DOMAIN rs /\ ~ (Rest(rs, o, k - 1) < GetRangeTotalSize(rs[k - 1]))
  <2>1. k - 1 \in T => k <= k - 1
    BY <1>4
  <2> HIDE DEF k
  <2>2. k - 1 \notin T
    BY <1>1, <1>6, <2>1
  <2> QED
    BY <1>1, <1>6, <2>2
<1> HIDE DEF k, T
<1>8. SizeBefore(rs, k) \in Nat /\ SizeBefore(rs, k) <= o
  <2>1. SizeBefore(rs, k) \in Nat
    BY <1>6, SizesAdd
  <2>2. CASE k = 1
    BY <2>2, SizesAdd
  <2>3. CASE k # 1
    <3>1. k - 1 \in DOMAIN rs /\ k \in Int
      BY <1>1, <1>6, <1>7, <2>3
    <3>2. /\ SizeBefore(rs, k - 1) \in Nat
          /\ SizeBefore(rs, (k - 1) + 1) = SizeBefore(rs, k - 1) + GetRangeTotalSize(rs[k - 1])
          /\ GetRangeTotalSize(rs[k - 1]) \in Nat
      BY <3>1, SizesAdd, RangeFacts
    <3>3. (k - 1) + 1 = k
      BY <3>1
    <3> QED
      BY <1>7, <2>1, <2>3, <3>2, <3>3 DEF Rest
  <2> QED
    BY <2>1, <2>2, <2>3
<1> DEFINE rest == Rest(rs, o, k)
           b == rs[k].size
           q == rest \div b
           r == rest % b
           a == rs[k].first
           z == rs[k].last
<1>9. rest \in Nat /\ o = SizeBefore(rs, k) + rest
  BY <1>8 DEF Rest
<1>10. /\ b \in Nat \ {0} /\ a \in Nat /\ z \in Nat /\ a <= z
       /\ rest < (z - a + 1) * b
  BY <1>6, RangeFacts
<1> HIDE DEF rest, a, z, b
<1>11. q \in Nat /\ r \in 0 .. b - 1 /\ rest = q * b + r
  BY <1>9, <1>10, Divide
<1>14. GetStartBlockIndex(rs, o).index = a + q /\ GetStartBlockIndex(rs, o).offset = r
  BY <1>5 DEF rest, a, b
<1> HIDE DEF q, r
<1>12. q < z - a + 1
  <2>1. SUFFICES ASSUME z - a + 1 <= q PROVE FALSE
    BY <1>10, <1>11
  <2>2. (z - a + 1) * b <= q * b
    BY <1>10, <1>11, <2>1, TimesGrows
  <2>3. q * b \in Int /\ (z - a + 1) * b \in Int
    BY <1>10, <1>11
  <2> QED
    BY <1>9, <1>10, <1>11, <2>2, <2>3
<1>13. a + q \in a .. z /\ (a + q) - a = q
  BY <1>10, <1>11, <1>12
<1>15. o = SizeBefore(rs, k) + q * b + r
  BY <1>8, <1>9, <1>10, <1>11
<1>17. o < SizeBefore(rs, k) + GetRangeTotalSize(rs[k])
  <2>1. GetRangeTotalSize(rs[k]) \in Nat
    BY <1>6, RangeFacts
  <2> QED
    BY <1>6, <1>8, <2>1 DEF Rest
<1>16. Starts(rs, o, k, GetStartBlockIndex(rs, o))
  BY <1>17, <1>8, <1>11, <1>13, <1>14, <1>15 DEF Starts, a, b, z
<1> QED
  BY <1>6, <1>16

\* The blocks have the bytes asked for, if the range has them.
Suffice(bs, rs, o, n, k, from) ==
  IF bs = << >> THEN SizeBefore(rs, k) + GetRangeTotalSize(rs[k]) < o + n
  ELSE \E m \in Nat \ {0} :
         /\ from.index + m - 1 <= rs[k].last
         /\ n <= m * rs[k].size - from.offset
         /\ bs = [j \in 1 .. m |-> [index |-> from.index + j - 1, size |-> rs[k].size]]

LEMMA BlocksSuffice ==
  ASSUME NEW rs, Consecutive(rs), NEW o \in Nat, NEW n \in Nat, o + n <= SizeOf(rs),
         NEW k \in DOMAIN rs, Starts(rs, o, k, GetStartBlockIndex(rs, o))
  PROVE  Suffice(GetBlocks(rs, o, n), rs, o, n, k, GetStartBlockIndex(rs, o))
<1> DEFINE from == GetStartBlockIndex(rs, o)
           q == from.index
           s == rs[k].size
           z == rs[k].last
           a == rs[k].first
           r == from.offset
           before == SizeBefore(rs, k)
           last == {i \in q .. z : Proceeded(rs[k], from, i) >= n}
           m == Least(last) - q + 1
<1>1. (CHOOSE h \in DOMAIN rs : IsInRange(rs[h], q)) = k
  BY OneHome DEF Starts
<1>2. GetBlocks(rs, o, n) =
        IF o + n > SizeOf(rs) \/ last = {} THEN << >>
        ELSE [j \in 1 .. m |-> [index |-> q + j - 1, size |-> s]]
  BY <1>1 DEF GetBlocks
<1>3. ~ (o + n > SizeOf(rs))
  BY SizesAdd
<1>4. /\ q \in a .. z /\ r \in 0 .. s - 1
      /\ before \in Nat /\ o = before + (q - a) * s + r
  BY SizesAdd DEF Starts
<1>5. /\ s \in Nat \ {0} /\ a \in Nat /\ z \in Nat
      /\ GetRangeTotalSize(rs[k]) = (z - a + 1) * s
  BY RangeFacts
<1>6. \A i : Proceeded(rs[k], from, i) = (i - q + 1) * s - r
  BY DEF Proceeded
<1> HIDE DEF a, z, q, r, s, before, from
<1>7. CASE last = {}
  <2>1. z \in q .. z
    BY <1>4, <1>5
  <2>2. ~ ((z - q + 1) * s - r >= n)
    BY <1>6, <1>7, <2>1
  <2>3. /\ (z - q + 1) * s \in Int /\ (q - a) * s \in Int
        /\ (z - q + 1) * s + (q - a) * s = (z - a + 1) * s
    <3>1. z - q + 1 \in Int /\ q - a \in Int /\ (z - q + 1) + (q - a) = z - a + 1
      BY <1>4, <1>5
    <3>2. \A c, d, e \in Int : c + d = e =>
            c * s \in Int /\ d * s \in Int /\ c * s + d * s = e * s
      BY <1>5, TimesAdd
    <3>3. z - a + 1 \in Int
      BY <1>5
    <3> QED
      BY <3>1, <3>2, <3>3
  <2>4. before + (z - a + 1) * s < o + n
    BY <1>4, <1>5, <2>2, <2>3
  <2> QED
    BY <1>2, <1>5, <1>7, <2>4 DEF before, Suffice
<1>8. CASE last # {}
  <2>1. last \in SUBSET Nat
    BY <1>4, <1>5
  <2>2. Least(last) \in last
    BY <1>8, <2>1, LeastNumber
  <2>3. Least(last) \in q .. z
    BY <2>2
  <2>4. (Least(last) - q + 1) * s - r >= n
    BY <1>6, <2>2
  <2> HIDE DEF last
  <2>5. m \in Nat \ {0} /\ q + m - 1 <= z
    BY <1>4, <1>5, <2>3
  <2> HIDE DEF m
  <2>6. n <= m * s - r
    <3>1. m * s \in Int /\ r \in Int
      BY <1>4, <1>5, <2>5
    <3> QED
      BY <2>4, <3>1 DEF m
  <2>7. GetBlocks(rs, o, n) = [j \in 1 .. m |-> [index |-> q + j - 1, size |-> s]]
    BY <1>2, <1>3, <1>8
  <2>8. GetBlocks(rs, o, n) # << >>
    <3>1. DOMAIN GetBlocks(rs, o, n) = 1 .. m
      BY <2>7
    <3>2. 1 \in 1 .. m /\ DOMAIN << >> = {}
      BY <2>5
    <3> QED
      BY <3>1, <3>2
  <2> QED
    BY <2>5, <2>6, <2>7, <2>8 DEF q, s, r, z, from, Suffice
<1> QED
  BY <1>7, <1>8

-----------------------------------------------------------------------------
(***************************************************************************)
(* The blocks looked up lie one after another in the file, the first has   *)
(* the byte at the offset, and together they have what is Available; what  *)
(* has been copied is the part of it that the blocks before `next` have.   *)
(***************************************************************************)

BlockSize == blocks[1].size
InBlocks(n) == n * BlockSize - start

LookedUp ==
  /\ offset < SizeOf(ranges)
  /\ Len(blocks) # 0
  /\ BlockSize \in Nat \ {0}
  /\ start < BlockSize
  /\ Available <= InBlocks(Len(blocks))
  /\ InBlocks(Len(blocks)) <= SizeOf(ranges) - offset
  /\ \A j \in 1 .. Len(blocks) :
       /\ blocks[j].size = BlockSize
       /\ Base(blocks[j].index) \in Nat
       /\ Base(blocks[j].index) + start = offset + (j - 1) * BlockSize

Part(n) == Run(offset, n)

Copied == IF next = 1 THEN 0 ELSE Least({size, InBlocks(next - 1)})

\* The addresses are those of the blocks asked for, in order, unless the
\* service answered otherwise.
AddressesInOrder ==
  ~excused => Len(addresses) = asked
              /\ \A i \in 1 .. asked : addresses[i] = blocks[i].index

ReadInv ==
  /\ Consecutive(ranges)
  /\ pc = "idle" => /\ blocks = << >> /\ asked = 0 /\ addresses = << >>
                    /\ ~excused
  /\ pc = "look up" => blocks = << >> /\ asked = 0 /\ addresses = << >> /\ ~excused
  /\ pc \in {"idle", "look up", "addresses"} => next = 1 /\ buf = << >>
  /\ pc \in {"addresses", "copy"} => LookedUp /\ AddressesInOrder
  /\ pc = "copy" => /\ asked = Len(blocks) /\ next <= Len(blocks)
                    /\ buf = Part(Copied)

BlocksInv == TypeOK /\ ReadInv /\ ReadReturnsFile /\ FailsOnlyAcrossRanges

LEMMA Typed ==
  ASSUME TypeOK
  PROVE  /\ blocks \in Seq([index : Nat, size : Nat \ {0}]) /\ Len(blocks) \in Nat
         /\ start \in Nat /\ next \in 1 .. Len(blocks) + 1 /\ asked \in 0 .. Len(blocks)
         /\ addresses \in Seq(Nat) /\ Len(addresses) \in Nat /\ Len(addresses) <= asked
<1>1. /\ blocks \in Seq([index : Nat, size : Nat \ {0}])
      /\ start \in Nat /\ next \in 1 .. Len(blocks) + 1 /\ asked \in 0 .. Len(blocks)
      /\ addresses \in Seq(Nat) /\ Len(addresses) <= asked
  BY Zenon DEF TypeOK
<1> QED
  BY <1>1

LEMMA RequestKept ==
  ASSUME UNCHANGED request
  PROVE  /\ Available' = Available /\ InOneRange' = InOneRange
         /\ SizeOf(ranges)' = SizeOf(ranges)
         /\ \A i : Base(i)' = Base(i)
BY DEF request, Available, InOneRange, Base

LEMMA BlocksKept ==
  ASSUME UNCHANGED << request, blocks, start >>
  PROVE  LookedUp' = LookedUp /\ BlockSize' = BlockSize /\ \A n : InBlocks(n)' = InBlocks(n)
<1>1. BlockSize' = BlockSize /\ \A n : InBlocks(n)' = InBlocks(n)
  BY DEF BlockSize, InBlocks
<1>2. UNCHANGED << ranges, offset, size >>
  BY DEF request
<1> QED
  BY <1>1, <1>2, RequestKept DEF LookedUp

LEMMA AvailableIsRequested ==
  ASSUME BlocksInv
  PROVE  /\ Available \in Nat /\ offset + Available <= SizeOf(ranges)
         /\ Available = IF size <= SizeOf(ranges) - offset THEN size ELSE SizeOf(ranges) - offset
         /\ Available = RequestedSize
         /\ SizeOf(ranges) \in Nat /\ offset \in Nat /\ size \in Nat
<1>1. SizeOf(ranges) \in Nat /\ Consecutive(ranges)
  BY SizesAdd DEF BlocksInv, ReadInv
<1>2. offset \in 0 .. SizeOf(ranges) /\ size \in Nat
  <2>1. offset \in 0 .. SizeOf(ranges) /\ size \in 0 .. MaxRequest
    BY Zenon DEF BlocksInv, TypeOK
  <2> QED
    BY <2>1
<1>3. SizeOf(ranges) - offset \in Nat
  BY <1>1, <1>2
<1>4. Available = IF size <= SizeOf(ranges) - offset THEN size ELSE SizeOf(ranges) - offset
  BY <1>2, <1>3, LeastOfTwo DEF Available
<1>5. Available = RequestedSize
  BY <1>1, <1>2, <1>4 DEF RequestedSize
<1> QED
  BY <1>1, <1>2, <1>4, <1>5

\* What the look up finds, it looks for.
LEMMA LookUpFinds ==
  ASSUME BlocksInv, LookUp
  PROVE  IF blocks' = << >> THEN ~InOneRange
         ELSE /\ LookedUp'
              /\ blocks' \in Seq([index : Nat, size : Nat \ {0}]) /\ start' \in Nat
<1> DEFINE o == offset
           n == Available
           from == GetStartBlockIndex(ranges, o)
<1>1. /\ n \in Nat /\ o \in Nat /\ o + n <= SizeOf(ranges) /\ n = RequestedSize
      /\ Consecutive(ranges) /\ SizeOf(ranges) \in Nat
  BY AvailableIsRequested DEF BlocksInv, ReadInv
<1>2. /\ o < SizeOf(ranges) /\ blocks' = GetBlocks(ranges, o, n) /\ start' = from.offset
      /\ UNCHANGED request
  BY <1>1, Zenon DEF LookUp
<1>3. PICK k \in DOMAIN ranges : Starts(ranges, o, k, from)
  BY <1>1, <1>2, StartBlock
<1> DEFINE s == ranges[k].size
           a == ranges[k].first
           z == ranges[k].last
           q == from.index
           r == from.offset
           before == SizeBefore(ranges, k)
           total == GetRangeTotalSize(ranges[k])
<1>4. /\ before \in Nat /\ SizeBefore(ranges, k + 1) = before + total
      /\ before + total <= SizeOf(ranges)
  BY <1>1, SizesAdd
<1>5. /\ s \in Nat \ {0} /\ a \in Nat /\ z \in Nat /\ total \in Nat
      /\ total = (z - a + 1) * s
  BY <1>1, RangeFacts
<1>6. /\ q \in a .. z /\ r \in 0 .. s - 1 /\ before <= o /\ o < before + total
      /\ o = before + (q - a) * s + r
  BY <1>3 DEF Starts
<1>7. IF blocks' = << >> THEN before + total < o + n
      ELSE \E m \in Nat \ {0} :
             /\ q + m - 1 <= z
             /\ n <= m * s - r
             /\ blocks' = [j \in 1 .. m |-> [index |-> q + j - 1, size |-> s]]
  <2>1. Suffice(GetBlocks(ranges, o, n), ranges, o, n, k, from)
    BY <1>1, <1>3, BlocksSuffice
  <2> QED
    BY <1>2, <2>1, Zenon DEF Suffice
<1> HIDE DEF o, n, from, s, a, z, q, r, before, total
<1>8. CASE blocks' = << >>
  <2> SUFFICES ASSUME InOneRange PROVE FALSE
    BY <1>8
  <2>1. PICK h \in DOMAIN ranges :
          /\ SizeBefore(ranges, h) <= o
          /\ o + n <= SizeBefore(ranges, h) + GetRangeTotalSize(ranges[h])
    BY DEF InOneRange, o, n
  <2>2. /\ SizeBefore(ranges, h) \in Nat
        /\ SizeBefore(ranges, h + 1) = SizeBefore(ranges, h) + GetRangeTotalSize(ranges[h])
    BY <1>1, SizesAdd
  <2>3. before + total < o + n
    BY <1>7, <1>8
  <2>4. CASE h = k
    BY <1>1, <1>4, <1>5, <2>1, <2>3, <2>4 DEF before, total
  <2>5. CASE h < k
    <3>1. SizeBefore(ranges, h + 1) <= before
      BY <1>1, <2>5, SizesAdd DEF before
    <3>2. o + n <= before
      <4>1. GetRangeTotalSize(ranges[h]) \in Nat
        BY <1>1, RangeFacts
      <4> QED
        BY <1>1, <1>4, <2>1, <2>2, <3>1, <4>1
    <3> QED
      BY <1>1, <1>4, <1>5, <2>3, <3>2
  <2>6. CASE k < h
    <3>1. before + total <= SizeBefore(ranges, h)
      BY <1>1, <1>4, <2>6, SizesAdd
    <3> QED
      BY <1>1, <1>4, <1>5, <1>6, <2>1, <2>2, <3>1
  <2> QED
    BY <1>1, <2>4, <2>5, <2>6, RangeFacts
<1>9. CASE blocks' # << >>
  <2>1. PICK m \in Nat \ {0} :
          /\ q + m - 1 <= z
          /\ n <= m * s - r
          /\ blocks' = [j \in 1 .. m |-> [index |-> q + j - 1, size |-> s]]
    BY <1>7, <1>9
  <2>2. ASSUME NEW j \in 1 .. m
        PROVE  /\ q + j - 1 \in a .. z
               /\ q + j - 1 \in Nat
               /\ before + ((q + j - 1) - a) * s + r = o + (j - 1) * s
    <3>1. q + j - 1 \in a .. z /\ q + j - 1 \in Nat
      BY <1>5, <1>6, <2>1
    <3>2. q - a \in Int /\ j - 1 \in Int /\ (q + j - 1) - a = (q - a) + (j - 1)
      BY <1>5, <1>6
    <3>3. /\ (q - a) * s \in Int /\ (j - 1) * s \in Int
          /\ ((q + j - 1) - a) * s = (q - a) * s + (j - 1) * s
      BY <1>5, <3>2, TimesAdd
    <3> QED
      BY <1>1, <1>4, <1>6, <3>1, <3>3
  <2>3. m * s \in Nat /\ m * s - r <= SizeOf(ranges) - o
    <3>1. (q - a) + m \in Int /\ (q - a) + m <= z - a + 1 /\ z - a + 1 \in Int /\ q - a \in Int
      BY <1>5, <1>6, <2>1
    <3>2. /\ ((q - a) + m) * s <= (z - a + 1) * s
      BY <1>5, <3>1, TimesGrows
    <3>3. /\ (q - a) * s \in Int /\ m * s \in Int
          /\ ((q - a) + m) * s = (q - a) * s + m * s
      BY <1>5, <3>1, TimesAdd
    <3>4. m * s \in Nat
      BY <1>5
    <3> QED
      BY <1>1, <1>4, <1>5, <1>6, <3>2, <3>3, <3>4
  <2>4. /\ blocks' \in Seq([index : Nat, size : Nat \ {0}]) /\ Len(blocks') = m
        /\ \A j \in 1 .. m : blocks'[j] = [index |-> q + j - 1, size |-> s]
    <3>1. \A j \in 1 .. m : [index |-> q + j - 1, size |-> s] \in [index : Nat, size : Nat \ {0}]
      BY <1>5, <2>2
    <3>2. [j \in 1 .. m |-> [index |-> q + j - 1, size |-> s]]
            \in Seq([index : Nat, size : Nat \ {0}])
      BY <3>1, IsASeq
    <3> QED
      BY <2>1, <3>2
  <2>5. ASSUME NEW j \in 1 .. m
        PROVE  /\ Base(q + j - 1) = before + ((q + j - 1) - a) * s
               /\ Base(q + j - 1) \in Nat
    <3>1. (CHOOSE h \in DOMAIN ranges : IsInRange(ranges[h], q + j - 1)) = k
      BY <1>1, <2>2, OneHome DEF a, z
    <3>2. \A h : h = (CHOOSE g \in DOMAIN ranges : IsInRange(ranges[g], q + j - 1))
            => Base(q + j - 1) =
                 SizeBefore(ranges, h) + ((q + j - 1) - ranges[h].first) * ranges[h].size
      BY Zenon DEF Base
    <3>3. Base(q + j - 1) = before + ((q + j - 1) - a) * s
      BY <3>1, <3>2 DEF before, a, s
    <3>4. (q + j - 1) - a \in Nat /\ \A d \in Nat : d * s \in Nat
      BY <1>5, <2>2
    <3>5. ((q + j - 1) - a) * s \in Nat
      BY <3>4
    <3> QED
      BY <1>4, <3>3, <3>5
  <2>6. /\ BlockSize' = s /\ start' = r /\ Len(blocks)' = m
        /\ Available' = n /\ SizeOf(ranges)' = SizeOf(ranges) /\ offset' = o
    <3>1. blocks'[1].size = s
      BY <2>1, <2>4
    <3> QED
      BY <1>2, <2>4, <3>1, RequestKept DEF BlockSize, n, o, r, request
  <2>7. InBlocks(Len(blocks))' = m * s - r
    BY <2>6 DEF InBlocks
  <2>8. ASSUME NEW j \in 1 .. m
        PROVE  /\ blocks'[j].size = s
               /\ Base(blocks[j].index)' \in Nat
               /\ Base(blocks[j].index)' + r = o + (j - 1) * s
    <3>1. blocks'[j].size = s /\ blocks'[j].index = q + j - 1
      BY <2>4
    <3>2. Base(blocks[j].index)' = Base(q + j - 1)
      BY <1>2, <3>1 DEF Base, request
    <3> QED
      BY <2>2, <2>5, <3>1, <3>2
  <2>9. LookedUp'
    <3>1. n <= m * s - r /\ m # 0 /\ o < SizeOf(ranges) /\ r < s
      BY <1>2, <1>5, <1>6, <2>1 DEF o
    <3>2. \A j \in 1 .. m : /\ blocks'[j].size = s
                             /\ Base(blocks[j].index)' \in Nat
                             /\ Base(blocks[j].index)' + r = o + (j - 1) * s
      BY <2>8
    <3> QED
      BY <1>5, <2>3, <2>6, <2>7, <3>1, <3>2, Zenon DEF LookedUp
  <2>10. start' \in Nat
    BY <1>5, <1>6, <2>6
  <2> QED
    BY <1>9, <2>4, <2>9, <2>10
<1> QED
  BY <1>8, <1>9

\* What is known of the blocks while they are copied, in plain numbers.
LEMMA BlockFacts ==
  ASSUME BlocksInv, LookedUp
  PROVE  /\ BlockSize \in Nat \ {0} /\ start \in 0 .. BlockSize - 1
         /\ Len(blocks) \in Nat
         /\ \A n \in Nat : /\ InBlocks(n) \in Int
                           /\ InBlocks(n + 1) = InBlocks(n) + BlockSize
                           /\ n # 0 => InBlocks(n) \in Nat \ {0}
         /\ \A n \in 1 .. Len(blocks) : InBlocks(n) <= InBlocks(Len(blocks))
         /\ \A n \in 1 .. Len(blocks) : InBlocks(n) <= SizeOf(ranges) - offset
<1> DEFINE s == BlockSize
           last == Len(blocks)
<1>1. /\ s \in Nat \ {0} /\ last \in Nat /\ start < s /\ start \in Nat
      /\ InBlocks(last) <= SizeOf(ranges) - offset
  BY Typed, Zenon DEF BlocksInv, LookedUp
<1>2. \A n : InBlocks(n) = n * s - start
  BY DEF InBlocks
<1>3. SizeOf(ranges) \in Nat /\ offset \in Nat
  BY AvailableIsRequested
<1> HIDE DEF s, last
<1>4. ASSUME NEW n \in Nat
      PROVE  /\ InBlocks(n) \in Int /\ InBlocks(n + 1) = InBlocks(n) + s
             /\ n # 0 => InBlocks(n) \in Nat \ {0}
  <2>1. n * s \in Int /\ 1 * s = s /\ (n + 1) * s = n * s + 1 * s
    BY <1>1, TimesAdd
  <2>2. n # 0 => 1 * s <= n * s
    BY <1>1, TimesGrows
  <2> QED
    BY <1>1, <1>2, <2>1, <2>2
<1>5. ASSUME NEW n \in 1 .. last PROVE InBlocks(n) <= InBlocks(last)
  <2>1. n * s <= last * s /\ n * s \in Int /\ last * s \in Int
    BY <1>1, TimesGrows
  <2> QED
    BY <1>1, <1>2, <2>1
<1>6. ASSUME NEW n \in 1 .. last PROVE InBlocks(n) <= SizeOf(ranges) - offset
  <2>1. n \in Nat
    BY <1>1
  <2>2. InBlocks(n) \in Int /\ InBlocks(last) \in Int /\ InBlocks(n) <= InBlocks(last)
    BY <1>1, <1>4, <1>5, <2>1, Zenon
  <2> QED
    BY <1>1, <1>3, <2>2
<1> QED
  BY <1>1, <1>4, <1>5, <1>6 DEF s, last

\* A block adds what it has of the bytes asked for.
LEMMA CopyAdds ==
  ASSUME BlocksInv, CopyBlock
  PROVE  /\ buf' = Part(Least({size, InBlocks(next)}))
         /\ UNCHANGED << request, blocks, start >>
         /\ pc = "copy" /\ next \in 1 .. Len(blocks)
<1> DEFINE s == BlockSize
           base == Base(blocks[next].index)
           bytes == CopyFrom(BytesOf(addresses[next], blocks[next].size))
           take == CopySize(bytes)
           now == InBlocks(next)
<1>1. /\ pc = "copy" /\ addresses[next] = blocks[next].index
      /\ buf' = buf \o SubSeq(bytes, 1, take)
      /\ UNCHANGED << request, blocks, start >>
  BY DEF CopyBlock, AddressFits
<1>2. LookedUp /\ next <= Len(blocks) /\ buf = Part(Copied)
  BY <1>1 DEF BlocksInv, ReadInv
<1>3. next \in 1 .. Len(blocks) /\ Len(blocks) \in Nat
  <2>1. next \in 1 .. Len(blocks) + 1 /\ Len(blocks) \in Nat
    BY Typed DEF BlocksInv
  <2> QED
    BY <1>2, <2>1
<1>4. /\ offset \in Nat /\ size \in Nat
      /\ SizeOf(ranges) \in Nat
  BY AvailableIsRequested
<1>5. /\ s \in Nat \ {0} /\ start \in 0 .. s - 1
      /\ now \in Nat \ {0} /\ InBlocks(next - 1) \in Int /\ now = InBlocks(next - 1) + s
      /\ next # 1 => InBlocks(next - 1) \in Nat \ {0}
  <2>1. next - 1 \in Nat /\ next \in Nat \ {0} /\ (next - 1) + 1 = next
        /\ (next # 1 => next - 1 # 0)
    BY <1>3
  <2>2. /\ s \in Nat \ {0} /\ start \in 0 .. s - 1
        /\ \A n \in Nat : /\ InBlocks(n) \in Int
                          /\ InBlocks(n + 1) = InBlocks(n) + s
                          /\ n # 0 => InBlocks(n) \in Nat \ {0}
    BY <1>2, BlockFacts
  <2>3. InBlocks((next - 1) + 1) = InBlocks(next - 1) + s /\ InBlocks(next - 1) \in Int
    BY <2>1, <2>2
  <2> QED
    BY <2>1, <2>2, <2>3
<1>6. /\ blocks[next].size = s /\ base \in Nat /\ base = offset + InBlocks(next - 1)
      /\ next = 1 => InBlocks(next - 1) = 0 - start
  <2>1. /\ blocks[next].size = s /\ base \in Nat /\ start \in Nat
        /\ base + start = offset + (next - 1) * s
    BY <1>2, <1>3, <1>5 DEF LookedUp
  <2>2. (next - 1) * s \in Int /\ 0 * s = 0
    BY <1>3, <1>5
  <2>3. InBlocks(next - 1) = (next - 1) * s - start
    BY DEF InBlocks
  <2> HIDE DEF s, base
  <2> QED
    BY <1>3, <1>4, <1>5, <2>1, <2>2, <2>3
<1>7. bytes = IF buf = << >> THEN SubSeq(Run(base, s), start + 1, Len(Run(base, s)))
              ELSE Run(base, s)
  <2>1. BytesOf(addresses[next], blocks[next].size) = Run(base, s)
    BY <1>1, <1>6, Zenon DEF BytesOf, Run
  <2> QED
    BY <2>1, Zenon DEF CopyFrom
<1> HIDE DEF s, base, bytes, take
<1>8. Copied = IF next = 1 THEN 0
               ELSE IF size <= InBlocks(next - 1) THEN size ELSE InBlocks(next - 1)
  BY <1>4, <1>5, LeastOfTwo DEF Copied
<1>9. /\ Copied \in 0 .. size
      /\ Copied = 0 <=> next = 1 \/ size = 0
  BY <1>4, <1>5, <1>8
<1> HIDE DEF now
<1>10. Len(buf) = Copied /\ buf \in Seq(Nat) /\ (buf = << >> <=> Copied = 0)
  <2>1. Copied \in Nat /\ buf = Run(offset, Copied)
    BY <1>2, <1>4, <1>9 DEF Part
  <2>2. Len(buf) = Copied /\ buf \in Seq(Nat)
    BY <1>4, <2>1, RunIsSeq
  <2> QED
    BY <2>2
<1>11. Least({size, now}) = IF size <= now THEN size ELSE now
  BY <1>4, <1>5, LeastOfTwo
<1>12. CASE Copied = 0
  <2>1. bytes = Run(base + start, s - start)
    <3>1. Len(Run(base, s)) = s /\ start \in 0 .. s /\ s \in Nat
      BY <1>5, <1>6, RunIsSeq
    <3>2. SubSeq(Run(base, s), start + 1, s) = Run(base + start, s - start)
      BY <1>6, <3>1, RunTail
    <3>3. bytes = SubSeq(Run(base, s), start + 1, Len(Run(base, s)))
      BY <1>7, <1>10, <1>12
    <3> QED
      BY <3>1, <3>2, <3>3
  <2>2. base + start \in Nat /\ s - start \in Nat /\ Len(bytes) = s - start
    <3>1. base + start \in Nat /\ s - start \in Nat
      BY <1>5, <1>6
    <3>2. \A b, n \in Nat : Len(Run(b, n)) = n
      BY RunIsSeq
    <3> QED
      BY <2>1, <3>1, <3>2
  <2>3. take = IF s - start <= size THEN s - start ELSE size
    BY <1>4, <1>10, <1>12, <2>2, LeastOfTwo DEF CopySize, take
  <2>4. SubSeq(bytes, 1, take) = Run(base + start, take)
    <3>1. take \in 0 .. s - start
      BY <1>4, <2>2, <2>3
    <3> QED
      BY <2>1, <2>2, <3>1, RunHead, Zenon
  <2>5. buf' = Run(base + start, take)
    <3>1. Run(base + start, take) \in Seq(Nat)
      BY <1>4, <2>2, <2>3, RunIsSeq
    <3> QED
      BY <1>1, <1>10, <1>12, <2>4, <3>1, ConcatEmptySeq
  <2>6. CASE next = 1
    <3>1. base + start = offset /\ now = s - start
      BY <1>4, <1>5, <1>6, <2>6
    <3>2. take = Least({size, now})
      <4>1. take = IF now <= size THEN now ELSE size
        BY <2>3, <3>1
      <4> QED
        BY <1>4, <1>5, <1>11, <4>1
    <3> QED
      BY <1>1, <1>3, <2>5, <3>1, <3>2 DEF Part, now
  <2>7. CASE size = 0
    <3>1. take = 0 /\ Least({size, now}) = 0
      BY <1>5, <1>11, <2>2, <2>3, <2>7
    <3>2. Run(base + start, 0) = Run(offset, 0)
      BY DEF Run
    <3> QED
      BY <1>1, <1>3, <2>5, <3>1, <3>2 DEF Part, now
  <2> QED
    BY <1>9, <1>12, <2>6, <2>7
<1>13. CASE Copied # 0
  <2>1. bytes = Run(base, s) /\ Len(bytes) = s /\ next # 1
    BY <1>5, <1>6, <1>7, <1>9, <1>10, <1>13, RunIsSeq
  <2>2. take = IF s <= size - Copied THEN s ELSE size - Copied
    BY <1>4, <1>5, <1>9, <1>10, <2>1, LeastOfTwo DEF CopySize, take
  <2>3. take \in Nat /\ take <= s
    BY <1>4, <1>5, <1>9, <2>2
  <2>4. SubSeq(bytes, 1, take) = Run(base, take)
    <3>1. take \in 0 .. s /\ s \in Nat
      BY <1>5, <2>3
    <3> QED
      BY <1>6, <2>1, <3>1, RunHead, Zenon
  <2>5. buf' = Run(offset, Copied) \o Run(base, take)
    BY <1>1, <1>2, <2>4 DEF Part
  <2>6. buf' = Run(offset, Copied + take)
    <3>1. CASE Copied < size
      <4>1. base = offset + Copied
        BY <1>4, <1>5, <1>6, <1>8, <2>1, <3>1
      <4>2. Copied \in Nat
        BY <1>4, <1>9
      <4> QED
        BY <1>4, <1>9, <2>3, <2>5, <4>1, <4>2, RunConcat, Zenon
    <3>2. CASE Copied = size
      <4>1. take = 0
        BY <1>4, <1>5, <2>2, <3>2
      <4>2. Run(base, 0) = Run(offset + Copied, 0)
        BY DEF Run
      <4>3. Copied \in Nat /\ 0 \in Nat
        BY <1>4, <1>9
      <4>4. Run(offset, Copied) \o Run(offset + Copied, 0) = Run(offset, Copied + 0)
        BY <1>4, <4>3, RunConcat
      <4> QED
        BY <2>5, <4>1, <4>2, <4>4
    <3> QED
      BY <1>4, <1>9, <3>1, <3>2
  <2>7. Copied + take = IF size <= now THEN size ELSE now
    BY <1>4, <1>5, <1>8, <1>9, <2>1, <2>2
  <2> QED
    BY <1>1, <1>3, <1>11, <2>6, <2>7 DEF Part, now
<1> QED
  BY <1>12, <1>13

-----------------------------------------------------------------------------
(* The steps.                                                              *)

LEMMA BlocksInit == Init => BlocksInv
<1> SUFFICES ASSUME Init PROVE BlocksInv
  OBVIOUS
<1>1. ranges = << >> /\ Consecutive(ranges) /\ SizeOf(ranges) = 0
  BY NoRanges DEF Init
<1>2. TypeOK
  <2>1. /\ << >> \in Seq([first : Nat, last : Nat, size : Nat \ {0}])
        /\ << >> \in Seq([index : Nat, size : Nat \ {0}]) /\ << >> \in Seq(Nat)
        /\ << >> \in Seq(0 .. 0) /\ Len(<< >>) = 0 /\ DOMAIN << >> = {}
    OBVIOUS
  <2>2. 0 \in 0 .. MaxRequest /\ 0 \in 0 .. 0 /\ 0 <= 0 /\ 1 \in 1 .. 0 + 1 /\ 0 \in Nat
    OBVIOUS
  <2> QED
    BY <1>1, <2>1, <2>2 DEF Init, TypeOK
<1>3. ReadInv /\ ReadReturnsFile /\ FailsOnlyAcrossRanges
  BY <1>1 DEF Init, ReadInv, ReadReturnsFile, FailsOnlyAcrossRanges
<1> QED
  BY <1>2, <1>3 DEF BlocksInv

LEMMA AskStep ==
  ASSUME BlocksInv, NEW l \in Layouts, NEW n \in 0 .. MaxRequest,
         NEW o \in 0 .. SizeOf(RangesOf(l)), Ask(l, o, n)
  PROVE  BlocksInv'
<1>1. /\ pc = "idle" /\ ranges' = RangesOf(l) /\ offset' = o /\ size' = n /\ pc' = "look up"
      /\ UNCHANGED << blocks, start, asked, addresses, next, buf, excused >>
  BY Zenon DEF Ask
<1>2. blocks = << >> /\ asked = 0 /\ addresses = << >> /\ next = 1 /\ buf = << >>
  BY <1>1 DEF BlocksInv, ReadInv
<1>8. ~excused'
  BY <1>1, Zenon DEF BlocksInv, ReadInv
<1>3. Consecutive(ranges') /\ SizeOf(ranges') \in Nat /\ offset' \in 0 .. SizeOf(ranges')
  BY <1>1, AnsweredRanges, SizesAdd
<1>4. ranges' \in Seq([first : Nat, last : Nat, size : Nat \ {0}])
      /\ \A k \in DOMAIN ranges' : ranges'[k].first <= ranges'[k].last
  BY <1>3 DEF Consecutive, SizeRange
<1>5. start' \in Nat
  BY <1>1, Typed DEF BlocksInv
<1>6. TypeOK'
  <2>1. /\ << >> \in Seq([index : Nat, size : Nat \ {0}]) /\ << >> \in Seq(Nat)
        /\ << >> \in Seq(0 .. SizeOf(ranges')) /\ Len(<< >>) = 0
    OBVIOUS
  <2>2. 0 <= n /\ 0 \in 0 .. 0 /\ 0 <= 0 /\ 1 \in 1 .. 0 + 1
    OBVIOUS
  <2>3. /\ blocks' = << >> /\ asked' = 0 /\ addresses' = << >>
        /\ next' = 1 /\ buf' = << >> /\ size' = n /\ pc' = "look up"
    BY <1>1, <1>2
  <2>4. excused' \in BOOLEAN
    BY <1>1, Zenon DEF BlocksInv, TypeOK
  <2> QED
    BY <1>3, <1>4, <1>5, <2>1, <2>2, <2>3, <2>4 DEF TypeOK
<1>7. ReadInv' /\ ReadReturnsFile' /\ FailsOnlyAcrossRanges'
  <2>1. pc' = "look up" /\ blocks' = << >> /\ asked' = 0 /\ addresses' = << >>
        /\ next' = 1 /\ buf' = << >>
    BY <1>1, <1>2
  <2> QED
    BY <1>3, <1>8, <2>1 DEF ReadInv, ReadReturnsFile, FailsOnlyAcrossRanges
<1> QED
  BY <1>6, <1>7 DEF BlocksInv

LEMMA BeyondEndStep == BlocksInv /\ BeyondEnd => BlocksInv'
<1> SUFFICES ASSUME BlocksInv, BeyondEnd PROVE BlocksInv'
  OBVIOUS
<1>1. /\ pc = "look up" /\ pc' = "answered" /\ offset >= SizeOf(ranges)
      /\ UNCHANGED << request, blocks, start, asked, addresses, next, buf, excused >>
  BY Zenon DEF BeyondEnd
<1>2. UNCHANGED << ranges, offset, size >>
  BY <1>1 DEF request
<1>3. TypeOK'
  BY <1>1, <1>2 DEF BlocksInv, TypeOK
<1>4. ReadInv' /\ FailsOnlyAcrossRanges'
  BY <1>1, <1>2 DEF BlocksInv, ReadInv, FailsOnlyAcrossRanges
<1>5. Available' = 0 /\ buf' = << >>
  <2>1. Available = 0
    <3>1. /\ Available \in Nat /\ offset + Available <= SizeOf(ranges)
          /\ SizeOf(ranges) \in Nat /\ offset \in Nat
      BY AvailableIsRequested
    <3>2. offset >= SizeOf(ranges)
      BY <1>1
    <3> QED
      BY <3>1, <3>2
  <2> QED
    BY <1>1, <2>1, RequestKept DEF BlocksInv, ReadInv
<1>6. ReadReturnsFile'
  BY <1>5 DEF ReadReturnsFile
<1> QED
  BY <1>3, <1>4, <1>6 DEF BlocksInv

LEMMA LookUpStep == BlocksInv /\ LookUp => BlocksInv'
<1> SUFFICES ASSUME BlocksInv, LookUp PROVE BlocksInv'
  OBVIOUS
<1>1. /\ pc = "look up" /\ pc' = IF blocks' = << >> THEN "failed" ELSE "addresses"
      /\ UNCHANGED << request, asked, addresses, next, buf, excused >>
      /\ start' = GetStartBlockIndex(ranges, offset).offset
  BY Zenon DEF LookUp
<1>2. UNCHANGED << ranges, offset, size >>
  BY <1>1 DEF request
<1>3. /\ blocks = << >> /\ asked = 0 /\ addresses = << >>
      /\ next = 1 /\ buf = << >> /\ Consecutive(ranges)
  BY <1>1 DEF BlocksInv, ReadInv
<1>9. ~excused'
  BY <1>1, Zenon DEF BlocksInv, ReadInv
<1>10. asked' = 0 /\ addresses' = << >> /\ next' = 1 /\ buf' = << >>
  BY <1>1, <1>3, Zenon
<1>4. IF blocks' = << >> THEN ~InOneRange
      ELSE /\ LookedUp'
           /\ blocks' \in Seq([index : Nat, size : Nat \ {0}]) /\ start' \in Nat
  BY LookUpFinds
<1>5. blocks' \in Seq([index : Nat, size : Nat \ {0}]) /\ start' \in Nat
  <2>1. PICK k \in DOMAIN ranges :
          Starts(ranges, offset, k, GetStartBlockIndex(ranges, offset))
    <3>1. offset < SizeOf(ranges) /\ offset \in Nat
      BY AvailableIsRequested, Zenon DEF LookUp
    <3> QED
      BY <1>3, <3>1, StartBlock
  <2>2. ranges[k].size \in Nat
    BY <1>3, RangeFacts
  <2>3. start' \in Nat
    <3>1. \A n \in Nat : 0 .. n - 1 \in SUBSET Nat
      OBVIOUS
    <3> QED
      BY <1>1, <2>1, <2>2, <3>1, Zenon DEF Starts
  <2>4. << >> \in Seq([index : Nat, size : Nat \ {0}])
    OBVIOUS
  <2> QED
    BY <1>4, <2>3, <2>4, Zenon
<1>6. TypeOK'
  <2>1. Len(blocks') \in Nat
    BY <1>5
  <2>2. asked' \in 0 .. Len(blocks') /\ next' \in 1 .. Len(blocks') + 1
    BY <1>10, <2>1
  <2>3. pc' \in {"failed", "addresses"}
    BY <1>1
  <2>4. Len(addresses') <= asked'
    BY <1>10
  <2> QED
    BY <1>1, <1>2, <1>5, <2>2, <2>3, <2>4 DEF BlocksInv, TypeOK
<1>7. CASE blocks' = << >>
  <2>1. pc' = "failed"
    BY <1>1, <1>7
  <2>2. ~InOneRange'
    BY <1>1, <1>4, <1>7, RequestKept, Zenon
  <2> QED
    BY <1>1, <1>2, <1>3, <1>6, <2>1, <2>2, Zenon
    DEF BlocksInv, ReadInv, ReadReturnsFile, FailsOnlyAcrossRanges
<1>8. CASE blocks' # << >>
  <2>1. pc' = "addresses" /\ LookedUp'
    BY <1>1, <1>4, <1>8
  <2>2. AddressesInOrder'
    <3>1. Len(addresses') = 0 /\ asked' = 0 /\ 1 .. 0 = {}
      BY <1>10
    <3> QED
      BY <3>1, Zenon DEF AddressesInOrder
  <2> QED
    BY <1>2, <1>3, <1>6, <1>10, <2>1, <2>2
    DEF BlocksInv, ReadInv, ReadReturnsFile, FailsOnlyAcrossRanges
<1> QED
  BY <1>7, <1>8

\* A read that ends without an answer.
LEMMA FailStep ==
  ASSUME BlocksInv, UNCHANGED << request, blocks, start, asked, addresses, next, buf >>,
         pc' \in {"failed", "crashed"}, excused' = TRUE
  PROVE  BlocksInv'
<1>1. UNCHANGED << ranges, offset, size >>
  BY DEF request
<1>2. TypeOK'
  BY <1>1 DEF BlocksInv, TypeOK
<1>3. ReadInv' /\ ReadReturnsFile' /\ FailsOnlyAcrossRanges'
  BY <1>1 DEF BlocksInv, ReadInv, ReadReturnsFile, FailsOnlyAcrossRanges
<1> QED
  BY <1>2, <1>3 DEF BlocksInv

LEMMA AddressStep == BlocksInv /\ (AddressOfAnother \/ AddressMissing) => BlocksInv'
<1> SUFFICES ASSUME BlocksInv, AddressOfAnother \/ AddressMissing PROVE BlocksInv'
  OBVIOUS
<1>1. /\ pc = "copy" /\ pc' \in {"failed", "crashed"}
      /\ UNCHANGED << request, blocks, start, asked, addresses, next, buf, excused >>
  BY DEF AddressOfAnother, AddressMissing
<1>2. /\ asked = Len(blocks) /\ next <= Len(blocks) /\ AddressesInOrder
  BY <1>1 DEF BlocksInv, ReadInv
<1>3. next \in 1 .. Len(blocks) /\ Len(blocks) \in Nat
  BY <1>2, Typed DEF BlocksInv
<1>4. excused
  BY <1>2, <1>3 DEF AddressesInOrder, AddressOfAnother, AddressMissing, AddressFits
<1>5. excused \in BOOLEAN
  BY Zenon DEF BlocksInv, TypeOK
<1> QED
  BY <1>1, <1>4, <1>5, FailStep

\* Bytes that are decrypted past their end have a whole unit.
LEMMA RunsOffUnits ==
  ASSUME NEW place \in 0 .. NativeSize - 1, NEW n \in Nat, RunsOff(place, n)
  PROVE  n >= NativeSize
<1> DEFINE m == place + n
           q == m \div NativeSize
<1>1. m \in Nat /\ NativeSize \in Nat \ {0} /\ m % NativeSize = 0
  BY UnitAssumption DEF RunsOff
<1>3. m > 0 /\ (place # 0 => m > NativeSize)
  BY UnitAssumption DEF RunsOff
<1> HIDE DEF m
<1>2. q \in Nat /\ m = q * NativeSize
  <2>1. q \in Nat /\ m = q * NativeSize + (m % NativeSize)
    BY <1>1, Divide, Zenon
  <2>2. q * NativeSize \in Nat
    BY <1>1, <2>1
  <2> QED
    BY <1>1, <2>1, <2>2
<1> HIDE DEF q
<1>6. 0 * NativeSize = 0 /\ 1 * NativeSize = NativeSize
  BY <1>1
<1>4. CASE place = 0
  <2>1. q # 0
    BY <1>2, <1>3, <1>6
  <2>2. 1 * NativeSize <= q * NativeSize
    BY <1>1, <1>2, <2>1, TimesGrows
  <2> QED
    BY <1>1, <1>2, <1>4, <2>2 DEF m
<1>5. CASE place # 0
  <2>1. q > 1
    <3>1. CASE q = 0
      BY <1>2, <1>3, <1>6, <3>1
    <3>2. CASE q = 1
      BY <1>1, <1>2, <1>3, <1>5, <1>6, <3>2
    <3> QED
      BY <1>2, <3>1, <3>2
  <2>2. 2 * NativeSize <= q * NativeSize
    BY <1>1, <1>2, <2>1, TimesGrows
  <2> QED
    BY <1>1, <1>2, <2>2 DEF m
<1> QED
  BY <1>4, <1>5

\* A decryption that runs off its block.
LEMMA DecryptionStep == BlocksInv /\ DecryptionRunsOff => BlocksInv'
<1> SUFFICES ASSUME BlocksInv, DecryptionRunsOff PROVE BlocksInv'
  OBVIOUS
<1>1. /\ pc = "copy" /\ pc' = "crashed"
      /\ UNCHANGED << request, blocks, start, asked, addresses, next, buf, excused >>
  BY Zenon DEF DecryptionRunsOff
<1>2. UNCHANGED << ranges, offset, size >>
  BY <1>1 DEF request
<1>3. TypeOK'
  BY <1>1, <1>2 DEF BlocksInv, TypeOK
<1>4. next \in 1 .. Len(blocks)
  <2>1. next <= Len(blocks)
    BY <1>1 DEF BlocksInv, ReadInv
  <2> QED
    BY <2>1, Typed DEF BlocksInv
<1>5. blocks[next].size >= NativeSize
  <2>1. blocks[next].size \in Nat
    <3>1. blocks \in Seq([index : Nat, size : Nat \ {0}])
      BY Typed DEF BlocksInv
    <3>2. blocks[next] \in [index : Nat, size : Nat \ {0}]
      BY <1>4, <3>1, ElementOfSeq
    <3> QED
      BY <3>2
  <2> QED
    BY <2>1, RunsOffUnits DEF DecryptionRunsOff
<1>6. next' <= Len(blocks') /\ blocks'[next'].size >= NativeSize
  BY <1>1, <1>4, <1>5, Typed DEF BlocksInv
<1>7. ReadInv' /\ ReadReturnsFile'
  BY <1>1, <1>2 DEF BlocksInv, ReadInv, ReadReturnsFile
<1>8. FailsOnlyAcrossRanges'
  BY <1>1, <1>6 DEF FailsOnlyAcrossRanges
<1> QED
  BY <1>3, <1>7, <1>8 DEF BlocksInv

\* A batch of addresses.
LEMMA GetAddressesStep == BlocksInv /\ GetAddresses => BlocksInv'
<1> SUFFICES ASSUME BlocksInv, GetAddresses PROVE BlocksInv'
  OBVIOUS
<1> DEFINE last == Least({asked + Batch, Len(blocks)})
           batch == [i \in 1 .. last - asked |-> blocks[asked + i].index]
<1>1. /\ pc = "addresses" /\ asked' = last
      /\ pc' = IF last = Len(blocks) THEN "copy" ELSE "addresses"
      /\ UNCHANGED << request, blocks, start, next, buf >>
  BY Zenon DEF GetAddresses
<1>2. PICK n \in 0 .. Len(batch) : \E answer \in Injection(1 .. n, ToSet(batch)) :
          /\ addresses' = addresses \o answer
          /\ excused' = (excused \/ answer # batch)
  BY DEF GetAddresses
<1>3. PICK answer \in Injection(1 .. n, ToSet(batch)) :
          /\ addresses' = addresses \o answer
          /\ excused' = (excused \/ answer # batch)
  BY <1>2
<1>4. UNCHANGED << ranges, offset, size >>
  BY <1>1 DEF request
<1>5. LookedUp /\ AddressesInOrder /\ next = 1 /\ buf = << >>
  BY <1>1 DEF BlocksInv, ReadInv
<1>6. /\ blocks \in Seq([index : Nat, size : Nat \ {0}]) /\ Len(blocks) \in Nat
      /\ asked \in 0 .. Len(blocks) /\ Len(blocks) # 0
      /\ addresses \in Seq(Nat) /\ Len(addresses) \in Nat /\ Len(addresses) <= asked
  BY <1>5, Typed DEF BlocksInv, LookedUp
<1>7. last \in asked .. Len(blocks)
  <2>1. asked + Batch \in Nat
    BY <1>6
  <2>2. last = IF asked + Batch <= Len(blocks) THEN asked + Batch ELSE Len(blocks)
    BY <1>6, <2>1, LeastOfTwo
  <2> QED
    BY <1>6, <2>2
<1> HIDE DEF last
<1>8. /\ Len(batch) = last - asked /\ DOMAIN batch = 1 .. last - asked
      /\ \A i \in 1 .. last - asked : batch[i] = blocks[asked + i].index /\ batch[i] \in Nat
  <2>1. last - asked \in Nat
    BY <1>6, <1>7
  <2>2. \A i \in 1 .. last - asked : blocks[asked + i].index \in Nat
    <3>1. \A i \in 1 .. last - asked : asked + i \in 1 .. Len(blocks)
      BY <1>6, <1>7
    <3>2. \A j \in 1 .. Len(blocks) : blocks[j] \in [index : Nat, size : Nat \ {0}]
      BY <1>6, ElementOfSeq
    <3> QED
      BY <3>1, <3>2
  <2> QED
    BY <2>1, <2>2
<1> HIDE DEF batch
<1>9. answer \in Seq(Nat) /\ Len(answer) = n /\ n \in 0 .. last - asked
  <2>1. answer \in [1 .. n -> ToSet(batch)] /\ n \in 0 .. last - asked
    BY <1>2, <1>3, <1>8 DEF Injection
  <2>2. ToSet(batch) \in SUBSET Nat
    BY <1>8 DEF ToSet
  <2> QED
    BY <2>1, <2>2
<1>10. /\ addresses' \in Seq(Nat) /\ Len(addresses') = Len(addresses) + n
       /\ \A i \in 1 .. Len(addresses) + n :
            addresses'[i] = IF i <= Len(addresses) THEN addresses[i]
                            ELSE answer[i - Len(addresses)]
  BY <1>3, <1>6, <1>9, ConcatProperties
<1>11. TypeOK'
  <2>1. excused' \in BOOLEAN
    BY <1>3, Zenon
  <2>2. Len(addresses') <= asked' /\ asked' \in 0 .. Len(blocks)
    BY <1>1, <1>6, <1>7, <1>9, <1>10
  <2>3. pc' \in {"addresses", "copy"}
    BY <1>1
  <2> QED
    BY <1>1, <1>4, <1>10, <2>1, <2>2, <2>3 DEF BlocksInv, TypeOK
<1>12. AddressesInOrder'
  <2> SUFFICES ASSUME ~excused'
               PROVE  Len(addresses') = asked'
                      /\ \A i \in 1 .. asked' : addresses'[i] = blocks'[i].index
    BY Zenon DEF AddressesInOrder
  <2>1. ~excused /\ answer = batch
    BY <1>3, Zenon
  <2>2. Len(addresses) = asked /\ \A i \in 1 .. asked : addresses[i] = blocks[i].index
    BY <1>5, <2>1, Zenon DEF AddressesInOrder
  <2>3. n = last - asked /\ asked' = last /\ blocks' = blocks
    BY <1>1, <1>8, <1>9, <2>1
  <2>4. Len(addresses') = last
    BY <1>6, <1>7, <1>10, <2>2, <2>3
  <2>5. ASSUME NEW i \in 1 .. last PROVE addresses'[i] = blocks[i].index
    <3>1. addresses'[i] = IF i <= asked THEN addresses[i] ELSE answer[i - asked]
      BY <1>6, <1>7, <1>10, <2>2, <2>3
    <3>2. CASE i <= asked
      BY <1>6, <2>2, <3>1, <3>2
    <3>3. CASE ~ (i <= asked)
      <4>1. i - asked \in 1 .. last - asked /\ asked + (i - asked) = i
        BY <1>6, <1>7, <3>3
      <4> QED
        BY <1>8, <2>1, <3>1, <3>3, <4>1
    <3> QED
      BY <3>2, <3>3
  <2> QED
    BY <2>3, <2>4, <2>5
<1>13. LookedUp' /\ next' = 1 /\ buf' = << >>
  BY <1>1, <1>5, BlocksKept
<1>14. pc' = "copy" => asked' = Len(blocks') /\ next' <= Len(blocks') /\ buf' = Part(Copied)'
  <2>1. Len(blocks') = Len(blocks) /\ next' <= Len(blocks')
    BY <1>1, <1>6, <1>13
  <2>2. Part(Copied)' = << >>
    BY <1>13 DEF Copied, Part, Run
  <2> QED
    BY <1>1, <1>13, <2>1, <2>2
<1>15. Consecutive(ranges')
  BY <1>4 DEF BlocksInv, ReadInv
<1>16. pc' \in {"addresses", "copy"}
  BY <1>1
<1>17. ReadInv'
  BY <1>12, <1>13, <1>14, <1>15, <1>16 DEF ReadInv
<1> QED
  BY <1>11, <1>16, <1>17 DEF BlocksInv, ReadReturnsFile, FailsOnlyAcrossRanges

\* A block copied.
LEMMA CopyBlockStep == BlocksInv /\ CopyBlock => BlocksInv'
<1> SUFFICES ASSUME BlocksInv, CopyBlock PROVE BlocksInv'
  OBVIOUS
<1>1. /\ buf' = Part(Least({size, InBlocks(next)}))
      /\ UNCHANGED << request, blocks, start >>
      /\ pc = "copy" /\ next \in 1 .. Len(blocks)
  BY CopyAdds
<1>2. /\ next' = next + 1 /\ pc' = IF next = Len(blocks) THEN "answered" ELSE "copy"
      /\ UNCHANGED << asked, addresses, excused >>
  BY Zenon DEF CopyBlock
<1>3. UNCHANGED << ranges, offset, size >>
  BY <1>1 DEF request
<1>4. LookedUp /\ AddressesInOrder /\ asked = Len(blocks)
  BY <1>1 DEF BlocksInv, ReadInv
<1> DEFINE last == Len(blocks)
           now == InBlocks(next)
           all == InBlocks(last)
           left == SizeOf(ranges) - offset
<1>5. /\ last \in Nat /\ now \in Nat \ {0} /\ all \in Nat /\ now <= all /\ now <= left
      /\ all <= left
  <2>1. next \in Nat \ {0} /\ last \in Nat \ {0} /\ last \in 1 .. last
    BY <1>1, Typed DEF BlocksInv
  <2> QED
    BY <1>1, <1>4, <2>1, BlockFacts
<1>6. /\ Available = IF size <= left THEN size ELSE left
      /\ size \in Nat /\ offset \in Nat /\ SizeOf(ranges) \in Nat /\ Available <= all
  BY <1>4, AvailableIsRequested DEF LookedUp
<1> HIDE DEF last, now, all, left
<1>7. Least({size, now}) = IF size <= now THEN size ELSE now
  BY <1>5, <1>6, LeastOfTwo
<1> DEFINE copied == Least({size, now})
<1>8. copied \in Nat /\ copied <= size /\ copied <= left
  BY <1>5, <1>6, <1>7 DEF left
<1> HIDE DEF copied
<1>9. buf' = Run(offset, copied)
  BY <1>1 DEF Part, copied, now
<1>10. buf' \in Seq(0 .. SizeOf(ranges)) /\ Len(buf') <= size
  <2>1. \A j \in 1 .. copied : offset + j - 1 \in 0 .. SizeOf(ranges)
    BY <1>6, <1>8 DEF left
  <2> QED
    BY <1>8, <1>9, <2>1, IsASeq DEF Run
<1>11. TypeOK'
  <2>1. next' \in 1 .. Len(blocks) + 1
    BY <1>1, <1>2, <1>5 DEF last
  <2>2. pc' \in {"answered", "copy"}
    BY <1>2
  <2> QED
    BY <1>1, <1>2, <1>3, <1>10, <2>1, <2>2 DEF BlocksInv, TypeOK
<1>12. CASE next = Len(blocks)
  <2>1. pc' = "answered"
    BY <1>2, <1>12
  <2>2. copied = Available
    <3>1. now = all
      BY <1>12 DEF now, all, last
    <3> QED
      BY <1>5, <1>6, <1>7, <3>1 DEF copied, left
  <2>3. ReadReturnsFile'
    BY <1>1, <1>3, <1>9, <2>2, RequestKept DEF ReadReturnsFile, Run
  <2> QED
    BY <1>3, <1>11, <2>1, <2>3 DEF BlocksInv, ReadInv, FailsOnlyAcrossRanges
<1>13. CASE next # Len(blocks)
  <2>1. pc' = "copy" /\ next' <= Len(blocks') /\ asked' = Len(blocks')
    BY <1>1, <1>2, <1>4, <1>5, <1>13 DEF last
  <2>2. LookedUp' /\ AddressesInOrder'
    <3>1. LookedUp'
      BY <1>1, <1>4, BlocksKept
    <3>2. AddressesInOrder'
      BY <1>1, <1>2, <1>4, Zenon DEF AddressesInOrder
    <3> QED
      BY <3>1, <3>2
  <2>3. buf' = Part(Copied)'
    <3>1. next' # 1 /\ next' - 1 = next
      BY <1>1, <1>2
    <3>2. InBlocks(next - 1)' = InBlocks(next)
      BY <1>1, <3>1 DEF InBlocks, BlockSize
    <3>3. Copied' = copied
      BY <1>3, <3>1, <3>2 DEF Copied, copied, now
    <3> QED
      BY <1>3, <1>9, <3>3 DEF Part
  <2> QED
    BY <1>3, <1>11, <2>1, <2>2, <2>3
    DEF BlocksInv, ReadInv, ReadReturnsFile, FailsOnlyAcrossRanges
<1> QED
  BY <1>12, <1>13

LEMMA BlocksStep == BlocksInv /\ [Next]_vars => BlocksInv'
<1> SUFFICES ASSUME BlocksInv, [Next]_vars PROVE BlocksInv'
  OBVIOUS
<1>1. CASE RemoteFailure
  BY <1>1, FailStep DEF RemoteFailure
<1>2. CASE UNCHANGED vars
  <2>1. UNCHANGED << pc, request, blocks, start, asked, addresses, next, buf, excused >>
    BY <1>2 DEF vars
  <2>2. UNCHANGED << ranges, offset, size >>
    BY <2>1 DEF request
  <2>3. /\ TypeOK' /\ LookedUp' = LookedUp
        /\ AddressesInOrder' = AddressesInOrder /\ Part(Copied)' = Part(Copied)
        /\ InOneRange' = InOneRange /\ Available' = Available
    BY <2>1, <2>2, BlocksKept, RequestKept
    DEF BlocksInv, TypeOK, AddressesInOrder, Copied, Part
  <2> QED
    BY <2>1, <2>2, <2>3, Zenon DEF BlocksInv, ReadInv, ReadReturnsFile, FailsOnlyAcrossRanges
<1> QED
  BY <1>1, <1>2, AskStep, BeyondEndStep, LookUpStep, GetAddressesStep, CopyBlockStep,
     DecryptionStep, AddressStep
  DEF Next

LEMMA BlocksAlways == Spec => []BlocksInv
BY BlocksInit, BlocksStep, PTL DEF Spec

\* The variables have their types: what a read holds lies in the file, and it
\* writes no more than it was asked for (HccFuseReadCallback).
THEOREM TypeCorrect == Spec => []TypeOK
<1>1. BlocksInv => TypeOK
  BY DEF BlocksInv
<1> QED
  BY BlocksAlways, <1>1, PTL

\* An answered read has the bytes of the file from the offset on, as many as
\* asked for or as there are (HccFuseReadCallback, GetBlocks).
THEOREM AnswersAreTheFile == Spec => []ReadReturnsFile
<1>1. BlocksInv => ReadReturnsFile
  BY DEF BlocksInv
<1> QED
  BY BlocksAlways, <1>1, PTL

\* If the service does what it is asked, only a read across size ranges is
\* refused (GetBlocks), and what ends a read otherwise is only the decryption
\* of a block that has a whole unit (AcquireBlock, HccXorBufferWithByte).
THEOREM OneRangeIsRead == Spec => []FailsOnlyAcrossRanges
<1>1. BlocksInv => FailsOnlyAcrossRanges
  BY DEF BlocksInv
<1> QED
  BY BlocksAlways, <1>1, PTL
=============================================================================
