------------------------------ MODULE MCHccApi ------------------------------
(* Calls of HccApi's functions, and the strings that are taken for CIDs:   *)
(* CIDs of some hashes, with up to two characters changed, or cut short.   *)
EXTENDS HccApi

CONSTANT Slips   \* the characters put in place of others

Hashes == {<< 0, 0 >>, << 90, 165 >>, << 255, 254 >>}

Positions == 1 .. StringLength

\* The sum is over the bits of character k; those behind the hash are 0.
CidOf(h) ==
  LET bytes == Header \o h \o << 0 >>
      Bit(k, j) == BitOf(bytes, 8, 5 * (k - 1) + j)
  IN << 1 >> \o [k \in 1 .. StringLength - 1 |->
                  16 * Bit(k, 1) + 8 * Bit(k, 2) + 4 * Bit(k, 3) + 2 * Bit(k, 4) + Bit(k, 5)]

Changed(t) ==
  {[[t EXCEPT ![i] = c] EXCEPT ![j] = d] : i \in Positions, j \in Positions, c \in Slips, d \in Slips}

MCTexts ==
  LET cids == {CidOf(h) : h \in Hashes}
  IN {<< >>} \cup cids \cup UNION {Changed(t) : t \in cids} \cup {Append(t, 0) : t \in cids}
=============================================================================
