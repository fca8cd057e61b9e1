---------------------------- MODULE MCFileBlocks ----------------------------
(* Files of up to MaxRanges size ranges.                                       *)
EXTENDS FileBlocks

CONSTANTS MaxRanges, MaxCount, MaxBlockSize   \* bounds

MCLayouts ==
  UNION {[1 .. n -> [count : 1 .. MaxCount, size : 1 .. MaxBlockSize]] : n \in 1 .. MaxRanges}
=============================================================================
