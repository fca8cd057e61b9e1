---------------------------- MODULE MCPlayground ----------------------------
(* Reads of a block with a CID and one without, beside a process that asks *)
(* for the former.                                                         *)
EXTENDS Playground

CONSTANTS cid, bos

MCReads == {<< cid, bos >>}
=============================================================================
