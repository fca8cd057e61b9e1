--------------------------- MODULE MCTokenSession ---------------------------
(* Instances of the token session; a .cfg names its threads. *)
EXTENDS TokenSession
=============================================================================
