------------------------------ MODULE MCClient ------------------------------
(* The client; a .cfg names the verifiers and the callers of the loop. *)
EXTENDS Client
=============================================================================
