------------------------- MODULE MCCredentialDialog -------------------------
(* Instances of the login dialog; a .cfg names the verifiers. *)
EXTENDS CredentialDialog
=============================================================================
