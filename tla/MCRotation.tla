------------------------------ MODULE MCRotation ------------------------------
(* Model-checking instances of CredentialRotation. *)
EXTENDS CredentialRotation

CONSTANTS g1, g2
===============================================================================
