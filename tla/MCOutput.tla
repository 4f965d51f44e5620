------------------------------- MODULE MCOutput -------------------------------
(* Model-checking instances of OutputStream. *)
EXTENDS OutputStream

CONSTANTS v1, v2
===============================================================================
