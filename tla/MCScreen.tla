------------------------------- MODULE MCScreen -------------------------------
(* Model-checking instances of ScreenCache. *)
EXTENDS ScreenCache

CONSTANTS narrow, wide
===============================================================================
