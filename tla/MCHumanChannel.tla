--------------------------- MODULE MCHumanChannel ---------------------------
(* Model-checking instance of HumanChannel. *)
EXTENDS HumanChannel
=============================================================================
