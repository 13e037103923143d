-------------------------- MODULE MCCommandPairing --------------------------
(* Model-checking instances of CommandPairing. *)
EXTENDS CommandPairing
=============================================================================
