---------------------------- MODULE MCUrbPairing ----------------------------
(* Model-checking instance of UrbPairing. *)
EXTENDS UrbPairing, TLC

\* Transfers and URB ids are only compared for equality.
Symmetry == Permutations(Transfers) \cup Permutations(Urbs)
=============================================================================
