--------------------------- MODULE MCLiveCapture ----------------------------
(* Model-checking instances of LiveCapture. *)
EXTENDS LiveCapture, TLC

\* Captures, workers and paths are only compared for equality.
Symmetry ==
  Permutations(Workers) \cup Permutations(Captures) \cup Permutations(Paths)
=============================================================================
