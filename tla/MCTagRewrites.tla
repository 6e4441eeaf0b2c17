---------------------------- MODULE MCTagRewrites ----------------------------
(* Model values and symmetry for checking TagRewrites. *)
EXTENDS TagRewrites, TLC

WorkerSymmetry == Permutations(Workers)
==============================================================================
