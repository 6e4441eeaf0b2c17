------------------------------ MODULE MCSessions -----------------------------
(* Model values for checking Sessions. *)
EXTENDS Sessions, TLC

\* Requests are alike, and so are processes.
Symmetry == Permutations(Requests) \cup Permutations(Instances)
==============================================================================
