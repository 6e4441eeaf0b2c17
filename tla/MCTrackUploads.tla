---------------------------- MODULE MCTrackUploads ----------------------------
(* Model values and symmetry for checking TrackUploads. *)
EXTENDS TrackUploads, TLC

RequestSymmetry == Permutations(Requests)
===============================================================================
