----------------------------- MODULE MCPlayQueue -----------------------------
(* Model values for checking PlayQueue. *)
EXTENDS PlayQueue, TLC
==============================================================================
