---------------------------- MODULE MCAccountPurge ---------------------------
(* Model values for checking AccountPurge. *)
EXTENDS AccountPurge, TLC
==============================================================================
