---------------------------- MODULE MCLiveSession ----------------------------
(* Two sessions of one page, and one kind of trouble in every behaviour.     *)
EXTENDS LiveSession
=============================================================================
