----------------------------- MODULE TrackLibrary -----------------------------
(***************************************************************************)
(* What the store promises about one owner's tracks, whatever the order in *)
(* which requests, copies, tag rewrites and the cleaner reach it: a track  *)
(* is reserved, becomes ready and is removed, and at the moment of a       *)
(* reservation or of a growth there is room for it.  One step is one       *)
(* change of the owner's rows.                                             *)
(***************************************************************************)
EXTENDS Integers, FiniteSets

CONSTANTS Tracks, MaxOwnerBytes, MaxPending

VARIABLES
  status,      \* of each track the owner may ever have
  size_bytes,  \* what the track counts for in the owner's quota
  copies       \* the tracks copied from another account (source 'shared')

lib == <<status, size_bytes, copies>>

Rows    == {t \in Tracks : status[t] \in {"pending", "ready"}}
Pending == {t \in Tracks : status[t] = "pending"}

\* The sum of some tracks' sizes: what they hold, counted byte by byte.
BytesOf(some) == Cardinality(UNION {{t} \X (1..size_bytes[t]) : t \in some})
Used          == BytesOf(Rows)

Init ==
  /\ status = [t \in Tracks |-> "free"]
  /\ size_bytes \in [Tracks -> Nat \ {0}]
  /\ copies \in SUBSET Tracks

\* A copy of another account's track is held to the quota only.
Reserve(t) ==
  /\ status[t] = "free"
  /\ Used + size_bytes[t] <= MaxOwnerBytes
  /\ t \notin copies => Cardinality(Pending) < MaxPending
  /\ status' = [status EXCEPT ![t] = "pending"]
  /\ UNCHANGED <<size_bytes, copies>>

Finish(t) ==
  /\ status[t] = "pending"
  /\ status' = [status EXCEPT ![t] = "ready"]
  /\ UNCHANGED <<size_bytes, copies>>

Remove(some) ==
  /\ some \subseteq Rows
  /\ status' = [t \in Tracks |-> IF t \in some THEN "gone" ELSE status[t]]
  /\ UNCHANGED <<size_bytes, copies>>

Grow(t, size) ==
  /\ status[t] = "ready"
  /\ size > size_bytes[t] => Used - size_bytes[t] + size <= MaxOwnerBytes
  /\ size_bytes' = [size_bytes EXCEPT ![t] = size]
  /\ UNCHANGED <<status, copies>>

Next ==
  \/ \E t \in Tracks : Reserve(t) \/ Finish(t)
  \/ \E some \in SUBSET Rows : Remove(some)
  \/ \E t \in Tracks : size_bytes'[t] \in Nat \ {0} /\ Grow(t, size_bytes'[t])

Spec == Init /\ [][Next]_lib
===============================================================================
