---------------------------- MODULE MetadataSync ----------------------------
(***************************************************************************)
(* What editing a track's metadata promises, with no queue, worker, lease  *)
(* or garbage: the saved version goes up at every edit, and the file       *)
(* follows it in one step or keeps the tags it had (docs of tag_status in  *)
(* store/tagjobs.go and of handleDownload in httpapi/tracks.go).           *)
(***************************************************************************)
EXTENDS Integers

CONSTANT MaxVersion     \* bound on the versions a run explores

VARIABLES
  exists,       \* the owner still has the track
  version,      \* of the saved metadata
  status,       \* how the file relates to it
  file          \* the version whose tags the track's file carries, 0 if its own

vars == <<exists, version, status, file>>

Init ==
  /\ exists = TRUE
  /\ version = 1
  /\ status = "original"
  /\ file = 0

Edit ==
  /\ exists
  /\ version < MaxVersion
  /\ version' = version + 1
  /\ status' = "pending"
  /\ UNCHANGED <<exists, file>>

\* The file carries the saved version from here on.
Publish ==
  /\ exists
  /\ status = "pending"
  /\ status' = "written"
  /\ file' = version
  /\ UNCHANGED <<exists, version>>

GiveUp ==
  /\ exists
  /\ status = "pending"
  /\ status' \in {"failed", "unsupported"}
  /\ UNCHANGED <<exists, version, file>>

Delete ==
  /\ exists
  /\ exists' = FALSE
  /\ UNCHANGED <<version, status, file>>

Next == Edit \/ Publish \/ GiveUp \/ Delete

Spec == Init /\ [][Next]_vars

\* A pending edit does not stay pending.
PendingSettles == (exists /\ status = "pending") ~> ~(exists /\ status = "pending")
==============================================================================
