---------------------------- MODULE TrackUploads ----------------------------
(***************************************************************************)
(* The tracks of one owner from reservation to removal.                    *)
(*                                                                         *)
(* A request reserves a pending track under the owner's limits and hands   *)
(* out a form; the client posts the file straight to storage; another      *)
(* request verifies the object and marks the track ready, or discards it   *)
(* (httpapi/tracks.go over store/tracks.go and storage/storage.go).        *)
(* Saving somebody else's track reserves and copies on the server          *)
(* (store/fingerprints.go).  A tag rewrite may change a ready track's size *)
(* (store/tagjobs.go), and a cleaner removes reservations nobody finished  *)
(* (cmd/api/main.go).  Every statement, transaction or storage call is one *)
(* step, except that transactions which hold a lock over several steps are *)
(* modelled with the lock.                                                 *)
(*                                                                         *)
(* Tracks are numbered in the order of their reservation.  A number is     *)
(* used once, as an id is a fresh UUID, and a track's key derives from its *)
(* id, so the object of a track is the track's own.                        *)
(***************************************************************************)
EXTENDS Integers, FiniteSets

CONSTANTS
  MaxTracks,      \* bound on the tracks the owner ever reserves
  Requests,       \* the owner's requests being handled at once, on any instance
  NoRequest,
  Sizes,          \* sizes a file may have
  MaxOwnerBytes,  \* the owner's quota (MAX_OWNER_BYTES)
  MaxPending,     \* unfinished uploads an owner may have (MAX_PENDING_UPLOADS)
  Batch,          \* rows one cleanup takes (PENDING_CLEANUP_BATCH)
  Faults          \* what may go wrong in a run, see below

\* "late":     a posted file lands although its upload was given up already
\* "storage":  storage fails to remove an object of a rejected upload
\* "rollback": the cleanup's transaction fails after it removed objects
\* "indoubt":  a committed statement is reported to its request as an error
AllFaults == {"late", "storage", "rollback", "indoubt"}

ASSUME RequestAssumption == NoRequest \notin Requests
ASSUME SizesAssumption   == Sizes \in SUBSET (Nat \ {0})
ASSUME LimitsAssumption  == MaxOwnerBytes \in Nat /\ MaxPending \in Nat /\ Batch \in Nat \ {0}
ASSUME TracksAssumption  == MaxTracks \in Nat \ {0}
ASSUME FaultsAssumption  == Faults \subseteq AllFaults

Tracks == 1..MaxTracks

VARIABLES
  \* The owner's rows, and those older than PENDING_UPLOAD_TTL.
  status,
  size_bytes,
  stale,
  \* The file behind each track: what the client posted last, or another
  \* account's track to be copied.
  file,
  \* Storage: the tracks whose object exists, and the forms still valid.
  stored,
  forms,
  \* Requests, and the one that holds the owner's advisory lock.
  req,
  owner_lock,
  \* The cleanup's transaction: the rows it locked, the objects still to remove.
  cleanup,
  \* The tracks the owner asked to delete, and those whose client posted other
  \* bytes after a completion had judged the earlier ones: what properties need.
  asked,
  switched

rows == <<status, size_bytes, stale>>
intent == <<asked, switched>>
vars == <<rows, file, stored, forms, req, owner_lock, cleanup, intent>>

File == {"audio", "junk", "copy"}

RequestPC == {"idle",
              "insert", "presign",                            \* reserve an upload
              "size", "head", "discardObject", "discardRow", "mark",   \* complete it
              "object", "row",                                \* delete a track
              "copyInsert", "copy", "copyMark", "copyDiscard", "copyDelete"}

\* The type of the state; the owner's lock is held from read to insert.
TypeOK ==
  /\ status \in [Tracks -> {"free", "pending", "ready", "gone"}]
  /\ size_bytes \in [Tracks -> Sizes]
  /\ stale \in SUBSET Tracks
  /\ file \in [Tracks -> File]
  /\ stored \in SUBSET Tracks
  /\ forms \in SUBSET Tracks
  /\ req \in [Requests -> [pc : RequestPC, track : Tracks]]
  /\ owner_lock \in Requests \cup {NoRequest}
  /\ \A r \in Requests : owner_lock = r <=> req[r].pc \in {"insert", "copyInsert"}
  /\ cleanup \in [locked : SUBSET Tracks, todo : SUBSET Tracks]
  /\ asked \in SUBSET Tracks
  /\ switched \in SUBSET Tracks

Idle == [pc |-> "idle", track |-> 1]
NoCleanup == [locked |-> {}, todo |-> {}]

Init ==
  /\ status = [t \in Tracks |-> "free"]
  /\ size_bytes \in [Tracks -> Sizes]
  /\ stale = {}
  /\ file \in [Tracks -> {"audio", "copy"}]
  /\ stored = {}
  /\ forms = {}
  /\ req = [r \in Requests |-> Idle]
  /\ owner_lock = NoRequest
  /\ cleanup = NoCleanup
  /\ asked = {}
  /\ switched = {}

-----------------------------------------------------------------------------
(* The owner's rows. *)

Rows    == {t \in Tracks : status[t] \in {"pending", "ready"}}
Pending == {t \in Tracks : status[t] = "pending"}

\* SUM(size_bytes): what some tracks hold, counted byte by byte.
BytesOf(some) == Cardinality(UNION {{t} \X (1..size_bytes[t]) : t \in some})
Used          == BytesOf(Rows)

\* The track the next reservation makes.
Fresh(t) == status[t] = "free" /\ \A u \in Tracks : u < t => status[u] # "free"

\* A row the cleanup's transaction holds makes every other update of it wait.
Unlocked(t) == t \notin cleanup.locked

OwnerFree == owner_lock = NoRequest

QuotaIgnoresPending(size) ==                    \* mutant: counts ready tracks only
  size <= MaxOwnerBytes - BytesOf(Rows \ Pending)

\* usedBytes > maxOwnerBytes || size > maxOwnerBytes - usedBytes refuses.
FitsQuota(size) == Used <= MaxOwnerBytes /\ size <= MaxOwnerBytes - Used

FewPending == Cardinality(Pending) < MaxPending

DeleteRow(t) == status' = [status EXCEPT ![t] = IF @ \in {"pending", "ready"} THEN "gone" ELSE @]

-----------------------------------------------------------------------------
(* Requests. *)

At(r, here) == req[r].pc = here

Goto(r, there) == req' = [req EXCEPT ![r].pc = there]

Start(r, t, there) == At(r, "idle") /\ req' = [req EXCEPT ![r] = [pc |-> there, track |-> t]]

Return(r) == req' = [req EXCEPT ![r] = Idle]

\* ReservePending takes the owner's lock and reads what the limits count; an
\* upload the limits refuse changes nothing and is no step.
ReserveRead(r, t) ==
  /\ Start(r, t, "insert")
  /\ Fresh(t)
  /\ file[t] # "copy"
  /\ OwnerFree
  /\ FewPending
  /\ FitsQuota(size_bytes[t])
  /\ owner_lock' = r
  /\ UNCHANGED <<rows, file, stored, forms, cleanup, intent>>

ReserveInsert(r) ==
  LET t == req[r].track IN
  /\ At(r, "insert")
  /\ status[t] = "free"
  /\ status' = [status EXCEPT ![t] = "pending"]
  /\ Goto(r, "presign")
  /\ owner_lock' = NoRequest
  /\ UNCHANGED <<size_bytes, stale, file, stored, forms, cleanup, intent>>

Presign(r) ==
  LET t == req[r].track IN
  /\ At(r, "presign")
  /\ \/ forms' = forms \cup {t} /\ status' = status
     \/ forms' = forms /\ DeleteRow(t)
     \/ UNCHANGED <<forms, status>>               \* neither works
  /\ Return(r)
  /\ UNCHANGED <<size_bytes, stale, file, stored, owner_lock, cleanup, intent>>

\* handleComplete reads the row; a ready track is answered as it is.
CompleteRead(r, t) ==
  /\ Start(r, t, "size")
  /\ status[t] = "pending"
  /\ file[t] # "copy"
  /\ \A q \in Requests : req[q].track = t => req[q].pc \notin {"insert", "presign"}
  /\ UNCHANGED <<rows, file, stored, forms, owner_lock, cleanup, intent>>

\* storage.Size: ErrObjectMissing and errors end the request.
CompleteSize(r) ==
  /\ At(r, "size")
  /\ \/ req[r].track \in stored /\ Goto(r, "head")
     \/ Return(r)
  /\ UNCHANGED <<rows, file, stored, forms, owner_lock, cleanup, intent>>

AnyFileMatches(t) == TRUE                       \* mutant: no check of the header

Matches(t) == file[t] # "junk"

\* storage.Head, and the check of what it returns.
CompleteHead(r) ==
  LET t == req[r].track IN
  /\ At(r, "head")
  /\ \/ t \in stored /\ Matches(t) /\ Goto(r, "mark")
     \/ t \in stored /\ ~Matches(t) /\ Goto(r, "discardObject")
     \/ Return(r)
  /\ UNCHANGED <<rows, file, stored, forms, owner_lock, cleanup, intent>>

\* A failure to remove a rejected object is logged, and the row goes anyway.
DiscardObject(r) ==
  /\ At(r, "discardObject")
  /\ \/ stored' = stored \ {req[r].track}
     \/ "storage" \in Faults /\ stored' = stored
  /\ Goto(r, "discardRow")
  /\ UNCHANGED <<rows, file, forms, owner_lock, cleanup, intent>>

DiscardRow(r) ==
  LET t == req[r].track IN
  /\ At(r, "discardRow")
  /\ \/ Unlocked(t) /\ DeleteRow(t)
     \/ status' = status
  /\ Return(r)
  /\ UNCHANGED <<size_bytes, stale, file, stored, forms, owner_lock, cleanup, intent>>

MarkReady(r) ==
  LET t == req[r].track IN
  /\ At(r, "mark")
  /\ \/ /\ Unlocked(t)
        /\ status' = [status EXCEPT ![t] = IF @ = "pending" THEN "ready" ELSE @]
     \/ status' = status
  /\ Return(r)
  /\ UNCHANGED <<size_bytes, stale, file, stored, forms, owner_lock, cleanup, intent>>

\* handleDelete: pending or ready.
DeleteRead(r, t) ==
  /\ Start(r, t, "object")
  /\ t \in Rows
  /\ \A q \in Requests \ {r} : req[q].track = t =>
       req[q].pc \notin {"insert", "presign", "copyInsert", "copy", "copyMark"}
  /\ asked' = asked \cup {t}
  /\ UNCHANGED <<rows, file, stored, forms, owner_lock, cleanup, switched>>

DeleteObjectOnceTried(r) ==                     \* mutant: goes on after a failure
  /\ At(r, "object")
  /\ stored' \in {stored \ {req[r].track}, stored}
  /\ Goto(r, "row")
  /\ UNCHANGED <<rows, file, forms, owner_lock, cleanup, intent>>

DeleteObject(r) ==
  /\ At(r, "object")
  /\ \/ stored' = stored \ {req[r].track} /\ Goto(r, "row")
     \/ stored' = stored /\ Return(r)
  /\ UNCHANGED <<rows, file, forms, owner_lock, cleanup, intent>>

DeleteTrackRow(r) ==
  LET t == req[r].track IN
  /\ At(r, "row")
  /\ \/ Unlocked(t) /\ DeleteRow(t)
     \/ status' = status
  /\ Return(r)
  /\ UNCHANGED <<size_bytes, stale, file, stored, forms, owner_lock, cleanup, intent>>

-----------------------------------------------------------------------------
(* Saving somebody else's track: SaveTrackCopy. *)

CopyRead(r, t) ==
  /\ Start(r, t, "copyInsert")
  /\ Fresh(t)
  /\ file[t] = "copy"
  /\ OwnerFree
  /\ FitsQuota(size_bytes[t])
  /\ owner_lock' = r
  /\ UNCHANGED <<rows, file, stored, forms, cleanup, intent>>

CopyInsert(r) ==
  LET t == req[r].track IN
  /\ At(r, "copyInsert")
  /\ status[t] = "free"
  /\ status' = [status EXCEPT ![t] = "pending"]
  /\ Goto(r, "copy")
  /\ owner_lock' = NoRequest
  /\ UNCHANGED <<size_bytes, stale, file, stored, forms, cleanup, intent>>

CopyObject(r) ==
  /\ At(r, "copy")
  /\ \/ stored' = stored \cup {req[r].track} /\ Goto(r, "copyMark")
     \/ stored' \in {stored, stored \cup {req[r].track}} /\ Goto(r, "copyDiscard")
  /\ UNCHANGED <<rows, file, forms, owner_lock, cleanup, intent>>

CopyMark(r) ==
  LET t      == req[r].track
      marked == [status EXCEPT ![t] = IF @ = "pending" THEN "ready" ELSE @]
  IN
  /\ At(r, "copyMark")
  /\ \/ Unlocked(t) /\ t \in Rows /\ status' = marked /\ Return(r)
     \/ status' = status /\ Goto(r, "copyDiscard")
     \/ "indoubt" \in Faults /\ Unlocked(t) /\ status' = marked /\ Goto(r, "copyDiscard")
  /\ UNCHANGED <<size_bytes, stale, file, stored, forms, owner_lock, cleanup, intent>>

CopyDiscard(r) ==
  /\ At(r, "copyDiscard")
  /\ \/ stored' = stored \ {req[r].track}
     \/ "storage" \in Faults /\ stored' = stored
  /\ Goto(r, "copyDelete")
  /\ UNCHANGED <<rows, file, forms, owner_lock, cleanup, intent>>

\* The discard deletes the row only while it is pending.
Discardable(t) == status[t] = "pending"

CopyDelete(r) ==
  LET t == req[r].track IN
  /\ At(r, "copyDelete")
  /\ \/ Unlocked(t) /\ Discardable(t) /\ DeleteRow(t)
     \/ status' = status
  /\ Return(r)
  /\ UNCHANGED <<size_bytes, stale, file, stored, forms, owner_lock, cleanup, intent>>

-----------------------------------------------------------------------------
(* The client, time, and other writers of the rows. *)

\* A completion has read what storage holds: its answer is out or on its way.
Judged(t) ==
  \/ status[t] = "ready"
  \/ \E r \in Requests :
       req[r].track = t /\ req[r].pc \in {"mark", "discardObject", "discardRow"}

\* The form names a key, a type and a size, not the bytes: while it is valid the
\* client may post again, another file too.  The client of this repository waits
\* for the answer before it completes or deletes the track; a "late" file lands
\* regardless.
ClientPut(t, bytes) ==
  /\ t \in forms
  /\ file[t] # "copy"
  /\ \/ "late" \in Faults
     \/ /\ status[t] = "pending"
        /\ t \notin asked
        /\ \A r \in Requests : req[r].pc # "idle" => req[r].track # t
  /\ stored' = stored \cup {t}
  /\ file' = [file EXCEPT ![t] = bytes]
  /\ switched' = IF Judged(t) /\ bytes # file[t] THEN switched \cup {t} ELSE switched
  /\ UNCHANGED <<rows, forms, req, owner_lock, cleanup, asked>>

FormExpires(t) ==
  /\ t \in forms
  /\ forms' = forms \ {t}
  /\ UNCHANGED <<rows, file, stored, req, owner_lock, cleanup, intent>>

\* PENDING_UPLOAD_TTL (2h) is longer than a form is valid (1h) and than the
\* request that reserves a track or copies one.
GrowStale(t) ==
  /\ status[t] = "pending"
  /\ t \notin stale \cup forms
  /\ \A r \in Requests : req[r].track = t =>
       req[r].pc \notin {"presign", "copy", "copyMark", "copyDiscard", "copyDelete"}
  /\ stale' = stale \cup {t}
  /\ UNCHANGED <<status, size_bytes, file, stored, forms, req, owner_lock, cleanup, intent>>

\* A completed tag rewrite changes the size of a ready track, within the quota.
Resize(t, size) ==
  /\ status[t] = "ready"
  /\ size # size_bytes[t]
  /\ Unlocked(t)
  /\ OwnerFree
  /\ size > size_bytes[t] => Used - size_bytes[t] + size <= MaxOwnerBytes
  /\ size_bytes' = [size_bytes EXCEPT ![t] = size]
  /\ UNCHANGED <<status, stale, file, stored, forms, req, owner_lock, cleanup, intent>>

\* The process dies, or its client disconnects and every later call fails.
Abort(r) ==
  /\ req[r].pc # "idle"
  /\ Return(r)
  /\ owner_lock' = IF owner_lock = r THEN NoRequest ELSE owner_lock
  /\ UNCHANGED <<rows, file, stored, forms, cleanup, intent>>

-----------------------------------------------------------------------------
(* CleanupStalePending: one transaction at a time over all instances. *)

AbandonedWithObject == Pending \cap stale \cap stored   \* mutant: if a file came

Abandoned == Pending \cap stale

CleanupSelect ==
  LET oldest == {t \in Abandoned : Cardinality({u \in Abandoned : u < t}) < Batch} IN
  /\ cleanup = NoCleanup
  /\ oldest # {}
  /\ cleanup' = [locked |-> oldest, todo |-> oldest]
  /\ UNCHANGED <<rows, file, stored, forms, req, owner_lock, intent>>

\* The oldest first.  The object goes at once, its row with the commit.
CleanupRemove(t) ==
  /\ t \in cleanup.todo
  /\ \A u \in cleanup.todo : t <= u
  /\ stored' = stored \ {t}
  /\ cleanup' = [cleanup EXCEPT !.todo = @ \ {t}]
  /\ UNCHANGED <<rows, file, forms, req, owner_lock, intent>>

CleanupCommit ==
  /\ cleanup.locked # {} /\ cleanup.todo = {}
  /\ status' = [t \in Tracks |-> IF t \in cleanup.locked THEN "gone" ELSE status[t]]
  /\ cleanup' = NoCleanup
  /\ UNCHANGED <<size_bytes, stale, file, stored, forms, req, owner_lock, intent>>

\* Storage or the database fails, or the process dies, before the commit.
CleanupRollback ==
  /\ cleanup.locked # {}
  /\ cleanup.todo = cleanup.locked \/ "rollback" \in Faults
  /\ cleanup' = NoCleanup
  /\ UNCHANGED <<rows, file, stored, forms, req, owner_lock, intent>>

-----------------------------------------------------------------------------
Begin(r) == \E t \in Tracks :
              \/ ReserveRead(r, t)
              \/ CompleteRead(r, t)
              \/ DeleteRead(r, t)
              \/ CopyRead(r, t)

Continue(r) ==
  \/ ReserveInsert(r)
  \/ Presign(r)
  \/ CompleteSize(r)
  \/ CompleteHead(r)
  \/ DiscardObject(r)
  \/ DiscardRow(r)
  \/ MarkReady(r)
  \/ DeleteObject(r)
  \/ DeleteTrackRow(r)
  \/ CopyInsert(r)
  \/ CopyObject(r)
  \/ CopyMark(r)
  \/ CopyDiscard(r)
  \/ CopyDelete(r)

Cleanup ==
  \/ CleanupSelect
  \/ \E t \in Tracks : CleanupRemove(t)
  \/ CleanupCommit
  \/ CleanupRollback

Next ==
  \/ \E r \in Requests : Begin(r) \/ Continue(r) \/ Abort(r)
  \/ \E t \in Tracks, bytes \in {"audio", "junk"} : ClientPut(t, bytes)
  \/ \E t \in Tracks : FormExpires(t) \/ GrowStale(t)
  \/ \E t \in Tracks, size \in Sizes : Resize(t, size)
  \/ Cleanup

Spec == Init /\ [][Next]_vars

\* Handlers run to their end, time passes, the cleaner's ticker fires for
\* ever, and storage and the database do not fail for ever.
Fairness ==
  /\ \A r \in Requests : WF_vars(Continue(r))
  /\ \A t \in Tracks : WF_vars(FormExpires(t)) /\ WF_vars(GrowStale(t))
  /\ WF_vars(CleanupSelect)
  /\ \A t \in Tracks : SF_vars(CleanupRemove(t))
  /\ SF_vars(CleanupCommit)

FairSpec == Spec /\ Fairness

-----------------------------------------------------------------------------
(* Properties. *)

\* Concurrent reservations cannot exceed the number of unfinished uploads;
\* copies on the server are counted, but not held to it.
PendingBounded == Cardinality({t \in Pending : file[t] # "copy"}) <= MaxPending

\* What the owner's rows count for never exceeds the quota, however reservations,
\* copies and resizing rewrites overlap.
QuotaKept == Used <= MaxOwnerBytes

\* A ready track's object is there and is the audio it claims to be, unless the
\* owner asked for its deletion, or posted another file after a completion had
\* judged the first: completing, discarding, copying and cleaning up never leave
\* a ready track without its file, and a wrong file that is replaced in time
\* does no harm.
PlayableUntilDeleted ==
  \A t \in Tracks : status[t] = "ready" /\ t \notin asked \cup switched =>
    t \in stored /\ file[t] # "junk"

\* Once the row is gone its object is: nothing else would ever remove it.
NothingLeaks == \A t \in Tracks : status[t] = "gone" => t \notin stored

\* A ready track goes only because its owner deletes it: neither the cleaner nor
\* a discard that races with its completion takes it away, short of a file that
\* was exchanged after a completion had judged it.
ReadyOnlyDeletedByOwner ==
  [][\A t \in Tracks : status[t] = "ready" /\ status'[t] # "ready" =>
       t \in asked \cup switched]_vars

\* A reservation does not count against the limits for ever: the upload is
\* finished, or its row is removed.
PendingSettles == \A t \in Tracks : status[t] = "pending" ~> status[t] # "pending"

\* Every step changes the owner's rows the way TrackLibrary promises: the
\* limits a request read under the lock still hold when it inserts its row.
Library == INSTANCE TrackLibrary WITH
  copies <- {t \in Tracks : file[t] = "copy"}

ImplementsLibrary == Library!Spec

\* What the code does not keep (see README).  handleComplete's comment: "an object
\* that is not the declared audio file is deleted with its track"; one that is
\* stays, whatever an earlier completion read.
DeclaredAudioStays ==
  \A t \in Tracks : status[t] = "ready" /\ t \notin asked /\ file[t] # "junk" => t \in stored

\* Nor this.  CleanupStalePending's comment: if it rolls back, "a later run retries the
\* same row", so a row whose object it removed is not marked ready meanwhile.
RolledBackIsRetried ==
  [][\A t \in Tracks : status[t] = "pending" /\ t \in stale \ (stored \cup asked) =>
       status'[t] # "ready"]_vars
=============================================================================
