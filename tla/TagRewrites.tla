----------------------------- MODULE TagRewrites -----------------------------
(***************************************************************************)
(* The tag rewrite queue of the API server, for one ready track.           *)
(*                                                                         *)
(* After a metadata edit a background worker leases the track, rewrites    *)
(* the tags of its stored file into a new object and swaps that object in  *)
(* (tagwriter/tagwriter.go over store/tagjobs.go).  The edit and the       *)
(* deletion come from httpapi/tracks.go; objects a rewrite leaves behind   *)
(* wait in storage_garbage for the collector.  Every database statement or *)
(* transaction and every object storage call is one step, so the calls of  *)
(* a worker, of the delete handler and of the collector interleave.        *)
(*                                                                         *)
(* The track's format has a tag writer (tags.Supported); one without never *)
(* enters the queue.  An edit against an outdated version changes nothing  *)
(* and is no step.                                                         *)
(***************************************************************************)
EXTENDS Integers

CONSTANTS
  Workers,        \* rewrite workers of all API instances (TAG_REWRITE_WORKERS)
  NoWorker,       \* no lease: tag_claimed_until is NULL or in the past
  MaxVersion,     \* bound on metadata_version: the edits a run explores
  MaxAttempts,    \* rewrite attempts one edit is given
  Overrun,        \* may a lease run out while its worker still works?
  InDoubt         \* may a committed swap be reported to the worker as an error?

ASSUME NoWorkerAssumption == NoWorker \notin Workers
ASSUME BoundsAssumption == MaxVersion \in Nat \ {0} /\ MaxAttempts \in Nat \ {0}
ASSUME FaultsAssumption == Overrun \in BOOLEAN /\ InDoubt \in BOOLEAN

\* Object keys.  A rewrite's key names the version and attempt it was made for.
OriginalKey == <<0, 0>>
NoKey       == <<-1, -1>>
Key         == {OriginalKey} \cup ((1..MaxVersion) \X (1..MaxAttempts))

Missing     == -1                    \* no object is stored under the key
Content     == -1..MaxVersion        \* else: the version its tags describe

TagStatus   == {"original", "pending", "written", "failed", "unsupported"}
Failure     == {"none", "retry", "final", "unsupported"}

VARIABLES
  \* The track's row.
  present,              \* the row exists
  metadata_version,
  tag_status,
  tag_version,          \* 0 is NULL
  tag_attempts,
  tag_not_before,       \* the time a retry has to wait for is still ahead
  tag_claimed_until,    \* the worker whose lease this is, or NoWorker
  storage_key,
  pending_storage_key,
  \* storage_garbage: "no" entry, inside its "grace" period, or "due".
  garbage,
  \* Object storage, and the presigned URLs players hold.
  objects,
  streams,
  \* Workers: where each one is, and the job it claimed.
  pc,
  job,
  \* The collector's transaction: rows it locked, objects it still removes.
  gc,
  \* The delete handler, and whether the owner ever asked for the deletion.
  del,
  asked

row     == <<present, metadata_version, tag_status, tag_version, tag_attempts,
             tag_not_before, tag_claimed_until, storage_key, pending_storage_key>>
store   == <<row, garbage>>
storage == <<objects, streams>>
others  == <<gc, del, asked>>
vars    == <<store, storage, pc, job, others>>

Job == [version : 1..MaxVersion, attempts : 1..MaxAttempts, source : Key,
        failure : Failure, uploaded : BOOLEAN]

WorkerPC == {"idle", "process", "record", "put", "stat", "complete", "release", "fail"}
DeletePC == {"idle", "object", "pending", "row"}

NoDelete == [pc |-> "idle", storage |-> OriginalKey, pending |-> NoKey]
NoJob == [version |-> 1, attempts |-> 1, source |-> OriginalKey,
          failure |-> "none", uploaded |-> FALSE]

TypeOK ==
  /\ present \in BOOLEAN
  /\ metadata_version \in 1..MaxVersion
  /\ tag_status \in TagStatus
  /\ tag_version \in 0..MaxVersion
  /\ tag_attempts \in 0..MaxAttempts
  /\ tag_not_before \in BOOLEAN
  /\ tag_claimed_until \in Workers \cup {NoWorker}
  /\ storage_key \in Key
  /\ pending_storage_key \in Key \cup {NoKey}
  /\ garbage \in [Key -> {"no", "grace", "due"}]
  /\ objects \in [Key -> Content]
  /\ streams \in SUBSET Key
  /\ pc \in [Workers -> WorkerPC]
  /\ job \in [Workers -> Job]
  /\ gc \in [locked : SUBSET Key, doomed : SUBSET Key]
  /\ del \in [pc : DeletePC, storage : Key, pending : Key \cup {NoKey}]
  /\ asked \in BOOLEAN

Init ==
  /\ present = TRUE
  /\ metadata_version = 1
  /\ tag_status = "original"
  /\ tag_version = 0
  /\ tag_attempts = 0
  /\ tag_not_before = FALSE
  /\ tag_claimed_until = NoWorker
  /\ storage_key = OriginalKey
  /\ pending_storage_key = NoKey
  /\ garbage = [k \in Key |-> "no"]
  /\ objects = [k \in Key |-> IF k = OriginalKey THEN 0 ELSE Missing]
  /\ streams = {}
  /\ pc = [w \in Workers |-> "idle"]
  /\ job = [w \in Workers |-> NoJob]
  /\ gc = [locked |-> {}, doomed |-> {}]
  /\ del = NoDelete
  /\ asked = FALSE

-----------------------------------------------------------------------------
(* The owner's edit. *)

Edit ==
  /\ present
  /\ metadata_version < MaxVersion
  /\ metadata_version' = metadata_version + 1
  /\ tag_status' = "pending"
  /\ tag_attempts' = 0
  /\ tag_not_before' = FALSE
  /\ UNCHANGED <<present, tag_version, tag_claimed_until, storage_key,
                 pending_storage_key, garbage, storage, pc, job, others>>

-----------------------------------------------------------------------------
(* The queue of objects to delete. *)

QueuedAtOnce(key, delay) == [garbage EXCEPT ![key] = "due"]    \* mutant: ignores delay

\* What queueGarbage leaves in the table: the earlier of two deadlines wins.
Queued(key, delay) ==
  [garbage EXCEPT ![key] = IF @ = "due" THEN "due" ELSE delay]

\* The upsert waits for a collector that holds the key's row.
Unlocked(key) == key \notin gc.locked

-----------------------------------------------------------------------------
(* The workers. *)

RevisionKeyPerEdit(j) == <<j.version, 1>>                     \* mutant: no attempt

RevisionKey(j) == <<j.version, j.attempts>>

Goto(w, here, there) == pc[w] = here /\ pc' = [pc EXCEPT ![w] = there]

\* RunOnce returns: the claimed track and the outcome were its locals.
Done(w) == pc' = [pc EXCEPT ![w] = "idle"] /\ job' = [job EXCEPT ![w] = NoJob]

NeverAbandoned == FALSE                       \* mutant: forgets a crashed upload

Abandoned == pending_storage_key # NoKey

\* The transaction of ClaimTagRewrite, up to whether an attempt is left.
Claimable ==
  /\ present
  /\ tag_status = "pending"
  /\ tag_claimed_until = NoWorker
  /\ ~tag_not_before
  /\ Abandoned => Unlocked(pending_storage_key)
  /\ garbage' = IF Abandoned THEN Queued(pending_storage_key, "due") ELSE garbage
  /\ pending_storage_key' = NoKey

AttemptsLeft == tag_attempts < MaxAttempts

NextAttempt == tag_attempts + 1

Claim(w) ==
  /\ Goto(w, "idle", "process")
  /\ Claimable
  /\ AttemptsLeft
  /\ tag_attempts' = NextAttempt
  /\ tag_claimed_until' = w
  /\ job' = [job EXCEPT ![w] = [version |-> metadata_version, attempts |-> NextAttempt,
                                source |-> storage_key, failure |-> "none",
                                uploaded |-> FALSE]]
  /\ UNCHANGED <<present, metadata_version, tag_status, tag_version, tag_not_before,
                 storage_key, storage, others>>

ClaimExhausted(w) ==
  /\ pc[w] = "idle"
  /\ Claimable
  /\ ~AttemptsLeft
  /\ tag_status' = "failed"
  /\ tag_claimed_until' = NoWorker
  /\ UNCHANGED <<present, metadata_version, tag_version, tag_attempts, tag_not_before,
                 storage_key, storage, pc, job, others>>

\* Download, rewrite and verify all succeeded.
Rewrite(w) ==
  /\ Goto(w, "process", "record")
  /\ objects[job[w].source] # Missing
  /\ UNCHANGED <<store, storage, job, others>>

\* The attempt ends with a failure; uploaded says whether it names its key.
Give(w, failure, uploaded) ==
  /\ pc' = [pc EXCEPT ![w] = "fail"]
  /\ job' = [job EXCEPT ![w].failure = failure, ![w].uploaded = uploaded]

\* A failed download or rewrite is retried; an unreadable file or a failed
\* verification is final; a layout without a tag writer is unsupported.
ProcessFails(w) ==
  /\ pc[w] = "process"
  /\ \E failure \in {"retry", "final", "unsupported"} : Give(w, failure, FALSE)
  /\ UNCHANGED <<store, storage, others>>

\* The row RecordPendingObject and FailTagRewrite update.
Wanted(j) == present /\ metadata_version = j.version /\ tag_status = "pending"

RecordPendingObject(w) ==
  /\ pc[w] = "record"
  /\ \/ /\ Wanted(job[w])
        /\ pending_storage_key' = RevisionKey(job[w])
        /\ pc' = [pc EXCEPT ![w] = "put"]
        /\ job' = job
     \/ /\ ~Wanted(job[w])
        /\ pc' = [pc EXCEPT ![w] = "release"]
        /\ UNCHANGED <<job, pending_storage_key>>
     \/ Give(w, "retry", FALSE) /\ UNCHANGED pending_storage_key
  /\ UNCHANGED <<present, metadata_version, tag_status, tag_version, tag_attempts,
                 tag_not_before, tag_claimed_until, storage_key, garbage, storage, others>>

\* The upload is stored, or its error is reported with or without the object.
Put(w) ==
  /\ pc[w] = "put"
  /\ \/ /\ objects' = [objects EXCEPT ![RevisionKey(job[w])] = job[w].version]
        /\ \/ pc' = [pc EXCEPT ![w] = "stat"] /\ job' = job
           \/ Give(w, "retry", TRUE)
     \/ objects' = objects /\ Give(w, "retry", TRUE)
  /\ UNCHANGED <<store, streams, others>>

Stat(w) ==
  /\ pc[w] = "stat"
  /\ \/ /\ objects[RevisionKey(job[w])] # Missing
        /\ pc' = [pc EXCEPT ![w] = "complete"]
        /\ job' = job
     \/ Give(w, "retry", TRUE)
  /\ UNCHANGED <<store, storage, others>>

CurrentAnyVersion(j) == storage_key = j.source /\ tag_status = "pending"  \* mutant
CurrentAnyStatus(j)  ==                                                   \* mutant
  metadata_version = j.version /\ storage_key = j.source

\* Is the row CompleteTagRewrite locks still the one the job was claimed on?
Current(j) ==
  /\ metadata_version = j.version
  /\ storage_key = j.source
  /\ tag_status = "pending"

\* The four outcomes of CompleteTagRewrite's transaction.
CompleteDeleted(w) ==
  LET new == RevisionKey(job[w]) IN
  /\ Goto(w, "complete", "release")
  /\ ~present
  /\ Unlocked(new)
  /\ garbage' = Queued(new, "due")
  /\ UNCHANGED <<row, storage, job, others>>

CompleteSuperseded(w) ==
  LET new  == RevisionKey(job[w])
      mine == pending_storage_key = new
  IN
  /\ Goto(w, "complete", "release")
  /\ present
  /\ ~Current(job[w])
  /\ Unlocked(new)
  /\ garbage' = Queued(new, "due")
  /\ pending_storage_key' = IF mine THEN NoKey ELSE pending_storage_key
  /\ tag_claimed_until' = IF mine THEN NoWorker ELSE tag_claimed_until
  /\ UNCHANGED <<present, metadata_version, tag_status, tag_version, tag_attempts,
                 tag_not_before, storage_key, storage, job, others>>

CompleteOverQuota(w) ==
  LET new == RevisionKey(job[w]) IN
  /\ pc[w] = "complete" /\ Done(w)
  /\ present
  /\ Current(job[w])
  /\ Unlocked(new)
  /\ garbage' = Queued(new, "due")
  /\ tag_status' = "failed"
  /\ pending_storage_key' = NoKey
  /\ tag_claimed_until' = NoWorker
  /\ UNCHANGED <<present, metadata_version, tag_version, tag_attempts, tag_not_before,
                 storage_key, storage, others>>

Swap(w) ==
  LET new == RevisionKey(job[w]) IN
  /\ present
  /\ Current(job[w])
  /\ Unlocked(storage_key)
  /\ garbage' = Queued(storage_key, "grace")
  /\ storage_key' = new
  /\ tag_status' = "written"
  /\ tag_version' = metadata_version
  /\ pending_storage_key' = NoKey
  /\ tag_claimed_until' = NoWorker
  /\ tag_not_before' = FALSE
  /\ UNCHANGED <<present, metadata_version, tag_attempts, storage, others>>

CompleteSwap(w) == pc[w] = "complete" /\ Done(w) /\ Swap(w)

\* "swap_failed": the commit's outcome is unknown to the worker.
CompleteError(w) ==
  /\ pc[w] = "complete"
  /\ \/ UNCHANGED <<store, storage, others>>
     \/ InDoubt /\ Swap(w)
  /\ Give(w, "retry", TRUE)

ReleaseTagRewrite(w) ==
  /\ pc[w] = "release" /\ Done(w)
  /\ tag_claimed_until' = IF present THEN NoWorker ELSE tag_claimed_until
  /\ UNCHANGED <<present, metadata_version, tag_status, tag_version, tag_attempts,
                 tag_not_before, storage_key, pending_storage_key, garbage, storage,
                 others>>

\* What RunOnce makes of a failure: a retry needs an attempt to be left.
Verdict(j) ==
  CASE j.failure = "unsupported" -> "unsupported"
    [] j.failure = "retry" /\ j.attempts < MaxAttempts -> "pending"
    [] OTHER -> "failed"

FailTagRewrite(w) ==
  LET j == job[w] IN
  /\ pc[w] = "fail" /\ Done(w)
  /\ IF j.uploaded
       THEN Unlocked(RevisionKey(j)) /\ garbage' = Queued(RevisionKey(j), "due")
       ELSE garbage' = garbage
  /\ IF Wanted(j)
       THEN /\ tag_status' = Verdict(j)
            /\ pending_storage_key' = NoKey
            /\ tag_claimed_until' = NoWorker
            /\ tag_not_before' = (Verdict(j) = "pending")
       ELSE UNCHANGED <<tag_status, pending_storage_key, tag_claimed_until, tag_not_before>>
  /\ UNCHANGED <<present, metadata_version, tag_version, tag_attempts, storage_key,
                 storage, others>>

\* The process dies, or the transaction that records the outcome fails.
Crash(w) ==
  /\ pc[w] # "idle" /\ Done(w)
  /\ UNCHANGED <<store, storage, others>>

WorkerStep(w) ==
  \/ Claim(w) \/ ClaimExhausted(w)
  \/ Rewrite(w) \/ ProcessFails(w)
  \/ RecordPendingObject(w) \/ Put(w) \/ Stat(w)
  \/ CompleteDeleted(w) \/ CompleteSuperseded(w) \/ CompleteOverQuota(w)
  \/ CompleteSwap(w) \/ CompleteError(w)
  \/ ReleaseTagRewrite(w) \/ FailTagRewrite(w)

-----------------------------------------------------------------------------
(* Time: leases, retry delays and grace periods end, presigned URLs expire. *)

LeaseIsForever(w) == FALSE              \* mutant: a set tag_claimed_until is never past

\* A job is cut off at nine tenths of its lease, but the transaction that
\* records its outcome is not: only Overrun lets a lease end before it.
LeaseExpires(w) ==
  /\ tag_claimed_until = w
  /\ Overrun \/ pc[w] = "idle"
  /\ tag_claimed_until' = NoWorker
  /\ UNCHANGED <<present, metadata_version, tag_status, tag_version, tag_attempts,
                 tag_not_before, storage_key, pending_storage_key, garbage, storage,
                 pc, job, others>>

RetryDue ==
  /\ tag_not_before
  /\ tag_not_before' = FALSE
  /\ UNCHANGED <<present, metadata_version, tag_status, tag_version, tag_attempts,
                 tag_claimed_until, storage_key, pending_storage_key, garbage, storage,
                 pc, job, others>>

\* The grace period is a minute longer than a presigned URL is valid, and a
\* replaced key gets no new URL.
GraceOver(k) ==
  /\ garbage[k] = "grace"
  /\ k \notin streams
  /\ garbage' = [garbage EXCEPT ![k] = "due"]
  /\ UNCHANGED <<row, storage, pc, job, others>>

Stream ==
  /\ present
  /\ storage_key \notin streams
  /\ streams' = streams \cup {storage_key}
  /\ UNCHANGED <<store, objects, pc, job, others>>

StreamExpires(k) ==
  /\ k \in streams
  /\ streams' = streams \ {k}
  /\ UNCHANGED <<store, objects, pc, job, others>>

-----------------------------------------------------------------------------
(* The garbage collector: one transaction, whose object removals show at once. *)

InUseAsStored(k) == present /\ k = storage_key    \* mutant: forgets the pending key

InUse(k) == present /\ k \in {storage_key, pending_storage_key}

CollectSelect ==
  LET due == {k \in Key : garbage[k] = "due"} IN
  /\ gc.locked = {}
  /\ due # {}
  /\ gc' = [locked |-> due, doomed |-> {k \in due : ~InUse(k)}]
  /\ UNCHANGED <<store, storage, pc, job, del, asked>>

CollectRemove(k) ==
  /\ k \in gc.doomed
  /\ objects' = [objects EXCEPT ![k] = Missing]
  /\ gc' = [gc EXCEPT !.doomed = @ \ {k}]
  /\ UNCHANGED <<store, streams, pc, job, del, asked>>

CollectCommit ==
  /\ gc.locked # {}
  /\ gc.doomed = {}
  /\ garbage' = [k \in Key |-> IF k \in gc.locked THEN "no" ELSE garbage[k]]
  /\ gc' = [gc EXCEPT !.locked = {}]
  /\ UNCHANGED <<row, storage, pc, job, del, asked>>

\* An error or a crash rolls the rows back; removed objects stay removed.
CollectAbort ==
  /\ gc.locked # {}
  /\ gc' = [locked |-> {}, doomed |-> {}]
  /\ UNCHANGED <<store, storage, pc, job, del, asked>>

-----------------------------------------------------------------------------
(* The delete handler. *)

DeleteRead ==
  /\ del.pc = "idle"
  /\ present
  /\ del' = [pc |-> "object", storage |-> storage_key, pending |-> pending_storage_key]
  /\ asked' = TRUE
  /\ UNCHANGED <<store, storage, pc, job, gc>>

DeleteObject ==
  /\ del.pc = "object"
  /\ objects' = [objects EXCEPT ![del.storage] = Missing]
  /\ del' = [del EXCEPT !.pc = IF del.pending = NoKey THEN "row" ELSE "pending"]
  /\ UNCHANGED <<store, streams, pc, job, gc, asked>>

DeletePending ==
  /\ del.pc = "pending"
  /\ objects' = [objects EXCEPT ![del.pending] = Missing]
  /\ del' = [del EXCEPT !.pc = "row"]
  /\ UNCHANGED <<store, streams, pc, job, gc, asked>>

DeleteRow ==
  /\ del.pc = "row"
  /\ present' = FALSE
  /\ del' = NoDelete
  /\ UNCHANGED <<metadata_version, tag_status, tag_version, tag_attempts, tag_not_before,
                 tag_claimed_until, storage_key, pending_storage_key, garbage, storage,
                 pc, job, gc, asked>>

\* A storage or database error, or a crash, ends the request where it stands.
DeleteFails ==
  /\ del.pc # "idle"
  /\ del' = NoDelete
  /\ UNCHANGED <<store, storage, pc, job, gc, asked>>

-----------------------------------------------------------------------------
DeleteStep  == DeleteRead \/ DeleteObject \/ DeletePending \/ DeleteRow \/ DeleteFails
CollectStep == CollectSelect \/ (\E k \in Key : CollectRemove(k)) \/ CollectCommit
TimeStep    ==
  \/ RetryDue
  \/ \E w \in Workers : LeaseExpires(w)
  \/ \E k \in Key : GraceOver(k) \/ StreamExpires(k)

Next ==
  \/ Edit
  \/ Stream
  \/ \E w \in Workers : WorkerStep(w) \/ Crash(w)
  \/ TimeStep
  \/ CollectStep \/ CollectAbort
  \/ DeleteStep

\* Workers poll the queue, leases and delays end, and the collector runs on a ticker;
\* it succeeds in the end, because storage and database errors do not last.
Fairness ==
  /\ \A w \in Workers : WF_vars(WorkerStep(w)) /\ WF_vars(LeaseExpires(w))
  /\ WF_vars(RetryDue)
  /\ WF_vars(CollectStep)
  /\ <>[][~CollectAbort]_vars

Spec     == Init /\ [][Next]_vars
FairSpec == Spec /\ Fairness

-----------------------------------------------------------------------------
(* Safety. *)

\* "written: the object's tags match metadata version tag_version" (migration
\* 014), and that version is the saved one.  An object that was removed has no
\* tags to be wrong; that it is not removed is PlayableUntilDeleted.
WrittenMatchesMetadata ==
  present /\ tag_status = "written" =>
    /\ tag_version = metadata_version
    /\ objects[storage_key] \in {metadata_version, Missing}

\* Until the owner asks for the deletion, the object the row names exists:
\* a rewrite, its failures and the collector never lose the audio.
PlayableUntilDeleted == present /\ ~asked => objects[storage_key] # Missing

\* A presigned URL a player holds stays good until it expires: "a replaced
\* object stays a while so playback ... can finish".
PlaybackUndisturbed == \A k \in streams : asked \/ objects[k] # Missing

\* The workers' hands: a job between its upload and the step that queues or
\* swaps in its object.
Named(k)  == k \in {storage_key, pending_storage_key}
HeldBy(w) == pc[w] \in {"stat", "complete"} \/ (pc[w] = "fail" /\ job[w].uploaded)

\* Until the owner asks for the deletion, no object is lost track of, whatever
\* crashed or was superseded: the row names it, it is queued for deletion, or
\* a worker is about to do one of the two.
NothingLeaks ==
  present /\ ~asked =>
    \A k \in Key : objects[k] # Missing =>
      \/ Named(k)
      \/ garbage[k] # "no"
      \/ \E w \in Workers : HeldBy(w) /\ RevisionKey(job[w]) = k

\* A rewrite never uploads over an object that is there, its own earlier
\* attempts' included: the key has "a fresh name per attempt so a retry never
\* overwrites an object an earlier attempt may still reference".
FreshKeys == \A w \in Workers : pc[w] = "put" => objects[RevisionKey(job[w])] = Missing

\* What handleDelete's comments intend and the code does not keep (see README):
\* a deleted track leaves no object behind, once no worker and no collection is
\* at work on it.
DeletedLeavesNothing ==
  ~present /\ (\A w \in Workers : pc[w] = "idle") /\ (\A k \in Key : garbage[k] = "no") =>
    \A k \in Key : objects[k] = Missing

-----------------------------------------------------------------------------
(* Action properties. *)

\* A pending edit is settled only by an attempt made for that very edit, or by
\* the queue giving up after its last attempt: a worker that was overtaken by
\* a newer edit never marks that edit written, failed or unsupported.
SettledByOwnAttempt ==
  [][tag_status = "pending" /\ tag_status' # "pending" =>
       \/ \E w \in Workers : pc[w] \in {"complete", "fail"} /\ pc'[w] # pc[w]
                               /\ job[w].version = metadata_version
       \/ tag_attempts = MaxAttempts]_vars

\* The collector "never deletes a key a track still uses".
CollectorSparesUsed ==
  [][\A k \in Key : k \in gc.doomed /\ k \notin gc'.doomed /\ objects'[k] # objects[k]
       => ~(present /\ Named(k))]_vars

-----------------------------------------------------------------------------
(* What the queue promises: see MetadataSync.  The file a player gets is the  *)
(* one storage_key names, and its name says which version's tags it carries.  *)

Sync == INSTANCE MetadataSync WITH
  exists <- present, version <- metadata_version, status <- tag_status,
  file <- storage_key[1]

\* Every step of the queue is a step of that promise, or none.
ImplementsSync == Sync!Spec

\* Every edit is settled, unless the track is deleted: no crash, lost lease or
\* failed attempt leaves it pending for good.  Needs FairSpec.
EditsSettle == Sync!PendingSettles

==============================================================================
