------------------------- MODULE TagRewrites_proofs -------------------------
(***************************************************************************)
(* What TLAPS proves about TagRewrites, for any set of workers, any number *)
(* of edits and attempts, and with leases that are overrun and commits in  *)
(* doubt.                                                                  *)
(***************************************************************************)
EXTENDS TagRewrites, TLAPS

\* A worker's key is a key, whatever the attempt.
LEMMA RevisionKeyType ==
  ASSUME TypeOK, NEW w \in Workers
  PROVE  /\ RevisionKey(job[w]) \in Key
         /\ RevisionKey(job[w])[1] = job[w].version
         /\ RevisionKey(job[w])[2] = job[w].attempts
         /\ job[w] \in Job
BY DEF TypeOK, Job, RevisionKey, Key

\* Queueing a key keeps the queue a function from keys to states.
LEMMA QueuedType ==
  ASSUME TypeOK, NEW k \in Key, NEW d \in {"grace", "due"}
  PROVE  Queued(k, d) \in [Key -> {"no", "grace", "due"}]
BY DEF TypeOK, Queued

\* Storing or removing an object keeps storage a function from keys to contents.
LEMMA StoredType ==
  ASSUME TypeOK, NEW k, NEW c \in Content
  PROVE  [objects EXCEPT ![k] = c] \in [Key -> Content]
BY DEF TypeOK

LEMMA ConstantTypes ==
  /\ NoJob \in Job
  /\ NoDelete \in [pc : DeletePC, storage : Key, pending : Key \cup {NoKey}]
  /\ OriginalKey \in Key
  /\ NoKey \notin Key
  /\ Missing \in Content
BY BoundsAssumption DEF Missing, Content, NoJob, Job, Failure, NoDelete, DeletePC, OriginalKey, NoKey, Key

LEMMA TypeInit == Init => TypeOK
<1> SUFFICES ASSUME Init PROVE TypeOK
  OBVIOUS
<1>1. objects \in [Key -> Content]
  BY BoundsAssumption DEF Init, Content, Missing
<1>2. /\ metadata_version \in 1..MaxVersion
      /\ tag_version \in 0..MaxVersion
      /\ tag_attempts \in 0..MaxAttempts
  BY BoundsAssumption DEF Init
<1>3. pc \in [Workers -> WorkerPC] /\ job \in [Workers -> Job]
  BY ConstantTypes DEF Init, WorkerPC
<1> QED
  BY <1>1, <1>2, <1>3, ConstantTypes DEF Init, TypeOK, TagStatus

LEMMA TypeStep == TypeOK /\ [Next]_vars => TypeOK'
<1> SUFFICES ASSUME TypeOK, [Next]_vars PROVE TypeOK'
  OBVIOUS
<1> USE ConstantTypes, BoundsAssumption
<1>1. CASE Edit
  <2>1. metadata_version' \in 1..MaxVersion /\ tag_attempts' \in 0..MaxAttempts
    BY <1>1 DEF Edit, TypeOK
  <2> QED
    BY <1>1, <2>1 DEF Edit, TypeOK, TagStatus, others, storage
<1>2. CASE Stream
  BY <1>2 DEF Stream, TypeOK, store, row, others
<1>3. ASSUME NEW w \in Workers, Claim(w) PROVE TypeOK'
  <2>1. garbage' \in [Key -> {"no", "grace", "due"}]
    BY <1>3, QueuedType DEF Claim, Claimable, Abandoned, TypeOK
  <2>2. NextAttempt \in 1..MaxAttempts
    BY <1>3 DEF Claim, AttemptsLeft, NextAttempt, TypeOK
  <2>3. job' \in [Workers -> Job]
    BY <1>3, <2>2 DEF Claim, TypeOK, Job, Failure
  <2> QED
    BY <1>3, <2>1, <2>2, <2>3
    DEF Claim, Claimable, Goto, TypeOK, WorkerPC, others, storage
<1>4. ASSUME NEW w \in Workers, ClaimExhausted(w) PROVE TypeOK'
  <2>1. garbage' \in [Key -> {"no", "grace", "due"}]
    BY <1>4, QueuedType DEF ClaimExhausted, Claimable, Abandoned, TypeOK
  <2> QED
    BY <1>4, <2>1 DEF ClaimExhausted, Claimable, TypeOK, TagStatus, others, storage
<1>5. ASSUME NEW w \in Workers, Rewrite(w) PROVE TypeOK'
  BY <1>5 DEF Rewrite, Goto, TypeOK, WorkerPC, store, row, others, storage
<1>6. ASSUME NEW w \in Workers, NEW f \in Failure, NEW u \in BOOLEAN, Give(w, f, u)
      PROVE  pc' \in [Workers -> WorkerPC] /\ job' \in [Workers -> Job]
  BY <1>6 DEF Give, TypeOK, WorkerPC, Job
<1>7. ASSUME NEW w \in Workers, ProcessFails(w) PROVE TypeOK'
  <2>1. pc' \in [Workers -> WorkerPC] /\ job' \in [Workers -> Job]
    BY <1>7, <1>6 DEF ProcessFails, Failure
  <2> QED
    BY <1>7, <2>1 DEF ProcessFails, TypeOK, store, row, others, storage
<1>8. ASSUME NEW w \in Workers, RecordPendingObject(w) PROVE TypeOK'
  <2>1. pc' \in [Workers -> WorkerPC] /\ job' \in [Workers -> Job]
    BY <1>8, <1>6 DEF RecordPendingObject, Failure, TypeOK, WorkerPC
  <2>2. pending_storage_key' \in Key \cup {NoKey}
    BY <1>8, RevisionKeyType DEF RecordPendingObject, TypeOK
  <2> QED
    BY <1>8, <2>1, <2>2 DEF RecordPendingObject, TypeOK, others, storage
<1>9. ASSUME NEW w \in Workers, Put(w) PROVE TypeOK'
  <2>1. pc' \in [Workers -> WorkerPC] /\ job' \in [Workers -> Job]
    <3>1. CASE pc' = [pc EXCEPT ![w] = "stat"] /\ job' = job
      BY <3>1 DEF TypeOK, WorkerPC
    <3>2. CASE Give(w, "retry", TRUE)
      BY <3>2, <1>6 DEF Failure
    <3> QED
      BY <1>9, <3>1, <3>2 DEF Put
  <2>2. job[w].version \in Content
    <3>1. job[w].version \in 1..MaxVersion
      BY RevisionKeyType DEF Job
    <3> QED
      BY <3>1 DEF Content
  <2>3. objects' \in [Key -> Content]
    BY <1>9, <2>2, StoredType DEF Put, TypeOK
  <2> QED
    BY <1>9, <2>1, <2>3 DEF Put, TypeOK, store, row, others
<1>10. ASSUME NEW w \in Workers, Stat(w) PROVE TypeOK'
  <2>1. pc' \in [Workers -> WorkerPC] /\ job' \in [Workers -> Job]
    BY <1>10, <1>6 DEF Stat, Failure, TypeOK, WorkerPC
  <2> QED
    BY <1>10, <2>1 DEF Stat, TypeOK, store, row, others, storage
<1>11. ASSUME NEW w \in Workers, CompleteDeleted(w) PROVE TypeOK'
  <2>1. garbage' \in [Key -> {"no", "grace", "due"}]
    BY <1>11, QueuedType, RevisionKeyType DEF CompleteDeleted
  <2> QED
    BY <1>11, <2>1 DEF CompleteDeleted, Goto, TypeOK, WorkerPC, row, others, storage
<1>12. ASSUME NEW w \in Workers, CompleteSuperseded(w) PROVE TypeOK'
  <2>1. garbage' \in [Key -> {"no", "grace", "due"}]
    BY <1>12, QueuedType, RevisionKeyType DEF CompleteSuperseded
  <2> QED
    BY <1>12, <2>1 DEF CompleteSuperseded, Goto, TypeOK, WorkerPC, others, storage
<1>13. ASSUME NEW w \in Workers, CompleteOverQuota(w) PROVE TypeOK'
  <2>1. garbage' \in [Key -> {"no", "grace", "due"}]
    BY <1>13, QueuedType, RevisionKeyType DEF CompleteOverQuota
  <2> QED
    BY <1>13, <2>1
    DEF CompleteOverQuota, Done, TypeOK, TagStatus, WorkerPC, others, storage
<1>14. ASSUME NEW w \in Workers, Swap(w),
              pc' \in [Workers -> WorkerPC], job' \in [Workers -> Job]
       PROVE  TypeOK'
  <2>1. garbage' \in [Key -> {"no", "grace", "due"}]
    BY <1>14, QueuedType DEF Swap, TypeOK
  <2> QED
    BY <1>14, <2>1, RevisionKeyType, 0..MaxVersion = {0} \cup (1..MaxVersion)
    DEF Swap, TypeOK, TagStatus, others, storage
<1>15. ASSUME NEW w \in Workers, CompleteSwap(w) PROVE TypeOK'
  BY <1>14, <1>15 DEF CompleteSwap, Done, TypeOK, WorkerPC
<1>16. ASSUME NEW w \in Workers, CompleteError(w) PROVE TypeOK'
  <2>1. pc' \in [Workers -> WorkerPC] /\ job' \in [Workers -> Job]
    BY <1>16, <1>6 DEF CompleteError, Failure
  <2>2. CASE UNCHANGED <<store, storage, others>>
    BY <2>1, <2>2 DEF TypeOK, store, row, others, storage
  <2> QED
    BY <1>14, <1>16, <2>1, <2>2 DEF CompleteError
<1>17. ASSUME NEW w \in Workers, ReleaseTagRewrite(w) PROVE TypeOK'
  BY <1>17 DEF ReleaseTagRewrite, Done, TypeOK, WorkerPC, others, storage
<1>18. ASSUME NEW w \in Workers, FailTagRewrite(w) PROVE TypeOK'
  <2>1. garbage' \in [Key -> {"no", "grace", "due"}]
    BY <1>18, QueuedType, RevisionKeyType DEF FailTagRewrite, TypeOK
  <2>2. Verdict(job[w]) \in TagStatus
    BY DEF Verdict, TagStatus
  <2>3. pc' \in [Workers -> WorkerPC] /\ job' \in [Workers -> Job]
    BY <1>18 DEF FailTagRewrite, Done, TypeOK, WorkerPC
  <2>4. tag_not_before' \in BOOLEAN
    BY <1>18 DEF FailTagRewrite, TypeOK
  <2>5. /\ tag_status' \in TagStatus
        /\ pending_storage_key' \in Key \cup {NoKey}
        /\ tag_claimed_until' \in Workers \cup {NoWorker}
    BY <1>18, <2>2 DEF FailTagRewrite, TypeOK
  <2> QED
    BY <1>18, <2>1, <2>3, <2>4, <2>5 DEF FailTagRewrite, TypeOK, others, storage
<1>19. ASSUME NEW w \in Workers, Crash(w) PROVE TypeOK'
  BY <1>19 DEF Crash, Done, TypeOK, WorkerPC, store, row, others, storage
<1>20. CASE TimeStep
  <2>1. CASE RetryDue
    BY <2>1 DEF RetryDue, TypeOK, others, storage
  <2>2. ASSUME NEW w \in Workers, LeaseExpires(w) PROVE TypeOK'
    BY <2>2 DEF LeaseExpires, TypeOK, others, storage
  <2>3. ASSUME NEW k \in Key, GraceOver(k) PROVE TypeOK'
    BY <2>3 DEF GraceOver, TypeOK, row, others, storage
  <2>4. ASSUME NEW k \in Key, StreamExpires(k) PROVE TypeOK'
    BY <2>4 DEF StreamExpires, TypeOK, store, row, others
  <2> QED
    BY <1>20, <2>1, <2>2, <2>3, <2>4 DEF TimeStep
<1>21. CASE CollectStep \/ CollectAbort
  BY <1>21
  DEF CollectStep, CollectSelect, CollectRemove, CollectCommit, CollectAbort,
      TypeOK, Content, Missing, store, row, storage
<1>22. CASE DeleteStep
  <2>1. CASE DeleteRead
    BY <2>1 DEF DeleteRead, TypeOK, DeletePC, store, row, storage
  <2>2. CASE DeleteObject
    BY <2>2 DEF DeleteObject, TypeOK, DeletePC, Content, Missing, store, row
  <2>3. CASE DeletePending
    <3>1. del' \in [pc : DeletePC, storage : Key, pending : Key \cup {NoKey}]
      BY <2>3 DEF DeletePending, TypeOK, DeletePC
    <3>2. objects' \in [Key -> Content]
      BY <2>3, StoredType DEF DeletePending
    <3> QED
      BY <2>3, <3>1, <3>2 DEF DeletePending, TypeOK, store, row
  <2>4. CASE DeleteRow
    BY <2>4 DEF DeleteRow, TypeOK, storage
  <2>5. CASE DeleteFails
    BY <2>5 DEF DeleteFails, TypeOK, store, row, storage
  <2> QED
    BY <1>22, <2>1, <2>2, <2>3, <2>4, <2>5 DEF DeleteStep
<1>23. CASE UNCHANGED vars
  BY <1>23 DEF TypeOK, vars, store, row, storage, others
<1> QED
  BY <1>1, <1>2, <1>3, <1>4, <1>5, <1>7, <1>8, <1>9, <1>10, <1>11, <1>12, <1>13,
     <1>15, <1>16, <1>17, <1>18, <1>19, <1>20, <1>21, <1>22, <1>23
  DEF Next, WorkerStep

\* Every variable keeps its type: the bounds on versions and attempts hold, and
\* rows, queue, collector and handlers only ever name keys that exist.
THEOREM TypeCorrect == Spec => []TypeOK
BY TypeInit, TypeStep, PTL DEF Spec

-----------------------------------------------------------------------------
(* Versions.  The invariant that makes WrittenMatchesMetadata inductive says *)
(* what a key's name promises: the object under it carries that version's    *)
(* tags, and a written row names a key of the saved version.                 *)

KeysNameContents == \A k \in Key : objects[k] \in {k[1], Missing}

WrittenKeyIsCurrent ==
  present /\ tag_status = "written" =>
    tag_version = metadata_version /\ storage_key[1] = metadata_version

VersionInv == TypeOK /\ KeysNameContents /\ WrittenKeyIsCurrent

(* Keys.  A key is used once some claim has made it.                         *)
Used(k) == k[1] < metadata_version \/ (k[1] = metadata_version /\ k[2] <= tag_attempts)
Busy(w) == pc[w] # "idle"

StoredKeysAreUsed == \A k \in Key : objects[k] # Missing => k = OriginalKey \/ Used(k)
BusyKeysAreUsed   == \A w \in Workers : Busy(w) => Used(RevisionKey(job[w]))
BusyKeysDiffer    ==
  \A v, w \in Workers : Busy(v) /\ Busy(w) /\ RevisionKey(job[v]) = RevisionKey(job[w]) => v = w
UnwrittenKeys     ==
  \A w \in Workers : pc[w] \in {"process", "record", "put"}
    => objects[RevisionKey(job[w])] = Missing

KeyInv == TypeOK /\ StoredKeysAreUsed /\ BusyKeysAreUsed /\ BusyKeysDiffer /\ UnwrittenKeys

\* What a step may do to the versions and the objects: an edit, a swap, or a
\* step that keeps the row's versions and at most writes or removes one object.
LEMMA VersionStep ==
  ASSUME TypeOK, [Next]_vars
  PROVE  \/ Edit
         \/ \E w \in Workers : pc[w] = "complete" /\ Swap(w)
         \/ /\ UNCHANGED <<metadata_version, storage_key, tag_version>>
            /\ present' => present
            /\ tag_status' = "written" => tag_status = "written"
            /\ \/ objects' = objects
               \/ \E k \in Key \cup {NoKey} : objects' = [objects EXCEPT ![k] = Missing]
               \/ \E w \in Workers :
                    /\ pc[w] = "put"
                    /\ objects' = [objects EXCEPT ![RevisionKey(job[w])] = job[w].version]
<1> DEFINE Quiet ==
      /\ UNCHANGED <<metadata_version, storage_key, tag_version>>
      /\ present' => present
      /\ tag_status' = "written" => tag_status = "written"
<1>1. CASE Stream \/ CollectAbort \/ UNCHANGED vars
  BY <1>1 DEF Stream, CollectAbort, vars, store, row, storage
<1>2. ASSUME NEW w \in Workers, Claim(w) \/ ClaimExhausted(w)
      PROVE  Quiet /\ objects' = objects
  BY <1>2 DEF Claim, ClaimExhausted, storage
<1>3. ASSUME NEW w \in Workers, Rewrite(w) \/ ProcessFails(w) \/ Stat(w) \/ Crash(w)
      PROVE  Quiet /\ objects' = objects
  BY <1>3 DEF Rewrite, ProcessFails, Stat, Crash, Give, store, row, storage
<1>4. ASSUME NEW w \in Workers, RecordPendingObject(w) \/ ReleaseTagRewrite(w)
      PROVE  Quiet /\ objects' = objects
  BY <1>4 DEF RecordPendingObject, ReleaseTagRewrite, Give, storage
<1>5. ASSUME NEW w \in Workers,
             CompleteDeleted(w) \/ CompleteSuperseded(w) \/ CompleteOverQuota(w)
      PROVE  Quiet /\ objects' = objects
  BY <1>5 DEF CompleteDeleted, CompleteSuperseded, CompleteOverQuota, row, storage
<1>6. ASSUME NEW w \in Workers, FailTagRewrite(w)
      PROVE  Quiet /\ objects' = objects
  BY <1>6 DEF FailTagRewrite, Verdict, storage
<1>7. ASSUME NEW w \in Workers, Put(w)
      PROVE  /\ Quiet
             /\ \/ objects' = objects
                \/ /\ pc[w] = "put"
                   /\ objects' = [objects EXCEPT ![RevisionKey(job[w])] = job[w].version]
  BY <1>7 DEF Put, store, row
<1>8. ASSUME NEW w \in Workers, CompleteSwap(w) \/ CompleteError(w)
      PROVE  (pc[w] = "complete" /\ Swap(w)) \/ (Quiet /\ objects' = objects)
  BY <1>8 DEF CompleteSwap, CompleteError, store, row, storage
<1>9. CASE TimeStep
  BY <1>9 DEF TimeStep, RetryDue, LeaseExpires, GraceOver, StreamExpires, store, row, storage
<1>10. CASE CollectStep
  BY <1>10 DEF CollectStep, CollectSelect, CollectRemove, CollectCommit, store, row, storage
<1>11. CASE DeleteStep
  BY <1>11
  DEF DeleteStep, DeleteRead, DeleteObject, DeletePending, DeleteRow, DeleteFails,
      TypeOK, store, row, storage
<1> QED
  BY <1>1, <1>2, <1>3, <1>4, <1>5, <1>6, <1>7, <1>8, <1>9, <1>10, <1>11
  DEF Next, WorkerStep

LEMMA VersionInvHolds == Spec => []VersionInv
<1>1. Init => VersionInv
  <2> SUFFICES ASSUME Init, TypeOK PROVE KeysNameContents /\ WrittenKeyIsCurrent
    BY TypeInit DEF VersionInv
  <2> QED
    BY DEF Init, KeysNameContents, WrittenKeyIsCurrent, OriginalKey, Missing
<1>2. VersionInv /\ [Next]_vars => VersionInv'
  <2> SUFFICES ASSUME VersionInv, [Next]_vars PROVE VersionInv'
    OBVIOUS
  <2> USE DEF VersionInv
  <2>1. TypeOK'
    BY TypeStep
  <2>2. CASE Edit
    BY <2>1, <2>2 DEF Edit, KeysNameContents, WrittenKeyIsCurrent, storage
  <2>3. ASSUME NEW w \in Workers, pc[w] = "complete", Swap(w)
        PROVE  VersionInv'
    BY <2>1, <2>3, RevisionKeyType
    DEF Swap, Current, KeysNameContents, WrittenKeyIsCurrent, storage
  <2>4. CASE /\ UNCHANGED <<metadata_version, storage_key, tag_version>>
             /\ present' => present
             /\ tag_status' = "written" => tag_status = "written"
             /\ \/ objects' = objects
                \/ \E k \in Key \cup {NoKey} : objects' = [objects EXCEPT ![k] = Missing]
                \/ \E w \in Workers :
                     /\ pc[w] = "put"
                     /\ objects' = [objects EXCEPT ![RevisionKey(job[w])] = job[w].version]
    <3>1. WrittenKeyIsCurrent'
      BY <2>4 DEF WrittenKeyIsCurrent
    <3>2. objects \in [Key -> Content]
      BY DEF TypeOK
    <3>3. KeysNameContents'
      <4>1. CASE objects' = objects
        BY <4>1 DEF KeysNameContents
      <4>2. ASSUME NEW k \in Key \cup {NoKey}, objects' = [objects EXCEPT ![k] = Missing]
            PROVE  KeysNameContents'
        BY <4>2, <3>2 DEF KeysNameContents
      <4>3. ASSUME NEW w \in Workers,
                   objects' = [objects EXCEPT ![RevisionKey(job[w])] = job[w].version]
            PROVE  KeysNameContents'
        BY <4>3, <3>2, RevisionKeyType DEF KeysNameContents
      <4> QED
        BY <2>4, <4>1, <4>2, <4>3
    <3> QED
      BY <2>1, <3>1, <3>3
  <2> QED
    BY <2>2, <2>3, <2>4, VersionStep
<1> QED
  BY <1>1, <1>2, PTL DEF Spec

\* A row marked written is written at the saved version, and the object it
\* names carries that version's tags (or was removed): overtaken workers,
\* overrun leases and doubtful commits included.
THEOREM WrittenIsWhatWasSaved == Spec => []WrittenMatchesMetadata
<1>1. VersionInv => WrittenMatchesMetadata
  BY DEF VersionInv, TypeOK, KeysNameContents, WrittenKeyIsCurrent, WrittenMatchesMetadata
<1> QED
  BY <1>1, VersionInvHolds, PTL

\* A step of worker w's job: it ends, or goes on with the same key, and it
\* never gets back to the steps before its upload.
OwnStep(w) ==
  /\ Busy(w)
  /\ \A v \in Workers \ {w} : pc'[v] = pc[v] /\ job'[v] = job[v]
  /\ \/ pc'[w] = "idle"
     \/ /\ RevisionKey(job'[w]) = RevisionKey(job[w])
        /\ pc'[w] \in {"process", "record", "put"} => pc[w] \in {"process", "record"}

\* What a step may do to the keys in use: an edit, a claim, a step of a job
\* (which stores at most its own object, once), or the removal of an object.
LEMMA KeyStep ==
  ASSUME TypeOK, [Next]_vars
  PROVE  \/ Edit
         \/ \E w \in Workers : Claim(w)
         \/ /\ UNCHANGED <<metadata_version, tag_attempts, pc, job>>
            /\ \/ objects' = objects
               \/ \E k \in Key \cup {NoKey} : objects' = [objects EXCEPT ![k] = Missing]
         \/ /\ UNCHANGED <<metadata_version, tag_attempts>>
            /\ \E w \in Workers :
                 /\ OwnStep(w)
                 /\ \/ objects' = objects
                    \/ /\ pc[w] = "put"
                       /\ objects' = [objects EXCEPT ![RevisionKey(job[w])] = job[w].version]
<1>1. CASE Stream \/ CollectAbort \/ UNCHANGED vars
  BY <1>1 DEF Stream, CollectAbort, vars, store, row, storage
<1>2. ASSUME NEW w \in Workers, ClaimExhausted(w)
      PROVE  UNCHANGED <<metadata_version, tag_attempts, pc, job, objects>>
  BY <1>2 DEF ClaimExhausted, storage
<1>3. ASSUME NEW w \in Workers, NEW here, NEW there, pc[w] = here, here # "idle",
             pc' = [pc EXCEPT ![w] = there], job' = job,
             there \in {"process", "record", "put"} => here \in {"process", "record"}
      PROVE  OwnStep(w)
  BY <1>3 DEF OwnStep, Busy, TypeOK
<1>4. ASSUME NEW w \in Workers, NEW f, NEW u, Give(w, f, u), Busy(w)
      PROVE  OwnStep(w)
  BY <1>4 DEF Give, OwnStep, TypeOK, Job, RevisionKey
<1>5. ASSUME NEW w \in Workers, Done(w), Busy(w)
      PROVE  OwnStep(w)
  BY <1>5 DEF Done, OwnStep, TypeOK
<1>6. ASSUME NEW w \in Workers, Rewrite(w) \/ ProcessFails(w) \/ Stat(w) \/ Crash(w)
      PROVE  UNCHANGED <<metadata_version, tag_attempts, objects>> /\ OwnStep(w)
  <2>1. UNCHANGED <<metadata_version, tag_attempts, objects>>
    BY <1>6 DEF Rewrite, ProcessFails, Stat, Crash, Give, store, row, storage
  <2>2. CASE Rewrite(w)
    BY <2>1, <2>2, <1>3 DEF Rewrite, Goto
  <2>3. CASE ProcessFails(w)
    BY <2>1, <2>3, <1>4 DEF ProcessFails, Busy
  <2>4. CASE Stat(w)
    BY <2>1, <2>4, <1>3, <1>4 DEF Stat, Busy
  <2>5. CASE Crash(w)
    BY <2>1, <2>5, <1>5 DEF Crash, Busy
  <2> QED
    BY <1>6, <2>1, <2>2, <2>3, <2>4, <2>5
<1>7. ASSUME NEW w \in Workers, RecordPendingObject(w) \/ ReleaseTagRewrite(w)
      PROVE  UNCHANGED <<metadata_version, tag_attempts, objects>> /\ OwnStep(w)
  <2>1. UNCHANGED <<metadata_version, tag_attempts, objects>>
    BY <1>7 DEF RecordPendingObject, ReleaseTagRewrite, Give, storage
  <2>2. CASE RecordPendingObject(w)
    BY <2>1, <2>2, <1>3, <1>4 DEF RecordPendingObject, Busy
  <2>3. CASE ReleaseTagRewrite(w)
    BY <2>1, <2>3, <1>5 DEF ReleaseTagRewrite, Busy
  <2> QED
    BY <1>7, <2>1, <2>2, <2>3
<1>8. ASSUME NEW w \in Workers,
             CompleteDeleted(w) \/ CompleteSuperseded(w) \/ CompleteOverQuota(w)
      PROVE  UNCHANGED <<metadata_version, tag_attempts, objects>> /\ OwnStep(w)
  <2>1. UNCHANGED <<metadata_version, tag_attempts, objects>>
    BY <1>8 DEF CompleteDeleted, CompleteSuperseded, CompleteOverQuota, row, storage
  <2>2. CASE CompleteDeleted(w) \/ CompleteSuperseded(w)
    BY <2>1, <2>2, <1>3 DEF CompleteDeleted, CompleteSuperseded, Goto
  <2>3. CASE CompleteOverQuota(w)
    BY <2>1, <2>3, <1>5 DEF CompleteOverQuota, Busy
  <2> QED
    BY <1>8, <2>1, <2>2, <2>3
<1>9. ASSUME NEW w \in Workers, CompleteSwap(w) \/ CompleteError(w) \/ FailTagRewrite(w)
      PROVE  UNCHANGED <<metadata_version, tag_attempts, objects>> /\ OwnStep(w)
  <2>1. CASE CompleteSwap(w)
    BY <2>1, <1>5 DEF CompleteSwap, Swap, Busy, storage
  <2>2. CASE CompleteError(w)
    <3>1. OwnStep(w)
      BY <2>2, <1>4 DEF CompleteError, Busy
    <3> QED
      BY <2>2, <3>1 DEF CompleteError, Swap, store, row, storage
  <2>3. CASE FailTagRewrite(w)
    BY <2>3, <1>5 DEF FailTagRewrite, Busy, storage
  <2> QED
    BY <1>9, <2>1, <2>2, <2>3
<1>10. ASSUME NEW w \in Workers, Put(w)
       PROVE  /\ UNCHANGED <<metadata_version, tag_attempts>>
              /\ OwnStep(w)
              /\ \/ objects' = objects
                 \/ /\ pc[w] = "put"
                    /\ objects' = [objects EXCEPT ![RevisionKey(job[w])] = job[w].version]
  <2>1. OwnStep(w)
    BY <1>10, <1>3, <1>4 DEF Put, Busy
  <2> QED
    BY <1>10, <2>1 DEF Put, store, row
<1>11. CASE TimeStep
  BY <1>11 DEF TimeStep, RetryDue, LeaseExpires, GraceOver, StreamExpires, store, row, storage
<1>12. CASE CollectStep
  BY <1>12 DEF CollectStep, CollectSelect, CollectRemove, CollectCommit, store, row, storage
<1>13. CASE DeleteStep
  BY <1>13
  DEF DeleteStep, DeleteRead, DeleteObject, DeletePending, DeleteRow, DeleteFails,
      TypeOK, store, row, storage
<1> QED
  BY <1>1, <1>2, <1>6, <1>7, <1>8, <1>9, <1>10, <1>11, <1>12, <1>13
  DEF Next, WorkerStep

LEMMA KeyInvHolds == Spec => []KeyInv
<1>1. Init => KeyInv
  <2> SUFFICES ASSUME Init PROVE KeyInv
    OBVIOUS
  <2>1. TypeOK
    BY TypeInit
  <2> QED
    BY <2>1 DEF Init, KeyInv, StoredKeysAreUsed, BusyKeysAreUsed, BusyKeysDiffer,
                UnwrittenKeys, Busy
<1>2. KeyInv /\ [Next]_vars => KeyInv'
  <2> SUFFICES ASSUME KeyInv, [Next]_vars PROVE KeyInv'
    OBVIOUS
  <2>1. TypeOK /\ TypeOK'
    BY TypeStep DEF KeyInv
  <2> USE DEF KeyInv, Used
  <2>2. CASE Edit
    <3>1. \A k \in Key : Used(k) => Used(k)'
      BY <2>1, <2>2 DEF Edit, TypeOK, Key, OriginalKey
    <3>2. \A w \in Workers : RevisionKey(job[w]) \in Key
      BY <2>1, RevisionKeyType
    <3> QED
      BY <2>1, <2>2, <3>1, <3>2
      DEF Edit, storage, StoredKeysAreUsed, BusyKeysAreUsed, BusyKeysDiffer,
          UnwrittenKeys, Busy
  <2>3. ASSUME NEW w \in Workers, Claim(w) PROVE KeyInv'
    <3> PICK new : new = <<metadata_version, tag_attempts + 1>>
      OBVIOUS
    <3>1. /\ RevisionKey(job'[w]) = new
          /\ pc'[w] = "process"
          /\ \A v \in Workers \ {w} : pc'[v] = pc[v] /\ job'[v] = job[v]
          /\ metadata_version' = metadata_version
          /\ tag_attempts' = tag_attempts + 1
          /\ objects' = objects
      BY <2>1, <2>3 DEF Claim, NextAttempt, Goto, RevisionKey, TypeOK, storage
    <3>2. new \in Key /\ new # OriginalKey
      <4>1. metadata_version \in 1..MaxVersion /\ tag_attempts + 1 \in 1..MaxAttempts
        BY <2>1, <2>3, BoundsAssumption DEF Claim, AttemptsLeft, TypeOK
      <4> QED
        BY <4>1 DEF Key, OriginalKey
    <3>3. ~Used(new) /\ Used(new)'
      BY <2>1, <3>1 DEF TypeOK
    <3>4. \A k \in Key : Used(k) => Used(k)'
      BY <2>1, <3>1 DEF TypeOK, Key, OriginalKey
    <3>5. \A v \in Workers : RevisionKey(job[v]) \in Key
      BY <2>1, RevisionKeyType
    <3>6. StoredKeysAreUsed' /\ BusyKeysAreUsed'
      BY <3>1, <3>2, <3>3, <3>4, <3>5 DEF StoredKeysAreUsed, BusyKeysAreUsed, Busy
    <3>7. BusyKeysDiffer'
      BY <3>1, <3>3 DEF BusyKeysAreUsed, BusyKeysDiffer, Busy
    <3>8. UnwrittenKeys'
      <4>1. objects[new] = Missing
        BY <3>2, <3>3 DEF StoredKeysAreUsed
      <4> QED
        BY <3>1, <4>1 DEF UnwrittenKeys
    <3> QED
      BY <2>1, <3>6, <3>7, <3>8
  <2>4. CASE /\ UNCHANGED <<metadata_version, tag_attempts, pc, job>>
             /\ \/ objects' = objects
                \/ \E k \in Key \cup {NoKey} : objects' = [objects EXCEPT ![k] = Missing]
    <3>1. \A k \in Key : objects'[k] \in {objects[k], Missing}
      BY <2>1, <2>4 DEF TypeOK
    <3>2. \A w \in Workers : RevisionKey(job[w]) \in Key
      BY <2>1, RevisionKeyType
    <3> QED
      BY <2>1, <2>4, <3>1, <3>2
      DEF StoredKeysAreUsed, BusyKeysAreUsed, BusyKeysDiffer, UnwrittenKeys, Busy
  <2>5. ASSUME UNCHANGED <<metadata_version, tag_attempts>>,
               NEW w \in Workers, OwnStep(w),
               \/ objects' = objects
               \/ /\ pc[w] = "put"
                  /\ objects' = [objects EXCEPT ![RevisionKey(job[w])] = job[w].version]
        PROVE  KeyInv'
    <3>1. \A v \in Workers : RevisionKey(job[v]) \in Key
      BY <2>1, RevisionKeyType
    <3>2. \A k \in Key : objects'[k] # objects[k] => pc[w] = "put" /\ k = RevisionKey(job[w])
      BY <2>1, <2>5 DEF TypeOK
    <3>3. StoredKeysAreUsed' /\ BusyKeysAreUsed'
      BY <2>5, <3>1, <3>2 DEF OwnStep, StoredKeysAreUsed, BusyKeysAreUsed, Busy
    <3>4. BusyKeysDiffer'
      BY <2>5 DEF OwnStep, BusyKeysDiffer, Busy
    <3>5. UnwrittenKeys'
      <4> SUFFICES ASSUME NEW v \in Workers, pc'[v] \in {"process", "record", "put"}
                   PROVE  objects'[RevisionKey(job'[v])] = Missing
        BY DEF UnwrittenKeys
      <4>1. /\ pc[v] \in {"process", "record", "put"}
            /\ RevisionKey(job'[v]) = RevisionKey(job[v])
            /\ v = w => pc[w] # "put"
        BY <2>5 DEF OwnStep
      <4>2. v # w => RevisionKey(job[v]) # RevisionKey(job[w])
        BY <2>5, <4>1 DEF OwnStep, BusyKeysDiffer, Busy
      <4> QED
        BY <3>1, <3>2, <4>1, <4>2 DEF UnwrittenKeys
    <3> QED
      BY <2>1, <3>3, <3>4, <3>5
  <2> QED
    BY <2>1, <2>2, <2>3, <2>4, <2>5, KeyStep
<1> QED
  BY <1>1, <1>2, PTL DEF Spec

\* No rewrite is ever uploaded over an existing object.
THEOREM UploadsAreFresh == Spec => []FreshKeys
<1>1. KeyInv => FreshKeys
  BY DEF KeyInv, UnwrittenKeys, FreshKeys
<1> QED
  BY <1>1, KeyInvHolds, PTL

-----------------------------------------------------------------------------
(* Steps of the status, and the refinement. *)

\* Who may take the row's status away from "pending".
LEMMA StatusStep ==
  ASSUME TypeOK, [Next]_vars, ~Edit, tag_status' # tag_status
  PROVE  /\ present
         /\ tag_status = "pending"
         /\ \/ /\ tag_attempts = MaxAttempts
               /\ tag_status' = "failed"
               /\ UNCHANGED <<present, metadata_version, storage_key>>
            \/ \E w \in Workers :
                 /\ pc[w] \in {"complete", "fail"}
                 /\ pc'[w] # pc[w]
                 /\ job[w].version = metadata_version
                 /\ UNCHANGED <<present, metadata_version>>
                 /\ \/ tag_status' = "written" /\ storage_key' = RevisionKey(job[w])
                    \/ tag_status' \in {"failed", "unsupported"} /\ UNCHANGED storage_key
<1> DEFINE Settles(w) ==
      /\ present
      /\ tag_status = "pending"
      /\ pc[w] \in {"complete", "fail"}
      /\ pc'[w] # pc[w]
      /\ job[w].version = metadata_version
      /\ UNCHANGED <<present, metadata_version>>
      /\ \/ tag_status' = "written" /\ storage_key' = RevisionKey(job[w])
         \/ tag_status' \in {"failed", "unsupported"} /\ UNCHANGED storage_key
<1>1. CASE Stream \/ CollectAbort \/ UNCHANGED vars
  BY <1>1 DEF Stream, CollectAbort, vars, store, row
<1>2. ASSUME NEW w \in Workers, ClaimExhausted(w)
      PROVE  /\ present /\ tag_status = "pending" /\ tag_attempts = MaxAttempts
             /\ tag_status' = "failed"
             /\ UNCHANGED <<present, metadata_version, storage_key>>
  BY <1>2, BoundsAssumption DEF ClaimExhausted, Claimable, AttemptsLeft, TypeOK
<1>3. ASSUME NEW w \in Workers,
             \/ Claim(w) \/ Rewrite(w) \/ ProcessFails(w) \/ Put(w) \/ Stat(w) \/ Crash(w)
             \/ RecordPendingObject(w) \/ ReleaseTagRewrite(w)
             \/ CompleteDeleted(w) \/ CompleteSuperseded(w)
      PROVE  FALSE
  BY <1>3
  DEF Claim, Rewrite, ProcessFails, Put, Stat, Crash, RecordPendingObject, ReleaseTagRewrite,
      CompleteDeleted, CompleteSuperseded, Give, store, row
<1>4. ASSUME NEW w \in Workers, CompleteOverQuota(w) PROVE Settles(w)
  BY <1>4 DEF CompleteOverQuota, Done, Current, TypeOK
<1>5. ASSUME NEW w \in Workers, CompleteSwap(w) PROVE Settles(w)
  BY <1>5 DEF CompleteSwap, Swap, Done, Current, TypeOK
<1>6. ASSUME NEW w \in Workers, CompleteError(w) PROVE Settles(w)
  <2>1. Swap(w) /\ Give(w, "retry", TRUE) /\ pc[w] = "complete"
    BY <1>6 DEF CompleteError, store, row
  <2> QED
    BY <2>1 DEF Swap, Give, Current, TypeOK
<1>7. ASSUME NEW w \in Workers, FailTagRewrite(w) PROVE Settles(w)
  <2>1. Wanted(job[w]) /\ tag_status' = Verdict(job[w])
    BY <1>7 DEF FailTagRewrite
  <2>2. tag_status' \in {"failed", "unsupported"}
    BY <2>1 DEF Verdict, Wanted
  <2>3. pc[w] = "fail" /\ pc'[w] = "idle" /\ UNCHANGED <<present, metadata_version, storage_key>>
    BY <1>7 DEF FailTagRewrite, Done, TypeOK
  <2> QED
    BY <2>1, <2>2, <2>3 DEF Wanted
<1>8. CASE TimeStep
  BY <1>8 DEF TimeStep, RetryDue, LeaseExpires, GraceOver, StreamExpires, store, row
<1>9. CASE CollectStep
  BY <1>9 DEF CollectStep, CollectSelect, CollectRemove, CollectCommit, store, row
<1>10. CASE DeleteStep
  BY <1>10
  DEF DeleteStep, DeleteRead, DeleteObject, DeletePending, DeleteRow, DeleteFails, store, row
<1> QED
  BY <1>1, <1>2, <1>3, <1>4, <1>5, <1>6, <1>7, <1>8, <1>9, <1>10 DEF Next, WorkerStep

\* Only an attempt made for the saved version, or the end of its attempts,
\* settles a pending edit.
THEOREM EditsSettledByOwnAttempt == Spec => SettledByOwnAttempt
<1>1. TypeOK /\ [Next]_vars
        => [tag_status = "pending" /\ tag_status' # "pending" =>
              \/ \E w \in Workers : pc[w] \in {"complete", "fail"} /\ pc'[w] # pc[w]
                                      /\ job[w].version = metadata_version
              \/ tag_attempts = MaxAttempts]_vars
  <2>1. Edit => tag_status' = "pending"
    BY DEF Edit
  <2> QED
    BY <2>1, StatusStep
<1> QED
  BY <1>1, TypeCorrect, PTL DEF Spec, SettledByOwnAttempt

\* The queue, its leases, retries, crashes and garbage implement MetadataSync:
\* the saved version and the file a player gets move as if an edit were synced
\* in one step, or given up.
THEOREM QueueImplementsSync == Spec => ImplementsSync
<1>1. Init => Sync!Init
  BY DEF Init, Sync!Init, OriginalKey
<1>2. TypeOK /\ [Next]_vars => [Sync!Next]_(Sync!vars)
  <2> SUFFICES ASSUME TypeOK, [Next]_vars, ~(UNCHANGED Sync!vars) PROVE Sync!Next
    OBVIOUS
  <2>1. CASE Edit
    BY <2>1 DEF Edit, Sync!Edit, Sync!Next
  <2>2. CASE ~Edit /\ tag_status' # tag_status
    <3>1. CASE tag_status' = "failed" /\ UNCHANGED <<present, metadata_version, storage_key>>
      BY <2>2, <3>1, StatusStep DEF Sync!GiveUp, Sync!Next
    <3>2. ASSUME NEW w \in Workers,
                 job[w].version = metadata_version,
                 UNCHANGED <<present, metadata_version>>,
                 \/ tag_status' = "written" /\ storage_key' = RevisionKey(job[w])
                 \/ tag_status' \in {"failed", "unsupported"} /\ UNCHANGED storage_key
          PROVE  Sync!Next
      BY <2>2, <3>2, StatusStep, RevisionKeyType DEF Sync!Publish, Sync!GiveUp, Sync!Next
    <3> QED
      BY <2>2, <3>1, <3>2, StatusStep
  <2>3. CASE ~Edit /\ tag_status' = tag_status
    <3>1. UNCHANGED <<metadata_version, storage_key>> /\ (present' => present)
      <4>1. ASSUME NEW w \in Workers, Swap(w) PROVE FALSE
        BY <2>3, <4>1 DEF Swap, Current
      <4> QED
        BY <2>3, <4>1, VersionStep
    <3>2. present' \in BOOLEAN
      BY TypeStep DEF TypeOK
    <3> QED
      BY <2>3, <3>1, <3>2 DEF TypeOK, Sync!Delete, Sync!Next, Sync!vars
  <2> QED
    BY <2>1, <2>2, <2>3
<1> QED
  BY <1>1, <1>2, TypeCorrect, PTL DEF Spec, ImplementsSync, Sync!Spec

-----------------------------------------------------------------------------
(* One worker, the default, whose lease outlasts it and whose swaps are    *)
(* not in doubt: no audio is lost, pulled from under a player or lost      *)
(* track of.                                                               *)
(*                                                                         *)
(* What makes these properties inductive is where a key can be: the row's  *)
(* key is not queued for deletion, the worker's is neither queued, stored  *)
(* in the row as its file, nor played, and what the collector locked stays *)
(* queued until it is through.                                             *)

OneWorker == (\A v, w \in Workers : v = w) /\ ~Overrun /\ ~InDoubt

\* A job that has still something to do with its key.
Working(w) == pc[w] \notin {"idle", "release"}

\* A job that has its key recorded in the row.
Recorded(w) ==
  pc[w] \in {"put", "stat", "complete"} \/ (pc[w] = "fail" /\ job[w].uploaded)

Met(k) == k = OriginalKey \/ Used(k)

\* A key the next claim makes is in none of these places.
MetKeys ==
  /\ Met(storage_key)
  /\ pending_storage_key # NoKey => Met(pending_storage_key)
  /\ \A k \in streams : Met(k)
  /\ \A k \in Key : garbage[k] # "no" => Met(k)

RowKeys ==
  present => garbage[storage_key] = "no" /\ storage_key # pending_storage_key

JobKeys ==
  \A w \in Workers : Working(w) =>
    /\ garbage[RevisionKey(job[w])] = "no"
    /\ RevisionKey(job[w]) # storage_key
    /\ RevisionKey(job[w]) \notin streams
    /\ pending_storage_key = IF Recorded(w) THEN RevisionKey(job[w]) ELSE NoKey

PlayedKeys == \A k \in streams : garbage[k] # "due" /\ k # pending_storage_key

CollectorKeys ==
  /\ gc.doomed \subseteq gc.locked
  /\ \A k \in gc.locked : garbage[k] = "due"
  /\ present => /\ pending_storage_key \notin gc.doomed
                /\ \A k \in gc.locked \ gc.doomed : objects[k] = Missing \/ k = pending_storage_key

DeletionAsked == del.pc # "idle" => asked

\* What storage has, until the owner asks for the deletion.
StoredKeys ==
  ~asked =>
    /\ present => objects[storage_key] # Missing
    /\ \A k \in streams : objects[k] # Missing
    /\ \A w \in Workers : pc[w] = "complete" => objects[RevisionKey(job[w])] # Missing
    /\ present => \A k \in Key : objects[k] # Missing => Named(k) \/ garbage[k] # "no"

Places == MetKeys /\ RowKeys /\ JobKeys /\ PlayedKeys /\ CollectorKeys /\ DeletionAsked

-----------------------------------------------------------------------------
(* Facts about the operators.                                                *)

\* What the queue of garbage says of a key after another one, or it, was queued.
LEMMA QueuedAt ==
  ASSUME TypeOK, NEW k \in Key, NEW d \in {"grace", "due"}, NEW x \in Key
  PROVE  /\ x # k => Queued(k, d)[x] = garbage[x]
         /\ Queued(k, d)[x] = "no" => garbage[x] = "no" /\ x # k
         /\ Queued(k, d)[x] = "due" => garbage[x] = "due" \/ (x = k /\ d = "due")
         /\ garbage[x] = "due" => Queued(k, d)[x] = "due"
BY DEF TypeOK, Queued

\* A key that was met stays met.
LEMMA MetStays ==
  ASSUME TypeOK, TypeOK', [Next]_vars, NEW k \in Key, Met(k)
  PROVE  Met(k)'
<1>1. CASE Edit
  BY <1>1 DEF Edit, TypeOK, Met, Used, Key, OriginalKey
<1>2. ASSUME NEW w \in Workers, Claim(w) PROVE Met(k)'
  BY <1>2 DEF Claim, NextAttempt, TypeOK, Met, Used, Key, OriginalKey
<1>3. CASE UNCHANGED <<metadata_version, tag_attempts>>
  BY <1>3 DEF Met, Used
<1> QED
  BY <1>1, <1>2, <1>3, KeyStep

\* The key of a job: no other job's, no original, and met while it is at work.
LEMMA JobKey ==
  ASSUME KeyInv, NEW w \in Workers
  PROVE  /\ RevisionKey(job[w]) \in Key
         /\ RevisionKey(job[w]) # NoKey
         /\ Busy(w) => Met(RevisionKey(job[w]))
<1>1. RevisionKey(job[w]) \in Key
  BY RevisionKeyType DEF KeyInv
<1> QED
  BY <1>1, ConstantTypes DEF KeyInv, BusyKeysAreUsed, Met

\* The key a claim makes was met nowhere.
LEMMA ClaimedKey ==
  ASSUME TypeOK, NEW w \in Workers, Claim(w)
  PROVE  /\ RevisionKey(job'[w]) = <<metadata_version, tag_attempts + 1>>
         /\ RevisionKey(job'[w]) \in Key
         /\ ~Met(RevisionKey(job'[w]))
<1>1. job'[w] = [version |-> metadata_version, attempts |-> tag_attempts + 1,
                 source |-> storage_key, failure |-> "none", uploaded |-> FALSE]
  BY DEF Claim, NextAttempt, TypeOK
<1>2. RevisionKey(job'[w]) = <<metadata_version, tag_attempts + 1>>
  BY <1>1 DEF RevisionKey
<1>3. metadata_version \in Nat /\ metadata_version > 0 /\ tag_attempts \in Nat
  BY BoundsAssumption DEF TypeOK
<1>4. <<metadata_version, tag_attempts + 1>> \in Key
  BY BoundsAssumption DEF Claim, AttemptsLeft, TypeOK, Key
<1> QED
  BY <1>2, <1>3, <1>4 DEF Met, Used, OriginalKey

\* A failed attempt keeps its key.
LEMMA GivenKey ==
  ASSUME TypeOK, NEW w \in Workers, NEW f, NEW u \in BOOLEAN, Give(w, f, u)
  PROVE  /\ RevisionKey(job'[w]) = RevisionKey(job[w])
         /\ job'[w].uploaded <=> u
         /\ pc'[w] = "fail"
BY DEF Give, TypeOK, Job, RevisionKey

-----------------------------------------------------------------------------
(* Every step keeps every key in its place.                                  *)

\* The steps of the row's owner, of players and of time.
LEMMA OutsideKeepsPlaces ==
  ASSUME OneWorker, KeyInv, KeyInv', Places, [Next]_vars,
         \/ Edit \/ Stream \/ TimeStep \/ UNCHANGED vars
  PROVE  Places'
<1>1. TypeOK /\ TypeOK'
  BY DEF KeyInv
<1>2. \A k \in Key : Met(k) => Met(k)'
  BY <1>1, MetStays
<1>3. CASE UNCHANGED vars
  BY <1>3
  DEF vars, store, row, storage, others, Places, MetKeys, RowKeys, JobKeys, PlayedKeys,
      CollectorKeys, DeletionAsked, Working, Recorded, RevisionKey, Met, Used
<1>4. CASE Edit
  BY <1>1, <1>2, <1>4
  DEF Edit, storage, others, TypeOK, Places, MetKeys, RowKeys, JobKeys, PlayedKeys,
      CollectorKeys, DeletionAsked, Working, Recorded, RevisionKey
<1>5. CASE Stream
  BY <1>1, <1>2, <1>5
  DEF Stream, store, row, others, TypeOK, Places, MetKeys, RowKeys, JobKeys, PlayedKeys,
      CollectorKeys, DeletionAsked, Working, Recorded, RevisionKey
<1>6. CASE RetryDue \/ \E w \in Workers : LeaseExpires(w)
  BY <1>1, <1>2, <1>6
  DEF RetryDue, LeaseExpires, storage, others, TypeOK, Places, MetKeys, RowKeys, JobKeys,
      PlayedKeys, CollectorKeys, DeletionAsked, Working, Recorded, RevisionKey
<1>7. ASSUME NEW k \in Key, GraceOver(k) PROVE Places'
  BY <1>1, <1>2, <1>7
  DEF GraceOver, row, storage, others, TypeOK, Places, MetKeys, RowKeys, JobKeys,
      PlayedKeys, CollectorKeys, DeletionAsked, Working, Recorded, RevisionKey
<1>8. ASSUME NEW k \in Key, StreamExpires(k) PROVE Places'
  BY <1>1, <1>2, <1>8
  DEF StreamExpires, store, row, others, TypeOK, Places, MetKeys, RowKeys, JobKeys,
      PlayedKeys, CollectorKeys, DeletionAsked, Working, Recorded, RevisionKey
<1> QED
  BY <1>3, <1>4, <1>5, <1>6, <1>7, <1>8 DEF TimeStep

\* The steps of the collector and of a deletion.
LEMMA RemovalKeepsPlaces ==
  ASSUME OneWorker, KeyInv, KeyInv', Places, [Next]_vars,
         \/ CollectStep \/ CollectAbort \/ DeleteStep
  PROVE  Places'
<1>1. TypeOK /\ TypeOK'
  BY DEF KeyInv
<1>2. \A k \in Key : Met(k) => Met(k)'
  BY <1>1, MetStays
<1> USE DEF MetKeys, RowKeys, JobKeys, PlayedKeys, CollectorKeys, DeletionAsked, Working,
            Recorded, RevisionKey, Places
<1>3. CASE CollectSelect
  BY <1>1, <1>2, <1>3 DEF CollectSelect, InUse, store, row, storage, TypeOK
<1>4. ASSUME NEW k \in Key, CollectRemove(k) PROVE Places'
  BY <1>1, <1>2, <1>4 DEF CollectRemove, store, row, TypeOK
<1>5. CASE CollectCommit
  <2>1. \A k \in Key : garbage'[k] = IF k \in gc.locked THEN "no" ELSE garbage[k]
    BY <1>1, <1>5 DEF CollectCommit
  <2>2. gc'.locked = {} /\ gc'.doomed = {}
    BY <1>1, <1>5 DEF CollectCommit, TypeOK
  <2>3. \A w \in Workers : RevisionKey(job[w]) \in Key
    BY <1>1, RevisionKeyType
  <2>4. MetKeys'
    BY <1>1, <1>2, <1>5, <2>1 DEF CollectCommit, row, storage, TypeOK
  <2>5. JobKeys'
    BY <1>5, <2>1, <2>3 DEF CollectCommit, row, storage
  <2>6. RowKeys' /\ PlayedKeys' /\ CollectorKeys' /\ DeletionAsked'
    BY <1>1, <1>5, <2>1, <2>2 DEF CollectCommit, row, storage, TypeOK
  <2> QED
    BY <2>4, <2>5, <2>6
<1>6. CASE CollectAbort
  BY <1>1, <1>2, <1>6 DEF CollectAbort, store, row, storage, TypeOK
<1>7. CASE DeleteRead
  BY <1>1, <1>2, <1>7 DEF DeleteRead, store, row, storage, TypeOK
<1>8. CASE DeleteObject
  BY <1>1, <1>2, <1>8 DEF DeleteObject, store, row, TypeOK
<1>9. CASE DeletePending
  BY <1>1, <1>2, <1>9 DEF DeletePending, store, row, TypeOK
<1>10. CASE DeleteRow
  BY <1>1, <1>2, <1>10 DEF DeleteRow, NoDelete, storage, TypeOK
<1>11. CASE DeleteFails
  BY <1>1, <1>2, <1>11 DEF DeleteFails, NoDelete, store, row, storage, TypeOK
<1> QED
  BY <1>3, <1>4, <1>5, <1>6, <1>7, <1>8, <1>9, <1>10, <1>11 DEF CollectStep, DeleteStep

\* The steps of a job up to its upload, and a crash at any of its steps.
LEMMA JobKeepsPlaces ==
  ASSUME OneWorker, KeyInv, KeyInv', Places, [Next]_vars, NEW w \in Workers,
         \/ Claim(w) \/ ClaimExhausted(w) \/ Rewrite(w) \/ ProcessFails(w)
         \/ RecordPendingObject(w) \/ Put(w) \/ Stat(w) \/ Crash(w)
  PROVE  Places'
<1>1. TypeOK /\ TypeOK' /\ \A v \in Workers : v = w
  BY DEF KeyInv, OneWorker
<1>2. \A k \in Key : Met(k) => Met(k)'
  BY <1>1, MetStays
<1>3. /\ RevisionKey(job[w]) \in Key
      /\ RevisionKey(job[w]) # NoKey
      /\ Busy(w) => Met(RevisionKey(job[w]))
  BY JobKey
<1> USE DEF MetKeys, RowKeys, JobKeys, PlayedKeys, CollectorKeys, DeletionAsked, Working,
            Recorded, Places
<1>4. ASSUME NEW key \in Key, garbage' = Queued(key, "due"), Met(key), key # storage_key,
             key \notin gc.locked, key \notin streams
      PROVE  /\ \A k \in Key : garbage'[k] # "no" => Met(k)
             /\ garbage'[storage_key] = garbage[storage_key]
             /\ \A k \in streams : garbage'[k] = garbage[k]
             /\ \A k \in gc.locked : garbage'[k] = "due"
  BY <1>1, <1>4, QueuedAt DEF TypeOK
<1>5. ASSUME Claim(w) \/ ClaimExhausted(w) PROVE Places'
  <2> USE <1>5
  <2>1. Claimable /\ UNCHANGED <<present, storage_key, streams, objects, gc, del, asked>>
    BY DEF Claim, ClaimExhausted, storage, others
  <2>2. /\ \A k \in Key : garbage'[k] # "no" => Met(k)
        /\ garbage'[storage_key] = garbage[storage_key]
        /\ \A k \in streams : garbage'[k] = garbage[k]
        /\ \A k \in gc.locked : garbage'[k] = "due"
    <3>1. CASE Abandoned
      BY <1>1, <1>4, <2>1, <3>1 DEF Claimable, Abandoned, Unlocked, TypeOK
    <3>2. CASE ~Abandoned
      BY <1>1, <2>1, <3>2 DEF Claimable, TypeOK
    <3> QED
      BY <3>1, <3>2
  <2>3. /\ present /\ pending_storage_key' = NoKey
        /\ pending_storage_key \notin gc.locked /\ NoKey \notin Key
    BY <1>1, <2>1, ConstantTypes DEF Claimable, Abandoned, Unlocked, TypeOK
  <2>4. MetKeys'
    BY <1>1, <1>2, <2>1, <2>2, <2>3 DEF TypeOK
  <2>5. RowKeys' /\ PlayedKeys' /\ CollectorKeys' /\ DeletionAsked'
    BY <1>1, <2>1, <2>2, <2>3 DEF TypeOK
  <2>6. JobKeys'
    <3>1. CASE Claim(w)
      <4>1. pc'[w] = "process"
        BY <1>1, <3>1 DEF Claim, Goto, TypeOK
      <4>2. ~Met(RevisionKey(job'[w])) /\ RevisionKey(job'[w]) \in Key
        BY <1>1, <3>1, ClaimedKey
      <4> QED
        BY <1>1, <2>1, <2>2, <2>3, <4>1, <4>2 DEF TypeOK
    <3>2. CASE ClaimExhausted(w)
      BY <1>1, <3>2 DEF ClaimExhausted
    <3> QED
      BY <1>5, <3>1, <3>2
  <2> QED
    BY <2>4, <2>5, <2>6
<1>6. ASSUME UNCHANGED <<row, garbage, streams, gc, del, asked>>,
             \A k \in Key : k # RevisionKey(job[w]) => objects'[k] \in {objects[k], Missing},
             objects'[RevisionKey(job[w])] # objects[RevisionKey(job[w])] => Working(w),
             \/ pc'[w] = "idle"
             \/ /\ RevisionKey(job'[w]) = RevisionKey(job[w])
                /\ Working(w) /\ (Recorded(w)' <=> Recorded(w))
      PROVE  Places'
  <2>1. MetKeys' /\ RowKeys' /\ PlayedKeys' /\ DeletionAsked'
    BY <1>1, <1>2, <1>6 DEF row, TypeOK
  <2>2. JobKeys'
    BY <1>1, <1>6 DEF row
  <2>3. CollectorKeys'
    BY <1>1, <1>3, <1>6 DEF row, TypeOK
  <2> QED
    BY <2>1, <2>2, <2>3
<1>7. CASE Rewrite(w)
  BY <1>1, <1>6, <1>7 DEF Rewrite, Goto, store, storage, others, TypeOK
<1>8. CASE ProcessFails(w)
  <2>1. PICK f \in {"retry", "final", "unsupported"} : Give(w, f, FALSE)
    BY <1>8 DEF ProcessFails
  <2>2. RevisionKey(job'[w]) = RevisionKey(job[w]) /\ ~job'[w].uploaded /\ pc'[w] = "fail"
    BY <1>1, <2>1, GivenKey
  <2> QED
    BY <1>1, <1>6, <1>8, <2>2 DEF ProcessFails, store, storage, others
<1>9. CASE Put(w)
  <2>1. /\ UNCHANGED <<row, garbage, streams, gc, del, asked>> /\ pc[w] = "put"
        /\ \A k \in Key : k # RevisionKey(job[w]) => objects'[k] = objects[k]
    BY <1>1, <1>9 DEF Put, store, others, TypeOK
  <2>2. RevisionKey(job'[w]) = RevisionKey(job[w]) /\ Recorded(w)'
    <3>1. CASE Give(w, "retry", TRUE)
      BY <1>1, <3>1, GivenKey
    <3>2. CASE pc' = [pc EXCEPT ![w] = "stat"] /\ job' = job
      BY <1>1, <3>2 DEF TypeOK
    <3> QED
      BY <1>9, <3>1, <3>2 DEF Put
  <2> QED
    BY <1>6, <2>1, <2>2
<1>10. CASE Stat(w)
  <2>1. UNCHANGED <<row, garbage, objects, streams, gc, del, asked>> /\ pc[w] = "stat"
    BY <1>10 DEF Stat, store, storage, others
  <2>2. RevisionKey(job'[w]) = RevisionKey(job[w]) /\ Recorded(w)'
    <3>1. CASE Give(w, "retry", TRUE)
      BY <1>1, <3>1, GivenKey
    <3>2. CASE pc' = [pc EXCEPT ![w] = "complete"] /\ job' = job
      BY <1>1, <3>2 DEF TypeOK
    <3> QED
      BY <1>10, <3>1, <3>2 DEF Stat
  <2> QED
    BY <1>6, <2>1, <2>2
<1>11. CASE Crash(w)
  <2>1. pc'[w] = "idle"
    BY <1>1, <1>11 DEF Crash, Done, TypeOK
  <2> QED
    BY <1>6, <1>11, <2>1 DEF Crash, store, storage, others
<1>12. CASE RecordPendingObject(w)
  <2>1. /\ UNCHANGED <<present, storage_key, garbage, objects, streams, gc, del, asked>>
        /\ pc[w] = "record"
    BY <1>12 DEF RecordPendingObject, storage, others
  <2>2. \/ /\ pending_storage_key' = RevisionKey(job[w])
           /\ pc'[w] = "put" /\ job' = job
        \/ pending_storage_key' = pending_storage_key /\ pc'[w] = "release"
        \/ /\ pending_storage_key' = pending_storage_key
           /\ RevisionKey(job'[w]) = RevisionKey(job[w])
           /\ pc'[w] = "fail" /\ ~job'[w].uploaded
    <3>1. CASE Give(w, "retry", FALSE) /\ UNCHANGED pending_storage_key
      BY <1>1, <3>1, GivenKey
    <3> QED
      BY <1>1, <1>12, <3>1 DEF RecordPendingObject, TypeOK
  <2>3. pending_storage_key = NoKey
    BY <2>1
  <2>4. MetKeys' /\ RowKeys' /\ PlayedKeys' /\ DeletionAsked'
    BY <1>1, <1>2, <1>3, <2>1, <2>2 DEF Busy, TypeOK
  <2>5. JobKeys'
    BY <1>1, <2>1, <2>2, <2>3
  <2>6. CollectorKeys'
    BY <1>1, <1>3, <2>1, <2>2, <2>3, ConstantTypes DEF TypeOK
  <2> QED
    BY <2>4, <2>5, <2>6
<1> QED
  BY <1>5, <1>7, <1>8, <1>9, <1>10, <1>11, <1>12

\* The steps that end a job: its key is queued, swapped in or left in the row.
LEMMA OutcomeKeepsPlaces ==
  ASSUME OneWorker, KeyInv, KeyInv', Places, [Next]_vars, NEW w \in Workers,
         \/ CompleteDeleted(w) \/ CompleteSuperseded(w) \/ CompleteOverQuota(w)
         \/ CompleteSwap(w) \/ CompleteError(w)
         \/ ReleaseTagRewrite(w) \/ FailTagRewrite(w)
  PROVE  Places'
<1> DEFINE key == RevisionKey(job[w])
<1>1. TypeOK /\ TypeOK' /\ \A v \in Workers : v = w
  BY DEF KeyInv, OneWorker
<1>2. \A k \in Key : Met(k) => Met(k)'
  BY <1>1, MetStays
<1>3. key \in Key /\ key # NoKey /\ NoKey \notin Key /\ (Busy(w) => Met(key))
  BY JobKey, ConstantTypes
<1> HIDE DEF key
<1> USE DEF MetKeys, RowKeys, JobKeys, PlayedKeys, CollectorKeys, DeletionAsked, Working,
            Recorded, Places
<1>4. Working(w) => /\ garbage[key] = "no" /\ key # storage_key
                    /\ key \notin streams /\ key \notin gc.locked
  BY <1>3 DEF key
\* The key is queued, or is not, and the row's pending key is as it was or none.
<1>5. ASSUME Working(w), pc'[w] \in {"idle", "release"},
             garbage' \in {garbage, Queued(key, "due")},
             pending_storage_key' \in {pending_storage_key, NoKey},
             UNCHANGED <<present, storage_key, objects, streams, gc, del, asked>>
      PROVE  Places'
  <2>1. \A k \in Key : k # key => garbage'[k] = garbage[k]
    BY <1>1, <1>3, <1>5, QueuedAt
  <2>2. pending_storage_key \in {NoKey, key}
    BY <1>5 DEF key
  <2>3. MetKeys'
    BY <1>1, <1>2, <1>3, <1>5, <2>1 DEF Busy, TypeOK
  <2>4. RowKeys' /\ PlayedKeys' /\ DeletionAsked'
    BY <1>1, <1>3, <1>4, <1>5, <2>1 DEF TypeOK
  <2>5. CollectorKeys'
    BY <1>1, <1>3, <1>4, <1>5, <2>1, <2>2 DEF TypeOK
  <2>6. JobKeys'
    BY <1>1, <1>5
  <2> QED
    BY <2>3, <2>4, <2>5, <2>6
<1>6. CASE CompleteDeleted(w) \/ CompleteSuperseded(w)
  BY <1>1, <1>5, <1>6
  DEF CompleteDeleted, CompleteSuperseded, Goto, row, storage, others, TypeOK, key
<1>7. CASE CompleteOverQuota(w)
  BY <1>1, <1>5, <1>7 DEF CompleteOverQuota, Done, storage, others, TypeOK, key
<1>8. CASE FailTagRewrite(w)
  BY <1>1, <1>5, <1>8 DEF FailTagRewrite, Done, storage, others, TypeOK, key
<1>9. CASE CompleteSwap(w)
  <2>1. /\ pc[w] = "complete" /\ pc'[w] = "idle" /\ present
        /\ storage_key \notin gc.locked
        /\ garbage' = Queued(storage_key, "grace")
        /\ storage_key' = key /\ pending_storage_key' = NoKey
        /\ UNCHANGED <<present, objects, streams, gc, del, asked>>
    BY <1>1, <1>9 DEF CompleteSwap, Swap, Done, Unlocked, storage, others, TypeOK, key
  <2>2. /\ \A k \in Key : k # storage_key => garbage'[k] = garbage[k]
        /\ garbage'[storage_key] # "due"
    BY <1>1, <2>1, QueuedAt DEF TypeOK
  <2>3. pending_storage_key = key
    BY <2>1 DEF key
  <2>4. MetKeys'
    BY <1>1, <1>2, <1>3, <2>1, <2>2 DEF Busy, TypeOK
  <2>5. RowKeys' /\ PlayedKeys' /\ DeletionAsked'
    BY <1>1, <1>3, <1>4, <2>1, <2>2 DEF TypeOK
  <2>6. CollectorKeys'
    BY <1>1, <1>3, <1>4, <2>1, <2>2, <2>3 DEF TypeOK
  <2>7. JobKeys'
    BY <1>1, <2>1
  <2> QED
    BY <2>4, <2>5, <2>6, <2>7
\* The row is as it was, and the job ends or keeps its key.
<1>10. ASSUME UNCHANGED <<present, storage_key, pending_storage_key, garbage, storage, gc,
                          del, asked>>,
              \/ pc'[w] = "idle"
              \/ Working(w) /\ Recorded(w) /\ Recorded(w)' /\ RevisionKey(job'[w]) = key
       PROVE  Places'
  <2>1. MetKeys' /\ RowKeys' /\ PlayedKeys' /\ DeletionAsked' /\ CollectorKeys'
    BY <1>1, <1>2, <1>10 DEF storage, TypeOK
  <2>2. JobKeys'
    BY <1>1, <1>10 DEF storage, key
  <2> QED
    BY <2>1, <2>2
<1>11. CASE CompleteError(w)
  <2>1. /\ UNCHANGED <<store, storage, others>> /\ Give(w, "retry", TRUE)
        /\ pc[w] = "complete"
    BY <1>11 DEF CompleteError, OneWorker
  <2>2. RevisionKey(job'[w]) = key /\ job'[w].uploaded /\ pc'[w] = "fail"
    BY <1>1, <2>1, GivenKey DEF key
  <2> QED
    BY <1>10, <2>1, <2>2 DEF store, row, others
<1>12. CASE ReleaseTagRewrite(w)
  BY <1>1, <1>10, <1>12 DEF ReleaseTagRewrite, Done, others, TypeOK
<1> QED
  BY <1>6, <1>7, <1>8, <1>9, <1>11, <1>12

LEMMA PlacesStep ==
  ASSUME OneWorker, KeyInv, KeyInv', Places, [Next]_vars
  PROVE  Places'
BY OutsideKeepsPlaces, RemovalKeepsPlaces, JobKeepsPlaces, OutcomeKeepsPlaces
DEF Next, WorkerStep

-----------------------------------------------------------------------------
(* What storage has.                                                         *)

\* Until a deletion is asked for, only the collector removes objects, and only
\* keys it has doomed.
LEMMA RemovedAreDoomed ==
  ASSUME TypeOK, DeletionAsked, [Next]_vars, ~asked
  PROVE  \A k \in Key : objects[k] # Missing /\ objects'[k] = Missing => k \in gc.doomed
<1>1. ASSUME NEW w \in Workers, Put(w)
      PROVE  \A k \in Key : objects[k] # Missing => objects'[k] # Missing
  <2>1. job[w].version # Missing
    BY DEF TypeOK, Job, Missing
  <2> QED
    BY <1>1, <2>1 DEF Put, TypeOK
<1>2. ASSUME NEW w \in Workers, WorkerStep(w) \/ Crash(w), ~Put(w)
      PROVE  objects' = objects
  BY <1>2
  DEF WorkerStep, Crash, Claim, ClaimExhausted, Rewrite, ProcessFails, RecordPendingObject, Stat,
      CompleteDeleted, CompleteSuperseded, CompleteOverQuota, CompleteSwap, CompleteError, Swap,
      ReleaseTagRewrite, FailTagRewrite, storage
<1>3. CASE Edit \/ Stream \/ TimeStep \/ CollectAbort \/ UNCHANGED vars
  BY <1>3 DEF Edit, Stream, TimeStep, RetryDue, LeaseExpires, GraceOver, StreamExpires,
              CollectAbort, storage, vars
<1>4. CASE CollectStep
  BY <1>4 DEF CollectStep, CollectSelect, CollectRemove, CollectCommit, storage, TypeOK
<1>5. CASE DeleteStep
  BY <1>5 DEF DeleteStep, DeletionAsked, DeleteRead, DeleteObject, DeletePending, DeleteRow,
              DeleteFails, storage
<1> QED
  BY <1>1, <1>2, <1>3, <1>4, <1>5 DEF Next

\* No step loses track of a key: the row names it, or it is queued.
LEMMA NamedStep ==
  ASSUME OneWorker, KeyInv, Places, [Next]_vars, present, present', NEW k \in Key, Named(k)
  PROVE  Named(k)' \/ garbage'[k] # "no"
<1>1. TypeOK
  BY DEF KeyInv
<1>2. CASE Edit \/ Stream \/ TimeStep \/ CollectStep \/ CollectAbort \/ DeleteStep \/ UNCHANGED vars
  BY <1>2
  DEF Edit, Stream, TimeStep, RetryDue, LeaseExpires, GraceOver, StreamExpires, CollectStep,
      CollectSelect, CollectRemove, CollectCommit, CollectAbort, DeleteStep, DeleteRead,
      DeleteObject, DeletePending, DeleteRow, DeleteFails, vars, store, row, Named
<1>3. ASSUME NEW w \in Workers, WorkerStep(w) \/ Crash(w)
      PROVE  Named(k)' \/ garbage'[k] # "no"
  <2> DEFINE key == RevisionKey(job[w])
  <2>1. /\ key \in Key /\ NoKey \notin Key
        /\ \A x \in Key : \A d \in {"grace", "due"} : Queued(x, d)[x] # "no"
    BY <1>1, RevisionKeyType, ConstantTypes, QueuedAt
  <2>2. Working(w) => pending_storage_key = IF Recorded(w) THEN key ELSE NoKey
    BY DEF Places, JobKeys
  <2> HIDE DEF key
  <2>3. CASE UNCHANGED row
    BY <2>3 DEF row, Named
  <2>4. CASE Claim(w) \/ ClaimExhausted(w)
    BY <2>1, <2>4 DEF Claim, ClaimExhausted, Claimable, Abandoned, Named
  <2>5. CASE RecordPendingObject(w)
    BY <2>1, <2>2, <2>5 DEF RecordPendingObject, Working, Recorded, Named
  <2>6. CASE CompleteSuperseded(w) \/ CompleteOverQuota(w)
    BY <2>1, <2>2, <2>6
    DEF CompleteSuperseded, CompleteOverQuota, Goto, Working, Recorded, Named, key
  <2>7. CASE Swap(w) /\ pc[w] = "complete"
    BY <2>1, <2>2, <2>7 DEF Swap, Working, Recorded, Named, key
  <2>8. CASE FailTagRewrite(w)
    BY <2>1, <2>2, <2>8 DEF FailTagRewrite, Working, Recorded, Named, key
  <2>9. CASE ReleaseTagRewrite(w)
    BY <2>9 DEF ReleaseTagRewrite, Named
  <2> QED
    BY <1>3, <2>3, <2>4, <2>5, <2>6, <2>7, <2>8, <2>9
    DEF WorkerStep, Crash, Rewrite, ProcessFails, Put, Stat, CompleteDeleted, CompleteSwap,
        CompleteError, store
<1> QED
  BY <1>2, <1>3 DEF Next

\* Only Put adds an object, only Stream a stream, only a commit takes a key out of
\* the queue, and only Stat leads to the swap.
LEMMA OtherStep ==
  ASSUME TypeOK, [Next]_vars
  PROVE  /\ asked => asked'
         /\ Stream \/ streams' \subseteq streams
         /\ CollectCommit \/ \A k \in Key : garbage'[k] = "no" => garbage[k] = "no"
         /\ \/ \E w \in Workers : Put(w)
            \/ \A k \in Key : objects[k] = Missing => objects'[k] = Missing
         /\ \A w \in Workers : pc'[w] = "complete" =>
              /\ job'[w] = job[w]
              /\ pc[w] = "complete" \/ (Stat(w) /\ objects'[RevisionKey(job[w])] # Missing)
<1>1. CASE Edit \/ Stream \/ TimeStep \/ CollectAbort \/ UNCHANGED vars
  BY <1>1
  DEF Edit, Stream, TimeStep, RetryDue, LeaseExpires, GraceOver, StreamExpires, CollectAbort,
      vars, store, storage, others, TypeOK
<1>2. CASE CollectStep \/ DeleteStep
  BY <1>2
  DEF CollectStep, CollectSelect, CollectRemove, CollectCommit, DeleteStep, DeleteRead,
      DeleteObject, DeletePending, DeleteRow, DeleteFails, store, storage, TypeOK
<1>3. ASSUME NEW w \in Workers, WorkerStep(w) \/ Crash(w)
      PROVE  /\ UNCHANGED <<asked, streams>>
             /\ \A k \in Key : garbage'[k] = "no" => garbage[k] = "no"
             /\ Put(w) \/ objects' = objects
             /\ \A v \in Workers : pc'[v] = "complete" =>
                  /\ job'[v] = job[v]
                  /\ pc[v] = "complete" \/ (Stat(v) /\ objects'[RevisionKey(job[v])] # Missing)
  <2>1. RevisionKey(job[w]) \in Key
    BY RevisionKeyType
  <2>2. \A x \in Key : \A d \in {"grace", "due"} : \A k \in Key :
          Queued(x, d)[k] = "no" => garbage[k] = "no"
    BY QueuedAt
  <2>3. CASE Claim(w) \/ ClaimExhausted(w)
    BY <2>2, <2>3
    DEF Claim, ClaimExhausted, Claimable, Abandoned, Goto, storage, others, TypeOK
  <2>4. CASE Rewrite(w) \/ ProcessFails(w) \/ RecordPendingObject(w) \/ Crash(w)
    BY <2>4
    DEF Rewrite, ProcessFails, RecordPendingObject, Crash, Goto, Give, Done, store, storage,
        others, TypeOK
  <2>5. CASE Put(w) \/ Stat(w)
    BY <2>5 DEF Put, Stat, Give, store, storage, others, TypeOK
  <2>6. CASE CompleteDeleted(w) \/ CompleteSuperseded(w) \/ CompleteOverQuota(w)
    BY <2>1, <2>2, <2>6
    DEF CompleteDeleted, CompleteSuperseded, CompleteOverQuota, Goto, Done, row, storage, others,
        TypeOK
  <2>7. CASE CompleteSwap(w) \/ CompleteError(w)
    BY <2>2, <2>7
    DEF CompleteSwap, CompleteError, Swap, Give, Done, store, storage, others, TypeOK
  <2>8. CASE ReleaseTagRewrite(w) \/ FailTagRewrite(w)
    BY <2>1, <2>2, <2>8 DEF ReleaseTagRewrite, FailTagRewrite, Done, storage, others, TypeOK
  <2> QED
    BY <1>3, <2>3, <2>4, <2>5, <2>6, <2>7, <2>8 DEF WorkerStep
<1> QED
  BY <1>1, <1>2, <1>3 DEF Next

\* So nothing that is named, played or about to be swapped in is removed.
LEMMA StoredStep ==
  ASSUME OneWorker, KeyInv, Places, StoredKeys, [Next]_vars
  PROVE  StoredKeys'
<1>1. SUFFICES ASSUME ~asked' PROVE StoredKeys'
  BY DEF StoredKeys
<1>2. TypeOK /\ ~asked
  BY <1>1, OtherStep DEF KeyInv
<1>3. /\ present => storage_key \notin gc.doomed
      /\ \A k \in streams : k \notin gc.doomed
      /\ \A w \in Workers : Working(w) => RevisionKey(job[w]) \notin gc.doomed
  BY DEF Places, RowKeys, PlayedKeys, JobKeys, CollectorKeys
<1>4. \A k \in Key : objects[k] # Missing /\ k \notin gc.doomed => objects'[k] # Missing
  BY <1>2, RemovedAreDoomed DEF Places
<1>5. \A w \in Workers : pc[w] = "complete" => objects'[RevisionKey(job[w])] # Missing
  BY <1>2, <1>3, <1>4, RevisionKeyType DEF StoredKeys, Working
<1>6. (present' => present) /\ (\/ storage_key' = storage_key
                               \/ \E w \in Workers : pc[w] = "complete" /\ Swap(w))
  BY <1>2, VersionStep DEF Edit, Swap
<1>7. present => objects'[storage_key] # Missing
  BY <1>2, <1>3, <1>4 DEF StoredKeys, TypeOK
<1>8. present' => objects'[storage_key'] # Missing
  BY <1>5, <1>6, <1>7 DEF Swap
<1>9. \A k \in streams' : objects'[k] # Missing
  BY <1>2, <1>3, <1>4, <1>7, OtherStep DEF StoredKeys, Stream, TypeOK
<1>10. \A w \in Workers : pc'[w] = "complete" => objects'[RevisionKey(job'[w])] # Missing
  BY <1>2, <1>5, OtherStep DEF RevisionKey
<1>11. ASSUME NEW k \in Key, present', objects'[k] # Missing
       PROVE  Named(k)' \/ garbage'[k] # "no"
  <2>1. CASE objects[k] = Missing
    <3>1. PICK w \in Workers : Put(w)
      BY <1>2, <1>11, <2>1, OtherStep
    <3>2. k = RevisionKey(job[w])
      BY <1>2, <1>11, <2>1, <3>1 DEF Put, TypeOK
    <3> QED
      BY <3>1, <3>2 DEF Put, Places, JobKeys, Working, Recorded, Named, store, row
  <2>2. CASE Named(k)
    BY <1>6, <1>11, <2>2, NamedStep
  <2>3. CASE garbage[k] # "no" /\ garbage'[k] = "no" /\ objects[k] # Missing
    <3>1. CollectCommit
      BY <1>2, <2>3, OtherStep
    <3>2. k \in gc.locked \ gc.doomed
      BY <1>2, <2>3, <3>1 DEF CollectCommit, TypeOK
    <3> QED
      BY <1>6, <1>11, <2>3, <3>1, <3>2 DEF CollectCommit, Places, CollectorKeys, Named, row
  <2> QED
    BY <1>2, <1>6, <1>11, <2>1, <2>2, <2>3 DEF StoredKeys
<1> QED
  BY <1>8, <1>9, <1>10, <1>11 DEF StoredKeys

-----------------------------------------------------------------------------
(* The theorems.                                                             *)

LEMMA PlacesHold == OneWorker => (Spec => [](KeyInv /\ Places /\ StoredKeys))
<1> SUFFICES ASSUME OneWorker PROVE Spec => [](KeyInv /\ Places /\ StoredKeys)
  OBVIOUS
<1>1. Init /\ KeyInv => Places /\ StoredKeys
  <2> SUFFICES ASSUME Init, KeyInv PROVE Places /\ StoredKeys
    OBVIOUS
  <2>1. /\ OriginalKey \in Key /\ OriginalKey # NoKey /\ Met(OriginalKey)
        /\ \A w \in Workers : pc[w] = "idle"
    BY ConstantTypes DEF Init, Met
  <2>2. /\ objects[OriginalKey] # Missing
        /\ \A k \in Key : objects[k] # Missing => k = OriginalKey
    BY <2>1 DEF Init, Missing
  <2> QED
    BY <2>1, <2>2
    DEF Init, Places, MetKeys, RowKeys, JobKeys, PlayedKeys, CollectorKeys, DeletionAsked,
        StoredKeys, Working, NoDelete, Named
<1>2. KeyInv /\ KeyInv' /\ Places /\ StoredKeys /\ [Next]_vars => (Places /\ StoredKeys)'
  BY PlacesStep, StoredStep
<1> QED
  BY <1>1, <1>2, KeyInvHolds, PTL DEF Spec

\* Until the owner asks for the deletion, the object the row names exists,
\* whatever fails, crashes or is overtaken by an edit.
THEOREM AudioIsNeverLost ==
  ASSUME OneWorker
  PROVE  Spec => []PlayableUntilDeleted
<1>1. StoredKeys => PlayableUntilDeleted
  BY DEF StoredKeys, PlayableUntilDeleted
<1> QED
  BY <1>1, PlacesHold, PTL

\* A presigned URL stays good until it expires, although the row moves on and
\* the collector removes what it replaced.
THEOREM PlayersKeepTheirFile ==
  ASSUME OneWorker
  PROVE  Spec => []PlaybackUndisturbed
<1>1. StoredKeys => PlaybackUndisturbed
  BY DEF StoredKeys, PlaybackUndisturbed
<1> QED
  BY <1>1, PlacesHold, PTL

\* No object is lost track of: the row names it, or it is queued for deletion.
THEOREM NothingIsForgotten ==
  ASSUME OneWorker
  PROVE  Spec => []NothingLeaks
<1>1. StoredKeys => NothingLeaks
  BY DEF StoredKeys, NothingLeaks
<1> QED
  BY <1>1, PlacesHold, PTL

\* The collector "never deletes a key a track still uses", although it decides
\* before it removes.
THEOREM CollectorIsSafe ==
  ASSUME OneWorker
  PROVE  Spec => CollectorSparesUsed
<1>1. KeyInv /\ Places /\ [Next]_vars =>
        [\A k \in Key : k \in gc.doomed /\ k \notin gc'.doomed /\ objects'[k] # objects[k]
           => ~(present /\ Named(k))]_vars
  BY DEF Places, RowKeys, CollectorKeys, Named
<1> QED
  BY <1>1, PlacesHold, PTL DEF Spec, CollectorSparesUsed
==============================================================================
