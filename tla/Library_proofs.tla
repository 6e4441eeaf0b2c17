---------------------------- MODULE Library_proofs ---------------------------
(***************************************************************************)
(* Proofs about the tracks of an account: about TrackUploads, the uploads  *)
(* into its library, for any number of tracks, any set of requests and     *)
(* sizes, and any limits, and about PlayQueue, the order its tracks play   *)
(* in, for any library and any length of the list, with or without a track *)
(* queued twice.  The two share no constant and no variable.               *)
(***************************************************************************)
EXTENDS TrackUploads, PlayQueue, FiniteSetTheorems, WellFoundedInduction, TLAPS

------------------------------------------------------------------------------
(***************************************************************************)
(* TrackUploads                                                            *)
(***************************************************************************)
LEMMA IdleType == Idle \in [pc : RequestPC, track : Tracks] /\ Idle.pc = "idle"
BY TracksAssumption DEF Idle, RequestPC, Tracks

\* A request that moves on keeps its track, and moves alone.
LEMMA GotoEffect ==
  ASSUME TypeOK, NEW r \in Requests, NEW there \in RequestPC, Goto(r, there)
  PROVE  /\ req' \in [Requests -> [pc : RequestPC, track : Tracks]]
         /\ req'[r].pc = there /\ req'[r].track = req[r].track
         /\ \A q \in Requests \ {r} : req'[q] = req[q]
BY DEF TypeOK, Goto

LEMMA StartEffect ==
  ASSUME TypeOK, NEW r \in Requests, NEW t \in Tracks, NEW there \in RequestPC,
         Start(r, t, there)
  PROVE  /\ req' \in [Requests -> [pc : RequestPC, track : Tracks]]
         /\ req[r].pc = "idle" /\ req'[r].pc = there /\ req'[r].track = t
         /\ \A q \in Requests \ {r} : req'[q] = req[q]
BY DEF TypeOK, Start, At

LEMMA ReturnEffect ==
  ASSUME TypeOK, NEW r \in Requests, Return(r)
  PROVE  /\ req' \in [Requests -> [pc : RequestPC, track : Tracks]]
         /\ req'[r].pc = "idle"
         /\ \A q \in Requests \ {r} : req'[q] = req[q]
BY IdleType DEF TypeOK, Return

LEMMA TypeInit == Init => TypeOK
BY IdleType, RequestAssumption DEF Init, TypeOK, NoCleanup, File

LEMMA TypeStep == TypeOK /\ [Next]_vars => TypeOK'
<1> SUFFICES ASSUME TypeOK, [Next]_vars PROVE TypeOK'
  OBVIOUS
<1> USE IdleType, RequestAssumption
<1>1. ASSUME NEW r \in Requests, NEW t \in Tracks, ReserveRead(r, t) PROVE TypeOK'
  BY <1>1 DEF ReserveRead, Start, At, Fresh, OwnerFree, TypeOK, RequestPC, rows, intent
<1>2. ASSUME NEW r \in Requests, NEW t \in Tracks, CompleteRead(r, t) PROVE TypeOK'
  BY <1>2 DEF CompleteRead, Start, At, TypeOK, RequestPC, rows, intent
<1>3. ASSUME NEW r \in Requests, NEW t \in Tracks, DeleteRead(r, t) PROVE TypeOK'
  BY <1>3 DEF DeleteRead, Start, At, Rows, TypeOK, RequestPC, rows, intent
<1>4. ASSUME NEW r \in Requests, NEW t \in Tracks, CopyRead(r, t) PROVE TypeOK'
  BY <1>4 DEF CopyRead, Start, At, Fresh, OwnerFree, TypeOK, RequestPC, rows, intent
<1>5. ASSUME NEW r \in Requests, ReserveInsert(r) PROVE TypeOK'
  BY <1>5 DEF ReserveInsert, At, Goto, Return, TypeOK, RequestPC, rows, intent
<1>6. ASSUME NEW r \in Requests, Presign(r) PROVE TypeOK'
  BY <1>6 DEF Presign, At, Goto, Return, DeleteRow, TypeOK, RequestPC, rows, intent
<1>7. ASSUME NEW r \in Requests, CompleteSize(r) PROVE TypeOK'
  BY <1>7 DEF CompleteSize, At, Goto, Return, TypeOK, RequestPC, rows, intent
<1>8. ASSUME NEW r \in Requests, CompleteHead(r) PROVE TypeOK'
  BY <1>8 DEF CompleteHead, At, Goto, Return, Matches, TypeOK, RequestPC, rows, intent
<1>9. ASSUME NEW r \in Requests, DiscardObject(r) PROVE TypeOK'
  BY <1>9 DEF DiscardObject, At, Goto, Return, TypeOK, RequestPC, rows, intent
<1>10. ASSUME NEW r \in Requests, DiscardRow(r) PROVE TypeOK'
  BY <1>10
  DEF DiscardRow, At, Goto, Return, DeleteRow, Unlocked, TypeOK, RequestPC, rows, intent
<1>11. ASSUME NEW r \in Requests, MarkReady(r) PROVE TypeOK'
  BY <1>11 DEF MarkReady, At, Goto, Return, Unlocked, TypeOK, RequestPC, rows, intent
<1>12. ASSUME NEW r \in Requests, DeleteObject(r) PROVE TypeOK'
  <2>1. CASE Goto(r, "row")
    BY <1>12, <2>1, GotoEffect DEF DeleteObject, At, TypeOK, RequestPC, rows, intent
  <2>2. CASE Return(r)
    BY <1>12, <2>2, ReturnEffect DEF DeleteObject, At, TypeOK, RequestPC, rows, intent
  <2> QED
    BY <1>12, <2>1, <2>2 DEF DeleteObject
<1>13. ASSUME NEW r \in Requests, DeleteTrackRow(r) PROVE TypeOK'
  BY <1>13
  DEF DeleteTrackRow, At, Goto, Return, DeleteRow, Unlocked, TypeOK, RequestPC, rows, intent
<1>14. ASSUME NEW r \in Requests, CopyInsert(r) PROVE TypeOK'
  BY <1>14 DEF CopyInsert, At, Goto, Return, TypeOK, RequestPC, rows, intent
<1>15. ASSUME NEW r \in Requests, CopyObject(r) PROVE TypeOK'
  BY <1>15 DEF CopyObject, At, Goto, Return, TypeOK, RequestPC, rows, intent
<1>16. ASSUME NEW r \in Requests, CopyMark(r) PROVE TypeOK'
  BY <1>16 DEF CopyMark, At, Goto, Return, Rows, Unlocked, TypeOK, RequestPC, rows, intent
<1>17. ASSUME NEW r \in Requests, CopyDiscard(r) PROVE TypeOK'
  BY <1>17 DEF CopyDiscard, At, Goto, Return, TypeOK, RequestPC, rows, intent
<1>18. ASSUME NEW r \in Requests, CopyDelete(r) PROVE TypeOK'
  BY <1>18
  DEF CopyDelete, At, Goto, Return, DeleteRow, Discardable, Unlocked, TypeOK, RequestPC,
      rows, intent
<1>19. ASSUME NEW r \in Requests, Abort(r) PROVE TypeOK'
  BY <1>19 DEF Abort, At, Goto, Return, TypeOK, RequestPC, rows, intent
<1>20. ASSUME NEW t \in Tracks, NEW bytes \in {"audio", "junk"}, ClientPut(t, bytes) PROVE TypeOK'
  <2>1. file' \in [Tracks -> File]
    BY <1>20 DEF ClientPut, TypeOK, File
  <2>2. switched' \in SUBSET Tracks
    BY <1>20 DEF ClientPut, TypeOK
  <2> QED
    BY <1>20, <2>1, <2>2 DEF ClientPut, TypeOK, rows
<1>21. ASSUME NEW t \in Tracks, FormExpires(t) PROVE TypeOK'
  BY <1>21 DEF FormExpires, TypeOK, RequestPC, rows, intent
<1>22. ASSUME NEW t \in Tracks, GrowStale(t) PROVE TypeOK'
  BY <1>22 DEF GrowStale, TypeOK, RequestPC, rows, intent
<1>23. ASSUME NEW t \in Tracks, CleanupRemove(t) PROVE TypeOK'
  BY <1>23 DEF CleanupRemove, TypeOK, RequestPC, rows, intent
<1>24. ASSUME NEW t \in Tracks, NEW size \in Sizes, Resize(t, size) PROVE TypeOK'
  BY <1>24 DEF Resize, TypeOK, RequestPC, rows, intent
<1>25. CASE CleanupSelect
  BY <1>25 DEF CleanupSelect, Abandoned, Pending, NoCleanup, TypeOK, RequestPC, rows, intent
<1>26. CASE CleanupCommit
  BY <1>26 DEF CleanupCommit, NoCleanup, TypeOK, RequestPC, rows, intent
<1>27. CASE CleanupRollback
  BY <1>27 DEF CleanupRollback, NoCleanup, TypeOK, RequestPC, rows, intent
<1>28. CASE UNCHANGED vars
  BY <1>28 DEF vars, rows, intent, TypeOK, RequestPC, rows, intent
<1> QED
  BY <1>1, <1>2, <1>3, <1>4, <1>5, <1>6, <1>7, <1>8, <1>9, <1>10, <1>11, <1>12, <1>13,
     <1>14, <1>15, <1>16, <1>17, <1>18, <1>19, <1>20, <1>21, <1>22, <1>23, <1>24, <1>25,
     <1>26, <1>27, <1>28
  DEF Next, Begin, Continue, Cleanup

\* Every variable keeps its type, and only the request between the reading and
\* the writing of a reservation holds the owner's lock.
THEOREM TypeCorrect == Spec => []TypeOK
<1>1. Init => TypeOK
  BY TypeInit
<1>2. TypeOK /\ [Next]_vars => TypeOK'
  BY TypeStep
<1> QED
  BY <1>1, <1>2, PTL DEF Spec


-----------------------------------------------------------------------------
(* The order of things: what each stage of a request knows of its track. *)

Making == {"insert", "presign", "copyInsert", "copy", "copyMark"}

\* No other request reaches a track that is still being made.
Alone ==
  \A r, q \in Requests :
    r # q /\ req[r].pc \in Making /\ req[q].pc # "idle" => req[q].track # req[r].track

Stage(here, t) ==
  /\ here \in {"insert", "copyInsert"} => status[t] = "free"
  /\ here \notin {"idle", "insert", "copyInsert"} => status[t] # "free"
  /\ here \in {"presign", "copy", "copyMark"} => status[t] = "pending"
  /\ here \in {"presign", "copy", "copyMark", "copyDiscard", "copyDelete"} => t \notin stale
  /\ here \in {"copyInsert", "copy", "copyMark", "copyDiscard", "copyDelete"} => file[t] = "copy"
  /\ here \in {"insert", "presign", "size", "head", "mark", "discardObject", "discardRow"} =>
       file[t] # "copy"
  /\ here = "presign" => t \notin forms \cup stored
  /\ here = "mark" => file[t] = "audio" \/ t \in switched
  /\ here \in {"discardObject", "discardRow"} => file[t] = "junk" \/ t \in switched
  /\ here \in {"object", "row"} => t \in asked

Stages == \A r \in Requests : Stage(req[r].pc, req[r].track)

\* What holds of a row whoever works on it.
RowFacts ==
  /\ cleanup.todo \subseteq cleanup.locked
  /\ \A t \in Tracks :
       /\ status[t] = "free" => t \notin stale \cup stored \cup forms
       /\ status[t] = "ready" => file[t] # "junk" \/ t \in switched
       /\ t \in cleanup.locked => status[t] = "pending" /\ t \in stale
       /\ t \in forms => t \notin stale

Order == Alone /\ Stages /\ RowFacts

LEMMA OrderInit == Init => Order
BY IdleType DEF Init, Order, Alone, Stages, Stage, RowFacts, NoCleanup, Making

LEMMA OrderStep == TypeOK /\ Order /\ [Next]_vars => Order'
<1> SUFFICES ASSUME TypeOK, Order, [Next]_vars PROVE Order'
  OBVIOUS
<1> USE DEF Order
<1>1. ASSUME NEW r \in Requests, NEW t \in Tracks, ReserveRead(r, t) PROVE Order'
  <2>1. Alone'
    <3>1. \A q \in Requests : req[q].pc # "idle" => req[q].track # t
      BY <1>1, RequestAssumption
      DEF ReserveRead, Fresh, OwnerFree, TypeOK, Stages, Stage
    <3> QED
      BY <1>1, <3>1, StartEffect DEF ReserveRead, Alone, Making, RequestPC
  <2>2. Stages'
    BY <1>1, StartEffect
    DEF ReserveRead, At, Fresh, OwnerFree, Stages, Stage, Alone, Making, TypeOK,
        RequestPC, RowFacts, rows, intent
  <2>3. RowFacts'
    BY <1>1, StartEffect
    DEF ReserveRead, At, Fresh, OwnerFree, RowFacts, Stages, Stage, TypeOK, RequestPC,
        rows, intent
  <2> QED
    BY <2>1, <2>2, <2>3 DEF Order
<1>2. ASSUME NEW r \in Requests, NEW t \in Tracks, CompleteRead(r, t) PROVE Order'
  <2>1. Alone'
    BY <1>2, StartEffect
    DEF CompleteRead, At, Alone, Making, TypeOK, RequestPC, Stages, Stage, RowFacts,
        rows, intent
  <2>2. Stages'
    BY <1>2, StartEffect
    DEF CompleteRead, At, Stages, Stage, Alone, Making, TypeOK, RequestPC, RowFacts,
        rows, intent
  <2>3. RowFacts'
    BY <1>2, StartEffect
    DEF CompleteRead, At, RowFacts, Stages, Stage, TypeOK, RequestPC, rows, intent
  <2> QED
    BY <2>1, <2>2, <2>3 DEF Order
<1>3. ASSUME NEW r \in Requests, NEW t \in Tracks, DeleteRead(r, t) PROVE Order'
  <2>1. Alone'
    <3>1. /\ req'[r] = [pc |-> "object", track |-> t]
          /\ \A q \in Requests \ {r} : req'[q] = req[q]
      BY <1>3, StartEffect DEF DeleteRead, RequestPC
    <3>2. \A q \in Requests \ {r} : req[q].track = t => req[q].pc \notin Making
      BY <1>3 DEF DeleteRead, Making
    <3>3. "object" \notin Making
      BY DEF Making
    <3> QED
      BY <3>1, <3>2, <3>3 DEF Alone
  <2>2. Stages'
    BY <1>3, StartEffect
    DEF DeleteRead, At, Rows, Stages, Stage, Alone, Making, TypeOK, RequestPC, RowFacts,
        rows, intent
  <2>3. RowFacts'
    BY <1>3, StartEffect
    DEF DeleteRead, At, Rows, RowFacts, Stages, Stage, TypeOK, RequestPC, rows, intent
  <2> QED
    BY <2>1, <2>2, <2>3 DEF Order
<1>4. ASSUME NEW r \in Requests, NEW t \in Tracks, CopyRead(r, t) PROVE Order'
  <2>1. Alone'
    <3>1. \A q \in Requests : req[q].pc # "idle" => req[q].track # t
      BY <1>4, RequestAssumption DEF CopyRead, Fresh, OwnerFree, TypeOK, Stages, Stage
    <3> QED
      BY <1>4, <3>1, StartEffect DEF CopyRead, Alone, Making, RequestPC
  <2>2. Stages'
    BY <1>4, StartEffect
    DEF CopyRead, At, Fresh, OwnerFree, Stages, Stage, Alone, Making, TypeOK, RequestPC,
        RowFacts, rows, intent
  <2>3. RowFacts'
    BY <1>4, StartEffect
    DEF CopyRead, At, Fresh, OwnerFree, RowFacts, Stages, Stage, TypeOK, RequestPC, rows, intent
  <2> QED
    BY <2>1, <2>2, <2>3 DEF Order
<1>5. ASSUME NEW r \in Requests, ReserveInsert(r) PROVE Order'
  <2>1. Alone'
    BY <1>5, GotoEffect
    DEF ReserveInsert, At, Alone, Making, TypeOK, RequestPC, Stages, Stage, RowFacts,
        rows, intent
  <2>2. Stages'
    BY <1>5, GotoEffect
    DEF ReserveInsert, At, Stages, Stage, Alone, Making, TypeOK, RequestPC, RowFacts,
        rows, intent
  <2>3. RowFacts'
    BY <1>5, GotoEffect
    DEF ReserveInsert, At, RowFacts, Stages, Stage, TypeOK, RequestPC, rows, intent
  <2> QED
    BY <2>1, <2>2, <2>3 DEF Order
<1>6. ASSUME NEW r \in Requests, Presign(r) PROVE Order'
  <2>1. Alone'
    BY <1>6, ReturnEffect
    DEF Presign, At, DeleteRow, Alone, Making, TypeOK, RequestPC, Stages, Stage,
        RowFacts, rows, intent
  <2>2. Stages'
    BY <1>6, ReturnEffect
    DEF Presign, At, DeleteRow, Stages, Stage, Alone, Making, TypeOK, RequestPC,
        RowFacts, rows, intent
  <2>3. RowFacts'
    BY <1>6, ReturnEffect
    DEF Presign, At, DeleteRow, RowFacts, Stages, Stage, TypeOK, RequestPC, rows, intent
  <2> QED
    BY <2>1, <2>2, <2>3 DEF Order
<1>7. ASSUME NEW r \in Requests, CompleteSize(r) PROVE Order'
  <2>1. Alone'
    BY <1>7, GotoEffect, ReturnEffect
    DEF CompleteSize, At, Alone, Making, TypeOK, RequestPC, Stages, Stage, RowFacts,
        rows, intent
  <2>2. Stages'
    BY <1>7, GotoEffect, ReturnEffect
    DEF CompleteSize, At, Stages, Stage, Alone, Making, TypeOK, RequestPC, RowFacts,
        rows, intent
  <2>3. RowFacts'
    BY <1>7, GotoEffect, ReturnEffect
    DEF CompleteSize, At, RowFacts, Stages, Stage, TypeOK, RequestPC, rows, intent
  <2> QED
    BY <2>1, <2>2, <2>3 DEF Order
<1>8. ASSUME NEW r \in Requests, CompleteHead(r) PROVE Order'
  <2>1. Alone'
    BY <1>8, GotoEffect, ReturnEffect
    DEF CompleteHead, At, Matches, Alone, Making, TypeOK, RequestPC, Stages, Stage,
        RowFacts, rows, intent
  <2>2. Stages'
    BY <1>8, GotoEffect, ReturnEffect
    DEF CompleteHead, At, Matches, File, Stages, Stage, Alone, Making, TypeOK,
        RequestPC, RowFacts, rows, intent
  <2>3. RowFacts'
    BY <1>8, GotoEffect, ReturnEffect
    DEF CompleteHead, At, Matches, RowFacts, Stages, Stage, TypeOK, RequestPC, rows, intent
  <2> QED
    BY <2>1, <2>2, <2>3 DEF Order
<1>9. ASSUME NEW r \in Requests, DiscardObject(r) PROVE Order'
  <2>1. Alone'
    BY <1>9, GotoEffect
    DEF DiscardObject, At, Alone, Making, TypeOK, RequestPC, Stages, Stage, RowFacts,
        rows, intent
  <2>2. Stages'
    BY <1>9, GotoEffect
    DEF DiscardObject, At, Stages, Stage, Alone, Making, TypeOK, RequestPC, RowFacts,
        rows, intent
  <2>3. RowFacts'
    BY <1>9, GotoEffect
    DEF DiscardObject, At, RowFacts, Stages, Stage, TypeOK, RequestPC, rows, intent
  <2> QED
    BY <2>1, <2>2, <2>3 DEF Order
<1>10. ASSUME NEW r \in Requests, DiscardRow(r) PROVE Order'
  <2>1. Alone'
    BY <1>10, ReturnEffect
    DEF DiscardRow, At, DeleteRow, Unlocked, Alone, Making, TypeOK, RequestPC, Stages,
        Stage, RowFacts, rows, intent
  <2>2. Stages'
    BY <1>10, ReturnEffect
    DEF DiscardRow, At, DeleteRow, Unlocked, Stages, Stage, Alone, Making, TypeOK,
        RequestPC, RowFacts, rows, intent
  <2>3. RowFacts'
    BY <1>10, ReturnEffect
    DEF DiscardRow, At, DeleteRow, Unlocked, RowFacts, Stages, Stage, TypeOK, RequestPC,
        rows, intent
  <2> QED
    BY <2>1, <2>2, <2>3 DEF Order
<1>11. ASSUME NEW r \in Requests, MarkReady(r) PROVE Order'
  <2>1. Alone'
    BY <1>11, ReturnEffect
    DEF MarkReady, At, Unlocked, Alone, Making, TypeOK, RequestPC, Stages, Stage,
        RowFacts, rows, intent
  <2>2. Stages'
    BY <1>11, ReturnEffect
    DEF MarkReady, At, Unlocked, Stages, Stage, Alone, Making, TypeOK, RequestPC,
        RowFacts, rows, intent
  <2>3. RowFacts'
    BY <1>11, ReturnEffect
    DEF MarkReady, At, Unlocked, RowFacts, Stages, Stage, TypeOK, RequestPC, rows, intent
  <2> QED
    BY <2>1, <2>2, <2>3 DEF Order
<1>12. ASSUME NEW r \in Requests, DeleteObject(r) PROVE Order'
  <2>1. Alone'
    BY <1>12, GotoEffect, ReturnEffect
    DEF DeleteObject, At, Alone, Making, TypeOK, RequestPC, Stages, Stage, RowFacts,
        rows, intent
  <2>2. Stages'
    BY <1>12, GotoEffect, ReturnEffect
    DEF DeleteObject, At, Stages, Stage, Alone, Making, TypeOK, RequestPC, RowFacts,
        rows, intent
  <2>3. RowFacts'
    BY <1>12, GotoEffect, ReturnEffect
    DEF DeleteObject, At, RowFacts, Stages, Stage, TypeOK, RequestPC, rows, intent
  <2> QED
    BY <2>1, <2>2, <2>3 DEF Order
<1>13. ASSUME NEW r \in Requests, DeleteTrackRow(r) PROVE Order'
  <2>1. Alone'
    BY <1>13, ReturnEffect
    DEF DeleteTrackRow, At, DeleteRow, Unlocked, Alone, Making, TypeOK, RequestPC,
        Stages, Stage, RowFacts, rows, intent
  <2>2. Stages'
    BY <1>13, ReturnEffect
    DEF DeleteTrackRow, At, DeleteRow, Unlocked, Stages, Stage, Alone, Making, TypeOK,
        RequestPC, RowFacts, rows, intent
  <2>3. RowFacts'
    BY <1>13, ReturnEffect
    DEF DeleteTrackRow, At, DeleteRow, Unlocked, RowFacts, Stages, Stage, TypeOK,
        RequestPC, rows, intent
  <2> QED
    BY <2>1, <2>2, <2>3 DEF Order
<1>14. ASSUME NEW r \in Requests, CopyInsert(r) PROVE Order'
  <2>1. Alone'
    BY <1>14, GotoEffect
    DEF CopyInsert, At, Alone, Making, TypeOK, RequestPC, Stages, Stage, RowFacts, rows, intent
  <2>2. Stages'
    BY <1>14, GotoEffect
    DEF CopyInsert, At, Stages, Stage, Alone, Making, TypeOK, RequestPC, RowFacts, rows, intent
  <2>3. RowFacts'
    BY <1>14, GotoEffect
    DEF CopyInsert, At, RowFacts, Stages, Stage, TypeOK, RequestPC, rows, intent
  <2> QED
    BY <2>1, <2>2, <2>3 DEF Order
<1>15. ASSUME NEW r \in Requests, CopyObject(r) PROVE Order'
  <2>1. Alone'
    BY <1>15, GotoEffect
    DEF CopyObject, At, Alone, Making, TypeOK, RequestPC, Stages, Stage, RowFacts, rows, intent
  <2>2. Stages'
    BY <1>15, GotoEffect
    DEF CopyObject, At, Stages, Stage, Alone, Making, TypeOK, RequestPC, RowFacts, rows, intent
  <2>3. RowFacts'
    BY <1>15, GotoEffect
    DEF CopyObject, At, RowFacts, Stages, Stage, TypeOK, RequestPC, rows, intent
  <2> QED
    BY <2>1, <2>2, <2>3 DEF Order
<1>16. ASSUME NEW r \in Requests, CopyMark(r) PROVE Order'
  <2>1. Alone'
    <3>1. CASE Return(r)
      BY <1>16, <3>1, ReturnEffect DEF CopyMark, At, Alone, Making, RequestPC
    <3>2. CASE Goto(r, "copyDiscard")
      BY <1>16, <3>2, GotoEffect DEF CopyMark, At, Alone, Making, RequestPC
    <3> QED
      BY <1>16, <3>1, <3>2 DEF CopyMark
  <2>2. Stages'
    BY <1>16, GotoEffect, ReturnEffect
    DEF CopyMark, At, Rows, Unlocked, Stages, Stage, Alone, Making, TypeOK, RequestPC,
        RowFacts, rows, intent
  <2>3. RowFacts'
    BY <1>16, GotoEffect, ReturnEffect
    DEF CopyMark, At, Rows, Unlocked, RowFacts, Stages, Stage, TypeOK, RequestPC, rows, intent
  <2> QED
    BY <2>1, <2>2, <2>3 DEF Order
<1>17. ASSUME NEW r \in Requests, CopyDiscard(r) PROVE Order'
  <2>1. Alone'
    BY <1>17, GotoEffect
    DEF CopyDiscard, At, Alone, Making, TypeOK, RequestPC, Stages, Stage, RowFacts, rows, intent
  <2>2. Stages'
    BY <1>17, GotoEffect
    DEF CopyDiscard, At, Stages, Stage, Alone, Making, TypeOK, RequestPC, RowFacts, rows, intent
  <2>3. RowFacts'
    BY <1>17, GotoEffect
    DEF CopyDiscard, At, RowFacts, Stages, Stage, TypeOK, RequestPC, rows, intent
  <2> QED
    BY <2>1, <2>2, <2>3 DEF Order
<1>18. ASSUME NEW r \in Requests, CopyDelete(r) PROVE Order'
  <2>1. Alone'
    BY <1>18, ReturnEffect
    DEF CopyDelete, At, DeleteRow, Discardable, Unlocked, Alone, Making, TypeOK,
        RequestPC, Stages, Stage, RowFacts, rows, intent
  <2>2. Stages'
    BY <1>18, ReturnEffect
    DEF CopyDelete, At, DeleteRow, Discardable, Unlocked, Stages, Stage, Alone, Making,
        TypeOK, RequestPC, RowFacts, rows, intent
  <2>3. RowFacts'
    BY <1>18, ReturnEffect
    DEF CopyDelete, At, DeleteRow, Discardable, Unlocked, RowFacts, Stages, Stage,
        TypeOK, RequestPC, rows, intent
  <2> QED
    BY <2>1, <2>2, <2>3 DEF Order
<1>19. ASSUME NEW r \in Requests, Abort(r) PROVE Order'
  <2>1. Alone'
    BY <1>19, ReturnEffect
    DEF Abort, At, Alone, Making, TypeOK, RequestPC, Stages, Stage, RowFacts, rows, intent
  <2>2. Stages'
    BY <1>19, ReturnEffect
    DEF Abort, At, Stages, Stage, Alone, Making, TypeOK, RequestPC, RowFacts, rows, intent
  <2>3. RowFacts'
    BY <1>19, ReturnEffect
    DEF Abort, At, RowFacts, Stages, Stage, TypeOK, RequestPC, rows, intent
  <2> QED
    BY <2>1, <2>2, <2>3 DEF Order
<1>20. ASSUME NEW t \in Tracks, NEW bytes \in {"audio", "junk"}, ClientPut(t, bytes) PROVE Order'
  <2>1. /\ UNCHANGED <<status, stale, forms, req, cleanup, asked>>
        /\ t \in forms /\ stored' = stored \cup {t} /\ file[t] # "copy"
        /\ file' = [file EXCEPT ![t] = bytes] /\ switched \subseteq switched'
    BY <1>20 DEF ClientPut, rows
  <2>2. Judged(t) => bytes = file[t] \/ t \in switched'
    BY <1>20 DEF ClientPut
  <2>3. Alone'
    BY <2>1 DEF Alone
  <2>4. Stages'
    <3> SUFFICES ASSUME NEW r \in Requests
                 PROVE  Stage(req[r].pc, req[r].track)'
      BY DEF Stages
    <3>1. Stage(req[r].pc, req[r].track) /\ req[r].track \in Tracks
      BY DEF Stages, TypeOK
    <3>2. CASE req[r].track # t
      BY <2>1, <3>1, <3>2 DEF Stage, TypeOK
    <3>3. CASE req[r].track = t
      <4>1. file'[t] = bytes /\ bytes # "copy"
        BY <2>1 DEF TypeOK
      <4>2. req[r].pc \in {"mark", "discardObject", "discardRow"} => Judged(t)
        BY <3>3 DEF Judged
      <4>3. req[r].pc # "presign"
        BY <2>1, <3>1, <3>3 DEF Stage
      <4> QED
        BY <2>1, <2>2, <3>1, <3>3, <4>1, <4>2, <4>3 DEF Stage
    <3> QED
      BY <3>2, <3>3
  <2>5. RowFacts'
    <3>1. status[t] = "ready" => Judged(t)
      BY DEF Judged
    <3>2. file'[t] = bytes /\ \A u \in Tracks \ {t} : file'[u] = file[u]
      BY <2>1 DEF TypeOK
    <3> QED
      BY <2>1, <2>2, <3>1, <3>2 DEF RowFacts
  <2> QED
    BY <2>3, <2>4, <2>5 DEF Order
<1>21. ASSUME NEW t \in Tracks, FormExpires(t) PROVE Order'
  <2>1. Alone'
    BY <1>21
    DEF FormExpires, Alone, Making, TypeOK, RequestPC, Stages, Stage, RowFacts, rows, intent
  <2>2. Stages'
    BY <1>21
    DEF FormExpires, Stages, Stage, Alone, Making, TypeOK, RequestPC, RowFacts, rows, intent
  <2>3. RowFacts'
    BY <1>21 DEF FormExpires, RowFacts, Stages, Stage, TypeOK, RequestPC, rows, intent
  <2> QED
    BY <2>1, <2>2, <2>3 DEF Order
<1>22. ASSUME NEW t \in Tracks, GrowStale(t) PROVE Order'
  <2>1. Alone'
    BY <1>22
    DEF GrowStale, Alone, Making, TypeOK, RequestPC, Stages, Stage, RowFacts, rows, intent
  <2>2. Stages'
    BY <1>22
    DEF GrowStale, Stages, Stage, Alone, Making, TypeOK, RequestPC, RowFacts, rows, intent
  <2>3. RowFacts'
    BY <1>22 DEF GrowStale, RowFacts, Stages, Stage, TypeOK, RequestPC, rows, intent
  <2> QED
    BY <2>1, <2>2, <2>3 DEF Order
<1>23. ASSUME NEW t \in Tracks, CleanupRemove(t) PROVE Order'
  <2>1. Alone'
    BY <1>23
    DEF CleanupRemove, Alone, Making, TypeOK, RequestPC, Stages, Stage, RowFacts, rows, intent
  <2>2. Stages'
    BY <1>23
    DEF CleanupRemove, Stages, Stage, Alone, Making, TypeOK, RequestPC, RowFacts, rows, intent
  <2>3. RowFacts'
    BY <1>23 DEF CleanupRemove, RowFacts, Stages, Stage, TypeOK, RequestPC, rows, intent
  <2> QED
    BY <2>1, <2>2, <2>3 DEF Order
<1>24. ASSUME NEW t \in Tracks, NEW size \in Sizes, Resize(t, size) PROVE Order'
  <2>1. Alone'
    BY <1>24 DEF Resize, Alone, Making, TypeOK, RequestPC, Stages, Stage, RowFacts, rows, intent
  <2>2. Stages'
    BY <1>24 DEF Resize, Stages, Stage, Alone, Making, TypeOK, RequestPC, RowFacts, rows, intent
  <2>3. RowFacts'
    BY <1>24 DEF Resize, RowFacts, Stages, Stage, TypeOK, RequestPC, rows, intent
  <2> QED
    BY <2>1, <2>2, <2>3 DEF Order
<1>25. CASE CleanupSelect
  <2>1. Alone'
    BY <1>25
    DEF CleanupSelect, Abandoned, Pending, NoCleanup, Alone, Making, TypeOK, RequestPC,
        Stages, Stage, RowFacts, rows, intent
  <2>2. Stages'
    BY <1>25
    DEF CleanupSelect, Abandoned, Pending, NoCleanup, Stages, Stage, Alone, Making,
        TypeOK, RequestPC, RowFacts, rows, intent
  <2>3. RowFacts'
    BY <1>25
    DEF CleanupSelect, Abandoned, Pending, NoCleanup, RowFacts, Stages, Stage, TypeOK,
        RequestPC, rows, intent
  <2> QED
    BY <2>1, <2>2, <2>3 DEF Order
<1>26. CASE CleanupCommit
  <2>1. Alone'
    BY <1>26
    DEF CleanupCommit, NoCleanup, Alone, Making, TypeOK, RequestPC, Stages, Stage,
        RowFacts, rows, intent
  <2>2. Stages'
    BY <1>26
    DEF CleanupCommit, NoCleanup, Stages, Stage, Alone, Making, TypeOK, RequestPC,
        RowFacts, rows, intent
  <2>3. RowFacts'
    BY <1>26
    DEF CleanupCommit, NoCleanup, RowFacts, Stages, Stage, TypeOK, RequestPC, rows, intent
  <2> QED
    BY <2>1, <2>2, <2>3 DEF Order
<1>27. CASE CleanupRollback
  <2>1. Alone'
    BY <1>27
    DEF CleanupRollback, NoCleanup, Alone, Making, TypeOK, RequestPC, Stages, Stage,
        RowFacts, rows, intent
  <2>2. Stages'
    BY <1>27
    DEF CleanupRollback, NoCleanup, Stages, Stage, Alone, Making, TypeOK, RequestPC,
        RowFacts, rows, intent
  <2>3. RowFacts'
    BY <1>27
    DEF CleanupRollback, NoCleanup, RowFacts, Stages, Stage, TypeOK, RequestPC, rows, intent
  <2> QED
    BY <2>1, <2>2, <2>3 DEF Order
<1>28. CASE UNCHANGED vars
  BY <1>28
  DEF vars, rows, intent, Alone, Making, TypeOK, RequestPC, Stages, Stage, RowFacts, rows, intent,
      Stages, Stage, Alone, Making, TypeOK, RequestPC, RowFacts, rows, intent, RowFacts, Stages,
      Stage, TypeOK, RequestPC, rows, intent, Order
<1> QED
  BY <1>1, <1>2, <1>3, <1>4, <1>5, <1>6, <1>7, <1>8, <1>9, <1>10, <1>11, <1>12, <1>13,
     <1>14, <1>15, <1>16, <1>17, <1>18, <1>19, <1>20, <1>21, <1>22, <1>23, <1>24, <1>25,
     <1>26, <1>27, <1>28
  DEF Next, Begin, Continue, Cleanup

THEOREM OrderCorrect == Spec => [](TypeOK /\ Order)
<1>1. Init => TypeOK /\ Order
  BY TypeInit, OrderInit
<1>2. TypeOK /\ Order /\ [Next]_vars => (TypeOK /\ Order)'
  BY TypeStep, OrderStep
<1> QED
  BY <1>1, <1>2, PTL DEF Spec

-----------------------------------------------------------------------------
(* A ready track goes only because its owner deletes it. *)

LEMMA ReadyStep ==
  TypeOK /\ Order /\ [Next]_vars =>
    \A t \in Tracks : status[t] = "ready" /\ status'[t] # "ready" => t \in asked \cup switched
<1> SUFFICES ASSUME TypeOK, Order, [Next]_vars,
                    NEW u \in Tracks, status[u] = "ready", u \notin asked \cup switched
             PROVE  status'[u] = "ready"
  OBVIOUS
<1> USE DEF Order
<1>1. ASSUME NEW r \in Requests, NEW t \in Tracks, ReserveRead(r, t) PROVE status'[u] = "ready"
  BY <1>1 DEF ReserveRead, At, Fresh, OwnerFree, Stages, Stage, RowFacts, TypeOK, rows, intent
<1>2. ASSUME NEW r \in Requests, NEW t \in Tracks, CompleteRead(r, t) PROVE status'[u] = "ready"
  BY <1>2 DEF CompleteRead, At, Stages, Stage, RowFacts, TypeOK, rows, intent
<1>3. ASSUME NEW r \in Requests, NEW t \in Tracks, DeleteRead(r, t) PROVE status'[u] = "ready"
  BY <1>3 DEF DeleteRead, At, Rows, Stages, Stage, RowFacts, TypeOK, rows, intent
<1>4. ASSUME NEW r \in Requests, NEW t \in Tracks, CopyRead(r, t) PROVE status'[u] = "ready"
  BY <1>4 DEF CopyRead, At, Fresh, OwnerFree, Stages, Stage, RowFacts, TypeOK, rows, intent
<1>5. ASSUME NEW r \in Requests, ReserveInsert(r) PROVE status'[u] = "ready"
  BY <1>5 DEF ReserveInsert, At, Stages, Stage, RowFacts, TypeOK, rows, intent
<1>6. ASSUME NEW r \in Requests, Presign(r) PROVE status'[u] = "ready"
  BY <1>6 DEF Presign, At, DeleteRow, Stages, Stage, RowFacts, TypeOK, rows, intent
<1>7. ASSUME NEW r \in Requests, CompleteSize(r) PROVE status'[u] = "ready"
  BY <1>7 DEF CompleteSize, At, Stages, Stage, RowFacts, TypeOK, rows, intent
<1>8. ASSUME NEW r \in Requests, CompleteHead(r) PROVE status'[u] = "ready"
  BY <1>8 DEF CompleteHead, At, Matches, Stages, Stage, RowFacts, TypeOK, rows, intent
<1>9. ASSUME NEW r \in Requests, DiscardObject(r) PROVE status'[u] = "ready"
  BY <1>9 DEF DiscardObject, At, Stages, Stage, RowFacts, TypeOK, rows, intent
<1>10. ASSUME NEW r \in Requests, DiscardRow(r) PROVE status'[u] = "ready"
  BY <1>10
  DEF DiscardRow, At, DeleteRow, Unlocked, Stages, Stage, RowFacts, TypeOK, rows, intent
<1>11. ASSUME NEW r \in Requests, MarkReady(r) PROVE status'[u] = "ready"
  BY <1>11 DEF MarkReady, At, Unlocked, Stages, Stage, RowFacts, TypeOK, rows, intent
<1>12. ASSUME NEW r \in Requests, DeleteObject(r) PROVE status'[u] = "ready"
  BY <1>12 DEF DeleteObject, At, Stages, Stage, RowFacts, TypeOK, rows, intent
<1>13. ASSUME NEW r \in Requests, DeleteTrackRow(r) PROVE status'[u] = "ready"
  BY <1>13
  DEF DeleteTrackRow, At, DeleteRow, Unlocked, Stages, Stage, RowFacts, TypeOK, rows, intent
<1>14. ASSUME NEW r \in Requests, CopyInsert(r) PROVE status'[u] = "ready"
  BY <1>14 DEF CopyInsert, At, Stages, Stage, RowFacts, TypeOK, rows, intent
<1>15. ASSUME NEW r \in Requests, CopyObject(r) PROVE status'[u] = "ready"
  BY <1>15 DEF CopyObject, At, Stages, Stage, RowFacts, TypeOK, rows, intent
<1>16. ASSUME NEW r \in Requests, CopyMark(r) PROVE status'[u] = "ready"
  BY <1>16 DEF CopyMark, At, Rows, Unlocked, Stages, Stage, RowFacts, TypeOK, rows, intent
<1>17. ASSUME NEW r \in Requests, CopyDiscard(r) PROVE status'[u] = "ready"
  BY <1>17 DEF CopyDiscard, At, Stages, Stage, RowFacts, TypeOK, rows, intent
<1>18. ASSUME NEW r \in Requests, CopyDelete(r) PROVE status'[u] = "ready"
  BY <1>18
  DEF CopyDelete, At, DeleteRow, Discardable, Unlocked, Stages, Stage, RowFacts, TypeOK,
      rows, intent
<1>19. ASSUME NEW r \in Requests, Abort(r) PROVE status'[u] = "ready"
  BY <1>19 DEF Abort, At, Stages, Stage, RowFacts, TypeOK, rows, intent
<1>20. ASSUME NEW t \in Tracks, NEW bytes \in {"audio", "junk"}, ClientPut(t, bytes) PROVE status'[u] = "ready"
  BY <1>20 DEF ClientPut, Stages, Stage, RowFacts, TypeOK, rows, intent
<1>21. ASSUME NEW t \in Tracks, FormExpires(t) PROVE status'[u] = "ready"
  BY <1>21 DEF FormExpires, Stages, Stage, RowFacts, TypeOK, rows, intent
<1>22. ASSUME NEW t \in Tracks, GrowStale(t) PROVE status'[u] = "ready"
  BY <1>22 DEF GrowStale, Stages, Stage, RowFacts, TypeOK, rows, intent
<1>23. ASSUME NEW t \in Tracks, CleanupRemove(t) PROVE status'[u] = "ready"
  BY <1>23 DEF CleanupRemove, Stages, Stage, RowFacts, TypeOK, rows, intent
<1>24. ASSUME NEW t \in Tracks, NEW size \in Sizes, Resize(t, size) PROVE status'[u] = "ready"
  BY <1>24 DEF Resize, Stages, Stage, RowFacts, TypeOK, rows, intent
<1>25. CASE CleanupSelect
  BY <1>25
  DEF CleanupSelect, Abandoned, Pending, NoCleanup, Stages, Stage, RowFacts, TypeOK,
      rows, intent
<1>26. CASE CleanupCommit
  BY <1>26 DEF CleanupCommit, NoCleanup, Stages, Stage, RowFacts, TypeOK, rows, intent
<1>27. CASE CleanupRollback
  BY <1>27 DEF CleanupRollback, NoCleanup, Stages, Stage, RowFacts, TypeOK, rows, intent
<1>28. CASE UNCHANGED vars
  BY <1>28 DEF vars, rows, intent, Stages, Stage, RowFacts, TypeOK, rows, intent
<1> QED
  BY <1>1, <1>2, <1>3, <1>4, <1>5, <1>6, <1>7, <1>8, <1>9, <1>10, <1>11, <1>12, <1>13,
     <1>14, <1>15, <1>16, <1>17, <1>18, <1>19, <1>20, <1>21, <1>22, <1>23, <1>24, <1>25,
     <1>26, <1>27, <1>28
  DEF Next, Begin, Continue, Cleanup

\* No race of completion, discard, copy and cleanup takes a ready track away from an
\* owner who did not ask for that, whatever fails; only one whose client posted another
\* file after a completion had judged the first may go (discard).
THEOREM ReadyIsKept == Spec => ReadyOnlyDeletedByOwner
<1>1. TypeOK /\ Order /\ [Next]_vars =>
        [\A t \in Tracks : status[t] = "ready" /\ status'[t] # "ready" =>
           t \in asked \cup switched]_vars
  BY ReadyStep
<1> QED
  BY OrderCorrect, <1>1, PTL DEF Spec, ReadyOnlyDeletedByOwner

-----------------------------------------------------------------------------
(* A removed row leaves no object. *)

\* An object is gone before its row is.
EmptiedBy(here, t) == here \in {"discardRow", "row", "copyDelete"} => t \notin stored

RequestEmptied == \A r \in Requests : EmptiedBy(req[r].pc, req[r].track)

RowEmptied ==
  \A t \in Tracks : t \in cleanup.locked \ cleanup.todo \/ status[t] = "gone" => t \notin stored

Emptied == RequestEmptied /\ RowEmptied

LEMMA EmptiedStep ==
  ASSUME "late" \notin Faults, "storage" \notin Faults
  PROVE  TypeOK /\ Order /\ Emptied /\ [Next]_vars => Emptied'
<1> SUFFICES ASSUME TypeOK, Order, Emptied, [Next]_vars PROVE Emptied'
  OBVIOUS
<1> USE DEF Order, Emptied
<1>1. ASSUME NEW r \in Requests, NEW t \in Tracks, ReserveRead(r, t) PROVE Emptied'
  <2>1. RequestEmptied'
    BY <1>1, StartEffect DEF ReserveRead, RequestEmptied, EmptiedBy, RequestPC
  <2>2. RowEmptied'
    BY <1>1, StartEffect
    DEF ReserveRead, At, Fresh, OwnerFree, RowEmptied, RequestEmptied, EmptiedBy,
        Stages, Stage, RowFacts, TypeOK, rows, intent
  <2> QED
    BY <2>1, <2>2 DEF Emptied
<1>2. ASSUME NEW r \in Requests, NEW t \in Tracks, CompleteRead(r, t) PROVE Emptied'
  <2>1. RequestEmptied'
    BY <1>2, StartEffect DEF CompleteRead, RequestEmptied, EmptiedBy, RequestPC
  <2>2. RowEmptied'
    BY <1>2, StartEffect
    DEF CompleteRead, At, RowEmptied, RequestEmptied, EmptiedBy, Stages, Stage,
        RowFacts, TypeOK, rows, intent
  <2> QED
    BY <2>1, <2>2 DEF Emptied
<1>3. ASSUME NEW r \in Requests, NEW t \in Tracks, DeleteRead(r, t) PROVE Emptied'
  <2>1. RequestEmptied'
    BY <1>3, StartEffect DEF DeleteRead, RequestEmptied, EmptiedBy, RequestPC
  <2>2. RowEmptied'
    BY <1>3, StartEffect
    DEF DeleteRead, At, Rows, RowEmptied, RequestEmptied, EmptiedBy, Stages, Stage,
        RowFacts, TypeOK, rows, intent
  <2> QED
    BY <2>1, <2>2 DEF Emptied
<1>4. ASSUME NEW r \in Requests, NEW t \in Tracks, CopyRead(r, t) PROVE Emptied'
  <2>1. RequestEmptied'
    BY <1>4, StartEffect DEF CopyRead, RequestEmptied, EmptiedBy, RequestPC
  <2>2. RowEmptied'
    BY <1>4, StartEffect
    DEF CopyRead, At, Fresh, OwnerFree, RowEmptied, RequestEmptied, EmptiedBy, Stages,
        Stage, RowFacts, TypeOK, rows, intent
  <2> QED
    BY <2>1, <2>2 DEF Emptied
<1>5. ASSUME NEW r \in Requests, ReserveInsert(r) PROVE Emptied'
  <2>1. RequestEmptied'
    BY <1>5, GotoEffect
    DEF ReserveInsert, At, RequestEmptied, EmptiedBy, Alone, Making, Stages, Stage,
        TypeOK, RequestPC
  <2>2. RowEmptied'
    BY <1>5, GotoEffect
    DEF ReserveInsert, At, RowEmptied, RequestEmptied, EmptiedBy, Stages, Stage,
        RowFacts, TypeOK, rows, intent
  <2> QED
    BY <2>1, <2>2 DEF Emptied
<1>6. ASSUME NEW r \in Requests, Presign(r) PROVE Emptied'
  <2>1. RequestEmptied'
    BY <1>6, ReturnEffect
    DEF Presign, At, DeleteRow, RequestEmptied, EmptiedBy, Alone, Making, Stages, Stage,
        TypeOK, RequestPC
  <2>2. RowEmptied'
    BY <1>6, ReturnEffect
    DEF Presign, At, DeleteRow, RowEmptied, RequestEmptied, EmptiedBy, Stages, Stage,
        RowFacts, TypeOK, rows, intent
  <2> QED
    BY <2>1, <2>2 DEF Emptied
<1>7. ASSUME NEW r \in Requests, CompleteSize(r) PROVE Emptied'
  <2>1. RequestEmptied'
    BY <1>7, GotoEffect, ReturnEffect
    DEF CompleteSize, At, RequestEmptied, EmptiedBy, Alone, Making, Stages, Stage,
        TypeOK, RequestPC
  <2>2. RowEmptied'
    BY <1>7, GotoEffect, ReturnEffect
    DEF CompleteSize, At, RowEmptied, RequestEmptied, EmptiedBy, Stages, Stage,
        RowFacts, TypeOK, rows, intent
  <2> QED
    BY <2>1, <2>2 DEF Emptied
<1>8. ASSUME NEW r \in Requests, CompleteHead(r) PROVE Emptied'
  <2>1. RequestEmptied'
    BY <1>8, GotoEffect, ReturnEffect
    DEF CompleteHead, At, Matches, RequestEmptied, EmptiedBy, Alone, Making, Stages,
        Stage, TypeOK, RequestPC
  <2>2. RowEmptied'
    BY <1>8, GotoEffect, ReturnEffect
    DEF CompleteHead, At, Matches, RowEmptied, RequestEmptied, EmptiedBy, Stages, Stage,
        RowFacts, TypeOK, rows, intent
  <2> QED
    BY <2>1, <2>2 DEF Emptied
<1>9. ASSUME NEW r \in Requests, DiscardObject(r) PROVE Emptied'
  <2>1. RequestEmptied'
    BY <1>9, GotoEffect
    DEF DiscardObject, At, RequestEmptied, EmptiedBy, Alone, Making, Stages, Stage,
        TypeOK, RequestPC
  <2>2. RowEmptied'
    BY <1>9, GotoEffect
    DEF DiscardObject, At, RowEmptied, RequestEmptied, EmptiedBy, Stages, Stage,
        RowFacts, TypeOK, rows, intent
  <2> QED
    BY <2>1, <2>2 DEF Emptied
<1>10. ASSUME NEW r \in Requests, DiscardRow(r) PROVE Emptied'
  <2>1. RequestEmptied'
    BY <1>10, ReturnEffect
    DEF DiscardRow, At, DeleteRow, Unlocked, RequestEmptied, EmptiedBy, Alone, Making,
        Stages, Stage, TypeOK, RequestPC
  <2>2. RowEmptied'
    BY <1>10, ReturnEffect
    DEF DiscardRow, At, DeleteRow, Unlocked, RowEmptied, RequestEmptied, EmptiedBy,
        Stages, Stage, RowFacts, TypeOK, rows, intent
  <2> QED
    BY <2>1, <2>2 DEF Emptied
<1>11. ASSUME NEW r \in Requests, MarkReady(r) PROVE Emptied'
  <2>1. RequestEmptied'
    BY <1>11, ReturnEffect
    DEF MarkReady, At, Unlocked, RequestEmptied, EmptiedBy, Alone, Making, Stages,
        Stage, TypeOK, RequestPC
  <2>2. RowEmptied'
    BY <1>11, ReturnEffect
    DEF MarkReady, At, Unlocked, RowEmptied, RequestEmptied, EmptiedBy, Stages, Stage,
        RowFacts, TypeOK, rows, intent
  <2> QED
    BY <2>1, <2>2 DEF Emptied
<1>12. ASSUME NEW r \in Requests, DeleteObject(r) PROVE Emptied'
  <2>1. RequestEmptied'
    BY <1>12, GotoEffect, ReturnEffect
    DEF DeleteObject, At, RequestEmptied, EmptiedBy, Alone, Making, Stages, Stage,
        TypeOK, RequestPC
  <2>2. RowEmptied'
    BY <1>12, GotoEffect, ReturnEffect
    DEF DeleteObject, At, RowEmptied, RequestEmptied, EmptiedBy, Stages, Stage,
        RowFacts, TypeOK, rows, intent
  <2> QED
    BY <2>1, <2>2 DEF Emptied
<1>13. ASSUME NEW r \in Requests, DeleteTrackRow(r) PROVE Emptied'
  <2>1. RequestEmptied'
    BY <1>13, ReturnEffect
    DEF DeleteTrackRow, At, DeleteRow, Unlocked, RequestEmptied, EmptiedBy, Alone,
        Making, Stages, Stage, TypeOK, RequestPC
  <2>2. RowEmptied'
    BY <1>13, ReturnEffect
    DEF DeleteTrackRow, At, DeleteRow, Unlocked, RowEmptied, RequestEmptied, EmptiedBy,
        Stages, Stage, RowFacts, TypeOK, rows, intent
  <2> QED
    BY <2>1, <2>2 DEF Emptied
<1>14. ASSUME NEW r \in Requests, CopyInsert(r) PROVE Emptied'
  <2>1. RequestEmptied'
    BY <1>14, GotoEffect
    DEF CopyInsert, At, RequestEmptied, EmptiedBy, Alone, Making, Stages, Stage, TypeOK,
        RequestPC
  <2>2. RowEmptied'
    BY <1>14, GotoEffect
    DEF CopyInsert, At, RowEmptied, RequestEmptied, EmptiedBy, Stages, Stage, RowFacts,
        TypeOK, rows, intent
  <2> QED
    BY <2>1, <2>2 DEF Emptied
<1>15. ASSUME NEW r \in Requests, CopyObject(r) PROVE Emptied'
  <2>1. RequestEmptied'
    BY <1>15, GotoEffect
    DEF CopyObject, At, RequestEmptied, EmptiedBy, Alone, Making, Stages, Stage, TypeOK,
        RequestPC
  <2>2. RowEmptied'
    BY <1>15, GotoEffect
    DEF CopyObject, At, RowEmptied, RequestEmptied, EmptiedBy, Stages, Stage, RowFacts,
        TypeOK, rows, intent
  <2> QED
    BY <2>1, <2>2 DEF Emptied
<1>16. ASSUME NEW r \in Requests, CopyMark(r) PROVE Emptied'
  <2>1. RequestEmptied'
    BY <1>16, GotoEffect, ReturnEffect
    DEF CopyMark, At, Rows, Unlocked, RequestEmptied, EmptiedBy, Alone, Making, Stages,
        Stage, TypeOK, RequestPC
  <2>2. RowEmptied'
    BY <1>16, GotoEffect, ReturnEffect
    DEF CopyMark, At, Rows, Unlocked, RowEmptied, RequestEmptied, EmptiedBy, Stages,
        Stage, RowFacts, TypeOK, rows, intent
  <2> QED
    BY <2>1, <2>2 DEF Emptied
<1>17. ASSUME NEW r \in Requests, CopyDiscard(r) PROVE Emptied'
  <2>1. RequestEmptied'
    BY <1>17, GotoEffect
    DEF CopyDiscard, At, RequestEmptied, EmptiedBy, Alone, Making, Stages, Stage,
        TypeOK, RequestPC
  <2>2. RowEmptied'
    BY <1>17, GotoEffect
    DEF CopyDiscard, At, RowEmptied, RequestEmptied, EmptiedBy, Stages, Stage, RowFacts,
        TypeOK, rows, intent
  <2> QED
    BY <2>1, <2>2 DEF Emptied
<1>18. ASSUME NEW r \in Requests, CopyDelete(r) PROVE Emptied'
  <2>1. RequestEmptied'
    BY <1>18, ReturnEffect
    DEF CopyDelete, At, DeleteRow, Discardable, Unlocked, RequestEmptied, EmptiedBy,
        Alone, Making, Stages, Stage, TypeOK, RequestPC
  <2>2. RowEmptied'
    BY <1>18, ReturnEffect
    DEF CopyDelete, At, DeleteRow, Discardable, Unlocked, RowEmptied, RequestEmptied,
        EmptiedBy, Stages, Stage, RowFacts, TypeOK, rows, intent
  <2> QED
    BY <2>1, <2>2 DEF Emptied
<1>19. ASSUME NEW r \in Requests, Abort(r) PROVE Emptied'
  <2>1. RequestEmptied'
    BY <1>19, ReturnEffect
    DEF Abort, At, RequestEmptied, EmptiedBy, Alone, Making, Stages, Stage, TypeOK,
        RequestPC
  <2>2. RowEmptied'
    BY <1>19, ReturnEffect
    DEF Abort, At, RowEmptied, RequestEmptied, EmptiedBy, Stages, Stage, RowFacts,
        TypeOK, rows, intent
  <2> QED
    BY <2>1, <2>2 DEF Emptied
<1>20. ASSUME NEW t \in Tracks, NEW bytes \in {"audio", "junk"}, ClientPut(t, bytes) PROVE Emptied'
  <2>1. RequestEmptied'
    BY <1>20
    DEF ClientPut, RequestEmptied, EmptiedBy, Alone, Making, Stages, Stage, TypeOK,
        RequestPC
  <2>2. RowEmptied'
    BY <1>20
    DEF ClientPut, RowEmptied, RequestEmptied, EmptiedBy, Stages, Stage, RowFacts,
        TypeOK, rows, intent
  <2> QED
    BY <2>1, <2>2 DEF Emptied
<1>21. ASSUME NEW t \in Tracks, FormExpires(t) PROVE Emptied'
  <2>1. RequestEmptied'
    BY <1>21
    DEF FormExpires, RequestEmptied, EmptiedBy, Alone, Making, Stages, Stage, TypeOK,
        RequestPC
  <2>2. RowEmptied'
    BY <1>21
    DEF FormExpires, RowEmptied, RequestEmptied, EmptiedBy, Stages, Stage, RowFacts,
        TypeOK, rows, intent
  <2> QED
    BY <2>1, <2>2 DEF Emptied
<1>22. ASSUME NEW t \in Tracks, GrowStale(t) PROVE Emptied'
  <2>1. RequestEmptied'
    BY <1>22
    DEF GrowStale, RequestEmptied, EmptiedBy, Alone, Making, Stages, Stage, TypeOK,
        RequestPC
  <2>2. RowEmptied'
    BY <1>22
    DEF GrowStale, RowEmptied, RequestEmptied, EmptiedBy, Stages, Stage, RowFacts,
        TypeOK, rows, intent
  <2> QED
    BY <2>1, <2>2 DEF Emptied
<1>23. ASSUME NEW t \in Tracks, CleanupRemove(t) PROVE Emptied'
  <2>1. RequestEmptied'
    BY <1>23
    DEF CleanupRemove, RequestEmptied, EmptiedBy, Alone, Making, Stages, Stage, TypeOK,
        RequestPC
  <2>2. RowEmptied'
    BY <1>23
    DEF CleanupRemove, RowEmptied, RequestEmptied, EmptiedBy, Stages, Stage, RowFacts,
        TypeOK, rows, intent
  <2> QED
    BY <2>1, <2>2 DEF Emptied
<1>24. ASSUME NEW t \in Tracks, NEW size \in Sizes, Resize(t, size) PROVE Emptied'
  <2>1. RequestEmptied'
    BY <1>24
    DEF Resize, RequestEmptied, EmptiedBy, Alone, Making, Stages, Stage, TypeOK,
        RequestPC
  <2>2. RowEmptied'
    BY <1>24
    DEF Resize, RowEmptied, RequestEmptied, EmptiedBy, Stages, Stage, RowFacts, TypeOK,
        rows, intent
  <2> QED
    BY <2>1, <2>2 DEF Emptied
<1>25. CASE CleanupSelect
  <2>1. RequestEmptied'
    BY <1>25
    DEF CleanupSelect, Abandoned, Pending, NoCleanup, RequestEmptied, EmptiedBy, Alone,
        Making, Stages, Stage, TypeOK, RequestPC
  <2>2. RowEmptied'
    BY <1>25
    DEF CleanupSelect, Abandoned, Pending, NoCleanup, RowEmptied, RequestEmptied,
        EmptiedBy, Stages, Stage, RowFacts, TypeOK, rows, intent
  <2> QED
    BY <2>1, <2>2 DEF Emptied
<1>26. CASE CleanupCommit
  <2>1. RequestEmptied'
    BY <1>26
    DEF CleanupCommit, NoCleanup, RequestEmptied, EmptiedBy, Alone, Making, Stages,
        Stage, TypeOK, RequestPC
  <2>2. RowEmptied'
    BY <1>26
    DEF CleanupCommit, NoCleanup, RowEmptied, RequestEmptied, EmptiedBy, Stages, Stage,
        RowFacts, TypeOK, rows, intent
  <2> QED
    BY <2>1, <2>2 DEF Emptied
<1>27. CASE CleanupRollback
  <2>1. RequestEmptied'
    BY <1>27
    DEF CleanupRollback, NoCleanup, RequestEmptied, EmptiedBy, Alone, Making, Stages,
        Stage, TypeOK, RequestPC
  <2>2. RowEmptied'
    BY <1>27
    DEF CleanupRollback, NoCleanup, RowEmptied, RequestEmptied, EmptiedBy, Stages,
        Stage, RowFacts, TypeOK, rows, intent
  <2> QED
    BY <2>1, <2>2 DEF Emptied
<1>28. CASE UNCHANGED vars
  BY <1>28
  DEF vars, rows, intent, RequestEmptied, EmptiedBy, Alone, Making, Stages, Stage, TypeOK,
      RequestPC, RowEmptied, RequestEmptied, EmptiedBy, Stages, Stage, RowFacts, TypeOK,
      rows, intent, Emptied
<1> QED
  BY <1>1, <1>2, <1>3, <1>4, <1>5, <1>6, <1>7, <1>8, <1>9, <1>10, <1>11, <1>12, <1>13,
     <1>14, <1>15, <1>16, <1>17, <1>18, <1>19, <1>20, <1>21, <1>22, <1>23, <1>24, <1>25,
     <1>26, <1>27, <1>28
  DEF Next, Begin, Continue, Cleanup

\* As long as no file lands late and storage removes what a discard asks it to,
\* a removed row leaves no object behind.
THEOREM CleanRemoval ==
  ASSUME "late" \notin Faults, "storage" \notin Faults
  PROVE  Spec => []NothingLeaks
<1>1. Init => TypeOK /\ Order /\ Emptied
  BY TypeInit, OrderInit
  DEF Init, Emptied, RequestEmptied, EmptiedBy, RowEmptied, NoCleanup
<1>2. TypeOK /\ Order /\ Emptied /\ [Next]_vars => (TypeOK /\ Order /\ Emptied)'
  BY TypeStep, OrderStep, EmptiedStep
<1>3. Emptied => NothingLeaks
  BY DEF Emptied, RowEmptied, NothingLeaks
<1> QED
  BY <1>1, <1>2, <1>3, PTL DEF Spec

-----------------------------------------------------------------------------
(* A ready track has its file. *)

\* What a request verified stays true until it marks the track, unless the
\* owner deletes it or the cleanup, which then has the row, removes it.
ReadyKept == \A t \in Tracks : status[t] = "ready" => t \in stored \cup asked \cup switched

VerifiedIn(here, t) ==
  here = "mark" => \/ t \in stored \cup asked \cup switched \cup (cleanup.locked \ cleanup.todo)
                   \/ status[t] = "gone"

Verified == \A r \in Requests : VerifiedIn(req[r].pc, req[r].track)

CopiedIn(here, t) ==
  /\ here = "copyMark" => t \in stored
  /\ here \in {"copyDiscard", "copyDelete"} => status[t] # "ready"

Copied == \A r \in Requests : CopiedIn(req[r].pc, req[r].track)

Kept == ReadyKept /\ Verified /\ Copied

LEMMA KeptStep ==
  ASSUME "rollback" \notin Faults, "indoubt" \notin Faults
  PROVE  TypeOK /\ Order /\ Kept /\ [Next]_vars => Kept'
<1> SUFFICES ASSUME TypeOK, Order, Kept, [Next]_vars PROVE Kept'
  OBVIOUS
<1> USE DEF Order, Kept
<1>1. ASSUME NEW r \in Requests, NEW t \in Tracks, ReserveRead(r, t) PROVE Kept'
  <2>1. ReadyKept'
    BY <1>1, StartEffect
    DEF ReserveRead, At, Fresh, OwnerFree, ReadyKept, Verified, VerifiedIn, Copied,
        CopiedIn, Stages, Stage, RowFacts, TypeOK, rows, intent
  <2>2. Verified'
    BY <1>1, StartEffect
    DEF ReserveRead, At, Fresh, OwnerFree, Verified, VerifiedIn, Stages, Stage,
        RowFacts, TypeOK, RequestPC, rows, intent
  <2>3. Copied'
    BY <1>1, StartEffect
    DEF ReserveRead, At, Fresh, OwnerFree, Copied, CopiedIn, Alone, Making, Stages,
        Stage, RowFacts, TypeOK, RequestPC, rows, intent
  <2> QED
    BY <2>1, <2>2, <2>3 DEF Kept
<1>2. ASSUME NEW r \in Requests, NEW t \in Tracks, CompleteRead(r, t) PROVE Kept'
  <2>1. ReadyKept'
    BY <1>2, StartEffect
    DEF CompleteRead, At, ReadyKept, Verified, VerifiedIn, Copied, CopiedIn, Stages,
        Stage, RowFacts, TypeOK, rows, intent
  <2>2. Verified'
    BY <1>2, StartEffect
    DEF CompleteRead, At, Verified, VerifiedIn, Stages, Stage, RowFacts, TypeOK,
        RequestPC, rows, intent
  <2>3. Copied'
    BY <1>2, StartEffect
    DEF CompleteRead, At, Copied, CopiedIn, Alone, Making, Stages, Stage, RowFacts,
        TypeOK, RequestPC, rows, intent
  <2> QED
    BY <2>1, <2>2, <2>3 DEF Kept
<1>3. ASSUME NEW r \in Requests, NEW t \in Tracks, DeleteRead(r, t) PROVE Kept'
  <2>1. ReadyKept'
    BY <1>3, StartEffect
    DEF DeleteRead, At, Rows, ReadyKept, Verified, VerifiedIn, Copied, CopiedIn, Stages,
        Stage, RowFacts, TypeOK, rows, intent
  <2>2. Verified'
    BY <1>3, StartEffect
    DEF DeleteRead, At, Rows, Verified, VerifiedIn, Stages, Stage, RowFacts, TypeOK,
        RequestPC, rows, intent
  <2>3. Copied'
    BY <1>3, StartEffect DEF DeleteRead, Copied, CopiedIn, RequestPC, rows, intent
  <2> QED
    BY <2>1, <2>2, <2>3 DEF Kept
<1>4. ASSUME NEW r \in Requests, NEW t \in Tracks, CopyRead(r, t) PROVE Kept'
  <2>1. ReadyKept'
    BY <1>4, StartEffect
    DEF CopyRead, At, Fresh, OwnerFree, ReadyKept, Verified, VerifiedIn, Copied,
        CopiedIn, Stages, Stage, RowFacts, TypeOK, rows, intent
  <2>2. Verified'
    BY <1>4, StartEffect
    DEF CopyRead, At, Fresh, OwnerFree, Verified, VerifiedIn, Stages, Stage, RowFacts,
        TypeOK, RequestPC, rows, intent
  <2>3. Copied'
    BY <1>4, StartEffect
    DEF CopyRead, At, Fresh, OwnerFree, Copied, CopiedIn, Alone, Making, Stages, Stage,
        RowFacts, TypeOK, RequestPC, rows, intent
  <2> QED
    BY <2>1, <2>2, <2>3 DEF Kept
<1>5. ASSUME NEW r \in Requests, ReserveInsert(r) PROVE Kept'
  <2>1. ReadyKept'
    BY <1>5, GotoEffect
    DEF ReserveInsert, At, ReadyKept, Verified, VerifiedIn, Copied, CopiedIn, Stages,
        Stage, RowFacts, TypeOK, rows, intent
  <2>2. Verified'
    BY <1>5, GotoEffect
    DEF ReserveInsert, At, Verified, VerifiedIn, Stages, Stage, RowFacts, TypeOK,
        RequestPC, rows, intent
  <2>3. Copied'
    BY <1>5, GotoEffect
    DEF ReserveInsert, At, Copied, CopiedIn, Alone, Making, Stages, Stage, RowFacts,
        TypeOK, RequestPC, rows, intent
  <2> QED
    BY <2>1, <2>2, <2>3 DEF Kept
<1>6. ASSUME NEW r \in Requests, Presign(r) PROVE Kept'
  <2>1. ReadyKept'
    BY <1>6, ReturnEffect
    DEF Presign, At, DeleteRow, ReadyKept, Verified, VerifiedIn, Copied, CopiedIn,
        Stages, Stage, RowFacts, TypeOK, rows, intent
  <2>2. Verified'
    <3>1. SUFFICES ASSUME NEW q \in Requests PROVE VerifiedIn(req[q].pc, req[q].track)'
      BY DEF Verified
    <3>2. VerifiedIn(req[q].pc, req[q].track)
      BY DEF Verified
    <3>3. UNCHANGED <<stored, asked, switched, cleanup>>
      BY <1>6 DEF Presign, intent
    <3>4. \A t \in Tracks : status[t] = "gone" => status'[t] = "gone"
      BY <1>6 DEF Presign, DeleteRow, TypeOK, rows, intent
    <3>5. CASE q = r
      BY <1>6, <3>5, ReturnEffect DEF Presign, VerifiedIn, TypeOK
    <3>6. CASE q # r
      BY <1>6, <3>2, <3>3, <3>4, <3>6, ReturnEffect DEF Presign, VerifiedIn, TypeOK
    <3> QED
      BY <3>5, <3>6
  <2>3. Copied'
    BY <1>6, ReturnEffect
    DEF Presign, At, DeleteRow, Copied, CopiedIn, Alone, Making, Stages, Stage,
        RowFacts, TypeOK, RequestPC, rows, intent
  <2> QED
    BY <2>1, <2>2, <2>3 DEF Kept
<1>7. ASSUME NEW r \in Requests, CompleteSize(r) PROVE Kept'
  <2>1. ReadyKept'
    BY <1>7, GotoEffect, ReturnEffect
    DEF CompleteSize, At, ReadyKept, Verified, VerifiedIn, Copied, CopiedIn, Stages,
        Stage, RowFacts, TypeOK, rows, intent
  <2>2. Verified'
    BY <1>7, GotoEffect, ReturnEffect
    DEF CompleteSize, At, Verified, VerifiedIn, Stages, Stage, RowFacts, TypeOK,
        RequestPC, rows, intent
  <2>3. Copied'
    BY <1>7, GotoEffect, ReturnEffect
    DEF CompleteSize, At, Copied, CopiedIn, Alone, Making, Stages, Stage, RowFacts,
        TypeOK, RequestPC, rows, intent
  <2> QED
    BY <2>1, <2>2, <2>3 DEF Kept
<1>8. ASSUME NEW r \in Requests, CompleteHead(r) PROVE Kept'
  <2>1. ReadyKept'
    BY <1>8, GotoEffect, ReturnEffect
    DEF CompleteHead, At, Matches, ReadyKept, Verified, VerifiedIn, Copied, CopiedIn,
        Stages, Stage, RowFacts, TypeOK, rows, intent
  <2>2. Verified'
    BY <1>8, GotoEffect, ReturnEffect
    DEF CompleteHead, At, Matches, Verified, VerifiedIn, Stages, Stage, RowFacts,
        TypeOK, RequestPC, rows, intent
  <2>3. Copied'
    <3>1. /\ UNCHANGED <<stored, status>>
          /\ req'[r].pc \in {"mark", "discardObject", "idle"}
          /\ \A q \in Requests \ {r} : req'[q] = req[q]
      BY <1>8, GotoEffect, ReturnEffect DEF CompleteHead, RequestPC, rows
    <3> QED
      BY <3>1 DEF Copied, CopiedIn
  <2> QED
    BY <2>1, <2>2, <2>3 DEF Kept
<1>9. ASSUME NEW r \in Requests, DiscardObject(r) PROVE Kept'
  <2>1. ReadyKept'
    BY <1>9, GotoEffect
    DEF DiscardObject, At, ReadyKept, Verified, VerifiedIn, Copied, CopiedIn, Stages,
        Stage, RowFacts, TypeOK, rows, intent
  <2>2. Verified'
    BY <1>9, GotoEffect
    DEF DiscardObject, At, Verified, VerifiedIn, Stages, Stage, RowFacts, TypeOK,
        RequestPC, rows, intent
  <2>3. Copied'
    BY <1>9, GotoEffect
    DEF DiscardObject, At, Copied, CopiedIn, Alone, Making, Stages, Stage, RowFacts,
        TypeOK, RequestPC, rows, intent
  <2> QED
    BY <2>1, <2>2, <2>3 DEF Kept
<1>10. ASSUME NEW r \in Requests, DiscardRow(r) PROVE Kept'
  <2>1. ReadyKept'
    BY <1>10, ReturnEffect
    DEF DiscardRow, At, DeleteRow, Unlocked, ReadyKept, Verified, VerifiedIn, Copied,
        CopiedIn, Stages, Stage, RowFacts, TypeOK, rows, intent
  <2>2. Verified'
    BY <1>10, ReturnEffect
    DEF DiscardRow, At, DeleteRow, Unlocked, Verified, VerifiedIn, Stages, Stage,
        RowFacts, TypeOK, RequestPC, rows, intent
  <2>3. Copied'
    BY <1>10, ReturnEffect
    DEF DiscardRow, At, DeleteRow, Unlocked, Copied, CopiedIn, Alone, Making, Stages,
        Stage, RowFacts, TypeOK, RequestPC, rows, intent
  <2> QED
    BY <2>1, <2>2, <2>3 DEF Kept
<1>11. ASSUME NEW r \in Requests, MarkReady(r) PROVE Kept'
  <2>1. ReadyKept'
    BY <1>11, ReturnEffect
    DEF MarkReady, At, Unlocked, ReadyKept, Verified, VerifiedIn, Copied, CopiedIn,
        Stages, Stage, RowFacts, TypeOK, rows, intent
  <2>2. Verified'
    BY <1>11, ReturnEffect
    DEF MarkReady, At, Unlocked, Verified, VerifiedIn, Stages, Stage, RowFacts, TypeOK,
        RequestPC, rows, intent
  <2>3. Copied'
    BY <1>11, ReturnEffect
    DEF MarkReady, At, Unlocked, Copied, CopiedIn, Alone, Making, Stages, Stage,
        RowFacts, TypeOK, RequestPC, rows, intent
  <2> QED
    BY <2>1, <2>2, <2>3 DEF Kept
<1>12. ASSUME NEW r \in Requests, DeleteObject(r) PROVE Kept'
  <2>1. ReadyKept'
    BY <1>12, GotoEffect, ReturnEffect
    DEF DeleteObject, At, ReadyKept, Verified, VerifiedIn, Copied, CopiedIn, Stages,
        Stage, RowFacts, TypeOK, rows, intent
  <2>2. Verified'
    BY <1>12, GotoEffect, ReturnEffect
    DEF DeleteObject, At, Verified, VerifiedIn, Stages, Stage, RowFacts, TypeOK,
        RequestPC, rows, intent
  <2>3. Copied'
    <3>1. /\ stored' = stored \/ stored' = stored \ {req[r].track}
          /\ status' = status /\ req[r].pc = "object" /\ req'[r].pc \in {"row", "idle"}
          /\ \A q \in Requests \ {r} : req'[q] = req[q]
      BY <1>12, GotoEffect, ReturnEffect DEF DeleteObject, At, RequestPC, rows
    <3>2. \A q \in Requests \ {r} : req[q].pc = "copyMark" => req[q].track # req[r].track
      BY <3>1 DEF Alone, Making
    <3> QED
      BY <3>1, <3>2 DEF Copied, CopiedIn
  <2> QED
    BY <2>1, <2>2, <2>3 DEF Kept
<1>13. ASSUME NEW r \in Requests, DeleteTrackRow(r) PROVE Kept'
  <2>1. ReadyKept'
    BY <1>13, ReturnEffect
    DEF DeleteTrackRow, At, DeleteRow, Unlocked, ReadyKept, Verified, VerifiedIn,
        Copied, CopiedIn, Stages, Stage, RowFacts, TypeOK, rows, intent
  <2>2. Verified'
    BY <1>13, ReturnEffect
    DEF DeleteTrackRow, At, DeleteRow, Unlocked, Verified, VerifiedIn, Stages, Stage,
        RowFacts, TypeOK, RequestPC, rows, intent
  <2>3. Copied'
    BY <1>13, ReturnEffect
    DEF DeleteTrackRow, At, DeleteRow, Unlocked, Copied, CopiedIn, Alone, Making,
        Stages, Stage, RowFacts, TypeOK, RequestPC, rows, intent
  <2> QED
    BY <2>1, <2>2, <2>3 DEF Kept
<1>14. ASSUME NEW r \in Requests, CopyInsert(r) PROVE Kept'
  <2>1. ReadyKept'
    BY <1>14, GotoEffect
    DEF CopyInsert, At, ReadyKept, Verified, VerifiedIn, Copied, CopiedIn, Stages,
        Stage, RowFacts, TypeOK, rows, intent
  <2>2. Verified'
    BY <1>14, GotoEffect
    DEF CopyInsert, At, Verified, VerifiedIn, Stages, Stage, RowFacts, TypeOK,
        RequestPC, rows, intent
  <2>3. Copied'
    BY <1>14, GotoEffect
    DEF CopyInsert, At, Copied, CopiedIn, Alone, Making, Stages, Stage, RowFacts,
        TypeOK, RequestPC, rows, intent
  <2> QED
    BY <2>1, <2>2, <2>3 DEF Kept
<1>15. ASSUME NEW r \in Requests, CopyObject(r) PROVE Kept'
  <2>1. ReadyKept'
    BY <1>15, GotoEffect
    DEF CopyObject, At, ReadyKept, Verified, VerifiedIn, Copied, CopiedIn, Stages,
        Stage, RowFacts, TypeOK, rows, intent
  <2>2. Verified'
    BY <1>15, GotoEffect
    DEF CopyObject, At, Verified, VerifiedIn, Stages, Stage, RowFacts, TypeOK,
        RequestPC, rows, intent
  <2>3. Copied'
    BY <1>15, GotoEffect
    DEF CopyObject, At, Copied, CopiedIn, Alone, Making, Stages, Stage, RowFacts,
        TypeOK, RequestPC, rows, intent
  <2> QED
    BY <2>1, <2>2, <2>3 DEF Kept
<1>16. ASSUME NEW r \in Requests, CopyMark(r) PROVE Kept'
  <2>1. ReadyKept'
    BY <1>16, GotoEffect, ReturnEffect
    DEF CopyMark, At, Rows, Unlocked, ReadyKept, Verified, VerifiedIn, Copied, CopiedIn,
        Stages, Stage, RowFacts, TypeOK, rows, intent
  <2>2. Verified'
    BY <1>16, GotoEffect, ReturnEffect
    DEF CopyMark, At, Rows, Unlocked, Verified, VerifiedIn, Stages, Stage, RowFacts,
        TypeOK, RequestPC, rows, intent
  <2>3. Copied'
    BY <1>16, GotoEffect, ReturnEffect
    DEF CopyMark, At, Rows, Unlocked, Copied, CopiedIn, Alone, Making, Stages, Stage,
        RowFacts, TypeOK, RequestPC, rows, intent
  <2> QED
    BY <2>1, <2>2, <2>3 DEF Kept
<1>17. ASSUME NEW r \in Requests, CopyDiscard(r) PROVE Kept'
  <2>1. ReadyKept'
    BY <1>17, GotoEffect
    DEF CopyDiscard, At, ReadyKept, Verified, VerifiedIn, Copied, CopiedIn, Stages,
        Stage, RowFacts, TypeOK, rows, intent
  <2>2. Verified'
    BY <1>17, GotoEffect
    DEF CopyDiscard, At, Verified, VerifiedIn, Stages, Stage, RowFacts, TypeOK,
        RequestPC, rows, intent
  <2>3. Copied'
    BY <1>17, GotoEffect
    DEF CopyDiscard, At, Copied, CopiedIn, Alone, Making, Stages, Stage, RowFacts,
        TypeOK, RequestPC, rows, intent
  <2> QED
    BY <2>1, <2>2, <2>3 DEF Kept
<1>18. ASSUME NEW r \in Requests, CopyDelete(r) PROVE Kept'
  <2>1. ReadyKept'
    BY <1>18, ReturnEffect
    DEF CopyDelete, At, DeleteRow, Discardable, Unlocked, ReadyKept, Verified,
        VerifiedIn, Copied, CopiedIn, Stages, Stage, RowFacts, TypeOK, rows, intent
  <2>2. Verified'
    BY <1>18, ReturnEffect
    DEF CopyDelete, At, DeleteRow, Discardable, Unlocked, Verified, VerifiedIn, Stages,
        Stage, RowFacts, TypeOK, RequestPC, rows, intent
  <2>3. Copied'
    BY <1>18, ReturnEffect
    DEF CopyDelete, At, DeleteRow, Discardable, Unlocked, Copied, CopiedIn, Alone,
        Making, Stages, Stage, RowFacts, TypeOK, RequestPC, rows, intent
  <2> QED
    BY <2>1, <2>2, <2>3 DEF Kept
<1>19. ASSUME NEW r \in Requests, Abort(r) PROVE Kept'
  <2>1. ReadyKept'
    BY <1>19, ReturnEffect
    DEF Abort, At, ReadyKept, Verified, VerifiedIn, Copied, CopiedIn, Stages, Stage,
        RowFacts, TypeOK, rows, intent
  <2>2. Verified'
    BY <1>19, ReturnEffect
    DEF Abort, At, Verified, VerifiedIn, Stages, Stage, RowFacts, TypeOK, RequestPC,
        rows, intent
  <2>3. Copied'
    BY <1>19, ReturnEffect
    DEF Abort, At, Copied, CopiedIn, Alone, Making, Stages, Stage, RowFacts, TypeOK,
        RequestPC, rows, intent
  <2> QED
    BY <2>1, <2>2, <2>3 DEF Kept
<1>20. ASSUME NEW t \in Tracks, NEW bytes \in {"audio", "junk"}, ClientPut(t, bytes) PROVE Kept'
  <2>1. ReadyKept'
    BY <1>20
    DEF ClientPut, ReadyKept, Verified, VerifiedIn, Copied, CopiedIn, Stages, Stage,
        RowFacts, TypeOK, rows, intent
  <2>2. Verified'
    BY <1>20
    DEF ClientPut, Verified, VerifiedIn, Stages, Stage, RowFacts, TypeOK, RequestPC,
        rows, intent
  <2>3. Copied'
    BY <1>20
    DEF ClientPut, Copied, CopiedIn, Alone, Making, Stages, Stage, RowFacts, TypeOK,
        RequestPC, rows, intent
  <2> QED
    BY <2>1, <2>2, <2>3 DEF Kept
<1>21. ASSUME NEW t \in Tracks, FormExpires(t) PROVE Kept'
  <2>1. ReadyKept'
    BY <1>21
    DEF FormExpires, ReadyKept, Verified, VerifiedIn, Copied, CopiedIn, Stages, Stage,
        RowFacts, TypeOK, rows, intent
  <2>2. Verified'
    BY <1>21
    DEF FormExpires, Verified, VerifiedIn, Stages, Stage, RowFacts, TypeOK, RequestPC,
        rows, intent
  <2>3. Copied'
    BY <1>21
    DEF FormExpires, Copied, CopiedIn, Alone, Making, Stages, Stage, RowFacts, TypeOK,
        RequestPC, rows, intent
  <2> QED
    BY <2>1, <2>2, <2>3 DEF Kept
<1>22. ASSUME NEW t \in Tracks, GrowStale(t) PROVE Kept'
  <2>1. ReadyKept'
    BY <1>22
    DEF GrowStale, ReadyKept, Verified, VerifiedIn, Copied, CopiedIn, Stages, Stage,
        RowFacts, TypeOK, rows, intent
  <2>2. Verified'
    BY <1>22
    DEF GrowStale, Verified, VerifiedIn, Stages, Stage, RowFacts, TypeOK, RequestPC,
        rows, intent
  <2>3. Copied'
    BY <1>22
    DEF GrowStale, Copied, CopiedIn, Alone, Making, Stages, Stage, RowFacts, TypeOK,
        RequestPC, rows, intent
  <2> QED
    BY <2>1, <2>2, <2>3 DEF Kept
<1>23. ASSUME NEW t \in Tracks, CleanupRemove(t) PROVE Kept'
  <2>1. ReadyKept'
    BY <1>23
    DEF CleanupRemove, ReadyKept, Verified, VerifiedIn, Copied, CopiedIn, Stages, Stage,
        RowFacts, TypeOK, rows, intent
  <2>2. Verified'
    BY <1>23
    DEF CleanupRemove, Verified, VerifiedIn, Stages, Stage, RowFacts, TypeOK, RequestPC,
        rows, intent
  <2>3. Copied'
    BY <1>23
    DEF CleanupRemove, Copied, CopiedIn, Alone, Making, Stages, Stage, RowFacts, TypeOK,
        RequestPC, rows, intent
  <2> QED
    BY <2>1, <2>2, <2>3 DEF Kept
<1>24. ASSUME NEW t \in Tracks, NEW size \in Sizes, Resize(t, size) PROVE Kept'
  <2>1. ReadyKept'
    BY <1>24
    DEF Resize, ReadyKept, Verified, VerifiedIn, Copied, CopiedIn, Stages, Stage,
        RowFacts, TypeOK, rows, intent
  <2>2. Verified'
    BY <1>24
    DEF Resize, Verified, VerifiedIn, Stages, Stage, RowFacts, TypeOK, RequestPC, rows, intent
  <2>3. Copied'
    BY <1>24
    DEF Resize, Copied, CopiedIn, Alone, Making, Stages, Stage, RowFacts, TypeOK,
        RequestPC, rows, intent
  <2> QED
    BY <2>1, <2>2, <2>3 DEF Kept
<1>25. CASE CleanupSelect
  <2>1. ReadyKept'
    BY <1>25
    DEF CleanupSelect, Abandoned, Pending, NoCleanup, ReadyKept, Verified, VerifiedIn,
        Copied, CopiedIn, Stages, Stage, RowFacts, TypeOK, rows, intent
  <2>2. Verified'
    BY <1>25
    DEF CleanupSelect, Abandoned, Pending, NoCleanup, Verified, VerifiedIn, Stages,
        Stage, RowFacts, TypeOK, RequestPC, rows, intent
  <2>3. Copied'
    BY <1>25
    DEF CleanupSelect, Abandoned, Pending, NoCleanup, Copied, CopiedIn, Alone, Making,
        Stages, Stage, RowFacts, TypeOK, RequestPC, rows, intent
  <2> QED
    BY <2>1, <2>2, <2>3 DEF Kept
<1>26. CASE CleanupCommit
  <2>1. ReadyKept'
    BY <1>26
    DEF CleanupCommit, NoCleanup, ReadyKept, Verified, VerifiedIn, Copied, CopiedIn,
        Stages, Stage, RowFacts, TypeOK, rows, intent
  <2>2. Verified'
    BY <1>26
    DEF CleanupCommit, NoCleanup, Verified, VerifiedIn, Stages, Stage, RowFacts, TypeOK,
        RequestPC, rows, intent
  <2>3. Copied'
    BY <1>26
    DEF CleanupCommit, NoCleanup, Copied, CopiedIn, Alone, Making, Stages, Stage,
        RowFacts, TypeOK, RequestPC, rows, intent
  <2> QED
    BY <2>1, <2>2, <2>3 DEF Kept
<1>27. CASE CleanupRollback
  <2>1. ReadyKept'
    BY <1>27
    DEF CleanupRollback, NoCleanup, ReadyKept, Verified, VerifiedIn, Copied, CopiedIn,
        Stages, Stage, RowFacts, TypeOK, rows, intent
  <2>2. Verified'
    BY <1>27
    DEF CleanupRollback, NoCleanup, Verified, VerifiedIn, Stages, Stage, RowFacts,
        TypeOK, RequestPC, rows, intent
  <2>3. Copied'
    BY <1>27
    DEF CleanupRollback, NoCleanup, Copied, CopiedIn, Alone, Making, Stages, Stage,
        RowFacts, TypeOK, RequestPC, rows, intent
  <2> QED
    BY <2>1, <2>2, <2>3 DEF Kept
<1>28. CASE UNCHANGED vars
  BY <1>28
  DEF vars, rows, intent, ReadyKept, Verified, VerifiedIn, Copied, CopiedIn, Stages, Stage,
      RowFacts, TypeOK, rows, intent, Verified, VerifiedIn, Stages, Stage, RowFacts, TypeOK,
      RequestPC, rows, intent, Copied, CopiedIn, Alone, Making, Stages, Stage, RowFacts, TypeOK,
      RequestPC, rows, intent, Kept
<1> QED
  BY <1>1, <1>2, <1>3, <1>4, <1>5, <1>6, <1>7, <1>8, <1>9, <1>10, <1>11, <1>12, <1>13,
     <1>14, <1>15, <1>16, <1>17, <1>18, <1>19, <1>20, <1>21, <1>22, <1>23, <1>24, <1>25,
     <1>26, <1>27, <1>28
  DEF Next, Begin, Continue, Cleanup

\* As long as no cleanup rolls back halfway and no commit is in doubt, a ready
\* track has audio a completion saw until its owner deletes it, or its client posts
\* another file after one was judged: a wrong file replaced before does no harm.
THEOREM ReadyIsPlayable ==
  ASSUME "rollback" \notin Faults, "indoubt" \notin Faults
  PROVE  Spec => []PlayableUntilDeleted
<1>1. Init => TypeOK /\ Order /\ Kept
  BY TypeInit, OrderInit, IdleType
  DEF Init, Kept, ReadyKept, Verified, VerifiedIn, Copied, CopiedIn
<1>2. TypeOK /\ Order /\ Kept /\ [Next]_vars => (TypeOK /\ Order /\ Kept)'
  BY TypeStep, OrderStep, KeptStep
<1>3. Order /\ Kept => PlayableUntilDeleted
  BY DEF Order, RowFacts, Kept, ReadyKept, PlayableUntilDeleted
<1> QED
  BY <1>1, <1>2, <1>3, PTL DEF Spec


-----------------------------------------------------------------------------
(* Concurrent reservations stay within the number of unfinished uploads. *)

Uploads == {t \in Pending : file[t] # "copy"}

\* The room a reservation read is still there while it holds the lock.
Room == \A r \in Requests : req[r].pc = "insert" => Cardinality(Pending) < MaxPending

LEMMA PendingFinite ==
  ASSUME NEW S \in SUBSET Tracks
  PROVE  IsFiniteSet(S) /\ Cardinality(S) \in Nat
<1>1. IsFiniteSet(Tracks)
  BY TracksAssumption, FS_Interval DEF Tracks
<1> QED
  BY <1>1, FS_Subset, FS_CardinalityType

LEMMA FewerPending ==
  ASSUME NEW S \in SUBSET Tracks, NEW T \in SUBSET S
  PROVE  Cardinality(T) <= Cardinality(S)
BY PendingFinite, FS_Subset

\* How a step may change the owner's rows besides an insertion and a resizing.
Finishes(t) ==
  /\ t \in Pending
  /\ status' = [status EXCEPT ![t] = "ready"]
  /\ UNCHANGED size_bytes

Removes(some) ==
  /\ some \subseteq Rows
  /\ status' = [t \in Tracks |-> IF t \in some THEN "gone" ELSE status[t]]
  /\ UNCHANGED size_bytes

Settles == (\E t \in Tracks : Finishes(t)) \/ (\E some \in SUBSET Rows : Removes(some))

LEMMA KeptIsSettled ==
  ASSUME TypeOK, UNCHANGED <<status, size_bytes>>
  PROVE  Settles
<1>1. Removes({})
  BY DEF Removes, TypeOK
<1> QED
  BY <1>1 DEF Settles

LEMMA DeletedIsSettled ==
  ASSUME TypeOK, NEW t \in Tracks, DeleteRow(t), UNCHANGED size_bytes
  PROVE  Settles
<1>1. Removes({t} \cap Rows)
  BY DEF Removes, DeleteRow, Rows, TypeOK
<1> QED
  BY <1>1 DEF Settles

LEMMA MarkedIsSettled ==
  ASSUME TypeOK, NEW t \in Tracks, UNCHANGED size_bytes,
         status' = [status EXCEPT ![t] = IF @ = "pending" THEN "ready" ELSE @]
  PROVE  Settles
<1>1. CASE status[t] = "pending"
  BY <1>1 DEF Settles, Finishes, Pending, TypeOK
<1>2. CASE status[t] # "pending"
  <2>1. status' = status
    BY <1>2 DEF TypeOK
  <2> QED
    BY <2>1, KeptIsSettled
<1> QED
  BY <1>1, <1>2

\* A copy stays one, and no upload becomes one.
Copies == {t \in Tracks : file[t] = "copy"}

LEMMA CopiesKept == TypeOK /\ [Next]_vars => Copies' = Copies
<1> SUFFICES ASSUME TypeOK, [Next]_vars PROVE Copies' = Copies
  OBVIOUS
<1>1. ASSUME NEW t \in Tracks, NEW bytes \in {"audio", "junk"}, ClientPut(t, bytes)
      PROVE  Copies' = Copies
  BY <1>1 DEF ClientPut, Copies, TypeOK
<1>2. CASE file' = file
  BY <1>2 DEF Copies
<1> QED
  BY <1>1, <1>2
  DEF Next, Begin, Continue, Cleanup, vars, ReserveRead, CompleteRead, DeleteRead,
      CopyRead, ReserveInsert, Presign, CompleteSize, CompleteHead, DiscardObject,
      DiscardRow, MarkReady, DeleteObject, DeleteTrackRow, CopyInsert, CopyObject,
      CopyMark, CopyDiscard, CopyDelete, Abort, FormExpires, GrowStale,
      Resize, CleanupSelect, CleanupRemove, CleanupCommit, CleanupRollback

\* Nothing but an insertion adds a row, and nothing but a rewrite resizes one.
LEMMA RowsStep ==
  TypeOK /\ Order /\ [Next]_vars =>
    \/ \E r \in Requests : ReserveInsert(r) \/ CopyInsert(r)
    \/ \E t \in Tracks, size \in Sizes : Resize(t, size)
    \/ Settles
<1> SUFFICES ASSUME TypeOK, Order, [Next]_vars,
                    ~ \E r \in Requests : ReserveInsert(r) \/ CopyInsert(r),
                    ~ \E t \in Tracks, size \in Sizes : Resize(t, size)
             PROVE  Settles
  OBVIOUS
<1>1. ASSUME NEW r \in Requests, NEW t \in Tracks, ReserveRead(r, t) PROVE Settles
  BY <1>1, KeptIsSettled DEF ReserveRead, rows, intent
<1>2. ASSUME NEW r \in Requests, NEW t \in Tracks, CompleteRead(r, t) PROVE Settles
  BY <1>2, KeptIsSettled DEF CompleteRead, rows, intent
<1>3. ASSUME NEW r \in Requests, NEW t \in Tracks, DeleteRead(r, t) PROVE Settles
  BY <1>3, KeptIsSettled DEF DeleteRead, rows, intent
<1>4. ASSUME NEW r \in Requests, NEW t \in Tracks, CopyRead(r, t) PROVE Settles
  BY <1>4, KeptIsSettled DEF CopyRead, rows, intent
<1>5. ASSUME NEW r \in Requests, CompleteSize(r) PROVE Settles
  BY <1>5, KeptIsSettled DEF CompleteSize, rows, intent
<1>6. ASSUME NEW r \in Requests, CompleteHead(r) PROVE Settles
  BY <1>6, KeptIsSettled DEF CompleteHead, rows, intent
<1>7. ASSUME NEW r \in Requests, DiscardObject(r) PROVE Settles
  BY <1>7, KeptIsSettled DEF DiscardObject, rows, intent
<1>8. ASSUME NEW r \in Requests, DeleteObject(r) PROVE Settles
  BY <1>8, KeptIsSettled DEF DeleteObject, rows, intent
<1>9. ASSUME NEW r \in Requests, CopyObject(r) PROVE Settles
  BY <1>9, KeptIsSettled DEF CopyObject, rows, intent
<1>10. ASSUME NEW r \in Requests, CopyDiscard(r) PROVE Settles
  BY <1>10, KeptIsSettled DEF CopyDiscard, rows, intent
<1>11. ASSUME NEW r \in Requests, Abort(r) PROVE Settles
  BY <1>11, KeptIsSettled DEF Abort, rows, intent
<1>12. ASSUME NEW t \in Tracks, NEW bytes \in {"audio", "junk"}, ClientPut(t, bytes) PROVE Settles
  BY <1>12, KeptIsSettled DEF ClientPut, rows, intent
<1>13. ASSUME NEW t \in Tracks, FormExpires(t) PROVE Settles
  BY <1>13, KeptIsSettled DEF FormExpires, rows, intent
<1>14. ASSUME NEW t \in Tracks, GrowStale(t) PROVE Settles
  BY <1>14, KeptIsSettled DEF GrowStale, rows, intent
<1>15. ASSUME NEW t \in Tracks, CleanupRemove(t) PROVE Settles
  BY <1>15, KeptIsSettled DEF CleanupRemove, rows, intent
<1>16. CASE CleanupSelect
  BY <1>16, KeptIsSettled DEF CleanupSelect, rows, intent
<1>17. CASE CleanupRollback
  BY <1>17, KeptIsSettled DEF CleanupRollback, rows, intent
<1>18. ASSUME NEW r \in Requests, Presign(r) PROVE Settles
  <2>1. req[r].track \in Tracks
    BY DEF TypeOK
  <2> QED
    BY <1>18, <2>1, KeptIsSettled, DeletedIsSettled DEF Presign
<1>19. ASSUME NEW r \in Requests, DiscardRow(r) PROVE Settles
  <2>1. req[r].track \in Tracks
    BY DEF TypeOK
  <2> QED
    BY <1>19, <2>1, KeptIsSettled, DeletedIsSettled DEF DiscardRow
<1>20. ASSUME NEW r \in Requests, DeleteTrackRow(r) PROVE Settles
  <2>1. req[r].track \in Tracks
    BY DEF TypeOK
  <2> QED
    BY <1>20, <2>1, KeptIsSettled, DeletedIsSettled DEF DeleteTrackRow
<1>21. ASSUME NEW r \in Requests, CopyDelete(r) PROVE Settles
  <2>1. req[r].track \in Tracks
    BY DEF TypeOK
  <2> QED
    BY <1>21, <2>1, KeptIsSettled, DeletedIsSettled DEF CopyDelete
<1>22. ASSUME NEW r \in Requests, MarkReady(r) PROVE Settles
  <2>1. req[r].track \in Tracks
    BY DEF TypeOK
  <2> QED
    BY <1>22, <2>1, KeptIsSettled, MarkedIsSettled DEF MarkReady
<1>23. ASSUME NEW r \in Requests, CopyMark(r) PROVE Settles
  <2>1. req[r].track \in Tracks
    BY DEF TypeOK
  <2> QED
    BY <1>23, <2>1, KeptIsSettled, MarkedIsSettled DEF CopyMark
<1>24. CASE CleanupCommit
  <2>1. cleanup.locked \in SUBSET Rows
    BY DEF Order, RowFacts, Rows, TypeOK
  <2>2. Removes(cleanup.locked)
    BY <1>24, <2>1 DEF CleanupCommit, Removes
  <2> QED
    BY <2>1, <2>2 DEF Settles
<1>25. CASE UNCHANGED vars
  BY <1>25, KeptIsSettled DEF vars, rows, intent
<1> QED
  BY <1>1, <1>2, <1>3, <1>4, <1>5, <1>6, <1>7, <1>8, <1>9, <1>10, <1>11, <1>12,
     <1>13, <1>14, <1>15, <1>16, <1>17, <1>18, <1>19, <1>20, <1>21, <1>22, <1>23,
     <1>24, <1>25
  DEF Next, Begin, Continue, Cleanup

\* Nothing but an insertion adds a pending row.
LEMMA PendingShrinks ==
  TypeOK /\ Order /\ [Next]_vars =>
    \/ \E r \in Requests : ReserveInsert(r) \/ CopyInsert(r)
    \/ Pending' \subseteq Pending
<1> SUFFICES ASSUME TypeOK, Order, [Next]_vars,
                    ~ \E r \in Requests : ReserveInsert(r) \/ CopyInsert(r)
             PROVE  Pending' \subseteq Pending
  OBVIOUS
<1>1. ASSUME NEW t \in Tracks, NEW size \in Sizes, Resize(t, size)
      PROVE  Pending' \subseteq Pending
  BY <1>1 DEF Resize, Pending
<1>2. ASSUME NEW t \in Tracks, Finishes(t) PROVE Pending' \subseteq Pending
  BY <1>2 DEF Finishes, Pending, TypeOK
<1>3. ASSUME NEW some \in SUBSET Rows, Removes(some) PROVE Pending' \subseteq Pending
  BY <1>3 DEF Removes, Pending
<1> QED
  BY <1>1, <1>2, <1>3, RowsStep DEF Settles

\* A request is about to insert a row because it was, or because it has just
\* read that there is room.
Inserting == {"insert", "copyInsert"}

LEMMA InsertIsReserved ==
  TypeOK /\ [Next]_vars =>
    \A r \in Requests : req'[r].pc \in Inserting =>
      \/ req'[r] = req[r]
      \/ \E t \in Tracks : ReserveRead(r, t) \/ CopyRead(r, t)
<1> DEFINE Goal(p) == req'[p].pc \in Inserting => req'[p] = req[p]
<1> SUFFICES ASSUME TypeOK, [Next]_vars, NEW p \in Requests,
                    ~ \E t \in Tracks : ReserveRead(p, t) \/ CopyRead(p, t)
             PROVE  Goal(p)
  OBVIOUS
<1> USE DEF Inserting
<1>1. ASSUME NEW r \in Requests, NEW t \in Tracks, ReserveRead(r, t) PROVE Goal(p)
  BY <1>1, StartEffect DEF ReserveRead, RequestPC
<1>2. ASSUME NEW r \in Requests, NEW t \in Tracks, CompleteRead(r, t) PROVE Goal(p)
  BY <1>2, StartEffect DEF CompleteRead, RequestPC
<1>3. ASSUME NEW r \in Requests, NEW t \in Tracks, DeleteRead(r, t) PROVE Goal(p)
  BY <1>3, StartEffect DEF DeleteRead, RequestPC
<1>4. ASSUME NEW r \in Requests, NEW t \in Tracks, CopyRead(r, t) PROVE Goal(p)
  BY <1>4, StartEffect DEF CopyRead, RequestPC
<1>5. ASSUME NEW r \in Requests, ReserveInsert(r) PROVE Goal(p)
  BY <1>5, GotoEffect DEF ReserveInsert, RequestPC
<1>6. ASSUME NEW r \in Requests, Presign(r) PROVE Goal(p)
  BY <1>6, ReturnEffect DEF Presign, RequestPC
<1>7. ASSUME NEW r \in Requests, CompleteSize(r) PROVE Goal(p)
  BY <1>7, GotoEffect, ReturnEffect DEF CompleteSize, RequestPC
<1>8. ASSUME NEW r \in Requests, CompleteHead(r) PROVE Goal(p)
  BY <1>8, GotoEffect, ReturnEffect DEF CompleteHead, RequestPC
<1>9. ASSUME NEW r \in Requests, DiscardObject(r) PROVE Goal(p)
  BY <1>9, GotoEffect DEF DiscardObject, RequestPC
<1>10. ASSUME NEW r \in Requests, DiscardRow(r) PROVE Goal(p)
  BY <1>10, ReturnEffect DEF DiscardRow, RequestPC
<1>11. ASSUME NEW r \in Requests, MarkReady(r) PROVE Goal(p)
  BY <1>11, ReturnEffect DEF MarkReady, RequestPC
<1>12. ASSUME NEW r \in Requests, DeleteObject(r) PROVE Goal(p)
  BY <1>12, GotoEffect, ReturnEffect DEF DeleteObject, RequestPC
<1>13. ASSUME NEW r \in Requests, DeleteTrackRow(r) PROVE Goal(p)
  BY <1>13, ReturnEffect DEF DeleteTrackRow, RequestPC
<1>14. ASSUME NEW r \in Requests, CopyInsert(r) PROVE Goal(p)
  BY <1>14, GotoEffect DEF CopyInsert, RequestPC
<1>15. ASSUME NEW r \in Requests, CopyObject(r) PROVE Goal(p)
  BY <1>15, GotoEffect DEF CopyObject, RequestPC
<1>16. ASSUME NEW r \in Requests, CopyMark(r) PROVE Goal(p)
  BY <1>16, GotoEffect, ReturnEffect DEF CopyMark, RequestPC
<1>17. ASSUME NEW r \in Requests, CopyDiscard(r) PROVE Goal(p)
  BY <1>17, GotoEffect DEF CopyDiscard, RequestPC
<1>18. ASSUME NEW r \in Requests, CopyDelete(r) PROVE Goal(p)
  BY <1>18, ReturnEffect DEF CopyDelete, RequestPC
<1>19. ASSUME NEW r \in Requests, Abort(r) PROVE Goal(p)
  BY <1>19, ReturnEffect DEF Abort, RequestPC
<1>20. ASSUME NEW t \in Tracks, NEW bytes \in {"audio", "junk"}, ClientPut(t, bytes) PROVE Goal(p)
  BY <1>20 DEF ClientPut
<1>21. ASSUME NEW t \in Tracks, FormExpires(t) PROVE Goal(p)
  BY <1>21 DEF FormExpires
<1>22. ASSUME NEW t \in Tracks, GrowStale(t) PROVE Goal(p)
  BY <1>22 DEF GrowStale
<1>23. ASSUME NEW t \in Tracks, CleanupRemove(t) PROVE Goal(p)
  BY <1>23 DEF CleanupRemove
<1>24. ASSUME NEW t \in Tracks, NEW size \in Sizes, Resize(t, size) PROVE Goal(p)
  BY <1>24 DEF Resize
<1>25. CASE CleanupSelect
  BY <1>25 DEF CleanupSelect
<1>26. CASE CleanupCommit
  BY <1>26 DEF CleanupCommit
<1>27. CASE CleanupRollback
  BY <1>27 DEF CleanupRollback
<1>28. CASE UNCHANGED vars
  BY <1>28 DEF vars
<1> QED
  BY <1>1, <1>2, <1>3, <1>4, <1>5, <1>6, <1>7, <1>8, <1>9, <1>10, <1>11, <1>12,
     <1>13, <1>14, <1>15, <1>16, <1>17, <1>18, <1>19, <1>20, <1>21, <1>22, <1>23,
     <1>24, <1>25, <1>26, <1>27, <1>28
  DEF Next, Begin, Continue, Cleanup

LEMMA RoomInit == Init => Room /\ PendingBounded
<1> SUFFICES ASSUME Init PROVE Room /\ PendingBounded
  OBVIOUS
<1>1. {t \in Pending : file[t] # "copy"} = {}
  BY DEF Init, Pending
<1>2. Room
  BY IdleType DEF Init, Room
<1> QED
  BY <1>1, <1>2, FS_EmptySet, LimitsAssumption DEF PendingBounded

LEMMA RoomStep ==
  TypeOK /\ Order /\ Room /\ PendingBounded /\ [Next]_vars => (Room /\ PendingBounded)'
<1> SUFFICES ASSUME TypeOK, Order, Room, PendingBounded, [Next]_vars
             PROVE  Room' /\ PendingBounded'
  OBVIOUS
<1> USE DEF Order
<1>0. TypeOK'
  BY TypeStep
<1>1. /\ Pending \in SUBSET Tracks /\ Pending' \in SUBSET Tracks
      /\ Cardinality(Pending) \in Nat /\ Cardinality(Pending') \in Nat
      /\ Uploads \in SUBSET Pending /\ Uploads' \in SUBSET Pending'
      /\ Cardinality(Uploads) \in Nat /\ Cardinality(Uploads') \in Nat
  BY PendingFinite DEF Pending, Uploads
<1>2. /\ PendingBounded <=> Cardinality(Uploads) <= MaxPending
      /\ PendingBounded' <=> Cardinality(Uploads') <= MaxPending
  BY DEF PendingBounded, Uploads
<1>3. Copies' = Copies
  BY CopiesKept
<1>4. ASSUME NEW r \in Requests, ReserveInsert(r) PROVE Room' /\ PendingBounded'
  <2> DEFINE t == req[r].track
  <2>1. \A q \in Requests \ {r} : req[q].pc # "insert"
    BY <1>4 DEF ReserveInsert, At, TypeOK
  <2>2. Room'
    BY <1>4, <2>1, GotoEffect DEF ReserveInsert, Room, RequestPC
  <2>3. Pending' = Pending \cup {t} /\ t \in Tracks
    BY <1>4 DEF ReserveInsert, Pending, TypeOK
  <2>4. Cardinality(Pending') <= Cardinality(Pending) + 1
    <3>1. IsFiniteSet(Pending)
      BY <1>1, PendingFinite
    <3>2. Cardinality(Pending \cup {t}) = IF t \in Pending THEN Cardinality(Pending)
                                         ELSE Cardinality(Pending) + 1
      BY <3>1, FS_AddElement
    <3> QED
      BY <1>1, <2>3, <3>2
  <2>5. Cardinality(Pending) < MaxPending
    BY <1>4 DEF ReserveInsert, At, Room
  <2>6. Cardinality(Uploads') <= Cardinality(Pending')
    BY <1>1, FewerPending
  <2> QED
    BY <1>1, <1>2, <2>2, <2>4, <2>5, <2>6, LimitsAssumption
<1>5. ASSUME NEW r \in Requests, CopyInsert(r) PROVE Room' /\ PendingBounded'
  <2>1. \A q \in Requests \ {r} : req[q].pc # "insert"
    BY <1>5 DEF CopyInsert, At, TypeOK
  <2>2. Room'
    BY <1>5, <2>1, GotoEffect DEF CopyInsert, Room, RequestPC
  <2>3. Uploads' = Uploads
    BY <1>5 DEF CopyInsert, At, Uploads, Pending, Stages, Stage, TypeOK
  <2> QED
    BY <1>2, <2>2, <2>3
<1>6. CASE Pending' \subseteq Pending
  <2>1. Uploads' \in SUBSET Uploads
    BY <1>3, <1>6 DEF Uploads, Pending, Copies
  <2>2. Uploads \in SUBSET Tracks
    BY <1>1
  <2>3. Cardinality(Uploads') <= Cardinality(Uploads)
    BY <2>1, <2>2, FewerPending
  <2>4. PendingBounded'
    BY <1>1, <1>2, <2>3, LimitsAssumption
  <2>5. Cardinality(Pending') <= Cardinality(Pending)
    BY <1>1, <1>6, FewerPending
  <2>6. ASSUME NEW r \in Requests, req'[r].pc = "insert" PROVE Cardinality(Pending) < MaxPending
    <3>1. CASE req'[r] = req[r]
      BY <2>6, <3>1 DEF Room
    <3>2. ASSUME NEW t \in Tracks, ReserveRead(r, t) PROVE Cardinality(Pending) < MaxPending
      BY <3>2 DEF ReserveRead, FewPending
    <3>3. ASSUME NEW t \in Tracks, CopyRead(r, t) PROVE FALSE
      BY <2>6, <3>3, StartEffect DEF CopyRead, RequestPC
    <3> QED
      BY <2>6, <3>1, <3>2, <3>3, InsertIsReserved DEF Inserting
  <2>7. Room'
    BY <1>1, <2>5, <2>6, LimitsAssumption DEF Room
  <2> QED
    BY <2>4, <2>7
<1> QED
  BY <1>4, <1>5, <1>6, PendingShrinks

\* However many requests of the owner reserve at once, on however many
\* instances, the unfinished uploads stay within their number.
THEOREM PendingLimit == Spec => []PendingBounded
<1>1. Init => TypeOK /\ Order /\ Room /\ PendingBounded
  BY TypeInit, OrderInit, RoomInit
<1>2. TypeOK /\ Order /\ Room /\ PendingBounded /\ [Next]_vars =>
        (TypeOK /\ Order /\ Room /\ PendingBounded)'
  BY TypeStep, OrderStep, RoomStep
<1> QED
  BY <1>1, <1>2, PTL DEF Spec

-----------------------------------------------------------------------------
(* The quota: what an owner's rows count for, with every kind of track.    *)

\* The bytes some tracks hold if they have the sizes f.
Bytes(f, some) == UNION {{t} \X (1..f[t]) : t \in some}

LEMMA SizesAreNat ==
  ASSUME NEW f \in [Tracks -> Sizes], NEW t \in Tracks
  PROVE  f[t] \in Nat /\ f[t] > 0
<1>1. f[t] \in Nat \ {0}
  BY SizesAssumption
<1> QED
  BY <1>1

LEMMA BytesFinite ==
  ASSUME NEW f \in [Tracks -> Sizes], NEW S \in SUBSET Tracks
  PROVE  IsFiniteSet(Bytes(f, S)) /\ Cardinality(Bytes(f, S)) \in Nat
<1> DEFINE g     == [t \in S |-> {t} \X (1..f[t])]
           parts == {{t} \X (1..f[t]) : t \in S}
<1>1. g \in Surjection(S, parts)
  BY DEF Surjection
<1>2. IsFiniteSet(parts)
  BY <1>1, PendingFinite, FS_Surjection
<1>3. ASSUME NEW t \in S PROVE IsFiniteSet({t} \X (1..f[t]))
  <2>1. f[t] \in Nat
    BY SizesAreNat
  <2>2. IsFiniteSet(1..f[t])
    BY <2>1, FS_Interval
  <2>3. IsFiniteSet({t})
    BY FS_Singleton
  <2> QED
    BY <2>2, <2>3, FS_Product
<1>4. \A T \in parts : IsFiniteSet(T)
  BY <1>3
<1>5. IsFiniteSet(UNION parts)
  BY <1>2, <1>4, FS_UNION
<1> QED
  BY <1>5, FS_CardinalityType DEF Bytes

\* Fewer tracks hold fewer bytes.
LEMMA FewerBytes ==
  ASSUME NEW f \in [Tracks -> Sizes], NEW S \in SUBSET Tracks, NEW T \in SUBSET S
  PROVE  Cardinality(Bytes(f, T)) <= Cardinality(Bytes(f, S))
<1>1. Bytes(f, T) \in SUBSET Bytes(f, S)
  BY DEF Bytes
<1> QED
  BY <1>1, BytesFinite, FS_Subset

\* A track more holds its size more.
LEMMA OneTrackMore ==
  ASSUME NEW f \in [Tracks -> Sizes], NEW S \in SUBSET Tracks, NEW t \in Tracks \ S
  PROVE  Cardinality(Bytes(f, S \cup {t})) = Cardinality(Bytes(f, S)) + f[t]
<1> DEFINE own == {t} \X (1..f[t])
<1>1. f[t] \in Nat /\ f[t] > 0
  BY SizesAreNat
<1>2. IsFiniteSet(own) /\ Cardinality(own) = f[t]
  <2>1. IsFiniteSet(1..f[t]) /\ Cardinality(1..f[t]) = f[t]
    BY <1>1, FS_Interval
  <2>2. IsFiniteSet({t}) /\ Cardinality({t}) = 1
    BY FS_Singleton
  <2>3. IsFiniteSet(own) /\ Cardinality(own) = 1 * f[t]
    BY <2>1, <2>2, FS_Product
  <2> QED
    BY <1>1, <2>3
<1>3. Bytes(f, S \cup {t}) = Bytes(f, S) \cup own
  BY DEF Bytes
<1>4. Bytes(f, S) \cap own = {}
  BY DEF Bytes
<1>5. IsFiniteSet(Bytes(f, S)) /\ Cardinality(Bytes(f, S)) \in Nat
  BY BytesFinite
<1>6. Cardinality({}) = 0
  BY FS_EmptySet
<1> HIDE DEF own
<1>7. Cardinality(Bytes(f, S) \cup own) =
        Cardinality(Bytes(f, S)) + Cardinality(own) - Cardinality(Bytes(f, S) \cap own)
  BY <1>2, <1>5, FS_Union
<1>8. Cardinality(Bytes(f, S) \cap own) = 0
  BY <1>4, <1>6
<1>9. Cardinality(Bytes(f, S \cup {t})) = Cardinality(Bytes(f, S) \cup own)
  BY <1>3
<1> QED
  BY <1>1, <1>2, <1>5, <1>7, <1>8, <1>9

LEMMA UsedIsBytes ==
  /\ Used = Cardinality(Bytes(size_bytes, Rows))
  /\ Used' = Cardinality(Bytes(size_bytes', Rows'))
BY DEF Used, BytesOf, Bytes

\* Who is about to insert a row still has the room it read: until then the
\* lock keeps out every other insertion and every resizing.
Space ==
  \A r \in Requests : req[r].pc \in Inserting =>
    Used + size_bytes[req[r].track] <= MaxOwnerBytes

Quota == Space /\ QuotaKept

LEMMA QuotaInit == Init => Quota
<1> SUFFICES ASSUME Init PROVE Quota
  OBVIOUS
<1>1. Space
  BY IdleType DEF Init, Space, Inserting
<1>2. Bytes(size_bytes, Rows) = {}
  BY DEF Init, Rows, Bytes
<1>3. Used = 0
  BY <1>2, UsedIsBytes, FS_EmptySet
<1> QED
  BY <1>1, <1>3, LimitsAssumption DEF Quota, QuotaKept

LEMMA FitsHasSpace ==
  ASSUME TypeOK, NEW t \in Tracks, FitsQuota(size_bytes[t])
  PROVE  Used + size_bytes[t] <= MaxOwnerBytes
<1>1. Used \in Nat
  BY UsedIsBytes, BytesFinite DEF TypeOK, Rows
<1>2. size_bytes[t] \in Nat
  BY SizesAssumption DEF TypeOK
<1> QED
  BY <1>1, <1>2, LimitsAssumption DEF FitsQuota

LEMMA QuotaStep == TypeOK /\ Order /\ Quota /\ [Next]_vars => Quota'
<1> SUFFICES ASSUME TypeOK, Order, Quota, [Next]_vars PROVE Quota'
  OBVIOUS
<1>0. TypeOK'
  BY TypeStep
<1>1. /\ size_bytes \in [Tracks -> Sizes] /\ size_bytes' \in [Tracks -> Sizes]
      /\ Rows \in SUBSET Tracks /\ Rows' \in SUBSET Tracks
  BY <1>0 DEF TypeOK, Rows
<1>2. Used \in Nat /\ Used' \in Nat
  BY <1>1, UsedIsBytes, BytesFinite
<1>3. ASSUME NEW r \in Requests, ReserveInsert(r) \/ CopyInsert(r) PROVE Quota'
  <2> DEFINE t == req[r].track
  <2>1. /\ t \in Tracks /\ status[t] = "free" /\ status' = [status EXCEPT ![t] = "pending"]
        /\ size_bytes' = size_bytes /\ req[r].pc \in Inserting
    BY <1>3 DEF ReserveInsert, CopyInsert, At, Inserting, TypeOK
  <2>2. Rows' = Rows \cup {t} /\ t \notin Rows
    BY <2>1 DEF Rows, TypeOK
  <2>3. Used' = Used + size_bytes[t]
    BY <1>1, <2>1, <2>2, UsedIsBytes, OneTrackMore
  <2>4. QuotaKept'
    BY <2>1, <2>3 DEF Quota, Space, QuotaKept
  <2>5. \A q \in Requests : req'[q].pc \notin Inserting
    <3>1. \A q \in Requests \ {r} : req[q].pc \notin Inserting
      BY <2>1 DEF TypeOK, Inserting
    <3> QED
      BY <1>3, <3>1, GotoEffect DEF ReserveInsert, CopyInsert, Inserting, RequestPC
  <2> QED
    BY <2>4, <2>5 DEF Quota, Space
<1>4. ASSUME NEW t \in Tracks, NEW size \in Sizes, Resize(t, size) PROVE Quota'
  <2> DEFINE rest == Rows \ {t}
  <2>1. /\ size_bytes' = [size_bytes EXCEPT ![t] = size] /\ Rows' = Rows /\ t \in Rows
        /\ size > size_bytes[t] => Used - size_bytes[t] + size <= MaxOwnerBytes
        /\ req' = req
    BY <1>4 DEF Resize, Rows
  <2>2. rest \in SUBSET Tracks /\ t \in Tracks \ rest /\ Rows = rest \cup {t}
    BY <1>1, <2>1
  <2>3. Bytes(size_bytes', rest) = Bytes(size_bytes, rest)
    BY <1>1, <2>1, <2>2 DEF Bytes
  <2>4. /\ Used = Cardinality(Bytes(size_bytes, rest)) + size_bytes[t]
        /\ Used' = Cardinality(Bytes(size_bytes, rest)) + size
    <3>1. Cardinality(Bytes(size_bytes, rest \cup {t})) =
            Cardinality(Bytes(size_bytes, rest)) + size_bytes[t]
      BY <1>1, <2>2, OneTrackMore
    <3>2. Cardinality(Bytes(size_bytes', rest \cup {t})) =
            Cardinality(Bytes(size_bytes', rest)) + size_bytes'[t]
      BY <1>1, <2>2, OneTrackMore
    <3>3. size_bytes'[t] = size
      BY <1>1, <2>1
    <3> QED
      BY <2>1, <2>2, <2>3, <3>1, <3>2, <3>3, UsedIsBytes
  <2>5. Cardinality(Bytes(size_bytes, rest)) \in Nat /\ size_bytes[t] \in Nat /\ size \in Nat
    BY <1>1, <2>2, BytesFinite, SizesAssumption
  <2>6. QuotaKept'
    BY <2>1, <2>4, <2>5, LimitsAssumption DEF Quota, QuotaKept
  <2>7. \A q \in Requests : req'[q].pc \notin Inserting
    BY <1>4, <2>1, RequestAssumption DEF Resize, OwnerFree, Inserting, TypeOK
  <2> QED
    BY <2>6, <2>7 DEF Quota, Space
<1>5. CASE Settles
  <2>1. size_bytes' = size_bytes /\ Rows' \subseteq Rows
    BY <1>5 DEF Settles, Finishes, Removes, Rows, Pending, TypeOK
  <2>2. Used' <= Used
    BY <1>1, <2>1, UsedIsBytes, FewerBytes
  <2>3. QuotaKept'
    BY <1>2, <2>2, LimitsAssumption DEF Quota, QuotaKept
  <2>4. ASSUME NEW r \in Requests, req'[r].pc \in Inserting
        PROVE  Used + size_bytes[req'[r].track] <= MaxOwnerBytes
    <3>1. CASE req'[r] = req[r]
      BY <2>4, <3>1 DEF Quota, Space
    <3>2. ASSUME NEW t \in Tracks, ReserveRead(r, t) \/ CopyRead(r, t)
          PROVE  Used + size_bytes[req'[r].track] <= MaxOwnerBytes
      <4>1. req'[r].track = t
        BY <3>2, StartEffect DEF ReserveRead, CopyRead, RequestPC
      <4> QED
        BY <3>2, <4>1, FitsHasSpace DEF ReserveRead, CopyRead
    <3> QED
      BY <2>4, <3>1, <3>2, InsertIsReserved
  <2>5. Space'
    <3> SUFFICES ASSUME NEW r \in Requests, req'[r].pc \in Inserting
                 PROVE  Used' + size_bytes'[req'[r].track] <= MaxOwnerBytes
      BY DEF Space
    <3>1. size_bytes'[req'[r].track] \in Nat
      BY <1>0, SizesAssumption DEF TypeOK
    <3>2. Used + size_bytes'[req'[r].track] <= MaxOwnerBytes
      BY <2>1, <2>4
    <3> QED
      BY <1>2, <2>2, <3>1, <3>2, LimitsAssumption
  <2> QED
    BY <2>3, <2>5 DEF Quota
<1> QED
  BY <1>3, <1>4, <1>5, RowsStep

\* However reservations, copies and resizing rewrites overlap, the owner's
\* files never exceed the quota.
THEOREM WithinQuota == Spec => []QuotaKept
<1>1. Init => TypeOK /\ Order /\ Quota
  BY TypeInit, OrderInit, QuotaInit
<1>2. TypeOK /\ Order /\ Quota /\ [Next]_vars => (TypeOK /\ Order /\ Quota)'
  BY TypeStep, OrderStep, QuotaStep
<1>3. Quota => QuotaKept
  BY DEF Quota
<1> QED
  BY <1>1, <1>2, <1>3, PTL DEF Spec

-----------------------------------------------------------------------------
(* The requests, copies, rewrites and the cleaner implement TrackLibrary.  *)

\* What the library calls the owner's rows and their bytes is the same here.
LEMMA SameCount == ASSUME NEW S PROVE Library!Cardinality(S) = Cardinality(S)
BY DEF Library!Cardinality, Cardinality

LEMMA SameRows ==
  /\ Library!Rows = Rows /\ Library!Pending = Pending /\ Library!Used = Used
BY SameCount
DEF Library!Rows, Rows, Library!Pending, Pending, Library!Used, Used, Library!BytesOf, BytesOf

LEMMA LibraryInit == Init => Library!Init
<1> SUFFICES ASSUME Init PROVE Library!Init
  OBVIOUS
<1>1. size_bytes \in [Tracks -> Nat \ {0}]
  BY SizesAssumption DEF Init
<1> QED
  BY <1>1 DEF Init, Library!Init

LEMMA LibraryStep ==
  TypeOK /\ Order /\ Room /\ Quota /\ [Next]_vars => [Library!Next]_(Library!lib)
<1> SUFFICES ASSUME TypeOK, Order, Room, Quota, [Next]_vars
             PROVE  Library!Next \/ UNCHANGED Library!lib
  OBVIOUS
<1>0. Copies' = Copies
  BY CopiesKept
<1>1. ASSUME NEW r \in Requests, ReserveInsert(r) \/ CopyInsert(r) PROVE Library!Next
  <2> DEFINE t == req[r].track
  <2>1. /\ t \in Tracks /\ status[t] = "free" /\ status' = [status EXCEPT ![t] = "pending"]
        /\ size_bytes' = size_bytes /\ req[r].pc \in Inserting
    BY <1>1 DEF ReserveInsert, CopyInsert, At, Inserting, TypeOK
  <2>2. Used + size_bytes[t] <= MaxOwnerBytes
    BY <2>1 DEF Quota, Space
  <2>3. file[t] # "copy" => Cardinality(Pending) < MaxPending
    <3>1. CASE ReserveInsert(r)
      BY <3>1 DEF ReserveInsert, At, Room
    <3>2. CASE CopyInsert(r)
      BY <3>2 DEF CopyInsert, At, Order, Stages, Stage
    <3> QED
      BY <1>1, <3>1, <3>2
  <2>4. Library!Reserve(t)
    BY <1>0, <2>1, <2>2, <2>3, SameRows, SameCount DEF Library!Reserve, Copies
  <2> QED
    BY <2>1, <2>4 DEF Library!Next
<1>2. ASSUME NEW t \in Tracks, NEW size \in Sizes, Resize(t, size) PROVE Library!Next
  <2>1. size_bytes'[t] = size /\ size \in Nat \ {0}
    BY <1>2, SizesAssumption DEF Resize, TypeOK
  <2>2. Library!Grow(t, size)
    BY <1>0, <1>2, SameRows DEF Resize, Library!Grow, Copies
  <2> QED
    BY <2>1, <2>2 DEF Library!Next
<1>3. ASSUME NEW t \in Tracks, Finishes(t) PROVE Library!Next
  <2>1. Library!Finish(t)
    BY <1>0, <1>3 DEF Finishes, Pending, Library!Finish, Copies
  <2> QED
    BY <2>1 DEF Library!Next
<1>4. ASSUME NEW some \in SUBSET Rows, Removes(some) PROVE Library!Next
  <2>1. Library!Remove(some)
    BY <1>0, <1>4, SameRows DEF Removes, Library!Remove, Copies
  <2> QED
    BY <2>1, SameRows DEF Library!Next
<1> QED
  BY <1>1, <1>2, <1>3, <1>4, RowsStep DEF Settles

\* Every step changes the owner's rows as the abstract library may: whatever a
\* request read under the lock still holds when it inserts its row.
THEOREM UploadsImplementLibrary == Spec => ImplementsLibrary
<1>1. Init => TypeOK /\ Order /\ Room /\ PendingBounded /\ Quota /\ Library!Init
  BY TypeInit, OrderInit, RoomInit, QuotaInit, LibraryInit
<1>2. TypeOK /\ Order /\ Room /\ PendingBounded /\ Quota /\ [Next]_vars =>
        (TypeOK /\ Order /\ Room /\ PendingBounded /\ Quota)'
  BY TypeStep, OrderStep, RoomStep, QuotaStep
<1>3. TypeOK /\ Order /\ Room /\ Quota /\ [Next]_vars => [Library!Next]_(Library!lib)
  BY LibraryStep
<1> QED
  BY <1>1, <1>2, <1>3, PTL DEF Spec, ImplementsLibrary, Library!Spec

------------------------------------------------------------------------------
(***************************************************************************)
(* PlayQueue                                                               *)
(***************************************************************************)
\* A set of naturals has a least element.
LEMMA LeastNat ==
  ASSUME NEW S \in SUBSET Nat, S # {}
  PROVE  \E m \in S : \A k \in S : m <= k
<1>1. IsWellFoundedOn(OpToRel(<, Nat), Nat)
  BY NatLessThanWellFounded
<1>2. \E m \in S : \A k \in S : <<k, m>> \notin OpToRel(<, Nat)
  BY <1>1, WFMin
<1>3. PICK m \in S : \A k \in S : <<k, m>> \notin OpToRel(<, Nat)
  BY <1>2
<1>4. m \in Nat
  BY <1>3
<1>5. ASSUME NEW k \in S PROVE m <= k
  <2>1. k \in Nat
    OBVIOUS
  <2>2. ~(k < m)
    BY <1>3, <1>4, <2>1 DEF OpToRel
  <2> QED
    BY <1>4, <2>1, <2>2
<1> QED
  BY <1>3, <1>5

LEMMA FirstIndexFound ==
  ASSUME QueueTypeOK, NEW id, \E i \in 1..length : tracks[i] = id
  PROVE  /\ FirstIndex(id) \in 1..length
         /\ tracks[FirstIndex(id)] = id
<1> DEFINE S == {i \in 1..length : tracks[i] = id}
<1>1. S \in SUBSET Nat /\ S # {}
  BY DEF QueueTypeOK
<1>2. PICK m \in S : \A k \in S : m <= k
  BY <1>1, LeastNat
<1>3. m \in 1..length /\ tracks[m] = id
  BY <1>2
<1>4. \A j \in 1..(m - 1) : tracks[j] # id
  <2> SUFFICES ASSUME NEW j \in 1..(m - 1), tracks[j] = id PROVE FALSE
    OBVIOUS
  <2>1. j \in 1..length /\ j < m
    BY <1>3 DEF QueueTypeOK
  <2> QED
    BY <1>2, <1>3, <2>1 DEF QueueTypeOK
<1> QED
  BY <1>3, <1>4 DEF FirstIndex

LEMMA OrderPositionFound ==
  ASSUME QueueTypeOK, NEW i \in 1..length
  PROVE  OrderPosition(i) \in 1..length /\ order[OrderPosition(i)] = i
BY DEF QueueTypeOK, IsOrder, OrderPosition

LEMMA IdentityIsOrder == ASSUME NEW n \in Nat PROVE IsOrder(Identity(n), n)
BY DEF IsOrder, Identity

-----------------------------------------------------------------------------
(* What is left of the queue after Remove. *)

\* Where entry q of the shorter order was before.
Before(p, q) == IF q < p THEN q ELSE q + 1

\* Where entry q goes when the p-th is taken out.
After(p, q) == IF q < p THEN q ELSE q - 1

LEMMA RenumberKeepsTrack ==
  ASSUME QueueTypeOK, NEW removed \in 1..length, NEW i \in 1..length, i # removed
  PROVE  /\ Renumber(i, removed) \in 1..(length - 1)
         /\ Without(tracks, length, removed)[Renumber(i, removed)] = tracks[i]
BY DEF QueueTypeOK, Renumber, Without

LEMMA RemoveFacts ==
  ASSUME QueueTypeOK, NEW id \in Ids, Remove(id)
  PROVE  /\ length' = length - 1
         /\ \E removed, p \in 1..length :
              /\ tracks[removed] = id
              /\ order[p] = removed
              /\ p # position
              /\ tracks' = Without(tracks, length, removed)
              /\ order' = [q \in 1..(length - 1) |-> Renumber(order[Before(p, q)], removed)]
              /\ position' = NewPosition(p)
<1> DEFINE removed == FirstIndex(id)
           p       == OrderPosition(removed)
<1>1. removed \in 1..length /\ tracks[removed] = id
  BY FirstIndexFound DEF Remove
<1>2. p \in 1..length /\ order[p] = removed
  BY <1>1, OrderPositionFound
<1>3. p # position
  BY <1>1, <1>2 DEF Remove, Current, CurrentIndex
<1>4. tracks' = Without(tracks, length, removed) /\ position' = NewPosition(p) /\ length' = length - 1
  BY DEF Remove
<1>5. order' = [q \in 1..(length - 1) |-> Renumber(Without(order, length, p)[q], removed)]
  BY DEF Remove
<1>6. \A q \in 1..(length - 1) : Without(order, length, p)[q] = order[Before(p, q)]
  BY DEF Without, Before
<1>7. order' = [q \in 1..(length - 1) |-> Renumber(order[Before(p, q)], removed)]
  BY <1>5, <1>6
<1> QED
  BY <1>1, <1>2, <1>3, <1>4, <1>7

LEMMA RemoveType ==
  ASSUME QueueTypeOK, NEW id \in Ids, Remove(id)
  PROVE  QueueTypeOK'
<1>1. PICK removed \in 1..length, p \in 1..length :
        /\ tracks[removed] = id
        /\ order[p] = removed
        /\ p # position
        /\ tracks' = Without(tracks, length, removed)
        /\ order' = [q \in 1..(length - 1) |-> Renumber(order[Before(p, q)], removed)]
        /\ position' = NewPosition(p)
  BY RemoveFacts
<1>2. length' = length - 1 /\ length \in Nat /\ length > 1 /\ length <= MaxLength
  BY <1>1, RemoveFacts, LengthAssumption DEF QueueTypeOK
<1>3. tracks' \in [1..length' -> Ids]
  <2>1. \A i \in 1..(length - 1) : (IF i < removed THEN i ELSE i + 1) \in 1..length
    BY <1>2
  <2> QED
    BY <1>1, <1>2, <2>1 DEF QueueTypeOK, Without
<1>4. ASSUME NEW q \in 1..length'
      PROVE  /\ Before(p, q) \in 1..length /\ Before(p, q) # p
             /\ order[Before(p, q)] \in 1..length /\ order[Before(p, q)] # removed
             /\ order'[q] = Renumber(order[Before(p, q)], removed)
  <2>1. Before(p, q) \in 1..length /\ Before(p, q) # p
    BY <1>2 DEF Before
  <2> QED
    BY <1>1, <1>2, <2>1 DEF QueueTypeOK, IsOrder
<1>5. order' \in [1..length' -> 1..length']
  <2>1. \A q \in 1..length' : Renumber(order[Before(p, q)], removed) \in 1..length'
    BY <1>2, <1>4 DEF Renumber
  <2> QED
    BY <1>1, <1>2, <2>1
<1>6. \A q, r \in 1..length' : order'[q] = order'[r] => q = r
  <2> SUFFICES ASSUME NEW q \in 1..length', NEW r \in 1..length', order'[q] = order'[r]
               PROVE  q = r
    OBVIOUS
  <2> DEFINE i == order[Before(p, q)]
             j == order[Before(p, r)]
  <2>1. i \in 1..length /\ i # removed /\ order'[q] = Renumber(i, removed)
    BY <1>4
  <2>2. j \in 1..length /\ j # removed /\ order'[r] = Renumber(j, removed)
    BY <1>4
  <2>3. Renumber(i, removed) = Renumber(j, removed)
    BY <2>1, <2>2
  <2> HIDE DEF i, j
  <2>4. i = j
    BY <1>2, <2>1, <2>2, <2>3 DEF Renumber
  <2>5. order[Before(p, q)] = order[Before(p, r)]
    BY <2>4 DEF i, j
  <2>6. Before(p, q) = Before(p, r)
    BY <1>4, <2>5 DEF QueueTypeOK, IsOrder
  <2> QED
    BY <1>2, <2>6 DEF Before
<1>7. \A i \in 1..length' : \E q \in 1..length' : order'[q] = i
  <2> SUFFICES ASSUME NEW i \in 1..length' PROVE \E q \in 1..length' : order'[q] = i
    OBVIOUS
  <2> DEFINE old == IF i < removed THEN i ELSE i + 1
  <2>1. old \in 1..length /\ old # removed /\ Renumber(old, removed) = i
    BY <1>2 DEF Renumber
  <2>2. PICK o \in 1..length : order[o] = old
    BY <2>1 DEF QueueTypeOK, IsOrder
  <2>3. o # p
    BY <1>1, <2>1, <2>2
  <2>4. After(p, o) \in 1..length' /\ Before(p, After(p, o)) = o
    BY <1>2, <2>3 DEF After, Before
  <2>5. order'[After(p, o)] = i
    BY <1>4, <2>1, <2>2, <2>4
  <2> QED
    BY <2>4, <2>5
<1>8. position' \in 1..length'
  BY <1>1, <1>2 DEF QueueTypeOK, NewPosition
<1>9. IsOrder(order, length)'
  BY <1>5, <1>6, <1>7 DEF IsOrder
<1>10. shuffled' \in BOOLEAN /\ repeat' \in QueueRepeat
  BY DEF QueueTypeOK, Remove
<1>11. length' \in 1..MaxLength
  BY <1>2, LengthAssumption
<1> QED
  BY <1>3, <1>8, <1>9, <1>10, <1>11 DEF QueueTypeOK

\* Removing another track keeps the current one.
LEMMA RemoveKeepsCurrent ==
  ASSUME QueueTypeOK, NEW id \in Ids, Remove(id)
  PROVE  Current' = Current
<1>1. PICK removed \in 1..length, p \in 1..length :
        /\ tracks[removed] = id
        /\ order[p] = removed
        /\ p # position
        /\ tracks' = Without(tracks, length, removed)
        /\ order' = [q \in 1..(length - 1) |-> Renumber(order[Before(p, q)], removed)]
        /\ position' = NewPosition(p)
  BY RemoveFacts
<1>2. NewPosition(p) \in 1..(length - 1) /\ Before(p, NewPosition(p)) = position
  BY <1>1 DEF QueueTypeOK, NewPosition, Before
<1>3. order'[position'] = Renumber(order[position], removed)
  BY <1>1, <1>2
<1>4. order[position] \in 1..length /\ order[position] # removed
  BY <1>1 DEF QueueTypeOK, IsOrder
<1> QED
  BY <1>1, <1>3, <1>4, RenumberKeepsTrack DEF Current, CurrentIndex

-----------------------------------------------------------------------------
LEMMA QueueTypeInit == QueueInit => QueueTypeOK
<1> SUFFICES ASSUME QueueInit PROVE QueueTypeOK
  OBVIOUS
<1>1. IsOrder(order, length)
  BY IdentityIsOrder, LengthAssumption DEF QueueInit
<1> QED
  BY <1>1 DEF QueueInit, QueueTypeOK, QueueRepeat

\* A step that leaves the list and its order alone.
LEMMA MoveKeepsType ==
  ASSUME QueueTypeOK, UNCHANGED <<length, tracks, order, shuffled, repeat>>, position' \in 1..length
  PROVE  QueueTypeOK'
<1>1. IsOrder(order, length)'
  BY DEF QueueTypeOK, IsOrder
<1> QED
  BY <1>1 DEF QueueTypeOK

LEMMA QueueTypeStep == QueueTypeOK /\ [Step]_queueVars => QueueTypeOK'
<1> SUFFICES ASSUME QueueTypeOK, [Step]_queueVars PROVE QueueTypeOK'
  OBVIOUS
<1> USE LengthAssumption
<1>1. ASSUME NEW n \in 1..MaxLength, NEW list \in [1..n -> Ids], PlayShuffled(n, list)
      PROVE  QueueTypeOK'
  BY <1>1 DEF PlayShuffled, Orders, QueueTypeOK
<1>2. ASSUME NEW n \in 1..MaxLength, NEW list \in [1..n -> Ids], NEW start \in 1..n,
             PlayFrom(n, list, start)
      PROVE  QueueTypeOK'
  <2>1. IsOrder(order, length)'
    BY <1>2, IdentityIsOrder DEF PlayFrom, StartingWith, Orders
  <2> QED
    BY <1>2, <2>1 DEF PlayFrom, QueueTypeOK
<1>3. CASE ToggleShuffle
  <2>1. IsOrder(order, length)'
    BY <1>3, IdentityIsOrder DEF ToggleShuffle, StartingWith, Orders, QueueTypeOK
  <2>2. position' \in 1..length
    <3>1. 1 \in 1..length
      BY DEF QueueTypeOK
    <3>2. order[position] \in 1..length
      BY DEF QueueTypeOK, IsOrder
    <3> QED
      BY <1>3, <3>1, <3>2 DEF ToggleShuffle, LibraryPosition
  <2> QED
    BY <1>3, <2>1, <2>2 DEF ToggleShuffle, QueueTypeOK
<1>4. CASE CycleRepeat
  BY <1>4 DEF CycleRepeat, QueueTypeOK, QueueRepeat, IsOrder
<1>5. ASSUME NEW k \in 1..MaxLength, SkipTo(k) PROVE QueueTypeOK'
  <2>1. position' \in 1..length
    BY <1>5 DEF SkipTo, Upcoming, QueueTypeOK
  <2> QED
    BY <1>5, <2>1, MoveKeepsType DEF SkipTo
<1>6. ASSUME NEW auto \in BOOLEAN, PlayNext(auto) PROVE QueueTypeOK'
  <2>1. position' \in 1..length
    BY <1>6 DEF PlayNext, Advance, QueueTypeOK
  <2> QED
    BY <1>6, <2>1, MoveKeepsType DEF PlayNext
<1>7. CASE Previous
  <2>1. position' \in 1..length
    BY <1>7 DEF Previous, QueueTypeOK
  <2> QED
    BY <1>7, <2>1, MoveKeepsType DEF Previous
<1>8. ASSUME NEW id \in Ids, Remove(id) PROVE QueueTypeOK'
  BY <1>8, RemoveType
<1>9. CASE UNCHANGED queueVars
  BY <1>9 DEF queueVars, QueueTypeOK, IsOrder
<1> QED
  BY <1>1, <1>2, <1>3, <1>4, <1>5, <1>6, <1>7, <1>8, <1>9 DEF Step

\* The order is a permutation of the queue and the position is in it, after
\* any sequence of plays, shuffles, skips and removals.
THEOREM QueueTypeCorrect == QueueSpec => []QueueTypeOK
<1>1. QueueInit => QueueTypeOK
  BY QueueTypeInit
<1>2. QueueTypeOK /\ [Step]_queueVars => QueueTypeOK'
  BY QueueTypeStep
<1> QED
  BY <1>1, <1>2, PTL DEF QueueSpec

-----------------------------------------------------------------------------
LEMMA LibraryOrderStep == QueueTypeOK /\ LibraryOrder /\ [Step]_queueVars => LibraryOrder'
<1> SUFFICES ASSUME QueueTypeOK, LibraryOrder, [Step]_queueVars, ~shuffled'
             PROVE  order' = Identity(length')
  BY DEF LibraryOrder
<1>1. ASSUME NEW n \in 1..MaxLength, NEW list \in [1..n -> Ids], NEW start \in 1..n,
             PlayFrom(n, list, start)
      PROVE  order' = Identity(length')
  BY <1>1 DEF PlayFrom
<1>2. CASE ToggleShuffle
  BY <1>2 DEF ToggleShuffle
<1>3. ASSUME NEW id \in Ids, Remove(id) PROVE order' = Identity(length')
  <2>1. PICK removed \in 1..length, p \in 1..length :
          /\ tracks[removed] = id
          /\ order[p] = removed
          /\ p # position
          /\ tracks' = Without(tracks, length, removed)
          /\ order' = [q \in 1..(length - 1) |-> Renumber(order[Before(p, q)], removed)]
          /\ position' = NewPosition(p)
    BY <1>3, RemoveFacts
  <2>2. length' = length - 1
    BY <1>3, RemoveFacts
  <2>3. order = Identity(length) /\ p = removed
    BY <1>3, <2>1 DEF Remove, LibraryOrder, Identity
  <2>4. \A q \in 1..(length - 1) : Renumber(order[Before(p, q)], removed) = q
    BY <2>3 DEF QueueTypeOK, Identity, Before, Renumber
  <2> QED
    BY <2>1, <2>2, <2>4 DEF Identity
<1>4. ASSUME UNCHANGED <<order, length, shuffled>> PROVE order' = Identity(length')
  BY <1>4 DEF LibraryOrder
<1> QED
  BY <1>1, <1>2, <1>3, <1>4
  DEF Step, PlayShuffled, CycleRepeat, SkipTo, PlayNext, Previous, queueVars

\* Without shuffle the queue plays in library order.
THEOREM PlaysInLibraryOrder == QueueSpec => []LibraryOrder
<1>1. QueueInit => QueueTypeOK /\ LibraryOrder
  BY QueueTypeInit DEF QueueInit, LibraryOrder
<1>2. QueueTypeOK /\ LibraryOrder /\ [Step]_queueVars => (QueueTypeOK /\ LibraryOrder)'
  BY QueueTypeStep, LibraryOrderStep
<1> QED
  BY <1>1, <1>2, PTL DEF QueueSpec

-----------------------------------------------------------------------------
\* Shuffling, repeating and removing never change the track that plays.
THEOREM CurrentIsKept == QueueSpec => CurrentKept
<1>1. QueueTypeOK /\ ToggleShuffle => Current' = Current
  <2> SUFFICES ASSUME QueueTypeOK, ToggleShuffle PROVE Current' = Current
    OBVIOUS
  <2>1. order[position] \in 1..length
    BY DEF QueueTypeOK, IsOrder
  <2>2. order'[position'] = order[position]
    BY <2>1 DEF ToggleShuffle, LibraryPosition, Identity, StartingWith, CurrentIndex
  <2> QED
    BY <2>2 DEF ToggleShuffle, Current, CurrentIndex
<1>2. CycleRepeat => Current' = Current
  BY DEF CycleRepeat, Current, CurrentIndex
<1>3. QueueTypeOK /\ (\E id \in Ids : Remove(id)) => Current' = Current
  BY RemoveKeepsCurrent
<1>4. QueueTypeOK /\ [Step]_queueVars =>
        [ToggleShuffle \/ CycleRepeat \/ (\E id \in Ids : Remove(id)) => Current' = Current]_queueVars
  BY <1>1, <1>2, <1>3
<1> QED
  BY QueueTypeCorrect, <1>4, PTL DEF QueueSpec, CurrentKept

\* Position q of the shorter order plays what position Before(p, q) played.
LEMMA RemoveKeepsTracks ==
  ASSUME QueueTypeOK, NEW id \in Ids, Remove(id)
  PROVE  \E p \in 1..length :
           /\ p # position
           /\ tracks[order[p]] = id
           /\ length' = length - 1
           /\ position' = NewPosition(p)
           /\ \A q \in 1..(length - 1) : tracks'[order'[q]] = tracks[order[Before(p, q)]]
<1>1. PICK removed \in 1..length, p \in 1..length :
        /\ tracks[removed] = id
        /\ order[p] = removed
        /\ p # position
        /\ tracks' = Without(tracks, length, removed)
        /\ order' = [q \in 1..(length - 1) |-> Renumber(order[Before(p, q)], removed)]
        /\ position' = NewPosition(p)
  BY RemoveFacts
<1>2. ASSUME NEW q \in 1..(length - 1)
      PROVE  tracks'[order'[q]] = tracks[order[Before(p, q)]]
  <2>1. Before(p, q) \in 1..length /\ Before(p, q) # p
    BY <1>1 DEF QueueTypeOK, Before
  <2>2. order[Before(p, q)] \in 1..length /\ order[Before(p, q)] # removed
    BY <1>1, <2>1 DEF QueueTypeOK, IsOrder
  <2>3. order'[q] = Renumber(order[Before(p, q)], removed)
    BY <1>1
  <2> QED
    BY <1>1, <2>2, <2>3, RenumberKeepsTrack
<1> QED
  BY <1>1, <1>2, RemoveFacts

\* Removing a track takes at most that one entry out of what plays next, for
\* any shuffle and any number of entries with the same track.
THEOREM RemovalKeepsTheRest == QueueSpec => RemoveKeepsOrder
<1>1. ASSUME QueueTypeOK, NEW id \in Ids, Remove(id)
      PROVE  \/ Upcoming' = Upcoming
             \/ \E k \in DOMAIN Upcoming :
                  Upcoming[k] = id /\ Upcoming' = Without(Upcoming, length - position, k)
  <2>1. PICK p \in 1..length :
          /\ p # position
          /\ tracks[order[p]] = id
          /\ length' = length - 1
          /\ position' = NewPosition(p)
          /\ \A q \in 1..(length - 1) : tracks'[order'[q]] = tracks[order[Before(p, q)]]
    BY <1>1, RemoveKeepsTracks
  <2>2. length \in Nat /\ position \in 1..length
    BY <1>1, LengthAssumption DEF QueueTypeOK
  <2>3. CASE p < position
    \* It had played: everything that follows moves up by one.
    <3>1. position' = position - 1 /\ length' - position' = length - position
      BY <2>1, <2>2, <2>3 DEF NewPosition
    <3>2. ASSUME NEW j \in 1..(length - position)
          PROVE  tracks'[order'[position' + j]] = tracks[order[position + j]]
      <4>1. position' + j \in 1..(length - 1) /\ Before(p, position' + j) = position + j
        BY <2>2, <2>3, <3>1 DEF Before
      <4> QED
        BY <2>1, <4>1
    <3> QED
      BY <3>1, <3>2 DEF Upcoming
  <2>4. CASE p > position
    \* It was to play: it leaves its place to those behind it.
    <3> DEFINE k == p - position
    <3>1. k \in 1..(length - position) /\ Upcoming[k] = id /\ k \in DOMAIN Upcoming
      BY <2>1, <2>2, <2>4 DEF Upcoming
    <3>2. position' = position /\ length' - position' = (length - position) - 1
      BY <2>1, <2>2, <2>4 DEF NewPosition
    <3>3. ASSUME NEW j \in 1..((length - position) - 1)
          PROVE  tracks'[order'[position' + j]] = Upcoming[IF j < k THEN j ELSE j + 1]
      <4>1. position' + j \in 1..(length - 1)
        BY <2>2, <3>2
      <4>2. Before(p, position' + j) = position + (IF j < k THEN j ELSE j + 1)
        BY <2>2, <3>2 DEF Before
      <4>3. (IF j < k THEN j ELSE j + 1) \in 1..(length - position)
        BY <2>2, <3>1
      <4> QED
        BY <2>1, <4>1, <4>2, <4>3 DEF Upcoming
    <3>4. Upcoming' = Without(Upcoming, length - position, k)
      BY <3>2, <3>3 DEF Upcoming, Without
    <3> QED
      BY <3>1, <3>4
  <2> QED
    BY <2>1, <2>2, <2>3, <2>4
<1>2. QueueTypeOK /\ [Step]_queueVars =>
        [\A id \in Ids : Remove(id) =>
           \/ Upcoming' = Upcoming
           \/ \E k \in DOMAIN Upcoming :
                Upcoming[k] = id /\ Upcoming' = Without(Upcoming, length - position, k)]_queueVars
  BY <1>1
<1> QED
  BY QueueTypeCorrect, <1>2, PTL DEF QueueSpec, RemoveKeepsOrder

\* What is preloaded is what plays next.
THEOREM PeekPredicts == QueueSpec => PeekIsNext
<1>1. QueueTypeOK /\ [Step]_queueVars =>
        [\A auto \in BOOLEAN : PlayNext(auto) => Peek(auto) # NoTrack /\ Current' = Peek(auto)]_queueVars
  <2> SUFFICES ASSUME QueueTypeOK, NEW auto \in BOOLEAN, PlayNext(auto)
               PROVE  Peek(auto) # NoTrack /\ Current' = Peek(auto)
    OBVIOUS
  <2>1. position' \in 1..length /\ UNCHANGED <<tracks, order>>
    BY DEF PlayNext, Advance, QueueTypeOK
  <2>2. Current' = tracks[order[position']]
    BY <2>1 DEF Current, CurrentIndex
  <2>3. Peek(auto) = tracks[order[position']]
    BY <2>1 DEF PlayNext, Advance, Peek, Current, CurrentIndex, QueueTypeOK
  <2>4. tracks[order[position']] \in Ids
    BY <2>1 DEF QueueTypeOK, IsOrder
  <2> QED
    BY <2>2, <2>3, <2>4, IdsAssumption
<1> QED
  BY QueueTypeCorrect, <1>1, PTL DEF QueueSpec, PeekIsNext
==============================================================================
