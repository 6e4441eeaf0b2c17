--------------------------- MODULE BotImports_proofs -------------------------
(***************************************************************************)
(* Proofs about BotImports, for any number of tracks, attempts and         *)
(* restarts: a failed import leaves nothing behind but what storage        *)
(* refused to remove, a finished one names a track that can be played, and *)
(* a message becomes one track.                                            *)
(***************************************************************************)
EXTENDS BotImports, FiniteSetTheorems, TLAPS

-----------------------------------------------------------------------------
(* Types, and what the steps do to the runs. *)

LEMMA NoTrackOutside == NoTrack \notin Tracks
BY DEF NoTrack, Tracks

LEMMA GotoEffect ==
  ASSUME TypeOK, NEW r \in Runs, NEW there \in RunPC, Goto(r, there)
  PROVE  /\ run' \in [Runs -> Run]
         /\ run'[r].pc = there
         /\ run'[r].track = run[r].track
         /\ run'[r].outcome = run[r].outcome
         /\ \A q \in Runs \ {r} : run'[q] = run[q]
BY DEF TypeOK, Run, Goto

LEMMA EndEffect ==
  ASSUME TypeOK, NEW r \in Runs, NEW outcome \in {"track", "refused", "retry"},
         End(r, outcome)
  PROVE  /\ run' \in [Runs -> Run]
         /\ run'[r].pc = "outcome"
         /\ run'[r].track = run[r].track
         /\ run'[r].outcome = outcome
         /\ \A q \in Runs \ {r} : run'[q] = run[q]
<1> DEFINE new == [run[r] EXCEPT !.pc = "outcome", !.outcome = outcome]
<1>1. run[r] \in Run
  BY DEF TypeOK
<1>2. new \in Run /\ new.pc = "outcome" /\ new.track = run[r].track /\ new.outcome = outcome
  BY <1>1 DEF Run, RunPC
<1>3. run' = [run EXCEPT ![r] = new]
  BY DEF End
<1> HIDE DEF new
<1> QED
  BY <1>2, <1>3 DEF TypeOK

LEMMA DiscardEffect ==
  ASSUME TypeOK, NEW r \in Runs, NEW outcome \in {"track", "refused", "retry"},
         Discard(r, outcome)
  PROVE  /\ run' \in [Runs -> Run]
         /\ run'[r].pc = "removeObject"
         /\ run'[r].track = run[r].track
         /\ run'[r].outcome = outcome
         /\ \A q \in Runs \ {r} : run'[q] = run[q]
<1> DEFINE new == [run[r] EXCEPT !.pc = "removeObject", !.outcome = outcome]
<1>1. run[r] \in Run
  BY DEF TypeOK
<1>2. new \in Run /\ new.pc = "removeObject" /\ new.track = run[r].track /\ new.outcome = outcome
  BY <1>1 DEF Run, RunPC
<1>3. run' = [run EXCEPT ![r] = new]
  BY DEF Discard
<1> HIDE DEF new
<1> QED
  BY <1>2, <1>3 DEF TypeOK

LEMMA IdleType ==
  /\ IdleRun \in Run
  /\ IdleRun.pc = "idle"
  /\ IdleRun.track = NoTrack
  /\ IdleRun.outcome = "retry"
BY DEF IdleRun, Run, RunPC

LEMMA RunEffect ==
  ASSUME TypeOK, NEW r \in Runs, NEW new \in Run, run' = [run EXCEPT ![r] = new]
  PROVE  /\ run' \in [Runs -> Run]
         /\ run'[r] = new
         /\ \A q \in Runs \ {r} : run'[q] = run[q]
BY DEF TypeOK

LEMMA ImportTypes ==
  ASSUME TypeOK
  PROVE  /\ Claimed \in Import
         /\ [import EXCEPT !.state = "queued"] \in Import
<1>1. import \in Import
  BY DEF TypeOK
<1>2. Claimed \in Import
  <2>1. import.attempts + 1 \in Nat
    BY <1>1 DEF Import
  <2>2. Claimed = [import EXCEPT !.state = "downloading",
                                 !.attempts = import.attempts + 1]
    BY DEF Claimed
  <2> QED
    BY <1>1, <2>1, <2>2 DEF Import
<1>3. [import EXCEPT !.state = "queued"] \in Import
  BY <1>1 DEF Import
<1> QED
  BY <1>2, <1>3

LEMMA StopEffect ==
  ASSUME TypeOK, NEW r \in Runs, run' = [run EXCEPT ![r] = IdleRun]
  PROVE  /\ run' \in [Runs -> Run]
         /\ run'[r] = IdleRun
         /\ \A q \in Runs \ {r} : run'[q] = run[q]
BY IdleType DEF TypeOK

LEMMA TypeInit == Init => TypeOK
<1> SUFFICES ASSUME Init PROVE TypeOK
  OBVIOUS
<1>1. import \in Import
  BY DEF Init, Import
<1>2. run \in [Runs -> Run] /\ \A r \in Runs : run[r].pc \notin Storing
  BY IdleType DEF Init, Storing
<1>3. restarts \in 0..MaxRestarts
  BY BoundsAssumption DEF Init
<1> QED
  BY <1>1, <1>2, <1>3 DEF Init, TypeOK

LEMMA TypeStep == TypeOK /\ [Next]_vars => TypeOK'
<1> SUFFICES ASSUME TypeOK, [Next]_vars PROVE TypeOK'
  OBVIOUS
<1>1. ASSUME FirstDelivery PROVE TypeOK'
  BY <1>1 DEF FirstDelivery, TypeOK, progress, objects
<1>2. ASSUME RefuseFile PROVE TypeOK'
  BY <1>2 DEF RefuseFile, TypeOK, progress, objects
<1>3. ASSUME AddImport PROVE TypeOK'
  BY <1>3, ImportTypes DEF AddImport, TypeOK, progress, objects
<1>4. ASSUME HandOver PROVE TypeOK'
  BY <1>4 DEF HandOver, TypeOK, progress, objects, Run, RunPC, Runs, Storing
<1>5. ASSUME Stop PROVE TypeOK'
  BY <1>5, BoundsAssumption DEF Stop, TypeOK, progress, objects
<1>6. ASSUME Restart PROVE TypeOK'
  <2>1. run' \in [Runs -> Run] /\ \A r \in Runs : run'[r].pc \notin Storing
    BY <1>6, IdleType DEF Restart, Storing
  <2>2. restarts' \in 0..MaxRestarts
    BY <1>6, BoundsAssumption DEF Restart, TypeOK
  <2> QED
    BY <1>6, <2>1, <2>2 DEF Restart, TypeOK, objects
<1>7. ASSUME Resume PROVE TypeOK'
  <2>1. mishaps' \in SUBSET Mishaps
    BY <1>7 DEF Resume, TypeOK, Mishaps
  <2> QED
    BY <1>7, <2>1 DEF Resume, TypeOK, progress, objects, Run, RunPC, Runs, Storing
<1>8. ASSUME StaleBefore PROVE TypeOK'
  BY <1>8, GotoEffect DEF StaleBefore, TypeOK, progress, objects, At, Runs, RunPC,
    Storing
<1>9. ASSUME NEW r \in Runs, StartImport(r) PROVE TypeOK'
  <2> DEFINE new == [run[r] EXCEPT !.pc = "open", !.attempts = Claimed.attempts]
  <2>1. Claimed \in Import
    BY ImportTypes
  <2>2. run[r] \in Run
    BY DEF TypeOK
  <2>3. new \in Run /\ new.pc = "open"
    BY <2>1, <2>2 DEF Run, RunPC, Import
  <2>4. run' = [run EXCEPT ![r] = new]
    BY <1>9 DEF StartImport
  <2>5. /\ run' \in [Runs -> Run]
        /\ \A q \in Runs : run'[q].pc \in Storing => run'[q].track \in Tracks
    BY <2>3, <2>4, RunEffect DEF TypeOK, Storing
  <2>6. import' \in Import /\ recent' \in BOOLEAN /\ mishaps' \in SUBSET Mishaps
    BY <1>9, <2>1 DEF StartImport, Touch, TypeOK, Mishaps
  <2> QED
    BY <1>9, <2>5, <2>6 DEF StartImport, TypeOK, progress, objects
<1>10. ASSUME NEW r \in Runs, GiveUp(r) PROVE TypeOK'
  <2>1. /\ run' \in [Runs -> Run]
        /\ \A q \in Runs : run'[q].pc \in Storing => run'[q].track \in Tracks
    BY <1>10, StopEffect, IdleType DEF GiveUp, TypeOK, Storing
  <2>2. import' \in Import /\ recent' \in BOOLEAN /\ mishaps' \in SUBSET Mishaps
    BY <1>10, ImportTypes DEF GiveUp, WriteFails, Mishap, Touch, TypeOK, Mishaps
  <2> QED
    BY <1>10, <2>1, <2>2 DEF GiveUp, TypeOK, progress, objects
<1>11. ASSUME NEW r \in Runs, Open(r) PROVE TypeOK'
  BY <1>11, GotoEffect, EndEffect DEF Open, TypeOK, progress, objects, At, RunPC,
    Storing
<1>12. ASSUME NEW r \in Runs, NEW t \in Tracks, Reserve(r, t) PROVE TypeOK'
  <2> DEFINE new == [run[r] EXCEPT !.pc = "header", !.track = t]
  <2>1. run[r] \in Run
    BY DEF TypeOK
  <2>2. new \in Run /\ new.track = t
    BY <2>1 DEF Run, RunPC
  <2>3. ASSUME run' = [run EXCEPT ![r] = new]
       PROVE  /\ run' \in [Runs -> Run]
              /\ \A q \in Runs : run'[q].pc \in Storing => run'[q].track \in Tracks
    BY <2>2, <2>3, RunEffect DEF TypeOK, Storing
  <2>4. ASSUME End(r, "retry")
       PROVE  /\ run' \in [Runs -> Run]
              /\ \A q \in Runs : run'[q].pc \in Storing => run'[q].track \in Tracks
    BY <2>4, EndEffect DEF TypeOK, Storing
  <2>5. status' \in [Tracks -> {"free", "pending", "ready", "gone"}]
    BY <1>12 DEF Reserve, TypeOK
  <2> QED
    BY <1>12, <2>3, <2>4, <2>5 DEF Reserve, TypeOK, progress, objects
<1>13. ASSUME NEW r \in Runs, ReserveRefused(r) PROVE TypeOK'
  BY <1>13, EndEffect DEF ReserveRefused, TypeOK, progress, objects, At, Storing
<1>14. ASSUME NEW r \in Runs, Header(r) PROVE TypeOK'
  BY <1>14, GotoEffect, DiscardEffect DEF Header, TypeOK, progress, objects, At,
    RunPC, Storing
<1>15. ASSUME NEW r \in Runs, Put(r) PROVE TypeOK'
  BY <1>15, GotoEffect, DiscardEffect DEF Put, TypeOK, progress, objects, At, RunPC,
    Storing
<1>16. ASSUME NEW r \in Runs, MarkReady(r) PROVE TypeOK'
  BY <1>16, EndEffect, DiscardEffect DEF MarkReady, TypeOK, progress, objects, At,
    Storing
<1>17. ASSUME NEW r \in Runs, RemoveObject(r) PROVE TypeOK'
  BY <1>17, GotoEffect DEF RemoveObject, TypeOK, progress, objects, At, RunPC,
    Storing
<1>18. ASSUME NEW r \in Runs, DeleteRow(r) PROVE TypeOK'
  <2> DEFINE new == [run[r] EXCEPT !.pc = "outcome", !.track = NoTrack]
  <2>1. run[r] \in Run
    BY DEF TypeOK
  <2>2. new \in Run /\ new.pc = "outcome"
    BY <2>1 DEF Run, RunPC
  <2>3. run' = [run EXCEPT ![r] = new]
    BY <1>18 DEF DeleteRow
  <2>4. /\ run' \in [Runs -> Run]
        /\ \A q \in Runs : run'[q].pc \in Storing => run'[q].track \in Tracks
    BY <2>2, <2>3, RunEffect DEF TypeOK, Storing
  <2>5. /\ status' \in [Tracks -> {"free", "pending", "ready", "gone"}]
        /\ mishaps' \in SUBSET Mishaps
    BY <1>18 DEF DeleteRow, Mishap, TypeOK, Mishaps
  <2> QED
    BY <1>18, <2>4, <2>5 DEF DeleteRow, TypeOK, progress, objects
<1>19. ASSUME NEW r \in Runs, RequeueImport(r) PROVE TypeOK'
  <2> DEFINE new == [run[r] EXCEPT !.pc = "wait", !.attempts = 0]
  <2>1. run[r] \in Run
    BY DEF TypeOK
  <2>2. new \in Run /\ new.pc = "wait"
    BY <2>1 DEF Run, RunPC
  <2>3. ASSUME run' = [run EXCEPT ![r] = new]
       PROVE  /\ run' \in [Runs -> Run]
              /\ \A q \in Runs : run'[q].pc \in Storing => run'[q].track \in Tracks
    BY <2>2, <2>3, RunEffect DEF TypeOK, Storing
  <2>4. ASSUME run' = [run EXCEPT ![r] = IdleRun]
       PROVE  /\ run' \in [Runs -> Run]
              /\ \A q \in Runs : run'[q].pc \in Storing => run'[q].track \in Tracks
    BY <2>4, StopEffect, IdleType DEF TypeOK, Storing
  <2>5. import' \in Import /\ recent' \in BOOLEAN /\ mishaps' \in SUBSET Mishaps
    BY <1>19, ImportTypes DEF RequeueImport, Writes, WriteFails, Mishap, Touch, TypeOK,
      Mishaps
  <2> QED
    BY <1>19, <2>3, <2>4, <2>5 DEF RequeueImport, TypeOK, progress, objects
<1>20. ASSUME NEW r \in Runs, Wait(r) PROVE TypeOK'
  BY <1>20, GotoEffect, StopEffect, IdleType DEF Wait, TypeOK, progress, objects,
    At, RunPC, Storing
<1>21. ASSUME NEW r \in Runs, FinishImport(r) PROVE TypeOK'
  <2> DEFINE t == IF run[r].outcome = "track" THEN run[r].track ELSE NoTrack
             finished == [import EXCEPT
               !.state = IF t = NoTrack THEN "failed" ELSE "done", !.track = t]
  <2>1. t \in Tracks \cup {NoTrack}
    BY DEF TypeOK, Run
  <2>2. finished \in Import
    BY <2>1 DEF TypeOK, Import
  <2>3. /\ run' \in [Runs -> Run]
        /\ \A q \in Runs : run'[q].pc \in Storing => run'[q].track \in Tracks
    BY <1>21, StopEffect, IdleType DEF FinishImport, TypeOK, Storing
  <2>4. \/ Writes(finished) \/ WriteFails(finished)
        \/ Mishap /\ UNCHANGED <<import, recent>>
    BY <1>21 DEF FinishImport
  <2>5. import' \in Import /\ recent' \in BOOLEAN /\ mishaps' \in SUBSET Mishaps
    BY <2>2, <2>4 DEF Writes, WriteFails, Mishap, Touch, TypeOK, Mishaps
  <2> QED
    BY <1>21, <2>3, <2>5 DEF FinishImport, TypeOK, progress, objects
<1>22. ASSUME NEW t \in Tracks, OwnerDelete(t) PROVE TypeOK'
  <2>1. import' \in Import
    BY <1>22 DEF OwnerDelete, TypeOK, Import
  <2> QED
    BY <1>22, <2>1 DEF OwnerDelete, TypeOK, progress
<1>23. ASSUME NEW t \in Tracks, CleanupStale(t) PROVE TypeOK'
  BY <1>23 DEF CleanupStale, TypeOK, progress, objects
<1>24. ASSUME UNCHANGED vars PROVE TypeOK'
  BY <1>24 DEF TypeOK, vars, progress, objects
<1> QED
  BY <1>1, <1>2, <1>3, <1>4, <1>5, <1>6, <1>7, <1>8, <1>9, <1>10, <1>11, <1>12,
    <1>13, <1>14, <1>15, <1>16, <1>17, <1>18, <1>19, <1>20, <1>21, <1>22, <1>23,
    <1>24 DEF Next, RunStep

\* Every variable keeps its type, and a run that is storing has a track: what
\* the stages of importOnce rely on, for any number of attempts and restarts.
THEOREM TypeCorrect == Spec => []TypeOK
<1>1. Init => TypeOK
  BY TypeInit
<1>2. TypeOK /\ [Next]_vars => TypeOK'
  BY TypeStep
<1> QED
  BY <1>1, <1>2, PTL DEF Spec

-----------------------------------------------------------------------------
(* What a stage knows about its track: nothing else touches a reservation  *)
(* while its run is storing it, the object is there once the upload said   *)
(* so, and two runs never share a track.                                   *)

StageIn(p, t, outcome) ==
  /\ p \in {"header", "put", "mark"} => status[t] = "pending"
  /\ p = "mark" => t \in stored
  /\ p = "deleteRow" => (t \in stored => t \in unremoved)
  /\ p = "outcome" /\ outcome = "track" /\ t # NoTrack =>
       status[t] = "gone" \/ (status[t] = "ready" /\ t \in stored)

Stage == \A r \in Runs : StageIn(run[r].pc, run[r].track, run[r].outcome)

Apart ==
  \A q, r \in Runs : q # r /\ run[q].track = run[r].track => run[r].track = NoTrack

Used == \A r \in Runs : run[r].track # NoTrack => status[run[r].track] # "free"

\* The track an import names is ready and no run's any more.
Named ==
  import.track # NoTrack =>
    /\ status[import.track] = "ready"
    /\ import.track \in stored
    /\ \A r \in Runs : run[r].track # import.track

Kept == Stage /\ Apart /\ Used /\ Named /\ NothingLeaks


LEMMA KeptInit == Init => Kept
BY IdleType, NoTrackOutside
DEF Init, Kept, Stage, StageIn, Apart, Used, Named, NothingLeaks

\* A step that leaves the tracks, the objects and the import's track alone
\* only has to show that each run goes to a stage whose facts it has.
LEMMA KeptFrame ==
  ASSUME TypeOK, Kept,
         UNCHANGED <<status, stored, unremoved>>,
         import'.track = import.track,
         \A r \in Runs : run'[r].track \in {run[r].track, NoTrack},
         \A r \in Runs : StageIn(run'[r].pc, run'[r].track, run'[r].outcome)
  PROVE  Kept'
<1>1. Stage'
  BY DEF Stage, StageIn
<1>2. Apart'
  BY DEF Kept, Apart
<1>3. Used'
  BY DEF Kept, Used
<1>4. Named'
  BY DEF Kept, Named
<1>5. NothingLeaks'
  BY DEF Kept, NothingLeaks
<1> QED
  BY <1>1, <1>2, <1>3, <1>4, <1>5 DEF Kept

LEMMA KeptStep == TypeOK /\ Kept /\ [Next]_vars => Kept'
<1> SUFFICES ASSUME TypeOK, Kept, [Next]_vars PROVE Kept'
  OBVIOUS
<1>1. ASSUME FirstDelivery PROVE Kept'
  <2>1. UNCHANGED <<status, stored, unremoved>> /\ import'.track = import.track
    BY <1>1 DEF FirstDelivery, objects
  <2>2. \A q \in Runs : run'[q].track \in {run[q].track, NoTrack}
    BY <1>1 DEF FirstDelivery, TypeOK
  <2>3. \A q \in Runs : StageIn(run'[q].pc, run'[q].track, run'[q].outcome)
    BY <1>1 DEF FirstDelivery, TypeOK, Kept, Stage, StageIn
  <2> QED
    BY <2>1, <2>2, <2>3, KeptFrame
<1>2. ASSUME RefuseFile PROVE Kept'
  <2>1. UNCHANGED <<status, stored, unremoved>> /\ import'.track = import.track
    BY <1>2 DEF RefuseFile, objects
  <2>2. \A q \in Runs : run'[q].track \in {run[q].track, NoTrack}
    BY <1>2 DEF RefuseFile, TypeOK
  <2>3. \A q \in Runs : StageIn(run'[q].pc, run'[q].track, run'[q].outcome)
    BY <1>2 DEF RefuseFile, TypeOK, Kept, Stage, StageIn
  <2> QED
    BY <2>1, <2>2, <2>3, KeptFrame
<1>3. ASSUME AddImport PROVE Kept'
  <2>1. UNCHANGED <<status, stored, unremoved>> /\ import'.track = import.track
    BY <1>3 DEF AddImport, objects, TypeOK, Import
  <2>2. \A q \in Runs : run'[q].track \in {run[q].track, NoTrack}
    BY <1>3 DEF AddImport, TypeOK
  <2>3. \A q \in Runs : StageIn(run'[q].pc, run'[q].track, run'[q].outcome)
    BY <1>3 DEF AddImport, TypeOK, Kept, Stage, StageIn
  <2> QED
    BY <2>1, <2>2, <2>3, KeptFrame
<1>4. ASSUME HandOver PROVE Kept'
  <2>1. UNCHANGED <<status, stored, unremoved>> /\ import'.track = import.track
    BY <1>4 DEF HandOver, objects
  <2>2. \A q \in Runs : run'[q].track \in {run[q].track, NoTrack}
    BY <1>4 DEF HandOver, TypeOK, Runs, Run
  <2>3. \A q \in Runs : StageIn(run'[q].pc, run'[q].track, run'[q].outcome)
    BY <1>4 DEF HandOver, TypeOK, Runs, Run, Kept, Stage, StageIn
  <2> QED
    BY <2>1, <2>2, <2>3, KeptFrame
<1>5. ASSUME Stop PROVE Kept'
  <2>1. UNCHANGED <<status, stored, unremoved>> /\ import'.track = import.track
    BY <1>5 DEF Stop, objects
  <2>2. \A q \in Runs : run'[q].track \in {run[q].track, NoTrack}
    BY <1>5 DEF Stop, TypeOK
  <2>3. \A q \in Runs : StageIn(run'[q].pc, run'[q].track, run'[q].outcome)
    BY <1>5 DEF Stop, TypeOK, Kept, Stage, StageIn
  <2> QED
    BY <2>1, <2>2, <2>3, KeptFrame
<1>6. ASSUME Restart PROVE Kept'
  <2>1. UNCHANGED <<status, stored, unremoved>> /\ import'.track = import.track
    BY <1>6 DEF Restart, objects
  <2>2. \A q \in Runs : run'[q].track \in {run[q].track, NoTrack}
    BY <1>6, IdleType DEF Restart, TypeOK
  <2>3. \A q \in Runs : StageIn(run'[q].pc, run'[q].track, run'[q].outcome)
    BY <1>6, IdleType DEF Restart, TypeOK, Kept, Stage, StageIn
  <2> QED
    BY <2>1, <2>2, <2>3, KeptFrame
<1>7. ASSUME Resume PROVE Kept'
  <2>1. UNCHANGED <<status, stored, unremoved>> /\ import'.track = import.track
    BY <1>7 DEF Resume, objects
  <2>2. \A q \in Runs : run'[q].track \in {run[q].track, NoTrack}
    BY <1>7 DEF Resume, TypeOK, Runs, Run
  <2>3. \A q \in Runs : StageIn(run'[q].pc, run'[q].track, run'[q].outcome)
    BY <1>7 DEF Resume, TypeOK, Runs, Run, Kept, Stage, StageIn
  <2> QED
    BY <2>1, <2>2, <2>3, KeptFrame
<1>8. ASSUME StaleBefore PROVE Kept'
  <2>1. UNCHANGED <<status, stored, unremoved>> /\ import'.track = import.track
    BY <1>8 DEF StaleBefore, objects
  <2>2. \A q \in Runs : run'[q].track \in {run[q].track, NoTrack}
    BY <1>8, GotoEffect DEF StaleBefore, TypeOK, Runs, RunPC, At
  <2>3. \A q \in Runs : StageIn(run'[q].pc, run'[q].track, run'[q].outcome)
    BY <1>8, GotoEffect DEF StaleBefore, TypeOK, Runs, RunPC, At, Kept, Stage,
      StageIn
  <2> QED
    BY <2>1, <2>2, <2>3, KeptFrame
<1>9. ASSUME NEW r \in Runs, StartImport(r) PROVE Kept'
  <2>1. UNCHANGED <<status, stored, unremoved>> /\ import'.track = import.track
    BY <1>9 DEF StartImport, objects, TypeOK, Import, Claimed
  <2>2. \A q \in Runs : run'[q].track \in {run[q].track, NoTrack}
    BY <1>9 DEF StartImport, TypeOK, Run
  <2>3. \A q \in Runs : StageIn(run'[q].pc, run'[q].track, run'[q].outcome)
    BY <1>9 DEF StartImport, TypeOK, Run, Kept, Stage, StageIn
  <2> QED
    BY <2>1, <2>2, <2>3, KeptFrame
<1>10. ASSUME NEW r \in Runs, GiveUp(r) PROVE Kept'
  <2>1. UNCHANGED <<status, stored, unremoved>> /\ import'.track = import.track
    BY <1>10 DEF GiveUp, objects, TypeOK, Import, Claimed, WriteFails
  <2>2. \A q \in Runs : run'[q].track \in {run[q].track, NoTrack}
    BY <1>10, StopEffect, IdleType DEF GiveUp, TypeOK, At
  <2>3. \A q \in Runs : StageIn(run'[q].pc, run'[q].track, run'[q].outcome)
    BY <1>10, StopEffect, IdleType DEF GiveUp, TypeOK, At, Kept, Stage, StageIn
  <2> QED
    BY <2>1, <2>2, <2>3, KeptFrame
<1>11. ASSUME NEW r \in Runs, Open(r) PROVE Kept'
  <2>1. UNCHANGED <<status, stored, unremoved>> /\ import'.track = import.track
    BY <1>11 DEF Open, objects
  <2>2. \A q \in Runs : run'[q].track \in {run[q].track, NoTrack}
    BY <1>11, GotoEffect, EndEffect DEF Open, TypeOK, RunPC, At
  <2>3. \A q \in Runs : StageIn(run'[q].pc, run'[q].track, run'[q].outcome)
    BY <1>11, GotoEffect, EndEffect DEF Open, TypeOK, RunPC, At, Kept, Stage,
      StageIn
  <2> QED
    BY <2>1, <2>2, <2>3, KeptFrame
<1>12. ASSUME NEW r \in Runs, NEW t \in Tracks, Reserve(r, t) PROVE Kept'
  <2> DEFINE new == [run[r] EXCEPT !.pc = "header", !.track = t]
  <2>1. run[r] \in Run
    BY DEF TypeOK
  <2>2. new \in Run /\ new.track = t /\ new.pc = "header" /\ new.outcome = run[r].outcome
    BY <2>1 DEF Run, RunPC
  <2>3. /\ status' = [status EXCEPT ![t] = "pending"]
        /\ status[t] = "free"
        /\ UNCHANGED <<stored, unremoved, import>>
    BY <1>12 DEF Reserve, Fresh, objects
  <2>4. \A q \in Runs \ {r} : run'[q] = run[q]
    BY <1>12, <2>2, RunEffect, EndEffect DEF Reserve
  <2>5. \/ run'[r].track = t /\ run'[r].pc = "header"
        \/ /\ run'[r].track = run[r].track
           /\ run'[r].pc = "outcome"
           /\ run'[r].outcome = "retry"
    BY <1>12, <2>2, RunEffect, EndEffect DEF Reserve
  <2> HIDE DEF new
  <2>7. Stage'
    BY <2>3, <2>4, <2>5, NoTrackOutside DEF Kept, Stage, StageIn, TypeOK, Run,
      Apart, Used
  <2>8. Apart'
    BY <2>3, <2>4, <2>5, NoTrackOutside DEF Kept, Apart, TypeOK, Run, Used
  <2>9. Used'
    BY <2>3, <2>4, <2>5, NoTrackOutside DEF Kept, Used, TypeOK, Run
  <2>10. Named'
    BY <2>3, <2>4, <2>5, NoTrackOutside DEF Kept, Named, TypeOK, Run
  <2>11. NothingLeaks'
    BY <2>3, <2>4, <2>5, NoTrackOutside DEF Kept, NothingLeaks, TypeOK, Run
  <2> QED
    BY <2>7, <2>8, <2>9, <2>10, <2>11 DEF Kept
<1>13. ASSUME NEW r \in Runs, ReserveRefused(r) PROVE Kept'
  <2>1. UNCHANGED <<status, stored, unremoved>> /\ import'.track = import.track
    BY <1>13 DEF ReserveRefused, objects
  <2>2. \A q \in Runs : run'[q].track \in {run[q].track, NoTrack}
    BY <1>13, EndEffect DEF ReserveRefused, TypeOK, At
  <2>3. \A q \in Runs : StageIn(run'[q].pc, run'[q].track, run'[q].outcome)
    BY <1>13, EndEffect DEF ReserveRefused, TypeOK, At, Kept, Stage, StageIn
  <2> QED
    BY <2>1, <2>2, <2>3, KeptFrame
<1>14. ASSUME NEW r \in Runs, Header(r) PROVE Kept'
  <2>1. UNCHANGED <<status, stored, unremoved>> /\ import'.track = import.track
    BY <1>14 DEF Header, objects
  <2>2. \A q \in Runs : run'[q].track \in {run[q].track, NoTrack}
    BY <1>14, GotoEffect, DiscardEffect DEF Header, TypeOK, RunPC, At
  <2>3. \A q \in Runs : StageIn(run'[q].pc, run'[q].track, run'[q].outcome)
    BY <1>14, GotoEffect, DiscardEffect DEF Header, TypeOK, RunPC, At, Kept,
      Stage, StageIn
  <2> QED
    BY <2>1, <2>2, <2>3, KeptFrame
<1>15. ASSUME NEW r \in Runs, Put(r) PROVE Kept'
  <2>1. /\ UNCHANGED <<status, unremoved, import>>
        /\ stored' \in {stored, stored \cup {run[r].track}}
        /\ run[r].pc = "put"
    BY <1>15 DEF Put, At
  <2>2. /\ run'[r].track = run[r].track
        /\ \/ run'[r].pc = "mark" /\ run[r].track \in stored'
           \/ run'[r].pc = "removeObject"
        /\ \A q \in Runs \ {r} : run'[q] = run[q]
    BY <1>15, GotoEffect, DiscardEffect DEF Put, RunPC
  <2>7. Stage'
    <3>1. StageIn(run[r].pc, run[r].track, run[r].outcome)
      BY DEF Kept, Stage
    <3>2. StageIn(run[r].pc, run[r].track, run[r].outcome)'
      BY <3>1, <2>1, <2>2 DEF StageIn, TypeOK, Storing
    <3>3. ASSUME NEW q \in Runs, q # r
         PROVE  StageIn(run[q].pc, run[q].track, run[q].outcome)'
      <4>1. StageIn(run[q].pc, run[q].track, run[q].outcome)
        BY DEF Kept, Stage
      <4>2. run[q].pc \in Storing => run[q].track \in Tracks /\ run[q].track # run[r].track
        BY <3>3, NoTrackOutside DEF Kept, Apart, TypeOK
      <4>3. run[q].track # NoTrack => run[q].track \in Tracks /\ run[q].track # run[r].track
        BY <3>3, NoTrackOutside DEF Kept, Apart, TypeOK, Run
      <4> QED
        BY <3>3, <4>1, <4>2, <4>3, <2>1, <2>2 DEF StageIn, Storing, TypeOK
    <3> QED
      BY <3>2, <3>3 DEF Stage
  <2>8. Apart'
    BY <2>1, <2>2 DEF Kept, Apart, TypeOK, Storing
  <2>9. Used'
    BY <2>1, <2>2 DEF Kept, Used, TypeOK, Storing
  <2>10. Named'
    BY <2>1, <2>2 DEF Kept, Named, TypeOK, Storing
  <2>11. NothingLeaks'
    BY <2>1, <2>2 DEF Kept, NothingLeaks, TypeOK, Storing, Stage, StageIn
  <2> QED
    BY <2>7, <2>8, <2>9, <2>10, <2>11 DEF Kept
<1>16. ASSUME NEW r \in Runs, MarkReady(r) PROVE Kept'
  <2>1. /\ UNCHANGED <<stored, unremoved, import>>
        /\ status' \in {status, [status EXCEPT ![run[r].track] = "ready"]}
        /\ run[r].pc = "mark"
        /\ run[r].track \in Tracks
    BY <1>16 DEF MarkReady, At, objects, TypeOK, Storing
  <2>2. /\ run'[r].track = run[r].track
        /\ \/ run'[r].pc = "outcome" /\ status' = [status EXCEPT ![run[r].track] = "ready"]
           \/ run'[r].pc = "removeObject"
        /\ \A q \in Runs \ {r} : run'[q] = run[q]
    BY <1>16, EndEffect, DiscardEffect DEF MarkReady
  <2>7. Stage'
    <3>1. StageIn(run[r].pc, run[r].track, run[r].outcome)
      BY DEF Kept, Stage
    <3>2. StageIn(run[r].pc, run[r].track, run[r].outcome)'
      BY <3>1, <2>1, <2>2, NoTrackOutside DEF StageIn, TypeOK, Run
    <3>3. ASSUME NEW q \in Runs, q # r
         PROVE  StageIn(run[q].pc, run[q].track, run[q].outcome)'
      <4>1. StageIn(run[q].pc, run[q].track, run[q].outcome)
        BY DEF Kept, Stage
      <4>2. run[q].pc \in Storing => run[q].track \in Tracks /\ run[q].track # run[r].track
        BY <3>3, NoTrackOutside DEF Kept, Apart, TypeOK
      <4>3. run[q].track # NoTrack => run[q].track \in Tracks /\ run[q].track # run[r].track
        BY <3>3, NoTrackOutside DEF Kept, Apart, TypeOK, Run
      <4> QED
        BY <3>3, <4>1, <4>2, <4>3, <2>1, <2>2, NoTrackOutside DEF StageIn,
          Storing, TypeOK
    <3> QED
      BY <3>2, <3>3 DEF Stage
  <2>8. Apart'
    BY <2>1, <2>2, NoTrackOutside DEF Kept, Apart, TypeOK, Run
  <2>9. Used'
    BY <2>1, <2>2, NoTrackOutside DEF Kept, Used, TypeOK, Run
  <2>10. Named'
    BY <2>1, <2>2, NoTrackOutside DEF Kept, Named, TypeOK, Run
  <2>11. NothingLeaks'
    BY <2>1, <2>2, NoTrackOutside DEF Kept, NothingLeaks, TypeOK, Run, Stage,
      StageIn
  <2> QED
    BY <2>7, <2>8, <2>9, <2>10, <2>11 DEF Kept
<1>17. ASSUME NEW r \in Runs, RemoveObject(r) PROVE Kept'
  <2>1. /\ UNCHANGED <<status, import>>
        /\ \/ stored' = stored \ {run[r].track} /\ unremoved' = unremoved
           \/ stored' = stored /\ unremoved' = unremoved \cup {run[r].track}
        /\ run[r].track \in Tracks
    BY <1>17 DEF RemoveObject, At, TypeOK, Storing
  <2>2. /\ run'[r].track = run[r].track
        /\ run'[r].pc = "deleteRow"
        /\ \A q \in Runs \ {r} : run'[q] = run[q]
    BY <1>17, GotoEffect DEF RemoveObject, RunPC
  <2>7. Stage'
    BY <2>1, <2>2, NoTrackOutside DEF Kept, Stage, StageIn, TypeOK, Apart
  <2>8. Apart'
    BY <2>1, <2>2, NoTrackOutside DEF Kept, Apart, TypeOK
  <2>9. Used'
    BY <2>1, <2>2, NoTrackOutside DEF Kept, Used, TypeOK
  <2>10. Named'
    BY <2>1, <2>2, NoTrackOutside DEF Kept, Named, TypeOK
  <2>11. NothingLeaks'
    BY <2>1, <2>2, NoTrackOutside DEF Kept, NothingLeaks, TypeOK
  <2> QED
    BY <2>7, <2>8, <2>9, <2>10, <2>11 DEF Kept
<1>18. ASSUME NEW r \in Runs, DeleteRow(r) PROVE Kept'
  <2> DEFINE new == [run[r] EXCEPT !.pc = "outcome", !.track = NoTrack]
  <2>1. run[r] \in Run
    BY DEF TypeOK
  <2>2. new \in Run /\ new.track = NoTrack /\ new.pc = "outcome"
    BY <2>1 DEF Run, RunPC
  <2>3. run'[r] = new /\ \A q \in Runs \ {r} : run'[q] = run[q]
    BY <1>18, <2>2, RunEffect DEF DeleteRow
  <2>4. /\ UNCHANGED <<stored, unremoved, import>>
        /\ status' \in {status, [status EXCEPT ![run[r].track] = "gone"]}
        /\ run[r].pc = "deleteRow"
        /\ run[r].track \in Tracks
    BY <1>18 DEF DeleteRow, At, objects, TypeOK, Storing
  <2>5. run'[r].track = NoTrack /\ run'[r].pc = "outcome"
    BY <2>2, <2>3
  <2> HIDE DEF new
  <2>7. Stage'
    <3>1. StageIn(run[r].pc, run[r].track, run[r].outcome)
      BY DEF Kept, Stage
    <3>2. StageIn(run[r].pc, run[r].track, run[r].outcome)'
      BY <3>1, <2>3, <2>4, <2>5, NoTrackOutside DEF StageIn, TypeOK, Run
    <3>3. ASSUME NEW q \in Runs, q # r
         PROVE  StageIn(run[q].pc, run[q].track, run[q].outcome)'
      <4>1. StageIn(run[q].pc, run[q].track, run[q].outcome)
        BY DEF Kept, Stage
      <4>2. run[q].pc \in Storing => run[q].track \in Tracks /\ run[q].track # run[r].track
        BY <3>3, NoTrackOutside DEF Kept, Apart, TypeOK
      <4>3. run[q].track # NoTrack => run[q].track \in Tracks /\ run[q].track # run[r].track
        BY <3>3, NoTrackOutside DEF Kept, Apart, TypeOK, Run
      <4> QED
        BY <3>3, <4>1, <4>2, <4>3, <2>3, <2>4, <2>5, NoTrackOutside DEF
          StageIn, Storing, TypeOK
    <3> QED
      BY <3>2, <3>3 DEF Stage
  <2>8. Apart'
    BY <2>3, <2>4, <2>5, NoTrackOutside DEF Kept, Apart, TypeOK, Run
  <2>9. Used'
    BY <2>3, <2>4, <2>5, NoTrackOutside DEF Kept, Used, TypeOK, Run
  <2>10. Named'
    BY <2>3, <2>4, <2>5, NoTrackOutside DEF Kept, Named, TypeOK, Run
  <2>11. NothingLeaks'
    BY <2>3, <2>4, <2>5, NoTrackOutside DEF Kept, NothingLeaks, TypeOK, Run,
      Stage, StageIn
  <2> QED
    BY <2>7, <2>8, <2>9, <2>10, <2>11 DEF Kept
<1>19. ASSUME NEW r \in Runs, RequeueImport(r) PROVE Kept'
  <2> DEFINE new == [run[r] EXCEPT !.pc = "wait", !.attempts = 0]
  <2>4. run[r] \in Run
    BY DEF TypeOK
  <2>5. new \in Run /\ new.pc = "wait" /\ new.track = run[r].track
    BY <2>4 DEF Run, RunPC
  <2>0. /\ run'[r].track \in {run[r].track, NoTrack}
        /\ run'[r].pc \in {"wait", "idle"}
        /\ \A q \in Runs \ {r} : run'[q] = run[q]
    BY <1>19, <2>5, RunEffect, StopEffect, IdleType DEF RequeueImport
  <2> HIDE DEF new
  <2>1. UNCHANGED <<status, stored, unremoved>> /\ import'.track = import.track
    BY <1>19 DEF RequeueImport, objects, TypeOK, Import, Writes, WriteFails
  <2>2. \A q \in Runs : run'[q].track \in {run[q].track, NoTrack}
    BY <1>19, <2>0 DEF RequeueImport, TypeOK, Run
  <2>3. \A q \in Runs : StageIn(run'[q].pc, run'[q].track, run'[q].outcome)
    BY <1>19, <2>0 DEF RequeueImport, TypeOK, Run, Kept, Stage, StageIn
  <2> QED
    BY <2>1, <2>2, <2>3, KeptFrame
<1>20. ASSUME NEW r \in Runs, Wait(r) PROVE Kept'
  <2>1. UNCHANGED <<status, stored, unremoved>> /\ import'.track = import.track
    BY <1>20 DEF Wait, objects
  <2>2. \A q \in Runs : run'[q].track \in {run[q].track, NoTrack}
    BY <1>20, GotoEffect, StopEffect, IdleType DEF Wait, TypeOK, RunPC, At
  <2>3. \A q \in Runs : StageIn(run'[q].pc, run'[q].track, run'[q].outcome)
    BY <1>20, GotoEffect, StopEffect, IdleType DEF Wait, TypeOK, RunPC, At, Kept,
      Stage, StageIn
  <2> QED
    BY <2>1, <2>2, <2>3, KeptFrame
<1>21. ASSUME NEW r \in Runs, FinishImport(r) PROVE Kept'
  <2>1. UNCHANGED <<status, stored, unremoved>>
    BY <1>21 DEF FinishImport, objects
  <2>2. /\ run'[r].track = NoTrack
        /\ run'[r].pc = "idle"
        /\ \A q \in Runs \ {r} : run'[q] = run[q]
    BY <1>21, StopEffect, IdleType DEF FinishImport
  <2>3. \/ import'.track = import.track
        \/ import'.track = NoTrack
        \/ /\ import'.track = run[r].track
           /\ run[r].pc = "outcome"
           /\ run[r].outcome = "track"
           /\ run[r].track # NoTrack => status[run[r].track] \in {"pending", "ready"}
    BY <1>21 DEF FinishImport, At, Referable, Writes, WriteFails, TypeOK, Import
  <2>7. Stage'
    BY <2>1, <2>2, <2>3 DEF Kept, Stage, StageIn, TypeOK, Apart
  <2>8. Apart'
    BY <2>1, <2>2, <2>3 DEF Kept, Apart, TypeOK
  <2>9. Used'
    BY <2>1, <2>2, <2>3 DEF Kept, Used, TypeOK
  <2>10. Named'
    BY <2>1, <2>2, <2>3 DEF Kept, Named, TypeOK, Stage, StageIn, Apart
  <2>11. NothingLeaks'
    BY <2>1, <2>2, <2>3 DEF Kept, NothingLeaks, TypeOK
  <2> QED
    BY <2>7, <2>8, <2>9, <2>10, <2>11 DEF Kept
<1>22. ASSUME NEW t \in Tracks, OwnerDelete(t) PROVE Kept'
  <2>1. /\ status[t] = "ready"
        /\ status' = [status EXCEPT ![t] = "gone"]
        /\ stored' = stored \ {t}
        /\ UNCHANGED <<unremoved, run>>
    BY <1>22 DEF OwnerDelete
  <2>2. import'.track = IF import.track = t THEN NoTrack ELSE import.track
    BY <1>22 DEF OwnerDelete, TypeOK, Import
  <2>7. Stage'
    BY <2>1, <2>2, NoTrackOutside DEF Kept, Stage, StageIn, TypeOK, Apart
  <2>8. Apart'
    BY <2>1, <2>2, NoTrackOutside DEF Kept, Apart, TypeOK
  <2>9. Used'
    BY <2>1, <2>2, NoTrackOutside DEF Kept, Used, TypeOK
  <2>10. Named'
    BY <2>1, <2>2, NoTrackOutside DEF Kept, Named, TypeOK
  <2>11. NothingLeaks'
    BY <2>1, <2>2, NoTrackOutside DEF Kept, NothingLeaks, TypeOK
  <2> QED
    BY <2>7, <2>8, <2>9, <2>10, <2>11 DEF Kept
<1>23. ASSUME NEW t \in Tracks, CleanupStale(t) PROVE Kept'
  <2>1. /\ status[t] = "pending"
        /\ status' = [status EXCEPT ![t] = "gone"]
        /\ stored' = stored \ {t}
        /\ UNCHANGED <<unremoved, run, import>>
        /\ \A r \in Runs : run[r].track # t
    BY <1>23 DEF CleanupStale
  <2>7. Stage'
    BY <2>1, NoTrackOutside DEF Kept, Stage, StageIn, TypeOK, Apart
  <2>8. Apart'
    BY <2>1, NoTrackOutside DEF Kept, Apart, TypeOK
  <2>9. Used'
    BY <2>1, NoTrackOutside DEF Kept, Used, TypeOK
  <2>10. Named'
    BY <2>1, NoTrackOutside DEF Kept, Named, TypeOK
  <2>11. NothingLeaks'
    BY <2>1, NoTrackOutside DEF Kept, NothingLeaks, TypeOK
  <2> QED
    BY <2>7, <2>8, <2>9, <2>10, <2>11 DEF Kept
<1>24. ASSUME UNCHANGED vars PROVE Kept'
  <2>1. UNCHANGED <<status, stored, unremoved>> /\ import'.track = import.track
    BY <1>24 DEF vars, objects
  <2>2. \A q \in Runs : run'[q].track \in {run[q].track, NoTrack}
    BY <1>24 DEF vars
  <2>3. \A q \in Runs : StageIn(run'[q].pc, run'[q].track, run'[q].outcome)
    BY <1>24 DEF vars, Kept, Stage, StageIn
  <2> QED
    BY <2>1, <2>2, <2>3, KeptFrame
<1> QED
  BY <1>1, <1>2, <1>3, <1>4, <1>5, <1>6, <1>7, <1>8, <1>9, <1>10, <1>11, <1>12,
    <1>13, <1>14, <1>15, <1>16, <1>17, <1>18, <1>19, <1>20, <1>21, <1>22, <1>23,
    <1>24 DEF Next, RunStep

\* Discard removes the object before the row: a failed attempt leaves nothing
\* in storage, whatever is retried, restarted or committed without an answer.
THEOREM NothingIsLeft == Spec => []NothingLeaks
<1>1. Init => Kept
  BY KeptInit
<1>2. TypeOK /\ Kept /\ [Next]_vars => Kept'
  BY KeptStep
<1>3. Kept => NothingLeaks
  BY DEF Kept
<1> QED
  BY <1>1, <1>2, <1>3, TypeCorrect, PTL DEF Spec

\* What the chat is told of can be played: FinishImport names only a track
\* that is ready with its object, and no other run takes either away.
THEOREM DoneCanBePlayed == Spec => []DoneIsPlayable
<1>1. Init => Kept
  BY KeptInit
<1>2. TypeOK /\ Kept /\ [Next]_vars => Kept'
  BY KeptStep
<1>3. TypeOK /\ Kept => DoneIsPlayable
  BY DEF TypeOK, Import, Kept, Named, DoneIsPlayable, Ready
<1> QED
  BY <1>1, <1>2, <1>3, TypeCorrect, PTL DEF Spec

-----------------------------------------------------------------------------
(* One message, one track: without a mishap one run at most works on the   *)
(* import, which is then downloading; a ready track it still holds is not  *)
(* counted yet, and the others are no more than the restarts.              *)

Held == {run[r].track : r \in Runs}

NoSpare ==
  \A r \in Runs :
    (\/ run[r].pc \in {"idle", "listed", "start", "wait", "open", "reserve"}
     \/ run[r].pc = "outcome" /\ run[r].outcome # "track")
    => run[r].track = NoTrack

Delivered ==
  /\ handler # "none" => seen
  /\ run["webhook"].pc # "idle" => seen /\ handler = "none"
  /\ ~resumed => run["resumed"].pc = "idle"

Alone ==
  mishaps \subseteq {"unlisted"} =>
    /\ \A q, r \in Working : q = r
    /\ Working # {} => import.state = "downloading"

Once ==
  mishaps \subseteq {"unlisted"} =>
    IF import.state = "done"
    THEN Cardinality(Ready) <= 1 + restarts
    ELSE Cardinality(Ready \ Held) <= restarts


\* The tracks of a message are finitely many.
LEMMA ReadyFinite ==
  /\ IsFiniteSet(Ready)
  /\ Cardinality(Ready) \in Nat
  /\ \A S \in SUBSET Ready :
       /\ IsFiniteSet(S)
       /\ Cardinality(S) \in Nat
       /\ Cardinality(S) <= Cardinality(Ready)
<1>1. IsFiniteSet(Tracks)
  BY BoundsAssumption, FS_Interval DEF Tracks
<1>2. IsFiniteSet(Ready)
  BY <1>1, FS_Subset DEF Ready
<1> QED
  BY <1>2, FS_Subset, FS_CardinalityType

\* Where each step of a run takes it, and with which track.
LEMMA StartImportMoves ==
  ASSUME TypeOK, NEW r \in Runs, StartImport(r)
  PROVE  /\ run[r].pc = "start"
         /\ run'[r].pc = "open"
         /\ run'[r].track = run[r].track
         /\ \A q \in Runs \ {r} : run'[q] = run[q]
<1> DEFINE new == [run[r] EXCEPT !.pc = "open", !.attempts = Claimed.attempts]
<1>1. run[r] \in Run
  BY DEF TypeOK
<1>2. new \in Run /\ new.pc = "open" /\ new.track = run[r].track
  BY <1>1, ImportTypes DEF Run, RunPC, Import
<1> QED
  BY <1>1, <1>2, RunEffect DEF StartImport, At

LEMMA GiveUpMoves ==
  ASSUME TypeOK, NEW r \in Runs, GiveUp(r)
  PROVE  /\ run[r].pc = "start"
         /\ run'[r] = IdleRun
         /\ \A q \in Runs \ {r} : run'[q] = run[q]
BY StopEffect, IdleType DEF GiveUp, At, RunPC

LEMMA OpenMoves ==
  ASSUME TypeOK, NEW r \in Runs, Open(r)
  PROVE  /\ run[r].pc = "open"
         /\ run'[r].track = run[r].track
         /\ \/ run'[r].pc = "reserve"
            \/ run'[r].pc = "outcome" /\ run'[r].outcome # "track"
         /\ \A q \in Runs \ {r} : run'[q] = run[q]
BY GotoEffect, EndEffect DEF Open, At, RunPC

LEMMA ReserveMoves ==
  ASSUME TypeOK, NEW r \in Runs, NEW t \in Tracks, Reserve(r, t)
  PROVE  /\ run[r].pc = "reserve"
         /\ \/ run'[r].pc = "header" /\ run'[r].track = t
            \/ /\ run'[r].pc = "outcome"
               /\ run'[r].outcome # "track"
               /\ run'[r].track = run[r].track
         /\ \A q \in Runs \ {r} : run'[q] = run[q]
<1> DEFINE new == [run[r] EXCEPT !.pc = "header", !.track = t]
<1>1. run[r] \in Run
  BY DEF TypeOK
<1>2. new \in Run /\ new.pc = "header" /\ new.track = t
  BY <1>1 DEF Run, RunPC
<1> QED
  BY <1>1, <1>2, RunEffect, EndEffect DEF Reserve, At

LEMMA ReserveRefusedMoves ==
  ASSUME TypeOK, NEW r \in Runs, ReserveRefused(r)
  PROVE  /\ run[r].pc = "reserve"
         /\ run'[r].pc = "outcome"
         /\ run'[r].outcome # "track"
         /\ run'[r].track = run[r].track
         /\ \A q \in Runs \ {r} : run'[q] = run[q]
BY EndEffect DEF ReserveRefused, At, RunPC

LEMMA HeaderMoves ==
  ASSUME TypeOK, NEW r \in Runs, Header(r)
  PROVE  /\ run[r].pc = "header"
         /\ run'[r].pc \in {"put", "removeObject"}
         /\ run'[r].track = run[r].track
         /\ \A q \in Runs \ {r} : run'[q] = run[q]
BY GotoEffect, DiscardEffect DEF Header, At, RunPC

LEMMA PutMoves ==
  ASSUME TypeOK, NEW r \in Runs, Put(r)
  PROVE  /\ run[r].pc = "put"
         /\ run'[r].pc \in {"mark", "removeObject"}
         /\ run'[r].track = run[r].track
         /\ \A q \in Runs \ {r} : run'[q] = run[q]
BY GotoEffect, DiscardEffect DEF Put, At, RunPC

LEMMA MarkReadyMoves ==
  ASSUME TypeOK, NEW r \in Runs, MarkReady(r)
  PROVE  /\ run[r].pc = "mark"
         /\ run'[r].track = run[r].track
         /\ \/ run'[r].pc = "outcome" /\ run'[r].outcome = "track"
            \/ run'[r].pc = "removeObject"
         /\ \A q \in Runs \ {r} : run'[q] = run[q]
BY EndEffect, DiscardEffect DEF MarkReady, At, RunPC

LEMMA RemoveObjectMoves ==
  ASSUME TypeOK, NEW r \in Runs, RemoveObject(r)
  PROVE  /\ run[r].pc = "removeObject"
         /\ run'[r].pc = "deleteRow"
         /\ run'[r].track = run[r].track
         /\ \A q \in Runs \ {r} : run'[q] = run[q]
BY GotoEffect DEF RemoveObject, At, RunPC

LEMMA DeleteRowMoves ==
  ASSUME TypeOK, NEW r \in Runs, DeleteRow(r)
  PROVE  /\ run[r].pc = "deleteRow"
         /\ run'[r].pc = "outcome" /\ run'[r].track = NoTrack
         /\ \A q \in Runs \ {r} : run'[q] = run[q]
<1> DEFINE new == [run[r] EXCEPT !.pc = "outcome", !.track = NoTrack]
<1>1. run[r] \in Run
  BY DEF TypeOK
<1>2. new \in Run /\ new.pc = "outcome" /\ new.track = NoTrack
  BY <1>1 DEF Run, RunPC
<1> QED
  BY <1>1, <1>2, RunEffect DEF DeleteRow, At

LEMMA RequeueImportMoves ==
  ASSUME TypeOK, NEW r \in Runs, RequeueImport(r)
  PROVE  /\ run[r].pc = "outcome" /\ run[r].outcome = "retry"
         /\ \/ run'[r].pc = "wait" /\ run'[r].track = run[r].track
            \/ run'[r] = IdleRun
         /\ \A q \in Runs \ {r} : run'[q] = run[q]
<1> DEFINE new == [run[r] EXCEPT !.pc = "wait", !.attempts = 0]
<1>1. run[r] \in Run
  BY DEF TypeOK
<1>2. new \in Run /\ new.pc = "wait" /\ new.track = run[r].track
  BY <1>1 DEF Run, RunPC
<1> QED
  BY <1>1, <1>2, RunEffect, StopEffect, IdleType DEF RequeueImport, At, Retried

LEMMA WaitMoves ==
  ASSUME TypeOK, NEW r \in Runs, Wait(r)
  PROVE  /\ run[r].pc = "wait"
         /\ \/ run'[r].pc = "start" /\ run'[r].track = run[r].track
            \/ run'[r] = IdleRun
         /\ \A q \in Runs \ {r} : run'[q] = run[q]
BY GotoEffect, StopEffect, IdleType DEF Wait, At, RunPC

LEMMA FinishImportMoves ==
  ASSUME TypeOK, NEW r \in Runs, FinishImport(r)
  PROVE  /\ run[r].pc = "outcome"
         /\ run'[r] = IdleRun
         /\ \A q \in Runs \ {r} : run'[q] = run[q]
BY StopEffect, IdleType DEF FinishImport, At, RunPC

\* At most one ready track is held, so the bound on the others bounds all.
LEMMA OnceSuffices ==
  ASSUME TypeOK, NoSpare, Alone, Once
  PROVE  mishaps \subseteq {"unlisted"} => Cardinality(Ready) <= 1 + restarts
<1>1. restarts \in Nat
  BY BoundsAssumption DEF TypeOK
<1>2. CASE import.state = "done"
  BY <1>2 DEF Once
<1>3. CASE import.state # "done" /\ mishaps \subseteq {"unlisted"}
  <2>1. Cardinality(Ready \ Held) <= restarts
    BY <1>3 DEF Once
  <2>2. PICK x : Held \subseteq {x, NoTrack}
    <3>1. \A q \in Runs : q \in Working \/ run[q].track = NoTrack
      BY DEF NoSpare, Working
    <3>2. \A q, r \in Runs :
            run[q].track = NoTrack \/ run[r].track = NoTrack \/ q = r
      BY <1>3, <3>1 DEF Alone
    <3>3. CASE \E q \in Runs : run[q].track # NoTrack
      <4>1. PICK q \in Runs : run[q].track # NoTrack
        BY <3>3
      <4>2. Held \subseteq {run[q].track, NoTrack}
        BY <3>2, <4>1 DEF Held
      <4> QED
        BY <4>2
    <3>4. CASE \A q \in Runs : run[q].track = NoTrack
      BY <3>4 DEF Held
    <3> QED
      BY <3>3, <3>4
  <2>3. Ready \subseteq (Ready \ Held) \cup {x}
    BY <2>2, NoTrackOutside DEF Ready
  <2> DEFINE rest == Ready \ Held
  <2>4. IsFiniteSet(rest) /\ Cardinality(rest) \in Nat
    BY ReadyFinite
  <2> HIDE DEF rest
  <2>5. /\ IsFiniteSet(rest \cup {x})
        /\ Cardinality(rest \cup {x}) <= Cardinality(rest) + 1
    BY <2>4, FS_AddElement
  <2>6. Cardinality(Ready) <= Cardinality(rest \cup {x})
    BY <2>3, <2>5, FS_Subset DEF rest
  <2>7. Cardinality(Ready) \in Nat /\ Cardinality(rest \cup {x}) \in Nat
    BY <2>5, ReadyFinite, FS_CardinalityType
  <2>8. Cardinality(Ready) <= 1 + restarts
    BY <1>1, <2>1, <2>4, <2>5, <2>6, <2>7 DEF rest
  <2> QED
    BY <2>8
<1> QED
  BY <1>2, <1>3

\* A step keeps Once when no track is newly counted: those still held are
\* not, and after the import is done none becomes ready.
LEMMA OnceFrame ==
  ASSUME TypeOK, Once,
         (Ready \ Held)' \subseteq Ready \ Held,
         import.state = "done" /\ mishaps \subseteq {"unlisted"} => Ready' \subseteq Ready,
         mishaps' \subseteq {"unlisted"} => mishaps \subseteq {"unlisted"},
         mishaps' \subseteq {"unlisted"} => (import'.state = "done" <=> import.state = "done"),
         restarts' = restarts
  PROVE  Once'
<1>1. restarts \in Nat
  BY BoundsAssumption DEF TypeOK
<1>2. CASE mishaps' \subseteq {"unlisted"} /\ import'.state = "done"
  <2>1. Ready' \subseteq Ready /\ Cardinality(Ready) <= 1 + restarts
    BY <1>2 DEF Once
  <2>2. Cardinality(Ready') \in Nat /\ Cardinality(Ready') <= Cardinality(Ready)
    BY <2>1, ReadyFinite
  <2>3. Cardinality(Ready') <= 1 + restarts'
    BY <1>1, <2>1, <2>2, ReadyFinite
  <2> QED
    BY <1>2, <2>3 DEF Once
<1>3. CASE mishaps' \subseteq {"unlisted"} /\ import'.state # "done"
  <2>1. Cardinality(Ready \ Held) <= restarts
    BY <1>3 DEF Once
  <2>2. IsFiniteSet(Ready \ Held) /\ Cardinality(Ready \ Held) \in Nat
    BY ReadyFinite
  <2>3. /\ Cardinality((Ready \ Held)') <= Cardinality(Ready \ Held)
        /\ IsFiniteSet((Ready \ Held)')
    BY <2>2, FS_Subset
  <2>4. Cardinality((Ready \ Held)') \in Nat
    BY <2>3, FS_CardinalityType
  <2>5. Cardinality((Ready \ Held)') <= restarts'
    BY <1>1, <2>1, <2>2, <2>3, <2>4
  <2> QED
    BY <1>3, <2>5 DEF Once
<1> QED
  BY <1>2, <1>3 DEF Once

LEMMA NoSpareStep == TypeOK /\ NoSpare /\ Delivered /\ [Next]_vars => NoSpare'
<1> SUFFICES ASSUME TypeOK, NoSpare, Delivered, [Next]_vars PROVE NoSpare'
  OBVIOUS
<1>1. ASSUME FirstDelivery PROVE NoSpare'
  BY <1>1 DEF FirstDelivery, NoSpare
<1>2. ASSUME RefuseFile PROVE NoSpare'
  BY <1>2 DEF RefuseFile, NoSpare
<1>3. ASSUME AddImport PROVE NoSpare'
  BY <1>3 DEF AddImport, NoSpare
<1>4. ASSUME HandOver PROVE NoSpare'
  BY <1>4 DEF HandOver, NoSpare, Delivered, TypeOK, Run, Runs
<1>5. ASSUME Stop PROVE NoSpare'
  BY <1>5 DEF Stop, NoSpare
<1>6. ASSUME Restart PROVE NoSpare'
  BY <1>6, IdleType DEF Restart, NoSpare
<1>7. ASSUME Resume PROVE NoSpare'
  BY <1>7 DEF Resume, NoSpare, Delivered, TypeOK, Run, Runs
<1>8. ASSUME StaleBefore PROVE NoSpare'
  BY <1>8, GotoEffect DEF StaleBefore, At, NoSpare, Runs, RunPC
<1>9. ASSUME NEW r \in Runs, StartImport(r) PROVE NoSpare'
  BY <1>9, StartImportMoves, IdleType DEF NoSpare, TypeOK, Storing
<1>10. ASSUME NEW r \in Runs, GiveUp(r) PROVE NoSpare'
  BY <1>10, GiveUpMoves, IdleType DEF NoSpare, TypeOK, Storing
<1>11. ASSUME NEW r \in Runs, Open(r) PROVE NoSpare'
  BY <1>11, OpenMoves, IdleType DEF NoSpare, TypeOK, Storing
<1>12. ASSUME NEW r \in Runs, NEW t \in Tracks, Reserve(r, t) PROVE NoSpare'
  BY <1>12, ReserveMoves, IdleType DEF NoSpare, TypeOK, Storing
<1>13. ASSUME NEW r \in Runs, ReserveRefused(r) PROVE NoSpare'
  BY <1>13, ReserveRefusedMoves, IdleType DEF NoSpare, TypeOK, Storing
<1>14. ASSUME NEW r \in Runs, Header(r) PROVE NoSpare'
  BY <1>14, HeaderMoves, IdleType DEF NoSpare, TypeOK, Storing
<1>15. ASSUME NEW r \in Runs, Put(r) PROVE NoSpare'
  BY <1>15, PutMoves, IdleType DEF NoSpare, TypeOK, Storing
<1>16. ASSUME NEW r \in Runs, MarkReady(r) PROVE NoSpare'
  BY <1>16, MarkReadyMoves, IdleType DEF NoSpare, TypeOK, Storing
<1>17. ASSUME NEW r \in Runs, RemoveObject(r) PROVE NoSpare'
  BY <1>17, RemoveObjectMoves, IdleType DEF NoSpare, TypeOK, Storing
<1>18. ASSUME NEW r \in Runs, DeleteRow(r) PROVE NoSpare'
  BY <1>18, DeleteRowMoves, IdleType DEF NoSpare, TypeOK, Storing
<1>19. ASSUME NEW r \in Runs, RequeueImport(r) PROVE NoSpare'
  BY <1>19, RequeueImportMoves, IdleType DEF NoSpare, TypeOK, Storing
<1>20. ASSUME NEW r \in Runs, Wait(r) PROVE NoSpare'
  BY <1>20, WaitMoves, IdleType DEF NoSpare, TypeOK, Storing
<1>21. ASSUME NEW r \in Runs, FinishImport(r) PROVE NoSpare'
  BY <1>21, FinishImportMoves, IdleType DEF NoSpare, TypeOK, Storing
<1>22. ASSUME NEW t \in Tracks, OwnerDelete(t) PROVE NoSpare'
  BY <1>22 DEF OwnerDelete, NoSpare
<1>23. ASSUME NEW t \in Tracks, CleanupStale(t) PROVE NoSpare'
  BY <1>23 DEF CleanupStale, NoSpare
<1>24. ASSUME UNCHANGED vars PROVE NoSpare'
  BY <1>24 DEF vars, NoSpare
<1> QED
  BY <1>1, <1>2, <1>3, <1>4, <1>5, <1>6, <1>7, <1>8, <1>9, <1>10, <1>11,
    <1>12, <1>13, <1>14, <1>15, <1>16, <1>17, <1>18, <1>19, <1>20, <1>21,
    <1>22, <1>23, <1>24 DEF Next, RunStep

LEMMA DeliveredStep == TypeOK /\ Delivered /\ [Next]_vars => Delivered'
<1> SUFFICES ASSUME TypeOK, Delivered, [Next]_vars PROVE Delivered'
  OBVIOUS
<1>1. ASSUME FirstDelivery PROVE Delivered'
  BY <1>1 DEF FirstDelivery, Delivered
<1>2. ASSUME RefuseFile PROVE Delivered'
  BY <1>2 DEF RefuseFile, Delivered
<1>3. ASSUME AddImport PROVE Delivered'
  BY <1>3 DEF AddImport, Delivered
<1>4. ASSUME HandOver PROVE Delivered'
  BY <1>4 DEF HandOver, Delivered, TypeOK, Run, Runs, progress
<1>5. ASSUME Stop PROVE Delivered'
  BY <1>5 DEF Stop, Delivered
<1>6. ASSUME Restart PROVE Delivered'
  BY <1>6, IdleType DEF Restart, Delivered, Runs
<1>7. ASSUME Resume PROVE Delivered'
  BY <1>7 DEF Resume, Delivered, TypeOK, Run, Runs, progress
<1>8. ASSUME StaleBefore PROVE Delivered'
  BY <1>8, GotoEffect DEF StaleBefore, At, Delivered, Runs, RunPC, progress
<1>9. ASSUME NEW r \in Runs, StartImport(r) PROVE Delivered'
  BY <1>9, StartImportMoves, IdleType DEF StartImport, Delivered, Runs,
    progress
<1>10. ASSUME NEW r \in Runs, GiveUp(r) PROVE Delivered'
  BY <1>10, GiveUpMoves, IdleType DEF GiveUp, Delivered, Runs, progress
<1>11. ASSUME NEW r \in Runs, Open(r) PROVE Delivered'
  BY <1>11, OpenMoves, IdleType DEF Open, Delivered, Runs, progress
<1>12. ASSUME NEW r \in Runs, NEW t \in Tracks, Reserve(r, t) PROVE Delivered'
  <2>1. run[r].pc = "reserve" /\ run'[r].pc \in {"header", "outcome"}
    BY <1>12, ReserveMoves
  <2>2. \A q \in Runs \ {r} : run'[q] = run[q]
    BY <1>12, ReserveMoves
  <2>3. UNCHANGED <<progress, import, mishaps>>
    BY <1>12 DEF Reserve
  <2> QED
    BY <2>1, <2>2, <2>3 DEF Delivered, Runs, progress
<1>13. ASSUME NEW r \in Runs, ReserveRefused(r) PROVE Delivered'
  BY <1>13, ReserveRefusedMoves, IdleType DEF ReserveRefused, Delivered, Runs,
    progress
<1>14. ASSUME NEW r \in Runs, Header(r) PROVE Delivered'
  BY <1>14, HeaderMoves, IdleType DEF Header, Delivered, Runs, progress
<1>15. ASSUME NEW r \in Runs, Put(r) PROVE Delivered'
  BY <1>15, PutMoves, IdleType DEF Put, Delivered, Runs, progress
<1>16. ASSUME NEW r \in Runs, MarkReady(r) PROVE Delivered'
  BY <1>16, MarkReadyMoves, IdleType DEF MarkReady, Delivered, Runs, progress
<1>17. ASSUME NEW r \in Runs, RemoveObject(r) PROVE Delivered'
  BY <1>17, RemoveObjectMoves, IdleType DEF RemoveObject, Delivered, Runs,
    progress
<1>18. ASSUME NEW r \in Runs, DeleteRow(r) PROVE Delivered'
  BY <1>18, DeleteRowMoves, IdleType DEF DeleteRow, Delivered, Runs, progress
<1>19. ASSUME NEW r \in Runs, RequeueImport(r) PROVE Delivered'
  BY <1>19, RequeueImportMoves, IdleType DEF RequeueImport, Delivered, Runs,
    progress
<1>20. ASSUME NEW r \in Runs, Wait(r) PROVE Delivered'
  BY <1>20, WaitMoves, IdleType DEF Wait, Delivered, Runs, progress
<1>21. ASSUME NEW r \in Runs, FinishImport(r) PROVE Delivered'
  BY <1>21, FinishImportMoves, IdleType DEF FinishImport, Delivered, Runs,
    progress
<1>22. ASSUME NEW t \in Tracks, OwnerDelete(t) PROVE Delivered'
  BY <1>22 DEF OwnerDelete, Delivered, progress
<1>23. ASSUME NEW t \in Tracks, CleanupStale(t) PROVE Delivered'
  BY <1>23 DEF CleanupStale, Delivered, progress
<1>24. ASSUME UNCHANGED vars PROVE Delivered'
  BY <1>24 DEF vars, Delivered, progress
<1> QED
  BY <1>1, <1>2, <1>3, <1>4, <1>5, <1>6, <1>7, <1>8, <1>9, <1>10, <1>11,
    <1>12, <1>13, <1>14, <1>15, <1>16, <1>17, <1>18, <1>19, <1>20, <1>21,
    <1>22, <1>23, <1>24 DEF Next, RunStep

LEMMA AloneStep == TypeOK /\ Delivered /\ Alone /\ [Next]_vars => Alone'
<1> SUFFICES ASSUME TypeOK, Delivered, Alone, [Next]_vars PROVE Alone'
  OBVIOUS
<1>1. ASSUME FirstDelivery PROVE Alone'
  BY <1>1 DEF FirstDelivery, Alone, Working
<1>2. ASSUME RefuseFile PROVE Alone'
  BY <1>2 DEF RefuseFile, Alone, Working
<1>3. ASSUME AddImport PROVE Alone'
  BY <1>3 DEF AddImport, Alone, Working, TypeOK, Import
<1>4. ASSUME HandOver PROVE Alone'
  BY <1>4 DEF HandOver, Alone, Working, Delivered, TypeOK, Run, Runs
<1>5. ASSUME Stop PROVE Alone'
  BY <1>5 DEF Stop, Alone, Working
<1>6. ASSUME Restart PROVE Alone'
  BY <1>6, IdleType DEF Restart, Alone, Working
<1>7. ASSUME Resume PROVE Alone'
  BY <1>7 DEF Resume, Alone, Working, Delivered, TypeOK, Run, Runs
<1>8. ASSUME StaleBefore PROVE Alone'
  BY <1>8, GotoEffect DEF StaleBefore, At, Alone, Working, Runs, RunPC
<1>9. ASSUME NEW r \in Runs, StartImport(r) PROVE Alone'
  <2>1. mishaps' \subseteq {"unlisted"} => Working = {} /\ mishaps \subseteq {"unlisted"}
    BY <1>9 DEF StartImport
  <2>2. import'.state = "downloading"
    BY <1>9 DEF StartImport, Claimed, TypeOK, Import
  <2> QED
    BY <1>9, <2>1, <2>2, StartImportMoves DEF Alone, Working
<1>10. ASSUME NEW r \in Runs, GiveUp(r) PROVE Alone'
  <2>1. mishaps' \subseteq {"unlisted"} =>
          mishaps \subseteq {"unlisted"} /\ import' = import
    <3>1. ASSUME Mishap PROVE ~(mishaps' \subseteq {"unlisted"})
      BY <3>1 DEF Mishap
    <3>2. Mishap \/ UNCHANGED <<import, mishaps>>
      BY <1>10 DEF GiveUp, WriteFails
    <3> QED
      BY <3>1, <3>2
  <2>2. r \notin Working /\ Working' = Working
    BY <1>10, GiveUpMoves, IdleType DEF Working
  <2> QED
    BY <2>1, <2>2 DEF Alone
<1>11. ASSUME NEW r \in Runs, Open(r) PROVE Alone'
  BY <1>11, OpenMoves, IdleType DEF Alone, Working, Open
<1>12. ASSUME NEW r \in Runs, NEW t \in Tracks, Reserve(r, t) PROVE Alone'
  <2>1. run[r].pc = "reserve" /\ run'[r].pc \in {"header", "outcome"}
    BY <1>12, ReserveMoves
  <2>2. \A q \in Runs \ {r} : run'[q] = run[q]
    BY <1>12, ReserveMoves
  <2>3. UNCHANGED <<progress, import, mishaps>>
    BY <1>12 DEF Reserve
  <2> QED
    BY <2>1, <2>2, <2>3 DEF Alone, Working
<1>13. ASSUME NEW r \in Runs, ReserveRefused(r) PROVE Alone'
  BY <1>13, ReserveRefusedMoves, IdleType DEF Alone, Working, ReserveRefused
<1>14. ASSUME NEW r \in Runs, Header(r) PROVE Alone'
  BY <1>14, HeaderMoves, IdleType DEF Alone, Working, Header
<1>15. ASSUME NEW r \in Runs, Put(r) PROVE Alone'
  BY <1>15, PutMoves, IdleType DEF Alone, Working, Put
<1>16. ASSUME NEW r \in Runs, MarkReady(r) PROVE Alone'
  BY <1>16, MarkReadyMoves, IdleType DEF Alone, Working, MarkReady
<1>17. ASSUME NEW r \in Runs, RemoveObject(r) PROVE Alone'
  BY <1>17, RemoveObjectMoves, IdleType DEF Alone, Working, RemoveObject
<1>18. ASSUME NEW r \in Runs, DeleteRow(r) PROVE Alone'
  <2>1. run[r].pc = "deleteRow" /\ run'[r].pc \in {"outcome"}
    BY <1>18, DeleteRowMoves, IdleType
  <2>2. \A q \in Runs \ {r} : run'[q] = run[q]
    BY <1>18, DeleteRowMoves
  <2>3. (mishaps' \subseteq {"unlisted"} => mishaps \subseteq {"unlisted"}) /\ import' = import
    BY <1>18 DEF DeleteRow, Mishap
  <2>4. r \in Working /\ Working' \subseteq Working
    BY <2>1, <2>2 DEF Working
  <2> QED
    BY <2>3, <2>4 DEF Alone
<1>19. ASSUME NEW r \in Runs, RequeueImport(r) PROVE Alone'
  <2>1. run[r].pc = "outcome" /\ run'[r].pc \in {"wait", "idle"}
    BY <1>19, RequeueImportMoves, IdleType
  <2>2. \A q \in Runs \ {r} : run'[q] = run[q]
    BY <1>19, RequeueImportMoves
  <2>3. mishaps' \subseteq {"unlisted"} => mishaps \subseteq {"unlisted"}
    BY <1>19 DEF RequeueImport, Writes, WriteFails, Mishap
  <2>4. r \in Working /\ Working' = Working \ {r}
    BY <2>1, <2>2 DEF Working
  <2>5. mishaps' \subseteq {"unlisted"} => Working' = {}
    BY <2>3, <2>4 DEF Alone
  <2> QED
    BY <2>5 DEF Alone
<1>20. ASSUME NEW r \in Runs, Wait(r) PROVE Alone'
  BY <1>20, WaitMoves, IdleType DEF Alone, Working, Wait
<1>21. ASSUME NEW r \in Runs, FinishImport(r) PROVE Alone'
  <2>1. run[r].pc = "outcome" /\ run'[r].pc \in {"idle"}
    BY <1>21, FinishImportMoves, IdleType
  <2>2. \A q \in Runs \ {r} : run'[q] = run[q]
    BY <1>21, FinishImportMoves
  <2>3. mishaps' \subseteq {"unlisted"} => mishaps \subseteq {"unlisted"}
    BY <1>21 DEF FinishImport, Writes, WriteFails, Mishap
  <2>4. r \in Working /\ Working' = Working \ {r}
    BY <2>1, <2>2 DEF Working
  <2>5. mishaps' \subseteq {"unlisted"} => Working' = {}
    BY <2>3, <2>4 DEF Alone
  <2> QED
    BY <2>5 DEF Alone
<1>22. ASSUME NEW t \in Tracks, OwnerDelete(t) PROVE Alone'
  BY <1>22 DEF OwnerDelete, Alone, Working, TypeOK, Import
<1>23. ASSUME NEW t \in Tracks, CleanupStale(t) PROVE Alone'
  BY <1>23 DEF CleanupStale, Alone, Working
<1>24. ASSUME UNCHANGED vars PROVE Alone'
  BY <1>24 DEF vars, Alone, Working
<1> QED
  BY <1>1, <1>2, <1>3, <1>4, <1>5, <1>6, <1>7, <1>8, <1>9, <1>10, <1>11,
    <1>12, <1>13, <1>14, <1>15, <1>16, <1>17, <1>18, <1>19, <1>20, <1>21,
    <1>22, <1>23, <1>24 DEF Next, RunStep

LEMMA OnceStep == TypeOK /\ NoSpare /\ Alone /\ Once /\ [Next]_vars => Once'
<1> SUFFICES ASSUME TypeOK, NoSpare, Alone, Once, [Next]_vars PROVE Once'
  OBVIOUS
<1>1. ASSUME FirstDelivery PROVE Once'
  <2>1. (Ready \ Held)' \subseteq Ready \ Held /\ Ready' \subseteq Ready
    BY <1>1 DEF FirstDelivery, Ready, Held
  <2>2. (mishaps' \subseteq {"unlisted"} => mishaps \subseteq {"unlisted"}) /\ restarts' = restarts
    BY <1>1 DEF FirstDelivery, progress
  <2>3. mishaps' \subseteq {"unlisted"} => (import'.state = "done" <=> import.state = "done")
    BY <1>1 DEF FirstDelivery
  <2> QED
    BY <2>1, <2>2, <2>3, OnceFrame
<1>2. ASSUME RefuseFile PROVE Once'
  <2>1. (Ready \ Held)' \subseteq Ready \ Held /\ Ready' \subseteq Ready
    BY <1>2 DEF RefuseFile, Ready, Held
  <2>2. (mishaps' \subseteq {"unlisted"} => mishaps \subseteq {"unlisted"}) /\ restarts' = restarts
    BY <1>2 DEF RefuseFile, progress
  <2>3. mishaps' \subseteq {"unlisted"} => (import'.state = "done" <=> import.state = "done")
    BY <1>2 DEF RefuseFile
  <2> QED
    BY <2>1, <2>2, <2>3, OnceFrame
<1>3. ASSUME AddImport PROVE Once'
  <2>1. (Ready \ Held)' \subseteq Ready \ Held /\ Ready' \subseteq Ready
    BY <1>3 DEF AddImport, Ready, Held
  <2>2. (mishaps' \subseteq {"unlisted"} => mishaps \subseteq {"unlisted"}) /\ restarts' = restarts
    BY <1>3 DEF AddImport, progress
  <2>3. mishaps' \subseteq {"unlisted"} => (import'.state = "done" <=> import.state = "done")
    BY <1>3 DEF AddImport, TypeOK, Import
  <2> QED
    BY <2>1, <2>2, <2>3, OnceFrame
<1>4. ASSUME HandOver PROVE Once'
  <2>1. (Ready \ Held)' \subseteq Ready \ Held /\ Ready' \subseteq Ready
    BY <1>4 DEF HandOver, Ready, Held, TypeOK, Run, Runs
  <2>2. (mishaps' \subseteq {"unlisted"} => mishaps \subseteq {"unlisted"}) /\ restarts' = restarts
    BY <1>4 DEF HandOver, progress
  <2>3. mishaps' \subseteq {"unlisted"} => (import'.state = "done" <=> import.state = "done")
    BY <1>4 DEF HandOver
  <2> QED
    BY <2>1, <2>2, <2>3, OnceFrame
<1>5. ASSUME Stop PROVE Once'
  <2>1. (Ready \ Held)' \subseteq Ready \ Held /\ Ready' \subseteq Ready
    BY <1>5 DEF Stop, Ready, Held
  <2>2. (mishaps' \subseteq {"unlisted"} => mishaps \subseteq {"unlisted"}) /\ restarts' = restarts
    BY <1>5 DEF Stop, progress
  <2>3. mishaps' \subseteq {"unlisted"} => (import'.state = "done" <=> import.state = "done")
    BY <1>5 DEF Stop
  <2> QED
    BY <2>1, <2>2, <2>3, OnceFrame
<1>6. ASSUME Restart PROVE Once'
  <2>1. /\ Ready' = Ready
        /\ restarts' = restarts + 1
        /\ mishaps' \subseteq {"unlisted"} => mishaps \subseteq {"unlisted"}
    BY <1>6 DEF Restart, Ready
  <2>2. IsFiniteSet(Ready) /\ Cardinality(Ready) \in Nat /\ restarts \in Nat
    BY ReadyFinite DEF TypeOK
  <2>3. mishaps \subseteq {"unlisted"} => Cardinality(Ready) <= 1 + restarts
    BY OnceSuffices
  <2>4. (Ready \ Held)' \subseteq Ready
    BY <2>1
  <2>5. /\ Cardinality((Ready \ Held)') <= Cardinality(Ready)
        /\ Cardinality((Ready \ Held)') \in Nat
    BY <2>2, <2>4, FS_Subset, FS_CardinalityType
  <2>6. mishaps' \subseteq {"unlisted"} =>
          /\ Cardinality(Ready') <= 1 + restarts'
          /\ Cardinality((Ready \ Held)') <= restarts'
    BY <2>1, <2>2, <2>3, <2>5
  <2> QED
    BY <2>6 DEF Once
<1>7. ASSUME Resume PROVE Once'
  <2>1. (Ready \ Held)' \subseteq Ready \ Held /\ Ready' \subseteq Ready
    BY <1>7 DEF Resume, Ready, Held, TypeOK, Run, Runs
  <2>2. (mishaps' \subseteq {"unlisted"} => mishaps \subseteq {"unlisted"}) /\ restarts' = restarts
    BY <1>7 DEF Resume, progress
  <2>3. mishaps' \subseteq {"unlisted"} => (import'.state = "done" <=> import.state = "done")
    BY <1>7 DEF Resume
  <2> QED
    BY <2>1, <2>2, <2>3, OnceFrame
<1>8. ASSUME StaleBefore PROVE Once'
  <2>1. (Ready \ Held)' \subseteq Ready \ Held /\ Ready' \subseteq Ready
    BY <1>8, GotoEffect DEF StaleBefore, Ready, Held, Runs, RunPC
  <2>2. (mishaps' \subseteq {"unlisted"} => mishaps \subseteq {"unlisted"}) /\ restarts' = restarts
    BY <1>8 DEF StaleBefore, progress
  <2>3. mishaps' \subseteq {"unlisted"} => (import'.state = "done" <=> import.state = "done")
    BY <1>8 DEF StaleBefore
  <2> QED
    BY <2>1, <2>2, <2>3, OnceFrame
<1>9. ASSUME NEW r \in Runs, StartImport(r) PROVE Once'
  <2>1. (Ready \ Held)' \subseteq Ready \ Held /\ Ready' \subseteq Ready
    <3>1. \A q \in Runs : q # r => run'[q].track = run[q].track
      BY <1>9, StartImportMoves
    <3>2. run[r].track = NoTrack
      BY <1>9, StartImportMoves DEF NoSpare
    <3>3. Ready' = Ready
      BY <1>9 DEF StartImport, Ready
    <3>4. \A u \in Ready : u \in Held => u \in Held'
      BY <3>1, <3>2, NoTrackOutside DEF Ready, Held
    <3> QED
      BY <3>3, <3>4
  <2>2. (mishaps' \subseteq {"unlisted"} => mishaps \subseteq {"unlisted"}) /\ restarts' = restarts
    BY <1>9 DEF StartImport, progress
  <2>3. mishaps' \subseteq {"unlisted"} => (import'.state = "done" <=> import.state = "done")
    BY <1>9 DEF StartImport, Claimable, Claimed, TypeOK, Import
  <2> QED
    BY <2>1, <2>2, <2>3, OnceFrame
<1>10. ASSUME NEW r \in Runs, GiveUp(r) PROVE Once'
  <2>1. (Ready \ Held)' \subseteq Ready \ Held /\ Ready' \subseteq Ready
    <3>1. \A q \in Runs : q # r => run'[q].track = run[q].track
      BY <1>10, GiveUpMoves
    <3>2. run[r].track = NoTrack
      BY <1>10, GiveUpMoves DEF NoSpare
    <3>3. Ready' = Ready
      BY <1>10 DEF GiveUp, Ready
    <3>4. \A u \in Ready : u \in Held => u \in Held'
      BY <3>1, <3>2, NoTrackOutside DEF Ready, Held
    <3> QED
      BY <3>3, <3>4
  <2>2. (mishaps' \subseteq {"unlisted"} => mishaps \subseteq {"unlisted"}) /\ restarts' = restarts
    BY <1>10 DEF GiveUp, WriteFails, Mishap, progress
  <2>3. mishaps' \subseteq {"unlisted"} => (import'.state = "done" <=> import.state = "done")
    BY <1>10 DEF GiveUp, WriteFails, Mishap, TypeOK, Import
  <2> QED
    BY <2>1, <2>2, <2>3, OnceFrame
<1>11. ASSUME NEW r \in Runs, Open(r) PROVE Once'
  <2>1. (Ready \ Held)' \subseteq Ready \ Held /\ Ready' \subseteq Ready
    BY <1>11, OpenMoves, IdleType, NoTrackOutside DEF Open, Ready, Held,
      NoSpare, Retried
  <2>2. (mishaps' \subseteq {"unlisted"} => mishaps \subseteq {"unlisted"}) /\ restarts' = restarts
    BY <1>11 DEF Open, progress
  <2>3. mishaps' \subseteq {"unlisted"} => (import'.state = "done" <=> import.state = "done")
    BY <1>11 DEF Open
  <2> QED
    BY <2>1, <2>2, <2>3, OnceFrame
<1>12. ASSUME NEW r \in Runs, NEW t \in Tracks, Reserve(r, t) PROVE Once'
  <2>1. (Ready \ Held)' \subseteq Ready \ Held /\ Ready' \subseteq Ready
    <3>2. run[r].track = NoTrack
      BY <1>12, ReserveMoves DEF NoSpare
    <3>3. \A q \in Runs : q # r => run'[q].track = run[q].track
      BY <1>12, ReserveMoves
    <3>4. status' = [status EXCEPT ![t] = "pending"]
      BY <1>12 DEF Reserve
    <3>5. Ready' \subseteq Ready
      BY <3>4 DEF Ready, TypeOK
    <3>6. \A u \in Ready : u \in Held => u \in Held'
      BY <3>2, <3>3, NoTrackOutside DEF Ready, Held
    <3> QED
      BY <3>5, <3>6
  <2>2. (mishaps' \subseteq {"unlisted"} => mishaps \subseteq {"unlisted"}) /\ restarts' = restarts
    BY <1>12 DEF Reserve, progress
  <2>3. mishaps' \subseteq {"unlisted"} => (import'.state = "done" <=> import.state = "done")
    BY <1>12 DEF Reserve
  <2> QED
    BY <2>1, <2>2, <2>3, OnceFrame
<1>13. ASSUME NEW r \in Runs, ReserveRefused(r) PROVE Once'
  <2>1. (Ready \ Held)' \subseteq Ready \ Held /\ Ready' \subseteq Ready
    BY <1>13, ReserveRefusedMoves, IdleType, NoTrackOutside DEF
      ReserveRefused, Ready, Held, NoSpare, Retried
  <2>2. (mishaps' \subseteq {"unlisted"} => mishaps \subseteq {"unlisted"}) /\ restarts' = restarts
    BY <1>13 DEF ReserveRefused, progress
  <2>3. mishaps' \subseteq {"unlisted"} => (import'.state = "done" <=> import.state = "done")
    BY <1>13 DEF ReserveRefused
  <2> QED
    BY <2>1, <2>2, <2>3, OnceFrame
<1>14. ASSUME NEW r \in Runs, Header(r) PROVE Once'
  <2>1. (Ready \ Held)' \subseteq Ready \ Held /\ Ready' \subseteq Ready
    BY <1>14, HeaderMoves, IdleType, NoTrackOutside DEF Header, Ready, Held,
      NoSpare, Retried
  <2>2. (mishaps' \subseteq {"unlisted"} => mishaps \subseteq {"unlisted"}) /\ restarts' = restarts
    BY <1>14 DEF Header, progress
  <2>3. mishaps' \subseteq {"unlisted"} => (import'.state = "done" <=> import.state = "done")
    BY <1>14 DEF Header
  <2> QED
    BY <2>1, <2>2, <2>3, OnceFrame
<1>15. ASSUME NEW r \in Runs, Put(r) PROVE Once'
  <2>1. (Ready \ Held)' \subseteq Ready \ Held /\ Ready' \subseteq Ready
    BY <1>15, PutMoves, IdleType, NoTrackOutside DEF Put, Ready, Held,
      NoSpare, Retried
  <2>2. (mishaps' \subseteq {"unlisted"} => mishaps \subseteq {"unlisted"}) /\ restarts' = restarts
    BY <1>15 DEF Put, progress
  <2>3. mishaps' \subseteq {"unlisted"} => (import'.state = "done" <=> import.state = "done")
    BY <1>15 DEF Put
  <2> QED
    BY <2>1, <2>2, <2>3, OnceFrame
<1>16. ASSUME NEW r \in Runs, MarkReady(r) PROVE Once'
  <2>1. (Ready \ Held)' \subseteq Ready \ Held
    BY <1>16, MarkReadyMoves DEF MarkReady, Ready, Held, TypeOK
  <2>2. UNCHANGED <<mishaps, import, restarts>>
    BY <1>16 DEF MarkReady, progress
  <2>3. mishaps \subseteq {"unlisted"} => import.state # "done"
    BY <1>16 DEF MarkReady, At, Working, Alone
  <2> QED
    BY <2>1, <2>2, <2>3, OnceFrame
<1>17. ASSUME NEW r \in Runs, RemoveObject(r) PROVE Once'
  <2>1. (Ready \ Held)' \subseteq Ready \ Held /\ Ready' \subseteq Ready
    BY <1>17, RemoveObjectMoves, IdleType, NoTrackOutside DEF RemoveObject,
      Ready, Held, NoSpare, Retried
  <2>2. (mishaps' \subseteq {"unlisted"} => mishaps \subseteq {"unlisted"}) /\ restarts' = restarts
    BY <1>17 DEF RemoveObject, progress
  <2>3. mishaps' \subseteq {"unlisted"} => (import'.state = "done" <=> import.state = "done")
    BY <1>17 DEF RemoveObject
  <2> QED
    BY <2>1, <2>2, <2>3, OnceFrame
<1>18. ASSUME NEW r \in Runs, DeleteRow(r) PROVE Once'
  <2>1. mishaps' \subseteq {"unlisted"} =>
          /\ mishaps \subseteq {"unlisted"}
          /\ status' = [status EXCEPT ![run[r].track] = "gone"]
    BY <1>18 DEF DeleteRow, Mishap
  <2>2. UNCHANGED <<import, restarts>>
    BY <1>18 DEF DeleteRow, progress
  <2>3. CASE mishaps' \subseteq {"unlisted"}
    <3>1. (Ready \ Held)' \subseteq Ready \ Held /\ Ready' \subseteq Ready
      BY <1>18, <2>1, <2>3, DeleteRowMoves DEF Ready, Held, TypeOK
    <3> QED
      BY <2>1, <2>2, <3>1, OnceFrame
  <2> QED
    BY <2>3 DEF Once
<1>19. ASSUME NEW r \in Runs, RequeueImport(r) PROVE Once'
  <2>1. (Ready \ Held)' \subseteq Ready \ Held /\ Ready' \subseteq Ready
    <3>1. \A q \in Runs : q # r => run'[q].track = run[q].track
      BY <1>19, RequeueImportMoves
    <3>2. run[r].track = NoTrack
      BY <1>19, RequeueImportMoves DEF NoSpare
    <3>3. Ready' = Ready
      BY <1>19 DEF RequeueImport, Ready
    <3>4. \A u \in Ready : u \in Held => u \in Held'
      BY <3>1, <3>2, NoTrackOutside DEF Ready, Held
    <3> QED
      BY <3>3, <3>4
  <2>2. (mishaps' \subseteq {"unlisted"} => mishaps \subseteq {"unlisted"}) /\ restarts' = restarts
    BY <1>19 DEF RequeueImport, Writes, WriteFails, Mishap, progress
  <2>3. mishaps' \subseteq {"unlisted"} => (import'.state = "done" <=> import.state = "done")
    BY <1>19 DEF RequeueImport, Writes, WriteFails, Mishap, At, Working,
      Alone, TypeOK, Import
  <2> QED
    BY <2>1, <2>2, <2>3, OnceFrame
<1>20. ASSUME NEW r \in Runs, Wait(r) PROVE Once'
  <2>1. (Ready \ Held)' \subseteq Ready \ Held /\ Ready' \subseteq Ready
    BY <1>20, WaitMoves, IdleType, NoTrackOutside DEF Wait, Ready, Held,
      NoSpare, Retried
  <2>2. (mishaps' \subseteq {"unlisted"} => mishaps \subseteq {"unlisted"}) /\ restarts' = restarts
    BY <1>20 DEF Wait, progress
  <2>3. mishaps' \subseteq {"unlisted"} => (import'.state = "done" <=> import.state = "done")
    BY <1>20 DEF Wait
  <2> QED
    BY <2>1, <2>2, <2>3, OnceFrame
<1>21. ASSUME NEW r \in Runs, FinishImport(r) PROVE Once'
  <2>1. Ready' = Ready /\ restarts' = restarts
    BY <1>21 DEF FinishImport, Ready, progress
  <2>2. mishaps' \subseteq {"unlisted"} => mishaps \subseteq {"unlisted"}
    BY <1>21 DEF FinishImport, Writes, WriteFails, Mishap
  <2>3. CASE mishaps' \subseteq {"unlisted"} /\ run[r].outcome = "track" /\ run[r].track # NoTrack
    <3>1. import'.state = "done"
      <4>1. ~Mishap
        BY <2>3 DEF Mishap
      <4> QED
        BY <1>21, <2>3, <4>1 DEF FinishImport, Writes, WriteFails, TypeOK, Import
    <3> QED
      BY <2>1, <2>2, <2>3, <3>1, OnceSuffices DEF Once
  <2>4. CASE ~(run[r].outcome = "track" /\ run[r].track # NoTrack)
    <3>1. run[r].track = NoTrack
      BY <1>21, <2>4 DEF FinishImport, At, NoSpare
    <3>2. (Ready \ Held)' \subseteq Ready \ Held
      BY <2>1, <3>1, <1>21, FinishImportMoves, NoTrackOutside DEF Ready, Held
    <3>3. mishaps' \subseteq {"unlisted"} => import'.state = "failed" /\ import.state = "downloading"
      <4>1. SUFFICES ASSUME mishaps' \subseteq {"unlisted"}
                     PROVE  import'.state = "failed" /\ import.state = "downloading"
        OBVIOUS
      <4>2. r \in Working
        BY <1>21 DEF FinishImport, At, Working
      <4>3. import.state = "downloading"
        BY <2>2, <4>1, <4>2 DEF Alone
      <4>4. import'.state = "failed"
        <5>1. ~Mishap
          BY <4>1 DEF Mishap
        <5> QED
          BY <1>21, <2>4, <5>1 DEF FinishImport, Writes, WriteFails, TypeOK, Import
      <4> QED
        BY <4>3, <4>4
    <3> QED
      BY <2>1, <2>2, <3>2, <3>3, OnceFrame
  <2> QED
    BY <2>2, <2>3, <2>4 DEF Once
<1>22. ASSUME NEW t \in Tracks, OwnerDelete(t) PROVE Once'
  <2>1. (Ready \ Held)' \subseteq Ready \ Held /\ Ready' \subseteq Ready
    BY <1>22 DEF OwnerDelete, Ready, Held, TypeOK
  <2>2. (mishaps' \subseteq {"unlisted"} => mishaps \subseteq {"unlisted"}) /\ restarts' = restarts
    BY <1>22 DEF OwnerDelete, progress
  <2>3. mishaps' \subseteq {"unlisted"} => (import'.state = "done" <=> import.state = "done")
    BY <1>22 DEF OwnerDelete, TypeOK, Import
  <2> QED
    BY <2>1, <2>2, <2>3, OnceFrame
<1>23. ASSUME NEW t \in Tracks, CleanupStale(t) PROVE Once'
  <2>1. (Ready \ Held)' \subseteq Ready \ Held /\ Ready' \subseteq Ready
    BY <1>23 DEF CleanupStale, Ready, Held, TypeOK
  <2>2. (mishaps' \subseteq {"unlisted"} => mishaps \subseteq {"unlisted"}) /\ restarts' = restarts
    BY <1>23 DEF CleanupStale, progress
  <2>3. mishaps' \subseteq {"unlisted"} => (import'.state = "done" <=> import.state = "done")
    BY <1>23 DEF CleanupStale
  <2> QED
    BY <2>1, <2>2, <2>3, OnceFrame
<1>24. ASSUME UNCHANGED vars PROVE Once'
  <2>1. (Ready \ Held)' \subseteq Ready \ Held /\ Ready' \subseteq Ready
    BY <1>24 DEF vars, Ready, Held
  <2>2. (mishaps' \subseteq {"unlisted"} => mishaps \subseteq {"unlisted"}) /\ restarts' = restarts
    BY <1>24 DEF vars, progress
  <2>3. mishaps' \subseteq {"unlisted"} => (import'.state = "done" <=> import.state = "done")
    BY <1>24 DEF vars
  <2> QED
    BY <2>1, <2>2, <2>3, OnceFrame
<1> QED
  BY <1>1, <1>2, <1>3, <1>4, <1>5, <1>6, <1>7, <1>8, <1>9, <1>10, <1>11,
    <1>12, <1>13, <1>14, <1>15, <1>16, <1>17, <1>18, <1>19, <1>20, <1>21,
    <1>22, <1>23, <1>24 DEF Next, RunStep

-----------------------------------------------------------------------------
(* However its runs overlap: a ready track no run holds was counted by the *)
(* run that made it.  The webhook starts one run in all and every life of  *)
(* the process one more, and a run ends with the track it leaves.          *)

Share(r) == IF run[r].pc = "idle" THEN 0 ELSE 1

ToCome ==
  (IF handler # "none" \/ ~seen THEN 1 ELSE 0) + (IF resumed THEN 0 ELSE 1)

Allowed ==
  "discard" \notin mishaps =>
    Cardinality(Ready \ Held) + Share("webhook") + Share("resumed") + ToCome
      <= 2 + restarts

LEMMA AllowedFrame ==
  ASSUME TypeOK, Allowed,
         (Ready \ Held)' \subseteq Ready \ Held,
         "discard" \notin mishaps' => "discard" \notin mishaps,
         Share("webhook")' + Share("resumed")' + ToCome'
           <= Share("webhook") + Share("resumed") + ToCome,
         restarts' = restarts
  PROVE  Allowed'
<1>1. restarts \in Nat
  BY BoundsAssumption DEF TypeOK
<1>2. IsFiniteSet(Ready \ Held) /\ Cardinality(Ready \ Held) \in Nat
  BY ReadyFinite
<1>3. /\ Cardinality((Ready \ Held)') <= Cardinality(Ready \ Held)
      /\ Cardinality((Ready \ Held)') \in Nat
  BY <1>2, FS_Subset, FS_CardinalityType
<1>4. /\ {Share("webhook"), Share("resumed"), ToCome} \subseteq Nat
      /\ {Share("webhook")', Share("resumed")', ToCome'} \subseteq Nat
  BY DEF Share, ToCome
<1> QED
  BY <1>1, <1>2, <1>3, <1>4 DEF Allowed

\* A run holds at most one ready track of its own.
LEMMA HeldCounted ==
  ASSUME TypeOK, NoSpare
  PROVE  Cardinality(Ready) <= Cardinality(Ready \ Held) + Share("webhook") + Share("resumed")
<1> DEFINE kept == Ready \ Held
           S == {run["webhook"].track} \cap Ready
           T == {run["resumed"].track} \cap Ready
<1>4. Ready \subseteq kept \cup S \cup T
  BY DEF Held, Runs
<1>5. /\ IsFiniteSet(S) /\ Cardinality(S) \in Nat /\ Cardinality(S) <= Share("webhook")
      /\ IsFiniteSet(T) /\ Cardinality(T) \in Nat /\ Cardinality(T) <= Share("resumed")
  <2>1. ASSUME NEW r \in Runs
        PROVE  LET H == {run[r].track} \cap Ready IN
               IsFiniteSet(H) /\ Cardinality(H) \in Nat /\ Cardinality(H) <= Share(r)
    <3> DEFINE H == {run[r].track} \cap Ready
    <3>1. CASE run[r].pc = "idle"
      <4>1. H = {}
        BY <3>1, NoTrackOutside DEF NoSpare, Ready
      <4> HIDE DEF H
      <4>2. IsFiniteSet(H) /\ Cardinality(H) = 0
        BY <4>1, FS_EmptySet
      <4> QED
        BY <3>1, <4>2 DEF Share, H
    <3>2. CASE run[r].pc # "idle"
      <4>1. IsFiniteSet({run[r].track}) /\ Cardinality({run[r].track}) = 1
        BY FS_Singleton
      <4>2. H \subseteq {run[r].track}
        OBVIOUS
      <4> HIDE DEF H
      <4>3. IsFiniteSet(H) /\ Cardinality(H) <= 1
        BY <4>1, <4>2, FS_Subset
      <4>4. Cardinality(H) \in Nat
        BY <4>3, FS_CardinalityType
      <4> QED
        BY <3>2, <4>3, <4>4 DEF Share, H
    <3> QED
      BY <3>1, <3>2
  <2> QED
    BY <2>1 DEF Runs
<1>6. IsFiniteSet(kept) /\ Cardinality(kept) \in Nat
  BY ReadyFinite
<1> HIDE DEF kept, S, T
<1>7. /\ IsFiniteSet(kept \cup S)
      /\ Cardinality(kept \cup S) \in Nat
      /\ Cardinality(kept \cup S) <= Cardinality(kept) + Share("webhook")
  <2>1. /\ IsFiniteSet(kept \cup S) /\ IsFiniteSet(kept \cap S)
        /\ Cardinality(kept \cup S) =
             Cardinality(kept) + Cardinality(S) - Cardinality(kept \cap S)
    BY <1>5, <1>6, FS_Union, FS_Intersection
  <2>2. Cardinality(kept \cap S) \in Nat /\ Cardinality(kept \cup S) \in Nat
    BY <2>1, FS_CardinalityType
  <2> QED
    BY <1>5, <1>6, <2>1, <2>2 DEF Share
<1>8. /\ IsFiniteSet(kept \cup S \cup T)
      /\ Cardinality(kept \cup S \cup T) \in Nat
      /\ Cardinality(kept \cup S \cup T) <=
           Cardinality(kept) + Share("webhook") + Share("resumed")
  <2>1. /\ IsFiniteSet(kept \cup S \cup T) /\ IsFiniteSet((kept \cup S) \cap T)
        /\ Cardinality(kept \cup S \cup T) =
             Cardinality(kept \cup S) + Cardinality(T) - Cardinality((kept \cup S) \cap T)
    BY <1>5, <1>7, FS_Union, FS_Intersection
  <2>2. Cardinality((kept \cup S) \cap T) \in Nat /\ Cardinality(kept \cup S \cup T) \in Nat
    BY <2>1, FS_CardinalityType
  <2> QED
    BY <1>5, <1>6, <1>7, <2>1, <2>2 DEF Share
<1>9. Cardinality(Ready) <= Cardinality(kept \cup S \cup T) /\ Cardinality(Ready) \in Nat
  BY <1>4, <1>8, FS_Subset, ReadyFinite
<1>10. {Share("webhook"), Share("resumed")} \subseteq Nat
  BY DEF Share
<1> QED
  BY <1>6, <1>8, <1>9, <1>10 DEF kept

\* A step of a run that was under way takes no new share.
LEMMA SharesKept ==
  ASSUME NEW r \in Runs,
         run[r].pc # "idle",
         \A q \in Runs \ {r} : run'[q] = run[q],
         UNCHANGED progress
  PROVE  Share("webhook")' + Share("resumed")' + ToCome'
           <= Share("webhook") + Share("resumed") + ToCome
<1>1. ToCome' = ToCome /\ ToCome \in Nat
  BY DEF ToCome, progress
<1>2. CASE r = "webhook"
  BY <1>1, <1>2 DEF Share, Runs
<1>3. CASE r = "resumed"
  BY <1>1, <1>3 DEF Share, Runs
<1> QED
  BY <1>2, <1>3 DEF Runs

LEMMA AllowedStep == TypeOK /\ NoSpare /\ Delivered /\ Allowed /\ [Next]_vars => Allowed'
<1> SUFFICES ASSUME TypeOK, NoSpare, Delivered, Allowed, [Next]_vars PROVE Allowed'
  OBVIOUS
<1>1. ASSUME FirstDelivery PROVE Allowed'
  <2>1. (Ready \ Held)' \subseteq Ready \ Held
    BY <1>1 DEF FirstDelivery, Ready, Held
  <2>2. /\ "discard" \notin mishaps' => "discard" \notin mishaps
        /\ restarts' = restarts
    BY <1>1 DEF FirstDelivery, progress
  <2>3. Share("webhook")' + Share("resumed")' + ToCome'
          <= Share("webhook") + Share("resumed") + ToCome
    BY <1>1 DEF FirstDelivery, Share, ToCome, progress
  <2> QED
    BY <2>1, <2>2, <2>3, AllowedFrame
<1>2. ASSUME RefuseFile PROVE Allowed'
  <2>1. (Ready \ Held)' \subseteq Ready \ Held
    BY <1>2 DEF RefuseFile, Ready, Held
  <2>2. /\ "discard" \notin mishaps' => "discard" \notin mishaps
        /\ restarts' = restarts
    BY <1>2 DEF RefuseFile, progress
  <2>3. Share("webhook")' + Share("resumed")' + ToCome'
          <= Share("webhook") + Share("resumed") + ToCome
    BY <1>2 DEF RefuseFile, Share, ToCome, progress
  <2> QED
    BY <2>1, <2>2, <2>3, AllowedFrame
<1>3. ASSUME AddImport PROVE Allowed'
  <2>1. (Ready \ Held)' \subseteq Ready \ Held
    BY <1>3 DEF AddImport, Ready, Held
  <2>2. /\ "discard" \notin mishaps' => "discard" \notin mishaps
        /\ restarts' = restarts
    BY <1>3 DEF AddImport, progress
  <2>3. Share("webhook")' + Share("resumed")' + ToCome'
          <= Share("webhook") + Share("resumed") + ToCome
    BY <1>3 DEF AddImport, Share, ToCome, progress
  <2> QED
    BY <2>1, <2>2, <2>3, AllowedFrame
<1>4. ASSUME HandOver PROVE Allowed'
  <2>1. (Ready \ Held)' \subseteq Ready \ Held
    BY <1>4 DEF HandOver, Ready, Held, TypeOK, Run, Runs
  <2>2. /\ "discard" \notin mishaps' => "discard" \notin mishaps
        /\ restarts' = restarts
    BY <1>4 DEF HandOver, progress
  <2>3. Share("webhook")' + Share("resumed")' + ToCome'
          <= Share("webhook") + Share("resumed") + ToCome
    BY <1>4 DEF HandOver, Share, ToCome, progress, Delivered, TypeOK, Run, Runs
  <2> QED
    BY <2>1, <2>2, <2>3, AllowedFrame
<1>5. ASSUME Stop PROVE Allowed'
  <2>1. (Ready \ Held)' \subseteq Ready \ Held
    BY <1>5 DEF Stop, Ready, Held
  <2>2. /\ "discard" \notin mishaps' => "discard" \notin mishaps
        /\ restarts' = restarts
    BY <1>5 DEF Stop, progress
  <2>3. Share("webhook")' + Share("resumed")' + ToCome'
          <= Share("webhook") + Share("resumed") + ToCome
    BY <1>5 DEF Stop, Share, ToCome, progress
  <2> QED
    BY <2>1, <2>2, <2>3, AllowedFrame
<1>6. ASSUME Restart PROVE Allowed'
  <2>1. Ready' = Ready /\ restarts' = restarts + 1 /\ run' = [q \in Runs |-> IdleRun]
    BY <1>6 DEF Restart, Ready
  <2>2. "discard" \notin mishaps' => "discard" \notin mishaps
    BY <1>6 DEF Restart
  <2>3. restarts \in Nat
    BY BoundsAssumption DEF TypeOK
  <2>4. (Ready \ Held)' \subseteq Ready
    BY <2>1
  <2>5. /\ Cardinality((Ready \ Held)') <= Cardinality(Ready)
        /\ Cardinality((Ready \ Held)') \in Nat
    BY <2>4, ReadyFinite, FS_Subset, FS_CardinalityType
  <2>6. /\ Share("webhook")' = 0
        /\ Share("resumed")' = 0
        /\ ToCome' <= ToCome + 1
        /\ {ToCome, ToCome'} \subseteq Nat
    BY <1>6, <2>1, IdleType DEF Restart, Share, ToCome, Runs
  <2>7. {Share("webhook"), Share("resumed")} \subseteq Nat
    BY DEF Share
  <2>8. Cardinality(Ready) <= Cardinality(Ready \ Held) + Share("webhook") + Share("resumed")
    BY HeldCounted
  <2>9. Cardinality(Ready) \in Nat /\ Cardinality(Ready \ Held) \in Nat
    BY ReadyFinite
  <2> QED
    BY <2>1, <2>2, <2>3, <2>5, <2>6, <2>7, <2>8, <2>9 DEF Allowed
<1>7. ASSUME Resume PROVE Allowed'
  <2>1. (Ready \ Held)' \subseteq Ready \ Held
    BY <1>7 DEF Resume, Ready, Held, TypeOK, Run, Runs
  <2>2. /\ "discard" \notin mishaps' => "discard" \notin mishaps
        /\ restarts' = restarts
    BY <1>7 DEF Resume, progress
  <2>3. Share("webhook")' + Share("resumed")' + ToCome'
          <= Share("webhook") + Share("resumed") + ToCome
    BY <1>7 DEF Resume, Share, ToCome, progress, Delivered, TypeOK, Run, Runs
  <2> QED
    BY <2>1, <2>2, <2>3, AllowedFrame
<1>8. ASSUME StaleBefore PROVE Allowed'
  <2>1. (Ready \ Held)' \subseteq Ready \ Held
    BY <1>8, GotoEffect DEF StaleBefore, Ready, Held, Runs, RunPC
  <2>2. run["resumed"].pc # "idle" /\ \A q \in Runs \ {"resumed"} : run'[q] = run[q]
    BY <1>8, GotoEffect DEF StaleBefore, At, Runs, RunPC
  <2>3. UNCHANGED progress /\ mishaps' = mishaps
    BY <1>8 DEF StaleBefore
  <2>4. Share("webhook")' + Share("resumed")' + ToCome'
          <= Share("webhook") + Share("resumed") + ToCome
    BY <2>2, <2>3, SharesKept DEF Runs
  <2> QED
    BY <2>1, <2>3, <2>4, AllowedFrame DEF progress
<1>9. ASSUME NEW r \in Runs, StartImport(r) PROVE Allowed'
  <2>1. (Ready \ Held)' \subseteq Ready \ Held
    <3>1. \A q \in Runs : q # r => run'[q].track = run[q].track
      BY <1>9, StartImportMoves
    <3>2. run[r].track = NoTrack
      BY <1>9, StartImportMoves DEF NoSpare
    <3>3. Ready' = Ready
      BY <1>9 DEF StartImport, Ready
    <3>4. \A u \in Ready : u \in Held => u \in Held'
      BY <3>1, <3>2, NoTrackOutside DEF Ready, Held
    <3> QED
      BY <3>3, <3>4
  <2>2. run[r].pc # "idle" /\ \A q \in Runs \ {r} : run'[q] = run[q]
    BY <1>9, StartImportMoves
  <2>3. UNCHANGED progress /\ ("discard" \notin mishaps' => "discard" \notin mishaps)
    BY <1>9 DEF StartImport
  <2>4. Share("webhook")' + Share("resumed")' + ToCome'
          <= Share("webhook") + Share("resumed") + ToCome
    BY <2>2, <2>3, SharesKept
  <2> QED
    BY <2>1, <2>3, <2>4, AllowedFrame DEF progress
<1>10. ASSUME NEW r \in Runs, GiveUp(r) PROVE Allowed'
  <2>1. (Ready \ Held)' \subseteq Ready \ Held
    <3>1. \A q \in Runs : q # r => run'[q].track = run[q].track
      BY <1>10, GiveUpMoves
    <3>2. run[r].track = NoTrack
      BY <1>10, GiveUpMoves DEF NoSpare
    <3>3. Ready' = Ready
      BY <1>10 DEF GiveUp, Ready
    <3>4. \A u \in Ready : u \in Held => u \in Held'
      BY <3>1, <3>2, NoTrackOutside DEF Ready, Held
    <3> QED
      BY <3>3, <3>4
  <2>2. run[r].pc # "idle" /\ \A q \in Runs \ {r} : run'[q] = run[q]
    BY <1>10, GiveUpMoves
  <2>3. UNCHANGED progress /\ ("discard" \notin mishaps' => "discard" \notin mishaps)
    BY <1>10 DEF GiveUp, WriteFails, Mishap
  <2>4. Share("webhook")' + Share("resumed")' + ToCome'
          <= Share("webhook") + Share("resumed") + ToCome
    BY <2>2, <2>3, SharesKept
  <2> QED
    BY <2>1, <2>3, <2>4, AllowedFrame DEF progress
<1>11. ASSUME NEW r \in Runs, Open(r) PROVE Allowed'
  <2>1. (Ready \ Held)' \subseteq Ready \ Held
    BY <1>11, OpenMoves, IdleType, NoTrackOutside DEF Open, Ready, Held,
      NoSpare, Retried
  <2>2. run[r].pc # "idle" /\ \A q \in Runs \ {r} : run'[q] = run[q]
    BY <1>11, OpenMoves
  <2>3. UNCHANGED progress /\ ("discard" \notin mishaps' => "discard" \notin mishaps)
    BY <1>11 DEF Open
  <2>4. Share("webhook")' + Share("resumed")' + ToCome'
          <= Share("webhook") + Share("resumed") + ToCome
    BY <2>2, <2>3, SharesKept
  <2> QED
    BY <2>1, <2>3, <2>4, AllowedFrame DEF progress
<1>12. ASSUME NEW r \in Runs, NEW t \in Tracks, Reserve(r, t) PROVE Allowed'
  <2>1. (Ready \ Held)' \subseteq Ready \ Held
    <3>2. run[r].track = NoTrack
      BY <1>12, ReserveMoves DEF NoSpare
    <3>3. \A q \in Runs : q # r => run'[q].track = run[q].track
      BY <1>12, ReserveMoves
    <3>4. status' = [status EXCEPT ![t] = "pending"]
      BY <1>12 DEF Reserve
    <3>5. Ready' \subseteq Ready
      BY <3>4 DEF Ready, TypeOK
    <3>6. \A u \in Ready : u \in Held => u \in Held'
      BY <3>2, <3>3, NoTrackOutside DEF Ready, Held
    <3> QED
      BY <3>5, <3>6
  <2>2. run[r].pc # "idle" /\ \A q \in Runs \ {r} : run'[q] = run[q]
    BY <1>12, ReserveMoves
  <2>3. UNCHANGED progress /\ ("discard" \notin mishaps' => "discard" \notin mishaps)
    BY <1>12 DEF Reserve
  <2>4. Share("webhook")' + Share("resumed")' + ToCome'
          <= Share("webhook") + Share("resumed") + ToCome
    BY <2>2, <2>3, SharesKept
  <2> QED
    BY <2>1, <2>3, <2>4, AllowedFrame DEF progress
<1>13. ASSUME NEW r \in Runs, ReserveRefused(r) PROVE Allowed'
  <2>1. (Ready \ Held)' \subseteq Ready \ Held
    BY <1>13, ReserveRefusedMoves, IdleType, NoTrackOutside DEF
      ReserveRefused, Ready, Held, NoSpare, Retried
  <2>2. run[r].pc # "idle" /\ \A q \in Runs \ {r} : run'[q] = run[q]
    BY <1>13, ReserveRefusedMoves
  <2>3. UNCHANGED progress /\ ("discard" \notin mishaps' => "discard" \notin mishaps)
    BY <1>13 DEF ReserveRefused
  <2>4. Share("webhook")' + Share("resumed")' + ToCome'
          <= Share("webhook") + Share("resumed") + ToCome
    BY <2>2, <2>3, SharesKept
  <2> QED
    BY <2>1, <2>3, <2>4, AllowedFrame DEF progress
<1>14. ASSUME NEW r \in Runs, Header(r) PROVE Allowed'
  <2>1. (Ready \ Held)' \subseteq Ready \ Held
    BY <1>14, HeaderMoves, IdleType, NoTrackOutside DEF Header, Ready, Held,
      NoSpare, Retried
  <2>2. run[r].pc # "idle" /\ \A q \in Runs \ {r} : run'[q] = run[q]
    BY <1>14, HeaderMoves
  <2>3. UNCHANGED progress /\ ("discard" \notin mishaps' => "discard" \notin mishaps)
    BY <1>14 DEF Header
  <2>4. Share("webhook")' + Share("resumed")' + ToCome'
          <= Share("webhook") + Share("resumed") + ToCome
    BY <2>2, <2>3, SharesKept
  <2> QED
    BY <2>1, <2>3, <2>4, AllowedFrame DEF progress
<1>15. ASSUME NEW r \in Runs, Put(r) PROVE Allowed'
  <2>1. (Ready \ Held)' \subseteq Ready \ Held
    BY <1>15, PutMoves, IdleType, NoTrackOutside DEF Put, Ready, Held,
      NoSpare, Retried
  <2>2. run[r].pc # "idle" /\ \A q \in Runs \ {r} : run'[q] = run[q]
    BY <1>15, PutMoves
  <2>3. UNCHANGED progress /\ ("discard" \notin mishaps' => "discard" \notin mishaps)
    BY <1>15 DEF Put
  <2>4. Share("webhook")' + Share("resumed")' + ToCome'
          <= Share("webhook") + Share("resumed") + ToCome
    BY <2>2, <2>3, SharesKept
  <2> QED
    BY <2>1, <2>3, <2>4, AllowedFrame DEF progress
<1>16. ASSUME NEW r \in Runs, MarkReady(r) PROVE Allowed'
  <2>1. (Ready \ Held)' \subseteq Ready \ Held
    BY <1>16, MarkReadyMoves DEF MarkReady, Ready, Held, TypeOK
  <2>2. run[r].pc # "idle" /\ \A q \in Runs \ {r} : run'[q] = run[q]
    BY <1>16, MarkReadyMoves
  <2>3. UNCHANGED progress /\ mishaps' = mishaps
    BY <1>16 DEF MarkReady
  <2>4. Share("webhook")' + Share("resumed")' + ToCome'
          <= Share("webhook") + Share("resumed") + ToCome
    BY <2>2, <2>3, SharesKept
  <2> QED
    BY <2>1, <2>3, <2>4, AllowedFrame DEF progress
<1>17. ASSUME NEW r \in Runs, RemoveObject(r) PROVE Allowed'
  <2>1. (Ready \ Held)' \subseteq Ready \ Held
    BY <1>17, RemoveObjectMoves, IdleType, NoTrackOutside DEF RemoveObject,
      Ready, Held, NoSpare, Retried
  <2>2. run[r].pc # "idle" /\ \A q \in Runs \ {r} : run'[q] = run[q]
    BY <1>17, RemoveObjectMoves
  <2>3. UNCHANGED progress /\ ("discard" \notin mishaps' => "discard" \notin mishaps)
    BY <1>17 DEF RemoveObject
  <2>4. Share("webhook")' + Share("resumed")' + ToCome'
          <= Share("webhook") + Share("resumed") + ToCome
    BY <2>2, <2>3, SharesKept
  <2> QED
    BY <2>1, <2>3, <2>4, AllowedFrame DEF progress
<1>18. ASSUME NEW r \in Runs, DeleteRow(r) PROVE Allowed'
  <2>1. "discard" \notin mishaps' =>
          /\ "discard" \notin mishaps
          /\ status' = [status EXCEPT ![run[r].track] = "gone"]
    BY <1>18 DEF DeleteRow
  <2>2. run[r].pc # "idle" /\ \A q \in Runs \ {r} : run'[q] = run[q]
    BY <1>18, DeleteRowMoves
  <2>3. UNCHANGED progress
    BY <1>18 DEF DeleteRow
  <2>4. Share("webhook")' + Share("resumed")' + ToCome'
          <= Share("webhook") + Share("resumed") + ToCome
    BY <2>2, <2>3, SharesKept
  <2>5. CASE "discard" \notin mishaps'
    <3>1. (Ready \ Held)' \subseteq Ready \ Held
      BY <1>18, <2>1, <2>5, DeleteRowMoves DEF Ready, Held, TypeOK
    <3> QED
      BY <2>1, <2>3, <2>4, <3>1, AllowedFrame DEF progress
  <2> QED
    BY <2>5 DEF Allowed
<1>19. ASSUME NEW r \in Runs, RequeueImport(r) PROVE Allowed'
  <2>1. (Ready \ Held)' \subseteq Ready \ Held
    <3>1. \A q \in Runs : q # r => run'[q].track = run[q].track
      BY <1>19, RequeueImportMoves
    <3>2. run[r].track = NoTrack
      BY <1>19, RequeueImportMoves DEF NoSpare
    <3>3. Ready' = Ready
      BY <1>19 DEF RequeueImport, Ready
    <3>4. \A u \in Ready : u \in Held => u \in Held'
      BY <3>1, <3>2, NoTrackOutside DEF Ready, Held
    <3> QED
      BY <3>3, <3>4
  <2>2. run[r].pc # "idle" /\ \A q \in Runs \ {r} : run'[q] = run[q]
    BY <1>19, RequeueImportMoves
  <2>3. UNCHANGED progress /\ ("discard" \notin mishaps' => "discard" \notin mishaps)
    BY <1>19 DEF RequeueImport, Writes, WriteFails, Mishap
  <2>4. Share("webhook")' + Share("resumed")' + ToCome'
          <= Share("webhook") + Share("resumed") + ToCome
    BY <2>2, <2>3, SharesKept
  <2> QED
    BY <2>1, <2>3, <2>4, AllowedFrame DEF progress
<1>20. ASSUME NEW r \in Runs, Wait(r) PROVE Allowed'
  <2>1. (Ready \ Held)' \subseteq Ready \ Held
    BY <1>20, WaitMoves, IdleType, NoTrackOutside DEF Wait, Ready, Held,
      NoSpare, Retried
  <2>2. run[r].pc # "idle" /\ \A q \in Runs \ {r} : run'[q] = run[q]
    BY <1>20, WaitMoves
  <2>3. UNCHANGED progress /\ ("discard" \notin mishaps' => "discard" \notin mishaps)
    BY <1>20 DEF Wait
  <2>4. Share("webhook")' + Share("resumed")' + ToCome'
          <= Share("webhook") + Share("resumed") + ToCome
    BY <2>2, <2>3, SharesKept
  <2> QED
    BY <2>1, <2>3, <2>4, AllowedFrame DEF progress
<1>21. ASSUME NEW r \in Runs, FinishImport(r) PROVE Allowed'
  <2>1. /\ run[r].pc # "idle"
        /\ run'[r] = IdleRun
        /\ \A q \in Runs \ {r} : run'[q] = run[q]
    BY <1>21, FinishImportMoves
  <2>2. Ready' = Ready /\ UNCHANGED progress
    BY <1>21 DEF FinishImport, Ready
  <2>3. "discard" \notin mishaps' => "discard" \notin mishaps
    BY <1>21 DEF FinishImport, Writes, WriteFails, Mishap
  <2>4. restarts \in Nat /\ restarts' = restarts
    BY <2>2, BoundsAssumption DEF TypeOK, progress
  <2> DEFINE kept == Ready \ Held
  <2>5. (Ready \ Held)' \subseteq kept \cup {run[r].track}
    BY <2>1, <2>2 DEF Held
  <2>6. IsFiniteSet(kept) /\ Cardinality(kept) \in Nat
    BY ReadyFinite
  <2> HIDE DEF kept
  <2>7. /\ IsFiniteSet(kept \cup {run[r].track})
        /\ Cardinality(kept \cup {run[r].track}) <= Cardinality(kept) + 1
        /\ Cardinality(kept \cup {run[r].track}) \in Nat
    <3>1. /\ IsFiniteSet(kept \cup {run[r].track})
          /\ \/ Cardinality(kept \cup {run[r].track}) = Cardinality(kept)
             \/ Cardinality(kept \cup {run[r].track}) = Cardinality(kept) + 1
      BY <2>6, FS_AddElement
    <3> QED
      BY <2>6, <3>1
  <2>8. /\ Cardinality((Ready \ Held)') <= Cardinality(kept) + 1
        /\ Cardinality((Ready \ Held)') \in Nat
    BY <2>5, <2>6, <2>7, FS_Subset, FS_CardinalityType
  <2>9. ToCome' = ToCome /\ ToCome \in Nat
    BY <2>2 DEF ToCome, progress
  <2>10. Share("webhook")' + Share("resumed")' + 1 = Share("webhook") + Share("resumed")
    BY <2>1, IdleType DEF Share, Runs
  <2>11. /\ {Share("webhook"), Share("resumed")} \subseteq Nat
         /\ {Share("webhook")', Share("resumed")'} \subseteq Nat
    BY DEF Share
  <2> QED
    BY <2>3, <2>4, <2>6, <2>8, <2>9, <2>10, <2>11 DEF Allowed, kept
<1>22. ASSUME NEW t \in Tracks, OwnerDelete(t) PROVE Allowed'
  <2>1. (Ready \ Held)' \subseteq Ready \ Held
    BY <1>22 DEF OwnerDelete, Ready, Held, TypeOK
  <2>2. /\ "discard" \notin mishaps' => "discard" \notin mishaps
        /\ restarts' = restarts
    BY <1>22 DEF OwnerDelete, progress
  <2>3. Share("webhook")' + Share("resumed")' + ToCome'
          <= Share("webhook") + Share("resumed") + ToCome
    BY <1>22 DEF OwnerDelete, Share, ToCome, progress
  <2> QED
    BY <2>1, <2>2, <2>3, AllowedFrame
<1>23. ASSUME NEW t \in Tracks, CleanupStale(t) PROVE Allowed'
  <2>1. (Ready \ Held)' \subseteq Ready \ Held
    BY <1>23 DEF CleanupStale, Ready, Held, TypeOK
  <2>2. /\ "discard" \notin mishaps' => "discard" \notin mishaps
        /\ restarts' = restarts
    BY <1>23 DEF CleanupStale, progress
  <2>3. Share("webhook")' + Share("resumed")' + ToCome'
          <= Share("webhook") + Share("resumed") + ToCome
    BY <1>23 DEF CleanupStale, Share, ToCome, progress
  <2> QED
    BY <2>1, <2>2, <2>3, AllowedFrame
<1>24. ASSUME UNCHANGED vars PROVE Allowed'
  <2>1. (Ready \ Held)' \subseteq Ready \ Held
    BY <1>24 DEF vars, Ready, Held
  <2>2. /\ "discard" \notin mishaps' => "discard" \notin mishaps
        /\ restarts' = restarts
    BY <1>24 DEF vars, progress
  <2>3. Share("webhook")' + Share("resumed")' + ToCome'
          <= Share("webhook") + Share("resumed") + ToCome
    BY <1>24 DEF vars, Share, ToCome, progress
  <2> QED
    BY <2>1, <2>2, <2>3, AllowedFrame
<1> QED
  BY <1>1, <1>2, <1>3, <1>4, <1>5, <1>6, <1>7, <1>8, <1>9, <1>10, <1>11,
    <1>12, <1>13, <1>14, <1>15, <1>16, <1>17, <1>18, <1>19, <1>20, <1>21,
    <1>22, <1>23, <1>24 DEF Next, RunStep

Single == NoSpare /\ Delivered /\ Alone /\ Once /\ Allowed

LEMMA SingleInit == Init => Single
<1> SUFFICES ASSUME Init PROVE Single
  OBVIOUS
<1>1. NoSpare /\ Delivered /\ Alone
  BY IdleType DEF Init, NoSpare, Delivered, Alone, Working, Runs
<1>2. Ready \ Held = {}
  BY DEF Init, Ready
<1>3. Once
  BY <1>2, FS_EmptySet DEF Init, Once
<1>4. Allowed
  <2>1. Cardinality(Ready \ Held) = 0
    BY <1>2, FS_EmptySet
  <2>2. Share("webhook") = 0 /\ Share("resumed") = 0 /\ ToCome = 2 /\ restarts = 0
    BY IdleType DEF Init, Share, ToCome, Runs
  <2> QED
    BY <2>1, <2>2 DEF Allowed
<1> QED
  BY <1>1, <1>3, <1>4 DEF Single

\* A message becomes one track, and with every restart at most one more, while
\* its runs do not overlap and record what they did.  When they do not, there is
\* one more at most, however often the runs overlap or fail to record anything.
THEOREM OneMessageOneTrack == Spec => []ImportedOnce
<1>1. Init => Single
  BY SingleInit
<1>2. TypeOK /\ Single /\ [Next]_vars => Single'
  BY NoSpareStep, DeliveredStep, AloneStep, OnceStep, AllowedStep DEF Single
<1>3. TypeOK /\ Single => ImportedOnce
  <2> SUFFICES ASSUME TypeOK, Single PROVE ImportedOnce
    OBVIOUS
  <2>1. mishaps \subseteq {"unlisted"} => Cardinality(Ready) <= 1 + restarts
    BY OnceSuffices DEF Single
  <2>2. "discard" \notin mishaps => Cardinality(Ready) <= 2 + restarts
    <3>1. /\ Cardinality(Ready) \in Nat
          /\ Cardinality(Ready \ Held) \in Nat
          /\ restarts \in Nat
      BY ReadyFinite, BoundsAssumption DEF TypeOK
    <3>2. {Share("webhook"), Share("resumed"), ToCome} \subseteq Nat
      BY DEF Share, ToCome
    <3> QED
      BY <3>1, <3>2, HeldCounted DEF Single, Allowed
  <2> QED
    BY <2>1, <2>2 DEF ImportedOnce
<1> QED
  BY <1>1, <1>2, <1>3, TypeCorrect, PTL DEF Spec
==============================================================================
