----------------------------- MODULE BotImports ------------------------------
(***************************************************************************)
(* A file sent to a messenger bot, from the webhook to a track.            *)
(*                                                                         *)
(* The webhook's update is recorded and its file queued as an import       *)
(* (bot/webhook.go, bot/service.go over store/bots.go); a run downloads    *)
(* it, stores it as a track and records the outcome, with retries          *)
(* (bot/importer.go); after a restart Resume starts a run for what was     *)
(* left unfinished.  Every statement and every storage or messenger call   *)
(* is one step.                                                            *)
(*                                                                         *)
(* The module follows one message of a linked chat on one API instance.    *)
(* Imports of other messages meet it only in the owner's limits, so a      *)
(* refused reservation is a choice here; the limits, the deletion of a     *)
(* track and the cleaner of old reservations are TrackUploads' subject     *)
(* and single steps here.  An update is forgotten after a week, when the   *)
(* messenger has long stopped to send it again.                            *)
(***************************************************************************)
EXTENDS Integers, FiniteSets

CONSTANTS
  MaxTracks,    \* bound on the tracks the message ever becomes
  MaxAttempts,  \* maxAttempts
  MaxRestarts   \* bound on the restarts of the process

ASSUME BoundsAssumption ==
  MaxTracks \in Nat \ {0} /\ MaxAttempts \in Nat \ {0} /\ MaxRestarts \in Nat

Tracks  == 1..MaxTracks
NoTrack == 0

\* The goroutines in Importer.Run: the webhook's, for the import it queued,
\* and Resume's, for the import it found unfinished.
Runs == {"webhook", "resumed"}

VARIABLES
  \* The process: is its context cancelled, how often was it restarted, has
  \* Resume listed the imports, and where the update's handler is.
  process,
  restarts,
  resumed,
  handler,
  \* The database: bot_updates, bot_imports, the tracks' rows.
  seen,
  import,
  status,
  \* Storage: the tracks whose object exists, and those whose removal failed.
  stored,
  unremoved,
  run,
  \* Was the import's row written since the resumed run read the clock?
  recent,
  \* What went wrong, for the properties: a failed write of a run's progress, a
  \* track's row that a discard could not delete, two runs at work on the import
  \* at once, and an unfinished import this life of the process did not list.
  mishaps

progress == <<process, restarts, resumed, handler, seen>>
objects  == <<stored, unremoved>>
vars     == <<progress, import, status, objects, run, recent, mishaps>>

Import == [state : {"none", "queued", "downloading", "done", "failed"},
           attempts : Nat, track : Tracks \cup {NoTrack}]

RunPC == {"idle", "listed", "start", "open", "reserve", "header", "put", "mark",
          "removeObject", "deleteRow", "outcome", "wait"}

Run == [pc : RunPC,
        attempts : Nat,
        track : Tracks \cup {NoTrack},
        outcome : {"track", "refused", "retry"}]

IdleRun == [pc |-> "idle", attempts |-> 0, track |-> NoTrack, outcome |-> "retry"]

\* The stages that work on a reserved track.
Storing == {"header", "put", "mark", "removeObject", "deleteRow"}

Mishaps == {"write", "discard", "overlap", "unlisted"}

TypeOK ==
  /\ process \in {"up", "stopping"}
  /\ restarts \in 0..MaxRestarts
  /\ resumed \in BOOLEAN
  /\ handler \in {"none", "file", "added"}
  /\ seen \in BOOLEAN
  /\ import \in Import
  /\ status \in [Tracks -> {"free", "pending", "ready", "gone"}]
  /\ stored \in SUBSET Tracks
  /\ unremoved \in SUBSET Tracks
  /\ run \in [Runs -> Run]
  /\ \A r \in Runs : run[r].pc \in Storing => run[r].track \in Tracks
  /\ recent \in BOOLEAN
  /\ mishaps \in SUBSET Mishaps

Init ==
  /\ process = "up"
  /\ restarts = 0
  /\ resumed = FALSE
  /\ handler = "none"
  /\ seen = FALSE
  /\ import = [state |-> "none", attempts |-> 0, track |-> NoTrack]
  /\ status = [t \in Tracks |-> "free"]
  /\ stored = {}
  /\ unremoved = {}
  /\ run = [r \in Runs |-> IdleRun]
  /\ recent = FALSE
  /\ mishaps = {}

-----------------------------------------------------------------------------
(* The update. *)

\* Webhook and FirstDelivery: a delivery that is not the first is no step.
FirstDelivery ==
  /\ process = "up"
  /\ ~seen
  /\ seen' = TRUE
  /\ handler' = "file"
  /\ UNCHANGED <<process, restarts, resumed, import, status, objects, run, recent, mishaps>>

\* An unlinked chat, a file the policy refuses, or an error.
RefuseFile ==
  /\ handler = "file"
  /\ handler' = "none"
  /\ UNCHANGED <<process, restarts, resumed, seen, import, status, objects, run, recent, mishaps>>

AddImport ==
  /\ handler = "file"
  /\ process = "up"
  /\ import.state = "none"
  /\ import' = [import EXCEPT !.state = "queued"]
  /\ handler' = "added"
  /\ UNCHANGED <<process, restarts, resumed, seen, status, objects, run, recent, mishaps>>

HandOver ==
  /\ handler = "added"
  /\ handler' = "none"
  /\ run' = [run EXCEPT !["webhook"].pc = "start"]
  /\ UNCHANGED <<process, restarts, resumed, seen, import, status, objects, recent, mishaps>>

-----------------------------------------------------------------------------
(* Restarts. *)

\* SIGTERM cancels the context of the resumed runs; the others keep going
\* until the process exits.
Stop ==
  /\ process = "up"
  /\ restarts < MaxRestarts
  /\ process' = "stopping"
  /\ UNCHANGED <<restarts, resumed, handler, seen, import, status, objects, run, recent, mishaps>>

\* The process exits or crashes, and starts again.
Restart ==
  /\ restarts < MaxRestarts
  /\ restarts' = restarts + 1
  /\ process' = "up"
  /\ resumed' = FALSE
  /\ handler' = "none"
  /\ run' = [r \in Runs |-> IdleRun]
  /\ recent' = FALSE
  /\ mishaps' = mishaps \ {"unlisted"}
  /\ UNCHANGED <<seen, import, status, objects>>

UnfinishedQueuedOnly == import.state = "queued"          \* mutant

Unfinished == import.state \in {"queued", "downloading"}

\* Resume runs beside the webhook: it may list an import just queued.  When the
\* listing fails nothing is resumed before the next restart, nor is an import
\* that is not among the hundred oldest of all messengers.
Resume ==
  /\ process = "up"
  /\ ~resumed
  /\ resumed' = TRUE
  /\ \/ /\ Unfinished
        /\ run' = [run EXCEPT !["resumed"].pc = "listed"]
        /\ mishaps' = mishaps
     \/ /\ run' = run
        /\ mishaps' = IF Unfinished THEN mishaps \cup {"unlisted"} ELSE mishaps
  /\ UNCHANGED <<process, restarts, handler, seen, import, status, objects, recent>>

-----------------------------------------------------------------------------
(* Importer.Run. *)

At(r, here) == run[r].pc = here

Goto(r, there) == run' = [run EXCEPT ![r].pc = there]

End(r, outcome) == run' = [run EXCEPT ![r] = [@ EXCEPT !.pc = "outcome", !.outcome = outcome]]

Discard(r, outcome) == run' = [run EXCEPT ![r] = [@ EXCEPT !.pc = "removeObject", !.outcome = outcome]]

\* The context of a resumed run is the process's; a new run's is never done.
Cancelled(r) == r = "resumed" /\ process = "stopping"

\* The goroutine of a resumed run starts: its staleBefore is now.
StaleBefore ==
  /\ At("resumed", "listed")
  /\ Goto("resumed", "start")
  /\ recent' = FALSE
  /\ UNCHANGED <<progress, import, status, objects, mishaps>>

\* The import's updated_at is now; a run that starts later does not mind.
Touch == recent' = (run["resumed"].pc \notin {"idle", "listed"})

\* A write of the import's row fails; it may have been committed all the same.
Mishap == mishaps' = mishaps \cup {"write"}

WriteFails(written) ==
  /\ Mishap
  /\ \/ UNCHANGED <<import, recent>>
     \/ import' = written /\ Touch

Writes(written) == import' = written /\ Touch /\ mishaps' = mishaps

\* Runs that claimed the import and have not recorded how it ended.
Working == {r \in Runs : run[r].pc \notin {"idle", "listed", "start", "wait"}}

Claimable(r) ==
  \/ import.state = "queued"
  \/ import.state = "downloading" /\ r = "resumed" /\ ~recent

Claimed == [import EXCEPT !.state = "downloading", !.attempts = @ + 1]

StartImport(r) ==
  /\ At(r, "start")
  /\ Claimable(r)
  /\ import' = Claimed
  /\ run' = [run EXCEPT ![r] = [@ EXCEPT !.pc = "open", !.attempts = Claimed.attempts]]
  /\ Touch
  /\ mishaps' = IF Working # {} THEN mishaps \cup {"overlap"} ELSE mishaps
  /\ UNCHANGED <<progress, status, objects>>

\* The import is another run's or finished, or the claim fails.
GiveUp(r) ==
  /\ At(r, "start")
  /\ run' = [run EXCEPT ![r] = IdleRun]
  /\ \/ ~Claimable(r) /\ UNCHANGED <<import, recent, mishaps>>
     \/ Claimable(r) /\ WriteFails(Claimed)
  /\ UNCHANGED <<progress, status, objects>>

\* The checks before the reservation, and the messenger's Open.
Open(r) ==
  /\ At(r, "open")
  /\ Goto(r, "reserve") \/ End(r, "refused") \/ End(r, "retry")
  /\ UNCHANGED <<progress, import, status, objects, recent, mishaps>>

Fresh(t) == status[t] = "free" /\ \A u \in Tracks : u < t => status[u] # "free"

Reserve(r, t) ==
  /\ At(r, "reserve")
  /\ Fresh(t)
  /\ status' = [status EXCEPT ![t] = "pending"]
  /\ \/ run' = [run EXCEPT ![r] = [@ EXCEPT !.pc = "header", !.track = t]]
     \/ End(r, "retry")                          \* the answer is lost
  /\ UNCHANGED <<progress, import, objects, recent, mishaps>>

ReserveRefused(r) ==
  /\ At(r, "reserve")
  /\ End(r, "refused") \/ End(r, "retry")
  /\ UNCHANGED <<progress, import, status, objects, recent, mishaps>>

Header(r) ==
  /\ At(r, "header")
  /\ Goto(r, "put") \/ Discard(r, "refused") \/ Discard(r, "retry")
  /\ UNCHANGED <<progress, import, status, objects, recent, mishaps>>

PutUnchecked(r) ==                               \* mutant: the error is ignored
  /\ At(r, "put")
  /\ stored' \in {stored, stored \cup {run[r].track}}
  /\ Goto(r, "mark")
  /\ UNCHANGED <<progress, import, status, unremoved, recent, mishaps>>

\* A failed upload may have stored the object nevertheless.
Put(r) ==
  /\ At(r, "put")
  /\ \/ stored' = stored \cup {run[r].track} /\ Goto(r, "mark")
     \/ stored' \in {stored, stored \cup {run[r].track}} /\ Discard(r, "retry")
  /\ UNCHANGED <<progress, import, status, unremoved, recent, mishaps>>

MarkReadyKeeps(r) ==                             \* mutant: no discard
  /\ At(r, "mark")
  /\ status' \in {status, [status EXCEPT ![run[r].track] = "ready"]}
  /\ End(r, "track") \/ End(r, "retry")
  /\ UNCHANGED <<progress, import, objects, recent, mishaps>>

\* An error may hide a commit.
MarkReady(r) ==
  LET ready == [status EXCEPT ![run[r].track] = "ready"] IN
  /\ At(r, "mark")
  /\ \/ status' = ready /\ End(r, "track")
     \/ status' \in {status, ready} /\ Discard(r, "retry")
  /\ UNCHANGED <<progress, import, objects, recent, mishaps>>

RemoveObject(r) ==
  /\ At(r, "removeObject")
  /\ \/ stored' = stored \ {run[r].track} /\ unremoved' = unremoved
     \/ stored' = stored /\ unremoved' = unremoved \cup {run[r].track}
  /\ Goto(r, "deleteRow")
  /\ UNCHANGED <<progress, import, status, recent, mishaps>>

DeleteRow(r) ==
  /\ At(r, "deleteRow")
  /\ \/ status' = [status EXCEPT ![run[r].track] = "gone"] /\ mishaps' = mishaps
     \/ status' = status /\ mishaps' = mishaps \cup {"discard"}
  /\ run' = [run EXCEPT ![r] = [@ EXCEPT !.pc = "outcome", !.track = NoTrack]]
  /\ UNCHANGED <<progress, import, objects, recent>>

Retried(r) ==
  /\ run[r].outcome = "retry"
  /\ run[r].attempts < MaxAttempts
  /\ ~Cancelled(r)

RequeueImport(r) ==
  LET queued == [import EXCEPT !.state = "queued"] IN
  /\ At(r, "outcome")
  /\ Retried(r)
  /\ \/ Writes(queued) /\ run' = [run EXCEPT ![r] = [@ EXCEPT !.pc = "wait", !.attempts = 0]]
     \/ WriteFails(queued) /\ run' = [run EXCEPT ![r] = IdleRun]
  /\ UNCHANGED <<progress, status, objects>>

\* The delay ends, or the context does.
Wait(r) ==
  /\ At(r, "wait")
  /\ \/ Goto(r, "start")
     \/ Cancelled(r) /\ run' = [run EXCEPT ![r] = IdleRun]
  /\ UNCHANGED <<progress, import, status, objects, recent, mishaps>>

\* The row refers to a track that exists.
Referable(t) == t # NoTrack => status[t] \in {"pending", "ready"}

FinishImport(r) ==
  LET t == IF run[r].outcome = "track" THEN run[r].track ELSE NoTrack
      finished == [import EXCEPT !.state = IF t = NoTrack THEN "failed" ELSE "done",
                                 !.track = t]
  IN
  /\ At(r, "outcome")
  /\ ~Retried(r)
  /\ \/ Referable(t) /\ (Writes(finished) \/ WriteFails(finished))
     \/ ~Referable(t) /\ Mishap /\ UNCHANGED <<import, recent>>
  /\ run' = [run EXCEPT ![r] = IdleRun]
  /\ UNCHANGED <<progress, status, objects>>

RunStep(r) ==
  \/ StartImport(r)
  \/ GiveUp(r)
  \/ Open(r)
  \/ \E t \in Tracks : Reserve(r, t)
  \/ ReserveRefused(r)
  \/ Header(r)
  \/ Put(r)
  \/ MarkReady(r)
  \/ RemoveObject(r)
  \/ DeleteRow(r)
  \/ RequeueImport(r)
  \/ Wait(r)
  \/ FinishImport(r)

-----------------------------------------------------------------------------
(* The rest of the system. *)

\* An import's track_id goes with its track (ON DELETE SET NULL).
OwnerDelete(t) ==
  /\ status[t] = "ready"
  /\ status' = [status EXCEPT ![t] = "gone"]
  /\ stored' = stored \ {t}
  /\ import' = [import EXCEPT !.track = IF @ = t THEN NoTrack ELSE @]
  /\ UNCHANGED <<progress, unremoved, run, recent, mishaps>>

\* PENDING_UPLOAD_TTL is longer than any download.
CleanupStale(t) ==
  /\ status[t] = "pending"
  /\ \A r \in Runs : run[r].track # t
  /\ status' = [status EXCEPT ![t] = "gone"]
  /\ stored' = stored \ {t}
  /\ UNCHANGED <<progress, import, unremoved, run, recent, mishaps>>

Next ==
  \/ FirstDelivery
  \/ RefuseFile
  \/ AddImport
  \/ HandOver
  \/ \E r \in Runs : RunStep(r)
  \/ Stop
  \/ Restart
  \/ Resume
  \/ StaleBefore
  \/ \E t \in Tracks : OwnerDelete(t) \/ CleanupStale(t)

Spec == Init /\ [][Next]_vars

\* The process goes on with what it has begun, and a stopping one is started
\* again; nothing is asked of the webhook, the owner or the cleaner.
Work ==
  \/ HandOver
  \/ Resume
  \/ StaleBefore
  \/ \E r \in Runs : RunStep(r)
  \/ process = "stopping" /\ Restart

Fairness == WF_vars(Work)

FairSpec == Spec /\ Fairness

-----------------------------------------------------------------------------
(* Properties. *)

Ready == {t \in Tracks : status[t] = "ready"}

\* "From here on, a failure must not leave the reservation behind": once a
\* track's row is gone its object is, unless storage failed to remove it.
NothingLeaks == \A t \in Tracks : status[t] = "gone" /\ t \in stored => t \in unremoved

\* A chat that is told of a track has it: an import that is done names a
\* ready track with its object, or none because its owner deleted it.
DoneIsPlayable ==
  import.state = "done" /\ import.track # NoTrack =>
    import.track \in Ready /\ import.track \in stored

\* A message becomes one track, however often it is retried: a restart between
\* the track and the import's outcome makes at most one more, and so do two runs
\* that work on it at once, which Run's comment excludes ("nothing in this process
\* is working on it") and a listing beside the webhook allows.  A run that cannot
\* record what it did changes only which run makes the track.
ImportedOnce ==
  /\ mishaps \subseteq {"unlisted"} => Cardinality(Ready) <= 1 + restarts
  /\ "discard" \notin mishaps => Cardinality(Ready) <= 2 + restarts

\* An import does not stay unfinished, whatever fails and restarts, unless the
\* database refused to record its progress, or this life of the process did not
\* list it: then the next restart counts.
ImportEnds ==
  Unfinished ~> import.state \in {"done", "failed"} \/ {"write", "unlisted"} \cap mishaps # {}
==============================================================================
