------------------------------ MODULE CopyEdits ------------------------------
(***************************************************************************)
(* Copy edits of live mode: texts the user edits in the page, saves to the *)
(* helper's store, and lets the agent apply to the source, with the dock   *)
(* (Apply, Discard, Keep fixing, Roll back) and the lock an apply puts on  *)
(* the page (.skills/impeccable/scripts/live-browser.js).                  *)
(*                                                                         *)
(* A request is sent, taken by the helper, and answered in three steps,    *)
(* and the helper's event stream delivers in order beside them.  The       *)
(* helper and the agent are external: they do what the page asks of them   *)
(* and expects of them.  A text is a number, the one the source started    *)
(* with 0; a picked element is the set of its text leaves.  An apply's     *)
(* chunk is one edit, and the agent's attempts at a repair are one.        *)
(***************************************************************************)
EXTENDS Naturals, Sequences, FiniteSets, SequencesExt

CONSTANTS
  Leaves,         \* text leaves of the page
  Elements,       \* what can be picked: sets of leaves
  MaxText,        \* texts are 0..MaxText
  Unusable,       \* texts a save rejects: empty, or with markup in them
  MaxStaged,      \* bound on the edits the helper keeps
  MaxAsked,       \* bound on what the user asks of the helper
  MaxRequests,    \* bound on the requests under way
  MaxEvents,      \* bound on the events the stream holds
  MaxFaults       \* bound on the kinds of trouble below a run meets

ASSUME BoundsAssumption ==
  /\ IsFiniteSet(Leaves) /\ Elements \subseteq SUBSET Leaves /\ {} \notin Elements
  /\ MaxText \in Nat \ {0} /\ Unusable \subseteq 1..MaxText
  /\ MaxStaged \in Nat \ {0} /\ MaxAsked \in Nat /\ MaxRequests \in Nat \ {0} /\ MaxEvents \in Nat \ {0}
  /\ MaxFaults \in Nat

\* Each may happen once: a request fails, or only its answer does; the agent
\* leaves an edit out, gives the apply up, or cannot repair it; an event is lost;
\* the page is reloaded; another tab applies; the user types or leaves while a
\* save is under way, asks a second thing of the helper while a first is, uses
\* the dock while editing.  Three are not among the MaxFaults: an answer the
\* helper has since changed ("stale"), an edit saved while the user is asked for a
\* decision ("deciding"), and a decision to roll back.
Fault == {"failure", "unanswered", "unapplied", "abandoned", "unrepaired", "lost", "reload",
          "tab", "typing", "leaving", "overlap", "editing", "rollback", "deciding",
          "stale"}

Unbounded == {"stale", "deciding", "rollback"}

Text     == 0..MaxText
NoText   == MaxText + 1
Slots    == 1..MaxRequests
Counts   == 0..MaxStaged

VARIABLES
  page,      \* the overlay; see Page
  requests,  \* what is under way between page and helper, by slot
  events,    \* the stream, oldest first
  staged,    \* the edits the helper keeps, oldest first
  job,       \* the helper's apply
  source,    \* the text each leaf has in the source
  asked,     \* how much the user has asked of the helper
  faults     \* the trouble there has been
vars == <<page, requests, events, staged, job, source, asked, faults>>

\* An edit: a leaf with the locator that finds it again, in the page and in the
\* source, and its two texts.
Op == [leaf : Leaves, original : Text, new : Text]

\* "deaf" is a request whose page was reloaded: nobody hears the answer.
Request == [kind : {"free", "stash", "count", "commit", "repair", "rollback", "discard"},
            step : {"sent", "answered", "failed", "deaf"}, ops : Seq(Op), count : Counts]
Free == [kind |-> "free", step |-> "sent", ops |-> <<>>, count |-> 0]

Event == [type : {"stashed", "started", "repairing", "chunk", "repair", "decision",
                  "rolledBack", "done", "failed", "discarded"}, count : Counts]

\* "todo" of the first "size" staged edits are yet to be applied; "before" is
\* the source a rollback returns to.
Job == [step : {"idle", "applying", "repairing", "decision"}, size : Counts, todo : Counts,
        before : [Leaves -> Text]]

\* What sessionStorage keeps of an apply, for a reload.
Stored   == [phase : {"none", "applying", "verifying", "repairing", "repair-decision"},
             total : Counts, done : Counts]
NoStored == [phase |-> "none", total |-> 0, done |-> 0]

\* The dock: its count, whether the Apply pill and the trash can be pressed, and
\* whether Keep fixing and Roll back are shown.
Dock   == [count : Counts, pill : BOOLEAN, trash : BOOLEAN, trashShown : BOOLEAN, asks : BOOLEAN]
NoDock == [count |-> 0, pill |-> TRUE, trash |-> TRUE, trashShown |-> FALSE, asks |-> FALSE]

\* The badge of a picked element: nothing, Edit, Edit while an apply runs, or
\* Cancel and Save.
Badge == {"hidden", "idle", "idle-disabled", "editing"}

\* rows are the leaves that can be typed in, with the text each was opened with;
\* GENERATING stands for a session under way.
Page == [state : {"PICKING", "CONFIGURING", "EDITING", "GENERATING"},
         selected : Elements \cup {{}}, text : [Leaves -> Text],
         rows : SUBSET Leaves, original : [Leaves -> Text],
         drafts : [Leaves -> Text \cup {NoText}],
         badge : Badge,
         dock : Dock, inFlight : BOOLEAN, stored : Stored, told : BOOLEAN]

TypeOK ==
  /\ page \in Page /\ events \in Seq(Event) /\ staged \in Seq(Op) /\ Len(staged) <= MaxStaged
  /\ requests \in [Slots -> Request] /\ job \in Job /\ source \in [Leaves -> Text]
  /\ asked \in 0..MaxAsked /\ faults \subseteq Fault

NoEdits  == [l \in Leaves |-> 0]
NoDrafts == [l \in Leaves |-> NoText]

Fresh(text, stored) ==
  [state |-> "PICKING", selected |-> {}, text |-> text, rows |-> {}, original |-> NoEdits,
   drafts |-> NoDrafts, badge |-> "hidden", dock |-> NoDock, inFlight |-> FALSE,
   stored |-> stored, told |-> FALSE]

Sent(kind, ops) == [kind |-> kind, step |-> "sent", ops |-> ops, count |-> 0]

\* The page has heard that nothing is saved (fetchPendingCount of init).
Init ==
  /\ page = Fresh(NoEdits, NoStored)
  /\ requests = [i \in Slots |-> Free]
  /\ events = <<>> /\ staged = <<>>
  /\ job = [step |-> "idle", size |-> 0, todo |-> 0, before |-> NoEdits]
  /\ source = NoEdits /\ asked = 0 /\ faults = {}

helper == <<events, staged, job, source>>

Strikes(kind) ==
  /\ Cardinality(faults \ Unbounded) < MaxFaults /\ kind \notin faults
  /\ faults' = faults \cup {kind}

\* A step that is nothing special, unless "special" holds.
Unless(kind, special) == IF special THEN Strikes(kind) ELSE UNCHANGED faults

Open == {i \in Slots : requests[i].kind = "free"}
FirstOpen == CHOOSE i \in Open : \A j \in Open : i <= j
Sends(kind, ops) ==
  /\ Open # {}
  /\ requests' = [requests EXCEPT ![FirstOpen] = Sent(kind, ops)]
Asks(kind, ops) == asked < MaxAsked /\ asked' = asked + 1 /\ Sends(kind, ops)

Waits(kinds) == \E i \in Slots : requests[i].kind \in kinds /\ requests[i].step # "deaf"

\* Whether something the page has yet to hear of is under way.
UserWaits == events # <<>> \/ Waits({"stash", "count", "commit", "repair", "rollback", "discard"})

-----------------------------------------------------------------------------
(* The texts of the page. *)

RestoreDrafts(p) ==
  [p EXCEPT !.text = [l \in Leaves |->
     IF l \in p.rows /\ p.drafts[l] # NoText THEN p.original[l] ELSE p.text[l]]]

DisableEdit(p) == [p EXCEPT !.rows = {}, !.original = NoEdits, !.drafts = NoDrafts]

\* The drafts are restored before the rows that know the texts are dropped.
HideBar(p) == DisableEdit(IF p.state = "EDITING" THEN RestoreDrafts(p) ELSE p)

EnableEdit(p) ==
  [p EXCEPT !.rows = p.selected, !.drafts = NoDrafts,
            !.original = [l \in Leaves |-> IF l \in p.selected THEN p.text[l] ELSE 0]]

CancelEditingDropsFirst(p) ==   \* mutant: the rows are dropped before the drafts are restored
  [RestoreDrafts(DisableEdit(p)) EXCEPT !.state = "CONFIGURING", !.badge = "idle"]

CancelEditing(p) ==
  [DisableEdit(RestoreDrafts(p)) EXCEPT !.state = "CONFIGURING", !.badge = "idle"]

ExitToPicking(p) == [HideBar(p) EXCEPT !.state = "PICKING", !.badge = "hidden"]

\* Undoes one discarded edit, unless the page shows another text by now; then the
\* user is told to reload.
RestoreOp(p, op) ==
  IF p.text[op.leaf] = op.new THEN [p EXCEPT !.text[op.leaf] = op.original]
  ELSE [p EXCEPT !.told = TRUE]

\* One edit after the other, oldest first.
RestoreDiscarded(p, ops) ==
  LET undone[n \in 0..Len(ops)] == IF n = 0 THEN p ELSE RestoreOp(undone[n - 1], ops[n])
  IN undone[Len(ops)]

-----------------------------------------------------------------------------
(* The dock and the lock. *)

\* The badge loses its Save and Cancel to an apply, and only a page that
\* configures gets a badge back.
RefreshControls(p) ==
  [p EXCEPT !.badge = IF p.badge = "hidden" THEN "hidden"
                      ELSE IF p.inFlight THEN "idle-disabled"
                      ELSE IF p.state = "CONFIGURING" /\ p.selected # {} THEN "idle"
                      ELSE p.badge]

\* storeManualApplyState without a patch: what is there is kept.
Store(p, count) ==
  IF p.stored.phase # "none" \/ count = 0 THEN p
  ELSE [p EXCEPT !.stored = [phase |-> "applying", total |-> count, done |-> 0]]

StorePhase(p, count, phase) ==
  LET kept == Store(p, count)
  IN IF kept.stored.phase = "none" THEN kept ELSE [kept EXCEPT !.stored.phase = phase]

ResetProgress(p, count) ==
  IF count = 0 THEN p
  ELSE [p EXCEPT !.stored = [phase |-> "applying", total |-> count, done |-> 0]]

StartLoading(p, count) ==
  LET n    == IF count = 0 THEN p.dock.count ELSE count
      kept == Store(p, n)
  IN RefreshControls([kept EXCEPT !.inFlight = TRUE, !.dock.pill = FALSE, !.dock.trash = FALSE,
                                  !.dock.trashShown = TRUE, !.dock.asks = FALSE])

StopLoadingResumable(p) ==   \* mutant: what a reload resumes is kept
  RefreshControls([p EXCEPT !.inFlight = FALSE, !.dock.pill = TRUE, !.dock.trash = TRUE])

StopLoading(p) ==
  RefreshControls([p EXCEPT !.inFlight = FALSE, !.stored = NoStored,
                            !.dock.pill = TRUE, !.dock.trash = TRUE])

HideDock(p) ==
  RefreshControls([p EXCEPT !.inFlight = FALSE, !.stored = NoStored, !.dock = NoDock])

\* A page that has no lock takes one when sessionStorage says an apply runs.
UpdateCounter(p, count) ==
  IF count = 0 THEN HideDock(p)
  ELSE LET shown == [p EXCEPT !.dock.count = count, !.dock.trashShown = TRUE]
       IN IF p.inFlight \/ p.stored.phase # "none" THEN StartLoading(shown, count) ELSE shown

ShowProgress(p, total) ==
  IF ~p.inFlight THEN p
  ELSE LET t    == IF total # 0 THEN total ELSE p.stored.total
           done == IF p.stored.done + 1 > t THEN t ELSE p.stored.done + 1
       IN StartLoading(
            [p EXCEPT !.stored = [phase |-> IF done < t THEN "applying" ELSE "verifying",
                                  total |-> t, done |-> done]], t - done)

ShowRepair(p) ==
  LET count == IF p.dock.count # 0 THEN p.dock.count ELSE p.stored.total
  IN IF count = 0 THEN p ELSE StartLoading(StorePhase(p, count, "repairing"), count)

ShowDecision(p, remaining) ==
  LET count == IF p.dock.count # 0 THEN p.dock.count ELSE remaining
      kept  == StorePhase(p, count, "repair-decision")
  IN RefreshControls([kept EXCEPT !.inFlight = FALSE, !.dock.pill = FALSE,
                                  !.dock.trashShown = FALSE, !.dock.asks = TRUE])

-----------------------------------------------------------------------------
(* The user in the page.  The lock leaves them typing, and Escape in a leaf. *)

Pick(e) ==
  /\ page.state = "PICKING" /\ ~page.inFlight
  /\ page' = [page EXCEPT !.state = "CONFIGURING", !.selected = e, !.badge = "idle"]
  /\ Unless("leaving", Waits({"stash"}))
  /\ UNCHANGED <<requests, asked, helper>>

ExitConfigure ==
  /\ page.state = "CONFIGURING" /\ ~page.inFlight
  /\ page' = ExitToPicking(page)
  /\ Unless("leaving", Waits({"stash"}))
  /\ UNCHANGED <<requests, asked, helper>>

\* The Edit badge: a leftover editor is put back, and a new one opened.
EnterEditing ==
  /\ page.badge = "idle" /\ ~page.inFlight
  /\ page' = [EnableEdit(HideBar([page EXCEPT !.state = "EDITING"])) EXCEPT !.badge = "editing"]
  /\ IF Waits({"stash"}) THEN Strikes("leaving") ELSE Unless("editing", Waits({"discard"}))
  /\ UNCHANGED <<requests, asked, helper>>

Type(l, t) ==
  /\ l \in page.rows /\ t # page.text[l]
  /\ page' = [page EXCEPT !.text[l] = t, !.drafts[l] = t]
  /\ Unless("typing", Waits({"stash"}))
  /\ UNCHANGED <<requests, asked, helper>>

EscapeLeaf(l) ==
  /\ l \in page.rows
  /\ page' = [page EXCEPT !.text[l] = page.original[l], !.drafts[l] = NoText]
  /\ Unless("typing", Waits({"stash"}))
  /\ UNCHANGED <<requests, asked, helper>>

Cancel ==
  /\ page.state = "EDITING" /\ ~page.inFlight
  /\ page' = CancelEditing(page)
  /\ Unless("leaving", Waits({"stash"}))
  /\ UNCHANGED <<requests, asked, helper>>

ClickOutside ==
  /\ page.state = "EDITING" /\ ~page.inFlight
  /\ page' = [DisableEdit(RestoreDrafts(page)) EXCEPT !.state = "PICKING", !.badge = "hidden"]
  /\ Unless("leaving", Waits({"stash"}))
  /\ UNCHANGED <<requests, asked, helper>>

Go ==
  /\ page.state = "CONFIGURING" /\ ~page.inFlight
  /\ page' = [page EXCEPT !.state = "GENERATING", !.badge = "hidden"]
  /\ Unless("leaving", Waits({"stash"}))
  /\ UNCHANGED <<requests, asked, helper>>

SessionEnds ==
  /\ page.state = "GENERATING"
  /\ page' = [HideBar(page) EXCEPT !.state = "PICKING", !.selected = {}, !.badge = "hidden"]
  /\ UNCHANGED <<requests, asked, helper, faults>>

Edited(l) == l \in page.rows /\ page.drafts[l] \notin {NoText, page.original[l]}
OpOf(l)   == [leaf |-> l, original |-> page.original[l], new |-> page.drafts[l]]

\* One text that cannot be saved keeps all of them from being sent, and a save
\* of nothing is a cancel.
Save ==
  LET edits == {l \in Leaves : Edited(l)}
  IN /\ page.badge = "editing" /\ ~page.inFlight
     /\ \A l \in edits : page.drafts[l] \notin Unusable
     /\ IF edits = {}
        THEN /\ page' = CancelEditing(page)
             /\ Unless("leaving", Waits({"stash"})) /\ UNCHANGED <<requests, asked>>
        ELSE /\ Asks("stash", SetToSeq({OpOf(l) : l \in edits}))
             /\ Unless("overlap", UserWaits) /\ UNCHANGED page
     /\ UNCHANGED helper

-----------------------------------------------------------------------------
(* The user at the dock. *)

\* What the user does at the dock, while something is under way or not, and while
\* they edit or not: at most one of the two is new.
AtDock ==
  IF UserWaits THEN page.state # "EDITING" /\ Strikes("overlap")
  ELSE Unless("editing", page.state = "EDITING")

Apply ==
  /\ page.dock.count > 0 /\ page.dock.pill /\ ~page.inFlight
  /\ page' = StartLoading(ResetProgress(page, page.dock.count), page.dock.count)
  /\ Asks("commit", <<>>) /\ AtDock
  /\ UNCHANGED helper

DiscardEdits ==
  /\ page.dock.count > 0 /\ page.dock.trashShown /\ page.dock.trash /\ ~page.inFlight
  /\ Asks("discard", <<>>) /\ AtDock
  /\ UNCHANGED <<page, helper>>

KeepFixing ==
  /\ page.dock.asks /\ page.dock.count + page.stored.total > 0
  /\ page' = ShowRepair(page)
  /\ Asks("repair", <<>>) /\ AtDock
  /\ UNCHANGED helper

Rollback ==
  /\ page.dock.asks
  /\ Asks("rollback", <<>>) /\ ~UserWaits /\ faults' = faults \cup {"rollback"}
  /\ UNCHANGED <<page, helper>>

-----------------------------------------------------------------------------
(* The helper, and the agent behind it. *)

Tells(type, count) ==
  /\ Len(events) < MaxEvents
  /\ events' = Append(events, [type |-> type, count |-> count])

\* The request is answered, or nobody is there to hear it.
Answers(i, kept) ==
  requests' = [requests EXCEPT ![i] =
    IF @.step = "deaf" THEN Free ELSE [@ EXCEPT !.step = "answered", !.count = Len(kept)]]
Refuses(i) ==
  requests' = [requests EXCEPT ![i] = IF @.step = "deaf" THEN Free ELSE [@ EXCEPT !.step = "failed"]]

Taken(i, kind) == requests[i].kind = kind /\ requests[i].step \in {"sent", "deaf"}

TakeStash(i) ==
  LET kept == staged \o requests[i].ops
  IN /\ Taken(i, "stash") /\ Len(kept) <= MaxStaged
     /\ staged' = kept /\ Tells("stashed", Len(kept)) /\ Answers(i, kept)
     /\ faults' = faults \cup (IF job.step = "decision" THEN {"deciding"} ELSE {})
     /\ UNCHANGED <<job, source>>

TakeCount(i) ==
  /\ Taken(i, "count") /\ Answers(i, staged)
  /\ UNCHANGED helper

Start ==
  /\ job' = [step |-> "applying", size |-> Len(staged), todo |-> Len(staged), before |-> source]
  /\ Tells("started", Len(staged))
  /\ UNCHANGED <<staged, source>>

TakeCommit(i) ==
  /\ Taken(i, "commit")
  /\ IF job.step = "idle" /\ staged # <<>> THEN Answers(i, staged) /\ Start
     ELSE Refuses(i) /\ UNCHANGED helper

TakeRepair(i) ==
  /\ Taken(i, "repair")
  /\ IF job.step # "decision" THEN Refuses(i) /\ UNCHANGED helper
     ELSE /\ Answers(i, staged) /\ Tells("repairing", Len(staged))
          /\ job' = [job EXCEPT !.step = "repairing"] /\ UNCHANGED <<staged, source>>

TakeRollback(i) ==
  /\ Taken(i, "rollback")
  /\ IF job.step # "decision" THEN Refuses(i) /\ UNCHANGED helper
     ELSE /\ Answers(i, staged) /\ Tells("rolledBack", 0)
          /\ job' = [job EXCEPT !.step = "idle", !.size = 0, !.before = NoEdits]
          /\ source' = job.before /\ UNCHANGED staged

TakeDiscard(i) ==
  /\ Taken(i, "discard")
  /\ IF job.step # "idle" THEN Refuses(i) /\ UNCHANGED helper
     ELSE /\ staged' = <<>> /\ Tells("discarded", 0)
          /\ requests' = [requests EXCEPT ![i] = [@ EXCEPT !.step = "answered", !.ops = staged]]
          /\ UNCHANGED <<job, source>>

Take(i) ==
  /\ \/ TakeStash(i)
     \/ /\ TakeCount(i) \/ TakeCommit(i) \/ TakeRepair(i) \/ TakeRollback(i) \/ TakeDiscard(i)
        /\ UNCHANGED faults
  /\ UNCHANGED <<page, asked>>

\* A request that never reaches the helper, and one whose answer is lost.
Lose(i) ==
  /\ requests[i].kind # "free"
  /\ \/ requests[i].step = "sent" /\ Strikes("failure")
     \/ requests[i].step = "answered" /\ Strikes("unanswered")
  /\ requests' = [requests EXCEPT ![i].step = "failed"]
  /\ UNCHANGED <<page, asked, helper>>

NextOp == staged[job.size - job.todo + 1]

\* The agent applies the next edit.
ApplyNext ==
  /\ job.step = "applying" /\ job.todo > 0
  /\ source' = [source EXCEPT ![NextOp.leaf] = NextOp.new]
  /\ job' = [job EXCEPT !.todo = @ - 1]
  /\ Tells("chunk", job.size)
  /\ UNCHANGED <<page, requests, staged, faults, asked>>

Ended == [job EXCEPT !.step = "idle", !.size = 0, !.todo = 0, !.before = NoEdits]
After(n) == SubSeq(staged, n + 1, Len(staged))

\* The source holds what was to be applied; edits saved meanwhile stay.
Finish ==
  /\ \/ job.step = "repairing"
     \/ job.step = "applying" /\ job.todo = 0
  /\ staged' = After(job.size) /\ Tells("done", Len(After(job.size)))
  /\ job' = Ended
  /\ UNCHANGED <<page, requests, source, faults, asked>>

\* The last edit cannot be applied, and stays.
LeaveOut ==
  /\ job.step = "applying" /\ job.todo = 1 /\ Strikes("unapplied")
  /\ staged' = After(job.size - 1) /\ Tells("done", Len(After(job.size - 1)))
  /\ job' = Ended
  /\ UNCHANGED <<page, requests, source, asked>>

GiveUp ==
  /\ job.step = "applying" /\ job.todo = job.size /\ Strikes("abandoned")
  /\ Tells("failed", 0) /\ job' = Ended
  /\ UNCHANGED <<page, requests, staged, source, asked>>

\* The source does not pass its validation: the agent repairs it, or gives the
\* user the choice.
NeedsRepair ==
  /\ job.step = "applying" /\ job.todo = 0 /\ Strikes("unrepaired")
  /\ Tells("repair", 0) /\ job' = [job EXCEPT !.step = "repairing"]
  /\ UNCHANGED <<page, requests, staged, source, asked>>

NeedsDecision ==
  /\ job.step = "repairing" /\ "unrepaired" \in faults
  /\ Tells("decision", Len(staged)) /\ job' = [job EXCEPT !.step = "decision"]
  /\ UNCHANGED <<page, requests, staged, source, faults, asked>>

\* Another tab of the page presses Apply.
OtherTabApplies ==
  /\ job.step = "idle" /\ staged # <<>> /\ Strikes("tab") /\ Start
  /\ UNCHANGED <<page, requests, asked>>

-----------------------------------------------------------------------------
(* What the page makes of answers and events. *)

Done(i) == requests' = [requests EXCEPT ![i] = Free]

\* Whatever the user did since, the page returns to configuring.
StashAnswered(i) ==
  /\ requests[i].kind = "stash"
  /\ page' = IF requests[i].step = "failed" THEN page
             ELSE [DisableEdit(UpdateCounter(page, requests[i].count))
                     EXCEPT !.state = "CONFIGURING", !.badge = "idle"]

\* Nothing tells an answer the helper has since changed from a new one.
Outdated(i) ==
  /\ requests[i].kind \in {"stash", "count", "rollback", "repair"}
  /\ requests[i].step = "answered"
  /\ requests[i].count # Len(staged) \/ page.dock.asks

CountAnswered(i) ==
  /\ requests[i].kind = "count"
  /\ page' = IF requests[i].step = "failed" THEN page ELSE UpdateCounter(page, requests[i].count)

CommitFailsLocked(i) ==   \* mutant: a failed commit does not unlock
  /\ requests[i].kind = "commit"
  /\ UNCHANGED page

\* "started" leaves the rest to the stream; a failure opens the dock again.
CommitAnswered(i) ==
  /\ requests[i].kind = "commit"
  /\ page' = IF requests[i].step = "answered" THEN page
             ELSE IF page.dock.count > 0 THEN StopLoading(page) ELSE HideDock(page)

RepairAnswered(i) ==
  /\ requests[i].kind = "repair"
  /\ page' = IF requests[i].step = "answered"
             THEN [page EXCEPT !.dock.asks = FALSE, !.dock.trashShown = TRUE]
             ELSE ShowDecision(page, page.dock.count)

RollbackAnswered(i) ==
  /\ requests[i].kind = "rollback"
  /\ page' = IF requests[i].step = "failed" THEN page
             ELSE UpdateCounter([page EXCEPT !.stored = NoStored], requests[i].count)

DiscardAnswered(i) ==
  /\ requests[i].kind = "discard"
  /\ page' = IF requests[i].step = "failed" THEN page
             ELSE UpdateCounter(RestoreDiscarded(page, requests[i].ops), 0)

Answered(i) ==
  /\ requests[i].step \in {"answered", "failed"}
  /\ StashAnswered(i) \/ CountAnswered(i) \/ CommitAnswered(i) \/ RepairAnswered(i)
     \/ RollbackAnswered(i) \/ DiscardAnswered(i)
  /\ faults' = faults \cup (IF Outdated(i) THEN {"stale"} ELSE {})
  /\ Done(i) /\ UNCHANGED <<asked, helper>>

CommitDoneCounted(p, remaining) ==   \* mutant: the flag is not cleared before the counter
  UpdateCounter(p, remaining)

\* The flag is cleared before the counter: the counter takes it up again as long
\* as it is set.
CommitDone(p, remaining) == UpdateCounter(StopLoading(p), remaining)

Shows(e) ==
  CASE e.type = "stashed"    -> UpdateCounter(page, e.count)
    [] e.type = "started"    ->
         StartLoading(ResetProgress(UpdateCounter(page, e.count), e.count), e.count)
    [] e.type = "repairing"  -> StartLoading(ShowRepair(UpdateCounter(page, e.count)), e.count)
    [] e.type = "chunk"      -> ShowProgress(page, e.count)
    [] e.type = "repair"     -> ShowRepair(page)
    [] e.type = "decision"   -> ShowDecision(page, e.count)
    [] e.type = "rolledBack" -> [page EXCEPT !.stored = NoStored]
    [] e.type = "done"       -> CommitDone(page, e.count)
    [] e.type = "failed"     -> StopLoading(page)
    [] e.type = "discarded"  -> page

Hear ==
  /\ events # <<>>
  /\ page' = Shows(Head(events))
  /\ IF Head(events).type \in {"rolledBack", "failed", "discarded"}
     THEN Sends("count", <<>>) ELSE UNCHANGED requests
  /\ events' = Tail(events)
  /\ UNCHANGED <<staged, job, source, asked, faults>>

\* The stream breaks, and what it held is not sent again.
StreamBreaks ==
  /\ events # <<>> /\ Strikes("lost")
  /\ events' = <<>>
  /\ UNCHANGED <<page, requests, staged, job, source, asked>>

\* Only a commit outlives its page; the new one asks for the count.
Reload ==
  LET survives(i) == requests[i].kind \in {"commit", "repair"} /\ requests[i].step \in {"sent", "deaf"}
      slot == CHOOSE i \in Slots : ~survives(i)
  IN /\ \E i \in Slots : ~survives(i)
     /\ Strikes("reload")
     /\ page' = Fresh(source, page.stored)
     /\ requests' = [i \in Slots |-> IF survives(i) THEN [requests[i] EXCEPT !.step = "deaf"]
                                     ELSE IF i = slot THEN Sent("count", <<>>) ELSE Free]
     /\ events' = <<>>
     /\ UNCHANGED <<staged, job, source, asked>>

Next ==
  \/ \E e \in Elements : Pick(e)
  \/ \E l \in Leaves : EscapeLeaf(l) \/ \E t \in Text : Type(l, t)
  \/ ExitConfigure \/ EnterEditing \/ Cancel \/ ClickOutside \/ Go \/ SessionEnds \/ Save
  \/ Apply \/ DiscardEdits \/ KeepFixing \/ Rollback
  \/ \E i \in Slots : Take(i) \/ Lose(i) \/ Answered(i)
  \/ ApplyNext \/ Finish \/ LeaveOut \/ GiveUp \/ NeedsRepair \/ NeedsDecision \/ OtherTabApplies
  \/ Hear \/ StreamBreaks \/ Reload

Spec == Init /\ [][Next]_vars

\* Requests are taken and answered, the stream delivers, and the agent comes to
\* an end.  Nobody has to click.
FairSpec ==
  /\ Spec
  /\ WF_vars(Hear) /\ WF_vars(ApplyNext) /\ WF_vars(Finish \/ NeedsDecision)
  /\ \A i \in Slots : WF_vars(Take(i)) /\ WF_vars(Answered(i))

-----------------------------------------------------------------------------
(* Properties. *)

Met(kinds) == kinds \cap faults # {}
Quiet == events = <<>> /\ \A i \in Slots : requests[i].kind = "free"
Running == job.step \in {"applying", "repairing"}

Staging(l, t) ==
  \/ \E k \in DOMAIN staged : staged[k].leaf = l /\ staged[k].new = t
  \/ \E i \in Slots : \E k \in DOMAIN requests[i].ops :
       requests[i].ops[k].leaf = l /\ requests[i].ops[k].new = t

\* A text of the page that the source does not have is being edited, or is saved
\* or on its way: cancelling, leaving, discarding and applying leave no text
\* behind that looks saved and is not.  Where a discard cannot restore one, the
\* user has been told.
NoStrayText ==
  \A l \in Leaves :
    \/ page.text[l] = source[l]
    \/ page.drafts[l] = page.text[l]
    \/ Staging(l, page.text[l])
    \/ page.told
    \/ Met({"typing", "leaving", "editing", "overlap", "reload", "unanswered"})

\* Once nothing is under way between page and helper, an apply that runs has the
\* page locked, unless another tab began it or the user asked for two things at
\* once; and a locked page has an apply that runs, however late a count or another
\* answer comes.  Only once the agent has left the decision to the user may the lock
\* outlive the apply: by an edit saved before it (4111; the comment at 4338 means to
\* prevent it), by a rollback, or by a tab or a second request.
LockAgrees ==
  Quiet /\ ~Met({"lost", "reload", "unanswered"}) =>
    /\ Running => page.inFlight \/ Met({"tab", "overlap"})
    /\ page.inFlight => \/ Running
                        \/ Met({"rollback", "deciding"})
                        \/ Met({"unrepaired"}) /\ Met({"tab", "overlap"})

\* Once nothing is under way, saved edits are counted in the dock, and with no
\* apply about them the user can apply or discard them.  Not so when the answer to
\* a repair was lost: the page asks for a decision again, whatever came of it.
EditsStayUsable ==
  (/\ Quiet /\ staged # <<>> /\ job.step = "idle"
   /\ ~Met({"lost", "reload", "overlap", "rollback", "deciding", "stale"})
   /\ ~({"unanswered", "unrepaired"} \subseteq faults))
  => /\ page.dock.count = Len(staged)
     /\ page.dock.pill /\ page.dock.trashShown /\ page.dock.trash

\* The lock an apply puts on the page comes off, also when edits stay behind.
ApplyUnlocks == page.inFlight ~> ~page.inFlight \/ Met({"lost", "reload", "unanswered", "deciding", "stale"})
=============================================================================
