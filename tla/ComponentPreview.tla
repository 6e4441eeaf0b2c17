-------------------------- MODULE ComponentPreview --------------------------
(***************************************************************************)
(* The mounted previews of live mode: variants that are compiled Svelte or *)
(* Vue components, imported from the dev server and mounted in place of    *)
(* the picked element (.skills/impeccable/scripts/live-browser.js).        *)
(*                                                                         *)
(* Reading the manifest, importing a variant and explaining a failure are  *)
(* awaited, and so is the variant the user turns to: what a function does  *)
(* up to its next await is one step here, and several run side by side.    *)
(* LiveSession has the life of a session; of it only what previews touch   *)
(* is here.  An element is picked and sent off in one step, an unmount     *)
(* resolves at once (it plays no outro), and the wrapper, once put in the  *)
(* page, stays until the overlay removes it.                               *)
(***************************************************************************)
EXTENDS Naturals, FiniteSets

CONSTANTS
  MaxSessions,    \* bound on the sessions a run starts
  Count,          \* variants a session asks for
  MaxTasks,       \* bound on the manifests read at the same time
  MaxAccepts,     \* bound on the accepts waiting or under way at the same time
  MaxFaults       \* bound on the kinds of trouble below a run meets

ASSUME BoundsAssumption ==
  /\ MaxSessions \in Nat \ {0} /\ Count \in Nat \ {0} /\ MaxTasks \in Nat \ {0}
  /\ MaxAccepts \in Nat \ {0}
  /\ MaxFaults \in Nat

\* Each may happen once: a read, an import or a mount fails, and another one
\* does; the page is reloaded; the picked element leaves the page with another
\* route; the agent publishes what it has published; the user waves a card
\* away, or turns to a variant while another is being mounted; a session is
\* ended, or gone on with, while something else of it is under way.
Fault == {"failure", "again", "reload", "route", "republish", "dismissed", "overlap", "late"}

Sessions  == 1..MaxSessions
NoSession == 0
Maybe     == Sessions \cup {NoSession}
Slots     == 1..MaxTasks
Presses   == 1..MaxAccepts

VARIABLES
  page,       \* the overlay; see Page
  published,  \* variants the agent has published of each session
  news,       \* sessions whose publication the page has yet to hear of
  over,       \* sessions the helper has taken an accept or a discard of
  anchor,     \* whether the picked element is in the page
  started,
  faults      \* the trouble there has been
vars == <<page, published, news, over, anchor, started, faults>>

\* Where an injectSvelteComponentsFromManifest is: reading the manifest of
\* "file", reading the parameters, mounting "variant" for the first time or
\* again, or explaining why that failed.  "own" tells whether the preview it
\* mounts into is still the page's.
Task == [step : {"idle", "manifest", "params", "mount", "explain"}, file : Maybe, id : Maybe,
         first : BOOLEAN, variant : 0..Count, own : BOOLEAN]
Idle == [step |-> "idle", file |-> NoSession, id |-> NoSession,
         first |-> FALSE, variant |-> 0, own |-> FALSE]

\* The variant the user turned to (selectVariant): mounting it, explaining why
\* that failed, or mounting the previous one again.
Selection == [step : {"idle", "mount", "explain"}, back : BOOLEAN, id : Maybe,
              variant : 0..Count, previous : 0..Count, own : BOOLEAN]
NoSelection == [step |-> "idle", back |-> FALSE, id |-> NoSession,
                variant |-> 0, previous |-> 0, own |-> FALSE]

Card   == [id : Maybe, variant : 0..Count, file : Maybe]
NoCard == [id |-> NoSession, variant |-> 0, file |-> NoSession]

\* An accept or a discard on its way to the helper: the press it comes from and
\* the variant it names are an accept's, and zero in a discard.
Question == [type : {"accept", "discard"}, id : Sessions, variant : 0..Count, n : 0..MaxAccepts]

\* What localStorage keeps of the page's session, for a reload.
State   == {"PICKING", "GENERATING", "CYCLING", "SAVING"}
Tune    == {"idle", "pending", "loading", "settled"}
Saved   == [id : Maybe, state : State, arrived : 0..Count, visible : 0..Count, file : Maybe,
            tune : Tune]
NoSaved == [id |-> NoSession, state |-> "PICKING", arrived |-> 0, visible |-> 0,
            file |-> NoSession, tune |-> "idle"]

\* preview is svelteComponentSession: whose it is, the variant it says is
\* mounted, and the one that is in the page.  waiting is the session whose
\* retry observer looks for the picked element; waits, the presses of Accept that
\* await the variant being turned to.
Preview   == [id : Maybe, mounted : 0..Count, shown : 0..Count]
NoPreview == [id |-> NoSession, mounted |-> 0, shown |-> 0]

Page == [state : State, current : Maybe, arrived : 0..Count, visible : 0..Count, file : Maybe,
         tune : Tune,
         preview : Preview, waiting : Maybe, card : Card, hasCard : BOOLEAN,
         bar : BOOLEAN, pending : Maybe, accepted : 0..Count, committed : 0..Count,
         saved : Saved, handled : SUBSET Sessions,
         waits : SUBSET Presses, asked : SUBSET Question,
         tasks : [Slots -> Task], selection : Selection]

TypeOK ==
  /\ page \in Page
  /\ published \in [Sessions -> 0..Count] /\ news \subseteq Sessions /\ over \subseteq Sessions
  /\ anchor \in BOOLEAN
  /\ started \in 0..MaxSessions /\ faults \subseteq Fault

Fresh(saved, handled) ==
  [state |-> "PICKING", current |-> NoSession, arrived |-> 0, visible |-> 0,
   file |-> NoSession, tune |-> "idle", preview |-> NoPreview, waiting |-> NoSession,
   card |-> NoCard, hasCard |-> FALSE, bar |-> FALSE, pending |-> NoSession,
   accepted |-> 0, committed |-> 0, saved |-> saved, handled |-> handled,
   waits |-> {}, asked |-> {},
   tasks |-> [i \in Slots |-> Idle], selection |-> NoSelection]

Init ==
  /\ page = Fresh(NoSaved, {})
  /\ published = [s \in Sessions |-> 0] /\ news = {} /\ over = {}
  /\ anchor = TRUE /\ started = 0 /\ faults = {}

surroundings == <<published, news, over, anchor, started>>
world == <<surroundings, faults>>

Strikes(kind) ==
  /\ Cardinality(faults) < MaxFaults /\ kind \notin faults
  /\ faults' = faults \cup {kind}

\* A read, an import or a mount goes well, or this one fails.
Goes(ok) ==
  \/ ok /\ UNCHANGED faults
  \/ ~ok /\ Strikes(IF "failure" \in faults THEN "again" ELSE "failure")

-----------------------------------------------------------------------------
(* What the functions are made of. *)

SaveSession(w) ==
  IF w.current = NoSession THEN w
  ELSE [w EXCEPT !.saved = [id |-> w.current, state |-> w.state, arrived |-> w.arrived,
                            visible |-> w.visible, file |-> w.file, tune |-> w.tune]]
MarkHandled(w) ==
  IF w.current = NoSession THEN w ELSE [w EXCEPT !.handled = @ \cup {w.current}]

\* The preview is gone, or another takes its place: what is being mounted into
\* it has lost it.
Disowned(w) ==
  [w EXCEPT !.tasks = [i \in Slots |-> [@[i] EXCEPT !.own = FALSE]],
            !.selection.own = FALSE]
Teardown(w) == [Disowned(w) EXCEPT !.preview = NoPreview]

ShowCard(w, id, variant, file) ==
  [w EXCEPT !.hasCard = TRUE,
            !.card = [id |-> IF id = NoSession THEN w.current ELSE id, variant |-> variant,
                      file |-> IF file = NoSession THEN w.file ELSE file]]
ClearCard(w) == [w EXCEPT !.hasCard = FALSE, !.card = NoCard]

\* cleanup(): the session's preview goes, and so does everything else of it.
Cleanup(w) ==
  LET w1 == IF w.preview.id = w.current /\ w.current # NoSession THEN Teardown(w) ELSE w
  IN [ClearCard(w1) EXCEPT !.state = "PICKING", !.current = NoSession, !.file = NoSession,
        !.tune = "idle", !.saved = NoSaved, !.bar = FALSE]

\* resetSvelteComponentSession: also forgets which sessions were handled.
Reset(w) ==
  [Cleanup(w) EXCEPT !.arrived = 0, !.visible = 0, !.waiting = NoSession, !.handled = {}]

\* showOrUpdateCyclingBar: an empty comparison is not shown but ended.
ShowCycling(w) ==
  IF w.arrived > 0
  THEN [w EXCEPT !.bar = TRUE, !.visible = IF @ \in 1..w.arrived THEN @ ELSE 1]
  ELSE IF w.preview.id = w.current /\ w.current # NoSession THEN Reset(w) ELSE Cleanup(w)

\* completeParameterGenerationIfReady.
SettleTune(w) ==
  IF w.arrived = Count /\ w.tune \in {"pending", "loading"}
  THEN SaveSession([w EXCEPT !.tune = "settled"]) ELSE w

\* Of n variants the one the page shows, the one it showed before, or the first.
Visible(w, id, n) ==
  IF w.visible \in 1..n THEN w.visible
  ELSE IF w.saved.id = id /\ w.saved.visible \in 1..n THEN w.saved.visible ELSE 1

\* abortSvelteComponentInjection keeps the session for Retry and republishing.
Abort(w, id) ==
  LET w1 == IF w.preview.id = id THEN Teardown(w) ELSE w
  IN SaveSession([w1 EXCEPT !.waiting = NoSession, !.bar = FALSE])

-----------------------------------------------------------------------------
(* Injection. *)

Inject(w, i, file, id) ==
  [w EXCEPT !.tasks[i] = [Idle EXCEPT !.step = "manifest", !.file = file, !.id = id]]
Free(w) == {i \in Slots : w.tasks[i].step = "idle" /\ \A k \in 1..(i - 1) : w.tasks[k].step # "idle"}
Done(w, i) == [w EXCEPT !.tasks[i] = Idle]

ManifestReadSilently(i) ==   \* mutant: a read that fails is not explained
  LET t == page.tasks[i] IN
  /\ t.step = "manifest"
  /\ \E ok \in BOOLEAN :
       /\ Goes(ok)
       /\ page' =
            IF ~ok THEN Abort(Done(page, i), t.id)
            ELSE IF t.file # t.id THEN ShowCard(Done(page, i), t.id, page.visible, t.file)
            ELSE [page EXCEPT !.tasks[i].step = "params", !.tasks[i].variant = published[t.id]]
  /\ UNCHANGED surroundings

\* The manifest comes, or cannot be read; one that names another session is
\* reported and left.
ManifestRead(i) ==
  LET t == page.tasks[i] IN
  /\ t.step = "manifest"
  /\ \E ok \in BOOLEAN :
       /\ Goes(ok)
       /\ page' =
            IF ~ok THEN ShowCard(Abort(Done(page, i), t.id), t.id, page.visible, t.file)
            ELSE IF t.file # t.id THEN ShowCard(Done(page, i), t.id, page.visible, t.file)
            ELSE [page EXCEPT !.tasks[i].step = "params", !.tasks[i].variant = published[t.id]]
  /\ UNCHANGED surroundings

\* With the parameters read, the preview is built or brought up to date, and its
\* visible variant mounted; without the picked element the page waits for it.
ParamsRead(i) ==
  LET t == page.tasks[i]
      n == IF t.variant = 0 THEN 1 ELSE t.variant
      w == [page EXCEPT !.current = t.id, !.file = t.file,
                        !.state = IF @ = "CYCLING" THEN @ ELSE "GENERATING",
                        !.arrived = n, !.visible = Visible(page, t.id, n)]
      mount(v, first) ==
        [v EXCEPT !.waiting = IF first THEN NoSession ELSE @,
                  !.tasks[i] = [@ EXCEPT !.step = "mount", !.first = first,
                                         !.variant = w.visible, !.own = TRUE]]
  IN
  /\ t.step = "params"
  /\ page' =
       IF w.preview.id = t.id THEN mount(w, FALSE)
       ELSE IF ~anchor
         THEN SaveSession([Done(w, i) EXCEPT !.state = "GENERATING", !.bar = TRUE, !.waiting = t.id])
       ELSE mount([Disowned(w) EXCEPT !.preview = [NoPreview EXCEPT !.id = t.id]], TRUE)
  /\ UNCHANGED world

MountedUncounted(w, id, own, n) ==   \* mutant: mountedVariant keeps the first one
  LET w1 == [w EXCEPT !.preview.mounted = IF @ = 0 THEN n ELSE @,
                     !.preview.shown = IF own THEN n ELSE 0]
  IN IF w.hasCard /\ w.card.id = id /\ w.card.variant = n THEN ClearCard(w1) ELSE w1

\* What the import, and the mount after it, leave.  A preview that went in the
\* meantime makes the mount fail; in another's place, the variant goes into a
\* target that is no longer in the page, and the other takes it for its own.
Mounts(w, own) == own \/ w.preview.id # NoSession
Mounted(w, id, own, n) ==
  LET w1 == [w EXCEPT !.preview.mounted = n, !.preview.shown = IF own THEN n ELSE 0]
  IN IF w.hasCard /\ w.card.id = id /\ w.card.variant = n THEN ClearCard(w1) ELSE w1

\* A component that throws is already without its predecessor.
Thrown(w, threw) == IF threw /\ w.preview.id # NoSession THEN [w EXCEPT !.preview.shown = 0] ELSE w

\* The comparison is open.
Opened(w) == SettleTune(SaveSession(ShowCycling([w EXCEPT !.state = "CYCLING"])))

TaskMounts(i) ==
  LET t == page.tasks[i] IN
  /\ t.step = "mount"
  /\ \/ /\ Mounts(page, t.own) /\ UNCHANGED faults
        /\ page' = Opened(Done(Mounted(page, t.id, t.own, t.variant), i))
     \/ \E threw \in BOOLEAN :
          /\ Goes(~Mounts(page, t.own))
          /\ page' = [Thrown(page, threw) EXCEPT !.tasks[i].step = "explain"]
  /\ UNCHANGED surroundings

TaskExplainsNothing(i) ==   \* mutant: a failed mount ends in a bare return
  LET t == page.tasks[i]
      w == Done(page, i)
  IN
  /\ t.step = "explain"
  /\ page' = w
  /\ UNCHANGED world

\* A first mount that failed takes the preview down; one that failed again
\* leaves what there is.
TaskExplains(i) ==
  LET t == page.tasks[i]
      w == ShowCard(Done(page, i), t.id, t.variant, NoSession)
  IN
  /\ t.step = "explain"
  /\ page' = IF t.first THEN Abort(w, t.id) ELSE SaveSession(w)
  /\ UNCHANGED world

\* The retry observer sees the picked element again.
AnchorFound ==
  /\ page.waiting # NoSession
  /\ \/ /\ page.preview.id = page.waiting
        /\ page' = [page EXCEPT !.waiting = NoSession]
     \/ /\ page.preview.id # page.waiting /\ anchor
        /\ \E i \in Free(page) :
             page' = Inject([page EXCEPT !.waiting = NoSession], i, page.waiting, page.waiting)
  /\ UNCHANGED world

-----------------------------------------------------------------------------
(* The user. *)

Injecting(w) == {w.tasks[i].id : i \in Slots} \ {NoSession}
Selecting(w) == {w.selection.id} \ {NoSession}
Overlaps(busy) == IF busy = {} THEN UNCHANGED faults ELSE Strikes("overlap")

\* A session is ended, or carried on, while something else of it is under way, or
\* once the page compares nothing any more.  Another press of Accept that awaited
\* the same selection is no trouble.
Disturbed(id) ==
  \/ page.state \notin {"CYCLING", "SAVING"}
  \/ id \in Injecting(page) \cup Selecting(page) \cup {page.waiting} \cup news
  \/ id \in over /\ page.pending # id
Ends(id) == IF Disturbed(id) THEN Strikes("late") ELSE UNCHANGED faults

Go ==
  /\ page.state = "PICKING" /\ started < MaxSessions /\ anchor
  /\ started' = started + 1
  /\ page' = SaveSession([ClearCard(page) EXCEPT !.pending = NoSession, !.current = started + 1,
                !.arrived = 0, !.visible = 0, !.tune = "pending", !.file = NoSession,
                !.state = "GENERATING", !.bar = TRUE])
  /\ UNCHANGED <<published, news, over, anchor>>
  /\ IF /\ Injecting(page) \cup Selecting(page) \cup ({page.waiting} \ {NoSession}) = {}
        /\ page.asked = {}
     THEN UNCHANGED faults ELSE Strikes("late")

\* Without the preview of this session there is only its wrapper to switch.
Turn(w, n, previous, back) ==
  IF w.preview.id = w.current /\ w.current # NoSession
  THEN [w EXCEPT !.visible = n, !.selection =
          [step |-> "mount", back |-> back, id |-> w.preview.id, variant |-> n,
           previous |-> previous, own |-> TRUE]]
  ELSE [w EXCEPT !.visible = previous, !.selection = NoSelection]

SelectVariant ==
  /\ page.state = "CYCLING" /\ page.bar /\ page.selection.step = "idle"
  /\ \E n \in (1..page.arrived) \ {page.visible} :
       page' = Turn(SaveSession(ShowCycling(page)), n, page.visible, FALSE)
  /\ IF page.current \in over THEN Strikes("late") ELSE Overlaps(Injecting(page))
  /\ UNCHANGED surroundings

Selected(w) == SaveSession(ShowCycling([w EXCEPT !.selection = NoSelection]))

SelectionMounts ==
  LET t == page.selection IN
  /\ t.step = "mount"
  /\ \/ /\ Mounts(page, t.own) /\ UNCHANGED faults
        /\ page' = Selected(Mounted(page, t.id, t.own, t.variant))
     \/ \E threw \in BOOLEAN :
          /\ Goes(~Mounts(page, t.own))
          /\ page' = [Thrown(page, threw) EXCEPT !.selection.step = "explain"]
  /\ UNCHANGED surroundings

\* A variant that does not mount is given up for the previous one.
SelectionExplains ==
  LET t == page.selection
      w == ShowCard(page, t.id, t.variant, NoSession)
      back == Turn(w, t.previous, t.previous, TRUE)
  IN
  /\ t.step = "explain"
  /\ page' = IF t.back \/ back.selection.step = "idle" THEN Selected([w EXCEPT !.visible = t.previous])
             ELSE back
  /\ UNCHANGED world

FreePress(w) ==
  {n \in Presses : \A k \in 1..n : (k \in w.waits \/ \E q \in w.asked : q.n = k) <=> k # n}

NamedByCounter(w) == w.visible   \* mutant: what is mounted is not asked

\* An accept names what is mounted.
Named(w) ==
  IF w.preview.id = w.current /\ w.preview.mounted > 0 THEN w.preview.mounted ELSE w.visible

Accepted(w, n) ==
  LET v == Named(w)
  IN SaveSession([w EXCEPT !.state = "SAVING", !.pending = w.current, !.visible = v,
       !.accepted = v, !.committed = 0, !.waits = @ \ {n},
       !.asked = @ \cup {[type |-> "accept", id |-> w.current, variant |-> v, n |-> n]}])

\* The button asks whether an accept is under way, and then awaits a selection.
Accept ==
  /\ page.state = "CYCLING" /\ page.bar /\ page.pending = NoSession
  /\ \E n \in FreePress(page) :
       \/ /\ page.selection.step # "idle"
          /\ page' = [page EXCEPT !.waits = @ \cup {n}]
          /\ UNCHANGED world
       \/ /\ page.selection.step = "idle" /\ page.current # NoSession /\ page.arrived > 0
          /\ page' = Accepted(page, n)
          /\ over' = over \cup {page.current} /\ Ends(page.current)
          /\ UNCHANGED <<published, news, anchor, started>>

\* The selection has ended, and what awaited it goes on before anything else,
\* one press after another, and does not ask again: two presses during one
\* selection are two accepts.
Due == page.waits # {} /\ page.selection.step = "idle"
AcceptGoesOn ==
  /\ Due
  /\ \E n \in page.waits :
       \/ /\ page.current = NoSession \/ page.arrived = 0
          /\ page' = [page EXCEPT !.waits = @ \ {n}]
          /\ UNCHANGED world
       \/ /\ page.current # NoSession /\ page.arrived > 0
          /\ page' = Accepted(page, n)
          /\ over' = over \cup {page.current}
          /\ faults' = IF Disturbed(page.current) THEN faults \cup {"late"} ELSE faults
          /\ UNCHANGED <<published, news, anchor, started>>

\* The mounted variant is left in the page and the session released.
CommitACopy(w, id) ==   \* mutant: the preview stays behind the committed copy
  IF w.preview.id = id /\ w.preview.shown > 0
  THEN [w EXCEPT !.committed = w.preview.shown] ELSE w

Commit(w, id) ==
  IF w.preview.id = id /\ w.preview.shown > 0
  THEN [Disowned(w) EXCEPT !.preview = NoPreview, !.committed = w.preview.shown] ELSE w
Release(w) ==
  [w EXCEPT !.state = "PICKING", !.current = NoSession, !.saved = NoSaved, !.file = NoSession,
            !.pending = NoSession, !.tune = "idle", !.bar = FALSE]

\* The helper has not taken what failed, unless it has taken, or is asked, another.
Untaken(w, id) ==
  IF id \in w.handled \/ \E q \in w.asked : q.id = id THEN over ELSE over \ {id}

\* Whatever the page has gone on to, an accept that fails reopens it.
AcceptAnswered ==
  \E q \in page.asked :
    LET w == [page EXCEPT !.asked = @ \ {q}] IN
    /\ q.type = "accept"
    /\ \/ /\ page' = IF w.pending # q.id THEN w ELSE Release(Commit(MarkHandled(w), q.id))
          /\ UNCHANGED <<over, faults>>
       \/ /\ page' = ShowCycling([w EXCEPT !.pending = IF @ = q.id THEN NoSession ELSE @,
                                            !.state = "CYCLING"])
          /\ over' = Untaken(w, q.id)
          /\ IF q.id = page.current \/ "late" \in faults THEN Goes(FALSE) ELSE Strikes("late")
    /\ UNCHANGED <<published, news, anchor, started>>

NoDiscard(w) == \A q \in w.asked : q.type = "discard" => q.id # w.current
Discard ==
  /\ page.state = "CYCLING" /\ page.current # NoSession /\ NoDiscard(page)
  /\ page' = [page EXCEPT !.asked = @ \cup
                 {[type |-> "discard", id |-> page.current, variant |-> 0, n |-> 0]}]
  /\ over' = over \cup {page.current} /\ Ends(page.current)
  /\ UNCHANGED <<published, news, anchor, started>>

\* A discard that comes through ends whatever the page has gone on to.
DiscardAnswered ==
  \E q \in page.asked :
    LET w == [page EXCEPT !.asked = @ \ {q}] IN
    /\ q.type = "discard"
    /\ \/ page' = Cleanup(MarkHandled(w)) /\ UNCHANGED <<over, faults>>
       \/ page' = w /\ over' = Untaken(w, q.id) /\ Goes(FALSE)
    /\ UNCHANGED <<published, news, anchor, started>>

\* The card of a failed mount.
Retry ==
  /\ page.hasCard
  /\ LET id == IF page.card.id = NoSession THEN page.current ELSE page.card.id
         file == IF page.card.file = NoSession THEN page.file ELSE page.card.file
         w == ClearCard(page)
     IN IF id = NoSession \/ file = NoSession THEN page' = w
        ELSE \E i \in Free(page) :
               page' = Inject([w EXCEPT !.state = IF @ = "CYCLING" THEN @ ELSE "GENERATING"], i, file, id)
  /\ IF page.card.id \in over THEN Strikes("late")
     ELSE Overlaps(Injecting(page) \cup Selecting(page))
  /\ UNCHANGED surroundings

Dismiss ==
  /\ page.hasCard
  /\ Strikes("dismissed")
  /\ page' = [ClearCard(page) EXCEPT !.state = IF @ = "GENERATING" THEN "PICKING" ELSE @]
  /\ UNCHANGED surroundings

-----------------------------------------------------------------------------
(* The page's surroundings. *)

\* The agent publishes variants one by one, or again (a repair, parameters).
Publish(s) ==
  /\ s <= started /\ s \notin over /\ s \notin news
  /\ \E n \in 1..Count :
       /\ n >= published[s]
       /\ IF n > published[s] THEN UNCHANGED faults ELSE Strikes("republish")
       /\ published' = [published EXCEPT ![s] = n]
  /\ news' = news \cup {s}
  /\ UNCHANGED <<page, over, anchor, started>>

\* variant_progress and done: only news of the page's own session is taken up.
Hear(s) ==
  /\ s \in news /\ news' = news \ {s}
  /\ \/ /\ page.current = s
        /\ \E i \in Free(page), tune \in {page.tune, "loading"} :
             page' = Inject([page EXCEPT !.file = s, !.tune = tune], i, s, s)
        /\ Overlaps(Selecting(page))
     \/ page.current # s /\ UNCHANGED <<page, faults>>
  /\ UNCHANGED <<published, over, anchor, started>>

\* Another route hides the picked element; coming back shows it.
Move ==
  /\ \/ anchor /\ page.preview = NoPreview /\ Strikes("route")
     \/ ~anchor /\ UNCHANGED faults
  /\ anchor' = ~anchor
  /\ UNCHANGED <<page, published, news, over, started>>

\* The page's own record takes a comparison up again, and its manifest is read
\* once more; what the helper may offer instead is LiveSession's.
Reload ==
  /\ Strikes("reload")
  /\ LET w == Fresh(page.saved, page.handled)
         n == IF w.saved.arrived = 0 /\ w.saved.file # NoSession THEN Count ELSE w.saved.arrived
         restored == SaveSession([w EXCEPT !.current = w.saved.id, !.state = "GENERATING",
                       !.bar = TRUE, !.file = w.saved.file, !.tune = w.saved.tune, !.arrived = n,
                       !.visible = IF w.saved.visible \in 1..n THEN w.saved.visible
                                   ELSE IF n > 0 THEN 1 ELSE 0])
     IN page' = IF \/ w.saved.id \in w.handled \cup {NoSession}
                   \/ w.saved.state \notin {"GENERATING", "CYCLING"}
                THEN [w EXCEPT !.saved = NoSaved]
                ELSE IF w.saved.file = NoSession THEN restored
                ELSE Inject(restored, 1, w.saved.file, w.saved.id)
  /\ UNCHANGED surroundings

Next ==
  \/ AcceptGoesOn
  \/ /\ ~Due
     /\ \/ Go \/ SelectVariant \/ Accept \/ Discard \/ Retry \/ Dismiss
        \/ AcceptAnswered \/ DiscardAnswered \/ SelectionMounts \/ SelectionExplains \/ AnchorFound
        \/ Move \/ Reload
        \/ \E i \in Slots : ManifestRead(i) \/ ParamsRead(i) \/ TaskMounts(i) \/ TaskExplains(i)
        \/ \E s \in Sessions : Publish(s) \/ Hear(s)

Spec == Init /\ [][Next]_vars

\* A fetch, an import and a mutation observer come to an end, and the stream
\* delivers.  Nobody has to click.
FairSpec ==
  /\ Spec
  /\ WF_vars(AcceptGoesOn) /\ WF_vars(SelectionMounts) /\ WF_vars(SelectionExplains) /\ WF_vars(AnchorFound)
  /\ \A i \in Slots : /\ WF_vars(ManifestRead(i)) /\ WF_vars(ParamsRead(i))
                       /\ WF_vars(TaskMounts(i)) /\ WF_vars(TaskExplains(i))
  /\ \A s \in Sessions : WF_vars(Hear(s))

-----------------------------------------------------------------------------
(* Properties. *)

Met(kinds) == kinds \cap faults # {}
Quiet == Injecting(page) = {} /\ Selecting(page) = {}
Explained == page.hasCard \/ Met({"dismissed"})

\* Once nothing is being mounted, an open comparison shows the variant its
\* counter names, in a preview of its own session, or a card says why not.
\* Turning to a variant while the previous one is mounted again ("overlap")
\* breaks this: the slower mount has the last word, and the counter another.
ComparisonShown ==
  page.state = "CYCLING" /\ Quiet /\ ~Met({"late", "overlap"}) /\ ~Explained =>
    /\ page.preview.id = page.current /\ page.visible = page.preview.mounted
    /\ Met({"failure"}) \/ page.visible = page.preview.shown

\* A session whose bar is hidden leaves its user the card: whatever failed, and
\* in which order, there is something left to press.  A discard answered late ends
\* the session after it, and a Retry on the card that is left puts the page back in
\* a session it no longer has.
RecoveryOffered ==
  /\ page.state \in {"GENERATING", "CYCLING"} /\ Quiet /\ ~page.bar
  /\ page.current = NoSession => ~Met({"late"})
  => Explained

\* What an accept leaves in the page is the variant it named to the helper, also
\* when the counter said another; and the two accepts of a button pressed twice
\* during one selection, which the code both posts, name the same variant.
AcceptedIsCommitted ==
  ~Met({"late"}) =>
    /\ page.committed # 0 => page.committed = page.accepted
    /\ \A q \in page.asked : q.type = "accept" => q.variant = page.accepted

\* A preview does not outlive its session: the next Pick and Go start from a page
\* without it.
NothingLingers ==
  page.preview # NoPreview /\ ~Met({"late", "failure"}) => page.preview.id = page.current

\* A page that waits for variants the agent has published opens the comparison,
\* says what went wrong, or looks for the picked element.
PublishedIsShown ==
  LET excused == Met({"late", "reload"})
  IN page.state = "GENERATING" /\ page.current # NoSession /\ published[page.current] > 0
       ~> page.state # "GENERATING" \/ page.hasCard \/ page.waiting # NoSession \/ excused
=============================================================================
