----------------------------- MODULE LiveSession -----------------------------
(***************************************************************************)
(* One page of live mode (.skills/impeccable/scripts/live-browser.js): the *)
(* life of a variant session from Go to Accept or Discard, and what page   *)
(* loads, reconnects and the deferred recoveries do with it.               *)
(*                                                                         *)
(* The page posts to a helper and listens to its event stream; the helper  *)
(* passes sessions to an agent, which edits the page's source.  Neither is *)
(* in the repository: they are modelled from what the page sends, expects  *)
(* and handles, and marked external.                                       *)
(*                                                                         *)
(* A handler runs to its end, microtasks and the MutationObservers its     *)
(* changes wake included, before anything else does: each handler is an    *)
(* operator from one tab to the next, and an action applies a few of them. *)
(* Here all sessions replace one picked element of an HTML source, which   *)
(* stays on the page.  ComponentPreview has the mounted previews, and the  *)
(* choice among variants that have arrived.                                *)
(***************************************************************************)
EXTENDS Naturals, Sequences, FiniteSets

CONSTANTS
  MaxSessions,    \* bound on the sessions a run starts
  MaxAgain,       \* the same of a run that reloads its page again
  Count,          \* variants a session asks for (selectedCount)
  Rereads,        \* COMPLETED_SOURCE_FALLBACK_RETRIES
  HandledKept,    \* handled sessions the browser remembers (eight in the code)
  MaxFaults       \* bound on the kinds of trouble below a run meets

ASSUME BoundsAssumption ==
  /\ MaxSessions \in Nat \ {0} /\ MaxAgain \in Nat /\ Count \in Nat \ {0}
  /\ MaxFaults \in Nat /\ Rereads \in Nat /\ HandledKept \in Nat \ {0}

\* Each may happen once: the page is reloaded; a post, its answer or a read is
\* lost; the stream breaks, or never comes back; the agent fails; an answer, a
\* read or a generate is slower than the user's next Go or reload.  What comes with
\* one of them, or without any, is not counted: a page that was reloaded is
\* reloaded any number of times more ("again"), a stream is lost for good, another
\* session takes the page over before an accept or a discard of this one is answered
\* ("moved"), and a report of progress is sent while the annotations of its session's
\* Go are still captured ("early").
Fault == {"reload", "again", "post", "stream", "lost", "moved", "early", "agent", "late"}

Sessions  == 1..MaxSessions
NoSession == 0

\* What the markup has of a session: nothing, its wrapper with so many
\* variants, or the accepted variant among carbonize markers.
Clean     == Count + 1
Carbonize == Count + 2
Wrapped   == 0..Count
Markup    == Wrapped \cup {Clean, Carbonize}

State == {"IDLE", "PICKING", "CONFIGURING", "GENERATING", "CYCLING", "SAVING"}

VARIABLES
  tab,        \* the page and the browser's storage; see Tab
  source,     \* the page's source, as the agent leaves it
  journal,    \* the helper's record of each session
  stream,     \* the event stream: "closed", "open" or "lost" for good
  events,     \* what it still has to deliver
  started,
  faults      \* the trouble there has been
vars == <<tab, source, journal, stream, events, started, faults>>

\* A read of the source under way, or one that setTimeout will start.
TimerKind == {"fetch", "completed", "reread", "orphan"}
Timer == [kind : TimerKind, id : Sessions, completed : BOOLEAN, orphan : BOOLEAN, tries : 0..Rereads]
Read(kind, id, completed, orphan, tries) ==
  [kind |-> kind, id |-> id, completed |-> completed, orphan |-> orphan, tries |-> tries]

Saved   == [id : Sessions \cup {NoSession}, state : State, arrived : 0..Count, file : BOOLEAN]
NoSaved == [id |-> NoSession, state |-> "IDLE", arrived |-> 0, file |-> FALSE]

\* What is on its way to the helper; an "upload" is a generate whose annotations are
\* captured and uploaded first.  What is stray has nothing to do with this page's
\* gate: a generate that survived its page's reload, a checkpoint sent while the
\* gate was open.
Post   == [type : {"upload", "generate", "checkpoint"}, id : Sessions, stray : BOOLEAN]
\* What is on its way back, to the page that asked.
Answer == [type : {"accept", "discard", "checkpoint"}, id : Sessions, ok : BOOLEAN]
Event  == [type : {"done", "complete", "discarded", "error"}, id : Sessions]
Phase  == {"none", "generating", "ready", "accepting", "discarding", "closed"}

\* Memory, lost in a reload, then storage and markup.  handled is the list of the ids
\* given up last: an id's place in it from the end, 0 if it is not in it.
Tab == [state : State, current : Sessions \cup {NoSession}, arrived : 0..Count,
        file : BOOLEAN, pending : Sessions \cup {NoSession},
        awaiting : Sessions \cup {NoSession}, observer : Sessions \cup {NoSession},
        timers : SUBSET Timer, queued : BOOLEAN, deferred : BOOLEAN,
        posts : SUBSET Post, answers : SUBSET Answer,
        saved : Saved, handled : [Sessions -> 0..HandledKept],
        dom : [Sessions -> Markup]]

TypeOK ==
  /\ tab \in Tab
  /\ source \in [Sessions -> Markup]
  /\ journal \in [Sessions -> Phase]
  /\ stream \in {"closed", "open", "lost"}
  /\ events \in Seq(Event)
  /\ started \in 0..MaxSessions /\ faults \subseteq Fault

Blank(handled, saved, dom, posts) ==
  [state |-> "IDLE", current |-> NoSession, arrived |-> 0, file |-> FALSE,
   pending |-> NoSession, awaiting |-> NoSession, observer |-> NoSession,
   timers |-> {}, queued |-> FALSE, deferred |-> FALSE, posts |-> posts,
   answers |-> {}, saved |-> saved, handled |-> handled, dom |-> dom]

Init ==
  /\ tab = [Blank([s \in Sessions |-> 0], NoSaved, [s \in Sessions |-> Clean], {})
              EXCEPT !.state = "PICKING", !.deferred = TRUE]
  /\ source = [s \in Sessions |-> Clean]
  /\ journal = [s \in Sessions |-> "none"]
  /\ stream = "open" /\ events = <<>>
  /\ started = 0 /\ faults = {}

Strikes(kind) ==
  /\ Cardinality(faults) < MaxFaults /\ kind \notin faults
  /\ faults' = faults \cup {kind}

\* A reconnect, or markup that was put off, may make the page another session's.
MayMove ==
  faults' = IF /\ tab'.current \notin {tab.current, NoSession}
               /\ \E a \in tab.answers : a.type # "checkpoint"
            THEN faults \cup {"moved"} ELSE faults

-----------------------------------------------------------------------------
(* What handlers are made of. *)

BeginNewConfiguration(w) == [w EXCEPT !.state = "CONFIGURING"]

\* The ids of the list, and the list after one more, which is in it once.
Ids(handled) == {s \in Sessions : handled[s] # 0}
Latest(handled, id) ==
  [s \in Sessions |->
     LET unmoved == handled[s] = 0 \/ handled[id] \in 1..handled[s]
     IN IF s = id THEN 1
        ELSE IF unmoved THEN handled[s]
        ELSE IF handled[s] = HandledKept THEN 0 ELSE handled[s] + 1]

MarkHandled(w) ==
  IF w.current = NoSession THEN w ELSE [w EXCEPT !.handled = Latest(@, w.current)]

SaveSession(w) ==
  IF w.current = NoSession THEN w
  ELSE [w EXCEPT !.saved = [id |-> w.current, state |-> w.state,
                            arrived |-> w.arrived, file |-> w.file]]

\* The session ends here: storage forgets it and the page is free to pick.
Cleanup(w) ==
  [w EXCEPT !.state = "PICKING", !.current = NoSession, !.observer = NoSession,
            !.saved = NoSaved, !.file = FALSE]

\* An empty comparison is not shown: it ends the session (recoverEmptyCycling).
ShowCycling(w) == IF w.arrived = 0 THEN Cleanup(w) ELSE w

\* Progress is reported 120 ms later (Report).  What is reported of a session the
\* helper knows changes nothing here.
QueueCheckpoint(w) ==
  IF w.current = NoSession \/ journal[w.current] # "none" THEN w ELSE [w EXCEPT !.queued = TRUE]

Set(w, t)  == [w EXCEPT !.timers = @ \cup {t}]
Drop(w, t) == [w EXCEPT !.timers = @ \ {t}]
Fetch(w, id, completed, orphan, tries) == Set(w, Read("fetch", id, completed, orphan, tries))

-----------------------------------------------------------------------------
(* Taking a session up again. *)

\* The wrapper a sweep of the page finds: a populated one if there are several.
Wrappers(w)  == {s \in Sessions : w.dom[s] \in Wrapped}
Populated(w) == {s \in Wrappers(w) : w.dom[s] > 0}
Found(w) ==
  IF Wrappers(w) = {} THEN {NoSession}
  ELSE IF Cardinality(Wrappers(w)) > 1 /\ Populated(w) # {} THEN Populated(w) ELSE Wrappers(w)
Carbonizing(w) == {s \in Sessions : w.dom[s] = Carbonize}
\* The session of the first runtime wrapper, or NoSession.
Runtime(w) ==
  IF Wrappers(w) # {} THEN Found(w)
  ELSE IF Carbonizing(w) # {} THEN Carbonizing(w) ELSE {NoSession}

\* The helper's summary lists the sessions it has not finished.
Listed    == {s \in Sessions : journal[s] \notin {"none", "closed"}}
Adoptable(w) == {s \in Sessions : /\ journal[s] \in {"generating", "ready"}
                                  /\ s \notin Ids(w.handled) /\ source[s] # Clean}
\* The local record, or an adopted one when there is none.
Records(w, listed) ==
  IF w.saved.id # NoSession THEN {w.saved}
  ELSE IF ~listed \/ Adoptable(w) = {} THEN {NoSaved}
  ELSE {[id |-> s, state |-> "GENERATING", arrived |-> n, file |-> TRUE] :
          s \in Adoptable(w), n \in {0, Count}}

CanRestore(w, rec, listed) ==
  /\ rec.id # NoSession /\ rec.id \notin Ids(w.handled)
  /\ rec.state \in {"GENERATING", "CYCLING"}
  /\ listed /\ Listed # {} => journal[rec.id] \in {"generating", "ready"}

\* restoreSessionWithoutWrapper: always back to GENERATING; a known file is read.
Restore(w, rec, listed) ==
  LET file == rec.file \/ (listed /\ rec.id \in Listed /\ source[rec.id] # Clean)
      w1 == QueueCheckpoint(SaveSession([w EXCEPT !.current = rec.id, !.arrived = rec.arrived,
              !.file = file, !.state = "GENERATING", !.observer = rec.id]))
  IN IF file THEN Fetch(w1, rec.id, FALSE, rec.state = "CYCLING", 0) ELSE w1

\* resumeSession over the wrapper of x.
TakeUp(w, x) ==
  SaveSession([w EXCEPT !.current = x, !.arrived = w.dom[x], !.observer = x,
    !.file = IF w.saved.id = x THEN @ \/ w.saved.file ELSE @,
    !.state = IF w.dom[x] > 0 THEN "CYCLING" ELSE "GENERATING"])

Supersedes(w, x) ==
  x \in Ids(w.handled) /\ w.saved.id \notin {NoSession, x} /\ w.saved.id \notin Ids(w.handled)

ResumeAnyWrapper(w, x) ==   \* mutant: does not ask whether x was handled
  IF x # NoSession /\ w.dom[x] \in Wrapped THEN TakeUp(w, x)
  ELSE IF CanRestore(w, w.saved, FALSE) THEN Restore(w, w.saved, FALSE)
  ELSE [w EXCEPT !.saved = NoSaved]

\* x is the runtime wrapper the page finds.  One of a handled session is left
\* to the recovery LiveRecovery has.
Resume(w, x) ==
  IF x # NoSession /\ Supersedes(w, x) /\ w.current = w.saved.id THEN w
  ELSE IF x # NoSession /\ Supersedes(w, x) /\ CanRestore(w, w.saved, FALSE)
    THEN Restore(w, w.saved, FALSE)
  ELSE IF x # NoSession /\ x \in Ids(w.handled) THEN w
  ELSE IF x # NoSession /\ w.dom[x] \in Wrapped THEN TakeUp(w, x)
  ELSE IF CanRestore(w, w.saved, FALSE) THEN Restore(w, w.saved, FALSE)
  ELSE [w EXCEPT !.saved = NoSaved]

-----------------------------------------------------------------------------
(* What a change of the markup wakes: the deferred scout, then the          *)
(* session's variant observer.                                              *)

ScoutSees(w, x) ==
  IF ~w.deferred \/ x = NoSession THEN w ELSE Resume([w EXCEPT !.deferred = FALSE], x)

VariantsArrive(w) ==
  LET s == w.observer IN
  IF s = NoSession \/ w.dom[s] \notin Wrapped \/ w.dom[s] <= w.arrived THEN w
  ELSE SaveSession([w EXCEPT !.arrived = w.dom[s], !.state = "CYCLING"])

\* The tab whose markup of id has become m.
Render(w, id, m) == [w EXCEPT !.dom[id] = m]
Woken(w, x) == VariantsArrive(ScoutSees(w, x))

-----------------------------------------------------------------------------
(* A page load. *)

\* What of a session a load shows: the source, nothing until hydration, or
\* from a dev server behind the last edit what was there before.
Served(s) == {source[s], Clean, tab.dom[s]}

\* init: connect, resume, keep a scout unless a wrapper was there.
Load(dom, kind) ==
  LET w == Blank(tab.handled, tab.saved, dom,
             IF kind = "late" THEN {[p EXCEPT !.stray = TRUE] : p \in {q \in tab.posts : q.type = "generate"}} ELSE {})
  IN {LET r == Resume(w, x)
      IN [r EXCEPT !.state = IF @ = "IDLE" THEN "PICKING" ELSE @,
                   !.deferred = (r.current = NoSession \/ x = NoSession)] :
        x \in Runtime(w)}

\* The user reloads the page, or the dev server does.
Reload ==
  /\ \E dom \in [Sessions -> Markup], kind \in {"reload", "again", "late"} :
        /\ IF kind = "again"
           THEN /\ "reload" \in faults /\ faults' = faults \cup {"again"}
                /\ started <= MaxAgain
           ELSE Strikes(kind)
        /\ \A s \in Sessions : dom[s] \in Served(s)
        /\ tab' \in Load(dom, kind)
  /\ stream' = "closed" /\ events' = <<>>
  /\ UNCHANGED <<source, journal, started>>

-----------------------------------------------------------------------------
(* The user. *)

surroundings == <<source, stream, events, started>>
world == <<journal, surroundings, faults>>

Pick ==
  /\ tab.state = "PICKING" /\ started < MaxSessions
  /\ tab' = BeginNewConfiguration(tab) /\ UNCHANGED world

ExitConfigure ==
  tab.state = "CONFIGURING" /\ tab' = [tab EXCEPT !.state = "PICKING"] /\ UNCHANGED world

\* The helper takes an accept or a discard of a session it can still act on;
\* with faults the post, or only its answer, is lost.
Acts(s) == journal[s] \in {"generating", "ready"}
Ask(w, type, id, phase) ==
  \E ok \in BOOLEAN, reaches \in BOOLEAN :
    /\ journal' = IF reaches /\ Acts(id) THEN [journal EXCEPT ![id] = phase] ELSE journal
    /\ tab' = [w EXCEPT !.answers = @ \cup {[type |-> type, id |-> id, ok |-> ok]}]
    /\ \/ reaches /\ ok = Acts(id) /\ UNCHANGED faults
       \/ ~ok /\ (reaches => Acts(id)) /\ Strikes("post")

\* The generate is posted at once; one with annotations waits for their upload.  The
\* user takes longer to pick and to configure than the checkpoint timer runs.
Go ==
  /\ tab.state = "CONFIGURING" /\ ~tab.queued
  /\ started < MaxSessions /\ ("again" \in faults => started < MaxAgain)
  /\ \/ /\ \A a \in tab.answers : a.type = "checkpoint"
        /\ \A t \in tab.timers : t.kind # "fetch"
        /\ UNCHANGED faults
     \/ Strikes("late")
  /\ started' = started + 1
  /\ \E type \in {"generate", "upload"} :
     LET id == started + 1
     IN tab' = SaveSession([tab EXCEPT !.pending = NoSession, !.awaiting = NoSession,
                  !.current = id, !.arrived = 0, !.file = FALSE, !.state = "GENERATING",
                  !.observer = id, !.posts = @ \cup {[type |-> type, id |-> id, stray |-> FALSE]}])
  /\ UNCHANGED <<source, journal, stream, events>>

\* The capture and the upload end, well or not, and the generate is posted, whatever
\* the page has turned to.
Uploaded ==
  /\ \E p \in tab.posts :
       /\ p.type = "upload"
       /\ tab' = [tab EXCEPT !.posts = (@ \ {p}) \cup {[p EXCEPT !.type = "generate"]}]
  /\ UNCHANGED world

\* The bar of a comparison shows Accept.
Accept ==
  /\ tab.state = "CYCLING" /\ tab.pending = NoSession
  /\ tab.current # NoSession /\ tab.arrived > 0
  /\ Ask(SaveSession([tab EXCEPT !.state = "SAVING", !.pending = tab.current]),
         "accept", tab.current, "accepting")
  /\ UNCHANGED surroundings

Discard ==
  /\ tab.state = "CYCLING" /\ tab.current # NoSession
  /\ \A a \in tab.answers : a.type # "discard"   \* bound: one at a time
  /\ Ask(tab, "discard", tab.current, "discarding")
  /\ UNCHANGED surroundings

-----------------------------------------------------------------------------
(* Answers. *)

\* The accepted session is released at once (scheduleAcceptCleanup,
\* cleanupAcceptedSession); its markup is left to LiveRecovery.
Release(w) ==
  [w EXCEPT !.state = "PICKING", !.current = NoSession, !.observer = NoSession,
            !.saved = NoSaved, !.file = FALSE, !.pending = NoSession]

AcceptAnsweredStaysSaving(w, a) ==   \* mutant: a failed accept leaves the bar as it is
  IF a.ok THEN IF w.pending = a.id THEN Release([MarkHandled(w) EXCEPT !.awaiting = a.id]) ELSE w
  ELSE [w EXCEPT !.pending = IF @ = a.id THEN NoSession ELSE @]

AcceptAnswered(w, a) ==
  IF a.ok
  THEN IF w.pending = a.id THEN Release([MarkHandled(w) EXCEPT !.awaiting = a.id]) ELSE w
  ELSE ShowCycling([w EXCEPT !.state = "CYCLING",
                             !.pending = IF @ = a.id THEN NoSession ELSE @])

DiscardAnsweredAnyhow(w, a) == Cleanup(MarkHandled(w))   \* mutant: ignores a failure

DiscardAnswered(w, a) == IF a.ok THEN Cleanup(MarkHandled(w)) ELSE w

\* The helper has no such session: it is somebody else's leftover.
CheckpointAnswered(w, a) ==
  IF ~a.ok /\ w.current = a.id THEN Cleanup(MarkHandled(w)) ELSE w

Answered ==
  /\ \E a \in tab.answers :
       LET w == [tab EXCEPT !.answers = @ \ {a}]
       IN tab' = CASE a.type = "accept"     -> AcceptAnswered(w, a)
                   [] a.type = "discard"    -> DiscardAnswered(w, a)
                   [] a.type = "checkpoint" -> CheckpointAnswered(w, a)
                   [] OTHER                 -> w
  /\ UNCHANGED world

-----------------------------------------------------------------------------
(* The event stream. *)

\* Accept is optimistic: an accept whose result arrives after the release
\* only closes the window in which a failure is reported.
CompleteSeen(w, id) ==
  LET w1 == [w EXCEPT !.awaiting = IF @ = id THEN NoSession ELSE @]
  IN IF w1.pending # id THEN w1
     ELSE IF w1.current \notin {NoSession, id} THEN [w1 EXCEPT !.pending = NoSession]
     ELSE Release(MarkHandled(w1))

DoneSeenWithoutRead(w, id) ==   \* mutant: waits for HMR only
  IF w.arrived = Count /\ w.state = "GENERATING"
  THEN [w EXCEPT !.state = "CYCLING", !.file = TRUE] ELSE [w EXCEPT !.file = TRUE]

\* done names the source file; without all variants it is read after 750 ms.
DoneSeen(w, id) ==
  LET w1 == [w EXCEPT !.file = TRUE]
  IN IF w.arrived = Count
     THEN IF w.state = "GENERATING" THEN [w1 EXCEPT !.state = "CYCLING"] ELSE w1
     ELSE IF w.state = "GENERATING" /\ id = w.current
       THEN Set(w1, Read("completed", id, TRUE, FALSE, 0)) ELSE w1

DiscardedSeen(w, id) == IF id = w.current THEN Cleanup(MarkHandled(w)) ELSE w

ErrorSeen(w, id) ==
  IF w.pending = id
  THEN ShowCycling([w EXCEPT !.pending = NoSession, !.awaiting = NoSession, !.state = "CYCLING"])
  ELSE IF w.awaiting = id THEN [w EXCEPT !.awaiting = NoSession]
  ELSE IF w.current = id THEN Cleanup(MarkHandled(w))
  ELSE [w EXCEPT !.state = "PICKING", !.saved = IF @.id = id THEN NoSaved ELSE @]

Hear ==
  /\ stream = "open" /\ events # <<>>
  /\ LET e == Head(events)
     IN tab' = CASE e.type = "done"      -> DoneSeen(tab, e.id)
                 [] e.type = "complete"  -> CompleteSeen(tab, e.id)
                 [] e.type = "discarded" -> DiscardedSeen(tab, e.id)
                 [] e.type = "error"     -> ErrorSeen(tab, e.id)
  /\ events' = Tail(events)
  /\ UNCHANGED <<source, journal, stream, started, faults>>

MissedCompletionDropped(w) == w   \* mutant: trusts that done is always heard

\* A generation that finished while the page was away (recoverMissed...).
MissedCompletion(w) ==
  IF /\ w.current # NoSession /\ w.state = "GENERATING"
     /\ journal[w.current] = "ready" /\ w.arrived < Count
  THEN Set([w EXCEPT !.file = TRUE], Read("completed", w.current, TRUE, FALSE, 0)) ELSE w

\* connected carries the helper's summary of its active sessions.
Connect ==
  /\ stream = "closed" /\ stream' = "open"
  /\ \E rec \in Records(tab, TRUE) :
       LET w == IF Wrappers(tab) = {} /\ CanRestore(tab, rec, TRUE)
                THEN Restore(tab, rec, TRUE) ELSE tab
           m == MissedCompletion(w)
       IN tab' = [m EXCEPT !.state = IF @ = "IDLE" THEN "PICKING" ELSE @]
  /\ MayMove /\ UNCHANGED <<source, journal, events, started>>

StreamDrops ==
  /\ stream = "open" /\ Strikes("stream")
  /\ stream' = "closed" /\ events' = <<>>
  /\ UNCHANGED <<tab, source, journal, started>>

\* Retries are used up: the page keeps its session and stops listening.
ServerLost ==
  /\ stream = "closed" /\ stream' = "lost" /\ faults' = faults \cup {"lost"}
  /\ tab' = SaveSession([tab EXCEPT !.observer = NoSession,
                           !.state = IF tab.current = NoSession THEN "IDLE" ELSE @])
  /\ UNCHANGED <<source, journal, events, started>>

-----------------------------------------------------------------------------
(* Reads of the source. *)

\* completeSourceInjection, over a wrapper with n variants just put in place.
Complete(w, t, n) ==
  LET w1 == [w EXCEPT !.arrived = n]
  IN IF n > 0 THEN SaveSession([w1 EXCEPT !.state = "CYCLING"])
     ELSE IF w.state # "GENERATING" THEN Cleanup(w1)
     ELSE IF ~t.completed THEN w1
     ELSE IF t.tries < Rereads THEN Set(w1, [t EXCEPT !.kind = "reread"])
     ELSE Cleanup(w1)

\* The wrapper is not in the source: only a restored comparison gives up on it.
WrapperMissing(w, t) ==
  IF ~t.orphan \/ t.id # w.current THEN w
  ELSE IF t.tries < Rereads THEN Set(w, [t EXCEPT !.kind = "orphan"])
  ELSE Cleanup(MarkHandled(w))
GivesUp(t) == source[t.id] \notin Wrapped /\ t.orphan /\ t.id = tab.current /\ t.tries = Rereads

\* The file is read when the answer comes.
Fetched ==
  /\ \E t \in tab.timers :
       LET m == source[t.id]
           w == Drop(tab, t)
           in == Complete(Render(w, t.id, m), t, m)
       IN /\ t.kind = "fetch"
          /\ IF m \in Wrapped THEN \E x \in Runtime(in) : tab' = Woken(in, x)
             ELSE tab' = WrapperMissing(w, t)
          /\ journal' = IF GivesUp(t) /\ Acts(t.id) THEN [journal EXCEPT ![t.id] = "discarding"]
                        ELSE journal
  /\ MayMove /\ UNCHANGED surroundings

FetchFails ==
  /\ Strikes("post")
  /\ \E t \in tab.timers : t.kind = "fetch" /\ tab' = Drop(tab, t)
  /\ UNCHANGED <<journal, surroundings>>

\* The delayed reads look again whether their session still waits for them.
ReadAgain ==
  /\ \E t \in tab.timers :
       LET w == Drop(tab, t)
           read(completed, orphan, tries) == Fetch(w, t.id, completed, orphan, tries)
           generating == w.state = "GENERATING" /\ w.current = t.id
       IN \/ /\ t.kind = "completed"
             /\ tab' = IF generating /\ w.arrived < Count THEN read(TRUE, FALSE, 0) ELSE w
          \/ /\ t.kind = "reread"
             /\ tab' = IF generating /\ w.arrived = 0
                       THEN read(t.completed, t.orphan, t.tries + 1) ELSE w
          \/ /\ t.kind = "orphan"
             /\ tab' = IF w.current = t.id /\ w.state \in {"GENERATING", "CYCLING"}
                       THEN read(t.completed, TRUE, t.tries + 1) ELSE w
  /\ UNCHANGED world

-----------------------------------------------------------------------------
(* The page's surroundings: HMR, the helper, the agent. *)

\* HMR puts the source on the page, or hydration does.
Hmr(s) ==
  /\ tab.dom[s] # source[s]
  /\ LET w == Render(tab, s, source[s]) IN \E x \in Runtime(w) : tab' = Woken(w, x)
  /\ MayMove /\ UNCHANGED <<journal, surroundings>>

Tell(type, id) ==
  events' = IF stream = "open" THEN Append(events, [type |-> type, id |-> id]) ELSE events

GateNever == FALSE   \* mutant: no sessionCreationGate

\* Creation goes before progress: what is sent while a generate of this page waits
\* for its answer is posted after it (sessionCreationGate).
Gate == \E q \in tab.posts : q.type = "generate" /\ ~q.stray

\* The checkpoint timer: progress of the session the page has now.
Report ==
  /\ tab.queued
  /\ LET w == [tab EXCEPT !.queued = FALSE] IN
     IF tab.current = NoSession \/ journal[tab.current] # "none"
     THEN tab' = w /\ UNCHANGED faults
     ELSE /\ tab' = [w EXCEPT !.posts = @ \cup
                       {[type |-> "checkpoint", id |-> tab.current, stray |-> ~Gate]}]
          /\ faults' = IF \E q \in tab.posts : q.type = "upload" /\ q.id = tab.current
                       THEN faults \cup {"early"} ELSE faults
  /\ UNCHANGED <<journal, surroundings>>

\* The helper records a generate, and refuses progress of a session it has
\* never seen.
HelperTakes ==
  /\ \E p \in tab.posts :
       LET w == [tab EXCEPT !.posts = @ \ {p}]
       IN /\ p.type = "generate" \/ (p.type = "checkpoint" /\ (p.stray \/ ~Gate))
          /\ IF p.type = "generate"
             THEN journal' = [journal EXCEPT ![p.id] = "generating"] /\ tab' = w
             ELSE /\ UNCHANGED journal
                  /\ tab' = IF journal[p.id] # "none" THEN w
                            ELSE [w EXCEPT !.answers = @ \cup
                                    {[type |-> "checkpoint", id |-> p.id, ok |-> FALSE]}]
  /\ UNCHANGED <<surroundings, faults>>

\* A generate that is lost or refused is dropped without a word; so is an upload,
\* but then its generate goes without it.
PostLost ==
  /\ Strikes("post")
  /\ \E p \in tab.posts : p.type # "upload" /\ tab' = [tab EXCEPT !.posts = @ \ {p}]
  /\ UNCHANGED <<journal, surroundings>>

\* The scaffold and the variants come in one edit or one by one.
AgentWrites(s) ==
  /\ journal[s] = "generating" /\ source[s] # Count
  /\ \E n \in Wrapped : /\ source[s] = Clean \/ n > source[s]
                        /\ source' = [source EXCEPT ![s] = n]
  \* variant_progress tells a listening page the file of its session.
  /\ tab' = [tab EXCEPT !.file = @ \/ (stream = "open" /\ tab.current = s)]
  /\ UNCHANGED <<journal, stream, events, started, faults>>
AgentDone(s) ==
  /\ journal[s] = "generating" /\ source[s] = Count
  /\ journal' = [journal EXCEPT ![s] = "ready"] /\ Tell("done", s)
  /\ UNCHANGED <<tab, source, stream, started, faults>>
AgentPromotes(s) ==
  /\ journal[s] = "accepting"
  /\ \E m \in {Clean, Carbonize} :
       /\ source' = [source EXCEPT ![s] = m]
       /\ journal' = IF m = Clean THEN [journal EXCEPT ![s] = "closed"] ELSE journal
       /\ IF m = Clean THEN Tell("complete", s) ELSE source[s] # Carbonize /\ UNCHANGED events
  /\ UNCHANGED <<tab, stream, started, faults>>
AgentDiscards(s) ==
  /\ journal[s] = "discarding"
  /\ source' = [source EXCEPT ![s] = Clean]
  /\ journal' = [journal EXCEPT ![s] = "closed"] /\ Tell("discarded", s)
  /\ UNCHANGED <<tab, stream, started, faults>>
\* A failed generation is over; a failed accept may be asked for again.
AgentFails(s) ==
  /\ Strikes("agent") /\ journal[s] \in {"generating", "accepting"}
  /\ IF journal[s] = "generating"
     THEN /\ journal' = [journal EXCEPT ![s] = "closed"]
          /\ source' = [source EXCEPT ![s] = Clean]
     ELSE journal' = [journal EXCEPT ![s] = "ready"] /\ source[s] \in Wrapped /\ UNCHANGED source
  /\ Tell("error", s)
  /\ UNCHANGED <<tab, stream, started>>

Agent(s) == AgentWrites(s) \/ AgentDone(s) \/ AgentPromotes(s) \/ AgentDiscards(s)

Page == Answered \/ Hear \/ Connect \/ Fetched \/ ReadAgain \/ Uploaded \/ Report
User == Pick \/ ExitConfigure \/ Go \/ Accept \/ Discard
Environment == Reload \/ StreamDrops \/ ServerLost \/ FetchFails \/ PostLost

Next ==
  \/ User \/ Page \/ Environment \/ HelperTakes
  \/ \E s \in Sessions : Hmr(s) \/ Agent(s) \/ AgentFails(s)

Spec == Init /\ [][Next]_vars

\* Requests are answered, events delivered, timers fire, EventSource connects
\* again, and the helper and the agent go on with what they were given.  Nobody
\* has to pick, accept or discard, and HMR may never come: without it the page
\* reads the source itself.
Fairness ==
  /\ WF_vars(Answered) /\ WF_vars(Hear) /\ WF_vars(Connect)
  /\ WF_vars(Fetched) /\ WF_vars(ReadAgain) /\ WF_vars(HelperTakes)
  /\ WF_vars(Uploaded) /\ WF_vars(Report)
  /\ \A s \in Sessions : WF_vars(Agent(s))
FairSpec == Spec /\ Fairness

-----------------------------------------------------------------------------
(* Properties. *)

AtWork(s) == journal[s] \in {"generating", "ready"}

\* A session that was accepted, discarded or given up is never the page's again as
\* long as the browser remembers it, which it does of the last HandledKept of them:
\* neither a reload over markup the dev server still has of it, nor a late event
\* or read, takes it up (markSessionHandled).
HandledStaysAway == tab.current \notin Ids(tab.handled)

\* The page gives a session up for good only when nobody works on it: a read
\* that finds nothing, a refused checkpoint or a failed discard never makes it
\* forget one the helper has under way.  A generate or an answer that comes too
\* late, an answer that finds the page moved on to another session, an agent
\* that fails an accept, and progress reported before a generate with annotations
\* is posted, do: see "late", "moved", AgentFails and "early".
WorkNotGivenUp ==
  faults \cap {"late", "moved", "early", "agent"} = {} => \A s \in Ids(tab.handled) : ~AtWork(s)

\* The bar says "saving" only while an accept of this very session is out, so
\* whatever answer comes, or a failure to post it, takes the page out of it.
SavingHasAnAccept ==
  tab.state = "SAVING" =>
    /\ tab.pending = tab.current
    /\ \E a \in tab.answers : a.type = "accept" /\ a.id = tab.current

\* A page is told that the helper has no such session only once its generate has
\* been answered: the page never abandons a session it is about to create
\* (sessionCreationGate, abandonForeignLiveSession).  The gate shuts when a generate
\* is posted; a Go with annotations posts it after their upload, and a report the
\* checkpoint timer sends in between ("early") is refused, and the page does abandon
\* the session it is creating.  This is the only way it does.
CreationBeforeProgress ==
  "early" \notin faults =>
    \A a \in tab.answers, p \in tab.posts :
      a.type = "checkpoint" /\ p.type \in {"generate", "upload"} /\ p.id = a.id => p.stray

\* When the helper's session is ready, and everything the page was told or asked
\* for has come, the page has all its variants and compares them: a done that went to
\* nobody during a reload is made up for (recoverMissedGenerationCompletion).  After
\* a second reload it may have them all and still say it is generating: what it saved
\* counts them already, so nothing is read again.
ReadyIsShown ==
  \A s \in Sessions :
    /\ journal[s] = "ready" /\ tab.current = s /\ tab.dom[s] = source[s]
    /\ stream = "open" /\ events = <<>> /\ tab.timers = {} /\ tab.answers = {}
    /\ faults \cap {"post", "stream", "lost", "early", "agent", "late"} = {}
    => /\ tab.arrived = Count
       /\ \/ tab.state = "CYCLING"
          \/ "again" \in faults /\ tab.state = "GENERATING"

\* A page that waits for variants of a session the helper has, or is about to
\* have, gets them all or stops waiting, unless the trouble took its post, its
\* read or its stream for good.  One that was reloaded again may take up a wrapper
\* without variants after the done went by, and wait for HMR.
Waiting ==
  /\ tab.state = "GENERATING" /\ tab.current # NoSession /\ tab.arrived < Count
  /\ AtWork(tab.current) \/ journal[tab.current] = "none"
  /\ faults \cap {"again", "post", "lost", "late"} = {}
GenerationSettles == Waiting ~> ~Waiting
=============================================================================
