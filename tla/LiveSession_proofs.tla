-------------------------- MODULE LiveSession_proofs --------------------------
(***************************************************************************)
(* Proofs about LiveSession, for any number of sessions, variants, rereads *)
(* and kinds of trouble, and any length of the list of handled sessions.   *)
(*                                                                         *)
(* A handler is an operator from one tab to the next, so what the steps    *)
(* keep is stated of tabs: each operator has a lemma, and a step applies   *)
(* the lemmas of the operators its handler is made of.                     *)
(***************************************************************************)
EXTENDS LiveSession, TLAPS

-----------------------------------------------------------------------------
(* Tabs. *)

\* What is always true of a page: its session is none it gave up, whatever it
\* knows of was started, and a read that is to be repeated may be repeated.
Sane(w) ==
  /\ w \in Tab
  /\ w.current \notin Ids(w.handled)
  /\ w.current <= started /\ w.saved.id <= started
  /\ \A s \in Ids(w.handled) : s <= started
  /\ \A p \in w.posts : p.id <= started
  /\ \A a \in w.answers : a.id <= started
  /\ \A s \in Sessions : s > started => w.dom[s] = Clean
  /\ \A t \in w.timers : t.kind \in {"reread", "orphan"} => t.tries < Rereads

\* What every handler does with the requests under way: it posts nothing, answers
\* nothing, and never begins to save.
Shift(w, v) ==
  /\ v.answers = w.answers
  /\ v.posts \subseteq w.posts
  /\ v.state = "SAVING" =>
       w.state = "SAVING" /\ v.current = w.current /\ v.pending = w.pending

Kept(w, v) == Sane(v) /\ Shift(w, v)

\* The tab aside, nothing is known of a session that was not started.
Known ==
  /\ started \in 0..MaxSessions
  /\ \A s \in Sessions : s > started => journal[s] = "none" /\ source[s] = Clean
  /\ source \in [Sessions -> Markup] /\ journal \in [Sessions -> Phase]

LEMMA NoSessionOutside == NoSession \notin Sessions /\ Sessions \subseteq Nat /\ NoSession = 0
BY BoundsAssumption DEF NoSession, Sessions

LEMMA MarkupFacts ==
  /\ Clean \in Markup /\ Carbonize \in Markup /\ Wrapped \subseteq Markup
  /\ Clean \notin Wrapped /\ Carbonize \notin Wrapped /\ Clean # Carbonize
  /\ 0 \in Wrapped /\ Count \in Wrapped /\ Wrapped \subseteq Nat /\ Wrapped = 0..Count
BY BoundsAssumption DEF Clean, Carbonize, Wrapped, Markup

LEMMA NoSavedFacts == NoSaved \in Saved /\ NoSaved.id = NoSession
BY BoundsAssumption DEF NoSaved, Saved, State, NoSession

\* The list of handled ids gains the one given up, and may lose another.
LEMMA LatestFacts ==
  ASSUME NEW handled \in [Sessions -> 0..HandledKept], NEW id \in Sessions
  PROVE  /\ Latest(handled, id) \in [Sessions -> 0..HandledKept]
         /\ Ids(Latest(handled, id)) \subseteq Ids(handled) \cup {id}
         /\ id \in Ids(Latest(handled, id))
<1>1. 1 \in 0..HandledKept /\ 0 \in 0..HandledKept
  BY BoundsAssumption
<1>2. \A n \in 0..HandledKept : n # HandledKept => n + 1 \in 0..HandledKept
  BY BoundsAssumption
<1>3. \A s \in Sessions : handled[s] \in 0..HandledKept
  OBVIOUS
<1>4. Latest(handled, id) \in [Sessions -> 0..HandledKept]
  BY <1>1, <1>2, <1>3 DEF Latest
<1>5. \A s \in Sessions : s # id /\ handled[s] = 0 => Latest(handled, id)[s] = 0
  BY DEF Latest
<1>6. Latest(handled, id)[id] = 1
  BY DEF Latest
<1> QED
  BY <1>4, <1>5, <1>6 DEF Ids

LEMMA NothingHandled == Ids([s \in Sessions |-> 0]) = {} /\ [s \in Sessions |-> 0] \in [Sessions -> 0..HandledKept]
BY BoundsAssumption DEF Ids

LEMMA KeptTransitive ==
  ASSUME NEW u, NEW v, NEW w, Kept(u, v), Kept(v, w)
  PROVE  Kept(u, w)
BY DEF Kept, Shift

LEMMA KeptSame ==
  ASSUME NEW w, Sane(w)
  PROVE  Kept(w, w)
BY DEF Kept, Shift

LEMMA SaveSessionKeeps ==
  ASSUME NEW w, Sane(w)
  PROVE  Kept(w, SaveSession(w))
<1>1. CASE w.current = NoSession
  BY <1>1, KeptSame DEF SaveSession
<1>2. CASE w.current # NoSession
  <2> DEFINE rec == [id |-> w.current, state |-> w.state, arrived |-> w.arrived, file |-> w.file]
             v == [w EXCEPT !.saved = rec]
  <2>1. rec \in Saved /\ rec.id = w.current
    BY <1>2 DEF Sane, Tab, Saved
  <2> HIDE DEF rec
  <2>2. v \in Tab /\ v.saved = rec
    BY <2>1 DEF Sane, Tab
  <2>3. Kept(w, v)
    BY <2>1, <2>2 DEF Kept, Sane, Shift, Tab
  <2> QED
    BY <1>2, <2>3 DEF SaveSession, rec
<1> QED
  BY <1>1, <1>2

\* A list that is the one before, or has gained the page's session.
Gives(u, w) ==
  \/ w.handled = u.handled
  \/ u.current \in Sessions /\ w.handled = Latest(u.handled, u.current)

LEMMA GivesFacts ==
  ASSUME NEW u, NEW w, Sane(u), Gives(u, w)
  PROVE  /\ w.handled \in [Sessions -> 0..HandledKept]
         /\ Ids(w.handled) \subseteq Ids(u.handled) \cup {u.current}
         /\ \A s \in Ids(w.handled) : s <= started
<1>1. u.handled \in [Sessions -> 0..HandledKept]
  BY DEF Sane, Tab
<1>2. /\ w.handled \in [Sessions -> 0..HandledKept]
      /\ Ids(w.handled) \subseteq Ids(u.handled) \cup {u.current}
  BY <1>1, LatestFacts DEF Gives
<1> QED
  BY <1>2 DEF Sane

LEMMA CleanupFacts ==
  ASSUME NEW w, w \in Tab
  PROVE  LET v == Cleanup(w) IN
         /\ v \in Tab /\ v.current = NoSession /\ v.saved = NoSaved /\ v.state = "PICKING"
         /\ v.handled = w.handled /\ v.posts = w.posts /\ v.answers = w.answers
         /\ v.dom = w.dom /\ v.timers = w.timers /\ v.pending = w.pending
BY NoSavedFacts DEF Cleanup, Tab, State

\* Cleaning up needs nothing of the page's session.
LEMMA CleanupKeeps ==
  ASSUME NEW u, NEW w, Sane(u), Known,
         w \in Tab, w.dom = u.dom, w.answers = u.answers, w.posts = u.posts, w.timers = u.timers,
         Gives(u, w)
  PROVE  Kept(u, Cleanup(w))
<1> DEFINE v == Cleanup(w)
<1>1. /\ v \in Tab /\ v.current = NoSession /\ v.saved = NoSaved /\ v.state = "PICKING"
      /\ v.handled = w.handled /\ v.posts = w.posts /\ v.answers = w.answers
      /\ v.dom = w.dom /\ v.timers = w.timers
  BY CleanupFacts
<1> HIDE DEF v
<1>2. v.handled \in [Sessions -> 0..HandledKept] /\ \A s \in Ids(v.handled) : s <= started
  BY <1>1, GivesFacts
<1>3. v.current <= started /\ v.saved.id <= started /\ v.current \notin Ids(v.handled)
  BY <1>1, <1>2, NoSavedFacts, NoSessionOutside, BoundsAssumption DEF Known, Ids
<1>4. Sane(v)
  BY <1>1, <1>2, <1>3 DEF Sane
<1>5. Shift(u, v)
  BY <1>1 DEF Shift
<1> QED
  BY <1>4, <1>5 DEF Kept, v

\* What a page gives up for good is no longer its own.
LEMMA MarkHandledFacts ==
  ASSUME NEW w, w \in Tab
  PROVE  LET v == MarkHandled(w) IN
         /\ v \in Tab
         /\ Gives(w, v)
         /\ v.state = w.state /\ v.current = w.current /\ v.pending = w.pending
         /\ v.posts = w.posts /\ v.answers = w.answers
         /\ v.dom = w.dom /\ v.timers = w.timers /\ v.saved = w.saved
<1>1. CASE w.current = NoSession
  BY <1>1 DEF MarkHandled, Gives
<1>2. CASE w.current # NoSession
  <2> DEFINE more == Latest(w.handled, w.current)
  <2>1. w.current \in Sessions
    BY <1>2 DEF Tab
  <2>2. more \in [Sessions -> 0..HandledKept]
    BY <2>1, LatestFacts DEF Tab
  <2>3. MarkHandled(w) = [w EXCEPT !.handled = more]
    BY <1>2 DEF MarkHandled, Tab
  <2> HIDE DEF more
  <2>4. /\ [w EXCEPT !.handled = more] \in Tab
        /\ [w EXCEPT !.handled = more].handled = more
    BY <2>2 DEF Tab
  <2> QED
    BY <2>1, <2>3, <2>4 DEF Gives, Tab, more
<1> QED
  BY <1>1, <1>2

LEMMA GiveUpKeeps ==
  ASSUME NEW w, Sane(w), Known
  PROVE  Kept(w, Cleanup(MarkHandled(w)))
<1>1. w \in Tab
  BY DEF Sane
<1> QED
  BY <1>1, MarkHandledFacts, CleanupKeeps

LEMMA ShowCyclingKeeps ==
  ASSUME NEW w, Sane(w), Known
  PROVE  Kept(w, ShowCycling(w))
BY KeptSame, CleanupKeeps DEF ShowCycling, Sane, Gives

LEMMA QueueCheckpointKeeps ==
  ASSUME NEW w, Sane(w)
  PROVE  Kept(w, QueueCheckpoint(w))
<1>1. [w EXCEPT !.queued = TRUE] \in Tab
  BY DEF Sane, Tab
<1>2. Kept(w, [w EXCEPT !.queued = TRUE])
  BY <1>1 DEF Kept, Sane, Shift, Tab
<1> QED
  BY <1>2, KeptSame DEF QueueCheckpoint

LEMMA SetKeeps ==
  ASSUME NEW w, NEW t \in Timer, Sane(w), t.kind \in {"reread", "orphan"} => t.tries < Rereads
  PROVE  Kept(w, Set(w, t))
<1>1. Set(w, t) \in Tab
  BY DEF Sane, Set, Tab
<1> QED
  BY <1>1 DEF Kept, Sane, Shift, Set, Tab

LEMMA DropKeeps ==
  ASSUME NEW w, NEW t, Sane(w)
  PROVE  Kept(w, Drop(w, t))
<1>1. Drop(w, t) \in Tab
  BY DEF Sane, Drop, Tab
<1> QED
  BY <1>1 DEF Kept, Sane, Shift, Drop, Tab

LEMMA FetchKeeps ==
  ASSUME NEW w, NEW id \in Sessions, NEW completed \in BOOLEAN, NEW orphan \in BOOLEAN,
         NEW tries \in 0..Rereads, Sane(w)
  PROVE  Kept(w, Fetch(w, id, completed, orphan, tries))
<1> DEFINE t == Read("fetch", id, completed, orphan, tries)
<1>1. t \in Timer /\ t.kind = "fetch"
  BY DEF Read, Timer, TimerKind
<1> HIDE DEF t
<1>2. Kept(w, Set(w, t))
  BY <1>1, SetKeeps
<1> QED
  BY <1>2 DEF Fetch, t

-----------------------------------------------------------------------------
(* Taking a session up. *)

\* A session the page may take up: one it has not given up.
LEMMA OwnKeeps ==
  ASSUME NEW u, NEW w, Sane(u), w \in Tab, w.answers = u.answers, w.posts = u.posts,
         w.dom = u.dom, w.timers = u.timers, w.handled = u.handled, w.saved = u.saved,
         w.current = u.current \/ (w.current \notin Ids(u.handled) /\ w.current <= started),
         w.state # "SAVING"
  PROVE  Kept(u, QueueCheckpoint(SaveSession(w))) /\ Kept(u, SaveSession(w))
<1>1. Kept(u, w)
  BY DEF Kept, Sane, Shift
<1>2. Kept(w, SaveSession(w))
  BY <1>1, SaveSessionKeeps DEF Kept
<1>3. Kept(SaveSession(w), QueueCheckpoint(SaveSession(w)))
  BY <1>2, QueueCheckpointKeeps DEF Kept
<1>4. Kept(w, QueueCheckpoint(SaveSession(w)))
  BY <1>2, <1>3, KeptTransitive
<1> QED
  BY <1>1, <1>2, <1>4, KeptTransitive

LEMMA RestoreKeeps ==
  ASSUME NEW w, NEW rec \in Saved, NEW listed \in BOOLEAN, Sane(w),
         rec.id # NoSession, rec.id \notin Ids(w.handled), rec.id <= started
  PROVE  Kept(w, Restore(w, rec, listed))
<1> DEFINE file == rec.file \/ (listed /\ rec.id \in Listed /\ source[rec.id] # Clean)
           v  == [w EXCEPT !.current = rec.id, !.arrived = rec.arrived,
                    !.file = file, !.state = "GENERATING", !.observer = rec.id]
           w1 == QueueCheckpoint(SaveSession(v))
<1>1. /\ rec.id \in Sessions /\ rec.arrived \in 0..Count
      /\ file \in BOOLEAN /\ (rec.state = "CYCLING") \in BOOLEAN
  BY DEF Saved
<1> HIDE DEF file
<1>2. v \in Tab
  BY <1>1 DEF Sane, Tab, State
<1>3. Kept(w, w1)
  BY <1>1, <1>2, OwnKeeps DEF Sane, Tab
<1> HIDE DEF w1
<1>4. Kept(w1, Fetch(w1, rec.id, FALSE, rec.state = "CYCLING", 0))
  <2>1. 0 \in 0..Rereads
    BY BoundsAssumption
  <2> QED
    BY <1>1, <1>3, <2>1, FetchKeeps DEF Kept
<1>5. Kept(w, Fetch(w1, rec.id, FALSE, rec.state = "CYCLING", 0))
  BY <1>3, <1>4, KeptTransitive
<1> QED
  BY <1>3, <1>5 DEF Restore, w1, file

LEMMA TakeUpKeeps ==
  ASSUME NEW w, NEW x \in Sessions, Sane(w), Known, w.dom[x] \in Wrapped, x \notin Ids(w.handled)
  PROVE  Kept(w, TakeUp(w, x))
<1> DEFINE file == IF w.saved.id = x THEN w.file \/ w.saved.file ELSE w.file
           v == [w EXCEPT !.current = x, !.arrived = w.dom[x], !.observer = x,
                   !.file = IF w.saved.id = x THEN @ \/ w.saved.file ELSE @,
                   !.state = IF w.dom[x] > 0 THEN "CYCLING" ELSE "GENERATING"]
<1>1. x <= started
  BY MarkupFacts, NoSessionOutside, BoundsAssumption DEF Sane, Known, Sessions
<1>2. w.dom[x] \in 0..Count
  BY MarkupFacts
<1>3. v \in Tab
  <2>1. file \in BOOLEAN
    BY DEF Sane, Tab, Saved
  <2>2. v = [w EXCEPT !.current = x, !.arrived = w.dom[x], !.observer = x, !.file = file,
               !.state = IF w.dom[x] > 0 THEN "CYCLING" ELSE "GENERATING"]
    BY DEF Sane, Tab
  <2> HIDE DEF file, v
  <2> QED
    BY <1>2, <2>1, <2>2 DEF Sane, Tab, State
<1>4. Kept(w, SaveSession(v))
  BY <1>1, <1>3, OwnKeeps DEF Sane, Tab
<1> QED
  BY <1>4 DEF TakeUp

LEMMA RestoreSavedKeeps ==
  ASSUME NEW w, Sane(w), CanRestore(w, w.saved, FALSE)
  PROVE  Kept(w, Restore(w, w.saved, FALSE))
<1>1. w.saved \in Saved /\ w.saved.id <= started
  BY DEF Sane, Tab
<1> QED
  BY <1>1, RestoreKeeps DEF CanRestore

LEMMA ResumeKeeps ==
  ASSUME NEW w, NEW x \in Sessions \cup {NoSession}, Sane(w), Known
  PROVE  Kept(w, Resume(w, x))
<1>1. Kept(w, w)
  BY KeptSame
<1>2. CASE x # NoSession /\ x \notin Ids(w.handled) /\ w.dom[x] \in Wrapped
  BY <1>2, TakeUpKeeps DEF Resume, Supersedes
<1>3. CASE CanRestore(w, w.saved, FALSE) /\ ~(x # NoSession /\ x \notin Ids(w.handled) /\ w.dom[x] \in Wrapped)
  BY <1>1, <1>3, RestoreSavedKeeps DEF Resume, Supersedes
<1>4. Kept(w, [w EXCEPT !.saved = NoSaved])
  <2> DEFINE v == [w EXCEPT !.saved = NoSaved]
  <2>1. v \in Tab /\ v.saved = NoSaved
    BY NoSavedFacts DEF Sane, Tab
  <2>2. v.saved.id <= started
    BY <2>1, NoSavedFacts, NoSessionOutside, BoundsAssumption DEF Known
  <2> QED
    BY <2>1, <2>2 DEF Kept, Sane, Shift, Tab
<1> QED
  BY <1>1, <1>2, <1>3, <1>4 DEF Resume, Supersedes

-----------------------------------------------------------------------------
(* What a change of the markup wakes. *)

LEMMA ScoutSeesKeeps ==
  ASSUME NEW w, NEW x \in Sessions \cup {NoSession}, Sane(w), Known
  PROVE  Kept(w, ScoutSees(w, x))
<1> DEFINE v == [w EXCEPT !.deferred = FALSE]
<1>1. v \in Tab
  BY DEF Sane, Tab
<1>2. Kept(w, v)
  BY <1>1 DEF Kept, Sane, Shift, Tab
<1>3. Kept(v, Resume(v, x))
  BY <1>2, ResumeKeeps DEF Kept
<1>4. Kept(w, Resume(v, x))
  BY <1>2, <1>3, KeptTransitive
<1> QED
  BY <1>4, KeptSame DEF ScoutSees

LEMMA VariantsArriveKeeps ==
  ASSUME NEW w, Sane(w)
  PROVE  Kept(w, VariantsArrive(w))
<1> DEFINE s == w.observer
           v == [w EXCEPT !.arrived = w.dom[s], !.state = "CYCLING"]
<1>1. CASE s = NoSession \/ w.dom[s] \notin Wrapped \/ w.dom[s] <= w.arrived
  BY <1>1, KeptSame DEF VariantsArrive
<1>2. CASE ~(s = NoSession \/ w.dom[s] \notin Wrapped \/ w.dom[s] <= w.arrived)
  <2>1. v \in Tab
    BY <1>2, MarkupFacts DEF Sane, Tab, State
  <2>2. Kept(w, SaveSession(v))
    BY <2>1, OwnKeeps DEF Sane, Tab
  <2> QED
    BY <1>2, <2>2 DEF VariantsArrive
<1> QED
  BY <1>1, <1>2

LEMMA WokenKeeps ==
  ASSUME NEW w, NEW x \in Sessions \cup {NoSession}, Sane(w), Known
  PROVE  Kept(w, Woken(w, x))
<1>1. Kept(w, ScoutSees(w, x))
  BY ScoutSeesKeeps
<1>2. Kept(ScoutSees(w, x), VariantsArrive(ScoutSees(w, x)))
  BY <1>1, VariantsArriveKeeps DEF Kept
<1> QED
  BY <1>1, <1>2, KeptTransitive DEF Woken

LEMMA RenderKeeps ==
  ASSUME NEW w, NEW s \in Sessions, Sane(w), Known
  PROVE  Kept(w, Render(w, s, source[s]))
<1> DEFINE v == Render(w, s, source[s])
<1>1. source[s] \in Markup /\ w.dom \in [Sessions -> Markup]
  BY DEF Known, Sane, Tab
<1>2. v \in Tab /\ v.dom = [w.dom EXCEPT ![s] = source[s]]
  BY <1>1 DEF Sane, Tab, Render
<1>3. \A r \in Sessions : r > started => v.dom[r] = Clean
  BY <1>1, <1>2 DEF Sane, Known
<1> QED
  BY <1>2, <1>3 DEF Kept, Sane, Shift, Tab, Render

LEMMA RuntimeInSessions ==
  ASSUME NEW w, NEW x \in Runtime(w)
  PROVE  x \in Sessions \cup {NoSession}
BY DEF Runtime, Found, Wrappers, Populated, Carbonizing

-----------------------------------------------------------------------------
(* Answers, events and reads. *)

\* The page is released from a session it gave up.
LEMMA ReleaseKeeps ==
  ASSUME NEW u, NEW w, Sane(u), Known,
         w \in Tab, w.dom = u.dom, w.answers = u.answers, w.posts = u.posts, w.timers = u.timers,
         Gives(u, w)
  PROVE  Kept(u, Release(w)) /\ Release(w).state = "PICKING"
<1> DEFINE v == Release(w)
<1>1. /\ v \in Tab /\ v.current = NoSession /\ v.saved = NoSaved /\ v.state = "PICKING"
      /\ v.handled = w.handled /\ v.posts = w.posts /\ v.answers = w.answers
      /\ v.dom = w.dom /\ v.timers = w.timers
  BY NoSavedFacts DEF Release, Tab, State
<1> HIDE DEF v
<1>2. v.handled \in [Sessions -> 0..HandledKept] /\ \A s \in Ids(v.handled) : s <= started
  BY <1>1, GivesFacts
<1>3. v.current <= started /\ v.saved.id <= started /\ v.current \notin Ids(v.handled)
  BY <1>1, <1>2, NoSavedFacts, NoSessionOutside, BoundsAssumption DEF Known, Ids
<1>4. Sane(v)
  BY <1>1, <1>2, <1>3 DEF Sane
<1>5. Shift(u, v)
  BY <1>1 DEF Shift
<1> QED
  BY <1>1, <1>4, <1>5 DEF Kept, v

LEMMA CompleteKeeps ==
  ASSUME NEW w, NEW t \in Timer, NEW n \in Wrapped, Sane(w), Known
  PROVE  Kept(w, Complete(w, t, n))
<1> DEFINE w1 == [w EXCEPT !.arrived = n]
           again == [t EXCEPT !.kind = "reread"]
           w2 == [w1 EXCEPT !.state = "CYCLING"]
<1>1. w1 \in Tab /\ w2 \in Tab
  BY MarkupFacts DEF Sane, Tab, State
<1>2. Kept(w, w1)
  BY <1>1 DEF Kept, Sane, Shift, Tab
<1>3. Kept(w, Cleanup(w1))
  BY <1>1, CleanupKeeps DEF Sane, Tab, Gives
<1>4. Kept(w, SaveSession(w2))
  <2>1. Kept(w, w2)
    BY <1>1 DEF Kept, Sane, Shift, Tab
  <2> QED
    BY <2>1, SaveSessionKeeps, KeptTransitive DEF Kept
<1>5. ASSUME t.tries < Rereads
      PROVE  Kept(w, Set(w1, again))
  <2>1. again \in Timer /\ again.tries < Rereads
    BY <1>5 DEF Timer, TimerKind
  <2> HIDE DEF again
  <2>2. Kept(w1, Set(w1, again))
    BY <1>2, <2>1, SetKeeps DEF Kept
  <2> QED
    BY <1>2, <2>2, KeptTransitive
<1> QED
  BY <1>2, <1>3, <1>4, <1>5 DEF Complete

LEMMA WrapperMissingKeeps ==
  ASSUME NEW w, NEW t \in Timer, Sane(w), Known
  PROVE  Kept(w, WrapperMissing(w, t))
<1> DEFINE again == [t EXCEPT !.kind = "orphan"]
<1>1. ASSUME t.tries < Rereads
      PROVE  Kept(w, Set(w, again))
  <2>1. again \in Timer /\ again.tries < Rereads
    BY <1>1 DEF Timer, TimerKind
  <2> HIDE DEF again
  <2> QED
    BY <2>1, SetKeeps
<1> QED
  BY <1>1, KeptSame, GiveUpKeeps DEF WrapperMissing

\* An accept that is answered ends the saving it belongs to.
LEMMA AcceptAnsweredKeeps ==
  ASSUME NEW w, NEW a \in Answer, Sane(w), Known
  PROVE  LET v == AcceptAnswered(w, a) IN
         Kept(w, v) /\ (v.state = "SAVING" => w.pending # a.id)
<1> DEFINE v == AcceptAnswered(w, a)
<1>1. CASE a.ok /\ w.pending = a.id
  <2> DEFINE m == MarkHandled(w)
             n == [m EXCEPT !.awaiting = a.id]
  <2>1. /\ m \in Tab /\ Gives(w, m)
        /\ m.posts = w.posts /\ m.answers = w.answers /\ m.dom = w.dom /\ m.timers = w.timers
    BY MarkHandledFacts DEF Sane
  <2> HIDE DEF m
  <2>2. /\ n \in Tab /\ Gives(w, n)
        /\ n.posts = w.posts /\ n.answers = w.answers /\ n.dom = w.dom /\ n.timers = w.timers
    BY <2>1 DEF Tab, Answer, Gives
  <2> HIDE DEF n
  <2>3. Kept(w, Release(n)) /\ Release(n).state = "PICKING"
    BY <2>2, ReleaseKeeps
  <2> QED
    BY <1>1, <2>3 DEF AcceptAnswered, m, n
<1>2. CASE a.ok /\ w.pending # a.id
  BY <1>2, KeptSame DEF AcceptAnswered
<1>3. CASE ~a.ok
  <2> DEFINE n == [w EXCEPT !.state = "CYCLING", !.pending = IF @ = a.id THEN NoSession ELSE @]
  <2>1. n \in Tab
    BY DEF Sane, Tab, State
  <2>2. Kept(w, n) /\ n.state = "CYCLING"
    BY <2>1 DEF Kept, Sane, Shift, Tab
  <2> HIDE DEF n
  <2>3. Kept(n, ShowCycling(n))
    BY <2>2, ShowCyclingKeeps DEF Kept
  <2>4. ShowCycling(n).state # "SAVING"
    BY <2>2, <2>3 DEF Kept, Shift
  <2>5. Kept(w, ShowCycling(n))
    BY <2>2, <2>3, KeptTransitive
  <2> QED
    BY <1>3, <2>4, <2>5 DEF AcceptAnswered, n
<1> QED
  BY <1>1, <1>2, <1>3 DEF Answer

LEMMA OtherAnswersKeep ==
  ASSUME NEW w, NEW a, Sane(w), Known
  PROVE  Kept(w, DiscardAnswered(w, a)) /\ Kept(w, CheckpointAnswered(w, a))
BY KeptSame, GiveUpKeeps DEF DiscardAnswered, CheckpointAnswered

LEMMA DoneSeenKeeps ==
  ASSUME NEW w, NEW id \in Sessions, Sane(w)
  PROVE  Kept(w, DoneSeen(w, id))
<1> DEFINE w1 == [w EXCEPT !.file = TRUE]
           w2 == [w1 EXCEPT !.state = "CYCLING"]
           t  == Read("completed", id, TRUE, FALSE, 0)
<1>1. w1 \in Tab /\ w2 \in Tab
  BY DEF Sane, Tab, State
<1>2. Kept(w, w1) /\ Kept(w, w2)
  BY <1>1 DEF Kept, Sane, Shift, Tab
<1>3. t \in Timer /\ t.kind = "completed"
  BY BoundsAssumption DEF Read, Timer, TimerKind
<1> HIDE DEF t
<1>4. Kept(w1, Set(w1, t))
  BY <1>2, <1>3, SetKeeps DEF Kept
<1>5. Kept(w, Set(w1, t))
  BY <1>2, <1>4, KeptTransitive
<1> QED
  BY <1>2, <1>5 DEF DoneSeen, t

LEMMA MissedCompletionKeeps ==
  ASSUME NEW w, Sane(w)
  PROVE  Kept(w, MissedCompletion(w))
<1> DEFINE w1 == [w EXCEPT !.file = TRUE]
           t  == Read("completed", w.current, TRUE, FALSE, 0)
<1>1. CASE w.current = NoSession
  BY <1>1, KeptSame DEF MissedCompletion
<1>2. CASE w.current # NoSession
  <2>1. w1 \in Tab
    BY DEF Sane, Tab
  <2>2. Kept(w, w1)
    BY <2>1 DEF Kept, Sane, Shift, Tab
  <2>3. t \in Timer /\ t.kind = "completed"
    BY <1>2, BoundsAssumption DEF Read, Timer, TimerKind, Sane, Tab
  <2> HIDE DEF t
  <2>4. Kept(w1, Set(w1, t))
    BY <2>2, <2>3, SetKeeps DEF Kept
  <2>5. Kept(w, Set(w1, t))
    BY <2>2, <2>4, KeptTransitive
  <2> QED
    BY <2>5, KeptSame DEF MissedCompletion, t
<1> QED
  BY <1>1, <1>2

LEMMA CompleteSeenKeeps ==
  ASSUME NEW w, NEW id \in Sessions, Sane(w), Known,
         w.state = "SAVING" => w.pending = w.current
  PROVE  Kept(w, CompleteSeen(w, id))
<1> DEFINE w1 == [w EXCEPT !.awaiting = IF @ = id THEN NoSession ELSE @]
           w2 == [w1 EXCEPT !.pending = NoSession]
           m  == MarkHandled(w1)
<1>1. w1 \in Tab /\ w2 \in Tab
  BY DEF Sane, Tab
<1>2. Kept(w, w1)
  BY <1>1 DEF Kept, Sane, Shift, Tab
<1>3. ASSUME w.pending = id, w.current # id
      PROVE  Kept(w, w2)
  BY <1>1, <1>3 DEF Kept, Sane, Shift, Tab
<1>4. /\ w1.handled = w.handled /\ w1.current = w.current /\ w1.posts = w.posts
      /\ w1.answers = w.answers /\ w1.dom = w.dom /\ w1.timers = w.timers /\ w1.pending = w.pending
  BY DEF Sane, Tab
<1> HIDE DEF w1
<1>5. /\ m \in Tab /\ Gives(w, m)
      /\ m.posts = w.posts /\ m.answers = w.answers /\ m.dom = w.dom /\ m.timers = w.timers
  BY <1>1, <1>4, MarkHandledFacts DEF Gives
<1> HIDE DEF m
<1>6. Kept(w, Release(m))
  BY <1>5, ReleaseKeeps
<1> QED
  BY <1>2, <1>3, <1>4, <1>6, Zenon DEF CompleteSeen, w1, m

LEMMA ErrorSeenKeeps ==
  ASSUME NEW w, NEW id \in Sessions, Sane(w), Known
  PROVE  Kept(w, ErrorSeen(w, id))
<1> DEFINE w1 == [w EXCEPT !.pending = NoSession, !.awaiting = NoSession, !.state = "CYCLING"]
           w2 == [w EXCEPT !.awaiting = NoSession]
           saved == IF w.saved.id = id THEN NoSaved ELSE w.saved
           w3 == [w EXCEPT !.state = "PICKING", !.saved = saved]
<1>1. w1 \in Tab /\ w2 \in Tab
  BY DEF Sane, Tab, State
<1>2. Kept(w, w1) /\ Kept(w, w2)
  BY <1>1 DEF Kept, Sane, Shift, Tab
<1>3. Kept(w1, ShowCycling(w1))
  BY <1>2, ShowCyclingKeeps DEF Kept
<1>4. Kept(w, ShowCycling(w1))
  BY <1>2, <1>3, KeptTransitive
<1>5. saved \in Saved /\ saved.id <= started
  BY NoSavedFacts, NoSessionOutside, BoundsAssumption DEF Sane, Tab, Known
<1> HIDE DEF saved
<1>6. w3 \in Tab
  BY <1>5 DEF Sane, Tab, State
<1>7. Kept(w, w3)
  BY <1>5, <1>6 DEF Kept, Sane, Shift, Tab
<1>8. w3 = [w EXCEPT !.state = "PICKING", !.saved = IF @.id = id THEN NoSaved ELSE @]
  BY DEF saved
<1> QED
  BY <1>2, <1>4, <1>7, <1>8, GiveUpKeeps DEF ErrorSeen

LEMMA DiscardedSeenKeeps ==
  ASSUME NEW w, NEW id, Sane(w), Known
  PROVE  Kept(w, DiscardedSeen(w, id))
BY KeptSame, GiveUpKeeps DEF DiscardedSeen

-----------------------------------------------------------------------------
(* Steps. *)

Rest ==
  /\ stream \in {"closed", "open", "lost"} /\ events \in Seq(Event)
  /\ faults \subseteq Fault

\* Progress that is on its way while its session's generate waits for its answer
\* was held back by the gate, and none is while the annotations are captured.
Waits ==
  "early" \notin faults =>
    \A c \in tab.posts, q \in tab.posts :
      c.type = "checkpoint" /\ q.type \in {"generate", "upload"} /\ q.id = c.id /\ ~q.stray =>
        q.type = "generate" /\ ~c.stray

\* An upload is of this page, and the generate it delays is not posted yet.
Single ==
  \A p \in tab.posts : p.type = "upload" =>
    ~p.stray /\ \A q \in tab.posts : q.type = "generate" => q.id # p.id

Ordered == CreationBeforeProgress /\ Waits /\ Single

\* What is inductive: the three invariants of the page need that its session,
\* its posts and their answers were started, so that a new one is nobody's.
PageInv ==
  /\ Sane(tab) /\ Known /\ Rest
  /\ SavingHasAnAccept
  /\ Ordered

\* A handler that keeps the tab sane and shifts no request keeps the rest.
LEMMA KeptStep ==
  ASSUME PageInv, Kept(tab, tab'), UNCHANGED started, faults \subseteq faults'
  PROVE  Sane(tab)' /\ SavingHasAnAccept' /\ Ordered'
<1>1. Sane(tab)'
  BY DEF Kept, Sane
<1>2. SavingHasAnAccept'
  BY DEF PageInv, Kept, Shift, SavingHasAnAccept
<1>3. Ordered'
  BY DEF PageInv, Kept, Shift, Ordered, CreationBeforeProgress, Waits, Single
<1> QED
  BY <1>1, <1>2, <1>3

LEMMA StrikesKeeps ==
  ASSUME Rest, NEW kind \in Fault, Strikes(kind)
  PROVE  faults' \subseteq Fault
BY DEF Rest, Strikes

LEMMA MayMoveKeeps == Rest /\ MayMove => faults' \subseteq Fault
BY DEF Rest, MayMove, Fault

LEMMA TellKeeps ==
  ASSUME Rest, NEW type \in {"done", "complete", "discarded", "error"}, NEW id \in Sessions,
         Tell(type, id)
  PROVE  events' \in Seq(Event)
<1> DEFINE e == [type |-> type, id |-> id]
<1>1. e \in Event
  BY DEF Event
<1> QED
  BY <1>1 DEF Rest, Tell

LEMMA InitPage == Init => PageInv
<1> SUFFICES ASSUME Init
             PROVE  PageInv
  OBVIOUS
<1>1. tab \in Tab
  BY NothingHandled, NoSavedFacts, MarkupFacts, BoundsAssumption DEF Init, Blank, Tab, State
<1>2. Sane(tab)
  BY <1>1, NothingHandled, NoSavedFacts, NoSessionOutside DEF Init, Blank, Sane
<1>3. Known
  BY MarkupFacts, BoundsAssumption DEF Init, Known, Phase
<1>4. Rest
  BY DEF Init, Rest
<1>5. SavingHasAnAccept /\ Ordered
  BY DEF Init, Blank, SavingHasAnAccept, Ordered, CreationBeforeProgress, Waits, Single
<1> QED
  BY <1>2, <1>3, <1>4, <1>5 DEF PageInv

\* A load starts from storage: it asks for nothing and answers nothing.
LEMMA LoadKeeps ==
  ASSUME PageInv, NEW dom \in [Sessions -> Markup], NEW kind \in {"reload", "again", "late"},
         \A s \in Sessions : dom[s] \in Served(s), NEW v \in Load(dom, kind)
  PROVE  /\ Sane(v) /\ v.state # "SAVING" /\ v.answers = {}
         /\ kind # "late" => v.posts = {}
         /\ \A p \in v.posts : p.type = "generate" /\ p.stray
<1> DEFINE posts == IF kind = "late" THEN {[p EXCEPT !.stray = TRUE] : p \in {q \in tab.posts : q.type = "generate"}} ELSE {}
           w == Blank(tab.handled, tab.saved, dom, posts)
<1>1. posts \subseteq Post /\ \A p \in posts : p.id <= started /\ p.type = "generate" /\ p.stray
  <2>1. \A q \in tab.posts :
          LET p == [q EXCEPT !.stray = TRUE]
          IN p \in Post /\ p.id <= started /\ p.type = q.type /\ p.stray
    BY DEF PageInv, Sane, Tab, Post
  <2> QED
    BY <2>1
<1>0. kind # "late" => posts = {}
  OBVIOUS
<1> HIDE DEF posts
<1>2. \A s \in Sessions : s > started => dom[s] = Clean
  BY DEF PageInv, Known, Sane, Served
<1>3. /\ w \in Tab /\ w.state = "IDLE" /\ w.current = NoSession /\ w.answers = {} /\ w.posts = posts
      /\ w.handled = tab.handled /\ w.saved = tab.saved /\ w.dom = dom /\ w.timers = {}
  <2>1. tab.handled \in [Sessions -> 0..HandledKept] /\ tab.saved \in Saved
    BY DEF PageInv, Sane, Tab
  <2> QED
    BY <1>1, <2>1, BoundsAssumption DEF Blank, Tab, State
<1>4. started \in Nat /\ tab.handled \in [Sessions -> 0..HandledKept]
  BY BoundsAssumption DEF PageInv, Known, Sane, Tab
<1>5. Sane(w)
  <2> HIDE DEF w
  <2> QED
    BY <1>1, <1>2, <1>3, <1>4, NoSessionOutside DEF PageInv, Sane, Ids
<1>6. PICK x \in Runtime(w) :
        v = [Resume(w, x) EXCEPT !.state = IF @ = "IDLE" THEN "PICKING" ELSE @,
                                 !.deferred = (Resume(w, x).current = NoSession \/ x = NoSession)]
  BY DEF Load, posts
<1> HIDE DEF w
<1> DEFINE r == Resume(w, x)
<1>7. Kept(w, r)
  BY <1>5, RuntimeInSessions, ResumeKeeps DEF PageInv
<1>8. v = [r EXCEPT !.state = IF @ = "IDLE" THEN "PICKING" ELSE @,
                    !.deferred = (r.current = NoSession \/ x = NoSession)]
  BY <1>6
<1> HIDE DEF r
<1>9. r.state # "SAVING" /\ r.answers = {} /\ Sane(r)
  BY <1>3, <1>7 DEF Kept, Shift
<1>10. v \in Tab /\ v.posts = r.posts
  BY <1>8, <1>9 DEF Sane, Tab, State
<1>11. r.posts \subseteq posts
  BY <1>3, <1>7 DEF Kept, Shift
<1>12. Sane(v) /\ v.state # "SAVING" /\ v.answers = {}
  BY <1>8, <1>9, <1>10 DEF Sane, Tab
<1> QED
  BY <1>0, <1>1, <1>10, <1>11, <1>12

LEMMA ReloadKeeps == PageInv /\ Reload => PageInv'
<1> SUFFICES ASSUME PageInv, Reload
             PROVE  PageInv'
  OBVIOUS
<1>1. PICK dom \in [Sessions -> Markup], kind \in {"reload", "again", "late"} :
        /\ faults' = faults \cup {"again"} \/ Strikes(kind)
        /\ \A s \in Sessions : dom[s] \in Served(s)
        /\ tab' \in Load(dom, kind)
  BY DEF Reload
<1>2. /\ Sane(tab') /\ tab'.state # "SAVING" /\ tab'.answers = {}
      /\ \A p \in tab'.posts : p.type = "generate" /\ p.stray
  BY <1>1, LoadKeeps
<1>3. Sane(tab)'
  BY <1>2 DEF Reload, Sane
<1>4. SavingHasAnAccept' /\ Ordered'
  BY <1>2 DEF SavingHasAnAccept, Ordered, CreationBeforeProgress, Waits, Single
<1>5. Known' /\ Rest'
  <2>1. UNCHANGED <<source, journal, started>> /\ stream' = "closed" /\ events' = <<>>
    BY DEF Reload
  <2>2. faults' \subseteq Fault
    BY <1>1, StrikesKeeps DEF PageInv, Rest, Fault
  <2>3. <<>> \in Seq(Event)
    OBVIOUS
  <2> QED
    BY <2>1, <2>2, <2>3 DEF PageInv, Known, Rest
<1> QED
  BY <1>3, <1>4, <1>5 DEF PageInv

\* The user.
LEMMA ConfigureKeeps == PageInv /\ (Pick \/ ExitConfigure) => PageInv'
<1> SUFFICES ASSUME PageInv, Pick \/ ExitConfigure
             PROVE  PageInv'
  OBVIOUS
<1>1. tab' = [tab EXCEPT !.state = "PICKING"] \/ tab' = [tab EXCEPT !.state = "CONFIGURING"]
  BY DEF Pick, ExitConfigure, BeginNewConfiguration
<1>2. UNCHANGED world
  BY DEF Pick, ExitConfigure
<1>3. tab' \in Tab
  BY <1>1 DEF PageInv, Sane, Tab, State
<1>4. Kept(tab, tab')
  BY <1>1, <1>3 DEF PageInv, Kept, Sane, Shift, Tab
<1>5. Sane(tab)' /\ SavingHasAnAccept' /\ Ordered'
  BY <1>2, <1>4, KeptStep DEF world, surroundings
<1>6. Known' /\ Rest'
  BY <1>2 DEF world, surroundings, PageInv, Known, Rest
<1> QED
  BY <1>5, <1>6 DEF PageInv

LEMMA GoKeeps == PageInv /\ Go => PageInv'
<1> SUFFICES ASSUME PageInv, Go
             PROVE  PageInv'
  OBVIOUS
<1> DEFINE id == started + 1
           post(type) == [type |-> type, id |-> id, stray |-> FALSE]
<1>0. PICK type \in {"generate", "upload"} :
        tab' = SaveSession([tab EXCEPT !.pending = NoSession, !.awaiting = NoSession,
                 !.current = id, !.arrived = 0, !.file = FALSE, !.state = "GENERATING",
                 !.observer = id, !.posts = @ \cup {post(type)}])
  BY DEF Go
<1> DEFINE p  == post(type)
           w  == [tab EXCEPT !.pending = NoSession, !.awaiting = NoSession,
                    !.current = id, !.arrived = 0, !.file = FALSE, !.state = "GENERATING",
                    !.observer = id, !.posts = @ \cup {p}]
<1>1. tab' = SaveSession(w) /\ started' = id /\ UNCHANGED <<source, journal, stream, events>>
  BY <1>0 DEF Go
<1>2. id \in Sessions /\ started \in Nat /\ id \in Nat /\ started < id
  BY BoundsAssumption DEF Go, PageInv, Known, Sessions
<1>3. p \in Post /\ p.id = id /\ p.type \in {"generate", "upload"}
  BY <1>2 DEF Post
<1> HIDE DEF p, id
<1>4. w \in Tab
  <2>1. tab \in Tab /\ tab.posts \cup {p} \subseteq Post
    BY <1>3 DEF PageInv, Sane, Tab
  <2>2. "GENERATING" \in State /\ 0 \in 0..Count
    BY BoundsAssumption DEF State
  <2> QED
    BY <1>2, <2>1, <2>2 DEF Tab
<1>5. /\ w.current = id /\ w.saved = tab.saved /\ w.handled = tab.handled /\ w.answers = tab.answers
      /\ w.posts = tab.posts \cup {p} /\ w.dom = tab.dom /\ w.timers = tab.timers
      /\ w.state = "GENERATING" /\ w.arrived \in 0..Count /\ w.file = FALSE
  BY <1>4 DEF PageInv, Sane, Tab
<1> HIDE DEF w
<1> DEFINE rec == [id |-> w.current, state |-> w.state, arrived |-> w.arrived, file |-> w.file]
<1>6. rec \in Saved /\ rec.id = id
  BY <1>2, <1>5 DEF Saved, State
<1> HIDE DEF rec
<1>7. tab' = [w EXCEPT !.saved = rec]
  BY <1>1, <1>2, <1>5, NoSessionOutside DEF SaveSession, rec
<1>8. /\ tab' \in Tab /\ tab'.current = id /\ tab'.saved = rec /\ tab'.handled = tab.handled
      /\ tab'.answers = tab.answers /\ tab'.posts = tab.posts \cup {p} /\ tab'.dom = tab.dom
      /\ tab'.timers = tab.timers /\ tab'.state = "GENERATING"
  BY <1>4, <1>5, <1>6, <1>7 DEF Tab
<1>9. Sane(tab)'
  <2>1. /\ tab.handled \in [Sessions -> 0..HandledKept] /\ \A q \in tab.posts : q.id \in Nat
        /\ \A a \in tab.answers : a.id \in Nat
    BY NoSessionOutside DEF PageInv, Sane, Tab, Post, Answer
  <2>2. id \notin Ids(tab.handled)
    BY <1>2 DEF PageInv, Sane
  <2>3. /\ \A s \in Ids(tab'.handled) : s <= id
        /\ \A q \in tab'.posts : q.id <= id
        /\ \A a \in tab'.answers : a.id <= id
    <3>1. \A n \in Nat : n <= started => n <= id
      BY <1>2
    <3>2. \A q \in tab.posts : q.id <= started
      BY DEF PageInv, Sane
    <3>3. \A a \in tab.answers : a.id <= started
      BY DEF PageInv, Sane
    <3>4. \A s \in Ids(tab.handled) : s <= started
      BY DEF PageInv, Sane
    <3>5. \A s \in Ids(tab'.handled) : s <= id
      BY <1>8, <2>1, <3>1, <3>4, NoSessionOutside DEF Ids
    <3>6. \A q \in tab'.posts : q.id <= id
      BY <1>2, <1>3, <1>8, <2>1, <3>1, <3>2
    <3>7. \A a \in tab'.answers : a.id <= id
      BY <1>8, <2>1, <3>1, <3>3
    <3> QED
      BY <3>5, <3>6, <3>7
  <2>4. \A s \in Sessions : s > id => tab'.dom[s] = Clean
    BY <1>2, <1>8, NoSessionOutside DEF PageInv, Sane
  <2>5. \A t \in tab'.timers : t.kind \in {"reread", "orphan"} => t.tries < Rereads
    BY <1>8 DEF PageInv, Sane
  <2> QED
    BY <1>1, <1>2, <1>6, <1>8, <2>2, <2>3, <2>4, <2>5 DEF Sane
<1>10. SavingHasAnAccept'
  BY <1>8 DEF SavingHasAnAccept
<1>11. Ordered'
  <2>1. (\A a \in tab.answers : a.id # id) /\ (\A c \in tab.posts : c.id # id)
    BY <1>2 DEF PageInv, Sane
  <2>2. "early" \notin faults' => "early" \notin faults
    BY DEF Go, Strikes
  <2> QED
    <3>1. CreationBeforeProgress' /\ Waits'
      BY <1>3, <1>8, <2>1, <2>2 DEF PageInv, Ordered, CreationBeforeProgress, Waits
    <3>2. ~p.stray
      BY DEF p
    <3>3. Single'
      BY <1>3, <1>8, <2>1, <3>2 DEF PageInv, Ordered, Single
    <3> QED
      BY <3>1, <3>3 DEF Ordered
<1>12. Known'
  BY <1>1, <1>2, NoSessionOutside DEF PageInv, Known, Sessions
<1>13. Rest'
  BY <1>1, StrikesKeeps DEF Go, PageInv, Rest, Fault
<1> QED
  BY <1>9, <1>10, <1>11, <1>12, <1>13 DEF PageInv

\* What is asked of the helper is answered, in the page's memory.
LEMMA AskKeeps ==
  ASSUME PageInv, NEW w, NEW type \in {"accept", "discard"}, NEW id \in Sessions,
         NEW phase \in Phase, Ask(w, type, id, phase), UNCHANGED surroundings,
         Sane(w), w.answers = tab.answers, w.posts = tab.posts, id <= started,
         w.state = "SAVING" =>
           \/ w.pending = w.current /\ w.current = id /\ type = "accept"
           \/ w.state = tab.state /\ w.current = tab.current /\ w.pending = tab.pending
  PROVE  PageInv'
<1>1. PICK ok \in BOOLEAN, reaches \in BOOLEAN :
        /\ journal' = IF reaches /\ Acts(id) THEN [journal EXCEPT ![id] = phase] ELSE journal
        /\ tab' = [w EXCEPT !.answers = @ \cup {[type |-> type, id |-> id, ok |-> ok]}]
        /\ UNCHANGED faults \/ Strikes("post")
  BY DEF Ask
<1> DEFINE a == [type |-> type, id |-> id, ok |-> ok]
<1>2. a \in Answer /\ a.id = id /\ a.type = type
  BY DEF Answer
<1> HIDE DEF a
<1>3. tab' = [w EXCEPT !.answers = @ \cup {a}]
  BY <1>1 DEF a
<1>4. tab' \in Tab
  BY <1>2, <1>3 DEF Sane, Tab
<1>5. /\ tab'.answers = tab.answers \cup {a} /\ tab'.posts = tab.posts
      /\ tab'.current = w.current /\ tab'.pending = w.pending /\ tab'.state = w.state
      /\ tab'.handled = w.handled /\ tab'.saved = w.saved /\ tab'.dom = w.dom /\ tab'.timers = w.timers
  BY <1>3 DEF Sane, Tab
<1>6. UNCHANGED <<source, stream, events, started>>
  BY DEF surroundings
<1>7. Sane(tab)'
  BY <1>2, <1>4, <1>5, <1>6 DEF Sane
<1>8. SavingHasAnAccept'
  BY <1>2, <1>5 DEF PageInv, SavingHasAnAccept
<1>9. Ordered'
  <2>1. "early" \notin faults' => "early" \notin faults
    BY <1>1 DEF Strikes
  <2> QED
    BY <1>2, <1>5, <2>1 DEF PageInv, Ordered, CreationBeforeProgress, Waits, Single
<1>10. Known'
  BY <1>1, <1>6 DEF PageInv, Known, Sessions
<1>11. Rest'
  BY <1>1, <1>6, StrikesKeeps DEF PageInv, Rest, Fault
<1> QED
  BY <1>7, <1>8, <1>9, <1>10, <1>11 DEF PageInv

LEMMA AcceptKeeps == PageInv /\ Accept => PageInv'
<1> SUFFICES ASSUME PageInv, Accept
             PROVE  PageInv'
  OBVIOUS
<1> DEFINE w == [tab EXCEPT !.state = "SAVING", !.pending = tab.current]
<1>1. w \in Tab
  BY DEF PageInv, Sane, Tab, State
<1>2. Sane(w) /\ w.answers = tab.answers /\ w.posts = tab.posts /\ w.pending = w.current /\ w.current = tab.current
  BY <1>1 DEF PageInv, Sane, Tab
<1>3. tab.current \in Sessions /\ tab.current <= started /\ UNCHANGED surroundings
  BY DEF Accept, PageInv, Sane, Tab
<1>4. Ask(SaveSession(w), "accept", tab.current, "accepting")
  BY DEF Accept
<1> HIDE DEF w
<1> DEFINE v == SaveSession(w)
<1>5. Sane(v) /\ v.answers = tab.answers /\ v.posts = tab.posts /\ v.pending = v.current /\ v.current = tab.current
  <2>1. Sane(v)
    BY <1>2, SaveSessionKeeps DEF Kept
  <2> QED
    BY <1>1, <1>2, <2>1 DEF SaveSession, Tab
<1> HIDE DEF v
<1>6. Ask(v, "accept", tab.current, "accepting") /\ "accepting" \in Phase
  BY <1>4 DEF v, Phase
<1> QED
  BY <1>3, <1>5, <1>6, AskKeeps

LEMMA DiscardKeeps == PageInv /\ Discard => PageInv'
<1> SUFFICES ASSUME PageInv, Discard
             PROVE  PageInv'
  OBVIOUS
<1>1. tab.current \in Sessions /\ tab.current <= started /\ Sane(tab)
  BY DEF Discard, PageInv, Sane, Tab
<1>2. Ask(tab, "discard", tab.current, "discarding") /\ UNCHANGED surroundings /\ "discarding" \in Phase
  BY DEF Discard, Phase
<1> QED
  BY <1>1, <1>2, AskKeeps

\* What the page does by itself posts no generate.
NoNewGenerate == \A p \in tab'.posts : p \in tab.posts \/ p.type = "checkpoint"

\* The page: a handler is a tab that keeps, or answers of which one is used up.
LEMMA AnsweredKeeps == PageInv /\ Answered => PageInv' /\ NoNewGenerate
<1> SUFFICES ASSUME PageInv, Answered
             PROVE  PageInv' /\ NoNewGenerate
  OBVIOUS
<1> DEFINE without(a) == [tab EXCEPT !.answers = @ \ {a}]
<1>1. PICK a \in tab.answers :
        tab' = CASE a.type = "accept"     -> AcceptAnswered(without(a), a)
                 [] a.type = "discard"    -> DiscardAnswered(without(a), a)
                 [] a.type = "checkpoint" -> CheckpointAnswered(without(a), a)
                 [] OTHER                 -> without(a)
  BY DEF Answered
<1> DEFINE w == without(a)
<1>2. UNCHANGED world
  BY DEF Answered
<1>3. a \in Answer /\ a.type \in {"accept", "discard", "checkpoint"}
  BY DEF PageInv, Sane, Tab, Answer
<1>4. w \in Tab
  BY DEF PageInv, Sane, Tab
<1>5. Sane(w) /\ Known
  BY <1>4 DEF PageInv, Sane, Tab
<1>6. /\ w.answers = tab.answers \ {a} /\ w.posts = tab.posts /\ w.state = tab.state
      /\ w.current = tab.current /\ w.pending = tab.pending
  BY DEF PageInv, Sane, Tab
<1> HIDE DEF w
<1>7. /\ Kept(w, tab')
      /\ a.type = "accept" /\ tab'.state = "SAVING" => w.pending # a.id
  <2>1. CASE a.type = "accept"
    BY <1>1, <1>3, <1>5, <2>1, AcceptAnsweredKeeps DEF w
  <2>2. CASE a.type = "discard"
    BY <1>1, <1>5, <2>2, OtherAnswersKeep DEF w
  <2>3. CASE a.type = "checkpoint"
    BY <1>1, <1>5, <2>3, OtherAnswersKeep DEF w
  <2> QED
    BY <1>3, <2>1, <2>2, <2>3
<1>8. Sane(tab)' /\ Known' /\ Rest'
  BY <1>2, <1>7 DEF world, surroundings, PageInv, Kept, Sane, Known, Rest
<1>9. SavingHasAnAccept'
  BY <1>6, <1>7 DEF PageInv, SavingHasAnAccept, Kept, Shift
<1>10. Ordered'
  BY <1>2, <1>6, <1>7 DEF PageInv, Ordered, CreationBeforeProgress, Waits, Single, Kept, Shift, world
<1> QED
  BY <1>6, <1>7, <1>8, <1>9, <1>10 DEF PageInv, NoNewGenerate, Kept, Shift

LEMMA HearKeeps == PageInv /\ Hear => PageInv' /\ NoNewGenerate
<1> SUFFICES ASSUME PageInv, Hear
             PROVE  PageInv' /\ NoNewGenerate
  OBVIOUS
<1> DEFINE e == Head(events)
<1>1. e \in Event /\ events' \in Seq(Event)
  BY DEF Hear, PageInv, Rest
<1>2. e.id \in Sessions /\ e.type \in {"done", "complete", "discarded", "error"}
  BY <1>1 DEF Event
<1>3. /\ tab' = CASE e.type = "done"      -> DoneSeen(tab, e.id)
                  [] e.type = "complete"  -> CompleteSeen(tab, e.id)
                  [] e.type = "discarded" -> DiscardedSeen(tab, e.id)
                  [] e.type = "error"     -> ErrorSeen(tab, e.id)
      /\ UNCHANGED <<source, journal, stream, started, faults>>
  BY DEF Hear
<1>4. Sane(tab) /\ Known /\ (tab.state = "SAVING" => tab.pending = tab.current)
  BY DEF PageInv, SavingHasAnAccept
<1> HIDE DEF e
<1>5. Kept(tab, tab')
  <2>1. CASE e.type = "done"
    BY <1>2, <1>3, <1>4, <2>1, DoneSeenKeeps
  <2>2. CASE e.type = "complete"
    BY <1>2, <1>3, <1>4, <2>2, CompleteSeenKeeps
  <2>3. CASE e.type = "discarded"
    BY <1>2, <1>3, <1>4, <2>3, DiscardedSeenKeeps
  <2>4. CASE e.type = "error"
    BY <1>2, <1>3, <1>4, <2>4, ErrorSeenKeeps
  <2> QED
    BY <1>2, <2>1, <2>2, <2>3, <2>4
<1>6. Sane(tab)' /\ SavingHasAnAccept' /\ Ordered'
  BY <1>3, <1>5, KeptStep
<1>7. Known' /\ Rest'
  BY <1>1, <1>3 DEF PageInv, Known, Rest
<1> QED
  BY <1>5, <1>6, <1>7 DEF PageInv, NoNewGenerate, Kept, Shift

LEMMA ConnectKeeps == PageInv /\ Connect => PageInv' /\ NoNewGenerate
<1> SUFFICES ASSUME PageInv, Connect
             PROVE  PageInv' /\ NoNewGenerate
  OBVIOUS
<1> DEFINE chosen(rec) == IF Wrappers(tab) = {} /\ CanRestore(tab, rec, TRUE)
                          THEN Restore(tab, rec, TRUE) ELSE tab
<1>1. PICK rec \in Records(tab, TRUE) :
        tab' = [MissedCompletion(chosen(rec)) EXCEPT !.state = IF @ = "IDLE" THEN "PICKING" ELSE @]
  BY DEF Connect
<1>2. rec \in Saved /\ rec.id <= started
  <2>1. CASE rec = tab.saved \/ rec = NoSaved
    BY <2>1, NoSavedFacts, NoSessionOutside, BoundsAssumption DEF PageInv, Sane, Known, Tab
  <2>2. CASE \E s \in Adoptable(tab), n \in {0, Count} :
               rec = [id |-> s, state |-> "GENERATING", arrived |-> n, file |-> TRUE]
    <3>1. PICK s \in Adoptable(tab), n \in {0, Count} :
            rec = [id |-> s, state |-> "GENERATING", arrived |-> n, file |-> TRUE]
      BY <2>2
    <3>2. s \in Sessions /\ s <= started
      BY NoSessionOutside, BoundsAssumption DEF PageInv, Known, Adoptable
    <3> QED
      BY <3>1, <3>2, BoundsAssumption DEF Saved, State
  <2> QED
    BY <2>1, <2>2 DEF Records
<1> DEFINE w == chosen(rec)
           m == MissedCompletion(w)
<1>3. Kept(tab, w)
  <2>1. Kept(tab, tab)
    BY KeptSame DEF PageInv
  <2>2. CanRestore(tab, rec, TRUE) => Kept(tab, Restore(tab, rec, TRUE))
    BY <1>2, RestoreKeeps DEF PageInv, CanRestore
  <2> QED
    BY <2>1, <2>2
<1> HIDE DEF w
<1>4. Kept(tab, m)
  <2>1. Kept(w, m)
    BY <1>3, MissedCompletionKeeps DEF Kept
  <2> QED
    BY <1>3, <2>1, KeptTransitive
<1>5. tab' = [m EXCEPT !.state = IF @ = "IDLE" THEN "PICKING" ELSE @]
  BY <1>1 DEF w
<1> HIDE DEF m
<1>6. tab' \in Tab
  BY <1>4, <1>5 DEF Kept, Sane, Tab, State
<1>7. Kept(tab, tab')
  BY <1>4, <1>5, <1>6 DEF Kept, Sane, Shift, Tab
<1>8. Sane(tab)' /\ SavingHasAnAccept' /\ Ordered'
  BY <1>7, KeptStep DEF Connect, MayMove
<1>9. Known' /\ Rest'
  BY MayMoveKeeps DEF Connect, PageInv, Known, Rest
<1> QED
  BY <1>7, <1>8, <1>9 DEF PageInv, NoNewGenerate, Kept, Shift

LEMMA StreamKeeps == PageInv /\ (StreamDrops \/ ServerLost) => PageInv'
<1> SUFFICES ASSUME PageInv, StreamDrops \/ ServerLost
             PROVE  PageInv'
  OBVIOUS
<1>1. Kept(tab, tab')
  <2> DEFINE w == [tab EXCEPT !.observer = NoSession,
                     !.state = IF tab.current = NoSession THEN "IDLE" ELSE @]
  <2>1. w \in Tab
    BY DEF PageInv, Sane, Tab, State
  <2>2. Kept(tab, w)
    BY <2>1 DEF PageInv, Kept, Sane, Shift, Tab
  <2>3. Kept(tab, SaveSession(w))
    BY <2>2, SaveSessionKeeps, KeptTransitive DEF Kept
  <2>4. Kept(tab, tab)
    BY KeptSame DEF PageInv
  <2> QED
    BY <2>3, <2>4 DEF StreamDrops, ServerLost
<1>2. Sane(tab)' /\ SavingHasAnAccept' /\ Ordered'
  BY <1>1, KeptStep DEF StreamDrops, ServerLost, Strikes
<1>3. Known'
  BY DEF StreamDrops, ServerLost, PageInv, Known
<1>4. Rest'
  <2>1. faults' \subseteq Fault
    BY StrikesKeeps DEF StreamDrops, ServerLost, PageInv, Rest, Fault
  <2>2. stream' \in {"closed", "lost"} /\ (events' = <<>> \/ events' = events)
    BY DEF StreamDrops, ServerLost
  <2>3. <<>> \in Seq(Event)
    OBVIOUS
  <2> QED
    BY <2>1, <2>2, <2>3 DEF PageInv, Rest
<1> QED
  BY <1>2, <1>3, <1>4 DEF PageInv

LEMMA FetchedKeeps == PageInv /\ Fetched => PageInv' /\ NoNewGenerate
<1> SUFFICES ASSUME PageInv, Fetched
             PROVE  PageInv' /\ NoNewGenerate
  OBVIOUS
<1> DEFINE in(t) == Complete(Render(Drop(tab, t), t.id, source[t.id]), t, source[t.id])
<1>1. PICK t \in tab.timers :
        /\ IF source[t.id] \in Wrapped THEN \E x \in Runtime(in(t)) : tab' = Woken(in(t), x)
           ELSE tab' = WrapperMissing(Drop(tab, t), t)
        /\ journal' = IF GivesUp(t) /\ Acts(t.id) THEN [journal EXCEPT ![t.id] = "discarding"]
                      ELSE journal
  BY DEF Fetched
<1>2. UNCHANGED <<source, stream, events, started>> /\ faults' \subseteq Fault
  BY MayMoveKeeps DEF Fetched, surroundings, PageInv
<1>3. t \in Timer /\ t.id \in Sessions
  BY DEF PageInv, Sane, Tab, Timer
<1> DEFINE w == Drop(tab, t)
           r == Render(w, t.id, source[t.id])
           c == Complete(r, t, source[t.id])
<1>4. Kept(tab, w)
  BY DropKeeps DEF PageInv
<1> HIDE DEF w
<1>5. Kept(tab, tab')
  <2>1. CASE source[t.id] \in Wrapped
    <3>1. Kept(tab, r)
      BY <1>3, <1>4, RenderKeeps, KeptTransitive DEF Kept, PageInv
    <3> HIDE DEF r
    <3>2. Kept(r, c)
      BY <1>3, <2>1, <3>1, CompleteKeeps DEF Kept, PageInv
    <3>3. Kept(tab, c)
      BY <3>1, <3>2, KeptTransitive
    <3> HIDE DEF c
    <3>4. PICK x \in Runtime(c) : tab' = Woken(c, x)
      BY <1>1, <2>1 DEF w, r, c
    <3>5. Kept(c, tab')
      BY <3>3, <3>4, RuntimeInSessions, WokenKeeps DEF Kept, PageInv
    <3> QED
      BY <3>3, <3>5, KeptTransitive
  <2>2. CASE source[t.id] \notin Wrapped
    <3>1. Kept(w, WrapperMissing(w, t))
      BY <1>3, <1>4, WrapperMissingKeeps DEF Kept, PageInv
    <3>2. tab' = WrapperMissing(w, t)
      BY <1>1, <2>2 DEF w
    <3> QED
      BY <1>4, <3>1, <3>2, KeptTransitive
  <2> QED
    BY <2>1, <2>2
<1>6. Sane(tab)' /\ SavingHasAnAccept' /\ Ordered'
  BY <1>2, <1>5, KeptStep DEF Fetched, MayMove
<1>7. Known' /\ Rest'
  BY <1>1, <1>2 DEF PageInv, Known, Rest, Acts, Phase
<1> QED
  BY <1>5, <1>6, <1>7 DEF PageInv, NoNewGenerate, Kept, Shift

LEMMA ReadsKeep == PageInv /\ (FetchFails \/ ReadAgain) => PageInv' /\ NoNewGenerate
<1> SUFFICES ASSUME PageInv, FetchFails \/ ReadAgain
             PROVE  PageInv' /\ NoNewGenerate
  OBVIOUS
<1>1. \A t \in tab.timers : Kept(tab, Drop(tab, t))
  BY DropKeeps DEF PageInv
<1>2. \A t \in tab.timers :
        /\ Kept(tab, Fetch(Drop(tab, t), t.id, TRUE, FALSE, 0))
        /\ t.kind \in {"reread", "orphan"} =>
             /\ Kept(tab, Fetch(Drop(tab, t), t.id, t.completed, t.orphan, t.tries + 1))
             /\ Kept(tab, Fetch(Drop(tab, t), t.id, t.completed, TRUE, t.tries + 1))
  <2> TAKE t \in tab.timers
  <2>1. /\ t.id \in Sessions /\ t.completed \in BOOLEAN /\ t.orphan \in BOOLEAN /\ t.tries \in 0..Rereads
        /\ t.kind \in {"reread", "orphan"} => t.tries < Rereads
    BY DEF PageInv, Sane, Tab, Timer
  <2>2. 0 \in 0..Rereads /\ (t.kind \in {"reread", "orphan"} => t.tries + 1 \in 0..Rereads)
    BY <2>1, BoundsAssumption
  <2> DEFINE w == Drop(tab, t)
  <2>3. Kept(tab, w)
    BY <1>1
  <2> HIDE DEF w
  <2>4. /\ Kept(w, Fetch(w, t.id, TRUE, FALSE, 0))
        /\ t.kind \in {"reread", "orphan"} =>
             /\ Kept(w, Fetch(w, t.id, t.completed, t.orphan, t.tries + 1))
             /\ Kept(w, Fetch(w, t.id, t.completed, TRUE, t.tries + 1))
    BY <2>1, <2>2, <2>3, FetchKeeps DEF Kept
  <2>5. /\ Kept(tab, Fetch(w, t.id, TRUE, FALSE, 0))
        /\ t.kind \in {"reread", "orphan"} =>
             /\ Kept(tab, Fetch(w, t.id, t.completed, t.orphan, t.tries + 1))
             /\ Kept(tab, Fetch(w, t.id, t.completed, TRUE, t.tries + 1))
    BY <2>3, <2>4, KeptTransitive
  <2> QED
    BY <2>5 DEF w
<1>3. Kept(tab, tab')
  BY <1>1, <1>2 DEF FetchFails, ReadAgain
<1>4. UNCHANGED <<source, journal, stream, events, started>>
  BY DEF FetchFails, ReadAgain, world, surroundings
<1>5. Sane(tab)' /\ SavingHasAnAccept' /\ Ordered'
  BY <1>3, <1>4, KeptStep DEF FetchFails, ReadAgain, Strikes, world
<1>6. Known'
  BY <1>4 DEF PageInv, Known
<1>7. Rest'
  BY <1>4, StrikesKeeps DEF FetchFails, ReadAgain, world, PageInv, Rest, Fault
<1> QED
  BY <1>3, <1>5, <1>6, <1>7 DEF PageInv, NoNewGenerate, Kept, Shift

LEMMA HmrKeeps ==
  ASSUME PageInv, NEW s \in Sessions, Hmr(s)
  PROVE  PageInv' /\ NoNewGenerate
<1> DEFINE w == Render(tab, s, source[s])
<1>1. Kept(tab, w)
  BY RenderKeeps DEF PageInv
<1>2. PICK x \in Runtime(w) : tab' = Woken(w, x)
  BY DEF Hmr
<1> HIDE DEF w
<1>3. Kept(w, tab')
  BY <1>1, <1>2, RuntimeInSessions, WokenKeeps DEF Kept, PageInv
<1>4. Kept(tab, tab')
  BY <1>1, <1>3, KeptTransitive
<1>5. Sane(tab)' /\ SavingHasAnAccept' /\ Ordered'
  BY <1>4, KeptStep DEF Hmr, MayMove, surroundings
<1>6. Known' /\ Rest'
  BY MayMoveKeeps DEF Hmr, surroundings, PageInv, Known, Rest
<1> QED
  BY <1>4, <1>5, <1>6 DEF PageInv, NoNewGenerate, Kept, Shift

\* The helper refuses progress only when no generate of this page waits.
LEMMA HelperTakesKeeps == PageInv /\ HelperTakes => PageInv'
<1> SUFFICES ASSUME PageInv, HelperTakes
             PROVE  PageInv'
  OBVIOUS
<1> DEFINE refused(p) == [type |-> "checkpoint", id |-> p.id, ok |-> FALSE]
           less(p)    == [tab EXCEPT !.posts = @ \ {p}]
<1>1. PICK p \in tab.posts :
        /\ p.type = "generate" \/ (p.type = "checkpoint" /\ (p.stray \/ ~Gate))
        /\ IF p.type = "generate"
           THEN journal' = [journal EXCEPT ![p.id] = "generating"] /\ tab' = less(p)
           ELSE /\ UNCHANGED journal
                /\ tab' = IF journal[p.id] # "none" THEN less(p)
                          ELSE [less(p) EXCEPT !.answers = @ \cup {refused(p)}]
  BY DEF HelperTakes
<1>2. UNCHANGED <<source, stream, events, started, faults>>
  BY DEF HelperTakes, surroundings
<1>3. p.id \in Sessions /\ p.id <= started /\ p.type \in {"generate", "checkpoint"}
  BY <1>1 DEF PageInv, Sane, Tab, Post
<1> DEFINE a == refused(p)
           w == less(p)
           v == [w EXCEPT !.answers = @ \cup {a}]
<1>4. a \in Answer /\ a.id = p.id /\ a.type = "checkpoint"
  BY <1>3 DEF Answer
<1> HIDE DEF a
<1>5. w \in Tab /\ w.posts = tab.posts \ {p} /\ w.answers = tab.answers
  BY DEF PageInv, Sane, Tab
<1>6. v \in Tab /\ v.posts = tab.posts \ {p} /\ v.answers = tab.answers \cup {a}
  BY <1>4 DEF PageInv, Sane, Tab
<1>7. Sane(w)
  BY <1>5 DEF PageInv, Sane, Tab
<1>8. Sane(v)
  BY <1>3, <1>4, <1>6 DEF PageInv, Sane, Tab
<1>9. CASE tab' = w
  <2>1. Kept(tab, tab')
    BY <1>7, <1>9 DEF Kept, Shift, PageInv, Sane, Tab
  <2>2. Sane(tab)' /\ SavingHasAnAccept' /\ Ordered'
    BY <1>2, <2>1, KeptStep
  <2>3. Known' /\ Rest'
    BY <1>1, <1>2, <1>3, NoSessionOutside, BoundsAssumption DEF PageInv, Known, Rest, Phase
  <2> QED
    BY <2>2, <2>3 DEF PageInv
<1>10. CASE tab' = v /\ UNCHANGED journal /\ p.type # "generate"
  <2>1. Sane(tab)'
    BY <1>2, <1>8, <1>10 DEF Sane
  <2>2. ASSUME "early" \notin faults, NEW q \in tab.posts,
               q.type \in {"generate", "upload"}, q.id = p.id
        PROVE  q.stray
    BY <1>1, <1>3, <1>10, <2>2 DEF Gate, PageInv, Ordered, Waits
  <2>3. Ordered'
    <3>1. CreationBeforeProgress'
      BY <1>2, <1>4, <1>6, <1>10, <2>2 DEF PageInv, Ordered, CreationBeforeProgress
    <3>2. Waits' /\ Single'
      BY <1>2, <1>6, <1>10 DEF PageInv, Ordered, Waits, Single
    <3> QED
      BY <3>1, <3>2 DEF Ordered
  <2>4. SavingHasAnAccept'
    BY <1>6, <1>10 DEF PageInv, SavingHasAnAccept, Sane, Tab
  <2>5. Known' /\ Rest'
    BY <1>2, <1>10 DEF PageInv, Known, Rest
  <2> QED
    BY <2>1, <2>3, <2>4, <2>5 DEF PageInv
<1> QED
  BY <1>1, <1>9, <1>10 DEF a

\* An upload that ends becomes the generate it was for.
LEMMA UploadedKeeps == PageInv /\ Uploaded => PageInv'
<1> SUFFICES ASSUME PageInv, Uploaded
             PROVE  PageInv'
  OBVIOUS
<1>1. PICK p \in tab.posts :
        /\ p.type = "upload"
        /\ tab' = [tab EXCEPT !.posts = (@ \ {p}) \cup {[p EXCEPT !.type = "generate"]}]
  BY DEF Uploaded
<1> DEFINE g == [p EXCEPT !.type = "generate"]
           w == [tab EXCEPT !.posts = (@ \ {p}) \cup {g}]
<1>2. g \in Post /\ g.id = p.id /\ g.stray = p.stray /\ g.type = "generate" /\ p.id <= started
  BY DEF PageInv, Sane, Tab, Post
<1>3. UNCHANGED <<source, journal, stream, events, started, faults>>
  BY DEF Uploaded, world, surroundings
<1>4. tab' = w
  BY <1>1
<1> HIDE DEF g
<1>5. w \in Tab /\ w.posts = (tab.posts \ {p}) \cup {g}
  BY <1>2 DEF PageInv, Sane, Tab
<1>6. Sane(tab)' /\ SavingHasAnAccept'
  BY <1>2, <1>3, <1>4, <1>5 DEF PageInv, Sane, Tab, SavingHasAnAccept
<1>7. tab'.answers = tab.answers /\ tab'.posts = (tab.posts \ {p}) \cup {g}
  BY <1>4, <1>5 DEF PageInv, Sane, Tab
<1> HIDE DEF w
<1>8. CreationBeforeProgress'
  BY <1>1, <1>2, <1>3, <1>7 DEF PageInv, Ordered, CreationBeforeProgress
<1>9. Waits' /\ Single'
  BY <1>1, <1>2, <1>3, <1>7 DEF PageInv, Ordered, Waits, Single, Sane, Tab, Post
<1>10. Known' /\ Rest'
  BY <1>3 DEF PageInv, Known, Rest
<1> QED
  BY <1>6, <1>8, <1>9, <1>10 DEF PageInv, Ordered

\* What the timer reports waits for a generate that waits for its answer.
LEMMA ReportKeeps == PageInv /\ Report => PageInv' /\ NoNewGenerate
<1> SUFFICES ASSUME PageInv, Report
             PROVE  PageInv' /\ NoNewGenerate
  OBVIOUS
<1> DEFINE w == [tab EXCEPT !.queued = FALSE]
           c == [type |-> "checkpoint", id |-> tab.current, stray |-> ~Gate]
<1>1. UNCHANGED <<source, journal, stream, events, started>>
  BY DEF Report, surroundings
<1>2. w \in Tab
  BY DEF PageInv, Sane, Tab
<1>3. Known' /\ Rest'
  BY <1>1 DEF PageInv, Known, Rest, Report, Fault
<1>4. CASE tab' = w /\ UNCHANGED faults
  <2>1. Kept(tab, tab')
    BY <1>2, <1>4 DEF PageInv, Kept, Sane, Shift, Tab
  <2>2. Sane(tab)' /\ SavingHasAnAccept' /\ Ordered'
    BY <1>1, <1>4, <2>1, KeptStep
  <2> QED
    BY <1>3, <2>1, <2>2 DEF PageInv, NoNewGenerate, Kept, Shift
<1>5. CASE /\ tab.current # NoSession
           /\ tab' = [w EXCEPT !.posts = @ \cup {c}]
           /\ faults' = IF \E q \in tab.posts : q.type = "upload" /\ q.id = tab.current
                        THEN faults \cup {"early"} ELSE faults
  <2>1. /\ c \in Post /\ c.type = "checkpoint" /\ c.id = tab.current /\ c.stray = ~Gate
        /\ tab.current <= started
    BY <1>5 DEF PageInv, Sane, Tab, Post, Gate
  <2> HIDE DEF c
  <2>2. tab' \in Tab /\ tab'.posts = tab.posts \cup {c} /\ tab'.answers = tab.answers
    BY <1>2, <1>5, <2>1 DEF PageInv, Sane, Tab
  <2>3. Sane(tab)' /\ SavingHasAnAccept'
    BY <1>1, <1>5, <2>1, <2>2 DEF PageInv, Sane, Tab, SavingHasAnAccept
  <2>4. faults \subseteq faults'
    BY <1>5
  <2>5. CreationBeforeProgress'
    BY <2>1, <2>2, <2>4 DEF PageInv, Ordered, CreationBeforeProgress
  <2>6. ASSUME "early" \notin faults', NEW q \in tab.posts, q.type \in {"generate", "upload"},
               q.id = c.id, ~q.stray
        PROVE  q.type = "generate" /\ ~c.stray
    BY <1>5, <2>1, <2>6 DEF Gate
  <2>7. Waits' /\ Single'
    BY <2>1, <2>2, <2>4, <2>6 DEF PageInv, Ordered, Waits, Single
  <2> QED
    BY <1>3, <2>1, <2>2, <2>3, <2>5, <2>7 DEF PageInv, Ordered, NoNewGenerate
<1> QED
  BY <1>4, <1>5 DEF Report

LEMMA PostLostKeeps == PageInv /\ PostLost => PageInv'
<1> SUFFICES ASSUME PageInv, PostLost
             PROVE  PageInv'
  OBVIOUS
<1>1. PICK p \in tab.posts : p.type # "upload" /\ tab' = [tab EXCEPT !.posts = @ \ {p}]
  BY DEF PostLost
<1>2. tab' \in Tab
  BY <1>1 DEF PageInv, Sane, Tab
<1>3. Kept(tab, tab')
  BY <1>1, <1>2 DEF PageInv, Kept, Sane, Shift, Tab
<1>4. Sane(tab)' /\ SavingHasAnAccept' /\ Ordered'
  BY <1>3, KeptStep DEF PostLost, Strikes, surroundings
<1>5. Known' /\ Rest'
  BY StrikesKeeps DEF PostLost, surroundings, PageInv, Known, Rest, Fault
<1> QED
  BY <1>4, <1>5 DEF PageInv

LEMMA AgentKeeps == ASSUME PageInv, NEW s \in Sessions, Agent(s) \/ AgentFails(s) PROVE PageInv'
<1>1. Kept(tab, tab')
  <2>1. CASE UNCHANGED tab
    BY <2>1, KeptSame DEF PageInv
  <2>2. CASE AgentWrites(s)
    <3>1. tab' = [tab EXCEPT !.file = @ \/ (stream = "open" /\ tab.current = s)]
      BY <2>2 DEF AgentWrites
    <3>2. tab' \in Tab
      BY <3>1 DEF PageInv, Sane, Tab
    <3> QED
      BY <3>1, <3>2 DEF PageInv, Kept, Sane, Shift, Tab
  <2> QED
    BY <2>1, <2>2 DEF Agent, AgentDone, AgentPromotes, AgentDiscards, AgentFails
<1>2. UNCHANGED <<stream, started>>
  BY DEF Agent, AgentWrites, AgentDone, AgentPromotes, AgentDiscards, AgentFails
<1>3. Sane(tab)' /\ SavingHasAnAccept' /\ Ordered'
  BY <1>1, <1>2, KeptStep DEF Agent, AgentWrites, AgentDone, AgentPromotes, AgentDiscards,
     AgentFails, Strikes
<1>4. Known'
  <2>1. source' \in [Sessions -> Markup] /\ \A r \in Sessions \ {s} : source'[r] = source[r]
    BY MarkupFacts DEF PageInv, Known, Agent, AgentWrites, AgentDone, AgentPromotes,
       AgentDiscards, AgentFails
  <2>2. journal' \in [Sessions -> Phase] /\ \A r \in Sessions \ {s} : journal'[r] = journal[r]
    BY DEF PageInv, Known, Phase, Agent, AgentWrites, AgentDone, AgentPromotes,
       AgentDiscards, AgentFails
  <2>3. journal[s] # "none"
    BY DEF Agent, AgentWrites, AgentDone, AgentPromotes, AgentDiscards, AgentFails
  <2> QED
    BY <1>2, <2>1, <2>2, <2>3 DEF PageInv, Known
<1>5. Rest'
  <2>1. events' \in Seq(Event)
    BY TellKeeps DEF PageInv, Rest, Agent, AgentWrites, AgentDone, AgentPromotes,
       AgentDiscards, AgentFails
  <2>2. faults' \subseteq Fault
    BY StrikesKeeps DEF PageInv, Rest, Fault, Agent, AgentWrites, AgentDone, AgentPromotes,
       AgentDiscards, AgentFails
  <2> QED
    BY <1>2, <2>1, <2>2 DEF PageInv, Rest
<1> QED
  BY <1>3, <1>4, <1>5 DEF PageInv

LEMMA NextKeepsPage == PageInv /\ [Next]_vars => PageInv'
<1> SUFFICES ASSUME PageInv, [Next]_vars
             PROVE  PageInv'
  OBVIOUS
<1>1. CASE User
  BY <1>1, ConfigureKeeps, GoKeeps, AcceptKeeps, DiscardKeeps DEF User
<1>2. CASE Page
  BY <1>2, AnsweredKeeps, HearKeeps, ConnectKeeps, FetchedKeeps, ReadsKeep,
     UploadedKeeps, ReportKeeps DEF Page
<1>3. CASE Environment
  BY <1>3, ReloadKeeps, StreamKeeps, ReadsKeep, PostLostKeeps DEF Environment
<1>4. CASE HelperTakes
  BY <1>4, HelperTakesKeeps
<1>5. CASE \E s \in Sessions : Hmr(s) \/ Agent(s) \/ AgentFails(s)
  BY <1>5, HmrKeeps, AgentKeeps
<1>6. CASE UNCHANGED vars
  BY <1>6 DEF vars, PageInv, Sane, Known, Rest, SavingHasAnAccept, Ordered, CreationBeforeProgress, Waits, Single
<1> QED
  BY <1>1, <1>2, <1>3, <1>4, <1>5, <1>6 DEF Next

LEMMA PageAlways == Spec => []PageInv
BY InitPage, NextKeepsPage, PTL DEF Spec

\* The page, its storage, its markup and what is on its way are always what
\* Tab and the other types say (live-browser.js).
THEOREM TypeCorrect == Spec => []TypeOK
<1>1. PageInv => TypeOK
  BY DEF PageInv, Sane, Known, Rest, TypeOK
<1> QED
  BY <1>1, PageAlways, PTL

\* No reload, however many there are, event, answer, read or change of the markup
\* makes one of the sessions the page gave up last its own again, as many as the
\* browser remembers (markSessionHandled), whatever the trouble.
THEOREM NothingComesBack == Spec => []HandledStaysAway
<1>1. PageInv => HandledStaysAway
  BY DEF PageInv, Sane, HandledStaysAway
<1> QED
  BY <1>1, PageAlways, PTL

\* A page that says it is saving has an accept out whose answer, or failure,
\* ends the saving (handleAccept).
THEOREM SavingEnds == Spec => []SavingHasAnAccept
<1>1. PageInv => SavingHasAnAccept
  BY DEF PageInv
<1> QED
  BY <1>1, PageAlways, PTL

\* The page is never told that the helper has no session of which it still has
\* the generate to send (sessionCreationGate), unless it reported progress of it
\* while the annotations of its Go were captured.
THEOREM CreatedFirst == Spec => []CreationBeforeProgress
<1>1. PageInv => CreationBeforeProgress
  BY DEF PageInv, Ordered
<1> QED
  BY <1>1, PageAlways, PTL

-----------------------------------------------------------------------------
(* Work is not given up.                                                     *)
(*                                                                           *)
(* A page makes the helper's session its own by three things it knows: a     *)
(* generate it posted, an answer it got, an event it hears.  The invariant   *)
(* says what each of them tells of the helper's journal until it is used.    *)

Spared == faults \cap {"late", "moved", "early", "agent"} = {}

\* A session the helper has not heard of, while its generate is on the way: the
\* page waits for it or has turned to another for good, and no read that could
\* give it up is under way.
Unborn(w, s) ==
  /\ journal[s] = "none" /\ source[s] = Clean /\ w.dom[s] = Clean
  /\ s \notin Ids(w.handled)
  /\ \A a \in w.answers : a.id # s
  /\ \A t \in w.timers : t.id = s => ~t.orphan /\ t.kind # "orphan"
  /\ w.saved.id = s => w.current = s /\ w.saved.state = "GENERATING" /\ w.saved.arrived = 0
  /\ w.current = s =>
       /\ w.state = "GENERATING" /\ w.arrived = 0
       /\ \A t \in w.timers : t.kind = "fetch" => t.id = s

\* The page observes its own session, and reads what was started.
Whole(w) ==
  /\ w.observer \in {w.current, NoSession}
  /\ \A t \in w.timers : t.id <= started

\* What an answer says of the journal for as long as it is on its way.
Decided(a) ==
  /\ a.type = "checkpoint" => journal[a.id] = "none"
  /\ a.type = "accept" /\ a.ok => journal[a.id] \in {"accepting", "closed"}
  /\ a.type = "discard" /\ a.ok => journal[a.id] \in {"discarding", "closed"}

Ended(e) == e.type # "error" /\ (e.type \in {"complete", "discarded"} => journal[e.id] = "closed")

Accounted ==
  /\ Whole(tab)
  /\ \A p \in tab.posts : p.type \in {"generate", "upload"} => ~p.stray /\ Unborn(tab, p.id)
  /\ \A s \in Ids(tab.handled) : ~AtWork(s)
  /\ \A a \in tab.answers : /\ Decided(a)
                            /\ a.type # "checkpoint" => tab.current \in {a.id, NoSession}
  /\ \A i \in 1..Len(events) : Ended(events[i])

WorkInv == PageInv /\ (Spared => Accounted)

\* What a handler does that gives nothing up.
Calm(w, v) ==
  /\ Whole(v) /\ v.handled = w.handled /\ v.answers \subseteq w.answers
  /\ \A s \in Sessions : Unborn(w, s) => Unborn(v, s)

LEMMA CalmTransitive ==
  ASSUME NEW u, NEW v, NEW w, Calm(u, v), Calm(v, w)
  PROVE  Calm(u, w)
BY DEF Calm

LEMMA CalmSame ==
  ASSUME NEW w, Whole(w)
  PROVE  Calm(w, w)
BY DEF Calm

LEMMA CalmSaveSession ==
  ASSUME NEW w, w \in Tab, Whole(w)
  PROVE  Calm(w, SaveSession(w))
<1>1. CASE w.current = NoSession
  BY <1>1, CalmSame DEF SaveSession
<1>2. CASE w.current # NoSession
  <2> DEFINE rec == [id |-> w.current, state |-> w.state, arrived |-> w.arrived, file |-> w.file]
             v == [w EXCEPT !.saved = rec]
  <2>1. rec.id = w.current /\ rec.state = w.state /\ rec.arrived = w.arrived
    OBVIOUS
  <2> HIDE DEF rec
  <2>2. v = [w EXCEPT !.saved = rec] /\ v.saved = rec
    BY DEF Tab
  <2>3. /\ v.observer = w.observer /\ v.current = w.current /\ v.timers = w.timers /\ v.dom = w.dom
        /\ v.handled = w.handled /\ v.answers = w.answers /\ v.state = w.state /\ v.arrived = w.arrived
    BY DEF Tab
  <2> HIDE DEF v
  <2>4. Calm(w, v)
    BY <2>1, <2>2, <2>3 DEF Calm, Whole, Unborn
  <2> QED
    BY <1>2, <2>4 DEF SaveSession, rec, v
<1> QED
  BY <1>1, <1>2

\* A page that turns to nothing leaves what was on its way as it was.
LEMMA CalmLeft ==
  ASSUME NEW w, NEW v, Whole(w), v.current = NoSession, v.observer = NoSession, v.saved = NoSaved,
         v.timers = w.timers, v.dom = w.dom, v.handled = w.handled, v.answers = w.answers
  PROVE  Calm(w, v)
BY NoSavedFacts, NoSessionOutside DEF Calm, Whole, Unborn

LEMMA CalmCleanup ==
  ASSUME NEW w, w \in Tab, Whole(w)
  PROVE  Calm(w, Cleanup(w))
<1> DEFINE v == Cleanup(w)
<1>1. /\ v.current = NoSession /\ v.observer = NoSession /\ v.saved = NoSaved
      /\ v.timers = w.timers /\ v.dom = w.dom /\ v.handled = w.handled /\ v.answers = w.answers
  BY DEF Cleanup, Tab
<1> HIDE DEF v
<1>2. Calm(w, v)
  BY <1>1, CalmLeft
<1> QED
  BY <1>2 DEF v

LEMMA CalmQueueCheckpoint ==
  ASSUME NEW w, w \in Tab, Whole(w)
  PROVE  Calm(w, QueueCheckpoint(w))
<1> DEFINE v == QueueCheckpoint(w)
<1>1. /\ v.observer = w.observer /\ v.current = w.current /\ v.timers = w.timers /\ v.dom = w.dom
      /\ v.handled = w.handled /\ v.answers = w.answers /\ v.state = w.state /\ v.arrived = w.arrived
      /\ v.saved = w.saved
  BY DEF QueueCheckpoint, Tab
<1> HIDE DEF v
<1>2. Calm(w, v)
  BY <1>1 DEF Calm, Whole, Unborn
<1> QED
  BY <1>2 DEF v

\* A read is set up for the page's own session, and only a session the helper
\* knows is read as one that may have lost its wrapper.
LEMMA CalmSet ==
  ASSUME NEW w, NEW t \in Timer, w \in Tab, Whole(w), t.id <= started,
         t.kind = "fetch" => t.id = w.current,
         NEW s \in Sessions, Unborn(w, s), t.id = s => ~t.orphan /\ t.kind # "orphan"
  PROVE  Whole(Set(w, t)) /\ Unborn(Set(w, t), s)
<1> DEFINE v == Set(w, t)
<1>1. /\ v.observer = w.observer /\ v.current = w.current /\ v.timers = w.timers \cup {t} /\ v.dom = w.dom
      /\ v.handled = w.handled /\ v.answers = w.answers /\ v.state = w.state /\ v.arrived = w.arrived
      /\ v.saved = w.saved
  BY DEF Set, Tab
<1> HIDE DEF v
<1>2. Whole(v) /\ Unborn(v, s)
  BY <1>1 DEF Whole, Unborn
<1> QED
  BY <1>2 DEF v

LEMMA WholeSet ==
  ASSUME NEW w, NEW t \in Timer, w \in Tab, Whole(w), t.id <= started
  PROVE  LET v == Set(w, t) IN Whole(v) /\ v.handled = w.handled /\ v.answers = w.answers
BY DEF Set, Tab, Whole

LEMMA CalmDrop ==
  ASSUME NEW w, NEW t, w \in Tab, Whole(w)
  PROVE  Calm(w, Drop(w, t))
<1> DEFINE v == Drop(w, t)
<1>1. /\ v.observer = w.observer /\ v.current = w.current /\ v.timers = w.timers \ {t} /\ v.dom = w.dom
      /\ v.handled = w.handled /\ v.answers = w.answers /\ v.state = w.state /\ v.arrived = w.arrived
      /\ v.saved = w.saved
  BY DEF Drop, Tab
<1> HIDE DEF v
<1>2. Calm(w, v)
  BY <1>1 DEF Calm, Whole, Unborn
<1> QED
  BY <1>2 DEF v

\* Taking up x, be it from the saved record or from its wrapper.
LEMMA CalmOwn ==
  ASSUME NEW w, NEW v, w \in Tab, v \in Tab, Whole(w),
         v.observer = v.current, v.timers = w.timers, v.dom = w.dom, v.saved = w.saved,
         v.handled = w.handled, v.answers = w.answers,
         \A s \in Sessions : Unborn(w, s) /\ v.current = s =>
           w.current = s /\ v.state = "GENERATING" /\ v.arrived = 0,
         v.current # NoSession
  PROVE  Calm(w, QueueCheckpoint(SaveSession(v))) /\ Calm(w, SaveSession(v))
<1> DEFINE rec == [id |-> v.current, state |-> v.state, arrived |-> v.arrived, file |-> v.file]
           u == SaveSession(v)
<1>1. u = [v EXCEPT !.saved = rec]
  BY DEF SaveSession
<1>2. rec.id = v.current /\ rec.state = v.state /\ rec.arrived = v.arrived
  OBVIOUS
<1>3. rec \in Saved
  BY DEF Tab, Saved
<1> HIDE DEF rec, u
<1>4. /\ u \in Tab /\ u.saved = rec /\ u.observer = v.observer /\ u.current = v.current
      /\ u.timers = v.timers /\ u.dom = v.dom /\ u.handled = v.handled
      /\ u.answers = v.answers /\ u.state = v.state /\ u.arrived = v.arrived
  BY <1>1, <1>3 DEF Tab
<1>5. Whole(u)
  BY <1>4 DEF Whole
<1>6. \A s \in Sessions : Unborn(w, s) => Unborn(u, s)
  <2> SUFFICES ASSUME NEW s \in Sessions, Unborn(w, s)
               PROVE  Unborn(u, s)
    OBVIOUS
  <2>1. CASE v.current = s
    BY <1>2, <1>4, <2>1 DEF Unborn
  <2>2. CASE v.current # s
    BY <1>2, <1>4, <2>2 DEF Unborn
  <2> QED
    BY <2>1, <2>2
<1>7. Calm(w, u)
  BY <1>4, <1>5, <1>6 DEF Calm
<1>8. Calm(u, QueueCheckpoint(u))
  BY <1>4, <1>5, CalmQueueCheckpoint
<1> QED
  BY <1>7, <1>8, CalmTransitive DEF u

\* A record of a session the helper has not heard of is the page's own.
LEMMA CalmRestore ==
  ASSUME NEW w, NEW rec \in Saved, NEW listed \in BOOLEAN, Sane(w), Whole(w),
         rec.id # NoSession, rec.id \notin Ids(w.handled), rec.id <= started,
         \A s \in Sessions : Unborn(w, s) /\ rec.id = s =>
           w.current = s /\ rec.state = "GENERATING" /\ rec.arrived = 0
  PROVE  Calm(w, Restore(w, rec, listed)) /\ Restore(w, rec, listed).current = rec.id
<1> DEFINE file == rec.file \/ (listed /\ rec.id \in Listed /\ source[rec.id] # Clean)
           v  == [w EXCEPT !.current = rec.id, !.arrived = rec.arrived,
                    !.file = file, !.state = "GENERATING", !.observer = rec.id]
           w1 == QueueCheckpoint(SaveSession(v))
           t  == Read("fetch", rec.id, FALSE, rec.state = "CYCLING", 0)
<1>1. /\ rec.id \in Sessions /\ rec.arrived \in 0..Count
      /\ file \in BOOLEAN /\ (rec.state = "CYCLING") \in BOOLEAN
  BY DEF Saved
<1> HIDE DEF file
<1>2. v \in Tab /\ w \in Tab
  BY <1>1 DEF Sane, Tab, State
<1>3. /\ v.observer = v.current /\ v.timers = w.timers /\ v.dom = w.dom /\ v.saved = w.saved
      /\ v.handled = w.handled /\ v.answers = w.answers /\ v.current = rec.id
      /\ v.state = "GENERATING" /\ v.arrived = rec.arrived /\ v.posts = w.posts
  BY <1>1 DEF Sane, Tab
<1> HIDE DEF v
<1>4. Calm(w, w1)
  BY <1>1, <1>2, <1>3, CalmOwn
<1>5. w1 \in Tab /\ w1.current = rec.id
  <2>1. Kept(w, w1)
    BY <1>2, <1>3, OwnKeeps DEF Sane, Tab
  <2>2. w1.current = v.current
    BY <1>2 DEF QueueCheckpoint, SaveSession, Tab
  <2> QED
    BY <1>3, <2>1, <2>2 DEF Kept, Sane
<1> HIDE DEF w1
<1>6. t \in Timer /\ t.id = rec.id /\ t.kind = "fetch" /\ t.orphan = (rec.state = "CYCLING")
  BY <1>1, BoundsAssumption DEF Read, Timer, TimerKind
<1> HIDE DEF t
<1>7. Calm(w, Set(w1, t))
  <2>1. Whole(Set(w1, t)) /\ Set(w1, t).handled = w.handled /\ Set(w1, t).answers \subseteq w.answers
    BY <1>4, <1>5, <1>6, WholeSet DEF Calm
  <2>2. ASSUME NEW s \in Sessions, Unborn(w, s)
        PROVE  Unborn(Set(w1, t), s)
    <3>1. Unborn(w1, s) /\ Whole(w1)
      BY <1>4, <2>2 DEF Calm
    <3>2. t.id = s => ~t.orphan /\ t.kind # "orphan"
      BY <1>6, <2>2
    <3> QED
      BY <1>5, <1>6, <3>1, <3>2, CalmSet
  <2> QED
    BY <2>1, <2>2 DEF Calm
<1>8. Set(w1, t).current = rec.id
  BY <1>5 DEF Set, Tab
<1> QED
  BY <1>4, <1>5, <1>7, <1>8 DEF Restore, Fetch, w1, v, file, t

\* Markup is of a session the helper knows.
LEMMA CalmTakeUp ==
  ASSUME NEW w, NEW x \in Sessions, Sane(w), Whole(w), w.dom[x] \in Wrapped
  PROVE  Calm(w, TakeUp(w, x))
<1> DEFINE file == IF w.saved.id = x THEN w.file \/ w.saved.file ELSE w.file
           state == IF w.dom[x] > 0 THEN "CYCLING" ELSE "GENERATING"
           v == [w EXCEPT !.current = x, !.arrived = w.dom[x], !.observer = x,
                   !.file = IF w.saved.id = x THEN @ \/ w.saved.file ELSE @,
                   !.state = IF w.dom[x] > 0 THEN "CYCLING" ELSE "GENERATING"]
<1>1. w.dom[x] \in 0..Count
  BY MarkupFacts
<1>2. file \in BOOLEAN /\ state \in State
  BY DEF Sane, Tab, Saved, State
<1>3. v = [w EXCEPT !.current = x, !.arrived = w.dom[x], !.observer = x, !.file = file, !.state = state]
  BY DEF Sane, Tab
<1> HIDE DEF v, file, state
<1>4. v \in Tab /\ w \in Tab
  BY <1>1, <1>2, <1>3 DEF Sane, Tab
<1>5. /\ v.observer = v.current /\ v.timers = w.timers /\ v.dom = w.dom /\ v.saved = w.saved
      /\ v.handled = w.handled /\ v.answers = w.answers /\ v.current = x
  BY <1>2, <1>3 DEF Sane, Tab
<1>6. ~Unborn(w, x)
  BY MarkupFacts DEF Unborn
<1>7. Calm(w, SaveSession(v))
  BY <1>4, <1>5, <1>6, NoSessionOutside, CalmOwn
<1> QED
  BY <1>7 DEF TakeUp, v

LEMMA CalmRestoreSaved ==
  ASSUME NEW w, Sane(w), Whole(w), CanRestore(w, w.saved, FALSE)
  PROVE  Calm(w, Restore(w, w.saved, FALSE))
<1>1. w.saved \in Saved /\ w.saved.id <= started
  BY DEF Sane, Tab
<1>2. \A s \in Sessions : Unborn(w, s) /\ w.saved.id = s =>
        w.current = s /\ w.saved.state = "GENERATING" /\ w.saved.arrived = 0
  BY DEF Unborn
<1> QED
  BY <1>1, <1>2, CalmRestore DEF CanRestore

LEMMA CalmResume ==
  ASSUME NEW w, NEW x \in Sessions \cup {NoSession}, Sane(w), Whole(w)
  PROVE  Calm(w, Resume(w, x))
<1>1. Calm(w, w)
  BY CalmSame
<1>2. CASE x # NoSession /\ x \notin Ids(w.handled) /\ w.dom[x] \in Wrapped
  BY <1>2, CalmTakeUp DEF Resume, Supersedes
<1>3. CASE CanRestore(w, w.saved, FALSE) /\ ~(x # NoSession /\ x \notin Ids(w.handled) /\ w.dom[x] \in Wrapped)
  BY <1>1, <1>3, CalmRestoreSaved DEF Resume, Supersedes
<1>4. Calm(w, [w EXCEPT !.saved = NoSaved])
  <2> DEFINE v == [w EXCEPT !.saved = NoSaved]
  <2>1. /\ v.observer = w.observer /\ v.current = w.current /\ v.timers = w.timers /\ v.dom = w.dom
        /\ v.handled = w.handled /\ v.answers = w.answers /\ v.state = w.state /\ v.arrived = w.arrived
        /\ v.saved = NoSaved
    BY DEF Sane, Tab
  <2> HIDE DEF v
  <2>2. Calm(w, v)
    BY <2>1, NoSavedFacts, NoSessionOutside DEF Calm, Whole, Unborn
  <2> QED
    BY <2>2 DEF v
<1> QED
  BY <1>1, <1>2, <1>3, <1>4 DEF Resume, Supersedes

LEMMA CalmScoutSees ==
  ASSUME NEW w, NEW x \in Sessions \cup {NoSession}, Sane(w), Whole(w), Known
  PROVE  Calm(w, ScoutSees(w, x))
<1> DEFINE v == [w EXCEPT !.deferred = FALSE]
<1>1. v \in Tab
  BY DEF Sane, Tab
<1>2. Sane(v)
  BY <1>1 DEF Sane, Tab
<1>3. /\ v.observer = w.observer /\ v.current = w.current /\ v.timers = w.timers /\ v.dom = w.dom
      /\ v.handled = w.handled /\ v.answers = w.answers /\ v.state = w.state /\ v.arrived = w.arrived
      /\ v.saved = w.saved
  BY DEF Sane, Tab
<1> HIDE DEF v
<1>4. Calm(w, v)
  BY <1>3 DEF Calm, Whole, Unborn
<1>5. Calm(v, Resume(v, x))
  BY <1>2, <1>4, CalmResume DEF Calm
<1>6. Calm(w, Resume(v, x))
  BY <1>4, <1>5, CalmTransitive
<1> QED
  BY <1>6, CalmSame DEF ScoutSees, v

\* Variants that arrive are the page's own.
LEMMA CalmVariantsArrive ==
  ASSUME NEW w, Sane(w), Whole(w)
  PROVE  Calm(w, VariantsArrive(w))
<1> DEFINE r == w.observer
           v == [w EXCEPT !.arrived = w.dom[r], !.state = "CYCLING"]
<1>1. CASE r = NoSession \/ w.dom[r] \notin Wrapped \/ w.dom[r] <= w.arrived
  BY <1>1, CalmSame DEF VariantsArrive
<1>2. CASE ~(r = NoSession \/ w.dom[r] \notin Wrapped \/ w.dom[r] <= w.arrived)
  <2>1. v \in Tab /\ w \in Tab
    BY <1>2, MarkupFacts DEF Sane, Tab, State
  <2>2. /\ v.observer = w.observer /\ v.timers = w.timers /\ v.dom = w.dom /\ v.saved = w.saved
        /\ v.handled = w.handled /\ v.answers = w.answers /\ v.current = w.current
    BY DEF Sane, Tab
  <2>3. w.observer = w.current /\ ~Unborn(w, w.current)
    BY <1>2, MarkupFacts DEF Whole, Unborn
  <2> HIDE DEF v
  <2>4. Calm(w, SaveSession(v))
    BY <1>2, <2>1, <2>2, <2>3, CalmOwn
  <2> QED
    BY <1>2, <2>4 DEF VariantsArrive, v
<1> QED
  BY <1>1, <1>2

LEMMA CalmWoken ==
  ASSUME NEW w, NEW x \in Sessions \cup {NoSession}, Sane(w), Whole(w), Known
  PROVE  Calm(w, Woken(w, x))
<1>1. Calm(w, ScoutSees(w, x)) /\ Sane(ScoutSees(w, x))
  BY CalmScoutSees, ScoutSeesKeeps DEF Kept
<1>2. Calm(ScoutSees(w, x), VariantsArrive(ScoutSees(w, x)))
  BY <1>1, CalmVariantsArrive DEF Calm
<1> QED
  BY <1>1, <1>2, CalmTransitive DEF Woken

LEMMA CalmRender ==
  ASSUME NEW w, NEW r \in Sessions, Sane(w), Whole(w)
  PROVE  Calm(w, Render(w, r, source[r]))
<1> DEFINE v == Render(w, r, source[r])
<1>1. /\ v.observer = w.observer /\ v.current = w.current /\ v.timers = w.timers
      /\ v.handled = w.handled /\ v.answers = w.answers /\ v.state = w.state /\ v.arrived = w.arrived
      /\ v.saved = w.saved /\ v.dom = [w.dom EXCEPT ![r] = source[r]]
  BY DEF Sane, Tab, Render
<1>2. \A s \in Sessions : v.dom[s] = IF s = r THEN source[r] ELSE w.dom[s]
  BY <1>1 DEF Sane, Tab
<1> HIDE DEF v
<1>3. Calm(w, v)
  BY <1>1, <1>2 DEF Calm, Whole, Unborn
<1> QED
  BY <1>3 DEF v

\* A read that finds its wrapper ends the wait of the page's session, which is
\* one the helper knows.
LEMMA CalmComplete ==
  ASSUME NEW w, NEW t \in Timer, NEW n \in Wrapped, Sane(w), Whole(w), t.id <= started
  PROVE  LET v == Complete(w, t, n) IN
         /\ Whole(v) /\ v.handled = w.handled /\ v.answers \subseteq w.answers
         /\ \A s \in Sessions : Unborn(w, s) /\ s \notin {t.id, w.current} => Unborn(v, s)
<1> DEFINE w1 == [w EXCEPT !.arrived = n]
           w2 == [w1 EXCEPT !.state = "CYCLING"]
           again == [t EXCEPT !.kind = "reread"]
           Mild(v) ==
             /\ Whole(v) /\ v.handled = w.handled /\ v.answers \subseteq w.answers
             /\ \A s \in Sessions : Unborn(w, s) /\ s \notin {t.id, w.current} => Unborn(v, s)
<1>1. w1 \in Tab /\ w2 \in Tab
  BY MarkupFacts DEF Sane, Tab, State
<1>2. \A v \in {w1, w2} :
        /\ v.observer = w.observer /\ v.current = w.current /\ v.timers = w.timers /\ v.dom = w.dom
        /\ v.handled = w.handled /\ v.answers = w.answers /\ v.saved = w.saved
  BY DEF Sane, Tab
<1> HIDE DEF w1, w2
<1>3. Mild(w1) /\ Mild(w2)
  BY <1>2 DEF Whole, Unborn
<1>4. Mild(Cleanup(w1))
  <2>1. Calm(w1, Cleanup(w1))
    BY <1>1, <1>3, CalmCleanup
  <2> QED
    BY <1>3, <2>1 DEF Calm
<1>5. Mild(SaveSession(w2))
  <2>1. Calm(w2, SaveSession(w2))
    BY <1>1, <1>3, CalmSaveSession
  <2> QED
    BY <1>3, <2>1 DEF Calm
<1>6. Mild(Set(w1, again))
  <2>1. again \in Timer /\ again.kind = "reread" /\ again.id = t.id
    BY DEF Timer, TimerKind
  <2> HIDE DEF again
  <2>2. Whole(Set(w1, again)) /\ Set(w1, again).handled = w.handled /\ Set(w1, again).answers \subseteq w.answers
    BY <1>1, <1>3, <2>1, WholeSet
  <2>3. ASSUME NEW s \in Sessions, Unborn(w, s), s \notin {t.id, w.current}
        PROVE  Unborn(Set(w1, again), s)
    <3>1. Unborn(w1, s) /\ Whole(w1) /\ again.id # s
      BY <1>3, <2>1, <2>3
    <3> QED
      BY <1>1, <2>1, <3>1, CalmSet
  <2> QED
    BY <2>2, <2>3
<1> HIDE DEF Mild
<1>7. Mild(Complete(w, t, n))
  BY <1>3, <1>4, <1>5, <1>6 DEF Complete, w1, w2
<1> QED
  BY <1>7 DEF Mild

\* A read is put off, or made at last, for the session it was for.
LEMMA CalmAgain ==
  ASSUME NEW w, Sane(w), Whole(w), NEW t \in w.timers, NEW u \in Timer, u.id = t.id,
         u.kind = "fetch" => t.id = w.current,
         u.orphan \/ u.kind = "orphan" => t.orphan \/ t.kind = "orphan"
  PROVE  Calm(w, Set(Drop(w, t), u))
<1> DEFINE v == Drop(w, t)
<1>1. v \in Tab /\ v.current = w.current
  BY DEF Drop, Sane, Tab
<1>2. Calm(w, v)
  BY CalmDrop DEF Sane
<1> HIDE DEF v
<1>3. u.id <= started
  BY DEF Whole
<1>4. Whole(Set(v, u)) /\ Set(v, u).handled = w.handled /\ Set(v, u).answers \subseteq w.answers
  BY <1>1, <1>2, <1>3, WholeSet DEF Calm
<1>5. ASSUME NEW s \in Sessions, Unborn(w, s)
      PROVE  Unborn(Set(v, u), s)
  <2>1. u.id = s => ~u.orphan /\ u.kind # "orphan"
    BY <1>5 DEF Unborn
  <2> QED
    BY <1>1, <1>2, <1>3, <1>5, <2>1, CalmSet DEF Calm
<1>6. Calm(w, Set(v, u))
  BY <1>4, <1>5 DEF Calm
<1> QED
  BY <1>6 DEF v

LEMMA CalmDoneSeen ==
  ASSUME NEW w, NEW id \in Sessions, Sane(w), Whole(w)
  PROVE  Calm(w, DoneSeen(w, id))
<1> DEFINE w1 == [w EXCEPT !.file = TRUE]
           w2 == [w1 EXCEPT !.state = "CYCLING"]
           t  == Read("completed", id, TRUE, FALSE, 0)
<1>1. w1 \in Tab
  BY DEF Sane, Tab, State
<1>2. \A v \in {w1, w2} :
        /\ v.observer = w.observer /\ v.current = w.current /\ v.timers = w.timers /\ v.dom = w.dom
        /\ v.handled = w.handled /\ v.answers = w.answers /\ v.saved = w.saved /\ v.arrived = w.arrived
  BY DEF Sane, Tab
<1>3. w1.state = w.state
  BY DEF Sane, Tab
<1> HIDE DEF w1, w2
<1>4. Calm(w, w1)
  BY <1>2, <1>3 DEF Calm, Whole, Unborn
<1>5. ASSUME w.arrived = Count
      PROVE  Calm(w, w2)
  <2>1. w.arrived # 0
    BY <1>5, BoundsAssumption
  <2> QED
    BY <1>2, <2>1 DEF Calm, Whole, Unborn
<1>6. ASSUME id = w.current
      PROVE  Calm(w, Set(w1, t))
  <2>1. t \in Timer /\ t.kind = "completed" /\ t.id = id /\ t.orphan = FALSE
    BY BoundsAssumption DEF Read, Timer, TimerKind
  <2> HIDE DEF t
  <2>2. t.id <= started
    BY <1>6, <2>1 DEF Sane
  <2>3. Whole(Set(w1, t)) /\ Set(w1, t).handled = w.handled /\ Set(w1, t).answers \subseteq w.answers
    BY <1>1, <1>4, <2>1, <2>2, WholeSet DEF Calm
  <2>4. ASSUME NEW s \in Sessions, Unborn(w, s)
        PROVE  Unborn(Set(w1, t), s)
    BY <1>1, <1>4, <2>1, <2>2, <2>4, CalmSet DEF Calm
  <2> QED
    BY <2>3, <2>4 DEF Calm
<1> QED
  BY <1>4, <1>5, <1>6 DEF DoneSeen, w1, w2, t

LEMMA CalmMissedCompletion ==
  ASSUME NEW w, Sane(w), Whole(w)
  PROVE  Calm(w, MissedCompletion(w)) /\ MissedCompletion(w).current = w.current
<1> DEFINE w1 == [w EXCEPT !.file = TRUE]
           t  == Read("completed", w.current, TRUE, FALSE, 0)
<1>1. CASE w.current = NoSession
  BY <1>1, CalmSame DEF MissedCompletion
<1>2. CASE w.current # NoSession
  <2>1. /\ w1 \in Tab /\ w1.observer = w.observer /\ w1.current = w.current /\ w1.timers = w.timers
        /\ w1.dom = w.dom /\ w1.handled = w.handled /\ w1.answers = w.answers /\ w1.saved = w.saved
        /\ w1.arrived = w.arrived /\ w1.state = w.state
    BY DEF Sane, Tab
  <2> HIDE DEF w1
  <2>2. Calm(w, w1)
    BY <2>1 DEF Calm, Whole, Unborn
  <2>3. t \in Timer /\ t.kind = "completed" /\ t.id = w.current /\ t.orphan = FALSE
    BY <1>2, BoundsAssumption DEF Read, Timer, TimerKind, Sane, Tab
  <2> HIDE DEF t
  <2>4. t.id <= started
    BY <2>3 DEF Sane
  <2>5. Whole(Set(w1, t)) /\ Set(w1, t).handled = w.handled /\ Set(w1, t).answers \subseteq w.answers
    BY <2>1, <2>2, <2>3, <2>4, WholeSet DEF Calm
  <2>6. ASSUME NEW s \in Sessions, Unborn(w, s)
        PROVE  Unborn(Set(w1, t), s)
    BY <2>1, <2>2, <2>3, <2>4, <2>6, CalmSet DEF Calm
  <2>7. Calm(w, Set(w1, t))
    BY <2>5, <2>6 DEF Calm
  <2>8. Set(w1, t).current = w.current
    BY <2>1 DEF Set, Tab
  <2> QED
    BY <2>7, <2>8, CalmSame DEF MissedCompletion, w1, t
<1> QED
  BY <1>1, <1>2

-----------------------------------------------------------------------------
(* Steps that give up no work. *)

LEMMA FaultsGrow == [Next]_vars => faults \subseteq faults'
<1> SUFFICES ASSUME [Next]_vars
             PROVE  faults \subseteq faults'
  OBVIOUS
<1>1. CASE User
  BY <1>1 DEF User, Pick, ExitConfigure, Go, Accept, Discard, Ask, Strikes, world
<1>2. CASE Page
  BY <1>2 DEF Page, Answered, Hear, Connect, Fetched, ReadAgain, Uploaded, Report, MayMove, world
<1>3. CASE Environment
  BY <1>3 DEF Environment, Reload, StreamDrops, ServerLost, FetchFails, PostLost, Strikes
<1>4. CASE HelperTakes
  BY <1>4 DEF HelperTakes
<1>5. CASE \E s \in Sessions : Hmr(s) \/ Agent(s) \/ AgentFails(s)
  BY <1>5 DEF Hmr, Agent, AgentWrites, AgentDone, AgentPromotes, AgentDiscards, AgentFails, MayMove, Strikes
<1>6. CASE UNCHANGED vars
  BY <1>6 DEF vars
<1> QED
  BY <1>1, <1>2, <1>3, <1>4, <1>5, <1>6 DEF Next

\* What is heard, or lost, says nothing new.
LEMMA EndedKeeps ==
  ASSUME Rest, \A i \in 1..Len(events) : Ended(events[i]),
         \/ events' = events \/ events' = <<>>
         \/ events # <<>> /\ events' = Tail(events)
  PROVE  /\ events' \in Seq(Event)
         /\ \A i \in 1..Len(events') : Ended(events'[i])
<1>1. CASE events' = events
  BY <1>1 DEF Rest
<1>2. CASE events' = <<>>
  <2>1. <<>> \in Seq(Event) /\ Len(<<>>) = 0
    OBVIOUS
  <2> QED
    BY <1>2, <2>1
<1>3. CASE events # <<>> /\ events' = Tail(events)
  <2>1. events \in Seq(Event) /\ Len(events) \in Nat
    BY DEF Rest
  <2>2. /\ events' \in Seq(Event) /\ Len(events') = Len(events) - 1
        /\ \A i \in 1..Len(events') : events'[i] = events[i + 1]
    BY <1>3, <2>1
  <2> HIDE <1>3
  <2>3. \A i \in 1..Len(events') : Ended(events'[i])
    <3> SUFFICES ASSUME NEW i \in 1..Len(events')
                 PROVE  Ended(events'[i])
      OBVIOUS
    <3>1. i + 1 \in 1..Len(events)
      BY <2>1, <2>2
    <3>2. Ended(events[i + 1])
      BY <3>1
    <3>3. events'[i] = events[i + 1]
      BY <2>2
    <3> QED
      BY <3>2, <3>3
  <2> QED
    BY <2>2, <2>3
<1> QED
  BY <1>1, <1>2, <1>3

\* A handler that gives nothing up, and leaves the page to a session of which
\* no accept or discard is out.
LEMMA CalmStep ==
  ASSUME PageInv, Accounted, Calm(tab, tab'), UNCHANGED <<source, journal, started>>,
         \A p \in tab'.posts : p \in tab.posts \/ p.type = "checkpoint",
         \/ tab'.current \in {tab.current, NoSession}
         \/ \A a \in tab.answers : a.type = "checkpoint",
         \/ events' = events \/ events' = <<>>
         \/ events # <<>> /\ events' = Tail(events)
  PROVE  Accounted'
<1>1. Whole(tab)'
  BY DEF Calm, Whole
<1>2. \A p \in tab'.posts : p.type \in {"generate", "upload"} => ~p.stray /\ Unborn(tab, p.id)'
  <2> SUFFICES ASSUME NEW p \in tab'.posts, p.type \in {"generate", "upload"}
               PROVE  ~p.stray /\ Unborn(tab, p.id)'
    OBVIOUS
  <2>1. p \in tab.posts /\ p.id \in Sessions
    BY DEF PageInv, Sane, Tab, Post
  <2>2. ~p.stray /\ Unborn(tab', p.id)
    BY <2>1 DEF Accounted, Calm
  <2> QED
    BY <2>2 DEF Unborn
<1>3. \A s \in Ids(tab'.handled) : ~AtWork(s)'
  BY DEF Calm, Accounted, AtWork
<1>4. \A a \in tab'.answers :
        /\ Decided(a)'
        /\ a.type # "checkpoint" => tab'.current \in {a.id, NoSession}
  <2>1. tab'.answers \subseteq tab.answers
    BY DEF Calm
  <2>2. \A a \in tab'.answers : Decided(a)'
    BY <2>1 DEF Accounted, Decided
  <2>3. \A a \in tab'.answers : a.type # "checkpoint" => tab'.current \in {a.id, NoSession}
    BY <2>1 DEF Accounted
  <2> QED
    BY <2>2, <2>3
<1>5. \A i \in 1..Len(events') : Ended(events[i])'
  <2>1. \A i \in 1..Len(events') : Ended(events'[i])
    BY EndedKeeps DEF PageInv, Accounted
  <2> QED
    BY <2>1 DEF Ended
<1>6. \A s \in Ids(tab'.handled) : ~AtWork(s)'
  BY <1>3
<1> QED
  BY <1>1, <1>2, <1>4, <1>5, <1>6 DEF Accounted

\* The page's session is given up, or has been: it is id, which the helper does
\* not work on any more.
LEMMA GivenUpStep ==
  ASSUME PageInv, Accounted, UNCHANGED <<source, started>>, NEW id \in Sessions,
         \/ UNCHANGED journal /\ ~AtWork(id)
         \/ AtWork(id) /\ journal' = [journal EXCEPT ![id] = "discarding"],
         ~Unborn(tab, id), tab.current \in {id, NoSession},
         tab'.current = NoSession, tab'.observer = NoSession, tab'.saved = NoSaved,
         tab'.timers \subseteq tab.timers, tab'.dom = tab.dom, tab'.posts = tab.posts,
         tab'.answers \subseteq tab.answers, Ids(tab'.handled) \subseteq Ids(tab.handled) \cup {id},
         \/ events' = events \/ events' = <<>>
         \/ events # <<>> /\ events' = Tail(events)
  PROVE  Accounted'
<1>0. journal \in [Sessions -> Phase]
  BY DEF PageInv, Known
<1>1. Whole(tab)'
  BY DEF Accounted, Whole
<1>2. \A p \in tab'.posts : p.type \in {"generate", "upload"} => ~p.stray /\ Unborn(tab, p.id)'
  <2> SUFFICES ASSUME NEW p \in tab.posts, p.type \in {"generate", "upload"}
               PROVE  ~p.stray /\ Unborn(tab, p.id)'
    OBVIOUS
  <2>1. ~p.stray /\ Unborn(tab, p.id) /\ p.id # id /\ p.id \in Sessions
    BY DEF PageInv, Sane, Tab, Post, Accounted
  <2>2. journal'[p.id] = journal[p.id]
    BY <1>0, <2>1
  <2> QED
    BY <2>1, <2>2, NoSavedFacts, NoSessionOutside DEF Unborn
<1>3. \A s \in Ids(tab'.handled) : ~AtWork(s)'
  <2> SUFFICES ASSUME NEW s \in Ids(tab'.handled)
               PROVE  ~AtWork(s)'
    OBVIOUS
  <2>1. CASE s = id
    BY <1>0, <2>1 DEF AtWork
  <2>2. CASE s # id
    <3>1. s \in Sessions /\ ~AtWork(s)
      BY <2>2 DEF PageInv, Sane, Tab, Accounted, Ids
    <3> QED
      BY <1>0, <2>2, <3>1 DEF AtWork
  <2> QED
    BY <2>1, <2>2
<1>4. \A a \in tab'.answers :
        /\ Decided(a)'
        /\ a.type # "checkpoint" => tab'.current \in {a.id, NoSession}
  <2> SUFFICES ASSUME NEW a \in tab.answers
               PROVE  Decided(a)'
    OBVIOUS
  <2>1. Decided(a) /\ a.id \in Sessions
    BY DEF PageInv, Sane, Tab, Answer, Accounted
  <2> QED
    BY <1>0, <2>1 DEF Decided, AtWork
<1>5. \A i \in 1..Len(events') : Ended(events[i])'
  <2> SUFFICES ASSUME NEW i \in 1..Len(events')
               PROVE  Ended(events[i])'
    OBVIOUS
  <2>1. events' \in Seq(Event) /\ Ended(events'[i])
    BY EndedKeeps DEF PageInv, Accounted
  <2>2. events'[i] \in Event
    BY <2>1
  <2>3. events'[i].id \in Sessions
    BY <2>2 DEF Event
  <2> QED
    BY <1>0, <2>1, <2>3 DEF Ended, AtWork
<1>6. \A s \in Ids(tab'.handled) : ~AtWork(s)'
  BY <1>3
<1> QED
  BY <1>1, <1>2, <1>4, <1>5, <1>6 DEF Accounted

LEMMA InitAccounts == Init => Accounted
BY NoSessionOutside, NothingHandled DEF Init, Blank, Accounted, Whole

\* What a page gives up is one session, the one it has.
LEMMA GivenUpIds ==
  ASSUME NEW w, w \in Tab, NEW id, w.current \in {id, NoSession}
  PROVE  LET v == MarkHandled(w) IN
         /\ v.timers = w.timers /\ v.dom = w.dom /\ v.posts = w.posts /\ v.answers = w.answers
         /\ Ids(v.handled) \subseteq Ids(w.handled) \cup {id} /\ v \in Tab
<1> DEFINE v == MarkHandled(w)
<1>1. /\ v \in Tab /\ Gives(w, v) /\ v.posts = w.posts /\ v.answers = w.answers
      /\ v.dom = w.dom /\ v.timers = w.timers
  BY MarkHandledFacts
<1> HIDE DEF v
<1>2. Ids(v.handled) \subseteq Ids(w.handled) \cup {id}
  <2>1. CASE v.handled = w.handled
    BY <2>1
  <2>2. CASE w.current \in Sessions /\ v.handled = Latest(w.handled, w.current)
    <3>1. w.handled \in [Sessions -> 0..HandledKept] /\ w.current = id
      BY <2>2, NoSessionOutside DEF Tab
    <3> QED
      BY <2>2, <3>1, LatestFacts
  <2> QED
    BY <1>1, <2>1, <2>2 DEF Gives
<1> QED
  BY <1>1, <1>2 DEF v

\* A load: nothing is asked and no generate is on its way.
LEMMA ReloadAccounts ==
  ASSUME PageInv, Accounted, Spared', Reload
  PROVE  Accounted'
<1>1. PICK dom \in [Sessions -> Markup], kind \in {"reload", "again", "late"} :
        /\ kind = "again" \/ Strikes(kind)
        /\ \A s \in Sessions : dom[s] \in Served(s)
        /\ tab' \in Load(dom, kind)
  BY DEF Reload
<1>2. kind # "late"
  BY <1>1 DEF Strikes, Spared
<1>3. Sane(tab') /\ tab'.answers = {}
  BY <1>1, LoadKeeps
<1> DEFINE w == Blank(tab.handled, tab.saved, dom, {})
<1>4. /\ w.current = NoSession /\ w.observer = NoSession /\ w.timers = {} /\ w.posts = {}
      /\ w.handled = tab.handled /\ w.saved = tab.saved /\ w.dom = dom
      /\ w.answers = {} /\ w \in Tab
  <2>1. tab.handled \in [Sessions -> 0..HandledKept] /\ tab.saved \in Saved
    BY DEF PageInv, Sane, Tab
  <2> QED
    BY <2>1, BoundsAssumption DEF Blank, Tab, State
<1>5. PICK x \in Runtime(w) :
        tab' = [Resume(w, x) EXCEPT !.state = IF @ = "IDLE" THEN "PICKING" ELSE @,
                                    !.deferred = (Resume(w, x).current = NoSession \/ x = NoSession)]
  BY <1>1, <1>2 DEF Load
<1> HIDE DEF w
<1>6. Sane(w)
  <2>1. \A s \in Sessions : s > started => dom[s] = Clean
    BY <1>1 DEF PageInv, Known, Sane, Served
  <2>2. started \in Nat /\ tab.handled \in [Sessions -> 0..HandledKept]
    BY BoundsAssumption DEF PageInv, Known, Sane, Tab
  <2> QED
    <3>1. NoSession \notin Ids(tab.handled)
      BY NoSessionOutside DEF Ids
    <3> QED
      BY <1>4, <2>1, <2>2, <3>1, NoSessionOutside, NoSavedFacts DEF PageInv, Sane
<1>7. Whole(w)
  BY <1>4 DEF Whole
<1> DEFINE r == Resume(w, x)
<1>8. Kept(w, r) /\ Calm(w, r)
  BY <1>6, <1>7, RuntimeInSessions, ResumeKeeps, CalmResume DEF PageInv
<1>9. /\ tab'.observer = r.observer /\ tab'.current = r.current /\ tab'.timers = r.timers
      /\ tab'.posts = r.posts /\ tab'.handled = r.handled
  BY <1>5, <1>8 DEF Kept, Sane, Tab
<1> HIDE DEF r
<1>10. UNCHANGED <<journal, started>> /\ events' = <<>>
  BY DEF Reload
<1>11. Whole(tab)'
  BY <1>8, <1>9, <1>10 DEF Calm, Whole
<1>12. tab'.posts = {}
  BY <1>4, <1>8, <1>9 DEF Kept, Shift
<1>13. \A s \in Ids(tab'.handled) : ~AtWork(s)'
  BY <1>4, <1>8, <1>9, <1>10 DEF Calm, Accounted, AtWork
<1>14. 1..Len(events') = {}
  BY <1>10
<1> QED
  BY <1>3, <1>11, <1>12, <1>13, <1>14 DEF Accounted

\* The user.
LEMMA ConfigureAccounts ==
  ASSUME PageInv, Accounted, Pick \/ ExitConfigure
  PROVE  Accounted'
<1>1. tab' = [tab EXCEPT !.state = "PICKING"] \/ tab' = [tab EXCEPT !.state = "CONFIGURING"]
  BY DEF Pick, ExitConfigure, BeginNewConfiguration
<1>2. tab.state # "GENERATING" /\ UNCHANGED world
  BY DEF Pick, ExitConfigure
<1>3. /\ tab'.observer = tab.observer /\ tab'.current = tab.current /\ tab'.timers = tab.timers
      /\ tab'.dom = tab.dom /\ tab'.handled = tab.handled /\ tab'.answers = tab.answers
      /\ tab'.saved = tab.saved /\ tab'.posts = tab.posts
  BY <1>1 DEF PageInv, Sane, Tab
<1>4. Calm(tab, tab')
  BY <1>2, <1>3 DEF Calm, Whole, Unborn, Accounted
<1> QED
  BY <1>2, <1>3, <1>4, CalmStep DEF world, surroundings

\* What Go makes of the page.
LEMMA GoFacts ==
  ASSUME PageInv, Go
  PROVE  \E id \in Sessions :
           /\ id = started + 1 /\ started \in Nat /\ id \in Nat /\ started < id /\ id # NoSession
           /\ started' = id /\ UNCHANGED <<source, journal, stream, events>>
           /\ tab'.current = id /\ tab'.state = "GENERATING" /\ tab'.arrived = 0 /\ tab'.observer = id
           /\ \E type \in {"generate", "upload"} :
                tab'.posts = tab.posts \cup {[type |-> type, id |-> id, stray |-> FALSE]}
           /\ tab'.timers = tab.timers /\ tab'.handled = tab.handled /\ tab'.answers = tab.answers
           /\ tab'.dom = tab.dom /\ tab'.deferred = tab.deferred
           /\ tab'.saved = [id |-> id, state |-> "GENERATING", arrived |-> 0, file |-> FALSE]
           /\ \/ /\ \A a \in tab.answers : a.type = "checkpoint"
                 /\ \A t \in tab.timers : t.kind # "fetch"
                 /\ UNCHANGED faults
              \/ "late" \in faults'
<1>0. PICK id \in Sessions : id = started + 1
  BY BoundsAssumption DEF Go, PageInv, Known, Sessions
<1> DEFINE post(type) == [type |-> type, id |-> id, stray |-> FALSE]
<1>7. PICK type \in {"generate", "upload"} :
        tab' = SaveSession([tab EXCEPT !.pending = NoSession, !.awaiting = NoSession,
                 !.current = id, !.arrived = 0, !.file = FALSE, !.state = "GENERATING",
                 !.observer = id, !.posts = @ \cup {post(type)}])
  BY <1>0 DEF Go
<1> DEFINE p  == post(type)
           w  == [tab EXCEPT !.pending = NoSession, !.awaiting = NoSession,
                    !.current = id, !.arrived = 0, !.file = FALSE, !.state = "GENERATING",
                    !.observer = id, !.posts = @ \cup {p}]
           rec == [id |-> id, state |-> "GENERATING", arrived |-> 0, file |-> FALSE]
<1>1. tab' = SaveSession(w) /\ started' = id /\ UNCHANGED <<source, journal, stream, events>>
  BY <1>0, <1>7 DEF Go
<1>2. \/ /\ \A a \in tab.answers : a.type = "checkpoint"
         /\ \A t \in tab.timers : t.kind # "fetch"
         /\ UNCHANGED faults
      \/ "late" \in faults'
  BY DEF Go, Strikes
<1>3. started \in Nat /\ id \in Nat /\ started < id /\ id # NoSession
  BY <1>0, BoundsAssumption DEF Go, PageInv, Known, Sessions, NoSession
<1> HIDE DEF p
<1>4. /\ w.current = id /\ w.state = "GENERATING" /\ w.arrived = 0 /\ w.file = FALSE
      /\ w.observer = id /\ w.posts = tab.posts \cup {p} /\ w.timers = tab.timers
      /\ w.handled = tab.handled /\ w.answers = tab.answers /\ w.dom = tab.dom
      /\ w.deferred = tab.deferred
  BY DEF PageInv, Sane, Tab
<1>5. tab' = [w EXCEPT !.saved = rec]
  BY <1>1, <1>3, <1>4 DEF SaveSession
<1>6. /\ tab'.current = id /\ tab'.state = "GENERATING" /\ tab'.arrived = 0 /\ tab'.observer = id
      /\ tab'.posts = tab.posts \cup {p} /\ tab'.timers = tab.timers /\ tab'.handled = tab.handled
      /\ tab'.answers = tab.answers /\ tab'.dom = tab.dom /\ tab'.saved = rec
      /\ tab'.deferred = tab.deferred
  BY <1>5 DEF PageInv, Sane, Tab
<1> HIDE DEF w, rec
<1> QED
  BY <1>0, <1>1, <1>2, <1>3, <1>6 DEF p, rec

\* A new session's generate leaves when no other accept or discard is out and
\* no read is under way.
LEMMA GoAccounts ==
  ASSUME PageInv, Accounted, Spared', Go
  PROVE  Accounted'
<1> DEFINE new(type, id) == [type |-> type, id |-> id, stray |-> FALSE]
           kept(id) == [id |-> id, state |-> "GENERATING", arrived |-> 0, file |-> FALSE]
<1>1. PICK id \in Sessions :
        /\ started \in Nat /\ id \in Nat /\ started < id /\ id # NoSession
        /\ started' = id /\ UNCHANGED <<source, journal, stream, events>>
        /\ tab'.current = id /\ tab'.state = "GENERATING" /\ tab'.arrived = 0 /\ tab'.observer = id
        /\ \E type \in {"generate", "upload"} : tab'.posts = tab.posts \cup {new(type, id)}
        /\ tab'.timers = tab.timers /\ tab'.handled = tab.handled /\ tab'.answers = tab.answers
        /\ tab'.dom = tab.dom /\ tab'.saved = kept(id)
        /\ \A a \in tab.answers : a.type = "checkpoint"
        /\ \A t \in tab.timers : t.kind # "fetch"
  BY GoFacts DEF Spared
<1>12. PICK type \in {"generate", "upload"} : tab'.posts = tab.posts \cup {new(type, id)}
  BY <1>1
<1> DEFINE p   == new(type, id)
           rec == kept(id)
<1>2. p.id = id /\ p.type \in {"generate", "upload"} /\ ~p.stray
  OBVIOUS
<1>3. rec.id = id /\ rec.state = "GENERATING" /\ rec.arrived = 0
  OBVIOUS
<1>4. tab'.posts = tab.posts \cup {p} /\ tab'.saved = rec
  BY <1>1, <1>12
<1> HIDE DEF p, rec, new, kept
<1>5. \A t \in tab.timers : t.id \in Nat /\ t.id <= started
  BY NoSessionOutside DEF Accounted, Whole, PageInv, Sane, Tab, Timer
<1>6. Whole(tab)'
  BY <1>1, <1>4, <1>5 DEF Whole
<1>7. Unborn(tab, id)'
  <2>1. journal[id] = "none" /\ source[id] = Clean /\ tab.dom[id] = Clean
    BY <1>1, NoSessionOutside DEF PageInv, Known, Sane
  <2>2. id \notin Ids(tab.handled) /\ \A a \in tab.answers : a.id # id
    BY <1>1 DEF PageInv, Sane
  <2>3. \A t \in tab.timers : t.id # id
    BY <1>1, <1>5
  <2> QED
    BY <1>1, <1>3, <1>4, <2>1, <2>2, <2>3 DEF Unborn
<1>8. \A q \in tab'.posts : q.type \in {"generate", "upload"} => ~q.stray /\ Unborn(tab, q.id)'
  <2> SUFFICES ASSUME NEW q \in tab.posts, q.type \in {"generate", "upload"}
               PROVE  ~q.stray /\ Unborn(tab, q.id)'
    BY <1>1, <1>2, <1>4, <1>7
  <2>1. ~q.stray /\ Unborn(tab, q.id)
    BY DEF Accounted
  <2>2. q.id # id
    BY <1>1 DEF PageInv, Sane
  <2> QED
    BY <1>1, <1>3, <1>4, <2>1, <2>2 DEF Unborn
<1>9. \A s \in Ids(tab'.handled) : ~AtWork(s)'
  BY <1>1, <1>4 DEF Accounted, AtWork
<1>10. \A a \in tab'.answers :
         /\ Decided(a)'
         /\ a.type # "checkpoint" => tab'.current \in {a.id, NoSession}
  BY <1>1, <1>4 DEF Accounted, Decided
<1>11. \A i \in 1..Len(events') : Ended(events[i])'
  BY <1>1 DEF Accounted, Ended
<1> QED
  BY <1>6, <1>8, <1>9, <1>10, <1>11 DEF Accounted

\* What is asked concerns the page's session, which the helper knows.
LEMMA AskAccounts ==
  ASSUME PageInv, Accounted, NEW w, NEW type \in {"accept", "discard"}, NEW id \in Sessions,
         NEW phase, phase = IF type = "accept" THEN "accepting" ELSE "discarding",
         Ask(w, type, id, phase), UNCHANGED surroundings, Sane(w), Calm(tab, w),
         w.posts = tab.posts, w.current = id, tab.current = id,
         tab.state = "CYCLING"
  PROVE  Accounted'
<1>1. PICK ok \in BOOLEAN, reaches \in BOOLEAN :
        /\ journal' = IF reaches /\ Acts(id) THEN [journal EXCEPT ![id] = phase] ELSE journal
        /\ tab' = [w EXCEPT !.answers = @ \cup {[type |-> type, id |-> id, ok |-> ok]}]
        /\ ok => reaches /\ Acts(id)
  BY DEF Ask
<1> DEFINE a == [type |-> type, id |-> id, ok |-> ok]
<1>2. a.id = id /\ a.type = type /\ a.ok = ok
  OBVIOUS
<1> HIDE DEF a
<1>3. tab' = [w EXCEPT !.answers = @ \cup {a}]
  BY <1>1 DEF a
<1>4. /\ tab'.answers = w.answers \cup {a} /\ tab'.posts = tab.posts /\ tab'.observer = w.observer
      /\ tab'.current = w.current /\ tab'.state = w.state /\ tab'.arrived = w.arrived
      /\ tab'.handled = w.handled /\ tab'.saved = w.saved /\ tab'.dom = w.dom /\ tab'.timers = w.timers
  BY <1>3 DEF Sane, Tab
<1>5. UNCHANGED <<source, stream, events, started>> /\ journal \in [Sessions -> Phase]
  BY DEF surroundings, PageInv, Known
<1>6. \A s \in Sessions \ {id} : journal'[s] = journal[s]
  BY <1>1, <1>5
<1>7. journal'[id] = journal[id] \/ (journal[id] \in {"generating", "ready"} /\ journal'[id] = phase)
  BY <1>1, <1>5 DEF Acts
<1>8. Whole(tab)'
  BY <1>4, <1>5 DEF Calm, Whole
<1>9. \A p \in tab'.posts : p.type \in {"generate", "upload"} => ~p.stray /\ Unborn(tab, p.id)'
  <2> SUFFICES ASSUME NEW p \in tab.posts, p.type \in {"generate", "upload"}
               PROVE  ~p.stray /\ Unborn(tab, p.id)'
    BY <1>4
  <2>1. ~p.stray /\ Unborn(tab, p.id) /\ Unborn(w, p.id) /\ p.id \in Sessions
    BY DEF PageInv, Sane, Tab, Post, Accounted, Calm
  <2>2. p.id # id
    BY <2>1 DEF Unborn
  <2> QED
    BY <1>2, <1>4, <1>5, <1>6, <2>1, <2>2 DEF Unborn
<1>10. \A s \in Ids(tab'.handled) : ~AtWork(s)'
  <2> SUFFICES ASSUME NEW s \in Ids(tab.handled)
               PROVE  ~AtWork(s)'
    BY <1>4 DEF Calm
  <2>1. s \in Sessions /\ ~AtWork(s)
    BY DEF PageInv, Sane, Tab, Accounted, Ids
  <2> QED
    BY <1>6, <1>7, <2>1 DEF AtWork
<1>11. \A b \in tab'.answers :
         /\ Decided(b)'
         /\ b.type # "checkpoint" => tab'.current \in {b.id, NoSession}
  <2>1. Decided(a)'
    <3>1. a.ok => journal'[id] = phase
      BY <1>1, <1>2, <1>5
    <3> QED
      BY <1>2, <3>1 DEF Decided
  <2>2. ASSUME NEW b \in tab.answers
        PROVE  Decided(b)' /\ (b.type # "checkpoint" => tab'.current \in {b.id, NoSession})
    <3>1. Decided(b) /\ b.id \in Sessions /\ (b.type # "checkpoint" => id \in {b.id, NoSession})
      BY DEF PageInv, Sane, Tab, Answer, Accounted
    <3> QED
      BY <1>4, <1>6, <1>7, <3>1 DEF Decided
  <2> QED
    BY <1>2, <1>4, <2>1, <2>2 DEF Calm
<1>12. \A i \in 1..Len(events') : Ended(events[i])'
  <2> SUFFICES ASSUME NEW i \in 1..Len(events)
               PROVE  Ended(events[i])'
    BY <1>5
  <2>1. Ended(events[i]) /\ events[i] \in Event
    BY DEF PageInv, Rest, Accounted
  <2>2. events[i].id \in Sessions
    BY <2>1 DEF Event
  <2> QED
    BY <1>5, <1>6, <1>7, <2>1, <2>2 DEF Ended
<1> QED
  BY <1>8, <1>9, <1>10, <1>11, <1>12 DEF Accounted

LEMMA AcceptAccounts ==
  ASSUME PageInv, Accounted, Accept
  PROVE  Accounted'
<1> DEFINE w == [tab EXCEPT !.state = "SAVING", !.pending = tab.current]
<1>1. w \in Tab
  BY DEF PageInv, Sane, Tab, State
<1>2. Sane(w)
  BY <1>1 DEF PageInv, Sane, Tab
<1>3. /\ w.observer = tab.observer /\ w.current = tab.current /\ w.timers = tab.timers
      /\ w.dom = tab.dom /\ w.handled = tab.handled /\ w.answers = tab.answers
      /\ w.saved = tab.saved /\ w.posts = tab.posts
  BY DEF PageInv, Sane, Tab
<1>4. tab.current \in Sessions /\ tab.state = "CYCLING" /\ UNCHANGED surroundings
  BY DEF Accept, PageInv, Sane, Tab
<1>5. Ask(SaveSession(w), "accept", tab.current, "accepting")
  BY DEF Accept
<1> HIDE DEF w
<1>6. Calm(tab, w)
  BY <1>3, <1>4 DEF Calm, Whole, Unborn, Accounted
<1>7. Calm(w, SaveSession(w))
  BY <1>1, <1>6, CalmSaveSession DEF Calm
<1> DEFINE v == SaveSession(w)
<1>8. Sane(v) /\ v.posts = tab.posts /\ v.current = tab.current
  <2>1. Sane(v)
    BY <1>2, SaveSessionKeeps DEF Kept
  <2> QED
    BY <1>1, <1>3, <2>1 DEF SaveSession, Tab
<1>9. Calm(tab, v) /\ Ask(v, "accept", tab.current, "accepting")
  BY <1>5, <1>6, <1>7, CalmTransitive
<1> HIDE DEF v
<1> QED
  BY <1>4, <1>8, <1>9, AskAccounts

LEMMA DiscardAccounts ==
  ASSUME PageInv, Accounted, Discard
  PROVE  Accounted'
<1>1. tab.current \in Sessions /\ tab.state = "CYCLING" /\ Sane(tab) /\ UNCHANGED surroundings
  BY DEF Discard, PageInv, Sane, Tab
<1>2. Ask(tab, "discard", tab.current, "discarding") /\ Calm(tab, tab)
  BY CalmSame DEF Discard, Accounted
<1> QED
  BY <1>1, <1>2, AskAccounts

LEMMA LeavingFacts ==
  ASSUME NEW w, w \in Tab, NEW v, v = Cleanup(w) \/ v = Release(w)
  PROVE  /\ v.current = NoSession /\ v.observer = NoSession /\ v.saved = NoSaved
         /\ v.timers = w.timers /\ v.dom = w.dom /\ v.posts = w.posts
         /\ v.answers = w.answers /\ v.handled = w.handled
<1>1. CASE v = Cleanup(w)
  BY <1>1 DEF Cleanup, Tab
<1>2. CASE v = Release(w)
  BY <1>2 DEF Release, Tab
<1> QED
  BY <1>1, <1>2

\* An answer is to the page's session or to none, and says how it stands.
LEMMA AnsweredAccounts ==
  ASSUME PageInv, Accounted, Answered
  PROVE  Accounted'
<1> DEFINE without(a) == [tab EXCEPT !.answers = @ \ {a}]
<1>1. PICK a \in tab.answers :
        tab' = CASE a.type = "accept"     -> AcceptAnswered(without(a), a)
                 [] a.type = "discard"    -> DiscardAnswered(without(a), a)
                 [] a.type = "checkpoint" -> CheckpointAnswered(without(a), a)
                 [] OTHER                 -> without(a)
  BY DEF Answered
<1> DEFINE w == without(a)
<1>2. UNCHANGED <<source, journal, events, started>>
  BY DEF Answered, world, surroundings
<1>3. a.type \in {"accept", "discard", "checkpoint"} /\ a.id \in Sessions
  BY DEF PageInv, Sane, Tab, Answer
<1>4. Decided(a) /\ (a.type # "checkpoint" => tab.current \in {a.id, NoSession})
  BY DEF Accounted
<1>5. /\ w \in Tab /\ w.answers = tab.answers \ {a} /\ w.posts = tab.posts /\ w.state = tab.state
      /\ w.current = tab.current /\ w.observer = tab.observer /\ w.timers = tab.timers
      /\ w.dom = tab.dom /\ w.handled = tab.handled /\ w.saved = tab.saved /\ w.arrived = tab.arrived
  BY DEF PageInv, Sane, Tab
<1> HIDE DEF w
<1>6. Calm(tab, w)
  BY <1>5 DEF Calm, Whole, Unborn, Accounted
<1>7. ~Unborn(tab, a.id)
  BY DEF Unborn
<1>8. ASSUME NEW v, v \in {MarkHandled(w), [MarkHandled(w) EXCEPT !.awaiting = a.id]},
             tab' = Cleanup(v) \/ tab' = Release(v),
             tab.current \in {a.id, NoSession}, ~AtWork(a.id)
      PROVE  Accounted'
  <2>1. /\ v.timers = w.timers /\ v.dom = w.dom /\ v.posts = w.posts /\ v.answers = w.answers
        /\ Ids(v.handled) \subseteq Ids(tab.handled) \cup {a.id} /\ v \in Tab
    <3> DEFINE u == MarkHandled(w)
    <3>1. /\ u.timers = w.timers /\ u.dom = w.dom /\ u.posts = w.posts /\ u.answers = w.answers
          /\ Ids(u.handled) \subseteq Ids(tab.handled) \cup {a.id} /\ u \in Tab
      BY <1>5, <1>8, GivenUpIds
    <3>2. v \in {u, [u EXCEPT !.awaiting = a.id]}
      BY <1>8
    <3> HIDE DEF u
    <3> QED
      BY <1>3, <3>1, <3>2 DEF Tab
  <2>2. /\ tab'.current = NoSession /\ tab'.observer = NoSession /\ tab'.saved = NoSaved
        /\ tab'.timers = tab.timers /\ tab'.dom = tab.dom /\ tab'.posts = tab.posts
        /\ tab'.answers \subseteq tab.answers /\ Ids(tab'.handled) \subseteq Ids(tab.handled) \cup {a.id}
    BY <1>5, <1>8, <2>1, LeavingFacts
  <2> QED
    BY <1>2, <1>3, <1>7, <1>8, <2>2, GivenUpStep
<1>9. ASSUME tab' = w
      PROVE  Accounted'
  BY <1>2, <1>5, <1>6, <1>9, CalmStep
<1>10. CASE a.type = "accept"
  <2>1. tab' = AcceptAnswered(w, a)
    BY <1>1, <1>10 DEF w
  <2>2. CASE a.ok /\ w.pending = a.id
    <3>1. ~AtWork(a.id)
      BY <1>4, <1>10, <2>2 DEF Decided, AtWork
    <3> QED
      BY <1>4, <1>8, <1>10, <2>1, <2>2, <3>1 DEF AcceptAnswered
  <2>3. CASE a.ok /\ w.pending # a.id
    BY <1>9, <2>1, <2>3 DEF AcceptAnswered
  <2>4. CASE ~a.ok
    <3> DEFINE n == [w EXCEPT !.state = "CYCLING", !.pending = IF @ = a.id THEN NoSession ELSE @]
    <3>1. n \in Tab
      BY <1>5 DEF Tab, State
    <3>2. /\ n.observer = w.observer /\ n.current = w.current /\ n.timers = w.timers /\ n.dom = w.dom
          /\ n.handled = w.handled /\ n.answers = w.answers /\ n.saved = w.saved /\ n.posts = w.posts
      BY <1>5 DEF Tab
    <3> HIDE DEF n
    <3>3. Calm(tab, n)
      <4>1. ASSUME NEW s \in Sessions, Unborn(tab, s)
            PROVE  Unborn(n, s)
        <5>1. Unborn(w, s) /\ tab.current # s
          BY <1>4, <1>6, <1>7, <1>10, <4>1, NoSessionOutside DEF Calm
        <5> QED
          BY <1>5, <3>2, <5>1 DEF Unborn
      <4> QED
        BY <1>6, <3>2, <4>1 DEF Calm, Whole
    <3>4. Calm(n, ShowCycling(n))
      BY <3>1, <3>3, CalmSame, CalmCleanup DEF ShowCycling, Calm
    <3>5. tab' = ShowCycling(n)
      BY <2>1, <2>4 DEF AcceptAnswered, n
    <3>6. tab'.posts = tab.posts /\ tab'.current \in {tab.current, NoSession}
      BY <1>5, <3>1, <3>2, <3>5, CleanupFacts DEF ShowCycling
    <3>7. Calm(tab, tab')
      BY <3>3, <3>4, <3>5, CalmTransitive
    <3> QED
      BY <1>2, <3>6, <3>7, CalmStep
  <2> QED
    BY <2>2, <2>3, <2>4
<1>11. CASE a.type = "discard"
  <2>1. tab' = DiscardAnswered(w, a)
    BY <1>1, <1>11 DEF w
  <2>2. CASE a.ok
    <3>1. ~AtWork(a.id)
      BY <1>4, <1>11, <2>2 DEF Decided, AtWork
    <3> QED
      BY <1>4, <1>8, <1>11, <2>1, <2>2, <3>1 DEF DiscardAnswered
  <2> QED
    BY <1>9, <2>1, <2>2 DEF DiscardAnswered
<1>12. CASE a.type = "checkpoint"
  <2>1. tab' = CheckpointAnswered(w, a)
    BY <1>1, <1>12 DEF w
  <2>2. CASE ~a.ok /\ w.current = a.id
    <3>1. ~AtWork(a.id)
      BY <1>4, <1>12 DEF Decided, AtWork
    <3> QED
      BY <1>5, <1>8, <2>1, <2>2, <3>1 DEF CheckpointAnswered
  <2> QED
    BY <1>9, <2>1, <2>2 DEF CheckpointAnswered
<1> QED
  BY <1>3, <1>10, <1>11, <1>12

\* An end that is heard is one.
LEMMA HearAccounts ==
  ASSUME PageInv, Accounted, Hear
  PROVE  Accounted'
<1>1. events \in Seq(Event) /\ events # <<>> /\ events' = Tail(events)
  BY DEF PageInv, Rest, Hear
<1>2. PICK e \in Event : e = Head(events) /\ Ended(e)
  <2>1. Head(events) \in Event /\ 1 \in 1..Len(events) /\ Head(events) = events[1]
    BY <1>1
  <2>2. Ended(events[1])
    BY <2>1 DEF Accounted
  <2> QED
    BY <2>1, <2>2
<1>3. e.id \in Sessions /\ e.type \in {"done", "complete", "discarded"}
  BY <1>2 DEF Event, Ended
<1>4. /\ tab' = CASE e.type = "done"      -> DoneSeen(tab, e.id)
                  [] e.type = "complete"  -> CompleteSeen(tab, e.id)
                  [] e.type = "discarded" -> DiscardedSeen(tab, e.id)
                  [] e.type = "error"     -> ErrorSeen(tab, e.id)
      /\ UNCHANGED <<source, journal, started>>
  BY <1>2 DEF Hear
<1>5. Sane(tab) /\ Known /\ Whole(tab) /\ tab \in Tab
  BY DEF PageInv, Accounted, Sane
<1>6. ASSUME NEW w, w \in Tab, w.timers = tab.timers, w.dom = tab.dom, w.posts = tab.posts,
             w.answers = tab.answers, w.handled = tab.handled, w.current = tab.current,
             tab.current \in {e.id, NoSession}, journal[e.id] = "closed",
             tab' = Cleanup(MarkHandled(w)) \/ tab' = Release(MarkHandled(w))
      PROVE  Accounted'
  <2> DEFINE v == MarkHandled(w)
  <2>1. /\ v.timers = w.timers /\ v.dom = w.dom /\ v.posts = w.posts /\ v.answers = w.answers
        /\ Ids(v.handled) \subseteq Ids(tab.handled) \cup {e.id} /\ v \in Tab
    <3>1. w \in Tab /\ w.current \in {e.id, NoSession}
      BY <1>6
    <3> QED
      BY <1>6, <3>1, GivenUpIds
  <2> HIDE DEF v
  <2>2. /\ tab'.current = NoSession /\ tab'.observer = NoSession /\ tab'.saved = NoSaved
        /\ tab'.timers = tab.timers /\ tab'.dom = tab.dom /\ tab'.posts = tab.posts
        /\ tab'.answers \subseteq tab.answers /\ Ids(tab'.handled) \subseteq Ids(tab.handled) \cup {e.id}
    <3>1. tab' = Cleanup(v) \/ tab' = Release(v)
      BY <1>6 DEF v
    <3> QED
      BY <1>6, <2>1, <3>1, LeavingFacts
  <2>3. ~AtWork(e.id) /\ ~Unborn(tab, e.id)
    BY <1>6 DEF AtWork, Unborn
  <2> QED
    BY <1>1, <1>3, <1>4, <1>6, <2>2, <2>3, GivenUpStep
<1>7. CASE e.type = "done"
  <2>1. tab' = DoneSeen(tab, e.id)
    BY <1>4, <1>7
  <2>2. Calm(tab, tab') /\ Kept(tab, tab')
    BY <1>3, <1>5, <2>1, CalmDoneSeen, DoneSeenKeeps
  <2>3. tab'.current = tab.current
    BY <1>5, <2>1 DEF DoneSeen, Set, Tab
  <2> QED
    BY <1>1, <1>4, <2>2, <2>3, CalmStep DEF Kept, Shift
<1>8. CASE e.type = "complete"
  <2> DEFINE w1 == [tab EXCEPT !.awaiting = IF @ = e.id THEN NoSession ELSE @]
             w2 == [w1 EXCEPT !.pending = NoSession]
  <2>1. tab' = CompleteSeen(tab, e.id)
    BY <1>4, <1>8
  <2> DEFINE Like(v) ==
               /\ v \in Tab /\ v.observer = tab.observer /\ v.current = tab.current
               /\ v.timers = tab.timers /\ v.dom = tab.dom /\ v.handled = tab.handled
               /\ v.answers = tab.answers /\ v.saved = tab.saved /\ v.posts = tab.posts
               /\ v.state = tab.state /\ v.arrived = tab.arrived
  <2>2. \A v \in {w1, w2} : Like(v)
    <3>1. Like(w1)
      BY <1>5 DEF Tab
    <3>2. Like(w2)
      BY <1>5 DEF Tab
    <3> QED
      BY <3>1, <3>2
  <2> HIDE DEF w1, w2
  <2>3. ASSUME tab' \in {w1, w2}
        PROVE  Accounted'
    <3>1. Calm(tab, tab')
      BY <1>5, <2>2, <2>3 DEF Calm, Whole, Unborn
    <3> QED
      BY <1>1, <1>4, <2>2, <2>3, <3>1, CalmStep
  <2>4. CASE tab' = Release(MarkHandled(w1)) /\ w1.current \in {NoSession, e.id}
    <3>1. journal[e.id] = "closed"
      BY <1>2, <1>8 DEF Ended
    <3> QED
      BY <1>6, <2>2, <2>4, <3>1
  <2>5. tab' \in {w1, w2} \/ (tab' = Release(MarkHandled(w1)) /\ w1.current \in {NoSession, e.id})
    BY <2>1 DEF CompleteSeen, w1, w2
  <2> QED
    BY <2>3, <2>4, <2>5
<1>9. CASE e.type = "discarded"
  <2>1. tab' = DiscardedSeen(tab, e.id) /\ journal[e.id] = "closed"
    BY <1>2, <1>4, <1>9 DEF Ended
  <2>2. CASE e.id = tab.current
    BY <1>5, <1>6, <2>1, <2>2 DEF DiscardedSeen
  <2>3. CASE e.id # tab.current
    <3>1. tab' = tab
      BY <2>1, <2>3 DEF DiscardedSeen
    <3> QED
      BY <1>1, <1>4, <1>5, <3>1, CalmSame, CalmStep
  <2> QED
    BY <2>2, <2>3
<1> QED
  BY <1>3, <1>7, <1>8, <1>9

\* A move to another session counts as trouble when an accept or a discard is out.
LEMMA NotMoved ==
  ASSUME MayMove, Spared'
  PROVE  \/ tab'.current \in {tab.current, NoSession}
         \/ \A a \in tab.answers : a.type = "checkpoint"
BY DEF MayMove, Spared

LEMMA ConnectAccounts ==
  ASSUME PageInv, Accounted, Spared', Connect
  PROVE  Accounted'
<1> DEFINE chosen(rec) == IF Wrappers(tab) = {} /\ CanRestore(tab, rec, TRUE)
                          THEN Restore(tab, rec, TRUE) ELSE tab
<1>1. PICK rec \in Records(tab, TRUE) :
        tab' = [MissedCompletion(chosen(rec)) EXCEPT !.state = IF @ = "IDLE" THEN "PICKING" ELSE @]
  BY DEF Connect
<1>2. /\ rec \in Saved /\ rec.id <= started
      /\ \A s \in Sessions : Unborn(tab, s) /\ rec.id = s =>
           tab.current = s /\ rec.state = "GENERATING" /\ rec.arrived = 0
  <2>1. CASE rec = tab.saved \/ rec = NoSaved
    BY <2>1, NoSavedFacts, NoSessionOutside, BoundsAssumption DEF PageInv, Sane, Known, Tab, Unborn
  <2>2. CASE \E s \in Adoptable(tab), n \in {0, Count} :
               rec = [id |-> s, state |-> "GENERATING", arrived |-> n, file |-> TRUE]
    <3>1. PICK s \in Adoptable(tab), n \in {0, Count} :
            rec = [id |-> s, state |-> "GENERATING", arrived |-> n, file |-> TRUE]
      BY <2>2
    <3>2. s \in Sessions /\ s <= started /\ ~Unborn(tab, s)
      BY NoSessionOutside, BoundsAssumption DEF PageInv, Known, Adoptable, Unborn
    <3> QED
      BY <3>1, <3>2, BoundsAssumption DEF Saved, State
  <2> QED
    BY <2>1, <2>2 DEF Records
<1> DEFINE w == chosen(rec)
           m == MissedCompletion(w)
<1>3. Sane(tab) /\ Whole(tab)
  BY DEF PageInv, Accounted
<1>4. Kept(tab, w) /\ Calm(tab, w)
  <2>1. Kept(tab, tab) /\ Calm(tab, tab)
    BY <1>3, KeptSame, CalmSame
  <2>2. CanRestore(tab, rec, TRUE) => Kept(tab, Restore(tab, rec, TRUE)) /\ Calm(tab, Restore(tab, rec, TRUE))
    BY <1>2, <1>3, RestoreKeeps, CalmRestore DEF CanRestore
  <2> QED
    BY <2>1, <2>2
<1>5. tab' = [m EXCEPT !.state = IF @ = "IDLE" THEN "PICKING" ELSE @]
  BY <1>1
<1> HIDE DEF w
<1>6. Kept(tab, m) /\ Calm(tab, m)
  <2>1. Kept(w, m) /\ Calm(w, m)
    BY <1>4, MissedCompletionKeeps, CalmMissedCompletion DEF Kept, Calm
  <2> QED
    BY <1>4, <2>1, KeptTransitive, CalmTransitive
<1> HIDE DEF m
<1>7. /\ tab'.observer = m.observer /\ tab'.current = m.current /\ tab'.timers = m.timers
      /\ tab'.dom = m.dom /\ tab'.handled = m.handled /\ tab'.answers = m.answers
      /\ tab'.saved = m.saved /\ tab'.posts = m.posts /\ tab'.arrived = m.arrived
      /\ m.state = "GENERATING" => tab'.state = "GENERATING"
  BY <1>5, <1>6 DEF Kept, Sane, Tab
<1>8. Calm(m, tab')
  BY <1>6, <1>7 DEF Calm, Whole, Unborn
<1>9. Calm(tab, tab')
  BY <1>6, <1>8, CalmTransitive
<1>10. UNCHANGED <<source, journal, events, started>> /\ MayMove
  BY DEF Connect
<1>11. \A p \in tab'.posts : p \in tab.posts \/ p.type = "checkpoint"
  BY <1>6, <1>7 DEF Kept, Shift
<1> QED
  BY <1>9, <1>10, <1>11, NotMoved, CalmStep

LEMMA StreamAccounts ==
  ASSUME PageInv, Accounted, StreamDrops \/ ServerLost
  PROVE  Accounted'
<1>1. Sane(tab) /\ Whole(tab)
  BY DEF PageInv, Accounted
<1>2. UNCHANGED <<source, journal, started>> /\ (events' = <<>> \/ events' = events)
  BY DEF StreamDrops, ServerLost
<1>3. /\ Calm(tab, tab') /\ tab'.current = tab.current
      /\ \A p \in tab'.posts : p \in tab.posts \/ p.type = "checkpoint"
  <2> DEFINE w == [tab EXCEPT !.observer = NoSession,
                     !.state = IF tab.current = NoSession THEN "IDLE" ELSE @]
  <2>1. /\ w \in Tab /\ w.observer = NoSession /\ w.current = tab.current /\ w.timers = tab.timers
        /\ w.dom = tab.dom /\ w.handled = tab.handled /\ w.answers = tab.answers
        /\ w.saved = tab.saved /\ w.posts = tab.posts /\ w.arrived = tab.arrived
        /\ tab.current # NoSession => w.state = tab.state
    BY <1>1 DEF Sane, Tab, State
  <2> HIDE DEF w
  <2>2. Calm(tab, w)
    BY <1>1, <2>1, NoSessionOutside DEF Calm, Whole, Unborn
  <2>3. Calm(w, SaveSession(w))
    BY <2>1, <2>2, CalmSaveSession DEF Calm
  <2>4. Calm(tab, SaveSession(w)) /\ Calm(tab, tab)
    BY <1>1, <2>2, <2>3, CalmSame, CalmTransitive
  <2>5. SaveSession(w).current = tab.current /\ SaveSession(w).posts = tab.posts
    BY <2>1 DEF SaveSession, Tab
  <2> QED
    BY <2>4, <2>5 DEF StreamDrops, ServerLost, w
<1> QED
  BY <1>2, <1>3, CalmStep

LEMMA FetchedAccounts ==
  ASSUME PageInv, Accounted, Spared', Fetched
  PROVE  Accounted'
<1> DEFINE in(t) == Complete(Render(Drop(tab, t), t.id, source[t.id]), t, source[t.id])
<1>1. PICK t \in tab.timers :
        /\ t.kind = "fetch"
        /\ IF source[t.id] \in Wrapped THEN \E x \in Runtime(in(t)) : tab' = Woken(in(t), x)
           ELSE tab' = WrapperMissing(Drop(tab, t), t)
        /\ journal' = IF GivesUp(t) /\ Acts(t.id) THEN [journal EXCEPT ![t.id] = "discarding"]
                      ELSE journal
  BY DEF Fetched
<1>2. UNCHANGED <<source, events, started>> /\ MayMove
  BY DEF Fetched, surroundings
<1>3. Sane(tab) /\ Known /\ Whole(tab)
  BY DEF PageInv, Accounted
<1>4. t \in Timer /\ t.id \in Sessions /\ t.id <= started
  BY <1>3 DEF Sane, Tab, Timer, Whole
<1>5. \A s \in Sessions : Unborn(tab, s) =>
        /\ t.id = s => source[t.id] \notin Wrapped /\ ~t.orphan
        /\ tab.current = s => t.id = s
  BY <1>1, MarkupFacts DEF Unborn
<1> DEFINE w == Drop(tab, t)
           r == Render(w, t.id, source[t.id])
           c == Complete(r, t, source[t.id])
<1>6. Kept(tab, w) /\ Calm(tab, w)
  BY <1>3, DropKeeps, CalmDrop DEF Sane
<1>7. /\ w.current = tab.current /\ w.timers = tab.timers \ {t} /\ w.dom = tab.dom
      /\ w.posts = tab.posts /\ w.answers = tab.answers /\ w.handled = tab.handled
  BY <1>3 DEF Drop, Sane, Tab
<1>8. CASE source[t.id] \in Wrapped
  <2>1. PICK x \in Runtime(c) : tab' = Woken(c, x)
    BY <1>1, <1>8
  <2>2. UNCHANGED journal
    BY <1>1, <1>8 DEF GivesUp
  <2> HIDE DEF w
  <2>3. Kept(tab, r) /\ Calm(tab, r)
    <3>1. Kept(w, r) /\ Calm(w, r)
      BY <1>3, <1>4, <1>6, RenderKeeps, CalmRender DEF Kept, Calm
    <3> QED
      BY <1>6, <3>1, KeptTransitive, CalmTransitive
  <2>4. r.current = tab.current
    BY <1>6, <1>7 DEF Render, Kept, Sane, Tab
  <2> HIDE DEF r
  <2>5. Kept(tab, c) /\ Calm(tab, c)
    <3>1. Kept(r, c)
      BY <1>3, <1>4, <1>8, <2>3, CompleteKeeps DEF Kept
    <3>2. /\ Whole(c) /\ c.handled = r.handled /\ c.answers \subseteq r.answers
          /\ \A s \in Sessions : Unborn(r, s) /\ s \notin {t.id, r.current} => Unborn(c, s)
      BY <1>4, <1>8, <2>3, CalmComplete DEF Kept, Calm
    <3>3. \A s \in Sessions : Unborn(tab, s) => s \notin {t.id, r.current}
      BY <1>5, <1>8, <2>4
    <3> HIDE DEF c
    <3>4. Calm(tab, c)
      BY <2>3, <3>2, <3>3 DEF Calm
    <3> QED
      BY <2>3, <3>1, <3>4, KeptTransitive
  <2> HIDE DEF c
  <2>6. Kept(c, tab') /\ Calm(c, tab')
    BY <1>3, <2>1, <2>5, RuntimeInSessions, WokenKeeps, CalmWoken DEF Kept, Calm
  <2>7. Kept(tab, tab') /\ Calm(tab, tab')
    BY <2>5, <2>6, KeptTransitive, CalmTransitive
  <2> QED
    BY <1>2, <2>2, <2>7, NotMoved, CalmStep DEF Kept, Shift
<1>9. CASE source[t.id] \notin Wrapped
  <2>1. tab' = WrapperMissing(w, t)
    BY <1>1, <1>9
  <2> DEFINE again == [t EXCEPT !.kind = "orphan"]
  <2>2. CASE ~t.orphan \/ t.id # tab.current
    <3>1. tab' = w /\ UNCHANGED journal
      BY <1>1, <1>7, <2>1, <2>2 DEF WrapperMissing, GivesUp
    <3> QED
      BY <1>2, <1>6, <1>7, <3>1, CalmStep
  <2>3. CASE t.orphan /\ t.id = tab.current /\ t.tries < Rereads
    <3>1. tab' = Set(w, again) /\ UNCHANGED journal
      <4>1. t.tries # Rereads
        BY <1>4, <2>3, BoundsAssumption DEF Timer
      <4> QED
        BY <1>1, <1>7, <2>1, <2>3, <4>1 DEF WrapperMissing, GivesUp
    <3>2. again \in Timer /\ again.id = t.id /\ again.kind = "orphan"
      BY <1>4 DEF Timer, TimerKind
    <3> HIDE DEF again
    <3>3. Calm(tab, Set(w, again))
      BY <1>3, <2>3, <3>2, CalmAgain
    <3>4. tab'.current = tab.current /\ tab'.posts = tab.posts
      BY <1>6, <1>7, <3>1 DEF Set, Kept, Sane, Tab
    <3> QED
      BY <1>2, <3>1, <3>3, <3>4, CalmStep
  <2>4. CASE t.orphan /\ t.id = tab.current /\ ~(t.tries < Rereads)
    <3>1. tab' = Cleanup(MarkHandled(w))
      BY <1>7, <2>1, <2>4 DEF WrapperMissing
    <3>2. t.tries = Rereads
      BY <1>4, <2>4, BoundsAssumption DEF Timer
    <3>3. journal' = IF AtWork(t.id) THEN [journal EXCEPT ![t.id] = "discarding"] ELSE journal
      BY <1>1, <1>9, <2>4, <3>2 DEF GivesUp, Acts, AtWork
    <3> DEFINE v == MarkHandled(w)
    <3>4. /\ v.timers = w.timers /\ v.dom = w.dom /\ v.posts = w.posts /\ v.answers = w.answers
          /\ Ids(v.handled) \subseteq Ids(tab.handled) \cup {t.id} /\ v \in Tab
      <4> HIDE DEF w
      <4> QED
        BY <1>4, <1>6, <1>7, <2>4, GivenUpIds DEF Kept, Sane, Tab
    <3> HIDE DEF v
    <3>5. /\ tab'.current = NoSession /\ tab'.observer = NoSession /\ tab'.saved = NoSaved
          /\ tab'.timers \subseteq tab.timers /\ tab'.dom = tab.dom /\ tab'.posts = tab.posts
          /\ tab'.answers \subseteq tab.answers /\ Ids(tab'.handled) \subseteq Ids(tab.handled) \cup {t.id}
      <4>1. tab' = Cleanup(v)
        BY <3>1 DEF v
      <4> QED
        BY <1>7, <3>4, <4>1, LeavingFacts
    <3>6. ~Unborn(tab, t.id)
      BY <1>4, <1>5, <2>4
    <3> QED
      BY <1>2, <1>4, <2>4, <3>3, <3>5, <3>6, GivenUpStep
  <2> QED
    BY <2>2, <2>3, <2>4
<1> QED
  BY <1>8, <1>9

LEMMA ReadsAccount ==
  ASSUME PageInv, Accounted, FetchFails \/ ReadAgain
  PROVE  Accounted'
<1>1. Sane(tab) /\ Whole(tab) /\ UNCHANGED <<source, journal, events, started>>
  BY DEF PageInv, Accounted, FetchFails, ReadAgain, world, surroundings
<1>2. /\ Calm(tab, tab') /\ tab'.current = tab.current /\ tab'.posts = tab.posts
  <2>1. \A t \in tab.timers :
          /\ Calm(tab, Drop(tab, t)) /\ Drop(tab, t) \in Tab
          /\ Drop(tab, t).current = tab.current /\ Drop(tab, t).posts = tab.posts
    BY <1>1, CalmDrop DEF Sane, Drop, Tab
  <2>2. ASSUME NEW t \in tab.timers, NEW completed \in BOOLEAN, NEW orphan \in BOOLEAN,
               NEW n \in 0..Rereads, t.id = tab.current, orphan => t.orphan \/ t.kind = "orphan",
               tab' = Fetch(Drop(tab, t), t.id, completed, orphan, n)
        PROVE  Calm(tab, tab') /\ tab'.current = tab.current /\ tab'.posts = tab.posts
    <3> DEFINE u == Read("fetch", t.id, completed, orphan, n)
    <3>1. u \in Timer /\ u.id = t.id /\ u.kind = "fetch" /\ u.orphan = orphan
      BY <1>1, <2>2 DEF Read, Timer, TimerKind, Sane, Tab
    <3>2. tab' = Set(Drop(tab, t), u)
      BY <2>2 DEF Fetch
    <3> HIDE DEF u
    <3>3. Calm(tab, tab')
      BY <1>1, <2>2, <3>1, <3>2, CalmAgain
    <3> QED
      BY <2>1, <3>2, <3>3 DEF Set, Tab
  <2>3. CASE FetchFails
    BY <2>1, <2>3 DEF FetchFails
  <2>4. CASE ReadAgain
    <3> DEFINE to(t, completed, orphan, n) == tab' = Fetch(Drop(tab, t), t.id, completed, orphan, n)
    <3>1. PICK t \in tab.timers :
            \/ tab' = Drop(tab, t)
            \/ Drop(tab, t).current = t.id /\ to(t, TRUE, FALSE, 0)
            \/ t.kind = "reread" /\ Drop(tab, t).current = t.id /\ to(t, t.completed, t.orphan, t.tries + 1)
            \/ t.kind = "orphan" /\ Drop(tab, t).current = t.id /\ to(t, t.completed, TRUE, t.tries + 1)
      BY <2>4 DEF ReadAgain
    <3>2. /\ t.completed \in BOOLEAN /\ t.orphan \in BOOLEAN /\ 0 \in 0..Rereads
          /\ t.kind \in {"reread", "orphan"} => t.tries + 1 \in 0..Rereads
      BY <1>1, BoundsAssumption DEF Sane, Tab, Timer
    <3> HIDE DEF to
    <3>3. Drop(tab, t).current = tab.current
      BY <2>1
    <3>4. CASE tab' = Drop(tab, t)
      BY <2>1, <3>4
    <3>5. CASE Drop(tab, t).current = t.id /\ to(t, TRUE, FALSE, 0)
      BY <2>2, <3>2, <3>3, <3>5 DEF to
    <3>6. CASE t.kind = "reread" /\ Drop(tab, t).current = t.id /\ to(t, t.completed, t.orphan, t.tries + 1)
      BY <2>2, <3>2, <3>3, <3>6 DEF to
    <3>7. CASE t.kind = "orphan" /\ Drop(tab, t).current = t.id /\ to(t, t.completed, TRUE, t.tries + 1)
      BY <2>2, <3>2, <3>3, <3>7 DEF to
    <3> QED
      BY <3>1, <3>4, <3>5, <3>6, <3>7
  <2> QED
    BY <2>3, <2>4
<1> QED
  BY <1>1, <1>2, CalmStep

LEMMA HmrAccounts ==
  ASSUME PageInv, Accounted, Spared', NEW s \in Sessions, Hmr(s)
  PROVE  Accounted'
<1> DEFINE w == Render(tab, s, source[s])
<1>1. Kept(tab, w) /\ Calm(tab, w)
  BY RenderKeeps, CalmRender DEF PageInv, Accounted
<1>2. PICK x \in Runtime(w) : tab' = Woken(w, x)
  BY DEF Hmr
<1>3. UNCHANGED <<source, journal, events, started>> /\ MayMove
  BY DEF Hmr, surroundings
<1> HIDE DEF w
<1>4. Kept(w, tab') /\ Calm(w, tab')
  BY <1>1, <1>2, RuntimeInSessions, WokenKeeps, CalmWoken DEF Kept, Calm, PageInv
<1>5. Kept(tab, tab') /\ Calm(tab, tab')
  BY <1>1, <1>4, KeptTransitive, CalmTransitive
<1> QED
  BY <1>3, <1>5, NotMoved, CalmStep DEF Kept, Shift

\* An upload that ends leaves its session as unborn as it was.
LEMMA UploadedAccounts ==
  ASSUME PageInv, Accounted, Uploaded
  PROVE  Accounted'
<1>1. PICK p \in tab.posts :
        /\ p.type = "upload"
        /\ tab' = [tab EXCEPT !.posts = (@ \ {p}) \cup {[p EXCEPT !.type = "generate"]}]
  BY DEF Uploaded
<1> DEFINE g == [p EXCEPT !.type = "generate"]
<1>2. UNCHANGED <<source, journal, events, started>>
  BY DEF Uploaded, world, surroundings
<1>3. g.id = p.id /\ g.stray = p.stray
  BY DEF PageInv, Sane, Tab, Post
<1> HIDE DEF g
<1>4. /\ tab'.observer = tab.observer /\ tab'.current = tab.current /\ tab'.timers = tab.timers
      /\ tab'.dom = tab.dom /\ tab'.handled = tab.handled /\ tab'.answers = tab.answers
      /\ tab'.saved = tab.saved /\ tab'.posts = (tab.posts \ {p}) \cup {g} /\ tab'.state = tab.state
      /\ tab'.arrived = tab.arrived
  BY <1>1 DEF PageInv, Sane, Tab, g
<1>5. \A q \in tab'.posts : q.type \in {"generate", "upload"} => ~q.stray /\ Unborn(tab, q.id)
  BY <1>1, <1>3, <1>4 DEF Accounted
<1>6. \A s \in Sessions : Unborn(tab, s) => Unborn(tab, s)'
  BY <1>2, <1>4 DEF Unborn
<1>7. \A q \in tab'.posts : q.id \in Sessions
  BY <1>3, <1>4 DEF PageInv, Sane, Tab, Post
<1>8. \A q \in tab'.posts : q.type \in {"generate", "upload"} => ~q.stray /\ Unborn(tab, q.id)'
  BY <1>5, <1>6, <1>7
<1> QED
  BY <1>2, <1>4, <1>8 DEF Accounted, Whole, AtWork, Decided, Ended

LEMMA ReportAccounts ==
  ASSUME PageInv, Accounted, Report
  PROVE  Accounted'
<1> DEFINE w == [tab EXCEPT !.queued = FALSE]
           c == [type |-> "checkpoint", id |-> tab.current, stray |-> ~Gate]
<1>1. tab' = w \/ tab' = [w EXCEPT !.posts = @ \cup {c}]
  BY DEF Report
<1>2. c.type = "checkpoint"
  OBVIOUS
<1> HIDE DEF c
<1>3. /\ tab'.observer = tab.observer /\ tab'.current = tab.current /\ tab'.timers = tab.timers
      /\ tab'.dom = tab.dom /\ tab'.handled = tab.handled /\ tab'.answers = tab.answers
      /\ tab'.saved = tab.saved /\ tab'.state = tab.state /\ tab'.arrived = tab.arrived
      /\ \A p \in tab'.posts : p \in tab.posts \/ p.type = "checkpoint"
  <2>1. tab \in Tab
    BY DEF PageInv, Sane
  <2>2. CASE tab' = w
    BY <2>1, <2>2 DEF Tab
  <2>3. CASE tab' = [w EXCEPT !.posts = @ \cup {c}]
    BY <1>2, <2>1, <2>3 DEF Tab
  <2> QED
    BY <1>1, <2>2, <2>3
<1>4. Calm(tab, tab')
  BY <1>3 DEF Calm, Whole, Unborn, Accounted
<1> QED
  BY <1>3, <1>4, CalmStep DEF Report, surroundings

LEMMA PostLostAccounts ==
  ASSUME PageInv, Accounted, PostLost
  PROVE  Accounted'
<1>1. PICK p \in tab.posts : tab' = [tab EXCEPT !.posts = @ \ {p}]
  BY DEF PostLost
<1>2. /\ tab'.observer = tab.observer /\ tab'.current = tab.current /\ tab'.timers = tab.timers
      /\ tab'.dom = tab.dom /\ tab'.handled = tab.handled /\ tab'.answers = tab.answers
      /\ tab'.saved = tab.saved /\ tab'.posts = tab.posts \ {p} /\ tab'.state = tab.state
      /\ tab'.arrived = tab.arrived
  BY <1>1 DEF PageInv, Sane, Tab
<1>3. Calm(tab, tab')
  BY <1>2 DEF Calm, Whole, Unborn, Accounted
<1> QED
  BY <1>2, <1>3, CalmStep DEF PostLost, surroundings

\* A generate that is taken makes its session one at work, which no answer, no
\* event and no handled session is.
LEMMA HelperTakesAccounts ==
  ASSUME PageInv, Accounted, Spared', HelperTakes
  PROVE  Accounted'
<1> DEFINE refused(p) == [type |-> "checkpoint", id |-> p.id, ok |-> FALSE]
           less(p)    == [tab EXCEPT !.posts = @ \ {p}]
<1>1. PICK p \in tab.posts :
        /\ p.type \in {"generate", "checkpoint"}
        /\ IF p.type = "generate"
           THEN journal' = [journal EXCEPT ![p.id] = "generating"] /\ tab' = less(p)
           ELSE /\ UNCHANGED journal
                /\ tab' = IF journal[p.id] # "none" THEN less(p)
                          ELSE [less(p) EXCEPT !.answers = @ \cup {refused(p)}]
  BY DEF HelperTakes
<1>2. UNCHANGED <<source, events, started>> /\ journal \in [Sessions -> Phase]
  BY DEF HelperTakes, surroundings, PageInv, Known
<1>3. /\ p \in Post /\ p.id \in Sessions
      /\ Sane(tab) /\ Whole(tab)
  BY DEF PageInv, Sane, Tab, Post, Accounted
<1> DEFINE w == less(p)
<1>4. /\ w.observer = tab.observer /\ w.current = tab.current /\ w.timers = tab.timers
      /\ w.dom = tab.dom /\ w.handled = tab.handled /\ w.answers = tab.answers
      /\ w.saved = tab.saved /\ w.posts = tab.posts \ {p} /\ w.state = tab.state
      /\ w.arrived = tab.arrived
  BY <1>3 DEF Sane, Tab
<1>5. Calm(tab, w)
  BY <1>3, <1>4 DEF Calm, Whole, Unborn
<1>6. CASE tab' = w /\ UNCHANGED journal
  <2> HIDE DEF w
  <2> QED
    BY <1>2, <1>4, <1>5, <1>6, CalmStep
<1>7. CASE p.type = "generate"
  <2>1. tab' = w /\ journal' = [journal EXCEPT ![p.id] = "generating"]
    BY <1>1, <1>7
  <2> HIDE DEF w
  <2>2. Unborn(tab, p.id) /\ ~p.stray
    BY <1>7 DEF Accounted
  <2>3. \A s \in Sessions \ {p.id} : journal'[s] = journal[s]
    BY <1>2, <2>1
  <2>4. Whole(tab)'
    BY <1>2, <1>3, <1>4, <2>1 DEF Whole
  <2>5. \A q \in tab'.posts : q.type \in {"generate", "upload"} => ~q.stray /\ Unborn(tab, q.id)'
    <3> SUFFICES ASSUME NEW q \in tab.posts, q # p, q.type \in {"generate", "upload"}
                 PROVE  ~q.stray /\ Unborn(tab, q.id)'
      BY <1>4, <2>1
    <3>1. ~q.stray /\ Unborn(tab, q.id) /\ q \in Post
      BY <1>3 DEF Accounted, Sane, Tab
    <3>2. q.id # p.id /\ q.id \in Sessions
      BY <1>3, <1>7, <2>2, <3>1 DEF Post, PageInv, Ordered, Single
    <3> QED
      BY <1>2, <1>4, <2>1, <2>3, <3>1, <3>2 DEF Unborn
  <2>6. \A s \in Ids(tab'.handled) : ~AtWork(s)'
    <3> SUFFICES ASSUME NEW s \in Ids(tab.handled)
                 PROVE  ~AtWork(s)'
      BY <1>4, <2>1
    <3>1. s \in Sessions \ {p.id} /\ ~AtWork(s)
      BY <1>3, <2>2 DEF Sane, Tab, Accounted, Unborn, Ids
    <3> QED
      BY <2>3, <3>1 DEF AtWork
  <2>7. \A a \in tab'.answers :
          /\ Decided(a)'
          /\ a.type # "checkpoint" => tab'.current \in {a.id, NoSession}
    <3> SUFFICES ASSUME NEW a \in tab.answers
                 PROVE  Decided(a)' /\ (a.type # "checkpoint" => tab'.current \in {a.id, NoSession})
      BY <1>4, <2>1
    <3>1. a.id \in Sessions \ {p.id} /\ Decided(a)
      BY <1>3, <2>2 DEF Sane, Tab, Answer, Accounted, Unborn
    <3> QED
      BY <1>4, <2>1, <2>3, <3>1 DEF Decided, Accounted
  <2>8. \A i \in 1..Len(events') : Ended(events[i])'
    <3> SUFFICES ASSUME NEW i \in 1..Len(events)
                 PROVE  Ended(events[i])'
      BY <1>2
    <3>1. Ended(events[i]) /\ events[i] \in Event
      BY DEF PageInv, Rest, Accounted
    <3>2. events[i].id \in Sessions
      BY <3>1 DEF Event
    <3> QED
      BY <1>2, <2>2, <2>3, <3>1, <3>2 DEF Ended, Unborn
  <2> QED
    BY <2>4, <2>5, <2>6, <2>7, <2>8 DEF Accounted
<1>8. CASE p.type # "generate" /\ journal[p.id] = "none"
  <2> DEFINE a == refused(p)
             v == [w EXCEPT !.answers = @ \cup {a}]
  <2>1. tab' = v /\ UNCHANGED journal
    BY <1>1, <1>8
  <2>2. a.id = p.id /\ a.type = "checkpoint"
    OBVIOUS
  <2> HIDE DEF a
  <2>3. /\ v.observer = tab.observer /\ v.current = tab.current /\ v.timers = tab.timers
        /\ v.handled = tab.handled /\ v.answers = tab.answers \cup {a} /\ v.posts = tab.posts \ {p}
        /\ v.dom = tab.dom /\ v.saved = tab.saved /\ v.state = tab.state /\ v.arrived = tab.arrived
    BY <1>3 DEF Sane, Tab
  <2> HIDE DEF v
  <2>4. Whole(tab)'
    BY <1>2, <1>3, <2>1, <2>3 DEF Whole
  <2>5. \A q \in tab'.posts : q.type \in {"generate", "upload"} => ~q.stray /\ Unborn(tab, q.id)'
    <3> SUFFICES ASSUME NEW q \in tab'.posts, q.type \in {"generate", "upload"}
                 PROVE  ~q.stray /\ Unborn(tab, q.id)'
      OBVIOUS
    <3>1. ~q.stray /\ Unborn(tab, q.id)
      BY <2>1, <2>3 DEF Accounted
    <3>2. a.id # q.id
      <4>1. CreationBeforeProgress' /\ a \in tab'.answers /\ "early" \notin faults'
        BY <2>1, <2>3, HelperTakesKeeps DEF PageInv, Ordered, Spared
      <4> QED
        BY <2>2, <3>1, <4>1 DEF CreationBeforeProgress
    <3> QED
      BY <1>2, <2>1, <2>3, <3>1, <3>2 DEF Unborn
  <2>6. \A s \in Ids(tab'.handled) : ~AtWork(s)'
    BY <2>1, <2>3 DEF Accounted, AtWork
  <2>7. Decided(a)'
    BY <1>8, <2>1, <2>2 DEF Decided
  <2>8. ASSUME NEW b \in tab.answers
        PROVE  Decided(b)' /\ (b.type # "checkpoint" => tab'.current \in {b.id, NoSession})
    BY <2>1, <2>3 DEF Decided, Accounted
  <2>9. \A b \in tab'.answers :
          /\ Decided(b)'
          /\ b.type # "checkpoint" => tab'.current \in {b.id, NoSession}
    <3> SUFFICES ASSUME NEW b \in tab'.answers
                 PROVE  Decided(b)' /\ (b.type # "checkpoint" => tab'.current \in {b.id, NoSession})
      OBVIOUS
    <3>1. CASE b \in tab.answers
      BY <2>8, <3>1
    <3>2. CASE b = a
      BY <2>2, <2>7, <3>2
    <3> QED
      BY <2>1, <2>3, <3>1, <3>2
  <2>10. \A i \in 1..Len(events') : Ended(events[i])'
    BY <1>2, <2>1 DEF Ended, Accounted
  <2> QED
    BY <2>4, <2>5, <2>6, <2>9, <2>10 DEF Accounted
<1> QED
  BY <1>1, <1>6, <1>7, <1>8, Zenon

\* What the agent tells of a session is how it has left it.
LEMMA TellAccounts ==
  ASSUME PageInv, Accounted, NEW type \in {"done", "complete", "discarded"}, NEW s \in Sessions,
         Tell(type, s), type # "done" => journal'[s] = "closed",
         \A r \in Sessions : journal[r] = "closed" => journal'[r] = "closed"
  PROVE  \A i \in 1..Len(events') : Ended(events[i])'
<1> DEFINE e == [type |-> type, id |-> s]
<1>1. events \in Seq(Event) /\ Len(events) \in Nat
  BY DEF PageInv, Rest
<1>2. events' = events \/ events' = Append(events, e)
  BY DEF Tell
<1>3. e.type = type /\ e.id = s
  OBVIOUS
<1> HIDE DEF e
<1>4. ASSUME NEW i \in 1..Len(events), events'[i] = events[i]
      PROVE  Ended(events[i])'
  <2>1. Ended(events[i]) /\ events[i] \in Event
    BY <1>1 DEF Accounted
  <2>2. events[i].id \in Sessions
    BY <2>1 DEF Event
  <2> QED
    BY <1>4, <2>1, <2>2 DEF Ended
<1> SUFFICES ASSUME NEW i \in 1..Len(events')
             PROVE  Ended(events[i])'
  OBVIOUS
<1>5. CASE events' = events
  BY <1>4, <1>5
<1>6. CASE events' = Append(events, e)
  <2>1. Len(events') = Len(events) + 1
    BY <1>1, <1>6
  <2>2. CASE i = Len(events) + 1
    <3>1. events'[i] = e
      BY <1>1, <1>6, <2>2
    <3> QED
      BY <1>3, <3>1 DEF Ended
  <2>3. CASE i # Len(events) + 1
    <3>1. i \in 1..Len(events)
      BY <1>1, <2>1, <2>3
    <3>2. events'[i] = events[i]
      BY <1>1, <1>6, <3>1
    <3> QED
      BY <1>4, <3>1, <3>2
  <2> QED
    BY <2>2, <2>3
<1> QED
  BY <1>2, <1>5, <1>6

LEMMA AgentAccounts ==
  ASSUME PageInv, Accounted, NEW s \in Sessions, Agent(s)
  PROVE  Accounted'
<1>1. journal \in [Sessions -> Phase] /\ source \in [Sessions -> Markup] /\ Sane(tab)
  BY DEF PageInv, Known
<1>2. /\ tab'.observer = tab.observer /\ tab'.current = tab.current /\ tab'.timers = tab.timers
      /\ tab'.dom = tab.dom /\ tab'.handled = tab.handled /\ tab'.answers = tab.answers
      /\ tab'.saved = tab.saved /\ tab'.posts = tab.posts /\ tab'.state = tab.state
      /\ tab'.arrived = tab.arrived
  <2>1. CASE UNCHANGED tab
    BY <2>1
  <2>2. CASE tab' = [tab EXCEPT !.file = @ \/ (stream = "open" /\ tab.current = s)]
    BY <1>1, <2>2 DEF Sane, Tab
  <2> QED
    BY <2>1, <2>2 DEF Agent, AgentWrites, AgentDone, AgentPromotes, AgentDiscards
<1>3. \A r \in Sessions \ {s} : journal'[r] = journal[r] /\ source'[r] = source[r]
  BY <1>1 DEF Agent, AgentWrites, AgentDone, AgentPromotes, AgentDiscards
<1>4. \/ journal[s] = "generating" /\ journal'[s] \in {"generating", "ready"}
      \/ journal[s] = "accepting" /\ journal'[s] \in {"accepting", "closed"}
      \/ journal[s] = "discarding" /\ journal'[s] = "closed"
  BY <1>1 DEF Agent, AgentWrites, AgentDone, AgentPromotes, AgentDiscards
<1>5. \A i \in 1..Len(events') : Ended(events[i])'
  <2>1. \A r \in Sessions : journal[r] = "closed" => journal'[r] = "closed"
    BY <1>3, <1>4
  <2>2. CASE UNCHANGED events
    <3> SUFFICES ASSUME NEW i \in 1..Len(events)
                 PROVE  Ended(events[i])'
      BY <2>2
    <3>1. Ended(events[i]) /\ events[i] \in Event
      BY DEF PageInv, Rest, Accounted
    <3>2. events[i].id \in Sessions
      BY <3>1 DEF Event
    <3> QED
      BY <2>1, <2>2, <3>1, <3>2 DEF Ended
  <2>3. CASE AgentDone(s)
    BY <2>1, <2>3, TellAccounts DEF AgentDone
  <2>4. CASE AgentPromotes(s) /\ journal' = [journal EXCEPT ![s] = "closed"] /\ Tell("complete", s)
    BY <1>1, <2>1, <2>4, TellAccounts
  <2>5. CASE AgentDiscards(s)
    BY <1>1, <2>1, <2>5, TellAccounts DEF AgentDiscards
  <2> QED
    BY <2>2, <2>3, <2>4, <2>5 DEF Agent, AgentWrites, AgentPromotes
<1>6. started' = started
  BY DEF Agent, AgentWrites, AgentDone, AgentPromotes, AgentDiscards
<1>7. Whole(tab)'
  BY <1>2, <1>6 DEF Whole, Accounted
<1>8. \A p \in tab'.posts : p.type \in {"generate", "upload"} => ~p.stray /\ Unborn(tab, p.id)'
  <2> SUFFICES ASSUME NEW p \in tab.posts, p.type \in {"generate", "upload"}
               PROVE  ~p.stray /\ Unborn(tab, p.id)'
    BY <1>2
  <2>1. ~p.stray /\ Unborn(tab, p.id) /\ p.id \in Sessions
    BY <1>1 DEF Accounted, Sane, Tab, Post
  <2>2. p.id # s
    BY <1>4, <2>1 DEF Unborn
  <2> QED
    BY <1>2, <1>3, <2>1, <2>2 DEF Unborn
<1>9. \A r \in Ids(tab'.handled) : ~AtWork(r)'
  <2> SUFFICES ASSUME NEW r \in Ids(tab.handled)
               PROVE  ~AtWork(r)'
    BY <1>2
  <2>1. r \in Sessions /\ ~AtWork(r)
    BY <1>1 DEF Accounted, Sane, Tab, Ids
  <2> QED
    BY <1>3, <1>4, <2>1 DEF AtWork
<1>10. \A a \in tab'.answers :
         /\ Decided(a)'
         /\ a.type # "checkpoint" => tab'.current \in {a.id, NoSession}
  <2> SUFFICES ASSUME NEW a \in tab.answers
               PROVE  Decided(a)' /\ (a.type # "checkpoint" => tab'.current \in {a.id, NoSession})
    BY <1>2
  <2>1. a.id \in Sessions /\ Decided(a)
    BY <1>1 DEF Accounted, Sane, Tab, Answer
  <2>2. Decided(a)'
    BY <1>3, <1>4, <2>1 DEF Decided
  <2> QED
    BY <1>2, <2>2 DEF Accounted
<1> QED
  BY <1>5, <1>7, <1>8, <1>9, <1>10 DEF Accounted

LEMMA NextAccounts == WorkInv /\ [Next]_vars => WorkInv'
<1> SUFFICES ASSUME WorkInv, [Next]_vars, Spared'
             PROVE  Accounted'
  BY NextKeepsPage DEF WorkInv
<1>1. PageInv /\ Accounted
  BY FaultsGrow DEF WorkInv, Spared
<1>2. CASE User
  BY <1>1, <1>2, ConfigureAccounts, GoAccounts, AcceptAccounts, DiscardAccounts DEF User
<1>3. CASE Page
  BY <1>1, <1>3, AnsweredAccounts, HearAccounts, ConnectAccounts, FetchedAccounts, ReadsAccount,
     UploadedAccounts, ReportAccounts DEF Page
<1>4. CASE Environment
  BY <1>1, <1>4, ReloadAccounts, StreamAccounts, ReadsAccount, PostLostAccounts DEF Environment
<1>5. CASE HelperTakes
  BY <1>1, <1>5, HelperTakesAccounts
<1>6. CASE \E s \in Sessions : Hmr(s) \/ Agent(s) \/ AgentFails(s)
  <2>1. ASSUME NEW s \in Sessions, AgentFails(s)
        PROVE  FALSE
    BY <2>1 DEF AgentFails, Strikes, Spared
  <2> QED
    BY <1>1, <1>6, <2>1, HmrAccounts, AgentAccounts
<1>7. CASE UNCHANGED vars
  BY <1>1, <1>7 DEF vars, Accounted, Whole, Unborn, AtWork, Decided, Ended
<1> QED
  BY <1>2, <1>3, <1>4, <1>5, <1>6, <1>7 DEF Next

LEMMA WorkAlways == Spec => []WorkInv
<1>1. Init => WorkInv
  BY InitPage, InitAccounts DEF WorkInv
<1> QED
  BY <1>1, NextAccounts, PTL DEF Spec

\* A page gives up for good (markSessionHandled) no session the helper works on:
\* whatever is reloaded, reconnected, lost or read in vain, an answer, an event or
\* a read ends only a session that has ended.  A late generate, answer or read, one
\* that finds the page another session's, progress reported before the session's
\* generate, and an agent that fails an accept are what WorkNotGivenUp leaves out.
THEOREM WorkStays == Spec => []WorkNotGivenUp
<1>1. WorkInv => WorkNotGivenUp
  BY DEF WorkInv, Accounted, Spared, WorkNotGivenUp
<1> QED
  BY <1>1, WorkAlways, PTL

-----------------------------------------------------------------------------
(* A session that is ready is shown.                                         *)
(*                                                                           *)
(* The trouble left is that of reloads.  Until the first the page has heard  *)
(* everything (Fresh below); from then on each wait of the page has          *)
(* something that will end it.  What a page saved before a second reload may *)
(* count variants it then does not read again (Once below).                  *)

Steady == faults \subseteq {"reload", "again", "moved"}
Once   == "again" \notin faults
Grows  == faults \subseteq faults'

\* A session nobody has accepted, discarded or failed.
Open(s) == journal[s] \in {"none", "generating", "ready"}

Restorable(rec) == rec.id # NoSession /\ rec.state \in {"GENERATING", "CYCLING"}
Reads(w, s) == \E t \in w.timers : t.kind = "fetch" /\ t.id = s

\* What the source has of a session, and what the page can have of it.
Written ==
  \A s \in Sessions :
    /\ journal[s] = "none" => source[s] = Clean
    /\ journal[s] = "generating" => source[s] \in Wrapped \cup {Clean}
    /\ journal[s] = "ready" => source[s] = Count

Drawn(w) ==
  \A s \in Sessions : Open(s) /\ w.dom[s] # Clean =>
    w.dom[s] \in Wrapped /\ source[s] \in Wrapped /\ w.dom[s] <= source[s]

\* The page's session is the one it observes, and the one a restore would take up.
Held(w) ==
  /\ w.observer = w.current
  /\ w.current # NoSession => w.state \in {"GENERATING", "CYCLING", "SAVING"}
  /\ Restorable(w.saved) => w.saved.id = w.current \/ w.saved.id \in Ids(w.handled)

\* A scout that was put off means that no comparison was shown since the load.
Sighted(w) ==
  w.deferred /\ Restorable(w.saved) /\ w.saved.arrived > 0 =>
    w.saved.file \/ Wrappers(w) # {}
Owned(w) == Held(w) /\ (Once => Sighted(w))

\* Of a session that has nothing in the source nothing has arrived.
Begun(w) ==
  w.current # NoSession /\ Open(w.current) /\ source[w.current] = Clean =>
    /\ w.arrived = 0
    /\ w.saved.id = w.current => w.saved.arrived = 0
    /\ \A t \in w.timers : t.kind = "fetch" => t.id = w.current

\* A page that waits with all variants there reads the source.
Reading(w) ==
  w.current # NoSession /\ Open(w.current) /\ w.state = "GENERATING" /\ w.arrived = Count =>
    Reads(w, w.current)
Ripe(w) == Once => Reading(w)

Poised(w) == Owned(w) /\ Begun(w) /\ Ripe(w)

\* The page has variants it has not counted: it was restored beside a wrapper of
\* another session, and waits for what makes it read or look.
Behind(w) ==
  /\ w.current # NoSession /\ Open(w.current)
  /\ w.dom[w.current] \in Wrapped /\ w.arrived < w.dom[w.current]

Told(s) == \E i \in 1..Len(events) : events[i].type = "done" /\ events[i].id = s
Comes(s) == stream = "closed" \/ journal[s] = "generating" \/ Told(s)

Due(w) == \E t \in w.timers : t.id = w.current /\ t.kind \in {"fetch", "completed"}

Catches(w) ==
  /\ w.state = "GENERATING"
  /\ \A a \in w.answers : a.type = "checkpoint"
  /\ Comes(w.current) \/ Due(w)

Shown(w) == Poised(w) /\ (Behind(w) => Catches(w))

LEMMA CountFacts == Count \in Nat /\ Count > 0 /\ 0..Count \subseteq Nat /\ Wrapped = 0..Count
BY BoundsAssumption DEF Wrapped

\* A page without a session waits for nothing.
LEMMA ShownLeft ==
  ASSUME NEW v, v.current = NoSession, v.observer = NoSession, v.saved.id = NoSession
  PROVE  Shown(v)
BY DEF Shown, Poised, Owned, Held, Sighted, Begun, Ripe, Reading, Behind, Restorable

LEMMA CleanupShown ==
  ASSUME NEW w, w \in Tab
  PROVE  Shown(Cleanup(w)) /\ Cleanup(w).dom = w.dom
<1> DEFINE v == Cleanup(w)
<1>1. v.current = NoSession /\ v.observer = NoSession /\ v.saved = NoSaved /\ v.dom = w.dom
  BY DEF Cleanup, Tab
<1> HIDE DEF v
<1>2. Shown(v)
  BY <1>1, NoSavedFacts, ShownLeft
<1> QED
  BY <1>1, <1>2 DEF v

LEMMA ReleaseShown ==
  ASSUME NEW w, w \in Tab
  PROVE  Shown(Release(w)) /\ Release(w).dom = w.dom
<1> DEFINE v == Release(w)
<1>1. v.current = NoSession /\ v.observer = NoSession /\ v.saved = NoSaved /\ v.dom = w.dom
  BY DEF Release, Tab
<1> HIDE DEF v
<1>2. Shown(v)
  BY <1>1, NoSavedFacts, ShownLeft
<1> QED
  BY <1>1, <1>2 DEF v

\* What is the same of two pages when nothing of this changes.
Alike(w, v) ==
  /\ v.observer = w.observer /\ v.current = w.current /\ v.state = w.state /\ v.arrived = w.arrived
  /\ v.saved = w.saved /\ v.handled = w.handled /\ v.deferred = w.deferred
  /\ v.timers = w.timers /\ v.dom = w.dom

LEMMA PoisedAlike ==
  ASSUME NEW w, NEW v, Alike(w, v), Poised(w)
  PROVE  Poised(v)
BY DEF Alike, Poised, Owned, Held, Sighted, Begun, Ripe, Reading, Reads, Wrappers

LEMMA ShownAlike ==
  ASSUME NEW w, NEW v, Alike(w, v), Shown(w), \A a \in v.answers : a \in w.answers \/ a.type = "checkpoint"
  PROVE  Shown(v)
<1>1. Poised(v)
  BY PoisedAlike DEF Shown
<1> QED
  BY <1>1 DEF Alike, Shown, Behind, Catches, Due

\* A session is taken up and saved.
LEMMA CommitFacts ==
  ASSUME NEW v, v \in Tab, v.current # NoSession
  PROVE  LET u == SaveSession(v) IN
         /\ u \in Tab /\ u.posts = v.posts
         /\ u.saved.id = v.current /\ u.saved.state = v.state
         /\ u.saved.arrived = v.arrived /\ u.saved.file = v.file
         /\ u.answers = v.answers /\ u.file = v.file
         /\ u.observer = v.observer /\ u.current = v.current /\ u.state = v.state /\ u.arrived = v.arrived
         /\ u.handled = v.handled /\ u.deferred = v.deferred /\ u.timers = v.timers /\ u.dom = v.dom
<1> DEFINE rec == [id |-> v.current, state |-> v.state, arrived |-> v.arrived, file |-> v.file]
           w == SaveSession(v)
<1>1. w = [v EXCEPT !.saved = rec]
  BY DEF SaveSession
<1>2. /\ rec.id = v.current /\ rec.state = v.state /\ rec.arrived = v.arrived /\ rec.file = v.file
      /\ rec \in Saved
  BY DEF Tab, Saved
<1> HIDE DEF rec, w
<1>3. /\ w \in Tab /\ w.saved = rec /\ w.answers = v.answers /\ w.file = v.file
      /\ w.observer = v.observer /\ w.current = v.current /\ w.state = v.state /\ w.arrived = v.arrived
      /\ w.handled = v.handled /\ w.deferred = v.deferred /\ w.timers = v.timers /\ w.dom = v.dom
      /\ w.posts = v.posts
  BY <1>1, <1>2 DEF Tab
<1> QED
  BY <1>2, <1>3 DEF w

\* Progress is queued; nothing else changes.
LEMMA QueueFacts ==
  ASSUME NEW v, v \in Tab
  PROVE  LET u == QueueCheckpoint(v) IN
         /\ u \in Tab /\ u.posts = v.posts /\ u.saved = v.saved
         /\ u.answers = v.answers /\ u.file = v.file
         /\ u.observer = v.observer /\ u.current = v.current /\ u.state = v.state /\ u.arrived = v.arrived
         /\ u.handled = v.handled /\ u.deferred = v.deferred /\ u.timers = v.timers /\ u.dom = v.dom
<1> DEFINE w == [v EXCEPT !.queued = TRUE]
<1>1. /\ w \in Tab /\ w.posts = v.posts /\ w.saved = v.saved
      /\ w.answers = v.answers /\ w.file = v.file
      /\ w.observer = v.observer /\ w.current = v.current /\ w.state = v.state /\ w.arrived = v.arrived
      /\ w.handled = v.handled /\ w.deferred = v.deferred /\ w.timers = v.timers /\ w.dom = v.dom
  BY DEF Tab
<1>2. QueueCheckpoint(v) \in {v, w}
  BY DEF QueueCheckpoint
<1> HIDE DEF w
<1> QED
  BY <1>1, <1>2

LEMMA RestoreFacts ==
  ASSUME NEW w, NEW rec \in Saved, NEW listed \in BOOLEAN, w \in Tab, rec.id # NoSession
  PROVE  LET v == Restore(w, rec, listed)
             file == rec.file \/ (listed /\ rec.id \in Listed /\ source[rec.id] # Clean) IN
         /\ v.current = rec.id /\ v.observer = rec.id /\ v.state = "GENERATING" /\ v.arrived = rec.arrived
         /\ v.saved.id = rec.id /\ v.saved.state = "GENERATING" /\ v.saved.arrived = rec.arrived
         /\ v.saved.file = file /\ v.file = file
         /\ v.dom = w.dom /\ v.answers = w.answers /\ v.handled = w.handled /\ v.deferred = w.deferred
         /\ w.timers \subseteq v.timers
         /\ \A t \in v.timers : t \in w.timers \/ t.id = rec.id
         /\ file => Reads(v, rec.id)
<1> DEFINE file == rec.file \/ (listed /\ rec.id \in Listed /\ source[rec.id] # Clean)
           v  == [w EXCEPT !.current = rec.id, !.arrived = rec.arrived,
                    !.file = file, !.state = "GENERATING", !.observer = rec.id]
           c  == SaveSession(v)
           u  == QueueCheckpoint(c)
           t  == Read("fetch", rec.id, FALSE, rec.state = "CYCLING", 0)
<1>1. /\ rec.id \in Sessions /\ rec.arrived \in 0..Count
      /\ file \in BOOLEAN /\ (rec.state = "CYCLING") \in BOOLEAN
  BY DEF Saved
<1>2. Restore(w, rec, listed) = IF file THEN Set(u, t) ELSE u
  BY DEF Restore, Fetch
<1> HIDE DEF file
<1>3. v \in Tab
  BY <1>1 DEF Tab, State
<1>4. /\ v.observer = rec.id /\ v.timers = w.timers /\ v.dom = w.dom /\ v.file = file
      /\ v.handled = w.handled /\ v.answers = w.answers /\ v.current = rec.id
      /\ v.state = "GENERATING" /\ v.arrived = rec.arrived /\ v.deferred = w.deferred
  BY <1>1 DEF Tab
<1> HIDE DEF v
<1>5. /\ u \in Tab
      /\ u.saved.id = v.current /\ u.saved.state = v.state
      /\ u.saved.arrived = v.arrived /\ u.saved.file = v.file
      /\ u.answers = v.answers /\ u.file = v.file
      /\ u.observer = v.observer /\ u.current = v.current /\ u.state = v.state /\ u.arrived = v.arrived
      /\ u.handled = v.handled /\ u.deferred = v.deferred /\ u.timers = v.timers /\ u.dom = v.dom
  <2>1. /\ c \in Tab
        /\ c.saved.id = v.current /\ c.saved.state = v.state
        /\ c.saved.arrived = v.arrived /\ c.saved.file = v.file
        /\ c.answers = v.answers /\ c.file = v.file
        /\ c.observer = v.observer /\ c.current = v.current /\ c.state = v.state /\ c.arrived = v.arrived
        /\ c.handled = v.handled /\ c.deferred = v.deferred /\ c.timers = v.timers /\ c.dom = v.dom
    BY <1>3, <1>4, CommitFacts
  <2> HIDE DEF c
  <2> QED
    BY <2>1, QueueFacts
<1> HIDE DEF u, c
<1>6. t.kind = "fetch" /\ t.id = rec.id
  BY DEF Read
<1> HIDE DEF t
<1>7. /\ Set(u, t).timers = u.timers \cup {t} /\ Set(u, t).saved = u.saved
      /\ Set(u, t).answers = u.answers /\ Set(u, t).file = u.file
      /\ Set(u, t).observer = u.observer /\ Set(u, t).current = u.current /\ Set(u, t).state = u.state
      /\ Set(u, t).arrived = u.arrived /\ Set(u, t).handled = u.handled
      /\ Set(u, t).deferred = u.deferred /\ Set(u, t).dom = u.dom
  BY <1>5 DEF Set, Tab
<1>8. CASE file
  <2>1. Restore(w, rec, listed) = Set(u, t)
    BY <1>2, <1>8
  <2>2. Reads(Set(u, t), rec.id)
    BY <1>6, <1>7 DEF Reads
  <2> QED
    BY <1>4, <1>5, <1>6, <1>7, <1>8, <2>1, <2>2 DEF file
<1>9. CASE ~file
  <2>1. Restore(w, rec, listed) = u
    BY <1>2, <1>9
  <2> QED
    BY <1>4, <1>5, <1>9, <2>1 DEF file
<1> QED
  BY <1>8, <1>9

LEMMA TakeUpFacts ==
  ASSUME NEW w, NEW x \in Sessions, w \in Tab, w.dom[x] \in Wrapped
  PROVE  LET v == TakeUp(w, x) IN
         /\ v.current = x /\ v.observer = x /\ v.arrived = w.dom[x]
         /\ v.state = IF w.dom[x] > 0 THEN "CYCLING" ELSE "GENERATING"
         /\ v.saved.id = x /\ v.saved.arrived = w.dom[x] /\ v.saved.file = v.file
         /\ v.file = (IF w.saved.id = x THEN w.file \/ w.saved.file ELSE w.file)
         /\ v.dom = w.dom /\ v.answers = w.answers /\ v.handled = w.handled /\ v.deferred = w.deferred
         /\ v.timers = w.timers /\ v.posts = w.posts
<1> DEFINE file == IF w.saved.id = x THEN w.file \/ w.saved.file ELSE w.file
           state == IF w.dom[x] > 0 THEN "CYCLING" ELSE "GENERATING"
           v == [w EXCEPT !.current = x, !.arrived = w.dom[x], !.observer = x,
                   !.file = IF w.saved.id = x THEN @ \/ w.saved.file ELSE @,
                   !.state = IF w.dom[x] > 0 THEN "CYCLING" ELSE "GENERATING"]
<1>1. w.dom[x] \in 0..Count /\ x # NoSession
  BY MarkupFacts, NoSessionOutside
<1>2. file \in BOOLEAN /\ state \in State
  BY DEF Tab, Saved, State
<1>3. v = [w EXCEPT !.current = x, !.arrived = w.dom[x], !.observer = x, !.file = file, !.state = state]
  BY DEF Tab
<1> HIDE DEF v, file, state
<1>4. v \in Tab
  BY <1>1, <1>2, <1>3 DEF Tab
<1>5. /\ v.observer = x /\ v.timers = w.timers /\ v.dom = w.dom
      /\ v.handled = w.handled /\ v.answers = w.answers /\ v.current = x /\ v.deferred = w.deferred
      /\ v.arrived = w.dom[x] /\ v.file = file /\ v.state = state /\ v.posts = w.posts
  BY <1>1, <1>2, <1>3 DEF Tab
<1> DEFINE u == SaveSession(v)
<1>6. TakeUp(w, x) = u
  BY DEF TakeUp, v
<1>7. /\ u.saved.id = x /\ u.saved.arrived = w.dom[x] /\ u.saved.file = file
      /\ u.answers = w.answers /\ u.file = file
      /\ u.observer = x /\ u.current = x /\ u.state = state /\ u.arrived = w.dom[x]
      /\ u.handled = w.handled /\ u.deferred = w.deferred /\ u.timers = w.timers /\ u.dom = w.dom
      /\ u.posts = w.posts
  BY <1>1, <1>4, <1>5, CommitFacts
<1> HIDE DEF u
<1> QED
  BY <1>6, <1>7 DEF file, state

\* A session that is restored is read if the page knows where it is.
LEMMA RestorePoised ==
  ASSUME NEW w, NEW rec \in Saved, NEW listed \in BOOLEAN, w \in Tab, rec.id # NoSession,
         Open(rec.id) /\ source[rec.id] = Clean =>
           rec.arrived = 0 /\ \A t \in w.timers : t.kind = "fetch" => t.id = rec.id
  PROVE  LET v == Restore(w, rec, listed)
             file == rec.file \/ (listed /\ rec.id \in Listed /\ source[rec.id] # Clean) IN
         /\ Held(v) /\ Begun(v)
         /\ (Open(rec.id) /\ rec.arrived = Count => file) => Reading(v)
         /\ (w.deferred /\ rec.arrived > 0 => file) => Sighted(v)
<1> DEFINE v == Restore(w, rec, listed)
           file == rec.file \/ (listed /\ rec.id \in Listed /\ source[rec.id] # Clean)
<1>1. /\ v.current = rec.id /\ v.observer = rec.id /\ v.state = "GENERATING" /\ v.arrived = rec.arrived
      /\ v.saved.id = rec.id /\ v.saved.state = "GENERATING" /\ v.saved.arrived = rec.arrived
      /\ v.saved.file = file
      /\ v.dom = w.dom /\ v.handled = w.handled /\ v.deferred = w.deferred
      /\ \A t \in v.timers : t \in w.timers \/ t.id = rec.id
      /\ file => Reads(v, rec.id)
  BY RestoreFacts
<1> HIDE DEF v, file
<1>2. Held(v)
  BY <1>1 DEF Held
<1>3. Begun(v)
  BY <1>1 DEF Begun
<1>4. (Open(rec.id) /\ rec.arrived = Count => file) => Reading(v)
  BY <1>1 DEF Reading
<1>5. (w.deferred /\ rec.arrived > 0 => file) => Sighted(v)
  BY <1>1 DEF Sighted
<1> QED
  BY <1>2, <1>3, <1>4, <1>5 DEF v, file

\* Without a wrapper there is nothing it has not counted.
LEMMA RestoreShown ==
  ASSUME NEW w, NEW rec \in Saved, NEW listed \in BOOLEAN, w \in Tab, rec.id # NoSession,
         Poised(Restore(w, rec, listed)), w.dom[rec.id] \notin Wrapped
  PROVE  Shown(Restore(w, rec, listed))
<1> DEFINE v == Restore(w, rec, listed)
<1>1. v.current = rec.id /\ v.dom = w.dom
  BY RestoreFacts
<1> HIDE DEF v
<1>2. ~Behind(v)
  BY <1>1 DEF Behind
<1> QED
  BY <1>2 DEF Shown, v

\* One that is taken up from its wrapper has counted what is there.
LEMMA TakeUpShown ==
  ASSUME NEW w, NEW x \in Sessions, w \in Tab, Drawn(w), w.dom[x] \in Wrapped
  PROVE  Shown(TakeUp(w, x)) /\ Reading(TakeUp(w, x))
<1> DEFINE v == TakeUp(w, x)
<1>1. /\ v.current = x /\ v.observer = x /\ v.arrived = w.dom[x]
      /\ v.state = IF w.dom[x] > 0 THEN "CYCLING" ELSE "GENERATING"
      /\ v.saved.id = x /\ v.dom = w.dom
  BY TakeUpFacts
<1> HIDE DEF v
<1>2. x \in Wrappers(v)
  BY <1>1 DEF Wrappers
<1>3. Owned(v)
  BY <1>1, <1>2 DEF Owned, Held, Sighted
<1>4. Begun(v)
  BY <1>1, MarkupFacts DEF Begun, Drawn
<1>5. Reading(v)
  BY <1>1, CountFacts DEF Reading
<1>6. ~Behind(v)
  BY <1>1, CountFacts DEF Behind
<1> QED
  BY <1>3, <1>4, <1>5, <1>6 DEF Shown, Poised, Ripe, v

LEMMA RuntimeFacts ==
  ASSUME NEW w, w \in Tab, NEW x \in Runtime(w)
  PROVE  /\ x \in Sessions \cup {NoSession}
         /\ x # NoSession /\ w.dom[x] \notin Wrapped => Wrappers(w) = {} /\ w.dom[x] = Carbonize
         /\ x = NoSession => Wrappers(w) = {} /\ Carbonizing(w) = {}
<1>1. NoSession \notin Sessions
  BY NoSessionOutside
<1>2. CASE Wrappers(w) # {}
  <2>1. x \in Wrappers(w)
    BY <1>2 DEF Runtime, Found, Populated
  <2> QED
    BY <1>1, <1>2, <2>1 DEF Wrappers
<1>3. CASE Wrappers(w) = {} /\ Carbonizing(w) # {}
  <2>1. x \in Carbonizing(w)
    BY <1>3 DEF Runtime
  <2> QED
    BY <1>1, <1>3, <2>1 DEF Carbonizing
<1>4. CASE Wrappers(w) = {} /\ Carbonizing(w) = {}
  BY <1>4 DEF Runtime
<1> QED
  BY <1>2, <1>3, <1>4

\* A scout that was put off takes up what the page shows now, or goes on with what
\* the page has saved when no comparison is there.
LEMMA ScoutPoised ==
  ASSUME NEW w, NEW x \in Runtime(w), w \in Tab, Drawn(w), Poised(w)
  PROVE  Poised(ScoutSees(w, x)) /\ ScoutSees(w, x).dom = w.dom
<1> DEFINE v == [w EXCEPT !.deferred = FALSE]
<1>1. /\ v \in Tab /\ v.deferred = FALSE /\ v.saved = w.saved /\ v.handled = w.handled
      /\ v.current = w.current /\ v.dom = w.dom /\ v.timers = w.timers /\ v.observer = w.observer
      /\ v.state = w.state /\ v.arrived = w.arrived
  BY DEF Tab
<1> HIDE DEF v
<1>2. Poised(v)
  BY <1>1 DEF Poised, Owned, Held, Sighted, Begun, Ripe, Reading, Reads
<1>3. CASE ~w.deferred \/ x = NoSession
  BY <1>3 DEF ScoutSees
<1>4. CASE w.deferred /\ x # NoSession
  <2>1. ScoutSees(w, x) = Resume(v, x)
    BY <1>4 DEF ScoutSees, v
  <2>2. x \in Sessions /\ Drawn(v)
    BY <1>1, <1>4, RuntimeFacts DEF Drawn
  <2>3. CASE Resume(v, x) = v
    BY <1>1, <1>2, <2>1, <2>3
  <2>4. CASE Resume(v, x) = TakeUp(v, x) /\ v.dom[x] \in Wrapped
    BY <1>1, <2>1, <2>2, <2>4, TakeUpShown, TakeUpFacts DEF Shown
  <2>5. CASE Resume(v, x) = Restore(v, v.saved, FALSE) /\ CanRestore(v, v.saved, FALSE)
             /\ (v.dom[x] \notin Wrapped \/ v.current # v.saved.id)
    <3>1. Restorable(v.saved) /\ v.saved.id \notin Ids(v.handled) /\ v.saved \in Saved /\ v.saved.id # NoSession
      BY <1>1, <2>5 DEF CanRestore, Restorable, Tab
    <3>2. v.saved.id = v.current
      BY <1>2, <3>1 DEF Poised, Owned, Held, Sighted
    <3>3. Wrappers(w) = {}
      BY <1>1, <1>4, <2>5, <3>2, RuntimeFacts
    <3>4. Once => (Open(v.saved.id) /\ v.saved.arrived = Count => v.saved.file)
      BY <1>1, <1>4, <3>1, <3>3, CountFacts DEF Poised, Owned, Held, Sighted
    <3>5. Open(v.saved.id) /\ source[v.saved.id] = Clean =>
            v.saved.arrived = 0 /\ \A t \in v.timers : t.kind = "fetch" => t.id = v.saved.id
      BY <1>2, <3>1, <3>2 DEF Poised, Begun
    <3>6. Poised(Restore(v, v.saved, FALSE)) /\ Restore(v, v.saved, FALSE).dom = v.dom
      <4>1. /\ Held(Restore(v, v.saved, FALSE)) /\ Begun(Restore(v, v.saved, FALSE))
            /\ (Open(v.saved.id) /\ v.saved.arrived = Count => v.saved.file) =>
                 Reading(Restore(v, v.saved, FALSE))
            /\ Sighted(Restore(v, v.saved, FALSE))
        BY <1>1, <3>1, <3>5, RestorePoised
      <4>2. Restore(v, v.saved, FALSE).dom = v.dom
        BY <1>1, <3>1, RestoreFacts
      <4> QED
        BY <3>4, <4>1, <4>2 DEF Poised, Owned, Ripe
    <3> QED
      BY <1>1, <2>1, <2>5, <3>6
  <2>6. CASE Resume(v, x) = [v EXCEPT !.saved = NoSaved]
    <3> DEFINE u == [v EXCEPT !.saved = NoSaved]
    <3>1. /\ u.deferred = FALSE /\ u.saved = NoSaved /\ u.handled = v.handled
          /\ u.current = v.current /\ u.dom = v.dom /\ u.timers = v.timers /\ u.observer = v.observer
          /\ u.state = v.state /\ u.arrived = v.arrived
      BY <1>1 DEF Tab
    <3> HIDE DEF u
    <3>2. Poised(u)
      BY <1>2, <3>1, NoSavedFacts DEF Poised, Owned, Held, Sighted, Begun, Ripe, Reading, Reads, Restorable
    <3> QED
      BY <1>1, <2>1, <2>6, <3>1, <3>2 DEF u
  <2> QED
    BY <1>4, <2>3, <2>4, <2>5, <2>6 DEF Resume, Supersedes
<1> QED
  BY <1>3, <1>4

LEMMA ArriveShown ==
  ASSUME NEW w, w \in Tab, Drawn(w), Poised(w)
  PROVE  Shown(VariantsArrive(w)) /\ VariantsArrive(w).dom = w.dom
<1> DEFINE s == w.observer
           v == [w EXCEPT !.arrived = w.dom[s], !.state = "CYCLING"]
           u == SaveSession(v)
<1>1. CASE s = NoSession \/ w.dom[s] \notin Wrapped \/ w.dom[s] <= w.arrived
  <2>1. VariantsArrive(w) = w
    BY <1>1 DEF VariantsArrive
  <2>2. ~Behind(w)
    BY <1>1, CountFacts DEF Poised, Owned, Held, Sighted, Behind, Tab
  <2> QED
    BY <2>1, <2>2 DEF Shown
<1>2. CASE ~(s = NoSession \/ w.dom[s] \notin Wrapped \/ w.dom[s] <= w.arrived)
  <2>1. v \in Tab
    BY <1>2, MarkupFacts DEF Tab, State
  <2>2. /\ v.observer = s /\ v.timers = w.timers /\ v.dom = w.dom
        /\ v.current = s /\ v.arrived = w.dom[s] /\ v.state = "CYCLING"
    BY DEF Tab, Poised, Owned, Held, Sighted
  <2>3. s \in Sessions /\ s # NoSession /\ w.dom[s] \in Wrapped
    BY <1>2 DEF Tab
  <2>4. VariantsArrive(w) = u
    BY <1>2 DEF VariantsArrive
  <2> HIDE DEF v
  <2>5. /\ u.current = s /\ u.observer = s /\ u.saved.id = s /\ u.arrived = w.dom[s]
        /\ u.state = "CYCLING" /\ u.dom = w.dom
    BY <2>1, <2>2, <2>3, CommitFacts
  <2> HIDE DEF u, s
  <2>6. s \in Wrappers(u)
    BY <2>3, <2>5 DEF Wrappers
  <2>7. Poised(u)
    BY <2>3, <2>5, <2>6, MarkupFacts DEF Poised, Owned, Held, Sighted, Begun, Ripe, Reading, Drawn
  <2>8. ~Behind(u)
    BY <2>3, <2>5, CountFacts DEF Behind
  <2> QED
    BY <2>4, <2>5, <2>7, <2>8 DEF Shown
<1> QED
  BY <1>1, <1>2

LEMMA WokenShown ==
  ASSUME NEW w, NEW x \in Runtime(w), Sane(w), Known, Drawn(w), Poised(w)
  PROVE  Shown(Woken(w, x)) /\ Woken(w, x).dom = w.dom
<1> DEFINE v == ScoutSees(w, x)
<1>1. Poised(v) /\ v.dom = w.dom
  BY ScoutPoised DEF Sane
<1>2. Sane(v)
  BY RuntimeInSessions, ScoutSeesKeeps DEF Kept
<1> HIDE DEF v
<1>3. Drawn(v)
  BY <1>1 DEF Drawn
<1> QED
  BY <1>1, <1>2, <1>3, ArriveShown DEF Woken, Sane, v

\* Answers, events and reads.

LEMMA GivenUpShown ==
  ASSUME NEW w, w \in Tab
  PROVE  Shown(Cleanup(MarkHandled(w))) /\ Cleanup(MarkHandled(w)).dom = w.dom
BY MarkHandledFacts, CleanupShown

LEMMA ShowCyclingShown ==
  ASSUME NEW w, w \in Tab, Poised(w), ~Behind(w)
  PROVE  Shown(ShowCycling(w)) /\ ShowCycling(w).dom = w.dom
BY CleanupShown DEF ShowCycling, Shown

LEMMA AcceptAnsweredShown ==
  ASSUME NEW w, NEW a \in Answer, w \in Tab, Shown(w), ~Behind(w)
  PROVE  Shown(AcceptAnswered(w, a)) /\ AcceptAnswered(w, a).dom = w.dom
<1>1. CASE a.ok /\ w.pending = a.id
  <2> DEFINE m == MarkHandled(w)
             n == [m EXCEPT !.awaiting = a.id]
  <2>1. m \in Tab /\ m.dom = w.dom
    BY MarkHandledFacts
  <2> HIDE DEF m
  <2>2. n \in Tab /\ n.dom = w.dom
    BY <2>1 DEF Tab, Answer
  <2> HIDE DEF n
  <2>3. Shown(Release(n)) /\ Release(n).dom = w.dom
    BY <2>2, ReleaseShown
  <2> QED
    BY <1>1, <2>3 DEF AcceptAnswered, n, m
<1>2. CASE a.ok /\ w.pending # a.id
  BY <1>2 DEF AcceptAnswered
<1>3. CASE ~a.ok
  <2> DEFINE n == [w EXCEPT !.state = "CYCLING", !.pending = IF @ = a.id THEN NoSession ELSE @]
  <2>1. n \in Tab /\ n.state = "CYCLING"
    BY DEF Tab, State
  <2>2. /\ n.observer = w.observer /\ n.current = w.current /\ n.arrived = w.arrived
        /\ n.saved = w.saved /\ n.handled = w.handled /\ n.deferred = w.deferred
        /\ n.timers = w.timers /\ n.dom = w.dom
    BY DEF Tab
  <2> HIDE DEF n
  <2>3. Poised(n) /\ ~Behind(n)
    BY <2>1, <2>2 DEF Shown, Poised, Owned, Held, Sighted, Begun, Ripe, Reading, Behind, Wrappers
  <2>4. Shown(ShowCycling(n)) /\ ShowCycling(n).dom = w.dom
    BY <2>1, <2>2, <2>3, ShowCyclingShown
  <2> QED
    BY <1>3, <2>4 DEF AcceptAnswered, n
<1> QED
  BY <1>1, <1>2, <1>3 DEF Answer

\* One more read that is not a fetch, or one fetch of the page's session.
LEMMA SetShown ==
  ASSUME NEW w, NEW t, w \in Tab, Poised(w), t.kind = "fetch" => t.id = w.current
  PROVE  LET v == Set(w, t) IN
         /\ Poised(v) /\ v.dom = w.dom /\ v.current = w.current /\ v.timers = w.timers \cup {t}
         /\ Shown(w) => Shown(v)
<1> DEFINE v == Set(w, t)
<1>1. /\ v.observer = w.observer /\ v.current = w.current /\ v.state = w.state /\ v.arrived = w.arrived
      /\ v.saved = w.saved /\ v.handled = w.handled /\ v.deferred = w.deferred
      /\ v.timers = w.timers \cup {t} /\ v.dom = w.dom /\ v.answers = w.answers
  BY DEF Set, Tab
<1> HIDE DEF v
<1>2. Poised(v)
  BY <1>1 DEF Poised, Owned, Held, Sighted, Begun, Ripe, Reading, Reads, Wrappers
<1>3. Shown(w) => Shown(v)
  BY <1>1, <1>2 DEF Shown, Behind, Catches, Due
<1> QED
  BY <1>1, <1>2, <1>3 DEF v

LEMMA DoneSeenShown ==
  ASSUME NEW w, NEW id, w \in Tab, Shown(w)
  PROVE  LET v == DoneSeen(w, id) IN
         /\ Shown(v) /\ v.dom = w.dom
         /\ Behind(v) => Behind(w) /\ v.current = w.current /\ (id = w.current => Due(v))
<1> DEFINE w1 == [w EXCEPT !.file = TRUE]
           w2 == [w1 EXCEPT !.state = "CYCLING"]
           t  == Read("completed", id, TRUE, FALSE, 0)
           v  == DoneSeen(w, id)
<1>1. w1 \in Tab /\ Alike(w, w1) /\ w1.answers = w.answers
  BY DEF Alike, Tab
<1>2. Shown(w1)
  BY <1>1, ShownAlike
<1>3. CASE w.arrived = Count /\ w.state = "GENERATING"
  <2>1. v = w2
    BY <1>3 DEF DoneSeen
  <2>2. /\ w2.observer = w.observer /\ w2.current = w.current /\ w2.arrived = w.arrived
        /\ w2.saved = w.saved /\ w2.handled = w.handled /\ w2.deferred = w.deferred
        /\ w2.timers = w.timers /\ w2.dom = w.dom /\ w2.state = "CYCLING"
    BY DEF Tab
  <2> HIDE DEF w2, v
  <2>3. Poised(w2)
    BY <2>2 DEF Shown, Poised, Owned, Held, Sighted, Begun, Ripe, Reading, Wrappers
  <2>4. ~Behind(w2)
    BY <1>3, <2>2, CountFacts DEF Behind
  <2> QED
    BY <2>1, <2>2, <2>3, <2>4 DEF Shown, v
<1>4. CASE w.arrived # Count /\ w.state = "GENERATING" /\ id = w.current
  <2>1. v = Set(w1, t)
    BY <1>4 DEF DoneSeen
  <2>2. t.kind = "completed" /\ t.id = id
    BY DEF Read
  <2> HIDE DEF t, w1
  <2>3. /\ Shown(Set(w1, t)) /\ Set(w1, t).dom = w1.dom /\ Set(w1, t).current = w1.current
        /\ Set(w1, t).timers = w1.timers \cup {t} /\ Set(w1, t).arrived = w1.arrived
    <3>1. Poised(w1)
      BY <1>2 DEF Shown
    <3>2. Set(w1, t).arrived = w1.arrived
      BY <1>1 DEF Set, Tab
    <3> QED
      BY <1>1, <1>2, <2>2, <3>1, <3>2, SetShown
  <2>4. Due(Set(w1, t))
    BY <1>1, <1>4, <2>2, <2>3 DEF Due, Alike
  <2> QED
    BY <1>1, <2>1, <2>3, <2>4 DEF Alike, Behind
<1>5. CASE ~(w.state = "GENERATING" /\ (w.arrived = Count \/ id = w.current))
  <2>1. v = w1
    BY <1>5 DEF DoneSeen
  <2> HIDE DEF w1, v
  <2>2. Behind(w1) => w.state = "GENERATING" /\ Behind(w)
    BY <1>1 DEF Alike, Behind, Catches, Shown
  <2> QED
    BY <1>1, <1>2, <1>5, <2>1, <2>2 DEF Alike, v
<1> QED
  BY <1>3, <1>4, <1>5

LEMMA CompleteSeenShown ==
  ASSUME NEW w, NEW id, w \in Tab, Shown(w)
  PROVE  LET v == CompleteSeen(w, id) IN
         Shown(v) /\ v.dom = w.dom /\ (Behind(v) => Behind(w) /\ v.current = w.current)
<1> DEFINE w1 == [w EXCEPT !.awaiting = IF @ = id THEN NoSession ELSE @]
           w2 == [w1 EXCEPT !.pending = NoSession]
           m  == MarkHandled(w1)
<1>1. /\ w1 \in Tab /\ Alike(w, w1) /\ Alike(w, w2) /\ w1.answers = w.answers /\ w2.answers = w.answers
  BY DEF Alike, Tab
<1>2. Shown(w1) /\ Shown(w2)
  BY <1>1, ShownAlike
<1>3. (Behind(w1) => Behind(w)) /\ (Behind(w2) => Behind(w))
  BY <1>1 DEF Alike, Behind
<1> HIDE DEF w1
<1>4. Shown(Release(m)) /\ Release(m).dom = w1.dom /\ Release(m).current = NoSession
  <2>1. m \in Tab /\ m.dom = w1.dom
    BY <1>1, MarkHandledFacts
  <2> HIDE DEF m
  <2>2. Release(m).current = NoSession
    BY <2>1 DEF Release, Tab
  <2> QED
    BY <2>1, <2>2, ReleaseShown
<1>5. ~Behind(Release(m))
  BY <1>4 DEF Behind
<1>6. CompleteSeen(w, id) \in {w1, w2, Release(m)}
  BY DEF CompleteSeen, w1
<1> HIDE DEF m, w2
<1> QED
  BY <1>1, <1>2, <1>3, <1>4, <1>5, <1>6 DEF Alike

LEMMA DiscardedSeenShown ==
  ASSUME NEW w, NEW id, w \in Tab, Shown(w)
  PROVE  LET v == DiscardedSeen(w, id) IN
         Shown(v) /\ v.dom = w.dom /\ (Behind(v) => Behind(w) /\ v.current = w.current)
<1>1. CASE id = w.current
  <2>1. Cleanup(MarkHandled(w)).current = NoSession
    <3>1. MarkHandled(w) \in Tab
      BY MarkHandledFacts
    <3> QED
      BY <3>1, CleanupFacts
  <2> QED
    BY <1>1, <2>1, GivenUpShown DEF DiscardedSeen, Behind
<1>2. CASE id # w.current
  BY <1>2 DEF DiscardedSeen
<1> QED
  BY <1>1, <1>2

LEMMA MissedCompletionShown ==
  ASSUME NEW w, w \in Tab, Shown(w)
  PROVE  LET v == MissedCompletion(w) IN
         /\ Shown(v) /\ v.dom = w.dom /\ v.current = w.current /\ v.arrived = w.arrived
         /\ v.answers = w.answers
         /\ Behind(w) /\ journal[w.current] = "ready" => Due(v)
<1> DEFINE w1 == [w EXCEPT !.file = TRUE]
           t  == Read("completed", w.current, TRUE, FALSE, 0)
<1>1. w1 \in Tab /\ Alike(w, w1) /\ w1.answers = w.answers
  BY DEF Alike, Tab
<1>2. Shown(w1)
  BY <1>1, ShownAlike
<1>3. t.kind = "completed" /\ t.id = w.current
  BY DEF Read
<1>4. Behind(w) => w.arrived < Count /\ w.state = "GENERATING" /\ w.current # NoSession
  <2>1. w.arrived \in 0..Count
    BY DEF Tab
  <2> QED
    BY <2>1, CountFacts DEF Shown, Behind, Catches
<1>5. \/ MissedCompletion(w) = Set(w1, t)
      \/ MissedCompletion(w) = w /\ ~(Behind(w) /\ journal[w.current] = "ready")
  <2> DEFINE missed == /\ w.current # NoSession /\ w.state = "GENERATING"
                       /\ journal[w.current] = "ready" /\ w.arrived < Count
  <2>1. MissedCompletion(w) = IF missed THEN Set(w1, t) ELSE w
    BY DEF MissedCompletion
  <2>2. Behind(w) /\ journal[w.current] = "ready" => missed
    BY <1>4
  <2> HIDE DEF w1, t
  <2>3. CASE missed
    BY <2>1, <2>3
  <2>4. CASE ~missed
    BY <2>1, <2>2, <2>4
  <2> QED
    BY <2>3, <2>4
<1> HIDE DEF t, w1
<1>6. /\ Shown(Set(w1, t)) /\ Set(w1, t).dom = w.dom /\ Set(w1, t).current = w.current
      /\ Set(w1, t).timers = w1.timers \cup {t} /\ Set(w1, t).arrived = w.arrived
      /\ Set(w1, t).answers = w.answers
  <2>1. Poised(w1)
    BY <1>2 DEF Shown
  <2>2. Set(w1, t).arrived = w1.arrived /\ Set(w1, t).answers = w1.answers
    BY <1>1 DEF Set, Tab
  <2> QED
    BY <1>1, <1>2, <1>3, <2>1, <2>2, SetShown DEF Alike
<1>7. Due(Set(w1, t))
  BY <1>3, <1>6 DEF Due
<1> QED
  BY <1>5, <1>6, <1>7

\* A read that finds the wrapper counts what is in it.
LEMMA CompletePoised ==
  ASSUME NEW w, NEW t \in w.timers, w \in Tab, Poised(w), t.kind = "fetch", source[t.id] \in Wrapped
  PROVE  LET v == Complete(Render(Drop(w, t), t.id, source[t.id]), t, source[t.id]) IN
         Poised(v) /\ v.dom = [w.dom EXCEPT ![t.id] = source[t.id]]
<1> DEFINE n  == source[t.id]
           r  == Render(Drop(w, t), t.id, n)
           w1 == [r EXCEPT !.arrived = n]
           w2 == [w1 EXCEPT !.state = "CYCLING"]
           u  == SaveSession(w2)
           again == [t EXCEPT !.kind = "reread"]
<1>1. t.id \in Sessions /\ n \in 0..Count /\ n \in Markup /\ t \in Timer
  BY MarkupFacts DEF Tab, Timer
<1>2. /\ r \in Tab /\ r.observer = w.observer /\ r.current = w.current /\ r.state = w.state
      /\ r.saved = w.saved /\ r.handled = w.handled /\ r.deferred = w.deferred
      /\ r.timers = w.timers \ {t} /\ r.dom = [w.dom EXCEPT ![t.id] = n]
  <2> HIDE DEF n
  <2> QED
    BY <1>1 DEF Render, Drop, Tab
<1>3. r.dom[t.id] \in Wrapped
  BY <1>1, <1>2 DEF Tab
<1> HIDE DEF r
<1>4. /\ w1 \in Tab /\ w1.observer = w.observer /\ w1.current = w.current /\ w1.state = w.state
      /\ w1.saved = w.saved /\ w1.handled = w.handled /\ w1.deferred = w.deferred
      /\ w1.timers = w.timers \ {t} /\ w1.dom = r.dom /\ w1.arrived = n
  <2> HIDE DEF n
  <2> QED
    BY <1>1, <1>2 DEF Tab
<1>5. t.id \in Wrappers(w1)
  BY <1>1, <1>3, <1>4 DEF Wrappers
<1> HIDE DEF w1
<1>6. w.current # NoSession /\ Open(w.current) => source[w.current] # Clean
  <2>1. n # Clean
    BY MarkupFacts
  <2> QED
    BY <2>1 DEF Poised, Begun
<1>7. Poised(w1) \/ ~(n = 0)
  <2>1. Owned(w1)
    BY <1>4, <1>5 DEF Owned, Held, Sighted, Poised
  <2>2. Begun(w1)
    BY <1>4, <1>6 DEF Begun
  <2>3. n = 0 => Ripe(w1)
    BY <1>4, CountFacts DEF Ripe, Reading
  <2> QED
    BY <2>1, <2>2, <2>3 DEF Poised
<1>8. Poised(u) /\ u.dom = r.dom
  <2>1. /\ w2 \in Tab /\ w2.observer = w.observer /\ w2.current = w.current /\ w2.state = "CYCLING"
        /\ w2.saved = w.saved /\ w2.handled = w.handled /\ w2.deferred = w.deferred
        /\ w2.timers = w.timers \ {t} /\ w2.dom = r.dom /\ w2.arrived = n
    BY <1>4 DEF Tab, State
  <2> HIDE DEF w2
  <2>2. Wrappers(w2) # {}
    BY <1>4, <1>5, <2>1 DEF Wrappers
  <2>3. CASE w2.current = NoSession
    <3>1. Owned(w2) /\ Begun(w2) /\ Ripe(w2)
      BY <2>1, <2>2, <2>3 DEF Poised, Owned, Held, Sighted, Begun, Ripe, Reading
    <3> QED
      BY <2>1, <2>3, <3>1 DEF SaveSession, Poised
  <2>4. CASE w2.current # NoSession
    <3> DEFINE rec == [id |-> w2.current, state |-> w2.state, arrived |-> w2.arrived, file |-> w2.file]
    <3>1. u = [w2 EXCEPT !.saved = rec] /\ rec.id = w2.current
      BY <2>4 DEF SaveSession
    <3> HIDE DEF rec
    <3>2. /\ u.observer = w.observer /\ u.current = w.current /\ u.state = "CYCLING"
          /\ u.saved = rec /\ u.handled = w.handled /\ u.deferred = w.deferred
          /\ u.dom = r.dom /\ u.arrived = n
      BY <2>1, <3>1 DEF Tab
    <3> HIDE DEF u
    <3>3. Wrappers(u) # {}
      BY <2>1, <2>2, <3>2 DEF Wrappers
    <3>4. Poised(u)
      BY <1>6, <2>1, <3>1, <3>2, <3>3 DEF Poised, Owned, Held, Sighted, Begun, Ripe, Reading
    <3> QED
      BY <3>2, <3>4
  <2> QED
    BY <2>3, <2>4
<1>9. Shown(Cleanup(w1)) /\ Cleanup(w1).dom = r.dom
  BY <1>4, CleanupShown
<1>10. Poised(w1) => Poised(Set(w1, again)) /\ Set(w1, again).dom = r.dom
  <2>1. again.kind = "reread"
    BY <1>1 DEF Timer
  <2> HIDE DEF again
  <2> QED
    BY <1>4, <2>1, SetShown
<1>11. \/ Complete(r, t, n) = u /\ n # 0
       \/ Complete(r, t, n) \in {w1, Cleanup(w1), Set(w1, again)} /\ n = 0
  <2>1. n > 0 <=> n # 0
    BY <1>1, CountFacts
  <2>2. Complete(r, t, n) =
          IF n > 0 THEN u
          ELSE IF r.state # "GENERATING" THEN Cleanup(w1)
          ELSE IF ~t.completed THEN w1
          ELSE IF t.tries < Rereads THEN Set(w1, again)
          ELSE Cleanup(w1)
    BY DEF Complete, w1
  <2> HIDE DEF u, again, n
  <2>3. CASE n # 0
    BY <2>1, <2>2, <2>3
  <2>4. CASE n = 0
    BY <2>1, <2>2, <2>4
  <2> QED
    BY <2>3, <2>4
<1> HIDE DEF u, again, n
<1>12. Poised(Complete(r, t, n)) /\ Complete(r, t, n).dom = r.dom
  BY <1>4, <1>7, <1>8, <1>9, <1>10, <1>11 DEF Shown
<1> QED
  BY <1>2, <1>12 DEF r, n

\* A page whose scout was put off knows the file of a comparison it has saved, so
\* connecting reads what it restores.
Noted(w) == Once /\ w.deferred /\ Restorable(w.saved) /\ w.saved.arrived > 0 => w.saved.file

\* A generate on its way, or waiting for its upload, is of this page, and news to the
\* helper.
Creation == {"generate", "upload"}
Posted == \A p \in tab.posts : p.type \in Creation => ~p.stray /\ journal[p.id] = "none"
NoErrors == \A i \in 1..Len(events) : events[i].type # "error"

\* What is always true of a page that met no trouble but reloads.
Sound ==
  /\ Written /\ Posted /\ NoErrors /\ stream # "lost"
  /\ Drawn(tab) /\ Noted(tab) /\ Shown(tab)

-----------------------------------------------------------------------------
(* A page that was never reloaded has heard everything. *)

\* A generation that is over left all its variants in the source, or its session
\* was accepted or discarded.
Past(s) == journal[s] \notin {"none", "generating"} /\ source[s] \notin 0..(Count - 1)

\* The page knows the file of what has arrived, and saves its own session only.
Remembered(w) ==
  /\ w.saved.id \in {w.current, NoSession}
  /\ w.saved.arrived > 0 => w.saved.file
  /\ w.current # NoSession =>
       (w.dom[w.current] # Clean \/ source[w.current] # Clean \/ w.arrived > 0 => w.file)

\* Until its scout has seen a wrapper, nothing happened but that a first session
\* was started.
Untouched(w) ==
  /\ \A s \in Sessions : w.dom[s] = Clean /\ journal[s] \in {"none", "generating", "ready"}
  /\ w.answers = {} /\ Ids(w.handled) = {} /\ w.arrived = 0
  /\ \/ started = 0 /\ w.current = NoSession
     \/ started = 1 /\ w.current = 1 /\ w.state = "GENERATING"

\* It reads what is over, and gives nothing up by a read.
Plain(w, t) ==
  /\ t.kind \in {"fetch", "completed"} /\ ~t.orphan /\ Past(t.id)
  /\ t.kind = "fetch" => w.current \in {t.id, NoSession}

\* Every session it started is on its way to the helper or there.
Creates(w, s) == \E p \in w.posts : p.type \in Creation /\ p.id = s
Fresh ==
  /\ stream = "open" /\ Remembered(tab) /\ (tab.deferred => Untouched(tab))
  /\ \A t \in tab.timers : Plain(tab, t)
  /\ \A s \in Sessions : journal[s] = "accepting" => source[s] # Clean
  /\ \A s \in Sessions : s <= started /\ journal[s] = "none" => Creates(tab, s)
  /\ \A i \in 1..Len(events) : events[i].type = "done" => Past(events[i].id)

-----------------------------------------------------------------------------
(* Steps while nothing but reloads went wrong. *)

\* A session that is open after a step was open before it, and its wrapper grows.
Onward ==
  \A s \in Sessions : Open(s)' =>
    /\ Open(s)
    /\ \/ source'[s] = source[s]
       \/ /\ source[s] \in Wrapped \cup {Clean} /\ source'[s] \in Wrapped
          /\ source[s] \in Wrapped => source[s] <= source'[s]

LEMMA WorldSame ==
  ASSUME Written, UNCHANGED <<source, journal>>
  PROVE  Written' /\ Onward
BY DEF Written, Onward, Open

\* A session that is taken, asked about or given up.
LEMMA WorldTurns ==
  ASSUME Known, Written, NEW s \in Sessions, NEW phase, UNCHANGED source,
         journal' = [journal EXCEPT ![s] = phase],
         phase \in {"accepting", "discarding"} \/ (phase = "generating" /\ journal[s] = "none")
  PROVE  Written' /\ Onward
<1>1. \A r \in Sessions \ {s} : journal'[r] = journal[r]
  BY DEF Known
<1>2. journal'[s] = phase
  BY DEF Known
<1> QED
  BY <1>1, <1>2, MarkupFacts DEF Written, Onward, Open

LEMMA WorldWorks ==
  ASSUME Known, Written, NEW s \in Sessions, Agent(s)
  PROVE  Written' /\ Onward
<1>1. \A r \in Sessions \ {s} : journal'[r] = journal[r] /\ source'[r] = source[r]
  BY DEF Known, Agent, AgentWrites, AgentDone, AgentPromotes, AgentDiscards
<1>2. CASE AgentWrites(s)
  <2>1. PICK n \in Wrapped : /\ source[s] = Clean \/ n > source[s]
                             /\ source' = [source EXCEPT ![s] = n]
    BY <1>2 DEF AgentWrites
  <2>2. source'[s] = n /\ journal'[s] = "generating" /\ journal[s] = "generating"
    BY <1>2, <2>1 DEF AgentWrites, Known
  <2>3. source[s] \in Wrapped \cup {Clean} /\ (source[s] \in Wrapped => source[s] <= n)
    <3>1. source[s] \in Wrapped \cup {Clean}
      BY <2>2 DEF Written
    <3> QED
      BY <2>1, <3>1, MarkupFacts
  <2> QED
    BY <1>1, <2>1, <2>2, <2>3 DEF Written, Onward, Open
<1>3. CASE AgentDone(s)
  <2>1. journal'[s] = "ready" /\ journal[s] = "generating" /\ source'[s] = source[s] /\ source[s] = Count
    BY <1>3 DEF AgentDone, Known
  <2> QED
    BY <1>1, <2>1 DEF Written, Onward, Open
<1>4. CASE AgentPromotes(s) \/ AgentDiscards(s)
  <2>1. journal'[s] \in {"accepting", "closed"}
    BY <1>4 DEF AgentPromotes, AgentDiscards, Known
  <2> QED
    BY <1>1, <2>1 DEF Written, Onward, Open
<1> QED
  BY <1>2, <1>3, <1>4 DEF Agent

\* The page a step leaves is judged by what the step makes of the rest.
LEMMA PageStep ==
  ASSUME Known, Onward, Grows, tab' \in Tab, Drawn(tab'), Shown(tab'),
         Behind(tab') /\ Comes(tab'.current) => Comes(tab.current)' \/ Due(tab')
  PROVE  Drawn(tab)' /\ Shown(tab)'
<1>1. Drawn(tab)'
  <2> SUFFICES ASSUME NEW s \in Sessions, Open(s)', tab'.dom[s] # Clean
               PROVE  tab'.dom[s] \in Wrapped /\ source'[s] \in Wrapped /\ tab'.dom[s] <= source'[s]
    BY DEF Drawn
  <2>1. tab'.dom[s] \in Wrapped /\ source[s] \in Wrapped /\ tab'.dom[s] <= source[s]
    BY DEF Drawn, Onward
  <2>2. source'[s] \in Wrapped /\ source[s] <= source'[s]
    BY <2>1, MarkupFacts DEF Onward
  <2> QED
    BY <2>1, <2>2, MarkupFacts
<1>2. tab'.current \in Sessions \cup {NoSession}
  BY DEF Tab
<1>3. tab'.current # NoSession /\ Open(tab.current)' =>
        Open(tab'.current) /\ (source'[tab'.current] = Clean => source[tab'.current] = Clean)
  BY <1>2, MarkupFacts DEF Onward
<1>0. Once' => Once
  BY DEF Once, Grows
<1>4. Owned(tab)'
  BY <1>0 DEF Shown, Poised, Owned, Held, Sighted, Restorable, Wrappers
<1>5. Begun(tab)'
  BY <1>3 DEF Shown, Poised, Begun, Open
<1>6. Ripe(tab)'
  BY <1>0, <1>3 DEF Shown, Poised, Ripe, Reading, Open, Reads
<1>7. Behind(tab)' => Catches(tab)'
  BY <1>3 DEF Shown, Behind, Catches, Open, Due
<1> QED
  BY <1>1, <1>4, <1>5, <1>6, <1>7 DEF Shown, Poised

\* Where the journal, the source and the stream stay, what comes still comes.
LEMMA SoundSame ==
  ASSUME PageInv, Grows, Sound, UNCHANGED <<source, journal, stream, events>>, tab' \in Tab,
         Drawn(tab'), Noted(tab'), Shown(tab'), NoNewGenerate
  PROVE  Sound'
<1>1. Written' /\ Onward
  BY WorldSame DEF Sound
<1>2. Drawn(tab)' /\ Shown(tab)'
  BY <1>1, PageStep DEF PageInv, Comes, Told
<1>3. Posted' /\ NoErrors' /\ Noted(tab)'
  BY DEF Sound, Posted, Creation, NoErrors, NoNewGenerate, Noted, Once, Grows, Restorable
<1> QED
  BY <1>1, <1>2, <1>3 DEF Sound

\* The head of the stream is heard.
LEMMA TailFacts ==
  ASSUME Rest, events # <<>>
  PROVE  /\ Head(events) \in Event /\ Head(events) = events[1] /\ 1 \in 1..Len(events)
         /\ \A i \in 1..Len(Tail(events)) : Tail(events)[i] = events[i + 1] /\ i + 1 \in 1..Len(events)
         /\ \A i \in 1..Len(events) : i = 1 \/ (i - 1 \in 1..Len(Tail(events)) /\ Tail(events)[i - 1] = events[i])
<1>1. events \in Seq(Event) /\ Len(events) \in Nat
  BY DEF Rest
<1>2. /\ Head(events) \in Event /\ 1 \in 1..Len(events) /\ Head(events) = events[1]
      /\ Len(Tail(events)) = Len(events) - 1
      /\ \A i \in 1..Len(Tail(events)) : Tail(events)[i] = events[i + 1]
  BY <1>1
<1> HIDE <1>1
<1>3. Len(events) \in Nat
  BY <1>1
<1>4. \A i \in 1..Len(events) : i = 1 \/ (i - 1 \in 1..Len(Tail(events)) /\ Tail(events)[i - 1] = events[i])
  <2> SUFFICES ASSUME NEW i \in 1..Len(events), i # 1
               PROVE  i - 1 \in 1..Len(Tail(events)) /\ Tail(events)[i - 1] = events[i]
    OBVIOUS
  <2>1. i - 1 \in 1..Len(Tail(events)) /\ (i - 1) + 1 = i
    BY <1>2, <1>3
  <2> QED
    BY <1>2, <2>1
<1> QED
  BY <1>2, <1>3, <1>4

LEMMA ConfigureSound ==
  ASSUME PageInv, Grows, Sound, Pick \/ ExitConfigure
  PROVE  Sound'
<1>1. tab' = [tab EXCEPT !.state = "PICKING"] \/ tab' = [tab EXCEPT !.state = "CONFIGURING"]
  BY DEF Pick, ExitConfigure, BeginNewConfiguration
<1>2. tab.state \in {"PICKING", "CONFIGURING"} /\ UNCHANGED world
  BY DEF Pick, ExitConfigure
<1>3. /\ tab'.observer = tab.observer /\ tab'.current = tab.current /\ tab'.timers = tab.timers
      /\ tab'.dom = tab.dom /\ tab'.handled = tab.handled /\ tab'.deferred = tab.deferred
      /\ tab'.saved = tab.saved /\ tab'.posts = tab.posts /\ tab' \in Tab
  BY <1>1 DEF PageInv, Sane, Tab, State
<1>4. tab.current = NoSession
  BY <1>2 DEF Sound, Shown, Poised, Owned, Held, Sighted
<1>5. Shown(tab')
  BY <1>3, <1>4 DEF Sound, Shown, Poised, Owned, Held, Sighted, Begun, Ripe, Reading, Behind, Wrappers
<1>6. Drawn(tab') /\ Noted(tab') /\ NoNewGenerate
  BY <1>3 DEF Sound, Drawn, Noted, NoNewGenerate
<1> QED
  BY <1>2, <1>3, <1>5, <1>6, SoundSame DEF world, surroundings

\* A session that is started has nothing on the page, and no read is under way.
LEMMA GoSound ==
  ASSUME PageInv, Grows, Sound, Steady', Go
  PROVE  Sound'
<1> DEFINE new(type, id) == [type |-> type, id |-> id, stray |-> FALSE]
           kept(id) == [id |-> id, state |-> "GENERATING", arrived |-> 0, file |-> FALSE]
<1>1. PICK id \in Sessions :
        /\ started \in Nat /\ id \in Nat /\ started < id /\ id # NoSession
        /\ UNCHANGED <<source, journal, stream, events>>
        /\ tab'.current = id /\ tab'.state = "GENERATING" /\ tab'.arrived = 0 /\ tab'.observer = id
        /\ \E type \in Creation : tab'.posts = tab.posts \cup {new(type, id)}
        /\ tab'.timers = tab.timers /\ tab'.answers = tab.answers
        /\ tab'.dom = tab.dom /\ tab'.saved = kept(id)
        /\ \A t \in tab.timers : t.kind # "fetch"
  BY GoFacts DEF Steady, Creation
<1>0. PICK type \in Creation : tab'.posts = tab.posts \cup {new(type, id)}
  BY <1>1
<1>2. /\ new(type, id).id = id /\ new(type, id).type = type /\ ~new(type, id).stray
      /\ kept(id).id = id /\ kept(id).arrived = 0
  OBVIOUS
<1> HIDE DEF new, kept
<1>3. journal[id] = "none" /\ tab.dom[id] = Clean
  BY <1>1, NoSessionOutside DEF PageInv, Known, Sane
<1>4. Shown(tab')
  <2>1. Owned(tab') /\ Begun(tab')
    BY <1>1, <1>2 DEF Owned, Held, Sighted, Begun
  <2>2. Ripe(tab')
    BY <1>1, CountFacts DEF Ripe, Reading
  <2>3. ~Behind(tab')
    BY <1>1, <1>3, MarkupFacts DEF Behind
  <2> QED
    BY <2>1, <2>2, <2>3 DEF Shown, Poised
<1>5. Drawn(tab') /\ Noted(tab')
  BY <1>1, <1>2, CountFacts DEF Sound, Drawn, Noted
<1>6. Posted'
  BY <1>0, <1>1, <1>2, <1>3 DEF Sound, Posted
<1>7. tab' \in Tab
  BY GoKeeps DEF PageInv, Sane
<1>8. Written' /\ Onward
  BY <1>1, WorldSame DEF Sound
<1>9. Drawn(tab)' /\ Shown(tab)'
  BY <1>1, <1>4, <1>5, <1>7, <1>8, PageStep DEF PageInv, Comes, Told
<1> QED
  BY <1>1, <1>5, <1>6, <1>8, <1>9 DEF Sound, NoErrors, Noted, Once, Grows, Restorable

\* What is asked concerns a comparison, which shows all there is.
LEMMA AskSound ==
  ASSUME PageInv, Grows, Sound, Steady', tab' \in Tab, Drawn(tab'), Noted(tab'), Poised(tab'), ~Behind(tab'),
         NEW w, w \in Tab, w.posts = tab.posts,
         NEW type, NEW id \in Sessions, NEW phase \in {"accepting", "discarding"},
         Ask(w, type, id, phase), UNCHANGED surroundings
  PROVE  Sound'
<1>1. tab'.posts = tab.posts
  BY DEF Ask, Tab
<1>2. UNCHANGED journal \/ (journal' = [journal EXCEPT ![id] = phase] /\ Acts(id))
  <2>1. PICK reaches \in BOOLEAN :
          journal' = IF reaches /\ Acts(id) THEN [journal EXCEPT ![id] = phase] ELSE journal
    BY DEF Ask
  <2>2. CASE reaches /\ Acts(id)
    BY <2>1, <2>2
  <2>3. CASE ~(reaches /\ Acts(id))
    BY <2>1, <2>3
  <2> QED
    BY <2>2, <2>3
<1>3. Written' /\ Onward
  BY <1>2, WorldSame, WorldTurns DEF Sound, PageInv, surroundings
<1>4. Drawn(tab)' /\ Shown(tab)'
  BY <1>3, PageStep DEF PageInv, Shown
<1>5. Posted'
  <2> SUFFICES ASSUME NEW p \in tab.posts, p.type \in Creation
               PROVE  ~p.stray /\ journal'[p.id] = "none"
    BY <1>1 DEF Posted
  <2>1. ~p.stray /\ journal[p.id] = "none" /\ p.id \in Sessions
    BY DEF Sound, Posted, PageInv, Sane, Tab, Post
  <2> QED
    BY <1>2, <2>1 DEF Acts, PageInv, Known
<1> QED
  BY <1>3, <1>4, <1>5 DEF Sound, NoErrors, Noted, Once, Grows, Restorable, surroundings

LEMMA AcceptSound ==
  ASSUME PageInv, Grows, Sound, Steady', Accept
  PROVE  Sound'
<1> DEFINE v == [tab EXCEPT !.state = "SAVING", !.pending = tab.current]
           w == SaveSession(v)
           rec == [id |-> v.current, state |-> v.state, arrived |-> v.arrived, file |-> v.file]
<1>1. /\ tab \in Tab /\ tab.current \in Sessions /\ tab.current # NoSession
      /\ tab.state = "CYCLING" /\ tab.arrived > 0 /\ tab.arrived \in 0..Count
      /\ UNCHANGED surroundings /\ Ask(w, "accept", tab.current, "accepting")
  BY DEF Accept, PageInv, Sane, Tab
<1>2. /\ v \in Tab /\ v.current = tab.current /\ v.observer = tab.observer /\ v.state = "SAVING"
      /\ v.arrived = tab.arrived /\ v.timers = tab.timers /\ v.dom = tab.dom
      /\ v.handled = tab.handled /\ v.deferred = tab.deferred /\ v.posts = tab.posts
  BY <1>1 DEF Tab, State
<1> HIDE DEF v
<1>3. rec.id = tab.current /\ rec.state = "SAVING" /\ rec.arrived = tab.arrived /\ rec \in Saved
  BY <1>2 DEF Tab, Saved
<1>4. w = [v EXCEPT !.saved = rec]
  BY <1>1, <1>2 DEF SaveSession
<1> HIDE DEF rec
<1>5. /\ w \in Tab /\ w.saved = rec /\ w.current = tab.current /\ w.observer = tab.observer
      /\ w.state = "SAVING" /\ w.arrived = tab.arrived /\ w.timers = tab.timers
      /\ w.dom = tab.dom /\ w.handled = tab.handled /\ w.deferred = tab.deferred /\ w.posts = tab.posts
  BY <1>2, <1>3, <1>4 DEF Tab
<1> HIDE DEF w
<1>6. PICK a : tab' = [w EXCEPT !.answers = @ \cup {a}]
  BY <1>1 DEF Ask
<1>7. /\ tab'.saved = rec /\ tab'.current = tab.current /\ tab'.observer = tab.observer
      /\ tab'.state = "SAVING" /\ tab'.arrived = tab.arrived /\ tab'.timers = tab.timers
      /\ tab'.dom = tab.dom
  BY <1>5, <1>6 DEF Tab
<1>8. tab' \in Tab
  BY AcceptKeeps DEF PageInv, Sane
<1>9. Owned(tab')
  BY <1>3, <1>7 DEF Sound, Shown, Poised, Owned, Held, Sighted, Restorable
<1>10. Begun(tab')
  BY <1>1, <1>3, <1>7, CountFacts DEF Sound, Shown, Poised, Begun
<1>11. Ripe(tab')
  BY <1>7 DEF Ripe, Reading
<1>12. ~Behind(tab')
  BY <1>1, <1>7 DEF Sound, Shown, Behind, Catches
<1>13. Drawn(tab') /\ Noted(tab')
  BY <1>3, <1>7 DEF Sound, Drawn, Noted, Restorable
<1> QED
  BY <1>1, <1>5, <1>8, <1>9, <1>10, <1>11, <1>12, <1>13, AskSound DEF Poised

LEMMA DiscardSound ==
  ASSUME PageInv, Grows, Sound, Steady', Discard
  PROVE  Sound'
<1>1. /\ tab \in Tab /\ tab.current \in Sessions /\ tab.state = "CYCLING"
      /\ UNCHANGED surroundings /\ Ask(tab, "discard", tab.current, "discarding")
  BY DEF Discard, PageInv, Sane, Tab
<1>2. PICK a : tab' = [tab EXCEPT !.answers = @ \cup {a}]
  BY <1>1 DEF Ask
<1>3. Alike(tab, tab')
  BY <1>1, <1>2 DEF Alike, Tab
<1>4. tab' \in Tab
  BY DiscardKeeps DEF PageInv, Sane
<1>5. Poised(tab')
  BY <1>3, PoisedAlike DEF Sound, Shown
<1>6. ~Behind(tab')
  BY <1>1, <1>3 DEF Alike, Sound, Shown, Behind, Catches
<1>7. Drawn(tab') /\ Noted(tab')
  BY <1>3 DEF Alike, Sound, Drawn, Noted
<1> QED
  BY <1>1, <1>4, <1>5, <1>6, <1>7, AskSound

\* An answer or an event saves nothing.
Forgets(w, v) == v.saved = NoSaved \/ (v.saved = w.saved /\ v.deferred = w.deferred)

LEMMA NotedForgets ==
  ASSUME NEW w, NEW v, Noted(w), Forgets(w, v)
  PROVE  Noted(v)
<1>1. CASE v.saved = NoSaved
  BY <1>1, NoSavedFacts DEF Noted, Restorable
<1>2. CASE v.saved = w.saved /\ v.deferred = w.deferred
  BY <1>2 DEF Noted
<1> QED
  BY <1>1, <1>2 DEF Forgets

LEMMA AnswersForget ==
  ASSUME NEW w, NEW a, w \in Tab
  PROVE  /\ Forgets(w, AcceptAnswered(w, a)) /\ Forgets(w, DiscardAnswered(w, a))
         /\ Forgets(w, CheckpointAnswered(w, a))
<1> DEFINE m == MarkHandled(w)
           n == [w EXCEPT !.state = "CYCLING", !.pending = IF @ = a.id THEN NoSession ELSE @]
           r == [m EXCEPT !.awaiting = a.id]
<1>1. Cleanup(m).saved = NoSaved /\ Cleanup(n).saved = NoSaved /\ Release(r).saved = NoSaved
  BY DEF Cleanup, Release, MarkHandled, Tab
<1>2. n.saved = w.saved /\ n.deferred = w.deferred
  BY DEF Tab
<1>3. DiscardAnswered(w, a) \in {w, Cleanup(m)} /\ CheckpointAnswered(w, a) \in {w, Cleanup(m)}
  BY DEF DiscardAnswered, CheckpointAnswered
<1>4. AcceptAnswered(w, a) \in {w, Release(r), n, Cleanup(n)}
  BY DEF AcceptAnswered, ShowCycling
<1> HIDE DEF m, n, r
<1> QED
  BY <1>1, <1>2, <1>3, <1>4 DEF Forgets

LEMMA EventsForget ==
  ASSUME NEW w, NEW id, w \in Tab
  PROVE  /\ Forgets(w, DoneSeen(w, id)) /\ Forgets(w, CompleteSeen(w, id))
         /\ Forgets(w, DiscardedSeen(w, id))
<1>1. Forgets(w, DoneSeen(w, id))
  BY DEF Forgets, DoneSeen, Set, Tab
<1>2. Forgets(w, CompleteSeen(w, id))
  <2> DEFINE w1 == [w EXCEPT !.awaiting = IF @ = id THEN NoSession ELSE @]
             w2 == [w1 EXCEPT !.pending = NoSession]
             r  == Release(MarkHandled(w1))
  <2>1. /\ w1.saved = w.saved /\ w1.deferred = w.deferred
        /\ w2.saved = w.saved /\ w2.deferred = w.deferred /\ r.saved = NoSaved
    BY DEF Release, MarkHandled, Tab
  <2>2. CompleteSeen(w, id) \in {w1, w2, r}
    BY DEF CompleteSeen
  <2> HIDE DEF w1, w2, r
  <2> QED
    BY <2>1, <2>2 DEF Forgets
<1>3. Forgets(w, DiscardedSeen(w, id))
  <2>1. Cleanup(MarkHandled(w)).saved = NoSaved
    BY DEF Cleanup, MarkHandled, Tab
  <2> QED
    BY <2>1 DEF Forgets, DiscardedSeen
<1> QED
  BY <1>1, <1>2, <1>3

LEMMA AnsweredSound ==
  ASSUME PageInv, Grows, Sound, Answered
  PROVE  Sound'
<1> DEFINE without(a) == [tab EXCEPT !.answers = @ \ {a}]
<1>1. PICK a \in tab.answers :
        tab' = CASE a.type = "accept"     -> AcceptAnswered(without(a), a)
                 [] a.type = "discard"    -> DiscardAnswered(without(a), a)
                 [] a.type = "checkpoint" -> CheckpointAnswered(without(a), a)
                 [] OTHER                 -> without(a)
  BY DEF Answered
<1> DEFINE w == without(a)
<1>2. UNCHANGED <<source, journal, stream, events>>
  BY DEF Answered, world, surroundings
<1>3. a \in Answer /\ a.type \in {"accept", "discard", "checkpoint"}
  BY DEF PageInv, Sane, Tab, Answer
<1>4. w \in Tab /\ Alike(tab, w) /\ w.answers = tab.answers \ {a}
  BY DEF PageInv, Sane, Tab, Alike
<1> HIDE DEF w
<1>5. Shown(w) /\ Drawn(w) /\ Noted(w)
  BY <1>4, ShownAlike DEF Alike, Sound, Drawn, Noted
<1>6. Shown(tab') /\ tab'.dom = w.dom /\ Forgets(w, tab')
  <2>1. CASE a.type = "accept"
    <3>1. tab' = AcceptAnswered(w, a)
      BY <1>1, <2>1 DEF w
    <3>2. ~Behind(w)
      BY <1>4, <2>1 DEF Alike, Sound, Shown, Behind, Catches
    <3> QED
      BY <1>3, <1>4, <1>5, <3>1, <3>2, AcceptAnsweredShown, AnswersForget
  <2>2. CASE a.type = "discard"
    <3>1. tab' = DiscardAnswered(w, a)
      BY <1>1, <2>2 DEF w
    <3>2. tab' = w \/ tab' = Cleanup(MarkHandled(w))
      BY <3>1 DEF DiscardAnswered
    <3> QED
      BY <1>4, <1>5, <3>1, <3>2, GivenUpShown, AnswersForget
  <2>3. CASE a.type = "checkpoint"
    <3>1. tab' = CheckpointAnswered(w, a)
      BY <1>1, <2>3 DEF w
    <3>2. tab' = w \/ tab' = Cleanup(MarkHandled(w))
      BY <3>1 DEF CheckpointAnswered
    <3> QED
      BY <1>4, <1>5, <3>1, <3>2, GivenUpShown, AnswersForget
  <2> QED
    BY <1>3, <2>1, <2>2, <2>3
<1>7. Drawn(tab') /\ Noted(tab')
  BY <1>5, <1>6, NotedForgets DEF Drawn
<1> QED
  BY <1>2, <1>6, <1>7, AnsweredKeeps, SoundSame DEF PageInv, Sane

\* A done that is heard is made up for by the read it asks for.
LEMMA HearSound ==
  ASSUME PageInv, Grows, Sound, Hear
  PROVE  Sound'
<1> DEFINE e == Head(events)
<1>1. /\ e \in Event /\ e = events[1] /\ 1 \in 1..Len(events) /\ events # <<>>
      /\ events' = Tail(events) /\ UNCHANGED <<source, journal, stream>>
  BY TailFacts DEF Hear, PageInv
<1>2. e.id \in Sessions /\ e.type \in {"done", "complete", "discarded"}
  BY <1>1 DEF Event, Sound, NoErrors
<1>3. tab' = CASE e.type = "done"      -> DoneSeen(tab, e.id)
               [] e.type = "complete"  -> CompleteSeen(tab, e.id)
               [] e.type = "discarded" -> DiscardedSeen(tab, e.id)
               [] e.type = "error"     -> ErrorSeen(tab, e.id)
  BY DEF Hear
<1>4. tab \in Tab /\ Shown(tab) /\ tab' \in Tab /\ Known
  BY HearKeeps DEF PageInv, Sane, Sound
<1> HIDE DEF e
<1>5. /\ Shown(tab') /\ tab'.dom = tab.dom /\ Forgets(tab, tab')
      /\ Behind(tab') => /\ Behind(tab) /\ tab'.current = tab.current
                         /\ e.type = "done" /\ e.id = tab.current => Due(tab')
  <2>1. CASE e.type = "done"
    <3>1. tab' = DoneSeen(tab, e.id)
      BY <1>3, <2>1
    <3> QED
      BY <1>4, <3>1, DoneSeenShown, EventsForget
  <2>2. CASE e.type = "complete"
    <3>1. tab' = CompleteSeen(tab, e.id)
      BY <1>3, <2>2
    <3> QED
      BY <1>4, <2>2, <3>1, CompleteSeenShown, EventsForget
  <2>3. CASE e.type = "discarded"
    <3>1. tab' = DiscardedSeen(tab, e.id)
      BY <1>3, <2>3
    <3> QED
      BY <1>4, <2>3, <3>1, DiscardedSeenShown, EventsForget
  <2> QED
    BY <1>2, <2>1, <2>2, <2>3
<1>6. Drawn(tab') /\ Noted(tab')
  BY <1>5, NotedForgets DEF Sound, Drawn
<1>7. Written' /\ Onward
  BY <1>1, WorldSame DEF Sound
<1>8. Behind(tab') /\ Comes(tab'.current) => Comes(tab.current)' \/ Due(tab')
  <2> SUFFICES ASSUME Behind(tab'), Told(tab'.current), ~Due(tab')
               PROVE  Told(tab.current)'
    BY <1>1 DEF Comes
  <2>1. PICK i \in 1..Len(events) : events[i].type = "done" /\ events[i].id = tab'.current
    BY DEF Told
  <2>2. i # 1
    BY <1>1, <1>5, <2>1
  <2>3. i - 1 \in 1..Len(events') /\ events'[i - 1] = events[i]
    BY <1>1, <2>2, TailFacts DEF PageInv
  <2> QED
    BY <2>1, <2>3 DEF Told
<1>9. Drawn(tab)' /\ Shown(tab)'
  BY <1>4, <1>5, <1>6, <1>7, <1>8, PageStep
<1>10. NoErrors'
  <2> SUFFICES ASSUME NEW i \in 1..Len(events')
               PROVE  events'[i].type # "error"
    BY DEF NoErrors
  <2>1. events'[i] = events[i + 1] /\ i + 1 \in 1..Len(events)
    BY <1>1, TailFacts DEF PageInv
  <2> QED
    BY <2>1 DEF Sound, NoErrors
<1>11. Posted'
  BY <1>1, HearKeeps DEF Sound, Posted, NoNewGenerate, Creation
<1> QED
  BY <1>1, <1>6, <1>7, <1>9, <1>10, <1>11 DEF Sound, Noted, Once, Grows, Restorable

LEMMA WokenDeferred ==
  ASSUME NEW w, NEW x \in Runtime(w), Sane(w), Known
  PROVE  Woken(w, x).deferred => w.deferred /\ x = NoSession /\ Woken(w, x) = w
<1> DEFINE v == [w EXCEPT !.deferred = FALSE]
           r == ScoutSees(w, x)
<1>1. x \in Sessions \cup {NoSession} /\ v \in Tab /\ v.deferred = FALSE
  BY RuntimeFacts DEF Sane, Tab
<1>2. r.deferred => w.deferred /\ x = NoSession /\ r = w
  <2>1. CASE ~w.deferred \/ x = NoSession
    <3>1. r = w
      BY <2>1 DEF ScoutSees
    <3> QED
      BY <2>1, <3>1
  <2>2. CASE w.deferred /\ x # NoSession
    <3>1. r = Resume(v, x)
      BY <2>2 DEF ScoutSees
    <3> HIDE DEF v, r
    <3>2. CanRestore(v, v.saved, FALSE) => Restore(v, v.saved, FALSE).deferred = FALSE
      <4>1. v.saved \in Saved
        BY <1>1 DEF Tab
      <4>2. CanRestore(v, v.saved, FALSE) => v.saved.id # NoSession
        BY DEF CanRestore
      <4> QED
        BY <1>1, <4>1, <4>2, RestoreFacts
    <3>3. v.dom[x] \in Wrapped => TakeUp(v, x).deferred = FALSE
      BY <1>1, <2>2, TakeUpFacts
    <3>4. [v EXCEPT !.saved = NoSaved].deferred = FALSE
      BY <1>1 DEF Tab
    <3> QED
      BY <1>1, <2>2, <3>1, <3>2, <3>3, <3>4 DEF Resume
  <2> QED
    BY <2>1, <2>2
<1>3. r \in Tab
  BY RuntimeInSessions, ScoutSeesKeeps DEF Kept, Sane
<1>4. VariantsArrive(r).deferred = r.deferred
  <2>1. CASE VariantsArrive(r) = r
    BY <2>1
  <2>2. CASE VariantsArrive(r) # r
    <3> DEFINE s == r.observer
               u == [r EXCEPT !.arrived = r.dom[s], !.state = "CYCLING"]
    <3> HIDE DEF r
    <3>1. VariantsArrive(r) = SaveSession(u) /\ s \in Sessions /\ r.dom[s] \in Wrapped
      BY <1>3, <2>2 DEF VariantsArrive, Tab
    <3>2. u \in Tab /\ u.deferred = r.deferred
      BY <1>3, <3>1, MarkupFacts DEF Tab, State
    <3> HIDE DEF u
    <3>3. SaveSession(u).deferred = u.deferred
      BY <3>2 DEF SaveSession, Tab
    <3> QED
      BY <3>1, <3>2, <3>3
  <2> QED
    BY <2>1, <2>2
<1>5. CASE w.deferred /\ x = NoSession
  <2>1. r = w
    BY <1>5 DEF ScoutSees
  <2>2. Wrappers(w) = {}
    BY <1>5, RuntimeFacts DEF Sane
  <2>3. VariantsArrive(w) = w
    BY <2>2 DEF VariantsArrive, Wrappers, Sane, Tab
  <2> QED
    BY <1>5, <2>1, <2>3 DEF Woken
<1>6. CASE ~(w.deferred /\ x = NoSession)
  BY <1>2, <1>4, <1>6 DEF Woken
<1> QED
  BY <1>5, <1>6

\* Whatever wakes the page: the scout takes up, the observer counts.
LEMMA WokenSound ==
  ASSUME PageInv, Grows, Sound, UNCHANGED <<source, journal, stream, events>>, NoNewGenerate,
         NEW w, NEW x \in Runtime(w), Sane(w), Drawn(w), Poised(w), tab' = Woken(w, x),
         \/ w.saved = tab.saved /\ w.deferred = tab.deferred
         \/ Wrappers(w) # {}
  PROVE  Sound'
<1>1. Shown(tab') /\ tab'.dom = w.dom
  BY WokenShown DEF PageInv
<1>2. tab' \in Tab
  BY RuntimeInSessions, WokenKeeps DEF PageInv, Kept, Sane
<1>3. Drawn(tab')
  BY <1>1 DEF Drawn
<1>4. Noted(tab')
  <2>1. tab'.deferred => x = NoSession /\ tab' = w
    BY WokenDeferred DEF PageInv
  <2>2. CASE tab'.deferred
    <3>1. tab' = w /\ Wrappers(w) = {}
      BY <2>1, <2>2, RuntimeFacts DEF Sane
    <3> QED
      BY <3>1 DEF Sound, Noted
  <2>3. CASE ~tab'.deferred
    BY <2>3 DEF Noted
  <2> QED
    BY <2>2, <2>3
<1> QED
  BY <1>1, <1>2, <1>3, <1>4, SoundSame

LEMMA HmrSound ==
  ASSUME PageInv, Grows, Sound, NEW s \in Sessions, Hmr(s)
  PROVE  Sound'
<1> DEFINE w == Render(tab, s, source[s])
<1>1. PICK x \in Runtime(w) : tab' = Woken(w, x)
  BY DEF Hmr
<1>2. Sane(w)
  BY RenderKeeps DEF PageInv, Kept
<1>3. /\ w.observer = tab.observer /\ w.current = tab.current /\ w.state = tab.state
      /\ w.arrived = tab.arrived /\ w.saved = tab.saved /\ w.handled = tab.handled
      /\ w.deferred = tab.deferred /\ w.timers = tab.timers /\ w.dom = [tab.dom EXCEPT ![s] = source[s]]
  BY DEF PageInv, Sane, Tab, Render
<1> HIDE DEF w
<1>4. Poised(w)
  BY <1>3 DEF Sound, Noted, Shown, Poised, Owned, Held, Sighted, Begun, Ripe, Reading, Reads
<1>5. Drawn(w)
  <2> SUFFICES ASSUME NEW r \in Sessions, Open(r), w.dom[r] # Clean
               PROVE  w.dom[r] \in Wrapped /\ source[r] \in Wrapped /\ w.dom[r] <= source[r]
    BY DEF Drawn
  <2>1. CASE r # s
    BY <1>3, <2>1 DEF Sound, Drawn, PageInv, Sane, Tab
  <2>2. CASE r = s
    <3>1. w.dom[r] = source[r]
      BY <1>3, <2>2 DEF PageInv, Sane, Tab
    <3>2. source[r] \in Wrapped
      BY <3>1, MarkupFacts DEF Sound, Written, Open
    <3> QED
      BY <3>1, <3>2, MarkupFacts
  <2> QED
    BY <2>1, <2>2
<1>6. NoNewGenerate /\ UNCHANGED <<source, journal, stream, events>>
  BY HmrKeeps DEF Hmr, surroundings
<1> QED
  BY <1>1, <1>2, <1>3, <1>4, <1>5, <1>6, WokenSound

\* A read that is used up was not what the page waits for, or stands for what it found.
LEMMA DropPoised ==
  ASSUME NEW w, NEW t \in w.timers, w \in Tab, Poised(w),
         t.kind = "fetch" /\ t.id = w.current => ~(Open(w.current) /\ w.arrived = Count)
  PROVE  LET v == Drop(w, t) IN
         /\ Poised(v) /\ v \in Tab /\ v.timers = w.timers \ {t} /\ v.dom = w.dom
         /\ v.current = w.current /\ v.state = w.state /\ v.arrived = w.arrived
         /\ v.answers = w.answers /\ v.saved = w.saved /\ v.deferred = w.deferred
<1> DEFINE v == Drop(w, t)
<1>1. /\ v \in Tab /\ v.observer = w.observer /\ v.current = w.current /\ v.state = w.state
      /\ v.arrived = w.arrived /\ v.saved = w.saved /\ v.handled = w.handled
      /\ v.deferred = w.deferred /\ v.timers = w.timers \ {t} /\ v.dom = w.dom
      /\ v.answers = w.answers
  BY DEF Drop, Tab
<1> HIDE DEF v
<1>2. Owned(v) /\ Begun(v)
  BY <1>1 DEF Poised, Owned, Held, Sighted, Begun, Wrappers
<1>3. Ripe(v)
  BY <1>1 DEF Poised, Ripe, Reading, Reads
<1> QED
  BY <1>1, <1>2, <1>3 DEF Poised, v

LEMMA FetchedSound ==
  ASSUME PageInv, Grows, Sound, Fetched
  PROVE  Sound'
<1> DEFINE in(t) == Complete(Render(Drop(tab, t), t.id, source[t.id]), t, source[t.id])
<1>1. PICK t \in tab.timers :
        /\ t.kind = "fetch"
        /\ IF source[t.id] \in Wrapped THEN \E x \in Runtime(in(t)) : tab' = Woken(in(t), x)
           ELSE tab' = WrapperMissing(Drop(tab, t), t)
        /\ journal' = IF GivesUp(t) /\ Acts(t.id) THEN [journal EXCEPT ![t.id] = "discarding"]
                      ELSE journal
  BY DEF Fetched
<1>2. UNCHANGED <<source, stream, events>> /\ NoNewGenerate /\ tab' \in Tab
  BY FetchedKeeps DEF Fetched, surroundings, PageInv, Sane
<1>3. Sane(tab) /\ Known /\ tab \in Tab /\ t.id \in Sessions /\ t \in Timer
  BY DEF PageInv, Sane, Tab, Timer
<1>4. CASE source[t.id] \in Wrapped
  <2> DEFINE w == Drop(tab, t)
             r == Render(w, t.id, source[t.id])
             c == Complete(r, t, source[t.id])
  <2>1. PICK x \in Runtime(c) : tab' = Woken(c, x)
    BY <1>1, <1>4
  <2>2. UNCHANGED journal
    BY <1>1, <1>4 DEF GivesUp
  <2>3. Poised(c) /\ c.dom = [tab.dom EXCEPT ![t.id] = source[t.id]]
    BY <1>1, <1>3, <1>4, CompletePoised DEF Sound, Shown
  <2>4. Sane(c)
    <3>1. Kept(tab, w)
      BY <1>3, DropKeeps
    <3> HIDE DEF w
    <3>2. Kept(w, r)
      BY <1>3, <3>1, RenderKeeps DEF Kept
    <3> HIDE DEF r
    <3>3. Kept(r, c)
      BY <1>3, <1>4, <3>2, CompleteKeeps DEF Kept
    <3> QED
      BY <3>3 DEF Kept
  <2> HIDE DEF c
  <2>5. c.dom[t.id] = source[t.id] /\ \A s \in Sessions \ {t.id} : c.dom[s] = tab.dom[s]
    BY <1>3, <2>3 DEF Tab
  <2>6. Drawn(c)
    BY <1>4, <2>5, MarkupFacts DEF Sound, Drawn
  <2>7. Wrappers(c) # {}
    BY <1>3, <1>4, <2>5 DEF Wrappers
  <2> QED
    BY <1>2, <2>1, <2>2, <2>3, <2>4, <2>6, <2>7, WokenSound
<1>5. CASE source[t.id] \notin Wrapped
  <2> DEFINE w == Drop(tab, t)
             again == [t EXCEPT !.kind = "orphan"]
  <2>1. tab' = WrapperMissing(w, t)
    BY <1>1, <1>5
  <2>2. Open(t.id) => source[t.id] = Clean
    BY <1>3, <1>5, MarkupFacts DEF Open, Sound, Written
  <2>3. t.id = tab.current /\ Open(t.id) => tab.arrived = 0 /\ ~Behind(tab)
    <3>1. t.id # NoSession
      BY <1>3, NoSessionOutside
    <3>2. t.id = tab.current /\ Open(t.id) => tab.dom[t.id] = Clean
      BY <1>3, <1>5 DEF Sound, Drawn
    <3> QED
      BY <2>2, <3>1, <3>2, MarkupFacts DEF Sound, Shown, Poised, Begun, Behind
  <2>4. /\ Poised(w) /\ w \in Tab /\ w.timers = tab.timers \ {t} /\ w.dom = tab.dom
        /\ w.current = tab.current /\ w.state = tab.state /\ w.arrived = tab.arrived
        /\ w.answers = tab.answers /\ w.saved = tab.saved /\ w.deferred = tab.deferred
    BY <1>3, <2>3, CountFacts, DropPoised DEF Sound, Shown
  <2> HIDE DEF w
  <2>5. Shown(w)
    <3> SUFFICES ASSUME Behind(w)
                 PROVE  Catches(w)
      BY <2>4 DEF Shown
    <3>1. Behind(tab) /\ t.id # tab.current
      BY <2>3, <2>4 DEF Behind
    <3> QED
      BY <2>4, <3>1 DEF Sound, Shown, Catches, Due
  <2>6. again.kind = "orphan"
    BY <1>3 DEF Timer
  <2> HIDE DEF again
  <2>7. tab' \in {w, Set(w, again), Cleanup(MarkHandled(w))}
    BY <2>1 DEF WrapperMissing, again
  <2>8. Shown(tab') /\ tab'.dom = tab.dom /\ Forgets(tab, tab')
    <3>1. Set(w, again).saved = w.saved /\ Set(w, again).deferred = w.deferred
      BY <2>4 DEF Set, Tab
    <3>2. Cleanup(MarkHandled(w)).saved = NoSaved
      BY <2>4 DEF Cleanup, MarkHandled, Tab
    <3>3. Shown(Set(w, again)) /\ Set(w, again).dom = w.dom
      BY <2>4, <2>5, <2>6, SetShown
    <3>4. Shown(Cleanup(MarkHandled(w))) /\ Cleanup(MarkHandled(w)).dom = w.dom
      BY <2>4, GivenUpShown
    <3> QED
      BY <2>4, <2>5, <2>7, <3>1, <3>2, <3>3, <3>4 DEF Forgets
  <2>9. Drawn(tab') /\ Noted(tab')
    BY <2>8, NotedForgets DEF Sound, Drawn
  <2>10. UNCHANGED journal \/ (journal' = [journal EXCEPT ![t.id] = "discarding"] /\ Acts(t.id))
    <3>1. CASE GivesUp(t) /\ Acts(t.id)
      BY <1>1, <3>1
    <3>2. CASE ~(GivesUp(t) /\ Acts(t.id))
      BY <1>1, <3>2
    <3> QED
      BY <3>1, <3>2
  <2>11. Written' /\ Onward
    BY <1>2, <1>3, <2>10, WorldSame, WorldTurns DEF Sound
  <2>12. Behind(tab') /\ Comes(tab'.current) => Comes(tab.current)' \/ Due(tab')
    <3>1. Behind(tab') => tab'.current # t.id /\ tab'.current \in Sessions
      BY <1>2, <1>5, <2>9, MarkupFacts DEF Behind, Drawn, Tab
    <3>2. Behind(tab') => journal'[tab'.current] = journal[tab'.current]
      BY <1>3, <2>10, <3>1 DEF Known
    <3> QED
      BY <1>2, <3>2 DEF Comes, Told
  <2>13. Drawn(tab)' /\ Shown(tab)'
    BY <1>2, <1>3, <2>8, <2>9, <2>11, <2>12, PageStep
  <2>14. Posted'
    <3> SUFFICES ASSUME NEW p \in tab'.posts, p.type \in Creation
                 PROVE  ~p.stray /\ journal'[p.id] = "none"
      BY DEF Posted
    <3>1. p \in tab.posts
      BY <1>2 DEF NoNewGenerate, Creation
    <3>2. ~p.stray /\ journal[p.id] = "none" /\ p.id \in Sessions
      BY <1>3, <3>1 DEF Sound, Posted, Tab, Post
    <3> QED
      BY <1>3, <2>10, <3>2 DEF Acts, Known
  <2> QED
    BY <1>2, <2>9, <2>11, <2>13, <2>14 DEF Sound, NoErrors, Noted, Once, Grows, Restorable
<1> QED
  BY <1>4, <1>5

\* A delayed read that is due is made, and only what nothing waits for is not.
LEMMA ReadAgainSound ==
  ASSUME PageInv, Grows, Sound, ReadAgain
  PROVE  Sound'
<1> DEFINE to(t, completed, orphan, n) ==
             tab' = Set(Drop(tab, t), Read("fetch", t.id, completed, orphan, n))
<1>1. UNCHANGED <<source, journal, stream, events>> /\ NoNewGenerate /\ tab' \in Tab
  BY ReadsKeep DEF ReadAgain, world, surroundings, PageInv, Sane
<1>2. PICK t \in tab.timers :
        /\ t.kind # "fetch"
        /\ \/ /\ tab' = Drop(tab, t)
              /\ ~(/\ t.kind = "completed" /\ Drop(tab, t).state = "GENERATING"
                   /\ Drop(tab, t).current = t.id /\ Drop(tab, t).arrived < Count)
           \/ /\ Drop(tab, t).current = t.id
              /\ to(t, TRUE, FALSE, 0) \/ to(t, t.completed, t.orphan, t.tries + 1)
                 \/ to(t, t.completed, TRUE, t.tries + 1)
  BY DEF ReadAgain, Fetch
<1> DEFINE w == Drop(tab, t)
<1>3. /\ Poised(w) /\ w \in Tab /\ w.timers = tab.timers \ {t} /\ w.dom = tab.dom
      /\ w.current = tab.current /\ w.state = tab.state /\ w.arrived = tab.arrived
      /\ w.answers = tab.answers /\ w.saved = tab.saved /\ w.deferred = tab.deferred
  BY <1>2, DropPoised DEF Sound, Shown, PageInv, Sane
<1> HIDE DEF w
<1>4. CASE /\ tab' = w
           /\ ~(/\ t.kind = "completed" /\ w.state = "GENERATING" /\ w.current = t.id /\ w.arrived < Count)
  <2>1. Behind(w) => Behind(tab) /\ w.state = "GENERATING" /\ w.arrived < Count
    <3>1. w.arrived \in 0..Count
      BY <1>3 DEF Tab
    <3> QED
      BY <1>3, <3>1, CountFacts DEF Sound, Shown, Behind, Catches
  <2>2. Behind(w) /\ Due(tab) => Due(w)
    BY <1>2, <1>3, <1>4, <2>1 DEF Due
  <2>3. Shown(w)
    BY <1>3, <2>1, <2>2 DEF Sound, Shown, Catches
  <2>4. Drawn(w) /\ Noted(w)
    BY <1>3 DEF Sound, Drawn, Noted
  <2> QED
    BY <1>1, <1>4, <2>3, <2>4, SoundSame
<1>5. CASE w.current = t.id /\ \E completed, orphan, n : to(t, completed, orphan, n)
  <2>1. PICK completed, orphan, n : to(t, completed, orphan, n)
    BY <1>5
  <2> DEFINE u == Read("fetch", t.id, completed, orphan, n)
  <2>2. u.kind = "fetch" /\ u.id = w.current
    BY <1>5 DEF Read
  <2>3. tab' = Set(w, u)
    BY <2>1 DEF w
  <2> HIDE DEF to, u
  <2>4. /\ Poised(tab') /\ tab'.dom = w.dom /\ tab'.current = w.current
        /\ tab'.timers = w.timers \cup {u}
    BY <1>3, <2>2, <2>3, SetShown
  <2>5. /\ tab'.state = w.state /\ tab'.arrived = w.arrived /\ tab'.answers = w.answers
        /\ tab'.saved = w.saved /\ tab'.deferred = w.deferred
    BY <1>3, <2>3 DEF Set, Tab
  <2>6. Due(tab')
    BY <2>2, <2>4 DEF Due
  <2>7. Shown(tab')
    BY <1>3, <2>4, <2>5, <2>6 DEF Sound, Shown, Behind, Catches
  <2>8. Drawn(tab') /\ Noted(tab')
    BY <1>3, <2>4, <2>5 DEF Sound, Drawn, Noted
  <2> QED
    BY <1>1, <2>7, <2>8, SoundSame
<1> HIDE DEF to
<1> QED
  BY <1>2, <1>4, <1>5 DEF w

\* Connecting again restores only where the page shows no wrapper at all.
LEMMA ConnectSound ==
  ASSUME PageInv, Grows, Sound, Connect
  PROVE  Sound'
<1> DEFINE chosen(rec) == IF Wrappers(tab) = {} /\ CanRestore(tab, rec, TRUE)
                          THEN Restore(tab, rec, TRUE) ELSE tab
<1>1. PICK rec \in Records(tab, TRUE) :
        tab' = [MissedCompletion(chosen(rec)) EXCEPT !.state = IF @ = "IDLE" THEN "PICKING" ELSE @]
  BY DEF Connect
<1>2. UNCHANGED <<source, journal, events>> /\ stream = "closed" /\ stream' = "open" /\ tab' \in Tab
  BY ConnectKeeps DEF Connect, PageInv, Sane
<1>3. rec = tab.saved \/ rec = NoSaved \/ (rec.file /\ rec.id \in Sessions /\ source[rec.id] # Clean)
  <2>1. CASE \E s \in Adoptable(tab), n \in {0, Count} :
               rec = [id |-> s, state |-> "GENERATING", arrived |-> n, file |-> TRUE]
    BY <2>1 DEF Adoptable
  <2> QED
    BY <2>1 DEF Records
<1>4. rec \in Saved
  <2>1. CASE \E s \in Adoptable(tab), n \in {0, Count} :
               rec = [id |-> s, state |-> "GENERATING", arrived |-> n, file |-> TRUE]
    BY <2>1, BoundsAssumption DEF Adoptable, Saved, State
  <2> QED
    BY <2>1, NoSavedFacts DEF Records, PageInv, Sane, Tab
<1>5. tab \in Tab /\ Known /\ Poised(tab) /\ Shown(tab) /\ Drawn(tab) /\ Noted(tab) /\ Sane(tab)
  BY DEF PageInv, Sane, Sound, Shown
<1> DEFINE w == chosen(rec)
           m == MissedCompletion(w)
<1>6. /\ Shown(w) /\ w.dom = tab.dom /\ w.answers = tab.answers /\ Noted(w) /\ Sane(w) /\ w \in Tab
      /\ \A p \in w.posts : p \in tab.posts \/ p.type = "checkpoint"
  <2>1. CASE Wrappers(tab) = {} /\ CanRestore(tab, rec, TRUE)
    <3> DEFINE file == rec.file \/ (TRUE /\ rec.id \in Listed /\ source[rec.id] # Clean)
    <3>1. rec.id # NoSession /\ rec.id \in Sessions /\ rec.id \notin Ids(tab.handled) /\ Restorable(rec)
      BY <1>4, <2>1 DEF CanRestore, Restorable, Saved
    <3>2. tab.dom[rec.id] \notin Wrapped
      BY <2>1, <3>1 DEF Wrappers
    <3>3. rec = tab.saved => rec.id = tab.current
      BY <1>5, <3>1 DEF Poised, Owned, Held, Sighted
    <3>4. Open(rec.id) /\ source[rec.id] = Clean =>
            rec.arrived = 0 /\ \A t \in tab.timers : t.kind = "fetch" => t.id = rec.id
      BY <1>3, <1>5, <3>1, <3>3, NoSavedFacts DEF Poised, Begun
    <3>5. Once => (tab.deferred /\ rec.arrived > 0 => file)
      BY <1>3, <1>5, <3>1, NoSavedFacts DEF Noted
    <3>6. Open(rec.id) /\ rec.arrived = Count => file
      <4>1. Open(rec.id) /\ rec.arrived = Count => source[rec.id] # Clean
        BY <3>4, CountFacts
      <4>2. Open(rec.id) /\ source[rec.id] # Clean => rec.id \in Listed
        BY <1>5, <3>1 DEF Open, Listed, Sound, Written
      <4> QED
        BY <4>1, <4>2
    <3>7. Poised(Restore(tab, rec, TRUE))
      <4>1. /\ Held(Restore(tab, rec, TRUE)) /\ Begun(Restore(tab, rec, TRUE))
            /\ Reading(Restore(tab, rec, TRUE))
            /\ (tab.deferred /\ rec.arrived > 0 => file) => Sighted(Restore(tab, rec, TRUE))
        BY <1>4, <1>5, <3>1, <3>4, <3>6, RestorePoised
      <4> HIDE DEF file
      <4> QED
        BY <3>5, <4>1 DEF Poised, Owned, Ripe
    <3>8. Shown(Restore(tab, rec, TRUE))
      BY <1>4, <1>5, <3>1, <3>2, <3>7, RestoreShown
    <3>9. LET v == Restore(tab, rec, TRUE) IN
          /\ v.dom = tab.dom /\ v.answers = tab.answers /\ v.deferred = tab.deferred
          /\ v.saved.file = file /\ v.saved.arrived = rec.arrived
      BY <1>4, <1>5, <3>1, RestoreFacts
    <3>10. Kept(tab, Restore(tab, rec, TRUE))
      <4>1. rec.id <= started
        <5>1. rec = tab.saved => rec.id <= started
          BY <1>5 DEF Sane
        <5>2. rec.id > started => source[rec.id] = Clean
          BY <1>5, <3>1 DEF Known
        <5>3. started \in Nat
          BY <1>5, BoundsAssumption DEF Known
        <5>4. rec.id \in Nat
          BY <3>1, NoSessionOutside
        <5> QED
          BY <1>3, <3>1, <5>1, <5>2, <5>3, <5>4, NoSavedFacts
      <4> QED
        BY <1>4, <1>5, <2>1, <4>1, RestoreKeeps DEF CanRestore
    <3>11. Noted(Restore(tab, rec, TRUE))
      BY <3>5, <3>9 DEF Noted
    <3>12. w = Restore(tab, rec, TRUE)
      BY <2>1
    <3> HIDE DEF file, w
    <3> QED
      BY <3>8, <3>9, <3>10, <3>11, <3>12 DEF Kept, Shift, Sane
  <2>2. CASE ~(Wrappers(tab) = {} /\ CanRestore(tab, rec, TRUE))
    <3>1. w = tab
      BY <2>2
    <3> QED
      BY <1>5, <3>1
  <2> QED
    BY <2>1, <2>2
<1>7. tab' = [m EXCEPT !.state = IF @ = "IDLE" THEN "PICKING" ELSE @]
  BY <1>1
<1> HIDE DEF w
<1>8. /\ Shown(m) /\ m.dom = tab.dom /\ m.current = w.current
      /\ Behind(m) /\ journal[m.current] = "ready" => Due(m)
  <2>1. /\ Shown(m) /\ m.dom = w.dom /\ m.current = w.current /\ m.arrived = w.arrived
        /\ Behind(w) /\ journal[w.current] = "ready" => Due(m)
    BY <1>6, MissedCompletionShown
  <2> HIDE DEF m
  <2>2. Behind(m) => Behind(w)
    BY <2>1 DEF Behind
  <2> QED
    BY <1>6, <2>1, <2>2
<1>9. m \in Tab /\ m.saved = w.saved /\ m.deferred = w.deferred /\ m.posts = w.posts
  <2>1. m = w \/ m = Set([w EXCEPT !.file = TRUE], Read("completed", w.current, TRUE, FALSE, 0))
    BY DEF MissedCompletion
  <2>2. m.saved = w.saved /\ m.deferred = w.deferred /\ m.posts = w.posts
    BY <1>6, <2>1 DEF Set, Tab
  <2>3. m \in Tab
    BY <1>6, MissedCompletionKeeps DEF Kept, Sane
  <2> QED
    BY <2>2, <2>3
<1> HIDE DEF m
<1>10. /\ tab'.observer = m.observer /\ tab'.current = m.current /\ tab'.timers = m.timers
       /\ tab'.dom = m.dom /\ tab'.handled = m.handled /\ tab'.answers = m.answers
       /\ tab'.saved = m.saved /\ tab'.posts = m.posts /\ tab'.arrived = m.arrived
       /\ tab'.deferred = m.deferred
       /\ m.state # "IDLE" => tab'.state = m.state
  BY <1>7, <1>9 DEF Tab
<1>11. m.current # NoSession => tab'.state = m.state
  BY <1>8, <1>10 DEF Shown, Poised, Owned, Held, Sighted
<1>12. Shown(tab')
  <2>1. Poised(tab')
    BY <1>8, <1>10, <1>11 DEF Shown, Poised, Owned, Held, Sighted, Begun, Ripe, Reading, Reads, Wrappers
  <2>2. Behind(tab') => Behind(m)
    BY <1>10 DEF Behind
  <2>3. Behind(tab') => Catches(tab')
    BY <1>8, <1>10, <1>11, <2>2 DEF Shown, Behind, Catches, Due
  <2> QED
    BY <2>1, <2>3 DEF Shown
<1>13. Drawn(tab') /\ Noted(tab')
  BY <1>5, <1>6, <1>8, <1>9, <1>10 DEF Drawn, Noted
<1>14. Written' /\ Onward
  BY <1>2, WorldSame DEF Sound
<1>15. Behind(tab') /\ Comes(tab'.current) => Comes(tab.current)' \/ Due(tab')
  <2> SUFFICES ASSUME Behind(tab'), ~Due(tab')
               PROVE  journal'[tab'.current] = "generating"
    BY DEF Comes
  <2>1. Behind(m) /\ ~Due(m)
    BY <1>10 DEF Behind, Due
  <2>2. journal[m.current] # "ready"
    BY <1>8, <2>1
  <2>3. m.current \in Sessions /\ Open(m.current) /\ m.dom[m.current] # Clean
    BY <1>9, <2>1, MarkupFacts DEF Behind, Tab
  <2>4. source[m.current] \in Wrapped
    BY <1>5, <1>8, <2>3 DEF Drawn
  <2>5. journal[m.current] # "none"
    BY <2>3, <2>4, MarkupFacts DEF Sound, Written
  <2> QED
    BY <1>2, <1>10, <2>2, <2>3, <2>5 DEF Open
<1>16. Drawn(tab)' /\ Shown(tab)'
  BY <1>2, <1>5, <1>12, <1>13, <1>14, <1>15, PageStep
<1>17. Posted' /\ NoErrors' /\ Noted(tab)'
  BY <1>2, <1>6, <1>9, <1>10, <1>13 DEF Sound, Posted, Creation, NoErrors, Noted, Once, Grows, Restorable
<1> QED
  BY <1>2, <1>14, <1>16, <1>17 DEF Sound

\* What the helper and the agent do only adds to what comes.
LEMMA HelperTakesSound ==
  ASSUME PageInv, Grows, Sound, HelperTakes
  PROVE  Sound'
<1> DEFINE refused(p) == [type |-> "checkpoint", id |-> p.id, ok |-> FALSE]
           less(p)    == [tab EXCEPT !.posts = @ \ {p}]
<1>1. PICK p \in tab.posts :
        /\ p.type \in {"generate", "checkpoint"}
        /\ IF p.type = "generate"
           THEN journal' = [journal EXCEPT ![p.id] = "generating"] /\ tab' = less(p)
           ELSE /\ UNCHANGED journal
                /\ tab' = IF journal[p.id] # "none" THEN less(p)
                          ELSE [less(p) EXCEPT !.answers = @ \cup {refused(p)}]
  BY DEF HelperTakes
<1>2. UNCHANGED <<source, stream, events>> /\ tab' \in Tab
  BY HelperTakesKeeps DEF HelperTakes, surroundings, PageInv, Sane
<1>3. tab \in Tab /\ Known /\ p \in Post
  BY DEF PageInv, Sane, Tab
<1>4. refused(p).type = "checkpoint"
  OBVIOUS
<1>5. /\ Alike(tab, tab') /\ tab'.posts = tab.posts \ {p}
      /\ \A a \in tab'.answers : a \in tab.answers \/ a.type = "checkpoint"
  <2> HIDE DEF refused
  <2>1. CASE tab' = less(p)
    BY <1>3, <2>1 DEF Alike, Tab
  <2>2. CASE tab' = [less(p) EXCEPT !.answers = @ \cup {refused(p)}]
    BY <1>3, <1>4, <2>2 DEF Alike, Tab
  <2> QED
    BY <1>1, <2>1, <2>2
<1>6. Shown(tab')
  BY <1>5, ShownAlike DEF Sound
<1>7. Drawn(tab') /\ Noted(tab')
  BY <1>5 DEF Alike, Sound, Drawn, Noted
<1>8. \/ UNCHANGED journal /\ p.type # "generate"
      \/ /\ p.type = "generate" /\ journal[p.id] = "none" /\ ~p.stray /\ p.id \in Sessions
         /\ journal' = [journal EXCEPT ![p.id] = "generating"]
  BY <1>1, <1>3 DEF Sound, Posted, Creation, Post
<1>9. Written' /\ Onward
  BY <1>2, <1>3, <1>8, WorldSame, WorldTurns DEF Sound
<1>10. \A s \in Sessions : journal'[s] = journal[s] \/ journal'[s] = "generating"
  BY <1>3, <1>8 DEF Known
<1>11. Behind(tab') /\ Comes(tab'.current) => Comes(tab.current)' \/ Due(tab')
  <2>1. Behind(tab') => tab'.current \in Sessions
    BY <1>2 DEF Behind, Tab
  <2> QED
    BY <1>2, <1>10, <2>1 DEF Comes, Told
<1>12. Drawn(tab)' /\ Shown(tab)'
  BY <1>2, <1>3, <1>6, <1>7, <1>9, <1>11, PageStep
<1>13. Posted'
  <2> SUFFICES ASSUME NEW q \in tab.posts, q # p, q.type \in Creation
               PROVE  ~q.stray /\ journal'[q.id] = "none"
    BY <1>5 DEF Posted
  <2>1. ~q.stray /\ journal[q.id] = "none" /\ q \in Post
    BY <1>3 DEF Sound, Posted, Tab
  <2>2. p.type = "generate" => q.id # p.id
    <3>1. p.type = "generate" /\ q.type = "generate" => q.id # p.id
      BY <1>3, <1>8, <2>1 DEF Post
    <3>2. p.type = "generate" /\ q.type = "upload" => q.id # p.id
      BY DEF PageInv, Ordered, Single
    <3> QED
      BY <3>1, <3>2 DEF Creation
  <2> QED
    BY <1>3, <1>8, <2>1, <2>2 DEF Known, Post
<1> QED
  BY <1>2, <1>7, <1>9, <1>12, <1>13 DEF Sound, NoErrors, Noted, Once, Grows, Restorable

LEMMA UploadedSound ==
  ASSUME PageInv, Grows, Sound, Uploaded
  PROVE  Sound'
<1>1. PICK p \in tab.posts :
        /\ p.type = "upload"
        /\ tab' = [tab EXCEPT !.posts = (@ \ {p}) \cup {[p EXCEPT !.type = "generate"]}]
  BY DEF Uploaded
<1> DEFINE g == [p EXCEPT !.type = "generate"]
<1>2. g.id = p.id /\ g.stray = p.stray
  BY DEF PageInv, Sane, Tab, Post
<1>3. UNCHANGED <<source, journal, stream, events>> /\ tab' \in Tab
  BY UploadedKeeps DEF Uploaded, world, surroundings, PageInv, Sane
<1> HIDE DEF g
<1>4. Alike(tab, tab') /\ tab'.posts = (tab.posts \ {p}) \cup {g} /\ tab'.answers = tab.answers
  BY <1>1 DEF PageInv, Sane, Tab, Alike, g
<1>5. Shown(tab')
  BY <1>4, ShownAlike DEF Sound
<1>6. Drawn(tab') /\ Noted(tab')
  BY <1>4 DEF Alike, Sound, Drawn, Noted
<1>7. Written' /\ Onward
  BY <1>3, WorldSame DEF Sound
<1>8. Drawn(tab)' /\ Shown(tab)'
  BY <1>3, <1>5, <1>6, <1>7, PageStep DEF PageInv, Comes, Told
<1>9. Posted'
  BY <1>1, <1>2, <1>3, <1>4 DEF Sound, Posted, Creation
<1> QED
  BY <1>3, <1>6, <1>7, <1>8, <1>9 DEF Sound, NoErrors, Noted, Once, Grows, Restorable

LEMMA ReportSound ==
  ASSUME PageInv, Grows, Sound, Report
  PROVE  Sound'
<1> DEFINE w == [tab EXCEPT !.queued = FALSE]
           c == [type |-> "checkpoint", id |-> tab.current, stray |-> ~Gate]
<1>1. tab' = w \/ tab' = [w EXCEPT !.posts = @ \cup {c}]
  BY DEF Report
<1>2. UNCHANGED <<source, journal, stream, events>> /\ NoNewGenerate /\ tab' \in Tab
  BY ReportKeeps DEF Report, surroundings, PageInv, Sane
<1> HIDE DEF c
<1>3. Alike(tab, tab') /\ tab'.answers = tab.answers
  BY <1>1 DEF PageInv, Sane, Tab, Alike
<1>4. Shown(tab')
  BY <1>3, ShownAlike DEF Sound
<1>5. Drawn(tab') /\ Noted(tab')
  BY <1>3 DEF Alike, Sound, Drawn, Noted
<1> QED
  BY <1>2, <1>4, <1>5, SoundSame

LEMMA TellFacts ==
  ASSUME Rest, NEW type \in {"done", "complete", "discarded"}, NEW s \in Sessions, Tell(type, s)
  PROVE  /\ \A i \in 1..Len(events) : i \in 1..Len(events') /\ events'[i] = events[i]
         /\ \A i \in 1..Len(events') :
              \/ i \in 1..Len(events) /\ events'[i] = events[i]
              \/ events'[i].type = type /\ events'[i].id = s
         /\ stream = "open" =>
              \E i \in 1..Len(events') : events'[i].type = type /\ events'[i].id = s
<1> DEFINE e == [type |-> type, id |-> s]
<1>1. events \in Seq(Event) /\ Len(events) \in Nat
  BY DEF Rest
<1>2. e.type = type /\ e.id = s /\ e \in Event
  BY DEF Event
<1>3. IF stream = "open" THEN events' = Append(events, e) ELSE events' = events
  BY DEF Tell
<1> HIDE DEF e
<1>4. CASE stream = "open"
  <2>1. Len(events') = Len(events) + 1 /\ events'[Len(events) + 1] = e
    BY <1>1, <1>2, <1>3, <1>4
  <2>2. \A i \in 1..Len(events) : events'[i] = events[i]
    BY <1>1, <1>2, <1>3, <1>4
  <2>3. /\ Len(events) + 1 \in 1..Len(events')
        /\ \A i \in 1..Len(events) : i \in 1..Len(events')
        /\ \A i \in 1..Len(events') : i \in 1..Len(events) \/ i = Len(events) + 1
    BY <1>1, <2>1
  <2> QED
    BY <1>2, <2>1, <2>2, <2>3
<1>5. CASE stream # "open"
  BY <1>3, <1>5
<1> QED
  BY <1>4, <1>5

\* A done that goes to nobody leaves the stream closed.
LEMMA AgentSound ==
  ASSUME PageInv, Grows, Sound, NEW s \in Sessions, Agent(s)
  PROVE  Sound'
<1>1. Alike(tab, tab') /\ tab'.answers = tab.answers /\ tab'.posts = tab.posts
  <2>1. CASE UNCHANGED tab
    BY <2>1 DEF Alike
  <2>2. CASE tab' = [tab EXCEPT !.file = @ \/ (stream = "open" /\ tab.current = s)]
    BY <2>2 DEF PageInv, Sane, Tab, Alike
  <2> QED
    BY <2>1, <2>2 DEF Agent, AgentWrites, AgentDone, AgentPromotes, AgentDiscards
<1>2. tab' \in Tab /\ UNCHANGED stream /\ Known
  BY AgentKeeps DEF PageInv, Sane, Agent, AgentWrites, AgentDone, AgentPromotes, AgentDiscards
<1>3. Shown(tab')
  BY <1>1, ShownAlike DEF Sound
<1>4. Drawn(tab') /\ Noted(tab')
  BY <1>1 DEF Alike, Sound, Drawn, Noted
<1>5. Written' /\ Onward
  BY <1>2, WorldWorks DEF Sound
<1>6. \/ UNCHANGED events
      \/ \E type \in {"done", "complete", "discarded"} : Tell(type, s)
  BY DEF Agent, AgentWrites, AgentDone, AgentPromotes, AgentDiscards
<1>7. /\ \A i \in 1..Len(events) : i \in 1..Len(events') /\ events'[i] = events[i]
      /\ \A i \in 1..Len(events') :
           \/ i \in 1..Len(events) /\ events'[i] = events[i]
           \/ events'[i].type \in {"done", "complete", "discarded"}
  <2>1. CASE UNCHANGED events
    BY <2>1
  <2>2. CASE \E type \in {"done", "complete", "discarded"} : Tell(type, s)
    BY <2>2, TellFacts DEF PageInv
  <2> QED
    BY <1>6, <2>1, <2>2
<1>8. NoErrors'
  BY <1>7 DEF Sound, NoErrors
<1>9. \A r \in Sessions \ {s} : journal'[r] = journal[r]
  BY <1>2 DEF Known, Agent, AgentWrites, AgentDone, AgentPromotes, AgentDiscards
<1>10. journal[s] # "none"
  BY DEF Agent, AgentWrites, AgentDone, AgentPromotes, AgentDiscards
<1>11. journal[s] = "generating" => journal'[s] = "generating" \/ (AgentDone(s) /\ Tell("done", s))
  BY DEF Agent, AgentWrites, AgentDone, AgentPromotes, AgentDiscards
<1>12. Behind(tab') /\ Comes(tab'.current) => Comes(tab.current)' \/ Due(tab')
  <2> SUFFICES ASSUME Behind(tab'), Comes(tab'.current), stream # "closed"
               PROVE  journal'[tab'.current] = "generating" \/ Told(tab.current)'
    BY <1>2 DEF Comes
  <2>1. tab'.current \in Sessions /\ stream = "open"
    BY <1>2 DEF Behind, Tab, Sound, PageInv, Rest
  <2>2. Told(tab'.current) => Told(tab.current)'
    BY <1>7 DEF Told
  <2>3. CASE tab'.current = s /\ AgentDone(s) /\ Tell("done", s)
    <3>1. \E i \in 1..Len(events') : events'[i].type = "done" /\ events'[i].id = s
      BY <2>1, <2>3, TellFacts DEF PageInv
    <3> QED
      BY <2>3, <3>1 DEF Told
  <2> QED
    BY <1>9, <1>11, <2>1, <2>2, <2>3 DEF Comes
<1>13. Drawn(tab)' /\ Shown(tab)'
  BY <1>2, <1>3, <1>4, <1>5, <1>12, PageStep
<1>14. Posted'
  <2> SUFFICES ASSUME NEW p \in tab.posts, p.type \in Creation
               PROVE  ~p.stray /\ journal'[p.id] = "none"
    BY <1>1 DEF Posted
  <2>1. ~p.stray /\ journal[p.id] = "none" /\ p.id \in Sessions
    BY DEF Sound, Posted, PageInv, Sane, Tab, Post
  <2> QED
    BY <1>9, <1>10, <2>1
<1> QED
  BY <1>2, <1>4, <1>5, <1>8, <1>13, <1>14 DEF Sound, Noted, Once, Grows, Restorable

\* After a load a page takes up the wrapper it shows, or what it had saved; one that
\* knows the file of what it saved reads it.
LEMMA ResumePoised ==
  ASSUME NEW w, NEW x \in Runtime(w), w \in Tab, Drawn(w),
         w.current = NoSession, w.observer = NoSession, w.timers = {}, ~w.deferred,
         /\ Restorable(w.saved) /\ w.saved.id \notin Ids(w.handled)
         /\ Open(w.saved.id) /\ source[w.saved.id] = Clean
         => w.saved.arrived = 0
  PROVE  LET r == Resume(w, x) IN
         /\ Held(r) /\ Begun(r) /\ r.dom = w.dom
         /\ Behind(r) => r.state = "GENERATING"
         /\ (w.saved.arrived > 0 => w.saved.file) =>
              /\ Reading(r)
              /\ r.current = NoSession \/ x = NoSession =>
                   (Restorable(r.saved) /\ r.saved.arrived > 0 => r.saved.file)
<1> DEFINE r == Resume(w, x)
           u == [w EXCEPT !.saved = NoSaved]
           back == Restore(w, w.saved, FALSE)
<1>1. w.saved \in Saved /\ x \in Sessions \cup {NoSession}
  BY RuntimeFacts DEF Tab
<1>2. w.saved.arrived \in 0..Count /\ Count > 0 /\ Count \in Nat
  BY <1>1, CountFacts DEF Saved
<1>3. CASE r = w /\ (Restorable(w.saved) => w.saved.id \in Ids(w.handled))
  <2>1. Held(w) /\ Begun(w) /\ Reading(w) /\ ~Behind(w)
    BY <1>3 DEF Held, Begun, Reading, Behind
  <2> HIDE DEF r
  <2> QED
    BY <1>3, <2>1 DEF r
<1>4. CASE r = u
  <2>1. u.current = NoSession /\ u.observer = NoSession /\ u.saved = NoSaved /\ u.dom = w.dom
    BY DEF Tab
  <2>2. ~Restorable(u.saved) /\ ~Behind(u)
    BY <2>1, NoSavedFacts DEF Restorable, Behind
  <2> HIDE DEF u
  <2>3. Held(u) /\ Begun(u) /\ Reading(u)
    BY <2>1, <2>2 DEF Held, Begun, Reading
  <2> HIDE DEF r
  <2> QED
    BY <1>4, <2>1, <2>2, <2>3 DEF r
<1>5. CASE r = TakeUp(w, x) /\ x # NoSession /\ w.dom[x] \in Wrapped
  <2>1. Shown(TakeUp(w, x)) /\ Reading(TakeUp(w, x))
    BY <1>1, <1>5, TakeUpShown
  <2>2. /\ TakeUp(w, x).current = x /\ TakeUp(w, x).arrived = w.dom[x] /\ TakeUp(w, x).dom = w.dom
    BY <1>1, <1>5, TakeUpFacts
  <2>3. ~Behind(TakeUp(w, x))
    BY <1>5, <2>2, MarkupFacts DEF Behind
  <2> HIDE DEF r
  <2> QED
    BY <1>5, <2>1, <2>2, <2>3 DEF Shown, Poised, Owned, r
<1>6. CASE r = back /\ CanRestore(w, w.saved, FALSE)
  <2>1. w.saved.id # NoSession /\ Restorable(w.saved) /\ w.saved.id \notin Ids(w.handled)
    BY <1>6 DEF CanRestore, Restorable
  <2>2. /\ Held(back) /\ Begun(back)
        /\ (Open(w.saved.id) /\ w.saved.arrived = Count => w.saved.file) => Reading(back)
    BY <1>1, <1>2, <2>1, RestorePoised
  <2>3. /\ back.dom = w.dom /\ back.state = "GENERATING" /\ back.saved.arrived = w.saved.arrived
        /\ w.saved.file => back.saved.file
    <3>1. /\ back.dom = w.dom /\ back.state = "GENERATING" /\ back.saved.arrived = w.saved.arrived
          /\ back.saved.file =
               (w.saved.file \/ (FALSE /\ w.saved.id \in Listed /\ source[w.saved.id] # Clean))
      <4> DEFINE file == w.saved.file \/ (FALSE /\ w.saved.id \in Listed /\ source[w.saved.id] # Clean)
      <4>1. FALSE \in BOOLEAN /\ w.saved \in Saved /\ w.saved.id # NoSession
        BY <1>1, <2>1
      <4>2. /\ back.dom = w.dom /\ back.state = "GENERATING" /\ back.saved.arrived = w.saved.arrived
            /\ back.saved.file = file
        BY ONLY <4>1, w \in Tab, RestoreFacts
      <4> QED
        BY <4>2
    <3> HIDE DEF back
    <3> QED
      BY <3>1
  <2> HIDE DEF r, back
  <2> QED
    BY <1>2, <1>6, <2>2, <2>3 DEF r
<1>7. \/ r = w /\ (Restorable(w.saved) => w.saved.id \in Ids(w.handled))
      \/ r = back /\ CanRestore(w, w.saved, FALSE)
      \/ r = TakeUp(w, x) /\ x # NoSession /\ w.dom[x] \in Wrapped
      \/ r = u
  <2>1. ~(x # NoSession /\ Supersedes(w, x) /\ w.current = w.saved.id)
    BY DEF Supersedes
  <2>2. Restorable(w.saved) /\ w.saved.id \notin Ids(w.handled) => CanRestore(w, w.saved, FALSE)
    BY DEF Restorable, CanRestore
  <2>3. x \in Ids(w.handled) /\ Restorable(w.saved) /\ w.saved.id \notin Ids(w.handled) => Supersedes(w, x)
    BY DEF Restorable, Supersedes
  <2> DEFINE can == CanRestore(w, w.saved, FALSE)
             take == TakeUp(w, x)
  <2>4. r = IF x # NoSession /\ Supersedes(w, x) /\ w.current = w.saved.id THEN w
            ELSE IF x # NoSession /\ Supersedes(w, x) /\ can THEN back
            ELSE IF x # NoSession /\ x \in Ids(w.handled) THEN w
            ELSE IF x # NoSession /\ w.dom[x] \in Wrapped THEN take
            ELSE IF can THEN back
            ELSE u
    BY DEF Resume
  <2> HIDE DEF r, back, u, take
  <2>5. CASE x # NoSession /\ x \in Ids(w.handled)
    BY <2>1, <2>2, <2>3, <2>4, <2>5
  <2>6. CASE ~(x # NoSession /\ x \in Ids(w.handled))
    <3>1. ~Supersedes(w, x) \/ x = NoSession
      BY <2>6 DEF Supersedes
    <3> QED
      BY <2>4, <2>6, <3>1 DEF take
  <2> QED
    BY <2>5, <2>6
<1> HIDE DEF r, u, back
<1> QED
  BY <1>3, <1>4, <1>5, <1>6, <1>7 DEF r

LEMMA ReloadSound ==
  ASSUME PageInv, Grows, Sound, Steady', Reload,
         faults = {} => Fresh, faults = {} \/ "reload" \in faults
  PROVE  Sound'
<1>1. PICK dom \in [Sessions -> Markup], kind \in {"reload", "again", "late"} :
        /\ IF kind = "again" THEN faults' = faults \cup {"again"} ELSE Strikes(kind)
        /\ \A s \in Sessions : dom[s] \in Served(s)
        /\ tab' \in Load(dom, kind)
  BY DEF Reload
<1>2. kind # "late" /\ (Once' => Fresh)
  BY <1>1 DEF Strikes, Steady, Once
<1>3. stream' = "closed" /\ events' = <<>> /\ UNCHANGED <<source, journal>>
  BY DEF Reload
<1>4. tab' \in Tab /\ tab'.answers = {} /\ tab'.posts = {}
  BY <1>1, <1>2, LoadKeeps DEF Sane
<1> DEFINE w == Blank(tab.handled, tab.saved, dom, {})
<1>5. PICK x \in Runtime(w) :
        tab' = [Resume(w, x) EXCEPT !.state = IF @ = "IDLE" THEN "PICKING" ELSE @,
                                    !.deferred = (Resume(w, x).current = NoSession \/ x = NoSession)]
  BY <1>1, <1>2 DEF Load
<1>6. /\ w \in Tab /\ w.current = NoSession /\ w.observer = NoSession /\ w.timers = {} /\ ~w.deferred
      /\ w.saved = tab.saved /\ w.dom = dom /\ w.handled = tab.handled
  <2>1. tab.handled \in [Sessions -> 0..HandledKept] /\ tab.saved \in Saved
    BY DEF PageInv, Sane, Tab
  <2> QED
    BY <2>1, BoundsAssumption DEF Blank, Tab, State
<1>7. Drawn(w)
  <2> SUFFICES ASSUME NEW s \in Sessions, Open(s), dom[s] # Clean
               PROVE  dom[s] \in Wrapped /\ source[s] \in Wrapped /\ dom[s] <= source[s]
    BY <1>6 DEF Drawn
  <2>1. CASE dom[s] = source[s]
    <3>1. source[s] \in Wrapped
      BY <2>1, MarkupFacts DEF Sound, Written, Open
    <3> QED
      BY <2>1, <3>1, MarkupFacts
  <2>2. CASE dom[s] = tab.dom[s]
    BY <2>2 DEF Sound, Drawn
  <2> QED
    BY <1>1, <2>1, <2>2 DEF Served
<1>8. /\ Once' => (w.saved.arrived > 0 => w.saved.file)
      /\ /\ Restorable(w.saved) /\ w.saved.id \notin Ids(w.handled)
         /\ Open(w.saved.id) /\ source[w.saved.id] = Clean
         => w.saved.arrived = 0
  BY <1>2, <1>6 DEF Fresh, Remembered, Sound, Shown, Poised, Owned, Held, Begun, Restorable
<1> HIDE DEF w
<1> DEFINE r == Resume(w, x)
<1>9. /\ Held(r) /\ Begun(r) /\ r.dom = dom
      /\ Once' => /\ Reading(r)
                  /\ r.current = NoSession \/ x = NoSession =>
                       (Restorable(r.saved) /\ r.saved.arrived > 0 => r.saved.file)
      /\ Behind(r) => r.state = "GENERATING"
  BY <1>6, <1>7, <1>8, ResumePoised
<1>10. tab' = [r EXCEPT !.state = IF @ = "IDLE" THEN "PICKING" ELSE @,
                        !.deferred = (r.current = NoSession \/ x = NoSession)]
  BY <1>5
<1>11. r \in Tab
  <2>1. Kept(w, r)
    <3>1. Sane(w)
      <4>1. w.answers = {} /\ w.posts = {}
        BY DEF w, Blank
      <4>2. \A s \in Sessions : s > started => dom[s] = Clean
        BY <1>1 DEF PageInv, Known, Sane, Served
      <4>3. started \in Nat /\ tab.handled \in [Sessions -> 0..HandledKept]
        BY BoundsAssumption DEF PageInv, Known, Sane, Tab
      <4>4. NoSession <= started
        BY <4>3, NoSessionOutside
      <4> QED
        BY <1>6, <4>1, <4>2, <4>3, <4>4, NoSessionOutside DEF PageInv, Sane, Ids
    <3> QED
      BY <3>1, RuntimeInSessions, ResumeKeeps DEF PageInv
  <2> QED
    BY <2>1 DEF Kept, Sane
<1> HIDE DEF r
<1>12. /\ tab'.observer = r.observer /\ tab'.current = r.current /\ tab'.timers = r.timers
       /\ tab'.dom = r.dom /\ tab'.handled = r.handled
       /\ tab'.saved = r.saved /\ tab'.arrived = r.arrived
       /\ tab'.deferred = (r.current = NoSession \/ x = NoSession)
       /\ r.state # "IDLE" => tab'.state = r.state
  BY <1>10, <1>11 DEF Tab
<1>13. r.current # NoSession => tab'.state = r.state
  BY <1>9, <1>12 DEF Held
<1>14. Once' => (tab'.deferred /\ Restorable(tab'.saved) /\ tab'.saved.arrived > 0 => tab'.saved.file)
  BY <1>9, <1>12
<1>15. Held(tab') /\ Begun(tab') /\ (Once' => Reading(tab'))
  BY <1>9, <1>12, <1>13 DEF Held, Begun, Reading, Reads
<1>16. Poised(tab)' /\ Noted(tab)'
  <2>1. Held(tab)' /\ Begun(tab)'
    BY <1>3, <1>15 DEF Held, Begun, Open, Restorable
  <2>2. Once' => Sighted(tab)' /\ Reading(tab)'
    BY <1>3, <1>14, <1>15 DEF Sighted, Reading, Open, Reads, Restorable
  <2>3. Noted(tab)'
    BY <1>14 DEF Noted, Restorable
  <2> QED
    BY <2>1, <2>2, <2>3 DEF Poised, Owned, Ripe
<1>17. Behind(tab)' => Catches(tab)'
  BY <1>3, <1>4, <1>9, <1>12, <1>13 DEF Behind, Open, Catches, Comes
<1>18. Drawn(tab)'
  BY <1>3, <1>6, <1>7, <1>9, <1>12 DEF Drawn, Open
<1>19. Written'
  BY <1>3, WorldSame DEF Sound
<1>20. 1..Len(events') = {}
  BY <1>3
<1>21. Posted' /\ NoErrors'
  BY <1>4, <1>20 DEF Posted, NoErrors
<1> QED
  BY <1>3, <1>16, <1>17, <1>18, <1>19, <1>21 DEF Sound, Shown

-----------------------------------------------------------------------------
(* Steps of a page that was never reloaded. *)

\* What is over stays over, and what is taken was posted.
Later ==
  \A s \in Sessions :
    /\ Past(s) => Past(s)'
    /\ journal'[s] = "none" => journal[s] = "none"
    /\ journal'[s] = "accepting" => source'[s] # Clean

LEMMA LaterSame ==
  ASSUME Fresh, UNCHANGED <<source, journal>>
  PROVE  Later
BY DEF Fresh, Later, Past

\* A step of the page alone.
LEMMA FreshSame ==
  ASSUME PageInv, Fresh, UNCHANGED <<source, journal, stream, started>>,
         UNCHANGED events \/ (events # <<>> /\ events' = Tail(events)),
         Remembered(tab'), tab'.deferred => Untouched(tab'), \A t \in tab'.timers : Plain(tab', t),
         \A p \in tab.posts : p.type \in Creation =>
           \E q \in tab'.posts : q.type \in Creation /\ q.id = p.id
  PROVE  Fresh'
<1>1. Remembered(tab)' /\ (tab'.deferred => Untouched(tab)')
  BY DEF Remembered, Untouched
<1>2. \A t \in tab'.timers : Plain(tab, t)'
  BY DEF Plain, Past
<1>3. \A s \in Sessions : s <= started' /\ journal'[s] = "none" => Creates(tab, s)'
  BY DEF Fresh, Creates
<1>4. \A i \in 1..Len(events') : events'[i].type = "done" => Past(events[i].id)'
  <2>1. CASE UNCHANGED events
    BY <2>1 DEF Fresh, Past
  <2>2. CASE events # <<>> /\ events' = Tail(events)
    <3> SUFFICES ASSUME NEW i \in 1..Len(events'), events'[i].type = "done"
                 PROVE  Past(events[i].id)'
      OBVIOUS
    <3>1. events'[i] = events[i + 1] /\ i + 1 \in 1..Len(events)
      BY <2>2, TailFacts DEF PageInv
    <3>2. Past(events[i + 1].id)
      BY <3>1 DEF Fresh
    <3> QED
      BY <3>1, <3>2 DEF Past
  <2> QED
    BY <2>1, <2>2
<1> QED
  BY <1>1, <1>2, <1>3, <1>4 DEF Fresh

\* What a handler does that ends the page's session or leaves it as it is.
Meek(w, v) ==
  /\ v.deferred = w.deferred /\ v.dom = w.dom /\ v.posts = w.posts /\ v.timers = w.timers
  /\ \/ v.current = NoSession /\ v.saved = NoSaved
     \/ v.current = w.current /\ v.saved = w.saved /\ v.arrived = w.arrived /\ (w.file => v.file)

LEMMA MeekFresh ==
  ASSUME NEW w, NEW v, Meek(w, v), Remembered(w), \A t \in w.timers : Plain(w, t)
  PROVE  Remembered(v) /\ \A t \in v.timers : Plain(v, t)
<1>1. Remembered(v)
  BY NoSavedFacts, CountFacts DEF Meek, Remembered, NoSaved
<1>2. \A t \in v.timers : Plain(v, t)
  BY DEF Meek, Plain
<1> QED
  BY <1>1, <1>2

LEMMA AnswersMeek ==
  ASSUME NEW w, NEW a, w \in Tab
  PROVE  /\ Meek(w, AcceptAnswered(w, a)) /\ Meek(w, DiscardAnswered(w, a))
         /\ Meek(w, CheckpointAnswered(w, a))
<1> DEFINE m == MarkHandled(w)
           n == [w EXCEPT !.state = "CYCLING", !.pending = IF @ = a.id THEN NoSession ELSE @]
           r == [m EXCEPT !.awaiting = a.id]
<1>1. Meek(w, Cleanup(m)) /\ Meek(w, Cleanup(n)) /\ Meek(w, Release(r))
  BY DEF Cleanup, Release, MarkHandled, Tab, Meek
<1>2. Meek(w, n) /\ Meek(w, w)
  BY DEF Tab, Meek
<1>3. DiscardAnswered(w, a) \in {w, Cleanup(m)} /\ CheckpointAnswered(w, a) \in {w, Cleanup(m)}
  BY DEF DiscardAnswered, CheckpointAnswered
<1>4. AcceptAnswered(w, a) \in {w, Release(r), n, Cleanup(n)}
  BY DEF AcceptAnswered, ShowCycling
<1> HIDE DEF m, n, r
<1> QED
  BY <1>1, <1>2, <1>3, <1>4

LEMMA EventsMeek ==
  ASSUME NEW w, NEW id, w \in Tab
  PROVE  Meek(w, CompleteSeen(w, id)) /\ Meek(w, DiscardedSeen(w, id))
<1>1. Meek(w, CompleteSeen(w, id))
  <2> DEFINE w1 == [w EXCEPT !.awaiting = IF @ = id THEN NoSession ELSE @]
             w2 == [w1 EXCEPT !.pending = NoSession]
             r  == Release(MarkHandled(w1))
  <2>1. Meek(w, w1) /\ Meek(w, w2) /\ Meek(w, r)
    BY DEF Release, MarkHandled, Tab, Meek
  <2>2. CompleteSeen(w, id) \in {w1, w2, r}
    BY DEF CompleteSeen
  <2> HIDE DEF w1, w2, r
  <2> QED
    BY <2>1, <2>2
<1>2. Meek(w, DiscardedSeen(w, id))
  <2>1. Meek(w, Cleanup(MarkHandled(w))) /\ Meek(w, w)
    BY DEF Cleanup, MarkHandled, Tab, Meek
  <2> QED
    BY <2>1 DEF DiscardedSeen
<1> QED
  BY <1>1, <1>2

LEMMA ConfigureFresh ==
  ASSUME PageInv, Sound, Fresh, Pick \/ ExitConfigure
  PROVE  Fresh'
<1>1. tab' = [tab EXCEPT !.state = "PICKING"] \/ tab' = [tab EXCEPT !.state = "CONFIGURING"]
  BY DEF Pick, ExitConfigure, BeginNewConfiguration
<1>2. tab.state \in {"PICKING", "CONFIGURING"} /\ UNCHANGED world
  BY DEF Pick, ExitConfigure
<1>3. /\ Meek(tab, tab') /\ tab'.current = tab.current /\ tab'.arrived = tab.arrived
      /\ tab'.answers = tab.answers /\ tab'.handled = tab.handled
  BY <1>1 DEF PageInv, Sane, Tab, Meek
<1>4. tab.deferred => Untouched(tab')
  BY <1>2, <1>3 DEF Fresh, Untouched, Meek
<1>5. Remembered(tab') /\ \A t \in tab'.timers : Plain(tab', t)
  BY <1>3, MeekFresh DEF Fresh
<1> QED
  BY <1>2, <1>3, <1>4, <1>5, FreshSame DEF world, surroundings, Meek

LEMMA GoFresh ==
  ASSUME PageInv, Fresh, Steady', Go
  PROVE  Fresh'
<1> DEFINE new(type, id) == [type |-> type, id |-> id, stray |-> FALSE]
           kept(id) == [id |-> id, state |-> "GENERATING", arrived |-> 0, file |-> FALSE]
<1>1. PICK id \in Sessions, type \in {"generate", "upload"} :
        /\ id = started + 1 /\ started \in Nat /\ id \in Nat /\ started < id /\ id # NoSession
        /\ started' = id /\ UNCHANGED <<source, journal, stream, events>>
        /\ tab'.current = id /\ tab'.state = "GENERATING" /\ tab'.arrived = 0 /\ tab'.observer = id
        /\ tab'.posts = tab.posts \cup {new(type, id)}
        /\ tab'.timers = tab.timers /\ tab'.answers = tab.answers /\ tab'.handled = tab.handled
        /\ tab'.dom = tab.dom /\ tab'.saved = kept(id) /\ tab'.deferred = tab.deferred
        /\ \A t \in tab.timers : t.kind # "fetch"
  BY GoFacts DEF Steady
<1>2. /\ new(type, id).id = id /\ new(type, id).type \in Creation
      /\ kept(id).id = id /\ kept(id).arrived = 0
  BY DEF Creation
<1> HIDE DEF new, kept
<1>3. source[id] = Clean /\ tab.dom[id] = Clean
  BY <1>1 DEF PageInv, Known, Sane
<1>4. Remembered(tab)'
  BY <1>1, <1>2, <1>3, CountFacts DEF Remembered
<1>5. tab'.deferred => Untouched(tab)'
  <2>1. tab.state = "CONFIGURING"
    BY DEF Go
  <2>2. tab.deferred => started = 0
    BY <2>1 DEF Fresh, Untouched
  <2> QED
    BY <1>1, <2>2 DEF Fresh, Untouched
<1>6. \A t \in tab'.timers : Plain(tab, t)'
  BY <1>1 DEF Fresh, Plain, Past
<1>7. \A s \in Sessions : s <= started' /\ journal'[s] = "none" => Creates(tab, s)'
  <2> SUFFICES ASSUME NEW s \in Sessions, s <= id, journal[s] = "none"
               PROVE  Creates(tab, s)'
    BY <1>1
  <2>1. CASE s = id
    BY <1>1, <1>2, <2>1 DEF Creates
  <2>2. CASE s # id
    <3>0. s \in Nat /\ id = started + 1 /\ started \in Nat
      BY <1>1, NoSessionOutside
    <3>1. s <= started
      BY <2>2, <3>0
    <3> QED
      BY <1>1, <3>1 DEF Fresh, Creates
  <2> QED
    BY <2>1, <2>2
<1>8. \A i \in 1..Len(events') : events'[i].type = "done" => Past(events[i].id)'
  BY <1>1 DEF Fresh, Past
<1> QED
  BY <1>1, <1>4, <1>5, <1>6, <1>7, <1>8 DEF Fresh

\* A step of the helper, the agent or the user that the page's reads outlive.
LEMMA LaterFresh ==
  ASSUME PageInv, Fresh, Later, UNCHANGED <<stream, started>>,
         tab'.timers \subseteq tab.timers, tab'.current = tab.current,
         \A p \in tab.posts : p.type \in Creation /\ journal'[p.id] = "none" => p \in tab'.posts,
         \A i \in 1..Len(events') : events'[i].type = "done" =>
           Past(events[i].id)' \/ (i \in 1..Len(events) /\ events'[i] = events[i]),
         Remembered(tab)', tab'.deferred => Untouched(tab)'
  PROVE  Fresh'
<1>1. \A t \in tab'.timers : Plain(tab, t)'
  <2> SUFFICES ASSUME NEW t \in tab'.timers
               PROVE  Plain(tab, t)'
    OBVIOUS
  <2>1. t.id \in Sessions /\ Plain(tab, t)
    BY DEF PageInv, Sane, Tab, Timer, Fresh
  <2>2. Past(t.id)'
    BY <2>1 DEF Later, Plain
  <2> QED
    BY <2>1, <2>2 DEF Plain
<1>2. \A s \in Sessions : s <= started' /\ journal'[s] = "none" => Creates(tab, s)'
  BY DEF Fresh, Later, Creates
<1>3. \A s \in Sessions : journal'[s] = "accepting" => source'[s] # Clean
  BY DEF Later
<1>4. \A i \in 1..Len(events') : events'[i].type = "done" => Past(events[i].id)'
  <2> SUFFICES ASSUME NEW i \in 1..Len(events), events'[i] = events[i], events[i].type = "done"
               PROVE  Past(events[i].id)'
    OBVIOUS
  <2>1. Past(events[i].id)
    BY DEF Fresh
  <2>2. events[i] \in Event
    BY DEF PageInv, Rest
  <2>3. events[i].id \in Sessions
    BY <2>2 DEF Event
  <2> DEFINE s == events[i].id
  <2>4. Past(s)'
    BY <2>1, <2>3 DEF Later, Past
  <2> QED
    BY <2>4
<1> QED
  BY <1>1, <1>2, <1>3, <1>4 DEF Fresh

LEMMA AskFresh ==
  ASSUME PageInv, Fresh, ~tab'.deferred, Remembered(tab'),
         tab'.timers = tab.timers, tab'.current = tab.current, tab'.posts = tab.posts,
         NEW w, NEW type, NEW id \in Sessions, NEW phase \in {"accepting", "discarding"},
         phase = "accepting" /\ Acts(id) => source[id] # Clean,
         Ask(w, type, id, phase), UNCHANGED surroundings
  PROVE  Fresh'
<1>1. UNCHANGED journal \/ (journal' = [journal EXCEPT ![id] = phase] /\ Acts(id))
  <2>1. PICK reaches \in BOOLEAN :
          journal' = IF reaches /\ Acts(id) THEN [journal EXCEPT ![id] = phase] ELSE journal
    BY DEF Ask
  <2>2. CASE reaches /\ Acts(id)
    BY <2>1, <2>2
  <2>3. CASE ~(reaches /\ Acts(id))
    BY <2>1, <2>3
  <2> QED
    BY <2>2, <2>3
<1>2. Later
  <2>1. CASE UNCHANGED journal
    BY <2>1, LaterSame DEF surroundings
  <2>2. CASE journal' = [journal EXCEPT ![id] = phase] /\ Acts(id)
    <3>1. journal'[id] = phase /\ \A s \in Sessions \ {id} : journal'[s] = journal[s]
      BY <2>2 DEF PageInv, Known
    <3> QED
      BY <2>2, <3>1 DEF Later, Past, surroundings, Fresh
  <2> QED
    BY <1>1, <2>1, <2>2
<1>3. Remembered(tab)'
  BY DEF Remembered, surroundings
<1> QED
  BY <1>2, <1>3, LaterFresh DEF surroundings

LEMMA AcceptFresh ==
  ASSUME PageInv, Sound, Fresh, Accept
  PROVE  Fresh'
<1> DEFINE v == [tab EXCEPT !.state = "SAVING", !.pending = tab.current]
           w == SaveSession(v)
           rec == [id |-> v.current, state |-> v.state, arrived |-> v.arrived, file |-> v.file]
<1>1. /\ tab \in Tab /\ tab.current \in Sessions /\ tab.current # NoSession
      /\ tab.state = "CYCLING" /\ tab.arrived > 0 /\ tab.arrived \in 0..Count
      /\ UNCHANGED surroundings /\ Ask(w, "accept", tab.current, "accepting")
  BY DEF Accept, PageInv, Sane, Tab
<1>2. /\ v.current = tab.current /\ v.arrived = tab.arrived /\ v.timers = tab.timers /\ v.dom = tab.dom
      /\ v.deferred = tab.deferred /\ v.posts = tab.posts /\ v.file = tab.file /\ v \in Tab
  BY <1>1 DEF Tab, State
<1>3. rec.id = tab.current /\ rec.arrived = tab.arrived /\ rec.file = tab.file /\ rec \in Saved
  BY <1>2 DEF Tab, Saved
<1>4. w = [v EXCEPT !.saved = rec]
  BY <1>1, <1>2 DEF SaveSession
<1> HIDE DEF v, rec
<1>5. /\ w \in Tab /\ w.saved = rec /\ w.current = tab.current /\ w.arrived = tab.arrived /\ w.timers = tab.timers
      /\ w.dom = tab.dom /\ w.deferred = tab.deferred /\ w.posts = tab.posts /\ w.file = tab.file
  BY <1>2, <1>3, <1>4 DEF Tab
<1> HIDE DEF w
<1>6. PICK a : tab' = [w EXCEPT !.answers = @ \cup {a}]
  BY <1>1 DEF Ask
<1>7. /\ tab'.saved = rec /\ tab'.current = tab.current /\ tab'.arrived = tab.arrived
      /\ tab'.timers = tab.timers /\ tab'.dom = tab.dom /\ tab'.deferred = tab.deferred
      /\ tab'.posts = tab.posts /\ tab'.file = tab.file
  BY <1>5, <1>6 DEF Tab
<1>8. ~tab.deferred
  BY <1>1 DEF Fresh, Untouched
<1>9. Remembered(tab')
  BY <1>1, <1>3, <1>7 DEF Fresh, Remembered
<1>10. Acts(tab.current) => source[tab.current] # Clean
  BY <1>1, CountFacts DEF Sound, Shown, Poised, Begun, Acts, Open
<1> QED
  BY <1>1, <1>7, <1>8, <1>9, <1>10, AskFresh

LEMMA DiscardFresh ==
  ASSUME PageInv, Sound, Fresh, Discard
  PROVE  Fresh'
<1>1. /\ tab \in Tab /\ tab.current \in Sessions /\ tab.current # NoSession /\ tab.state = "CYCLING"
      /\ UNCHANGED surroundings /\ Ask(tab, "discard", tab.current, "discarding")
  BY DEF Discard, PageInv, Sane, Tab
<1>2. PICK a : tab' = [tab EXCEPT !.answers = @ \cup {a}]
  BY <1>1 DEF Ask
<1>3. Meek(tab, tab') /\ tab'.current = tab.current
  BY <1>1, <1>2 DEF Meek, Tab
<1>4. ~tab.deferred
  BY <1>1 DEF Fresh, Untouched
<1>5. Remembered(tab')
  BY <1>3, MeekFresh DEF Fresh
<1> QED
  BY <1>1, <1>3, <1>4, <1>5, AskFresh DEF Meek

LEMMA AnsweredFresh ==
  ASSUME PageInv, Fresh, Answered
  PROVE  Fresh'
<1> DEFINE without(a) == [tab EXCEPT !.answers = @ \ {a}]
<1>1. PICK a \in tab.answers :
        tab' = CASE a.type = "accept"     -> AcceptAnswered(without(a), a)
                 [] a.type = "discard"    -> DiscardAnswered(without(a), a)
                 [] a.type = "checkpoint" -> CheckpointAnswered(without(a), a)
                 [] OTHER                 -> without(a)
  BY DEF Answered
<1> DEFINE w == without(a)
<1>2. UNCHANGED <<source, journal, stream, events, started>>
  BY DEF Answered, world, surroundings
<1>3. a.type \in {"accept", "discard", "checkpoint"}
  BY DEF PageInv, Sane, Tab, Answer
<1>4. w \in Tab /\ Meek(tab, w)
  BY DEF PageInv, Sane, Tab, Meek
<1>5. Meek(w, tab')
  <2>1. /\ Meek(w, AcceptAnswered(w, a)) /\ Meek(w, DiscardAnswered(w, a))
        /\ Meek(w, CheckpointAnswered(w, a))
    BY <1>4, AnswersMeek
  <2> QED
    BY <1>1, <1>3, <2>1
<1> HIDE DEF w
<1>6. Remembered(w) /\ \A t \in w.timers : Plain(w, t)
  BY <1>4, MeekFresh DEF Fresh
<1>7. Remembered(tab') /\ \A t \in tab'.timers : Plain(tab', t)
  BY <1>5, <1>6, MeekFresh
<1>8. tab'.posts = tab.posts /\ tab'.deferred = tab.deferred
  BY <1>4, <1>5 DEF Meek
<1>9. ~tab.deferred
  BY <1>1 DEF Fresh, Untouched
<1> QED
  BY <1>2, <1>7, <1>8, <1>9, FreshSame

LEMMA HearFresh ==
  ASSUME PageInv, Accounted, Fresh, Hear
  PROVE  Fresh'
<1> DEFINE e == Head(events)
<1>1. /\ e \in Event /\ e = events[1] /\ 1 \in 1..Len(events) /\ events # <<>>
      /\ events' = Tail(events) /\ UNCHANGED <<source, journal, stream, started>>
  BY TailFacts DEF Hear, PageInv
<1>2. e.id \in Sessions /\ e.type \in {"done", "complete", "discarded"} /\ Ended(e)
  BY <1>1 DEF Event, Accounted, Ended
<1>3. tab' = CASE e.type = "done"      -> DoneSeen(tab, e.id)
               [] e.type = "complete"  -> CompleteSeen(tab, e.id)
               [] e.type = "discarded" -> DiscardedSeen(tab, e.id)
               [] e.type = "error"     -> ErrorSeen(tab, e.id)
  BY DEF Hear
<1>4. tab \in Tab
  BY DEF PageInv, Sane
<1>5. e.type = "done" => Past(e.id)
  BY <1>1 DEF Fresh
<1> HIDE DEF e
<1>6. CASE e.type # "done"
  <2>1. Meek(tab, tab')
    <3>1. Meek(tab, CompleteSeen(tab, e.id)) /\ Meek(tab, DiscardedSeen(tab, e.id))
      BY <1>4, EventsMeek
    <3> QED
      BY <1>2, <1>3, <1>6, <3>1
  <2>2. journal[e.id] = "closed"
    BY <1>2, <1>6 DEF Ended
  <2>3. ~tab.deferred
    BY <1>2, <2>2 DEF Fresh, Untouched
  <2>4. Remembered(tab') /\ \A t \in tab'.timers : Plain(tab', t)
    BY <2>1, MeekFresh DEF Fresh
  <2> QED
    BY <1>1, <2>1, <2>3, <2>4, FreshSame DEF Meek
<1>7. CASE e.type = "done"
  <2> DEFINE t == Read("completed", e.id, TRUE, FALSE, 0)
  <2>1. tab' = DoneSeen(tab, e.id)
    BY <1>3, <1>7
  <2>2. /\ tab'.current = tab.current /\ tab'.saved = tab.saved /\ tab'.arrived = tab.arrived
        /\ tab'.file = TRUE /\ tab'.dom = tab.dom /\ tab'.deferred = tab.deferred
        /\ tab'.posts = tab.posts /\ tab'.timers \subseteq tab.timers \cup {t}
        /\ tab'.answers = tab.answers /\ tab'.handled = tab.handled
        /\ tab.arrived # Count => tab'.state = tab.state
    <3> HIDE DEF t
    <3> QED
      BY <1>4, <2>1 DEF DoneSeen, Set, Tab, t
  <2>3. t.kind = "completed" /\ t.id = e.id /\ ~t.orphan
    BY DEF Read
  <2> HIDE DEF t
  <2>4. Remembered(tab')
    BY <2>2 DEF Fresh, Remembered
  <2>5. \A u \in tab'.timers : Plain(tab', u)
    BY <1>5, <1>7, <2>2, <2>3 DEF Fresh, Plain
  <2>6. tab'.deferred => Untouched(tab')
    BY <2>2, CountFacts DEF Fresh, Untouched
  <2> QED
    BY <1>1, <2>2, <2>4, <2>5, <2>6, FreshSame
<1> QED
  BY <1>6, <1>7

\* A page that was never reloaded is woken by its own session's wrapper.
LEMMA WokenFresh ==
  ASSUME NEW w, NEW x \in Runtime(w), Sane(w), Known, Remembered(w), w.observer = w.current,
         w.deferred /\ x # NoSession => w.dom[x] \in Wrapped /\ Ids(w.handled) = {} /\ w.current = x
  PROVE  LET v == Woken(w, x) IN
         /\ Remembered(v) /\ v.current = w.current /\ v.timers = w.timers
         /\ w.posts \subseteq v.posts /\ (v.deferred => v = w)
<1> DEFINE r == ScoutSees(w, x)
<1>1. /\ Remembered(r) /\ r.current = w.current /\ r.observer = w.observer
      /\ r.timers = w.timers /\ w.posts \subseteq r.posts
  <2>1. CASE ~w.deferred \/ x = NoSession
    <3>1. r = w
      BY <2>1 DEF ScoutSees
    <3> HIDE DEF r
    <3> QED
      BY <3>1
  <2>2. CASE w.deferred /\ x # NoSession
    <3> DEFINE v == [w EXCEPT !.deferred = FALSE]
    <3>1. /\ v \in Tab /\ v.dom = w.dom /\ v.handled = w.handled /\ v.saved = w.saved /\ v.file = w.file
          /\ v.timers = w.timers /\ v.posts = w.posts
      BY DEF Sane, Tab
    <3>2. r = Resume(v, x)
      BY <2>2 DEF ScoutSees
    <3> HIDE DEF v, r
    <3>3. r = TakeUp(v, x)
      BY <2>2, <3>1, <3>2 DEF Resume, Supersedes
    <3>4. x \in Sessions /\ v.dom[x] \in Wrapped
      BY <2>2, <3>1, RuntimeFacts DEF Sane
    <3>5. /\ r.current = x /\ r.observer = x
          /\ r.saved.id = x /\ r.saved.file = r.file
          /\ r.file = (IF v.saved.id = x THEN v.file \/ v.saved.file ELSE v.file)
          /\ r.timers = v.timers /\ v.posts \subseteq r.posts
      BY <3>1, <3>3, <3>4, TakeUpFacts
    <3>6. w.file
      BY <2>2, <3>4, <3>1, MarkupFacts DEF Remembered
    <3> QED
      BY <2>2, <3>1, <3>5, <3>6 DEF Remembered
  <2> QED
    BY <2>1, <2>2
<1>2. r \in Tab
  BY RuntimeInSessions, ScoutSeesKeeps DEF Kept, Sane
<1> HIDE DEF r
<1>3. LET v == VariantsArrive(r) IN
      Remembered(v) /\ v.current = r.current /\ v.timers = r.timers /\ r.posts \subseteq v.posts
  <2>1. CASE VariantsArrive(r) = r
    BY <1>1, <2>1
  <2>2. CASE VariantsArrive(r) # r
    <3> DEFINE s == r.observer
               v == [r EXCEPT !.arrived = r.dom[s], !.state = "CYCLING"]
               u == SaveSession(v)
    <3>1. VariantsArrive(r) = u /\ s \in Sessions /\ s # NoSession /\ r.dom[s] \in Wrapped
      BY <1>2, <2>2 DEF VariantsArrive, Tab
    <3>2. /\ v \in Tab /\ v.current = s /\ v.file = r.file /\ v.timers = r.timers
          /\ v.posts = r.posts /\ v.dom = r.dom
      BY <1>1, <1>2, <3>1, MarkupFacts DEF Tab, State
    <3> HIDE DEF v
    <3>3. /\ u.saved.id = s /\ u.saved.file = r.file /\ u.file = r.file /\ u.current = s
          /\ u.timers = r.timers /\ r.posts \subseteq u.posts
      BY <3>1, <3>2, CommitFacts
    <3> HIDE DEF u
    <3>4. r.file
      BY <1>1, <3>1, MarkupFacts DEF Remembered
    <3>5. Remembered(u)
      BY <3>3, <3>4 DEF Remembered
    <3> QED
      BY <1>1, <3>1, <3>3, <3>5
  <2> QED
    BY <2>1, <2>2
<1> QED
  BY <1>1, <1>3, WokenDeferred DEF Woken, r

LEMMA OnlyWrapper ==
  ASSUME NEW w, w \in Tab, NEW s \in Sessions, w.dom[s] \in Wrapped,
         \A r \in Sessions \ {s} : w.dom[r] = Clean, NEW x \in Runtime(w)
  PROVE  x = s
<1>1. x \in Sessions \cup {NoSession} /\ s \in Wrappers(w)
  BY RuntimeFacts DEF Wrappers
<1>2. x # NoSession /\ w.dom[x] \in Wrapped
  BY <1>1, RuntimeFacts
<1> QED
  BY <1>1, <1>2, MarkupFacts

LEMMA HmrFresh ==
  ASSUME PageInv, Sound, Fresh, NEW s \in Sessions, Hmr(s)
  PROVE  Fresh' /\ UNCHANGED faults
<1> DEFINE w == Render(tab, s, source[s])
<1>1. PICK x \in Runtime(w) : tab' = Woken(w, x)
  BY DEF Hmr
<1>2. Sane(w)
  BY RenderKeeps DEF PageInv, Kept
<1>3. /\ w.observer = tab.observer /\ w.current = tab.current /\ w.arrived = tab.arrived
      /\ w.saved = tab.saved /\ w.handled = tab.handled /\ w.file = tab.file /\ w.posts = tab.posts
      /\ w.deferred = tab.deferred /\ w.timers = tab.timers
      /\ w.dom[s] = source[s] /\ \A r \in Sessions \ {s} : w.dom[r] = tab.dom[r]
  BY DEF PageInv, Sane, Tab, Render
<1>4. tab.dom[s] # source[s]
  BY DEF Hmr
<1> HIDE DEF w
<1>5. Remembered(w)
  <2>1. w.current \in Sessions \cup {NoSession}
    BY <1>2 DEF Sane, Tab
  <2> QED
    BY <1>3, <2>1 DEF Fresh, Remembered
<1>6. w.deferred /\ x # NoSession => w.dom[x] \in Wrapped /\ Ids(w.handled) = {} /\ w.current = x
  <2> SUFFICES ASSUME tab.deferred, x # NoSession
               PROVE  w.dom[x] \in Wrapped /\ Ids(w.handled) = {} /\ w.current = x
    BY <1>3
  <2>1. Untouched(tab)
    BY DEF Fresh
  <2>2. source[s] # Clean /\ journal[s] \in {"generating", "ready"}
    BY <1>4, <2>1 DEF Untouched, Sound, Written
  <2>3. source[s] \in Wrapped
    BY <2>2, MarkupFacts DEF Sound, Written
  <2>4. started = 1 /\ s = 1 /\ tab.current = 1
    <3>1. s \in Nat /\ s # 0
      BY NoSessionOutside
    <3>2. s <= started
      <4>1. ~(s > started)
        BY <2>2 DEF PageInv, Known
      <4>2. started \in Nat
        BY BoundsAssumption DEF PageInv, Known
      <4> QED
        BY <3>1, <4>1, <4>2
    <3> QED
      BY <2>1, <3>1, <3>2 DEF Untouched
  <2>5. x = s
    BY <1>2, <1>3, <2>1, <2>3, OnlyWrapper DEF Sane, Untouched
  <2> QED
    BY <1>3, <2>1, <2>3, <2>4, <2>5 DEF Untouched
<1>7. /\ Remembered(tab') /\ tab'.current = tab.current /\ tab'.timers = tab.timers
      /\ tab.posts \subseteq tab'.posts /\ (tab'.deferred => tab' = w)
  BY <1>1, <1>2, <1>3, <1>5, <1>6, WokenFresh DEF PageInv, Sound, Shown, Poised, Owned, Held, Sighted
<1>8. ~tab'.deferred
  <2> SUFFICES ASSUME tab'.deferred
               PROVE  FALSE
    OBVIOUS
  <2>1. x = NoSession /\ tab.deferred
    BY <1>1, <1>2, <1>3, WokenDeferred DEF PageInv
  <2>2. Wrappers(w) = {}
    BY <1>2, <2>1, RuntimeFacts DEF Sane
  <2>3. source[s] # Clean /\ source[s] \in Wrapped
    BY <1>4, <2>1, MarkupFacts DEF Fresh, Untouched, Sound, Written
  <2> QED
    BY <1>3, <2>2, <2>3 DEF Wrappers
<1>9. \A t \in tab'.timers : Plain(tab', t)
  BY <1>7 DEF Fresh, Plain
<1>10. UNCHANGED <<source, journal, stream, events, started>> /\ MayMove
  BY DEF Hmr, surroundings
<1>11. UNCHANGED faults
  BY <1>7, <1>10 DEF MayMove
<1> QED
  BY <1>7, <1>8, <1>9, <1>10, <1>11, FreshSame

LEMMA FetchedFresh ==
  ASSUME PageInv, Accounted, Sound, Fresh, Fetched
  PROVE  Fresh' /\ UNCHANGED faults
<1> DEFINE in(t) == Complete(Render(Drop(tab, t), t.id, source[t.id]), t, source[t.id])
<1>1. PICK t \in tab.timers :
        /\ t.kind = "fetch"
        /\ IF source[t.id] \in Wrapped THEN \E x \in Runtime(in(t)) : tab' = Woken(in(t), x)
           ELSE tab' = WrapperMissing(Drop(tab, t), t)
        /\ journal' = IF GivesUp(t) /\ Acts(t.id) THEN [journal EXCEPT ![t.id] = "discarding"]
                      ELSE journal
  BY DEF Fetched
<1>2. UNCHANGED <<source, stream, events, started>> /\ MayMove
  BY DEF Fetched, surroundings
<1>3. Sane(tab) /\ Known /\ tab \in Tab /\ t.id \in Sessions /\ t \in Timer
  BY DEF PageInv, Sane, Tab, Timer
<1>4. Plain(tab, t) /\ ~t.orphan /\ Past(t.id) /\ tab.current \in {t.id, NoSession}
  BY <1>1 DEF Fresh, Plain
<1>5. UNCHANGED journal
  BY <1>1, <1>4 DEF GivesUp
<1>6. tab'.current = tab.current => UNCHANGED faults
  BY <1>2 DEF MayMove
<1>7. CASE source[t.id] \in Wrapped
  <2> DEFINE w  == Drop(tab, t)
             r  == Render(w, t.id, Count)
             w1 == [[r EXCEPT !.arrived = Count] EXCEPT !.state = "CYCLING"]
             c  == SaveSession(w1)
             rec == [id |-> w1.current, state |-> w1.state, arrived |-> w1.arrived, file |-> w1.file]
  <2>1. source[t.id] = Count
    BY <1>4, <1>7, CountFacts DEF Past
  <2>2. Complete(r, t, Count) = c
    BY CountFacts DEF Complete
  <2>3. in(t) = c
    BY <2>1, <2>2
  <2>4. PICK x \in Runtime(c) : tab' = Woken(c, x)
    <3> HIDE DEF c, in
    <3> QED
      BY <1>1, <1>7, <2>3
  <2>5. Sane(c)
    <3>1. Kept(tab, w)
      BY <1>3, DropKeeps
    <3> HIDE DEF w
    <3>2. Kept(w, r)
      BY <1>3, <2>1, <3>1, RenderKeeps DEF Kept
    <3> HIDE DEF r
    <3>3. Kept(r, Complete(r, t, Count))
      BY <1>3, <3>2, MarkupFacts, CompleteKeeps DEF Kept
    <3> QED
      BY <2>2, <3>3 DEF Kept
  <2>6. /\ r \in Tab /\ r.observer = tab.observer /\ r.current = tab.current
        /\ r.saved = tab.saved /\ r.handled = tab.handled /\ r.file = tab.file /\ r.posts = tab.posts
        /\ r.deferred = tab.deferred /\ r.timers = tab.timers \ {t}
        /\ r.dom[t.id] = Count /\ \A s \in Sessions \ {t.id} : r.dom[s] = tab.dom[s]
    BY <1>3, MarkupFacts DEF Drop, Render, Tab
  <2> HIDE DEF r
  <2>7. /\ w1 \in Tab /\ w1.observer = tab.observer /\ w1.current = tab.current
        /\ w1.saved = tab.saved /\ w1.handled = tab.handled /\ w1.file = tab.file
        /\ w1.posts = tab.posts /\ w1.deferred = tab.deferred /\ w1.timers = tab.timers \ {t}
        /\ w1.dom = r.dom
    <3>1. Count \in 0..Count
      BY CountFacts
    <3> QED
      BY <2>6, <3>1 DEF Tab, State
  <2> HIDE DEF w1
  <2>8. /\ c.observer = tab.observer /\ c.current = tab.current
        /\ c.handled = tab.handled /\ c.file = tab.file
        /\ c.posts = tab.posts /\ c.deferred = tab.deferred /\ c.timers = tab.timers \ {t}
        /\ c.dom = r.dom
        /\ \/ c.current = NoSession /\ c.saved = tab.saved
           \/ c.current # NoSession /\ c.saved.id = c.current /\ c.saved.file = c.file
    <3>1. CASE w1.current = NoSession
      <4>1. c = w1
        BY <3>1 DEF SaveSession
      <4> HIDE DEF c
      <4> QED
        BY <2>7, <3>1, <4>1
    <3>2. CASE w1.current # NoSession
      <4>1. c = [w1 EXCEPT !.saved = rec] /\ rec.id = w1.current /\ rec.file = w1.file
        BY <3>2 DEF SaveSession
      <4> HIDE DEF c, rec
      <4> QED
        BY <2>7, <3>2, <4>1 DEF Tab
    <3> QED
      BY <3>1, <3>2
  <2> HIDE DEF c
  <2>9. Remembered(c)
    <3>1. CASE c.current = NoSession
      BY <2>8, <3>1 DEF Fresh, Remembered
    <3>2. CASE c.current # NoSession
      <4>1. tab.current = t.id /\ source[tab.current] # Clean
        BY <1>4, <1>7, <2>8, <3>2, MarkupFacts
      <4> QED
        BY <2>8, <3>2, <4>1 DEF Fresh, Remembered
    <3> QED
      BY <3>1, <3>2
  <2>10. c.dom[t.id] \in Wrapped
    BY <2>6, <2>8, MarkupFacts
  <2>11. c.deferred /\ x # NoSession => c.dom[x] \in Wrapped /\ Ids(c.handled) = {} /\ c.current = x
    <3> SUFFICES ASSUME tab.deferred
                 PROVE  c.dom[x] \in Wrapped /\ Ids(c.handled) = {} /\ c.current = x
      BY <2>8
    <3>1. Untouched(tab)
      BY DEF Fresh
    <3>2. t.id \in Nat /\ t.id # 0 /\ t.id <= started
      BY <1>3, NoSessionOutside DEF Accounted, Whole
    <3>3. tab.current = 1 /\ t.id = 1
      BY <3>1, <3>2 DEF Untouched
    <3>4. x = t.id
      BY <1>3, <2>5, <2>6, <2>8, <2>10, <3>1, OnlyWrapper DEF Sane, Untouched
    <3> QED
      BY <2>8, <2>10, <3>1, <3>3, <3>4 DEF Untouched
  <2>12. /\ Remembered(tab') /\ tab'.current = tab.current /\ tab'.timers = tab.timers \ {t}
         /\ tab.posts \subseteq tab'.posts
    <3>1. c.observer = c.current
      BY <2>8 DEF Sound, Shown, Poised, Owned, Held, Sighted
    <3> QED
      BY <1>3, <2>4, <2>5, <2>8, <2>9, <2>11, <3>1, WokenFresh
  <2>13. ~tab'.deferred
    <3>1. x # NoSession
      BY <1>3, <2>5, <2>10, RuntimeFacts DEF Sane, Wrappers
    <3> QED
      BY <1>3, <2>4, <2>5, <3>1, WokenDeferred
  <2>14. \A u \in tab'.timers : Plain(tab', u)
    BY <2>12 DEF Fresh, Plain
  <2> QED
    BY <1>2, <1>5, <1>6, <2>12, <2>13, <2>14, FreshSame
<1>8. CASE source[t.id] \notin Wrapped
  <2> DEFINE w == Drop(tab, t)
  <2>1. tab' = w
    BY <1>1, <1>4, <1>8 DEF WrapperMissing
  <2>2. /\ w.current = tab.current /\ w.saved = tab.saved /\ w.arrived = tab.arrived
        /\ w.file = tab.file /\ w.dom = tab.dom /\ w.deferred = tab.deferred
        /\ w.posts = tab.posts /\ w.timers = tab.timers \ {t} /\ w.state = tab.state
        /\ w.answers = tab.answers /\ w.handled = tab.handled
    BY <1>3 DEF Drop, Tab
  <2> HIDE DEF w
  <2>3. Remembered(tab') /\ \A u \in tab'.timers : Plain(tab', u)
    BY <2>1, <2>2 DEF Fresh, Remembered, Plain
  <2>4. tab'.deferred => Untouched(tab')
    BY <2>1, <2>2 DEF Fresh, Untouched
  <2> QED
    BY <1>2, <1>5, <1>6, <2>1, <2>2, <2>3, <2>4, FreshSame
<1> QED
  BY <1>7, <1>8

LEMMA ReadAgainFresh ==
  ASSUME PageInv, Fresh, ReadAgain
  PROVE  Fresh'
<1> DEFINE u(t) == Read("fetch", t.id, TRUE, FALSE, 0)
<1>1. UNCHANGED <<source, journal, stream, events, started>>
  BY DEF ReadAgain, world, surroundings
<1>2. \A t \in tab.timers : t.kind = "completed" \/ t.kind = "fetch"
  BY DEF Fresh, Plain
<1>3. PICK t \in tab.timers :
        \/ tab' = Drop(tab, t)
        \/ Drop(tab, t).current = t.id /\ tab' = Set(Drop(tab, t), u(t))
  BY <1>2 DEF ReadAgain, Fetch
<1> DEFINE w == Drop(tab, t)
<1>4. /\ w.current = tab.current /\ w.saved = tab.saved /\ w.arrived = tab.arrived
      /\ w.file = tab.file /\ w.dom = tab.dom /\ w.deferred = tab.deferred
      /\ w.posts = tab.posts /\ w.timers = tab.timers \ {t} /\ w.state = tab.state
      /\ w.answers = tab.answers /\ w.handled = tab.handled /\ w \in Tab
  BY DEF Drop, Tab, PageInv, Sane
<1>5. u(t).kind = "fetch" /\ u(t).id = t.id /\ ~u(t).orphan
  BY DEF Read
<1> HIDE DEF w, u
<1>6. /\ tab'.current = tab.current /\ tab'.saved = tab.saved /\ tab'.arrived = tab.arrived
      /\ tab'.file = tab.file /\ tab'.dom = tab.dom /\ tab'.deferred = tab.deferred
      /\ tab'.posts = tab.posts /\ tab'.state = tab.state
      /\ tab'.answers = tab.answers /\ tab'.handled = tab.handled
      /\ \A v \in tab'.timers : v \in tab.timers \/ (v = u(t) /\ tab.current = t.id)
  <2>1. CASE tab' = w
    BY <1>4, <2>1
  <2>2. CASE w.current = t.id /\ tab' = Set(w, u(t))
    BY <1>4, <2>2 DEF Set, Tab
  <2> QED
    BY <1>3, <2>1, <2>2 DEF w
<1>7. Remembered(tab')
  BY <1>6 DEF Fresh, Remembered
<1>8. \A v \in tab'.timers : Plain(tab', v)
  <2>1. Past(t.id)
    BY DEF Fresh, Plain
  <2> QED
    BY <1>5, <1>6, <2>1 DEF Fresh, Plain
<1>9. tab'.deferred => Untouched(tab')
  BY <1>6 DEF Fresh, Untouched
<1> QED
  BY <1>1, <1>6, <1>7, <1>8, <1>9, FreshSame

\* No progress overtakes its generate, so none is refused.
LEMMA HelperTakesFresh ==
  ASSUME PageInv, Sound, Fresh, "early" \notin faults, HelperTakes
  PROVE  Fresh'
<1> DEFINE less(p) == [tab EXCEPT !.posts = @ \ {p}]
<1>1. PICK p \in tab.posts :
        \/ p.type = "generate" /\ journal' = [journal EXCEPT ![p.id] = "generating"] /\ tab' = less(p)
        \/ /\ p.type = "checkpoint" /\ (p.stray \/ ~Gate)
           /\ UNCHANGED journal /\ (journal[p.id] # "none" => tab' = less(p))
  BY DEF HelperTakes
<1>2. UNCHANGED <<source, stream, events, started>>
  BY DEF HelperTakes, surroundings
<1>3. tab \in Tab /\ Known /\ p.id \in Sessions /\ p.id <= started /\ p.type \in {"generate", "checkpoint"}
  BY <1>1 DEF PageInv, Sane, Tab, Post
<1>4. p.type # "generate" => journal[p.id] # "none"
  <2> SUFFICES ASSUME p.type = "checkpoint", journal[p.id] = "none"
               PROVE  FALSE
    BY <1>3
  <2>1. PICK q \in tab.posts : q.type \in Creation /\ q.id = p.id
    BY <1>3 DEF Fresh, Creates
  <2>2. ~q.stray
    BY <2>1 DEF Sound, Posted
  <2>3. q.type = "generate" /\ ~p.stray
    BY <2>1, <2>2 DEF PageInv, Ordered, Waits, Creation
  <2> QED
    BY <1>1, <2>2, <2>3 DEF Gate
<1>5. tab' = less(p)
  BY <1>1, <1>4
<1>6. /\ tab'.current = tab.current /\ tab'.saved = tab.saved /\ tab'.arrived = tab.arrived
      /\ tab'.file = tab.file /\ tab'.dom = tab.dom /\ tab'.deferred = tab.deferred
      /\ tab'.state = tab.state /\ tab'.timers = tab.timers
      /\ tab'.answers = tab.answers /\ tab'.handled = tab.handled
      /\ tab'.posts = tab.posts \ {p}
  BY <1>3, <1>5 DEF Tab
<1>7. /\ \A s \in Sessions : s # p.id => journal'[s] = journal[s]
      /\ p.type = "generate" => journal[p.id] = "none" /\ journal'[p.id] = "generating"
      /\ p.type # "generate" => UNCHANGED journal
  BY <1>1, <1>3 DEF Known, Sound, Posted, Creation
<1>8. Later
  <2> SUFFICES ASSUME NEW s \in Sessions
               PROVE  /\ Past(s) => Past(s)'
                      /\ journal'[s] = "none" => journal[s] = "none"
                      /\ journal'[s] = "accepting" => source'[s] # Clean
    BY DEF Later
  <2>1. CASE s = p.id /\ p.type = "generate"
    BY <1>7, <2>1 DEF Past
  <2>2. CASE ~(s = p.id /\ p.type = "generate")
    <3>1. journal'[s] = journal[s] /\ source'[s] = source[s]
      BY <1>2, <1>7, <2>2
    <3> QED
      BY <3>1, <1>2 DEF Past, Fresh
  <2> QED
    BY <2>1, <2>2
<1>9. \A q \in tab.posts : q.type \in Creation /\ journal'[q.id] = "none" => q \in tab'.posts
  BY <1>3, <1>6, <1>7 DEF Creation
<1>10. Remembered(tab)'
  BY <1>2, <1>6 DEF Fresh, Remembered
<1>11. tab'.deferred => Untouched(tab)'
  <2>1. \A s \in Sessions : journal'[s] \in {journal[s], "generating"}
    BY <1>7
  <2> QED
    BY <1>2, <1>6, <2>1 DEF Fresh, Untouched
<1>12. \A i \in 1..Len(events') : events'[i].type = "done" =>
         Past(events[i].id)' \/ (i \in 1..Len(events) /\ events'[i] = events[i])
  BY <1>2
<1> QED
  BY <1>2, <1>6, <1>8, <1>9, <1>10, <1>11, <1>12, LaterFresh

LEMMA UploadedFresh ==
  ASSUME PageInv, Fresh, Uploaded
  PROVE  Fresh'
<1>1. PICK p \in tab.posts :
        /\ p.type = "upload"
        /\ tab' = [tab EXCEPT !.posts = (@ \ {p}) \cup {[p EXCEPT !.type = "generate"]}]
  BY DEF Uploaded
<1> DEFINE g == [p EXCEPT !.type = "generate"]
<1>2. g.id = p.id /\ g.type \in Creation
  BY DEF PageInv, Sane, Tab, Post, Creation
<1> HIDE DEF g
<1>3. /\ tab'.posts = (tab.posts \ {p}) \cup {g}
      /\ tab'.current = tab.current /\ tab'.saved = tab.saved /\ tab'.arrived = tab.arrived
      /\ tab'.file = tab.file /\ tab'.dom = tab.dom /\ tab'.deferred = tab.deferred
      /\ tab'.state = tab.state /\ tab'.timers = tab.timers
      /\ tab'.answers = tab.answers /\ tab'.handled = tab.handled
  BY <1>1 DEF PageInv, Sane, Tab, g
<1>4. UNCHANGED <<source, journal, stream, events, started>>
  BY DEF Uploaded, world, surroundings
<1>5. Remembered(tab') /\ (tab'.deferred => Untouched(tab'))
  BY <1>3 DEF Fresh, Remembered, Untouched
<1>6. \A t \in tab'.timers : Plain(tab', t)
  BY <1>3 DEF Fresh, Plain
<1>7. \A q \in tab.posts : q.type \in Creation =>
        \E r \in tab'.posts : r.type \in Creation /\ r.id = q.id
  BY <1>2, <1>3
<1> QED
  BY <1>4, <1>5, <1>6, <1>7, FreshSame

LEMMA ReportFresh ==
  ASSUME PageInv, Fresh, Report
  PROVE  Fresh'
<1> DEFINE w == [tab EXCEPT !.queued = FALSE]
           c == [type |-> "checkpoint", id |-> tab.current, stray |-> ~Gate]
<1>1. tab' = w \/ tab' = [w EXCEPT !.posts = @ \cup {c}]
  BY DEF Report
<1> HIDE DEF c
<1>2. /\ tab.posts \subseteq tab'.posts
      /\ tab'.current = tab.current /\ tab'.saved = tab.saved /\ tab'.arrived = tab.arrived
      /\ tab'.file = tab.file /\ tab'.dom = tab.dom /\ tab'.deferred = tab.deferred
      /\ tab'.state = tab.state /\ tab'.timers = tab.timers
      /\ tab'.answers = tab.answers /\ tab'.handled = tab.handled
  BY <1>1 DEF PageInv, Sane, Tab
<1>3. UNCHANGED <<source, journal, stream, events, started>>
  BY DEF Report, surroundings
<1>4. Remembered(tab') /\ (tab'.deferred => Untouched(tab'))
  BY <1>2 DEF Fresh, Remembered, Untouched
<1>5. \A t \in tab'.timers : Plain(tab', t)
  BY <1>2 DEF Fresh, Plain
<1> QED
  BY <1>2, <1>3, <1>4, <1>5, FreshSame

LEMMA AgentFresh ==
  ASSUME PageInv, Fresh, NEW s \in Sessions, Agent(s)
  PROVE  Fresh'
<1>1. /\ tab'.current = tab.current /\ tab'.saved = tab.saved /\ tab'.arrived = tab.arrived
      /\ tab'.dom = tab.dom /\ tab'.deferred = tab.deferred
      /\ tab'.state = tab.state /\ tab'.timers = tab.timers
      /\ tab'.answers = tab.answers /\ tab'.handled = tab.handled /\ tab'.posts = tab.posts
      /\ tab.file => tab'.file
      /\ AgentWrites(s) /\ tab.current = s => tab'.file
  <2>1. CASE UNCHANGED tab /\ ~AgentWrites(s)
    BY <2>1
  <2>2. CASE tab' = [tab EXCEPT !.file = @ \/ (stream = "open" /\ tab.current = s)]
    BY <2>2 DEF PageInv, Sane, Tab, Fresh
  <2> QED
    BY <2>1, <2>2 DEF Agent, AgentWrites, AgentDone, AgentPromotes, AgentDiscards
<1>2. UNCHANGED <<stream, started>> /\ Known
  BY DEF PageInv, Agent, AgentWrites, AgentDone, AgentPromotes, AgentDiscards
<1>3. \A r \in Sessions \ {s} : journal'[r] = journal[r] /\ source'[r] = source[r]
  BY <1>2 DEF Known, Agent, AgentWrites, AgentDone, AgentPromotes, AgentDiscards
<1>4. \/ AgentWrites(s) /\ journal[s] = "generating" /\ journal'[s] = "generating"
      \/ /\ AgentDone(s) /\ journal[s] = "generating" /\ journal'[s] = "ready"
         /\ source[s] = Count /\ source'[s] = Count
      \/ /\ AgentPromotes(s) /\ journal[s] = "accepting"
         /\ \/ source'[s] = Clean /\ journal'[s] = "closed"
            \/ source'[s] = Carbonize /\ journal'[s] = "accepting"
      \/ /\ AgentDiscards(s) /\ journal[s] = "discarding"
         /\ source'[s] = Clean /\ journal'[s] = "closed"
  <2>1. CASE AgentPromotes(s)
    BY <1>2, <2>1 DEF Known, AgentPromotes
  <2> QED
    BY <1>2, <2>1 DEF Known, Agent, AgentWrites, AgentDone, AgentDiscards
<1>5. Later
  <2> SUFFICES ASSUME NEW r \in Sessions
               PROVE  /\ Past(r) => Past(r)'
                      /\ journal'[r] = "none" => journal[r] = "none"
                      /\ journal'[r] = "accepting" => source'[r] # Clean
    BY DEF Later
  <2>1. CASE r = s
    <3>1. Clean \notin 0..(Count - 1) /\ Carbonize \notin 0..(Count - 1) /\ Clean # Carbonize
      BY CountFacts DEF Clean, Carbonize
    <3> QED
      BY <1>4, <2>1, <3>1 DEF Past
  <2>2. CASE r # s
    <3>1. journal'[r] = journal[r] /\ source'[r] = source[r]
      BY <1>3, <2>2
    <3> QED
      BY <3>1 DEF Past, Fresh
  <2> QED
    BY <2>1, <2>2
<1>6. Remembered(tab)'
  <2>1. tab.current \in Sessions \cup {NoSession}
    BY DEF PageInv, Sane, Tab
  <2>2. tab.current = s /\ ~AgentWrites(s) => source[s] # Clean \/ source'[s] = Clean
    BY <1>4, MarkupFacts DEF Fresh
  <2> QED
    BY <1>1, <1>3, <2>1, <2>2 DEF Fresh, Remembered
<1>7. tab'.deferred => Untouched(tab)'
  <2> SUFFICES ASSUME tab.deferred
               PROVE  Untouched(tab)'
    BY <1>1
  <2>1. journal'[s] \in {"generating", "ready"}
    BY <1>4 DEF Fresh, Untouched
  <2> QED
    BY <1>1, <1>2, <1>3, <2>1 DEF Fresh, Untouched
<1>8. \A i \in 1..Len(events') : events'[i].type = "done" =>
        Past(events[i].id)' \/ (i \in 1..Len(events) /\ events'[i] = events[i])
  <2>1. CASE UNCHANGED events
    BY <2>1
  <2>2. CASE AgentDone(s)
    <3>1. Tell("done", s)
      BY <2>2 DEF AgentDone
    <3>2. Past(s)'
      <4>1. Count \notin 0..(Count - 1)
        BY CountFacts
      <4>2. journal'[s] = "ready" /\ source'[s] = Count
        BY <1>2, <2>2 DEF Known, AgentDone
      <4> QED
        BY <4>1, <4>2 DEF Past
    <3> SUFFICES ASSUME NEW i \in 1..Len(events'), events'[i].id = s
                 PROVE  Past(events[i].id)'
      BY <3>1, TellFacts DEF PageInv
    <3>3. Past(events[i].id)' <=> Past(s)'
      BY DEF Past
    <3> QED
      BY <3>2, <3>3
  <2>3. CASE \E type \in {"complete", "discarded"} : Tell(type, s)
    BY <2>3, TellFacts DEF PageInv
  <2> QED
    BY <2>1, <2>2, <2>3 DEF Agent, AgentWrites, AgentPromotes, AgentDiscards
<1> QED
  BY <1>1, <1>2, <1>5, <1>6, <1>7, <1>8, LaterFresh

-----------------------------------------------------------------------------
(* What is inductive. *)

\* The reload comes to a page that has heard everything; what it leaves is sound.
ReadyInv ==
  /\ WorkInv
  /\ Steady => /\ Sound
               /\ faults = {} => Fresh
               /\ faults = {} \/ "reload" \in faults

LEMMA InitReady == Init => ReadyInv
<1> SUFFICES ASSUME Init
             PROVE  ReadyInv
  OBVIOUS
<1>1. WorkInv
  BY InitPage, InitAccounts DEF WorkInv
<1>2. /\ tab.current = NoSession /\ tab.observer = NoSession /\ tab.saved = NoSaved
      /\ tab.timers = {} /\ tab.answers = {} /\ tab.posts = {} /\ Ids(tab.handled) = {} /\ tab.arrived = 0
      /\ tab.dom = [s \in Sessions |-> Clean]
  BY NothingHandled DEF Init, Blank
<1>3. ~Restorable(tab.saved) /\ tab.saved.id = NoSession /\ tab.saved.arrived = 0
  BY <1>2, NoSavedFacts DEF Restorable, NoSaved
<1>4. Shown(tab)
  BY <1>2, <1>3 DEF Shown, Poised, Owned, Held, Sighted, Begun, Ripe, Reading, Behind
<1>5. Written /\ Drawn(tab)
  BY <1>2 DEF Init, Written, Drawn
<1>6. 1..Len(events) = {}
  BY DEF Init
<1>7. Sound
  BY <1>2, <1>3, <1>4, <1>5, <1>6 DEF Init, Sound, Posted, NoErrors, Noted
<1>8. Remembered(tab) /\ Untouched(tab)
  BY <1>2, <1>3, CountFacts DEF Init, Remembered, Untouched
<1>9. \A s \in Sessions : ~(s <= started)
  BY NoSessionOutside, BoundsAssumption DEF Init, Sessions
<1>10. Fresh
  BY <1>2, <1>6, <1>8, <1>9 DEF Init, Fresh
<1> QED
  BY <1>1, <1>7, <1>10 DEF Init, ReadyInv

LEMMA NextReady == ReadyInv /\ [Next]_vars => ReadyInv'
<1> SUFFICES ASSUME ReadyInv, [Next]_vars, Steady'
             PROVE  /\ Sound' /\ (faults' = {} => Fresh')
                    /\ faults' = {} \/ "reload" \in faults'
  BY NextAccounts DEF ReadyInv
<1>1. /\ PageInv /\ Sound /\ Grows
      /\ faults = {} => Fresh /\ Accounted
      /\ faults = {} \/ "reload" \in faults
  BY FaultsGrow DEF ReadyInv, WorkInv, Steady, Spared, Grows
<1>2. ASSUME NEW kind, Strikes(kind), kind \notin {"reload", "again", "moved"}
      PROVE  FALSE
  BY <1>2 DEF Strikes, Steady
<1>3. CASE Pick \/ ExitConfigure
  BY <1>1, <1>3, ConfigureSound, ConfigureFresh DEF Pick, ExitConfigure, world
<1>4. CASE Go
  <2>1. UNCHANGED faults
    BY <1>1, <1>4, GoFacts DEF Steady
  <2> QED
    BY <1>1, <1>4, <2>1, GoSound, GoFresh
<1>5. CASE Accept
  <2>1. UNCHANGED faults
    BY <1>2, <1>5 DEF Accept, Ask
  <2> QED
    BY <1>1, <1>5, <2>1, AcceptSound, AcceptFresh
<1>6. CASE Discard
  <2>1. UNCHANGED faults
    BY <1>2, <1>6 DEF Discard, Ask
  <2> QED
    BY <1>1, <1>6, <2>1, DiscardSound, DiscardFresh
<1>7. CASE Answered
  BY <1>1, <1>7, AnsweredSound, AnsweredFresh DEF Answered, world
<1>8. CASE Hear
  BY <1>1, <1>8, HearSound, HearFresh DEF Hear
<1>9. CASE Connect
  <2>1. stream = "closed" /\ (Fresh => stream = "open")
    BY <1>9 DEF Connect, Fresh
  <2>2. faults # {} /\ "reload" \in faults'
    BY <1>1, <2>1 DEF Grows
  <2>3. Sound'
    BY <1>1, <1>9, ConnectSound
  <2>4. faults' # {}
    BY <2>2
  <2> QED
    BY <2>2, <2>3, <2>4
<1>10. CASE Fetched
  <2>1. Sound'
    BY <1>1, <1>10, FetchedSound
  <2>2. faults = {} => Fresh' /\ faults' = {}
    BY <1>1, <1>10, FetchedFresh
  <2>3. faults # {} => "reload" \in faults' /\ faults' # {}
    BY <1>1 DEF Grows
  <2> QED
    BY <2>1, <2>2, <2>3
<1>11. CASE ReadAgain
  BY <1>1, <1>11, ReadAgainSound, ReadAgainFresh DEF ReadAgain, world
<1>12. CASE Reload
  <2>1. "reload" \in faults'
    <3>1. PICK kind \in {"reload", "again", "late"} :
            \/ kind = "again" /\ "reload" \in faults
            \/ kind # "again" /\ Strikes(kind)
      BY <1>12 DEF Reload
    <3>2. kind # "late"
      BY <1>2, <3>1
    <3> QED
      BY <1>1, <3>1, <3>2 DEF Strikes, Grows
  <2> QED
    BY <1>1, <1>12, <2>1, ReloadSound
<1>13. CASE StreamDrops \/ ServerLost \/ FetchFails \/ PostLost
  BY <1>2, <1>13 DEF StreamDrops, ServerLost, FetchFails, PostLost, Steady
<1>14. CASE HelperTakes
  BY <1>1, <1>14, HelperTakesSound, HelperTakesFresh DEF HelperTakes
<1>19. CASE Uploaded
  BY <1>1, <1>19, UploadedSound, UploadedFresh DEF Uploaded, world
<1>20. CASE Report
  <2>1. UNCHANGED faults
    BY <1>20 DEF Report, Steady
  <2> QED
    BY <1>1, <1>20, <2>1, ReportSound, ReportFresh
<1>15. ASSUME NEW s \in Sessions, Hmr(s)
       PROVE  /\ Sound' /\ (faults' = {} => Fresh')
              /\ faults' = {} \/ "reload" \in faults'
  <2>1. Sound'
    BY <1>1, <1>15, HmrSound
  <2>2. faults = {} => Fresh' /\ faults' = {}
    BY <1>1, <1>15, HmrFresh
  <2>3. faults # {} => "reload" \in faults' /\ faults' # {}
    BY <1>1 DEF Grows
  <2> QED
    BY <2>1, <2>2, <2>3
<1>16. ASSUME NEW s \in Sessions, Agent(s)
       PROVE  /\ Sound' /\ (faults' = {} => Fresh')
              /\ faults' = {} \/ "reload" \in faults'
  <2>1. UNCHANGED faults
    BY <1>16 DEF Agent, AgentWrites, AgentDone, AgentPromotes, AgentDiscards
  <2> QED
    BY <1>1, <1>16, <2>1, AgentSound, AgentFresh
<1>17. ASSUME NEW s \in Sessions, AgentFails(s)
       PROVE  FALSE
  BY <1>2, <1>17 DEF AgentFails
<1>18. CASE UNCHANGED vars
  <2>1. UNCHANGED <<tab, source, journal, stream, events, started, faults>>
    BY <1>18 DEF vars
  <2>2. Sound'
    BY <1>1, <2>1 DEF Sound, Written, Posted, NoErrors, Drawn, Noted, Shown, Poised, Owned, Held, Sighted, Begun, Ripe, Reading,
       Behind, Catches, Comes, Told, Due, Open, Reads, Wrappers, Restorable, Once
  <2>3. Fresh => Fresh'
    BY <2>1 DEF Fresh, Remembered, Untouched, Plain, Past, Creates
  <2> QED
    BY <1>1, <2>1, <2>2, <2>3
<1> QED
  BY <1>3, <1>4, <1>5, <1>6, <1>7, <1>8, <1>9, <1>10, <1>11, <1>12, <1>13, <1>14, <1>15, <1>16, <1>17, <1>18, <1>19, <1>20
     DEF Next, User, Page, Environment

LEMMA ReadyAlways == Spec => []ReadyInv
BY InitReady, NextReady, PTL DEF Spec

LEMMA ReadyMeansShown == ReadyInv => ReadyIsShown
<1> SUFFICES ASSUME ReadyInv, NEW s \in Sessions,
                    journal[s] = "ready", tab.current = s, tab.dom[s] = source[s],
                    stream = "open", events = <<>>, tab.timers = {}, tab.answers = {},
                    faults \cap {"post", "stream", "lost", "early", "agent", "late"} = {}
             PROVE  /\ tab.arrived = Count
                    /\ \/ tab.state = "CYCLING"
                       \/ "again" \in faults /\ tab.state = "GENERATING"
  BY DEF ReadyIsShown
<1>1. Steady /\ PageInv
  BY DEF ReadyInv, WorkInv, PageInv, Rest, Fault, Steady
<1>2. Sound
  BY <1>1 DEF ReadyInv
<1>3. s # NoSession /\ Open(s) /\ tab.dom[s] = Count /\ Count \in Wrapped
  BY <1>2, NoSessionOutside, MarkupFacts DEF Open, Sound, Written
<1>4. 1..Len(events) = {}
  OBVIOUS
<1>5. ~Behind(tab)
  BY <1>2, <1>4 DEF Sound, Shown, Catches, Comes, Told, Due
<1>6. tab.arrived = Count
  <2>1. tab.arrived \in 0..Count
    BY <1>1 DEF PageInv, Sane, Tab
  <2> QED
    BY <1>3, <1>5, <2>1, CountFacts DEF Behind
<1>7. tab.state = "GENERATING" => "again" \in faults
  BY <1>2, <1>3, <1>6 DEF Sound, Shown, Poised, Ripe, Once, Reading, Reads
<1>8. tab.state # "SAVING"
  BY <1>1 DEF PageInv, SavingHasAnAccept
<1>9. tab.state \in {"GENERATING", "CYCLING", "SAVING"}
  BY <1>2, <1>3 DEF Sound, Shown, Poised, Owned, Held, Sighted
<1> QED
  BY <1>6, <1>7, <1>8, <1>9

\* When the helper's session is ready and all the page asked for or was told has come,
\* the page has all its variants, however often it was reloaded, and compares them: a
\* done that went to nobody is made up for when the stream connects again
\* (recoverMissedGenerationCompletion), a comparison that was put off is taken up by
\* the scout, and one that is restored is read from the file the page knows.  Only after
\* a second reload may it have them all and still say that it is generating.
THEOREM ReadyComesToShow == Spec => []ReadyIsShown
BY ReadyAlways, ReadyMeansShown, PTL
=============================================================================
