----------------------- MODULE ComponentPreview_proofs -----------------------
(***************************************************************************)
(* Proofs about ComponentPreview, for any number of sessions, variants,    *)
(* manifests at once and kinds of trouble.                                 *)
(***************************************************************************)
EXTENDS ComponentPreview, TLAPS

-----------------------------------------------------------------------------
(* What the functions leave alone. *)

SameWork(w, v) ==
  v.tasks = w.tasks /\ v.selection = w.selection /\ v.preview = w.preview /\ v.waiting = w.waiting
SameCard(w, v) == v.hasCard = w.hasCard /\ v.card = w.card
SameAsks(w, v) ==
  v.asked = w.asked /\ v.pending = w.pending /\ v.accepted = w.accepted /\ v.committed = w.committed
SameSession(w, v) ==
  v.state = w.state /\ v.current = w.current /\ v.arrived = w.arrived /\ v.file = w.file
SameView(w, v) == v.visible = w.visible /\ v.bar = w.bar

\* What is saved is as before, or of the session the page is in.
SavedIn(w, v) ==
  \/ v.saved = w.saved
  \/ v.current # NoSession /\ v.saved.id = v.current /\ v.saved.file = v.file
     /\ v.saved.visible = v.visible

\* Nothing the invariants are about differs, except that the session was saved.
Same(w, v) ==
  /\ v \in Page /\ SavedIn(w, v)
  /\ SameWork(w, v) /\ SameCard(w, v) /\ SameAsks(w, v) /\ SameSession(w, v) /\ SameView(w, v)

LEMMA SameReflexive == ASSUME NEW w \in Page PROVE Same(w, w)
BY DEF Same, SavedIn, SameWork, SameCard, SameAsks, SameSession, SameView

LEMMA SameTransitive ==
  ASSUME NEW u, NEW w, NEW v, Same(u, w), Same(w, v)
  PROVE  Same(u, v)
BY DEF Same, SavedIn, SameWork, SameCard, SameAsks, SameSession, SameView

Working(w) == \E i \in Slots : w.tasks[i].step # "idle"
Turning(w) == w.selection.step # "idle"

LEMMA Constants ==
  /\ NoSession = 0 /\ NoSession \notin Sessions /\ Sessions \subseteq Nat /\ Maybe \subseteq Nat
  /\ NoSession \in Maybe /\ Sessions \subseteq Maybe /\ Count \in Nat \ {0} /\ 1 \in Slots
  /\ 0 \in 0..Count /\ 1 \in 0..Count /\ Slots \subseteq Nat
  /\ NoCard \in Card /\ NoPreview \in Preview /\ NoSaved \in Saved /\ Idle \in Task
  /\ NoSelection \in Selection
BY BoundsAssumption DEF NoSession, Sessions, Maybe, Slots, NoCard, Card, NoPreview, Preview,
   NoSaved, Saved, State, Tune, Idle, Task, NoSelection, Selection

LEMMA SaveSessionSame ==
  ASSUME NEW w \in Page
  PROVE  Same(w, SaveSession(w))
<1>1. CASE w.current = NoSession
  BY <1>1, SameReflexive DEF SaveSession
<1>2. CASE w.current # NoSession
  <2> DEFINE s == [id |-> w.current, state |-> w.state, arrived |-> w.arrived,
                   visible |-> w.visible, file |-> w.file, tune |-> w.tune]
             v == [w EXCEPT !.saved = s]
  <2>1. s \in Saved /\ s.id = w.current /\ s.file = w.file /\ s.visible = w.visible
    BY DEF Page, Saved
  <2> HIDE DEF s
  <2>2. v \in Page /\ v.saved = s
    BY <2>1 DEF Page
  <2>3. SameWork(w, v) /\ SameCard(w, v) /\ SameAsks(w, v) /\ SameSession(w, v) /\ SameView(w, v)
    BY DEF Page, SameWork, SameCard, SameAsks, SameSession, SameView
  <2> HIDE DEF v
  <2>4. Same(w, v)
    BY <1>2, <2>1, <2>2, <2>3 DEF Same, SavedIn, SameSession, SameView
  <2> QED
    BY <1>2, <2>4 DEF SaveSession, v, s
<1> QED
  BY <1>1, <1>2

LEMMA SettleTuneSame ==
  ASSUME NEW w \in Page
  PROVE  Same(w, SettleTune(w))
<1> DEFINE v == [w EXCEPT !.tune = "settled"]
<1>1. v \in Page /\ v.saved = w.saved
  BY DEF Page, Tune
<1>2. SameWork(w, v) /\ SameCard(w, v) /\ SameAsks(w, v) /\ SameSession(w, v) /\ SameView(w, v)
  BY DEF Page, SameWork, SameCard, SameAsks, SameSession, SameView
<1> HIDE DEF v
<1>3. Same(w, v)
  BY <1>1, <1>2 DEF Same, SavedIn
<1>4. Same(w, SaveSession(v))
  BY <1>1, <1>3, SaveSessionSame, SameTransitive
<1> QED
  BY <1>4, SameReflexive DEF SettleTune, v

LEMMA MarkHandledSame ==
  ASSUME NEW w \in Page
  PROVE  Same(w, MarkHandled(w))
<1> DEFINE v == [w EXCEPT !.handled = @ \cup {w.current}]
<1>1. ASSUME w.current # NoSession PROVE v \in Page
  BY <1>1 DEF Page, Maybe
<1>2. v.saved = w.saved /\ SameWork(w, v) /\ SameCard(w, v) /\ SameAsks(w, v) /\ SameSession(w, v) /\ SameView(w, v)
  BY DEF Page, SameWork, SameCard, SameAsks, SameSession, SameView
<1> QED
  BY <1>1, <1>2, SameReflexive DEF MarkHandled, Same, SavedIn

\* The card.
LEMMA ClearCardFacts ==
  ASSUME NEW w \in Page
  PROVE  LET v == ClearCard(w) IN
         /\ v \in Page /\ ~v.hasCard /\ v.card = NoCard /\ v.saved = w.saved
         /\ SameWork(w, v) /\ SameAsks(w, v) /\ SameSession(w, v) /\ SameView(w, v)
BY Constants DEF ClearCard, Page, SameWork, SameAsks, SameSession, SameView

LEMMA ShowCardFacts ==
  ASSUME NEW w \in Page, NEW id \in Maybe, NEW variant \in 0..Count, NEW file \in Maybe
  PROVE  LET v == ShowCard(w, id, variant, file) IN
         /\ v \in Page /\ v.hasCard /\ v.saved = w.saved
         /\ v.card.id = IF id = NoSession THEN w.current ELSE id
         /\ v.card.file = IF file = NoSession THEN w.file ELSE file
         /\ v.card.variant = variant
         /\ SameWork(w, v) /\ SameAsks(w, v) /\ SameSession(w, v) /\ SameView(w, v)
<1> DEFINE c == [id |-> IF id = NoSession THEN w.current ELSE id, variant |-> variant,
                 file |-> IF file = NoSession THEN w.file ELSE file]
           v == [w EXCEPT !.hasCard = TRUE, !.card = c]
<1>1. c \in Card /\ c.id = (IF id = NoSession THEN w.current ELSE id) /\ c.variant = variant
      /\ c.file = (IF file = NoSession THEN w.file ELSE file)
  BY DEF Page, Card
<1> HIDE DEF c
<1>2. v \in Page /\ v.hasCard /\ v.saved = w.saved /\ v.card = c
  BY <1>1 DEF Page
<1>3. SameWork(w, v) /\ SameAsks(w, v) /\ SameSession(w, v) /\ SameView(w, v)
  BY DEF Page, SameWork, SameAsks, SameSession, SameView
<1> HIDE DEF v
<1>4. ShowCard(w, id, variant, file) = v
  BY DEF ShowCard, v, c
<1> QED
  BY <1>1, <1>2, <1>3, <1>4

-----------------------------------------------------------------------------
(* What is being mounted, and the preview it is mounted into. *)

\* A task that may have lost its preview, and is the same otherwise.
Alike(t, u) ==
  /\ u.step = t.step /\ u.file = t.file /\ u.id = t.id /\ u.first = t.first
  /\ u.variant = t.variant /\ (u.own => t.own)
AlikeSelection(t, u) ==
  /\ u.step = t.step /\ u.back = t.back /\ u.id = t.id
  /\ u.variant = t.variant /\ u.previous = t.previous /\ (u.own => t.own)

\* The work goes on, on nobody's preview.
Astray(w, v) ==
  /\ \A i \in Slots : Alike(w.tasks[i], v.tasks[i]) /\ ~v.tasks[i].own
  /\ AlikeSelection(w.selection, v.selection) /\ ~v.selection.own

LEMMA DisownedFacts ==
  ASSUME NEW w \in Page
  PROVE  LET v == Disowned(w) IN
         /\ v \in Page /\ Astray(w, v) /\ v.preview = w.preview /\ v.waiting = w.waiting
         /\ v.saved = w.saved /\ SameCard(w, v) /\ SameAsks(w, v) /\ SameSession(w, v) /\ SameView(w, v)
<1> DEFINE k == [i \in Slots |-> [w.tasks[i] EXCEPT !.own = FALSE]]
           s == [w.selection EXCEPT !.own = FALSE]
           v == [w EXCEPT !.tasks = k, !.selection = s]
<1>1. w.tasks \in [Slots -> Task] /\ w.selection \in Selection
  BY DEF Page
<1>2. \A i \in Slots : k[i] \in Task /\ Alike(w.tasks[i], k[i]) /\ ~k[i].own
  BY <1>1 DEF Task, Alike
<1>3. s \in Selection /\ AlikeSelection(w.selection, s) /\ ~s.own
  BY <1>1 DEF Selection, AlikeSelection
<1>4. k \in [Slots -> Task]
  BY <1>2
<1> HIDE DEF k, s
<1>5. v \in Page /\ v.tasks = k /\ v.selection = s /\ v.preview = w.preview /\ v.waiting = w.waiting
  BY <1>3, <1>4 DEF Page
<1>6. v.saved = w.saved /\ SameCard(w, v) /\ SameAsks(w, v) /\ SameSession(w, v) /\ SameView(w, v)
  BY DEF Page, SameCard, SameAsks, SameSession, SameView
<1> HIDE DEF v
<1>7. Disowned(w) = v
  BY DEF Disowned, v, k, s, Page
<1> QED
  BY <1>2, <1>3, <1>5, <1>6, <1>7 DEF Astray

LEMMA TeardownFacts ==
  ASSUME NEW w \in Page
  PROVE  LET v == Teardown(w) IN
         /\ v \in Page /\ Astray(w, v) /\ v.preview = NoPreview /\ v.waiting = w.waiting
         /\ v.saved = w.saved /\ SameCard(w, v) /\ SameAsks(w, v) /\ SameSession(w, v) /\ SameView(w, v)
<1> DEFINE d == Disowned(w)
           v == [d EXCEPT !.preview = NoPreview]
<1>1. /\ d \in Page /\ Astray(w, d) /\ d.waiting = w.waiting
      /\ d.saved = w.saved /\ SameCard(w, d) /\ SameAsks(w, d) /\ SameSession(w, d) /\ SameView(w, d)
  BY DisownedFacts
<1> HIDE DEF d
<1>2. v \in Page /\ v.preview = NoPreview
  BY <1>1, Constants DEF Page
<1>3. v.tasks = d.tasks /\ v.selection = d.selection /\ v.waiting = d.waiting /\ v.saved = d.saved
  BY <1>1 DEF Page
<1>4. SameCard(d, v) /\ SameAsks(d, v) /\ SameSession(d, v) /\ SameView(d, v)
  BY <1>1 DEF Page, SameCard, SameAsks, SameSession, SameView
<1> HIDE DEF v
<1>5. Teardown(w) = v
  BY DEF Teardown, v, d
<1>6. Astray(w, v)
  BY <1>1, <1>3 DEF Astray
<1>7. SameCard(w, v) /\ SameAsks(w, v) /\ SameSession(w, v) /\ SameView(w, v)
  BY <1>1, <1>4 DEF SameCard, SameAsks, SameSession, SameView
<1> QED
  BY <1>1, <1>2, <1>3, <1>5, <1>6, <1>7

SameMounts(w, v) == v.tasks = w.tasks /\ v.selection = w.selection /\ v.preview = w.preview

\* The page's session is over, with its preview.
Ended(w, v) ==
  /\ v \in Page /\ v.state = "PICKING" /\ v.current = NoSession /\ v.file = NoSession
  /\ v.saved = NoSaved /\ ~v.hasCard /\ v.card = NoCard
  /\ SameAsks(w, v) /\ v.waiting \in {NoSession, w.waiting}
  /\ \/ SameMounts(w, v) /\ (w.preview.id # w.current \/ w.current = NoSession)
     \/ Astray(w, v) /\ v.preview = NoPreview

LEMMA CleanupEnds ==
  ASSUME NEW w \in Page
  PROVE  /\ Ended(w, Cleanup(w)) /\ Cleanup(w).waiting = w.waiting
         /\ Cleanup(w).arrived = w.arrived /\ Cleanup(w).visible = w.visible
<1> DEFINE t == IF w.preview.id = w.current /\ w.current # NoSession THEN Teardown(w) ELSE w
           c == ClearCard(t)
           v == [c EXCEPT !.state = "PICKING", !.current = NoSession, !.file = NoSession,
                   !.tune = "idle", !.saved = NoSaved, !.bar = FALSE]
<1>1. /\ t \in Page /\ SameAsks(w, t) /\ t.waiting = w.waiting
      /\ t.arrived = w.arrived /\ t.visible = w.visible
      /\ \/ SameMounts(w, t) /\ (w.preview.id # w.current \/ w.current = NoSession)
         \/ Astray(w, t) /\ t.preview = NoPreview
  BY TeardownFacts DEF SameMounts, SameAsks, SameSession, SameView
<1> HIDE DEF t
<1>2. /\ c \in Page /\ ~c.hasCard /\ c.card = NoCard
      /\ SameWork(t, c) /\ SameAsks(t, c) /\ SameSession(t, c) /\ SameView(t, c)
  BY <1>1, ClearCardFacts
<1> HIDE DEF c
<1>3. v \in Page
  BY <1>2, Constants DEF Page, State, Tune
<1>4. /\ v.state = "PICKING" /\ v.current = NoSession /\ v.file = NoSession /\ v.saved = NoSaved
      /\ v.hasCard = c.hasCard /\ v.card = c.card /\ SameAsks(c, v) /\ SameWork(c, v)
      /\ v.arrived = c.arrived /\ v.visible = c.visible
  BY <1>2 DEF Page, SameAsks, SameWork
<1> HIDE DEF v
<1>5. Cleanup(w) = v
  BY DEF Cleanup, v, c, t
<1>6. SameMounts(w, t) => SameMounts(w, v)
  BY <1>2, <1>4 DEF SameMounts, SameWork
<1>7. Astray(w, t) => Astray(w, v)
  BY <1>2, <1>4 DEF Astray, SameWork
<1>8. v.preview = t.preview /\ v.waiting = w.waiting /\ SameAsks(w, v)
      /\ v.arrived = w.arrived /\ v.visible = w.visible
  BY <1>1, <1>2, <1>4 DEF SameWork, SameAsks, SameSession, SameView
<1> QED
  BY <1>1, <1>2, <1>3, <1>4, <1>5, <1>6, <1>7, <1>8 DEF Ended

LEMMA ResetEnds ==
  ASSUME NEW w \in Page
  PROVE  Ended(w, Reset(w))
<1> DEFINE c == Cleanup(w)
           v == [c EXCEPT !.arrived = 0, !.visible = 0, !.waiting = NoSession, !.handled = {}]
<1>1. Ended(w, c)
  BY CleanupEnds
<1> HIDE DEF c
<1>2. v \in Page /\ v.waiting = NoSession /\ SameMounts(c, v) /\ SameAsks(c, v) /\ SameCard(c, v)
      /\ v.state = c.state /\ v.current = c.current /\ v.file = c.file /\ v.saved = c.saved
  BY <1>1, Constants DEF Page, Ended, SameMounts, SameAsks, SameCard
<1> HIDE DEF v
<1>3. Ended(w, v)
  BY <1>1, <1>2 DEF Ended, SameMounts, SameAsks, SameCard, Astray
<1> QED
  BY <1>3 DEF Reset, v, c

\* The comparison is shown: the variants of the page's session.
Shown(w, v) ==
  /\ v \in Page /\ SavedIn(w, v) /\ v.bar
  /\ SameWork(w, v) /\ SameCard(w, v) /\ SameAsks(w, v) /\ SameSession(w, v)
  /\ v.visible = IF w.visible \in 1..w.arrived THEN w.visible ELSE 1

LEMMA ShowCyclingFacts ==
  ASSUME NEW w \in Page
  PROVE  /\ w.arrived > 0 => Shown(w, ShowCycling(w))
         /\ w.arrived = 0 => Ended(w, ShowCycling(w))
<1>1. ASSUME w.arrived > 0 PROVE Shown(w, ShowCycling(w))
  <2> DEFINE n == IF w.visible \in 1..w.arrived THEN w.visible ELSE 1
             v == [w EXCEPT !.bar = TRUE, !.visible = n]
  <2>1. n \in 0..Count
    BY Constants DEF Page
  <2> HIDE DEF n
  <2>2. v \in Page /\ v.bar /\ v.visible = n /\ v.saved = w.saved
        /\ SameWork(w, v) /\ SameCard(w, v) /\ SameAsks(w, v) /\ SameSession(w, v)
    BY <2>1 DEF Page, SameWork, SameCard, SameAsks, SameSession
  <2>3. ShowCycling(w) = v
    BY <1>1 DEF ShowCycling, v, n, Page
  <2> QED
    BY <2>2, <2>3 DEF Shown, SavedIn, n
<1>2. ASSUME w.arrived = 0 PROVE Ended(w, ShowCycling(w))
  BY <1>2, CleanupEnds, ResetEnds DEF ShowCycling
<1> QED
  BY <1>1, <1>2

LEMMA ShownSame ==
  ASSUME NEW w, NEW u, NEW v, Shown(w, u), Same(u, v)
  PROVE  Shown(w, v)
BY DEF Shown, Same, SavedIn, SameWork, SameCard, SameAsks, SameSession, SameView

LEMMA EndedSame ==
  ASSUME NEW w, NEW u, NEW v, Ended(w, u), Same(u, v)
  PROVE  Ended(w, v)
<1>1. SameMounts(w, u) => SameMounts(w, v)
  BY DEF Same, SameWork, SameMounts
<1>2. Astray(w, u) => Astray(w, v)
  BY DEF Same, SameWork, Astray
<1>3. v.current = NoSession /\ v.saved = NoSaved
  BY DEF Ended, Same, SavedIn, SameSession
<1> QED
  BY <1>1, <1>2, <1>3 DEF Ended, Same, SameWork, SameCard, SameAsks, SameSession

\* The page turns to the comparison: what mounts, and an answer that fails, open it.
Cycling(w) == [w EXCEPT !.state = "CYCLING"]

LEMMA CyclingFacts ==
  ASSUME NEW w \in Page
  PROVE  LET v == Cycling(w) IN
         /\ v \in Page /\ v.saved = w.saved /\ v.state = "CYCLING" /\ v.current = w.current
         /\ v.arrived = w.arrived /\ v.file = w.file
         /\ SameWork(w, v) /\ SameCard(w, v) /\ SameAsks(w, v) /\ SameView(w, v)
BY DEF Cycling, Page, State, SameWork, SameCard, SameAsks, SameView

LEMMA OpenedFacts ==
  ASSUME NEW w \in Page
  PROVE  /\ w.arrived > 0 => Shown(Cycling(w), Opened(w))
         /\ w.arrived = 0 => Ended(w, Opened(w))
<1> DEFINE c == Cycling(w)
           s == ShowCycling(c)
           u == SaveSession(s)
           v == SettleTune(u)
<1>1. c \in Page /\ c.arrived = w.arrived /\ c.current = w.current
      /\ SameWork(w, c) /\ SameAsks(w, c)
  BY CyclingFacts
<1> HIDE DEF c
<1>2. (c.arrived > 0 => Shown(c, s)) /\ (c.arrived = 0 => Ended(c, s))
  BY <1>1, ShowCyclingFacts
<1>3. s \in Page
  BY <1>1, <1>2 DEF Shown, Ended, Page
<1> HIDE DEF s
<1>4. Same(s, u) /\ u \in Page
  BY <1>3, SaveSessionSame DEF Same
<1> HIDE DEF u
<1>5. Same(s, v)
  BY <1>4, SettleTuneSame, SameTransitive
<1>6. Opened(w) = v
  BY DEF Opened, v, u, s, c, Cycling
<1> HIDE DEF v
<1>7. Ended(c, v) => Ended(w, v)
  BY <1>1 DEF Ended, SameWork, SameMounts, SameAsks, Astray
<1> QED
  BY <1>1, <1>2, <1>5, <1>6, <1>7, ShownSame, EndedSame DEF c

LEMMA SelectedFacts ==
  ASSUME NEW w \in Page
  PROVE  LET u == [w EXCEPT !.selection = NoSelection] IN
         /\ u \in Page /\ u.selection = NoSelection /\ u.tasks = w.tasks /\ u.preview = w.preview
         /\ u.waiting = w.waiting /\ u.saved = w.saved
         /\ SameCard(w, u) /\ SameAsks(w, u) /\ SameSession(w, u) /\ SameView(w, u)
         /\ u.arrived > 0 => Shown(u, Selected(w))
         /\ u.arrived = 0 => Ended(u, Selected(w))
<1> DEFINE u == [w EXCEPT !.selection = NoSelection]
           s == ShowCycling(u)
<1>1. /\ u \in Page /\ u.selection = NoSelection /\ u.tasks = w.tasks /\ u.preview = w.preview
      /\ u.waiting = w.waiting /\ u.saved = w.saved
      /\ SameCard(w, u) /\ SameAsks(w, u) /\ SameSession(w, u) /\ SameView(w, u)
  BY Constants DEF Page, SameCard, SameAsks, SameSession, SameView
<1> HIDE DEF u
<1>2. (u.arrived > 0 => Shown(u, s)) /\ (u.arrived = 0 => Ended(u, s))
  BY <1>1, ShowCyclingFacts
<1>3. s \in Page
  BY <1>1, <1>2 DEF Shown, Ended, Page
<1>4. Selected(w) = SaveSession(s)
  BY DEF Selected, s, u
<1> HIDE DEF s
<1>5. Same(s, SaveSession(s))
  BY <1>3, SaveSessionSame
<1> QED
  BY <1>1, <1>2, <1>4, <1>5, ShownSame, EndedSame DEF u

\* What failed to mount takes the preview of its session down.
Aborted(w, v, id) ==
  /\ v \in Page /\ SavedIn(w, v) /\ ~v.bar /\ v.visible = w.visible /\ v.waiting = NoSession
  /\ SameCard(w, v) /\ SameAsks(w, v) /\ SameSession(w, v)
  /\ w.preview.id # id => SameMounts(w, v)
  /\ w.preview.id = id => Astray(w, v) /\ v.preview = NoPreview

LEMMA AbortFacts ==
  ASSUME NEW w \in Page, NEW id
  PROVE  Aborted(w, Abort(w, id), id)
<1> DEFINE t == IF w.preview.id = id THEN Teardown(w) ELSE w
           u == [t EXCEPT !.waiting = NoSession, !.bar = FALSE]
           v == SaveSession(u)
<1>1. /\ t \in Page /\ t.saved = w.saved /\ t.visible = w.visible
      /\ SameCard(w, t) /\ SameAsks(w, t) /\ SameSession(w, t)
      /\ w.preview.id # id => SameMounts(w, t)
      /\ w.preview.id = id => Astray(w, t) /\ t.preview = NoPreview
  BY TeardownFacts DEF SameMounts, SameAsks, SameSession, SameView, SameCard
<1> HIDE DEF t
<1>2. /\ u \in Page /\ u.saved = t.saved /\ u.visible = t.visible /\ ~u.bar /\ u.waiting = NoSession
      /\ SameCard(t, u) /\ SameAsks(t, u) /\ SameSession(t, u) /\ SameMounts(t, u)
  BY <1>1, Constants DEF Page, SameMounts, SameAsks, SameSession, SameCard
<1> HIDE DEF u
<1>3. Same(u, v)
  BY <1>2, SaveSessionSame
<1>4. Abort(w, id) = v
  BY DEF Abort, v, u, t
<1> HIDE DEF v
<1>5. /\ v \in Page /\ ~v.bar /\ v.visible = w.visible /\ v.waiting = NoSession
      /\ SameCard(w, v) /\ SameAsks(w, v) /\ SameSession(w, v) /\ SameMounts(t, v)
  BY <1>1, <1>2, <1>3 DEF Same, SameView, SameSession, SameCard, SameAsks, SameMounts, SameWork
<1>6. SavedIn(w, v)
  BY <1>1, <1>2, <1>3 DEF Same, SavedIn
<1>7. SameMounts(w, t) => SameMounts(w, v)
  BY <1>5 DEF SameMounts
<1>8. Astray(w, t) => Astray(w, v)
  BY <1>5 DEF SameMounts, Astray
<1>9. v.preview = t.preview
  BY <1>5 DEF SameMounts
<1> QED
  BY <1>1, <1>4, <1>5, <1>6, <1>7, <1>8, <1>9 DEF Aborted

-----------------------------------------------------------------------------
(* The parts the handlers are made of. *)

Others(w, v, i) == \A k \in Slots \ {i} : v.tasks[k] = w.tasks[k]
\* Nothing but the tasks.
Beside(w, v) ==
  /\ v.selection = w.selection /\ v.preview = w.preview /\ v.waiting = w.waiting
  /\ v.saved = w.saved /\ SameCard(w, v) /\ SameAsks(w, v) /\ SameSession(w, v) /\ SameView(w, v)

LEMMA TaskFacts ==
  ASSUME NEW w \in Page, NEW i \in Slots, NEW t \in Task
  PROVE  LET v == [w EXCEPT !.tasks[i] = t] IN
         v \in Page /\ v.tasks[i] = t /\ Others(w, v, i) /\ Beside(w, v)
<1> DEFINE k == [w.tasks EXCEPT ![i] = t]
           v == [w EXCEPT !.tasks = k]
<1>1. w.tasks \in [Slots -> Task]
  BY DEF Page
<1>2. k \in [Slots -> Task] /\ k[i] = t /\ \A j \in Slots \ {i} : k[j] = w.tasks[j]
  BY <1>1
<1> HIDE DEF k
<1>3. v \in Page /\ v.tasks = k
  BY <1>2 DEF Page
<1>4. Beside(w, v)
  BY DEF Page, Beside, SameCard, SameAsks, SameSession, SameView
<1> HIDE DEF v
<1>5. [w EXCEPT !.tasks[i] = t] = v
  BY DEF v, k, Page
<1> QED
  BY <1>2, <1>3, <1>4, <1>5 DEF Others

LEMMA DoneFacts ==
  ASSUME NEW w \in Page, NEW i \in Slots
  PROVE  LET v == Done(w, i) IN
         v \in Page /\ v.tasks[i] = Idle /\ Others(w, v, i) /\ Beside(w, v)
BY Constants, TaskFacts DEF Done

Injected(file, id) == [Idle EXCEPT !.step = "manifest", !.file = file, !.id = id]

LEMMA InjectFacts ==
  ASSUME NEW w \in Page, NEW i \in Slots, NEW file \in Maybe, NEW id \in Maybe
  PROVE  LET v == Inject(w, i, file, id) IN
         /\ v \in Page /\ Others(w, v, i) /\ Beside(w, v)
         /\ v.tasks[i].step = "manifest" /\ v.tasks[i].file = file /\ v.tasks[i].id = id
         /\ ~v.tasks[i].own
<1> DEFINE t == Injected(file, id)
<1>1. t \in Task /\ t.step = "manifest" /\ t.file = file /\ t.id = id /\ ~t.own
  BY Constants DEF Injected, Idle, Task
<1>2. Inject(w, i, file, id) = [w EXCEPT !.tasks[i] = t]
  BY DEF Inject, Injected
<1> HIDE DEF t
<1> QED
  BY <1>1, <1>2, TaskFacts

\* A task that goes on to another step.
StepOf(t, u, step) ==
  /\ u.step = step /\ u.id = t.id /\ u.variant = t.variant /\ u.own = t.own
  /\ u.file = t.file /\ u.first = t.first

LEMMA StepFacts ==
  ASSUME NEW w \in Page, NEW i \in Slots, NEW step \in {"idle", "manifest", "params", "mount", "explain"}
  PROVE  LET v == [w EXCEPT !.tasks[i].step = step]
         IN v \in Page /\ Others(w, v, i) /\ Beside(w, v) /\ StepOf(w.tasks[i], v.tasks[i], step)
<1> DEFINE t == w.tasks[i]
           u == [t EXCEPT !.step = step]
<1>1. t \in Task
  BY DEF Page
<1>2. /\ u \in Task /\ u.step = step /\ u.file = t.file /\ u.id = t.id /\ u.first = t.first
      /\ u.variant = t.variant /\ u.own = t.own
  BY <1>1 DEF Task
<1>3. [w EXCEPT !.tasks[i].step = step] = [w EXCEPT !.tasks[i] = u]
  OBVIOUS
<1> HIDE DEF u
<1> QED
  BY <1>2, <1>3, TaskFacts DEF StepOf

\* What mounting leaves of the preview and of a card about it.
LEMMA MountedFacts ==
  ASSUME NEW w \in Page, NEW id, NEW own \in BOOLEAN, NEW n \in 0..Count
  PROVE  LET v == Mounted(w, id, own, n) IN
         /\ v \in Page /\ v.tasks = w.tasks /\ v.selection = w.selection /\ v.waiting = w.waiting
         /\ v.preview.id = w.preview.id /\ v.preview.mounted = n
         /\ v.preview.shown = IF own THEN n ELSE 0
         /\ v.saved = w.saved /\ SameAsks(w, v) /\ SameSession(w, v) /\ SameView(w, v)
         /\ SameCard(w, v) \/ (~v.hasCard /\ v.card = NoCard)
<1> DEFINE r == [w.preview EXCEPT !.mounted = n, !.shown = IF own THEN n ELSE 0]
           u == [w EXCEPT !.preview = r]
<1>1. r \in Preview /\ r.id = w.preview.id /\ r.mounted = n /\ r.shown = IF own THEN n ELSE 0
  BY Constants DEF Page, Preview
<1> HIDE DEF r
<1>2. /\ u \in Page /\ u.preview = r /\ u.tasks = w.tasks /\ u.selection = w.selection
      /\ u.waiting = w.waiting /\ u.saved = w.saved
      /\ SameAsks(w, u) /\ SameSession(w, u) /\ SameView(w, u) /\ SameCard(w, u)
  BY <1>1 DEF Page, SameAsks, SameSession, SameView, SameCard
<1> HIDE DEF u
<1> DEFINE v == IF w.hasCard /\ w.card.id = id /\ w.card.variant = n THEN ClearCard(u) ELSE u
<1>3. Mounted(w, id, own, n) = v
  BY <1>2 DEF Mounted, v, u, r, SameCard, Page
<1>4. /\ v \in Page /\ SameWork(u, v) /\ SameAsks(u, v) /\ SameSession(u, v) /\ SameView(u, v)
      /\ v.saved = u.saved
      /\ v = u \/ (~v.hasCard /\ v.card = NoCard)
  BY <1>2, ClearCardFacts DEF SameWork, SameAsks, SameSession, SameView
<1> HIDE DEF v
<1>5. SameAsks(w, v) /\ SameSession(w, v) /\ SameView(w, v) /\ v.saved = w.saved
  BY <1>2, <1>4 DEF SameAsks, SameSession, SameView
<1>6. /\ v.preview = r /\ v.tasks = w.tasks /\ v.selection = w.selection /\ v.waiting = w.waiting
  BY <1>2, <1>4 DEF SameWork
<1> QED
  BY <1>1, <1>2, <1>3, <1>4, <1>5, <1>6

LEMMA ThrownFacts ==
  ASSUME NEW w \in Page, NEW threw
  PROVE  LET v == Thrown(w, threw) IN
         /\ v \in Page /\ v.tasks = w.tasks /\ v.selection = w.selection /\ v.waiting = w.waiting
         /\ v.saved = w.saved /\ SameCard(w, v) /\ SameAsks(w, v) /\ SameSession(w, v) /\ SameView(w, v)
         /\ \/ v.preview = w.preview
            \/ w.preview.id # NoSession /\ v.preview.id = w.preview.id /\ v.preview.shown = 0
               /\ v.preview.mounted = w.preview.mounted
<1>1. CASE threw /\ w.preview.id # NoSession
  <2> DEFINE r == [w.preview EXCEPT !.shown = 0]
             v == [w EXCEPT !.preview = r]
  <2>1. r \in Preview /\ r.id = w.preview.id /\ r.shown = 0 /\ r.mounted = w.preview.mounted
    BY Constants DEF Page, Preview
  <2> HIDE DEF r
  <2>2. /\ v \in Page /\ v.preview = r /\ v.tasks = w.tasks /\ v.selection = w.selection
        /\ v.waiting = w.waiting /\ v.saved = w.saved
        /\ SameAsks(w, v) /\ SameSession(w, v) /\ SameView(w, v) /\ SameCard(w, v)
    BY <2>1 DEF Page, SameAsks, SameSession, SameView, SameCard
  <2> HIDE DEF v
  <2>3. Thrown(w, threw) = v
    BY <1>1 DEF Thrown, v, r
  <2> QED
    BY <1>1, <2>1, <2>2, <2>3
<1>2. CASE ~(threw /\ w.preview.id # NoSession)
  BY <1>2 DEF Thrown, SameAsks, SameSession, SameView, SameCard
<1> QED
  BY <1>1, <1>2

TurnedTo(w, n, previous, back) ==
  [step |-> "mount", back |-> back, id |-> w.preview.id, variant |-> n,
   previous |-> previous, own |-> TRUE]

LEMMA TurnFacts ==
  ASSUME NEW w \in Page, NEW n \in 0..Count, NEW previous \in 0..Count, NEW back \in BOOLEAN
  PROVE  LET v == Turn(w, n, previous, back) IN
         /\ v \in Page /\ v.tasks = w.tasks /\ v.preview = w.preview /\ v.waiting = w.waiting
         /\ v.saved = w.saved /\ SameCard(w, v) /\ SameAsks(w, v) /\ SameSession(w, v) /\ v.bar = w.bar
         /\ \/ w.preview.id = w.current /\ w.current # NoSession /\ v.visible = n
               /\ v.selection = TurnedTo(w, n, previous, back)
            \/ (w.preview.id # w.current \/ w.current = NoSession) /\ v.visible = previous
               /\ v.selection = NoSelection
<1>1. TurnedTo(w, n, previous, back) \in Selection
  BY DEF TurnedTo, Selection, Page, Preview
<1>2. CASE w.preview.id = w.current /\ w.current # NoSession
  <2> DEFINE s == TurnedTo(w, n, previous, back)
             v == [w EXCEPT !.visible = n, !.selection = s]
  <2>1. Turn(w, n, previous, back) = v
    BY <1>2 DEF Turn, TurnedTo
  <2>2. s \in Selection
    BY <1>1
  <2> HIDE DEF s
  <2>3. /\ v \in Page /\ v.tasks = w.tasks /\ v.preview = w.preview /\ v.waiting = w.waiting
        /\ v.saved = w.saved /\ SameCard(w, v) /\ SameAsks(w, v) /\ SameSession(w, v) /\ v.bar = w.bar
        /\ v.visible = n /\ v.selection = s
    BY <2>2 DEF Page, SameCard, SameAsks, SameSession
  <2> HIDE DEF v
  <2> QED
    BY <1>2, <2>1, <2>3 DEF s
<1>3. CASE ~(w.preview.id = w.current /\ w.current # NoSession)
  <2> DEFINE v == [w EXCEPT !.visible = previous, !.selection = NoSelection]
  <2>1. Turn(w, n, previous, back) = v
    BY <1>3 DEF Turn
  <2>2. /\ v \in Page /\ v.tasks = w.tasks /\ v.preview = w.preview /\ v.waiting = w.waiting
        /\ v.saved = w.saved /\ SameCard(w, v) /\ SameAsks(w, v) /\ SameSession(w, v) /\ v.bar = w.bar
        /\ v.visible = previous /\ v.selection = NoSelection
    BY Constants DEF Page, SameCard, SameAsks, SameSession
  <2> HIDE DEF v
  <2> QED
    BY <1>3, <2>1, <2>2
<1> QED
  BY <1>2, <1>3

LEMMA CommitFacts ==
  ASSUME NEW w \in Page, NEW id
  PROVE  LET v == Commit(w, id) IN
         /\ v \in Page /\ v.waiting = w.waiting /\ SameCard(w, v) /\ SameSession(w, v) /\ SameView(w, v)
         /\ v.asked = w.asked /\ v.pending = w.pending /\ v.accepted = w.accepted
         /\ \/ w.preview.id = id /\ w.preview.shown > 0 /\ Astray(w, v) /\ v.preview = NoPreview
               /\ v.committed = w.preview.shown
            \/ ~(w.preview.id = id /\ w.preview.shown > 0) /\ SameMounts(w, v)
               /\ v.committed = w.committed
<1>1. CASE w.preview.id = id /\ w.preview.shown > 0
  <2> DEFINE d == Disowned(w)
             v == [d EXCEPT !.preview = NoPreview, !.committed = w.preview.shown]
  <2>1. /\ d \in Page /\ Astray(w, d) /\ d.waiting = w.waiting
        /\ SameCard(w, d) /\ SameAsks(w, d) /\ SameSession(w, d) /\ SameView(w, d)
    BY DisownedFacts
  <2> HIDE DEF d
  <2>2. w.preview.shown \in 0..Count
    BY DEF Page, Preview
  <2>3. /\ v \in Page /\ v.preview = NoPreview /\ v.committed = w.preview.shown
        /\ v.tasks = d.tasks /\ v.selection = d.selection /\ v.waiting = d.waiting
        /\ v.asked = d.asked /\ v.pending = d.pending /\ v.accepted = d.accepted
    BY <2>1, <2>2, Constants DEF Page
  <2>4. SameCard(d, v) /\ SameSession(d, v) /\ SameView(d, v)
    BY <2>1 DEF Page, SameCard, SameSession, SameView
  <2> HIDE DEF v
  <2>5. Commit(w, id) = v
    BY <1>1 DEF Commit, v, d
  <2>6. Astray(w, v) /\ SameCard(w, v) /\ SameSession(w, v) /\ SameView(w, v)
    BY <2>1, <2>3, <2>4 DEF Astray, SameCard, SameSession, SameView
  <2>7. v.asked = w.asked /\ v.pending = w.pending /\ v.accepted = w.accepted /\ v.waiting = w.waiting
    BY <2>1, <2>3 DEF SameAsks
  <2> QED
    BY <1>1, <2>3, <2>5, <2>6, <2>7
<1>2. CASE ~(w.preview.id = id /\ w.preview.shown > 0)
  BY <1>2 DEF Commit, SameCard, SameSession, SameView, SameMounts
<1> QED
  BY <1>1, <1>2

LEMMA ReleaseFacts ==
  ASSUME NEW w \in Page
  PROVE  LET v == Release(w) IN
         /\ v \in Page /\ v.state = "PICKING" /\ v.current = NoSession /\ v.file = NoSession
         /\ v.saved = NoSaved /\ v.pending = NoSession /\ ~v.bar
         /\ SameWork(w, v) /\ SameCard(w, v) /\ v.asked = w.asked
         /\ v.accepted = w.accepted /\ v.committed = w.committed
         /\ v.arrived = w.arrived /\ v.visible = w.visible
BY Constants DEF Release, Page, State, Tune, SameWork, SameCard

-----------------------------------------------------------------------------
(* What the steps do. *)

IsIdle(t) == t.step = "idle" /\ t.id = NoSession /\ ~t.own

\* A task ends with a card, which says what happened.
Reported(w, v, i) ==
  LET t == w.tasks[i] IN
  /\ v \in Page /\ IsIdle(v.tasks[i]) /\ Others(w, v, i) /\ v.selection = w.selection
  /\ v.preview = w.preview /\ v.waiting = w.waiting
  /\ v.hasCard /\ v.card.id = (IF t.id = NoSession THEN w.current ELSE t.id)
  /\ v.card.file \in {t.file, w.file} /\ (w.file # NoSession /\ t.file # NoSession => v.card.file # NoSession)
  /\ SavedIn(w, v) /\ SameAsks(w, v) /\ SameSession(w, v) /\ SameView(w, v)

\* And takes the preview of its session down.
Dropped(w, v, i) ==
  LET t == w.tasks[i] IN
  /\ v \in Page /\ IsIdle(v.tasks[i]) /\ v.waiting = NoSession
  /\ v.hasCard /\ v.card.id = (IF t.id = NoSession THEN w.current ELSE t.id)
  /\ v.card.file \in {t.file, w.file} /\ (w.file # NoSession /\ t.file # NoSession => v.card.file # NoSession)
  /\ SavedIn(w, v) /\ SameAsks(w, v) /\ SameSession(w, v) /\ v.visible = w.visible /\ ~v.bar
  /\ \/ w.preview.id # t.id /\ v.preview = w.preview /\ v.selection = w.selection /\ Others(w, v, i)
     \/ /\ w.preview.id = t.id /\ v.preview = NoPreview
        /\ AlikeSelection(w.selection, v.selection) /\ ~v.selection.own
        /\ \A k \in Slots \ {i} : Alike(w.tasks[k], v.tasks[k]) /\ ~v.tasks[k].own

\* A task goes on, and nothing else changes.
Proceeds(w, v, i, step) ==
  LET t == w.tasks[i]
      u == v.tasks[i]
  IN /\ v \in Page /\ Others(w, v, i) /\ Beside(w, v)
     /\ u.step = step /\ u.file = t.file /\ u.id = t.id /\ u.first = t.first /\ u.own = t.own

LEMMA ReportedIf ==
  ASSUME NEW w \in Page, NEW i \in Slots, NEW variant \in 0..Count, NEW file \in {w.tasks[i].file, NoSession}
  PROVE  LET v == ShowCard(Done(w, i), w.tasks[i].id, variant, file)
         IN Reported(w, v, i) /\ Reported(w, SaveSession(v), i)
<1> DEFINE d == Done(w, i)
           v == ShowCard(d, w.tasks[i].id, variant, file)
           u == SaveSession(v)
<1>1. w.tasks[i] \in Task
  BY DEF Page
<1>2. w.tasks[i].id \in Maybe /\ w.tasks[i].file \in Maybe /\ file \in Maybe
  BY <1>1, Constants DEF Task
<1>3. d \in Page /\ d.tasks[i] = Idle /\ Others(w, d, i) /\ Beside(w, d)
  BY DoneFacts
<1> HIDE DEF d
<1>4. /\ v \in Page /\ v.hasCard /\ v.saved = d.saved
      /\ v.card.id = (IF w.tasks[i].id = NoSession THEN d.current ELSE w.tasks[i].id)
      /\ v.card.file = (IF file = NoSession THEN d.file ELSE file)
      /\ SameWork(d, v) /\ SameAsks(d, v) /\ SameSession(d, v) /\ SameView(d, v)
  BY <1>2, <1>3, ShowCardFacts
<1> HIDE DEF v
<1>5. d.current = w.current /\ d.file = w.file
  BY <1>3 DEF Beside, SameSession
<1>6. Reported(w, v, i)
  <2>1. IsIdle(v.tasks[i]) /\ Others(w, v, i)
    BY <1>3, <1>4 DEF IsIdle, Idle, Others, SameWork
  <2>2. /\ v.selection = w.selection /\ v.preview = w.preview /\ v.waiting = w.waiting /\ v.saved = w.saved
        /\ SameAsks(w, v) /\ SameSession(w, v) /\ SameView(w, v)
    BY <1>3, <1>4 DEF Beside, SameWork, SameAsks, SameSession, SameView
  <2> QED
    BY <1>4, <1>5, <2>1, <2>2 DEF Reported, SavedIn
<1>7. Same(v, u)
  BY <1>4, SaveSessionSame
<1> HIDE DEF u
<1>8. Reported(w, u, i)
  BY <1>6, <1>7 DEF Reported, Same, SavedIn, SameWork, SameCard, SameAsks, SameSession, SameView, Others
<1> QED
  BY <1>6, <1>8 DEF u, v, d

\* Whether the card is shown before the preview is taken down or after it.
LEMMA DroppedIf ==
  ASSUME NEW w \in Page, NEW i \in Slots, NEW variant \in 0..Count
  PROVE  LET t == w.tasks[i] IN
         /\ Dropped(w, ShowCard(Abort(Done(w, i), t.id), t.id, variant, t.file), i)
         /\ Dropped(w, Abort(ShowCard(Done(w, i), t.id, variant, NoSession), t.id), i)
<1> DEFINE t == w.tasks[i]
           d == Done(w, i)
           a == Abort(d, t.id)
           v == ShowCard(a, t.id, variant, t.file)
           c == ShowCard(d, t.id, variant, NoSession)
           u == Abort(c, t.id)
<1>1. t \in Task
  BY DEF Page
<1>2. t.id \in Maybe /\ t.file \in Maybe /\ NoSession \in Maybe
  BY <1>1, Constants DEF Task
<1>3. d \in Page /\ d.tasks[i] = Idle /\ Others(w, d, i) /\ Beside(w, d)
  BY DoneFacts
<1> HIDE DEF t, d
<1>4. Aborted(d, a, t.id)
  BY <1>3, AbortFacts
<1>0. a \in Page
  BY <1>4 DEF Aborted
<1> HIDE DEF a
<1>5. /\ v \in Page /\ v.hasCard /\ v.saved = a.saved
      /\ v.card.id = (IF t.id = NoSession THEN a.current ELSE t.id)
      /\ v.card.file = (IF t.file = NoSession THEN a.file ELSE t.file)
      /\ SameWork(a, v) /\ SameAsks(a, v) /\ SameSession(a, v) /\ SameView(a, v)
  <2> DEFINE id == t.id
             file == t.file
  <2>1. id \in Maybe /\ file \in Maybe /\ v = ShowCard(a, id, variant, file)
    BY <1>2
  <2> HIDE DEF v, id, file
  <2>2. /\ v \in Page /\ v.hasCard /\ v.saved = a.saved
        /\ v.card.id = (IF id = NoSession THEN a.current ELSE id)
        /\ v.card.file = (IF file = NoSession THEN a.file ELSE file)
        /\ SameWork(a, v) /\ SameAsks(a, v) /\ SameSession(a, v) /\ SameView(a, v)
    BY <1>0, <2>1, ShowCardFacts
  <2> QED
    BY <2>2 DEF id, file
<1> HIDE DEF v
<1>6. /\ c \in Page /\ c.hasCard /\ c.saved = d.saved
      /\ c.card.id = (IF t.id = NoSession THEN d.current ELSE t.id)
      /\ c.card.file = d.file
      /\ SameWork(d, c) /\ SameAsks(d, c) /\ SameSession(d, c) /\ SameView(d, c)
  BY <1>2, <1>3, ShowCardFacts
<1> HIDE DEF c
<1>7. Aborted(c, u, t.id)
  BY <1>6, AbortFacts
<1> HIDE DEF u
<1>8. Alike(Idle, d.tasks[i]) /\ ~d.tasks[i].own
  BY <1>3 DEF Alike, Idle
<1>9. ASSUME NEW x, SameMounts(d, x) \/ Astray(d, x), d.preview.id # t.id => SameMounts(d, x),
             d.preview.id = t.id => Astray(d, x) /\ x.preview = NoPreview
      PROVE  /\ IsIdle(x.tasks[i])
             /\ \/ w.preview.id # t.id /\ x.preview = w.preview /\ x.selection = w.selection /\ Others(w, x, i)
                \/ /\ w.preview.id = t.id /\ x.preview = NoPreview
                   /\ AlikeSelection(w.selection, x.selection) /\ ~x.selection.own
                   /\ \A k \in Slots \ {i} : Alike(w.tasks[k], x.tasks[k]) /\ ~x.tasks[k].own
  <2>1. d.preview = w.preview /\ d.selection = w.selection
    BY <1>3 DEF Beside
  <2>2. IsIdle(x.tasks[i])
    BY <1>3, <1>8, <1>9 DEF SameMounts, Astray, Alike, IsIdle, Idle
  <2>3. CASE w.preview.id # t.id
    BY <1>3, <1>9, <2>1, <2>2, <2>3 DEF SameMounts, Others
  <2>4. CASE w.preview.id = t.id
    BY <1>3, <1>9, <2>1, <2>2, <2>4 DEF Astray, Others
  <2> QED
    BY <2>3, <2>4
<1>10. Dropped(w, v, i)
  <2>1. SameMounts(a, v)
    BY <1>5 DEF SameMounts, SameWork
  <2>2. d.preview.id # t.id => SameMounts(d, v)
    BY <1>4, <2>1 DEF Aborted, SameMounts
  <2>3. d.preview.id = t.id => Astray(d, v) /\ v.preview = NoPreview
    BY <1>4, <2>1 DEF Aborted, SameMounts, Astray
  <2>4. v.waiting = NoSession /\ SameAsks(w, v) /\ SameSession(w, v) /\ v.visible = w.visible /\ ~v.bar
        /\ a.current = w.current /\ a.file = w.file
    BY <1>3, <1>4, <1>5 DEF Aborted, Beside, SameWork, SameAsks, SameSession, SameView
  <2>5. SavedIn(w, v)
    BY <1>3, <1>4, <1>5 DEF Aborted, Beside, SavedIn, SameSession, SameView
  <2> QED
    BY <1>5, <1>9, <2>2, <2>3, <2>4, <2>5 DEF Dropped, t
<1>11. Dropped(w, u, i)
  <2>1. SameMounts(d, c)
    BY <1>6 DEF SameMounts, SameWork
  <2>2. d.preview.id # t.id => SameMounts(d, u)
    BY <1>7, <2>1 DEF Aborted, SameMounts
  <2>3. d.preview.id = t.id => Astray(d, u) /\ u.preview = NoPreview
    BY <1>7, <2>1 DEF Aborted, SameMounts, Astray
  <2>4. u.waiting = NoSession /\ SameAsks(w, u) /\ SameSession(w, u) /\ u.visible = w.visible /\ ~u.bar
        /\ d.current = w.current /\ d.file = w.file /\ SameCard(c, u) /\ u \in Page
    BY <1>3, <1>6, <1>7 DEF Aborted, Beside, SameWork, SameAsks, SameSession, SameView
  <2>5. SavedIn(w, u)
    BY <1>3, <1>6, <1>7 DEF Aborted, Beside, SavedIn, SameSession, SameView
  <2> QED
    BY <1>6, <1>9, <2>2, <2>3, <2>4, <2>5 DEF Dropped, SameCard, t
<1> QED
  BY <1>10, <1>11 DEF v, a, u, c, d, t

LEMMA ManifestReadEffect ==
  ASSUME TypeOK, NEW i \in Slots, ManifestRead(i), page.tasks[i].id # NoSession
  PROVE  LET t == page.tasks[i] IN
         /\ t.step = "manifest" /\ UNCHANGED surroundings
         /\ \/ /\ UNCHANGED faults /\ t.file = t.id /\ Proceeds(page, page', i, "params")
               /\ page'.tasks[i].variant = published[t.id]
            \/ UNCHANGED faults /\ t.file # t.id /\ Reported(page, page', i)
            \/ Goes(FALSE) /\ Dropped(page, page', i)
<1> DEFINE t == page.tasks[i]
<1>1. PICK ok \in BOOLEAN :
        /\ Goes(ok)
        /\ page' =
            IF ~ok THEN ShowCard(Abort(Done(page, i), t.id), t.id, page.visible, t.file)
            ELSE IF t.file # t.id THEN ShowCard(Done(page, i), t.id, page.visible, t.file)
            ELSE [page EXCEPT !.tasks[i].step = "params", !.tasks[i].variant = published[t.id]]
  BY DEF ManifestRead
<1>2. t.step = "manifest" /\ UNCHANGED surroundings
  BY DEF ManifestRead
<1>3. page \in Page /\ page.visible \in 0..Count /\ t \in Task
  BY DEF TypeOK, Page
<1>4. CASE ~ok
  BY <1>1, <1>2, <1>3, <1>4, DroppedIf
<1>5. CASE ok /\ t.file # t.id
  BY <1>1, <1>2, <1>3, <1>5, ReportedIf DEF Goes
<1>6. CASE ok /\ t.file = t.id
  <2> DEFINE n == published[t.id]
             u == [t EXCEPT !.step = "params", !.variant = n]
  <2>1. page' = [page EXCEPT !.tasks[i] = u]
    BY <1>1, <1>3, <1>6 DEF Page
  <2>2. n \in 0..Count
    BY <1>3 DEF Task, TypeOK, Maybe, Page
  <2> HIDE DEF n
  <2>3. /\ u \in Task /\ u.step = "params" /\ u.variant = n
        /\ u.file = t.file /\ u.id = t.id /\ u.first = t.first /\ u.own = t.own
    BY <1>3, <2>2 DEF Task
  <2> HIDE DEF u
  <2>4. page' \in Page /\ page'.tasks[i] = u /\ Others(page, page', i) /\ Beside(page, page')
    BY <1>3, <2>1, <2>3, TaskFacts
  <2> QED
    BY <1>1, <1>2, <1>6, <2>3, <2>4 DEF Goes, Proceeds, n
<1> QED
  BY <1>4, <1>5, <1>6

MountOf(t, u, m) ==
  u.step = "mount" /\ u.id = t.id /\ u.file = t.file /\ u.variant = m /\ u.own

\* Its preview is there, or the picked element is not, or it begins a preview.
MountsAgain(w, v, i) ==
  /\ w.preview.id = w.tasks[i].id /\ v.preview = w.preview /\ v.selection = w.selection
  /\ v.waiting = w.waiting /\ Others(w, v, i) /\ v.bar = w.bar
  /\ v.state = (IF w.state = "CYCLING" THEN w.state ELSE "GENERATING")
  /\ MountOf(w.tasks[i], v.tasks[i], v.visible)
Waits(w, v, i) ==
  /\ w.preview.id # w.tasks[i].id /\ v.preview = w.preview /\ v.selection = w.selection
  /\ v.waiting = w.tasks[i].id /\ Others(w, v, i) /\ v.bar /\ v.state = "GENERATING"
  /\ v.tasks[i] = Idle
MountsFirst(w, v, i) ==
  /\ w.preview.id # w.tasks[i].id /\ v.preview = [NoPreview EXCEPT !.id = w.tasks[i].id]
  /\ v.waiting = NoSession /\ v.bar = w.bar
  /\ v.state = (IF w.state = "CYCLING" THEN w.state ELSE "GENERATING")
  /\ AlikeSelection(w.selection, v.selection) /\ ~v.selection.own
  /\ \A k \in Slots \ {i} : Alike(w.tasks[k], v.tasks[k]) /\ ~v.tasks[k].own
  /\ MountOf(w.tasks[i], v.tasks[i], v.visible)

MountOn(v, i, first, m) ==
  [v EXCEPT !.waiting = IF first THEN NoSession ELSE @,
            !.tasks[i] = [@ EXCEPT !.step = "mount", !.first = first, !.variant = m, !.own = TRUE]]

LEMMA MountTaskFacts ==
  ASSUME NEW v \in Page, NEW i \in Slots, NEW first \in BOOLEAN, NEW m \in 0..Count
  PROVE  LET u == MountOn(v, i, first, m)
         IN /\ u \in Page /\ MountOf(v.tasks[i], u.tasks[i], m) /\ Others(v, u, i)
            /\ u.waiting = (IF first THEN NoSession ELSE v.waiting)
            /\ u.selection = v.selection /\ u.preview = v.preview /\ u.saved = v.saved
            /\ SameCard(v, u) /\ SameAsks(v, u) /\ SameSession(v, u) /\ SameView(v, u)
<1> DEFINE t == v.tasks[i]
           x == [t EXCEPT !.step = "mount", !.first = first, !.variant = m, !.own = TRUE]
           k == [v.tasks EXCEPT ![i] = x]
           y == IF first THEN NoSession ELSE v.waiting
           u == [v EXCEPT !.waiting = y, !.tasks = k]
<1>1. v.tasks \in [Slots -> Task] /\ t \in Task /\ y \in Maybe
  BY Constants DEF Page
<1>2. x \in Task /\ MountOf(t, x, m)
  BY <1>1 DEF Task, MountOf
<1>3. u = MountOn(v, i, first, m)
  BY <1>1 DEF Page, MountOn
<1> HIDE DEF x
<1>4. k \in [Slots -> Task] /\ k[i] = x /\ \A j \in Slots \ {i} : k[j] = v.tasks[j]
  BY <1>1, <1>2
<1> HIDE DEF k, y
<1>5. u \in Page /\ u.tasks = k /\ u.waiting = y
  BY <1>1, <1>4 DEF Page
<1>6. /\ u.selection = v.selection /\ u.preview = v.preview /\ u.saved = v.saved
      /\ SameCard(v, u) /\ SameAsks(v, u) /\ SameSession(v, u) /\ SameView(v, u)
  BY DEF Page, SameCard, SameAsks, SameSession, SameView
<1> HIDE DEF u
<1> QED
  BY <1>2, <1>3, <1>4, <1>5, <1>6 DEF Others, y

LEMMA ParamsReadEffect ==
  ASSUME TypeOK, NEW i \in Slots, ParamsRead(i)
  PROVE  LET t == page.tasks[i]
             n == IF t.variant = 0 THEN 1 ELSE t.variant
         IN /\ t.step = "params" /\ UNCHANGED world /\ page' \in Page
            /\ n > 0 /\ n \in 1..Count
            /\ page'.current = t.id /\ page'.file = t.file /\ page'.arrived = n
            /\ page'.visible = Visible(page, t.id, n)
            /\ SavedIn(page, page') /\ SameCard(page, page') /\ SameAsks(page, page')
            /\ \/ MountsAgain(page, page', i)
               \/ Waits(page, page', i)
               \/ MountsFirst(page, page', i)
<1> DEFINE t == page.tasks[i]
           n == IF t.variant = 0 THEN 1 ELSE t.variant
           m == Visible(page, t.id, n)
           st == IF page.state = "CYCLING" THEN page.state ELSE "GENERATING"
           w == [page EXCEPT !.current = t.id, !.file = t.file, !.state = st,
                             !.arrived = n, !.visible = m]
           mount(v, first) == MountOn(v, i, first, w.visible)
<1>1. page \in Page /\ t \in Task
  BY DEF TypeOK, Page
<1>2. n \in 1..Count /\ n \in 0..Count /\ n > 0 /\ t.id \in Maybe /\ t.file \in Maybe
  BY <1>1, Constants DEF Task
<1> HIDE DEF n
<1>3. m \in 0..Count
  BY <1>1, <1>2, Constants DEF Visible, Page
<1>4. st \in State
  BY DEF State
<1>5. t.step = "params" /\ UNCHANGED world
  BY DEF ParamsRead
<1>6. page' =
       IF w.preview.id = t.id THEN mount(w, FALSE)
       ELSE IF ~anchor
         THEN SaveSession([Done(w, i) EXCEPT !.state = "GENERATING", !.bar = TRUE, !.waiting = t.id])
       ELSE mount([Disowned(w) EXCEPT !.preview = [NoPreview EXCEPT !.id = t.id]], TRUE)
  BY <1>1 DEF ParamsRead, MountOn, n, Page
<1> HIDE DEF m, st
<1>7. /\ w \in Page /\ w.current = t.id /\ w.file = t.file /\ w.arrived = n /\ w.visible = m
      /\ w.state = st /\ w.bar = page.bar /\ w.saved = page.saved
      /\ SameWork(page, w) /\ SameCard(page, w) /\ SameAsks(page, w)
  BY <1>1, <1>2, <1>3, <1>4 DEF Page, SameWork, SameCard, SameAsks
<1> HIDE DEF w
<1>8. w.tasks[i] = t /\ w.preview = page.preview /\ w.visible \in 0..Count
  BY <1>3, <1>7 DEF SameWork
<1>0. TRUE \in BOOLEAN /\ FALSE \in BOOLEAN
  OBVIOUS
<1>9. CASE page.preview.id = t.id
  <2>1. page' = mount(w, FALSE)
    BY <1>6, <1>8, <1>9
  <2>2. /\ page' \in Page /\ MountOf(w.tasks[i], page'.tasks[i], w.visible) /\ Others(w, page', i)
        /\ page'.waiting = w.waiting
        /\ page'.selection = w.selection /\ page'.preview = w.preview /\ page'.saved = w.saved
        /\ SameCard(w, page') /\ SameAsks(w, page') /\ SameSession(w, page') /\ SameView(w, page')
    BY <1>0, <1>7, <1>8, <2>1, MountTaskFacts
  <2>3. /\ page'.current = t.id /\ page'.file = t.file /\ page'.arrived = n /\ page'.visible = m
        /\ page'.state = st /\ page'.bar = page.bar
        /\ SavedIn(page, page') /\ SameCard(page, page') /\ SameAsks(page, page')
    BY <1>7, <2>2 DEF SavedIn, SameCard, SameAsks, SameSession, SameView
  <2>4. MountsAgain(page, page', i)
    BY <1>7, <1>8, <1>9, <2>2, <2>3 DEF MountsAgain, SameWork, Others, st
  <2> QED
    BY <1>2, <1>5, <2>2, <2>3, <2>4 DEF n, m
<1>10. CASE page.preview.id # t.id /\ ~anchor
  <2> DEFINE d == Done(w, i)
             u == [d EXCEPT !.state = "GENERATING", !.bar = TRUE, !.waiting = t.id]
  <2>1. page' = SaveSession(u)
    BY <1>6, <1>8, <1>10
  <2>2. d \in Page /\ d.tasks[i] = Idle /\ Others(w, d, i) /\ Beside(w, d)
    BY <1>7, DoneFacts
  <2> HIDE DEF d
  <2>3. /\ u \in Page /\ u.state = "GENERATING" /\ u.bar /\ u.waiting = t.id
        /\ u.tasks = d.tasks /\ u.selection = d.selection /\ u.preview = d.preview
        /\ u.saved = d.saved /\ SameCard(d, u) /\ SameAsks(d, u)
        /\ u.current = d.current /\ u.file = d.file /\ u.arrived = d.arrived /\ u.visible = d.visible
    BY <1>2, <2>2 DEF Page, State, SameCard, SameAsks
  <2> HIDE DEF u
  <2>4. Same(u, page')
    BY <2>1, <2>3, SaveSessionSame
  <2>5. /\ page'.current = t.id /\ page'.file = t.file /\ page'.arrived = n /\ page'.visible = m
        /\ page' \in Page /\ page'.state = "GENERATING" /\ page'.bar
        /\ SavedIn(page, page') /\ SameCard(page, page') /\ SameAsks(page, page')
    BY <1>7, <2>2, <2>3, <2>4
    DEF Same, Beside, SavedIn, SameCard, SameAsks, SameSession, SameView
  <2>6. Waits(page, page', i)
    BY <1>7, <1>8, <1>10, <2>2, <2>3, <2>4, <2>5
    DEF Waits, Same, Beside, SameWork, Others
  <2> QED
    BY <1>2, <1>5, <2>5, <2>6 DEF n, m
<1>11. CASE page.preview.id # t.id /\ anchor
  <2> DEFINE d == Disowned(w)
             r == [NoPreview EXCEPT !.id = t.id]
             u == [d EXCEPT !.preview = r]
  <2>1. page' = mount(u, TRUE)
    BY <1>6, <1>8, <1>11
  <2>2. /\ d \in Page /\ Astray(w, d) /\ d.waiting = w.waiting
        /\ d.saved = w.saved /\ SameCard(w, d) /\ SameAsks(w, d) /\ SameSession(w, d) /\ SameView(w, d)
    BY <1>7, DisownedFacts
  <2> HIDE DEF d
  <2>3. r \in Preview
    BY <1>2, Constants DEF NoPreview, Preview
  <2> HIDE DEF r
  <2>4. /\ u \in Page /\ u.preview = r /\ u.tasks = d.tasks /\ u.selection = d.selection
        /\ u.saved = d.saved /\ SameCard(d, u) /\ SameAsks(d, u) /\ SameSession(d, u) /\ SameView(d, u)
    BY <2>2, <2>3 DEF Page, SameCard, SameAsks, SameSession, SameView
  <2> HIDE DEF u
  <2>5. /\ page' \in Page /\ MountOf(u.tasks[i], page'.tasks[i], w.visible) /\ Others(u, page', i)
        /\ page'.waiting = NoSession
        /\ page'.selection = u.selection /\ page'.preview = u.preview /\ page'.saved = u.saved
        /\ SameCard(u, page') /\ SameAsks(u, page') /\ SameSession(u, page') /\ SameView(u, page')
    BY <1>0, <1>8, <2>1, <2>4, MountTaskFacts
  <2>6. /\ page'.current = t.id /\ page'.file = t.file /\ page'.arrived = n /\ page'.visible = m
        /\ page'.state = st /\ page'.bar = page.bar
        /\ SavedIn(page, page') /\ SameCard(page, page') /\ SameAsks(page, page')
    BY <1>7, <2>2, <2>4, <2>5 DEF SavedIn, SameCard, SameAsks, SameSession, SameView
  <2>7. MountOf(t, page'.tasks[i], m)
    BY <1>7, <1>8, <2>2, <2>4, <2>5 DEF MountOf, Astray, Alike
  <2>8. /\ AlikeSelection(page.selection, page'.selection) /\ ~page'.selection.own
        /\ \A k \in Slots \ {i} : Alike(page.tasks[k], page'.tasks[k]) /\ ~page'.tasks[k].own
    BY <1>7, <2>2, <2>4, <2>5 DEF Astray, Others, SameWork
  <2>9. MountsFirst(page, page', i)
    BY <1>11, <2>4, <2>5, <2>6, <2>7, <2>8 DEF MountsFirst, st, r
  <2> QED
    BY <1>2, <1>5, <2>5, <2>6, <2>9 DEF n, m
<1> QED
  BY <1>9, <1>10, <1>11

\* The page's session is over, whatever was being mounted goes on astray.
Over(w, v) ==
  /\ v \in Page /\ v.state = "PICKING" /\ v.current = NoSession /\ v.file = NoSession
  /\ v.saved = NoSaved /\ ~v.hasCard /\ v.card = NoCard
  /\ v.waiting \in {NoSession, w.waiting}
  /\ \A k \in Slots : Alike(w.tasks[k], v.tasks[k]) \/ IsIdle(v.tasks[k])
  /\ AlikeSelection(w.selection, v.selection) \/ IsIdle(v.selection)
  /\ \/ /\ v.preview = NoPreview
        /\ (\A k \in Slots : ~v.tasks[k].own) /\ ~v.selection.own
     \/ /\ v.preview.id = w.preview.id /\ (w.preview.id # w.current \/ w.current = NoSession)
        /\ v.preview.shown = 0 \/ v.preview.shown = v.preview.mounted
        /\ v.preview # w.preview => w.preview.id # NoSession

\* The comparison is open, with what t mounted.
Compares(w, v, t) ==
  /\ v \in Page /\ v.bar /\ v.current = w.current /\ v.arrived = w.arrived /\ v.file = w.file
  /\ v.waiting = w.waiting /\ SavedIn(w, v) /\ SameAsks(w, v)
  /\ SameCard(w, v) \/ (~v.hasCard /\ v.card = NoCard)
  /\ v.visible = IF w.visible \in 1..w.arrived THEN w.visible ELSE 1
  /\ v.preview.id = w.preview.id /\ v.preview.mounted = t.variant
  /\ v.preview.shown = IF t.own THEN t.variant ELSE 0

\* What is shown of the preview is what it says, and nobody's preview is none.
Plain(w) ==
  /\ w.preview.id = NoSession => w.preview = NoPreview
  /\ w.preview.shown = 0 \/ w.preview.shown = w.preview.mounted
  /\ \A k \in Slots : w.tasks[k].own => w.preview.id # NoSession
  /\ w.selection.own => w.preview.id # NoSession

LEMMA EndedOver ==
  ASSUME NEW w, NEW u, NEW v, Ended(u, v), u.waiting = w.waiting,
         \A k \in Slots : u.tasks[k] = w.tasks[k] \/ IsIdle(u.tasks[k]),
         u.selection = w.selection \/ IsIdle(u.selection),
         u.preview.id = w.preview.id, u.current = w.current,
         u.preview.shown = 0 \/ u.preview.shown = u.preview.mounted,
         u.preview # w.preview => w.preview.id # NoSession
  PROVE  Over(w, v)
<1>1. \A k \in Slots : Alike(w.tasks[k], v.tasks[k]) \/ IsIdle(v.tasks[k])
  <2> SUFFICES ASSUME NEW k \in Slots PROVE Alike(w.tasks[k], v.tasks[k]) \/ IsIdle(v.tasks[k])
    OBVIOUS
  <2>1. Alike(u.tasks[k], v.tasks[k])
    BY DEF Ended, SameMounts, Astray, Alike
  <2> QED
    BY <2>1 DEF Alike, IsIdle
<1>2. AlikeSelection(w.selection, v.selection) \/ IsIdle(v.selection)
  <2>1. AlikeSelection(u.selection, v.selection)
    BY DEF Ended, SameMounts, Astray, AlikeSelection
  <2> QED
    BY <2>1 DEF AlikeSelection, IsIdle
<1> QED
  BY <1>1, <1>2 DEF Ended, Over, SameMounts, Astray

LEMMA TaskMountsEffect ==
  ASSUME TypeOK, Plain(page), NEW i \in Slots, TaskMounts(i)
  PROVE  LET t == page.tasks[i] IN
         /\ t.step = "mount" /\ UNCHANGED surroundings
         /\ \/ /\ UNCHANGED faults /\ page.arrived > 0 /\ page.preview.id # NoSession
               /\ Compares(page, page', t) /\ page'.state = "CYCLING"
               /\ page'.tasks[i] = Idle /\ Others(page, page', i) /\ page'.selection = page.selection
            \/ UNCHANGED faults /\ page.arrived = 0 /\ Over(page, page')
            \/ /\ Goes(FALSE) \/ (UNCHANGED faults /\ ~t.own /\ page.preview.id = NoSession)
               /\ page' \in Page /\ StepOf(t, page'.tasks[i], "explain")
               /\ Others(page, page', i) /\ page'.selection = page.selection
               /\ page'.waiting = page.waiting /\ page'.saved = page.saved
               /\ SameCard(page, page') /\ SameAsks(page, page') /\ SameSession(page, page')
               /\ SameView(page, page') /\ page'.preview.id = page.preview.id
               /\ page'.preview.mounted = page.preview.mounted
               /\ page'.preview = page.preview
                  \/ (page'.preview.shown = 0 /\ page.preview.id # NoSession)
<1> DEFINE t == page.tasks[i]
<1>1. page \in Page /\ t \in Task
  BY DEF TypeOK, Page
<1>2. t.own \in BOOLEAN /\ t.variant \in 0..Count
  BY <1>1 DEF Task
<1>3. t.step = "mount" /\ UNCHANGED surroundings
  BY DEF TaskMounts
<1>4. CASE Mounts(page, t.own) /\ UNCHANGED faults
           /\ page' = Opened(Done(Mounted(page, t.id, t.own, t.variant), i))
  <2> DEFINE m == Mounted(page, t.id, t.own, t.variant)
             d == Done(m, i)
             own == t.own
             variant == t.variant
  <2>1. page.preview.id # NoSession
    BY <1>4 DEF Mounts, Plain
  <2>2. /\ m \in Page /\ m.tasks = page.tasks /\ m.selection = page.selection /\ m.waiting = page.waiting
        /\ m.preview.id = page.preview.id /\ m.preview.mounted = variant
        /\ m.preview.shown = IF own THEN variant ELSE 0
        /\ m.saved = page.saved /\ SameAsks(page, m) /\ SameSession(page, m) /\ SameView(page, m)
        /\ SameCard(page, m) \/ (~m.hasCard /\ m.card = NoCard)
    <3>1. own \in BOOLEAN /\ variant \in 0..Count /\ m = Mounted(page, t.id, own, variant)
      BY <1>2
    <3> HIDE DEF m, own, variant
    <3> QED
      BY <1>1, <3>1, MountedFacts
  <2> HIDE DEF m
  <2>3. d \in Page /\ d.tasks[i] = Idle /\ Others(m, d, i) /\ Beside(m, d)
    BY <2>2, DoneFacts
  <2>4. page' = Opened(d)
    BY <1>4 DEF d, m
  <2> HIDE DEF d
  <2>5. page.arrived \in Nat /\ d.arrived = page.arrived
    BY <1>1, <2>2, <2>3 DEF Page, Beside, SameSession
  <2>6. CASE page.arrived > 0
    <3> DEFINE c == Cycling(d)
    <3>1. /\ c \in Page /\ c.saved = d.saved /\ c.state = "CYCLING" /\ c.current = d.current
          /\ c.arrived = d.arrived /\ c.file = d.file
          /\ SameWork(d, c) /\ SameCard(d, c) /\ SameAsks(d, c) /\ SameView(d, c)
      BY <2>3, CyclingFacts
    <3>2. Shown(c, page')
      BY <2>3, <2>4, <2>5, <2>6, OpenedFacts
    <3> HIDE DEF c
    <3>3. /\ page'.state = "CYCLING" /\ page'.current = page.current /\ page'.arrived = page.arrived
          /\ page'.file = page.file /\ page'.waiting = page.waiting
          /\ page'.tasks = d.tasks /\ page'.preview = m.preview /\ page'.selection = page.selection
      BY <2>2, <2>3, <3>1, <3>2 DEF Shown, SameWork, SameSession, Beside
    <3>4. SameAsks(page, page')
      BY <2>2, <2>3, <3>1, <3>2 DEF Shown, SameAsks, Beside
    <3>5. SameCard(page, page') \/ (~page'.hasCard /\ page'.card = NoCard)
      BY <2>2, <2>3, <3>1, <3>2 DEF Shown, SameCard, Beside
    <3>6. SavedIn(page, page') /\ page'.visible = IF page.visible \in 1..page.arrived THEN page.visible ELSE 1
      BY <2>2, <2>3, <3>1, <3>2 DEF Shown, SavedIn, SameView, SameSession, Beside
    <3>7. Compares(page, page', t)
      BY <2>2, <3>2, <3>3, <3>4, <3>5, <3>6 DEF Compares, Shown
    <3>8. page'.tasks[i] = Idle /\ Others(page, page', i)
      BY <2>2, <2>3, <3>3 DEF Others
    <3> QED
      BY <1>3, <1>4, <2>1, <2>6, <3>3, <3>7, <3>8
  <2>7. CASE page.arrived = 0
    <3>1. Ended(d, page')
      BY <2>3, <2>4, <2>5, <2>7, OpenedFacts
    <3>2. SameAsks(page, d) /\ d.waiting = page.waiting /\ d.selection = page.selection
          /\ d.preview.id = page.preview.id /\ d.current = page.current
      BY <2>2, <2>3 DEF Beside, SameAsks, SameSession
    <3>3. \A k \in Slots : d.tasks[k] = page.tasks[k] \/ IsIdle(d.tasks[k])
      BY <2>2, <2>3 DEF Others, IsIdle, Idle
    <3>4. d.preview.shown = 0 \/ d.preview.shown = d.preview.mounted
      BY <1>2, <2>2, <2>3 DEF Beside
    <3>5. Over(page, page')
      BY <2>1, <3>1, <3>2, <3>3, <3>4, EndedOver
    <3> QED
      BY <1>3, <1>4, <2>7, <3>5
  <2>8. page.arrived > 0 \/ page.arrived = 0
    BY <2>5
  <2> QED
    BY <2>6, <2>7, <2>8
<1>5. ASSUME NEW threw \in BOOLEAN, Goes(~Mounts(page, t.own)),
             page' = [Thrown(page, threw) EXCEPT !.tasks[i].step = "explain"]
      PROVE  /\ Goes(FALSE) \/ (UNCHANGED faults /\ ~t.own /\ page.preview.id = NoSession)
             /\ page' \in Page /\ StepOf(t, page'.tasks[i], "explain")
             /\ Others(page, page', i) /\ page'.selection = page.selection
             /\ page'.waiting = page.waiting /\ page'.saved = page.saved
             /\ SameCard(page, page') /\ SameAsks(page, page') /\ SameSession(page, page')
             /\ SameView(page, page') /\ page'.preview.id = page.preview.id
             /\ page'.preview.mounted = page.preview.mounted
             /\ page'.preview = page.preview
                \/ (page'.preview.shown = 0 /\ page.preview.id # NoSession)
  <2> DEFINE w == Thrown(page, threw)
  <2>1. /\ w \in Page /\ w.tasks = page.tasks /\ w.selection = page.selection /\ w.waiting = page.waiting
        /\ w.saved = page.saved /\ SameCard(page, w) /\ SameAsks(page, w) /\ SameSession(page, w)
        /\ SameView(page, w)
        /\ \/ w.preview = page.preview
           \/ page.preview.id # NoSession /\ w.preview.id = page.preview.id /\ w.preview.shown = 0
              /\ w.preview.mounted = page.preview.mounted
    BY <1>1, ThrownFacts
  <2>2. page' = [w EXCEPT !.tasks[i].step = "explain"]
    BY <1>5
  <2> HIDE DEF w
  <2>3. /\ page' \in Page /\ Others(w, page', i) /\ Beside(w, page')
        /\ StepOf(w.tasks[i], page'.tasks[i], "explain")
    BY <2>1, <2>2, StepFacts
  <2>4. StepOf(t, page'.tasks[i], "explain")
    BY <2>1, <2>3
  <2>6. Goes(FALSE) \/ (UNCHANGED faults /\ ~t.own /\ page.preview.id = NoSession)
    BY <1>5 DEF Goes, Mounts
  <2>7. Others(page, page', i)
    BY <2>1, <2>3 DEF Others
  <2>8. /\ page'.selection = page.selection /\ page'.waiting = page.waiting /\ page'.saved = page.saved
        /\ SameCard(page, page') /\ SameAsks(page, page') /\ SameSession(page, page')
        /\ SameView(page, page') /\ page'.preview = w.preview
    BY <2>1, <2>3 DEF Beside, SameCard, SameAsks, SameSession, SameView
  <2> QED
    BY <2>1, <2>3, <2>4, <2>6, <2>7, <2>8
<1> QED
  BY <1>3, <1>4, <1>5 DEF TaskMounts

LEMMA TaskExplainsEffect ==
  ASSUME TypeOK, NEW i \in Slots, TaskExplains(i)
  PROVE  LET t == page.tasks[i] IN
         /\ t.step = "explain" /\ UNCHANGED world
         /\ IF t.first THEN Dropped(page, page', i) ELSE Reported(page, page', i)
<1> DEFINE t == page.tasks[i]
           c == ShowCard(Done(page, i), t.id, t.variant, NoSession)
<1>1. page \in Page /\ t \in Task
  BY DEF TypeOK, Page
<1>2. t.variant \in 0..Count
  BY <1>1 DEF Task
<1>3. Dropped(page, Abort(c, t.id), i) /\ Reported(page, SaveSession(c), i)
  BY <1>1, <1>2, DroppedIf, ReportedIf
<1>4. /\ t.step = "explain" /\ UNCHANGED world
      /\ page' = IF t.first THEN Abort(c, t.id) ELSE SaveSession(c)
  BY DEF TaskExplains
<1> QED
  BY <1>3, <1>4

\* A task begins.
Injects(w, v, i, file, id) ==
  /\ w.tasks[i].step = "idle" /\ v.tasks[i].step = "manifest"
  /\ v.tasks[i].file = file /\ v.tasks[i].id = id /\ ~v.tasks[i].own
  /\ Others(w, v, i) /\ v.selection = w.selection /\ v.preview = w.preview

LEMMA AnchorFoundEffect ==
  ASSUME TypeOK, AnchorFound
  PROVE  /\ page.waiting # NoSession /\ UNCHANGED world /\ page' \in Page
         /\ page'.waiting = NoSession /\ page'.saved = page.saved
         /\ SameCard(page, page') /\ SameAsks(page, page') /\ SameSession(page, page') /\ SameView(page, page')
         /\ \/ page.preview.id = page.waiting /\ SameMounts(page, page')
            \/ page.preview.id # page.waiting
               /\ \E i \in Slots : Injects(page, page', i, page.waiting, page.waiting)
<1> DEFINE w == [page EXCEPT !.waiting = NoSession]
<1>1. page \in Page /\ page.waiting \in Maybe
  BY DEF TypeOK, Page
<1>2. /\ w \in Page /\ w.waiting = NoSession /\ SameMounts(page, w) /\ w.saved = page.saved
      /\ SameCard(page, w) /\ SameAsks(page, w) /\ SameSession(page, w) /\ SameView(page, w)
  BY <1>1, Constants DEF Page, SameMounts, SameCard, SameAsks, SameSession, SameView
<1>3. page.waiting # NoSession /\ UNCHANGED world
  BY DEF AnchorFound
<1>4. \/ page.preview.id = page.waiting /\ page' = w
      \/ page.preview.id # page.waiting
         /\ \E i \in Free(page) : page' = Inject(w, i, page.waiting, page.waiting)
  BY DEF AnchorFound
<1> HIDE DEF w
<1>5. CASE page.preview.id = page.waiting /\ page' = w
  BY <1>2, <1>3, <1>5
<1>6. ASSUME page.preview.id # page.waiting, NEW i \in Free(page), page' = Inject(w, i, page.waiting, page.waiting)
      PROVE  /\ page' \in Page /\ page'.waiting = NoSession /\ page'.saved = page.saved
             /\ SameCard(page, page') /\ SameAsks(page, page') /\ SameSession(page, page') /\ SameView(page, page')
             /\ i \in Slots /\ Injects(page, page', i, page.waiting, page.waiting)
  <2>1. i \in Slots /\ page.tasks[i].step = "idle"
    BY DEF Free
  <2>2. /\ page' \in Page /\ Others(w, page', i) /\ Beside(w, page')
        /\ page'.tasks[i].step = "manifest" /\ page'.tasks[i].file = page.waiting
        /\ page'.tasks[i].id = page.waiting /\ ~page'.tasks[i].own
    BY <1>1, <1>2, <1>6, <2>1, InjectFacts
  <2>3. Injects(page, page', i, page.waiting, page.waiting)
    BY <1>2, <2>1, <2>2 DEF Injects, Others, Beside, SameMounts
  <2>4. /\ page'.waiting = NoSession /\ page'.saved = page.saved
        /\ SameCard(page, page') /\ SameAsks(page, page') /\ SameSession(page, page') /\ SameView(page, page')
    BY <1>2, <2>2 DEF Beside, SameCard, SameAsks, SameSession, SameView
  <2> QED
    BY <2>1, <2>2, <2>3, <2>4
<1> QED
  BY <1>3, <1>4, <1>5, <1>6

-----------------------------------------------------------------------------
(* What the selection's steps do. *)

LEMMA SelectVariantEffect ==
  ASSUME TypeOK, SelectVariant
  PROVE  /\ page.state = "CYCLING" /\ page.bar /\ page.selection.step = "idle"
         /\ UNCHANGED surroundings
         /\ IF page.current \in over THEN Strikes("late") ELSE Overlaps(Injecting(page))
         /\ page' \in Page /\ page'.tasks = page.tasks /\ page'.preview = page.preview
         /\ page'.waiting = page.waiting /\ page'.bar
         /\ SameCard(page, page') /\ SameAsks(page, page') /\ SameSession(page, page')
         /\ \/ page'.saved = page.saved
            \/ /\ page.current # NoSession /\ page'.saved.id = page.current
               /\ page'.saved.file = page.file
               /\ page'.saved.visible = IF page.visible \in 1..page.arrived THEN page.visible ELSE 1
         /\ \E n \in 1..page.arrived : LET s == page'.selection IN
              \/ /\ page.preview.id = page.current /\ page.current # NoSession /\ page'.visible = n
                 /\ s.step = "mount" /\ ~s.back /\ s.id = page.current /\ s.variant = n
                 /\ s.previous = page.visible /\ s.own
              \/ /\ page.preview.id # page.current \/ page.current = NoSession
                 /\ page'.visible = page.visible /\ s = NoSelection
<1> DEFINE c == ShowCycling(page)
           u == SaveSession(c)
<1>1. page \in Page /\ page.visible \in 0..Count /\ page.arrived \in 0..Count
  BY DEF TypeOK, Page
<1>2. /\ page.state = "CYCLING" /\ page.bar /\ page.selection.step = "idle"
      /\ UNCHANGED surroundings
      /\ IF page.current \in over THEN Strikes("late") ELSE Overlaps(Injecting(page))
  BY DEF SelectVariant
<1>3. PICK n \in (1..page.arrived) \ {page.visible} : page' = Turn(u, n, page.visible, FALSE)
  BY DEF SelectVariant
<1>4. page.arrived > 0 /\ n \in 0..Count /\ n \in 1..page.arrived
  BY <1>1, <1>3, Constants
<1>5. Shown(page, c)
  BY <1>1, <1>4, ShowCyclingFacts
<1>6. c \in Page
  BY <1>5 DEF Shown
<1> HIDE DEF c
<1>7. Same(c, u)
  BY <1>6, SaveSessionSame
<1> HIDE DEF u
<1>8. Shown(page, u) /\ u \in Page
  BY <1>5, <1>7, ShownSame DEF Shown
<1>9. /\ page' \in Page /\ page'.tasks = u.tasks /\ page'.preview = u.preview /\ page'.waiting = u.waiting
      /\ page'.saved = u.saved /\ SameCard(u, page') /\ SameAsks(u, page') /\ SameSession(u, page')
      /\ page'.bar = u.bar
      /\ \/ u.preview.id = u.current /\ u.current # NoSession /\ page'.visible = n
            /\ page'.selection = TurnedTo(u, n, page.visible, FALSE)
         \/ (u.preview.id # u.current \/ u.current = NoSession) /\ page'.visible = page.visible
            /\ page'.selection = NoSelection
  <2> DEFINE previous == page.visible
             back == FALSE
             v == Turn(u, n, previous, back)
  <2>1. previous \in 0..Count /\ back \in BOOLEAN /\ page' = v
    BY <1>1, <1>3
  <2> HIDE DEF previous, back
  <2>2. /\ v \in Page /\ v.tasks = u.tasks /\ v.preview = u.preview /\ v.waiting = u.waiting
        /\ v.saved = u.saved /\ SameCard(u, v) /\ SameAsks(u, v) /\ SameSession(u, v) /\ v.bar = u.bar
        /\ \/ u.preview.id = u.current /\ u.current # NoSession /\ v.visible = n
              /\ v.selection = TurnedTo(u, n, previous, back)
           \/ (u.preview.id # u.current \/ u.current = NoSession) /\ v.visible = previous
              /\ v.selection = NoSelection
    BY <1>4, <1>8, <2>1, TurnFacts
  <2> QED
    BY <2>1, <2>2 DEF previous, back
<1>10. /\ page'.tasks = page.tasks /\ page'.preview = page.preview /\ page'.waiting = page.waiting /\ page'.bar
       /\ SameCard(page, page') /\ SameAsks(page, page') /\ SameSession(page, page')
  BY <1>8, <1>9 DEF Shown, SameWork, SameCard, SameAsks, SameSession
<1>11. \/ page'.saved = page.saved
       \/ /\ page.current # NoSession /\ page'.saved.id = page.current
          /\ page'.saved.file = page.file
          /\ page'.saved.visible = IF page.visible \in 1..page.arrived THEN page.visible ELSE 1
  BY <1>8, <1>9 DEF Shown, SavedIn, SameSession
<1>12. u.preview = page.preview /\ u.current = page.current
  BY <1>8 DEF Shown, SameWork, SameSession
<1>13. LET s == page'.selection IN
       \/ /\ page.preview.id = page.current /\ page.current # NoSession /\ page'.visible = n
          /\ s.step = "mount" /\ ~s.back /\ s.id = page.current /\ s.variant = n
          /\ s.previous = page.visible /\ s.own
       \/ /\ page.preview.id # page.current \/ page.current = NoSession
          /\ page'.visible = page.visible /\ s = NoSelection
  BY <1>9, <1>12 DEF TurnedTo
<1> QED
  BY <1>2, <1>4, <1>9, <1>10, <1>11, <1>13

LEMMA SelectionMountsEffect ==
  ASSUME TypeOK, Plain(page), SelectionMounts
  PROVE  LET t == page.selection IN
         /\ t.step = "mount" /\ UNCHANGED surroundings
         /\ \/ /\ UNCHANGED faults /\ page.arrived > 0 /\ page.preview.id # NoSession
               /\ Compares(page, page', t) /\ page'.state = page.state
               /\ page'.tasks = page.tasks /\ page'.selection = NoSelection
            \/ UNCHANGED faults /\ page.arrived = 0 /\ Over(page, page')
            \/ /\ Goes(FALSE) \/ (UNCHANGED faults /\ ~t.own /\ page.preview.id = NoSession)
               /\ page' \in Page /\ page'.selection = [t EXCEPT !.step = "explain"]
               /\ page'.tasks = page.tasks /\ page'.waiting = page.waiting /\ page'.saved = page.saved
               /\ SameCard(page, page') /\ SameAsks(page, page') /\ SameSession(page, page')
               /\ SameView(page, page') /\ page'.preview.id = page.preview.id
               /\ page'.preview.mounted = page.preview.mounted
               /\ page'.preview = page.preview
                  \/ (page'.preview.shown = 0 /\ page.preview.id # NoSession)
<1> DEFINE t == page.selection
<1>1. page \in Page /\ t \in Selection
  BY DEF TypeOK, Page
<1>2. t.own \in BOOLEAN /\ t.variant \in 0..Count
  BY <1>1 DEF Selection
<1>3. t.step = "mount" /\ UNCHANGED surroundings
  BY DEF SelectionMounts
<1>4. CASE Mounts(page, t.own) /\ UNCHANGED faults
           /\ page' = Selected(Mounted(page, t.id, t.own, t.variant))
  <2> DEFINE m == Mounted(page, t.id, t.own, t.variant)
             d == [m EXCEPT !.selection = NoSelection]
             own == t.own
             variant == t.variant
  <2>1. page.preview.id # NoSession
    BY <1>4 DEF Mounts, Plain
  <2>2. /\ m \in Page /\ m.tasks = page.tasks /\ m.selection = page.selection /\ m.waiting = page.waiting
        /\ m.preview.id = page.preview.id /\ m.preview.mounted = variant
        /\ m.preview.shown = IF own THEN variant ELSE 0
        /\ m.saved = page.saved /\ SameAsks(page, m) /\ SameSession(page, m) /\ SameView(page, m)
        /\ SameCard(page, m) \/ (~m.hasCard /\ m.card = NoCard)
    <3>1. own \in BOOLEAN /\ variant \in 0..Count /\ m = Mounted(page, t.id, own, variant)
      BY <1>2
    <3> HIDE DEF m, own, variant
    <3> QED
      BY <1>1, <3>1, MountedFacts
  <2>4. page' = Selected(m)
    BY <1>4 DEF m
  <2> HIDE DEF m
  <2>3. /\ d \in Page /\ d.selection = NoSelection /\ d.tasks = m.tasks /\ d.preview = m.preview
        /\ d.waiting = m.waiting /\ d.saved = m.saved
        /\ SameCard(m, d) /\ SameAsks(m, d) /\ SameSession(m, d) /\ SameView(m, d)
        /\ d.arrived > 0 => Shown(d, page')
        /\ d.arrived = 0 => Ended(d, page')
    BY <2>2, <2>4, SelectedFacts
  <2> HIDE DEF d
  <2>5. page.arrived \in Nat /\ d.arrived = page.arrived
    BY <1>1, <2>2, <2>3 DEF Page, SameSession
  <2>6. CASE page.arrived > 0
    <3>1. Shown(d, page')
      BY <2>3, <2>5, <2>6
    <3>2. /\ page'.state = page.state /\ page'.current = page.current /\ page'.arrived = page.arrived
          /\ page'.file = page.file /\ page'.waiting = page.waiting
          /\ page'.tasks = page.tasks /\ page'.preview = m.preview /\ page'.selection = NoSelection
      BY <2>2, <2>3, <3>1 DEF Shown, SameWork, SameSession
    <3>3. SameAsks(page, page')
      BY <2>2, <2>3, <3>1 DEF Shown, SameAsks
    <3>4. SameCard(page, page') \/ (~page'.hasCard /\ page'.card = NoCard)
      BY <2>2, <2>3, <3>1 DEF Shown, SameCard
    <3>5. SavedIn(page, page') /\ page'.visible = IF page.visible \in 1..page.arrived THEN page.visible ELSE 1
      BY <2>2, <2>3, <3>1 DEF Shown, SavedIn, SameView, SameSession
    <3>6. Compares(page, page', t)
      BY <2>2, <3>1, <3>2, <3>3, <3>4, <3>5 DEF Compares, Shown
    <3> QED
      BY <1>3, <1>4, <2>1, <2>6, <3>2, <3>6
  <2>7. CASE page.arrived = 0
    <3>1. Ended(d, page')
      BY <2>3, <2>5, <2>7
    <3>2. SameAsks(page, d) /\ d.waiting = page.waiting /\ IsIdle(d.selection)
          /\ d.preview.id = page.preview.id /\ d.current = page.current
      BY <2>2, <2>3 DEF SameAsks, SameSession, IsIdle, NoSelection
    <3>3. \A k \in Slots : d.tasks[k] = page.tasks[k] \/ IsIdle(d.tasks[k])
      BY <2>2, <2>3
    <3>4. d.preview.shown = 0 \/ d.preview.shown = d.preview.mounted
      BY <1>2, <2>2, <2>3
    <3>5. Over(page, page')
      BY <2>1, <3>1, <3>2, <3>3, <3>4, EndedOver
    <3> QED
      BY <1>3, <1>4, <2>7, <3>5
  <2>8. page.arrived > 0 \/ page.arrived = 0
    BY <2>5
  <2> QED
    BY <2>6, <2>7, <2>8
<1>5. ASSUME NEW threw \in BOOLEAN, Goes(~Mounts(page, t.own)),
             page' = [Thrown(page, threw) EXCEPT !.selection.step = "explain"]
      PROVE  /\ Goes(FALSE) \/ (UNCHANGED faults /\ ~t.own /\ page.preview.id = NoSession)
             /\ page' \in Page /\ page'.selection = [t EXCEPT !.step = "explain"]
             /\ page'.tasks = page.tasks /\ page'.waiting = page.waiting /\ page'.saved = page.saved
             /\ SameCard(page, page') /\ SameAsks(page, page') /\ SameSession(page, page')
             /\ SameView(page, page') /\ page'.preview.id = page.preview.id
             /\ page'.preview.mounted = page.preview.mounted
             /\ page'.preview = page.preview
                \/ (page'.preview.shown = 0 /\ page.preview.id # NoSession)
  <2> DEFINE w == Thrown(page, threw)
             s == [t EXCEPT !.step = "explain"]
  <2>1. /\ w \in Page /\ w.tasks = page.tasks /\ w.selection = page.selection /\ w.waiting = page.waiting
        /\ w.saved = page.saved /\ SameCard(page, w) /\ SameAsks(page, w) /\ SameSession(page, w)
        /\ SameView(page, w)
        /\ \/ w.preview = page.preview
           \/ page.preview.id # NoSession /\ w.preview.id = page.preview.id /\ w.preview.shown = 0
              /\ w.preview.mounted = page.preview.mounted
    BY <1>1, ThrownFacts
  <2>2. page' = [w EXCEPT !.selection = s]
    BY <1>5, <2>1
  <2>3. s \in Selection
    BY <1>1 DEF Selection
  <2> HIDE DEF w, s
  <2>4. /\ page' \in Page /\ page'.selection = s /\ page'.tasks = w.tasks /\ page'.waiting = w.waiting
        /\ page'.saved = w.saved /\ page'.preview = w.preview
        /\ SameCard(w, page') /\ SameAsks(w, page') /\ SameSession(w, page') /\ SameView(w, page')
    BY <2>1, <2>2, <2>3 DEF Page, SameCard, SameAsks, SameSession, SameView
  <2>5. Goes(FALSE) \/ (UNCHANGED faults /\ ~t.own /\ page.preview.id = NoSession)
    BY <1>5 DEF Goes, Mounts
  <2>6. SameCard(page, page') /\ SameAsks(page, page') /\ SameSession(page, page') /\ SameView(page, page')
    BY <2>1, <2>4 DEF SameCard, SameAsks, SameSession, SameView
  <2> QED
    BY <2>1, <2>4, <2>5, <2>6 DEF s
<1> QED
  BY <1>3, <1>4, <1>5 DEF SelectionMounts

LEMMA SelectionExplainsEffect ==
  ASSUME TypeOK, Plain(page), SelectionExplains
  PROVE  LET t == page.selection IN
         /\ t.step = "explain" /\ UNCHANGED world
         /\ \/ Over(page, page') /\ page.arrived = 0
            \/ /\ page' \in Page /\ page'.tasks = page.tasks /\ page'.preview = page.preview
               /\ page'.waiting = page.waiting /\ SameAsks(page, page') /\ SameSession(page, page')
               /\ page'.hasCard /\ page'.card.id = (IF t.id = NoSession THEN page.current ELSE t.id)
               /\ page'.card.file = page.file /\ SavedIn(page, page')
               /\ \/ /\ page.arrived > 0 /\ page'.selection = NoSelection /\ page'.bar
                     /\ t.back \/ page.preview.id # page.current \/ page.current = NoSession
                     /\ page'.visible = IF t.previous \in 1..page.arrived THEN t.previous ELSE 1
                  \/ /\ page.preview.id = page.current /\ page.current # NoSession /\ ~t.back
                     /\ page'.bar = page.bar
                     /\ page'.visible = t.previous /\ page'.saved = page.saved
                     /\ page'.selection = [step |-> "mount", back |-> TRUE, id |-> page.current,
                                          variant |-> t.previous, previous |-> t.previous, own |-> TRUE]
<1> DEFINE t == page.selection
           w == ShowCard(page, t.id, t.variant, NoSession)
           back == Turn(w, t.previous, t.previous, TRUE)
           x == [w EXCEPT !.visible = t.previous]
           d == [x EXCEPT !.selection = NoSelection]
<1>1. page \in Page /\ t \in Selection
  BY DEF TypeOK, Page
<1>2. t.id \in Maybe /\ t.variant \in 0..Count /\ t.previous \in 0..Count /\ NoSession \in Maybe
      /\ t.back \in BOOLEAN
  BY <1>1, Constants DEF Selection
<1>3. /\ t.step = "explain" /\ UNCHANGED world
      /\ page' = IF t.back \/ back.selection.step = "idle" THEN Selected(x) ELSE back
  BY DEF SelectionExplains
<1>4. /\ w \in Page /\ w.hasCard /\ w.saved = page.saved
      /\ w.card.id = (IF t.id = NoSession THEN page.current ELSE t.id) /\ w.card.file = page.file
      /\ SameWork(page, w) /\ SameAsks(page, w) /\ SameSession(page, w) /\ SameView(page, w)
  <2> DEFINE id == t.id
             variant == t.variant
             file == NoSession
  <2>1. /\ id \in Maybe /\ variant \in 0..Count /\ file \in Maybe /\ file = NoSession
        /\ w = ShowCard(page, id, variant, file)
    BY <1>2
  <2> HIDE DEF w, id, variant, file
  <2>0. page \in Page
    BY <1>1
  <2>2. /\ w \in Page /\ w.hasCard /\ w.saved = page.saved
        /\ w.card.id = (IF id = NoSession THEN page.current ELSE id)
        /\ w.card.file = (IF file = NoSession THEN page.file ELSE file)
        /\ SameWork(page, w) /\ SameAsks(page, w) /\ SameSession(page, w) /\ SameView(page, w)
    BY <2>0, <2>1, ShowCardFacts
  <2> QED
    BY <2>1, <2>2 DEF id
<1> HIDE DEF w
<1>5. /\ back \in Page /\ back.tasks = w.tasks /\ back.preview = w.preview /\ back.waiting = w.waiting
      /\ back.saved = w.saved /\ SameCard(w, back) /\ SameAsks(w, back) /\ SameSession(w, back)
      /\ back.bar = w.bar
      /\ \/ w.preview.id = w.current /\ w.current # NoSession /\ back.visible = t.previous
            /\ back.selection = TurnedTo(w, t.previous, t.previous, TRUE)
         \/ (w.preview.id # w.current \/ w.current = NoSession) /\ back.visible = t.previous
            /\ back.selection = NoSelection
  <2> DEFINE n == t.previous
             yes == TRUE
  <2>1. n \in 0..Count /\ yes \in BOOLEAN /\ back = Turn(w, n, n, yes)
    BY <1>2
  <2> HIDE DEF back, n, yes
  <2>2. /\ back \in Page /\ back.tasks = w.tasks /\ back.preview = w.preview /\ back.waiting = w.waiting
        /\ back.saved = w.saved /\ SameCard(w, back) /\ SameAsks(w, back) /\ SameSession(w, back)
        /\ back.bar = w.bar
        /\ \/ w.preview.id = w.current /\ w.current # NoSession /\ back.visible = n
              /\ back.selection = TurnedTo(w, n, n, yes)
           \/ (w.preview.id # w.current \/ w.current = NoSession) /\ back.visible = n
              /\ back.selection = NoSelection
    BY <1>4, <2>1, TurnFacts
  <2> QED
    BY <2>2 DEF n, yes
<1> HIDE DEF back
<1>6. w.preview = page.preview /\ w.current = page.current /\ w.arrived = page.arrived
      /\ page.arrived \in Nat
  BY <1>1, <1>4 DEF SameWork, SameSession, Page
<1>7. CASE t.back \/ back.selection.step = "idle"
  <2>1. page' = Selected(x)
    BY <1>3, <1>7
  <2>2. t.back \/ page.preview.id # page.current \/ page.current = NoSession
    BY <1>5, <1>6, <1>7 DEF TurnedTo
  <2>3. /\ x \in Page /\ x.visible = t.previous /\ SameWork(w, x) /\ SameCard(w, x)
        /\ SameAsks(w, x) /\ SameSession(w, x) /\ x.saved = w.saved
    BY <1>2, <1>4 DEF Page, SameWork, SameCard, SameAsks, SameSession
  <2> HIDE DEF x
  <2>4. /\ d \in Page /\ d.selection = NoSelection /\ d.tasks = x.tasks /\ d.preview = x.preview
        /\ d.waiting = x.waiting /\ d.saved = x.saved
        /\ SameCard(x, d) /\ SameAsks(x, d) /\ SameSession(x, d) /\ SameView(x, d)
        /\ d.arrived > 0 => Shown(d, page')
        /\ d.arrived = 0 => Ended(d, page')
    BY <2>1, <2>3, SelectedFacts
  <2> HIDE DEF d
  <2>5. /\ d.tasks = page.tasks /\ d.preview = page.preview /\ d.waiting = page.waiting
        /\ d.saved = page.saved /\ SameAsks(page, d) /\ SameSession(page, d) /\ d.visible = t.previous
        /\ SameCard(w, d)
    BY <1>4, <2>3, <2>4 DEF SameWork, SameAsks, SameSession, SameView, SameCard
  <2>6. d.arrived = page.arrived /\ d.current = page.current
    BY <2>5 DEF SameSession
  <2>7. CASE page.arrived > 0
    <3>1. Shown(d, page')
      BY <2>4, <2>6, <2>7
    <3>2. /\ page' \in Page /\ page'.tasks = page.tasks /\ page'.preview = page.preview
          /\ page'.waiting = page.waiting /\ SameAsks(page, page') /\ SameSession(page, page')
          /\ page'.selection = NoSelection /\ page'.bar
          /\ page'.visible = IF t.previous \in 1..page.arrived THEN t.previous ELSE 1
      BY <2>4, <2>5, <2>6, <3>1 DEF Shown, SameWork, SameAsks, SameSession
    <3>3. /\ page'.hasCard /\ page'.card.id = (IF t.id = NoSession THEN page.current ELSE t.id)
          /\ page'.card.file = page.file
      BY <1>4, <2>5, <3>1 DEF Shown, SameCard
    <3>4. SavedIn(page, page')
      BY <2>5, <3>1 DEF Shown, SavedIn
    <3> QED
      BY <1>3, <2>2, <2>7, <3>2, <3>3, <3>4
  <2>8. CASE page.arrived = 0
    <3>1. Ended(d, page')
      BY <2>4, <2>6, <2>8
    <3>2. IsIdle(d.selection)
      BY <2>4 DEF IsIdle, NoSelection
    <3>3. d.preview.id = page.preview.id /\ (d.preview.shown = 0 \/ d.preview.shown = d.preview.mounted)
      BY <2>5 DEF Plain
    <3>4. Over(page, page')
      BY <2>5, <2>6, <3>1, <3>2, <3>3, EndedOver
    <3> QED
      BY <1>3, <2>8, <3>4
  <2>9. page.arrived > 0 \/ page.arrived = 0
    BY <1>6
  <2> QED
    BY <2>7, <2>8, <2>9
<1>8. CASE ~(t.back \/ back.selection.step = "idle")
  <2>1. page' = back
    BY <1>3, <1>8
  <2>2. w.preview.id = w.current /\ w.current # NoSession /\ back.selection = TurnedTo(w, t.previous, t.previous, TRUE)
    <3>1. NoSelection.step = "idle"
      BY DEF NoSelection
    <3> QED
      BY <1>5, <1>8, <3>1
  <2>3. /\ page' \in Page /\ page'.tasks = page.tasks /\ page'.preview = page.preview
        /\ page'.waiting = page.waiting /\ SameAsks(page, page') /\ SameSession(page, page')
        /\ page'.bar = page.bar /\ page'.visible = t.previous /\ page'.saved = page.saved
    BY <1>4, <1>5, <2>1, <2>2 DEF SameWork, SameAsks, SameSession, SameView
  <2>4. /\ page'.hasCard /\ page'.card.id = (IF t.id = NoSession THEN page.current ELSE t.id)
        /\ page'.card.file = page.file
    BY <1>4, <1>5, <2>1 DEF SameCard
  <2>5. page'.selection = [step |-> "mount", back |-> TRUE, id |-> page.current,
                           variant |-> t.previous, previous |-> t.previous, own |-> TRUE]
    BY <1>6, <2>1, <2>2 DEF TurnedTo
  <2> QED
    BY <1>3, <1>6, <1>8, <2>2, <2>3, <2>4, <2>5 DEF SavedIn
<1> QED
  BY <1>7, <1>8

-----------------------------------------------------------------------------
(* What the user's steps do, and those of the surroundings. *)

LEMMA GoEffect ==
  ASSUME TypeOK, Go
  PROVE  /\ page.state = "PICKING" /\ started' = started + 1 /\ started' \in Sessions
         /\ UNCHANGED <<published, news, over, anchor>>
         /\ IF /\ Injecting(page) \cup Selecting(page) \cup ({page.waiting} \ {NoSession}) = {}
               /\ page.asked = {}
            THEN UNCHANGED faults ELSE Strikes("late")
         /\ page' \in Page /\ SameWork(page, page') /\ ~page'.hasCard /\ page'.card = NoCard
         /\ page'.pending = NoSession /\ page'.asked = page.asked
         /\ page'.accepted = page.accepted /\ page'.committed = page.committed
         /\ page'.state = "GENERATING" /\ page'.current = started' /\ page'.arrived = 0
         /\ page'.visible = 0 /\ page'.file = NoSession /\ page'.bar
         /\ page'.saved.id = started' /\ page'.saved.file = NoSession /\ page'.saved.visible = 0
<1> DEFINE c == ClearCard(page)
           id == started + 1
           w == [c EXCEPT !.pending = NoSession, !.current = id, !.arrived = 0, !.visible = 0,
                   !.tune = "pending", !.file = NoSession, !.state = "GENERATING", !.bar = TRUE]
<1>1. /\ page.state = "PICKING" /\ started' = started + 1 /\ page' = SaveSession(w)
      /\ UNCHANGED <<published, news, over, anchor>>
      /\ IF /\ Injecting(page) \cup Selecting(page) \cup ({page.waiting} \ {NoSession}) = {}
            /\ page.asked = {}
         THEN UNCHANGED faults ELSE Strikes("late")
  BY DEF Go
<1>2. id \in Sessions /\ id \in Maybe /\ id # NoSession /\ id = started'
  BY <1>1, BoundsAssumption DEF Go, TypeOK, Sessions, Maybe, NoSession
<1>3. /\ c \in Page /\ ~c.hasCard /\ c.card = NoCard
      /\ SameWork(page, c) /\ SameAsks(page, c)
  BY ClearCardFacts DEF TypeOK
<1> HIDE DEF c, id
<1>4. /\ w \in Page /\ w.pending = NoSession /\ w.current = id /\ w.arrived = 0 /\ w.visible = 0
      /\ w.file = NoSession /\ w.state = "GENERATING" /\ w.bar
      /\ w.asked = c.asked /\ w.accepted = c.accepted /\ w.committed = c.committed
      /\ SameWork(c, w) /\ SameCard(c, w)
  BY <1>2, <1>3, Constants DEF Page, State, Tune, SameWork, SameCard
<1> DEFINE sv == [id |-> w.current, state |-> w.state, arrived |-> w.arrived,
                  visible |-> w.visible, file |-> w.file, tune |-> w.tune]
<1>5. page' = [w EXCEPT !.saved = sv]
  BY <1>1, <1>2, <1>4 DEF SaveSession
<1> HIDE DEF w
<1>6. sv \in Saved /\ sv.id = id /\ sv.file = NoSession /\ sv.visible = 0
  BY <1>4 DEF Page, Saved
<1> HIDE DEF sv
<1>7. /\ page' \in Page /\ page'.saved = sv /\ page'.pending = w.pending /\ page'.bar = w.bar
      /\ page'.visible = w.visible
      /\ page'.asked = w.asked /\ page'.accepted = w.accepted /\ page'.committed = w.committed
      /\ SameWork(w, page') /\ SameCard(w, page') /\ SameSession(w, page')
  BY <1>4, <1>5, <1>6 DEF Page, SameWork, SameCard, SameSession
<1>8. SameWork(page, page') /\ ~page'.hasCard /\ page'.card = NoCard
  BY <1>3, <1>4, <1>7 DEF SameWork, SameCard
<1> QED
  BY <1>1, <1>2, <1>3, <1>4, <1>6, <1>7, <1>8 DEF SameAsks, SameSession

\* The presses that wait are nothing the invariants are about.
Patient(w, presses) == [w EXCEPT !.waits = presses]

LEMMA PatientSame ==
  ASSUME NEW w \in Page, NEW presses \in SUBSET Presses
  PROVE  Same(w, Patient(w, presses))
BY DEF Patient, Page, Same, SavedIn, SameWork, SameCard, SameAsks, SameSession, SameView

\* What is posted.
Posted(w, n) == [type |-> "accept", id |-> w.current, variant |-> Named(w), n |-> n]

LEMMA NamedFacts == ASSUME NEW w \in Page PROVE Named(w) \in 0..Count
<1>1. w.preview \in Preview
  BY DEF Page
<1> QED
  BY <1>1 DEF Page, Preview, Named

LEMMA AcceptedFacts ==
  ASSUME NEW w \in Page, NEW n \in Presses, w.current # NoSession
  PROVE  LET v == Accepted(w, n) IN
         /\ v \in Page /\ SavedIn(w, v) /\ SameWork(w, v) /\ SameCard(w, v)
         /\ v.state = "SAVING" /\ v.pending = w.current /\ v.visible = Named(w)
         /\ v.accepted = Named(w) /\ v.committed = 0 /\ v.asked = w.asked \cup {Posted(w, n)}
         /\ v.current = w.current /\ v.arrived = w.arrived /\ v.file = w.file
<1> DEFINE m == Named(w)
           asked == w.asked \cup {Posted(w, n)}
           u == [w EXCEPT !.state = "SAVING", !.pending = w.current, !.visible = m,
                   !.accepted = m, !.committed = 0, !.waits = @ \ {n}, !.asked = asked]
<1>1. m \in 0..Count
  BY NamedFacts
<1>2. asked \subseteq Question
  BY <1>1, BoundsAssumption DEF Page, Question, Maybe, Posted, Presses
<1>3. Accepted(w, n) = SaveSession(u)
  BY DEF Accepted, Posted, Page
<1> HIDE DEF m, asked
<1>4. /\ u \in Page /\ u.state = "SAVING" /\ u.pending = w.current /\ u.visible = m /\ u.accepted = m
      /\ u.committed = 0 /\ u.asked = asked /\ u.saved = w.saved
      /\ u.current = w.current /\ u.arrived = w.arrived /\ u.file = w.file
      /\ SameWork(w, u) /\ SameCard(w, u)
  BY <1>1, <1>2, Constants DEF Page, State, SameWork, SameCard
<1> HIDE DEF u
<1> DEFINE v == SaveSession(u)
<1>5. Same(u, v)
  BY <1>4, SaveSessionSame
<1> HIDE DEF v
<1>6. /\ v \in Page /\ SavedIn(w, v) /\ SameWork(w, v) /\ SameCard(w, v)
      /\ v.state = "SAVING" /\ v.pending = w.current /\ v.visible = m
      /\ v.accepted = m /\ v.committed = 0 /\ v.asked = asked
      /\ v.current = w.current /\ v.arrived = w.arrived /\ v.file = w.file
  BY <1>4, <1>5 DEF Same, SavedIn, SameWork, SameCard, SameAsks, SameSession, SameView
<1> QED
  BY <1>3, <1>6 DEF m, asked, v

LEMMA AcceptEffect ==
  ASSUME TypeOK, Accept
  PROVE  /\ page.state = "CYCLING"
         /\ \E n \in Presses :
              \/ page' = Patient(page, page.waits \cup {n}) /\ UNCHANGED world
              \/ /\ ~Turning(page) /\ page.current # NoSession /\ page.arrived > 0
                 /\ page' = Accepted(page, n)
                 /\ over' = over \cup {page.current} /\ Ends(page.current)
                 /\ UNCHANGED <<published, news, anchor, started>>
BY DEF Accept, FreePress, Patient, Turning, TypeOK, Page

LEMMA AcceptGoesOnEffect ==
  ASSUME TypeOK, AcceptGoesOn
  PROVE  \E n \in Presses :
           \/ page' = Patient(page, page.waits \ {n}) /\ UNCHANGED world
           \/ /\ ~Turning(page) /\ page.current # NoSession /\ page.arrived > 0
              /\ page' = Accepted(page, n)
              /\ over' = over \cup {page.current}
              /\ faults' = IF Disturbed(page.current) THEN faults \cup {"late"} ELSE faults
              /\ UNCHANGED <<published, news, anchor, started>>
BY DEF AcceptGoesOn, Due, Patient, Turning, TypeOK, Page

\* An answer is taken off the questions.
Unasked(w, q) == [w EXCEPT !.asked = @ \ {q}]

LEMMA UnaskedFacts ==
  ASSUME NEW w \in Page, NEW q
  PROVE  LET v == Unasked(w, q) IN
         /\ v \in Page /\ v.asked = w.asked \ {q} /\ v.saved = w.saved
         /\ v.pending = w.pending /\ v.accepted = w.accepted /\ v.committed = w.committed
         /\ SameWork(w, v) /\ SameCard(w, v) /\ SameSession(w, v) /\ SameView(w, v)
BY DEF Unasked, Page, SameWork, SameCard, SameSession, SameView

LEMMA EmptyStaysEmpty ==
  ASSUME NEW w \in Page, w.arrived = 0
  PROVE  ShowCycling(w).arrived = 0
<1> DEFINE c == Cleanup(w)
           v == [c EXCEPT !.arrived = 0, !.visible = 0, !.waiting = NoSession, !.handled = {}]
<1>1. c \in Page /\ c.arrived = 0
  BY CleanupEnds DEF Ended
<1>2. Reset(w) = v
  BY DEF Reset
<1>3. ShowCycling(w) \in {c, v}
  BY <1>2 DEF ShowCycling, Page
<1> HIDE DEF c
<1>4. v.arrived = 0
  BY <1>1 DEF Page
<1> HIDE DEF v
<1> QED
  BY <1>1, <1>3, <1>4

\* The accept that came through: the session is let go of, with the variant in
\* the page.
Kept(w, v, q) ==
  /\ v \in Page /\ v.state = "PICKING" /\ v.current = NoSession /\ v.file = NoSession
  /\ v.saved = NoSaved /\ v.pending = NoSession /\ ~v.bar /\ v.waiting = w.waiting
  /\ SameCard(w, v) /\ v.asked = w.asked \ {q} /\ v.accepted = w.accepted
  /\ v.arrived = w.arrived /\ v.visible = w.visible
  /\ \/ w.preview.id = q.id /\ w.preview.shown > 0 /\ Astray(w, v) /\ v.preview = NoPreview
        /\ v.committed = w.preview.shown
     \/ ~(w.preview.id = q.id /\ w.preview.shown > 0) /\ SameMounts(w, v)
        /\ v.committed = w.committed

\* The one that failed, with variants to go on with.
Reopened(w, v, q) ==
  /\ v \in Page /\ v.state = "CYCLING" /\ v.bar /\ w.arrived > 0
  /\ SavedIn(w, v) /\ SameWork(w, v) /\ SameCard(w, v)
  /\ v.current = w.current /\ v.arrived = w.arrived /\ v.file = w.file
  /\ v.visible = IF w.visible \in 1..w.arrived THEN w.visible ELSE 1

AsksLess(w, v, q) ==
  /\ v.asked = w.asked \ {q} /\ v.accepted = w.accepted /\ v.committed = w.committed
  /\ v.pending = IF w.pending = q.id THEN NoSession ELSE w.pending

LEMMA KeptIf ==
  ASSUME NEW w \in Page, NEW q
  PROVE  Kept(w, Release(Commit(MarkHandled(Unasked(w, q)), q.id)), q)
<1> DEFINE u == Unasked(w, q)
           m == MarkHandled(u)
           c == Commit(m, q.id)
           v == Release(c)
<1>1. /\ u \in Page /\ u.asked = w.asked \ {q} /\ u.accepted = w.accepted /\ u.committed = w.committed
      /\ SameWork(w, u) /\ SameCard(w, u) /\ SameSession(w, u) /\ SameView(w, u)
  BY UnaskedFacts
<1> HIDE DEF u
<1>2. Same(u, m)
  BY <1>1, MarkHandledSame
<1>3. /\ m \in Page /\ m.asked = w.asked \ {q} /\ m.accepted = w.accepted /\ m.committed = w.committed
      /\ SameWork(w, m) /\ SameCard(w, m) /\ m.arrived = w.arrived /\ m.visible = w.visible
  BY <1>1, <1>2 DEF Same, SameWork, SameCard, SameAsks, SameSession, SameView
<1> HIDE DEF m
<1> DEFINE id == q.id
<1>4. /\ c \in Page /\ c.waiting = m.waiting /\ SameCard(m, c) /\ SameSession(m, c) /\ SameView(m, c)
      /\ c.asked = m.asked /\ c.accepted = m.accepted
      /\ \/ m.preview.id = id /\ m.preview.shown > 0 /\ Astray(m, c) /\ c.preview = NoPreview
            /\ c.committed = m.preview.shown
         \/ ~(m.preview.id = id /\ m.preview.shown > 0) /\ SameMounts(m, c)
            /\ c.committed = m.committed
  <2> DEFINE d == Commit(m, id)
  <2> HIDE DEF id
  <2>1. /\ d \in Page /\ d.waiting = m.waiting /\ SameCard(m, d) /\ SameSession(m, d) /\ SameView(m, d)
        /\ d.asked = m.asked /\ d.accepted = m.accepted
        /\ \/ m.preview.id = id /\ m.preview.shown > 0 /\ Astray(m, d) /\ d.preview = NoPreview
              /\ d.committed = m.preview.shown
           \/ ~(m.preview.id = id /\ m.preview.shown > 0) /\ SameMounts(m, d)
              /\ d.committed = m.committed
    BY <1>3, CommitFacts
  <2>2. c = d
    BY DEF id
  <2> QED
    BY <2>1, <2>2
<1> HIDE DEF c
<1>5. /\ v \in Page /\ v.state = "PICKING" /\ v.current = NoSession /\ v.file = NoSession
      /\ v.saved = NoSaved /\ v.pending = NoSession /\ ~v.bar
      /\ SameWork(c, v) /\ SameCard(c, v) /\ v.asked = c.asked
      /\ v.accepted = c.accepted /\ v.committed = c.committed
      /\ v.arrived = c.arrived /\ v.visible = c.visible
  BY <1>4, ReleaseFacts
<1> HIDE DEF v
<1>6. Astray(m, c) => Astray(w, v)
  BY <1>3, <1>5 DEF Astray, SameWork
<1>7. SameMounts(m, c) => SameMounts(w, v)
  BY <1>3, <1>5 DEF SameMounts, SameWork
<1>8. Kept(w, v, q)
  BY <1>3, <1>4, <1>5, <1>6, <1>7 DEF Kept, SameWork, SameCard, SameSession, SameView, id
<1> QED
  BY <1>8 DEF v, c, m, u

LEMMA ReopenedIf ==
  ASSUME NEW w \in Page, NEW q, w.preview.shown = 0 \/ w.preview.shown = w.preview.mounted
  PROVE  LET v == ShowCycling([Unasked(w, q) EXCEPT
                     !.pending = IF @ = q.id THEN NoSession ELSE @, !.state = "CYCLING"])
         IN /\ AsksLess(w, v, q)
            /\ \/ Reopened(w, v, q)
               \/ w.arrived = 0 /\ v.arrived = 0 /\ Over(w, v)
<1> DEFINE u == Unasked(w, q)
           p == IF u.pending = q.id THEN NoSession ELSE u.pending
           x == [u EXCEPT !.pending = p, !.state = "CYCLING"]
           v == ShowCycling(x)
<1>1. /\ u \in Page /\ u.asked = w.asked \ {q} /\ u.accepted = w.accepted /\ u.committed = w.committed
      /\ u.pending = w.pending /\ u.saved = w.saved
      /\ SameWork(w, u) /\ SameCard(w, u) /\ SameSession(w, u) /\ SameView(w, u)
  BY UnaskedFacts
<1> HIDE DEF u
<1>2. p \in Maybe /\ p = IF w.pending = q.id THEN NoSession ELSE w.pending
  BY <1>1, Constants DEF Page
<1>3. v = ShowCycling([Unasked(w, q) EXCEPT
            !.pending = IF @ = q.id THEN NoSession ELSE @, !.state = "CYCLING"])
  BY <1>1 DEF u, Page
<1> HIDE DEF p
<1>4. /\ x \in Page /\ x.asked = u.asked /\ x.accepted = u.accepted /\ x.committed = u.committed
      /\ x.pending = p /\ x.state = "CYCLING" /\ x.current = u.current /\ x.arrived = u.arrived
      /\ x.file = u.file /\ x.saved = u.saved
      /\ SameWork(u, x) /\ SameCard(u, x) /\ SameView(u, x)
  BY <1>1, <1>2 DEF Page, State, SameWork, SameCard, SameView
<1> HIDE DEF x
<1>5. /\ x.asked = w.asked \ {q} /\ x.accepted = w.accepted /\ x.committed = w.committed
      /\ x.current = w.current /\ x.arrived = w.arrived /\ x.file = w.file /\ x.saved = w.saved
      /\ SameWork(w, x) /\ SameCard(w, x) /\ SameView(w, x)
  BY <1>1, <1>4 DEF SameWork, SameCard, SameSession, SameView
<1>6. (x.arrived > 0 => Shown(x, v)) /\ (x.arrived = 0 => Ended(x, v) /\ v.arrived = 0)
  BY <1>4, ShowCyclingFacts, EmptyStaysEmpty
<1>7. w.arrived > 0 \/ w.arrived = 0
  BY DEF Page
<1> HIDE DEF v
<1>8. CASE w.arrived > 0
  <2>1. Shown(x, v)
    BY <1>5, <1>6, <1>8
  <2>2. SavedIn(w, v)
    BY <1>5, <2>1 DEF Shown, SavedIn
  <2>3. Reopened(w, v, q)
    BY <1>4, <1>5, <1>8, <2>1, <2>2 DEF Reopened, Shown, SameWork, SameCard, SameSession, SameView
  <2>4. AsksLess(w, v, q)
    BY <1>2, <1>4, <1>5, <2>1 DEF AsksLess, Shown, SameAsks
  <2> QED
    BY <1>3, <2>3, <2>4
<1>9. CASE w.arrived = 0
  <2>1. Ended(x, v) /\ v.arrived = 0
    BY <1>5, <1>6, <1>9
  <2>2. /\ x.waiting = w.waiting /\ x.tasks = w.tasks /\ x.selection = w.selection
        /\ x.preview = w.preview
    BY <1>5 DEF SameWork
  <2>3. Over(w, v)
    BY <1>5, <2>1, <2>2, EndedOver
  <2>4. AsksLess(w, v, q)
    BY <1>2, <1>4, <1>5, <2>1 DEF AsksLess, Ended, SameAsks
  <2> QED
    BY <1>3, <1>9, <2>1, <2>3, <2>4
<1> QED
  BY <1>7, <1>8, <1>9

\* What the helper has been asked of a session it did not take.
Lost(q) == over' = Untaken(Unasked(page, q), q.id)
Fails(q) == IF q.id = page.current \/ "late" \in faults THEN Goes(FALSE) ELSE Strikes("late")

LEMMA LostFacts ==
  ASSUME TypeOK, NEW q, Lost(q)
  PROVE  /\ over' \subseteq over /\ over \subseteq over' \cup {q.id}
         /\ over' # over => \A p \in page.asked \ {q} : p.id # q.id
<1>1. Unasked(page, q).asked = page.asked \ {q}
  BY UnaskedFacts DEF TypeOK
<1> QED
  BY <1>1 DEF Lost, Untaken

LEMMA AcceptAnsweredEffect ==
  ASSUME TypeOK, Plain(page), AcceptAnswered
  PROVE  \E q \in page.asked :
           /\ q.type = "accept" /\ UNCHANGED <<published, news, anchor, started>>
           /\ \/ UNCHANGED <<over, faults>> /\ page.pending # q.id /\ page' = Unasked(page, q)
              \/ UNCHANGED <<over, faults>> /\ page.pending = q.id /\ Kept(page, page', q)
              \/ /\ Lost(q) /\ Fails(q) /\ AsksLess(page, page', q)
                 /\ \/ Reopened(page, page', q)
                    \/ page.arrived = 0 /\ page'.arrived = 0 /\ Over(page, page')
<1>1. PICK q \in page.asked :
        /\ q.type = "accept" /\ UNCHANGED <<published, news, anchor, started>>
        /\ \/ /\ page' = IF Unasked(page, q).pending # q.id THEN Unasked(page, q)
                         ELSE Release(Commit(MarkHandled(Unasked(page, q)), q.id))
              /\ UNCHANGED <<over, faults>>
           \/ /\ page' = ShowCycling([Unasked(page, q) EXCEPT
                            !.pending = IF @ = q.id THEN NoSession ELSE @, !.state = "CYCLING"])
              /\ Lost(q) /\ Fails(q)
  BY DEF AcceptAnswered, Unasked, Lost, Fails
<1>2. page \in Page
  BY DEF TypeOK
<1>3. Unasked(page, q).pending = page.pending
  BY <1>2, UnaskedFacts
<1>4. CASE page' = ShowCycling([Unasked(page, q) EXCEPT
                      !.pending = IF @ = q.id THEN NoSession ELSE @, !.state = "CYCLING"])
           /\ Lost(q) /\ Fails(q)
  <2>1. page.preview.shown = 0 \/ page.preview.shown = page.preview.mounted
    BY DEF Plain
  <2> QED
    BY <1>1, <1>2, <1>4, <2>1, ReopenedIf
<1>5. CASE page.pending # q.id /\ page' = Unasked(page, q) /\ UNCHANGED <<over, faults>>
  BY <1>1, <1>5
<1>6. CASE /\ page.pending = q.id /\ UNCHANGED <<over, faults>>
           /\ page' = Release(Commit(MarkHandled(Unasked(page, q)), q.id))
  <2>1. Kept(page, page', q)
    BY <1>2, <1>6, KeptIf
  <2> QED
    BY <1>1, <1>6, <2>1
<1> QED
  BY <1>1, <1>3, <1>4, <1>5, <1>6

Dropping(w) == [type |-> "discard", id |-> w.current, variant |-> 0, n |-> 0]

LEMMA DiscardEffect ==
  ASSUME TypeOK, Discard
  PROVE  /\ page.state = "CYCLING" /\ page.current # NoSession
         /\ over' = over \cup {page.current} /\ Ends(page.current)
         /\ UNCHANGED <<published, news, anchor, started>>
         /\ page' \in Page /\ page'.asked = page.asked \cup {Dropping(page)}
         /\ page'.pending = page.pending /\ page'.accepted = page.accepted
         /\ page'.committed = page.committed /\ page'.saved = page.saved
         /\ SameWork(page, page') /\ SameCard(page, page') /\ SameSession(page, page')
         /\ SameView(page, page')
<1> DEFINE asked == page.asked \cup {Dropping(page)}
<1>1. page \in Page
  BY DEF TypeOK
<1>2. /\ page.state = "CYCLING" /\ page.current # NoSession
      /\ over' = over \cup {page.current} /\ Ends(page.current)
      /\ UNCHANGED <<published, news, anchor, started>> /\ page' = [page EXCEPT !.asked = asked]
  BY <1>1 DEF Discard, Dropping, Page
<1>3. asked \subseteq Question
  BY <1>1, <1>2, BoundsAssumption, Constants DEF Page, Question, Maybe, Dropping
<1> HIDE DEF asked
<1>4. /\ page' \in Page /\ page'.asked = asked /\ page'.pending = page.pending
      /\ page'.accepted = page.accepted /\ page'.committed = page.committed
      /\ page'.saved = page.saved
  BY <1>1, <1>2, <1>3 DEF Page
<1>5. /\ SameWork(page, page') /\ SameCard(page, page') /\ SameSession(page, page')
      /\ SameView(page, page')
  BY <1>1, <1>2 DEF Page, SameWork, SameCard, SameSession, SameView
<1> QED
  BY <1>2, <1>4, <1>5 DEF asked

LEMMA DiscardAnsweredEffect ==
  ASSUME TypeOK, Plain(page), DiscardAnswered
  PROVE  \E q \in page.asked :
           /\ q.type = "discard" /\ UNCHANGED <<published, news, anchor, started>>
           /\ \/ /\ UNCHANGED <<over, faults>> /\ Over(page, page')
                 /\ page'.asked = page.asked \ {q} /\ page'.pending = page.pending
                 /\ page'.accepted = page.accepted /\ page'.committed = page.committed
                 /\ page'.arrived = page.arrived /\ page'.visible = page.visible
              \/ Lost(q) /\ Goes(FALSE) /\ page' = Unasked(page, q)
<1>1. PICK q \in page.asked :
        /\ q.type = "discard" /\ UNCHANGED <<published, news, anchor, started>>
        /\ \/ page' = Cleanup(MarkHandled(Unasked(page, q))) /\ UNCHANGED <<over, faults>>
           \/ page' = Unasked(page, q) /\ Lost(q) /\ Goes(FALSE)
  BY DEF DiscardAnswered, Unasked, Lost
<1> DEFINE u == Unasked(page, q)
           m == MarkHandled(u)
           v == Cleanup(m)
<1>2. /\ u \in Page /\ u.asked = page.asked \ {q} /\ u.pending = page.pending
      /\ u.accepted = page.accepted /\ u.committed = page.committed
      /\ SameWork(page, u) /\ SameSession(page, u) /\ SameView(page, u)
  BY UnaskedFacts DEF TypeOK
<1>3. CASE page' = v /\ UNCHANGED <<over, faults>>
  <2> HIDE DEF u
  <2>1. Same(u, m)
    BY <1>2, MarkHandledSame
  <2> HIDE DEF m
  <2>2. /\ m \in Page /\ m.asked = page.asked \ {q} /\ m.pending = page.pending
        /\ m.accepted = page.accepted /\ m.committed = page.committed
        /\ m.tasks = page.tasks /\ m.selection = page.selection /\ m.preview = page.preview
        /\ m.waiting = page.waiting /\ m.current = page.current
        /\ m.arrived = page.arrived /\ m.visible = page.visible
    BY <1>2, <2>1 DEF Same, SameWork, SameAsks, SameSession, SameView
  <2>3. Ended(m, v) /\ v.arrived = m.arrived /\ v.visible = m.visible
    BY <2>2, CleanupEnds
  <2> HIDE DEF v
  <2>4. page.preview.shown = 0 \/ page.preview.shown = page.preview.mounted
    BY DEF Plain
  <2>5. Over(page, v)
    BY <2>2, <2>3, <2>4, EndedOver
  <2>6. /\ v.asked = page.asked \ {q} /\ v.pending = page.pending /\ v.accepted = page.accepted
        /\ v.committed = page.committed /\ v.arrived = page.arrived /\ v.visible = page.visible
    BY <2>2, <2>3 DEF Ended, SameAsks
  <2> QED
    BY <1>1, <1>3, <2>5, <2>6
<1> QED
  BY <1>1, <1>3

LEMMA RetryEffect ==
  ASSUME TypeOK, Retry
  PROVE  LET id == IF page.card.id = NoSession THEN page.current ELSE page.card.id
             file == IF page.card.file = NoSession THEN page.file ELSE page.card.file
         IN /\ page.hasCard /\ UNCHANGED surroundings
            /\ IF page.card.id \in over THEN Strikes("late")
               ELSE Overlaps(Injecting(page) \cup Selecting(page))
            /\ page' \in Page /\ ~page'.hasCard /\ page'.card = NoCard /\ page'.saved = page.saved
            /\ SameAsks(page, page') /\ SameView(page, page') /\ page'.waiting = page.waiting
            /\ page'.current = page.current /\ page'.arrived = page.arrived /\ page'.file = page.file
            /\ \/ /\ id = NoSession \/ file = NoSession
                  /\ SameMounts(page, page') /\ page'.state = page.state
               \/ /\ id # NoSession /\ file # NoSession
                  /\ page'.state = IF page.state = "CYCLING" THEN "CYCLING" ELSE "GENERATING"
                  /\ \E i \in Slots : Injects(page, page', i, file, id)
<1> DEFINE id == IF page.card.id = NoSession THEN page.current ELSE page.card.id
           file == IF page.card.file = NoSession THEN page.file ELSE page.card.file
           w == ClearCard(page)
           x == [w EXCEPT !.state = IF @ = "CYCLING" THEN @ ELSE "GENERATING"]
<1>1. page \in Page /\ page.card \in Card
  BY DEF TypeOK, Page
<1>2. id \in Maybe /\ file \in Maybe
  BY <1>1 DEF Page, Card
<1>3. /\ w \in Page /\ ~w.hasCard /\ w.card = NoCard /\ w.saved = page.saved
      /\ SameWork(page, w) /\ SameAsks(page, w) /\ SameSession(page, w) /\ SameView(page, w)
  BY <1>1, ClearCardFacts
<1>4. /\ page.hasCard /\ UNCHANGED surroundings
      /\ IF page.card.id \in over THEN Strikes("late")
         ELSE Overlaps(Injecting(page) \cup Selecting(page))
      /\ \/ (id = NoSession \/ file = NoSession) /\ page' = w
         \/ /\ id # NoSession /\ file # NoSession
            /\ \E i \in Free(page) : page' = Inject(x, i, file, id)
  BY DEF Retry
<1> HIDE DEF w
<1>5. CASE (id = NoSession \/ file = NoSession) /\ page' = w
  <2>1. /\ SameMounts(page, page') /\ page'.state = page.state /\ page'.waiting = page.waiting
        /\ page'.current = page.current /\ page'.arrived = page.arrived /\ page'.file = page.file
    BY <1>3, <1>5 DEF SameWork, SameMounts, SameSession
  <2> QED
    BY <1>3, <1>4, <1>5, <2>1
<1>6. CASE id # NoSession /\ file # NoSession /\ \E i \in Free(page) : page' = Inject(x, i, file, id)
  <2>1. /\ x \in Page /\ ~x.hasCard /\ x.card = NoCard /\ x.saved = page.saved
        /\ x.state = IF page.state = "CYCLING" THEN "CYCLING" ELSE "GENERATING"
        /\ x.current = w.current /\ x.arrived = w.arrived /\ x.file = w.file
        /\ SameWork(w, x) /\ SameAsks(w, x) /\ SameView(w, x)
    BY <1>3 DEF Page, State, SameSession, SameWork, SameAsks, SameView
  <2> HIDE DEF x
  <2>2. /\ SameWork(page, x) /\ SameAsks(page, x) /\ SameView(page, x)
        /\ x.current = page.current /\ x.arrived = page.arrived /\ x.file = page.file
    BY <1>3, <2>1 DEF SameSession, SameWork, SameAsks, SameView
  <2>3. PICK i \in Free(page) : page' = Inject(x, i, file, id)
    BY <1>6
  <2>4. i \in Slots /\ page.tasks[i].step = "idle"
    BY DEF Free
  <2> HIDE DEF id, file
  <2>5. /\ page' \in Page /\ Others(x, page', i) /\ Beside(x, page')
        /\ page'.tasks[i].step = "manifest" /\ page'.tasks[i].file = file /\ page'.tasks[i].id = id
        /\ ~page'.tasks[i].own
    BY <1>2, <2>1, <2>3, <2>4, InjectFacts
  <2>6. Injects(page, page', i, file, id)
    BY <2>2, <2>4, <2>5 DEF Injects, Others, Beside, SameWork
  <2>7. /\ ~page'.hasCard /\ page'.card = NoCard /\ page'.saved = page.saved
        /\ SameAsks(page, page') /\ SameView(page, page') /\ page'.waiting = page.waiting
        /\ page'.current = page.current /\ page'.arrived = page.arrived /\ page'.file = page.file
        /\ page'.state = IF page.state = "CYCLING" THEN "CYCLING" ELSE "GENERATING"
    BY <2>1, <2>2, <2>5 DEF Beside, SameCard, SameAsks, SameSession, SameView, SameWork
  <2> QED
    BY <1>4, <1>6, <2>4, <2>5, <2>6, <2>7 DEF id, file
<1> QED
  BY <1>4, <1>5, <1>6

LEMMA DismissEffect ==
  ASSUME TypeOK, Dismiss
  PROVE  /\ page.hasCard /\ Strikes("dismissed") /\ UNCHANGED surroundings
         /\ page' \in Page /\ ~page'.hasCard /\ page'.card = NoCard /\ page'.saved = page.saved
         /\ SameWork(page, page') /\ SameAsks(page, page') /\ SameView(page, page')
         /\ page'.current = page.current /\ page'.arrived = page.arrived /\ page'.file = page.file
         /\ page'.state = IF page.state = "GENERATING" THEN "PICKING" ELSE page.state
<1> DEFINE w == ClearCard(page)
<1>1. /\ w \in Page /\ ~w.hasCard /\ w.card = NoCard /\ w.saved = page.saved
      /\ SameWork(page, w) /\ SameAsks(page, w) /\ SameSession(page, w) /\ SameView(page, w)
  BY ClearCardFacts DEF TypeOK
<1>2. /\ page.hasCard /\ Strikes("dismissed") /\ UNCHANGED surroundings
      /\ page' = [w EXCEPT !.state = IF @ = "GENERATING" THEN "PICKING" ELSE @]
  BY DEF Dismiss
<1> HIDE DEF w
<1>3. /\ page' \in Page /\ ~page'.hasCard /\ page'.card = NoCard /\ page'.saved = w.saved
      /\ SameWork(w, page') /\ SameAsks(w, page') /\ SameView(w, page')
      /\ page'.current = w.current /\ page'.arrived = w.arrived /\ page'.file = w.file
      /\ page'.state = IF w.state = "GENERATING" THEN "PICKING" ELSE w.state
  BY <1>1, <1>2 DEF Page, State, SameWork, SameAsks, SameView
<1> QED
  BY <1>1, <1>2, <1>3 DEF SameWork, SameAsks, SameSession, SameView

LEMMA HearEffect ==
  ASSUME TypeOK, NEW s \in Sessions, Hear(s)
  PROVE  /\ s \in news /\ news' = news \ {s} /\ UNCHANGED <<published, over, anchor, started>>
         /\ \/ /\ page.current = s /\ Overlaps(Selecting(page))
               /\ page' \in Page /\ page'.file = s /\ page'.waiting = page.waiting
               /\ page'.saved = page.saved /\ SameCard(page, page') /\ SameAsks(page, page')
               /\ SameView(page, page') /\ page'.state = page.state /\ page'.current = page.current
               /\ page'.arrived = page.arrived
               /\ \E i \in Slots : Injects(page, page', i, s, s)
            \/ page.current # s /\ UNCHANGED <<page, faults>>
<1>1. page \in Page /\ s \in Maybe
  BY Constants DEF TypeOK
<1>2. CASE /\ page.current = s
           /\ \E i \in Free(page), tune \in {page.tune, "loading"} :
                page' = Inject([page EXCEPT !.file = s, !.tune = tune], i, s, s)
           /\ Overlaps(Selecting(page))
  <2>1. PICK i \in Free(page), tune \in {page.tune, "loading"} :
          page' = Inject([page EXCEPT !.file = s, !.tune = tune], i, s, s)
    BY <1>2
  <2> DEFINE x == [page EXCEPT !.file = s, !.tune = tune]
  <2>2. i \in Slots /\ page.tasks[i].step = "idle" /\ tune \in Tune
    BY <1>1, <2>1 DEF Free, Page, Tune
  <2>3. /\ x \in Page /\ x.file = s /\ x.saved = page.saved /\ x.state = page.state
        /\ x.current = page.current /\ x.arrived = page.arrived
        /\ SameWork(page, x) /\ SameCard(page, x) /\ SameAsks(page, x) /\ SameView(page, x)
    BY <1>1, <2>2 DEF Page, SameWork, SameCard, SameAsks, SameView
  <2>4. page' = Inject(x, i, s, s)
    BY <2>1
  <2> HIDE DEF x
  <2>5. /\ page' \in Page /\ Others(x, page', i) /\ Beside(x, page')
        /\ page'.tasks[i].step = "manifest" /\ page'.tasks[i].file = s /\ page'.tasks[i].id = s
        /\ ~page'.tasks[i].own
    BY <1>1, <2>2, <2>3, <2>4, InjectFacts
  <2>6. Injects(page, page', i, s, s)
    BY <2>2, <2>3, <2>5 DEF Injects, Others, Beside, SameWork
  <2>7. /\ page'.file = s /\ page'.waiting = page.waiting
        /\ page'.saved = page.saved /\ SameCard(page, page') /\ SameAsks(page, page')
        /\ SameView(page, page') /\ page'.state = page.state /\ page'.current = page.current
        /\ page'.arrived = page.arrived
    BY <2>3, <2>5 DEF Beside, SameCard, SameAsks, SameSession, SameView, SameWork
  <2> QED
    BY <1>2, <2>2, <2>5, <2>6, <2>7 DEF Hear
<1> QED
  BY <1>2 DEF Hear

\* The page after a reload: nothing in it is under way.
Blank(v) ==
  /\ v \in Page /\ v.preview = NoPreview /\ v.waiting = NoSession /\ v.card = NoCard /\ ~v.hasCard
  /\ v.pending = NoSession /\ v.accepted = 0 /\ v.committed = 0 /\ v.asked = {}
  /\ v.selection = NoSelection

\* The comparison that was saved, taken up again.
Restored(w, v) ==
  LET n == IF w.saved.arrived = 0 /\ w.saved.file # NoSession THEN Count ELSE w.saved.arrived IN
  /\ w.saved.id # NoSession /\ v.current = w.saved.id /\ v.state = "GENERATING" /\ v.bar
  /\ v.file = w.saved.file /\ v.arrived = n
  /\ v.visible = IF w.saved.visible \in 1..n THEN w.saved.visible ELSE IF n > 0 THEN 1 ELSE 0
  /\ v.saved.id = v.current /\ v.saved.file = v.file /\ v.saved.visible = v.visible

LEMMA ReloadEffect ==
  ASSUME TypeOK, Reload
  PROVE  /\ Strikes("reload") /\ UNCHANGED surroundings /\ Blank(page')
         /\ \/ /\ page'.state = "PICKING" /\ page'.current = NoSession /\ page'.file = NoSession
               /\ page'.saved = NoSaved /\ page'.arrived = 0 /\ page'.visible = 0
               /\ \A k \in Slots : page'.tasks[k] = Idle
            \/ /\ Restored(page, page')
               /\ \/ page.saved.file = NoSession /\ \A k \in Slots : page'.tasks[k] = Idle
                  \/ /\ page.saved.file # NoSession /\ page'.tasks[1].step = "manifest"
                     /\ page'.tasks[1].file = page.saved.file /\ page'.tasks[1].id = page.saved.id
                     /\ ~page'.tasks[1].own
                     /\ \A k \in Slots \ {1} : page'.tasks[k] = Idle
<1> DEFINE old == page.saved
           w == Fresh(old, page.handled)
           n == IF w.saved.arrived = 0 /\ w.saved.file # NoSession THEN Count ELSE w.saved.arrived
           visible == IF w.saved.visible \in 1..n THEN w.saved.visible ELSE IF n > 0 THEN 1 ELSE 0
           x == [w EXCEPT !.current = w.saved.id, !.state = "GENERATING",
                       !.bar = TRUE, !.file = w.saved.file, !.tune = w.saved.tune, !.arrived = n,
                       !.visible = visible]
           sv == [id |-> x.current, state |-> x.state, arrived |-> x.arrived,
                  visible |-> x.visible, file |-> x.file, tune |-> x.tune]
           r == SaveSession(x)
<1>1. old \in Saved /\ page.handled \subseteq Sessions
  BY DEF TypeOK, Page
<1>2. /\ Strikes("reload") /\ UNCHANGED surroundings
      /\ page' = IF \/ w.saved.id \in w.handled \cup {NoSession}
                    \/ w.saved.state \notin {"GENERATING", "CYCLING"}
                 THEN [w EXCEPT !.saved = NoSaved]
                 ELSE IF w.saved.file = NoSession THEN r
                 ELSE Inject(r, 1, w.saved.file, w.saved.id)
  BY DEF Reload
<1> DEFINE h == page.handled
<1> HIDE DEF old, h
<1>3. /\ w \in Page /\ w.saved = old /\ w.handled = h /\ Blank(w) /\ w.state = "PICKING"
      /\ w.current = NoSession /\ w.file = NoSession /\ w.arrived = 0 /\ w.visible = 0
      /\ \A k \in Slots : w.tasks[k] = Idle
  <2>1. w = Fresh(old, h)
    BY DEF h
  <2>2. h \subseteq Sessions
    BY <1>1 DEF h
  <2>3. [i \in Slots |-> Idle] \in [Slots -> Task]
    BY Constants
  <2>4. w \in Page
    BY <1>1, <2>1, <2>2, <2>3, Constants DEF Fresh, Page, State, Tune
  <2> QED
    BY <2>1, <2>4 DEF Fresh, Blank
<1> HIDE DEF w
<1>4. CASE page' = [w EXCEPT !.saved = NoSaved]
  <2>1. page' \in Page /\ page'.saved = NoSaved
    BY <1>3, <1>4, Constants DEF Page
  <2>2. /\ page'.state = w.state /\ page'.current = w.current /\ page'.file = w.file
        /\ page'.arrived = w.arrived /\ page'.visible = w.visible /\ page'.tasks = w.tasks
        /\ page'.preview = w.preview /\ page'.waiting = w.waiting /\ page'.card = w.card
        /\ page'.hasCard = w.hasCard /\ page'.pending = w.pending /\ page'.accepted = w.accepted
        /\ page'.committed = w.committed /\ page'.asked = w.asked /\ page'.selection = w.selection
    BY <1>3, <1>4 DEF Page
  <2>3. Blank(page')
    BY <1>3, <2>1, <2>2 DEF Blank
  <2>4. \A k \in Slots : page'.tasks[k] = Idle
    BY <1>3, <2>2
  <2>5. /\ page'.state = "PICKING" /\ page'.current = NoSession /\ page'.file = NoSession
        /\ page'.arrived = 0 /\ page'.visible = 0
    BY <1>3, <2>2
  <2> QED
    BY <1>2, <2>1, <2>3, <2>4, <2>5
<1>5. CASE w.saved.id # NoSession /\ page' = IF w.saved.file = NoSession THEN r
                                             ELSE Inject(r, 1, w.saved.file, w.saved.id)
  <2>1. n \in 0..Count /\ n \in Nat
    BY <1>1, <1>3, Constants DEF Saved
  <2>2. visible \in 0..Count
    BY <1>1, <1>3, <2>1, Constants DEF Saved
  <2> DEFINE n1 == n
             v1 == visible
  <2>3. x = [w EXCEPT !.current = w.saved.id, !.state = "GENERATING",
                       !.bar = TRUE, !.file = w.saved.file, !.tune = w.saved.tune, !.arrived = n1,
                       !.visible = v1]
    OBVIOUS
  <2>4. n1 \in 0..Count /\ v1 \in 0..Count
    BY <2>1, <2>2
  <2> HIDE DEF n, visible, n1, v1, x
  <2>5. /\ x \in Page /\ x.current = old.id /\ x.state = "GENERATING" /\ x.bar /\ x.file = old.file
        /\ x.arrived = n1 /\ x.visible = v1 /\ x.tasks = w.tasks
        /\ x.preview = w.preview /\ x.waiting = w.waiting /\ x.card = w.card
        /\ x.hasCard = w.hasCard /\ x.pending = w.pending /\ x.accepted = w.accepted
        /\ x.committed = w.committed /\ x.asked = w.asked /\ x.selection = w.selection
    BY <1>1, <1>3, <2>3, <2>4 DEF Page, Saved, State
  <2>6. r = [x EXCEPT !.saved = sv]
    BY <1>3, <1>5, <2>5 DEF SaveSession
  <2>7. sv \in Saved /\ sv.id = x.current /\ sv.file = x.file /\ sv.visible = x.visible
    BY <2>5 DEF Page, Saved
  <2> HIDE DEF sv, r
  <2>8. /\ r \in Page /\ r.saved = sv /\ r.current = x.current /\ r.state = x.state /\ r.bar = x.bar
        /\ r.file = x.file /\ r.arrived = x.arrived /\ r.visible = x.visible /\ r.tasks = x.tasks
        /\ r.preview = x.preview /\ r.waiting = x.waiting /\ r.card = x.card
        /\ r.hasCard = x.hasCard /\ r.pending = x.pending /\ r.accepted = x.accepted
        /\ r.committed = x.committed /\ r.asked = x.asked /\ r.selection = x.selection
    BY <2>5, <2>6, <2>7 DEF Page
  <2>9. Blank(r)
    BY <1>3, <2>5, <2>8 DEF Blank
  <2>10. Restored(page, r)
    <3>1. /\ n1 = IF old.arrived = 0 /\ old.file # NoSession THEN Count ELSE old.arrived
          /\ v1 = IF old.visible \in 1..n1 THEN old.visible ELSE IF n1 > 0 THEN 1 ELSE 0
      BY <1>3 DEF n1, v1, n, visible
    <3>2. old.id # NoSession
      BY <1>3, <1>5
    <3>3. /\ r.current = old.id /\ r.state = "GENERATING" /\ r.bar /\ r.file = old.file
          /\ r.arrived = n1 /\ r.visible = v1
          /\ r.saved.id = r.current /\ r.saved.file = r.file /\ r.saved.visible = r.visible
      BY <2>5, <2>7, <2>8
    <3> QED
      BY <3>1, <3>2, <3>3 DEF Restored, old
  <2>11. \A k \in Slots : r.tasks[k] = Idle
    BY <1>3, <2>5, <2>8
  <2>12. CASE old.file = NoSession
    <3>1. page' = r
      BY <1>3, <1>5, <2>12
    <3> QED
      BY <1>2, <2>9, <2>10, <2>11, <2>12, <3>1 DEF old
  <2>13. CASE old.file # NoSession
    <3> DEFINE f == old.file
               d == old.id
               one == 1
    <3>1. page' = Inject(r, one, f, d) /\ f \in Maybe /\ d \in Maybe /\ one \in Slots
      BY <1>1, <1>3, <1>5, <2>13, Constants DEF Saved
    <3> HIDE DEF f, d, one
    <3>2. /\ page' \in Page /\ Others(r, page', one) /\ Beside(r, page')
          /\ page'.tasks[one].step = "manifest" /\ page'.tasks[one].file = f
          /\ page'.tasks[one].id = d /\ ~page'.tasks[one].own
      BY <2>8, <3>1, InjectFacts
    <3>3. Blank(page')
      BY <2>9, <3>2 DEF Blank, Beside, SameCard, SameAsks
    <3>4. Restored(page, page')
      BY <2>10, <3>2 DEF Restored, Beside, SameSession, SameView
    <3>5. \A k \in Slots \ {1} : page'.tasks[k] = Idle
      BY <2>11, <3>2 DEF Others, one
    <3> QED
      BY <1>2, <2>13, <3>2, <3>3, <3>4, <3>5 DEF old, f, d, one
  <2> QED
    BY <2>12, <2>13
<1> QED
  BY <1>2, <1>4, <1>5

-----------------------------------------------------------------------------
(* The inductive invariant.  Everything rests on what belongs to the page's own *)
(* session as long as nothing was ended or gone on with too early ("late").     *)


\* What is idle is nobody's, what is not has a session and a manifest, and a
\* card says whose it is.
Sound ==
  /\ Plain(page)
  /\ \A i \in Slots : LET t == page.tasks[i] IN
       /\ t.step = "idle" <=> t.id = NoSession
       /\ t.step # "idle" => t.file # NoSession
  /\ Turning(page) <=> page.selection.id # NoSession
  /\ page.hasCard => page.card.id # NoSession

\* No session is met that was not started.
Begun ==
  /\ page.current <= started /\ page.preview.id <= started /\ page.saved.id <= started
  /\ page.waiting <= started /\ page.card.id <= started /\ page.selection.id <= started
  /\ \A i \in Slots : page.tasks[i].id <= started

\* A session that has come as far as a preview, a wait or a card has a manifest,
\* so that its card can be retried.
Filed ==
  /\ "dismissed" \notin faults /\ page.current # NoSession
  /\ \/ Working(page) \/ Turning(page) \/ page.waiting # NoSession \/ page.hasCard
     \/ page.preview.id = page.current
  => page.file # NoSession

\* The bar goes only for a card, or while something is under way.
Offer ==
  /\ page.state \in {"GENERATING", "CYCLING"} /\ ~page.bar /\ ~Working(page) /\ ~Turning(page)
  /\ page.current # NoSession
  => page.hasCard \/ "dismissed" \in faults

\* Work, wait, manifest, record and card are of the page's session ...
TasksOwn ==
  \A i \in Slots : LET t == page.tasks[i] IN
    /\ t.step # "idle" => t.id = page.current /\ t.file = page.current
    /\ t.step \in {"mount", "explain"} => page.arrived > 0
PageOwn ==
  /\ Turning(page) => page.selection.id = page.current /\ page.arrived > 0
  /\ page.waiting \in {NoSession, page.current}
  /\ page.file \in {NoSession, page.current}
  /\ page.saved.file \in {NoSession, page.saved.id}
  /\ page.state # "PICKING" => page.current # NoSession
  /\ "dismissed" \notin faults /\ page.state = "PICKING" => page.current = NoSession
\* ... or, a card, of one that was ended.
CardOwn ==
  page.hasCard =>
    /\ page.card.id \in over \cup {page.current}
    /\ page.card.id = page.current => page.card.file \in {NoSession, page.current}
\* While the helper is asked to end a session, nothing of it goes on; of two accepts
\* of it the second may find it let go of, or open again.
AskedOwn ==
  \A q \in page.asked :
    /\ ~Working(page) /\ ~Turning(page) /\ page.waiting = NoSession
    /\ \/ q.id = page.current /\ page.current \in over /\ page.current \notin news
       \/ q.type = "accept" /\ page.current = NoSession
    /\ q.type = "discard" => page.asked = {q} /\ page.state = "CYCLING"
    /\ q.type = "accept" /\ page.current # NoSession
         => page.state = IF page.pending = NoSession THEN "CYCLING" ELSE "SAVING"
Own == "late" \notin faults => TasksOwn /\ PageOwn /\ CardOwn /\ AskedOwn

\* A pending accept is being asked, of what the page shows, and so is another one.
Pends ==
  /\ page.pending # NoSession =>
       /\ page.pending = page.current /\ Named(page) = page.accepted
       /\ \E q \in page.asked : q.type = "accept" /\ q.id = page.current
  /\ \A q \in page.asked : q.type = "accept" => q.variant = page.accepted
  /\ page.committed # 0 => page.committed = page.accepted
Accepting == "late" \notin faults => Pends

\* Without a failure every preview is of the page's session, and shows a variant
\* or is about to.
Flows ==
  /\ "dismissed" \notin faults /\ ~page.hasCard
  /\ page.preview.id \in {NoSession, page.current}
  /\ \A i \in Slots : LET t == page.tasks[i] IN
       t.step # "explain" /\ (t.step = "mount" => t.own /\ t.variant > 0)
  /\ page.selection.step # "explain"
  /\ page.selection.step = "mount" => page.selection.own /\ page.selection.variant > 0
  /\ page.preview.id # NoSession /\ page.preview.shown = 0 => \E i \in Slots : page.tasks[i].step = "mount"
Smooth == {"late", "failure"} \cap faults = {} => Flows

\* What the agent has published bounds what is read, and so what is counted.
Counted ==
  /\ page.arrived > 0 => page.visible \in 1..page.arrived
  /\ page.current # NoSession => page.visible <= 1 \/ page.visible <= published[page.current]
  /\ page.saved.id # NoSession => page.saved.visible <= 1 \/ page.saved.visible <= published[page.saved.id]
  /\ page.saved.id = page.current /\ page.current # NoSession /\ page.visible = 0
       => page.saved.visible <= 1
  /\ \/ page.state \in {"CYCLING", "SAVING"}
     \/ \E i \in Slots : page.tasks[i].step \in {"mount", "explain"}
     => page.arrived <= 1 \/ (page.current # NoSession /\ page.arrived <= published[page.current])
\* A mount mounts what the counter says.
TasksCount ==
  \A i \in Slots : LET t == page.tasks[i] IN
    /\ t.step = "params" => /\ page.visible <= IF t.variant = 0 THEN 1 ELSE t.variant
                            /\ t.variant <= published[t.id]
    /\ t.step \in {"mount", "explain"} =>
         t.variant = page.visible /\ page.preview.id \in {NoSession, page.current}
\* So does the variant turned to, from the one that was mounted.
TurnCounts == Turning(page) =>
  /\ ~Working(page) /\ page.waiting = NoSession /\ page.state = "CYCLING"
  /\ page.preview.id \in {NoSession, page.current}
  /\ page.selection.variant = page.visible /\ page.selection.previous \in 1..page.arrived
  /\ page.preview.id = page.current /\ page.preview.mounted # 0
       => page.preview.mounted = page.selection.previous
MountCounts ==
  /\ page.waiting # NoSession => page.preview.id # page.waiting
  /\ page.preview.id = page.current /\ page.current # NoSession /\ page.preview.mounted # 0
       /\ ~Turning(page) => page.visible = page.preview.mounted
  /\ page.state \in {"CYCLING", "SAVING"} /\ ~Working(page) /\ ~Turning(page) /\ ~page.hasCard
       /\ "dismissed" \notin faults => page.preview.id = page.current /\ page.preview.mounted # 0
Compared ==
  {"late", "overlap"} \cap faults = {} => Counted /\ TasksCount /\ TurnCounts /\ MountCounts

Inv ==
  TypeOK /\ Sound /\ Begun /\ Filed /\ Offer /\ Own /\ Accepting /\ Smooth /\ Compared

-----------------------------------------------------------------------------
(* Trouble, and what is idle. *)

\* Nothing of what has gone wrong is forgotten.
More == faults \subseteq faults' /\ faults' \subseteq Fault

LEMMA StrikesMore ==
  ASSUME TypeOK, NEW kind \in Fault, Strikes(kind)
  PROVE  More /\ faults' = faults \cup {kind} /\ kind \notin faults
BY DEF Strikes, TypeOK, More

LEMMA GoesMore ==
  ASSUME TypeOK, Goes(FALSE)
  PROVE  /\ More /\ "failure" \in faults'
         /\ \A kind \in {"late", "overlap", "dismissed"} : kind \in faults' <=> kind \in faults
<1>1. Strikes(IF "failure" \in faults THEN "again" ELSE "failure")
  BY DEF Goes
<1> QED
  BY <1>1 DEF Strikes, TypeOK, More, Fault

LEMMA OverlapsMore ==
  ASSUME TypeOK, NEW busy, Overlaps(busy)
  PROVE  /\ More
         /\ "overlap" \notin faults' => busy = {}
         /\ \A kind \in {"late", "failure", "dismissed"} : kind \in faults' <=> kind \in faults
BY DEF Overlaps, Strikes, TypeOK, More, Fault

LEMMA EndsMore ==
  ASSUME TypeOK, NEW id, Ends(id)
  PROVE  /\ More
         /\ "late" \notin faults' => ~Disturbed(id)
         /\ \A kind \in {"overlap", "failure", "dismissed"} : kind \in faults' <=> kind \in faults
<1>1. CASE Disturbed(id)
  <2>1. Strikes("late")
    BY <1>1 DEF Ends
  <2> QED
    BY <2>1, StrikesMore DEF Fault
<1>2. CASE ~Disturbed(id)
  <2>1. UNCHANGED faults
    BY <1>2 DEF Ends
  <2> QED
    BY <1>2, <2>1 DEF TypeOK, More
<1> QED
  BY <1>1, <1>2

LEMMA FailsMore ==
  ASSUME TypeOK, NEW q, Fails(q)
  PROVE  /\ More
         /\ "late" \notin faults' => q.id = page.current
         /\ {"late", "failure"} \cap faults' # {}
         /\ "dismissed" \in faults' <=> "dismissed" \in faults
<1>1. CASE Goes(FALSE)
  BY <1>1, GoesMore DEF Fails, Strikes, More
<1>2. CASE Strikes("late")
  BY <1>2, StrikesMore DEF Fault
<1> QED
  BY <1>1, <1>2 DEF Fails

LEMMA QuietFacts ==
  ASSUME Sound
  PROVE  /\ Injecting(page) = {} <=> ~Working(page)
         /\ Selecting(page) = {} <=> ~Turning(page)
         /\ \A i \in Slots : page.tasks[i].step # "idle" => page.tasks[i].id \in Injecting(page)
         /\ Turning(page) => page.selection.id \in Selecting(page)
BY DEF Sound, Injecting, Selecting, Working, Turning

LEMMA PageFacts ==
  ASSUME NEW w \in Page
  PROVE  /\ w.current \in Nat /\ w.waiting \in Nat /\ w.card.id \in Nat /\ w.preview.id \in Nat
         /\ w.saved.id \in Nat /\ w.arrived \in Nat /\ w.visible \in Nat /\ w.preview.mounted \in Nat
         /\ w.preview.shown \in Nat /\ w.saved.visible \in Nat
         /\ w.current \in Maybe /\ w.saved.id \in Maybe
         /\ \A i \in Slots : w.tasks[i].id \in Nat /\ w.tasks[i].variant \in Nat /\ w.tasks[i].id \in Maybe
         /\ w.selection.variant \in Nat /\ w.selection.previous \in Nat /\ w.selection.id \in Nat
<1>1. /\ w.card \in Card /\ w.preview \in Preview /\ w.saved \in Saved /\ w.selection \in Selection
      /\ \A i \in Slots : w.tasks[i] \in Task
  BY DEF Page
<1>2. \A n \in 0..Count : n \in Nat
  OBVIOUS
<1> QED
  BY <1>1, <1>2, Constants DEF Page, Card, Preview, Saved, Selection, Task

\* What the invariant says now, of a step that leaves no trouble of a kind behind.
LEMMA OwnNow ==
  ASSUME Inv, More, "late" \notin faults'
  PROVE  TasksOwn /\ PageOwn /\ CardOwn /\ AskedOwn /\ Pends
BY DEF Inv, More, Own, Accepting

LEMMA FlowsNow ==
  ASSUME Inv, More, {"late", "failure"} \cap faults' = {}
  PROVE  Flows /\ "late" \notin faults' /\ "failure" \notin faults'
<1>1. {"late", "failure"} \cap faults = {}
  BY DEF More
<1> QED
  BY <1>1 DEF Inv, Smooth

LEMMA CountsNow ==
  ASSUME Inv, More, {"late", "overlap"} \cap faults' = {}
  PROVE  /\ Counted /\ TasksCount /\ TurnCounts /\ MountCounts
         /\ "late" \notin faults' /\ "overlap" \notin faults'
<1>1. {"late", "overlap"} \cap faults = {}
  BY DEF More
<1> QED
  BY <1>1 DEF Inv, Compared

LEMMA NothingAsked ==
  ASSUME Inv, More, "late" \notin faults',
         Working(page) \/ Turning(page) \/ page.waiting # NoSession
  PROVE  page.asked = {} /\ page.pending = NoSession
<1>1. AskedOwn /\ Pends
  BY OwnNow
<1>2. page.asked = {}
  BY <1>1 DEF AskedOwn
<1> QED
  BY <1>1, <1>2 DEF Pends

LEMMA TypeStep ==
  ASSUME TypeOK, page' \in Page, More, UNCHANGED surroundings
  PROVE  TypeOK'
BY DEF TypeOK, More, surroundings

LEMMA NoneBegun == ASSUME TypeOK PROVE NoSession <= started
BY Constants DEF TypeOK

\* A task that ends with a card, for a failure or for what came too late.
LEMMA ReportedKeeps ==
  ASSUME Inv, NEW i \in Slots, page.tasks[i].step # "idle", Reported(page, page', i),
         UNCHANGED surroundings, More, {"late", "failure"} \cap faults' # {}
  PROVE  Inv'
<1> DEFINE t == page.tasks[i]
<1>1. /\ page \in Page /\ page' \in Page /\ Sound /\ t.id # NoSession /\ t.file # NoSession
      /\ TypeOK /\ Working(page)
  BY DEF Inv, TypeOK, Sound, Reported, Working
<1>2. page'.hasCard /\ page'.card.id = t.id
  BY <1>1 DEF Reported
<1>3. TypeOK'
  BY <1>1, TypeStep
<1>4. Sound'
  BY <1>1, <1>2 DEF Sound, Plain, Reported, Others, IsIdle, Turning
<1>5. Begun'
  BY <1>1, <1>2, PageFacts, NoneBegun DEF Inv, Begun, Reported, Others, IsIdle, SavedIn,
     SameSession, surroundings
<1>6. Filed'
  BY <1>1 DEF Inv, Filed, Reported, SameSession, More, Turning
<1>7. Offer'
  BY <1>2 DEF Offer
<1>8. Own'
  <2> SUFFICES ASSUME "late" \notin faults'
               PROVE  (TasksOwn /\ PageOwn /\ CardOwn /\ AskedOwn)'
    BY DEF Own
  <2>1. TasksOwn /\ PageOwn /\ CardOwn
    BY OwnNow
  <2>2. page.asked = {}
    BY <1>1, NothingAsked
  <2>3. TasksOwn'
    BY <2>1 DEF TasksOwn, Reported, Others, IsIdle, SameSession
  <2>4. PageOwn'
    BY <2>1 DEF PageOwn, Reported, SavedIn, SameSession, Turning, More
  <2>5. CardOwn'
    BY <1>1, <1>2, <2>1 DEF CardOwn, TasksOwn, PageOwn, Reported, SameSession
  <2>6. AskedOwn'
    BY <2>2 DEF AskedOwn, Reported, SameAsks
  <2> QED
    BY <2>3, <2>4, <2>5, <2>6
<1>9. Accepting'
  <2> SUFFICES ASSUME "late" \notin faults' PROVE Pends'
    BY DEF Accepting
  <2> QED
    BY <1>1, OwnNow, NothingAsked DEF Pends, Reported, SameAsks
<1>10. Smooth'
  BY DEF Smooth
<1>11. Compared'
  <2> SUFFICES ASSUME {"late", "overlap"} \cap faults' = {}
               PROVE  (Counted /\ TasksCount /\ TurnCounts /\ MountCounts)'
    BY DEF Compared
  <2>1. Counted /\ TasksCount /\ TurnCounts /\ MountCounts
    BY CountsNow
  <2>2. Counted'
    BY <2>1 DEF Counted, Reported, Others, IsIdle, SavedIn, SameSession, SameView, surroundings
  <2>3. TasksCount'
    BY <2>1 DEF TasksCount, Reported, Others, IsIdle, SameSession, SameView, surroundings
  <2>4. ~Turning(page)
    BY <1>1, <2>1 DEF TurnCounts
  <2>5. TurnCounts'
    BY <2>4 DEF TurnCounts, Reported, Turning
  <2>6. MountCounts'
    BY <1>2, <2>1, <2>4 DEF MountCounts, Reported, SameSession, SameView, Turning
  <2> QED
    BY <2>2, <2>3, <2>5, <2>6
<1> QED
  BY <1>3, <1>4, <1>5, <1>6, <1>7, <1>8, <1>9, <1>10, <1>11 DEF Inv

\* One that takes the preview of its session down.
LEMMA DroppedKeeps ==
  ASSUME Inv, NEW i \in Slots, page.tasks[i].step # "idle", Dropped(page, page', i),
         UNCHANGED surroundings, More, {"late", "failure"} \cap faults' # {}
  PROVE  Inv'
<1> DEFINE t == page.tasks[i]
<1>1. /\ page \in Page /\ page' \in Page /\ Sound /\ t.id # NoSession /\ t.file # NoSession
      /\ TypeOK /\ Working(page)
  BY DEF Inv, TypeOK, Sound, Dropped, Working
<1>2. page'.hasCard /\ page'.card.id = t.id
  BY <1>1 DEF Dropped
<1>3. \A k \in Slots \ {i} : Alike(page.tasks[k], page'.tasks[k])
  BY DEF Dropped, Others, Alike
<1>4. AlikeSelection(page.selection, page'.selection)
  BY DEF Dropped, AlikeSelection
<1>5. IsIdle(page'.tasks[i])
  BY DEF Dropped
<1>6. \/ page'.preview = page.preview /\ page.preview.id # t.id
      \/ page'.preview = NoPreview
  BY DEF Dropped
<1>7. TypeOK'
  BY <1>1, TypeStep
<1>8. Sound'
  <2>1. Plain(page')
    BY <1>1, <1>3, <1>4, <1>5 DEF Sound, Plain, Dropped, Others, IsIdle, NoPreview
  <2> QED
    BY <1>1, <1>2, <1>3, <1>4, <1>5, <2>1 DEF Sound, IsIdle, Turning, Alike, AlikeSelection
<1>9. Begun'
  BY <1>1, <1>2, <1>3, <1>5, PageFacts, NoneBegun DEF Inv, Begun, Dropped, IsIdle, SavedIn,
     Alike, AlikeSelection, SameSession, surroundings, NoPreview
<1>10. Filed'
  BY <1>1 DEF Inv, Filed, Dropped, SameSession, More, Turning
<1>11. Offer'
  BY <1>2 DEF Offer
<1>12. Own'
  <2> SUFFICES ASSUME "late" \notin faults'
               PROVE  (TasksOwn /\ PageOwn /\ CardOwn /\ AskedOwn)'
    BY DEF Own
  <2>1. TasksOwn /\ PageOwn /\ CardOwn
    BY OwnNow
  <2>2. page.asked = {}
    BY <1>1, NothingAsked
  <2>3. TasksOwn'
    BY <1>3, <1>5, <2>1 DEF TasksOwn, Dropped, Alike, IsIdle, SameSession
  <2>4. PageOwn'
    BY <1>4, <2>1 DEF PageOwn, Dropped, SavedIn, SameSession, Turning, AlikeSelection, More
  <2>5. CardOwn'
    BY <1>1, <1>2, <2>1 DEF CardOwn, TasksOwn, PageOwn, Dropped, SameSession
  <2>6. AskedOwn'
    BY <2>2 DEF AskedOwn, Dropped, SameAsks
  <2> QED
    BY <2>3, <2>4, <2>5, <2>6
<1>13. Accepting'
  <2> SUFFICES ASSUME "late" \notin faults' PROVE Pends'
    BY DEF Accepting
  <2> QED
    BY <1>1, OwnNow, NothingAsked DEF Pends, Dropped, SameAsks
<1>14. Smooth'
  BY DEF Smooth
<1>15. Compared'
  <2> SUFFICES ASSUME {"late", "overlap"} \cap faults' = {}
               PROVE  (Counted /\ TasksCount /\ TurnCounts /\ MountCounts)'
    BY DEF Compared
  <2>1. Counted /\ TasksCount /\ TurnCounts /\ MountCounts
    BY CountsNow
  <2>2. Counted'
    BY <1>3, <1>5, <2>1 DEF Counted, Dropped, Alike, IsIdle, SavedIn, SameSession, surroundings
  <2>3. TasksCount'
    BY <1>3, <1>5, <1>6, <2>1 DEF TasksCount, Dropped, Alike, IsIdle, SameSession, surroundings, NoPreview
  <2>4. ~Turning(page)
    BY <1>1, <2>1 DEF TurnCounts
  <2>5. ~Turning(page')
    BY <1>4, <2>4 DEF Turning, AlikeSelection
  <2>6. TurnCounts'
    BY <2>5 DEF TurnCounts
  <2>7. MountCounts'
    BY <1>1, <1>2, <1>6, <2>1, <2>4, PageFacts DEF MountCounts, Dropped, SameSession, NoPreview
  <2> QED
    BY <2>2, <2>3, <2>6, <2>7
<1> QED
  BY <1>7, <1>8, <1>9, <1>10, <1>11, <1>12, <1>13, <1>14, <1>15 DEF Inv

LEMMA ManifestReadKeeps ==
  ASSUME Inv, NEW i \in Slots, ManifestRead(i)
  PROVE  Inv'
<1> DEFINE t == page.tasks[i]
<1>1. /\ TypeOK /\ page \in Page /\ Sound
  BY DEF Inv, TypeOK
<1>2. t.step = "manifest"
  BY DEF ManifestRead
<1>3. t.id # NoSession /\ t.file # NoSession /\ Working(page)
  BY <1>1, <1>2 DEF Sound, Working
<1>4. /\ UNCHANGED surroundings
      /\ \/ /\ UNCHANGED faults /\ t.file = t.id /\ Proceeds(page, page', i, "params")
            /\ page'.tasks[i].variant = published[t.id]
         \/ UNCHANGED faults /\ t.file # t.id /\ Reported(page, page', i)
         \/ Goes(FALSE) /\ Dropped(page, page', i)
  BY <1>1, <1>3, ManifestReadEffect
<1>5. CASE Goes(FALSE) /\ Dropped(page, page', i)
  <2>1. More /\ {"late", "failure"} \cap faults' # {}
    BY <1>1, <1>5, GoesMore
  <2> QED
    BY <1>2, <1>4, <1>5, <2>1, DroppedKeeps
<1>6. CASE UNCHANGED faults /\ t.file # t.id /\ Reported(page, page', i)
  <2>1. More
    BY <1>1, <1>6 DEF More, TypeOK
  <2>2. "late" \in faults'
    BY <1>2, <1>6, <2>1, OwnNow DEF TasksOwn
  <2>3. {"late", "failure"} \cap faults' # {}
    BY <2>2
  <2> QED
    BY <1>2, <1>4, <1>6, <2>1, <2>3, ReportedKeeps
<1>7. CASE /\ UNCHANGED faults /\ t.file = t.id /\ Proceeds(page, page', i, "params")
           /\ page'.tasks[i].variant = published[t.id]
  <2>0. UNCHANGED surroundings
    BY <1>4
  <2>1. More
    BY <1>1, <1>7 DEF More, TypeOK
  <2>2. page' \in Page /\ TypeOK'
    BY <1>1, <1>7, <2>0, <2>1, TypeStep DEF Proceeds
  <2>3. Working(page')
    BY <1>7 DEF Proceeds, Working
  <2>4. Sound'
    BY <1>1, <1>2, <1>7 DEF Sound, Plain, Proceeds, Others, Beside, SameCard, Turning
  <2>5. Begun'
    BY <1>1, <1>7, <2>0 DEF Inv, Begun, Proceeds, Others, Beside, SameCard, SameSession, surroundings
  <2>6. Filed'
    BY <1>3, <1>7 DEF Inv, Filed, Proceeds, Beside, SameSession
  <2>7. Offer'
    BY <2>3 DEF Offer
  <2>8. Own'
    <3> SUFFICES ASSUME "late" \notin faults'
                 PROVE  (TasksOwn /\ PageOwn /\ CardOwn /\ AskedOwn)'
      BY DEF Own
    <3>1. TasksOwn /\ PageOwn /\ CardOwn
      BY <2>1, OwnNow
    <3>2. page.asked = {}
      BY <1>3, <2>1, NothingAsked
    <3>3. TasksOwn'
      BY <1>2, <1>7, <3>1 DEF TasksOwn, Proceeds, Others, Beside, SameSession
    <3>4. PageOwn'
      BY <1>7, <3>1 DEF PageOwn, Proceeds, Beside, SameSession, Turning
    <3>5. CardOwn'
      BY <1>7, <2>0, <3>1 DEF CardOwn, Proceeds, Beside, SameCard, SameSession, surroundings
    <3>6. AskedOwn'
      BY <1>7, <3>2 DEF AskedOwn, Proceeds, Beside, SameAsks
    <3> QED
      BY <3>3, <3>4, <3>5, <3>6
  <2>9. Accepting'
    <3> SUFFICES ASSUME "late" \notin faults' PROVE Pends'
      BY DEF Accepting
    <3> QED
      BY <1>3, <1>7, <2>1, OwnNow, NothingAsked DEF Pends, Proceeds, Beside, SameAsks
  <2>10. Smooth'
    <3> SUFFICES ASSUME {"late", "failure"} \cap faults' = {} PROVE Flows'
      BY DEF Smooth
    <3>1. Flows
      BY <2>1, FlowsNow
    <3>2. PICK k \in Slots : page.preview.id # NoSession /\ page.preview.shown = 0
                               => page.tasks[k].step = "mount"
      BY <3>1 DEF Flows
    <3>3. page'.preview.id # NoSession /\ page'.preview.shown = 0 => page'.tasks[k].step = "mount"
      BY <1>2, <1>7, <3>2 DEF Proceeds, Others, Beside
    <3> QED
      BY <1>7, <3>1, <3>3 DEF Flows, Proceeds, Others, Beside, SameCard, SameSession
  <2>11. Compared'
    <3> SUFFICES ASSUME {"late", "overlap"} \cap faults' = {}
                 PROVE  (Counted /\ TasksCount /\ TurnCounts /\ MountCounts)'
      BY DEF Compared
    <3>1. Counted /\ TasksCount /\ TurnCounts /\ MountCounts /\ TasksOwn
      BY <2>1, CountsNow, OwnNow
    <3>2. Counted'
      BY <1>7, <2>0, <3>1 DEF Counted, Proceeds, Others, Beside, SameSession, SameView, surroundings
    <3>3. t.id = page.current
      BY <1>2, <3>1 DEF TasksOwn
    <3>4. page.visible \in Nat /\ page'.tasks[i].variant \in Nat
      BY <1>1, <2>2, PageFacts
    <3>5. TasksCount'
      <4>1. /\ page'.visible <= IF page'.tasks[i].variant = 0 THEN 1 ELSE page'.tasks[i].variant
            /\ page'.tasks[i].variant <= published'[page'.tasks[i].id]
        BY <1>3, <1>7, <2>0, <3>1, <3>3, <3>4 DEF Counted, Proceeds, Beside, SameView, surroundings
      <4>2. page'.tasks[i].step = "params"
        BY <1>7 DEF Proceeds
      <4> QED
        BY <1>7, <2>0, <3>1, <4>1, <4>2 DEF TasksCount, Proceeds, Others, Beside, SameSession, SameView,
           surroundings
    <3>6. ~Turning(page)
      BY <1>3, <3>1 DEF TurnCounts
    <3>7. TurnCounts'
      BY <1>7, <3>6 DEF TurnCounts, Proceeds, Beside, Turning
    <3>8. MountCounts'
      BY <1>7, <2>3, <3>1 DEF MountCounts, Proceeds, Beside, SameSession, SameView, Turning
    <3> QED
      BY <3>2, <3>5, <3>7, <3>8
  <2> QED
    BY <2>2, <2>4, <2>5, <2>6, <2>7, <2>8, <2>9, <2>10, <2>11 DEF Inv
<1> QED
  BY <1>4, <1>5, <1>6, <1>7

LEMMA TaskExplainsKeeps ==
  ASSUME Inv, NEW i \in Slots, TaskExplains(i)
  PROVE  Inv'
<1> DEFINE t == page.tasks[i]
<1>1. TypeOK
  BY DEF Inv
<1>2. /\ t.step = "explain" /\ UNCHANGED world
      /\ IF t.first THEN Dropped(page, page', i) ELSE Reported(page, page', i)
  BY <1>1, TaskExplainsEffect
<1>3. UNCHANGED surroundings /\ More
  BY <1>1, <1>2 DEF world, More, TypeOK
<1>4. {"late", "failure"} \cap faults' # {}
  BY <1>2, <1>3, FlowsNow DEF Flows
<1> QED
  BY <1>2, <1>3, <1>4, DroppedKeeps, ReportedKeeps

\* The parameters are read: the preview is there, is begun or has to wait.
LEMMA ParamsReadKeeps ==
  ASSUME Inv, NEW i \in Slots, ParamsRead(i)
  PROVE  Inv'
<1> DEFINE t == page.tasks[i]
           n == IF t.variant = 0 THEN 1 ELSE t.variant
<1>1. /\ TypeOK /\ page \in Page /\ Sound
  BY DEF Inv, TypeOK
<1>2. /\ t.step = "params" /\ UNCHANGED world /\ page' \in Page
      /\ n > 0 /\ n \in 1..Count
      /\ page'.current = t.id /\ page'.file = t.file /\ page'.arrived = n
      /\ page'.visible = Visible(page, t.id, n)
      /\ SavedIn(page, page') /\ SameCard(page, page') /\ SameAsks(page, page')
      /\ \/ MountsAgain(page, page', i)
         \/ Waits(page, page', i)
         \/ MountsFirst(page, page', i)
  BY <1>1, ParamsReadEffect
<1>3. t.id # NoSession /\ t.file # NoSession /\ Working(page)
  BY <1>1, <1>2 DEF Sound, Working
<1>4. UNCHANGED surroundings /\ More /\ UNCHANGED faults
  BY <1>1, <1>2 DEF world, More, TypeOK
<1>5. TypeOK'
  BY <1>1, <1>2, <1>4, TypeStep
<1>6. /\ \A k \in Slots \ {i} : Alike(page.tasks[k], page'.tasks[k])
      /\ AlikeSelection(page.selection, page'.selection)
      /\ page'.tasks[i] = Idle \/ MountOf(t, page'.tasks[i], page'.visible)
  BY <1>2 DEF MountsAgain, Waits, MountsFirst, Others, Alike, AlikeSelection
<1>7. page'.state \in {"CYCLING", "GENERATING"}
  BY <1>2 DEF MountsAgain, Waits, MountsFirst
<1>8. Working(page') \/ Waits(page, page', i)
  BY <1>2 DEF MountsAgain, MountsFirst, MountOf, Working
<1>9. /\ page'.visible \in 1..n
      /\ page.visible \in 1..n => page'.visible = page.visible
      /\ page.visible \notin 1..n =>
           page'.visible = 1 \/ (page.saved.id = t.id /\ page'.visible = page.saved.visible)
  BY <1>1, <1>2, PageFacts DEF Visible
<1> HIDE DEF n
<1>10. Sound'
  <2>1. Plain(page')
    BY <1>1, <1>2, <1>3, <1>6 DEF Sound, Plain, MountsAgain, Waits, MountsFirst, Others, MountOf, Idle,
       NoPreview
  <2> QED
    BY <1>1, <1>2, <1>3, <1>6, <2>1 DEF Sound, Turning, Alike, AlikeSelection, MountOf, Idle, SameCard
<1>11. Begun'
  <2>1. t.id <= started /\ NoSession <= started
    BY <1>1, Constants DEF Inv, Begun, TypeOK
  <2>2. page'.preview.id <= started /\ page'.waiting <= started
    BY <1>2, <2>1 DEF Inv, Begun, MountsAgain, Waits, MountsFirst, NoPreview
  <2>3. \A k \in Slots : page'.tasks[k].id <= started
    BY <1>6, <2>1 DEF Inv, Begun, Alike, MountOf, Idle
  <2> QED
    BY <1>2, <1>4, <1>6, <2>1, <2>2, <2>3 DEF Inv, Begun, SavedIn, SameCard, AlikeSelection, surroundings
<1>12. Filed'
  BY <1>2, <1>3 DEF Filed
<1>13. Offer'
  BY <1>8 DEF Offer, Waits
<1>14. Own'
  <2> SUFFICES ASSUME "late" \notin faults'
               PROVE  (TasksOwn /\ PageOwn /\ CardOwn /\ AskedOwn)'
    BY DEF Own
  <2>1. TasksOwn /\ PageOwn /\ CardOwn
    BY <1>4, OwnNow
  <2>2. page.asked = {}
    BY <1>3, <1>4, NothingAsked
  <2>3. t.id = page.current /\ t.file = page.current
    BY <1>2, <2>1 DEF TasksOwn
  <2>4. TasksOwn'
    BY <1>2, <1>6, <2>1, <2>3 DEF TasksOwn, Alike, MountOf, Idle
  <2>5. page'.waiting \in {NoSession, page'.current}
    BY <1>2, <2>1, <2>3 DEF PageOwn, MountsAgain, Waits, MountsFirst
  <2>6. PageOwn'
    BY <1>2, <1>3, <1>6, <1>7, <2>1, <2>3, <2>5 DEF PageOwn, SavedIn, Turning, AlikeSelection
  <2>7. CardOwn'
    BY <1>2, <1>4, <2>1, <2>3 DEF CardOwn, SameCard, surroundings
  <2>8. AskedOwn'
    BY <1>2, <2>2 DEF AskedOwn, SameAsks
  <2> QED
    BY <2>4, <2>6, <2>7, <2>8
<1>15. Accepting'
  <2> SUFFICES ASSUME "late" \notin faults' PROVE Pends'
    BY DEF Accepting
  <2> QED
    BY <1>2, <1>3, <1>4, OwnNow, NothingAsked DEF Pends, SameAsks
<1>16. Smooth'
  <2> SUFFICES ASSUME {"late", "failure"} \cap faults' = {} PROVE Flows'
    BY DEF Smooth
  <2>1. Flows /\ TasksOwn
    BY <1>4, FlowsNow, OwnNow
  <2>2. t.id = page.current
    BY <1>2, <2>1 DEF TasksOwn
  <2>3. page'.visible > 0
    BY <1>2, <1>9
  <2>4. CASE MountsAgain(page, page', i)
    <3>1. page'.tasks[i].step = "mount" /\ page'.tasks[i].own /\ page'.tasks[i].variant > 0
      BY <2>3, <2>4 DEF MountsAgain, MountOf
    <3> QED
      BY <1>2, <1>4, <2>1, <2>2, <2>4, <3>1 DEF Flows, MountsAgain, Others, SameCard
  <2>5. CASE Waits(page, page', i)
    <3>1. page'.preview.id = NoSession
      BY <2>1, <2>2, <2>5 DEF Flows, Waits
    <3> QED
      BY <1>2, <1>4, <2>1, <2>5, <3>1 DEF Flows, Waits, Others, SameCard, Idle
  <2>6. CASE MountsFirst(page, page', i)
    <3>1. page'.tasks[i].step = "mount" /\ page'.tasks[i].own /\ page'.tasks[i].variant > 0
      BY <2>3, <2>6 DEF MountsFirst, MountOf
    <3>2. page.preview.id = NoSession
      BY <2>1, <2>2, <2>6 DEF Flows, MountsFirst
    <3>3. \A k \in Slots : ~page.tasks[k].own
      BY <1>1, <3>2 DEF Sound, Plain
    <3>4. ~page.selection.own
      BY <1>1, <3>2 DEF Sound, Plain
    <3>5. \A k \in Slots \ {i} : page'.tasks[k].step \notin {"mount", "explain"}
      BY <1>6, <2>1, <3>3 DEF Flows, Alike
    <3>6. page'.selection.step \notin {"mount", "explain"}
      BY <1>6, <2>1, <3>4 DEF Flows, AlikeSelection
    <3>7. page'.preview.id = page'.current
      BY <1>2, <2>6 DEF MountsFirst, NoPreview
    <3> QED
      BY <1>2, <1>4, <2>1, <3>1, <3>5, <3>6, <3>7 DEF Flows, SameCard
  <2> QED
    BY <1>2, <2>4, <2>5, <2>6
<1>17. Compared'
  <2> SUFFICES ASSUME {"late", "overlap"} \cap faults' = {}
               PROVE  (Counted /\ TasksCount /\ TurnCounts /\ MountCounts)'
    BY DEF Compared
  <2>1. Counted /\ TasksCount /\ TurnCounts /\ MountCounts /\ TasksOwn /\ PageOwn
    BY <1>4, CountsNow, OwnNow
  <2>2. t.id = page.current /\ page'.current = page.current /\ page.current # NoSession
    BY <1>2, <1>3, <2>1 DEF TasksOwn
  <2>3. /\ page.visible \in Nat /\ page.arrived \in Nat /\ page.saved.visible \in Nat
        /\ page'.visible \in Nat /\ t.variant \in Nat /\ n \in Nat
    BY <1>1, <1>2, PageFacts
  <2>4. page.visible <= n
    BY <1>2, <2>1 DEF TasksCount, n
  <2>5. \/ page.visible > 0 /\ page'.visible = page.visible
        \/ page.visible = 0 /\ page.arrived = 0 /\ page'.visible <= 1
    <3>1. CASE page.visible > 0
      BY <1>9, <2>3, <2>4, <3>1
    <3>2. CASE page.visible = 0
      <4>1. page.arrived = 0
        BY <2>1, <2>3, <3>2 DEF Counted
      <4>2. page'.visible <= 1
        BY <1>2, <1>9, <2>1, <2>2, <2>3, <3>2 DEF Counted
      <4> QED
        BY <3>2, <4>1, <4>2
    <3> QED
      BY <2>3, <3>1, <3>2
  <2>6. page'.visible <= 1 \/ page'.visible <= published[page.current]
    BY <2>1, <2>2, <2>5 DEF Counted
  <2>7. n <= 1 \/ n <= published[page.current]
    BY <1>2, <2>1, <2>2, <2>3 DEF TasksCount, n
  <2>8. Counted'
    BY <1>2, <1>4, <1>9, <2>1, <2>2, <2>3, <2>6, <2>7 DEF Counted, SavedIn, surroundings
  <2>9. TasksCount'
    <3>1. ASSUME NEW k \in Slots \ {i}, page'.tasks[k].step = "params"
          PROVE  /\ page'.visible <= IF page'.tasks[k].variant = 0 THEN 1 ELSE page'.tasks[k].variant
                 /\ page'.tasks[k].variant <= published'[page'.tasks[k].id]
      <4> DEFINE u == page.tasks[k]
      <4>1. u.step = "params" /\ page'.tasks[k].variant = u.variant /\ page'.tasks[k].id = u.id
        BY <1>6, <3>1 DEF Alike
      <4>2. /\ page.visible <= IF u.variant = 0 THEN 1 ELSE u.variant
            /\ u.variant <= published[u.id] /\ u.variant \in Nat
        BY <1>1, <2>1, <4>1, PageFacts DEF TasksCount
      <4>3. page'.visible <= IF u.variant = 0 THEN 1 ELSE u.variant
        BY <2>3, <2>5, <4>2
      <4> QED
        BY <1>4, <4>1, <4>2, <4>3 DEF surroundings
    <3>2. ASSUME NEW k \in Slots \ {i}, page'.tasks[k].step \in {"mount", "explain"}
          PROVE  page'.tasks[k].variant = page'.visible /\ page'.preview.id \in {NoSession, page'.current}
      <4>1. page.tasks[k].step \in {"mount", "explain"} /\ page'.tasks[k].variant = page.tasks[k].variant
        BY <1>6, <3>2 DEF Alike
      <4>2. page.tasks[k].variant = page.visible /\ page.preview.id \in {NoSession, page.current}
            /\ page.arrived > 0
        BY <2>1, <4>1 DEF TasksCount, TasksOwn
      <4>3. page'.preview.id \in {NoSession, page'.current}
        BY <1>2, <2>2, <4>2 DEF MountsAgain, Waits, MountsFirst, NoPreview
      <4> QED
        BY <2>3, <2>5, <4>1, <4>2, <4>3
    <3>3. \/ page'.tasks[i].step = "idle"
          \/ /\ page'.tasks[i].step = "mount" /\ page'.tasks[i].variant = page'.visible
             /\ page'.preview.id = page'.current
      BY <1>2 DEF MountsAgain, Waits, MountsFirst, NoPreview, MountOf, Idle
    <3> QED
      BY <3>1, <3>2, <3>3 DEF TasksCount
  <2>10. ~Turning(page)
    BY <1>3, <2>1 DEF TurnCounts
  <2>11. ~Turning(page')
    BY <1>6, <2>10 DEF Turning, AlikeSelection
  <2>12. TurnCounts'
    BY <2>11 DEF TurnCounts
  <2>13. MountCounts'
    <3>1. CASE MountsAgain(page, page', i)
      <4>1. Working(page')
        BY <3>1 DEF MountsAgain, MountOf, Working
      <4>2. /\ page'.preview = page.preview /\ page'.waiting = page.waiting
            /\ page.preview.id = page.current
        BY <2>2, <3>1 DEF MountsAgain
      <4>3. page.preview.mounted # 0 => page'.visible = page.preview.mounted
        BY <1>1, <2>1, <2>2, <2>3, <2>5, <2>10, <4>2, PageFacts DEF MountCounts
      <4> QED
        BY <2>1, <2>2, <4>1, <4>2, <4>3 DEF MountCounts
    <3>2. CASE Waits(page, page', i)
      BY <2>2, <3>2 DEF MountCounts, Waits
    <3>3. CASE MountsFirst(page, page', i)
      <4>1. Working(page')
        BY <3>3 DEF MountsFirst, MountOf, Working
      <4> QED
        BY <3>3, <4>1 DEF MountCounts, MountsFirst, NoPreview
    <3> QED
      BY <1>2, <3>1, <3>2, <3>3
  <2> QED
    BY <2>8, <2>9, <2>12, <2>13
<1> QED
  BY <1>5, <1>10, <1>11, <1>12, <1>13, <1>14, <1>15, <1>16, <1>17 DEF Inv

\* A session that is over leaves nothing to be said of it.
LEMMA OverKeeps ==
  ASSUME Inv, Over(page, page'), UNCHANGED <<published, news, anchor, started>>, over' \subseteq Sessions,
         More
  PROVE  TypeOK' /\ Sound' /\ Begun' /\ Filed' /\ Offer'
<1>1. /\ TypeOK /\ page \in Page /\ Sound /\ page' \in Page
  BY DEF Inv, TypeOK, Over
<1>2. TypeOK'
  BY <1>1 DEF TypeOK, More
<1>3. Sound'
  <2>1. Plain(page')
    <3>1. CASE page'.preview = NoPreview /\ (\A k \in Slots : ~page'.tasks[k].own) /\ ~page'.selection.own
      BY <3>1 DEF Plain, NoPreview
    <3>2. CASE /\ page'.preview.id = page.preview.id
               /\ page'.preview.shown = 0 \/ page'.preview.shown = page'.preview.mounted
               /\ page'.preview # page.preview => page.preview.id # NoSession
      BY <1>1, <3>2 DEF Sound, Plain, Over, Alike, AlikeSelection, IsIdle
    <3> QED
      BY <3>1, <3>2 DEF Over
  <2>2. page'.selection.step = "idle" <=> page'.selection.id = NoSession
    BY <1>1 DEF Sound, Over, AlikeSelection, IsIdle, Turning
  <2>3. \A k \in Slots : /\ page'.tasks[k].step = "idle" <=> page'.tasks[k].id = NoSession
                         /\ page'.tasks[k].step # "idle" => page'.tasks[k].file # NoSession
    BY <1>1 DEF Sound, Over, Alike, IsIdle
  <2> QED
    BY <2>1, <2>2, <2>3 DEF Sound, Over, Turning
<1>4. Begun'
  <2>1. NoSession <= started
    BY <1>1, Constants DEF TypeOK
  <2>2. page'.preview.id <= started
    BY <2>1 DEF Inv, Begun, Over, NoPreview
  <2>3. \A k \in Slots : page'.tasks[k].id <= started
    BY <2>1 DEF Inv, Begun, Over, Alike, IsIdle
  <2> QED
    BY <2>1, <2>2, <2>3 DEF Inv, Begun, Over, NoSaved, NoCard, AlikeSelection, IsIdle
<1>5. Filed'
  BY DEF Filed, Over
<1>6. Offer'
  BY DEF Offer, Over
<1> QED
  BY <1>2, <1>3, <1>4, <1>5, <1>6

LEMMA LateKeeps ==
  ASSUME "late" \in faults'
  PROVE  Own' /\ Accepting' /\ Smooth' /\ Compared'
<1>1. {"late", "failure"} \cap faults' # {} /\ {"late", "overlap"} \cap faults' # {}
  OBVIOUS
<1> QED
  BY <1>1 DEF Own, Accepting, Smooth, Compared

\* A mount that succeeds: the comparison is open, and shows its variant.
LEMMA ComparesKeeps ==
  ASSUME Inv, NEW t, Compares(page, page', t), page.preview.id # NoSession,
         UNCHANGED surroundings, UNCHANGED faults, Working(page) \/ Turning(page),
         \A k \in Slots : page'.tasks[k] = page.tasks[k] \/ page'.tasks[k] = Idle,
         page'.selection = page.selection \/ page'.selection = NoSelection
  PROVE  TypeOK' /\ Sound' /\ Begun' /\ Filed' /\ Offer' /\ Accepting'
<1>1. /\ TypeOK /\ page \in Page /\ Sound /\ page' \in Page
  BY DEF Inv, TypeOK, Compares
<1>2. More
  BY <1>1 DEF More, TypeOK
<1>3. TypeOK'
  BY <1>1, <1>2, TypeStep
<1>4. Sound'
  <2>1. Plain(page')
    BY <1>1 DEF Sound, Plain, Compares, Idle, NoSelection
  <2> QED
    BY <1>1, <2>1 DEF Sound, Compares, Turning, Idle, NoSelection, SameCard
<1>5. Begun'
  BY <1>1, NoneBegun DEF Inv, Begun, Compares, SavedIn, SameCard, NoCard, Idle, NoSelection, surroundings
<1>6. Filed'
  BY DEF Inv, Filed, Compares
<1>7. Offer'
  BY DEF Offer, Compares
<1>8. Accepting'
  <2> SUFFICES ASSUME "late" \notin faults' PROVE Pends'
    BY DEF Accepting
  <2> QED
    BY <1>2, OwnNow, NothingAsked DEF Pends, Compares, SameAsks
<1> QED
  BY <1>3, <1>4, <1>5, <1>6, <1>7, <1>8

LEMMA TaskMountsKeeps ==
  ASSUME Inv, NEW i \in Slots, TaskMounts(i)
  PROVE  Inv'
<1> DEFINE t == page.tasks[i]
<1>1. /\ TypeOK /\ page \in Page /\ Sound /\ Plain(page)
  BY DEF Inv, TypeOK, Sound
<1>2. /\ t.step = "mount" /\ UNCHANGED surroundings
      /\ \/ /\ UNCHANGED faults /\ page.arrived > 0 /\ page.preview.id # NoSession
            /\ Compares(page, page', t) /\ page'.state = "CYCLING"
            /\ page'.tasks[i] = Idle /\ Others(page, page', i) /\ page'.selection = page.selection
         \/ UNCHANGED faults /\ page.arrived = 0 /\ Over(page, page')
         \/ /\ Goes(FALSE) \/ (UNCHANGED faults /\ ~t.own /\ page.preview.id = NoSession)
            /\ page' \in Page /\ StepOf(t, page'.tasks[i], "explain")
            /\ Others(page, page', i) /\ page'.selection = page.selection
            /\ page'.waiting = page.waiting /\ page'.saved = page.saved
            /\ SameCard(page, page') /\ SameAsks(page, page') /\ SameSession(page, page')
            /\ SameView(page, page') /\ page'.preview.id = page.preview.id
            /\ page'.preview.mounted = page.preview.mounted
            /\ page'.preview = page.preview
               \/ (page'.preview.shown = 0 /\ page.preview.id # NoSession)
  BY <1>1, TaskMountsEffect
<1>3. t.id # NoSession /\ t.file # NoSession /\ Working(page)
  BY <1>1, <1>2 DEF Sound, Working
<1>4. CASE /\ UNCHANGED faults /\ page.arrived > 0 /\ page.preview.id # NoSession
           /\ Compares(page, page', t) /\ page'.state = "CYCLING"
           /\ page'.tasks[i] = Idle /\ Others(page, page', i) /\ page'.selection = page.selection
  <2>1. UNCHANGED surroundings /\ More
    BY <1>1, <1>2, <1>4 DEF More, TypeOK
  <2>2. \A k \in Slots : page'.tasks[k] = page.tasks[k] \/ page'.tasks[k] = Idle
    BY <1>4 DEF Others
  <2>3. TypeOK' /\ Sound' /\ Begun' /\ Filed' /\ Offer' /\ Accepting'
    BY <1>3, <1>4, <2>1, <2>2, ComparesKeeps
  <2>4. Own'
    <3> SUFFICES ASSUME "late" \notin faults'
                 PROVE  (TasksOwn /\ PageOwn /\ CardOwn /\ AskedOwn)'
      BY DEF Own
    <3>1. TasksOwn /\ PageOwn /\ CardOwn
      BY <2>1, OwnNow
    <3>2. page.asked = {}
      BY <1>3, <2>1, NothingAsked
    <3>3. page.current # NoSession
      BY <1>2, <1>3, <3>1 DEF TasksOwn
    <3>4. TasksOwn'
      BY <1>4, <3>1 DEF TasksOwn, Compares, Others, Idle
    <3>5. PageOwn'
      BY <1>4, <3>1, <3>3 DEF PageOwn, Compares, SavedIn, Turning
    <3>6. CardOwn'
      BY <1>4, <2>1, <3>1 DEF CardOwn, Compares, SameCard, surroundings
    <3>7. AskedOwn'
      BY <1>4, <3>2 DEF AskedOwn, Compares, SameAsks
    <3> QED
      BY <3>4, <3>5, <3>6, <3>7
  <2>5. Smooth'
    <3> SUFFICES ASSUME {"late", "failure"} \cap faults' = {} PROVE Flows'
      BY DEF Smooth
    <3>1. Flows
      BY <2>1, FlowsNow
    <3>2. page'.preview.shown > 0
      BY <1>2, <1>4, <3>1 DEF Flows, Compares
    <3> QED
      BY <1>4, <2>2, <3>1, <3>2 DEF Flows, Compares, SameCard, Idle
  <2>6. Compared'
    <3> SUFFICES ASSUME {"late", "overlap"} \cap faults' = {}
                 PROVE  (Counted /\ TasksCount /\ TurnCounts /\ MountCounts)'
      BY DEF Compared
    <3>1. Counted /\ TasksCount /\ TurnCounts /\ MountCounts
      BY <2>1, CountsNow
    <3>2. page.visible \in 1..page.arrived /\ page.visible > 0
      BY <1>1, <1>4, <3>1, PageFacts DEF Counted
    <3>3. page'.visible = page.visible
      BY <1>4, <3>2 DEF Compares
    <3>4. page.arrived <= 1 \/ (page.current # NoSession /\ page.arrived <= published[page.current])
      BY <1>2, <3>1 DEF Counted
    <3>5. Counted'
      BY <1>4, <2>1, <3>1, <3>2, <3>3, <3>4 DEF Counted, Compares, SavedIn, surroundings
    <3>6. TasksCount'
      BY <1>4, <2>1, <2>2, <3>1, <3>3 DEF TasksCount, Compares, Idle, surroundings
    <3>7. ~Turning(page)
      BY <1>3, <3>1 DEF TurnCounts
    <3>8. TurnCounts'
      BY <1>4, <3>7 DEF TurnCounts, Turning
    <3>9. t.variant = page.visible /\ page.preview.id = page.current
      BY <1>2, <1>4, <3>1 DEF TasksCount
    <3>10. MountCounts'
      BY <1>4, <3>1, <3>2, <3>3, <3>9 DEF MountCounts, Compares
    <3> QED
      BY <3>5, <3>6, <3>8, <3>10
  <2> QED
    BY <2>3, <2>4, <2>5, <2>6 DEF Inv
<1>5. CASE UNCHANGED faults /\ page.arrived = 0 /\ Over(page, page')
  <2>1. More /\ over' \subseteq Sessions /\ UNCHANGED <<published, news, anchor, started>>
    BY <1>1, <1>2, <1>5 DEF More, TypeOK, surroundings
  <2>2. "late" \in faults'
    BY <1>2, <1>5, <2>1, OwnNow DEF TasksOwn
  <2> QED
    BY <1>5, <2>1, <2>2, OverKeeps, LateKeeps DEF Inv
<1>6. CASE /\ Goes(FALSE) \/ (UNCHANGED faults /\ ~t.own /\ page.preview.id = NoSession)
           /\ page' \in Page /\ StepOf(t, page'.tasks[i], "explain")
           /\ Others(page, page', i) /\ page'.selection = page.selection
           /\ page'.waiting = page.waiting /\ page'.saved = page.saved
           /\ SameCard(page, page') /\ SameAsks(page, page') /\ SameSession(page, page')
           /\ SameView(page, page') /\ page'.preview.id = page.preview.id
           /\ page'.preview.mounted = page.preview.mounted
           /\ page'.preview = page.preview
              \/ (page'.preview.shown = 0 /\ page.preview.id # NoSession)
  <2>1. UNCHANGED surroundings /\ More
    BY <1>1, <1>2, <1>6, GoesMore DEF More, TypeOK
  <2>2. TypeOK'
    BY <1>1, <1>6, <2>1, TypeStep
  <2>3. Sound'
    <3>1. Plain(page')
      BY <1>1, <1>6 DEF Plain, StepOf, Others
    <3> QED
      BY <1>1, <1>2, <1>6, <3>1 DEF Sound, StepOf, Others, SameCard, Turning
  <2>4. Begun'
    BY <1>6, <2>1 DEF Inv, Begun, StepOf, Others, SameCard, SameSession, surroundings
  <2>5. Filed'
    BY <1>3, <1>6, <2>1 DEF Inv, Filed, SameSession, More
  <2>6. Working(page')
    BY <1>6 DEF StepOf, Working
  <2>7. Offer'
    BY <2>6 DEF Offer
  <2>8. Own'
    <3> SUFFICES ASSUME "late" \notin faults'
                 PROVE  (TasksOwn /\ PageOwn /\ CardOwn /\ AskedOwn)'
      BY DEF Own
    <3>1. TasksOwn /\ PageOwn /\ CardOwn
      BY <2>1, OwnNow
    <3>2. page.asked = {}
      BY <1>3, <2>1, NothingAsked
    <3>3. TasksOwn'
      BY <1>2, <1>6, <3>1 DEF TasksOwn, StepOf, Others, SameSession
    <3>4. PageOwn'
      BY <1>6, <2>1, <3>1 DEF PageOwn, SameSession, Turning, More
    <3>5. CardOwn'
      BY <1>6, <2>1, <3>1 DEF CardOwn, SameCard, SameSession, surroundings
    <3>6. AskedOwn'
      BY <1>6, <3>2 DEF AskedOwn, SameAsks
    <3> QED
      BY <3>3, <3>4, <3>5, <3>6
  <2>9. Accepting'
    <3> SUFFICES ASSUME "late" \notin faults' PROVE Pends'
      BY DEF Accepting
    <3> QED
      BY <1>3, <1>6, <2>1, OwnNow, NothingAsked DEF Pends, SameAsks
  <2>10. Smooth'
    <3> SUFFICES ASSUME {"late", "failure"} \cap faults' = {} PROVE FALSE
      BY DEF Smooth
    <3>1. Flows /\ "failure" \notin faults'
      BY <2>1, FlowsNow
    <3>2. ~t.own
      BY <1>1, <1>6, <3>1, GoesMore
    <3> QED
      BY <1>2, <3>1, <3>2 DEF Flows
  <2>11. Compared'
    <3> SUFFICES ASSUME {"late", "overlap"} \cap faults' = {}
                 PROVE  (Counted /\ TasksCount /\ TurnCounts /\ MountCounts)'
      BY DEF Compared
    <3>1. Counted /\ TasksCount /\ TurnCounts /\ MountCounts
      BY <2>1, CountsNow
    <3>2. page.arrived <= 1 \/ (page.current # NoSession /\ page.arrived <= published[page.current])
      BY <1>2, <3>1 DEF Counted
    <3>3. Counted'
      BY <1>6, <2>1, <3>1, <3>2 DEF Counted, SameSession, SameView, surroundings
    <3>4. TasksCount'
      BY <1>2, <1>6, <2>1, <3>1 DEF TasksCount, StepOf, Others, SameSession, SameView, surroundings
    <3>5. ~Turning(page)
      BY <1>3, <3>1 DEF TurnCounts
    <3>6. TurnCounts'
      BY <1>6, <3>5 DEF TurnCounts, Turning
    <3>7. MountCounts'
      BY <1>6, <2>6, <3>1 DEF MountCounts, SameSession, SameView, Turning
    <3> QED
      BY <3>3, <3>4, <3>6, <3>7
  <2> QED
    BY <2>2, <2>3, <2>4, <2>5, <2>7, <2>8, <2>9, <2>10, <2>11 DEF Inv
<1> QED
  BY <1>2, <1>4, <1>5, <1>6

LEMMA SelectionMountsKeeps ==
  ASSUME Inv, SelectionMounts
  PROVE  Inv'
<1> DEFINE t == page.selection
<1>1. /\ TypeOK /\ page \in Page /\ Sound /\ Plain(page)
  BY DEF Inv, TypeOK, Sound
<1>2. /\ t.step = "mount" /\ UNCHANGED surroundings
      /\ \/ /\ UNCHANGED faults /\ page.arrived > 0 /\ page.preview.id # NoSession
            /\ Compares(page, page', t) /\ page'.state = page.state
            /\ page'.tasks = page.tasks /\ page'.selection = NoSelection
         \/ UNCHANGED faults /\ page.arrived = 0 /\ Over(page, page')
         \/ /\ Goes(FALSE) \/ (UNCHANGED faults /\ ~t.own /\ page.preview.id = NoSession)
            /\ page' \in Page /\ page'.selection = [t EXCEPT !.step = "explain"]
            /\ page'.tasks = page.tasks /\ page'.waiting = page.waiting /\ page'.saved = page.saved
            /\ SameCard(page, page') /\ SameAsks(page, page') /\ SameSession(page, page')
            /\ SameView(page, page') /\ page'.preview.id = page.preview.id
            /\ page'.preview.mounted = page.preview.mounted
            /\ page'.preview = page.preview
               \/ (page'.preview.shown = 0 /\ page.preview.id # NoSession)
  BY <1>1, SelectionMountsEffect
<1>3. Turning(page) /\ t.id # NoSession
  BY <1>1, <1>2 DEF Sound, Turning
<1>4. CASE /\ UNCHANGED faults /\ page.arrived > 0 /\ page.preview.id # NoSession
           /\ Compares(page, page', t) /\ page'.state = page.state
           /\ page'.tasks = page.tasks /\ page'.selection = NoSelection
  <2>1. UNCHANGED surroundings /\ More
    BY <1>1, <1>2, <1>4 DEF More, TypeOK
  <2>2. ~Turning(page')
    BY <1>4 DEF NoSelection, Turning
  <2>3. TypeOK' /\ Sound' /\ Begun' /\ Filed' /\ Offer' /\ Accepting'
    <3>1. \A k \in Slots : page'.tasks[k] = page.tasks[k] \/ page'.tasks[k] = Idle
      BY <1>4
    <3> QED
      BY <1>3, <1>4, <2>1, <3>1, ComparesKeeps
  <2>4. Own'
    <3> SUFFICES ASSUME "late" \notin faults'
                 PROVE  (TasksOwn /\ PageOwn /\ CardOwn /\ AskedOwn)'
      BY DEF Own
    <3>1. TasksOwn /\ PageOwn /\ CardOwn
      BY <2>1, OwnNow
    <3>2. page.asked = {}
      BY <1>3, <2>1, NothingAsked
    <3>3. page.current # NoSession
      BY <1>3, <3>1 DEF PageOwn
    <3>4. TasksOwn'
      BY <1>4, <3>1 DEF TasksOwn, Compares
    <3>5. PageOwn'
      BY <1>4, <2>2, <3>1, <3>3 DEF PageOwn, Compares, SavedIn
    <3>6. CardOwn'
      BY <1>4, <2>1, <3>1 DEF CardOwn, Compares, SameCard, surroundings
    <3>7. AskedOwn'
      BY <1>4, <3>2 DEF AskedOwn, Compares, SameAsks
    <3> QED
      BY <3>4, <3>5, <3>6, <3>7
  <2>5. Smooth'
    <3> SUFFICES ASSUME {"late", "failure"} \cap faults' = {} PROVE Flows'
      BY DEF Smooth
    <3>1. Flows
      BY <2>1, FlowsNow
    <3>2. page'.preview.shown > 0
      BY <1>2, <1>4, <3>1 DEF Flows, Compares
    <3> QED
      BY <1>4, <3>1, <3>2 DEF Flows, Compares, SameCard, NoSelection
  <2>6. Compared'
    <3> SUFFICES ASSUME {"late", "overlap"} \cap faults' = {}
                 PROVE  (Counted /\ TasksCount /\ TurnCounts /\ MountCounts)'
      BY DEF Compared
    <3>1. Counted /\ TasksCount /\ TurnCounts /\ MountCounts
      BY <2>1, CountsNow
    <3>2. page.visible \in 1..page.arrived /\ page.visible > 0
      BY <1>1, <1>4, <3>1, PageFacts DEF Counted
    <3>3. page'.visible = page.visible
      BY <1>4, <3>2 DEF Compares
    <3>4. Counted'
      BY <1>4, <2>1, <3>1, <3>2, <3>3 DEF Counted, Compares, SavedIn, surroundings
    <3>5. TasksCount'
      BY <1>4, <2>1, <3>1, <3>3 DEF TasksCount, Compares, surroundings
    <3>6. TurnCounts'
      BY <2>2 DEF TurnCounts
    <3>7. t.variant = page.visible /\ page.preview.id = page.current
      BY <1>3, <1>4, <3>1 DEF TurnCounts
    <3>8. MountCounts'
      BY <1>4, <3>1, <3>2, <3>3, <3>7 DEF MountCounts, Compares
    <3> QED
      BY <3>4, <3>5, <3>6, <3>8
  <2> QED
    BY <2>3, <2>4, <2>5, <2>6 DEF Inv
<1>5. CASE UNCHANGED faults /\ page.arrived = 0 /\ Over(page, page')
  <2>1. More /\ over' \subseteq Sessions /\ UNCHANGED <<published, news, anchor, started>>
    BY <1>1, <1>2, <1>5 DEF More, TypeOK, surroundings
  <2>2. "late" \in faults'
    BY <1>3, <1>5, <2>1, OwnNow DEF PageOwn
  <2> QED
    BY <1>5, <2>1, <2>2, OverKeeps, LateKeeps DEF Inv
<1>6. CASE /\ Goes(FALSE) \/ (UNCHANGED faults /\ ~t.own /\ page.preview.id = NoSession)
           /\ page' \in Page /\ page'.selection = [t EXCEPT !.step = "explain"]
           /\ page'.tasks = page.tasks /\ page'.waiting = page.waiting /\ page'.saved = page.saved
           /\ SameCard(page, page') /\ SameAsks(page, page') /\ SameSession(page, page')
           /\ SameView(page, page') /\ page'.preview.id = page.preview.id
           /\ page'.preview.mounted = page.preview.mounted
           /\ page'.preview = page.preview
              \/ (page'.preview.shown = 0 /\ page.preview.id # NoSession)
  <2>1. UNCHANGED surroundings /\ More
    BY <1>1, <1>2, <1>6, GoesMore DEF More, TypeOK
  <2>2. LET u == page'.selection IN
        /\ u.step = "explain" /\ u.id = t.id /\ u.variant = t.variant /\ u.previous = t.previous
        /\ u.own = t.own
    BY <1>1, <1>6 DEF Page, Selection
  <2>3. Turning(page')
    BY <2>2 DEF Turning
  <2>4. TypeOK'
    BY <1>1, <1>6, <2>1, TypeStep
  <2>5. Sound'
    <3>1. Plain(page')
      BY <1>1, <1>6, <2>2 DEF Plain
    <3> QED
      BY <1>1, <1>3, <1>6, <2>2, <2>3, <3>1 DEF Sound, SameCard
  <2>6. Begun'
    BY <1>6, <2>1 DEF Inv, Begun, SameCard, SameSession, surroundings
  <2>7. Filed'
    BY <1>3, <1>6, <2>1 DEF Inv, Filed, SameSession, More
  <2>8. Offer'
    BY <2>3 DEF Offer
  <2>9. Own'
    <3> SUFFICES ASSUME "late" \notin faults'
                 PROVE  (TasksOwn /\ PageOwn /\ CardOwn /\ AskedOwn)'
      BY DEF Own
    <3>1. TasksOwn /\ PageOwn /\ CardOwn
      BY <2>1, OwnNow
    <3>2. page.asked = {}
      BY <1>3, <2>1, NothingAsked
    <3>3. TasksOwn'
      BY <1>6, <3>1 DEF TasksOwn, SameSession
    <3>4. PageOwn'
      BY <1>3, <1>6, <2>1, <2>2, <3>1 DEF PageOwn, SameSession, More
    <3>5. CardOwn'
      BY <1>6, <2>1, <3>1 DEF CardOwn, SameCard, SameSession, surroundings
    <3>6. AskedOwn'
      BY <1>6, <3>2 DEF AskedOwn, SameAsks
    <3> QED
      BY <3>3, <3>4, <3>5, <3>6
  <2>10. Accepting'
    <3> SUFFICES ASSUME "late" \notin faults' PROVE Pends'
      BY DEF Accepting
    <3> QED
      BY <1>3, <1>6, <2>1, OwnNow, NothingAsked DEF Pends, SameAsks
  <2>11. Smooth'
    <3> SUFFICES ASSUME {"late", "failure"} \cap faults' = {} PROVE FALSE
      BY DEF Smooth
    <3>1. Flows /\ "failure" \notin faults'
      BY <2>1, FlowsNow
    <3>2. ~t.own
      BY <1>1, <1>6, <3>1, GoesMore
    <3> QED
      BY <1>2, <3>1, <3>2 DEF Flows
  <2>12. Compared'
    <3> SUFFICES ASSUME {"late", "overlap"} \cap faults' = {}
                 PROVE  (Counted /\ TasksCount /\ TurnCounts /\ MountCounts)'
      BY DEF Compared
    <3>1. Counted /\ TasksCount /\ TurnCounts /\ MountCounts
      BY <2>1, CountsNow
    <3>2. Counted'
      BY <1>6, <2>1, <3>1 DEF Counted, SameSession, SameView, surroundings
    <3>3. TasksCount'
      BY <1>6, <2>1, <3>1 DEF TasksCount, SameSession, SameView, surroundings
    <3>4. TurnCounts'
      BY <1>3, <1>6, <2>2, <3>1 DEF TurnCounts, Working, SameSession, SameView
    <3>5. MountCounts'
      BY <1>6, <2>3, <3>1 DEF MountCounts
    <3> QED
      BY <3>2, <3>3, <3>4, <3>5
  <2> QED
    BY <2>4, <2>5, <2>6, <2>7, <2>8, <2>9, <2>10, <2>11, <2>12 DEF Inv
<1> QED
  BY <1>2, <1>4, <1>5, <1>6

LEMMA SelectionExplainsKeeps ==
  ASSUME Inv, SelectionExplains
  PROVE  Inv'
<1> DEFINE t == page.selection
<1>1. /\ TypeOK /\ page \in Page /\ Sound /\ Plain(page)
  BY DEF Inv, TypeOK, Sound
<1>2. /\ t.step = "explain" /\ UNCHANGED world
      /\ \/ Over(page, page') /\ page.arrived = 0
         \/ /\ page' \in Page /\ page'.tasks = page.tasks /\ page'.preview = page.preview
            /\ page'.waiting = page.waiting /\ SameAsks(page, page') /\ SameSession(page, page')
            /\ page'.hasCard /\ page'.card.id = (IF t.id = NoSession THEN page.current ELSE t.id)
            /\ page'.card.file = page.file /\ SavedIn(page, page')
            /\ \/ /\ page.arrived > 0 /\ page'.selection = NoSelection /\ page'.bar
                  /\ t.back \/ page.preview.id # page.current \/ page.current = NoSession
                  /\ page'.visible = IF t.previous \in 1..page.arrived THEN t.previous ELSE 1
               \/ /\ page.preview.id = page.current /\ page.current # NoSession /\ ~t.back
                  /\ page'.bar = page.bar
                  /\ page'.visible = t.previous /\ page'.saved = page.saved
                  /\ page'.selection = [step |-> "mount", back |-> TRUE, id |-> page.current,
                                       variant |-> t.previous, previous |-> t.previous, own |-> TRUE]
  BY <1>1, SelectionExplainsEffect
<1>3. Turning(page) /\ t.id # NoSession
  BY <1>1, <1>2 DEF Sound, Turning
<1>4. UNCHANGED surroundings /\ UNCHANGED faults /\ More
  BY <1>1, <1>2 DEF world, More, TypeOK
<1>5. CASE Over(page, page') /\ page.arrived = 0
  <2>1. over' \subseteq Sessions /\ UNCHANGED <<published, news, anchor, started>>
    BY <1>1, <1>4 DEF TypeOK, surroundings
  <2>2. "late" \in faults'
    BY <1>3, <1>4, <1>5, OwnNow DEF PageOwn
  <2> QED
    BY <1>4, <1>5, <2>1, <2>2, OverKeeps, LateKeeps DEF Inv
<1>6. CASE /\ page' \in Page /\ page'.tasks = page.tasks /\ page'.preview = page.preview
           /\ page'.waiting = page.waiting /\ SameAsks(page, page') /\ SameSession(page, page')
           /\ page'.hasCard /\ page'.card.id = (IF t.id = NoSession THEN page.current ELSE t.id)
           /\ page'.card.file = page.file /\ SavedIn(page, page')
           /\ \/ /\ page.arrived > 0 /\ page'.selection = NoSelection /\ page'.bar
                 /\ t.back \/ page.preview.id # page.current \/ page.current = NoSession
                 /\ page'.visible = IF t.previous \in 1..page.arrived THEN t.previous ELSE 1
              \/ /\ page.preview.id = page.current /\ page.current # NoSession /\ ~t.back
                 /\ page'.bar = page.bar
                 /\ page'.visible = t.previous /\ page'.saved = page.saved
                 /\ page'.selection = [step |-> "mount", back |-> TRUE, id |-> page.current,
                                      variant |-> t.previous, previous |-> t.previous, own |-> TRUE]
  <2>1. page'.card.id = t.id
    BY <1>3, <1>6
  <2>2. LET u == page'.selection IN
        \/ u = NoSelection
        \/ /\ u.step = "mount" /\ u.id = page.current /\ u.variant = t.previous /\ u.previous = t.previous
           /\ u.own /\ page.preview.id = page.current /\ page.current # NoSession
    BY <1>6
  <2>3. TypeOK'
    BY <1>1, <1>4, <1>6, TypeStep
  <2>4. Sound'
    <3>1. Plain(page')
      BY <1>1, <1>6, <2>2 DEF Plain, NoSelection
    <3> QED
      BY <1>1, <1>3, <1>6, <2>1, <2>2, <3>1 DEF Sound, NoSelection, Turning
  <2>5. Begun'
    <3>1. t.id \in Maybe /\ NoSession <= started /\ page.current \in Maybe
      BY <1>1, Constants DEF TypeOK, Page, Selection
    <3>2. page'.selection.id <= started
      BY <2>2, <3>1 DEF Inv, Begun, NoSelection
    <3> QED
      BY <1>4, <1>6, <2>1, <3>1, <3>2 DEF Inv, Begun, SameSession, SavedIn, surroundings
  <2>6. Filed'
    BY <1>3, <1>4, <1>6 DEF Inv, Filed, SameSession
  <2>7. Offer'
    BY <1>6 DEF Offer
  <2>8. Own'
    <3> SUFFICES ASSUME "late" \notin faults'
                 PROVE  (TasksOwn /\ PageOwn /\ CardOwn /\ AskedOwn)'
      BY DEF Own
    <3>1. TasksOwn /\ PageOwn /\ CardOwn
      BY <1>4, OwnNow
    <3>2. page.asked = {}
      BY <1>3, <1>4, NothingAsked
    <3>3. TasksOwn'
      BY <1>6, <3>1 DEF TasksOwn, SameSession
    <3>4. PageOwn'
      BY <1>3, <1>4, <1>6, <2>2, <3>1 DEF PageOwn, SameSession, SavedIn, Turning, NoSelection
    <3>5. CardOwn'
      BY <1>3, <1>6, <2>1, <3>1 DEF CardOwn, PageOwn, SameSession
    <3>6. AskedOwn'
      BY <1>6, <3>2 DEF AskedOwn, SameAsks
    <3> QED
      BY <3>3, <3>4, <3>5, <3>6
  <2>9. Accepting'
    <3> SUFFICES ASSUME "late" \notin faults' PROVE Pends'
      BY DEF Accepting
    <3> QED
      BY <1>3, <1>4, <1>6, OwnNow, NothingAsked DEF Pends, SameAsks
  <2>10. Smooth'
    <3> SUFFICES ASSUME {"late", "failure"} \cap faults' = {} PROVE FALSE
      BY DEF Smooth
    <3> QED
      BY <1>2, <1>4, FlowsNow DEF Flows
  <2>11. Compared'
    <3> SUFFICES ASSUME {"late", "overlap"} \cap faults' = {}
                 PROVE  (Counted /\ TasksCount /\ TurnCounts /\ MountCounts)'
      BY DEF Compared
    <3>1. Counted /\ TasksCount /\ TurnCounts /\ MountCounts /\ PageOwn
      BY <1>4, CountsNow, OwnNow
    <3>2. ~Working(page) /\ ~Working(page')
      BY <1>3, <1>6, <3>1 DEF TurnCounts, Working
    <3>3. page'.visible = t.previous /\ t.previous \in 1..page.arrived
      BY <1>3, <1>6, <3>1 DEF TurnCounts
    <3>4. page.arrived \in Nat /\ t.previous \in Nat /\ t.previous > 0 /\ t.previous <= page.arrived
      BY <1>1, <3>3, PageFacts
    <3>5. /\ page.current # NoSession /\ page.current \in Sessions /\ published[page.current] \in Nat
          /\ page.arrived <= 1 \/ page.arrived <= published[page.current]
      BY <1>1, <1>3, <3>1 DEF TurnCounts, Counted, PageOwn, TypeOK, Page, Maybe
    <3>6. t.previous <= 1 \/ t.previous <= published[page.current]
      BY <3>4, <3>5
    <3>7. Counted'
      BY <1>4, <1>6, <3>1, <3>3, <3>4, <3>5, <3>6 DEF Counted, SameSession, SavedIn, surroundings
    <3>8. TasksCount'
      BY <3>2 DEF TasksCount, Working
    <3>9. TurnCounts'
      BY <1>3, <1>6, <2>2, <3>1, <3>2, <3>3 DEF TurnCounts, Turning, NoSelection, SameSession
    <3>10. MountCounts'
      BY <1>3, <1>6, <3>1, <3>3 DEF MountCounts, TurnCounts, SameSession
    <3> QED
      BY <3>7, <3>8, <3>9, <3>10
  <2> QED
    BY <2>3, <2>4, <2>5, <2>6, <2>7, <2>8, <2>9, <2>10, <2>11 DEF Inv
<1> QED
  BY <1>2, <1>5, <1>6

LEMMA AnchorFoundKeeps ==
  ASSUME Inv, AnchorFound
  PROVE  Inv'
<1>1. /\ TypeOK /\ page \in Page /\ Sound /\ Plain(page)
  BY DEF Inv, TypeOK, Sound
<1>2. /\ page.waiting # NoSession /\ UNCHANGED world /\ page' \in Page
      /\ page'.waiting = NoSession /\ page'.saved = page.saved
      /\ SameCard(page, page') /\ SameAsks(page, page') /\ SameSession(page, page') /\ SameView(page, page')
      /\ \/ page.preview.id = page.waiting /\ SameMounts(page, page')
         \/ page.preview.id # page.waiting
            /\ \E i \in Slots : Injects(page, page', i, page.waiting, page.waiting)
  BY <1>1, AnchorFoundEffect
<1>3. UNCHANGED surroundings /\ UNCHANGED faults /\ More
  BY <1>1, <1>2 DEF world, More, TypeOK
<1>4. PICK i \in Slots : \/ page.preview.id = page.waiting /\ SameMounts(page, page')
                         \/ /\ page.preview.id # page.waiting
                            /\ Injects(page, page', i, page.waiting, page.waiting)
  BY <1>2, Constants
<1>5. /\ page'.selection = page.selection /\ page'.preview = page.preview
      /\ \A k \in Slots \ {i} : page'.tasks[k] = page.tasks[k]
      /\ \/ page'.tasks[i] = page.tasks[i] /\ page.preview.id = page.waiting
         \/ /\ page.tasks[i].step = "idle" /\ page'.tasks[i].step = "manifest" /\ ~page'.tasks[i].own
            /\ page'.tasks[i].id = page.waiting /\ page'.tasks[i].file = page.waiting
            /\ page.preview.id # page.waiting
  BY <1>4 DEF SameMounts, Injects, Others
<1>6. TypeOK'
  BY <1>1, <1>2, <1>3, TypeStep
<1>7. Sound'
  <2>1. Plain(page')
    BY <1>1, <1>5 DEF Plain
  <2> QED
    BY <1>1, <1>2, <1>5, <2>1 DEF Sound, SameCard, Turning
<1>8. Begun'
  BY <1>1, <1>2, <1>3, <1>5, NoneBegun DEF Inv, Begun, SameCard, SameSession, surroundings
<1>9. Filed'
  BY <1>2, <1>3 DEF Inv, Filed, SameSession
<1>10. Offer'
  BY <1>2, <1>3, <1>5 DEF Inv, Offer, SameCard, SameSession, SameView, Working, Turning
<1>11. Own'
  <2> SUFFICES ASSUME "late" \notin faults'
               PROVE  (TasksOwn /\ PageOwn /\ CardOwn /\ AskedOwn)'
    BY DEF Own
  <2>1. TasksOwn /\ PageOwn /\ CardOwn
    BY <1>3, OwnNow
  <2>2. page.asked = {}
    BY <1>2, <1>3, NothingAsked
  <2>3. page.waiting = page.current
    BY <1>2, <2>1 DEF PageOwn
  <2>4. TasksOwn'
    BY <1>2, <1>5, <2>1, <2>3 DEF TasksOwn, SameSession
  <2>5. PageOwn'
    BY <1>2, <1>3, <1>5, <2>1 DEF PageOwn, SameSession, Turning
  <2>6. CardOwn'
    BY <1>2, <1>3, <2>1 DEF CardOwn, SameCard, SameSession, surroundings
  <2>7. AskedOwn'
    BY <1>2, <2>2 DEF AskedOwn, SameAsks
  <2> QED
    BY <2>4, <2>5, <2>6, <2>7
<1>12. Accepting'
  <2> SUFFICES ASSUME "late" \notin faults' PROVE Pends'
    BY DEF Accepting
  <2> QED
    BY <1>2, <1>3, OwnNow, NothingAsked DEF Pends, SameAsks
<1>13. Smooth'
  <2> SUFFICES ASSUME {"late", "failure"} \cap faults' = {} PROVE Flows'
    BY DEF Smooth
  <2>1. Flows
    BY <1>3, FlowsNow
  <2>2. PICK k \in Slots : page.preview.id # NoSession /\ page.preview.shown = 0
                             => page.tasks[k].step = "mount"
    BY <2>1 DEF Flows
  <2>3. page'.preview.id # NoSession /\ page'.preview.shown = 0 => page'.tasks[k].step = "mount"
    BY <1>5, <2>2
  <2> QED
    BY <1>2, <1>3, <1>5, <2>1, <2>3 DEF Flows, SameCard, SameSession
<1>14. Compared'
  <2> SUFFICES ASSUME {"late", "overlap"} \cap faults' = {}
               PROVE  (Counted /\ TasksCount /\ TurnCounts /\ MountCounts)'
    BY DEF Compared
  <2>1. Counted /\ TasksCount /\ TurnCounts /\ MountCounts
    BY <1>3, CountsNow
  <2>2. page'.tasks[i].step = "manifest"
    BY <1>2, <1>5, <2>1 DEF MountCounts
  <2>3. Working(page') /\ ~Turning(page) /\ ~Turning(page')
    BY <1>2, <1>5, <2>1, <2>2 DEF Working, Turning, TurnCounts
  <2>4. Counted'
    BY <1>2, <1>3, <1>5, <2>1 DEF Counted, SameSession, SameView, surroundings
  <2>5. TasksCount'
    BY <1>2, <1>3, <1>5, <2>1 DEF TasksCount, SameSession, SameView, surroundings
  <2>6. TurnCounts' 
    BY <2>3 DEF TurnCounts
  <2>7. MountCounts'
    BY <1>2, <1>5, <2>1, <2>3 DEF MountCounts, SameSession, SameView
  <2> QED
    BY <2>4, <2>5, <2>6, <2>7
<1> QED
  BY <1>6, <1>7, <1>8, <1>9, <1>10, <1>11, <1>12, <1>13, <1>14 DEF Inv

LEMMA SelectVariantKeeps ==
  ASSUME Inv, SelectVariant
  PROVE  Inv'
<1>1. /\ TypeOK /\ page \in Page /\ Sound /\ Plain(page)
  BY DEF Inv, TypeOK, Sound
<1>2. /\ page.state = "CYCLING" /\ page.bar /\ page.selection.step = "idle"
      /\ UNCHANGED surroundings
      /\ IF page.current \in over THEN Strikes("late") ELSE Overlaps(Injecting(page))
      /\ page' \in Page /\ page'.tasks = page.tasks /\ page'.preview = page.preview
      /\ page'.waiting = page.waiting /\ page'.bar
      /\ SameCard(page, page') /\ SameAsks(page, page') /\ SameSession(page, page')
      /\ \/ page'.saved = page.saved
         \/ /\ page.current # NoSession /\ page'.saved.id = page.current
            /\ page'.saved.file = page.file
            /\ page'.saved.visible = IF page.visible \in 1..page.arrived THEN page.visible ELSE 1
      /\ \E n \in 1..page.arrived : LET s == page'.selection IN
           \/ /\ page.preview.id = page.current /\ page.current # NoSession /\ page'.visible = n
              /\ s.step = "mount" /\ ~s.back /\ s.id = page.current /\ s.variant = n
              /\ s.previous = page.visible /\ s.own
           \/ /\ page.preview.id # page.current \/ page.current = NoSession
              /\ page'.visible = page.visible /\ s = NoSelection
  BY <1>1, SelectVariantEffect
<1>3. PICK n \in 1..page.arrived : LET s == page'.selection IN
           \/ /\ page.preview.id = page.current /\ page.current # NoSession /\ page'.visible = n
              /\ s.step = "mount" /\ ~s.back /\ s.id = page.current /\ s.variant = n
              /\ s.previous = page.visible /\ s.own
           \/ /\ page.preview.id # page.current \/ page.current = NoSession
              /\ page'.visible = page.visible /\ s = NoSelection
  BY <1>2
<1>4. page.arrived \in Nat /\ page.arrived > 0 /\ n \in Nat /\ n > 0 /\ n <= page.arrived
  BY <1>1, PageFacts
<1>5. /\ UNCHANGED surroundings /\ More
      /\ "dismissed" \in faults' <=> "dismissed" \in faults
      /\ "late" \notin faults' => page.current \notin over
  BY <1>1, <1>2, StrikesMore, OverlapsMore DEF Fault
<1>6. "late" \notin faults' /\ "overlap" \notin faults' => ~Working(page)
  <2> SUFFICES ASSUME "late" \notin faults', "overlap" \notin faults' PROVE ~Working(page)
    OBVIOUS
  <2>1. Overlaps(Injecting(page))
    BY <1>1, <1>2, StrikesMore DEF Fault
  <2>2. Injecting(page) = {}
    BY <1>1, <2>1, OverlapsMore
  <2> QED
    BY <1>1, <2>2, QuietFacts
<1>16. "late" \notin faults' => page.asked = {} /\ page.pending = NoSession
  <2> SUFFICES ASSUME "late" \notin faults' PROVE page.asked = {} /\ page.pending = NoSession
    OBVIOUS
  <2>1. AskedOwn /\ PageOwn /\ Pends
    BY <1>5, OwnNow
  <2>2. page.current # NoSession
    BY <1>2, <2>1 DEF PageOwn
  <2>3. page.asked = {}
    BY <1>5, <2>1, <2>2 DEF AskedOwn
  <2> QED
    BY <2>1, <2>3 DEF Pends
<1>7. TypeOK'
  BY <1>1, <1>2, <1>5, TypeStep
<1>8. Sound'
  <2>1. Plain(page')
    BY <1>1, <1>2, <1>3 DEF Plain, NoSelection
  <2> QED
    BY <1>1, <1>2, <1>3, <2>1 DEF Sound, NoSelection, Turning, SameCard
<1>9. Begun'
  <2>1. NoSession <= started
    BY <1>1, Constants DEF TypeOK
  <2> QED
    BY <1>2, <1>3, <2>1 DEF Inv, Begun, NoSelection, SameCard, SameSession, surroundings
<1>10. Filed'
  BY <1>2, <1>3, <1>5 DEF Inv, Filed, NoSelection, Turning, SameCard, SameSession, Working
<1>11. Offer'
  BY <1>2 DEF Offer
<1>12. Own'
  <2> SUFFICES ASSUME "late" \notin faults'
               PROVE  (TasksOwn /\ PageOwn /\ CardOwn /\ AskedOwn)'
    BY DEF Own
  <2>1. TasksOwn /\ PageOwn /\ CardOwn /\ AskedOwn
    BY <1>5, OwnNow
  <2>2. page.asked = {}
    BY <1>16
  <2>3. TasksOwn'
    BY <1>2, <2>1 DEF TasksOwn, SameSession
  <2>4. PageOwn'
    BY <1>2, <1>3, <1>4, <1>5, <2>1 DEF PageOwn, SameSession, Turning, NoSelection
  <2>5. CardOwn'
    BY <1>2, <1>5, <2>1 DEF CardOwn, SameCard, SameSession, surroundings
  <2>6. AskedOwn'
    BY <1>2, <2>2 DEF AskedOwn, SameAsks
  <2> QED
    BY <2>3, <2>4, <2>5, <2>6
<1>13. Accepting'
  <2> SUFFICES ASSUME "late" \notin faults' PROVE Pends'
    BY DEF Accepting
  <2>1. Pends
    BY <1>5, OwnNow
  <2> QED
    BY <1>2, <1>16, <2>1 DEF Pends, SameAsks, SameSession
<1>14. Smooth'
  <2> SUFFICES ASSUME {"late", "failure"} \cap faults' = {} PROVE Flows'
    BY DEF Smooth
  <2>1. Flows
    BY <1>5, FlowsNow
  <2> QED
    BY <1>2, <1>3, <1>4, <1>5, <2>1 DEF Flows, SameCard, SameSession, NoSelection
<1>15. Compared'
  <2> SUFFICES ASSUME {"late", "overlap"} \cap faults' = {}
               PROVE  (Counted /\ TasksCount /\ TurnCounts /\ MountCounts)'
    BY DEF Compared
  <2>1. Counted /\ TasksCount /\ TurnCounts /\ MountCounts /\ PageOwn
    BY <1>5, CountsNow, OwnNow
  <2>2. ~Working(page) /\ ~Working(page')
    BY <1>2, <1>6 DEF Working
  <2>3. ~Turning(page)
    BY <1>2 DEF Turning
  <2>4. page.visible \in 1..page.arrived
    BY <1>4, <2>1 DEF Counted
  <2>5. page.visible \in Nat /\ page.visible > 0 /\ page.visible <= page.arrived
    BY <1>4, <2>4
  <2>6. /\ page.current # NoSession /\ published[page.current] \in Nat
        /\ page.arrived <= 1 \/ page.arrived <= published[page.current]
    BY <1>1, <1>2, <2>1 DEF Counted, PageOwn, TypeOK, Page, Maybe
  <2>7. /\ n <= 1 \/ n <= published[page.current]
        /\ page.visible <= 1 \/ page.visible <= published[page.current]
    BY <1>4, <2>5, <2>6
  <2>8. page'.visible \in 1..page.arrived /\ page'.visible > 0
        /\ (page'.visible <= 1 \/ page'.visible <= published[page.current])
    BY <1>3, <1>4, <2>4, <2>5, <2>7
  <2>9. page'.saved = page.saved \/ (page'.saved.id = page.current /\ page'.saved.visible = page.visible)
    BY <1>2, <2>4
  <2>10. Counted'
    BY <1>2, <1>5, <2>1, <2>6, <2>7, <2>8, <2>9 DEF Counted, SameSession, surroundings
  <2>11. TasksCount'
    BY <2>2 DEF TasksCount, Working
  <2>12. page.preview.id = page.current => page.waiting = NoSession
    BY <2>1 DEF MountCounts, PageOwn
  <2>13. TurnCounts'
    BY <1>2, <1>3, <2>1, <2>2, <2>3, <2>4, <2>12 DEF TurnCounts, MountCounts, Turning, NoSelection, SameSession
  <2>14. MountCounts'
    BY <1>2, <1>3, <1>5, <2>1, <2>2, <2>3 DEF MountCounts, Turning, NoSelection, SameSession, SameCard
  <2> QED
    BY <2>10, <2>11, <2>13, <2>14
<1> QED
  BY <1>7, <1>8, <1>9, <1>10, <1>11, <1>12, <1>13, <1>14, <1>15 DEF Inv

LEMMA GoKeeps ==
  ASSUME Inv, Go
  PROVE  Inv'
<1>1. /\ TypeOK /\ page \in Page /\ Sound /\ Plain(page)
  BY DEF Inv, TypeOK, Sound
<1>2. /\ page.state = "PICKING" /\ started' = started + 1 /\ started' \in Sessions
      /\ UNCHANGED <<published, news, over, anchor>>
      /\ IF /\ Injecting(page) \cup Selecting(page) \cup ({page.waiting} \ {NoSession}) = {}
            /\ page.asked = {}
         THEN UNCHANGED faults ELSE Strikes("late")
      /\ page' \in Page /\ SameWork(page, page') /\ ~page'.hasCard /\ page'.card = NoCard
      /\ page'.pending = NoSession /\ page'.asked = page.asked
      /\ page'.accepted = page.accepted /\ page'.committed = page.committed
      /\ page'.state = "GENERATING" /\ page'.current = started' /\ page'.arrived = 0
      /\ page'.visible = 0 /\ page'.file = NoSession /\ page'.bar
      /\ page'.saved.id = started' /\ page'.saved.file = NoSession /\ page'.saved.visible = 0
  BY <1>1, GoEffect
<1>3. More /\ ("dismissed" \in faults' <=> "dismissed" \in faults)
  <2>1. UNCHANGED faults \/ Strikes("late")
    BY <1>2
  <2> QED
    BY <1>1, <2>1, StrikesMore DEF More, TypeOK, Fault
<1>4. started \in Nat /\ started' \in Nat /\ started' > started /\ started' # NoSession /\ NoSession = 0
  BY <1>1, <1>2, Constants DEF TypeOK, Sessions
<1>5. "late" \notin faults' \/ "late" \in faults =>
        ~Working(page) /\ ~Turning(page) /\ page.waiting = NoSession /\ page.asked = {}
  <2> SUFFICES ASSUME "late" \notin faults' \/ "late" \in faults
               PROVE  /\ ~Working(page) /\ ~Turning(page) /\ page.waiting = NoSession
                      /\ page.asked = {}
    OBVIOUS
  <2>1. /\ Injecting(page) \cup Selecting(page) \cup ({page.waiting} \ {NoSession}) = {}
        /\ page.asked = {}
    BY <1>1, <1>2, StrikesMore DEF Fault
  <2>2. Injecting(page) = {} /\ Selecting(page) = {} /\ page.waiting = NoSession
    BY <2>1
  <2> QED
    BY <1>1, <2>1, <2>2, QuietFacts
<1>6. TypeOK'
  BY <1>1, <1>2, <1>3 DEF TypeOK, More, Sessions
<1>7. Sound'
  BY <1>1, <1>2 DEF Sound, Plain, SameWork, Turning
<1>8. Begun'
  <2>1. \A m \in Nat : m <= started => m <= started'
    BY <1>4
  <2> QED
    BY <1>1, <1>2, <1>4, <2>1, PageFacts DEF Inv, Begun, SameWork, NoCard
<1>9. page.preview.id # page'.current
  BY <1>1, <1>2, <1>4, PageFacts DEF Inv, Begun
<1>10. Filed'
  <2> SUFFICES ASSUME "dismissed" \notin faults'
               PROVE  ~Working(page') /\ ~Turning(page') /\ page'.waiting = NoSession
    BY <1>2, <1>9 DEF Filed, SameWork
  <2>1. "late" \notin faults => ~Working(page) /\ ~Turning(page) /\ page.waiting = NoSession
    <3> SUFFICES ASSUME "late" \notin faults
                 PROVE  ~Working(page) /\ ~Turning(page) /\ page.waiting = NoSession
      OBVIOUS
    <3>1. TasksOwn /\ PageOwn
      BY DEF Inv, Own
    <3>2. page.current = NoSession
      BY <1>2, <1>3, <3>1 DEF PageOwn
    <3> QED
      BY <1>1, <3>1, <3>2 DEF TasksOwn, PageOwn, Sound, Working
  <2> QED
    BY <1>2, <1>5, <2>1 DEF SameWork, Working, Turning
<1>11. Offer'
  BY <1>2 DEF Offer
<1>12. Own'
  <2> SUFFICES ASSUME "late" \notin faults'
               PROVE  (TasksOwn /\ PageOwn /\ CardOwn /\ AskedOwn)'
    BY DEF Own
  <2>2. page.asked = {}
    BY <1>5
  <2>3. ~Working(page') /\ ~Turning(page') /\ page'.waiting = NoSession
    BY <1>2, <1>5 DEF SameWork, Working, Turning
  <2>4. TasksOwn'
    BY <2>3 DEF TasksOwn, Working
  <2>5. PageOwn'
    BY <1>2, <1>4, <2>3 DEF PageOwn
  <2>6. CardOwn' /\ AskedOwn'
    BY <1>2, <2>2 DEF CardOwn, AskedOwn
  <2> QED
    BY <2>4, <2>5, <2>6
<1>13. Accepting'
  <2> SUFFICES ASSUME "late" \notin faults' PROVE Pends'
    BY DEF Accepting
  <2>1. Pends
    BY <1>3, OwnNow
  <2> QED
    BY <1>2, <1>5, <2>1 DEF Pends
<1>14. Smooth'
  <2> SUFFICES ASSUME {"late", "failure"} \cap faults' = {} PROVE Flows'
    BY DEF Smooth
  <2>1. Flows /\ PageOwn
    BY <1>3, FlowsNow, OwnNow
  <2>2. page.preview.id = NoSession
    BY <1>2, <2>1 DEF Flows, PageOwn
  <2> QED
    BY <1>2, <1>3, <2>1, <2>2 DEF Flows, SameWork
<1>15. Compared'
  <2> SUFFICES ASSUME {"late", "overlap"} \cap faults' = {}
               PROVE  (Counted /\ TasksCount /\ TurnCounts /\ MountCounts)'
    BY DEF Compared
  <2>1. ~Working(page') /\ ~Turning(page') /\ page'.waiting = NoSession
    BY <1>2, <1>3, <1>5, CountsNow DEF SameWork, Working, Turning
  <2>2. Counted'
    BY <1>2, <1>4, <2>1 DEF Counted, Working
  <2>3. TasksCount' /\ TurnCounts'
    BY <2>1 DEF TasksCount, TurnCounts, Working
  <2>4. MountCounts'
    BY <1>2, <1>9, <2>1 DEF MountCounts, SameWork
  <2> QED
    BY <2>2, <2>3, <2>4
<1> QED
  BY <1>6, <1>7, <1>8, <1>10, <1>11, <1>12, <1>13, <1>14, <1>15 DEF Inv

\* A session that is ended in time has nothing under way but another press.
LEMMA EndsQuietly ==
  ASSUME Inv, More, ~Disturbed(page.current), page.current # NoSession, "late" \notin faults'
  PROVE  /\ ~Working(page) /\ ~Turning(page) /\ page.waiting = NoSession
         /\ page.current \notin news /\ page.state \in {"CYCLING", "SAVING"}
         /\ \A q \in page.asked : /\ q.type = "accept" /\ q.id = page.current
                                 /\ page.pending = page.current /\ page.state = "SAVING"
<1>1. TypeOK /\ Sound
  BY DEF Inv
<1>2. /\ page.current \notin Injecting(page) \cup Selecting(page) \cup {page.waiting} \cup news
      /\ page.current \in over => page.pending = page.current
      /\ page.state \in {"CYCLING", "SAVING"}
  BY DEF Disturbed
<1>3. TasksOwn /\ PageOwn /\ AskedOwn
  BY OwnNow
<1>4. ~Working(page)
  BY <1>1, <1>2, <1>3, QuietFacts DEF TasksOwn, Working
<1>5. ~Turning(page)
  BY <1>1, <1>2, <1>3, QuietFacts DEF PageOwn
<1>6. ASSUME NEW q \in page.asked
      PROVE  /\ q.type = "accept" /\ q.id = page.current
             /\ page.pending = page.current /\ page.state = "SAVING"
  <2>1. q.id = page.current /\ page.pending = page.current
    BY <1>2, <1>3 DEF AskedOwn
  <2>2. q \in Question
    BY <1>1 DEF TypeOK, Page
  <2>3. PICK p \in page.asked : p.type = "accept"
    BY <2>1, OwnNow DEF Pends
  <2>4. page.state = "SAVING"
    BY <1>3, <2>1, <2>3 DEF AskedOwn
  <2> QED
    BY <1>3, <2>1, <2>2, <2>4 DEF AskedOwn, Question
<1> QED
  BY <1>2, <1>3, <1>4, <1>5, <1>6 DEF PageOwn

\* A press that begins to wait, or stops.
LEMMA PatientKeeps ==
  ASSUME Inv, NEW presses \in SUBSET Presses, page' = Patient(page, presses), UNCHANGED world
  PROVE  Inv'
<1>1. /\ TypeOK /\ page \in Page /\ Sound
  BY DEF Inv, TypeOK
<1>2. /\ UNCHANGED <<published, news, over, anchor, started, faults>>
      /\ page' \in Page /\ page'.saved = page.saved
      /\ SameWork(page, page') /\ SameCard(page, page') /\ SameSession(page, page')
      /\ SameView(page, page') /\ SameAsks(page, page')
  BY <1>1, PatientSame DEF world, surroundings, Same, Patient, Page
<1>3. /\ Working(page') <=> Working(page)
      /\ Turning(page') <=> Turning(page)
      /\ Named(page') = Named(page)
  BY <1>2 DEF SameWork, SameSession, SameView, Working, Turning, Named
<1>4. TypeOK' /\ More
  BY <1>1, <1>2 DEF TypeOK, More
<1>5. Sound'
  BY <1>1, <1>2, <1>3 DEF Sound, Plain, SameWork, SameCard
<1>6. Begun'
  BY <1>2 DEF Inv, Begun, SameWork, SameCard, SameSession
<1>7. Filed'
  BY <1>2, <1>3 DEF Inv, Filed, SameWork, SameCard, SameSession
<1>8. Offer'
  BY <1>2, <1>3 DEF Inv, Offer, SameCard, SameSession, SameView
<1>9. Own'
  <2> SUFFICES ASSUME "late" \notin faults'
               PROVE  (TasksOwn /\ PageOwn /\ CardOwn /\ AskedOwn)'
    BY DEF Own
  <2>1. TasksOwn /\ PageOwn /\ CardOwn /\ AskedOwn
    BY <1>4, OwnNow
  <2>2. TasksOwn'
    BY <1>2, <2>1 DEF TasksOwn, SameWork, SameSession
  <2>3. PageOwn'
    BY <1>2, <1>3, <2>1 DEF PageOwn, SameWork, SameSession
  <2>4. CardOwn'
    BY <1>2, <2>1 DEF CardOwn, SameCard, SameSession
  <2>5. AskedOwn'
    BY <1>2, <1>3, <2>1 DEF AskedOwn, SameWork, SameSession, SameAsks
  <2> QED
    BY <2>2, <2>3, <2>4, <2>5
<1>10. Accepting'
  <2> SUFFICES ASSUME "late" \notin faults' PROVE Pends'
    BY DEF Accepting
  <2>1. Pends
    BY <1>4, OwnNow
  <2> QED
    BY <1>2, <1>3, <2>1 DEF Pends, SameSession, SameAsks
<1>11. Smooth'
  <2> SUFFICES ASSUME {"late", "failure"} \cap faults' = {} PROVE Flows'
    BY DEF Smooth
  <2>1. Flows
    BY <1>4, FlowsNow
  <2> QED
    BY <1>2, <2>1 DEF Flows, SameWork, SameCard, SameSession
<1>12. Compared'
  <2> SUFFICES ASSUME {"late", "overlap"} \cap faults' = {}
               PROVE  (Counted /\ TasksCount /\ TurnCounts /\ MountCounts)'
    BY DEF Compared
  <2>1. Counted /\ TasksCount /\ TurnCounts /\ MountCounts
    BY <1>4, CountsNow
  <2>2. Counted'
    BY <1>2, <2>1 DEF Counted, SameWork, SameSession, SameView
  <2>3. TasksCount'
    BY <1>2, <2>1 DEF TasksCount, SameWork, SameSession, SameView
  <2>4. TurnCounts'
    BY <1>2, <1>3, <2>1 DEF TurnCounts, SameWork, SameSession, SameView
  <2>5. MountCounts'
    BY <1>2, <1>3, <2>1 DEF MountCounts, SameWork, SameCard, SameSession, SameView
  <2> QED
    BY <2>2, <2>3, <2>4, <2>5
<1> QED
  BY <1>4, <1>5, <1>6, <1>7, <1>8, <1>9, <1>10, <1>11, <1>12 DEF Inv

\* An accept that is posted, the first of a session or one more of it.
LEMMA PostsKeeps ==
  ASSUME Inv, NEW k \in Presses, page.current # NoSession, ~Turning(page), page' = Accepted(page, k),
         over' = over \cup {page.current}, UNCHANGED <<published, news, anchor, started>>, More,
         "dismissed" \in faults' <=> "dismissed" \in faults,
         "late" \notin faults' => ~Disturbed(page.current)
  PROVE  Inv'
<1> DEFINE n == Named(page)
           q == Posted(page, k)
<1>1. /\ TypeOK /\ page \in Page /\ Sound /\ Plain(page)
  BY DEF Inv, TypeOK, Sound
<1>2. /\ page' \in Page /\ SavedIn(page, page') /\ SameWork(page, page') /\ SameCard(page, page')
      /\ page'.state = "SAVING" /\ page'.pending = page.current /\ page'.visible = n
      /\ page'.accepted = n /\ page'.committed = 0 /\ page'.asked = page.asked \cup {q}
      /\ page'.current = page.current /\ page'.arrived = page.arrived /\ page'.file = page.file
  BY <1>1, AcceptedFacts
<1>4. /\ Working(page') <=> Working(page)
      /\ ~Turning(page')
  BY <1>2 DEF SameWork, Working, Turning
<1>5. "late" \notin faults' =>
        /\ ~Working(page) /\ page.waiting = NoSession /\ page.current \notin news
        /\ page.state \in {"CYCLING", "SAVING"}
        /\ \A p \in page.asked : /\ p.type = "accept" /\ p.id = page.current
                                /\ page.pending = page.current /\ page.state = "SAVING"
  BY EndsQuietly
<1>15. /\ q.type = "accept" /\ q.id = page.current /\ q.variant = n
  BY DEF Posted
<1>16. Named(page') = n
  BY <1>2 DEF Named, SameWork
<1> HIDE DEF n, q
<1>6. TypeOK'
  BY <1>1, <1>2 DEF TypeOK, More, Page, Maybe
<1>7. Sound'
  BY <1>1, <1>2, <1>4 DEF Sound, Plain, SameWork, SameCard, Turning
<1>8. Begun'
  BY <1>2 DEF Inv, Begun, SameWork, SameCard, SavedIn
<1>9. Filed'
  BY <1>2, <1>4 DEF Inv, Filed, SameWork, SameCard
<1>10. Offer'
  BY <1>2 DEF Offer
<1>11. Own'
  <2> SUFFICES ASSUME "late" \notin faults'
               PROVE  (TasksOwn /\ PageOwn /\ CardOwn /\ AskedOwn)'
    BY DEF Own
  <2>1. TasksOwn /\ PageOwn /\ CardOwn
    BY OwnNow
  <2>2. TasksOwn'
    BY <1>4, <1>5 DEF TasksOwn, Working
  <2>3. PageOwn'
    BY <1>2, <1>4, <2>1 DEF PageOwn, SameWork, SavedIn
  <2>4. CardOwn'
    BY <1>2, <2>1 DEF CardOwn, SameCard
  <2>5. AskedOwn'
    BY <1>2, <1>4, <1>5, <1>15 DEF AskedOwn, SameWork
  <2> QED
    BY <2>2, <2>3, <2>4, <2>5
<1>12. Accepting'
  <2> SUFFICES ASSUME "late" \notin faults' PROVE Pends'
    BY DEF Accepting
  <2>1. ASSUME NEW p \in page.asked PROVE p.variant = n
    BY <1>5, OwnNow DEF Pends, n
  <2> QED
    BY <1>2, <1>15, <1>16, <2>1 DEF Pends
<1>13. Smooth'
  <2> SUFFICES ASSUME {"late", "failure"} \cap faults' = {} PROVE Flows'
    BY DEF Smooth
  <2>1. Flows
    BY FlowsNow
  <2> QED
    BY <1>2, <2>1 DEF Flows, SameWork, SameCard
<1>14. Compared'
  <2> SUFFICES ASSUME {"late", "overlap"} \cap faults' = {}
               PROVE  (Counted /\ TasksCount /\ TurnCounts /\ MountCounts)'
    BY DEF Compared
  <2>1. Counted /\ TasksCount /\ TurnCounts /\ MountCounts /\ PageOwn /\ "late" \notin faults'
    BY CountsNow, OwnNow
  <2>2. page'.visible = page.visible
    BY <1>1, <1>2, <1>4, <2>1, PageFacts DEF MountCounts, Named, n
  <2>3. ~Working(page) /\ ~Working(page')
    BY <1>4, <1>5, <2>1
  <2>4. Counted'
    BY <1>2, <1>5, <2>1, <2>2, <2>3 DEF Counted, SavedIn, Working
  <2>5. TasksCount' /\ TurnCounts'
    BY <1>4, <2>3 DEF TasksCount, TurnCounts, Working
  <2>6. MountCounts'
    BY <1>2, <1>4, <1>5, <2>1, <2>2, <2>3 DEF MountCounts, SameWork, SameCard
  <2> QED
    BY <2>4, <2>5, <2>6
<1> QED
  BY <1>6, <1>7, <1>8, <1>9, <1>10, <1>11, <1>12, <1>13, <1>14 DEF Inv

LEMMA AcceptKeeps ==
  ASSUME Inv, Accept
  PROVE  Inv'
<1>1. TypeOK /\ page \in Page
  BY DEF Inv, TypeOK
<1>2. PICK n \in Presses :
        \/ page' = Patient(page, page.waits \cup {n}) /\ UNCHANGED world
        \/ /\ ~Turning(page) /\ page.current # NoSession
           /\ page' = Accepted(page, n)
           /\ over' = over \cup {page.current} /\ Ends(page.current)
           /\ UNCHANGED <<published, news, anchor, started>>
  BY <1>1, AcceptEffect
<1>3. CASE page' = Patient(page, page.waits \cup {n}) /\ UNCHANGED world
  <2>1. page.waits \cup {n} \in SUBSET Presses
    BY <1>1 DEF Page
  <2> QED
    BY <1>3, <2>1, PatientKeeps
<1>4. CASE /\ ~Turning(page) /\ page.current # NoSession
           /\ page' = Accepted(page, n)
           /\ over' = over \cup {page.current} /\ Ends(page.current)
           /\ UNCHANGED <<published, news, anchor, started>>
  <2>1. /\ More /\ ("dismissed" \in faults' <=> "dismissed" \in faults)
        /\ "late" \notin faults' => ~Disturbed(page.current)
    BY <1>1, <1>4, EndsMore
  <2> QED
    BY <1>4, <2>1, PostsKeeps
<1> QED
  BY <1>2, <1>3, <1>4

LEMMA AcceptGoesOnKeeps ==
  ASSUME Inv, AcceptGoesOn
  PROVE  Inv'
<1>1. TypeOK /\ page \in Page
  BY DEF Inv, TypeOK
<1>2. PICK n \in Presses :
        \/ page' = Patient(page, page.waits \ {n}) /\ UNCHANGED world
        \/ /\ ~Turning(page) /\ page.current # NoSession
           /\ page' = Accepted(page, n)
           /\ over' = over \cup {page.current}
           /\ faults' = IF Disturbed(page.current) THEN faults \cup {"late"} ELSE faults
           /\ UNCHANGED <<published, news, anchor, started>>
  BY <1>1, AcceptGoesOnEffect
<1>3. CASE page' = Patient(page, page.waits \ {n}) /\ UNCHANGED world
  <2>1. page.waits \ {n} \in SUBSET Presses
    BY <1>1 DEF Page
  <2> QED
    BY <1>3, <2>1, PatientKeeps
<1>4. CASE /\ ~Turning(page) /\ page.current # NoSession
           /\ page' = Accepted(page, n)
           /\ over' = over \cup {page.current}
           /\ faults' = IF Disturbed(page.current) THEN faults \cup {"late"} ELSE faults
           /\ UNCHANGED <<published, news, anchor, started>>
  <2>1. /\ More /\ ("dismissed" \in faults' <=> "dismissed" \in faults)
        /\ "late" \notin faults' => ~Disturbed(page.current)
    BY <1>1, <1>4 DEF More, TypeOK, Fault
  <2> QED
    BY <1>4, <2>1, PostsKeeps
<1> QED
  BY <1>2, <1>3, <1>4

LEMMA DiscardKeeps ==
  ASSUME Inv, Discard
  PROVE  Inv'
<1> DEFINE q == Dropping(page)
<1>1. /\ TypeOK /\ page \in Page /\ Sound
  BY DEF Inv, TypeOK
<1>2. /\ page.state = "CYCLING" /\ page.current # NoSession
      /\ over' = over \cup {page.current} /\ Ends(page.current)
      /\ UNCHANGED <<published, news, anchor, started>>
      /\ page' \in Page /\ page'.asked = page.asked \cup {q}
      /\ page'.pending = page.pending /\ page'.accepted = page.accepted
      /\ page'.committed = page.committed /\ page'.saved = page.saved
      /\ SameWork(page, page') /\ SameCard(page, page') /\ SameSession(page, page')
      /\ SameView(page, page')
  BY <1>1, DiscardEffect
<1>3. More /\ ("dismissed" \in faults' <=> "dismissed" \in faults)
  BY <1>1, <1>2, EndsMore
<1>4. /\ Working(page') <=> Working(page)
      /\ Turning(page') <=> Turning(page)
  BY <1>2 DEF SameWork, Working, Turning
<1>5. "late" \notin faults' => /\ ~Working(page) /\ ~Turning(page) /\ page.waiting = NoSession
                               /\ page.asked = {} /\ page.current \notin news
  <2> SUFFICES ASSUME "late" \notin faults'
               PROVE  /\ ~Working(page) /\ ~Turning(page) /\ page.waiting = NoSession
                      /\ page.asked = {} /\ page.current \notin news
    OBVIOUS
  <2>1. ~Disturbed(page.current)
    BY <1>1, <1>2, EndsMore
  <2> QED
    BY <1>2, <1>3, <2>1, EndsQuietly
<1>15. q.type = "discard" /\ q.id = page.current
  BY DEF Dropping
<1>16. Named(page') = Named(page)
  BY <1>2 DEF SameWork, SameSession, SameView, Named
<1> HIDE DEF q
<1>6. TypeOK'
  BY <1>1, <1>2, <1>3 DEF TypeOK, More, Page, Maybe
<1>7. Sound'
  BY <1>1, <1>2, <1>4 DEF Sound, Plain, SameWork, SameCard
<1>8. Begun'
  BY <1>2 DEF Inv, Begun, SameWork, SameCard, SameSession
<1>9. Filed'
  BY <1>2, <1>3, <1>4 DEF Inv, Filed, SameWork, SameCard, SameSession
<1>10. Offer'
  BY <1>2, <1>3, <1>4 DEF Inv, Offer, SameCard, SameSession, SameView
<1>11. Own'
  <2> SUFFICES ASSUME "late" \notin faults'
               PROVE  (TasksOwn /\ PageOwn /\ CardOwn /\ AskedOwn)'
    BY DEF Own
  <2>1. TasksOwn /\ PageOwn /\ CardOwn
    BY <1>3, OwnNow
  <2>2. TasksOwn'
    BY <1>4, <1>5 DEF TasksOwn, Working
  <2>3. PageOwn'
    BY <1>2, <1>3, <1>4, <2>1 DEF PageOwn, SameWork, SameSession
  <2>4. CardOwn'
    BY <1>2, <2>1 DEF CardOwn, SameCard, SameSession
  <2>5. AskedOwn'
    BY <1>2, <1>4, <1>5, <1>15 DEF AskedOwn, SameWork, SameSession
  <2> QED
    BY <2>2, <2>3, <2>4, <2>5
<1>12. Accepting'
  <2> SUFFICES ASSUME "late" \notin faults' PROVE Pends'
    BY DEF Accepting
  <2>1. Pends
    BY <1>3, OwnNow
  <2> QED
    BY <1>2, <1>5, <1>15, <1>16, <2>1 DEF Pends, SameSession
<1>13. Smooth'
  <2> SUFFICES ASSUME {"late", "failure"} \cap faults' = {} PROVE Flows'
    BY DEF Smooth
  <2>1. Flows
    BY <1>3, FlowsNow
  <2> QED
    BY <1>2, <1>3, <2>1 DEF Flows, SameWork, SameCard, SameSession
<1>14. Compared'
  <2> SUFFICES ASSUME {"late", "overlap"} \cap faults' = {}
               PROVE  (Counted /\ TasksCount /\ TurnCounts /\ MountCounts)'
    BY DEF Compared
  <2>1. Counted /\ TasksCount /\ TurnCounts /\ MountCounts
    BY <1>3, CountsNow
  <2>2. Counted'
    BY <1>2, <2>1 DEF Counted, SameWork, SameSession, SameView
  <2>3. TasksCount'
    BY <1>2, <2>1 DEF TasksCount, SameWork, SameSession, SameView
  <2>4. TurnCounts'
    BY <1>2, <1>4, <2>1 DEF TurnCounts, SameWork, SameSession, SameView
  <2>5. MountCounts'
    BY <1>2, <1>3, <1>4, <2>1 DEF MountCounts, SameWork, SameCard, SameSession, SameView
  <2> QED
    BY <2>2, <2>3, <2>4, <2>5
<1> QED
  BY <1>6, <1>7, <1>8, <1>9, <1>10, <1>11, <1>12, <1>13, <1>14 DEF Inv

\* What is asked is a discard, or accepts, of the page's session, or of one that was
\* let go of, with nothing under way.
LEMMA AskedFacts ==
  ASSUME Inv, More, "late" \notin faults', NEW q \in page.asked
  PROVE  /\ \/ q.id = page.current /\ page.current \in over /\ page.current \notin news
            \/ q.type = "accept" /\ page.current = NoSession
         /\ q.id # NoSession /\ (page.pending = q.id => page.current = q.id)
         /\ \A p \in page.asked \ {q} : q.type = "accept" /\ p.type = "accept"
         /\ ~Working(page) /\ ~Turning(page) /\ page.waiting = NoSession
         /\ page.state = "PICKING" => page.current = NoSession
         /\ q.id = page.current => page.state \in {"CYCLING", "SAVING"}
         /\ q.type = "discard" \/ page.pending # q.id => page.pending = NoSession
<1>1. AskedOwn /\ Pends /\ PageOwn
  BY OwnNow
<1>2. page.asked \subseteq Question
  BY DEF Inv, TypeOK, Page
<1>3. q \in Question /\ q.id # NoSession
  BY <1>2, Constants DEF Question
<1>4. ASSUME NEW p \in page.asked \ {q} PROVE p.type = "accept" /\ q.type = "accept"
  BY <1>1, <1>2, <1>3 DEF AskedOwn, Question
<1>5. q.type = "discard" => page.pending = NoSession
  BY <1>1, <1>4 DEF Pends
<1>6. page.pending # q.id => page.pending = NoSession
  BY <1>1 DEF Pends, AskedOwn
<1>7. q.id = page.current => page.state \in {"CYCLING", "SAVING"}
  BY <1>1, <1>3 DEF AskedOwn, Question
<1>8. page.state = "PICKING" => page.current = NoSession
  BY <1>1, <1>7 DEF AskedOwn
<1> QED
  BY <1>1, <1>3, <1>4, <1>5, <1>6, <1>7, <1>8 DEF AskedOwn, Pends

LEMMA UnaskedKeeps ==
  ASSUME Inv, NEW q \in page.asked, page' = Unasked(page, q), q.type = "discard" \/ page.pending # q.id,
         UNCHANGED <<published, news, anchor, started>>, over' \subseteq over,
         over \subseteq over' \cup {q.id}, over' # over => \A p \in page.asked \ {q} : p.id # q.id,
         over' = over \/ "late" \in faults' \/ q.id = page.current,
         More, "dismissed" \in faults' <=> "dismissed" \in faults
  PROVE  Inv'
<1>1. /\ TypeOK /\ page \in Page /\ Sound
  BY DEF Inv, TypeOK
<1>2. /\ page' \in Page /\ page'.asked = page.asked \ {q} /\ page'.saved = page.saved
      /\ page'.pending = page.pending /\ page'.accepted = page.accepted
      /\ page'.committed = page.committed
      /\ SameWork(page, page') /\ SameCard(page, page') /\ SameSession(page, page')
      /\ SameView(page, page')
  BY <1>1, UnaskedFacts
<1>3. /\ Working(page') <=> Working(page)
      /\ Turning(page') <=> Turning(page)
  BY <1>2 DEF SameWork, Working, Turning
<1>13. Named(page') = Named(page)
  BY <1>2 DEF SameWork, SameSession, SameView, Named
<1>4. TypeOK'
  BY <1>1, <1>2 DEF TypeOK, More
<1>5. Sound'
  BY <1>1, <1>2, <1>3 DEF Sound, Plain, SameWork, SameCard
<1>6. Begun'
  BY <1>2 DEF Inv, Begun, SameWork, SameCard, SameSession
<1>7. Filed'
  BY <1>2, <1>3 DEF Inv, Filed, SameWork, SameCard, SameSession
<1>8. Offer'
  BY <1>2, <1>3 DEF Inv, Offer, SameCard, SameSession, SameView
<1>9. Own'
  <2> SUFFICES ASSUME "late" \notin faults'
               PROVE  (TasksOwn /\ PageOwn /\ CardOwn /\ AskedOwn)'
    BY DEF Own
  <2>1. TasksOwn /\ PageOwn /\ CardOwn /\ AskedOwn
    BY OwnNow
  <2>2. TasksOwn'
    BY <1>2, <2>1 DEF TasksOwn, SameWork, SameSession
  <2>3. PageOwn'
    BY <1>2, <1>3, <2>1 DEF PageOwn, SameWork, SameSession
  <2>4. CardOwn'
    BY <1>2, <2>1 DEF CardOwn, SameCard, SameSession
  <2>5. AskedOwn'
    <3> SUFFICES ASSUME NEW p \in page.asked \ {q}
                 PROVE  /\ \/ p.id = page.current /\ page.current \in over'
                           \/ p.type = "accept" /\ page.current = NoSession
                        /\ p.type # "discard"
      BY <1>2, <1>3, <2>1 DEF AskedOwn, SameWork, SameSession
    <3>1. p.type = "accept"
      BY AskedFacts
    <3>2. (p.id = page.current /\ page.current \in over) \/ page.current = NoSession
      BY <2>1 DEF AskedOwn
    <3> QED
      BY <3>1, <3>2
  <2> QED
    BY <2>2, <2>3, <2>4, <2>5
<1>10. Accepting'
  <2> SUFFICES ASSUME "late" \notin faults' PROVE Pends'
    BY DEF Accepting
  <2> QED
    BY <1>2, <1>13, OwnNow, AskedFacts DEF Pends, SameSession
<1>11. Smooth'
  <2> SUFFICES ASSUME {"late", "failure"} \cap faults' = {} PROVE Flows'
    BY DEF Smooth
  <2>1. Flows
    BY FlowsNow
  <2> QED
    BY <1>2, <2>1 DEF Flows, SameWork, SameCard, SameSession
<1>12. Compared'
  <2> SUFFICES ASSUME {"late", "overlap"} \cap faults' = {}
               PROVE  (Counted /\ TasksCount /\ TurnCounts /\ MountCounts)'
    BY DEF Compared
  <2>1. Counted /\ TasksCount /\ TurnCounts /\ MountCounts
    BY CountsNow
  <2>2. Counted'
    BY <1>2, <2>1 DEF Counted, SameWork, SameSession, SameView
  <2>3. TasksCount'
    BY <1>2, <2>1 DEF TasksCount, SameWork, SameSession, SameView
  <2>4. TurnCounts'
    BY <1>2, <1>3, <2>1 DEF TurnCounts, SameWork, SameSession, SameView
  <2>5. MountCounts'
    BY <1>2, <1>3, <2>1 DEF MountCounts, SameWork, SameCard, SameSession, SameView
  <2> QED
    BY <2>2, <2>3, <2>4, <2>5
<1> QED
  BY <1>4, <1>5, <1>6, <1>7, <1>8, <1>9, <1>10, <1>11, <1>12 DEF Inv

\* An answer ends a session with nothing of it under way.
LEMMA AnsweredOver ==
  ASSUME Inv, NEW q \in page.asked, Over(page, page'), page'.asked = page.asked \ {q},
         page'.pending \in {page.pending, NoSession}, page'.accepted = page.accepted,
         q.type = "discard" \/ page'.pending = (IF page.pending = q.id THEN NoSession ELSE page.pending),
         page'.committed = page.committed, page'.arrived = 0 \/
           (page'.arrived = page.arrived /\ page'.visible = page.visible),
         UNCHANGED <<published, news, anchor, started>>, over' \subseteq Sessions, More,
         "dismissed" \in faults' <=> "dismissed" \in faults
  PROVE  Inv'
<1>1. TypeOK' /\ Sound' /\ Begun' /\ Filed' /\ Offer' /\ page \in Page
  BY OverKeeps DEF Inv, TypeOK
<1>2. "late" \notin faults' =>
        /\ \A p \in page.asked \ {q} : p.type = "accept"
        /\ ~Working(page') /\ ~Turning(page') /\ page'.waiting = NoSession
        /\ page'.pending = NoSession
  <2> SUFFICES ASSUME "late" \notin faults'
               PROVE  /\ \A p \in page.asked \ {q} : p.type = "accept"
                      /\ ~Working(page') /\ ~Turning(page')
                      /\ page'.waiting = NoSession /\ page'.pending = NoSession
    OBVIOUS
  <2>1. /\ \A p \in page.asked \ {q} : p.type = "accept"
        /\ ~Working(page) /\ ~Turning(page) /\ page.waiting = NoSession
        /\ q.type = "discard" \/ page.pending # q.id => page.pending = NoSession
    BY AskedFacts
  <2>2. ~Working(page')
    BY <2>1 DEF Over, Alike, IsIdle, Working
  <2>3. ~Turning(page') /\ page'.waiting = NoSession
    BY <2>1 DEF Over, AlikeSelection, IsIdle, Turning
  <2> QED
    BY <2>1, <2>2, <2>3
<1>3. Own'
  BY <1>2, Constants DEF Own, TasksOwn, PageOwn, CardOwn, AskedOwn, Over, Working, NoSaved
<1>4. Accepting'
  BY <1>2, OwnNow DEF Accepting, Pends
<1>5. Smooth'
  <2> SUFFICES ASSUME {"late", "failure"} \cap faults' = {} PROVE Flows'
    BY DEF Smooth
  <2>1. Flows /\ "late" \notin faults' /\ Sound /\ PageOwn
    BY FlowsNow, OwnNow DEF Inv
  <2>2. "dismissed" \notin faults'
    BY <2>1 DEF Flows
  <2>3. page'.preview.id = NoSession
    BY <2>1 DEF Over, Flows, NoPreview
  <2> QED
    BY <1>2, <2>1, <2>2, <2>3 DEF Flows, Over, Working, Turning
<1>6. Compared'
  <2> SUFFICES ASSUME {"late", "overlap"} \cap faults' = {}
               PROVE  (Counted /\ TasksCount /\ TurnCounts /\ MountCounts)'
    BY DEF Compared
  <2>1. Counted /\ "late" \notin faults'
    BY CountsNow
  <2>2. Counted'
    BY <1>2, <2>1 DEF Counted, Over, Working, NoSaved
  <2>3. (TasksCount /\ TurnCounts /\ MountCounts)'
    BY <1>2, <2>1 DEF TasksCount, TurnCounts, MountCounts, Over, Working
  <2> QED
    BY <2>2, <2>3
<1> QED
  BY <1>1, <1>3, <1>4, <1>5, <1>6 DEF Inv

\* The accept that came through.
LEMMA KeptKeeps ==
  ASSUME Inv, NEW q \in page.asked, page.pending = q.id, Kept(page, page', q),
         UNCHANGED surroundings, UNCHANGED faults
  PROVE  Inv'
<1>1. /\ TypeOK /\ page \in Page /\ Sound /\ page' \in Page
  BY DEF Inv, TypeOK, Kept
<1>2. More
  BY <1>1 DEF More, TypeOK
<1>3. /\ \A k \in Slots : Alike(page.tasks[k], page'.tasks[k])
      /\ AlikeSelection(page.selection, page'.selection)
  BY DEF Kept, Astray, SameMounts, Alike, AlikeSelection
<1>4. "late" \notin faults' =>
        /\ \A p \in page.asked \ {q} : p.type = "accept"
        /\ ~Working(page') /\ ~Turning(page') /\ page'.waiting = NoSession
  <2> SUFFICES ASSUME "late" \notin faults'
               PROVE  /\ \A p \in page.asked \ {q} : p.type = "accept"
                      /\ ~Working(page') /\ ~Turning(page') /\ page'.waiting = NoSession
    OBVIOUS
  <2>1. /\ \A p \in page.asked \ {q} : p.type = "accept"
        /\ ~Working(page) /\ ~Turning(page) /\ page.waiting = NoSession
    BY <1>2, AskedFacts
  <2>2. ~Working(page') /\ ~Turning(page')
    BY <1>3, <2>1 DEF Alike, AlikeSelection, Working, Turning
  <2> QED
    BY <2>1, <2>2 DEF Kept
<1>5. TypeOK'
  BY <1>1, <1>2, TypeStep
<1>6. Sound'
  <2>1. Plain(page')
    BY <1>1 DEF Sound, Plain, Kept, Astray, SameMounts, NoPreview
  <2> QED
    BY <1>1, <1>3, <2>1 DEF Sound, Turning, Alike, AlikeSelection, Kept, SameCard
<1>7. Begun'
  <2>1. NoSession <= started
    BY <1>1, Constants DEF TypeOK
  <2> QED
    BY <1>3, <2>1 DEF Inv, Begun, Kept, SameCard, SameMounts, Alike, AlikeSelection, NoPreview, NoSaved,
       surroundings
<1>8. Filed' /\ Offer'
  BY DEF Filed, Offer, Kept
<1>9. Own'
  <2> SUFFICES ASSUME "late" \notin faults'
               PROVE  (TasksOwn /\ PageOwn /\ CardOwn /\ AskedOwn)'
    BY DEF Own
  <2>1. CardOwn /\ AskedOwn /\ page.current \in over
    BY <1>2, OwnNow, AskedFacts
  <2>2. TasksOwn'
    BY <1>4 DEF TasksOwn, Working
  <2>3. PageOwn'
    BY <1>4 DEF PageOwn, Kept, NoSaved
  <2>4. CardOwn'
    BY <1>1, <2>1 DEF CardOwn, Kept, SameCard, Sound, surroundings
  <2>5. AskedOwn'
    BY <1>4 DEF AskedOwn, Kept
  <2> QED
    BY <2>2, <2>3, <2>4, <2>5
<1>10. Accepting'
  <2> SUFFICES ASSUME "late" \notin faults' PROVE Pends'
    BY DEF Accepting
  <2>1. Pends /\ q.id = page.current /\ page.current # NoSession
    BY <1>2, OwnNow, AskedFacts
  <2>2. Named(page) = page.accepted
    BY <2>1 DEF Pends
  <2>3. page.preview.id = q.id /\ page.preview.shown > 0 => page.preview.shown = page.accepted
    BY <1>1, <2>1, <2>2, PageFacts DEF Named, Plain, Sound
  <2> QED
    BY <2>1, <2>3 DEF Pends, Kept
<1>11. Smooth'
  <2> SUFFICES ASSUME {"late", "failure"} \cap faults' = {} PROVE Flows'
    BY DEF Smooth
  <2>1. Flows /\ "late" \notin faults' /\ q.id = page.current /\ ~Working(page)
    BY <1>2, FlowsNow, AskedFacts
  <2>2. page'.preview.id = NoSession
    <3>1. CASE page'.preview = NoPreview
      BY <3>1 DEF NoPreview
    <3>2. CASE ~(page.preview.id = q.id /\ page.preview.shown > 0) /\ SameMounts(page, page')
      <4>1. page.preview.id = NoSession \/ page.preview.shown = 0
        BY <1>1, <2>1, <3>2, PageFacts DEF Flows
      <4>2. page.preview.id = NoSession
        BY <2>1, <4>1 DEF Flows, Working
      <4> QED
        BY <3>2, <4>2 DEF SameMounts
    <3> QED
      BY <3>1, <3>2 DEF Kept
  <2> QED
    BY <1>4, <2>1, <2>2 DEF Flows, Kept, SameCard, Working, Turning
<1>12. Compared'
  <2> SUFFICES ASSUME {"late", "overlap"} \cap faults' = {}
               PROVE  (Counted /\ TasksCount /\ TurnCounts /\ MountCounts)'
    BY DEF Compared
  <2>1. Counted /\ "late" \notin faults'
    BY <1>2, CountsNow
  <2>2. Counted'
    BY <1>4, <2>1 DEF Counted, Kept, Working, NoSaved
  <2>3. (TasksCount /\ TurnCounts /\ MountCounts)'
    BY <1>4, <2>1 DEF TasksCount, TurnCounts, MountCounts, Kept, Working
  <2> QED
    BY <2>2, <2>3
<1> QED
  BY <1>5, <1>6, <1>7, <1>8, <1>9, <1>10, <1>11, <1>12 DEF Inv

\* The one that failed, with variants to go on with.
LEMMA ReopenedKeeps ==
  ASSUME Inv, NEW q \in page.asked, q.type = "accept", Reopened(page, page', q), AsksLess(page, page', q),
         UNCHANGED <<published, news, anchor, started>>, over' \subseteq over,
         over \subseteq over' \cup {q.id}, over' # over => \A p \in page.asked \ {q} : p.id # q.id,
         More, {"late", "failure"} \cap faults' # {}, "late" \notin faults' => q.id = page.current, "dismissed" \in faults' <=> "dismissed" \in faults
  PROVE  Inv'
<1>1. /\ TypeOK /\ page \in Page /\ Sound /\ page' \in Page
  BY DEF Inv, TypeOK, Reopened
<1>2. /\ Working(page') <=> Working(page)
      /\ Turning(page') <=> Turning(page)
  BY DEF Reopened, SameWork, Working, Turning
<1>3. TypeOK'
  BY <1>1 DEF TypeOK, More
<1>4. Sound'
  BY <1>1, <1>2 DEF Sound, Plain, Reopened, SameWork, SameCard
<1>5. Begun'
  BY DEF Inv, Begun, Reopened, SameWork, SameCard, SavedIn
<1>6. Filed'
  BY <1>2 DEF Inv, Filed, Reopened, SameWork, SameCard
<1>7. Offer'
  BY DEF Offer, Reopened
<1>8. Own'
  <2> SUFFICES ASSUME "late" \notin faults'
               PROVE  (TasksOwn /\ PageOwn /\ CardOwn /\ AskedOwn)'
    BY DEF Own
  <2>1. /\ TasksOwn /\ PageOwn /\ CardOwn /\ AskedOwn /\ q.id = page.current
        /\ page.current # NoSession
    BY OwnNow, AskedFacts
  <2>2. TasksOwn'
    BY <2>1 DEF TasksOwn, Reopened, SameWork
  <2>3. PageOwn'
    BY <1>2, <2>1 DEF PageOwn, Reopened, SameWork, SavedIn
  <2>4. CardOwn'
    BY <2>1 DEF CardOwn, Reopened, SameCard
  <2>5. AskedOwn'
    <3> SUFFICES ASSUME NEW p \in page.asked \ {q}
                 PROVE  p.id = page.current /\ page.current \in over' /\ p.type # "discard"
                        /\ page'.pending = NoSession
      BY <1>2, <2>1 DEF AskedOwn, Reopened, SameWork, AsksLess
    <3>1. p.type = "accept" /\ page'.pending = NoSession
      BY AskedFacts DEF AsksLess
    <3>2. p.id = page.current /\ page.current \in over
      BY <2>1 DEF AskedOwn
    <3> QED
      BY <2>1, <3>1, <3>2
  <2> QED
    BY <2>2, <2>3, <2>4, <2>5
<1>9. Accepting'
  <2> SUFFICES ASSUME "late" \notin faults' PROVE Pends'
    BY DEF Accepting
  <2> QED
    BY OwnNow, AskedFacts DEF Pends, AsksLess
<1>10. Smooth'
  BY DEF Smooth
<1>11. Compared'
  <2> SUFFICES ASSUME {"late", "overlap"} \cap faults' = {}
               PROVE  (Counted /\ TasksCount /\ TurnCounts /\ MountCounts)'
    BY DEF Compared
  <2>1. Counted /\ TasksCount /\ TurnCounts /\ MountCounts /\ ~Turning(page)
        /\ page.state \in {"CYCLING", "SAVING"} /\ "late" \notin faults'
    BY CountsNow, AskedFacts
  <2>2. page'.visible = page.visible
    BY <2>1 DEF Counted, Reopened
  <2>3. Counted'
    BY <2>1, <2>2 DEF Counted, Reopened, SameWork, SavedIn
  <2>4. TasksCount'
    BY <2>1, <2>2 DEF TasksCount, Reopened, SameWork
  <2>5. TurnCounts'
    BY <1>2, <2>1 DEF TurnCounts
  <2>6. MountCounts'
    BY <1>2, <2>1, <2>2 DEF MountCounts, Reopened, SameWork, SameCard
  <2> QED
    BY <2>3, <2>4, <2>5, <2>6
<1> QED
  BY <1>3, <1>4, <1>5, <1>6, <1>7, <1>8, <1>9, <1>10, <1>11 DEF Inv

LEMMA AcceptAnsweredKeeps ==
  ASSUME Inv, AcceptAnswered
  PROVE  Inv'
<1>1. /\ TypeOK /\ page \in Page /\ Sound /\ Plain(page)
  BY DEF Inv, TypeOK, Sound
<1>2. PICK q \in page.asked :
           /\ q.type = "accept" /\ UNCHANGED <<published, news, anchor, started>>
           /\ \/ UNCHANGED <<over, faults>> /\ page.pending # q.id /\ page' = Unasked(page, q)
              \/ UNCHANGED <<over, faults>> /\ page.pending = q.id /\ Kept(page, page', q)
              \/ /\ Lost(q) /\ Fails(q) /\ AsksLess(page, page', q)
                 /\ \/ Reopened(page, page', q)
                    \/ page.arrived = 0 /\ page'.arrived = 0 /\ Over(page, page')
  BY <1>1, AcceptAnsweredEffect
<1>3. CASE UNCHANGED <<over, faults>> /\ page.pending # q.id /\ page' = Unasked(page, q)
  <2>1. More
    BY <1>1, <1>3 DEF More, TypeOK
  <2> QED
    BY <1>2, <1>3, <2>1, UnaskedKeeps
<1>4. CASE UNCHANGED <<over, faults>> /\ page.pending = q.id /\ Kept(page, page', q)
  <2>1. UNCHANGED surroundings
    BY <1>2, <1>4 DEF surroundings
  <2> QED
    BY <1>2, <1>4, <2>1, KeptKeeps
<1>5. CASE /\ Lost(q) /\ Fails(q) /\ AsksLess(page, page', q)
           /\ \/ Reopened(page, page', q)
              \/ page.arrived = 0 /\ page'.arrived = 0 /\ Over(page, page')
  <2>1. /\ More /\ ("dismissed" \in faults' <=> "dismissed" \in faults)
        /\ "late" \notin faults' => q.id = page.current
        /\ {"late", "failure"} \cap faults' # {}
        /\ over' \subseteq over /\ over \subseteq over' \cup {q.id}
        /\ over' # over => \A p \in page.asked \ {q} : p.id # q.id
    BY <1>1, <1>5, FailsMore, LostFacts
  <2>2. CASE Reopened(page, page', q)
    BY <1>2, <1>5, <2>1, <2>2, ReopenedKeeps
  <2>3. CASE page.arrived = 0 /\ page'.arrived = 0 /\ Over(page, page')
    <3>1. over' \subseteq Sessions
      BY <1>1, <2>1 DEF TypeOK
    <3>2. /\ page'.asked = page.asked \ {q} /\ page'.accepted = page.accepted
          /\ page'.committed = page.committed
          /\ page'.pending = (IF page.pending = q.id THEN NoSession ELSE page.pending)
      BY <1>5 DEF AsksLess
    <3> QED
      BY <1>2, <2>1, <2>3, <3>1, <3>2, AnsweredOver
  <2> QED
    BY <1>5, <2>2, <2>3
<1> QED
  BY <1>2, <1>3, <1>4, <1>5

LEMMA DiscardAnsweredKeeps ==
  ASSUME Inv, DiscardAnswered
  PROVE  Inv'
<1>1. /\ TypeOK /\ page \in Page /\ Sound /\ Plain(page)
  BY DEF Inv, TypeOK, Sound
<1>2. PICK q \in page.asked :
           /\ q.type = "discard" /\ UNCHANGED <<published, news, anchor, started>>
           /\ \/ /\ UNCHANGED <<over, faults>> /\ Over(page, page')
                 /\ page'.asked = page.asked \ {q} /\ page'.pending = page.pending
                 /\ page'.accepted = page.accepted /\ page'.committed = page.committed
                 /\ page'.arrived = page.arrived /\ page'.visible = page.visible
              \/ Lost(q) /\ Goes(FALSE) /\ page' = Unasked(page, q)
  BY <1>1, DiscardAnsweredEffect
<1>3. CASE /\ UNCHANGED <<over, faults>> /\ Over(page, page')
           /\ page'.asked = page.asked \ {q} /\ page'.pending = page.pending
           /\ page'.accepted = page.accepted /\ page'.committed = page.committed
           /\ page'.arrived = page.arrived /\ page'.visible = page.visible
  <2>1. More /\ over' \subseteq Sessions
    BY <1>1, <1>3 DEF More, TypeOK
  <2> QED
    BY <1>2, <1>3, <2>1, AnsweredOver
<1>4. CASE Lost(q) /\ Goes(FALSE) /\ page' = Unasked(page, q)
  <2>1. /\ More /\ ("dismissed" \in faults' <=> "dismissed" \in faults)
        /\ over' \subseteq over /\ over \subseteq over' \cup {q.id}
        /\ over' # over => \A p \in page.asked \ {q} : p.id # q.id
    BY <1>1, <1>4, GoesMore, LostFacts
  <2>2. "late" \notin faults' => q.id = page.current
    BY <1>2, <2>1, AskedFacts
  <2> QED
    BY <1>2, <1>4, <2>1, <2>2, UnaskedKeeps
<1> QED
  BY <1>2, <1>3, <1>4

LEMMA RetryKeeps ==
  ASSUME Inv, Retry
  PROVE  Inv'
<1> DEFINE id == page.card.id
           file == IF page.card.file = NoSession THEN page.file ELSE page.card.file
<1>1. /\ TypeOK /\ page \in Page /\ Sound /\ Plain(page)
  BY DEF Inv, TypeOK, Sound
<1>2. /\ page.hasCard /\ id # NoSession
  BY <1>1, RetryEffect DEF Sound
<1>3. /\ UNCHANGED surroundings
      /\ IF page.card.id \in over THEN Strikes("late")
         ELSE Overlaps(Injecting(page) \cup Selecting(page))
      /\ page' \in Page /\ ~page'.hasCard /\ page'.card = NoCard /\ page'.saved = page.saved
      /\ SameAsks(page, page') /\ SameView(page, page') /\ page'.waiting = page.waiting
      /\ page'.current = page.current /\ page'.arrived = page.arrived /\ page'.file = page.file
      /\ \/ file = NoSession /\ SameMounts(page, page') /\ page'.state = page.state
         \/ /\ file # NoSession
            /\ page'.state = IF page.state = "CYCLING" THEN "CYCLING" ELSE "GENERATING"
            /\ \E i \in Slots : Injects(page, page', i, file, id)
  BY <1>1, <1>2, RetryEffect
<1>4. /\ More
      /\ \A kind \in {"failure", "dismissed"} : kind \in faults' <=> kind \in faults
      /\ "late" \notin faults' => page.card.id \notin over
      /\ {"late", "overlap"} \cap faults' = {} => Injecting(page) \cup Selecting(page) = {}
  <2>1. CASE page.card.id \in over
    BY <1>1, <1>3, <2>1, StrikesMore DEF Fault
  <2>2. CASE page.card.id \notin over
    BY <1>1, <1>3, <2>2, OverlapsMore
  <2> QED
    BY <2>1, <2>2
<1>5. PICK i \in Slots : \/ file = NoSession /\ SameMounts(page, page') /\ page'.state = page.state
                         \/ /\ file # NoSession
                            /\ page'.state = IF page.state = "CYCLING" THEN "CYCLING" ELSE "GENERATING"
                            /\ Injects(page, page', i, file, id)
  BY <1>3, Constants
<1>6. file = NoSession => page.file = NoSession
  OBVIOUS
<1>7. page.file # NoSession \/ page.current = NoSession \/ "dismissed" \in faults
  BY <1>2 DEF Inv, Filed
<1>8. "late" \notin faults' => /\ id = page.current /\ file \in {NoSession, page.current}
                               /\ page.asked = {} /\ page.pending = NoSession
  <2> SUFFICES ASSUME "late" \notin faults'
               PROVE  /\ id = page.current /\ file \in {NoSession, page.current}
                      /\ page.asked = {} /\ page.pending = NoSession
    OBVIOUS
  <2>1. PageOwn /\ CardOwn /\ AskedOwn /\ Pends
    BY <1>4, OwnNow
  <2>2. id = page.current /\ file \in {NoSession, page.current}
    BY <1>2, <1>4, <2>1 DEF CardOwn, PageOwn
  <2>3. page.asked = {}
    <3>1. page.current # NoSession /\ page.current \notin over
      BY <1>1, <1>2, <1>4, <2>1, <2>2 DEF CardOwn, Sound
    <3> QED
      BY <2>1, <3>1 DEF AskedOwn
  <2> QED
    BY <2>1, <2>2, <2>3 DEF Pends
<1> HIDE DEF id, file
<1>9. /\ page'.selection = page.selection /\ page'.preview = page.preview
      /\ \A k \in Slots \ {i} : page'.tasks[k] = page.tasks[k]
      /\ \/ file = NoSession /\ page'.tasks[i] = page.tasks[i] /\ page'.state = page.state
         \/ /\ file # NoSession
            /\ page'.state = IF page.state = "CYCLING" THEN "CYCLING" ELSE "GENERATING"
            /\ page.tasks[i].step = "idle" /\ page'.tasks[i].step = "manifest" /\ ~page'.tasks[i].own
            /\ page'.tasks[i].id = id /\ page'.tasks[i].file = file
  BY <1>5 DEF SameMounts, Injects, Others
<1>10. TypeOK'
  BY <1>1, <1>3, <1>4, TypeStep
<1>11. Sound'
  <2>1. Plain(page')
    BY <1>1, <1>9 DEF Plain
  <2> QED
    BY <1>1, <1>2, <1>3, <1>9, <2>1 DEF Sound, Turning
<1>12. Begun'
  BY <1>1, <1>3, <1>9, NoneBegun DEF Inv, Begun, NoCard, surroundings, id
<1>13. Filed'
  BY <1>3, <1>4, <1>7 DEF Filed
<1>14. Offer'
  <2>1. file = NoSession => page.current = NoSession \/ "dismissed" \in faults'
    BY <1>4, <1>6, <1>7
  <2> QED
    BY <1>3, <1>9, <2>1 DEF Offer, Working
<1>15. Own'
  <2> SUFFICES ASSUME "late" \notin faults'
               PROVE  (TasksOwn /\ PageOwn /\ CardOwn /\ AskedOwn)'
    BY DEF Own
  <2>1. TasksOwn /\ PageOwn
    BY <1>4, OwnNow
  <2>2. TasksOwn'
    BY <1>3, <1>8, <1>9, <2>1 DEF TasksOwn
  <2>3. PageOwn'
    BY <1>2, <1>3, <1>4, <1>8, <1>9, <2>1 DEF PageOwn, Turning
  <2>4. CardOwn' /\ AskedOwn'
    BY <1>3, <1>8 DEF CardOwn, AskedOwn, SameAsks
  <2> QED
    BY <2>2, <2>3, <2>4
<1>16. Accepting'
  <2> SUFFICES ASSUME "late" \notin faults' PROVE Pends'
    BY DEF Accepting
  <2>1. Pends
    BY <1>4, OwnNow
  <2> QED
    BY <1>3, <1>8, <2>1 DEF Pends, SameAsks
<1>17. Smooth'
  <2> SUFFICES ASSUME {"late", "failure"} \cap faults' = {} PROVE FALSE
    BY DEF Smooth
  <2> QED
    BY <1>2, <1>4, FlowsNow DEF Flows
<1>18. Compared'
  <2> SUFFICES ASSUME {"late", "overlap"} \cap faults' = {}
               PROVE  (Counted /\ TasksCount /\ TurnCounts /\ MountCounts)'
    BY DEF Compared
  <2>1. Counted /\ TasksCount /\ TurnCounts /\ MountCounts /\ PageOwn
    BY <1>4, CountsNow, OwnNow
  <2>2. ~Working(page) /\ ~Turning(page) /\ ~Turning(page')
    BY <1>1, <1>4, <1>9, QuietFacts DEF Turning
  <2>3. Counted'
    BY <1>3, <1>9, <2>1 DEF Counted, SameView, surroundings
  <2>4. TasksCount'
    BY <1>9, <2>2 DEF TasksCount, Working
  <2>5. TurnCounts'
    BY <2>2 DEF TurnCounts
  <2>6. MountCounts'
    <3>1. page'.state \in {"CYCLING", "SAVING"} /\ ~Working(page') => "dismissed" \in faults'
      <4>1. ~Working(page') => file = NoSession
        BY <1>9 DEF Working
      <4>2. page.state \in {"CYCLING", "SAVING"} => page.current # NoSession
        BY <2>1 DEF PageOwn
      <4> QED
        BY <1>4, <1>6, <1>7, <1>9, <4>1, <4>2
    <3> QED
      BY <1>3, <1>9, <2>1, <2>2, <3>1 DEF MountCounts, SameView
  <2> QED
    BY <2>3, <2>4, <2>5, <2>6
<1> QED
  BY <1>10, <1>11, <1>12, <1>13, <1>14, <1>15, <1>16, <1>17, <1>18 DEF Inv

LEMMA DismissKeeps ==
  ASSUME Inv, Dismiss
  PROVE  Inv'
<1>1. /\ TypeOK /\ page \in Page /\ Sound
  BY DEF Inv, TypeOK
<1>2. /\ page.hasCard /\ Strikes("dismissed") /\ UNCHANGED surroundings
      /\ page' \in Page /\ ~page'.hasCard /\ page'.card = NoCard /\ page'.saved = page.saved
      /\ SameWork(page, page') /\ SameAsks(page, page') /\ SameView(page, page')
      /\ page'.current = page.current /\ page'.arrived = page.arrived /\ page'.file = page.file
      /\ page'.state = IF page.state = "GENERATING" THEN "PICKING" ELSE page.state
  BY <1>1, DismissEffect
<1>3. More /\ "dismissed" \in faults'
  BY <1>1, <1>2, StrikesMore DEF Fault
<1>4. /\ Working(page') <=> Working(page)
      /\ Turning(page') <=> Turning(page)
  BY <1>2 DEF SameWork, Working, Turning
<1>5. TypeOK'
  BY <1>1, <1>2, <1>3, TypeStep
<1>6. Sound'
  BY <1>1, <1>2, <1>4 DEF Sound, Plain, SameWork
<1>7. Begun'
  BY <1>1, <1>2, NoneBegun DEF Inv, Begun, SameWork, NoCard, surroundings
<1>8. Filed' /\ Offer'
  BY <1>3 DEF Filed, Offer
<1>9. Own'
  <2> SUFFICES ASSUME "late" \notin faults'
               PROVE  (TasksOwn /\ PageOwn /\ CardOwn /\ AskedOwn)'
    BY DEF Own
  <2>1. TasksOwn /\ PageOwn /\ AskedOwn
    BY <1>3, OwnNow
  <2>2. TasksOwn'
    BY <1>2, <2>1 DEF TasksOwn, SameWork
  <2>3. PageOwn'
    BY <1>2, <1>3, <1>4, <2>1 DEF PageOwn, SameWork
  <2>4. CardOwn'
    BY <1>2 DEF CardOwn
  <2>5. AskedOwn'
    BY <1>2, <1>4, <2>1 DEF AskedOwn, SameWork, SameAsks, surroundings
  <2> QED
    BY <2>2, <2>3, <2>4, <2>5
<1>10. Accepting'
  <2> SUFFICES ASSUME "late" \notin faults' PROVE Pends'
    BY DEF Accepting
  <2>1. Pends
    BY <1>3, OwnNow
  <2>2. Named(page') = Named(page)
    BY <1>2 DEF Named, SameWork, SameView
  <2> QED
    BY <1>2, <2>1, <2>2 DEF Pends, SameAsks
<1>11. Smooth'
  <2> SUFFICES ASSUME {"late", "failure"} \cap faults' = {} PROVE FALSE
    BY DEF Smooth
  <2> QED
    BY <1>2, <1>3, FlowsNow DEF Flows
<1>12. Compared'
  <2> SUFFICES ASSUME {"late", "overlap"} \cap faults' = {}
               PROVE  (Counted /\ TasksCount /\ TurnCounts /\ MountCounts)'
    BY DEF Compared
  <2>1. Counted /\ TasksCount /\ TurnCounts /\ MountCounts
    BY <1>3, CountsNow
  <2>2. Counted'
    BY <1>2, <2>1 DEF Counted, SameWork, SameView, surroundings
  <2>3. TasksCount'
    BY <1>2, <2>1 DEF TasksCount, SameWork, SameView, surroundings
  <2>4. TurnCounts'
    BY <1>2, <1>4, <2>1 DEF TurnCounts, SameWork, SameView
  <2>5. MountCounts'
    BY <1>2, <1>3, <1>4, <2>1 DEF MountCounts, SameWork, SameView
  <2> QED
    BY <2>2, <2>3, <2>4, <2>5
<1> QED
  BY <1>5, <1>6, <1>7, <1>8, <1>9, <1>10, <1>11, <1>12 DEF Inv

\* The page is left alone; what the agent has published only grows, and no news
\* comes of a session the helper was asked to end.
LEMMA AroundKeeps ==
  ASSUME Inv, TypeOK', More, "dismissed" \in faults' <=> "dismissed" \in faults,
         UNCHANGED <<page, over, started>>,
         \A s \in news' : s \in news \/ s \notin over,
         \A s \in Sessions : published[s] <= published'[s]
  PROVE  Inv'
<1>1. /\ TypeOK /\ page \in Page /\ Sound
  BY DEF Inv, TypeOK
<1>2. \A s \in Sessions : \A n \in Nat : n <= published[s] => n <= published'[s]
  <2> SUFFICES ASSUME NEW s \in Sessions, NEW n \in Nat, n <= published[s]
               PROVE  n <= published'[s]
    OBVIOUS
  <2>1. published[s] \in Nat /\ published'[s] \in Nat
    BY <1>1, Constants DEF TypeOK
  <2> QED
    BY <2>1
<1>3. Sound' /\ Begun' /\ Filed' /\ Offer'
  BY DEF Inv, Sound, Plain, Begun, Filed, Offer, Working, Turning
<1>4. Own'
  <2> SUFFICES ASSUME "late" \notin faults'
               PROVE  (TasksOwn /\ PageOwn /\ CardOwn /\ AskedOwn)'
    BY DEF Own
  <2>1. TasksOwn /\ PageOwn /\ CardOwn /\ AskedOwn
    BY OwnNow
  <2>2. TasksOwn' /\ PageOwn' /\ CardOwn'
    BY <2>1 DEF TasksOwn, PageOwn, CardOwn, Turning
  <2>3. AskedOwn'
    BY <2>1 DEF AskedOwn, Working, Turning
  <2> QED
    BY <2>2, <2>3
<1>5. Accepting'
  BY OwnNow DEF Accepting, Pends
<1>6. Smooth'
  <2> SUFFICES ASSUME {"late", "failure"} \cap faults' = {} PROVE Flows'
    BY DEF Smooth
  <2> QED
    BY FlowsNow DEF Flows
<1>7. Compared'
  <2> SUFFICES ASSUME {"late", "overlap"} \cap faults' = {}
               PROVE  (Counted /\ TasksCount /\ TurnCounts /\ MountCounts)'
    BY DEF Compared
  <2>1. Counted /\ TasksCount /\ TurnCounts /\ MountCounts
    BY CountsNow
  <2>2. /\ page.current # NoSession => page.current \in Sessions
        /\ page.saved.id # NoSession => page.saved.id \in Sessions
        /\ page.visible \in Nat /\ page.saved.visible \in Nat /\ page.arrived \in Nat
    BY <1>1, PageFacts DEF Maybe
  <2>3. /\ page.current # NoSession => page.visible <= 1 \/ page.visible <= published'[page.current]
        /\ page.saved.id # NoSession =>
             page.saved.visible <= 1 \/ page.saved.visible <= published'[page.saved.id]
    BY <1>2, <2>1, <2>2 DEF Counted
  <2>4. page.current # NoSession /\ page.arrived <= published[page.current]
          => page.arrived <= published'[page.current]
    BY <1>2, <2>2
  <2>5. Counted'
    BY <2>1, <2>3, <2>4 DEF Counted
  <2>6. TasksCount'
    <3> SUFFICES ASSUME NEW i \in Slots, page.tasks[i].step = "params"
                 PROVE  page.tasks[i].variant <= published'[page.tasks[i].id]
      BY <2>1 DEF TasksCount
    <3>1. page.tasks[i].id \in Sessions /\ page.tasks[i].variant \in Nat
      BY <1>1, PageFacts DEF Sound, Maybe
    <3> QED
      BY <1>2, <2>1, <3>1 DEF TasksCount
  <2>7. TurnCounts' /\ MountCounts'
    BY <2>1 DEF TurnCounts, MountCounts, Working, Turning
  <2> QED
    BY <2>5, <2>6, <2>7
<1> QED
  BY <1>3, <1>4, <1>5, <1>6, <1>7 DEF Inv

LEMMA PublishKeeps ==
  ASSUME Inv, NEW s \in Sessions, Publish(s)
  PROVE  Inv'
<1>1. TypeOK
  BY DEF Inv
<1>2. PICK n \in 1..Count :
        /\ s \notin over /\ n >= published[s]
        /\ UNCHANGED faults \/ Strikes("republish")
        /\ published' = [published EXCEPT ![s] = n] /\ news' = news \cup {s}
        /\ UNCHANGED <<page, over, anchor, started>>
  BY DEF Publish
<1>3. More /\ ("dismissed" \in faults' <=> "dismissed" \in faults)
  BY <1>1, <1>2, StrikesMore DEF More, TypeOK, Fault
<1>4. n \in Nat /\ n \in 0..Count /\ \A k \in Sessions : published[k] \in Nat
  BY <1>1, Constants DEF TypeOK
<1>5. \A k \in Sessions : published[k] <= published'[k]
  BY <1>1, <1>2, <1>4 DEF TypeOK
<1>6. TypeOK'
  BY <1>1, <1>2, <1>3, <1>4 DEF TypeOK, More
<1> QED
  BY <1>2, <1>3, <1>5, <1>6, AroundKeeps

LEMMA PublishedStays ==
  ASSUME TypeOK
  PROVE  \A s \in Sessions : published[s] <= published[s]
<1>1. \A s \in Sessions : published[s] \in Nat
  BY Constants DEF TypeOK
<1> QED
  BY <1>1

LEMMA MoveKeeps ==
  ASSUME Inv, Move
  PROVE  Inv'
<1>1. TypeOK
  BY DEF Inv
<1>2. /\ UNCHANGED faults \/ Strikes("route")
      /\ anchor' = ~anchor /\ UNCHANGED <<page, published, news, over, started>>
  BY DEF Move
<1>3. More /\ ("dismissed" \in faults' <=> "dismissed" \in faults)
  BY <1>1, <1>2, StrikesMore DEF More, TypeOK, Fault
<1>4. TypeOK'
  BY <1>1, <1>2, <1>3 DEF TypeOK, More
<1> QED
  BY <1>1, <1>2, <1>3, <1>4, PublishedStays, AroundKeeps

LEMMA StutterKeeps ==
  ASSUME Inv, UNCHANGED vars
  PROVE  Inv'
<1>1. TypeOK
  BY DEF Inv
<1>2. UNCHANGED <<page, published, news, over, anchor, started, faults>>
  BY DEF vars
<1>3. TypeOK' /\ More
  BY <1>1, <1>2 DEF TypeOK, More
<1> QED
  BY <1>1, <1>2, <1>3, PublishedStays, AroundKeeps

LEMMA HearKeeps ==
  ASSUME Inv, NEW s \in Sessions, Hear(s)
  PROVE  Inv'
<1>1. /\ TypeOK /\ page \in Page /\ Sound /\ Plain(page) /\ s # NoSession
  BY Constants DEF Inv, TypeOK, Sound
<1>2. /\ s \in news /\ news' = news \ {s} /\ UNCHANGED <<published, over, anchor, started>>
      /\ \/ /\ page.current = s /\ Overlaps(Selecting(page))
            /\ page' \in Page /\ page'.file = s /\ page'.waiting = page.waiting
            /\ page'.saved = page.saved /\ SameCard(page, page') /\ SameAsks(page, page')
            /\ SameView(page, page') /\ page'.state = page.state /\ page'.current = page.current
            /\ page'.arrived = page.arrived
            /\ \E i \in Slots : Injects(page, page', i, s, s)
         \/ page.current # s /\ UNCHANGED <<page, faults>>
  BY <1>1, HearEffect
<1>3. CASE page.current # s /\ UNCHANGED <<page, faults>>
  <2>1. TypeOK' /\ More
    BY <1>1, <1>2, <1>3 DEF TypeOK, More
  <2> QED
    BY <1>1, <1>2, <1>3, <2>1, PublishedStays, AroundKeeps
<1>4. CASE page.current = s
  <2>1. /\ Overlaps(Selecting(page))
        /\ page' \in Page /\ page'.file = s /\ page'.waiting = page.waiting
        /\ page'.saved = page.saved /\ SameCard(page, page') /\ SameAsks(page, page')
        /\ SameView(page, page') /\ page'.state = page.state /\ page'.current = page.current
        /\ page'.arrived = page.arrived
    BY <1>2, <1>4
  <2>2. PICK i \in Slots : Injects(page, page', i, s, s)
    BY <1>2, <1>4
  <2>3. /\ page.tasks[i].step = "idle" /\ page'.tasks[i].step = "manifest" /\ ~page'.tasks[i].own
        /\ page'.tasks[i].id = s /\ page'.tasks[i].file = s
        /\ \A k \in Slots \ {i} : page'.tasks[k] = page.tasks[k]
        /\ page'.selection = page.selection /\ page'.preview = page.preview /\ Working(page')
    BY <2>2 DEF Injects, Others, Working
  <2>4. /\ More
        /\ "overlap" \notin faults' => Selecting(page) = {}
        /\ \A kind \in {"late", "failure", "dismissed"} : kind \in faults' <=> kind \in faults
    BY <1>1, <2>1, OverlapsMore
  <2>5. TypeOK'
    BY <1>1, <1>2, <2>1, <2>4 DEF TypeOK, More
  <2>6. Sound'
    <3>1. Plain(page')
      BY <1>1, <2>3 DEF Plain
    <3> QED
      BY <1>1, <2>1, <2>3, <3>1 DEF Sound, SameCard, Turning
  <2>7. Begun'
    BY <1>2, <1>4, <2>1, <2>3 DEF Inv, Begun, SameCard
  <2>8. Filed' /\ Offer'
    BY <1>1, <2>1, <2>3 DEF Filed, Offer
  <2>9. Own'
    <3> SUFFICES ASSUME "late" \notin faults'
                 PROVE  (TasksOwn /\ PageOwn /\ CardOwn /\ AskedOwn)'
      BY DEF Own
    <3>1. TasksOwn /\ PageOwn /\ CardOwn /\ AskedOwn
      BY <2>4, OwnNow
    <3>2. page.asked = {}
      BY <1>1, <1>2, <1>4, <3>1 DEF AskedOwn
    <3>3. TasksOwn'
      BY <1>4, <2>1, <2>3, <3>1 DEF TasksOwn
    <3>4. PageOwn'
      BY <1>4, <2>1, <2>3, <2>4, <3>1 DEF PageOwn, Turning
    <3>5. CardOwn' /\ AskedOwn'
      BY <1>2, <2>1, <3>1, <3>2 DEF CardOwn, AskedOwn, SameCard, SameAsks
    <3> QED
      BY <3>3, <3>4, <3>5
  <2>10. Accepting'
    <3> SUFFICES ASSUME "late" \notin faults' PROVE Pends'
      BY DEF Accepting
    <3>1. Pends
      BY <2>4, OwnNow
    <3>2. page.asked = {}
      BY <1>1, <1>2, <1>4, <2>4, OwnNow DEF AskedOwn
    <3> QED
      BY <2>1, <3>1, <3>2 DEF Pends, SameAsks
  <2>11. Smooth'
    <3> SUFFICES ASSUME {"late", "failure"} \cap faults' = {} PROVE Flows'
      BY DEF Smooth
    <3>1. Flows
      BY <2>4, FlowsNow
    <3>2. PICK k \in Slots : page.preview.id # NoSession /\ page.preview.shown = 0
                               => page.tasks[k].step = "mount"
      BY <3>1, <2>2 DEF Flows
    <3>3. page'.preview.id # NoSession /\ page'.preview.shown = 0 => page'.tasks[k].step = "mount"
      BY <2>3, <3>2
    <3> QED
      BY <2>1, <2>3, <2>4, <3>1, <3>3 DEF Flows, SameCard
  <2>12. Compared'
    <3> SUFFICES ASSUME {"late", "overlap"} \cap faults' = {}
                 PROVE  (Counted /\ TasksCount /\ TurnCounts /\ MountCounts)'
      BY DEF Compared
    <3>1. Counted /\ TasksCount /\ MountCounts
      BY <2>4, CountsNow
    <3>2. ~Turning(page) /\ ~Turning(page')
      BY <1>1, <2>3, <2>4, QuietFacts DEF Turning
    <3>3. Counted'
      BY <1>2, <2>1, <2>3, <3>1 DEF Counted, SameView
    <3>4. TasksCount'
      BY <1>2, <2>1, <2>3, <3>1 DEF TasksCount, SameView
    <3>5. TurnCounts' /\ MountCounts'
      BY <2>1, <2>3, <3>1, <3>2 DEF TurnCounts, MountCounts, SameView
    <3> QED
      BY <3>3, <3>4, <3>5
  <2> QED
    BY <2>5, <2>6, <2>7, <2>8, <2>9, <2>10, <2>11, <2>12 DEF Inv
<1> QED
  BY <1>2, <1>3, <1>4

LEMMA ReloadKeeps ==
  ASSUME Inv, Reload
  PROVE  Inv'
<1>1. /\ TypeOK /\ page \in Page /\ Sound
  BY DEF Inv, TypeOK
<1>2. /\ Strikes("reload") /\ UNCHANGED surroundings /\ Blank(page')
      /\ \/ /\ page'.state = "PICKING" /\ page'.current = NoSession /\ page'.file = NoSession
            /\ page'.saved = NoSaved /\ page'.arrived = 0 /\ page'.visible = 0
            /\ \A k \in Slots : page'.tasks[k] = Idle
         \/ /\ Restored(page, page')
            /\ \/ page.saved.file = NoSession /\ \A k \in Slots : page'.tasks[k] = Idle
               \/ /\ page.saved.file # NoSession /\ page'.tasks[1].step = "manifest"
                  /\ page'.tasks[1].file = page.saved.file /\ page'.tasks[1].id = page.saved.id
                  /\ ~page'.tasks[1].own
                  /\ \A k \in Slots \ {1} : page'.tasks[k] = Idle
  BY <1>1, ReloadEffect
<1>3. /\ More
      /\ \A kind \in {"late", "overlap", "failure", "dismissed"} : kind \in faults' <=> kind \in faults
  BY <1>1, <1>2, StrikesMore DEF Fault
<1>4. /\ page' \in Page /\ page'.preview = NoPreview /\ page'.waiting = NoSession /\ page'.card = NoCard
      /\ ~page'.hasCard /\ page'.pending = NoSession /\ page'.committed = 0 /\ page'.asked = {}
      /\ page'.selection = NoSelection /\ ~Turning(page')
  BY <1>2 DEF Blank, Turning, NoSelection
\* Of what is begun and what is taken up again.
<1>5. \A k \in Slots :
        \/ page'.tasks[k] = Idle
        \/ /\ page'.tasks[k].step = "manifest" /\ ~page'.tasks[k].own
           /\ page'.tasks[k].id = page.saved.id /\ page'.tasks[k].file = page.saved.file
           /\ page.saved.file # NoSession /\ page.saved.id # NoSession
           /\ page'.current = page.saved.id /\ page'.file = page.saved.file
  <2>1. CASE \A k \in Slots : page'.tasks[k] = Idle
    BY <2>1
  <2>2. CASE /\ Restored(page, page')
             /\ page.saved.file # NoSession /\ page'.tasks[1].step = "manifest"
             /\ page'.tasks[1].file = page.saved.file /\ page'.tasks[1].id = page.saved.id
             /\ ~page'.tasks[1].own
             /\ \A k \in Slots \ {1} : page'.tasks[k] = Idle
    <3>1. page.saved.id # NoSession /\ page'.current = page.saved.id /\ page'.file = page.saved.file
      BY <2>2 DEF Restored
    <3> QED
      BY <2>2, <3>1
  <2> QED
    BY <1>2, <2>1, <2>2
<1>6. \/ page'.state = "PICKING" /\ page'.current = NoSession /\ page'.file = NoSession
         /\ page'.saved = NoSaved
      \/ /\ page.saved.id # NoSession /\ page'.current = page.saved.id /\ page'.state = "GENERATING"
         /\ page'.bar /\ page'.file = page.saved.file
         /\ page'.saved.id = page'.current /\ page'.saved.file = page'.file
  BY <1>2 DEF Restored
<1>7. /\ \A k \in Slots : page'.tasks[k].step \in {"idle", "manifest"}
      /\ Working(page') => page'.file # NoSession
  BY <1>5 DEF Working, Idle
<1>8. TypeOK'
  BY <1>1, <1>2, <1>3, <1>4, TypeStep
<1>9. Sound'
  <2>1. Plain(page')
    BY <1>4, <1>5 DEF Plain, NoPreview, NoSelection, Idle
  <2>2. \A k \in Slots :
          /\ page'.tasks[k].step = "idle" <=> page'.tasks[k].id = NoSession
          /\ page'.tasks[k].step # "idle" => page'.tasks[k].file # NoSession
    BY <1>5 DEF Idle
  <2> QED
    BY <1>4, <2>1, <2>2 DEF Sound, Turning, NoSelection
<1>10. Begun'
  BY <1>1, <1>2, <1>4, <1>5, <1>6, NoneBegun DEF Inv, Begun, surroundings, NoPreview,
     NoSelection, NoCard, NoSaved, Idle
<1>11. Filed' /\ Offer'
  BY <1>4, <1>6, <1>7 DEF Filed, Offer, NoPreview
<1>12. Own'
  <2> SUFFICES ASSUME "late" \notin faults'
               PROVE  (TasksOwn /\ PageOwn /\ CardOwn /\ AskedOwn)'
    BY DEF Own
  <2>1. PageOwn
    BY <1>3, OwnNow
  <2>2. page.saved.file # NoSession => page.saved.file = page.saved.id
    BY <2>1 DEF PageOwn
  <2>3. TasksOwn'
    BY <1>5, <1>7, <2>2 DEF TasksOwn, Idle
  <2>4. PageOwn'
    BY <1>4, <1>6, <2>2 DEF PageOwn, NoSaved
  <2>5. CardOwn' /\ AskedOwn'
    BY <1>4 DEF CardOwn, AskedOwn
  <2> QED
    BY <2>3, <2>4, <2>5
<1>13. Accepting'
  BY <1>4 DEF Accepting, Pends
<1>14. Smooth'
  <2> SUFFICES ASSUME {"late", "failure"} \cap faults' = {} PROVE Flows'
    BY DEF Smooth
  <2>1. "dismissed" \notin faults'
    BY <1>3, FlowsNow DEF Flows
  <2> QED
    BY <1>4, <1>7, <2>1 DEF Flows, NoPreview, NoSelection
<1>15. Compared'
  <2> SUFFICES ASSUME {"late", "overlap"} \cap faults' = {}
               PROVE  (Counted /\ TasksCount /\ TurnCounts /\ MountCounts)'
    BY DEF Compared
  <2>1. Counted
    BY <1>3, CountsNow
  <2>2. page.saved.arrived \in Nat /\ page.saved.visible \in Nat
    BY <1>1, Constants DEF Page, Saved
  <2> DEFINE Mounting == \E k \in Slots : page'.tasks[k].step \in {"mount", "explain"}
  <2> HIDE DEF Mounting
  <2>8. ~Mounting
    BY <1>7 DEF Mounting
  <2>5. Counted'
    <3>1. CASE /\ page'.current = NoSession /\ page'.saved = NoSaved
               /\ page'.arrived = 0 /\ page'.visible = 0 /\ page'.state = "PICKING"
      BY <3>1, <2>8 DEF Counted, NoSaved, Mounting
    <3>2. CASE Restored(page, page')
      <4> DEFINE n == IF page.saved.arrived = 0 /\ page.saved.file # NoSession THEN Count ELSE page.saved.arrived
      <4>1. /\ page.saved.id # NoSession /\ page'.current = page.saved.id /\ page'.state = "GENERATING"
            /\ page'.arrived = n
            /\ page'.visible = IF page.saved.visible \in 1..n THEN page.saved.visible ELSE IF n > 0 THEN 1 ELSE 0
            /\ page'.saved.id = page'.current /\ page'.saved.visible = page'.visible
        BY <3>2 DEF Restored
      <4>2. n \in Nat
        BY <2>2, Constants
      <4> HIDE DEF n
      <4>3. page'.arrived > 0 => page'.visible \in 1..page'.arrived
        BY <4>1, <4>2
      <4>4. page'.visible <= 1 \/ page'.visible = page.saved.visible
        BY <4>1, <4>2
      <4>5. page'.visible <= 1 \/ page'.visible <= published'[page'.current]
        BY <1>2, <2>1, <4>1, <4>4 DEF Counted, surroundings
      <4> QED
        BY <2>8, <4>1, <4>3, <4>5 DEF Counted, Mounting
    <3> QED
      BY <1>2, <3>1, <3>2
  <2>6. TasksCount' /\ TurnCounts'
    BY <1>4, <1>7 DEF TasksCount, TurnCounts
  <2>7. MountCounts'
    BY <1>4, <1>6 DEF MountCounts, NoPreview
  <2> QED
    BY <2>5, <2>6, <2>7
<1> QED
  BY <1>8, <1>9, <1>10, <1>11, <1>12, <1>13, <1>14, <1>15 DEF Inv

-----------------------------------------------------------------------------
(* The invariant, and what follows from it. *)

LEMMA InvInit == Init => Inv
<1> SUFFICES ASSUME Init PROVE Inv
  OBVIOUS
<1>1. /\ published = [s \in Sessions |-> 0] /\ news = {} /\ over = {}
      /\ anchor = TRUE /\ started = 0 /\ faults = {}
      /\ page = [state |-> "PICKING", current |-> NoSession, arrived |-> 0, visible |-> 0,
                 file |-> NoSession, tune |-> "idle", preview |-> NoPreview, waiting |-> NoSession,
                 card |-> NoCard, hasCard |-> FALSE, bar |-> FALSE, pending |-> NoSession,
                 accepted |-> 0, committed |-> 0, saved |-> NoSaved, handled |-> {},
                 waits |-> {}, asked |-> {},
                 tasks |-> [i \in Slots |-> Idle], selection |-> NoSelection]
  BY DEF Init, Fresh
<1>2. \A i \in Slots : page.tasks[i] = Idle
  BY <1>1
<1>3. ~Working(page) /\ ~Turning(page)
  BY <1>1, <1>2 DEF Working, Turning, Idle, NoSelection
<1>4. page \in Page
  <2>1. [i \in Slots |-> Idle] \in [Slots -> Task]
    BY Constants
  <2> QED
    BY <1>1, <2>1, Constants DEF Page, State, Tune
<1>5. TypeOK
  BY <1>1, <1>4, Constants, BoundsAssumption DEF TypeOK
<1>6. Sound /\ Begun /\ Filed /\ Offer
  BY <1>1, <1>2, <1>3, Constants DEF Sound, Plain, Begun, Filed, Offer, NoPreview, NoCard, NoSaved,
     NoSelection, Idle
<1>7. Own /\ Accepting /\ Smooth
  BY <1>1, <1>2, <1>3 DEF Own, TasksOwn, PageOwn, CardOwn, AskedOwn, Accepting, Pends, Smooth, Flows,
     NoPreview, NoSaved, NoSelection, Idle
<1>8. Compared
  BY <1>1, <1>2, <1>3 DEF Compared, Counted, TasksCount, TurnCounts, MountCounts, NoPreview, NoSaved, Idle
<1> QED
  BY <1>5, <1>6, <1>7, <1>8 DEF Inv

LEMMA InvNext == Inv /\ [Next]_vars => Inv'
<1> SUFFICES ASSUME Inv, [Next]_vars PROVE Inv'
  OBVIOUS
<1>1. CASE Go
  BY <1>1, GoKeeps
<1>2. CASE SelectVariant
  BY <1>2, SelectVariantKeeps
<1>3. CASE Accept
  BY <1>3, AcceptKeeps
<1>4. CASE Discard
  BY <1>4, DiscardKeeps
<1>5. CASE Retry
  BY <1>5, RetryKeeps
<1>6. CASE Dismiss
  BY <1>6, DismissKeeps
<1>7. CASE AcceptAnswered
  BY <1>7, AcceptAnsweredKeeps
<1>8. CASE DiscardAnswered
  BY <1>8, DiscardAnsweredKeeps
<1>9. CASE SelectionMounts
  BY <1>9, SelectionMountsKeeps
<1>10. CASE SelectionExplains
  BY <1>10, SelectionExplainsKeeps
<1>11. CASE AnchorFound
  BY <1>11, AnchorFoundKeeps
<1>12. CASE Move
  BY <1>12, MoveKeeps
<1>13. CASE Reload
  BY <1>13, ReloadKeeps
<1>14. ASSUME NEW i \in Slots, ManifestRead(i) \/ ParamsRead(i) \/ TaskMounts(i) \/ TaskExplains(i)
       PROVE  Inv'
  BY <1>14, ManifestReadKeeps, ParamsReadKeeps, TaskMountsKeeps, TaskExplainsKeeps
<1>15. ASSUME NEW s \in Sessions, Publish(s) \/ Hear(s) PROVE Inv'
  BY <1>15, PublishKeeps, HearKeeps
<1>16. CASE UNCHANGED vars
  BY <1>16, StutterKeeps
<1>17. CASE AcceptGoesOn
  BY <1>17, AcceptGoesOnKeeps
<1> QED
  BY <1>1, <1>2, <1>3, <1>4, <1>5, <1>6, <1>7, <1>8, <1>9, <1>10, <1>11, <1>12, <1>13, <1>14,
     <1>15, <1>16, <1>17 DEF Next

LEMMA Invariant == Spec => []Inv
BY InvInit, InvNext, PTL DEF Spec

\* The page's record, its preview, card and tasks keep to the values the overlay
\* gives them, whatever is awaited when.
THEOREM TypeCorrect == Spec => []TypeOK
<1>1. Inv => TypeOK
  BY DEF Inv
<1> QED
  BY <1>1, Invariant, PTL

\* acceptCurrentVariant names the variant that is mounted, and that is the one the
\* answer leaves in the page: no mount, retry or reload comes between them, unless
\* a session was ended, or gone on with, while something of it was under way.
THEOREM AcceptCommitsWhatItNamed == Spec => []AcceptedIsCommitted
<1>1. Inv => AcceptedIsCommitted
  BY DEF Inv, Accepting, Pends, AcceptedIsCommitted, Met
<1> QED
  BY <1>1, Invariant, PTL

\* cleanup(), the committed accept and the discard each take the preview of the page's
\* session with them, so that none is left for the next Pick and Go.
THEOREM PreviewGoesWithItsSession == Spec => []NothingLingers
<1>1. Inv => NothingLingers
  <2> SUFFICES ASSUME Inv, page.preview # NoPreview, ~Met({"late", "failure"})
               PROVE  page.preview.id = page.current
    BY DEF NothingLingers
  <2>1. Flows /\ Plain(page)
    BY DEF Inv, Smooth, Sound, Met
  <2> QED
    BY <2>1 DEF Flows, Plain
<1> QED
  BY <1>1, Invariant, PTL

\* abortSvelteComponentInjection hides the bar only for a failure that is explained
\* by a card, and no later step takes the card away without bringing the bar back or
\* beginning an injection: only a user who waves the card away is left with nothing
\* to press.
THEOREM SomethingToPress == Spec => []RecoveryOffered
<1>1. Inv => RecoveryOffered
  <2> SUFFICES ASSUME Inv, page.state \in {"GENERATING", "CYCLING"}, Quiet, ~page.bar,
                      page.current = NoSession => ~Met({"late"})
               PROVE  Explained
    BY DEF RecoveryOffered
  <2>1. ~Working(page) /\ ~Turning(page)
    BY QuietFacts DEF Inv, Quiet
  <2>2. page.current # NoSession
    <3>1. CASE page.current = NoSession
      <4>1. PageOwn
        BY <3>1 DEF Inv, Own, Met
      <4> QED
        BY <4>1 DEF PageOwn
    <3> QED
      BY <3>1
  <2> QED
    BY <2>1, <2>2 DEF Inv, Offer, Explained, Met
<1> QED
  BY <1>1, Invariant, PTL

\* An open comparison at rest counts what is mounted, in the preview of its own
\* session, or has a card that says why not: whichever read, import or mount came
\* back last, and however often the agent published meanwhile.
THEOREM ComparisonIsTrue == Spec => []ComparisonShown
<1>1. Inv => ComparisonShown
  <2> SUFFICES ASSUME Inv, page.state = "CYCLING", Quiet, ~Met({"late", "overlap"}), ~Explained
               PROVE  /\ page.preview.id = page.current /\ page.visible = page.preview.mounted
                      /\ Met({"failure"}) \/ page.visible = page.preview.shown
    BY DEF ComparisonShown
  <2>1. ~Working(page) /\ ~Turning(page)
    BY QuietFacts DEF Inv, Quiet
  <2>2. "late" \notin faults /\ ~page.hasCard /\ "dismissed" \notin faults
    BY DEF Met, Explained
  <2>3. MountCounts /\ PageOwn
    BY <2>2 DEF Inv, Compared, Own, Met
  <2>4. page.current # NoSession
    BY <2>3 DEF PageOwn
  <2>5. page.preview.id = page.current /\ page.preview.mounted # 0 /\ page.visible = page.preview.mounted
    BY <2>1, <2>2, <2>3, <2>4 DEF MountCounts
  <2>6. CASE "failure" \notin faults
    <3>1. Flows /\ Plain(page)
      BY <2>2, <2>6 DEF Inv, Smooth, Sound
    <3>2. page.preview.shown # 0
      BY <2>1, <2>4, <2>5, <3>1 DEF Flows, Working
    <3> QED
      BY <2>5, <3>1, <3>2 DEF Plain
  <2> QED
    BY <2>5, <2>6 DEF Met
<1> QED
  BY <1>1, Invariant, PTL
=============================================================================
