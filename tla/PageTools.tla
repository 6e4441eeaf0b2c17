------------------------------- MODULE PageTools -------------------------------
(***************************************************************************)
(* The tools of live mode that act on the page: pick, insert, and the      *)
(* targets an agent asks the page to pick and generate for, which the      *)
(* helper hands to one of the tabs that show the page                      *)
(* (.skills/impeccable/scripts/live-browser.js).                           *)
(*                                                                         *)
(* A tab pursues a target in a loop of its own: timers, claims under way   *)
(* and their answers interleave with the user, with the other targets and  *)
(* with the other tabs.  The helper is external: it does what the page     *)
(* asks of it and expects of it, and a lease lapses when nothing of its    *)
(* holder is under way.  Of a session only its start, its wrapper, its     *)
(* variants and its end are here.                                          *)
(***************************************************************************)
EXTENDS InsertPlacement

CONSTANTS
  Tabs,
  Targets,
  Dry,          \* the targets that only ask what would be picked
  AgentPick,    \* the sibling that agent targets name
  Drags,        \* how the placeholder may be dragged: [edge, dx, dy]
  Settings,     \* what a run starts from; see Setting
  NoTab,        \* not a tab: the lease is free
  GoneTab,      \* not a tab: the lease is held by a page that was closed
  MaxLoops,     \* bound on the loops of one tab about one target
  MaxGos        \* bound on the sessions started for one target

\* A layout also has the points the pointer may be at: [over, x, y], over a sibling.
Setting(s) ==
  /\ s.tabs \subseteq Tabs /\ s.targets \subseteq Targets
  /\ s.layout.width \in Nat /\ s.layout.share \in Nat
  /\ s.user \in Nat /\ s.trouble \in Nat /\ s.insert \in BOOLEAN

ASSUME ToolsAssumption ==
  /\ Dry \subseteq Targets /\ NoTab \notin Tabs /\ GoneTab \notin Tabs /\ NoTab # GoneTab
  /\ MaxLoops \in Nat \ {0} /\ MaxGos \in Nat \ {0}
  /\ \A d \in Drags : d.dx \in Int /\ d.dy \in Int
  /\ \A s \in Settings : Setting(s) /\ AgentPick \in Range(s.layout.siblings)

\* Trouble: a lease lapses, or a report lands, later than what followed it; a reload
\* takes a result with it; the page is reloaded, closed, reconnected, rendered
\* without the element; the agent's request times out; a request of a tab fails; the
\* user or an apply does something while the tab acts on a target; a second loop is
\* after a target in one tab.  Two are no trouble to count: a tab stands down because
\* its lease is not renewed, and an apply waits for the user to decide about it.
Fault == {"late", "lost", "reload", "exit", "reconnect", "rerender", "timeout", "unreached",
          "rushed", "twice", "stood", "decision"}

VARIABLES
  tabs,      \* the overlay of each tab; see Page
  helper,    \* what the helper knows of each target; see Request
  gos,       \* how many sessions were started for each target
  setting,   \* one of Settings
  asked,     \* what the user has done
  faults     \* the trouble there has been
vars == <<tabs, helper, gos, setting, asked, faults>>

layout   == setting.layout
Points   == layout.points
Elements == UNION {Range(s.layout.siblings) : s \in Settings}
None     == "none"
NoBox    == [anchor |-> None]
Holders  == Tabs \cup {NoTab, GoneTab}

\* One pursuit of a target: a timer before a claim, a claim and its answer, the
\* scroll, the renewal and its answer, a report and its answer, the timer before
\* the next look, or a report that is not followed.
Loop == [target : Targets, n : 1..MaxLoops + 1,
         at : {"timer", "claim", "answered", "scroll", "renew", "renewed",
               "report", "reported", "watch", "busy"},
         says : {"none", "granted", "held", "over"}]

Word == {"none", "heard", "declined", "denied", "acting", "done"}

\* GENERATING and CYCLING stand for every state of a session.  "line" is the point
\* where the insertion line was last shown, "box" the placeholder, "there" whether
\* it is in the document, "kept" the snapshot that recreates it.
PageTypeOK(p) ==
  /\ p.up \in BOOLEAN /\ p.pick \in BOOLEAN /\ p.insert \in BOOLEAN /\ p.locked \in BOOLEAN
  /\ p.state \in {"IDLE", "PICKING", "CONFIGURING", "GENERATING", "CYCLING"}
  /\ p.kind \in {"replace", "insert"}
  /\ p.selected \in Elements \cup {None, "placeholder"} /\ p.hovered \in Elements \cup {None}
  /\ p.line \in DOMAIN Points \cup {0}
  /\ p.box.anchor \in Elements \cup {None} /\ p.kept.anchor \in Elements \cup {None}
  /\ p.there \in BOOLEAN /\ p.session \in Nat /\ p.mode \in {"replace", "insert"}
  /\ p.wrapped \in BOOLEAN /\ p.shows \in BOOLEAN
  /\ p.seen \in [Targets -> Word] /\ p.declined \subseteq Targets /\ p.loops \subseteq Loop

\* step, the lease, the tabs that reported, those yet to be told, and those whose
\* result is under way.
Request == [step : {"unasked", "pending", "over"}, holder : Holders,
            words : SUBSET Tabs, unheard : SUBSET Tabs, posts : SUBSET Tabs]

TypeOK ==
  /\ DOMAIN tabs = Tabs /\ \A w \in Tabs : PageTypeOK(tabs[w])
  /\ helper \in [Targets -> Request] /\ gos \in [Targets -> Nat]
  /\ setting \in Settings /\ asked \in 0..setting.user /\ faults \subseteq Fault

Unheard == [t \in Targets |-> None]

\* loadInteractionPrefs: the tools a page comes up with are the ones last used.
Fresh(up, insert) ==
  [up |-> up, state |-> "PICKING", pick |-> ~insert, insert |-> insert, locked |-> FALSE,
   kind |-> "replace", selected |-> None, hovered |-> None, line |-> 0,
   box |-> NoBox, there |-> FALSE, kept |-> NoBox,
   session |-> 0, mode |-> "replace", wrapped |-> FALSE, shows |-> TRUE,
   seen |-> Unheard, declined |-> {}, loops |-> {}]

Unasked == [step |-> "unasked", holder |-> NoTab, words |-> {}, unheard |-> {}, posts |-> {}]

Init ==
  /\ setting \in Settings
  /\ tabs = [w \in Tabs |-> Fresh(w \in setting.tabs, setting.insert)]
  /\ helper = [t \in Targets |-> Unasked]
  /\ gos = [t \in Targets |-> 0]
  /\ asked = 0 /\ faults = {}

LoopsAfter(p, t) == {l \in p.loops : l.target = t /\ l.at # "busy"}

Once(kind) == kind \notin faults
If(condition, kind) == IF condition THEN {kind} ELSE {}
Troubled(kinds) ==
  faults' = faults \cup kinds /\ Cardinality(faults' \ {"stood", "decision"}) <= setting.trouble

\* Two loops are after one target.
Crowded(p) ==
  \E k, l \in p.loops : k # l /\ k.target = l.target /\ "busy" \notin {k.at, l.at}

\* The page of w becomes p, in the trouble of these kinds.
Becomes(w, p, kinds) ==
  /\ \A l \in p.loops : l.n <= MaxLoops
  /\ tabs' = [tabs EXCEPT ![w] = p]
  /\ Troubled(kinds \cup If(Crowded(p), "twice"))

Acting(p) == \E t \in Targets : p.seen[t] = "acting"

\* What the user does, or another tool of the page: a step of the budget.
Uses(w, p) ==
  /\ tabs[w].up /\ asked < setting.user /\ asked' = asked + 1
  /\ p # tabs[w] /\ Becomes(w, p, If(Acting(tabs[w]), "rushed"))
  /\ UNCHANGED <<helper, gos, setting>>

-----------------------------------------------------------------------------
(* Whether a page can serve a target. *)

BusyForgetful(p, S) ==   \* mutant: another target the tab acts on is overlooked
  p.locked \/ p.state \notin {"IDLE", "PICKING", "CONFIGURING"}

\* S has the target this is about, if it is about one.
Busy(p, S) ==
  \/ p.locked
  \/ p.state \notin {"IDLE", "PICKING", "CONFIGURING"}
  \/ \E u \in Targets \ S : p.seen[u] = "acting"

Taken(p, t) == p.seen[t] \in {"acting", "done"}

NewLoop(p, t, at) ==
  [target |-> t, n |-> Min((1..MaxLoops + 1) \ {l.n : l \in LoopsAfter(p, t)}),
   at |-> at, says |-> "none"]
Starts(p, t, at) == [p EXCEPT !.loops = @ \cup {NewLoop(p, t, at)}]

\* The decline is sent and not followed; the map makes the page claim later.
DeclineBusy(p, t) ==
  [p EXCEPT !.declined = @ \cup {t}, !.seen[t] = "declined",
            !.loops = @ \cup {[target |-> t, n |-> 1, at |-> "busy", says |-> "none"]}]

ReportMissing(p, t) == Starts([p EXCEPT !.seen[t] = "declined"], t, "report")

ClaimAndAct(p, t) ==
  IF Busy(p, {t}) THEN DeclineBusy(p, t)
  ELSE IF ~p.shows THEN ReportMissing(p, t)
  ELSE Starts(p, t, "claim")

RetryNothing(p) ==   \* mutant: the declined targets are never claimed
  p

\* claimAndAct for each: claiming one does not make the page busy for the next.
RetryDeclined(p) ==
  LET next == IF p.shows THEN "claim" ELSE "report"
  IN IF Busy(p, {}) THEN p
     ELSE [p EXCEPT !.declined = {},
             !.loops = @ \cup {NewLoop(p, t, next) : t \in p.declined},
             !.seen = [t \in Targets |-> IF t \in p.declined /\ ~p.shows THEN "declined" ELSE @[t]]]

SetState(p, next) == RetryDeclined([p EXCEPT !.state = next])

-----------------------------------------------------------------------------
(* The tools. *)

FinalizeInsert(p) ==
  [p EXCEPT !.box = NoBox, !.there = FALSE, !.kept = NoBox,
            !.kind = "replace"]

ClearInsertPicking(p) == FinalizeInsert([p EXCEPT !.line = 0])

HideBar(p) == IF p.kind = "insert" THEN ClearInsertPicking(p) ELSE p

\* A pick tool that is on does not count.
CancelInsert(p) ==
  SetState([ClearInsertPicking(HideBar(p)) EXCEPT !.kind = "replace", !.selected = None],
           IF p.insert THEN "PICKING" ELSE "IDLE")

ExitToPicking(p) == SetState(HideBar(p), "PICKING")

Configure(p, e) == SetState([p EXCEPT !.selected = e], "CONFIGURING")

Over(i) == Points[i].over

\* The pointer is over a sibling, or over nothing that can be picked.
Point(w, i) ==
  LET p == tabs[w]
      q == IF p.insert THEN [p EXCEPT !.line = i]
           ELSE IF p.pick /\ i # 0 THEN [p EXCEPT !.hovered = Over(i)] ELSE p
  IN /\ p.up /\ ~p.locked /\ p.state = "PICKING" /\ q # p /\ Becomes(w, q, {})
     /\ UNCHANGED <<helper, gos, setting, asked>>

\* A placeholder is put where the insertion line is.
Place(p) ==
  LET place == ResolveInsertHover(layout, Over(p.line), Points[p.line])
  IN Configure([p EXCEPT !.box = Placeholder(layout, place), !.there = TRUE,
                         !.line = 0, !.kind = "insert"], "placeholder")

Outside(p, i) == p.selected # None /\ p.selected # Over(i)

Click(w, i) ==
  LET p == tabs[w]
  IN /\ ~p.locked
     /\ \/ /\ p.state = "CONFIGURING" /\ Outside(p, i)
           /\ Uses(w, IF p.kind = "insert" THEN CancelInsert(p)
                      ELSE [ExitToPicking(p) EXCEPT !.hovered = None])
        \/ p.state = "PICKING" /\ p.insert /\ p.line # 0 /\ Uses(w, Place(p))
        \/ /\ p.state = "PICKING" /\ ~p.insert /\ p.pick /\ p.hovered # None
           /\ Uses(w, Configure(p, p.hovered))

\* Turning the pick tool on while the user places takes the placeholder away and
\* leaves the state.
TogglePick(p) ==
  LET on == ClearInsertPicking([p EXCEPT !.pick = TRUE, !.insert = FALSE])
      off == [p EXCEPT !.pick = FALSE]
      bare == [HideBar(off) EXCEPT !.selected = None, !.hovered = None, !.kind = "replace"]
  IN IF ~p.pick THEN IF p.state = "IDLE" THEN SetState(on, "PICKING") ELSE on
     ELSE IF p.kind = "insert" /\ p.state = "CONFIGURING" THEN CancelInsert(off)
     ELSE IF p.state \in {"PICKING", "CONFIGURING"} THEN SetState(bare, "IDLE")
     ELSE bare

ToggleInsert(p) ==
  LET on   == [HideBar([p EXCEPT !.insert = TRUE, !.pick = FALSE])
                 EXCEPT !.selected = None, !.kind = "replace"]
      off  == ClearInsertPicking([p EXCEPT !.insert = FALSE])
  IN IF ~p.insert
     THEN IF p.state = "CONFIGURING" THEN CancelInsert(on)
          ELSE IF p.state \in {"IDLE", "PICKING"} THEN SetState(on, "PICKING") ELSE on
     ELSE IF p.state = "PICKING" /\ ~p.pick THEN SetState(off, "IDLE") ELSE off

PressPick(w)   == ~tabs[w].locked /\ Uses(w, TogglePick(tabs[w]))
PressInsert(w) == ~tabs[w].locked /\ Uses(w, ToggleInsert(tabs[w]))

SessionOver(p) ==
  SetState([FinalizeInsert(HideBar(p)) EXCEPT !.selected = None, !.hovered = None,
                                              !.wrapped = FALSE], "PICKING")

Escape(w) ==
  LET p == tabs[w]
  IN /\ ~p.locked
     /\ \/ /\ p.state = "CONFIGURING"
           /\ Uses(w, IF p.kind = "insert" THEN CancelInsert(p) ELSE ExitToPicking(p))
        \/ p.state = "CYCLING" /\ Uses(w, SessionOver(p))
        \/ /\ p.state = "PICKING"
           /\ Uses(w, IF p.insert THEN ToggleInsert(p)
                      ELSE IF p.pick THEN TogglePick(p) ELSE SetState(p, "IDLE"))

\* The sibling after or before, one that can be picked; the placeholder's are those
\* around it.
Sibling(e, d) ==
  LET s == layout.siblings
      i == CHOOSE j \in DOMAIN s : s[j] = e
  IN IF i + d \in DOMAIN s THEN s[i + d] ELSE None

Beside(p, d) ==
  IF p.selected # "placeholder" THEN Sibling(p.selected, d)
  ELSE IF ~p.there THEN None
  ELSE IF (d = 1) = (p.box.position = "before") THEN p.box.anchor
  ELSE Sibling(p.box.anchor, d)

Arrow(w, d) ==
  LET p == tabs[w]
  IN /\ ~p.locked
     /\ \/ /\ p.state = "PICKING" /\ p.hovered # None /\ Sibling(p.hovered, d) # None
           /\ Uses(w, [p EXCEPT !.hovered = Sibling(p.hovered, d)])
        \/ /\ p.state = "CONFIGURING" /\ p.selected # None /\ Beside(p, d) # None
           /\ Uses(w, [p EXCEPT !.selected = Beside(p, d)])

\* Whatever tool is on.
Enter(w) ==
  LET p == tabs[w]
  IN ~p.locked /\ p.state = "PICKING" /\ p.hovered # None /\ Uses(w, Configure(p, p.hovered))

RemoveSelection(w) ==
  LET p == tabs[w]
  IN /\ ~p.locked /\ p.state = "CONFIGURING"
     /\ Uses(w, IF p.kind = "insert" THEN CancelInsert(p)
                ELSE [ExitToPicking([p EXCEPT !.selected = None]) EXCEPT !.hovered = None])

\* The bar starts a session: Go, and Create for a placeholder whose snapshot is kept.
Begins(p, mode) == SetState([p EXCEPT !.session = @ + 1, !.mode = mode, !.wrapped = FALSE], "GENERATING")

Go(w) ==
  LET p == tabs[w]
  IN /\ ~p.locked /\ p.state = "CONFIGURING" /\ p.kind = "replace"
     /\ p.selected # None /\ p.selected # "placeholder"
     /\ Uses(w, Begins(p, "replace"))

Create(w) ==
  LET p == tabs[w]
  IN /\ ~p.locked /\ p.state = "CONFIGURING" /\ p.kind = "insert" /\ p.box # NoBox
     /\ Uses(w, Begins([p EXCEPT !.selected = "placeholder", !.kept = [p.box EXCEPT !.implicit = FALSE]], "insert"))

Resize(w, drag) ==
  LET p == tabs[w]
  IN /\ p.state = "CONFIGURING" /\ p.kind = "insert" /\ p.box # NoBox
     /\ Uses(w, [p EXCEPT !.box = ResizeFromEdge(p.box, drag.edge, drag.dx, drag.dy, layout.width)])

\* An apply of copy edits locks the page, and is over; one that needs the user's
\* decision takes the lock off as well, and looks at no declined target.
ApplyRuns(w) == ~tabs[w].locked /\ Uses(w, [tabs[w] EXCEPT !.locked = TRUE])
ApplyEnds(w) ==
  LET p      == [tabs[w] EXCEPT !.locked = FALSE]
      rushed == If(Acting(tabs[w]), "rushed")
  IN /\ tabs[w].locked /\ tabs[w].up
     /\ \/ Becomes(w, RetryDeclined(p), rushed)
        \/ Becomes(w, p, rushed \cup {"decision"})
     /\ UNCHANGED <<helper, gos, setting, asked>>

-----------------------------------------------------------------------------
(* A session, as far as the tools go. *)

Environment(w, p) ==
  /\ tabs[w].up /\ p # tabs[w] /\ Becomes(w, p, {})
  /\ UNCHANGED <<helper, gos, setting, asked>>

\* The agent's wrapper lands: the framework renders anew, without the placeholder, as
\* it may again while the variants are awaited.
WrapperLands(w) ==
  LET p == tabs[w]
  IN p.state = "GENERATING" /\ Environment(w, [p EXCEPT !.wrapped = TRUE, !.there = FALSE])

RecreateBare(p, e) ==   \* mutant: the size the user gave it is forgotten
  [p EXCEPT !.box = Placeholder(layout, [p.kept EXCEPT !.anchor = e]),
            !.there = TRUE, !.selected = "placeholder"]

Recreate(p, e) ==
  LET new == MaterializeWidth(Placeholder(layout, [p.kept EXCEPT !.anchor = e]))
  IN [p EXCEPT !.box = [new EXCEPT !.width = p.kept.width, !.height = p.kept.height,
                                   !.marginLeft = p.kept.marginLeft, !.marginTop = p.kept.marginTop],
               !.there = TRUE, !.selected = "placeholder"]

\* The scroll tracking and the observer look for it.  The anchor is the element the
\* page holds, while it is in the document, and else one that looks like the anchor
\* of the snapshot; a page whose text has changed too has neither, for now.
EnsurePlaceholder(w) ==
  LET p == tabs[w]
  IN /\ p.state = "GENERATING" /\ p.wrapped /\ p.mode = "insert" /\ ~p.there /\ p.kept # NoBox
     /\ \E e \in {p.box.anchor, FirstLike(layout, p.kept.anchor)} \ {None} : Environment(w, Recreate(p, e))

VariantsArrive(w) ==
  LET p == tabs[w]
  IN /\ p.state = "GENERATING" /\ p.wrapped
     /\ Environment(w, LET q == SetState(p, "CYCLING")
                       IN IF p.mode = "insert" THEN FinalizeInsert(q) ELSE q)

\* Accepted, discarded or failed.
SessionEnds(w) ==
  tabs[w].state \in {"GENERATING", "CYCLING"} /\ Environment(w, SessionOver(tabs[w]))

\* The page renders without the element agent targets name, and with it again.
Rerender(w) ==
  /\ tabs[w].up
  /\ \/ tabs[w].shows /\ Once("rerender") /\ Becomes(w, [tabs[w] EXCEPT !.shows = FALSE], {"rerender"})
     \/ ~tabs[w].shows /\ Becomes(w, [tabs[w] EXCEPT !.shows = TRUE], {})
  /\ UNCHANGED <<helper, gos, setting, asked>>

-----------------------------------------------------------------------------
(* The pursuit of a target in one tab. *)

Drop(p, l) == [p EXCEPT !.loops = @ \ {l}]
At(p, l, at, says) == [p EXCEPT !.loops = (@ \ {l}) \cup {[l EXCEPT !.at = at, !.says = says]}]

\* A step of the page alone.
Proceeds(w, p) == tabs[w].up /\ Becomes(w, p, {}) /\ UNCHANGED <<helper, gos, setting, asked>>

\* handleAgentTarget: the stream tells of a target, or replays it.
HearTarget(w, t) ==
  LET p == tabs[w]
      q == [p EXCEPT !.seen[t] = "heard"]
  IN /\ p.up /\ w \in helper[t].unheard
     /\ helper' = [helper EXCEPT ![t].unheard = @ \ {w}]
     /\ Becomes(w, IF Taken(p, t) THEN p
                   ELSE IF Busy(q, {t}) THEN DeclineBusy(q, t)
                   ELSE IF ~q.shows THEN ReportMissing(q, t)
                   ELSE Starts(q, t, "timer"), {})
     /\ UNCHANGED <<gos, setting, asked>>

\* The head start of a visible tab, and the retry of a denied one.
TimerFires(w, l) ==
  l.at = "timer" /\ Proceeds(w, ClaimAndAct(Drop(tabs[w], l), l.target))

\* actOnAgentTarget up to the scroll; a target that is dry is answered here.
ActOn(w, l) ==
  LET t == l.target
      p == [tabs[w] EXCEPT !.seen[t] = "acting"]
  IN IF Busy(p, {t}) THEN DeclineBusy(Drop(p, l), t)
     ELSE IF ~p.shows THEN ReportMissing(Drop(p, l), t)
     ELSE IF t \in Dry THEN [Drop(p, l) EXCEPT !.seen[t] = "done"]
     ELSE At(p, l, "scroll", "none")

Replies(w, t) == helper' = [helper EXCEPT ![t].posts = @ \cup {w}]

HearClaim(w, l) ==
  LET t == l.target
      p == [tabs[w] EXCEPT !.seen[t] = "denied"]
      acted == ActOn(w, l)
  IN /\ l.at = "answered" /\ tabs[w].up
     /\ \/ /\ l.says = "granted" /\ Becomes(w, acted, {})
           /\ IF acted.seen[t] = "done" THEN Replies(w, t) ELSE UNCHANGED helper
        \/ l.says = "held" /\ Becomes(w, At(p, l, "timer", "none"), {}) /\ UNCHANGED helper
        \/ l.says = "over" /\ Becomes(w, Drop(p, l), {}) /\ UNCHANGED helper
     /\ UNCHANGED <<gos, setting, asked>>

RenewAfterScroll(w, l) ==
  l.at = "scroll" /\ Proceeds(w, At(tabs[w], l, "renew", "none"))

\* The rest of actOnAgentTarget, up to the reply: an insert gives way, and the
\* element is picked whatever the page has come to.
PickFor(p) ==
  LET clear == IF p.state = "CONFIGURING" /\ p.kind = "insert" THEN CancelInsert(p) ELSE p
  IN Configure(clear, AgentPick)

GoForUnrenewed(w, l) ==   \* mutant: the answer of the renewal is not looked at
  LET t == l.target
      p == [PickFor(Drop(tabs[w], l)) EXCEPT !.seen[t] = "done"]
  IN /\ l.at = "renewed" /\ tabs[w].up /\ gos[t] < MaxGos
     /\ \/ ~p.locked /\ Becomes(w, Begins(p, "replace"), {})
           /\ gos' = [gos EXCEPT ![t] = @ + 1] /\ Replies(w, t)
        \/ p.locked /\ Becomes(w, p, {}) /\ Replies(w, t) /\ UNCHANGED gos
     /\ UNCHANGED <<setting, asked>>

\* The page acts before it says it is done: its own target is "acting" in between.
GoFor(w, l) ==
  LET t == l.target
      p == PickFor(Drop(tabs[w], l))
      done(q) == [q EXCEPT !.seen[t] = "done"]
  IN /\ l.at = "renewed" /\ tabs[w].up /\ gos[t] < MaxGos
     /\ \/ /\ l.says = "granted" /\ ~p.locked
           /\ Becomes(w, done(Begins(p, "replace")), {})
           /\ gos' = [gos EXCEPT ![t] = @ + 1] /\ Replies(w, t)
        \/ /\ l.says = "granted" /\ p.locked
           /\ Becomes(w, done(p), {}) /\ Replies(w, t) /\ UNCHANGED gos
        \/ /\ l.says # "granted"
           /\ Becomes(w, done(Drop(tabs[w], l)), {"stood"}) /\ UNCHANGED <<helper, gos>>
     /\ UNCHANGED <<setting, asked>>

HearReport(w, l) ==
  /\ l.at = "reported"
  /\ Proceeds(w, IF l.says = "held" THEN At(tabs[w], l, "watch", "none") ELSE Drop(tabs[w], l))

\* watchAgentTargetResolution: the element may have come back.
Watch(w, l) ==
  LET p == Drop(tabs[w], l)
  IN /\ l.at = "watch"
     /\ Proceeds(w, IF Taken(p, l.target) THEN p
                    ELSE IF Busy(p, {l.target}) THEN DeclineBusy(p, l.target)
                    ELSE IF p.shows THEN ClaimAndAct(p, l.target)
                    ELSE ReportMissing(p, l.target))

-----------------------------------------------------------------------------
(* The helper, and the agent that asks. *)

Alive(h) == h.step = "pending"

AskTarget(t) ==
  /\ t \in setting.targets /\ helper[t].step = "unasked"
  /\ helper' = [helper EXCEPT ![t].step = "pending", ![t].unheard = {w \in Tabs : tabs[w].up}]
  /\ UNCHANGED <<tabs, gos, setting, asked, faults>>

Answered(w, l, at, says) ==
  /\ tabs' = [tabs EXCEPT ![w] = At(@, l, at, says)]
  /\ UNCHANGED <<gos, setting, asked>>

\* What the tab sends of a target whose result it has under way comes late.
Overtakes(w, t) == LET h == helper[t] IN Alive(h) /\ h.holder = w /\ w \in h.posts

Ours(h, w) == h.holder \in {NoTab, w}

\* A claim drops what the tab reported before; the lease goes to the first.
Claimed(h, w) ==
  IF Alive(h) THEN [h EXCEPT !.holder = IF Ours(h, w) THEN w ELSE @, !.words = @ \ {w}] ELSE h

TakeClaim(w, l) ==
  LET h  == helper[l.target]
      at == IF l.at = "claim" THEN "answered" ELSE "renewed"
  IN /\ l.at \in {"claim", "renew"}
     /\ helper' = [helper EXCEPT ![l.target] = Claimed(@, w)]
     /\ Answered(w, l, at, IF ~Alive(h) THEN "over" ELSE IF Ours(h, w) THEN "granted" ELSE "held")
     /\ Troubled(If(Overtakes(w, l.target), "late"))

\* A report hands a lease back.
Reported(h, w) ==
  IF Alive(h) THEN [h EXCEPT !.words = @ \cup {w}, !.holder = IF @ = w THEN NoTab ELSE @] ELSE h

TakeReport(w, l) ==
  /\ l.at = "report"
  /\ helper' = [helper EXCEPT ![l.target] = Reported(@, w)]
  /\ Answered(w, l, "reported", IF Alive(helper[l.target]) THEN "held" ELSE "over")
  /\ Troubled(If(Overtakes(w, l.target), "late"))

\* Late when the tab has acted on the target since.
TakeBusy(w, l) ==
  /\ l.at = "busy"
  /\ helper' = [helper EXCEPT ![l.target] = Reported(@, w)]
  /\ Becomes(w, Drop(tabs[w], l), If(Taken(tabs[w], l.target) \/ Overtakes(w, l.target), "late"))
  /\ UNCHANGED <<gos, setting, asked>>

\* A claim or a report that fails, before the helper or after it has taken it, stands
\* for a lease that is not granted and a request that nobody awaits.
Fails(w, l) ==
  /\ l.at \in {"claim", "renew", "report"}
  /\ \/ UNCHANGED helper
     \/ helper' = [helper EXCEPT ![l.target] = IF l.at = "report" THEN Reported(@, w) ELSE Claimed(@, w)]
  /\ Answered(w, l, CASE l.at = "claim" -> "answered" [] l.at = "renew" -> "renewed"
                       [] l.at = "report" -> "reported", "over")
  /\ Troubled({"unreached"} \cup If(Overtakes(w, l.target), "late"))

\* What is sent and not followed: the word of a busy tab, and a result.
BusyFails(w, l) ==
  /\ l.at = "busy" /\ Becomes(w, Drop(tabs[w], l), {"unreached"})
  /\ UNCHANGED <<helper, gos, setting, asked>>

ResultFails(w, t) ==
  /\ w \in helper[t].posts /\ Troubled({"lost"})
  /\ helper' = [helper EXCEPT ![t].posts = @ \ {w}]
  /\ UNCHANGED <<tabs, gos, setting, asked>>

\* A lease is longer than a request takes: it lapses late while the answer of the
\* renewal or the result is under way, and else whenever the page is slow.
UnderWay(w, t) ==
  \/ helper[t].posts # {}
  \/ w \in Tabs /\ \E l \in tabs[w].loops : l.target = t /\ l.at = "renewed" /\ l.says = "granted"

Lapse(t) ==
  LET h == helper[t]
  IN /\ Alive(h) /\ h.holder # NoTab
     /\ helper' = [helper EXCEPT ![t].holder = NoTab]
     /\ Troubled(If(UnderWay(h.holder, t), "late"))
     /\ UNCHANGED <<tabs, gos, setting, asked>>

\* The result, or the session's generate event that names the target.
TakeResult(w, t) ==
  /\ w \in helper[t].posts
  /\ helper' = [helper EXCEPT ![t].posts = @ \ {w}, ![t].step = "over"]
  /\ UNCHANGED <<tabs, gos, setting, asked, faults>>

\* Every connected tab has said that it cannot.
RollCall(t) ==
  LET up == {w \in Tabs : tabs[w].up}
  IN /\ Alive(helper[t]) /\ helper[t].holder = NoTab /\ up # {} /\ up \subseteq helper[t].words
     /\ helper' = [helper EXCEPT ![t].step = "over"]
     /\ UNCHANGED <<tabs, gos, setting, asked, faults>>

TimesOut(t) ==
  /\ Alive(helper[t]) /\ Once("timeout") /\ Troubled({"timeout"})
  /\ helper' = [helper EXCEPT ![t].step = "over"]
  /\ UNCHANGED <<tabs, gos, setting, asked>>

\* The stream of a tab opens anew: the helper may have dropped the tab's word, and
\* tells it of every target that is pending.
Retold(h, w) == IF Alive(h) THEN [h EXCEPT !.unheard = @ \cup {w}] ELSE h

Reconnect(w) ==
  /\ tabs[w].up /\ Once("reconnect") /\ Troubled({"reconnect"})
  /\ \E dropped \in {{}, {w}} :
       helper' = [t \in Targets |-> IF Alive(helper[t])
                                    THEN Retold([helper[t] EXCEPT !.words = @ \ dropped], w)
                                    ELSE helper[t]]
  /\ UNCHANGED <<tabs, gos, setting, asked>>

\* A page that goes takes its loops with it, and perhaps a result; a lease of its
\* outlives it, and so does the snapshot of a session's placeholder.
Leaves(w, lost, again) ==
  LET p == tabs[w]
      gone(h)     == [h EXCEPT !.words = @ \ {w}, !.holder = IF @ = w THEN GoneTab ELSE @,
                               !.posts = IF lost THEN @ \ {w} ELSE @, !.unheard = @ \ {w}]
      running     == p.state \in {"GENERATING", "CYCLING"}
      fresh       == [Fresh(TRUE, p.insert) EXCEPT !.pick = p.pick, !.shows = p.shows, !.locked = p.locked,
                       !.session = p.session, !.mode = p.mode, !.wrapped = p.wrapped,
                       !.kept = IF running THEN p.kept ELSE NoBox,
                       !.state = IF running THEN p.state
                                 ELSE IF p.pick \/ p.insert THEN "PICKING" ELSE "IDLE"]
      closed      == [Fresh(FALSE, p.insert) EXCEPT !.pick = p.pick, !.state = "IDLE",
                       !.session = p.session]
  IN /\ p.up /\ Once(IF again THEN "reload" ELSE "exit")
     /\ lost => \E t \in Targets : w \in helper[t].posts
     /\ helper' = [t \in Targets |-> IF again THEN Retold(gone(helper[t]), w) ELSE gone(helper[t])]
     /\ tabs' = [tabs EXCEPT ![w] = IF again THEN fresh ELSE closed]
     /\ Troubled({IF again THEN "reload" ELSE "exit"} \cup If(lost, "lost"))
     /\ UNCHANGED <<gos, setting, asked>>

-----------------------------------------------------------------------------
User(w) ==
  \/ \E i \in DOMAIN Points : Click(w, i)
  \/ PressPick(w) \/ PressInsert(w) \/ Escape(w) \/ Enter(w) \/ RemoveSelection(w)
  \/ \E d \in {1, -1} : Arrow(w, d)
  \/ Go(w) \/ Create(w) \/ \E drag \in Drags : Resize(w, drag)
  \/ ApplyRuns(w)

Session(w) == WrapperLands(w) \/ EnsurePlaceholder(w) \/ VariantsArrive(w) \/ SessionEnds(w)

\* A loop has one step it can take.
LoopStep(w, l) ==
  \/ TimerFires(w, l) \/ TakeClaim(w, l) \/ HearClaim(w, l) \/ RenewAfterScroll(w, l) \/ GoFor(w, l)
  \/ TakeReport(w, l) \/ HearReport(w, l) \/ Watch(w, l) \/ TakeBusy(w, l)
  \/ Fails(w, l) \/ BusyFails(w, l)

Pursues(w, t, n) == \E l \in LoopsAfter(tabs[w], t) : l.n = n /\ LoopStep(w, l)
Declines(w, t)   == \E l \in tabs[w].loops : l.target = t /\ l.at = "busy" /\ LoopStep(w, l)

Targeting(t) ==
  \/ AskTarget(t) \/ Lapse(t) \/ RollCall(t) \/ TimesOut(t)
  \/ \E w \in Tabs : HearTarget(w, t) \/ TakeResult(w, t) \/ ResultFails(w, t) \/ Declines(w, t)
  \/ \E w \in Tabs, n \in 1..MaxLoops : Pursues(w, t, n)

Next ==
  \/ \E w \in Tabs : \/ User(w) \/ Session(w) \/ ApplyEnds(w) \/ Rerender(w) \/ Reconnect(w)
                     \/ \E i \in DOMAIN Points \cup {0} : Point(w, i)
                     \/ \E lost, again \in BOOLEAN : Leaves(w, lost, again)
  \/ \E t \in Targets : Targeting(t)

\* Timers fire, requests and answers arrive, a lease nobody renews lapses and an
\* apply ends.  Nothing is expected of the user, the agent or the helper's roll call.
Fairness ==
  /\ \A w \in Tabs : WF_vars(ApplyEnds(w))
  /\ \A w \in Tabs, t \in Targets :
       /\ WF_vars(HearTarget(w, t)) /\ WF_vars(TakeResult(w, t)) /\ WF_vars(Declines(w, t))
       /\ \A n \in 1..MaxLoops : WF_vars(Pursues(w, t, n))
  /\ \A t \in Targets : WF_vars(Lapse(t))

Spec == Init /\ [][Next]_vars
FairSpec == Spec /\ Fairness

-----------------------------------------------------------------------------
(* One request never gets two presses of Go: not from two tabs, when a lease      *)
(* lapses while its holder scrolls or a page is reloaded, and not from one.  It   *)
(* takes a lease that lapses within one request, a result lost with its page or   *)
(* overtaken by what its tab sends next, or a second loop after the target in one *)
(* tab.                                                                           *)
OneGo ==
  {"late", "lost", "twice"} \cap faults = {} => \A t \in Targets : gos[t] <= 1

(* A session that runs in a tab is never replaced by another one: two held        *)
(* targets, a retry of a declined one or a deferred claim wait until it is over.  *)
(* The page does not look again once the renewal is answered, so what the user    *)
(* starts during it is lost ("rushed").                                           *)
SessionKept ==
  [][\A w \in Tabs :
       /\ tabs[w].state \in {"GENERATING", "CYCLING"} /\ tabs[w].up /\ tabs'[w].up
       /\ {"rushed", "twice"} \cap faults = {}
       => tabs'[w].session = tabs[w].session /\ tabs'[w].state # "CONFIGURING"]_vars

(* A request that stays pending is not left alone while a tab could serve it: a   *)
(* tab that was busy, did not show the element, lost the race or its stream comes *)
(* back to it.  A tab has given one up that it took the lease of and then stood   *)
(* down, or whose result was lost; one it declined, when it came free without a   *)
(* look at those: where it stood down, or an apply asked for a decision, against  *)
(* "the moment it is free again" of the comment on the declined ones; and one     *)
(* whose claim or report failed, which it takes for a request nobody awaits.      *)
CanServe(p) ==
  p.up /\ p.state \in {"IDLE", "PICKING", "CONFIGURING"} /\ ~p.locked /\ p.shows

GaveUp(p, t) ==
  \/ p.seen[t] = "done"
  \/ t \in p.declined /\ {"stood", "decision"} \cap faults # {}
  \/ t \notin p.declined /\ LoopsAfter(p, t) = {} /\ "unreached" \in faults

Served ==
  \A t \in Targets :
    []<>~(Alive(helper[t]) /\ \E w \in Tabs : CanServe(tabs[w]) /\ ~GaveUp(tabs[w], t))

(* The placeholder is in the page only while the user places an element or its    *)
(* session has no variants yet, with the size, the margins and the side the user  *)
(* left it, however often the framework rendered and the page was reloaded; it is *)
(* at the element they chose unless that was rendered anew, and then at the first *)
(* one that looks like it.  What the user starts while the tab acts on a target,  *)
(* once or in a second loop, may leave one behind ("rushed", "twice").            *)
NoStrayPlaceholder ==
  {"rushed", "twice"} \cap faults = {} => \A w \in Tabs : LET p == tabs[w] IN p.up /\ p.there =>
    \/ p.state = "CONFIGURING" /\ p.kind = "insert"
    \/ /\ p.state = "GENERATING" /\ p.mode = "insert"
       /\ [p.box EXCEPT !.implicit = FALSE, !.anchor = p.kept.anchor] = p.kept
       /\ p.box.anchor \in {p.kept.anchor, FirstLike(layout, p.kept.anchor)}

(* The insertion line is beside the element under the pointer.  Where the         *)
(* siblings lie one after another it parts those whose middle the pointer has     *)
(* passed from the others, whether it came from a gap or from an element; only a  *)
(* gap beside an element no longer than the slop on both sides of it draws the    *)
(* line to itself.                                                                *)
Along(r)  == IF DetectAxis(layout) = "row" THEN [start |-> r.left, end |-> Right(r)]
             ELSE [start |-> r.top, end |-> Bottom(r)]
Span(i)   == Along(layout.rect[layout.siblings[i]])
InOrder   == \A i, j \in DOMAIN layout.siblings : i < j => Span(i).end <= Span(j).start

LineFollowsPointer ==
  \A w \in Tabs : LET p == tabs[w] IN p.line # 0 =>
    LET s        == layout.siblings
        at       == Points[p.line]
        place    == ResolveInsertHover(layout, at.over, at)
        rank(e)  == CHOOSE i \in DOMAIN s : s[i] = e
        before   == IF place.position = "after" THEN rank(place.anchor) ELSE rank(place.anchor) - 1
        pointer  == IF DetectAxis(layout) = "row" THEN at.x ELSE at.y
        short(i) == Span(i).end - Span(i).start <= 2 * Slop
    IN /\ before \in {rank(at.over) - 1, rank(at.over)}
       /\ InOrder =>
            \/ before = Cardinality({i \in DOMAIN s : Span(i).start + Span(i).end <= 2 * pointer})
            \/ /\ before \in 1..(Len(s) - 1) /\ (short(before) \/ short(before + 1))
               /\ pointer \in Span(before).end - Slop..Span(before + 1).start + Slop

(* Of two opposite sides of the placeholder no step moves both: a drag leaves the *)
(* one opposite to the dragged side where it is, at the smallest and the largest  *)
(* size and when it is the first, which fixes the width the layout had given (at  *)
(* least PLACEHOLDER_MIN_WIDTH), and so does what recreates the placeholder.      *)
(* Placing a new one is no move, also where one recreated after a reload was left. *)
OppositeStays(b, c) ==
  LET g == MaterializeWidth(b)
      h == MaterializeWidth(c)
  IN /\ g.marginLeft = h.marginLeft \/ g.marginLeft + g.width = h.marginLeft + h.width
     /\ g.marginTop = h.marginTop \/ g.marginTop + g.height = h.marginTop + h.height

OppositeSideStays ==
  [][\A w \in Tabs : LET p == tabs[w]
                         q == tabs'[w]
                     IN p.state # "PICKING" /\ p.box # NoBox /\ q.box # NoBox
                          => OppositeStays(p.box, q.box)]_vars
=============================================================================
