--------------------------- MODULE PageTools_proofs ---------------------------
(***************************************************************************)
(* Proofs about PageTools, for any tabs and targets, any layouts, any      *)
(* number of loops, of steps of the user and of kinds of trouble.          *)
(*                                                                         *)
(* What a step does to a page is one of two relations: what the user, a    *)
(* session or an apply does leaves the pursuits alone (Tame), and a step   *)
(* of a pursuit changes that one only (Pursuit).  The lease follows from   *)
(* what both leave of the loops that are past their claim.  The sizes and  *)
(* margins of the placeholder need no premise: see Careful.                *)
(***************************************************************************)
EXTENDS PageTools, TLAPS

Fields == {"up", "state", "pick", "insert", "locked", "kind", "selected", "hovered", "line",
           "box", "there", "kept", "session", "mode", "wrapped", "shows", "seen", "declined", "loops"}
LoopFields == {"target", "n", "at", "says"}
BoxFields == {"anchor", "position", "axis", "width", "implicit", "height", "marginLeft", "marginTop"}

IsBox(b) == b = NoBox \/ (DOMAIN b = BoxFields /\ b = [f \in BoxFields |-> b[f]])
IsLoop(l) == DOMAIN l = LoopFields /\ l.target \in Targets

\* What a page is, as far as the proofs look at it.
Shape(p) ==
  /\ DOMAIN p = Fields /\ DOMAIN p.seen = Targets /\ p.declined \subseteq Targets
  /\ \A l \in p.loops : IsLoop(l)
  /\ IsBox(p.box) /\ IsBox(p.kept) /\ (p.kept # NoBox => p.kept.implicit = FALSE)

\* A loop that acts: past its first claim.
Late(l) == l.at \in {"scroll", "renew", "renewed"}
Acts(p, t) == p.seen[t] = "acting"

\* At most one target at a time.
OneActing(p) == \A t, u \in Targets : Acts(p, t) /\ Acts(p, u) => t = u
\* One loop for each.
Single(p) == ~Crowded(p)
\* A loop that acts is known to.
LoopsAct(p) == \A l \in p.loops : Late(l) => Acts(p, l.target)

Running == {"GENERATING", "CYCLING"}
NoStray(p) ==
  p.up /\ p.there =>
    \/ p.state = "CONFIGURING" /\ p.kind = "insert"
    \/ /\ p.state = "GENERATING" /\ p.mode = "insert"
       /\ [p.box EXCEPT !.implicit = FALSE, !.anchor = p.kept.anchor] = p.kept

\* Who pursues nothing here changes no loop, and nobody's turn to act.
Tame(p, q) ==
  /\ Shape(q) /\ q.up = p.up
  /\ \A l \in q.loops : l \in p.loops \/ ~Late(l)
  /\ \A t \in Targets : Acts(q, t) <=> Acts(p, t)

\* A step of loop l, which is gone, or has moved on.
Pursuit(p, q, l) ==
  /\ Shape(q) /\ q.up = p.up
  /\ \A k \in q.loops :
       k \in p.loops \ {l} \/ ~Late(k)
       \/ (k.target = l.target /\ k.at \in {"scroll", "renew"}
           /\ (LoopsAct(p) => Acts(q, l.target)))
  /\ \A u \in Targets \ {l.target} : Acts(q, u) <=> Acts(p, u)
  /\ Acts(q, l.target) => Acts(p, l.target) \/ ~Acting(p)

\* Nothing but loops and what is known of targets differs.
SameTools(p, q) ==
  /\ q.up = p.up /\ q.state = p.state /\ q.kind = p.kind /\ q.box = p.box /\ q.there = p.there
  /\ q.kept = p.kept /\ q.session = p.session /\ q.mode = p.mode
  /\ q.locked = p.locked /\ q.shows = p.shows

\* Nothing but the tools differs.
SameLoops(p, q) ==
  Shape(q) /\ q.up = p.up /\ q.loops = p.loops /\ q.seen = p.seen

LEMMA TameSame ==
  ASSUME NEW p, NEW q, SameLoops(p, q)
  PROVE  Tame(p, q)
BY DEF SameLoops, Tame, Acts

LEMMA TameTransitive ==
  ASSUME NEW p, NEW q, NEW r, Tame(p, q), Tame(q, r)
  PROVE  Tame(p, r)
BY DEF Tame

LEMMA NoBoxIsBox == IsBox(NoBox)
BY DEF IsBox

-----------------------------------------------------------------------------
(* What pages are made of. *)

LEMMA NewLoopFacts ==
  ASSUME NEW p, NEW t \in Targets, NEW at
  PROVE  LET l == NewLoop(p, t, at) IN IsLoop(l) /\ l.target = t /\ l.at = at
BY DEF NewLoop, IsLoop, LoopFields

LEMMA StartsFacts ==
  ASSUME NEW p, NEW t \in Targets, NEW at, Shape(p)
  PROVE  LET q == Starts(p, t, at) IN
         /\ Shape(q) /\ SameTools(p, q) /\ q.seen = p.seen
         /\ \A k \in q.loops : k \in p.loops \/ k.at = at
<1> DEFINE l == NewLoop(p, t, at)
<1>1. IsLoop(l) /\ l.at = at
  BY NewLoopFacts
<1> HIDE DEF l
<1> DEFINE q == [p EXCEPT !.loops = @ \cup {l}]
<1>2. q.loops = p.loops \cup {l} /\ SameTools(p, q) /\ q.seen = p.seen
      /\ q.declined = p.declined /\ DOMAIN q = Fields
  BY DEF Shape, Fields, SameTools
<1>3. Starts(p, t, at) = q
  BY DEF Starts, l
<1> HIDE DEF q
<1> QED
  BY <1>1, <1>2, <1>3 DEF Shape, SameTools

LEMMA RetryFacts ==
  ASSUME NEW p, Shape(p)
  PROVE  LET q == RetryDeclined(p) IN
         Tame(p, q) /\ SameTools(p, q) /\ (Acting(p) => q = p)
<1>1. CASE Busy(p, {})
  BY <1>1 DEF RetryDeclined, Tame, SameTools
<1>2. CASE ~Busy(p, {})
  <2> DEFINE next == IF p.shows THEN "claim" ELSE "report"
             new  == {NewLoop(p, t, next) : t \in p.declined}
             seen == [t \in Targets |-> IF t \in p.declined /\ ~p.shows THEN "declined" ELSE p.seen[t]]
             q    == [p EXCEPT !.declined = {}, !.loops = @ \cup new, !.seen = seen]
  <2>1. RetryDeclined(p) = q
    BY <1>2 DEF RetryDeclined
  <2>2. \A l \in new : IsLoop(l) /\ ~Late(l)
    <3> TAKE l \in new
    <3>1. PICK t \in p.declined : l = NewLoop(p, t, next)
      OBVIOUS
    <3> QED
      BY <3>1, NewLoopFacts DEF Shape, Late
  <2>3. DOMAIN seen = Targets /\ \A t \in Targets : seen[t] = "acting" <=> p.seen[t] = "acting"
    BY <1>2 DEF Busy
  <2> HIDE DEF new, seen
  <2>4. /\ q.loops = p.loops \cup new /\ q.seen = seen /\ q.declined = {} /\ DOMAIN q = Fields
        /\ SameTools(p, q)
    BY DEF Shape, Fields, SameTools
  <2> HIDE DEF q
  <2>5. Tame(p, q)
    BY <2>2, <2>3, <2>4 DEF Tame, Shape, SameTools, Acts
  <2>6. ~Acting(p)
    BY <1>2 DEF Busy, Acting
  <2> QED
    BY <2>1, <2>4, <2>5, <2>6
<1> QED
  BY <1>1, <1>2

\* A change of state has the declined targets tried again, and does nothing else.
LEMMA SetStateFacts ==
  ASSUME NEW p, NEW next, Shape(p)
  PROVE  LET q == SetState(p, next) IN
         /\ Tame(p, q) /\ q.state = next
         /\ q.up = p.up /\ q.kind = p.kind /\ q.box = p.box /\ q.there = p.there
         /\ q.kept = p.kept /\ q.session = p.session /\ q.mode = p.mode /\ q.locked = p.locked
         /\ Acting(p) => q.loops = p.loops /\ q.seen = p.seen
<1> DEFINE r == [p EXCEPT !.state = next]
<1>1. SameLoops(p, r)
  BY DEF Shape, Fields, SameLoops
<1>2. /\ r.state = next /\ r.kind = p.kind /\ r.box = p.box /\ r.there = p.there
      /\ r.kept = p.kept /\ r.session = p.session /\ r.mode = p.mode /\ r.locked = p.locked
      /\ r.up = p.up
  BY DEF Shape, Fields
<1> HIDE DEF r
<1>3. Tame(r, RetryDeclined(r)) /\ SameTools(r, RetryDeclined(r)) /\ (Acting(r) => RetryDeclined(r) = r)
  BY <1>1, RetryFacts DEF SameLoops
<1>4. Tame(p, RetryDeclined(r))
  BY <1>1, <1>3, TameSame, TameTransitive
<1>5. Acting(p) => Acting(r)
  BY <1>1 DEF SameLoops, Acting
<1> QED
  BY <1>1, <1>2, <1>3, <1>4, <1>5 DEF SetState, r, SameTools, SameLoops

\* The placeholder goes, and with it what was kept of it.
LEMMA ClearFacts ==
  ASSUME NEW p, Shape(p)
  PROVE  /\ SameLoops(p, ClearInsertPicking(p)) /\ ~ClearInsertPicking(p).there
         /\ ClearInsertPicking(p).session = p.session /\ ClearInsertPicking(p).state = p.state
         /\ ClearInsertPicking(p).mode = p.mode /\ ClearInsertPicking(p).locked = p.locked
         /\ SameLoops(p, FinalizeInsert(p)) /\ ~FinalizeInsert(p).there
         /\ FinalizeInsert(p).session = p.session /\ FinalizeInsert(p).state = p.state
         /\ FinalizeInsert(p).mode = p.mode /\ FinalizeInsert(p).locked = p.locked
BY NoBoxIsBox DEF Shape, Fields, SameLoops, ClearInsertPicking, FinalizeInsert

LEMMA HideBarFacts ==
  ASSUME NEW p, Shape(p)
  PROVE  LET q == HideBar(p) IN
         /\ SameLoops(p, q) /\ q.session = p.session /\ q.state = p.state /\ q.mode = p.mode
         /\ q.locked = p.locked
         /\ p.kind = "insert" => ~q.there
         /\ p.kind # "insert" => q = p
BY ClearFacts DEF HideBar, SameLoops, Shape

-----------------------------------------------------------------------------
(* The tools and the session. *)

\* A step that is no pursuit, keeps the page tidy and a session running.
Polite(p, q) ==
  /\ Tame(p, q) /\ (NoStray(p) => NoStray(q))
  /\ p.state \in Running => q.session = p.session /\ q.state # "CONFIGURING"

LEMMA PoliteIf ==
  ASSUME NEW p, NEW q, Tame(p, q), ~q.there,
         p.state \in Running => q.session = p.session /\ q.state # "CONFIGURING"
  PROVE  Polite(p, q)
BY DEF Polite, NoStray

LEMMA PlaceholderIsBox ==
  ASSUME NEW place
  PROVE  IsBox(Placeholder(layout, place)) /\ Placeholder(layout, place) # NoBox
<1>1. DOMAIN Placeholder(layout, place) = BoxFields
  BY DEF Placeholder, BoxFields
<1>2. Placeholder(layout, place) = [f \in BoxFields |-> Placeholder(layout, place)[f]]
  BY DEF Placeholder, BoxFields
<1>3. DOMAIN NoBox # BoxFields
  BY DEF NoBox, BoxFields
<1> QED
  BY <1>1, <1>2, <1>3 DEF IsBox

LEMMA CancelFacts ==
  ASSUME NEW p, Shape(p)
  PROVE  LET q == CancelInsert(p) IN
         /\ Tame(p, q) /\ ~q.there /\ q.session = p.session /\ q.state \in {"PICKING", "IDLE"}
         /\ q.locked = p.locked
         /\ Acting(p) => q.loops = p.loops /\ q.seen = p.seen
<1> DEFINE h == HideBar(p)
           c == ClearInsertPicking(h)
           r == [c EXCEPT !.kind = "replace", !.selected = None]
           next == IF p.insert THEN "PICKING" ELSE "IDLE"
<1>1. SameLoops(p, h) /\ h.session = p.session /\ h.locked = p.locked
  BY HideBarFacts
<1> HIDE DEF h
<1>2. SameLoops(h, c) /\ ~c.there /\ c.session = p.session /\ c.locked = p.locked
  BY <1>1, ClearFacts DEF SameLoops
<1> HIDE DEF c
<1>3. SameLoops(p, r) /\ ~r.there /\ r.session = p.session /\ r.locked = p.locked
  BY <1>1, <1>2 DEF SameLoops, Shape, Fields
<1> HIDE DEF r
<1> DEFINE q == SetState(r, next)
<1>4. /\ Tame(r, q) /\ q.state = next /\ q.there = r.there /\ q.session = r.session
      /\ q.locked = r.locked /\ (Acting(r) => q.loops = r.loops /\ q.seen = r.seen)
  BY <1>3, SetStateFacts DEF SameLoops
<1>5. CancelInsert(p) = q
  BY DEF CancelInsert, h, c, r
<1> HIDE DEF q
<1>6. Tame(p, q)
  BY <1>3, <1>4, TameSame, TameTransitive
<1>7. Acting(p) => Acting(r)
  BY <1>3 DEF SameLoops, Acting
<1> QED
  BY <1>3, <1>4, <1>5, <1>6, <1>7 DEF SameLoops

\* A tab that leaves what it does, without a placeholder, is polite.
LEMMA SettlePolite ==
  ASSUME NEW p, NEW r, NEW next, Shape(p), SameLoops(p, r), r.session = p.session,
         next \in {"IDLE", "PICKING"}, NoStray(p) => (p.up => ~r.there)
  PROVE  Polite(p, SetState(r, next))
<1> DEFINE q == SetState(r, next)
<1>1. Tame(r, q) /\ q.there = r.there /\ q.session = r.session /\ q.state = next
  BY SetStateFacts DEF SameLoops
<1>2. Tame(p, q)
  BY <1>1, TameSame, TameTransitive
<1> HIDE DEF q
<1>3. NoStray(p) => NoStray(q)
  BY <1>1, <1>2 DEF NoStray, Tame
<1> QED
  BY <1>1, <1>2, <1>3 DEF Polite, q

LEMMA CancelPolite ==
  ASSUME NEW p, NEW r, Shape(p), SameLoops(p, r), r.session = p.session
  PROVE  Polite(p, CancelInsert(r))
<1>1. /\ Tame(r, CancelInsert(r)) /\ ~CancelInsert(r).there
      /\ CancelInsert(r).session = p.session /\ CancelInsert(r).state \in {"PICKING", "IDLE"}
  BY CancelFacts DEF SameLoops
<1>2. Tame(p, CancelInsert(r))
  BY <1>1, TameSame, TameTransitive
<1> QED
  BY <1>1, <1>2, PoliteIf

LEMMA SameLoopsFields ==
  ASSUME NEW p, NEW q, Shape(p), DOMAIN q = Fields, q.up = p.up, q.loops = p.loops,
         q.seen = p.seen, q.declined = p.declined,
         (q.box = p.box /\ q.kept = p.kept) \/
           (IsBox(q.box) /\ IsBox(q.kept) /\ (q.kept # NoBox => q.kept.implicit = FALSE))
  PROVE  SameLoops(p, q)
BY DEF SameLoops, Shape

LEMMA HideBarDeclines ==
  ASSUME NEW p, Shape(p)
  PROVE  HideBar(p).declined = p.declined
BY DEF HideBar, ClearInsertPicking, FinalizeInsert, Shape, Fields

\* While a bar is configuring, hiding it leaves no placeholder.
LEMMA ExitPolite ==
  ASSUME NEW p, NEW s, Shape(p), p.state \in {"CONFIGURING", "PICKING"}
  PROVE  LET r == [p EXCEPT !.selected = s]
         IN Polite(p, ExitToPicking(r)) /\ Polite(p, [ExitToPicking(r) EXCEPT !.hovered = None])
            /\ Polite(p, ExitToPicking(p)) /\ Polite(p, [ExitToPicking(p) EXCEPT !.hovered = None])
<1>1. ASSUME NEW r, SameLoops(p, r), r.there = p.there, r.kind = p.kind, r.state = p.state,
             r.session = p.session
      PROVE  Polite(p, ExitToPicking(r)) /\ Polite(p, [ExitToPicking(r) EXCEPT !.hovered = None])
  <2> DEFINE h == HideBar(r)
             q == SetState(h, "PICKING")
             v == [q EXCEPT !.hovered = None]
  <2>1. /\ SameLoops(r, h) /\ h.session = r.session
        /\ (r.kind = "insert" => ~h.there) /\ (r.kind # "insert" => h = r)
    BY <1>1, HideBarFacts DEF SameLoops
  <2>2. SameLoops(p, h) /\ h.session = p.session /\ h.up = p.up
        /\ (p.kind = "insert" => ~h.there) /\ (p.kind # "insert" => h.there = p.there)
    BY <1>1, <2>1 DEF SameLoops
  <2> HIDE DEF h
  <2>3. Tame(h, q) /\ q.state = "PICKING" /\ q.there = h.there
    BY <2>2, SetStateFacts DEF SameLoops
  <2>4. Tame(p, q)
    BY <2>2, <2>3, TameSame, TameTransitive
  <2> HIDE DEF q
  <2>5. SameLoops(q, v) /\ v.state = q.state /\ v.there = q.there
    BY <2>4 DEF Tame, Shape, Fields, SameLoops
  <2>6. Tame(p, v)
    BY <2>4, <2>5, TameSame, TameTransitive
  <2>7. NoStray(p) => (p.up => ~h.there)
    BY <2>2 DEF NoStray
  <2>8. q.up = p.up /\ v.up = p.up
    BY <2>4, <2>6 DEF Tame
  <2>9. Polite(p, q) /\ Polite(p, v)
    BY <2>3, <2>4, <2>5, <2>6, <2>7, <2>8 DEF Polite, NoStray, Running
  <2> QED
    BY <2>9 DEF ExitToPicking, q, h
<1> DEFINE r == [p EXCEPT !.selected = s]
<1>2. SameLoops(p, r) /\ r.there = p.there /\ r.kind = p.kind /\ r.state = p.state /\ r.session = p.session
  BY DEF SameLoops, Shape, Fields
<1>3. SameLoops(p, p)
  BY DEF SameLoops
<1> HIDE DEF r
<1> QED
  BY <1>1, <1>2, <1>3 DEF r

LEMMA ConfigureFacts ==
  ASSUME NEW p, NEW e, Shape(p)
  PROVE  LET q == Configure(p, e) IN
         /\ Tame(p, q) /\ q.state = "CONFIGURING" /\ q.up = p.up /\ q.kind = p.kind
         /\ q.there = p.there /\ q.session = p.session /\ q.locked = p.locked
         /\ Acting(p) => q.loops = p.loops /\ q.seen = p.seen
<1> DEFINE r == [p EXCEPT !.selected = e]
           q == SetState(r, "CONFIGURING")
<1>1. /\ SameLoops(p, r) /\ r.kind = p.kind /\ r.there = p.there /\ r.session = p.session
      /\ r.locked = p.locked
  BY DEF SameLoops, Shape, Fields
<1> HIDE DEF r
<1>2. /\ Tame(r, q) /\ q.state = "CONFIGURING" /\ q.kind = r.kind /\ q.there = r.there
      /\ q.session = r.session /\ q.locked = r.locked /\ q.up = r.up
      /\ (Acting(r) => q.loops = r.loops /\ q.seen = r.seen)
  BY <1>1, SetStateFacts DEF SameLoops
<1>3. Tame(p, q)
  BY <1>1, <1>2, TameSame, TameTransitive
<1>4. Acting(p) => Acting(r)
  BY <1>1 DEF SameLoops, Acting
<1> QED
  BY <1>1, <1>2, <1>3, <1>4 DEF Configure, r, SameLoops

LEMMA ConfigurePolite ==
  ASSUME NEW p, NEW e, Shape(p), p.state \in {"PICKING", "CONFIGURING"}
  PROVE  Polite(p, Configure(p, e))
BY ConfigureFacts DEF Polite, NoStray, Running

LEMMA PlacePolite ==
  ASSUME NEW p, Shape(p), p.state = "PICKING"
  PROVE  Polite(p, Place(p))
<1> DEFINE box == Placeholder(layout, ResolveInsertHover(layout, Over(p.line), Points[p.line]))
           r == [p EXCEPT !.box = box, !.there = TRUE, !.line = 0, !.kind = "insert"]
<1>1. IsBox(box)
  BY PlaceholderIsBox
<1> HIDE DEF box
<1>2. SameLoops(p, r) /\ r.kind = "insert"
  BY <1>1 DEF SameLoops, Shape, Fields
<1> HIDE DEF r
<1> DEFINE q == Configure(r, "placeholder")
<1>3. Tame(r, q) /\ q.state = "CONFIGURING" /\ q.kind = "insert"
  BY <1>2, ConfigureFacts DEF SameLoops
<1>4. Tame(p, q)
  BY <1>2, <1>3, TameSame, TameTransitive
<1>5. Place(p) = q
  BY DEF Place, r, box
<1> HIDE DEF q
<1> QED
  BY <1>3, <1>4, <1>5 DEF Polite, NoStray, Running

LEMMA EditPolite ==
  ASSUME NEW p, NEW q, SameLoops(p, q), q.session = p.session, q.state = p.state,
         NoStray(p) => NoStray(q)
  PROVE  Polite(p, q)
BY TameSame DEF Polite, Running

LEMMA TogglePickPolite ==
  ASSUME NEW p, Shape(p)
  PROVE  Polite(p, TogglePick(p))
<1> DEFINE on   == ClearInsertPicking([p EXCEPT !.pick = TRUE, !.insert = FALSE])
           off  == [p EXCEPT !.pick = FALSE]
           h    == HideBar(off)
           bare == [h EXCEPT !.selected = None, !.hovered = None, !.kind = "replace"]
<1>1. SameLoops(p, on) /\ ~on.there /\ on.session = p.session /\ on.state = p.state
  <2> DEFINE r == [p EXCEPT !.pick = TRUE, !.insert = FALSE]
  <2>1. SameLoops(p, r) /\ r.session = p.session /\ r.state = p.state
    BY DEF SameLoops, Shape, Fields
  <2> HIDE DEF r
  <2>2. /\ SameLoops(r, ClearInsertPicking(r)) /\ ~ClearInsertPicking(r).there
        /\ ClearInsertPicking(r).session = r.session /\ ClearInsertPicking(r).state = r.state
    BY <2>1, ClearFacts DEF SameLoops
  <2> QED
    BY <2>1, <2>2 DEF SameLoops, r
<1>2. /\ SameLoops(p, off) /\ off.session = p.session /\ off.state = p.state /\ off.kind = p.kind
      /\ off.there = p.there /\ off.mode = p.mode /\ off.box = p.box /\ off.kept = p.kept
  BY DEF SameLoops, Shape, Fields
<1> HIDE DEF on, off
<1>3. /\ SameLoops(off, h) /\ h.session = off.session /\ h.state = off.state
      /\ (off.kind = "insert" => ~h.there) /\ (off.kind # "insert" => h = off)
  BY <1>2, HideBarFacts DEF SameLoops
<1>4. /\ SameLoops(p, h) /\ h.session = p.session /\ h.state = p.state
      /\ (p.kind = "insert" => ~h.there)
      /\ (p.kind # "insert" => /\ h.there = p.there /\ h.mode = p.mode
                               /\ h.box = p.box /\ h.kept = p.kept)
  BY <1>2, <1>3 DEF SameLoops
<1> HIDE DEF h
<1>5. /\ SameLoops(p, bare) /\ bare.session = p.session /\ bare.state = p.state
      /\ (p.kind = "insert" => ~bare.there)
      /\ (p.kind # "insert" => /\ bare.there = p.there /\ bare.mode = p.mode
                               /\ bare.box = p.box /\ bare.kept = p.kept)
  BY <1>4 DEF SameLoops, Shape, Fields
<1> HIDE DEF bare
<1>6. NoStray(p) => NoStray(bare)
  BY <1>5 DEF NoStray, SameLoops
<1>7. Polite(p, bare) /\ Polite(p, on)
  BY <1>1, <1>5, <1>6, EditPolite DEF NoStray
<1>8. Polite(p, SetState(on, "PICKING"))
  BY <1>1, SettlePolite
<1>9. p.state \in {"PICKING", "CONFIGURING"} => Polite(p, SetState(bare, "IDLE"))
  BY <1>5, SettlePolite DEF NoStray
<1>10. Polite(p, CancelInsert(off))
  BY <1>2, CancelPolite
<1> QED
  BY <1>7, <1>8, <1>9, <1>10 DEF TogglePick, on, off, h, bare

LEMMA ToggleInsertPolite ==
  ASSUME NEW p, Shape(p)
  PROVE  Polite(p, ToggleInsert(p))
<1> DEFINE r   == [p EXCEPT !.insert = TRUE, !.pick = FALSE]
           h   == HideBar(r)
           on  == [h EXCEPT !.selected = None, !.kind = "replace"]
           off == ClearInsertPicking([p EXCEPT !.insert = FALSE])
<1>1. SameLoops(p, off) /\ ~off.there /\ off.session = p.session /\ off.state = p.state
  <2> DEFINE s == [p EXCEPT !.insert = FALSE]
  <2>1. SameLoops(p, s) /\ s.session = p.session /\ s.state = p.state
    BY DEF SameLoops, Shape, Fields
  <2> HIDE DEF s
  <2>2. /\ SameLoops(s, ClearInsertPicking(s)) /\ ~ClearInsertPicking(s).there
        /\ ClearInsertPicking(s).session = s.session /\ ClearInsertPicking(s).state = s.state
    BY <2>1, ClearFacts DEF SameLoops
  <2> QED
    BY <2>1, <2>2 DEF SameLoops, s
<1>2. /\ SameLoops(p, r) /\ r.session = p.session /\ r.state = p.state /\ r.kind = p.kind
      /\ r.there = p.there /\ r.mode = p.mode /\ r.box = p.box /\ r.kept = p.kept
  BY DEF SameLoops, Shape, Fields
<1> HIDE DEF off, r
<1>3. /\ SameLoops(r, h) /\ h.session = r.session /\ h.state = r.state
      /\ (r.kind = "insert" => ~h.there) /\ (r.kind # "insert" => h = r)
  BY <1>2, HideBarFacts DEF SameLoops
<1>4. /\ SameLoops(p, h) /\ h.session = p.session /\ h.state = p.state
      /\ (p.kind = "insert" => ~h.there)
      /\ (p.kind # "insert" => /\ h.there = p.there /\ h.mode = p.mode
                               /\ h.box = p.box /\ h.kept = p.kept)
  BY <1>2, <1>3 DEF SameLoops
<1> HIDE DEF h
<1>5. /\ SameLoops(p, on) /\ on.session = p.session /\ on.state = p.state
      /\ (p.kind = "insert" => ~on.there)
      /\ (p.kind # "insert" => /\ on.there = p.there /\ on.mode = p.mode
                               /\ on.box = p.box /\ on.kept = p.kept)
  BY <1>4 DEF SameLoops, Shape, Fields
<1> HIDE DEF on
<1>6. Polite(p, on) /\ Polite(p, off)
  BY <1>1, <1>5, EditPolite DEF NoStray, SameLoops
<1>7. p.state \in {"IDLE", "PICKING"} => Polite(p, SetState(on, "PICKING"))
  BY <1>5, SettlePolite DEF NoStray
<1>8. Polite(p, SetState(off, "IDLE"))
  BY <1>1, SettlePolite
<1>9. Polite(p, CancelInsert(on))
  BY <1>5, CancelPolite
<1> QED
  BY <1>6, <1>7, <1>8, <1>9 DEF ToggleInsert, on, off, h, r

LEMMA SessionOverPolite ==
  ASSUME NEW p, Shape(p)
  PROVE  Polite(p, SessionOver(p))
<1> DEFINE h == HideBar(p)
           f == FinalizeInsert(h)
           r == [f EXCEPT !.selected = None, !.hovered = None, !.wrapped = FALSE]
<1>1. SameLoops(p, h) /\ h.session = p.session
  BY HideBarFacts
<1> HIDE DEF h
<1>2. SameLoops(h, f) /\ ~f.there /\ f.session = h.session
  BY <1>1, ClearFacts DEF SameLoops
<1> HIDE DEF f
<1>3. SameLoops(p, r) /\ ~r.there /\ r.session = p.session
  BY <1>1, <1>2 DEF SameLoops, Shape, Fields
<1> HIDE DEF r
<1>4. Polite(p, SetState(r, "PICKING"))
  BY <1>3, SettlePolite
<1> QED
  BY <1>4 DEF SessionOver, r, f, h

LEMMA IdlePolite ==
  ASSUME NEW p, Shape(p), p.state = "PICKING"
  PROVE  Polite(p, SetState(p, "IDLE"))
<1>1. SameLoops(p, p)
  BY DEF SameLoops
<1> QED
  BY <1>1, SettlePolite DEF NoStray

\* What a session begins with is what the bar left.
LEMMA BeginsFacts ==
  ASSUME NEW p, NEW mode, Shape(p)
  PROVE  LET q == Begins(p, mode) IN
         /\ Tame(p, q) /\ q.state = "GENERATING" /\ q.mode = mode /\ q.up = p.up
         /\ q.there = p.there /\ q.box = p.box /\ q.kept = p.kept
         /\ Acting(p) => q.loops = p.loops /\ q.seen = p.seen
<1> DEFINE r == [p EXCEPT !.session = @ + 1, !.mode = mode, !.wrapped = FALSE]
           q == SetState(r, "GENERATING")
<1>1. /\ SameLoops(p, r) /\ r.there = p.there /\ r.box = p.box /\ r.kept = p.kept
      /\ r.mode = mode
  BY DEF SameLoops, Shape, Fields
<1> HIDE DEF r
<1>2. /\ Tame(r, q) /\ q.state = "GENERATING" /\ q.mode = r.mode /\ q.there = r.there
      /\ q.box = r.box /\ q.kept = r.kept /\ q.up = r.up
      /\ (Acting(r) => q.loops = r.loops /\ q.seen = r.seen)
  BY <1>1, SetStateFacts DEF SameLoops
<1>3. Tame(p, q)
  BY <1>1, <1>2, TameSame, TameTransitive
<1>4. Acting(p) => Acting(r)
  BY <1>1 DEF SameLoops, Acting
<1> QED
  BY <1>1, <1>2, <1>3, <1>4 DEF Begins, r, SameLoops

LEMMA GoPolite ==
  ASSUME NEW p, Shape(p), p.state = "CONFIGURING", p.kind = "replace"
  PROVE  Polite(p, Begins(p, "replace"))
BY BeginsFacts DEF Polite, NoStray, Running

LEMMA CreatePolite ==
  ASSUME NEW p, Shape(p), p.state = "CONFIGURING", p.kind = "insert", p.box # NoBox
  PROVE  Polite(p, Begins([p EXCEPT !.selected = "placeholder",
                             !.kept = [p.box EXCEPT !.implicit = FALSE]], "insert"))
<1> DEFINE kept == [p.box EXCEPT !.implicit = FALSE]
           r == [p EXCEPT !.selected = "placeholder", !.kept = kept]
<1>1. IsBox(kept) /\ kept.implicit = FALSE
  <2>1. DOMAIN p.box = BoxFields
    BY DEF Shape, IsBox
  <2>2. DOMAIN kept = BoxFields /\ kept = [f \in BoxFields |-> kept[f]] /\ kept.implicit = FALSE
    BY <2>1 DEF BoxFields
  <2> QED
    BY <2>2 DEF IsBox
<1>2. /\ kept = [p.box EXCEPT !.implicit = FALSE]
      /\ [p.box EXCEPT !.implicit = FALSE, !.anchor = kept.anchor] = kept
  <2>1. DOMAIN p.box = BoxFields
    BY DEF Shape, IsBox
  <2> QED
    BY <2>1 DEF BoxFields
<1> HIDE DEF kept
<1>3. SameLoops(p, r) /\ r.there = p.there /\ r.box = p.box /\ r.kept = kept
  BY <1>1 DEF SameLoops, Shape, Fields
<1>4. r = [p EXCEPT !.selected = "placeholder", !.kept = [p.box EXCEPT !.implicit = FALSE]]
  BY <1>2
<1> HIDE DEF r
<1> DEFINE q == Begins(r, "insert")
<1>5. Tame(r, q) /\ q.state = "GENERATING" /\ q.mode = "insert" /\ q.box = r.box /\ q.kept = r.kept
  BY <1>3, BeginsFacts DEF SameLoops
<1>6. Tame(p, q)
  BY <1>3, <1>5, TameSame, TameTransitive
<1> HIDE DEF q
<1>7. Polite(p, q)
  BY <1>2, <1>3, <1>5, <1>6 DEF Polite, NoStray, Running
<1> QED
  BY <1>4, <1>7 DEF q

\* What was kept of the placeholder is what comes back.
LEMMA RecreatePolite ==
  ASSUME NEW p, NEW e, Shape(p), p.state = "GENERATING", p.mode = "insert", p.kept # NoBox
  PROVE  Polite(p, Recreate(p, e))
<1> DEFINE new == Placeholder(layout, [p.kept EXCEPT !.anchor = e])
           m   == MaterializeWidth(new)
           box == [m EXCEPT !.width = p.kept.width, !.height = p.kept.height,
                            !.marginLeft = p.kept.marginLeft, !.marginTop = p.kept.marginTop]
           q   == [p EXCEPT !.box = box, !.there = TRUE, !.selected = "placeholder"]
<1>1. DOMAIN p.kept = BoxFields /\ p.kept = [f \in BoxFields |-> p.kept[f]] /\ p.kept.implicit = FALSE
  BY DEF Shape, IsBox
<1>2. DOMAIN new = BoxFields /\ new.position = p.kept.position /\ new.axis = p.kept.axis
  BY <1>1 DEF Placeholder, BoxFields
<1> HIDE DEF new
<1>3. DOMAIN m = BoxFields /\ m.position = p.kept.position /\ m.axis = p.kept.axis
  BY <1>2 DEF MaterializeWidth, BoxFields
<1> HIDE DEF m
<1>4. DOMAIN box = BoxFields /\ box = [f \in BoxFields |-> box[f]]
  BY <1>3 DEF BoxFields
<1>5. [box EXCEPT !.implicit = FALSE, !.anchor = p.kept.anchor] = p.kept
  <2> DEFINE b == [box EXCEPT !.implicit = FALSE, !.anchor = p.kept.anchor]
  <2>1. b.anchor = p.kept.anchor /\ b.position = p.kept.position /\ b.axis = p.kept.axis
        /\ b.width = p.kept.width /\ b.height = p.kept.height
        /\ b.marginLeft = p.kept.marginLeft /\ b.marginTop = p.kept.marginTop
        /\ b.implicit = p.kept.implicit
    BY <1>1, <1>3 DEF BoxFields
  <2>2. DOMAIN b = BoxFields /\ b = [f \in BoxFields |-> b[f]]
    BY <1>4 DEF BoxFields
  <2> HIDE DEF b
  <2>3. \A f \in BoxFields : b[f] = p.kept[f]
    BY <2>1 DEF BoxFields
  <2>4. b = p.kept
    BY <1>1, <2>2, <2>3
  <2> QED
    BY <2>4 DEF b
<1>6. Recreate(p, e) = q
  BY DEF Recreate, new, m
<1>7. IsBox(box)
  BY <1>4 DEF IsBox
<1> HIDE DEF box
<1>8. /\ SameLoops(p, q) /\ q.box = box /\ q.kept = p.kept /\ q.state = p.state /\ q.mode = p.mode
      /\ q.session = p.session
  BY <1>7 DEF SameLoops, Shape, Fields
<1> HIDE DEF q
<1>9. Polite(p, q)
  BY <1>5, <1>8, EditPolite DEF NoStray
<1> QED
  BY <1>6, <1>9

LEMMA VariantsPolite ==
  ASSUME NEW p, Shape(p), p.state = "GENERATING"
  PROVE  LET q == SetState(p, "CYCLING")
         IN Polite(p, IF p.mode = "insert" THEN FinalizeInsert(q) ELSE q)
<1> DEFINE q == SetState(p, "CYCLING")
           f == FinalizeInsert(q)
<1>1. Tame(p, q) /\ q.state = "CYCLING" /\ q.there = p.there /\ q.session = p.session /\ q.up = p.up
  BY SetStateFacts
<1> HIDE DEF q
<1>2. SameLoops(q, f) /\ ~f.there /\ f.session = q.session /\ f.state = q.state
  BY <1>1, ClearFacts DEF Tame
<1> HIDE DEF f
<1>3. Tame(p, f)
  BY <1>1, <1>2, TameSame, TameTransitive
<1>4. p.mode # "insert" => Polite(p, q)
  BY <1>1 DEF Polite, NoStray, Running
<1>5. Polite(p, f)
  BY <1>1, <1>2, <1>3, PoliteIf
<1> QED
  BY <1>4, <1>5 DEF q, f

LEMMA ResizePolite ==
  ASSUME NEW p, NEW drag, Shape(p), p.state = "CONFIGURING", p.box # NoBox
  PROVE  Polite(p, [p EXCEPT !.box = ResizeFromEdge(p.box, drag.edge, drag.dx, drag.dy, layout.width)])
<1> DEFINE b == ResizeFromEdge(p.box, drag.edge, drag.dx, drag.dy, layout.width)
           m == MaterializeWidth(p.box)
<1>1. DOMAIN p.box = BoxFields
  BY DEF Shape, IsBox
<1>2. DOMAIN m = BoxFields
  BY <1>1 DEF MaterializeWidth
<1> HIDE DEF m
<1>3. DOMAIN b = BoxFields /\ b = [f \in BoxFields |-> b[f]]
  BY <1>2 DEF ResizeFromEdge, m
<1>4. IsBox(b)
  BY <1>3 DEF IsBox
<1> HIDE DEF b
<1> DEFINE q == [p EXCEPT !.box = b]
<1>5. /\ SameLoops(p, q) /\ q.state = p.state /\ q.session = p.session /\ q.kind = p.kind
      /\ q.there = p.there
  BY <1>4 DEF SameLoops, Shape, Fields
<1> HIDE DEF q
<1>6. Polite(p, q)
  BY <1>5, EditPolite DEF NoStray, SameLoops
<1> QED
  BY <1>6 DEF q, b

-----------------------------------------------------------------------------
(* A step of a pursuit. *)

Ready == {"IDLE", "PICKING", "CONFIGURING"}

\* A step of a pursuit that does not come to pressing Go.
Chase(p, q, l) ==
  /\ Pursuit(p, q, l) /\ SameTools(p, q)
  /\ Acts(q, l.target) /\ ~Acts(p, l.target) => p.state \in Ready

LEMMA DropFacts ==
  ASSUME NEW p, NEW l, Shape(p)
  PROVE  LET q == Drop(p, l) IN
         Shape(q) /\ SameTools(p, q) /\ q.loops = p.loops \ {l} /\ q.seen = p.seen
BY DEF Drop, Shape, Fields, SameTools

LEMMA AtFacts ==
  ASSUME NEW p, NEW l, NEW at, NEW says, Shape(p), IsLoop(l)
  PROVE  LET q == At(p, l, at, says) IN
         /\ Shape(q) /\ SameTools(p, q) /\ q.seen = p.seen
         /\ \E m : /\ q.loops = (p.loops \ {l}) \cup {m}
                  /\ m.at = at /\ m.says = says /\ m.target = l.target
<1> DEFINE m == [l EXCEPT !.at = at, !.says = says]
           q == [p EXCEPT !.loops = (@ \ {l}) \cup {m}]
<1>1. IsLoop(m) /\ m.at = at /\ m.says = says /\ m.target = l.target
  BY DEF IsLoop, LoopFields
<1>2. At(p, l, at, says) = q
  BY DEF At
<1> HIDE DEF m
<1>3. Shape(q) /\ SameTools(p, q) /\ q.seen = p.seen /\ q.loops = (p.loops \ {l}) \cup {m}
  BY <1>1 DEF Shape, Fields, SameTools
<1> QED
  BY <1>1, <1>2, <1>3

\* A loop that moves on without acting.
LEMMA MoveChases ==
  ASSUME NEW p, NEW l \in p.loops, NEW at, NEW says, Shape(p),
         at \notin {"scroll", "renew", "renewed"} \/ (Late(l) /\ at = "renew")
  PROVE  Chase(p, At(p, l, at, says), l)
<1> DEFINE q == At(p, l, at, says)
<1>1. IsLoop(l)
  BY DEF Shape
<1>2. Shape(q) /\ SameTools(p, q) /\ q.seen = p.seen
  BY <1>1, AtFacts
<1>3. PICK m : /\ q.loops = (p.loops \ {l}) \cup {m}
               /\ m.at = at /\ m.target = l.target
  BY <1>1, AtFacts
<1> HIDE DEF q
<1>4. Late(l) /\ LoopsAct(p) => Acts(p, l.target)
  BY DEF LoopsAct
<1>5. Chase(p, q, l)
  BY <1>2, <1>3, <1>4 DEF Chase, Pursuit, Late, Acts, SameTools
<1> QED
  BY <1>5 DEF q

LEMMA DropChases ==
  ASSUME NEW p, NEW l \in p.loops, Shape(p)
  PROVE  Chase(p, Drop(p, l), l)
BY DropFacts DEF Chase, Pursuit, Acts, SameTools

LEMMA DeclineBusyFacts ==
  ASSUME NEW p, NEW t \in Targets, Shape(p)
  PROVE  LET q == DeclineBusy(p, t) IN
         /\ Shape(q) /\ SameTools(p, q) /\ q.seen = [p.seen EXCEPT ![t] = "declined"]
         /\ \A k \in q.loops : k \in p.loops \/ ~Late(k)
<1> DEFINE k == [target |-> t, n |-> 1, at |-> "busy", says |-> "none"]
           q == [p EXCEPT !.declined = @ \cup {t}, !.seen[t] = "declined", !.loops = @ \cup {k}]
<1>1. IsLoop(k) /\ ~Late(k)
  BY DEF IsLoop, LoopFields, Late
<1>2. DeclineBusy(p, t) = q
  BY DEF DeclineBusy
<1> HIDE DEF k
<1>3. /\ DOMAIN q = Fields /\ SameTools(p, q) /\ q.seen = [p.seen EXCEPT ![t] = "declined"]
      /\ q.loops = p.loops \cup {k} /\ q.declined = p.declined \cup {t}
  BY DEF Shape, Fields, SameTools
<1> HIDE DEF q
<1> QED
  BY <1>1, <1>2, <1>3 DEF Shape, SameTools

LEMMA ReportMissingFacts ==
  ASSUME NEW p, NEW t \in Targets, Shape(p)
  PROVE  LET q == ReportMissing(p, t) IN
         /\ Shape(q) /\ SameTools(p, q) /\ q.seen = [p.seen EXCEPT ![t] = "declined"]
         /\ \A k \in q.loops : k \in p.loops \/ ~Late(k)
<1> DEFINE r == [p EXCEPT !.seen[t] = "declined"]
<1>1. /\ Shape(r) /\ SameTools(p, r) /\ r.seen = [p.seen EXCEPT ![t] = "declined"]
      /\ r.loops = p.loops
  BY DEF Shape, Fields, SameTools
<1> HIDE DEF r
<1>2. /\ Shape(Starts(r, t, "report")) /\ SameTools(r, Starts(r, t, "report"))
      /\ Starts(r, t, "report").seen = r.seen
      /\ \A k \in Starts(r, t, "report").loops : k \in r.loops \/ k.at = "report"
  BY <1>1, StartsFacts
<1> QED
  BY <1>1, <1>2 DEF ReportMissing, r, SameTools, Late

LEMMA ClaimAndActFacts ==
  ASSUME NEW p, NEW t \in Targets, Shape(p)
  PROVE  LET q == ClaimAndAct(p, t) IN
         /\ Shape(q) /\ SameTools(p, q)
         /\ q.seen = p.seen \/ q.seen = [p.seen EXCEPT ![t] = "declined"]
         /\ \A k \in q.loops : k \in p.loops \/ ~Late(k)
BY DeclineBusyFacts, ReportMissingFacts, StartsFacts DEF ClaimAndAct, Late

\* What a loop does to itself and then to its target, never beginning to act.
LEMMA GivenUpChases ==
  ASSUME NEW p, NEW l \in p.loops, NEW q, NEW word, word # "acting",
         Shape(p), Shape(q), SameTools(p, q),
         \A k \in q.loops : k \in p.loops \ {l} \/ ~Late(k),
         q.seen = p.seen \/ q.seen = [p.seen EXCEPT ![l.target] = word]
  PROVE  Chase(p, q, l)
<1>1. l.target \in Targets /\ DOMAIN p.seen = Targets
  BY DEF Shape, IsLoop
<1>2. \A u \in Targets : Acts(q, u) => Acts(p, u)
  BY <1>1 DEF Acts
<1>3. \A u \in Targets \ {l.target} : Acts(q, u) <=> Acts(p, u)
  BY <1>1 DEF Acts
<1> QED
  BY <1>1, <1>2, <1>3 DEF Chase, Pursuit, SameTools

LEMMA ClaimChases ==
  ASSUME NEW p, NEW l \in p.loops, Shape(p)
  PROVE  /\ Chase(p, ClaimAndAct(Drop(p, l), l.target), l)
         /\ Chase(p, DeclineBusy(Drop(p, l), l.target), l)
         /\ Chase(p, ReportMissing(Drop(p, l), l.target), l)
<1> DEFINE d == Drop(p, l)
<1>1. l.target \in Targets
  BY DEF Shape, IsLoop
<1>2. Shape(d) /\ SameTools(p, d) /\ d.loops = p.loops \ {l} /\ d.seen = p.seen
  BY DropFacts
<1> HIDE DEF d
<1>3. ASSUME NEW q, Shape(q), SameTools(d, q),
             q.seen = d.seen \/ q.seen = [d.seen EXCEPT ![l.target] = "declined"],
             \A k \in q.loops : k \in d.loops \/ ~Late(k)
      PROVE  Chase(p, q, l)
  <2>1. SameTools(p, q)
    BY <1>2, <1>3 DEF SameTools
  <2> QED
    BY <1>2, <1>3, <2>1, GivenUpChases
<1>4. Chase(p, ClaimAndAct(d, l.target), l)
  BY <1>1, <1>2, <1>3, ClaimAndActFacts
<1>5. Chase(p, DeclineBusy(d, l.target), l)
  BY <1>1, <1>2, <1>3, DeclineBusyFacts
<1>6. Chase(p, ReportMissing(d, l.target), l)
  BY <1>1, <1>2, <1>3, ReportMissingFacts
<1> QED
  BY <1>4, <1>5, <1>6 DEF d

\* actOnAgentTarget: a page that is free takes its turn.
LEMMA ActOnChases ==
  ASSUME NEW w, NEW l \in tabs[w].loops, Shape(tabs[w])
  PROVE  Chase(tabs[w], ActOn(w, l), l)
<1> DEFINE p == tabs[w]
           t == l.target
           r == [p EXCEPT !.seen[t] = "acting"]
           d == Drop(r, l)
<1>1. t \in Targets /\ IsLoop(l) /\ DOMAIN p.seen = Targets
  BY DEF Shape, IsLoop
<1>2. /\ Shape(r) /\ SameTools(p, r) /\ r.loops = p.loops
      /\ r.seen = [p.seen EXCEPT ![t] = "acting"]
  BY DEF Shape, Fields, SameTools
<1> HIDE DEF r
<1>3. Shape(d) /\ SameTools(r, d) /\ d.loops = p.loops \ {l} /\ d.seen = r.seen
  BY <1>2, DropFacts
<1> HIDE DEF d
<1>4. ASSUME NEW q, Shape(q), SameTools(d, q), q.seen = [d.seen EXCEPT ![t] = "declined"],
             \A k \in q.loops : k \in d.loops \/ ~Late(k)
      PROVE  Chase(p, q, l)
  <2>1. SameTools(p, q)
    BY <1>2, <1>3, <1>4 DEF SameTools
  <2>2. q.seen = [p.seen EXCEPT ![t] = "declined"]
    BY <1>1, <1>2, <1>3, <1>4
  <2> QED
    BY <1>3, <1>4, <2>1, <2>2, GivenUpChases
<1>5. Chase(p, DeclineBusy(d, t), l) /\ Chase(p, ReportMissing(d, t), l)
  BY <1>1, <1>3, <1>4, DeclineBusyFacts, ReportMissingFacts
<1>6. ASSUME ~Busy(r, {t})
      PROVE  /\ Chase(p, [d EXCEPT !.seen[t] = "done"], l)
             /\ Chase(p, At(r, l, "scroll", "none"), l)
  <2>1. p.state \in Ready /\ \A u \in Targets \ {t} : ~Acts(p, u)
    BY <1>1, <1>2, <1>6 DEF Busy, SameTools, Ready, Acts
  <2>2. Acts(p, t) \/ ~Acting(p)
    BY <2>1 DEF Acts, Acting
  <2> DEFINE q == [d EXCEPT !.seen[t] = "done"]
             a == At(r, l, "scroll", "none")
  <2>3. Shape(q) /\ SameTools(d, q) /\ q.loops = d.loops /\ q.seen = [d.seen EXCEPT ![t] = "done"]
    BY <1>3 DEF Shape, Fields, SameTools
  <2> HIDE DEF q
  <2>4. /\ Shape(a) /\ SameTools(r, a) /\ a.seen = r.seen
        /\ \E m : a.loops = (r.loops \ {l}) \cup {m} /\ m.at = "scroll" /\ m.target = t
    BY <1>1, <1>2, AtFacts
  <2> HIDE DEF a
  <2>5. SameTools(p, q) /\ SameTools(p, a)
    BY <1>2, <1>3, <2>3, <2>4 DEF SameTools
  <2>6. /\ ~Acts(q, t) /\ Acts(a, t)
        /\ \A u \in Targets \ {t} : Acts(q, u) = Acts(p, u) /\ Acts(a, u) = Acts(p, u)
    BY <1>1, <1>2, <1>3, <2>3, <2>4 DEF Acts
  <2>7. Chase(p, q, l)
    BY <1>3, <2>3, <2>5, <2>6 DEF Chase, Pursuit, SameTools
  <2>8. Chase(p, a, l)
    BY <1>2, <2>1, <2>2, <2>4, <2>5, <2>6 DEF Chase, Pursuit, SameTools
  <2> QED
    BY <2>7, <2>8 DEF q, a
<1> QED
  BY <1>5, <1>6 DEF ActOn, r, d

\* The answer was no.
LEMMA DeniedChases ==
  ASSUME NEW p, NEW l \in p.loops, Shape(p)
  PROVE  LET r == [p EXCEPT !.seen[l.target] = "denied"]
         IN Chase(p, At(r, l, "timer", "none"), l) /\ Chase(p, Drop(r, l), l)
<1> DEFINE r == [p EXCEPT !.seen[l.target] = "denied"]
           a == At(r, l, "timer", "none")
           d == Drop(r, l)
<1>1. IsLoop(l)
  BY DEF Shape
<1>2. /\ Shape(r) /\ SameTools(p, r) /\ r.loops = p.loops
      /\ r.seen = [p.seen EXCEPT ![l.target] = "denied"]
  BY <1>1 DEF Shape, Fields, SameTools, IsLoop
<1> HIDE DEF r
<1>3. Shape(d) /\ SameTools(r, d) /\ d.loops = r.loops \ {l} /\ d.seen = r.seen
  BY <1>2, DropFacts
<1> HIDE DEF d
<1>4. Shape(a) /\ SameTools(r, a) /\ a.seen = r.seen
  BY <1>1, <1>2, AtFacts
<1>5. PICK m : a.loops = (r.loops \ {l}) \cup {m} /\ m.at = "timer"
  BY <1>1, <1>2, AtFacts
<1> HIDE DEF a
<1>6. SameTools(p, d) /\ SameTools(p, a)
  BY <1>2, <1>3, <1>4 DEF SameTools
<1>7. /\ \A k \in d.loops : k \in p.loops \ {l} \/ ~Late(k)
      /\ \A k \in a.loops : k \in p.loops \ {l} \/ ~Late(k)
  BY <1>2, <1>3, <1>5 DEF Late
<1>8. Chase(p, d, l)
  BY <1>2, <1>3, <1>6, <1>7, GivenUpChases
<1>9. Chase(p, a, l)
  BY <1>2, <1>4, <1>6, <1>7, GivenUpChases
<1> QED
  BY <1>8, <1>9 DEF r, a, d

\* The stream tells of a target that the page neither acts on nor has done.
LEMMA HeardTame ==
  ASSUME NEW p, NEW t \in Targets, Shape(p), ~Taken(p, t)
  PROVE  LET r == [p EXCEPT !.seen[t] = "heard"]
             q == IF Busy(r, {t}) THEN DeclineBusy(r, t)
                  ELSE IF ~r.shows THEN ReportMissing(r, t)
                  ELSE Starts(r, t, "timer")
         IN Tame(p, q) /\ SameTools(p, q)
<1> DEFINE r == [p EXCEPT !.seen[t] = "heard"]
<1>1. /\ Shape(r) /\ SameTools(p, r) /\ r.loops = p.loops
      /\ r.seen = [p.seen EXCEPT ![t] = "heard"] /\ DOMAIN p.seen = Targets
  BY DEF Shape, Fields, SameTools
<1> HIDE DEF r
<1>2. ASSUME NEW q, Shape(q), SameTools(r, q),
             q.seen = r.seen \/ q.seen = [r.seen EXCEPT ![t] = "declined"],
             \A k \in q.loops : k \in r.loops \/ ~Late(k)
      PROVE  Tame(p, q) /\ SameTools(p, q)
  <2>1. SameTools(p, q)
    BY <1>1, <1>2 DEF SameTools
  <2>2. \A u \in Targets : Acts(q, u) <=> Acts(p, u)
    BY <1>1, <1>2 DEF Acts, Taken
  <2> QED
    BY <1>1, <1>2, <2>1, <2>2 DEF Tame, SameTools
<1>3. Tame(p, DeclineBusy(r, t)) /\ SameTools(p, DeclineBusy(r, t))
  BY <1>1, <1>2, DeclineBusyFacts
<1>4. Tame(p, ReportMissing(r, t)) /\ SameTools(p, ReportMissing(r, t))
  BY <1>1, <1>2, ReportMissingFacts
<1>5. Tame(p, Starts(r, t, "timer")) /\ SameTools(p, Starts(r, t, "timer"))
  BY <1>1, <1>2, StartsFacts DEF Late
<1> QED
  BY <1>3, <1>4, <1>5 DEF r

-----------------------------------------------------------------------------
(* The inductive invariant.  Each part holds until the trouble it names. *)

Granted(l) == l.at = "renewed" /\ l.says = "granted"

Pages == \A w \in Tabs : Shape(tabs[w]) /\ OneActing(tabs[w])

OneLoopEach == "twice" \notin faults => \A w \in Tabs : Single(tabs[w]) /\ LoopsAct(tabs[w])

\* A tab that acts has no session.
Tidy ==
  {"rushed", "twice"} \cap faults = {} =>
    \A w \in Tabs : NoStray(tabs[w]) /\ (Acting(tabs[w]) => tabs[w].state \in Ready)

\* Who may press Go holds the lease, and whoever did holds it until the result is in,
\* or its page is gone.
Pressed(t) ==
  \/ gos[t] = 0
  \/ /\ gos[t] = 1
     /\ \/ helper[t].step = "over"
        \/ helper[t].posts # {} /\ helper[t].holder \in helper[t].posts \cup {GoneTab}

LeaseHeld ==
  {"late", "lost", "twice"} \cap faults = {} =>
    /\ \A t \in Targets : Pressed(t)
    /\ \A w \in Tabs : \A l \in tabs[w].loops :
         Granted(l) => helper[l.target].holder = w /\ gos[l.target] = 0

Ranges == DOMAIN tabs = Tabs /\ helper \in [Targets -> Request] /\ gos \in [Targets -> Nat]

ToolsInv == Ranges /\ Pages /\ OneLoopEach /\ Tidy /\ LeaseHeld

\* The step that SessionKept allows.
Stays ==
  \A w \in Tabs :
    /\ tabs[w].state \in Running /\ tabs[w].up /\ tabs'[w].up
    /\ {"rushed", "twice"} \cap faults = {}
    => tabs'[w].session = tabs[w].session /\ tabs'[w].state # "CONFIGURING"

\* What a step that changes one page has to show of it.
LEMMA PageMoves ==
  ASSUME Ranges, Pages, OneLoopEach, Tidy, NEW w \in Tabs, NEW q,
         tabs' = [tabs EXCEPT ![w] = q], faults \subseteq faults',
         Shape(q), OneActing(q), "twice" \notin faults' => Single(q) /\ LoopsAct(q),
         {"rushed", "twice"} \cap faults' = {} => NoStray(q) /\ (Acting(q) => q.state \in Ready),
         /\ tabs[w].state \in Running /\ tabs[w].up /\ q.up
         /\ {"rushed", "twice"} \cap faults = {}
         => q.session = tabs[w].session /\ q.state # "CONFIGURING"
  PROVE  DOMAIN tabs' = Tabs /\ Pages' /\ OneLoopEach' /\ Tidy' /\ Stays
<1>1. DOMAIN tabs' = Tabs /\ tabs'[w] = q /\ \A v \in Tabs \ {w} : tabs'[v] = tabs[v]
  BY DEF Ranges
<1>2. Pages'
  BY <1>1 DEF Pages
<1>3. OneLoopEach'
  BY <1>1 DEF OneLoopEach
<1>4. Tidy'
  BY <1>1 DEF Tidy
<1>5. Stays
  <2> SUFFICES ASSUME NEW v \in Tabs,
                      tabs[v].state \in Running, tabs[v].up, tabs'[v].up,
                      {"rushed", "twice"} \cap faults = {}
               PROVE  tabs'[v].session = tabs[v].session /\ tabs'[v].state # "CONFIGURING"
    BY DEF Stays
  <2> QED
    BY <1>1 DEF Running
<1> QED
  BY <1>1, <1>2, <1>3, <1>4, <1>5

\* A step that leaves the pages alone.
LEMMA PagesStay ==
  ASSUME Ranges, Pages, OneLoopEach, Tidy, tabs' = tabs, faults \subseteq faults'
  PROVE  DOMAIN tabs' = Tabs /\ Pages' /\ OneLoopEach' /\ Tidy' /\ Stays
<1>1. Stays
  BY DEF Stays, Running
<1> QED
  BY <1>1 DEF Ranges, Pages, OneLoopEach, Tidy

LEMMA BecomesFacts ==
  ASSUME NEW w, NEW q, NEW kinds, Becomes(w, q, kinds)
  PROVE  /\ tabs' = [tabs EXCEPT ![w] = q]
         /\ faults \subseteq faults' /\ kinds \subseteq faults'
         /\ "twice" \notin faults' => Single(q)
BY DEF Becomes, Troubled, If, Single

\* A step that gives nobody the lease, takes it from nobody and drops no result of a
\* request that goes on.
LEMMA LeaseStays ==
  ASSUME LeaseHeld, faults \subseteq faults', gos' = gos,
         \A t \in Targets :
           /\ helper'[t].holder = helper[t].holder
           /\ \/ helper'[t].step = "over"
              \/ /\ helper[t].step # "over"
                 /\ helper[t].posts \subseteq helper'[t].posts,
         \A w \in Tabs : \A l \in tabs'[w].loops :
           Granted(l) => l \in tabs[w].loops /\ l.target \in Targets
  PROVE  LeaseHeld'
<1> SUFFICES ASSUME {"late", "lost", "twice"} \cap faults' = {}
             PROVE  /\ \A t \in Targets : Pressed(t)'
                    /\ \A w \in Tabs : \A l \in tabs'[w].loops :
                         Granted(l) => helper'[l.target].holder = w /\ gos'[l.target] = 0
  BY DEF LeaseHeld
<1>1. {"late", "lost", "twice"} \cap faults = {}
  OBVIOUS
<1>2. \A t \in Targets : Pressed(t)'
  <2> TAKE t \in Targets
  <2>1. Pressed(t)
    BY <1>1 DEF LeaseHeld
  <2> QED
    BY <2>1 DEF Pressed
<1>3. ASSUME NEW w \in Tabs, NEW l \in tabs'[w].loops, Granted(l)
      PROVE  helper'[l.target].holder = w /\ gos'[l.target] = 0
  <2>1. l \in tabs[w].loops /\ l.target \in Targets
    BY <1>3
  <2>2. helper[l.target].holder = w /\ gos[l.target] = 0
    BY <1>1, <1>3, <2>1 DEF LeaseHeld
  <2> QED
    BY <2>1, <2>2
<1> QED
  BY <1>2, <1>3

-----------------------------------------------------------------------------
(* What each kind of step keeps. *)

LEMMA TameKeeps ==
  ASSUME NEW p, NEW q, Tame(p, q)
  PROVE  /\ Shape(q) /\ (OneActing(p) => OneActing(q)) /\ (LoopsAct(p) => LoopsAct(q))
         /\ (Acting(q) <=> Acting(p))
         /\ \A l \in q.loops : Granted(l) => l \in p.loops /\ l.target \in Targets
<1>1. Shape(q) /\ (Acting(q) <=> Acting(p)) /\ (OneActing(p) => OneActing(q))
  BY DEF Tame, Acting, OneActing, Acts
<1>2. ASSUME LoopsAct(p)
      PROVE  LoopsAct(q)
  <2> SUFFICES ASSUME NEW l \in q.loops, Late(l)
               PROVE  Acts(q, l.target)
    BY DEF LoopsAct
  <2>1. l \in p.loops /\ l.target \in Targets
    BY DEF Tame, Shape, IsLoop
  <2> QED
    BY <1>2, <2>1 DEF LoopsAct, Tame
<1>3. \A l \in q.loops : Granted(l) => l \in p.loops /\ l.target \in Targets
  BY DEF Tame, Shape, IsLoop, Granted, Late
<1> QED
  BY <1>1, <1>2, <1>3

LEMMA PursuitKeeps ==
  ASSUME NEW p, NEW q, NEW l \in p.loops, l.at # "busy", Shape(p), Pursuit(p, q, l)
  PROVE  /\ Shape(q) /\ (OneActing(p) => OneActing(q))
         /\ (Single(p) /\ LoopsAct(p) => LoopsAct(q))
         /\ \A k \in q.loops : Granted(k) => k \in p.loops \ {l} /\ k.target \in Targets
<1>1. Shape(q)
  BY DEF Pursuit
<1>2. ASSUME OneActing(p)
      PROVE  OneActing(q)
  <2> SUFFICES ASSUME NEW t \in Targets, NEW u \in Targets, Acts(q, t), Acts(q, u)
               PROVE  t = u
    BY DEF OneActing
  <2>1. Acts(p, t) \/ t = l.target
    BY DEF Pursuit
  <2>2. Acts(p, u) \/ u = l.target
    BY DEF Pursuit
  <2>3. t = l.target \/ u = l.target => Acts(p, l.target) \/ ~Acting(p)
    BY DEF Pursuit
  <2> QED
    BY <1>2, <2>1, <2>2, <2>3 DEF OneActing, Acting, Acts
<1>3. ASSUME Single(p), LoopsAct(p)
      PROVE  LoopsAct(q)
  <2> SUFFICES ASSUME NEW k \in q.loops, Late(k)
               PROVE  Acts(q, k.target)
    BY DEF LoopsAct
  <2>1. k.target \in Targets
    BY <1>1 DEF Shape, IsLoop
  <2>2. CASE k \in p.loops \ {l}
    <3>1. Acts(p, k.target)
      BY <1>3, <2>2 DEF LoopsAct
    <3>2. k.target # l.target
      BY <1>3, <2>2 DEF Single, Crowded, Late
    <3> QED
      BY <2>1, <3>1, <3>2 DEF Pursuit
  <2>3. CASE k \notin p.loops \ {l}
    BY <1>3, <2>3 DEF Pursuit
  <2> QED
    BY <2>2, <2>3
<1>4. \A k \in q.loops : Granted(k) => k \in p.loops \ {l} /\ k.target \in Targets
  BY <1>1 DEF Pursuit, Shape, IsLoop, Granted, Late
<1> QED
  BY <1>1, <1>2, <1>3, <1>4

LEMMA SameToolsPolite ==
  ASSUME NEW p, NEW q, Tame(p, q), SameTools(p, q)
  PROVE  Polite(p, q)
BY DEF Polite, SameTools, NoStray, Running

\* A step that is no pursuit; the helper may have told of a target.
LEMMA PoliteStep ==
  ASSUME ToolsInv, NEW w \in Tabs, NEW q, NEW kinds,
         Polite(tabs[w], q), Becomes(w, q, kinds), UNCHANGED gos,
         UNCHANGED helper
           \/ \E t \in Targets : helper' = [helper EXCEPT ![t].unheard = @ \ {w}],
         Acting(tabs[w]) => \/ "rushed" \in kinds
                            \/ q.state = tabs[w].state
                            \/ tabs[w].state \notin Ready
  PROVE  ToolsInv' /\ Stays
<1> DEFINE p == tabs[w]
<1>1. Shape(p) /\ OneActing(p) /\ DOMAIN tabs = Tabs
  BY DEF ToolsInv, Pages, Ranges
<1>2. /\ tabs' = [tabs EXCEPT ![w] = q] /\ faults \subseteq faults' /\ kinds \subseteq faults'
      /\ ("twice" \notin faults' => Single(q))
  BY BecomesFacts
<1>3. /\ Shape(q) /\ (OneActing(p) => OneActing(q)) /\ (LoopsAct(p) => LoopsAct(q))
      /\ (Acting(q) <=> Acting(p))
      /\ \A l \in q.loops : Granted(l) => l \in p.loops /\ l.target \in Targets
  BY TameKeeps DEF Polite
<1>4. "twice" \notin faults' => Single(q) /\ LoopsAct(q)
  BY <1>2, <1>3 DEF ToolsInv, OneLoopEach
<1>5. {"rushed", "twice"} \cap faults' = {} => NoStray(q) /\ (Acting(q) => q.state \in Ready)
  <2> SUFFICES ASSUME {"rushed", "twice"} \cap faults' = {}
               PROVE  NoStray(q) /\ (Acting(q) => q.state \in Ready)
    OBVIOUS
  <2>1. NoStray(p) /\ (Acting(p) => p.state \in Ready)
    BY <1>2 DEF ToolsInv, Tidy
  <2> QED
    BY <1>2, <1>3, <2>1 DEF Polite
<1>6. DOMAIN tabs' = Tabs /\ Pages' /\ OneLoopEach' /\ Tidy' /\ Stays
  BY <1>1, <1>2, <1>3, <1>4, <1>5, PageMoves DEF ToolsInv, Polite
<1>7. \A v \in Tabs : \A l \in tabs'[v].loops :
        Granted(l) => l \in tabs[v].loops /\ l.target \in Targets
  BY <1>1, <1>2, <1>3 DEF ToolsInv, Pages, Shape, IsLoop
<1>8. /\ helper' \in [Targets -> Request]
      /\ \A u \in Targets : /\ helper'[u].holder = helper[u].holder
                            /\ helper'[u].step = helper[u].step
                            /\ helper'[u].posts = helper[u].posts
  BY DEF ToolsInv, Ranges, Request
<1>9. LeaseHeld'
  BY <1>2, <1>7, <1>8, LeaseStays DEF ToolsInv
<1> QED
  BY <1>6, <1>8, <1>9 DEF ToolsInv, Ranges

\* What a step may do to the helper's view when it is nobody's claim: a result is sent.
LEMMA RepliesFacts ==
  ASSUME helper \in [Targets -> Request], NEW w \in Tabs, NEW t \in Targets, Replies(w, t)
  PROVE  /\ helper' \in [Targets -> Request]
         /\ helper'[t].posts = helper[t].posts \cup {w}
         /\ \A u \in Targets : /\ helper'[u].holder = helper[u].holder
                               /\ helper'[u].step = helper[u].step
                               /\ helper[u].posts \subseteq helper'[u].posts
BY DEF Replies, Request

\* A step of a loop that does not press Go.
LEMMA ChaseStep ==
  ASSUME ToolsInv, NEW w \in Tabs, NEW l \in tabs[w].loops, l.at # "busy", NEW q,
         Chase(tabs[w], q, l), Becomes(w, q, {}), UNCHANGED gos,
         UNCHANGED helper \/ Replies(w, l.target)
  PROVE  ToolsInv' /\ Stays
<1> DEFINE p == tabs[w]
<1>1. Shape(p) /\ OneActing(p) /\ DOMAIN tabs = Tabs /\ l.target \in Targets
  BY DEF ToolsInv, Pages, Ranges, Shape, IsLoop
<1>2. /\ tabs' = [tabs EXCEPT ![w] = q] /\ faults \subseteq faults'
      /\ ("twice" \notin faults' => Single(q))
  BY BecomesFacts
<1>3. /\ Shape(q) /\ OneActing(q) /\ (Single(p) /\ LoopsAct(p) => LoopsAct(q))
      /\ \A k \in q.loops : Granted(k) => k \in p.loops \ {l} /\ k.target \in Targets
  BY <1>1, PursuitKeeps DEF Chase
<1>4. "twice" \notin faults' => Single(q) /\ LoopsAct(q)
  BY <1>2, <1>3 DEF ToolsInv, OneLoopEach
<1>5. {"rushed", "twice"} \cap faults' = {} => NoStray(q) /\ (Acting(q) => q.state \in Ready)
  <2> SUFFICES ASSUME {"rushed", "twice"} \cap faults' = {}
               PROVE  NoStray(q) /\ (Acting(q) => q.state \in Ready)
    OBVIOUS
  <2>1. NoStray(p) /\ (Acting(p) => p.state \in Ready)
    BY <1>2 DEF ToolsInv, Tidy
  <2>2. NoStray(q)
    BY <2>1 DEF Chase, SameTools, NoStray
  <2>3. Acting(q) => Acting(p) \/ p.state \in Ready
    BY DEF Chase, Pursuit, Acting, Acts
  <2> QED
    BY <2>1, <2>2, <2>3 DEF Chase, SameTools
<1>6. p.state \in Running => q.session = p.session /\ q.state # "CONFIGURING"
  BY DEF Chase, SameTools, Running
<1>7. DOMAIN tabs' = Tabs /\ Pages' /\ OneLoopEach' /\ Tidy' /\ Stays
  BY <1>1, <1>2, <1>3, <1>4, <1>5, <1>6, PageMoves DEF ToolsInv
<1>8. \A v \in Tabs : \A k \in tabs'[v].loops :
        Granted(k) => k \in tabs[v].loops /\ k.target \in Targets
  BY <1>1, <1>2, <1>3 DEF ToolsInv, Pages, Shape, IsLoop
<1>9. /\ helper' \in [Targets -> Request]
      /\ \A u \in Targets : /\ helper'[u].holder = helper[u].holder
                            /\ helper'[u].step = helper[u].step
                            /\ helper[u].posts \subseteq helper'[u].posts
  BY <1>1, RepliesFacts DEF ToolsInv, Ranges
<1>10. LeaseHeld'
  BY <1>2, <1>8, <1>9, LeaseStays DEF ToolsInv
<1> QED
  BY <1>7, <1>9, <1>10 DEF ToolsInv, Ranges

\* A step of the helper alone, or of what it hears, that leaves the lease.
LEMMA HelperStep ==
  ASSUME ToolsInv, UNCHANGED <<tabs, gos>>, faults \subseteq faults',
         helper' \in [Targets -> Request],
         \A t \in Targets :
           /\ helper'[t].holder = helper[t].holder
           /\ \/ helper'[t].step = "over"
              \/ helper[t].step # "over" /\ helper[t].posts \subseteq helper'[t].posts
  PROVE  ToolsInv' /\ Stays
<1>1. DOMAIN tabs' = Tabs /\ Pages' /\ OneLoopEach' /\ Tidy' /\ Stays
  BY PagesStay DEF ToolsInv
<1>2. \A v \in Tabs : \A k \in tabs'[v].loops :
        Granted(k) => k \in tabs[v].loops /\ k.target \in Targets
  BY DEF ToolsInv, Pages, Shape, IsLoop
<1>3. LeaseHeld'
  BY <1>2, LeaseStays DEF ToolsInv
<1> QED
  BY <1>1, <1>3 DEF ToolsInv, Ranges

-----------------------------------------------------------------------------
(* The steps of the user, of a session and of an apply. *)

LEMMA UsesStep ==
  ASSUME ToolsInv, NEW w \in Tabs, NEW q, Uses(w, q), Polite(tabs[w], q)
  PROVE  ToolsInv' /\ Stays
<1>1. /\ Becomes(w, q, If(Acting(tabs[w]), "rushed")) /\ UNCHANGED <<helper, gos>>
      /\ (Acting(tabs[w]) => "rushed" \in If(Acting(tabs[w]), "rushed"))
  BY DEF Uses, If
<1> QED
  BY <1>1, PoliteStep

LEMMA EnvironmentStep ==
  ASSUME ToolsInv, NEW w \in Tabs, NEW q, Environment(w, q), Polite(tabs[w], q),
         tabs[w].state \in Running
  PROVE  ToolsInv' /\ Stays
BY PoliteStep DEF Environment, Running, Ready

\* A step that touches neither a session nor a pursuit, and puts no placeholder.
LEMMA TouchPolite ==
  ASSUME NEW p, NEW v, Shape(p)
  PROVE  /\ Polite(p, [p EXCEPT !.line = v]) /\ Polite(p, [p EXCEPT !.hovered = v])
         /\ Polite(p, [p EXCEPT !.selected = v]) /\ Polite(p, [p EXCEPT !.locked = v])
         /\ Polite(p, [p EXCEPT !.shows = v])
         /\ Polite(p, [p EXCEPT !.wrapped = v, !.there = FALSE])
<1>1. ASSUME NEW q, SameLoops(p, q), q.state = p.state, q.kind = p.kind, q.box = p.box,
             q.there = p.there \/ ~q.there, q.kept = p.kept, q.session = p.session, q.mode = p.mode
      PROVE  Polite(p, q)
  <2>1. NoStray(p) => NoStray(q)
    BY <1>1 DEF NoStray, SameLoops
  <2> QED
    BY <1>1, <2>1, EditPolite
<1>2. Polite(p, [p EXCEPT !.line = v])
  <2> DEFINE q == [p EXCEPT !.line = v]
  <2>1. /\ SameLoops(p, q) /\ q.state = p.state /\ q.kind = p.kind /\ q.box = p.box
        /\ (q.there = p.there \/ ~q.there) /\ q.kept = p.kept /\ q.session = p.session
        /\ q.mode = p.mode
    BY DEF SameLoops, Shape, Fields
  <2> HIDE DEF q
  <2>2. Polite(p, q)
    BY <1>1, <2>1
  <2> QED
    BY <2>2 DEF q
<1>3. Polite(p, [p EXCEPT !.hovered = v])
  <2> DEFINE q == [p EXCEPT !.hovered = v]
  <2>1. /\ SameLoops(p, q) /\ q.state = p.state /\ q.kind = p.kind /\ q.box = p.box
        /\ (q.there = p.there \/ ~q.there) /\ q.kept = p.kept /\ q.session = p.session
        /\ q.mode = p.mode
    BY DEF SameLoops, Shape, Fields
  <2> HIDE DEF q
  <2>2. Polite(p, q)
    BY <1>1, <2>1
  <2> QED
    BY <2>2 DEF q
<1>4. Polite(p, [p EXCEPT !.selected = v])
  <2> DEFINE q == [p EXCEPT !.selected = v]
  <2>1. /\ SameLoops(p, q) /\ q.state = p.state /\ q.kind = p.kind /\ q.box = p.box
        /\ (q.there = p.there \/ ~q.there) /\ q.kept = p.kept /\ q.session = p.session
        /\ q.mode = p.mode
    BY DEF SameLoops, Shape, Fields
  <2> HIDE DEF q
  <2>2. Polite(p, q)
    BY <1>1, <2>1
  <2> QED
    BY <2>2 DEF q
<1>5. Polite(p, [p EXCEPT !.locked = v])
  <2> DEFINE q == [p EXCEPT !.locked = v]
  <2>1. /\ SameLoops(p, q) /\ q.state = p.state /\ q.kind = p.kind /\ q.box = p.box
        /\ (q.there = p.there \/ ~q.there) /\ q.kept = p.kept /\ q.session = p.session
        /\ q.mode = p.mode
    BY DEF SameLoops, Shape, Fields
  <2> HIDE DEF q
  <2>2. Polite(p, q)
    BY <1>1, <2>1
  <2> QED
    BY <2>2 DEF q
<1>6. Polite(p, [p EXCEPT !.shows = v])
  <2> DEFINE q == [p EXCEPT !.shows = v]
  <2>1. /\ SameLoops(p, q) /\ q.state = p.state /\ q.kind = p.kind /\ q.box = p.box
        /\ (q.there = p.there \/ ~q.there) /\ q.kept = p.kept /\ q.session = p.session
        /\ q.mode = p.mode
    BY DEF SameLoops, Shape, Fields
  <2> HIDE DEF q
  <2>2. Polite(p, q)
    BY <1>1, <2>1
  <2> QED
    BY <2>2 DEF q
<1>7. Polite(p, [p EXCEPT !.wrapped = v, !.there = FALSE])
  <2> DEFINE q == [p EXCEPT !.wrapped = v, !.there = FALSE]
  <2>1. /\ SameLoops(p, q) /\ q.state = p.state /\ q.kind = p.kind /\ q.box = p.box
        /\ (q.there = p.there \/ ~q.there) /\ q.kept = p.kept /\ q.session = p.session
        /\ q.mode = p.mode
    BY DEF SameLoops, Shape, Fields
  <2> HIDE DEF q
  <2>2. Polite(p, q)
    BY <1>1, <2>1
  <2> QED
    BY <2>2 DEF q
<1> QED
  BY <1>2, <1>3, <1>4, <1>5, <1>6, <1>7

LEMMA PointStep ==
  ASSUME ToolsInv, NEW w \in Tabs, NEW i, Point(w, i)
  PROVE  ToolsInv' /\ Stays
<1> DEFINE p == tabs[w]
           q == IF p.insert THEN [p EXCEPT !.line = i]
                ELSE IF p.pick /\ i # 0 THEN [p EXCEPT !.hovered = Over(i)] ELSE p
<1>1. Shape(p)
  BY DEF ToolsInv, Pages
<1>2. Polite(p, [p EXCEPT !.line = i])
  BY <1>1, TouchPolite
<1>3. Polite(p, [p EXCEPT !.hovered = Over(i)])
  BY <1>1, TouchPolite
<1>4. q # p /\ Becomes(w, q, {}) /\ UNCHANGED <<helper, gos>>
  BY DEF Point
<1>5. Polite(p, q)
  BY <1>2, <1>3, <1>4
<1>6. q.state = p.state
  BY <1>1 DEF Shape, Fields
<1> HIDE DEF q
<1> QED
  BY <1>4, <1>5, <1>6, PoliteStep

LEMMA ClickStep ==
  ASSUME ToolsInv, NEW w \in Tabs, NEW i, Click(w, i)
  PROVE  ToolsInv' /\ Stays
<1> DEFINE p == tabs[w]
<1>1. Shape(p) /\ SameLoops(p, p)
  BY DEF ToolsInv, Pages, SameLoops
<1>2. CASE p.state = "CONFIGURING" /\ Uses(w, IF p.kind = "insert" THEN CancelInsert(p)
                                             ELSE [ExitToPicking(p) EXCEPT !.hovered = None])
  BY <1>1, <1>2, CancelPolite, ExitPolite, UsesStep
<1>3. CASE p.state = "PICKING" /\ Uses(w, Place(p))
  BY <1>1, <1>3, PlacePolite, UsesStep
<1>4. CASE p.state = "PICKING" /\ Uses(w, Configure(p, p.hovered))
  BY <1>1, <1>4, ConfigurePolite, UsesStep
<1> QED
  BY <1>2, <1>3, <1>4 DEF Click

LEMMA EscapeStep ==
  ASSUME ToolsInv, NEW w \in Tabs, Escape(w)
  PROVE  ToolsInv' /\ Stays
<1> DEFINE p == tabs[w]
<1>1. Shape(p) /\ SameLoops(p, p)
  BY DEF ToolsInv, Pages, SameLoops
<1>2. CASE p.state = "CONFIGURING" /\ Uses(w, IF p.kind = "insert" THEN CancelInsert(p)
                                             ELSE ExitToPicking(p))
  BY <1>1, <1>2, CancelPolite, ExitPolite, UsesStep
<1>3. CASE Uses(w, SessionOver(p))
  BY <1>1, <1>3, SessionOverPolite, UsesStep
<1>4. CASE p.state = "PICKING" /\ Uses(w, IF p.insert THEN ToggleInsert(p)
                                         ELSE IF p.pick THEN TogglePick(p) ELSE SetState(p, "IDLE"))
  BY <1>1, <1>4, ToggleInsertPolite, TogglePickPolite, IdlePolite, UsesStep
<1> QED
  BY <1>2, <1>3, <1>4 DEF Escape

LEMMA ArrowStep ==
  ASSUME ToolsInv, NEW w \in Tabs, NEW d, Arrow(w, d)
  PROVE  ToolsInv' /\ Stays
<1> DEFINE p == tabs[w]
<1>1. Shape(p)
  BY DEF ToolsInv, Pages
<1>2. Polite(p, [p EXCEPT !.hovered = Sibling(p.hovered, d)])
  BY <1>1, TouchPolite
<1>3. Polite(p, [p EXCEPT !.selected = Beside(p, d)])
  BY <1>1, TouchPolite
<1> QED
  BY <1>2, <1>3, UsesStep DEF Arrow

LEMMA UserStep ==
  ASSUME ToolsInv, NEW w \in Tabs, User(w)
  PROVE  ToolsInv' /\ Stays
<1> DEFINE p == tabs[w]
<1>1. Shape(p) /\ SameLoops(p, p)
  BY DEF ToolsInv, Pages, SameLoops
<1>2. CASE \E i \in DOMAIN Points : Click(w, i)
  BY <1>2, ClickStep
<1>3. CASE PressPick(w)
  BY <1>1, <1>3, TogglePickPolite, UsesStep DEF PressPick
<1>4. CASE PressInsert(w)
  BY <1>1, <1>4, ToggleInsertPolite, UsesStep DEF PressInsert
<1>5. CASE Escape(w)
  BY <1>5, EscapeStep
<1>6. CASE Enter(w)
  BY <1>1, <1>6, ConfigurePolite, UsesStep DEF Enter
<1>7. CASE RemoveSelection(w)
  <2>1. p.state = "CONFIGURING"
        /\ Uses(w, IF p.kind = "insert" THEN CancelInsert(p)
                   ELSE [ExitToPicking([p EXCEPT !.selected = None]) EXCEPT !.hovered = None])
    BY <1>7 DEF RemoveSelection
  <2>2. Polite(p, CancelInsert(p))
    BY <1>1, CancelPolite
  <2>3. Polite(p, [ExitToPicking([p EXCEPT !.selected = None]) EXCEPT !.hovered = None])
    BY <1>1, <2>1, ExitPolite
  <2> QED
    BY <2>1, <2>2, <2>3, UsesStep
<1>8. CASE \E d \in {1, -1} : Arrow(w, d)
  BY <1>8, ArrowStep
<1>9. CASE Go(w)
  BY <1>1, <1>9, GoPolite, UsesStep DEF Go
<1>10. CASE Create(w)
  <2>1. /\ p.state = "CONFIGURING" /\ p.kind = "insert" /\ p.box # NoBox
        /\ Uses(w, Begins([p EXCEPT !.selected = "placeholder",
                                    !.kept = [p.box EXCEPT !.implicit = FALSE]], "insert"))
    BY <1>10 DEF Create
  <2> QED
    BY <1>1, <2>1, CreatePolite, UsesStep
<1>11. CASE \E drag \in Drags : Resize(w, drag)
  <2>1. PICK drag \in Drags : Resize(w, drag)
    BY <1>11
  <2>2. /\ p.state = "CONFIGURING" /\ p.box # NoBox
        /\ Uses(w, [p EXCEPT !.box = ResizeFromEdge(p.box, drag.edge, drag.dx, drag.dy, layout.width)])
    BY <2>1 DEF Resize
  <2> QED
    BY <1>1, <2>2, ResizePolite, UsesStep
<1>12. CASE ApplyRuns(w)
  <2>1. Polite(p, [p EXCEPT !.locked = TRUE])
    BY <1>1, TouchPolite
  <2> QED
    BY <1>12, <2>1, UsesStep DEF ApplyRuns
<1> QED
  BY <1>2, <1>3, <1>4, <1>5, <1>6, <1>7, <1>8, <1>9, <1>10, <1>11, <1>12 DEF User

LEMMA ApplyEndsStep ==
  ASSUME ToolsInv, NEW w \in Tabs, ApplyEnds(w)
  PROVE  ToolsInv' /\ Stays
<1> DEFINE p == tabs[w]
           r == [p EXCEPT !.locked = FALSE]
           q == RetryDeclined(r)
<1>1. Shape(p)
  BY DEF ToolsInv, Pages
<1>2. /\ SameLoops(p, r) /\ r.state = p.state /\ r.kind = p.kind /\ r.box = p.box
      /\ r.there = p.there /\ r.kept = p.kept /\ r.session = p.session /\ r.mode = p.mode
  BY <1>1 DEF SameLoops, Shape, Fields
<1>3. /\ \/ Becomes(w, q, If(Acting(p), "rushed"))
         \/ Becomes(w, r, If(Acting(p), "rushed") \cup {"decision"})
      /\ UNCHANGED <<helper, gos>>
  BY DEF ApplyEnds
<1>4. Acting(p) => "rushed" \in If(Acting(p), "rushed")
  BY DEF If
<1> HIDE DEF r
<1>5. Tame(r, q) /\ SameTools(r, q)
  BY <1>2, RetryFacts DEF SameLoops
<1>6. Tame(p, q)
  BY <1>2, <1>5, TameSame, TameTransitive
<1> HIDE DEF q
<1>7. Polite(p, q)
  <2>1. NoStray(p) => NoStray(q)
    BY <1>2, <1>5 DEF NoStray, SameTools, SameLoops
  <2> QED
    BY <1>2, <1>5, <1>6, <2>1 DEF Polite, SameTools, Running
<1>8. Polite(p, r)
  BY <1>2, EditPolite DEF NoStray, SameLoops
<1> QED
  BY <1>3, <1>4, <1>7, <1>8, PoliteStep

LEMMA SessionStep ==
  ASSUME ToolsInv, NEW w \in Tabs, Session(w)
  PROVE  ToolsInv' /\ Stays
<1> DEFINE p == tabs[w]
<1>1. Shape(p) /\ SameLoops(p, p)
  BY DEF ToolsInv, Pages, SameLoops
<1>2. CASE WrapperLands(w)
  <2>1. Polite(p, [p EXCEPT !.wrapped = TRUE, !.there = FALSE])
    BY <1>1, TouchPolite
  <2> QED
    BY <1>2, <2>1, EnvironmentStep DEF WrapperLands, Running
<1>3. CASE EnsurePlaceholder(w)
  <2>1. PICK e : /\ p.state = "GENERATING" /\ p.mode = "insert" /\ p.kept # NoBox
                 /\ Environment(w, Recreate(p, e))
    BY <1>3 DEF EnsurePlaceholder
  <2> QED
    BY <1>1, <2>1, RecreatePolite, EnvironmentStep DEF Running
<1>4. CASE VariantsArrive(w)
  <2>1. p.state = "GENERATING"
        /\ Environment(w, LET q == SetState(p, "CYCLING")
                          IN IF p.mode = "insert" THEN FinalizeInsert(q) ELSE q)
    BY <1>4 DEF VariantsArrive
  <2> QED
    BY <1>1, <2>1, VariantsPolite, EnvironmentStep DEF Running
<1>5. CASE SessionEnds(w)
  BY <1>1, <1>5, SessionOverPolite, EnvironmentStep DEF SessionEnds, Running
<1> QED
  BY <1>2, <1>3, <1>4, <1>5 DEF Session

LEMMA RerenderStep ==
  ASSUME ToolsInv, NEW w \in Tabs, Rerender(w)
  PROVE  ToolsInv' /\ Stays
<1> DEFINE p == tabs[w]
<1>1. Shape(p)
  BY DEF ToolsInv, Pages
<1>2. ASSUME NEW shows, NEW kinds, Becomes(w, [p EXCEPT !.shows = shows], kinds),
             UNCHANGED <<helper, gos>>
      PROVE  ToolsInv' /\ Stays
  <2> DEFINE q == [p EXCEPT !.shows = shows]
  <2>1. Polite(p, q)
    BY <1>1, TouchPolite
  <2>2. q.state = p.state
    BY <1>1 DEF Shape, Fields
  <2>3. Becomes(w, q, kinds)
    BY <1>2
  <2> HIDE DEF q
  <2> QED
    BY <1>2, <2>1, <2>2, <2>3, PoliteStep
<1> QED
  BY <1>2 DEF Rerender

-----------------------------------------------------------------------------
(* The steps of a loop that do not reach the helper. *)

LEMMA HearTargetStep ==
  ASSUME ToolsInv, NEW w \in Tabs, NEW t \in Targets, HearTarget(w, t)
  PROVE  ToolsInv' /\ Stays
<1> DEFINE p == tabs[w]
           r == [p EXCEPT !.seen[t] = "heard"]
           q == IF Taken(p, t) THEN p
                ELSE IF Busy(r, {t}) THEN DeclineBusy(r, t)
                ELSE IF ~r.shows THEN ReportMissing(r, t)
                ELSE Starts(r, t, "timer")
<1>1. Shape(p)
  BY DEF ToolsInv, Pages
<1>2. Tame(p, q) /\ SameTools(p, q)
  <2>1. CASE Taken(p, t)
    BY <1>1, <2>1 DEF Tame, SameTools
  <2>2. CASE ~Taken(p, t)
    BY <1>1, <2>2, HeardTame
  <2> QED
    BY <2>1, <2>2
<1>3. Becomes(w, q, {}) /\ UNCHANGED gos /\ helper' = [helper EXCEPT ![t].unheard = @ \ {w}]
  BY DEF HearTarget
<1> HIDE DEF q
<1>4. q.state = p.state
  BY <1>2 DEF SameTools
<1> QED
  BY <1>2, <1>3, <1>4, SameToolsPolite, PoliteStep

LEMMA ProceedsStep ==
  ASSUME ToolsInv, NEW w \in Tabs, NEW l \in tabs[w].loops, l.at # "busy", NEW q,
         Proceeds(w, q), Chase(tabs[w], q, l)
  PROVE  ToolsInv' /\ Stays
BY ChaseStep DEF Proceeds

LEMMA OwnStep ==
  ASSUME ToolsInv, NEW w \in Tabs, NEW l \in tabs[w].loops,
         \/ TimerFires(w, l) \/ RenewAfterScroll(w, l) \/ HearReport(w, l) \/ Watch(w, l)
  PROVE  ToolsInv' /\ Stays
<1> DEFINE p == tabs[w]
           t == l.target
           d == Drop(p, l)
<1>1. Shape(p)
  BY DEF ToolsInv, Pages
<1>2. /\ Chase(p, ClaimAndAct(d, t), l) /\ Chase(p, DeclineBusy(d, t), l)
      /\ Chase(p, ReportMissing(d, t), l) /\ Chase(p, d, l)
  BY <1>1, ClaimChases, DropChases
<1> HIDE DEF d
<1>3. CASE TimerFires(w, l)
  BY <1>2, <1>3, ProceedsStep DEF TimerFires, d
<1>4. CASE RenewAfterScroll(w, l)
  <2>1. Chase(p, At(p, l, "renew", "none"), l)
    BY <1>1, <1>4, MoveChases DEF RenewAfterScroll, Late
  <2> QED
    BY <1>4, <2>1, ProceedsStep DEF RenewAfterScroll
<1>5. CASE HearReport(w, l)
  <2>1. Chase(p, At(p, l, "watch", "none"), l)
    BY <1>1, MoveChases
  <2> QED
    BY <1>2, <1>5, <2>1, ProceedsStep DEF HearReport, d
<1>6. CASE Watch(w, l)
  BY <1>2, <1>6, ProceedsStep DEF Watch, d
<1> QED
  BY <1>3, <1>4, <1>5, <1>6

LEMMA HearClaimStep ==
  ASSUME ToolsInv, NEW w \in Tabs, NEW l \in tabs[w].loops, HearClaim(w, l)
  PROVE  ToolsInv' /\ Stays
<1> DEFINE p == tabs[w]
           r == [p EXCEPT !.seen[l.target] = "denied"]
           acted == ActOn(w, l)
<1>1. Shape(p)
  BY DEF ToolsInv, Pages
<1>2. Chase(p, acted, l)
  BY <1>1, ActOnChases
<1>3. Chase(p, At(r, l, "timer", "none"), l) /\ Chase(p, Drop(r, l), l)
  BY <1>1, DeniedChases
<1>4. l.at # "busy" /\ UNCHANGED gos
  BY DEF HearClaim
<1>5. \/ Becomes(w, acted, {}) /\ (UNCHANGED helper \/ Replies(w, l.target))
      \/ Becomes(w, At(r, l, "timer", "none"), {}) /\ UNCHANGED helper
      \/ Becomes(w, Drop(r, l), {}) /\ UNCHANGED helper
  BY DEF HearClaim
<1> HIDE DEF acted
<1> QED
  BY <1>2, <1>3, <1>4, <1>5, ChaseStep

\* Go is pressed by who holds the lease, and nobody has pressed before.
LEMMA GoForStep ==
  ASSUME ToolsInv, NEW w \in Tabs, NEW l \in tabs[w].loops, GoFor(w, l)
  PROVE  ToolsInv' /\ Stays
<1> DEFINE p == tabs[w]
           t == l.target
           d == Drop(p, l)
           c == PickFor(d)
           b == Begins(c, "replace")
           done(q) == [q EXCEPT !.seen[t] = "done"]
<1>1. /\ Shape(p) /\ OneActing(p) /\ DOMAIN tabs = Tabs /\ t \in Targets /\ IsLoop(l)
      /\ l.at = "renewed" /\ Late(l) /\ l.at # "busy"
  BY DEF ToolsInv, Pages, Ranges, Shape, IsLoop, GoFor, Late
<1>2. Shape(d) /\ SameTools(p, d) /\ d.loops = p.loops \ {l} /\ d.seen = p.seen
  BY <1>1, DropFacts
<1> HIDE DEF d
\* What is picked, after an insert gave way.
<1>3. /\ Tame(d, c) /\ c.state = "CONFIGURING" /\ c.up = d.up /\ c.session = d.session
      /\ (NoStray(d) /\ d.state \in Ready => (c.up => ~c.there))
  <2> DEFINE g == IF d.state = "CONFIGURING" /\ d.kind = "insert" THEN CancelInsert(d) ELSE d
  <2>1. /\ Tame(d, CancelInsert(d)) /\ ~CancelInsert(d).there
        /\ CancelInsert(d).session = d.session
    BY <1>2, CancelFacts
  <2>2. /\ Tame(d, g) /\ g.session = d.session
        /\ (NoStray(d) /\ d.state \in Ready => (g.up => ~g.there))
    BY <1>2, <2>1 DEF Tame, NoStray, Ready
  <2> HIDE DEF g
  <2>3. /\ Tame(g, Configure(g, AgentPick)) /\ Configure(g, AgentPick).state = "CONFIGURING"
        /\ Configure(g, AgentPick).up = g.up /\ Configure(g, AgentPick).there = g.there
        /\ Configure(g, AgentPick).session = g.session
    BY <2>2, ConfigureFacts DEF Tame
  <2>4. Tame(d, Configure(g, AgentPick))
    BY <2>2, <2>3, TameTransitive
  <2>5. c = Configure(g, AgentPick)
    BY DEF PickFor, g
  <2>6. g.up = d.up
    BY <2>2 DEF Tame
  <2> QED
    BY <2>2, <2>3, <2>4, <2>5, <2>6
<1> HIDE DEF c
<1>4. /\ Tame(c, b) /\ b.state = "GENERATING" /\ b.up = c.up /\ b.there = c.there
  BY <1>3, BeginsFacts DEF Tame
<1> HIDE DEF b
<1>5. Tame(d, b)
  BY <1>3, <1>4, TameTransitive
\* The target is done: whoever else acts acted before.
<1>6. ASSUME NEW q, Tame(d, q)
      PROVE  /\ Shape(done(q)) /\ OneActing(done(q)) /\ done(q).up = p.up
             /\ done(q).state = q.state /\ done(q).there = q.there /\ done(q).session = q.session
             /\ done(q).kind = q.kind /\ done(q).box = q.box /\ done(q).kept = q.kept
             /\ done(q).mode = q.mode
             /\ (Single(p) /\ LoopsAct(p) => LoopsAct(done(q)) /\ ~Acting(done(q)))
             /\ \A k \in done(q).loops :
                  Granted(k) => k \in p.loops \ {l} /\ k.target \in Targets
  <2> DEFINE e == done(q)
  <2>1. Shape(q) /\ DOMAIN q.seen = Targets /\ q.up = p.up
    BY <1>2, <1>6 DEF Tame, Shape, SameTools
  <2>2. /\ Shape(e) /\ e.loops = q.loops /\ e.seen = [q.seen EXCEPT ![t] = "done"]
        /\ e.up = q.up /\ e.state = q.state /\ e.there = q.there /\ e.session = q.session
        /\ e.kind = q.kind /\ e.box = q.box /\ e.kept = q.kept /\ e.mode = q.mode
    BY <1>1, <2>1 DEF Shape, Fields
  <2> HIDE DEF e
  <2>3. ~Acts(e, t) /\ \A u \in Targets : Acts(e, u) => Acts(p, u)
    BY <1>1, <1>2, <1>6, <2>1, <2>2 DEF Acts, Tame
  <2>4. OneActing(e)
    BY <1>1, <2>3 DEF OneActing
  <2>5. \A k \in e.loops : Late(k) => k \in p.loops \ {l} /\ k.target \in Targets
    BY <1>2, <1>6, <2>1, <2>2 DEF Tame, Shape, IsLoop
  <2>6. ASSUME Single(p), LoopsAct(p)
        PROVE  LoopsAct(e) /\ ~Acting(e)
    <3>1. Acts(p, t)
      BY <1>1, <2>6 DEF LoopsAct
    <3>2. \A u \in Targets : Acts(p, u) => u = t
      BY <1>1, <3>1 DEF OneActing
    <3>3. \A k \in e.loops : ~Late(k)
      <4> SUFFICES ASSUME NEW k \in e.loops, Late(k)
                   PROVE  FALSE
        OBVIOUS
      <4>1. k \in p.loops \ {l} /\ k.target \in Targets
        BY <2>5
      <4>2. Acts(p, k.target)
        BY <2>6, <4>1 DEF LoopsAct
      <4>3. k.target = t
        BY <3>2, <4>1, <4>2
      <4> QED
        BY <1>1, <2>6, <4>1, <4>3 DEF Single, Crowded, Late
    <3>4. ~Acting(e)
      BY <2>3, <3>2 DEF Acting, Acts
    <3> QED
      BY <3>3, <3>4 DEF LoopsAct
  <2> QED
    BY <2>1, <2>2, <2>4, <2>5, <2>6 DEF e, Granted, Late
<1> HIDE DEF done
\* What the step does to the page, and to what is known of it.
<1>7. PICK q, kinds :
        /\ Tame(d, q) /\ Becomes(w, done(q), kinds)
        /\ \/ /\ q = b /\ l.says = "granted"
              /\ gos' = [gos EXCEPT ![t] = @ + 1] /\ Replies(w, t)
           \/ q = c /\ Replies(w, t) /\ UNCHANGED gos
           \/ q = d /\ UNCHANGED <<helper, gos>>
  <2>1. Tame(d, d)
    BY <1>2 DEF Tame
  <2>2. \/ /\ Becomes(w, done(b), {}) /\ l.says = "granted"
           /\ gos' = [gos EXCEPT ![t] = @ + 1] /\ Replies(w, t)
        \/ Becomes(w, done(c), {}) /\ Replies(w, t) /\ UNCHANGED gos
        \/ Becomes(w, done(d), {"stood"}) /\ UNCHANGED <<helper, gos>>
    BY DEF GoFor, done, b, c, d
  <2> QED
    BY <1>3, <1>5, <2>1, <2>2
<1> DEFINE e == done(q)
<1>8. /\ Shape(e) /\ OneActing(e) /\ e.up = p.up /\ e.state = q.state /\ e.there = q.there
      /\ e.session = q.session /\ e.kind = q.kind /\ e.box = q.box /\ e.kept = q.kept
      /\ e.mode = q.mode
      /\ (Single(p) /\ LoopsAct(p) => LoopsAct(e) /\ ~Acting(e))
      /\ \A k \in e.loops : Granted(k) => k \in p.loops \ {l} /\ k.target \in Targets
  BY <1>6, <1>7
<1> HIDE DEF e
<1>9. /\ tabs' = [tabs EXCEPT ![w] = e] /\ faults \subseteq faults'
      /\ ("twice" \notin faults' => Single(e))
  BY <1>7, BecomesFacts DEF e
<1>10. "twice" \notin faults => Single(p) /\ LoopsAct(p)
  BY DEF ToolsInv, OneLoopEach
<1>11. "twice" \notin faults' => Single(e) /\ LoopsAct(e)
  BY <1>8, <1>9, <1>10
<1>12. {"rushed", "twice"} \cap faults = {} => p.state \in Ready /\ NoStray(p)
  <2> SUFFICES ASSUME {"rushed", "twice"} \cap faults = {}
               PROVE  p.state \in Ready /\ NoStray(p)
    OBVIOUS
  <2>1. Acts(p, t)
    BY <1>1, <1>10 DEF LoopsAct
  <2>2. Acting(p)
    BY <1>1, <2>1 DEF Acting, Acts
  <2> QED
    BY <2>2 DEF ToolsInv, Tidy
<1>13. ASSUME {"rushed", "twice"} \cap faults' = {}
       PROVE  NoStray(e) /\ (Acting(e) => e.state \in Ready)
  <2>1. {"rushed", "twice"} \cap faults = {}
    BY <1>9, <1>13
  <2>2. p.state \in Ready /\ NoStray(p) /\ ~Acting(e)
    BY <1>8, <1>10, <1>12, <2>1
  <2>3. NoStray(d) /\ d.state \in Ready
    BY <1>2, <2>2 DEF NoStray, SameTools
  <2>4. NoStray(q)
    BY <1>3, <1>4, <1>7, <2>3 DEF NoStray
  <2>5. NoStray(e)
    BY <1>2, <1>7, <1>8, <2>4 DEF NoStray, Tame, SameTools
  <2> QED
    BY <2>2, <2>5
<1>14. ~(p.state \in Running /\ {"rushed", "twice"} \cap faults = {})
  BY <1>12 DEF Ready, Running
<1>15. DOMAIN tabs' = Tabs /\ Pages' /\ OneLoopEach' /\ Tidy' /\ Stays
  BY <1>8, <1>9, <1>11, <1>13, <1>14, PageMoves DEF ToolsInv
<1>16. /\ gos' \in [Targets -> Nat] /\ helper' \in [Targets -> Request]
       /\ \A u \in Targets : /\ helper'[u].holder = helper[u].holder
                             /\ helper'[u].step = helper[u].step
                             /\ helper[u].posts \subseteq helper'[u].posts
  <2>1. gos \in [Targets -> Nat] /\ helper \in [Targets -> Request]
    BY DEF ToolsInv, Ranges
  <2>2. gos' \in [Targets -> Nat]
    BY <1>1, <1>7, <2>1
  <2> QED
    BY <1>1, <1>7, <2>1, <2>2, RepliesFacts
<1>17. LeaseHeld'
  <2>1. CASE UNCHANGED gos
    <3>1. \A v \in Tabs : \A k \in tabs'[v].loops :
            Granted(k) => k \in tabs[v].loops /\ k.target \in Targets
      BY <1>1, <1>8, <1>9 DEF ToolsInv, Pages, Shape, IsLoop
    <3> QED
      BY <1>9, <1>16, <2>1, <3>1, LeaseStays DEF ToolsInv
  <2>2. CASE gos' = [gos EXCEPT ![t] = @ + 1] /\ Replies(w, t) /\ Granted(l)
    <3> SUFFICES ASSUME {"late", "lost", "twice"} \cap faults' = {}
                 PROVE  /\ \A u \in Targets : Pressed(u)'
                        /\ \A v \in Tabs : \A k \in tabs'[v].loops :
                             Granted(k) => helper'[k.target].holder = v /\ gos'[k.target] = 0
      BY DEF LeaseHeld
    <3>1. /\ {"late", "lost", "twice"} \cap faults = {} /\ Single(p)
          /\ gos \in [Targets -> Nat] /\ helper \in [Targets -> Request]
      BY <1>9, <1>10 DEF ToolsInv, Ranges
    <3>2. helper[t].holder = w /\ gos[t] = 0
      BY <2>2, <3>1 DEF ToolsInv, LeaseHeld
    <3>3. helper'[t].posts = helper[t].posts \cup {w}
      BY <1>1, <2>2, <3>1, RepliesFacts
    <3>4. ASSUME NEW u \in Targets
          PROVE  Pressed(u)'
      <4>1. CASE u = t
        <5>1. gos'[t] = 1
          BY <1>1, <2>2, <3>1, <3>2
        <5>2. helper'[t].holder = w /\ w \in helper'[t].posts
          BY <1>1, <1>16, <3>2, <3>3
        <5> QED
          BY <4>1, <5>1, <5>2 DEF Pressed
      <4>2. CASE u # t
        <5>1. Pressed(u)
          BY <3>1 DEF ToolsInv, LeaseHeld
        <5>2. gos'[u] = gos[u]
          BY <2>2, <3>1, <4>2
        <5>3. helper'[u] = helper[u]
          BY <2>2, <3>1, <4>2 DEF Replies
        <5> QED
          BY <5>1, <5>2, <5>3 DEF Pressed
      <4> QED
        BY <4>1, <4>2
    <3>5. ASSUME NEW v \in Tabs, NEW k \in tabs'[v].loops, Granted(k)
          PROVE  helper'[k.target].holder = v /\ gos'[k.target] = 0
      <4>1. k \in tabs[v].loops /\ k.target \in Targets /\ (v = w => k \in p.loops \ {l})
        BY <1>1, <1>8, <1>9, <3>5 DEF ToolsInv, Pages, Shape, IsLoop
      <4>2. helper[k.target].holder = v /\ gos[k.target] = 0
        BY <3>1, <3>5, <4>1 DEF ToolsInv, LeaseHeld
      <4>3. k.target # t
        <5> SUFFICES ASSUME k.target = t PROVE FALSE
          OBVIOUS
        <5>1. v = w
          BY <3>2, <4>2
        <5> QED
          BY <1>1, <3>1, <3>5, <4>1, <5>1 DEF Single, Crowded, Granted
      <4> QED
        BY <1>16, <2>2, <3>1, <4>1, <4>2, <4>3
    <3> QED
      BY <3>4, <3>5
  <2> QED
    BY <1>1, <1>7, <2>1, <2>2 DEF Granted
<1> QED
  BY <1>15, <1>16, <1>17 DEF ToolsInv, Ranges

-----------------------------------------------------------------------------
(* The steps of the helper. *)

\* What becomes of a page whose request the helper answers.
LEMMA AnsweredPage ==
  ASSUME ToolsInv, NEW w \in Tabs, NEW l \in tabs[w].loops, NEW at, NEW says,
         Answered(w, l, at, says), faults \subseteq faults',
         l.at # "busy", at \notin {"scroll", "renew"}, at = "renewed" => l.at = "renew",
         at # "busy"
  PROVE  /\ DOMAIN tabs' = Tabs /\ Pages' /\ OneLoopEach' /\ Tidy' /\ Stays
         /\ \A v \in Tabs : \A k \in tabs'[v].loops :
              Granted(k) => \/ /\ k \in tabs[v].loops /\ k.target \in Targets
                               /\ v = w => k \in tabs[w].loops \ {l}
                            \/ v = w /\ k.target = l.target /\ at = "renewed" /\ says = "granted"
<1> DEFINE p == tabs[w]
           q == At(p, l, at, says)
<1>1. Shape(p) /\ OneActing(p) /\ IsLoop(l) /\ DOMAIN tabs = Tabs
  BY DEF ToolsInv, Pages, Ranges, Shape
<1>2. Shape(q) /\ SameTools(p, q) /\ q.seen = p.seen
  BY <1>1, AtFacts
<1>3. PICK m : /\ q.loops = (p.loops \ {l}) \cup {m}
               /\ m.at = at /\ m.says = says /\ m.target = l.target
  BY <1>1, AtFacts
<1>4. tabs' = [tabs EXCEPT ![w] = q]
  BY DEF Answered
<1> HIDE DEF q
<1>5. OneActing(q) /\ (Acting(q) <=> Acting(p))
  BY <1>1, <1>2 DEF OneActing, Acts, Acting
<1>6. ASSUME Single(p), LoopsAct(p)
      PROVE  Single(q) /\ LoopsAct(q)
  <2>1. Single(q)
    <3> SUFFICES ASSUME NEW j \in q.loops, NEW k \in q.loops,
                        j # k, j.target = k.target, "busy" \notin {j.at, k.at}
                 PROVE  FALSE
      BY DEF Single, Crowded
    <3>1. j \in p.loops \ {l} \/ k \in p.loops \ {l}
      BY <1>3
    <3>2. CASE j \in p.loops \ {l} /\ k \in p.loops \ {l}
      BY <1>6, <3>2 DEF Single, Crowded
    <3>3. CASE j \in p.loops \ {l} /\ k = m
      <4>1. j # l /\ j.target = l.target /\ "busy" \notin {j.at, l.at}
        BY <1>3, <3>3
      <4> QED
        BY <1>6, <3>3, <4>1 DEF Single, Crowded
    <3>4. CASE k \in p.loops \ {l} /\ j = m
      <4>1. k # l /\ k.target = l.target /\ "busy" \notin {k.at, l.at}
        BY <1>3, <3>4
      <4> QED
        BY <1>6, <3>4, <4>1 DEF Single, Crowded
    <3> QED
      BY <1>3, <3>1, <3>2, <3>3, <3>4
  <2>2. LoopsAct(q)
    BY <1>2, <1>3, <1>6 DEF LoopsAct, Acts, Late
  <2> QED
    BY <2>1, <2>2
<1>7. "twice" \notin faults' => Single(q) /\ LoopsAct(q)
  BY <1>6 DEF ToolsInv, OneLoopEach
<1>8. {"rushed", "twice"} \cap faults' = {} => NoStray(q) /\ (Acting(q) => q.state \in Ready)
  <2> SUFFICES ASSUME {"rushed", "twice"} \cap faults' = {}
               PROVE  NoStray(q) /\ (Acting(q) => q.state \in Ready)
    OBVIOUS
  <2>1. NoStray(p) /\ (Acting(p) => p.state \in Ready)
    BY DEF ToolsInv, Tidy
  <2> QED
    BY <1>2, <1>5, <2>1 DEF SameTools, NoStray
<1>9. p.state \in Running => q.session = p.session /\ q.state # "CONFIGURING"
  BY <1>2 DEF SameTools, Running
<1>10. DOMAIN tabs' = Tabs /\ Pages' /\ OneLoopEach' /\ Tidy' /\ Stays
  BY <1>2, <1>4, <1>5, <1>7, <1>8, <1>9, PageMoves DEF ToolsInv
<1>11. ASSUME NEW v \in Tabs, NEW k \in tabs'[v].loops, Granted(k)
       PROVE  \/ /\ k \in tabs[v].loops /\ k.target \in Targets
                 /\ v = w => k \in tabs[w].loops \ {l}
              \/ v = w /\ k.target = l.target /\ at = "renewed" /\ says = "granted"
  <2>1. CASE v # w
    BY <1>1, <1>4, <2>1 DEF ToolsInv, Pages, Shape, IsLoop
  <2>2. CASE v = w
    BY <1>1, <1>3, <1>4, <1>11, <2>2 DEF Granted, Shape, IsLoop
  <2> QED
    BY <2>1, <2>2
<1> QED
  BY <1>10, <1>11

LEMMA TroubledFacts ==
  ASSUME NEW condition, NEW kind, Troubled(If(condition, kind))
  PROVE  faults \subseteq faults' /\ (condition => kind \in faults')
BY DEF Troubled, If

\* The parts of a request.
LEMMA RequestFacts ==
  ASSUME helper \in [Targets -> Request], NEW t \in Targets
  PROVE  LET h == helper[t] IN
         /\ h.step \in {"unasked", "pending", "over"} /\ h.holder \in Holders
         /\ h.words \subseteq Tabs /\ h.unheard \subseteq Tabs /\ h.posts \subseteq Tabs
         /\ DOMAIN h = {"step", "holder", "words", "unheard", "posts"}
BY DEF Request

\* Whoever pressed Go holds the lease while the request is open, or its page is gone.
LEMMA TheLeaseStaysAway ==
  ASSUME Ranges, NEW t \in Targets, Pressed(t), gos[t] # 0, Alive(helper[t])
  PROVE  /\ gos[t] = 1 /\ helper[t].posts # {} /\ helper[t].holder # NoTab
         /\ helper[t].holder \in helper[t].posts \cup {GoneTab}
         /\ \A w \in Tabs : helper[t].holder = w => Overtakes(w, t)
<1>1. helper[t].posts \subseteq Tabs
  BY RequestFacts DEF Ranges
<1> QED
  BY <1>1, ToolsAssumption DEF Pressed, Alive, Overtakes

\* A claim or a renewal that the helper takes, whether its answer arrives or not.
LEMMA ClaimKeeps ==
  ASSUME ToolsInv, NEW w \in Tabs, NEW l \in tabs[w].loops, NEW at, NEW says,
         (l.at = "claim" /\ at = "answered") \/ (l.at = "renew" /\ at = "renewed"),
         Answered(w, l, at, says),
         helper' = [helper EXCEPT ![l.target] = Claimed(@, w)],
         says = "granted" => Alive(helper[l.target]) /\ Ours(helper[l.target], w),
         faults \subseteq faults', Overtakes(w, l.target) => "late" \in faults'
  PROVE  ToolsInv' /\ Stays
<1> DEFINE t    == l.target
           h    == helper[t]
           ours == h.holder \in {NoTab, w}
<1>1. /\ t \in Targets
      /\ helper' = [helper EXCEPT ![t] =
            IF ~Alive(h) THEN h
            ELSE [h EXCEPT !.holder = IF ours THEN w ELSE @, !.words = @ \ {w}]]
      /\ (says = "granted" => Alive(h) /\ ours)
  BY DEF Claimed, Ours, ToolsInv, Pages, Shape, IsLoop
<1>2. faults \subseteq faults' /\ (Overtakes(w, t) => "late" \in faults')
  OBVIOUS
<1>3. gos' = gos /\ Ranges
  BY DEF Answered, ToolsInv
<1>4. /\ DOMAIN tabs' = Tabs /\ Pages' /\ OneLoopEach' /\ Tidy' /\ Stays
      /\ \A v \in Tabs : \A k \in tabs'[v].loops :
           Granted(k) => \/ k \in tabs[v].loops /\ k.target \in Targets
                         \/ v = w /\ k.target = t /\ says = "granted"
  BY <1>2, AnsweredPage
<1>5. /\ helper' \in [Targets -> Request]
      /\ \A u \in Targets : helper'[u].step = helper[u].step /\ helper'[u].posts = helper[u].posts
      /\ \A u \in Targets \ {t} : helper'[u] = helper[u]
      /\ ~Alive(h) => helper'[t] = h
      /\ Alive(h) => helper'[t].holder = IF ours THEN w ELSE h.holder
  <2> DEFINE held == [h EXCEPT !.holder = IF ours THEN w ELSE @, !.words = @ \ {w}]
  <2>1. h \in Request /\ helper \in [Targets -> Request]
    BY <1>1, <1>3 DEF Ranges
  <2>2. /\ held \in Request /\ held.step = h.step /\ held.posts = h.posts
        /\ held.holder = IF ours THEN w ELSE h.holder
    BY <2>1 DEF Request, Holders
  <2>3. helper' = [helper EXCEPT ![t] = IF ~Alive(h) THEN h ELSE held]
    BY <1>1
  <2> HIDE DEF held, h, ours
  <2>4. helper'[t] = (IF ~Alive(h) THEN h ELSE held) /\ \A u \in Targets \ {t} : helper'[u] = helper[u]
    BY <1>1, <2>1, <2>3
  <2> QED
    BY <1>1, <2>1, <2>2, <2>3, <2>4 DEF h
<1>6. LeaseHeld'
  <2> SUFFICES ASSUME {"late", "lost", "twice"} \cap faults' = {}
               PROVE  /\ \A u \in Targets : Pressed(u)'
                      /\ \A v \in Tabs : \A k \in tabs'[v].loops :
                           Granted(k) => helper'[k.target].holder = v /\ gos'[k.target] = 0
    BY DEF LeaseHeld
  <2>1. /\ \A u \in Targets : Pressed(u)
        /\ \A v \in Tabs : \A k \in tabs[v].loops :
             Granted(k) => helper[k.target].holder = v /\ gos[k.target] = 0
        /\ ~Overtakes(w, t)
    BY <1>2 DEF ToolsInv, LeaseHeld
  <2>2. Alive(h) /\ ours => gos[t] = 0
    BY <1>1, <1>3, <2>1, TheLeaseStaysAway
  <2>3. ASSUME NEW u \in Targets
        PROVE  Pressed(u)'
    <3>1. CASE u = t /\ Alive(h) /\ ours
      BY <1>3, <2>2, <3>1 DEF Pressed
    <3>2. CASE ~(u = t /\ Alive(h) /\ ours)
      <4>1. helper'[u].holder = helper[u].holder
        BY <1>5, <3>2
      <4> QED
        BY <1>3, <1>5, <2>1, <4>1 DEF Pressed
    <3> QED
      BY <3>1, <3>2
  <2>4. ASSUME NEW v \in Tabs, NEW k \in tabs'[v].loops, Granted(k)
        PROVE  helper'[k.target].holder = v /\ gos'[k.target] = 0
    <3>1. CASE k \in tabs[v].loops /\ k.target \in Targets
      <4>1. helper[k.target].holder = v /\ gos[k.target] = 0
        BY <2>1, <2>4, <3>1
      <4>2. helper'[k.target].holder = v
        BY <1>5, <3>1, <4>1, ToolsAssumption
      <4> QED
        BY <1>3, <4>1, <4>2
    <3>2. CASE v = w /\ k.target = t /\ says = "granted"
      BY <1>1, <1>3, <1>5, <2>2, <3>2
    <3> QED
      BY <1>4, <2>4, <3>1, <3>2
  <2> QED
    BY <2>3, <2>4
<1> QED
  BY <1>3, <1>4, <1>5, <1>6 DEF ToolsInv, Ranges

LEMMA TakeClaimStep ==
  ASSUME ToolsInv, NEW w \in Tabs, NEW l \in tabs[w].loops, TakeClaim(w, l)
  PROVE  ToolsInv' /\ Stays
<1> DEFINE h    == helper[l.target]
           at   == IF l.at = "claim" THEN "answered" ELSE "renewed"
           says == IF ~Alive(h) THEN "over" ELSE IF Ours(h, w) THEN "granted" ELSE "held"
<1>1. /\ l.at \in {"claim", "renew"} /\ Answered(w, l, at, says)
      /\ helper' = [helper EXCEPT ![l.target] = Claimed(@, w)]
      /\ Troubled(If(Overtakes(w, l.target), "late"))
  BY DEF TakeClaim
<1>2. faults \subseteq faults' /\ (Overtakes(w, l.target) => "late" \in faults')
  BY <1>1, TroubledFacts
<1>3. /\ says = "granted" => Alive(h) /\ Ours(h, w)
      /\ (l.at = "claim" /\ at = "answered") \/ (l.at = "renew" /\ at = "renewed")
  BY <1>1
<1> HIDE DEF says, at
<1> QED
  BY <1>1, <1>2, <1>3, ClaimKeeps

\* A lease that is handed back, or lapses, was not used.
LEMMA LeaseEnds ==
  ASSUME ToolsInv, NEW t \in Targets, gos' = gos, faults \subseteq faults',
         helper' \in [Targets -> Request],
         \A u \in Targets : helper'[u].step = helper[u].step /\ helper'[u].posts = helper[u].posts,
         \A u \in Targets \ {t} : helper'[u].holder = helper[u].holder,
         \A v \in Tabs : \A k \in tabs'[v].loops :
           Granted(k) => k \in tabs[v].loops /\ k.target \in Targets,
         \/ helper'[t].holder = helper[t].holder
         \/ "late" \in faults'
         \/ "twice" \in faults'
         \/ /\ gos[t] = 0 \/ ~Pressed(t)
            /\ \A v \in Tabs : \A k \in tabs'[v].loops :
                 Granted(k) /\ k.target = t => helper[t].holder # v
  PROVE  LeaseHeld'
<1> SUFFICES ASSUME {"late", "lost", "twice"} \cap faults' = {}
             PROVE  /\ \A u \in Targets : Pressed(u)'
                    /\ \A v \in Tabs : \A k \in tabs'[v].loops :
                         Granted(k) => helper'[k.target].holder = v /\ gos'[k.target] = 0
  BY DEF LeaseHeld
<1>1. /\ \A u \in Targets : Pressed(u)
      /\ \A v \in Tabs : \A k \in tabs[v].loops :
           Granted(k) => helper[k.target].holder = v /\ gos[k.target] = 0
  BY DEF ToolsInv, LeaseHeld
<1>2. ASSUME NEW u \in Targets
      PROVE  Pressed(u)'
  <2>1. Pressed(u)
    BY <1>1
  <2>2. CASE helper'[u].holder = helper[u].holder
    BY <2>1, <2>2 DEF Pressed
  <2>3. CASE helper'[u].holder # helper[u].holder
    BY <2>1, <2>3 DEF Pressed
  <2> QED
    BY <2>2, <2>3
<1>3. ASSUME NEW v \in Tabs, NEW k \in tabs'[v].loops, Granted(k)
      PROVE  helper'[k.target].holder = v /\ gos'[k.target] = 0
  <2>1. k \in tabs[v].loops /\ k.target \in Targets
    BY <1>3
  <2>2. helper[k.target].holder = v /\ gos[k.target] = 0
    BY <1>1, <1>3, <2>1
  <2>3. helper'[k.target].holder = helper[k.target].holder
    BY <1>3, <2>1, <2>2
  <2> QED
    BY <2>2, <2>3
<1> QED
  BY <1>2, <1>3

LEMMA ReportedFacts ==
  ASSUME Ranges, NEW w \in Tabs, NEW t \in Targets,
         helper' = [helper EXCEPT ![t] = Reported(@, w)]
  PROVE  /\ helper' \in [Targets -> Request]
         /\ \A u \in Targets : helper'[u].step = helper[u].step /\ helper'[u].posts = helper[u].posts
         /\ \A u \in Targets \ {t} : helper'[u].holder = helper[u].holder
         /\ ~(Alive(helper[t]) /\ helper[t].holder = w) => helper'[t].holder = helper[t].holder
<1> DEFINE h == helper[t]
           back == [h EXCEPT !.words = @ \cup {w}, !.holder = IF @ = w THEN NoTab ELSE @]
<1>1. h \in Request /\ helper \in [Targets -> Request]
  BY DEF Ranges
<1>2. /\ back \in Request /\ back.step = h.step /\ back.posts = h.posts
      /\ back.holder = IF h.holder = w THEN NoTab ELSE h.holder
  BY <1>1 DEF Request, Holders
<1>3. helper' = [helper EXCEPT ![t] = IF Alive(h) THEN back ELSE h]
  BY DEF Reported
<1> HIDE DEF back, h
<1>4. helper'[t] = (IF Alive(h) THEN back ELSE h) /\ \A u \in Targets \ {t} : helper'[u] = helper[u]
  BY <1>1, <1>3
<1> QED
  BY <1>1, <1>2, <1>3, <1>4 DEF h

\* A report that the helper takes, whether its answer arrives or not.
LEMMA ReportKeeps ==
  ASSUME ToolsInv, NEW w \in Tabs, NEW l \in tabs[w].loops, NEW says,
         l.at = "report", Answered(w, l, "reported", says),
         helper' = [helper EXCEPT ![l.target] = Reported(@, w)],
         faults \subseteq faults', Overtakes(w, l.target) => "late" \in faults'
  PROVE  ToolsInv' /\ Stays
<1> DEFINE t == l.target
<1>1. /\ t \in Targets /\ l.at = "report" /\ helper' = [helper EXCEPT ![t] = Reported(@, w)]
  BY DEF ToolsInv, Pages, Shape, IsLoop
<1>2. faults \subseteq faults' /\ (Overtakes(w, t) => "late" \in faults')
  OBVIOUS
<1>3. gos' = gos /\ Ranges
  BY DEF Answered, ToolsInv
<1>4. /\ DOMAIN tabs' = Tabs /\ Pages' /\ OneLoopEach' /\ Tidy' /\ Stays
      /\ \A v \in Tabs : \A k \in tabs'[v].loops :
           Granted(k) => /\ k \in tabs[v].loops /\ k.target \in Targets
                         /\ v = w => k \in tabs[w].loops \ {l}
  BY <1>1, <1>2, AnsweredPage
<1>5. /\ helper' \in [Targets -> Request]
      /\ \A u \in Targets : helper'[u].step = helper[u].step /\ helper'[u].posts = helper[u].posts
      /\ \A u \in Targets \ {t} : helper'[u].holder = helper[u].holder
      /\ ~(Alive(helper[t]) /\ helper[t].holder = w) => helper'[t].holder = helper[t].holder
  BY <1>1, <1>3, ReportedFacts
<1>6. Alive(helper[t]) /\ helper[t].holder = w =>
        \/ "late" \in faults'
        \/ gos[t] = 0 \/ ~Pressed(t)
  BY <1>1, <1>2, <1>3, TheLeaseStaysAway
<1>7. \/ "twice" \in faults'
      \/ helper[t].holder = w =>
           \A v \in Tabs : \A k \in tabs'[v].loops :
             Granted(k) /\ k.target = t => helper[t].holder # v
  <2> SUFFICES ASSUME "twice" \notin faults', helper[t].holder = w,
                      NEW k \in tabs'[w].loops, Granted(k), k.target = t
               PROVE  FALSE
    OBVIOUS
  <2>1. Single(tabs[w])
    BY <1>2 DEF ToolsInv, OneLoopEach
  <2>2. k \in tabs[w].loops \ {l}
    BY <1>4
  <2> QED
    BY <1>1, <2>1, <2>2 DEF Single, Crowded, Granted
<1>8. LeaseHeld'
  BY <1>1, <1>2, <1>3, <1>4, <1>5, <1>6, <1>7, LeaseEnds
<1> QED
  BY <1>3, <1>4, <1>5, <1>8 DEF ToolsInv, Ranges

LEMMA TakeReportStep ==
  ASSUME ToolsInv, NEW w \in Tabs, NEW l \in tabs[w].loops, TakeReport(w, l)
  PROVE  ToolsInv' /\ Stays
<1> DEFINE says == IF Alive(helper[l.target]) THEN "held" ELSE "over"
<1>1. /\ l.at = "report" /\ Answered(w, l, "reported", says)
      /\ helper' = [helper EXCEPT ![l.target] = Reported(@, w)]
      /\ Troubled(If(Overtakes(w, l.target), "late"))
  BY DEF TakeReport
<1>2. faults \subseteq faults' /\ (Overtakes(w, l.target) => "late" \in faults')
  BY <1>1, TroubledFacts
<1> HIDE DEF says
<1> QED
  BY <1>1, <1>2, ReportKeeps

\* A request that fails is over for the tab, whatever the helper made of it.
LEMMA FailsStep ==
  ASSUME ToolsInv, NEW w \in Tabs, NEW l \in tabs[w].loops, Fails(w, l)
  PROVE  ToolsInv' /\ Stays
<1> DEFINE at == CASE l.at = "claim" -> "answered" [] l.at = "renew" -> "renewed"
                   [] l.at = "report" -> "reported"
<1>1. /\ l.at \in {"claim", "renew", "report"} /\ Answered(w, l, at, "over")
      /\ \/ UNCHANGED helper
         \/ helper' = [helper EXCEPT ![l.target] =
                         IF l.at = "report" THEN Reported(@, w) ELSE Claimed(@, w)]
      /\ Troubled({"unreached"} \cup If(Overtakes(w, l.target), "late"))
  BY DEF Fails
<1>2. faults \subseteq faults' /\ (Overtakes(w, l.target) => "late" \in faults')
  BY <1>1 DEF Troubled, If
<1>3. /\ l.at \in {"claim", "renew"} => at = (IF l.at = "claim" THEN "answered" ELSE "renewed")
      /\ l.at = "report" => at = "reported"
  OBVIOUS
<1> HIDE DEF at
<1>4. CASE UNCHANGED helper
  <2>1. /\ DOMAIN tabs' = Tabs /\ Pages' /\ OneLoopEach' /\ Tidy' /\ Stays
        /\ \A v \in Tabs : \A k \in tabs'[v].loops :
             Granted(k) => k \in tabs[v].loops /\ k.target \in Targets
    BY <1>1, <1>2, <1>3, AnsweredPage
  <2>2. gos' = gos /\ Ranges
    BY <1>1 DEF Answered, ToolsInv
  <2>3. LeaseHeld'
    BY <1>2, <1>4, <2>1, <2>2, LeaseStays DEF ToolsInv
  <2> QED
    BY <1>4, <2>1, <2>2, <2>3 DEF ToolsInv, Ranges
<1>5. CASE l.at = "report" /\ helper' = [helper EXCEPT ![l.target] = Reported(@, w)]
  <2>1. Answered(w, l, "reported", "over")
    BY <1>1, <1>3, <1>5
  <2> QED
    BY <1>2, <1>5, <2>1, ReportKeeps
<1>6. CASE l.at # "report" /\ helper' = [helper EXCEPT ![l.target] = Claimed(@, w)]
  <2>1. (l.at = "claim" /\ at = "answered") \/ (l.at = "renew" /\ at = "renewed")
    BY <1>1, <1>3, <1>6
  <2>2. "over" # "granted"
    OBVIOUS
  <2> QED
    BY <1>1, <1>2, <1>6, <2>1, <2>2, ClaimKeeps
<1> QED
  BY <1>1, <1>4, <1>5, <1>6

LEMMA TakeBusyStep ==
  ASSUME ToolsInv, NEW w \in Tabs, NEW l \in tabs[w].loops, TakeBusy(w, l)
  PROVE  ToolsInv' /\ Stays
<1> DEFINE p == tabs[w]
           t == l.target
           q == Drop(p, l)
           slow == Taken(p, t) \/ Overtakes(w, t)
<1>1. /\ Shape(p) /\ OneActing(p) /\ DOMAIN tabs = Tabs /\ t \in Targets /\ l.at = "busy"
      /\ helper' = [helper EXCEPT ![t] = Reported(@, w)]
      /\ Becomes(w, q, If(slow, "late"))
  BY DEF TakeBusy, ToolsInv, Pages, Ranges, Shape, IsLoop
<1>2. Shape(q) /\ SameTools(p, q) /\ q.loops = p.loops \ {l} /\ q.seen = p.seen
  BY <1>1, DropFacts
<1> HIDE DEF q
<1>3. /\ tabs' = [tabs EXCEPT ![w] = q] /\ faults \subseteq faults'
      /\ If(slow, "late") \subseteq faults' /\ ("twice" \notin faults' => Single(q))
  BY <1>1, BecomesFacts
<1>4. slow => "late" \in faults'
  BY <1>3 DEF If
<1>5. gos' = gos /\ Ranges
  BY DEF TakeBusy, ToolsInv
<1>6. Tame(p, q)
  BY <1>2 DEF Tame, Acts, SameTools
<1>7. /\ OneActing(q) /\ (LoopsAct(p) => LoopsAct(q)) /\ (Acting(q) <=> Acting(p))
      /\ \A k \in q.loops : Granted(k) => k \in p.loops /\ k.target \in Targets
  BY <1>1, <1>6, TameKeeps
<1>8. "twice" \notin faults' => Single(q) /\ LoopsAct(q)
  BY <1>3, <1>7 DEF ToolsInv, OneLoopEach
<1>9. {"rushed", "twice"} \cap faults' = {} => NoStray(q) /\ (Acting(q) => q.state \in Ready)
  <2> SUFFICES ASSUME {"rushed", "twice"} \cap faults' = {}
               PROVE  NoStray(q) /\ (Acting(q) => q.state \in Ready)
    OBVIOUS
  <2>1. NoStray(p) /\ (Acting(p) => p.state \in Ready)
    BY <1>3 DEF ToolsInv, Tidy
  <2> QED
    BY <1>2, <1>7, <2>1 DEF SameTools, NoStray
<1>10. p.state \in Running => q.session = p.session /\ q.state # "CONFIGURING"
  BY <1>2 DEF SameTools, Running
<1>11. DOMAIN tabs' = Tabs /\ Pages' /\ OneLoopEach' /\ Tidy' /\ Stays
  BY <1>2, <1>3, <1>7, <1>8, <1>9, <1>10, PageMoves DEF ToolsInv
<1>12. \A v \in Tabs : \A k \in tabs'[v].loops :
         Granted(k) => k \in tabs[v].loops /\ k.target \in Targets
  BY <1>1, <1>3, <1>7 DEF ToolsInv, Pages, Shape, IsLoop
<1>13. /\ helper' \in [Targets -> Request]
       /\ \A u \in Targets : helper'[u].step = helper[u].step /\ helper'[u].posts = helper[u].posts
       /\ \A u \in Targets \ {t} : helper'[u].holder = helper[u].holder
       /\ ~(Alive(helper[t]) /\ helper[t].holder = w) => helper'[t].holder = helper[t].holder
  BY <1>1, <1>5, ReportedFacts
<1>14. Alive(helper[t]) /\ helper[t].holder = w =>
         \/ "late" \in faults'
         \/ gos[t] = 0 \/ ~Pressed(t)
  BY <1>1, <1>4, <1>5, TheLeaseStaysAway
<1>15. \/ {"late", "twice"} \cap faults' # {}
       \/ helper[t].holder = w =>
            \A v \in Tabs : \A k \in tabs'[v].loops :
              Granted(k) /\ k.target = t => helper[t].holder # v
  <2> SUFFICES ASSUME {"late", "twice"} \cap faults' = {}, helper[t].holder = w,
                      NEW k \in tabs'[w].loops, Granted(k), k.target = t
               PROVE  FALSE
    OBVIOUS
  <2>1. LoopsAct(p)
    BY <1>3 DEF ToolsInv, OneLoopEach
  <2>2. Acts(p, t)
    BY <1>12, <2>1 DEF LoopsAct, Granted, Late
  <2> QED
    BY <1>4, <2>2 DEF Acts, Taken
<1>16. LeaseHeld'
  BY <1>1, <1>3, <1>5, <1>12, <1>13, <1>14, <1>15, LeaseEnds
<1> QED
  BY <1>5, <1>11, <1>13, <1>16 DEF ToolsInv, Ranges

LEMMA BusyFailsStep ==
  ASSUME ToolsInv, NEW w \in Tabs, NEW l \in tabs[w].loops, BusyFails(w, l)
  PROVE  ToolsInv' /\ Stays
<1> DEFINE p == tabs[w]
           q == Drop(p, l)
<1>1. Shape(p) /\ Becomes(w, q, {"unreached"}) /\ UNCHANGED <<helper, gos>>
  BY DEF BusyFails, ToolsInv, Pages
<1>2. Shape(q) /\ SameTools(p, q) /\ q.loops = p.loops \ {l} /\ q.seen = p.seen
  BY <1>1, DropFacts
<1> HIDE DEF q
<1>3. Tame(p, q)
  BY <1>2 DEF Tame, Acts, SameTools
<1>4. Polite(p, q) /\ q.state = p.state
  BY <1>2, <1>3, SameToolsPolite DEF SameTools
<1> QED
  BY <1>1, <1>4, PoliteStep

\* A result that is lost is a trouble in which a second press is possible.
LEMMA ResultFailsStep ==
  ASSUME ToolsInv, NEW w \in Tabs, NEW t \in Targets, ResultFails(w, t)
  PROVE  ToolsInv' /\ Stays
<1>1. /\ helper' = [helper EXCEPT ![t].posts = @ \ {w}] /\ tabs' = tabs /\ gos' = gos
      /\ faults \subseteq faults' /\ "lost" \in faults' /\ Ranges
  BY DEF ResultFails, Troubled, ToolsInv
<1>2. DOMAIN tabs' = Tabs /\ Pages' /\ OneLoopEach' /\ Tidy' /\ Stays
  BY <1>1, PagesStay DEF ToolsInv
<1>3. helper' \in [Targets -> Request]
  BY <1>1 DEF Ranges, Request
<1>4. LeaseHeld'
  BY <1>1 DEF LeaseHeld
<1> QED
  BY <1>1, <1>2, <1>3, <1>4 DEF ToolsInv, Ranges

LEMMA LapseStep ==
  ASSUME ToolsInv, NEW t \in Targets, Lapse(t)
  PROVE  ToolsInv' /\ Stays
<1> DEFINE h == helper[t]
<1>1. /\ Alive(h) /\ helper' = [helper EXCEPT ![t].holder = NoTab]
      /\ tabs' = tabs /\ gos' = gos /\ Ranges
      /\ faults \subseteq faults' /\ (UnderWay(h.holder, t) => "late" \in faults')
  BY TroubledFacts DEF Lapse, ToolsInv
<1>2. DOMAIN tabs' = Tabs /\ Pages' /\ OneLoopEach' /\ Tidy' /\ Stays
  BY <1>1, PagesStay DEF ToolsInv
<1>3. /\ helper' \in [Targets -> Request]
      /\ \A u \in Targets : helper'[u].step = helper[u].step /\ helper'[u].posts = helper[u].posts
      /\ \A u \in Targets \ {t} : helper'[u].holder = helper[u].holder
  BY <1>1 DEF Ranges, Request, Holders
<1>4. \A v \in Tabs : \A k \in tabs'[v].loops :
        Granted(k) => k \in tabs[v].loops /\ k.target \in Targets
  BY <1>1 DEF ToolsInv, Pages, Shape, IsLoop
<1>5. "late" \in faults' \/ gos[t] = 0 \/ ~Pressed(t)
  BY <1>1, TheLeaseStaysAway DEF UnderWay
<1>6. \/ "late" \in faults'
      \/ \A v \in Tabs : \A k \in tabs'[v].loops :
           Granted(k) /\ k.target = t => h.holder # v
  BY <1>1 DEF UnderWay, Granted
<1>7. LeaseHeld'
  BY <1>1, <1>3, <1>4, <1>5, <1>6, LeaseEnds
<1> QED
  BY <1>1, <1>2, <1>3, <1>7 DEF ToolsInv, Ranges

LEMMA RequestStep ==
  ASSUME ToolsInv, NEW t \in Targets,
         AskTarget(t) \/ RollCall(t) \/ TimesOut(t) \/ \E w \in Tabs : TakeResult(w, t)
  PROVE  ToolsInv' /\ Stays
<1>1. helper \in [Targets -> Request]
  BY DEF ToolsInv, Ranges
<1>2. CASE AskTarget(t)
  <2>1. /\ helper[t].step = "unasked" /\ UNCHANGED <<tabs, gos, faults>>
        /\ helper' = [helper EXCEPT ![t].step = "pending", ![t].unheard = {w \in Tabs : tabs[w].up}]
    BY <1>2 DEF AskTarget
  <2>2. /\ helper' \in [Targets -> Request]
        /\ \A u \in Targets :
             /\ helper'[u].holder = helper[u].holder
             /\ \/ helper'[u].step = "over"
                \/ helper[u].step # "over" /\ helper[u].posts \subseteq helper'[u].posts
    BY <1>1, <2>1 DEF Request
  <2> QED
    BY <2>1, <2>2, HelperStep
<1>3. CASE RollCall(t) \/ TimesOut(t)
  <2>1. UNCHANGED <<tabs, gos>> /\ helper' = [helper EXCEPT ![t].step = "over"]
    BY <1>3 DEF RollCall, TimesOut
  <2>2. faults \subseteq faults'
    BY <1>3 DEF RollCall, TimesOut, Troubled
  <2>3. /\ helper' \in [Targets -> Request]
        /\ \A u \in Targets :
             /\ helper'[u].holder = helper[u].holder
             /\ \/ helper'[u].step = "over"
                \/ helper[u].step # "over" /\ helper[u].posts \subseteq helper'[u].posts
    BY <1>1, <2>1 DEF Request
  <2> QED
    BY <2>1, <2>2, <2>3, HelperStep
<1>4. CASE \E w \in Tabs : TakeResult(w, t)
  <2>1. PICK w \in Tabs : TakeResult(w, t)
    BY <1>4
  <2>2. /\ UNCHANGED <<tabs, gos, faults>>
        /\ helper' = [helper EXCEPT ![t].posts = @ \ {w}, ![t].step = "over"]
    BY <2>1 DEF TakeResult
  <2>3. /\ helper' \in [Targets -> Request]
        /\ \A u \in Targets :
             /\ helper'[u].holder = helper[u].holder
             /\ \/ helper'[u].step = "over"
                \/ helper[u].step # "over" /\ helper[u].posts \subseteq helper'[u].posts
    BY <1>1, <2>2 DEF Request
  <2> QED
    BY <2>2, <2>3, HelperStep
<1> QED
  BY <1>2, <1>3, <1>4

LEMMA ReconnectStep ==
  ASSUME ToolsInv, NEW w \in Tabs, Reconnect(w)
  PROVE  ToolsInv' /\ Stays
<1>1. helper \in [Targets -> Request]
  BY DEF ToolsInv, Ranges
<1>2. UNCHANGED <<tabs, gos>> /\ faults \subseteq faults'
  BY DEF Reconnect, Troubled
<1>3. PICK dropped \in {{}, {w}} :
        helper' = [t \in Targets |-> IF Alive(helper[t])
                                     THEN Retold([helper[t] EXCEPT !.words = @ \ dropped], w)
                                     ELSE helper[t]]
  BY DEF Reconnect
<1>4. /\ helper' \in [Targets -> Request]
      /\ \A u \in Targets :
           /\ helper'[u].holder = helper[u].holder
           /\ \/ helper'[u].step = "over"
              \/ helper[u].step # "over" /\ helper[u].posts \subseteq helper'[u].posts
  BY <1>1, <1>3 DEF Request, Retold, Alive
<1> QED
  BY <1>2, <1>4, HelperStep

\* A page that goes takes its loops with it; a lease of its is nobody's any more.
LEMMA LeavesStep ==
  ASSUME ToolsInv, NEW w \in Tabs, NEW lost \in BOOLEAN, NEW again \in BOOLEAN,
         Leaves(w, lost, again)
  PROVE  ToolsInv' /\ Stays
<1> DEFINE p == tabs[w]
           gone(h) == [h EXCEPT !.words = @ \ {w}, !.holder = IF @ = w THEN GoneTab ELSE @,
                                !.posts = IF lost THEN @ \ {w} ELSE @, !.unheard = @ \ {w}]
           running == p.state \in {"GENERATING", "CYCLING"}
           fresh   == [Fresh(TRUE, p.insert) EXCEPT !.pick = p.pick, !.shows = p.shows, !.locked = p.locked,
                        !.session = p.session, !.mode = p.mode, !.wrapped = p.wrapped,
                        !.kept = IF running THEN p.kept ELSE NoBox,
                        !.state = IF running THEN p.state
                                  ELSE IF p.pick \/ p.insert THEN "PICKING" ELSE "IDLE"]
           closed  == [Fresh(FALSE, p.insert) EXCEPT !.pick = p.pick, !.state = "IDLE",
                        !.session = p.session]
           q == IF again THEN fresh ELSE closed
<1>1. Ranges /\ DOMAIN tabs = Tabs /\ helper \in [Targets -> Request]
  BY DEF ToolsInv, Ranges
<1>2. /\ helper' = [t \in Targets |-> IF again THEN Retold(gone(helper[t]), w) ELSE gone(helper[t])]
      /\ tabs' = [tabs EXCEPT ![w] = q] /\ gos' = gos
      /\ faults \subseteq faults' /\ (lost => "lost" \in faults')
  BY DEF Leaves, Troubled, If
<1>3. /\ DOMAIN fresh = Fields /\ DOMAIN closed = Fields
      /\ fresh.loops = {} /\ closed.loops = {} /\ fresh.seen = Unheard /\ closed.seen = Unheard
      /\ fresh.declined = {} /\ closed.declined = {} /\ fresh.box = NoBox /\ closed.box = NoBox
      /\ fresh.kept \in {NoBox, p.kept} /\ closed.kept = NoBox /\ ~fresh.there /\ ~closed.there
      /\ ~closed.up /\ fresh.session = p.session
      /\ (p.state \in Running => fresh.state = p.state)
  BY DEF Fresh, Fields, Running
<1>4. /\ Shape(q) /\ q.loops = {} /\ q.seen = Unheard /\ ~q.there
      /\ (p.state \in Running /\ q.up => q.session = p.session /\ q.state # "CONFIGURING")
  <2>1. Shape(p)
    BY DEF ToolsInv, Pages
  <2> HIDE DEF fresh, closed
  <2> QED
    BY <1>3, <2>1, NoBoxIsBox DEF Shape, Unheard, Running
<1> HIDE DEF q
<1>5. \A t \in Targets : ~Acts(q, t)
  BY <1>4 DEF Acts, Unheard, None
<1>6. OneActing(q) /\ Single(q) /\ LoopsAct(q) /\ NoStray(q) /\ ~Acting(q)
  BY <1>4, <1>5 DEF OneActing, Single, Crowded, LoopsAct, NoStray, Acting, Acts
<1>7. DOMAIN tabs' = Tabs /\ Pages' /\ OneLoopEach' /\ Tidy' /\ Stays
  BY <1>2, <1>4, <1>6, PageMoves DEF ToolsInv
<1>8. ASSUME NEW t \in Targets
      PROVE  /\ helper'[t] \in Request /\ helper'[t].step = helper[t].step
             /\ helper'[t].holder = (IF helper[t].holder = w THEN GoneTab ELSE helper[t].holder)
             /\ (~lost => helper'[t].posts = helper[t].posts)
  <2> DEFINE g == gone(helper[t])
  <2>1. /\ g \in Request /\ g.step = helper[t].step
        /\ g.holder = (IF helper[t].holder = w THEN GoneTab ELSE helper[t].holder)
        /\ (~lost => g.posts = helper[t].posts)
    BY <1>1 DEF Request, Holders
  <2>2. helper'[t] = IF again THEN Retold(g, w) ELSE g
    BY <1>2
  <2> HIDE DEF g
  <2>3. /\ Retold(g, w) \in Request /\ Retold(g, w).step = g.step
        /\ Retold(g, w).holder = g.holder /\ Retold(g, w).posts = g.posts
    BY <2>1 DEF Retold, Request
  <2> QED
    BY <2>1, <2>2, <2>3
<1>9. helper' \in [Targets -> Request]
  BY <1>2, <1>8
<1>10. LeaseHeld'
  <2> SUFFICES ASSUME {"late", "lost", "twice"} \cap faults' = {}
               PROVE  /\ \A u \in Targets : Pressed(u)'
                      /\ \A v \in Tabs : \A k \in tabs'[v].loops :
                           Granted(k) => helper'[k.target].holder = v /\ gos'[k.target] = 0
    BY DEF LeaseHeld
  <2>1. /\ \A u \in Targets : Pressed(u)
        /\ \A v \in Tabs : \A k \in tabs[v].loops :
             Granted(k) => helper[k.target].holder = v /\ gos[k.target] = 0
        /\ ~lost
    BY <1>2 DEF ToolsInv, LeaseHeld
  <2>2. ASSUME NEW u \in Targets
        PROVE  Pressed(u)'
    <3>1. Pressed(u)
      BY <2>1
    <3> QED
      <4>1. /\ helper'[u].step = helper[u].step /\ helper'[u].posts = helper[u].posts
            /\ helper'[u].holder \in {helper[u].holder, GoneTab} /\ gos'[u] = gos[u]
        BY <1>2, <1>8, <2>1
      <4> QED
        BY <3>1, <4>1 DEF Pressed
  <2>3. ASSUME NEW v \in Tabs, NEW k \in tabs'[v].loops, Granted(k)
        PROVE  helper'[k.target].holder = v /\ gos'[k.target] = 0
    <3>1. v # w
      BY <1>1, <1>2, <1>4
    <3>2. k \in tabs[v].loops /\ k.target \in Targets
      BY <1>1, <1>2, <3>1 DEF ToolsInv, Pages, Shape, IsLoop
    <3>3. helper[k.target].holder = v /\ gos[k.target] = 0
      BY <2>1, <2>3, <3>2
    <3> QED
      BY <1>2, <1>8, <3>1, <3>2, <3>3
  <2> QED
    BY <2>2, <2>3
<1> QED
  BY <1>1, <1>2, <1>7, <1>9, <1>10 DEF ToolsInv, Ranges

-----------------------------------------------------------------------------
(* The theorems. *)

LEMMA ToolsInit ==
  ASSUME Init
  PROVE  ToolsInv
<1> DEFINE page(w) == Fresh(w \in setting.tabs, setting.insert)
<1>1. ASSUME NEW w \in Tabs
      PROVE  /\ Shape(tabs[w]) /\ tabs[w].loops = {} /\ tabs[w].seen = Unheard /\ ~tabs[w].there
  <2>1. tabs[w] = page(w)
    BY DEF Init
  <2>2. /\ DOMAIN page(w) = Fields /\ page(w).loops = {} /\ page(w).seen = Unheard
        /\ page(w).declined = {} /\ page(w).box = NoBox /\ page(w).kept = NoBox /\ ~page(w).there
    BY DEF Fresh, Fields
  <2> HIDE DEF page
  <2> QED
    BY <2>1, <2>2, NoBoxIsBox DEF Shape, Unheard
<1>2. \A w \in Tabs : \A t \in Targets : ~Acts(tabs[w], t)
  BY <1>1 DEF Acts, Unheard, None
<1>3. Pages /\ OneLoopEach /\ Tidy
  BY <1>1, <1>2 DEF Pages, OneLoopEach, Tidy, OneActing, Single, Crowded, LoopsAct, NoStray,
                    Acting, Acts
<1>4. Ranges
  <2>1. Unasked \in Request
    BY DEF Unasked, Request, Holders
  <2> QED
    BY <2>1 DEF Init, Ranges
<1>5. LeaseHeld
  BY <1>1 DEF Init, LeaseHeld, Pressed
<1> QED
  BY <1>3, <1>4, <1>5 DEF ToolsInv

LEMMA LoopStepKeeps ==
  ASSUME ToolsInv, NEW w \in Tabs, NEW l \in tabs[w].loops, LoopStep(w, l)
  PROVE  ToolsInv' /\ Stays
BY OwnStep, TakeClaimStep, HearClaimStep, GoForStep, TakeReportStep, TakeBusyStep, FailsStep,
   BusyFailsStep DEF LoopStep

LEMMA ToolsStep ==
  ASSUME ToolsInv, Next
  PROVE  ToolsInv' /\ Stays
<1>1. CASE \E w \in Tabs : \/ User(w) \/ Session(w) \/ ApplyEnds(w) \/ Rerender(w) \/ Reconnect(w)
                           \/ \E i \in DOMAIN Points \cup {0} : Point(w, i)
                           \/ \E lost, again \in BOOLEAN : Leaves(w, lost, again)
  BY <1>1, UserStep, SessionStep, ApplyEndsStep, RerenderStep, ReconnectStep, PointStep, LeavesStep
<1>2. CASE \E t \in Targets : Targeting(t)
  <2>1. PICK t \in Targets : Targeting(t)
    BY <1>2
  <2>2. CASE AskTarget(t) \/ RollCall(t) \/ TimesOut(t) \/ \E w \in Tabs : TakeResult(w, t)
    BY <2>2, RequestStep
  <2>3. CASE Lapse(t)
    BY <2>3, LapseStep
  <2>4. CASE \E w \in Tabs : HearTarget(w, t)
    BY <2>4, HearTargetStep
  <2>5. CASE \E w \in Tabs : Declines(w, t)
    BY <2>5, LoopStepKeeps DEF Declines
  <2>6. CASE \E w \in Tabs, n \in 1..MaxLoops : Pursues(w, t, n)
    BY <2>6, LoopStepKeeps DEF Pursues, LoopsAfter
  <2>7. CASE \E w \in Tabs : ResultFails(w, t)
    BY <2>7, ResultFailsStep
  <2> QED
    BY <2>1, <2>2, <2>3, <2>4, <2>5, <2>6, <2>7 DEF Targeting
<1> QED
  BY <1>1, <1>2 DEF Next

LEMMA ToolsStutter ==
  ASSUME ToolsInv, UNCHANGED vars
  PROVE  ToolsInv'
BY DEF ToolsInv, Ranges, Pages, OneLoopEach, Tidy, LeaseHeld, Pressed, vars

LEMMA ToolsInvariant == Spec => []ToolsInv
<1>1. Init => ToolsInv
  BY ToolsInit
<1>2. ToolsInv /\ [Next]_vars => ToolsInv'
  BY ToolsStep, ToolsStutter
<1> QED
  BY <1>1, <1>2, PTL DEF Spec

\* One request never gets two presses of Go, unless a lease lapses within a request, a
\* result is lost or overtaken, or two loops of one tab are after the target: who
\* presses holds the lease since its renewal was granted, and holds it until the result
\* is in (claimAndActOnAgentTarget, actOnAgentTarget).
THEOREM GoIsPressedOnce == Spec => []OneGo
<1>1. ToolsInv => OneGo
  BY DEF ToolsInv, LeaseHeld, Pressed, OneGo
<1> QED
  BY <1>1, ToolsInvariant, PTL

\* No step of the page replaces a session that runs in it by another one: a tab that
\* acts on a target has none, and who is busy declines (busyForAgentTarget).  Two causes
\* are excepted: the user or an apply starts something while the tab acts on a target,
\* which the page does not look at again, or two loops of one tab are after the target.
THEOREM RunningSessionStays == Spec => SessionKept
<1>1. ToolsInv /\ [Next]_vars =>
        [\A w \in Tabs :
           /\ tabs[w].state \in {"GENERATING", "CYCLING"} /\ tabs[w].up /\ tabs'[w].up
           /\ {"rushed", "twice"} \cap faults = {}
           => tabs'[w].session = tabs[w].session /\ tabs'[w].state # "CONFIGURING"]_vars
  BY ToolsStep DEF Stays, Running
<1> QED
  BY <1>1, ToolsInvariant, PTL DEF Spec, SessionKept

-----------------------------------------------------------------------------
(* The placeholder's place, size and margins.  No premise on the trouble here.    *)

Sized(b) ==
  b # NoBox => /\ b.width \in Int /\ b.height \in Int
               /\ b.marginLeft \in Int /\ b.marginTop \in Int /\ b.implicit \in BOOLEAN

SameSize(b, c) ==
  /\ b.width = c.width /\ b.height = c.height
  /\ b.marginLeft = c.marginLeft /\ b.marginTop = c.marginTop

Places(p) == p.state = "CONFIGURING" /\ p.kind = "insert"

\* What a session keeps of its placeholder is it, unless the user places another one.
Boxed(p) ==
  /\ Sized(p.box) /\ Sized(p.kept)
  /\ p.box # NoBox /\ p.kept # NoBox /\ ~Places(p)
       => /\ SameSize(p.box, p.kept)
          /\ p.box.anchor \in {p.kept.anchor, FirstLike(layout, p.kept.anchor)}

\* The step that OppositeSideStays allows.
Opposite(p, q) ==
  p.state # "PICKING" /\ p.box # NoBox /\ q.box # NoBox => OppositeStays(p.box, q.box)

Careful(p, q) == Boxed(p) => Boxed(q) /\ Opposite(p, q)
Bare(p) == p.box = NoBox /\ p.kept = NoBox
SameBoxes(p, q) == q.box = p.box /\ q.kept = p.kept /\ (q.kind = "insert" <=> p.kind = "insert")

\* What hiding the bar makes of a page: nothing is left, or nothing was placed.
Settled(p, q) == Shape(q) /\ (Bare(q) \/ (SameBoxes(p, q) /\ p.kind # "insert"))

LEMMA BareCareful ==
  ASSUME NEW p, NEW q, Bare(q)
  PROVE  Careful(p, q)
BY DEF Careful, Boxed, Opposite, Bare, Sized

LEMMA SameSides ==
  ASSUME NEW b
  PROVE  OppositeStays(b, b)
BY DEF OppositeStays

LEMMA SameCareful ==
  ASSUME NEW p, NEW q, SameBoxes(p, q),
         q.state \in {p.state, "CONFIGURING"} \/ p.state # "CONFIGURING" \/ p.kind # "insert"
  PROVE  Careful(p, q)
<1>1. Places(p) => Places(q)
  BY DEF Places, SameBoxes
<1>2. Boxed(p) => Boxed(q)
  BY <1>1 DEF Boxed, SameBoxes
<1>3. Opposite(p, q)
  BY SameSides DEF Opposite, SameBoxes
<1> QED
  BY <1>2, <1>3 DEF Careful

LEMMA SettledCareful ==
  ASSUME NEW p, NEW q, Settled(p, q)
  PROVE  Careful(p, q)
BY BareCareful, SameCareful DEF Settled

LEMMA SetStateSame ==
  ASSUME NEW p, NEW next, Shape(p)
  PROVE  /\ SameBoxes(p, SetState(p, next)) /\ SetState(p, next).state = next
         /\ Shape(SetState(p, next))
BY SetStateFacts DEF SameBoxes, Tame

LEMMA SetStateBare ==
  ASSUME NEW p, NEW next, Shape(p), Bare(p)
  PROVE  Bare(SetState(p, next)) /\ Bare([SetState(p, next) EXCEPT !.hovered = None])
<1> DEFINE q == SetState(p, next)
<1>1. Shape(q) /\ Bare(q)
  BY SetStateSame DEF SameBoxes, Bare
<1> HIDE DEF q
<1>2. Bare([q EXCEPT !.hovered = None])
  BY <1>1 DEF Bare, Shape, Fields
<1> QED
  BY <1>1, <1>2 DEF q

LEMMA SetStateSettles ==
  ASSUME NEW p, NEW r, NEW next, Settled(p, r)
  PROVE  Settled(p, SetState(r, next)) /\ Settled(p, [SetState(r, next) EXCEPT !.hovered = None])
<1> DEFINE q == SetState(r, next)
           v == [q EXCEPT !.hovered = None]
<1>1. Shape(q) /\ SameBoxes(r, q)
  BY SetStateSame DEF Settled
<1> HIDE DEF q
<1>2. Shape(v) /\ SameBoxes(q, v)
  BY <1>1 DEF Shape, Fields, SameBoxes
<1> HIDE DEF v
<1>3. Settled(p, q) /\ Settled(p, v)
  BY <1>1, <1>2 DEF Settled, SameBoxes, Bare
<1> QED
  BY <1>3 DEF q, v

\* Whatever hides the bar takes the placeholder away.
LEMMA HideBarBare ==
  ASSUME NEW p, Shape(p)
  PROVE  /\ Shape(HideBar(p)) /\ (p.kind = "insert" \/ Bare(p) => Bare(HideBar(p)))
         /\ Shape(ClearInsertPicking(p)) /\ Bare(ClearInsertPicking(p))
         /\ Shape(FinalizeInsert(p)) /\ Bare(FinalizeInsert(p))
<1>1. Bare(ClearInsertPicking(p)) /\ Bare(FinalizeInsert(p))
  BY DEF Shape, Fields, Bare, ClearInsertPicking, FinalizeInsert
<1>2. Shape(ClearInsertPicking(p)) /\ Shape(FinalizeInsert(p)) /\ Shape(HideBar(p))
  BY ClearFacts, HideBarFacts DEF SameLoops
<1> QED
  BY <1>1, <1>2 DEF HideBar

LEMMA CancelBare ==
  ASSUME NEW p, Shape(p)
  PROVE  Bare(CancelInsert(p))
<1> DEFINE c == ClearInsertPicking(HideBar(p))
           r == [c EXCEPT !.kind = "replace", !.selected = None]
<1>1. Shape(c) /\ Bare(c)
  <2>1. Shape(HideBar(p))
    BY HideBarBare
  <2> QED
    BY <2>1, HideBarBare
<1> HIDE DEF c
<1>2. Shape(r) /\ Bare(r)
  BY <1>1 DEF Shape, Fields, Bare
<1> HIDE DEF r
<1>3. Bare(SetState(r, IF p.insert THEN "PICKING" ELSE "IDLE"))
  BY <1>2, SetStateBare
<1> QED
  BY <1>3 DEF CancelInsert, r, c

LEMMA HideBarSettles ==
  ASSUME NEW p, NEW r, Shape(r), SameBoxes(p, r)
  PROVE  Settled(p, HideBar(r))
<1>1. CASE r.kind = "insert"
  BY <1>1, HideBarBare DEF Settled
<1>2. CASE r.kind # "insert"
  BY <1>2 DEF HideBar, Settled, SameBoxes
<1> QED
  BY <1>1, <1>2

LEMMA ExitSettles ==
  ASSUME NEW p, NEW r, Shape(r), SameBoxes(p, r)
  PROVE  Settled(p, ExitToPicking(r)) /\ Settled(p, [ExitToPicking(r) EXCEPT !.hovered = None])
BY HideBarSettles, SetStateSettles DEF ExitToPicking

\* A change of what the boxes do not depend on.
LEMMA EditBoxes ==
  ASSUME NEW p, NEW v, NEW u, Shape(p)
  PROVE  /\ SameBoxes(p, [p EXCEPT !.selected = v]) /\ Shape([p EXCEPT !.selected = v])
         /\ [p EXCEPT !.selected = v].state = p.state
         /\ SameBoxes(p, [p EXCEPT !.pick = v]) /\ Shape([p EXCEPT !.pick = v])
         /\ [p EXCEPT !.pick = v].state = p.state
         /\ SameBoxes(p, [p EXCEPT !.insert = v]) /\ Shape([p EXCEPT !.insert = v])
         /\ [p EXCEPT !.insert = v].state = p.state
         /\ SameBoxes(p, [p EXCEPT !.insert = v, !.pick = u])
         /\ Shape([p EXCEPT !.insert = v, !.pick = u])
         /\ [p EXCEPT !.insert = v, !.pick = u].state = p.state
         /\ SameBoxes(p, [p EXCEPT !.pick = v, !.insert = u])
         /\ Shape([p EXCEPT !.pick = v, !.insert = u])
<1>1. /\ SameBoxes(p, [p EXCEPT !.selected = v]) /\ Shape([p EXCEPT !.selected = v])
      /\ [p EXCEPT !.selected = v].state = p.state
  BY DEF SameBoxes, Shape, Fields
<1>2. /\ SameBoxes(p, [p EXCEPT !.pick = v]) /\ Shape([p EXCEPT !.pick = v])
      /\ [p EXCEPT !.pick = v].state = p.state
  BY DEF SameBoxes, Shape, Fields
<1>3. /\ SameBoxes(p, [p EXCEPT !.insert = v]) /\ Shape([p EXCEPT !.insert = v])
      /\ [p EXCEPT !.insert = v].state = p.state
  BY DEF SameBoxes, Shape, Fields
<1>4. /\ SameBoxes(p, [p EXCEPT !.insert = v, !.pick = u])
      /\ Shape([p EXCEPT !.insert = v, !.pick = u])
      /\ [p EXCEPT !.insert = v, !.pick = u].state = p.state
  BY DEF SameBoxes, Shape, Fields
<1>5. /\ SameBoxes(p, [p EXCEPT !.pick = v, !.insert = u])
      /\ Shape([p EXCEPT !.pick = v, !.insert = u])
  BY DEF SameBoxes, Shape, Fields
<1> QED
  BY <1>1, <1>2, <1>3, <1>4, <1>5

LEMMA TogglePickCareful ==
  ASSUME NEW p, Shape(p)
  PROVE  Careful(p, TogglePick(p))
<1> DEFINE on   == ClearInsertPicking([p EXCEPT !.pick = TRUE, !.insert = FALSE])
           off  == [p EXCEPT !.pick = FALSE]
           h    == HideBar(off)
           bare == [h EXCEPT !.selected = None, !.hovered = None, !.kind = "replace"]
<1>1. Shape(on) /\ Bare(on)
  BY EditBoxes, HideBarBare
<1>2. Shape(off) /\ SameBoxes(p, off)
  BY EditBoxes
<1> HIDE DEF on, off
<1>3. Settled(p, h)
  BY <1>2, HideBarSettles
<1> HIDE DEF h
<1>4. Settled(p, bare)
  BY <1>3 DEF Settled, Shape, Fields, SameBoxes, Bare
<1> HIDE DEF bare
<1>5. Bare(SetState(on, "PICKING")) /\ Bare(CancelInsert(off)) /\ Settled(p, SetState(bare, "IDLE"))
  BY <1>1, <1>2, <1>4, SetStateBare, CancelBare, SetStateSettles
<1> QED
  BY <1>1, <1>4, <1>5, BareCareful, SettledCareful DEF TogglePick, on, off, bare, h

LEMMA ToggleInsertCareful ==
  ASSUME NEW p, Shape(p)
  PROVE  Careful(p, ToggleInsert(p))
<1> DEFINE r   == [p EXCEPT !.insert = TRUE, !.pick = FALSE]
           h   == HideBar(r)
           on  == [h EXCEPT !.selected = None, !.kind = "replace"]
           off == ClearInsertPicking([p EXCEPT !.insert = FALSE])
<1>1. Shape(off) /\ Bare(off)
  BY EditBoxes, HideBarBare
<1>2. Shape(r) /\ SameBoxes(p, r)
  BY EditBoxes
<1> HIDE DEF off, r
<1>3. Settled(p, h)
  BY <1>2, HideBarSettles
<1> HIDE DEF h
<1>4. Settled(p, on) /\ Shape(on)
  BY <1>3 DEF Settled, Shape, Fields, SameBoxes, Bare
<1> HIDE DEF on
<1>5. Bare(SetState(off, "IDLE")) /\ Bare(CancelInsert(on)) /\ Settled(p, SetState(on, "PICKING"))
  BY <1>1, <1>4, SetStateBare, CancelBare, SetStateSettles
<1> QED
  BY <1>1, <1>4, <1>5, BareCareful, SettledCareful DEF ToggleInsert, on, off, h, r

LEMMA SessionOverBare ==
  ASSUME NEW p, Shape(p)
  PROVE  Bare(SessionOver(p))
<1> DEFINE f == FinalizeInsert(HideBar(p))
           r == [f EXCEPT !.selected = None, !.hovered = None, !.wrapped = FALSE]
<1>1. Shape(f) /\ Bare(f)
  <2>1. Shape(HideBar(p))
    BY HideBarBare
  <2> QED
    BY <2>1, HideBarBare
<1> HIDE DEF f
<1>2. Shape(r) /\ Bare(r)
  BY <1>1 DEF Shape, Fields, Bare
<1> HIDE DEF r
<1> QED
  BY <1>2, SetStateBare DEF SessionOver, r, f

LEMMA ConfigureSame ==
  ASSUME NEW p, NEW e, Shape(p)
  PROVE  /\ SameBoxes(p, Configure(p, e)) /\ Configure(p, e).state = "CONFIGURING"
         /\ Shape(Configure(p, e)) /\ Careful(p, Configure(p, e))
<1> DEFINE r == [p EXCEPT !.selected = e]
           q == SetState(r, "CONFIGURING")
<1>1. SameBoxes(p, r) /\ Shape(r)
  BY EditBoxes
<1> HIDE DEF r
<1>2. SameBoxes(r, q) /\ q.state = "CONFIGURING" /\ Shape(q)
  BY <1>1, SetStateSame
<1> HIDE DEF q
<1>3. SameBoxes(p, q)
  BY <1>1, <1>2 DEF SameBoxes
<1>4. Careful(p, q)
  BY <1>2, <1>3, SameCareful
<1> QED
  BY <1>2, <1>3, <1>4 DEF Configure, q, r

LEMMA BeginsSame ==
  ASSUME NEW p, NEW mode, Shape(p)
  PROVE  /\ SameBoxes(p, Begins(p, mode)) /\ Begins(p, mode).state = "GENERATING"
         /\ Shape(Begins(p, mode))
<1> DEFINE r == [p EXCEPT !.session = @ + 1, !.mode = mode, !.wrapped = FALSE]
           q == SetState(r, "GENERATING")
<1>1. SameBoxes(p, r) /\ Shape(r)
  BY DEF SameBoxes, Shape, Fields
<1> HIDE DEF r
<1>2. SameBoxes(r, q) /\ q.state = "GENERATING" /\ Shape(q)
  BY <1>1, SetStateSame
<1> QED
  BY <1>1, <1>2 DEF Begins, r, SameBoxes

LEMMA GoCareful ==
  ASSUME NEW p, Shape(p), p.kind = "replace"
  PROVE  Careful(p, Begins(p, "replace"))
BY BeginsSame, SameCareful

\* The sizes.
LEMMA LayoutSizes ==
  ASSUME setting \in Settings
  PROVE  layout.width \in Nat /\ layout.share \in Nat
BY ToolsAssumption DEF Setting, layout

LEMMA MaxInt ==
  ASSUME NEW a \in Int, NEW b \in Int
  PROVE  Max({a, b}) \in Int /\ Min({a, b}) \in Int
<1>1. Max({a, b}) \in {a, b}
  BY DEF Max
<1>2. Min({a, b}) \in {a, b}
  BY DEF Min
<1> QED
  BY <1>1, <1>2

LEMMA PlaceholderSized ==
  ASSUME setting \in Settings, NEW place
  PROVE  Sized(Placeholder(layout, place))
<1> DEFINE s == PlaceholderSizing(layout, place.axis)
<1>1. s.width \in Int /\ s.implicit \in BOOLEAN
  BY LayoutSizes DEF PlaceholderSizing, PLACEHOLDER_MIN_WIDTH
<1> HIDE DEF s
<1> QED
  BY <1>1 DEF Placeholder, Sized, s, PLACEHOLDER_DEFAULT_HEIGHT

LEMMA PlaceCareful ==
  ASSUME setting \in Settings, NEW p, Shape(p), p.state = "PICKING"
  PROVE  Careful(p, Place(p))
<1> DEFINE box == Placeholder(layout, ResolveInsertHover(layout, Over(p.line), Points[p.line]))
           r == [p EXCEPT !.box = box, !.there = TRUE, !.line = 0, !.kind = "insert"]
           q == Configure(r, "placeholder")
<1>1. IsBox(box) /\ Sized(box)
  BY PlaceholderIsBox, PlaceholderSized
<1> HIDE DEF box
<1>2. Shape(r) /\ r.box = box /\ r.kept = p.kept /\ r.kind = "insert"
  BY <1>1 DEF Shape, Fields
<1> HIDE DEF r
<1>3. SameBoxes(r, q) /\ q.state = "CONFIGURING"
  BY <1>2, ConfigureSame
<1>4. Place(p) = q
  BY DEF Place, r, box
<1> HIDE DEF q
<1>5. Boxed(p) => Boxed(q)
  BY <1>1, <1>2, <1>3 DEF Boxed, SameBoxes, Places
<1> QED
  BY <1>4, <1>5 DEF Careful, Opposite

LEMMA CreateCareful ==
  ASSUME NEW p, Shape(p), p.kind = "insert", p.box # NoBox
  PROVE  Careful(p, Begins([p EXCEPT !.selected = "placeholder",
                             !.kept = [p.box EXCEPT !.implicit = FALSE]], "insert"))
<1> DEFINE kept == [p.box EXCEPT !.implicit = FALSE]
           r == [p EXCEPT !.selected = "placeholder", !.kept = kept]
           q == Begins(r, "insert")
<1>1. DOMAIN p.box = BoxFields
  BY DEF Shape, IsBox
<1>2. /\ IsBox(kept) /\ SameSize(p.box, kept) /\ kept.implicit = FALSE
      /\ kept.anchor = p.box.anchor
  <2>1. /\ DOMAIN kept = BoxFields /\ kept = [f \in BoxFields |-> kept[f]]
        /\ kept.implicit = FALSE /\ kept.anchor = p.box.anchor
        /\ kept.width = p.box.width /\ kept.height = p.box.height
        /\ kept.marginLeft = p.box.marginLeft /\ kept.marginTop = p.box.marginTop
    BY <1>1 DEF BoxFields
  <2> QED
    BY <2>1 DEF IsBox, SameSize
<1>3. r = [p EXCEPT !.selected = "placeholder", !.kept = [p.box EXCEPT !.implicit = FALSE]]
  OBVIOUS
<1> HIDE DEF kept
<1>4. Shape(r) /\ r.box = p.box /\ r.kept = kept /\ r.kind = p.kind
  BY <1>2 DEF Shape, Fields
<1> HIDE DEF r
<1>5. SameBoxes(r, q) /\ q.state = "GENERATING"
  BY <1>4, BeginsSame
<1> HIDE DEF q
<1>6. Boxed(p) => Boxed(q) /\ q.box = p.box
  BY <1>2, <1>4, <1>5 DEF Boxed, SameBoxes, Sized, SameSize
<1>7. Careful(p, q)
  BY <1>6, SameSides DEF Careful, Opposite
<1> QED
  BY <1>3, <1>7 DEF q

\* What comes back has the size and the margins it had.
LEMMA RecreateCareful ==
  ASSUME NEW p, Shape(p), p.state = "GENERATING", p.kept # NoBox,
         NEW e \in {p.box.anchor, FirstLike(layout, p.kept.anchor)} \ {None}
  PROVE  Careful(p, Recreate(p, e))
<1> DEFINE new == Placeholder(layout, [p.kept EXCEPT !.anchor = e])
           m   == MaterializeWidth(new)
           box == [m EXCEPT !.width = p.kept.width, !.height = p.kept.height,
                            !.marginLeft = p.kept.marginLeft, !.marginTop = p.kept.marginTop]
           q   == [p EXCEPT !.box = box, !.there = TRUE, !.selected = "placeholder"]
<1>1. DOMAIN new = BoxFields /\ new.implicit \in BOOLEAN /\ new.anchor = e
  <2>1. DOMAIN p.kept = BoxFields
    BY DEF Shape, IsBox
  <2> QED
    BY <2>1 DEF Placeholder, BoxFields, PlaceholderSizing
<1> HIDE DEF new
<1>2. DOMAIN m = BoxFields /\ m.implicit = FALSE /\ m.anchor = e
  BY <1>1 DEF MaterializeWidth, BoxFields
<1> HIDE DEF m
<1>3. DOMAIN box = BoxFields /\ SameSize(box, p.kept) /\ box.implicit = FALSE /\ box.anchor = e
  BY <1>2 DEF BoxFields, SameSize
<1>4. box # NoBox
  BY <1>3 DEF NoBox, BoxFields
<1>5. Recreate(p, e) = q
  BY DEF Recreate, new, m
<1> HIDE DEF box
<1>6. q.box = box /\ q.kept = p.kept /\ q.kind = p.kind /\ q.state = p.state
  BY DEF Shape, Fields
<1> HIDE DEF q
<1>7. ASSUME Boxed(p)
      PROVE  Boxed(q) /\ Opposite(p, q)
  <2>1. Sized(p.kept) /\ (p.box # NoBox =>
           SameSize(p.box, p.kept) /\ p.box.anchor \in {p.kept.anchor, FirstLike(layout, p.kept.anchor)})
    BY <1>7 DEF Boxed, Places
  <2>2. e \in {p.kept.anchor, FirstLike(layout, p.kept.anchor)}
    BY <2>1 DEF NoBox
  <2>3. Sized(box)
    BY <1>3, <2>1 DEF Sized, SameSize
  <2>4. Boxed(q)
    BY <1>3, <1>6, <2>1, <2>2, <2>3 DEF Boxed
  <2>5. ASSUME p.box # NoBox
        PROVE  OppositeStays(p.box, box)
    <3>1. DOMAIN p.box = BoxFields
      BY <2>5 DEF Shape, IsBox
    <3> DEFINE g == MaterializeWidth(p.box)
    <3>2. /\ g.marginLeft = p.box.marginLeft /\ g.marginTop = p.box.marginTop
      BY <3>1 DEF MaterializeWidth, BoxFields
    <3>3. MaterializeWidth(box) = box
      BY <1>3 DEF MaterializeWidth
    <3> QED
      BY <1>3, <2>1, <2>5, <3>2, <3>3 DEF OppositeStays, SameSize
  <2> QED
    BY <1>6, <2>4, <2>5 DEF Opposite
<1> QED
  BY <1>5, <1>7 DEF Careful

LEMMA VariantsCareful ==
  ASSUME NEW p, Shape(p), p.state = "GENERATING"
  PROVE  LET q == SetState(p, "CYCLING")
         IN Careful(p, IF p.mode = "insert" THEN FinalizeInsert(q) ELSE q)
<1> DEFINE q == SetState(p, "CYCLING")
<1>1. SameBoxes(p, q) /\ q.state = "CYCLING" /\ Shape(q)
  BY SetStateSame
<1> HIDE DEF q
<1>2. Careful(p, q)
  BY <1>1, SameCareful
<1>3. Careful(p, FinalizeInsert(q))
  BY <1>1, HideBarBare, BareCareful
<1> QED
  BY <1>2, <1>3 DEF q

\* The edge that is dragged moves, and the one opposite to it stays.
LEMMA ResizeFacts ==
  ASSUME NEW b, NEW edge, NEW dx \in Int, NEW dy \in Int, NEW parent \in Nat,
         DOMAIN b = BoxFields, b # NoBox, Sized(b)
  PROVE  LET c == ResizeFromEdge(b, edge, dx, dy, parent)
         IN DOMAIN c = BoxFields /\ c # NoBox /\ Sized(c) /\ OppositeStays(b, c)
<1> DEFINE m == MaterializeWidth(b)
           wide == CASE edge = "e" -> m.width + dx [] edge = "w" -> m.width - dx
                     [] OTHER -> m.width
           high == CASE edge = "s" -> m.height + dy [] edge = "n" -> m.height - dy
                     [] OTHER -> m.height
           width  == ClampWidth(wide, parent)
           height == ClampHeight(high)
           c == [m EXCEPT !.width = width, !.height = height,
                          !.marginLeft = IF edge = "w" THEN @ + m.width - width ELSE @,
                          !.marginTop = IF edge = "n" THEN @ + m.height - height ELSE @]
<1>1. /\ DOMAIN m = BoxFields /\ m.width \in Int /\ m.height \in Int
      /\ m.marginLeft \in Int /\ m.marginTop \in Int /\ m.implicit = FALSE
  <2>1. PLACEHOLDER_MIN_WIDTH \in Int /\ b.width \in Int
    BY DEF PLACEHOLDER_MIN_WIDTH, Sized
  <2>2. Max({PLACEHOLDER_MIN_WIDTH, b.width}) \in Int
    BY <2>1, MaxInt
  <2> QED
    BY <2>2 DEF MaterializeWidth, Sized, BoxFields
<1> HIDE DEF m
<1>2. wide \in Int /\ high \in Int
  <2>1. wide = m.width \/ wide = m.width + dx \/ wide = m.width - dx
    OBVIOUS
  <2>2. high = m.height \/ high = m.height + dy \/ high = m.height - dy
    OBVIOUS
  <2> HIDE DEF wide, high
  <2> QED
    BY <1>1, <2>1, <2>2
<1> HIDE DEF wide, high
<1>3. width \in Int /\ height \in Int
  <2>1. PLACEHOLDER_MIN_WIDTH \in Int /\ PLACEHOLDER_MIN_HEIGHT \in Int /\ parent \in Int
    BY DEF PLACEHOLDER_MIN_WIDTH, PLACEHOLDER_MIN_HEIGHT
  <2>2. /\ Max({PLACEHOLDER_MIN_WIDTH, parent}) \in Int /\ Max({PLACEHOLDER_MIN_WIDTH, wide}) \in Int
        /\ Max({PLACEHOLDER_MIN_HEIGHT, high}) \in Int
    BY <1>2, <2>1, MaxInt
  <2> QED
    BY <2>2, MaxInt DEF ClampWidth, ClampHeight
<1>4. ResizeFromEdge(b, edge, dx, dy, parent) = c
  BY DEF ResizeFromEdge, m, wide, high
<1> HIDE DEF width, height
<1>5. /\ DOMAIN c = BoxFields /\ c.width = width /\ c.height = height /\ c.implicit = m.implicit
      /\ c.marginLeft = (IF edge = "w" THEN m.marginLeft + m.width - width ELSE m.marginLeft)
      /\ c.marginTop = (IF edge = "n" THEN m.marginTop + m.height - height ELSE m.marginTop)
  BY <1>1 DEF BoxFields
<1> HIDE DEF c
<1>6. c # NoBox
  BY <1>5 DEF NoBox, BoxFields
<1>7. Sized(c)
  <2>1. m.marginLeft + m.width - width \in Int /\ m.marginTop + m.height - height \in Int
    BY <1>1, <1>3
  <2>2. c.marginLeft \in Int /\ c.marginTop \in Int
    BY <1>1, <1>5, <2>1
  <2>3. c.width \in Int /\ c.height \in Int /\ c.implicit \in BOOLEAN
    BY <1>1, <1>3, <1>5
  <2> QED
    BY <2>2, <2>3 DEF Sized
<1>8. OppositeStays(b, c)
  <2>1. MaterializeWidth(c) = c
    BY <1>1, <1>5 DEF MaterializeWidth
  <2>2. m.marginLeft = c.marginLeft \/ m.marginLeft + m.width = c.marginLeft + c.width
    BY <1>1, <1>3, <1>5
  <2>3. m.marginTop = c.marginTop \/ m.marginTop + m.height = c.marginTop + c.height
    BY <1>1, <1>3, <1>5
  <2> QED
    BY <2>1, <2>2, <2>3 DEF OppositeStays, m
<1> QED
  BY <1>4, <1>5, <1>6, <1>7, <1>8

LEMMA ResizeCareful ==
  ASSUME setting \in Settings, NEW p, NEW drag \in Drags, Shape(p), p.state = "CONFIGURING",
         p.kind = "insert", p.box # NoBox
  PROVE  Careful(p, [p EXCEPT !.box = ResizeFromEdge(p.box, drag.edge, drag.dx, drag.dy, layout.width)])
<1> DEFINE b == ResizeFromEdge(p.box, drag.edge, drag.dx, drag.dy, layout.width)
           q == [p EXCEPT !.box = b]
<1>1. DOMAIN p.box = BoxFields /\ layout.width \in Nat /\ drag.dx \in Int /\ drag.dy \in Int
  BY LayoutSizes, ToolsAssumption DEF Shape, IsBox
<1>2. Sized(p.box) => b # NoBox /\ Sized(b) /\ OppositeStays(p.box, b)
  BY <1>1, ResizeFacts
<1> HIDE DEF b
<1>3. q.box = b /\ q.kept = p.kept /\ q.kind = p.kind /\ q.state = p.state
  BY DEF Shape, Fields
<1> HIDE DEF q
<1>4. Careful(p, q)
  BY <1>2, <1>3 DEF Careful, Boxed, Opposite, Places
<1> QED
  BY <1>4 DEF q, b

LEMMA ChaseCareful ==
  ASSUME NEW p, NEW q, SameTools(p, q)
  PROVE  Careful(p, q)
BY SameCareful DEF SameTools, SameBoxes

LEMMA TouchCareful ==
  ASSUME NEW p, NEW v, Shape(p)
  PROVE  /\ Careful(p, [p EXCEPT !.line = v]) /\ Careful(p, [p EXCEPT !.hovered = v])
         /\ Careful(p, [p EXCEPT !.selected = v]) /\ Careful(p, [p EXCEPT !.locked = v])
         /\ Careful(p, [p EXCEPT !.shows = v])
         /\ Careful(p, [p EXCEPT !.wrapped = v, !.there = FALSE])
<1>1. SameBoxes(p, [p EXCEPT !.line = v]) /\ [p EXCEPT !.line = v].state = p.state
  BY DEF SameBoxes, Shape, Fields
<1>2. SameBoxes(p, [p EXCEPT !.hovered = v]) /\ [p EXCEPT !.hovered = v].state = p.state
  BY DEF SameBoxes, Shape, Fields
<1>3. SameBoxes(p, [p EXCEPT !.selected = v]) /\ [p EXCEPT !.selected = v].state = p.state
  BY DEF SameBoxes, Shape, Fields
<1>4. SameBoxes(p, [p EXCEPT !.locked = v]) /\ [p EXCEPT !.locked = v].state = p.state
  BY DEF SameBoxes, Shape, Fields
<1>5. SameBoxes(p, [p EXCEPT !.shows = v]) /\ [p EXCEPT !.shows = v].state = p.state
  BY DEF SameBoxes, Shape, Fields
<1>6. /\ SameBoxes(p, [p EXCEPT !.wrapped = v, !.there = FALSE])
      /\ [p EXCEPT !.wrapped = v, !.there = FALSE].state = p.state
  BY DEF SameBoxes, Shape, Fields
<1> QED
  BY <1>1, <1>2, <1>3, <1>4, <1>5, <1>6, SameCareful

\* Go is pressed for a target: what the placeholder was stays, or goes.
LEMMA GoForCareful ==
  ASSUME Pages, NEW w \in Tabs, NEW l \in tabs[w].loops
  PROVE  LET p == tabs[w]
             c == PickFor(Drop(p, l))
         IN /\ Careful(p, [Begins(c, "replace") EXCEPT !.seen[l.target] = "done"])
            /\ Careful(p, [c EXCEPT !.seen[l.target] = "done"])
            /\ Careful(p, [Drop(p, l) EXCEPT !.seen[l.target] = "done"])
<1> DEFINE p == tabs[w]
           d == Drop(p, l)
           g == IF d.state = "CONFIGURING" /\ d.kind = "insert" THEN CancelInsert(d) ELSE d
           c == PickFor(d)
           b == Begins(c, "replace")
           done(q) == [q EXCEPT !.seen[l.target] = "done"]
<1>1. Shape(p) /\ Shape(d) /\ SameBoxes(p, d) /\ d.state = p.state
  BY DropFacts DEF Pages, SameTools, SameBoxes
<1> HIDE DEF d
<1>2. c = Configure(g, AgentPick)
  BY DEF PickFor
<1>3. Shape(CancelInsert(d)) /\ Bare(CancelInsert(d))
  BY <1>1, CancelFacts, CancelBare DEF Tame
<1>4. Shape(g) /\ (SameBoxes(p, g) \/ Bare(g))
      /\ (p.state = "CONFIGURING" /\ SameBoxes(p, g) => p.kind # "insert" \/ Bare(g))
  BY <1>1, <1>3 DEF SameBoxes
<1> HIDE DEF g, c
<1>5. /\ Shape(c) /\ c.state = "CONFIGURING" /\ (SameBoxes(p, c) \/ Bare(c))
      /\ (p.state = "CONFIGURING" /\ SameBoxes(p, c) => p.kind # "insert" \/ Bare(c))
  BY <1>2, <1>4, ConfigureSame DEF SameBoxes, Bare
<1>6. /\ Shape(b) /\ b.state = "GENERATING" /\ (SameBoxes(p, b) \/ Bare(b))
      /\ (p.state = "CONFIGURING" /\ SameBoxes(p, b) => p.kind # "insert" \/ Bare(b))
  BY <1>5, BeginsSame DEF SameBoxes, Bare
<1> HIDE DEF b
<1>7. ASSUME NEW q, Shape(q)
      PROVE  SameBoxes(q, done(q)) /\ done(q).state = q.state
  BY <1>7 DEF SameBoxes, Shape, Fields
<1> HIDE DEF done
<1>8. Careful(p, done(c))
  <2>1. done(c).state = "CONFIGURING" /\ (SameBoxes(p, done(c)) \/ Bare(done(c)))
    BY <1>5, <1>7 DEF SameBoxes, Bare
  <2> QED
    BY <2>1, SameCareful, BareCareful
<1>9. Careful(p, done(b))
  <2>1. /\ done(b).state = "GENERATING" /\ (SameBoxes(p, done(b)) \/ Bare(done(b)))
        /\ (p.state = "CONFIGURING" /\ SameBoxes(p, done(b)) => p.kind # "insert" \/ Bare(done(b)))
    BY <1>6, <1>7 DEF SameBoxes, Bare
  <2>2. CASE Bare(done(b))
    BY <2>2, BareCareful
  <2>3. CASE p.state # "CONFIGURING" /\ SameBoxes(p, done(b))
    BY <2>1, <2>3, SameCareful
  <2>4. CASE p.kind # "insert"
    BY <2>1, <2>4, BareCareful, SameCareful
  <2> QED
    BY <2>1, <2>2, <2>3, <2>4
<1>10. Careful(p, done(d))
  <2>1. SameBoxes(p, done(d)) /\ done(d).state = p.state
    BY <1>1, <1>7 DEF SameBoxes
  <2> QED
    BY <2>1, SameCareful
<1> QED
  BY <1>8, <1>9, <1>10 DEF done, b, c, d

AllBoxed   == setting \in Settings /\ \A w \in Tabs : Boxed(tabs[w])
AllCareful == setting' = setting /\ \A w \in Tabs : Careful(tabs[w], tabs'[w])

LEMMA OnePage ==
  ASSUME DOMAIN tabs = Tabs, NEW w \in Tabs, NEW q, tabs' = [tabs EXCEPT ![w] = q],
         Careful(tabs[w], q), setting' = setting
  PROVE  AllCareful
<1>1. \A v \in Tabs \ {w} : Careful(tabs[v], tabs'[v])
  BY SameCareful DEF SameBoxes
<1> QED
  BY <1>1 DEF AllCareful

LEMMA UsesCareful ==
  ASSUME DOMAIN tabs = Tabs, NEW w \in Tabs, NEW q,
         Uses(w, q) \/ Environment(w, q) \/ Proceeds(w, q), Careful(tabs[w], q)
  PROVE  AllCareful
BY OnePage DEF Uses, Environment, Proceeds, Becomes

LEMMA UserCareful ==
  ASSUME ToolsInv, AllBoxed, NEW w \in Tabs, User(w)
  PROVE  AllCareful
<1> DEFINE p == tabs[w]
<1>1. DOMAIN tabs = Tabs /\ Shape(p) /\ setting \in Settings /\ Boxed(p)
  BY DEF ToolsInv, Ranges, Pages, AllBoxed
<1>2. ASSUME NEW q, Uses(w, q), Careful(p, q)
      PROVE  AllCareful
  BY <1>1, <1>2, UsesCareful
<1>3. /\ Careful(p, CancelInsert(p)) /\ Careful(p, ExitToPicking(p))
      /\ Careful(p, [ExitToPicking(p) EXCEPT !.hovered = None])
      /\ Careful(p, TogglePick(p)) /\ Careful(p, ToggleInsert(p)) /\ Careful(p, SessionOver(p))
  <2>1. SameBoxes(p, p)
    BY DEF SameBoxes
  <2> QED
    BY <1>1, <2>1, CancelBare, ExitSettles, TogglePickCareful, ToggleInsertCareful, SessionOverBare,
       BareCareful, SettledCareful
<1>4. CASE \E i \in DOMAIN Points : Click(w, i)
  <2>1. PICK i \in DOMAIN Points : Click(w, i)
    BY <1>4
  <2>2. CASE Uses(w, IF p.kind = "insert" THEN CancelInsert(p)
                     ELSE [ExitToPicking(p) EXCEPT !.hovered = None])
    BY <1>2, <1>3, <2>2
  <2>3. CASE p.state = "PICKING" /\ Uses(w, Place(p))
    BY <1>1, <1>2, <2>3, PlaceCareful
  <2>4. CASE Uses(w, Configure(p, p.hovered))
    BY <1>1, <1>2, <2>4, ConfigureSame
  <2> QED
    BY <2>1, <2>2, <2>3, <2>4 DEF Click
<1>5. CASE PressPick(w) \/ PressInsert(w)
  BY <1>2, <1>3, <1>5 DEF PressPick, PressInsert
<1>6. CASE Escape(w)
  <2>1. CASE Uses(w, IF p.kind = "insert" THEN CancelInsert(p) ELSE ExitToPicking(p))
    BY <1>2, <1>3, <2>1
  <2>2. CASE Uses(w, SessionOver(p))
    BY <1>2, <1>3, <2>2
  <2>3. CASE p.state = "PICKING" /\ Uses(w, IF p.insert THEN ToggleInsert(p)
                                           ELSE IF p.pick THEN TogglePick(p) ELSE SetState(p, "IDLE"))
    <3>1. Careful(p, SetState(p, "IDLE"))
      BY <1>1, <2>3, SetStateSame, SameCareful
    <3> QED
      BY <1>2, <1>3, <2>3, <3>1
  <2> QED
    BY <1>6, <2>1, <2>2, <2>3 DEF Escape
<1>7. CASE Enter(w)
  BY <1>1, <1>2, <1>7, ConfigureSame DEF Enter
<1>8. CASE RemoveSelection(w)
  <2> DEFINE r == [p EXCEPT !.selected = None]
             x == [ExitToPicking(r) EXCEPT !.hovered = None]
  <2>1. Shape(r) /\ SameBoxes(p, r)
    BY <1>1, EditBoxes
  <2>2. Careful(p, x)
    BY <2>1, ExitSettles, SettledCareful
  <2>3. Uses(w, IF p.kind = "insert" THEN CancelInsert(p) ELSE x)
    BY <1>8 DEF RemoveSelection
  <2> HIDE DEF x
  <2> QED
    BY <1>2, <1>3, <2>2, <2>3
<1>9. CASE \E d \in {1, -1} : Arrow(w, d)
  <2>1. PICK d \in {1, -1} : Arrow(w, d)
    BY <1>9
  <2>2. /\ Careful(p, [p EXCEPT !.hovered = Sibling(p.hovered, d)])
        /\ Careful(p, [p EXCEPT !.selected = Beside(p, d)])
    BY <1>1, TouchCareful
  <2> QED
    BY <1>2, <2>1, <2>2 DEF Arrow
<1>10. CASE Go(w)
  BY <1>1, <1>2, <1>10, GoCareful DEF Go
<1>11. CASE Create(w)
  <2>1. /\ p.kind = "insert" /\ p.box # NoBox
        /\ Uses(w, Begins([p EXCEPT !.selected = "placeholder",
                                    !.kept = [p.box EXCEPT !.implicit = FALSE]], "insert"))
    BY <1>11 DEF Create
  <2> QED
    BY <1>1, <1>2, <2>1, CreateCareful
<1>12. CASE \E drag \in Drags : Resize(w, drag)
  <2>1. PICK drag \in Drags : Resize(w, drag)
    BY <1>12
  <2>2. /\ p.state = "CONFIGURING" /\ p.kind = "insert" /\ p.box # NoBox
        /\ Uses(w, [p EXCEPT !.box = ResizeFromEdge(p.box, drag.edge, drag.dx, drag.dy, layout.width)])
    BY <2>1 DEF Resize
  <2> QED
    BY <1>1, <1>2, <2>2, ResizeCareful
<1>13. CASE ApplyRuns(w)
  <2>1. Careful(p, [p EXCEPT !.locked = TRUE])
    BY <1>1, TouchCareful
  <2> QED
    BY <1>2, <1>13, <2>1 DEF ApplyRuns
<1> QED
  BY <1>4, <1>5, <1>6, <1>7, <1>8, <1>9, <1>10, <1>11, <1>12, <1>13 DEF User

LEMMA PageCareful ==
  ASSUME ToolsInv, AllBoxed, NEW w \in Tabs,
         \/ Session(w) \/ ApplyEnds(w) \/ Rerender(w)
         \/ \E i \in DOMAIN Points \cup {0} : Point(w, i)
         \/ \E lost, again \in BOOLEAN : Leaves(w, lost, again)
  PROVE  AllCareful
<1> DEFINE p == tabs[w]
<1>1. DOMAIN tabs = Tabs /\ Shape(p) /\ setting \in Settings /\ Boxed(p)
  BY DEF ToolsInv, Ranges, Pages, AllBoxed
<1>2. CASE WrapperLands(w)
  <2>1. Careful(p, [p EXCEPT !.wrapped = TRUE, !.there = FALSE])
    BY <1>1, TouchCareful
  <2> QED
    BY <1>1, <1>2, <2>1, UsesCareful DEF WrapperLands
<1>3. CASE EnsurePlaceholder(w)
  <2>1. PICK e \in {p.box.anchor, FirstLike(layout, p.kept.anchor)} \ {None} :
          /\ p.state = "GENERATING" /\ p.kept # NoBox /\ Environment(w, Recreate(p, e))
    BY <1>3 DEF EnsurePlaceholder
  <2> QED
    BY <1>1, <2>1, RecreateCareful, UsesCareful
<1>4. CASE VariantsArrive(w)
  <2>1. p.state = "GENERATING"
        /\ Environment(w, LET q == SetState(p, "CYCLING")
                          IN IF p.mode = "insert" THEN FinalizeInsert(q) ELSE q)
    BY <1>4 DEF VariantsArrive
  <2> QED
    BY <1>1, <2>1, VariantsCareful, UsesCareful
<1>5. CASE SessionEnds(w)
  BY <1>1, <1>5, SessionOverBare, BareCareful, UsesCareful DEF SessionEnds
<1>6. CASE ApplyEnds(w)
  <2> DEFINE r == [p EXCEPT !.locked = FALSE]
             q == RetryDeclined(r)
  <2>1. Shape(r) /\ SameBoxes(p, r) /\ r.state = p.state
    BY <1>1 DEF Shape, Fields, SameBoxes
  <2> HIDE DEF r
  <2>2. SameTools(r, q)
    BY <2>1, RetryFacts
  <2>3. /\ tabs' = [tabs EXCEPT ![w] = q] \/ tabs' = [tabs EXCEPT ![w] = r]
        /\ setting' = setting
    BY <1>6 DEF ApplyEnds, Becomes, r
  <2> HIDE DEF q
  <2>4. Careful(p, q) /\ Careful(p, r)
    BY <2>1, <2>2, SameCareful DEF SameTools, SameBoxes
  <2> QED
    BY <1>1, <2>3, <2>4, OnePage
<1>7. CASE Rerender(w)
  <2>1. ASSUME NEW shows, tabs' = [tabs EXCEPT ![w] = [p EXCEPT !.shows = shows]], setting' = setting
        PROVE  AllCareful
    <3>1. Careful(p, [p EXCEPT !.shows = shows])
      BY <1>1, TouchCareful
    <3> QED
      BY <1>1, <2>1, <3>1, OnePage
  <2> QED
    BY <1>7, <2>1 DEF Rerender, Becomes
<1>8. CASE \E i \in DOMAIN Points \cup {0} : Point(w, i)
  <2>1. PICK i \in DOMAIN Points \cup {0} : Point(w, i)
    BY <1>8
  <2> DEFINE q == IF p.insert THEN [p EXCEPT !.line = i]
                  ELSE IF p.pick /\ i # 0 THEN [p EXCEPT !.hovered = Over(i)] ELSE p
  <2>2. Careful(p, [p EXCEPT !.line = i]) /\ Careful(p, [p EXCEPT !.hovered = Over(i)])
    BY <1>1, TouchCareful
  <2>3. q # p /\ tabs' = [tabs EXCEPT ![w] = q] /\ setting' = setting
    BY <2>1 DEF Point, Becomes
  <2>4. Careful(p, q)
    BY <2>2, <2>3
  <2> HIDE DEF q
  <2> QED
    BY <1>1, <2>3, <2>4, OnePage
<1>9. CASE \E lost, again \in BOOLEAN : Leaves(w, lost, again)
  <2>1. PICK lost \in BOOLEAN, again \in BOOLEAN : Leaves(w, lost, again)
    BY <1>9
  <2> DEFINE running == p.state \in {"GENERATING", "CYCLING"}
             fresh == [Fresh(TRUE, p.insert) EXCEPT !.pick = p.pick, !.shows = p.shows, !.locked = p.locked,
                        !.session = p.session, !.mode = p.mode, !.wrapped = p.wrapped,
                        !.kept = IF running THEN p.kept ELSE NoBox,
                        !.state = IF running THEN p.state
                                  ELSE IF p.pick \/ p.insert THEN "PICKING" ELSE "IDLE"]
             closed == [Fresh(FALSE, p.insert) EXCEPT !.pick = p.pick, !.state = "IDLE",
                         !.session = p.session]
  <2>2. fresh.box = NoBox /\ fresh.kept \in {NoBox, p.kept} /\ Bare(closed)
    BY DEF Fresh, Bare
  <2>3. /\ tabs' = [tabs EXCEPT ![w] = IF again THEN fresh ELSE closed]
        /\ setting' = setting
    BY <2>1 DEF Leaves
  <2> HIDE DEF fresh, closed
  <2>4. Careful(p, IF again THEN fresh ELSE closed)
    BY <2>2, BareCareful DEF Careful, Boxed, Opposite, Sized
  <2> QED
    BY <1>1, <2>3, <2>4, OnePage
<1> QED
  BY <1>2, <1>3, <1>4, <1>5, <1>6, <1>7, <1>8, <1>9 DEF Session

LEMMA LoopCareful ==
  ASSUME ToolsInv, NEW w \in Tabs, NEW l \in tabs[w].loops, LoopStep(w, l)
  PROVE  AllCareful
<1> DEFINE p == tabs[w]
           t == l.target
           d == Drop(p, l)
<1>1. DOMAIN tabs = Tabs /\ Shape(p) /\ Pages /\ IsLoop(l) /\ t \in Targets
  BY DEF ToolsInv, Ranges, Pages, Shape, IsLoop
<1>2. ASSUME NEW q, Chase(p, q, l) \/ SameTools(p, q), tabs' = [tabs EXCEPT ![w] = q],
             setting' = setting
      PROVE  AllCareful
  BY <1>1, <1>2, ChaseCareful, OnePage DEF Chase
<1>3. /\ Chase(p, ClaimAndAct(d, t), l) /\ Chase(p, DeclineBusy(d, t), l)
      /\ Chase(p, ReportMissing(d, t), l) /\ Chase(p, d, l)
  BY <1>1, ClaimChases, DropChases
<1>4. ASSUME NEW at, NEW says
      PROVE  SameTools(p, At(p, l, at, says))
  BY <1>1, AtFacts
<1> HIDE DEF d
<1>5. CASE TimerFires(w, l)
  BY <1>2, <1>3, <1>5 DEF TimerFires, Proceeds, Becomes, d
<1>6. CASE TakeClaim(w, l)
  <2>1. PICK at, says : Answered(w, l, at, says)
    BY <1>6 DEF TakeClaim
  <2> QED
    BY <1>2, <1>4, <2>1 DEF Answered
<1>7. CASE HearClaim(w, l)
  <2> DEFINE r == [p EXCEPT !.seen[t] = "denied"]
  <2>1. Chase(p, ActOn(w, l), l)
    BY <1>1, ActOnChases
  <2>2. Chase(p, At(r, l, "timer", "none"), l) /\ Chase(p, Drop(r, l), l)
    BY <1>1, DeniedChases
  <2>3. /\ setting' = setting
        /\ \/ tabs' = [tabs EXCEPT ![w] = ActOn(w, l)]
           \/ tabs' = [tabs EXCEPT ![w] = At(r, l, "timer", "none")]
           \/ tabs' = [tabs EXCEPT ![w] = Drop(r, l)]
    BY <1>7 DEF HearClaim, Becomes
  <2> HIDE DEF r
  <2> QED
    BY <1>2, <2>1, <2>2, <2>3
<1>8. CASE RenewAfterScroll(w, l)
  BY <1>2, <1>4, <1>8 DEF RenewAfterScroll, Proceeds, Becomes
<1>9. CASE GoFor(w, l)
  <2> DEFINE c == PickFor(d)
             done(q) == [q EXCEPT !.seen[t] = "done"]
  <2>1. Careful(p, done(Begins(c, "replace"))) /\ Careful(p, done(c)) /\ Careful(p, done(d))
    BY <1>1, GoForCareful DEF d
  <2>2. /\ setting' = setting
        /\ \/ tabs' = [tabs EXCEPT ![w] = done(Begins(c, "replace"))]
           \/ tabs' = [tabs EXCEPT ![w] = done(c)]
           \/ tabs' = [tabs EXCEPT ![w] = done(d)]
    BY <1>9 DEF GoFor, Becomes, d
  <2> HIDE DEF c, done
  <2> QED
    BY <1>1, <2>1, <2>2, OnePage
<1>10. CASE TakeReport(w, l)
  <2>1. PICK at, says : Answered(w, l, at, says)
    BY <1>10 DEF TakeReport
  <2> QED
    BY <1>2, <1>4, <2>1 DEF Answered
<1>11. CASE HearReport(w, l)
  BY <1>2, <1>3, <1>4, <1>11 DEF HearReport, Proceeds, Becomes, d
<1>12. CASE Watch(w, l)
  BY <1>2, <1>3, <1>12 DEF Watch, Proceeds, Becomes, d
<1>13. CASE TakeBusy(w, l) \/ BusyFails(w, l)
  BY <1>2, <1>3, <1>13 DEF TakeBusy, BusyFails, Becomes, d
<1>14. CASE Fails(w, l)
  <2>1. PICK at : Answered(w, l, at, "over")
    BY <1>14 DEF Fails
  <2> QED
    BY <1>2, <1>4, <2>1 DEF Answered
<1> QED
  BY <1>5, <1>6, <1>7, <1>8, <1>9, <1>10, <1>11, <1>12, <1>13, <1>14 DEF LoopStep

LEMMA HearTargetCareful ==
  ASSUME ToolsInv, NEW w \in Tabs, NEW t \in Targets, HearTarget(w, t)
  PROVE  AllCareful
<1> DEFINE p == tabs[w]
           r == [p EXCEPT !.seen[t] = "heard"]
           q == IF Busy(r, {t}) THEN DeclineBusy(r, t)
                ELSE IF ~r.shows THEN ReportMissing(r, t)
                ELSE Starts(r, t, "timer")
<1>1. DOMAIN tabs = Tabs /\ Shape(p)
  BY DEF ToolsInv, Ranges, Pages
<1>2. ~Taken(p, t) => SameTools(p, q)
  BY <1>1, HeardTame
<1>3. SameTools(p, p)
  BY DEF SameTools
<1>4. /\ setting' = setting
      /\ tabs' = [tabs EXCEPT ![w] = IF Taken(p, t) THEN p ELSE q]
  BY DEF HearTarget, Becomes
<1> HIDE DEF q
<1> QED
  BY <1>1, <1>2, <1>3, <1>4, ChaseCareful, OnePage

LEMMA NextCareful ==
  ASSUME ToolsInv, AllBoxed, Next
  PROVE  AllCareful
<1>1. ASSUME tabs' = tabs, setting' = setting
      PROVE  AllCareful
  BY <1>1, SameCareful DEF AllCareful, SameBoxes
<1>2. CASE \E w \in Tabs : \/ User(w) \/ Session(w) \/ ApplyEnds(w) \/ Rerender(w) \/ Reconnect(w)
                           \/ \E i \in DOMAIN Points \cup {0} : Point(w, i)
                           \/ \E lost, again \in BOOLEAN : Leaves(w, lost, again)
  <2>1. PICK w \in Tabs : \/ User(w) \/ Session(w) \/ ApplyEnds(w) \/ Rerender(w) \/ Reconnect(w)
                          \/ \E i \in DOMAIN Points \cup {0} : Point(w, i)
                          \/ \E lost, again \in BOOLEAN : Leaves(w, lost, again)
    BY <1>2
  <2>2. CASE User(w)
    BY <2>2, UserCareful
  <2>3. CASE Reconnect(w)
    BY <1>1, <2>3 DEF Reconnect
  <2> QED
    BY <2>1, <2>2, <2>3, PageCareful
<1>3. CASE \E t \in Targets : Targeting(t)
  <2>1. PICK t \in Targets : Targeting(t)
    BY <1>3
  <2>2. CASE AskTarget(t) \/ Lapse(t) \/ RollCall(t) \/ TimesOut(t)
               \/ \E w \in Tabs : TakeResult(w, t) \/ ResultFails(w, t)
    BY <1>1, <2>2 DEF AskTarget, Lapse, RollCall, TimesOut, TakeResult, ResultFails
  <2>3. CASE \E w \in Tabs : HearTarget(w, t)
    BY <2>3, HearTargetCareful
  <2>4. CASE \E w \in Tabs : Declines(w, t)
    BY <2>4, LoopCareful DEF Declines
  <2>5. CASE \E w \in Tabs, n \in 1..MaxLoops : Pursues(w, t, n)
    BY <2>5, LoopCareful DEF Pursues, LoopsAfter
  <2> QED
    BY <2>1, <2>2, <2>3, <2>4, <2>5 DEF Targeting
<1> QED
  BY <1>2, <1>3 DEF Next

LEMMA CarefulKeeps ==
  ASSUME AllBoxed, AllCareful
  PROVE  /\ AllBoxed'
         /\ \A w \in Tabs : Opposite(tabs[w], tabs'[w])
BY DEF AllBoxed, AllCareful, Careful, Boxed, layout

LEMMA BoxedInvariant == Spec => []AllBoxed
<1>1. Init => AllBoxed
  <2> SUFFICES ASSUME Init
               PROVE  AllBoxed
    OBVIOUS
  <2>1. \A w \in Tabs : Bare(tabs[w])
    BY DEF Init, Fresh, Bare
  <2> QED
    BY <2>1 DEF Init, AllBoxed, Boxed, Bare, Sized
<1>2. ToolsInv /\ AllBoxed /\ [Next]_vars => AllBoxed'
  <2>1. AllBoxed /\ UNCHANGED vars => AllBoxed'
    BY DEF AllBoxed, Boxed, Places, layout, vars
  <2> QED
    BY <2>1, NextCareful, CarefulKeeps
<1> QED
  BY <1>1, <1>2, ToolsInvariant, PTL DEF Spec

\* The placeholder is in the page only while the user places an element or its session
\* has no variants yet, with the size, the margins and the side the user left it, at
\* the element they chose or, where that was rendered anew, the first one that looks
\* like it.  Two causes are excepted: the user starts something while the tab acts on a
\* target, or two loops of one tab are after the same target.
THEOREM PlaceholderIsTidy == Spec => []NoStrayPlaceholder
<1>1. ToolsInv /\ AllBoxed => NoStrayPlaceholder
  <2> SUFFICES ASSUME ToolsInv, AllBoxed, {"rushed", "twice"} \cap faults = {},
                      NEW w \in Tabs, tabs[w].up, tabs[w].there, ~Places(tabs[w])
               PROVE  LET p == tabs[w] IN
                      /\ p.state = "GENERATING" /\ p.mode = "insert"
                      /\ [p.box EXCEPT !.implicit = FALSE, !.anchor = p.kept.anchor] = p.kept
                      /\ p.box.anchor \in {p.kept.anchor, FirstLike(layout, p.kept.anchor)}
    BY DEF NoStrayPlaceholder, Places
  <2> DEFINE p == tabs[w]
  <2>1. /\ p.state = "GENERATING" /\ p.mode = "insert"
        /\ [p.box EXCEPT !.implicit = FALSE, !.anchor = p.kept.anchor] = p.kept
    BY DEF ToolsInv, Tidy, NoStray, Places
  <2>2. IsBox(p.box) /\ IsBox(p.kept)
    BY DEF ToolsInv, Pages, Shape
  <2>3. DOMAIN p.box = DOMAIN p.kept
    BY <2>1
  <2>4. CASE p.box = NoBox \/ p.kept = NoBox
    <3>1. DOMAIN NoBox = {"anchor"} /\ DOMAIN NoBox # BoxFields
      BY DEF NoBox, BoxFields
    <3>2. p.box = NoBox /\ p.kept = NoBox
      BY <2>2, <2>3, <2>4, <3>1 DEF IsBox
    <3> QED
      BY <2>1, <3>2
  <2>5. CASE p.box # NoBox /\ p.kept # NoBox
    BY <2>1, <2>5 DEF AllBoxed, Boxed
  <2> QED
    BY <2>1, <2>4, <2>5
<1> QED
  BY <1>1, ToolsInvariant, BoxedInvariant, PTL

\* Of two opposite sides of the placeholder no step of the page moves both, for any
\* layout, drags and trouble: not a drag at the smallest or the largest size, not the
\* first one, which fixes the width, and not what recreates the placeholder once the
\* framework rendered anew (resizePlaceholderFromEdge, materializePlaceholderWidth,
\* ensureInsertPlaceholder).  Placing another one is no move.
THEOREM OneSideIsDragged == Spec => OppositeSideStays
<1>1. ToolsInv /\ AllBoxed /\ [Next]_vars =>
        [\A w \in Tabs : LET p == tabs[w]
                             q == tabs'[w]
                         IN p.state # "PICKING" /\ p.box # NoBox /\ q.box # NoBox
                              => OppositeStays(p.box, q.box)]_vars
  BY NextCareful, CarefulKeeps DEF Opposite
<1> QED
  BY <1>1, ToolsInvariant, BoxedInvariant, PTL DEF Spec, OppositeSideStays
=============================================================================
