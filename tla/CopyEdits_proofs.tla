-------------------------- MODULE CopyEdits_proofs --------------------------
(***************************************************************************)
(* What TLAPS proves about CopyEdits, for any page and any texts, and any  *)
(* number of edits, requests, events and kinds of trouble.                 *)
(***************************************************************************)
EXTENDS CopyEdits, FiniteSetTheorems, TLAPS

\* A set of naturals has a least element.
LEMMA LeastNat ==
  ASSUME NEW S \in SUBSET Nat, S # {}
  PROVE  \E m \in S : \A k \in S : m <= k
<1>1. IsWellFoundedOn(OpToRel(<, Nat), Nat)
  BY NatLessThanWellFounded
<1>2. \E m \in S : \A k \in S : <<k, m>> \notin OpToRel(<, Nat)
  BY <1>1, WFMin
<1>3. PICK m \in S : \A k \in S : <<k, m>> \notin OpToRel(<, Nat)
  BY <1>2
<1>4. m \in Nat
  BY <1>3
<1>5. ASSUME NEW k \in S PROVE m <= k
  <2>1. k \in Nat
    OBVIOUS
  <2>2. ~(k < m)
    BY <1>3, <1>4, <2>1 DEF OpToRel
  <2> QED
    BY <1>4, <2>1, <2>2
<1> QED
  BY <1>3, <1>5

LEMMA Bounds ==
  /\ MaxText \in Nat \ {0} /\ MaxStaged \in Nat \ {0} /\ MaxAsked \in Nat /\ MaxRequests \in Nat \ {0}
  /\ 0 \in Text /\ Text \subseteq Nat /\ NoText \notin Text /\ 0 \in Counts /\ 1 \in Counts
  /\ Counts \subseteq Nat /\ Slots \subseteq Nat
BY BoundsAssumption DEF Text, NoText, Counts, Slots

\* What the page is editing, apart from its dock and its badge.
SameEditor(p, q) ==
  /\ q.text = p.text /\ q.rows = p.rows /\ q.original = p.original /\ q.drafts = p.drafts
  /\ q.state = p.state /\ q.selected = p.selected /\ q.told = p.told

-----------------------------------------------------------------------------
(* The operators on the page. *)

LEMMA EditorTypes ==
  ASSUME NEW p \in Page
  PROVE  /\ RestoreDrafts(p) \in Page /\ DisableEdit(p) \in Page /\ HideBar(p) \in Page
         /\ EnableEdit(p) \in Page /\ CancelEditing(p) \in Page /\ ExitToPicking(p) \in Page
<1>1. \A q \in Page : RestoreDrafts(q) \in Page
  BY Bounds DEF RestoreDrafts, Page
<1>2. \A q \in Page : DisableEdit(q) \in Page
  BY Bounds DEF DisableEdit, Page, NoEdits, NoDrafts
<1>3. \A q \in Page : HideBar(q) \in Page
  BY <1>1, <1>2 DEF HideBar
<1>4. EnableEdit(p) \in Page
  <2>1. p.selected \subseteq Leaves
    BY BoundsAssumption DEF Page
  <2> QED
    BY <2>1, Bounds DEF EnableEdit, Page, NoDrafts
<1>5. \A q \in Page : [q EXCEPT !.state = "CONFIGURING", !.badge = "idle"] \in Page
                   /\ [q EXCEPT !.state = "PICKING", !.badge = "hidden"] \in Page
  BY DEF Page, Badge
<1> QED
  BY <1>1, <1>2, <1>3, <1>4, <1>5 DEF CancelEditing, ExitToPicking

LEMMA RefreshEffect ==
  ASSUME NEW p \in Page
  PROVE  /\ RefreshControls(p) \in Page /\ SameEditor(p, RefreshControls(p))
         /\ RefreshControls(p).dock = p.dock /\ RefreshControls(p).stored = p.stored
         /\ RefreshControls(p).inFlight = p.inFlight
BY DEF RefreshControls, Page, Badge, SameEditor

LEMMA StoreEffect ==
  ASSUME NEW p \in Page, NEW count \in Counts
  PROVE  /\ Store(p, count) \in Page /\ SameEditor(p, Store(p, count))
         /\ Store(p, count).dock = p.dock /\ Store(p, count).inFlight = p.inFlight
BY Bounds DEF Store, Page, SameEditor, Stored

LEMMA StorePhaseEffect ==
  ASSUME NEW p \in Page, NEW count \in Counts, NEW phase \in {"repairing", "repair-decision"}
  PROVE  /\ StorePhase(p, count, phase) \in Page /\ SameEditor(p, StorePhase(p, count, phase))
         /\ StorePhase(p, count, phase).dock = p.dock
         /\ StorePhase(p, count, phase).inFlight = p.inFlight
<1>1. Store(p, count) \in Page
  BY StoreEffect
<1>2. \A q \in Page : /\ [q EXCEPT !.stored.phase = phase] \in Page
                      /\ SameEditor(q, [q EXCEPT !.stored.phase = phase])
                      /\ [q EXCEPT !.stored.phase = phase].dock = q.dock
                      /\ [q EXCEPT !.stored.phase = phase].inFlight = q.inFlight
  BY DEF Page, Stored, SameEditor
<1> QED
  BY <1>1, <1>2, StoreEffect DEF StorePhase, SameEditor

LEMMA ResetEffect ==
  ASSUME NEW p \in Page, NEW count \in Counts
  PROVE  /\ ResetProgress(p, count) \in Page /\ SameEditor(p, ResetProgress(p, count))
         /\ ResetProgress(p, count).dock = p.dock
         /\ ResetProgress(p, count).inFlight = p.inFlight
BY Bounds DEF ResetProgress, Page, SameEditor, Stored

LEMMA StartEffect ==
  ASSUME NEW p \in Page, NEW count \in Counts
  PROVE  StartLoading(p, count) \in Page /\ SameEditor(p, StartLoading(p, count))
<1> DEFINE n    == IF count = 0 THEN p.dock.count ELSE count
           kept == Store(p, n)
           q    == [kept EXCEPT !.inFlight = TRUE, !.dock.pill = FALSE, !.dock.trash = FALSE,
                                !.dock.trashShown = TRUE, !.dock.asks = FALSE]
<1>1. n \in Counts
  BY DEF Page, Dock
<1>2. kept \in Page /\ SameEditor(p, kept)
  BY <1>1, StoreEffect
<1>3. q \in Page /\ SameEditor(kept, q)
  <2> HIDE DEF kept
  <2> QED
    BY <1>2 DEF Page, Dock, SameEditor
<1>4. RefreshControls(q) \in Page /\ SameEditor(q, RefreshControls(q))
  BY <1>3, RefreshEffect
<1>5. StartLoading(p, count) = RefreshControls(q)
  BY DEF StartLoading
<1> QED
  BY <1>2, <1>3, <1>4, <1>5 DEF SameEditor

LEMMA StopEffect ==
  ASSUME NEW p \in Page
  PROVE  /\ StopLoading(p) \in Page /\ SameEditor(p, StopLoading(p))
         /\ HideDock(p) \in Page /\ SameEditor(p, HideDock(p))
<1> DEFINE q == [p EXCEPT !.inFlight = FALSE, !.stored = NoStored, !.dock.pill = TRUE, !.dock.trash = TRUE]
           r == [p EXCEPT !.inFlight = FALSE, !.stored = NoStored, !.dock = NoDock]
<1>1. q \in Page /\ SameEditor(p, q) /\ r \in Page /\ SameEditor(p, r)
  BY Bounds DEF Page, Dock, NoDock, Stored, NoStored, SameEditor
<1> QED
  BY <1>1, RefreshEffect DEF StopLoading, HideDock, SameEditor

LEMMA CounterEffect ==
  ASSUME NEW p \in Page, NEW count \in Counts
  PROVE  UpdateCounter(p, count) \in Page /\ SameEditor(p, UpdateCounter(p, count))
<1> DEFINE shown == [p EXCEPT !.dock.count = count, !.dock.trashShown = TRUE]
<1>1. shown \in Page /\ SameEditor(p, shown)
  BY DEF Page, Dock, SameEditor
<1>2. StartLoading(shown, count) \in Page /\ SameEditor(shown, StartLoading(shown, count))
  BY <1>1, StartEffect
<1> QED
  BY <1>1, <1>2, StopEffect DEF UpdateCounter, SameEditor

LEMMA ProgressEffect ==
  ASSUME NEW p \in Page, NEW total \in Counts
  PROVE  ShowProgress(p, total) \in Page /\ SameEditor(p, ShowProgress(p, total))
<1> DEFINE t    == IF total # 0 THEN total ELSE p.stored.total
           done == IF p.stored.done + 1 > t THEN t ELSE p.stored.done + 1
           q    == [p EXCEPT !.stored = [phase |-> IF done < t THEN "applying" ELSE "verifying",
                                         total |-> t, done |-> done]]
<1>1. t \in Counts /\ p.stored.done \in Counts
  BY DEF Page, Stored
<1>2. done \in Counts /\ t - done \in Counts
  BY <1>1, Bounds DEF Counts
<1>3. q \in Page /\ SameEditor(p, q)
  <2> HIDE DEF t, done
  <2>1. [phase |-> IF done < t THEN "applying" ELSE "verifying", total |-> t, done |-> done] \in Stored
    BY <1>1, <1>2 DEF Stored
  <2> QED
    BY <2>1 DEF Page, SameEditor
<1>4. StartLoading(q, t - done) \in Page /\ SameEditor(q, StartLoading(q, t - done))
  BY <1>2, <1>3, StartEffect
<1>5. ShowProgress(p, total) = IF ~p.inFlight THEN p ELSE StartLoading(q, t - done)
  BY DEF ShowProgress
<1> QED
  BY <1>3, <1>4, <1>5 DEF SameEditor

LEMMA RepairEffect ==
  ASSUME NEW p \in Page
  PROVE  ShowRepair(p) \in Page /\ SameEditor(p, ShowRepair(p))
<1> DEFINE count == IF p.dock.count # 0 THEN p.dock.count ELSE p.stored.total
           kept  == StorePhase(p, count, "repairing")
<1>1. count \in Counts
  BY DEF Page, Dock, Stored
<1>2. kept \in Page /\ SameEditor(p, kept)
  BY <1>1, StorePhaseEffect
<1>3. StartLoading(kept, count) \in Page /\ SameEditor(kept, StartLoading(kept, count))
  BY <1>1, <1>2, StartEffect
<1>4. ShowRepair(p) = IF count = 0 THEN p ELSE StartLoading(kept, count)
  BY DEF ShowRepair
<1> QED
  BY <1>2, <1>3, <1>4 DEF SameEditor

LEMMA DecisionEffect ==
  ASSUME NEW p \in Page, NEW remaining \in Counts
  PROVE  ShowDecision(p, remaining) \in Page /\ SameEditor(p, ShowDecision(p, remaining))
<1> DEFINE count == IF p.dock.count # 0 THEN p.dock.count ELSE remaining
           kept  == StorePhase(p, count, "repair-decision")
           q     == [kept EXCEPT !.inFlight = FALSE, !.dock.pill = FALSE,
                                 !.dock.trashShown = FALSE, !.dock.asks = TRUE]
<1>1. count \in Counts
  BY DEF Page, Dock
<1>2. kept \in Page /\ SameEditor(p, kept)
  BY <1>1, StorePhaseEffect
<1>3. q \in Page /\ SameEditor(kept, q)
  <2> HIDE DEF kept
  <2> QED
    BY <1>2 DEF Page, Dock, SameEditor
<1>4. RefreshControls(q) \in Page /\ SameEditor(q, RefreshControls(q))
  BY <1>3, RefreshEffect
<1>5. ShowDecision(p, remaining) = RefreshControls(q)
  BY DEF ShowDecision
<1> QED
  BY <1>2, <1>3, <1>4, <1>5 DEF SameEditor

-----------------------------------------------------------------------------
(* What a discard makes of the page, edit by edit. *)

LEMMA RestoreOpEffect ==
  ASSUME NEW q \in Page, NEW op \in Op
  PROVE  LET r == RestoreOp(q, op)
         IN r \in Page /\ (q.told => r.told) /\ r = [q EXCEPT !.text = r.text, !.told = r.told]
BY DEF RestoreOp, Page, Op

LEMMA RestoreSteps ==
  ASSUME NEW p, NEW ops \in Seq(Op)
  PROVE  \E f : /\ f[0] = p /\ RestoreDiscarded(p, ops) = f[Len(ops)]
                /\ \A n \in 1..Len(ops) : f[n] = RestoreOp(f[n - 1], ops[n])
<1> DEFINE Upto(g, n) == g = [k \in 0..n |-> IF k = 0 THEN p ELSE RestoreOp(g[k - 1], ops[k])]
           S == {n \in 0..Len(ops) : ~\E g : Upto(g, n)}
<1>1. Len(ops) \in Nat
  OBVIOUS
<1>2. S = {}
  <2> SUFFICES ASSUME S # {} PROVE FALSE
    OBVIOUS
  <2>1. PICK m \in S : \A k \in S : m <= k
    <3>1. S \in SUBSET Nat
      BY <1>1
    <3> QED
      BY <3>1, LeastNat
  <2>2. m \in 0..Len(ops) /\ ~\E g : Upto(g, m)
    BY <2>1
  <2>3. m # 0
    <3>1. ASSUME m = 0 PROVE FALSE
      <4> DEFINE g == [k \in 0..0 |-> p]
      <4>1. g = [k \in 0..0 |-> IF k = 0 THEN p ELSE RestoreOp(g[k - 1], ops[k])]
        <5>1. \A k \in 0..0 : k = 0
          OBVIOUS
        <5> QED
          BY <5>1
      <4>2. Upto(g, m)
        BY <3>1, <4>1
      <4> QED
        BY <2>2, <4>2
    <3> QED
      BY <3>1
  <2>4. m - 1 \in 0..Len(ops) /\ m - 1 \notin S
    <3>1. m \in Nat /\ m - 1 \in 0..Len(ops) /\ ~(m <= m - 1)
      BY <1>1, <2>2, <2>3
    <3> HIDE DEF S
    <3> QED
      BY <2>1, <3>1
  <2>5. PICK g : Upto(g, m - 1)
    BY <2>4
  <2> DEFINE h == [k \in 0..m |-> IF k = m THEN RestoreOp(g[m - 1], ops[m]) ELSE g[k]]
  <2>6. \A k \in 0..(m - 1) : g[k] = IF k = 0 THEN p ELSE RestoreOp(g[k - 1], ops[k])
    BY <2>5
  <2>7. \A k \in 0..m : h[k] = IF k = 0 THEN p ELSE RestoreOp(h[k - 1], ops[k])
    <3> SUFFICES ASSUME NEW k \in 0..m PROVE h[k] = IF k = 0 THEN p ELSE RestoreOp(h[k - 1], ops[k])
      OBVIOUS
    <3>1. CASE k = m
      <4>1. k # 0 /\ k - 1 \in 0..m /\ k - 1 # m
        BY <1>1, <2>2, <2>3, <3>1
      <4> QED
        BY <3>1, <4>1
    <3>2. CASE k # m
      <4>1. k \in 0..(m - 1) /\ (k # 0 => k - 1 \in 0..m /\ k - 1 # m)
        BY <1>1, <2>2, <2>3, <3>2
      <4> QED
        BY <2>6, <3>2, <4>1
    <3> QED
      BY <3>1, <3>2
  <2>8. Upto(h, m)
    <3> DEFINE G == [k \in 0..m |-> IF k = 0 THEN p ELSE RestoreOp(h[k - 1], ops[k])]
    <3>1. h = G
      <4>1. \A k \in 0..m : h[k] = G[k]
        BY <2>7
      <4>2. DOMAIN h = 0..m /\ DOMAIN G = 0..m /\ h = [k \in DOMAIN h |-> h[k]]
        OBVIOUS
      <4> HIDE DEF h
      <4> QED
        BY <4>1, <4>2
    <3> HIDE DEF h
    <3> QED
      BY <3>1
  <2> QED
    BY <2>2, <2>8
<1>3. \E g : Upto(g, Len(ops))
  BY <1>1, <1>2
<1> DEFINE f == CHOOSE g : Upto(g, Len(ops))
<1>4. Upto(f, Len(ops))
  BY <1>3
<1>5. RestoreDiscarded(p, ops) = f[Len(ops)]
  BY DEF RestoreDiscarded
<1>6. \A n \in 0..Len(ops) : f[n] = IF n = 0 THEN p ELSE RestoreOp(f[n - 1], ops[n])
  <2> HIDE DEF f
  <2> QED
    BY <1>4
<1>7. f[0] = p /\ \A n \in 1..Len(ops) : f[n] = RestoreOp(f[n - 1], ops[n])
  <2> HIDE DEF f
  <2> QED
    BY <1>1, <1>6
<1> HIDE DEF f
<1> QED
  BY <1>5, <1>7

\* What the ops name: the text the first n of them make of "from" on a leaf.
Ends(ops, n, l, from, to) ==
  \/ from = to /\ \A k \in 1..n : ops[k].leaf # l
  \/ \E k \in 1..n : /\ ops[k].leaf = l /\ ops[k].new = to
                     /\ \A j \in (k + 1)..n : ops[j].leaf # l

\* Each edit starts from the text the ones before it made.
Chained(ops, from) ==
  \A k \in 1..Len(ops) : Ends(ops, k - 1, ops[k].leaf, from[ops[k].leaf], ops[k].original)

LEMMA EndsOnce ==
  ASSUME NEW ops \in Seq(Op), NEW n \in 0..Len(ops), NEW l, NEW from, NEW s, NEW t,
         Ends(ops, n, l, from, s), Ends(ops, n, l, from, t)
  PROVE  s = t
<1>1. CASE \A k \in 1..n : ops[k].leaf # l
  BY <1>1 DEF Ends
<1>2. CASE \E k \in 1..n : ops[k].leaf = l
  <2>1. PICK k \in 1..n : ops[k].leaf = l /\ ops[k].new = s /\ \A j \in (k + 1)..n : ops[j].leaf # l
    BY <1>2 DEF Ends
  <2>2. PICK j \in 1..n : ops[j].leaf = l /\ ops[j].new = t /\ \A i \in (j + 1)..n : ops[i].leaf # l
    BY <1>2 DEF Ends
  <2>3. k = j
    BY <2>1, <2>2
  <2> QED
    BY <2>1, <2>2, <2>3
<1> QED
  BY <1>1, <1>2

LEMMA EndsNext ==
  ASSUME NEW ops \in Seq(Op), NEW n \in 1..Len(ops), NEW l, NEW from, NEW t
  PROVE  /\ ops[n].leaf = l => Ends(ops, n, l, from, ops[n].new)
         /\ ops[n].leaf # l => (Ends(ops, n, l, from, t) <=> Ends(ops, n - 1, l, from, t))
<1>1. n \in Nat /\ \A k \in 1..n : k \in 1..(n - 1) \/ k = n
  OBVIOUS
<1>2. ASSUME ops[n].leaf = l PROVE Ends(ops, n, l, from, ops[n].new)
  <2>1. n \in 1..n /\ \A j \in (n + 1)..n : FALSE
    BY <1>1
  <2> QED
    BY <1>2, <2>1 DEF Ends
<1>3. ASSUME ops[n].leaf # l, Ends(ops, n, l, from, t) PROVE Ends(ops, n - 1, l, from, t)
  BY <1>1, <1>3 DEF Ends
<1>4. ASSUME ops[n].leaf # l, Ends(ops, n - 1, l, from, t) PROVE Ends(ops, n, l, from, t)
  BY <1>1, <1>4 DEF Ends
<1> QED
  BY <1>2, <1>3, <1>4

\* A discard that tells the user nothing has put every text back.
LEMMA DiscardRestores ==
  ASSUME NEW p \in Page, NEW ops \in Seq(Op), NEW from \in [Leaves -> Text], Chained(ops, from),
         \A l \in Leaves : Ends(ops, Len(ops), l, from[l], p.text[l])
  PROVE  \/ RestoreDiscarded(p, ops).told
         \/ RestoreDiscarded(p, ops).text = from
<1>1. PICK f : /\ f[0] = p /\ RestoreDiscarded(p, ops) = f[Len(ops)]
               /\ \A n \in 1..Len(ops) : f[n] = RestoreOp(f[n - 1], ops[n])
  BY RestoreSteps
<1> DEFINE Left(n, l) ==
             \/ f[n].text[l] = p.text[l] /\ \A k \in 1..n : ops[k].leaf # l
             \/ f[n].text[l] = from[l] /\ Ends(ops, n, l, from[l], p.text[l])
             \/ f[n].text[l] = p.text[l] /\ Ends(ops, n, l, from[l], from[l])
           Good(n) == f[n] \in Page /\ (f[n].told \/ \A l \in Leaves : Left(n, l))
           S == {n \in 0..Len(ops) : ~Good(n)}
<1>2. Good(0)
  BY <1>1
<1>3. ASSUME NEW n \in 1..Len(ops), Good(n - 1) PROVE Good(n)
  <2> DEFINE q == f[n - 1]
             op == ops[n]
  <2>1. q \in Page /\ op \in Op /\ f[n] = RestoreOp(q, op)
    BY <1>1, <1>3
  <2>2. f[n] \in Page
    <3> HIDE DEF q, op
    <3> QED
      BY <2>1, RestoreOpEffect
  <2>3. CASE q.told \/ q.text[op.leaf] # op.new
    <3>1. f[n].told
      <4> HIDE DEF q, op
      <4> QED
        BY <2>1, <2>3 DEF RestoreOp, Page
    <3> QED
      BY <2>2, <3>1
  <2>4. CASE ~q.told /\ q.text[op.leaf] = op.new
    <3>1. f[n].text = [q.text EXCEPT ![op.leaf] = op.original] /\ op.leaf \in Leaves
      <4> HIDE DEF q, op
      <4> QED
        BY <2>1, <2>4 DEF RestoreOp, Page, Op
    <3>2. ASSUME NEW l \in Leaves PROVE Left(n, l)
      <4>1. Left(n - 1, l)
        BY <1>3, <2>4
      <4>2. q.text \in [Leaves -> Text]
        <5> HIDE DEF q, op
        <5> QED
          BY <2>1 DEF Page
      <4>3. CASE op.leaf # l
        <5>1. f[n].text[l] = q.text[l]
          BY <3>1, <4>2, <4>3
        <5>2. \A t : Ends(ops, n, l, from[l], t) <=> Ends(ops, n - 1, l, from[l], t)
          BY <4>3, EndsNext
        <5>3. (\A k \in 1..(n - 1) : ops[k].leaf # l) => \A k \in 1..n : ops[k].leaf # l
          BY <4>3
        <5> QED
          BY <4>1, <5>1, <5>2, <5>3
      <4>4. CASE op.leaf = l
        <5>1. f[n].text[l] = op.original
          BY <3>1, <4>2, <4>4
        <5>2. Ends(ops, n - 1, l, from[l], op.original) /\ Ends(ops, n, l, from[l], op.new)
          BY <4>4, EndsNext DEF Chained
        <5>3. q.text[l] = op.new
          BY <2>4, <4>4
        <5>4. n - 1 \in 0..Len(ops)
          OBVIOUS
        <5>5. CASE q.text[l] = p.text[l] /\ \A k \in 1..(n - 1) : ops[k].leaf # l
          <6>1. op.original = from[l]
            BY <5>2, <5>5 DEF Ends
          <6> QED
            BY <5>1, <5>2, <5>3, <5>5, <6>1
        <5>6. CASE q.text[l] = from[l] /\ Ends(ops, n - 1, l, from[l], p.text[l])
          <6>1. op.original = p.text[l]
            BY <5>2, <5>4, <5>6, EndsOnce
          <6> QED
            BY <5>1, <5>2, <5>3, <5>6, <6>1
        <5>7. CASE q.text[l] = p.text[l] /\ Ends(ops, n - 1, l, from[l], from[l])
          <6>1. op.original = from[l]
            BY <5>2, <5>4, <5>7, EndsOnce
          <6> QED
            BY <5>1, <5>2, <5>3, <5>7, <6>1
        <5> QED
          BY <4>1, <5>5, <5>6, <5>7
      <4> QED
        BY <4>3, <4>4
    <3> QED
      BY <2>2, <3>2
  <2> QED
    BY <2>3, <2>4
<1>4. S = {}
  <2> SUFFICES ASSUME S # {} PROVE FALSE
    OBVIOUS
  <2>1. S \in SUBSET Nat
    OBVIOUS
  <2>2. PICK m \in S : \A k \in S : m <= k
    BY <2>1, LeastNat
  <2>3. m \in 0..Len(ops) /\ ~Good(m)
    BY <2>2
  <2> HIDE DEF Good
  <2>4. m # 0
    BY <1>2, <2>3
  <2>5. m \in 1..Len(ops) /\ m - 1 \in 0..Len(ops) /\ ~(m <= m - 1)
    BY <2>3, <2>4
  <2>6. Good(m - 1)
    BY <2>2, <2>5
  <2> QED
    BY <1>3, <2>3, <2>5, <2>6
<1>5. Good(Len(ops))
  <2> HIDE DEF Good
  <2> QED
    BY <1>4
<1>6. CASE ~f[Len(ops)].told
  <2>1. ASSUME NEW l \in Leaves PROVE f[Len(ops)].text[l] = from[l]
    <3>1. Left(Len(ops), l) /\ Ends(ops, Len(ops), l, from[l], p.text[l])
      BY <1>5, <1>6
    <3>2. (\A k \in 1..Len(ops) : ops[k].leaf # l) => p.text[l] = from[l]
      BY <3>1 DEF Ends
    <3>3. Ends(ops, Len(ops), l, from[l], from[l]) => p.text[l] = from[l]
      BY <3>1, EndsOnce
    <3> QED
      BY <3>1, <3>2, <3>3
  <2>2. f[Len(ops)].text \in [Leaves -> Text]
    BY <1>5 DEF Page
  <2> QED
    BY <1>1, <2>1, <2>2
<1> QED
  BY <1>1, <1>6

LEMMA RestoreEffect ==
  ASSUME NEW p \in Page, NEW ops \in Seq(Op)
  PROVE  /\ RestoreDiscarded(p, ops) \in Page
         /\ p.told => RestoreDiscarded(p, ops).told
         /\ \E text \in [Leaves -> Text], told \in BOOLEAN :
              RestoreDiscarded(p, ops) = [p EXCEPT !.text = text, !.told = told]
<1>1. PICK f : /\ f[0] = p /\ RestoreDiscarded(p, ops) = f[Len(ops)]
               /\ \A n \in 1..Len(ops) : f[n] = RestoreOp(f[n - 1], ops[n])
  BY RestoreSteps
<1> DEFINE Good(n) == /\ f[n] \in Page /\ (p.told => f[n].told)
                      /\ f[n] = [p EXCEPT !.text = f[n].text, !.told = f[n].told]
           S == {n \in 0..Len(ops) : ~Good(n)}
<1>2. Good(0)
  BY <1>1 DEF Page
<1>3. ASSUME NEW n \in 1..Len(ops), Good(n - 1) PROVE Good(n)
  <2> DEFINE q == f[n - 1]
             op == ops[n]
             r == f[n]
  <2>1. q \in Page /\ op \in Op /\ r = RestoreOp(q, op)
    BY <1>1, <1>3
  <2>2. (p.told => q.told) /\ q = [p EXCEPT !.text = q.text, !.told = q.told]
    BY <1>3
  <2> HIDE DEF q, op, r
  <2>3. r \in Page /\ (q.told => r.told) /\ r = [q EXCEPT !.text = r.text, !.told = r.told]
    BY <2>1, RestoreOpEffect
  <2>4. r = [p EXCEPT !.text = r.text, !.told = r.told]
    BY <2>1, <2>2, <2>3 DEF Page
  <2> QED
    BY <2>2, <2>3, <2>4 DEF r
<1>4. S = {}
  <2> SUFFICES ASSUME S # {} PROVE FALSE
    OBVIOUS
  <2>1. S \in SUBSET Nat
    <3> HIDE DEF Good
    <3> QED
      OBVIOUS
  <2>2. PICK m \in S : \A k \in S : m <= k
    BY <2>1, LeastNat
  <2>3. m \in 0..Len(ops) /\ ~Good(m)
    BY <2>2
  <2> HIDE DEF Good
  <2>4. m # 0
    BY <1>2, <2>3
  <2>5. m \in 1..Len(ops) /\ m - 1 \in 0..Len(ops) /\ ~(m <= m - 1)
    BY <2>3, <2>4
  <2>6. Good(m - 1)
    BY <2>2, <2>5
  <2> QED
    BY <1>3, <2>3, <2>5, <2>6
<1>5. Good(Len(ops))
  <2> HIDE DEF Good
  <2> QED
    BY <1>4
<1> QED
  BY <1>1, <1>5 DEF Page

-----------------------------------------------------------------------------
(* What is sent, and in which order. *)

LEMMA OrderOfSet ==
  ASSUME NEW S \in SUBSET Op, IsFiniteSet(S)
  PROVE  LET ops == SetToSeq(S)
         IN /\ ops \in Seq(Op) /\ DOMAIN ops = 1..Len(ops)
            /\ \A k \in 1..Len(ops) : ops[k] \in S
            /\ \A s \in S : \E k \in 1..Len(ops) : ops[k] = s
            /\ \A j, k \in 1..Len(ops) : ops[j] = ops[k] => j = k
<1> DEFINE n   == Cardinality(S)
           ops == SetToSeq(S)
<1>1. n \in Nat /\ ExistsBijection(1..n, S)
  BY FS_CardinalityType
<1>2. PICK g \in Bijection(1..n, S) : TRUE
  BY <1>1 DEF ExistsBijection
<1>3. g \in [1..n -> S] /\ IsInjective(g)
  BY <1>2 DEF Bijection, Injection
<1>4. ops \in [1..n -> S] /\ IsInjective(ops)
  BY <1>3 DEF SetToSeq
<1> HIDE DEF n
<1> HIDE DEF ops
<1>5. ops \in Injection(1..n, S)
  BY <1>4 DEF Injection
<1>6. IsFiniteSet(1..n) /\ Cardinality(1..n) = n
  BY <1>1, FS_Interval
<1>7. ops \in Surjection(1..n, S)
  BY <1>5, <1>6, FS_Injection DEF n
<1>8. \A s \in S : \E k \in 1..n : ops[k] = s
  BY <1>7 DEF Surjection
<1>9. ops \in Seq(Op) /\ Len(ops) = n /\ DOMAIN ops = 1..n
  BY <1>1, <1>4
<1>10. \A j, k \in 1..n : ops[j] = ops[k] => j = k
  BY <1>4 DEF IsInjective
<1>11. \A k \in 1..n : ops[k] \in S
  BY <1>4
<1> QED
  BY <1>8, <1>9, <1>10, <1>11 DEF ops

LEMMA EditsSent ==
  ASSUME page \in Page
  PROVE  LET edits == {l \in Leaves : Edited(l)}
             ops   == SetToSeq({OpOf(l) : l \in edits})
         IN /\ ops \in Seq(Op) /\ DOMAIN ops = 1..Len(ops)
            /\ \A k \in 1..Len(ops) : ops[k].leaf \in edits /\ ops[k] = OpOf(ops[k].leaf)
            /\ \A l \in edits : \E k \in 1..Len(ops) : ops[k].leaf = l
            /\ \A j, k \in 1..Len(ops) : ops[j].leaf = ops[k].leaf => j = k
<1> DEFINE edits == {l \in Leaves : Edited(l)}
           S     == {OpOf(l) : l \in edits}
           f     == [l \in edits |-> OpOf(l)]
           ops   == SetToSeq(S)
<1>1. IsFiniteSet(edits)
  BY BoundsAssumption, FS_Subset
<1>2. f \in Surjection(edits, S)
  <2>1. f \in [edits -> S]
    OBVIOUS
  <2>2. \A s \in S : \E l \in edits : f[l] = s
    OBVIOUS
  <2> QED
    BY <2>1, <2>2 DEF Surjection
<1>3. IsFiniteSet(S)
  <2> HIDE DEF edits, S, f
  <2> QED
    BY <1>1, <1>2, FS_Surjection
<1>4. \A l \in edits : OpOf(l) \in Op /\ OpOf(l).leaf = l
  BY Bounds DEF Edited, OpOf, Op, Page
<1>5. S \in SUBSET Op
  BY <1>4
<1>6. /\ ops \in Seq(Op) /\ DOMAIN ops = 1..Len(ops)
      /\ \A k \in 1..Len(ops) : ops[k] \in S
      /\ \A s \in S : \E k \in 1..Len(ops) : ops[k] = s
      /\ \A j, k \in 1..Len(ops) : ops[j] = ops[k] => j = k
  <2> HIDE DEF S
  <2> QED
    BY <1>3, <1>5, OrderOfSet
<1> HIDE DEF ops
<1>7. \A k \in 1..Len(ops) : ops[k].leaf \in edits /\ ops[k] = OpOf(ops[k].leaf)
  BY <1>4, <1>6
<1>8. \A l \in edits : \E k \in 1..Len(ops) : ops[k].leaf = l
  BY <1>4, <1>6
<1>9. \A j, k \in 1..Len(ops) : ops[j].leaf = ops[k].leaf => j = k
  BY <1>6, <1>7
<1> QED
  BY <1>6, <1>7, <1>8, <1>9 DEF ops

LEMMA FirstOpenFound ==
  ASSUME Open # {}
  PROVE  FirstOpen \in Open
<1>1. Open \in SUBSET Nat
  BY Bounds DEF Open
<1>2. \E i \in Open : \A j \in Open : i <= j
  BY <1>1, LeastNat
<1> QED
  BY <1>2 DEF FirstOpen

LEMMA SendsEffect ==
  ASSUME requests \in [Slots -> Request], NEW ops \in Seq(Op),
         NEW kind \in {"stash", "count", "commit", "repair", "rollback", "discard"}, Sends(kind, ops)
  PROVE  /\ requests' \in [Slots -> Request]
         /\ \E i \in Slots : /\ requests[i].kind = "free"
                             /\ requests'[i] = Sent(kind, ops)
                             /\ \A j \in Slots \ {i} : requests'[j] = requests[j]
<1>1. FirstOpen \in Slots /\ requests[FirstOpen].kind = "free"
  BY FirstOpenFound DEF Sends, Open
<1>2. Sent(kind, ops) \in Request
  BY Bounds DEF Sent, Request
<1> QED
  BY <1>1, <1>2 DEF Sends

LEMMA SaveAsks ==
  ASSUME page \in Page, requests \in [Slots -> Request],
         Asks("stash", SetToSeq({OpOf(l) : l \in {k \in Leaves : Edited(k)}}))
  PROVE  requests' \in [Slots -> Request]
<1> DEFINE ops == SetToSeq({OpOf(l) : l \in {k \in Leaves : Edited(k)}})
<1>1. ops \in Seq(Op)
  BY EditsSent
<1> HIDE DEF ops
<1>2. Sends("stash", ops)
  BY DEF Asks, ops
<1> QED
  BY <1>1, <1>2, SendsEffect

-----------------------------------------------------------------------------
(* Types, and the helper's bookkeeping. *)

\* An apply is about edits that are kept, and a repair comes after all of them.
JobSound ==
  /\ job.size <= Len(staged) /\ job.todo <= job.size
  /\ job.step \in {"repairing", "decision"} => job.todo = 0
  /\ job.step = "idle" => job.size = 0

TypeInv == TypeOK /\ JobSound

LEMMA TypeInit == Init => TypeInv
<1> SUFFICES ASSUME Init PROVE TypeInv
  OBVIOUS
<1>1. NoEdits \in [Leaves -> Text]
  BY Bounds DEF NoEdits
<1>2. page \in Page
  <2>1. NoDrafts \in [Leaves -> Text \cup {NoText}] /\ NoDock \in Dock /\ NoStored \in Stored
    BY Bounds DEF NoDrafts, NoDock, Dock, NoStored, Stored
  <2> QED
    BY <1>1, <2>1 DEF Init, Fresh, Page, Badge
<1>3. requests \in [Slots -> Request]
  <2>1. Free \in Request
    BY Bounds DEF Free, Request
  <2> QED
    BY <2>1 DEF Init
<1>4. job \in Job /\ source \in [Leaves -> Text]
  BY <1>1, Bounds DEF Init, Job
<1>5. events \in Seq(Event) /\ staged \in Seq(Op) /\ Len(staged) = 0
  BY DEF Init
<1>6. asked \in 0..MaxAsked /\ faults \subseteq Fault
  BY Bounds DEF Init
<1>7. TypeOK
  BY <1>2, <1>3, <1>4, <1>5, <1>6, Bounds DEF TypeOK
<1>8. JobSound
  BY <1>5, Bounds DEF Init, JobSound
<1> QED
  BY <1>7, <1>8 DEF TypeInv

LEMMA StrikesType ==
  ASSUME faults \subseteq Fault
  PROVE  /\ \A kind \in Fault : Strikes(kind) => faults' \subseteq Fault
         /\ \A kind \in Fault : \A s : Unless(kind, s) => faults' \subseteq Fault
BY DEF Strikes, Unless

LEMMA TellsType ==
  ASSUME events \in Seq(Event), NEW count \in Counts, NEW type, Tells(type, count),
         type \in {"stashed", "started", "repairing", "chunk", "repair", "decision",
                   "rolledBack", "done", "failed", "discarded"}
  PROVE  events' \in Seq(Event)
<1>1. [type |-> type, count |-> count] \in Event
  BY DEF Event
<1> QED
  BY <1>1 DEF Tells

LEMMA FreshType ==
  ASSUME NEW text \in [Leaves -> Text], NEW stored \in Stored
  PROVE  Fresh(text, stored) \in Page
<1>1. NoEdits \in [Leaves -> Text] /\ NoDrafts \in [Leaves -> Text \cup {NoText}] /\ NoDock \in Dock
  BY Bounds DEF NoEdits, NoDrafts, NoDock, Dock
<1> QED
  BY <1>1 DEF Fresh, Page, Badge

\* An event changes the dock, never the texts.
LEMMA ShowsEffect ==
  ASSUME page \in Page, NEW e \in Event
  PROVE  Shows(e) \in Page /\ SameEditor(page, Shows(e))
<1> DEFINE c == UpdateCounter(page, e.count)
<1>1. e.count \in Counts
  BY DEF Event
<1>2. c \in Page /\ SameEditor(page, c)
  BY <1>1, CounterEffect
<1>3. \A p, q, r : SameEditor(p, q) /\ SameEditor(q, r) => SameEditor(p, r)
  BY DEF SameEditor
<1> HIDE DEF c
<1>4. CASE e.type = "stashed"
  BY <1>2, <1>4 DEF Shows, c
<1>5. CASE e.type = "started"
  <2>1. ResetProgress(c, e.count) \in Page /\ SameEditor(c, ResetProgress(c, e.count))
    BY <1>1, <1>2, ResetEffect
  <2>2. /\ StartLoading(ResetProgress(c, e.count), e.count) \in Page
        /\ SameEditor(ResetProgress(c, e.count), StartLoading(ResetProgress(c, e.count), e.count))
    BY <1>1, <2>1, StartEffect
  <2>3. Shows(e) = StartLoading(ResetProgress(c, e.count), e.count)
    BY <1>5 DEF Shows, c
  <2> QED
    BY <1>2, <1>3, <2>1, <2>2, <2>3
<1>6. CASE e.type = "repairing"
  <2>1. ShowRepair(c) \in Page /\ SameEditor(c, ShowRepair(c))
    BY <1>2, RepairEffect
  <2>2. /\ StartLoading(ShowRepair(c), e.count) \in Page
        /\ SameEditor(ShowRepair(c), StartLoading(ShowRepair(c), e.count))
    BY <1>1, <2>1, StartEffect
  <2>3. Shows(e) = StartLoading(ShowRepair(c), e.count)
    BY <1>6 DEF Shows, c
  <2> QED
    BY <1>2, <1>3, <2>1, <2>2, <2>3
<1>7. CASE e.type = "chunk"
  <2>1. Shows(e) = ShowProgress(page, e.count)
    BY <1>7 DEF Shows
  <2> QED
    BY <1>1, <2>1, ProgressEffect
<1>8. CASE e.type = "repair"
  <2>1. Shows(e) = ShowRepair(page)
    BY <1>8 DEF Shows
  <2> QED
    BY <2>1, RepairEffect
<1>9. CASE e.type = "decision"
  <2>1. Shows(e) = ShowDecision(page, e.count)
    BY <1>9 DEF Shows
  <2> QED
    BY <1>1, <2>1, DecisionEffect
<1>10. CASE e.type = "rolledBack"
  <2>1. Shows(e) = [page EXCEPT !.stored = NoStored]
    BY <1>10 DEF Shows
  <2> QED
    BY <2>1, Bounds DEF Page, SameEditor, NoStored, Stored
<1>11. CASE e.type = "done"
  <2>1. Shows(e) = UpdateCounter(StopLoading(page), e.count)
    BY <1>11 DEF Shows, CommitDone
  <2>2. StopLoading(page) \in Page /\ SameEditor(page, StopLoading(page))
    BY StopEffect
  <2> QED
    BY <1>1, <1>3, <2>1, <2>2, CounterEffect
<1>12. CASE e.type = "failed"
  <2>1. Shows(e) = StopLoading(page)
    BY <1>12 DEF Shows
  <2> QED
    BY <2>1, StopEffect
<1>13. CASE e.type = "discarded"
  <2>1. Shows(e) = page
    BY <1>13 DEF Shows
  <2> QED
    BY <2>1 DEF SameEditor
<1>14. e.type \in {"stashed", "started", "repairing", "chunk", "repair", "decision",
                   "rolledBack", "done", "failed", "discarded"}
  BY DEF Event
<1> QED
  BY <1>4, <1>5, <1>6, <1>7, <1>8, <1>9, <1>10, <1>11, <1>12, <1>13, <1>14

\* An answer does not either, but that of a stash or a discard.
LEMMA AnswerEffect ==
  ASSUME TypeOK, NEW i \in Slots, Answered(i)
  PROVE  /\ page' \in Page
         /\ requests[i].kind \notin {"stash", "discard"} => SameEditor(page, page')
<1>1. page \in Page /\ requests[i] \in Request /\ requests[i].count \in Counts
  BY DEF TypeOK, Request
<1>2. CASE StashAnswered(i)
  <2>1. UpdateCounter(page, requests[i].count) \in Page
    BY <1>1, CounterEffect
  <2>2. \A q \in Page : [q EXCEPT !.state = "CONFIGURING", !.badge = "idle"] \in Page
    BY DEF Page, Badge
  <2> QED
    BY <1>1, <1>2, <2>1, <2>2, EditorTypes DEF StashAnswered
<1>3. CASE CountAnswered(i)
  BY <1>1, <1>3, CounterEffect DEF CountAnswered, SameEditor
<1>4. CASE CommitAnswered(i)
  BY <1>1, <1>4, StopEffect DEF CommitAnswered, SameEditor
<1>5. CASE RepairAnswered(i)
  <2>1. page.dock.count \in Counts
    BY <1>1 DEF Page, Dock
  <2>2. /\ [page EXCEPT !.dock.asks = FALSE, !.dock.trashShown = TRUE] \in Page
        /\ SameEditor(page, [page EXCEPT !.dock.asks = FALSE, !.dock.trashShown = TRUE])
    BY <1>1 DEF Page, Dock, SameEditor
  <2> QED
    BY <1>1, <1>5, <2>1, <2>2, DecisionEffect DEF RepairAnswered
<1>6. CASE RollbackAnswered(i)
  <2>1. [page EXCEPT !.stored = NoStored] \in Page /\ SameEditor(page, [page EXCEPT !.stored = NoStored])
    BY <1>1, Bounds DEF Page, NoStored, Stored, SameEditor
  <2> QED
    BY <1>1, <1>6, <2>1, CounterEffect DEF RollbackAnswered, SameEditor
<1>7. CASE DiscardAnswered(i)
  <2>1. RestoreDiscarded(page, requests[i].ops) \in Page
    BY <1>1, RestoreEffect DEF Request
  <2> QED
    BY <1>1, <1>7, <2>1, Bounds, CounterEffect DEF DiscardAnswered
<1> QED
  BY <1>2, <1>3, <1>4, <1>5, <1>6, <1>7 DEF Answered

\* What the user does to the texts.
LEMMA UserEditType ==
  ASSUME TypeOK,
         \/ \E e \in Elements : Pick(e)
         \/ \E l \in Leaves : EscapeLeaf(l) \/ \E t \in Text : Type(l, t)
         \/ ExitConfigure \/ EnterEditing \/ Cancel \/ ClickOutside \/ Go \/ SessionEnds \/ Save
  PROVE  page' \in Page /\ requests' \in [Slots -> Request] /\ asked' \in 0..MaxAsked
         /\ faults' \subseteq Fault /\ UNCHANGED helper
<1>1. page \in Page /\ requests \in [Slots -> Request] /\ asked \in 0..MaxAsked /\ faults \subseteq Fault
  BY DEF TypeOK
<1>2. {"leaving", "editing", "typing", "overlap"} \subseteq Fault
  BY DEF Fault
<1>3. ASSUME NEW e \in Elements, Pick(e)
      PROVE  page' \in Page /\ UNCHANGED <<requests, asked, helper>> /\ faults' \subseteq Fault
  BY <1>1, <1>2, <1>3, StrikesType DEF Pick, Page, Badge
<1>4. ASSUME NEW l \in Leaves, EscapeLeaf(l)
      PROVE  page' \in Page /\ UNCHANGED <<requests, asked, helper>> /\ faults' \subseteq Fault
  BY <1>1, <1>2, <1>4, StrikesType DEF EscapeLeaf, Page
<1>5. ASSUME NEW l \in Leaves, NEW t \in Text, Type(l, t)
      PROVE  page' \in Page /\ UNCHANGED <<requests, asked, helper>> /\ faults' \subseteq Fault
  BY <1>1, <1>2, <1>5, StrikesType DEF Type, Page
<1>6. ASSUME ExitConfigure
      PROVE  page' \in Page /\ UNCHANGED <<requests, asked, helper>> /\ faults' \subseteq Fault
  BY <1>1, <1>2, <1>6, StrikesType, EditorTypes DEF ExitConfigure
<1>7. ASSUME EnterEditing
      PROVE  page' \in Page /\ UNCHANGED <<requests, asked, helper>> /\ faults' \subseteq Fault
  <2>1. [page EXCEPT !.state = "EDITING"] \in Page
    BY <1>1 DEF Page
  <2>2. EnableEdit(HideBar([page EXCEPT !.state = "EDITING"])) \in Page
    BY <2>1, EditorTypes
  <2>3. \A q \in Page : [q EXCEPT !.badge = "editing"] \in Page
    BY DEF Page, Badge
  <2> QED
    BY <1>1, <1>2, <1>7, <2>2, <2>3, StrikesType DEF EnterEditing
<1>8. ASSUME Cancel
      PROVE  page' \in Page /\ UNCHANGED <<requests, asked, helper>> /\ faults' \subseteq Fault
  BY <1>1, <1>2, <1>8, StrikesType, EditorTypes DEF Cancel
<1>9. ASSUME ClickOutside
      PROVE  page' \in Page /\ UNCHANGED <<requests, asked, helper>> /\ faults' \subseteq Fault
  <2>1. DisableEdit(RestoreDrafts(page)) \in Page
    BY <1>1, EditorTypes
  <2>2. \A q \in Page : [q EXCEPT !.state = "PICKING", !.badge = "hidden"] \in Page
    BY DEF Page, Badge
  <2> QED
    BY <1>1, <1>2, <1>9, <2>1, <2>2, StrikesType DEF ClickOutside
<1>10. ASSUME Go
       PROVE  page' \in Page /\ UNCHANGED <<requests, asked, helper>> /\ faults' \subseteq Fault
  BY <1>1, <1>2, <1>10, StrikesType DEF Go, Page, Badge
<1>11. ASSUME SessionEnds
       PROVE  page' \in Page /\ UNCHANGED <<requests, asked, helper>> /\ faults' \subseteq Fault
  <2>1. HideBar(page) \in Page
    BY <1>1, EditorTypes
  <2>2. \A q \in Page : [q EXCEPT !.state = "PICKING", !.selected = {}, !.badge = "hidden"] \in Page
    BY DEF Page, Badge
  <2> QED
    BY <1>1, <1>11, <2>1, <2>2 DEF SessionEnds
<1>12. ASSUME Save
       PROVE  page' \in Page /\ requests' \in [Slots -> Request] /\ asked' \in 0..MaxAsked
              /\ faults' \subseteq Fault /\ UNCHANGED helper
  <2> DEFINE edits == {l \in Leaves : Edited(l)}
  <2>1. CASE edits = {}
    BY <1>1, <1>2, <1>12, <2>1, StrikesType, EditorTypes DEF Save
  <2>2. CASE edits # {}
    <3>1. Asks("stash", SetToSeq({OpOf(l) : l \in edits})) /\ UNCHANGED <<page, helper>>
          /\ Unless("overlap", UserWaits)
      BY <1>12, <2>2 DEF Save
    <3>2. requests' \in [Slots -> Request]
      BY <1>1, <3>1, SaveAsks
    <3>3. asked' \in 0..MaxAsked
      BY <1>1, <3>1, Bounds DEF Asks
    <3> QED
      BY <1>1, <1>2, <3>1, <3>2, <3>3, StrikesType
  <2> QED
    BY <2>1, <2>2
<1> QED
  BY <1>1, <1>3, <1>4, <1>5, <1>6, <1>7, <1>8, <1>9, <1>10, <1>11, <1>12

LEMMA UserDockType ==
  ASSUME TypeOK, Apply \/ DiscardEdits \/ KeepFixing \/ Rollback
  PROVE  page' \in Page /\ SameEditor(page, page') /\ requests' \in [Slots -> Request]
         /\ asked' \in 0..MaxAsked /\ faults' \subseteq Fault /\ UNCHANGED helper
<1>1. page \in Page /\ requests \in [Slots -> Request] /\ asked \in 0..MaxAsked
      /\ faults \subseteq Fault /\ page.dock.count \in Counts /\ <<>> \in Seq(Op)
  BY DEF TypeOK, Page, Dock
<1>2. AtDock => faults' \subseteq Fault
  BY <1>1, StrikesType DEF AtDock, Fault
<1>3. \A kind : Asks(kind, <<>>) => asked' \in 0..MaxAsked
  BY <1>1, Bounds DEF Asks
<1>4. \A kind \in {"commit", "repair", "rollback", "discard"} :
        Asks(kind, <<>>) => requests' \in [Slots -> Request]
  BY <1>1, SendsEffect DEF Asks
<1>5. CASE Apply
  <2>1. LET q == ResetProgress(page, page.dock.count)
        IN /\ StartLoading(q, page.dock.count) \in Page
           /\ SameEditor(page, StartLoading(q, page.dock.count))
    BY <1>1, ResetEffect, StartEffect DEF SameEditor
  <2> QED
    BY <1>1, <1>2, <1>3, <1>4, <1>5, <2>1 DEF Apply
<1>6. CASE DiscardEdits
  BY <1>1, <1>2, <1>3, <1>4, <1>6 DEF DiscardEdits, SameEditor
<1>7. CASE KeepFixing
  BY <1>1, <1>2, <1>3, <1>4, <1>7, RepairEffect DEF KeepFixing
<1>8. CASE Rollback
  BY <1>1, <1>3, <1>4, <1>8 DEF Rollback, SameEditor, Fault
<1> QED
  BY <1>5, <1>6, <1>7, <1>8

\* What the helper makes of a request.
LEMMA TakeType ==
  ASSUME TypeInv, NEW i \in Slots, Take(i)
  PROVE  TypeInv'
<1>1. /\ page \in Page /\ events \in Seq(Event) /\ staged \in Seq(Op) /\ Len(staged) \in Counts
      /\ requests \in [Slots -> Request] /\ job \in Job /\ source \in [Leaves -> Text]
      /\ asked \in 0..MaxAsked /\ faults \subseteq Fault
  BY Bounds DEF TypeInv, TypeOK, Counts
<1>2. page' = page /\ asked' = asked
  BY DEF Take
<1>3. requests[i] \in Request
  BY <1>1
<1>4. ASSUME NEW kept, Len(kept) \in Counts, Answers(i, kept) PROVE requests' \in [Slots -> Request]
  <2>1. Free \in Request
    BY Bounds DEF Free, Request
  <2>2. [requests[i] EXCEPT !.step = "answered", !.count = Len(kept)] \in Request
    BY <1>3, <1>4 DEF Request
  <2> QED
    BY <1>1, <1>4, <2>1, <2>2 DEF Answers
<1>5. ASSUME Refuses(i) PROVE requests' \in [Slots -> Request]
  <2>1. Free \in Request
    BY Bounds DEF Free, Request
  <2>2. [requests[i] EXCEPT !.step = "failed"] \in Request
    BY <1>3 DEF Request
  <2> QED
    BY <1>1, <1>5, <2>1, <2>2 DEF Refuses
<1>6. JobSound
  BY DEF TypeInv
<1>7. \A count \in Counts : \A type \in {"stashed", "started", "repairing", "rolledBack", "discarded"} :
        Tells(type, count) => events' \in Seq(Event)
  BY <1>1, TellsType
<1>8. CASE TakeStash(i)
  <2>1. staged' = staged \o requests[i].ops /\ Len(staged') <= MaxStaged
    BY <1>8 DEF TakeStash
  <2>2. staged' \in Seq(Op) /\ Len(staged') \in Counts /\ Len(staged) <= Len(staged')
    BY <1>1, <1>3, <2>1, Bounds DEF Request, Counts
  <2>3. events' \in Seq(Event) /\ requests' \in [Slots -> Request]
    BY <1>4, <1>7, <1>8, <2>2 DEF TakeStash
  <2>4. faults' \subseteq Fault /\ job' = job /\ source' = source
    BY <1>1, <1>8 DEF TakeStash, Fault
  <2>5. JobSound'
    BY <1>1, <1>6, <2>2, <2>4, Bounds DEF JobSound, Job, Counts
  <2> QED
    BY <1>1, <1>2, <2>1, <2>2, <2>3, <2>4, <2>5 DEF TypeInv, TypeOK
<1>9. CASE TakeCount(i) /\ UNCHANGED faults
  <2>1. requests' \in [Slots -> Request]
    BY <1>1, <1>4, <1>9 DEF TakeCount
  <2> QED
    BY <1>1, <1>2, <1>6, <1>9, <2>1 DEF TakeCount, TypeInv, TypeOK, helper, JobSound
<1>10. CASE TakeCommit(i) /\ UNCHANGED faults
  <2>1. CASE job.step = "idle" /\ staged # <<>>
    <3>1. requests' \in [Slots -> Request] /\ events' \in Seq(Event)
      BY <1>1, <1>4, <1>7, <1>10, <2>1 DEF TakeCommit, Start
    <3>2. job' \in Job /\ staged' = staged /\ source' = source /\ JobSound'
      BY <1>1, <1>10, <2>1, Bounds DEF TakeCommit, Start, Job, JobSound
    <3> QED
      BY <1>1, <1>2, <1>10, <3>1, <3>2 DEF TypeInv, TypeOK, Counts
  <2>2. CASE ~(job.step = "idle" /\ staged # <<>>)
    <3>1. requests' \in [Slots -> Request] /\ UNCHANGED helper
      BY <1>5, <1>10, <2>2 DEF TakeCommit
    <3> QED
      BY <1>1, <1>2, <1>6, <1>10, <3>1 DEF TypeInv, TypeOK, helper, JobSound
  <2> QED
    BY <2>1, <2>2
<1>11. CASE TakeRepair(i) /\ UNCHANGED faults
  <2>1. CASE job.step # "decision"
    <3>1. requests' \in [Slots -> Request] /\ UNCHANGED helper
      BY <1>5, <1>11, <2>1 DEF TakeRepair
    <3> QED
      BY <1>1, <1>2, <1>6, <1>11, <3>1 DEF TypeInv, TypeOK, helper, JobSound
  <2>2. CASE job.step = "decision"
    <3>1. requests' \in [Slots -> Request] /\ events' \in Seq(Event)
      BY <1>1, <1>4, <1>7, <1>11, <2>2 DEF TakeRepair
    <3>2. job' \in Job /\ staged' = staged /\ source' = source /\ JobSound'
      BY <1>1, <1>6, <1>11, <2>2, Bounds DEF TakeRepair, Job, JobSound
    <3> QED
      BY <1>1, <1>2, <1>11, <3>1, <3>2 DEF TypeInv, TypeOK, Counts
  <2> QED
    BY <2>1, <2>2
<1>12. CASE TakeRollback(i) /\ UNCHANGED faults
  <2>1. CASE job.step # "decision"
    <3>1. requests' \in [Slots -> Request] /\ UNCHANGED helper
      BY <1>5, <1>12, <2>1 DEF TakeRollback
    <3> QED
      BY <1>1, <1>2, <1>6, <1>12, <3>1 DEF TypeInv, TypeOK, helper, JobSound
  <2>2. CASE job.step = "decision"
    <3>1. requests' \in [Slots -> Request] /\ events' \in Seq(Event)
      BY <1>1, <1>4, <1>7, <1>12, <2>2, Bounds DEF TakeRollback
    <3>2. NoEdits \in [Leaves -> Text]
      BY Bounds DEF NoEdits
    <3>3. job' = [job EXCEPT !.step = "idle", !.size = 0, !.before = NoEdits]
          /\ staged' = staged /\ source' = job.before
      BY <1>12, <2>2 DEF TakeRollback
    <3>4. job' \in Job /\ source' \in [Leaves -> Text]
      BY <1>1, <3>2, <3>3, Bounds DEF Job
    <3>5. job.todo = 0 /\ job'.todo = 0 /\ job'.size = 0 /\ job'.step = "idle" /\ Len(staged) >= 0
      BY <1>1, <1>6, <2>2, <3>3, Bounds DEF Job, JobSound
    <3>6. JobSound'
      BY <3>3, <3>5 DEF JobSound
    <3> QED
      BY <1>1, <1>2, <1>12, <3>1, <3>3, <3>4, <3>6 DEF TypeInv, TypeOK, Counts
  <2> QED
    BY <2>1, <2>2
<1>13. CASE TakeDiscard(i) /\ UNCHANGED faults
  <2>1. CASE job.step # "idle"
    <3>1. requests' \in [Slots -> Request] /\ UNCHANGED helper
      BY <1>5, <1>13, <2>1 DEF TakeDiscard
    <3> QED
      BY <1>1, <1>2, <1>6, <1>13, <3>1 DEF TypeInv, TypeOK, helper, JobSound
  <2>2. CASE job.step = "idle"
    <3>1. events' \in Seq(Event)
      BY <1>7, <1>13, <2>2, Bounds DEF TakeDiscard
    <3>2. [requests[i] EXCEPT !.step = "answered", !.ops = staged] \in Request
      BY <1>1, <1>3 DEF Request
    <3>3. requests' \in [Slots -> Request]
      BY <1>1, <1>13, <2>2, <3>2 DEF TakeDiscard
    <3>4. job' = job /\ staged' = <<>> /\ source' = source
      BY <1>13, <2>2 DEF TakeDiscard
    <3>5. JobSound'
      BY <1>1, <1>6, <2>2, <3>4 DEF JobSound, Job, Counts
    <3> QED
      BY <1>1, <1>2, <1>13, <3>1, <3>3, <3>4, <3>5, Bounds DEF TypeInv, TypeOK
  <2> QED
    BY <2>1, <2>2
<1> QED
  BY <1>8, <1>9, <1>10, <1>11, <1>12, <1>13 DEF Take

LEMMA StartSound ==
  ASSUME TypeInv, job.step = "idle", staged # <<>>, Start
  PROVE  /\ job' \in Job /\ JobSound' /\ events' \in Seq(Event)
         /\ job'.size = Len(staged) /\ job'.todo = Len(staged) /\ job'.before = source
         /\ job'.step = "applying" /\ staged' = staged /\ source' = source
<1>1. /\ events \in Seq(Event) /\ staged \in Seq(Op) /\ Len(staged) \in Counts
      /\ source \in [Leaves -> Text]
  BY Bounds DEF TypeInv, TypeOK, Counts
<1>2. events' \in Seq(Event)
  BY <1>1, TellsType DEF Start
<1>3. job' \in Job /\ staged' = staged /\ source' = source /\ JobSound'
  BY <1>1, Bounds DEF Start, Job, JobSound, Counts
<1> QED
  BY <1>2, <1>3 DEF Start

\* After the first n edits, n of the helper's edits are gone.
LEMMA AfterType ==
  ASSUME staged \in Seq(Op), NEW n \in 0..Len(staged)
  PROVE  /\ After(n) \in Seq(Op) /\ Len(After(n)) = Len(staged) - n
         /\ \A k \in 1..(Len(staged) - n) : After(n)[k] = staged[n + k]
BY DEF After

\* What the agent does.
LEMMA AgentType ==
  ASSUME TypeInv,
         ApplyNext \/ Finish \/ LeaveOut \/ GiveUp \/ NeedsRepair \/ NeedsDecision \/ OtherTabApplies
  PROVE  TypeInv' /\ UNCHANGED <<page, requests, asked>>
<1>1. /\ page \in Page /\ events \in Seq(Event) /\ staged \in Seq(Op) /\ Len(staged) \in Counts
      /\ requests \in [Slots -> Request] /\ job \in Job /\ source \in [Leaves -> Text]
      /\ asked \in 0..MaxAsked /\ faults \subseteq Fault
  BY Bounds DEF TypeInv, TypeOK, Counts
<1>2. JobSound /\ NoEdits \in [Leaves -> Text]
  BY Bounds DEF TypeInv, NoEdits
<1>3. \A count \in Counts : \A type \in {"chunk", "done", "failed", "repair", "decision"} :
        Tells(type, count) => events' \in Seq(Event)
  BY <1>1, TellsType
<1>4. Ended \in Job /\ Ended.size = 0 /\ Ended.todo = 0 /\ Ended.step = "idle"
  BY <1>1, <1>2, Bounds DEF Ended, Job
<1>5. \A kind \in Fault : Strikes(kind) => faults' \subseteq Fault
  BY <1>1, StrikesType
<1>6. job.size \in Counts /\ job.todo \in Counts
  BY <1>1 DEF Job
<1>7. CASE ApplyNext
  <2>1. job.step = "applying" /\ job.todo > 0 /\ job' = [job EXCEPT !.todo = @ - 1]
        /\ source' = [source EXCEPT ![NextOp.leaf] = NextOp.new]
    BY <1>7 DEF ApplyNext
  <2>2. NextOp \in Op
    BY <1>1, <1>2, <1>6, <2>1 DEF NextOp, JobSound, Counts
  <2>3. source' \in [Leaves -> Text]
    BY <1>1, <2>1, <2>2 DEF Op
  <2>4. job' \in Job
    <3>1. job.todo - 1 \in Counts
      BY <1>6, <2>1, Bounds DEF Counts
    <3> QED
      BY <1>1, <2>1, <3>1 DEF Job
  <2>5. staged' = staged /\ events' \in Seq(Event) /\ UNCHANGED <<page, requests, faults, asked>>
    BY <1>3, <1>6, <1>7 DEF ApplyNext
  <2>6. JobSound'
    BY <1>1, <1>2, <1>6, <2>1, <2>5 DEF JobSound, Counts, Job
  <2> QED
    BY <1>1, <2>3, <2>4, <2>5, <2>6 DEF TypeInv, TypeOK, Counts
<1>8. CASE Finish
  <2>1. staged' = After(job.size) /\ Tells("done", Len(After(job.size))) /\ job' = Ended
        /\ UNCHANGED <<page, requests, source, faults, asked>>
    BY <1>8 DEF Finish
  <2>2. staged' \in Seq(Op) /\ Len(staged') \in Counts
    <3>1. job.size \in 0..Len(staged)
      BY <1>1, <1>2, <1>6 DEF JobSound, Counts
    <3> QED
      BY <1>1, <2>1, <3>1, Bounds, AfterType DEF Counts
  <2>3. events' \in Seq(Event)
    BY <1>3, <2>1, <2>2
  <2>4. JobSound'
    BY <1>4, <2>1, <2>2 DEF JobSound, Counts
  <2> QED
    BY <1>1, <1>4, <2>1, <2>2, <2>3, <2>4 DEF TypeInv, TypeOK, Counts
<1>9. CASE LeaveOut
  <2>1. staged' = After(job.size - 1) /\ Tells("done", Len(After(job.size - 1))) /\ job' = Ended
        /\ UNCHANGED <<page, requests, source, asked>> /\ Strikes("unapplied") /\ job.todo = 1
    BY <1>9 DEF LeaveOut
  <2>2. staged' \in Seq(Op) /\ Len(staged') \in Counts
    <3>1. job.size - 1 \in 0..Len(staged)
      BY <1>1, <1>2, <1>6, <2>1 DEF JobSound, Counts
    <3> QED
      BY <1>1, <2>1, <3>1, Bounds, AfterType DEF Counts
  <2>3. events' \in Seq(Event)
    BY <1>3, <2>1, <2>2
  <2>4. JobSound'
    BY <1>4, <2>1, <2>2 DEF JobSound, Counts
  <2>5. faults' \subseteq Fault
    BY <1>5, <2>1 DEF Fault
  <2> QED
    BY <1>1, <1>4, <2>1, <2>2, <2>3, <2>4, <2>5 DEF TypeInv, TypeOK, Counts
<1>10. CASE GiveUp
  <2>1. /\ staged' = staged /\ job' = Ended /\ events' \in Seq(Event) /\ faults' \subseteq Fault
        /\ UNCHANGED <<page, requests, source, asked>>
    BY <1>3, <1>5, <1>10, Bounds DEF GiveUp, Fault
  <2>2. JobSound'
    BY <1>1, <1>4, <2>1 DEF JobSound, Counts
  <2> QED
    BY <1>1, <1>4, <2>1, <2>2 DEF TypeInv, TypeOK, Counts
<1>11. CASE NeedsRepair
  <2>1. /\ staged' = staged /\ job' = [job EXCEPT !.step = "repairing"] /\ job.todo = 0
        /\ events' \in Seq(Event) /\ faults' \subseteq Fault
        /\ UNCHANGED <<page, requests, source, asked>>
    BY <1>3, <1>5, <1>11, Bounds DEF NeedsRepair, Fault
  <2>2. job' \in Job /\ JobSound'
    BY <1>1, <1>2, <2>1 DEF JobSound, Job
  <2> QED
    BY <1>1, <2>1, <2>2 DEF TypeInv, TypeOK, Counts
<1>12. CASE NeedsDecision
  <2>1. /\ staged' = staged /\ job' = [job EXCEPT !.step = "decision"] /\ job.step = "repairing"
        /\ events' \in Seq(Event) /\ UNCHANGED <<page, requests, source, faults, asked>>
    BY <1>1, <1>3, <1>12 DEF NeedsDecision
  <2>2. job' \in Job /\ JobSound'
    BY <1>1, <1>2, <2>1 DEF JobSound, Job
  <2> QED
    BY <1>1, <2>1, <2>2 DEF TypeInv, TypeOK, Counts
<1>13. CASE OtherTabApplies
  <2>1. /\ job.step = "idle" /\ staged # <<>> /\ Start /\ faults' \subseteq Fault
        /\ UNCHANGED <<page, requests, asked>>
    BY <1>5, <1>13 DEF OtherTabApplies, Fault
  <2> QED
    BY <1>1, <2>1, StartSound DEF TypeInv, TypeOK, Counts
<1> QED
  BY <1>7, <1>8, <1>9, <1>10, <1>11, <1>12, <1>13

LEMMA HearType ==
  ASSUME TypeInv, Hear
  PROVE  TypeInv' /\ SameEditor(page, page')
<1>1. /\ page \in Page /\ events \in Seq(Event) /\ events # <<>> /\ <<>> \in Seq(Op)
      /\ requests \in [Slots -> Request]
  BY DEF TypeInv, TypeOK, Hear
<1>2. Head(events) \in Event /\ Tail(events) \in Seq(Event)
  BY <1>1
<1>3. page' \in Page /\ SameEditor(page, page')
  BY <1>1, <1>2, ShowsEffect DEF Hear
<1>4. requests' \in [Slots -> Request]
  <2>1. CASE Sends("count", <<>>)
    BY <1>1, <2>1, SendsEffect
  <2>2. CASE UNCHANGED requests
    BY <1>1, <2>2
  <2> QED
    BY <2>1, <2>2 DEF Hear
<1>5. UNCHANGED <<staged, job, source, asked, faults>> /\ events' \in Seq(Event)
  BY <1>2 DEF Hear
<1> QED
  BY <1>3, <1>4, <1>5 DEF TypeInv, TypeOK, JobSound

LEMMA ReloadType ==
  ASSUME TypeInv, Reload
  PROVE  TypeInv'
<1> DEFINE survives(i) == requests[i].kind \in {"commit", "repair"} /\ requests[i].step \in {"sent", "deaf"}
           slot == CHOOSE i \in Slots : ~survives(i)
<1>1. /\ page \in Page /\ requests \in [Slots -> Request] /\ source \in [Leaves -> Text]
      /\ faults \subseteq Fault /\ <<>> \in Seq(Event) /\ <<>> \in Seq(Op)
  BY DEF TypeInv, TypeOK
<1>2. page' \in Page
  BY <1>1, FreshType DEF Reload, Page
<1>3. requests' \in [Slots -> Request]
  <2>1. Free \in Request /\ Sent("count", <<>>) \in Request
    BY <1>1, Bounds DEF Free, Sent, Request
  <2>2. \A i \in Slots : [requests[i] EXCEPT !.step = "deaf"] \in Request
    BY <1>1 DEF Request
  <2>3. requests' = [i \in Slots |-> IF survives(i) THEN [requests[i] EXCEPT !.step = "deaf"]
                                     ELSE IF i = slot THEN Sent("count", <<>>) ELSE Free]
    BY DEF Reload
  <2> HIDE DEF survives, slot
  <2> QED
    BY <2>1, <2>2, <2>3
<1>4. faults' \subseteq Fault /\ events' = <<>> /\ UNCHANGED <<staged, job, source, asked>>
  BY <1>1, StrikesType DEF Reload, Fault
<1> QED
  BY <1>1, <1>2, <1>3, <1>4 DEF TypeInv, TypeOK, JobSound

LEMMA TypeStep == TypeInv /\ [Next]_vars => TypeInv'
<1> SUFFICES ASSUME TypeInv, [Next]_vars PROVE TypeInv'
  OBVIOUS
<1>1. TypeOK /\ JobSound
  BY DEF TypeInv
<1>2. ASSUME page' \in Page /\ requests' \in [Slots -> Request] /\ asked' \in 0..MaxAsked
             /\ faults' \subseteq Fault /\ UNCHANGED helper
      PROVE  TypeInv'
  BY <1>1, <1>2 DEF TypeInv, TypeOK, JobSound, helper
<1>3. CASE \/ \E e \in Elements : Pick(e)
           \/ \E l \in Leaves : EscapeLeaf(l) \/ \E t \in Text : Type(l, t)
           \/ ExitConfigure \/ EnterEditing \/ Cancel \/ ClickOutside \/ Go \/ SessionEnds \/ Save
  BY <1>1, <1>2, <1>3, UserEditType
<1>4. CASE Apply \/ DiscardEdits \/ KeepFixing \/ Rollback
  BY <1>1, <1>2, <1>4, UserDockType
<1>5. ASSUME NEW i \in Slots, Take(i) PROVE TypeInv'
  BY <1>5, TakeType
<1>6. ASSUME NEW i \in Slots, Lose(i) PROVE TypeInv'
  <2>1. requests' = [requests EXCEPT ![i].step = "failed"] /\ UNCHANGED <<page, asked, helper>>
        /\ faults' \subseteq Fault
    BY <1>1, <1>6, StrikesType DEF Lose, TypeOK, Fault
  <2>2. requests' \in [Slots -> Request]
    BY <1>1, <2>1 DEF TypeOK, Request
  <2> QED
    BY <1>1, <1>2, <2>1, <2>2 DEF TypeOK
<1>7. ASSUME NEW i \in Slots, Answered(i) PROVE TypeInv'
  <2>1. page' \in Page
    BY <1>1, <1>7, AnswerEffect
  <2>2. Free \in Request
    BY Bounds DEF Free, Request
  <2>3. requests' \in [Slots -> Request] /\ UNCHANGED <<asked, helper>> /\ faults' \subseteq Fault
    BY <1>1, <1>7, <2>2 DEF Answered, Done, TypeOK, Fault
  <2> QED
    BY <1>1, <1>2, <2>1, <2>3 DEF TypeOK
<1>8. CASE ApplyNext \/ Finish \/ LeaveOut \/ GiveUp \/ NeedsRepair \/ NeedsDecision \/ OtherTabApplies
  BY <1>8, AgentType
<1>9. CASE Hear
  BY <1>9, HearType
<1>10. CASE StreamBreaks
  <2>1. events' = <<>> /\ UNCHANGED <<page, requests, staged, job, source, asked>> /\ faults' \subseteq Fault
    BY <1>1, <1>10, StrikesType DEF StreamBreaks, TypeOK, Fault
  <2> QED
    BY <1>1, <2>1 DEF TypeInv, TypeOK, JobSound
<1>11. CASE Reload
  BY <1>11, ReloadType
<1>12. CASE UNCHANGED vars
  BY <1>1, <1>12 DEF vars, TypeInv, TypeOK, JobSound
<1> QED
  BY <1>3, <1>4, <1>5, <1>6, <1>7, <1>8, <1>9, <1>10, <1>11, <1>12 DEF Next

\* The state always has the shapes the page and its helper give it, and an apply
\* is never about more edits than are kept.
THEOREM TypeCorrect == Spec => []TypeInv
<1>1. Init => TypeInv
  BY TypeInit
<1>2. TypeInv /\ [Next]_vars => TypeInv'
  BY TypeStep
<1> QED
  BY <1>1, <1>2, PTL DEF Spec

-----------------------------------------------------------------------------
(* What the saved edits make of the texts. *)

Clean == ~Met({"typing", "leaving", "editing", "overlap", "reload", "unanswered"})

Heard(i, kind) == requests[i].kind = kind /\ requests[i].step = "answered"

\* The source as it was before the apply, if one runs.
Ground == IF job.step = "idle" THEN source ELSE job.before

\* The source is as far as the apply is.
Progress ==
  job.step # "idle" =>
    \A l \in Leaves : Ends(staged, job.size - job.todo, l, job.before[l], source[l])

\* Who types has opened the leaf, and a leaf holds its draft or its old text.
Editor ==
  /\ page.rows # {} => page.state = "EDITING"
  /\ \A l \in Leaves :
       IF l \in page.rows
       THEN page.drafts[l] = page.text[l] \/ (page.drafts[l] = NoText /\ page.text[l] = page.original[l])
       ELSE page.drafts[l] = NoText

NoDeaf == \A i \in Slots : requests[i].step # "deaf"

OneAsk ==
  \A i, j \in Slots :
    requests[i].kind \notin {"free", "count"} /\ requests[j].kind \notin {"free", "count"} => i = j

\* A stash on its way holds what is edited, no more and no less.
Matches(ops) ==
  /\ \A l \in Leaves : Edited(l) <=> \E k \in 1..Len(ops) : ops[k].leaf = l
  /\ \A k \in 1..Len(ops) : ops[k] = OpOf(ops[k].leaf)
  /\ \A j, k \in 1..Len(ops) : ops[j].leaf = ops[k].leaf => j = k
StashMatches ==
  \A i \in Slots : requests[i].kind = "stash" /\ requests[i].step = "sent" => Matches(requests[i].ops)

\* Nobody edits while edits are discarded.
Calm == \A i \in Slots : requests[i].kind = "discard" => page.rows = {}

\* The text a leaf has once nobody types: the old one, or, with the edits already
\* saved and the page yet to hear of it, the one it shows.
Base(l) == IF l \in page.rows /\ page.drafts[l] # NoText THEN page.original[l] ELSE page.text[l]
Due(l)  == IF \E i \in Slots : Heard(i, "stash") THEN page.text[l] ELSE Base(l)

\* That text is the one the saved edits make of the source.
Flow ==
  (\A i \in Slots : ~Heard(i, "discard")) =>
    \A l \in Leaves : Ends(staged, Len(staged), l, Ground[l], Due(l))

\* Discarded edits are gone from the helper and still in the page.
Undo ==
  \A i \in Slots : Heard(i, "discard") =>
    /\ staged = <<>> /\ job.step = "idle"
    /\ Chained(requests[i].ops, source)
    /\ \A l \in Leaves :
         Ends(requests[i].ops, Len(requests[i].ops), l, source[l], page.text[l])

TextInv ==
  Clean =>
    /\ Editor /\ NoDeaf /\ OneAsk /\ StashMatches /\ Calm
    /\ page.told \/ (Chained(staged, Ground) /\ Flow /\ Undo)

EditInv == TypeInv /\ Progress /\ TextInv

-----------------------------------------------------------------------------
(* Lemmas about Ends. *)

LEMMA EndsAlike ==
  ASSUME NEW ops, NEW more, NEW n \in Nat, \A k \in 1..n : more[k] = ops[k],
         NEW l, NEW from, NEW t
  PROVE  Ends(ops, n, l, from, t) <=> Ends(more, n, l, from, t)
<1>1. \A k \in 1..n : \A j \in (k + 1)..n : j \in 1..n
  OBVIOUS
<1> QED
  BY <1>1 DEF Ends

\* Edits of other leaves change nothing.
LEMMA EndsLonger ==
  ASSUME NEW ops, NEW n \in Nat, NEW m \in Nat, n <= m, NEW l, NEW from, NEW t,
         Ends(ops, n, l, from, t), \A j \in (n + 1)..m : ops[j].leaf # l
  PROVE  Ends(ops, m, l, from, t)
<1>1. CASE from = t /\ \A k \in 1..n : ops[k].leaf # l
  <2>1. \A k \in 1..m : k \in 1..n \/ k \in (n + 1)..m
    OBVIOUS
  <2> QED
    BY <1>1, <2>1 DEF Ends
<1>2. CASE \E k \in 1..n : /\ ops[k].leaf = l /\ ops[k].new = t
                           /\ \A j \in (k + 1)..n : ops[j].leaf # l
  <2>1. PICK k \in 1..n : /\ ops[k].leaf = l /\ ops[k].new = t
                          /\ \A j \in (k + 1)..n : ops[j].leaf # l
    BY <1>2
  <2>2. k \in 1..m /\ \A j \in (k + 1)..m : j \in (k + 1)..n \/ j \in (n + 1)..m
    OBVIOUS
  <2> QED
    BY <2>1, <2>2 DEF Ends
<1> QED
  BY <1>1, <1>2 DEF Ends

LEMMA EndsZero ==
  ASSUME NEW ops, NEW l, NEW t
  PROVE  Ends(ops, 0, l, t, t)
<1>1. \A k \in 1..0 : FALSE
  OBVIOUS
<1> QED
  BY <1>1 DEF Ends

LEMMA EndsRest ==
  ASSUME staged \in Seq(Op), NEW n \in 0..Len(staged), NEW m \in n..Len(staged), NEW l,
         NEW from, NEW mid, NEW t,
         Ends(staged, n, l, from, mid), Ends(staged, m, l, from, t)
  PROVE  Ends(After(n), m - n, l, mid, t)
<1>1. /\ \A k \in 1..(Len(staged) - n) : After(n)[k] = staged[n + k]
      /\ n \in Nat /\ m \in Nat /\ n <= m /\ m <= Len(staged) /\ Len(staged) \in Nat
  BY AfterType
<1>2. \A k \in 1..(m - n) : After(n)[k] = staged[n + k] /\ n + k \in 1..m
  BY <1>1
<1>3. CASE \E k \in (n + 1)..m : staged[k].leaf = l
  <2>1. PICK k \in 1..m : staged[k].leaf = l /\ staged[k].new = t /\ \A j \in (k + 1)..m : staged[j].leaf # l
    BY <1>1, <1>3 DEF Ends
  <2>2. k > n
    BY <1>1, <1>3, <2>1
  <2>3. k - n \in 1..(m - n) /\ After(n)[k - n] = staged[k]
    <3>1. k - n \in 1..(m - n) /\ n + (k - n) = k
      BY <1>1, <2>1, <2>2
    <3> QED
      BY <1>2, <3>1
  <2>4. \A j \in (k - n + 1)..(m - n) : After(n)[j] = staged[n + j] /\ n + j \in (k + 1)..m
    BY <1>1, <1>2, <2>1, <2>2
  <2> QED
    BY <2>1, <2>3, <2>4 DEF Ends
<1>4. CASE \A k \in (n + 1)..m : staged[k].leaf # l
  <2>1. Ends(staged, n, l, from, t)
    <3>1. CASE from = t /\ \A k \in 1..m : staged[k].leaf # l
      BY <1>1, <3>1 DEF Ends
    <3>2. CASE \E k \in 1..m : /\ staged[k].leaf = l /\ staged[k].new = t
                               /\ \A j \in (k + 1)..m : staged[j].leaf # l
      <4>1. PICK k \in 1..m : /\ staged[k].leaf = l /\ staged[k].new = t
                              /\ \A j \in (k + 1)..m : staged[j].leaf # l
        BY <3>2
      <4>2. k \in 1..n
        BY <1>1, <1>4, <4>1
      <4>3. \A j \in (k + 1)..n : j \in (k + 1)..m
        BY <1>1
      <4> QED
        BY <4>1, <4>2, <4>3 DEF Ends
    <3> QED
      BY <3>1, <3>2 DEF Ends
  <2>2. mid = t
    BY <2>1, EndsOnce
  <2>3. \A k \in 1..(m - n) : After(n)[k].leaf # l
    <3>1. \A k \in 1..(m - n) : n + k \in (n + 1)..m
      BY <1>1
    <3> QED
      BY <1>2, <1>4, <3>1
  <2> QED
    BY <2>2, <2>3 DEF Ends
<1> QED
  BY <1>3, <1>4

\* The edits left after the first n start from what those made.
LEMMA ChainedRest ==
  ASSUME staged \in Seq(Op), NEW n \in 0..Len(staged), NEW from, NEW mid,
         Chained(staged, from), \A l \in Leaves : Ends(staged, n, l, from[l], mid[l])
  PROVE  Chained(After(n), mid)
<1>1. /\ \A k \in 1..(Len(staged) - n) : After(n)[k] = staged[n + k]
      /\ Len(After(n)) = Len(staged) - n /\ n \in Nat /\ Len(staged) \in Nat
  BY AfterType
<1> SUFFICES ASSUME NEW k \in 1..(Len(staged) - n)
             PROVE  Ends(After(n), k - 1, After(n)[k].leaf, mid[After(n)[k].leaf], After(n)[k].original)
  BY <1>1 DEF Chained
<1> DEFINE op == staged[n + k]
<1>2. n + k \in 1..Len(staged) /\ n + k - 1 \in n..Len(staged) /\ (n + k - 1) - n = k - 1
  BY <1>1
<1>3. op \in Op /\ op.leaf \in Leaves
  <2>1. op \in Op
    BY <1>2
  <2> HIDE DEF op
  <2> QED
    BY <2>1 DEF Op
<1>4. Ends(staged, n + k - 1, op.leaf, from[op.leaf], op.original)
  BY <1>2 DEF Chained
<1>5. Ends(staged, n, op.leaf, from[op.leaf], mid[op.leaf])
  BY <1>3
<1>6. Ends(After(n), (n + k - 1) - n, op.leaf, mid[op.leaf], op.original)
  BY <1>2, <1>4, <1>5, EndsRest
<1> QED
  BY <1>1, <1>2, <1>6

-----------------------------------------------------------------------------
(* What the saved edits say, whoever applies them. *)

\* The saved edits make the same of the source as before.
SaysTheSame ==
  /\ Chained(staged, Ground) => Chained(staged', Ground')
  /\ \A l \in Leaves, t \in Text :
       Ends(staged, Len(staged), l, Ground[l], t) => Ends(staged', Len(staged'), l, Ground'[l], t)

\* Starting an apply, repairing and rolling it back, and all the agent does.
Applies ==
  \/ \E i \in Slots : TakeCommit(i) \/ TakeRepair(i) \/ TakeRollback(i)
  \/ ApplyNext \/ Finish \/ LeaveOut \/ GiveUp \/ NeedsRepair \/ NeedsDecision \/ OtherTabApplies

LEMMA StartSays ==
  ASSUME TypeInv, job.step = "idle", staged # <<>>, Start
  PROVE  Progress' /\ SaysTheSame
<1>1. /\ job'.size = Len(staged) /\ job'.todo = Len(staged) /\ job'.before = source
      /\ job'.step = "applying" /\ staged' = staged /\ source' = source /\ Len(staged) \in Nat
  BY StartSound DEF TypeInv, TypeOK
<1>2. Progress'
  <2>1. job'.size - job'.todo = 0
    BY <1>1
  <2> QED
    BY <1>1, <2>1, EndsZero DEF Progress
<1>3. Ground' = Ground
  BY <1>1 DEF Ground
<1> QED
  BY <1>1, <1>2, <1>3 DEF SaysTheSame

\* n of the edits are in the source and are dropped.
LEMMA DropSays ==
  ASSUME TypeInv, Progress, job.step # "idle",
         staged' = After(job.size - job.todo), job' = Ended, source' = source
  PROVE  Progress' /\ SaysTheSame
<1> DEFINE n == job.size - job.todo
<1>1. staged \in Seq(Op) /\ job.size \in Nat /\ job.todo \in Nat /\ Len(staged) \in Nat
  BY DEF TypeInv, TypeOK, Job, Counts
<1>2. n \in 0..Len(staged)
  BY <1>1 DEF TypeInv, JobSound
<1>3. job'.step = "idle"
  BY DEF Ended, TypeInv, TypeOK, Job
<1>4. Ground' = source /\ Ground = job.before
  BY <1>3 DEF Ground
<1>5. \A l \in Leaves : Ends(staged, n, l, Ground[l], source[l])
  BY <1>4 DEF Progress
<1>6. Len(staged') = Len(staged) - n /\ staged' = After(n)
  BY <1>1, <1>2, AfterType
<1> HIDE DEF n
<1>7. ASSUME Chained(staged, Ground) PROVE Chained(staged', Ground')
  <2>1. Chained(After(n), source)
    BY <1>1, <1>2, <1>5, <1>7, ChainedRest
  <2> QED
    BY <1>4, <1>6, <2>1
<1>8. ASSUME NEW l \in Leaves, NEW t \in Text, Ends(staged, Len(staged), l, Ground[l], t)
      PROVE  Ends(staged', Len(staged'), l, Ground'[l], t)
  <2>1. Len(staged) \in n..Len(staged)
    BY <1>1, <1>2
  <2>2. Ends(After(n), Len(staged) - n, l, source[l], t)
    BY <1>1, <1>2, <1>5, <1>8, <2>1, EndsRest
  <2> QED
    BY <1>4, <1>6, <2>2
<1>9. Progress'
  BY <1>3 DEF Progress
<1> QED
  BY <1>7, <1>8, <1>9 DEF SaysTheSame

\* The apply goes back to where it started.
LEMMA BackSays ==
  ASSUME TypeInv, job.step # "idle", job'.step = "idle", staged' = staged, source' = job.before
  PROVE  Progress' /\ SaysTheSame
BY DEF Progress, SaysTheSame, Ground

\* The apply gets to another stage.
LEMMA StageSays ==
  ASSUME TypeInv, Progress, job.step # "idle", NEW step \in {"repairing", "decision"},
         job' = [job EXCEPT !.step = step], staged' = staged, source' = source
  PROVE  Progress' /\ SaysTheSame
<1>1. /\ job'.step = step /\ job'.size = job.size /\ job'.todo = job.todo /\ job'.before = job.before
  BY DEF TypeInv, TypeOK, Job
<1>2. Ground' = Ground
  BY <1>1 DEF Ground
<1> QED
  BY <1>1, <1>2 DEF Progress, SaysTheSame

LEMMA NextSays ==
  ASSUME TypeInv, Progress, ApplyNext
  PROVE  Progress' /\ SaysTheSame
<1> DEFINE n == job.size - job.todo
<1>1. /\ job.step = "applying" /\ job.todo > 0 /\ job' = [job EXCEPT !.todo = @ - 1]
      /\ source' = [source EXCEPT ![NextOp.leaf] = NextOp.new] /\ staged' = staged
  BY DEF ApplyNext
<1>2. /\ staged \in Seq(Op) /\ job.size \in Nat /\ job.todo \in Nat /\ Len(staged) \in Nat
      /\ source \in [Leaves -> Text]
  BY DEF TypeInv, TypeOK, Job, Counts
<1>3. n + 1 \in 1..Len(staged) /\ (n + 1) - 1 = n
  BY <1>1, <1>2 DEF TypeInv, JobSound
<1>4. /\ job'.step = "applying" /\ job'.size = job.size /\ job'.todo = job.todo - 1
      /\ job'.before = job.before
  BY <1>1 DEF TypeInv, TypeOK, Job
<1>5. job'.size - job'.todo = n + 1 /\ NextOp = staged[n + 1]
  BY <1>2, <1>4 DEF NextOp
<1>6. NextOp.leaf \in Leaves
  <2>1. NextOp \in Op
    BY <1>2, <1>3, <1>5
  <2> QED
    BY <2>1 DEF Op
<1> HIDE DEF n
<1>7. Progress'
  <2> SUFFICES ASSUME NEW l \in Leaves
               PROVE  Ends(staged, n + 1, l, job.before[l], source'[l])
    BY <1>1, <1>4, <1>5 DEF Progress
  <2>1. Ends(staged, n, l, job.before[l], source[l])
    BY <1>1 DEF Progress, n
  <2>2. CASE NextOp.leaf = l
    <3>1. source'[l] = NextOp.new
      BY <1>1, <1>2, <2>2
    <3> QED
      BY <1>2, <1>3, <1>5, <2>2, <3>1, EndsNext
  <2>3. CASE NextOp.leaf # l
    <3>1. source'[l] = source[l]
      BY <1>1, <1>2, <2>3
    <3> QED
      BY <1>2, <1>3, <1>5, <2>1, <2>3, <3>1, EndsNext
  <2> QED
    BY <2>2, <2>3
<1>8. Ground' = Ground
  BY <1>1, <1>4 DEF Ground
<1> QED
  BY <1>1, <1>7, <1>8 DEF SaysTheSame

LEMMA NothingSays ==
  ASSUME Progress, UNCHANGED <<staged, job, source>>
  PROVE  Progress' /\ SaysTheSame
BY DEF Progress, SaysTheSame, Ground

LEMMA AppliesSays ==
  ASSUME TypeInv, Progress, Applies
  PROVE  /\ Progress' /\ SaysTheSame
         /\ job.step # "idle" \/ staged # <<>> \/ UNCHANGED <<staged, job, source>>
<1>1. staged \in Seq(Op) /\ job \in Job /\ job.size \in Nat /\ job.todo \in Nat /\ Len(staged) \in Nat
  BY DEF TypeInv, TypeOK, Job, Counts
<1>2. job.size <= Len(staged) /\ job.todo <= job.size /\ (job.step \in {"repairing", "decision"} => job.todo = 0)
  BY DEF TypeInv, JobSound
<1>3. ASSUME NEW i \in Slots, TakeCommit(i)
      PROVE  /\ Progress' /\ SaysTheSame
             /\ job.step # "idle" \/ staged # <<>> \/ UNCHANGED <<staged, job, source>>
  <2>1. CASE job.step = "idle" /\ staged # <<>>
    BY <1>3, <2>1, StartSays DEF TakeCommit
  <2>2. CASE ~(job.step = "idle" /\ staged # <<>>)
    BY <1>3, <2>2, NothingSays DEF TakeCommit, helper
  <2> QED
    BY <2>1, <2>2
<1>4. ASSUME NEW i \in Slots, TakeRepair(i)
      PROVE  /\ Progress' /\ SaysTheSame
             /\ job.step # "idle" \/ staged # <<>> \/ UNCHANGED <<staged, job, source>>
  <2>1. CASE job.step = "decision"
    BY <1>4, <2>1, StageSays DEF TakeRepair
  <2>2. CASE job.step # "decision"
    BY <1>4, <2>2, NothingSays DEF TakeRepair, helper
  <2> QED
    BY <2>1, <2>2
<1>5. ASSUME NEW i \in Slots, TakeRollback(i)
      PROVE  /\ Progress' /\ SaysTheSame
             /\ job.step # "idle" \/ staged # <<>> \/ UNCHANGED <<staged, job, source>>
  <2>1. CASE job.step = "decision"
    <3>1. job'.step = "idle" /\ staged' = staged /\ source' = job.before
      BY <1>1, <1>5, <2>1 DEF TakeRollback, Job
    <3> QED
      BY <2>1, <3>1, BackSays
  <2>2. CASE job.step # "decision"
    BY <1>5, <2>2, NothingSays DEF TakeRollback, helper
  <2> QED
    BY <2>1, <2>2
<1>6. CASE ApplyNext
  BY <1>6, NextSays DEF ApplyNext
<1>7. CASE Finish
  <2>1. job.todo = 0 /\ job.step # "idle" /\ job.size - job.todo = job.size
    BY <1>1, <1>2, <1>7 DEF Finish
  <2>2. staged' = After(job.size - job.todo) /\ job' = Ended /\ source' = source
    BY <1>7, <2>1 DEF Finish
  <2> QED
    BY <1>1, <2>1, <2>2, DropSays
<1>8. CASE LeaveOut
  <2>1. job.todo = 1 /\ job.step # "idle" /\ job.size - job.todo = job.size - 1
    BY <1>1, <1>2, <1>8 DEF LeaveOut
  <2>2. staged' = After(job.size - job.todo) /\ job' = Ended /\ source' = source
    BY <1>8, <2>1 DEF LeaveOut
  <2> QED
    BY <1>1, <2>1, <2>2, DropSays
<1>9. CASE GiveUp
  <2>1. job.step # "idle" /\ job.size - job.todo = 0 /\ staged' = staged /\ source' = source
        /\ job'.step = "idle"
    BY <1>1, <1>9 DEF GiveUp, Ended, Job
  <2>2. \A l \in Leaves : source[l] = job.before[l]
    <3> SUFFICES ASSUME NEW l \in Leaves PROVE source[l] = job.before[l]
      OBVIOUS
    <3>1. Ends(staged, 0, l, job.before[l], source[l])
      BY <2>1 DEF Progress
    <3>2. \A k \in 1..0 : FALSE
      OBVIOUS
    <3> QED
      BY <3>1, <3>2 DEF Ends
  <2>3. source' = job.before
    BY <1>1, <2>1, <2>2 DEF TypeInv, TypeOK, Job
  <2> QED
    BY <2>1, <2>3, BackSays
<1>10. CASE NeedsRepair
  BY <1>10, StageSays DEF NeedsRepair
<1>11. CASE NeedsDecision
  BY <1>11, StageSays DEF NeedsDecision
<1>12. CASE OtherTabApplies
  BY <1>12, StartSays DEF OtherTabApplies
<1> QED
  BY <1>3, <1>4, <1>5, <1>6, <1>7, <1>8, <1>9, <1>10, <1>11, <1>12 DEF Applies

-----------------------------------------------------------------------------
(* How a step keeps TextInv. *)

LEMMA FaultsStay == [Next]_vars => faults \subseteq faults'
<1> SUFFICES ASSUME [Next]_vars PROVE faults \subseteq faults'
  OBVIOUS
<1> USE DEF Strikes, Unless
<1>1. CASE \/ \E e \in Elements : Pick(e)
           \/ \E l \in Leaves : EscapeLeaf(l) \/ \E t \in Text : Type(l, t)
           \/ ExitConfigure \/ EnterEditing \/ Cancel \/ ClickOutside \/ Go \/ SessionEnds \/ Save
  BY <1>1 DEF Pick, EscapeLeaf, Type, ExitConfigure, EnterEditing, Cancel, ClickOutside, Go,
     SessionEnds, Save
<1>2. CASE Apply \/ DiscardEdits \/ KeepFixing \/ Rollback
  BY <1>2 DEF Apply, DiscardEdits, KeepFixing, Rollback, AtDock
<1>3. CASE \E i \in Slots : Take(i) \/ Lose(i) \/ Answered(i)
  BY <1>3 DEF Take, TakeStash, Lose, Answered
<1>4. CASE ApplyNext \/ Finish \/ LeaveOut \/ GiveUp \/ NeedsRepair \/ NeedsDecision \/ OtherTabApplies
  BY <1>4 DEF ApplyNext, Finish, LeaveOut, GiveUp, NeedsRepair, NeedsDecision, OtherTabApplies
<1>5. CASE Hear \/ StreamBreaks \/ Reload
  BY <1>5 DEF Hear, StreamBreaks, Reload
<1>6. CASE UNCHANGED vars
  BY <1>6 DEF vars
<1> QED
  BY <1>1, <1>2, <1>3, <1>4, <1>5, <1>6 DEF Next

SameTexts(p, q) ==
  /\ q.text = p.text /\ q.rows = p.rows /\ q.original = p.original /\ q.drafts = p.drafts
  /\ q.told = p.told

\* Requests change at i, but no stash or discard is heard or sent there.
Beside(i) ==
  /\ \A j \in Slots \ {i} : requests'[j] = requests[j]
  /\ \/ requests'[i] = requests[i]
     \/ requests'[i] = Free /\ ~Heard(i, "stash") /\ ~Heard(i, "discard")
     \/ requests[i].kind = "free" /\ requests'[i] = Sent("count", <<>>)
     \/ /\ requests'[i].kind = requests[i].kind /\ requests'[i].step # "deaf"
        /\ requests[i].kind \in {"stash", "discard"} =>
             requests'[i].step = "failed" /\ requests[i].step # "answered"

LEMMA DueType ==
  ASSUME page \in Page, NEW l \in Leaves
  PROVE  Due(l) \in Text /\ Base(l) \in Text
BY DEF Due, Base, Page

LEMMA BesideKeeps ==
  ASSUME EditInv, Clean, SameTexts(page, page'), Editor', SaysTheSame,
         job.step # "idle" \/ staged # <<>> \/ UNCHANGED <<staged, job, source>>,
         NEW i \in Slots, Beside(i)
  PROVE  TextInv'
<1>1. /\ Editor /\ NoDeaf /\ OneAsk /\ StashMatches /\ Calm
      /\ page.told \/ (Chained(staged, Ground) /\ Flow /\ Undo)
      /\ page \in Page /\ requests \in [Slots -> Request]
  BY DEF EditInv, TextInv, TypeInv, TypeOK
<1>2. /\ page'.text = page.text /\ page'.rows = page.rows /\ page'.original = page.original
      /\ page'.drafts = page.drafts /\ page'.told = page.told
  BY DEF SameTexts
<1>3. /\ Free.kind = "free" /\ Free.step = "sent"
      /\ Sent("count", <<>>).kind = "count" /\ Sent("count", <<>>).step = "sent"
  BY DEF Free, Sent
<1>4. NoDeaf'
  BY <1>1, <1>3 DEF NoDeaf, Beside
<1>5. OneAsk'
  <2>1. \A j \in Slots : requests'[j].kind \notin {"free", "count"} => requests[j].kind \notin {"free", "count"}
    BY <1>3 DEF Beside
  <2> QED
    BY <1>1, <2>1 DEF OneAsk
<1>6. \A j \in Slots : \A kind \in {"stash", "discard"} :
        (Heard(j, kind)' <=> Heard(j, kind)) /\ (Heard(j, kind) => requests'[j] = requests[j])
  BY <1>3 DEF Beside, Heard
<1>7. \A j \in Slots : requests'[j].kind \in {"stash", "discard"} =>
        \/ requests'[j] = requests[j]
        \/ requests'[j].kind = requests[j].kind /\ requests'[j].step = "failed"
  BY <1>3 DEF Beside
<1>8. StashMatches'
  <2>1. \A ops : Matches(ops) => Matches(ops)'
    BY <1>2 DEF Matches, Edited, OpOf
  <2> QED
    BY <1>1, <1>7, <2>1 DEF StashMatches
<1>9. Calm'
  BY <1>1, <1>2, <1>7 DEF Calm
<1>10. ASSUME NEW l \in Leaves PROVE Due(l)' = Due(l) /\ Due(l) \in Text
  BY <1>1, <1>2, <1>6, DueType DEF Due, Base
<1>11. ASSUME Chained(staged, Ground), Flow, Undo
       PROVE  Chained(staged', Ground') /\ Flow' /\ Undo'
  <2>1. Flow'
    <3> SUFFICES ASSUME \A j \in Slots : ~Heard(j, "discard")', NEW l \in Leaves
                 PROVE  Ends(staged', Len(staged'), l, Ground'[l], Due(l)')
      BY DEF Flow
    <3>1. Ends(staged, Len(staged), l, Ground[l], Due(l))
      BY <1>6, <1>11 DEF Flow
    <3> QED
      BY <1>10, <3>1 DEF SaysTheSame
  <2>2. Undo'
    <3> SUFFICES ASSUME NEW j \in Slots, Heard(j, "discard")'
                 PROVE  /\ staged' = <<>> /\ job'.step = "idle"
                        /\ Chained(requests'[j].ops, source')
                        /\ \A l \in Leaves : Ends(requests'[j].ops, Len(requests'[j].ops), l, source'[l], page'.text[l])
      BY DEF Undo
    <3>1. Heard(j, "discard") /\ requests'[j] = requests[j]
      BY <1>6
    <3>2. staged = <<>> /\ job.step = "idle"
      BY <1>11, <3>1 DEF Undo
    <3>3. UNCHANGED <<staged, job, source>>
      BY <3>2
    <3> QED
      BY <1>2, <1>11, <3>1, <3>3 DEF Undo
  <2> QED
    BY <1>11, <2>1, <2>2 DEF SaysTheSame
<1> QED
  BY <1>1, <1>2, <1>4, <1>5, <1>8, <1>9, <1>11 DEF TextInv

LEMMA NothingWaits ==
  ASSUME requests \in [Slots -> Request], NoDeaf, ~UserWaits
  PROVE  \A i \in Slots : requests[i].kind = "free"
<1>1. \A i \in Slots : requests[i].kind \in {"free", "stash", "count", "commit", "repair", "rollback", "discard"}
  BY DEF Request
<1> QED
  BY <1>1 DEF NoDeaf, UserWaits, Waits

LEMMA AskKeeps ==
  ASSUME EditInv, Clean, ~UserWaits, SameEditor(page, page'), UNCHANGED <<staged, job, source>>,
         NEW kind \in {"stash", "commit", "repair", "rollback", "discard"}, NEW ops \in Seq(Op),
         Sends(kind, ops), kind = "stash" => Matches(ops), kind = "discard" => page.state # "EDITING"
  PROVE  TextInv'
<1>1. /\ Editor /\ NoDeaf /\ OneAsk /\ StashMatches /\ Calm
      /\ page.told \/ (Chained(staged, Ground) /\ Flow /\ Undo)
      /\ page \in Page /\ requests \in [Slots -> Request]
  BY DEF EditInv, TextInv, TypeInv, TypeOK
<1>2. /\ page'.text = page.text /\ page'.rows = page.rows /\ page'.original = page.original
      /\ page'.drafts = page.drafts /\ page'.told = page.told /\ page'.state = page.state
  BY DEF SameEditor
<1>3. \A j \in Slots : requests[j].kind = "free"
  BY <1>1, NothingWaits
<1>4. PICK i \in Slots : /\ requests'[i] = Sent(kind, ops)
                         /\ \A j \in Slots \ {i} : requests'[j] = requests[j]
  BY <1>1, SendsEffect
<1>5. /\ requests'[i].kind = kind /\ requests'[i].step = "sent" /\ requests'[i].ops = ops
  BY <1>4 DEF Sent
<1>6. Editor'
  BY <1>1, <1>2 DEF Editor
<1>7. NoDeaf' /\ OneAsk'
  BY <1>1, <1>3, <1>4, <1>5 DEF NoDeaf, OneAsk
<1>8. StashMatches'
  <2>1. Matches(ops) => Matches(ops)'
    BY <1>2 DEF Matches, Edited, OpOf
  <2>2. \A j \in Slots : requests'[j].kind = "stash" => j = i
    BY <1>3, <1>4
  <2> QED
    BY <1>5, <2>1, <2>2 DEF StashMatches
<1>9. Calm'
  <2>1. \A j \in Slots : requests'[j].kind = "discard" => j = i
    BY <1>3, <1>4
  <2> QED
    BY <1>1, <1>2, <1>5, <2>1 DEF Calm, Editor
<1>10. \A j \in Slots : \A k \in {"stash", "discard"} : ~Heard(j, k) /\ ~Heard(j, k)'
  BY <1>3, <1>4, <1>5 DEF Heard
<1>11. \A l \in Leaves : Due(l)' = Due(l)
  BY <1>2, <1>10 DEF Due, Base
<1>12. Ground' = Ground
  BY DEF Ground
<1>13. ASSUME Chained(staged, Ground), Flow PROVE Chained(staged', Ground') /\ Flow' /\ Undo'
  BY <1>10, <1>11, <1>12, <1>13 DEF Flow, Undo
<1> QED
  BY <1>1, <1>2, <1>6, <1>7, <1>8, <1>9, <1>13 DEF TextInv

\* The user edits, and no stash is on its way.
LEMMA EditKeeps ==
  ASSUME EditInv, Clean, UNCHANGED <<requests, staged, job, source>>, page'.told = page.told,
         \A i \in Slots : requests[i].kind # "stash", Editor', Calm',
         \A l \in Leaves : Base(l)' = Base(l)
  PROVE  TextInv'
<1>1. /\ Editor /\ NoDeaf /\ OneAsk /\ StashMatches /\ Calm
      /\ page.told \/ (Chained(staged, Ground) /\ Flow /\ Undo)
  BY DEF EditInv, TextInv
<1>2. NoDeaf' /\ OneAsk' /\ StashMatches'
  BY <1>1 DEF NoDeaf, OneAsk, StashMatches
<1>3. \A i \in Slots : ~Heard(i, "stash") /\ ~Heard(i, "stash")'
  BY DEF Heard
<1>4. \A i \in Slots : Heard(i, "discard")' <=> Heard(i, "discard")
  BY DEF Heard
<1>5. Ground' = Ground
  BY DEF Ground
<1>6. ASSUME Chained(staged, Ground), Flow, Undo
      PROVE  Chained(staged', Ground') /\ Flow' /\ Undo'
  <2>1. \A l \in Leaves : Due(l)' = Due(l)
    BY <1>3 DEF Due
  <2>2. Flow'
    BY <1>4, <1>5, <1>6, <2>1 DEF Flow
  <2>3. Undo'
    <3> SUFFICES ASSUME NEW i \in Slots, Heard(i, "discard")
                 PROVE  \A l \in Leaves : page'.text[l] = page.text[l]
      BY <1>4, <1>6 DEF Undo
    <3>1. page.rows = {} /\ page'.rows = {}
      BY <1>1 DEF Calm, Heard
    <3> QED
      BY <3>1 DEF Base
  <2> QED
    BY <1>5, <1>6, <2>2, <2>3
<1> QED
  BY <1>1, <1>2, <1>6 DEF TextInv

\* Trouble that is excluded does not strike.
LEMMA Untroubled ==
  ASSUME Clean', NEW kind \in {"typing", "leaving", "editing", "overlap", "reload", "unanswered"}
  PROVE  /\ ~Strikes(kind)
         /\ \A s \in BOOLEAN : Unless(kind, s) => ~s
BY DEF Clean, Met, Strikes, Unless

LEMMA NoStash ==
  ASSUME NoDeaf, NEW kind, ~Waits({kind})
  PROVE  \A i \in Slots : requests[i].kind # kind
BY DEF NoDeaf, Waits

\* Every way of ending the editor puts the old texts back.
Restored(p) ==
  /\ p.text = [l \in Leaves |-> Base(l)] /\ p.rows = {} /\ p.drafts = NoDrafts /\ p.told = page.told

LEMMA EditorEnds ==
  ASSUME page \in Page, Editor
  PROVE  /\ Restored(DisableEdit(RestoreDrafts(page))) /\ Restored(HideBar(page))
         /\ Restored(HideBar([page EXCEPT !.state = "EDITING"]))
<1>1. \A p \in Page : p.text = page.text /\ p.rows = page.rows /\ p.drafts = page.drafts
                      /\ p.original = page.original /\ p.told = page.told
                      => Restored(DisableEdit(RestoreDrafts(p)))
  <2> SUFFICES ASSUME NEW p \in Page, p.text = page.text, p.rows = page.rows, p.drafts = page.drafts,
                      p.original = page.original, p.told = page.told
               PROVE  Restored(DisableEdit(RestoreDrafts(p)))
    OBVIOUS
  <2> DEFINE r == RestoreDrafts(p)
  <2>1. r \in Page /\ r.told = page.told
    BY EditorTypes DEF RestoreDrafts, Page
  <2>2. r.text = [l \in Leaves |-> Base(l)]
    BY DEF RestoreDrafts, Base, Page
  <2> HIDE DEF r
  <2>3. Restored(DisableEdit(r))
    BY <2>1, <2>2 DEF Restored, DisableEdit, Page
  <2> QED
    BY <2>3 DEF r
<1>2. Restored(DisableEdit(RestoreDrafts(page)))
  BY <1>1
<1>3. Restored(HideBar([page EXCEPT !.state = "EDITING"]))
  <2> DEFINE p == [page EXCEPT !.state = "EDITING"]
  <2>1. p \in Page /\ p.state = "EDITING" /\ p.text = page.text /\ p.rows = page.rows
        /\ p.drafts = page.drafts /\ p.original = page.original /\ p.told = page.told
    BY DEF Page
  <2> HIDE DEF p
  <2>2. HideBar(p) = DisableEdit(RestoreDrafts(p))
    BY <2>1 DEF HideBar
  <2> QED
    BY <1>1, <2>1, <2>2 DEF p
<1>4. Restored(HideBar(page))
  <2>1. CASE page.state = "EDITING"
    BY <1>2, <2>1 DEF HideBar
  <2>2. CASE page.state # "EDITING"
    <3>1. page.rows = {}
      BY <2>2 DEF Editor
    <3>2. page.text = [l \in Leaves |-> Base(l)]
      BY <3>1 DEF Base, Page
    <3> QED
      BY <2>2, <3>1, <3>2 DEF HideBar, Restored, DisableEdit, Page
  <2> QED
    BY <2>1, <2>2
<1> QED
  BY <1>2, <1>3, <1>4

LEMMA EndsKeep ==
  ASSUME EditInv, Clean, UNCHANGED <<requests, staged, job, source>>,
         \A i \in Slots : requests[i].kind # "stash", NEW p, Restored(p),
         page'.text = p.text, page'.rows = p.rows, page'.drafts = p.drafts, page'.told = p.told
  PROVE  TextInv'
<1>1. \A l \in Leaves : page'.text[l] = Base(l) /\ page'.drafts[l] = NoText
  BY DEF Restored, NoDrafts
<1>2. page'.rows = {} /\ page'.told = page.told
  BY DEF Restored
<1>3. Editor' /\ Calm'
  BY <1>1, <1>2 DEF Editor, Calm
<1>4. \A l \in Leaves : Base(l)' = Base(l)
  BY <1>1, <1>2 DEF Base
<1> QED
  BY <1>2, <1>3, <1>4, EditKeeps

LEMMA UserEditKeeps ==
  ASSUME EditInv, Clean, Clean',
         \/ \E e \in Elements : Pick(e)
         \/ \E l \in Leaves : EscapeLeaf(l) \/ \E t \in Text : Type(l, t)
         \/ ExitConfigure \/ EnterEditing \/ Cancel \/ ClickOutside \/ Go \/ SessionEnds \/ Save
  PROVE  TextInv'
<1>1. /\ Editor /\ NoDeaf /\ OneAsk /\ StashMatches /\ Calm
      /\ page \in Page /\ requests \in [Slots -> Request]
  BY DEF EditInv, TextInv, TypeInv, TypeOK
<1>2. \A kind \in {"leaving", "typing"} :
        Unless(kind, Waits({"stash"})) => \A i \in Slots : requests[i].kind # "stash"
  <2>1. Waits({"stash"}) \in BOOLEAN
    BY DEF Waits
  <2> QED
    BY <1>1, <2>1, Untroubled, NoStash
<1>3. ASSUME UNCHANGED <<requests, asked, helper>> PROVE UNCHANGED <<requests, staged, job, source>>
  BY <1>3 DEF helper
<1>4. ASSUME NEW e \in Elements, Pick(e) PROVE TextInv'
  <2>1. /\ page'.text = page.text /\ page'.rows = page.rows /\ page'.drafts = page.drafts
        /\ page'.original = page.original /\ page'.told = page.told /\ page.state = "PICKING"
    BY <1>1, <1>4 DEF Pick, Page
  <2>2. page.rows = {}
    BY <1>1, <2>1 DEF Editor
  <2>3. Editor' /\ Calm' /\ \A l \in Leaves : Base(l)' = Base(l)
    BY <1>1, <2>1, <2>2 DEF Editor, Calm, Base
  <2> QED
    BY <1>2, <1>3, <1>4, <2>1, <2>3, EditKeeps DEF Pick
<1>5. ASSUME Go PROVE TextInv'
  <2>1. /\ page'.text = page.text /\ page'.rows = page.rows /\ page'.drafts = page.drafts
        /\ page'.original = page.original /\ page'.told = page.told /\ page.state = "CONFIGURING"
    BY <1>1, <1>5 DEF Go, Page
  <2>2. page.rows = {}
    BY <1>1, <2>1 DEF Editor
  <2>3. Editor' /\ Calm' /\ \A l \in Leaves : Base(l)' = Base(l)
    BY <1>1, <2>1, <2>2 DEF Editor, Calm, Base
  <2> QED
    BY <1>2, <1>3, <1>5, <2>1, <2>3, EditKeeps DEF Go
<1>6. ASSUME NEW l \in Leaves, EscapeLeaf(l) PROVE TextInv'
  <2>1. /\ page'.text = [page.text EXCEPT ![l] = page.original[l]]
        /\ page'.drafts = [page.drafts EXCEPT ![l] = NoText]
        /\ page'.rows = page.rows /\ page'.original = page.original /\ page'.told = page.told
        /\ page'.state = page.state /\ l \in page.rows
    BY <1>1, <1>6 DEF EscapeLeaf, Page
  <2>2. page.text \in [Leaves -> Text] /\ page.drafts \in [Leaves -> Text \cup {NoText}]
        /\ page.original \in [Leaves -> Text]
    BY <1>1 DEF Page
  <2>3. \A k \in Leaves \ {l} : page'.text[k] = page.text[k] /\ page'.drafts[k] = page.drafts[k]
    BY <2>1, <2>2
  <2>4. page'.text[l] = page.original[l] /\ page'.drafts[l] = NoText
    BY <2>1, <2>2
  <2>5. Calm' /\ page'.state = "EDITING"
    BY <1>1, <1>6, <2>1 DEF Editor, Calm, EscapeLeaf
  <2>6. Editor'
    BY <1>1, <2>1, <2>3, <2>4, <2>5 DEF Editor
  <2>7. \A k \in Leaves : Base(k)' = Base(k)
    <3>1. Base(l)' = page.original[l]
      BY <2>1, <2>2, <2>4 DEF Base
    <3>2. page.text[l] # NoText
      BY <2>2, Bounds
    <3>3. Base(l) = page.original[l]
      BY <1>1, <2>1, <3>2 DEF Base, Editor
    <3>4. \A k \in Leaves \ {l} : Base(k)' = Base(k)
      BY <2>1, <2>3 DEF Base
    <3> QED
      BY <3>1, <3>3, <3>4
  <2> QED
    BY <1>2, <1>3, <1>6, <2>1, <2>5, <2>6, <2>7, EditKeeps DEF EscapeLeaf
<1>7. ASSUME NEW l \in Leaves, NEW t \in Text, Type(l, t) PROVE TextInv'
  <2>1. /\ page'.text = [page.text EXCEPT ![l] = t]
        /\ page'.drafts = [page.drafts EXCEPT ![l] = t]
        /\ page'.rows = page.rows /\ page'.original = page.original /\ page'.told = page.told
        /\ page'.state = page.state /\ l \in page.rows
    BY <1>1, <1>7 DEF Type, Page
  <2>2. page.text \in [Leaves -> Text] /\ page.drafts \in [Leaves -> Text \cup {NoText}]
        /\ page.original \in [Leaves -> Text] /\ t # NoText
    BY <1>1, Bounds DEF Page
  <2>3. \A k \in Leaves \ {l} : page'.text[k] = page.text[k] /\ page'.drafts[k] = page.drafts[k]
    BY <2>1, <2>2
  <2>4. page'.text[l] = t /\ page'.drafts[l] = t
    BY <2>1, <2>2
  <2>5. Calm' /\ page'.state = "EDITING"
    BY <1>1, <1>7, <2>1 DEF Editor, Calm, Type
  <2>6. Editor'
    BY <1>1, <2>1, <2>3, <2>4, <2>5 DEF Editor
  <2>7. \A k \in Leaves : Base(k)' = Base(k)
    <3>1. Base(l)' = page.original[l]
      BY <2>1, <2>2, <2>4 DEF Base
    <3>2. page.text[l] # NoText
      BY <2>2, Bounds
    <3>3. Base(l) = page.original[l]
      BY <1>1, <2>1, <3>2 DEF Base, Editor
    <3>4. \A k \in Leaves \ {l} : Base(k)' = Base(k)
      BY <2>1, <2>3 DEF Base
    <3> QED
      BY <3>1, <3>3, <3>4
  <2> QED
    BY <1>2, <1>3, <1>7, <2>1, <2>5, <2>6, <2>7, EditKeeps DEF Type
<1>8. ASSUME ExitConfigure PROVE TextInv'
  <2> DEFINE p == HideBar(page)
  <2>1. p \in Page /\ Restored(p)
    BY <1>1, EditorTypes, EditorEnds
  <2>2. page' = [p EXCEPT !.state = "PICKING", !.badge = "hidden"]
    BY <1>8 DEF ExitConfigure, ExitToPicking
  <2> HIDE DEF p
  <2>3. page'.text = p.text /\ page'.rows = p.rows /\ page'.drafts = p.drafts /\ page'.told = p.told
    BY <2>1, <2>2 DEF Page
  <2> QED
    BY <1>2, <1>3, <1>8, <2>1, <2>3, EndsKeep DEF ExitConfigure
<1>9. ASSUME Cancel \/ (Save /\ {l \in Leaves : Edited(l)} = {}) PROVE TextInv'
  <2> DEFINE p == DisableEdit(RestoreDrafts(page))
  <2>1. p \in Page /\ Restored(p)
    BY <1>1, EditorTypes, EditorEnds
  <2>2. page' = [p EXCEPT !.state = "CONFIGURING", !.badge = "idle"]
    BY <1>9 DEF Cancel, Save, CancelEditing
  <2> HIDE DEF p
  <2>3. page'.text = p.text /\ page'.rows = p.rows /\ page'.drafts = p.drafts /\ page'.told = p.told
    BY <2>1, <2>2 DEF Page
  <2>4. Unless("leaving", Waits({"stash"})) /\ UNCHANGED <<requests, asked, helper>>
    BY <1>9 DEF Cancel, Save
  <2> QED
    BY <1>2, <1>3, <2>1, <2>3, <2>4, EndsKeep
<1>10. ASSUME ClickOutside PROVE TextInv'
  <2> DEFINE p == DisableEdit(RestoreDrafts(page))
  <2>1. p \in Page /\ Restored(p)
    BY <1>1, EditorTypes, EditorEnds
  <2>2. page' = [p EXCEPT !.state = "PICKING", !.badge = "hidden"]
    BY <1>10 DEF ClickOutside
  <2> HIDE DEF p
  <2>3. page'.text = p.text /\ page'.rows = p.rows /\ page'.drafts = p.drafts /\ page'.told = p.told
    BY <2>1, <2>2 DEF Page
  <2> QED
    BY <1>2, <1>3, <1>10, <2>1, <2>3, EndsKeep DEF ClickOutside
<1>11. ASSUME EnterEditing PROVE TextInv'
  <2> DEFINE q == [page EXCEPT !.state = "EDITING"]
             p == HideBar(q)
             e == EnableEdit(p)
  <2>1. q \in Page /\ q.selected = page.selected /\ q.state = "EDITING"
    BY <1>1 DEF Page
  <2>2. p \in Page /\ Restored(p)
    BY <1>1, <2>1, EditorTypes, EditorEnds
  <2>3. p.state = "EDITING" /\ page.selected \subseteq Leaves /\ p.selected = page.selected
    <3>1. RestoreDrafts(q) \in Page /\ RestoreDrafts(q).state = "EDITING"
          /\ RestoreDrafts(q).selected = q.selected
      <4> HIDE DEF q
      <4> QED
        BY <2>1, EditorTypes DEF RestoreDrafts, Page
    <3>2. p = DisableEdit(RestoreDrafts(q))
      BY <2>1 DEF HideBar
    <3>3. page.selected \subseteq Leaves
      BY <1>1, BoundsAssumption DEF Page
    <3> HIDE DEF q, p
    <3> QED
      BY <2>1, <3>1, <3>2, <3>3 DEF DisableEdit, Page
  <2>4. page' = [e EXCEPT !.badge = "editing"]
    BY <1>11 DEF EnterEditing
  <2> HIDE DEF p
  <2>5. /\ page'.text = p.text /\ page'.rows = p.selected /\ page'.drafts = NoDrafts
        /\ page'.told = p.told /\ page'.state = "EDITING"
        /\ page'.original = [l \in Leaves |-> IF l \in p.selected THEN p.text[l] ELSE 0]
    BY <2>2, <2>3, <2>4 DEF EnableEdit, Page
  <2>6. ~Waits({"stash"}) /\ ~Waits({"discard"})
    <3>1. Waits({"stash"}) \in BOOLEAN /\ Waits({"discard"}) \in BOOLEAN
      BY DEF Waits
    <3> QED
      BY <1>11, <3>1, Untroubled DEF EnterEditing
  <2>7. \A i \in Slots : requests[i].kind # "stash" /\ requests[i].kind # "discard"
    BY <1>1, <2>6, NoStash
  <2>8. UNCHANGED <<requests, staged, job, source>>
    BY <1>3, <1>11 DEF EnterEditing
  <2>9. \A l \in Leaves : page'.drafts[l] = NoText /\ page'.text[l] = Base(l)
    BY <2>2, <2>5 DEF Restored, NoDrafts
  <2>10. Editor' /\ Calm'
    BY <2>3, <2>5, <2>7, <2>8, <2>9 DEF Editor, Calm
  <2>11. \A l \in Leaves : Base(l)' = Base(l)
    BY <2>9 DEF Base
  <2> QED
    BY <2>2, <2>5, <2>7, <2>8, <2>10, <2>11, EditKeeps DEF Restored
<1>12. ASSUME SessionEnds PROVE TextInv'
  <2> DEFINE p == HideBar(page)
  <2>1. p \in Page /\ p = DisableEdit(page) /\ page.rows = {}
    BY <1>1, <1>12, EditorTypes DEF SessionEnds, HideBar, Editor
  <2>2. page' = [p EXCEPT !.state = "PICKING", !.selected = {}, !.badge = "hidden"]
    BY <1>12 DEF SessionEnds
  <2> HIDE DEF p
  <2>3. /\ page'.text = page.text /\ page'.rows = {} /\ page'.drafts = NoDrafts /\ page'.told = page.told
        /\ page'.original = NoEdits
    BY <1>1, <2>1, <2>2 DEF Page, DisableEdit
  <2>4. UNCHANGED <<requests, staged, job, source>>
    BY <1>3, <1>12 DEF SessionEnds
  <2>5. page.drafts = NoDrafts
    BY <1>1, <2>1 DEF Editor, NoDrafts, Page
  <2>6. Editor' /\ Calm'
    BY <2>3 DEF Editor, Calm, NoDrafts
  <2>7. \A l \in Leaves : Due(l)' = Due(l)
    BY <2>1, <2>3, <2>4 DEF Due, Base, Heard
  <2>8. \A l : ~Edited(l) /\ ~Edited(l)'
    BY <2>1, <2>3 DEF Edited
  <2>9. StashMatches'
    <3> SUFFICES ASSUME NEW i \in Slots, requests[i].kind = "stash", requests[i].step = "sent"
                 PROVE  Matches(requests[i].ops)'
      BY <2>4 DEF StashMatches
    <3>1. Matches(requests[i].ops)
      BY <1>1 DEF StashMatches
    <3>2. requests[i] \in Request /\ requests[i].ops \in Seq(Op)
      BY <1>1 DEF Request
    <3>3. \A k \in 1..Len(requests[i].ops) : FALSE
      <4>1. \A k \in 1..Len(requests[i].ops) : requests[i].ops[k].leaf \in Leaves
        <5> DEFINE ops == requests[i].ops
        <5>1. \A k \in 1..Len(ops) : ops[k] \in Op
          BY <3>2
        <5> HIDE DEF ops
        <5>2. \A k \in 1..Len(ops) : ops[k].leaf \in Leaves
          BY <5>1 DEF Op
        <5> QED
          BY <5>2 DEF ops
      <4> QED
        BY <2>8, <3>1, <4>1 DEF Matches
    <3> QED
      BY <2>4, <2>8, <3>3 DEF Matches
  <2>10. NoDeaf' /\ OneAsk' /\ Ground' = Ground /\ \A i \in Slots, k \in {"stash", "discard"} : Heard(i, k)' <=> Heard(i, k)
    BY <1>1, <2>4 DEF NoDeaf, OneAsk, Ground, Heard
  <2>11. ASSUME Chained(staged, Ground), Flow, Undo PROVE Chained(staged', Ground') /\ Flow' /\ Undo'
    BY <2>3, <2>4, <2>7, <2>10, <2>11 DEF Flow, Undo
  <2>12. page.told \/ (Chained(staged, Ground) /\ Flow /\ Undo)
    BY DEF EditInv, TextInv
  <2> QED
    BY <2>3, <2>6, <2>9, <2>10, <2>11, <2>12 DEF TextInv
<1>13. ASSUME Save, {l \in Leaves : Edited(l)} # {} PROVE TextInv'
  <2> DEFINE ops == SetToSeq({OpOf(l) : l \in {k \in Leaves : Edited(k)}})
  <2>1. Sends("stash", ops) /\ page' = page /\ Unless("overlap", UserWaits) /\ UNCHANGED helper
    BY <1>13 DEF Save, Asks
  <2>2. /\ ops \in Seq(Op) /\ DOMAIN ops = 1..Len(ops)
        /\ \A k \in 1..Len(ops) : ops[k].leaf \in {l \in Leaves : Edited(l)} /\ ops[k] = OpOf(ops[k].leaf)
        /\ \A l \in {k \in Leaves : Edited(k)} : \E k \in 1..Len(ops) : ops[k].leaf = l
        /\ \A j, k \in 1..Len(ops) : ops[j].leaf = ops[k].leaf => j = k
    BY <1>1, EditsSent
  <2> HIDE DEF ops
  <2>3. Matches(ops)
    BY <2>2 DEF Matches
  <2>4. ~UserWaits
    <3>1. UserWaits \in BOOLEAN
      BY DEF UserWaits, Waits
    <3> QED
      BY <2>1, <3>1, Untroubled
  <2>5. SameEditor(page, page') /\ UNCHANGED <<staged, job, source>>
    BY <2>1 DEF SameEditor, helper
  <2> QED
    BY <2>1, <2>2, <2>3, <2>4, <2>5, AskKeeps
<1> QED
  BY <1>4, <1>5, <1>6, <1>7, <1>8, <1>9, <1>10, <1>11, <1>12, <1>13

LEMMA UserDockKeeps ==
  ASSUME EditInv, Clean, Clean', Apply \/ DiscardEdits \/ KeepFixing \/ Rollback
  PROVE  TextInv'
<1>1. TypeOK /\ <<>> \in Seq(Op)
  BY DEF EditInv, TypeInv
<1>2. SameEditor(page, page') /\ UNCHANGED <<staged, job, source>>
  BY <1>1, UserDockType DEF helper
<1>3. UserWaits \in BOOLEAN /\ (page.state = "EDITING") \in BOOLEAN
  BY DEF UserWaits, Waits
<1>4. AtDock => ~UserWaits /\ page.state # "EDITING"
  BY <1>3, Untroubled DEF AtDock
<1>5. CASE Apply
  BY <1>1, <1>2, <1>4, <1>5, AskKeeps DEF Apply, Asks
<1>6. CASE DiscardEdits
  BY <1>1, <1>2, <1>4, <1>6, AskKeeps DEF DiscardEdits, Asks
<1>7. CASE KeepFixing
  BY <1>1, <1>2, <1>4, <1>7, AskKeeps DEF KeepFixing, Asks
<1>8. CASE Rollback
  BY <1>1, <1>2, <1>8, AskKeeps DEF Rollback, Asks
<1> QED
  BY <1>5, <1>6, <1>7, <1>8

\* A step that leaves the page alone.
LEMMA PageKeeps ==
  ASSUME EditInv, Clean, page' = page
  PROVE  SameTexts(page, page') /\ Editor'
BY DEF EditInv, TextInv, SameTexts, Editor

LEMMA AppliesKeeps ==
  ASSUME EditInv, Clean, Applies, page' = page,
         UNCHANGED requests \/ \E i \in Slots : TakeCommit(i) \/ TakeRepair(i) \/ TakeRollback(i)
  PROVE  TextInv'
<1>1. /\ TypeInv /\ Progress /\ NoDeaf /\ requests \in [Slots -> Request] /\ Slots # {}
  <2>1. 1 \in Slots
    BY Bounds DEF Slots
  <2> QED
    BY <2>1 DEF EditInv, TypeInv, TypeOK, TextInv
<1>2. /\ SaysTheSame
      /\ job.step # "idle" \/ staged # <<>> \/ UNCHANGED <<staged, job, source>>
  BY <1>1, AppliesSays
<1>3. \E i \in Slots : Beside(i)
  <2>1. CASE UNCHANGED requests
    BY <1>1, <2>1 DEF Beside
  <2>2. ASSUME NEW i \in Slots, TakeCommit(i) \/ TakeRepair(i) \/ TakeRollback(i)
        PROVE  Beside(i)
    <3>1. requests[i].kind \in {"commit", "repair", "rollback"} /\ requests[i].step # "deaf"
      BY <1>1, <2>2 DEF Taken, TakeCommit, TakeRepair, TakeRollback, NoDeaf
    <3>2. Answers(i, staged) \/ Refuses(i)
      BY <2>2 DEF TakeCommit, TakeRepair, TakeRollback
    <3> QED
      BY <1>1, <3>1, <3>2 DEF Answers, Refuses, Beside, Request
  <2> QED
    BY <2>1, <2>2
<1> QED
  BY <1>2, <1>3, PageKeeps, BesideKeeps

\* The helper keeps what was edited, each edit where the last one on its leaf ended.
LEMMA TakeStashKeeps ==
  ASSUME EditInv, Clean, NEW i \in Slots, TakeStash(i), page' = page
  PROVE  Progress' /\ TextInv'
<1> DEFINE ops  == requests[i].ops
           kept == staged \o ops
           n    == Len(staged)
<1>1. /\ Editor /\ NoDeaf /\ OneAsk /\ StashMatches /\ Calm /\ Progress
      /\ page.told \/ (Chained(staged, Ground) /\ Flow /\ Undo)
      /\ page \in Page /\ requests \in [Slots -> Request] /\ staged \in Seq(Op) /\ JobSound
      /\ job.size \in Nat /\ job.todo \in Nat
  BY DEF EditInv, TextInv, TypeInv, TypeOK, Job, Counts
<1>2. /\ requests[i].kind = "stash" /\ requests[i].step = "sent" /\ staged' = kept
      /\ UNCHANGED <<job, source>> /\ Answers(i, kept)
  BY <1>1 DEF TakeStash, Taken, NoDeaf
<1>3. Matches(ops) /\ ops \in Seq(Op)
  BY <1>1, <1>2 DEF StashMatches, Request
<1>4. /\ requests'[i].kind = "stash" /\ requests'[i].step = "answered"
      /\ \A j \in Slots \ {i} : requests'[j] = requests[j] /\ requests[j].kind \in {"free", "count"}
  <2>1. requests[i] \in Request
    BY <1>1
  <2>2. \A j \in Slots \ {i} : requests'[j] = requests[j]
    BY <1>1, <1>2 DEF Answers
  <2>3. requests'[i] = [requests[i] EXCEPT !.step = "answered", !.count = Len(kept)]
    BY <1>1, <1>2 DEF Answers
  <2>4. requests'[i].kind = "stash" /\ requests'[i].step = "answered"
    BY <1>2, <2>1, <2>3 DEF Request
  <2>5. \A j \in Slots \ {i} : requests[j].kind \in {"free", "count"}
    BY <1>1, <1>2 DEF OneAsk
  <2> QED
    BY <2>2, <2>4, <2>5
<1>5. /\ n \in Nat /\ Len(ops) \in Nat /\ Len(kept) = n + Len(ops) /\ kept \in Seq(Op)
      /\ \A k \in 1..n : kept[k] = staged[k]
      /\ \A k \in 1..Len(ops) : kept[n + k] = ops[k]
  BY <1>1, <1>3
<1>6. Progress'
  <2> SUFFICES ASSUME job.step # "idle", NEW l \in Leaves
               PROVE  Ends(kept, job.size - job.todo, l, job.before[l], source[l])
    BY <1>2 DEF Progress
  <2>1. Ends(staged, job.size - job.todo, l, job.before[l], source[l])
    BY <1>1 DEF Progress
  <2>2. job.size - job.todo \in Nat /\ \A k \in 1..(job.size - job.todo) : k \in 1..n
    BY <1>1, <1>5 DEF JobSound
  <2> HIDE DEF kept
  <2>3. \A k \in 1..(job.size - job.todo) : kept[k] = staged[k]
    BY <1>5, <2>2
  <2> QED
    BY <2>1, <2>2, <2>3, EndsAlike
<1>7. \A j \in Slots : ~Heard(j, "stash") /\ ~Heard(j, "discard") /\ ~Heard(j, "discard")'
  BY <1>2, <1>4 DEF Heard
<1>8. Heard(i, "stash")'
  BY <1>4 DEF Heard
<1>9. Editor' /\ NoDeaf' /\ OneAsk' /\ StashMatches' /\ Calm' /\ Undo'
  BY <1>1, <1>2, <1>4, <1>7 DEF Editor, NoDeaf, OneAsk, StashMatches, Calm, Undo
<1>10. Ground' = Ground
  BY <1>2 DEF Ground
<1> HIDE DEF kept, ops, n
<1>11. ASSUME Chained(staged, Ground), Flow PROVE Chained(staged', Ground') /\ Flow'
  <2>1. \A l \in Leaves : Ends(staged, n, l, Ground[l], Base(l))
    BY <1>7, <1>11 DEF Flow, Due, n
  <2>2. \A l, t : Ends(kept, n, l, Ground[l], t) <=> Ends(staged, n, l, Ground[l], t)
    BY <1>5, EndsAlike
  <2>3. \A k \in 1..Len(ops) : /\ ops[k].leaf \in Leaves /\ Edited(ops[k].leaf)
                               /\ ops[k].original = Base(ops[k].leaf)
                               /\ ops[k].new = page.text[ops[k].leaf]
    <3> SUFFICES ASSUME NEW k \in 1..Len(ops)
                 PROVE  /\ ops[k].leaf \in Leaves /\ Edited(ops[k].leaf)
                        /\ ops[k].original = Base(ops[k].leaf)
                        /\ ops[k].new = page.text[ops[k].leaf]
      OBVIOUS
    <3>1. ops[k] \in Op
      BY <1>3
    <3>2. ops[k].leaf \in Leaves
      BY <3>1 DEF Op
    <3>3. Edited(ops[k].leaf) /\ ops[k] = OpOf(ops[k].leaf)
      BY <1>3, <3>2 DEF Matches
    <3>4. ops[k].original = page.original[ops[k].leaf] /\ ops[k].new = page.drafts[ops[k].leaf]
      BY <3>3 DEF OpOf
    <3> QED
      BY <1>1, <3>2, <3>3, <3>4 DEF Edited, Base, Editor
  <2>4. \A l \in Leaves : ~Edited(l) => Base(l) = page.text[l]
    BY <1>1 DEF Edited, Base, Editor
  <2>5. Chained(kept, Ground)
    <3> SUFFICES ASSUME NEW k \in 1..Len(kept)
                 PROVE  Ends(kept, k - 1, kept[k].leaf, Ground[kept[k].leaf], kept[k].original)
      BY DEF Chained
    <3>1. CASE k \in 1..n
      <4>1. Ends(staged, k - 1, staged[k].leaf, Ground[staged[k].leaf], staged[k].original)
        BY <1>11, <3>1 DEF Chained, n
      <4>2. k - 1 \in Nat /\ \A j \in 1..(k - 1) : kept[j] = staged[j]
        BY <1>5, <3>1
      <4>3. kept[k] = staged[k]
        BY <1>5, <3>1
      <4> QED
        BY <4>1, <4>2, <4>3, EndsAlike
    <3>2. CASE k \notin 1..n
      <4> DEFINE m == k - n
      <4>1. m \in 1..Len(ops) /\ k = n + m
        BY <1>5, <3>2
      <4> HIDE DEF m
      <4>2. kept[k] = ops[m] /\ kept[k].leaf \in Leaves
        BY <1>5, <2>3, <4>1
      <4>3. Ends(kept, n, kept[k].leaf, Ground[kept[k].leaf], kept[k].original)
        BY <2>1, <2>2, <2>3, <4>1, <4>2
      <4>4. \A j \in (n + 1)..(k - 1) : kept[j].leaf # kept[k].leaf
        <5> SUFFICES ASSUME NEW j \in (n + 1)..(k - 1) PROVE kept[j].leaf # kept[k].leaf
          OBVIOUS
        <5>1. j - n \in 1..Len(ops) /\ j - n # m /\ n + (j - n) = j
          BY <1>5, <4>1
        <5>2. kept[j] = ops[j - n]
          BY <1>5, <5>1
        <5> QED
          BY <1>3, <4>1, <4>2, <5>1, <5>2 DEF Matches
      <4>5. k - 1 \in Nat /\ n <= k - 1
        BY <1>5, <4>1
      <4> QED
        BY <1>5, <4>3, <4>4, <4>5, EndsLonger
    <3> QED
      BY <3>1, <3>2
  <2>6. ASSUME NEW l \in Leaves PROVE Ends(kept, Len(kept), l, Ground[l], page.text[l])
    <3>1. CASE Edited(l)
      <4>1. PICK k \in 1..Len(ops) : ops[k].leaf = l
        BY <1>3, <3>1 DEF Matches
      <4>2. n + k \in 1..Len(kept) /\ kept[n + k].leaf = l /\ kept[n + k].new = page.text[l]
        BY <1>5, <2>3, <4>1
      <4>3. \A j \in (n + k + 1)..Len(kept) : kept[j].leaf # l
        <5> SUFFICES ASSUME NEW j \in (n + k + 1)..Len(kept) PROVE kept[j].leaf # l
          OBVIOUS
        <5>1. j - n \in 1..Len(ops) /\ j - n # k /\ n + (j - n) = j
          BY <1>5, <4>1
        <5>2. kept[j] = ops[j - n]
          BY <1>5, <5>1
        <5> QED
          BY <1>3, <4>1, <5>1, <5>2 DEF Matches
      <4> QED
        BY <4>2, <4>3 DEF Ends
    <3>2. CASE ~Edited(l)
      <4>1. Ends(kept, n, l, Ground[l], page.text[l])
        BY <2>1, <2>2, <2>4, <3>2
      <4>2. \A j \in (n + 1)..Len(kept) : kept[j].leaf # l
        <5> SUFFICES ASSUME NEW j \in (n + 1)..Len(kept) PROVE kept[j].leaf # l
          OBVIOUS
        <5>1. j - n \in 1..Len(ops) /\ n + (j - n) = j
          BY <1>5
        <5>2. kept[j] = ops[j - n]
          BY <1>5, <5>1
        <5> QED
          BY <2>3, <3>2, <5>1, <5>2
      <4> QED
        BY <1>5, <4>1, <4>2, EndsLonger
    <3> QED
      BY <3>1, <3>2
  <2>7. \A l \in Leaves : Due(l)' = page.text[l]
    BY <1>8 DEF Due
  <2>8. Flow'
    BY <1>2, <1>10, <2>6, <2>7 DEF Flow
  <2> QED
    BY <1>2, <1>10, <2>5, <2>8
<1> QED
  BY <1>1, <1>6, <1>9, <1>11 DEF TextInv

\* The helper drops its edits and tells the page which they were.
LEMMA TakeDiscardKeeps ==
  ASSUME EditInv, Clean, NEW i \in Slots, TakeDiscard(i), page' = page
  PROVE  Progress' /\ TextInv'
<1>1. /\ Editor /\ NoDeaf /\ OneAsk /\ StashMatches /\ Calm /\ Progress
      /\ page.told \/ (Chained(staged, Ground) /\ Flow /\ Undo)
      /\ page \in Page /\ requests \in [Slots -> Request] /\ staged \in Seq(Op)
  BY DEF EditInv, TextInv, TypeInv, TypeOK
<1>2. requests[i].kind = "discard" /\ requests[i].step = "sent" /\ page.rows = {}
      /\ requests[i] \in Request
  BY <1>1 DEF TakeDiscard, Taken, NoDeaf, Calm
<1>3. \A j \in Slots \ {i} : requests[j].kind \in {"free", "count"}
  BY <1>1, <1>2 DEF OneAsk
<1>4. CASE job.step # "idle"
  <2>1. requests' = [requests EXCEPT ![i] = [@ EXCEPT !.step = "failed"]] /\ UNCHANGED <<staged, job, source>>
    BY <1>2, <1>4 DEF TakeDiscard, Refuses, helper
  <2>2. requests'[i].kind = "discard" /\ requests'[i].step = "failed"
        /\ \A j \in Slots \ {i} : requests'[j] = requests[j]
    BY <1>1, <1>2, <2>1 DEF Request
  <2>3. Beside(i)
    BY <1>2, <2>2 DEF Beside
  <2> QED
    BY <1>1, <2>1, <2>3, NothingSays, PageKeeps, BesideKeeps
<1>5. CASE job.step = "idle"
  <2>1. /\ requests' = [requests EXCEPT ![i] = [@ EXCEPT !.step = "answered", !.ops = staged]]
        /\ staged' = <<>> /\ UNCHANGED <<job, source>>
    BY <1>5 DEF TakeDiscard
  <2>2. /\ requests'[i].kind = "discard" /\ requests'[i].step = "answered" /\ requests'[i].ops = staged
        /\ \A j \in Slots \ {i} : requests'[j] = requests[j]
    BY <1>1, <1>2, <2>1 DEF Request
  <2>3. Progress' /\ Ground' = source /\ Ground = source
    BY <1>5, <2>1 DEF Progress, Ground
  <2>4. Editor' /\ NoDeaf' /\ OneAsk' /\ StashMatches' /\ Calm'
    BY <1>1, <1>2, <1>3, <2>2 DEF Editor, NoDeaf, OneAsk, StashMatches, Calm
  <2>5. \A j \in Slots : ~Heard(j, "stash") /\ ~Heard(j, "discard") /\ (Heard(j, "discard")' => j = i)
    BY <1>2, <1>3, <2>2 DEF Heard
  <2>6. ASSUME Chained(staged, Ground), Flow PROVE Chained(staged', Ground') /\ Flow' /\ Undo'
    <3>1. \A l \in Leaves : Ends(staged, Len(staged), l, source[l], page.text[l])
      BY <1>2, <2>3, <2>5, <2>6 DEF Flow, Due, Base
    <3>2. Undo'
      BY <1>5, <2>1, <2>2, <2>3, <2>5, <2>6, <3>1 DEF Undo
    <3>3. Heard(i, "discard")'
      BY <2>2 DEF Heard
    <3>4. Flow'
      BY <3>3 DEF Flow
    <3>5. Chained(staged', Ground')
      <4>1. Len(staged') = 0 /\ \A k \in 1..0 : FALSE
        BY <2>1
      <4> QED
        BY <4>1 DEF Chained
    <3> QED
      BY <3>2, <3>4, <3>5
  <2> QED
    BY <1>1, <2>3, <2>4, <2>6 DEF TextInv
<1> QED
  BY <1>4, <1>5

\* The source is as far as the apply is, whatever goes wrong.
LEMMA TakeProgress ==
  ASSUME TypeInv, Progress, NEW i \in Slots, Take(i)
  PROVE  Progress'
<1>1. /\ staged \in Seq(Op) /\ requests[i] \in Request /\ JobSound /\ job.size \in Nat /\ job.todo \in Nat
  BY DEF TypeInv, TypeOK, Job, Counts
<1>2. CASE TakeStash(i)
  <2>1. staged' = staged \o requests[i].ops /\ UNCHANGED <<job, source>>
    BY <1>2 DEF TakeStash
  <2>2. requests[i].ops \in Seq(Op)
    BY <1>1 DEF Request
  <2>3. \A k \in 1..Len(staged) : staged'[k] = staged[k]
    BY <1>1, <2>1, <2>2
  <2>4. job.size - job.todo \in Nat /\ \A k \in 1..(job.size - job.todo) : k \in 1..Len(staged)
    BY <1>1 DEF JobSound
  <2> SUFFICES ASSUME job.step # "idle", NEW l \in Leaves
               PROVE  Ends(staged', job.size - job.todo, l, job.before[l], source[l])
    BY <2>1 DEF Progress
  <2>5. Ends(staged, job.size - job.todo, l, job.before[l], source[l])
    BY DEF Progress
  <2> QED
    BY <2>3, <2>4, <2>5, EndsAlike
<1>3. CASE TakeCount(i)
  BY <1>3 DEF TakeCount, helper, Progress
<1>4. CASE TakeCommit(i) \/ TakeRepair(i) \/ TakeRollback(i)
  BY <1>4, AppliesSays DEF Applies
<1>5. CASE TakeDiscard(i)
  BY <1>5 DEF TakeDiscard, helper, Progress
<1> QED
  BY <1>2, <1>3, <1>4, <1>5 DEF Take

LEMMA TakeKeeps ==
  ASSUME EditInv, Clean, NEW i \in Slots, Take(i)
  PROVE  Progress' /\ TextInv'
<1>1. page' = page /\ requests \in [Slots -> Request] /\ Progress /\ TypeInv /\ NoDeaf
  BY DEF Take, EditInv, TypeInv, TypeOK, TextInv
<1>2. CASE TakeStash(i)
  BY <1>1, <1>2, TakeStashKeeps
<1>3. CASE TakeCount(i)
  <2>1. UNCHANGED <<staged, job, source>>
    BY <1>3 DEF TakeCount, helper
  <2>2. Beside(i)
    BY <1>1, <1>3 DEF TakeCount, Taken, Answers, Beside, NoDeaf, Request
  <2> QED
    BY <1>1, <2>1, <2>2, NothingSays, PageKeeps, BesideKeeps
<1>4. CASE TakeCommit(i) \/ TakeRepair(i) \/ TakeRollback(i)
  <2>1. Applies
    BY <1>4 DEF Applies
  <2> QED
    BY <1>1, <1>4, <2>1, AppliesSays, AppliesKeeps
<1>5. CASE TakeDiscard(i)
  BY <1>1, <1>5, TakeDiscardKeeps
<1> QED
  BY <1>2, <1>3, <1>4, <1>5 DEF Take

\* The editor is closed over the texts that were saved.
LEMMA StashAnsweredKeeps ==
  ASSUME EditInv, Clean, NEW i \in Slots, Answered(i), requests[i].kind = "stash",
         requests[i].step = "answered"
  PROVE  TextInv'
<1>1. /\ Editor /\ NoDeaf /\ OneAsk /\ StashMatches /\ Calm
      /\ page.told \/ (Chained(staged, Ground) /\ Flow /\ Undo)
      /\ page \in Page /\ requests \in [Slots -> Request]
  BY DEF EditInv, TextInv, TypeInv, TypeOK
<1>2. /\ requests' = [requests EXCEPT ![i] = Free] /\ UNCHANGED <<staged, job, source>>
      /\ page' = [DisableEdit(UpdateCounter(page, requests[i].count))
                    EXCEPT !.state = "CONFIGURING", !.badge = "idle"]
  BY DEF Answered, Done, helper, StashAnswered, CountAnswered, CommitAnswered, RepairAnswered,
     RollbackAnswered, DiscardAnswered
<1>3. /\ requests'[i].kind = "free" /\ requests'[i].step = "sent"
      /\ \A j \in Slots \ {i} : requests'[j] = requests[j] /\ requests[j].kind \in {"free", "count"}
  <2>1. \A j \in Slots \ {i} : requests[j].kind \in {"free", "count"}
    BY <1>1 DEF OneAsk
  <2> QED
    BY <1>1, <1>2, <2>1 DEF Free
<1>4. /\ page'.text = page.text /\ page'.rows = {} /\ page'.drafts = NoDrafts /\ page'.told = page.told
  <2> DEFINE c == UpdateCounter(page, requests[i].count)
  <2>1. c \in Page /\ SameEditor(page, c)
    BY <1>1, CounterEffect DEF Request
  <2> HIDE DEF c
  <2>2. page' = [DisableEdit(c) EXCEPT !.state = "CONFIGURING", !.badge = "idle"]
    BY <1>2 DEF c
  <2> QED
    BY <2>1, <2>2 DEF DisableEdit, Page, SameEditor
<1>5. /\ Editor' /\ NoDeaf' /\ OneAsk' /\ StashMatches' /\ Calm' /\ Ground' = Ground
  BY <1>1, <1>2, <1>3, <1>4 DEF Editor, NoDeaf, OneAsk, StashMatches, Calm, NoDrafts, Ground
<1>6. \A j \in Slots : ~Heard(j, "stash")' /\ ~Heard(j, "discard") /\ ~Heard(j, "discard")'
  BY <1>3 DEF Heard
<1>7. \A l \in Leaves : Due(l)' = Due(l)
  <2>1. Heard(i, "stash")
    BY DEF Heard
  <2> QED
    BY <1>4, <1>6, <2>1 DEF Due, Base
<1>8. ASSUME Chained(staged, Ground), Flow PROVE Chained(staged', Ground') /\ Flow' /\ Undo'
  BY <1>2, <1>5, <1>6, <1>7, <1>8 DEF Flow, Undo
<1> QED
  BY <1>1, <1>4, <1>5, <1>8 DEF TextInv

\* The page puts the discarded texts back, or tells the user.
LEMMA DiscardAnsweredKeeps ==
  ASSUME EditInv, Clean, NEW i \in Slots, Answered(i), requests[i].kind = "discard",
         requests[i].step = "answered"
  PROVE  TextInv'
<1> DEFINE ops == requests[i].ops
           r   == RestoreDiscarded(page, ops)
<1>1. /\ Editor /\ NoDeaf /\ OneAsk /\ StashMatches /\ Calm
      /\ page.told \/ (Chained(staged, Ground) /\ Flow /\ Undo)
      /\ page \in Page /\ requests \in [Slots -> Request] /\ source \in [Leaves -> Text]
  BY DEF EditInv, TextInv, TypeInv, TypeOK
<1>2. /\ requests' = [requests EXCEPT ![i] = Free] /\ UNCHANGED <<staged, job, source>>
      /\ page' = UpdateCounter(r, 0)
  BY DEF Answered, Done, helper, StashAnswered, CountAnswered, CommitAnswered, RepairAnswered,
     RollbackAnswered, DiscardAnswered
<1>3. /\ requests'[i].kind = "free" /\ requests'[i].step = "sent"
      /\ \A j \in Slots \ {i} : requests'[j] = requests[j] /\ requests[j].kind \in {"free", "count"}
  <2>1. \A j \in Slots \ {i} : requests[j].kind \in {"free", "count"}
    BY <1>1 DEF OneAsk
  <2> QED
    BY <1>1, <1>2, <2>1 DEF Free
<1>4. ops \in Seq(Op)
  BY <1>1 DEF Request
<1>5. r \in Page /\ (page.told => r.told)
      /\ \E text \in [Leaves -> Text], told \in BOOLEAN : r = [page EXCEPT !.text = text, !.told = told]
  BY <1>1, <1>4, RestoreEffect
<1>6. Heard(i, "discard") /\ page.rows = {}
  BY <1>1 DEF Heard, Calm
<1>7. ASSUME ~r.told PROVE r.text = source /\ staged = <<>> /\ job.step = "idle"
  <2>1. Chained(staged, Ground) /\ Flow /\ Undo
    BY <1>1, <1>5, <1>7
  <2>2. /\ staged = <<>> /\ job.step = "idle" /\ Chained(ops, source)
        /\ \A l \in Leaves : Ends(ops, Len(ops), l, source[l], page.text[l])
    BY <1>6, <2>1 DEF Undo
  <2> HIDE DEF ops
  <2> QED
    BY <1>1, <1>4, <1>7, <2>2, DiscardRestores
<1> HIDE DEF r
<1>8. r.rows = page.rows /\ r.drafts = page.drafts /\ r.original = page.original /\ r.state = page.state
  BY <1>1, <1>5 DEF Page
<1>9. page' \in Page /\ SameEditor(r, page')
  BY <1>2, <1>5, Bounds, CounterEffect
<1>10. /\ page'.text = r.text /\ page'.rows = {} /\ page'.drafts = page.drafts /\ page'.told = r.told
  BY <1>6, <1>8, <1>9 DEF SameEditor
<1>11. /\ Editor' /\ NoDeaf' /\ OneAsk' /\ StashMatches' /\ Calm' /\ Ground' = Ground
  BY <1>1, <1>2, <1>3, <1>6, <1>10 DEF Editor, NoDeaf, OneAsk, StashMatches, Calm, Ground
<1>12. \A j \in Slots : ~Heard(j, "stash")' /\ ~Heard(j, "discard")'
  BY <1>3 DEF Heard
<1>13. ASSUME ~r.told PROVE Chained(staged', Ground') /\ Flow' /\ Undo'
  <2>1. staged' = <<>> /\ Len(staged') = 0 /\ Ground' = source /\ \A k \in 1..0 : FALSE
    BY <1>2, <1>7, <1>13 DEF Ground
  <2>2. \A l \in Leaves : Due(l)' = source[l]
    BY <1>7, <1>10, <1>12, <1>13 DEF Due, Base
  <2>3. Chained(staged', Ground')
    BY <2>1 DEF Chained
  <2>4. Flow'
    BY <2>1, <2>2, EndsZero DEF Flow
  <2> QED
    BY <1>12, <2>3, <2>4 DEF Undo
<1> QED
  BY <1>10, <1>11, <1>13 DEF TextInv

LEMMA AnsweredKeeps ==
  ASSUME EditInv, Clean, NEW i \in Slots, Answered(i)
  PROVE  Progress' /\ TextInv'
<1>1. /\ TypeOK /\ Progress /\ requests \in [Slots -> Request] /\ page \in Page
      /\ requests' = [requests EXCEPT ![i] = Free] /\ UNCHANGED <<staged, job, source>>
  BY DEF EditInv, TypeInv, TypeOK, Answered, Done, helper
<1>2. Progress' /\ SaysTheSame
  BY <1>1, NothingSays
<1>3. CASE requests[i].kind \in {"stash", "discard"} /\ requests[i].step = "answered"
  BY <1>2, <1>3, StashAnsweredKeeps, DiscardAnsweredKeeps
<1>4. CASE ~(requests[i].kind \in {"stash", "discard"} /\ requests[i].step = "answered")
  <2>1. SameEditor(page, page')
    <3>1. CASE requests[i].kind \notin {"stash", "discard"}
      BY <1>1, <3>1, AnswerEffect
    <3>2. CASE requests[i].kind \in {"stash", "discard"}
      <4>1. requests[i].step = "failed"
        BY <1>4, <3>2 DEF Answered
      <4>2. page' = page
        BY <3>2, <4>1 DEF Answered, StashAnswered, CountAnswered, CommitAnswered, RepairAnswered,
           RollbackAnswered, DiscardAnswered
      <4> QED
        BY <4>2 DEF SameEditor
    <3> QED
      BY <3>1, <3>2
  <2>2. SameTexts(page, page') /\ Editor'
    BY <2>1 DEF SameTexts, SameEditor, Editor, EditInv, TextInv
  <2>3. Beside(i)
    BY <1>1, <1>4 DEF Beside, Heard
  <2> QED
    BY <1>1, <1>2, <2>2, <2>3, BesideKeeps
<1> QED
  BY <1>3, <1>4

LEMMA LoseKeeps ==
  ASSUME EditInv, Clean, Clean', NEW i \in Slots, Lose(i)
  PROVE  Progress' /\ TextInv'
<1>1. /\ Progress /\ requests \in [Slots -> Request] /\ page' = page /\ UNCHANGED <<staged, job, source>>
      /\ requests' = [requests EXCEPT ![i].step = "failed"]
  BY DEF EditInv, TypeInv, TypeOK, Lose, helper
<1>2. requests[i].step = "sent"
  BY Untroubled DEF Lose
<1>3. Beside(i)
  BY <1>1, <1>2 DEF Beside, Request
<1> QED
  BY <1>1, <1>3, NothingSays, PageKeeps, BesideKeeps

LEMMA HearKeeps ==
  ASSUME EditInv, Clean, Hear
  PROVE  Progress' /\ TextInv'
<1>1. /\ TypeInv /\ Progress /\ requests \in [Slots -> Request] /\ UNCHANGED <<staged, job, source>>
      /\ <<>> \in Seq(Op) /\ 1 \in Slots
  BY Bounds DEF EditInv, TypeInv, TypeOK, Hear, Slots
<1>2. SameTexts(page, page') /\ Editor'
  BY <1>1, HearType DEF SameTexts, SameEditor, Editor, EditInv, TextInv
<1>3. \E i \in Slots : Beside(i)
  <2>1. CASE Sends("count", <<>>)
    BY <1>1, <2>1, SendsEffect DEF Beside
  <2>2. CASE UNCHANGED requests
    BY <1>1, <2>2 DEF Beside
  <2> QED
    BY <2>1, <2>2 DEF Hear
<1> QED
  BY <1>1, <1>2, <1>3, NothingSays, BesideKeeps

LEMMA EditInvInit == Init => EditInv
<1> SUFFICES ASSUME Init PROVE EditInv
  OBVIOUS
<1>1. TypeInv
  BY TypeInit
<1>2. Progress
  BY DEF Init, Progress
<1>3. /\ page.rows = {} /\ page.drafts = NoDrafts /\ page.text = NoEdits /\ page.state = "PICKING"
      /\ \A i \in Slots : requests[i].kind = "free" /\ requests[i].step = "sent"
      /\ staged = <<>> /\ Len(staged) = 0 /\ Ground = NoEdits
  BY DEF Init, Fresh, Free, Ground
<1>4. Editor /\ NoDeaf /\ OneAsk /\ StashMatches /\ Calm /\ Undo
  BY <1>3 DEF Editor, NoDeaf, OneAsk, StashMatches, Calm, Undo, Heard, NoDrafts
<1>5. Chained(staged, Ground)
  <2>1. \A k \in 1..0 : FALSE
    OBVIOUS
  <2> QED
    BY <1>3, <2>1 DEF Chained
<1>6. Flow
  <2>1. \A l \in Leaves : Due(l) = Ground[l]
    BY <1>3 DEF Due, Base, Heard
  <2> QED
    BY <1>3, <2>1, EndsZero DEF Flow
<1> QED
  BY <1>1, <1>2, <1>4, <1>5, <1>6 DEF EditInv, TextInv

LEMMA EditInvStep == EditInv /\ [Next]_vars => EditInv'
<1> SUFFICES ASSUME EditInv, [Next]_vars PROVE EditInv'
  OBVIOUS
<1>1. TypeInv /\ Progress /\ TypeInv'
  BY TypeStep DEF EditInv
<1>2. Clean' => Clean
  BY FaultsStay DEF Clean, Met
<1>3. UNCHANGED <<staged, job, source>> => Progress'
  BY <1>1, NothingSays
<1>4. CASE \/ \E e \in Elements : Pick(e)
           \/ \E l \in Leaves : EscapeLeaf(l) \/ \E t \in Text : Type(l, t)
           \/ ExitConfigure \/ EnterEditing \/ Cancel \/ ClickOutside \/ Go \/ SessionEnds \/ Save
  <2>1. Progress'
    BY <1>1, <1>3, <1>4, UserEditType DEF TypeInv, helper
  <2> QED
    BY <1>1, <1>2, <1>4, <2>1, UserEditKeeps DEF EditInv, TextInv
<1>5. CASE Apply \/ DiscardEdits \/ KeepFixing \/ Rollback
  <2>1. Progress'
    BY <1>1, <1>3, <1>5, UserDockType DEF TypeInv, helper
  <2> QED
    BY <1>1, <1>2, <1>5, <2>1, UserDockKeeps DEF EditInv, TextInv
<1>6. ASSUME NEW i \in Slots, Take(i) PROVE EditInv'
  BY <1>1, <1>2, <1>6, TakeKeeps, TakeProgress DEF EditInv, TextInv
<1>7. ASSUME NEW i \in Slots, Lose(i) PROVE EditInv'
  <2>1. Progress'
    BY <1>3, <1>7 DEF Lose, helper
  <2> QED
    BY <1>1, <1>2, <1>7, <2>1, LoseKeeps DEF EditInv, TextInv
<1>8. ASSUME NEW i \in Slots, Answered(i) PROVE EditInv'
  <2>1. Progress'
    BY <1>3, <1>8 DEF Answered, helper
  <2> QED
    BY <1>1, <1>2, <1>8, <2>1, AnsweredKeeps DEF EditInv, TextInv
<1>9. CASE ApplyNext \/ Finish \/ LeaveOut \/ GiveUp \/ NeedsRepair \/ NeedsDecision \/ OtherTabApplies
  <2>1. Applies /\ UNCHANGED <<page, requests>>
    BY <1>1, <1>9, AgentType DEF Applies
  <2> QED
    BY <1>1, <1>2, <2>1, AppliesSays, AppliesKeeps DEF EditInv, TextInv
<1>10. CASE Hear
  <2>1. Progress'
    BY <1>3, <1>10 DEF Hear
  <2> QED
    BY <1>1, <1>2, <1>10, <2>1, HearKeeps DEF EditInv, TextInv
<1>11. CASE StreamBreaks \/ UNCHANGED vars
  <2>1. UNCHANGED <<page, requests, staged, job, source>> /\ 1 \in Slots
    BY <1>11, Bounds DEF StreamBreaks, vars, Slots
  <2>2. Beside(1) /\ Progress' /\ SaysTheSame
    BY <1>1, <2>1, NothingSays DEF Beside
  <2> QED
    BY <1>1, <1>2, <2>1, <2>2, PageKeeps, BesideKeeps DEF EditInv, TextInv
<1>12. CASE Reload
  <2>1. Progress'
    BY <1>3, <1>12 DEF Reload
  <2>2. ~Clean'
    BY <1>12, Untroubled DEF Reload
  <2> QED
    BY <1>1, <2>1, <2>2 DEF EditInv, TextInv
<1> QED
  BY <1>4, <1>5, <1>6, <1>7, <1>8, <1>9, <1>10, <1>11, <1>12 DEF Next

\* A text of the page that the source does not have is being edited, or is saved
\* or on its way to be, or the user has been told: saving, cancelling, discarding,
\* applying, repairing and rolling back leave none behind, whatever fails meanwhile
\* (applyEditing, cancelEditing, restoreDiscardedManualEdits).
THEOREM NoTextIsStray == Spec => []NoStrayText
<1>1. EditInv => NoStrayText
  <2> SUFFICES ASSUME EditInv, Clean, ~page.told, NEW l \in Leaves
               PROVE  \/ page.text[l] = source[l] \/ page.drafts[l] = page.text[l]
                      \/ Staging(l, page.text[l])
    BY DEF NoStrayText, Clean
  <2>1. /\ Editor /\ Chained(staged, Ground) /\ Flow /\ Undo /\ Progress /\ staged \in Seq(Op)
        /\ requests \in [Slots -> Request] /\ page \in Page /\ JobSound /\ job \in Job
    BY DEF EditInv, TextInv, TypeInv, TypeOK
  <2>2. CASE \E i \in Slots : Heard(i, "discard")
    <3>1. PICK i \in Slots : Heard(i, "discard")
      BY <2>2
    <3> DEFINE ops == requests[i].ops
    <3>2. Ends(ops, Len(ops), l, source[l], page.text[l])
      BY <2>1, <3>1 DEF Undo
    <3>3. ops \in Seq(Op) /\ DOMAIN ops = 1..Len(ops)
      BY <2>1 DEF Request
    <3> QED
      BY <3>2, <3>3 DEF Ends, Staging
  <2>3. CASE \A i \in Slots : ~Heard(i, "discard")
    <3>1. Ends(staged, Len(staged), l, Ground[l], Due(l)) /\ DOMAIN staged = 1..Len(staged)
      BY <2>1, <2>3 DEF Flow
    <3>2. page.drafts[l] = page.text[l] \/ Due(l) = page.text[l]
      BY <2>1 DEF Due, Base, Editor
    <3>3. CASE \E k \in 1..Len(staged) : staged[k].leaf = l
      BY <3>1, <3>2, <3>3 DEF Ends, Staging
    <3>4. CASE \A k \in 1..Len(staged) : staged[k].leaf # l
      <4>1. Due(l) = Ground[l]
        BY <3>1, <3>4 DEF Ends
      <4>2. Ground[l] = source[l]
        <5>1. CASE job.step = "idle"
          BY <5>1 DEF Ground
        <5>2. CASE job.step # "idle"
          <6>1. Ends(staged, job.size - job.todo, l, job.before[l], source[l])
            BY <2>1, <5>2 DEF Progress
          <6>2. \A k \in 1..(job.size - job.todo) : k \in 1..Len(staged)
            BY <2>1 DEF JobSound, Job, Counts
          <6> QED
            BY <3>4, <5>2, <6>1, <6>2 DEF Ends, Ground
        <5> QED
          BY <5>1, <5>2
      <4> QED
        BY <3>2, <4>1, <4>2
    <3> QED
      BY <3>3, <3>4
  <2> QED
    BY <2>2, <2>3
<1> QED
  BY <1>1, EditInvInit, EditInvStep, PTL DEF Spec
-----------------------------------------------------------------------------
(* What the operators make of the dock and the lock. *)

SameDock(p, q) == q.dock = p.dock /\ q.inFlight = p.inFlight /\ q.stored = p.stored

\* The page is locked, with n edits in the dock.
Locked(p, n) == p.inFlight /\ ~p.dock.asks /\ p.dock.trashShown /\ p.dock.count = n

\* It is not, and the dock can be used.
Unlocked(p) == ~p.inFlight /\ p.stored.phase = "none" /\ p.dock.pill /\ p.dock.trash

LEMMA StartDock ==
  ASSUME NEW p \in Page, NEW count \in Counts
  PROVE  Locked(StartLoading(p, count), p.dock.count)
<1> DEFINE n    == IF count = 0 THEN p.dock.count ELSE count
           kept == Store(p, n)
           q    == [kept EXCEPT !.inFlight = TRUE, !.dock.pill = FALSE, !.dock.trash = FALSE,
                                !.dock.trashShown = TRUE, !.dock.asks = FALSE]
<1>1. n \in Counts
  BY DEF Page, Dock
<1>2. kept \in Page /\ kept.dock = p.dock
  BY <1>1, StoreEffect
<1>3. q \in Page /\ Locked(q, p.dock.count)
  <2> HIDE DEF kept
  <2> QED
    BY <1>2 DEF Page, Dock, Locked
<1>4. StartLoading(p, count) = RefreshControls(q)
  BY DEF StartLoading
<1> HIDE DEF q
<1> QED
  BY <1>3, <1>4, RefreshEffect DEF Locked

LEMMA StopDock ==
  ASSUME NEW p \in Page
  PROVE  /\ Unlocked(StopLoading(p)) /\ StopLoading(p).dock.count = p.dock.count
         /\ StopLoading(p).dock.trashShown = p.dock.trashShown
         /\ StopLoading(p).dock.asks = p.dock.asks
         /\ Unlocked(HideDock(p)) /\ HideDock(p).dock = NoDock
<1> DEFINE q == [p EXCEPT !.inFlight = FALSE, !.stored = NoStored, !.dock.pill = TRUE, !.dock.trash = TRUE]
           r == [p EXCEPT !.inFlight = FALSE, !.stored = NoStored, !.dock = NoDock]
<1>1. /\ q \in Page /\ Unlocked(q) /\ q.dock.count = p.dock.count /\ q.dock.asks = p.dock.asks
      /\ q.dock.trashShown = p.dock.trashShown
  BY Bounds DEF Page, Dock, Stored, NoStored, Unlocked
<1>2. r \in Page /\ Unlocked(r) /\ r.dock = NoDock
  BY Bounds DEF Page, Dock, NoDock, Stored, NoStored, Unlocked
<1>3. StopLoading(p) = RefreshControls(q) /\ HideDock(p) = RefreshControls(r)
  BY DEF StopLoading, HideDock
<1> HIDE DEF q, r
<1> QED
  BY <1>1, <1>2, <1>3, RefreshEffect DEF Unlocked

\* A count of nothing hides the dock; another is shown, and takes up the lock
\* as long as an apply is stored.
Counted(p, q, n) ==
  /\ q.dock.count = n
  /\ n = 0 => Unlocked(q) /\ ~q.dock.asks
  /\ n # 0 => q.dock.trashShown
  /\ n # 0 /\ (p.inFlight \/ p.stored.phase # "none") => Locked(q, n)
  /\ n # 0 /\ ~p.inFlight /\ p.stored.phase = "none" =>
       /\ ~q.inFlight /\ q.stored = p.stored /\ q.dock.pill = p.dock.pill
       /\ q.dock.trash = p.dock.trash /\ q.dock.asks = p.dock.asks

LEMMA CounterDock ==
  ASSUME NEW p \in Page, NEW n \in Counts
  PROVE  Counted(p, UpdateCounter(p, n), n)
<1> DEFINE shown == [p EXCEPT !.dock.count = n, !.dock.trashShown = TRUE]
<1>1. /\ shown \in Page /\ shown.dock.count = n /\ shown.dock.trashShown /\ shown.stored = p.stored
      /\ shown.inFlight = p.inFlight /\ shown.dock.pill = p.dock.pill
      /\ shown.dock.trash = p.dock.trash /\ shown.dock.asks = p.dock.asks
  BY DEF Page, Dock
<1>2. CASE n = 0
  BY <1>2, StopDock DEF UpdateCounter, Counted, NoDock
<1>3. CASE n # 0 /\ (p.inFlight \/ p.stored.phase # "none")
  <2>1. UpdateCounter(p, n) = StartLoading(shown, n)
    BY <1>3 DEF UpdateCounter
  <2> HIDE DEF shown
  <2> QED
    BY <1>1, <1>3, <2>1, StartDock DEF Counted, Locked
<1>4. CASE n # 0 /\ ~(p.inFlight \/ p.stored.phase # "none")
  <2>1. UpdateCounter(p, n) = shown
    BY <1>4 DEF UpdateCounter
  <2> HIDE DEF shown
  <2> QED
    BY <1>1, <1>4, <2>1 DEF Counted
<1> QED
  BY <1>2, <1>3, <1>4

LEMMA ProgressDock ==
  ASSUME NEW p \in Page, NEW total \in Counts
  PROVE  IF p.inFlight THEN Locked(ShowProgress(p, total), p.dock.count) ELSE ShowProgress(p, total) = p
<1> DEFINE t    == IF total # 0 THEN total ELSE p.stored.total
           done == IF p.stored.done + 1 > t THEN t ELSE p.stored.done + 1
           q    == [p EXCEPT !.stored = [phase |-> IF done < t THEN "applying" ELSE "verifying",
                                         total |-> t, done |-> done]]
<1>1. t \in Counts /\ p.stored.done \in Counts
  BY DEF Page, Stored
<1>2. done \in Counts /\ t - done \in Counts
  BY <1>1, Bounds DEF Counts
<1>3. q \in Page /\ q.dock = p.dock
  <2> HIDE DEF t, done
  <2>1. [phase |-> IF done < t THEN "applying" ELSE "verifying", total |-> t, done |-> done] \in Stored
    BY <1>1, <1>2 DEF Stored
  <2> QED
    BY <2>1 DEF Page
<1>4. ShowProgress(p, total) = IF ~p.inFlight THEN p ELSE StartLoading(q, t - done)
  BY DEF ShowProgress
<1> HIDE DEF q, t, done
<1>5. Locked(StartLoading(q, t - done), p.dock.count)
  BY <1>2, <1>3, StartDock
<1> QED
  BY <1>4, <1>5

LEMMA RepairDock ==
  ASSUME NEW p \in Page
  PROVE  \/ Locked(ShowRepair(p), p.dock.count)
         \/ ShowRepair(p) = p /\ p.dock.count = 0 /\ p.stored.total = 0
<1> DEFINE count == IF p.dock.count # 0 THEN p.dock.count ELSE p.stored.total
           kept  == StorePhase(p, count, "repairing")
<1>1. count \in Counts
  BY DEF Page, Dock, Stored
<1>2. kept \in Page /\ kept.dock = p.dock
  BY <1>1, StorePhaseEffect
<1>3. Locked(StartLoading(kept, count), p.dock.count)
  <2> HIDE DEF kept, count
  <2> QED
    BY <1>1, <1>2, StartDock
<1>4. ShowRepair(p) = IF count = 0 THEN p ELSE StartLoading(kept, count)
  BY DEF ShowRepair
<1> QED
  BY <1>3, <1>4

\* The user is asked.
Choice(p, q) ==
  /\ ~q.inFlight /\ ~q.dock.pill /\ q.dock.asks /\ q.dock.count = p.dock.count

LEMMA DecisionDock ==
  ASSUME NEW p \in Page, NEW remaining \in Counts
  PROVE  Choice(p, ShowDecision(p, remaining))
<1> DEFINE count == IF p.dock.count # 0 THEN p.dock.count ELSE remaining
           kept  == StorePhase(p, count, "repair-decision")
           q     == [kept EXCEPT !.inFlight = FALSE, !.dock.pill = FALSE,
                                 !.dock.trashShown = FALSE, !.dock.asks = TRUE]
<1>1. count \in Counts
  BY DEF Page, Dock
<1>2. kept \in Page /\ kept.dock = p.dock
  BY <1>1, StorePhaseEffect
<1>3. q \in Page /\ Choice(p, q)
  <2> HIDE DEF kept
  <2> QED
    BY <1>2 DEF Page, Dock, Choice
<1>4. ShowDecision(p, remaining) = RefreshControls(q)
  BY DEF ShowDecision
<1> HIDE DEF q
<1> QED
  BY <1>3, <1>4, RefreshEffect DEF Choice

\* What an event does.
ShownDock(p, q, e) ==
  /\ e.type = "stashed" => Counted(p, q, e.count)
  /\ e.type \in {"started", "repairing"} => Locked(q, e.count)
  /\ e.type = "chunk" => IF p.inFlight THEN Locked(q, p.dock.count) ELSE q = p
  /\ e.type = "repair" => Locked(q, p.dock.count) \/ (q = p /\ p.dock.count = 0)
  /\ e.type = "decision" => Choice(p, q)
  /\ e.type = "done" => /\ Unlocked(q) /\ q.dock.count = e.count
                        /\ e.count # 0 => q.dock.trashShown
                        /\ q.dock.asks => p.dock.asks
  /\ e.type = "failed" => /\ Unlocked(q) /\ q.dock.count = p.dock.count
                          /\ q.dock.trashShown = p.dock.trashShown /\ q.dock.asks = p.dock.asks
  /\ e.type = "discarded" => q = p
  /\ e.type = "rolledBack" => q.dock = p.dock /\ q.inFlight = p.inFlight /\ q.stored.phase = "none"

LEMMA ShowsDock ==
  ASSUME page \in Page, NEW e \in Event
  PROVE  ShownDock(page, Shows(e), e)
<1> DEFINE c == UpdateCounter(page, e.count)
<1>1. e.count \in Counts
  BY DEF Event
<1>2. c \in Page /\ Counted(page, c, e.count)
  BY <1>1, CounterEffect, CounterDock
<1> HIDE DEF c
<1>3. CASE e.type = "stashed"
  BY <1>2, <1>3 DEF Shows, c, ShownDock
<1>4. CASE e.type = "started"
  <2> DEFINE r == ResetProgress(c, e.count)
  <2>1. r \in Page /\ r.dock.count = e.count
    BY <1>1, <1>2, ResetEffect DEF Counted
  <2>2. Shows(e) = StartLoading(r, e.count)
    BY <1>4 DEF Shows, c
  <2> HIDE DEF r
  <2>3. Locked(Shows(e), e.count)
    BY <1>1, <2>1, <2>2, StartDock
  <2> QED
    BY <1>4, <2>3 DEF ShownDock
<1>5. CASE e.type = "repairing"
  <2> DEFINE r == ShowRepair(c)
  <2>1. r \in Page /\ r.dock.count = e.count
    BY <1>1, <1>2, RepairEffect, RepairDock DEF Counted, Locked
  <2>2. Shows(e) = StartLoading(r, e.count)
    BY <1>5 DEF Shows, c
  <2> HIDE DEF r
  <2>3. Locked(Shows(e), e.count)
    BY <1>1, <2>1, <2>2, StartDock
  <2> QED
    BY <1>5, <2>3 DEF ShownDock
<1>6. CASE e.type = "chunk"
  <2>1. Shows(e) = ShowProgress(page, e.count)
    BY <1>6 DEF Shows
  <2> QED
    BY <1>1, <1>6, <2>1, ProgressDock DEF ShownDock
<1>7. CASE e.type = "repair"
  <2>1. Shows(e) = ShowRepair(page)
    BY <1>7 DEF Shows
  <2> QED
    BY <1>7, <2>1, RepairDock DEF ShownDock
<1>8. CASE e.type = "decision"
  <2>1. Shows(e) = ShowDecision(page, e.count)
    BY <1>8 DEF Shows
  <2> QED
    BY <1>1, <1>8, <2>1, DecisionDock DEF ShownDock
<1>9. CASE e.type = "rolledBack"
  <2>1. Shows(e) = [page EXCEPT !.stored = NoStored]
    BY <1>9 DEF Shows
  <2> QED
    BY <1>9, <2>1 DEF ShownDock, Page, NoStored
<1>10. CASE e.type = "done"
  <2> DEFINE s == StopLoading(page)
  <2>1. Shows(e) = UpdateCounter(s, e.count)
    BY <1>10 DEF Shows, CommitDone
  <2>2. s \in Page /\ Unlocked(s) /\ s.dock.asks = page.dock.asks
    BY StopEffect, StopDock
  <2> HIDE DEF s
  <2>3. Counted(s, Shows(e), e.count)
    BY <1>1, <2>1, <2>2, CounterDock
  <2> QED
    BY <1>10, <2>2, <2>3 DEF ShownDock, Counted, Unlocked
<1>11. CASE e.type = "failed"
  <2>1. Shows(e) = StopLoading(page)
    BY <1>11 DEF Shows
  <2> QED
    BY <1>11, <2>1, StopDock DEF ShownDock
<1>12. CASE e.type = "discarded"
  <2>1. Shows(e) = page
    BY <1>12 DEF Shows
  <2> QED
    BY <1>12, <2>1 DEF ShownDock
<1>13. e.type \in {"stashed", "started", "repairing", "chunk", "repair", "decision",
                   "rolledBack", "done", "failed", "discarded"}
  BY DEF Event
<1> QED
  BY <1>3, <1>4, <1>5, <1>6, <1>7, <1>8, <1>9, <1>10, <1>11, <1>12, <1>13

\* What an answer does.
AnsweredDock(p, q, r) ==
  /\ r.kind \in {"stash", "count"} /\ r.step = "answered" => Counted(p, q, r.count)
  /\ r.kind \in {"stash", "count", "rollback", "discard"} /\ r.step = "failed" => SameDock(p, q)
  /\ r.kind = "commit" /\ r.step = "answered" => SameDock(p, q)
  /\ r.kind = "commit" /\ r.step = "failed" =>
       /\ Unlocked(q) /\ q.dock.count = p.dock.count /\ (q.dock.asks => p.dock.asks)
       /\ q.dock.count # 0 => q.dock.trashShown = p.dock.trashShown /\ q.dock.asks = p.dock.asks
  /\ r.kind = "repair" /\ r.step = "answered" =>
       /\ q.inFlight = p.inFlight /\ q.stored = p.stored /\ q.dock.count = p.dock.count
       /\ q.dock.pill = p.dock.pill /\ q.dock.trash = p.dock.trash
       /\ ~q.dock.asks /\ q.dock.trashShown
  /\ r.kind = "repair" /\ r.step = "failed" => Choice(p, q)
  /\ r.kind = "discard" /\ r.step = "answered" => Unlocked(q) /\ q.dock = NoDock

LEMMA AnswersDock ==
  ASSUME TypeOK, NEW i \in Slots, Answered(i)
  PROVE  AnsweredDock(page, page', requests[i])
<1> DEFINE r == requests[i]
<1>1. /\ page \in Page /\ r \in Request /\ r.count \in Counts /\ page.dock.count \in Counts
      /\ r.ops \in Seq(Op) /\ r.step \in {"answered", "failed"}
  BY DEF TypeOK, Request, Page, Dock, Answered
<1>2. CASE StashAnswered(i)
  <2>1. CASE r.step = "failed"
    BY <1>2, <2>1 DEF StashAnswered, AnsweredDock, SameDock
  <2>2. CASE r.step = "answered"
    <3> DEFINE c == UpdateCounter(page, r.count)
    <3>1. c \in Page /\ Counted(page, c, r.count)
      BY <1>1, CounterEffect, CounterDock
    <3> HIDE DEF c
    <3>2. SameDock(c, [DisableEdit(c) EXCEPT !.state = "CONFIGURING", !.badge = "idle"])
      BY <3>1 DEF DisableEdit, SameDock, Page
    <3>3. page' = [DisableEdit(c) EXCEPT !.state = "CONFIGURING", !.badge = "idle"]
      BY <1>2, <2>2 DEF StashAnswered, c
    <3> QED
      BY <1>2, <2>2, <3>1, <3>2, <3>3 DEF StashAnswered, AnsweredDock, SameDock, Counted, Unlocked, Locked
  <2> QED
    BY <1>1, <2>1, <2>2
<1>3. CASE CountAnswered(i)
  BY <1>1, <1>3, CounterDock DEF CountAnswered, AnsweredDock, SameDock
<1>4. CASE CommitAnswered(i)
  <2>1. page.dock.count > 0 <=> page.dock.count # 0
    <3>1. page.dock.count \in Nat
      BY <1>1, Bounds
    <3> QED
      BY <3>1
  <2>2. CASE r.step = "answered"
    BY <1>4, <2>2 DEF CommitAnswered, AnsweredDock, SameDock
  <2>3. CASE r.step = "failed"
    BY <1>1, <1>4, <2>1, <2>3, StopDock DEF CommitAnswered, AnsweredDock, NoDock
  <2> QED
    BY <1>1, <2>2, <2>3
<1>5. CASE RepairAnswered(i)
  <2>1. CASE r.step = "answered"
    BY <1>1, <1>5, <2>1 DEF RepairAnswered, AnsweredDock, Page, Dock
  <2>2. CASE r.step = "failed"
    BY <1>1, <1>5, <2>2, DecisionDock DEF RepairAnswered, AnsweredDock
  <2> QED
    BY <1>1, <2>1, <2>2
<1>6. CASE RollbackAnswered(i)
  BY <1>1, <1>6 DEF RollbackAnswered, AnsweredDock, SameDock
<1>7. CASE DiscardAnswered(i)
  <2>1. CASE r.step = "answered"
    <3>1. RestoreDiscarded(page, r.ops) \in Page
      BY <1>1, RestoreEffect
    <3>2. page' = HideDock(RestoreDiscarded(page, r.ops))
      BY <1>7, <2>1 DEF DiscardAnswered, UpdateCounter
    <3> QED
      BY <1>7, <2>1, <3>1, <3>2, StopDock DEF DiscardAnswered, AnsweredDock
  <2>2. CASE r.step = "failed"
    BY <1>7, <2>2 DEF DiscardAnswered, AnsweredDock, SameDock
  <2> QED
    BY <1>1, <2>1, <2>2
<1> QED
  BY <1>2, <1>3, <1>4, <1>5, <1>6, <1>7 DEF Answered

\* The editor's operators leave the dock alone.
LEMMA EditorDock ==
  ASSUME NEW p \in Page
  PROVE  /\ SameDock(p, CancelEditing(p)) /\ SameDock(p, ExitToPicking(p)) /\ SameDock(p, HideBar(p))
         /\ SameDock(p, DisableEdit(RestoreDrafts(p))) /\ SameDock(p, EnableEdit(p))
<1>1. \A q \in Page : SameDock(q, RestoreDrafts(q)) /\ SameDock(q, DisableEdit(q)) /\ RestoreDrafts(q) \in Page
  BY EditorTypes DEF RestoreDrafts, DisableEdit, SameDock, Page
<1>2. SameDock(p, HideBar(p)) /\ SameDock(p, DisableEdit(RestoreDrafts(p)))
  BY <1>1 DEF HideBar, SameDock
<1>3. \A q \in Page : /\ SameDock(q, [q EXCEPT !.state = "CONFIGURING", !.badge = "idle"])
                      /\ SameDock(q, [q EXCEPT !.state = "PICKING", !.badge = "hidden"])
  BY DEF SameDock, Page
<1>4. HideBar(p) \in Page /\ DisableEdit(RestoreDrafts(p)) \in Page
  BY EditorTypes
<1>5. SameDock(p, EnableEdit(p))
  BY DEF EnableEdit, SameDock, Page
<1> QED
  BY <1>2, <1>3, <1>4, <1>5 DEF CancelEditing, ExitToPicking, SameDock

\* A request of some kind goes out, in a slot that was free.
Asked(kind) ==
  \E i \in Slots :
    /\ requests[i].kind = "free" /\ requests'[i].kind = kind /\ requests'[i].step = "sent"
    /\ \A j \in Slots \ {i} : requests'[j] = requests[j]

LEMMA AskedOne ==
  ASSUME TypeOK, NEW ops \in Seq(Op),
         NEW kind \in {"stash", "count", "commit", "repair", "rollback", "discard"}, Sends(kind, ops)
  PROVE  Asked(kind)
<1>1. PICK i \in Slots : /\ requests[i].kind = "free" /\ requests'[i] = Sent(kind, ops)
                         /\ \A j \in Slots \ {i} : requests'[j] = requests[j]
  BY SendsEffect DEF TypeOK
<1>2. requests'[i].kind = kind /\ requests'[i].step = "sent"
  BY <1>1 DEF Sent
<1> QED
  BY <1>1, <1>2 DEF Asked

\* The user in the page: the dock stays, and a save is all that goes out.
LEMMA UserEditDock ==
  ASSUME TypeOK,
         \/ \E e \in Elements : Pick(e)
         \/ \E l \in Leaves : EscapeLeaf(l) \/ \E t \in Text : Type(l, t)
         \/ ExitConfigure \/ EnterEditing \/ Cancel \/ ClickOutside \/ Go \/ SessionEnds \/ Save
  PROVE  /\ SameDock(page, page') /\ UNCHANGED helper
         /\ \/ UNCHANGED requests
            \/ Asked("stash") /\ Unless("overlap", UserWaits) /\ ~page.inFlight
<1>1. page \in Page /\ UNCHANGED helper
  BY UserEditType DEF TypeOK
<1>2. CASE \/ \E e \in Elements : Pick(e)
           \/ \E l \in Leaves : EscapeLeaf(l) \/ \E t \in Text : Type(l, t)
           \/ ExitConfigure \/ Cancel \/ Go
  BY <1>1, <1>2, EditorDock DEF Pick, EscapeLeaf, Type, ExitConfigure, Cancel, Go, SameDock, Page
<1>3. CASE EnterEditing
  <2> DEFINE p == [page EXCEPT !.state = "EDITING"]
  <2>1. p \in Page /\ SameDock(page, p)
    BY <1>1 DEF Page, SameDock
  <2> HIDE DEF p
  <2>2. HideBar(p) \in Page /\ EnableEdit(HideBar(p)) \in Page /\ SameDock(p, HideBar(p))
    BY <2>1, EditorTypes, EditorDock
  <2>3. SameDock(HideBar(p), EnableEdit(HideBar(p)))
    BY <2>2, EditorDock
  <2>4. page' = [EnableEdit(HideBar(p)) EXCEPT !.badge = "editing"] /\ UNCHANGED requests
    BY <1>3 DEF EnterEditing, p
  <2>5. SameDock(EnableEdit(HideBar(p)), page')
    BY <2>2, <2>4 DEF SameDock, Page
  <2> QED
    BY <1>1, <2>1, <2>2, <2>3, <2>4, <2>5 DEF SameDock
<1>4. CASE ClickOutside \/ SessionEnds
  <2> DEFINE d == DisableEdit(RestoreDrafts(page))
             h == HideBar(page)
  <2>1. d \in Page /\ h \in Page /\ SameDock(page, d) /\ SameDock(page, h)
    BY <1>1, EditorTypes, EditorDock
  <2>2. /\ \/ page' = [d EXCEPT !.state = "PICKING", !.badge = "hidden"]
           \/ page' = [h EXCEPT !.state = "PICKING", !.selected = {}, !.badge = "hidden"]
        /\ UNCHANGED requests
    BY <1>4 DEF ClickOutside, SessionEnds
  <2> HIDE DEF d, h
  <2> QED
    BY <1>1, <2>1, <2>2 DEF SameDock, Page
<1>5. CASE Save
  <2> DEFINE edits == {l \in Leaves : Edited(l)}
             ops   == SetToSeq({OpOf(l) : l \in edits})
  <2>1. CASE edits = {}
    BY <1>1, <1>5, <2>1, EditorDock DEF Save
  <2>2. CASE edits # {}
    <3>1. Asks("stash", ops) /\ UNCHANGED page /\ Unless("overlap", UserWaits) /\ ~page.inFlight
      BY <1>5, <2>2 DEF Save
    <3>2. ops \in Seq(Op)
      BY <1>1, EditsSent
    <3> HIDE DEF ops
    <3>3. Asked("stash")
      BY <3>1, <3>2, AskedOne DEF Asks
    <3> QED
      BY <1>1, <3>1, <3>3 DEF SameDock
  <2> QED
    BY <2>1, <2>2
<1> QED
  BY <1>2, <1>3, <1>4, <1>5

\* The user at the dock.
LEMMA UserDockDock ==
  ASSUME TypeOK
  PROVE  /\ Apply => Asked("commit") /\ Locked(page', page.dock.count)
         /\ KeepFixing => Asked("repair") /\ Locked(page', page.dock.count)
         /\ DiscardEdits => Asked("discard") /\ page' = page
         /\ Rollback => Asked("rollback") /\ page' = page
<1>1. page \in Page /\ page.dock.count \in Counts /\ page.stored.total \in Counts /\ <<>> \in Seq(Op)
  BY DEF TypeOK, Page, Dock, Stored
<1>2. ASSUME Apply PROVE Asked("commit") /\ Locked(page', page.dock.count)
  <2> DEFINE r == ResetProgress(page, page.dock.count)
  <2>1. r \in Page /\ r.dock = page.dock
    BY <1>1, ResetEffect
  <2>2. page' = StartLoading(r, page.dock.count) /\ Sends("commit", <<>>)
    BY <1>2 DEF Apply, Asks
  <2> HIDE DEF r
  <2> QED
    BY <1>1, <2>1, <2>2, StartDock, AskedOne
<1>3. ASSUME KeepFixing PROVE Asked("repair") /\ Locked(page', page.dock.count)
  <2>1. page' = ShowRepair(page) /\ Sends("repair", <<>>) /\ page.dock.count + page.stored.total > 0
    BY <1>3 DEF KeepFixing, Asks
  <2>2. ~(page.dock.count = 0 /\ page.stored.total = 0)
    BY <1>1, <2>1, Bounds
  <2> QED
    BY <1>1, <2>1, <2>2, RepairDock, AskedOne
<1>4. DiscardEdits => Asked("discard") /\ page' = page
  BY <1>1, AskedOne DEF DiscardEdits, Asks
<1>5. Rollback => Asked("rollback") /\ page' = page
  BY <1>1, AskedOne DEF Rollback, Asks
<1> QED
  BY <1>2, <1>3, <1>4, <1>5

-----------------------------------------------------------------------------
(* The stream. *)

LEMMA Appended ==
  ASSUME TypeOK, NEW type, NEW count, Tells(type, count)
  PROVE  /\ Len(events) \in Nat /\ Len(events') = Len(events) + 1 /\ events' # <<>>
         /\ events'[Len(events) + 1].type = type /\ events'[Len(events) + 1].count = count
         /\ \A k \in 1..Len(events) : events'[k] = events[k]
<1>1. events \in Seq(Event) /\ events' = Append(events, [type |-> type, count |-> count])
  BY DEF TypeOK, Tells
<1> QED
  BY <1>1

LEMMA Delivered ==
  ASSUME TypeOK, Hear
  PROVE  /\ Len(events) \in Nat \ {0} /\ Len(events') = Len(events) - 1
         /\ Head(events) = events[1] /\ events[1] \in Event
         /\ \A k \in 1..Len(events') : events'[k] = events[k + 1] /\ k + 1 \in 1..Len(events)
         /\ ShownDock(page, page', events[1])
         /\ IF events[1].type \in {"rolledBack", "failed", "discarded"} THEN Asked("count")
            ELSE UNCHANGED requests
         /\ UNCHANGED <<staged, job, faults>>
<1>1. /\ events \in Seq(Event) /\ events # <<>> /\ events' = Tail(events) /\ page \in Page
      /\ <<>> \in Seq(Op)
  BY DEF TypeOK, Hear
<1>2. /\ Len(events) \in Nat \ {0} /\ Len(events') = Len(events) - 1
      /\ Head(events) = events[1] /\ events[1] \in Event
      /\ \A k \in 1..Len(events') : events'[k] = events[k + 1] /\ k + 1 \in 1..Len(events)
  BY <1>1
<1>3. ShownDock(page, page', events[1])
  BY <1>1, <1>2, ShowsDock DEF Hear
<1>4. IF events[1].type \in {"rolledBack", "failed", "discarded"} THEN Asked("count")
      ELSE UNCHANGED requests
  BY <1>1, <1>2, AskedOne DEF Hear
<1> QED
  BY <1>2, <1>3, <1>4 DEF Hear

-----------------------------------------------------------------------------
(* How far an apply is, for the page and for the helper. *)

Steady == ~Met({"lost", "reload", "unanswered", "tab", "overlap"})

Alone(i)   == \A j \in Slots \ {i} : requests[j].kind = "free"
Unheard(i) == requests[i].step \in {"sent", "failed"}

\* An answer that changes nothing any more.
Late(i) ==
  \/ requests[i].kind = "free"
  \/ requests[i].kind \in {"commit", "repair"} /\ requests[i].step = "answered"

RunEvents == {"started", "chunk", "repair", "repairing"}

\* The stream has reports of the run, and then one of another type.
EndsWith(types) ==
  /\ events # <<>> /\ events[Len(events)].type \in types
  /\ \A k \in 1..(Len(events) - 1) : events[k].type \in RunEvents

\* The apply runs, or the page has yet to hear that it does not.
UnderWay ==
  /\ page.inFlight /\ ~page.dock.asks
  /\ \E i \in Slots : Alone(i) /\ Late(i)
  /\ \/ Running /\ \A k \in 1..Len(events) : events[k].type \in RunEvents
     \/ job.step = "decision" /\ EndsWith({"decision"})
     \/ job.step = "idle" /\ EndsWith({"done", "failed"})

\* After a rollback, or an edit saved before a decision, the lock may stay.
Loose == Met({"rollback", "deciding"})

\* The page is locked for an apply, or a repair, that the helper has not begun.
Requested ==
  /\ page.inFlight /\ ~page.dock.asks /\ events = <<>> /\ ~Running
  /\ \E i \in Slots :
       /\ Alone(i) /\ Unheard(i)
       /\ \/ requests[i].kind = "commit" /\ (job.step = "idle" \/ Loose)
          \/ requests[i].kind = "repair" /\ (job.step = "decision" \/ Loose)

\* The user is asked.
Deciding ==
  /\ ~page.inFlight /\ ~page.dock.pill
  /\ job.step = "decision" /\ events = <<>>
  /\ \E i \in Slots :
       /\ Alone(i)
       /\ Late(i) \/ (requests[i].kind \in {"stash", "discard"} /\ Unheard(i))

\* The page may be locked, but no apply runs or was asked for.
Beyond ==
  /\ Loose /\ ~Running
  /\ \A k \in 1..Len(events) : events[k].type \in {"stashed", "discarded", "rolledBack"}
  /\ \A i \in Slots : Late(i) \/ requests[i].kind \in {"count", "stash", "discard", "rollback"}

\* There is no apply.
AtRest ==
  /\ ~page.inFlight /\ ~page.dock.asks /\ page.stored.phase = "none" /\ job.step = "idle"
  /\ \A k \in 1..Len(events) : events[k].type \in {"stashed", "discarded"}
  /\ \A i \in Slots : Late(i) \/ requests[i].kind \in {"count", "stash", "discard"}

Stage == UnderWay \/ Requested \/ Deciding \/ Beyond \/ AtRest

LockInv == Steady => NoDeaf /\ Stage

LEMMA SteadyStays ==
  ASSUME [Next]_vars, Steady'
  PROVE  /\ Steady /\ (Loose => Loose')
         /\ \A kind \in {"lost", "reload", "unanswered", "tab", "overlap"} :
              /\ ~Strikes(kind)
              /\ \A s \in BOOLEAN : Unless(kind, s) => ~s
<1>1. faults \subseteq faults'
  BY FaultsStay
<1> QED
  BY <1>1 DEF Steady, Loose, Met, Strikes, Unless

LEMMA StageStays ==
  ASSUME NoDeaf, Stage, SameDock(page, page'), UNCHANGED <<requests, events, job>>, Loose => Loose'
  PROVE  NoDeaf' /\ Stage'
BY DEF NoDeaf, Stage, SameDock, UnderWay, Requested, Deciding, Beyond, AtRest, Alone, Unheard,
   Late, Running, EndsWith

\* Nobody asks anything while something is to be heard.
LEMMA NothingPends ==
  ASSUME TypeOK, NoDeaf, ~UserWaits
  PROVE  events = <<>> /\ \A i \in Slots : requests[i].kind = "free"
<1>1. \A i \in Slots : requests[i] \in Request
  BY DEF TypeOK
<1> QED
  BY <1>1 DEF UserWaits, Waits, NoDeaf, Request

\* What the user sends is alone.
LEMMA AskedAlone ==
  ASSUME \A i \in Slots : requests[i].kind = "free", NEW kind, Asked(kind), NoDeaf
  PROVE  /\ NoDeaf'
         /\ \E i \in Slots : Alone(i)' /\ requests'[i].kind = kind /\ requests'[i].step = "sent"
<1>1. PICK i \in Slots : /\ requests'[i].kind = kind /\ requests'[i].step = "sent"
                         /\ \A j \in Slots \ {i} : requests'[j] = requests[j]
  BY DEF Asked
<1>2. \A j \in Slots : j = i \/ requests'[j] = requests[j]
  BY <1>1
<1> QED
  BY <1>1, <1>2 DEF NoDeaf, Alone

LEMMA UserEditLock ==
  ASSUME TypeInv, NoDeaf, Stage, [Next]_vars, Steady',
         \/ \E e \in Elements : Pick(e)
         \/ \E l \in Leaves : EscapeLeaf(l) \/ \E t \in Text : Type(l, t)
         \/ ExitConfigure \/ EnterEditing \/ Cancel \/ ClickOutside \/ Go \/ SessionEnds \/ Save
  PROVE  NoDeaf' /\ Stage'
<1>1. /\ TypeOK /\ SameDock(page, page') /\ UNCHANGED <<events, job>>
      /\ \/ UNCHANGED requests
         \/ Asked("stash") /\ Unless("overlap", UserWaits) /\ ~page.inFlight
  BY UserEditDock DEF TypeInv, helper
<1>2. CASE UNCHANGED requests
  BY <1>1, <1>2, StageStays, SteadyStays
<1>3. CASE Asked("stash") /\ Unless("overlap", UserWaits) /\ ~page.inFlight
  <2>1. UserWaits \in BOOLEAN
    BY DEF UserWaits, Waits
  <2>2. events = <<>> /\ \A i \in Slots : requests[i].kind = "free"
    BY <1>1, <1>3, <2>1, NothingPends, SteadyStays
  <2>3. PICK i \in Slots : Alone(i)' /\ requests'[i].kind = "stash" /\ requests'[i].step = "sent"
    BY <1>3, <2>2, AskedAlone
  <2>4. NoDeaf'
    BY <1>3, <2>2, AskedAlone
  <2>5. Deciding \/ AtRest \/ Beyond
    BY <1>3, <2>2 DEF Stage, UnderWay, Requested
  <2>6. \A j \in Slots : j = i \/ requests'[j].kind = "free"
    BY <2>3 DEF Alone
  <2>7. Deciding => Deciding'
    BY <1>1, <2>3 DEF Deciding, SameDock, Unheard
  <2>8. AtRest => AtRest'
    BY <1>1, <2>3, <2>6 DEF AtRest, SameDock, Late
  <2>9. Beyond => Beyond'
    BY <1>1, <2>3, <2>6, SteadyStays DEF Beyond, Late, Running
  <2> QED
    BY <2>4, <2>5, <2>7, <2>8, <2>9 DEF Stage
<1> QED
  BY <1>1, <1>2, <1>3

LEMMA UserDockLock ==
  ASSUME TypeInv, NoDeaf, Stage, [Next]_vars, Steady', Apply \/ DiscardEdits \/ KeepFixing \/ Rollback
  PROVE  NoDeaf' /\ Stage'
<1>1. TypeOK /\ UNCHANGED <<events, job>> /\ (page.state = "EDITING") \in BOOLEAN
  BY UserDockType DEF TypeInv, helper
<1>2. ~UserWaits
  BY <1>1, SteadyStays DEF Apply, DiscardEdits, KeepFixing, Rollback, AtDock
<1>3. events = <<>> /\ \A i \in Slots : requests[i].kind = "free"
  BY <1>1, <1>2, NothingPends
<1>4. ~page.inFlight \/ page.dock.asks => Deciding \/ AtRest \/ Beyond
  BY <1>3 DEF Stage, UnderWay, Requested
<1>10. Loose => Loose'
  BY SteadyStays
<1>5. CASE Apply
  <2>1. AtRest \/ Beyond
    BY <1>4, <1>5 DEF Apply, Deciding
  <2>2. Asked("commit") /\ Locked(page', page.dock.count)
    BY <1>1, <1>5, UserDockDock
  <2>3. NoDeaf' /\ \E i \in Slots : Alone(i)' /\ requests'[i].kind = "commit" /\ requests'[i].step = "sent"
    BY <1>3, <2>2, AskedAlone
  <2>4. Requested'
    BY <1>1, <1>3, <1>10, <2>1, <2>2, <2>3 DEF Requested, AtRest, Beyond, Locked, Unheard, Running
  <2> QED
    BY <2>3, <2>4 DEF Stage
<1>6. CASE KeepFixing
  <2>1. Deciding \/ Beyond
    BY <1>4, <1>6 DEF KeepFixing, AtRest
  <2>2. Asked("repair") /\ Locked(page', page.dock.count)
    BY <1>1, <1>6, UserDockDock
  <2>3. NoDeaf' /\ \E i \in Slots : Alone(i)' /\ requests'[i].kind = "repair" /\ requests'[i].step = "sent"
    BY <1>3, <2>2, AskedAlone
  <2>4. Requested'
    BY <1>1, <1>3, <1>10, <2>1, <2>2, <2>3 DEF Requested, Deciding, Beyond, Locked, Unheard, Running
  <2> QED
    BY <2>3, <2>4 DEF Stage
<1>7. CASE DiscardEdits
  <2>1. Asked("discard") /\ page' = page /\ (Deciding \/ AtRest \/ Beyond)
    BY <1>1, <1>4, <1>7, UserDockDock DEF DiscardEdits
  <2>2. NoDeaf'
    BY <1>3, <2>1, AskedAlone
  <2>3. PICK i \in Slots : Alone(i)' /\ requests'[i].kind = "discard" /\ requests'[i].step = "sent"
    BY <1>3, <2>1, AskedAlone
  <2>4. \A j \in Slots : j = i \/ requests'[j].kind = "free"
    BY <2>3 DEF Alone
  <2>5. Deciding => Deciding'
    BY <1>1, <2>1, <2>3 DEF Deciding, Unheard
  <2>6. AtRest => AtRest'
    BY <1>1, <2>1, <2>3, <2>4 DEF AtRest, Late
  <2>7. Beyond => Beyond'
    BY <1>1, <1>10, <2>3, <2>4 DEF Beyond, Late, Running
  <2> QED
    BY <2>1, <2>2, <2>5, <2>6, <2>7 DEF Stage
<1>8. CASE Rollback
  <2>1. Asked("rollback") /\ page' = page /\ (Deciding \/ Beyond) /\ Loose'
    BY <1>1, <1>4, <1>8, UserDockDock DEF Rollback, AtRest, Loose, Met
  <2>2. NoDeaf'
    BY <1>3, <2>1, AskedAlone
  <2>3. PICK i \in Slots : Alone(i)' /\ requests'[i].kind = "rollback" /\ requests'[i].step = "sent"
    BY <1>3, <2>1, AskedAlone
  <2>4. \A j \in Slots : j = i \/ requests'[j].kind = "free"
    BY <2>3 DEF Alone
  <2>5. Len(events') = 0 /\ ~Running'
    BY <1>1, <1>3, <2>1 DEF Deciding, Beyond, Running
  <2>6. Beyond'
    BY <2>1, <2>3, <2>4, <2>5 DEF Beyond, Late
  <2> QED
    BY <2>2, <2>6 DEF Stage
<1> QED
  BY <1>5, <1>6, <1>7, <1>8

\* A request changes its step, and no other changes.
Moved(i, step) ==
  /\ requests'[i].kind = requests[i].kind /\ requests'[i].step = step
  /\ \A j \in Slots \ {i} : requests'[j] = requests[j]

LEMMA MovedKeeps ==
  ASSUME NEW i \in Slots, NEW step \in {"answered", "failed"}, Moved(i, step), NoDeaf
  PROVE  /\ NoDeaf' /\ (Alone(i) => Alone(i)')
         /\ \A j \in Slots : j = i \/ requests'[j] = requests[j]
BY DEF Moved, NoDeaf, Alone

LEMMA TakenMoves ==
  ASSUME TypeOK, NoDeaf, NEW i \in Slots, NEW kind, Taken(i, kind)
  PROVE  /\ requests[i].kind = kind /\ requests[i].step = "sent"
         /\ \A kept : Answers(i, kept) => Moved(i, "answered") /\ requests'[i].count = Len(kept)
         /\ Refuses(i) => Moved(i, "failed")
<1>1. requests \in [Slots -> Request] /\ requests[i].step = "sent" /\ requests[i].kind = kind
  BY DEF TypeOK, Taken, NoDeaf
<1>2. requests[i] \in Request
  BY <1>1
<1>3. ASSUME NEW kept, Answers(i, kept)
      PROVE  Moved(i, "answered") /\ requests'[i].count = Len(kept)
  <2>1. /\ requests'[i] = [requests[i] EXCEPT !.step = "answered", !.count = Len(kept)]
        /\ \A j \in Slots \ {i} : requests'[j] = requests[j]
    BY <1>1, <1>3 DEF Answers
  <2> QED
    BY <1>2, <2>1 DEF Moved, Request
<1>4. ASSUME Refuses(i) PROVE Moved(i, "failed")
  <2>1. /\ requests'[i] = [requests[i] EXCEPT !.step = "failed"]
        /\ \A j \in Slots \ {i} : requests'[j] = requests[j]
    BY <1>1, <1>4 DEF Refuses
  <2> QED
    BY <1>2, <2>1 DEF Moved, Request
<1> QED
  BY <1>1, <1>3, <1>4

\* Who is alone is all there is.
LEMMA OnlySent ==
  ASSUME NEW i \in Slots, Alone(i), NEW j \in Slots, requests[j].kind # "free"
  PROVE  i = j
BY DEF Alone

LEMMA TakeLock ==
  ASSUME TypeInv, NoDeaf, Stage, [Next]_vars, Steady', NEW i \in Slots, Take(i)
  PROVE  NoDeaf' /\ Stage'
<1>1. TypeOK /\ page' = page /\ requests \in [Slots -> Request] /\ events \in Seq(Event)
  BY DEF TypeInv, TypeOK, Take
<1>10. Loose => Loose'
  BY SteadyStays
<1>2. CASE TakeStash(i)
  <2>1. Taken(i, "stash") /\ Tells("stashed", Len(staged \o requests[i].ops)) /\ UNCHANGED job
        /\ Answers(i, staged \o requests[i].ops)
    BY <1>2 DEF TakeStash
  <2>2. requests[i].kind = "stash" /\ requests[i].step = "sent" /\ Moved(i, "answered")
    BY <1>1, <2>1, TakenMoves
  <2>3. Deciding \/ AtRest \/ Beyond
    BY <2>2, OnlySent DEF Stage, UnderWay, Requested, Late, Alone
  <2>4. \A k \in 1..Len(events') : k \in 1..Len(events) \/ k = Len(events) + 1
    BY <1>1, <2>1, Appended
  <2>5. AtRest => AtRest'
    BY <1>1, <2>1, <2>2, <2>4, Appended, MovedKeeps DEF AtRest, Late, Moved
  <2>6. Beyond => Beyond'
    BY <1>1, <1>10, <2>1, <2>2, <2>4, Appended, MovedKeeps DEF Beyond, Late, Moved, Running
  <2>7. CASE Deciding
    <3>1. Loose' /\ ~Running'
      BY <1>2, <2>1, <2>7 DEF Deciding, TakeStash, Loose, Met, Running
    <3>2. \A k \in 1..Len(events') : events'[k].type = "stashed"
      BY <1>1, <2>1, <2>4, <2>7, Appended DEF Deciding
    <3>3. \A j \in Slots : j = i \/ requests'[j].kind = "free"
      BY <1>1, <2>2, <2>7, OnlySent, MovedKeeps DEF Deciding, Alone
    <3>4. Beyond'
      BY <2>2, <3>1, <3>2, <3>3 DEF Beyond, Late, Moved
    <3> QED
      BY <2>2, <3>4, MovedKeeps DEF Stage
  <2> QED
    BY <2>2, <2>3, <2>5, <2>6, <2>7, MovedKeeps DEF Stage
<1>3. CASE TakeCount(i)
  <2>1. requests[i].kind = "count" /\ Moved(i, "answered") /\ UNCHANGED <<events, job>>
    BY <1>1, <1>3, TakenMoves DEF TakeCount, helper
  <2>2. AtRest \/ Beyond
    BY <2>1 DEF Stage, UnderWay, Requested, Deciding, Late, Alone
  <2>3. AtRest => AtRest'
    BY <1>1, <2>1, MovedKeeps DEF AtRest, Late, Moved
  <2>4. Beyond => Beyond'
    BY <1>1, <1>10, <2>1, MovedKeeps DEF Beyond, Late, Moved, Running
  <2> QED
    BY <2>1, <2>2, <2>3, <2>4, MovedKeeps DEF Stage
<1>4. CASE TakeCommit(i)
  <2>1. requests[i].kind = "commit" /\ requests[i].step = "sent"
    BY <1>1, <1>4, TakenMoves DEF TakeCommit
  <2>2. Requested
    BY <2>1 DEF Stage, UnderWay, Deciding, Beyond, AtRest, Late, Alone
  <2>3. /\ page.inFlight /\ ~page.dock.asks /\ events = <<>> /\ Len(events) = 0 /\ Alone(i)
        /\ ~Running /\ (job.step = "idle" \/ Loose)
    BY <2>1, <2>2, OnlySent DEF Requested
  <2>4. CASE job.step = "idle" /\ staged # <<>>
    <3>1. Answers(i, staged) /\ Start
      BY <1>4, <2>4 DEF TakeCommit
    <3>2. Moved(i, "answered") /\ Tells("started", Len(staged)) /\ job'.step = "applying"
      BY <1>1, <1>4, <3>1, TakenMoves DEF TakeCommit, Start
    <3>3. \A k \in 1..Len(events') : events'[k].type = "started"
      BY <1>1, <2>3, <3>2, Appended
    <3>4. UnderWay'
      BY <1>1, <2>1, <2>3, <3>2, <3>3, MovedKeeps DEF UnderWay, Late, Moved, Running, RunEvents
    <3> QED
      BY <3>2, <3>4, MovedKeeps DEF Stage
  <2>5. CASE ~(job.step = "idle" /\ staged # <<>>)
    <3>1. Refuses(i) /\ UNCHANGED <<events, job>>
      BY <1>4, <2>5 DEF TakeCommit, helper
    <3>2. Moved(i, "failed")
      BY <1>1, <1>4, <3>1, TakenMoves DEF TakeCommit
    <3>3. Requested'
      BY <1>1, <1>10, <2>1, <2>3, <3>1, <3>2, MovedKeeps DEF Requested, Moved, Unheard, Running
    <3> QED
      BY <3>2, <3>3, MovedKeeps DEF Stage
  <2> QED
    BY <2>4, <2>5
<1>5. CASE TakeRepair(i)
  <2>1. requests[i].kind = "repair" /\ requests[i].step = "sent"
    BY <1>1, <1>5, TakenMoves DEF TakeRepair
  <2>2. Requested
    BY <2>1 DEF Stage, UnderWay, Deciding, Beyond, AtRest, Late, Alone
  <2>3. /\ page.inFlight /\ ~page.dock.asks /\ events = <<>> /\ Len(events) = 0 /\ Alone(i)
        /\ ~Running /\ (job.step = "decision" \/ Loose)
    BY <2>1, <2>2, OnlySent DEF Requested
  <2>4. CASE job.step = "decision"
    <3>1. Answers(i, staged) /\ Tells("repairing", Len(staged)) /\ job'.step = "repairing"
      BY <1>1, <1>5, <2>4 DEF TakeRepair, TypeOK, Job
    <3>2. Moved(i, "answered")
      BY <1>1, <1>5, <3>1, TakenMoves DEF TakeRepair
    <3>3. \A k \in 1..Len(events') : events'[k].type = "repairing"
      BY <1>1, <2>3, <3>1, Appended
    <3>4. UnderWay'
      BY <1>1, <2>1, <2>3, <3>1, <3>2, <3>3, MovedKeeps
      DEF UnderWay, Late, Moved, Running, RunEvents
    <3> QED
      BY <3>2, <3>4, MovedKeeps DEF Stage
  <2>5. CASE job.step # "decision"
    <3>1. Refuses(i) /\ UNCHANGED <<events, job>>
      BY <1>5, <2>5 DEF TakeRepair, helper
    <3>2. Moved(i, "failed")
      BY <1>1, <1>5, <3>1, TakenMoves DEF TakeRepair
    <3>3. Requested'
      BY <1>1, <1>10, <2>1, <2>3, <2>5, <3>1, <3>2, MovedKeeps DEF Requested, Moved, Unheard, Running
    <3> QED
      BY <3>2, <3>3, MovedKeeps DEF Stage
  <2> QED
    BY <2>4, <2>5
<1>6. CASE TakeRollback(i)
  <2>1. requests[i].kind = "rollback" /\ requests[i].step = "sent"
    BY <1>1, <1>6, TakenMoves DEF TakeRollback
  <2>2. Beyond
    BY <2>1 DEF Stage, UnderWay, Requested, Deciding, AtRest, Late, Alone
  <2>3. CASE job.step = "decision"
    <3>1. Answers(i, staged) /\ Tells("rolledBack", 0) /\ job'.step = "idle"
      BY <1>1, <1>6, <2>3 DEF TakeRollback, TypeOK, Job
    <3>2. Moved(i, "answered")
      BY <1>1, <1>6, <3>1, TakenMoves DEF TakeRollback
    <3>3. \A k \in 1..Len(events') : k \in 1..Len(events) \/ k = Len(events) + 1
      BY <1>1, <3>1, Appended
    <3>4. Beyond'
      BY <1>1, <1>10, <2>1, <2>2, <3>1, <3>2, <3>3, Appended, MovedKeeps
      DEF Beyond, Late, Moved, Running
    <3> QED
      BY <3>2, <3>4, MovedKeeps DEF Stage
  <2>4. CASE job.step # "decision"
    <3>1. Refuses(i) /\ UNCHANGED <<events, job>>
      BY <1>6, <2>4 DEF TakeRollback, helper
    <3>2. Moved(i, "failed")
      BY <1>1, <1>6, <3>1, TakenMoves DEF TakeRollback
    <3>3. Beyond'
      BY <1>1, <1>10, <2>1, <2>2, <3>1, <3>2, MovedKeeps DEF Beyond, Late, Moved, Running
    <3> QED
      BY <3>2, <3>3, MovedKeeps DEF Stage
  <2> QED
    BY <2>3, <2>4
<1>7. CASE TakeDiscard(i)
  <2>1. requests[i].kind = "discard" /\ requests[i].step = "sent"
    BY <1>1, <1>7, TakenMoves DEF TakeDiscard
  <2>2. Deciding \/ AtRest \/ Beyond
    BY <2>1 DEF Stage, UnderWay, Requested, Late, Alone
  <2>3. CASE job.step # "idle"
    <3>1. Refuses(i) /\ UNCHANGED <<events, job>>
      BY <1>7, <2>3 DEF TakeDiscard, helper
    <3>2. Moved(i, "failed")
      BY <1>1, <1>7, <3>1, TakenMoves DEF TakeDiscard
    <3>3. Deciding => Deciding'
      BY <1>1, <2>1, <3>1, <3>2, OnlySent, MovedKeeps DEF Deciding, Moved, Unheard
    <3>4. Beyond => Beyond'
      BY <1>1, <1>10, <2>1, <3>1, <3>2, MovedKeeps DEF Beyond, Late, Moved, Running
    <3> QED
      BY <2>2, <2>3, <3>2, <3>3, <3>4, MovedKeeps DEF Stage, AtRest
  <2>4. CASE job.step = "idle"
    <3>1. Tells("discarded", 0) /\ UNCHANGED job
          /\ requests' = [requests EXCEPT ![i] = [@ EXCEPT !.step = "answered", !.ops = staged]]
      BY <1>7, <2>4 DEF TakeDiscard
    <3>2. Moved(i, "answered")
      BY <1>1, <3>1 DEF Moved, Request
    <3>3. \A k \in 1..Len(events') : k \in 1..Len(events) \/ k = Len(events) + 1
      BY <1>1, <3>1, Appended
    <3>4. AtRest => AtRest'
      BY <1>1, <2>1, <3>1, <3>2, <3>3, Appended, MovedKeeps DEF AtRest, Late, Moved
    <3>5. Beyond => Beyond'
      BY <1>1, <1>10, <2>1, <3>1, <3>2, <3>3, Appended, MovedKeeps DEF Beyond, Late, Moved, Running
    <3> QED
      BY <2>2, <2>4, <3>2, <3>4, <3>5, MovedKeeps DEF Stage, Deciding
  <2> QED
    BY <2>3, <2>4
<1> QED
  BY <1>2, <1>3, <1>4, <1>5, <1>6, <1>7 DEF Take

LEMMA LoseLock ==
  ASSUME TypeInv, NoDeaf, Stage, [Next]_vars, Steady', NEW i \in Slots, Lose(i)
  PROVE  NoDeaf' /\ Stage'
<1>1. /\ requests[i].kind # "free" /\ requests[i].step = "sent"
      /\ UNCHANGED <<page, events, job>>
  BY SteadyStays DEF Lose, helper
<1>2. Moved(i, "failed")
  BY DEF Lose, Moved, TypeInv, TypeOK, Request
<1>3. NoDeaf' /\ (Alone(i) => Alone(i)') /\ \A j \in Slots : j = i \/ requests'[j] = requests[j]
  BY <1>2, MovedKeeps
<1>4. UnderWay => FALSE
  BY <1>1 DEF UnderWay, Late, Alone
<1>5. Requested => Requested'
  BY <1>1, <1>2, <1>3, OnlySent, SteadyStays DEF Requested, Unheard, Moved, Running
<1>6. Deciding => Deciding'
  BY <1>1, <1>2, <1>3, OnlySent DEF Deciding, Unheard, Moved, Late
<1>7. Beyond => Beyond'
  BY <1>1, <1>2, <1>3, SteadyStays DEF Beyond, Late, Moved, Running
<1>8. AtRest => AtRest'
  BY <1>1, <1>2, <1>3 DEF AtRest, Late, Moved
<1> QED
  BY <1>3, <1>4, <1>5, <1>6, <1>7, <1>8 DEF Stage

\* The slot of what was heard is free again.
Cleared(i) ==
  /\ requests'[i].kind = "free" /\ requests'[i].step = "sent"
  /\ \A j \in Slots \ {i} : requests'[j] = requests[j]

LEMMA AnsweredClears ==
  ASSUME TypeOK, NEW i \in Slots, Answered(i)
  PROVE  /\ Cleared(i) /\ UNCHANGED <<events, staged, job>>
         /\ requests[i].kind # "free" /\ requests[i].step \in {"answered", "failed"}
<1>1. Done(i) /\ UNCHANGED helper /\ requests[i].kind # "free" /\ requests[i].step \in {"answered", "failed"}
  BY DEF Answered, StashAnswered, CountAnswered, CommitAnswered, RepairAnswered, RollbackAnswered,
     DiscardAnswered
<1> QED
  BY <1>1 DEF Done, Cleared, Free, TypeOK, helper

LEMMA ClearedKeeps ==
  ASSUME NEW i \in Slots, Cleared(i), NoDeaf
  PROVE  /\ NoDeaf' /\ Late(i)' /\ (Alone(i) => \A j \in Slots : Alone(j)')
         /\ \A j \in Slots : j = i \/ requests'[j] = requests[j]
BY DEF Cleared, NoDeaf, Alone, Late

LEMMA AnsweredLock ==
  ASSUME TypeInv, NoDeaf, Stage, [Next]_vars, Steady', NEW i \in Slots, Answered(i)
  PROVE  NoDeaf' /\ Stage'
<1> DEFINE r == requests[i]
<1>1. /\ TypeOK /\ Cleared(i) /\ UNCHANGED <<events, staged, job>> /\ r \in Request
      /\ r.kind # "free" /\ r.step \in {"answered", "failed"}
      /\ AnsweredDock(page, page', r)
  BY AnsweredClears, AnswersDock DEF TypeInv, TypeOK
<1>2. Loose => Loose'
  BY SteadyStays
<1>3. NoDeaf' /\ Late(i)' /\ (Alone(i) => \A j \in Slots : Alone(j)')
      /\ \A j \in Slots : j = i \/ requests'[j] = requests[j]
  BY <1>1, ClearedKeeps
<1>4. CASE UnderWay
  <2>1. Alone(i) /\ r.kind \in {"commit", "repair"} /\ r.step = "answered"
    BY <1>1, <1>4 DEF UnderWay, Late, Alone
  <2>2. page'.inFlight /\ ~page'.dock.asks
    BY <1>1, <1>4, <2>1 DEF AnsweredDock, SameDock, UnderWay
  <2>3. UnderWay'
    BY <1>1, <1>3, <1>4, <2>1, <2>2 DEF UnderWay, Running, EndsWith
  <2> QED
    BY <1>3, <2>3 DEF Stage
<1>5. CASE Requested
  <2>1. /\ Alone(i) /\ r.step = "failed" /\ events = <<>> /\ Len(events) = 0 /\ ~Running
        /\ \/ r.kind = "commit" /\ (job.step = "idle" \/ Loose)
           \/ r.kind = "repair" /\ (job.step = "decision" \/ Loose)
    BY <1>1, <1>5 DEF Requested, Unheard, Alone
  <2>2. \A j \in Slots : Alone(j)' /\ Late(j)'
    BY <1>1, <1>3, <2>1 DEF Alone, Late
  <2>5. CASE Loose
    <3>1. Beyond'
      BY <1>1, <1>2, <2>1, <2>2, <2>5 DEF Beyond, Running
    <3> QED
      BY <1>3, <3>1 DEF Stage
  <2>3. CASE r.kind = "commit" /\ job.step = "idle"
    <3>1. Unlocked(page') /\ ~page'.dock.asks
      BY <1>1, <1>5, <2>1, <2>3 DEF AnsweredDock, Requested
    <3>2. AtRest'
      BY <1>1, <2>1, <2>2, <2>3, <3>1 DEF AtRest, Unlocked
    <3> QED
      BY <1>3, <3>2 DEF Stage
  <2>4. CASE r.kind = "repair" /\ job.step = "decision"
    <3>1. Choice(page, page')
      BY <1>1, <2>1, <2>4 DEF AnsweredDock
    <3>2. Deciding'
      BY <1>1, <2>1, <2>2, <2>4, <3>1 DEF Deciding, Choice
    <3> QED
      BY <1>3, <3>2 DEF Stage
  <2> QED
    BY <2>1, <2>3, <2>4, <2>5
<1>6. CASE Deciding
  <2>1. /\ Alone(i)
        /\ \/ r.kind \in {"commit", "repair"} /\ r.step = "answered"
           \/ r.kind \in {"stash", "discard"} /\ r.step = "failed"
    BY <1>1, <1>6 DEF Deciding, Unheard, Late, Alone
  <2>2. ~page'.inFlight /\ ~page'.dock.pill
    BY <1>1, <1>6, <2>1 DEF AnsweredDock, SameDock, Deciding
  <2>3. Deciding'
    BY <1>1, <1>3, <1>6, <2>1, <2>2 DEF Deciding
  <2> QED
    BY <1>3, <2>3 DEF Stage
<1>7. CASE Beyond
  <2>1. Beyond'
    BY <1>1, <1>2, <1>3, <1>7 DEF Beyond, Late, Running
  <2> QED
    BY <1>3, <2>1 DEF Stage
<1>8. CASE AtRest
  <2>1. \/ r.kind \in {"commit", "repair"} /\ r.step = "answered"
        \/ r.kind \in {"count", "stash", "discard"}
    BY <1>1, <1>8 DEF AtRest, Late
  <2>2. ~page'.inFlight /\ ~page'.dock.asks /\ page'.stored.phase = "none"
    BY <1>1, <1>8, <2>1 DEF AnsweredDock, AtRest, SameDock, Counted, Unlocked, NoDock
  <2>3. \A j \in Slots : Late(j)' \/ requests'[j].kind \in {"count", "stash", "discard"}
    BY <1>3, <1>8 DEF AtRest, Late
  <2>4. AtRest'
    BY <1>1, <1>8, <2>2, <2>3 DEF AtRest
  <2> QED
    BY <1>3, <2>4 DEF Stage
<1> QED
  BY <1>4, <1>5, <1>6, <1>7, <1>8 DEF Stage

\* The agent at work, and what it reports.
LEMMA AgentTells ==
  ASSUME TypeInv, ApplyNext \/ Finish \/ LeaveOut \/ GiveUp \/ NeedsRepair \/ NeedsDecision
  PROVE  /\ UNCHANGED <<page, requests>> /\ Running
         /\ \E type, count :
              /\ Tells(type, count)
              /\ \/ type \in RunEvents /\ Running'
                 \/ type = "decision" /\ job'.step = "decision"
                 \/ type \in {"done", "failed"} /\ job'.step = "idle"
<1>1. job \in Job
  BY DEF TypeInv, TypeOK
<1>2. CASE ApplyNext
  BY <1>1, <1>2 DEF ApplyNext, Running, RunEvents, Job
<1>3. CASE Finish \/ LeaveOut \/ GiveUp
  BY <1>1, <1>3 DEF Finish, LeaveOut, GiveUp, Running, Ended, Job
<1>4. CASE NeedsRepair \/ NeedsDecision
  BY <1>1, <1>4 DEF NeedsRepair, NeedsDecision, Running, RunEvents, Job
<1> QED
  BY <1>2, <1>3, <1>4

LEMMA AgentLock ==
  ASSUME TypeInv, NoDeaf, Stage,
         ApplyNext \/ Finish \/ LeaveOut \/ GiveUp \/ NeedsRepair \/ NeedsDecision
  PROVE  NoDeaf' /\ Stage'
<1>1. UNCHANGED <<page, requests>> /\ Running /\ TypeOK
  BY AgentTells DEF TypeInv
<1>2. PICK type, count : /\ Tells(type, count)
                         /\ \/ type \in RunEvents /\ Running'
                            \/ type = "decision" /\ job'.step = "decision"
                            \/ type \in {"done", "failed"} /\ job'.step = "idle"
  BY AgentTells
<1>3. UnderWay /\ \A k \in 1..Len(events) : events[k].type \in RunEvents
  BY <1>1 DEF Stage, Running, UnderWay, Requested, Deciding, Beyond, AtRest
<1>4. /\ \A k \in 1..(Len(events') - 1) : events'[k].type \in RunEvents
      /\ events' # <<>> /\ events'[Len(events')].type = type
      /\ \A k \in 1..Len(events') : k \in 1..(Len(events') - 1) \/ k = Len(events')
  BY <1>1, <1>2, <1>3, Appended
<1>5. UnderWay'
  <2>1. (\E i \in Slots : Alone(i) /\ Late(i))' /\ page'.inFlight /\ ~page'.dock.asks
    BY <1>1, <1>3 DEF UnderWay, Alone, Late
  <2>2. CASE type \in RunEvents /\ Running'
    BY <1>4, <2>1, <2>2 DEF UnderWay
  <2>3. CASE type = "decision" /\ job'.step = "decision"
    BY <1>4, <2>1, <2>3 DEF UnderWay, EndsWith
  <2>4. CASE type \in {"done", "failed"} /\ job'.step = "idle"
    BY <1>4, <2>1, <2>4 DEF UnderWay, EndsWith
  <2> QED
    BY <1>2, <2>2, <2>3, <2>4
<1> QED
  BY <1>1, <1>5 DEF NoDeaf, Stage

LEMMA HearLock ==
  ASSUME TypeInv, NoDeaf, Stage, [Next]_vars, Steady', Hear
  PROVE  NoDeaf' /\ Stage'
<1> DEFINE e == events[1]
<1>1. /\ Len(events) \in Nat \ {0} /\ Len(events') = Len(events) - 1 /\ e \in Event
      /\ \A k \in 1..Len(events') : events'[k] = events[k + 1] /\ k + 1 \in 1..Len(events)
      /\ ShownDock(page, page', e)
      /\ IF e.type \in {"rolledBack", "failed", "discarded"} THEN Asked("count") ELSE UNCHANGED requests
      /\ UNCHANGED job /\ events # <<>>
  BY Delivered DEF TypeInv, Hear
<1>2. NoDeaf'
  <2>1. \A i \in Slots : requests'[i] = requests[i] \/ requests'[i].step = "sent"
    BY <1>1 DEF Asked
  <2> QED
    BY <2>1 DEF NoDeaf
<1>3. UnderWay \/ Beyond \/ AtRest
  BY <1>1 DEF Stage, Requested, Deciding
<1>4. CASE UnderWay
  <2>1. page.inFlight /\ ~page.dock.asks /\ \E i \in Slots : Alone(i) /\ Late(i)
    BY <1>4 DEF UnderWay
  <2>2. CASE e.type \in RunEvents
    <3>1. Len(events) = 1 => Running
      BY <1>4, <2>2 DEF UnderWay, EndsWith, RunEvents
    <3>2. page'.inFlight /\ ~page'.dock.asks /\ UNCHANGED requests
      BY <1>1, <2>1, <2>2 DEF ShownDock, RunEvents, Locked
    <3>3. (\E i \in Slots : Alone(i) /\ Late(i))'
      BY <2>1, <3>2 DEF Alone, Late
    <3>4. CASE Running /\ \A k \in 1..Len(events) : events[k].type \in RunEvents
      <4>1. Running' /\ \A k \in 1..Len(events') : events'[k].type \in RunEvents
        BY <1>1, <3>4 DEF Running
      <4>2. UnderWay'
        BY <3>2, <3>3, <4>1 DEF UnderWay
      <4> QED
        BY <1>2, <4>2 DEF Stage
    <3>5. ASSUME NEW types, EndsWith(types), Len(events) # 1 PROVE EndsWith(types)'
      <4>1. Len(events') \in 1..Len(events') /\ Len(events') + 1 = Len(events)
        BY <1>1, <3>5
      <4>2. events'[Len(events')] = events[Len(events)] /\ events' # <<>>
        BY <1>1, <4>1
      <4>3. \A k \in 1..(Len(events') - 1) : events'[k] = events[k + 1] /\ k + 1 \in 1..(Len(events) - 1)
        BY <1>1, <4>1
      <4> QED
        BY <3>5, <4>2, <4>3 DEF EndsWith
    <3>6. CASE ~(Running /\ \A k \in 1..Len(events) : events[k].type \in RunEvents)
      <4>1. \/ job.step = "decision" /\ EndsWith({"decision"})
            \/ job.step = "idle" /\ EndsWith({"done", "failed"})
        BY <1>4, <3>6 DEF UnderWay
      <4>2. Len(events) # 1
        BY <3>1, <4>1 DEF Running
      <4> QED
        BY <1>1, <1>2, <3>2, <3>3, <3>5, <4>1, <4>2 DEF UnderWay, Stage
    <3> QED
      BY <1>2, <3>4, <3>6 DEF Stage
  <2>3. CASE e.type \notin RunEvents
    <3>1. ~(\A k \in 1..Len(events) : events[k].type \in RunEvents)
      BY <1>1, <2>3
    <3>2. ASSUME NEW types, EndsWith(types) PROVE Len(events) = 1 /\ e.type \in types
      <4>1. 1 \notin 1..(Len(events) - 1)
        BY <2>3, <3>2 DEF EndsWith
      <4> QED
        BY <1>1, <3>2, <4>1 DEF EndsWith
    <3>3. /\ Len(events) = 1
          /\ \/ e.type = "decision" /\ job.step = "decision"
             \/ e.type \in {"done", "failed"} /\ job.step = "idle"
      BY <1>4, <3>1, <3>2 DEF UnderWay
    <3>4. Len(events') = 0 /\ events' = <<>>
      BY <1>1, <3>3 DEF TypeInv, TypeOK, Hear
    <3>5. CASE e.type = "decision"
      <4>1. Choice(page, page') /\ UNCHANGED requests
        BY <1>1, <3>5 DEF ShownDock
      <4>2. (\E i \in Slots : Alone(i) /\ Late(i))'
        BY <2>1, <4>1 DEF Alone, Late
      <4>3. Deciding'
        BY <1>1, <3>3, <3>4, <3>5, <4>1, <4>2 DEF Deciding, Choice
      <4> QED
        BY <1>2, <4>3 DEF Stage
    <3>6. CASE e.type \in {"done", "failed"}
      <4>1. Unlocked(page') /\ ~page'.dock.asks
        BY <1>1, <2>1, <3>6 DEF ShownDock
      <4>2. \A j \in Slots : Late(j)
        BY <2>1 DEF Alone, Late
      <4>3. \A j \in Slots : Late(j)' \/ requests'[j].kind \in {"count", "stash", "discard"}
        <5>1. \A j \in Slots : requests'[j] = requests[j] \/ requests'[j].kind = "count"
          BY <1>1 DEF Asked
        <5> QED
          BY <4>2, <5>1 DEF Late
      <4>4. AtRest'
        BY <1>1, <3>3, <3>4, <3>6, <4>1, <4>3 DEF AtRest, Unlocked
      <4> QED
        BY <1>2, <4>4 DEF Stage
    <3> QED
      BY <3>3, <3>5, <3>6
  <2> QED
    BY <2>2, <2>3
<1>5. CASE Beyond
  <2>1. \A k \in 1..Len(events') : events'[k].type \in {"stashed", "discarded", "rolledBack"}
    BY <1>1, <1>5 DEF Beyond
  <2>2. \A j \in Slots : Late(j)' \/ requests'[j].kind \in {"count", "stash", "discard", "rollback"}
    <3>1. \A j \in Slots : requests'[j] = requests[j] \/ requests'[j].kind = "count"
      BY <1>1 DEF Asked
    <3> QED
      BY <1>5, <3>1 DEF Beyond, Late
  <2>3. Beyond'
    BY <1>1, <1>5, <2>1, <2>2, SteadyStays DEF Beyond, Running
  <2> QED
    BY <1>2, <2>3 DEF Stage
<1>6. CASE AtRest
  <2>1. e.type \in {"stashed", "discarded"}
    BY <1>1, <1>6 DEF AtRest
  <2>2. ~page'.inFlight /\ ~page'.dock.asks /\ page'.stored.phase = "none"
    BY <1>1, <1>6, <2>1 DEF ShownDock, AtRest, Counted, Unlocked
  <2>3. \A k \in 1..Len(events') : events'[k].type \in {"stashed", "discarded"}
    BY <1>1, <1>6 DEF AtRest
  <2>4. \A j \in Slots : Late(j)' \/ requests'[j].kind \in {"count", "stash", "discard"}
    <3>1. \A j \in Slots : requests'[j] = requests[j] \/ requests'[j].kind = "count"
      BY <1>1 DEF Asked
    <3> QED
      BY <1>6, <3>1 DEF AtRest, Late
  <2>5. AtRest'
    BY <1>1, <1>6, <2>2, <2>3, <2>4 DEF AtRest
  <2> QED
    BY <1>2, <2>5 DEF Stage
<1> QED
  BY <1>3, <1>4, <1>5, <1>6

LEMMA LockInit == Init => LockInv
<1> SUFFICES ASSUME Init PROVE NoDeaf /\ AtRest
  BY DEF LockInv, Stage
<1>1. /\ ~page.inFlight /\ ~page.dock.asks /\ page.stored.phase = "none" /\ job.step = "idle"
      /\ \A i \in Slots : requests[i].kind = "free" /\ requests[i].step = "sent"
      /\ events = <<>> /\ Len(events) = 0
  BY DEF Init, Fresh, Free, NoDock, NoStored
<1> QED
  BY <1>1 DEF NoDeaf, AtRest, Late

LEMMA LockStep == TypeInv /\ LockInv /\ [Next]_vars => LockInv'
<1> SUFFICES ASSUME TypeInv, NoDeaf, Stage, [Next]_vars, Steady' PROVE NoDeaf' /\ Stage'
  BY SteadyStays DEF LockInv
<1>1. ~StreamBreaks /\ ~Reload /\ ~OtherTabApplies
  BY SteadyStays DEF StreamBreaks, Reload, OtherTabApplies
<1>2. CASE UNCHANGED vars
  BY <1>2, StageStays, SteadyStays DEF vars, SameDock
<1> QED
  BY <1>1, <1>2, UserEditLock, UserDockLock, TakeLock, LoseLock, AnsweredLock, AgentLock, HearLock
  DEF Next


-----------------------------------------------------------------------------
(* A lock has its reason, also beside another tab and a second request. *)

Certain == ~Met({"lost", "reload", "unanswered", "unrepaired"})

Committing == \E i \in Slots : requests[i].kind = "commit" /\ Unheard(i)

\* The stream has an end of an apply after the event k.
EndsAfter(k) == \E j \in 1..Len(events) : k < j /\ events[j].type \in {"done", "failed"}

\* The agent has left no decision to the user.
NoChoice ==
  /\ ~page.dock.asks /\ job.step \in {"idle", "applying"}
  /\ \A i \in Slots : requests[i].kind \notin {"repair", "rollback"}
  /\ \A k \in 1..Len(events) :
       events[k].type \in {"stashed", "started", "chunk", "done", "failed", "discarded"}

Reported == \A k \in 1..Len(events) :
  events[k].type \in {"started", "chunk"} => Running \/ EndsAfter(k)

Held == page.inFlight \/ page.stored.phase # "none"
Justified == Held => Running \/ Committing \/ EndsAfter(0)

LockFree == Certain => NoDeaf /\ NoChoice /\ Reported /\ Justified

LEMMA CertainStays ==
  ASSUME [Next]_vars, Certain'
  PROVE  /\ Certain
         /\ \A kind \in {"lost", "reload", "unanswered", "unrepaired"} : ~Strikes(kind)
<1>1. faults \subseteq faults'
  BY FaultsStay
<1> QED
  BY <1>1 DEF Certain, Met, Strikes

\* A commit nobody has heard of stays, whatever else is asked.
LEMMA AskedFree ==
  ASSUME NoDeaf, NoChoice, NEW kind, Asked(kind), UNCHANGED <<events, job>>, ~page'.dock.asks,
         kind \notin {"repair", "rollback"}
  PROVE  NoDeaf' /\ NoChoice' /\ (Committing => Committing') /\ (kind = "commit" => Committing')
<1>1. PICK i \in Slots : /\ requests[i].kind = "free" /\ requests'[i].kind = kind
                         /\ requests'[i].step = "sent"
                         /\ \A j \in Slots \ {i} : requests'[j] = requests[j]
  BY DEF Asked
<1>2. \A j \in Slots : j = i \/ requests'[j] = requests[j]
  BY <1>1
<1>3. NoDeaf'
  BY <1>1, <1>2 DEF NoDeaf
<1>4. NoChoice'
  BY <1>1, <1>2 DEF NoChoice
<1>5. Committing => Committing'
  BY <1>1, <1>2 DEF Committing, Unheard
<1> QED
  BY <1>1, <1>3, <1>4, <1>5 DEF Committing, Unheard

LEMMA SameFree ==
  ASSUME NoDeaf, NoChoice, UNCHANGED <<requests, events, job>>, ~page'.dock.asks
  PROVE  NoDeaf' /\ NoChoice' /\ (Committing => Committing')
BY DEF NoDeaf, NoChoice, Committing, Unheard

LEMMA StreamFree ==
  ASSUME UNCHANGED <<events, job>>
  PROVE  (Reported => Reported') /\ (EndsAfter(0) => EndsAfter(0)') /\ (Running => Running')
BY DEF Reported, EndsAfter, Running

LEMMA UserFree ==
  ASSUME TypeInv, NoDeaf, NoChoice, Reported, Justified,
         \/ \E e \in Elements : Pick(e)
         \/ \E l \in Leaves : EscapeLeaf(l) \/ \E t \in Text : Type(l, t)
         \/ ExitConfigure \/ EnterEditing \/ Cancel \/ ClickOutside \/ Go \/ SessionEnds \/ Save
         \/ Apply \/ DiscardEdits \/ KeepFixing \/ Rollback
  PROVE  NoDeaf' /\ NoChoice' /\ Reported' /\ Justified'
<1>1. TypeOK /\ ~KeepFixing /\ ~Rollback
  BY DEF TypeInv, KeepFixing, Rollback, NoChoice
<1>2. CASE \/ \E e \in Elements : Pick(e)
           \/ \E l \in Leaves : EscapeLeaf(l) \/ \E t \in Text : Type(l, t)
           \/ ExitConfigure \/ EnterEditing \/ Cancel \/ ClickOutside \/ Go \/ SessionEnds \/ Save
  <2>1. SameDock(page, page') /\ UNCHANGED <<events, job>> /\ (UNCHANGED requests \/ Asked("stash"))
    BY <1>1, <1>2, UserEditDock DEF helper
  <2>2. ~page'.dock.asks /\ (Held' => Held)
    BY <2>1 DEF SameDock, NoChoice, Held
  <2>3. NoDeaf' /\ NoChoice' /\ (Committing => Committing')
    BY <2>1, <2>2, SameFree, AskedFree
  <2> QED
    BY <2>1, <2>2, <2>3, StreamFree DEF Justified
<1>3. CASE Apply
  <2>1. Asked("commit") /\ ~page'.dock.asks /\ UNCHANGED <<events, job>>
    BY <1>1, <1>3, UserDockDock DEF Apply, Locked, helper
  <2>2. NoDeaf' /\ NoChoice' /\ Committing'
    BY <2>1, AskedFree
  <2> QED
    BY <2>1, <2>2, StreamFree DEF Justified
<1>4. CASE DiscardEdits
  <2>1. Asked("discard") /\ page' = page /\ UNCHANGED <<events, job>>
    BY <1>1, <1>4, UserDockDock DEF DiscardEdits, helper
  <2>2. NoDeaf' /\ NoChoice' /\ (Committing => Committing')
    BY <2>1, AskedFree DEF NoChoice
  <2> QED
    BY <2>1, <2>2, StreamFree DEF Justified, Held
<1> QED
  BY <1>1, <1>2, <1>3, <1>4

\* What the helper says behind the rest of the stream.
LEMMA ToldFree ==
  ASSUME TypeOK, NEW type, NEW count, Tells(type, count),
         NEW i \in Slots, requests[i].kind # "commit",
         UNCHANGED <<page, job>>, \A j \in Slots \ {i} : requests'[j] = requests[j],
         requests'[i].kind = requests[i].kind, requests'[i].step # "deaf",
         type \in {"stashed", "discarded"}, NoDeaf, NoChoice, Reported, Justified
  PROVE  NoDeaf' /\ NoChoice' /\ Reported' /\ Justified'
<1>1. /\ \A j \in Slots : j = i \/ requests'[j] = requests[j]
      /\ \A k \in 1..Len(events') : k \in 1..Len(events) \/ k = Len(events) + 1
  BY Appended
<1>2. \A k \in 1..Len(events) : k \in 1..Len(events') /\ events'[k] = events[k]
  BY Appended
<1>3. NoDeaf' /\ NoChoice'
  BY <1>1, <1>2, Appended DEF NoDeaf, NoChoice
<1>4. \A k : EndsAfter(k) => EndsAfter(k)'
  BY <1>2 DEF EndsAfter
<1>5. Reported'
  BY <1>1, <1>2, <1>4, Appended DEF Reported, Running
<1>6. Committing => Committing'
  BY <1>1 DEF Committing, Unheard
<1>7. Justified'
  BY <1>4, <1>6 DEF Justified, Held, Running
<1> QED
  BY <1>3, <1>5, <1>7

\* A request the helper takes, or one that is lost, is unheard still.
LEMMA MovedFree ==
  ASSUME NEW i \in Slots, NEW step \in {"answered", "failed"}, Moved(i, step),
         requests[i].kind = "commit" => step = "failed",
         UNCHANGED <<page, events, job>>, NoDeaf, NoChoice, Reported, Justified
  PROVE  NoDeaf' /\ NoChoice' /\ Reported' /\ Justified'
<1>1. NoDeaf' /\ \A j \in Slots : j = i \/ requests'[j] = requests[j]
  BY MovedKeeps
<1>2. NoChoice'
  BY <1>1 DEF NoChoice, Moved
<1>3. Committing => Committing'
  BY <1>1 DEF Committing, Unheard, Moved
<1> QED
  BY <1>1, <1>2, <1>3, StreamFree DEF Justified, Held

\* An apply begins.
LEMMA BegunFree ==
  ASSUME TypeOK, Start, page' = page, NoDeaf', NoChoice,
         \A i \in Slots : requests'[i].kind = requests[i].kind
  PROVE  NoDeaf' /\ NoChoice' /\ Reported' /\ Justified'
<1>1. Tells("started", Len(staged)) /\ job'.step = "applying" /\ Running'
  BY DEF Start, Running
<1>2. \A k \in 1..Len(events') : k \in 1..Len(events) \/ k = Len(events) + 1
  BY <1>1, Appended
<1>3. NoChoice'
  BY <1>1, <1>2, Appended DEF NoChoice
<1> QED
  BY <1>1, <1>3 DEF Reported, Justified

LEMMA TakeFree ==
  ASSUME TypeInv, NoDeaf, NoChoice, Reported, Justified, NEW i \in Slots, Take(i)
  PROVE  NoDeaf' /\ NoChoice' /\ Reported' /\ Justified'
<1>1. TypeOK /\ page' = page /\ requests \in [Slots -> Request]
  BY DEF TypeInv, TypeOK, Take
<1>2. ~TakeRepair(i) /\ ~TakeRollback(i)
  BY DEF TakeRepair, TakeRollback, Taken, NoChoice
<1>3. CASE TakeStash(i)
  <2>1. Tells("stashed", Len(staged \o requests[i].ops)) /\ UNCHANGED job
        /\ Taken(i, "stash") /\ Answers(i, staged \o requests[i].ops)
    BY <1>3 DEF TakeStash
  <2>2. requests[i].kind = "stash" /\ Moved(i, "answered")
    BY <1>1, <2>1, TakenMoves
  <2> QED
    BY <1>1, <2>1, <2>2, ToldFree DEF Moved
<1>4. CASE TakeCount(i)
  <2>1. requests[i].kind = "count" /\ Moved(i, "answered") /\ UNCHANGED <<events, job>>
    BY <1>1, <1>4, TakenMoves DEF TakeCount, helper
  <2> QED
    BY <1>1, <2>1, MovedFree
<1>5. CASE TakeCommit(i)
  <2>1. CASE job.step = "idle" /\ staged # <<>>
    <3>1. Taken(i, "commit") /\ Answers(i, staged) /\ Start
      BY <1>5, <2>1 DEF TakeCommit
    <3>2. Moved(i, "answered")
      BY <1>1, <3>1, TakenMoves
    <3>3. NoDeaf' /\ \A j \in Slots : requests'[j].kind = requests[j].kind
      BY <3>2, MovedKeeps DEF Moved
    <3> QED
      BY <1>1, <3>1, <3>3, BegunFree
  <2>2. CASE ~(job.step = "idle" /\ staged # <<>>)
    <3>1. Taken(i, "commit") /\ Refuses(i) /\ UNCHANGED <<events, job>>
      BY <1>5, <2>2 DEF TakeCommit, helper
    <3>2. Moved(i, "failed")
      BY <1>1, <3>1, TakenMoves
    <3> QED
      BY <1>1, <3>1, <3>2, MovedFree
  <2> QED
    BY <2>1, <2>2
<1>6. CASE TakeDiscard(i)
  <2>1. Taken(i, "discard") /\ requests[i].kind = "discard"
    BY <1>6 DEF TakeDiscard, Taken
  <2>2. CASE job.step # "idle"
    <3>1. Refuses(i) /\ UNCHANGED <<events, job>>
      BY <1>6, <2>2 DEF TakeDiscard, helper
    <3>2. Moved(i, "failed")
      BY <1>1, <2>1, <3>1, TakenMoves
    <3> QED
      BY <1>1, <2>1, <3>1, <3>2, MovedFree
  <2>3. CASE job.step = "idle"
    <3>1. Tells("discarded", 0) /\ UNCHANGED job
          /\ requests' = [requests EXCEPT ![i] = [@ EXCEPT !.step = "answered", !.ops = staged]]
      BY <1>6, <2>3 DEF TakeDiscard
    <3>2. Moved(i, "answered")
      BY <1>1, <3>1 DEF Moved, Request
    <3> QED
      BY <1>1, <2>1, <3>1, <3>2, ToldFree DEF Moved
  <2> QED
    BY <2>2, <2>3
<1> QED
  BY <1>2, <1>3, <1>4, <1>5, <1>6 DEF Take

LEMMA LoseFree ==
  ASSUME TypeInv, NoDeaf, NoChoice, Reported, Justified, [Next]_vars, Certain',
         NEW i \in Slots, Lose(i)
  PROVE  NoDeaf' /\ NoChoice' /\ Reported' /\ Justified'
<1>1. Moved(i, "failed") /\ UNCHANGED <<page, events, job>>
  BY DEF Lose, Moved, TypeInv, TypeOK, Request, helper
<1> QED
  BY <1>1, MovedFree

LEMMA AnsweredFree ==
  ASSUME TypeInv, NoDeaf, NoChoice, Reported, Justified, NEW i \in Slots, Answered(i)
  PROVE  NoDeaf' /\ NoChoice' /\ Reported' /\ Justified'
<1> DEFINE r == requests[i]
<1>1. /\ Cleared(i) /\ UNCHANGED <<events, job>> /\ r \in Request
      /\ r.kind # "free" /\ r.step \in {"answered", "failed"} /\ AnsweredDock(page, page', r)
  BY AnsweredClears, AnswersDock DEF TypeInv, TypeOK
<1>2. NoDeaf' /\ \A j \in Slots : j = i \/ requests'[j] = requests[j]
  BY <1>1, ClearedKeeps
<1>3. r.kind \in {"stash", "count", "commit", "discard"} /\ ~page.dock.asks
  BY <1>1 DEF NoChoice, Request
<1>4. ~page'.dock.asks /\ (Held' => Held)
  BY <1>1, <1>3 DEF AnsweredDock, SameDock, Counted, Locked, Unlocked, NoDock, Held
<1>5. NoChoice'
  BY <1>1, <1>2, <1>4 DEF NoChoice, Cleared
<1>6. r.kind = "commit" /\ r.step = "failed" => ~Held'
  BY <1>1 DEF AnsweredDock, Unlocked, Held
<1>7. Committing => Committing' \/ ~Held'
  BY <1>1, <1>2, <1>6 DEF Committing, Unheard
<1> QED
  BY <1>1, <1>2, <1>4, <1>5, <1>7, StreamFree DEF Justified

LEMMA AgentFree ==
  ASSUME TypeInv, NoDeaf, NoChoice, Reported, Justified, [Next]_vars, Certain',
         ApplyNext \/ Finish \/ LeaveOut \/ GiveUp \/ NeedsRepair \/ NeedsDecision
  PROVE  NoDeaf' /\ NoChoice' /\ Reported' /\ Justified'
<1>1. TypeOK /\ job \in Job /\ ~NeedsRepair /\ ~NeedsDecision
  BY CertainStays DEF TypeInv, TypeOK, NeedsRepair, NeedsDecision, Certain, Met
<1>2. UNCHANGED <<page, requests>>
  BY AgentTells
<1>3. \E type, count :
        /\ Tells(type, count)
        /\ \/ type = "chunk" /\ job'.step = "applying"
           \/ type \in {"done", "failed"} /\ job'.step = "idle"
  BY <1>1 DEF ApplyNext, Finish, LeaveOut, GiveUp, Ended, Job
<1>4. PICK type, count :
        /\ Tells(type, count)
        /\ \/ type = "chunk" /\ job'.step = "applying"
           \/ type \in {"done", "failed"} /\ job'.step = "idle"
  BY <1>3
<1>5. \A k \in 1..Len(events') : k \in 1..Len(events) \/ k = Len(events) + 1
  BY <1>1, <1>4, Appended
<1>6. NoDeaf' /\ NoChoice'
  BY <1>1, <1>2, <1>4, <1>5, Appended DEF NoDeaf, NoChoice
<1>7. CASE job'.step = "applying"
  BY <1>6, <1>7 DEF Reported, Justified, Running
<1>8. CASE type \in {"done", "failed"}
  <2>1. Len(events') \in 1..Len(events') /\ Len(events') = Len(events) + 1 /\ Len(events) \in Nat
    BY <1>1, <1>4, Appended
  <2>2. events'[Len(events')].type \in {"done", "failed"}
    BY <1>1, <1>4, <1>8, <2>1, Appended
  <2>3. \A k \in 1..Len(events') : k < Len(events') \/ k = Len(events')
    BY <2>1
  <2>4. Reported' /\ EndsAfter(0)'
    BY <2>1, <2>2, <2>3 DEF Reported, EndsAfter
  <2> QED
    BY <1>6, <2>4 DEF Justified
<1> QED
  BY <1>4, <1>7, <1>8

LEMMA OtherTabFree ==
  ASSUME TypeInv, NoDeaf, NoChoice, OtherTabApplies
  PROVE  NoDeaf' /\ NoChoice' /\ Reported' /\ Justified'
<1>1. TypeOK /\ Start /\ UNCHANGED <<page, requests>>
  BY DEF TypeInv, OtherTabApplies
<1>2. NoDeaf'
  BY <1>1 DEF NoDeaf
<1> QED
  BY <1>1, <1>2, BegunFree

LEMMA HearFree ==
  ASSUME TypeInv, NoDeaf, NoChoice, Reported, Justified, Hear
  PROVE  NoDeaf' /\ NoChoice' /\ Reported' /\ Justified'
<1> DEFINE e == events[1]
<1>1. /\ Len(events) \in Nat \ {0} /\ Len(events') = Len(events) - 1
      /\ \A k \in 1..Len(events') : events'[k] = events[k + 1] /\ k + 1 \in 1..Len(events)
      /\ ShownDock(page, page', e) /\ UNCHANGED job
      /\ IF e.type \in {"rolledBack", "failed", "discarded"} THEN Asked("count") ELSE UNCHANGED requests
  BY Delivered DEF TypeInv
<1>2. e.type \in {"stashed", "started", "chunk", "done", "failed", "discarded"} /\ ~page.dock.asks
  BY <1>1 DEF NoChoice
<1>3. ~page'.dock.asks
  BY <1>1, <1>2 DEF ShownDock, Counted, Locked
<1>4. \A i \in Slots : \/ requests'[i] = requests[i]
                       \/ /\ requests[i].kind = "free" /\ requests'[i].kind = "count"
                          /\ requests'[i].step = "sent"
  BY <1>1 DEF Asked
<1>5. NoDeaf' /\ NoChoice' /\ (Committing => Committing')
  <2>1. NoDeaf'
    BY <1>4 DEF NoDeaf
  <2>2. NoChoice'
    BY <1>1, <1>3, <1>4 DEF NoChoice
  <2>3. Committing => Committing'
    BY <1>4 DEF Committing, Unheard
  <2> QED
    BY <2>1, <2>2, <2>3
<1>6. ASSUME NEW k \in Nat, EndsAfter(k + 1) PROVE EndsAfter(k)'
  <2>1. PICK j \in 1..Len(events) : k + 1 < j /\ events[j].type \in {"done", "failed"}
    BY <1>6 DEF EndsAfter
  <2>2. j - 1 \in 1..Len(events') /\ k < j - 1 /\ events'[j - 1] = events[j]
    BY <1>1, <1>6, <2>1
  <2> QED
    BY <2>1, <2>2 DEF EndsAfter
<1>7. Reported'
  <2> SUFFICES ASSUME NEW k \in 1..Len(events'), events'[k].type \in {"started", "chunk"}
               PROVE  Running' \/ EndsAfter(k)'
    BY DEF Reported
  <2>1. k \in Nat /\ k + 1 \in 1..Len(events) /\ (Running \/ EndsAfter(k + 1))
    BY <1>1 DEF Reported
  <2> QED
    BY <1>1, <1>6, <2>1 DEF Running
<1>8. Justified'
  <2>1. CASE e.type \in {"started", "chunk"}
    <3>1. Running \/ EndsAfter(1)
      BY <1>1, <2>1 DEF Reported
    <3>2. EndsAfter(1) => EndsAfter(0)'
      <4>1. 0 \in Nat /\ 0 + 1 = 1
        OBVIOUS
      <4> QED
        BY <1>6, <4>1
    <3> QED
      BY <1>1, <3>1, <3>2 DEF Justified, Running
  <2>2. CASE e.type \in {"done", "failed"}
    BY <1>1, <2>2 DEF ShownDock, Unlocked, Justified, Held
  <2>3. CASE e.type \in {"stashed", "discarded"}
    <3>1. Held' => Held
      BY <1>1, <2>3 DEF ShownDock, Counted, Unlocked, Held
    <3>2. EndsAfter(0) => EndsAfter(0)'
      <4>1. EndsAfter(0) => EndsAfter(1)
        BY <1>1, <2>3 DEF EndsAfter
      <4>2. 0 \in Nat /\ 0 + 1 = 1
        OBVIOUS
      <4> QED
        BY <1>6, <4>1, <4>2
    <3> QED
      BY <1>1, <1>5, <3>1, <3>2 DEF Justified, Running
  <2> QED
    BY <1>2, <2>1, <2>2, <2>3
<1> QED
  BY <1>5, <1>7, <1>8

LEMMA FreeInit == Init => LockFree
<1> SUFFICES ASSUME Init PROVE NoDeaf /\ NoChoice /\ Reported /\ Justified
  BY DEF LockFree
<1>1. /\ ~page.inFlight /\ ~page.dock.asks /\ page.stored.phase = "none" /\ job.step = "idle"
      /\ \A i \in Slots : requests[i].kind = "free" /\ requests[i].step = "sent"
      /\ events = <<>> /\ Len(events) = 0
  BY DEF Init, Fresh, Free, NoDock, NoStored
<1> QED
  BY <1>1 DEF NoDeaf, NoChoice, Reported, Justified, Held

LEMMA FreeStep == TypeInv /\ LockFree /\ [Next]_vars => LockFree'
<1> SUFFICES ASSUME TypeInv, NoDeaf, NoChoice, Reported, Justified, [Next]_vars, Certain'
             PROVE  NoDeaf' /\ NoChoice' /\ Reported' /\ Justified'
  BY CertainStays DEF LockFree
<1>1. ~StreamBreaks /\ ~Reload
  BY CertainStays DEF StreamBreaks, Reload
<1>2. CASE UNCHANGED vars
  <2>1. UNCHANGED <<page, requests, events, job>>
    BY <1>2 DEF vars
  <2> QED
    BY <2>1, SameFree, StreamFree DEF NoChoice, Justified, Held
<1> QED
  BY <1>1, <1>2, UserFree, TakeFree, LoseFree, AnsweredFree, AgentFree, OtherTabFree, HearFree
  DEF Next

\* Nothing under way between page and helper: an apply has the page locked, unless
\* another tab or a second request began it; and the page is locked only for one,
\* unless the agent had left a decision to the user and an edit was saved meanwhile,
\* the user rolled back, or a tab or a second request was there too.
THEOREM LockIsTheHelpers == Spec => []LockAgrees
<1>1. TypeInv /\ LockInv /\ LockFree => LockAgrees
  <2> SUFFICES ASSUME TypeInv, LockInv, LockFree, Quiet, ~Met({"lost", "reload", "unanswered"})
               PROVE  /\ Running => page.inFlight \/ Met({"tab", "overlap"})
                      /\ page.inFlight => \/ Running
                                          \/ Met({"rollback", "deciding"})
                                          \/ Met({"unrepaired"}) /\ Met({"tab", "overlap"})
    BY DEF LockAgrees
  <2>1. events = <<>> /\ Len(events) = 0 /\ \A i \in Slots : requests[i].kind = "free"
    BY DEF Quiet
  <2>2. CASE ~Met({"tab", "overlap"})
    <3>1. Stage
      BY <2>2 DEF LockInv, Steady, Met
    <3> QED
      BY <2>1, <3>1 DEF Stage, UnderWay, EndsWith, Requested, Deciding, Beyond, AtRest, Running, Loose
  <2>3. CASE ~Met({"unrepaired"})
    <3>1. Justified
      BY <2>3 DEF LockFree, Certain, Met
    <3>2. ~Committing /\ ~EndsAfter(0)
      BY <2>1 DEF Committing, EndsAfter
    <3>3. page.inFlight => Running
      BY <3>1, <3>2 DEF Justified, Held
    <3> QED
      BY <2>2, <3>3
  <2> QED
    BY <2>2, <2>3
<1>2. Init => TypeInv /\ LockInv /\ LockFree
  BY TypeInit, LockInit, FreeInit
<1>3. TypeInv /\ LockInv /\ LockFree /\ [Next]_vars => (TypeInv /\ LockInv /\ LockFree)'
  BY TypeStep, LockStep, FreeStep
<1> QED
  BY <1>1, <1>2, <1>3, PTL DEF Spec
-----------------------------------------------------------------------------
(* What the stream will say last, and the dock will show. *)

Watched ==
  /\ ~Met({"lost", "reload", "overlap", "rollback", "deciding", "stale"})
  /\ ~({"unanswered", "unrepaired"} \subseteq faults)

\* The events that say how many edits are saved, and those about the lock.
CountEvents == {"stashed", "started", "repairing", "done"}
LockEvents  == {"started", "repairing", "chunk", "repair", "decision", "done", "failed"}

\* Event k is the last of these types that the stream holds.
Latest(k, types) ==
  /\ k \in 1..Len(events) /\ events[k].type \in types
  /\ \A j \in (k + 1)..Len(events) : events[j].type \notin types

NoneOf(types) == \A k \in 1..Len(events) : events[k].type \notin types

\* The count of the saved edits is shown, or on its way.
CountComes ==
  staged # <<>> =>
    \/ \E k \in 1..Len(events) : Latest(k, CountEvents) /\ events[k].count = Len(staged)
    \/ NoneOf(CountEvents) /\ page.dock.count = Len(staged)

\* With no apply the page is free, or about to be.
FreeComes ==
  job.step = "idle" =>
    \/ \E k \in 1..Len(events) : Latest(k, LockEvents) /\ events[k].type \in {"done", "failed"}
    \/ /\ NoneOf(LockEvents)
       /\ Unlocked(page) \/ \E i \in Slots : requests[i].kind = "commit" /\ Unheard(i)

\* The user asks one thing at a time, and a discard leaves nothing to apply.
OneApart ==
  /\ \A i \in Slots : requests[i].kind # "rollback"
  /\ \A i, j \in Slots :
       requests[i].kind \notin {"free", "count"} /\ requests[j].kind \notin {"free", "count"} => i = j
  /\ \A i \in Slots :
       requests[i].kind = "discard" /\ requests[i].step = "answered" => staged = <<>> /\ job.step = "idle"

\* A request for a decision is the last thing the stream holds.
DecisionLast ==
  \A k \in 1..Len(events) :
    /\ events[k].type # "rolledBack"
    /\ events[k].type = "decision" => k = Len(events) /\ job.step = "decision"

\* The choice is the user's as long as the helper waits for it.
Decided ==
  /\ page.dock.asks => job.step = "decision" /\ events = <<>>
  /\ \A i \in Slots : requests[i].kind = "repair" =>
       /\ "unrepaired" \in faults
       /\ Unheard(i) => job.step = "decision" /\ events = <<>> /\ ~page.dock.asks
  /\ job.step = "decision" => "unrepaired" \in faults
  /\ DecisionLast

TrashShown == page.dock.count # 0 => page.dock.trashShown \/ page.dock.asks

UseParts == NoDeaf /\ CountComes /\ FreeComes /\ OneApart /\ Decided /\ TrashShown
UseInv   == Watched => UseParts

LEMMA WatchedStays ==
  ASSUME [Next]_vars, Watched'
  PROVE  /\ Watched /\ faults \subseteq faults'
         /\ \A kind \in {"lost", "reload", "overlap"} :
              /\ ~Strikes(kind)
              /\ \A s \in BOOLEAN : Unless(kind, s) => ~s
<1>1. faults \subseteq faults'
  BY FaultsStay
<1> QED
  BY <1>1 DEF Watched, Met, Strikes, Unless

LEMMA LatestTold ==
  ASSUME TypeOK, NEW type, NEW count, Tells(type, count), NEW types
  PROVE  /\ type \in types => \E k \in 1..Len(events') :
              Latest(k, types)' /\ events'[k].type = type /\ events'[k].count = count
         /\ type \notin types => /\ NoneOf(types) => NoneOf(types)'
                                 /\ \A k \in 1..Len(events) : Latest(k, types) =>
                                      k \in 1..Len(events') /\ Latest(k, types)' /\ events'[k] = events[k]
<1> DEFINE n == Len(events)
<1>1. /\ n \in Nat /\ Len(events') = n + 1 /\ events'[n + 1].type = type /\ events'[n + 1].count = count
      /\ \A k \in 1..n : events'[k] = events[k]
  BY Appended
<1>2. \A k \in Nat : k = n + 1 /\ type \in types => k \in 1..Len(events') /\ Latest(k, types)'
  BY <1>1 DEF Latest
<1>3. type \notin types /\ NoneOf(types) => NoneOf(types)'
  BY <1>1 DEF NoneOf
<1>4. ASSUME type \notin types, NEW k \in 1..n, Latest(k, types)
      PROVE  k \in 1..Len(events') /\ Latest(k, types)' /\ events'[k] = events[k]
  <2>1. k \in 1..(n + 1) /\ events'[k] = events[k]
    BY <1>1
  <2>2. \A j \in (k + 1)..(n + 1) : j = n + 1 \/ (j \in (k + 1)..n /\ events'[j] = events[j])
    BY <1>1
  <2> QED
    BY <1>1, <1>4, <2>1, <2>2 DEF Latest
<1> QED
  BY <1>1, <1>2, <1>3, <1>4

LEMMA LatestHeard ==
  ASSUME TypeOK, Hear, NEW types
  PROVE  /\ NoneOf(types) => NoneOf(types)'
         /\ Latest(1, types) => NoneOf(types)'
         /\ \A k \in 1..Len(events) : Latest(k, types) /\ k # 1 =>
              k - 1 \in 1..Len(events') /\ Latest(k - 1, types)' /\ events'[k - 1] = events[k]
<1> DEFINE n == Len(events)
<1>1. /\ n \in Nat \ {0} /\ Len(events') = n - 1
      /\ \A k \in 1..(n - 1) : events'[k] = events[k + 1] /\ k + 1 \in 1..n
  BY Delivered
<1>2. NoneOf(types) => NoneOf(types)'
  BY <1>1 DEF NoneOf
<1>3. ASSUME Latest(1, types) PROVE NoneOf(types)'
  <2>1. \A k \in 1..(n - 1) : k + 1 \in 2..n
    BY <1>1
  <2> QED
    BY <1>1, <1>3, <2>1 DEF NoneOf, Latest
<1>4. ASSUME NEW k \in 1..n, Latest(k, types), k # 1
      PROVE  k - 1 \in 1..Len(events') /\ Latest(k - 1, types)' /\ events'[k - 1] = events[k]
  <2>1. k - 1 \in 1..(n - 1) /\ events'[k - 1] = events[k]
    BY <1>1, <1>4
  <2>2. \A j \in ((k - 1) + 1)..(n - 1) : j + 1 \in (k + 1)..n /\ events'[j] = events[j + 1]
    BY <1>1, <1>4
  <2> QED
    BY <1>1, <1>4, <2>1, <2>2 DEF Latest
<1> QED
  BY <1>1, <1>2, <1>3, <1>4

\* What leaves the dock, the requests and the helper alone.
LEMMA UseStays ==
  ASSUME UseParts, SameDock(page, page'), UNCHANGED <<requests, events, staged, job>>, faults \subseteq faults'
  PROVE  UseParts'
<1>1. CountComes'
  BY DEF UseParts, CountComes, SameDock, Latest, NoneOf
<1>2. FreeComes'
  BY DEF UseParts, FreeComes, SameDock, Latest, NoneOf, Unlocked, Unheard
<1>3. NoDeaf' /\ OneApart'
  BY DEF UseParts, NoDeaf, OneApart
<1>4. Decided'
  BY DEF UseParts, Decided, DecisionLast, SameDock, Unheard
<1>5. TrashShown'
  BY DEF UseParts, TrashShown, SameDock
<1> QED
  BY <1>1, <1>2, <1>3, <1>4, <1>5 DEF UseParts

\* The user asks for something, and nothing else is to be heard.
LEMMA AskedApart ==
  ASSUME TypeOK, UseParts, ~UserWaits, NEW kind \in {"stash", "commit", "repair", "discard"}, Asked(kind),
         UNCHANGED helper, faults \subseteq faults'
  PROVE  /\ events = <<>> /\ NoneOf(CountEvents)' /\ NoneOf(LockEvents)' /\ NoDeaf' /\ OneApart'
         /\ \E i \in Slots :
              /\ requests'[i].kind = kind /\ Unheard(i)'
              /\ \A j \in Slots : j = i \/ requests'[j].kind = "free"
         /\ staged # <<>> => page.dock.count = Len(staged)
         /\ job.step = "idle" => Unlocked(page)
         /\ \A k \in 1..Len(events') : FALSE
<1>1. events = <<>> /\ Len(events) = 0 /\ events' = events /\ \A i \in Slots : requests[i].kind = "free"
  BY NothingPends DEF UseParts, helper
<1>2. PICK i \in Slots : /\ requests'[i].kind = kind /\ requests'[i].step = "sent"
                         /\ \A j \in Slots \ {i} : requests'[j] = requests[j]
  BY DEF Asked
<1>3. \A j \in Slots : j = i \/ (requests'[j] = requests[j] /\ requests'[j].kind = "free")
  BY <1>1, <1>2
<1>4. NoDeaf' /\ OneApart'
  BY <1>2, <1>3 DEF UseParts, NoDeaf, OneApart
<1>5. NoneOf(CountEvents)' /\ NoneOf(LockEvents)' /\ \A k \in 1..Len(events') : FALSE
  BY <1>1 DEF NoneOf
<1>6. staged # <<>> => page.dock.count = Len(staged)
  BY <1>1 DEF UseParts, CountComes
<1>7. job.step = "idle" => Unlocked(page)
  BY <1>1 DEF UseParts, FreeComes
<1> QED
  BY <1>1, <1>2, <1>3, <1>4, <1>5, <1>6, <1>7 DEF Unheard

LEMMA UserEditUse ==
  ASSUME TypeInv, UseParts, [Next]_vars, Watched',
         \/ \E e \in Elements : Pick(e)
         \/ \E l \in Leaves : EscapeLeaf(l) \/ \E t \in Text : Type(l, t)
         \/ ExitConfigure \/ EnterEditing \/ Cancel \/ ClickOutside \/ Go \/ SessionEnds \/ Save
  PROVE  UseParts'
<1>1. /\ TypeOK /\ SameDock(page, page') /\ UNCHANGED helper /\ UNCHANGED <<events, staged, job>>
      /\ \/ UNCHANGED requests
         \/ Asked("stash") /\ Unless("overlap", UserWaits) /\ ~page.inFlight
  BY UserEditDock DEF TypeInv, helper
<1>2. faults \subseteq faults'
  BY WatchedStays
<1>3. CASE UNCHANGED requests
  BY <1>1, <1>2, <1>3, UseStays
<1>4. CASE Asked("stash") /\ Unless("overlap", UserWaits)
  <2>1. UserWaits \in BOOLEAN
    BY DEF UserWaits, Waits
  <2>2. ~UserWaits
    BY <1>4, <2>1, WatchedStays
  <2>3. /\ NoneOf(CountEvents)' /\ NoneOf(LockEvents)' /\ NoDeaf' /\ OneApart'
        /\ staged # <<>> => page.dock.count = Len(staged)
        /\ job.step = "idle" => Unlocked(page)
        /\ \A k \in 1..Len(events') : FALSE
    BY <1>1, <1>2, <1>4, <2>2, AskedApart
  <2>4. PICK i \in Slots : requests'[i].kind = "stash" /\ \A j \in Slots : j = i \/ requests'[j].kind = "free"
    BY <1>1, <1>2, <1>4, <2>2, AskedApart
  <2>5. CountComes' /\ FreeComes' /\ TrashShown'
    BY <1>1, <2>3 DEF CountComes, FreeComes, TrashShown, UseParts, SameDock, Unlocked
  <2>6. Decided'
    BY <1>1, <1>2, <2>3, <2>4 DEF Decided, DecisionLast, UseParts, SameDock
  <2> QED
    BY <2>3, <2>5, <2>6 DEF UseParts
<1> QED
  BY <1>1, <1>3, <1>4

LEMMA UserDockUse ==
  ASSUME TypeInv, UseParts, [Next]_vars, Watched', Apply \/ DiscardEdits \/ KeepFixing \/ Rollback
  PROVE  UseParts'
<1>1. /\ TypeOK /\ UNCHANGED helper /\ UNCHANGED <<events, staged, job>> /\ (page.state = "EDITING") \in BOOLEAN
      /\ page.dock.count \in Nat
  BY UserDockType, Bounds DEF TypeInv, helper, TypeOK, Page, Dock
<1>2. ~Rollback
  BY DEF Rollback, Watched, Met
<1>3. ~UserWaits /\ faults \subseteq faults'
  BY <1>1, <1>2, WatchedStays DEF Apply, DiscardEdits, KeepFixing, AtDock
<1>4. ASSUME NEW kind \in {"stash", "commit", "repair", "discard"}, Asked(kind),
             page'.dock.count = page.dock.count
      PROVE  /\ NoDeaf' /\ OneApart' /\ CountComes' /\ NoneOf(LockEvents)' /\ events' = <<>>
             /\ \E i \in Slots : /\ requests'[i].kind = kind /\ Unheard(i)'
                                 /\ \A j \in Slots : j = i \/ requests'[j].kind = "free"
             /\ job.step = "idle" => Unlocked(page)
             /\ \A k \in 1..Len(events') : FALSE
  <2>1. /\ events = <<>> /\ NoneOf(CountEvents)' /\ NoneOf(LockEvents)' /\ NoDeaf' /\ OneApart'
        /\ \E i \in Slots : /\ requests'[i].kind = kind /\ Unheard(i)'
                            /\ \A j \in Slots : j = i \/ requests'[j].kind = "free"
        /\ staged # <<>> => page.dock.count = Len(staged)
        /\ job.step = "idle" => Unlocked(page)
        /\ \A k \in 1..Len(events') : FALSE
    BY <1>1, <1>3, <1>4, AskedApart
  <2> QED
    BY <1>1, <1>4, <2>1 DEF CountComes
<1>5. CASE Apply
  <2>1. Asked("commit") /\ Locked(page', page.dock.count)
    BY <1>1, <1>5, UserDockDock
  <2>2. /\ NoDeaf' /\ OneApart' /\ CountComes' /\ NoneOf(LockEvents)' /\ events' = <<>>
        /\ \A k \in 1..Len(events') : FALSE
    BY <1>4, <2>1 DEF Locked
  <2>3. PICK i \in Slots : /\ requests'[i].kind = "commit" /\ Unheard(i)'
                           /\ \A j \in Slots : j = i \/ requests'[j].kind = "free"
    BY <1>4, <2>1 DEF Locked
  <2>4. FreeComes' /\ TrashShown'
    BY <2>1, <2>2, <2>3 DEF FreeComes, TrashShown, Locked
  <2>5. Decided'
    BY <1>1, <1>3, <2>1, <2>2, <2>3 DEF Decided, DecisionLast, UseParts, Locked
  <2> QED
    BY <2>2, <2>4, <2>5 DEF UseParts
<1>6. CASE KeepFixing
  <2>1. Asked("repair") /\ Locked(page', page.dock.count) /\ page.dock.asks
    BY <1>1, <1>6, UserDockDock DEF KeepFixing
  <2>2. /\ NoDeaf' /\ OneApart' /\ CountComes' /\ NoneOf(LockEvents)' /\ events' = <<>>
        /\ \A k \in 1..Len(events') : FALSE
    BY <1>4, <2>1 DEF Locked
  <2>3. PICK i \in Slots : requests'[i].kind = "repair" /\ \A j \in Slots : j = i \/ requests'[j].kind = "free"
    BY <1>4, <2>1 DEF Locked
  <2>4. job.step = "decision" /\ "unrepaired" \in faults
    BY <2>1 DEF UseParts, Decided, DecisionLast
  <2>5. FreeComes' /\ TrashShown'
    BY <1>1, <2>1, <2>4 DEF FreeComes, TrashShown, Locked
  <2>6. Decided'
    BY <1>1, <1>3, <2>1, <2>2, <2>3, <2>4 DEF Decided, DecisionLast, Locked
  <2> QED
    BY <2>2, <2>5, <2>6 DEF UseParts
<1>7. CASE DiscardEdits
  <2>1. Asked("discard") /\ page' = page
    BY <1>1, <1>7, UserDockDock
  <2>2. /\ NoDeaf' /\ OneApart' /\ CountComes' /\ NoneOf(LockEvents)' /\ events' = <<>>
        /\ job.step = "idle" => Unlocked(page)
        /\ \A k \in 1..Len(events') : FALSE
    BY <1>4, <2>1
  <2>3. PICK i \in Slots : requests'[i].kind = "discard" /\ \A j \in Slots : j = i \/ requests'[j].kind = "free"
    BY <1>4, <2>1
  <2>4. FreeComes' /\ TrashShown'
    BY <1>1, <2>1, <2>2 DEF FreeComes, TrashShown, UseParts
  <2>5. Decided'
    BY <1>1, <1>3, <2>1, <2>2, <2>3 DEF Decided, DecisionLast, UseParts
  <2> QED
    BY <2>2, <2>4, <2>5 DEF UseParts
<1> QED
  BY <1>2, <1>5, <1>6, <1>7

-----------------------------------------------------------------------------
(* The helper. *)

LEMMA ToldUse ==
  ASSUME TypeOK, UseParts, NEW type, NEW count, Tells(type, count), page' = page
  PROVE  /\ type \in CountEvents /\ count = Len(staged') => CountComes'
         /\ type \notin CountEvents /\ UNCHANGED staged => CountComes'
         /\ type \in {"done", "failed"} => FreeComes'
         /\ /\ type \notin LockEvents /\ UNCHANGED job
            /\ \A i \in Slots : requests[i].kind = "commit" /\ Unheard(i) => requests'[i] = requests[i]
            => FreeComes'
         /\ /\ job.step # "decision" \/ events = <<>>
            /\ type # "rolledBack" /\ (type = "decision" => job'.step = "decision")
            => DecisionLast'
<1>1. ASSUME type \in CountEvents, count = Len(staged') PROVE CountComes'
  BY <1>1, LatestTold DEF CountComes
<1>2. ASSUME type \notin CountEvents, UNCHANGED staged PROVE CountComes'
  BY <1>2, LatestTold DEF CountComes, UseParts
<1>3. ASSUME type \in {"done", "failed"} PROVE FreeComes'
  BY <1>3, LatestTold DEF FreeComes, LockEvents
<1>4. ASSUME type \notin LockEvents, UNCHANGED job,
             \A i \in Slots : requests[i].kind = "commit" /\ Unheard(i) => requests'[i] = requests[i]
      PROVE  FreeComes'
  <2> SUFFICES ASSUME job.step = "idle" PROVE FreeComes'
    BY <1>4 DEF FreeComes
  <2>1. CASE \E k \in 1..Len(events) : Latest(k, LockEvents) /\ events[k].type \in {"done", "failed"}
    BY <1>4, <2>1, LatestTold DEF FreeComes
  <2>2. CASE NoneOf(LockEvents) /\ (Unlocked(page) \/ \E i \in Slots : requests[i].kind = "commit" /\ Unheard(i))
    <3>1. NoneOf(LockEvents)'
      BY <1>4, <2>2, LatestTold
    <3>2. (Unlocked(page) \/ \E i \in Slots : requests[i].kind = "commit" /\ Unheard(i))'
      BY <1>4, <2>2 DEF Unheard
    <3> QED
      BY <3>1, <3>2 DEF FreeComes
  <2> QED
    BY <2>1, <2>2 DEF UseParts, FreeComes
<1>5. ASSUME job.step # "decision" \/ events = <<>>, type # "rolledBack",
             type = "decision" => job'.step = "decision"
      PROVE  DecisionLast'
  <2>1. /\ Len(events) \in Nat /\ Len(events') = Len(events) + 1
        /\ events'[Len(events) + 1].type = type /\ \A k \in 1..Len(events) : events'[k] = events[k]
    BY Appended
  <2>2. \A k \in 1..Len(events) : events[k].type \notin {"rolledBack", "decision"}
    BY <1>5 DEF UseParts, Decided, DecisionLast
  <2>3. \A k \in 1..Len(events') : k = Len(events') \/ k \in 1..Len(events)
    BY <2>1
  <2> QED
    BY <1>5, <2>1, <2>2, <2>3 DEF DecisionLast
<1> QED
  BY <1>1, <1>2, <1>3, <1>4, <1>5

\* A request moves on, and it was the only one the user made.
LEMMA MovedApart ==
  ASSUME UseParts, NEW i \in Slots, NEW step \in {"answered", "failed"}, Moved(i, step),
         requests[i].kind \notin {"free", "count", "rollback"},
         requests[i].kind = "discard" /\ step = "answered" => staged' = <<>> /\ job'.step = "idle"
  PROVE  /\ NoDeaf' /\ OneApart'
         /\ \A j \in Slots : j # i => requests'[j] = requests[j] /\ requests[j].kind \in {"free", "count"}
<1>1. NoDeaf' /\ \A j \in Slots : j = i \/ requests'[j] = requests[j]
  BY MovedKeeps DEF UseParts
<1>2. \A j \in Slots : j = i \/ requests[j].kind \in {"free", "count"}
  BY DEF UseParts, OneApart
<1>3. OneApart'
  BY <1>1, <1>2 DEF UseParts, OneApart, Moved
<1> QED
  BY <1>1, <1>2, <1>3

LEMMA StartUse ==
  ASSUME TypeOK, UseParts, job.step = "idle", Start, page' = page, NoDeaf', OneApart', faults \subseteq faults',
         \A j \in Slots : requests'[j].kind = "repair" => requests'[j] = requests[j]
  PROVE  UseParts'
<1>1. Tells("started", Len(staged)) /\ job'.step = "applying" /\ staged' = staged
  BY DEF Start
<1>2. CountComes' /\ DecisionLast'
  BY <1>1, ToldUse DEF CountEvents
<1>3. FreeComes' /\ TrashShown'
  BY <1>1 DEF FreeComes, TrashShown, UseParts
<1>4. Decided'
  BY <1>1, <1>2 DEF UseParts, Decided, Unheard
<1> QED
  BY <1>2, <1>3, <1>4 DEF UseParts

LEMMA TakeUse ==
  ASSUME TypeInv, UseParts, faults \subseteq faults', Watched', NEW i \in Slots, Take(i)
  PROVE  UseParts'
<1>1. /\ TypeOK /\ page' = page /\ NoDeaf /\ requests \in [Slots -> Request]
      /\ (page.dock.trashShown \/ page.dock.asks \/ page.dock.count = 0)
  BY DEF TypeInv, TypeOK, Take, UseParts, TrashShown
<1>2. TrashShown'
  BY <1>1 DEF TrashShown
<1>3. CASE TakeStash(i)
  <2> DEFINE n == Len(staged \o requests[i].ops)
  <2>1. /\ Taken(i, "stash") /\ Tells("stashed", n) /\ UNCHANGED job /\ n = Len(staged')
        /\ Answers(i, staged \o requests[i].ops)
    BY <1>3 DEF TakeStash
  <2>2. requests[i].kind = "stash" /\ Moved(i, "answered")
    BY <1>1, <2>1, TakenMoves
  <2>3. job.step # "decision"
    BY <1>3 DEF TakeStash, Watched, Met
  <2>4. /\ NoDeaf' /\ OneApart'
        /\ \A j \in Slots : j # i => requests'[j] = requests[j] /\ requests[j].kind \in {"free", "count"}
    BY <2>2, MovedApart
  <2>5. CountComes' /\ FreeComes' /\ DecisionLast'
    <3> HIDE DEF n
    <3> QED
      BY <1>1, <2>1, <2>2, <2>3, <2>4, ToldUse DEF CountEvents, LockEvents
  <2>6. Decided'
    BY <1>1, <2>1, <2>2, <2>3, <2>4, <2>5 DEF Decided, UseParts, Moved
  <2> QED
    BY <1>2, <2>4, <2>5, <2>6 DEF UseParts
<1>4. CASE TakeCount(i)
  <2>1. requests[i].kind = "count" /\ Moved(i, "answered") /\ UNCHANGED <<events, staged, job>>
    BY <1>1, <1>4, TakenMoves DEF TakeCount, helper
  <2>2. NoDeaf' /\ \A j \in Slots : j = i \/ requests'[j] = requests[j]
    BY <1>1, <2>1, MovedKeeps
  <2>3. OneApart'
    BY <2>1, <2>2 DEF OneApart, UseParts, Moved
  <2>4. CountComes' /\ FreeComes'
    BY <1>1, <2>1, <2>2 DEF CountComes, FreeComes, UseParts, Latest, NoneOf, Unheard
  <2>5. Decided'
    BY <1>1, <2>1, <2>2 DEF Decided, DecisionLast, UseParts, Moved, Unheard
  <2> QED
    BY <1>2, <2>2, <2>3, <2>4, <2>5 DEF UseParts
<1>5. CASE TakeCommit(i)
  <2>1. requests[i].kind = "commit"
    BY <1>1, <1>5, TakenMoves DEF TakeCommit
  <2>2. CASE job.step = "idle" /\ staged # <<>>
    <3>1. Moved(i, "answered") /\ Start
      BY <1>1, <1>5, <2>2, TakenMoves DEF TakeCommit
    <3>2. /\ NoDeaf' /\ OneApart'
          /\ \A j \in Slots : j # i => requests'[j] = requests[j] /\ requests[j].kind \in {"free", "count"}
      BY <2>1, <3>1, MovedApart
    <3> QED
      BY <1>1, <2>1, <2>2, <3>1, <3>2, StartUse DEF Moved
  <2>3. CASE ~(job.step = "idle" /\ staged # <<>>)
    <3>1. Moved(i, "failed") /\ UNCHANGED <<events, staged, job>>
      BY <1>1, <1>5, <2>3, TakenMoves DEF TakeCommit, helper
    <3>2. /\ NoDeaf' /\ OneApart'
          /\ \A j \in Slots : j # i => requests'[j] = requests[j] /\ requests[j].kind \in {"free", "count"}
      BY <2>1, <3>1, MovedApart
    <3>3. CountComes' /\ FreeComes'
      BY <1>1, <2>1, <3>1, <3>2 DEF CountComes, FreeComes, UseParts, Latest, NoneOf, Unheard, Moved
    <3>4. Decided'
      BY <1>1, <2>1, <3>1, <3>2 DEF Decided, DecisionLast, UseParts, Moved, Unheard
    <3> QED
      BY <1>2, <3>2, <3>3, <3>4 DEF UseParts
  <2> QED
    BY <2>2, <2>3
<1>6. CASE TakeRepair(i)
  <2>1. requests[i].kind = "repair" /\ requests[i].step = "sent"
    BY <1>1, <1>6, TakenMoves DEF TakeRepair
  <2>2. job.step = "decision" /\ events = <<>> /\ ~page.dock.asks /\ "unrepaired" \in faults
    BY <2>1 DEF UseParts, Decided, Unheard
  <2>3. /\ Moved(i, "answered") /\ Tells("repairing", Len(staged)) /\ job'.step = "repairing"
        /\ staged' = staged
    BY <1>1, <1>6, <2>2, TakenMoves DEF TakeRepair, TypeOK, Job
  <2>4. /\ NoDeaf' /\ OneApart'
        /\ \A j \in Slots : j # i => requests'[j] = requests[j] /\ requests[j].kind \in {"free", "count"}
    BY <2>1, <2>3, MovedApart
  <2>5. CountComes' /\ FreeComes' /\ DecisionLast'
    BY <1>1, <2>2, <2>3, ToldUse DEF CountEvents, FreeComes
  <2>6. Decided'
    BY <1>1, <2>1, <2>2, <2>3, <2>4, <2>5 DEF Decided, Moved, Unheard
  <2> QED
    BY <1>2, <2>4, <2>5, <2>6 DEF UseParts
<1>7. CASE TakeRollback(i)
  BY <1>1, <1>7, TakenMoves DEF TakeRollback, UseParts, OneApart
<1>8. CASE TakeDiscard(i)
  <2>1. requests[i].kind = "discard" /\ requests[i].step = "sent"
    BY <1>1, <1>8, TakenMoves DEF TakeDiscard
  <2>2. CASE job.step = "idle"
    <3>1. Tells("discarded", 0) /\ UNCHANGED job /\ staged' = <<>>
          /\ requests' = [requests EXCEPT ![i] = [@ EXCEPT !.step = "answered", !.ops = staged]]
      BY <1>8, <2>2 DEF TakeDiscard
    <3>2. Moved(i, "answered")
      BY <1>1, <3>1 DEF Moved, Request
    <3>3. /\ NoDeaf' /\ OneApart'
          /\ \A j \in Slots : j # i => requests'[j] = requests[j] /\ requests[j].kind \in {"free", "count"}
      BY <2>1, <2>2, <3>1, <3>2, MovedApart
    <3>4. CountComes' /\ FreeComes' /\ DecisionLast'
      BY <1>1, <2>1, <2>2, <3>1, <3>2, <3>3, ToldUse DEF LockEvents, CountComes
    <3>5. Decided'
      BY <1>1, <2>1, <2>2, <3>1, <3>2, <3>3, <3>4 DEF Decided, UseParts, Moved
    <3> QED
      BY <1>2, <3>3, <3>4, <3>5 DEF UseParts
  <2>3. CASE job.step # "idle"
    <3>1. Moved(i, "failed") /\ UNCHANGED <<events, staged, job>>
      BY <1>1, <1>8, <2>3, TakenMoves DEF TakeDiscard, helper
    <3>2. /\ NoDeaf' /\ OneApart'
          /\ \A j \in Slots : j # i => requests'[j] = requests[j] /\ requests[j].kind \in {"free", "count"}
      BY <2>1, <3>1, MovedApart
    <3>3. CountComes' /\ FreeComes'
      BY <1>1, <2>1, <2>3, <3>1, <3>2 DEF CountComes, FreeComes, UseParts, Latest, NoneOf
    <3>4. Decided'
      BY <1>1, <2>1, <3>1, <3>2 DEF Decided, DecisionLast, UseParts, Moved
    <3> QED
      BY <1>2, <3>2, <3>3, <3>4 DEF UseParts
  <2> QED
    BY <2>2, <2>3
<1> QED
  BY <1>3, <1>4, <1>5, <1>6, <1>7, <1>8 DEF Take

LEMMA LoseUse ==
  ASSUME TypeInv, UseParts, faults \subseteq faults', Watched', NEW i \in Slots, Lose(i)
  PROVE  UseParts'
<1>1. /\ requests[i].kind # "free" /\ UNCHANGED <<page, events, staged, job>>
      /\ requests[i].step = "sent" \/ (requests[i].step = "answered" /\ "unanswered" \in faults')
  BY DEF Lose, Strikes, helper
<1>2. Moved(i, "failed")
  BY DEF Lose, Moved, TypeInv, TypeOK, Request
<1>3. NoDeaf' /\ \A j \in Slots : j = i \/ requests'[j] = requests[j]
  BY <1>2, MovedKeeps DEF UseParts
<1>4. OneApart'
  BY <1>1, <1>2, <1>3 DEF OneApart, UseParts, Moved
<1>5. CountComes' /\ TrashShown'
  BY <1>1 DEF CountComes, TrashShown, UseParts, Latest, NoneOf
<1>6. FreeComes'
  <2>1. \A j \in Slots : requests[j].kind = "commit" /\ Unheard(j) => requests'[j].kind = "commit" /\ Unheard(j)'
    BY <1>2, <1>3 DEF Moved, Unheard
  <2> QED
    BY <1>1, <2>1 DEF FreeComes, UseParts, Latest, NoneOf, Unlocked
<1>7. Decided'
  <2>1. requests[i].kind = "repair" => requests[i].step = "sent"
    BY <1>1 DEF UseParts, Decided, Watched
  <2> QED
    BY <1>1, <1>2, <1>3, <2>1 DEF Decided, DecisionLast, UseParts, Moved, Unheard
<1> QED
  BY <1>3, <1>4, <1>5, <1>6, <1>7 DEF UseParts

LEMMA AgentReports ==
  ASSUME TypeInv, ApplyNext \/ Finish \/ LeaveOut \/ GiveUp \/ NeedsRepair \/ NeedsDecision
  PROVE  /\ UNCHANGED <<page, requests>> /\ Running
         /\ \E type, count :
              /\ Tells(type, count) /\ type # "rolledBack"
              /\ \/ type \in CountEvents /\ count = Len(staged')
                 \/ type \notin CountEvents /\ UNCHANGED staged
              /\ job'.step = "idle" => type \in {"done", "failed"}
              /\ job'.step = "decision" <=> type = "decision"
              /\ type = "decision" => "unrepaired" \in faults
<1>1. job \in Job
  BY DEF TypeInv, TypeOK
<1>2. CASE ApplyNext
  BY <1>1, <1>2 DEF ApplyNext, Running, CountEvents, Job
<1>3. CASE Finish \/ LeaveOut
  <2>1. job' = Ended /\ job'.step = "idle" /\ UNCHANGED <<page, requests>> /\ Running
    BY <1>1, <1>3 DEF Finish, LeaveOut, Running, Ended, Job
  <2>2. Tells("done", Len(staged'))
    BY <1>3 DEF Finish, LeaveOut
  <2> QED
    BY <2>1, <2>2 DEF CountEvents
<1>4. CASE GiveUp
  BY <1>1, <1>4 DEF GiveUp, Running, Ended, CountEvents, Job
<1>5. CASE NeedsRepair \/ NeedsDecision
  BY <1>1, <1>5 DEF NeedsRepair, NeedsDecision, Running, CountEvents, Job
<1> QED
  BY <1>2, <1>3, <1>4, <1>5

LEMMA AgentUse ==
  ASSUME TypeInv, UseParts, faults \subseteq faults',
         ApplyNext \/ Finish \/ LeaveOut \/ GiveUp \/ NeedsRepair \/ NeedsDecision
  PROVE  UseParts'
<1>1. TypeOK /\ page' = page /\ requests' = requests /\ job.step \in {"applying", "repairing"}
  BY AgentReports DEF TypeInv, Running
<1>2. PICK type, count :
        /\ Tells(type, count) /\ type # "rolledBack"
        /\ \/ type \in CountEvents /\ count = Len(staged')
           \/ type \notin CountEvents /\ UNCHANGED staged
        /\ job'.step = "idle" => type \in {"done", "failed"}
        /\ job'.step = "decision" <=> type = "decision"
        /\ type = "decision" => "unrepaired" \in faults
  BY AgentReports
<1>3. CountComes' /\ DecisionLast'
  BY <1>1, <1>2, ToldUse
<1>4. FreeComes'
  <2>1. CASE job'.step = "idle"
    BY <1>1, <1>2, <2>1, ToldUse
  <2>2. CASE job'.step # "idle"
    BY <2>2 DEF FreeComes
  <2> QED
    BY <2>1, <2>2
<1>5. NoDeaf' /\ OneApart' /\ TrashShown'
  BY <1>1 DEF NoDeaf, OneApart, TrashShown, UseParts
<1>6. Decided'
  BY <1>1, <1>2, <1>3 DEF Decided, UseParts, Unheard
<1> QED
  BY <1>3, <1>4, <1>5, <1>6 DEF UseParts

LEMMA OtherTabUse ==
  ASSUME TypeInv, UseParts, faults \subseteq faults', OtherTabApplies
  PROVE  UseParts'
<1>1. /\ TypeOK /\ job.step = "idle" /\ staged # <<>> /\ Start /\ page' = page /\ requests' = requests
      /\ staged' = staged
  BY DEF TypeInv, OtherTabApplies, Start
<1>2. NoDeaf' /\ OneApart'
  BY <1>1 DEF UseParts, NoDeaf, OneApart
<1> QED
  BY <1>1, <1>2, StartUse

-----------------------------------------------------------------------------
(* What the page makes of it. *)

LEMMA AnsweredUse ==
  ASSUME TypeInv, UseParts, faults \subseteq faults', Watched', NEW i \in Slots, Answered(i)
  PROVE  UseParts'
<1> DEFINE r == requests[i]
<1>1. /\ TypeOK /\ Cleared(i) /\ UNCHANGED <<events, staged, job>> /\ r \in Request
      /\ r.kind \notin {"free", "rollback"} /\ r.step \in {"answered", "failed"}
      /\ AnsweredDock(page, page', r)
  BY AnsweredClears, AnswersDock DEF TypeInv, TypeOK, UseParts, OneApart
<1>2. ~Outdated(i)
  BY DEF Answered, Watched, Met
<1>3. /\ NoDeaf' /\ \A j \in Slots : j = i \/ requests'[j] = requests[j]
      /\ requests'[i].kind = "free" /\ requests'[i].step = "sent"
  BY <1>1, ClearedKeeps DEF UseParts, Cleared
<1>4. OneApart'
  BY <1>1, <1>3 DEF OneApart, UseParts
<1>5. r.kind \in {"stash", "count", "commit", "repair", "discard"}
  BY <1>1 DEF Request
<1>6. CASE r.kind \in {"stash", "count"} /\ r.step = "answered"
  <2>1. Counted(page, page', Len(staged))
    BY <1>1, <1>2, <1>6 DEF AnsweredDock, Outdated
  <2>2. CountComes' /\ TrashShown'
    BY <1>1, <2>1 DEF CountComes, TrashShown, UseParts, Latest, NoneOf, Counted
  <2>3. FreeComes'
    <3>1. Unlocked(page) => Unlocked(page')
      BY <2>1 DEF Counted, Unlocked
    <3> QED
      BY <1>1, <1>3, <1>6, <3>1 DEF FreeComes, UseParts, Latest, NoneOf, Unheard
  <2>4. page'.dock.asks => page.dock.asks
    BY <2>1 DEF Counted, Locked
  <2>5. Decided'
    BY <1>1, <1>3, <2>4 DEF Decided, DecisionLast, UseParts, Unheard
  <2> QED
    BY <1>3, <1>4, <2>2, <2>3, <2>5 DEF UseParts
<1>7. CASE \/ r.kind \in {"stash", "count", "discard"} /\ r.step = "failed"
           \/ r.kind = "commit" /\ r.step = "answered"
  <2>1. SameDock(page, page')
    BY <1>1, <1>7 DEF AnsweredDock
  <2>2. CountComes' /\ TrashShown'
    BY <1>1, <2>1 DEF CountComes, TrashShown, UseParts, Latest, NoneOf, SameDock
  <2>3. FreeComes'
    BY <1>1, <1>3, <1>7, <2>1 DEF FreeComes, UseParts, Latest, NoneOf, Unheard, Unlocked, SameDock
  <2>4. Decided'
    BY <1>1, <1>3, <2>1 DEF Decided, DecisionLast, UseParts, Unheard, SameDock
  <2> QED
    BY <1>3, <1>4, <2>2, <2>3, <2>4 DEF UseParts
<1>8. CASE r.kind = "commit" /\ r.step = "failed"
  <2>1. /\ Unlocked(page') /\ page'.dock.count = page.dock.count /\ (page'.dock.asks => page.dock.asks)
        /\ page'.dock.count # 0 =>
             page'.dock.trashShown = page.dock.trashShown /\ page'.dock.asks = page.dock.asks
    BY <1>1, <1>8 DEF AnsweredDock
  <2>2. CountComes' /\ TrashShown'
    BY <1>1, <2>1 DEF CountComes, TrashShown, UseParts, Latest, NoneOf
  <2>3. FreeComes'
    BY <1>1, <2>1 DEF FreeComes, UseParts, Latest, NoneOf
  <2>4. Decided'
    BY <1>1, <1>3, <2>1 DEF Decided, DecisionLast, UseParts, Unheard
  <2> QED
    BY <1>3, <1>4, <2>2, <2>3, <2>4 DEF UseParts
<1>9. CASE r.kind = "repair"
  <2>1. CASE r.step = "answered"
    <3>1. /\ page'.inFlight = page.inFlight /\ page'.stored = page.stored /\ page'.dock.count = page.dock.count
          /\ page'.dock.pill = page.dock.pill /\ page'.dock.trash = page.dock.trash
          /\ ~page'.dock.asks /\ page'.dock.trashShown
      BY <1>1, <1>9, <2>1 DEF AnsweredDock
    <3>2. CountComes' /\ TrashShown'
      BY <1>1, <3>1 DEF CountComes, TrashShown, UseParts, Latest, NoneOf
    <3>3. FreeComes'
      BY <1>1, <1>3, <1>9, <3>1 DEF FreeComes, UseParts, Latest, NoneOf, Unheard, Unlocked
    <3>4. Decided'
      BY <1>1, <1>3, <3>1 DEF Decided, DecisionLast, UseParts, Unheard
    <3> QED
      BY <1>3, <1>4, <3>2, <3>3, <3>4 DEF UseParts
  <2>2. CASE r.step = "failed"
    <3>1. Choice(page, page') /\ job.step = "decision" /\ events = <<>>
      BY <1>1, <1>9, <2>2 DEF AnsweredDock, UseParts, Decided, Unheard
    <3>2. CountComes' /\ TrashShown' /\ FreeComes'
      BY <1>1, <3>1 DEF CountComes, TrashShown, FreeComes, UseParts, Latest, NoneOf, Choice
    <3>3. \A j \in Slots : requests'[j].kind # "repair"
      BY <1>3, <1>9 DEF UseParts, OneApart
    <3>4. Decided'
      BY <1>1, <3>1, <3>3 DEF Decided, DecisionLast, UseParts
    <3> QED
      BY <1>3, <1>4, <3>2, <3>4 DEF UseParts
  <2> QED
    BY <1>1, <2>1, <2>2
<1>10. CASE r.kind = "discard" /\ r.step = "answered"
  <2>1. Unlocked(page') /\ page'.dock = NoDock /\ staged = <<>>
    BY <1>1, <1>10 DEF AnsweredDock, UseParts, OneApart
  <2>2. CountComes' /\ TrashShown' /\ ~page'.dock.asks
    BY <1>1, <2>1 DEF CountComes, TrashShown, NoDock
  <2>3. FreeComes'
    BY <1>1, <2>1 DEF FreeComes, UseParts, Latest, NoneOf
  <2>4. Decided'
    BY <1>1, <1>3, <2>2 DEF Decided, DecisionLast, UseParts, Unheard
  <2> QED
    BY <1>3, <1>4, <2>2, <2>3, <2>4 DEF UseParts
<1> QED
  BY <1>1, <1>5, <1>6, <1>7, <1>8, <1>9, <1>10

LEMMA HearUse ==
  ASSUME TypeInv, UseParts, Hear
  PROVE  UseParts'
<1> DEFINE e == events[1]
<1>1. /\ TypeOK /\ Len(events) \in Nat \ {0} /\ Len(events') = Len(events) - 1 /\ e \in Event
      /\ \A k \in 1..Len(events') : events'[k] = events[k + 1] /\ k + 1 \in 1..Len(events)
      /\ ShownDock(page, page', e)
      /\ IF e.type \in {"rolledBack", "failed", "discarded"} THEN Asked("count") ELSE UNCHANGED requests
      /\ UNCHANGED <<staged, job, faults>> /\ events # <<>>
  BY Delivered DEF TypeInv, Hear
<1>2. /\ \A j \in Slots : \/ requests'[j] = requests[j]
                          \/ /\ requests[j].kind = "free"
                             /\ requests'[j].kind = "count" /\ requests'[j].step = "sent"
  BY <1>1 DEF Asked
<1>3. NoDeaf' /\ OneApart'
  BY <1>1, <1>2 DEF UseParts, NoDeaf, OneApart
<1>4. /\ e.type \in (CountEvents \cup LockEvents \cup {"discarded"})
      /\ e.type = "decision" => Len(events) = 1 /\ job.step = "decision"
      /\ ~page.dock.asks
      /\ \A j \in Slots : requests[j].kind = "repair" => ~Unheard(j)
  BY <1>1 DEF UseParts, Decided, DecisionLast, Event, CountEvents, LockEvents
<1>5. page'.dock.count = IF e.type \in CountEvents THEN e.count ELSE page.dock.count
  BY <1>1, <1>4 DEF ShownDock, CountEvents, LockEvents, Counted, Locked, Choice
<1>6. /\ e.type \in {"done", "failed"} => Unlocked(page')
      /\ e.type \notin LockEvents /\ Unlocked(page) => Unlocked(page')
  BY <1>1, <1>4 DEF ShownDock, CountEvents, LockEvents, Counted, Unlocked
<1>7. page'.dock.asks => e.type = "decision"
  BY <1>1, <1>4 DEF ShownDock, CountEvents, LockEvents, Counted, Locked
<1>8. CountComes'
  <2> SUFFICES ASSUME staged # <<>> PROVE CountComes'
    BY <1>1 DEF CountComes
  <2>1. CASE NoneOf(CountEvents) /\ page.dock.count = Len(staged)
    <3>1. e.type \notin CountEvents /\ NoneOf(CountEvents)'
      BY <1>1, <2>1, LatestHeard DEF NoneOf
    <3> QED
      BY <1>1, <1>5, <2>1, <3>1 DEF CountComes
  <2>2. ASSUME NEW k \in 1..Len(events), Latest(k, CountEvents), events[k].count = Len(staged)
        PROVE  CountComes'
    <3>1. CASE k = 1
      <4>1. e.type \in CountEvents /\ e.count = Len(staged) /\ NoneOf(CountEvents)'
        BY <1>1, <2>2, <3>1, LatestHeard DEF Latest
      <4> QED
        BY <1>1, <1>5, <4>1 DEF CountComes
    <3>2. CASE k # 1
      BY <1>1, <2>2, <3>2, LatestHeard DEF CountComes
    <3> QED
      BY <3>1, <3>2
  <2> QED
    BY <2>1, <2>2 DEF UseParts, CountComes
<1>9. FreeComes'
  <2> SUFFICES ASSUME job.step = "idle" PROVE FreeComes'
    BY <1>1 DEF FreeComes
  <2>1. CASE NoneOf(LockEvents) /\ (Unlocked(page) \/ \E j \in Slots : requests[j].kind = "commit" /\ Unheard(j))
    <3>1. e.type \notin LockEvents /\ NoneOf(LockEvents)'
      BY <1>1, <2>1, LatestHeard DEF NoneOf
    <3>2. \A j \in Slots : requests[j].kind = "commit" => requests'[j] = requests[j]
      BY <1>2
    <3> QED
      BY <1>1, <1>6, <2>1, <3>1, <3>2 DEF FreeComes, Unheard
  <2>2. ASSUME NEW k \in 1..Len(events), Latest(k, LockEvents), events[k].type \in {"done", "failed"}
        PROVE  FreeComes'
    <3>1. CASE k = 1
      BY <1>1, <1>6, <2>2, <3>1, LatestHeard DEF FreeComes
    <3>2. CASE k # 1
      BY <1>1, <2>2, <3>2, LatestHeard DEF FreeComes
    <3> QED
      BY <3>1, <3>2
  <2> QED
    BY <2>1, <2>2 DEF UseParts, FreeComes
<1>10. DecisionLast'
  <2>1. \A k \in 1..Len(events') : events'[k] = events[k + 1] /\ k + 1 \in 1..Len(events)
                                    /\ (k + 1 = Len(events) => k = Len(events'))
    BY <1>1
  <2> QED
    BY <1>1, <2>1 DEF DecisionLast, Decided, UseParts
<1>11. page'.dock.asks => job.step = "decision" /\ events' = <<>>
  <2>1. Len(events) = 1 => Len(events') = 0 /\ events' = <<>>
    BY <1>1 DEF TypeOK, Hear
  <2> QED
    BY <1>4, <1>7, <2>1
<1>12. Decided'
  BY <1>1, <1>2, <1>4, <1>10, <1>11 DEF Decided, UseParts, Unheard
<1>13. TrashShown'
  BY <1>1, <1>4 DEF TrashShown, UseParts, ShownDock, CountEvents, LockEvents, Counted, Locked, Choice
<1> QED
  BY <1>3, <1>8, <1>9, <1>12, <1>13 DEF UseParts

-----------------------------------------------------------------------------
LEMMA UseInit == Init => UseInv
<1> SUFFICES ASSUME Init PROVE UseParts
  BY DEF UseInv
<1>1. /\ Unlocked(page) /\ ~page.dock.asks /\ page.dock.count = 0 /\ job.step = "idle" /\ staged = <<>>
      /\ \A i \in Slots : requests[i].kind = "free" /\ requests[i].step = "sent"
      /\ events = <<>> /\ Len(events) = 0
  BY DEF Init, Fresh, Free, NoDock, NoStored, Unlocked
<1> QED
  BY <1>1 DEF UseParts, NoDeaf, CountComes, FreeComes, NoneOf, OneApart, Decided, DecisionLast, TrashShown

LEMMA UseStep == TypeInv /\ UseInv /\ [Next]_vars => UseInv'
<1> SUFFICES ASSUME TypeInv, UseParts, [Next]_vars, Watched', faults \subseteq faults' PROVE UseParts'
  BY WatchedStays DEF UseInv
<1>1. ~StreamBreaks /\ ~Reload
  BY WatchedStays DEF StreamBreaks, Reload
<1>2. CASE UNCHANGED vars
  BY <1>2, UseStays DEF vars, SameDock
<1> QED
  BY <1>1, <1>2, UserEditUse, UserDockUse, TakeUse, LoseUse, AnsweredUse, AgentUse, OtherTabUse, HearUse
  DEF Next

\* What is saved stays in the user's hands: with everything heard, the dock counts all
\* the saved edits, and they can be applied or discarded (updatePendingCounter,
\* stopApplyLoading, showRepairDecision).
THEOREM SavedEditsStayUsable == Spec => []EditsStayUsable
<1>1. TypeInv /\ UseInv => EditsStayUsable
  <2> SUFFICES ASSUME TypeInv, UseInv, Quiet, Watched, staged # <<>>, job.step = "idle"
               PROVE  /\ page.dock.count = Len(staged)
                      /\ page.dock.pill /\ page.dock.trashShown /\ page.dock.trash
    BY DEF EditsStayUsable, Watched
  <2>1. /\ events = <<>> /\ Len(events) = 0 /\ \A i \in Slots : requests[i].kind = "free"
        /\ UseParts /\ TypeOK
    BY DEF Quiet, UseInv, TypeInv
  <2>2. page.dock.count = Len(staged) /\ Unlocked(page)
    BY <2>1 DEF UseParts, CountComes, FreeComes, Latest
  <2>3. Len(staged) # 0
    BY <2>1 DEF TypeOK
  <2>4. page.dock.trashShown
    BY <2>1, <2>2, <2>3 DEF UseParts, TrashShown, Decided
  <2> QED
    BY <2>2, <2>4 DEF Unlocked
<1>2. Init => TypeInv /\ UseInv
  BY TypeInit, UseInit
<1>3. TypeInv /\ UseInv /\ [Next]_vars => (TypeInv /\ UseInv)'
  BY TypeStep, UseStep
<1> QED
  BY <1>1, <1>2, <1>3, PTL DEF Spec
=============================================================================
