---------------------------- MODULE InsertPlacement ----------------------------
(***************************************************************************)
(* Where live mode's insert tool puts a new element, and how its           *)
(* placeholder is sized (.skills/impeccable/scripts/live-browser.js).      *)
(*                                                                         *)
(* A layout is a parent with its children in document order: "siblings",   *)
(* "rect" (the box of each), "like" (those with the tag, the class and the *)
(* first words of each, itself among them), "display" and "flow" of the    *)
(* parent's style, "width" of the parent and "share", the width a flex or  *)
(* grid parent gives to one more child.  All lengths are whole pixels.     *)
(***************************************************************************)
EXTENDS Integers, Sequences, FiniteSets, SequencesExt, FiniteSetsExt

PLACEHOLDER_DEFAULT_HEIGHT == 80
PLACEHOLDER_MIN_HEIGHT     == 48
PLACEHOLDER_MIN_WIDTH      == 120
Slop                       == 12   \* how far beside a gap still points at it
RowThreshold               == 8    \* how far apart the tops of one row's boxes may be

Right(r)  == r.left + r.width
Bottom(r) == r.top + r.height

\* A grid that flows by rows is a row even when it has one column.
DetectAxis(layout) == IF layout.display = "block" THEN "column" ELSE layout.flow

ComputePositionFar(at, r, axis) ==   \* mutant: the far edge counts, not the middle
  LET first == IF axis = "row" THEN r.width > 0 /\ at.x < Right(r)
               ELSE r.height > 0 /\ at.y < Bottom(r)
  IN IF first THEN "before" ELSE "after"

ComputePosition(at, r, axis) ==
  LET first == IF axis = "row" THEN r.width > 0 /\ 2 * at.x < 2 * r.left + r.width
               ELSE r.height > 0 /\ 2 * at.y < 2 * r.top + r.height
  IN IF first THEN "before" ELSE "after"

TopDown(layout, S) ==
  SetToSortSeq(S, LAMBDA e, g : LET q == layout.rect[e]  r == layout.rect[g]
                                IN IF q.top = r.top THEN q.left < r.left ELSE q.top < r.top)
LeftToRight(layout, S) ==
  SetToSortSeq(S, LAMBDA e, g : LET q == layout.rect[e]  r == layout.rect[g]
                                IN IF q.left = r.left THEN q.top < r.top ELSE q.left < r.left)

ByTop(layout) == TopDown(layout, Range(layout.siblings))

\* An element joins the first row whose first element starts about as high.
JoinRow(layout, rows, e) ==
  LET near(i) == LET d == layout.rect[e].top - layout.rect[Head(rows[i])].top
                 IN d <= RowThreshold /\ -d <= RowThreshold
      fit     == {i \in DOMAIN rows : near(i)}
  IN IF fit = {} THEN Append(rows, <<e>>) ELSE [rows EXCEPT ![Min(fit)] = Append(@, e)]

SiblingRows(layout) ==
  FoldLeft(LAMBDA rows, e : JoinRow(layout, rows, e), <<>>, ByTop(layout))

Neighbours(s) == [i \in 1..(Len(s) - 1) |-> <<s[i], s[i + 1]>>]

\* The gap is as long as the sides that face each other, a quarter of the shorter
\* one at least, and the pointer is in it or within the slop.
InGap(from, to, low, high, smaller, along, across) ==
  /\ from < to
  /\ 4 * (high - low) >= smaller
  /\ along >= from - Slop /\ along <= to + Slop
  /\ across >= low - Slop /\ across <= high + Slop

InRowGap(a, b, at) ==
  InGap(Right(a), b.left, Max({a.top, b.top}), Min({Bottom(a), Bottom(b)}),
        Min({a.height, b.height}), at.x, at.y)

InColumnGap(a, b, at) ==
  InGap(Bottom(a), b.top, Max({a.left, b.left}), Min({Right(a), Right(b)}),
        Min({a.width, b.width}), at.y, at.x)

\* The pairs of neighbours the pointer is between, in a row or else from top to bottom.
HitGaps(layout, at) ==
  LET r         == layout.rect
      inRow(p)  == InRowGap(r[p[1]], r[p[2]], at)
      inCol(p)  == InColumnGap(r[p[1]], r[p[2]], at)
      rows      == SiblingRows(layout)
      rowPairs  == FlattenSeq([i \in DOMAIN rows |->
                     Neighbours(LeftToRight(layout, Range(rows[i])))])
  IN [row |-> SelectSeq(rowPairs, inRow), column |-> SelectSeq(Neighbours(ByTop(layout)), inCol)]

\* The anchor, the side of it and the axis of the line; "target" is the sibling under
\* the pointer.
ResolveInsertHover(layout, target, at) ==
  LET gaps == HitGaps(layout, at)
      axis == DetectAxis(layout)
  IN IF gaps.row # <<>> THEN [anchor |-> Head(gaps.row)[2], position |-> "before", axis |-> "row"]
     ELSE IF gaps.column # <<>>
     THEN [anchor |-> Head(gaps.column)[2], position |-> "before", axis |-> "column"]
     ELSE [anchor |-> target, position |-> ComputePosition(at, layout.rect[target], axis), axis |-> axis]

\* The first element that looks like e: where an anchor is that was rendered anew.
FirstLike(layout, e) ==
  LET s == layout.siblings IN s[Min({i \in DOMAIN s : s[i] \in layout.like[e]})]

\* What the placeholder's width is, and whether the layout decides it.
PlaceholderSizing(layout, axis) ==
  IF axis = "row" /\ layout.display # "block" THEN [width |-> layout.share, implicit |-> TRUE]
  ELSE IF layout.width >= PLACEHOLDER_MIN_WIDTH
       THEN [width |-> layout.width, implicit |-> TRUE]
       ELSE [width |-> PLACEHOLDER_MIN_WIDTH, implicit |-> FALSE]

\* A placeholder: where it is, and its size and margins.
Placeholder(layout, place) ==
  LET sizing == PlaceholderSizing(layout, place.axis)
  IN [anchor |-> place.anchor, position |-> place.position, axis |-> place.axis,
      width |-> sizing.width, implicit |-> sizing.implicit,
      height |-> PLACEHOLDER_DEFAULT_HEIGHT, marginLeft |-> 0, marginTop |-> 0]

MaterializeWidth(b) ==
  IF b.implicit THEN [b EXCEPT !.width = Max({PLACEHOLDER_MIN_WIDTH, @}), !.implicit = FALSE] ELSE b

ClampWidth(width, parentWidth) ==
  Min({Max({PLACEHOLDER_MIN_WIDTH, parentWidth}), Max({PLACEHOLDER_MIN_WIDTH, width})})
ClampHeight(height) == Max({PLACEHOLDER_MIN_HEIGHT, height})

ResizeFromEdgeUnclamped(box, edge, dx, dy, parentWidth) ==   \* mutant: the margin follows the pointer, not the size
  LET b      == MaterializeWidth(box)
      width  == ClampWidth(CASE edge = "e" -> b.width + dx [] edge = "w" -> b.width - dx
                             [] OTHER -> b.width, parentWidth)
      height == ClampHeight(CASE edge = "s" -> b.height + dy [] edge = "n" -> b.height - dy
                              [] OTHER -> b.height)
  IN [b EXCEPT !.width = width, !.height = height,
               !.marginLeft = IF edge = "w" THEN @ + dx ELSE @,
               !.marginTop = IF edge = "n" THEN @ + dy ELSE @]

\* The side opposite to the dragged one stays where it is.
ResizeFromEdge(box, edge, dx, dy, parentWidth) ==
  LET b      == MaterializeWidth(box)
      width  == ClampWidth(CASE edge = "e" -> b.width + dx [] edge = "w" -> b.width - dx
                             [] OTHER -> b.width, parentWidth)
      height == ClampHeight(CASE edge = "s" -> b.height + dy [] edge = "n" -> b.height - dy
                              [] OTHER -> b.height)
  IN [b EXCEPT !.width = width, !.height = height,
               !.marginLeft = IF edge = "w" THEN @ + b.width - width ELSE @,
               !.marginTop = IF edge = "n" THEN @ + b.height - height ELSE @]
=============================================================================
