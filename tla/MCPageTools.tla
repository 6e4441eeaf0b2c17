------------------------------ MODULE MCPageTools ------------------------------
(* Thirteen settings: a user with the tools and no targets, on a column of two      *)
(* elements that look alike or a row; the line in five layouts; one tab           *)
(* with two targets and a step of the user; two tabs with one target; a target    *)
(* and a dry one; one target with two kinds of trouble and a step of the user;    *)
(* one target that finds the insert tool in use; a session of the insert tool and *)
(* one kind of trouble.                                                           *)
EXTENDS PageTools

CONSTANTS w1, w2, t1, t2, t3, el1, el2, el3, el4, NoT, GoneT
MCTabs    == {w1, w2}
MCTargets == {t1, t2, t3}

PointAt(e, x, y) == [over |-> e, x |-> x, y |-> y]
Area(left, top, width, height) == [left |-> left, top |-> top, width |-> width, height |-> height]
Box(left, top) == Area(left, top, 100, 100)
Itself(s) == [e \in Range(s) |-> {e}]

Column == [siblings |-> <<el1, el2>>, display |-> "block", flow |-> "column", width |-> 100, share |-> 100,
           points |-> <<PointAt(el1, 20, 20), PointAt(el1, 20, 70), PointAt(el1, 20, 95), PointAt(el2, 20, 125), PointAt(el2, 20, 200)>>,
           rect |-> el1 :> Box(0, 0) @@ el2 :> Box(0, 120), like |-> [e \in {el1, el2} |-> {el1, el2}]]
Row    == [siblings |-> <<el1, el2>>, display |-> "flex", flow |-> "row", width |-> 260, share |-> 80,
           points |-> <<PointAt(el1, 20, 20), PointAt(el1, 70, 20), PointAt(el1, 95, 20), PointAt(el2, 125, 20), PointAt(el2, 200, 20)>>,
           rect |-> el1 :> Box(0, 0) @@ el2 :> Box(120, 0), like |-> Itself(<<el1, el2>>)]

\* For the line: points at the edges of each element, at the ends of the slop and
\* around the middle, along one axis; at the edges and the middle along the other.
Around(low, high) ==
  <<low, low + Slop, low + Slop + 1, (low + high) \div 2 - 1, (low + high) \div 2, (low + high) \div 2 + 1,
    high - Slop - 1, high - Slop, high - 1>>
Across(low, high) == <<low, (low + high) \div 2, high - 1>>
PointsOver(s, rect) ==
  [n \in 1..54 * Len(s) |->
    LET e == s[(n - 1) \div 54 + 1]
        r == rect[e]
        i == ((n - 1) % 9) + 1
        j == (((n - 1) \div 9) % 3) + 1
    IN IF ((n - 1) \div 27) % 2 = 0
       THEN PointAt(e, Around(r.left, Right(r))[i], Across(r.top, Bottom(r))[j])
       ELSE PointAt(e, Across(r.left, Right(r))[j], Around(r.top, Bottom(r))[i])]
Lines(s, display, flow, rect) ==
  [siblings |-> s, display |-> display, flow |-> flow, width |-> 100, share |-> 100,
   points |-> PointsOver(s, rect), rect |-> rect, like |-> Itself(s)]
Three   == <<el1, el2, el3>>
Stacked == el1 :> Box(0, 0) @@ el2 :> Box(0, 120) @@ el3 :> Box(0, 220)
Thin    == el1 :> Area(0, 0, 100, 24) @@ el2 :> Area(0, 36, 100, 20) @@ el3 :> Area(0, 60, 100, 30)
Narrow  == el1 :> Box(0, 0) @@ el2 :> Area(120, 0, 24, 100) @@ el3 :> Area(164, 0, 25, 60)
Square  == el1 :> Box(0, 0) @@ el2 :> Box(120, 0) @@ el3 :> Box(0, 120) @@ el4 :> Box(120, 120)
LineLayouts == {Lines(Three, "block", "column", Stacked), Lines(Three, "block", "column", Thin),
                Lines(Three, "grid", "row", Stacked), Lines(Three, "flex", "row", Narrow),
                Lines(<<el1, el2, el3, el4>>, "flex", "row", Square)}

MCDrags  == {[edge |-> "e", dx |-> 60, dy |-> 0], [edge |-> "w", dx |-> -90, dy |-> 0],
             [edge |-> "w", dx |-> 90, dy |-> 0], [edge |-> "n", dx |-> 0, dy |-> 50]}

\* The same with one point, for the settings about targets and reloads.
Plain == [Column EXCEPT !.points = <<PointAt(el1, 20, 70)>>]
Alike == [Column EXCEPT !.points = <<PointAt(el2, 20, 200)>>]

From(l, ws, ts, user, trouble, insert) ==
  [layout |-> l, tabs |-> ws, targets |-> ts, user |-> user, trouble |-> trouble, insert |-> insert]
MCSettings == {From(Column, {w1}, {}, 6, 0, TRUE), From(Row, {w1}, {}, 6, 0, TRUE),
               From(Plain, {w1}, {t1, t2}, 1, 0, FALSE), From(Plain, {w1, w2}, {t1}, 0, 1, FALSE),
               From(Plain, {w1}, {t1, t3}, 0, 1, FALSE), From(Plain, {w1}, {t1}, 1, 2, FALSE),
               From(Plain, {w1}, {t1}, 2, 0, TRUE), From(Alike, {w1}, {}, 3, 1, TRUE)}
              \cup {From(l, {w1}, {}, 0, 0, TRUE) : l \in LineLayouts}
=============================================================================
