-------------------------------- MODULE Tiles --------------------------------
(***************************************************************************)
(* From a strip to rectangles: how the windows of a column share its       *)
(* height, where columns that are scrolled away are put, and how windows   *)
(* that are not to be seen are kept off the other monitors.                *)
(*                                                                         *)
(* A strip of two columns: the first with up to three windows, stacked or  *)
(* in tabs, the second with one.  Weights are parts of `Whole`.            *)
(***************************************************************************)
EXTENDS Integers, Sequences, FiniteSets, FiniteSetsExt, SequencesExt

CONSTANTS
    MaxOps,       \* commands and events of a run
    Presets,      \* height_presets
    Offsets,      \* scroll offsets
    Minima,       \* heights a window may insist on
    Desks,        \* the other monitors' rectangles: a set of sets
    Columns       \* widths of the two columns

\* What the parameters have to be; assumed where the module is instantiated.
TilesAssumption ==
    /\ MaxOps \in Nat /\ Offsets \subseteq Int /\ Minima \subseteq Nat
    /\ Presets \subseteq 1..120000 /\ Columns \in [1..2 -> Nat \ {0}]

VARIABLES
    rows,     \* the first column: a sequence of [id, weight, min, out]
    tab,      \* its mode: none, or the active tab
    at,       \* focused_window_in_column
    scene,    \* [pos, full, others]: the offset, the fullscreen window, the monitors
    ops       \* (bound) and how a height was cycled last: [n, way]

tilesVars == <<rows, tab, at, scene, ops>>

Whole == 120000
Tolerance == 600                  \* 0.005
Gap == 10
Outer == 10
Reserve == 24                     \* tab_strip_reserve_px
View == [x |-> 0, y |-> 0, w |-> 1000, h |-> 600]
Sentinel == -32000                \* MOVE_OFFSCREEN_SENTINEL_COORD
Second == 4                       \* the window of the second column

Least(a, b) == IF a < b THEN a ELSE b
Most(a, b) == IF a < b THEN b ELSE a
Rect(x, y, w, h) == [x |-> x, y |-> y, w |-> Most(0, w), h |-> Most(0, h)]
Meets(a, b) == a.x < b.x + b.w /\ a.x + a.w > b.x /\ a.y < b.y + b.h /\ a.y + a.h > b.y

(***************************************************************************)
(* Weights.                                                                *)
(***************************************************************************)
Reweighted(rs, f(_)) == [i \in DOMAIN rs |-> [rs[i] EXCEPT !.weight = f(i)]]
Equalized(rs) == Reweighted(rs, LAMBDA i : Whole \div Len(rs))
SumOver(rs, is) == MapThenSumSet(LAMBDA i : rs[i].weight, is)
WeightOf(rs) == SumOver(rs, DOMAIN rs)
Normalized(rs) == Reweighted(rs, LAMBDA i : ((rs[i].weight * 12000) \div WeightOf(rs)) * (Whole \div 12000))

\* set_height_weight: the siblings share the rest, and keep a twentieth each.
Floor == Whole \div 20
Ceiling(rs) == Whole - (Len(rs) - 1) * Floor
Weighted(rs, i, w) ==
    LET mine == Most(Floor, Least(w, Ceiling(rs)))
    IN  IF Len(rs) <= 1 THEN rs
        ELSE Reweighted(rs, LAMBDA j : IF j = i THEN mine ELSE (Whole - mine) \div (Len(rs) - 1))

\* cycle_preset
Above(w) == {p \in Presets : p > w + Tolerance}
Below(w) == {p \in Presets : p < w - Tolerance}
Next1(w, way) == IF way = "down" THEN IF Below(w) = {} THEN {} ELSE {Max(Below(w))}
                 ELSE IF Above(w) # {} THEN {Min(Above(w))}
                 ELSE IF way = "wrap" THEN {Min(Presets)} ELSE {}

\* (Variant: a preset the siblings' share leaves no room for is taken as reached.)
CycledPlainly(rs, i, way) ==
    IF Next1(rs[i].weight, way) = {} THEN rs
    ELSE Weighted(rs, i, CHOOSE p \in Next1(rs[i].weight, way) : TRUE)
\* cycle_height_impl: a larger preset that is cut back to where the window
\* already was wraps round.
Cycled(rs, i, way) ==
    IF Next1(rs[i].weight, way) = {} THEN rs
    ELSE LET p == CHOOSE x \in Next1(rs[i].weight, way) : TRUE
             once == Weighted(rs, i, p)
         IN  IF way = "wrap" /\ p > rs[i].weight /\ once[i].weight <= rs[i].weight
             THEN Weighted(once, i, Min(Presets)) ELSE once

(***************************************************************************)
(* Rectangles.                                                             *)
(***************************************************************************)
Placed(id, rect, vis) == [id |-> id, rect |-> rect, vis |-> vis]
ShownRows(rs, t) ==
    LET up == {i \in DOMAIN rs : ~rs[i].out}
    IN  IF t = {} THEN up
        ELSE IF t \subseteq up THEN t ELSE IF up = {} THEN {} ELSE {Min(up)}

\* How tall each row is: minima first, the rest by weight; the last takes what
\* is left, or what it needs.
Round(n, d) == (2 * n + d) \div (2 * d)
HeightOf(rs, is, i, room) ==
    LET flex == Most(0, room - MapThenSumSet(LAMBDA j : rs[j].min, is))
        sharing == {j \in is : rs[j].min = 0}
    IN  IF rs[i].min > 0 THEN rs[i].min
        ELSE IF SumOver(rs, sharing) > 0 THEN Round(flex * (rs[i].weight \div 10), SumOver(rs, sharing) \div 10)
        ELSE room \div Most(1, Cardinality(is))
Top(t) == View.y + Outer + (IF t = {} THEN 0 ELSE Reserve)
Room(rs, t) == LET n == Cardinality(ShownRows(rs, t))
               IN  Most(0, Most(0, View.y + View.h - Outer - Top(t)) - (IF n > 1 THEN Gap * (n - 1) ELSE 0))
RowY(rs, t, i) ==
    LET is == ShownRows(rs, t)
    IN  Top(t) + MapThenSumSet(LAMBDA j : HeightOf(rs, is, j, Room(rs, t)) + Gap, {j \in is : j < i})
RowH(rs, t, i) ==
    LET is == ShownRows(rs, t)
    IN  IF i = Max(is) THEN Most(Most(0, View.y + View.h - Outer - RowY(rs, t, i)), rs[i].min)
        ELSE HeightOf(rs, is, i, Room(rs, t))

\* A column out of view is kept beyond the padding, too.
Aside(x, w, vis) == IF vis = "right" THEN Most(x, View.x + View.w)
                    ELSE IF vis = "left" THEN Least(x, View.x - w) ELSE x
Column(strip, w) ==
    LET vis == IF strip + w <= scene.pos THEN "left"
               ELSE IF strip >= scene.pos + View.w - 2 * Outer THEN "right" ELSE "visible"
    IN  [x |-> Aside(strip - scene.pos + View.x + Outer, w, vis), w |-> w, vis |-> vis]

\* compute_non_fullscreen_placements
Strip ==
    LET is == ShownRows(rows, tab)
        one == Column(0, Columns[1])
        two == Column(IF is = {} THEN 0 ELSE Columns[1] + Gap, Columns[2])
        hidden == IF tab = {} THEN {} ELSE {i \in DOMAIN rows : ~rows[i].out} \ is
    IN  {Placed(rows[i].id, Rect(one.x, RowY(rows, tab, i), one.w, RowH(rows, tab, i)), one.vis) : i \in is}
          \cup {Placed(rows[i].id, Rect(View.x - View.w, View.y, 0, 0), "left") : i \in hidden}
          \cup {Placed(Second, Rect(two.x, View.y + Outer, two.w, View.h - 2 * Outer), two.vis)}

\* compute_fullscreen_placements: the others keep their rectangles.
Placements ==
    IF \E p \in Strip : {p.id} = scene.full
    THEN {IF {p.id} = scene.full THEN Placed(p.id, View, "visible") ELSE [p EXCEPT !.vis = "left"] : p \in Strip}
    ELSE Strip

(***************************************************************************)
(* The other monitors.                                                     *)
(***************************************************************************)
\* offscreen_park_rect: left of, and above, every monitor.
Park(r) ==
    Rect(Min({Sentinel} \cup {m.x - Most(1, r.w) : m \in scene.others \cup {View}}),
         Min({Sentinel} \cup {m.y - Most(1, r.h) : m \in scene.others \cup {View}}), r.w, r.h)
\* park_offscreen_avoiding_neighbors
Bleeds(p) == p.vis # "visible" /\ \E m \in scene.others : Meets(p.rect, m)
Parked(ps) == {IF Bleeds(p) THEN [p EXCEPT !.rect = Park(p.rect)] ELSE p : p \in ps}

\* project_physical_rect: cut at the edges shared with a monitor it lies on;
\* what nothing remains of is parked.
Overlap(a, al, b, bl) == Most(0, Least(a + al, b + bl) - Most(a, b))
Projected(r) ==
    LET touching == {m \in scene.others : Meets(r, m)}
        right == \E m \in touching : m.x = View.x + View.w /\ Overlap(View.y, View.h, m.y, m.h) > 0
        left == \E m \in touching : m.x + m.w = View.x /\ Overlap(View.y, View.h, m.y, m.h) > 0
        below == \E m \in touching : m.y = View.y + View.h /\ Overlap(View.x, View.w, m.x, m.w) > 0
        above == \E m \in touching : m.y + m.h = View.y /\ Overlap(View.x, View.w, m.x, m.w) > 0
        x0 == IF left THEN Most(r.x, View.x) ELSE r.x
        x1 == IF right THEN Least(r.x + r.w, View.x + View.w) ELSE r.x + r.w
        y0 == IF above THEN Most(r.y, View.y) ELSE r.y
        y1 == IF below THEN Least(r.y + r.h, View.y + View.h) ELSE r.y + r.h
    IN  [x |-> x0, y |-> y0, w |-> x1 - x0, h |-> y1 - y0]
Gone(r) == Projected(r).w <= 0 \/ Projected(r).h <= 0

\* apply_physical_projection: an exempt window is left alone.
Physical(p) ==
    IF p.vis # "visible" \/ {p.id} = scene.full \/ ~Gone(p.rect) THEN p
    ELSE [p EXCEPT !.rect = Park(p.rect), !.vis = "right"]
OnScreen == {Physical(p) : p \in {q \in Parked(Placements) : q.vis # "visible" \/ (q.rect.w > 0 /\ q.rect.h > 0)}}

(***************************************************************************)
(* Commands and events.                                                    *)
(***************************************************************************)
StepOf(way) == ops.n < MaxOps /\ ops' = [n |-> ops.n + 1, way |-> way]
Step == StepOf("none")
Rows(rs, t, f) == rows' = rs /\ tab' = t /\ at' = f /\ UNCHANGED scene

\* Nothing to share in a column of one, nothing to see of it in tabs.
CanShare == Len(rows) > 1 /\ tab = {}
CycleHeight ==
    /\ CanShare
    /\ \E way \in {"up", "down", "wrap"} : StepOf(way) /\ Rows(Cycled(rows, at, way), tab, at)
EqualizeHeights == Step /\ tab = {} /\ Rows(Equalized(rows), tab, at)

\* snap_window_height_to_preset, from the height the user left
Dist(a, b) == IF a < b THEN b - a ELSE a - b
SnapHeight ==
    /\ Step /\ CanShare
    /\ \E i \in ShownRows(rows, tab), h \in {40, 300, 580} :
         LET room == View.h - 2 * Outer - Gap * (Len(rows) - 1)
             w == (h * (Whole \div 100) * 100) \div room
             near == CHOOSE p \in Presets : \A q \in Presets :
                        Dist(p, w) < Dist(q, w) \/ (Dist(p, w) = Dist(q, w) /\ p <= q)
         IN  Rows(Weighted(rows, i, near), tab, at)

ToggleTabs ==
    /\ Step
    /\ IF tab = {} THEN Len(rows) >= 2 /\ Rows(rows, {at}, at) ELSE Rows(rows, {}, at)
FocusRow ==
    /\ Step
    /\ \E i \in ShownRows(rows, {}) \ {at} : Rows(rows, IF tab = {} THEN {} ELSE {i}, i)

\* remove_window: weights are scaled up, the active tab stays on its window.
Leave ==
    /\ Step /\ Len(rows) > 1
    /\ \E i \in DOMAIN rows :
         LET rs == Normalized(RemoveAt(rows, i))
             moved(n) == IF n > i THEN n - 1 ELSE Least(n, Len(rs))
         IN  Rows(rs, IF Len(rs) <= 1 THEN {} ELSE {moved(n) : n \in tab}, moved(at))
Join ==
    /\ Step /\ Len(rows) < 3
    /\ \E i \in 1..(Len(rows) + 1), n \in (1..3) \ {rows[j].id : j \in DOMAIN rows} :
         Rows(Equalized(InsertAt(rows, i, [id |-> n, weight |-> 0, min |-> 0, out |-> FALSE])),
              {IF i <= t THEN t + 1 ELSE t : t \in tab}, IF i <= at THEN at + 1 ELSE at)
SwapRows ==
    /\ Step /\ at > 1
    /\ Rows([rows EXCEPT ![at] = rows[at - 1], ![at - 1] = rows[at]], {at - 1 : t \in tab}, at - 1)

\* A minimum is measured; a window is minimized or restored and its column's
\* minima are measured again.
Insist ==
    /\ Step
    /\ \E i \in ShownRows(rows, tab), m \in Minima : m # rows[i].min /\ Rows([rows EXCEPT ![i].min = m], tab, at)
Forgotten(rs) == [i \in DOMAIN rs |-> [rs[i] EXCEPT !.min = 0]]
Minimize ==
    /\ Step
    /\ \E i \in DOMAIN rows : ~rows[i].out /\ Rows([Forgotten(rows) EXCEPT ![i].out = TRUE], tab, at)
    /\ scene.full = {}
Restore ==
    /\ Step
    /\ \E i \in DOMAIN rows : rows[i].out /\ Rows([rows EXCEPT ![i].out = FALSE, ![i].min = 0], tab, at)

Scroll == Step /\ (\E p \in Offsets : scene' = [scene EXCEPT !.pos = p]) /\ UNCHANGED <<rows, tab, at>>
Fullscreen ==
    /\ Step
    /\ scene' = [scene EXCEPT !.full = IF @ # {} THEN {} ELSE {rows[at].id}]
    /\ UNCHANGED <<rows, tab, at>>
Replug == Step /\ (\E d \in Desks : scene' = [scene EXCEPT !.others = d]) /\ UNCHANGED <<rows, tab, at>>

Init ==
    /\ rows = Equalized([i \in 1..3 |-> [id |-> i, weight |-> 0, min |-> 0, out |-> FALSE]])
    /\ tab = {} /\ at = 1 /\ ops = [n |-> 0, way |-> "none"]
    /\ \E d \in Desks : scene = [pos |-> 0, full |-> {}, others |-> d]

Next ==
    \/ CycleHeight \/ EqualizeHeights \/ SnapHeight \/ ToggleTabs \/ FocusRow
    \/ Leave \/ Join \/ SwapRows \/ Insist \/ Minimize \/ Restore
    \/ Scroll \/ Fullscreen \/ Replug

TilesSpec == Init /\ [][Next]_tilesVars

(***************************************************************************)
(* Properties.                                                             *)
(***************************************************************************)
\* The rows one sees tile the column from top to bottom, a gap between each
\* two, none vanishing, each as tall as it insists, whenever the minima leave
\* every other row a share.
RowsFill ==
    LET is == ShownRows(rows, tab)
        room == Room(rows, tab)
        fits == MapThenSumSet(LAMBDA i : Most(rows[i].min, 40), is) <= room
    IN  fits => \A i \in is :
          /\ RowH(rows, tab, i) >= Most(1, rows[i].min)
          /\ i = Max(is) => RowY(rows, tab, i) + RowH(rows, tab, i) <= View.y + View.h - Outer + Cardinality(is)

\* Shares stay shares, whatever was cycled, snapped, swapped, added or removed:
\* they sum to the whole and nobody's falls below a twentieth.
SharesKept ==
    /\ Dist(WeightOf(rows), Whole) <= 100
    /\ Len(rows) > 1 => \A i \in DOMAIN rows : rows[i].weight >= Floor - 100

\* What is not to be seen meets no monitor but, under a fullscreen window, its
\* own; what is to be seen meets its own, and no two such windows meet.
HiddenIsAway ==
    \A p \in OnScreen :
       IF p.vis = "visible"
       THEN /\ Meets(p.rect, View)
            /\ \A q \in OnScreen : q.vis = "visible" /\ q # p => ~Meets(p.rect, q.rect)
       ELSE /\ \A m \in scene.others : ~Meets(p.rect, m)
            /\ scene.full = {} => ~Meets(p.rect, View)

\* Cycling through the heights never gets stuck while there are two to have.
CyclingMoves ==
    ops'.n # ops.n /\ ops'.way = "wrap" /\ Cardinality(Presets) > 1 => rows'[at].weight # rows[at].weight

TilesSound == RowsFill /\ SharesKept /\ HiddenIsAway
=============================================================================
