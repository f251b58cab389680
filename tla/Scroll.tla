------------------------------- MODULE Scroll -------------------------------
(***************************************************************************)
(* Widths and scrolling of one strip: requested widths and the minima its  *)
(* windows turn out to have, presets, maximizing, equalizing, a change of  *)
(* display or gaps and back, and the offset that shows the focused column. *)
(*                                                                         *)
(* Every column holds one window.  Sizes are pixels.  A fraction is a pair *)
(* <<numerator, denominator>>; the code's floats carry them exactly enough *)
(* for every rounding taken here.                                          *)
(***************************************************************************)
EXTENDS Integers, Sequences, FiniteSets, FiniteSetsExt

CONSTANTS
    MaxOps,       \* commands and events of a run
    Widths,       \* the columns' requested widths at the start
    Needs,        \* native minima a window can have
    Geometries,   \* [view, gap]: work area widths and gaps
    Presets,      \* width_presets, sorted
    Modes,        \* [center, past, single]: the layout options
    Deltas        \* by how much a column is resized, or the strip scrolled

\* What the parameters have to be; assumed where the module is instantiated.
ScrollAssumption ==
    /\ MaxOps \in Nat /\ Needs \cup Deltas \subseteq Nat /\ Widths \in Seq(Nat) /\ Widths # <<>>
    /\ Modes \subseteq [center : {"always", "never", "overflow"}, past : BOOLEAN, single : BOOLEAN]

VARIABLES
    strip,   \* [cols, focus, pos, anim, maxed, geo]; see Init
    mode,    \* CenteringMode, center_past_edges, center_single_column
    past     \* (ghost) [ops, seen, before, preview]

scrollVars == <<strip, mode, past>>

Least == 100    \* MIN_COLUMN_WIDTH
Outer == 10     \* the outer gap on either side
FarLeft == -1000000

AtLeast(n, w) == IF w < n THEN n ELSE w
Clamped(x, lo, hi) == IF x < lo THEN lo ELSE IF x > hi THEN hi ELSE x
Width(w) == AtLeast(Least, w)
Eff(c) == AtLeast(c.min, c.w)

(***************************************************************************)
(* The strip: where columns are, how far it can scroll.                    *)
(***************************************************************************)
Visible(s) == AtLeast(0, s.geo.view - 2 * Outer)
WidthBase(g) == AtLeast(0, g.view - 2 * Outer + g.gap)
ActiveOf(s) == {i \in DOMAIN s.cols : ~s.cols[i].out}
Span(s, is) == MapThenSumSet(LAMBDA i : Eff(s.cols[i]) + s.geo.gap, is)
ColumnX(s, i) == Span(s, {j \in ActiveOf(s) : j < i})
TotalWidth(s) == IF ActiveOf(s) = {} THEN 0 ELSE Span(s, ActiveOf(s)) - s.geo.gap
MaxScroll(s) == AtLeast(0, TotalWidth(s) - Visible(s))

\* scroll_bounds: the only active column, when it fits, is pinned to the middle.
Bounds(s, lo, hi) ==
    IF mode.single /\ \E i \in ActiveOf(s) : ActiveOf(s) = {i} /\ Eff(s.cols[i]) <= Visible(s)
    THEN LET i == CHOOSE j \in ActiveOf(s) : TRUE
             offset == -((Visible(s) - Eff(s.cols[i])) \div 2)
         IN  <<offset, offset>>
    ELSE <<lo, hi>>
InBounds(s, x, lo, hi) == LET b == Bounds(s, lo, hi) IN Clamped(x, b[1], b[2])

(***************************************************************************)
(* The offset and its animation.  Easing is reduced to one point half way. *)
(***************************************************************************)
Current(s) == IF s.anim = {} THEN s.pos
              ELSE LET a == CHOOSE x \in s.anim : TRUE
                   IN  IF a.half THEN a.from + (a.to - a.from) \div 2 ELSE a.from
Target(s) == IF s.anim = {} THEN s.pos ELSE (CHOOSE x \in s.anim : TRUE).to

Cancelled(s) == [s EXCEPT !.pos = Current(s), !.anim = {}]
ScrollTo(s, x) ==
    IF Current(s) = x THEN [s EXCEPT !.pos = x, !.anim = {}]
    ELSE [s EXCEPT !.anim = {[from |-> Current(s), to |-> x, half |-> FALSE]}]

Centers(s) == \/ mode.center = "always"
              \/ mode.center = "overflow" /\ Eff(s.cols[s.focus]) > Visible(s)
LeftX(s) == ColumnX(s, s.focus)
RightX(s) == LeftX(s) + Eff(s.cols[s.focus])
Middle(s) == LeftX(s) + Eff(s.cols[s.focus]) \div 2 - Visible(s) \div 2

\* From `x`, the least that brings the focused column into view.
Nearest(s, x) == IF LeftX(s) < x THEN LeftX(s)
                 ELSE IF RightX(s) > x + Visible(s) THEN RightX(s) - Visible(s) ELSE x
Lowest == IF mode.past THEN FarLeft ELSE 0

\* ensure_focused_visible
Reveal(s) ==
    [s EXCEPT !.pos = InBounds(s, IF Centers(s) THEN Middle(s) ELSE Nearest(s, s.pos), Lowest, MaxScroll(s))]

\* (Variant: it is revealed from where the animation is, not where it lands.)
AimFromCurrent(s) == Current(s)
\* ensure_focused_visible_animated looks at where the strip will land.
Aim(s) == Target(s)

RevealAnimated(s) ==
    LET x == Aim(s)
        stays == ~Centers(s) /\ Nearest(s, x) = x
        goal == IF Centers(s) THEN Middle(s)
                ELSE IF ~stays THEN Nearest(s, x)
                ELSE IF x < 0 /\ ~mode.past THEN 0
                ELSE IF x > MaxScroll(s) THEN MaxScroll(s) ELSE x
    IN  IF stays /\ goal = x /\ ~mode.single THEN s
        ELSE ScrollTo(s, InBounds(s, goal, Lowest, MaxScroll(s)))

\* center_focused_column_animated
CenterAnimated(s) ==
    LET x == InBounds(s, Middle(s), FarLeft, -FarLeft)
    IN  ScrollTo(s, IF mode.past THEN x ELSE InBounds(s, x, 0, MaxScroll(s)))

\* reconcile_scroll_bounds: room enough to center the outermost columns.
Reconciled(s) ==
    LET act == ActiveOf(s)
        centre(i) == ColumnX(s, i) + Eff(s.cols[i]) \div 2 - Visible(s) \div 2
        ends == IF mode.past /\ act # {} THEN {centre(Min(act)), centre(Max(act))} ELSE {}
        b == Bounds(s, Min({0} \cup ends), Max({MaxScroll(s)} \cup ends))
        within(x) == b[1] <= x /\ x <= b[2]
    IN  IF within(Target(s)) /\ (within(Current(s)) \/ (mode.single /\ s.anim # {})) THEN s
        ELSE LET c == Cancelled(s) IN [c EXCEPT !.pos = Clamped(@, b[1], b[2])]

(***************************************************************************)
(* Widths.                                                                 *)
(***************************************************************************)
Resized(s, i, w) == [s EXCEPT !.cols[i].w = Width(w)]
OfFraction(s, f) == (WidthBase(s.geo) * f[1]) \div f[2] - s.geo.gap
Less(f, g) == f[1] * g[2] < g[1] * f[2]
Plus(f, n) == <<f[1] * 200 + n * f[2], f[2] * 200>>   \* n times TOLERANCE
FractionOf(s, w) == <<w + s.geo.gap, WidthBase(s.geo)>>

\* cycle_preset
NextPreset(f, way) ==
    LET above == {n \in DOMAIN Presets : Less(Plus(f, 1), Presets[n])}
        below == {n \in DOMAIN Presets : Less(Presets[n], Plus(f, -1))}
    IN  IF way = "down" THEN IF below = {} THEN {} ELSE {Presets[Max(below)]}
        ELSE IF above # {} THEN {Presets[Min(above)]} ELSE IF way = "wrap" THEN {Presets[1]} ELSE {}

Distance(f, g) == LET d == f[1] * g[2] - g[1] * f[2] IN <<IF d < 0 THEN -d ELSE d, f[2] * g[2]>>
\* The nearest preset, or the first that the column's minimum allows.
NearestPreset(s, i, w) ==
    LET f == FractionOf(s, w)
        least == FractionOf(s, s.cols[i].min)
        near == CHOOSE n \in DOMAIN Presets :
                    /\ \A m \in DOMAIN Presets : ~Less(Distance(Presets[m], f), Distance(Presets[n], f))
                    /\ \A m \in 1..(n - 1) : Less(Distance(Presets[n], f), Distance(Presets[m], f))
        big == {n \in DOMAIN Presets : ~Less(Presets[n], least)}
    IN  Presets[IF Less(Presets[near], least) /\ big # {} THEN Min(big) ELSE near]
SnappedWidth(s, i, w) == Width(OfFraction(s, NearestPreset(s, i, w)))

\* rescaled_width: [w, frac] in the old geometry, and in the new one.
Cached(c, old) == {f \in c.frac : f.w = c.w /\ f.geo = old}
Fraction(c, old) == IF Cached(c, old) # {} THEN (CHOOSE f \in Cached(c, old) : TRUE).of
                    ELSE <<c.w + old.gap, AtLeast(1, WidthBase(old))>>
Rescaled(c, old, new) ==
    LET f == Fraction(c, old)
        w == Width((2 * WidthBase(new) * f[1] + f[2]) \div (2 * f[2]) - new.gap)
    IN  [c EXCEPT !.w = w, !.frac = {[of |-> f, w |-> w, geo |-> new]}]

\* rescale_column_widths; what is maximized keeps its own width to go back to.
Regeared(s, new) ==
    IF WidthBase(s.geo) = WidthBase(new) /\ s.geo.gap = new.gap THEN [s EXCEPT !.geo = new]
    ELSE LET c == Cancelled(s)
             r == [c EXCEPT !.geo = new,
                            !.cols = [i \in DOMAIN @ |-> Rescaled(@[i], s.geo, new)],
                            !.maxed = {[m EXCEPT !.back = Rescaled(@, s.geo, new)] : m \in @}]
         IN  [r EXCEPT !.pos = InBounds(r, @, Lowest, MaxScroll(r))]

(***************************************************************************)
(* Commands and events; each is followed by an apply of the layout.        *)
(***************************************************************************)
Op(s) == /\ past.ops < MaxOps /\ strip' = s
         /\ UNCHANGED mode
Note(seen, before) == past' = [ops |-> past.ops + 1, seen |-> seen, before |-> before, preview |-> {}]
\* What a change of geometry can be undone to is forgotten with a new width.
Same == past.before

FocusColumn ==
    \E i \in ActiveOf(strip) \ {strip.focus} :
       Op(RevealAnimated([strip EXCEPT !.focus = i])) /\ Note(TRUE, Same)
Resize ==
    \E d \in Deltas, s \in {1, -1} :
       LET t == Resized(strip, strip.focus, Eff(strip.cols[strip.focus]) + s * d)
       IN  /\ Op(RevealAnimated([t EXCEPT !.maxed = {}, !.cols[t.focus].min = 0]))
           /\ Note(TRUE, {})
CycleWidth ==
    \E way \in {"up", "down", "wrap"} :
       LET t == [strip EXCEPT !.maxed = {}]
           f == FractionOf(t, Eff(t.cols[t.focus]))
           u == IF NextPreset(f, way) = {} THEN t
                ELSE Resized(t, t.focus, OfFraction(t, CHOOSE p \in NextPreset(f, way) : TRUE))
       IN  Op(RevealAnimated(u)) /\ Note(TRUE, {})
Maximize ==
    LET back == {m \in strip.maxed : m.at \in DOMAIN strip.cols}
        t == IF strip.maxed # {}
             THEN [strip EXCEPT !.maxed = {},
                     !.cols = [i \in DOMAIN @ |-> IF \E m \in back : m.at = i
                                 THEN LET m == CHOOSE x \in back : TRUE
                                      IN  [@[i] EXCEPT !.w = Width(m.back.w), !.frac = m.back.frac]
                                 ELSE @[i]]]
             ELSE [Resized(strip, strip.focus, Visible(strip))
                     EXCEPT !.maxed = {[at |-> strip.focus, back |-> strip.cols[strip.focus]]}]
    IN  Op(CenterAnimated(t)) /\ Note(TRUE, {})
Equalize ==
    LET act == ActiveOf(strip)
        n == Cardinality(act)
        each == AtLeast(Least * n, Visible(strip) - strip.geo.gap * (n - 1)) \div n
        t == [strip EXCEPT !.maxed = {}, !.anim = {},
                !.cols = [i \in DOMAIN @ |-> [@[i] EXCEPT !.min = 0, !.w = IF i \in act THEN Width(each) ELSE @]]]
    IN  Op(RevealAnimated([t EXCEPT !.pos = InBounds(t, @, 0, MaxScroll(t))])) /\ Note(TRUE, {})
Center == Op(CenterAnimated(strip)) /\ Note(TRUE, Same)
ScrollBy ==
    \E d \in Deltas, s \in {1, -1} :
       LET t == Cancelled(strip)
       IN  Op([t EXCEPT !.pos = InBounds(t, @ + s * d, 0, MaxScroll(t))]) /\ Note(FALSE, Same)

\* A window is minimized, and the focus goes on; or comes back, and takes it.
Minimize ==
    \E i \in ActiveOf(strip) :
       LET t == [strip EXCEPT !.cols[i].out = TRUE, !.cols[i].min = 0, !.anim = {}]
           left == ActiveOf(t)
           on == IF i # t.focus \/ left = {} THEN t.focus
                 ELSE IF \E j \in left : j > i THEN Min({j \in left : j > i}) ELSE Max(left)
       IN  /\ left # {}
           /\ Op(RevealAnimated([t EXCEPT !.focus = on])) /\ Note(TRUE, Same)
Restore ==
    \E i \in DOMAIN strip.cols \ ActiveOf(strip) :
       /\ Op(RevealAnimated([strip EXCEPT !.cols[i].out = FALSE, !.cols[i].min = 0, !.focus = i]))
       /\ Note(TRUE, Same)

\* Windows join and leave a column: what it needs is to be measured again, but
\* only when a layout can be applied.
Regroup ==
    \E i \in ActiveOf(strip), n \in Needs :
       /\ n # strip.cols[i].need
       /\ Op([strip EXCEPT !.cols[i].need = n, !.cols[i].stale = TRUE]) /\ Note(past.seen, Same)

\* The user drags the edge of a window and lets go; the ghost shows the width
\* it will have.
UserResizes ==
    \E i \in ActiveOf(strip), n \in DOMAIN Widths :
       LET snapped == SnappedWidth(strip, i, Widths[n])
           t == [Resized(strip, i, snapped) EXCEPT !.cols[i].min = 0]
       IN  /\ Op(RevealAnimated(t))
           /\ past' = [ops |-> past.ops + 1, seen |-> TRUE, before |-> {},
                       preview |-> {<<i, Eff([c EXCEPT !.w = snapped])>> :
                                      c \in {x \in {strip.cols[i]} : x.min = x.need /\ ~x.stale}}]

\* Settings are saved with other gaps; or the display changes its width.
Looks(s) == [geo |-> s.geo, ws |-> [i \in DOMAIN s.cols |-> s.cols[i].w], back |-> {m.back.w : m \in s.maxed}]
Undone == IF past.before = {} THEN {Looks(strip)} ELSE past.before
Configure ==
    \E g \in Geometries :
       /\ g # strip.geo /\ g.view = strip.geo.view
       /\ Op(RevealAnimated(Regeared(strip, g))) /\ Note(TRUE, Undone)
ChangeDisplay ==
    \E g \in Geometries :
       /\ g.view # strip.geo.view
       /\ Op(Reveal(Regeared(strip, g))) /\ Note(TRUE, Undone)

(***************************************************************************)
(* What goes on by itself: animation ticks and applied layouts.            *)
(***************************************************************************)
Tick ==
    /\ strip.anim # {}
    /\ LET a == CHOOSE x \in strip.anim : TRUE
       IN  strip' = IF a.half THEN [strip EXCEPT !.pos = a.to, !.anim = {}]
                    ELSE [strip EXCEPT !.anim = {[a EXCEPT !.half = TRUE]}]
    /\ UNCHANGED <<mode, past>>

\* clear_min_size_constraints and propagate_size_violations reveal again when
\* columns came out wider or narrower.
Revealing(s, t) ==
    IF \A i \in DOMAIN s.cols : Eff(s.cols[i]) = Eff(t.cols[i]) THEN t
    ELSE IF s.anim # {} THEN RevealAnimated(t) ELSE Reveal(t)
Cleared(s) == Revealing(s, [s EXCEPT !.cols = [i \in DOMAIN @ |->
                  IF @[i].stale THEN [@[i] EXCEPT !.min = 0, !.stale = FALSE] ELSE @[i]]])
Pinned(s) == IF mode.single THEN Reconciled(s) ELSE s
\* A minimum as wide as the work area is not believed.
Violates(s, i) == LET c == s.cols[i] IN ~c.out /\ Eff(c) < c.need /\ c.need < Visible(s)
Propagated(s) == Revealing(s, [s EXCEPT !.cols = [i \in DOMAIN @ |->
                  IF Violates(s, i) THEN [@[i] EXCEPT !.min = s.cols[i].need] ELSE @[i]]])
Applied(s) == Propagated(Pinned(Cleared(s)))
Apply ==
    /\ Applied(strip) # strip
    /\ strip' = Applied(strip)
    /\ UNCHANGED <<mode, past>>

Init ==
    /\ mode \in Modes
    /\ \E g \in Geometries, n \in Needs, k \in DOMAIN Widths :
         strip = [cols |-> [i \in DOMAIN Widths |->
                              [w |-> Width(Widths[i]), frac |-> {}, min |-> 0, out |-> FALSE, stale |-> FALSE,
                               need |-> IF i = k THEN n ELSE 0]],
                  focus |-> 1, pos |-> 0, anim |-> {}, maxed |-> {}, geo |-> g]
    /\ past = [ops |-> 0, seen |-> FALSE, before |-> {}, preview |-> {}]

Next ==
    \/ FocusColumn \/ Resize \/ CycleWidth \/ Maximize \/ Equalize \/ Center \/ ScrollBy
    \/ Minimize \/ Restore \/ Regroup \/ UserResizes \/ Configure \/ ChangeDisplay
    \/ Tick \/ Apply

ScrollSpec == Init /\ [][Next]_scrollVars

(***************************************************************************)
(* Properties.                                                             *)
(***************************************************************************)
Quiet == Applied(strip) = strip

\* Wherever the strip is about to come to rest, the column that was focused
\* last is in full view, if it fits at all: whatever happened under way to the
\* widths, the gaps, the display or its neighbours.
FocusInView ==
    past.seen /\ Quiet /\ Eff(strip.cols[strip.focus]) <= Visible(strip) =>
        Target(strip) <= LeftX(strip) /\ RightX(strip) <= Target(strip) + Visible(strip)

\* Displays and gaps may come and go: as long as nobody touched a width, every
\* column, and what a maximized one goes back to, has its old width again when
\* the old geometry is back, however the pixels rounded on the way.
WidthsComeBack ==
    \A b \in past.before :
       strip.geo = b.geo => Looks(strip) = b

\* The ghost shown while a user resizes is the width the column ends up with,
\* when what the window needs was known: letting go forgets the minimum, and
\* measuring it again must come to the same.
PreviewIsKept ==
    Quiet => \A p \in past.preview : Eff(strip.cols[p[1]]) = p[2]

\* (A stated wish of the options.) With room to center past the edges, the
\* focused column is centered wherever it is.
CentersPastEdges ==
    past.seen /\ Quiet /\ mode.center = "always" /\ mode.past => Target(strip) = Middle(strip)

ScrollSound == FocusInView /\ WidthsComeBack /\ PreviewIsKept
=============================================================================
