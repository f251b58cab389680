-------------------------------- MODULE Drag --------------------------------
(***************************************************************************)
(* Dragging a tiled window with the mouse (drag.rs and the move-size       *)
(* handlers of event_handler.rs).  While the pointer moves, every hint     *)
(* edits the real workspaces: a placeholder shows where the window would   *)
(* go, and the window itself may be taken out of its column and be in no   *)
(* workspace until the drop.  Meanwhile windows come and go, displays are  *)
(* unplugged, workspaces are switched and the window list is refreshed.    *)
(*                                                                         *)
(* One strip per monitor, its active workspace; a switch of workspaces     *)
(* ends the drag.  What the pointer is over (column, slot, band) is an     *)
(* input, and so is the column insert_window puts a window after (the      *)
(* focused one).  A tabbed column is one whose band is never hit and       *)
(* whose slot is its end.                                                  *)
(***************************************************************************)
EXTENDS Integers, SequencesExt

CONSTANTS
    Windows,    \* windows that can be tiled and dragged
    Monitors,   \* two displays
    MaxEvents   \* windows and displays that come or go from the start of the drag

\* What the parameters have to be; assumed where the module is instantiated.
DragAssumption == MaxEvents \in Nat

VARIABLES
    strip,      \* columns of the active workspace of each monitor
    plugged,    \* monitors connected
    alive,      \* windows that exist
    drag,       \* drag_state: at most one
    age,        \* 0 before the drag, then 1 and what has come or gone since
    refound     \* history: dragged windows that a refresh put in a workspace

dragVars == <<strip, plugged, alive, drag, age, refound>>

Ghost == "placeholder"      \* DRAG_PLACEHOLDER_HWND
Modes == {"none", "band", "body"}

\* st with the strip of monitor m replaced.
Alter(st, m, s) == [n \in Monitors |-> IF n = m THEN s ELSE st[n]]

Members(s) == UNION {Range(s[c]) : c \in DOMAIN s}
Where(s, w) == {c \in DOMAIN s : w \in Range(s[c])}
Homes(w) == {m \in Monitors : w \in Members(strip[m])}

(***************************************************************************)
(* The workspace operations a drag uses.                                   *)
(***************************************************************************)
\* remove_window: an empty column goes with its last window.
Without(s, w) == SelectSeq([c \in DOMAIN s |-> SelectSeq(s[c], LAMBDA x : x # w)],
                           LAMBDA col : col # <<>>)

\* insert_window: a column of its own, after the focused one.
Anywhere(s, w) ==
    IF w \in Members(s) THEN {s}
    ELSE IF s = <<>> THEN {<<<<w>>>>}
         ELSE {InsertAt(s, p, <<w>>) : p \in 2..(Len(s) + 1)}

\* insert_window_in_column_at fails for a column that is not there.
Fits(s, w, c) == c \in DOMAIN s /\ w \notin Members(s)
Into(s, w, c, i) == [s EXCEPT ![c] = InsertAt(@, (IF i < Len(@) THEN i ELSE Len(@)) + 1, w)]
IntoOrNot(s, w, c, i) == IF Fits(s, w, c) THEN Into(s, w, c, i) ELSE s
IntoOrAnywhere(s, w, c, i) == IF Fits(s, w, c) THEN {Into(s, w, c, i)} ELSE Anywhere(s, w)

\* reorder_column
Reordered(s, from, to) ==
    IF from = to \/ {from, to} \ DOMAIN s # {} THEN s
    ELSE InsertAt(RemoveAt(s, from), to, s[from])

\* clear_drag_placeholder
Cleared(st) == [m \in Monitors |-> Without(st[m], Ghost)]

\* compute_target_column_index and compute_insertion_index: a column whose
\* windows are on the screen, or none.
UnderPointer(s) == 0..Len(s)

\* The column that holds one of the peers: the remembered one if it does,
\* or that of any of them that is left.
ByPeers(s, col, peers) ==
    IF col \in DOMAIN s /\ Range(s[col]) \cap peers # {} THEN {col}
    ELSE UNION {Where(s, p) : p \in peers}

\* restore_drag_source; no strip when the monitor is gone.
Restored(st, d) ==
    LET s == st[d.src]
        cols == ByPeers(s, d.col, d.speers)
    IN  IF d.src \notin plugged THEN {st}
        ELSE {Alter(st, d.src, t) : t \in
                IF cols # {} THEN {IntoOrNot(s, d.win, c, d.slot) : c \in cols}
                             ELSE Anywhere(s, d.win)}

(***************************************************************************)
(* The start, and the hints.                                               *)
(***************************************************************************)
Quiet == UNCHANGED <<plugged, alive, age, refound>>

\* on_move_size_start, for a tiled window.
Start(w) ==
    /\ drag = {} /\ w \in alive /\ age = 0 /\ age' = 1
    /\ \E m \in Homes(w) : \E c \in Where(strip[m], w) :
         drag' = {[win |-> w, src |-> m, col |-> c,
                   slot |-> CHOOSE i \in 0..(Len(strip[m][c]) - 1) : strip[m][c][i + 1] = w,
                   target |-> {}, tpeers |-> {}, speers |-> {}, out |-> FALSE, mode |-> "none"]}
    /\ UNCHANGED <<strip, plugged, alive, refound>>

\* reset_drag_preview_without_target
NoTarget(d) == /\ strip' = Cleared(strip)
               /\ drag' = {[d EXCEPT !.target = {}, !.mode = "none"]}

\* remove_drag_window_from_source: a window alone in its column stays.
Shared(st, d) == {c \in Where(st[d.src], d.win) : ~d.out /\ Len(st[d.src][c]) > 1}
TakenFrom(st, d) ==
    IF Shared(st, d) = {} THEN st ELSE Alter(st, d.src, Without(st[d.src], d.win))
TakenOut(st, d) ==
    IF Shared(st, d) = {} THEN d
    ELSE LET col == st[d.src][CHOOSE c \in Shared(st, d) : TRUE]
         IN  [d EXCEPT !.out = TRUE, !.speers = Range(col) \ {d.win},
                       !.slot = CHOOSE i \in 0..(Len(col) - 1) : col[i + 1] = d.win]

\* insert_drag_placeholder_at_target.  Once the window is out, the column is
\* looked up again: it may be another one, or none.
Previewed(st, d, m, hit, slot) ==
    LET cols == IF d.out THEN 0..Len(st[m]) ELSE {hit}
    IN  UNION {IF c = 0 THEN {st}
               ELSE {Alter(st, m, t) : t \in IntoOrAnywhere(st[m], Ghost, c, slot)} : c \in cols}

\* merge_reorder_same_column
ReorderedWithin(s, w, c, slot) ==
    IF \E k \in Where(s, w) : s[k][slot + 1] = w THEN s
    ELSE IntoOrNot(Without(s, w), w, c, slot)

\* update_drag_hint_at without Shift: pointer over column hit of monitor m.
Hint(m, hit, slot, band) ==
    \E d \in drag : LET s == strip[m]
                        w == d.win
                        same == hit # 0 /\ w \in Range(s[hit])
                        peers == Range(s[hit]) \ {w, Ghost}
                        total == Cardinality(Range(s[hit]) \ {Ghost}) + (IF same THEN 0 ELSE 1)
                        d1 == [d EXCEPT !.target = {[mon |-> m, col |-> hit, slot |-> slot]},
                                        !.tpeers = peers]
                        cleared == Cleared(strip)
        IN  /\ hit # 0 => slot < total
            /\ \/ hit = 0 /\ NoTarget(d)
               \/ /\ hit # 0 /\ ~same /\ band
                  /\ strip' = cleared /\ drag' = {[d1 EXCEPT !.mode = "band"]}
               \/ /\ hit # 0 /\ (same \/ ~band) /\ d.target = d1.target /\ d.mode = "body"
                  /\ strip' = IF same THEN cleared
                              ELSE Alter(cleared, m, IntoOrNot(cleared[m], Ghost, hit, slot))
                  /\ drag' = {d1}
               \/ /\ hit # 0 /\ same /\ ~(d.target = d1.target /\ d.mode = "body")
                  /\ strip' = Alter(cleared, m, ReorderedWithin(cleared[m], w, hit, slot))
                  /\ drag' = {[d1 EXCEPT !.mode = "none"]}
               \/ /\ hit # 0 /\ ~same /\ ~band /\ ~(d.target = d1.target /\ d.mode = "body")
                  /\ strip' \in Previewed(TakenFrom(cleared, d1), TakenOut(cleared, d1), m, hit, slot)
                  /\ drag' = {[TakenOut(cleared, d1) EXCEPT !.mode = "body"]}
            /\ Quiet

\* shift_drag_cross_monitor_hint: a gap between columns, no slot.
CrossHint(d, m, hit) == [d EXCEPT !.target = {[mon |-> m, col |-> hit, slot |-> -1]}]
\* shift_drag_reorder_hint: the column it believes to be the window's follows.
Follows(d, m, hit) == m = d.src /\ hit # 0 /\ hit # d.col
ReorderHint(d, m, hit) == IF Follows(d, m, hit) THEN [d EXCEPT !.col = hit] ELSE d

\* update_drag_hint_at with Shift: first the window goes back, unless a
\* refresh has already put it in the source workspace.
ShiftHint(m, hit) ==
    \E d \in drag :
        /\ LET undo == d.mode = "body" \/ d.out
               st == IF undo THEN Cleared(strip) ELSE strip
           IN  \E back \in IF d.out THEN Restored(st, d) ELSE {st} :
                 LET home == Where(back[d.src], d.win)
                     in == d.out /\ d.win \notin Members(st[d.src]) /\ home # {}
                     d1 == [d EXCEPT !.out = @ /\ ~in, !.col = IF in THEN CHOOSE c \in home : TRUE ELSE @,
                                     !.target = IF undo THEN {} ELSE @,
                                     !.mode = IF undo THEN "none" ELSE @]
                 IN  /\ hit \in UnderPointer(back[m])
                     /\ strip' = IF Follows(d1, m, hit) THEN Alter(back, m, Reordered(back[m], d1.col, hit)) ELSE back
                     /\ drag' = {IF m = d.src THEN ReorderHint(d1, m, hit) ELSE CrossHint(d1, m, hit)}
        /\ Quiet

(***************************************************************************)
(* The drop.                                                               *)
(***************************************************************************)
\* (Variant: the target is not moved up.)
Unshifted(s, w, c) == c
\* A column of one window left of the target goes when its window leaves.
Shifted(s, w, c) == IF \E k \in Where(s, w) : Len(s[k]) = 1 /\ k < c THEN c - 1 ELSE c

\* remove_window on the source workspace, if the monitor is still there.
Lifted(st, d) == IF d.out \/ d.src \notin plugged THEN st
                 ELSE Alter(st, d.src, Without(st[d.src], d.win))

Put(st, d, m, c, slots) ==
    {Alter(Lifted(st, d), m, t) : t \in UNION {IntoOrAnywhere(Lifted(st, d)[m], d.win, c, i) : i \in slots}}

\* finalize_drag_merge with a placeholder: the window takes its place; in a
\* tabbed column it goes to the end.
Finalized(d, m) ==
    UNION {UNION {
        LET c1 == IF ~d.out /\ m = d.src THEN Shifted(strip[m], d.win, c) ELSE c
        IN  IF strip[m][c][i] = Ghost THEN Put(Cleared(strip), d, m, c1, {i - 1, Len(strip[m][c]) - 1})
            ELSE {} : i \in DOMAIN strip[m][c]} : c \in DOMAIN strip[m]}

\* execute_window_merge: the remembered target by its peers, or the column
\* under the pointer; without either nothing is inserted.
Merged(st, d, m, hit, slot) ==
    LET known == {t \in d.target : t.mon = m /\ t.slot >= 0}
        found == UNION {ByPeers(st[m], t.col, d.tpeers) \X {t.slot} : t \in known}
        goals == IF found # {} THEN found ELSE IF hit = 0 THEN {} ELSE {<<hit, slot>>}
        alone(c) == ~d.out /\ m = d.src /\ \E k \in Where(st[m], d.win) : k = c /\ Len(st[m][k]) = 1
        gone == ~d.out /\ d.src \in plugged /\ d.win \notin Members(st[d.src])
    IN  IF goals = {} \/ gone THEN {st}
        ELSE UNION {IF alone(g[1]) THEN {st}
                    ELSE LET c1 == IF ~d.out /\ m = d.src THEN Shifted(st[m], d.win, g[1]) ELSE g[1]
                         IN  Put(st, d, m, c1, {g[2], Len(st[m][g[1]])}) : g \in goals}

\* execute_cross_monitor_drag: the whole column goes; insert_column_at drops
\* a column with a window that is there already.
Crossed(st, d, m, ins) ==
    LET cols == IF d.src \in plugged THEN Where(st[d.src], d.win) ELSE {}
        c == CHOOSE k \in cols : TRUE
        left == Alter(st, d.src, RemoveAt(st[d.src], c))
    IN  CASE cols = {} -> st
          [] cols # {} /\ Range(st[d.src][c]) \cap Members(st[m]) # {} -> left
          [] OTHER -> Alter(left, m, InsertAt(st[m], ins + 1, st[d.src][c]))

Ended == drag' = {} /\ Quiet

\* on_move_size_end.  A window that Windows does not report goes back.
Drop(m, hit, slot, shift) ==
    \E d \in drag :
        /\ d.win \in alive
        /\ \/ ~shift /\ Finalized(d, m) # {} /\ strip' \in Finalized(d, m)
           \/ /\ ~shift /\ Finalized(d, m) = {} /\ hit \in UnderPointer(Cleared(strip)[m])
              /\ strip' \in Merged(Cleared(strip), d, m, hit, slot)
           \/ shift /\ m = d.src /\ strip' = Cleared(strip)
           \/ shift /\ m # d.src /\ hit \in UnderPointer(Cleared(strip)[m])
                    /\ strip' = Crossed(Cleared(strip), d, m, hit)
        /\ Ended

DropUnreported ==
    \E d \in drag : /\ strip' \in IF d.out /\ d.win \in alive THEN Restored(Cleared(strip), d)
                                  ELSE {Cleared(strip)}
                    /\ Ended

(***************************************************************************)
(* What happens meanwhile.                                                 *)
(***************************************************************************)
\* A workspace switch, by command or by a foreground event, takes drag_state.
Switch ==
    \E d \in drag :
        /\ \E st \in IF d.out /\ d.win \in alive /\ d.src \in plugged
                     THEN {Alter(strip, d.src, t) : t \in Anywhere(strip[d.src], d.win)} ELSE {strip} :
             strip' = Cleared(st)
        /\ Ended

Meanwhile == age <= MaxEvents /\ age' = IF age = 0 THEN 0 ELSE age + 1

Open(w) == /\ Meanwhile /\ w \notin alive /\ Homes(w) = {} /\ \A d \in drag : d.win # w
           /\ alive' = alive \cup {w}
           /\ \E m \in plugged : \E t \in Anywhere(strip[m], w) : strip' = Alter(strip, m, t)
           /\ UNCHANGED <<plugged, drag, refound>>

\* consume_into_column and its kin; not during a drag.
Stack(w) == /\ age = 0
            /\ \E m \in Homes(w) : LET s == Without(strip[m], w) IN
                 \E c \in DOMAIN s : strip' = Alter(strip, m, Into(s, w, c, Len(s[c])))
            /\ Quiet /\ UNCHANGED drag

Die(w) == /\ Meanwhile /\ w \in alive /\ alive' = alive \ {w}
          /\ UNCHANGED <<strip, plugged, drag, refound>>

\* Its Destroyed event: cancel_matching_unfinished_drag, then departure from
\* the first workspace that has it; a prune of stale windows finds another.
Departed(w) ==
    /\ w \notin alive /\ (Homes(w) # {} \/ \E d \in drag : d.win = w)
    /\ LET mine == \E d \in drag : d.win = w
           st == IF mine THEN Cleared(strip) ELSE strip
       IN  /\ strip' \in IF Homes(w) = {} THEN {st}
                         ELSE {Alter(st, m, Without(st[m], w)) : m \in Homes(w)}
           /\ drag' = IF mine THEN {} ELSE drag
    /\ Quiet

\* A display goes; its windows, and a placeholder, get columns on the other.
Unplug(m) ==
    /\ Meanwhile /\ m \in plugged /\ \E n \in plugged \ {m} :
         LET moved == SelectSeq(FlattenSeq(strip[m]), LAMBDA w : w \notin Members(strip[n]))
         IN  strip' = Alter(Alter(strip, m, <<>>), n, strip[n] \o [i \in DOMAIN moved |-> <<moved[i]>>])
    /\ plugged' = plugged \ {m} /\ UNCHANGED <<alive, drag, refound>>

\* enumerate_and_add_windows, for a refresh or a reload: every window that is
\* in no workspace gets a column, one that a preview has taken out included;
\* the drag goes on and does not learn of it.
Refresh(w) ==
    /\ Meanwhile /\ w \in alive /\ Homes(w) = {}
    /\ \E m \in plugged : \E t \in Anywhere(strip[m], w) : strip' = Alter(strip, m, t)
    /\ refound' = refound \cup {d.win : d \in {e \in drag : e.win = w}}
    /\ UNCHANGED <<plugged, alive, drag>>

Init == /\ strip = [m \in Monitors |-> <<>>] /\ plugged = Monitors
        /\ alive = {} /\ drag = {} /\ age = 0 /\ refound = {}

\* Places in the column under the pointer.
Slots(m, hit) == IF hit = 0 THEN {0} ELSE 0..Len(strip[m][hit])

Next ==
    \/ \E w \in Windows : Start(w) \/ Open(w) \/ Stack(w) \/ Die(w) \/ Departed(w) \/ Refresh(w)
    \/ \E m \in plugged : \E hit \in UnderPointer(strip[m]) :
         \/ \E slot \in Slots(m, hit), b \in BOOLEAN : Hint(m, hit, slot, b) \/ Drop(m, hit, slot, b)
         \/ ShiftHint(m, hit)
    \/ \E m \in Monitors : Unplug(m)
    \/ DropUnreported \/ Switch

DragSpec == Init /\ [][Next]_dragVars

(***************************************************************************)
(* Properties.                                                             *)
(***************************************************************************)
TypeOK ==
    /\ strip \in [Monitors -> Seq(Seq(Windows \cup {Ghost}) \ {<<>>})]
    /\ plugged \subseteq Monitors /\ alive \subseteq Windows /\ refound \subseteq Windows
    /\ \A d \in drag : /\ d.win \in Windows /\ d.src \in Monitors /\ d.mode \in Modes /\ d.out \in BOOLEAN
                       /\ d.tpeers \cup d.speers \subseteq Windows

\* There is one placeholder at most, and only while a preview shows it: no
\* drop, cancel, switch or departure leaves the sentinel in a workspace.
GhostOwned ==
    /\ Cardinality(Homes(Ghost)) <= 1
    /\ \A m \in Homes(Ghost) : /\ Cardinality(Where(strip[m], Ghost)) = 1
                               /\ \E d \in drag : d.mode = "body"

\* removed_from_source says where the dragged window is: out means in no
\* workspace, unless a refresh has put it back in one, otherwise it is in
\* one.  No workspace has a window twice, and only a window that a refresh
\* found in the middle of its drag may be in two (see NeverTwice).
DragOwns ==
    /\ \A d \in drag : d.win \in alive => (d.out /\ d.win \notin refound <=> Homes(d.win) = {})
    /\ \A w \in Windows \ refound : Cardinality(Homes(w)) <= 1
    /\ \A w \in Windows, m \in Monitors : Cardinality(Where(strip[m], w)) <= 1

DragSound == TypeOK /\ GhostOwned /\ DragOwns

Mates(st, m, w) == UNION {Range(st[m][c]) : c \in Where(st[m], w)} \ {w, Ghost}

\* A drop on a monitor that shows the placeholder puts the window among the
\* companions the placeholder stood with.
DropsWhereShown ==
    [][\A d \in drag, m \in Homes(Ghost) :
         /\ d.win \notin refound /\ d.src \in plugged /\ Mates(strip, m, Ghost) \ {d.win} # {}
         /\ \E hit \in UnderPointer(strip[m]) : \E slot \in Slots(m, hit) : Drop(m, hit, slot, FALSE)
         => Mates(strip', m, d.win) \cap Mates(strip, m, Ghost) # {}]_dragVars

\* Shift during a preview puts the window back among the companions it was
\* taken from, as long as one of them is left there.
ShiftRestores ==
    [][\A d \in drag, e \in drag' :
         /\ d.win = e.win /\ d.out /\ ~e.out
         /\ d.win \notin refound /\ d.speers \cap Members(strip[d.src]) # {}
         =>
            Mates(strip', d.src, d.win) \cap d.speers # {}]_dragVars

\* CHANGELOG.md:1156: enumerate_and_add_windows "now checks all workspaces
\* (including inactive ones) before inserting, preventing windows on
\* non-active workspaces from being duplicated".  A window is in one workspace
\* at most, whatever a refresh finds.
NeverTwice == \A w \in Windows : Cardinality(Homes(w)) <= 1

\* The end of a drag leaves the window in a workspace.
DropKeepsWindow ==
    [][\A d \in drag : drag' = {} /\ d.win \in alive => \E m \in Monitors : d.win \in Members(strip'[m])]_dragVars
=============================================================================
