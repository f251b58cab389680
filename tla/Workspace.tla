------------------------------ MODULE Workspace ------------------------------
(***************************************************************************)
(* The strip of one workspace (core_layout/src/column.rs and               *)
(* core_layout/src/workspace/): a row of columns, each a stack of windows, *)
(* a focus position, floating windows, the fullscreen target and the       *)
(* minimized windows.  A workspace is a record and every operation of the  *)
(* crate that changes one of these parts is an operator from workspaces to *)
(* workspaces:                                                             *)
(*                                                                         *)
(*   cols       sequence of columns [wins, tab]; tab is the active tab of  *)
(*              a Tabbed column and 0 for a Vertical one                   *)
(*   fc, fr     focused_column and focused_window_in_column                *)
(*   floating   ids of floating_windows; their rectangles and order are    *)
(*              abstracted                                                 *)
(*   full       fullscreen_window                                          *)
(*   minimized  minimized_windows                                          *)
(*   origin     float_origin_column: left neighbour and column index       *)
(*                                                                         *)
(* Indices are 1-based; an empty strip keeps the position (1, 1) where the *)
(* code keeps (0, 0).  Widths, height weights, measured minima, the        *)
(* maximized column and the scroll offset are not part of this record.     *)
(***************************************************************************)
EXTENDS Naturals, SequencesExt

CONSTANTS Windows, None

ASSUME NoneIsNoWindow == None \notin Windows

NoOrigin == [left |-> None, at |-> 0]

EmptyWorkspace ==
    [cols |-> <<>>, fc |-> 1, fr |-> 1, floating |-> {}, full |-> None,
     minimized |-> {}, origin |-> [w \in Windows |-> NoOrigin]]

(***************************************************************************)
(* Columns.                                                                *)
(***************************************************************************)
NewColumn(w) == [wins |-> <<w>>, tab |-> 0]

\* Zero- and one-window columns are Vertical; a tab past the end is the last.
MaintainMode(c) ==
    [c EXCEPT !.tab = IF Len(c.wins) <= 1 THEN 0 ELSE Min({@, Len(c.wins)})]

AddWindow(c, w) == MaintainMode([c EXCEPT !.wins = Append(@, w)])

RemoveRow(c, r) ==
    MaintainMode([wins |-> RemoveAt(c.wins, r),
                  tab  |-> IF c.tab > r THEN c.tab - 1 ELSE c.tab])

\* (Variant: the active tab keeps its index, not its window.)
InsertRowKeepTab(c, row, w) ==
    MaintainMode([c EXCEPT !.wins = InsertAt(@, Min({row, Len(@) + 1}), w)])

\* The row is clamped to one past the end.
InsertRow(c, row, w) ==
    LET r == Min({row, Len(c.wins) + 1})
    IN  MaintainMode([wins |-> InsertAt(c.wins, r, w),
                      tab  |-> IF c.tab >= r THEN c.tab + 1 ELSE c.tab])

SwapRows(c, a, b) ==
    [wins |-> [c.wins EXCEPT ![a] = c.wins[b], ![b] = c.wins[a]],
     tab  |-> CASE c.tab = a -> b [] c.tab = b -> a [] OTHER -> c.tab]

\* Column::set_active_tab: only a Tabbed column has an active tab.
ActivateTab(c, r) ==
    IF c.tab = 0 THEN c ELSE [c EXCEPT !.tab = Min({r, Len(c.wins)})]

(***************************************************************************)
(* Reading a workspace.                                                    *)
(***************************************************************************)
WindowsOf(c) == ToSet(c.wins)

Tiled(ws) == UNION {WindowsOf(ws.cols[i]) : i \in DOMAIN ws.cols}

Managed(ws) == Tiled(ws) \cup ws.floating

\* find_window_location, for a tiled window.
ColumnOf(ws, w) == CHOOSE i \in DOMAIN ws.cols : w \in WindowsOf(ws.cols[i])
RowOf(ws, w) ==
    LET wins == ws.cols[ColumnOf(ws, w)].wins
    IN  CHOOSE r \in DOMAIN wins : wins[r] = w

VisibleRows(ws, i) ==
    {r \in DOMAIN ws.cols[i].wins : ws.cols[i].wins[r] \notin ws.minimized}

\* is_column_active and has_visible_window_in_column.
IsActive(ws, i) == VisibleRows(ws, i) # {}

FocusedWindow(ws) ==
    IF ws.cols = <<>> THEN None ELSE ws.cols[ws.fc].wins[ws.fr]

\* The visible row nearest to r: r itself, then downward, then upward.
NearestVisible(ws, i, r) ==
    LET below == {x \in VisibleRows(ws, i) : x >= r}
    IN  IF below # {} THEN Min(below) ELSE Max(VisibleRows(ws, i))

FocusedVisibleWindow(ws) ==
    IF ws.cols = <<>> \/ ~IsActive(ws, ws.fc) THEN None
    ELSE ws.cols[ws.fc].wins[NearestVisible(ws, ws.fc, ws.fr)]

LeftPath(ws)  == [k \in 1..(ws.fc - 1) |-> ws.fc - k]
RightPath(ws) == [k \in 1..(Len(ws.cols) - ws.fc) |-> ws.fc + k]

\* The columns after (before) the focused one, cyclically, itself last.
NextCycle(ws) ==
    LET n == Len(ws.cols) IN [k \in 1..n |-> ((ws.fc - 1 + k) % n) + 1]
PrevCycle(ws) ==
    LET n == Len(ws.cols) IN [k \in 1..n |-> ((ws.fc - 1 + n - k) % n) + 1]

\* Position in `path` of its first active column, 0 when there is none.
FirstActive(ws, path) == SelectInSeq(path, LAMBDA i : IsActive(ws, i))

(***************************************************************************)
(* Focus bookkeeping.                                                      *)
(***************************************************************************)
At(ws, c, r) == [ws EXCEPT !.fc = c, !.fr = r]

\* sync_active_tab_to_focus
SyncTab(ws) ==
    IF ws.fc \notin DOMAIN ws.cols THEN ws
    ELSE [ws EXCEPT !.cols[ws.fc] = ActivateTab(@, ws.fr)]

Focus(ws, c, r) == SyncTab(At(ws, c, r))

ClampInColumns(ws) ==
    LET c == Min({ws.fc, Len(ws.cols)})
    IN  At(ws, c, Min({ws.fr, Len(ws.cols[c].wins)}))

\* clamp_focus_indices
ClampFocus(ws) ==
    IF ws.cols = <<>> THEN At(ws, 1, 1) ELSE ClampInColumns(ws)

\* The row that land_focus_in_current_column leaves after entering the
\* columns of `path` in turn: the active tab of the last tabbed one, or the
\* row one started from, clamped in every column entered since.
LandedRow(ws, path) ==
    LET tabbed == {k \in DOMAIN path : ws.cols[path[k]].tab # 0}
        last   == IF tabbed = {} THEN 0 ELSE Max(tabbed)
        row    == IF last = 0 THEN ws.fr ELSE ws.cols[path[last]].tab
    IN  Min({row} \cup {Len(ws.cols[path[k]].wins) : k \in (last + 1)..Len(path)})

Land(ws, c) == At(ws, c, LandedRow(ws, <<c>>))

\* adjust_focus_to_visible_in_column
AdjustRow(ws) ==
    IF ~IsActive(ws, ws.fc) THEN ws
    ELSE At(ws, ws.fc, NearestVisible(ws, ws.fc, ws.fr))

(***************************************************************************)
(* Moving the focus.                                                       *)
(***************************************************************************)
\* focus_left and focus_right land in every column walked, up to the first
\* active one; with nothing visible that way, they land again where the walk
\* began.
FocusToward(ws, path) ==
    IF ws.cols = <<>> THEN ws ELSE
    LET stop   == FirstActive(ws, path)
        walked == IF stop = 0 THEN Append(path, ws.fc)
                  ELSE SubSeq(path, 1, stop)
    IN  SyncTab(AdjustRow(ClampFocus(
            At(ws, Last(walked), LandedRow(ws, walked)))))

FocusLeft(ws)  == FocusToward(ws, LeftPath(ws))
FocusRight(ws) == FocusToward(ws, RightPath(ws))

FocusStripEnd(ws, last) ==
    IF ws.cols = <<>> THEN ws ELSE
    LET active == {i \in DOMAIN ws.cols : IsActive(ws, i)}
        c == CASE active = {} -> ws.fc
               [] active # {} /\ last -> Max(active)
               [] OTHER -> Min(active)
    IN  SyncTab(AdjustRow(ClampFocus(Land(ws, c))))

\* focus_down; a Tabbed column wraps around its tabs.
FocusDown(ws) ==
    IF ws.cols = <<>> THEN ws ELSE
    LET visible == VisibleRows(ws, ws.fc)
        below   == {r \in visible : r > ws.fr}
    IN  CASE below # {} -> Focus(ws, ws.fc, Min(below))
          [] below = {} /\ visible # {} /\ ws.cols[ws.fc].tab # 0
               -> Focus(ws, ws.fc, Min(visible))
          [] OTHER -> ws

FocusUp(ws) ==
    IF ws.cols = <<>> THEN ws ELSE
    LET visible == VisibleRows(ws, ws.fc)
        above   == {r \in visible : r < ws.fr}
    IN  CASE above # {} -> Focus(ws, ws.fc, Max(above))
          [] above = {} /\ visible # {} /\ ws.cols[ws.fc].tab # 0
               -> Focus(ws, ws.fc, Max(visible))
          [] OTHER -> ws

\* A Tabbed column is entered on its active tab, a Vertical one at the top.
FocusNext(ws) ==
    IF ws.cols = <<>> THEN ws ELSE
    LET below == {r \in VisibleRows(ws, ws.fc) : r > ws.fr}
        k     == FirstActive(ws, NextCycle(ws))
        c     == NextCycle(ws)[k]
        row   == IF ws.cols[c].tab # 0 THEN ws.cols[c].tab ELSE 1
    IN  CASE below # {} -> Focus(ws, ws.fc, Min(below))
          [] below = {} /\ k # 0 -> SyncTab(AdjustRow(At(ws, c, row)))
          [] OTHER -> ws

\* Entering backward: the active tab when it is visible, else the last
\* visible window.
FocusPrev(ws) ==
    IF ws.cols = <<>> THEN ws ELSE
    LET above == {r \in VisibleRows(ws, ws.fc) : r < ws.fr}
        k     == FirstActive(ws, PrevCycle(ws))
        c     == PrevCycle(ws)[k]
        rows  == VisibleRows(ws, c)
    IN  CASE above # {} -> Focus(ws, ws.fc, Max(above))
          [] above = {} /\ k # 0
               -> Focus(ws, c, IF ws.cols[c].tab \in rows THEN ws.cols[c].tab
                               ELSE Max(rows))
          [] OTHER -> ws

\* (Variant: only the column is focused.)
FocusColumnOnly(ws, w) ==
    IF w \in Tiled(ws) THEN Focus(ws, ColumnOf(ws, w), 1) ELSE ws

\* Workspace::focus_window; a window that is not tiled is an ignored error.
FocusWindow(ws, w) ==
    IF w \in Tiled(ws) THEN Focus(ws, ColumnOf(ws, w), RowOf(ws, w)) ELSE ws

SetActiveTab(ws, c, t) ==
    LET s == [ws EXCEPT !.cols[c] = ActivateTab(@, t)]
    IN  IF c = ws.fc THEN At(s, c, t) ELSE s

ToggleTabbed(ws) ==
    IF ws.cols = <<>> THEN ws ELSE
    LET col == ws.cols[ws.fc]
    IN  CASE col.tab # 0 -> [ws EXCEPT !.cols[ws.fc].tab = 0]
          [] col.tab = 0 /\ Len(col.wins) >= 2
               -> [ws EXCEPT !.cols[ws.fc].tab = Min({ws.fr, Len(col.wins)})]
          [] OTHER -> ws

(***************************************************************************)
(* Inserting windows and columns.  Callers pass windows that are not yet   *)
(* in the workspace.                                                       *)
(***************************************************************************)
\* (Variant: the focus index does not shift with its column.)
InsertColumnUnshifted(ws, col, index) ==
    ClampFocus([ws EXCEPT
        !.cols = InsertAt(@, Min({index, Len(@) + 1}), col)])

InsertColumnAt(ws, col, index) ==
    LET i == Min({index, Len(ws.cols) + 1})
    IN  ClampFocus([ws EXCEPT
            !.cols = InsertAt(@, i, col),
            !.fc   = IF ws.cols # <<>> /\ @ >= i THEN @ + 1 ELSE @])

\* A new column to the right of the focused one, focused.
InsertWindow(ws, w) ==
    IF ws.cols = <<>>
    THEN At([ws EXCEPT !.cols = <<NewColumn(w)>>], 1, 1)
    ELSE At([ws EXCEPT !.cols = InsertAt(@, ws.fc + 1, NewColumn(w))],
            ws.fc + 1, 1)

InsertWindowNoFocus(ws, w) ==
    IF ws.cols = <<>> THEN InsertWindow(ws, w)
    ELSE At(InsertWindow(ws, w), ws.fc, ws.fr)

InsertWindowAtColumn(ws, w, index) ==
    LET s == InsertColumnAt(ws, NewColumn(w), index)
    IN  At(s, Min({index, Len(s.cols)}), 1)

InsertWindowAtColumnNoFocus(ws, w, index) ==
    InsertColumnAt(ws, NewColumn(w), index)

InsertWindowInColumnAt(ws, w, c, row) ==
    [ws EXCEPT !.cols[c] = InsertRow(@, row, w)]

(***************************************************************************)
(* Removing windows.                                                       *)
(***************************************************************************)
\* Column i after losing a window is `col`; an empty column disappears.
PutColumn(cols, i, col) ==
    IF col.wins = <<>> THEN RemoveAt(cols, i) ELSE [cols EXCEPT ![i] = col]

\* remove_window.  Focus stays on its window; when the focused window goes,
\* the next one slides into its position, or the last one is taken.
RemoveWindow(ws, w) ==
    LET i    == ColumnOf(ws, w)
        r    == RowOf(ws, w)
        col  == RemoveRow(ws.cols[i], r)
        gone == col.wins = <<>>
        cols == PutColumn(ws.cols, i, col)
        fc   == IF gone /\ (ws.fc > i \/ ws.fc > Len(cols))
                THEN ws.fc - 1 ELSE ws.fc
        fr   == IF ~gone /\ i = ws.fc /\ r < ws.fr THEN ws.fr - 1 ELSE ws.fr
    IN  SyncTab(ClampFocus(
            [ws EXCEPT !.cols = cols, !.fc = fc, !.fr = fr,
                       !.minimized = @ \ {w},
                       !.full = IF @ = w THEN None ELSE @]))

AddFloating(ws, w) == [ws EXCEPT !.floating = @ \cup {w}]

\* (Variant: the saved origin survives.)
RemoveFloatingKeepOrigin(ws, w) ==
    [ws EXCEPT !.floating = @ \ {w}, !.full = IF @ = w THEN None ELSE @]

\* remove_floating; minimized_windows is left alone.
RemoveFloating(ws, w) ==
    [ws EXCEPT !.floating = @ \ {w}, !.origin[w] = NoOrigin,
               !.full = IF @ = w THEN None ELSE @]

(***************************************************************************)
(* Moving columns and windows.                                             *)
(***************************************************************************)
\* 0 when there is no active column on that side.
NearestLeft(ws)  == LET k == FirstActive(ws, LeftPath(ws))
                    IN  IF k = 0 THEN 0 ELSE LeftPath(ws)[k]
NearestRight(ws) == LET k == FirstActive(ws, RightPath(ws))
                    IN  IF k = 0 THEN 0 ELSE RightPath(ws)[k]

\* (Variant: the focus stays at the old index.)
SwapInPlace(ws, i) ==
    IF i = 0 THEN ws
    ELSE [ws EXCEPT !.cols[ws.fc] = ws.cols[i], !.cols[i] = ws.cols[ws.fc]]

SwapColumnWith(ws, i) ==
    IF i = 0 THEN ws
    ELSE [ws EXCEPT !.cols[ws.fc] = ws.cols[i], !.cols[i] = ws.cols[ws.fc],
                    !.fc = i]

MoveColumnLeft(ws)  == SwapColumnWith(ws, NearestLeft(ws))
MoveColumnRight(ws) == SwapColumnWith(ws, NearestRight(ws))

ReorderColumn(ws, from, to) ==
    IF from = to \/ {from, to} \ DOMAIN ws.cols # {} THEN ws
    ELSE ClampFocus([ws EXCEPT
             !.cols = InsertAt(RemoveAt(@, from), to, ws.cols[from]),
             !.fc   = CASE @ = from -> to
                        [] from < to /\ @ > from /\ @ <= to -> @ - 1
                        [] to < from /\ @ >= to /\ @ < from -> @ + 1
                        [] OTHER -> @])

MoveColumnToStart(ws) == ReorderColumn(ws, ws.fc, 1)
MoveColumnToEnd(ws)   == ReorderColumn(ws, ws.fc, Len(ws.cols))

\* Unstack the focused window into a column of its own at index c.
Expel(ws, c) ==
    IF ws.cols = <<>> THEN ws ELSE
    LET src == ws.cols[ws.fc]
    IN  IF Len(src.wins) <= 1 THEN ws
        ELSE At([ws EXCEPT
                   !.cols = InsertAt([@ EXCEPT ![ws.fc] = RemoveRow(@, ws.fr)],
                                     c, NewColumn(src.wins[ws.fr]))],
                c, 1)

ExpelToLeft(ws)  == Expel(ws, ws.fc)
ExpelToRight(ws) == Expel(ws, ws.fc + 1)

\* The focused window joins column `target`, at its bottom, with the focus.
JoinColumn(ws, target) ==
    LET src  == RemoveRow(ws.cols[ws.fc], ws.fr)
        gone == src.wins = <<>>
        cols == PutColumn(ws.cols, ws.fc, src)
        t    == IF gone /\ target > ws.fc THEN target - 1 ELSE target
        dst  == AddWindow(cols[t], FocusedWindow(ws))
    IN  Focus([ws EXCEPT !.cols = [cols EXCEPT ![t] = dst]], t, Len(dst.wins))

MoveWindowLeft(ws) ==
    LET t == NearestLeft(ws)
    IN  IF t = 0 THEN ExpelToLeft(ws) ELSE JoinColumn(ws, t)
MoveWindowRight(ws) ==
    LET t == NearestRight(ws)
    IN  IF t = 0 THEN ExpelToRight(ws) ELSE JoinColumn(ws, t)

\* The first visible window of column `source` joins the focused column.
ConsumeFrom(ws, source) ==
    IF source = 0 THEN ws ELSE
    LET row  == Min(VisibleRows(ws, source))
        src  == RemoveRow(ws.cols[source], row)
        gone == src.wins = <<>>
        cols == PutColumn(ws.cols, source, src)
        c    == IF gone /\ source < ws.fc THEN ws.fc - 1 ELSE ws.fc
        dst  == AddWindow(cols[c], ws.cols[source].wins[row])
    IN  Focus([ws EXCEPT !.cols = [cols EXCEPT ![c] = dst]], c, Len(dst.wins))

ConsumeFromLeft(ws)  == ConsumeFrom(ws, NearestLeft(ws))
ConsumeFromRight(ws) == ConsumeFrom(ws, NearestRight(ws))

MoveWindowVertical(ws, row) ==
    IF ws.cols = <<>> THEN ws
    ELSE IF row \notin DOMAIN ws.cols[ws.fc].wins THEN ws
    ELSE Focus([ws EXCEPT !.cols[ws.fc] = SwapRows(@, ws.fr, row)],
               ws.fc, row)

MoveWindowUp(ws)   == MoveWindowVertical(ws, ws.fr - 1)
MoveWindowDown(ws) == MoveWindowVertical(ws, ws.fr + 1)

(***************************************************************************)
(* Minimized, fullscreen and floating windows (workspace/state.rs).        *)
(***************************************************************************)
ClearFullscreenIf(ws, w) == IF ws.full = w THEN [ws EXCEPT !.full = None] ELSE ws

\* (Variant: fullscreen is not left.)
MarkMinimizedOnly(ws, w) ==
    IF w \notin Managed(ws) THEN ws
    ELSE [ws EXCEPT !.minimized = @ \cup {w}]

MarkMinimized(ws, w) ==
    IF w \notin Managed(ws) THEN ws
    ELSE [ClearFullscreenIf(ws, w) EXCEPT !.minimized = @ \cup {w}]

MarkRestored(ws, w) == [ws EXCEPT !.minimized = @ \ {w}]

\* Leave fullscreen; with a stale target, enter it on the focused window.
ToggleFullscreen(ws) ==
    IF ws.full \in Managed(ws) \ ws.minimized THEN [ws EXCEPT !.full = None]
    ELSE [ws EXCEPT !.full = FocusedVisibleWindow(ws)]

ToggleFullscreenWindow(ws, w) ==
    CASE ws.full = w -> [ws EXCEPT !.full = None]
      [] ws.full # w /\ w \in Managed(ws) \ ws.minimized
           -> [ws EXCEPT !.full = w]
      [] OTHER -> ws

FullscreenFollowFocus(ws) ==
    IF ws.full = None \/ FocusedVisibleWindow(ws) = None THEN ws
    ELSE [ws EXCEPT !.full = FocusedVisibleWindow(ws)]

\* toggle_floating: the focused tiled window leaves its column and floats.
Float(ws) ==
    LET w == FocusedWindow(ws)
    IN  IF w = None THEN ws
        ELSE LET left == IF ws.fc > 1 THEN ws.cols[ws.fc - 1].wins[1] ELSE None
             IN  AddFloating(
                     [RemoveWindow(ClearFullscreenIf(ws, w), w) EXCEPT
                        !.origin[w] = [left |-> left, at |-> ws.fc]], w)

\* unfloat_window: back beside its left neighbour, else at its old index.
Unfloat(ws, w) ==
    LET o    == ws.origin[w]
        s    == RemoveFloating(ws, w)
        want == CASE o.left = None -> 1
                  [] o.left \in Tiled(s) -> ColumnOf(s, o.left) + 1
                  [] OTHER -> o.at
        i    == Min({want, Len(s.cols) + 1})
    IN  IF o = NoOrigin THEN InsertWindow(s, w)
        ELSE At(InsertColumnAt(s, NewColumn(w), i), i, 1)
=============================================================================
