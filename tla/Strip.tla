-------------------------------- MODULE Strip --------------------------------
(***************************************************************************)
(* The daemon's handling of one workspace: IPC commands                    *)
(* (daemon/src/command_handler.rs), tab strip clicks (daemon/src/main.rs)  *)
(* and window events (daemon/src/event_handler.rs), each handler one       *)
(* action.  There is one   *)
(* monitor with one workspace, tiling is not paused and                    *)
(* workspace_edge_wrap is off.                                             *)
(*                                                                         *)
(* Windows live outside the daemon: they appear, disappear, minimize and   *)
(* take the foreground in any order, and the daemon hears of it through    *)
(* events that may be late.  fullscreen_follows_focus, focus_new_windows   *)
(* and new_window_placement are read at every use, since a reload may      *)
(* change them.  apply_layout may fail; a command then returns before it   *)
(* synchronises the foreground window.                                     *)
(***************************************************************************)
EXTENDS Workspace

CONSTANTS
    Applied,    \* the outcomes of apply_layout to consider
    StaleMenus  \* may the strip change while a tab menu is open?

ASSUME AppliedIsOutcome == Applied \subseteq BOOLEAN
ASSUME StaleMenusIsChoice == StaleMenus \in BOOLEAN

VARIABLES
    ws,       \* the workspace
    tracked   \* previous_focused_hwnd: the window believed to have OS focus

vars == <<ws, tracked>>

Init == ws = EmptyWorkspace /\ tracked = None

(***************************************************************************)
(* Shared steps of the handlers.                                           *)
(***************************************************************************)
\* sync_foreground_window: floating focus is kept, else the strip's focus is
\* given the foreground.
Synced(s, t) == IF t \in s.floating THEN t ELSE FocusedVisibleWindow(s)

\* focused_floating_window
FloatingFocused == tracked \in ws.floating

\* exit_fullscreen_if_active
ExitFullscreen(s) == [s EXCEPT !.full = None]
ExitTracked(s, t) == IF s.full = None THEN t ELSE Synced(ExitFullscreen(s), t)

\* reassert_fullscreen_focus: only a tiled window takes the strip's focus.
ReassertedTracked(s, t) == IF s.full \in Tiled(s) THEN s.full ELSE t
Reasserted(s) == FocusWindow(s, s.full)

(***************************************************************************)
(* Focus commands.                                                         *)
(***************************************************************************)
FocusCommands == {"FocusLeft", "FocusRight", "FocusUp", "FocusDown",
                  "FocusNext", "FocusPrev", "FocusStart", "FocusEnd"}

FocusBy(cmd, s) ==
    CASE cmd = "FocusLeft"  -> FocusLeft(s)
      [] cmd = "FocusRight" -> FocusRight(s)
      [] cmd = "FocusUp"    -> FocusUp(s)
      [] cmd = "FocusDown"  -> FocusDown(s)
      [] cmd = "FocusNext"  -> FocusNext(s)
      [] cmd = "FocusPrev"  -> FocusPrev(s)
      [] cmd = "FocusStart" -> FocusStripEnd(s, FALSE)
      [] cmd = "FocusEnd"   -> FocusStripEnd(s, TRUE)

\* focus_floating: among the visible floating windows; which one lies in the
\* direction of the command is geometry and left open.
FocusFloating ==
    /\ FloatingFocused /\ ws.full = None
    /\ tracked \notin ws.minimized
    /\ tracked' \in (ws.floating \ ws.minimized) \ {tracked}
    /\ UNCHANGED ws

\* apply_fullscreen_policy carries a tiled fullscreen along with the focus
\* when it may, and leaves fullscreen before moving the focus otherwise.
MayFollow(s, follows) ==
    s.full # None /\ follows /\ s.full \notin s.floating

FocusTiled(cmd, follows, placed) ==
    /\ ~FloatingFocused
    /\ LET s == IF MayFollow(ws, follows) THEN ws ELSE ExitFullscreen(ws)
           t == IF MayFollow(ws, follows) THEN tracked
                ELSE ExitTracked(ws, tracked)
       IN  /\ ws' = FullscreenFollowFocus(FocusBy(cmd, s))
           /\ tracked' = IF placed THEN Synced(ws', t) ELSE t

(***************************************************************************)
(* Commands that rearrange the strip.  They are ignored while a floating   *)
(* window has focus; fullscreen is left first.                             *)
(***************************************************************************)
ColumnCommands == {"MoveColumnLeft", "MoveColumnRight", "MoveColumnToStart",
                   "MoveColumnToEnd", "ToggleTabbed"}
WindowCommands == {"MoveWindowLeft", "MoveWindowRight", "MoveWindowUp",
                   "MoveWindowDown", "ExpelToLeft", "ExpelToRight",
                   "ConsumeFromLeft", "ConsumeFromRight"}

RearrangeBy(cmd, s) ==
    CASE cmd = "MoveColumnLeft"    -> MoveColumnLeft(s)
      [] cmd = "MoveColumnRight"   -> MoveColumnRight(s)
      [] cmd = "MoveColumnToStart" -> MoveColumnToStart(s)
      [] cmd = "MoveColumnToEnd"   -> MoveColumnToEnd(s)
      [] cmd = "ToggleTabbed"      -> ToggleTabbed(s)
      [] cmd = "MoveWindowLeft"    -> MoveWindowLeft(s)
      [] cmd = "MoveWindowRight"   -> MoveWindowRight(s)
      [] cmd = "MoveWindowUp"      -> MoveWindowUp(s)
      [] cmd = "MoveWindowDown"    -> MoveWindowDown(s)
      [] cmd = "ExpelToLeft"       -> ExpelToLeft(s)
      [] cmd = "ExpelToRight"      -> ExpelToRight(s)
      [] cmd = "ConsumeFromLeft"   -> ConsumeFromLeft(s)
      [] cmd = "ConsumeFromRight"  -> ConsumeFromRight(s)

\* (Variant: the strip is rearranged behind the fullscreen window.)
RearrangeBehind(cmd, placed) ==
    /\ ~FloatingFocused
    /\ ws' = RearrangeBy(cmd, ws)
    /\ tracked' = IF placed /\ cmd \in WindowCommands
                  THEN Synced(ws', tracked) ELSE tracked

\* Only the window commands synchronise the foreground.
Rearrange(cmd, placed) ==
    /\ ~FloatingFocused
    /\ ws' = RearrangeBy(cmd, ExitFullscreen(ws))
    /\ LET t == ExitTracked(ws, tracked)
       IN  tracked' = IF placed /\ cmd \in WindowCommands
                      THEN Synced(ws', t) ELSE t

(***************************************************************************)
(* Fullscreen, floating and tab commands.                                  *)
(***************************************************************************)
ToggleFullscreenCommand ==
    /\ ws' = IF FloatingFocused THEN ToggleFullscreenWindow(ws, tracked)
             ELSE ToggleFullscreen(ws)
    /\ tracked' = IF ws'.full = None THEN Synced(ws', tracked) ELSE tracked

ToggleFloatingCommand(placed) ==
    /\ ws' = IF FloatingFocused THEN Unfloat(ws, tracked) ELSE Float(ws)
    /\ tracked' = IF placed THEN Synced(ws', tracked) ELSE tracked

IsTab(s, c, t) ==
    c \in DOMAIN s.cols /\ s.cols[c].tab # 0 /\ t \in DOMAIN s.cols[c].wins

\* commit_active_tab_after_restore, once Windows has restored the window.
TabCommitted(s, c, t) ==
    SetActiveTab(MarkRestored(s, s.cols[c].wins[t]), c, t)

SetActiveTabCommand(c, t, placed) ==
    /\ IsTab(ws, c, t)
    /\ ws' = TabCommitted(ws, c, t)
    /\ tracked' = IF placed THEN Synced(ws', tracked) ELSE tracked

\* A click on a tab first focuses its column.
TabClick(c, t, placed) ==
    /\ IsTab(ws, c, t)
    /\ ws' = TabCommitted(Focus(ws, c, 1), c, t)
    /\ tracked' = IF placed THEN Synced(ws', tracked) ELSE tracked

\* Untab from the tab menu.  The coordinates were read when the menu opened:
\* the column may no longer be tabbed, and then only its top row is focused.
Untab(c, t, placed) ==
    /\ c \in DOMAIN ws.cols
    /\ StaleMenus \/ IsTab(ws, c, t)
    /\ LET s    == Focus(ws, c, 1)
           open == SetActiveTab(s, c, t)
       IN  IF ~IsTab(ws, c, t) THEN ws' = s /\ UNCHANGED tracked
           ELSE /\ ws' = ExpelToRight(ExitFullscreen(open))
                /\ tracked' = IF placed
                              THEN Synced(ws', ExitTracked(open, tracked))
                              ELSE ExitTracked(open, tracked)

(***************************************************************************)
(* Windows that open.                                                      *)
(***************************************************************************)
\* Where insert_admitted_tile puts a new window: at a rule's column, below
\* the focused window, back in the column it had before a sleep, or in a new
\* column beside the focused one.
TileAtRule(w, i, take) ==
    IF take THEN InsertWindowAtColumn(ws, w, i)
    ELSE InsertWindowAtColumnNoFocus(ws, w, i)

TileInColumn(w, take) ==
    LET s == InsertWindowInColumnAt(ws, w, ws.fc, ws.fr + 1)
    IN  IF take THEN FocusWindow(s, w) ELSE s

\* RecreatedWindowSlot::insert beside a sibling that is still tiled.
TileAtSibling(w, sibling, row, take) ==
    LET s == InsertWindowInColumnAt(ws, w, ColumnOf(ws, sibling), row)
    IN  FocusWindow(s, IF take THEN w ELSE FocusedWindow(ws))

TileBeside(w, take) ==
    IF take THEN InsertWindow(ws, w) ELSE InsertWindowNoFocus(ws, w)

TilePlaces(w, take) ==
    {TileBeside(w, take)}
    \cup {TileAtRule(w, i, take) : i \in 1..(Len(ws.cols) + 1)}
    \cup (IF ws.cols = <<>> THEN {} ELSE {TileInColumn(w, take)})
    \cup {TileAtSibling(w, x[1], x[2], take) :
            x \in Tiled(ws) \X (1..(Cardinality(Tiled(ws)) + 1))}

\* A tile that opens under fullscreen joins behind and the fullscreen window
\* is raised again.
AdmitTile(w, take) ==
    /\ w \notin Managed(ws)
    /\ \E s \in TilePlaces(w, take) :
         IF s.full # None
         THEN ws' = Reasserted(s) /\ tracked' = ReassertedTracked(s, tracked)
         ELSE ws' = s /\ tracked' = IF take THEN Synced(s, tracked) ELSE tracked

AdmitFloat(w, take) ==
    /\ w \notin Managed(ws)
    /\ ws' = AddFloating(ws, w)
    /\ tracked' = IF take THEN w ELSE tracked

(***************************************************************************)
(* Windows that close or hide.  The foreground window at that moment is    *)
(* another managed window, a window outside the workspace, or none         *)
(* (`recover`).                                                            *)
(***************************************************************************)
Departed(w) == IF w \in ws.floating THEN RemoveFloating(ws, w)
               ELSE RemoveWindow(ws, w)

Depart(w, foreground) ==
    /\ w \in Managed(ws)
    /\ LET s     == Departed(w)
           adopt == tracked = w /\ foreground \in Managed(s)
       IN  /\ ws' = IF adopt THEN FocusWindow(s, foreground) ELSE s
           /\ tracked' = CASE Managed(s) = {} -> None
                           [] adopt -> foreground
                           [] tracked = w /\ foreground = "none"
                                -> Synced(s, None)
                           [] tracked = w /\ foreground = "other" -> None
                           [] OTHER -> tracked

(***************************************************************************)
(* Windows that minimize, are restored or take the foreground.             *)
(***************************************************************************)
\* The search for a new focus in mark_minimized_and_reflow: each step runs
\* only while the focus is still on the minimized window, and focus_left
\* only when focus_right has just left it there.
FocusAway(s, w) ==
    LET On(x)  == FocusedWindow(x) = w
        down   == IF On(s) THEN FocusDown(s) ELSE s
        up     == IF On(down) THEN FocusUp(down) ELSE down
        right  == IF On(up) THEN FocusRight(up) ELSE up
    IN  IF On(right) THEN FocusLeft(right) ELSE right

\* A repeated event for a tiled window that is already minimized is ignored.
Minimize(w) ==
    /\ w \in Managed(ws)
    /\ w \notin ws.minimized \/ w \in ws.floating
    /\ ws' = FocusAway(MarkMinimized(ws, w), w)
    /\ LET t == IF w \in ws.floating /\ tracked = w THEN None ELSE tracked
       IN  tracked' = Synced(ws', t)

Restore(w) ==
    /\ w \in Managed(ws) \cap ws.minimized
    /\ ws' = FocusWindow(MarkRestored(ws, w), w)
    /\ tracked' = IF w \in Tiled(ws) THEN Synced(ws', tracked) ELSE tracked

\* What on_window_focused finds out first: the tracked window may have been
\* minimized without an event so far.  When the foreground goes to a window
\* being restored the foreground is left alone, otherwise it is synchronised.
Reconciled(missed) ==
    IF missed THEN FocusAway(MarkMinimized(ws, tracked), tracked) ELSE ws

ReconciledTracked(missed, restoring) ==
    LET t == IF tracked \in ws.floating THEN None ELSE tracked
    IN  CASE ~missed -> tracked
          [] missed /\ restoring -> t
          [] missed /\ ~restoring -> Synced(Reconciled(missed), t)

\* on_window_focused.  Focus nobody asked for does not break fullscreen.  An
\* event that a timing guard takes for an echo (a rapid switch inside one
\* column, the handoff after a minimize) only reconciles.
Focused(w, byUser, missed, restoring) ==
    /\ w \in Managed(ws) /\ w # tracked
    /\ missed => tracked \in Managed(ws) \ ws.minimized
    /\ w \in ws.minimized => restoring
    /\ LET s == Reconciled(missed)
           t == ReconciledTracked(missed, restoring)
       IN  \/ ws' = s /\ tracked' = t
           \/ /\ byUser \/ s.full \in {None, w}
              /\ ws' = FocusWindow(s, w) /\ tracked' = w
           \/ /\ ~byUser /\ s.full \notin {None, w}
              /\ ws' = Reasserted(s) /\ tracked' = ReassertedTracked(s, t)

\* Focus went to a window the daemon does not manage.
FocusedElsewhere == tracked # None /\ tracked' = None /\ UNCHANGED ws

(***************************************************************************)
(* The specification.                                                      *)
(***************************************************************************)
TabPlaces == {p \in (1..Cardinality(Windows)) \X (1..Cardinality(Windows)) :
                p[1] \in DOMAIN ws.cols}

TabCommands ==
    \E p \in TabPlaces, placed \in Applied :
       \/ SetActiveTabCommand(p[1], p[2], placed)
       \/ TabClick(p[1], p[2], placed)
       \/ Untab(p[1], p[2], placed)

Commands ==
    \/ FocusFloating
    \/ \E cmd \in FocusCommands, follows \in BOOLEAN, placed \in Applied :
         FocusTiled(cmd, follows, placed)
    \/ \E cmd \in ColumnCommands \cup WindowCommands, placed \in Applied :
         Rearrange(cmd, placed)
    \/ ToggleFullscreenCommand
    \/ \E placed \in Applied : ToggleFloatingCommand(placed)
    \/ TabCommands

Events ==
    \/ \E w \in Windows, take \in BOOLEAN : AdmitTile(w, take)
    \/ \E w \in Windows, take \in BOOLEAN : AdmitFloat(w, take)
    \/ \E w \in Windows : \E f \in (Managed(ws) \ {w}) \cup {"other", "none"} :
         Depart(w, f)
    \/ \E w \in Windows : Minimize(w) \/ Restore(w)
    \/ \E w \in Windows, byUser, missed, restoring \in BOOLEAN :
         Focused(w, byUser, missed, restoring)
    \/ FocusedElsewhere

Next == Commands \/ Events

Spec == Init /\ [][Next]_vars

(***************************************************************************)
(* Invariants.                                                             *)
(***************************************************************************)
ColumnType == [wins : Seq(Windows), tab : Nat]

WorkspaceType ==
    [cols : Seq(ColumnType), fc : Nat \ {0}, fr : Nat \ {0},
     floating : SUBSET Windows, full : Windows \cup {None},
     minimized : SUBSET Windows,
     origin : [Windows -> [left : Windows \cup {None}, at : Nat]]]

\* The focus position names an existing row of an existing column, or the
\* first of both in an empty strip: what the debug_asserts at the end of
\* remove_window and of the focus moves demand.
FocusInBounds ==
    IF ws.cols = <<>> THEN ws.fc = 1 /\ ws.fr = 1
    ELSE ws.fc \in DOMAIN ws.cols /\ ws.fr \in DOMAIN ws.cols[ws.fc].wins

\* A Tabbed column has at least two windows and its active tab is one of
\* them (maintain_mode_invariant), also when windows leave it while it is
\* not focused.
TabsInBounds ==
    \A i \in DOMAIN ws.cols :
        ws.cols[i].tab # 0 => /\ Len(ws.cols[i].wins) >= 2
                              /\ ws.cols[i].tab \in DOMAIN ws.cols[i].wins

\* The type invariant: every id kept anywhere is a window, and every index
\* is within the sequence the code indexes with it, after every handler.
TypeOK ==
    /\ ws \in WorkspaceType /\ tracked \in Windows \cup {None}
    /\ FocusInBounds
    /\ TabsInBounds

\* Every managed window has exactly one place, a row of one column or a
\* floating entry, and no column is empty: moves, expels, consumes and
\* floating round trips neither lose nor duplicate a window.
OnePlace ==
    /\ \A i \in DOMAIN ws.cols : /\ ws.cols[i].wins # <<>>
                                 /\ IsInjective(ws.cols[i].wins)
    /\ \A i, j \in DOMAIN ws.cols :
         i # j => WindowsOf(ws.cols[i]) \cap WindowsOf(ws.cols[j]) = {}
    /\ Tiled(ws) \cap ws.floating = {}

\* "In the focused column, a tabbed active index must match workspace focus"
\* (column.rs): the tab on screen is the window that commands act on.
FocusedTab ==
    ws.fc \in DOMAIN ws.cols => ws.cols[ws.fc].tab \in {0, ws.fr}

\* The fullscreen window is managed and not minimized; otherwise placements
\* fall back while is_fullscreen() still changes the meaning of commands.
FullscreenTarget ==
    ws.full # None => ws.full \in Managed(ws) \ ws.minimized

\* A saved column position belongs to a window that floats now: a window
\* that left and came back does not return to a place it had in a former
\* life (float_origin_column).
OriginsOfFloating ==
    \A w \in Windows : ws.origin[w] # NoOrigin => w \in ws.floating

\* The parts of the record agree with each other after every handler: one
\* place per window, the tab on screen focused, a fullscreen target that is
\* shown, and origins of floating windows only.
WellFormed == TypeOK /\ OnePlace /\ FocusedTab /\ FullscreenTarget /\ OriginsOfFloating

(***************************************************************************)
(* What a step may not do.                                                 *)
(***************************************************************************)
\* a comes before b in the strip, by column and then by row; together with
\* SameColumn this determines the arrangement of a set of windows.
Before(s, a, b) ==
    \/ ColumnOf(s, a) < ColumnOf(s, b)
    \/ ColumnOf(s, a) = ColumnOf(s, b) /\ RowOf(s, a) < RowOf(s, b)
SameColumn(s, a, b) == ColumnOf(s, a) = ColumnOf(s, b)

\* "structural commands must reveal it before mutating it"
\* (apply_fullscreen_policy): while a window stays fullscreen, the tiled
\* windows behind it keep their arrangement; only arrivals and departures
\* change the strip.
RevealBeforeRearranging ==
    [][ws.full # None /\ ws'.full = ws.full =>
         \A a, b \in Tiled(ws) \cap Tiled(ws') :
            /\ Before(ws', a, b) = Before(ws, a, b)
            /\ SameColumn(ws', a, b) = SameColumn(ws, a, b)]_vars

\* Fullscreen is never handed from a floating window to the tiled focus
\* behind it (apply_fullscreen_policy): it ends, or goes to the floating
\* window that has focus.
FloatingFullscreenKept ==
    [][ws.full \in ws.floating => ws'.full \in ws.floating \cup {None}]_vars

\* While a tiled window is fullscreen and focused, neither a window that
\* opens nor one that activates itself takes the focus, internally or as
\* the tracked foreground (reassert_fullscreen_focus).
InMonocle(s, t) ==
    s.full \in Tiled(s) /\ t = s.full /\ FocusedWindow(s) = s.full

MonocleHolds ==
    [][/\ InMonocle(ws, tracked)
       /\ ws'.full # ws.full \/ ~InMonocle(ws', tracked')
       => \A w \in Windows, b \in BOOLEAN :
            ~AdmitTile(w, b) /\ ~Focused(w, FALSE, FALSE, b)]_vars

\* What fullscreen promises while windows and commands come and go: the
\* strip behind it stays arranged, a floating fullscreen is not handed on,
\* and a focused fullscreen tile keeps the focus.
FullscreenHolds == RevealBeforeRearranging /\ FloatingFullscreenKept /\ MonocleHolds

\* A step that moves the focus to another window.
FocusMoves == FocusedWindow(ws') # FocusedWindow(ws)

\* Moving a column or a window keeps the focus on the same window; consume
\* moves it to the consumed window, which is visible.
FocusFollowsMove ==
    [][FocusMoves =>
         \A cmd \in ColumnCommands \cup WindowCommands, placed \in Applied :
            Rearrange(cmd, placed) =>
              /\ cmd \in {"ConsumeFromLeft", "ConsumeFromRight"}
              /\ FocusedWindow(ws') \notin ws.minimized]_vars

\* Windows that open in the background, leave or minimize elsewhere in the
\* strip do not move the focus to another window, whatever index shifts
\* they cause.
OthersKeepFocus ==
    [][FocusMoves =>
         \A w \in Windows :
            /\ AdmitTile(w, FALSE) => ws.cols = <<>> \/ ws.full # None
            /\ Minimize(w) => w = FocusedWindow(ws)
            /\ \A f \in (Managed(ws) \ {w}) \cup {"other", "none"} :
                 Depart(w, f) => w \in {FocusedWindow(ws), tracked}]_vars

ActiveTabIs(s, w) ==
    LET col == s.cols[ColumnOf(s, w)]
    IN  col.tab # 0 /\ col.wins[col.tab] = w

\* `active_idx` "is sticky across focus changes -- when the column is
\* unfocused, it remembers which tab was last on top" (column.rs).  The
\* remembered window, while it is visible, stays on top while windows come
\* and go around it; only the tab commands name another one, and a window
\* that opens as the focused tab before a fullscreen window takes the focus
\* back.  (Not when the focused window leaves: see ClosedColumnKeepsTabs.)
TabsRemembered ==
    [][FocusedWindow(ws) \in Tiled(ws') /\
       (\E w \in (Tiled(ws) \cap Tiled(ws')) \ ws.minimized :
          /\ ActiveTabIs(ws, w) /\ ColumnOf(ws, w) # ws.fc
          /\ ColumnOf(ws', w) # ws'.fc
          /\ ws'.cols[ColumnOf(ws', w)].tab # 0
          /\ ~ActiveTabIs(ws', w))
       => TabCommands \/ \E w \in Windows : AdmitTile(w, TRUE)]_vars

\* The strip implements the abstract desk.
D == INSTANCE Desk WITH managed <- Managed(ws),
                        hidden  <- ws.minimized \cap Managed(ws),
                        full    <- ws.full
ImplementsDesk == D!Spec

\* The window believed to have the foreground, when it is a visible tile,
\* is the strip's focus, or in its column while the focus is minimized.
Agrees(s, t) ==
    t \in Tiled(s) \ s.minimized =>
        IF FocusedWindow(s) \in s.minimized THEN ColumnOf(s, t) = s.fc
        ELSE t = FocusedWindow(s)

\* No handler separates the two once they agree, as long as layouts are
\* applied, tab menus act on the strip they were opened on and no floating
\* window is fullscreen.  A step that starts with the focus on a minimized
\* window is left out: the window that stands in for it is found again by
\* position each time.
FocusAgreementKept ==
    [][/\ Agrees(ws, tracked)
       /\ FocusedWindow(ws) \notin ws.minimized
       /\ ws.full \notin ws.floating
       => Agrees(ws', tracked')]_vars

(***************************************************************************)
(* What comments and tests of the repository say and the code does not do. *)
(***************************************************************************)
\* test_minimize_focus_moves_to_next: minimizing the focused window moves
\* the focus to a visible window if the strip has one.
MinimizeMovesFocus ==
    [][\A w \in Windows :
         /\ Minimize(w) /\ w = FocusedWindow(ws)
         /\ Tiled(ws) \ (ws.minimized \cup {w}) # {}
         => FocusedWindow(ws') \notin ws'.minimized]_vars

\* "Enter tabbed columns on their remembered active tab rather than carrying
\* over the source index" (land_focus_in_current_column): closing the only
\* window of the focused column leaves the other columns' tabs alone.
ClosedColumnKeepsTabs ==
    [][\A w \in Windows :
         /\ ws.cols # <<>> /\ w = FocusedWindow(ws)
         /\ Len(ws.cols[ws.fc].wins) = 1
         /\ Depart(w, "none") \/ Depart(w, "other")
         => \A v \in Tiled(ws') : ActiveTabIs(ws, v) => ActiveTabIs(ws', v)]_vars
=============================================================================
