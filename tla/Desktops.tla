------------------------------ MODULE Desktops ------------------------------
(***************************************************************************)
(* The workspaces of every monitor, and where the daemon keeps a window:   *)
(* admission and departure, minimize and restore, focus that follows a     *)
(* window to its workspace, the workspace and monitor commands, sticky     *)
(* windows, the scratchpad, and monitors that come and go                  *)
(* (daemon/src/monitors.rs, sticky.rs, scratchpad.rs, and the handlers of  *)
(* event_handler.rs and command_handler.rs that change these).             *)
(*                                                                         *)
(* The order of columns, widths, focus inside a workspace, fullscreen and  *)
(* floating rectangles are the subject of Workspace and Strip; here a      *)
(* workspace is three sets.  A monitor is its device name: reconcile keys  *)
(* by HMONITOR but carries workspaces over by name, and a handle value is  *)
(* taken never to move to another display.  A workspace that was never     *)
(* made is an empty one.  Which window a command acts on is any window of  *)
(* the active workspace of the focused monitor.  Tiling is not paused, no  *)
(* drag is in progress, every admission is automatic and none is refused,  *)
(* events are handled when they happen, and a minimized window is restored *)
(* or closed before it is hidden.                                          *)
(***************************************************************************)
EXTENDS Integers, FiniteSets, SequencesExt

CONSTANTS
    Windows,     \* windows of applications
    Monitors,    \* device names
    Slots        \* workspaces of a monitor (9 in the code)

ASSUME DesktopsAssumption == Slots \in Nat \ {0} /\ IsFiniteSet(Monitors)

Slot == 1..Slots

VARIABLES
    connected,   \* monitors: those of the last reconcile
    desk,        \* workspaces: desk[m][i]; blank for a disconnected monitor
    active,      \* active_workspace
    focused,     \* focused_monitor
    stash,       \* stashed_monitor_layouts[m]: at most one [desk, active]
    sticky,      \* sticky_windows
    pad,         \* scratchpad: at most one [window, shown]
    os,          \* what Windows says of a window
    home         \* history: where the user last had it (see Remember), and
                 \* whether two stashes have held it since

vars == <<connected, desk, active, focused, stash, sticky, pad, os, home>>

(***************************************************************************)
(* Workspaces.                                                             *)
(***************************************************************************)
Modes == {"tiled", "floating"}
Blank == [tiled |-> {}, floating |-> {}, minimized |-> {}]
BlankDesk == [i \in Slot |-> Blank]

\* all_window_ids
Ids(ws) == ws.tiled \cup ws.floating

\* insert_window and add_floating; both refuse a window that is there.
Put(ws, w, mode) ==
    IF w \in Ids(ws) THEN ws ELSE [ws EXCEPT ![mode] = @ \cup {w}]

\* remove_window drops the minimized mark, remove_floating keeps it.
Detach(ws, W) ==
    [ws EXCEPT !.minimized = @ \ (W \cap ws.tiled), !.tiled = @ \ W, !.floating = @ \ W]

DetachAll(d, W) == [m \in Monitors |-> [i \in Slot |-> Detach(d[m][i], W)]]

\* find_window_workspace: the places <<monitor, slot, mode>> of w.
Places(d, w) == {p \in Monitors \X Slot \X Modes : w \in d[p[1]][p[2]][p[3]]}

PutAt(d, m, i, w, mode) == [d EXCEPT ![m][i] = Put(@, w, mode)]

\* From one place to another; the mode stays.
Carry(d, w, m, i) ==
    LET mode == (CHOOSE p \in Places(d, w) : TRUE)[3]
    IN  PutAt(DetachAll(d, {w}), m, i, w, mode)

(***************************************************************************)
(* Where the user had a window: where it is, until its monitor leaves.     *)
(* While a stash remembers it, that is where it belongs.                   *)
(***************************************************************************)
StashedIds(s) == UNION {Ids(l.desk[i]) : l \in s, i \in Slot}

Remember ==
    home' = [w \in Windows |->
                IF \E m \in Monitors : w \in StashedIds(stash'[m])
                THEN home[w]
                ELSE [at |-> Places(desk', w), chained |-> FALSE]]

Chained(w) == \E m, n \in Monitors : m # n /\ w \in StashedIds(stash[m]) \cap StashedIds(stash[n])

(***************************************************************************)
(* Focus that follows a window: the foreground is none of ours, or a shown *)
(* window whose workspace becomes the active one of its monitor.           *)
(***************************************************************************)
Follow(m, i) == focused' = m /\ active' = [active EXCEPT ![m] = i]

FollowForeground(candidates) ==
    \/ UNCHANGED <<focused, active>>
    \/ \E w \in candidates : \E p \in Places(desk', w) : Follow(p[1], p[2])

Shown == {w \in Windows : os[w] = "shown"}

(***************************************************************************)
(* Windows come and go.                                                    *)
(***************************************************************************)
Init ==
    /\ connected \in SUBSET Monitors \ {{}}
    /\ focused \in connected
    /\ desk = [m \in Monitors |-> BlankDesk]
    /\ active = [m \in Monitors |-> 1]
    /\ stash = [m \in Monitors |-> {}]
    /\ sticky = {} /\ pad = {}
    /\ os = [w \in Windows |-> "gone"]
    /\ home = [w \in Windows |-> [at |-> {}, chained |-> FALSE]]

HiddenPad(w) == [window |-> w, shown |-> FALSE]

\* is_managed_member
Managed(w) == Places(desk, w) # {} \/ HiddenPad(w) \in pad

\* A member stays where it is; another window opens on the monitor Windows
\* or the policy chose, on the workspace of its rule or the active one.
Admit(w) ==
    IF Managed(w) THEN UNCHANGED <<desk, sticky, focused>>
    ELSE \E m \in connected, i \in Slot, mode \in Modes,
            ruleSticky, takesFocus \in BOOLEAN :
        /\ ruleSticky => i = active[m]
        /\ desk' = PutAt(desk, m, i, w, mode)
        /\ sticky' = IF ruleSticky THEN sticky \cup {w} ELSE sticky
        /\ focused' = IF takesFocus /\ i = active[m] THEN m ELSE focused

Created(w) ==
    /\ os[w] \in {"gone", "hidden"}
    /\ os' = [os EXCEPT ![w] = "shown"]
    /\ Admit(w)
    /\ UNCHANGED <<connected, active, stash, pad>>
    /\ Remember

\* The dead window leaves every stash; a stash left empty is dropped.
Scrub(s, w) ==
    [m \in Monitors |->
        {l \in {[l EXCEPT !.desk = [i \in Slot |-> Detach(@[i], {w})]] : l \in s[m]} :
            StashedIds({l}) # {}}]

\* The window that has the foreground then may be adopted.
Destroyed(w) ==
    /\ os[w] # "gone"
    /\ os' = [os EXCEPT ![w] = "gone"]
    /\ desk' = DetachAll(desk, {w})
    /\ stash' = Scrub(stash, w)
    /\ sticky' = sticky \ {w}
    /\ pad' = {p \in pad : p.window # w}
    /\ FollowForeground(Shown \ {w})
    /\ UNCHANGED connected
    /\ Remember

\* The window may come back: stashes, pin and scratchpad are left alone.
Hidden(w) ==
    /\ os[w] = "shown"
    /\ os' = [os EXCEPT ![w] = "hidden"]
    /\ desk' = DetachAll(desk, {w})
    /\ FollowForeground(Shown \ {w})
    /\ UNCHANGED <<connected, stash, sticky, pad>>
    /\ Remember

Mark(d, S) ==
    [m \in Monitors |-> [i \in Slot |->
        [d[m][i] EXCEPT !.minimized = @ \cup (S \cap Ids(d[m][i]))]]]

Minimized(w) ==
    /\ os[w] = "shown"
    /\ os' = [os EXCEPT ![w] = "iconic"]
    /\ desk' = Mark(desk, {w})
    /\ IF Places(desk, w) = {} THEN focused' = focused
       ELSE \E p \in Places(desk, w) : focused' = p[1]
    /\ UNCHANGED <<connected, active, stash, sticky, pad>>
    /\ Remember

\* mark_restored; a tiled window on the active workspace takes the focus.
\* An unmanaged window is admitted as if it were new.
Restored(w) ==
    /\ os[w] = "iconic"
    /\ os' = [os EXCEPT ![w] = "shown"]
    /\ IF Places(desk, w) = {} THEN Admit(w)
       ELSE \E p \in Places(desk, w) :
            LET marked == w \in desk[p[1]][p[2]].minimized
            IN  /\ desk' = [desk EXCEPT ![p[1]][p[2]].minimized = @ \ {w}]
                /\ focused' = IF marked /\ p[3] = "tiled" /\ p[2] = active[p[1]]
                              THEN p[1] ELSE focused
                /\ UNCHANGED sticky
    /\ UNCHANGED <<connected, active, stash, pad>>
    /\ Remember

(***************************************************************************)
(* A foreground event.  At most once a second it also prunes the members   *)
(* that are hidden and marks those found minimized; a tracked window found *)
(* minimized is marked in any case.  The event may then be suppressed, may *)
(* pull the editor of the configuration to the active workspace, or makes  *)
(* the workspace of the window the active one.                             *)
(***************************************************************************)
MarkedIn(d, w) == \E p \in Places(d, w) : w \in d[p[1]][p[2]].minimized

Unmarked == {w \in Windows : Places(desk, w) # {} /\ ~MarkedIn(desk, w)}

Stale == {w \in Unmarked : os[w] = "hidden"}
Iconic == {w \in Unmarked : os[w] = "iconic"}

Prune(d) ==
    [m \in Monitors |-> [i \in Slot |->
        [d[m][i] EXCEPT !.tiled = @ \ Stale, !.floating = @ \ Stale]]]

Reconciled ==
    {Mark(Prune(desk), Iconic)} \cup {Mark(desk, S) : S \in {T \in SUBSET Iconic : Cardinality(T) <= 1}}

Focused(w) ==
    /\ os[w] = "shown"
    /\ \E d \in Reconciled : \E p \in Places(d, w) :
        \/ desk' = d /\ UNCHANGED <<focused, active>>
        \/ desk' = d /\ Follow(p[1], p[2])
        \/ /\ p[3] = "tiled" /\ <<p[1], p[2]>> # <<focused, active[focused]>>
           /\ desk' = Carry(d, w, focused, active[focused])
           /\ UNCHANGED <<focused, active>>
    /\ UNCHANGED <<connected, stash, sticky, pad, os>>
    /\ Remember

(***************************************************************************)
(* Commands.                                                               *)
(***************************************************************************)
Here == <<focused, active[focused]>>
OnScreen(w) == \E p \in Places(desk, w) : <<p[1], p[2]>> = Here

\* The pinned windows of m join its new active workspace; a pinned window
\* found nowhere is forgotten.
Rehomed(d, m, i) ==
    LET movers == {w \in sticky : \E p \in Places(d, w) : p[1] = m /\ p[2] # i}
        Moving(mode) == {w \in movers : \E p \in Places(d, w) : p[3] = mode}
    IN  [DetachAll(d, movers) EXCEPT
            ![m][i].tiled = @ \cup Moving("tiled"),
            ![m][i].floating = @ \cup Moving("floating")]

\* Numbered, next, previous, or a workspace of another monitor.
SwitchWorkspace(m, i) ==
    /\ m \in connected
    /\ focused' = m
    /\ IF i = active[m] THEN UNCHANGED <<desk, active, sticky>>
       ELSE /\ active' = [active EXCEPT ![m] = i]
            /\ desk' = Rehomed(desk, m, i)
            /\ sticky' = {w \in sticky : Places(desk, w) # {}}
    /\ UNCHANGED <<connected, stash, pad, os>>
    /\ Remember

\* Of the active workspace, or, in the overview, of any workspace of the
\* focused monitor for a window that is not pinned.
MoveToWorkspace(w, i) ==
    /\ \E p \in Places(desk, w) :
        /\ p[1] = focused /\ p[2] # i
        /\ p[2] = active[focused] \/ w \notin sticky
    /\ desk' = Carry(desk, w, focused, i)
    /\ UNCHANGED <<connected, active, focused, stash, sticky, pad, os>>
    /\ Remember

MoveToMonitor(w, m) ==
    /\ OnScreen(w)
    /\ m \in connected \ {focused}
    /\ desk' = Carry(desk, w, m, active[m])
    /\ focused' = m
    /\ UNCHANGED <<connected, active, stash, sticky, pad, os>>
    /\ Remember

FocusMonitor(m) ==
    /\ m \in connected
    /\ focused' = m
    /\ UNCHANGED <<connected, desk, active, stash, sticky, pad, os, home>>

ToggleSticky(w) ==
    /\ OnScreen(w)
    /\ sticky' = IF w \in sticky THEN sticky \ {w} ELSE sticky \cup {w}
    /\ UNCHANGED <<connected, desk, active, focused, stash, pad, os, home>>

ToggleFloating(w) ==
    /\ OnScreen(w)
    /\ \E p \in Places(desk, w) : \E mode \in Modes \ {p[3]} :
        desk' = PutAt(DetachAll(desk, {w}), p[1], p[2], w, mode)
    /\ UNCHANGED <<connected, active, focused, stash, sticky, pad, os>>
    /\ Remember

Release(d, w) == PutAt(DetachAll(d, {w}), focused, active[focused], w, "tiled")

\* Stashing the scratchpad itself releases it; stashing another window
\* releases the one there is first.
ScratchpadStash(w) ==
    /\ OnScreen(w)
    /\ IF \E p \in pad : p.window = w
       THEN desk' = Release(desk, w) /\ pad' = {}
       ELSE /\ desk' = LET d == IF pad = {} THEN desk
                                ELSE Release(desk, (CHOOSE p \in pad : TRUE).window)
                       IN  DetachAll(d, {w})
            /\ pad' = {HiddenPad(w)}
    /\ UNCHANGED <<connected, active, focused, stash, sticky, os>>
    /\ Remember

ScratchpadToggle ==
    /\ \E p \in pad :
        LET w == p.window
        IN  /\ desk' = IF p.shown THEN DetachAll(desk, {w})
                       ELSE PutAt(DetachAll(desk, {w}), focused, active[focused],
                                  w, "floating")
            /\ pad' = {[p EXCEPT !.shown = ~p.shown]}
    /\ UNCHANGED <<connected, active, focused, stash, sticky, os>>
    /\ Remember

(***************************************************************************)
(* Monitors come and go in one reconcile: those that came first, one after *)
(* the other, then those that left.                                        *)
(***************************************************************************)

\* A monitor that came gets the layout it was stashed with, or a blank one.
Returning(m) ==
    IF stash[m] = {} THEN [desk |-> BlankDesk, active |-> 1] ELSE CHOOSE l \in stash[m] : TRUE

\* (Variant: the windows of every stash are pulled once all are put back.)
PulledLast(order, m) == UNION {StashedIds(stash[n]) : n \in Range(order)}

\* The windows of the stashes that are put back after m's, or, when m does not
\* come back itself, of all of them.
PulledAfter(order, m) ==
    UNION {StashedIds(stash[order[j]]) :
              j \in {k \in DOMAIN order : \A i \in DOMAIN order : i >= k => order[i] # m}}

\* A stashed window is taken off every workspace that took it in, those of
\* monitors that came earlier in order included.
Arrived(order) ==
    LET before == [m \in Monitors |-> IF m \in Range(order) THEN Returning(m).desk ELSE desk[m]]
    IN  [desk |-> [m \in Monitors |->
                     [i \in Slot |-> Detach(before[m][i], PulledAfter(order, m))]],
         active |-> [m \in Monitors |->
                       IF m \in Range(order) THEN Returning(m).active ELSE active[m]]]

\* (Variant: only the tiled windows of a monitor that left are taken in.)
MigrateTiled(d, gone, m, i) ==
    LET from == {d[n][j] : n \in gone, j \in Slot}
    IN  [d EXCEPT ![m][i].tiled = @ \cup UNION {ws.tiled : ws \in from}]

\* Workspace i of m takes in the windows of the monitors that left.
Migrate(d, gone, m, i) ==
    LET from == {d[n][j] : n \in gone, j \in Slot}
    IN  [d EXCEPT ![m][i] =
            [tiled |-> @.tiled \cup UNION {ws.tiled : ws \in from},
             floating |-> @.floating \cup UNION {ws.floating : ws \in from},
             minimized |-> @.minimized \cup UNION {ws.minimized \cap Ids(ws) : ws \in from}]]

Layout(d, a) == [desk |-> d, active |-> a]

\* What a monitor that left is remembered by: nothing if it had no window.
StashOf(d, a) == IF UNION {Ids(d[i]) : i \in Slot} = {} THEN {} ELSE {Layout(d, a)}

\* resync_minimized_from_os
Resynced(d) ==
    [m \in Monitors |-> [i \in Slot |->
        [d[m][i] EXCEPT !.minimized =
            {w \in @ : w \notin Ids(d[m][i])} \cup {w \in Ids(d[m][i]) : os[w] = "iconic"}]]]

FocusAfter(new, primary) == IF focused \in new THEN focused ELSE primary

\* The foreground window may be adopted last, unless it is marked minimized.
DisplayChange(new, primary, order) ==
    LET gone == connected \ new
        now  == Arrived(order)
        full == Migrate(now.desk, gone, primary, now.active[primary])
        act  == [m \in Monitors |-> IF m \in gone THEN 1 ELSE now.active[m]]
        kept == [m \in Monitors |-> IF m \in gone THEN BlankDesk ELSE full[m]]
    IN  /\ connected' = new
        /\ desk' = Resynced(kept)
        /\ stash' = [m \in Monitors |->
                        IF m \in gone THEN StashOf(now.desk[m], now.active[m])
                        ELSE IF m \in new \ connected THEN {} ELSE stash[m]]
        /\ \/ focused' = FocusAfter(new, primary) /\ active' = act
           \/ \E w \in Shown : ~MarkedIn(desk', w) /\ \E p \in Places(desk', w) :
                focused' = p[1] /\ active' = [act EXCEPT ![p[1]] = p[2]]
        /\ home' = [w \in Windows |-> [home[w] EXCEPT !.chained = @ \/ Chained(w)']]
        /\ UNCHANGED <<sticky, pad, os>>

Next ==
    \/ \E w \in Windows :
        \/ Created(w) \/ Destroyed(w) \/ Hidden(w)
        \/ Minimized(w) \/ Restored(w) \/ Focused(w)
        \/ ToggleSticky(w) \/ ToggleFloating(w) \/ ScratchpadStash(w)
        \/ \E i \in Slot : MoveToWorkspace(w, i)
        \/ \E m \in Monitors : MoveToMonitor(w, m)
    \/ \E m \in Monitors, i \in Slot : SwitchWorkspace(m, i)
    \/ \E m \in Monitors : FocusMonitor(m)
    \/ ScratchpadToggle
    \/ \E new \in SUBSET Monitors \ {{}} : \E primary \in new :
        \E order \in SetToSeqs(new \ connected) : DisplayChange(new, primary, order)

Spec == Init /\ [][Next]_vars

(***************************************************************************)
(* Properties.                                                             *)
(***************************************************************************)
Workspaces ==
    [tiled : SUBSET Windows, floating : SUBSET Windows, minimized : SUBSET Windows]
Desks == [Slot -> Workspaces]

\* Every variable has its type, a disconnected monitor has no workspaces,
\* and the focused monitor is a connected one.
TypeOK ==
    /\ connected \in SUBSET Monitors \ {{}}
    /\ focused \in connected
    /\ desk \in [Monitors -> Desks]
    /\ \A m \in Monitors \ connected : desk[m] = BlankDesk
    /\ active \in [Monitors -> Slot]
    /\ \A m \in Monitors :
        /\ stash[m] \subseteq [desk : Desks, active : Slot]
        /\ \A k, l \in stash[m] : k = l
    /\ sticky \subseteq Windows
    /\ (\A p, q \in pad : p = q) /\ pad \subseteq [window : Windows, shown : BOOLEAN]
    /\ os \in [Windows -> {"gone", "shown", "iconic", "hidden"}]

\* However monitors, pins, the scratchpad and commands carry windows about,
\* no window is ever in two workspaces, or tiled and floating in one.
OnePlace == \A w \in Windows : \A p, q \in Places(desk, w) : p = q

\* A live window on the screen or minimized is in a workspace of a connected
\* monitor, or is the hidden scratchpad: a monitor that leaves, a release and
\* a move never drop one.
NothingLost ==
    \A w \in Windows : os[w] \in {"shown", "iconic"} => Managed(w)

\* A window that is gone is nowhere: not in a workspace, not in the stash of
\* a monitor that is away, not pinned, not the scratchpad.
NoGhosts ==
    \A w \in Windows : os[w] = "gone" =>
        /\ Places(desk, w) = {} /\ w \notin sticky
        /\ \A m \in Monitors : w \notin StashedIds(stash[m])
        /\ \A p \in pad : p.window # w

\* While the monitor is connected on which the user last had a window, the
\* window is there, in the same workspace and mode: windows that were taken
\* in elsewhere snap back when their monitor returns.
BackAt(w) == \A p \in home[w].at : p[1] \in connected => p \in Places(desk, w)
SnapBack == \A w \in Windows : BackAt(w)

\* That promise is kept over any number of displays that leave, return, take
\* each other's place or come back in one change, for every window that only
\* one display was remembered to have at a time.
SnapsBackUnchained == \A w \in Windows : ~home[w].chained => BackAt(w)

\* Of a step: a window that is not minimized is left out of the layout as if
\* it were only where it left its mark behind as a floating window (remove_floating
\* keeps it): never because it was restored while the monitor was away whose
\* stash has it as minimized, nor by a move, a pin or the scratchpad.
LeftOut(w) == os[w] # "iconic" /\ MarkedIn(desk, w)
MarkLeft(w) == \E m \in Monitors, i \in Slot : w \in desk[m][i].minimized \ Ids(desk[m][i])
NoStaleMark == \A w \in Windows : LeftOut(w)' => LeftOut(w) \/ MarkLeft(w)

\* However windows are carried about, a live one is in one place and a dead one
\* in none.
Accounted == TypeOK /\ OnePlace /\ NothingLost /\ NoGhosts

\* A foreground event of another window that turns a workspace away takes
\* the pinned windows of that monitor along.
StickyShown ==
    \A w \in sticky : \A p \in Places(desk, w) : p[2] = active[p[1]]
StickyFollowsFocus ==
    [][\A w \in Windows : Focused(w) /\ StickyShown => StickyShown']_vars
=============================================================================
