-------------------------------- MODULE Drift --------------------------------
(***************************************************************************)
(* One managed window that does not stay where it was put: it moves by     *)
(* itself or under the user's hand, is maximized and restored, covers the  *)
(* screen, or lands late.  The daemon hears of it by an event that says    *)
(* nothing but "moved", and must snap a tiled window back, keep a floating *)
(* one where the user left it, and leave alone a window that is maximized, *)
(* fullscreen by its own doing, or still settling; a worker restores one   *)
(* that was opened maximized.                                              *)
(*                                                                         *)
(* There are other windows beside it that every layout places.  Left out:  *)
(* drags and resizes (Drag), minimizing, workspace fullscreen, more than   *)
(* one monitor, placements off the edge of the strip, cloaking, and        *)
(* layouts that run out of time (ApplyLayout).                             *)
(***************************************************************************)
EXTENDS Naturals, FiniteSets

CONSTANTS
    Budget,         \* POST_ADMISSION_MAXIMIZE_RESTORE_BUDGET
    MaxEvents       \* what the window and its user do, in all

DriftAssumption == Budget \in Nat \ {0} /\ MaxEvents \in Nat

VARIABLES
    win,        \* the window, and what the daemon holds of it
    mail,       \* events on their way: the window moved, a restoration's report
    spent       \* of MaxEvents

driftVars == <<win, mail, spent>>

(***************************************************************************)
(* win: of the system, at (a rectangle), zoom, late (a move queued) and    *)
(* pressed (the user pressed something since the window was admitted); of  *)
(* the restoring worker, job; the rest is the daemon's:                    *)
(*   kind, shown, want     tiled or floating, on the active workspace, the *)
(*                         rectangle of the layout or of the floating list *)
(*   last, pres            last_placed_layout_rects, physical presentation *)
(*   session               application_fullscreen                          *)
(*   elig, pending         restores issued while eligible; one outstanding *)
(*   fresh, recent, hush   within 2 s of admission, 1.2 s of being seen    *)
(*                         maximized, 250 ms of a placement                *)
(*   deferred, landing, try    what the periodic check comes back to       *)
(*   frame, display        a frame being placed; a display change awaited  *)
(*   excused               why it need not be in place (history)           *)
(***************************************************************************)
Slots == {"slot1", "slot2"}
Places == Slots \cup {"away", "screen"}

Tiled(m) == m.kind = "tiled"
Settling(m) == m.fresh /\ m.recent
\* expected_physical_rect, or last_placed_layout_rects.
Expected(m) == IF m.pres # {} THEN {p.rect : p \in m.pres} ELSE m.last
\* observe_application_fullscreen: no slot covers the screen.
Covers(m) == m.at = "screen" /\ ~m.zoom
Let(m, why) == [m EXCEPT !.excused = @ \cup {why}]

\* (Variant: what was placed last is remembered.)
Remembered(m) == m
\* The rectangle is no longer known to have been placed, so the next layout places it.
Forgotten(m) == [m EXCEPT !.last = {}]
\* queue_maximized_admission_restore; the style worker may refuse the request.
Queued(m) ==
    {[m EXCEPT !.elig = {n + 1 : n \in @}, !.pending = TRUE, !.recent = TRUE, !.job = "queued"],
     [m EXCEPT !.elig = {}, !.recent = @ \/ m.zoom]}
\* try_restore_post_admission_maximize would go ahead.
MayRestore(m) ==
    /\ ~m.pending /\ m.elig # {} /\ m.fresh /\ ~m.pressed
    /\ \A n \in m.elig : n < Budget
Unrestored(m) == IF m.pending THEN m ELSE [m EXCEPT !.elig = {}]

(***************************************************************************)
(* apply_layout, as the set of its outcomes.                               *)
(***************************************************************************)
\* floating_move_geometry; deferred without an acknowledged rectangle says nothing.
Acknowledged(m) == UNION {p.seen : p \in {q \in m.pres : q.ok}}
FloatsAt(m, deferred) ==
    IF m.frame \/ m.display \/ m.session \/ ~m.shown \/ m.zoom \/ m.at = "off" THEN {}
    ELSE IF Acknowledged(m) # {}
    THEN IF Expected(m) = {m.want} /\ m.at \in Acknowledged(m) THEN {} ELSE {m.at}
    ELSE IF deferred THEN {} ELSE {m.at}
\* preserve_deferred_floating_moves
Preserved(m) ==
    IF m.kind = "floating" /\ m.deferred /\ \E p \in m.pres : p.rect = m.want
    THEN [m EXCEPT !.want = IF FloatsAt(m, TRUE) = {} THEN @ ELSE m.at]
    ELSE m
\* placements_match_last_applied /\ physical_fast_path_ok
Unchanged(m) == m.last = (IF m.shown THEN {m.want} ELSE {}) /\ \A p \in m.pres : p.ok

Presents(m, ok, seen) == [m EXCEPT !.pres = {[rect |-> m.want, ok |-> ok, seen |-> seen]}]
\* consume_physical_landings after the worker placed, did not or could not place the window.
Placed(m) ==
    LET sent == [m EXCEPT !.hush = TRUE, !.landing = FALSE]
    IN  IF m.zoom       \* handle_maximized_placement_skips
        THEN {[Presents(sent, TRUE, {"max"}) EXCEPT !.hush = FALSE, !.last = {}, !.recent = TRUE]}
        ELSE {[Presents(sent, TRUE, {m.want}) EXCEPT !.at = m.want, !.late = {}, !.excused = {}],
              Let([Presents(sent, TRUE, {m.at}) EXCEPT !.late = {}], "refused"),
              [Presents(sent, FALSE, {}) EXCEPT !.landing = TRUE, !.late = {m.want}],
              Let([Presents(sent, FALSE, {}) EXCEPT !.hush = FALSE], "failed")}

\* should_dispatch_visible_tiled_placement, of what was observed just before.
Dispatched(m) == ~Tiled(m) \/ (~m.zoom /\ ~m.pending /\ ~Settling(m))
\* Parked, or filter_application_fullscreen_placements leaves it out.
LeftOut(m) == ~m.shown \/ m.session
Apply(m0) ==
    LET m == Preserved(m0)
        seen == [m EXCEPT !.last = IF m.shown THEN {m.want} ELSE {},
                          !.recent = @ \/ (m.shown /\ ~m.session /\ Tiled(m) /\ m.zoom)]
        gone == [seen EXCEPT !.pres = {}]   \* the other windows' presentations remain
    IN  IF m0.frame THEN {m0}
        ELSE IF Unchanged(m) THEN {m}
        ELSE IF LeftOut(m) THEN {gone}
        ELSE IF ~Dispatched(seen) THEN {IF m.zoom THEN gone ELSE Let(gone, "settling")}
        ELSE Placed([seen EXCEPT !.recent = IF Tiled(m) THEN FALSE ELSE @])

(***************************************************************************)
(* The handlers.                                                           *)
(***************************************************************************)
\* park_inactive_workspace_window
Parked(m) ==
    IF m.session THEN m
    ELSE IF Covers(m) THEN [m EXCEPT !.session = TRUE]
    ELSE [m EXCEPT !.at = "off", !.late = {}]
\* exit_application_fullscreen
Exited(m0) ==
    LET m == Forgotten([m0 EXCEPT !.session = FALSE])
    IN  IF ~Tiled(m) THEN {Let(m, "left fullscreen")}      \* the floating list is as before
        ELSE IF m.zoom THEN {[m EXCEPT !.recent = TRUE]}
        ELSE IF ~m.shown THEN {[m EXCEPT !.at = "off"]}
        ELSE Apply(m)
\* reconcile_application_fullscreen_sessions
Reconciled(m) == IF m.session /\ ~Covers(m) THEN Exited(m) ELSE {m}
\* on_inactive_workspace_window_moved
Strayed(m) ==
    IF m.frame THEN [m EXCEPT !.deferred = TRUE]
    ELSE LET free == [m EXCEPT !.try = {}, !.recent = FALSE]
         IN  IF m.at = "off" THEN free ELSE Parked(free)
\* A tiled window that is neither maximized nor settling: in place, or snapped back.
SnapBack(m0, periodic) ==
    LET m == [m0 EXCEPT !.recent = FALSE]
        tried == {t \in m.try : t.at = Expected(m)}
    IN  IF {m.at} = Expected(m) THEN {[m EXCEPT !.try = tried]}
        ELSE IF periodic /\ m.pres = {} THEN {m}
        ELSE IF periodic /\ \E t \in tried : t.gaveUp \/ t.soon
        THEN {Let([m EXCEPT !.try = {[t EXCEPT !.gaveUp = TRUE] : t \in @}], "gave up")}
        ELSE Apply([Forgotten(m) EXCEPT !.try =
                        IF periodic THEN {[at |-> Expected(m), gaveUp |-> FALSE, soon |-> TRUE]} ELSE @])
\* The second half of on_window_moved_or_resized_with_native_ops.
Settle(m, periodic) ==
    IF m.frame \/ m.display
    THEN {[m EXCEPT !.deferred = TRUE,
                    !.recent = @ \/ (m.frame /\ ~m.display /\ Tiled(m) /\ ~m.session /\ m.zoom)]}
    ELSE IF Covers(m) THEN {[m EXCEPT !.session = TRUE]}
    ELSE IF m.session THEN Exited(m)
    ELSE IF m.hush THEN {[m EXCEPT !.deferred = TRUE]}
    ELSE IF ~m.shown /\ ~m.zoom THEN {Strayed(m)}
    ELSE IF ~Tiled(m)
    THEN LET to == FloatsAt(m, periodic)
         IN  {IF to = {} THEN [m EXCEPT !.try = {}]
              ELSE [m EXCEPT !.try = {}, !.want = m.at, !.excused = {}]}
    ELSE IF m.zoom THEN {[m EXCEPT !.recent = TRUE]}
    ELSE IF Settling(m) THEN {Let(m, "settling")}
    ELSE SnapBack(m, periodic)
\* on_window_moved_or_resized
Moved(m0, periodic) ==
    LET m == IF m0.fresh THEN m0 ELSE [m0 EXCEPT !.elig = {}]
        tempted == Tiled(m) /\ m.elig # {} /\ ~m.session
    IN  IF m0.pending THEN {Let(m0, "awaiting its restoration")}
        ELSE IF tempted /\ Covers(m) THEN Settle([m EXCEPT !.elig = {}], periodic)
        ELSE IF tempted /\ m.zoom
        THEN IF MayRestore(m)
             THEN UNION {IF n.pending THEN {n} ELSE Settle(n, periodic) : n \in Queued(m)}
             ELSE Settle(Unrestored(m), periodic)
        ELSE Settle(m, periodic)
\* on_maximized_admission_restored
Restored(m0, still) ==
    LET m == [m0 EXCEPT !.pending = FALSE]
        After(n) == IF n.zoom THEN {[n EXCEPT !.recent = TRUE]}
                    ELSE Apply(Forgotten([n EXCEPT !.recent = FALSE]))
    IN  IF still THEN {[m EXCEPT !.recent = TRUE]}
        ELSE IF m.session \/ ~Tiled(m) THEN After([m EXCEPT !.elig = {}])
        ELSE IF m.zoom
        THEN IF MayRestore(m)
             THEN UNION {IF n.pending THEN {n} ELSE After(n) : n \in Queued(m)}
             ELSE After(Unrestored(m))
        ELSE After(m)
\* recheck_deferred_window_moves
Rechecked(m0) ==
    LET m == [m0 EXCEPT !.deferred = FALSE]
        replay == m0.deferred
        inactive == replay /\ ~m.shown
    IN  IF m.pres = {} /\ ~inactive
        THEN {Let([m EXCEPT !.try = {}, !.landing = FALSE], "never placed")}
        ELSE IF ~replay /\ (m.late # {} \/ Settling(m)) THEN {m}
        ELSE IF m.frame \/ m.display \/ m.hush THEN {m0}
        ELSE IF ~inactive /\ m.landing /\ m.late = {} THEN Apply(Forgotten(m))
        ELSE Moved([m EXCEPT !.landing = FALSE], TRUE)

(***************************************************************************)
(* Steps.                                                                  *)
(***************************************************************************)
NoMail == [moved |-> FALSE, report |-> {}]
Does == spent < MaxEvents /\ spent' = spent + 1
\* Whatever changes the window's rectangle or its state is an event.
Becomes(m) ==
    /\ win' = m
    /\ mail' = [mail EXCEPT !.moved = @ \/ m.at # win.at \/ m.zoom # win.zoom]
\* The same, of a message that is taken from the mail.
Handles(outcomes, rest) ==
    \E m \in outcomes :
        /\ win' = m
        /\ mail' = [rest EXCEPT !.moved = @ \/ m.at # win.at \/ m.zoom # win.zoom]
        /\ UNCHANGED spent

\* The window moves, is maximized or restored, by itself or by the user.
Stirs ==
    /\ Does
    /\ \E to \in Places : ~win.zoom /\ to # win.at /\ Becomes([win EXCEPT !.at = to])
Zooms == Does /\ ~win.zoom /\ \E p \in BOOLEAN : Becomes([win EXCEPT !.zoom = TRUE, !.pressed = @ \/ p])
Unzooms ==
    /\ Does /\ win.zoom
    /\ \E to \in {win.at, "away"} : Becomes([win EXCEPT !.zoom = FALSE, !.at = to, !.late = {}])
\* A placement whose owner was busy is carried out after all.
LandsLate == win.late # {} /\ ~win.zoom
             /\ Becomes([win EXCEPT !.at = CHOOSE r \in win.late : TRUE, !.late = {}]) /\ UNCHANGED spent

HearsMoved == mail.moved /\ Handles(Moved(win, FALSE), [mail EXCEPT !.moved = FALSE])
HearsReport ==
    \E still \in mail.report : Handles(Restored(win, still), [mail EXCEPT !.report = {}])
PeriodicCheck == (win.deferred \/ win.landing) /\ Handles(Rechecked(win), mail)

\* restore_maximized_window_with: it shows the window unmaximized, waits, and reports.
WorkerShows ==
    /\ win.job = "queued"
    /\ Becomes([win EXCEPT !.job = "shown", !.zoom = FALSE]) \/ Becomes([win EXCEPT !.job = "shown"])
    /\ UNCHANGED spent
WorkerReports ==
    /\ win.job = "shown"
    /\ win' = [win EXCEPT !.job = "none"]
    /\ mail' = [mail EXCEPT !.report = {win.zoom}]
    /\ UNCHANGED spent

\* The clock.
FreshEnds == win.fresh /\ win' = [win EXCEPT !.fresh = FALSE] /\ UNCHANGED <<mail, spent>>
RecentEnds == win.recent /\ win' = [win EXCEPT !.recent = FALSE] /\ UNCHANGED <<mail, spent>>
HushEnds == win.hush /\ win' = [win EXCEPT !.hush = FALSE] /\ UNCHANGED <<mail, spent>>
FightEnds ==
    /\ \E t \in win.try : t.soon
    /\ win' = [win EXCEPT !.try = {[t EXCEPT !.soon = FALSE] : t \in @}]
    /\ UNCHANGED <<mail, spent>>

\* The layout changes at once, or by a frame that a transition places; a switch away and back.
Relayout ==
    /\ Does /\ ~win.frame /\ Tiled(win)
    /\ \E to \in Slots, framed \in BOOLEAN :
          /\ to # win.want
          /\ IF framed THEN win' = [win EXCEPT !.want = to, !.frame = TRUE] /\ UNCHANGED mail
             ELSE \E m \in Apply([win EXCEPT !.want = to]) : Becomes(m)
FrameLands == win.frame /\ Handles(Apply(Forgotten([win EXCEPT !.frame = FALSE])), mail)
Switches ==
    /\ Does /\ ~win.frame
    /\ \E m \in Apply(IF win.shown THEN [Parked(win) EXCEPT !.shown = FALSE]
                      ELSE [win EXCEPT !.shown = TRUE]) : Becomes(m)
DisplayNotice == Does /\ ~win.display /\ win' = [win EXCEPT !.display = TRUE] /\ UNCHANGED mail
\* on_display_change
DisplayChange ==
    /\ win.display /\ ~win.frame
    /\ LET m == [win EXCEPT !.display = FALSE, !.pres = {[p EXCEPT !.ok = FALSE] : p \in @}]
       IN  Handles(UNION {Apply(IF n.shown THEN n ELSE Parked(n)) : n \in Reconciled(m)}, mail)

\* The window is admitted, perhaps maximized, with or without the press observers.
New(kind, zoom) ==
    [kind |-> kind, shown |-> TRUE, want |-> "slot1", at |-> "away", zoom |-> zoom, late |-> {},
     pressed |-> FALSE, job |-> "none", last |-> {}, pres |-> {}, session |-> FALSE, elig |-> {},
     pending |-> FALSE, fresh |-> TRUE, recent |-> FALSE, hush |-> FALSE, deferred |-> FALSE,
     landing |-> FALSE, try |-> {}, frame |-> FALSE, display |-> FALSE, excused |-> {}]
DriftInit ==
    /\ mail = NoMail /\ spent = 0
    /\ \E kind \in {"tiled", "floating"}, zoom, watched \in BOOLEAN :
          LET m == New(kind, zoom)
              eligible == IF kind = "tiled" /\ watched THEN [m EXCEPT !.elig = {0}] ELSE m
          IN  win \in UNION {Apply(n) : n \in IF zoom THEN Queued(eligible) ELSE {eligible}}

Daemon == HearsMoved \/ HearsReport \/ PeriodicCheck \/ FrameLands \/ DisplayChange
Clock == FreshEnds \/ RecentEnds \/ HushEnds \/ FightEnds
Worker == WorkerShows \/ WorkerReports
DriftNext == \/ Stirs \/ Zooms \/ Unzooms \/ LandsLate \/ Daemon \/ Worker \/ Clock
             \/ Relayout \/ Switches \/ DisplayNotice
DriftSpec == DriftInit /\ [][DriftNext]_driftVars

(***************************************************************************)
(* Properties.                                                             *)
(***************************************************************************)
AtRest == /\ mail = NoMail /\ win.job = "none" /\ win.late = {}
          /\ ~(win.hush \/ win.deferred \/ win.landing \/ win.frame \/ win.display \/ win.fresh \/ win.recent)
\* Once all is quiet a shown tiled window is in its slot and an inactive one is
\* put away, unless it is maximized, fullscreen, or was let be for a reason.
InPlace ==
    AtRest /\ ~win.zoom /\ ~win.session /\ win.excused = {} =>
        IF win.shown THEN win.at = win.want \/ (~Tiled(win) /\ win.at \in Acknowledged(win)) ELSE win.at = "off"
\* A fullscreen session is one of a window that covers the screen.
SessionTrue == AtRest /\ win.excused = {} => (win.session <=> Covers(win))
\* A restoration the daemon waits for is still with the worker or on its way back.
PendingAnswered == win.pending => win.job # "none" \/ mail.report # {}
DriftSound == InPlace /\ SessionTrue /\ PendingAnswered
=============================================================================
