------------------------------- MODULE Boxes --------------------------------
(***************************************************************************)
(* The maximize box.  While a window is tiled the daemon takes its         *)
(* WS_MAXIMIZEBOX away, so that Windows offers it no snap layouts, and     *)
(* gives it back when the window floats, leaves management or the daemon   *)
(* ends (window_style.rs, the snap helpers of daemon helpers.rs, the       *)
(* shutdown and session-end paths of main.rs).                             *)
(*                                                                         *)
(* Styles are written by one worker thread, because a write waits for the  *)
(* window's owner.  Up to three others may give every box back without it: *)
(* the session-end handler, the shutdown that gave up waiting for the      *)
(* worker, and the quit fallback.  They share four locked tables with it.  *)
(*                                                                         *)
(* Windows are named by handle and by the managed-lifetime token stamped   *)
(* on them: a handle is not reused here.  The table locks are free when    *)
(* the fallback tries them.  Style reads and writes succeed on live        *)
(* windows.  An owner that does not answer holds up whoever writes its     *)
(* style, as any step may be held up here.                                 *)
(***************************************************************************)
EXTENDS Integers, Sequences, FiniteSets, SequencesExt

CONSTANTS
    Handles,     \* windows
    MaxTokens,   \* times a window is admitted
    MaxQueue     \* requests waiting for the worker

BoxesAssumption == MaxTokens \in Nat /\ MaxQueue \in Nat \ {0} /\ IsFiniteSet(Handles)

VARIABLES
    win,         \* the windows, as Windows and the placement mover know them
    home,        \* where the daemon keeps each: "out", "tiled" or "floating"
    snap,        \* the shared tables, the queue and snap_disabled_hwnds
    worker,      \* the window style worker
    paused,      \* tiling is paused
    phase,       \* of the daemon's main thread
    todo,        \* of each rescuer that started, the windows still to visit
    passed,      \* history: windows a rescuer left to a silent owner
    crossed,     \* history: readmitted while a restore was still under way
    late         \* history: boxes the worker had in hand, or took, after the fallback looked

boxVars == <<win, home, snap, worker, paused, phase, todo, passed, crossed, late>>

Rescuers == {"session end", "shutdown", "fallback"}
Keys == Handles \X (0..MaxTokens)        \* (WindowId, WindowIdentity)

Window == [live : BOOLEAN, native : BOOLEAN, box : BOOLEAN, token : 0..MaxTokens]

Idle == [at |-> "idle", op |-> {}, key |-> {}, undo |-> FALSE]

BoxInit ==
    /\ win \in [Handles -> {w \in Window : w.live /\ w.token = 0 /\ w.box = w.native}]
    /\ home = [h \in Handles |-> "out"]
    /\ snap = [disabled |-> {}, tracked |-> [h \in Handles |-> {}],
               pending |-> [k \in Keys |-> 0], published |-> {}, queue |-> <<>>]
    /\ worker = Idle /\ paused = FALSE /\ phase = "up"
    /\ todo = [r \in {} |-> {}]
    /\ passed = {} /\ crossed = {} /\ late = {}

(***************************************************************************)
(* The identity a request carries, and whether a window still has it.      *)
(***************************************************************************)
\* capture_window_identity
Captured(w, h) == <<h, w[h].token>>

\* window_identity_matches: an identity without a token matches any.
Matches(k) == win[k[1]].live /\ k[2] \in {0, win[k[1]].token}

\* SNAP_DISABLED_HWNDS.get(&id) == Some(&identity)
Tracked(k) == k[2] \in snap.tracked[k[1]]

(***************************************************************************)
(* The daemon asks.                                                        *)
(***************************************************************************)
Request(op, k) == [op |-> op, key |-> {k}]

\* remove_maximizebox, and the daemon's note of it.
Takes(h, w, s) == w[h].live /\ (w[h].box \/ s.pending[Captured(w, h)] > 0)
TakeBox(h, w, s) ==
    IF ~Takes(h, w, s) THEN s
    ELSE [s EXCEPT !.disabled = @ \cup {h}, !.tracked[h] = {w[h].token},
                   !.queue = Append(@, Request("remove", Captured(w, h)))]

\* disable_snap_for_window
DisableSnap(h, w, s) == IF paused \/ h \in s.disabled THEN s ELSE TakeBox(h, w, s)

\* restore_snap_for_window and restore_maximizebox
RestoreSnap(h, s) ==
    LET forgotten == [s EXCEPT !.disabled = @ \ {h}, !.tracked[h] = {}]
        k == Captured(win, h)
    IN CASE h \notin s.disabled -> s
         [] h \in s.disabled /\ ~win[h].live -> forgotten
         [] OTHER -> [forgotten EXCEPT !.pending[k] = @ + 1,
                                       !.queue = Append(@, Request("restore", k))]

\* restore_snap_for_all_windows, with the order in which it goes through those
\* that live; the others are only forgotten.
Requests(op, order) == [i \in DOMAIN order |-> Request(op, Captured(win, order[i]))]
Restorable == {h \in snap.disabled : win[h].live}
RestoreAll(order) ==
    [snap EXCEPT !.disabled = {},
                 !.tracked = [h \in Handles |-> IF h \in snap.disabled THEN {} ELSE snap.tracked[h]],
                 !.pending = [k \in Keys |-> IF k[1] \in Restorable /\ k = Captured(win, k[1])
                                             THEN snap.pending[k] + 1 ELSE snap.pending[k]],
                 !.queue = @ \o Requests("restore", order)]

\* disable_snap_for_all_tiled_windows, with the order of those it takes a box of.
Tiled == {h \in Handles : home[h] = "tiled"} \ snap.disabled
Takable == {h \in Tiled : Takes(h, win, snap)}
TakeAll(order) ==
    [snap EXCEPT !.disabled = @ \cup Takable,
                 !.tracked = [h \in Handles |-> IF h \in Takable THEN {win[h].token}
                                                ELSE snap.tracked[h]],
                 !.queue = @ \o Requests("remove", order)]

Up == phase = "up"
Room(n) == Len(snap.queue) + n <= MaxQueue
Managed(h) == home[h] # "out"
Away == UNCHANGED <<passed, late, todo, worker>>

\* A window appears or comes back: it is stamped anew, then tiled or floated.
\* One restored at startup (early) is tiled before it is stamped.
Admit(h, place, early) ==
    /\ Up /\ Room(1) /\ ~Managed(h) /\ win[h].live /\ win[h].token < MaxTokens
    /\ early => win[h].token = 0 /\ place = "tiled"
    /\ LET stamped == [win EXCEPT ![h].token = @ + 1]
       IN /\ win' = stamped
          /\ snap' = IF place = "floating" THEN snap
                     ELSE DisableSnap(h, IF early THEN win ELSE stamped, snap)
    /\ home' = [home EXCEPT ![h] = place]
    /\ crossed' = IF \E k \in Keys : k[1] = h /\ snap.pending[k] > 0
                  THEN crossed \cup {h} ELSE crossed
    /\ UNCHANGED <<paused, phase>> /\ Away

\* Hidden, destroyed, pruned, stopped by a rule or ignored by the user.
Leave(h) ==
    /\ Up /\ Room(1) /\ Managed(h)
    /\ home' = [home EXCEPT ![h] = "out"] /\ snap' = RestoreSnap(h, snap)
    /\ UNCHANGED <<win, paused, phase, crossed>> /\ Away

\* handle_toggle_floating, handle_unfloat_window, and a changed rule.
Toggle(h) ==
    /\ Up /\ Room(1) /\ Managed(h)
    /\ IF home[h] = "tiled"
       THEN home' = [home EXCEPT ![h] = "floating"] /\ snap' = RestoreSnap(h, snap)
       ELSE home' = [home EXCEPT ![h] = "tiled"] /\ snap' = DisableSnap(h, win, snap)
    /\ UNCHANGED <<win, paused, phase, crossed>> /\ Away

\* toggle_pause; turning disable_snap_layouts off and on asks for the same.
Pause ==
    /\ Up /\ Room(Cardinality(snap.disabled)) /\ ~paused
    /\ paused' = TRUE /\ \E order \in SetToSeqs(Restorable) : snap' = RestoreAll(order)
    /\ UNCHANGED <<win, home, phase, crossed>> /\ Away

\* toggle_pause again
Resume ==
    /\ Up /\ Room(Cardinality(Tiled)) /\ paused
    /\ \E order \in SetToSeqs(Takable) : snap' = TakeAll(order)
    /\ paused' = FALSE
    /\ UNCHANGED <<win, home, phase, crossed>> /\ Away

(***************************************************************************)
(* The worker.                                                             *)
(***************************************************************************)
Running == phase # "done"
Job == CHOOSE k \in worker.key : TRUE
Doing(op) == worker.op = {op}
Elsewhere == UNCHANGED <<home, paused, phase, passed, crossed>>

\* The next request, published before it is looked at; a barrier answers the
\* shutdown that waits on it.
Take ==
    /\ Running /\ worker.at = "idle" /\ snap.queue # <<>>
    /\ LET request == Head(snap.queue)
           rest == [snap EXCEPT !.queue = Tail(@)]
       IN IF request.op = "barrier"
          THEN /\ snap' = rest /\ UNCHANGED worker
               /\ phase' = IF phase = "waiting" THEN "done" ELSE phase
          ELSE /\ snap' = [rest EXCEPT !.published = request.key]
               /\ worker' = [Idle EXCEPT !.at = "check", !.op = {request.op},
                                         !.key = request.key]
               /\ UNCHANGED phase
    /\ UNCHANGED <<win, home, paused, passed, crossed, todo, late>>

\* Nothing written, or a restore done: the request is retired.
Retired(s) == [s EXCEPT !.published = {},
                        !.pending[Job] = IF Doing("restore") /\ ~worker.undo THEN @ - 1 ELSE @]
Finish(s) == worker' = Idle /\ snap' = Retired(s)

\* apply_window_style_inner up to the style: is this the window, and is a box
\* to be taken still to be taken?  A stranger's removal is forgotten.
Check ==
    /\ Running /\ worker.at = "check"
    /\ CASE ~Matches(Job) ->
              Finish(IF Doing("remove")
                     THEN [snap EXCEPT !.tracked[Job[1]] = @ \ {Job[2]}] ELSE snap)
         [] Matches(Job) /\ Doing("remove") /\ ~Tracked(Job) -> Finish(snap)
         [] OTHER -> worker' = [worker EXCEPT !.at = "write"] /\ UNCHANGED snap
    /\ UNCHANGED <<win, todo, late>> /\ Elsewhere

\* The style is read and written: a box that is as asked ends the request.
Write ==
    /\ Running /\ worker.at = "write"
    /\ LET h == Job[1]
           wanted == Doing("restore")
       IN IF win[h].live /\ win[h].box # wanted
          THEN /\ win' = [win EXCEPT ![h].box = wanted]
               /\ worker' = [worker EXCEPT !.at = "frame"]
               /\ late' = IF ~wanted /\ "fallback" \in DOMAIN todo
                          THEN late \cup {h} ELSE late
               /\ UNCHANGED snap
          ELSE Finish(snap) /\ UNCHANGED <<win, late>>
    /\ UNCHANGED todo /\ Elsewhere

\* (Variant: a box taken stays taken.)
FrameAlways ==
    /\ Running /\ worker.at = "frame"
    /\ Finish(snap)
    /\ UNCHANGED <<win, todo, late>> /\ Elsewhere

\* The frame change returned.  retire_if_tracked: a box taken while a rescuer
\* or the daemon forgot about it is given back before the request is retired.
Frame ==
    /\ Running /\ worker.at = "frame"
    /\ IF Doing("remove") /\ ~Tracked(Job)
       THEN /\ worker' = [worker EXCEPT !.at = "check", !.op = {"restore"}, !.undo = TRUE]
            /\ UNCHANGED snap
       ELSE Finish(snap)
    /\ UNCHANGED <<win, todo, late>> /\ Elsewhere

(***************************************************************************)
(* The rescuers.                                                           *)
(***************************************************************************)
Started(r) == r \in DOMAIN todo
Waits(r) == Started(r) /\ todo[r] # {}

\* The tracked windows and those with a restore pending, but for the one the
\* worker has in hand.
Entries ==
    ({k \in Keys : Tracked(k) \/ snap.pending[k] > 0}) \ snap.published

\* restore_maximizebox_panic_recovery, the snapshot: the tracking is drained.
Drain(r) ==
    /\ todo' = [s \in DOMAIN todo \cup {r} |-> IF s = r THEN Entries ELSE todo[s]]
    /\ snap' = [snap EXCEPT !.tracked = [h \in Handles |-> {}]]

\* recover_maximizebox on one of them.  A window whose owner the placement
\* mover has marked as late is passed over when the owner does not answer.
Visit(r) ==
    /\ Running /\ Waits(r)
    /\ \E k \in todo[r] :
          /\ todo' = [todo EXCEPT ![r] = @ \ {k}]
          /\ IF Matches(k) /\ ~win[k[1]].box
             THEN \/ win' = [win EXCEPT ![k[1]].box = TRUE] /\ UNCHANGED passed
                  \/ passed' = passed \cup {k[1]} /\ UNCHANGED win
             ELSE UNCHANGED <<win, passed>>
    /\ UNCHANGED <<home, snap, worker, paused, phase, crossed, late>>

\* restore_windows_for_session_end, on the hidden window's thread; the main
\* thread may still be at work.
SessionEnd ==
    /\ Running /\ ~Started("session end") /\ Drain("session end")
    /\ UNCHANGED <<win, home, worker, paused, phase, passed, crossed, late>>

\* emergency_restore_maximizebox, on the quit fallback's thread: nothing is
\* drained, so the worker may go on taking boxes.
Fallback ==
    /\ Running /\ ~Started("fallback")
    /\ todo' = [s \in DOMAIN todo \cup {"fallback"} |->
                    IF s = "fallback" THEN Entries ELSE todo[s]]
    /\ late' = late \cup {k[1] : k \in snap.published}
    /\ UNCHANGED <<win, home, snap, worker, paused, phase, passed, crossed>>

\* run_shutdown_cleanup: every box is asked back, and the worker given a time.
BeginShutdown ==
    /\ Up
    /\ \E order \in SetToSeqs(Restorable) :
          snap' = [RestoreAll(order) EXCEPT !.queue = Append(@, [op |-> "barrier", key |-> {}])]
    /\ phase' = "waiting"
    /\ UNCHANGED <<win, home, worker, paused, todo, passed, crossed, late>>

\* It did not reach the barrier in time.
GiveUp ==
    /\ phase = "waiting" /\ phase' = "rescuing" /\ Drain("shutdown")
    /\ UNCHANGED <<win, home, worker, paused, passed, crossed, late>>

Rescued ==
    /\ phase = "rescuing" /\ ~Waits("shutdown") /\ phase' = "done"
    /\ UNCHANGED <<win, home, snap, worker, paused, todo, passed, crossed, late>>

\* An application closes a window the daemon has let go.
Close(h) ==
    /\ Running /\ win[h].live /\ ~Managed(h)
    /\ win' = [win EXCEPT ![h].live = FALSE, ![h].box = FALSE]
    /\ UNCHANGED <<home, snap, worker, paused, phase, todo, passed, crossed, late>>

BoxNext ==
    \/ \E h \in Handles :
          \/ \E place \in {"tiled", "floating"}, early \in BOOLEAN : Admit(h, place, early)
          \/ Leave(h) \/ Toggle(h) \/ Close(h)
    \/ Pause \/ Resume
    \/ Take \/ Check \/ Write \/ Frame
    \/ SessionEnd \/ Fallback \/ BeginShutdown \/ GiveUp \/ Rescued
    \/ \E r \in Rescuers : Visit(r)

BoxSpec == BoxInit /\ [][BoxNext]_boxVars

(***************************************************************************)
(* Properties.                                                             *)
(***************************************************************************)
Missing(h) == win[h].live /\ win[h].native /\ ~win[h].box
InHand(h) == \E k \in snap.published : k[1] = h
Listed(k) == \E r \in DOMAIN todo : k \in todo[r]

\* A window whose box is missing is always known to somebody who will give it
\* back: tracked, waited for by a restore, in the worker's hand or on a
\* rescuer's list; unless its owner was silent when a rescuer came by, or it
\* was readmitted under a new token while its restore was still on the way.
BoxesKnown ==
    \A h \in Handles : Missing(h) =>
        \/ InHand(h) \/ h \in passed \cup crossed
        \/ \E k \in Keys : /\ k[1] = h /\ Matches(k)
                           /\ Tracked(k) \/ snap.pending[k] > 0 \/ Listed(k)

\* When the main thread is done, whether the worker made it or was given up
\* on, every window has its box, but for the one in the worker's hand and the
\* same two exceptions.
BoxesBack ==
    phase = "done" => \A h \in Handles :
        Missing(h) => InHand(h) \/ h \in passed \cup crossed

\* When the quit fallback went through its list, so has every window it could
\* reach, but for those the worker had in hand when it looked or whose box it took
\* afterwards, and those another rescuer drained and did not get to.
BoxesBackByForce ==
    Started("fallback") /\ ~Waits("fallback") => \A h \in Handles :
        Missing(h) => \/ InHand(h) \/ h \in passed \cup crossed \cup late
                      \/ \E k \in Keys : k[1] = h /\ Listed(k)

\* A daemon at rest has taken the box of every tiled window, unless tiling is
\* paused, the session is ending or the fallback came by.
TiledUnboxed ==
    Up /\ snap.queue = <<>> /\ worker = Idle /\ ~paused /\ todo = [r \in {} |-> {}] =>
        \A h \in Handles : win[h].live /\ home[h] = "tiled" =>
            ~win[h].box \/ h \in crossed

BoxesSound == BoxesKnown /\ BoxesBack /\ BoxesBackByForce /\ TiledUnboxed
=============================================================================
