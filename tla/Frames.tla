------------------------------- MODULE Frames -------------------------------
(***************************************************************************)
(* The animation loop (transitions.rs, animation_worker.rs, the frame      *)
(* handlers of main.rs, the request ids of physical_placement.rs and the   *)
(* idle re-apply of temporary_ignore.rs).                                  *)
(*                                                                         *)
(* The daemon sends one frame at a time to the worker thread; the result   *)
(* comes back as an event and moves the animation on.  Windows that paint  *)
(* badly while they move are cloaked and shown as thumbnails (ghosts) that *)
(* the worker fades out after the landing.  Requests carry a request id    *)
(* and an invalidation id, so that a frame or a result that something      *)
(* newer has overtaken is recognised.                                      *)
(*                                                                         *)
(* d is the daemon's state: a handler is a composition of the helpers      *)
(* below, run under the state lock.  The focused window is never a ghost   *)
(* and always among a frame's live placements; it is left implicit.  The   *)
(* worker lives as long as the daemon, so the barrier sweep never bites.   *)
(***************************************************************************)
EXTENDS Integers, SequencesExt

CONSTANTS
    Windows,        \* windows that may be shown as ghosts
    Ticks,          \* frames a slide or a scroll takes
    FadeFrames,     \* frames a crossfade takes
    MaxFailures,    \* MAX_IDLE_LAYOUT_REAPPLY_FAILURES
    MaxEvents       \* commands and window events explored

\* What the parameters have to be; assumed where the module is instantiated.
FramesAssumption ==
    {Ticks, FadeFrames, MaxFailures, MaxEvents} \subseteq Nat \ {0}

VARIABLES
    d,          \* AppState and the event loop's locals
    job,        \* what the worker thread is busy with: at most one command
    events,     \* worker events the daemon has not handled
    spent       \* commands and window events so far

frameVars == <<d, job, events, spent>>

Start == [paused |-> FALSE, recover |-> FALSE, failures |-> 0,
          slide |-> 0, scroll |-> 0, ghosted |-> {},
          handles |-> {}, waiting |-> {}, cloaked |-> {},
          fades |-> <<>>, fade |-> {},
          seq |-> 0, pending |-> <<0, 0>>, inflight |-> {}, anim |-> {},
          inval |-> 0, applied |-> 0, confirmed |-> {},
          active |-> FALSE, cmds |-> <<>>]

Sent(s, c) == [s EXCEPT !.cmds = Append(s.cmds, c)]
Animating(s) == s.slide > 0 \/ s.scroll > 0

(***************************************************************************)
(* Physical requests.                                                      *)
(***************************************************************************)
Bump(s) == [s EXCEPT !.inval = s.inval + 1]
Asked(s) == [s EXCEPT !.seq = s.seq + 1, !.pending = <<s.seq + 1, s.inval>>,
                      !.inflight = {s.seq + 1}]
Abandoned(s) ==
    IF s.pending[1] = 0 THEN s
    ELSE [s EXCEPT !.confirmed = IF s.inflight = {} THEN s.confirmed ELSE {},
                   !.applied = IF s.inflight = {} THEN s.applied ELSE s.inval,
                   !.inflight = s.inflight \ {s.pending[1]},
                   !.pending = <<0, 0>>]
Matches(s, r) == r.id = s.pending[1] /\ r.inval = s.pending[2] /\ s.inflight = {r.id}
Landed(s, shown) ==
    [s EXCEPT !.confirmed = shown, !.applied = s.inval, !.inflight = {}]
Safe(s) == IF s.applied = s.inval THEN s.confirmed ELSE {}
FastPath(s) == s.applied = s.inval /\ s.confirmed = Windows /\ ~s.recover

(***************************************************************************)
(* Ghosts and crossfades.                                                  *)
(***************************************************************************)
Uncloak(s, ws) == [s EXCEPT !.cloaked = s.cloaked \ ws]
Release(s) ==
    [Uncloak(s, s.waiting \cap Safe(s)) EXCEPT !.waiting = s.waiting \ Safe(s)]
AbortFade(s) ==
    IF s.fade = {} THEN s
    ELSE [Sent(s, [cmd |-> "abort", epoch |-> CHOOSE e \in s.fade : TRUE])
            EXCEPT !.fade = {}]
AbortGhosts(s) ==
    AbortFade([Uncloak(s, s.handles \cap Safe(s)) EXCEPT
                 !.waiting = s.waiting \cup (s.handles \ Safe(s)),
                 !.handles = {}, !.ghosted = {}])
FadesOf(s, w) == SelectSeq([e \in DOMAIN s.fades |-> e], LAMBDA e : w \in s.fades[e])
StopGhost(s, w) ==
    LET drops == [i \in DOMAIN FadesOf(s, w) |->
                    [cmd |-> "drop", epoch |-> FadesOf(s, w)[i], win |-> w]]
        t == [s EXCEPT !.cmds = s.cmds \o drops, !.waiting = s.waiting \ {w},
                       !.handles = s.handles \ {w}, !.ghosted = s.ghosted \ {w}]
    IN IF w \in s.waiting \cup s.handles THEN Uncloak(t, {w}) ELSE t

\* (Variant: a window that still fades may get another thumbnail.)
MayGhostWhileFading(s) == Windows \ s.waiting
\* start_layout_transition; windows a worker may still fade are refused.
MayGhost(s) == Windows \ (s.waiting \cup UNION Range(s.fades))
StartSlide(s, ghosts) ==
    LET t == AbortGhosts(s)
        g == ghosts \cap MayGhost(t)
    IN [t EXCEPT !.slide = Ticks, !.handles = g, !.ghosted = g,
                 !.cloaked = t.cloaked \cup g]

(***************************************************************************)
(* Frames and layout application.                                          *)
(***************************************************************************)
\* tick_animations with a full frame's time.
Ticked(s) == [s EXCEPT !.slide = IF s.slide > 0 THEN s.slide - 1 ELSE 0,
                       !.scroll = IF s.scroll > 0 THEN s.scroll - 1 ELSE 0,
                       !.ghosted = IF s.slide = 1 THEN {} ELSE s.ghosted]

SendFrame(s) ==
    IF s.paused THEN s
    ELSE LET t == Asked(s)
         IN [Sent(t, [cmd |-> "frame", id |-> t.seq, inval |-> t.inval,
                      live |-> Windows \ t.ghosted])
              EXCEPT !.anim = {t.seq}]

\* should_animate && !animation_active, at the end of a handler.
Kick(s) == IF Animating(s) /\ ~s.active
           THEN [SendFrame(s) EXCEPT !.active = ~s.paused] ELSE s

\* wait_for_barrier: the barrier is answered in time only if nothing before it
\* takes the worker any time, and even then it may not be: the thread need not
\* be scheduled within the probe's 1 ms.  A barrier whose probe timed out stays
\* in the queue, and late marks one that an idle worker left unanswered.
Brief == {"abort", "drop", "barrier"}
Idle(s) == job = {} /\ \A i \in DOMAIN s.cmds : s.cmds[i].cmd \in Brief
Answered(s) == [idle |-> TRUE, to |-> [s EXCEPT !.cmds = <<>>]]
TimedOut(s) == [idle |-> FALSE, to |-> Sent(s, [cmd |-> "barrier", late |-> Idle(s)])]
Probes(s) == {TimedOut(s)} \cup {Answered(t) : t \in {u \in {s} : Idle(u)}}

Finalized(s) == Release([s EXCEPT !.recover = FALSE, !.failures = 0])

\* apply_layout: what it may come to, and what the caller is told.
Completed(s) == [to |-> s, said |-> "completed"]
Deferred(s) == [to |-> s, said |-> "deferred"]
Failed(s) == [to |-> s, said |-> "error"]
Placed(s) == {Failed(Abandoned(s))}
               \cup {Completed(Finalized(Landed(s, shown))) : shown \in SUBSET Windows}
Reached(s) ==
    IF s.slide > 0 THEN {Completed(s)}
    ELSE (IF FastPath(s) THEN {Completed(s)} ELSE {})
           \cup Placed(Asked([s EXCEPT !.anim = {}]))
Apply(s) ==
    IF s.paused THEN {Completed(s)}
    ELSE IF s.recover
         THEN UNION {IF p.idle /\ ~Animating(p.to) THEN Reached(p.to) ELSE {Deferred(p.to)} :
                       p \in Probes(s)}
    ELSE Reached(s)

\* (Variant: the slide and the scroll are left running.)
GhostsOnly(s) == AbortGhosts(s)
\* settle_interrupted_animations_for_recovery
Settled(s) == [AbortGhosts(s) EXCEPT !.slide = 0, !.scroll = 0]

\* try_consume_idle_layout_reapply, and the daemon afterwards.
Retried(r) == IF r.said = "error" THEN [r EXCEPT !.to.failures = r.to.failures + 1] ELSE r
Consumed(s) ==
    UNION {IF ~p.idle \/ p.to.paused THEN {Deferred(p.to)}
           ELSE {Retried(r) : r \in Apply(IF Animating(p.to) THEN Settled(p.to) ELSE p.to)} :
             p \in Probes(s)}
Recover(s) == {r.to : r \in Consumed(s)}

\* drain_pending_placement_work
Drained(s) == [AbortGhosts([Abandoned(Bump(s)) EXCEPT !.anim = {}]) EXCEPT !.slide = 0]

(***************************************************************************)
(* Commands and window events.                                             *)
(***************************************************************************)
Handle(outcomes) ==
    /\ spent < MaxEvents
    /\ spent' = spent + 1
    /\ d' \in outcomes
    /\ UNCHANGED <<job, events>>

\* A handler that applies the layout and then sees to the animation.
Applied(s) == {Kick(r.to) : r \in Apply(s)}

\* A structural change with a transition.
Slide == \E ghosts \in SUBSET Windows : Handle(Applied(StartSlide(d, ghosts)))
\* A focus change that scrolls.
Scroll == Handle(Applied([d EXCEPT !.scroll = Ticks]))
Departs == \E w \in Windows :
    Handle(Applied(Bump([StopGhost(d, w) EXCEPT !.confirmed = d.confirmed \ {w}])))
\* The config is reloaded, the ghost setting changed, or a display change settles.
Reload == Handle(Applied(AbortGhosts(d)))
\* A display change begins: what is on its way is invalid.
Invalidate == Handle({Bump(AbortFade(d))})
Pause == ~d.paused /\ Handle({[AbortGhosts(d) EXCEPT !.paused = TRUE]})

\* A resume that cannot apply the layout stays paused.
Resumed(s) == IF s.recover /\ Animating(s) THEN Consumed(s) ELSE Apply(s)
Resume ==
    /\ d.paused
    /\ Handle({IF r.said = "completed" THEN Kick(r.to) ELSE [r.to EXCEPT !.paused = TRUE] :
                 r \in Resumed([AbortGhosts(d) EXCEPT !.paused = FALSE])})

\* temporarily_unmanage: a worker that cannot be drained, or a window that
\* cannot be read or restored afterwards, leaves a re-apply pending.  (The
\* drain waits 100 ms; a worker that ends within them is one that ended before.)
Requested(s) == {Kick(t) : t \in Recover([s EXCEPT !.recover = TRUE, !.failures = 0])}
Unmanage ==
    Handle(UNION {Requested(p.to) \cup (IF p.idle THEN Applied(p.to) ELSE {}) :
                    p \in Probes(Drained(d))})

Commands == \/ Slide \/ Scroll \/ Departs \/ Reload
            \/ Invalidate \/ Pause \/ Resume \/ Unmanage

\* The idle re-apply timer, armed while a recovery is pending.
Reapply ==
    /\ d.recover
    /\ ~d.paused
    /\ d.failures < MaxFailures
    /\ \A i \in DOMAIN d.cmds : d.cmds[i].cmd # "barrier"    \* bound: one waits at a time
    /\ d' \in Recover(d)
    /\ UNCHANGED <<job, events, spent>>

(***************************************************************************)
(* Worker events.                                                          *)
(***************************************************************************)
\* The landing pass, after apply_layout said so much.
Fading(s, seen) ==
    IF seen = {} THEN s
    ELSE LET e == Len(s.fades) + 1
         IN [Sent(s, [cmd |-> "fade", epoch |-> e, wins |-> seen, inval |-> s.inval])
              EXCEPT !.fades = Append(s.fades, seen), !.fade = {e}]
Shown(r) ==
    LET s == r.to
        seen == IF r.said = "completed" THEN s.handles \cap Safe(s) ELSE {}
        t == [Uncloak(s, seen) EXCEPT !.waiting = s.waiting \cup (s.handles \ seen),
                                      !.handles = {}]
    IN Fading(IF r.said = "completed" THEN Release(t) ELSE t, seen)
\* Ghosts whose handle has become another window's are dropped as they are.
Landing(s) ==
    UNION {{Shown(r) : r \in Apply([Uncloak(s, gone) EXCEPT !.handles = s.handles \ gone])} :
             gone \in SUBSET s.handles}

\* resume_after_interrupted_animation_frame
Continue(s) == IF Animating(s)
               THEN [SendFrame(s) EXCEPT !.active = ~s.paused]
               ELSE [s EXCEPT !.active = FALSE]
Redone(s) == {IF r.said = "completed" THEN Continue(r.to) ELSE [r.to EXCEPT !.active = FALSE] :
                r \in Apply([s EXCEPT !.inflight = {}])}

\* The frame on its way is still the newest: the animation moves on.
Moved(s) ==
    IF (s.slide > 0 \/ s.scroll > 1) /\ ~s.paused THEN {SendFrame(Ticked(s))}
    ELSE Landing([Ticked(s) EXCEPT !.active = FALSE])

\* handle_animation_frame_applied
FrameApplied(r) ==
    LET s == [d EXCEPT !.anim = d.anim \ {r.id}]
    IN IF ~Matches(s, r) THEN {IF s.anim # {} THEN s ELSE Continue(s)}
       ELSE IF r.inval # s.inval THEN Redone(s)
       ELSE Moved(IF r.cancelled THEN s ELSE Landed(s, r.shown))

Without(fades, epoch, ws) == [fades EXCEPT ![epoch] = fades[epoch] \ ws]

FrameResult ==
    /\ events # <<>>
    /\ Head(events).event = "frame"
    /\ d' \in FrameApplied(Head(events))
    /\ events' = Tail(events)
    /\ UNCHANGED <<job, spent>>

TargetDropped ==
    /\ events # <<>>
    /\ Head(events).event = "dropped"
    /\ d' = [d EXCEPT !.fades = Without(d.fades, Head(events).epoch, {Head(events).win})]
    /\ events' = Tail(events)
    /\ UNCHANGED <<job, spent>>

\* acknowledge_crossfade_complete: the epoch's barrier, and no other, goes.
FadeComplete ==
    /\ events # <<>>
    /\ Head(events).event = "complete"
    /\ d' = [d EXCEPT !.fades = Without(d.fades, Head(events).epoch, Windows),
                      !.fade = d.fade \ {Head(events).epoch}]
    /\ events' = Tail(events)
    /\ UNCHANGED <<job, spent>>

(***************************************************************************)
(* The worker thread.                                                      *)
(***************************************************************************)
Next1 == Head(d.cmds)
Tell(e) == events' = Append(events, e)
Taken == d' = [d EXCEPT !.cmds = Tail(d.cmds)]
Answer(f, cancelled, shown) ==
    [event |-> "frame", id |-> f.id, inval |-> f.inval,
     cancelled |-> cancelled, shown |-> shown]

\* A frame that was overtaken is answered and not placed.
TakeFrame ==
    /\ job = {}
    /\ d.cmds # <<>>
    /\ Next1.cmd = "frame"
    /\ IF Next1.id # d.seq \/ Next1.inval # d.inval
       THEN Tell(Answer(Next1, TRUE, {})) /\ job' = {}
       ELSE job' = {Next1} /\ UNCHANGED events
    /\ Taken
    /\ UNCHANGED spent

PlaceFrame ==
    \E f \in job :
      /\ f.cmd = "frame"
      /\ \E shown \in SUBSET f.live : Tell(Answer(f, FALSE, shown))
      /\ job' = {}
      /\ UNCHANGED <<d, spent>>

TakeFade ==
    /\ job = {}
    /\ d.cmds # <<>>
    /\ Next1.cmd = "fade"
    /\ job' = {[cmd |-> "fade", epoch |-> Next1.epoch, wins |-> Next1.wins,
                inval |-> Next1.inval, left |-> FadeFrames]}
    /\ Taken
    /\ UNCHANGED <<events, spent>>

\* Outside a fade these commands have nothing to stop.
TakeOther ==
    /\ job = {}
    /\ d.cmds # <<>>
    /\ Next1.cmd \in {"abort", "drop", "barrier"}
    /\ Taken
    /\ UNCHANGED <<job, events, spent>>

FadeOver(f) == job' = {} /\ Tell([event |-> "complete", epoch |-> f.epoch])

\* One iteration of run_crossfade.
FadeStep ==
    \E f \in job :
      /\ f.cmd = "fade"
      /\ LET more(ws) == IF f.left = 1 THEN {} ELSE {[f EXCEPT !.left = f.left - 1, !.wins = ws]}
             ends == f.left = 1
         IN IF f.inval # d.inval THEN FadeOver(f) /\ UNCHANGED d
            ELSE IF d.cmds = <<>>
                 THEN /\ UNCHANGED d
                      /\ IF ends THEN FadeOver(f) ELSE job' = more(f.wins) /\ UNCHANGED events
            ELSE IF Next1.cmd = "abort" /\ Next1.epoch = f.epoch
                 THEN Taken /\ FadeOver(f)
            ELSE IF Next1.cmd = "drop" /\ Next1.epoch = f.epoch /\ Next1.win \in f.wins
                 THEN /\ Taken
                      /\ job' = more(f.wins \ {Next1.win})
                      /\ events' = events
                           \o <<[event |-> "dropped", epoch |-> f.epoch, win |-> Next1.win]>>
                           \o (IF ends THEN <<[event |-> "complete", epoch |-> f.epoch]>>
                               ELSE <<>>)
            ELSE IF Next1.cmd \in {"abort", "drop"}
                 THEN Taken /\ IF ends THEN FadeOver(f) ELSE job' = more(f.wins) /\ UNCHANGED events
            ELSE FadeOver(f) /\ UNCHANGED d
      /\ UNCHANGED spent

Init == d = Start /\ job = {} /\ events = <<>> /\ spent = 0

Daemon == FrameResult \/ TargetDropped \/ FadeComplete
Worker == TakeFrame \/ PlaceFrame \/ TakeFade \/ TakeOther \/ FadeStep
Next == Commands \/ Reapply \/ Daemon \/ Worker

(***************************************************************************)
(* The daemon handles its events (only Daemon takes one) and the worker    *)
(* its commands; the timer fires.  Nobody has to give a command, and no    *)
(* probe of an idle worker has to time out: Late may never come about.     *)
(***************************************************************************)
Late == \E i \in DOMAIN d.cmds : d.cmds[i].cmd = "barrier" /\ d.cmds[i].late
Fires == Reapply /\ ~Late'
Heard == events # <<>> /\ events' = Tail(events)
FramesSpec == Init /\ [][Next]_frameVars
                   /\ WF_frameVars(Fires) /\ WF_events(Heard) /\ WF_frameVars(Worker)

(***************************************************************************)
(* Properties.                                                             *)
(***************************************************************************)
Holding == UNION ({f.wins : f \in {g \in job : g.cmd = "fade"}}
                  \cup {d.cmds[i].wins : i \in {j \in DOMAIN d.cmds : d.cmds[j].cmd = "fade"}})

\* A window that is cloaked for an animation is one the daemon still shows a
\* thumbnail of, or one it will expose at the next confirmed landing: no path
\* (a new slide, a failed landing, a reload, a pause, a departure) forgets it.
CloakOwned == d.cloaked = d.handles \cup d.waiting

\* No thumbnail is registered for a window while the worker may still be
\* updating the one it fades out (the barrier crossfade_sources keeps).
SourceBarrier == d.handles \cap Holding = {}

\* Every barrier is one the worker has still to answer, so none is left over.
FadesAnswered ==
    \A e \in DOMAIN d.fades : d.fades[e] # {} =>
      \/ \E f \in job : f.cmd = "fade" /\ f.epoch = e
      \/ \E i \in DOMAIN d.cmds : d.cmds[i].cmd = "fade" /\ d.cmds[i].epoch = e
      \/ \E i \in DOMAIN events : events[i].event = "complete" /\ events[i].epoch = e

GhostsKept == CloakOwned /\ SourceBarrier /\ FadesAnswered

\* While the loop believes an animation runs, a frame is on its way or its
\* result is: nothing else would ever start the loop again.
Outstanding ==
    {<<"cmd", i>> : i \in {j \in DOMAIN d.cmds : d.cmds[j].cmd = "frame"}}
      \cup {<<"job", 1>> : f \in {g \in job : g.cmd = "frame"}}
      \cup {<<"event", i>> : i \in {j \in DOMAIN events : events[j].event = "frame"}}
LoopIsFed == d.active => Outstanding # {}

\* wait_for_barrier: "repeated scheduling delays longer than the probe can keep
\* recovery waiting".  Nothing else can: a pending recovery is applied, gives
\* up after its retries or waits for the user to resume, unless a probe of an
\* idle worker times out, and then again from when the worker has taken that
\* barrier.  A worker that was busy, an animation that runs or a result that
\* was overtaken never blocks it for good.
RecoveryRuns ==
    d.recover /\ ~Late ~> (~d.recover \/ d.paused \/ d.failures = MaxFailures \/ Late)

\* toggle_pause: "Abort first so ghost sources cannot remain cloaked
\* indefinitely": what is cloaked when tiling is paused is shown again.
PauseExposes == \A w \in Windows : (d.paused /\ w \in d.cloaked) ~> (w \notin d.cloaked \/ ~d.paused)

=============================================================================
