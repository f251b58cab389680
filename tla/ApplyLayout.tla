----------------------------- MODULE ApplyLayout -----------------------------
(***************************************************************************)
(* How the daemon puts a layout on the screen (daemon/src/layout_apply.rs).*)
(*                                                                         *)
(* The main thread, which holds the state lock throughout, hands the       *)
(* placements to a worker thread and waits for its answer for a bounded    *)
(* time.  A worker stuck in a Win32 call is left behind: its epoch is      *)
(* invalidated, tiling pauses and the windows are recovered; the worker    *)
(* itself recovers the windows if it finds out too late.  A display change *)
(* is given one retry after a delay before tiling pauses.  Console signals *)
(* (as session end and the tray fallback) cancel everything from a thread  *)
(* of their own.                                                           *)
(*                                                                         *)
(* Layouts stand for complete sets of placements.  The screen shows the    *)
(* layout placed last; "late" after a placement by a worker that was       *)
(* already invalidated, "mixed" after one that failed half way,            *)
(* "recovered" after a recovery pass or a cascade brought every window     *)
(* back.  apply_epoch is only ever compared for equality with the epoch a  *)
(* worker was born in, so it is kept as the set of workers that are        *)
(* current.  No layout transition or idle reapply is in progress, and some *)
(* window is to be placed.                                                 *)
(***************************************************************************)
EXTENDS Naturals

CONSTANTS
    Layouts,
    Workers,   \* thread slots, reused once a thread has been joined
    MaxGen     \* bound on display_change_apply_retry_generation

ASSUME MaxGenIsNat == MaxGen \in Nat
ASSUME LayoutsAreNoMarks ==
    Layouts \cap {"late", "mixed", "recovered", "unknown", "none"} = {}

VARIABLES
    main,        \* what the main thread is doing
    caller,      \* who called apply_layout: an event, a display change, the
                 \* retry of one, or toggle_pause
    reapplying,  \* reapplying_after_violation
    awaited,     \* the worker recv_timeout waits for
    want,        \* the layout the workspaces ask for
    last,        \* last_placed_layout_rects
    confirmed,   \* physical_fast_path_ok
    paused,
    stalled,     \* paused by a timeout and not asked to resume since
    retry,       \* generation of display_change_apply_retry, 0 for None
    used,        \* display_change_apply_retry_used
    gen,         \* display_change_apply_retry_generation
    timer,       \* generation of display_change_apply_retry_timer, 0 for None
    ticking,     \* generations whose timer task still sleeps
    due,         \* DisplayChangeApplyRetry messages in the event channel
    cancelled,   \* apply_worker_cancelled
    current,     \* the workers whose epoch is apply_epoch
    wpc,         \* what each worker is doing
    placing,     \* the layout each worker was given
    answer,      \* what each worker has sent, "none" before
    suppress,    \* suppress_late_recovery of each worker
    pending,     \* pending_apply_workers
    suppressed,  \* keys of suppressed_late_recovery_workers
    console,     \* progress of the console signal thread
    screen       \* what the windows on the screen show

mainVars  == <<main, caller, reapplying, awaited>>
stateVars == <<want, last, confirmed, paused, stalled>>
retryVars == <<retry, used, gen>>
timerVars == <<timer, ticking, due>>
workVars  == <<wpc, placing, answer>>
listVars  == <<suppress, pending, suppressed>>
vars == <<mainVars, stateVars, retryVars, timerVars, workVars, listVars,
          cancelled, current, console, screen>>

Callers == {"event", "display", "retry", "resume"}
Shutdown == {"resumeDeferred", "cancel", "bump", "recover", "recoverAgain",
             "ending", "exited"}
MainPcs == {"idle", "reap", "apply", "waiting", "timedOut", "invalidate",
            "stall", "recoverStalled"} \cup Shutdown
WorkerPcs == {"none", "start", "place", "check", "late", "recover", "done"}

Init ==
    /\ main = "idle" /\ caller = "event" /\ reapplying = FALSE
    /\ awaited \in Workers
    /\ want \in Layouts /\ last = "none" /\ confirmed = FALSE
    /\ paused = FALSE /\ stalled = FALSE
    /\ retry = 0 /\ used = FALSE /\ gen = 0
    /\ timer = 0 /\ ticking = {} /\ due = {}
    /\ cancelled = FALSE /\ current = {}
    /\ wpc = [w \in Workers |-> "none"]
    /\ placing = [w \in Workers |-> want]
    /\ answer = [w \in Workers |-> "none"]
    /\ suppress = [w \in Workers |-> FALSE]
    /\ pending = {} /\ suppressed = {}
    /\ console = "idle" /\ screen = "unknown"

Alive == main # "exited"

(***************************************************************************)
(* Returning from apply_layout to the event loop.  finish_daemon_event     *)
(* arms the timer of a new retry and aborts that of a retry that is gone.  *)
(***************************************************************************)
\* (Variants: a timer is never armed, or never aborted.)
TimerNotArmed(r) == timer' = 0 /\ ticking' = {} /\ UNCHANGED due
TimerKept(r) ==
    timer' = r /\ ticking' = ticking \cup ({r} \ {0, timer}) /\ UNCHANGED due

TimerFollows(r) ==
    /\ timer' = r
    /\ ticking' = CASE r = 0     -> {}
                    [] r = timer -> ticking
                    [] OTHER     -> {r}
    /\ UNCHANGED due

\* toggle_pause restores the paused state when the resume fails.
Return(ok, nowPaused) ==
    /\ main' = "idle" /\ reapplying' = FALSE
    /\ paused' = (nowPaused \/ (caller = "resume" /\ ~ok))
    /\ UNCHANGED <<caller, awaited>>

(***************************************************************************)
(* Entries of the event loop that lead to apply_layout.                    *)
(***************************************************************************)
Call(c) ==
    /\ main = "idle" /\ main' = "reap" /\ caller' = c
    /\ UNCHANGED <<reapplying, awaited>>

\* Any command or window event that may change the layout.
Event ==
    /\ Call("event")
    /\ want' \in Layouts
    /\ UNCHANGED <<last, confirmed, paused, stalled, retryVars, timerVars,
                   workVars, listVars, cancelled, current, console, screen>>

\* on_display_change; another topology makes the placements unconfirmed.
DisplayChange ==
    /\ gen < MaxGen
    /\ Call("display")
    /\ want' \in Layouts /\ confirmed' \in {confirmed, FALSE}
    /\ UNCHANGED <<last, paused, stalled, retryVars, timerVars, workVars,
                   listVars, cancelled, current, console, screen>>

ResumeDeferred ==
    /\ suppress' = [w \in Workers |-> suppress[w] /\ w \notin suppressed]
    /\ suppressed' = {}

\* toggle_pause, pausing: placements stay as they are.
Pause ==
    /\ main = "idle" /\ ~paused
    /\ paused' = TRUE
    /\ UNCHANGED <<mainVars, want, last, confirmed, stalled, retryVars,
                   timerVars, workVars, listVars, cancelled, current, console,
                   screen>>

\* toggle_pause, resuming.
Resume ==
    /\ paused /\ paused' = FALSE /\ stalled' = FALSE
    /\ Call("resume")
    /\ ResumeDeferred /\ UNCHANGED pending
    /\ retry' = 0
    /\ UNCHANGED <<want, last, confirmed, used, gen, timerVars, workVars,
                   cancelled, current, console, screen>>

Finished == {w \in pending : wpc[w] = "done"}

Join(ws) == wpc' = [w \in Workers |-> IF w \in ws THEN "none" ELSE wpc[w]]

\* reap_finished_pending_apply_workers: the handles of finished threads are
\* joined; `recovers` says whether one of them may have placed windows late.
Reap ==
    /\ Join(Finished)
    /\ pending' = pending \ Finished /\ suppressed' = suppressed \ Finished

ReapNeedsRecovery == ~(Finished \subseteq suppressed)

\* release_all_windows: pause, reap without recovery, and cascade the windows
\* unless a worker is left.
ReleaseAllWindows ==
    /\ main = "idle"
    /\ paused' = TRUE /\ confirmed' = FALSE
    /\ Reap
    /\ screen' = IF pending' = {} THEN "recovered" ELSE screen
    /\ UNCHANGED <<mainVars, want, last, stalled, retryVars, timerVars,
                   placing, answer, suppress, cancelled, current, console>>

\* (Variant: any message runs the retry that is armed.)
RetryUnguarded(g) == retry # 0

\* run_display_change_apply_retry runs the retry of its own generation.
RetryMatches(g) == retry = g

RetryStale(g) ==
    /\ main = "idle" /\ g \in due /\ ~RetryMatches(g)
    /\ due' = due \ {g}
    /\ UNCHANGED <<mainVars, stateVars, retryVars, timer, ticking, workVars,
                   listVars, cancelled, current, console, screen>>

RetryTaken(g) ==
    /\ main = "idle" /\ g \in due /\ RetryMatches(g)
    /\ due' = due \ {g} /\ timer' = 0 /\ ticking' = {}
    /\ retry' = 0

RetryWhilePaused(g) ==
    /\ RetryTaken(g) /\ paused
    /\ ResumeDeferred
    /\ screen' = "recovered"
    /\ UNCHANGED <<mainVars, stateVars, used, gen, workVars, pending,
                   cancelled, current, console>>

\* A worker that still runs pauses tiling; otherwise the layout is applied,
\* past the fast path.
RetryRuns(g) ==
    /\ RetryTaken(g) /\ ~paused
    /\ Reap
    /\ screen' = IF ReapNeedsRecovery THEN "recovered" ELSE screen
    /\ caller' = "retry"
    /\ IF pending' # {} THEN main' = "stall" /\ UNCHANGED last
       ELSE main' = "apply" /\ last' = "none"
    /\ UNCHANGED <<reapplying, awaited, want, confirmed, paused, stalled,
                   used, gen, placing, answer, suppress, cancelled, current,
                   console>>

TimerExpires(g) ==
    /\ Alive /\ g \in ticking
    /\ ticking' = ticking \ {g} /\ due' = due \cup {g}
    /\ UNCHANGED <<mainVars, stateVars, retryVars, timer, workVars, listVars,
                   cancelled, current, console, screen>>

(***************************************************************************)
(* apply_layout.                                                           *)
(***************************************************************************)
ApplyReaps ==
    /\ main = "reap" /\ main' = "apply"
    /\ Reap
    /\ screen' = IF ReapNeedsRecovery THEN "recovered" ELSE screen
    /\ UNCHANGED <<caller, reapplying, awaited, stateVars, retryVars,
                   timerVars, placing, answer, suppress, cancelled, current,
                   console>>

\* (Variant: a worker left behind does not hold up the next.)
SkipsUnlessPending == paused \/ cancelled

Skips == paused \/ cancelled \/ pending # {}

\* While paused there is nothing to do; otherwise skipping is an error.
ApplySkips ==
    /\ main = "apply" /\ Skips
    /\ Return(paused, paused) /\ TimerFollows(retry)
    /\ UNCHANGED <<want, last, confirmed, stalled, retryVars, workVars,
                   listVars, cancelled, current, console, screen>>

Unchanged == last = want /\ confirmed

Succeeded ==
    /\ used' = FALSE /\ retry' = 0 /\ UNCHANGED gen
    /\ Return(TRUE, paused) /\ TimerFollows(0)

\* Nothing moved since the last confirmed placement.
ApplyFastPath ==
    /\ main = "apply" /\ ~Skips /\ Unchanged
    /\ Succeeded
    /\ UNCHANGED <<want, last, confirmed, stalled, workVars, listVars,
                   cancelled, current, console, screen>>

\* (Variant: the placements of the request count as confirmed.)
AbandonNothing == UNCHANGED confirmed

\* abandon_physical_request
Abandon == confirmed' = FALSE

Spawn(w) ==
    /\ main = "apply" /\ ~Skips /\ ~Unchanged
    /\ wpc[w] = "none"
    /\ main' = "waiting" /\ awaited' = w
    /\ last' = want
    /\ current' = {w}
    /\ wpc' = [wpc EXCEPT ![w] = "start"]
    /\ placing' = [placing EXCEPT ![w] = want]
    /\ answer' = [answer EXCEPT ![w] = "none"]
    /\ suppress' = [suppress EXCEPT ![w] = FALSE]
    /\ UNCHANGED <<caller, reapplying, want, confirmed, paused, stalled,
                   retryVars, timerVars, pending, suppressed, cancelled,
                   console, screen>>

SpawnFails ==
    /\ main = "apply" /\ ~Skips /\ ~Unchanged
    /\ last' = want /\ Abandon /\ current' = {}
    /\ Return(FALSE, paused) /\ TimerFollows(retry)
    /\ UNCHANGED <<want, stalled, retryVars, workVars, listVars, cancelled,
                   console, screen>>

Answered(w, answers) ==
    main = "waiting" /\ awaited = w /\ wpc[w] = "done" /\ answer[w] \in answers

\* The windows are read back after a placement, and one of them may not be
\* where it should; a cancelled worker reads none back.
ReceiveOk(w) ==
    /\ Answered(w, {"ok", "cancelled"})
    /\ Join({w})
    /\ confirmed' \in (IF answer[w] = "ok" THEN BOOLEAN ELSE {FALSE})
    /\ Succeeded
    /\ UNCHANGED <<want, last, stalled, placing, answer, listVars, cancelled,
                   current, console, screen>>

\* A window refused its size: the layout changes and is applied once more.
ReceiveAndReapply(w) ==
    /\ Answered(w, {"ok"}) /\ ~reapplying
    /\ Join({w})
    /\ confirmed' \in BOOLEAN /\ want' \in Layouts
    /\ reapplying' = TRUE /\ main' = "reap"
    /\ UNCHANGED <<caller, awaited, last, paused, stalled, retryVars,
                   timerVars, placing, answer, listVars, cancelled, current,
                   console, screen>>

\* The placement failed, or the worker panicked and the channel is closed.
ReceiveError(w) ==
    /\ Answered(w, {"error", "lost"})
    /\ Join({w})
    /\ Abandon
    /\ Return(FALSE, paused) /\ TimerFollows(retry)
    /\ UNCHANGED <<want, last, stalled, retryVars, placing, answer, listVars,
                   cancelled, current, console, screen>>

(***************************************************************************)
(* A timeout: first the suppression is published, then the epoch is        *)
(* invalidated, then the retry is armed or tiling pauses.                  *)
(***************************************************************************)
\* (Variant: the epoch is invalidated at once.)
TimesOutInvalidating(w) ==
    /\ main = "waiting" /\ awaited = w /\ wpc[w] # "done"
    /\ main' = "timedOut" /\ current' = {}
    /\ UNCHANGED <<caller, reapplying, awaited, stateVars, retryVars,
                   timerVars, workVars, listVars, cancelled, console, screen>>

TimesOut(w) ==
    /\ main = "waiting" /\ awaited = w /\ wpc[w] # "done"
    /\ main' = "timedOut"
    /\ UNCHANGED <<caller, reapplying, awaited, stateVars, retryVars,
                   timerVars, workVars, listVars, cancelled, current, console,
                   screen>>

DefersToRetry == caller \in {"display", "retry"} /\ ~used

Publish ==
    /\ main = "timedOut" /\ main' = "invalidate"
    /\ IF DefersToRetry
       THEN /\ suppress' = [suppress EXCEPT ![awaited] = TRUE]
            /\ suppressed' = suppressed \cup {awaited}
       ELSE UNCHANGED <<suppress, suppressed>>
    /\ UNCHANGED <<caller, reapplying, awaited, stateVars, retryVars,
                   timerVars, workVars, pending, cancelled, current, console,
                   screen>>

Invalidate ==
    /\ main = "invalidate"
    /\ Abandon /\ current' = {} /\ pending' = pending \cup {awaited}
    /\ UNCHANGED <<want, last, stalled, workVars, suppress, suppressed,
                   cancelled, console, screen>>

InvalidateAndDefer ==
    /\ Invalidate /\ DefersToRetry
    /\ used' = TRUE /\ gen' = gen + 1 /\ retry' = gen + 1
    /\ Return(FALSE, paused) /\ TimerFollows(gen + 1)

InvalidateAndStall ==
    /\ Invalidate /\ ~DefersToRetry
    /\ main' = "stall"
    /\ UNCHANGED <<caller, reapplying, awaited, paused, retryVars, timerVars>>

\* (Variant: late workers stay silent.)
StallSuppressing ==
    /\ main = "stall" /\ main' = "recoverStalled"
    /\ paused' = TRUE /\ stalled' = TRUE /\ retry' = 0
    /\ UNCHANGED <<caller, reapplying, awaited, want, last, confirmed, used,
                   gen, timerVars, workVars, listVars, cancelled, current,
                   console, screen>>

\* pause_after_layout_apply_timeout, up to its recovery pass.
Stall ==
    /\ main = "stall" /\ main' = "recoverStalled"
    /\ paused' = TRUE /\ stalled' = TRUE /\ retry' = 0
    /\ ResumeDeferred
    /\ UNCHANGED <<caller, reapplying, awaited, want, last, confirmed, used,
                   gen, timerVars, workVars, pending, cancelled, current,
                   console, screen>>

RecoverStalled ==
    /\ main = "recoverStalled" /\ screen' = "recovered"
    /\ Return(FALSE, TRUE) /\ TimerFollows(0)
    /\ UNCHANGED <<want, last, confirmed, stalled, retryVars, workVars,
                   listVars, cancelled, current, console>>

(***************************************************************************)
(* A worker.                                                               *)
(***************************************************************************)
ShouldCancel(w) == cancelled \/ w \notin current

Goes(w, to) == wpc' = [wpc EXCEPT ![w] = to]

Finishes(w, with) ==
    Goes(w, "done") /\ answer' = [answer EXCEPT ![w] = with]

WorkerOnly ==
    UNCHANGED <<mainVars, stateVars, retryVars, timerVars, placing, listVars,
                cancelled, current, console>>

\* The two checks before anything is placed.
WorkerStarts(w) ==
    /\ Alive /\ wpc[w] = "start"
    /\ IF ShouldCancel(w) THEN Finishes(w, "cancelled")
       ELSE Goes(w, "place") /\ UNCHANGED answer
    /\ WorkerOnly /\ UNCHANGED screen

\* The placement counts from its last window on; it may fail half way.
WorkerPlaces(w) ==
    /\ Alive /\ wpc[w] = "place"
    /\ Goes(w, "check")
    /\ \/ /\ answer' = [answer EXCEPT ![w] = "ok"]
          /\ screen' = IF ShouldCancel(w) THEN "late" ELSE placing[w]
       \/ answer' = [answer EXCEPT ![w] = "error"] /\ screen' = "mixed"
    /\ WorkerOnly

WorkerPanics(w) ==
    /\ Alive /\ wpc[w] = "place"
    /\ Finishes(w, "lost") /\ screen' = "mixed"
    /\ WorkerOnly

WorkerChecks(w) ==
    /\ Alive /\ wpc[w] = "check"
    /\ Goes(w, IF ShouldCancel(w) THEN "late" ELSE "done")
    /\ WorkerOnly /\ UNCHANGED <<answer, screen>>

WorkerReadsPolicy(w) ==
    /\ Alive /\ wpc[w] = "late"
    /\ IF suppress[w] THEN Finishes(w, "cancelled")
       ELSE Goes(w, "recover") /\ UNCHANGED answer
    /\ WorkerOnly /\ UNCHANGED screen

WorkerRecovers(w) ==
    /\ Alive /\ wpc[w] = "recover"
    /\ Finishes(w, "cancelled") /\ screen' = "recovered"
    /\ WorkerOnly

Worker(w) ==
    \/ WorkerStarts(w) \/ WorkerPlaces(w) \/ WorkerPanics(w)
    \/ WorkerChecks(w) \/ WorkerReadsPolicy(w) \/ WorkerRecovers(w)

(***************************************************************************)
(* A console signal, session end or the tray fallback: another thread      *)
(* cancels, invalidates and restores without the lock, then asks the event *)
(* loop to shut down.                                                      *)
(***************************************************************************)
ConsoleOnly ==
    UNCHANGED <<mainVars, stateVars, retryVars, timerVars, workVars, listVars>>

ConsoleCancels ==
    /\ Alive /\ console = "idle" /\ console' = "cancelled"
    /\ cancelled' = TRUE
    /\ ConsoleOnly /\ UNCHANGED <<current, screen>>

ConsoleInvalidates ==
    /\ Alive /\ console = "cancelled" /\ console' = "invalidated"
    /\ current' = {}
    /\ ConsoleOnly /\ UNCHANGED <<cancelled, screen>>

ConsoleRestores ==
    /\ Alive /\ console = "invalidated" /\ console' = "sent"
    /\ screen' = "recovered"
    /\ ConsoleOnly /\ UNCHANGED <<cancelled, current>>

(***************************************************************************)
(* Shutdown: begin_shutdown_or_revert, bounded joins of the workers that   *)
(* are left, and recovery passes.                                          *)
(***************************************************************************)
ShutdownStep(from, to) ==
    /\ main = from /\ main' = to
    /\ UNCHANGED <<caller, reapplying, awaited, stateVars, retryVars,
                   timerVars, workVars, console>>

BeginShutdown ==
    /\ ShutdownStep("idle", "resumeDeferred")
    /\ UNCHANGED <<listVars, cancelled, current, screen>>

\* (Variant: late workers stay silent.)
ShutdownSuppressing ==
    /\ ShutdownStep("resumeDeferred", "cancel")
    /\ UNCHANGED <<listVars, cancelled, current, screen>>

ShutdownResumesDeferred ==
    /\ ShutdownStep("resumeDeferred", "cancel")
    /\ ResumeDeferred
    /\ UNCHANGED <<pending, cancelled, current, screen>>

ShutdownCancels ==
    /\ ShutdownStep("cancel", "bump")
    /\ cancelled' = TRUE
    /\ UNCHANGED <<listVars, current, screen>>

ShutdownInvalidates ==
    /\ ShutdownStep("bump", "recover")
    /\ current' = {} /\ pending' = {}
    /\ UNCHANGED <<suppress, suppressed, cancelled, screen>>

\* (Variant: the joins are not bounded.)
ShutdownAwaitsWorkers ==
    /\ ShutdownStep("recover", "recoverAgain")
    /\ \A w \in Workers : wpc[w] \in {"none", "done"}
    /\ screen' = "recovered"
    /\ UNCHANGED <<listVars, cancelled, current>>

\* run_shutdown_cleanup, with or without the workers having finished.
ShutdownRecovers ==
    /\ ShutdownStep("recover", "recoverAgain")
    /\ screen' = "recovered"
    /\ UNCHANGED <<listVars, cancelled, current>>

\* stop_animation_worker_and_run_recovery
ShutdownRecoversAgain ==
    /\ ShutdownStep("recoverAgain", "ending")
    /\ screen' = "recovered"
    /\ UNCHANGED <<listVars, cancelled, current>>

\* main returns, and what still runs dies with the process.
ProcessExits ==
    /\ ShutdownStep("ending", "exited")
    /\ UNCHANGED <<listVars, cancelled, current, screen>>

Exited == ~Alive /\ UNCHANGED vars

(***************************************************************************)
(* The specification.                                                      *)
(***************************************************************************)
Retries(g) == RetryStale(g) \/ RetryWhilePaused(g) \/ RetryRuns(g)

Applying ==
    \/ ApplyReaps \/ ApplySkips \/ ApplyFastPath \/ SpawnFails
    \/ \E w \in Workers :
         Spawn(w) \/ ReceiveOk(w) \/ ReceiveAndReapply(w) \/ ReceiveError(w)
    \/ Publish \/ InvalidateAndDefer \/ InvalidateAndStall
    \/ Stall \/ RecoverStalled

TimeOut == \E w \in Workers : TimesOut(w)

ShuttingDown ==
    \/ ShutdownResumesDeferred \/ ShutdownCancels \/ ShutdownInvalidates
    \/ ShutdownRecovers \/ ShutdownRecoversAgain \/ ProcessExits

Next ==
    \/ Event \/ DisplayChange \/ Pause \/ Resume \/ ReleaseAllWindows
    \/ \E g \in 1..MaxGen : Retries(g) \/ TimerExpires(g)
    \/ Applying \/ TimeOut
    \/ \E w \in Workers : Worker(w)
    \/ ConsoleCancels \/ ConsoleInvalidates \/ ConsoleRestores
    \/ BeginShutdown \/ ShuttingDown \/ Exited

Spec == Init /\ [][Next]_vars

\* The main thread goes on, recv_timeout ends and timers expire; the event
\* channel is first in, first out, so a message in it is handled although
\* other events keep coming.  Workers may hang for ever.
Fairness ==
    /\ WF_vars(Applying) /\ WF_vars(TimeOut) /\ WF_vars(ShuttingDown)
    /\ \A g \in 1..MaxGen : WF_vars(TimerExpires(g)) /\ SF_vars(Retries(g))
    /\ SF_vars(console = "sent" /\ BeginShutdown)

FairSpec == Spec /\ Fairness

(***************************************************************************)
(* Invariants.                                                             *)
(***************************************************************************)
Screens == Layouts \cup {"late", "mixed", "recovered", "unknown"}

MainType ==
    /\ main \in MainPcs /\ caller \in Callers /\ reapplying \in BOOLEAN
    /\ awaited \in Workers

StateType ==
    /\ want \in Layouts /\ last \in Layouts \cup {"none"}
    /\ confirmed \in BOOLEAN /\ paused \in BOOLEAN /\ stalled \in BOOLEAN

RetryType ==
    /\ gen \in 0..MaxGen /\ retry \in 0..gen /\ used \in BOOLEAN
    /\ timer \in 0..gen /\ ticking \subseteq {timer} /\ due \subseteq 1..gen

WorkType ==
    /\ wpc \in [Workers -> WorkerPcs]
    /\ placing \in [Workers -> Layouts]
    /\ answer \in [Workers -> {"none", "ok", "cancelled", "error", "lost"}]
    /\ suppress \in [Workers -> BOOLEAN]
    /\ pending \subseteq Workers /\ suppressed \subseteq Workers

SharedType ==
    /\ cancelled \in BOOLEAN /\ current \subseteq Workers
    /\ console \in {"idle", "cancelled", "invalidated", "sent"}
    /\ screen \in Screens

\* The type invariant; a timer only ticks for the retry it was armed for.
TypeOK == MainType /\ StateType /\ RetryType /\ WorkType /\ SharedType

\* Never two threads placing windows at once, however many timeouts, retries
\* and resumes (pending_apply_workers holds up every apply).
OneWorker ==
    \A v, w \in Workers :
        wpc[v] \notin {"none", "done"} /\ wpc[w] \notin {"none", "done"} => v = w

\* Every worker has run to its end (a panicked one is recovered from when it
\* is reaped).
Settled ==
    \A w \in Workers : \/ wpc[w] = "none"
                       \/ wpc[w] = "done" /\ answer[w] # "lost"

\* Once a timeout has paused tiling, no window stays where a late placement
\* left it: whoever comes last, the worker or the pause, recovers.
StalledRecovered ==
    stalled /\ main = "idle" /\ Settled => screen = "recovered"

\* The fast path never takes a stale screen for the layout: what it would
\* skip is on the screen, after timeouts, failures, retries and cascades.
FastPathSound ==
    main = "idle" /\ ~cancelled /\ Unchanged => screen = want

\* "Publish suppression before invalidating the epoch so the worker cannot
\* observe this timeout's cancellation without also observing this policy"
\* (apply_layout): a worker left to the retry does not recover by itself.
SuppressionSeen ==
    \A w \in suppressed : wpc[w] = "recover" => cancelled

\* When the process ends after a shutdown or a signal, no window is left
\* where a worker put it, unless that worker is stuck to the very end.
ExitRecovered == main = "exited" /\ Settled => screen = "recovered"

(***************************************************************************)
(* Steps and liveness.                                                     *)
(***************************************************************************)
\* A retry runs after its own delay, not on the message of an earlier one
\* that was in the channel when its timer was aborted.
RetryOnTime ==
    [][retry # 0 /\ caller' = "retry" /\ caller # "retry" => retry \in due]_vars

\* A display change that timed out is not forgotten: its retry runs, or
\* something else has decided the matter.
RetryResolved ==
    \A g \in 1..MaxGen : (retry = g) ~> (retry # g \/ ~Alive)

\* A signal ends the process, however stuck the workers are.
SignalEnds == (console = "sent") ~> ~Alive

=============================================================================
