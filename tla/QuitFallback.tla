---------------------------- MODULE QuitFallback ----------------------------
(***************************************************************************)
(* The tray "Exit" fallback of the daemon (daemon/src/quit_fallback.rs).   *)
(*                                                                         *)
(* Clicking Exit arms a deadline thread before the ordinary Exit event is  *)
(* queued.  If the event loop is wedged, the deadline thread takes over:   *)
(* it cancels the layout workers, restores the windows on a helper thread  *)
(* with a time budget and ends the process.  If the event loop does shut   *)
(* down, it says so with started() and complete() and the deadline thread  *)
(* has to stand back.  One atomic byte arbitrates between the two.         *)
(*                                                                         *)
(* Actors: the tray thread (arm), the main thread (started, cleanup,       *)
(* complete, tail), the deadline thread and the restore thread.            *)
(***************************************************************************)
EXTENDS Naturals

VARIABLES
    state,      \* the AtomicU8 all threads race on
    wakes,      \* messages in the `completed` channel
    tray,       \* tray thread inside arm(): "idle", or "won" the update
    dpc,        \* program counter of the deadline thread
    seen,       \* `current`: the state the deadline thread loaded
    clock,      \* time since armed_at: 0, 1 = past timeout, 2 = past cap
    cancelled,  \* apply_worker_cancelled, shared with the layout workers
    epoch,      \* bumps of apply_epoch so far
    restore,    \* the tray-quit-restore thread
    main,       \* progress of the main thread through shutdown
    won,        \* complete()'s answer: "pending", "yes" or "no"
    exited      \* how the process ended: "no", "forced" or "returned"

vars == <<state, wakes, tray, dpc, seen, clock, cancelled, epoch, restore,
          main, won, exited>>

States     == {"IDLE", "ARMED", "COMPLETED", "TAKEN_OVER", "STARTED",
               "IDLE_STARTED"}
Live       == {"IDLE", "ARMED", "STARTED", "IDLE_STARTED"}
Takeover   == {"cancel", "bump", "stopTray", "restore", "await", "exited"}
DPcs       == {"none", "noThread", "load", "check", "wait", "returned"}
              \cup Takeover
MainPcs    == {"running", "cancel", "bump", "recovery", "tail", "done"}

TypeOK ==
    /\ state \in States
    /\ wakes \in 0..2
    /\ tray \in {"idle", "won"}
    /\ dpc \in DPcs
    /\ seen \in States
    /\ clock \in 0..2
    /\ cancelled \in BOOLEAN
    /\ epoch \in 0..2
    /\ restore \in {"none", "running", "finished", "noThread"}
    /\ main \in MainPcs
    /\ won \in {"pending", "yes", "no"}
    /\ exited \in {"no", "forced", "returned"}

Init ==
    /\ state = "IDLE" /\ wakes = 0 /\ tray = "idle"
    /\ dpc = "none" /\ seen = "IDLE" /\ clock = 0
    /\ cancelled = FALSE /\ epoch = 0 /\ restore = "none"
    /\ main = "running" /\ won = "pending" /\ exited = "no"

Alive == exited = "no"

(***************************************************************************)
(* Tray thread: arm().  The update and the spawn are separate steps; an    *)
(* arm() that finds another state returns without effect.                  *)
(***************************************************************************)
ArmUpdate ==
    /\ Alive /\ tray = "idle"
    /\ \/ state = "IDLE"         /\ state' = "ARMED"
       \/ state = "IDLE_STARTED" /\ state' = "STARTED"
    /\ tray' = "won"
    /\ UNCHANGED <<wakes, dpc, seen, clock, cancelled, epoch, restore,
                   main, won, exited>>

\* The thread starts, or the spawn fails and only a warning is logged.
ArmSpawn ==
    /\ Alive /\ tray = "won" /\ dpc = "none"
    /\ dpc' \in {"load", "noThread"}
    /\ UNCHANGED <<state, wakes, tray, seen, clock, cancelled, epoch,
                   restore, main, won, exited>>

\* Time passes once armed_at is taken.
Tick ==
    /\ Alive /\ dpc # "none" /\ clock < 2
    /\ clock' = clock + 1
    /\ UNCHANGED <<state, wakes, tray, dpc, seen, cancelled, epoch,
                   restore, main, won, exited>>

(***************************************************************************)
(* Deadline thread.                                                        *)
(***************************************************************************)
\* Variant: one deadline for both states.
ShortDeadline(s) == 1

Deadline(s) == IF s = "ARMED" THEN 1 ELSE 2

Expired == clock >= Deadline(seen)

Load ==
    /\ Alive /\ dpc = "load"
    /\ seen' = state
    /\ dpc' = IF state \in {"ARMED", "STARTED"} THEN "check" ELSE "returned"
    /\ UNCHANGED <<state, wakes, tray, clock, cancelled, epoch, restore,
                   main, won, exited>>

\* Variant: a plain store in place of the compare_exchange.
StoreTakenOver == state' = "TAKEN_OVER" /\ dpc' = "cancel"

CompareExchange ==
    IF state = seen
    THEN state' = "TAKEN_OVER" /\ dpc' = "cancel"
    ELSE state' = state /\ dpc' = "load"

Check ==
    /\ Alive /\ dpc = "check"
    /\ \/ Expired /\ CompareExchange
       \/ ~Expired /\ dpc' = "wait" /\ state' = state
    /\ UNCHANGED <<wakes, tray, seen, clock, cancelled, epoch, restore,
                   main, won, exited>>

\* Variant: any message is taken for the end of the shutdown.
WaitOnce ==
    /\ Alive /\ dpc = "wait"
    /\ \/ wakes > 0 /\ wakes' = wakes - 1 /\ dpc' = "returned"
       \/ Expired /\ wakes = 0 /\ wakes' = wakes /\ dpc' = "load"
    /\ UNCHANGED <<state, tray, seen, clock, cancelled, epoch, restore,
                   main, won, exited>>

\* recv_timeout ends with a message or at the deadline.  A disconnected
\* channel only sleeps out the rest, so it is the second disjunct.
Wait ==
    /\ Alive /\ dpc = "wait"
    /\ \/ wakes > 0 /\ wakes' = wakes - 1
       \/ Expired /\ wakes = 0 /\ wakes' = wakes
    /\ dpc' = "load"
    /\ UNCHANGED <<state, tray, seen, clock, cancelled, epoch, restore,
                   main, won, exited>>

\* Variant: the takeover relies on the main thread to cancel.
TakeoverSkipsCancel ==
    /\ Alive /\ dpc = "cancel" /\ dpc' = "bump"
    /\ UNCHANGED <<state, wakes, tray, seen, clock, cancelled, epoch,
                   restore, main, won, exited>>

TakeoverCancel ==
    /\ Alive /\ dpc = "cancel"
    /\ cancelled' = TRUE /\ dpc' = "bump"
    /\ UNCHANGED <<state, wakes, tray, seen, clock, epoch, restore, main,
                   won, exited>>

\* Variant: bumped before and after the tray is stopped.
TakeoverBumpsTwice ==
    /\ Alive /\ dpc = "bump"
    /\ epoch' = epoch + 2 /\ dpc' = "stopTray"
    /\ UNCHANGED <<state, wakes, tray, seen, clock, cancelled, restore,
                   main, won, exited>>

TakeoverBump ==
    /\ Alive /\ dpc = "bump"
    /\ epoch' = epoch + 1 /\ dpc' = "stopTray"
    /\ UNCHANGED <<state, wakes, tray, seen, clock, cancelled, restore,
                   main, won, exited>>

TakeoverStopTray ==
    /\ Alive /\ dpc = "stopTray" /\ dpc' = "restore"
    /\ UNCHANGED <<state, wakes, tray, seen, clock, cancelled, epoch,
                   restore, main, won, exited>>

\* Spawning the restore thread may fail too; its error is ignored.
SpawnRestore ==
    /\ Alive /\ dpc = "restore" /\ dpc' = "await"
    /\ restore' \in {"running", "noThread"}
    /\ UNCHANGED <<state, wakes, tray, seen, clock, cancelled, epoch, main,
                   won, exited>>

RestoreDone ==
    /\ Alive /\ restore = "running" /\ restore' = "finished"
    /\ UNCHANGED <<state, wakes, tray, dpc, seen, clock, cancelled, epoch,
                   main, won, exited>>

\* `restored` answers, is disconnected, or the budget runs out: exit(0).
ForcedExit ==
    /\ Alive /\ dpc = "await"
    /\ dpc' = "exited" /\ exited' = "forced"
    /\ UNCHANGED <<state, wakes, tray, seen, clock, cancelled, epoch,
                   restore, main, won>>

(***************************************************************************)
(* Main thread: run_shutdown_cleanup, then the end of the event loop.      *)
(* No fairness is assumed of it: being wedged is what the fallback is for. *)
(***************************************************************************)
Started ==
    /\ Alive /\ main = "running" /\ main' = "cancel"
    /\ \/ /\ state = "IDLE" /\ state' = "IDLE_STARTED" /\ wakes' = wakes + 1
       \/ /\ state = "ARMED" /\ state' = "STARTED" /\ wakes' = wakes + 1
       \/ /\ state \notin {"IDLE", "ARMED"} /\ UNCHANGED <<state, wakes>>
    /\ UNCHANGED <<tray, dpc, seen, clock, cancelled, epoch, restore, won,
                   exited>>

\* begin_shutdown_or_revert: cancel the apply workers, then bump the epoch.
ShutdownCancel ==
    /\ Alive /\ main = "cancel" /\ main' = "bump" /\ cancelled' = TRUE
    /\ UNCHANGED <<state, wakes, tray, dpc, seen, clock, epoch, restore,
                   won, exited>>

ShutdownBump ==
    /\ Alive /\ main = "bump" /\ main' = "recovery" /\ epoch' = epoch + 1
    /\ UNCHANGED <<state, wakes, tray, dpc, seen, clock, cancelled,
                   restore, won, exited>>

\* complete(), after the workers are joined and the windows recovered.  Main
\* goes on to its tail whoever won: it ignores the returned flag.
Complete ==
    /\ Alive /\ main = "recovery" /\ main' = "tail"
    /\ IF state \in Live
       THEN state' = "COMPLETED" /\ wakes' = wakes + 1 /\ won' = "yes"
       ELSE UNCHANGED <<state, wakes>> /\ won' = "no"
    /\ UNCHANGED <<tray, dpc, seen, clock, cancelled, epoch, restore, exited>>

MainReturns ==
    /\ Alive /\ main = "tail" /\ main' = "done" /\ exited' = "returned"
    /\ UNCHANGED <<state, wakes, tray, dpc, seen, clock, cancelled, epoch,
                   restore, won>>

\* The process has ended.
Terminated == ~Alive /\ UNCHANGED vars

DeadlineThread ==
    \/ Load \/ Check \/ Wait \/ TakeoverCancel \/ TakeoverBump
    \/ TakeoverStopTray \/ SpawnRestore \/ ForcedExit

MainThread ==
    \/ Started \/ ShutdownCancel \/ ShutdownBump \/ Complete \/ MainReturns

Next ==
    \/ ArmUpdate \/ ArmSpawn \/ Tick \/ DeadlineThread \/ RestoreDone
    \/ MainThread \/ Terminated

Spec == Init /\ [][Next]_vars

\* The operating system schedules the deadline thread and time passes; the
\* main thread, the tray and the restore thread may hang for ever.
FairSpec == Spec /\ WF_vars(DeadlineThread) /\ WF_vars(Tick)

-----------------------------------------------------------------------------
(***************************************************************************)
(* Properties.                                                             *)
(***************************************************************************)

\* One side wins: a complete() that answered "won" is never joined by a
\* deadline thread past its compare_exchange, by a second restore of the
\* windows or by an exit(0) under the main thread; and the deadline thread is
\* past its compare_exchange only while the byte says so.
OneWinner ==
    /\ won = "yes" => /\ dpc \notin Takeover
                     /\ restore = "none"
                     /\ exited # "forced"
    /\ dpc \in Takeover <=> state = "TAKEN_OVER"

\* No window is restored by the takeover while a layout worker could still
\* consider itself current: cancellation and the epoch bump come first.
RestoreAfterCancel ==
    restore # "none" => cancelled = TRUE /\ epoch > 0

\* The epoch is bumped at most once by each side and only by a side that has
\* cancelled the workers before.
EpochAccounting ==
    /\ epoch = (IF dpc \in Takeover \ {"cancel", "bump"} THEN 1 ELSE 0)
               + (IF main \in {"recovery", "tail", "done"} THEN 1 ELSE 0)
    /\ epoch > 0 => cancelled = TRUE

\* A shutdown that has reported started() keeps the graceful cap: the byte
\* turns to TAKEN_OVER only past the deadline of the state it leaves, even
\* when the deadline thread decided on an older value of the byte.
TakeoverOnTime ==
    [][state' = "TAKEN_OVER" /\ state # "TAKEN_OVER"
         => \/ state = "ARMED" /\ clock >= 1
            \/ state = "STARTED" /\ clock = 2]_vars

\* Once its deadline thread runs, an Exit click ends in a finished graceful
\* shutdown or in the end of the process, however wedged the main thread is.
QuitEnds == (dpc = "load") ~> (state = "COMPLETED" \/ ~Alive)

=============================================================================
