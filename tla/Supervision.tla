----------------------------- MODULE Supervision -----------------------------
(***************************************************************************)
(* The processes around the daemon: the command line that starts and stops *)
(* it, the watchdog that wraps it, and the windows that a daemon leaves    *)
(* parked or cloaked when it dies.  The processes share nothing but the    *)
(* named pipe, an exit status and the windows on the screen.               *)
(*                                                                         *)
(* A slot is one launch: a watchdog with the daemons it spawns one after   *)
(* the other, or a daemon started bare.  Left out: binaries that cannot be *)
(* found or spawned, and the lines each command prints.                    *)
(***************************************************************************)
EXTENDS Naturals, FiniteSets, Sequences, Retain

CONSTANTS
    Slots,          \* launches that may happen
    Users,          \* command lines that may run at the same time
    MaxPerWindow,   \* MAX_CRASHES_PER_WINDOW
    Window,         \* CRASH_WINDOW, in ticks
    MaxTime, MaxCrashes, MaxCommands    \* bounds

\* What the parameters have to be; assumed where the module is instantiated.
SupervisionAssumption == {MaxPerWindow, Window, MaxTime, MaxCrashes, MaxCommands} \subseteq Nat \ {0}

VARIABLES
    dog,        \* watchdog of each slot
    daemon,     \* daemon of each slot
    parked,     \* some window is hidden by a daemon
    cli,        \* command of each user
    clock,
    past        \* history and bounds

supervisionVars == <<dog, daemon, parked, cli, clock, past>>

NoDog == [at |-> "none", crashes |-> <<>>, ctrl |-> FALSE]
NoDaemon == [at |-> "none", pipe |-> FALSE]
Alive(s) == daemon[s].at \in {"checking", "booting", "tiling", "stopping", "cleaned"}
PipeExists == \E s \in Slots : daemon[s].pipe
Idle == [cmd |-> "none", at |-> "idle"]

(***************************************************************************)
(* The daemon.                                                             *)
(***************************************************************************)
\* check_already_running, the first thing main does
CheckRunning(s) ==
    /\ daemon[s].at = "checking"
    /\ daemon' = [daemon EXCEPT ![s].at = IF PipeExists THEN "failed" ELSE "booting"]
    /\ UNCHANGED <<dog, parked, cli, clock, past>>

\* Windows are enumerated and hooks installed before the pipe is created.
Boot(s) ==
    /\ daemon[s].at = "booting"
    /\ daemon' = [daemon EXCEPT ![s].at = "tiling"]
    /\ UNCHANGED <<dog, parked, cli, clock, past>>

\* run_ipc_server: the first instance of the pipe is exclusive; a daemon that
\* does not get it tries again every second.
CreatePipe(s) ==
    /\ daemon[s].at \in {"tiling", "stopping", "cleaned"} /\ ~PipeExists
    /\ daemon' = [daemon EXCEPT ![s].pipe = TRUE]
    /\ UNCHANGED <<dog, parked, cli, clock, past>>

\* Applying the layout hides windows.
Tile(s) ==
    /\ daemon[s].at = "tiling" /\ ~parked
    /\ parked' = TRUE
    /\ UNCHANGED <<dog, daemon, cli, clock, past>>

\* run_shutdown_cleanup and what follows the loop; no layout is applied any
\* more once it has begun.
CleanUp(s) ==
    /\ daemon[s].at = "stopping"
    /\ daemon' = [daemon EXCEPT ![s].at = "cleaned"]
    /\ parked' = FALSE
    /\ UNCHANGED <<dog, cli, clock, past>>
Exit(s) ==
    /\ daemon[s].at = "cleaned"
    /\ daemon' = [daemon EXCEPT ![s] = [at |-> "clean", pipe |-> FALSE]]
    /\ UNCHANGED <<dog, parked, cli, clock, past>>

\* A panic runs install_panic_hook's recovery first.
Panic(s) ==
    /\ daemon[s].at \in {"booting", "tiling", "stopping"} /\ past.crashes < MaxCrashes
    /\ daemon' = [daemon EXCEPT ![s] = [at |-> "failed", pipe |-> FALSE]]
    /\ parked' = FALSE
    /\ past' = [past EXCEPT !.crashes = @ + 1]
    /\ UNCHANGED <<dog, cli, clock>>

Watched(s) == dog[s].at = "waiting"
\* Killed from outside: nothing runs any more in the process.
Kill(s) ==
    /\ Alive(s) /\ past.crashes < MaxCrashes
    /\ daemon' = [daemon EXCEPT ![s] = [at |-> "failed", pipe |-> FALSE]]
    /\ past' = [past EXCEPT !.crashes = @ + 1, !.abandoned = @ \/ ~Watched(s) \/ dog[s].ctrl]
    /\ UNCHANGED <<dog, parked, cli, clock>>

\* install_console_control_signal_handlers: windows are restored before the
\* loop is told; the watchdog of the slot hears the same event.
ConsoleControl(s) ==
    /\ daemon[s].at = "tiling" /\ past.crashes < MaxCrashes
    /\ daemon' = [daemon EXCEPT ![s].at = "stopping"]
    /\ parked' = FALSE
    /\ dog' = [dog EXCEPT ![s].ctrl = @ \/ Watched(s)]
    /\ past' = [past EXCEPT !.crashes = @ + 1]
    /\ UNCHANGED <<cli, clock>>

(***************************************************************************)
(* The watchdog.                                                           *)
(***************************************************************************)
SpawnDaemon(s) ==
    /\ dog[s].at = "spawn"
    /\ dog' = [dog EXCEPT ![s].at = "waiting"]
    /\ daemon' = [daemon EXCEPT ![s].at = "checking"]
    /\ UNCHANGED <<parked, cli, clock, past>>

\* child.wait() returns.
Stops(status, ctrl) == ctrl \/ status = "clean"
DaemonExited(s) ==
    /\ dog[s].at = "waiting" /\ daemon[s].at \in {"clean", "failed"}
    /\ dog' = [dog EXCEPT ![s].at = IF Stops(daemon[s].at, dog[s].ctrl) THEN "gone" ELSE "recover"]
    /\ daemon' = [daemon EXCEPT ![s].at = "none"]
    /\ UNCHANGED <<parked, cli, clock, past>>

\* (Variant: the daemon is started again over what it left behind.)
UncloakNothing(was) == was
Uncloak(was) == FALSE
RecoverFromCrash(s) ==
    /\ dog[s].at = "recover"
    /\ parked' = Uncloak(parked)
    /\ dog' = [dog EXCEPT ![s].at = "decide"]
    /\ UNCHANGED <<daemon, cli, clock, past>>

\* record_crash_and_decide: crashes that have left the window do not count.
Recent(crashes, now) == Retained(crashes, {t \in 0..now : now - t < Window})
Decide(s) ==
    /\ dog[s].at = "decide"
    /\ LET crashes == Append(Recent(dog[s].crashes, clock), clock)
           again == Len(crashes) < MaxPerWindow
       IN  /\ dog' = [dog EXCEPT ![s].crashes = crashes, ![s].at = IF again THEN "spawn" ELSE "gone"]
           /\ past' = IF again THEN [past EXCEPT !.restarts[s] = Append(@, clock)] ELSE past
    /\ UNCHANGED <<daemon, parked, cli, clock>>

\* The job closes with the watchdog and takes its daemon along.
KillDog(s) ==
    /\ dog[s].at \in {"spawn", "waiting", "recover", "decide"} /\ past.crashes < MaxCrashes
    /\ dog' = [dog EXCEPT ![s].at = "gone"]
    /\ daemon' = [daemon EXCEPT ![s] = NoDaemon]
    /\ past' = [past EXCEPT !.crashes = @ + 1, !.abandoned = TRUE]
    /\ UNCHANGED <<parked, cli, clock>>

(***************************************************************************)
(* The command line.                                                       *)
(***************************************************************************)
Free(s) == dog[s].at = "none" /\ daemon[s].at = "none"

Goes(u, at) == cli' = [cli EXCEPT ![u].at = at]
Done(u) == cli' = [cli EXCEPT ![u] = Idle]
\* run_local_emergency_visibility_restore, from the process of the command
RestoreLocally(u) == parked' = FALSE /\ Done(u)

\* The user types a command; every one but `emergency-uncloak` probes first.
Command(u, cmd) ==
    /\ cli[u].at = "idle" /\ past.commands < MaxCommands
    /\ cli' = [cli EXCEPT ![u] = [cmd |-> cmd, at |-> "probe"]]
    /\ past' = [past EXCEPT !.commands = @ + 1]
    /\ UNCHANGED <<dog, daemon, parked, clock>>

Others == UNCHANGED <<dog, daemon, clock, past>>

\* handle_run: it waits for the pipe of the daemon that runs, or starts one.
Run(u) ==
    /\ cli[u] = [cmd |-> "run", at |-> "probe"]
    /\ Goes(u, IF PipeExists THEN "connect" ELSE "launch")
    /\ UNCHANGED parked /\ Others

\* handle_stop and handle_panic_revert; handle_emergency_uncloak
StopOrRevert(u, cmd) ==
    /\ cli[u] = [cmd |-> cmd, at |-> "probe"]
    /\ IF PipeExists THEN Goes(u, "connect") /\ UNCHANGED parked ELSE RestoreLocally(u)
    /\ Others
EmergencyUncloak(u) == cli[u] = [cmd |-> "restore", at |-> "probe"] /\ RestoreLocally(u) /\ Others

\* A watchdog, or with --no-watchdog (or without its binary) the daemon.
LaunchWatchdog(u) ==
    /\ cli[u].at = "launch" /\ Goes(u, "connect")
    /\ \E s \in Slots : Free(s) /\ dog' = [dog EXCEPT ![s].at = "spawn"]
    /\ UNCHANGED <<daemon, parked, clock, past>>
LaunchDaemon(u) ==
    /\ cli[u].at = "launch" /\ Goes(u, "connect")
    /\ \E s \in Slots : Free(s) /\ daemon' = [daemon EXCEPT ![s].at = "checking"]
    /\ UNCHANGED <<dog, parked, clock, past>>

\* send_command reaches the daemon that holds the pipe.  `run` asks it to
\* apply the layout; `stop` and `panic-revert` are answered before the loop
\* ends, and the command goes on to wait for the end.
SendApply(u) ==
    /\ cli[u] = [cmd |-> "run", at |-> "connect"] /\ PipeExists
    /\ Done(u) /\ UNCHANGED parked /\ Others
SendStop(u) ==
    /\ cli[u].cmd \in {"stop", "revert"} /\ cli[u].at = "connect"
    /\ \E s \in Slots :
         /\ daemon[s].pipe
         /\ daemon' = [daemon EXCEPT ![s].at = IF @ = "tiling" THEN "stopping" ELSE @]
    /\ Goes(u, "confirm")
    /\ UNCHANGED <<dog, parked, clock, past>>

\* A failed connection, a lost answer and one that says no restore windows
\* locally; `run` that finds no pipe in time only says so.
ApplyFails(u) ==
    /\ cli[u] = [cmd |-> "run", at |-> "connect"]
    /\ IF PipeExists THEN RestoreLocally(u) ELSE Done(u) /\ UNCHANGED parked
    /\ Others
StopFails(u, cmd) ==
    /\ cli[u].cmd = cmd /\ cli[u].at \in {"connect", "confirm"}
    /\ RestoreLocally(u) /\ Others

\* wait_for_daemon_shutdown sees the pipe gone.
Confirm(u) ==
    /\ cli[u].at = "confirm" /\ ~PipeExists
    /\ Done(u) /\ UNCHANGED parked /\ Others

Elapse ==
    /\ clock < MaxTime /\ clock' = clock + 1
    /\ UNCHANGED <<dog, daemon, parked, cli, past>>

Init ==
    /\ dog = [s \in Slots |-> NoDog]
    /\ daemon = [s \in Slots |-> NoDaemon]
    /\ cli = [u \in Users |-> Idle]
    /\ parked = FALSE /\ clock = 0
    /\ past = [crashes |-> 0, commands |-> 0, abandoned |-> FALSE, restarts |-> [s \in Slots |-> <<>>]]

Next ==
    \/ \E s \in Slots :
         \/ CheckRunning(s) \/ Boot(s) \/ CreatePipe(s) \/ Tile(s) \/ CleanUp(s) \/ Exit(s)
         \/ Panic(s) \/ Kill(s) \/ ConsoleControl(s)
         \/ SpawnDaemon(s) \/ DaemonExited(s) \/ RecoverFromCrash(s) \/ Decide(s) \/ KillDog(s)
    \/ \E u \in Users :
         \/ \E cmd \in {"run", "stop", "revert", "restore"} : Command(u, cmd)
         \/ \E cmd \in {"stop", "revert"} : StopOrRevert(u, cmd) \/ StopFails(u, cmd)
         \/ Run(u) \/ EmergencyUncloak(u) \/ LaunchWatchdog(u) \/ LaunchDaemon(u)
         \/ SendApply(u) \/ SendStop(u) \/ ApplyFails(u) \/ Confirm(u)
    \/ Elapse

SupervisionSpec == Init /\ [][Next]_supervisionVars

(***************************************************************************)
(* Properties.                                                             *)
(***************************************************************************)
\* A watchdog that has given up, or followed its daemon out, leaves windows
\* visible: with no process left only a process killed outside its care can
\* have left them hidden.
RestVisible ==
    parked => past.abandoned \/ \E s \in Slots : Alive(s) \/ dog[s].at \in {"spawn", "waiting", "recover"}

\* A crash loop stops: a watchdog starts the daemon again fewer than
\* MaxPerWindow times in any window of time.
CrashBudget ==
    \A s \in Slots : LET r == past.restarts[s] IN
        \A i \in DOMAIN r : i + MaxPerWindow - 1 \in DOMAIN r => r[i + MaxPerWindow - 1] - r[i] >= Window

SupervisionSound == RestVisible /\ CrashBudget

\* "idempotent - no-op if already running": two commands that start the
\* daemon leave one daemon that tiles.
OneDaemon == Cardinality({s \in Slots : daemon[s].at = "tiling"}) <= 1
=============================================================================
