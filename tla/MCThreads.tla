------------------------------ MODULE MCThreads ------------------------------
(***************************************************************************)
(* The daemon's other threads, each against the part of the daemon it      *)
(* talks to: the Exit fallback, the animation worker, the overview's       *)
(* overlay and the tab strip.  The four share no state and take no lock    *)
(* together, so one run explores them side by side: the initial state      *)
(* picks the one that moves, and the others rest in their initial states.  *)
(* Every property is that of the module it is named after.                 *)
(***************************************************************************)
EXTENDS QuitFallback

CONSTANTS
    Ghosts, Ticks, FadeFrames, MaxFailures, MaxEvents,  \* Frames
    Listed, Lanes, MaxInputs,                            \* Overview
    Tabs, MaxClicks                                     \* TabStrip

VARIABLES
    d, job, frameEvents, frameSpent,
    ov, work, open, todo, place, acted, overviewSpent,
    column, titled, strip, pump, daemon, clicks, rename, tabSpent,
    part        \* the thread explored: "quit", "frames", "overview" or "tabs"

F == INSTANCE Frames WITH Windows <- Ghosts, events <- frameEvents, spent <- frameSpent
O == INSTANCE Overview WITH Windows <- Listed, Rows <- Lanes, spent <- overviewSpent
T == INSTANCE TabStrip WITH Windows <- Tabs, MaxInputs <- MaxClicks, spent <- tabSpent

ASSUME ThreadsAssumption ==
    F!FramesAssumption /\ O!OverviewAssumption /\ T!TabStripAssumption

framesVars == <<d, job, frameEvents, frameSpent>>
overviewVars == <<ov, work, open, todo, place, acted, overviewSpent>>
tabsVars == <<column, titled, strip, pump, daemon, clicks, rename, tabSpent>>
threadVars == <<vars, framesVars, overviewVars, tabsVars, part>>

ThreadsInit ==
    /\ Init /\ F!Init /\ O!Init /\ T!Init
    /\ part \in {"quit", "frames", "overview", "tabs"}

ThreadsNext ==
    \/ part = "quit" /\ Next /\ UNCHANGED <<framesVars, overviewVars, tabsVars, part>>
    \/ part = "frames" /\ F!Next /\ UNCHANGED <<vars, overviewVars, tabsVars, part>>
    \/ part = "overview" /\ O!Next /\ UNCHANGED <<vars, framesVars, tabsVars, part>>
    \/ part = "tabs" /\ T!Next /\ UNCHANGED <<vars, framesVars, overviewVars, part>>

\* The fairness of each module, for the part that moves: only it takes steps.
ThreadsSpec ==
    /\ ThreadsInit /\ [][ThreadsNext]_threadVars
    /\ WF_vars(part = "quit" /\ DeadlineThread) /\ WF_vars(part = "quit" /\ Tick)
    /\ WF_framesVars(part = "frames" /\ F!Fires)
    /\ WF_frameEvents(part = "frames" /\ F!Heard)
    /\ WF_framesVars(part = "frames" /\ F!Worker)
    /\ WF_overviewVars(part = "overview" /\ O!Overlay)
    /\ WF_overviewVars(part = "overview" /\ O!Daemon)
    /\ WF_overviewVars(part = "overview" /\ O!OverviewEvent)

\* Frames: a pending recovery is applied, gives up or waits for the user, as
\* long as no probe of an idle worker times out.
RecoveryRuns == F!RecoveryRuns
\* Overview: a held move and the keys behind it belong to the live session,
\* keys act in the order they were pressed, and no move blocks those behind it
\* for good.
InputNeedsSession == part = "overview" => O!InputNeedsSession
KeysAnswered == []InputNeedsSession /\ O!KeysInOrder /\ O!MoveAnswered
\* Frames: sources stay cloaked only while a thumbnail stands for them or
\* their exposure is owed; an active loop has a frame on its way.
\* TabStrip: the screen is what the strip believes it drew, a tooltip has a
\* leave that hides it, the rename guard has its popup.
PicturesSound ==
    /\ part = "frames" => F!GhostsKept /\ F!LoopIsFed
    /\ part = "tabs" => T!StripSound
=============================================================================
