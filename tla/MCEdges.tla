------------------------------- MODULE MCEdges -------------------------------
(***************************************************************************)
(* The daemon's edges: the keys it hooks, the touchpad it reads, the       *)
(* clients it streams to, the file it saves, the programs that start,      *)
(* watch and stop it, the windows it brings back when it ends, and the     *)
(* processes that prove region recovery on a real desktop.  None of them   *)
(* shares state with another, so one run explores them side by side: the   *)
(* initial state picks the one that moves, and the others rest in their    *)
(* initial states.  Every property is that of the module it is named       *)
(* after.                                                                  *)
(***************************************************************************)
EXTENDS Integers, FiniteSets, Sequences

CONSTANTS
    MaxInputs,                                                   \* Keys
    Launches, Users, MaxPerWindow, Window, MaxTime, MaxCrashes, MaxCommands,  \* Supervision
    Clients, MaxPermits, Capacity, PipeDepth, MaxRev, TooLong, MaxChanges,    \* EventStream
    Windows, Slots, Places, MaxRequests, MaxMoves, MaxStarts,                 \* SavedState
    MaxThreads, MaxTouches, MaxToggles, Gaps, Points,                         \* Touch
    Late, MaxHangs                                               \* Rescue, with Windows

VARIABLES
    hook, down, call, hotkeys, page, wires, over, did, inputs,
    dog, daemon, parked, cli, clock, past,
    world, cached, queue, server, pipe, client, permits,
    at, up, asked, requests, task, writers, file, latest, left, spent,
    gestures, threads, shared, pad, carried, felt, used,
    case, frame, fix, ctl, sup,
    place, wait, cloak, pass, emergency, expired, moves, hangs, blind, silent,
    part        \* the edge explored

K == INSTANCE Keys
W == INSTANCE Supervision WITH Slots <- Launches
E == INSTANCE EventStream
S == INSTANCE SavedState
T == INSTANCE Touch
C == INSTANCE Clipping
R == INSTANCE Rescue

ASSUME EdgesAssumption ==
    /\ K!KeysAssumption /\ W!SupervisionAssumption /\ E!EventStreamAssumption
    /\ S!SavedStateAssumption /\ T!TouchAssumption
    /\ R!RescueAssumption

keysVars == <<hook, down, call, hotkeys, page, wires, over, did, inputs>>
supervisionVars == <<dog, daemon, parked, cli, clock, past>>
streamVars == <<world, cached, queue, server, pipe, client, permits>>
savedVars == <<at, up, asked, requests, task, writers, file, latest, left, spent>>
touchVars == <<gestures, threads, shared, pad, carried, felt, used>>
clipVars == <<case, frame, fix, ctl, sup>>
rescueVars == <<place, wait, cloak, pass, emergency, expired, moves, hangs, blind, silent>>
edgeVars == <<keysVars, supervisionVars, streamVars, savedVars, touchVars, clipVars,
              rescueVars, part>>

EdgesInit ==
    /\ K!Init /\ W!Init /\ E!Init /\ S!Init /\ T!TouchInit /\ C!ClipInit
    /\ part \in {"keys", "supervision", "stream", "saved", "touch", "clip", "rescue"}
    /\ part # "keys" => hook = K!Installed(K!Mapping(CHOOSE c \in K!Configs : TRUE))
    /\ part # "clip" => case = (CHOOSE c \in C!Cases : TRUE)
    /\ IF part = "rescue" THEN R!RescueInit
       ELSE /\ place = [w \in Windows |->
                          [at |-> "on", hung |-> FALSE, queue |-> <<>>]]
            /\ wait = [w \in Windows |-> {}] /\ blind = {} /\ R!Undone

EdgesNext ==
    /\ UNCHANGED part
    /\ \/ /\ part = "keys" /\ K!Next
          /\ UNCHANGED <<supervisionVars, streamVars, savedVars, touchVars, clipVars, rescueVars>>
       \/ /\ part = "supervision" /\ W!Next
          /\ UNCHANGED <<keysVars, streamVars, savedVars, touchVars, clipVars, rescueVars>>
       \/ /\ part = "stream" /\ E!Next
          /\ UNCHANGED <<keysVars, supervisionVars, savedVars, touchVars, clipVars, rescueVars>>
       \/ /\ part = "saved" /\ S!Next
          /\ UNCHANGED <<keysVars, supervisionVars, streamVars, touchVars, clipVars, rescueVars>>
       \/ /\ part = "touch" /\ T!TouchNext
          /\ UNCHANGED <<keysVars, supervisionVars, streamVars, savedVars, clipVars, rescueVars>>
       \/ /\ part = "clip" /\ C!ClipNext
          /\ UNCHANGED <<keysVars, supervisionVars, streamVars, savedVars, touchVars, rescueVars>>
       \/ /\ part = "rescue" /\ R!RescueNext
          /\ UNCHANGED <<keysVars, supervisionVars, streamVars, savedVars, touchVars, clipVars>>

\* The daemon handles its events, a client that asked finishes its question
\* and the server its answer; the supervisor of a clipping case runs, and the other
\* processes end by their deadlines; the quit fallback's thread runs and its
\* deadline passes.  Nothing else is owed a step.
EdgesSpec ==
    /\ EdgesInit /\ [][EdgesNext]_edgeVars
    /\ WF_streamVars(part = "stream" /\ E!Handle)
    /\ \A c \in Clients : /\ WF_streamVars(part = "stream" /\ E!Ask(c))
                         /\ WF_streamVars(part = "stream" /\ E!Serve(c))
    /\ WF_clipVars(part = "clip" /\ C!Supervisor)
    /\ WF_clipVars(part = "clip" /\ C!FixtureDeadline)
    /\ WF_clipVars(part = "clip" /\ C!ControllerDeadline)
    /\ WF_rescueVars(part = "rescue" /\ R!Emergency)
    /\ WF_rescueVars(part = "rescue" /\ R!Expire)

MCPoints == {<<50, 50>>, <<70, 50>>}

\* Supervision: nobody gives up on hidden windows, and crash loops stop.
SupervisionSound == part = "supervision" => W!SupervisionSound
\* EventStream: what a client put together is one state, and the newest.
StreamSound == part = "stream" => E!StreamSound
\* SavedState: the file is whole and newest, and windows come back in place.
SavedStateSound == part = "saved" => S!SavedStateSound
SavedStateKept == []SavedStateSound /\ S!SessionRestored
\* Keys: a press acts once, nothing is held that is up, recorder and page agree.
\* Touch: one hook, one swipe per touch, paced scrolls, nothing after a stop.
InputSound == /\ part = "keys" => K!KeysSound
              /\ part = "touch" => T!TouchSound
\* Clipping: a case passes with the window as it was found, and an
\* application's region is left alone.
ClipClean == part = "clip" => C!PassedClean /\ C!RecoversAlone
ClippingSound == []ClipClean /\ C!AppRegionKept
\* Rescue: no window stays out of sight after a pass came to its end.
BroughtBack == part = "rescue" => R!BroughtBack
\* EventStream: however long subscribers stay, the server gets back to
\* accepting.  Clipping: every process of the proof comes to its end.  Rescue:
\* no owner keeps the emergency from its end.
NoneStuck == E!ServerAccepts /\ <>[](part = "clip" => C!AllEnd) /\ R!EmergencyEnds
=============================================================================
