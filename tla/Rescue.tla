------------------------------- MODULE Rescue -------------------------------
(***************************************************************************)
(* Bringing windows back on screen when the daemon ends (visibility.rs).   *)
(* Windows are parked outside every monitor, or about to be: a move queued *)
(* with an owner that does not answer counts, if it was recorded as        *)
(* waiting for its owner, in place of where the window stands.             *)
(*                                                                         *)
(* The pass of a shutdown or a panic moves windows and waits for them.     *)
(* When it takes too long the quit fallback starts its own, the emergency, *)
(* which must be over by a deadline: it queues its moves, and moves the    *)
(* windows of owners marked as late from threads of their own.             *)
(*                                                                         *)
(* The moves start with what the rest of the daemon left: it is stuck or   *)
(* stopped, and the placement mover's late moves are the subject of        *)
(* PlacementMover.  Cloaks and maximize boxes come between the moves and   *)
(* change no position.  The monitors can be read, and a parked window is   *)
(* outside all of them.                                                    *)
(***************************************************************************)
EXTENDS Naturals, Sequences, FiniteSets, SequencesExt

CONSTANTS
    Windows,
    Late,       \* windows whose owners the placement mover has marked
    MaxHangs    \* times an owner stops answering

\* What a list of things to do has beside windows.
Steps == {"uncloak", "settle", "end"}
RescueAssumption ==
    /\ MaxHangs \in Nat /\ Late \subseteq Windows
    /\ IsFiniteSet(Windows) /\ Windows \cap Steps = {}

VARIABLES
    place,      \* each window: where it is, its owner, the moves queued with it
    wait,       \* ASYNC_POSITIONS that wait for their owner: none or the target
    cloak,      \* windows still cloaked by the daemon, all of them at first
    pass,       \* what the shutdown's pass has before it
    emergency,  \* what the fallback's has
    expired,    \* the deadline went by
    moves,      \* RECOVERY_MOVES: each with its thread's next step, "none" without
    hangs,      \* owners that stopped answering so far
    blind,      \* history: windows with a move queued that nobody recorded
    silent      \* history: marked windows whose owner did not answer

rescueVars == <<place, wait, cloak, pass, emergency, expired, moves, hangs, blind, silent>>

Positions == {"on", "off"}
Standing == [at : Positions, hung : BOOLEAN, queue : {<<>>, <<"on">>, <<"off">>}]

\* A list of what to do next: windows, and steps in between.
Prompt == SetToSeq(Windows \ Late)
Marked == SetToSeq(Late)

Undone ==
    /\ cloak = Windows /\ pass = <<>> /\ emergency = <<>> /\ expired = FALSE
    /\ moves = [w \in Windows |-> "none"] /\ hangs = 0 /\ silent = {}

RescueInit ==
    /\ place \in [Windows -> Standing]
    /\ wait \in [Windows -> {{}, {"on"}, {"off"}}]
    /\ \A w \in Windows : wait[w] # {} =>
          /\ w \notin Late
          /\ wait[w] = {IF place[w].queue = <<>> THEN place[w].at ELSE Last(place[w].queue)}
    /\ blind = {w \in Windows : place[w].queue # <<>> /\ wait[w] = {}}
    /\ Undone

(***************************************************************************)
(* Owners.                                                                 *)
(***************************************************************************)
Quiet == UNCHANGED <<wait, cloak, pass, emergency, expired, moves, blind, silent>>

Deliver(w) ==
    /\ ~place[w].hung /\ place[w].queue # <<>>
    /\ place' = [place EXCEPT ![w].at = Head(place[w].queue), ![w].queue = Tail(@)]
    /\ UNCHANGED hangs /\ Quiet

Hang(w) ==
    /\ ~place[w].hung /\ hangs < MaxHangs /\ hangs' = hangs + 1
    /\ place' = [place EXCEPT ![w].hung = TRUE] /\ Quiet

Answer(w) == /\ place[w].hung /\ place' = [place EXCEPT ![w].hung = FALSE]
             /\ UNCHANGED hangs /\ Quiet

(***************************************************************************)
(* What both passes ask of a window.                                       *)
(***************************************************************************)
\* (Variant: moves that wait for their owner are not looked at.)
NoOwnerWaitTarget(w) == {}
\* owner_wait_target
OwnerWaitTarget(w) == IF w \in Late THEN {} ELSE wait[w]

\* restore_needed
Away(w) == IF OwnerWaitTarget(w) # {} THEN OwnerWaitTarget(w) = {"off"} ELSE place[w].at = "off"

\* SetWindowPos with SWP_ASYNCWINDOWPOS, recorded if one was recorded before.
MoveQueued(w) ==
    /\ place' = [place EXCEPT ![w].queue = Append(@, "on")]
    /\ wait' = IF OwnerWaitTarget(w) # {} THEN [wait EXCEPT ![w] = {"on"}] ELSE wait

\* SetWindowPos without it: the caller waits for the owner.
MoveNow(w) ==
    /\ ~place[w].hung /\ place' = [place EXCEPT ![w].at = "on"] /\ UNCHANGED wait

(***************************************************************************)
(* The pass.                                                               *)
(***************************************************************************)
Start(steps) ==
    /\ pass = <<>> /\ emergency = <<>> /\ pass' = steps
    /\ UNCHANGED <<place, wait, cloak, emergency, expired, moves, hangs, blind, silent>>

\* restore_windows_moved_offscreen_and_uncloak_managed: nobody's cloak waits
\* for an owner marked as late.
StartPass == Start(Prompt \o <<"uncloak">> \o Marked \o <<"end">>)

\* uncloak_all_visible_windows, of the panic hook and the session-end handler.
StartPanicPass == Start(<<"uncloak">> \o Prompt \o Marked \o <<"end">>)

At(list, step) == list # <<>> /\ Head(list) = step
Uncloak == cloak' = {}

PassUncloaks ==
    /\ At(pass, "uncloak") /\ Uncloak /\ pass' = Tail(pass)
    /\ UNCHANGED <<place, wait, emergency, expired, moves, hangs, blind, silent>>

\* restore_window_if_offscreen_to_work_area
PassMoves(w) ==
    /\ At(pass, w) /\ pass' = Tail(pass)
    /\ \/ ~Away(w) /\ UNCHANGED <<place, wait, silent>>
       \/ /\ Away(w) /\ w \in Late /\ place[w].hung
          /\ silent' = silent \cup {w} /\ UNCHANGED <<place, wait>>
       \/ Away(w) /\ OwnerWaitTarget(w) # {} /\ MoveQueued(w) /\ UNCHANGED silent
       \/ Away(w) /\ OwnerWaitTarget(w) = {} /\ MoveNow(w) /\ UNCHANGED silent
    /\ UNCHANGED <<cloak, emergency, expired, moves, hangs, blind>>

(***************************************************************************)
(* The emergency: emergency_restore_windows.                               *)
(***************************************************************************)
StartEmergency ==
    /\ emergency = <<>>
    /\ emergency' = Prompt \o <<"uncloak">> \o Prompt
                    \o Marked \o Marked \o <<"settle", "end">>
    /\ UNCHANGED <<place, wait, cloak, pass, expired, moves, hangs, blind, silent>>

Expire ==
    /\ emergency # <<>> /\ ~expired /\ expired' = TRUE
    /\ UNCHANGED <<place, wait, cloak, pass, emergency, moves, hangs, blind, silent>>

EmergencyUncloaks ==
    /\ At(emergency, "uncloak") /\ Uncloak /\ emergency' = Tail(emergency)
    /\ UNCHANGED <<place, wait, pass, expired, moves, hangs, blind, silent>>

\* emergency_sentinel_pass on a window nobody marked: queued, never waited for.
EmergencyQueues(w) ==
    /\ At(emergency, w) /\ w \notin Late /\ emergency' = Tail(emergency)
    /\ IF Away(w) THEN MoveQueued(w) ELSE UNCHANGED <<place, wait>>
    /\ UNCHANGED <<cloak, pass, expired, moves, hangs, blind, silent>>

\* On a marked one: in time, by one thread, and only if its owner answers.
\* emergency_marked_move then waits for the thread, up to a tenth of a second.
EmergencySends(w) ==
    /\ At(emergency, w) /\ w \in Late
    /\ LET busy == moves[w] # "none"
       IN \/ /\ expired \/ ~Away(w) \/ busy
             /\ UNCHANGED <<moves, silent>>
          \/ /\ ~expired /\ Away(w) /\ ~busy /\ place[w].hung
             /\ silent' = silent \cup {w} /\ UNCHANGED moves
          \/ /\ ~expired /\ Away(w) /\ ~busy /\ ~place[w].hung
             /\ moves' = [moves EXCEPT ![w] = "check"] /\ UNCHANGED silent
    /\ emergency' = Tail(emergency)
    /\ UNCHANGED <<place, wait, cloak, pass, expired, hangs, blind>>

\* The helper thread: in time, or not at all.
HelperChecks(w) ==
    /\ moves[w] = "check"
    /\ moves' = [moves EXCEPT ![w] = IF expired THEN "none" ELSE "move"]
    /\ UNCHANGED <<place, wait, cloak, pass, emergency, expired, hangs, blind, silent>>
HelperMoves(w) ==
    /\ moves[w] = "move" /\ MoveNow(w)
    /\ moves' = [moves EXCEPT ![w] = "none"]
    /\ UNCHANGED <<cloak, pass, emergency, expired, hangs, blind, silent>>

\* (Variant: the helpers are waited for, however long.)
SettledWhenDone ==
    /\ At(emergency, "settle") /\ \A w \in Windows : moves[w] = "none"
    /\ emergency' = Tail(emergency)
    /\ UNCHANGED <<place, wait, cloak, pass, expired, moves, hangs, blind, silent>>

\* The helpers are waited for, until the deadline.
Settled ==
    /\ At(emergency, "settle") /\ (expired \/ \A w \in Windows : moves[w] = "none")
    /\ emergency' = Tail(emergency)
    /\ UNCHANGED <<place, wait, cloak, pass, expired, moves, hangs, blind, silent>>

\* The steps of the fallback's thread; none of them waits for an owner.
Emergency ==
    \/ EmergencyUncloaks \/ Settled
    \/ \E w \in Windows : EmergencyQueues(w) \/ EmergencySends(w)

RescueNext ==
    \/ \E w \in Windows : \/ Deliver(w) \/ Hang(w) \/ Answer(w) \/ PassMoves(w)
                          \/ HelperChecks(w) \/ HelperMoves(w)
    \/ StartPass \/ StartPanicPass \/ PassUncloaks \/ StartEmergency \/ Expire \/ Emergency

\* The fallback's thread runs and time passes.  Owners owe nothing.
RescueSpec == RescueInit /\ [][RescueNext]_rescueVars
              /\ WF_rescueVars(Emergency) /\ WF_rescueVars(Expire)

(***************************************************************************)
(* Properties.                                                             *)
(***************************************************************************)
\* Where the window ends when its owner has answered.
EndsOn(w) == IF place[w].queue = <<>> THEN place[w].at = "on" ELSE Last(place[w].queue) = "on"
Over(list) == At(list, "end")

\* After either came to its end no window stays out of sight, nor cloaked:
\* each is on screen or will be when its owner answers, unless a move was
\* queued that nobody recorded, or the owner was marked and silent, or, in the
\* emergency, the deadline went by.
BroughtBack ==
    /\ Over(pass) => cloak = {} /\ \A w \in Windows \ (blind \cup silent) : EndsOn(w)
    /\ Over(emergency) =>
          /\ cloak = {}
          /\ \A w \in Windows \ (blind \cup silent) : EndsOn(w) \/ (w \in Late /\ expired)

\* The thread that has to be done by the deadline never waits for an owner: the
\* emergency, which never empties its list, comes to its end though none of them
\* ever answers.
EmergencyEnds == []<>(emergency = <<>> \/ Over(emergency))
=============================================================================
