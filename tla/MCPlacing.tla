----------------------------- MODULE MCPlacing -----------------------------
(***************************************************************************)
(* The two sides of placing a layout: the daemon's apply_layout with its   *)
(* workers and retry timers, and the mover thread of the platform crate    *)
(* that places the windows whose queued moves are not trusted.  They share *)
(* no state, so one run explores them side by side: the initial state      *)
(* picks the one that moves, and the other rests in its initial state.     *)
(* The larger instances are for safety, the smaller for liveness, under    *)
(* the fairness the scheduling of each side justifies.                     *)
(***************************************************************************)
EXTENDS ApplyLayout, TLC

CONSTANTS Windows, Targets, MaxMarks    \* PlacementMover

VARIABLES
    slots, ready, next_generation, in_flight, pc, job, observed, frame,
    waiting, at, goal, late, held, stale,
    part        \* what is explored: "apply" or "mover"

M == INSTANCE PlacementMover WITH MaxGen <- MaxMarks

ASSUME PlacingAssumption == M!PlacementMoverAssumption

moverVars == <<slots, ready, next_generation, in_flight, pc, job, observed,
               frame, waiting, at, goal, late, held, stale>>
placingVars == <<vars, moverVars, part>>

PlacingInit == Init /\ M!Init /\ part \in {"apply", "mover"}

PlacingNext ==
    \/ part = "apply" /\ Next /\ UNCHANGED <<moverVars, part>>
    \/ part = "mover" /\ M!Next /\ UNCHANGED <<vars, part>>

PlacingSafety == PlacingInit /\ [][PlacingNext]_placingVars

\* Layouts, threads and windows are interchangeable.  No liveness property is
\* checked with these.
Symmetry ==
    Permutations(Layouts) \cup Permutations(Workers) \cup Permutations(Windows)

\* The fairness of each module, for the part that moves: only it takes steps.
PlacingSpec ==
    /\ PlacingSafety
    /\ WF_vars(part = "apply" /\ Applying)
    /\ WF_vars(part = "apply" /\ TimeOut)
    /\ WF_vars(part = "apply" /\ ShuttingDown)
    /\ \A g \in 1..MaxGen : /\ WF_vars(part = "apply" /\ TimerExpires(g))
                           /\ SF_vars(part = "apply" /\ Retries(g))
    /\ SF_vars(part = "apply" /\ console = "sent" /\ BeginShutdown)
    /\ WF_moverVars(part = "mover" /\ (M!Mover \/ M!OwnerSilent))
    /\ SF_moverVars(part = "mover" /\ M!Expires)

\* PlacementMover: the thread's work is queued once and typed; a window ends
\* where it was last told to be; a move that lands after its cancel is undone;
\* and after a cancel with nothing in flight the window stays put.
MoverTracks ==
    part = "mover" => M!QueueSound /\ M!LastTargetWins /\ M!LateMovesRecovered
MoverSound == []MoverTracks /\ M!CancelHolds
\* PlacementMover: no correction waits for ever on an owner that is silent.
CorrectionsEnd == M!CorrectionsEnd
=============================================================================
