------------------------------ MODULE MCWindows ------------------------------
(***************************************************************************)
(* Windows that come, go and are dragged: the lifetimes behind recycled    *)
(* handles, and the drag that takes a window out of its workspace.  The    *)
(* two touch no common state in the modules, so one run explores them side *)
(* by side: the initial state picks the one that moves.  Every property is *)
(* that of the module it is named after.                                   *)
(***************************************************************************)
EXTENDS FiniteSets, Integers, Sequences, TLC

CONSTANTS
    Handles, Shapes, MaxSteps, MaxQueue,    \* Lifetimes
    Tiles, Monitors, MaxEvents              \* Drag

VARIABLES
    win, rec, events, slots, slept, toggling, steps, minted, kept,
    strip, plugged, alive, drag, age, refound,
    part        \* "lifetimes" or "drag"

H == INSTANCE Lifetimes
D == INSTANCE Drag WITH Windows <- Tiles

ASSUME WindowsAssumption == H!LifetimesAssumption /\ D!DragAssumption

lifeVars == <<win, rec, events, slots, slept, toggling, steps, minted, kept>>
dragVars == <<strip, plugged, alive, drag, age, refound>>

WindowsInit == H!Init /\ D!Init /\ part \in {"lifetimes", "drag"}
WindowsNext ==
    \/ part = "lifetimes" /\ H!Next /\ UNCHANGED <<dragVars, part>>
    \/ part = "drag" /\ D!Next /\ UNCHANGED <<lifeVars, part>>
WindowsSpec == WindowsInit /\ [][WindowsNext]_<<lifeVars, dragVars, part>>

\* Windows, handles and displays are interchangeable; nothing here is a
\* liveness property.
Symmetry == Permutations(Handles) \cup Permutations(Tiles) \cup Permutations(Monitors)

\* Lifetimes: a member is the window that was admitted, a window that would
\* be let in is a member unless its own lifetime is kept out, and a place
\* left behind by a suspend is retaken after the resume.
MembersSound == part = "lifetimes" => H!MembersAreLive /\ H!NobodyForgotten
LifetimesSound == []MembersSound /\ H!RejoinsAfterSleep
\* Drag: one placeholder, owned by the drag; out means in no workspace; a drop
\* goes where the placeholder stood, and Shift gives the window back to the
\* companions it was taken from.
PreviewSound == part = "drag" => D!DragSound
DragSound == []PreviewSound /\ D!DropsWhereShown /\ D!ShiftRestores
=============================================================================
