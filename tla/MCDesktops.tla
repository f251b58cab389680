----------------------------- MODULE MCDesktops -----------------------------
(***************************************************************************)
(* Desktops in three sizes.  The instances share the variables, and the    *)
(* initial state picks one by its part: windows that displace each other   *)
(* (the constants of Desktops), one window with workspaces to switch, and  *)
(* one window with more displays.  Each is explored without any bound.     *)
(***************************************************************************)
EXTENDS Desktops

CONSTANTS
    Lone,        \* the window of the two other instances
    Spaces,      \* workspaces of a monitor
    Displays     \* monitors

VARIABLE part    \* "windows", "spaces" or "displays"

InSpaces == INSTANCE Desktops WITH Windows <- Lone, Slots <- Spaces
InDisplays == INSTANCE Desktops WITH Windows <- Lone, Monitors <- Displays

DesksInit ==
    \/ part = "windows" /\ Init
    \/ part = "spaces" /\ InSpaces!Init
    \/ part = "displays" /\ InDisplays!Init

DesksNext ==
    \/ part = "windows" /\ Next /\ UNCHANGED part
    \/ part = "spaces" /\ InSpaces!Next /\ UNCHANGED part
    \/ part = "displays" /\ InDisplays!Next /\ UNCHANGED part

DesksSpec == DesksInit /\ [][DesksNext]_<<vars, part>>

\* Windows are interchangeable, and so are Monitors, among Displays, too: none
\* is primary by itself.  No liveness property is checked with these.
Symmetry == Permutations(Windows) \cup Permutations(Monitors)

(***************************************************************************)
(* Properties.                                                             *)
(***************************************************************************)
\* However windows are carried about, a live one is in one place and a dead
\* one in none.
WindowsAccounted == part = "windows" => Accounted

\* A monitor that comes back has its windows where the user had them, and none
\* is left out as minimized that is not, whatever they, the other monitors and
\* the user did while it was away.
SnapsBack ==
    /\ part = "windows" => SnapsBackUnchained
    /\ part = "spaces" => InSpaces!SnapsBackUnchained
    /\ part = "displays" => InDisplays!SnapsBackUnchained
MarksFit ==
    /\ part = "windows" => NoStaleMark
    /\ part = "spaces" => InSpaces!NoStaleMark
\* (At first there are no windows: what holds after every step holds always.)
ComeBackWhole == [][SnapsBack' /\ MarksFit]_<<vars, part>>
=============================================================================
