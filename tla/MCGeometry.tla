----------------------------- MODULE MCGeometry -----------------------------
(***************************************************************************)
(* Where windows are put, how large they are and whether they stay: the    *)
(* widths and the scrolling of a strip, the rectangles of its rows, the    *)
(* native moves that place one window, the borders measured around it, and *)
(* the window that moves by itself.  None of them shares state with        *)
(* another, so one run explores them side by side: the initial state picks *)
(* the one that moves, and the others rest in their initial states.  Every *)
(* property is that of the module it is named after.                       *)
(***************************************************************************)
EXTENDS Integers, FiniteSets, Sequences

CONSTANTS
    MaxOps, Widths, Needs, Geometries, WidthPresets, Modes, Deltas,      \* Scroll
    MaxSteps, HeightPresets, Offsets, Heights, Desks, Columns,           \* Tiles
    Spots, MaxAsks, MaxQueue,                                            \* Placement
    Layouts, Frames, Minima, Absurd, MaxLandings, MaxEvents,             \* Insets
    Budget,                                                              \* Drift, with MaxEvents
    BoxHandles, MaxTokens, MaxWaiting                                     \* Boxes

VARIABLES
    strip, mode, past,
    rows, tab, at, scene, ops,
    window, owner, sub, credit, marked, parked, ghost, commits, run, want, asks, seen,
    measured, global, local, gen, clearing, landing, frame, suspect, recorded, was,
    win, mail, spent,
    boxes, home, snap, worker, paused, phase, todo, passed, crossed, late,
    part        \* the part explored

S == INSTANCE Scroll WITH Presets <- WidthPresets
T == INSTANCE Tiles WITH MaxOps <- MaxSteps, Presets <- HeightPresets, Minima <- Heights
P == INSTANCE Placement
I == INSTANCE Insets WITH window <- measured, past <- was
D == INSTANCE Drift
B == INSTANCE Boxes WITH Handles <- BoxHandles, win <- boxes, MaxQueue <- MaxWaiting

ASSUME GeometryAssumption ==
    /\ S!ScrollAssumption /\ T!TilesAssumption
    /\ P!PlacementAssumption /\ I!InsetsAssumption /\ D!DriftAssumption
    /\ B!BoxesAssumption

scrollVars == <<strip, mode, past>>
tilesVars == <<rows, tab, at, scene, ops>>
placementVars == <<window, owner, sub, credit, marked, parked, ghost, commits, run, want, asks, seen>>
insetsVars == <<measured, global, local, gen, clearing, landing, frame, suspect, recorded, was>>
driftVars == <<win, mail, spent>>
boxVars == <<boxes, home, snap, worker, paused, phase, todo, passed, crossed, late>>

\* A part that rests does so in one of its initial states, always the same.
Rest ==
    /\ part # "scroll" =>
          /\ mode = (CHOOSE m \in Modes : TRUE) /\ strip.geo = (CHOOSE g \in Geometries : TRUE)
          /\ \A i \in DOMAIN strip.cols : strip.cols[i].need = 0
    /\ part # "tiles" => scene.others = (CHOOSE d \in Desks : TRUE)
    /\ part # "placement" => ~owner.deaf /\ want = (CHOOSE s \in Spots : TRUE)
    /\ part # "insets" =>
          /\ measured.inset = (CHOOSE i \in Frames : TRUE) /\ measured.min = (CHOOSE m \in Minima : TRUE)
          /\ measured.size = (CHOOSE l \in Layouts : TRUE)
    /\ part # "drift" => win.kind = "tiled" /\ win.at = win.want /\ win.elig = {}
                        /\ win.excused = {}
    /\ part # "boxes" => \A h \in BoxHandles : boxes[h].native

GeometryInit ==
    /\ part \in {"scroll", "tiles", "placement", "insets", "drift", "boxes"}
    /\ S!Init /\ T!Init /\ P!Init /\ I!Init /\ D!DriftInit /\ B!BoxInit
    /\ Rest

GeometryNext ==
    /\ UNCHANGED part
    /\ \/ /\ part = "scroll" /\ S!Next
          /\ UNCHANGED <<tilesVars, placementVars, insetsVars, driftVars, boxVars>>
       \/ /\ part = "tiles" /\ T!Next
          /\ UNCHANGED <<scrollVars, placementVars, insetsVars, driftVars, boxVars>>
       \/ /\ part = "placement" /\ P!Next
          /\ UNCHANGED <<scrollVars, tilesVars, insetsVars, driftVars, boxVars>>
       \/ /\ part = "insets" /\ I!Next
          /\ UNCHANGED <<scrollVars, tilesVars, placementVars, driftVars, boxVars>>
       \/ /\ part = "drift" /\ D!DriftNext
          /\ UNCHANGED <<scrollVars, tilesVars, placementVars, insetsVars, boxVars>>
       \/ /\ part = "boxes" /\ B!BoxNext
          /\ UNCHANGED <<scrollVars, tilesVars, placementVars, insetsVars, driftVars>>

GeometrySpec ==
    GeometryInit /\ [][GeometryNext]_<<scrollVars, tilesVars, placementVars, insetsVars, driftVars, boxVars, part>>

(***************************************************************************)
(* The instance.                                                           *)
(***************************************************************************)
MCWidths == <<467, 1301>>
MCGeometries == {[view |-> 1920, gap |-> 10], [view |-> 1920, gap |-> 24], [view |-> 1280, gap |-> 10]}
MCPresets == << <<1, 3>>, <<1, 2>>, <<2, 3>> >>
MCModes == {[center |-> "always", past |-> FALSE, single |-> FALSE],
            [center |-> "never", past |-> FALSE, single |-> TRUE],
            [center |-> "never", past |-> FALSE, single |-> FALSE],
            [center |-> "overflow", past |-> TRUE, single |-> FALSE]}
MCColumns == <<600, 700>>
MCRight == [x |-> 1000, y |-> 0, w |-> 800, h |-> 600]
MCLeft == [x |-> -1600, y |-> 0, w |-> 1600, h |-> 600]
MCBelow == [x |-> 200, y |-> 600, w |-> 800, h |-> 600]
MCDesks == {{}, {MCRight}, {MCLeft, MCBelow}}

(***************************************************************************)
(* Properties, each of the part that moves.                                *)
(***************************************************************************)
\* Scroll: the focused column ends in view, widths come back with the display,
\* a previewed width is kept.
ScrollSound == part = "scroll" => S!ScrollSound
\* Tiles: rows fill their column, shares stay shares, what is hidden meets no
\* monitor, cycling is never stuck.
TilesSound == part = "tiles" => T!TilesSound
TilesKept == []TilesSound /\ [][part = "tiles" => T!CyclingMoves]_tilesVars
\* Placement: the place asked for last has the last word, whatever the owner
\* does with the moves it was sent, and a window is cloaked for as long as
\* anybody wants it to be.
\* Insets: what is cached about a window's borders is current, a landing is
\* exact, a minimum was measured twice.
LandingsSound == /\ part = "placement" => P!PlacementSound
                 /\ part = "insets" => I!InsetsSound
\* Drift: once all is quiet, a tiled window is in its slot and a fullscreen
\* session is one of a window that covers the screen.
DriftSound == part = "drift" => D!DriftSound
\* Boxes: a maximize box taken is known until it is back, whoever gives it.
BoxesSound == part = "boxes" => B!BoxesSound
=============================================================================
