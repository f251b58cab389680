CONSTANTS
    MaxOps = 3
    Widths <- MCWidths
    Needs = {0, 700}
    Geometries <- MCGeometries
    WidthPresets <- MCPresets
    Modes <- MCModes
    Deltas = {400}
    MaxSteps = 4
    HeightPresets = {40000, 60000, 80000, 120000}
    Offsets = {0, 320, 700}
    Heights = {0, 250}
    Desks <- MCDesks
    Columns <- MCColumns
    Spots = {"a", "b"}
    MaxAsks = 2
    MaxQueue = 2
    Layouts = {2, 4}
    Frames = {0, 1, 2}
    Minima = {0, 3, 9}
    Absurd = 4
    MaxLandings = 2
    MaxEvents = 2
    Budget = 2
    BoxHandles = {h1}
    MaxTokens = 2
    MaxWaiting = 2
SPECIFICATION GeometrySpec
CHECK_DEADLOCK FALSE
INVARIANTS
    ScrollSound
    LandingsSound
    DriftSound
    BoxesSound
PROPERTY
    TilesKept
