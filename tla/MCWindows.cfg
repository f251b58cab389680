CONSTANTS
    Handles = {a, b}
    Shapes = {"app", "popup", "small"}
    MaxSteps = 5
    MaxQueue = 3
    Tiles = {x, y, z}
    Monitors = {p, q}
    MaxEvents = 1
SPECIFICATION WindowsSpec
SYMMETRY Symmetry
CHECK_DEADLOCK FALSE
PROPERTIES
    LifetimesSound
    DragSound
