CONSTANTS
    Windows = {x, y, z}
    Monitors = {p, q}
    MaxEvents = 0
SPECIFICATION DragSpec
CHECK_DEADLOCK FALSE
PROPERTY DropKeepsWindow
