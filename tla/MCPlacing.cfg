CONSTANTS
    Layouts = {a, b}
    Workers = {w1, w2}
    MaxGen = 1
    Windows = {v, w}
    Targets = {p}
    MaxMarks = 3
SPECIFICATION PlacingSafety
SYMMETRY Symmetry
CHECK_DEADLOCK FALSE
INVARIANTS
    OneWorker
    StalledRecovered
    FastPathSound
    SuppressionSeen
    ExitRecovered
PROPERTY MoverSound
