CONSTANTS
    Layouts = {a}
    Workers = {w1}
    MaxGen = 2
    Windows = {v, w}
    Targets = {p}
    MaxMarks = 2
SPECIFICATION PlacingSpec
CHECK_DEADLOCK FALSE
PROPERTIES
    RetryOnTime
    RetryResolved
    SignalEnds
    CorrectionsEnd
