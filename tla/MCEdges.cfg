CONSTANTS
    MaxInputs = 4
    Launches = {s1, s2}
    Users = {u1, u2}
    MaxPerWindow = 2
    Window = 2
    MaxTime = 2
    MaxCrashes = 3
    MaxCommands = 2
    Clients = {c1, c2}
    MaxPermits = 1
    Capacity = 5
    PipeDepth = 1
    MaxRev = 1
    TooLong = {2}
    MaxChanges = 2
    Windows = {w1, w2}
    Slots = {"a1", "a2", "b1"}
    Places = {"b1"}
    MaxRequests = 1
    MaxMoves = 2
    MaxStarts = 1
    MaxThreads = 2
    MaxTouches = 3
    MaxToggles = 3
    Gaps = {30, 90, 310}
    Points <- MCPoints
    Late = {w2}
    MaxHangs = 1
SPECIFICATION EdgesSpec
CHECK_DEADLOCK FALSE
INVARIANTS
    SupervisionSound
    StreamSound
    InputSound
    BroughtBack
PROPERTIES
    SavedStateKept
    ClippingSound
    NoneStuck
