CONSTANTS
    Ghosts = {x, y}
    Ticks = 1
    FadeFrames = 2
    MaxFailures = 2
    MaxEvents = 3
    Listed = {x}
    Lanes = 2
    MaxInputs = 4
    Tabs = {x, y}
    MaxClicks = 2
SPECIFICATION ThreadsSpec
CHECK_DEADLOCK FALSE
INVARIANTS
    OneWinner
    RestoreAfterCancel
    PicturesSound
PROPERTIES
    TakeoverOnTime
    QuitEnds
    RecoveryRuns
    KeysAnswered
