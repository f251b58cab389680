SPECIFICATION Spec
CONSTANTS
    Windows = {w1, w2, w3}
    None = None
    Applied = {TRUE, FALSE}
    StaleMenus = TRUE
SYMMETRY Symmetry
INVARIANT
    WellFormed
PROPERTIES
    FullscreenHolds
    OthersKeepFocus
    ImplementsDesk
