\* Two windows, or two workspaces, or three monitors.
CONSTANTS
    Windows = {v, w}
    Monitors = {p, q}
    Slots = 1
    Lone = {u}
    Spaces = 2
    Displays = {p, q, r}
SPECIFICATION DesksSpec
SYMMETRY Symmetry
INVARIANT WindowsAccounted
PROPERTY ComeBackWhole
