\* Three monitors, of which two leave one after the other.
CONSTANTS
    Windows = {w}
    Monitors = {p, q, r}
    Slots = 1
SPECIFICATION Spec
INVARIANT SnapBack
