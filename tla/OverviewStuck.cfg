CONSTANTS
    Windows = {x}
    Rows = 2
    MaxInputs = 4
SPECIFICATION OverviewSpec
CHECK_DEADLOCK FALSE
INVARIANT OpenOrDismissed
