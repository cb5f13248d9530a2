SPECIFICATION Spec
CONSTANTS
    DaySecs = 3
    None = None
    Starts = {19723}
    Walk = 400
    MaxCycles = 1
INVARIANT MonthLengthInEveryYear
CHECK_DEADLOCK FALSE
