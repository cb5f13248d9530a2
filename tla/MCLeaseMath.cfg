SPECIFICATION Spec
CONSTANTS
    DaySecs = 3
    None = None
    Starts = {18300, 46950}
    Walk = 2000
    MaxCycles = 14
INVARIANTS CalendarFaithful BillingDatesSound SharesBounded
CHECK_DEADLOCK FALSE
