SPECIFICATION FairSpec
CONSTANTS
    DaySecs = 2
    None = None
    Users = {u1, u2}
    Rents = {31}
    Deposits = {20}
    Graces = {1}
    FeeRates = {0, 5000}
    Terms <- MCTerms
    Pegs <- MCPegs
    Amounts = {31, 46}
    Prices = {0, 10, 11, 14}
    QuoteTimes = {114, 115, 116, 117, 118, 119}
    OracleUnit = 10
    MaxPriceAge = 2
    StartTime = 115
    MaxTime = 119
    MaxLeases = 1
    MaxPaid = 80
INVARIANTS
    RefundWithinPaid
PROPERTIES
    CircuitBreakerHolds
    GracePeriodResolves
CHECK_DEADLOCK FALSE
