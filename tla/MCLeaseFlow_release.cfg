SPECIFICATION Spec
CONSTANTS
    DaySecs = 1
    None = None
    Users = {u1, u2}
    Rents = {0, 4}
    Deposits = {3, 9}
    Graces = {1}
    FeeRates = {5000}
    Terms <- MCTerms
    Pegs <- MCNoPeg
    Amounts = {4, 6}
    Prices = {}
    QuoteTimes = {}
    OracleUnit = 10
    MaxPriceAge = 2
    StartTime = 57
    MaxTime = 60
    MaxLeases = 1
    MaxPaid = 8
SYMMETRY UserSymmetry
INVARIANT ClosedDepositReleased
CHECK_DEADLOCK FALSE
