SPECIFICATION MCSpec
CONSTANTS
    Ann = Ann  Bob = Bob  None = None  Generated = Generated
    StartTime = 1  MaxTime = 3
    Council = {Ann, Bob}
    Hashes = {"v1", "v2"}  Delays = {0, 1}  Quorums = {0, 1}
    DEFAULT_DELAY = 2  DEFAULT_QUORUM = 2  MaxProposals = 2
    Governors = {Ann}  OracleKeys = {"k1", "k2"}  ServedLeases = {1}  MaxDecisions = 2
    Lessees = {Ann, Bob}  BackedLeases = {1, 2}
    CollateralTerms <- MCCollateral
    Topups <- MCTopups  Thresholds = {4, 10}  Periods = {0, 1}
    PRICE = 1  BPS = 10  CRITICAL_HEALTH_THRESHOLD = 9  MIN_THRESHOLD = 5  U32 = 64
    MaxCollateral = 2
    Parties = {Ann, Bob}  LeaseIds = {1}  Terms = {2}  MaxOpened = 2
    Renewals = {1, 3}  MaxUses = 1  DoorLeases = 1  Durations = {1}  OfferedStatuses = {"Online", "Offline"}
    LockExpiries = {None, 1}  Shares <- MCShares  MONTH = 2  MaxMoves = 2
    CleanupAdmin = CleanupAdmin  Relayers = {Ann}  HoldExpiries = {None, 1}
    PRUNE_COOLDOWN = 1  LEASE_SIZE = 4  TOMBSTONE_SIZE = 1  MaxPrunes = 2
    I128_MAX = 7  Amounts = {0, 1, 3}  Rates = {1, 2}  SCALE = 2  PRECISION = 2
    MaxLeaseCount = 2  MaxPaidIn = 7
    Renters = {Ann, Bob}  Symbols = {"lease"}  LeaseSpans = {1}
    SymbolPayments <- MCSymbolPayments  SymbolPrices = {2, 3}  Months = {1}
    MaxSymbolPaid = 4  MaxSymbolLeases = 2
PROPERTY TerminatedUnfulfilled
CHECK_DEADLOCK FALSE
