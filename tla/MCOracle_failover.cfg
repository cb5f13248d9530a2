SPECIFICATION OracleSpec
CONSTANTS
    Landlord = Landlord  Tenant = Tenant
    Users = {Landlord, Tenant}  Contract = Contract  None = None
    VELOCITY_WINDOW = 1  VELOCITY_THRESHOLD_PERCENT = 10000
    Ids = {1}
    CreateParams <- Reclaimable
    BillingParams <- Running
    DexOutputs = {}  Payments = {}  BuyoutPrices = {}  Deductions = {}  Splits = {}
    Roommates = {}  Wallets = {}  Inspectors = {}  Settlers = {Tenant}  Reporters = {}
    Admins = {Landlord}  FeeConfigs = {}  KycProviders = {}
    InitialBalance <- Escrowed
    INIT_TIMEOUT_SECS = 9
    StartTime = 4  MaxTime = 5  MaxLeases = 1
    Oracles = {o1, o2}
    Nonces = {1}  Timestamps = {1, 4}
    Severities = {"Moderate", "Catastrophic"}  Conditions = {"Destroyed"}
    STALENESS_THRESHOLD = 2  DAY = 1  HOUR = 2
    BACKUP_FAILURE_THRESHOLD = 1  MAX_ORACLE_FAILURES = 3
    MaxReports = 2
SYMMETRY OracleSymmetry
PROPERTY PrimaryDemotedWhenStale
CHECK_DEADLOCK FALSE
