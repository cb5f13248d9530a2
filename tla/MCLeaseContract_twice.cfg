SPECIFICATION Spec
CONSTANTS
    Landlord = Landlord  Tenant = Tenant  Third = Third
    Users = {Landlord, Tenant, Third}  Contract = Contract  None = None
    VELOCITY_WINDOW = 1  VELOCITY_THRESHOLD_PERCENT = 1000
    Ids = {1}
    CreateParams <- NoParams
    BillingParams <- BillingOnly
    DexOutputs = {}  Payments = {}  BuyoutPrices = {}  Deductions = {}
    Splits <- TwoWays
    Roommates = {}  Wallets = {}  Inspectors = {}  Settlers = {Landlord, Tenant}  Reporters = {}
    Admins = {Third}  FeeConfigs = {}  KycProviders = {}
    InitialBalance <- Pooled
    INIT_TIMEOUT_SECS = 1
    StartTime = 1  MaxTime = 4  MaxLeases = 1
INVARIANT DepositPaidOnce
CHECK_DEADLOCK FALSE
