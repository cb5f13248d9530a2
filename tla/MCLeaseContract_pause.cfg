SPECIFICATION Spec
CONSTANTS
    Landlord = Landlord  Tenant = Tenant  Third = Third
    Users = {Landlord, Tenant, Third}  Contract = Contract  None = None
    VELOCITY_WINDOW = 2  VELOCITY_THRESHOLD_PERCENT = 5000
    Ids = {1, 2, 3}
    CreateParams <- LongStay
    BillingParams <- NoParams
    DexOutputs = {}  Payments = {}  BuyoutPrices = {}  Deductions = {}
    Splits = {}
    Roommates = {}  Wallets = {}  Inspectors = {}  Settlers = {}  Reporters = {}
    Admins = {}  FeeConfigs = {}  KycProviders = {}
    InitialBalance <- Poor
    INIT_TIMEOUT_SECS = 9
    StartTime = 2  MaxTime = 6  MaxLeases = 3
PROPERTY PauseHolds
CHECK_DEADLOCK FALSE
