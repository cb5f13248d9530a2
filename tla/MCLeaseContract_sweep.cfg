SPECIFICATION FairSpec
CONSTANTS
    Landlord = Landlord  Tenant = Tenant  Third = Third
    Users = {Landlord, Tenant, Third}  Contract = Contract  None = None
    VELOCITY_WINDOW = 1  VELOCITY_THRESHOLD_PERCENT = 1000
    Ids = {1}
    CreateParams <- StandardOnly
    BillingParams <- NoParams
    DexOutputs = {}  Payments = {}  BuyoutPrices = {}  Deductions = {}
    Splits = {}
    Roommates = {}  Wallets = {}  Inspectors = {}  Settlers = {}  Reporters = {}
    Admins = {}  FeeConfigs = {}  KycProviders = {}
    InitialBalance <- Poor
    INIT_TIMEOUT_SECS = 1
    StartTime = 1  MaxTime = 4  MaxLeases = 1
PROPERTY ExpiredProposalSwept
CHECK_DEADLOCK FALSE
