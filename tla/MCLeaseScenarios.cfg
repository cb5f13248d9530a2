SPECIFICATION MCSpec
CONSTANTS
    Landlord = Landlord  Tenant = Tenant  Third = Third
    Users = {Landlord, Tenant, Third}  Contract = Contract  None = None
    VELOCITY_WINDOW = 2  VELOCITY_THRESHOLD_PERCENT = 5000
    Ids = {1, 2, 3}
    CreateParams <- AllParams
    BillingParams <- BillingOnly
    DexOutputs = {0, 2}
    Payments = {1, 2}
    BuyoutPrices = {2}
    Deductions = {1, 2}
    Splits <- TwoWays
    Roommates = {Third}  Wallets = {Landlord}  Inspectors = {Third}  Admins = {Third}
    Settlers = {Landlord, Tenant, Third}  Reporters = {Tenant}
    FeeConfigs <- Fee
    KycProviders <- Verified
    InitialBalance <- Funded
    INIT_TIMEOUT_SECS = 2
    StartTime = 1  MaxTime = 5  MaxLeases = 5
INVARIANTS TypeOK ArchiveJustified HistoryIndexed RentBooked LateFeesExact ExitRefundSound
    EarlyExitsTracked PagesChainWithoutReuse
PROPERTIES NoLeaseLost MassExitsBlocked
CHECK_DEADLOCK FALSE
