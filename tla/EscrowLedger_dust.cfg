SPECIFICATION EscrowSpec

CONSTANTS
    I128_MAX = 100000000
    Amounts = {1000}
    Rates = {3333}
    SCALE = 10000
    PRECISION = 1000000
    MaxLeaseCount = 1
    MaxPaidIn = 1000

PROPERTY
    TruncatedSlashLeavesDust
