SPECIFICATION Spec
CONSTANTS
    t1 = t1
    t2 = t2
    wallet = wallet
    other = other
    Transfers <- MCTransfers
    Accounts <- MCAccounts
    Wallet = wallet
    MaxRetries = 1
    MaxRefreshes = 2
    MaxIssued = 3
    MaxInFlight = 3
SYMMETRY Symmetry
INVARIANTS
    TransfersAuthorised
    LoadingExplained
CHECK_DEADLOCK FALSE
