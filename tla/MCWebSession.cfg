SPECIFICATION WebSpec
CONSTANTS
    Accounts = {"demo-user", "other"}
    DefaultAccount = "demo-user"
    MaxIssued = 2
    MaxCalls = 2
    apiRetryCount = 1
INVARIANTS
    RequestsSafe
    SessionAuthorised
    StorageAgrees
PROPERTIES
    SessionMovesOn
    PagesUnblock
CHECK_DEADLOCK FALSE
