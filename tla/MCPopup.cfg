SPECIFICATION Spec
CONSTANTS
    Tokens = {"token-1"}
    Activities = {"activity-1", "activity-2"}
    Wallets = {"wallet-1", "wallet-2"}
    FirstToken = "token-1"
    FirstWallet = "wallet-1"
    MaxStack = 7
    MaxPanels = 1
INVARIANTS
    ScreensConsistent
    OneSubmission
    ConfirmShownIsValid
PROPERTIES
    CoversHold
CHECK_DEADLOCK FALSE
