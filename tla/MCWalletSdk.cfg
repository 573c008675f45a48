SPECIFICATION SdkSpec
CONSTANTS
    Calls = {c1, c2}
    maxAttempts = 2
    Reservers = {r1, r2, r3}
    CoinType = 60
    MaxOther = 2
INVARIANTS
    InputsHonoured
    NonceDuplicatesExplained
    RepeatOnlyIfLost
    OutcomeHonest
PROPERTIES
    CallSettles
CHECK_DEADLOCK FALSE
