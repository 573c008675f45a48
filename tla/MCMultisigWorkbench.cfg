CONSTANTS
    alice = alice
    bob = bob
    carol = carol
    t1 = t1
    t2 = t2
    BadLine = BadLine
    Tasks = {t1, t2}
    Signers <- MCSigners
    signersOf <- MCSignersOf
    threshold <- MCThreshold
    seed <- MCSeed
    maxRetries = 1
    MaxLines = 2
    MaxFlows = 2
    MaxPosts = 3
SPECIFICATION Spec
INVARIANTS
    WorkbenchSafe
    ConfirmedIsLast
PROPERTIES
    SignaturesKept
CHECK_DEADLOCK FALSE
