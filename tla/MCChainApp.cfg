CONSTANTS
    alice = alice
    bob = bob
    Addresses = {alice, bob}
    Validators = {v1, v2, v3}
    MaxInt = 11
    Amounts = {1, 3, 8}
    Half = 4
    Geneses <- MCGeneses
    MaxTxs = 4
    MaxProposals = 2
SPECIFICATION Spec
SYMMETRY MCSymmetry
INVARIANTS
    KeepersAccounted
    ValidatorsCapped
PROPERTIES
    FailureIsClean
CHECK_DEADLOCK FALSE
