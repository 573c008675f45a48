CONSTANTS
    Heights <- MCHeights
    Names <- MCNames
    NoName <- MCNoName
    blockName <- MCBlockName
    Events <- MCEvents
    RollbackFroms <- MCRollbackFroms
    MaxLog = 5
    MaxFailures = 1
    MaxCrashes = 2
SPECIFICATION StoreSpec
INVARIANTS
    StoreSafe
    ApiAgrees
PROPERTIES
    ImplementsIndex
CHECK_DEADLOCK FALSE
