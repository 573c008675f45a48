CONSTANTS
    Heights <- MCHeights
    Names <- MCNames
    NoName <- MCNoName
    blockName <- MCBlockName
    Events <- MCEvents
    RollbackFroms <- MCRollbackFroms
    Retentions = {0, 1, 2}
    MaxLog = 7
    MaxRestarts = 1
SPECIFICATION Spec
CHECK_DEADLOCK FALSE
PROPERTY
    IdempotentUpsert
