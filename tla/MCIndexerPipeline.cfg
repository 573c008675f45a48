CONSTANTS
    Heights <- MCHeights
    Names <- MCNames
    NoName <- MCNoName
    blockName <- MCMainName
    mainName <- MCMainName
    forkName <- MCForkName
    Events <- MCEvents
    RollbackFroms = {}
    ReorgInterval = 3
    QueueBuffer = 1
    PersistMaxRetries = 2
    PersistFailurePolicies = {"stop", "skip"}
    MaxLog = 20
    MaxFailures = 3
    MaxCrashes = 1
SPECIFICATION FairSpec
INVARIANTS
    PipelineSafe
PROPERTIES
    AnnouncesTip
    PublishGetsThrough
    ReorgConverges
CHECK_DEADLOCK FALSE
