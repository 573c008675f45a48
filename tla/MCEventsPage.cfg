SPECIFICATION EventsSpec
CONSTANTS
    Log <- MCLog
    PAGE_SIZE_OPTIONS <- MCPageSizes
    HeightInputs <- MCHeights
    EventTypes = {"all"}
    exportPageSize = 1
    maxPages = 4
    maxRecords = 3
    MaxLoads = 2
    MaxExports = 2
    MaxFetches = 3
    MaxOffset = 3
INVARIANTS
    ListSafe
    ExportFaithful
    DetailSafe
PROPERTIES
    ExportEnds
CHECK_DEADLOCK FALSE
