SPECIFICATION FairSpec
CONSTANTS
    Threads = {t1, t2}
    Objects = 2
    ObjectSize = 1
    PageSize = 3
    Values = {0, 1}
    Interior = FALSE
    Sharing = FALSE
    MaxArgs = 2
    MaxCalls = 2
    MaxDepth = 2
INVARIANTS
    FlagClearWhenIdle
    MappingsHeld
PROPERTIES
    ImplementsDirectCalls
    CallsReturn
CHECK_DEADLOCK FALSE
