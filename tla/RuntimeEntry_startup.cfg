SPECIFICATION FairSpec
CONSTANTS
    Threads = {t1, t2}
    Nobody = nobody
    BufferSize = 9
    Align = 2
    HeapAddr = {9, 10, 11}
    Sizes = {3}
    MaxCalls = 2
    MaxInner = 1
    MaxGrowths = 2
INVARIANTS
    TypeOK
    FlagTellsTheTruth
    OwnBlocksAccepted
    BootstrapBlocks
    HolderGoesOn
PROPERTIES
    CallsReturn
CHECK_DEADLOCK FALSE
