SPECIFICATION Spec
CONSTANTS
    Threads = {t1, t2}
    HeapAddr = {h1, h2}
    StackAddr = {}
    Null = null
    Nobody = nobody
    Sizes = {8, 16}
    SizeMax = 99
    Alignments = {0, 3, 8}
    Ops = {"malloc", "free", "realloc", "deref"}
    Disciplined = TRUE
    MaxCalls = 3
SYMMETRY Symmetry
INVARIANTS
    AccessLive
    NoFalseAlarm
    ReleasesNamedBlock
    RestoresSize
    AllocationMetadata
PROPERTIES
    ImplementsTemporalKeys
CHECK_DEADLOCK FALSE
