SPECIFICATION FairSpec
CONSTANTS
    Threads = {t1, t2}
    HeapAddr = {h1, h2}
    StackAddr = {x1}
    Null = null
    Nobody = nobody
    Sizes = {8}
    SizeMax = 99
    Alignments = {0, 3, 8}
    Ops = {"malloc", "free", "deref", "decl"}
    Disciplined = TRUE
    MaxCalls = 3
INVARIANTS
    TypeOK
    NoFalseAlarm
    NoCircularWait
PROPERTIES
    CallsComplete
