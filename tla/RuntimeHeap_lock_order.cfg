SPECIFICATION Spec
CONSTANTS
    Threads = {t1, t2}
    HeapAddr = {h1, h2}
    StackAddr = {}
    Null = null
    Nobody = nobody
    Sizes = {8}
    SizeMax = 99
    Alignments = {0, 3, 8}
    Ops = {"malloc", "realloc"}
    Disciplined = TRUE
    MaxCalls = 2
INVARIANTS
    NoCircularWait
CHECK_DEADLOCK FALSE
