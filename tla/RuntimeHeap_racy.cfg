SPECIFICATION Spec
CONSTANTS
    Threads = {t1, t2}
    HeapAddr = {h1, h2}
    StackAddr = {}
    Null = null
    Nobody = nobody
    Sizes = {8}
    SizeMax = 99
    Alignments = {0, 3, 8}
    Ops = {"malloc", "aligned_alloc", "free", "deref", "store"}
    Disciplined = FALSE
    MaxCalls = 3
SYMMETRY Symmetry
INVARIANTS
    OneKeeper
    SystemHeapSafe
    KeysNameOneObject
