SPECIFICATION Spec
CONSTANTS
    Ints = {x}
    Ptrs = {p}
    Forms = {"int", "ptr", "addr", "deref", "save", "load", "if", "return_deref", "return_ptr"}
    Shadowing = FALSE
    MaxStmts = 7
    MaxCalls = 1
    MaxKeys = 4
SYMMETRY Symmetry
INVARIANTS
    AccessLive
