SPECIFICATION Spec
CONSTANTS
    Ints = {x}
    Ptrs = {p}
    Forms = {"int", "ptr", "addr", "return_deref"}
    Shadowing = FALSE
    MaxStmts = 5
    MaxCalls = 0
    MaxKeys = 4
SYMMETRY Symmetry
INVARIANTS
    NoFalseAlarm
