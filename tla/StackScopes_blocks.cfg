SPECIFICATION Spec
CONSTANTS
    Ints = {x}
    Ptrs = {p, q}
    Forms = {"block", "while", "for", "int", "ptr", "addr", "deref", "copy", "return"}
    Shadowing = FALSE
    MaxStmts = 5
    MaxCalls = 0
    MaxKeys = 4
SYMMETRY Symmetry
INVARIANTS
    TypeOK
    AccessLive
    NoFalseAlarm
    DeadVariableHasNoKey
