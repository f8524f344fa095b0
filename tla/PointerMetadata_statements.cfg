SPECIFICATION Spec
CONSTANTS
    WordLimit = 8
    Vars = {p, q}
    Bases = {1}
    MaxBlock = 2
    Local = 3
    Constant = 4
    Literal = 5
    Offsets = {1, 7}
    Forms = {"null", "local", "constant", "string", "variable", "plus", "other"}
    SelfLoads = FALSE
    MaxKeys = 4
    MaxStmts = 7
SYMMETRY Symmetry
INVARIANTS
    MetadataTrue
    MissesNothing
    NoFalseAlarm
CHECK_DEADLOCK FALSE
