SPECIFICATION UnitSpec
CONSTANTS
    Sources <- Programs
    Mistyped <- MCMistyped
    Slips <- MCSlips
    Names = {n}
    MaxStmts = 4
    MaxFunctions = 2
INVARIANTS
    ReadsAsWritten
    NothingSkipped
    GeneratesLegalCode
    VerdictIsLocal
    NeverFallsOff
    NoneForgotten
PROPERTY CompilationEnds
CHECK_DEADLOCK FALSE
