SPECIFICATION Spec
CONSTANTS
    Vars = {x, y}
    MaxInt = 3
    Initial = {4, 7, 0, 3}
INVARIANTS
    OneOutcome
    UndefinedAborts
CHECK_DEADLOCK FALSE
