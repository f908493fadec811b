SPECIFICATION Spec
CONSTANTS
    Programs <- MCPrograms
    Vars <- MCVars
    Limits = {0, 2}
    MaxNest = 4
    MaxEvents = 2
    MaxAside = 1
INVARIANTS TypeOK InStep LevelsKnown Accounted
