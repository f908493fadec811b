SPECIFICATION Spec
CONSTANTS
    Operators = {"-", "/"}
    Faulty = {"/"}
    MaxTokens = 7
INVARIANTS
    RightToLeft
    Rejected
