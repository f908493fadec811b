SPECIFICATION Spec
CONSTANTS
    MAX_TIMERS = 3
    FirstDynamic = 1
    MAX_OPEN_TRANS_TABLE = 2
    MAX_WAIT = 3
    T3 = 1
    Seconds = {2}
    StartIds = {0}
    StopIds = {0, 2}
    LateReplies = TRUE
    JumpOutcomes = {"branch", "caller"}
    SBModulus = 16
    MaxSends = 2
    MaxReplies = 2
    MaxNest = 2
    MaxTime = 3
INVARIANTS TypeOK TransactionInv WakeupArmed
PROPERTY T3OnlyWhileWaiting
