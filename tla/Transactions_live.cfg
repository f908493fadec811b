SPECIFICATION FairSpec
CONSTANTS
    MAX_TIMERS = 4
    FirstDynamic = 2
    MAX_OPEN_TRANS_TABLE = 1
    MAX_WAIT = 3
    T3 = 1
    Seconds = {1}
    StartIds = {1}
    StopIds = {0, 1}
    LateReplies = FALSE
    JumpOutcomes = {"branch"}
    SBModulus = 16
    MaxSends = 2
    MaxReplies = 2
    MaxNest = 2
    MaxTime = 3
INVARIANT WaitingHasTimer
PROPERTIES ResumedOnce OverdueTimersFire SendsResume
