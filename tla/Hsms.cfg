SPECIFICATION FairSpec
CONSTANTS
    Timers = {6, 8}
    MaxAlarm = 3
    MaxOverdue = 1
    T6 = 3
    T8 = 2
    MaxRead = 2
    Bodies = {3}
    JumpOutcomes = {"branch", "caller"}
    MaxSent = 2
    MaxConnects = 2
INVARIANTS
    TypeOK
    AlarmPending
    Framed
    Selected
    NoTimerLeft
PROPERTY
    ReceptionEnds
