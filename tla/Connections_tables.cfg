SPECIFICATION FairSpec
CONSTANTS
    a = a
    b = b
    NoName = NoName
    Names = {a, b}
    Fds = {3, 4, 5}
    MAX_FDS = 3
    MAX_CLIENTS = 2
    MaxPending = 2
    MaxConnects = 3
    MaxStatements = 2
INVARIANTS TypeOK Registered Undisturbed
PROPERTY Served
