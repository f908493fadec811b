SPECIFICATION FairSpec
CONSTANTS
    equipment = equipment
    host = host
    Station = {equipment, host}
    Master = equipment
    MaxRetry = 1
    JumpOutcomes = {"branch", "caller"}
    MaxMsgs = 2
    MaxNest = 2
    MaxFaults = 3
    MaxEarly = 1
INVARIANTS TypeOK OkMeansReceived CleanLine
PROPERTY SendsEnd
