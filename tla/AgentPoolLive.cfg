SPECIFICATION FairSpec
CONSTANTS
    a = a
    b = b
    c = c
    Tasks = {a, b}
    MaxConcurrency = 1
    MaxRecords = 2
    Graceful = {b}
    MaxTools = 1
    MaxMessages = 0
PROPERTIES EveryDelegationEnds
CHECK_DEADLOCK FALSE
