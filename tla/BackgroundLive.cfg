SPECIFICATION HostSpec
CONSTANTS
    x = x
    y = y
    Ids = {x, y}
    MaxConcurrency = 1
    TriggerSets = {{"completed"}}
    MaxReviews = 0
    MaxLog = 0
    ErrorLogs = {}
    MaxQueue = 1
    MaxBranches = 1
    MaxRestarts = 0
    MayDispose = FALSE
    MayType = FALSE
INVARIANTS CapacityRespected
PROPERTIES WakeNotMissed
CHECK_DEADLOCK FALSE
