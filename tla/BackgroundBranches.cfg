SPECIFICATION Spec
CONSTANTS
    x = x
    y = y
    Ids = {x}
    MaxConcurrency = 1
    TriggerSets = {{"completed"}}
    MaxReviews = 0
    MaxLog = 1
    ErrorLogs = {}
    MaxQueue = 1
    MaxBranches = 2
    MaxRestarts = 0
    MayDispose = TRUE
    MayType = FALSE
INVARIANTS OneDelivery
CHECK_DEADLOCK FALSE
