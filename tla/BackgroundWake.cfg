SPECIFICATION Spec
CONSTANTS
    x = x
    y = y
    Ids = {x}
    MaxConcurrency = 1
    TriggerSets = {{"completed", "error-pattern", "progress-review"}}
    MaxReviews = 1
    MaxLog = 1
    ErrorLogs = {1}
    MaxQueue = 1
    MaxBranches = 1
    MaxRestarts = 1
    MayDispose = FALSE
    MayType = TRUE
INVARIANTS OnceUnlessRejected OneDelivery DeliveredHasOwner ConsumedWasHandedOver ReviewBudget PollChain
CHECK_DEADLOCK FALSE
