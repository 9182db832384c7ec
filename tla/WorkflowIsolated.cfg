SPECIFICATION Spec
CONSTANTS
    a = a
    b = b
    c = c
    d = d
    e = e
    Order <- IsoOrder
    DependsOn <- IsoDepends
    Condition <- IsoCondition
    WritePolicy <- IsoWrite
    FailurePolicy <- IsoFailure
    MaxConcurrency = 2
    MaxStarts = 2
INVARIANTS QuietWhenOver
CHECK_DEADLOCK FALSE
