SPECIFICATION FairSpec
CONSTANTS
    a = a
    b = b
    c = c
    d = d
    e = e
    Order <- TwoOrder
    DependsOn <- TwoDepends
    Condition <- TwoCondition
    WritePolicy <- TwoWrite
    FailurePolicy <- TwoFailure
    MaxConcurrency = 2
    MaxStarts = 2
INVARIANTS OneSharedWriter QuietWhenOver NoFalseDeadlock NoWorktreeForgotten
PROPERTIES EveryWorkflowEnds
CHECK_DEADLOCK FALSE
