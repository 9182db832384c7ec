SPECIFICATION Spec
CONSTANTS
    a = a
    b = b
    c = c
    Tasks = {a, b, c}
    MaxConcurrency = 1
    MaxRecords = 2
    Graceful = {a}
    MaxTools = 1
    MaxMessages = 2
SYMMETRY Symmetry
INVARIANTS TypeOK SlotsConserved QueueIsExact OneTerminalEvent PruneKeepsActive NoStrandedMessage GracefulNotForgotten
PROPERTIES GracefulSparesTools QueuedCancelIsFinal FairSlots
CHECK_DEADLOCK FALSE
