SPECIFICATION FairSpec
CONSTANTS
    p = p
    w = w
    Ids = {p}
    Waits = {w}
    EndReports = {"completed"}
    MaxObjects = 2
    MaxPolls = 1
    MaxNavs = 1
INVARIANTS NoLostWakeup WaitReturnsEnded
PROPERTIES EndedIsFinal EveryWaitEnds
CHECK_DEADLOCK FALSE
