SPECIFICATION FairSpec
CONSTANTS
    m1 = m1
    m2 = m2
    m3 = m3
    None = None
    Msgs = {m1, m2}
    QueueMode = "one-at-a-time"
    MayStop = FALSE
    MaxRetries = 1
    MaxCalls = 2
    MaxTurns = 1
INVARIANTS ExactlyOnce LiveRequestComplete
PROPERTIES EveryRunSettles
CHECK_DEADLOCK FALSE
