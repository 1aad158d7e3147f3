SPECIFICATION Spec
CONSTANTS
    r1 = r1
    r2 = r2
    p1 = p1
    p2 = p2
    NoId = NoId
    Requests = {r1, r2}
    Processes = {p1, p2}
    NoProcess = NoProcess
    MaxIds = 2
    MaxConcurrency = 1
    MaxWait = 1
    SlotTTL = 2
    WaitTTL = 2
    RedisFails = TRUE
INVARIANTS
    Inv
    LimitUnlessRevoked
    HolderHasSlot
CHECK_DEADLOCK FALSE
PROPERTIES
    SlotReclaimed
    QueueReopens
