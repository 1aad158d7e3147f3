SPECIFICATION Spec
CONSTANTS
    w1 = w1
    w2 = w2
    w3 = w3
    p = p
    q = q
    NoPayload = NoPayload
    Workers = {w1, w2, w3}
    Payloads = {p, q}
    LongPayloads = {q}
    TTL = 2
    ProcessingTimeout = 1
    FailedRetryBackoff = 1
    MaxNow = 3
    Faults = {"store", "execute", "crash"}
    MaxFaults = 1
SYMMETRY WorkerSymmetry
INVARIANTS
    Inv
    AloneWithinLock
PROPERTIES
    ResultStays
    OnceUnlessStale
CHECK_DEADLOCK FALSE
