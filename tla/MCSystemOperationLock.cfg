SPECIFICATION Spec
CONSTANTS
    w1 = w1
    w2 = w2
    update = update
    rollback = rollback
    NoOperation = NoOperation
    Workers = {w1, w2}
    Operations = {update, rollback}
    Lease = 3
    TTL = 4
    MaxNow = 7
    Faults = {"store", "operation", "crash"}
    MaxFaults = 1
SYMMETRY WorkerSymmetry
INVARIANTS
    Inv
    OverlapNeedsLapse
CHECK_DEADLOCK FALSE
