CONSTANTS
    Orders = {b, s}
    SubOrders = {s}
    NoOrder = NoOrder
    Workers = {w1, w2}
    MaxPending = 1
    Faults = {"crash", "db", "lock", "delivery", "markFailed", "gateway"}
    MaxFaults = 1
SYMMETRY WorkerSymmetry
SPECIFICATION Spec
INVARIANTS Inv LocksAreReleased DeliveredOnce NothingIsSkipped PendingBounded RewardsBounded
PROPERTIES StatusesAdvance ImplementsLedger
CHECK_DEADLOCK FALSE
