CONSTANTS
    Orders = {b}
    SubOrders = {}
    NoOrder = NoOrder
    Workers = {w1, w2}
    MaxPending = 1
    Faults = {"delivery", "gateway"}
    MaxFaults = 2
SPECIFICATION AdminSpec
PROPERTIES PaidIsDelivered
CHECK_DEADLOCK FALSE
