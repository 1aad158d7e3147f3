SPECIFICATION Spec
CONSTANTS
    b = b
    c = c
    s = s
    NoOrder = NoOrder
    w1 = w1
    w2 = w2
    Orders = {b, c}
    SubOrders = {}
    NoTradeNo = {c}
    Workers = {w1, w2}
    Goods = 2
    MaxNow = 0
    Faults = {"gateway", "goods", "status", "crash"}
    MaxFaults = 2
SYMMETRY WorkerSymmetry
INVARIANTS
    Inv
PROPERTIES
    ImplementsLedger
CHECK_DEADLOCK FALSE
