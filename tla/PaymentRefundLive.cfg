SPECIFICATION FairSpec
CONSTANTS
    b = b
    c = c
    s = s
    NoOrder = NoOrder
    w1 = w1
    w2 = w2
    Orders = {b, s}
    SubOrders = {s}
    NoTradeNo = {}
    Workers = {w1}
    Goods = 1
    MaxNow = 2
    Faults = {"gateway", "lost", "goods", "goodsLost", "audit"}
    MaxFaults = 3
INVARIANTS LossIsKnown RepaymentsNeedFailures
PROPERTY RefundEnds
CHECK_DEADLOCK FALSE
