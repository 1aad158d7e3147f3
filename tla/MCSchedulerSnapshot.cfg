SPECIFICATION Spec
CONSTANTS
    a1 = a1
    a2 = a2
    p1 = p1
    p2 = p2
    Accounts = {a1, a2}
    Processes = {p1, p2}
    Workers <- MCWorkers
    MaxKeys = 5
    NotCached = NotCached
    MaxChanges = 1
    MaxBusy = 2
    MaxFaults = 1
INVARIANTS
    Inv
PROPERTIES
    ImplementsRegister
    FreshInTheEnd
CHECK_DEADLOCK FALSE
