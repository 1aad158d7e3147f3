SPECIFICATION Spec
CONSTANTS
    r1 = r1
    r2 = r2
    p = p
    q = q
    Requests = {r1, r2}
    MaxTurns <- OneHasTurns
    Fingerprints = {p, q}
    Small = {q}
    NoFingerprint = NoFingerprint
    NoValue = NoValue
    Balance = 1
    Gift = 1
    PoolWorkers = 2
    PoolQueue = 1
    Policy = "sample"
    CacheQueue = 1
    MaxRecharges = 1
    MaxFaults = 1
INVARIANTS
    Inv
    CacheIsExact
PROPERTIES
    ImplementsLedger
    MoneyIsUsable
CHECK_DEADLOCK FALSE
