SPECIFICATION Spec
CONSTANTS
    r1 = r1
    b1 = b1
    b2 = b2
    p1 = p1
    p2 = p2
    Requests = {r1}
    Refreshers = {b1, b2}
    Processes = {p1, p2}
    ProcessOf <- RequestWithFirstLoop
    NoCaller = NoCaller
    NoToken = NoToken
    MaxRetries = 2
    MaxTokens = 1
    MaxFaults = 2
INVARIANTS
    Inv
    DisabledIfDead
    CacheIsCurrent
PROPERTIES
    StoredInOrder
    TokenIsRenewed
CHECK_DEADLOCK FALSE
