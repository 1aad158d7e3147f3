SPECIFICATION Spec
CONSTANTS
    account = account
    bulk = bulk
    full = full
    c1 = c1
    f1 = f1
    Events = {account, bulk, full}
    FullRebuild = full
    NoDedup = {bulk}
    Consumers = {c1}
    Rebuilders = {f1}
    MaxChanges = 2
    MaxFaults = 2
INVARIANTS
    Inv
PROPERTIES
    EventsEnd
    FullRebuildRepairs
CHECK_DEADLOCK FALSE
