SPECIFICATION Spec
CONSTANTS
    b = b
    c = c
    q = q
    Branches = {b}
    Consumers = {c}
    Queries = {q}
    MaxEvents = 2
    MaxRecords = 2
    MaxApplied = 1
    MaxCrashes = 2
CHECK_DEADLOCK FALSE
INVARIANT ReopensUnsettled
