SPECIFICATION Spec
CONSTANTS
    b = b
    c = c
    q = q
    Branches = {b}
    Consumers = {c}
    Queries = {q}
    MaxEvents = 2
    MaxRecords = 2
    MaxApplied = 2
    MaxCrashes = 1
CHECK_DEADLOCK FALSE
INVARIANT BranchesSurviveReopen
