SPECIFICATION Spec
CONSTANTS
    b = b
    c = c
    q = q
    Branches = {b}
    Consumers = {c}
    Queries = {q}
    MaxEvents = 2
    MaxRecords = 2
    MaxApplied = 2
    MaxCrashes = 1
CONSTRAINTS NoLapse OneSubject PlanFresh
CHECK_DEADLOCK FALSE
INVARIANTS
    Reopens
    NothingForgotten
    NobodyStranded
    EventsKept
