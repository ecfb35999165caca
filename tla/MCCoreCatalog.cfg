SPECIFICATION Spec
CONSTANTS
    s1 = s1
    s2 = s2
    k1 = k1
    e1 = e1
    e2 = e2
    x = x
    y = y
    row = row
    one = one
    two = two
    Project <- MCProject
    Indexers <- MCIndexers
    Streams = {s1, s2}
    Requests <- MCRequests
    Threshold = 3
    MaxEvents = 6
    MaxBatches = 3
    MaxCrashes = 2
    MaxFaults = 1
INVARIANTS
    PromisedDurable
    OnePerKey
    IdsOnce
    StreamsSerial
    CatalogMatchesLog
    ViewsExact
