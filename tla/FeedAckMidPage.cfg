SPECIFICATION Spec
CONSTANTS
    Consumers = {c1}
    User = u
    Nobody = nobody
    Starts = {1}
    PageBatches = 2
    MaxBatches = 2
    MaxAcks = 1
    MaxCrashes = 1
INVARIANT
    AckedWereTakenAlways
