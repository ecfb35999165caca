SPECIFICATION Spec
CONSTANTS
    Consumers = {c1}
    User = u
    Nobody = nobody
    Starts = {}
    PageBatches = 1
    MaxBatches = 2
    MaxAcks = 0
    MaxCrashes = 1
PROPERTIES
    PublishedWakes
    CloseEnds
