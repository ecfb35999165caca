SPECIFICATION Spec
CONSTANTS
    MaxPosition = 4
    MaxFrames = 5
    SegmentMax = 2
    Counts = {0, 1, 2}
    MaxCrashes = 2
INVARIANTS
    AckedRetainedAlways
