SPECIFICATION FaultSpec
CONSTANTS
    MaxPosition = 4
    MaxFrames = 4
    SegmentMax = 2
    Counts = {0, 1, 2}
    MaxCrashes = 2
    Faults = {"write"}
    MaxFaults = 1
INVARIANT
    AckedRetained
