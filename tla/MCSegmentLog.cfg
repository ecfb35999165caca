SPECIFICATION Spec
CONSTANTS
    MaxPosition = 3
    MaxFrames = 5
    SegmentMax = 2
    Counts = {0, 1, 2}
    MaxCrashes = 2
CONSTRAINT
    PromiseHolds
INVARIANTS
    AckedRetained
    NeverUnopenable
    Sound
PROPERTIES
    ImplementsCommittedLog
