SPECIFICATION MCSpec
CONSTANTS
    Root = p
    Children = {a, b}
    Length = 4
    MaxEvents = 3
    MaxCrashes = 3
    Source = 2
CHECK_DEADLOCK FALSE
INVARIANTS
    AckedKept
    ImportIsWhole
    LegacyForksExact
PROPERTY ImportCompletes
