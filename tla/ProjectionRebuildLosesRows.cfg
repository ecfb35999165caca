SPECIFICATION Spec
CONSTANTS
    s1 = s1
    s2 = s2
    a = a
    b = b
    Streams = {s1, s2}
    Keys = {a, b}
    Kinds <- MCKinds
    Descriptors <- MCDescriptors
    MaxEvents = 2
    MaxSnapshots = 3
    MaxCrashes = 1
CHECK_DEADLOCK FALSE
INVARIANT RowsAlwaysExact
