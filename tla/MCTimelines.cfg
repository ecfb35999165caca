SPECIFICATION Spec
CONSTANTS
    Default = main
    Names = {b1, b2}
    s1 = s1
    s2 = s2
    Streams = {s1, s2}
    BatchKinds <- MCKinds
    Requests <- MCRequests
    Selections <- MCSelections
    MaxPosition = 3
    MaxFrames = 5
    MaxDepth = 3
    SegmentFrames = 2
    PageEvents = 2
    PageBytes = 3
    MaxCrashes = 1
    MaxFaults = 1
CHECK_DEADLOCK FALSE
SYMMETRY NameSymmetry
INVARIANTS
    CatalogMatchesLog
    ReadExact
    PagesExact
    DiffExact
    BatchesWhole
    PagingEnds
