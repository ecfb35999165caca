SPECIFICATION FileSpec
CONSTANTS
    MaxFrames = 5
    Chunk = 2
    Readers = {r1, r2}
    Nobody = Nobody
    MaxWrites = 3
    MaxEvents = 2
    BatchIds = {"b1", "b2"}
SYMMETRY Interchangeable
CHECK_DEADLOCK FALSE
INVARIANTS
    AppendOnly
    NoGaps
    AllOrNothing
