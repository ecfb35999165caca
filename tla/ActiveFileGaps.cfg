SPECIFICATION Spec
CONSTANTS
    MaxFrames = 4
    Chunk = 2
    Readers = {r1, r2}
    Nobody = Nobody
INVARIANT
    NoGapsAlways
