SPECIFICATION Spec
CONSTANTS
    MaxEvents = 2
    MaxCrashes = 3
INVARIANTS
    TypeOK
    AckedKept
    ManifestHasSegment
    IdentityStable
