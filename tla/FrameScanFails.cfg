SPECIFICATION Spec
CONSTANTS
    MaxWrites = 3
    MaxEvents = 2
    BatchIds = {"b1", "b2"}
CHECK_DEADLOCK FALSE
INVARIANT
    NeverFails
