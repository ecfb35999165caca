SPECIFICATION MSpec
CONSTANTS
    MaxEvents = 3
    MaxCrashes = 3
    Source = 2
CHECK_DEADLOCK FALSE
INVARIANT RerunIsAnswered
