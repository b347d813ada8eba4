SPECIFICATION FairSpec
CONSTANTS
    None = None
    MinTime = 2
    LastChange = 5
    MaxTime = 8
    MaxTimers = 3
CHECK_DEADLOCK FALSE
INVARIANTS HeldLongEnough
PROPERTIES PassesOnceReported
