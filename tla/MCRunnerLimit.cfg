CONSTANTS
    LimitTime = 1
    LimitMemory = 1
    MaxUse = 3
    MaxEvents = 2
    ExitCodes = {0, 1}
    StillActive = 259
    Fault = 3
SPECIFICATION Spec
INVARIANTS
    OverLimitIsFlagged
CHECK_DEADLOCK FALSE
