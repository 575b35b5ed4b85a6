CONSTANTS
    Solutions = {s1, s2}
SPECIFICATION Spec
INVARIANTS
    ResultsAreStored
CHECK_DEADLOCK FALSE
