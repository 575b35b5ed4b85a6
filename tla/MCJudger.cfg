CONSTANTS
    Solutions = {s1, s2}
    Cores = {c1, c2}
    Null = Null
    Results = {"ACCEPT", "COMPLIE"}
    Limit = 2
    RejudgeAnytime = FALSE
    MaxRejudges = 1
    MaxFailures = 1
    MaxCrashes = 1
    MaxRestarts = 1
SPECIFICATION Spec
CONSTRAINT Bounds
SYMMETRY Symmetry
INVARIANTS
    TypeOK
    CompilingIsCovered
    RequestNotForgotten
    CodeIsThere
    DerivedDataAgrees
PROPERTIES
    ImplementsService
CHECK_DEADLOCK FALSE
