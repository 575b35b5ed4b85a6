CONSTANTS
    Solutions = {s1, s2}
    Cores = {c1, c2}
    Null = Null
    Results = {"ACCEPT", "COMPLIE"}
    Limit = 2
    RejudgeAnytime = TRUE
    MaxRejudges = 1
    MaxFailures = 0
    MaxCrashes = 0
    MaxRestarts = 0
SPECIFICATION Spec
INVARIANTS
    RequestNotForgotten
CHECK_DEADLOCK FALSE
