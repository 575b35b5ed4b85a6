CONSTANTS
    Solutions = {s1, s2}
    Cores = {c1, c2}
    Null = Null
    Results = {"ACCEPT", "COMPLIE"}
    Limit = 2
    RejudgeAnytime = FALSE
    MaxRejudges = 0
    MaxFailures = 0
    MaxCrashes = 0
    MaxRestarts = 0
SPECIFICATION Spec
INVARIANTS
    ReceivedResultsAreWritten
CHECK_DEADLOCK FALSE
