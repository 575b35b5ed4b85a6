CONSTANTS
    Solutions = {s1}
    Cores = {c1, c2}
    Null = Null
    Results = {"ACCEPT", "COMPLIE"}
    Limit = 1
    RejudgeAnytime = FALSE
    MaxRejudges = 1
    MaxFailures = 1
    MaxCrashes = 0
    MaxRestarts = 0
SPECIFICATION FairSpec
PROPERTIES
    EveryRequestIsJudged
    StopTerminates
CHECK_DEADLOCK FALSE
