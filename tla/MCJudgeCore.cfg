CONSTANTS
    TestCounts <- MCTestCounts
    MaxUse = 1
    Attempts = 2
    Chars = {"a", "b", " ", "CR", "LF"}
    MaxText = 3
SPECIFICATION FairSpec
INVARIANTS
    TypeOK
    ResultIsOfLastTest
    ReportSumsUpTheRuns
    CleanUpIsComplete
    MatchIsReference
PROPERTIES
    PublishedTaskIsFinal
    ImplementsJudgement
    JudgeEnds
CHECK_DEADLOCK FALSE
