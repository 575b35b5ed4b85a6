CONSTANTS
    TestCounts <- MCTestCounts
    MaxUse = 0
    Attempts = 2
    Chars = {"a", "b", " ", "CR", "LF"}
    MaxText = 3
SPECIFICATION Spec
INVARIANTS
    AcceptMeansAllTestsPass
CHECK_DEADLOCK FALSE
