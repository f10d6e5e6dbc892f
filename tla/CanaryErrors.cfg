SPECIFICATION Spec
CONSTANTS
    Stable = {s1}
    New = {n1}
    Versions = {"failing"}
    Count = 3
    FailureLimit = 1
    Suites <- AssertingSuites
    HasJudge = TRUE
    Threshold = 50
    MaxJobs = 1
INVARIANT ErrorsStopTheRollout
CHECK_DEADLOCK FALSE
