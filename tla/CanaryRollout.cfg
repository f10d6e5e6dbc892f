SPECIFICATION FairSpec
CONSTANTS
    Stable = {s1}
    New = {n1}
    Versions = {"good", "regressed", "failing"}
    Count = 3
    FailureLimit = 1
    Suites <- GoldenSuites
    HasJudge = TRUE
    Threshold = 50
    MaxJobs = 2
INVARIANT TypeOK
INVARIANT PromotionNeedsGreenRun
INVARIANT BadVersionNeedsBlindRun
PROPERTY AnalysisEnds
CHECK_DEADLOCK FALSE
