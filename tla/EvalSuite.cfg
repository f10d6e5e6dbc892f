SPECIFICATION Spec
CONSTANTS
    Suites <- MixedSuites
    HasJudge = TRUE
    Threshold = 60
    Pods = {p1, p2}
    MaxJobs = 2
INVARIANT TypeOK
INVARIANT GreenIsJustified
INVARIANT RegressionsFail
PROPERTY GaugeRisesJustified
CHECK_DEADLOCK FALSE
