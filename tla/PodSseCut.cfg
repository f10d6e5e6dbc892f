SPECIFICATION Spec
CONSTANTS
    Streams = {s1}
    Unaries = {}
    PreStop = 1
    Graceful = 17
    Grace = 18
    DrainTimeout = 16
    UnaryBudget = 3
    SseExitCut = TRUE
PROPERTY NoEarlyCut
CHECK_DEADLOCK FALSE
