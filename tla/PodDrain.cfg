SPECIFICATION FairSpec
CONSTANTS
    Streams = {s1, s2}
    Unaries = {u1}
    PreStop = 1
    Graceful = 17
    Grace = 18
    DrainTimeout = 16
    UnaryBudget = 3
    SseExitCut = TRUE
INVARIANT TypeOK
INVARIANT DrainTracksBodies
INVARIANT UnaryNeverCut
PROPERTY OnlySseCutsEarly
PROPERTY KeepsContract
PROPERTY ShutdownTerminates
PROPERTY KeepsStreamContract
PROPERTY KilledOnlyWhenLate
CHECK_DEADLOCK FALSE
