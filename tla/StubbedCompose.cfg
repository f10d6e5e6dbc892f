SPECIFICATION Spec
CONSTANTS
    Requests = {r1}
    Streams = {s1}
    Calls <- AllCalls
    Configs <- PostedFaults
    Lengths = {0, 3, 5, 12}
    MaxAttempts = 3
    AttemptTimeout = 1
    TotalTimeout = 3
    BaseDelay = 0
    MaxDelay = 0
INVARIANT TypeOK
INVARIANT FewFaultsMasked
INVARIANT ForcedFailures
INVARIANT RelayFaithful
PROPERTY KeepsStreamContract
CHECK_DEADLOCK FALSE
