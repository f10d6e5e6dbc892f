SPECIFICATION Spec
CONSTANTS
    first = first
    twin = twin
    poison = poison
    list = list
    anon = anon
    e1 = e1
    dFirst = dFirst
    dTwin = dTwin
    dPoison = dPoison
    dList = dList
    dAnon = dAnon
    NoId = NoId
    Workers = {w1}
    Messages = {first}
    Kind <- MCKind
    EventId <- MCEventId
    Digest <- MCDigest
    BatchSize = 1
    MaxReceiveCount = 2
    MaxExpiries = 0
    MaxKills = 0
    Faults = {"provider"}
INVARIANT AckedIsTicketed
CHECK_DEADLOCK FALSE
