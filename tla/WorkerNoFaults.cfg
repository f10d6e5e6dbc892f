SPECIFICATION FairSpec
CONSTANTS
    first = first
    twin = twin
    poison = poison
    list = list
    anon = anon
    e1 = e1
    dFirst = dFirst
    dTwin = dTwin
    dPoison = dPoison
    dList = dList
    dAnon = dAnon
    NoId = NoId
    Workers = {w1, w2}
    Messages = {first, twin, anon}
    Kind <- MCKind
    EventId <- MCEventId
    Digest <- MCDigest
    BatchSize = 2
    MaxReceiveCount = 2
    MaxExpiries = 0
    MaxKills = 0
    Faults = {}
INVARIANT ExactlyOnce
PROPERTY EveryEventTicketed
CHECK_DEADLOCK FALSE
