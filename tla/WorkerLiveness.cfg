SPECIFICATION FairSpec
CONSTANTS
    first = first
    twin = twin
    poison = poison
    list = list
    anon = anon
    e1 = e1
    dFirst = dFirst
    dTwin = dTwin
    dPoison = dPoison
    dList = dList
    dAnon = dAnon
    NoId = NoId
    Workers = {w1}
    Messages = {first, poison, list}
    Kind <- MCKind
    EventId <- MCEventId
    Digest <- MCDigest
    BatchSize = 3
    MaxReceiveCount = 2
    MaxExpiries = 0
    MaxKills = 1
    Faults = {"provider", "error", "reply_lost", "kill"}
INVARIANT LossOnlyAfterAbort
PROPERTY EveryMessageSettles
CHECK_DEADLOCK FALSE
