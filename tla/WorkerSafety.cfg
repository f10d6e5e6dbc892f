SPECIFICATION Spec
CONSTANTS
    first = first
    twin = twin
    poison = poison
    list = list
    anon = anon
    e1 = e1
    dFirst = dFirst
    dTwin = dTwin
    dPoison = dPoison
    dList = dList
    dAnon = dAnon
    NoId = NoId
    Workers = {w1, w2}
    Messages = {first, twin}
    Kind <- MCKind
    EventId <- MCEventId
    Digest <- MCDigest
    BatchSize = 2
    MaxReceiveCount = 2
    MaxExpiries = 1
    MaxKills = 1
    Faults = {"provider", "error", "reply_lost", "expiry", "kill"}
SYMMETRY Replicas
INVARIANT TypeOK
INVARIANT DuplicatesNeedExpiries
INVARIANT LossOnlyAfterAbort
INVARIANT DoneMeansTicketed
PROPERTY LedgerSpec
CHECK_DEADLOCK FALSE
