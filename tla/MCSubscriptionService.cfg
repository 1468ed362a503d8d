SPECIFICATION FairSpec
CONSTANTS
    x1 = x1
    NoSession = NoSession
    t1 = t1
    t2 = t2
    Session = {x1}
    Trx = {t1, t2}
    UIntMax = 3
    MaxListSize = 2
    RequestedLifetime = {0, 3}
    RequestedKeepAlive = {2}
    MaxSubscriptions = 1
    MaxEvents = 2
INVARIANTS
    TypeOK
    SequenceContinuous
    AckListOrdered
    KeepaliveInTime
PROPERTIES
    StarvedIsReclaimed
    RequestAnswered
