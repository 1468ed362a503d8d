CONSTANTS
    x1 = x1
    NoSession = NoSession
    t1 = t1
    Session = {x1}
    Trx = {t1}
    UIntMax = 2
    MaxListSize = 1
    RequestedLifetime = {2}
    RequestedKeepAlive = {2}
    MaxSubscriptions = 1
    MaxEvents = 0
SPECIFICATION FairSpec
PROPERTY OpenRequestsAnswered
