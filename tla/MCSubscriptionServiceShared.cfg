SPECIFICATION Spec
SYMMETRY Symmetry
CONSTANTS
    x1 = x1
    x2 = x2
    NoSession = NoSession
    t1 = t1
    t2 = t2
    Session = {x1, x2}
    Trx = {t1, t2}
    UIntMax = 2
    MaxListSize = 1
    RequestedLifetime = {2}
    RequestedKeepAlive = {2}
    MaxSubscriptions = 2
    MaxEvents = 1
INVARIANT RequestsAnsweredOnce
PROPERTY TimeoutOnlyWhenStarved
