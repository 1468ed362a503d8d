CONSTANTS
    t1 = t1
    t2 = t2
    NoThread = NoThread
    NodeCount = 2
    Thread = {t1, t2}
    MaxItems = 2
    MaxFires = 2
SPECIFICATION FairSpec
INVARIANTS
    TypeOK
    FreshHandlersAlive
    FilterReadsOwnEvent
    NotifiersReached
PROPERTIES
    FireAnswered
CHECK_DEADLOCK FALSE
