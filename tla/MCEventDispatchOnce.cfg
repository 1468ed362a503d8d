CONSTANTS
    t1 = t1
    NoThread = NoThread
    NodeCount = 2
    Thread = {t1}
    MaxItems = 1
    MaxFires = 1
SPECIFICATION Spec
INVARIANTS
    EventOnce
CHECK_DEADLOCK FALSE
