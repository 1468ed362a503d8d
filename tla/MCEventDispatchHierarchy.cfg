CONSTANTS
    t1 = t1
    NoThread = NoThread
    NodeCount = 3
    Thread = {t1}
    MaxItems = 1
    MaxFires = 1
SPECIFICATION Spec
INVARIANTS
    HierarchyReached
CHECK_DEADLOCK FALSE
