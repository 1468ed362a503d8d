SPECIFICATION Spec
CONSTANTS
    Element = {e1, e2}
    e1 = e1
    e2 = e2
    Slots1 = 2
    Slots2 = 2
    Levels = 2
    MaxCallPerLoop = 2
    MaxInterval = 2
    MinAhead = 1
    MaxAhead = 6
    MaxTick = 3
    Stopper = {"io", "other"}
INVARIANTS
    TypeOK
    CountAgrees
    NeverEarly
PROPERTIES
    TimerQueueRefined
CHECK_DEADLOCK FALSE
