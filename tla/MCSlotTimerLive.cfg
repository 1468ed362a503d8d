SPECIFICATION FairSpec
CONSTANTS
    Element = {e1, e2}
    e1 = e1
    e2 = e2
    Slots1 = 2
    Slots2 = 2
    Levels = 2
    MaxCallPerLoop = 2
    MaxInterval = 1
    MinAhead = 1
    MaxAhead = 6
    MaxTick = 4
    Stopper = {}
PROPERTIES
    TimerFires
    StopReturns
CHECK_DEADLOCK FALSE
