SPECIFICATION FairSpec
CONSTANTS
    n1 = n1
    a = a
    NoItem = NoItem
    Node = {n1}
    ValueNode = {n1}
    MistypedNode = {}
    Variant = {a}
    QueueSize = {0, 2}
    MaxItems = 2
    MaxPending = 3
    MaxEvents = 1
INVARIANTS
    TypeOK
    QueuePolicy
    NewestKept
    StartStopBalanced
    DrainFillsArray
PROPERTY ValuePublished
