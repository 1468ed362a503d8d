SPECIFICATION FairSpec
CONSTANTS
    n1 = n1
    a = a
    b = b
    NoItem = NoItem
    Node = {n1}
    ValueNode = {}
    MistypedNode = {n1}
    Variant = {a, b}
    QueueSize = {1}
    MaxItems = 2
    MaxPending = 2
    MaxEvents = 1
INVARIANTS
    TypeOK
    QueuePolicy
    NewestKept
    StartStopBalanced
    DrainFillsArray
PROPERTY ValuePublished
