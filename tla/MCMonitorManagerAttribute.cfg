CONSTANTS
    n1 = n1
    a = a
    b = b
    NoItem = NoItem
    Node = {n1}
    ValueNode = {}
    MistypedNode = {}
    Variant = {a, b}
    QueueSize = {1}
    MaxItems = 1
    MaxPending = 2
    MaxEvents = 0
SPECIFICATION FairSpec
PROPERTY AttributePublished
