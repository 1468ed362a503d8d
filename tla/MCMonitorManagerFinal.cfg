CONSTANTS
    n1 = n1
    a = a
    NoItem = NoItem
    Node = {n1}
    ValueNode = {n1}
    MistypedNode = {}
    Variant = {a}
    QueueSize = {1}
    MaxItems = 1
    MaxPending = 2
    MaxEvents = 0
SPECIFICATION Spec
PROPERTY FinalNotificationKept
