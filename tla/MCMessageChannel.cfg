SPECIFICATION FairSpec
CONSTANTS
    Nodes = {n1, n2, n3}
    NULL = NULL
    Slots = 2
    Messages = {a, b}
    MaxMessages = 5
INVARIANTS NodesInOnePlace UnreadKept
PROPERTIES ImplementsFifo Delivered
