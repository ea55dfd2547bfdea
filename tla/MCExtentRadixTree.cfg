SPECIFICATION TreeSpec
CONSTANTS
    RootSlots = 2
    LeafSlots = 4
    Segment = 3
    Extents = {e1, e2}
    NoExtent = NoExtent
    NoNode = NoNode
INVARIANTS LeavesExact
PROPERTY ImplementsMap
