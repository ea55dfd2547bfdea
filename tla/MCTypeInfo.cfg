SPECIFICATION MCSpec
CONSTANTS
    k = k
    kUpper = kUpper
    l = l
    s = s
    t = t
    NONE = NONE
    NoKey = NoKey
    ItemNum = 4
    ObjectNum = 3
    MaxIndex = 1
    Keys <- MCKeys
    Folded <- MCFolded
    Values <- MCValues
    Names <- MCNames
    TypeIDNum = 32
    ObjectSizeNum = 32832
    Files <- MCFiles
INVARIANTS
    TreeIntact
    KeptIsCurrent
    IdsNameEntries
    SmallestClassThatFits
SYMMETRY MCSymmetry
CHECK_DEADLOCK FALSE
