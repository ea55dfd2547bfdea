SPECIFICATION Spec
CONSTANTS
    SegmentNum = 3
    SegmentPages = 4
    RunPages = 2
    RunAlign = 1
    AddrSpaceStart = 12
    MetaPages = 1
    MaxBlocks = 3
INVARIANTS NothingLiveFreed AllPagesAccounted
CHECK_DEADLOCK FALSE
