SPECIFICATION Spec
CONSTANTS
    SegmentNum = 2
    SegmentPages = 4
    RunPages = 2
    RunAlign = 2
    CacheSize = 1
    MaxRequest = 3
INVARIANTS Tiling ExtentsAgree FreeSpaceWhole
CHECK_DEADLOCK FALSE
