SPECIFICATION Spec
CONSTANTS
    Runs = {r1, r2, r3}
    NULL = NULL
    RunSize = 12
    ObjSizes = {3, 5}
    Header = 1
    WordBits = 6
    CacheElems = 2
INVARIANTS ListsIntact CountsAgree Apart
PROPERTY NewRunOnlyWhenNeeded
SYMMETRY AnyRun
CHECK_DEADLOCK FALSE
