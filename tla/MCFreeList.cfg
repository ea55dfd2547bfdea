SPECIFICATION FairSpec
CONSTANTS
    Threads = {t1, t2}
    Nodes = {n1, n2, n3}
    NULL = NULL
    Versions = 4
INVARIANTS Exclusive NoNodeLost
PROPERTIES ImplementsFreeStack LockFree
