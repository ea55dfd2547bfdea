SPECIFICATION FairSpec
CONSTANTS
    SegmentNum = 4
    HeapNum = 2
    MaxCrashes = 2
INVARIANTS SegmentsApart FreeFindsItsHeap OwnerDurable NoSegmentLost
PROPERTIES ReachableKeepsOwner RecoveryEnds
