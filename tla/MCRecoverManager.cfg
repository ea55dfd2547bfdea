SPECIFICATION FairSpec
CONSTANTS
    HeapNum = 3
    ObjectNum = 2
    CHANNEL_CLEAN_CIRCLE = 2
INVARIANTS RecoversExactly NobodyLate
PROPERTY RecoveryEnds
CHECK_DEADLOCK FALSE
