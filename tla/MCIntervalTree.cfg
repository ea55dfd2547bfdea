SPECIFICATION MCSpec
CONSTANTS
    Starts = {1, 2, 3, 4, 5, 6, 7, 8, 9, 10, 11}
    MaxLen = 2
    LowNum = 7
INVARIANTS HoldsInOrder FindsBestFit
CHECK_DEADLOCK FALSE
