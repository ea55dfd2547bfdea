SPECIFICATION RootSpec
CONSTANTS
    n1 = n1
    n2 = n2
    a1 = a1
    a2 = a2
    r1 = r1
    Names <- MCNames
    Addresses <- MCAddresses
    Readers = {r1}
    WordNum = 8
    Size <- MCSize
    Aligned = {n2}
    MaxCrashes = 2
    END = END
    DELETED = DELETED
    RUBBISH = RUBBISH
    NoRoot = NoRoot
    Idle = Idle
INVARIANTS RootsSurvive FindsRightRoot
