SPECIFICATION MCSpec
CONSTANTS
    t1 = t1
    t2 = t2
    Threads = {t1, t2}
    Objects = {o1, o2}
    MAX_THREAD_NUM = 3
    CHANNEL_CLEAN_CIRCLE = 1
    NULL = NULL
    Leavable <- MCLeavable
INVARIANTS OneThreadPerHeap OnePlaceEach
PROPERTIES ImplementsPool MailIsRead
CHECK_DEADLOCK FALSE
