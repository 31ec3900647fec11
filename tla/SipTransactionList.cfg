SPECIFICATION FairSpec
CONSTANTS
    t1 = t1
    t2 = t2
    t3 = t3
    Threads = {t1, t2, t3}
    GC = GC
    NULL = NULL
    x1 = x1
    x2 = x2
    x3 = x3
    Transactions = {x1, x2, x3}
    e1 = e1
    e2 = e2
    e3 = e3
    Events = {e1, e2, e3}
    LIFETIME = 0
    INVITE_LIFETIME = 1
    COMPLETE_LIFETIME = 0
    Settings <- Situations
\* All transactions may be gone and all threads idle.
CHECK_DEADLOCK FALSE
INVARIANTS
    TypeOK
    NoLostWakeup
    NoError
    WaitersAtTheTop
    
    EventOwned
PROPERTIES
    CollectedWhenStale
    WaitEnds
