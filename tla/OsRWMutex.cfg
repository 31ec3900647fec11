SPECIFICATION FairSpec
CONSTANTS
    Threads = {t1, t2, t3, t4, t5}
    t1 = t1
    t2 = t2
    t3 = t3
    t4 = t4
    t5 = t5
    SEMAPHORE_CNT_MAX = 5
INVARIANTS
    TypeOK
    MutualExclusion
    TicketAccounting
    AssertsHold
    TryTicketIsThere
PROPERTIES
    WriterPriority
    SomeWriterRuns
\* A failed assert, which two writers in tryAcquireWrite can bring about, ends the process.
CHECK_DEADLOCK FALSE
