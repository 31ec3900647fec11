SPECIFICATION FairTaskSpec
CONSTANTS
    Owner = owner
    Clients = {c1}
    TaskThreads = {k1, k2}
    Threads = {owner, c1, k1, k2}
    OS_SHUTDOWN = OS_SHUTDOWN
    Messages = {work, OS_SHUTDOWN}
    NULL = NULL
    mMaxMsgs = 1
    MaxPosts = 1
INVARIANTS
    TypeOK
    Accounting
    NoneOverslept
    GoneBeforeDestroyed
PROPERTIES
    ShutdownEnds
    
\* A task that has ended is at rest.
CHECK_DEADLOCK FALSE
