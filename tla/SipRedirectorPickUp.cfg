SPECIFICATION FairSpec
CONSTANTS
    i1 = i1
    i2 = i2
    a1 = a1
    NULL = NULL
    Requests = {i1, i2, a1}
    Acks = {a1}
    Session <- OneSession
    mRedirectorCount = 2
    Active = {1, 2}
    authorityLevel <- Authority
    Storage <- StoredValues
    PickUps = {1, 2}
    Codes <- Dialed
    Durations = {0, 1}
    MaxArrivals = 3
    MayThrow = {2}
INVARIANTS
    TypeOK
    Awaited
    LongestDialog
PROPERTIES
    
    Answers
    
\* A server that is shut down, or has nothing to do, is at rest.
CHECK_DEADLOCK FALSE
