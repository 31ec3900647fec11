SPECIFICATION PickSpec
CONSTANTS
    i1 = i1
    i2 = i2
    a1 = a1
    NULL = NULL
    Requests = {i1}
    Acks = {}
    Session <- OneSession
    mRedirectorCount = 2
    Active = {1, 2}
    authorityLevel <- Authority
    Storage <- StoredValues
    PickUps = {1, 2}
    Codes <- Dialed
    Durations = {0}
    MaxArrivals = 3
    MayThrow = {}
INVARIANT
    NoDeadlock
\* The server stops at the end, and NoDeadlock names the one way in which it may not.
CHECK_DEADLOCK FALSE
