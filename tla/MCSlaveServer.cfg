SPECIFICATION FairSpec
CONSTANTS
    Conns = {"c1"}
    Nicehash = {"c1"}
    MaxNonce = 2
    MaxHeight = 2
    MaxJobs = 1
    MaxBans = 1
INVARIANTS
    TypeOK
    EndedHoldsNoLock
    InfoHolderOwnsConn
PROPERTIES
    NewBlockReachesListedMiners
    EveryRequestAnswered
CHECK_DEADLOCK FALSE
