SPECIFICATION FairSpec
CONSTANTS
    Shares = {1, 2}
    Honest = {1}
    Workers = {w1, w2}
    PoolSize = 2
    MaxFaults = 1
INVARIANTS
    TypeOK
    OneVerifierPerShare
    VerdictIsRight
    ExhaustedMeansAllTried
PROPERTY QueueIsDrained
