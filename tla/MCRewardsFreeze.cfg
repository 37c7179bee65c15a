SPECIFICATION FairSpec
CONSTANTS
    Heights = {1, 2}
    Miners = {"m1", "m2"}
    Weight <- MCWeight
    Reward <- MCReward
    FeePercent = 20
    FullSchema = TRUE
    Finds = {1}
    Updates = {1}
    MaxPerHeight = 1
    MaxActive = 2
    MaxFaults = 0
PROPERTY TransactionEnds
CHECK_DEADLOCK FALSE
