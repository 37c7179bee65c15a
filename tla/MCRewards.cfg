SPECIFICATION FairSpec
CONSTANTS
    Heights = {1, 2}
    Miners = {"m1", "m2"}
    Weight <- MCWeight
    Reward <- MCReward
    FeePercent = 20
    FullSchema = TRUE
    Finds = {1, 2}
    Updates = {1, 2}
    MaxPerHeight = 1
    MaxActive = 2
    MaxFaults = 1
INVARIANTS
    TypeOK
    SavedHeightIsProcessed
    NoOverpayment
PROPERTIES
    FoundBlockIsCompleted
    TransferIsProcessed
CHECK_DEADLOCK FALSE
