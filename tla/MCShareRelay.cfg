SPECIFICATION FairSpec
CONSTANTS
    Wallets <- MCWallets
    FeeAddress = "fee"
    Symbols = {"rig", ":", "mail"}
    Keys <- MCKeys
    Diffs = {1}
    Miners = 1
    NullableBlockHeight = TRUE
    MaxAccepted = 2
    MaxDials = 2
    MaxPackets = 1
    MaxFaults = 1
INVARIANTS
    TypeOK
    NoShareInvented
    NothingLostOnFirstLink
PROPERTY AcceptedSharesRecorded
