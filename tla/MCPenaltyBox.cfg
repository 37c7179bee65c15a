SPECIFICATION PenaltySpec
CONSTANTS
    c1 = c1
    c2 = c2
    c3 = c3
    ipA = ipA
    ipB = ipB
    ConnIds = {c1, c2, c3}
    IPs = {ipA, ipB}
    IpOf <- MCIpOf
    WindowSpan = 2
    BanDuration = 2
    TimingSize = 2
    MaxRate = 1
    RatioNum = 1
    RatioDen = 2
    RateSamples = 2
    RatioSamples = 2
    CleanupAge = 1
    MaxTime = 4
    MaxShares = 3
INVARIANTS
    PenaltyTypeOK
    BannedIpHasNoWindow
    ClosedConnUntracked
PROPERTY BanServedInFull
