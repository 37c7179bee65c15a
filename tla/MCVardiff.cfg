SPECIFICATION Spec
CONSTANTS
    MinDiff = 1
    NetDiffs = {2, 5}
    Requests = {6}
    ShareDiffs = {2, 5}
    ShortMax = 4
    Huge = 6
    MaxSeeds = 1
    MaxTemplates = 2
    MaxEvents = 3
INVARIANTS
    TypeOK
    HonestShareAccepted
    BlockWasVerified
    BlockIsSubmitted
    JobDiffInRange
CHECK_DEADLOCK FALSE
