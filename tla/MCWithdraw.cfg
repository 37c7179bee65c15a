SPECIFICATION FairSpec
CONSTANTS
    Payments = {1, 2, 3}
    Recipients = {"a", "b"}
    Owner <- MCOwner
    Amount <- MCAmount
    MinWithdrawal = 2
    WithdrawalFee = 2
    Word = 16
    HasUpdatedAt = TRUE
    Runs = {"r1", "r2"}
    MaxRequests = 10
    MaxRejects = 1
    MaxSlips = 1
INVARIANT TypeOK
PROPERTIES
    PayOnceSpec
    BacklogIsPaid
