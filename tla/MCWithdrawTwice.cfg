SPECIFICATION Spec
CONSTANTS
    Payments = {1, 2, 3}
    Recipients = {"a", "b"}
    Owner <- MCOwner
    Amount <- MCAmount
    MinWithdrawal = 2
    WithdrawalFee = 2
    Word = 16
    HasUpdatedAt = TRUE
    Runs = {"r1"}
    MaxRequests = 5
    MaxRejects = 0
    MaxSlips = 0
INVARIANT PaidAtMostOnce
