------------------------------ MODULE Payouts ------------------------------
(***************************************************************************)
(* The arithmetic of dividing a block reward, as operators:                *)
(* DistributeBlockRewardPPLNS (cmd/master/master.go) takes the fee off the *)
(* reward first, calculateDistributions (cmd/master/updater.go) takes it   *)
(* off each miner's part.  Amounts are uint64 and the code multiplies them *)
(* as float64 and truncates; here the products are exact and truncated,    *)
(* which is what float64 gives while they stay below 2^53.                 *)
(***************************************************************************)
EXTENDS Integers, Functions

\* Difficulty of all shares that count.
TotalWeight(weight) == SumFunction(weight)

-----------------------------------------------------------------------------
(* DistributeBlockRewardPPLNS.                                             *)

FeeAmount(reward, feePercent) == (reward * feePercent) \div 100

NetReward(reward, feePercent) == reward - FeeAmount(reward, feePercent)

\* minerReward := uint64(float64(netReward) * percentage)
MinerReward(reward, feePercent, weight, m) ==
    (NetReward(reward, feePercent) * weight[m]) \div TotalWeight(weight)
=============================================================================
