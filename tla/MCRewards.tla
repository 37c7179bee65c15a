----------------------------- MODULE MCRewards -----------------------------
(* Instances of Rewards: two miners with unequal weights, whose parts of a *)
(* reward do not come out even, or the first of them alone.                *)
EXTENDS Rewards, TLC

MCWeight == [m \in Miners |-> IF m = "m1" THEN 3 ELSE 1]
MCReward == [h \in Heights |-> <<11, 2>>[h]]
=============================================================================
