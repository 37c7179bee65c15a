---------------------------- MODULE MCWithdraw ----------------------------
(* Instances of Withdraw: a recipient with two rows, one of them below the *)
(* threshold on its own, and a recipient with a single row.                *)
EXTENDS Withdraw, TLC

MCOwner == (1 :> "a") @@ (2 :> "a") @@ (3 :> "b")
MCAmount == (1 :> 1) @@ (2 :> 2) @@ (3 :> 3)
=============================================================================
