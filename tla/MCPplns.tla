------------------------------ MODULE MCPplns ------------------------------
(***************************************************************************)
(* Instances of Pplns: two callers, each a found block or a request to the *)
(* API, two shares of difficulty 2 and 1, and a network whose difficulty   *)
(* goes from 1 to 3.                                                       *)
(***************************************************************************)
EXTENDS Pplns, TLC

Symmetry == Permutations(Callers)
MCShareDiffs == <<2, 1>>
MCDifficulty == <<1, 3>>
=============================================================================
