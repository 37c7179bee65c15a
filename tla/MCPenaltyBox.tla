--------------------------- MODULE MCPenaltyBox ---------------------------
(* Instances of PenaltyBox: two miners behind one address and a third one  *)
(* elsewhere.                                                              *)
EXTENDS PenaltyBox, TLC

CONSTANTS c1, c2, c3, ipA, ipB

MCIpOf == (c1 :> ipA) @@ (c2 :> ipA) @@ (c3 :> ipB)
=============================================================================
