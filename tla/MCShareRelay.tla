--------------------------- MODULE MCShareRelay ---------------------------
(* Instances of ShareRelay.  Worker names are sequences of symbols, so that *)
(* one of them can contain the separator of the cache keys.                *)
EXTENDS ShareRelay

MCWallets == {"fee", "w1"}
MCKeys == {<<"w1", <<"rig">>>>, <<"w1", <<"rig", ":", "mail">>>>}
=============================================================================
