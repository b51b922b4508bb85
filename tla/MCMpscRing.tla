----------------------------- MODULE MCMpscRing -----------------------------
(* Small instances of MpscRing for TLC.                                    *)
EXTENDS MpscRing

CONSTANTS p1, p2

TwoProducers == {p1, p2}

(* The last event of p1 does not fit into a slot.                          *)
LastOfP1 == {<<p1, Count - 1>>}
=============================================================================
