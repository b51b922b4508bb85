------------------------------ MODULE MCShmMpsc ------------------------------
(* Small instances of ShmMpsc for TLC.                                     *)
EXTENDS ShmMpsc

CONSTANTS p1, p2

TwoProducers == {p1, p2}
OnlyP1 == {p1}

(* The last event of p2 does not fit into a slot.                          *)
LastOfP2 == {<<p2, Count - 1>>}
=============================================================================
