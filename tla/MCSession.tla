------------------------------ MODULE MCSession ------------------------------
(* Small instances of Session for TLC.                                     *)
EXTENDS Session

CONSTANTS c1, c2, c3

ThreeClients == {c1, c2, c3}
FirstTwo == {c1, c2}
=============================================================================
