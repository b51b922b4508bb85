------------------------------- MODULE MCCodecs -------------------------------
(* Small instances of Codecs for TLC: u64 has three bits.                  *)
EXTENDS Codecs

(* The default, the largest signed number and the smallest.                *)
SomeWords == {0, 3, 4}

(* No text, one that JSON writes as it is, and one it has to escape.       *)
SomeNames == {<<>>, <<"p">>, <<"quote">>}

SomeBlobs == {<<>>, <<"A">>}
=============================================================================
