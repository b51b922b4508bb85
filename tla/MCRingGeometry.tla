---------------------------- MODULE MCRingGeometry ----------------------------
(* Instances of RingGeometry for TLC with narrow integers: u32 is 7 bits   *)
(* wide and usize 14.                                                      *)
EXTENDS RingGeometry, Bitwise

Narrow == 128
Wide == 16384

(* Around the smallest slot size, and up to the largest numbers that fit   *)
(* into u32.                                                               *)
SmallConfigs == [num_slots : {0, 1, 2, 3, 4, 64}, slot_size : {16, 20, 21, 22, 40, 127}]

(* A slot size that does not fit into u32.                                 *)
LargeConfigs == [num_slots : {2, 4}, slot_size : {136, 152}]

(* Where the laps of the rings begin and end.                              *)
SomePositions == (0 .. 4) \cup (62 .. 66) \cup (126 .. 128)

SomeLengths == (0 .. 8) \cup (104 .. 112)

(* slot_ptr's idx & mask() is the remainder that SlotIndex takes.          *)
ASSUME MaskIsRemainder ==
  \A c \in SmallConfigs, idx \in SomePositions :
    Check(c) => SlotIndex(c, idx) = (idx & (c.num_slots - 1))
=============================================================================
