-------------------------- MODULE RingGeometryProofs --------------------------
(***************************************************************************)
(* Every configuration that check() accepts and whose numbers fit into the *)
(* answer to attach: no push leaves its slot.                              *)
(***************************************************************************)
EXTENDS RingGeometry, TLAPS

(* What the code does not test: the width of the numbers.                  *)
Representable(c) == c.num_slots < U32 /\ c.slot_size < U32

Usable(c) == c \in Config /\ Check(c) /\ Representable(c)

-----------------------------------------------------------------------------
(* The numbers below m survive the conversion to them, and no others.      *)
LEMMA SmallRemainder ==
  ASSUME NEW n \in Nat, NEW m \in Nat \ {0}
  PROVE  n % m = n <=> n < m
<1>1. n % m \in 0 .. m - 1
  OBVIOUS
<1>2. n < m => n % m = n
  OBVIOUS
<1> QED
  BY <1>1, <1>2

(* A slot's place in the ring.                                             *)
LEMMA SlotIndexRange ==
  ASSUME NEW c \in Config, Check(c), NEW idx \in Nat
  PROVE  SlotIndex(c, idx) \in 0 .. c.num_slots - 1
<1>1. c.num_slots \in Nat /\ c.num_slots > 0
  BY DEF Config, Check, IsPowerOfTwo
<1>2. idx % c.num_slots \in 0 .. c.num_slots - 1
  BY <1>1
<1> QED
  BY <1>1, <1>2 DEF SlotIndex

(* slot_ptr: the slots of a ring do not overlap, and the last one ends     *)
(* with the segment.                                                       *)
THEOREM SlotsDisjoint ==
  ASSUME NEW c \in Config, Check(c), NEW i \in Nat, NEW j \in Nat
  PROVE  /\ SlotIndex(c, i) < SlotIndex(c, j)
              => SlotOffset(c, i) + c.slot_size <= SlotOffset(c, j)
         /\ HDR <= SlotOffset(c, i)
         /\ SlotOffset(c, i) + c.slot_size <= HDR + c.slot_size * c.num_slots
<1> DEFINE a == SlotIndex(c, i)
           b == SlotIndex(c, j)
           n == c.num_slots
           s == c.slot_size
<1>1. n \in Nat /\ s \in Nat
  BY DEF Config
<1>2. a \in 0 .. n - 1 /\ b \in 0 .. n - 1
  BY SlotIndexRange
<1>3. SlotOffset(c, i) = HDR + a * s /\ SlotOffset(c, j) = HDR + b * s
  BY DEF SlotOffset
<1>4. HDR \in Nat
  BY DEF HDR
<1> HIDE DEF a, b, n, s
<1>5. a \in Nat /\ b \in Nat /\ a + 1 <= n
  BY <1>1, <1>2
<1>6. \A x, y \in Nat : x <= y => x * s <= y * s
  BY <1>1
<1>7. (a + 1) * s = a * s + s /\ n * s = s * n /\ a * s \in Nat /\ b * s \in Nat
  BY <1>1, <1>5
<1>8. a < b => a * s + s <= b * s
  BY <1>5, <1>6, <1>7
<1>9. a * s + s <= s * n
  BY <1>1, <1>5, <1>6, <1>7
<1>10. s * n \in Nat
  BY <1>1
<1>11. a < b => (HDR + a * s) + s <= HDR + b * s
  BY <1>1, <1>4, <1>7, <1>8
<1>12. HDR <= HDR + a * s /\ (HDR + a * s) + s <= HDR + s * n
  BY <1>1, <1>4, <1>7, <1>9, <1>10
<1> QED
  BY <1>3, <1>11, <1>12 DEF a, b, n, s

(* RingConfig::total: with numbers that fit into u32 it does not wrap, and *)
(* has room for the last slot of the largest ring.                         *)
LEMMA TotalDoesNotWrap ==
  ASSUME NEW c \in Config, Representable(c)
  PROVE  /\ HDR + c.slot_size * c.num_slots < USIZE
         /\ Total(c) = HDR + c.slot_size * c.num_slots
<1> DEFINE n == c.num_slots
           s == c.slot_size
           m == U32 - 1
<1>1. n \in Nat /\ s \in Nat /\ m \in Nat /\ n <= m /\ s <= m /\ U32 = m + 1 /\ m >= 127
  BY GeometryAssumption DEF Config, Representable
<1>2. USIZE \in Nat /\ USIZE >= U32 * U32
  BY GeometryAssumption
<1> HIDE DEF n, s, m
<1>3. s * n \in Nat /\ s * n <= m * m
  <2>1. s * n <= m * n /\ m * n <= m * m
    BY <1>1
  <2>2. s * n \in Nat /\ m * n \in Nat /\ m * m \in Nat
    BY <1>1
  <2> QED
    BY <2>1, <2>2
<1>4. U32 * U32 = m * m + 2 * m + 1
  BY <1>1
<1>5. 192 + s * n < U32 * U32
  <2>1. m * m \in Nat
    BY <1>1
  <2> QED
    BY <1>1, <1>3, <1>4, <2>1
<1>6. 192 + s * n \in Nat /\ 192 + s * n < USIZE
  <2>1. U32 * U32 \in Nat
    BY GeometryAssumption
  <2> QED
    BY <1>2, <1>3, <1>5, <2>1
<1>7. USIZE \in Nat \ {0}
  BY <1>6, <1>2
<1> QED
  BY <1>6, <1>7, SmallRemainder DEF Total, HDR, n, s

-----------------------------------------------------------------------------
(* A producer works with the server's own geometry.                        *)
GeometryInv ==
  /\ Usable(server)
  /\ client # None => client = server
  /\ StaysInSlot

(* The answer to attach is the server's configuration if and only if its   *)
(* numbers fit into u32.                                                   *)
LEMMA AttachExact ==
  ASSUME NEW c \in Config
  PROVE  AttachInfo(c) = c <=> c.num_slots < U32 /\ c.slot_size < U32
<1>1. c.num_slots \in Nat /\ c.slot_size \in Nat /\ U32 \in Nat \ {0}
  BY GeometryAssumption DEF Config
<1>2. AttachInfo(c) = c <=> c.num_slots % U32 = c.num_slots /\ c.slot_size % U32 = c.slot_size
  BY DEF AttachInfo, Config
<1> QED
  BY <1>1, <1>2, SmallRemainder

(* One push, whoever makes it, at any position and with any length that    *)
(* passes the test for TooBig, stays in the slot of that position.         *)
LEMMA PushStays ==
  ASSUME GeometryInv, NEW pos \in Positions, NEW len \in Lengths, Push(pos, len)
  PROVE  GeometryInv'
<1>1. /\ server' = server /\ client' = client /\ client = server
      /\ Fits(server, len)
      /\ access' = [pos |-> pos, from |-> SlotOffset(server, pos),
                    to |-> SlotOffset(server, pos) + SLOT_HDR + len]
  BY DEF Push, GeometryInv
<1>2. server \in Config /\ Check(server) /\ pos \in Nat /\ len \in Nat
  BY GeometryAssumption DEF GeometryInv, Usable
<1>3. server.slot_size \in Nat /\ server.num_slots \in Nat /\ server.num_slots > 0
  BY <1>2 DEF Config, Check, IsPowerOfTwo
<1>4. server.slot_size > 20
  BY <1>2, <1>3 DEF Check, SLOT_HDR
<1>5. /\ server.slot_size * server.num_slots \in Nat
      /\ server.slot_size <= server.slot_size * server.num_slots
  BY <1>3
<1>6. 192 + server.slot_size * server.num_slots < USIZE
  BY <1>2, TotalDoesNotWrap DEF GeometryInv, Usable, HDR
<1>7. Total(server) = 192 + server.slot_size * server.num_slots
  BY <1>2, TotalDoesNotWrap DEF GeometryInv, Usable, HDR
<1>8. SLOT_HDR + len <= server.slot_size
  <2>1. server.slot_size - 16 \in Nat /\ server.slot_size - 16 < USIZE
    BY <1>3, <1>4, <1>5, <1>6, GeometryAssumption
  <2>2. PayloadCapacity(server) = server.slot_size - 16
    BY <2>1, SmallRemainder, GeometryAssumption DEF PayloadCapacity, SLOT_HDR
  <2>3. PayloadCapacity(server) - 4 \in Nat /\ PayloadCapacity(server) - 4 < USIZE
    BY <1>3, <1>4, <2>1, <2>2, GeometryAssumption
  <2>4. (PayloadCapacity(server) - 4) % USIZE = server.slot_size - 20
    BY <1>3, <2>2, <2>3, SmallRemainder, GeometryAssumption
  <2>5. len <= server.slot_size - 20
    BY <1>1, <2>4 DEF Fits
  <2> QED
    BY <1>2, <1>3, <2>5 DEF SLOT_HDR
<1>9. SlotOffset(server, pos) \in Nat
  BY <1>2, <1>3, SlotIndexRange DEF SlotOffset, HDR
<1>10. SlotOffset(server, pos) + server.slot_size <= Total(server)
  BY <1>2, <1>7, SlotsDisjoint DEF HDR
<1>11. StaysInSlot'
  <2>1. SlotOffset(server, pos) + SLOT_HDR + len <= SlotOffset(server, pos) + server.slot_size
    BY <1>2, <1>3, <1>8, <1>9 DEF SLOT_HDR
  <2>2. Total(server) \in Nat
    BY <1>5, <1>7
  <2>3. SlotOffset(server, pos) + SLOT_HDR + len <= Total(server)
    BY <1>2, <1>3, <1>9, <1>10, <2>1, <2>2 DEF SLOT_HDR
  <2> QED
    BY <1>1, <2>1, <2>3 DEF StaysInSlot, FileSize, SlotOffset, SlotIndex, Total
<1> QED
  BY <1>1, <1>11 DEF GeometryInv, Usable, Check, Representable

(* Attach and push keep it.                                                *)
LEMMA GeometryInvariant ==
  ASSUME \A c \in Configs : Representable(c)
  PROVE  Spec => []GeometryInv
<1>1. Init => GeometryInv
  BY GeometryAssumption DEF Init, GeometryInv, Usable, StaysInSlot
<1>2. GeometryInv /\ [Next]_vars => GeometryInv'
  <2> SUFFICES ASSUME GeometryInv, [Next]_vars
               PROVE  GeometryInv'
    OBVIOUS
  <2>1. CASE Attach
    <3>1. AttachInfo(server) = server
      BY AttachExact DEF GeometryInv, Usable, Representable
    <3> QED
      BY <2>1, <3>1 DEF Attach, GeometryInv, StaysInSlot, Usable, Check, Representable,
        SlotOffset, SlotIndex, FileSize, Total
  <2>2. CASE \E pos \in Positions, len \in Lengths : Push(pos, len)
    BY <2>2, PushStays
  <2>3. CASE UNCHANGED vars
    BY <2>3 DEF vars, GeometryInv, StaysInSlot, Usable, Check, Representable,
      SlotOffset, SlotIndex, FileSize, Total
  <2> QED
    BY <2>1, <2>2, <2>3 DEF Next
<1> QED
  BY <1>1, <1>2, PTL DEF Spec

(* No push writes outside of the slot of its position, provided that the   *)
(* numbers of the configurations fit into u32; that the segment is large   *)
(* enough then follows.  geometry_wide shows what happens without.         *)
THEOREM PushesStayInSlot ==
  ASSUME \A c \in Configs : Representable(c)
  PROVE  Spec => []StaysInSlot
<1>1. GeometryInv => StaysInSlot
  BY DEF GeometryInv
<1> QED
  BY <1>1, GeometryInvariant, PTL
=============================================================================
