----------------------------- MODULE RingGeometry -----------------------------
(***************************************************************************)
(* Where things are in the segment: RingConfig and slot_ptr                *)
(* (src/src/ring.rs), and how the geometry reaches a producer, which       *)
(* learns it from the answer to attach (src/src/proto/control/*.rs) and    *)
(* nowhere else.                                                           *)
(*                                                                         *)
(* The server's numbers are usize, those of the answer are u32; the        *)
(* arithmetic of a release build wraps.                                    *)
(*                                                                         *)
(* A definition marked "Wrong" is a mistake the code could have made.  No  *)
(* action uses it; put in the place of the definition that follows it, it  *)
(* must break a property.                                                  *)
(***************************************************************************)
EXTENDS Integers

CONSTANTS
  U32, USIZE,    \* how many values the two types have
  Configs,       \* the configurations the server may be started with
  Positions,     \* the positions push may win
  Lengths,       \* the lengths of the data it may be given
  None           \* no geometry yet, no access yet

HDR == 192
SLOT_HDR == 16

IsPowerOfTwo(n) == n > 0 /\ \E k \in 0 .. n : n = 2 ^ k

Config == [num_slots : Nat, slot_size : Nat]

(* usize has at least twice the width of u32, as on every 64-bit machine.  *)
ASSUME GeometryAssumption ==
  /\ U32 \in Nat /\ U32 >= 128
  /\ USIZE \in Nat /\ USIZE >= U32 * U32
  /\ Configs \subseteq Config
  /\ Positions \subseteq Nat /\ Lengths \subseteq Nat
  /\ None \notin Config

(* RingConfig::check, which init calls.                                    *)
Check(c) == IsPowerOfTwo(c.num_slots) /\ c.slot_size > SLOT_HDR + 4

Total(c) == (HDR + c.slot_size * c.num_slots) % USIZE

(* Wrong: the slot's header is forgotten.                                  *)
WholeSlot(c) == c.slot_size
PayloadCapacity(c) == (c.slot_size - SLOT_HDR) % USIZE

(* push's test for TooBig.                                                 *)
Fits(c, len) == len <= (PayloadCapacity(c) - 4) % USIZE

(* idx & mask(): for a power of two the remainder, and for no slots at all *)
(* a mask of ones.                                                         *)
SlotIndex(c, idx) == IF c.num_slots = 0 THEN idx ELSE idx % c.num_slots

(* slot_ptr.                                                               *)
SlotOffset(c, idx) == HDR + SlotIndex(c, idx) * c.slot_size

(* The answer to attach, as a RingConfig again.                            *)
AttachInfo(c) == [num_slots |-> c.num_slots % U32, slot_size |-> c.slot_size % U32]

VARIABLES
  server,      \* the configuration init was called with
  client,      \* the one a producer works with
  access       \* the bytes the last push wrote: [pos, from, to)

vars == <<server, client, access>>

(* create_memfd gives the file the size of the ring, and a producer, which *)
(* does not know the geometry yet, maps as much as fstat says.             *)
FileSize == Total(server)

Init ==
  /\ server \in {c \in Configs : Check(c)}
  /\ client = None
  /\ access = None

Attach ==
  /\ client = None
  /\ client' = AttachInfo(server)
  /\ UNCHANGED <<server, access>>

Push(pos, len) ==
  /\ client # None /\ Fits(client, len)
  /\ access' = [pos  |-> pos,
                from |-> SlotOffset(client, pos),
                to   |-> SlotOffset(client, pos) + SLOT_HDR + len]
  /\ UNCHANGED <<server, client>>

Next == Attach \/ \E pos \in Positions, len \in Lengths : Push(pos, len)

Spec == Init /\ [][Next]_vars

-----------------------------------------------------------------------------
(* A push that wins a position writes to the slot that the server and      *)
(* every other producer mean by it, and not a byte outside of that slot or *)
(* of the segment, whatever the configuration and however long the data:   *)
(* nothing on the way from the geometry to the address wraps.              *)
StaysInSlot ==
  access # None =>
    /\ access.from = SlotOffset(server, access.pos)
    /\ access.to <= SlotOffset(server, access.pos) + server.slot_size
    /\ access.to <= FileSize

(* ring.rs, on RingConfig: "known both to the server and to the producer   *)
(* (after attach)".                                                        *)
GeometryShared == client # None => client = server
=============================================================================
