------------------------- MODULE MpscRingRefinement -------------------------
(***************************************************************************)
(* The ring implements the bounded queue of MpscQueue: the three steps     *)
(* that a caller can tell apart are the compare_exchange on tail and the   *)
(* two Release stores to seq; every other step is invisible.               *)
(***************************************************************************)
EXTENDS MpscRingProofs

(* What a step that leaves these alone leaves of the queue.                *)
LEMMA Invisible ==
  ASSUME UNCHANGED <<tail, seq, log, delivered>>
  PROVE  UNCHANGED <<log, Ready, delivered>>
  BY DEF Ready, Freed

(* The compare_exchange on tail that succeeds is the queue's Reserve.      *)
LEMMA CasOkReserves ==
  ASSUME NumSlots >= 2, RingInv, NEW p \in Producers, CasOk(p)
  PROVE  Queue!Reserve(MessageOf(p)) /\ MessageOf(p) \in Messages
<1>1. /\ Freed \in Nat /\ tail \in Nat /\ Freed <= tail /\ tail = Len(log)
      /\ tail < Freed + NumSlots /\ seq[Slot(tail)] = tail
  BY WindowTypes, CasOkFindsRoom DEF RingInv
<1>2. /\ tail' = tail + 1 /\ seq' = seq /\ delivered' = delivered
      /\ log' = Append(log, MessageOf(p)) /\ pc[p] = "cas"
  BY DEF CasOk, TailUnmoved
<1>3. MessageOf(p) \in Messages
  BY <1>2, MessageOfType DEF RingInv
<1>4. Ready' = Ready
  <2>1. /\ Ready = {q \in 0 .. tail - 1 : q < Freed \/ seq[Slot(q)] = q + 1}
        /\ Ready' = {q \in 0 .. tail : q < Freed \/ seq[Slot(q)] = q + 1}
    BY <1>1, <1>2 DEF Ready, Freed
  <2>2. ~(tail < Freed \/ seq[Slot(tail)] = tail + 1)
    BY <1>1
  <2>3. \A q \in 0 .. tail : q \in 0 .. tail - 1 \/ q = tail
    BY <1>1
  <2>4. 0 .. tail - 1 \subseteq 0 .. tail
    BY <1>1
  <2> QED
    BY <2>1, <2>2, <2>3, <2>4
<1>5. Len(log) - Len(delivered) < NumSlots
  BY <1>1, SlotCount DEF Freed
<1> QED
  BY <1>2, <1>3, <1>4, <1>5 DEF Queue!Reserve

(* push's Release store to seq is the queue's MakeReady.                   *)
LEMMA PublishMakesReady ==
  ASSUME RingInv, NEW p \in Producers, Publish(p)
  PROVE  Queue!MakeReady(pos[p]) /\ pos[p] \in 0 .. Len(log) - 1
<1> DEFINE P == pos[p]
<1>0. TypeOK /\ WindowInv /\ ProducerInv
  BY DEF RingInv
<1>1. /\ UNCHANGED <<tail, log, delivered>>
      /\ pc[p] \in Writing
      /\ seq' = [seq EXCEPT ![Slot(P)] = P + 1]
  BY DEF Publish, Writing
<1>2. /\ Freed \in Nat /\ tail \in Nat /\ tail = Len(log) /\ tail <= Freed + NumSlots
      /\ P \in Nat /\ P \in Freed .. tail - 1
      /\ \A q \in Nat : Slot(q) \in Slots /\ seq[Slot(q)] \in Nat
      /\ \A q \in Freed .. Freed + NumSlots - 1 : q # P => Slot(q) # Slot(P)
      /\ seq[Slot(P)] = P
  BY <1>0, <1>1, OwnersApart, WindowTypes DEF ProducerInv
<1> HIDE DEF P
<1>3. /\ seq'[Slot(P)] = P + 1
      /\ \A i \in Slots : i # Slot(P) => seq'[i] = seq[i]
  BY <1>0, <1>1, <1>2 DEF TypeOK
<1>4. /\ Ready = {q \in 0 .. tail - 1 : q < Freed \/ seq[Slot(q)] = q + 1}
      /\ Ready' = {q \in 0 .. tail - 1 : q < Freed \/ seq'[Slot(q)] = q + 1}
  BY <1>1 DEF Ready, Freed
<1>5. P \in 0 .. tail - 1 /\ ~(P < Freed) /\ seq[Slot(P)] # P + 1
  BY <1>2
<1>6. ASSUME NEW q \in 0 .. tail - 1, q # P
      PROVE  (q < Freed \/ seq'[Slot(q)] = q + 1) <=> (q < Freed \/ seq[Slot(q)] = q + 1)
  <2>1. CASE q < Freed
    BY <2>1
  <2>2. CASE ~(q < Freed)
    <3>1. q \in Nat /\ q \in Freed .. Freed + NumSlots - 1
      BY <1>2, <2>2, SlotCount
    <3> QED
      BY <1>2, <1>3, <1>6, <3>1
  <2> QED
    BY <2>1, <2>2
<1>7. Ready' = Ready \cup {P} /\ P \notin Ready
  BY <1>3, <1>4, <1>5, <1>6
<1> QED
  BY <1>1, <1>2, <1>5, <1>7 DEF Queue!MakeReady, P

(* try_pop's Release store to seq is the queue's Deliver.                  *)
LEMMA FreeDelivers ==
  ASSUME RingInv, Free
  PROVE  Queue!Deliver
<1> DEFINE F == Freed
<1>0. TypeOK /\ WindowInv /\ ConsumerInv
  BY DEF RingInv
<1>1. /\ UNCHANGED <<tail, log>>
      /\ cpc = "free"
      /\ seq' = [seq EXCEPT ![Slot(head)] = FreedSeq]
      /\ delivered' = Append(delivered, Received)
  BY DEF Free
<1>2. /\ F \in Nat /\ tail \in Nat /\ tail = Len(log) /\ tail <= F + NumSlots
      /\ head = F /\ F < tail /\ seq[Slot(F)] = F + 1
      /\ \A q \in Nat : Slot(q) \in Slots
  BY <1>0, <1>1, WindowTypes DEF ConsumerInv, Reading
<1>3. Received = log[F + 1]
  BY <1>0, <1>1, <1>2 DEF ConsumerInv, Received
<1>4. F' = F + 1 /\ F = Len(delivered)
  BY <1>0, <1>1 DEF Freed, TypeOK
<1>5. \A i \in Slots : i # Slot(F) => seq'[i] = seq[i]
  BY <1>0, <1>1, <1>2 DEF TypeOK
<1>6. /\ Ready = {q \in 0 .. tail - 1 : q < F \/ seq[Slot(q)] = q + 1}
      /\ Ready' = {q \in 0 .. tail - 1 : q < F + 1 \/ seq'[Slot(q)] = q + 1}
  BY <1>1, <1>4 DEF Ready
<1> HIDE DEF F
<1>7. ASSUME NEW q \in 0 .. tail - 1
      PROVE  (q < F + 1 \/ seq'[Slot(q)] = q + 1) <=> (q < F \/ seq[Slot(q)] = q + 1)
  <2>1. CASE q < F
    BY <1>2, <2>1
  <2>2. CASE q = F
    BY <1>2, <2>2
  <2>3. CASE q > F
    <3>1. /\ q \in Nat /\ F \in F .. F + NumSlots - 1
          /\ q \in F .. F + NumSlots - 1 /\ q # F
      BY <1>2, <2>3, SlotCount
    <3>2. Slot(q) # Slot(F) /\ Slot(q) \in Slots
      BY <1>2, <3>1, WindowApart
    <3>3. seq'[Slot(q)] = seq[Slot(q)] /\ ~(q < F + 1) /\ ~(q < F)
      BY <1>2, <1>5, <2>3, <3>1, <3>2
    <3> QED
      BY <3>3
  <2> QED
    BY <1>2, <2>1, <2>2, <2>3
<1>8. Ready' = Ready
  BY <1>6, <1>7
<1>9. F \in Ready
  BY <1>2, <1>6
<1> QED
  BY <1>1, <1>3, <1>4, <1>8, <1>9 DEF Queue!Deliver

(* A step of the ring is a step of the queue or changes nothing of it.     *)
LEMMA StepRefines ==
  ASSUME NumSlots >= 2, RingInv, [Next]_vars
  PROVE  [Queue!Next]_<<log, Ready, delivered>>
<1>1. CASE \E p \in Producers : CasOk(p)
  BY <1>1, CasOkReserves DEF Queue!Next
<1>2. CASE \E p \in Producers : Publish(p)
  BY <1>2, PublishMakesReady DEF Queue!Next
<1>3. CASE Free
  BY <1>3, FreeDelivers DEF Queue!Next
<1>4. ASSUME ~Free, \A p \in Producers : ~CasOk(p) /\ ~Publish(p)
      PROVE  UNCHANGED <<log, Ready, delivered>>
  <2>1. UNCHANGED <<tail, seq, log, delivered>>
    BY <1>4 DEF Next, Push, TryPop, TooBig, LoadTail, PushSlotFree, PushFull, PushStale,
      CasFail, WriteLen, WriteData, Crash, PopNone, PopStart, ReadLen, ReadData, Advance,
      shared, vars
  <2> QED
    BY <2>1, Invisible
<1> QED
  BY <1>1, <1>2, <1>3, <1>4

(* Every behaviour of a ring of two slots or more is one of the queue.     *)
THEOREM RingImplementsQueue ==
  ASSUME NumSlots >= 2
  PROVE  Spec => ImplementsQueue
<1>1. Init => Queue!Init
  <2> SUFFICES ASSUME Init PROVE Queue!Init
    OBVIOUS
  <2>1. log = <<>> /\ delivered = <<>> /\ tail = 0
    BY DEF Init
  <2>2. Ready = {}
    BY <2>1 DEF Ready
  <2> QED
    BY <2>1, <2>2 DEF Queue!Init
<1>2. RingInv /\ [Next]_vars => [Queue!Next]_<<log, Ready, delivered>>
  BY StepRefines
<1> QED
  BY <1>1, <1>2, RingInvariant, PTL DEF Spec, ImplementsQueue, Queue!Spec, Queue!vars
=============================================================================
