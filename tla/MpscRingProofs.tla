--------------------------- MODULE MpscRingProofs ---------------------------
(***************************************************************************)
(* The safety of the ring for every number of producers, every ring of at  *)
(* least two slots and every number of events: RingInv is inductive, and   *)
(* the properties of MpscRing follow from it.                              *)
(***************************************************************************)
EXTENDS MpscRing, TLAPS

-----------------------------------------------------------------------------
(* Positions and slots.  These facts are all that the rest of the proof    *)
(* knows of slot_ptr's arithmetic.                                         *)

(* What check() demands of num_slots: at least one slot.                   *)
LEMMA SlotCount == NumSlots \in Nat \ {0}
  BY RingAssumption

(* A position is a whole number of laps plus its slot.                     *)
LEMMA SlotQuotient ==
  \A q \in Nat : /\ Slot(q) \in Slots
                 /\ \E lap \in Nat : q = NumSlots * lap + Slot(q)
<1> TAKE q \in Nat
<1>1. /\ q % NumSlots \in 0 .. NumSlots - 1
      /\ q \div NumSlots \in Nat
      /\ q = NumSlots * (q \div NumSlots) + (q % NumSlots)
  BY SlotCount
<1> QED
  BY <1>1 DEF Slot, Slots

(* Two positions less than a lap apart use different slots.                *)
LEMMA SlotApart ==
  ASSUME NEW a \in Nat, NEW b \in Nat, a < b, b < a + NumSlots
  PROVE  Slot(a) # Slot(b)
<1> SUFFICES ASSUME Slot(a) = Slot(b) PROVE FALSE
  OBVIOUS
<1>1. Slot(a) \in Int /\ Slot(b) \in Int
  BY SlotQuotient, SlotCount DEF Slots
<1>2. PICK i \in Nat : a = NumSlots * i + Slot(a)
  BY SlotQuotient
<1>3. PICK j \in Nat : b = NumSlots * j + Slot(b)
  BY SlotQuotient
<1>4. b - a = NumSlots * (j - i)
  BY <1>1, <1>2, <1>3, SlotCount
<1>5. CASE j - i <= 0
  BY <1>4, <1>5, SlotCount
<1>6. CASE j - i >= 1
  BY <1>4, <1>6, SlotCount
<1> QED
  BY <1>5, <1>6

(* A position and the one a lap later use the same slot.                   *)
LEMMA SlotNextLap == \A q \in Nat : Slot(q + NumSlots) = Slot(q)
<1> TAKE q \in Nat
<1>1. q + NumSlots \in Nat
  BY SlotCount
<1>2. /\ Slot(q) \in Int /\ 0 <= Slot(q) /\ Slot(q) < NumSlots
      /\ Slot(q + NumSlots) \in Int
      /\ 0 <= Slot(q + NumSlots) /\ Slot(q + NumSlots) < NumSlots
  BY <1>1, SlotQuotient, SlotCount DEF Slots
<1>3. PICK i \in Nat : q = NumSlots * i + Slot(q)
  BY SlotQuotient
<1>4. PICK j \in Nat : q + NumSlots = NumSlots * j + Slot(q + NumSlots)
  BY <1>1, SlotQuotient
<1>5. NumSlots + Slot(q) - Slot(q + NumSlots) = NumSlots * (j - i)
  BY <1>2, <1>3, <1>4, SlotCount
<1>6. CASE j - i <= 0
  BY <1>2, <1>5, <1>6, SlotCount
<1>7. CASE j - i >= 2
  BY <1>2, <1>5, <1>7, SlotCount
<1>8. CASE j - i = 1
  BY <1>2, <1>5, <1>8, SlotCount
<1> QED
  BY <1>6, <1>7, <1>8

(* The first lap uses the slots in order.                                  *)
LEMMA SlotFirstLap == \A i \in Slots : Slot(i) = i
  BY SlotCount DEF Slot, Slots

-----------------------------------------------------------------------------
(* A producer that has events left is pushing one of the messages.         *)
LEMMA MessageOfType ==
  ASSUME TypeOK, NEW p \in Producers, pc[p] \in {"load_seq", "cas"} \cup Writing
  PROVE  MessageOf(p) \in Messages
  BY RingAssumption DEF TypeOK, MessageOf, Messages

(* Every step of push, and a crash in the middle of it, keeps the types.   *)
LEMMA PushTypeOK ==
  ASSUME TypeOK, NEW p \in Producers, Push(p) \/ Crash(p)
  PROVE  TypeOK'
<1> USE DEF TypeOK, shared, consumerVars, Writing, Reading
<1> USE RingAssumption
<1>0. pc[p] \in {"load_seq", "cas"} \cup Writing => MessageOf(p) \in Messages
  BY MessageOfType
<1>1. CASE TooBig(p)
  BY <1>1 DEF TooBig
<1>2. CASE LoadTail(p)
  BY <1>2 DEF LoadTail
<1>3. CASE PushSlotFree(p) \/ PushFull(p) \/ PushStale(p)
  BY <1>3 DEF PushSlotFree, PushFull, PushStale
<1>4. CASE CasOk(p)
  BY <1>0, <1>4 DEF CasOk
<1>5. CASE CasFail(p)
  BY <1>5 DEF CasFail
<1>6. CASE WriteLen(p)
  BY <1>0, <1>6, SlotQuotient DEF WriteLen
<1>7. CASE WriteData(p)
  BY <1>0, <1>7, SlotQuotient DEF WriteData
<1>8. CASE Publish(p)
  <2>1. pos[p] + 1 \in Nat /\ sent[p] + 1 \in 0 .. Count
    BY <1>8 DEF Publish
  <2>2. seq' \in [Slots -> Nat]
    BY <1>8, <2>1 DEF Publish
  <2>3. sent' \in [Producers -> 0 .. Count]
    BY <1>8, <2>1 DEF Publish
  <2> QED
    BY <1>8, <2>2, <2>3 DEF Publish
<1>9. CASE Crash(p)
  BY <1>9 DEF Crash
<1> QED
  BY <1>1, <1>2, <1>3, <1>4, <1>5, <1>6, <1>7, <1>8, <1>9 DEF Push

(* Every step of try_pop keeps the types.                                  *)
LEMMA TryPopTypeOK ==
  ASSUME TypeOK, TryPop
  PROVE  TypeOK'
<1> USE DEF TypeOK, shared, producerVars, Writing, Reading
<1>1. CASE PopNone
  BY <1>1 DEF PopNone, vars, consumerVars
<1>2. CASE PopStart
  BY <1>2 DEF PopStart
<1>3. CASE ReadLen
  BY <1>3, SlotQuotient DEF ReadLen
<1>4. CASE ReadData
  BY <1>4, SlotQuotient DEF ReadData
<1>5. CASE Free
  <2>1. FreedSeq \in Nat
    BY SlotCount DEF FreedSeq
  <2>2. Received \in Messages \cup {NoMessage}
    BY DEF Received
  <2>3. seq' \in [Slots -> Nat]
    BY <1>5, <2>1 DEF Free
  <2>4. delivered' \in Seq(Messages \cup {NoMessage})
    BY <1>5, <2>2 DEF Free
  <2> QED
    BY <1>5, <2>3, <2>4 DEF Free
<1>6. CASE Advance
  BY <1>6 DEF Advance
<1> QED
  BY <1>1, <1>2, <1>3, <1>4, <1>5, <1>6 DEF TryPop

(* Type correctness, for every number of slots, one included.              *)
THEOREM TypeCorrect == Spec => []TypeOK
<1>1. Init => TypeOK
  BY SlotCount, RingAssumption DEF Init, TypeOK, InitialSeq, Slots, Writing, Reading
<1>2. TypeOK /\ [Next]_vars => TypeOK'
  <2> SUFFICES ASSUME TypeOK, [Next]_vars
               PROVE  TypeOK'
    OBVIOUS
  <2>1. CASE \E p \in Producers : Push(p) \/ Crash(p)
    BY <2>1, PushTypeOK
  <2>2. CASE TryPop
    BY <2>2, TryPopTypeOK
  <2>3. CASE UNCHANGED vars
    BY <2>3 DEF TypeOK, vars, shared, producerVars, consumerVars
  <2> QED
    BY <2>1, <2>2, <2>3 DEF Next
<1> QED
  BY <1>1, <1>2, PTL DEF Spec

-----------------------------------------------------------------------------
(* Two positions of one window of NumSlots use different slots.            *)
LEMMA WindowApart ==
  ASSUME NEW F \in Nat, NEW a \in F .. F + NumSlots - 1, NEW b \in F .. F + NumSlots - 1,
         a # b
  PROVE  Slot(a) # Slot(b)
<1>1. a \in Nat /\ b \in Nat
  BY SlotCount
<1>2. CASE a < b
  BY <1>1, <1>2, SlotApart, SlotCount
<1>3. CASE b < a
  BY <1>1, <1>3, SlotApart, SlotCount
<1> QED
  BY <1>1, <1>2, <1>3

(* What the window says of the numbers in it.                              *)
LEMMA WindowTypes ==
  ASSUME TypeOK, WindowInv
  PROVE  /\ Freed \in Nat /\ tail \in Nat /\ Len(log) \in Nat
         /\ Freed <= tail /\ tail <= Freed + NumSlots /\ tail = Len(log)
         /\ cpc # "advance" => head = Freed
         /\ cpc = "advance" => head = Freed - 1
         /\ Freed .. tail - 1 \subseteq Freed .. Freed + NumSlots - 1
         /\ \A q \in Nat : Slot(q) \in Slots /\ seq[Slot(q)] \in Nat
<1>1. Len(delivered) \in Nat /\ Len(log) \in Nat /\ tail \in Nat
  BY DEF TypeOK
<1>2. \A q \in Nat : Slot(q) \in Slots /\ seq[Slot(q)] \in Nat
  BY SlotQuotient DEF TypeOK
<1>3. /\ Freed <= tail /\ tail <= Freed + NumSlots /\ tail = Len(log)
      /\ head = IF cpc = "advance" THEN Freed - 1 ELSE Freed
  BY DEF WindowInv
<1>4. Freed .. tail - 1 \subseteq Freed .. Freed + NumSlots - 1
  BY <1>1, <1>3, SlotCount DEF Freed
<1> QED
  BY <1>1, <1>2, <1>3, <1>4 DEF Freed

(* A position of the window that is not published and one that is, or two  *)
(* that are owned by two producers, are in different slots.                *)
LEMMA OwnersApart ==
  ASSUME RingInv, NEW p \in Producers, pc[p] \in Writing
  PROVE  /\ pos[p] \in Nat /\ pos[p] \in Freed .. tail - 1
         /\ \A q \in Freed .. Freed + NumSlots - 1 : q # pos[p] => Slot(q) # Slot(pos[p])
         /\ \A q \in Freed .. tail - 1 : seq[Slot(q)] = q + 1 => q # pos[p]
         /\ \A p2 \in Producers \ {p} :
              pc[p2] \in Writing => Slot(pos[p2]) # Slot(pos[p])
         /\ cpc \in Reading => Slot(head) # Slot(pos[p])
<1> USE DEF RingInv
<1>0. /\ Freed \in Nat /\ tail \in Nat /\ tail <= Freed + NumSlots
      /\ cpc \in Reading => head = Freed
  BY WindowTypes DEF Reading
<1>1. /\ pos[p] \in Nat /\ pos[p] \in Freed .. tail - 1
      /\ seq[Slot(pos[p])] = pos[p]
      /\ \A p2 \in Producers \ {p} : pc[p2] \in Writing => pos[p2] # pos[p]
  <2>1. pos[p] \in Nat
    BY DEF TypeOK
  <2>2. /\ Freed <= pos[p] /\ pos[p] < tail /\ seq[Slot(pos[p])] = pos[p]
        /\ \A p2 \in Producers \ {p} : pc[p2] \in Writing => pos[p2] # pos[p]
    BY DEF ProducerInv
  <2> QED
    BY <1>0, <2>1, <2>2
<1>2. \A q \in Freed .. Freed + NumSlots - 1 : q # pos[p] => Slot(q) # Slot(pos[p])
  BY <1>0, <1>1, WindowApart, SlotCount
<1>3. \A q \in Freed .. tail - 1 : seq[Slot(q)] = q + 1 => q # pos[p]
  BY <1>0, <1>1
<1>4. ASSUME NEW p2 \in Producers \ {p}, pc[p2] \in Writing
      PROVE  Slot(pos[p2]) # Slot(pos[p])
  <2>1. pos[p2] \in Freed .. Freed + NumSlots - 1
    BY <1>0, <1>4, SlotCount DEF TypeOK, ProducerInv
  <2> QED
    BY <1>1, <1>2, <1>4, <2>1
<1>5. ASSUME cpc \in Reading
      PROVE  Slot(head) # Slot(pos[p])
  <2>1. head = Freed /\ Freed < tail /\ seq[Slot(Freed)] = Freed + 1
    BY <1>0, <1>5 DEF ConsumerInv
  <2>2. Freed \in Freed .. Freed + NumSlots - 1 /\ Freed # pos[p]
    BY <1>0, <1>1, <2>1, SlotCount
  <2> QED
    BY <1>2, <2>1, <2>2
<1> QED
  BY <1>1, <1>2, <1>3, <1>4, <1>5

-----------------------------------------------------------------------------
(* The inductive invariant.  One lemma per action of MpscRing that writes  *)
(* to the segment; the steps of push that write nothing share LocalStep.   *)
Trying == {"idle", "load_seq", "cas"}

(* A step of one producer that changes nothing but where it is in push and *)
(* its local pos, and that does not enter the writing part.                *)
LEMMA LocalStep ==
  ASSUME RingInv, TypeOK', NEW p \in Producers,
         UNCHANGED <<shared, sent, consumerVars, log, delivered>>,
         pc'[p] \in Trying \cup {"bailed", "crashed"},
         pc'[p] \in Trying => pc[p] \in Trying,
         pos'[p] <= tail,
         pc'[p] = "cas" => seq[Slot(pos'[p])] >= pos'[p],
         \A p2 \in Producers \ {p} : pc'[p2] = pc[p2] /\ pos'[p2] = pos[p2]
  PROVE  RingInv'
<1> USE DEF RingInv, shared, consumerVars
<1>1. WindowInv' /\ SeqInv' /\ ConsumerInv'
  BY DEF WindowInv, SeqInv, ConsumerInv, Freed
<1>2. ProducerInv'
  <2> SUFFICES ASSUME NEW p2 \in Producers
               PROVE  /\ pos'[p2] <= tail
                      /\ pc'[p2] = "cas" => seq[Slot(pos'[p2])] >= pos'[p2]
                      /\ pc'[p2] \in Writing =>
                           /\ Freed <= pos'[p2] /\ pos'[p2] < tail
                           /\ seq[Slot(pos'[p2])] = pos'[p2]
                           /\ log[pos'[p2] + 1] = MessageOf(p2)
                           /\ \A p3 \in Producers \ {p2} :
                                pc'[p3] \in Writing => pos'[p3] # pos'[p2]
    BY DEF ProducerInv, Freed, MessageOf
  <2>1. pc'[p] \notin Writing
    BY DEF Trying, Writing
  <2>2. CASE p2 = p
    BY <2>1, <2>2
  <2>3. CASE p2 # p
    BY <2>1, <2>3 DEF ProducerInv
  <2> QED
    BY <2>2, <2>3
<1>3. DataInv'
  <2>1. pc'[p] \notin {"write_data", "publish"}
    BY DEF Trying
  <2> QED
    BY <2>1 DEF DataInv, Freed, MessageOf
<1>4. PrefixInv' /\ LogInv'
  <2>1. log' = log /\ delivered' = delivered
    OBVIOUS
  <2>2. PrefixInv'
    BY <2>1, Zenon DEF PrefixInv, Freed
  <2>3. LogInv'
    BY <2>1 DEF LogInv
  <2> QED
    BY <2>2, <2>3
<1>5. EventInv'
  <2>1. \A p2 \in Producers :
          /\ pc'[p2] \in Trying => pc[p2] \in Trying
          /\ pc'[p2] \in Writing => pc[p2] \in Writing
    BY DEF Trying, Writing
  <2>2. ASSUME NEW p2 \in Producers
        PROVE  /\ \A k \in 0 .. sent[p2] - 1 : \E i \in 1 .. Len(log) : log[i] = <<p2, k>>
               /\ pc'[p2] \in Trying =>
                    \A i \in 1 .. Len(log) : log[i][1] = p2 => log[i][2] < sent[p2]
               /\ pc'[p2] \in Writing =>
                    \A i \in 1 .. Len(log) : log[i][1] = p2 => log[i][2] <= sent[p2]
    BY <2>1 DEF EventInv, Trying
  <2> QED
    BY <2>2 DEF EventInv, Trying
<1> QED
  BY <1>1, <1>2, <1>3, <1>4, <1>5

(* The steps of push that do not write to the segment.                     *)
LEMMA TryingInv ==
  ASSUME RingInv, NEW p \in Producers,
         \/ TooBig(p) \/ LoadTail(p) \/ PushSlotFree(p) \/ PushFull(p) \/ PushStale(p)
         \/ CasFail(p) \/ Crash(p)
  PROVE  RingInv'
<1> USE DEF shared, consumerVars
<1>0. /\ TypeOK /\ TypeOK'
      /\ pos[p] \in Nat /\ pos[p] <= tail /\ tail \in Nat
      /\ seq[Slot(pos[p])] \in Nat
  BY PushTypeOK, WindowTypes DEF RingInv, Push, TypeOK, ProducerInv
<1>1. UNCHANGED <<shared, sent, consumerVars, log, delivered>>
  BY DEF TooBig, LoadTail, PushSlotFree, PushFull, PushStale, CasFail, Crash
<1>2. \A p2 \in Producers \ {p} : pc'[p2] = pc[p2] /\ pos'[p2] = pos[p2]
  BY <1>0 DEF TypeOK, TooBig, LoadTail, PushSlotFree, PushFull, PushStale, CasFail, Crash
<1>3. /\ pc'[p] \in Trying \cup {"bailed", "crashed"}
      /\ pc'[p] \in Trying => pc[p] \in Trying
  BY <1>0 DEF TypeOK, Trying, TooBig, LoadTail, PushSlotFree, PushFull, PushStale, CasFail,
    Crash
<1>4. pos'[p] <= tail
  BY <1>0 DEF TypeOK, TooBig, LoadTail, PushSlotFree, PushFull, PushStale, CasFail, Crash
<1>5. pc'[p] = "cas" => seq[Slot(pos'[p])] >= pos'[p]
  <2>1. CASE PushSlotFree(p)
    BY <1>0, <2>1 DEF PushSlotFree, Diff
  <2>2. CASE ~PushSlotFree(p)
    BY <1>0, <2>2 DEF TypeOK, TooBig, LoadTail, PushFull, PushStale, CasFail, Crash
  <2> QED
    BY <2>1, <2>2
<1> QED
  BY <1>0, <1>1, <1>2, <1>3, <1>4, <1>5, LocalStep

-----------------------------------------------------------------------------
(* One more event at the end of a sequence that has every earlier event of *)
(* its producer.                                                           *)
LEMMA AppendInOrder ==
  ASSUME NEW l \in Seq(Messages), OnceInOrder(l), NEW m \in Messages,
         \A i \in 1 .. Len(l) : l[i] # m,
         \A k \in 0 .. m[2] - 1 : \E j \in 1 .. Len(l) : l[j] = <<m[1], k>>
  PROVE  OnceInOrder(Append(l, m))
<1> DEFINE a == Append(l, m)
           n == Len(l)
<1>1. /\ n \in Nat /\ Len(a) = n + 1 /\ a[n + 1] = m
      /\ \A i \in 1 .. n : a[i] = l[i]
  OBVIOUS
<1> HIDE DEF a, n
<1> SUFFICES ASSUME NEW i \in 1 .. n + 1
             PROVE  /\ \A j \in 1 .. i - 1 : a[j] # a[i]
                    /\ \A k \in 0 .. a[i][2] - 1 :
                         \E j \in 1 .. i - 1 : a[j] = <<a[i][1], k>>
  BY <1>1 DEF OnceInOrder, a
<1>2. CASE i = n + 1
  <2>1. a[i] = m /\ i - 1 = n
    BY <1>1, <1>2
  <2>2. \A j \in 1 .. n : a[j] = l[j] /\ l[j] # m
    BY <1>1 DEF n
  <2>3. \A k \in 0 .. m[2] - 1 : \E j \in 1 .. n : l[j] = <<m[1], k>>
    BY DEF n
  <2> QED
    BY <2>1, <2>2, <2>3
<1>3. CASE i # n + 1
  <2>1. i \in 1 .. n /\ a[i] = l[i]
    BY <1>1, <1>3
  <2>2. \A j \in 1 .. i - 1 : j \in 1 .. n /\ a[j] = l[j]
    BY <1>1, <2>1
  <2>3. /\ \A j \in 1 .. i - 1 : l[j] # l[i]
        /\ \A k \in 0 .. l[i][2] - 1 : \E j \in 1 .. i - 1 : l[j] = <<l[i][1], k>>
    BY <2>1 DEF OnceInOrder, n
  <2> QED
    BY <2>1, <2>2, <2>3
<1> QED
  BY <1>2, <1>3

(* A ring of one slot is the one in which the compare_exchange can succeed *)
(* although the slot is in use: its seq after a push is the position that  *)
(* comes next.                                                             *)
LEMMA CasOkFindsRoom ==
  ASSUME NumSlots >= 2, RingInv, NEW p \in Producers, CasOk(p)
  PROVE  tail < Freed + NumSlots /\ seq[Slot(tail)] = tail
<1>0. TypeOK /\ WindowInv /\ SeqInv /\ ProducerInv
  BY DEF RingInv
<1>1. /\ Freed \in Nat /\ tail \in Nat /\ Freed <= tail /\ tail <= Freed + NumSlots
      /\ \A q \in Nat : seq[Slot(q)] \in Nat
  BY <1>0, WindowTypes
<1>2. tail = pos[p] /\ seq[Slot(tail)] >= tail
  BY <1>0 DEF CasOk, TailUnmoved, ProducerInv
<1>3. tail # Freed + NumSlots
  <2> SUFFICES ASSUME tail = Freed + NumSlots PROVE FALSE
    OBVIOUS
  <2>1. Freed \in Freed .. tail - 1
    BY <1>1, SlotCount
  <2>2. seq[Slot(Freed)] \in {Freed, Freed + 1}
    BY <1>0, <2>1 DEF SeqInv
  <2>3. Slot(tail) = Slot(Freed)
    BY <1>1, SlotNextLap
  <2> QED
    BY <1>1, <1>2, <2>2, <2>3, SlotCount
<1>4. tail < Freed + NumSlots
  BY <1>1, <1>3, SlotCount
<1>5. tail \in tail .. Freed + NumSlots - 1
  BY <1>1, <1>4, SlotCount
<1> QED
  BY <1>0, <1>4, <1>5 DEF SeqInv

(* The compare_exchange on tail keeps the invariant: the position it wins  *)
(* is free, and no other producer can hold it.                             *)
LEMMA CasOkInv ==
  ASSUME NumSlots >= 2, RingInv, NEW p \in Producers, CasOk(p)
  PROVE  RingInv'
<1> DEFINE m == MessageOf(p)
<1>0. /\ TypeOK /\ WindowInv /\ SeqInv /\ ProducerInv /\ DataInv /\ ConsumerInv
      /\ PrefixInv /\ LogInv /\ EventInv /\ TypeOK'
  BY PushTypeOK DEF RingInv, Push
<1>1. /\ Freed \in Nat /\ tail \in Nat /\ Freed <= tail /\ tail = Len(log)
      /\ tail < Freed + NumSlots /\ seq[Slot(tail)] = tail
  BY <1>0, WindowTypes, CasOkFindsRoom
<1>2. /\ tail' = tail + 1 /\ pos[p] = tail /\ pc[p] = "cas"
      /\ UNCHANGED <<head, seq, slotLen, slotData, pos, sent, cpc, out, delivered>>
      /\ log' = Append(log, m)
      /\ pc'[p] = "write_len"
      /\ \A p2 \in Producers : p2 # p => pc'[p2] = pc[p2]
  BY <1>0 DEF CasOk, TailUnmoved, TypeOK, consumerVars
<1>3. /\ m \in Messages /\ log \in Seq(Messages)
      /\ m[1] = p /\ m[2] = sent[p] /\ sent[p] \in Nat
  BY <1>0, <1>2, MessageOfType, RingAssumption DEF TypeOK, MessageOf, Writing
<1> HIDE DEF m
<1>4. /\ Len(log') = tail + 1 /\ log'[tail + 1] = m
      /\ \A i \in 1 .. tail : log'[i] = log[i]
  BY <1>1, <1>2, <1>3
<1>5. Freed' = Freed /\ \A p2 \in Producers : MessageOf(p2)' = MessageOf(p2)
  BY <1>2 DEF Freed, MessageOf
<1>6. WindowInv'
  BY <1>0, <1>1, <1>2, <1>4, <1>5, SlotCount DEF WindowInv
<1>7. SeqInv'
  <2>1. \A q \in Freed .. tail : seq[Slot(q)] \in {q, q + 1}
    BY <1>0, <1>1 DEF SeqInv
  <2>2. \A q \in tail + 1 .. Freed + NumSlots - 1 : seq[Slot(q)] = q
    BY <1>0, <1>1, SlotCount DEF SeqInv
  <2>3. tail' - 1 = tail
    BY <1>1, <1>2
  <2> QED
    BY <1>0, <1>2, <1>5, <2>1, <2>2, <2>3 DEF SeqInv
<1>8. ProducerInv'
  <2> SUFFICES ASSUME NEW p2 \in Producers
               PROVE  /\ pos[p2] <= tail + 1
                      /\ pc'[p2] = "cas" => seq[Slot(pos[p2])] >= pos[p2]
                      /\ pc'[p2] \in Writing =>
                           /\ Freed <= pos[p2] /\ pos[p2] < tail + 1
                           /\ seq[Slot(pos[p2])] = pos[p2]
                           /\ log'[pos[p2] + 1] = MessageOf(p2)
                           /\ \A p3 \in Producers \ {p2} :
                                pc'[p3] \in Writing => pos[p3] # pos[p2]
    BY <1>2, <1>5 DEF ProducerInv
  <2>1. pos[p2] \in Nat /\ pos[p2] <= tail
    BY <1>0 DEF ProducerInv, TypeOK
  <2>2. \A p3 \in Producers : p3 # p /\ pc'[p3] \in Writing => pos[p3] < tail
    BY <1>0, <1>2 DEF ProducerInv
  <2>3. CASE p2 = p
    <3>1. \A p3 \in Producers \ {p} : pc'[p3] \in Writing => pos[p3] # tail
      <4> TAKE p3 \in Producers \ {p}
      <4>1. pos[p3] \in Nat
        BY <1>0 DEF TypeOK
      <4> QED
        BY <1>1, <2>2, <4>1
    <3>2. log'[pos[p2] + 1] = MessageOf(p2)
      BY <1>2, <1>4, <2>3 DEF m
    <3> QED
      BY <1>1, <1>2, <2>1, <2>3, <3>1, <3>2
  <2>4. CASE p2 # p
    <3>1. pc'[p2] = pc[p2]
      BY <1>2, <2>4
    <3>2. ASSUME pc[p2] \in Writing
          PROVE  /\ Freed <= pos[p2] /\ pos[p2] < tail
                 /\ seq[Slot(pos[p2])] = pos[p2]
                 /\ log[pos[p2] + 1] = MessageOf(p2)
                 /\ \A p3 \in Producers \ {p2} : pc[p3] \in Writing => pos[p3] # pos[p2]
      BY <1>0, <3>2 DEF ProducerInv
    <3>3. ASSUME pc[p2] \in Writing
          PROVE  log'[pos[p2] + 1] = MessageOf(p2)
      <4>1. pos[p2] + 1 \in 1 .. tail
        BY <1>1, <2>1, <3>2, <3>3
      <4> QED
        BY <1>4, <3>2, <3>3, <4>1
    <3>4. ASSUME pc[p2] \in Writing, NEW p3 \in Producers \ {p2}, pc'[p3] \in Writing
          PROVE  pos[p3] # pos[p2]
      <4>1. CASE p3 = p
        BY <1>1, <1>2, <2>1, <3>2, <3>4, <4>1
      <4>2. CASE p3 # p
        BY <1>2, <3>2, <3>4, <4>2
      <4> QED
        BY <4>1, <4>2
    <3>5. pc[p2] = "cas" => seq[Slot(pos[p2])] >= pos[p2]
      BY <1>0 DEF ProducerInv
    <3> QED
      BY <1>1, <2>1, <3>1, <3>2, <3>3, <3>4, <3>5
  <2> QED
    BY <2>3, <2>4
<1>9. DataInv'
  <2>1. ASSUME NEW q \in Freed .. tail, seq[Slot(q)] = q + 1
        PROVE  slotLen[Slot(q)] = log'[q + 1] /\ slotData[Slot(q)] = log'[q + 1]
    <3>1. q \in Freed .. tail - 1
      BY <1>1, <2>1
    <3>2. q + 1 \in 1 .. tail
      BY <1>1, <3>1
    <3> QED
      BY <1>0, <1>4, <2>1, <3>1, <3>2 DEF DataInv
  <2>2. \A p2 \in Producers : pc'[p2] \in {"write_data", "publish"} => pc'[p2] = pc[p2]
    BY <1>2
  <2>3. tail' - 1 = tail
    BY <1>1, <1>2
  <2> QED
    BY <1>0, <1>2, <1>5, <2>1, <2>2, <2>3 DEF DataInv
<1>10. ConsumerInv'
  <2>1. cpc \in Reading => head = Freed /\ Freed < tail
    BY <1>0, WindowTypes DEF ConsumerInv, Reading
  <2>2. cpc \in Reading => log'[head + 1] = log[head + 1]
    BY <1>1, <1>4, <2>1
  <2> QED
    BY <1>0, <1>1, <1>2, <1>5, <2>1, <2>2 DEF ConsumerInv, Reading
<1>11. PrefixInv'
  <2>1. \A i \in 1 .. Freed : i \in 1 .. tail
    BY <1>1
  <2> QED
    BY <1>0, <1>2, <1>4, <1>5, <2>1 DEF PrefixInv
<1>12. LogInv'
  <2>1. \A i \in 1 .. Len(log) : log[i] # m
    <3> TAKE i \in 1 .. Len(log)
    <3>1. log[i][1] = p => log[i][2] < sent[p]
      BY <1>0, <1>2 DEF EventInv
    <3> QED
      BY <1>3, <3>1
  <2>2. \A k \in 0 .. m[2] - 1 : \E j \in 1 .. Len(log) : log[j] = <<m[1], k>>
    BY <1>0, <1>3 DEF EventInv
  <2> QED
    BY <1>0, <1>2, <1>3, <2>1, <2>2, AppendInOrder DEF LogInv
<1>13. EventInv'
  <2> SUFFICES ASSUME NEW p2 \in Producers
               PROVE  /\ \A k \in 0 .. sent[p2] - 1 :
                           \E i \in 1 .. tail + 1 : log'[i] = <<p2, k>>
                      /\ pc'[p2] \in Trying =>
                           \A i \in 1 .. tail + 1 : log'[i][1] = p2 => log'[i][2] < sent[p2]
                      /\ pc'[p2] \in Writing =>
                           \A i \in 1 .. tail + 1 : log'[i][1] = p2 => log'[i][2] <= sent[p2]
    BY <1>2, <1>4 DEF EventInv, Trying
  <2>0. sent[p2] \in Nat /\ \A i \in 1 .. tail + 1 : i \in 1 .. tail \/ i = tail + 1
    <3>1. sent[p2] \in 0 .. Count /\ Count \in Nat
      BY <1>0, RingAssumption DEF TypeOK
    <3> QED
      BY <1>1, <3>1
  <2>1. ASSUME NEW k \in 0 .. sent[p2] - 1
        PROVE  \E i \in 1 .. tail + 1 : log'[i] = <<p2, k>>
    <3>1. PICK i \in 1 .. tail : log[i] = <<p2, k>>
      BY <1>0, <1>1 DEF EventInv
    <3> QED
      BY <1>1, <1>4, <3>1
  <2>2. ASSUME pc'[p2] \in Trying, NEW i \in 1 .. tail + 1, log'[i][1] = p2
        PROVE  log'[i][2] < sent[p2]
    <3>1. p2 # p /\ pc[p2] \in Trying
      BY <1>2, <2>2 DEF Trying
    <3>2. i \in 1 .. tail
      BY <1>3, <1>4, <2>0, <2>2, <3>1
    <3> QED
      BY <1>0, <1>1, <1>4, <2>2, <3>1, <3>2 DEF EventInv, Trying
  <2>3. ASSUME pc'[p2] \in Writing, NEW i \in 1 .. tail + 1, log'[i][1] = p2
        PROVE  log'[i][2] <= sent[p2]
    <3>1. CASE i = tail + 1
      BY <1>3, <1>4, <2>3, <3>1
    <3>2. CASE i \in 1 .. tail /\ p2 = p
      <4>1. log[i][2] < sent[p]
        BY <1>0, <1>1, <1>2, <1>4, <2>3, <3>2 DEF EventInv
      <4>2. log[i] \in Messages
        BY <1>1, <1>3, <3>2
      <4>3. log[i][2] \in Int
        BY <4>2 DEF Messages
      <4> QED
        BY <1>3, <1>4, <3>2, <4>1, <4>3
    <3>3. CASE i \in 1 .. tail /\ p2 # p
      BY <1>0, <1>1, <1>2, <1>4, <2>3, <3>3 DEF EventInv
    <3> QED
      BY <2>0, <3>1, <3>2, <3>3
  <2> QED
    BY <2>1, <2>2, <2>3
<1> QED
  BY <1>0, <1>6, <1>7, <1>8, <1>9, <1>10, <1>11, <1>12, <1>13 DEF RingInv

-----------------------------------------------------------------------------
(* The two plain writes: only the owner's slot changes, and no other slot  *)
(* of the window is the owner's.                                           *)
LEMMA WriteInv ==
  ASSUME RingInv, NEW p \in Producers, WriteLen(p) \/ WriteData(p)
  PROVE  RingInv'
<1>0. /\ TypeOK /\ WindowInv /\ SeqInv /\ ProducerInv /\ DataInv /\ ConsumerInv
      /\ PrefixInv /\ LogInv /\ EventInv /\ TypeOK'
  BY PushTypeOK DEF RingInv, Push
<1>1. /\ UNCHANGED <<tail, head, seq, pos, sent, cpc, out, log, delivered>>
      /\ pc[p] \in Writing /\ pc'[p] \in Writing
      /\ \A p2 \in Producers : p2 # p => pc'[p2] = pc[p2]
  BY <1>0 DEF WriteLen, WriteData, TypeOK, consumerVars, Writing
<1>2. \A p2 \in Producers : /\ pc'[p2] \in Writing <=> pc[p2] \in Writing
                            /\ pc'[p2] \in Trying <=> pc[p2] \in Trying
                            /\ pc'[p2] = "cas" <=> pc[p2] = "cas"
                            /\ MessageOf(p2)' = MessageOf(p2)
  BY <1>1 DEF Writing, Trying, MessageOf
<1>3. Freed' = Freed
  BY <1>1 DEF Freed
<1>4. WindowInv' /\ SeqInv' /\ ConsumerInv'
  BY <1>0, <1>1, <1>3 DEF WindowInv, SeqInv, ConsumerInv
<1>5. ProducerInv'
  BY <1>0, <1>1, <1>2, <1>3 DEF ProducerInv
<1>6. PrefixInv' /\ LogInv'
  BY <1>0, <1>1, <1>3 DEF PrefixInv, LogInv
<1>7. EventInv'
  BY <1>0, <1>1, <1>2 DEF EventInv, Trying
<1>8. /\ Freed \in Nat /\ tail <= Freed + NumSlots /\ tail \in Nat
      /\ pos[p] \in Nat /\ Slot(pos[p]) \in Slots
      /\ Freed .. tail - 1 \subseteq Freed .. Freed + NumSlots - 1
  BY <1>0, <1>1, OwnersApart, WindowTypes
<1>9. \A q \in Freed .. tail - 1 : seq[Slot(q)] = q + 1 =>
        /\ Slot(q) # Slot(pos[p])
        /\ slotLen[Slot(q)] = log[q + 1] /\ slotData[Slot(q)] = log[q + 1]
  <2> TAKE q \in Freed .. tail - 1
  <2> HAVE seq[Slot(q)] = q + 1
  <2>1. q # pos[p] /\ q \in Freed .. Freed + NumSlots - 1
    BY <1>1, <1>8, OwnersApart
  <2> QED
    BY <1>0, <1>1, <2>1, OwnersApart DEF DataInv
<1>10. \A p2 \in Producers : p2 # p /\ pc[p2] \in Writing =>
         Slot(pos[p2]) \in Slots /\ Slot(pos[p2]) # Slot(pos[p])
  BY <1>1, OwnersApart, SlotQuotient
<1>11. \A q \in Freed .. tail - 1 : Slot(q) \in Slots
  BY <1>8, SlotQuotient
<1>12. CASE WriteLen(p)
  <2>1. /\ slotLen' = [slotLen EXCEPT ![Slot(pos[p])] = MessageOf(p)]
        /\ slotData' = slotData /\ pc'[p] = "write_data"
    BY <1>0, <1>12 DEF WriteLen, TypeOK
  <2>2. slotLen'[Slot(pos[p])] = MessageOf(p)
    BY <1>0, <1>8, <2>1 DEF TypeOK
  <2>3. \A i \in Slots : i # Slot(pos[p]) => slotLen'[i] = slotLen[i]
    BY <1>0, <2>1 DEF TypeOK
  <2>4. \A q \in Freed .. tail - 1 : seq[Slot(q)] = q + 1 =>
          slotLen'[Slot(q)] = log[q + 1] /\ slotData'[Slot(q)] = log[q + 1]
    BY <1>9, <1>11, <2>1, <2>3
  <2>5. ASSUME NEW p2 \in Producers
        PROVE  /\ pc'[p2] \in {"write_data", "publish"} => slotLen'[Slot(pos[p2])] = MessageOf(p2)
               /\ pc'[p2] = "publish" => slotData'[Slot(pos[p2])] = MessageOf(p2)
    <3>1. CASE p2 = p
      BY <2>1, <2>2, <3>1
    <3>2. CASE p2 # p
      BY <1>0, <1>1, <1>10, <2>1, <2>3, <3>2 DEF DataInv, Writing
    <3> QED
      BY <3>1, <3>2
  <2>6. DataInv'
    BY <1>1, <1>2, <1>3, <2>4, <2>5 DEF DataInv
  <2> QED
    BY <1>0, <1>4, <1>5, <1>6, <1>7, <2>6 DEF RingInv
<1>13. CASE WriteData(p)
  <2>1. /\ slotData' = [slotData EXCEPT ![Slot(pos[p])] = MessageOf(p)]
        /\ slotLen' = slotLen /\ pc[p] = "write_data" /\ pc'[p] = "publish"
    BY <1>0, <1>13 DEF WriteData, TypeOK
  <2>2. slotData'[Slot(pos[p])] = MessageOf(p)
    BY <1>0, <1>8, <2>1 DEF TypeOK
  <2>3. \A i \in Slots : i # Slot(pos[p]) => slotData'[i] = slotData[i]
    BY <1>0, <2>1 DEF TypeOK
  <2>4. \A q \in Freed .. tail - 1 : seq[Slot(q)] = q + 1 =>
          slotLen'[Slot(q)] = log[q + 1] /\ slotData'[Slot(q)] = log[q + 1]
    BY <1>9, <1>11, <2>1, <2>3
  <2>5. ASSUME NEW p2 \in Producers
        PROVE  /\ pc'[p2] \in {"write_data", "publish"} => slotLen'[Slot(pos[p2])] = MessageOf(p2)
               /\ pc'[p2] = "publish" => slotData'[Slot(pos[p2])] = MessageOf(p2)
    <3>1. CASE p2 = p
      BY <1>0, <2>1, <2>2, <3>1 DEF DataInv
    <3>2. CASE p2 # p
      BY <1>0, <1>1, <1>10, <2>1, <2>3, <3>2 DEF DataInv, Writing
    <3> QED
      BY <3>1, <3>2
  <2>6. DataInv'
    BY <1>1, <1>2, <1>3, <2>4, <2>5 DEF DataInv
  <2> QED
    BY <1>0, <1>4, <1>5, <1>6, <1>7, <2>6 DEF RingInv
<1> QED
  BY <1>12, <1>13

-----------------------------------------------------------------------------
(* The Release store of push publishes the position its producer owns.     *)
LEMMA PublishInv ==
  ASSUME RingInv, NEW p \in Producers, Publish(p)
  PROVE  RingInv'
<1> DEFINE P == pos[p]
<1>0. /\ TypeOK /\ WindowInv /\ SeqInv /\ ProducerInv /\ DataInv /\ ConsumerInv
      /\ PrefixInv /\ LogInv /\ EventInv /\ TypeOK'
  BY PushTypeOK DEF RingInv, Push
<1>1. /\ UNCHANGED <<tail, head, slotLen, slotData, pos, cpc, out, log, delivered>>
      /\ pc[p] = "publish" /\ pc'[p] = "idle"
      /\ \A p2 \in Producers : p2 # p => pc'[p2] = pc[p2] /\ sent'[p2] = sent[p2]
      /\ sent'[p] = sent[p] + 1
      /\ seq' = [seq EXCEPT ![Slot(P)] = P + 1]
  BY <1>0 DEF Publish, TypeOK, consumerVars
<1>2. /\ Freed \in Nat /\ tail \in Nat /\ tail = Len(log) /\ tail <= Freed + NumSlots
      /\ P \in Nat /\ P \in Freed .. tail - 1 /\ Slot(P) \in Slots
      /\ Freed .. tail - 1 \subseteq Freed .. Freed + NumSlots - 1
      /\ \A q \in Nat : Slot(q) \in Slots /\ seq[Slot(q)] \in Nat
  BY <1>0, <1>1, OwnersApart, WindowTypes DEF Writing
<1>3. /\ seq[Slot(P)] = P /\ log[P + 1] = MessageOf(p)
      /\ slotLen[Slot(P)] = MessageOf(p) /\ slotData[Slot(P)] = MessageOf(p)
  BY <1>0, <1>1 DEF ProducerInv, DataInv, Writing
<1>4. /\ \A q \in Freed .. Freed + NumSlots - 1 : q # P => Slot(q) # Slot(P)
      /\ \A p2 \in Producers \ {p} : pc[p2] \in Writing => Slot(pos[p2]) # Slot(P)
      /\ cpc \in Reading => Slot(head) # Slot(P)
  BY <1>1, OwnersApart DEF Writing
<1>5. /\ seq'[Slot(P)] = P + 1
      /\ \A i \in Slots : i # Slot(P) => seq'[i] = seq[i]
      /\ \A i \in Slots : seq'[i] >= seq[i]
  <2>1. seq'[Slot(P)] = P + 1 /\ \A i \in Slots : i # Slot(P) => seq'[i] = seq[i]
    BY <1>0, <1>1, <1>2 DEF TypeOK
  <2>2. \A i \in Slots : seq[i] \in Nat
    BY <1>0 DEF TypeOK
  <2> QED
    BY <1>2, <1>3, <2>1, <2>2
<1>6. Freed' = Freed /\ \A p2 \in Producers : p2 # p => MessageOf(p2)' = MessageOf(p2)
  BY <1>1 DEF Freed, MessageOf
<1> HIDE DEF P
<1>7. WindowInv'
  BY <1>0, <1>1, <1>6 DEF WindowInv
<1>8. SeqInv'
  <2>1. ASSUME NEW q \in Freed .. tail - 1
        PROVE  seq'[Slot(q)] \in {q, q + 1}
    <3>1. CASE q = P
      BY <1>5, <3>1
    <3>2. CASE q # P
      <4>1. q \in Freed .. Freed + NumSlots - 1 /\ q \in Nat
        BY <1>2
      <4>2. seq'[Slot(q)] = seq[Slot(q)]
        BY <1>2, <1>4, <1>5, <3>2, <4>1
      <4> QED
        BY <1>0, <4>2 DEF SeqInv
    <3> QED
      BY <3>1, <3>2
  <2>2. ASSUME NEW q \in tail .. Freed + NumSlots - 1
        PROVE  seq'[Slot(q)] = q
    <3>1. q # P /\ q \in Freed .. Freed + NumSlots - 1 /\ q \in Nat
      BY <1>2, SlotCount
    <3>2. seq'[Slot(q)] = seq[Slot(q)]
      BY <1>2, <1>4, <1>5, <3>1
    <3> QED
      BY <1>0, <3>2 DEF SeqInv
  <2>3. ASSUME NEW q \in 0 .. Freed + NumSlots - 1
        PROVE  seq'[Slot(q)] >= q
    <3>1. q \in Nat /\ Slot(q) \in Slots /\ seq[Slot(q)] \in Nat
      BY <1>2
    <3>2. seq[Slot(q)] >= q /\ seq'[Slot(q)] >= seq[Slot(q)]
      BY <1>0, <1>5, <3>1 DEF SeqInv
    <3>3. seq'[Slot(q)] \in Nat
      BY <1>0, <3>1 DEF TypeOK
    <3> QED
      BY <3>1, <3>2, <3>3
  <2> QED
    BY <1>1, <1>6, <2>1, <2>2, <2>3 DEF SeqInv
<1>9. ProducerInv'
  <2> SUFFICES ASSUME NEW p2 \in Producers
               PROVE  /\ pos[p2] <= tail
                      /\ pc'[p2] = "cas" => seq'[Slot(pos[p2])] >= pos[p2]
                      /\ pc'[p2] \in Writing =>
                           /\ Freed <= pos[p2] /\ pos[p2] < tail
                           /\ seq'[Slot(pos[p2])] = pos[p2]
                           /\ log[pos[p2] + 1] = MessageOf(p2)'
                           /\ \A p3 \in Producers \ {p2} :
                                pc'[p3] \in Writing => pos[p3] # pos[p2]
    BY <1>1, <1>6 DEF ProducerInv
  <2>0. /\ pos[p2] \in Nat /\ Slot(pos[p2]) \in Slots /\ seq[Slot(pos[p2])] \in Nat
        /\ seq'[Slot(pos[p2])] \in Nat /\ pos[p2] <= tail
    BY <1>0, <1>2 DEF TypeOK, ProducerInv
  <2>1. CASE p2 = p
    BY <1>1, <2>0, <2>1 DEF Writing
  <2>2. CASE p2 # p
    <3>1. pc'[p2] = pc[p2]
      BY <1>1, <2>2
    <3>2. pc[p2] = "cas" => seq'[Slot(pos[p2])] >= pos[p2]
      <4>1. pc[p2] = "cas" => seq[Slot(pos[p2])] >= pos[p2]
        BY <1>0 DEF ProducerInv
      <4>2. seq'[Slot(pos[p2])] >= seq[Slot(pos[p2])]
        BY <1>5, <2>0
      <4> QED
        BY <2>0, <4>1, <4>2
    <3>3. ASSUME pc[p2] \in Writing
          PROVE  /\ Freed <= pos[p2] /\ pos[p2] < tail
                 /\ seq[Slot(pos[p2])] = pos[p2]
                 /\ log[pos[p2] + 1] = MessageOf(p2)
                 /\ \A p3 \in Producers \ {p2} : pc[p3] \in Writing => pos[p3] # pos[p2]
      BY <1>0, <3>3 DEF ProducerInv
    <3>4. pc[p2] \in Writing => seq'[Slot(pos[p2])] = seq[Slot(pos[p2])]
      BY <1>4, <1>5, <2>0, <2>2
    <3>5. \A p3 \in Producers : pc'[p3] \in Writing => pc[p3] \in Writing
      BY <1>1 DEF Writing
    <3> QED
      BY <1>6, <2>0, <2>2, <3>1, <3>2, <3>3, <3>4, <3>5
  <2> QED
    BY <2>1, <2>2
<1>10. DataInv'
  <2>1. ASSUME NEW q \in Freed .. tail - 1, seq'[Slot(q)] = q + 1
        PROVE  slotLen[Slot(q)] = log[q + 1] /\ slotData[Slot(q)] = log[q + 1]
    <3>1. CASE q = P
      BY <1>3, <3>1
    <3>2. CASE q # P
      <4>1. q \in Freed .. Freed + NumSlots - 1 /\ q \in Nat
        BY <1>2
      <4>2. seq'[Slot(q)] = seq[Slot(q)]
        BY <1>2, <1>4, <1>5, <3>2, <4>1
      <4> QED
        BY <1>0, <2>1, <4>2 DEF DataInv
    <3> QED
      BY <3>1, <3>2
  <2>2. \A p2 \in Producers : pc'[p2] \in {"write_data", "publish"} =>
          p2 # p /\ pc'[p2] = pc[p2]
    BY <1>1
  <2> QED
    BY <1>0, <1>1, <1>6, <2>1, <2>2 DEF DataInv
<1>11. ConsumerInv'
  <2>1. cpc \in Reading => head = Freed /\ Freed < tail
    BY <1>0, WindowTypes DEF ConsumerInv, Reading
  <2>2. cpc \in Reading => seq'[Slot(head)] = seq[Slot(head)]
    BY <1>2, <1>4, <1>5, <2>1
  <2> QED
    BY <1>0, <1>1, <1>6, <2>2 DEF ConsumerInv
<1>12. PrefixInv' /\ LogInv'
  BY <1>0, <1>1, <1>6 DEF PrefixInv, LogInv
<1>13. EventInv'
  <2> SUFFICES ASSUME NEW p2 \in Producers
               PROVE  /\ \A k \in 0 .. sent'[p2] - 1 :
                           \E i \in 1 .. Len(log) : log[i] = <<p2, k>>
                      /\ pc'[p2] \in Trying =>
                           \A i \in 1 .. Len(log) : log[i][1] = p2 => log[i][2] < sent'[p2]
                      /\ pc'[p2] \in Writing =>
                           \A i \in 1 .. Len(log) : log[i][1] = p2 => log[i][2] <= sent'[p2]
    BY <1>1 DEF EventInv, Trying
  <2>1. CASE p2 # p
    BY <1>0, <1>1, <2>1 DEF EventInv, Trying
  <2>2. CASE p2 = p
    <3>0. sent[p] \in Nat
      <4>1. sent[p] \in 0 .. Count /\ Count \in Nat
        BY <1>0, RingAssumption DEF TypeOK
      <4> QED
        BY <4>1
    <3>1. ASSUME NEW k \in 0 .. sent[p]
          PROVE  \E i \in 1 .. Len(log) : log[i] = <<p, k>>
      <4>1. CASE k = sent[p]
        <5>1. P + 1 \in 1 .. Len(log) /\ log[P + 1] = <<p, k>>
          BY <1>2, <1>3, <4>1 DEF MessageOf
        <5> QED
          BY <5>1
      <4>2. CASE k # sent[p]
        <5>1. k \in 0 .. sent[p] - 1
          BY <3>0, <4>2
        <5> QED
          BY <1>0, <5>1 DEF EventInv
      <4> QED
        BY <4>1, <4>2
    <3>2. ASSUME NEW i \in 1 .. Len(log), log[i][1] = p
          PROVE  log[i][2] < sent[p] + 1
      <4>1. log[i][2] <= sent[p]
        BY <1>0, <1>1, <3>2 DEF EventInv, Writing
      <4>2. log[i] \in Messages
        BY <1>0 DEF TypeOK
      <4>3. log[i][2] \in Int
        BY <4>2 DEF Messages
      <4> QED
        BY <3>0, <4>1, <4>3
    <3>3. pc'[p] \notin Writing /\ sent'[p] - 1 = sent[p]
      BY <1>1, <3>0 DEF Writing
    <3> QED
      BY <1>1, <2>2, <3>1, <3>2, <3>3
  <2> QED
    BY <2>1, <2>2
<1> QED
  BY <1>0, <1>7, <1>8, <1>9, <1>10, <1>11, <1>12, <1>13 DEF RingInv

-----------------------------------------------------------------------------
(* The steps of try_pop that only read.                                    *)
LEMMA ReadInv ==
  ASSUME RingInv, PopStart \/ ReadLen \/ ReadData \/ Advance
  PROVE  RingInv'
<1>0. /\ TypeOK /\ WindowInv /\ SeqInv /\ ProducerInv /\ DataInv /\ ConsumerInv
      /\ PrefixInv /\ LogInv /\ EventInv /\ TypeOK'
  BY TryPopTypeOK DEF RingInv, TryPop
<1>1. UNCHANGED <<tail, seq, slotLen, slotData, pc, pos, sent, log, delivered>>
  BY DEF PopStart, ReadLen, ReadData, Advance, shared, producerVars
<1>2. Freed' = Freed /\ \A p \in Producers : MessageOf(p)' = MessageOf(p)
  BY <1>1 DEF Freed, MessageOf
<1>3. SeqInv' /\ ProducerInv' /\ DataInv' /\ PrefixInv' /\ LogInv'
  BY <1>0, <1>1, <1>2 DEF SeqInv, ProducerInv, DataInv, PrefixInv, LogInv
<1>4. EventInv'
  BY <1>0, <1>1 DEF EventInv
<1>5. /\ Freed \in Nat /\ tail \in Nat /\ Freed <= tail
      /\ cpc # "advance" => head = Freed
      /\ cpc = "advance" => head = Freed - 1
  BY <1>0, WindowTypes
<1>6. CASE PopStart
  <2>1. head = Freed /\ head' = head /\ cpc' = "read_len" /\ seq[Slot(head)] = head + 1
    BY <1>5, <1>6 DEF PopStart, HeadReady, shared
  <2>2. Freed # tail
    <3> SUFFICES ASSUME Freed = tail PROVE FALSE
      OBVIOUS
    <3>1. tail \in tail .. Freed + NumSlots - 1
      BY <1>5, SlotCount
    <3>2. seq[Slot(tail)] = tail
      BY <1>0, <3>1 DEF SeqInv
    <3> QED
      BY <1>5, <2>1, <3>2
  <2>3. ConsumerInv'
    BY <1>1, <1>2, <1>5, <2>1, <2>2 DEF ConsumerInv
  <2>4. WindowInv'
    BY <1>0, <1>1, <1>2, <2>1 DEF WindowInv
  <2> QED
    BY <1>0, <1>3, <1>4, <2>3, <2>4 DEF RingInv
<1>7. CASE ReadLen \/ ReadData
  <2>1. /\ cpc \in {"read_len", "read_data"} /\ head' = head /\ head = Freed
        /\ cpc' \in {"read_data", "free"}
    BY <1>5, <1>7 DEF ReadLen, ReadData, shared
  <2>2. Freed < tail /\ seq[Slot(head)] = head + 1
    BY <1>0, <2>1 DEF ConsumerInv, Reading
  <2>3. Freed \in Freed .. tail - 1
    BY <1>5, <2>2
  <2>4. slotLen[Slot(head)] = log[head + 1] /\ slotData[Slot(head)] = log[head + 1]
    BY <1>0, <2>1, <2>2, <2>3 DEF DataInv
  <2>5. out.len = log[head + 1] \/ cpc = "read_len"
    BY <1>0, <2>1 DEF ConsumerInv
  <2>6. /\ out'.len = log[head + 1]
        /\ cpc' = "free" => out'.data = log[head + 1]
    <3>1. CASE ReadLen
      BY <1>0, <2>4, <3>1 DEF ReadLen, TypeOK
    <3>2. CASE ReadData
      BY <1>0, <2>4, <2>5, <3>2 DEF ReadData, TypeOK
    <3> QED
      BY <1>7, <3>1, <3>2
  <2>7. ConsumerInv'
    BY <1>1, <1>2, <2>1, <2>2, <2>6 DEF ConsumerInv
  <2>8. WindowInv'
    BY <1>0, <1>1, <1>2, <2>1 DEF WindowInv
  <2> QED
    BY <1>0, <1>3, <1>4, <2>7, <2>8 DEF RingInv
<1>8. CASE Advance
  <2>1. cpc = "advance" /\ cpc' = "idle" /\ head' = head + 1
    BY <1>8 DEF Advance
  <2>2. head' = Freed
    BY <1>5, <2>1
  <2>3. WindowInv' /\ ConsumerInv'
    BY <1>0, <1>1, <1>2, <2>1, <2>2 DEF WindowInv, ConsumerInv, Reading
  <2> QED
    BY <1>0, <1>3, <1>4, <2>3 DEF RingInv
<1> QED
  BY <1>6, <1>7, <1>8

(* The Release store of try_pop: the slot goes to the next lap.            *)
LEMMA FreeInv ==
  ASSUME RingInv, Free
  PROVE  RingInv'
<1> DEFINE F == Freed
<1>0. /\ TypeOK /\ WindowInv /\ SeqInv /\ ProducerInv /\ DataInv /\ ConsumerInv
      /\ PrefixInv /\ LogInv /\ EventInv /\ TypeOK'
  BY TryPopTypeOK DEF RingInv, TryPop
<1>1. /\ UNCHANGED <<tail, head, slotLen, slotData, pc, pos, sent, out, log>>
      /\ cpc = "free" /\ cpc' = "advance"
      /\ seq' = [seq EXCEPT ![Slot(head)] = FreedSeq]
      /\ delivered' = Append(delivered, Received)
  BY DEF Free, producerVars
<1>2. /\ F \in Nat /\ tail \in Nat /\ tail = Len(log) /\ tail <= F + NumSlots
      /\ head = F /\ F < tail /\ seq[Slot(F)] = F + 1
      /\ \A q \in Nat : Slot(q) \in Slots /\ seq[Slot(q)] \in Nat
  BY <1>0, <1>1, WindowTypes DEF ConsumerInv, Reading
<1>3. Received = log[F + 1] /\ FreedSeq = F + NumSlots
  BY <1>0, <1>1, <1>2 DEF ConsumerInv, Received, FreedSeq
<1>4. /\ F' = F + 1 /\ delivered'[F + 1] = log[F + 1]
      /\ \A i \in 1 .. F : delivered'[i] = delivered[i]
  BY <1>0, <1>1, <1>3 DEF Freed, TypeOK
<1>5. \A p \in Producers : MessageOf(p)' = MessageOf(p)
  BY <1>1 DEF MessageOf
<1> HIDE DEF F
<1>6. /\ seq'[Slot(F)] = F + NumSlots
      /\ \A i \in Slots : i # Slot(F) => seq'[i] = seq[i]
      /\ \A i \in Slots : seq[i] \in Nat /\ seq'[i] >= seq[i]
  <2>1. seq'[Slot(F)] = F + NumSlots /\ \A i \in Slots : i # Slot(F) => seq'[i] = seq[i]
    BY <1>0, <1>1, <1>2, <1>3 DEF TypeOK
  <2>2. \A i \in Slots : seq[i] \in Nat
    BY <1>0 DEF TypeOK
  <2> QED
    BY <1>2, <2>1, <2>2, SlotCount
<1>7. \A q \in F + 1 .. F + NumSlots - 1 :
        q \in Nat /\ Slot(q) # Slot(F) /\ seq'[Slot(q)] = seq[Slot(q)]
  <2> TAKE q \in F + 1 .. F + NumSlots - 1
  <2>1. q \in Nat /\ q \in F .. F + NumSlots - 1 /\ F \in F .. F + NumSlots - 1 /\ q # F
    BY <1>2, SlotCount
  <2>2. Slot(q) # Slot(F)
    BY <1>2, <2>1, WindowApart
  <2> QED
    BY <1>2, <1>6, <2>1, <2>2
<1>8. WindowInv'
  BY <1>1, <1>2, <1>4, SlotCount DEF WindowInv, F
<1>9. SeqInv'
  <2>0. F + 1 + NumSlots - 1 = F + NumSlots /\ NumSlots \in Nat \ {0}
    BY <1>2, SlotCount
  <2>1. ASSUME NEW q \in F + 1 .. tail - 1
        PROVE  seq'[Slot(q)] \in {q, q + 1}
    <3>1. q \in F + 1 .. F + NumSlots - 1 /\ q \in F .. tail - 1
      BY <1>2, <2>0
    <3>2. seq[Slot(q)] \in {q, q + 1}
      BY <1>0, <3>1 DEF SeqInv, F
    <3> QED
      BY <1>7, <3>1, <3>2
  <2>2. ASSUME NEW q \in tail .. F + NumSlots
        PROVE  seq'[Slot(q)] = q
    <3>1. CASE q = F + NumSlots
      BY <1>2, <1>6, <3>1, SlotNextLap
    <3>2. CASE q # F + NumSlots
      <4>1. q \in F + 1 .. F + NumSlots - 1 /\ q \in tail .. F + NumSlots - 1
        BY <1>2, <2>0, <3>2
      <4>2. seq[Slot(q)] = q
        BY <1>0, <4>1 DEF SeqInv, F
      <4> QED
        BY <1>7, <4>1, <4>2
    <3> QED
      BY <3>1, <3>2
  <2>3. ASSUME NEW q \in 0 .. F + NumSlots
        PROVE  seq'[Slot(q)] >= q
    <3>1. CASE q = F + NumSlots
      <4>1. seq'[Slot(q)] = q
        BY <1>2, <1>6, <3>1, SlotNextLap
      <4>2. q \in Nat
        BY <1>2, <2>0
      <4> QED
        BY <4>1, <4>2
    <3>2. CASE q # F + NumSlots
      <4>1. q \in 0 .. F + NumSlots - 1 /\ q \in Nat
        BY <1>2, <2>0, <3>2
      <4>2. seq[Slot(q)] >= q
        BY <1>0, <4>1 DEF SeqInv, F
      <4>3. seq'[Slot(q)] >= seq[Slot(q)] /\ seq[Slot(q)] \in Nat /\ seq'[Slot(q)] \in Nat
        BY <1>0, <1>2, <1>6, <4>1 DEF TypeOK
      <4> QED
        BY <4>1, <4>2, <4>3
    <3> QED
      BY <3>1, <3>2
  <2> QED
    BY <1>1, <1>4, <2>0, <2>1, <2>2, <2>3 DEF SeqInv, F
<1>10. ASSUME NEW p \in Producers, pc[p] \in Writing
       PROVE  pos[p] \in F + 1 .. tail - 1 /\ seq'[Slot(pos[p])] = seq[Slot(pos[p])]
  <2>1. pos[p] \in Nat /\ pos[p] \in F .. tail - 1 /\ seq[Slot(pos[p])] = pos[p]
    BY <1>0, <1>10, OwnersApart DEF ProducerInv, F
  <2>2. pos[p] # F
    BY <1>2, <2>1
  <2>3. pos[p] \in F + 1 .. tail - 1 /\ pos[p] \in F + 1 .. F + NumSlots - 1
    BY <1>2, <2>1, <2>2, SlotCount
  <2> QED
    BY <1>7, <2>3
<1>11. ProducerInv'
  <2> SUFFICES ASSUME NEW p \in Producers
               PROVE  /\ pos[p] <= tail
                      /\ pc[p] = "cas" => seq'[Slot(pos[p])] >= pos[p]
                      /\ pc[p] \in Writing =>
                           /\ F + 1 <= pos[p] /\ pos[p] < tail
                           /\ seq'[Slot(pos[p])] = pos[p]
                           /\ log[pos[p] + 1] = MessageOf(p)
                           /\ \A p2 \in Producers \ {p} :
                                pc[p2] \in Writing => pos[p2] # pos[p]
    BY <1>1, <1>4, <1>5 DEF ProducerInv, F
  <2>1. /\ pos[p] \in Nat /\ pos[p] <= tail
        /\ seq[Slot(pos[p])] \in Nat /\ seq'[Slot(pos[p])] \in Nat
        /\ seq'[Slot(pos[p])] >= seq[Slot(pos[p])]
    BY <1>0, <1>2, <1>6 DEF TypeOK, ProducerInv
  <2>2. pc[p] = "cas" => seq'[Slot(pos[p])] >= pos[p]
    <3>1. pc[p] = "cas" => seq[Slot(pos[p])] >= pos[p]
      BY <1>0 DEF ProducerInv
    <3> QED
      BY <2>1, <3>1
  <2>3. ASSUME pc[p] \in Writing
        PROVE  /\ F + 1 <= pos[p] /\ pos[p] < tail
               /\ seq'[Slot(pos[p])] = pos[p]
               /\ log[pos[p] + 1] = MessageOf(p)
               /\ \A p2 \in Producers \ {p} : pc[p2] \in Writing => pos[p2] # pos[p]
    <3>1. /\ seq[Slot(pos[p])] = pos[p] /\ log[pos[p] + 1] = MessageOf(p)
          /\ \A p2 \in Producers \ {p} : pc[p2] \in Writing => pos[p2] # pos[p]
      BY <1>0, <2>3 DEF ProducerInv
    <3>2. pos[p] \in F + 1 .. tail - 1 /\ seq'[Slot(pos[p])] = seq[Slot(pos[p])]
      BY <1>10, <2>3
    <3> QED
      BY <1>2, <3>1, <3>2
  <2> QED
    BY <2>1, <2>2, <2>3
<1>12. DataInv'
  <2>1. ASSUME NEW q \in F + 1 .. tail - 1, seq'[Slot(q)] = q + 1
        PROVE  slotLen[Slot(q)] = log[q + 1] /\ slotData[Slot(q)] = log[q + 1]
    <3>1. q \in F + 1 .. F + NumSlots - 1 /\ q \in F .. tail - 1
      BY <1>2, SlotCount
    <3>2. seq[Slot(q)] = q + 1
      BY <1>7, <2>1, <3>1
    <3> QED
      BY <1>0, <3>1, <3>2 DEF DataInv, F
  <2> QED
    BY <1>0, <1>1, <1>4, <1>5, <2>1 DEF DataInv, F
<1>13. ConsumerInv'
  BY <1>1 DEF ConsumerInv, Reading
<1>14. PrefixInv'
  <2>1. \A i \in 1 .. F + 1 : i \in 1 .. F \/ i = F + 1
    BY <1>2
  <2>2. \A i \in 1 .. F : delivered[i] = log[i]
    BY <1>0 DEF PrefixInv, F
  <2>3. \A i \in 1 .. F + 1 : delivered'[i] = log[i]
    BY <1>4, <2>1, <2>2
  <2> QED
    BY <1>1, <1>4, <2>3 DEF PrefixInv, F
<1>15. LogInv'
  BY <1>0, <1>1 DEF LogInv
<1>16. EventInv'
  BY <1>0, <1>1 DEF EventInv
<1> QED
  BY <1>0, <1>8, <1>9, <1>11, <1>12, <1>13, <1>14, <1>15, <1>16 DEF RingInv

-----------------------------------------------------------------------------
(* The segment as init leaves it satisfies the invariant.                  *)
LEMMA InitRingInv == Init => RingInv
<1> SUFFICES ASSUME Init PROVE RingInv
  OBVIOUS
<1>1. TypeOK
  BY SlotCount, RingAssumption DEF Init, TypeOK, InitialSeq, Slots, Writing, Reading
<1>2. Freed = 0 /\ Len(log) = 0 /\ tail = 0 /\ head = 0 /\ cpc = "idle"
  BY DEF Init, Freed
<1>3. WindowInv
  BY <1>2, SlotCount DEF WindowInv
<1>4. \A q \in 0 .. NumSlots - 1 : seq[Slot(q)] = q
  BY SlotFirstLap DEF Init, InitialSeq, Slots
<1>5. SeqInv
  <2>1. \A q \in 0 .. NumSlots - 1 : q \in Nat /\ seq[Slot(q)] >= q
    BY <1>4, SlotCount
  <2> QED
    BY <1>2, <1>4, <2>1, SlotCount DEF SeqInv
<1>6. \A p \in Producers : pc[p] = "idle" /\ pos[p] = 0 /\ sent[p] = 0
  BY DEF Init
<1>7. ProducerInv /\ DataInv /\ ConsumerInv
  BY <1>2, <1>6 DEF ProducerInv, DataInv, ConsumerInv, Writing, Reading
<1>8. PrefixInv /\ LogInv /\ EventInv
  BY <1>2, <1>6 DEF PrefixInv, LogInv, OnceInOrder, EventInv, Writing
<1> QED
  BY <1>1, <1>3, <1>5, <1>7, <1>8 DEF RingInv

(* Every step of a producer, of the consumer, and every crash keeps the    *)
(* invariant.                                                              *)
LEMMA NextRingInv ==
  ASSUME NumSlots >= 2, RingInv, [Next]_vars
  PROVE  RingInv'
<1>1. ASSUME NEW p \in Producers, Push(p) \/ Crash(p)
      PROVE  RingInv'
  BY <1>1, TryingInv, CasOkInv, WriteInv, PublishInv DEF Push
<1>2. CASE UNCHANGED vars
  <2>1. /\ UNCHANGED <<tail, head, seq, slotLen, slotData, pc, pos, sent>>
        /\ UNCHANGED <<cpc, out, log, delivered>>
    BY <1>2 DEF vars, shared, producerVars, consumerVars
  <2>2. Freed' = Freed /\ \A p \in Producers : MessageOf(p)' = MessageOf(p)
    BY <2>1 DEF Freed, MessageOf
  <2>3. TypeOK' /\ WindowInv' /\ SeqInv' /\ ProducerInv'
    BY <2>1, <2>2 DEF RingInv, TypeOK, WindowInv, SeqInv, ProducerInv
  <2>4. DataInv' /\ ConsumerInv' /\ PrefixInv' /\ LogInv' /\ EventInv'
    BY <2>1, <2>2 DEF RingInv, DataInv, ConsumerInv, PrefixInv, LogInv, EventInv
  <2> QED
    BY <2>3, <2>4 DEF RingInv
<1>3. CASE TryPop
  BY <1>2, <1>3, ReadInv, FreeInv DEF TryPop, PopNone
<1> QED
  BY <1>1, <1>2, <1>3 DEF Next

(* The inductive invariant, for every ring of two slots or more.           *)
THEOREM RingInvariant ==
  ASSUME NumSlots >= 2
  PROVE  Spec => []RingInv
<1>1. RingInv /\ [Next]_vars => RingInv'
  BY NextRingInv
<1> QED
  BY <1>1, InitRingInv, PTL DEF Spec

-----------------------------------------------------------------------------
(* By the invariant the writing producers hold different positions of one  *)
(* window, and the consumer reads a published one: so their slots differ.  *)
LEMMA RingInvExclusive ==
  ASSUME RingInv
  PROVE  SlotExclusive
  BY OwnersApart DEF SlotExclusive

(* What was delivered is a prefix of a log in which each event is there    *)
(* once and in its producer's order.                                       *)
LEMMA RingInvOrder ==
  ASSUME RingInv
  PROVE  ExactlyOnceInOrder
<1>1. /\ Freed \in Nat /\ Freed <= Len(log) /\ Len(log) \in Nat /\ Freed = Len(delivered)
      /\ log \in Seq(Messages)
      /\ \A i \in 1 .. Freed : i \in 1 .. Len(log) /\ delivered[i] = log[i]
  <2>1. Freed \in Nat /\ Freed <= Len(log) /\ Len(log) \in Nat
    BY WindowTypes DEF RingInv
  <2>2. \A i \in 1 .. Freed : i \in 1 .. Len(log)
    BY <2>1
  <2>3. \A i \in 1 .. Freed : delivered[i] = log[i]
    BY DEF RingInv, PrefixInv
  <2>4. log \in Seq(Messages) /\ Freed = Len(delivered)
    BY DEF RingInv, TypeOK, Freed
  <2> QED
    BY <2>1, <2>2, <2>3, <2>4
<1>2. \A i \in 1 .. Len(delivered) : delivered[i] \in Messages
  BY <1>1
<1>3. OnceInOrder(delivered)
  <2> SUFFICES ASSUME NEW i \in 1 .. Freed
               PROVE  /\ \A j \in 1 .. i - 1 : delivered[j] # delivered[i]
                      /\ \A k \in 0 .. delivered[i][2] - 1 :
                           \E j \in 1 .. i - 1 : delivered[j] = <<delivered[i][1], k>>
    BY <1>1 DEF OnceInOrder
  <2>1. i \in 1 .. Len(log) /\ delivered[i] = log[i]
    BY <1>1
  <2>2. \A j \in 1 .. i - 1 : delivered[j] = log[j]
    BY <1>1
  <2>3. /\ \A j \in 1 .. i - 1 : log[j] # log[i]
        /\ \A k \in 0 .. log[i][2] - 1 : \E j \in 1 .. i - 1 : log[j] = <<log[i][1], k>>
    BY <2>1 DEF RingInv, LogInv, OnceInOrder
  <2> QED
    BY <2>1, <2>2, <2>3
<1> QED
  BY <1>2, <1>3 DEF ExactlyOnceInOrder

(* Data-race freedom: no two accesses to one slot at the same time.        *)
THEOREM NoDataRace ==
  ASSUME NumSlots >= 2
  PROVE  Spec => []SlotExclusive
<1>1. RingInv => SlotExclusive
  BY RingInvExclusive
<1> QED
  BY <1>1, RingInvariant, PTL

(* Every event delivered is whole, delivered once, and in the order of its *)
(* producer with none left out.                                            *)
THEOREM DeliveryCorrect ==
  ASSUME NumSlots >= 2
  PROVE  Spec => []ExactlyOnceInOrder
<1>1. RingInv => ExactlyOnceInOrder
  BY RingInvOrder
<1> QED
  BY <1>1, RingInvariant, PTL

(* A producer that finds its slot a lap behind has a full ring before it:  *)
(* the position it loaded is not in the window that is in use or free.     *)
LEMMA RingInvFull ==
  ASSUME RingInv, NEW p \in Producers, PushFull(p)
  PROVE  tail - Freed >= NumSlots
<1>1. /\ Freed \in Nat /\ tail \in Nat /\ pos[p] \in Nat /\ pos[p] <= tail
      /\ seq[Slot(pos[p])] \in Nat
  BY WindowTypes DEF RingInv, TypeOK, ProducerInv
<1>2. seq[Slot(pos[p])] < pos[p]
  BY <1>1 DEF PushFull, Diff
<1>3. pos[p] \notin 0 .. Freed + NumSlots - 1
  BY <1>1, <1>2 DEF RingInv, SeqInv
<1> QED
  BY <1>1, <1>3, SlotCount

(* Full is answered only when every slot is in use.                        *)
THEOREM FullCorrect ==
  ASSUME NumSlots >= 2
  PROVE  Spec => FullIsHonest
<1>1. RingInv => \A p \in Producers : PushFull(p) => tail - Freed >= NumSlots
  BY RingInvFull
<1>2. RingInv /\ [Next]_vars =>
        [\A p \in Producers : PushFull(p) => tail - Freed >= NumSlots]_vars
  BY <1>1
<1> QED
  BY <1>2, RingInvariant, PTL DEF Spec, FullIsHonest

(* No store to a sequence number takes it back.                            *)
THEOREM SeqMonotone ==
  ASSUME NumSlots >= 2
  PROVE  Spec => SeqNeverGoesBack
<1>1. ASSUME RingInv, Next
      PROVE  \A i \in Slots : seq'[i] >= seq[i]
  <2>1. \A i \in Slots : seq[i] \in Nat
    BY <1>1 DEF RingInv, TypeOK
  <2>2. CASE \E p \in Producers : Publish(p)
    <3>1. PICK p \in Producers : Publish(p)
      BY <2>2
    <3>2. seq[Slot(pos[p])] = pos[p] /\ pos[p] \in Nat
      BY <1>1, <3>1, OwnersApart DEF RingInv, ProducerInv, Publish, Writing
    <3>3. seq' = [seq EXCEPT ![Slot(pos[p])] = pos[p] + 1]
      BY <3>1 DEF Publish
    <3> QED
      BY <1>1, <2>1, <3>2, <3>3 DEF RingInv, TypeOK
  <2>3. CASE Free
    <3>1. head = Freed /\ Freed \in Nat /\ seq[Slot(head)] = head + 1
      BY <1>1, <2>3, WindowTypes DEF RingInv, ConsumerInv, Reading, Free
    <3>2. seq' = [seq EXCEPT ![Slot(head)] = head + NumSlots]
      BY <2>3 DEF Free, FreedSeq
    <3> QED
      BY <1>1, <2>1, <3>1, <3>2, SlotCount DEF RingInv, TypeOK
  <2>4. CASE seq' = seq
    BY <2>1, <2>4
  <2>5. ASSUME ~Free, \A p \in Producers : ~Publish(p)
        PROVE  seq' = seq
    BY <1>1, <2>5 DEF Next, Push, TryPop, TooBig, LoadTail, PushSlotFree, PushFull, PushStale,
      CasOk, CasFail, WriteLen, WriteData, Crash, PopNone, PopStart, ReadLen, ReadData, Advance,
      shared, vars
  <2> QED
    BY <2>2, <2>3, <2>4, <2>5
<1>2. RingInv /\ [Next]_vars => [\A i \in Slots : seq'[i] >= seq[i]]_vars
  BY <1>1
<1> QED
  BY <1>2, RingInvariant, PTL DEF Spec, SeqNeverGoesBack
=============================================================================
