------------------------------- MODULE MpscRing -------------------------------
(***************************************************************************)
(* The ring in shared memory (src/src/ring.rs): init, push and try_pop,    *)
(* one action per atomic operation or plain memory access, so that every   *)
(* interleaving of any number of producers with the one consumer is a      *)
(* behaviour.                                                              *)
(*                                                                         *)
(* Interleaving is the right granularity here: each plain access to a slot *)
(* is ordered by an Acquire load of its seq that read a Release store, and *)
(* the relaxed operations on tail only choose which position is tried.     *)
(* The wake-up word, where the order of a store and a later load matters,  *)
(* is the subject of ShmMpsc.                                              *)
(*                                                                         *)
(* A message is <<producer, k>>: the k-th event of a producer.  Its bytes  *)
(* and its length are each represented by the message they belong to.      *)
(*                                                                         *)
(* A definition marked "Wrong" is a mistake the code could have made.  No  *)
(* action uses it; put in the place of the definition that follows it, it  *)
(* must break a property.                                                  *)
(***************************************************************************)
EXTENDS Integers, Sequences

CONSTANTS
  Producers,   \* the threads or processes that push
  NumSlots,    \* RingConfig.num_slots
  Count,       \* how many events each producer pushes (run's argument n)
  Oversize,    \* the messages longer than payload_capacity() - 4
  Crashable,   \* the producers that may be killed at any point
  NoMessage    \* what a slot holds before its first use

Messages == Producers \X (0 .. Count - 1)

(* RingConfig::check accepts every power of two, 1 included.               *)
ASSUME RingAssumption ==
  /\ NumSlots \in Nat \ {0}
  /\ \E k \in 0 .. NumSlots : NumSlots = 2 ^ k
  /\ Count \in Nat
  /\ Crashable \subseteq Producers
  /\ Oversize \subseteq Messages
  /\ NoMessage \notin Messages

VARIABLES
  tail,        \* next position to reserve
  head,        \* next position to consume, written by the consumer only
  seq,         \* the sequence number of each slot
  slotLen,     \* the len field of each slot
  slotData,    \* the payload bytes of each slot
  pc, pos,     \* where each producer is inside push, and its local pos
  sent,        \* how many events each producer has pushed
  cpc, out,    \* where the consumer is inside try_pop, and what it has read
  log,         \* history: the messages in the order their positions were won
  delivered    \* history: the messages try_pop has released, in order

shared == <<tail, head, seq, slotLen, slotData>>
producerVars == <<pc, pos, sent>>
consumerVars == <<cpc, out>>
vars == <<shared, producerVars, consumerVars, log, delivered>>

Slots == 0 .. NumSlots - 1

(* slot_ptr: idx & mask() is idx modulo num_slots for a power of two.      *)
Slot(q) == q % NumSlots

MessageOf(p) == <<p, sent[p]>>

(* The sequence number init gives to slot i.  Wrong: a segment that is only*)
(* zeroed.                                                                 *)
ZeroedSeq(i) == 0
InitialSeq(i) == i

Init ==
  /\ tail = 0
  /\ head = 0
  /\ seq = [i \in Slots |-> InitialSeq(i)]
  /\ slotLen = [i \in Slots |-> NoMessage]
  /\ slotData = [i \in Slots |-> NoMessage]
  /\ pc = [p \in Producers |-> "idle"]
  /\ pos = [p \in Producers |-> 0]
  /\ sent = [p \in Producers |-> 0]
  /\ cpc = "idle"
  /\ out = [len |-> NoMessage, data |-> NoMessage]
  /\ log = <<>>
  /\ delivered = <<>>

-----------------------------------------------------------------------------
(* push.  A producer in "idle" is about to call push for its next event or *)
(* is at the top of push's loop: the length test passed, so repeating it   *)
(* changes nothing.                                                        *)

TooBig(p) ==
  /\ pc[p] = "idle" /\ sent[p] < Count /\ MessageOf(p) \in Oversize
  /\ pc' = [pc EXCEPT ![p] = "bailed"]
  /\ UNCHANGED <<shared, pos, sent, consumerVars, log, delivered>>

LoadTail(p) ==
  /\ pc[p] = "idle" /\ sent[p] < Count /\ MessageOf(p) \notin Oversize
  /\ pos' = [pos EXCEPT ![p] = tail]
  /\ pc' = [pc EXCEPT ![p] = "load_seq"]
  /\ UNCHANGED <<shared, sent, consumerVars, log, delivered>>

(* The signed difference push branches on.                                 *)
Diff(p) == seq[Slot(pos[p])] - pos[p]

PushSlotFree(p) ==
  /\ pc[p] = "load_seq" /\ Diff(p) = 0
  /\ pc' = [pc EXCEPT ![p] = "cas"]
  /\ UNCHANGED <<shared, pos, sent, consumerVars, log, delivered>>

(* Err(Full): the caller sleeps and calls push again with the same event.  *)
PushFull(p) ==
  /\ pc[p] = "load_seq" /\ Diff(p) < 0
  /\ pc' = [pc EXCEPT ![p] = "idle"]
  /\ UNCHANGED <<shared, pos, sent, consumerVars, log, delivered>>

(* Another producer has won this position: reload tail.                    *)
PushStale(p) ==
  /\ pc[p] = "load_seq" /\ Diff(p) > 0
  /\ pc' = [pc EXCEPT ![p] = "idle"]
  /\ UNCHANGED <<shared, pos, sent, consumerVars, log, delivered>>

(* The comparison of the compare_exchange on tail.  Wrong: a plain store.  *)
TailNotCompared(p) == TRUE
TailUnmoved(p) == tail = pos[p]

CasOk(p) ==
  /\ pc[p] = "cas" /\ TailUnmoved(p)
  /\ tail' = pos[p] + 1
  /\ log' = Append(log, MessageOf(p))
  /\ pc' = [pc EXCEPT ![p] = "write_len"]
  /\ UNCHANGED <<head, seq, slotLen, slotData, pos, sent, consumerVars, delivered>>

(* compare_exchange_weak may also fail when tail has not moved.            *)
CasFail(p) ==
  /\ pc[p] = "cas"
  /\ pc' = [pc EXCEPT ![p] = "idle"]
  /\ UNCHANGED <<shared, pos, sent, consumerVars, log, delivered>>

WriteLen(p) ==
  /\ pc[p] = "write_len"
  /\ slotLen' = [slotLen EXCEPT ![Slot(pos[p])] = MessageOf(p)]
  /\ pc' = [pc EXCEPT ![p] = "write_data"]
  /\ UNCHANGED <<tail, head, seq, slotData, pos, sent, consumerVars, log, delivered>>

WriteData(p) ==
  /\ pc[p] = "write_data"
  /\ slotData' = [slotData EXCEPT ![Slot(pos[p])] = MessageOf(p)]
  /\ pc' = [pc EXCEPT ![p] = "publish"]
  /\ UNCHANGED <<tail, head, seq, slotLen, pos, sent, consumerVars, log, delivered>>

Publish(p) ==
  /\ pc[p] = "publish"
  /\ seq' = [seq EXCEPT ![Slot(pos[p])] = pos[p] + 1]
  /\ sent' = [sent EXCEPT ![p] = @ + 1]
  /\ pc' = [pc EXCEPT ![p] = "idle"]
  /\ UNCHANGED <<tail, head, slotLen, slotData, pos, consumerVars, log, delivered>>

(* A producer is killed; what it wrote to the segment stays.               *)
Crash(p) ==
  /\ p \in Crashable /\ pc[p] \notin {"bailed", "crashed"}
  /\ pc' = [pc EXCEPT ![p] = "crashed"]
  /\ UNCHANGED <<shared, pos, sent, consumerVars, log, delivered>>

-----------------------------------------------------------------------------
(* try_pop.  head is read by nobody but the consumer, so its load is one   *)
(* step with the load of seq.                                              *)

(* Wrong: a reserved slot is taken for a published one.                    *)
HeadReserved == tail > head
HeadReady == seq[Slot(head)] = head + 1

PopNone ==
  /\ cpc = "idle" /\ ~HeadReady
  /\ UNCHANGED vars

PopStart ==
  /\ cpc = "idle" /\ HeadReady
  /\ cpc' = "read_len"
  /\ UNCHANGED <<shared, producerVars, out, log, delivered>>

ReadLen ==
  /\ cpc = "read_len"
  /\ out' = [out EXCEPT !.len = slotLen[Slot(head)]]
  /\ cpc' = "read_data"
  /\ UNCHANGED <<shared, producerVars, log, delivered>>

ReadData ==
  /\ cpc = "read_data"
  /\ out' = [out EXCEPT !.data = slotData[Slot(head)]]
  /\ cpc' = "free"
  /\ UNCHANGED <<shared, producerVars, log, delivered>>

(* What the caller gets: a length and bytes that belong to different       *)
(* messages are no message.                                                *)
Received == IF out.len = out.data THEN out.data ELSE NoMessage

(* The sequence number that lets a producer of the next lap in.  Wrong:    *)
(* that of this lap again, and a lap back.                                 *)
FreedThisLap == head
FreedLapBack == head - NumSlots
FreedSeq == head + NumSlots

Free ==
  /\ cpc = "free"
  /\ seq' = [seq EXCEPT ![Slot(head)] = FreedSeq]
  /\ delivered' = Append(delivered, Received)
  /\ cpc' = "advance"
  /\ UNCHANGED <<tail, head, slotLen, slotData, producerVars, out, log>>

Advance ==
  /\ cpc = "advance"
  /\ head' = head + 1
  /\ cpc' = "idle"
  /\ UNCHANGED <<tail, seq, slotLen, slotData, producerVars, out, log, delivered>>

-----------------------------------------------------------------------------
Push(p) ==
  \/ TooBig(p)
  \/ LoadTail(p)
  \/ PushSlotFree(p) \/ PushFull(p) \/ PushStale(p)
  \/ CasOk(p) \/ CasFail(p)
  \/ WriteLen(p) \/ WriteData(p) \/ Publish(p)

TryPop == PopNone \/ PopStart \/ ReadLen \/ ReadData \/ Free \/ Advance

Next == (\E p \in Producers : Push(p) \/ Crash(p)) \/ TryPop

Spec == Init /\ [][Next]_vars

(* Every thread keeps running, and a weak compare_exchange that keeps      *)
(* finding tail unmoved is not failed by the processor for ever.           *)
Fairness ==
  /\ \A p \in Producers : WF_vars(Push(p)) /\ SF_vars(CasOk(p))
  /\ WF_vars(TryPop)

FairSpec == Spec /\ Fairness

-----------------------------------------------------------------------------
(* Properties.                                                             *)

Writing == {"write_len", "write_data", "publish"}
Reading == {"read_len", "read_data", "free"}

(* How many positions the consumer has given back to the producers.        *)
Freed == Len(delivered)

(* Type correctness of the segment, of the callers' local variables and of *)
(* the history.                                                            *)
TypeOK ==
  /\ tail \in Nat
  /\ head \in Nat
  /\ seq \in [Slots -> Nat]
  /\ slotLen \in [Slots -> Messages \cup {NoMessage}]
  /\ slotData \in [Slots -> Messages \cup {NoMessage}]
  /\ pc \in [Producers -> {"idle", "load_seq", "cas", "bailed", "crashed"} \cup Writing]
  /\ pos \in [Producers -> Nat]
  /\ sent \in [Producers -> 0 .. Count]
  /\ \A p \in Producers : pc[p] \in {"load_seq", "cas"} \cup Writing => sent[p] < Count
  /\ cpc \in {"idle", "advance"} \cup Reading
  /\ out \in [len : Messages \cup {NoMessage}, data : Messages \cup {NoMessage}]
  /\ log \in Seq(Messages)
  /\ delivered \in Seq(Messages \cup {NoMessage})

(* No data race: the plain writes of push and the plain reads of try_pop   *)
(* never touch one slot at the same time, whatever positions the producers *)
(* hold and however far they have lapped one another.                      *)
SlotExclusive ==
  /\ \A p1, p2 \in Producers :
       p1 # p2 /\ pc[p1] \in Writing /\ pc[p2] \in Writing
         => Slot(pos[p1]) # Slot(pos[p2])
  /\ \A p \in Producers :
       pc[p] \in Writing /\ cpc \in Reading => Slot(pos[p]) # Slot(head)

(* A sequence of events has each one once, and after every earlier event   *)
(* of its producer.                                                        *)
OnceInOrder(events) ==
  \A i \in 1 .. Len(events) :
    /\ \A j \in 1 .. i - 1 : events[j] # events[i]
    /\ \A k \in 0 .. events[i][2] - 1 :
         \E j \in 1 .. i - 1 : events[j] = <<events[i][1], k>>

(* What try_pop hands over is whole, no event is delivered twice, and an   *)
(* event comes after every earlier event of its producer: none of them is  *)
(* overtaken or skipped.                                                   *)
ExactlyOnceInOrder ==
  /\ \A i \in 1 .. Len(delivered) : delivered[i] \in Messages
  /\ OnceInOrder(delivered)

(* push answers Full only when every slot is taken: although it works on a *)
(* tail it read earlier, the answer is true when it is given.              *)
FullIsHonest ==
  [][\A p \in Producers : PushFull(p) => tail - Freed >= NumSlots]_vars

(* The sequence number of a slot never goes back, whoever writes it: a     *)
(* producer that slept through laps of the ring cannot be fooled by it.    *)
SeqNeverGoesBack ==
  [][\A i \in Slots : seq'[i] >= seq[i]]_vars

(* The ring implements the bounded queue of MpscQueue: a position is       *)
(* reserved by the compare_exchange, ready from the Release store of push, *)
(* and given back by the Release store of try_pop.                         *)
Ready == {q \in 0 .. tail - 1 : q < Freed \/ seq[Slot(q)] = q + 1}

Queue == INSTANCE MpscQueue
           WITH Message <- Messages, Capacity <- NumSlots, ready <- Ready

ImplementsQueue == Queue!Spec

(* The next position was reserved by a producer that was killed before it  *)
(* published: nothing behind it can be delivered any more.                 *)
Stalled ==
  /\ Freed < tail /\ seq[Slot(Freed)] = Freed
  /\ pc[log[Freed + 1][1]] = "crashed"

(* With threads that keep running, every producer gets through its events, *)
(* or stops at one that is too big, and all that was pushed is delivered;  *)
(* a producer that is killed can stop that only at a position of its own.  *)
EverythingDelivered ==
  /\ <>[](delivered = log \/ Stalled)
  /\ <>[]Stalled \/ \A p \in Producers : <>(sent[p] = Count \/ pc[p] \in {"bailed", "crashed"})

-----------------------------------------------------------------------------
(* The inductive invariant behind them.                                    *)

(* The positions in use are a window of at most NumSlots.                  *)
WindowInv ==
  /\ tail = Len(log)
  /\ Freed <= tail
  /\ tail <= Freed + NumSlots
  /\ head = IF cpc = "advance" THEN Freed - 1 ELSE Freed

(* The slot of a position in use says "reserved" or "published", the slot  *)
(* of a position a producer may win next says "free", and no slot is       *)
(* behind a position it has served.                                        *)
SeqInv ==
  /\ \A q \in Freed .. tail - 1 : seq[Slot(q)] \in {q, q + 1}
  /\ \A q \in tail .. Freed + NumSlots - 1 : seq[Slot(q)] = q
  /\ \A q \in 0 .. Freed + NumSlots - 1 : seq[Slot(q)] >= q

(* A producer past its compare_exchange owns a position of the window that *)
(* is not published; one before it works on a position not yet passed by.  *)
ProducerInv ==
  \A p \in Producers :
    /\ pos[p] <= tail
    /\ pc[p] = "cas" => seq[Slot(pos[p])] >= pos[p]
    /\ pc[p] \in Writing =>
         /\ Freed <= pos[p] /\ pos[p] < tail
         /\ seq[Slot(pos[p])] = pos[p]
         /\ log[pos[p] + 1] = MessageOf(p)
         /\ \A p2 \in Producers \ {p} : pc[p2] \in Writing => pos[p2] # pos[p]

(* The fields of a slot belong to the message of the position it serves.   *)
DataInv ==
  /\ \A q \in Freed .. tail - 1 :
       seq[Slot(q)] = q + 1 =>
         slotLen[Slot(q)] = log[q + 1] /\ slotData[Slot(q)] = log[q + 1]
  /\ \A p \in Producers :
       /\ pc[p] \in {"write_data", "publish"} => slotLen[Slot(pos[p])] = MessageOf(p)
       /\ pc[p] = "publish" => slotData[Slot(pos[p])] = MessageOf(p)

(* The consumer reads a published position of the window.                  *)
ConsumerInv ==
  /\ cpc \in Reading => Freed < tail /\ seq[Slot(head)] = head + 1
  /\ cpc \in {"read_data", "free"} => out.len = log[head + 1]
  /\ cpc = "free" => out.data = log[head + 1]

(* What was delivered is a prefix of the log.                              *)
PrefixInv == \A i \in 1 .. Freed : delivered[i] = log[i]

(* The log holds each event once, after the earlier events of its producer.*)
LogInv == OnceInOrder(log)

(* The log holds what a producer has pushed, what it is writing, and none  *)
(* of its later events.                                                    *)
EventInv ==
  \A p \in Producers :
    /\ \A k \in 0 .. sent[p] - 1 : \E i \in 1 .. Len(log) : log[i] = <<p, k>>
    /\ pc[p] \in {"idle", "load_seq", "cas"} =>
         \A i \in 1 .. Len(log) : log[i][1] = p => log[i][2] < sent[p]
    /\ pc[p] \in Writing =>
         \A i \in 1 .. Len(log) : log[i][1] = p => log[i][2] <= sent[p]

RingInv ==
  /\ TypeOK /\ WindowInv /\ SeqInv
  /\ ProducerInv /\ DataInv /\ ConsumerInv
  /\ PrefixInv /\ LogInv /\ EventInv
=============================================================================
