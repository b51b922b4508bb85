---------------------------- MODULE ShmRingProofs ----------------------------
(***************************************************************************)
(* The system on the ring: for any producers, any number of events and any *)
(* ring of at least two slots, whoever is killed.  The ring keeps all that *)
(* MpscRing promises when it is driven by run and consumer_loop, and       *)
(* ShmMpsc, which has a queue in its place, misses nothing that they do.   *)
(***************************************************************************)
EXTENDS ShmRing, MpscRingRefinement, FiniteSetTheorems

-----------------------------------------------------------------------------
(* The system drives the ring as MpscRing says it may be driven.           *)

(* The steps of run and its tasks, of consumer_loop, and of everything else*)
(* are each one step of the ring or none.                                  *)
LEMMA StepIsRingStep ==
  ASSUME [SystemNext]_allVars
  PROVE  [Next]_vars
<1>1. ASSUME NEW p \in Producers, RunStep(p)
      PROVE  [Next]_vars
  BY <1>1 DEF RunStep, PushGoesOn, PushReserves, PushOk, PushErrFull, PushErrTooBig,
    RunElsewhere, Next, Push
<1>2. ASSUME NEW p \in Producers, WriterStep(p) \/ ServeStep(p) \/ ExitStep(p) \/ CrashStep(p)
      PROVE  [Next]_vars
  BY <1>2 DEF WriterStep, ServeStep, ExitStep, CrashStep, Next
<1>3. CASE LoopStep
  BY <1>3 DEF LoopStep, PopGoesOn, PopFrees, PopReturns, PopReturnsNone, LoopElsewhere, Next,
    TryPop
<1>4. CASE AroundLoop \/ UNCHANGED allVars
  BY <1>4 DEF AroundLoop, allVars
<1> QED
  BY <1>1, <1>2, <1>3, <1>4 DEF SystemNext

(* So every fact about the ring holds of it inside the system.             *)
THEOREM SystemDrivesRing == SystemSpec => Spec
<1>1. SystemInit => Init
  BY DEF SystemInit
<1> QED
  BY <1>1, StepIsRingStep, PTL DEF SystemSpec, Spec

-----------------------------------------------------------------------------
(* What run believes of push.                                              *)

AtStates ==
  {"waiting", "push", "publish", "check_state", "signal", "shutdown", "ended", "bailed", "dead"}

CallerTypes ==
  /\ at \in [Producers -> AtStates]
  /\ event \in [Producers -> Nat]
  /\ won \in [Producers -> Nat]

(* The steps of a producer, and of what may happen to it.                  *)
LEMMA CallerSteps ==
  ASSUME [SystemNext]_allVars
  PROVE  \/ \E p \in Producers : RunStep(p) \/ ExitStep(p) \/ CrashStep(p)
         \/ UNCHANGED <<at, event, won, pc, pos, sent>>
<1>1. CASE \E p \in Producers : WriterStep(p) \/ ServeStep(p)
  BY <1>1 DEF WriterStep, ServeStep, System!WriterSend, System!WriterFails, System!Serve,
    System!PostedAnswerFails, System!producerVars, vars, producerVars
<1>2. CASE LoopStep
  <2>1. CASE PopGoesOn \/ PopFrees \/ PopReturns \/ PopReturnsNone
    BY <2>1 DEF PopGoesOn, PopFrees, PopReturns, PopReturnsNone, PopStart, ReadLen, ReadData,
      Free, Advance, PopNone, producerVars, vars, runVars, systemVars
  <2>2. CASE LoopElsewhere
    BY <2>2 DEF LoopElsewhere, System!Stopped, System!StartPass, System!CountEvent,
      System!StoreParked, System!StoreRunning, System!Park, System!Unparked,
      System!ParkTimeout, System!producerVars, vars, producerVars
  <2> QED
    BY <1>2, <2>1, <2>2 DEF LoopStep
<1>3. CASE AroundLoop \/ UNCHANGED allVars
  BY <1>3 DEF AroundLoop, System!Flush, System!ServerDies, System!BenchStop, System!Finished,
    System!producerVars, System!vars, vars, producerVars, allVars, systemVars, runVars
<1> QED
  BY <1>1, <1>2, <1>3 DEF SystemNext

(* How run, and what may happen to its process, moves a producer on.       *)
LEMMA Elsewhere ==
  ASSUME NEW p \in Producers, RunElsewhere(p)
  PROVE  /\ UNCHANGED <<pc, pos, sent, won>>
         /\ \/ /\ at[p] = "waiting" /\ at' = [at EXCEPT ![p] = "push"]
               /\ event' = event
            \/ /\ at[p] = "check_state" /\ at' = [at EXCEPT ![p] = "signal"]
               /\ event' = event
            \/ /\ at[p] \in {"check_state", "signal"}
               /\ \E w \in {"push", "shutdown"} : at' = [at EXCEPT ![p] = w]
               /\ event' = [event EXCEPT ![p] = event[p] + 1]
            \/ /\ at[p] = "shutdown" /\ at' = [at EXCEPT ![p] = "ended"]
               /\ event' = event
<1>1. UNCHANGED <<pc, pos, sent>>
  BY DEF RunElsewhere, vars, producerVars
<1>2. CASE System!Resume(p) \/ System!WinWake(p)
  BY <1>1, <1>2 DEF System!Resume, System!WinWake
<1>3. CASE System!NoWake(p) \/ System!SignalPosted(p)
  BY <1>1, <1>3 DEF System!NoWake, System!SignalPosted, System!NextEvent
<1>4. CASE System!JsonShutdown(p) \/ System!CapnpShutdown(p)
  BY <1>1, <1>4 DEF System!JsonShutdown, System!CapnpShutdown
<1> QED
  BY <1>2, <1>3, <1>4 DEF RunElsewhere

LEMMA CallerTyped ==
  ASSUME RingInv, CallerTypes, [SystemNext]_allVars
  PROVE  CallerTypes'
<1> USE DEF AtStates, CallerTypes
<1>1. pos \in [Producers -> Nat]
  BY DEF RingInv, TypeOK
<1>2. ASSUME NEW p \in Producers, RunStep(p)
      PROVE  CallerTypes'
  <2>1. CASE PushGoesOn(p)
    BY <2>1 DEF PushGoesOn, systemVars, runVars
  <2>2. CASE PushReserves(p)
    BY <1>1, <2>2 DEF PushReserves
  <2>3. CASE PushOk(p) \/ PushErrFull(p) \/ PushErrTooBig(p)
    BY <2>3 DEF PushOk, PushErrFull, PushErrTooBig, runVars
  <2>4. CASE RunElsewhere(p)
    BY <2>4, Elsewhere
  <2> QED
    BY <1>2, <2>1, <2>2, <2>3, <2>4 DEF RunStep
<1>3. ASSUME NEW p \in Producers, ExitStep(p) \/ CrashStep(p)
      PROVE  CallerTypes'
  BY <1>3 DEF ExitStep, CrashStep, System!Exit, System!Crash
<1> QED
  BY <1>2, <1>3, CallerSteps

(* What CallerInv says of one producer.                                    *)
Caller(p) ==
  /\ at[p] = "push" => pc[p] \in {"idle", "load_seq", "cas"}
  /\ at[p] = "publish" => pc[p] \in Writing /\ won[p] = pos[p]
  /\ at[p] \in {"waiting", "check_state", "signal", "shutdown", "ended"} => pc[p] = "idle"
  /\ at[p] \in {"waiting", "push", "publish"} => sent[p] = event[p]
  /\ at[p] \in {"check_state", "signal"} => sent[p] = event[p] + 1
  /\ pc[p] \in InsidePush => MessageOf(p) \notin Oversize

LEMMA CallerKept ==
  ASSUME RingInv, CallerTypes, CallerInv, [SystemNext]_allVars
  PROVE  CallerInv'
<1> USE DEF InsidePush, Writing
<1>1. /\ pc \in [Producers -> {"idle", "load_seq", "cas", "bailed", "crashed"} \cup Writing]
      /\ pos \in [Producers -> Nat] /\ sent \in [Producers -> Nat]
      /\ at \in [Producers -> AtStates] /\ event \in [Producers -> Nat]
      /\ won \in [Producers -> Nat]
  BY RingAssumption DEF RingInv, TypeOK, CallerTypes
<1>2. \A q \in Producers : Caller(q)
  BY DEF CallerInv, Caller
<1>3. ASSUME NEW p \in Producers, Caller(p)',
             \A q \in Producers \ {p} :
               /\ pc'[q] = pc[q] /\ pos'[q] = pos[q] /\ sent'[q] = sent[q]
               /\ at'[q] = at[q] /\ event'[q] = event[q] /\ won'[q] = won[q]
      PROVE  CallerInv'
  <2>1. \A q \in Producers \ {p} : Caller(q)'
    BY <1>2, <1>3 DEF Caller, MessageOf
  <2> QED
    BY <1>3, <2>1 DEF CallerInv, Caller
<1>4. ASSUME NEW p \in Producers, RunStep(p)
      PROVE  CallerInv'
  <2>1. CASE PushGoesOn(p)
    <3>1. UNCHANGED <<at, event, won, sent>>
      BY <2>1 DEF PushGoesOn, systemVars, runVars, LoadTail, PushSlotFree, PushStale, CasFail,
        WriteLen, WriteData
    <3>2. CASE LoadTail(p)
      <4>1. /\ at[p] = "push" /\ pos' = [pos EXCEPT ![p] = tail]
            /\ MessageOf(p) \notin Oversize /\ pc' = [pc EXCEPT ![p] = "load_seq"]
        BY <1>2, <2>1, <3>2 DEF PushGoesOn, LoadTail, Caller
      <4>2. Caller(p)'
        BY <1>1, <1>2, <3>1, <4>1 DEF Caller, MessageOf
      <4> QED
        BY <1>1, <1>3, <3>1, <4>1, <4>2
    <3>3. CASE PushSlotFree(p) \/ PushStale(p) \/ CasFail(p)
      BY <1>1, <1>2, <1>3, <3>1, <3>3 DEF PushSlotFree, PushStale, CasFail, Caller, MessageOf
    <3>4. CASE WriteLen(p) \/ WriteData(p)
      BY <1>1, <1>2, <1>3, <3>1, <3>4 DEF WriteLen, WriteData, Caller, MessageOf
    <3> QED
      BY <2>1, <3>2, <3>3, <3>4 DEF PushGoesOn
  <2>2. CASE PushReserves(p)
    <3>1. /\ at[p] = "push" /\ at' = [at EXCEPT ![p] = "publish"]
          /\ won' = [won EXCEPT ![p] = pos[p]] /\ UNCHANGED <<event, pos, sent>>
          /\ pc[p] = "cas" /\ pc' = [pc EXCEPT ![p] = "write_len"]
      BY <2>2 DEF PushReserves, CasOk
    <3>2. Caller(p)'
      BY <1>1, <1>2, <3>1 DEF Caller, MessageOf
    <3> QED
      BY <1>1, <1>3, <3>1, <3>2
  <2>3. CASE PushOk(p)
    BY <1>1, <1>2, <1>3, <2>3 DEF PushOk, Publish, runVars, Caller, MessageOf
  <2>4. CASE PushErrFull(p)
    BY <1>1, <1>2, <1>3, <2>4 DEF PushErrFull, PushFull, runVars, Caller, MessageOf
  <2>5. CASE PushErrTooBig(p)
    BY <1>1, <1>2, <1>3, <2>5 DEF PushErrTooBig, TooBig, runVars, Caller, MessageOf
  <2>6. CASE RunElsewhere(p)
    <3>1. UNCHANGED <<pc, pos, sent, won>>
      BY <2>6, Elsewhere
    <3>2. Caller(p)'
      BY <1>1, <1>2, <2>6, <3>1, Elsewhere DEF Caller, MessageOf
    <3>3. \A q \in Producers \ {p} : at'[q] = at[q] /\ event'[q] = event[q]
      BY <1>1, <2>6, Elsewhere
    <3> QED
      BY <1>3, <3>1, <3>2, <3>3
  <2> QED
    BY <1>4, <2>1, <2>2, <2>3, <2>4, <2>5, <2>6 DEF RunStep
<1>5. ASSUME NEW p \in Producers, ExitStep(p) \/ CrashStep(p)
      PROVE  CallerInv'
  <2>1. /\ UNCHANGED <<event, won, pos, sent>>
        /\ at' = [at EXCEPT ![p] = "dead"]
        /\ pc' = pc \/ pc' = [pc EXCEPT ![p] = "crashed"]
    BY <1>5 DEF ExitStep, CrashStep, Crash, System!Exit, System!Crash, vars, producerVars
  <2>2. Caller(p)'
    <3>1. at'[p] = "dead" /\ (pc'[p] = pc[p] \/ pc'[p] = "crashed")
      BY <1>1, <2>1
    <3> QED
      BY <1>2, <2>1, <3>1 DEF Caller, MessageOf
  <2> QED
    BY <1>1, <1>3, <2>1, <2>2
<1>6. CASE UNCHANGED <<at, event, won, pc, pos, sent>>
  BY <1>6 DEF CallerInv, MessageOf
<1> QED
  BY <1>4, <1>5, <1>6, CallerSteps

(* What the system knows of the ring and of its callers.                   *)
SystemInv == RingInv /\ CallerTypes /\ CallerInv

(* Which is true from the start and stays true.                           *)
LEMMA SystemInvariant ==
  ASSUME NumSlots >= 2
  PROVE  SystemSpec => []SystemInv
<1>1. SystemInit => CallerTypes /\ CallerInv
  BY DEF SystemInit, Init, System!Init, CallerTypes, AtStates, CallerInv, InsidePush, Writing
<1>2. SystemInit => RingInv
  BY InitRingInv DEF SystemInit
<1>3. SystemInv /\ [SystemNext]_allVars => SystemInv'
  BY StepIsRingStep, NextRingInv, CallerTyped, CallerKept DEF SystemInv
<1> QED
  BY <1>1, <1>2, <1>3, PTL DEF SystemSpec, SystemInv

(* run is never wrong about the push it has called.                        *)
THEOREM CallerNotFooled ==
  ASSUME NumSlots >= 2
  PROVE  SystemSpec => []CallerInv
<1>1. SystemInv => CallerInv
  BY DEF SystemInv
<1> QED
  BY <1>1, SystemInvariant, PTL

-----------------------------------------------------------------------------
(* The system on the ring implements the system on the queue.              *)

(* Steps inside push and try_pop are invisible.                            *)
LEMMA InsideCall ==
  ASSUME UNCHANGED <<tail, seq, log, delivered>>, UNCHANGED systemVars
  PROVE  UNCHANGED System!vars
BY Invisible DEF systemVars, runVars, wakeVars, System!vars, System!queueVars,
  System!producerVars, System!consumerVars

(* A call of push that returns, and the step that decides that it will.    *)
LEMMA PushReturns ==
  ASSUME NumSlots >= 2, SystemInv, NEW p \in Producers
  PROVE  /\ PushReserves(p) => System!PushReserve(p)
         /\ PushOk(p) => System!PushPublish(p)
         /\ PushErrFull(p) => System!PushFull(p)
         /\ PushErrTooBig(p) => System!PushTooBig(p)
<1>0. RingInv /\ Caller(p) /\ Len(log) = tail /\ tail \in Nat
  BY DEF SystemInv, CallerInv, Caller, RingInv, WindowInv, TypeOK
<1>1. at[p] = "push" => System!MessageOf(p) = MessageOf(p)
  BY <1>0 DEF Caller, MessageOf, System!MessageOf
<1>2. ASSUME PushReserves(p)
      PROVE  System!PushReserve(p)
  <2>1. Queue!Reserve(MessageOf(p)) /\ pos[p] = Len(log)
    BY <1>0, <1>2, CasOkReserves DEF PushReserves, CasOk, TailUnmoved
  <2>2. MessageOf(p) \notin Oversize
    BY <1>0, <1>2 DEF PushReserves, CasOk, Caller, InsidePush
  <2> QED
    BY <1>1, <1>2, <2>1, <2>2 DEF PushReserves, wakeVars, System!PushReserve,
      System!Queue!Reserve, Queue!Reserve, System!consumerVars
<1>3. ASSUME PushOk(p)
      PROVE  System!PushPublish(p)
  <2>1. Queue!MakeReady(pos[p]) /\ won[p] = pos[p]
    BY <1>0, <1>3, PublishMakesReady DEF PushOk, Caller
  <2> QED
    BY <1>3, <2>1 DEF PushOk, runVars, wakeVars, System!PushPublish,
      System!Queue!MakeReady, Queue!MakeReady, System!consumerVars
<1>4. ASSUME PushErrFull(p)
      PROVE  System!PushFull(p)
  <2>1. Len(log) - Len(delivered) >= NumSlots
    BY <1>0, <1>4, RingInvFull DEF PushErrFull, Freed
  <2>2. MessageOf(p) \notin Oversize
    BY <1>0, <1>4 DEF PushErrFull, PushFull, Caller, InsidePush
  <2>3. UNCHANGED <<log, Ready, delivered>>
    BY <1>4, Invisible DEF PushErrFull, PushFull, shared
  <2> QED
    BY <1>1, <1>4, <2>1, <2>2, <2>3 DEF PushErrFull, runVars, wakeVars, System!PushFull,
      System!queueVars, System!consumerVars
<1>5. ASSUME PushErrTooBig(p)
      PROVE  System!PushTooBig(p)
  <2>1. UNCHANGED <<log, Ready, delivered>> /\ MessageOf(p) \in Oversize
    BY <1>5, Invisible DEF PushErrTooBig, TooBig, shared
  <2> QED
    BY <1>1, <1>5, <2>1 DEF PushErrTooBig, runVars, wakeVars, System!PushTooBig,
      System!queueVars, System!consumerVars
<1> QED
  BY <1>2, <1>3, <1>4, <1>5

(* The consumer's own head is where the next position to deliver is, so    *)
(* its look at the slot tells whether that position is ready.              *)
LEMMA LookIsHonest ==
  ASSUME RingInv, cpc = "idle"
  PROVE  HeadReady <=> System!HeadReady
<1>1. /\ Freed \in Nat /\ tail \in Nat /\ Freed <= tail /\ tail <= Freed + NumSlots
      /\ head = Freed
  BY WindowTypes DEF RingInv, WindowInv
<1>2. seq[Slot(Freed)] = Freed + 1 => Freed < tail
  <2>1. Freed \in tail .. Freed + NumSlots - 1 => seq[Slot(Freed)] = Freed
    BY DEF RingInv, SeqInv
  <2> QED
    BY <1>1, <2>1, SlotCount
<1> QED
  BY <1>1, <1>2 DEF HeadReady, System!HeadReady, Ready, Freed

(* The same for try_pop.                                                   *)
LEMMA PopReturnsWhat ==
  ASSUME SystemInv
  PROVE  /\ PopFrees => System!Pop
         /\ PopReturnsNone => System!DrainEnd \/ System!RecheckEmpty
<1>0. RingInv
  BY DEF SystemInv
<1>1. ASSUME PopFrees
      PROVE  System!Pop
  <2>1. Queue!Deliver
    BY <1>0, <1>1, FreeDelivers DEF PopFrees
  <2> QED
    BY <1>1, <2>1 DEF PopFrees, runVars, wakeVars, System!Pop, System!Queue!Deliver,
      Queue!Deliver, System!producerVars
<1>2. ASSUME PopReturnsNone
      PROVE  System!DrainEnd \/ System!RecheckEmpty
  <2>1. ~System!HeadReady /\ UNCHANGED <<log, Ready, delivered>>
    BY <1>0, <1>2, LookIsHonest, Invisible DEF PopReturnsNone, PopNone, vars, shared
  <2> QED
    BY <1>2, <2>1 DEF PopReturnsNone, runVars, wakeVars, System!DrainEnd,
      System!RecheckEmpty, System!queueVars, System!producerVars
<1> QED
  BY <1>1, <1>2

(* A step of the system on the ring is one of the system on the queue, or  *)
(* changes nothing of it.                                                  *)
LEMMA SystemStepRefines ==
  ASSUME NumSlots >= 2, SystemInv, [SystemNext]_allVars
  PROVE  [System!Next]_System!vars
<1>1. ASSUME NEW p \in Producers, RunStep(p)
      PROVE  [System!Next]_System!vars
  <2>1. CASE PushGoesOn(p)
    <3>1. UNCHANGED <<tail, seq, log, delivered>> /\ UNCHANGED systemVars
      BY <2>1 DEF PushGoesOn, LoadTail, PushSlotFree, PushStale, CasFail, WriteLen, WriteData,
        shared
    <3> QED
      BY <3>1, InsideCall
  <2>2. CASE ~PushGoesOn(p)
    BY <1>1, <2>2, PushReturns DEF RunStep, RunElsewhere, System!Next, System!Run
  <2> QED
    BY <2>1, <2>2
<1>2. ASSUME NEW p \in Producers, WriterStep(p) \/ ServeStep(p) \/ ExitStep(p) \/ CrashStep(p)
      PROVE  [System!Next]_System!vars
  BY <1>2 DEF WriterStep, ServeStep, ExitStep, CrashStep, System!Next
<1>3. CASE LoopStep
  <2>1. CASE PopGoesOn \/ PopReturns
    <3>1. UNCHANGED <<tail, seq, log, delivered>> /\ UNCHANGED systemVars
      BY <2>1 DEF PopGoesOn, PopReturns, PopStart, ReadLen, ReadData, Advance, shared
    <3> QED
      BY <3>1, InsideCall
  <2>2. CASE PopFrees \/ PopReturnsNone
    BY <2>2, PopReturnsWhat DEF System!Next, System!Consume
  <2>3. CASE LoopElsewhere
    BY <2>3 DEF LoopElsewhere, System!Next, System!Consume
  <2> QED
    BY <1>3, <2>1, <2>2, <2>3 DEF LoopStep
<1>4. CASE AroundLoop
  BY <1>4 DEF AroundLoop, System!Next
<1>5. CASE UNCHANGED allVars
  <2>1. UNCHANGED <<tail, seq, log, delivered>> /\ UNCHANGED systemVars
    BY <1>5 DEF allVars, vars, shared
  <2> QED
    BY <2>1, InsideCall
<1> QED
  BY <1>1, <1>2, <1>3, <1>4, <1>5 DEF SystemNext

(* Whatever the steps inside push and try_pop interleave with, what run,   *)
(* consumer_loop and the "posted" calls do is what ShmMpsc says.           *)
THEOREM SystemOnRing ==
  ASSUME NumSlots >= 2
  PROVE  SystemSpec => ImplementsSystem
<1>1. SystemInit => System!Init
  BY DEF SystemInit
<1>2. SystemInv /\ [SystemNext]_allVars => [System!Next]_System!vars
  BY SystemStepRefines
<1> QED
  BY <1>1, <1>2, SystemInvariant, PTL DEF SystemSpec, ImplementsSystem, System!Spec

-----------------------------------------------------------------------------
(* What bin/bench may rely on.                                             *)

(* The counter follows the deliveries, and the stop waits for the counter. *)
CountInv ==
  /\ events \in Nat
  /\ events <= Freed
  /\ loop \in {"count", "unpark", "count_last"} => events < Freed
  /\ stop => events >= System!Target

LEMMA TargetType ==
  System!Target \in Nat /\ System!Target = Cardinality(Producers) * Count
<1>1. System!Cardinality(Producers) = Cardinality(Producers)
  BY DEF System!Cardinality, Cardinality
<1>2. Cardinality(Producers) \in Nat
  BY SystemAssumption, FS_CardinalityType
<1> QED
  BY <1>1, <1>2, RingAssumption DEF System!Target

(* Only the consumer thread delivers and counts.                           *)
LEMMA CountSteps ==
  ASSUME [SystemNext]_allVars
  PROVE  LoopStep \/ AroundLoop \/ UNCHANGED <<delivered, loop, events, stop>>
<1>1. ASSUME NEW p \in Producers, RunStep(p)
      PROVE  UNCHANGED <<delivered, loop, events, stop>>
  <2>1. CASE PushGoesOn(p)
    BY <2>1 DEF PushGoesOn, systemVars, wakeVars, LoadTail, PushSlotFree, PushStale, CasFail,
      WriteLen, WriteData
  <2>2. CASE PushReserves(p) \/ PushOk(p) \/ PushErrFull(p) \/ PushErrTooBig(p)
    BY <2>2 DEF PushReserves, PushOk, PushErrFull, PushErrTooBig, CasOk, Publish, PushFull,
      TooBig, wakeVars
  <2>3. CASE RunElsewhere(p)
    BY <2>3 DEF RunElsewhere, vars, System!Resume, System!WinWake, System!NoWake,
      System!SignalPosted, System!JsonShutdown, System!CapnpShutdown, System!consumerVars
  <2> QED
    BY <1>1, <2>1, <2>2, <2>3 DEF RunStep
<1>2. ASSUME NEW p \in Producers, WriterStep(p) \/ ServeStep(p) \/ ExitStep(p) \/ CrashStep(p)
      PROVE  UNCHANGED <<delivered, loop, events, stop>>
  BY <1>2 DEF WriterStep, ServeStep, ExitStep, CrashStep, Crash, vars, System!WriterSend,
    System!WriterFails, System!Serve, System!PostedAnswerFails, System!Exit, System!Crash,
    System!consumerVars
<1>3. CASE UNCHANGED allVars
  BY <1>3 DEF allVars, vars, systemVars, wakeVars
<1> QED
  BY <1>1, <1>2, <1>3 DEF SystemNext

LEMMA CountKept ==
  ASSUME SystemInv, CountInv, [SystemNext]_allVars
  PROVE  CountInv'
<1>1. Freed \in Nat /\ System!Target \in Nat /\ System!Target' = System!Target
  BY WindowTypes, TargetType DEF SystemInv, RingInv, System!Target
<1>2. CASE PopFrees
  <2>1. /\ loop' \in {"count", "unpark"} /\ events' = events /\ stop' = stop
        /\ delivered' = Append(delivered, Received)
    BY <1>2 DEF PopFrees, Free, wakeVars
  <2>2. Freed' = Freed + 1
    BY <2>1 DEF Freed, SystemInv, RingInv, TypeOK
  <2> QED
    BY <1>1, <2>1, <2>2 DEF CountInv
<1>3. CASE LoopStep /\ ~PopFrees
  <2>1. delivered' = delivered /\ stop' = stop
    BY <1>3 DEF LoopStep, PopGoesOn, PopReturns, PopReturnsNone, LoopElsewhere, PopStart,
      ReadLen, ReadData, Advance, PopNone, vars, systemVars, wakeVars, System!Stopped,
      System!StartPass, System!CountEvent, System!StoreParked, System!StoreRunning,
      System!Park, System!Unparked, System!ParkTimeout
  <2>2. CASE System!CountEvent
    BY <1>1, <2>1, <2>2 DEF System!CountEvent, CountInv, Freed
  <2>3. CASE ~System!CountEvent
    <3>1. /\ events' = events
          /\ \/ loop' \notin {"count", "unpark", "count_last"}
             \/ loop \in {"count", "unpark", "count_last"}
      BY <1>3, <2>3 DEF LoopStep, PopGoesOn, PopReturns, PopReturnsNone, LoopElsewhere,
        systemVars, wakeVars, System!Stopped, System!StartPass, System!StoreParked,
        System!StoreRunning, System!Park, System!Unparked, System!ParkTimeout
    <3> QED
      BY <1>1, <2>1, <3>1 DEF CountInv, Freed
  <2> QED
    BY <2>2, <2>3
<1>4. CASE AroundLoop
  <2>1. delivered' = delivered
    BY <1>4 DEF AroundLoop, vars
  <2>2. CASE System!BenchStop
    BY <1>1, <2>1, <2>2 DEF System!BenchStop, System!consumerVars, CountInv, Freed
  <2>3. CASE System!Flush \/ System!ServerDies \/ System!Finished
    BY <1>1, <2>1, <2>3 DEF System!Flush, System!ServerDies, System!Finished, System!vars,
      System!consumerVars, CountInv, Freed
  <2> QED
    BY <1>4, <2>2, <2>3 DEF AroundLoop
<1>5. CASE UNCHANGED <<delivered, loop, events, stop>>
  BY <1>1, <1>5 DEF CountInv, Freed
<1> QED
  BY <1>2, <1>3, <1>4, <1>5, CountSteps

(* A log that holds each event once has at most Target of them, and then   *)
(* all of them.                                                            *)
LEMMA NothingLeftOut ==
  ASSUME RingInv
  PROVE  /\ Len(log) <= System!Target
         /\ Len(log) = System!Target =>
              \A m \in Messages : \E i \in 1 .. Len(log) : log[i] = m
<1> DEFINE n == Len(log)
           S == Messages
<1>1. IsFiniteSet(S) /\ Cardinality(S) = System!Target
  <2>1. IsFiniteSet(0 .. Count - 1) /\ Cardinality(0 .. Count - 1) = Count
    BY RingAssumption, SystemAssumption, FS_Interval
  <2> QED
    BY <2>1, RingAssumption, SystemAssumption, TargetType, FS_Product DEF Messages
<1>2. log \in Seq(S)
  BY DEF RingInv, TypeOK
<1> HIDE DEF S
<1>3. n \in Nat /\ log \in [1 .. n -> S]
  BY <1>2
<1>4. \A i, j \in 1 .. n : log[i] = log[j] => i = j
  <2>1. \A i \in 1 .. n : \A j \in 1 .. i - 1 : log[j] # log[i]
    BY DEF RingInv, LogInv, OnceInOrder
  <2>2. \A i, j \in 1 .. n : i < j \/ i = j \/ j < i
    BY <1>3
  <2>3. \A i, j \in 1 .. n : i < j => i \in 1 .. j - 1
    BY <1>3
  <2> QED
    BY <2>1, <2>2, <2>3
<1>5. log \in Injection(1 .. n, S)
  BY <1>3, <1>4 DEF Injection, IsInjective
<1>6. Cardinality(1 .. n) = n
  BY <1>3, FS_Interval
<1>7. n <= System!Target /\ (n = System!Target => log \in Surjection(1 .. n, S))
  BY <1>1, <1>5, <1>6, FS_Injection
<1>8. n = System!Target => \A m \in S : \E i \in 1 .. n : log[i] = m
  BY <1>7 DEF Surjection
<1> QED
  BY <1>7, <1>8 DEF S

(* End to end: when bin/bench stops the consumer, try_pop has handed over  *)
(* every event of every producer, whole, once, and in its producer's order *)
(* - with every atomic step of the ring, of run, of the calls and of the   *)
(* consumer free to interleave.                                            *)
THEOREM BenchGetsEverything ==
  ASSUME NumSlots >= 2
  PROVE  SystemSpec => [](System!StopIsClean /\ ExactlyOnceInOrder)
<1>1. SystemInit => CountInv
  BY DEF SystemInit, Init, System!Init, CountInv, Freed
<1>2. SystemInv /\ CountInv /\ [SystemNext]_allVars => CountInv'
  BY CountKept
<1>3. SystemInv => ExactlyOnceInOrder
  BY RingInvOrder DEF SystemInv
<1>4. ASSUME SystemInv, CountInv, stop
      PROVE  /\ Len(delivered) = System!Target
             /\ \A m \in Messages : \E i \in 1 .. System!Target : delivered[i] = m
  <2>1. /\ Freed \in Nat /\ Freed <= Len(log) /\ Len(log) \in Nat /\ Freed = Len(delivered)
        /\ \A i \in 1 .. Freed : delivered[i] = log[i]
    BY <1>4, WindowTypes DEF SystemInv, RingInv, WindowInv, Freed, PrefixInv
  <2>2. events \in Nat /\ events <= Freed /\ events >= System!Target
    BY <1>4 DEF CountInv
  <2>3. Len(log) <= System!Target /\ System!Target \in Nat
    BY <1>4, NothingLeftOut, TargetType DEF SystemInv
  <2>4. Freed = System!Target /\ Len(log) = System!Target
    BY <2>1, <2>2, <2>3
  <2> QED
    BY <1>4, <2>1, <2>4, NothingLeftOut DEF SystemInv
<1>5. SystemInv /\ CountInv => System!StopIsClean
  BY <1>4 DEF System!StopIsClean, System!Messages, Messages
<1> QED
  BY <1>1, <1>2, <1>3, <1>5, SystemInvariant, PTL DEF SystemSpec
=============================================================================
