---------------------------- MODULE BenchRunProofs ----------------------------
(***************************************************************************)
(* Theorems about bin/bench, for any number of producers, pairs and        *)
(* events, any ring, and any three durations that BenchAssumption admits.  *)
(* BenchInv is inductive; the properties of the reports follow from it.    *)
(***************************************************************************)
EXTENDS BenchRun, FiniteSetTheorems, TLAPS

(* What is counted up to is a number.                                      *)
LEMMA TargetType ==
  ASSUME TypeOK
  PROVE  Target \in Nat
<1>1. EventsOf(run) \in Nat
  BY BenchAssumption DEF EventsOf
<1> QED
  BY <1>1, BenchAssumption DEF Target

(* A step keeps the state well typed.                                      *)
LEMMA TypeKept ==
  ASSUME TypeOK, ConsumerGone, [Next]_vars
  PROVE  TypeOK'
<1> USE BenchAssumption DEF TypeOK
<1>1. CASE Main
  <2>1. CASE Start
    BY <2>1 DEF Start, FileRemoved, timeVars
  <2>2. CASE SpawnProducers
    BY <2>2 DEF SpawnProducers, serverVars, ringVars, threadVars, timeVars
  <2>3. CASE NoSocket
    BY <2>3 DEF NoSocket, serverVars, ringVars, threadVars, timeVars
  <2>4. CASE Joined
    BY <2>4 DEF Joined, serverVars, ringVars, threadVars, timeVars
  <2>5. CASE JoinFails
    BY <2>5 DEF JoinFails, serverVars, ringVars, threadVars, timeVars
  <2>6. CASE Stop
    BY <2>6 DEF Stop, StopFlag, Pause, ringVars, threadVars
  <2>7. CASE Report
    <3> USE <2>7 DEF Report, serverVars, ringVars, threadVars, timeVars
    <3> DEFINE S == [run : Runs, events : Nat, wire : Nat, payload : Nat, posted : Nat, made : Nat]
    <3>1. Row \in S /\ reports \in Seq(S)
      BY DEF Row
    <3>2. reports' \in Seq(S)
      <4>1. reports' = Append(reports, Row) \/ reports' = reports
        BY Zenon
      <4> HIDE DEF S
      <4> QED
        BY <3>1, <4>1
    <3>3. run' \in Runs /\ main' \in {"start", "done"}
      OBVIOUS
    <3> QED
      BY <3>2, <3>3
  <2> QED
    BY <1>1, <2>1, <2>2, <2>3, <2>4, <2>5, <2>6, <2>7 DEF Main
<1>2. CASE Server
  <2>1. CASE ServerStarts
    <3>1. /\ server' = "accepting" /\ file' = TRUE
          /\ ring' \in 0 .. Capacity /\ word' = "RUNNING" /\ token' = FALSE
          /\ thread' = "top" /\ drained' = FALSE /\ park' \in 0 .. ParkTicks
      BY <2>1 DEF ServerStarts
    <3>2. UNCHANGED <<run, main, reports, task, sent, calls, made, events, wire, payload, stop,
                      posted, sleep, late, fault>>
      BY <2>1 DEF ServerStarts, mainVars
    <3> QED
      BY <3>1, <3>2
  <2>2. CASE ServerFails
    BY <2>2 DEF ServerFails, mainVars, ringVars, threadVars, timeVars
  <2>3. CASE AcceptFails
    BY <2>3 DEF AcceptFails, mainVars, ringVars, threadVars, timeVars
  <2> QED
    BY <1>2, <2>1, <2>2, <2>3 DEF Server
<1>3. CASE Serve
  BY <1>3 DEF Serve, mainVars, serverVars, threadVars, timeVars
<1>4. CASE Consume
  <2>1. CASE Pass
    BY <2>1 DEF Pass, ThreadStep, mainVars, serverVars
  <2>2. CASE Pop
    <3>1. CASE ThreadStep("drain", "wire") /\ drained' = TRUE /\ word' = word
      BY <2>2, <3>1 DEF Pop, ThreadStep, mainVars, serverVars
    <3>2. CASE ThreadStep("recheck", "wire") /\ word' = "RUNNING" /\ drained' = drained
      BY <2>2, <3>2 DEF Pop, ThreadStep, mainVars, serverVars
    <3> QED
      BY <2>2, <3>1, <3>2 DEF Pop
  <2>3. CASE AddWire
    BY <2>3 DEF AddWire, ThreadStep, mainVars, serverVars
  <2>4. CASE AddPayload
    BY <2>4 DEF AddPayload, ThreadStep, mainVars, serverVars
  <2>5. CASE DrainEnd
    BY <2>5 DEF DrainEnd, ThreadStep, mainVars, serverVars
  <2>6. CASE Park
    BY <2>6 DEF Park, ThreadStep, mainVars, serverVars
  <2>7. CASE Unpark
    BY <2>7 DEF Unpark, ThreadStep, mainVars, serverVars
  <2> QED
    BY <1>4, <2>1, <2>2, <2>3, <2>4, <2>5, <2>6, <2>7 DEF Consume
<1>5. CASE Tick
  BY <1>5 DEF Tick, Less, mainVars, serverVars, ringVars, threadVars
<1>6. ASSUME NEW p \in Producers, Produce(p)
      PROVE  TypeOK'
  <2> USE DEF TaskStep, mainVars, serverVars, ringVars, threadVars, timeVars
  <2>1. CASE Connect(p)
    BY <2>1 DEF Connect
  <2>2. CASE Accept(p)
    BY <2>2 DEF Accept
  <2>3. CASE Lost(p)
    BY <2>3 DEF Lost
  <2>4. CASE AttachFails(p)
    BY <2>4 DEF AttachFails
  <2>5. CASE Push(p)
    BY <2>5 DEF Push
  <2>6. CASE Full(p)
    BY <2>6 DEF Full
  <2>7. CASE Retry(p)
    BY <2>7 DEF Retry
  <2>8. CASE CheckState(p)
    BY <2>8 DEF CheckState
  <2>9. CASE Shutdown(p)
    BY <2>9 DEF Shutdown
  <2> QED
    BY <1>6, <2>1, <2>2, <2>3, <2>4, <2>5, <2>6, <2>7, <2>8, <2>9 DEF Produce
<1>7. CASE UNCHANGED vars
  BY <1>7 DEF vars, mainVars, serverVars, ringVars, threadVars, timeVars
<1> QED
  BY <1>1, <1>2, <1>3, <1>4, <1>5, <1>6, <1>7 DEF Next, Finished

(* What each part of the state can be changed by.                          *)
LEMMA WhoCounts ==
  ASSUME [Next]_vars
  PROVE  Start \/ ServerStarts \/ Consume \/ UNCHANGED <<thread, events, wire, payload>>
<1> USE DEF Main, Server, Produce, TaskStep, threadVars
<1>1. CASE Main
  BY <1>1 DEF SpawnProducers, NoSocket, Joined, JoinFails, Stop, Report
<1>2. CASE Server
  BY <1>2 DEF ServerFails, AcceptFails
<1>3. CASE Serve
  BY <1>3 DEF Serve
<1>4. CASE Tick
  BY <1>4 DEF Tick
<1>5. ASSUME NEW p \in Producers, Produce(p)
      PROVE  UNCHANGED <<thread, events, wire, payload>>
  BY <1>5 DEF Connect, Accept, Lost, AttachFails, Push, Full, Retry, CheckState, Shutdown
<1>6. CASE UNCHANGED vars
  BY <1>6 DEF vars
<1> QED
  BY <1>1, <1>2, <1>3, <1>4, <1>5, <1>6 DEF Next, Finished

LEMMA WhoCalls ==
  ASSUME [Next]_vars
  PROVE  \/ Start \/ Serve \/ \E p \in Producers : CheckState(p)
         \/ UNCHANGED <<calls, posted, made>>
<1> USE DEF Main, Server, Produce, TaskStep, ringVars
<1>1. CASE Main
  BY <1>1 DEF SpawnProducers, NoSocket, Joined, JoinFails, Stop, Report
<1>2. CASE Server
  BY <1>2 DEF ServerStarts, ServerFails, AcceptFails
<1>3. CASE Consume
  BY <1>3 DEF Consume, ThreadStep, Pass, Pop, AddWire, AddPayload, DrainEnd, Park, Unpark
<1>4. CASE Tick
  BY <1>4 DEF Tick
<1>5. ASSUME NEW p \in Producers, Produce(p)
      PROVE  CheckState(p) \/ UNCHANGED <<calls, posted, made>>
  BY <1>5 DEF Connect, Accept, Lost, AttachFails, Push, Full, Retry, Shutdown
<1>6. CASE UNCHANGED vars
  BY <1>6 DEF vars
<1> QED
  BY <1>1, <1>2, <1>3, <1>4, <1>5, <1>6 DEF Next, Finished

-----------------------------------------------------------------------------
(* The parts of the invariant.                                             *)

LEMMA CountKept ==
  ASSUME TypeOK, CountInv, ConsumerGone, [Next]_vars
  PROVE  CountInv'
<1> USE DEF TypeOK, CountInv
<1>1. CASE Start
  BY <1>1 DEF Start, ConsumerGone
<1>2. CASE ServerStarts
  BY <1>2 DEF ServerStarts, ConsumerGone
<1>3. CASE Consume
  <2> USE DEF ThreadStep
  <2>1. CASE Pass
    BY <2>1 DEF Pass
  <2>2. CASE Pop
    BY <2>2 DEF Pop
  <2>3. CASE AddWire
    BY <2>3 DEF AddWire
  <2>4. CASE AddPayload
    BY <2>4 DEF AddPayload
  <2>5. CASE DrainEnd
    BY <2>5 DEF DrainEnd
  <2>6. CASE Park
    BY <2>6 DEF Park
  <2>7. CASE Unpark
    BY <2>7 DEF Unpark
  <2> QED
    BY <1>3, <2>1, <2>2, <2>3, <2>4, <2>5, <2>6, <2>7 DEF Consume
<1>4. CASE UNCHANGED <<thread, events, wire, payload>>
  BY <1>4
<1> QED
  BY <1>1, <1>2, <1>3, <1>4, WhoCounts

LEMMA CallsKept ==
  ASSUME TypeOK, CallsInv, [Next]_vars
  PROVE  CallsInv'
<1> USE DEF TypeOK, CallsInv
<1>1. CASE Start
  BY <1>1 DEF Start
<1>2. CASE Serve
  BY <1>2 DEF Serve
<1>3. ASSUME NEW p \in Producers, CheckState(p)
      PROVE  CallsInv'
  BY <1>3 DEF CheckState, TaskStep
<1>4. CASE UNCHANGED <<calls, posted, made>>
  BY <1>4
<1> QED
  BY <1>1, <1>2, <1>3, <1>4, WhoCalls

(* The main task and the listener.                                         *)
LEMMA LinkKept ==
  ASSUME TypeOK, SleepInv, LinkInv, [Next]_vars
  PROVE  LinkInv'
<1> USE DEF TypeOK, LinkInv
<1>1. CASE Main
  <2>1. CASE Start
    BY <2>1 DEF Start, FileRemoved
  <2>2. CASE SpawnProducers
    BY <2>2 DEF SpawnProducers, serverVars
  <2>3. CASE NoSocket \/ Joined \/ JoinFails
    BY <2>3 DEF NoSocket, Joined, JoinFails, serverVars
  <2>4. CASE Stop
    BY <2>4 DEF Stop, SleepInv
  <2>5. CASE Report
    BY <2>5 DEF Report, SleepInv, serverVars
  <2> QED
    BY <1>1, <2>1, <2>2, <2>3, <2>4, <2>5 DEF Main
<1>2. CASE Server
  BY <1>2 DEF Server, ServerStarts, ServerFails, AcceptFails, mainVars
<1>3. CASE Serve \/ Tick
  BY <1>3 DEF Serve, Tick, mainVars, serverVars
<1>4. CASE Consume
  <2>1. UNCHANGED <<main, server, file, task, fault>>
    BY <1>4 DEF Consume, ThreadStep, Pass, Pop, AddWire, AddPayload, DrainEnd, Park, Unpark,
                mainVars, serverVars
  <2> QED
    BY <2>1
<1>5. ASSUME NEW p \in Producers, Produce(p)
      PROVE  LinkInv'
  <2> USE DEF TaskStep, mainVars, serverVars
  <2>1. CASE Connect(p)
    BY <2>1 DEF Connect
  <2>2. CASE Lost(p)
    BY <2>2 DEF Lost
  <2>3. CASE AttachFails(p)
    BY <2>3 DEF AttachFails
  <2>4. CASE Accept(p) \/ Push(p) \/ Full(p) \/ Retry(p) \/ CheckState(p) \/ Shutdown(p)
    BY <2>4 DEF Accept, Push, Full, Retry, CheckState, Shutdown
  <2> QED
    BY <1>5, <2>1, <2>2, <2>3, <2>4 DEF Produce
<1>6. CASE UNCHANGED vars
  BY <1>6 DEF vars, mainVars, serverVars
<1> QED
  BY <1>1, <1>2, <1>3, <1>4, <1>5, <1>6 DEF Next, Finished

(* The arithmetic of the sleep before the report.                          *)
LEMMA SleepKept ==
  ASSUME TypeOK, SleepInv, ConsumerGone, [Next]_vars
  PROVE  SleepInv'
<1> USE BenchAssumption DEF TypeOK, SleepInv, Slept
<1>0. Target \in Nat
  BY TargetType
<1>1. CASE Main
  <2>1. CASE Start
    BY <2>1 DEF Start
  <2>2. CASE SpawnProducers \/ NoSocket \/ Joined \/ JoinFails \/ Report
    BY <2>2 DEF SpawnProducers, NoSocket, Joined, JoinFails, Report
  <2>3. CASE Stop
    BY <2>3 DEF Stop, StopFlag, Pause, ringVars, threadVars, Target, EventsOf, Measured
  <2> QED
    BY <1>1, <2>1, <2>2, <2>3 DEF Main
<1>2. CASE Server
  BY <1>2 DEF Server, ServerStarts, ServerFails, AcceptFails, mainVars
<1>3. CASE Serve
  BY <1>3 DEF Serve, mainVars, serverVars, threadVars, timeVars, Target, EventsOf, Measured
<1>4. CASE Consume
  <2> USE DEF ThreadStep, mainVars, serverVars
  <2>0. Target' = Target
    BY <1>4 DEF Consume, Pass, Pop, AddWire, AddPayload, DrainEnd, Park, Unpark, Target,
                EventsOf, Measured
  <2> USE <1>0, <2>0
  <2>1. CASE Pass
    BY <2>1 DEF Pass
  <2>2. CASE Pop
    BY <2>2 DEF Pop
  <2>3. CASE AddWire
    BY <2>3 DEF AddWire
  <2>4. CASE AddPayload
    BY <2>4 DEF AddPayload
  <2>5. CASE DrainEnd
    BY <2>5 DEF DrainEnd
  <2>6. CASE Park
    BY <2>6 DEF Park
  <2>7. CASE Unpark
    BY <2>7 DEF Unpark
  <2> QED
    BY <1>4, <2>1, <2>2, <2>3, <2>4, <2>5, <2>6, <2>7 DEF Consume
<1>5. CASE Tick
  BY <1>5 DEF Tick, Less, KeptWaiting, Asleep, mainVars, serverVars, ringVars, threadVars, Target,
              EventsOf, Measured
<1>6. ASSUME NEW p \in Producers, Produce(p)
      PROVE  SleepInv'
  <2>1. main \notin {"poll", "sleep"}
    BY <1>6 DEF Produce, TaskStep, Connect, Accept, Lost, AttachFails, Push, Full, Retry,
                CheckState, Shutdown
  <2>2. main' = main
    BY <1>6 DEF Produce, TaskStep, Connect, Accept, Lost, AttachFails, Push, Full, Retry,
                CheckState, Shutdown, mainVars
  <2> QED
    BY <2>1, <2>2
<1>7. CASE UNCHANGED vars
  BY <1>7 DEF vars, mainVars, serverVars, ringVars, threadVars, timeVars, Target, EventsOf,
              Measured
<1> QED
  BY <1>1, <1>2, <1>3, <1>4, <1>5, <1>6, <1>7 DEF Next, Finished

(* When the sleep is over, the consumer has come to its end and no posted  *)
(* call is on its way.  This is where the three durations meet.            *)
LEMMA AllSettled ==
  ASSUME TypeOK, SleepInv, main = "sleep", sleep = 0
  PROVE  thread \in {"none", "exited"} /\ calls = 0
BY BenchAssumption DEF TypeOK, SleepInv, Slept

LEMMA GoneKept ==
  ASSUME TypeOK, SleepInv, LinkInv, ConsumerGone, [Next]_vars
  PROVE  ConsumerGone'
<1> USE DEF TypeOK, ConsumerGone
<1>1. CASE Main
  <2>1. CASE Report
    BY <2>1, AllSettled DEF Report, SleepInv, serverVars, threadVars
  <2>2. CASE Start
    BY <2>2 DEF Start
  <2>3. CASE SpawnProducers \/ NoSocket \/ Joined \/ JoinFails \/ Stop
    BY <2>3 DEF SpawnProducers, NoSocket, Joined, JoinFails, Stop, serverVars, threadVars
  <2> QED
    BY <1>1, <2>1, <2>2, <2>3 DEF Main
<1>2. CASE ServerStarts
  <2>1. main # "start"
    BY <1>2 DEF ServerStarts, LinkInv
  <2> QED
    BY <1>2, <2>1 DEF ServerStarts, mainVars
<1>3. CASE ServerFails \/ AcceptFails
  BY <1>3 DEF ServerFails, AcceptFails, mainVars, threadVars
<1>4. CASE Serve \/ Tick
  BY <1>4 DEF Serve, Tick, mainVars, serverVars, threadVars
<1>5. CASE Consume
  BY <1>5 DEF Consume, ThreadStep, Pass, Pop, AddWire, AddPayload, DrainEnd, Park, Unpark,
              mainVars, serverVars
<1>6. ASSUME NEW p \in Producers, Produce(p)
      PROVE  ConsumerGone'
  BY <1>6 DEF Produce, TaskStep, Connect, Accept, Lost, AttachFails, Push, Full, Retry,
              CheckState, Shutdown, mainVars, serverVars, threadVars
<1>7. CASE UNCHANGED vars
  BY <1>7 DEF vars, mainVars, serverVars, threadVars
<1> QED
  BY <1>1, <1>2, <1>3, <1>4, <1>5, <1>6, <1>7 DEF Next, Finished, Server

-----------------------------------------------------------------------------
(* What was pushed is counted or in the ring.                              *)

LEMMA EventsType == EventsOf(run) \in Nat \ {0} /\ \A r : EventsOf(r) \in Nat \ {0}
BY BenchAssumption DEF EventsOf

LEMMA PushedType ==
  ASSUME TypeOK
  PROVE  /\ \A p \in Producers : Pushed(p) \in Nat
         /\ IsFiniteSet(Producers \X (0 .. EventsOf(run) - 1))
         /\ Cardinality(Producers \X (0 .. EventsOf(run) - 1)) = Target
         /\ IsFiniteSet(PushedInRun) /\ Cardinality(PushedInRun) \in Nat
<1> DEFINE E == EventsOf(run)
<1>1. E \in Nat \ {0}
  BY EventsType
<1>2. IsFiniteSet(Producers) /\ Cardinality(Producers) = NumProducers
  BY BenchAssumption, FS_Interval DEF Producers
<1>3. IsFiniteSet(0 .. E - 1) /\ Cardinality(0 .. E - 1) = E
  <2> HIDE DEF E
  <2> QED
    BY <1>1, FS_Interval
<1>4. /\ IsFiniteSet(Producers \X (0 .. E - 1))
      /\ Cardinality(Producers \X (0 .. E - 1)) = NumProducers * E
  BY <1>2, <1>3, FS_Product
<1>5. IsFiniteSet(PushedInRun)
  BY <1>4, FS_Subset DEF PushedInRun
<1> QED
  BY <1>4, <1>5, FS_CardinalityType DEF Target, TypeOK, Pushed

(* At the report every event of every producer has been counted, none      *)
(* twice, and the ring is empty.                                           *)
LEMMA RunComplete ==
  ASSUME TypeOK, SleepInv, PushedInv, main = "sleep"
  PROVE  events = Target /\ ring = 0
<1>1. \A p \in Producers : Pushed(p) = EventsOf(run)
  BY DEF SleepInv, PushedInv, LoopInv, Pushed, TypeOK
<1>2. PushedInRun = Producers \X (0 .. EventsOf(run) - 1)
  BY <1>1, EventsType DEF PushedInRun
<1>3. events + ring = Target
  BY <1>2, PushedType DEF PushedInv
<1> QED
  BY <1>3, TargetType, BenchAssumption DEF TypeOK, SleepInv

(* Before the producers start, nothing was pushed.                         *)
LEMMA NothingPushed ==
  ASSUME \A p \in Producers : task[p] # "check" /\ sent[p] = 0
  PROVE  Cardinality(PushedInRun) = 0
<1>1. PushedInRun = {}
  BY EventsType DEF PushedInRun, Pushed
<1> QED
  BY <1>1, FS_EmptySet

LEMMA WhoPushes ==
  ASSUME [Next]_vars
  PROVE  \/ Main \/ Server \/ Pop \/ \E p \in Producers : Produce(p)
         \/ UNCHANGED <<run, main, file, server, task, sent, events, ring>>
<1> USE DEF mainVars, serverVars, ringVars, threadVars
<1>1. CASE Serve \/ Tick
  BY <1>1 DEF Serve, Tick
<1>2. CASE Consume
  BY <1>2 DEF Consume, ThreadStep, Pass, AddWire, AddPayload, DrainEnd, Park, Unpark
<1>3. CASE UNCHANGED vars
  BY <1>3 DEF vars
<1> QED
  BY <1>1, <1>2, <1>3 DEF Next, Finished

(* One more message, or a step that leaves the messages as they are.       *)
LEMMA SamePushed ==
  ASSUME run' = run, \A q \in Producers : Pushed(q)' = Pushed(q)
  PROVE  Cardinality(PushedInRun)' = Cardinality(PushedInRun)
<1>1. EventsOf(run)' = EventsOf(run)
  BY DEF EventsOf, Measured
<1>2. PushedInRun' = PushedInRun
  BY <1>1 DEF PushedInRun
<1> QED
  BY <1>2

LEMMA OneMorePushed ==
  ASSUME TypeOK, PushedInv, main # "start", NEW p \in Producers, Push(p)
  PROVE  Cardinality(PushedInRun)' = Cardinality(PushedInRun) + 1
<1>1. EventsOf(run)' = EventsOf(run)
  BY DEF Push, TaskStep, mainVars, EventsOf, Measured
<1>2. /\ Pushed(p) = sent[p] /\ Pushed(p)' = sent[p] + 1
      /\ \A q \in Producers : q # p => Pushed(q)' = Pushed(q)
  BY DEF Push, TaskStep, Pushed, TypeOK
<1>3. sent[p] \in 0 .. EventsOf(run) - 1
  BY EventsType DEF PushedInv, LoopInv, Push, TaskStep, TypeOK
<1>4. PushedInRun' = PushedInRun \cup {<<p, sent[p]>>}
  <2>1. \A m \in Producers \X (0 .. EventsOf(run) - 1) :
          m[2] < Pushed(m[1])' <=> m[2] < Pushed(m[1]) \/ m = <<p, sent[p]>>
    <3> SUFFICES ASSUME NEW q \in Producers, NEW i \in 0 .. EventsOf(run) - 1
                 PROVE  i < Pushed(q)' <=> i < Pushed(q) \/ <<q, i>> = <<p, sent[p]>>
      OBVIOUS
    <3>1. CASE q = p
      BY <1>2, <1>3, <3>1, EventsType
    <3>2. CASE q # p
      BY <1>2, <3>2
    <3> QED
      BY <3>1, <3>2
  <2> QED
    BY <1>1, <1>3, <2>1 DEF PushedInRun
<1>5. <<p, sent[p]>> \notin PushedInRun
  BY <1>2, <1>3 DEF PushedInRun
<1> QED
  BY <1>4, <1>5, PushedType, FS_AddElement

LEMMA PushedKept ==
  ASSUME TypeOK, SleepInv, LinkInv, PushedInv, [Next]_vars
  PROVE  PushedInv'
<1> USE DEF TypeOK
<1>1. CASE Main
  <2>1. CASE Start
    <3>1. \A p \in Producers : Pushed(p)' = 0
      BY <2>1 DEF Start, Pushed
    <3>2. Cardinality(PushedInRun)' = 0
      <4>1. PushedInRun' = {}
        BY <3>1 DEF PushedInRun
      <4> QED
        BY <4>1, FS_EmptySet
    <3>3. LoopInv'
      BY <2>1 DEF Start, LoopInv
    <3> QED
      BY <2>1, <3>2, <3>3 DEF Start, FileRemoved, PushedInv
  <2>2. CASE SpawnProducers
    <3>1. \A p \in Producers : task[p] = "none" /\ sent[p] = 0
      BY <2>2 DEF SpawnProducers, PushedInv, LoopInv
    <3>2. /\ run' = run /\ \A q \in Producers : Pushed(q)' = Pushed(q)
          /\ \A p \in Producers : task'[p] = "connect" /\ sent'[p] = 0
      BY <2>2, <3>1 DEF SpawnProducers, Pushed
    <3>3. LoopInv'
      BY <3>2 DEF LoopInv
    <3> QED
      BY <2>2, <3>2, <3>3, SamePushed
         DEF SpawnProducers, PushedInv, serverVars, ringVars, threadVars
  <2>3. CASE NoSocket \/ Joined \/ JoinFails \/ Stop
    <3>1. /\ UNCHANGED <<run, file, task, sent, events, ring>>
          /\ main' \notin {"start", "wait_sock"} /\ main # "start"
          /\ server' = "spawned" => server = "spawned" /\ main' = "failed"
      BY <2>3 DEF NoSocket, Joined, JoinFails, Stop, serverVars, ringVars, threadVars, PushedInv
    <3>2. Cardinality(PushedInRun)' = Cardinality(PushedInRun) /\ (LoopInv => LoopInv')
      BY <3>1, SamePushed DEF Pushed, LoopInv, EventsOf, Measured
    <3> QED
      BY <3>1, <3>2 DEF PushedInv
  <2>4. CASE Report
    <3>1. ring = 0 /\ \A p \in Producers : task[p] = "ok"
      BY <2>4, RunComplete DEF Report, SleepInv
    <3>2. /\ UNCHANGED <<file, server, task, sent, events, ring>> /\ server = "ended"
          /\ main' = "start" \/ (main' = "done" /\ run' = run)
      BY <2>4 DEF Report, SleepInv, serverVars, ringVars, threadVars
    <3>3. CASE main' = "start"
      BY <3>1, <3>2, <3>3 DEF PushedInv
    <3>4. CASE main' = "done" /\ run' = run
      <4>1. Cardinality(PushedInRun)' = Cardinality(PushedInRun) /\ (LoopInv => LoopInv')
        BY <3>2, <3>4, SamePushed DEF Pushed, LoopInv, EventsOf, Measured
      <4> QED
        BY <2>4, <3>2, <3>4, <4>1 DEF PushedInv, Report
    <3> QED
      BY <3>2, <3>3, <3>4
  <2> QED
    BY <1>1, <2>1, <2>2, <2>3, <2>4 DEF Main
<1>2. CASE Server
  <2>1. /\ UNCHANGED <<run, main, task, sent, events>>
        /\ server' # "spawned"
    BY <1>2 DEF Server, ServerStarts, ServerFails, AcceptFails, mainVars, threadVars
  <2>2. ring' = ring
    <3>1. CASE ServerStarts
      <4>1. main = "wait_sock" /\ \A p \in Producers : task[p] = "none" /\ sent[p] = 0
        BY <3>1 DEF ServerStarts, Yielded, Over, PushedInv, LoopInv
      <4>2. events + ring = 0
        BY <4>1, NothingPushed DEF PushedInv
      <4> QED
        BY <3>1, <4>2, BenchAssumption DEF ServerStarts
    <3> QED
      BY <1>2, <3>1 DEF Server, ServerFails, AcceptFails, ringVars
  <2>3. Cardinality(PushedInRun)' = Cardinality(PushedInRun) /\ (LoopInv => LoopInv')
    BY <2>1, SamePushed DEF Pushed, LoopInv, EventsOf, Measured
  <2> QED
    BY <2>1, <2>2, <2>3 DEF PushedInv
<1>3. CASE Pop
  <2>1. /\ UNCHANGED <<run, main, file, server, task, sent>>
        /\ ring' = ring - 1 /\ events' = events + 1 /\ ring > 0
    BY <1>3 DEF Pop, ThreadStep, mainVars, serverVars
  <2>2. main # "start"
    BY <2>1 DEF PushedInv
  <2>3. Cardinality(PushedInRun)' = Cardinality(PushedInRun) /\ (LoopInv => LoopInv')
    BY <2>1, SamePushed DEF Pushed, LoopInv, EventsOf, Measured
  <2>4. events' + ring' = events + ring
    BY <2>1, BenchAssumption
  <2> QED
    BY <2>1, <2>2, <2>3, <2>4 DEF PushedInv
<1>4. ASSUME NEW p \in Producers, Produce(p)
      PROVE  PushedInv'
  <2>1. /\ UNCHANGED <<run, main, file, server, events>>
        /\ task[p] \notin {"none", "ok"}
    BY <1>4 DEF Produce, TaskStep, Connect, Accept, Lost, AttachFails, Push, Full, Retry,
                CheckState, Shutdown, mainVars, serverVars, threadVars
  <2>2. main \notin {"start", "wait_sock"}
    BY <2>1 DEF PushedInv
  <2>3. LoopInv
    BY <2>2 DEF PushedInv
  <2>4. EventsOf(run)' = EventsOf(run)
    BY <2>1 DEF EventsOf, Measured
  <2>5. LoopInv'
    <3> USE <2>3, <2>4, EventsType DEF LoopInv, TaskStep
    <3>1. CASE CheckState(p)
      BY <3>1 DEF CheckState
    <3>2. CASE Connect(p) \/ Accept(p) \/ Lost(p) \/ AttachFails(p)
      BY <3>2 DEF Connect, Accept, Lost, AttachFails
    <3>3. CASE Push(p) \/ Full(p) \/ Retry(p) \/ Shutdown(p)
      BY <3>3 DEF Push, Full, Retry, Shutdown
    <3> QED
      BY <1>4, <3>1, <3>2, <3>3 DEF Produce
  <2>6. events' + ring' = Cardinality(PushedInRun)'
    <3>1. events + ring = Cardinality(PushedInRun)
      BY <2>2 DEF PushedInv
    <3>2. CASE Push(p)
      BY <2>1, <2>2, <3>1, <3>2, OneMorePushed, PushedType, BenchAssumption DEF Push
    <3>3. CASE CheckState(p)
      <4>1. \A q \in Producers : Pushed(q)' = Pushed(q)
        BY <3>3 DEF CheckState, TaskStep, Pushed
      <4> QED
        BY <2>1, <3>1, <3>3, <4>1, SamePushed DEF CheckState
    <3>4. CASE ~Push(p) /\ ~CheckState(p)
      <4>1. /\ sent' = sent /\ ring' = ring /\ task[p] # "check"
            /\ \E to \in {"backlog", "failed", "push", "full", "ok"} :
                 task' = [task EXCEPT ![p] = to]
        BY <1>4, <3>4 DEF Produce, TaskStep, Connect, Accept, Lost, AttachFails, Full, Retry,
                    Shutdown, ringVars
      <4>2. \A q \in Producers : Pushed(q)' = Pushed(q)
        BY <4>1 DEF Pushed
      <4> QED
        BY <2>1, <3>1, <4>1, <4>2, SamePushed
    <3> QED
      BY <3>2, <3>3, <3>4
  <2> QED
    BY <2>1, <2>2, <2>5, <2>6 DEF PushedInv
<1>5. CASE UNCHANGED <<run, main, file, server, task, sent, events, ring>>
  <2>1. Cardinality(PushedInRun)' = Cardinality(PushedInRun) /\ (LoopInv => LoopInv')
    BY <1>5, SamePushed DEF Pushed, LoopInv, EventsOf, Measured
  <2> QED
    BY <1>5, <2>1 DEF PushedInv
<1> QED
  BY <1>1, <1>2, <1>3, <1>4, <1>5, WhoPushes

(* Only the main task goes on to another run or adds a row.                *)
LEMMA OnlyMain ==
  ASSUME [Next]_vars, ~Main
  PROVE  UNCHANGED mainVars
BY DEF Next, Finished, vars, Server, ServerStarts, ServerFails, AcceptFails, Serve,
       Consume, ThreadStep, Pass, Pop, AddWire, AddPayload, DrainEnd, Park, Unpark, Tick,
       Produce, TaskStep, Connect, Accept, Lost, AttachFails, Push, Full, Retry,
       CheckState, Shutdown

(* The rows of the report.                                                 *)
LEMMA RowsKept ==
  ASSUME BenchInv, [Next]_vars
  PROVE  CountersAgree' /\ PostedCounted'
<1>1. CASE Report /\ reports' = Append(reports, Row) /\ Measured(run)
  <2>1. thread \in {"none", "exited"} /\ calls = 0
    BY <1>1, AllSettled DEF Report, BenchInv
  <2>2. /\ Row.events = NumProducers * Count
        /\ Row.wire = Row.events /\ Row.payload = Row.events
        /\ Row.posted = Row.made
    <3>1. Target = NumProducers * Count
      BY <1>1 DEF Target, EventsOf
    <3>2. events = Target
      BY <1>1, RunComplete DEF Report, BenchInv
    <3> HIDE DEF Target
    <3> QED
      BY <1>1, <2>1, <3>1, <3>2 DEF Report, Row, BenchInv, CountInv, CallsInv, TypeOK
  <2>3. \A row \in Rows' : row \in Rows \/ row = Row
    <3> DEFINE S == [run : Runs, events : Nat, wire : Nat, payload : Nat, posted : Nat, made : Nat]
    <3>1. reports \in Seq(S)
      BY DEF BenchInv, TypeOK
    <3> HIDE DEF S
    <3>2. \A i \in DOMAIN Append(reports, Row) :
            \/ i \in DOMAIN reports /\ Append(reports, Row)[i] = reports[i]
            \/ Append(reports, Row)[i] = Row
      BY <3>1
    <3> QED
      BY <1>1, <3>2 DEF Rows
  <2> QED
    BY <2>2, <2>3 DEF BenchInv, CountersAgree, PostedCounted
<1>2. CASE reports' = reports
  BY <1>2 DEF BenchInv, CountersAgree, PostedCounted, Rows
<1>3. reports' = reports \/ (Report /\ reports' = Append(reports, Row) /\ Measured(run))
  <2>1. CASE Main
    BY <2>1 DEF Main, Start, SpawnProducers, NoSocket, Joined, JoinFails, Stop, Report
  <2>2. ASSUME ~Main
        PROVE  UNCHANGED mainVars
    BY <2>2, OnlyMain
  <2> QED
    BY <2>1, <2>2 DEF mainVars
<1> QED
  BY <1>1, <1>2, <1>3

(* The bench fails for a reason from outside.                              *)
LEMMA FaultKept ==
  ASSUME BenchInv, [Next]_vars
  PROVE  FailsOnlyByFault'
<1> USE DEF BenchInv, TypeOK, FailsOnlyByFault
<1>1. CASE NoSocket
  BY <1>1 DEF NoSocket, LinkInv
<1>2. CASE JoinFails
  BY <1>2 DEF JoinFails, LinkInv
<1>3. CASE Start \/ SpawnProducers \/ Joined \/ Stop \/ Report
  BY <1>3 DEF Start, SpawnProducers, Joined, Stop, Report
<1>4. CASE Server \/ Serve \/ Tick
  BY <1>4 DEF Server, ServerStarts, ServerFails, AcceptFails, Serve, Tick, mainVars
<1>5. CASE Consume
  BY <1>5 DEF Consume, ThreadStep, Pass, Pop, AddWire, AddPayload, DrainEnd, Park, Unpark, mainVars
<1>6. ASSUME NEW p \in Producers, Produce(p)
      PROVE  FailsOnlyByFault'
  BY <1>6 DEF Produce, TaskStep, Connect, Accept, Lost, AttachFails, Push, Full, Retry,
              CheckState, Shutdown, mainVars
<1>7. CASE UNCHANGED vars
  BY <1>7 DEF vars, mainVars
<1> QED
  BY <1>1, <1>2, <1>3, <1>4, <1>5, <1>6, <1>7 DEF Next, Main, Finished

-----------------------------------------------------------------------------
LEMMA BenchInitially == Init => BenchInv
<1> SUFFICES ASSUME Init PROVE BenchInv
  OBVIOUS
<1> USE BenchAssumption DEF Init
<1>1. TypeOK
  <2>1. 1 \in Runs
    BY DEF Runs
  <2>2. <<>> \in Seq([run : Runs, events : Nat, wire : Nat, payload : Nat, posted : Nat,
                     made : Nat])
    <3> DEFINE S == [run : Runs, events : Nat, wire : Nat, payload : Nat, posted : Nat, made : Nat]
    <3> HIDE DEF S
    <3>1. <<>> \in Seq(S)
      OBVIOUS
    <3> QED
      BY <3>1 DEF S
  <2>4. /\ ring \in 0 .. Capacity /\ park \in 0 .. ParkTicks
        /\ sleep \in 0 .. SleepTicks /\ late \in 0 .. Delay
    OBVIOUS
  <2>5. /\ calls \in Nat /\ made \in Nat /\ posted \in Nat
        /\ events \in Nat /\ wire \in Nat /\ payload \in Nat /\ sent \in [Producers -> Nat]
    OBVIOUS
  <2>6. /\ file \in BOOLEAN /\ token \in BOOLEAN /\ drained \in BOOLEAN
        /\ stop \in BOOLEAN /\ fault \in BOOLEAN
    BY Zenon
  <2>7. task \in [Producers -> {"none", "connect", "backlog", "push", "check", "full",
                               "shutdown", "ok", "failed"}]
    OBVIOUS
  <2> QED
    BY <2>1, <2>2, <2>4, <2>5, <2>6, <2>7, Zenon DEF TypeOK
<1>2. CountInv /\ PushedInv /\ CallsInv /\ SleepInv /\ LinkInv
  BY DEF CountInv, PushedInv, CallsInv, SleepInv, LinkInv
<1>3. CountersAgree /\ PostedCounted /\ ConsumerGone /\ FailsOnlyByFault
  BY DEF CountersAgree, PostedCounted, ConsumerGone, FailsOnlyByFault, Rows
<1> QED
  BY <1>1, <1>2, <1>3 DEF BenchInv

(* The invariant of the bench holds in every state, however the sizes, the *)
(* rings, the producers and the three durations are chosen.                *)
THEOREM BenchInvariant == Spec => []BenchInv
<1>1. BenchInv /\ [Next]_vars => BenchInv'
  BY TypeKept, CountKept, PushedKept, CallsKept, LinkKept, SleepKept, GoneKept, RowsKept,
     FaultKept DEF BenchInv
<1> QED
  BY <1>1, BenchInitially, PTL DEF Spec

(* Every reachable state of the bench is well typed.                       *)
THEOREM BenchTyped == Spec => []TypeOK
<1>1. BenchInv => TypeOK
  BY DEF BenchInv
<1> QED
  BY <1>1, BenchInvariant, PTL

(* What a row says of events, wire bytes and payload bytes is about all    *)
(* events of the run.                                                      *)
THEOREM RowsAreComplete == Spec => []CountersAgree
<1>1. BenchInv => CountersAgree
  BY DEF BenchInv
<1> QED
  BY <1>1, BenchInvariant, PTL

(* What a row says of posted calls is about all calls of the run.          *)
THEOREM CallsAreCounted == Spec => []PostedCounted
<1>1. BenchInv => PostedCounted
  BY DEF BenchInv
<1> QED
  BY <1>1, BenchInvariant, PTL

(* No consumer thread runs into the next run.                              *)
THEOREM OneConsumer == Spec => []ConsumerGone
<1>1. BenchInv => ConsumerGone
  BY DEF BenchInv
<1> QED
  BY <1>1, BenchInvariant, PTL

(* Without a failure from outside the bench does not fail.                 *)
THEOREM BenchRobust == Spec => []FailsOnlyByFault
<1>1. BenchInv => FailsOnlyByFault
  BY DEF BenchInv
<1> QED
  BY <1>1, BenchInvariant, PTL
=============================================================================
