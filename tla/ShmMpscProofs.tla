---------------------------- MODULE ShmMpscProofs ----------------------------
(***************************************************************************)
(* What holds of the running system for any producers, any number of       *)
(* events and any ring, whoever is killed: its types, the state word that  *)
(* shows whether the consumer works, the wake-ups that are owed, and the   *)
(* stop of bin/bench.                                                      *)
(***************************************************************************)
EXTENDS ShmMpsc, FiniteSetTheorems, TLAPS

(* The states of a producer between two events or in the middle of one.    *)
InLoop == Busy \cup {"waiting"}

ProducerStates == Busy \cup {"waiting", "shutdown", "ended", "bailed", "dead"}

ConsumerStates ==
  {"top", "drain", "count", "park_store", "recheck", "unpark", "count_last",
   "park", "parked", "run_store", "exited", "dead"}

Words == {"RUNNING", "PARKED"}

-----------------------------------------------------------------------------
(* Who changes what.                                                       *)

(* The steps that change the queue.                                        *)
LEMMA QueueSteps ==
  ASSUME [Next]_vars
  PROVE  \/ \E p \in Producers : PushReserve(p) \/ PushPublish(p)
         \/ Pop
         \/ UNCHANGED queueVars
<1>1. CASE \E p \in Producers : Run(p)
  BY <1>1 DEF Run, Resume, PushTooBig, PushFull, WinWake, NoWake, SignalPosted,
    JsonShutdown, CapnpShutdown
<1>2. CASE \E p \in Producers : \/ WriterSend(p) \/ WriterFails(p) \/ Exit(p) \/ Crash(p)
                                \/ Serve(p) \/ PostedAnswerFails(p)
  BY <1>2 DEF WriterSend, WriterFails, Exit, Crash, Serve, PostedAnswerFails
<1>3. CASE Consume
  BY <1>3 DEF Consume, Stopped, StartPass, CountEvent, DrainEnd, StoreParked, RecheckEmpty,
    StoreRunning, Park, Unparked, ParkTimeout
<1>4. CASE Flush \/ ServerDies \/ BenchStop \/ Finished \/ UNCHANGED vars
  BY <1>4 DEF Flush, ServerDies, BenchStop, Finished, vars
<1> QED
  BY <1>1, <1>2, <1>3, <1>4 DEF Next

(* The steps of the producers and their writers.                           *)
LEMMA ProducerSteps ==
  ASSUME [Next]_vars
  PROVE  \/ \E p \in Producers : \/ Run(p) \/ WriterSend(p) \/ WriterFails(p)
                                 \/ Exit(p) \/ Crash(p)
         \/ UNCHANGED producerVars
<1>1. CASE \E p \in Producers : Serve(p) \/ PostedAnswerFails(p)
  BY <1>1 DEF Serve, PostedAnswerFails
<1>2. CASE Consume
  BY <1>2 DEF Consume, Stopped, StartPass, Pop, CountEvent, DrainEnd, StoreParked,
    RecheckEmpty, StoreRunning, Park, Unparked, ParkTimeout
<1>3. CASE Flush \/ ServerDies \/ BenchStop \/ Finished \/ UNCHANGED vars
  BY <1>3 DEF Flush, ServerDies, BenchStop, Finished, vars
<1> QED
  BY <1>1, <1>2, <1>3 DEF Next

(* The steps of the consumer thread and of its processor.                  *)
LEMMA ConsumerSteps ==
  ASSUME [Next]_vars
  PROVE  \/ Consume \/ ServerDies
         \/ UNCHANGED consumerVars
<1>1. CASE \E p \in Producers : Run(p)
  BY <1>1 DEF Run, Resume, PushTooBig, PushFull, PushReserve, PushPublish, WinWake, NoWake,
    SignalPosted, JsonShutdown, CapnpShutdown
<1>2. CASE \E p \in Producers : \/ WriterSend(p) \/ WriterFails(p) \/ Exit(p) \/ Crash(p)
                                \/ Serve(p) \/ PostedAnswerFails(p)
  BY <1>2 DEF WriterSend, WriterFails, Exit, Crash, Serve, PostedAnswerFails
<1>3. CASE Flush \/ BenchStop \/ Finished \/ UNCHANGED vars
  BY <1>3 DEF Flush, BenchStop, Finished, vars
<1> QED
  BY <1>1, <1>2, <1>3 DEF Next

(* The steps that change the state word or the store buffer.               *)
LEMMA WordSteps ==
  ASSUME [Next]_vars
  PROVE  \/ \E p \in Producers : WinWake(p)
         \/ StoreParked \/ StoreRunning \/ Flush
         \/ UNCHANGED <<state, buf>>
<1>1. CASE \E p \in Producers : Run(p)
  BY <1>1 DEF Run, Resume, PushTooBig, PushFull, PushReserve, PushPublish, NoWake,
    SignalPosted, JsonShutdown, CapnpShutdown
<1>2. CASE \E p \in Producers : \/ WriterSend(p) \/ WriterFails(p) \/ Exit(p) \/ Crash(p)
                                \/ Serve(p) \/ PostedAnswerFails(p)
  BY <1>2 DEF WriterSend, WriterFails, Exit, Crash, Serve, PostedAnswerFails
<1>3. CASE Consume
  BY <1>3 DEF Consume, Stopped, StartPass, Pop, CountEvent, DrainEnd, RecheckEmpty,
    Park, Unparked, ParkTimeout
<1>4. CASE ServerDies \/ BenchStop \/ Finished \/ UNCHANGED vars
  BY <1>4 DEF ServerDies, BenchStop, Finished, vars
<1> QED
  BY <1>1, <1>2, <1>3, <1>4 DEF Next

(* The steps that change the sockets or the park token.                    *)
LEMMA CallSteps ==
  ASSUME [Next]_vars
  PROVE  \/ \E p \in Producers : WriterSend(p) \/ Serve(p) \/ PostedAnswerFails(p)
         \/ Park \/ Unparked \/ ParkTimeout \/ ServerDies
         \/ UNCHANGED <<sock, token>>
<1>1. CASE \E p \in Producers : Run(p)
  BY <1>1 DEF Run, Resume, PushTooBig, PushFull, PushReserve, PushPublish, WinWake, NoWake,
    SignalPosted, JsonShutdown, CapnpShutdown
<1>2. CASE \E p \in Producers : WriterFails(p) \/ Exit(p) \/ Crash(p)
  BY <1>2 DEF WriterFails, Exit, Crash
<1>3. CASE Consume
  BY <1>3 DEF Consume, Stopped, StartPass, Pop, CountEvent, DrainEnd, StoreParked,
    RecheckEmpty, StoreRunning
<1>4. CASE Flush \/ BenchStop \/ Finished \/ UNCHANGED vars
  BY <1>4 DEF Flush, BenchStop, Finished, vars
<1> QED
  BY <1>1, <1>2, <1>3, <1>4 DEF Next

(* Only bin/bench sets stop.                                               *)
LEMMA StopSteps ==
  ASSUME [Next]_vars
  PROVE  BenchStop \/ UNCHANGED stop
<1>1. CASE \E p \in Producers : Run(p)
  BY <1>1 DEF Run, Resume, PushTooBig, PushFull, PushReserve, PushPublish, WinWake, NoWake,
    SignalPosted, JsonShutdown, CapnpShutdown
<1>2. CASE \E p \in Producers : \/ WriterSend(p) \/ WriterFails(p) \/ Exit(p) \/ Crash(p)
                                \/ Serve(p) \/ PostedAnswerFails(p)
  BY <1>2 DEF WriterSend, WriterFails, Exit, Crash, Serve, PostedAnswerFails
<1>3. CASE Consume
  BY <1>3 DEF Consume, Stopped, StartPass, Pop, CountEvent, DrainEnd, StoreParked,
    RecheckEmpty, StoreRunning, Park, Unparked, ParkTimeout
<1>4. CASE Flush \/ ServerDies \/ Finished \/ UNCHANGED vars
  BY <1>4 DEF Flush, ServerDies, Finished, vars
<1> QED
  BY <1>1, <1>2, <1>3, <1>4 DEF Next

(* Nothing changes the control plane.                                      *)
LEMMA ControlFixed ==
  ASSUME [Next]_vars
  PROVE  control' = control
<1>1. CASE \E p \in Producers : Run(p)
  BY <1>1 DEF Run, Resume, PushTooBig, PushFull, PushReserve, PushPublish, WinWake, NoWake,
    SignalPosted, JsonShutdown, CapnpShutdown
<1>2. CASE \E p \in Producers : \/ WriterSend(p) \/ WriterFails(p) \/ Exit(p) \/ Crash(p)
                                \/ Serve(p) \/ PostedAnswerFails(p)
  BY <1>2 DEF WriterSend, WriterFails, Exit, Crash, Serve, PostedAnswerFails
<1>3. CASE Consume
  BY <1>3 DEF Consume, Stopped, StartPass, Pop, CountEvent, DrainEnd, StoreParked,
    RecheckEmpty, StoreRunning, Park, Unparked, ParkTimeout
<1>4. CASE Flush \/ ServerDies \/ BenchStop \/ Finished \/ UNCHANGED vars
  BY <1>4 DEF Flush, ServerDies, BenchStop, Finished, vars
<1> QED
  BY <1>1, <1>2, <1>3, <1>4 DEF Next

-----------------------------------------------------------------------------
(* Types.                                                                  *)

QueueOK ==
  /\ log \in Seq(Messages) /\ delivered \in Seq(Messages)
  /\ ready \subseteq 0 .. Len(log) - 1

(* A producer that is not through its events has one left to push.         *)
ProducersOK ==
  /\ pc \in [Producers -> ProducerStates]
  /\ pos \in [Producers -> Nat]
  /\ sent \in [Producers -> 0 .. Count]
  /\ chan \in [Producers -> Nat]
  /\ \A p \in Producers : pc[p] \in InLoop => sent[p] < Count

WordOK == state \in Words /\ buf \in Seq(Words)

CallsOK == sock \in [Producers -> Nat] /\ token \in BOOLEAN

ConsumerOK == cpc \in ConsumerStates /\ drained \in BOOLEAN /\ events \in Nat

TypeInv == QueueOK /\ ProducersOK /\ WordOK /\ CallsOK /\ ConsumerOK /\ stop \in BOOLEAN

(* A message in the middle of the loop is one of Messages.                 *)
LEMMA MessageType ==
  ASSUME ProducersOK, NEW p \in Producers, pc[p] \in InLoop
  PROVE  MessageOf(p) \in Messages
BY ShmAssumption DEF ProducersOK, MessageOf, Messages

LEMMA QueueTyped ==
  ASSUME TypeInv, [Next]_vars
  PROVE  QueueOK'
<1> DEFINE S == Messages
<1>1. log \in Seq(S) /\ delivered \in Seq(S) /\ ready \subseteq 0 .. Len(log) - 1
  BY DEF TypeInv, QueueOK
<1>2. CASE \E p \in Producers : PushReserve(p)
  <2>1. PICK p \in Producers : PushReserve(p)
    BY <1>2
  <2>2. MessageOf(p) \in S
    BY <2>1, MessageType DEF TypeInv, PushReserve, InLoop, Busy
  <2>3. log' = Append(log, MessageOf(p)) /\ delivered' = delivered /\ ready' = ready
    BY <2>1 DEF PushReserve, Queue!Reserve
  <2> HIDE DEF S
  <2>4. log' \in Seq(S) /\ Len(log') = Len(log) + 1 /\ Len(log) \in Nat
    BY <1>1, <2>2, <2>3
  <2>5. ready' \subseteq 0 .. Len(log') - 1
    BY <1>1, <2>3, <2>4
  <2> QED
    BY <1>1, <2>3, <2>4, <2>5 DEF QueueOK, S
<1>3. CASE \E p \in Producers : PushPublish(p)
  BY <1>1, <1>3 DEF PushPublish, Queue!MakeReady, QueueOK
<1>4. CASE Pop
  <2>1. /\ Len(delivered) \in ready /\ delivered' = Append(delivered, log[Len(delivered) + 1])
        /\ log' = log /\ ready' = ready
    BY <1>4 DEF Pop, Queue!Deliver
  <2> HIDE DEF S
  <2>2. Len(delivered) \in Nat /\ Len(delivered) + 1 \in 1 .. Len(log)
    BY <1>1, <2>1
  <2>3. log[Len(delivered) + 1] \in S
    BY <1>1, <2>2
  <2>4. delivered' \in Seq(S)
    BY <1>1, <2>1, <2>3
  <2> QED
    BY <1>1, <2>1, <2>4 DEF QueueOK, S
<1>5. CASE UNCHANGED queueVars
  BY <1>1, <1>5 DEF queueVars, QueueOK
<1> QED
  BY <1>2, <1>3, <1>4, <1>5, QueueSteps

LEMMA ProducersTyped ==
  ASSUME TypeInv, [Next]_vars
  PROVE  ProducersOK'
<1> USE ShmAssumption DEF ProducerStates, Busy, InLoop
<1>1. ProducersOK /\ Len(log) \in Nat
  BY DEF TypeInv, QueueOK
<1>2. ASSUME NEW p \in Producers, Run(p)
      PROVE  ProducersOK'
  <2>1. CASE Resume(p) \/ PushTooBig(p) \/ PushFull(p) \/ PushPublish(p) \/ WinWake(p)
    BY <1>1, <2>1 DEF Resume, PushTooBig, PushFull, PushPublish, WinWake, ProducersOK
  <2>2. CASE PushReserve(p)
    BY <1>1, <2>2 DEF PushReserve, ProducersOK
  <2>3. CASE NoWake(p)
    BY <1>1, <2>3 DEF NoWake, NextEvent, ProducersOK
  <2>4. CASE SignalPosted(p)
    BY <1>1, <2>4 DEF SignalPosted, NextEvent, ProducersOK
  <2>5. CASE JsonShutdown(p)
    BY <1>1, <2>5 DEF JsonShutdown, ProducersOK
  <2>6. CASE CapnpShutdown(p)
    BY <1>1, <2>6 DEF CapnpShutdown, ProducersOK
  <2> QED
    BY <1>2, <2>1, <2>2, <2>3, <2>4, <2>5, <2>6 DEF Run
<1>3. ASSUME NEW p \in Producers, WriterSend(p) \/ WriterFails(p) \/ Exit(p) \/ Crash(p)
      PROVE  ProducersOK'
  <2>1. CASE WriterSend(p)
    BY <1>1, <2>1 DEF WriterSend, ProducersOK
  <2>2. CASE WriterFails(p)
    BY <1>1, <2>2 DEF WriterFails, ProducersOK
  <2>3. CASE Exit(p) \/ Crash(p)
    <3>1. pc' = [pc EXCEPT ![p] = "dead"] /\ chan' = [chan EXCEPT ![p] = 0]
          /\ pos' = pos /\ sent' = sent
      BY <2>3 DEF Exit, Crash
    <3> QED
      BY <1>1, <3>1 DEF ProducersOK
  <2> QED
    BY <1>3, <2>1, <2>2, <2>3
<1>4. CASE UNCHANGED producerVars
  BY <1>1, <1>4 DEF producerVars, ProducersOK
<1> QED
  BY <1>2, <1>3, <1>4, ProducerSteps

LEMMA WordTyped ==
  ASSUME TypeInv, [Next]_vars
  PROVE  WordOK'
<1> DEFINE W == Words
<1>1. state \in W /\ buf \in Seq(W)
  BY DEF TypeInv, WordOK
<1>2. "RUNNING" \in W /\ "PARKED" \in W
  BY DEF Words
<1> HIDE DEF W
<1>3. CASE \E p \in Producers : WinWake(p)
  BY <1>1, <1>2, <1>3 DEF WinWake, WordOK, W
<1>4. CASE StoreParked \/ StoreRunning
  <2>1. state' = state /\ (buf' = Append(buf, "PARKED") \/ buf' = Append(buf, "RUNNING"))
    BY <1>4 DEF StoreParked, StoreRunning
  <2>2. buf' \in Seq(W)
    BY <1>1, <1>2, <2>1
  <2> QED
    BY <1>1, <2>1, <2>2 DEF WordOK, W
<1>5. CASE Flush
  <2>1. buf # <<>> /\ state' = Head(buf) /\ buf' = Tail(buf)
    BY <1>5 DEF Flush
  <2>2. Head(buf) \in W /\ Tail(buf) \in Seq(W)
    BY <1>1, <2>1
  <2> QED
    BY <2>1, <2>2 DEF WordOK, W
<1>6. CASE UNCHANGED <<state, buf>>
  BY <1>1, <1>6 DEF WordOK, W
<1> QED
  BY <1>3, <1>4, <1>5, <1>6, WordSteps

LEMMA CallsTyped ==
  ASSUME TypeInv, [Next]_vars
  PROVE  CallsOK'
<1>1. sock \in [Producers -> Nat] /\ token \in BOOLEAN
  BY DEF TypeInv, CallsOK
<1>2. sock' \in [Producers -> Nat]
  <2>1. CASE \E p \in Producers : WriterSend(p) \/ Serve(p) \/ PostedAnswerFails(p)
    BY <1>1, <2>1 DEF WriterSend, Serve, PostedAnswerFails
  <2>2. CASE Park \/ Unparked \/ ParkTimeout \/ ServerDies
    BY <1>1, <2>2 DEF Park, Unparked, ParkTimeout, ServerDies
  <2> QED
    BY <1>1, <2>1, <2>2, CallSteps
<1>3. token' = token \/ token' = TRUE \/ token' = FALSE
  <2>1. CASE \E p \in Producers : WriterSend(p) \/ Serve(p) \/ PostedAnswerFails(p)
    BY <2>1 DEF WriterSend, Serve, PostedAnswerFails
  <2>2. CASE Park \/ Unparked \/ ParkTimeout \/ ServerDies
    BY <2>2 DEF Park, Unparked, ParkTimeout, ServerDies
  <2> QED
    BY <2>1, <2>2, CallSteps
<1> QED
  BY <1>1, <1>2, <1>3 DEF CallsOK

LEMMA ConsumerTyped ==
  ASSUME TypeInv, [Next]_vars
  PROVE  ConsumerOK'
<1>1. cpc \in ConsumerStates /\ drained \in BOOLEAN /\ events \in Nat
  BY DEF TypeInv, ConsumerOK
<1>2. cpc' \in ConsumerStates
  <2>1. CASE Consume
    BY <1>1, <2>1 DEF Consume, Stopped, StartPass, Pop, CountEvent, DrainEnd, StoreParked,
      RecheckEmpty, StoreRunning, Park, Unparked, ParkTimeout, ConsumerStates
  <2> QED
    BY <1>1, <2>1, ConsumerSteps DEF ServerDies, consumerVars, ConsumerStates
<1>3. drained' = drained \/ drained' = FALSE \/ drained' = (cpc = "drain")
  <2>1. CASE Consume
    BY <2>1 DEF Consume, Stopped, StartPass, Pop, CountEvent, DrainEnd, StoreParked,
      RecheckEmpty, StoreRunning, Park, Unparked, ParkTimeout
  <2> QED
    BY <2>1, ConsumerSteps DEF ServerDies, consumerVars
<1>4. events' = events \/ events' = events + 1
  <2>1. CASE Consume
    BY <2>1 DEF Consume, Stopped, StartPass, Pop, CountEvent, DrainEnd, StoreParked,
      RecheckEmpty, StoreRunning, Park, Unparked, ParkTimeout
  <2> QED
    BY <2>1, ConsumerSteps DEF ServerDies, consumerVars
<1>5. (cpc = "drain") \in BOOLEAN
  OBVIOUS
<1>6. drained' \in BOOLEAN
  BY <1>1, <1>3, <1>5, Zenon
<1>7. events' \in Nat
  BY <1>1, <1>4
<1> QED
  BY <1>2, <1>6, <1>7 DEF ConsumerOK

LEMMA TypeInitially ==
  ASSUME Init
  PROVE  TypeInv
<1> USE ShmAssumption DEF Init
<1>1. QueueOK
  BY DEF QueueOK, Queue!Init
<1>2. ProducersOK
  BY DEF ProducersOK, ProducerStates
<1>3. WordOK
  BY DEF WordOK, Words
<1>4. CallsOK
  BY DEF CallsOK
<1>5. ConsumerOK
  BY DEF ConsumerOK, ConsumerStates
<1> QED
  BY <1>1, <1>2, <1>3, <1>4, <1>5 DEF TypeInv

LEMMA TypeKept ==
  ASSUME TypeInv, [Next]_vars
  PROVE  TypeInv'
<1>1. stop' = TRUE \/ stop' = stop
  BY StopSteps DEF BenchStop
<1>2. stop' \in BOOLEAN
  BY <1>1 DEF TypeInv
<1> QED
  BY <1>2, QueueTyped, ProducersTyped, WordTyped, CallsTyped, ConsumerTyped DEF TypeInv

-----------------------------------------------------------------------------
(* The state word, as the consumer left it: the last store in the buffer   *)
(* or, when that is empty, the memory.  It says RUNNING while the consumer *)
(* works and PARKED on the way to the park, unless a producer took it away.*)
Last == buf[Len(buf)]

WordInv ==
  /\ cpc \in {"top", "drain", "count", "count_last", "park_store"} =>
       \/ buf = <<>> /\ state = "RUNNING"
       \/ buf # <<>> /\ Last = "RUNNING"
  /\ cpc \in {"recheck", "park"} => buf = <<>> \/ Last = "PARKED"
  /\ cpc = "parked" => buf = <<>>

(* A flush moves the oldest store to memory; the last one stays the last.  *)
LEMMA FlushKeepsLast ==
  ASSUME WordOK, Flush
  PROVE  /\ buf # <<>>
         /\ buf' = <<>> => state' = Last
         /\ buf' # <<>> => Last' = Last
<1> DEFINE W == Words
<1>1. buf \in Seq(W) /\ buf # <<>> /\ state' = Head(buf) /\ buf' = Tail(buf)
  BY DEF WordOK, Flush
<1> HIDE DEF W
<1>2. Len(buf) \in Nat \ {0} /\ Len(buf') = Len(buf) - 1 /\ state' = buf[1]
  BY <1>1
<1>3. buf' = <<>> => Len(buf) = 1
  <2>1. buf' = <<>> => Len(buf') = 0
    OBVIOUS
  <2> QED
    BY <1>2, <2>1
<1>4. ASSUME buf' # <<>>
      PROVE  buf'[Len(buf')] = buf[Len(buf)]
  <2>1. Len(buf') \in Nat \ {0} /\ Len(buf') + 1 = Len(buf)
    BY <1>1, <1>2, <1>4
  <2>2. \A i \in 1 .. Len(buf) - 1 : Tail(buf)[i] = buf[i + 1]
    BY <1>1
  <2> QED
    BY <1>1, <1>2, <2>1, <2>2
<1> QED
  BY <1>1, <1>2, <1>3, <1>4 DEF Last

LEMMA WordKept ==
  ASSUME TypeInv, WordInv, [Next]_vars
  PROVE  WordInv'
<1>1. WordOK
  BY DEF TypeInv
<1>2. CASE \E p \in Producers : WinWake(p)
  <2>1. state' = "RUNNING" /\ buf' = buf /\ cpc' = cpc
    BY <1>2 DEF WinWake, consumerVars
  <2> QED
    BY <2>1 DEF WordInv, Last
<1>3. CASE StoreParked \/ StoreRunning
  <2>1. ASSUME NEW w \in Words, buf' = Append(buf, w)
        PROVE  buf' # <<>> /\ Last' = w
    <3> DEFINE W == Words
    <3>1. buf \in Seq(W) /\ w \in W
      BY <1>1 DEF WordOK
    <3> HIDE DEF W
    <3> QED
      BY <2>1, <3>1 DEF Last
  <2>2. CASE StoreParked
    BY <2>1, <2>2 DEF StoreParked, WordInv, Words
  <2>3. CASE StoreRunning
    BY <2>1, <2>3 DEF StoreRunning, WordInv, Words
  <2> QED
    BY <1>3, <2>2, <2>3
<1>4. CASE Flush
  <2>1. cpc' = cpc
    BY <1>4 DEF Flush, consumerVars
  <2> QED
    BY <1>1, <1>4, <2>1, FlushKeepsLast DEF WordInv
<1>5. CASE UNCHANGED <<state, buf>> /\ ~StoreParked /\ ~StoreRunning
  <2>1. CASE Consume
    BY <1>5, <2>1 DEF Consume, Stopped, StartPass, Pop, CountEvent, DrainEnd, RecheckEmpty,
      Park, Unparked, ParkTimeout, WordInv, Last
  <2>2. CASE ServerDies \/ UNCHANGED consumerVars
    BY <1>5, <2>2 DEF ServerDies, consumerVars, WordInv, Last
  <2> QED
    BY <2>1, <2>2, ConsumerSteps
<1> QED
  BY <1>2, <1>3, <1>4, <1>5, WordSteps

-----------------------------------------------------------------------------
(* Wake-ups.                                                               *)

(* A wake-up that is owed stays owed until the consumer's token is set:    *)
(* neither shutdown of JSON-RPC nor a producer that fails loses it.        *)
LEMMA OwedKept ==
  ASSUME TypeInv, [Next]_vars, ~ServerDead',
         NEW q \in Producers, Owed(q) \/ Forgetful(q)
  PROVE  token' \/ Owed(q)' \/ Forgetful(q)'
<1> USE DEF Owed, Forgetful
<1>1. /\ pc \in [Producers -> ProducerStates]
      /\ chan \in [Producers -> Nat] /\ sock \in [Producers -> Nat]
  BY DEF TypeInv, ProducersOK, CallsOK
<1>c. control' = control
  BY ControlFixed
<1>2. ASSUME NEW p \in Producers, Run(p)
      PROVE  Owed(q)' \/ Forgetful(q)'
  <2>1. CASE Resume(p) \/ PushTooBig(p) \/ PushFull(p) \/ PushReserve(p) \/ PushPublish(p)
             \/ WinWake(p)
    <3>1. /\ chan' = chan /\ sock' = sock
          /\ pc[p] \in {"waiting", "push", "publish", "check_state"}
          /\ \E w \in ProducerStates : pc' = [pc EXCEPT ![p] = w]
      BY <2>1 DEF Resume, PushTooBig, PushFull, PushReserve, PushPublish, WinWake,
        ProducerStates, Busy
    <3> QED
      BY <1>1, <1>c, <3>1
  <2>2. CASE NoWake(p)
    BY <1>1, <1>c, <2>2 DEF NoWake, NextEvent
  <2>3. CASE SignalPosted(p)
    BY <1>1, <1>c, <2>3 DEF SignalPosted, NextEvent
  <2>4. CASE JsonShutdown(p)
    BY <1>1, <1>c, <2>4 DEF JsonShutdown
  <2>5. CASE CapnpShutdown(p)
    BY <1>1, <1>c, <2>5 DEF CapnpShutdown
  <2> QED
    BY <1>2, <2>1, <2>2, <2>3, <2>4, <2>5 DEF Run
<1>3. ASSUME NEW p \in Producers, WriterSend(p)
      PROVE  Owed(q)' \/ Forgetful(q)'
  BY <1>1, <1>c, <1>3 DEF WriterSend
<1>4. ASSUME NEW p \in Producers, WriterFails(p)
      PROVE  FALSE
  BY <1>4 DEF WriterFails, ServerDead, consumerVars
<1>5. ASSUME NEW p \in Producers, Exit(p) \/ Crash(p)
      PROVE  Owed(q)' \/ Forgetful(q)'
  <2>1. pc' = [pc EXCEPT ![p] = "dead"] /\ chan' = [chan EXCEPT ![p] = 0] /\ sock' = sock
    BY <1>5 DEF Exit, Crash
  <2> QED
    BY <1>1, <1>c, <2>1
<1>6. ASSUME NEW p \in Producers, Serve(p)
      PROVE  token' = TRUE
  BY <1>6 DEF Serve
<1>7. ASSUME NEW p \in Producers, PostedAnswerFails(p)
      PROVE  Owed(q)' \/ Forgetful(q)'
  BY <1>1, <1>c, <1>7 DEF PostedAnswerFails, producerVars
<1>8. CASE Consume
  <2>1. UNCHANGED producerVars /\ sock' = sock
    BY <1>8 DEF Consume, Stopped, StartPass, Pop, CountEvent, DrainEnd, StoreParked,
      RecheckEmpty, StoreRunning, Park, Unparked, ParkTimeout
  <2> QED
    BY <1>c, <2>1 DEF producerVars
<1>9. CASE ServerDies
  BY <1>9 DEF ServerDies, ServerDead
<1>10. CASE Flush \/ BenchStop \/ Finished \/ UNCHANGED vars
  BY <1>c, <1>10 DEF Flush, BenchStop, Finished, vars, producerVars
<1> QED
  BY <1>2, <1>3, <1>4, <1>5, <1>6, <1>7, <1>8, <1>9, <1>10 DEF Next

LEMMA WakeKept ==
  ASSUME TypeInv, WordInv, WakeOwed, [Next]_vars
  PROVE  WakeOwed'
<1> DEFINE Wakeable == cpc \in {"recheck", "park", "parked"} /\ buf = <<>> /\ state = "RUNNING"
<1> SUFFICES ASSUME Wakeable'
             PROVE  token' \/ \E p \in Producers : (Owed(p) \/ Forgetful(p))'
  BY DEF WakeOwed
<1>1. ~ServerDead'
  BY DEF ServerDead
<1>2. CASE Wakeable
  <2>1. token \/ \E p \in Producers : Owed(p) \/ Forgetful(p)
    BY <1>2 DEF WakeOwed
  <2>2. ASSUME token
        PROVE  token'
    <3>1. CASE \E p \in Producers : WriterSend(p) \/ Serve(p) \/ PostedAnswerFails(p)
      BY <2>2, <3>1 DEF WriterSend, Serve, PostedAnswerFails
    <3>2. CASE Park \/ Unparked \/ ParkTimeout \/ ServerDies
      BY <2>2, <3>2 DEF Park, Unparked, ParkTimeout, ServerDies
    <3> QED
      BY <2>2, <3>1, <3>2, CallSteps
  <2> QED
    BY <1>1, <2>1, <2>2, OwedKept
<1>3. CASE ~Wakeable
  <2>1. cpc \in {"recheck", "park", "parked"} /\ ~StoreParked
    <3>1. ~StoreParked
      <4>1. StoreParked => buf' = Append(buf, "PARKED")
        BY DEF StoreParked
      <4>2. buf \in Seq(Words) /\ "PARKED" \in Words
        BY DEF TypeInv, WordOK, Words
      <4>3. Append(buf, "PARKED") # <<>>
        BY <4>2
      <4> QED
        BY <4>1, <4>3
    <3>2. CASE Consume
      BY <3>1, <3>2 DEF Consume, Stopped, StartPass, Pop, CountEvent, DrainEnd, RecheckEmpty,
        StoreRunning, Park, Unparked, ParkTimeout
    <3>3. CASE ServerDies \/ UNCHANGED consumerVars
      BY <3>1, <3>3 DEF ServerDies, consumerVars
    <3> QED
      BY <3>1, <3>2, <3>3, ConsumerSteps
  <2>2. CASE \E p \in Producers : WinWake(p)
    <3>1. PICK p \in Producers : WinWake(p)
      BY <2>2
    <3>2. pc' = [pc EXCEPT ![p] = "signal"] /\ pc \in [Producers -> ProducerStates]
      BY <3>1 DEF WinWake, TypeInv, ProducersOK
    <3> QED
      BY <3>2 DEF Owed
  <2>3. CASE Flush
    <3>1. state' = Last /\ buf # <<>>
      BY <2>3, FlushKeepsLast DEF TypeInv
    <3> QED
      BY <2>1, <3>1 DEF WordInv
  <2>4. CASE StoreRunning
    BY <2>1, <2>4 DEF StoreRunning
  <2>5. CASE UNCHANGED <<state, buf>>
    BY <1>3, <2>1, <2>5
  <2> QED
    BY <2>1, <2>2, <2>3, <2>4, <2>5, WordSteps
<1> QED
  BY <1>2, <1>3

-----------------------------------------------------------------------------
(* What was pushed and delivered.                                          *)

(* The producers whose current event is in the queue already.              *)
Between(p) == pc[p] \in {"publish", "check_state", "signal", "dead"}

(* Every event of a producer gets into the queue at most once.             *)
LogInv ==
  /\ \A i \in 1 .. Len(log) :
       \/ log[i][2] < sent[log[i][1]]
       \/ log[i][2] = sent[log[i][1]] /\ Between(log[i][1])
  /\ \A i, j \in 1 .. Len(log) : log[i] = log[j] => i = j

(* What is delivered is the queue from its beginning on.                   *)
DeliveredInv ==
  /\ Len(delivered) <= Len(log)
  /\ \A i \in 1 .. Len(delivered) : delivered[i] = log[i]

(* The counter follows the deliveries.                                     *)
EventsInv ==
  /\ events <= Len(delivered)
  /\ cpc \in {"count", "unpark", "count_last"} => events < Len(delivered)

StopInv == stop => events >= Target

LEMMA LogKept ==
  ASSUME TypeInv, LogInv, [Next]_vars
  PROVE  LogInv'
<1> DEFINE S == Messages
           In(i) == log[i][1] \in Producers /\ log[i][2] \in Nat
<1>1. log \in Seq(S) /\ Len(log) \in Nat
  BY DEF TypeInv, QueueOK
<1>2. \A i \in 1 .. Len(log) : In(i)
  <2>1. \A i \in 1 .. Len(log) : log[i] \in S
    BY <1>1
  <2> QED
    BY <2>1, ShmAssumption DEF Messages
<1>3. /\ pc \in [Producers -> ProducerStates] /\ sent \in [Producers -> Nat]
  BY ShmAssumption DEF TypeInv, ProducersOK
<1> HIDE DEF S
<1>4. ASSUME NEW p \in Producers, PushReserve(p)
      PROVE  LogInv'
  <2>1. /\ log' = Append(log, MessageOf(p)) /\ pc[p] = "push" /\ sent' = sent
        /\ pc' = [pc EXCEPT ![p] = "publish"]
    BY <1>4 DEF PushReserve, Queue!Reserve
  <2>2. MessageOf(p) \in S
    BY <2>1, MessageType DEF TypeInv, InLoop, Busy, S
  <2>3. /\ Len(log') = Len(log) + 1
        /\ \A i \in 1 .. Len(log) : log'[i] = log[i]
        /\ log'[Len(log) + 1] = <<p, sent[p]>>
    BY <1>1, <2>1, <2>2 DEF MessageOf
  <2>4. \A i \in 1 .. Len(log) : log[i] # <<p, sent[p]>>
    <3> SUFFICES ASSUME NEW i \in 1 .. Len(log), log[i] = <<p, sent[p]>>
                 PROVE  FALSE
      OBVIOUS
    <3>1. log[i][1] = p /\ log[i][2] = sent[p] /\ sent[p] \in Nat
      BY <1>3
    <3>2. Between(p)
      BY <3>1 DEF LogInv
    <3> QED
      BY <2>1, <3>2 DEF Between
  <2>5. \A i \in 1 .. Len(log') : i \in 1 .. Len(log) \/ i = Len(log) + 1
    BY <1>1, <2>3
  <2>6. \A i, j \in 1 .. Len(log') : log'[i] = log'[j] => i = j
    BY <2>3, <2>4, <2>5 DEF LogInv
  <2>7. \A r \in Producers : Between(r) => Between(r)'
    BY <1>3, <2>1 DEF Between
  <2>8. Between(p)'
    BY <1>3, <2>1 DEF Between
  <2>9. \A i \in 1 .. Len(log') :
          \/ log'[i][2] < sent'[log'[i][1]]
          \/ log'[i][2] = sent'[log'[i][1]] /\ Between(log[i][1])'
    <3> TAKE i \in 1 .. Len(log')
    <3>1. CASE i \in 1 .. Len(log)
      <4>1. In(i) /\ log'[i] = log[i]
        BY <1>2, <2>3, <3>1
      <4>2. \/ log[i][2] < sent[log[i][1]]
            \/ log[i][2] = sent[log[i][1]] /\ Between(log[i][1])
        BY <3>1 DEF LogInv
      <4> QED
        BY <2>1, <2>7, <4>1, <4>2 DEF Between
    <3>2. CASE i = Len(log) + 1
      BY <1>3, <2>1, <2>3, <2>8, <3>2 DEF Between
    <3> QED
      BY <2>5, <3>1, <3>2
  <2> QED
    BY <2>6, <2>9 DEF LogInv
<1>5. ASSUME log' = log,
             \A r \in Producers : \/ sent'[r] = sent[r] /\ (Between(r) => Between(r)')
                                  \/ sent'[r] = sent[r] + 1
      PROVE  LogInv'
  <2>1. \A i \in 1 .. Len(log) :
          \/ log[i][2] < sent'[log[i][1]]
          \/ log[i][2] = sent'[log[i][1]] /\ Between(log[i][1])'
    BY <1>2, <1>3, <1>5 DEF LogInv
  <2> QED
    BY <1>5, <2>1 DEF LogInv
<1>6. ASSUME NEW p \in Producers, Run(p), ~PushReserve(p)
      PROVE  LogInv'
  <2>1. log' = log
    BY <1>6 DEF Run, Resume, PushTooBig, PushFull, PushPublish, Queue!MakeReady, WinWake,
      NoWake, SignalPosted, JsonShutdown, CapnpShutdown, queueVars
  <2>2. CASE Resume(p) \/ PushTooBig(p) \/ PushFull(p) \/ PushPublish(p) \/ WinWake(p)
             \/ JsonShutdown(p) \/ CapnpShutdown(p)
    <3>1. /\ sent' = sent
          /\ \/ pc[p] \in {"waiting", "push", "shutdown"}
                /\ \E w \in ProducerStates : pc' = [pc EXCEPT ![p] = w]
             \/ pc' = [pc EXCEPT ![p] = "check_state"]
             \/ pc' = [pc EXCEPT ![p] = "signal"]
      BY <2>2 DEF Resume, PushTooBig, PushFull, PushPublish, WinWake, JsonShutdown,
        CapnpShutdown, ProducerStates, Busy
    <3>2. \A r \in Producers : Between(r) => Between(r)'
      BY <1>3, <3>1 DEF Between
    <3> QED
      BY <1>5, <2>1, <3>1, <3>2
  <2>3. CASE NoWake(p) \/ SignalPosted(p)
    <3>1. /\ sent' = [sent EXCEPT ![p] = sent[p] + 1]
          /\ \E w \in ProducerStates : pc' = [pc EXCEPT ![p] = w]
      BY <2>3 DEF NoWake, SignalPosted, NextEvent, ProducerStates, Busy
    <3>2. \A r \in Producers : \/ sent'[r] = sent[r] /\ (Between(r) => Between(r)')
                               \/ sent'[r] = sent[r] + 1
      BY <1>3, <3>1 DEF Between
    <3> QED
      BY <1>5, <2>1, <3>2
  <2> QED
    BY <1>6, <2>2, <2>3 DEF Run
<1>7. ASSUME NEW p \in Producers, WriterSend(p) \/ WriterFails(p) \/ Exit(p) \/ Crash(p)
      PROVE  LogInv'
  <2>1. /\ log' = log /\ sent' = sent
        /\ pc' = pc \/ pc' = [pc EXCEPT ![p] = "dead"]
    BY <1>7 DEF WriterSend, WriterFails, Exit, Crash, queueVars
  <2>2. \A r \in Producers : Between(r) => Between(r)'
    BY <1>3, <2>1 DEF Between
  <2> QED
    BY <1>5, <2>1, <2>2
<1>8. CASE UNCHANGED producerVars /\ ~(\E p \in Producers : Run(p))
  <2>1. log' = log
    <3>1. CASE Pop \/ UNCHANGED queueVars
      BY <3>1 DEF Pop, Queue!Deliver, queueVars
    <3>2. CASE \E p \in Producers : PushReserve(p) \/ PushPublish(p)
      BY <1>8, <3>2 DEF Run
    <3> QED
      BY <3>1, <3>2, QueueSteps
  <2>2. sent' = sent /\ pc' = pc
    BY <1>8 DEF producerVars
  <2> QED
    BY <1>5, <2>1, <2>2 DEF Between
<1> QED
  BY <1>4, <1>6, <1>7, <1>8, ProducerSteps

LEMMA DeliveredKept ==
  ASSUME TypeInv, DeliveredInv, [Next]_vars
  PROVE  DeliveredInv'
<1> DEFINE S == Messages
<1>1. log \in Seq(S) /\ delivered \in Seq(S) /\ ready \subseteq 0 .. Len(log) - 1
  BY DEF TypeInv, QueueOK
<1>2. CASE \E p \in Producers : PushReserve(p)
  <2>1. PICK p \in Producers : PushReserve(p)
    BY <1>2
  <2>2. MessageOf(p) \in S
    BY <2>1, MessageType DEF TypeInv, PushReserve, InLoop, Busy
  <2>3. log' = Append(log, MessageOf(p)) /\ delivered' = delivered
    BY <2>1 DEF PushReserve, Queue!Reserve
  <2> HIDE DEF S
  <2>4. /\ Len(log') = Len(log) + 1 /\ Len(log) \in Nat /\ Len(delivered) \in Nat
        /\ \A i \in 1 .. Len(log) : log'[i] = log[i]
    BY <1>1, <2>2, <2>3
  <2> QED
    BY <2>3, <2>4 DEF DeliveredInv
<1>3. CASE Pop
  <2>1. /\ Len(delivered) \in ready /\ delivered' = Append(delivered, log[Len(delivered) + 1])
        /\ log' = log
    BY <1>3 DEF Pop, Queue!Deliver
  <2> HIDE DEF S
  <2>2. Len(delivered) \in Nat /\ Len(delivered) + 1 \in 1 .. Len(log)
    BY <1>1, <2>1
  <2>3. log[Len(delivered) + 1] \in S
    BY <1>1, <2>2
  <2>4. /\ Len(delivered') = Len(delivered) + 1
        /\ \A i \in 1 .. Len(delivered) : delivered'[i] = delivered[i]
        /\ delivered'[Len(delivered) + 1] = log[Len(delivered) + 1]
    BY <1>1, <2>1, <2>2, <2>3
  <2>5. \A i \in 1 .. Len(delivered') : i \in 1 .. Len(delivered) \/ i = Len(delivered) + 1
    BY <2>2, <2>4
  <2> QED
    BY <1>1, <2>1, <2>2, <2>4, <2>5 DEF DeliveredInv
<1>4. CASE (\E p \in Producers : PushPublish(p)) \/ UNCHANGED queueVars
  BY <1>4 DEF PushPublish, Queue!MakeReady, queueVars, DeliveredInv
<1> QED
  BY <1>2, <1>3, <1>4, QueueSteps

LEMMA EventsKept ==
  ASSUME TypeInv, EventsInv, [Next]_vars
  PROVE  EventsInv'
<1>1. Len(delivered) \in Nat /\ events \in Nat
  BY DEF TypeInv, QueueOK, ConsumerOK
<1>2. CASE Pop
  <2>1. /\ delivered' = Append(delivered, log[Len(delivered) + 1]) /\ events' = events
        /\ Len(delivered) \in ready
    BY <1>2 DEF Pop, Queue!Deliver
  <2>2. Len(delivered') = Len(delivered) + 1
    <3> DEFINE S == Messages
    <3>1. log \in Seq(S) /\ delivered \in Seq(S) /\ ready \subseteq 0 .. Len(log) - 1
      BY DEF TypeInv, QueueOK
    <3> HIDE DEF S
    <3>2. log[Len(delivered) + 1] \in S
      BY <1>1, <2>1, <3>1
    <3> QED
      BY <2>1, <3>1, <3>2
  <2> QED
    BY <1>1, <2>1, <2>2 DEF EventsInv
<1>3. CASE Consume /\ ~Pop
  <2>1. delivered' = delivered
    BY <1>3 DEF Consume, Stopped, StartPass, CountEvent, DrainEnd, StoreParked, RecheckEmpty,
      StoreRunning, Park, Unparked, ParkTimeout, queueVars
  <2>2. CASE CountEvent
    BY <1>1, <2>1, <2>2 DEF CountEvent, EventsInv
  <2>3. CASE ~CountEvent
    <3>1. /\ events' = events
          /\ \/ cpc' \notin {"count", "unpark", "count_last"}
             \/ cpc = "unpark"
      BY <1>3, <2>3 DEF Consume, Stopped, StartPass, DrainEnd, StoreParked, RecheckEmpty,
        StoreRunning, Park, Unparked, ParkTimeout
    <3> QED
      BY <2>1, <3>1 DEF EventsInv
  <2> QED
    BY <2>2, <2>3
<1>4. CASE ServerDies \/ (UNCHANGED consumerVars /\ ~Pop)
  <2>1. delivered' = delivered
    <3>1. CASE \E p \in Producers : PushReserve(p) \/ PushPublish(p)
      BY <3>1 DEF PushReserve, PushPublish, Queue!Reserve, Queue!MakeReady
    <3>2. CASE Pop
      BY <1>4, <3>2 DEF Pop, ServerDies, queueVars
    <3> QED
      BY <3>1, <3>2, QueueSteps DEF queueVars
  <2> QED
    BY <1>4, <2>1 DEF ServerDies, consumerVars, EventsInv
<1> QED
  BY <1>2, <1>3, <1>4, ConsumerSteps

LEMMA StopKept ==
  ASSUME TypeInv, StopInv, [Next]_vars
  PROVE  StopInv'
<1>1. Target \in Nat
  BY ShmAssumption, FS_CardinalityType DEF Target
<1>2. events' = events \/ events' = events + 1
  <2>1. CASE Consume
    BY <2>1 DEF Consume, Stopped, StartPass, Pop, CountEvent, DrainEnd, StoreParked,
      RecheckEmpty, StoreRunning, Park, Unparked, ParkTimeout
  <2> QED
    BY <2>1, ConsumerSteps DEF ServerDies, consumerVars
<1>3. events \in Nat /\ (events >= Target => events' >= Target)
  <2>1. events \in Nat
    BY DEF TypeInv, ConsumerOK
  <2> QED
    BY <1>1, <1>2, <2>1
<1>4. CASE BenchStop
  BY <1>3, <1>4 DEF BenchStop, StopInv, Target
<1>5. CASE stop' = stop
  BY <1>3, <1>5, Zenon DEF StopInv, Target
<1> QED
  BY <1>4, <1>5, StopSteps

(* A queue without repetitions holds at most Target messages, and with     *)
(* that many it holds them all.                                            *)
LEMMA AllMessages ==
  ASSUME TypeInv, LogInv
  PROVE  /\ Len(log) <= Target
         /\ Len(log) = Target => \A m \in Messages : \E i \in 1 .. Target : log[i] = m
<1> DEFINE n == Len(log)
           S == Messages
<1>1. IsFiniteSet(S) /\ Cardinality(S) = Target
  <2>1. IsFiniteSet(0 .. Count - 1) /\ Cardinality(0 .. Count - 1) = Count
    BY ShmAssumption, FS_Interval
  <2> QED
    BY <2>1, ShmAssumption, FS_Product DEF Messages, Target
<1>2. log \in Seq(S)
  BY DEF TypeInv, QueueOK
<1> HIDE DEF S
<1>3. n \in Nat /\ log \in [1 .. n -> S]
  BY <1>2
<1>4. \A i, j \in 1 .. n : log[i] = log[j] => i = j
  BY DEF LogInv
<1>5. log \in Injection(1 .. n, S)
  BY <1>3, <1>4 DEF Injection, IsInjective
<1>6. Cardinality(1 .. n) = n
  BY <1>3, FS_Interval
<1>7. n <= Target /\ (n = Target => log \in Surjection(1 .. n, S))
  BY <1>1, <1>5, <1>6, FS_Injection
<1>8. n = Target => \A m \in S : \E i \in 1 .. n : log[i] = m
  BY <1>7 DEF Surjection
<1> QED
  BY <1>7, <1>8 DEF S

-----------------------------------------------------------------------------
(* The theorems.                                                           *)

ShmInv ==
  /\ TypeInv
  /\ WordInv
  /\ WakeOwed
  /\ LogInv
  /\ DeliveredInv
  /\ EventsInv
  /\ StopInv

(* The strengthened invariant is inductive, whoever is killed and whatever *)
(* is lost.                                                                *)
THEOREM ShmInvariant == Spec => []ShmInv
<1>1. ASSUME Init
      PROVE  ShmInv
  <2>1. TypeInv
    BY <1>1, TypeInitially
  <2>2. WordInv /\ WakeOwed /\ StopInv
    BY <1>1 DEF Init, WordInv, WakeOwed, StopInv
  <2>3. log = <<>> /\ delivered = <<>> /\ events = 0 /\ cpc = "top"
    BY <1>1 DEF Init, Queue!Init
  <2>4. LogInv /\ DeliveredInv /\ EventsInv
    BY <2>3 DEF LogInv, DeliveredInv, EventsInv
  <2> QED
    BY <2>1, <2>2, <2>4 DEF ShmInv
<1>2. ASSUME ShmInv, [Next]_vars
      PROVE  ShmInv'
  BY <1>2, TypeKept, WordKept, WakeKept, LogKept, DeliveredKept, EventsKept, StopKept
    DEF ShmInv
<1> QED
  BY <1>1, <1>2, PTL DEF Spec

(* Every reachable state of the system is well typed.                      *)
THEOREM ShmTyped == Spec => []TypeOK
<1>1. ShmInv => TypeOK
  BY DEF ShmInv, TypeInv, QueueOK, ProducersOK, WordOK, CallsOK, ConsumerOK, TypeOK,
    ProducerStates, ConsumerStates, Words
<1> QED
  BY <1>1, ShmInvariant, PTL

(* A consumer that works says so: once its store of RUNNING has left the   *)
(* store buffer no producer finds PARKED.                                  *)
THEOREM WorkIsAdvertised == Spec => []RunningIsAdvertised
<1>1. ShmInv => RunningIsAdvertised
  BY DEF ShmInv, WordInv, RunningIsAdvertised, Last
<1> QED
  BY <1>1, ShmInvariant, PTL

(* A producer that took the PARKED flag away has called or is going to,    *)
(* until the token is set, unless its process or its connection is gone.   *)
THEOREM NoWakeUpLost == Spec => []WakeOwed
<1>1. ShmInv => WakeOwed
  BY DEF ShmInv
<1> QED
  BY <1>1, ShmInvariant, PTL

(* When bin/bench stops the consumer, every event of every producer has    *)
(* been delivered.                                                         *)
THEOREM StopLeavesNothing == Spec => []StopIsClean
<1>1. ASSUME ShmInv, stop
      PROVE  /\ Len(delivered) = Target
             /\ \A m \in Messages : \E i \in 1 .. Target : delivered[i] = m
  <2>1. /\ Len(log) <= Target
        /\ Len(log) = Target => \A m \in Messages : \E i \in 1 .. Target : log[i] = m
    BY <1>1, AllMessages DEF ShmInv
  <2>2. /\ Len(delivered) \in Nat /\ Len(log) \in Nat /\ events \in Nat
        /\ events >= Target /\ events <= Len(delivered) /\ Len(delivered) <= Len(log)
    BY <1>1 DEF ShmInv, TypeInv, QueueOK, ConsumerOK, StopInv, EventsInv, DeliveredInv
  <2>3. Target \in Nat
    BY ShmAssumption, FS_CardinalityType DEF Target
  <2>4. Len(delivered) = Target /\ Len(log) = Target
    BY <2>1, <2>2, <2>3
  <2> QED
    BY <1>1, <2>1, <2>4 DEF ShmInv, DeliveredInv
<1>2. ShmInv => StopIsClean
  BY <1>1 DEF StopIsClean
<1> QED
  BY <1>2, ShmInvariant, PTL
=============================================================================
