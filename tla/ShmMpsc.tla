------------------------------- MODULE ShmMpsc -------------------------------
(***************************************************************************)
(* The running system: the producers' hot loops (src/src/producer.rs), the *)
(* consumer thread (src/src/server.rs) and the wake-up path between them:  *)
(* the word consumer_state in the segment, the "posted" calls on the       *)
(* control plane (src/src/proto/control/*.rs) and thread park/unpark.      *)
(*                                                                         *)
(* The ring is the bounded queue MpscQueue, which MpscRing implements.     *)
(* What the ring's atomics say about memory order matters for one word:    *)
(* the consumer stores PARKED and then loads the seq of the next slot, and *)
(* the processor (x86, as the measurements in README.md) may let the store *)
(* wait in a store buffer while the load goes ahead.  buf is that buffer.  *)
(* The stores of a producer need none: its next step, a compare_exchange,  *)
(* empties its buffer.  A pop is taken when its store to the slot becomes  *)
(* visible, so behind everything in buf; the message it read was there     *)
(* earlier and nobody else could have taken it.                            *)
(*                                                                         *)
(* Tokio runs the tasks of a runtime one at a time, and the loop of push   *)
(* awaits only when the ring is full: meanwhile no other task of the same  *)
(* runtime runs, the writer of its own "posted" calls included.            *)
(*                                                                         *)
(* A definition marked "Wrong" is a mistake the code could have made.  No  *)
(* action uses it; put in the place of the definition that follows it, it  *)
(* must break a property.                                                  *)
(***************************************************************************)
EXTENDS Integers, Sequences, FiniteSets

CONSTANTS
  Producers,   \* the producers, each one attached
  Capacity,    \* RingConfig.num_slots
  Count,       \* how many events each producer pushes (run's argument n)
  Oversize,    \* the messages longer than payload_capacity() - 4
  Crashable,   \* the producers whose process may be killed at any point
  ServerMortal,  \* the server's process may be killed at any point
  InBench      \* bin/bench: one runtime for everything, and a stop at the end

Messages == Producers \X (0 .. Count - 1)

ASSUME ShmAssumption ==
  /\ IsFiniteSet(Producers)
  /\ Capacity \in Nat \ {0}
  /\ Count \in Nat \ {0}
  /\ Oversize \subseteq Messages
  /\ Crashable \subseteq Producers
  /\ InBench \in BOOLEAN /\ ServerMortal \in BOOLEAN
  /\ InBench => Crashable = {} /\ ~ServerMortal

VARIABLES
  control,     \* the control plane all were started with
  log, ready, delivered,   \* the queue
  state,       \* consumer_state, in memory
  buf,         \* the consumer's stores to it that are not visible yet
  pc, pos,     \* where each producer is in run, and the position it won
  sent,        \* how many events each producer has pushed
  chan,        \* "posted" calls that wait in each producer for its writer task
  sock,        \* "posted" calls on their way through each socket
  token,       \* the consumer thread's park token
  cpc,         \* where consumer_loop is, "dead" when the server's process is gone
  drained,     \* has this pass of consumer_loop popped anything
  events,      \* ConsumerStats.events
  stop         \* Handles.stop

queueVars == <<log, ready, delivered>>
producerVars == <<pc, pos, sent, chan>>
consumerVars == <<cpc, drained, events>>
vars == <<control, queueVars, state, buf, producerVars, sock, token, consumerVars, stop>>

Queue == INSTANCE MpscQueue WITH Message <- Messages

ServerDead == cpc = "dead"
MessageOf(p) == <<p, sent[p]>>
Target == Cardinality(Producers) * Count

(* Where run does not give way to the other tasks of its runtime.          *)
Busy == {"push", "publish", "check_state", "signal"}

(* The producers whose loop keeps a task of p's runtime, or a task of the  *)
(* server's, from running.                                                 *)
RuntimeOf(p) == IF InBench THEN Producers ELSE {p}
ServerRuntime == IF InBench THEN Producers ELSE {}
Yielded(tasks) == \A p \in tasks : pc[p] \notin Busy

(* bin/bench knows JSON-RPC only.                                          *)
Init ==
  /\ control \in IF InBench THEN {"jsonrpc"} ELSE {"jsonrpc", "capnp"}
  /\ Queue!Init
  /\ state = "RUNNING"
  /\ buf = <<>>
  /\ pc = [p \in Producers |-> "waiting"]
  /\ pos = [p \in Producers |-> 0]
  /\ sent = [p \in Producers |-> 0]
  /\ chan = [p \in Producers |-> 0]
  /\ sock = [p \in Producers |-> 0]
  /\ token = FALSE
  /\ cpc = "top"
  /\ drained = FALSE
  /\ events = 0
  /\ stop = FALSE

-----------------------------------------------------------------------------
(* A producer.  "waiting" is an await: the attach call, or the sleep after *)
(* a full ring.                                                            *)

Resume(p) ==
  /\ pc[p] = "waiting" /\ Yielded(RuntimeOf(p))
  /\ pc' = [pc EXCEPT ![p] = "push"]
  /\ UNCHANGED <<control, queueVars, state, buf, pos, sent, chan, sock, token, consumerVars, stop>>

PushTooBig(p) ==
  /\ pc[p] = "push" /\ MessageOf(p) \in Oversize
  /\ pc' = [pc EXCEPT ![p] = "bailed"]
  /\ UNCHANGED <<control, queueVars, state, buf, pos, sent, chan, sock, token, consumerVars, stop>>

PushFull(p) ==
  /\ pc[p] = "push" /\ MessageOf(p) \notin Oversize
  /\ Len(log) - Len(delivered) >= Capacity
  /\ pc' = [pc EXCEPT ![p] = "waiting"]
  /\ UNCHANGED <<control, queueVars, state, buf, pos, sent, chan, sock, token, consumerVars, stop>>

PushReserve(p) ==
  /\ pc[p] = "push" /\ MessageOf(p) \notin Oversize
  /\ Queue!Reserve(MessageOf(p))
  /\ pos' = [pos EXCEPT ![p] = Len(log)]
  /\ pc' = [pc EXCEPT ![p] = "publish"]
  /\ UNCHANGED <<control, state, buf, sent, chan, sock, token, consumerVars, stop>>

PushPublish(p) ==
  /\ pc[p] = "publish"
  /\ Queue!MakeReady(pos[p])
  /\ pc' = [pc EXCEPT ![p] = "check_state"]
  /\ UNCHANGED <<control, state, buf, pos, sent, chan, sock, token, consumerVars, stop>>

(* Wrong: the loop does not end.                                           *)
EventForever(p) ==
  /\ sent' = [sent EXCEPT ![p] = @ + 1]
  /\ pc' = [pc EXCEPT ![p] = "push"]

(* The next event of the loop, or the end of it.                           *)
NextEvent(p) ==
  /\ sent' = [sent EXCEPT ![p] = @ + 1]
  /\ pc' = [pc EXCEPT ![p] = IF sent[p] + 1 < Count THEN "push" ELSE "shutdown"]

(* Wrong: the winner does not call.                                        *)
WinOnly(p) ==
  /\ pc[p] = "check_state" /\ state = "PARKED"
  /\ state' = "RUNNING"
  /\ NextEvent(p)
  /\ UNCHANGED <<control, queueVars, buf, pos, chan, sock, token, consumerVars, stop>>

(* The compare_exchange on consumer_state, won or lost.                    *)
WinWake(p) ==
  /\ pc[p] = "check_state" /\ state = "PARKED"
  /\ state' = "RUNNING"
  /\ pc' = [pc EXCEPT ![p] = "signal"]
  /\ UNCHANGED <<control, queueVars, buf, pos, sent, chan, sock, token, consumerVars, stop>>

NoWake(p) ==
  /\ pc[p] = "check_state" /\ state # "PARKED"
  /\ NextEvent(p)
  /\ UNCHANGED <<control, queueVars, state, buf, pos, chan, sock, token, consumerVars, stop>>

SignalPosted(p) ==
  /\ pc[p] = "signal"
  /\ chan' = [chan EXCEPT ![p] = @ + 1]
  /\ NextEvent(p)
  /\ UNCHANGED <<control, queueVars, state, buf, pos, sock, token, consumerVars, stop>>

(* Wrong: the writer stops when the loop has ended.                        *)
WriterSendInLoop(p) ==
  /\ chan[p] > 0 /\ pc[p] = "waiting" /\ Yielded(RuntimeOf(p))
  /\ chan' = [chan EXCEPT ![p] = @ - 1]
  /\ sock' = [sock EXCEPT ![p] = @ + 1]
  /\ UNCHANGED <<control, queueVars, state, buf, pc, pos, sent, token, consumerVars, stop>>

(* The task that writes the "posted" calls to the socket.                  *)
WriterSend(p) ==
  /\ chan[p] > 0 /\ ~ServerDead /\ Yielded(RuntimeOf(p))
  /\ chan' = [chan EXCEPT ![p] = @ - 1]
  /\ sock' = [sock EXCEPT ![p] = @ + 1]
  /\ UNCHANGED <<control, queueVars, state, buf, pc, pos, sent, token, consumerVars, stop>>

(* Wrong: the writer task tries again.                                     *)
WriterRetries(p) ==
  /\ chan[p] > 0 /\ ServerDead /\ Yielded(RuntimeOf(p))
  /\ UNCHANGED vars

(* The server is gone: writing fails, the writer task ends, and what was   *)
(* or will be put into the channel is dropped; spawned calls fail alike.   *)
WriterFails(p) ==
  /\ chan[p] > 0 /\ ServerDead /\ Yielded(RuntimeOf(p))
  /\ chan' = [chan EXCEPT ![p] = 0]
  /\ UNCHANGED <<control, queueVars, state, buf, pc, pos, sent, sock, token, consumerVars, stop>>

(* Wrong: the writer is dropped with what it has not sent.                 *)
ShutdownNow(p) ==
  /\ pc[p] = "shutdown" /\ Yielded(RuntimeOf(p))
  /\ chan' = [chan EXCEPT ![p] = 0]
  /\ pc' = [pc EXCEPT ![p] = "ended"]
  /\ UNCHANGED <<control, queueVars, state, buf, pos, sent, sock, token, consumerVars, stop>>

(* JsonClient closes the channel and waits until its writer has sent what  *)
(* is left.                                                                *)
JsonShutdown(p) ==
  /\ control = "jsonrpc"
  /\ pc[p] = "shutdown" /\ Yielded(RuntimeOf(p)) /\ chan[p] = 0
  /\ pc' = [pc EXCEPT ![p] = "ended"]
  /\ UNCHANGED <<control, queueVars, state, buf, pos, sent, chan, sock, token, consumerVars, stop>>

(* CapnpClient disconnects, and the calls it has not sent fail.            *)
CapnpShutdown(p) ==
  /\ control = "capnp"
  /\ pc[p] = "shutdown" /\ Yielded(RuntimeOf(p))
  /\ chan' = [chan EXCEPT ![p] = 0]
  /\ pc' = [pc EXCEPT ![p] = "ended"]
  /\ UNCHANGED <<control, queueVars, state, buf, pos, sent, sock, token, consumerVars, stop>>

(* run's error ends the process of bin/producer, with the calls its writer *)
(* has not sent.                                                           *)
Exit(p) ==
  /\ pc[p] = "bailed" /\ ~InBench
  /\ pc' = [pc EXCEPT ![p] = "dead"]
  /\ chan' = [chan EXCEPT ![p] = 0]
  /\ UNCHANGED <<control, queueVars, state, buf, pos, sent, sock, token, consumerVars, stop>>

(* The process is killed; the segment and the socket keep what they hold.  *)
Crash(p) ==
  /\ p \in Crashable /\ pc[p] \notin {"ended", "bailed", "dead"}
  /\ pc' = [pc EXCEPT ![p] = "dead"]
  /\ chan' = [chan EXCEPT ![p] = 0]
  /\ UNCHANGED <<control, queueVars, state, buf, pos, sent, sock, token, consumerVars, stop>>

(* The server's process is killed, with the consumer thread and the        *)
(* sessions; stores on their way still get to the segment.                 *)
ServerDies ==
  /\ ServerMortal /\ cpc \notin {"exited", "dead"}
  /\ cpc' = "dead"
  /\ sock' = [p \in Producers |-> 0]
  /\ token' = FALSE
  /\ UNCHANGED <<control, queueVars, state, buf, producerVars, drained, events, stop>>

(* The server's handler of one "posted" call: it unparks the consumer.     *)
Serve(p) ==
  /\ sock[p] > 0 /\ Yielded(ServerRuntime)
  /\ sock' = [sock EXCEPT ![p] = @ - 1]
  /\ token' = TRUE
  /\ UNCHANGED <<control, queueVars, state, buf, producerVars, consumerVars, stop>>

(* capnp-rpc answers the call.  When the producer has gone that may fail,  *)
(* and the session ends with the calls it has not read.                    *)
PostedAnswerFails(p) ==
  /\ control = "capnp" /\ pc[p] \in {"ended", "dead"}
  /\ sock[p] > 0 /\ Yielded(ServerRuntime)
  /\ sock' = [sock EXCEPT ![p] = 0]
  /\ UNCHANGED <<control, queueVars, state, buf, producerVars, token, consumerVars, stop>>

-----------------------------------------------------------------------------
(* The consumer thread.                                                    *)

HeadReady == Len(delivered) \in ready

(* The oldest store in the buffer becomes visible.                         *)
Flush ==
  /\ buf # <<>>
  /\ state' = Head(buf)
  /\ buf' = Tail(buf)
  /\ UNCHANGED <<control, queueVars, producerVars, sock, token, consumerVars, stop>>

Stopped ==
  /\ cpc = "top" /\ stop
  /\ cpc' = "exited"
  /\ UNCHANGED <<control, queueVars, state, buf, producerVars, sock, token, drained, events, stop>>

StartPass ==
  /\ cpc = "top" /\ ~stop
  /\ cpc' = "drain"
  /\ drained' = FALSE
  /\ UNCHANGED <<control, queueVars, state, buf, producerVars, sock, token, events, stop>>

(* try_pop finds a message: in the drain loop, or in the look it takes     *)
(* after it has stored PARKED.                                             *)
Pop ==
  /\ cpc \in {"drain", "recheck"} /\ buf = <<>>
  /\ Queue!Deliver
  /\ drained' = (cpc = "drain")
  /\ cpc' = IF cpc = "drain" THEN "count" ELSE "unpark"
  /\ UNCHANGED <<control, state, buf, producerVars, sock, token, events, stop>>

(* The statistics: fetch_add empties the store buffer.                     *)
CountEvent ==
  /\ cpc \in {"count", "count_last"} /\ buf = <<>>
  /\ events' = events + 1
  /\ cpc' = IF cpc = "count" THEN "drain" ELSE "top"
  /\ UNCHANGED <<control, queueVars, state, buf, producerVars, sock, token, drained, stop>>

DrainEnd ==
  /\ cpc = "drain" /\ ~HeadReady
  /\ cpc' = IF drained THEN "top" ELSE "park_store"
  /\ UNCHANGED <<control, queueVars, state, buf, producerVars, sock, token, drained, events, stop>>

StoreParked ==
  /\ cpc = "park_store"
  /\ buf' = Append(buf, "PARKED")
  /\ cpc' = "recheck"
  /\ UNCHANGED <<control, queueVars, state, producerVars, sock, token, drained, events, stop>>

RecheckEmpty ==
  /\ cpc = "recheck" /\ ~HeadReady
  /\ cpc' = "park"
  /\ UNCHANGED <<control, queueVars, state, buf, producerVars, sock, token, drained, events, stop>>

(* Wrong: not stored when the second look finds a message.                 *)
StoreRunningAfterPark ==
  /\ cpc \in {"unpark", "run_store"}
  /\ buf' = IF cpc = "unpark" THEN buf ELSE Append(buf, "RUNNING")
  /\ cpc' = IF cpc = "unpark" THEN "count_last" ELSE "top"
  /\ UNCHANGED <<control, queueVars, state, producerVars, sock, token, drained, events, stop>>

(* RUNNING is stored when the second look finds a message, and after park. *)
StoreRunning ==
  /\ cpc \in {"unpark", "run_store"}
  /\ buf' = Append(buf, "RUNNING")
  /\ cpc' = IF cpc = "unpark" THEN "count_last" ELSE "top"
  /\ UNCHANGED <<control, queueVars, state, producerVars, sock, token, drained, events, stop>>

(* park_timeout: an atomic operation on the token empties the store buffer;*)
(* it blocks unless the token is there.                                    *)
Park ==
  /\ cpc = "park" /\ buf = <<>>
  /\ cpc' = IF token THEN "run_store" ELSE "parked"
  /\ token' = FALSE
  /\ UNCHANGED <<control, queueVars, state, buf, producerVars, sock, drained, events, stop>>

Unparked ==
  /\ cpc = "parked" /\ token
  /\ cpc' = "run_store"
  /\ token' = FALSE
  /\ UNCHANGED <<control, queueVars, state, buf, producerVars, sock, drained, events, stop>>

(* Wrong: park instead of park_timeout.                                    *)
NoTimeout == FALSE /\ UNCHANGED vars

(* The 50 ms are over.                                                     *)
ParkTimeout ==
  /\ cpc = "parked"
  /\ cpc' = "run_store"
  /\ token' = FALSE
  /\ UNCHANGED <<control, queueVars, state, buf, producerVars, sock, drained, events, stop>>

(* Wrong: the producers are through, so stop; and an off-by-one.           *)
StopWhenJoined ==
  /\ InBench /\ ~stop
  /\ \A p \in Producers : pc[p] = "ended"
  /\ stop' = TRUE
  /\ UNCHANGED <<control, queueVars, state, buf, producerVars, sock, token, consumerVars>>

StopAfterTarget ==
  /\ InBench /\ ~stop
  /\ \A p \in Producers : pc[p] = "ended"
  /\ events > Target
  /\ stop' = TRUE
  /\ UNCHANGED <<control, queueVars, state, buf, producerVars, sock, token, consumerVars>>

(* bin/bench: every producer is through and every event is counted.        *)
BenchStop ==
  /\ InBench /\ ~stop
  /\ \A p \in Producers : pc[p] = "ended"
  /\ events >= Target
  /\ stop' = TRUE
  /\ UNCHANGED <<control, queueVars, state, buf, producerVars, sock, token, consumerVars>>

(* Nothing is left to do.                                                  *)
Finished ==
  /\ cpc \in {"exited", "dead"} /\ buf = <<>>
  /\ \A p \in Producers : sock[p] = 0 /\ chan[p] = 0
  /\ UNCHANGED vars

-----------------------------------------------------------------------------
Run(p) ==
  \/ Resume(p)
  \/ PushTooBig(p) \/ PushFull(p) \/ PushReserve(p) \/ PushPublish(p)
  \/ WinWake(p) \/ NoWake(p) \/ SignalPosted(p)
  \/ JsonShutdown(p) \/ CapnpShutdown(p)

Consume ==
  \/ Stopped \/ StartPass \/ Pop \/ CountEvent \/ DrainEnd
  \/ StoreParked \/ RecheckEmpty \/ StoreRunning
  \/ Park \/ Unparked \/ ParkTimeout

Next ==
  \/ \E p \in Producers : \/ Run(p) \/ WriterSend(p) \/ WriterFails(p)
                          \/ Exit(p) \/ Crash(p) \/ Serve(p) \/ PostedAnswerFails(p)
  \/ Consume \/ Flush \/ ServerDies
  \/ BenchStop \/ Finished

Spec == Init /\ [][Next]_vars

(* Threads and tasks keep being scheduled, the buffer drains, and the      *)
(* sleeps end, the one inside park_timeout included.  Nothing makes a      *)
(* producer fail.                                                          *)
Fairness ==
  /\ \A p \in Producers : /\ WF_vars(Run(p)) /\ WF_vars(Serve(p))
                           /\ WF_vars(WriterSend(p)) /\ WF_vars(WriterFails(p))
  /\ WF_vars(Consume) /\ WF_vars(Flush)
  /\ WF_vars(BenchStop)

FairSpec == Spec /\ Fairness

-----------------------------------------------------------------------------
(* Properties.                                                             *)

(* Type correctness of the segment's state word and of both processes.     *)
TypeOK ==
  /\ log \in Seq(Messages) /\ delivered \in Seq(Messages)
  /\ ready \subseteq 0 .. Len(log) - 1
  /\ state \in {"RUNNING", "PARKED"}
  /\ buf \in Seq({"RUNNING", "PARKED"})
  /\ pc \in [Producers -> Busy \cup {"waiting", "shutdown", "ended", "bailed", "dead"}]
  /\ pos \in [Producers -> Nat]
  /\ sent \in [Producers -> 0 .. Count]
  /\ chan \in [Producers -> Nat] /\ sock \in [Producers -> Nat]
  /\ token \in BOOLEAN /\ drained \in BOOLEAN /\ stop \in BOOLEAN
  /\ cpc \in {"top", "drain", "count", "park_store", "recheck", "unpark", "count_last",
              "park", "parked", "run_store", "exited", "dead"}
  /\ events \in Nat

(* Where a wake-up of the current park may still be.                       *)
Owed(p) == pc[p] = "signal" \/ chan[p] > 0 \/ sock[p] > 0

(* The producers that may have lost one.                                   *)
Forgetful(p) == pc[p] = "dead" \/ (control = "capnp" /\ pc[p] = "ended")

(* A wake-up that was won is not lost: when the consumer is about to block *)
(* or blocked and a producer has taken its PARKED flag away, so that no    *)
(* other producer will call, either the park token is set or the call is   *)
(* on its way, unless the process that owed it is gone.                    *)
WakeOwed ==
  cpc \in {"recheck", "park", "parked"} /\ buf = <<>> /\ state = "RUNNING"
    => token \/ \E p \in Producers : Owed(p) \/ Forgetful(p)

(* A consumer that is working advertises it: unless its store of RUNNING   *)
(* is still on its way, no producer finds PARKED and calls.                *)
RunningIsAdvertised ==
  cpc \in {"top", "drain", "count", "count_last", "park_store"} /\ state = "PARKED"
    => buf # <<>> /\ buf[Len(buf)] = "RUNNING"

(* bin/bench stops the consumer only when every event of every producer is *)
(* delivered, so a stop never leaves a message in the ring.                *)
StopIsClean ==
  stop => /\ Len(delivered) = Target
          /\ \A m \in Messages : \E i \in 1 .. Target : delivered[i] = m

(* The next position of the queue was reserved by a process that died      *)
(* before it published: what comes after it cannot be delivered any more.  *)
Stalled ==
  /\ Len(delivered) < Len(log) /\ ~HeadReady
  /\ pc[log[Len(delivered) + 1][1]] = "dead"

(* Every event that was pushed is delivered, whichever wake-ups are lost   *)
(* to the store buffer, to a crash or to a disconnect.                     *)
EventuallyDelivered == <>[](Len(delivered) = Len(log) \/ Stalled \/ ServerDead)

(* The loop of push goes round and round.                                  *)
Blocked(p) ==
  /\ pc[p] \in {"push", "waiting"}
  /\ Len(log) - Len(delivered) >= Capacity
  /\ Stalled \/ ServerDead

(* Every producer gets through its events, or stops at one that is too big *)
(* or by a crash, however often the ring is full meanwhile.  Nothing but a *)
(* ring that nobody will empty keeps it: neither its calls nor its end do, *)
(* also when the server is gone.                                           *)
ProducersFinish ==
  \A p \in Producers : <>(pc[p] \in {"ended", "bailed", "dead"}) \/ <>[]Blocked(p)

(* In bin/bench the consumer thread comes to its end.                      *)
ConsumerStops == <>(cpc = "exited")

(* README.md, "Reading the numbers": "The CAS-on-state design means we     *)
(* never wake an already-running consumer".                                *)
NeverWakesRunning ==
  [][\A p \in Producers : Serve(p) => cpc \notin {"drain", "count"}]_vars
=============================================================================
