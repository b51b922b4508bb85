------------------------------- MODULE ShmRing -------------------------------
(***************************************************************************)
(* The running system with the ring it really uses: run (producer.rs) calls*)
(* push of ring.rs and consumer_loop (server.rs) calls try_pop, and both   *)
(* calls take the atomic steps of MpscRing, in any order with everything   *)
(* else that ShmMpsc describes.  ShmMpsc has MpscQueue in the place of the *)
(* ring; that nothing is lost by this is ImplementsSystem.                 *)
(*                                                                         *)
(* A step is a step of the ring, a step of the system, or a step of both:  *)
(* a call that returns.  A guard on the ring's state is always the ring's  *)
(* own, on its shared memory.                                              *)
(*                                                                         *)
(* The consumer's stores to the ring wait in its store buffer behind the   *)
(* earlier ones to consumer_state, so Free needs buf to be empty.  What    *)
(* the consumer does next is its own business until it empties the buffer. *)
(*                                                                         *)
(* A definition marked "Wrong" is a mistake the code could have made.  No  *)
(* action uses it; put in the place of the definition that follows it, it  *)
(* must break a property.                                                  *)
(***************************************************************************)
EXTENDS MpscRing, FiniteSets

CONSTANTS
  ServerMortal,  \* the server's process may be killed at any point
  InBench        \* bin/bench: one runtime for everything, and a stop at the end

(* What ShmMpsc assumes, but for what MpscRing has assumed already.        *)
ASSUME SystemAssumption ==
  /\ IsFiniteSet(Producers)
  /\ Count # 0
  /\ InBench \in BOOLEAN /\ ServerMortal \in BOOLEAN
  /\ InBench => Crashable = {} /\ ~ServerMortal

VARIABLES
  control,       \* the control plane all were started with
  state, buf,    \* consumer_state, and the consumer's stores on their way to it
  at,            \* where each producer is in run
  event,         \* the number of the event each producer is at: run's i
  won,           \* history: the position each producer reserved last
  chan, sock, token,         \* "posted" calls, and the consumer's park token
  loop, drained, events,     \* where consumer_loop is, and its counters
  stop           \* Handles.stop

runVars == <<event, won, chan>>
wakeVars == <<control, state, buf, sock, token, events, stop>>
systemVars == <<runVars, wakeVars, at, loop, drained>>
allVars == <<vars, systemVars>>

System == INSTANCE ShmMpsc
            WITH Capacity <- NumSlots, ready <- Ready,
                 pc <- at, pos <- won, sent <- event, cpc <- loop

SystemInit == Init /\ System!Init

-----------------------------------------------------------------------------
(* A producer inside push: the call does not return.                       *)
PushGoesOn(p) ==
  /\ at[p] \in {"push", "publish"}
  /\ \/ LoadTail(p) \/ PushSlotFree(p) \/ PushStale(p) \/ CasFail(p)
     \/ WriteLen(p) \/ WriteData(p)
  /\ UNCHANGED systemVars

(* The compare_exchange on tail succeeds: push will return Ok.             *)
PushReserves(p) ==
  /\ at[p] = "push" /\ CasOk(p)
  /\ at' = [at EXCEPT ![p] = "publish"]
  /\ won' = [won EXCEPT ![p] = pos[p]]
  /\ UNCHANGED <<event, chan, wakeVars, loop, drained>>

(* push returns Ok.                                                        *)
PushOk(p) ==
  /\ at[p] = "publish" /\ Publish(p)
  /\ at' = [at EXCEPT ![p] = "check_state"]
  /\ UNCHANGED <<runVars, wakeVars, loop, drained>>

(* Wrong: the event is given up.                                           *)
FullSkipsEvent(p) ==
  /\ at[p] = "push" /\ PushFull(p)
  /\ at' = [at EXCEPT ![p] = "waiting"]
  /\ event' = [event EXCEPT ![p] = @ + 1]
  /\ UNCHANGED <<won, chan, wakeVars, loop, drained>>

(* Err(Full): run sleeps, and calls push again with the same event.        *)
PushErrFull(p) ==
  /\ at[p] = "push" /\ PushFull(p)
  /\ at' = [at EXCEPT ![p] = "waiting"]
  /\ UNCHANGED <<runVars, wakeVars, loop, drained>>

(* Err(TooBig): run returns the error.                                     *)
PushErrTooBig(p) ==
  /\ at[p] = "push" /\ TooBig(p)
  /\ at' = [at EXCEPT ![p] = "bailed"]
  /\ UNCHANGED <<runVars, wakeVars, loop, drained>>

(* The rest of run does not touch the ring.                                *)
RunElsewhere(p) ==
  /\ UNCHANGED vars
  /\ \/ System!Resume(p) \/ System!WinWake(p) \/ System!NoWake(p)
     \/ System!SignalPosted(p) \/ System!JsonShutdown(p) \/ System!CapnpShutdown(p)

(* Neither do the tasks that carry the "posted" calls.                     *)
WriterStep(p) == UNCHANGED vars /\ (System!WriterSend(p) \/ System!WriterFails(p))
ServeStep(p) == UNCHANGED vars /\ (System!Serve(p) \/ System!PostedAnswerFails(p))

(* A process ends, or is killed wherever it is, inside push too.           *)
ExitStep(p) == UNCHANGED vars /\ System!Exit(p)
CrashStep(p) == Crash(p) /\ System!Crash(p)

-----------------------------------------------------------------------------
(* The consumer thread inside try_pop.                                     *)
PopGoesOn ==
  /\ loop \in {"drain", "recheck"}
  /\ PopStart \/ ReadLen \/ ReadData
  /\ UNCHANGED systemVars

(* The slot is given back: try_pop will return Some.                       *)
PopFrees ==
  /\ loop \in {"drain", "recheck"} /\ buf = <<>>
  /\ Free
  /\ drained' = (loop = "drain")
  /\ loop' = IF loop = "drain" THEN "count" ELSE "unpark"
  /\ UNCHANGED <<runVars, wakeVars, at>>

PopReturns ==
  /\ loop \in {"count", "unpark"} /\ Advance
  /\ UNCHANGED systemVars

(* try_pop returns None, to the drain loop or to the look after PARKED.    *)
PopReturnsNone ==
  /\ loop \in {"drain", "recheck"} /\ PopNone
  /\ loop' = IF loop = "recheck" THEN "park" ELSE IF drained THEN "top" ELSE "park_store"
  /\ UNCHANGED <<runVars, wakeVars, at, drained>>

(* The rest of consumer_loop runs between two calls of try_pop.            *)
LoopElsewhere ==
  /\ cpc = "idle" /\ UNCHANGED vars
  /\ \/ System!Stopped \/ System!StartPass \/ System!CountEvent
     \/ System!StoreParked \/ System!StoreRunning
     \/ System!Park \/ System!Unparked \/ System!ParkTimeout

(* The consumer's store buffer, the death of the server and the stop of    *)
(* bin/bench.                                                              *)
AroundLoop ==
  /\ UNCHANGED vars
  /\ System!Flush \/ System!ServerDies \/ System!BenchStop \/ System!Finished

-----------------------------------------------------------------------------
RunStep(p) ==
  \/ PushGoesOn(p) \/ PushReserves(p)
  \/ PushOk(p) \/ PushErrFull(p) \/ PushErrTooBig(p)
  \/ RunElsewhere(p)

LoopStep == PopGoesOn \/ PopFrees \/ PopReturns \/ PopReturnsNone \/ LoopElsewhere

SystemNext ==
  \/ \E p \in Producers : \/ RunStep(p) \/ WriterStep(p) \/ ServeStep(p)
                          \/ ExitStep(p) \/ CrashStep(p)
  \/ LoopStep \/ AroundLoop

SystemSpec == SystemInit /\ [][SystemNext]_allVars

-----------------------------------------------------------------------------
(* Properties.                                                             *)

(* The system on the ring behaves as the system on the queue: whatever the *)
(* steps inside push and try_pop interleave with, a caller cannot tell.    *)
ImplementsSystem == System!Spec

InsidePush == {"load_seq", "cas"} \cup Writing

(* What run believes of the push it has called is true of it: where it is, *)
(* which event it pushes, which position it has won, and that the event    *)
(* fits into a slot.                                                       *)
CallerInv ==
  \A p \in Producers :
    /\ at[p] = "push" => pc[p] \in {"idle", "load_seq", "cas"}
    /\ at[p] = "publish" => pc[p] \in Writing /\ won[p] = pos[p]
    /\ at[p] \in {"waiting", "check_state", "signal", "shutdown", "ended"} => pc[p] = "idle"
    /\ at[p] \in {"waiting", "push", "publish"} => sent[p] = event[p]
    /\ at[p] \in {"check_state", "signal"} => sent[p] = event[p] + 1
    /\ pc[p] \in InsidePush => MessageOf(p) \notin Oversize
=============================================================================
