------------------------------- MODULE BenchRun -------------------------------
(***************************************************************************)
(* bin/bench (src/src/bin/bench.rs): one run after another in the same     *)
(* process, each with its own runtime, server, ring, consumer thread and   *)
(* statistics, but with one socket path for all.  The question is what a   *)
(* report is worth: the main task joins the producers, waits for the       *)
(* number of events, stops the consumer and sleeps before it reads the     *)
(* counters, while the consumer and the sessions may still be at work.     *)
(*                                                                         *)
(* Time passes in ticks of 10 ms.  Threads and tasks take no time, but     *)
(* between the stop and the report they may be kept waiting, for at most   *)
(* Delay ticks altogether: this is what the code takes for granted.        *)
(*                                                                         *)
(* The wake-up is coarse here (see ShmMpsc): calls are the "posted" calls  *)
(* made and not handled, wherever they are, and a pop and the count of it  *)
(* are one step.  Of a byte counter, what matters is for how many messages *)
(* it has been added to.                                                   *)
(***************************************************************************)
EXTENDS Integers, Sequences, FiniteSets

CONSTANTS
  NumProducers,  \* --producers
  Pairs,         \* how many pairs of a size and a codec
  NoWarmup,      \* --no-warmup
  Count, Warmup, \* events of a producer in a measured run and in a warm-up
  Capacity,      \* RingConfig.num_slots
  ParkTicks,     \* the 50 ms of park_timeout
  SleepTicks,    \* the 80 ms before the report
  Delay          \* see above

ASSUME BenchAssumption ==
  /\ NumProducers \in Nat \ {0} /\ Pairs \in Nat \ {0}
  /\ NoWarmup \in BOOLEAN
  /\ Count \in Nat \ {0} /\ Warmup \in Nat \ {0}
  /\ Capacity \in Nat \ {0}
  /\ ParkTicks \in Nat /\ SleepTicks \in Nat /\ Delay \in Nat
  /\ ParkTicks + Delay < SleepTicks

Producers == 1 .. NumProducers
Runs == 1 .. IF NoWarmup THEN Pairs ELSE 2 * Pairs
Measured(r) == NoWarmup \/ r % 2 = 0
EventsOf(r) == IF Measured(r) THEN Count ELSE Warmup

VARIABLES
  run,       \* the run that is on
  main,      \* where run_one is
  file,      \* is there a socket file
  server,    \* the task of server::run
  task, sent,                      \* each producer's task, and how many it has pushed
  ring, word, calls, token,        \* messages in the ring, consumer_state, posted, park token
  thread, drained,                 \* where consumer_loop is
  stop, events, wire, payload, posted,   \* Handles
  park, sleep, late,               \* ticks left to sleep, and ticks kept waiting
  made, fault,                     \* calls made in this run; has anything failed from outside
  reports                          \* the rows of the measured runs

mainVars == <<run, main, reports>>
serverVars == <<file, server>>
ringVars == <<ring, word, calls, token, made>>
threadVars == <<thread, drained, events, wire, payload>>
timeVars == <<park, sleep, late>>
vars == <<mainVars, serverVars, task, sent, ringVars, threadVars, stop, posted, timeVars, fault>>

Target == NumProducers * EventsOf(run)
Over == main \in {"done", "failed"}      \* the process has come to its end

(* A task runs when no other one is in the push loop, which does not await *)
(* unless the ring is full.                                                *)
Yielded == ~Over /\ \A p \in Producers : task[p] \notin {"push", "check"}

Init ==
  /\ run = 1 /\ main = "start" /\ reports = <<>>
  /\ file \in BOOLEAN /\ server = "none"
  /\ task = [p \in Producers |-> "none"] /\ sent = [p \in Producers |-> 0]
  /\ ring = 0 /\ word = "RUNNING" /\ calls = 0 /\ token = FALSE /\ made = 0
  /\ thread = "none" /\ drained = FALSE /\ stop = FALSE
  /\ events = 0 /\ wire = 0 /\ payload = 0 /\ posted = 0
  /\ park = 0 /\ sleep = 0 /\ late = 0
  /\ fault = FALSE

-----------------------------------------------------------------------------
(* The main task.                                                          *)

(* Wrong: the file of the run before is still there.                       *)
FileKept == file

(* remove_file(SOCK_PATH)                                                  *)
FileRemoved == FALSE

(* run_one and the head of run_inner: new Handles, a new server task.      *)
Start ==
  /\ main = "start"
  /\ main' = "wait_sock"
  /\ file' = FileRemoved /\ server' = "spawned"
  /\ task' = [p \in Producers |-> "none"] /\ sent' = [p \in Producers |-> 0]
  /\ stop' = FALSE /\ posted' = 0 /\ calls' = 0 /\ made' = 0
  /\ events' = 0 /\ wire' = 0 /\ payload' = 0
  /\ UNCHANGED <<run, reports, ring, word, token, thread, drained, timeVars, fault>>

(* wait_for_sock finds the file, and the producers are spawned.            *)
SpawnProducers ==
  /\ main = "wait_sock" /\ file
  /\ main' = "join"
  /\ task' = [p \in Producers |-> "connect"]
  /\ UNCHANGED <<run, reports, serverVars, sent, ringVars, threadVars, stop, posted,
                 timeVars, fault>>

(* Its five seconds are over.  That the server's task did not get to run   *)
(* for so long is a fault from outside; any other missing file is not.     *)
NoSocket ==
  /\ main = "wait_sock" /\ ~file
  /\ main' = "failed" /\ fault' = (fault \/ server = "spawned")
  /\ UNCHANGED <<run, reports, serverVars, task, sent, ringVars, threadVars, stop, posted,
                 timeVars>>

Joined ==
  /\ main = "join" /\ \A p \in Producers : task[p] = "ok"
  /\ main' = "poll"
  /\ UNCHANGED <<run, reports, serverVars, task, sent, ringVars, threadVars, stop, posted,
                 timeVars, fault>>

(* Wrong: the outcome of a producer is not looked at.                      *)
JoinIgnored ==
  /\ main = "join" /\ \A p \in Producers : task[p] \in {"ok", "failed"}
  /\ main' = "poll"
  /\ UNCHANGED <<run, reports, serverVars, task, sent, ringVars, threadVars, stop, posted,
                 timeVars, fault>>

(* The first t.await?? of a producer that failed: the tasks are joined in  *)
(* order.  The error ends the program.                                     *)
JoinFails ==
  /\ main = "join" /\ Yielded
  /\ \E p \in Producers : task[p] = "failed" /\ \A q \in 1 .. p - 1 : task[q] = "ok"
  /\ main' = "failed"
  /\ UNCHANGED <<run, reports, serverVars, task, sent, ringVars, threadVars, stop, posted,
                 timeVars, fault>>

(* Wrong: not set, so that the thread goes on.  Wrong: no sleep.           *)
StopForgotten == FALSE
NoPause == 0

StopFlag == TRUE
Pause == SleepTicks

(* Wrong: the sessions are aborted too.                                    *)
StopSessions ==
  /\ main = "poll" /\ events >= Target
  /\ main' = "sleep" /\ stop' = StopFlag /\ server' = "ended"
  /\ sleep' = Pause /\ late' = 0 /\ calls' = 0
  /\ UNCHANGED <<run, reports, file, task, sent, ring, word, token, made, threadVars, posted,
                 park, fault>>

(* The counter has reached the target: stop, abort the accept loop, sleep. *)
Stop ==
  /\ main = "poll" /\ events >= Target
  /\ main' = "sleep" /\ stop' = StopFlag /\ server' = "ended"
  /\ sleep' = Pause /\ late' = 0
  /\ UNCHANGED <<run, reports, file, task, sent, ringVars, threadVars, posted, park, fault>>

Row == [run |-> run, events |-> events, wire |-> wire, payload |-> payload,
        posted |-> posted, made |-> made]

(* The report of a measured run; the next run, or the end of main.         *)
Report ==
  /\ main = "sleep" /\ sleep = 0
  /\ reports' = IF Measured(run) THEN Append(reports, Row) ELSE reports
  /\ IF run + 1 \in Runs THEN run' = run + 1 /\ main' = "start"
                         ELSE run' = run /\ main' = "done"
  /\ UNCHANGED <<serverVars, task, sent, ringVars, threadVars, stop, posted, timeVars, fault>>

-----------------------------------------------------------------------------
(* The task of server::run.  It does not await before its accept loop.     *)

ServerStarts ==
  /\ server = "spawned" /\ Yielded
  /\ server' = "accepting" /\ file' = TRUE
  /\ ring' = 0 /\ word' = "RUNNING" /\ token' = FALSE
  /\ thread' = "top" /\ drained' = FALSE /\ park' = 0
  /\ UNCHANGED <<mainVars, task, sent, calls, made, events, wire, payload, stop, posted,
                 sleep, late, fault>>

(* bind, or what comes after it, fails.                                    *)
ServerFails ==
  /\ server = "spawned" /\ Yielded
  /\ server' = "ended" /\ file' \in BOOLEAN /\ fault' = TRUE
  /\ UNCHANGED <<mainVars, task, sent, ringVars, threadVars, stop, posted, timeVars>>

AcceptFails ==
  /\ server = "accepting" /\ Yielded
  /\ server' = "ended" /\ fault' = TRUE
  /\ UNCHANGED <<mainVars, file, task, sent, ringVars, threadVars, stop, posted, timeVars>>

-----------------------------------------------------------------------------
(* The producers' tasks and the sessions.                                  *)

TaskStep(p, from, to) ==
  /\ task[p] = from /\ ~Over
  /\ task' = [task EXCEPT ![p] = to]
  /\ UNCHANGED <<mainVars, serverVars, threadVars, stop, posted, timeVars>>

Connect(p) ==
  /\ Yielded
  /\ TaskStep(p, "connect", IF server = "accepting" THEN "backlog" ELSE "failed")
  /\ UNCHANGED <<sent, ringVars, fault>>

(* accept, send_fd and attach                                              *)
Accept(p) ==
  /\ Yielded /\ server = "accepting"
  /\ TaskStep(p, "backlog", "push")
  /\ UNCHANGED <<sent, ringVars, fault>>

(* The listener is closed before the connection was accepted.              *)
Lost(p) ==
  /\ Yielded /\ server = "ended"
  /\ TaskStep(p, "backlog", "failed")
  /\ UNCHANGED <<sent, ringVars, fault>>

(* One of the ? of run between connect and the loop.                       *)
AttachFails(p) ==
  /\ Yielded
  /\ TaskStep(p, "backlog", "failed")
  /\ fault' = TRUE
  /\ UNCHANGED <<sent, ringVars>>

Push(p) ==
  /\ ring < Capacity
  /\ TaskStep(p, "push", "check")
  /\ ring' = ring + 1
  /\ UNCHANGED <<sent, word, calls, token, made, fault>>

Full(p) ==
  /\ ring = Capacity
  /\ TaskStep(p, "push", "full")
  /\ UNCHANGED <<sent, ringVars, fault>>

Retry(p) ==
  /\ Yielded
  /\ TaskStep(p, "full", "push")
  /\ UNCHANGED <<sent, ringVars, fault>>

(* The compare_exchange on consumer_state, and the call of its winner.     *)
CheckState(p) ==
  /\ TaskStep(p, "check", IF sent[p] + 1 < EventsOf(run) THEN "push" ELSE "shutdown")
  /\ sent' = [sent EXCEPT ![p] = @ + 1]
  /\ word' = "RUNNING"
  /\ LET won == IF word = "PARKED" THEN 1 ELSE 0
     IN  calls' = calls + won /\ made' = made + won
  /\ UNCHANGED <<ring, token, fault>>

Shutdown(p) ==
  /\ Yielded
  /\ TaskStep(p, "shutdown", "ok")
  /\ UNCHANGED <<sent, ringVars, fault>>

(* A session handles a "posted" call; it lives as long as its runtime.     *)
Serve ==
  /\ calls > 0 /\ Yielded
  /\ calls' = calls - 1 /\ posted' = posted + 1 /\ token' = TRUE
  /\ UNCHANGED <<mainVars, serverVars, task, sent, ring, word, made, threadVars, stop,
                 timeVars, fault>>

-----------------------------------------------------------------------------
(* The consumer thread.                                                    *)

ThreadStep(from, to) ==
  /\ thread = from /\ ~Over
  /\ thread' = to
  /\ UNCHANGED <<mainVars, serverVars, task, sent, calls, made, stop, posted, sleep, late,
                 fault>>

Pass ==
  /\ ThreadStep("top", IF stop THEN "exited" ELSE "drain")
  /\ drained' = FALSE
  /\ UNCHANGED <<ring, word, token, events, wire, payload, park>>

(* try_pop and events.fetch_add, in the loop and in the look after PARKED. *)
Pop ==
  /\ ring > 0
  /\ \/ ThreadStep("drain", "wire") /\ drained' = TRUE /\ word' = word
     \/ ThreadStep("recheck", "wire") /\ word' = "RUNNING" /\ drained' = drained
  /\ ring' = ring - 1 /\ events' = events + 1
  /\ UNCHANGED <<token, wire, payload, park>>

AddWire ==
  /\ ThreadStep("wire", "payload")
  /\ wire' = wire + 1
  /\ UNCHANGED <<ring, word, token, drained, events, payload, park>>

AddPayload ==
  /\ ThreadStep("payload", IF drained THEN "drain" ELSE "top")
  /\ payload' = payload + 1
  /\ UNCHANGED <<ring, word, token, drained, events, wire, park>>

DrainEnd ==
  /\ ring = 0
  /\ ThreadStep("drain", IF drained THEN "top" ELSE "recheck")
  /\ word' = IF drained THEN word ELSE "PARKED"
  /\ UNCHANGED <<ring, token, drained, events, wire, payload, park>>

Park ==
  /\ ring = 0
  /\ ThreadStep("recheck", "parked")
  /\ park' = ParkTicks
  /\ UNCHANGED <<ring, word, token, drained, events, wire, payload>>

Unpark ==
  /\ token \/ park = 0
  /\ ThreadStep("parked", "top")
  /\ word' = "RUNNING" /\ token' = FALSE
  /\ UNCHANGED <<ring, drained, events, wire, payload, park>>

-----------------------------------------------------------------------------
Asleep == thread = "parked" /\ park > 0 /\ ~token
KeptWaiting == calls > 0 \/ (thread # "exited" /\ ~Asleep)

(* Wrong: a sleep that is over is counted on.                              *)
LessAlways(t) == t - 1

Less(t) == IF t > 0 THEN t - 1 ELSE 0

(* Ten milliseconds pass.                                                  *)
Tick ==
  /\ ~Over /\ (park > 0 \/ sleep > 0)
  /\ main = "sleep" /\ KeptWaiting => late < Delay
  /\ late' = IF main = "sleep" /\ KeptWaiting THEN late + 1 ELSE late
  /\ park' = Less(park) /\ sleep' = Less(sleep)
  /\ UNCHANGED <<mainVars, serverVars, task, sent, ringVars, threadVars, stop, posted, fault>>

Finished == Over /\ UNCHANGED vars

Main == Start \/ SpawnProducers \/ NoSocket \/ Joined \/ JoinFails \/ Stop \/ Report
Server == ServerStarts \/ ServerFails \/ AcceptFails
Produce(p) ==
  \/ Connect(p) \/ Accept(p) \/ Lost(p) \/ AttachFails(p)
  \/ Push(p) \/ Full(p) \/ Retry(p) \/ CheckState(p) \/ Shutdown(p)
Consume == Pass \/ Pop \/ AddWire \/ AddPayload \/ DrainEnd \/ Park \/ Unpark

Next ==
  \/ Main \/ Server \/ Serve \/ Consume \/ Tick \/ Finished
  \/ \E p \in Producers : Produce(p)

Spec == Init /\ [][Next]_vars

(* Tasks and threads are scheduled and time passes.                        *)
Fairness ==
  /\ WF_vars(Main) /\ WF_vars(ServerStarts) /\ WF_vars(Serve) /\ WF_vars(Consume)
  /\ WF_vars(Tick) /\ \A p \in Producers : WF_vars(Produce(p))

FairSpec == Spec /\ Fairness

-----------------------------------------------------------------------------
(* Properties.                                                             *)

(* Type correctness of the driver, of one run and of the clock.            *)
TypeOK ==
  /\ run \in Runs
  /\ main \in {"start", "wait_sock", "join", "poll", "sleep", "done", "failed"}
  /\ file \in BOOLEAN /\ server \in {"none", "spawned", "accepting", "ended"}
  /\ task \in [Producers -> {"none", "connect", "backlog", "push", "check", "full",
                             "shutdown", "ok", "failed"}]
  /\ sent \in [Producers -> Nat]
  /\ ring \in 0 .. Capacity /\ word \in {"PARKED", "RUNNING"}
  /\ calls \in Nat /\ made \in Nat /\ posted \in Nat
  /\ thread \in {"none", "top", "drain", "wire", "payload", "recheck", "parked", "exited"}
  /\ token \in BOOLEAN /\ drained \in BOOLEAN /\ stop \in BOOLEAN /\ fault \in BOOLEAN
  /\ events \in Nat /\ wire \in Nat /\ payload \in Nat
  /\ park \in 0 .. ParkTicks /\ sleep \in 0 .. SleepTicks /\ late \in 0 .. Delay
  /\ reports \in Seq([run : Runs, events : Nat, wire : Nat, payload : Nat,
                      posted : Nat, made : Nat])

Rows == {reports[i] : i \in DOMAIN reports}

(* A row is about every event of a measured run and about no other, though *)
(* the main task only waits until there are enough of them; and its three  *)
(* counters are about the same messages, although the consumer adds to the *)
(* other two afterwards.                                                   *)
CountersAgree ==
  \A row \in Rows : /\ row.events = NumProducers * Count
                    /\ row.wire = row.events /\ row.payload = row.events

(* A row has every posted call that was made, although the producers do    *)
(* not wait for an answer and the accept loop is aborted before.           *)
PostedCounted == \A row \in Rows : row.posted = row.made

(* No consumer thread outlives its run and takes time from the next one.   *)
ConsumerGone ==
  main = "start" \/ server = "spawned" => thread \in {"none", "exited"}

(* The bench fails only if something fails outside of it: a producer never *)
(* runs into the socket file that an earlier run or program left behind.   *)
FailsOnlyByFault == main = "failed" => fault

(* main comes to its end, also when a producer or the server fails, and    *)
(* with one row for each pair unless it has failed.                        *)
BenchEnds == <>(main = "failed" \/ (main = "done" /\ Len(reports) = Pairs))

-----------------------------------------------------------------------------
(* The inductive invariant behind the safety properties.                   *)

(* How far the three counters of the consumer are apart.                   *)
CountInv ==
  /\ wire = IF thread = "wire" THEN events - 1 ELSE events
  /\ payload = IF thread \in {"wire", "payload"} THEN events - 1 ELSE events
  /\ thread \in {"wire", "payload"} => events > 0

(* How far a producer has come tells how much it has pushed in this run,   *)
(* and what was pushed in this run, and that only, is counted or in the    *)
(* ring; nothing is left in the ring for the next run.                     *)
Pushed(p) == sent[p] + IF task[p] = "check" THEN 1 ELSE 0

PushedInRun == {m \in Producers \X (0 .. EventsOf(run) - 1) : m[2] < Pushed(m[1])}

LoopInv ==
  \A p \in Producers :
    /\ task[p] \in {"none", "connect", "backlog", "failed"} => sent[p] = 0
    /\ task[p] \in {"push", "check", "full"} => sent[p] < EventsOf(run)
    /\ task[p] \in {"shutdown", "ok"} => sent[p] = EventsOf(run)

PushedInv ==
  /\ server = "spawned" => ~file /\ main \in {"wait_sock", "failed"}
  /\ main = "wait_sock" => \A p \in Producers : task[p] = "none"
  /\ main = "start" => ring = 0 /\ \A p \in Producers : task[p] \in {"none", "ok"}
  /\ main # "start" => LoopInv /\ events + ring = Cardinality(PushedInRun)

(* The calls made are handled or on their way.                             *)
CallsInv == posted + calls = made

(* From the stop on nothing new comes from the producers, and so much of   *)
(* the sleep is over: what the consumer or a session was kept waiting for, *)
(* and one park at most.                                                   *)
Slept == SleepTicks - sleep

SleepInv ==
  /\ main \in {"poll", "sleep"} => \A p \in Producers : task[p] = "ok"
  /\ main = "sleep" =>
       /\ stop /\ server = "ended" /\ events >= Target
       /\ calls > 0 => Slept <= late
       /\ thread \in {"drain", "wire", "payload", "recheck"} => Slept <= late
       /\ thread = "top" => Slept <= late + ParkTicks
       /\ thread = "parked" => Slept + park <= late + ParkTicks

(* A producer that connects finds the listener, unless something failed.   *)
LinkInv ==
  /\ main = "start" => server \in {"none", "ended"}
  /\ main = "wait_sock" => (IF file THEN server = "accepting" ELSE server = "spawned") \/ fault
  /\ \A p \in Producers :
       /\ task[p] \in {"connect", "backlog"} => server = "accepting" \/ fault
       /\ task[p] = "failed" => fault

BenchInv ==
  /\ TypeOK /\ CountInv /\ PushedInv /\ CallsInv /\ SleepInv /\ LinkInv
  /\ CountersAgree /\ PostedCounted /\ ConsumerGone /\ FailsOnlyByFault
=============================================================================
