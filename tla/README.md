# Verification of shm-mpsc-bench

TLA+ specifications of the shared-memory MPSC ring and of the system around it,
their model-checking configurations, and proofs. Paths and line numbers are
those of the repository (`src/ring.rs` is the crate's `src/ring.rs`).

## 1. The system

A server process owns a memfd segment that holds a Vyukov-style ring and runs
the only consumer, a thread. Producers receive the descriptor over a Unix
socket, map the segment, learn its geometry with `attach` on the same socket,
and then push events into shared memory. A producer that finds the consumer
parked sends one `posted` call over the socket, and the server unparks the
thread.

| part | state | operations | talks to |
|---|---|---|---|
| ring (`ring.rs`) | `tail`, `head`, and `seq`, `len`, data of each slot | `init`, `push`, `try_pop` | shared by all producers and the consumer |
| geometry (`ring.rs`) | `num_slots`, `slot_size` | `check`, `total`, `payload_capacity`, `mask`, `slot_ptr` | server, and the producers after `attach` |
| producer (`producer.rs`) | loop counter, scratch buffer, control client | connect, receive fd, attach, push loop, wake-up, shutdown | ring, `consumer_state`, control plane |
| consumer thread (`server.rs`) | `consumer_state`, counters, park token | drain, second look, park, stop | ring, statistics |
| accept loop (`server.rs`) | listener, segment | bind, init, spawn, accept, send fd, serve | shm, control plane |
| control planes (`proto/control`) | channel or spawned tasks, socket | `attach`, `signal_posted`, `shutdown`, `serve` | consumer thread (`unpark`) |
| shm (`shm.rs`) | descriptors, mappings | `create_memfd`, `map`, `send_fd`, `recv_fd` | kernel |
| codecs (`proto/codec`) | scratch buffers | `encode`, `decode_into` | external formats |
| statistics (`stats.rs`) | four counters | add, print | bench |
| bench driver (`bin/bench.rs`) | handles, socket file, rows | start, join, wait for the target, stop, pause, report | everything, in one runtime |
| programs, scripts, build | none | command line, charts, code generation | |

What is hard, and what makes each part correct:

* **Ring.** Any number of threads and processes interleave at every atomic
  operation; a producer can sleep through laps; slots are plain memory. Correct
  means: no data race on a slot; every message delivered whole, once and in its
  producer's order; `Full` only when it is true; nobody kept waiting for ever.
* **Geometry.** Boundary arithmetic and integer widths. Correct means: a push
  stays in its slot, and all parties mean the same slot.
* **Wake-up.** A store followed by a load of another word, a wake-up that
  passes through a channel, a task, a socket and another task, and a timeout.
  Correct means: no sleep without somebody who ends it, and no message left.
* **Processes.** A producer may be killed after it reserved a slot, or after it
  took on the duty to call. Correct means: what was published before is still
  delivered.
* **Start and sessions.** The socket exists before the segment is ready; the
  descriptor and the lines of the control plane share a stream; clients come, go
  and are killed. Correct means: nobody uses a segment that is not initialised,
  no reader gets what was meant for another step, a client's end is that
  client's only, and nobody waits for ever before `attach` is answered.
* **Codecs.** Buffers are used again for every event, formats leave fields out and
  change the type of numbers. Correct means: an event arrives as it was sent.
* **Bench.** Everything but the consumer shares one single-threaded runtime in
  which the push loop gives way only when the ring is full; the report is read
  from counters that two other parties write, after a pause instead of a join;
  and runs follow one another over one socket path. Correct means: the run ends,
  with every event counted; the numbers of a row belong together; nothing of one
  run is left in the next.

The full list of hazards, with the line where each bites and the properties
aimed at it, is in `PROJECT.json`.

## 2. The modules

| module | models | |
|---|---|---|
| `MpscQueue` | what the ring promises: a bounded FIFO with reserve, make ready, deliver | abstract |
| `MpscRing` | `init`, `push`, `try_pop`, one action per atomic operation or plain access | refines `MpscQueue` |
| `ShmMpsc` | producer loop, consumer loop, `posted` path, stop; the ring is `MpscQueue` | composition |
| `ShmRing` | the same system on `MpscRing`: `run` and `consumer_loop` call `push` and `try_pop` step by step | refines `ShmMpsc` |
| `RingGeometry` | `RingConfig`, `slot_ptr`, bounds of `push`, the answer to `attach`, with integer widths | |
| `Session` | start of the server, accept, fd passing, `attach`, sessions of both control planes | |
| `BenchRun` | `main`, `run_one`, `run_inner`, with the time of the park and of the pause | composition |
| `Codecs` | `encode` and `decode_into` of the six codecs, and the buffers they use again | |
| `MCMpscRing`, `MCShmMpsc`, `MCShmRing`, `MCRingGeometry`, `MCSession`, `MCCodecs`, `MCBenchRun` | the instances for TLC | |
| `MpscRingProofs`, `MpscRingRefinement`, `ShmRingProofs`, `RingGeometryProofs`, `ShmMpscProofs`, `SessionProofs`, `CodecsProofs`, `BenchRunProofs` | theorems | proofs |

`MpscRing` implements `MpscQueue` (checked and proved), and `ShmMpsc` is built on the
queue. That what is shown of it holds of the code's ring as well is a statement
of its own, because the callers' steps fall in between those of `push` and `try_pop`:
`ShmRing` puts the two together, and `ShmRing` implements `ShmMpsc` (checked and
proved).
`Session` ends where `ShmMpsc` begins: its `UseAfterInit` and the answer to `attach`
are what the initial state of `ShmMpsc` takes for granted. `BenchRun` has all of
them once more, coarsely, because its subject is time and the order of things
between the parties.

### MpscRing and the code

Each producer has a program counter inside `push` and the local `pos`; the
consumer has one inside `try_pop`.

| code | action |
|---|---|
| `data.len() > payload_capacity() - 4` | `TooBig` |
| `tail.load` | `LoadTail` |
| load of `seq` and the three branches on `diff` | `PushSlotFree`, `PushFull`, `PushStale` |
| `compare_exchange_weak` | `CasOk`, `CasFail` (also without a reason: it is the weak form) |
| `len`, data, Release store of `seq` | `WriteLen`, `WriteData`, `Publish` |
| `seq != head + 1` | `PopNone`, `PopStart` |
| `len`, data, Release store of `seq`, store of `head` | `ReadLen`, `ReadData`, `Free`, `Advance` |
| the process is killed | `Crash`, at any point; the segment stays as it is |

The length and the bytes of a message are each represented by the message
itself, so a slot whose `len` belongs to one message and whose bytes belong to
another is a state of the model, and a reader that gets such a pair gets no
message. `log` and `delivered` are history: the order in which positions were
won, and what `try_pop` gave out. `seq` is a natural number: 2^64 positions are
out of reach.

Interleaving is an adequate memory model for the ring: every plain access is
ordered by an Acquire load of a `seq` that a Release store wrote, and the Relaxed
operations on `tail` only pick the position to try. A stale read of `tail` is
covered by a producer that sleeps after `LoadTail`.

### ShmMpsc and the code

The consumer thread is `consumer_loop`, one action per step. `buf` is the store
buffer between its stores to `consumer_state` and memory: the code stores PARKED
and then loads the `seq` of the next slot, and x86 lets the load go first. Atomic
read-modify-write operations (`fetch_add`, the swap inside `park_timeout`) wait
for the buffer to be empty. A pop takes effect when its store to `seq` becomes
visible.

A producer is `run` from the answer to `attach` on. A `posted` call is counted
where it is: `chan` (the channel of `JsonClient`, or the spawned tasks of
`CapnpClient`), `sock`, and finally `token`, the park token of the thread.
`control` is the control plane; the programs let it be chosen, `bin/bench` always uses
JSON-RPC. `Yielded` is tokio's `current_thread` scheduler: a task runs only while no task
of its runtime is inside the push loop, which awaits only after `Full`. In
`bin/bench` one runtime holds the producers and the server (`InBench`);
otherwise each process has its own.

`JsonShutdown` waits for the writer task to send what is in the channel;
`CapnpShutdown` drops what was not sent, and `PostedAnswerFails` what the server has
not read when its answer to an earlier call fails. A producer that meets an event too big
bails out, and its process exits with the calls it has not sent. `Crash` kills
a process at any point.

`ServerDies` kills the server's process: the consumer thread, its token and what
the sessions had not read are gone, the segment stays mapped in the producers.
From then on a write to the socket fails: `WriterFails` is the `break` of the
JSON-RPC writer task, which leaves a closed channel into which `signal_posted` goes
on sending in vain, and equally the spawned capnp-rpc calls that fail.

### ShmRing and the code

Nothing of the two components is written again. A step is a step of `MpscRing`, a step of
`ShmMpsc`, or a step that both take part in:

| code | action |
|---|---|
| inside `push` and `try_pop` | `PushGoesOn`, `PopGoesOn`, `PopReturns`: the caller waits |
| the `compare_exchange` that decides that `push` will succeed | `PushReserves` |
| `push` returns `Ok`, `Full`, `TooBig` | `PushOk`, `PushErrFull`, `PushErrTooBig` |
| the store to `seq` that decides that `try_pop` gives a message | `PopFrees` |
| `try_pop` returns `None` in the drain loop, or in the look after PARKED | `PopReturnsNone` |
| the rest of `run`, of `consumer_loop`, and the tasks | `RunElsewhere`, `LoopElsewhere`, `WriterStep`, `ServeStep` |
| killed, also inside `push` or `try_pop` | `CrashStep`, `System!ServerDies` |

`at` and `loop` are the places in `run` and `consumer_loop`, `pc` and `cpc` those inside the
ring's functions. The guard of a step on the ring's state is always the one on
`seq` and `tail`: that it agrees with what `ShmMpsc` says about the queue is what
`ImplementsSystem` is about. The stores of the consumer to the ring wait in the store
buffer behind those to `consumer_state`, hence the empty `buf` in `PopFrees`.

### RingGeometry and the code

The server's numbers are `usize` and the answer to `attach` is `u32`; release
builds wrap. `SlotIndex` is `idx & mask()`: for a power of two the remainder, which
an assumption of `MCRingGeometry` checks bit by bit. `FileSize` is what
`create_memfd` made and a producer learns by `fstat`, before it knows the geometry.

### Session and the code

| code | action |
|---|---|
| `server::run` up to `bind`; `ring::init`, slot by slot; `thread::spawn` | `Bind`, `InitSlot`, `Spawn` |
| `accept`; `send_fd` and its `?` | `Accept`, `SendFd`, `SendFdFails` |
| `serve`: the line or call `attach`, an answer that cannot be written | `ServeAttach`, `AnswerFails` |
| `serve`: `posted`; in capnp-rpc its answer that fails; end of the stream | `ServePosted`, `PostedAnswerFails`, `ServeEof` |
| `producer::run`: `connect`, `recv_fd` with `fstat` and `mmap`, `attach` | `Connect`, `ConnectFails`, `RecvFd`, `SendAttach`, `RecvAnswer`, `Lost` |
| `signal_posted` as far as the socket; the client's RPC system takes the answer; the end of `run` | `Post`, `RecvResult`, `Leave` |
| the process is killed | `Crash` |

A socket is a queue for each direction. The kernel delivers what is in it also
after the writer is gone, and then the end of the stream; writing to a peer that
is gone fails. `backlog` is the listener's queue. When `run` ends by an error, the
process ends: `EndServer` stops the consumer and all sessions. The two control
planes differ in what handling a `posted` call puts into the stream of its client
(`PostedAnswer`): capnp-rpc answers it (`"result"`), so an attached client has answers to
read, and a client that is gone with such an answer unread can cost the session the
calls behind it; JSON-RPC answers nothing. What the capnp-rpc library sends for itself
(bootstrap, finish, release) is left out: no code of the repository reads or writes it.
All processes use the same control plane.

### BenchRun and the code

| code | action |
|---|---|
| the loop of `main`, `run_one` with `remove_file`, the head of `run_inner` | `Start`, `Report` |
| `wait_for_sock`, found or given up; `spawn_producer` | `SpawnProducers`, `NoSocket` |
| `t.await??`, all well or the first error | `Joined`, `JoinFails` |
| the counter at the target, `stop`, `abort`, the sleep of 80 ms | `Stop` |
| `server::run` up to its accept loop, and its errors | `ServerStarts`, `ServerFails`, `AcceptFails` |
| `producer::run` | `Connect` to `Shutdown`, with `Lost` and `AttachFails` for its errors |
| `serve`: `posted`, with its counter | `Serve` |
| `consumer_loop` with `events`, `wire_bytes`, `payload_bytes` | `Pass` to `Unpark` |
| 10 ms pass | `Tick` |

The socket file may be there at the beginning: an earlier program can have left it.
A counter of bytes is the number of messages it has been added to, which is what
can be wrong about it. `reports` are the rows of measured runs; `made` counts the calls
of the producers, which the code does not do, for comparison with `posted`.

Time is what separates the report from the consumer: nothing else does, since
`main` never joins the thread. `Tick` lets `park` and `sleep` run down together. What the
code takes for granted has a name: between the stop and the report a thread or a
session that has something to do is kept waiting for `Delay` ticks at most, all in
all, and `ParkTicks + Delay < SleepTicks`. With 50 and 80 ms this says: less than 30
ms. On a machine that keeps the consumer waiting longer, a row may be torn, and
the thread of a warm-up may still run when the measured run starts.

### Codecs and the code

A message is the record of the fields a codec puts into it: with the number or
the name of the kind, with or without the fields that hold a default, with
numbers read as signed. `JsonMessage` to `AvroMessage` are the six `encode`,
`JsonEvent` to `AvroEvent` the six `decode_into`. `scratch`, `pb` and `out` are the buffers
that live from one event to the next; each is filled by `Refill`, which is
`clear()` and then push. A text is a sequence of characters, of which `"quote"` is one
that JSON escapes. `bin/producer` only sends `Metric`; the codecs are given all kinds.

## 3. The runs

| run | instance | shows |
|---|---|---|
| `ring_two` | 2 producers, 3 events each, 2 slots, fair; either may crash anywhere, the last event of p1 is too big | no data race, exactly-once in-order delivery, honest `Full`, monotone `seq`, the inductive invariant; the ring implements the queue; everything pushed is delivered unless a dead producer holds the next position |
| `ring_one_slot` | 1 slot | **violation** of `SlotExclusive`, see section 5 |
| `shm_bench` | 2 producers, 2 events, capacity 2, one runtime, JSON-RPC | no lost wake-up; the word tells the truth; the run ends with all delivered |
| `shm_procs` | the same as processes over either control plane; p1 and the server may be killed anywhere, p2 meets an event too big | no lost wake-up; delivery despite lost calls, unless a dead producer holds the next slot; every producer comes to its end unless its ring is full and nobody empties it |
| `shm_ring` | as `shm_procs`, on the ring of 2 slots | what `run` believes of its `push` is true; the system on the ring implements the system on the queue |
| `shm_wake` | as `shm_bench` | **violation** of `NeverWakesRunning` |
| `geometry_fits` | u32 of 7 bits, usize of 14; slot counts 0..64, slot sizes 16..127 | a push stays in its slot and in the segment, up to the largest numbers `attach` can carry |
| `bench_run` | a warm-up and a measured run, 2 producers, 1 and 2 events each, capacity 2; park 5, pause 8, delay 2 ticks | a row counts every event exactly once, in all three counters; posted calls all counted; no consumer outlives its run; a leftover socket file is harmless; `main` ends |
| `session` | 3 producers, 2 of which may be killed anywhere, 2 slots, 2 calls each, both control planes | use after `init` only; the stream in step; calls of a killed client served; one way only for a client to end the server; no endless handshake or session; and the inductive invariant |
| `codecs` | all codecs; numbers 0, largest signed, smallest negative (of 3 bits); empty, plain and escaped names; empty and non-empty payloads | events survive, through buffers used again |
| `codec_escape` | the same | **violation** of `EveryEventDecodes` |
| `geometry_wide` | slot sizes beyond u32 | **violation** of `GeometryShared` |

Bounds. Five positions through two slots are more than two laps, so a producer that
sleeps before its load of `seq` or its compare-and-exchange can be overtaken by
more than a full lap; a third producer or slot adds nothing the proofs do not
cover, since they hold for every number of both. In `ShmMpsc` a capacity of two
and four events make the ring full while the consumer is parked, let both
producers try for one wake-up, and leave late calls for the next park. The
counters `sent`, `chan`, `sock` are bounded by `Count` alone: a producer makes at
most one call per event. With two events each the ring is full, or is not, when the
server dies. `ShmRing` adds the steps inside of the calls: four positions are two laps, so both
callers meet a slot in every state it can be in. The narrow integers of `RingGeometry`
keep the relation that matters (slot sizes and counts on both sides of the narrower type,
and one type twice as wide as the other).

In `Session` three clients let one wait in the backlog, one be between `accept` and
its descriptor, and one be served; two slots make an `init` that is half done;
two calls let a client be killed with one call handled and one in the socket
(`Posts` bounds the calls). In `BenchRun` two runs are what it takes for something of one
to be left in the other, the warm-up being shorter, as in the code; four events
through a ring of two park the consumer, fill the ring and leave calls in the
sockets at the stop; a tick of 10 ms divides all the code's times that matter. In `Codecs` any event can follow any other, so every
pair of a shorter and a longer text, and of a present and a left out field,
meets in the buffers; no counter grows.

Deadlock is checked in every run. `PopNone` stands for a caller that polls, so
the ring never blocks; in `ShmMpsc` the consumer polls by its timeout, and
`Finished` is the one state with nothing left to do. In `Session`, `Quiet` is the server
that waits in `accept` with no client left; in `BenchRun` the process has ended.

The abstract operators marked "Wrong" in the modules are mistakes the code could
have made (a plain store instead of the compare-and-exchange, a slot freed for
the wrong lap, `park` for `park_timeout`, ...). Each property is known to fail
when one of them replaces the operator that follows it.

Fairness. Weak fairness of each producer, of the consumer, of each task and of
the store buffer: threads are scheduled by the kernel, tokio polls every ready
task, and a processor drains its stores. Weak fairness of the consumer includes
the end of `park_timeout`, which is the code's own 50 ms. In `MpscRing`
additionally strong fairness of a compare-and-exchange that would succeed: the
weak form may fail without reason, but not for ever; this half of the matter is thus
assumed, and what is shown is that the other producers keep nobody out. No fairness is assumed of
crashes, and none of a reservation that is not followed by its publication when
the producer is dead.

In `Session` the server's task, each session and each client in its handshake are
weakly fair; an attached producer need neither call nor leave, and nobody need
be killed. In `BenchRun` the main task, the server's task, each producer's, the sessions
and the consumer are weakly fair, and time passes; nothing need fail. In
`ShmMpsc` a write to the socket of a dead server fails sooner or later (weak fairness
of `WriterFails`), and no fairness makes the server die. `Codecs`, `RingGeometry` and
`ShmRing` have safety properties only.

## 4. What is proved

The proofs of the ring are for arbitrary `Producers`, `Count`, `Oversize` and
`Crashable`, those of `ShmMpsc` and `ShmRing` for these and any `Capacity` or `NumSlots`,
with a mortal server or not, inside `bin/bench` or not, and either control plane, those
of `Session` for arbitrary `Clients`, `Crashable`, `NumSlots` and `Posts`, those of `Codecs` for
arbitrary numbers, names and payloads, and those of `BenchRun` for any number of
producers, runs and events and any times with `ParkTicks + Delay < SleepTicks`.

* `TypeCorrect`: `Spec => []TypeOK`, for every number of slots.
* `RingInvariant`: `Spec => []RingInv` for `NumSlots >= 2`. From it `NoDataRace`
  (`SlotExclusive`), `DeliveryCorrect` (`ExactlyOnceInOrder`), `FullCorrect`
  (`FullIsHonest`) and `SeqMonotone` (`SeqNeverGoesBack`).
* `RingImplementsQueue`: `Spec => ImplementsQueue` for `NumSlots >= 2`.
* `SystemDrivesRing`: `SystemSpec => Spec` of `MpscRing`, so that all of the above holds
  under the callers the code has. For `NumSlots >= 2`: `CallerNotFooled` (`CallerInv`),
  `SystemOnRing` (`SystemSpec => ImplementsSystem`), so that all that holds of `ShmMpsc`
  holds on the ring, and `BenchGetsEverything`: when `bin/bench` stops the consumer, every
  event was delivered (`System!StopIsClean`), whole, once and in order
  (`ExactlyOnceInOrder`).
* `SlotsDisjoint`, `PushesStayInSlot`: for every configuration that `check()`
  accepts, slots are disjoint and inside of the segment; if its numbers fit into `u32`,
  which no check in the code tests and `geometry_wide` shows to be needed, `StaysInSlot` is
  an invariant. That nothing wraps on the way is `TotalDoesNotWrap`, from `usize` being twice
  as wide as `u32`.
* `ShmInvariant`: `Spec => []ShmInv`, and from it `ShmTyped` (`TypeOK`), `WorkIsAdvertised`
  (`RunningIsAdvertised`), `NoWakeUpLost` (`WakeOwed`) and `StopLeavesNothing` (`StopIsClean`).
* `SessionInvariant`: `Spec => []SessionInv`, and from it `SessionTyped` (`TypeOK`), `InitBeforeUse` (`UseAfterInit`),
  `StreamInStep` (`ReadsWhatItAwaits`), `SentCallsServed` (`CallsOutliveCaller`) and
  `ServerSurvivesSessions` (`OnlyUnservedEndServer`).
* `BenchInvariant`: `Spec => []BenchInv`, and from it `BenchTyped` (`TypeOK`), `RowsAreComplete`
  (`CountersAgree`), `CallsAreCounted` (`PostedCounted`), `OneConsumer` (`ConsumerGone`) and
  `BenchRobust` (`FailsOnlyByFault`).
* `EventsSurvive`: `Spec => []DecodesAsEncoded`, by the inductive `CodecInv`.

The argument for the ring. `SlotExclusive` alone is not inductive: it says nothing of the
positions producers hold before they write. `RingInv` adds that

1. the positions in use are a window `Freed .. tail - 1` of at most `NumSlots`
   (`WindowInv`), so two of them never share a slot (`WindowApart`);
2. the `seq` of a slot says whether its position in the window is reserved (`q`),
   published (`q + 1`), or free for the next lap, and is never behind a position
   the slot has served (`SeqInv`);
3. a producer that writes owns an unpublished position of the window, and one
   before its compare-and-exchange has read a `seq` that the slot has reached:
   so if `tail` still is its position, the slot really is free (`ProducerInv`, and
   `CasOkFindsRoom` in the proof);
4. fields of published slots match the log, the consumer reads a published slot,
   and what it delivered is a prefix of the log (`DataInv`, `ConsumerInv`,
   `PrefixInv`); the log has each event once and in order (`LogInv`, `EventInv`).

Two slots are needed at one place: with a single slot the `seq` of a published
position equals the "free" value of the next, (2) cannot tell them apart, and
the property fails, as `ring_one_slot` shows.

The argument for the composition. `SystemStepRefines` takes the actions of `ShmRing` one by
one. Inside a call nothing that `ShmMpsc` sees may change, the set of ready positions
included (`InsideCall`, by `RingInv`). Where a call returns, the outcome has to be what the queue of `ShmMpsc`
allows at that very moment: `PushReturns` (a `compare_exchange` that succeeds finds room,
`Full` is the truth, `TooBig` is about the event that `run` holds), `LookIsHonest` (`try_pop`
returns `None` only when the next position is not ready) and `PopReturnsWhat` (the message
is the one at that position). All of this needs to know which event and position the
`push` in progress is about, in terms of `run`: that is `CallerInv`, the one thing that is
not known from the two components, and it is inductive together with `RingInv`.
`BenchGetsEverything` does not go through `ShmMpsc`: it counts on the ring (`CountKept`,
`NothingLeftOut`: a log that holds no event twice and has as many entries as there are
events has all of them).

The argument for the sessions. What a client may find in its stream depends on
where its session is, and a client may be killed in any state, so `SessionInv`
describes each stream as a whole: `StreamInv` says, for each state of the client, what
can be under way in both directions (to an attached client only results of its calls, and
not more than were handled), and that the calls handled and the calls in
the socket add up to the calls made. `QueueInv` says that a client in the backlog or
between `accept` and its descriptor is there once and has no session, which is
what makes `SendFd` the first thing ever written to a stream; `InitInv` ties the first
session to the end of `init`. A step disturbs one stream; `StreamAtRest` disposes of the
others.

The argument for the codecs. `RoundTrip` shows for each codec that what it makes of an
event gives the event back, whatever the `DecodedEvent` held before: a kind through
its number or name (`KindAndBack`), a number through `i64` (`LongAndBack`), a field through
its default (`DefaultsAndBack`). `BufferInv` adds that the buffer holds one message, that
of the last event.

The argument for the wake-up. The state word is what the consumer stored last, in
the buffer or in memory, unless a producer took it away: `WordInv` says which word
that is at each place of the loop, and with it a flush can only make visible
what the consumer means. So `WakeOwed` is lost in one way only, by a producer that
wins the compare-and-exchange, and that one is at its `signal`; `OwedKept` follows
the call from there through channel and socket to the token. For the stop,
`LogInv` says that an event is in the queue at most once, `DeliveredInv` that what is
delivered is the beginning of the queue, `EventsInv` that nothing is counted before it
is delivered. Then `events >= Target` leaves no room: a queue without repetitions
has no more than `Target` messages, and one of that length has them all
(`AllMessages`).

The argument for the bench. The parties do not wait for one another after the
stop, so the invariant keeps an account of time: `SleepInv` bounds the part of the
pause that is over (`Slept`) by the time for which somebody was kept waiting, plus
the park that was under way if the consumer has not seen `stop`. A consumer that
works, or a call that is on its way, has used up `Delay` at most, and one that is
parked or about to look at `stop` one park more; both are less than the pause. So at
the report the thread has ended and every call is handled (`AllSettled`), and what
`CountInv` and `CallsInv` say of every state gives the row. That a row has neither
more nor fewer events than the run is `PushedInv`: `events` and what is in the ring add up to
the number of events pushed in this run (the cardinality of the set of them, since
a sum over the producers would be a recursive function), so after the join a counter
that has reached the target is at it, the ring is empty (`RunComplete`), and
nothing is left for the next run. `LinkInv` follows the socket:
a file that `wait_for_sock` finds is the listener's own, because `run_one` removed any
other before.

Only model-checked: all liveness (`EverythingDelivered`, `EventuallyDelivered`,
`ProducersFinish`, `ConsumerStops`, `HandshakeEnds`, `SessionsEnd`, `BenchEnds`): TLAPS cannot
prove liveness under fairness. It is checked on the ring and on `ShmMpsc`, not on their
composition, of which only the safety is shown. `ShmRing` inside `bin/bench` has theorems and no
run: its instance in `shm_ring` is that of separate processes, which has the crashes.
`WakeOwed` and `RunningIsAdvertised` on the ring follow from `SystemOnRing` and the theorems
of `ShmMpscProofs`; the last step, putting the variables of `ShmRing` into these theorems, is
not written as a proof, because the prover does not use theorems of an instantiated module.

## 5. Where the code and its documentation disagree

* `RingConfig::check` accepts `num_slots = 1` (`ring.rs:46`, `--slots 1`); `push` is then
  not safe for more than one caller, nor against the consumer, although
  `ring.rs:86` says it is (`ring_one_slot`).
* "We never wake an already-running consumer" (`README.md:227`) is not so: the
  call of a producer that won can be served long after the consumer went on by
  itself (`shm_wake`). It costs one early return from a later park.
* The geometry is not always "known to the server and to the producer"
  (`ring.rs:26`): `attach` truncates to `u32` (`geometry_wide`).
* `json.rs:19` speaks of payloads without escapes as the case that does not allocate;
  with an escape in `source` or `payload` the event does not decode at all, and the
  consumer counts it without its payload (`codec_escape`). `--name` can contain one.

`ring.rs:69` says of `init` that it is called before anybody connects. Taken literally
the code does not do so: the socket is bound first (`server.rs:35`), and clients do
connect earlier. It is harmless, since nobody gets the descriptor before `init` is
through, and that is what `UseAfterInit` states and `InitBeforeUse` proves.

Two things of which no statement of the repository speaks, but a reader should
know. `check()` accepts a `slot_size` that is not a multiple of 8, with which the atomics of
most slots are misaligned; the models take every access to a `seq` as one step, which
it is for the presets. And a producer whose ring is full when the server dies
sleeps and retries for ever (`Blocked` in `ProducersFinish`).

## 6. What is not modelled, and the plan

Left out of `Session`: lines that do not parse, unknown methods and a producer
started with another control plane or codec than the server (no program of the
repository does that by itself); failures of `memfd_create`, `mmap` and `accept`, which
end the process that meets them and are steps of `BenchRun`.

Left out of `BenchRun`: the 2 ms between two looks at the counter and the 5 ms between
two looks for the file (the steps may come at any moment after), and mappings and
descriptors: no run unmaps its segment, so a long benchmark keeps one mapping for the
server and one for each producer of every run. That the server's task
does not run for the five seconds of `wait_for_sock` counts as a fault from outside; a file
that is missing for any other reason does not, and would break `FailsOnlyByFault`.

Not planned: statistics output, command lines, charts, generated code (no state
that anything depends on), and the wire formats themselves (external libraries).

What a continuation would add, in this order:

1. The presets and scenarios: that every codec's message of a scenario's payload fits
   into the preset's slot, which needs the sizes of the wire formats.
2. A refinement from `Session` to the point where `ShmMpsc` starts, and a run of `ShmRing`
   inside `bin/bench`.
