------------------------------ MODULE MpscQueue ------------------------------
(***************************************************************************)
(* What the shared-memory ring promises to its callers: a bounded FIFO     *)
(* queue with many producers and one consumer, in which a place is first   *)
(* reserved and later made ready.                                          *)
(*                                                                         *)
(* A successful push first takes the next position (it is then ordered     *)
(* before every later push), and the message at that position becomes      *)
(* visible some time later.  The consumer takes messages strictly in the   *)
(* order of their positions, so a position that was reserved and is not    *)
(* ready yet holds back everything behind it.                              *)
(***************************************************************************)
EXTENDS Naturals, Sequences

CONSTANTS
  Message,     \* the messages that can be pushed
  Capacity     \* how many positions may be reserved and not yet delivered

VARIABLES
  log,         \* every message ever accepted, in the order of its position
  ready,       \* the positions (from 0) whose message is visible
  delivered    \* what the consumer was given, in order

vars == <<log, ready, delivered>>

Init ==
  /\ log = <<>>
  /\ ready = {}
  /\ delivered = <<>>

Reserve(m) ==
  /\ Len(log) - Len(delivered) < Capacity
  /\ log' = Append(log, m)
  /\ UNCHANGED <<ready, delivered>>

MakeReady(q) ==
  /\ q \in (0 .. Len(log) - 1) \ ready
  /\ ready' = ready \cup {q}
  /\ UNCHANGED <<log, delivered>>

Deliver ==
  /\ Len(delivered) \in ready
  /\ delivered' = Append(delivered, log[Len(delivered) + 1])
  /\ UNCHANGED <<log, ready>>

Next ==
  \/ \E m \in Message : Reserve(m)
  \/ \E q \in 0 .. Len(log) - 1 : MakeReady(q)
  \/ Deliver

Spec == Init /\ [][Next]_vars
=============================================================================
