-------------------------------- MODULE Codecs --------------------------------
(***************************************************************************)
(* The six codecs of an event (src/src/proto/codec/*.rs), between the      *)
(* producer's loop, which encodes, and the consumer, which decodes and     *)
(* counts the payload.  Both keep one codec and its buffers for all events.*)
(*                                                                         *)
(* The wire formats are the work of libraries.  What is modelled of a      *)
(* message is what the code puts into it and takes out of it: which fields *)
(* are there, a number, a bit pattern read as signed, the name or the      *)
(* number of a kind, and, where it decides whether the message can be read,*)
(* whether a text needs escapes.                                           *)
(*                                                                         *)
(* A definition marked "Wrong" is a mistake the code could have made.  No  *)
(* action uses it; put in the place of the definition that follows it, it  *)
(* must break a property.                                                  *)
(***************************************************************************)
EXTENDS Integers, Sequences

CONSTANTS
  Half,        \* half of the numbers of a u64: 2 ^ 63
  Words,       \* the values of seq and timestamp
  Names,       \* the values of source: producer names, sequences of characters
  Blobs        \* the values of payload: sequences of base64 characters

AllCodecs == {"capnp", "json", "cbor", "proto", "flat", "avro"}
Kinds == {"Info", "Warn", "Error", "Metric"}

Event == [seq : Words, timestamp : Words, source : Names, kind : Kinds, payload : Blobs]

ASSUME CodecsAssumption ==
  /\ Half \in Nat \ {0}
  /\ Words \subseteq 0 .. 2 * Half - 1

VARIABLES
  codec,       \* the codec both sides were started with
  event,       \* the event encoded last
  scratch,     \* the producer's buffer: the messages in it
  pb,          \* ProtoCodec.ev of the producer
  out,         \* the consumer's DecodedEvent
  fresh,       \* is scratch waiting for the consumer
  ok,          \* was the last message decoded
  counted      \* what it added to payload_bytes

vars == <<codec, event, scratch, pb, out, fresh, ok, counted>>

(* clear() and then push: what a buffer holds that is used again.  Wrong:  *)
(* without clear().                                                        *)
NotCleared(old, new) == old \o new
Refill(old, new) == new

(* kind_to_u8, kind_to_idx, and the numbers of the two schemas.            *)
KindNumber == [Info |-> 0, Warn |-> 1, Error |-> 2, Metric |-> 3]

(* kind_from_u8 and its like: what is not known is Info.                   *)
KindOfNumber(n) ==
  IF \E k \in Kinds : KindNumber[k] = n THEN CHOOSE k \in Kinds : KindNumber[k] = n ELSE "Info"

(* serde's rename_all on Kind.                                             *)
KindName == [Info |-> "info", Warn |-> "warn", Error |-> "error", Metric |-> "metric"]
KindOfName(name) == CHOOSE k \in Kinds : KindName[k] = name

(* u64 as i64, and back.  Wrong: not cast back.                            *)
AsLong(n) == IF n >= Half THEN n - 2 * Half ELSE n
NotCastBack(n) == n
AsWord(n) == IF n < 0 THEN n + 2 * Half ELSE n

(* The fields a format leaves out when they hold the default, and what the *)
(* reader takes instead.                                                   *)
Defaults == [seq |-> 0, timestamp |-> 0, source |-> <<>>, kind |-> 0, payload |-> <<>>]

WithoutDefaults(msg, fields) ==
  [f \in {f \in DOMAIN msg : f \in fields => msg[f] # Defaults[f]} |-> msg[f]]

WithDefaults(msg) ==
  [f \in DOMAIN Defaults |-> IF f \in DOMAIN msg THEN msg[f] ELSE Defaults[f]]

-----------------------------------------------------------------------------
(* encode: the message a codec makes of an event.                          *)

Numbered(e) == [e EXCEPT !.kind = KindNumber[@]]
Named(e) == [e EXCEPT !.kind = KindName[@]]

CapnpMessage(e) == Numbered(e)
JsonMessage(e) == Named(e)
CborMessage(e) == Named(e)
ProtoMessage(e) == WithoutDefaults(Numbered(e), DOMAIN e)
FlatMessage(e) == WithoutDefaults(Numbered(e), {"seq", "timestamp", "kind"})
AvroMessage(e) == [Numbered(e) EXCEPT !.seq = AsLong(@), !.timestamp = AsLong(@)]

Encoded(e) ==
  CASE codec = "capnp" -> CapnpMessage(e)
    [] codec = "json"  -> JsonMessage(e)
    [] codec = "cbor"  -> CborMessage(e)
    [] codec = "proto" -> ProtoMessage(e)
    [] codec = "flat"  -> FlatMessage(e)
    [] codec = "avro"  -> AvroMessage(e)

-----------------------------------------------------------------------------
(* decode_into: the message, put into a DecodedEvent that was used before. *)

Filled(old, msg, kind) ==
  [seq       |-> msg.seq,
   timestamp |-> msg.timestamp,
   source    |-> Refill(old.source, msg.source),
   kind      |-> kind,
   payload   |-> Refill(old.payload, msg.payload)]

WithNumber(old, msg) == Filled(old, msg, KindOfNumber(msg.kind))

CapnpEvent(old, msg) == WithNumber(old, msg)
JsonEvent(old, msg) == Filled(old, msg, KindOfName(msg.kind))
CborEvent(old, msg) == Filled(old, msg, KindOfName(msg.kind))
ProtoEvent(old, msg) == WithNumber(old, WithDefaults(msg))
FlatEvent(old, msg) == WithNumber(old, WithDefaults(msg))
AvroEvent(old, msg) == WithNumber(old, [msg EXCEPT !.seq = AsWord(@), !.timestamp = AsWord(@)])

Decoded(old, msg) ==
  CASE codec = "capnp" -> CapnpEvent(old, msg)
    [] codec = "json"  -> JsonEvent(old, msg)
    [] codec = "cbor"  -> CborEvent(old, msg)
    [] codec = "proto" -> ProtoEvent(old, msg)
    [] codec = "flat"  -> FlatEvent(old, msg)
    [] codec = "avro"  -> AvroEvent(old, msg)

(* decode_into fails on a text with escapes where the field is a borrowed  *)
(* &str.  Base64 has nothing to escape.                                    *)
Escaped(text) == \E i \in DOMAIN text : text[i] = "quote"
Decodable(msg) == codec = "json" => ~Escaped(msg.source)

-----------------------------------------------------------------------------
EmptyEvent == [seq |-> 0, timestamp |-> 0, source |-> <<>>, kind |-> "Info", payload |-> <<>>]

Init ==
  /\ codec \in AllCodecs
  /\ event = EmptyEvent
  /\ scratch = <<>>
  /\ pb = EmptyEvent
  /\ out = EmptyEvent
  /\ fresh = FALSE
  /\ ok = TRUE
  /\ counted = 0

(* The producer's loop: ProtoCodec fills an event of its own first.        *)
Encode(e) ==
  /\ ~fresh
  /\ event' = e
  /\ pb' = IF codec = "proto"
           THEN [e EXCEPT !.source = Refill(pb.source, @), !.payload = Refill(pb.payload, @)]
           ELSE pb
  /\ scratch' = Refill(scratch, <<Encoded(IF codec = "proto" THEN pb' ELSE e)>>)
  /\ fresh' = TRUE
  /\ UNCHANGED <<codec, out, ok, counted>>

(* The consumer's loop: a message that cannot be decoded counts for nothing*)
(* but an event.                                                           *)
Decode ==
  /\ fresh
  /\ ok' = Decodable(scratch[1])
  /\ out' = IF ok' THEN Decoded(out, scratch[1]) ELSE out
  /\ counted' = IF ok' THEN Len(out'.payload) ELSE 0
  /\ fresh' = FALSE
  /\ UNCHANGED <<codec, event, scratch, pb>>

Next == (\E e \in Event : Encode(e)) \/ Decode

Spec == Init /\ [][Next]_vars

-----------------------------------------------------------------------------
(* Properties.                                                             *)

(* The consumer's event is the one that was encoded, in all its fields and *)
(* through every codec: whatever the same buffers held before, whichever   *)
(* fields the format leaves out, and for every bit pattern of a number.    *)
(* The one exception is a text that JSON cannot lend; then nothing changes.*)
DecodesAsEncoded ==
  ~fresh =>
    \/ ok /\ out = event /\ counted = Len(event.payload)
    \/ ~ok /\ codec = "json" /\ Escaped(event.source) /\ counted = 0

(* json.rs, on EventIn: "without escapes serde-json does not allocate", so *)
(* with escapes it would; every event a producer encodes can be decoded.   *)
EveryEventDecodes == ~fresh => ok
=============================================================================
