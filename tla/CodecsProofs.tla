----------------------------- MODULE CodecsProofs -----------------------------
(***************************************************************************)
(* The codecs for every size of a number, every set of names and payloads, *)
(* and any sequence of events through the same buffers.                    *)
(***************************************************************************)
EXTENDS Codecs, TLAPS

-----------------------------------------------------------------------------
(* A u64 survives the way through an i64.                                  *)
LEMMA LongAndBack ==
  ASSUME NEW n \in Words
  PROVE  AsWord(AsLong(n)) = n
  BY CodecsAssumption DEF AsWord, AsLong

(* A kind survives the way through its number, and through its name.       *)
LEMMA KindAndBack ==
  ASSUME NEW k \in Kinds
  PROVE  KindOfNumber(KindNumber[k]) = k /\ KindOfName(KindName[k]) = k
<1>1. \A j \in Kinds : KindNumber[j] = KindNumber[k] => j = k
  BY DEF Kinds, KindNumber
<1>2. \A j \in Kinds : KindName[j] = KindName[k] => j = k
  BY DEF Kinds, KindName
<1>3. KindOfNumber(KindNumber[k]) = k
  BY <1>1 DEF KindOfNumber
<1>4. KindOfName(KindName[k]) = k
  BY <1>2 DEF KindOfName
<1> QED
  BY <1>3, <1>4

(* An event is its five fields.                                            *)
LEMMA EventFields ==
  ASSUME NEW e \in Event
  PROVE  /\ e = [seq |-> e.seq, timestamp |-> e.timestamp, source |-> e.source,
                 kind |-> e.kind, payload |-> e.payload]
         /\ e.seq \in Words /\ e.timestamp \in Words /\ e.kind \in Kinds
  BY DEF Event

(* The message with the number of the kind, and with its name.             *)
LEMMA MessageFields ==
  ASSUME NEW e \in Event
  PROVE  /\ Numbered(e) = [seq |-> e.seq, timestamp |-> e.timestamp, source |-> e.source,
                           kind |-> KindNumber[e.kind], payload |-> e.payload]
         /\ Named(e) = [seq |-> e.seq, timestamp |-> e.timestamp, source |-> e.source,
                        kind |-> KindName[e.kind], payload |-> e.payload]
  BY DEF Event, Numbered, Named

(* The numbers of a message are replaced, and the rest of it stays.         *)
LEMMA NumbersReplaced ==
  ASSUME NEW m, DOMAIN m = {"seq", "timestamp", "source", "kind", "payload"},
         NEW n, NEW t, NEW w, w = [m EXCEPT !.seq = n, !.timestamp = t]
  PROVE  /\ DOMAIN w = {"seq", "timestamp", "source", "kind", "payload"}
         /\ w.seq = n /\ w.timestamp = t
         /\ w.source = m.source /\ w.kind = m.kind /\ w.payload = m.payload
  OBVIOUS

(* A field that was left out comes back as its default.                    *)
LEMMA DefaultsAndBack ==
  ASSUME NEW e \in Event, NEW fields
  PROVE  WithDefaults(WithoutDefaults(Numbered(e), fields)) = Numbered(e)
<1> DEFINE m == Numbered(e)
           w == WithoutDefaults(m, fields)
<1>1. /\ m = [f \in DOMAIN Defaults |-> m[f]]
      /\ DOMAIN m = DOMAIN Defaults
  BY MessageFields DEF Defaults
<1> HIDE DEF m
<1>2. /\ DOMAIN w = {f \in DOMAIN m : f \in fields => m[f] # Defaults[f]}
      /\ \A f \in DOMAIN w : w[f] = m[f]
  BY DEF WithoutDefaults
<1> HIDE DEF w
<1>3. \A f \in DOMAIN Defaults : (IF f \in DOMAIN w THEN w[f] ELSE Defaults[f]) = m[f]
  BY <1>1, <1>2
<1>4. WithDefaults(w) = m
  BY <1>1, <1>3 DEF WithDefaults
<1> QED
  BY <1>4 DEF m, w

-----------------------------------------------------------------------------
(* What is decoded from the message of an event is the event, whatever was *)
(* decoded before.                                                         *)
LEMMA RoundTrip ==
  ASSUME NEW e \in Event, NEW old, codec \in AllCodecs
  PROVE  Decoded(old, Encoded(e)) = e
<1>1. WithNumber(old, Numbered(e)) = e
  BY EventFields, MessageFields, KindAndBack DEF WithNumber, Filled, Refill
<1>2. Filled(old, Named(e), KindOfName(Named(e).kind)) = e
  BY EventFields, MessageFields, KindAndBack DEF Filled, Refill
<1>3. CASE codec = "capnp"
  BY <1>1, <1>3 DEF Encoded, Decoded, CapnpMessage, CapnpEvent
<1>4. CASE codec = "json"
  BY <1>2, <1>4 DEF Encoded, Decoded, JsonMessage, JsonEvent
<1>5. CASE codec = "cbor"
  BY <1>2, <1>5 DEF Encoded, Decoded, CborMessage, CborEvent
<1>6. CASE codec = "proto"
  BY <1>1, <1>6, DefaultsAndBack DEF Encoded, Decoded, ProtoMessage, ProtoEvent
<1>7. CASE codec = "flat"
  BY <1>1, <1>7, DefaultsAndBack DEF Encoded, Decoded, FlatMessage, FlatEvent
<1>8. CASE codec = "avro"
  <2> DEFINE m == Numbered(e)
             w == AvroMessage(e)
             x == [w EXCEPT !.seq = AsWord(w.seq), !.timestamp = AsWord(w.timestamp)]
  <2>1. /\ DOMAIN m = {"seq", "timestamp", "source", "kind", "payload"}
        /\ m.seq = e.seq /\ m.timestamp = e.timestamp
        /\ m.source = e.source /\ m.kind = KindNumber[e.kind] /\ m.payload = e.payload
    BY MessageFields
  <2>2. w = [m EXCEPT !.seq = AsLong(m.seq), !.timestamp = AsLong(m.timestamp)]
    BY DEF AvroMessage
  <2> HIDE DEF m, w
  <2>3. /\ DOMAIN w = {"seq", "timestamp", "source", "kind", "payload"}
        /\ w.seq = AsLong(m.seq) /\ w.timestamp = AsLong(m.timestamp)
        /\ w.source = m.source /\ w.kind = m.kind /\ w.payload = m.payload
    BY <2>1, <2>2, NumbersReplaced
  <2>4. /\ x.seq = AsWord(w.seq) /\ x.timestamp = AsWord(w.timestamp)
        /\ x.source = w.source /\ x.kind = w.kind /\ x.payload = w.payload
    BY <2>3, NumbersReplaced
  <2> HIDE DEF x
  <2>5. AsWord(w.seq) = e.seq /\ AsWord(w.timestamp) = e.timestamp
    BY <2>1, <2>3, EventFields, LongAndBack
  <2>6. WithNumber(old, x) = e
    BY <2>1, <2>3, <2>4, <2>5, EventFields, KindAndBack DEF WithNumber, Filled, Refill
  <2>7. Decoded(old, w) = WithNumber(old, x)
    BY <1>8 DEF Decoded, AvroEvent, x
  <2>8. Encoded(e) = w
    BY <1>8 DEF Encoded, w
  <2> QED
    BY <2>6, <2>7, <2>8
<1> QED
  BY <1>3, <1>4, <1>5, <1>6, <1>7, <1>8 DEF AllCodecs

(* Only JSON refuses a message, and only because of its source.            *)
LEMMA Refused ==
  ASSUME NEW e \in Event, codec \in AllCodecs, ~Decodable(Encoded(e))
  PROVE  codec = "json" /\ Escaped(e.source)
  BY MessageFields DEF Decodable, Encoded, JsonMessage

(* The buffer holds the one message of the event on its way.               *)
BufferInv ==
  /\ codec \in AllCodecs
  /\ event \in Event \cup {EmptyEvent}
  /\ fresh \in BOOLEAN /\ (fresh => event \in Event /\ scratch = <<Encoded(event)>>)

CodecInv == BufferInv /\ DecodesAsEncoded

(* Whatever events follow one another, the buffer holds the one on its way,*)
(* and the consumer has the last one that arrived.                         *)
LEMMA CodecInvariant == Spec => []CodecInv
<1>1. Init => CodecInv
  <2>1. Len(EmptyEvent.payload) = 0
    BY DEF EmptyEvent
  <2> QED
    BY <2>1, Zenon DEF Init, CodecInv, BufferInv, DecodesAsEncoded
<1>2. ASSUME CodecInv, [Next]_vars PROVE CodecInv'
  <2>1. ASSUME NEW e \in Event, Encode(e) PROVE CodecInv'
    <3>1. codec = "proto" => pb' = e
      BY <2>1 DEF Encode, Refill, Event
    <3>2. /\ scratch' = <<Encoded(e)>>
          /\ event' = e /\ fresh' = TRUE /\ codec' = codec
      BY <2>1, <3>1 DEF Encode, Refill
    <3>3. Encoded(e)' = Encoded(e)
      BY <3>2 DEF Encoded
    <3> QED
      BY <1>2, <3>2, <3>3 DEF CodecInv, BufferInv, DecodesAsEncoded
  <2>2. CASE Decode
    <3>1. /\ event \in Event /\ codec \in AllCodecs
          /\ scratch[1] = Encoded(event)
          /\ fresh' = FALSE /\ event' = event /\ codec' = codec
      BY <1>2, <2>2 DEF Decode, CodecInv, BufferInv
    <3>2. CASE Decodable(Encoded(event))
      <4>1. ok' /\ out' = event /\ counted' = Len(event.payload)
        BY <2>2, <3>1, <3>2, RoundTrip DEF Decode
      <4> QED
        BY <3>1, <4>1 DEF CodecInv, BufferInv, DecodesAsEncoded
    <3>3. CASE ~Decodable(Encoded(event))
      <4>1. ~ok' /\ counted' = 0
        BY <2>2, <3>1, <3>3 DEF Decode
      <4>2. codec = "json" /\ Escaped(event.source)
        BY <3>1, <3>3, Refused
      <4> QED
        BY <3>1, <4>1, <4>2 DEF CodecInv, BufferInv, DecodesAsEncoded
    <3> QED
      BY <3>2, <3>3
  <2>3. CASE UNCHANGED vars
    BY <1>2, <2>3 DEF CodecInv, BufferInv, DecodesAsEncoded, vars, Encoded
  <2> QED
    BY <1>2, <2>1, <2>2, <2>3 DEF Next
<1> QED
  BY <1>1, <1>2, PTL DEF Spec

(* Every event is decoded as it was encoded, by every codec, except for a  *)
(* JSON text with escapes, of which nothing is counted.                    *)
THEOREM EventsSurvive == Spec => []DecodesAsEncoded
<1>1. CodecInv => DecodesAsEncoded
  BY DEF CodecInv
<1> QED
  BY CodecInvariant, <1>1, PTL
=============================================================================
