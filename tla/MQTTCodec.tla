------------------------------ MODULE MQTTCodec ------------------------------
(***************************************************************************)
(* Rigi_Codec_MQTT with the packet builders before it and Packet::parse    *)
(* behind it: what the sender's application gave to a builder is what the  *)
(* accessors of the parsed packet return.  A byte has 2 * Half values.     *)
(***************************************************************************)
EXTENDS CodecStream

CONSTANTS
  Half,     \* 128: the values of a length byte without its continuation bit
  Messages  \* what may be sent

Byte == 2 * Half

CONNECT     == 1
CONNACK     == 2
PUBLISH     == 3
PUBACK      == 4
SUBSCRIBE   == 8
SUBACK      == 9
UNSUBSCRIBE == 10
PINGREQ     == 12
PINGRESP    == 13
DISCONNECT  == 14

\* What a receiver can ask the accessors about a packet; the rest it reads from the payload.
Accessors(type) ==
  {"type"} \cup
  CASE type = PUBLISH -> {"qos", "dup", "retain", "id", "topic", "text"}
    [] type = CONNACK -> {"return_code", "session_present"}
    [] type \in {PUBACK, SUBSCRIBE, SUBACK, UNSUBSCRIBE} -> {"id"}
    [] type \in {CONNECT, PINGREQ, PINGRESP, DISCONNECT} -> {}

Seen(m) == [a \in Accessors(m.type) |-> m[a]]

\* Packets the protocol allows: strings and identifiers of 16 bits, four length bytes.
PacketAssumption ==
  /\ Half \in Nat \ {0, 1}
  /\ \A m \in Messages :
       /\ m.type = PUBLISH => m.qos \in 0..2 /\ {m.dup, m.retain} \subseteq {0, 1}
       /\ "id" \in DOMAIN m => m.id \in 0..(Byte * Byte - 1)
       /\ m.type = CONNACK => m.return_code \in 0..5 /\ m.session_present \in {0, 1}
       /\ \A a \in DOMAIN m \cap {"topic", "text", "client_id", "username", "password"} :
            Len(m[a]) < Byte * Byte

-----------------------------------------------------------------------------
(* The builders.                                                            *)

\* The remaining length, seven bits a byte, least significant first.
encode_remaining[n \in Nat] ==
  IF n < Half THEN <<n>> ELSE <<Half + (n % Half)>> \o encode_remaining[n \div Half]

write_u16(n) == <<(n \div Byte) % Byte, n % Byte>>

write_str(s) == write_u16(Len(s)) \o s

make_packet(flags, payload) == <<flags>> \o encode_remaining[Len(payload)] \o payload

\* The identifier is present only above QoS 0.
build_publish(m) ==
  make_packet(16 * PUBLISH + 8 * m.dup + 2 * m.qos + m.retain,
              write_str(m.topic) \o (IF m.qos > 0 THEN write_u16(m.id) ELSE <<>>) \o m.text)

build_puback(m) == make_packet(16 * PUBACK, write_u16(m.id))

\* An empty username or password is left out, with its flag.
build_connect(m) ==
  LET optional(s) == IF s = <<>> THEN <<>> ELSE write_str(s)
      flags == (IF m.clean_session THEN 2 ELSE 0)
                 + (IF m.username # <<>> THEN 128 ELSE 0) + (IF m.password # <<>> THEN 64 ELSE 0)
  IN make_packet(16 * CONNECT,
                 write_str(<<77, 81, 84, 84>>) \o <<4, flags>> \o write_u16(m.keepalive)
                   \o write_str(m.client_id) \o optional(m.username) \o optional(m.password))

build_connack(m) == make_packet(16 * CONNACK, <<m.session_present, m.return_code>>)

\* These two carry the reserved flag of their type.
build_subscribe(m) ==
  make_packet(16 * SUBSCRIBE + 2, write_u16(m.id) \o write_str(m.topic) \o <<m.qos % 4>>)

build_unsubscribe(m) == make_packet(16 * UNSUBSCRIBE + 2, write_u16(m.id) \o write_str(m.topic))

build_suback(m) == make_packet(16 * SUBACK, write_u16(m.id) \o <<m.return_code>>)

\* build_pingreq, build_pingresp and build_disconnect.
build_empty(type) == make_packet(16 * type, <<>>)

Build(m) ==
  CASE m.type = CONNECT     -> build_connect(m)
    [] m.type = CONNACK     -> build_connack(m)
    [] m.type = PUBLISH     -> build_publish(m)
    [] m.type = PUBACK      -> build_puback(m)
    [] m.type = SUBSCRIBE   -> build_subscribe(m)
    [] m.type = SUBACK      -> build_suback(m)
    [] m.type = UNSUBSCRIBE -> build_unsubscribe(m)
    [] OTHER                -> build_empty(m.type)

Send(m) == Len(Build(m)) <= Half ^ 4 /\ SendFrame(Seen(m), Build(m), TRUE)

-----------------------------------------------------------------------------
(* The length in front of a packet, as decode and Packet::parse read it.    *)

\* How many of the at most four length bytes of s have to be read; empty: not all are there.
LengthBytes(s) ==
  {k \in 1..4 : /\ k < Len(s) /\ s[k + 1] < Half
                /\ \A j \in 1..(k - 1) : s[j + 1] >= Half}

Remaining(s, k) ==
  LET upTo[j \in 0..k] ==
        IF j = 0 THEN 0 ELSE upTo[j - 1] + (s[j + 1] % Half) * Half ^ (j - 1)
  IN upTo[k]

-----------------------------------------------------------------------------
(* Packet::parse and the accessors, on the payload p and the flags f.       *)

U16(p, i) == p[i] * Byte + p[i + 1]
Type(f)   == f \div 16
Qos(f)    == (f \div 2) % 4

topic(p) ==
  IF Len(p) < 2 \/ Len(p) < 2 + U16(p, 1) THEN <<>> ELSE SubSeq(p, 3, 2 + U16(p, 1))

message(f, p) ==
  IF Len(p) < 2 THEN <<>>
  ELSE SubSeq(p, 3 + U16(p, 1) + (IF Qos(f) > 0 THEN 2 ELSE 0), Len(p))

packet_id(f, p) ==
  IF Len(p) < 2 THEN 0
  ELSE IF Type(f) # PUBLISH THEN U16(p, 1)
  ELSE IF Qos(f) = 0 \/ Len(p) < 4 + U16(p, 1) THEN 0
  ELSE U16(p, 3 + U16(p, 1))

session_present(p) == IF p # <<>> THEN p[1] % 2 ELSE 0
return_code(p)     == IF Len(p) >= 2 THEN p[2] ELSE 255

\* What the application sees of an emitted packet.
parse(s) ==
  LET k == CHOOSE n \in LengthBytes(s) : TRUE
      f == s[1]
      p == SubSeq(s, k + 2, k + 1 + Remaining(s, k))
      get(a) == CASE a = "type"   -> Type(f)
                  [] a = "qos"    -> Qos(f)
                  [] a = "dup"    -> (f \div 8) % 2
                  [] a = "retain" -> f % 2
                  [] a = "id"     -> packet_id(f, p)
                  [] a = "topic"  -> topic(p)
                  [] a = "text"   -> message(f, p)
                  [] a = "return_code"     -> return_code(p)
                  [] a = "session_present" -> session_present(p)
  IN [a \in Accessors(Type(f)) |-> get(a)]

-----------------------------------------------------------------------------
Complete(k) == Len(buf) >= k + 1 + Remaining(buf, k)

DecodeEmit ==
  \E k \in LengthBytes(buf) :
    LET total == k + 1 + Remaining(buf, k) IN
    Complete(k) /\ Emit(parse(SubSeq(buf, 1, total)), total)

DecodeReturn == (\A k \in LengthBytes(buf) : ~Complete(k)) /\ Return

Decode == DecodeEmit \/ DecodeReturn

Init == StreamInit
Next == Decode \/ ReadSome \/ \E m \in Messages : Send(m)
Spec == Init /\ [][Next]_streamVars /\ WF_streamVars(Decode) /\ WF_streamVars(ReadSome)
=============================================================================
