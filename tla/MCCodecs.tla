------------------------------ MODULE MCCodecs ------------------------------
(***************************************************************************)
(* The codecs instantiated for TLC.  A session has one codec, set before   *)
(* the first read and kept; every behaviour picks one of Codecs.  The      *)
(* variables of the other codecs rest.                                     *)
(***************************************************************************)
EXTENDS CodecStream, CrlfText, TLC

CONSTANTS
  Codecs,        \* the codecs behaviours pick from
  RespMessages,
  HttpMessages

VARIABLES codec, overread, state, hdr_len, body_rem, octet_mode, detected

respVars   == <<overread>>
httpVars   == <<state, hdr_len, body_rem>>
syslogVars == <<octet_mode, detected>>
vars == <<streamVars, codec, respVars, httpVars, syslogVars>>

-----------------------------------------------------------------------------
\* A delimiter of two bytes; the messages contain each of them, and the first at the end.
Delimiter == INSTANCE DelimiterCodec WITH
  MaxStream <- 11, Delimiter <- <<"cr", "lf">>,
  Messages  <- {<<>>, <<"a">>, <<"cr">>, <<"lf", "a">>, <<"a", "cr">>}

\* Bytes of two values, a header of two: lengths use both digits, a payload looks like a header.
LengthPrefix == INSTANCE LengthPrefixCodec WITH
  MaxStream <- 10, Base <- 2, HeaderBytes <- 2,
  Messages  <- {<<>>, <<0>>, <<1>>, <<1, 0>>, <<0, 1, 1>>}

FixedSize == INSTANCE FixedSizeCodec WITH
  MaxStream <- 9, Size <- 3, Messages <- [1..3 -> {"a", "b"}]

\* Bytes of four values, one bit of two for the length: packets take one to four length bytes.
Publish(qos, id, topic, text) ==
  [type |-> 3, qos |-> qos, dup |-> 0, retain |-> 1, id |-> id, topic |-> topic, text |-> text]
Answer(type, id) == [type |-> type, id |-> id]
Empty(type)      == [type |-> type]

MQTT == INSTANCE MQTTCodec WITH
  MaxStream <- 16, Half <- 2,
  Messages  <- {Publish(0, 0, <<3>>, <<>>), Publish(0, 0, <<>>, <<1, 2>>),
                Publish(1, 6, <<2>>, <<3>>), Publish(2, 15, <<1, 0, 3, 2, 1>>, <<>>),
                Answer(4, 9), Empty(12)}

\* A client's connection: the packets around the PUBLISHes.  Lengths of one or two digits.
Connect(user, password) ==
  [type |-> 1, client_id |-> <<1>>, username |-> user, password |-> password,
   keepalive |-> 60, clean_session |-> TRUE]
Subscription(type, id) == [type |-> type, id |-> id, topic |-> <<2, 9>>, qos |-> 2]

Control == INSTANCE MQTTCodec WITH
  MaxStream <- 23, Half <- 16,
  Messages  <- {Connect(<<>>, <<>>), Connect(<<9>>, <<7, 8>>), Subscription(8, 16),
                Subscription(10, 255),
                [type |-> 2, return_code |-> 5, session_present |-> 1],
                [type |-> 9, id |-> 17, return_code |-> 128]}

\* Numbers of two digit values: a length of two takes two digits.  Messages hold digits, spaces
\* and line ends where they may.
Prio == <<"prio", 0>>
Sp   == <<"sp", 0>>
One  == <<"digit", 1>>
CrLf == <<<<"cr", 0>>, <<"nl", 0>>>>
Octet == INSTANCE SyslogCodec WITH
  MaxStream <- 18, Radix <- 2, Sender <- "OctetCounting", Framing <- "Auto",
  Messages  <- {<<Prio>>, <<Prio>> \o CrLf, <<Prio, Sp, One, Sp>>}
Lines == INSTANCE SyslogCodec WITH
  MaxStream <- 10, Radix <- 2, Sender <- "Newline", Framing <- "Auto",
  Messages  <- {<<Prio>>, <<Prio>> \o CrLf, <<Prio, Sp, One, CrLf[2]>>,
                <<Prio, CrLf[1], <<"digit", 0>>>>, <<CrLf[1]>>}

\* Timestamps of six characters.  Lines as devices send them (RFC 5424 with and without structured
\* data, RFC 3164), and one from encode that is too short to be taken for stamped.
Line == INSTANCE SyslogText WITH TimeLength <- 6
C(n)  == <<"char", n>>
Spc   == Line!SP
Stamp == [i \in 1..6 |-> IF i = 4 THEN Spc ELSE C(i)]
Begin(n, version)  == <<Line!Lt, Line!Number(n), Line!Gt>> \o version
Sent(line, fields) == [line |-> line, fields |-> fields]
SyslogLines ==
  {Sent(Begin(165, <<Line!Digit(1), Spc>>) \o
          <<C(1), Line!Colon, C(2), Spc, C(3), Spc, C(4), C(5), Spc, Line!Dash, Spc, C(6), Spc,
            Line!Open, C(7), Spc, C(8), Line!Close, Spc, C(9), Spc, C(1)>>,
        Line!Fields(165, 1, <<C(1), Line!Colon, C(2)>>, <<C(3)>>, <<C(4), C(5)>>, <<>>, <<C(6)>>,
                    <<Line!Open, C(7), Spc, C(8), Line!Close>>, <<C(9), Spc, C(1)>>)),
   Sent(Begin(8, <<Line!Digit(1), Spc>>) \o
          <<Line!Dash, Spc, C(3), Spc, C(4), Spc, C(5), Spc, Line!Dash, Spc, Line!Dash, Spc,
            Line!Open, C(9)>>,
        Line!Fields(8, 1, <<>>, <<C(3)>>, <<C(4)>>, <<C(5)>>, <<>>, <<>>, <<Line!Open, C(9)>>)),
   Sent(Begin(34, Stamp) \o
          <<Spc, C(7), Spc, C(8), C(9), Line!Colon, Spc, C(1), Line!Open, Line!Colon, Spc, C(2)>>,
        Line!Fields(34, 0, Stamp, <<C(7)>>, <<C(8), C(9)>>, <<>>, <<>>, <<>>,
                    <<C(1), Line!Open, Line!Colon, Spc, C(2)>>)),
   Sent(Line!encode(1, 6, <<>>, <<C(2)>>, <<C(3)>>),
        Line!Fields(14, 0, <<>>, <<>>, <<C(2)>>, <<>>, <<>>, <<>>, <<C(3)>>))}
Collector == INSTANCE SyslogCodec WITH
  MaxStream <- 35, Radix <- 4, Sender <- "OctetCounting", Framing <- "OctetCounting",
  Messages  <- {l.line : l \in SyslogLines}

RESP == INSTANCE RESPCodec WITH MaxStream <- 15, Messages <- RespMessages

HTTP1 == INSTANCE HTTP1Codec WITH
  Messages <- HttpMessages, Made <- {[reason |-> "OK", type |-> 1, body |-> <<<<"byte", 3>>>>]}

ASSUME Delimiter!DelimiterAssumption /\ LengthPrefix!LengthAssumption
ASSUME FixedSize!SizeAssumption /\ MQTT!PacketAssumption /\ Control!PacketAssumption
ASSUME Octet!SyslogAssumption /\ Lines!SyslogAssumption
ASSUME Collector!SyslogAssumption

-----------------------------------------------------------------------------
(* Values for RespMessages and HttpMessages.                                *)

Text(c) == <<"char", c>>
Bulk(s) == <<"bulk", s>>

\* One value of each type; a bulk string holds what looks like a line end and the start of a value.
Replies ==
  {<<"simple", <<Text(1)>>>>, <<"error", <<Text(2), Text(1)>>>>, <<"integer", 7>>,
   Bulk(<<>>), Bulk(CRLF \o <<<<"+", 0>>>>), <<"null", <<>>>>, <<"array", <<>>>>}

\* encode_command({"a"}) and encode_command({"a", "b"})
Commands ==
  {<<"array", <<Bulk(<<Text(1)>>)>>>>, <<"array", <<Bulk(<<Text(1)>>), Bulk(<<Text(2)>>)>>>>}

Host           == <<"host", 0>>
LengthField(n) == <<"content-length", n>>
ChunkedField   == <<"transfer-encoding", 0>>
Connection(x)  == <<"connection", x>>
Data(x)        == <<"byte", x>>
Http(version, fields, pieces, keep) ==
  [start |-> <<"start", version>>, fields |-> fields, pieces |-> pieces, trailers |-> <<>>,
   response |-> FALSE, keep |-> keep]

\* Each body is announced by a field that is not the last; a body contains a CRLF.  Both versions,
\* with and without a word on the connection.
Requests ==
  {Http("1.0", <<>>, <<>>, FALSE),
   Http("1.1", <<LengthField(2), Connection("close")>>, <<CRLF>>, FALSE),
   Http("1.1", <<ChunkedField, Host>>, <<<<Data(1)>>, <<Data(2), <<"cr", 0>>>>>>, TRUE),
   Http("1.0", <<ChunkedField, Connection("keep-alive")>>, <<>>, TRUE)}

\* serialize has to give the length.
Responses == {[Http("OK", <<Host>>, <<<<Data(1)>>>>, TRUE) EXCEPT !.response = TRUE]}

-----------------------------------------------------------------------------
Init ==
  /\ StreamInit /\ codec \in Codecs
  /\ overread = FALSE
  /\ state = "Header" /\ hdr_len = 0 /\ body_rem = 0
  /\ octet_mode = FALSE /\ detected = FALSE

Next ==
  /\ UNCHANGED codec
  /\ \/ codec = "delimiter" /\ Delimiter!Next /\ UNCHANGED <<respVars, httpVars, syslogVars>>
     \/ codec = "length" /\ LengthPrefix!Next /\ UNCHANGED <<respVars, httpVars, syslogVars>>
     \/ codec = "fixed" /\ FixedSize!Next /\ UNCHANGED <<respVars, httpVars, syslogVars>>
     \/ codec = "mqtt" /\ MQTT!Next /\ UNCHANGED <<respVars, httpVars, syslogVars>>
     \/ codec = "control" /\ Control!Next /\ UNCHANGED <<respVars, httpVars, syslogVars>>
     \/ codec = "resp" /\ RESP!Next /\ UNCHANGED <<httpVars, syslogVars>>
     \/ codec = "http" /\ HTTP1!Next /\ UNCHANGED <<respVars, syslogVars>>
     \/ codec = "octet" /\ Octet!Next /\ UNCHANGED <<respVars, httpVars>>
     \/ codec = "lines" /\ Lines!Next /\ UNCHANGED <<respVars, httpVars>>
     \/ codec = "text" /\ Collector!Next /\ UNCHANGED <<respVars, httpVars>>

\* decode runs on, and what the sender wrote is read.
Works == (decoding \/ wire # <<>>) /\ Next /\ UNCHANGED sent

Spec == Init /\ [][Next]_vars /\ WF_vars(Works)

-----------------------------------------------------------------------------
\* RESPCodec's and SyslogCodec's properties, for the behaviours with these codecs.
ConsumesOneValue == codec = "resp" => RESP!ConsumesOneValue
AnswersInKind ==
  /\ codec = "octet" => Octet!AnswersInKind
  /\ codec = "lines" => Lines!AnswersInKind
  /\ codec = "text"  => Collector!AnswersInKind

\* Whatever the cuts, parse finds in a line a device sent the fields the device put into it.
FieldsReadBack ==
  codec = "text" =>
    \A i \in DOMAIN out : \E l \in SyslogLines : l.line = out[i] /\ Line!parse(out[i]) = l.fields
=============================================================================
