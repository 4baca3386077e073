------------------------------ MODULE HTTP1Codec ------------------------------
(***************************************************************************)
(* Rigi_Codec_HTTP1 between a sender of HTTP/1.1 messages and              *)
(* Rigi_HTTP_Request::parse.  A message is a start line, header fields in  *)
(* the order they are written, a body in pieces and a number of trailer    *)
(* lines.  With a "chunked" field the pieces are its chunks, otherwise     *)
(* their concatenation is the body; keep says whether the sender goes on   *)
(* with the connection.  Offsets count from 0.                             *)
(***************************************************************************)
EXTENDS CodecStream, CrlfText, SequencesExt

CONSTANTS
  Messages,  \* what may be sent
  Made       \* what an application may give to make

VARIABLES
  state,     \* m_state: "Header", "BodyFixed", "BodyChunked"
  hdr_len,   \* m_hdr_len
  body_rem   \* m_body_rem

codecVars == <<state, hdr_len, body_rem>>
vars == <<streamVars, codecVars>>

Length(n) == <<"content-length", n>>
Chunked   == <<"transfer-encoding", 0>>
Size(n)   == <<"size", n>>              \* a chunk-size line
Start(v)  == <<"start", v>>             \* a start line that ends with the version or reason v

IsField(x, name) == x[1] = name
Has(fields, name) == \E i \in DOMAIN fields : IsField(fields[i], name)

-----------------------------------------------------------------------------
(* The sender.                                                              *)

Lines(tokens) == FlattenSeq([i \in DOMAIN tokens |-> <<tokens[i]>> \o CRLF])

Body(m) == FlattenSeq(m.pieces)

\* Rigi_HTTP_Response::serialize adds the length behind the application's fields.
HeaderFields(m) ==
  IF m.response /\ ~Has(m.fields, "content-length") /\ Body(m) # <<>>
  THEN Append(m.fields, Length(Len(Body(m)))) ELSE m.fields

ChunkedBody(m) ==
  FlattenSeq([i \in DOMAIN m.pieces |-> <<Size(Len(m.pieces[i]))>> \o CRLF \o m.pieces[i] \o CRLF])
    \o <<Size(0)>> \o CRLF \o Lines(m.trailers) \o CRLF

encode(m) ==
  Lines(<<m.start>> \o HeaderFields(m)) \o CRLF
    \o IF Has(m.fields, "transfer-encoding") THEN ChunkedBody(m) ELSE Body(m)

\* Rigi_HTTP_Response::make; headers is a map, which serialize writes in the order of the names.
make(r) ==
  [start |-> Start(r.reason), fields |-> <<Length(Len(r.body)), <<"content-type", r.type>>>>,
   pieces |-> <<r.body>>, trailers |-> <<>>, response |-> TRUE, keep |-> TRUE]

\* What the receiving application is to see.
Seen(m) ==
  [start |-> m.start, fields |-> HeaderFields(m), body |-> Body(m), keep_alive |-> m.keep]

Send(m) == SendFrame(Seen(m), encode(m), TRUE) /\ UNCHANGED codecVars

-----------------------------------------------------------------------------
(* Rigi_HTTP_Request::parse of an emitted message.                          *)

Blanks(s) == {i \in 0..(Len(s) - 4) : SubSeq(s, i + 1, i + 4) = CRLF \o CRLF}

\* Where the blank line that ends the header begins, with the CRLF before it; -1: not there.
Blank(s) == IF Blanks(s) = {} THEN -1 ELSE Min(Blanks(s))

\* The data of the chunks from offset pos on.
Dechunk(s, pos) ==
  LET from[p \in 0..Len(s)] ==
        LET crlf == FindCrlf(s, p)
            size == IF crlf = p + 1 /\ IsField(s[p + 1], "size") THEN s[p + 1][2] ELSE 0
        IN IF size = 0 \/ crlf + 2 + size > Len(s) THEN <<>>
           ELSE SubSeq(s, crlf + 3, crlf + 2 + size)
                  \o (IF crlf + size + 4 > Len(s) THEN <<>> ELSE from[crlf + size + 4])
  IN from[pos]

\* headers is a map: the last field of a name counts.
connection(fields) ==
  LET named == {i \in DOMAIN fields : IsField(fields[i], "connection")}
  IN IF named = {} THEN "" ELSE fields[Max(named)][2]

keep_alive(version, fields) ==
  IF version = "1.0" THEN connection(fields) = "keep-alive" ELSE connection(fields) # "close"

\* Valid only if the message begins with a start line.
parse(s) ==
  LET body   == Blank(s) + 4
      fields == SelectSeq(SubSeq(s, 3, Blank(s)), LAMBDA x : x \notin {CR, LF})
  IN [start  |-> s[1],
      fields |-> IF IsField(s[1], "start") THEN fields ELSE <<>>,
      body   |-> IF ~IsField(s[1], "start") THEN <<>>
                 ELSE IF Has(fields, "transfer-encoding") THEN Dechunk(s, body)
                 ELSE SubSeq(s, body + 1, Len(s)),
      keep_alive |-> IsField(s[1], "start") => keep_alive(s[1][2], fields)]

-----------------------------------------------------------------------------
(* The iterations of decode's loop.                                         *)

reset == state' = "Header" /\ hdr_len' = 0 /\ body_rem' = 0

\* The fields step_header looks at.  It leaves out the first line, and the loop ends at a line
\* whose CRLF belongs to the blank line.
ScannedFields == SelectSeq(SubSeq(buf, 4, Blank(buf) - 1), LAMBDA x : x \notin {CR, LF})

ContentLength ==
  LET lengths == SelectSeq(ScannedFields, LAMBDA x : IsField(x, "content-length"))
  IN IF lengths = <<>> THEN 0 ELSE Last(lengths)[2]

\* step_header found a body: the same iteration goes on with step_chunked or step_fixed.
DecodeHeader ==
  /\ decoding /\ state = "Header" /\ Blank(buf) >= 0
  /\ hdr_len' = Blank(buf) + 4
  /\ \/ /\ Has(ScannedFields, "transfer-encoding")
        /\ state' = "BodyChunked" /\ UNCHANGED body_rem
     \/ /\ ~Has(ScannedFields, "transfer-encoding") /\ ContentLength > 0
        /\ state' = "BodyFixed" /\ body_rem' = ContentLength
  /\ UNCHANGED streamVars

\* No body.
DecodeHeaderOnly ==
  /\ state = "Header" /\ Blank(buf) >= 0
  /\ ~Has(ScannedFields, "transfer-encoding") /\ ContentLength = 0
  /\ LET total == Blank(buf) + 4 IN Emit(parse(SubSeq(buf, 1, total)), total)
  /\ hdr_len' = 0 /\ UNCHANGED <<state, body_rem>>

\* Mutated form: waits for one byte more than the message has.
FixedEnd_WaitsForMore == IF Len(buf) <= hdr_len + body_rem THEN 0 ELSE hdr_len + body_rem

FixedEnd == IF Len(buf) < hdr_len + body_rem THEN 0 ELSE hdr_len + body_rem

\* step_chunked walks the chunks from the header on: the end of the message, 0 if it is not there.
\* Behind the last chunk it takes the next CRLF for the end.
ChunkedEnd ==
  LET from[p \in 0..Len(buf)] ==
        LET crlf == FindCrlf(buf, p)
            size == IF crlf = p + 1 /\ IsField(buf[p + 1], "size") THEN buf[p + 1][2] ELSE -1
            last == FindCrlf(buf, crlf + 2)
        IN IF size = -1 THEN 0
           ELSE IF size = 0 THEN (IF last = -1 THEN 0 ELSE last + 2)
           ELSE IF Len(buf) < crlf + size + 4 THEN 0 ELSE from[crlf + size + 4]
  IN from[hdr_len]

End == IF state = "BodyFixed" THEN FixedEnd ELSE ChunkedEnd

\* step_fixed and step_chunked.
DecodeBody ==
  /\ state # "Header" /\ End > 0
  /\ Emit(parse(SubSeq(buf, 1, End)), End)
  /\ reset

DecodeReturn ==
  /\ IF state = "Header" THEN Blank(buf) = -1 ELSE End = 0
  /\ Return /\ UNCHANGED codecVars

Decode == DecodeHeader \/ DecodeHeaderOnly \/ DecodeBody \/ DecodeReturn

ReadAny == ReadSome /\ UNCHANGED codecVars

Init == StreamInit /\ state = "Header" /\ hdr_len = 0 /\ body_rem = 0
Next == Decode \/ ReadAny \/ \E m \in Messages \union {make(r) : r \in Made} : Send(m)
Spec == Init /\ [][Next]_vars /\ WF_vars(Decode) /\ WF_vars(ReadAny)
=============================================================================
