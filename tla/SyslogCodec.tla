----------------------------- MODULE SyslogCodec -----------------------------
(***************************************************************************)
(* Rigi_Codec_Syslog at both ends: a client whose framing is fixed, and a  *)
(* collector that may have to detect it.  A symbol is a pair: a decimal    *)
(* digit <<"digit", d>> (of Radix values, 10 in the code), a space, the    *)
(* line ends or another character.                                         *)
(***************************************************************************)
EXTENDS CodecStream, Numerals, SequencesExt

CONSTANTS
  Messages,  \* what the client's application may send
  Radix,     \* 10
  Sender,    \* the client's m_framing: "Newline", "OctetCounting"
  Framing    \* the collector's: also "Auto"

VARIABLES
  octet_mode,  \* the collector's m_octet_mode
  detected     \* and m_detected

codecVars == <<octet_mode, detected>>
vars == <<streamVars, codecVars>>

SP == <<"sp", 0>>
NL == <<"nl", 0>>
CR == <<"cr", 0>>
Digit(d)   == <<"digit", d>>
IsDigit(x) == x[1] = "digit"

\* The framings agree, a message does not begin with a digit (it begins with its priority, "<"), it
\* is not empty, and one sent by lines has a line feed nowhere but at its end.
SyslogAssumption ==
  /\ Radix \in Nat \ {0, 1}
  /\ Sender \in {"Newline", "OctetCounting"} /\ Framing \in {Sender, "Auto"}
  /\ \A m \in Messages : m # <<>> /\ ~IsDigit(m[1])
  /\ Sender = "Newline" => \A m \in Messages : \A i \in 1..(Len(m) - 1) : m[i] # NL

\* std::to_string: the digits of n down to the first one behind which nothing is left.
Decimal(n) ==
  LET rest == Quotients(n, Radix)
      size == Min({k \in 1..(n + 1) : rest[k] = 0})
  IN  [i \in 1..size |-> Digit(rest[size - i] % Radix)]

-----------------------------------------------------------------------------
(* The client.  Its codec has received nothing: m_octet_mode is FALSE.      *)

\* A message that ends with a line feed gets no second one.
encode(m) ==
  IF Sender = "OctetCounting" THEN Decimal(Len(m)) \o <<SP>> \o m
  ELSE IF Last(m) = NL THEN m ELSE Append(m, NL)

DropLast(m, x) == IF m # <<>> /\ Last(m) = x THEN Front(m) ELSE m

\* What is left of a message framed by lines when its line end is gone.
Bare(m) == IF Sender = "Newline" THEN DropLast(DropLast(m, NL), CR) ELSE m

Send(m) == SendFrame(Bare(m), encode(m), Bare(m) # <<>>) /\ UNCHANGED codecVars

-----------------------------------------------------------------------------
(* The iterations of the collector's decode.                                *)

\* m_octet_mode as the iteration finds it; detection looks at the first byte.
Detect ==
  IF detected THEN octet_mode
  ELSE Framing = "OctetCounting" \/ (Framing = "Auto" /\ IsDigit(buf[1]) /\ buf[1][2] > 0)

\* Mutated form: the framing found is used and not kept.
Remember_Nothing == octet_mode' = octet_mode /\ detected' = TRUE

Remember == octet_mode' = Detect /\ detected' = TRUE

\* Offset of the first x in the buffer, from 1; 0: there is none.
FirstPlace(x) ==
  LET places == {i \in DOMAIN buf : buf[i] = x}
  IN  IF places = {} THEN 0 ELSE Min(places)

\* std::stoul of what is before the space: all of it digits, if it begins with one.
LengthBefore(sp) ==
  LET upTo[i \in 0..(sp - 1)] == IF i = 0 THEN 0 ELSE upTo[i - 1] * Radix + buf[i][2]
  IN upTo[sp - 1]

\* std::stoul throws.
BadLength(sp) == sp > 0 /\ ~IsDigit(buf[1])

OctetEnd(sp) == sp + LengthBefore(sp)

Whole(sp) == sp > 0 /\ ~BadLength(sp) /\ Len(buf) >= OctetEnd(sp)

\* try_octet succeeds.
DecodeOctet ==
  /\ buf # <<>> /\ Detect /\ Remember
  /\ LET sp == FirstPlace(SP) IN
       Whole(sp) /\ Emit(SubSeq(buf, sp + 1, OctetEnd(sp)), OctetEnd(sp))

LineEnd(nl) == IF nl > 1 /\ buf[nl - 1] = CR THEN nl - 2 ELSE nl - 1

\* try_newline: an empty line is erased and not emitted.
DecodeNewline ==
  /\ buf # <<>> /\ ~Detect /\ Remember
  /\ LET nl == FirstPlace(NL) IN
     /\ nl > 0
     /\ IF LineEnd(nl) > 0 THEN Emit(SubSeq(buf, 1, LineEnd(nl)), nl) ELSE Skip(nl)

\* try_octet gives up what it has when the length is no number.
Clear ==
  /\ decoding /\ decoding' = FALSE /\ buf' = <<>>
  /\ UNCHANGED <<sent, ends, wire, position, out>>

DecodeReturn ==
  \/ buf = <<>> /\ Return /\ UNCHANGED codecVars
  \/ /\ buf # <<>> /\ Detect /\ Remember /\ ~Whole(FirstPlace(SP))
     /\ IF BadLength(FirstPlace(SP)) THEN Clear ELSE Return
  \/ buf # <<>> /\ ~Detect /\ Remember /\ FirstPlace(NL) = 0 /\ Return

Decode == DecodeOctet \/ DecodeNewline \/ DecodeReturn

ReadAny == ReadSome /\ UNCHANGED codecVars

Init == StreamInit /\ octet_mode = FALSE /\ detected = FALSE
Next == Decode \/ ReadAny \/ \E m \in Messages : Send(m)
Spec == Init /\ [][Next]_vars /\ WF_vars(Decode) /\ WF_vars(ReadAny)

-----------------------------------------------------------------------------
\* Whatever the first read brought, the collector frames what it sends to a client it has read
\* something from in the way the client frames: encode looks at m_octet_mode.
AnswersInKind ==
  ~decoding /\ position > 0 => (octet_mode <=> Sender = "OctetCounting")
=============================================================================
