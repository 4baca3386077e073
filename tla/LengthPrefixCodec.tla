-------------------------- MODULE LengthPrefixCodec --------------------------
(***************************************************************************)
(* Rigi_Codec_LengthPrefix: a header of HeaderBytes bytes holds the length *)
(* of the message, most significant byte first.  Lengths are uint32_t; a   *)
(* byte has Base values, so that small messages reach every digit.         *)
(***************************************************************************)
EXTENDS CodecStream, Numerals

CONSTANTS
  Base,         \* values of a byte (256)
  HeaderBytes,  \* m_header_bytes
  Messages      \* what may be sent

Width == Base * Base * Base * Base   \* values of a uint32_t

\* encode's loop fills the header from its last byte: what is left of n after i of them.
Rest(n) == Quotients(n, Base)

Header(n) == [i \in 1..HeaderBytes |-> Rest(n % Width)[HeaderBytes - i] % Base]

\* The header is not empty (decode would never return), and the length of a message fits in it
\* and, added to it, in a uint32_t.
LengthAssumption ==
  /\ Base \in Nat \ {0, 1} /\ HeaderBytes \in Nat \ {0}
  /\ \A m \in Messages : Rest(Len(m))[HeaderBytes] = 0 /\ Len(m) + HeaderBytes < Width

encode(m) == Header(Len(m)) \o m

Send(m) == SendFrame(m, encode(m), TRUE)

\* decode's loop over the header: msg_len after i of its bytes.
MessageLength ==
  LET upTo[i \in 0..HeaderBytes] == IF i = 0 THEN 0 ELSE (upTo[i - 1] * Base + buf[i]) % Width
  IN  upTo[HeaderBytes]

Complete ==
  Len(buf) >= HeaderBytes /\ Len(buf) >= (HeaderBytes + MessageLength) % Width

DecodeEmit ==
  /\ Complete
  /\ LET used == HeaderBytes + MessageLength IN
       Emit(SubSeq(buf, HeaderBytes + 1, used), used)

DecodeReturn == ~Complete /\ Return

Decode == DecodeEmit \/ DecodeReturn

Init == StreamInit
Next == Decode \/ ReadSome \/ \E m \in Messages : Send(m)
Spec == Init /\ [][Next]_streamVars /\ WF_streamVars(Decode) /\ WF_streamVars(ReadSome)
=============================================================================
