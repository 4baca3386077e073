--------------------------- MODULE DelimiterCodec ---------------------------
(* Rigi_Codec_Delimiter: messages separated by a sequence of bytes.         *)
EXTENDS CodecStream, SequencesExt

CONSTANTS
  Delimiter,  \* m_delimiter
  Messages    \* what may be sent

\* Where std::search can find the delimiter in s.
Places(s) ==
  {i \in 1..(Len(s) + 1 - Len(Delimiter)) : SubSeq(s, i, i + Len(Delimiter) - 1) = Delimiter}

\* The delimiter is not empty (decode would never return), and the first delimiter in an encoded
\* message is the one encode put there.
DelimiterAssumption ==
  /\ Len(Delimiter) > 0
  /\ \A m \in Messages : Places(m \o Delimiter) = {Len(m) + 1}

encode(m) == m \o Delimiter

\* An empty message is encoded, and decode does not emit it.
Send(m) == SendFrame(m, encode(m), m # <<>>)

Found == Places(buf) # {}

\* Mutated form: erases one byte of the delimiter only.
DecodeEmit_KeepsDelimiter ==
  /\ Found
  /\ LET i == Min(Places(buf)) IN i > 1 /\ Emit(SubSeq(buf, 1, i - 1), i)

DecodeEmit ==
  /\ Found
  /\ LET i == Min(Places(buf)) IN
       i > 1 /\ Emit(SubSeq(buf, 1, i - 1), i - 1 + Len(Delimiter))

DecodeSkip == Found /\ Min(Places(buf)) = 1 /\ Skip(Len(Delimiter))

DecodeReturn == ~Found /\ Return

Decode == DecodeEmit \/ DecodeSkip \/ DecodeReturn

Init == StreamInit
Next == Decode \/ ReadSome \/ \E m \in Messages : Send(m)
Spec == Init /\ [][Next]_streamVars /\ WF_streamVars(Decode) /\ WF_streamVars(ReadSome)
=============================================================================
