--------------------------- MODULE FixedSizeCodec ---------------------------
(* Rigi_Codec_FixedSize: every message has m_msg_size bytes; encode is the  *)
(* inherited one, which adds nothing.                                       *)
EXTENDS CodecStream

CONSTANTS
  Size,     \* m_msg_size
  Messages  \* what may be sent

\* The size is not zero (decode would never return), and the application sends what it promised.
SizeAssumption == Size \in Nat \ {0} /\ \A m \in Messages : Len(m) = Size

encode(m) == m

Send(m) == SendFrame(m, encode(m), TRUE)

Complete == Len(buf) >= Size

DecodeEmit == Complete /\ Emit(SubSeq(buf, 1, Size), Size)

DecodeReturn == ~Complete /\ Return

Decode == DecodeEmit \/ DecodeReturn

Init == StreamInit
Next == Decode \/ ReadSome \/ \E m \in Messages : Send(m)
Spec == Init /\ [][Next]_streamVars /\ WF_streamVars(Decode) /\ WF_streamVars(ReadSome)
=============================================================================
