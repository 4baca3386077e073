----------------------- MODULE FixedSizeCodec_proofs -----------------------
(***************************************************************************)
(* Rigi_Codec_FixedSize gives the application, whatever the cuts, every    *)
(* message whose last byte was read, in order and no other: for any size,  *)
(* messages of that size and number of symbols.                            *)
(***************************************************************************)
EXTENDS FixedSizeCodec, CodecStream_proofs

\* A message is its own frame.
Frames == {[msg |-> m, frame |-> encode(m), counts |-> TRUE] : m \in Messages}

LEMMA FixedFrames ==
  ASSUME NEW Byte, Messages \subseteq Seq(Byte), SizeAssumption
  PROVE  /\ FramesOf(Byte, Frames)
         /\ \A f \in Frames : Len(f.frame) = Size /\ f.frame = f.msg /\ f.counts = TRUE
<1>1. ASSUME NEW m \in Messages PROVE m \in Seq(Byte) /\ m # <<>> /\ Len(m) = Size
  BY <1>1, EmptySeq DEF SizeAssumption
<1>2. ASSUME NEW f \in Frames
      PROVE  f.msg \in Messages /\ f.frame = f.msg /\ f.counts = TRUE
  <2>1. PICK m \in Messages : f = [msg |-> m, frame |-> encode(m), counts |-> TRUE]
    BY DEF Frames
  <2>2. QED
    BY <2>1 DEF encode
<1>3. QED
  BY <1>1, <1>2 DEF FramesOf

\* A full record in the buffer is the first frame.
LEMMA FixedEmitKeeps ==
  ASSUME NEW Byte, Messages \subseteq Seq(Byte), SizeAssumption,
         StreamInv(Byte, Frames), DecodeEmit
  PROVE  StreamInv(Byte, Frames)'
<1>1. FramesOf(Byte, Frames) /\ Size \in Nat \ {0} /\ buf \in Seq(Byte)
  BY FixedFrames DEF SizeAssumption, StreamInv, StreamType
<1>2. Len(buf) \in Nat /\ Len(buf) >= Size
  BY <1>1, LenProperties DEF DecodeEmit, Complete
<1>3. PICK cuts : Cutting(Frames, cuts)
  BY DEF StreamInv
<1>4. PICK f \in Frames : /\ Tile(f, Start, cuts)
                          /\ \A k \in 1 .. Len(f.frame) : k <= Len(buf) => buf[k] = f.frame[k]
  BY <1>1, <1>2, <1>3, FirstFrame
<1>5. Len(f.frame) = Size /\ f.frame = f.msg /\ f.counts = TRUE /\ f.frame \in Seq(Byte)
  BY <1>1, FixedFrames DEF FramesOf
<1>6. SubSeq(buf, 1, Size) = f.msg
  <2>1. \A k \in 1 .. Size : buf[k] = f.frame[k]
    BY <1>1, <1>2, <1>4, <1>5
  <2>2. SubSeq(buf, 1, Size) = SubSeq(f.frame, 1, Size)
    BY <1>1, <1>2, <1>5, <2>1, FrontOfFrame
  <2>3. SubSeq(f.frame, 1, Size) = f.frame
    BY <1>5, SubSeqFull
  <2>4. QED
    BY <1>5, <2>2, <2>3
<1>7. /\ decoding /\ out' = Append(out, f.msg) /\ buf' = SubSeq(buf, Size + 1, Len(buf))
      /\ UNCHANGED <<sent, ends, wire, position, decoding>>
  BY <1>6 DEF DecodeEmit, Emit
<1>8. QED
  BY <1>1, <1>2, <1>3, <1>4, <1>5, <1>7, ConsumeKeeps

\* Less than a full record in the buffer is less than its first frame.
LEMMA FixedReturnKeeps ==
  ASSUME NEW Byte, Messages \subseteq Seq(Byte), SizeAssumption,
         StreamInv(Byte, Frames), DecodeReturn
  PROVE  StreamInv(Byte, Frames)'
<1>1. FramesOf(Byte, Frames) /\ Size \in Nat /\ Len(buf) \in Nat /\ Len(buf) < Size
  <2>1. FramesOf(Byte, Frames) /\ Size \in Nat
    BY FixedFrames DEF SizeAssumption
  <2>2. Len(buf) \in Nat /\ ~(Len(buf) >= Size)
    BY LenProperties DEF StreamInv, StreamType, DecodeReturn, Complete
  <2>3. QED
    BY <2>1, <2>2
<1>2. PICK cuts : Cutting(Frames, cuts)
  BY DEF StreamInv
<1>3. Len(buf) = 0 \/ \E f \in Frames : Tile(f, Start, cuts) /\ Len(buf) < Len(f.frame)
  BY <1>1, <1>2, FirstFrame, FixedFrames
<1>4. QED
  BY <1>1, <1>2, <1>3, ReturnKeeps DEF DecodeReturn

LEMMA FixedStep ==
  ASSUME NEW Byte, Messages \subseteq Seq(Byte), SizeAssumption,
         StreamInv(Byte, Frames), [Next]_streamVars
  PROVE  StreamInv(Byte, Frames)' /\ [Channel!Next]_(Channel!vars)
<1>1. FramesOf(Byte, Frames)
  BY FixedFrames
<1>2. CASE DecodeEmit
  <2>1. \E m, n : Emit(m, n)
    BY <1>2 DEF DecodeEmit
  <2>2. QED
    BY <1>2, <2>1, FixedEmitKeeps, ChannelStep
<1>3. CASE DecodeReturn
  <2>1. UNCHANGED <<sent, out>>
    BY <1>3 DEF DecodeReturn, Return
  <2>2. QED
    BY <1>3, <2>1, FixedReturnKeeps, ChannelStep
<1>4. CASE ReadSome
  <2>1. UNCHANGED <<sent, out>>
    BY <1>4 DEF ReadSome, Read
  <2>2. QED
    BY <1>1, <1>4, <2>1, ReadKeeps, ChannelStep
<1>5. ASSUME NEW m \in Messages, Send(m)
      PROVE  StreamInv(Byte, Frames)' /\ [Channel!Next]_(Channel!vars)
  <2>1. PICK f \in Frames : f = [msg |-> m, frame |-> encode(m), counts |-> TRUE]
    BY DEF Frames
  <2>2. SendFrame(f.msg, f.frame, f.counts)
    BY <1>5, <2>1 DEF Send
  <2>3. QED
    BY <1>1, <2>2, SendKeeps, ChannelStep
<1>6. CASE UNCHANGED streamVars
  <2>1. UNCHANGED <<sent, out>>
    BY <1>6 DEF streamVars
  <2>2. QED
    BY <1>6, <2>1, StutterKeeps, ChannelStep
<1>7. QED
  BY <1>2, <1>3, <1>4, <1>5, <1>6 DEF Next, Decode

\* Fixed-size messages: when decode returns it has emitted every message whose last byte was
\* read, and no other.
THEOREM FixedPrompt ==
  ASSUME NEW Byte, Messages \subseteq Seq(Byte), SizeAssumption
  PROVE  Spec => []Prompt
<1>1. Init => StreamInv(Byte, Frames)
  BY StreamInitInv DEF Init
<1>2. StreamInv(Byte, Frames) /\ [Next]_streamVars => StreamInv(Byte, Frames)'
  BY FixedStep
<1>3. StreamInv(Byte, Frames) => Prompt
  BY InvPromises
<1>4. QED
  BY <1>1, <1>2, <1>3, PTL DEF Spec

\* Fixed-size messages come out as they went in, in order and each once.
THEOREM FixedChannel ==
  ASSUME NEW Byte, Messages \subseteq Seq(Byte), SizeAssumption
  PROVE  Spec => ImplementsSafely /\ []InOrder
<1>1. Init => StreamInv(Byte, Frames) /\ Channel!Init
  BY StreamInitInv DEF Init, StreamInit, Channel!Init
<1>2. StreamInv(Byte, Frames) /\ [Next]_streamVars
        => StreamInv(Byte, Frames)' /\ [Channel!Next]_(Channel!vars)
  BY FixedStep
<1>3. StreamInv(Byte, Frames) => InOrder
  BY InvPromises
<1>4. QED
  BY <1>1, <1>2, <1>3, PTL DEF Spec, ImplementsSafely, Channel!SafeSpec
=============================================================================
