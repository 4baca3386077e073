----------------------- MODULE DelimiterCodec_proofs -----------------------
(***************************************************************************)
(* Rigi_Codec_Delimiter gives the application, whatever the cuts, every    *)
(* message that is not empty and whose delimiter was read, in order and no *)
(* other: for any delimiter and any messages whose first delimiter is the  *)
(* one encode appends.                                                     *)
(***************************************************************************)
EXTENDS DelimiterCodec, CodecStream_proofs

\* A message with its delimiter; the receiver is not given the empty one.
Frames == {[msg |-> m, frame |-> encode(m), counts |-> m # <<>>] : m \in Messages}

\* What the theorems suppose of the constants, S being what a symbol can be.
Sane(S) == /\ Messages \subseteq Seq(S) /\ Delimiter \in Seq(S)
           /\ DelimiterAssumption

LEMMA DelimiterFrames ==
  ASSUME NEW S, Sane(S)
  PROVE  /\ FramesOf(S, Frames)
         /\ Len(Delimiter) \in Nat \ {0}
         /\ \A f \in Frames : /\ f.msg \in Messages /\ f.msg \in Seq(S) /\ f.frame = f.msg \o Delimiter
                              /\ f.counts <=> f.msg # <<>>
                              /\ Len(f.msg) \in Nat /\ Len(f.frame) = Len(f.msg) + Len(Delimiter)
                              /\ SubSeq(f.frame, 1, Len(f.msg)) = f.msg
<1>1. Delimiter \in Seq(S) /\ Len(Delimiter) \in Nat \ {0}
  BY LenProperties DEF Sane, DelimiterAssumption
<1>2. ASSUME NEW m \in Messages
      PROVE  /\ m \in Seq(S) /\ m \o Delimiter \in Seq(S) /\ m \o Delimiter # <<>> /\ Len(m) \in Nat
             /\ Len(m \o Delimiter) = Len(m) + Len(Delimiter)
             /\ SubSeq(m \o Delimiter, 1, Len(m)) = m
  <2>1. m \in Seq(S) /\ Len(m) \in Nat
    BY LenProperties DEF Sane
  <2>2. PICK t : t = m \o Delimiter
    OBVIOUS
  <2>3. /\ t \in Seq(S) /\ Len(t) = Len(m) + Len(Delimiter)
        /\ \A i \in 1 .. Len(m) : t[i] = m[i]
    BY <1>1, <2>1, <2>2, ConcatProperties
  <2>4. t # <<>>
    BY <1>1, <2>1, <2>3, EmptySeq
  <2>5. SubSeq(t, 1, Len(m)) = SubSeq(m, 1, Len(m))
    BY <1>1, <2>1, <2>3, FrontOfFrame
  <2>6. SubSeq(m, 1, Len(m)) = m
    BY <2>1, SubSeqFull
  <2>7. QED
    BY <2>1, <2>2, <2>3, <2>4, <2>5, <2>6
<1>3. ASSUME NEW f \in Frames
      PROVE  f.msg \in Messages /\ f.frame = f.msg \o Delimiter /\ (f.counts <=> f.msg # <<>>) /\ f.counts \in BOOLEAN
  <2>1. PICK m \in Messages : f = [msg |-> m, frame |-> encode(m), counts |-> m # <<>>]
    BY DEF Frames
  <2>2. QED
    BY <2>1 DEF encode
<1>4. FramesOf(S, Frames)
  BY <1>2, <1>3 DEF FramesOf
<1>5. QED
  BY <1>1, <1>2, <1>3, <1>4

\* A delimiter found in the part two sequences share is found in both.
LEMMA SharedPlaces ==
  ASSUME NEW S, Sane(S), NEW s \in Seq(S), NEW t \in Seq(S), NEW n \in Nat,
         n <= Len(s), n <= Len(t), \A k \in 1 .. n : s[k] = t[k],
         NEW i \in Nat \ {0}, i + Len(Delimiter) - 1 <= n
  PROVE  i \in Places(s) <=> i \in Places(t)
<1>1. Len(Delimiter) \in Nat \ {0} /\ Len(s) \in Nat /\ Len(t) \in Nat
  BY DelimiterFrames, LenProperties
<1>2. PICK e : e = i + Len(Delimiter) - 1
  OBVIOUS
<1>3. e \in Int /\ e <= n
  BY <1>1, <1>2
<1>4. e <= Len(s) /\ e <= Len(t) /\ \A k \in 1 .. e : s[k] = t[k]
  BY <1>1, <1>3
<1>5. SubSeq(s, i, e) = SubSeq(t, i, e)
  <2>1. i \in Int /\ 1 <= i
    OBVIOUS
  <2>2. QED
    BY <1>3, <1>4, <2>1, FrontOfFrame
<1>6. i \in 1 .. (Len(s) + 1 - Len(Delimiter)) /\ i \in 1 .. (Len(t) + 1 - Len(Delimiter))
  BY <1>1, <1>2, <1>4
<1>7. QED
  BY <1>2, <1>5, <1>6 DEF Places

\* The first delimiter in the buffer is that of the first frame, when that is there whole;
\* otherwise there is none.
LEMMA FirstDelimiter ==
  ASSUME NEW S, Sane(S), buf \in Seq(S), NEW m \in Messages,
         \A k \in 1 .. Len(m \o Delimiter) : k <= Len(buf) => buf[k] = (m \o Delimiter)[k]
  PROVE  /\ Len(m \o Delimiter) <= Len(buf) => Places(buf) # {} /\ Min(Places(buf)) = Len(m) + 1
         /\ Len(buf) < Len(m \o Delimiter) => Places(buf) = {}
<1>1. PICK t : t = m \o Delimiter
  OBVIOUS
<1>2. /\ t \in Seq(S) /\ Len(m) \in Nat /\ Len(Delimiter) \in Nat \ {0}
      /\ Len(t) = Len(m) + Len(Delimiter) /\ Places(t) = {Len(m) + 1} /\ Len(buf) \in Nat
  <2>1. m \in Seq(S) /\ Delimiter \in Seq(S) /\ Len(Delimiter) \in Nat \ {0}
    BY DelimiterFrames DEF Sane
  <2>2. Places(t) = {Len(m) + 1}
    BY <1>1 DEF Sane, DelimiterAssumption
  <2>3. QED
    BY <1>1, <2>1, <2>2, ConcatProperties, LenProperties
<1>3. \A k \in 1 .. Len(t) : k <= Len(buf) => buf[k] = t[k]
  BY <1>1
<1>4. ASSUME NEW i \in Places(buf)
      PROVE  i \in Nat \ {0} /\ i + Len(Delimiter) - 1 <= Len(buf)
  BY <1>2 DEF Places
<1>5. ASSUME Len(t) <= Len(buf) PROVE Places(buf) # {} /\ Min(Places(buf)) = Len(m) + 1
  <2>1. Len(t) \in Nat /\ \A k \in 1 .. Len(t) : buf[k] = t[k]
    BY <1>2, <1>3, <1>5
  <2>2. ASSUME NEW i \in Nat \ {0}, i <= Len(m) + 1 PROVE i \in Places(buf) <=> i = Len(m) + 1
    <3>1. i + Len(Delimiter) - 1 <= Len(t)
      BY <1>2, <2>2
    <3>2. i \in Places(buf) <=> i \in Places(t)
      BY <1>2, <1>5, <2>1, <3>1, SharedPlaces
    <3>3. QED
      BY <1>2, <3>2
  <2>3. Len(m) + 1 \in Places(buf)
    BY <1>2, <2>2
  <2>4. \A i \in Places(buf) : Len(m) + 1 <= i
    BY <1>2, <1>4, <2>2
  <2>5. PICK P : P = Places(buf)
    OBVIOUS
  <2>6. Min(P) \in P /\ \A i \in P : Min(P) <= i
    BY <2>3, <2>4, <2>5 DEF Min
  <2>7. Min(P) = Len(m) + 1
    <3>1. Min(P) \in Nat /\ Len(m) + 1 <= Min(P) /\ Min(P) <= Len(m) + 1
      BY <1>4, <2>3, <2>4, <2>5, <2>6
    <3>2. QED
      BY <1>2, <3>1
  <2>8. QED
    BY <2>3, <2>5, <2>7
<1>6. ASSUME Len(buf) < Len(t), NEW i \in Places(buf) PROVE FALSE
  <2>1. i \in Nat \ {0} /\ i + Len(Delimiter) - 1 <= Len(buf)
    BY <1>4, <1>6
  <2>2. Len(buf) <= Len(t) /\ \A k \in 1 .. Len(buf) : buf[k] = t[k]
    BY <1>2, <1>3, <1>6
  <2>3. PICK n \in Nat : n = Len(buf)
    BY <1>2
  <2>4. n <= Len(buf) /\ n <= Len(t) /\ i + Len(Delimiter) - 1 <= n /\ \A k \in 1 .. n : buf[k] = t[k]
    BY <2>1, <2>2, <2>3
  <2>5. i \in Places(t)
    BY <1>2, <1>6, <2>1, <2>4, SharedPlaces
  <2>6. QED
    BY <1>2, <1>6, <2>1, <2>5
<1>7. QED
  BY <1>1, <1>5, <1>6

\* What decode finds: the first frame, whole or not, or nothing.
LEMMA DecodeFinds ==
  ASSUME NEW S, Sane(S), StreamInv(S, Frames), NEW cuts, Cutting(Frames, cuts)
  PROVE  \/ Len(buf) = 0 /\ ~Found
         \/ \E f \in Frames :
              /\ Tile(f, Start, cuts)
              /\ Len(f.frame) <= Len(buf) => /\ Found /\ Min(Places(buf)) = Len(f.msg) + 1
                                             /\ SubSeq(buf, 1, Len(f.msg)) = f.msg
              /\ Len(buf) < Len(f.frame) => ~Found
<1>1. FramesOf(S, Frames) /\ Len(Delimiter) \in Nat \ {0} /\ buf \in Seq(S) /\ Len(buf) \in Nat
  BY DelimiterFrames, LenProperties DEF StreamInv, StreamType
<1>2. CASE Len(buf) = 0
  BY <1>1, <1>2 DEF Found, Places
<1>3. CASE Len(buf) # 0
  <2>1. PICK f \in Frames : /\ Tile(f, Start, cuts)
                            /\ \A k \in 1 .. Len(f.frame) : k <= Len(buf) => buf[k] = f.frame[k]
    BY <1>1, <1>3, FirstFrame
  <2>2. /\ f.msg \in Messages /\ f.frame = f.msg \o Delimiter /\ f.frame \in Seq(S)
        /\ Len(f.msg) \in Nat /\ Len(f.frame) = Len(f.msg) + Len(Delimiter)
        /\ SubSeq(f.frame, 1, Len(f.msg)) = f.msg
    BY <1>1, DelimiterFrames DEF FramesOf
  <2>3. /\ Len(f.frame) <= Len(buf) => Found /\ Min(Places(buf)) = Len(f.msg) + 1
        /\ Len(buf) < Len(f.frame) => ~Found
    BY <1>1, <2>1, <2>2, FirstDelimiter DEF Found
  <2>4. ASSUME Len(f.frame) <= Len(buf) PROVE SubSeq(buf, 1, Len(f.msg)) = f.msg
    <3>1. /\ Len(f.msg) <= Len(buf) /\ Len(f.msg) <= Len(f.frame)
          /\ \A k \in 1 .. Len(f.msg) : buf[k] = f.frame[k]
      <4>1. Len(f.msg) <= Len(f.frame) /\ Len(f.frame) <= Len(buf)
        BY <1>1, <2>2, <2>4
      <4>2. \A k \in 1 .. Len(f.msg) : k \in 1 .. Len(f.frame) /\ k <= Len(buf)
        BY <1>1, <2>2, <4>1
      <4>3. QED
        BY <1>1, <2>1, <2>2, <4>1, <4>2
    <3>2. SubSeq(buf, 1, Len(f.msg)) = SubSeq(f.frame, 1, Len(f.msg))
      BY <1>1, <2>2, <3>1, FrontOfFrame
    <3>3. QED
      BY <2>2, <3>2
  <2>5. QED
    BY <2>1, <2>3, <2>4
<1>4. QED
  BY <1>2, <1>3

\* A delimiter was found: the first frame, with a message or without one.
LEMMA FoundKeeps ==
  ASSUME NEW S, Sane(S), StreamInv(S, Frames), DecodeEmit \/ DecodeSkip
  PROVE  StreamInv(S, Frames)'
<1>1. FramesOf(S, Frames) /\ Len(Delimiter) \in Nat \ {0} /\ Found /\ Len(buf) \in Nat
  BY DelimiterFrames, LenProperties DEF DecodeEmit, DecodeSkip, StreamInv, StreamType
<1>2. PICK cuts : Cutting(Frames, cuts)
  BY DEF StreamInv
<1>3. PICK f \in Frames :
        /\ Tile(f, Start, cuts)
        /\ Len(f.frame) <= Len(buf) => /\ Min(Places(buf)) = Len(f.msg) + 1
                                       /\ SubSeq(buf, 1, Len(f.msg)) = f.msg
        /\ Len(buf) < Len(f.frame) => ~Found
  BY <1>1, <1>2, DecodeFinds
<1>4. /\ f.msg \in Seq(S) /\ (f.counts <=> f.msg # <<>>) /\ Len(f.msg) \in Nat
      /\ Len(f.frame) = Len(f.msg) + Len(Delimiter)
  BY DelimiterFrames
<1>5. /\ Len(f.frame) <= Len(buf) /\ Min(Places(buf)) = Len(f.msg) + 1
      /\ SubSeq(buf, 1, Len(f.msg)) = f.msg
  BY <1>1, <1>3, <1>4
<1>6. f.counts <=> Len(f.msg) # 0
  BY <1>4, EmptySeq
<1>7. CASE DecodeEmit
  <2>1. Len(f.msg) + 1 > 1 /\ Emit(SubSeq(buf, 1, Len(f.msg) + 1 - 1), Len(f.msg) + 1 - 1 + Len(Delimiter))
    BY <1>5, <1>7 DEF DecodeEmit
  <2>2. Len(f.msg) + 1 - 1 = Len(f.msg) /\ f.counts
    BY <1>4, <1>6, <2>1
  <2>3. Emit(f.msg, Len(f.frame))
    BY <1>4, <1>5, <2>1, <2>2
  <2>4. /\ decoding /\ out' = Append(out, f.msg) /\ buf' = SubSeq(buf, Len(f.frame) + 1, Len(buf))
        /\ UNCHANGED <<sent, ends, wire, position, decoding>>
    BY <2>3 DEF Emit
  <2>5. QED
    BY <1>1, <1>2, <1>3, <1>5, <2>2, <2>4, ConsumeKeeps
<1>8. CASE DecodeSkip
  <2>1. Len(f.msg) = 0
    BY <1>4, <1>5, <1>8 DEF DecodeSkip
  <2>2. ~f.counts /\ Skip(Len(f.frame))
    BY <1>1, <1>4, <1>6, <1>8, <2>1 DEF DecodeSkip
  <2>3. /\ decoding /\ out' = out /\ buf' = SubSeq(buf, Len(f.frame) + 1, Len(buf))
        /\ UNCHANGED <<sent, ends, wire, position, decoding>>
    BY <2>2 DEF Skip
  <2>4. QED
    BY <1>1, <1>2, <1>3, <1>5, <2>2, <2>3, ConsumeKeeps
<1>9. QED
  BY <1>7, <1>8

\* No delimiter was found: no frame is whole.
LEMMA NotFoundKeeps ==
  ASSUME NEW S, Sane(S), StreamInv(S, Frames), DecodeReturn
  PROVE  StreamInv(S, Frames)'
<1>1. FramesOf(S, Frames) /\ ~Found /\ Return /\ Len(buf) \in Nat
  BY DelimiterFrames, LenProperties DEF DecodeReturn, StreamInv, StreamType
<1>2. PICK cuts : Cutting(Frames, cuts)
  BY DEF StreamInv
<1>3. Len(buf) = 0 \/ \E f \in Frames : Tile(f, Start, cuts) /\ Len(buf) < Len(f.frame)
  <2>1. \A f \in Frames : Len(f.frame) \in Nat
    BY <1>1, LenProperties DEF FramesOf
  <2>2. QED
    BY <1>1, <1>2, <2>1, DecodeFinds
<1>4. QED
  BY <1>1, <1>2, <1>3, ReturnKeeps

LEMMA DelimiterStep ==
  ASSUME NEW S, Sane(S), StreamInv(S, Frames), [Next]_streamVars
  PROVE  StreamInv(S, Frames)' /\ [Channel!Next]_(Channel!vars)
<1>1. FramesOf(S, Frames)
  BY DelimiterFrames
<1>2. CASE DecodeEmit
  <2>1. \E m, n : Emit(m, n)
    BY <1>2 DEF DecodeEmit
  <2>2. QED
    BY <1>2, <2>1, FoundKeeps, ChannelStep
<1>3. CASE DecodeSkip
  <2>1. UNCHANGED <<sent, out>>
    BY <1>3 DEF DecodeSkip, Skip
  <2>2. QED
    BY <1>3, <2>1, FoundKeeps, ChannelStep
<1>4. CASE DecodeReturn
  <2>1. UNCHANGED <<sent, out>>
    BY <1>4 DEF DecodeReturn, Return
  <2>2. QED
    BY <1>4, <2>1, NotFoundKeeps, ChannelStep
<1>5. CASE ReadSome
  <2>1. UNCHANGED <<sent, out>>
    BY <1>5 DEF ReadSome, Read
  <2>2. QED
    BY <1>1, <1>5, <2>1, ReadKeeps, ChannelStep
<1>6. ASSUME NEW m \in Messages, Send(m)
      PROVE  StreamInv(S, Frames)' /\ [Channel!Next]_(Channel!vars)
  <2>1. PICK f \in Frames : f = [msg |-> m, frame |-> encode(m), counts |-> m # <<>>]
    BY DEF Frames
  <2>2. f.msg = m /\ f.frame = encode(m) /\ f.counts = (m # <<>>)
    BY <2>1
  <2>3. SendFrame(f.msg, f.frame, f.counts)
    BY <1>6, <2>2 DEF Send
  <2>4. QED
    BY <1>1, <2>3, SendKeeps, ChannelStep
<1>7. CASE UNCHANGED streamVars
  <2>1. UNCHANGED <<sent, out>>
    BY <1>7 DEF streamVars
  <2>2. QED
    BY <1>7, <2>1, StutterKeeps, ChannelStep
<1>8. QED
  BY <1>2, <1>3, <1>4, <1>5, <1>6, <1>7 DEF Next, Decode

\* Delimited messages: when decode returns it has emitted every message whose delimiter was read,
\* the empty ones excepted, and no other.
THEOREM DelimiterPrompt ==
  ASSUME NEW S, Sane(S)
  PROVE  Spec => []Prompt
<1>1. Init => StreamInv(S, Frames)
  BY StreamInitInv DEF Init
<1>2. StreamInv(S, Frames) /\ [Next]_streamVars => StreamInv(S, Frames)'
  BY DelimiterStep
<1>3. StreamInv(S, Frames) => Prompt
  BY InvPromises
<1>4. QED
  BY <1>1, <1>2, <1>3, PTL DEF Spec

\* Delimited messages come out as they went in, in order and each once.
THEOREM DelimiterChannel ==
  ASSUME NEW S, Sane(S)
  PROVE  Spec => ImplementsSafely /\ []InOrder
<1>1. Init => StreamInv(S, Frames) /\ Channel!Init
  BY StreamInitInv DEF Init, StreamInit, Channel!Init
<1>2. StreamInv(S, Frames) /\ [Next]_streamVars
        => StreamInv(S, Frames)' /\ [Channel!Next]_(Channel!vars)
  BY DelimiterStep
<1>3. StreamInv(S, Frames) => InOrder
  BY InvPromises
<1>4. QED
  BY <1>1, <1>2, <1>3, PTL DEF Spec, ImplementsSafely, Channel!SafeSpec
=============================================================================
