---------------------- MODULE LengthPrefixCodec_proofs ----------------------
(***************************************************************************)
(* Rigi_Codec_LengthPrefix gives the application, whatever the cuts, every *)
(* message whose last byte was read, in order and no other: for any base   *)
(* and header, and any messages whose length fits in it.  That the loop in *)
(* decode reads back what the loop in encode wrote is by induction over    *)
(* the bytes of the header.                                                *)
(***************************************************************************)
EXTENDS LengthPrefixCodec, CodecStream_proofs

Byte == 0 .. Base - 1

\* A message behind the digits of its length.
Frames == {[msg |-> m, frame |-> encode(m), counts |-> TRUE] : m \in Messages}

\* What the theorems suppose of the constants.
Sane == Messages \subseteq Seq(Byte) /\ LengthAssumption

-----------------------------------------------------------------------------
(* The two loops over the header.                                           *)

\* What encode's loop has left after each byte.
LEMMA RestSteps ==
  ASSUME Base \in Nat \ {0}, NEW n \in Nat
  PROVE  /\ Rest(n)[0] = n
         /\ \A i \in Nat : Rest(n)[i] \in 0 .. n /\ Rest(n)[i + 1] = Rest(n)[i] \div Base
BY QuotientSteps DEF Rest

\* decode's loop over the digits of n comes to n.
LEMMA ReadsBack ==
  ASSUME Base \in Nat \ {0}, HeaderBytes \in Nat, NEW n \in Nat, n < Width,
         Rest(n)[HeaderBytes] = 0,
         \A k \in 1 .. HeaderBytes : buf[k] = Rest(n)[HeaderBytes - k] % Base
  PROVE  MessageLength = n
<1> DEFINE D == 0 .. HeaderBytes
           Is(f) == f = [i \in D |-> IF i = 0 THEN 0 ELSE (f[i - 1] * Base + buf[i]) % Width]
<1>1. Width \in Nat \ {0}
  BY DEF Width
<1>2. ASSUME NEW k \in 1 .. HeaderBytes PROVE buf[k] \in Nat /\ HeaderBytes - k \in Nat
  <2>1. PICK j \in Nat : j = HeaderBytes - k
    OBVIOUS
  <2>2. PICK x \in Nat : x = Rest(n)[j]
    <3>1. Rest(n)[j] \in 0 .. n
      BY RestSteps
    <3>2. QED
      BY <3>1
  <2>3. buf[k] = x % Base
    BY <2>1, <2>2
  <2>4. QED
    BY <2>1, <2>3, LastDigit
<1>3. \E f : Is(f)
  <2>1. ASSUME NEW i \in Nat, NEW v \in Nat, i < HeaderBytes
        PROVE  (v * Base + buf[i + 1]) % Width \in Nat
    <3>1. v * Base \in Nat /\ buf[i + 1] \in Nat
      BY <1>2, <2>1
    <3>2. v * Base + buf[i + 1] \in Nat
      BY <3>1
    <3>3. QED
      BY <1>1, <3>2, LastDigit
  <2>2. PICK E : E = D
    OBVIOUS
  <2>3. PICK g : g = [i \in Nat |-> [v \in Nat |->
                        IF i < HeaderBytes THEN (v * Base + buf[i + 1]) % Width ELSE 0]]
    OBVIOUS
  <2>4. g \in [Nat -> [Nat -> Nat]]
    BY <2>1, <2>3
  <2>5. 0 \in Nat /\ E \in SUBSET Nat /\ \A i \in E : 0 .. i \subseteq E
    BY <2>2
  <2>6. PICK f \in [E -> Nat] : Recursive(f, E, 0, g)
    BY <2>4, <2>5, Recursion
  <2>7. ASSUME NEW i \in D, i # 0 PROVE g[i - 1][f[i - 1]] = (f[i - 1] * Base + buf[i]) % Width
    <3>1. PICK j \in Nat : j = i - 1 /\ j < HeaderBytes /\ j \in E /\ i = j + 1
      BY <2>2, <2>7
    <3>2. PICK v \in Nat : v = f[j]
      BY <2>6, <3>1
    <3>3. g[j][v] = (v * Base + buf[j + 1]) % Width
      BY <2>3, <3>1
    <3>4. QED
      BY <3>1, <3>2, <3>3
  <2>8. f = [i \in D |-> IF i = 0 THEN 0 ELSE (f[i - 1] * Base + buf[i]) % Width]
    <3>1. \A i \in D : f[i] = IF i = 0 THEN 0 ELSE (f[i - 1] * Base + buf[i]) % Width
      BY <2>2, <2>6, <2>7, Zenon DEF Recursive
    <3>2. f \in [D -> Nat]
      BY <2>2, <2>6
    <3>3. QED
      BY <3>1, <3>2, Zenon
  <2>9. QED
    BY <2>8
<1>4. PICK f : Is(f) /\ MessageLength = f[HeaderBytes]
  <2>1. MessageLength = (CHOOSE f : Is(f))[HeaderBytes]
    BY DEF MessageLength
  <2>2. QED
    BY <1>3, <2>1
<1>5. \A i \in Nat : i <= HeaderBytes => f[i] = Rest(n)[HeaderBytes - i]
  <2> DEFINE T == {i \in Nat : i <= HeaderBytes => f[i] = Rest(n)[HeaderBytes - i]}
  <2>1. 0 \in T
    BY <1>4
  <2>2. ASSUME NEW i \in Nat, i \in T PROVE i + 1 \in T
    <3> SUFFICES ASSUME i + 1 <= HeaderBytes PROVE f[i + 1] = Rest(n)[HeaderBytes - (i + 1)]
      OBVIOUS
    <3>1. PICK j \in Nat : j = HeaderBytes - (i + 1)
      OBVIOUS
    <3>2. j + 1 = HeaderBytes - i /\ i + 1 \in 1 .. HeaderBytes /\ i + 1 \in D /\ (i + 1) - 1 = i
      BY <3>1
    <3>3. PICK x : x = Rest(n)[j]
      OBVIOUS
    <3>4. x \in 0 .. n /\ f[i] = x \div Base /\ buf[i + 1] = x % Base
      BY <2>2, <3>1, <3>2, <3>3, RestSteps
    <3>5. f[i + 1] = (f[i] * Base + buf[i + 1]) % Width
      BY <1>4, <3>2
    <3>6. f[i] * Base + buf[i + 1] = x
      BY <3>4, FromDigits
    <3>7. x % Width = x
      <4>1. x \in Nat /\ x < Width
        BY <1>1, <3>4
      <4>2. QED
        BY ONLY <1>1, <4>1
    <3>8. QED
      BY <3>1, <3>3, <3>5, <3>6, <3>7
  <2> HIDE DEF T
  <2>3. Nat \subseteq T
    BY <2>1, <2>2, Induction
  <2>4. QED
    BY <2>3 DEF T
<1>6. HeaderBytes \in Nat /\ HeaderBytes <= HeaderBytes /\ HeaderBytes - HeaderBytes = 0
  OBVIOUS
<1>7. QED
  BY <1>4, <1>5, <1>6, RestSteps

-----------------------------------------------------------------------------
(* Frames.                                                                  *)

LEMMA HeaderBytesOf ==
  ASSUME Sane, NEW m \in Messages
  PROVE  /\ Len(m) \in Nat /\ HeaderBytes \in Nat \ {0} /\ Base \in Nat \ {0}
         /\ Len(m) < Width /\ HeaderBytes + Len(m) < Width /\ Rest(Len(m))[HeaderBytes] = 0
         /\ Header(Len(m)) \in Seq(Byte) /\ Len(Header(Len(m))) = HeaderBytes
         /\ \A k \in 1 .. HeaderBytes :
              Header(Len(m))[k] = Rest(Len(m))[HeaderBytes - k] % Base
<1>1. /\ HeaderBytes \in Nat \ {0} /\ Base \in Nat \ {0} /\ m \in Seq(Byte)
      /\ Rest(Len(m))[HeaderBytes] = 0 /\ Len(m) + HeaderBytes < Width
  BY DEF Sane, LengthAssumption
<1>2. Width \in Nat \ {0} /\ Len(m) \in Nat
  BY <1>1, LenProperties DEF Width
<1>3. Len(m) < Width /\ HeaderBytes + Len(m) < Width
  BY <1>1, <1>2
<1>4. Len(m) % Width = Len(m)
  BY ONLY <1>2, <1>3
<1>5. Header(Len(m)) = [k \in 1 .. HeaderBytes |-> Rest(Len(m))[HeaderBytes - k] % Base]
  BY <1>4 DEF Header
<1>6. ASSUME NEW k \in 1 .. HeaderBytes PROVE Rest(Len(m))[HeaderBytes - k] % Base \in Byte
  <2>1. PICK j \in Nat : j = HeaderBytes - k
    BY <1>1
  <2>2. Rest(Len(m))[j] \in 0 .. Len(m)
    BY <1>1, <1>2, RestSteps
  <2>3. PICK x \in Nat : x = Rest(Len(m))[j]
    BY <2>2
  <2>4. x % Base \in Byte
    BY <1>1, LastDigit DEF Byte
  <2>5. QED
    BY <2>1, <2>3, <2>4
<1>7. Header(Len(m)) \in Seq(Byte) /\ Len(Header(Len(m))) = HeaderBytes
  <2>1. Header(Len(m)) \in [1 .. HeaderBytes -> Byte] /\ HeaderBytes \in Nat
    BY <1>1, <1>5, <1>6
  <2>2. PICK h : h = Header(Len(m))
    OBVIOUS
  <2>3. h \in Seq(Byte) /\ DOMAIN h = 1 .. HeaderBytes
    BY <2>1, <2>2, IsASeq
  <2>4. DOMAIN h = 1 .. Len(h) /\ Len(h) \in Nat
    BY <2>3, LenProperties
  <2>5. Len(h) = HeaderBytes
    BY <2>1, <2>3, <2>4
  <2>6. QED
    BY <2>2, <2>3, <2>5
<1>8. QED
  BY <1>1, <1>2, <1>3, <1>5, <1>7

LEMMA LengthFrames ==
  ASSUME Sane
  PROVE  /\ FramesOf(Byte, Frames)
         /\ \A f \in Frames :
              /\ f.counts = TRUE /\ f.msg \in Messages /\ Len(f.frame) = HeaderBytes + Len(f.msg)
              /\ SubSeq(f.frame, HeaderBytes + 1, HeaderBytes + Len(f.msg)) = f.msg
              /\ \A k \in 1 .. HeaderBytes : f.frame[k] = Rest(Len(f.msg))[HeaderBytes - k] % Base
<1>1. ASSUME NEW m \in Messages
      PROVE  /\ encode(m) \in Seq(Byte) /\ encode(m) # <<>> /\ Len(encode(m)) = HeaderBytes + Len(m)
             /\ SubSeq(encode(m), HeaderBytes + 1, HeaderBytes + Len(m)) = m
             /\ \A k \in 1 .. HeaderBytes : encode(m)[k] = Rest(Len(m))[HeaderBytes - k] % Base
  <2>1. m \in Seq(Byte)
    BY DEF Sane
  <2>2. PICK h \in Seq(Byte) : h = Header(Len(m))
    BY HeaderBytesOf
  <2>3. /\ Len(h) = HeaderBytes /\ HeaderBytes \in Nat \ {0} /\ Len(m) \in Nat
        /\ \A k \in 1 .. HeaderBytes : h[k] = Rest(Len(m))[HeaderBytes - k] % Base
    BY <2>2, HeaderBytesOf
  <2>4. PICK e : e = h \o m
    OBVIOUS
  <2>5. /\ e \in Seq(Byte) /\ Len(e) = HeaderBytes + Len(m)
        /\ \A k \in 1 .. HeaderBytes : e[k] = h[k]
        /\ \A k \in 1 .. Len(m) : e[HeaderBytes + k] = m[k]
    <3>1. /\ e \in Seq(Byte) /\ Len(e) = Len(h) + Len(m)
          /\ \A i \in 1 .. Len(h) + Len(m) : e[i] = IF i <= Len(h) THEN h[i] ELSE m[i - Len(h)]
      BY <2>1, <2>4, ConcatProperties
    <3>2. ASSUME NEW k \in 1 .. HeaderBytes PROVE e[k] = h[k]
      BY <2>3, <3>1
    <3>3. ASSUME NEW k \in 1 .. Len(m) PROVE e[HeaderBytes + k] = m[k]
      <4>1. /\ HeaderBytes + k \in 1 .. Len(h) + Len(m) /\ ~(HeaderBytes + k <= Len(h))
            /\ (HeaderBytes + k) - Len(h) = k
        BY <2>3
      <4>2. QED
        BY <3>1, <4>1
    <3>4. QED
      BY <2>3, <3>1, <3>2, <3>3
  <2>6. e # <<>>
    BY <2>3, <2>5, EmptySeq
  <2>7. SubSeq(e, HeaderBytes + 1, HeaderBytes + Len(m)) = m
    <3>1. PICK t : t = SubSeq(e, HeaderBytes + 1, HeaderBytes + Len(m))
      OBVIOUS
    <3>2. \A i \in HeaderBytes + 1 .. HeaderBytes + Len(m) : e[i] \in Byte
      <4>1. \A i \in 1 .. Len(e) : e[i] \in Byte
        BY <2>5, ElementOfSeq
      <4>2. QED
        BY <2>3, <2>5, <4>1
    <3>3. /\ t \in Seq(Byte) /\ Len(t) = Len(m)
          /\ \A i \in 1 .. Len(m) : t[i] = e[HeaderBytes + 1 + i - 1]
      <4>1. PICK a \in Int, b \in Int : a = HeaderBytes + 1 /\ b = HeaderBytes + Len(m)
        BY <2>3
      <4>2. /\ t \in Seq(Byte) /\ Len(t) = (IF a <= b THEN b - a + 1 ELSE 0)
            /\ \A i \in 1 .. b - a + 1 : t[i] = e[a + i - 1]
        BY <3>1, <3>2, <4>1, SubSeqProperties, Z3
      <4>3. b - a + 1 = Len(m) /\ (~(a <= b) => Len(m) = 0)
        BY <2>3, <4>1
      <4>4. QED
        BY <4>1, <4>2, <4>3
    <3>4. \A i \in 1 .. Len(m) : t[i] = m[i]
      BY <2>3, <2>5, <3>3
    <3>5. QED
      BY <2>1, <3>1, <3>3, <3>4, SeqEqual
  <2>8. QED
    BY <2>2, <2>3, <2>4, <2>5, <2>6, <2>7 DEF encode
<1>2. ASSUME NEW f \in Frames
      PROVE  f.msg \in Messages /\ f.frame = encode(f.msg) /\ f.counts = TRUE
  <2>1. PICK m \in Messages : f = [msg |-> m, frame |-> encode(m), counts |-> TRUE]
    BY DEF Frames
  <2>2. QED
    BY <2>1
<1>3. FramesOf(Byte, Frames)
  BY <1>1, <1>2 DEF FramesOf
<1>4. ASSUME NEW f \in Frames
      PROVE  /\ f.counts = TRUE /\ f.msg \in Messages /\ Len(f.frame) = HeaderBytes + Len(f.msg)
             /\ SubSeq(f.frame, HeaderBytes + 1, HeaderBytes + Len(f.msg)) = f.msg
             /\ \A k \in 1 .. HeaderBytes : f.frame[k] = Rest(Len(f.msg))[HeaderBytes - k] % Base
  <2>1. PICK m, e : m \in Messages /\ f.msg = m /\ e = encode(m) /\ f.frame = e /\ f.counts = TRUE
    BY <1>2
  <2>2. QED
    BY <1>1, <2>1
<1>5. QED
  BY <1>3, <1>4

\* Once the header is in the buffer, decode reads the length of the first message from it.
LEMMA ReadsLength ==
  ASSUME Sane, NEW f \in Frames, buf \in Seq(Byte), HeaderBytes <= Len(buf),
         \A k \in 1 .. Len(f.frame) : k <= Len(buf) => buf[k] = f.frame[k]
  PROVE  MessageLength = Len(f.msg) /\ (HeaderBytes + MessageLength) % Width = Len(f.frame)
<1>1. f.msg \in Messages /\ Len(f.frame) = HeaderBytes + Len(f.msg)
  BY LengthFrames
<1>2. /\ Len(f.msg) \in Nat /\ HeaderBytes \in Nat \ {0} /\ Base \in Nat \ {0} /\ Len(f.msg) < Width
      /\ HeaderBytes + Len(f.msg) < Width /\ Rest(Len(f.msg))[HeaderBytes] = 0
  BY <1>1, HeaderBytesOf
<1>3. \A k \in 1 .. HeaderBytes : buf[k] = Rest(Len(f.msg))[HeaderBytes - k] % Base
  <2>1. Len(buf) \in Nat
    BY LenProperties
  <2>2. \A k \in 1 .. HeaderBytes : k \in 1 .. Len(f.frame) /\ k <= Len(buf)
    BY <1>1, <1>2, <2>1
  <2>3. QED
    BY <2>2, LengthFrames
<1>4. MessageLength = Len(f.msg)
  BY <1>2, <1>3, ReadsBack
<1>5. (HeaderBytes + Len(f.msg)) % Width = HeaderBytes + Len(f.msg)
  <2>1. PICK x \in Nat : x = HeaderBytes + Len(f.msg) /\ x < Width
    BY <1>2
  <2>2. Width \in Nat \ {0}
    BY <1>2 DEF Width
  <2>3. x % Width = x
    BY ONLY <2>1, <2>2
  <2>4. QED
    BY <2>1, <2>3
<1>6. QED
  BY <1>1, <1>4, <1>5

-----------------------------------------------------------------------------
(* Steps.                                                                   *)

\* decode finds the first frame.
LEMMA LengthEmitKeeps ==
  ASSUME Sane, StreamInv(Byte, Frames), DecodeEmit
  PROVE  StreamInv(Byte, Frames)'
<1>1. FramesOf(Byte, Frames) /\ HeaderBytes \in Nat \ {0} /\ buf \in Seq(Byte)
  BY LengthFrames DEF Sane, LengthAssumption, StreamInv, StreamType
<1>2. Len(buf) \in Nat /\ Len(buf) >= HeaderBytes /\ Len(buf) >= (HeaderBytes + MessageLength) % Width
  BY <1>1, LenProperties DEF DecodeEmit, Complete
<1>3. PICK cuts : Cutting(Frames, cuts)
  BY DEF StreamInv
<1>4. PICK f \in Frames : /\ Tile(f, Start, cuts)
                          /\ \A k \in 1 .. Len(f.frame) : k <= Len(buf) => buf[k] = f.frame[k]
  <2>1. Len(buf) # 0
    BY <1>1, <1>2
  <2>2. QED
    BY <1>1, <1>3, <2>1, FirstFrame
<1>5. MessageLength = Len(f.msg) /\ Len(buf) >= Len(f.frame) /\ Len(f.frame) = HeaderBytes + Len(f.msg)
  <2>1. HeaderBytes <= Len(buf)
    BY <1>1, <1>2
  <2>2. QED
    BY <1>1, <1>2, <1>4, <2>1, ReadsLength, LengthFrames
<1>6. f.counts = TRUE /\ f.frame \in Seq(Byte) /\ Len(f.msg) \in Nat
  BY <1>1, LengthFrames, HeaderBytesOf DEF FramesOf
<1>7. SubSeq(buf, HeaderBytes + 1, Len(f.frame)) = f.msg
  <2>1. \A k \in 1 .. Len(f.frame) : buf[k] = f.frame[k]
    BY <1>1, <1>2, <1>4, <1>5, <1>6
  <2>2. HeaderBytes + 1 \in Int /\ 1 <= HeaderBytes + 1 /\ Len(f.frame) \in Int
    BY <1>1, <1>5, <1>6
  <2>3. Len(f.frame) <= Len(buf) /\ Len(f.frame) <= Len(f.frame)
    BY <1>2, <1>5, <2>2
  <2>4. SubSeq(buf, HeaderBytes + 1, Len(f.frame)) = SubSeq(f.frame, HeaderBytes + 1, Len(f.frame))
    BY <1>1, <1>6, <2>1, <2>2, <2>3, FrontOfFrame
  <2>5. QED
    BY <1>5, <2>4, LengthFrames
<1>8. /\ decoding /\ out' = Append(out, f.msg) /\ buf' = SubSeq(buf, Len(f.frame) + 1, Len(buf))
      /\ UNCHANGED <<sent, ends, wire, position, decoding>>
  BY <1>5, <1>7 DEF DecodeEmit, Emit
<1>9. QED
  BY <1>1, <1>2, <1>3, <1>4, <1>5, <1>6, <1>8, ConsumeKeeps

\* Where decode returns, the buffer ends within its first frame.
LEMMA LengthReturnKeeps ==
  ASSUME Sane, StreamInv(Byte, Frames), DecodeReturn
  PROVE  StreamInv(Byte, Frames)'
<1>1. FramesOf(Byte, Frames) /\ HeaderBytes \in Nat /\ buf \in Seq(Byte) /\ Len(buf) \in Nat
  BY LengthFrames, LenProperties DEF Sane, LengthAssumption, StreamInv, StreamType
<1>2. PICK cuts : Cutting(Frames, cuts)
  BY DEF StreamInv
<1>3. ASSUME Len(buf) # 0
      PROVE  \E f \in Frames : Tile(f, Start, cuts) /\ Len(buf) < Len(f.frame)
  <2>1. PICK f \in Frames : /\ Tile(f, Start, cuts)
                            /\ \A k \in 1 .. Len(f.frame) : k <= Len(buf) => buf[k] = f.frame[k]
    BY <1>1, <1>2, <1>3, FirstFrame
  <2>2. Len(f.frame) = HeaderBytes + Len(f.msg) /\ Len(f.msg) \in Nat
    BY LengthFrames, HeaderBytesOf
  <2>3. CASE Len(buf) < HeaderBytes
    BY <1>1, <2>1, <2>2, <2>3
  <2>4. CASE HeaderBytes <= Len(buf)
    <3>1. (HeaderBytes + MessageLength) % Width = Len(f.frame)
      BY <1>1, <2>1, <2>4, ReadsLength
    <3>2. ~(Len(buf) >= Len(f.frame))
      BY <1>1, <2>4, <3>1 DEF DecodeReturn, Complete
    <3>3. QED
      BY <1>1, <2>1, <2>2, <3>2
  <2>5. QED
    BY <1>1, <2>3, <2>4
<1>4. QED
  BY <1>1, <1>2, <1>3, ReturnKeeps DEF DecodeReturn

LEMMA LengthStep ==
  ASSUME Sane, StreamInv(Byte, Frames), [Next]_streamVars
  PROVE  StreamInv(Byte, Frames)' /\ [Channel!Next]_(Channel!vars)
<1>1. FramesOf(Byte, Frames)
  BY LengthFrames
<1>2. CASE DecodeEmit
  <2>1. \E m, n : Emit(m, n)
    BY <1>2 DEF DecodeEmit
  <2>2. QED
    BY <1>2, <2>1, LengthEmitKeeps, ChannelStep
<1>3. CASE DecodeReturn
  <2>1. UNCHANGED <<sent, out>>
    BY <1>3 DEF DecodeReturn, Return
  <2>2. QED
    BY <1>3, <2>1, LengthReturnKeeps, ChannelStep
<1>4. CASE ReadSome
  <2>1. UNCHANGED <<sent, out>>
    BY <1>4 DEF ReadSome, Read
  <2>2. QED
    BY <1>1, <1>4, <2>1, ReadKeeps, ChannelStep
<1>5. ASSUME NEW m \in Messages, Send(m)
      PROVE  StreamInv(Byte, Frames)' /\ [Channel!Next]_(Channel!vars)
  <2>1. PICK f \in Frames : f = [msg |-> m, frame |-> encode(m), counts |-> TRUE]
    BY DEF Frames
  <2>2. SendFrame(f.msg, f.frame, f.counts)
    BY <1>5, <2>1 DEF Send
  <2>3. QED
    BY <1>1, <2>2, SendKeeps, ChannelStep
<1>6. CASE UNCHANGED streamVars
  <2>1. UNCHANGED <<sent, out>>
    BY <1>6 DEF streamVars
  <2>2. QED
    BY <1>6, <2>1, StutterKeeps, ChannelStep
<1>7. QED
  BY <1>2, <1>3, <1>4, <1>5, <1>6 DEF Next, Decode

\* Messages behind their length: when decode returns it has emitted every message whose last byte
\* was read, and no other.
THEOREM LengthPrompt ==
  ASSUME Sane
  PROVE  Spec => []Prompt
<1>1. Init => StreamInv(Byte, Frames)
  BY StreamInitInv DEF Init
<1>2. StreamInv(Byte, Frames) /\ [Next]_streamVars => StreamInv(Byte, Frames)'
  BY LengthStep
<1>3. StreamInv(Byte, Frames) => Prompt
  BY InvPromises
<1>4. QED
  BY <1>1, <1>2, <1>3, PTL DEF Spec

\* Messages behind their length come out as they went in, in order and each once.
THEOREM LengthChannel ==
  ASSUME Sane
  PROVE  Spec => ImplementsSafely /\ []InOrder
<1>1. Init => StreamInv(Byte, Frames) /\ Channel!Init
  BY StreamInitInv DEF Init, StreamInit, Channel!Init
<1>2. StreamInv(Byte, Frames) /\ [Next]_streamVars
        => StreamInv(Byte, Frames)' /\ [Channel!Next]_(Channel!vars)
  BY LengthStep
<1>3. StreamInv(Byte, Frames) => InOrder
  BY InvPromises
<1>4. QED
  BY <1>1, <1>2, <1>3, PTL DEF Spec, ImplementsSafely, Channel!SafeSpec
=============================================================================
