------------------------- MODULE CodecStream_proofs -------------------------
(***************************************************************************)
(* What any codec can count on, and what it has to show, for any frames    *)
(* and any cuts.                                                           *)
(*                                                                         *)
(* What decode has not erased and what is still on the wire is cut, at the *)
(* ends of frames, into whole frames of the sender; the message of each    *)
(* that counts is the one sent with that end.  A codec that finds the      *)
(* first frame, and erases exactly that, keeps it so.  S is what a symbol  *)
(* can be, F the frames: [msg, frame, counts], as SendFrame takes them.    *)
(***************************************************************************)
EXTENDS CodecStream, Numerals, SequenceTheorems, FiniteSetTheorems, WellFoundedInduction, TLAPS

FramesOf(S, F) == \A f \in F : f.frame \in Seq(S) /\ f.frame # <<>> /\ f.counts \in BOOLEAN

\* Places in the stream: before the first symbol of buf, behind the last of wire, and the symbol
\* at place p between them.
Start == position - Len(buf)
End   == position + Len(wire)
At(p) == IF p <= position THEN buf[p - Start] ELSE wire[p - position]

Msgs(F) == {f.msg : f \in F}

StreamType(S, F) ==
  /\ wire \in Seq(S) /\ buf \in Seq(S) /\ position \in Nat /\ Len(buf) <= position
  /\ sent \in Seq(Msgs(F)) /\ out \in Seq(Msgs(F))
  /\ ends \in Seq(Nat) /\ Len(ends) = Len(sent) /\ Len(out) <= Len(sent)
  /\ decoding \in BOOLEAN

\* Frame f lies at place c, up to the next of cuts; it is the one sent with that end, if it counts.
Tile(f, c, cuts) ==
  LET d == c + Len(f.frame) IN
  /\ d \in cuts /\ \A e \in cuts : e <= c \/ d <= e
  /\ \A k \in 1 .. Len(f.frame) : At(c + k) = f.frame[k]
  /\ f.counts => \E i \in DOMAIN ends : ends[i] = d /\ sent[i] = f.msg
  /\ ~f.counts => \A i \in DOMAIN ends : ends[i] # d

Cutting(F, cuts) ==
  /\ cuts \subseteq Start .. End /\ Start \in cuts /\ End \in cuts
  /\ \A c \in cuts \ {End} : \E f \in F : Tile(f, c, cuts)
  /\ \A i \in DOMAIN ends : i > Len(out) => ends[i] \in cuts

\* The messages emitted are those whose frames were erased.
Emitted ==
  /\ \A i \in DOMAIN out : out[i] = sent[i]
  /\ \A i, j \in DOMAIN ends : i < j => ends[i] < ends[j]
  /\ \A i \in DOMAIN ends : ends[i] <= Start <=> i <= Len(out)

\* Between two calls of decode no whole frame that counts is in the buffer.
Drained == ~decoding => \A i \in DOMAIN ends : i > Len(out) => ends[i] > position

StreamInv(S, F) == StreamType(S, F) /\ Emitted /\ Drained /\ \E cuts : Cutting(F, cuts)

-----------------------------------------------------------------------------
(* The stream.                                                              *)

\* An empty stream is cut at its only place.
LEMMA StreamInitInv ==
  ASSUME NEW S, NEW F, StreamInit
  PROVE  StreamInv(S, F)
<1>1. <<>> \in Seq(S) /\ <<>> \in Seq(Msgs(F)) /\ <<>> \in Seq(Nat) /\ Len(<<>>) = 0
  BY EmptySeq
<1>2. StreamType(S, F)
  <2>1. wire \in Seq(S) /\ buf \in Seq(S)
    BY <1>1 DEF StreamInit
  <2>2. sent \in Seq(Msgs(F)) /\ out \in Seq(Msgs(F))
    BY <1>1 DEF StreamInit
  <2>3. ends \in Seq(Nat)
    BY <1>1 DEF StreamInit
  <2>4. position = 0 /\ Len(buf) = 0 /\ Len(ends) = 0 /\ Len(sent) = 0 /\ Len(out) = 0
    BY <1>1 DEF StreamInit
  <2>5. decoding \in BOOLEAN
    BY DEF StreamInit
  <2>6. QED
    BY <2>1, <2>2, <2>3, <2>4, <2>5 DEF StreamType
<1>0. Len(buf) = 0 /\ Len(wire) = 0 /\ DOMAIN ends = {} /\ DOMAIN out = {} /\ position = 0
  BY <1>1 DEF StreamInit
<1>3. Emitted /\ Drained
  BY <1>0 DEF Emitted, Drained
<1>4. Start = 0 /\ End = 0
  BY <1>0 DEF Start, End
<1>5. Cutting(F, {0})
  BY <1>0, <1>4 DEF Cutting
<1>6. QED
  BY <1>2, <1>3, <1>5 DEF StreamInv

\* The sender's frame goes behind what is there.
LEMMA AtSend ==
  ASSUME NEW S, NEW F, StreamType(S, F), NEW m, NEW frame \in Seq(S), NEW counts,
         SendFrame(m, frame, counts)
  PROVE  /\ Start' = Start /\ End' = End + Len(frame) /\ wire' \in Seq(S)
         /\ \A p \in Start + 1 .. End : At(p)' = At(p)
         /\ \A p \in End + 1 .. End + Len(frame) : At(p)' = frame[p - End]
<1>1. /\ position \in Nat /\ Len(buf) \in Nat /\ Len(wire) \in Nat /\ Len(frame) \in Nat
      /\ wire' = wire \o frame /\ position' = position /\ buf' = buf
  BY LenProperties DEF StreamType, SendFrame
<1>2. /\ wire' \in Seq(S) /\ Len(wire') = Len(wire) + Len(frame)
      /\ \A i \in 1 .. Len(wire) + Len(frame) :
           wire'[i] = IF i <= Len(wire) THEN wire[i] ELSE frame[i - Len(wire)]
  BY <1>1, ConcatProperties DEF StreamType
<1>3. Start' = Start /\ End' = End + Len(frame) /\ Start \in Int /\ End \in Nat
  BY <1>1, <1>2 DEF Start, End
<1>4. ASSUME NEW p \in Start + 1 .. End PROVE At(p)' = At(p)
  <2>1. CASE p <= position
    BY <1>1, <1>3, <2>1 DEF At, Start
  <2>2. CASE p > position
    <3>1. p - position \in 1 .. Len(wire)
      BY <1>1, <1>3, <2>2 DEF End
    <3>2. wire'[p - position] = wire[p - position]
      BY <1>1, <1>2, <3>1
    <3>3. QED
      BY <1>1, <1>3, <2>2, <3>2 DEF At
  <2>3. QED
    BY <1>1, <1>3, <2>1, <2>2
<1>5. ASSUME NEW p \in End + 1 .. End + Len(frame) PROVE At(p)' = frame[p - End]
  <2>1. /\ p > position /\ p - position \in 1 .. Len(wire) + Len(frame)
        /\ ~(p - position <= Len(wire)) /\ (p - position) - Len(wire) = p - End
    BY <1>1 DEF End
  <2>2. wire'[p - position] = frame[p - End]
    BY <1>2, <2>1
  <2>3. QED
    BY <1>1, <2>1, <2>2 DEF At
<1>6. QED
  BY <1>2, <1>3, <1>4, <1>5

\* Numbers the other lemmas count with.
LEMMA StreamNumbers ==
  ASSUME NEW S, NEW F, StreamType(S, F)
  PROVE  /\ position \in Nat /\ Len(buf) \in Nat /\ Len(wire) \in Nat
         /\ Start \in Nat /\ End \in Nat /\ Start <= position /\ position <= End
         /\ position = Start + Len(buf) /\ End = position + Len(wire)
         /\ DOMAIN ends = 1 .. Len(ends) /\ Len(ends) \in Nat /\ Len(out) \in Nat
         /\ DOMAIN out = 1 .. Len(out) /\ DOMAIN sent = 1 .. Len(sent)
         /\ \A i \in DOMAIN ends : ends[i] \in Nat
<1>1. /\ position \in Nat /\ Len(buf) \in Nat /\ Len(wire) \in Nat /\ Len(buf) <= position
      /\ DOMAIN ends = 1 .. Len(ends) /\ Len(ends) \in Nat /\ Len(out) \in Nat
      /\ DOMAIN out = 1 .. Len(out) /\ DOMAIN sent = 1 .. Len(sent)
  BY LenProperties DEF StreamType
<1>2. \A i \in DOMAIN ends : ends[i] \in Nat
  BY <1>1, ElementOfSeq DEF StreamType
<1>3. QED
  BY <1>1, <1>2 DEF Start, End

\* A tile stays one when places, symbols and ends stay, except behind it.
LEMMA TileKept ==
  ASSUME NEW S, NEW F, FramesOf(S, F), StreamType(S, F), NEW cuts, NEW more, NEW f \in F, NEW c \in Nat,
         Tile(f, c, cuts), c + Len(f.frame) \in more, c + Len(f.frame) <= End,
         \A e \in more : e \in cuts \/ e >= c + Len(f.frame),
         \A p \in c + 1 .. c + Len(f.frame) : At(p)' = At(p),
         \A i \in DOMAIN ends : i \in DOMAIN ends' /\ ends'[i] = ends[i] /\ sent'[i] = sent[i],
         \A i \in DOMAIN ends' : i \in DOMAIN ends \/ ends'[i] > End
  PROVE  Tile(f, c, more)'
<1> DEFINE d == c + Len(f.frame)
<1>1. Len(f.frame) \in Nat /\ f.counts \in BOOLEAN /\ End \in Nat
  BY StreamNumbers, LenProperties DEF FramesOf
<1>2. d \in more /\ \A e \in more : e <= c \/ d <= e
  BY DEF Tile
<1>3. \A k \in 1 .. Len(f.frame) : At(c + k)' = f.frame[k]
  <2> SUFFICES ASSUME NEW k \in 1 .. Len(f.frame) PROVE At(c + k)' = f.frame[k]
    OBVIOUS
  <2>1. c + k \in c + 1 .. c + Len(f.frame)
    BY <1>1
  <2>2. At(c + k) = f.frame[k]
    BY DEF Tile
  <2>3. QED
    BY <2>1, <2>2
<1>4. f.counts => \E i \in DOMAIN ends' : ends'[i] = d /\ sent'[i] = f.msg
  BY DEF Tile
<1>5. ~f.counts => \A i \in DOMAIN ends' : ends'[i] # d
  <2> SUFFICES ASSUME ~f.counts, NEW i \in DOMAIN ends' PROVE ends'[i] # d
    OBVIOUS
  <2>1. CASE i \in DOMAIN ends
    BY <2>1 DEF Tile
  <2>2. CASE ends'[i] > End
    BY <1>1, <2>2
  <2>3. QED
    BY <2>1, <2>2
<1>6. QED
  BY <1>2, <1>3, <1>4, <1>5 DEF Tile

\* Every end is a place up to End, and those to come are cuts.
LEMMA EndsBelow ==
  ASSUME NEW S, NEW F, StreamType(S, F), Emitted, NEW cuts, Cutting(F, cuts)
  PROVE  /\ cuts \subseteq Nat /\ \A c \in cuts : Start <= c /\ c <= End
         /\ \A i \in DOMAIN ends : ends[i] <= End
<1>1. cuts \subseteq Nat /\ \A c \in cuts : Start <= c /\ c <= End
  BY StreamNumbers DEF Cutting
<1>2. ASSUME NEW i \in DOMAIN ends PROVE ends[i] <= End
  <2>1. CASE i <= Len(out)
    BY <2>1, StreamNumbers DEF Emitted
  <2>2. CASE i > Len(out)
    BY <1>1, <2>2 DEF Cutting
  <2>3. QED
    BY <2>1, <2>2, StreamNumbers
<1>3. QED
  BY <1>1, <1>2

\* What the sender's history gains with a frame.
LEMMA SendHistory ==
  ASSUME NEW S, NEW F, StreamType(S, F), NEW f \in F, FramesOf(S, F),
         SendFrame(f.msg, f.frame, f.counts)
  PROVE  /\ sent' \in Seq(Msgs(F)) /\ ends' \in Seq(Nat) /\ Len(ends') = Len(sent')
         /\ Len(sent) <= Len(sent')
         /\ \A i \in DOMAIN ends : i \in DOMAIN ends' /\ ends'[i] = ends[i] /\ sent'[i] = sent[i]
         /\ \A i \in DOMAIN ends' :
              i \in DOMAIN ends \/ (f.counts /\ i = Len(ends) + 1 /\ ends'[i] = End + Len(f.frame))
         /\ f.counts => /\ Len(ends) + 1 \in DOMAIN ends'
                        /\ ends'[Len(ends) + 1] = End + Len(f.frame)
                        /\ sent'[Len(ends) + 1] = f.msg
<1> DEFINE d == End + Len(f.frame)
<1>1. /\ sent \in Seq(Msgs(F)) /\ ends \in Seq(Nat) /\ Len(ends) = Len(sent) /\ f.msg \in Msgs(F)
      /\ Len(ends) \in Nat /\ DOMAIN ends = 1 .. Len(ends) /\ DOMAIN sent = 1 .. Len(sent)
  BY StreamNumbers DEF StreamType, Msgs
<1>2. d \in Nat /\ f.counts \in BOOLEAN
  <2>1. End \in Nat
    BY StreamNumbers
  <2>2. f.frame \in Seq(S) /\ f.counts \in BOOLEAN
    BY DEF FramesOf
  <2>3. Len(f.frame) \in Nat
    BY <2>2, LenProperties
  <2>4. QED
    BY <2>1, <2>2, <2>3
<1>3. CASE f.counts
  <2>1. sent' = Append(sent, f.msg) /\ ends' = Append(ends, d)
    BY <1>3 DEF SendFrame, End
  <2> HIDE DEF d
  <2>2. /\ sent' \in Seq(Msgs(F)) /\ Len(sent') = Len(sent) + 1
        /\ sent'[Len(sent) + 1] = f.msg /\ \A i \in 1 .. Len(sent) : sent'[i] = sent[i]
    BY <1>1, <2>1, AppendProperties
  <2>3. /\ ends' \in Seq(Nat) /\ Len(ends') = Len(ends) + 1
        /\ ends'[Len(ends) + 1] = d /\ \A i \in 1 .. Len(ends) : ends'[i] = ends[i]
    BY <1>1, <1>2, <2>1, AppendProperties
  <2>4. DOMAIN ends' = 1 .. Len(ends) + 1
    BY <2>3, LenProperties
  <2>5. QED
    BY <1>1, <1>3, <2>2, <2>3, <2>4 DEF d
<1>4. CASE ~f.counts
  BY <1>1, <1>4 DEF SendFrame
<1>5. QED
  BY <1>2, <1>3, <1>4

\* The sender's frame is a tile behind the last, and the other tiles stay.
LEMMA SendKeeps ==
  ASSUME NEW S, NEW F, FramesOf(S, F), StreamInv(S, F), NEW f \in F,
         SendFrame(f.msg, f.frame, f.counts)
  PROVE  StreamInv(S, F)'
<1>1. StreamType(S, F) /\ Emitted /\ Drained /\ f.frame \in Seq(S) /\ f.frame # <<>>
  BY DEF StreamInv, FramesOf
<1>2. PICK cuts : Cutting(F, cuts)
  BY DEF StreamInv
<1>3. Len(f.frame) \in Nat \ {0}
  BY <1>1, EmptySeq
<1>4. /\ Start' = Start /\ End' = End + Len(f.frame) /\ wire' \in Seq(S)
      /\ \A p \in Start + 1 .. End : At(p)' = At(p)
      /\ \A p \in End + 1 .. End + Len(f.frame) : At(p)' = f.frame[p - End]
  BY <1>1, AtSend
<1>5. PICK d : d = End + Len(f.frame)
  OBVIOUS
<1>6. /\ sent' \in Seq(Msgs(F)) /\ ends' \in Seq(Nat) /\ Len(ends') = Len(sent')
      /\ Len(sent) <= Len(sent')
      /\ \A i \in DOMAIN ends : i \in DOMAIN ends' /\ ends'[i] = ends[i] /\ sent'[i] = sent[i]
      /\ \A i \in DOMAIN ends' : i \in DOMAIN ends \/ (f.counts /\ i = Len(ends) + 1 /\ ends'[i] = d)
      /\ f.counts => /\ Len(ends) + 1 \in DOMAIN ends'
                     /\ ends'[Len(ends) + 1] = d /\ sent'[Len(ends) + 1] = f.msg
  BY <1>1, <1>5, SendHistory
<1>7. /\ Start \in Nat /\ End \in Nat /\ Start <= position /\ position <= End /\ d > End /\ d \in Nat
      /\ position \in Nat
      /\ Len(ends) \in Nat /\ Len(out) \in Nat /\ Len(out) <= Len(ends) /\ Len(ends) = Len(sent)
      /\ DOMAIN ends = 1 .. Len(ends) /\ DOMAIN out = 1 .. Len(out)
      /\ \A i \in DOMAIN ends : ends[i] \in Nat
  <2>1. /\ Start \in Nat /\ End \in Nat /\ Start <= position /\ position <= End /\ position \in Nat
        /\ Len(ends) \in Nat /\ Len(out) \in Nat
        /\ DOMAIN ends = 1 .. Len(ends) /\ DOMAIN out = 1 .. Len(out)
        /\ \A i \in DOMAIN ends : ends[i] \in Nat
    BY <1>1, StreamNumbers
  <2>2. d > End /\ d \in Nat
    BY <1>3, <1>5, <2>1
  <2>3. Len(out) <= Len(ends) /\ Len(ends) = Len(sent)
    BY <1>1, <2>1 DEF StreamType
  <2>4. QED
    BY <2>1, <2>2, <2>3
<1>8. /\ cuts \subseteq Nat /\ \A c \in cuts : Start <= c /\ c <= End
      /\ \A i \in DOMAIN ends : ends[i] <= End
  BY <1>1, <1>2, EndsBelow
<1>9. UNCHANGED <<position, buf, decoding, out>>
  BY DEF SendFrame
<1>10. StreamType(S, F)'
  <2>1. Len(sent) \in Nat /\ Len(sent') \in Nat
    BY <1>1, <1>6, LenProperties DEF StreamType
  <2>2. QED
    BY <1>1, <1>4, <1>6, <1>7, <1>9, <2>1 DEF StreamType
<1>11. Emitted'
  <2>1. \A i \in DOMAIN out' : out'[i] = sent'[i]
    BY <1>1, <1>6, <1>7, <1>9 DEF Emitted
  <2>2. ASSUME NEW i \in DOMAIN ends', NEW j \in DOMAIN ends', i < j PROVE ends'[i] < ends'[j]
    <3>1. i \in DOMAIN ends
      BY <1>6, <1>7, <2>2
    <3>2. CASE j \in DOMAIN ends
      BY <1>1, <1>6, <2>2, <3>1, <3>2 DEF Emitted
    <3>3. CASE j \notin DOMAIN ends
      BY <1>6, <1>7, <1>8, <3>1, <3>3
    <3>4. QED
      BY <3>2, <3>3
  <2>3. ASSUME NEW i \in DOMAIN ends' PROVE ends'[i] <= Start' <=> i <= Len(out')
    <3>1. CASE i \in DOMAIN ends
      BY <1>1, <1>4, <1>6, <1>9, <3>1 DEF Emitted
    <3>2. CASE i \notin DOMAIN ends
      <4>1. i = Len(ends) + 1 /\ ends'[i] = d
        BY <1>6, <3>2
      <4>2. QED
        BY <1>4, <1>7, <1>9, <4>1
    <3>3. QED
      BY <3>1, <3>2
  <2>4. QED
    BY <2>1, <2>2, <2>3 DEF Emitted
<1>12. Drained'
  <2> SUFFICES ASSUME ~decoding, NEW i \in DOMAIN ends', i > Len(out) PROVE ends'[i] > position
    BY <1>9 DEF Drained
  <2>1. CASE i \in DOMAIN ends
    BY <1>1, <1>6, <2>1 DEF Drained
  <2>2. CASE i \notin DOMAIN ends
    BY <1>6, <1>7, <2>2
  <2>3. QED
    BY <2>1, <2>2
<1>13. PICK more : more = cuts \union {d}
  OBVIOUS
<1>14. Cutting(F, more)'
  <2>1. /\ more \subseteq Start' .. End' /\ Start' \in more /\ End' \in more
    <3>1. Start \in cuts
      BY <1>2 DEF Cutting
    <3>2. Start' = Start /\ End' = d
      BY <1>4, <1>5
    <3>3. \A e \in more : e \in Nat /\ Start <= e /\ e <= d
      BY <1>7, <1>8, <1>13
    <3>4. QED
      BY <1>7, <1>13, <3>1, <3>2, <3>3
  <2>2. \A i \in DOMAIN ends' : i > Len(out') => ends'[i] \in more
    BY <1>2, <1>6, <1>9, <1>13 DEF Cutting
  <2>3. ASSUME NEW c \in more \ {End'} PROVE \E g \in F : Tile(g, c, more)'
    <3>1. CASE c = End
      <4>1. d \in more /\ \A e \in more : e <= c \/ d <= e
        BY <1>2, <1>7, <1>13, <3>1 DEF Cutting
      <4>2. ASSUME NEW k \in 1 .. Len(f.frame) PROVE At(c + k)' = f.frame[k]
        <5>1. c + k \in End + 1 .. End + Len(f.frame) /\ (c + k) - End = k
          BY <1>3, <1>7, <3>1
        <5>2. QED
          BY <1>4, <5>1
      <4>3. ~f.counts => \A i \in DOMAIN ends' : ends'[i] # d
        BY <1>6, <1>7, <1>8
      <4>4. f.counts => \E i \in DOMAIN ends' : ends'[i] = d /\ sent'[i] = f.msg
        BY <1>6
      <4>5. c + Len(f.frame) = d
        BY <1>5, <3>1
      <4>6. Tile(f, c, more)'
        BY <4>1, <4>2, <4>3, <4>4, <4>5 DEF Tile
      <4>7. QED
        BY <4>6
    <3>2. CASE c # End
      <4>1. c \in cuts \ {End} /\ c >= Start /\ c \in Nat
        <5>1. c \in cuts
          BY <1>4, <1>5, <1>13
        <5>2. QED
          BY <1>8, <3>2, <5>1
      <4>2. PICK g \in F : Tile(g, c, cuts)
        BY <1>2, <4>1 DEF Cutting
      <4>3. Len(g.frame) \in Nat /\ c + Len(g.frame) <= End /\ c + Len(g.frame) \in more
        <5>1. g.frame \in Seq(S) /\ c + Len(g.frame) \in cuts
          BY <4>2 DEF Tile, FramesOf
        <5>2. QED
          BY <1>8, <1>13, <5>1, LenProperties
      <4>4. \A p \in c + 1 .. c + Len(g.frame) : At(p)' = At(p)
        BY <1>4, <1>7, <4>1, <4>3
      <4>5. \A e \in more : e \in cuts \/ e >= c + Len(g.frame)
        BY <1>7, <1>13, <4>1, <4>3
      <4>6. \A i \in DOMAIN ends' : i \in DOMAIN ends \/ ends'[i] > End
        BY <1>6, <1>7
      <4>7. Tile(g, c, more)'
        BY <1>1, <1>6, <4>1, <4>2, <4>3, <4>4, <4>5, <4>6, TileKept
      <4>8. QED
        BY <4>7
    <3>3. QED
      BY <3>1, <3>2
  <2>4. QED
    BY <2>1, <2>2, <2>3 DEF Cutting
<1>15. QED
  BY <1>10, <1>11, <1>12, <1>14 DEF StreamInv

-----------------------------------------------------------------------------
(* Reading and decoding.                                                    *)

\* A read moves symbols from the wire to the buffer.
LEMMA AtRead ==
  ASSUME NEW S, NEW F, StreamType(S, F), NEW n \in 1 .. Len(wire), Read(n)
  PROVE  /\ Start' = Start /\ End' = End /\ wire' \in Seq(S) /\ buf' \in Seq(S)
         /\ position' \in Nat /\ Len(buf') <= position'
         /\ \A p \in Start + 1 .. End : At(p)' = At(p)
<1>1. /\ position \in Nat /\ Len(buf) \in Nat /\ Len(wire) \in Nat /\ Len(buf) <= position
      /\ n \in Nat /\ buf \in Seq(S) /\ wire \in Seq(S)
  BY StreamNumbers DEF StreamType
<1> DEFINE moved == SubSeq(wire, 1, n)
<1>2. \A i \in 1 .. Len(wire) : wire[i] \in S
  BY <1>1, ElementOfSeq
<1>3. /\ moved \in Seq(S) /\ Len(moved) = n
      /\ \A i \in 1 .. n : moved[i] = wire[i]
  <2>1. \A i \in 1 .. n : wire[i] \in S
    BY <1>1, <1>2
  <2>2. QED
    BY <1>1, <2>1, SubSeqProperties, Z3
<1>4. /\ wire' \in Seq(S) /\ Len(wire') = Len(wire) - n
      /\ \A i \in 1 .. Len(wire) - n : wire'[i] = wire[n + i]
  <2>1. \A i \in n + 1 .. Len(wire) : wire[i] \in S
    BY <1>1, <1>2
  <2>2. wire' = SubSeq(wire, n + 1, Len(wire))
    BY DEF Read
  <2>3. QED
    BY <1>1, <2>1, <2>2, SubSeqProperties, Z3
<1>5. /\ buf' \in Seq(S) /\ Len(buf') = Len(buf) + n
      /\ \A i \in 1 .. Len(buf) + n :
           buf'[i] = IF i <= Len(buf) THEN buf[i] ELSE moved[i - Len(buf)]
  <2>1. buf' = buf \o moved
    BY DEF Read
  <2> HIDE DEF moved
  <2>2. QED
    BY <1>1, <1>3, <2>1, ConcatProperties
<1> HIDE DEF moved
<1>6. position' = position + n
  BY DEF Read
<1>7. Start' = Start /\ End' = End /\ Start = position - Len(buf) /\ End = position + Len(wire)
  BY <1>1, <1>4, <1>5, <1>6 DEF Start, End
<1>8. ASSUME NEW p \in Start + 1 .. End PROVE At(p)' = At(p)
  <2>1. p \in Nat
    BY <1>1, <1>7
  <2>2. CASE p <= position
    <3>1. p - Start \in 1 .. Len(buf)
      BY <1>1, <1>7, <2>2
    <3>2. buf'[p - Start] = buf[p - Start]
      BY <1>1, <1>5, <3>1
    <3>3. QED
      BY <1>1, <1>6, <1>7, <2>1, <2>2, <3>2 DEF At
  <2>3. CASE p > position /\ p <= position + n
    <3>1. /\ p - Start \in 1 .. Len(buf) + n /\ ~(p - Start <= Len(buf))
          /\ (p - Start) - Len(buf) = p - position /\ p - position \in 1 .. n
      BY <1>1, <1>7, <2>1, <2>3
    <3>2. buf'[p - Start] = wire[p - position]
      BY <1>3, <1>5, <3>1
    <3>3. QED
      BY <1>1, <1>6, <1>7, <2>1, <2>3, <3>2 DEF At
  <2>4. CASE p > position + n
    <3>1. p - (position + n) \in 1 .. Len(wire) - n /\ n + (p - (position + n)) = p - position
      BY <1>1, <1>7, <2>1, <2>4
    <3>2. wire'[p - (position + n)] = wire[p - position]
      BY <1>4, <3>1
    <3>3. QED
      BY <1>1, <1>6, <2>1, <2>4, <3>2 DEF At
  <2>5. QED
    BY <1>1, <2>1, <2>2, <2>3, <2>4
<1>9. QED
  BY <1>1, <1>4, <1>5, <1>6, <1>7, <1>8

\* A read, whatever it takes, leaves the cuts where they are.
LEMMA ReadKeeps ==
  ASSUME NEW S, NEW F, FramesOf(S, F), StreamInv(S, F), ReadSome
  PROVE  StreamInv(S, F)'
<1>1. StreamType(S, F) /\ Emitted
  BY DEF StreamInv
<1>2. PICK cuts : Cutting(F, cuts)
  BY DEF StreamInv
<1>3. PICK n \in 1 .. Len(wire) : Read(n)
  BY DEF ReadSome
<1>4. /\ Start' = Start /\ End' = End /\ wire' \in Seq(S) /\ buf' \in Seq(S)
      /\ position' \in Nat /\ Len(buf') <= position'
      /\ \A p \in Start + 1 .. End : At(p)' = At(p)
  BY <1>1, <1>3, AtRead
<1>5. decoding' = TRUE /\ UNCHANGED <<sent, ends, out>>
  BY <1>3 DEF Read
<1>6. StreamType(S, F)'
  BY <1>1, <1>4, <1>5 DEF StreamType
<1>7. Emitted' /\ Drained'
  BY <1>1, <1>4, <1>5 DEF Emitted, Drained
<1>8. /\ cuts \subseteq Nat /\ \A c \in cuts : Start <= c /\ c <= End
      /\ \A i \in DOMAIN ends : ends[i] <= End
  BY <1>1, <1>2, EndsBelow
<1>9. ASSUME NEW c \in cuts \ {End'} PROVE \E g \in F : Tile(g, c, cuts)'
  <2>1. PICK g \in F : Tile(g, c, cuts)
    BY <1>2, <1>4 DEF Cutting
  <2>2. c + Len(g.frame) \in cuts /\ c + Len(g.frame) <= End /\ Len(g.frame) \in Nat
    BY <1>8, <2>1, LenProperties DEF Tile, FramesOf
  <2>3. \A p \in c + 1 .. c + Len(g.frame) : At(p)' = At(p)
    <3>1. Start \in Nat /\ End \in Nat /\ c \in Nat /\ Start <= c
      BY <1>1, <1>8, StreamNumbers
    <3>2. QED
      BY <1>4, <2>2, <3>1
  <2>4. Tile(g, c, cuts)'
    <3>1. \A e \in cuts : e \in cuts \/ e >= c + Len(g.frame)
      OBVIOUS
    <3>2. \A i \in DOMAIN ends : i \in DOMAIN ends' /\ ends'[i] = ends[i] /\ sent'[i] = sent[i]
      BY <1>5
    <3>3. \A i \in DOMAIN ends' : i \in DOMAIN ends \/ ends'[i] > End
      BY <1>5
    <3>4. c \in Nat
      BY <1>8
    <3>5. QED
      BY <1>1, <2>1, <2>2, <2>3, <3>1, <3>2, <3>3, <3>4, TileKept
  <2>5. QED
    BY <2>4
<1>10. Cutting(F, cuts)'
  BY <1>2, <1>4, <1>5, <1>9 DEF Cutting
<1>11. QED
  BY <1>6, <1>7, <1>10 DEF StreamInv

\* Symbols erased from the front of the buffer.
LEMMA AtErase ==
  ASSUME NEW S, NEW F, StreamType(S, F), NEW n \in Nat, n <= Len(buf),
         buf' = SubSeq(buf, n + 1, Len(buf)), UNCHANGED <<wire, position>>
  PROVE  /\ Start' = Start + n /\ End' = End /\ buf' \in Seq(S) /\ Len(buf') <= position'
         /\ \A p \in Start + n + 1 .. End : At(p)' = At(p)
<1>1. /\ position \in Nat /\ Len(buf) \in Nat /\ Len(wire) \in Nat /\ Len(buf) <= position
      /\ buf \in Seq(S)
  BY StreamNumbers DEF StreamType
<1>2. /\ buf' \in Seq(S) /\ Len(buf') = Len(buf) - n
      /\ \A i \in 1 .. Len(buf) - n : buf'[i] = buf[n + i]
  <2>1. \A i \in n + 1 .. Len(buf) : buf[i] \in S
    BY <1>1, ElementOfSeq
  <2>2. QED
    BY <1>1, <2>1, SubSeqProperties, Z3
<1>3. /\ Start' = Start + n /\ End' = End
      /\ Start = position - Len(buf) /\ End = position + Len(wire)
  <2>1. position' = position /\ wire' = wire /\ Len(buf') = Len(buf) - n
    BY <1>2
  <2>2. /\ position' - Len(buf') = (position - Len(buf)) + n
        /\ position' + Len(wire') = position + Len(wire)
    BY ONLY <1>1, <2>1
  <2>3. QED
    BY <2>2 DEF Start, End
<1>4. ASSUME NEW p \in Start + n + 1 .. End PROVE At(p)' = At(p)
  <2>1. CASE p <= position
    <3>1. p - (Start + n) \in 1 .. Len(buf) - n /\ n + (p - (Start + n)) = p - Start
      BY <1>1, <1>3, <2>1
    <3>2. buf'[p - (Start + n)] = buf[p - Start]
      BY <1>2, <3>1
    <3>3. QED
      BY <1>3, <2>1, <3>2 DEF At
  <2>2. CASE p > position
    BY <1>1, <1>3, <2>2 DEF At
  <2>3. QED
    BY <1>1, <1>3, <2>1, <2>2
<1>5. QED
  BY <1>1, <1>2, <1>3, <1>4

\* A skip or an emit erases the first frame: the cuts left are those behind it.
LEMMA ConsumeKeeps ==
  ASSUME NEW S, NEW F, FramesOf(S, F), StreamInv(S, F), decoding, NEW cuts, Cutting(F, cuts),
         NEW f \in F, Tile(f, Start, cuts), Len(f.frame) <= Len(buf),
         buf' = SubSeq(buf, Len(f.frame) + 1, Len(buf)),
         out' = IF f.counts THEN Append(out, f.msg) ELSE out,
         UNCHANGED <<sent, ends, wire, position, decoding>>
  PROVE  StreamInv(S, F)'
<1>1. StreamType(S, F) /\ Emitted /\ f.frame \in Seq(S) /\ f.frame # <<>> /\ f.counts \in BOOLEAN
  BY DEF StreamInv, FramesOf
<1>2. Len(f.frame) \in Nat \ {0}
  BY <1>1, EmptySeq
<1>3. PICK d : d = Start + Len(f.frame)
  OBVIOUS
<1>4. /\ Start' = d /\ End' = End /\ buf' \in Seq(S) /\ Len(buf') <= position'
      /\ \A p \in d + 1 .. End : At(p)' = At(p)
  BY <1>1, <1>2, <1>3, AtErase
<1>5. /\ Start \in Nat /\ End \in Nat /\ position \in Nat /\ d \in Nat
      /\ Start < d /\ d <= position /\ position <= End
      /\ Len(ends) \in Nat /\ Len(out) \in Nat /\ Len(out) <= Len(ends) /\ Len(ends) = Len(sent)
      /\ DOMAIN ends = 1 .. Len(ends) /\ DOMAIN out = 1 .. Len(out) /\ DOMAIN sent = 1 .. Len(sent)
      /\ \A i \in DOMAIN ends : ends[i] \in Nat
  BY <1>1, <1>2, <1>3, StreamNumbers DEF StreamType
<1>6. /\ cuts \subseteq Nat /\ \A c \in cuts : Start <= c /\ c <= End
      /\ \A i \in DOMAIN ends : ends[i] <= End
  BY <1>1, EndsBelow
<1>7. d \in cuts /\ \A e \in cuts : e <= Start \/ d <= e
  BY <1>3 DEF Tile
\* An end still to come is a cut behind Start, so it is d or behind it.
<1>8. ASSUME NEW i \in DOMAIN ends, i > Len(out) PROVE ends[i] \in cuts /\ d <= ends[i]
  <2>1. ends[i] \in cuts
    BY <1>8 DEF Cutting
  <2>2. ~(ends[i] <= Start)
    BY <1>1, <1>5, <1>8 DEF Emitted
  <2>3. QED
    BY <1>7, <2>1, <2>2
<1>9. f.counts => Len(out) + 1 \in DOMAIN ends /\ ends[Len(out) + 1] = d /\ sent[Len(out) + 1] = f.msg
  <2> SUFFICES ASSUME f.counts
               PROVE  Len(out) + 1 \in DOMAIN ends /\ ends[Len(out) + 1] = d /\ sent[Len(out) + 1] = f.msg
    OBVIOUS
  <2>1. PICK i \in DOMAIN ends : ends[i] = d /\ sent[i] = f.msg
    BY <1>3 DEF Tile
  <2>2. i > Len(out) /\ i \in Nat
    BY <1>1, <1>5, <2>1 DEF Emitted
  <2>3. Len(out) + 1 \in DOMAIN ends
    BY <1>5, <2>1, <2>2
  <2>4. i = Len(out) + 1
    <3>1. Len(out) + 1 > Len(out)
      BY <1>5
    <3>2. d <= ends[Len(out) + 1]
      BY <1>8, <2>3, <3>1
    <3>3. i > Len(out) + 1 => ends[Len(out) + 1] < ends[i]
      BY <1>1, <2>1, <2>3 DEF Emitted
    <3>4. QED
      BY <1>5, <2>1, <2>2, <2>3, <3>2, <3>3
  <2>5. QED
    BY <2>1, <2>3, <2>4
<1>10. PICK less : less = {e \in cuts : d <= e}
  OBVIOUS
<1>11. /\ out' \in Seq(Msgs(F)) /\ Len(out') \in Nat /\ DOMAIN out' = 1 .. Len(out')
       /\ Len(out') = IF f.counts THEN Len(out) + 1 ELSE Len(out)
       /\ \A i \in DOMAIN out' : out'[i] = sent[i]
       /\ Len(out') <= Len(sent)
  <2>1. CASE f.counts
    <3>1. out \in Seq(Msgs(F)) /\ f.msg \in Msgs(F) /\ out' = Append(out, f.msg)
      BY <1>1, <2>1 DEF StreamType, Msgs
    <3>2. /\ out' \in Seq(Msgs(F)) /\ Len(out') = Len(out) + 1
          /\ \A i \in 1 .. Len(out) : out'[i] = out[i]
          /\ out'[Len(out) + 1] = f.msg
      BY <3>1, AppendProperties
    <3>3. DOMAIN out' = 1 .. Len(out) + 1
      BY <3>2, LenProperties
    <3>4. \A i \in DOMAIN out' : out'[i] = sent[i]
      BY <1>1, <1>5, <1>9, <2>1, <3>2, <3>3 DEF Emitted
    <3>5. QED
      BY <1>5, <1>9, <2>1, <3>2, <3>3, <3>4
  <2>2. CASE ~f.counts
    BY <1>1, <1>5, <2>2 DEF StreamType, Emitted
  <2>3. QED
    BY <1>1, <2>1, <2>2
<1>12. \A i \in DOMAIN ends : ends[i] <= d <=> i <= Len(out')
  <2> SUFFICES ASSUME NEW i \in DOMAIN ends PROVE ends[i] <= d <=> i <= Len(out')
    OBVIOUS
  <2>1. CASE i <= Len(out)
    <3>1. ends[i] <= Start
      BY <1>1, <2>1 DEF Emitted
    <3>2. QED
      BY <1>5, <1>11, <2>1, <3>1
  <2>2. CASE i > Len(out)
    <3>1. d <= ends[i]
      BY <1>8, <2>2
    <3>2. CASE f.counts
      <4>1. ends[Len(out) + 1] = d /\ Len(out) + 1 \in DOMAIN ends /\ Len(out') = Len(out) + 1
        BY <1>9, <1>11, <3>2
      <4>2. i > Len(out) + 1 => d < ends[i]
        BY <1>1, <4>1 DEF Emitted
      <4>3. QED
        BY <1>5, <2>2, <4>1, <4>2
    <3>3. CASE ~f.counts
      <4>1. ends[i] # d
        BY <1>3, <3>3 DEF Tile
      <4>2. QED
        BY <1>5, <1>11, <2>2, <3>1, <3>3, <4>1
    <3>4. QED
      BY <1>1, <3>2, <3>3
  <2>3. QED
    BY <1>5, <2>1, <2>2
<1>13. StreamType(S, F)'
  BY <1>1, <1>4, <1>11 DEF StreamType
<1>14. Emitted'
  BY <1>1, <1>4, <1>11, <1>12 DEF Emitted
<1>15. Drained'
  BY DEF Drained
<1>16. Cutting(F, less)'
  <2>1. less \subseteq Start' .. End' /\ Start' \in less /\ End' \in less
    <3>1. d \in less /\ End \in less
      BY <1>5, <1>7, <1>10 DEF Cutting
    <3>2. \A e \in less : e \in Nat /\ d <= e /\ e <= End
      BY <1>6, <1>10
    <3>3. QED
      BY <1>4, <1>5, <3>1, <3>2
  <2>2. \A i \in DOMAIN ends' : i > Len(out') => ends'[i] \in less
    BY <1>5, <1>8, <1>10, <1>11
  <2>3. ASSUME NEW c \in less \ {End'} PROVE \E g \in F : Tile(g, c, less)'
    <3>1. c \in cuts \ {End} /\ d <= c /\ c \in Nat
      BY <1>4, <1>6, <1>10
    <3>2. PICK g \in F : Tile(g, c, cuts)
      BY <3>1 DEF Cutting
    <3>3. /\ Len(g.frame) \in Nat /\ c + Len(g.frame) \in cuts
          /\ c + Len(g.frame) <= End /\ c + Len(g.frame) \in less
      <4>1. Len(g.frame) \in Nat
        BY LenProperties DEF FramesOf
      <4>2. c + Len(g.frame) \in cuts
        BY <3>2 DEF Tile
      <4>3. QED
        BY <1>5, <1>6, <1>10, <3>1, <4>1, <4>2
    <3>4. \A p \in c + 1 .. c + Len(g.frame) : At(p)' = At(p)
      BY <1>4, <1>5, <3>1, <3>3
    <3>5. \A e \in less : e \in cuts \/ e >= c + Len(g.frame)
      BY <1>10
    <3>6. \A i \in DOMAIN ends : i \in DOMAIN ends' /\ ends'[i] = ends[i] /\ sent'[i] = sent[i]
      OBVIOUS
    <3>7. \A i \in DOMAIN ends' : i \in DOMAIN ends \/ ends'[i] > End
      OBVIOUS
    <3>8. Tile(g, c, less)'
      BY <1>1, <3>1, <3>2, <3>3, <3>4, <3>5, <3>6, <3>7, TileKept
    <3>9. QED
      BY <3>8
  <2>4. QED
    BY <2>1, <2>2, <2>3 DEF Cutting
<1>17. QED
  BY <1>13, <1>14, <1>15, <1>16 DEF StreamInv

\* decode may return when the buffer is empty or ends within its first frame.
LEMMA ReturnKeeps ==
  ASSUME NEW S, NEW F, FramesOf(S, F), StreamInv(S, F), NEW cuts, Cutting(F, cuts), Return,
         \/ Len(buf) = 0
         \/ \E f \in F : Tile(f, Start, cuts) /\ Len(buf) < Len(f.frame)
  PROVE  StreamInv(S, F)'
<1>1. StreamType(S, F) /\ Emitted
  BY DEF StreamInv
<1>2. decoding' = FALSE /\ UNCHANGED <<sent, ends, wire, position, buf, out>>
  BY DEF Return
<1>3. StreamType(S, F)' /\ Emitted'
  BY <1>1, <1>2 DEF StreamType, Emitted, Start
<1>4. ASSUME NEW i \in DOMAIN ends, i > Len(out) PROVE ends[i] > position
  <2>1. /\ ends[i] \in cuts /\ ends[i] \in Nat /\ ~(ends[i] <= Start)
        /\ Start \in Nat /\ Len(buf) \in Nat /\ position = Start + Len(buf)
    BY <1>1, <1>4, StreamNumbers DEF Cutting, Emitted
  <2>2. CASE Len(buf) = 0
    BY <2>1, <2>2
  <2>3. ASSUME NEW f \in F, Tile(f, Start, cuts), Len(buf) < Len(f.frame) PROVE ends[i] > position
    <3>1. Start + Len(f.frame) <= ends[i]
      BY <2>1, <2>3 DEF Tile
    <3>2. Len(f.frame) \in Nat
      BY LenProperties DEF FramesOf
    <3>3. QED
      BY <2>1, <2>3, <3>1, <3>2
  <2>4. QED
    BY <2>2, <2>3
<1>5. Drained'
  BY <1>2, <1>4 DEF Drained
<1>6. Cutting(F, cuts)'
  BY <1>2 DEF Cutting, Start, End, Tile, At
<1>7. QED
  BY <1>3, <1>5, <1>6 DEF StreamInv

LEMMA StutterKeeps ==
  ASSUME NEW S, NEW F, StreamInv(S, F), UNCHANGED streamVars
  PROVE  StreamInv(S, F)'
<1>1. UNCHANGED <<sent, ends, wire, position, buf, decoding, out>>
  BY DEF streamVars
<1>2. PICK cuts : Cutting(F, cuts)
  BY DEF StreamInv
<1>3. Cutting(F, cuts)'
  BY <1>1, <1>2 DEF Cutting, Start, End, Tile, At
<1>4. StreamType(S, F)' /\ Emitted' /\ Drained'
  BY <1>1 DEF StreamInv, StreamType, Emitted, Drained, Start
<1>5. QED
  BY <1>3, <1>4 DEF StreamInv

-----------------------------------------------------------------------------
(* What the invariant says of the codec's promises.                         *)

\* The cuts give the application what was sent, and nothing late.
LEMMA InvPromises ==
  ASSUME NEW S, NEW F, StreamInv(S, F)
  PROVE  InOrder /\ Prompt
<1>1. StreamType(S, F) /\ Emitted /\ Drained
  BY DEF StreamInv
<1>2. /\ Len(out) \in Nat /\ Len(ends) \in Nat /\ Len(sent) = Len(ends) /\ Len(out) <= Len(sent)
      /\ DOMAIN out = 1 .. Len(out) /\ DOMAIN ends = 1 .. Len(ends)
      /\ \A i \in DOMAIN ends : ends[i] \in Nat
      /\ Start \in Nat /\ position \in Nat /\ Start <= position
  BY <1>1, StreamNumbers DEF StreamType
<1>3. InOrder
  BY <1>1, <1>2 DEF InOrder, Emitted
<1>4. Prompt
  <2> SUFFICES ASSUME ~decoding
               PROVE  Len(out) = Cardinality({i \in DOMAIN ends : ends[i] <= position})
    BY DEF Prompt
  <2>1. ASSUME NEW i \in DOMAIN ends PROVE ends[i] <= position <=> i <= Len(out)
    <3>1. CASE i <= Len(out)
      BY <1>1, <1>2, <3>1 DEF Emitted
    <3>2. CASE i > Len(out)
      BY <1>1, <1>2, <3>2 DEF Drained
    <3>3. QED
      BY <1>2, <3>1, <3>2
  <2>2. {i \in DOMAIN ends : ends[i] <= position} = 1 .. Len(out)
    BY <1>2, <2>1
  <2>3. Cardinality(1 .. Len(out)) = Len(out)
    <3>1. 1 \in Int /\ Len(out) \in Int
      BY <1>2
    <3>2. Cardinality(1 .. Len(out)) = IF 1 > Len(out) THEN 0 ELSE Len(out) - 1 + 1
      BY <3>1, FS_Interval
    <3>3. QED
      BY <1>2, <3>2
  <2>4. QED
    BY <2>2, <2>3
<1>5. QED
  BY <1>3, <1>4

\* A step that keeps the cuts is one of the channel, or one it does not see.
LEMMA ChannelStep ==
  ASSUME NEW S, NEW F, StreamInv(S, F), StreamInv(S, F)',
         \/ \E f \in F : SendFrame(f.msg, f.frame, f.counts)
         \/ \E m, n : Emit(m, n)
         \/ UNCHANGED <<sent, out>>
  PROVE  [Channel!Next]_(Channel!vars)
<1>1. StreamType(S, F) /\ StreamType(S, F)' /\ Emitted'
  BY DEF StreamInv
<1>2. /\ sent \in Seq(Msgs(F)) /\ out \in Seq(Msgs(F)) /\ out' \in Seq(Msgs(F))
      /\ Len(sent) \in Nat /\ Len(out) \in Nat /\ Len(out') <= Len(sent')
  BY <1>1, LenProperties DEF StreamType
<1>3. CASE UNCHANGED <<sent, out>>
  BY <1>3 DEF Channel!vars
<1>4. ASSUME NEW f \in F, SendFrame(f.msg, f.frame, f.counts) PROVE [Channel!Next]_(Channel!vars)
  <2>1. out' = out /\ (sent' = Append(sent, f.msg) \/ sent' = sent)
    BY <1>4 DEF SendFrame
  <2>2. CASE sent' = Append(sent, f.msg)
    <3>1. f.msg \in Msgs(F)
      BY DEF Msgs
    <3>2. Len(sent') = Len(sent) + 1 /\ sent'[Len(sent) + 1] = f.msg
      BY <1>2, <2>2, <3>1, AppendProperties
    <3>3. Channel!Send
      BY <2>1, <2>2, <3>2 DEF Channel!Send
    <3>4. QED
      BY <3>3 DEF Channel!Next
  <2>3. CASE sent' = sent
    BY <2>1, <2>3 DEF Channel!vars
  <2>4. QED
    BY <2>1, <2>2, <2>3
<1>5. ASSUME NEW m, NEW n, Emit(m, n) PROVE [Channel!Next]_(Channel!vars)
  <2>1. out' = Append(out, m) /\ sent' = sent
    BY <1>5 DEF Emit
  <2>2. Len(out') = Len(out) + 1 /\ out'[Len(out) + 1] = m /\ DOMAIN out' = 1 .. Len(out')
    BY <1>2, <2>1, LenProperties
  <2>3. Len(out) < Len(sent) /\ m = sent[Len(out) + 1]
    <3>1. Len(out) + 1 \in DOMAIN out'
      BY <1>2, <2>2
    <3>2. out'[Len(out) + 1] = sent[Len(out) + 1]
      BY <1>1, <2>1, <3>1 DEF Emitted
    <3>3. QED
      BY <1>2, <2>1, <2>2, <3>2
  <2>4. Channel!Deliver
    BY <2>1, <2>3 DEF Channel!Deliver
  <2>5. QED
    BY <2>4 DEF Channel!Next
<1>6. QED
  BY <1>3, <1>4, <1>5

-----------------------------------------------------------------------------
(* What decode finds.                                                       *)

\* The buffer is empty or begins as a frame does.
LEMMA FirstFrame ==
  ASSUME NEW S, NEW F, FramesOf(S, F), StreamInv(S, F), NEW cuts, Cutting(F, cuts), Len(buf) # 0
  PROVE  \E f \in F : /\ Tile(f, Start, cuts)
                      /\ \A k \in 1 .. Len(f.frame) : k <= Len(buf) => buf[k] = f.frame[k]
<1>1. /\ Start \in Nat /\ Len(buf) \in Nat /\ position = Start + Len(buf) /\ position <= End
      /\ position \in Nat /\ End \in Nat
  BY StreamNumbers DEF StreamInv
<1>2. Start \in cuts \ {End}
  BY <1>1 DEF Cutting
<1>3. PICK f \in F : Tile(f, Start, cuts)
  BY <1>2 DEF Cutting
<1>4. ASSUME NEW k \in 1 .. Len(f.frame), k <= Len(buf) PROVE buf[k] = f.frame[k]
  <2>1. k \in Nat /\ Start + k <= position /\ (Start + k) - Start = k
    <3>1. Len(f.frame) \in Nat
      BY LenProperties DEF FramesOf
    <3>2. QED
      BY <1>1, <1>4, <3>1
  <2>2. At(Start + k) = buf[k]
    BY <2>1 DEF At
  <2>3. QED
    BY <1>3, <2>2 DEF Tile
<1>5. QED
  BY <1>3, <1>4

\* What is cut off the front of the buffer is the frame's front.
LEMMA FrontOfFrame ==
  ASSUME NEW S, NEW s \in Seq(S), NEW t \in Seq(S), NEW m \in Int, NEW n \in Int, 1 <= m,
         n <= Len(s), n <= Len(t), \A k \in 1 .. n : s[k] = t[k]
  PROVE  SubSeq(s, m, n) = SubSeq(t, m, n)
<1>1. Len(s) \in Nat /\ Len(t) \in Nat
  BY LenProperties
<1>2. \A i \in m .. n : s[i] \in S /\ t[i] \in S
  BY <1>1, ElementOfSeq
<1>3. /\ SubSeq(s, m, n) \in Seq(S) /\ SubSeq(t, m, n) \in Seq(S)
      /\ Len(SubSeq(s, m, n)) = IF m <= n THEN n - m + 1 ELSE 0
      /\ Len(SubSeq(t, m, n)) = IF m <= n THEN n - m + 1 ELSE 0
      /\ \A i \in 1 .. n - m + 1 : SubSeq(s, m, n)[i] = s[m + i - 1] /\ SubSeq(t, m, n)[i] = t[m + i - 1]
  BY <1>2, SubSeqProperties, Z3
<1>4. \A i \in 1 .. Len(SubSeq(s, m, n)) : SubSeq(s, m, n)[i] = SubSeq(t, m, n)[i]
  <2> SUFFICES ASSUME NEW i \in 1 .. Len(SubSeq(s, m, n)) PROVE SubSeq(s, m, n)[i] = SubSeq(t, m, n)[i]
    OBVIOUS
  <2>1. i \in 1 .. n - m + 1 /\ m + i - 1 \in 1 .. n
    BY <1>3
  <2>2. QED
    BY <1>3, <2>1
<1>5. QED
  BY <1>3, <1>4, SeqEqual

-----------------------------------------------------------------------------
(* Induction over numbers, and functions defined by recursion over them:    *)
(* what the loops of a codec compute.                                       *)

\* A set of numbers has a least element.
LEMMA Least ==
  ASSUME NEW T \in SUBSET Nat, T # {}
  PROVE  \E x \in T : \A y \in T : x <= y
<1> DEFINE R == OpToRel(<, Nat)
<1>1. IsWellFoundedOn(R, Nat)
  BY NatLessThanWellFounded
<1>2. \A x, y \in Nat : x < y => <<x, y>> \in R
  BY DEF OpToRel
<1> HIDE DEF R
<1>3. PICK x \in T : \A y \in T : ~(<<y, x>> \in R)
  BY <1>1, WFMin
<1>4. ASSUME NEW y \in T PROVE x <= y
  <2>1. x \in Nat /\ y \in Nat
    OBVIOUS
  <2>2. ~(y < x)
    BY <1>2, <1>3, <2>1
  <2>3. QED
    BY <2>1, <2>2
<1>5. QED
  BY <1>4

\* Induction, over a set rather than a predicate.
LEMMA Induction ==
  ASSUME NEW T, 0 \in T, \A n \in Nat : n \in T => n + 1 \in T
  PROVE  Nat \subseteq T
<1> SUFFICES ASSUME NEW k \in Nat, k \notin T PROVE FALSE
  OBVIOUS
<1>1. PICK x \in {n \in Nat : n \notin T} : \A y \in {n \in Nat : n \notin T} : x <= y
  <2> DEFINE U == {n \in Nat : n \notin T}
  <2>1. U \in SUBSET Nat /\ U # {}
    OBVIOUS
  <2> HIDE DEF U
  <2>2. \E x \in U : \A y \in U : x <= y
    BY <2>1, Least
  <2>3. QED
    BY <2>2 DEF U
<1>2. x # 0 /\ x - 1 \in Nat
  BY <1>1
<1>3. x - 1 \in T
  BY <1>1, <1>2
<1>4. QED
  BY <1>1, <1>2, <1>3

\* f is defined by recursion over the numbers in D: a is its first value, g[i] makes value i + 1
\* of value i.
Recursive(f, D, a, g) == \A i \in D : f[i] = IF i = 0 THEN a ELSE g[i - 1][f[i - 1]]

\* Such a function exists.
LEMMA Recursion ==
  ASSUME NEW V, NEW a \in V, NEW g \in [Nat -> [V -> V]],
         NEW D \in SUBSET Nat, \A i \in D : 0 .. i \subseteq D
  PROVE  \E f \in [D -> V] : Recursive(f, D, a, g)
<1> DEFINE Good(f, n) == /\ f \in [0 .. n -> V] /\ f[0] = a
                         /\ \A i \in 1 .. n : f[i] = g[i - 1][f[i - 1]]
<1>1. \A n \in Nat : \E f : Good(f, n)
  <2> DEFINE T == {n \in Nat : \E f : Good(f, n)}
  <2>1. 0 \in T
    <3>1. Good([i \in 0 .. 0 |-> a], 0)
      OBVIOUS
    <3>2. QED
      BY <3>1
  <2>2. ASSUME NEW n \in Nat, n \in T PROVE n + 1 \in T
    <3>1. PICK f : Good(f, n)
      BY <2>2
    <3>2. PICK h : h = [i \in 0 .. n + 1 |-> IF i <= n THEN f[i] ELSE g[n][f[n]]]
      OBVIOUS
    <3>3. f[n] \in V
      BY <3>1
    <3>4. h \in [0 .. n + 1 -> V] /\ h[0] = a
      BY <3>1, <3>2, <3>3
    <3>5. ASSUME NEW i \in 1 .. n + 1 PROVE h[i] = g[i - 1][h[i - 1]]
      <4>1. i - 1 \in 0 .. n /\ h[i - 1] = f[i - 1]
        BY <3>2
      <4>2. CASE i <= n
        BY <3>1, <3>2, <4>1, <4>2
      <4>3. CASE i = n + 1
        <5>1. h[i] = g[n][f[n]] /\ i - 1 = n
          BY <3>2, <4>3
        <5>2. QED
          BY <4>1, <5>1
      <4>4. QED
        BY <4>2, <4>3
    <3>6. Good(h, n + 1)
      BY <3>4, <3>5
    <3>7. QED
      BY <3>6
  <2> HIDE DEF T
  <2>3. Nat \subseteq T
    BY <2>1, <2>2, Induction
  <2>4. QED
    BY <2>3 DEF T
<1>2. ASSUME NEW n \in Nat, NEW m \in Nat, NEW f, NEW h, Good(f, n), Good(h, m),
             NEW k \in Nat, k <= n, k <= m
      PROVE  f[k] = h[k]
  <2> DEFINE T == {i \in Nat : i <= k => f[i] = h[i]}
  <2>1. 0 \in T
    BY <1>2
  <2>2. ASSUME NEW i \in Nat, i \in T PROVE i + 1 \in T
    <3> SUFFICES ASSUME i + 1 <= k PROVE f[i + 1] = h[i + 1]
      OBVIOUS
    <3>1. f[i] = h[i] /\ i + 1 \in 1 .. n /\ i + 1 \in 1 .. m /\ (i + 1) - 1 = i
      BY <1>2, <2>2
    <3>2. f[i + 1] = g[i][f[i]] /\ h[i + 1] = g[i][h[i]]
      BY <1>2, <3>1
    <3>3. QED
      BY <3>1, <3>2
  <2> HIDE DEF T
  <2>3. Nat \subseteq T
    BY <2>1, <2>2, Induction
  <2>4. QED
    BY <2>3 DEF T
<1> DEFINE F(n) == CHOOSE f : Good(f, n)
<1>3. \A n \in Nat : Good(F(n), n)
  BY <1>1
<1> HIDE DEF F
<1>4. PICK f : f = [i \in D |-> F(i)[i]]
  OBVIOUS
<1>5. ASSUME NEW i \in D
      PROVE  f[i] \in V /\ f[i] = IF i = 0 THEN a ELSE g[i - 1][f[i - 1]]
  <2>1. Good(F(i), i) /\ f[i] = F(i)[i]
    BY <1>3, <1>4
  <2>2. f[i] \in V
    BY <2>1
  <2>3. ASSUME i # 0 PROVE f[i] = g[i - 1][f[i - 1]]
    <3>1. i - 1 \in Nat /\ i - 1 \in D /\ i - 1 <= i /\ i \in 1 .. i
      BY <2>3
    <3>2. f[i - 1] = F(i - 1)[i - 1] /\ Good(F(i - 1), i - 1)
      BY <1>3, <1>4, <3>1
    <3>3. F(i - 1)[i - 1] = F(i)[i - 1]
      <4> HIDE DEF Good
      <4>1. i \in Nat /\ i - 1 <= i - 1
        BY <3>1
      <4>2. QED
        BY <1>2, <2>1, <3>1, <3>2, <4>1
    <3>4. QED
      BY <2>1, <3>1, <3>2, <3>3
  <2>4. QED
    BY <2>1, <2>2, <2>3
<1>6. f \in [D -> V] /\ Recursive(f, D, a, g)
  BY <1>4, <1>5 DEF Recursive
<1>7. QED
  BY <1>6

-----------------------------------------------------------------------------
(* Numerals.                                                                *)

\* A number by its last digit and the rest.
LEMMA LastDigit ==
  ASSUME NEW b \in Nat \ {0}, NEW x \in Nat
  PROVE  x \div b \in 0 .. x /\ x % b \in 0 .. b - 1
OBVIOUS

LEMMA FromDigits ==
  ASSUME NEW b \in Nat \ {0}, NEW x \in Nat
  PROVE  (x \div b) * b + (x % b) = x
<1>1. x \div b \in Int /\ x = b * (x \div b) + (x % b)
  OBVIOUS
<1>2. b * (x \div b) = (x \div b) * b
  BY <1>1
<1>3. QED
  BY <1>1, <1>2

\* What the loop has left after each digit.
LEMMA QuotientSteps ==
  ASSUME NEW b \in Nat \ {0}, NEW n \in Nat
  PROVE  /\ Quotients(n, b)[0] = n
         /\ \A i \in Nat : Quotients(n, b)[i] \in 0 .. n /\ Quotients(n, b)[i + 1] = Quotients(n, b)[i] \div b
<1> DEFINE Is(f) == f = [i \in Nat |-> IF i = 0 THEN n ELSE f[i - 1] \div b]
<1>1. \E f : Is(f)
  <2>1. PICK V, D : V = 0 .. n /\ D = Nat
    OBVIOUS
  <2>2. ASSUME NEW v \in V PROVE v \div b \in V
    <3>1. v \in Nat /\ v <= n
      BY <2>1
    <3>2. v \div b \in 0 .. v
      BY <3>1, LastDigit
    <3>3. QED
      BY <2>1, <3>1, <3>2
  <2>3. PICK g : g = [i \in Nat |-> [v \in V |-> v \div b]]
    OBVIOUS
  <2>4. g \in [Nat -> [V -> V]] /\ \A i \in Nat, v \in V : g[i][v] = v \div b
    BY <2>2, <2>3
  <2>5. n \in V /\ D \in SUBSET Nat /\ \A i \in D : 0 .. i \subseteq D
    BY <2>1
  <2>6. PICK f \in [D -> V] : Recursive(f, D, n, g)
    BY <2>4, <2>5, Recursion
  <2>7. ASSUME NEW i \in Nat, i # 0 PROVE g[i - 1][f[i - 1]] = f[i - 1] \div b
    <3>1. i - 1 \in Nat /\ i - 1 \in D /\ i \in D
      BY <2>1, <2>7
    <3>2. f[i - 1] \in V
      BY <2>6, <3>1
    <3>3. QED
      BY <2>4, <3>1, <3>2
  <2>8. f = [i \in Nat |-> IF i = 0 THEN n ELSE f[i - 1] \div b]
    BY <2>1, <2>6, <2>7 DEF Recursive
  <2>9. QED
    BY <2>8
<1>2. Is(Quotients(n, b))
  <2>1. Quotients(n, b) = CHOOSE f : Is(f)
    BY DEF Quotients
  <2>2. QED
    BY <1>1, <2>1
<1>3. Quotients(n, b)[0] = n /\ \A i \in Nat : Quotients(n, b)[i + 1] = Quotients(n, b)[i] \div b
  BY <1>2
<1>4. \A i \in Nat : Quotients(n, b)[i] \in 0 .. n
  <2> DEFINE T == {i \in Nat : Quotients(n, b)[i] \in 0 .. n}
  <2>1. 0 \in T
    BY <1>3
  <2>2. ASSUME NEW i \in Nat, i \in T PROVE i + 1 \in T
    <3>1. PICK x \in 0 .. n : x = Quotients(n, b)[i]
      BY <2>2
    <3>2. Quotients(n, b)[i + 1] = x \div b
      BY <1>3, <3>1
    <3>3. x \in Nat /\ x \div b \in 0 .. x
      BY <3>1, LastDigit
    <3>4. QED
      BY <3>2, <3>3
  <2> HIDE DEF T
  <2>3. Nat \subseteq T
    BY <2>1, <2>2, Induction
  <2>4. QED
    BY <2>3 DEF T
<1>5. QED
  BY <1>3, <1>4

\* A loop that reads the digits of n, the first one first, comes to n.
LEMMA DigitsRead ==
  ASSUME NEW b \in Nat \ {0}, NEW n \in Nat, NEW k \in Nat, Quotients(n, b)[k] = 0,
         NEW f, f[0] = 0,
         \A i \in Nat : i < k => f[i + 1] = f[i] * b + (Quotients(n, b)[k - (i + 1)] % b)
  PROVE  f[k] = n
<1> DEFINE T == {i \in Nat : i <= k => f[i] = Quotients(n, b)[k - i]}
<1>1. 0 \in T
  OBVIOUS
<1>2. ASSUME NEW i \in Nat, i \in T PROVE i + 1 \in T
  <2> SUFFICES ASSUME i + 1 <= k PROVE f[i + 1] = Quotients(n, b)[k - (i + 1)]
    OBVIOUS
  <2>1. PICK j \in Nat : j = k - (i + 1)
    OBVIOUS
  <2>2. j + 1 = k - i /\ i < k /\ i <= k
    BY <2>1
  <2>3. PICK x \in Nat : x = Quotients(n, b)[j]
    <3>1. Quotients(n, b)[j] \in 0 .. n
      BY QuotientSteps
    <3>2. QED
      BY <3>1
  <2>4. f[i] = x \div b
    BY <1>2, <2>1, <2>2, <2>3, QuotientSteps
  <2>5. f[i + 1] = f[i] * b + (x % b)
    BY <2>1, <2>2, <2>3
  <2>6. (x \div b) * b + (x % b) = x
    BY FromDigits
  <2>7. f[i + 1] = x
    BY ONLY <2>4, <2>5, <2>6
  <2>8. QED
    BY <2>1, <2>3, <2>7
<1> HIDE DEF T
<1>3. Nat \subseteq T
  BY <1>1, <1>2, Induction
<1>4. f[k] = Quotients(n, b)[k - k]
  BY <1>3 DEF T
<1>5. k - k = 0
  OBVIOUS
<1>6. QED
  BY <1>4, <1>5, QuotientSteps
=============================================================================
