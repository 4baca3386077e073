------------------------- MODULE SyslogCodec_proofs -------------------------
(***************************************************************************)
(* Rigi_Codec_Syslog gives the collector's application, whatever the cuts, *)
(* every message whose last byte was read, in order and no other, and the  *)
(* collector knows by the first byte how its client frames: for both       *)
(* framings, found or fixed, any radix and any messages that meet          *)
(* SyslogAssumption.                                                       *)
(***************************************************************************)
EXTENDS SyslogCodec, CodecStream_proofs

\* A message with its length or its line end; an empty line is not emitted.
Frames == {[msg |-> Bare(m), frame |-> encode(m), counts |-> Bare(m) # <<>>] : m \in Messages}

\* What the theorems suppose of the constants, S being what a symbol can be.
Sane(S) == /\ Messages \subseteq Seq(S) /\ SP \in S /\ NL \in S
           /\ \A d \in 0 .. Radix - 1 : Digit(d) \in S
           /\ SyslogAssumption

\* A frame with a length of k digits.
OctetFrame(f, k) ==
  LET rest == Quotients(Len(f.msg), Radix) IN
  /\ k \in Nat \ {0} /\ Len(f.msg) \in Nat \ {0} /\ rest[k] = 0
  /\ Len(f.frame) = k + 1 + Len(f.msg)
  /\ \A i \in 1 .. k : f.frame[i] = Digit(rest[k - i] % Radix)
  /\ f.frame[1][2] > 0
  /\ f.frame[k + 1] = SP
  /\ SubSeq(f.frame, k + 1 + 1, Len(f.frame)) = f.msg
  /\ f.counts = TRUE

\* How much of the line w is the message: what is before the line end.
Text(w) == IF Len(w) > 1 /\ w[Len(w) - 1] = CR THEN Len(w) - 2 ELSE Len(w) - 1

\* A frame that is a line.
LineFrame(f) ==
  /\ f.frame[Len(f.frame)] = NL /\ ~IsDigit(f.frame[1])
  /\ \A i \in 1 .. Len(f.frame) - 1 : f.frame[i] # NL
  /\ Text(f.frame) \in Nat /\ Text(f.frame) <= Len(f.frame)
  /\ f.msg = SubSeq(f.frame, 1, Text(f.frame))
  /\ f.counts <=> Text(f.frame) > 0

-----------------------------------------------------------------------------
(* Frames of an octet-counting client.                                      *)

\* The digits of n: the first of them is not 0.
LEMMA DecimalDigits ==
  ASSUME Radix \in Nat \ {0, 1}, NEW n \in Nat \ {0}
  PROVE  \E k \in Nat \ {0} :
           /\ Quotients(n, Radix)[k] = 0 /\ Quotients(n, Radix)[k - 1] % Radix > 0
           /\ Decimal(n) = [i \in 1 .. k |-> Digit(Quotients(n, Radix)[k - i] % Radix)]
<1> DEFINE q == Quotients(n, Radix)
           T == {k \in 1 .. (n + 1) : q[k] = 0}
<1>0. Radix \in Nat \ {0} /\ Radix > 1 /\ n \in Nat
  OBVIOUS
<1>1. q[0] = n /\ \A i \in Nat : q[i] \in Nat /\ q[i + 1] = q[i] \div Radix
  <2>1. q[0] = n /\ \A i \in Nat : q[i] \in 0 .. n /\ q[i + 1] = q[i] \div Radix
    BY <1>0, QuotientSteps
  <2> HIDE DEF q
  <2>2. QED
    BY <2>1
<1>2. ASSUME NEW x \in Nat \ {0} PROVE x \div Radix < x /\ (x \div Radix = 0 => x % Radix = x)
  <2>0. x \in Nat /\ x \div Radix \in Nat /\ x % Radix \in Nat
    BY <1>0, LastDigit
  <2>1. PICK b \in Nat, d \in Nat, r \in Nat : b = Radix /\ d = x \div Radix /\ r = x % Radix
    BY <1>0, <2>0
  <2>2. d * b + r = x /\ b > 1
    BY <1>0, <2>0, <2>1, FromDigits
  <2>3. d > 0 => d * b > d
    BY <2>2
  <2>4. d < x /\ (d = 0 => r = x)
    BY ONLY <2>2, <2>3, d \in Nat, b \in Nat, r \in Nat
  <2>5. QED
    BY <2>1, <2>4
<1>3. q[n + 1] = 0
  <2> DEFINE U == {i \in Nat : q[i] = 0 \/ q[i] + i <= n}
  <2>1. 0 \in U
    BY <1>1
  <2>2. ASSUME NEW i \in Nat, i \in U PROVE i + 1 \in U
    <3>1. PICK x \in Nat : x = q[i] /\ q[i + 1] = x \div Radix
      BY <1>1
    <3>2. CASE x = 0
      <4>1. 0 \div Radix = 0
        OBVIOUS
      <4>2. QED
        BY <3>1, <3>2, <4>1
    <3>3. CASE x # 0
      <4>0. x \in Nat \ {0}
        BY <3>3
      <4>1. x \div Radix < x /\ x \div Radix \in Nat
        <5>1. x \div Radix < x
          BY <1>2, <4>0
        <5>2. x \div Radix \in Nat
          BY <1>0, LastDigit
        <5>3. QED
          BY <5>1, <5>2
      <4>2. x + i <= n
        BY <2>2, <3>1, <3>3
      <4>3. QED
        BY <3>1, <4>1, <4>2
    <3>4. QED
      BY <3>2, <3>3
  <2> HIDE DEF U
  <2>3. Nat \subseteq U
    BY <2>1, <2>2, Induction
  <2>4. n + 1 \in U
    BY <2>3
  <2>5. q[n + 1] = 0 \/ q[n + 1] + (n + 1) <= n
    BY <2>4 DEF U
  <2>6. q[n + 1] \in Nat
    BY <1>1
  <2> HIDE DEF q
  <2>7. QED
    BY <2>5, <2>6
<1>4. PICK k \in T : k = Min(T) /\ \A y \in T : k <= y
  <2>1. n + 1 \in T /\ T \in SUBSET Nat
    BY <1>3
  <2> HIDE DEF T
  <2>2. \E x \in T : \A y \in T : x <= y
    BY <2>1, Least
  <2>3. QED
    BY <2>2 DEF Min
<1>5. k \in Nat \ {0} /\ q[k] = 0 /\ k <= n + 1
  BY <1>4
<1>6. Decimal(n) = [i \in 1 .. k |-> Digit(q[k - i] % Radix)]
  BY <1>4 DEF Decimal
<1>7. q[k - 1] % Radix > 0
  <2>1. PICK j \in Nat : j = k - 1 /\ j + 1 = k
    BY <1>5
  <2>2. PICK x \in Nat : x = q[j] /\ x \div Radix = 0
    BY <1>1, <1>5, <2>1
  <2>3. x # 0
    <3>1. CASE j = 0
      BY <1>1, <2>2, <3>1
    <3>2. CASE j # 0
      <4>1. j \in 1 .. (n + 1) /\ ~(k <= j)
        BY <1>5, <2>1, <3>2
      <4>2. j \notin T
        BY <1>4, <4>1
      <4>3. QED
        BY <2>2, <4>1, <4>2
    <3>3. QED
      BY <3>1, <3>2
  <2>4. x % Radix = x
    BY <1>2, <2>2, <2>3
  <2>5. QED
    BY <2>1, <2>2, <2>3, <2>4
<1>8. QED
  BY <1>5, <1>6, <1>7

\* encode counts octets.
LEMMA OctetFrames ==
  ASSUME NEW S, Sane(S), Sender = "OctetCounting", NEW f \in Frames
  PROVE  f.frame \in Seq(S) /\ \E k : OctetFrame(f, k)
<1>1. PICK m \in Messages : f = [msg |-> Bare(m), frame |-> encode(m), counts |-> Bare(m) # <<>>]
  BY DEF Frames
<1>2. m \in Seq(S) /\ Len(m) \in Nat \ {0} /\ m # <<>> /\ Radix \in Nat \ {0, 1} /\ SP \in S
  BY EmptySeq DEF Sane, SyslogAssumption
<1>3. f.msg = m /\ f.counts = TRUE /\ f.frame = Decimal(Len(m)) \o <<SP>> \o m
  BY <1>1, <1>2 DEF Bare, encode
<1>4. PICK k \in Nat \ {0} :
        /\ Quotients(Len(m), Radix)[k] = 0 /\ Quotients(Len(m), Radix)[k - 1] % Radix > 0
        /\ Decimal(Len(m)) = [i \in 1 .. k |-> Digit(Quotients(Len(m), Radix)[k - i] % Radix)]
  BY <1>2, DecimalDigits
<1>5. PICK h : h = Decimal(Len(m))
  OBVIOUS
<1>6. h \in Seq(S) /\ Len(h) = k
  <2>1. ASSUME NEW i \in 1 .. k PROVE h[i] \in S
    <3>1. PICK j \in Nat : j = k - i
      BY <1>4
    <3>2. Quotients(Len(m), Radix)[j] \in 0 .. Len(m)
      BY <1>2, QuotientSteps
    <3>3. PICK x \in Nat : x = Quotients(Len(m), Radix)[j]
      BY <3>2
    <3>4. x % Radix \in 0 .. Radix - 1
      BY <1>2, LastDigit
    <3>5. h[i] = Digit(x % Radix)
      BY <1>4, <1>5, <3>1, <3>3
    <3>6. QED
      BY <3>4, <3>5 DEF Sane
  <2>2. h \in [1 .. k -> S]
    BY <1>4, <1>5, <2>1
  <2>3. h \in Seq(S) /\ DOMAIN h = 1 .. k
    BY <1>4, <2>2, IsASeq
  <2>4. DOMAIN h = 1 .. Len(h) /\ Len(h) \in Nat
    BY <2>3, LenProperties
  <2>5. QED
    BY <1>4, <2>3, <2>4
<1>7. PICK g : g = h \o <<SP>>
  OBVIOUS
<1>8. g \in Seq(S) /\ Len(g) = k + 1 /\ g[k + 1] = SP /\ \A i \in 1 .. k : g[i] = h[i]
  <2>1. <<SP>> \in Seq(S) /\ Len(<<SP>>) = 1 /\ <<SP>>[1] = SP
    BY <1>2
  <2>2. PICK t : t = <<SP>>
    OBVIOUS
  <2>3. /\ g \in Seq(S) /\ Len(g) = k + 1
        /\ \A i \in 1 .. k + 1 : g[i] = IF i <= k THEN h[i] ELSE t[i - k]
    BY <1>6, <1>7, <2>1, <2>2, ConcatProperties
  <2>4. k + 1 \in 1 .. k + 1 /\ ~(k + 1 <= k) /\ (k + 1) - k = 1
    BY <1>4
  <2>5. g[k + 1] = SP
    BY <2>1, <2>2, <2>3, <2>4
  <2>6. QED
    BY <1>4, <2>3, <2>5
<1>9. PICK e : e = f.frame
  OBVIOUS
<1>10. /\ e \in Seq(S) /\ Len(e) = k + 1 + Len(m) /\ e[k + 1] = SP
       /\ \A i \in 1 .. k : e[i] = h[i]
       /\ \A i \in 1 .. Len(m) : e[k + 1 + i] = m[i]
  <2>0. e = g \o m
    BY <1>3, <1>5, <1>7, <1>9
  <2>1. /\ e \in Seq(S) /\ Len(e) = k + 1 + Len(m)
        /\ \A i \in 1 .. k + 1 + Len(m) : e[i] = IF i <= k + 1 THEN g[i] ELSE m[i - (k + 1)]
    <3>1. /\ e \in Seq(S) /\ Len(e) = Len(g) + Len(m)
          /\ \A i \in 1 .. Len(g) + Len(m) : e[i] = IF i <= Len(g) THEN g[i] ELSE m[i - Len(g)]
      BY <1>2, <1>8, <2>0, ConcatProperties
    <3>2. Len(g) = k + 1
      BY <1>8
    <3>3. QED
      BY <3>1, <3>2
  <2>2. ASSUME NEW i \in 1 .. Len(m) PROVE e[k + 1 + i] = m[i]
    <3>1. PICK j \in Nat : j = k + 1 + i
      BY <1>4
    <3>2. j \in 1 .. k + 1 + Len(m) /\ ~(j <= k + 1) /\ j - (k + 1) = i
      BY <1>2, <1>4, <3>1
    <3>3. QED
      BY <2>1, <3>1, <3>2
  <2>3. QED
    BY <1>2, <1>4, <1>8, <2>1, <2>2
<1>11. SubSeq(e, k + 1 + 1, Len(e)) = m
  <2>0. PICK a \in Int, b \in Int : a = k + 1 + 1 /\ b = Len(e)
    BY <1>2, <1>4, <1>10
  <2>1. PICK t : t = SubSeq(e, a, b)
    OBVIOUS
  <2>2. \A i \in a .. b : e[i] \in S
    <3>1. \A i \in 1 .. Len(e) : e[i] \in S
      BY <1>10, ElementOfSeq
    <3>2. QED
      BY <1>2, <1>4, <2>0, <2>1, <3>1
  <2>3. /\ t \in Seq(S) /\ Len(t) = (IF a <= b THEN b - a + 1 ELSE 0)
        /\ \A i \in 1 .. b - a + 1 : t[i] = e[a + i - 1]
    BY <2>0, <2>1, <2>2, SubSeqProperties
  <2>4. b - a + 1 = Len(m) /\ a <= b
    BY <1>2, <1>4, <1>10, <2>0, <2>1
  <2>5. ASSUME NEW i \in 1 .. Len(m) PROVE t[i] = m[i]
    <3>1. a + i - 1 = k + 1 + i
      BY <1>4, <2>0, <2>1
    <3>2. QED
      BY <1>10, <2>3, <2>4, <3>1
  <2>6. QED
    BY <1>2, <2>0, <2>1, <2>3, <2>4, <2>5, SeqEqual
<1>12. \A i \in 1 .. k : e[i] = Digit(Quotients(Len(m), Radix)[k - i] % Radix)
  BY <1>4, <1>5, <1>10
<1>13. e[1][2] > 0
  <2>1. e[1] = Digit(Quotients(Len(m), Radix)[k - 1] % Radix)
    BY <1>4, <1>12
  <2>2. PICK x : x = Quotients(Len(m), Radix)[k - 1] % Radix
    OBVIOUS
  <2>3. QED
    BY <1>4, <2>1, <2>2 DEF Digit
<1>14. OctetFrame(f, k)
  BY <1>2, <1>3, <1>4, <1>9, <1>10, <1>11, <1>12, <1>13 DEF OctetFrame
<1>15. QED
  BY <1>9, <1>10, <1>14

-----------------------------------------------------------------------------
(* Frames of a client that sends lines.                                     *)

\* What DropLast leaves of a line without its line feed.
LEMMA ReturnDropped ==
  ASSUME NEW S, NEW t \in Seq(S), NEW w \in Seq(S), Len(w) = Len(t) + 1,
         \A i \in 1 .. Len(t) : t[i] = w[i]
  PROVE  /\ Text(w) \in Nat /\ Text(w) <= Len(w)
         /\ DropLast(t, CR) = SubSeq(w, 1, Text(w))
         /\ DropLast(t, CR) # <<>> <=> Text(w) > 0
<1>1. Len(t) \in Nat /\ (t # <<>> <=> Len(t) > 0)
  BY LenProperties, EmptySeq
<1>2. PICK n \in Nat : n = Text(w) /\ n <= Len(t)
                       /\ n = IF t # <<>> /\ Last(t) = CR THEN Len(t) - 1 ELSE Len(t)
  <2>1. t # <<>> => t[Len(t)] = w[Len(w) - 1]
    BY <1>1
  <2>2. Len(w) > 1 <=> t # <<>>
    BY <1>1
  <2>3. CASE t # <<>> /\ Last(t) = CR
    <3>1. Text(w) = Len(w) - 2
      BY <1>1, <2>1, <2>2, <2>3 DEF Text, Last
    <3>2. Text(w) \in Nat /\ Text(w) = Len(t) - 1 /\ Text(w) <= Len(t)
      BY <1>1, <2>3, <3>1
    <3>3. QED
      BY <2>3, <3>2
  <2>4. CASE ~(t # <<>> /\ Last(t) = CR)
    BY <1>1, <2>1, <2>2, <2>4 DEF Text, Last
  <2>5. QED
    BY <2>3, <2>4
<1>3. DropLast(t, CR) = SubSeq(t, 1, n)
  <2>1. CASE t # <<>> /\ Last(t) = CR
    BY <1>2, <2>1 DEF DropLast, Front
  <2>2. CASE ~(t # <<>> /\ Last(t) = CR)
    <3>1. DropLast(t, CR) = t /\ n = Len(t)
      BY <1>2, <2>2 DEF DropLast
    <3>2. SubSeq(t, 1, Len(t)) = t
      BY SubSeqFull
    <3>3. QED
      BY <3>1, <3>2
  <2>3. QED
    BY <2>1, <2>2
<1>4. SubSeq(t, 1, n) = SubSeq(w, 1, n)
  <2>1. n \in Int /\ 1 \in Int /\ 1 <= 1 /\ n <= Len(t) /\ n <= Len(w)
    BY <1>1, <1>2
  <2>2. \A k \in 1 .. n : t[k] = w[k]
    BY <1>1, <1>2
  <2>3. QED
    BY <2>1, <2>2, FrontOfFrame
<1>5. SubSeq(t, 1, n) # <<>> <=> n > 0
  <2>1. \A i \in 1 .. n : t[i] \in S
    BY <1>1, <1>2, ElementOfSeq
  <2>2. PICK u : u = SubSeq(t, 1, n)
    OBVIOUS
  <2>3. u \in Seq(S) /\ Len(u) = IF 1 <= n THEN n - 1 + 1 ELSE 0
    <3>1. 1 \in Int /\ n \in Int
      OBVIOUS
    <3>2. QED
      BY <2>1, <2>2, <3>1, SubSeqProperties
  <2>4. u # <<>> <=> Len(u) > 0
    BY <2>3, EmptySeq
  <2>5. QED
    BY <2>2, <2>3, <2>4
<1>6. n <= Len(w)
  BY <1>1, <1>2
<1>7. QED
  BY <1>2, <1>3, <1>4, <1>5, <1>6

\* encode sends lines.
LEMMA LineFrames ==
  ASSUME NEW S, Sane(S), Sender = "Newline", NEW f \in Frames
  PROVE  f.frame \in Seq(S) /\ f.frame # <<>> /\ LineFrame(f)
<1>1. PICK m \in Messages : f = [msg |-> Bare(m), frame |-> encode(m), counts |-> Bare(m) # <<>>]
  BY DEF Frames
<1>2. /\ m \in Seq(S) /\ Len(m) \in Nat \ {0} /\ m # <<>> /\ NL \in S /\ ~IsDigit(m[1])
      /\ \A i \in 1 .. Len(m) - 1 : m[i] # NL
  <2>1. m \in Seq(S) /\ m # <<>> /\ NL \in S /\ ~IsDigit(m[1])
    BY DEF Sane, SyslogAssumption
  <2>2. \A i \in 1 .. Len(m) - 1 : m[i] # NL
    BY DEF Sane, SyslogAssumption
  <2>3. QED
    BY <2>1, <2>2, EmptySeq
<1>3. PICK w, t : w = f.frame /\ t = DropLast(m, NL)
  OBVIOUS
<1>4. f.msg = DropLast(t, CR) /\ (f.counts <=> DropLast(t, CR) # <<>>)
      /\ w = IF Last(m) = NL THEN m ELSE Append(m, NL)
  BY <1>1, <1>3 DEF Bare, encode
<1>5. /\ t \in Seq(S) /\ w \in Seq(S) /\ Len(w) = Len(t) + 1 /\ Len(t) \in Nat
      /\ \A i \in 1 .. Len(t) : t[i] = w[i] /\ t[i] # NL
      /\ w[Len(w)] = NL /\ w[1] \in {m[1], NL}
  <2>1. CASE Last(m) = NL
    <3>1. w = m /\ t = SubSeq(m, 1, Len(m) - 1)
      BY <1>2, <1>3, <1>4, <2>1 DEF DropLast, Front
    <3>2. PICK n \in Nat : n = Len(m) - 1
      BY <1>2
    <3>3. \A i \in 1 .. n : m[i] \in S
      BY <1>2, <3>2, ElementOfSeq
    <3>4. t \in Seq(S) /\ Len(t) = (IF 1 <= n THEN n - 1 + 1 ELSE 0)
          /\ \A i \in 1 .. n - 1 + 1 : t[i] = m[1 + i - 1]
      <4>1. 1 \in Int /\ n \in Int
        OBVIOUS
      <4>2. QED
        BY <3>1, <3>2, <3>3, <4>1, SubSeqProperties
    <3>5. Len(t) = n /\ \A i \in 1 .. n : t[i] = m[i]
      <4>1. \A i \in 1 .. n : 1 + i - 1 = i /\ n - 1 + 1 = n
        OBVIOUS
      <4>2. \A i \in 1 .. n : t[i] = m[i]
        BY <3>4, <4>1
      <4>3. Len(t) = n
        BY <3>4
      <4>4. QED
        BY <4>2, <4>3
    <3>6. QED
      BY <1>2, <2>1, <3>1, <3>2, <3>4, <3>5 DEF Last
  <2>2. CASE Last(m) # NL
    <3>1. w = Append(m, NL) /\ t = m
      BY <1>3, <1>4, <2>2 DEF DropLast
    <3>2. /\ w \in Seq(S) /\ Len(w) = Len(m) + 1 /\ w[Len(m) + 1] = NL
          /\ \A i \in 1 .. Len(m) : w[i] = m[i]
      BY <1>2, <3>1, AppendProperties
    <3>3. \A i \in 1 .. Len(m) : m[i] # NL
      BY <1>2, <2>2 DEF Last
    <3>4. 1 \in 1 .. Len(m)
      BY <1>2
    <3>5. QED
      BY <1>2, <3>1, <3>2, <3>3, <3>4
  <2>3. QED
    BY <2>1, <2>2
<1>6. /\ Text(w) \in Nat /\ Text(w) <= Len(w) /\ f.msg = SubSeq(w, 1, Text(w))
      /\ f.counts <=> Text(w) > 0
  BY <1>4, <1>5, ReturnDropped
<1>7. ~IsDigit(w[1])
  BY <1>2, <1>5 DEF IsDigit, NL
<1>8. \A i \in 1 .. Len(w) - 1 : w[i] # NL
  BY <1>5
<1>9. w # <<>>
  BY <1>5, EmptySeq
<1>10. LineFrame(f)
  BY <1>3, <1>5, <1>6, <1>7, <1>8 DEF LineFrame
<1>11. QED
  BY <1>3, <1>5, <1>9, <1>10
LEMMA SyslogFrames ==
  ASSUME NEW S, Sane(S)
  PROVE  FramesOf(S, Frames)
<1>1. ASSUME NEW f \in Frames
      PROVE  f.frame \in Seq(S) /\ f.frame # <<>> /\ f.counts \in BOOLEAN
  <2>1. CASE Sender = "OctetCounting"
    <3>1. PICK k : f.frame \in Seq(S) /\ OctetFrame(f, k)
      BY <2>1, OctetFrames
    <3>2. Len(f.frame) = k + 1 + Len(f.msg) /\ k \in Nat /\ Len(f.msg) \in Nat /\ f.counts = TRUE
      BY <3>1 DEF OctetFrame
    <3>3. Len(f.frame) # 0
      <4>1. ASSUME NEW j \in Nat, NEW n \in Nat PROVE j + 1 + n # 0
        OBVIOUS
      <4>2. QED
        BY <3>2, <4>1
    <3>4. f.frame # <<>>
      BY <3>3, EmptySeq
    <3>5. QED
      BY <3>1, <3>2, <3>4
  <2>2. CASE Sender = "Newline"
    <3>1. f.frame \in Seq(S) /\ f.frame # <<>>
      BY <2>2, LineFrames
    <3>2. PICK m \in Messages :
            f = [msg |-> Bare(m), frame |-> encode(m), counts |-> Bare(m) # <<>>]
      BY DEF Frames
    <3>3. PICK b \in BOOLEAN : b = (Bare(m) # <<>>)
      OBVIOUS
    <3>4. f.counts = b
      BY <3>2, <3>3
    <3>5. QED
      BY <3>1, <3>4
  <2>3. QED
    BY <2>1, <2>2 DEF Sane, SyslogAssumption
<1>2. QED
  BY <1>1 DEF FramesOf

-----------------------------------------------------------------------------
(* What decode finds in its buffer.                                         *)

\* The buffer begins as f does.
Begins(f) == \A k \in 1 .. Len(f.frame) : k <= Len(buf) => buf[k] = f.frame[k]

LEMMA PlaceFound ==
  ASSUME NEW S, buf \in Seq(S), NEW x, NEW n \in 1 .. Len(buf), buf[n] = x,
         \A i \in 1 .. n - 1 : buf[i] # x
  PROVE  FirstPlace(x) = n
<1> DEFINE P == {i \in DOMAIN buf : buf[i] = x}
<1>1. DOMAIN buf = 1 .. Len(buf) /\ Len(buf) \in Nat
  BY LenProperties
<1>2. n \in P /\ \A y \in P : n <= y
  BY <1>1
<1>3. \A y \in P : y \in Nat
  BY <1>1
<1>4. FirstPlace(x) = Min(P)
  BY <1>2 DEF FirstPlace
<1> HIDE DEF P
<1>5. \A z \in P : (\A y \in P : z <= y) => z = n
  BY <1>2, <1>3
<1>6. QED
  BY <1>2, <1>4, <1>5 DEF Min

LEMMA PlaceMissing ==
  ASSUME NEW S, buf \in Seq(S), NEW x, \A i \in 1 .. Len(buf) : buf[i] # x
  PROVE  FirstPlace(x) = 0
BY LenProperties DEF FirstPlace

\* std::stoul reads back the digits of the length.
LEMMA LengthRead ==
  ASSUME Radix \in Nat \ {0}, NEW k \in Nat, NEW n \in Nat, Quotients(n, Radix)[k] = 0,
         \A i \in 1 .. k : buf[i] = Digit(Quotients(n, Radix)[k - i] % Radix)
  PROVE  LengthBefore(k + 1) = n
<1> DEFINE D == 0 .. (k + 1) - 1
           Is(f) == f = [i \in D |-> IF i = 0 THEN 0 ELSE f[i - 1] * Radix + buf[i][2]]
<1>1. D = 0 .. k /\ (k + 1) - 1 = k
  OBVIOUS
<1>2. ASSUME NEW i \in 1 .. k
      PROVE  buf[i][2] = Quotients(n, Radix)[k - i] % Radix /\ buf[i][2] \in Nat
  <2>1. PICK j \in Nat : j = k - i
    OBVIOUS
  <2>2. Quotients(n, Radix)[j] \in 0 .. n
    BY QuotientSteps
  <2>3. PICK x \in Nat : x = Quotients(n, Radix)[j]
    BY <2>2
  <2>4. x % Radix \in Nat
    BY LastDigit
  <2>5. PICK y : y = x % Radix
    OBVIOUS
  <2>6. buf[i] = Digit(y)
    BY <2>1, <2>3, <2>5
  <2>7. QED
    BY <2>1, <2>3, <2>4, <2>5, <2>6 DEF Digit
<1>3. \E f : Is(f)
  <2>1. PICK E : E = D
    OBVIOUS
  <2>2. PICK g : g = [i \in Nat |-> [v \in Nat |-> IF i < k THEN v * Radix + buf[i + 1][2] ELSE 0]]
    OBVIOUS
  <2>3. g \in [Nat -> [Nat -> Nat]]
    <3>1. ASSUME NEW i \in Nat, NEW v \in Nat, i < k PROVE v * Radix + buf[i + 1][2] \in Nat
      <4>1. i + 1 \in 1 .. k
        BY <3>1
      <4>2. PICK y \in Nat : y = buf[i + 1][2]
        BY <1>2, <4>1
      <4>3. PICK u \in Nat : u = v * Radix
        OBVIOUS
      <4>4. QED
        BY <4>2, <4>3
    <3>2. QED
      BY <2>2, <3>1
  <2>4. 0 \in Nat /\ E \in SUBSET Nat /\ \A i \in E : 0 .. i \subseteq E
    BY <1>1, <2>1
  <2>5. PICK f \in [E -> Nat] : Recursive(f, E, 0, g)
    BY <2>3, <2>4, Recursion
  <2>6. ASSUME NEW i \in D, i # 0 PROVE g[i - 1][f[i - 1]] = f[i - 1] * Radix + buf[i][2]
    <3>1. PICK j \in Nat : j = i - 1 /\ j < k /\ j \in E /\ i = j + 1
      BY <1>1, <2>1, <2>6
    <3>2. PICK v \in Nat : v = f[j]
      BY <2>5, <3>1
    <3>3. g[j][v] = v * Radix + buf[j + 1][2]
      BY <2>2, <3>1
    <3>4. QED
      BY <3>1, <3>2, <3>3
  <2>7. f = [i \in D |-> IF i = 0 THEN 0 ELSE f[i - 1] * Radix + buf[i][2]]
    <3>1. \A i \in D : f[i] = IF i = 0 THEN 0 ELSE f[i - 1] * Radix + buf[i][2]
      BY <2>1, <2>5, <2>6, Zenon DEF Recursive
    <3>2. f \in [D -> Nat]
      BY <2>1, <2>5
    <3>3. QED
      BY <3>1, <3>2, Zenon
  <2>8. QED
    BY <2>7
<1>4. PICK f : Is(f) /\ LengthBefore(k + 1) = f[k]
  <2>1. LengthBefore(k + 1) = (CHOOSE f : Is(f))[(k + 1) - 1]
    BY DEF LengthBefore
  <2>2. QED
    BY <1>1, <1>3, <2>1
<1>5. f[0] = 0
  BY <1>1, <1>4
<1>6. ASSUME NEW i \in Nat, i < k
      PROVE  f[i + 1] = f[i] * Radix + (Quotients(n, Radix)[k - (i + 1)] % Radix)
  <2>1. i + 1 \in D /\ i + 1 \in 1 .. k /\ (i + 1) - 1 = i /\ i + 1 # 0
    BY <1>1, <1>6
  <2>2. PICK j : j = i + 1
    OBVIOUS
  <2>3. f[j] = f[j - 1] * Radix + buf[j][2]
    BY <1>4, <2>1, <2>2
  <2>4. buf[j][2] = Quotients(n, Radix)[k - j] % Radix
    BY <1>2, <2>1, <2>2
  <2>5. QED
    BY <2>1, <2>2, <2>3, <2>4
<1> HIDE DEF Is
<1>7. f[k] = n
  BY <1>5, <1>6, DigitsRead
<1>8. QED
  BY <1>4, <1>7

\* A frame with its length: the first space is the one behind the digits, and they are its length.
LEMMA OctetFound ==
  ASSUME NEW S, Sane(S), NEW f, NEW k, OctetFrame(f, k), buf \in Seq(S), Len(buf) # 0, Begins(f)
  PROVE  /\ ~BadLength(FirstPlace(SP))
         /\ Whole(FirstPlace(SP)) <=> Len(buf) >= Len(f.frame)
         /\ Whole(FirstPlace(SP)) => /\ OctetEnd(FirstPlace(SP)) = Len(f.frame)
                                     /\ FirstPlace(SP) + 1 = k + 1 + 1
         /\ IsDigit(buf[1]) /\ buf[1][2] > 0
<1>1. /\ k \in Nat \ {0} /\ Len(f.msg) \in Nat \ {0} /\ Quotients(Len(f.msg), Radix)[k] = 0
      /\ Len(f.frame) = k + 1 + Len(f.msg) /\ f.frame[k + 1] = SP
      /\ \A i \in 1 .. k : f.frame[i] = Digit(Quotients(Len(f.msg), Radix)[k - i] % Radix)
      /\ f.frame[1][2] > 0
  BY DEF OctetFrame
<1>0. k \in Nat \ {0}
  BY <1>1
<1>2. Len(buf) \in Nat \ {0} /\ Radix \in Nat \ {0}
  BY LenProperties DEF Sane, SyslogAssumption
<1>3. PICK n \in Nat \ {0} : n = Len(f.msg) /\ Len(f.frame) = k + 1 + n
  BY <1>1
<1>4. \A i \in 1 .. k + 1 + n : i <= Len(buf) => buf[i] = f.frame[i]
  BY <1>3 DEF Begins
<1>5. ASSUME NEW i \in 1 .. k PROVE IsDigit(f.frame[i]) /\ f.frame[i] # SP
  BY <1>1 DEF IsDigit, Digit, SP
<1>6. IsDigit(buf[1]) /\ buf[1][2] > 0
  <2>1. 1 \in 1 .. k /\ 1 \in 1 .. k + 1 + n /\ 1 <= Len(buf)
    BY <1>1, <1>2
  <2>2. buf[1] = f.frame[1]
    BY <1>4, <2>1
  <2>3. QED
    BY <1>1, <1>5, <2>1, <2>2
<1>7. CASE Len(buf) <= k
  <2>1. \A i \in 1 .. Len(buf) : buf[i] # SP
    <3>1. ASSUME NEW i \in 1 .. Len(buf) PROVE buf[i] # SP
      <4>1. i \in 1 .. k /\ i \in 1 .. k + 1 + n /\ i <= Len(buf)
        BY <1>2, <1>7, <1>0
      <4>2. QED
        BY <1>4, <1>5, <4>1
    <3>2. QED
      BY <3>1
  <2>2. FirstPlace(SP) = 0
    BY <2>1, PlaceMissing
  <2>3. ~(Len(buf) >= Len(f.frame))
    <3>1. Len(buf) < k + 1 + n
      BY <1>2, <1>7, <1>0
    <3>2. ~(Len(buf) >= k + 1 + n)
      BY <1>2, <1>0, <3>1
    <3>3. QED
      BY <1>3, <3>2
  <2>4. QED
    BY <1>6, <2>2, <2>3 DEF BadLength, Whole
<1>8. CASE Len(buf) >= k + 1
  <2>1. PICK p \in 1 .. Len(buf) : p = k + 1
    BY <1>2, <1>8, <1>0
  <2>2. FirstPlace(SP) = p
    <3>1. p \in 1 .. k + 1 + n /\ p <= Len(buf)
      BY <1>2, <2>1, <1>0
    <3>2. buf[p] = SP
      BY <1>1, <1>4, <2>1, <3>1
    <3>3. ASSUME NEW i \in 1 .. p - 1 PROVE buf[i] # SP
      <4>1. i \in 1 .. k /\ i \in 1 .. k + 1 + n /\ i <= Len(buf)
        BY <1>2, <2>1, <1>0
      <4>2. QED
        BY <1>4, <1>5, <4>1
    <3>4. QED
      BY <3>2, <3>3, PlaceFound
  <2>3. LengthBefore(k + 1) = n
    <3>1. ASSUME NEW i \in 1 .. k
          PROVE  buf[i] = Digit(Quotients(n, Radix)[k - i] % Radix)
      <4>1. i \in 1 .. k + 1 + n /\ i <= Len(buf)
        BY <1>2, <1>8, <1>0
      <4>2. QED
        BY <1>1, <1>3, <1>4, <4>1
    <3>2. k \in Nat /\ n \in Nat /\ Quotients(n, Radix)[k] = 0
      BY <1>1, <1>3
    <3>3. QED
      BY <1>2, <3>1, <3>2, LengthRead
  <2>4. OctetEnd(FirstPlace(SP)) = Len(f.frame) /\ FirstPlace(SP) + 1 = k + 1 + 1
    BY <1>3, <2>1, <2>2, <2>3 DEF OctetEnd
  <2>5. ~BadLength(FirstPlace(SP)) /\ FirstPlace(SP) > 0
    BY <1>6, <2>1, <2>2 DEF BadLength
  <2>6. Whole(FirstPlace(SP)) <=> Len(buf) >= Len(f.frame)
    BY <2>4, <2>5 DEF Whole
  <2>7. QED
    BY <1>6, <2>4, <2>5, <2>6
<1>9. QED
  BY <1>2, <1>7, <1>8, <1>0

\* A line: the first line feed is the one at its end.
LEMMA LineFound ==
  ASSUME NEW S, NEW f, LineFrame(f), f.frame \in Seq(S), f.frame # <<>>,
         buf \in Seq(S), Len(buf) # 0, Begins(f)
  PROVE  /\ FirstPlace(NL) = IF Len(buf) >= Len(f.frame) THEN Len(f.frame) ELSE 0
         /\ Len(buf) >= Len(f.frame) => LineEnd(FirstPlace(NL)) = Text(f.frame)
         /\ ~IsDigit(buf[1])
<1>1. /\ f.frame[Len(f.frame)] = NL /\ ~IsDigit(f.frame[1])
      /\ \A i \in 1 .. Len(f.frame) - 1 : f.frame[i] # NL
  BY DEF LineFrame
<1>2. PICK n \in Nat \ {0} : n = Len(f.frame)
  BY EmptySeq
<1>3. Len(buf) \in Nat \ {0}
  BY LenProperties
<1>4. \A i \in 1 .. n : i <= Len(buf) => buf[i] = f.frame[i]
  BY <1>2 DEF Begins
<1>5. ~IsDigit(buf[1])
  <2>1. 1 \in 1 .. n /\ 1 <= Len(buf)
    BY <1>3
  <2>2. QED
    BY <1>1, <1>4, <2>1
<1>6. CASE Len(buf) >= n
  <2>1. n \in 1 .. Len(buf) /\ n \in 1 .. n
    BY <1>3, <1>6
  <2>2. buf[n] = NL
    BY <1>1, <1>2, <1>4, <1>6, <2>1
  <2>3. ASSUME NEW i \in 1 .. n - 1 PROVE buf[i] # NL
    <3>1. i \in 1 .. n /\ i <= Len(buf)
      BY <1>3, <1>6
    <3>2. QED
      BY <1>1, <1>2, <1>4, <3>1
  <2>4. FirstPlace(NL) = n
    BY <2>1, <2>2, <2>3, PlaceFound
  <2>5. n > 1 => buf[n - 1] = f.frame[n - 1]
    <3>1. n > 1 => n - 1 \in 1 .. n /\ n - 1 <= Len(buf)
      BY <1>3, <1>6
    <3>2. QED
      BY <1>4, <3>1
  <2>6. LineEnd(n) = Text(f.frame)
    BY <1>2, <2>5 DEF LineEnd, Text
  <2>7. QED
    BY <1>2, <1>5, <1>6, <2>4, <2>6
<1>7. CASE ~(Len(buf) >= n)
  <2>1. ASSUME NEW i \in 1 .. Len(buf) PROVE buf[i] # NL
    <3>1. i \in 1 .. n - 1 /\ i \in 1 .. n /\ i <= Len(buf)
      BY <1>3, <1>7
    <3>2. QED
      BY <1>1, <1>2, <1>4, <3>1
  <2>2. FirstPlace(NL) = 0
    BY <2>1, PlaceMissing
  <2>3. QED
    BY <1>2, <1>5, <1>7, <2>2
<1>8. QED
  BY <1>6, <1>7

-----------------------------------------------------------------------------
(* The invariant and its steps.                                             *)

\* The collector knows how its client frames as soon as decode has looked at a first byte, and
\* decode looks at one whenever it was given any.
FramingInv ==
  /\ octet_mode \in BOOLEAN /\ detected \in BOOLEAN
  /\ detected => (octet_mode <=> Sender = "OctetCounting")
  /\ ~detected => IF decoding THEN buf # <<>> ELSE position = 0

Inv(S) == StreamInv(S, Frames) /\ FramingInv

\* The first frame in the buffer, of either kind.
LEMMA FrontFrame ==
  ASSUME NEW S, Sane(S), StreamInv(S, Frames), buf # <<>>, NEW cuts, Cutting(Frames, cuts)
  PROVE  \E f \in Frames :
           /\ Tile(f, Start, cuts) /\ Begins(f) /\ f.frame \in Seq(S) /\ f.frame # <<>>
           /\ Sender = "OctetCounting" => \E k : OctetFrame(f, k)
           /\ Sender = "Newline" => LineFrame(f)
<1>1. FramesOf(S, Frames) /\ buf \in Seq(S) /\ Len(buf) # 0
  BY SyslogFrames, EmptySeq DEF StreamInv, StreamType
<1>2. PICK f \in Frames : Tile(f, Start, cuts) /\ Begins(f)
  BY <1>1, FirstFrame DEF Begins
<1>3. f.frame \in Seq(S) /\ f.frame # <<>>
  BY <1>1 DEF FramesOf
<1>4. Sender = "OctetCounting" => \E k : OctetFrame(f, k)
  BY OctetFrames
<1>5. Sender = "Newline" => LineFrame(f)
  BY LineFrames
<1>6. QED
  BY <1>2, <1>3, <1>4, <1>5

\* Detection finds the client's framing, at the first byte as at any later one.
LEMMA Detects ==
  ASSUME NEW S, Sane(S), Inv(S), buf # <<>>
  PROVE  Detect <=> Sender = "OctetCounting"
<1>1. PICK cuts : Cutting(Frames, cuts)
  BY DEF Inv, StreamInv
<1>2. PICK f \in Frames :
        /\ Begins(f) /\ f.frame \in Seq(S) /\ f.frame # <<>>
        /\ Sender = "OctetCounting" => \E k : OctetFrame(f, k)
        /\ Sender = "Newline" => LineFrame(f)
  BY <1>1, FrontFrame DEF Inv
<1>3. buf \in Seq(S) /\ Len(buf) # 0
  BY EmptySeq DEF Inv, StreamInv, StreamType
<1>4. Sender \in {"Newline", "OctetCounting"} /\ Framing \in {Sender, "Auto"}
  BY DEF Sane, SyslogAssumption
<1>5. CASE detected
  BY <1>5 DEF Detect, Inv, FramingInv
<1>6. CASE ~detected /\ Sender = "OctetCounting"
  <2>1. IsDigit(buf[1]) /\ buf[1][2] > 0
    BY <1>2, <1>3, <1>6, OctetFound
  <2>2. QED
    BY <1>4, <1>6, <2>1 DEF Detect
<1>7. CASE ~detected /\ Sender = "Newline"
  <2>1. ~IsDigit(buf[1])
    BY <1>2, <1>3, <1>7, LineFound
  <2>2. QED
    BY <1>4, <1>7, <2>1 DEF Detect
<1>8. QED
  BY <1>4, <1>5, <1>6, <1>7

\* What an iteration remembers is right.
LEMMA Remembers ==
  ASSUME NEW S, Sane(S), Inv(S), buf # <<>>, Remember
  PROVE  FramingInv'
<1>1. Detect <=> Sender = "OctetCounting"
  BY Detects
<1>2. Detect \in BOOLEAN
  BY DEF Detect, Inv, FramingInv
<1>3. octet_mode' = Detect /\ detected' = TRUE
  BY DEF Remember
<1>4. octet_mode' \in BOOLEAN /\ detected' \in BOOLEAN /\ detected'
  BY <1>2, <1>3
<1>5. octet_mode' <=> Sender = "OctetCounting"
  BY <1>1, <1>3
<1>6. QED
  BY <1>4, <1>5 DEF FramingInv

LEMMA OctetKeeps ==
  ASSUME NEW S, Sane(S), Inv(S), DecodeOctet
  PROVE  StreamInv(S, Frames)'
<1>1. PICK cuts : Cutting(Frames, cuts)
  BY DEF Inv, StreamInv
<1>2. buf # <<>> /\ Sender = "OctetCounting" /\ FramesOf(S, Frames) /\ buf \in Seq(S)
  BY Detects, SyslogFrames DEF DecodeOctet, Inv, StreamInv, StreamType
<1>3. PICK f \in Frames : /\ Tile(f, Start, cuts) /\ Begins(f) /\ f.frame \in Seq(S)
                          /\ \E k : OctetFrame(f, k)
  BY <1>1, <1>2, FrontFrame DEF Inv
<1>4. PICK k : OctetFrame(f, k)
  BY <1>3
<1>5. /\ Len(buf) >= Len(f.frame) /\ OctetEnd(FirstPlace(SP)) = Len(f.frame)
      /\ FirstPlace(SP) + 1 = k + 1 + 1
  <2>1. Whole(FirstPlace(SP)) /\ Len(buf) # 0
    BY <1>2, EmptySeq DEF DecodeOctet
  <2>2. QED
    BY <1>2, <1>3, <1>4, <2>1, OctetFound
<1>6. /\ k \in Nat \ {0} /\ SubSeq(f.frame, k + 1 + 1, Len(f.frame)) = f.msg /\ f.counts = TRUE
  BY <1>4 DEF OctetFrame
<1>7. Len(buf) \in Nat /\ Len(f.frame) \in Nat
  BY <1>2, <1>3, LenProperties
<1>8. SubSeq(buf, k + 1 + 1, Len(f.frame)) = f.msg
  <2>1. \A i \in 1 .. Len(f.frame) : buf[i] = f.frame[i]
    BY <1>3, <1>5, <1>7 DEF Begins
  <2>2. PICK a \in Int, b \in Int : a = k + 1 + 1 /\ b = Len(f.frame) /\ 1 <= a
    BY <1>6, <1>7
  <2>3. b <= Len(buf) /\ b <= Len(f.frame) /\ \A i \in 1 .. b : buf[i] = f.frame[i]
    BY <1>5, <1>7, <2>1, <2>2
  <2>4. SubSeq(buf, a, b) = SubSeq(f.frame, a, b)
    BY <1>2, <1>3, <2>2, <2>3, FrontOfFrame
  <2>5. QED
    BY <1>6, <2>2, <2>4
<1>9. /\ decoding /\ out' = Append(out, f.msg) /\ buf' = SubSeq(buf, Len(f.frame) + 1, Len(buf))
      /\ UNCHANGED <<sent, ends, wire, position, decoding>>
  BY <1>5, <1>8 DEF DecodeOctet, Emit
<1>10. Len(f.frame) <= Len(buf)
  BY <1>5, <1>7
<1>11. QED
  BY <1>1, <1>2, <1>3, <1>6, <1>9, <1>10, ConsumeKeeps DEF Inv

LEMMA NewlineKeeps ==
  ASSUME NEW S, Sane(S), Inv(S), DecodeNewline
  PROVE  StreamInv(S, Frames)'
<1>1. PICK cuts : Cutting(Frames, cuts)
  BY DEF Inv, StreamInv
<1>2. buf # <<>> /\ Sender = "Newline" /\ FramesOf(S, Frames) /\ buf \in Seq(S)
  BY Detects, SyslogFrames DEF DecodeNewline, Inv, StreamInv, StreamType, Sane, SyslogAssumption
<1>3. PICK f \in Frames : /\ Tile(f, Start, cuts) /\ Begins(f) /\ f.frame \in Seq(S)
                          /\ f.frame # <<>> /\ LineFrame(f)
  BY <1>1, <1>2, FrontFrame DEF Inv
<1>4. Len(buf) \in Nat /\ Len(f.frame) \in Nat /\ Len(buf) # 0
  BY <1>2, <1>3, LenProperties, EmptySeq
<1>5. /\ Len(f.frame) <= Len(buf) /\ FirstPlace(NL) = Len(f.frame)
      /\ LineEnd(FirstPlace(NL)) = Text(f.frame)
  <2>1. FirstPlace(NL) > 0
    BY DEF DecodeNewline
  <2>2. FirstPlace(NL) = IF Len(buf) >= Len(f.frame) THEN Len(f.frame) ELSE 0
    BY <1>2, <1>3, <1>4, LineFound
  <2>3. Len(buf) >= Len(f.frame)
    BY <2>1, <2>2
  <2>4. LineEnd(FirstPlace(NL)) = Text(f.frame)
    BY <1>2, <1>3, <1>4, <2>3, LineFound
  <2>5. QED
    BY <1>4, <2>2, <2>3, <2>4
<1>6. /\ Text(f.frame) \in Nat /\ Text(f.frame) <= Len(f.frame)
      /\ f.msg = SubSeq(f.frame, 1, Text(f.frame)) /\ (f.counts <=> Text(f.frame) > 0)
  BY <1>3 DEF LineFrame
<1>7. SubSeq(buf, 1, Text(f.frame)) = f.msg
  <2>1. PICK b \in Nat : b = Text(f.frame) /\ b <= Len(f.frame) /\ b <= Len(buf)
    BY <1>4, <1>5, <1>6
  <2>2. \A i \in 1 .. b : buf[i] = f.frame[i]
    BY <1>3, <1>4, <2>1 DEF Begins
  <2>3. 1 \in Int /\ b \in Int /\ 1 <= 1
    OBVIOUS
  <2>4. SubSeq(buf, 1, b) = SubSeq(f.frame, 1, b)
    BY <1>2, <1>3, <2>1, <2>2, <2>3, FrontOfFrame
  <2>5. QED
    BY <1>6, <2>1, <2>4
<1>8. /\ decoding /\ buf' = SubSeq(buf, Len(f.frame) + 1, Len(buf))
      /\ out' = (IF f.counts THEN Append(out, f.msg) ELSE out)
      /\ UNCHANGED <<sent, ends, wire, position, decoding>>
  <2>1. CASE Text(f.frame) > 0
    BY <1>5, <1>6, <1>7, <2>1 DEF DecodeNewline, Emit
  <2>2. CASE ~(Text(f.frame) > 0)
    BY <1>5, <1>6, <2>2 DEF DecodeNewline, Skip
  <2>3. QED
    BY <2>1, <2>2
<1>9. QED
  BY <1>1, <1>2, <1>3, <1>5, <1>8, ConsumeKeeps DEF Inv

\* decode never gives up its buffer, and where it returns the buffer ends within its first frame.
LEMMA SyslogReturns ==
  ASSUME NEW S, Sane(S), Inv(S), DecodeReturn
  PROVE  StreamInv(S, Frames)' /\ Return
<1>1. PICK cuts : Cutting(Frames, cuts)
  BY DEF Inv, StreamInv
<1>2. FramesOf(S, Frames) /\ StreamInv(S, Frames) /\ buf \in Seq(S) /\ Len(buf) \in Nat
  BY SyslogFrames, LenProperties DEF Inv, StreamInv, StreamType
<1>3. CASE buf = <<>>
  <2>1. Len(buf) = 0 /\ Return
    BY <1>3, EmptySeq DEF DecodeReturn
  <2>2. QED
    BY <1>1, <1>2, <2>1, ReturnKeeps
<1>4. CASE buf # <<>>
  <2>1. PICK f \in Frames : /\ Tile(f, Start, cuts) /\ Begins(f) /\ f.frame \in Seq(S)
                            /\ f.frame # <<>>
                            /\ Sender = "OctetCounting" => \E k : OctetFrame(f, k)
                            /\ Sender = "Newline" => LineFrame(f)
    BY <1>1, <1>2, <1>4, FrontFrame
  <2>2. Len(f.frame) \in Nat /\ Len(buf) # 0
    BY <1>2, <1>4, <2>1, LenProperties, EmptySeq
  <2>3. Return /\ ~(Len(buf) >= Len(f.frame))
    <3>1. CASE Sender = "OctetCounting"
      <4>1. Detect
        BY <1>4, <3>1, Detects
      <4>2. /\ ~BadLength(FirstPlace(SP))
            /\ Whole(FirstPlace(SP)) <=> Len(buf) >= Len(f.frame)
        BY <1>2, <2>1, <2>2, <3>1, OctetFound
      <4>3. QED
        BY <1>4, <4>1, <4>2 DEF DecodeReturn
    <3>2. CASE Sender = "Newline"
      <4>1. ~Detect
        BY <1>4, <3>2, Detects
      <4>2. FirstPlace(NL) = IF Len(buf) >= Len(f.frame) THEN Len(f.frame) ELSE 0
        BY <1>2, <2>1, <2>2, <3>2, LineFound
      <4>3. FirstPlace(NL) = 0 /\ Return
        BY <1>4, <4>1 DEF DecodeReturn
      <4>4. Len(f.frame) # 0
        BY <2>1, EmptySeq
      <4>5. QED
        BY <4>2, <4>3, <4>4
    <3>3. QED
      BY <3>1, <3>2 DEF Sane, SyslogAssumption
  <2>4. Len(buf) < Len(f.frame)
    BY <1>2, <2>2, <2>3
  <2>5. QED
    BY <1>1, <1>2, <2>1, <2>3, <2>4, ReturnKeeps
<1>5. QED
  BY <1>3, <1>4

LEMMA FramingKept ==
  ASSUME NEW S, Sane(S), Inv(S), [Next]_vars
  PROVE  FramingInv'
<1>1. CASE DecodeOctet
  BY <1>1, Remembers DEF DecodeOctet
<1>2. CASE DecodeNewline
  BY <1>2, Remembers DEF DecodeNewline
<1>3. CASE DecodeReturn
  <2>1. CASE buf = <<>>
    <3>1. Return /\ UNCHANGED codecVars
      BY <2>1, <1>3 DEF DecodeReturn
    <3>2. detected
      BY <2>1, <3>1 DEF Return, Inv, FramingInv
    <3>3. QED
      BY <3>1, <3>2 DEF codecVars, Inv, FramingInv
  <2>2. CASE buf # <<>>
    BY <1>3, <2>2, Remembers DEF DecodeReturn
  <2>3. QED
    BY <2>1, <2>2
<1>4. CASE ReadAny
  <2>1. PICK n \in 1 .. Len(wire) : Read(n)
    BY <1>4 DEF ReadAny, ReadSome
  <2>2. wire \in Seq(S) /\ buf \in Seq(S) /\ Len(wire) \in Nat /\ Len(buf) \in Nat
    BY LenProperties DEF Inv, StreamInv, StreamType
  <2>3. PICK t : t = SubSeq(wire, 1, n)
    OBVIOUS
  <2>4. t \in Seq(S) /\ Len(t) = n
    <3>1. \A i \in 1 .. n : wire[i] \in S
      BY <2>2, ElementOfSeq
    <3>2. n \in Int /\ 1 \in Int /\ 1 <= n /\ n - 1 + 1 = n
      BY <2>2
    <3>3. QED
      BY <2>3, <3>1, <3>2, SubSeqProperties
  <2>5. buf' = buf \o t /\ decoding'
    BY <2>1, <2>3 DEF Read
  <2>6. Len(buf') = Len(buf) + n
    BY <2>2, <2>4, <2>5, ConcatProperties
  <2>7. buf' # <<>>
    BY <2>2, <2>6
  <2>8. UNCHANGED codecVars
    BY <1>4 DEF ReadAny
  <2>9. QED
    BY <2>5, <2>7, <2>8 DEF codecVars, Inv, FramingInv
<1>5. ASSUME NEW m \in Messages, Send(m)
      PROVE  FramingInv'
  BY <1>5 DEF Send, SendFrame, codecVars, Inv, FramingInv
<1>6. CASE UNCHANGED vars
  BY <1>6 DEF vars, streamVars, codecVars, Inv, FramingInv
<1>7. QED
  BY <1>1, <1>2, <1>3, <1>4, <1>5, <1>6 DEF Next, Decode

LEMMA SyslogStep ==
  ASSUME NEW S, Sane(S), Inv(S), [Next]_vars
  PROVE  Inv(S)' /\ [Channel!Next]_(Channel!vars)
<1>1. FramesOf(S, Frames) /\ StreamInv(S, Frames)
  BY SyslogFrames DEF Inv
<1> SUFFICES StreamInv(S, Frames)' /\ [Channel!Next]_(Channel!vars)
  BY FramingKept DEF Inv
<1>2. CASE DecodeOctet
  <2>1. \E m, n : Emit(m, n)
    BY <1>2 DEF DecodeOctet
  <2>2. QED
    BY <1>1, <1>2, <2>1, OctetKeeps, ChannelStep
<1>3. CASE DecodeNewline
  <2>1. (\E m, n : Emit(m, n)) \/ UNCHANGED <<sent, out>>
    BY <1>3 DEF DecodeNewline, Skip
  <2>2. QED
    BY <1>1, <1>3, <2>1, NewlineKeeps, ChannelStep
<1>4. CASE DecodeReturn
  <2>1. StreamInv(S, Frames)' /\ UNCHANGED <<sent, out>>
    BY <1>4, SyslogReturns DEF Return
  <2>2. QED
    BY <1>1, <2>1, ChannelStep
<1>5. CASE ReadAny
  <2>1. ReadSome /\ UNCHANGED <<sent, out>>
    BY <1>5 DEF ReadAny, ReadSome, Read
  <2>2. QED
    BY <1>1, <2>1, ReadKeeps, ChannelStep
<1>6. ASSUME NEW m \in Messages, Send(m)
      PROVE  StreamInv(S, Frames)' /\ [Channel!Next]_(Channel!vars)
  <2>1. PICK f \in Frames : f = [msg |-> Bare(m), frame |-> encode(m), counts |-> Bare(m) # <<>>]
    BY DEF Frames
  <2>2. SendFrame(f.msg, f.frame, f.counts)
    BY <1>6, <2>1 DEF Send
  <2>3. QED
    BY <1>1, <2>2, SendKeeps, ChannelStep
<1>7. CASE UNCHANGED vars
  <2>1. UNCHANGED streamVars /\ UNCHANGED <<sent, out>>
    BY <1>7 DEF vars, streamVars
  <2>2. QED
    BY <1>1, <2>1, StutterKeeps, ChannelStep
<1>8. QED
  BY <1>2, <1>3, <1>4, <1>5, <1>6, <1>7 DEF Next, Decode

-----------------------------------------------------------------------------
(* The theorems.                                                            *)

LEMMA SyslogInit ==
  ASSUME NEW S, Init
  PROVE  Inv(S)
BY StreamInitInv DEF Init, Inv, FramingInv, StreamInit

\* Syslog messages: when decode returns it has emitted every message whose last byte was read, and
\* no other.
THEOREM SyslogPrompt ==
  ASSUME NEW S, Sane(S)
  PROVE  Spec => []Prompt
<1>1. Init => Inv(S)
  BY SyslogInit
<1>2. Inv(S) /\ [Next]_vars => Inv(S)'
  BY SyslogStep
<1>3. Inv(S) => Prompt
  BY InvPromises DEF Inv
<1>4. QED
  BY <1>1, <1>2, <1>3, PTL DEF Spec

\* Syslog messages come out as they went in, without their line ends, in order and each once.
THEOREM SyslogChannel ==
  ASSUME NEW S, Sane(S)
  PROVE  Spec => ImplementsSafely /\ []InOrder
<1>1. Init => Inv(S) /\ Channel!Init
  BY SyslogInit DEF Init, StreamInit, Channel!Init
<1>2. Inv(S) /\ [Next]_vars => Inv(S)' /\ [Channel!Next]_(Channel!vars)
  BY SyslogStep
<1>3. Inv(S) => InOrder
  BY InvPromises DEF Inv
<1>4. QED
  BY <1>1, <1>2, <1>3, PTL DEF Spec, ImplementsSafely, Channel!SafeSpec

\* A collector that has read anything from a client frames what it sends to it as the client does.
THEOREM Answers ==
  ASSUME NEW S, Sane(S)
  PROVE  Spec => []AnswersInKind
<1>1. Init => Inv(S)
  BY SyslogInit
<1>2. Inv(S) /\ [Next]_vars => Inv(S)'
  BY SyslogStep
<1>3. Inv(S) => AnswersInKind
  <2>1. FramingInv => AnswersInKind
    <3> SUFFICES ASSUME FramingInv, ~decoding, position > 0
                 PROVE  octet_mode <=> Sender = "OctetCounting"
      BY DEF AnswersInKind
    <3>1. position # 0
      OBVIOUS
    <3>2. QED
      BY <3>1 DEF FramingInv
  <2>2. QED
    BY <2>1 DEF Inv
<1>4. QED
  BY <1>1, <1>2, <1>3, PTL DEF Spec
=============================================================================
