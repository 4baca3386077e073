-------------------------- MODULE ClientTCP_proofs --------------------------
(***************************************************************************)
(* Theorems about ClientTCP, for any frames and any number of connections. *)
(* ClosedIsQuiet is inductive with the types.  For OneReader the read loop *)
(* is a token: the outstanding read, or a callback that comes before the   *)
(* next read or before Close, and never both.                              *)
(***************************************************************************)
EXTENDS ClientTCP, SequenceTheorems, TLAPS

Outstanding == reads["pending"] + reads["ok"] + reads["err"]

\* The token: while OnMessage runs no read is outstanding, and between handlers one is.
ReadLoop ==
  clean /\ sock => \/ Outstanding = 1 /\ pc # "message"
                   \/ Outstanding = 0 /\ pc \in {"message", "closing"}

\* The send path has a token as well: the outstanding write or OnEvent_Sended behind it.
\* m_bSending is set exactly while it exists, and a queued frame has it.
SendLoop ==
  clean /\ sock =>
    /\ Len(writes) <= 1
    /\ sending <=> (writes # <<>> \/ pc = "sended")
    /\ pc = "sended" => writes = <<>>
    /\ queue # <<>> => sending
    /\ net = "up" => \A i \in DOMAIN writes : writes[i].result # "err"

ReadInv == TypeOK /\ ClosedIsQuiet /\ ReadLoop
SendInv == SendLoop /\ Conservation
IInv    == ReadInv /\ SendInv

-----------------------------------------------------------------------------
(* Types.                                                                   *)

\* A session that was never connected.
LEMMA ReadInit == Init => ReadInv
<1> SUFFICES ASSUME Init PROVE ReadInv
  OBVIOUS
<1>1. writes \in Seq(Write) /\ queue \in Seq(Frames)
      /\ accepted \in Seq(Frames) /\ wired \in Seq(Frames)
  BY EmptySeq DEF Init
<1>2. TypeOK
  <2>1. reads \in [Result -> Nat]
    BY DEF Init
  <2>2. calls \in 0..MaxConnects
    BY ClientAssumption DEF Init
  <2>3. QED
    BY <1>1, <2>1, <2>2 DEF Init, TypeOK
<1>3. ClosedIsQuiet /\ ReadLoop
  BY DEF Init, ClosedIsQuiet, ReadLoop, Result
<1>4. QED
  BY <1>2, <1>3 DEF ReadInv

\* What a closing socket leaves of the outstanding operations and the queue.
LEMMA Aborted ==
  ASSUME TypeOK
  PROVE  /\ AbortedReads \in [Result -> Nat]
         /\ sock => AbortedReads["pending"] = 0
         /\ AbortedWrites \in Seq(Write) /\ DOMAIN AbortedWrites = DOMAIN writes
         /\ sock => \A i \in DOMAIN writes : AbortedWrites[i].result # "pending"
         /\ ~sock => AbortedWrites = writes
         /\ ClosedQueue \in Seq(Frames)
<1> USE DEF TypeOK
<1>1. AbortedReads \in [Result -> Nat] /\ (sock => AbortedReads["pending"] = 0)
  BY DEF AbortedReads, Result
<1>2. ASSUME NEW i \in DOMAIN writes
      PROVE  AbortedWrites[i] \in Write /\ (sock => AbortedWrites[i].result # "pending")
  <2>1. writes[i] \in Write
    BY ElementOfSeq, LenProperties
  <2>2. QED
    BY <2>1 DEF AbortedWrites, Write, Result
<1>3. Len(writes) \in Nat /\ DOMAIN writes = 1..Len(writes)
  BY LenProperties
<1>4. DOMAIN AbortedWrites = DOMAIN writes
  BY DEF AbortedWrites
<1>5. AbortedWrites \in Seq(Write)
  BY <1>2, <1>3, SMT DEF AbortedWrites
<1>6. ~sock => AbortedWrites = writes
  BY <1>3, LenProperties DEF AbortedWrites
<1>7. ClosedQueue \in Seq(Frames)
  BY EmptySeq DEF ClosedQueue
<1>8. QED
  BY <1>1, <1>2, <1>4, <1>5, <1>6, <1>7

\* What do_send leaves, with q as the queue.
LEMMA DoSend ==
  ASSUME TypeOK, NEW q \in Seq(Frames), do_send(q)
  PROVE  /\ queue' \in Seq(Frames) /\ sending' \in BOOLEAN /\ writes' \in Seq(Write)
         /\ ~sock => queue' = q /\ ~sending' /\ writes' = writes
<1>1. CASE q = <<>> \/ ~sock
  BY <1>1 DEF do_send, TypeOK
<1>2. CASE ~(q = <<>> \/ ~sock)
  <2>1. Head(q) \in Frames /\ Tail(q) \in Seq(Frames)
    BY <1>2, HeadTailProperties
  <2>2. [frame |-> Head(q), result |-> "pending"] \in Write
    BY <2>1 DEF Write, Result
  <2>3. sending' = TRUE /\ queue' = Tail(q)
        /\ writes' = Append(writes, [frame |-> Head(q), result |-> "pending"])
    BY <1>2 DEF do_send
  <2>4. writes' \in Seq(Write)
    BY <2>2, <2>3 DEF TypeOK
  <2>5. QED
    BY <1>2, <2>1, <2>3, <2>4
<1>3. QED
  BY <1>1, <1>2

\* A write that leaves the sequence, or gets its result.
LEMMA Removed ==
  ASSUME NEW s \in Seq(Write), NEW i \in DOMAIN s
  PROVE  /\ RemoveAt(s, i) \in Seq(Write)
         /\ \A j \in DOMAIN RemoveAt(s, i) : \E k \in DOMAIN s : RemoveAt(s, i)[j] = s[k]
<1>1. Len(s) \in Nat /\ i \in 1..Len(s) /\ DOMAIN s = 1..Len(s)
  BY LenProperties
<1> DEFINE front == SubSeq(s, 1, i - 1)
           back  == SubSeq(s, i + 1, Len(s))
<1>2. /\ front \in Seq(Write) /\ Len(front) = i - 1
      /\ \A j \in 1..(i - 1) : front[j] = s[j]
  <2>1. \A j \in 1..(i - 1) : s[j] \in Write
    BY <1>1, ElementOfSeq
  <2>2. QED
    BY <1>1, <2>1, SubSeqProperties, Z3
<1>3. /\ back \in Seq(Write) /\ Len(back) = Len(s) - i
      /\ \A j \in 1..(Len(s) - i) : back[j] = s[i + j]
  <2>1. \A j \in (i + 1)..Len(s) : s[j] \in Write
    BY <1>1, ElementOfSeq
  <2>2. QED
    BY <1>1, <2>1, SubSeqProperties, Z3
<1>4. RemoveAt(s, i) = front \o back
  BY DEF RemoveAt
<1> HIDE DEF front, back
<1>5. /\ RemoveAt(s, i) \in Seq(Write) /\ Len(RemoveAt(s, i)) = Len(s) - 1
      /\ \A j \in 1..(Len(s) - 1) :
           RemoveAt(s, i)[j] = IF j <= i - 1 THEN front[j] ELSE back[j - (i - 1)]
  <2>1. /\ front \o back \in Seq(Write) /\ Len(front \o back) = Len(front) + Len(back)
        /\ \A j \in 1..(Len(front) + Len(back)) :
             (front \o back)[j] = IF j <= Len(front) THEN front[j] ELSE back[j - Len(front)]
    BY <1>2, <1>3, ConcatProperties
  <2>2. Len(front) + Len(back) = Len(s) - 1
    BY <1>1, <1>2, <1>3
  <2>3. QED
    BY <1>2, <1>4, <2>1, <2>2
<1>6. ASSUME NEW j \in DOMAIN RemoveAt(s, i)
      PROVE  \E k \in DOMAIN s : RemoveAt(s, i)[j] = s[k]
  <2>1. j \in 1..(Len(s) - 1)
    BY <1>5, LenProperties
  <2>2. CASE j <= i - 1
    BY <1>1, <1>2, <1>5, <2>1, <2>2
  <2>3. CASE j > i - 1
    <3>1. j - (i - 1) \in 1..(Len(s) - i)
      BY <1>1, <2>1, <2>3
    <3>2. RemoveAt(s, i)[j] = s[i + (j - (i - 1))]
      BY <1>1, <1>3, <1>5, <2>1, <2>3, <3>1
    <3>3. i + (j - (i - 1)) \in DOMAIN s
      BY <1>1, <2>1, <3>1
    <3>4. QED
      BY <3>2, <3>3
  <2>4. QED
    BY <1>1, <2>1, <2>2, <2>3
<1>7. QED
  BY <1>5, <1>6

-----------------------------------------------------------------------------
(* Steps.                                                                   *)

\* A socket that is closed leaves nothing pending, whichever connection it had.
LEMMA Closing ==
  ASSUME TypeOK, ClosedIsQuiet, CloseSocket, pc' \in {"idle", "message", "sended", "closing"},
         net' = net, calls' \in 0 .. MaxConnects, connected' \in BOOLEAN,
         UNCHANGED <<clean, accepted, wired>>
  PROVE  ReadInv'
<1>1. TypeOK'
  BY Aborted DEF TypeOK, CloseSocket
<1>2. queue' = <<>> /\ ~sending' /\ reads'["pending"] = 0
  BY Aborted DEF TypeOK, ClosedIsQuiet, CloseSocket, ClosedQueue, AbortedReads
<1>3. ASSUME NEW i \in DOMAIN writes' PROVE writes'[i].result # "pending"
  BY <1>3, Aborted DEF ClosedIsQuiet, CloseSocket
<1>4. ~sock'
  BY DEF CloseSocket
<1>5. ClosedIsQuiet' /\ ReadLoop'
  BY <1>2, <1>3, <1>4 DEF ClosedIsQuiet, ReadLoop
<1>6. QED
  BY <1>1, <1>5 DEF ReadInv

\* Connect or Reconnect starts the one read; a connection is clean only if no other is outstanding.
LEMMA Connecting ==
  ASSUME ReadInv, ConnectSucceeds
  PROVE  ReadInv'
<1> USE DEF ReadInv, ConnectSucceeds
<1>1. TypeOK'
  <2>1. reads' \in [Result -> Nat]
    BY Aborted DEF Result
  <2>2. writes' \in Seq(Write) /\ queue' \in Seq(Frames)
    BY Aborted
  <2>3. accepted' \in Seq(Frames) /\ wired' \in Seq(Frames)
    BY EmptySeq
  <2>4. calls' \in 0 .. MaxConnects
    BY ClientAssumption DEF TypeOK
  <2>5. QED
    BY <2>1, <2>2, <2>3, <2>4 DEF TypeOK
<1>2. ClosedIsQuiet'
  BY DEF ClosedIsQuiet
<1>3. ReadLoop'
  <2> SUFFICES ASSUME clean' PROVE Outstanding' = 1 /\ pc' # "message"
    BY DEF ReadLoop
  <2>1. reads["pending"] = 0 /\ reads["ok"] = 0 /\ reads["err"] = 0 /\ pc = "idle"
    BY DEF Result
  <2>2. /\ AbortedReads \in [Result -> Nat]
        /\ AbortedReads["ok"] = 0 /\ AbortedReads["err"] = 0
    BY <2>1, Aborted DEF AbortedReads, TypeOK, Result
  <2>3. reads'["pending"] = 1 /\ reads'["ok"] = 0 /\ reads'["err"] = 0
    BY <2>2 DEF Result
  <2>4. QED
    BY <2>1, <2>3 DEF Outstanding
<1>4. QED
  BY <1>1, <1>2, <1>3

\* A step of the send path: the socket and the reads stay, and what it does to the queue and the
\* writes leaves a session without a socket as quiet as it was.
LEMMA Sending ==
  ASSUME ReadInv, UNCHANGED <<sock, netVars, reads, calls, clean>>,
         queue' \in Seq(Frames), writes' \in Seq(Write), sending' \in BOOLEAN,
         accepted' \in Seq(Frames), wired' \in Seq(Frames),
         ~sock => /\ queue' = <<>> /\ ~sending'
                  /\ \A i \in DOMAIN writes' : writes'[i].result # "pending",
         \/ UNCHANGED pc
         \/ pc \notin {"message", "closing"} /\ pc' \in {"idle", "sended", "closing"}
  PROVE  ReadInv'
<1> USE DEF ReadInv, netVars
<1>1. TypeOK'
  BY DEF TypeOK
<1>2. ClosedIsQuiet'
  BY DEF ClosedIsQuiet
<1>3. ReadLoop'
  BY DEF ReadLoop, Outstanding
<1>4. QED
  BY <1>1, <1>2, <1>3

\* A frame accepted on a live socket is written or queued.
LEMMA Accepting ==
  ASSUME ReadInv, NEW f \in Frames, ASync_Send(f)
  PROVE  ReadInv'
<1> USE DEF ASync_Send
<1>1. TypeOK /\ sock
  BY DEF ReadInv
<1>2. accepted' \in Seq(Frames) /\ wired' \in Seq(Frames)
  BY <1>1 DEF TypeOK
<1>3. queue' \in Seq(Frames) /\ writes' \in Seq(Write) /\ sending' \in BOOLEAN
  <2>1. CASE ~sending /\ queue = <<>>
    <3>1. <<f>> \in Seq(Frames)
      OBVIOUS
    <3>2. do_send(<<f>>)
      BY <2>1
    <3>3. QED
      BY <1>1, <3>1, <3>2, DoSend
  <2>2. CASE ~(~sending /\ queue = <<>>)
    <3>1. queue' = Append(queue, f) /\ writes' = writes /\ sending' = sending
      BY <2>2
    <3>2. queue \in Seq(Frames) /\ writes \in Seq(Write) /\ sending \in BOOLEAN
      BY <1>1 DEF TypeOK
    <3>3. queue' \in Seq(Frames)
      BY <3>1, <3>2
    <3>4. QED
      BY <3>1, <3>2, <3>3
  <2>3. QED
    BY <2>1, <2>2
<1>4. QED
  BY <1>1, <1>2, <1>3, Sending

\* A write's handler takes it away: to OnEvent_Sended, or with the queue to OnEvent_Close.
LEMMA Written ==
  ASSUME ReadInv, WriteHandler
  PROVE  ReadInv'
<1>1. TypeOK /\ ClosedIsQuiet
  BY DEF ReadInv
<1>2. PICK i \in DOMAIN writes :
        /\ writes[i].result # "pending" /\ writes' = RemoveAt(writes, i)
        /\ IF writes[i].result = "ok" THEN pc' = "sended" /\ UNCHANGED <<queue, sending>>
           ELSE pc' = "closing" /\ queue' = <<>> /\ sending' = FALSE
  BY DEF WriteHandler
<1>3. writes' \in Seq(Write) /\ \A j \in DOMAIN writes' : \E k \in DOMAIN writes : writes'[j] = writes[k]
  BY <1>1, <1>2, Removed DEF TypeOK
<1>4. queue' \in Seq(Frames) /\ sending' \in BOOLEAN
  BY <1>1, <1>2, EmptySeq DEF TypeOK
<1>5. ~sock => /\ queue' = <<>> /\ ~sending'
               /\ \A j \in DOMAIN writes' : writes'[j].result # "pending"
  BY <1>1, <1>2, <1>3 DEF ClosedIsQuiet
<1>6. pc \notin {"message", "closing"} /\ pc' \in {"idle", "sended", "closing"}
  BY <1>2 DEF WriteHandler
<1>7. accepted' \in Seq(Frames) /\ wired' \in Seq(Frames)
  BY <1>1 DEF WriteHandler, TypeOK
<1>8. QED
  BY <1>3, <1>4, <1>5, <1>6, <1>7, Sending DEF WriteHandler

\* A pending write, and so a socket to end it, gets its result.
LEMMA WriteEnding ==
  ASSUME ReadInv, WriteEnds
  PROVE  ReadInv'
<1>1. TypeOK /\ ClosedIsQuiet
  BY DEF ReadInv
<1>2. PICK i \in DOMAIN writes :
        /\ writes[i].result = "pending"
        /\ writes' = [writes EXCEPT ![i].result = IF net = "up" THEN "ok" ELSE "err"]
        /\ wired' = IF net = "up" THEN Append(wired, writes[i].frame) ELSE wired
  BY DEF WriteEnds
<1>3. /\ Len(writes) \in Nat /\ DOMAIN writes = 1..Len(writes)
      /\ \A j \in DOMAIN writes : writes[j] \in Write
  BY <1>1, LenProperties, ElementOfSeq DEF TypeOK
<1>4. ASSUME NEW j \in DOMAIN writes PROVE writes'[j] \in Write
  BY <1>2, <1>3 DEF Write, Result
<1>5. writes' \in Seq(Write)
  <2>1. writes' = [j \in 1..Len(writes) |-> writes'[j]]
    BY <1>2, <1>3
  <2>2. QED
    BY <1>3, <1>4, <2>1, SMT
<1>6. wired' \in Seq(Frames) /\ accepted' \in Seq(Frames)
  <2>1. writes[i].frame \in Frames
    BY <1>3 DEF Write
  <2>2. QED
    BY <1>1, <1>2, <2>1 DEF TypeOK, WriteEnds
<1>7. queue' \in Seq(Frames) /\ sending' \in BOOLEAN
  BY <1>1 DEF TypeOK, WriteEnds
<1>8. sock
  BY <1>1, <1>2 DEF ClosedIsQuiet
<1>9. QED
  BY <1>5, <1>6, <1>7, <1>8, Sending DEF WriteEnds

\* After OnEvent_Sended do_send finds whatever the callback left.
LEMMA SendedReturns ==
  ASSUME ReadInv, AfterSended
  PROVE  ReadInv'
<1>1. TypeOK /\ ClosedIsQuiet
  BY DEF ReadInv
<1>2. queue \in Seq(Frames) /\ do_send(queue)
  BY <1>1 DEF TypeOK, AfterSended
<1>3. /\ queue' \in Seq(Frames) /\ writes' \in Seq(Write) /\ sending' \in BOOLEAN
      /\ ~sock => queue' = queue /\ ~sending' /\ writes' = writes
  BY <1>1, <1>2, DoSend
<1>4. ~sock => /\ queue' = <<>> /\ ~sending'
               /\ \A i \in DOMAIN writes' : writes'[i].result # "pending"
  BY <1>1, <1>3 DEF ClosedIsQuiet
<1>5. accepted' \in Seq(Frames) /\ wired' \in Seq(Frames)
  BY <1>1 DEF AfterSended, TypeOK
<1>6. QED
  BY <1>3, <1>4, <1>5, Sending DEF AfterSended, Goto

\* The steps of the read loop: a read is taken by its handler, started again, or ends.
LEMMA Receiving ==
  ASSUME ReadInv, Handler_Receive \/ AfterMessage \/ ReadEnds
  PROVE  ReadInv'
<1> USE DEF ReadInv, netVars, sendVars, Took, Goto
<1>1. TypeOK /\ reads \in [Result -> Nat] /\ UNCHANGED <<sock, netVars, sendVars, calls, clean, accepted, wired>>
  BY DEF TypeOK, Handler_Receive, AfterMessage, ReadEnds
<1>2. reads' \in [Result -> Nat]
  BY <1>1 DEF Handler_Receive, AfterMessage, ReadEnds, Result
<1>3. TypeOK'
  <2>1. pc' \in {"idle", "message", "sended", "closing"}
    BY DEF TypeOK, Handler_Receive, AfterMessage, ReadEnds
  <2>2. QED
    BY <1>1, <1>2, <2>1 DEF TypeOK
<1>4. ClosedIsQuiet'
  <2>1. ~sock => reads'["pending"] = 0
    BY <1>1 DEF ClosedIsQuiet, Handler_Receive, AfterMessage, ReadEnds, Result
  <2>2. QED
    BY <1>1, <2>1 DEF ClosedIsQuiet
<1>5. ReadLoop'
  <2> SUFFICES ASSUME clean, sock
               PROVE  \/ Outstanding' = 1 /\ pc' # "message"
                      \/ Outstanding' = 0 /\ pc' \in {"message", "closing"}
    BY <1>1 DEF ReadLoop
  <2>1. \/ Outstanding = 1 /\ pc # "message"
        \/ Outstanding = 0 /\ pc \in {"message", "closing"}
    BY DEF ReadLoop
  <2>2. reads["pending"] \in Nat /\ reads["ok"] \in Nat /\ reads["err"] \in Nat
    BY <1>1 DEF Result
  <2>3. CASE Handler_Receive
    <3>1. Outstanding = 1
      BY <2>1, <2>3 DEF Handler_Receive
    <3>2. Outstanding' = Outstanding - 1 /\ pc' \in {"message", "closing"}
      BY <1>1, <2>2, <2>3 DEF Handler_Receive, Outstanding, Result
    <3>3. QED
      BY <3>1, <3>2
  <2>4. CASE AfterMessage
    <3>1. Outstanding = 0
      BY <2>1, <2>4 DEF AfterMessage
    <3>2. Outstanding' = Outstanding + 1 /\ pc' = "idle"
      BY <1>1, <2>2, <2>4 DEF AfterMessage, Outstanding, Result
    <3>3. QED
      BY <3>1, <3>2
  <2>5. CASE ReadEnds
    <3>1. Outstanding' = Outstanding /\ pc' = pc
      BY <1>1, <2>2, <2>5 DEF ReadEnds, Outstanding, Result
    <3>2. QED
      BY <2>1, <3>1
  <2>6. QED
    BY <2>3, <2>4, <2>5
<1>6. QED
  BY <1>3, <1>4, <1>5

\* Every step keeps it.
LEMMA ReadNext == ReadInv /\ [Next]_vars => ReadInv'
<1> SUFFICES ASSUME ReadInv, [Next]_vars PROVE ReadInv'
  OBVIOUS
<1>1. TypeOK /\ ClosedIsQuiet
  BY DEF ReadInv
<1>2. CASE ConnectSucceeds
  BY <1>2, Connecting
<1>3. CASE ConnectRefused
  <2>1. calls' \in 0 .. MaxConnects
    BY <1>1, <1>3, ClientAssumption DEF ConnectRefused, TypeOK
  <2>2. QED
    BY <1>1, <1>3, <2>1, Closing DEF ConnectRefused, TypeOK
<1>4. CASE ConnectUnresolved
  <2>1. calls' \in 0 .. MaxConnects
    BY <1>1, <1>4, ClientAssumption DEF ConnectUnresolved, TypeOK
  <2>2. QED
    BY <1>1, <1>4, <2>1, Closing DEF ConnectUnresolved, TypeOK, netVars
<1>5. CASE AppCloses
  BY <1>1, <1>5, Closing DEF AppCloses, TypeOK, netVars
<1>6. ASSUME NEW f \in Frames, ASync_Send(f) PROVE ReadInv'
  BY <1>6, Accepting
<1>7. CASE Handler_Receive \/ AfterMessage \/ ReadEnds
  BY <1>7, Receiving
<1>8. CASE WriteHandler
  BY <1>8, Written
<1>9. CASE AfterSended
  BY <1>9, SendedReturns
<1>10. CASE AfterClosing
  BY <1>1, <1>10, Closing DEF AfterClosing, TypeOK, netVars, Goto
<1>11. CASE PeerResets
  BY <1>11 DEF PeerResets, ReadInv, TypeOK, ClosedIsQuiet, ReadLoop, Outstanding, sendVars
<1>12. CASE WriteEnds
  BY <1>12, WriteEnding
<1>13. CASE UNCHANGED vars
  BY <1>13 DEF vars, netVars, sendVars, ReadInv, TypeOK, ClosedIsQuiet, ReadLoop, Outstanding
<1>14. QED
  BY <1>2, <1>3, <1>4, <1>5, <1>6, <1>7, <1>8, <1>9, <1>10, <1>11, <1>12, <1>13
     DEF Next, Application, AfterCall, Network

-----------------------------------------------------------------------------
(* The send path on a clean connection.                                     *)

\* With at most one write, a write that is there is the first and leaves none behind.
LEMMA OneWrite ==
  ASSUME writes \in Seq(Write), Len(writes) <= 1, writes # <<>>
  PROVE  /\ Len(writes) = 1 /\ DOMAIN writes = {1} /\ writes[1] \in Write
         /\ RemoveAt(writes, 1) = <<>>
<1>1. Len(writes) = 1
  BY EmptySeq, LenProperties
<1>2. DOMAIN writes = {1} /\ writes[1] \in Write
  BY <1>1, LenProperties, ElementOfSeq
<1>3. SubSeq(writes, 1, 0) = <<>> /\ SubSeq(writes, 2, 1) = <<>>
  BY SubSeqEmpty
<1>4. RemoveAt(writes, 1) = <<>> \o <<>>
  BY <1>1, <1>3 DEF RemoveAt
<1>5. QED
  BY <1>1, <1>2, <1>4, EmptySeq, ConcatEmptySeq

\* Sequences of frames: the head moves from one end of \o to the other, a new frame goes to the end.
LEMMA HeadAndTail ==
  ASSUME NEW q \in Seq(Frames), q # <<>>
  PROVE  /\ Head(q) \in Frames /\ Tail(q) \in Seq(Frames)
         /\ <<Head(q)>> \o Tail(q) = q
<1>1. Len(q) \in Nat \ {0}
  BY EmptySeq
<1>2. SubSeq(q, 1, Len(q)) = <<q[1]>> \o SubSeq(q, 2, Len(q))
  BY <1>1, SubSeqRecursiveFirst
<1>3. SubSeq(q, 1, Len(q)) = q /\ SubSeq(q, 2, Len(q)) = Tail(q)
  BY SubSeqFull, TailIsSubSeq
<1>4. Head(q) = q[1]
  BY <1>1
<1>5. QED
  BY <1>2, <1>3, <1>4, HeadTailProperties

LEMMA AppendLast ==
  ASSUME NEW s \in Seq(Frames), NEW q \in Seq(Frames), NEW f \in Frames
  PROVE  Append(s \o q, f) = s \o Append(q, f) /\ s \o <<f>> \in Seq(Frames)
<1>1. <<f>> \in Seq(Frames) /\ s \o q \in Seq(Frames) /\ s \o <<f>> \in Seq(Frames)
  BY ConcatProperties
<1>2. Append(q, f) = q \o <<f>> /\ Append(s \o q, f) = (s \o q) \o <<f>>
  BY <1>1, AppendIsConcat
<1>3. QED
  BY <1>1, <1>2, ConcatAssociative

LEMMA InFlightType ==
  ASSUME TypeOK, Len(writes) <= 1
  PROVE  InFlight \in Seq(Frames)
<1>1. CASE writes = <<>>
  BY <1>1, EmptySeq DEF InFlight
<1>2. CASE writes # <<>>
  <2>1. writes[1].frame \in Frames
    BY <1>2, OneWrite DEF TypeOK, Write
  <2>2. QED
    BY <2>1, EmptySeq DEF InFlight
<1>3. QED
  BY <1>1, <1>2

\* do_send on a live socket with no write outstanding: the first frame becomes the one in flight.
LEMMA SendsFirst ==
  ASSUME TypeOK, sock, writes = <<>>, NEW q \in Seq(Frames), do_send(q)
  PROVE  /\ Len(writes') <= 1 /\ (sending' <=> writes' # <<>>)
         /\ queue' # <<>> => sending'
         /\ \A i \in DOMAIN writes' : writes'[i].result # "err"
         /\ InFlight' \o queue' = q
         /\ InFlight' \in Seq(Frames) /\ queue' \in Seq(Frames)
<1>1. CASE q = <<>>
  <2>1. writes' = <<>> /\ queue' = <<>> /\ sending' = FALSE
    BY <1>1 DEF do_send
  <2>2. InFlight' \o queue' = <<>> /\ InFlight' = <<>>
    BY <2>1, EmptySeq, ConcatEmptySeq DEF InFlight
  <2>3. QED
    BY <1>1, <2>1, <2>2, EmptySeq
<1>2. CASE q # <<>>
  <2> DEFINE w == [frame |-> Head(q), result |-> "pending"]
  <2>1. writes' = Append(<<>>, w) /\ queue' = Tail(q) /\ sending' = TRUE
    BY <1>2 DEF do_send
  <2>2. writes' = <<w>>
    BY <2>1
  <2> HIDE DEF w
  <2>3. Len(writes') = 1 /\ writes' # <<>> /\ DOMAIN writes' = {1} /\ writes'[1] = w
    BY <2>2
  <2>4. w.result = "pending" /\ w.frame = Head(q)
    BY DEF w
  <2>5. InFlight' = <<Head(q)>>
    BY <2>3, <2>4 DEF InFlight
  <2>6. QED
    BY <1>2, <2>1, <2>3, <2>4, <2>5, HeadAndTail
<1>3. QED
  BY <1>1, <1>2

\* A session without a socket has nothing to keep.
LEMMA SendClosed == CloseSocket => SendInv'
BY DEF CloseSocket, SendInv, SendLoop, Conservation

\* A step that leaves the send path alone, OnEvent_Sended and a broken connection included.
LEMMA SendKept ==
  ASSUME SendInv, UNCHANGED <<sock, sendVars, clean, accepted, wired>>,
         net' = "up" => net = "up", pc' = "sended" <=> pc = "sended"
  PROVE  SendInv'
BY DEF SendInv, SendLoop, Conservation, InFlight, sendVars

\* A clean connection starts with the send path idle.
LEMMA SendConnect ==
  ASSUME ReadInv, ConnectSucceeds
  PROVE  SendInv'
<1> USE DEF ReadInv, ConnectSucceeds
<1> SUFFICES ASSUME clean' PROVE SendInv'
  BY DEF SendInv, SendLoop, Conservation
<1>1. writes = <<>> /\ pc' = "idle"
  OBVIOUS
<1>2. writes' = <<>>
  <2>1. AbortedWrites \in Seq(Write) /\ DOMAIN AbortedWrites = DOMAIN writes
    BY Aborted
  <2>2. DOMAIN writes = {}
    BY <1>1
  <2>3. QED
    BY <2>1, <2>2, LenProperties, EmptySeq
<1>3. queue' = <<>> /\ ~sending'
  BY DEF ClosedQueue, ClosedIsQuiet
<1>4. InFlight' = <<>>
  BY <1>2 DEF InFlight
<1>5. accepted' = wired' \o InFlight' \o queue'
  BY <1>3, <1>4, EmptySeq, ConcatEmptySeq
<1>6. Len(writes') = 0
  BY <1>2
<1>7. QED
  BY <1>1, <1>2, <1>3, <1>5, <1>6 DEF SendInv, SendLoop, Conservation

\* A new frame goes to the end, and is sent at once if there is no token.
LEMMA SendAccept ==
  ASSUME ReadInv, SendInv, NEW f \in Frames, ASync_Send(f)
  PROVE  SendInv'
<1> USE DEF ASync_Send, netVars
<1> SUFFICES ASSUME clean PROVE SendInv'
  BY DEF SendInv, SendLoop, Conservation
<1>1. TypeOK /\ sock /\ SendLoop /\ Conservation
  BY DEF ReadInv, SendInv
<1>2. queue \in Seq(Frames) /\ wired \in Seq(Frames) /\ Len(writes) <= 1 /\ InFlight \in Seq(Frames)
  BY <1>1, InFlightType DEF TypeOK, SendLoop
<1>3. CASE ~sending /\ queue = <<>>
  <2>1. writes = <<>> /\ pc # "sended"
    BY <1>1, <1>3 DEF SendLoop
  <2>2. <<f>> \in Seq(Frames) /\ do_send(<<f>>)
    BY <1>3
  <2>3. /\ Len(writes') <= 1 /\ (sending' <=> writes' # <<>>) /\ (queue' # <<>> => sending')
        /\ \A i \in DOMAIN writes' : writes'[i].result # "err"
        /\ InFlight' \o queue' = <<f>>
        /\ InFlight' \in Seq(Frames) /\ queue' \in Seq(Frames)
    BY <1>1, <2>1, <2>2, SendsFirst
  <2>4. SendLoop'
    BY <2>1, <2>3 DEF SendLoop
  <2>5. ASSUME net = "up" PROVE accepted' = wired' \o InFlight' \o queue'
    <3>1. InFlight = <<>>
      BY <2>1 DEF InFlight
    <3>2. accepted = wired
      BY <1>1, <1>2, <1>3, <2>5, <3>1, EmptySeq, ConcatEmptySeq DEF Conservation
    <3>3. accepted' = wired \o <<f>>
      BY <1>2, <3>2, AppendIsConcat
    <3>4. (wired \o InFlight') \o queue' = wired \o (InFlight' \o queue')
      <4>1. wired \in Seq(Frames) /\ InFlight' \in Seq(Frames) /\ queue' \in Seq(Frames)
        BY <1>2, <2>3
      <4>2. QED
        BY ONLY <4>1, ConcatAssociative
    <3>5. wired' = wired
      OBVIOUS
    <3>6. QED
      BY <2>3, <3>3, <3>4, <3>5
  <2>6. QED
    BY <1>1, <2>3, <2>4, <2>5 DEF SendInv, Conservation
<1>4. CASE ~(~sending /\ queue = <<>>)
  <2>1. queue' = Append(queue, f) /\ UNCHANGED <<writes, sending, sock, net, pc, clean, wired>>
    BY <1>4
  <2>2. sending
    BY <1>1, <1>4 DEF SendLoop
  <2>3. SendLoop'
    BY <1>1, <2>1, <2>2 DEF SendLoop
  <2>4. ASSUME net = "up" PROVE accepted' = wired' \o InFlight' \o queue'
    <3>1. InFlight' = InFlight
      BY <2>1 DEF InFlight
    <3>2. wired \o InFlight \in Seq(Frames)
      BY <1>2, ConcatProperties
    <3>3. accepted = (wired \o InFlight) \o queue
      BY <1>1, <2>4 DEF Conservation
    <3>4. accepted' = (wired \o InFlight) \o Append(queue, f)
      <4>1. Append((wired \o InFlight) \o queue, f) = (wired \o InFlight) \o Append(queue, f)
        BY <1>2, <3>2, AppendLast
      <4>2. accepted' = Append(accepted, f)
        OBVIOUS
      <4>3. QED
        BY <3>3, <4>1, <4>2
    <3>5. QED
      BY <2>1, <3>1, <3>4
  <2>5. QED
    BY <1>1, <2>1, <2>3, <2>4 DEF SendInv, SendLoop, Conservation
<1>5. QED
  BY <1>3, <1>4

\* The token goes from the write to OnEvent_Sended, or goes away with the queue.
LEMMA SendWritten ==
  ASSUME ReadInv, SendInv, WriteHandler
  PROVE  SendInv'
<1> USE DEF netVars
<1> SUFFICES ASSUME clean, sock PROVE SendInv'
  BY DEF WriteHandler, SendInv, SendLoop, Conservation
<1>1. TypeOK /\ SendLoop /\ Conservation
  BY DEF ReadInv, SendInv
<1>2. PICK i \in DOMAIN writes :
        /\ writes[i].result # "pending" /\ writes' = RemoveAt(writes, i)
        /\ IF writes[i].result = "ok" THEN pc' = "sended" /\ UNCHANGED <<queue, sending>>
           ELSE pc' = "closing" /\ queue' = <<>> /\ sending' = FALSE
  BY DEF WriteHandler
<1>3. UNCHANGED <<sock, net, clean, accepted, wired>>
  BY DEF WriteHandler
<1>4. writes \in Seq(Write) /\ Len(writes) <= 1 /\ writes # <<>>
  <2>1. writes # <<>>
    BY <1>2
  <2>2. QED
    BY <1>1, <2>1 DEF TypeOK, SendLoop
<1>5. i = 1 /\ writes' = <<>> /\ writes[1] \in Write
  BY <1>2, <1>4, OneWrite
<1>6. Len(writes') = 0 /\ DOMAIN writes' = {} /\ InFlight = <<>> /\ InFlight' = <<>>
  BY <1>2, <1>5 DEF InFlight
<1>7. CASE writes[1].result = "ok"
  <2>1. pc' = "sended" /\ sending /\ UNCHANGED <<queue, sending>>
    BY <1>1, <1>2, <1>4, <1>5, <1>7 DEF SendLoop
  <2>2. QED
    BY <1>1, <1>3, <1>5, <1>6, <2>1 DEF SendInv, SendLoop, Conservation
<1>8. CASE writes[1].result # "ok"
  <2>1. writes[1].result = "err"
    BY <1>2, <1>5, <1>8 DEF Write, Result
  <2>2. net # "up"
    BY <1>1, <1>2, <1>5, <2>1 DEF SendLoop
  <2>3. pc' = "closing" /\ queue' = <<>> /\ ~sending'
    BY <1>2, <1>5, <1>8
  <2>4. QED
    BY <1>3, <1>5, <1>6, <2>2, <2>3 DEF SendInv, SendLoop, Conservation
<1>9. QED
  BY <1>7, <1>8

\* After OnEvent_Sended the token goes to the next write, or away when nothing is queued.
LEMMA SendNext ==
  ASSUME ReadInv, SendInv, AfterSended
  PROVE  SendInv'
<1> USE DEF netVars, Goto
<1> SUFFICES ASSUME clean, sock PROVE SendInv'
  BY DEF AfterSended, SendInv, SendLoop, Conservation
<1>1. TypeOK /\ SendLoop /\ Conservation /\ queue \in Seq(Frames) /\ wired \in Seq(Frames)
  BY DEF ReadInv, SendInv, TypeOK
<1>2. pc = "sended" /\ pc' = "idle" /\ do_send(queue) /\ UNCHANGED <<sock, net, clean, accepted, wired>>
  BY DEF AfterSended
<1>3. writes = <<>> /\ InFlight = <<>>
  BY <1>1, <1>2 DEF SendLoop, InFlight
<1>4. /\ Len(writes') <= 1 /\ (sending' <=> writes' # <<>>) /\ (queue' # <<>> => sending')
      /\ \A i \in DOMAIN writes' : writes'[i].result # "err"
      /\ InFlight' \o queue' = queue
      /\ InFlight' \in Seq(Frames) /\ queue' \in Seq(Frames)
  BY <1>1, <1>2, <1>3, SendsFirst
<1>5. SendLoop'
  BY <1>2, <1>4 DEF SendLoop
<1>6. ASSUME net = "up" PROVE accepted' = wired' \o InFlight' \o queue'
  <2>1. accepted = wired \o queue
    BY <1>1, <1>2, <1>3, <1>6, ConcatEmptySeq DEF Conservation
  <2>2. (wired \o InFlight') \o queue' = wired \o (InFlight' \o queue')
    <3>1. wired \in Seq(Frames) /\ InFlight' \in Seq(Frames) /\ queue' \in Seq(Frames)
      BY <1>1, <1>4
    <3>2. QED
      BY ONLY <3>1, ConcatAssociative
  <2>3. QED
    BY <1>2, <1>4, <2>1, <2>2
<1>7. QED
  BY <1>2, <1>4, <1>5, <1>6 DEF SendInv, Conservation

\* The frame in flight is written: it moves to the end of what was.
LEMMA SendEnds ==
  ASSUME ReadInv, SendInv, WriteEnds
  PROVE  SendInv'
<1> USE DEF netVars
<1> SUFFICES ASSUME clean, sock PROVE SendInv'
  BY DEF WriteEnds, SendInv, SendLoop, Conservation
<1>1. TypeOK /\ SendLoop /\ Conservation /\ queue \in Seq(Frames) /\ wired \in Seq(Frames)
  BY DEF ReadInv, SendInv, TypeOK
<1>2. PICK i \in DOMAIN writes :
        /\ writes[i].result = "pending"
        /\ writes' = [writes EXCEPT ![i].result = IF net = "up" THEN "ok" ELSE "err"]
        /\ wired' = IF net = "up" THEN Append(wired, writes[i].frame) ELSE wired
  BY DEF WriteEnds
<1>3. UNCHANGED <<sock, net, clean, accepted, queue, sending, pc>>
  BY DEF WriteEnds
<1>4. writes \in Seq(Write) /\ Len(writes) <= 1 /\ writes # <<>>
  <2>1. writes # <<>>
    BY <1>2
  <2>2. QED
    BY <1>1, <2>1 DEF TypeOK, SendLoop
<1>5. i = 1 /\ DOMAIN writes = {1} /\ Len(writes) = 1 /\ writes[1] \in Write
  BY <1>2, <1>4, OneWrite
<1>6. /\ DOMAIN writes' = {1}
      /\ writes'[1].result = IF net = "up" THEN "ok" ELSE "err"
  BY <1>2, <1>5 DEF Write
<1>7. writes' \in Seq(Write)
  BY WriteEnding DEF ReadInv, TypeOK
<1>8. Len(writes') = 1 /\ writes' # <<>>
  BY <1>6, <1>7, LenProperties, EmptySeq
<1>9. SendLoop'
  BY <1>1, <1>3, <1>4, <1>6, <1>8 DEF SendLoop
<1>10. ASSUME net = "up" PROVE accepted' = wired' \o InFlight' \o queue'
  <2> DEFINE f == writes[1].frame
  <2>1. f \in Frames
    BY <1>5 DEF Write
  <2> HIDE DEF f
  <2>2. InFlight = <<f>> /\ InFlight' = <<>>
    BY <1>2, <1>4, <1>5, <1>6, <1>10 DEF InFlight, f
  <2>3. wired' = wired \o <<f>>
    BY <1>1, <1>2, <1>5, <1>10, <2>1, AppendIsConcat DEF f
  <2>4. wired' \in Seq(Frames)
    BY <1>1, <2>1, <2>3, AppendLast
  <2>5. wired' \o InFlight' = wired'
    BY <2>2, <2>4, ConcatEmptySeq
  <2>6. QED
    BY <1>1, <1>3, <1>10, <2>2, <2>3, <2>5 DEF Conservation
<1>11. QED
  BY <1>3, <1>8, <1>9, <1>10 DEF SendInv, Conservation

LEMMA InitInv == Init => IInv
<1> SUFFICES ASSUME Init PROVE IInv
  OBVIOUS
<1>1. ~sock
  BY DEF Init
<1>2. QED
  BY <1>1, ReadInit DEF IInv, SendInv, SendLoop, Conservation

\* Every step keeps the invariant.
LEMMA NextInv == IInv /\ [Next]_vars => IInv'
<1> SUFFICES ASSUME IInv, [Next]_vars PROVE IInv'
  OBVIOUS
<1>1. ReadInv /\ SendInv /\ ReadInv'
  BY ReadNext DEF IInv
<1>2. CASE ConnectSucceeds
  BY <1>1, <1>2, SendConnect DEF IInv
<1>3. CASE ConnectRefused \/ ConnectUnresolved \/ AppCloses \/ AfterClosing
  BY <1>1, <1>3, SendClosed
     DEF IInv, ConnectRefused, ConnectUnresolved, AppCloses, AfterClosing
<1>4. ASSUME NEW f \in Frames, ASync_Send(f) PROVE IInv'
  BY <1>1, <1>4, SendAccept DEF IInv
<1>5. CASE Handler_Receive
  BY <1>1, <1>5, SendKept DEF IInv, Handler_Receive, netVars
<1>6. CASE AfterMessage
  BY <1>1, <1>6, SendKept DEF IInv, AfterMessage, netVars, Goto
<1>7. CASE ReadEnds \/ PeerResets
  BY <1>1, <1>7, SendKept DEF IInv, ReadEnds, PeerResets, netVars
<1>8. CASE WriteHandler
  BY <1>1, <1>8, SendWritten DEF IInv
<1>9. CASE AfterSended
  BY <1>1, <1>9, SendNext DEF IInv
<1>10. CASE WriteEnds
  BY <1>1, <1>10, SendEnds DEF IInv
<1>11. CASE UNCHANGED vars
  BY <1>1, <1>11, SendKept DEF IInv, vars, netVars
<1>12. QED
  BY <1>2, <1>3, <1>4, <1>5, <1>6, <1>7, <1>8, <1>9, <1>10, <1>11
     DEF Next, Application, AfterCall, Network

-----------------------------------------------------------------------------
(* Theorems.                                                                *)

\* The types, what a closed session keeps and both tokens hold of every behaviour.
THEOREM Invariance == Spec => []IInv
<1>1. QED
  BY InitInv, NextInv, PTL DEF Spec

\* Every variable of a client keeps its type, through any calls and connections.
THEOREM TypeCorrect == Spec => []TypeOK
<1>1. IInv => TypeOK
  BY DEF IInv, ReadInv
<1>2. QED
  BY <1>1, Invariance, PTL

\* However often, and in whatever callback, the session is closed and connected again, Close leaves
\* nothing of the old socket pending or queued and the send path ready (Close, Handler_Send).
THEOREM QuietWhenClosed == Spec => []ClosedIsQuiet
<1>1. IInv => ClosedIsQuiet
  BY DEF IInv, ReadInv
<1>2. QED
  BY <1>1, Invariance, PTL

\* A connection made with nothing of an earlier one left behind has exactly one read loop, whatever
\* its callbacks send, close or connect (Async_Receive, Handler_Receive).
THEOREM OneReadLoop == Spec => []OneReader
<1>1. IInv => OneReader
  BY DEF IInv, ReadInv, ReadLoop, OneReader, Outstanding
<1>2. QED
  BY <1>1, Invariance, PTL

\* On such a connection at most one write is outstanding, and while it is up every frame ASync_Send
\* took is written, in flight or queued, in that order: however callbacks send, close and connect.
THEOREM FramesConserved == Spec => []Conservation
<1>1. IInv => Conservation
  BY DEF IInv, SendInv
<1>2. QED
  BY <1>1, Invariance, PTL
=============================================================================
