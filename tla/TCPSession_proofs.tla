------------------------- MODULE TCPSession_proofs -------------------------
(***************************************************************************)
(* Theorems about TCPSession, for any number of threads, any frames and    *)
(* any mode.                                                               *)
(*                                                                         *)
(* The send path works because there is one token: an outstanding write,   *)
(* the holder of m_send_mutex that is about to start one, or a completion  *)
(* handler on its way to do_send.  At most one of them exists at a time,   *)
(* m_bSending is TRUE while it exists (or the socket is gone for good),    *)
(* and while the socket is set m_bSending is TRUE only while it exists.    *)
(* From that follow the receive loop, which lives as long as the           *)
(* connection; the pointers, which one thread without a pool never uses    *)
(* when they dangle; and the refinement of FrameChannel, step by step.     *)
(***************************************************************************)
EXTENDS TCPSession, SequenceTheorems, TLAPS

\* Where each thread can be, and what it holds there.
ControlInv ==
  \A t \in Threads :
    /\ pc[t] = "write" <=> mutex = t
    /\ pc[t] \in {"lock", "write"} => frm[t] \in Frames
    /\ pc[t] = "lock" => ret[t] = "app" \/ (ret[t] = "sent" /\ t = Io)
    /\ pc[t] = "write" => ret[t] \in {"app", "idle"}
    /\ pc[t] \in {"sent", "fail"} => t = Io
    /\ pc[t] \in {"close", "shut", "delete", "null", "drain", "leave"}
         => ret[t] \in {"idle", "emit", "app"}

\* At most one token.
TokenInv ==
  /\ \A v, w \in writes : v = w
  /\ mutex # None => writes = {} /\ ~HandlerRunning
  /\ writes # {} => ~HandlerRunning

\* m_bSending follows the token.
SendingInv ==
  /\ mutex # None => sending
  /\ (writes # {} \/ HandlerRunning) /\ ~sending => ~ptr
  /\ sending /\ ptr => writes # {} \/ mutex # None \/ HandlerRunning
  /\ queue # <<>> /\ ptr => sending

\* A null pointer, a thread past the delete and a failed write all mean that the
\* connection is not up.
SocketInv ==
  /\ ~ptr => sock = "gone"
  /\ \A t \in Threads :
       /\ pc[t] = "delete" => sock \in {"shut", "gone"}
       /\ pc[t] \in {"null", "drain", "leave"} => sock = "gone"
       /\ pc[t] \in {"drain", "leave"} => ~ptr
  /\ pc[Io] = "fail" => sock # "up"
  /\ \A w \in writes : w.st = "err" => sock # "up"

SendInv == TypeOK /\ ControlInv /\ TokenInv /\ SendingInv /\ SocketInv
IInv    == SendInv /\ Conservation

-----------------------------------------------------------------------------
(* Type correctness.                                                        *)

LEMMA TypeInit == Init => TypeOK
<1> SUFFICES ASSUME Init PROVE TypeOK
  OBVIOUS
<1>1. /\ queue \in Seq(Frames) /\ tasks \in Seq(Nat)
      /\ accepted \in Seq(Frames) /\ wire \in Seq(Frames)
  BY EmptySeq DEF Init
<1>2. writes \in SUBSET WriteOp /\ fresh \in SUBSET Frames
  BY DEF Init
<1>3. /\ pc \in [Threads -> Label] /\ ret \in [Threads -> Label]
      /\ frm \in [Threads -> Frames \union {None}]
  BY DEF Init, Label
<1>4. QED
  BY <1>1, <1>2, <1>3 DEF Init, TypeOK, SockState, OpState

\* do_send leaves its results in the sets of the type invariant.
LEMMA DoSendType ==
  ASSUME TypeOK, NEW t \in Threads, NEW q \in Seq(Frames), NEW after \in Label,
         do_send(t, q, after)
  PROVE  /\ queue' \in Seq(Frames) /\ sending' \in BOOLEAN
         /\ mutex' \in Threads \union {None}
         /\ pc' \in [Threads -> Label] /\ ret' \in [Threads -> Label]
         /\ frm' \in [Threads -> Frames \union {None}]
<1>1. CASE q = <<>> \/ ~ptr
  BY <1>1 DEF do_send, TypeOK
<1>2. CASE ~(q = <<>> \/ ~ptr)
  <2>1. Head(q) \in Frames /\ Tail(q) \in Seq(Frames)
    BY <1>2, HeadTailProperties
  <2>2. QED
    BY <1>2, <2>1 DEF do_send, TypeOK, Label
<1>3. QED
  BY <1>1, <1>2

LEMMA TypeNetwork == TypeOK /\ Network => TypeOK'
<1> SUFFICES ASSUME TypeOK, Network PROVE TypeOK'
  OBVIOUS
<1> USE DEF TypeOK, netVars, sendVars, recvVars, appVars, ctlVars
<1>1. ASSUME NEW w \in writes, WriteDone(w) PROVE TypeOK'
  BY <1>1 DEF WriteDone, WriteOp, OpState
<1>2. ASSUME NEW w \in writes, WriteFail(w) PROVE TypeOK'
  BY <1>2 DEF WriteFail, WriteOp, OpState
<1>3. CASE PeerReset
  BY <1>3 DEF PeerReset, SockState
<1>4. CASE ReadDone \/ ReadFail
  BY <1>4 DEF ReadDone, ReadFail, OpState
<1>5. QED
  BY <1>1, <1>2, <1>3, <1>4 DEF Network

LEMMA TypeSend ==
  ASSUME TypeOK, NEW t \in Threads, SendStep(t), ControlInv
  PROVE  TypeOK'
<1> USE DEF TypeOK, netVars, sendVars, recvVars, appVars, ctlVars
<1>1. CASE ASync_Send(t)
  BY <1>1 DEF ASync_Send, Label
<1>2. CASE Push(t)
  <2>1. frm[t] \in Frames
    BY <1>2 DEF Push, ControlInv
  <2>2. accepted' \in Seq(Frames) /\ Append(queue, frm[t]) \in Seq(Frames)
    BY <1>2, <2>1 DEF Push
  <2>3. CASE Idle
    BY <1>2, <2>2, <2>3, DoSendType DEF Push
  <2>4. CASE ~Idle
    BY <1>2, <2>2, <2>4 DEF Push, Label
  <2>5. QED
    BY <2>3, <2>4
<1>3. CASE StartWrite(t)
  <2>1. frm[t] \in Frames
    BY <1>3 DEF StartWrite, Goto, ControlInv
  <2>2. writes' \in SUBSET WriteOp
    BY <1>3, <2>1 DEF StartWrite, WriteOp, OpState
  <2>3. QED
    BY <1>3, <2>2 DEF StartWrite, Goto
<1>4. QED
  BY <1>1, <1>2, <1>3 DEF SendStep

LEMMA TypeClose ==
  ASSUME TypeOK, NEW t \in Threads, CloseStep(t)
  PROVE  TypeOK'
<1> USE DEF TypeOK, netVars, sendVars, recvVars, appVars, ctlVars, Goto
<1>1. CASE CloseTest(t)
  BY <1>1 DEF CloseTest, Label
<1>2. CASE CloseShut(t)
  <2>1. writes' \in SUBSET WriteOp
    BY <1>2 DEF CloseShut, WriteOp, OpState
  <2>2. QED
    BY <1>2, <2>1 DEF CloseShut, Label, SockState, OpState
<1>3. CASE CloseDelete(t)
  BY <1>3 DEF CloseDelete, Label, SockState
<1>4. CASE CloseNull(t)
  BY <1>4 DEF CloseNull, Label
<1>5. CASE CloseDrain(t)
  BY <1>5, EmptySeq DEF CloseDrain, Label
<1>6. CASE CloseLeave(t)
  BY <1>6, ModeAssumption DEF CloseLeave, Label
<1>7. QED
  BY <1>1, <1>2, <1>3, <1>4, <1>5, <1>6 DEF CloseStep

LEMMA TypeIo ==
  ASSUME TypeOK, IoStep
  PROVE  TypeOK'
<1> USE DEF TypeOK, netVars, sendVars, recvVars, appVars, ctlVars, Goto
<1>io. Io \in Threads
  BY DEF Threads
<1>1. ASSUME NEW w \in writes, RunWriteHandler(w) PROVE TypeOK'
  BY <1>io, <1>1 DEF RunWriteHandler, Label
<1>2. CASE Resume
  BY <1>io, <1>2, DoSendType DEF Resume, Label
<1>3. CASE WriteError
  BY <1>io, <1>3, EmptySeq DEF WriteError, Label
<1>4. CASE RunReadHandler
  <2>1. read' \in OpState \union {"none"}
    BY <1>4 DEF RunReadHandler
  <2>2. CASE ptr /\ read = "ok"
    <3>1. emits' \in Nat
      BY <1>4, <2>2, BoundAssumption DEF RunReadHandler
    <3>2. pc' \in [Threads -> Label] /\ ret' \in [Threads -> Label]
      BY <1>io, <1>4, <2>2 DEF RunReadHandler, Label
    <3>3. QED
      BY <1>4, <2>1, <3>1, <3>2 DEF RunReadHandler
  <2>3. CASE ~(ptr /\ read = "ok")
    BY <1>io, <1>4, <2>1, <2>3 DEF RunReadHandler, Label
  <2>4. QED
    BY <2>2, <2>3
<1>5. CASE Emit
  <2>1. tasks' \in Seq(Nat) /\ emits' \in Nat /\ msgs' \in Nat
    <3>1. emits' \in Nat /\ msgs' \in Nat
      BY <1>5 DEF Emit
    <3>2. tasks' = Append(tasks, msgs + 1) \/ tasks' = tasks
      BY <1>5 DEF Emit
    <3>3. Append(tasks, msgs + 1) \in Seq(Nat)
      OBVIOUS
    <3>4. QED
      BY <3>1, <3>2, <3>3
  <2>2. QED
    BY <1>io, <1>5, <2>1 DEF Emit, Label
<1>6. CASE Rearm
  BY <1>io, <1>6 DEF Rearm, Label
<1>7. CASE Arm
  BY <1>io, <1>7 DEF Arm, Label, OpState
<1>8. QED
  BY <1>1, <1>2, <1>3, <1>4, <1>5, <1>6, <1>7 DEF IoStep

\* The steps of a thread inside the application, of a worker that takes a task, and the
\* undefined one.
LEMMA TypeRest ==
  ASSUME TypeOK, NEW t \in Threads, AppStep(t) \/ SyncStep(t) \/ TakeTask(t) \/ Undefined(t)
  PROVE  TypeOK'
<1> USE DEF TypeOK, netVars, sendVars, recvVars, appVars, ctlVars, Goto
<1>1. CASE AppStep(t)
  BY <1>1 DEF AppStep, OnMessageReturns, OnMessageCloses, AfterMessage, Label
<1>0. CASE SyncStep(t)
  BY <1>0 DEF SyncStep, Sync_Send, SyncSendDone, Label
<1>2. CASE TakeTask(t)
  <2>1. tasks' \in Seq(Nat)
    BY <1>2, HeadTailProperties DEF TakeTask
  <2>2. QED
    BY <1>2, <2>1 DEF TakeTask, Label
<1>3. CASE Undefined(t)
  BY <1>3 DEF Undefined
<1>4. QED
  BY <1>0, <1>1, <1>2, <1>3

LEMMA TypeStep ==
  ASSUME TypeOK, ControlInv, [Next]_vars
  PROVE  TypeOK'
<1>1. CASE ~ub /\ Network
  BY <1>1, TypeNetwork
<1>2. ASSUME NEW t \in Threads, ThreadStep(t) PROVE TypeOK'
  BY <1>2, TypeSend, TypeClose, TypeIo, TypeRest DEF ThreadStep
<1>3. CASE UNCHANGED vars
  BY <1>3 DEF TypeOK, vars, netVars, sendVars, recvVars, appVars, ctlVars
<1>4. QED
  BY <1>1, <1>2, <1>3 DEF Next

-----------------------------------------------------------------------------
(* The token.                                                               *)

\* The labels of the send path and of the steps of Close after m_pSocket->close().
Critical == {"lock", "write", "sent", "fail", "delete", "null", "drain", "leave"}

\* The initial state has no token, an empty queue and a connected socket.
LEMMA SendInit == Init => SendInv
<1> SUFFICES ASSUME Init PROVE SendInv
  OBVIOUS
<1>1. Io \in Threads /\ None \notin Threads
  BY ThreadAssumption DEF Threads
<1>2. ControlInv /\ TokenInv
  BY <1>1 DEF Init, ControlInv, TokenInv, HandlerRunning
<1>3. SendingInv /\ SocketInv
  BY <1>1 DEF Init, SendingInv, SocketInv, HandlerRunning
<1>4. QED
  BY <1>2, <1>3, TypeInit DEF SendInv

\* A step of t that stays away from the send path, from the end of Close and from the
\* socket preserves the invariant.
LEMMA QuietStep ==
  ASSUME SendInv, NEW t \in Threads, NEW l \in Label \ Critical,
         pc[t] \notin {"lock", "write", "sent", "fail"}, pc' = [pc EXCEPT ![t] = l],
         \A u \in Threads : u # t => ret'[u] = ret[u],
         l \in {"close", "shut"} => ret'[t] \in {"idle", "emit", "app"},
         UNCHANGED <<ptr, sock, queue, sending, mutex, writes, frm>>
  PROVE  ControlInv' /\ TokenInv' /\ SendingInv' /\ SocketInv'
<1> USE DEF SendInv, TypeOK
<1>1. Io \in Threads
  BY DEF Threads
<1>2. mutex # t /\ (HandlerRunning' <=> HandlerRunning)
  BY <1>1 DEF ControlInv, HandlerRunning, Critical
<1>3. ControlInv'
  BY <1>1, <1>2 DEF ControlInv, Critical
<1>4. TokenInv' /\ SendingInv'
  BY <1>2 DEF TokenInv, SendingInv
<1>5. SocketInv'
  BY <1>1 DEF SocketInv, Critical
<1>6. QED
  BY <1>3, <1>4, <1>5

LEMMA SendNetwork ==
  ASSUME SendInv, Network
  PROVE  ControlInv' /\ TokenInv' /\ SendingInv' /\ SocketInv'
<1> USE DEF SendInv, netVars, sendVars, recvVars, appVars, ctlVars
<1>1. ASSUME NEW w \in writes, WriteDone(w) \/ WriteFail(w)
      PROVE  ControlInv' /\ TokenInv' /\ SendingInv' /\ SocketInv'
  <2>1. HandlerRunning' <=> HandlerRunning
    BY <1>1 DEF WriteDone, WriteFail, HandlerRunning
  <2>2. writes = {w} /\ \E s \in {"ok", "err"} : writes' = {[w EXCEPT !.st = s]}
    BY <1>1 DEF WriteDone, WriteFail, TokenInv
  <2>3. ControlInv'
    BY <1>1 DEF ControlInv, WriteDone, WriteFail
  <2>4. TokenInv' /\ SendingInv'
    BY <1>1, <2>1, <2>2 DEF TokenInv, SendingInv, WriteDone, WriteFail
  <2>5. SocketInv'
    BY <1>1, <2>2 DEF SocketInv, WriteDone, WriteFail, TypeOK, WriteOp
  <2>6. QED
    BY <2>3, <2>4, <2>5
<1>2. CASE PeerReset \/ ReadDone \/ ReadFail
  BY <1>2 DEF PeerReset, ReadDone, ReadFail, ControlInv, TokenInv, SendingInv, SocketInv,
              HandlerRunning
<1>3. QED
  BY <1>1, <1>2 DEF Network


LEMMA SendASync ==
  ASSUME SendInv, NEW t \in Threads, ASync_Send(t)
  PROVE  ControlInv' /\ TokenInv' /\ SendingInv' /\ SocketInv'
<1> USE DEF SendInv, TypeOK, netVars, sendVars, ASync_Send
<1>1. Io \in Threads
  BY DEF Threads
<1>2. HandlerRunning' <=> HandlerRunning
  BY <1>1 DEF HandlerRunning
<1>3. ControlInv'
  BY <1>1 DEF ControlInv
<1>4. TokenInv' /\ SendingInv'
  BY <1>2 DEF TokenInv, SendingInv
<1>5. SocketInv'
  BY <1>1 DEF SocketInv
<1>6. QED
  BY <1>3, <1>4, <1>5

\* A frame is pushed: with a token, or no socket, nothing is started; without a token the
\* pusher becomes the token.
LEMMA SendPush ==
  ASSUME SendInv, NEW t \in Threads, Push(t)
  PROVE  ControlInv' /\ TokenInv' /\ SendingInv' /\ SocketInv'
<1> USE DEF SendInv, TypeOK, netVars
<1>1. Io \in Threads /\ None \notin Threads
  BY ThreadAssumption DEF Threads
<1>2. /\ pc[t] = "lock" /\ mutex = None /\ frm[t] \in Frames
      /\ ret[t] = "app" \/ (ret[t] = "sent" /\ t = Io)
  BY DEF Push, ControlInv
<1>3. UNCHANGED <<ptr, sock, writes>>
  BY DEF Push
<1>4. Append(queue, frm[t]) \in Seq(Frames) /\ Append(queue, frm[t]) # <<>>
  BY <1>2, AppendProperties
<1>5. CASE ~Idle \/ ~ptr
  <2>1. /\ mutex' = None /\ ret' = ret
        /\ pc' = [pc EXCEPT ![t] = ret[t]] /\ frm' = [frm EXCEPT ![t] = None]
    BY <1>2, <1>4, <1>5 DEF Push, do_send
  <2>2. ptr => sending /\ sending'
    BY <1>5 DEF Push, Idle, SendingInv
  <2>3. HandlerRunning' <=> HandlerRunning
    BY <1>1, <1>2, <2>1 DEF HandlerRunning
  <2>4. ControlInv'
    BY <1>1, <1>2, <2>1 DEF ControlInv
  <2>5. TokenInv' /\ SendingInv'
    BY <1>2, <1>3, <2>1, <2>2, <2>3 DEF TokenInv, SendingInv
  <2>6. SocketInv'
    BY <1>1, <1>2, <1>3, <2>1 DEF SocketInv
  <2>7. QED
    BY <2>4, <2>5, <2>6
<1>6. CASE Idle /\ ptr
  <2>1. writes = {} /\ ~HandlerRunning
    BY <1>6 DEF Idle, SendingInv
  <2>2. ret[t] = "app"
    BY <1>2, <2>1 DEF HandlerRunning
  <2>3. Head(Append(queue, frm[t])) \in Frames
    BY <1>4, HeadTailProperties
  <2>4. /\ mutex' = t /\ ret' = ret /\ sending' = TRUE
        /\ pc' = [pc EXCEPT ![t] = "write"]
        /\ frm' = [frm EXCEPT ![t] = Head(Append(queue, frm[t]))]
    BY <1>4, <1>6, <2>2 DEF Push, do_send
  <2>5. ~HandlerRunning'
    BY <1>1, <2>1, <2>4 DEF HandlerRunning
  <2>6. ControlInv'
    BY <1>1, <1>2, <2>2, <2>3, <2>4 DEF ControlInv
  <2>7. TokenInv'
    BY <1>3, <2>1, <2>4, <2>5 DEF TokenInv
  <2>8. SendingInv'
    BY <1>1, <1>3, <2>1, <2>4, <2>5 DEF SendingInv
  <2>9. SocketInv'
    BY <1>1, <1>2, <1>3, <2>4 DEF SocketInv
  <2>10. QED
    BY <2>6, <2>7, <2>8, <2>9
<1>7. QED
  BY <1>5, <1>6

\* The holder of the mutex hands the token to the outstanding write.
LEMMA SendStartWrite ==
  ASSUME SendInv, NEW t \in Threads, StartWrite(t)
  PROVE  ControlInv' /\ TokenInv' /\ SendingInv' /\ SocketInv'
<1> USE DEF SendInv, TypeOK, netVars
<1>1. Io \in Threads /\ None \notin Threads
  BY ThreadAssumption DEF Threads
<1>2. /\ mutex = t /\ writes = {} /\ ~HandlerRunning /\ sending
      /\ ret[t] \in {"app", "idle"} /\ pc[t] = "write"
  BY <1>1 DEF StartWrite, Goto, ControlInv, TokenInv, SendingInv
<1>3. /\ mutex' = None /\ pc' = [pc EXCEPT ![t] = ret[t]] /\ sending' = sending
      /\ frm' = [frm EXCEPT ![t] = None]
      /\ UNCHANGED <<ptr, sock, ret, queue>>
  BY DEF StartWrite, Goto
<1>4. ~HandlerRunning'
  BY <1>1, <1>2, <1>3 DEF HandlerRunning
<1>5. writes' = {[frame |-> frm[t], st |-> IF sock = "shut" THEN "err" ELSE "pending"]}
  BY <1>2 DEF StartWrite
<1>6. ControlInv'
  BY <1>1, <1>2, <1>3 DEF ControlInv
<1>7. TokenInv' /\ SendingInv'
  BY <1>2, <1>3, <1>4, <1>5 DEF TokenInv, SendingInv
<1>8. SocketInv'
  BY <1>1, <1>2, <1>3, <1>5 DEF SocketInv
<1>9. QED
  BY <1>6, <1>7, <1>8

\* The outstanding write hands the token to its completion handler.
LEMMA SendRunWriteHandler ==
  ASSUME SendInv, NEW w \in writes, RunWriteHandler(w)
  PROVE  ControlInv' /\ TokenInv' /\ SendingInv' /\ SocketInv'
<1> USE DEF SendInv, TypeOK, netVars
<1>1. Io \in Threads /\ None \notin Threads
  BY ThreadAssumption DEF Threads
<1>2. writes' = {} /\ mutex = None /\ mutex' = None
  BY DEF RunWriteHandler, TokenInv
<1>3. /\ pc[Io] = "idle" /\ w.st \in {"ok", "err"}
      /\ pc' = [pc EXCEPT ![Io] = IF w.st = "ok" THEN "sent" ELSE "fail"]
  BY DEF RunWriteHandler, Goto, WriteOp, OpState
<1>4. UNCHANGED <<ptr, sock, queue, sending, ret, frm>>
  BY DEF RunWriteHandler, appVars
<1>5. ControlInv'
  BY <1>1, <1>2, <1>3, <1>4 DEF ControlInv
<1>6. TokenInv'
  BY <1>2 DEF TokenInv
<1>7. HandlerRunning'
  BY <1>1, <1>3 DEF HandlerRunning
<1>8. SendingInv'
  BY <1>2, <1>4, <1>7 DEF SendingInv
<1>9. SocketInv'
  BY <1>1, <1>2, <1>3, <1>4 DEF SocketInv
<1>10. QED
  BY <1>5, <1>6, <1>8, <1>9

\* The handler calls do_send: the token becomes the io thread holding the mutex, or it
\* disappears because nothing is queued.
LEMMA SendResume ==
  ASSUME SendInv, Resume
  PROVE  ControlInv' /\ TokenInv' /\ SendingInv' /\ SocketInv'
<1> USE DEF SendInv, TypeOK, netVars
<1>1. Io \in Threads /\ None \notin Threads
  BY ThreadAssumption DEF Threads
<1>2. pc[Io] = "sent" /\ mutex = None /\ UNCHANGED <<ptr, sock, writes>>
  BY DEF Resume
<1>3. writes = {}
  BY <1>2 DEF TokenInv, HandlerRunning
<1>4. CASE queue = <<>> \/ ~ptr
  <2>1. /\ mutex' = None /\ ret' = ret /\ sending' = FALSE /\ queue' = queue
        /\ pc' = [pc EXCEPT ![Io] = "idle"] /\ frm' = [frm EXCEPT ![Io] = None]
    BY <1>2, <1>4 DEF Resume, do_send
  <2>2. ~HandlerRunning'
    BY <1>1, <2>1 DEF HandlerRunning
  <2>3. ControlInv'
    BY <1>1, <1>2, <2>1 DEF ControlInv
  <2>4. TokenInv' /\ SendingInv'
    BY <1>2, <1>3, <1>4, <2>1, <2>2 DEF TokenInv, SendingInv
  <2>5. SocketInv'
    BY <1>1, <1>2, <1>3, <2>1 DEF SocketInv
  <2>6. QED
    BY <2>3, <2>4, <2>5
<1>5. CASE ~(queue = <<>> \/ ~ptr)
  <2>1. Head(queue) \in Frames
    BY <1>5, HeadTailProperties
  <2>2. /\ mutex' = Io /\ ret' = [ret EXCEPT ![Io] = "idle"] /\ sending' = TRUE
        /\ pc' = [pc EXCEPT ![Io] = "write"] /\ frm' = [frm EXCEPT ![Io] = Head(queue)]
    BY <1>5 DEF Resume, do_send
  <2>3. ~HandlerRunning'
    BY <1>1, <2>2 DEF HandlerRunning
  <2>4. ControlInv'
    BY <1>1, <1>2, <2>1, <2>2 DEF ControlInv
  <2>5. TokenInv' /\ SendingInv'
    BY <1>1, <1>2, <1>3, <2>2, <2>3 DEF TokenInv, SendingInv
  <2>6. SocketInv'
    BY <1>1, <1>2, <1>3, <2>2 DEF SocketInv
  <2>7. QED
    BY <2>4, <2>5, <2>6
<1>6. QED
  BY <1>4, <1>5

\* The error branch drops the queue together with the token.
LEMMA SendWriteError ==
  ASSUME SendInv, WriteError
  PROVE  ControlInv' /\ TokenInv' /\ SendingInv' /\ SocketInv'
<1> USE DEF SendInv, TypeOK, netVars, appVars, WriteError, Goto
<1>1. Io \in Threads /\ None \notin Threads
  BY ThreadAssumption DEF Threads
<1>2. writes = {} /\ ~HandlerRunning'
  BY <1>1 DEF TokenInv, HandlerRunning
<1>3. ControlInv'
  BY <1>1 DEF ControlInv
<1>4. TokenInv' /\ SendingInv'
  BY <1>2 DEF TokenInv, SendingInv
<1>5. SocketInv'
  BY <1>1, <1>2 DEF SocketInv
<1>6. QED
  BY <1>3, <1>4, <1>5

\* The receive loop, the workers and the application: quiet steps.
LEMMA SendQuiet ==
  ASSUME SendInv, NEW t \in Threads,
         \/ AppStep(t) \/ SyncStep(t) \/ TakeTask(t) \/ CloseTest(t)
         \/ t = Io /\ (RunReadHandler \/ Emit \/ Rearm \/ Arm)
  PROVE  ControlInv' /\ TokenInv' /\ SendingInv' /\ SocketInv'
<1> USE DEF netVars, sendVars, appVars, ctlVars, Goto
<1>1. CASE AppStep(t)
  <2>1. PICK l \in {"emit", "idle", "close"} :
           /\ pc' = [pc EXCEPT ![t] = l]
           /\ l = "close" => ret'[t] \in {"idle", "emit", "app"}
    BY <1>1 DEF AppStep, OnMessageReturns, OnMessageCloses, AfterMessage, SendInv, TypeOK
  <2>2. QED
    BY <1>1, <2>1, QuietStep
       DEF AppStep, OnMessageReturns, OnMessageCloses, Label, Critical, SendInv, TypeOK
<1>0. CASE SyncStep(t)
  <2>1. PICK l \in {"sync", "app", "close"} :
           /\ pc' = [pc EXCEPT ![t] = l]
           /\ l = "close" => ret'[t] \in {"idle", "emit", "app"}
    BY <1>0 DEF SyncStep, Sync_Send, SyncSendDone, SendInv, TypeOK
  <2>2. QED
    BY <1>0, <2>1, QuietStep
       DEF SyncStep, Sync_Send, SyncSendDone, Label, Critical, SendInv, TypeOK
<1>2. CASE TakeTask(t)
  BY <1>2, QuietStep DEF TakeTask, Label, Critical
<1>3. CASE CloseTest(t)
  <2>1. ret[t] \in {"idle", "emit", "app"}
    BY <1>3 DEF CloseTest, SendInv, ControlInv
  <2>2. PICK l \in {"shut", "idle", "emit", "app"} : pc' = [pc EXCEPT ![t] = l]
    BY <1>3, <2>1 DEF CloseTest
  <2>3. QED
    BY <1>3, <2>1, <2>2, QuietStep DEF CloseTest, Label, Critical
<1>4. CASE t = Io /\ (RunReadHandler \/ Emit \/ Rearm \/ Arm)
  <2>1. PICK l \in {"idle", "close", "emit", "app", "arm"} :
           /\ pc' = [pc EXCEPT ![Io] = l]
           /\ l = "close" => ret'[Io] \in {"idle", "emit", "app"}
    <3>1. CASE RunReadHandler
      <4>1. CASE ~ptr
        BY <1>4, <3>1, <4>1 DEF RunReadHandler, SendInv, TypeOK
      <4>2. CASE ptr
        BY <1>4, <3>1, <4>2 DEF RunReadHandler, SendInv, TypeOK
      <4>3. QED
        BY <4>1, <4>2
    <3>2. CASE Emit
      BY <1>4, <3>2 DEF Emit, SendInv, TypeOK
    <3>3. CASE Rearm \/ Arm
      BY <1>4, <3>3 DEF Rearm, Arm, SendInv, TypeOK
    <3>4. QED
      BY <1>4, <3>1, <3>2, <3>3
  <2>2. pc[Io] \notin {"lock", "write", "sent", "fail"}
    BY <1>4 DEF RunReadHandler, Emit, Rearm, Arm
  <2>3. /\ UNCHANGED <<ptr, sock, queue, sending, mutex, writes, frm>>
        /\ \A u \in Threads : u # Io => ret'[u] = ret[u]
    BY <1>4 DEF RunReadHandler, Emit, Rearm, Arm, SendInv, TypeOK
  <2>4. QED
    BY <1>4, <2>1, <2>2, <2>3, QuietStep DEF Label, Critical
<1>5. QED
  BY <1>0, <1>1, <1>2, <1>3, <1>4

\* The rest of Close: the outstanding write is aborted, the socket deleted, the pointer
\* nulled, and only then the queue drained.
LEMMA SendClose ==
  ASSUME SendInv, NEW t \in Threads, CloseStep(t), ~CloseTest(t)
  PROVE  ControlInv' /\ TokenInv' /\ SendingInv' /\ SocketInv'
<1> USE DEF SendInv, TypeOK, netVars, sendVars, appVars, Goto
<1>1. Io \in Threads /\ None \notin Threads
  BY ThreadAssumption DEF Threads
<1>2. PICK l \in {"delete", "null", "drain", "leave", "idle", "emit", "app"} :
         pc' = [pc EXCEPT ![t] = l] /\ pc[t] \in {"shut", "delete", "null", "drain", "leave"}
  BY DEF CloseStep, CloseShut, CloseDelete, CloseNull, CloseDrain, CloseLeave, ControlInv
<1>3. UNCHANGED <<mutex, ret, frm>>
  BY DEF CloseStep, CloseShut, CloseDelete, CloseNull, CloseDrain, CloseLeave
<1>4. ret[t] \in {"idle", "emit", "app"}
  BY <1>2 DEF ControlInv
<1>5. ControlInv' /\ (HandlerRunning' <=> HandlerRunning)
  BY <1>1, <1>2, <1>3, <1>4 DEF ControlInv, HandlerRunning
<1>6. CASE CloseShut(t)
  <2> DEFINE Abort(w) == [w EXCEPT !.st = IF @ = "pending" THEN "err" ELSE @]
  <2>0. writes' = {Abort(w) : w \in writes}
    BY <1>6 DEF CloseShut
  <2>1. writes' = {} <=> writes = {}
    <3> HIDE DEF Abort
    <3>1. QED
      BY <2>0
  <2>2. \A v, w \in writes' : v = w
    BY <1>6 DEF CloseShut, TokenInv
  <2>3. TokenInv' /\ SendingInv'
    BY <1>3, <1>5, <1>6, <2>1, <2>2 DEF CloseShut, TokenInv, SendingInv
  <2>4. SocketInv'
    BY <1>1, <1>6 DEF CloseShut, SocketInv
  <2>5. QED
    BY <1>5, <2>3, <2>4
<1>7. CASE CloseDelete(t)
  BY <1>1, <1>5, <1>7 DEF CloseDelete, TokenInv, SendingInv, SocketInv
<1>8. CASE CloseNull(t)
  BY <1>1, <1>5, <1>8 DEF CloseNull, TokenInv, SendingInv, SocketInv
<1>9. CASE CloseDrain(t)
  <2>1. ~ptr
    BY <1>9 DEF CloseDrain, SocketInv
  <2>2. QED
    BY <1>1, <1>5, <1>9, <2>1 DEF CloseDrain, TokenInv, SendingInv, SocketInv
<1>10. CASE CloseLeave(t)
  <2>1. SocketInv'
    BY <1>1, <1>4, <1>10 DEF CloseLeave, SocketInv
  <2>2. QED
    BY <1>5, <1>10, <2>1 DEF CloseLeave, TokenInv, SendingInv
<1>11. QED
  BY <1>6, <1>7, <1>8, <1>9, <1>10 DEF CloseStep

LEMMA SendStep_Inv ==
  ASSUME SendInv, [Next]_vars
  PROVE  SendInv'
<1> USE DEF netVars, sendVars, recvVars, appVars, ctlVars
<1>1. TypeOK'
  BY TypeStep DEF SendInv
<1>2. CASE ~ub /\ Network
  BY <1>1, <1>2, SendNetwork DEF SendInv
<1>3. ASSUME NEW t \in Threads, ThreadStep(t) PROVE SendInv'
  <2>1. CASE SendStep(t)
    BY <1>1, <2>1, SendASync, SendPush, SendStartWrite DEF SendStep, SendInv
  <2>2. CASE CloseStep(t)
    BY <1>1, <2>2, SendClose, SendQuiet DEF SendInv
  <2>3. CASE AppStep(t) \/ SyncStep(t) \/ TakeTask(t)
    BY <1>1, <2>3, SendQuiet DEF SendInv
  <2>4. CASE Undefined(t)
    BY <1>1, <2>4 DEF Undefined, SendInv, ControlInv, TokenInv, SendingInv, SocketInv,
                      HandlerRunning
  <2>5. CASE t = Io /\ IoStep
    <3>1. CASE \E w \in writes : RunWriteHandler(w)
      BY <1>1, <3>1, SendRunWriteHandler DEF SendInv
    <3>2. CASE Resume \/ WriteError
      BY <1>1, <3>2, SendResume, SendWriteError DEF SendInv
    <3>3. CASE RunReadHandler \/ Emit \/ Rearm \/ Arm
      BY <1>1, <2>5, <3>3, SendQuiet DEF SendInv
    <3>4. QED
      BY <2>5, <3>1, <3>2, <3>3 DEF IoStep
  <2>6. QED
    BY <1>3, <2>1, <2>2, <2>3, <2>4, <2>5 DEF ThreadStep
<1>4. CASE UNCHANGED vars
  BY <1>1, <1>4 DEF vars, SendInv, ControlInv, TokenInv, SendingInv, SocketInv, HandlerRunning
<1>5. QED
  BY <1>2, <1>3, <1>4 DEF Next

THEOREM SendInvariant == Spec => []SendInv
<1>1. Init => SendInv
  BY SendInit
<1>2. SendInv /\ [Next]_vars => SendInv'
  BY SendStep_Inv
<1>3. QED
  BY <1>1, <1>2, PTL DEF Spec

\* Every variable keeps its type, for any set of workers and any frames.
THEOREM TypeCorrect == Spec => []TypeOK
<1>1. SendInv => TypeOK
  BY DEF SendInv
<1>2. QED
  BY <1>1, SendInvariant, PTL

\* ASync_Send never has two writes outstanding on the socket, nor starts one while one is.
THEOREM OneWriter == Spec => []SingleWriter
<1>1. SendInv => SingleWriter
  BY DEF SendInv, TokenInv, SingleWriter
<1>2. QED
  BY <1>1, SendInvariant, PTL

\* A frame queued on a set socket always has somebody who will send it.
THEOREM NoLostWakeup == Spec => []NoStrandedFrame
<1>1. SendInv => NoStrandedFrame
  BY DEF SendInv, SendingInv, NoStrandedFrame
<1>2. QED
  BY <1>1, SendInvariant, PTL

-----------------------------------------------------------------------------
(* The receive loop.                                                        *)

ReadLoop == SendInv /\ Listening

\* The steps of the io thread in Handler_Receive, whatever ReadLoop says it is in.
LEMMA ListeningIo ==
  ASSUME ReadLoop, IoStep
  PROVE  Listening'
<1> USE DEF ReadLoop, SendInv, TypeOK, Listening, netVars, sendVars, recvVars, appVars, ctlVars
<1>io. Io \in Threads
  BY DEF Threads
<1>1. CASE \E w \in writes : RunWriteHandler(w)
  BY <1>1, <1>io DEF RunWriteHandler, Goto
<1>2. CASE Resume \/ WriteError
  BY <1>2, <1>io DEF Resume, WriteError, do_send, Goto
<1>3. CASE RunReadHandler
  BY <1>3, <1>io DEF RunReadHandler, SocketInv
<1>4. CASE Emit
  BY <1>4, <1>io DEF Emit
<1>5. CASE Rearm
  BY <1>5, <1>io DEF Rearm, SocketInv
<1>6. CASE Arm
  BY <1>6, <1>io DEF Arm, Goto
<1>7. QED
  BY <1>1, <1>2, <1>3, <1>4, <1>5, <1>6 DEF IoStep

\* Any thread in ASync_Send, Sync_Send, OnMessage or Close: the io thread comes back to where it
\* was called, and Close by anybody ends the connection.
LEMMA ListeningThread ==
  ASSUME ReadLoop, NEW t \in Threads,
         SendStep(t) \/ SyncStep(t) \/ CloseStep(t) \/ AppStep(t) \/ TakeTask(t) \/ Undefined(t)
  PROVE  Listening'
<1> USE DEF ReadLoop, SendInv, TypeOK, Listening, netVars, sendVars, recvVars, appVars, ctlVars,
            Goto
<1>io. Io \in Threads
  BY DEF Threads
<1>1. CASE ASync_Send(t)
  BY <1>1, <1>io DEF ASync_Send
<1>2. CASE Push(t)
  <2>1. ret'[t] = ret[t] /\ pc' \in {[pc EXCEPT ![t] = "write"], [pc EXCEPT ![t] = ret[t]]}
    BY <1>2 DEF Push, do_send
  <2>2. \A u \in Threads : u # t => ret'[u] = ret[u]
    BY <1>2 DEF Push, do_send
  <2>3. UNCHANGED <<sock, read>> /\ pc[t] = "lock"
    BY <1>2 DEF Push
  <2>4. QED
    BY <1>io, <2>1, <2>2, <2>3
<1>3. CASE StartWrite(t)
  BY <1>3, <1>io DEF StartWrite
<1>4. CASE SyncStep(t)
  BY <1>4, <1>io DEF SyncStep, Sync_Send, SyncSendDone
<1>5. CASE CloseStep(t)
  <2>1. CASE CloseTest(t)
    BY <1>io, <2>1 DEF CloseTest, SocketInv
  <2>2. CASE CloseShut(t) \/ CloseDelete(t)
    BY <2>2 DEF CloseShut, CloseDelete
  <2>3. CASE CloseNull(t) \/ CloseDrain(t) \/ CloseLeave(t)
    BY <2>3 DEF CloseNull, CloseDrain, CloseLeave, SocketInv
  <2>4. QED
    BY <1>5, <2>1, <2>2, <2>3 DEF CloseStep
<1>6. CASE AppStep(t)
  BY <1>6, <1>io DEF AppStep, OnMessageReturns, OnMessageCloses, AfterMessage
<1>7. CASE TakeTask(t)
  BY <1>7, <1>io DEF TakeTask
<1>8. CASE Undefined(t)
  BY <1>8 DEF Undefined
<1>9. QED
  BY <1>1, <1>2, <1>3, <1>4, <1>5, <1>6, <1>7, <1>8 DEF SendStep

LEMMA ListeningStep ==
  ASSUME ReadLoop, [Next]_vars
  PROVE  Listening'
<1>1. CASE ~ub /\ Network
  BY <1>1 DEF Network, WriteDone, WriteFail, PeerReset, ReadDone, ReadFail, ReadLoop, Listening,
              netVars, recvVars, ctlVars
<1>2. ASSUME NEW t \in Threads, ThreadStep(t) PROVE Listening'
  BY <1>2, ListeningIo, ListeningThread DEF ThreadStep
<1>3. CASE UNCHANGED vars
  BY <1>3 DEF ReadLoop, Listening, vars, netVars, recvVars, ctlVars
<1>4. QED
  BY <1>1, <1>2, <1>3 DEF Next

\* Whatever the application and the workers do, a connection that is up is always being read,
\* decoded or closed: no path through Handler_Receive leaves without Async_Receive or Close.
THEOREM AlwaysListening == Spec => []Listening
<1>1. Init => ReadLoop
  BY SendInit DEF ReadLoop, Init, Listening
<1>2. ReadLoop /\ [Next]_vars => ReadLoop'
  BY SendStep_Inv, ListeningStep DEF ReadLoop
<1>3. ReadLoop => Listening
  BY DEF ReadLoop
<1>4. QED
  BY <1>1, <1>2, <1>3, PTL DEF Spec

-----------------------------------------------------------------------------
(* One thread, no pool.                                                     *)

\* With one thread nothing comes between a test of m_pSocket and its use, nor between the steps
\* of Close, and without a pool nobody deletes the session.
PointerInv ==
  /\ alive /\ ~ub
  /\ sock = "gone" /\ ptr => pc[Io] = "null"
  /\ pc[Io] \in {"write", "shut", "arm", "sync"} => ptr
  /\ pc[Io] = "delete" => sock = "shut"

Alone == SendInv /\ PointerInv

LEMMA PointerNetwork ==
  ASSUME Alone, Network
  PROVE  PointerInv'
<1> USE DEF Alone, PointerInv, netVars, ctlVars
<1>1. ASSUME NEW w \in writes, WriteDone(w) PROVE PointerInv'
  <2>1. UNCHANGED <<netVars, ctlVars, ub>>
    BY <1>1 DEF WriteDone
  <2>2. QED
    BY <2>1
<1>2. ASSUME NEW w \in writes, WriteFail(w) PROVE PointerInv'
  <2>1. UNCHANGED <<netVars, ctlVars, ub>>
    BY <1>2 DEF WriteFail
  <2>2. QED
    BY <2>1
<1>3. CASE PeerReset
  BY <1>3 DEF PeerReset
<1>4. CASE ReadDone
  BY <1>4 DEF ReadDone
<1>5. CASE ReadFail
  BY <1>5 DEF ReadFail
<1>6. QED
  BY <1>1, <1>2, <1>3, <1>4, <1>5 DEF Network

LEMMA PointerIo ==
  ASSUME Alone, IoStep
  PROVE  PointerInv'
<1> USE DEF Alone, SendInv, TypeOK, PointerInv, netVars, sendVars, recvVars, appVars, ctlVars
<1>io. Io \in Threads
  BY DEF Threads
<1>1. CASE \E w \in writes : RunWriteHandler(w)
  BY <1>1, <1>io DEF RunWriteHandler, Goto
<1>2. CASE Resume
  BY <1>2, <1>io DEF Resume, do_send
<1>3. CASE WriteError
  BY <1>3, <1>io DEF WriteError, Goto
<1>4. CASE RunReadHandler
  BY <1>4, <1>io DEF RunReadHandler
<1>5. CASE Emit
  BY <1>5, <1>io DEF Emit
<1>6. CASE Rearm
  BY <1>6, <1>io DEF Rearm
<1>7. CASE Arm
  BY <1>7, <1>io DEF Arm, Goto
<1>8. QED
  BY <1>1, <1>2, <1>3, <1>4, <1>5, <1>6, <1>7 DEF IoStep

LEMMA PointerThread ==
  ASSUME Alone, ~Pooled,
         SendStep(Io) \/ SyncStep(Io) \/ CloseStep(Io) \/ AppStep(Io)
  PROVE  PointerInv'
<1> USE DEF Alone, SendInv, TypeOK, PointerInv, netVars, sendVars, recvVars, appVars, ctlVars, Goto
<1>io. Io \in Threads
  BY DEF Threads
<1>1. CASE ASync_Send(Io)
  BY <1>1, <1>io DEF ASync_Send
<1>2. CASE Push(Io)
  <2>1. ret[Io] \in {"app", "sent"} /\ UNCHANGED <<ptr, sock, alive, ub>> /\ pc[Io] = "lock"
    BY <1>2, <1>io DEF Push, ControlInv
  <2>2. \/ pc' = [pc EXCEPT ![Io] = ret[Io]]
        \/ ptr /\ pc' = [pc EXCEPT ![Io] = "write"]
    BY <1>2 DEF Push, do_send
  <2>3. QED
    BY <1>io, <2>1, <2>2
<1>3. CASE StartWrite(Io)
  BY <1>3, <1>io DEF StartWrite, ControlInv
<1>4. CASE Sync_Send(Io)
  BY <1>4, <1>io DEF Sync_Send
<1>5. CASE SyncSendDone(Io)
  BY <1>5, <1>io DEF SyncSendDone
<1>6. CASE OnMessageReturns(Io)
  BY <1>6, <1>io DEF OnMessageReturns, AfterMessage
<1>7. CASE OnMessageCloses(Io)
  BY <1>7, <1>io DEF OnMessageCloses
<1>8. CASE CloseTest(Io)
  BY <1>8, <1>io DEF CloseTest, ControlInv
<1>9. CASE CloseShut(Io)
  <2>1. /\ pc[Io] = "shut" /\ pc' = [pc EXCEPT ![Io] = "delete"] /\ sock' = "shut"
        /\ UNCHANGED <<ptr, alive, ub>>
    BY <1>9 DEF CloseShut
  <2>2. QED
    BY <2>1, <1>io
<1>10. CASE CloseDelete(Io)
  BY <1>10, <1>io DEF CloseDelete
<1>11. CASE CloseNull(Io)
  BY <1>11, <1>io DEF CloseNull
<1>12. CASE CloseDrain(Io)
  BY <1>12, <1>io DEF CloseDrain
<1>13. CASE CloseLeave(Io)
  BY <1>13, <1>io DEF CloseLeave, ControlInv
<1>14. QED
  BY <1>1, <1>2, <1>3, <1>4, <1>5, <1>6, <1>7, <1>8, <1>9, <1>10, <1>11, <1>12, <1>13
     DEF SendStep, SyncStep, AppStep, CloseStep

LEMMA PointerStep ==
  ASSUME Workers = {}, ~Pooled, Alone, [Next]_vars
  PROVE  Alone'
<1>1. SendInv'
  BY SendStep_Inv DEF Alone
<1>2. CASE ~ub /\ Network
  BY <1>1, <1>2, PointerNetwork DEF Alone
<1>3. ASSUME NEW t \in Threads, ThreadStep(t) PROVE Alone'
  <2>1. t = Io
    BY DEF Threads
  <2>2. ~Undefined(t)
    BY <2>1 DEF Undefined, UsesDeadSocket, UsesDeadSession, Alone, PointerInv
  <2>3. QED
    BY <1>1, <1>3, <2>1, <2>2, PointerIo, PointerThread DEF ThreadStep, Alone
<1>4. CASE UNCHANGED vars
  BY <1>1, <1>4 DEF Alone, PointerInv, vars, netVars, ctlVars
<1>5. QED
  BY <1>2, <1>3, <1>4 DEF Next

\* A session without workers and without a pool, however its handlers, its callbacks and its
\* network interleave, never uses a deleted socket or a deleted session.
THEOREM OneThreadIsSafe ==
  ASSUME Workers = {}, ~Pooled
  PROVE  Spec => []NoUndefined
<1>1. Init => Alone
  BY SendInit DEF Alone, PointerInv, Init, Threads
<1>2. Alone /\ [Next]_vars => Alone'
  BY PointerStep
<1>3. Alone => NoUndefined
  BY DEF Alone, PointerInv, NoUndefined
<1>4. QED
  BY <1>1, <1>2, <1>3, PTL DEF Spec

-----------------------------------------------------------------------------
(* The send path as a channel: what the session keeps between its steps.    *)

\* What Carried returns when the mutex is held, and when at most one write is outstanding.
LEMMA CarriedHeld ==
  ASSUME NEW mx, NEW ws, NEW held, mx # None
  PROVE  Carried(mx, ws, held) = <<held[mx]>>
BY DEF Carried

LEMMA CarriedNothing ==
  ASSUME NEW ws, NEW held, \A w \in ws : w.st # "pending"
  PROVE  Carried(None, ws, held) = <<>>
BY DEF Carried

LEMMA CarriedWrite ==
  ASSUME NEW w, NEW held, w.st = "pending"
  PROVE  Carried(None, {w}, held) = <<w.frame>>
BY DEF Carried

\* Taking the first element off a sequence built from it.
LEMMA HeadTailCons ==
  ASSUME NEW S, NEW e \in S, NEW s \in Seq(S)
  PROVE  /\ <<e>> \o s # <<>> /\ Head(<<e>> \o s) = e /\ Tail(<<e>> \o s) = s
         /\ s # <<>> => <<Head(s)>> \o Tail(s) = s
<1>1. <<e>> \in Seq(S) /\ Len(<<e>>) = 1
  OBVIOUS
<1>2. /\ <<e>> \o s \in Seq(S) /\ Len(<<e>> \o s) = 1 + Len(s)
      /\ \A i \in 1 .. 1 + Len(s) : (<<e>> \o s)[i] = IF i <= 1 THEN <<e>>[i] ELSE s[i - 1]
  BY <1>1, ConcatProperties
<1>3. <<e>> \o s # <<>> /\ Head(<<e>> \o s) = e
  BY <1>2, LenProperties
<1>4. Tail(<<e>> \o s) = s
  <2>1. /\ Tail(<<e>> \o s) \in Seq(S) /\ Len(Tail(<<e>> \o s)) = Len(s)
        /\ \A i \in 1 .. Len(s) : Tail(<<e>> \o s)[i] = (<<e>> \o s)[i + 1]
    BY <1>2, <1>3, HeadTailProperties, LenProperties
  <2>2. \A i \in 1 .. Len(s) : Tail(<<e>> \o s)[i] = s[i]
    BY <1>2, <2>1, LenProperties
  <2>3. QED
    BY <2>1, <2>2, SeqEqual
<1>5. ASSUME s # <<>> PROVE <<Head(s)>> \o Tail(s) = s
  <2>1. /\ Head(s) \in S /\ Tail(s) \in Seq(S) /\ Len(Tail(s)) = Len(s) - 1
        /\ \A i \in 1 .. Len(Tail(s)) : Tail(s)[i] = s[i + 1]
    BY <1>5, HeadTailProperties
  <2>2. Len(s) \in Nat \ {0} /\ Head(s) = s[1]
    BY <1>5, LenProperties, EmptySeq
  <2>3. <<Head(s)>> \in Seq(S) /\ Len(<<Head(s)>>) = 1
    BY <2>1
  <2>4. /\ <<Head(s)>> \o Tail(s) \in Seq(S) /\ Len(<<Head(s)>> \o Tail(s)) = Len(s)
        /\ \A i \in 1 .. Len(s) :
             (<<Head(s)>> \o Tail(s))[i] = IF i <= 1 THEN Head(s) ELSE Tail(s)[i - 1]
    BY <2>1, <2>2, <2>3, ConcatProperties
  <2>5. \A i \in 1 .. Len(s) : (<<Head(s)>> \o Tail(s))[i] = s[i]
    BY <2>1, <2>2, <2>4
  <2>6. QED
    BY <2>4, <2>5, SeqEqual
<1>6. QED
  BY <1>3, <1>4, <1>5

\* Appending to the right part of a concatenation appends to the whole.
LEMMA AppendConcat ==
  ASSUME NEW S, NEW s \in Seq(S), NEW q \in Seq(S), NEW e \in S
  PROVE  s \o Append(q, e) = Append(s \o q, e)
<1>1. <<e>> \in Seq(S) /\ s \o q \in Seq(S)
  BY ConcatProperties
<1>2. Append(q, e) = q \o <<e>> /\ Append(s \o q, e) = (s \o q) \o <<e>>
  BY <1>1, AppendIsConcat
<1>3. QED
  BY <1>1, <1>2, ConcatAssociative

-----------------------------------------------------------------------------
(* Steps of the session as steps of the channel.                            *)

ChannelStep == [Channel!Next]_(Channel!vars)

LEMMA ChannelInit == Init => Channel!Init
<1> SUFFICES ASSUME Init PROVE Channel!Init
  OBVIOUS
<1>1. OnTheWay = <<>>
  BY CarriedNothing DEF Init, OnTheWay
<1>2. Pending = <<>>
  BY <1>1, ConcatEmptySeq, EmptySeq DEF Init, Pending
<1>3. QED
  BY <1>2 DEF Init, Channel!Init, Connected

\* A frame on the way is a frame.
LEMMA OnTheWayType == SendInv => OnTheWay \in Seq(Frames)
<1> SUFFICES ASSUME SendInv PROVE OnTheWay \in Seq(Frames)
  OBVIOUS
<1>1. CASE mutex # None
  <2>1. mutex \in Threads /\ frm[mutex] \in Frames
    BY <1>1 DEF SendInv, TypeOK, ControlInv
  <2>2. OnTheWay = <<frm[mutex]>>
    BY <1>1, CarriedHeld DEF OnTheWay
  <2>3. QED
    BY <2>1, <2>2
<1>2. CASE mutex = None /\ \A w \in writes : w.st # "pending"
  BY <1>2, CarriedNothing, EmptySeq DEF OnTheWay
<1>3. ASSUME mutex = None, NEW w \in writes, w.st = "pending"
      PROVE  OnTheWay \in Seq(Frames)
  <2>1. writes = {w} /\ w.frame \in Frames
    BY <1>3 DEF SendInv, TokenInv, TypeOK, WriteOp
  <2>2. OnTheWay = <<w.frame>>
    BY <1>3, <2>1, CarriedWrite DEF OnTheWay
  <2>3. QED
    BY <2>1, <2>2
<1>4. QED
  BY <1>1, <1>2, <1>3

\* A step that leaves the send path and the connection alone leaves the channel alone.
LEMMA ChannelStutter ==
  ASSUME UNCHANGED <<accepted, wire, queue, mutex, writes, frm, sock, ub>>
  PROVE  ChannelStep
BY DEF ChannelStep, Channel!vars, Pending, OnTheWay, Connected

\* The connection breaks, whatever happens to the queue.
LEMMA ChannelBreak ==
  ASSUME Connected, ~Connected', UNCHANGED <<accepted, wire>>
  PROVE  ChannelStep
BY DEF ChannelStep, Channel!Next, Channel!Break, Pending

\* Once it is broken nothing is pending, and frames are accepted for nothing.
LEMMA ChannelBroken ==
  ASSUME ~Connected, ~Connected', wire' = wire,
         accepted' = accepted \/ \E f \in Frames : accepted' = Append(accepted, f)
  PROVE  ChannelStep
<1>1. Pending = <<>> /\ Pending' = <<>> /\ Connected' = Connected
  BY DEF Pending, Connected
<1>2. CASE accepted' = accepted
  BY <1>1, <1>2 DEF ChannelStep, Channel!vars
<1>3. CASE \E f \in Frames : accepted' = Append(accepted, f)
  <2>1. Channel!Accept
    BY <1>1, <1>3 DEF Channel!Accept
  <2>2. QED
    BY <2>1 DEF ChannelStep, Channel!Next
<1>4. QED
  BY <1>2, <1>3

\* While it is up, the network transmits the frame on its way or breaks the connection.
LEMMA ChannelNetwork ==
  ASSUME SendInv, Connected, Network
  PROVE  ChannelStep
<1> USE DEF netVars, sendVars, recvVars, appVars, ctlVars
<1>1. ASSUME NEW w \in writes, WriteDone(w) PROVE ChannelStep
  <2>1. mutex = None /\ writes = {w} /\ w.st = "pending" /\ w.frame \in Frames
    BY <1>1 DEF WriteDone, SendInv, TokenInv, TypeOK, WriteOp
  <2>2. Pending = <<w.frame>> \o queue
    BY <2>1, CarriedWrite DEF Pending, OnTheWay
  <2>3. /\ mutex' = None /\ \A v \in writes' : v.st # "pending"
        /\ UNCHANGED <<queue, accepted>> /\ Connected'
        /\ wire' = Append(wire, w.frame)
    BY <1>1, <2>1 DEF WriteDone, Connected, SendInv, TypeOK, WriteOp
  <2>4. OnTheWay' = <<>>
    BY <2>3, CarriedNothing DEF OnTheWay
  <2>5. Pending' = queue
    BY <2>3, <2>4, ConcatEmptySeq DEF Pending, SendInv, TypeOK
  <2>6. Pending # <<>> /\ Head(Pending) = w.frame /\ Tail(Pending) = queue
    BY <2>1, <2>2, HeadTailCons DEF SendInv, TypeOK
  <2>7. Channel!Transmit
    BY <2>3, <2>5, <2>6 DEF Channel!Transmit
  <2>8. QED
    BY <2>7 DEF ChannelStep, Channel!Next
<1>2. CASE \E w \in writes : WriteFail(w)
  BY <1>2 DEF WriteFail, Connected
<1>3. CASE PeerReset
  BY <1>3, ChannelBreak DEF PeerReset, Connected
<1>4. CASE ReadDone \/ ReadFail
  BY <1>4, ChannelStutter DEF ReadDone, ReadFail
<1>5. QED
  BY <1>1, <1>2, <1>3, <1>4 DEF Network

LEMMA ChannelPush ==
  ASSUME SendInv, Connected, NEW t \in Threads, Push(t)
  PROVE  ChannelStep
<1> USE DEF SendInv, TypeOK, netVars, sendVars, recvVars, appVars, ctlVars
<1>1. /\ frm[t] \in Frames /\ mutex = None /\ accepted' = Append(accepted, frm[t])
      /\ ptr /\ Connected' /\ UNCHANGED <<wire, writes>>
  BY DEF Push, ControlInv, SocketInv, Connected
<1>2. OnTheWay \in Seq(Frames)
  BY OnTheWayType
<1>3. Pending' = Append(Pending, frm[t])
  <2>1. CASE ~Idle
    <3>1. mutex' = None /\ queue' = Append(queue, frm[t])
      BY <1>1, <2>1 DEF Push
    <3>2. OnTheWay' = OnTheWay
      BY <1>1, <3>1 DEF OnTheWay, Carried
    <3>3. QED
      BY <1>1, <1>2, <3>1, <3>2, AppendConcat DEF Pending
  <2>2. CASE Idle
    <3>1. writes = {} /\ queue = <<>>
      BY <1>1, <2>2 DEF Idle, SendingInv
    <3>2. Pending = <<>>
      BY <1>1, <3>1, CarriedNothing, ConcatEmptySeq, EmptySeq DEF Pending, OnTheWay
    <3>3. /\ Append(queue, frm[t]) # <<>>
          /\ Head(Append(queue, frm[t])) = frm[t] /\ Tail(Append(queue, frm[t])) = <<>>
      BY <1>1, <3>1, AppendProperties, HeadTailAppend
    <3>4. mutex' = t /\ queue' = <<>> /\ frm' = [frm EXCEPT ![t] = frm[t]]
      BY <1>1, <2>2, <3>3 DEF Push, do_send
    <3>5. t # None /\ frm'[t] = frm[t]
      BY <3>4, ThreadAssumption
    <3>6. OnTheWay' = <<frm[t]>>
      BY <3>4, <3>5, CarriedHeld DEF OnTheWay
    <3>7. Pending' = <<frm[t]>> \o <<>>
      BY <1>1, <3>4, <3>6 DEF Pending
    <3>8. <<frm[t]>> \o <<>> = <<frm[t]>> /\ Append(<<>>, frm[t]) = <<frm[t]>>
      BY <1>1, ConcatEmptySeq
    <3>9. QED
      BY <3>2, <3>7, <3>8
  <2>3. QED
    BY <2>1, <2>2
<1>4. Channel!Accept
  BY <1>1, <1>3 DEF Channel!Accept
<1>5. QED
  BY <1>4 DEF ChannelStep, Channel!Next

\* The frame stays on its way while it passes from the pusher to the outstanding write.
LEMMA ChannelStartWrite ==
  ASSUME SendInv, Connected, NEW t \in Threads, StartWrite(t)
  PROVE  ChannelStep
<1> USE DEF SendInv, TypeOK, netVars, sendVars, recvVars, appVars, ctlVars
<1>1. mutex = t /\ t # None /\ writes = {}
  BY ThreadAssumption DEF StartWrite, Goto, ControlInv, TokenInv
<1> DEFINE w == [frame |-> frm[t], st |-> "pending"]
<1>2. /\ mutex' = None /\ writes' = {w} /\ Connected'
      /\ UNCHANGED <<queue, accepted, wire>>
  BY <1>1 DEF StartWrite, Connected
<1>3. OnTheWay = <<frm[t]>>
  BY <1>1, CarriedHeld DEF OnTheWay
<1>4. Carried(None, {w}, frm') = <<w.frame>>
  <2>1. w.st = "pending"
    OBVIOUS
  <2> HIDE DEF w
  <2>2. QED
    BY <2>1, CarriedWrite
<1>5. OnTheWay' = <<frm[t]>>
  BY <1>2, <1>4 DEF OnTheWay
<1>6. Pending' = Pending
  BY <1>2, <1>3, <1>5 DEF Pending
<1>7. QED
  BY <1>2, <1>6 DEF ChannelStep, Channel!vars

LEMMA ChannelRunWriteHandler ==
  ASSUME SendInv, Connected, NEW w \in writes, RunWriteHandler(w)
  PROVE  ChannelStep
<1> USE DEF SendInv, TypeOK, netVars, sendVars, recvVars, appVars, ctlVars
<1>1. /\ mutex = None /\ writes = {w} /\ w.st # "pending" /\ mutex' = None /\ writes' = {}
      /\ UNCHANGED <<queue, accepted, wire, frm>> /\ Connected'
  BY DEF RunWriteHandler, TokenInv, Connected
<1>2. OnTheWay = <<>> /\ OnTheWay' = <<>>
  BY <1>1, CarriedNothing DEF OnTheWay
<1>3. Pending' = Pending
  BY <1>1, <1>2 DEF Pending
<1>4. QED
  BY <1>1, <1>3 DEF ChannelStep, Channel!vars

LEMMA ChannelResume ==
  ASSUME SendInv, Connected, Resume
  PROVE  ChannelStep
<1> USE DEF SendInv, TypeOK, netVars, sendVars, recvVars, appVars, ctlVars
<1>1. /\ mutex = None /\ writes = {} /\ ptr /\ Connected'
      /\ UNCHANGED <<accepted, wire, writes>>
  BY DEF Resume, TokenInv, HandlerRunning, SocketInv, Connected
<1>2. OnTheWay = <<>>
  BY <1>1, CarriedNothing DEF OnTheWay
<1>3. CASE queue = <<>>
  <2>1. mutex' = None /\ queue' = queue
    BY <1>1, <1>3 DEF Resume, do_send
  <2>2. OnTheWay' = <<>>
    BY <1>1, <2>1, CarriedNothing DEF OnTheWay
  <2>3. QED
    BY <1>1, <1>2, <2>1, <2>2 DEF ChannelStep, Channel!vars, Pending
<1>4. CASE queue # <<>>
  <2>1. mutex' = Io /\ queue' = Tail(queue) /\ frm' = [frm EXCEPT ![Io] = Head(queue)]
    BY <1>1, <1>4 DEF Resume, do_send
  <2>2. Io # None /\ frm'[Io] = Head(queue)
    BY <2>1, ThreadAssumption DEF Threads
  <2>3. OnTheWay' = <<Head(queue)>>
    BY <2>1, <2>2, CarriedHeld DEF OnTheWay
  <2>4. <<Head(queue)>> \o Tail(queue) = queue /\ <<>> \o queue = queue
    <3>1. Head(queue) \in Frames
      BY <1>4, HeadTailProperties
    <3>2. QED
      BY <1>4, <3>1, HeadTailCons, ConcatEmptySeq
  <2>5. Pending' = Pending
    BY <1>1, <1>2, <2>1, <2>3, <2>4 DEF Pending
  <2>6. QED
    BY <1>1, <2>5 DEF ChannelStep, Channel!vars
<1>5. QED
  BY <1>3, <1>4

\* Every other step of a thread leaves the frames alone or comes after the break.
LEMMA ChannelThread ==
  ASSUME SendInv, Connected, NEW t \in Threads, ThreadStep(t)
  PROVE  ChannelStep
<1> USE DEF netVars, sendVars, recvVars, appVars, ctlVars, Goto
<1>1. CASE ASync_Send(t)
  <2>1. mutex # t
    BY <1>1 DEF ASync_Send, SendInv, ControlInv
  <2>2. OnTheWay' = OnTheWay
    BY <1>1, <2>1 DEF ASync_Send, OnTheWay, Carried, SendInv, TypeOK
  <2>3. QED
    BY <1>1, <2>2 DEF ASync_Send, ChannelStep, Channel!vars, Pending, Connected
<1>2. CASE Push(t) \/ StartWrite(t)
  BY <1>2, ChannelPush, ChannelStartWrite
<1>3. CASE CloseTest(t)
  BY <1>3, ChannelStutter DEF CloseTest
<1>4. CASE CloseShut(t)
  BY <1>4, ChannelBreak DEF CloseShut, Connected
<1>5. CASE CloseDelete(t) \/ CloseDrain(t) \/ CloseNull(t) \/ CloseLeave(t)
  BY <1>5 DEF CloseDelete, CloseDrain, CloseNull, CloseLeave, SendInv, SocketInv, Connected
<1>6. CASE AppStep(t) \/ SyncStep(t) \/ TakeTask(t)
  BY <1>6, ChannelStutter DEF AppStep, OnMessageReturns, OnMessageCloses, SyncStep, Sync_Send,
                        SyncSendDone, TakeTask
<1>7. CASE Undefined(t)
  BY <1>7, ChannelBreak DEF Undefined, Connected
<1>8. CASE \E w \in writes : RunWriteHandler(w)
  BY <1>8, ChannelRunWriteHandler
<1>9. CASE Resume
  BY <1>9, ChannelResume
<1>10. CASE WriteError
  BY <1>10 DEF WriteError, SendInv, SocketInv, Connected
<1>11. CASE RunReadHandler \/ Emit \/ Rearm \/ Arm
  BY <1>11, ChannelStutter DEF RunReadHandler, Emit, Rearm, Arm
<1>12. QED
  BY <1>1, <1>2, <1>3, <1>4, <1>5, <1>6, <1>7, <1>8, <1>9, <1>10, <1>11
     DEF ThreadStep, SendStep, CloseStep, IoStep

\* A broken connection stays broken, and no step writes to it.
LEMMA StaysBroken ==
  ASSUME SendInv, ~Connected, [Next]_vars
  PROVE  ChannelStep
<1> USE DEF netVars, sendVars, recvVars, appVars, ctlVars, Goto
<1>1. CASE UNCHANGED vars
  BY <1>1, ChannelStutter DEF vars
<1>2. CASE ~ub /\ Network
  <2>1. wire' = wire /\ accepted' = accepted /\ ~Connected'
    BY <1>2 DEF Network, WriteDone, WriteFail, PeerReset, ReadDone, ReadFail, Connected
  <2>2. QED
    BY <2>1, ChannelBroken
<1>3. ASSUME NEW t \in Threads, ThreadStep(t) PROVE ChannelStep
  <2>1. ~ub /\ sock # "up"
    BY <1>3 DEF ThreadStep, Connected
  <2>2. CASE SendStep(t)
    <3>1. sock' # "up" /\ wire' = wire
      BY <2>1, <2>2 DEF SendStep, ASync_Send, Push, StartWrite
    <3>2. Push(t) => frm[t] \in Frames
      BY DEF Push, SendInv, ControlInv
    <3>3. accepted' = accepted \/ \E f \in Frames : accepted' = Append(accepted, f)
      BY <2>2, <3>2 DEF SendStep, ASync_Send, Push, StartWrite
    <3>4. QED
      BY <3>1, <3>3, ChannelBroken DEF Connected
  <2>3. CASE CloseStep(t)
    <3>1. sock' # "up" /\ wire' = wire /\ accepted' = accepted
      BY <2>1, <2>3 DEF CloseStep, CloseTest, CloseShut, CloseDelete, CloseNull, CloseDrain,
                        CloseLeave
    <3>2. QED
      BY <3>1, ChannelBroken DEF Connected
  <2>4. CASE AppStep(t) \/ SyncStep(t) \/ TakeTask(t) \/ Undefined(t)
    <3>1. sock' # "up" /\ wire' = wire /\ accepted' = accepted
      BY <2>1, <2>4 DEF AppStep, OnMessageReturns, OnMessageCloses, SyncStep, Sync_Send,
                        SyncSendDone, TakeTask, Undefined
    <3>2. QED
      BY <3>1, ChannelBroken DEF Connected
  <2>5. CASE t = Io /\ IoStep
    <3>1. sock' # "up" /\ wire' = wire /\ accepted' = accepted
      BY <2>1, <2>5 DEF IoStep, RunWriteHandler, Resume, WriteError, RunReadHandler, Emit,
                        Rearm, Arm
    <3>2. QED
      BY <3>1, ChannelBroken DEF Connected
  <2>6. QED
    BY <1>3, <2>2, <2>3, <2>4, <2>5 DEF ThreadStep
<1>4. QED
  BY <1>1, <1>2, <1>3 DEF Next

LEMMA StepMaps == SendInv /\ [Next]_vars => ChannelStep
<1> SUFFICES ASSUME SendInv, [Next]_vars PROVE ChannelStep
  OBVIOUS
<1>1. CASE ~Connected
  BY <1>1, StaysBroken
<1>2. CASE Connected /\ UNCHANGED vars
  BY <1>2, ChannelStutter DEF vars, netVars, sendVars, recvVars, appVars, ctlVars
<1>3. CASE Connected /\ Next
  BY <1>3, ChannelNetwork, ChannelThread DEF Next
<1>4. QED
  BY <1>1, <1>2, <1>3

\* ASync_Send keeps what FrameChannel promises: frames reach the connection one at a time,
\* in the order accepted, none lost, none twice, none after the connection broke.
THEOREM SafeChannel == Spec => ImplementsSafely
<1>1. Init => Channel!Init
  BY ChannelInit
<1>2. SendInv /\ [Next]_vars => [Channel!Next]_(Channel!vars)
  BY StepMaps DEF ChannelStep
<1>3. QED
  BY <1>1, <1>2, SendInvariant, PTL DEF Spec, ImplementsSafely, Channel!SafeSpec

-----------------------------------------------------------------------------
(* What is accepted is written, on its way or queued.                       *)

Accounted == Connected => accepted = wire \o Pending

LEMMA PendingType == SendInv => Pending \in Seq(Frames)
BY OnTheWayType, ConcatProperties, EmptySeq DEF Pending, SendInv, TypeOK

LEMMA AccountedStep ==
  ASSUME SendInv, Accounted, ChannelStep
  PROVE  Accounted'
<1> SUFFICES ASSUME Connected' PROVE accepted' = wire' \o Pending'
  BY DEF Accounted
<1>1. wire \in Seq(Frames) /\ Pending \in Seq(Frames)
  BY PendingType DEF SendInv, TypeOK
<1>2. CASE UNCHANGED Channel!vars
  BY <1>2 DEF Channel!vars, Accounted, Connected
<1>3. CASE Channel!Accept
  <2>1. PICK f \in Frames : /\ accepted' = Append(accepted, f) /\ wire' = wire
                            /\ Connected /\ Pending' = Append(Pending, f)
    BY <1>3 DEF Channel!Accept, Connected
  <2>2. wire \o Append(Pending, f) = Append(wire \o Pending, f)
    BY <1>1, AppendConcat
  <2>3. QED
    BY <2>1, <2>2 DEF Accounted
<1>4. CASE Channel!Transmit
  <2>1. /\ Connected /\ Pending # <<>> /\ accepted' = accepted
        /\ wire' = Append(wire, Head(Pending)) /\ Pending' = Tail(Pending)
    BY <1>4 DEF Channel!Transmit
  <2>2. Head(Pending) \in Frames /\ Tail(Pending) \in Seq(Frames)
    BY <1>1, <2>1, HeadTailProperties
  <2>3. <<Head(Pending)>> \in Seq(Frames) /\ <<Head(Pending)>> \o Tail(Pending) = Pending
    BY <1>1, <2>1, <2>2, HeadTailCons
  <2>4. Append(wire, Head(Pending)) = wire \o <<Head(Pending)>>
    BY <1>1, <2>2, AppendIsConcat
  <2>5. (wire \o <<Head(Pending)>>) \o Tail(Pending) = wire \o Pending
    BY <1>1, <2>2, <2>3, ConcatAssociative
  <2>6. QED
    BY <2>1, <2>4, <2>5 DEF Accounted
<1>5. CASE Channel!Break
  BY <1>5 DEF Channel!Break
<1>6. QED
  BY <1>2, <1>3, <1>4, <1>5 DEF ChannelStep, Channel!Next

\* While the connection is up, the frames accepted are those written, the one on its way and
\* those queued, in that order.
THEOREM FramesConserved == Spec => []Conservation
<1>1. Init => Accounted
  <2> SUFFICES ASSUME Init PROVE Accounted
    OBVIOUS
  <2>1. Pending = <<>> /\ accepted = <<>> /\ wire = <<>>
    BY ChannelInit DEF Channel!Init
  <2>2. <<>> \o <<>> = <<>>
    BY ConcatEmptySeq, EmptySeq
  <2>3. QED
    BY <2>1, <2>2 DEF Accounted
<1>2. SendInv /\ Accounted /\ [Next]_vars => Accounted'
  BY StepMaps, AccountedStep
<1>3. SendInv /\ Accounted => Conservation
  <2> SUFFICES ASSUME SendInv, Connected, accepted = wire \o (OnTheWay \o queue)
               PROVE  accepted = wire \o OnTheWay \o queue
    BY DEF Accounted, Conservation, Pending
  <2>1. wire \in Seq(Frames) /\ queue \in Seq(Frames) /\ OnTheWay \in Seq(Frames)
    BY OnTheWayType DEF SendInv, TypeOK
  <2>2. (wire \o OnTheWay) \o queue = wire \o (OnTheWay \o queue)
    BY <2>1, ConcatAssociative
  <2>3. QED
    BY <2>2
<1>4. QED
  BY <1>1, <1>2, <1>3, SendInvariant, PTL DEF Spec

\* What session_workers checks of three threads: the tokens and the account of the frames.
THEOREM Invariance == Spec => []IInv
<1>1. SendInv /\ Conservation => IInv
  BY DEF IInv
<1>2. QED
  BY <1>1, SendInvariant, FramesConserved, PTL
=============================================================================
