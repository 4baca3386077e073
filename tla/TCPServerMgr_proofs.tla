------------------------- MODULE TCPServerMgr_proofs -------------------------
(***************************************************************************)
(* Theorems about TCPServerMgr, for any threads, sessions and limit and    *)
(* whatever the application's handlers do.                                 *)
(*                                                                         *)
(* What the pool promises rests on one fact: until Add_Session releases    *)
(* the mutex nobody but the io thread knows the new session.  From then on *)
(* the map, the pointers of the sessions in it and the threads on their    *)
(* way to Close_Session with one of them move together.                    *)
(***************************************************************************)
EXTENDS TCPServerMgr, FiniteSetTheorems, SequenceTheorems, TLAPS

IoLabel      == {"restart", "open", "listen", "idle", "returned", "add", "init", "accepted",
                 "reject", "free", "close", "unlink", "app", "decoded"}
WorkerLabel  == {"idle", "app", "close", "unlink"}
ControlLabel == {"idle", "ignored", "context", "clear", "join", "done", "terminated"}
Working      == {"add", "init", "accepted", "reject", "free", "close", "unlink", "app",
                 "decoded"}

\* Where each thread can be; it works on a session there.  Only OnEvent_Init, or a Close inside
\* it, runs with the mutex held.
ControlInv ==
  /\ pc[Io] \in IoLabel /\ pc[Control] \in ControlLabel
  /\ \A w \in Workers : pc[w] \in WorkerLabel
  /\ \A t \in Threads : pc[t] \in Working => cur[t] \in Sessions
  /\ pc[Io] = "init" => mutex = Io
  /\ mutex = Io => pc[Io] \in {"init", "unlink"}

\* Nobody but the io thread knows the session.
Posted       == {tasks[i] : i \in DOMAIN tasks}
Untouched(s) == read[s] = "none" /\ s \notin Posted /\ \A t \in Threads \ {Io} : cur[t] # s

\* A session that is not allocated, and the new one up to its OnEvent_Init.
FreshInv ==
  /\ accept = "ok" => \E s \in Sessions : mem[s] = "none"
  /\ \A s \in Sessions : mem[s] = "none" =>
       Untouched(s) /\ cur[Io] # s /\ sock[s] = "none" /\ ~ptr[s] /\ s \notin map
  /\ pc[Io] \in {"add", "init"} =>
       Untouched(cur[Io]) /\ Live(cur[Io]) /\ sock[cur[Io]] = "live" /\ ptr[cur[Io]]
  /\ pc[Io] = "add" => cur[Io] \notin map

\* A session Add_Session refused is the io thread's alone as well, even in the map, where one
\* stays that its OnEvent_Init refused.
RejectInv ==
  pc[Io] = "reject" => Untouched(cur[Io]) /\ (cur[Io] \in map => ptr[cur[Io]])

\* m_pSocket is null from Close on, points to a socket before, and is set with m_pSessionPool while
\* the session is in the map.
PointerInv ==
  /\ \A s \in Sessions : ptr[s] => sock[s] # "none"
  /\ \A t \in Threads : pc[t] = "unlink" => ~ptr[cur[t]]
  /\ \A s \in map : ptr[s] => pooled[s]

\* Stop comes after open, and once it has stopped the io_context no new Handle_accept starts.
StopInv ==
  /\ pc[Io] \in {"restart", "open"} => acceptor = "closed" /\ pc[Control] \in {"idle", "ignored"}
  /\ pc[Control] \in {"clear", "join", "done", "terminated"} => ~running
  /\ pc[Control] \in {"join", "done"} /\ pc[Io] = "add" => map = {}

LinkInv == PointerInv /\ PoolExact /\ NoneForgotten
PoolInv == TypeOK /\ ControlInv /\ FreshInv /\ RejectInv /\ LinkInv
IInv    == PoolInv /\ StopInv /\ PendingIsLive /\ KeepsAccepting /\ StopEmpties

-----------------------------------------------------------------------------
(* Types.                                                                   *)

\* The steps of the io thread in Handle_accept, up to OnEvent_Init and behind it; those of any
\* thread in the pool.
AddStep    == \/ Handle_accept \/ Handle_accept_Error \/ AddFull \/ AddInsert
              \/ InitAccepts \/ InitRefuses \/ InitCloses
AddedStep  == \/ HandlerThrows \/ Accepted \/ RejectSession \/ FreeSocket \/ Decoded
              \/ \E s \in Sessions : Handler_Receive(s) \/ Handler_Write(s)
TaskStep(t)  == (t \in Workers /\ TakeTask(t)) \/ AppStep(t)
CloseStep(t) == Close(t) \/ Close_Session(t)

LEMMA InitInv == Init => IInv
<1> SUFFICES ASSUME Init PROVE IInv
  OBVIOUS
<1> USE ThreadAssumption DEF Init, Threads
<1>1. TypeOK
  <2>1. tasks \in Seq(Sessions) /\ map \in SUBSET Sessions
    BY EmptySeq
  <2>2. mem \in [Sessions -> Object] /\ sock \in [Sessions -> Object]
    BY DEF Object
  <2>3. /\ ptr \in [Sessions -> BOOLEAN] /\ pooled \in [Sessions -> BOOLEAN]
        /\ read \in [Sessions -> OpType] /\ write \in [Sessions -> OpType]
    BY DEF OpType
  <2>4. pc \in [Threads -> Label] /\ cur \in [Threads -> Sessions \union {None}]
    BY DEF Label
  <2>5. QED
    BY <2>1, <2>2, <2>3, <2>4 DEF TypeOK, OpType
<1>2. ControlInv
  BY DEF ControlInv, IoLabel, WorkerLabel, ControlLabel, Working
<1>3. FreshInv
  <2>1. Posted = {}
    BY DEF Posted
  <2>2. \A t \in Threads : cur[t] = None
    OBVIOUS
  <2>3. \A s \in Sessions : Untouched(s) /\ cur[Io] # s
    BY <2>1, <2>2 DEF Untouched
  <2>4. QED
    BY <2>3 DEF FreshInv
<1>4. PointerInv /\ PoolExact /\ NoneForgotten /\ StopInv
  BY DEF PointerInv, PoolExact, NoneForgotten, StopInv, Live
<1>r. RejectInv
  BY DEF RejectInv
<1>5. PendingIsLive /\ KeepsAccepting
  BY DEF PendingIsLive, KeepsAccepting
<1>6. StopEmpties
  BY DEF StopEmpties
<1>7. QED
  BY <1>1, <1>2, <1>3, <1>4, <1>5, <1>6, <1>r DEF IInv, PoolInv, LinkInv

\* The session Handle_accept takes is one that was not allocated.
LEMMA Chosen ==
  ASSUME FreshInv, Handle_accept
  PROVE  \E s \in Sessions :
           /\ mem[s] = "none"
           /\ mem' = [mem EXCEPT ![s] = "live"] /\ sock' = [sock EXCEPT ![s] = "live"]
           /\ ptr' = [ptr EXCEPT ![s] = TRUE]
           /\ cur' = [cur EXCEPT ![Io] = s]
<1> DEFINE s == CHOOSE s \in Sessions : mem[s] = "none"
<1>1. s \in Sessions /\ mem[s] = "none"
  BY DEF FreshInv, Handle_accept
<1>2. QED
  BY <1>1 DEF Handle_accept

LEMMA TypeRun ==
  ASSUME TypeOK, RunStep
  PROVE  TypeOK'
<1> USE DEF TypeOK, mgrVars, objVars, Goto, Label
<1>1. CASE RunRestart
  BY <1>1 DEF RunRestart
<1>2. CASE RunRefused
  BY <1>2 DEF RunRefused
<1>3. CASE RunOpen
  BY <1>3 DEF RunOpen
<1>4. CASE RunListen
  BY <1>4 DEF RunListen, AsyncAccept, OpType
<1>5. CASE RunThrows
  BY <1>5 DEF RunThrows
<1>6. CASE RunReturns
  BY <1>6 DEF RunReturns
<1>7. QED
  BY <1>1, <1>2, <1>3, <1>4, <1>5, <1>6 DEF RunStep

LEMMA TypeNetwork == 
  ASSUME TypeOK, Network
  PROVE  TypeOK'
<1> USE DEF TypeOK, mgrVars, OpType
<1>1. CASE Connect \/ ConnectFails
  BY <1>1 DEF Connect, ConnectFails, objVars
<1>2. ASSUME NEW s \in Sessions, PeerSends(s) \/ PeerCloses(s) \/ WriteEnds(s) PROVE TypeOK'
  BY <1>2 DEF PeerSends, PeerCloses, WriteEnds
<1>3. QED
  BY <1>1, <1>2 DEF Network

\* CloseSocket keeps the types of what it writes.
LEMMA TypeCloseSocket ==
  ASSUME TypeOK, NEW s \in Sessions, CloseSocket(s)
  PROVE  /\ sock' \in [Sessions -> Object] /\ ptr' \in [Sessions -> BOOLEAN]
         /\ pooled' \in [Sessions -> BOOLEAN] /\ read' \in [Sessions -> OpType]
         /\ write' \in [Sessions -> OpType]
BY DEF TypeOK, CloseSocket, Aborted, Object, OpType

LEMMA TypeAdd ==
  ASSUME TypeOK, ControlInv, FreshInv, AddStep
  PROVE  TypeOK'
<1> USE DEF TypeOK, mgrVars, objVars, Goto, Leave
<1>1. CASE Handle_accept
  BY <1>1, Chosen DEF Handle_accept, Label, Object, OpType
<1>2. CASE Handle_accept_Error
  BY <1>2 DEF Handle_accept_Error
<1>3. ASSUME pc[Io] \in {"add", "init"} PROVE cur[Io] \in Sessions
  BY <1>3 DEF ControlInv, Working, Threads
<1>4. CASE AddFull
  BY <1>3, <1>4, TypeCloseSocket DEF AddFull, Label
<1>5. CASE AddInsert
  BY <1>3, <1>5 DEF AddInsert, Label
<1>6. CASE InitAccepts
  BY <1>3, <1>6 DEF InitAccepts, Label, OpType
<1>7. CASE InitRefuses
  BY <1>3, <1>7 DEF InitRefuses, Label
<1>8. CASE InitCloses
  BY <1>3, <1>8, TypeCloseSocket DEF InitCloses, Label
<1>9. QED
  BY <1>1, <1>2, <1>4, <1>5, <1>6, <1>7, <1>8 DEF AddStep

LEMMA TypeAdded ==
  ASSUME TypeOK, ControlInv, AddedStep
  PROVE  TypeOK'
<1> USE DEF TypeOK, mgrVars, objVars, Goto, Leave
<1>1. CASE HandlerThrows
  BY <1>1 DEF HandlerThrows, Label
<1>2. CASE Accepted
  BY <1>2 DEF Accepted, AsyncAccept, Label, OpType
<1>3. ASSUME pc[Io] \in {"reject", "free"} PROVE cur[Io] \in Sessions
  BY <1>3 DEF ControlInv, Working, Threads
<1>4. CASE RejectSession
  BY <1>3, <1>4 DEF RejectSession, Label, Object
<1>5. CASE FreeSocket
  <2>1. /\ sock' \in [Sessions -> Object]
        /\ read' \in [Sessions -> OpType] /\ write' \in [Sessions -> OpType]
    BY <1>5 DEF FreeSocket, Aborted, Object, OpType
  <2>2. QED
    BY <1>5, <2>1 DEF FreeSocket, AsyncAccept, Label, OpType
<1>6. ASSUME NEW s \in Sessions, Handler_Receive(s) PROVE TypeOK'
  <2>1. tasks' \in Seq(Sessions)
    <3>1. tasks' = tasks \/ tasks' = Append(tasks, s)
      BY <1>6 DEF Handler_Receive, ReadHandler, ReadData, ReadError, ReadClosed
    <3>2. Append(tasks, s) \in Seq(Sessions)
      OBVIOUS
    <3>3. QED
      BY <3>1, <3>2
  <2>2. read' \in [Sessions -> OpType]
    BY <1>6 DEF Handler_Receive, ReadHandler, ReadData, ReadError, ReadClosed, OpType
  <2>3. pc' \in [Threads -> Label] /\ cur' \in [Threads -> Sessions \union {None}]
    BY <1>6 DEF Handler_Receive, ReadHandler, ReadData, ReadError, ReadClosed, Label
  <2>4. QED
    BY <1>6, <2>1, <2>2, <2>3 DEF Handler_Receive, ReadHandler, ReadData, ReadError, ReadClosed
<1>7. CASE Decoded
  <2>1. read' \in [Sessions -> OpType]
    BY <1>7 DEF Decoded, OpType
  <2>2. QED
    BY <1>7, <2>1 DEF Decoded, Label
<1>8. ASSUME NEW s \in Sessions, Handler_Write(s) PROVE TypeOK'
  <2>1. write' \in [Sessions -> OpType]
    BY <1>8 DEF Handler_Write, OpType
  <2>2. pc' \in [Threads -> Label] /\ cur' \in [Threads -> Sessions \union {None}]
    BY <1>8 DEF Handler_Write, Label
  <2>3. QED
    BY <1>8, <2>1, <2>2 DEF Handler_Write
<1>9. QED
  BY <1>1, <1>2, <1>4, <1>5, <1>6, <1>7, <1>8 DEF AddedStep

\* Where OnMessage and Close return to.
LEMMA ReturnEffect ==
  ASSUME TypeOK, NEW t \in Threads, NEW from, Return(t, from)
  PROVE  /\ pc[t] = from /\ pc'[t] \in {"idle", "decoded"}
         /\ pc'[t] = "decoded" => t = Io /\ cur' = cur
         /\ cur'[t] \in {cur[t], None}
         /\ \A u \in Threads \ {t} : pc'[u] = pc[u] /\ cur'[u] = cur[u]
         /\ pc' \in [Threads -> Label] /\ cur' \in [Threads -> Sessions \union {None}]
BY DEF TypeOK, Return, Goto, Leave, Label

LEMMA TypeThread ==
  ASSUME TypeOK, ControlInv, NEW t \in Threads,
         TaskStep(t) \/ CloseStep(t) \/ Undefined(t)
  PROVE  TypeOK'
<1> USE DEF TypeOK, mgrVars, objVars, Goto, Label
<1>1. CASE TakeTask(t)
  BY <1>1, HeadTailProperties DEF TakeTask
<1>2. CASE ASync_Send(t)
  BY <1>2 DEF ASync_Send, OpType
<1>3. CASE OnMessageReturns(t)
  BY <1>3, ReturnEffect DEF OnMessageReturns
<1>4. CASE OnMessageCloses(t)
  BY <1>4 DEF OnMessageCloses
<1>5. CASE Close(t)
  <2>1. cur[t] \in Sessions
    BY <1>5 DEF Close, ControlInv, Working
  <2>2. /\ sock' \in [Sessions -> Object] /\ ptr' \in [Sessions -> BOOLEAN]
        /\ pooled' \in [Sessions -> BOOLEAN] /\ read' \in [Sessions -> OpType]
        /\ write' \in [Sessions -> OpType]
    BY <1>5, <2>1, TypeCloseSocket DEF Close
  <2>3. pc' \in [Threads -> Label] /\ cur' \in [Threads -> Sessions \union {None}]
    BY <1>5, ReturnEffect DEF Close
  <2>4. QED
    BY <1>5, <2>2, <2>3 DEF Close
<1>6. CASE Close_Session(t)
  <2>1. mem' \in [Sessions -> Object]
    BY <1>6 DEF Close_Session, Object
  <2>2. QED
    BY <1>6, <2>1, ReturnEffect DEF Close_Session
<1>7. CASE Undefined(t)
  BY <1>7 DEF Undefined
<1>8. QED
  BY <1>1, <1>2, <1>3, <1>4, <1>5, <1>6, <1>7 DEF TaskStep, AppStep, CloseStep

LEMMA TypeControl ==
  ASSUME TypeOK, ControlStep
  PROVE  TypeOK'
<1> USE DEF TypeOK, mgrVars, objVars, Goto, Label
<1>1. CASE StopIgnored \/ StopContext \/ Join \/ DestroyManager
  BY <1>1 DEF StopIgnored, StopContext, Join, DestroyManager
<1>2. CASE StopAcceptor
  BY <1>2 DEF StopAcceptor, OpType
<1>3. CASE Clear
  <2>1. mem' \in [Sessions -> Object] /\ sock' \in [Sessions -> Object]
    BY <1>3 DEF Clear, Object
  <2>2. /\ ptr' \in [Sessions -> BOOLEAN] /\ pooled' \in [Sessions -> BOOLEAN]
        /\ read' \in [Sessions -> OpType] /\ write' \in [Sessions -> OpType]
    BY <1>3 DEF Clear, OpType
  <2>3. QED
    BY <1>3, <2>1, <2>2 DEF Clear
<1>4. QED
  BY <1>1, <1>2, <1>3 DEF ControlStep

-----------------------------------------------------------------------------
(* Where the threads are.                                                   *)

\* A completion handler works on its session, which is live, and touches no other.
LEMMA HandlerEffect ==
  ASSUME TypeOK, NEW s \in Sessions, Handler_Receive(s) \/ Handler_Write(s)
  PROVE  /\ running /\ pc[Io] = "idle" /\ pc'[Io] \in {"idle", "close", "app"} /\ Live(s)
         /\ UNCHANGED <<mgrVars, mem, sock, ptr, pooled, map, mutex>>
         /\ \A q \in Sessions \ {s} : read'[q] = read[q] /\ write'[q] = write[q]
         /\ tasks' = tasks \/ tasks' = Append(tasks, s)
         /\ cur'[Io] \in {cur[Io], s} /\ (pc'[Io] # "idle" => cur'[Io] = s)
         /\ \A t \in Threads \ {Io} : pc'[t] = pc[t] /\ cur'[t] = cur[t]
<1> USE DEF TypeOK, Threads
<1>1. CASE Handler_Receive(s)
  BY <1>1 DEF Handler_Receive, ReadHandler, ReadData, ReadError, ReadClosed
<1>2. CASE Handler_Write(s)
  BY <1>2 DEF Handler_Write
<1>3. QED
  BY <1>1, <1>2

\* A step of OnMessage, or an ASync_Send, changes its thread and what is outstanding.
LEMMA TaskEffect ==
  ASSUME TypeOK, ControlInv, NEW t \in Threads, TaskStep(t)
  PROVE  /\ t # Control
         /\ UNCHANGED <<mgrVars, mem, sock, ptr, pooled, read, map, mutex>>
         /\ \A u \in Threads \ {t} : pc'[u] = pc[u] /\ cur'[u] = cur[u]
         /\ \/ /\ pc[t] \in {"init", "accepted", "app"} /\ pc'[t] = pc[t]
               /\ cur'[t] = cur[t] /\ tasks' = tasks
            \/ /\ pc[t] = "app" /\ pc'[t] \in {"idle", "decoded", "close"}
               /\ (pc'[t] = "decoded" => t = Io) /\ (pc'[t] # "idle" => cur'[t] = cur[t])
               /\ cur'[t] \in {cur[t], None} /\ tasks' = tasks
            \/ /\ t \in Workers /\ pc[t] = "idle" /\ pc'[t] = "app"
               /\ tasks # <<>> /\ cur'[t] = Head(tasks) /\ Live(Head(tasks)) /\ tasks' = Tail(tasks)
<1> USE ThreadAssumption DEF TypeOK, Goto, objVars
<1>1. CASE TakeTask(t) /\ t \in Workers
  BY <1>1 DEF TakeTask
<1>2. CASE AppStep(t)
  <2>1. t # Control
    BY <1>2 DEF AppStep, ASync_Send, OnMessageReturns, OnMessageCloses, Return, Leave, ControlInv,
                ControlLabel
  <2>2. CASE ASync_Send(t)
    BY <2>1, <2>2 DEF ASync_Send
  <2>3. CASE OnMessageReturns(t)
    BY <2>1, <2>3, ReturnEffect DEF OnMessageReturns
  <2>4. CASE OnMessageCloses(t)
    BY <2>1, <2>4 DEF OnMessageCloses
  <2>5. QED
    BY <1>2, <2>2, <2>3, <2>4 DEF AppStep
<1>3. QED
  BY <1>1, <1>2 DEF TaskStep

\* Close and Close_Session on the way to where they return to.
LEMMA CloseEffect ==
  ASSUME TypeOK, ControlInv, NEW t \in Threads, CloseStep(t)
  PROVE  /\ t # Control /\ cur[t] \in Sessions
         /\ UNCHANGED <<mgrVars, mutex, tasks>>
         /\ \A u \in Threads \ {t} : pc'[u] = pc[u] /\ cur'[u] = cur[u]
         /\ pc[t] = "close" \/ (pc[t] = "unlink" /\ mutex = None)
         /\ pc'[t] \in {"idle", "decoded", "unlink"} /\ cur'[t] \in {cur[t], None}
         /\ pc'[t] = "decoded" => t = Io
         /\ pc'[t] # "idle" => cur'[t] = cur[t]
<1> USE ThreadAssumption DEF TypeOK, Goto
<1>1. CASE Close(t)
  <2>1. pc[t] = "close" /\ UNCHANGED <<mgrVars, mutex, tasks>>
    BY <1>1 DEF Close
  <2>2. (pc' = [pc EXCEPT ![t] = "unlink"] /\ cur' = cur) \/ Return(t, "close")
    BY <1>1 DEF Close
  <2>3. QED
    BY <2>1, <2>2, ReturnEffect DEF ControlInv, ControlLabel, Working
<1>2. CASE Close_Session(t)
  BY <1>2, ReturnEffect DEF Close_Session, ControlInv, ControlLabel, Working
<1>3. QED
  BY <1>1, <1>2 DEF CloseStep

LEMMA ControlAny ==
  ASSUME TypeOK, ControlInv, NEW t \in Threads, TaskStep(t) \/ CloseStep(t)
  PROVE  ControlInv'
<1> USE ThreadAssumption DEF TypeOK, ControlInv, Threads, IoLabel, WorkerLabel, ControlLabel, Working
<1>1. CASE TaskStep(t)
  <2>1. tasks # <<>> => Head(tasks) \in Sessions
    BY HeadTailProperties
  <2>2. QED
    BY <1>1, <2>1, TaskEffect
<1>2. CASE CloseStep(t)
  BY <1>2, CloseEffect
<1>3. QED
  BY <1>1, <1>2

LEMMA ControlIo ==
  ASSUME TypeOK, ControlInv, FreshInv, RunStep \/ AddStep \/ AddedStep
  PROVE  ControlInv'
<1> USE ThreadAssumption DEF TypeOK, ControlInv, Goto, Leave, Threads, IoLabel, WorkerLabel,
                             ControlLabel, Working
<1>1. CASE RunStep
  BY <1>1 DEF RunStep, RunRestart, RunRefused, RunOpen, RunListen, RunThrows, RunReturns
<1>2. CASE Handle_accept
  <2>1. cur'[Io] \in Sessions /\ \A t \in Threads \ {Io} : cur'[t] = cur[t]
    BY <1>2, Chosen
  <2>2. QED
    BY <1>2, <2>1 DEF Handle_accept
<1>3. CASE Handle_accept_Error
  BY <1>3 DEF Handle_accept_Error
<1>4. CASE AddFull \/ AddInsert
  BY <1>4 DEF AddFull, AddInsert
<1>5. CASE InitAccepts \/ InitRefuses \/ InitCloses \/ HandlerThrows
  BY <1>5 DEF InitAccepts, InitRefuses, InitCloses, HandlerThrows
<1>6. CASE Accepted \/ RejectSession \/ FreeSocket
  BY <1>6 DEF Accepted, RejectSession, FreeSocket
<1>7. ASSUME NEW s \in Sessions, Handler_Receive(s) \/ Handler_Write(s) PROVE ControlInv'
  BY <1>7, HandlerEffect
<1>8. CASE Decoded
  BY <1>8 DEF Decoded
<1>9. QED
  BY <1>1, <1>2, <1>3, <1>4, <1>5, <1>6, <1>7, <1>8 DEF AddStep, AddedStep

LEMMA ControlOther ==
  ASSUME TypeOK, ControlInv, Network \/ ControlStep \/ UNCHANGED vars
  PROVE  ControlInv'
<1> USE ThreadAssumption DEF TypeOK, ControlInv, Goto, Threads, ControlLabel, Working
<1>1. CASE Network
  BY <1>1 DEF Network, Connect, ConnectFails, PeerSends, PeerCloses, WriteEnds
<1>2. CASE ControlStep
  <2>1. /\ cur' = cur /\ mutex' = mutex
        /\ \E l \in ControlLabel : pc' = [pc EXCEPT ![Control] = l]
    BY <1>2 DEF ControlStep, StopIgnored, StopAcceptor, StopContext, Clear, Join, DestroyManager
  <2>2. QED
    BY <2>1
<1>3. CASE UNCHANGED vars
  BY <1>3 DEF vars, mgrVars, objVars
<1>4. QED
  BY <1>1, <1>2, <1>3

-----------------------------------------------------------------------------
(* The new session is the io thread's alone.                                *)

\* A step that touches one session, which is allocated and not the new one, and lets no thread
\* learn of another; with a t that is no session it touches none.
LEMMA FreshKept ==
  ASSUME TypeOK, ControlInv, FreshInv, NEW s,
         s \in Sessions => /\ mem[s] # "none" /\ mem'[s] # "none"
                           /\ pc'[Io] \in {"add", "init"} => s # cur[Io],
         \A r \in Sessions \ {s} :
            /\ mem'[r] = mem[r] /\ sock'[r] = sock[r] /\ ptr'[r] = ptr[r] /\ read'[r] = read[r]
            /\ r \in map' => r \in map,
         Posted' \subseteq Posted \union {s},
         \A t \in Threads : cur'[t] \in {cur[t], s, None},
         pc'[Io] \in {"add", "init"} => pc'[Io] = pc[Io] /\ cur'[Io] = cur[Io],
         accept' = "ok" => accept = "ok"
  PROVE  FreshInv'
<1> USE ThreadAssumption DEF Threads
<1>1. ASSUME NEW r \in Sessions, r # s, Untouched(r) PROVE Untouched(r)'
  BY <1>1 DEF Untouched
<1>2. ASSUME accept' = "ok" PROVE \E r \in Sessions : mem'[r] = "none"
  <2>1. PICK r \in Sessions : mem[r] = "none"
    BY <1>2 DEF FreshInv
  <2>2. r # s
    BY <2>1
  <2>3. QED
    BY <2>1, <2>2
<1>3. ASSUME NEW r \in Sessions, mem'[r] = "none"
      PROVE  Untouched(r)' /\ cur'[Io] # r /\ sock'[r] = "none" /\ ~ptr'[r] /\ r \notin map'
  <2>1. r # s /\ mem[r] = "none"
    BY <1>3
  <2>2. Untouched(r) /\ cur[Io] # r /\ sock[r] = "none" /\ ~ptr[r] /\ r \notin map
    BY <2>1 DEF FreshInv
  <2>3. QED
    BY <1>1, <2>1, <2>2
<1>4. ASSUME pc'[Io] \in {"add", "init"}
      PROVE  /\ Untouched(cur[Io])' /\ Live(cur[Io])' /\ sock'[cur'[Io]] = "live" /\ ptr'[cur'[Io]]
             /\ pc'[Io] = "add" => cur'[Io] \notin map'
  <2>1. /\ Untouched(cur[Io]) /\ Live(cur[Io]) /\ sock[cur[Io]] = "live" /\ ptr[cur[Io]]
        /\ pc[Io] = "add" => cur[Io] \notin map
    BY <1>4 DEF FreshInv
  <2>2. cur[Io] \in Sessions
    BY <1>4 DEF ControlInv, Working
  <2>3. QED
    BY <1>1, <1>4, <2>1, <2>2 DEF Live
<1>5. QED
  BY <1>2, <1>3, <1>4 DEF FreshInv

\* What a task that is posted or taken does to the sessions that have one.
LEMMA PostedSteps ==
  ASSUME TypeOK
  PROVE  /\ \A s \in Sessions : tasks' = Append(tasks, s) => Posted' = Posted \union {s}
         /\ tasks # <<>> /\ tasks' = Tail(tasks) => Posted' \subseteq Posted
         /\ tasks # <<>> => Head(tasks) \in Posted /\ Head(tasks) \in Sessions
         /\ tasks' = tasks => Posted' = Posted
<1> USE DEF TypeOK, Posted
<1>1. ASSUME NEW s \in Sessions, tasks' = Append(tasks, s) PROVE Posted' = Posted \union {s}
  <2>1. /\ DOMAIN tasks = 1..Len(tasks) /\ DOMAIN tasks' = 1..(Len(tasks) + 1) /\ Len(tasks) \in Nat
        /\ \A i \in 1..Len(tasks) : tasks'[i] = tasks[i]
        /\ tasks'[Len(tasks) + 1] = s
    BY <1>1, AppendProperties, LenProperties
  <2>2. QED
    BY <2>1
<1>2. ASSUME tasks # <<>>, tasks' = Tail(tasks) PROVE Posted' \subseteq Posted
  <2>1. /\ DOMAIN tasks = 1..Len(tasks) /\ DOMAIN tasks' = 1..(Len(tasks) - 1) /\ Len(tasks) \in Nat
        /\ \A i \in 1..(Len(tasks) - 1) : tasks'[i] = tasks[i + 1]
    BY <1>2, HeadTailProperties, LenProperties
  <2>2. ASSUME NEW i \in DOMAIN tasks' PROVE i + 1 \in DOMAIN tasks /\ tasks'[i] = tasks[i + 1]
    BY <2>1
  <2>3. QED
    BY <2>2
<1>3. ASSUME tasks # <<>> PROVE Head(tasks) \in Posted /\ Head(tasks) \in Sessions
  <2>1. 1 \in DOMAIN tasks /\ Head(tasks) = tasks[1]
    BY <1>3, HeadTailProperties, EmptySeq, LenProperties
  <2>2. QED
    BY <1>3, <2>1, HeadTailProperties
<1>4. QED
  BY <1>1, <1>2, <1>3

LEMMA FreshRun ==
  ASSUME TypeOK, ControlInv, FreshInv, RunStep
  PROVE  FreshInv'
<1>1. UNCHANGED <<objVars, map, tasks, cur>> /\ pc'[Io] \notin {"add", "init"}
  BY DEF RunStep, RunRestart, RunRefused, RunOpen, RunListen, RunThrows, RunReturns, Goto, TypeOK,
         Threads
<1>2. accept' = "ok" => accept = "ok"
  BY DEF RunStep, RunRestart, RunRefused, RunOpen, RunListen, RunThrows, RunReturns, mgrVars,
         AsyncAccept
<1>3. None \notin Sessions /\ Posted' = Posted
  BY <1>1, ThreadAssumption DEF Posted
<1>4. QED
  BY <1>1, <1>2, <1>3, FreshKept DEF objVars

LEMMA FreshNetwork ==
  ASSUME TypeOK, ControlInv, FreshInv, Network
  PROVE  FreshInv'
<1>1. CASE Connect
  <2>1. UNCHANGED <<objVars, map, tasks, pc, cur>> /\ \E s \in Sessions : mem[s] = "none"
    BY <1>1 DEF Connect
  <2>2. QED
    BY <2>1 DEF FreshInv, objVars, Untouched, Posted, Live
<1>2. CASE ConnectFails
  <2>1. UNCHANGED <<objVars, map, tasks, pc, cur>> /\ accept' # "ok"
    BY <1>2 DEF ConnectFails
  <2>2. QED
    BY <2>1 DEF FreshInv, objVars, Untouched, Posted, Live
<1>3. ASSUME NEW s \in Sessions, WriteEnds(s) PROVE FreshInv'
  BY <1>3 DEF WriteEnds, mgrVars, FreshInv, Untouched, Posted, Live
<1>4. ASSUME NEW s \in Sessions, PeerSends(s) \/ PeerCloses(s) PROVE FreshInv'
  <2>1. /\ read[s] = "pending" /\ UNCHANGED <<mgrVars, mem, sock, ptr, pooled, map, tasks, pc, cur>>
        /\ \A q \in Sessions \ {s} : read'[q] = read[q]
    BY <1>4 DEF PeerSends, PeerCloses, TypeOK
  <2>2. mem[s] # "none" /\ (pc[Io] \in {"add", "init"} => s # cur[Io])
    BY <2>1 DEF FreshInv, Untouched
  <2>3. Posted' = Posted
    BY <2>1 DEF Posted
  <2>4. QED
    BY <2>1, <2>2, <2>3, FreshKept DEF mgrVars
<1>5. QED
  BY <1>1, <1>2, <1>3, <1>4 DEF Network

LEMMA FreshThread ==
  ASSUME TypeOK, ControlInv, FreshInv, NEW t \in Threads,
         TaskStep(t) \/ CloseStep(t) \/ Undefined(t)
  PROVE  FreshInv'
<1> USE ThreadAssumption DEF mgrVars, objVars, Threads
<1>1. CASE TakeTask(t) /\ t \in Workers
  <2>1. /\ tasks # <<>> /\ tasks' = Tail(tasks) /\ UNCHANGED <<mgrVars, objVars, map>>
        /\ cur' = [cur EXCEPT ![t] = Head(tasks)]
    BY <1>1 DEF TakeTask
  <2>2. pc'[Io] = pc[Io] /\ cur'[Io] = cur[Io]
    BY <1>1 DEF TakeTask, TypeOK, Goto
  <2>3. Posted' \subseteq Posted /\ Head(tasks) \in Posted
    BY <2>1, PostedSteps
  <2>4. /\ Head(tasks) \in Sessions => mem[Head(tasks)] # "none"
        /\ pc[Io] \in {"add", "init"} => Head(tasks) # cur[Io]
    BY <2>3 DEF FreshInv, Untouched
  <2>5. \A u \in Threads : cur'[u] \in {cur[u], Head(tasks), None}
    BY <2>1 DEF TypeOK
  <2>6. QED
    BY <2>1, <2>2, <2>3, <2>4, <2>5, FreshKept
<1>2. CASE AppStep(t)
  <2>1. TaskStep(t) /\ pc[t] # "idle"
    BY <1>2 DEF TaskStep, AppStep, ASync_Send, OnMessageReturns, OnMessageCloses, Return, Leave, Goto
  <2>2. /\ UNCHANGED <<accept, mem, sock, ptr, read, map, tasks>>
        /\ pc'[Io] \in {"add", "init"} => pc'[Io] = pc[Io] /\ cur'[Io] = cur[Io]
        /\ \A u \in Threads : cur'[u] \in {cur[u], None}
    BY <2>1, TaskEffect
  <2>3. Posted' = Posted
    BY <2>2 DEF Posted
  <2>4. QED
    BY <2>2, <2>3, FreshKept
<1>3. CASE Close(t)
  <2>1. pc[t] = "close" /\ Live(cur[t]) /\ cur[t] \in Sessions
    BY <1>3 DEF Close, ControlInv, Working
  <2>2. /\ UNCHANGED <<mgrVars, mem, map, tasks>>
        /\ \A u \in Threads : cur'[u] \in {cur[u], None} /\ (u # t => pc'[u] = pc[u] /\ cur'[u] = cur[u])
        /\ pc'[t] \in {"idle", "decoded", "unlink"}
    BY <1>3, CloseEffect DEF Close, CloseStep
  <2>3. \A q \in Sessions \ {cur[t]} : sock'[q] = sock[q] /\ ptr'[q] = ptr[q] /\ read'[q] = read[q]
    BY <1>3 DEF Close, CloseSocket, Aborted, TypeOK
  <2>4. pc'[Io] \in {"add", "init"} => t # Io /\ cur[t] # cur[Io]
    BY <2>1, <2>2 DEF FreshInv, Untouched
  <2>5. Posted' = Posted
    BY <2>2 DEF Posted
  <2>6. QED
    BY <2>1, <2>2, <2>3, <2>4, <2>5, FreshKept DEF Live
<1>4. CASE Close_Session(t)
  <2>1. pc[t] = "unlink" /\ cur[t] \in Sessions
    BY <1>4, ReturnEffect DEF Close_Session, ControlInv, Working
  <2>2. /\ UNCHANGED <<mgrVars, sock, ptr, pooled, read, tasks>> /\ map' \subseteq map
        /\ \A u \in Threads : cur'[u] \in {cur[u], None} /\ (u # t => pc'[u] = pc[u] /\ cur'[u] = cur[u])
        /\ pc'[t] \in {"idle", "decoded"}
    BY <1>4, ReturnEffect DEF Close_Session, TypeOK
  <2>3. /\ \A q \in Sessions \ {cur[t]} : mem'[q] = mem[q]
        /\ mem'[cur[t]] \in {mem[cur[t]], "deleted"}
    BY <1>4, <2>1 DEF Close_Session, TypeOK
  <2>4. mem[cur[t]] # "none"
    BY <2>1 DEF FreshInv, Untouched
  <2>5. pc'[Io] \in {"add", "init"} => t # Io /\ cur[t] # cur[Io]
    BY <2>1, <2>2 DEF FreshInv, Untouched
  <2>6. Posted' = Posted
    BY <2>2 DEF Posted
  <2>7. QED
    BY <2>1, <2>2, <2>3, <2>4, <2>5, <2>6, FreshKept
<1>5. CASE Undefined(t)
  BY <1>5 DEF Undefined, FreshInv, Untouched, Posted, Live
<1>6. QED
  BY <1>1, <1>2, <1>3, <1>4, <1>5 DEF TaskStep, CloseStep

LEMMA FreshAdd ==
  ASSUME TypeOK, ControlInv, FreshInv, AddStep
  PROVE  FreshInv'
<1> USE ThreadAssumption DEF mgrVars, objVars, Goto, Threads, TypeOK
<1>1. CASE Handle_accept
  <2>1. PICK s \in Sessions :
          /\ mem[s] = "none"
          /\ mem' = [mem EXCEPT ![s] = "live"] /\ sock' = [sock EXCEPT ![s] = "live"]
          /\ ptr' = [ptr EXCEPT ![s] = TRUE]
          /\ cur' = [cur EXCEPT ![Io] = s]
    BY <1>1, Chosen
  <2>2. Untouched(s) /\ s \notin map
    BY <2>1 DEF FreshInv
  <2>3. UNCHANGED <<read, map, tasks>> /\ accept' = "none" /\ pc'[Io] = "add"
    BY <1>1 DEF Handle_accept
  <2>4. \A q \in Sessions : Untouched(q) => Untouched(q)'
    BY <2>1, <2>3 DEF Untouched, Posted
  <2>5. ASSUME NEW q \in Sessions, mem'[q] = "none"
        PROVE  Untouched(q)' /\ cur'[Io] # q /\ sock'[q] = "none" /\ ~ptr'[q] /\ q \notin map'
    <3>1. q # s /\ mem[q] = "none"
      BY <2>1, <2>5
    <3>2. QED
      BY <2>1, <2>3, <2>4, <3>1 DEF FreshInv
  <2>6. cur'[Io] = s /\ mem'[s] = "live" /\ sock'[s] = "live" /\ ptr'[s]
    BY <2>1
  <2>7. QED
    BY <2>2, <2>3, <2>4, <2>5, <2>6 DEF FreshInv, Live
<1>2. CASE Handle_accept_Error
  BY <1>2 DEF Handle_accept_Error, FreshInv, Untouched, Posted, Live
<1>3. CASE AddFull
  <2>1. pc[Io] = "add" /\ pc'[Io] = "reject" /\ cur[Io] \in Sessions /\ Live(cur[Io])
    BY <1>3 DEF AddFull, ControlInv, Working, FreshInv
  <2>2. UNCHANGED <<mgrVars, mem, map, tasks, cur>>
    BY <1>3 DEF AddFull
  <2>3. \A q \in Sessions \ {cur[Io]} : sock'[q] = sock[q] /\ ptr'[q] = ptr[q] /\ read'[q] = read[q]
    BY <1>3 DEF AddFull, CloseSocket, Aborted
  <2>4. Posted' = Posted
    BY <2>2 DEF Posted
  <2>5. QED
    BY <2>1, <2>2, <2>3, <2>4, FreshKept DEF Live
<1>4. CASE AddInsert
  <2>1. /\ pc[Io] = "add" /\ pc'[Io] = "init" /\ map' = map \union {cur[Io]}
        /\ UNCHANGED <<accept, mem, sock, ptr, read, tasks, cur>>
    BY <1>4 DEF AddInsert
  <2>2. \A q \in Sessions : Untouched(q) => Untouched(q)'
    BY <2>1 DEF Untouched, Posted
  <2>3. Untouched(cur[Io]) /\ Live(cur[Io]) /\ sock[cur[Io]] = "live" /\ ptr[cur[Io]]
    BY <2>1 DEF FreshInv
  <2>4. cur[Io] \in Sessions
    BY <2>1 DEF ControlInv, Working
  <2>5. QED
    BY <2>1, <2>2, <2>3, <2>4 DEF FreshInv, Live
<1>5. CASE InitAccepts \/ InitRefuses \/ InitCloses
  <2>1. /\ pc[Io] = "init" /\ pc'[Io] \notin {"add", "init"} /\ cur[Io] \in Sessions
        /\ Live(cur[Io]) /\ UNCHANGED <<mgrVars, mem, map, tasks, cur>>
    BY <1>5 DEF InitAccepts, InitRefuses, InitCloses, ControlInv, Working, FreshInv
  <2>2. \A q \in Sessions \ {cur[Io]} : sock'[q] = sock[q] /\ ptr'[q] = ptr[q] /\ read'[q] = read[q]
    BY <1>5 DEF InitAccepts, InitRefuses, InitCloses, CloseSocket, Aborted
  <2>3. Posted' = Posted
    BY <2>1 DEF Posted
  <2>4. QED
    BY <2>1, <2>2, <2>3, FreshKept DEF Live
<1>6. QED
  BY <1>1, <1>2, <1>3, <1>4, <1>5 DEF AddStep

LEMMA FreshAdded ==
  ASSUME TypeOK, ControlInv, FreshInv, AddedStep
  PROVE  FreshInv'
<1> USE ThreadAssumption DEF mgrVars, objVars, Goto, Leave, Threads, TypeOK
<1>1. CASE HandlerThrows
  <2>1. pc'[Io] = "free" /\ UNCHANGED <<mgrVars, objVars, map, tasks, cur>>
    BY <1>1 DEF HandlerThrows
  <2>2. Posted' = Posted
    BY <2>1 DEF Posted
  <2>3. QED
    BY <2>1, <2>2, FreshKept
<1>2. CASE Accepted
  <2>1. /\ pc'[Io] = "idle" /\ accept' # "ok" /\ UNCHANGED <<objVars, map, tasks>>
        /\ \A u \in Threads : cur'[u] \in {cur[u], None}
    BY <1>2 DEF Accepted, AsyncAccept
  <2>2. Posted' = Posted
    BY <2>1 DEF Posted
  <2>3. QED
    BY <2>1, <2>2, FreshKept
<1>3. CASE RejectSession \/ FreeSocket
  <2>1. pc[Io] \in {"reject", "free"} /\ cur[Io] \in Sessions /\ mem[cur[Io]] # "none"
    BY <1>3 DEF RejectSession, FreeSocket, ControlInv, Working, FreshInv
  <2>2. /\ pc'[Io] \in {"free", "idle"} /\ UNCHANGED <<ptr, map, tasks>>
        /\ \A u \in Threads : cur'[u] \in {cur[u], None}
        /\ accept' = "ok" => accept = "ok"
    BY <1>3 DEF RejectSession, FreeSocket, AsyncAccept
  <2>3. /\ \A q \in Sessions \ {cur[Io]} :
             mem'[q] = mem[q] /\ sock'[q] = sock[q] /\ read'[q] = read[q]
        /\ mem'[cur[Io]] \in {mem[cur[Io]], "deleted"}
    BY <1>3, <2>1 DEF RejectSession, FreeSocket, Aborted
  <2>4. Posted' = Posted
    BY <2>2 DEF Posted
  <2>5. QED
    BY <2>1, <2>2, <2>3, <2>4, FreshKept
<1>4. ASSUME NEW s \in Sessions, Handler_Receive(s) \/ Handler_Write(s) PROVE FreshInv'
  <2>1. /\ Live(s) /\ pc'[Io] \notin {"add", "init"}
        /\ UNCHANGED <<mgrVars, mem, sock, ptr, map>>
        /\ \A u \in Threads : cur'[u] \in {cur[u], s}
        /\ \A q \in Sessions \ {s} : read'[q] = read[q]
    BY <1>4, HandlerEffect
  <2>2. Posted' \subseteq Posted \union {s}
    BY <1>4, HandlerEffect, PostedSteps
  <2>3. QED
    BY <2>1, <2>2, FreshKept DEF Live
<1>5. CASE Decoded
  <2>1. /\ Live(cur[Io]) /\ cur[Io] \in Sessions /\ pc'[Io] = "idle"
        /\ UNCHANGED <<mgrVars, mem, sock, ptr, map, tasks>>
        /\ \A u \in Threads : cur'[u] \in {cur[u], None}
        /\ \A q \in Sessions \ {cur[Io]} : read'[q] = read[q]
    BY <1>5 DEF Decoded, ControlInv, Working
  <2>2. Posted' = Posted
    BY <2>1 DEF Posted
  <2>3. QED
    BY <2>1, <2>2, FreshKept DEF Live
<1>6. QED
  BY <1>1, <1>2, <1>3, <1>4, <1>5 DEF AddedStep

LEMMA FreshControl ==
  ASSUME TypeOK, ControlInv, FreshInv, ControlStep \/ UNCHANGED vars
  PROVE  FreshInv'
<1> USE ThreadAssumption DEF mgrVars, objVars, Goto, Threads, TypeOK
<1>1. CASE StopIgnored \/ StopAcceptor \/ StopContext \/ Join \/ DestroyManager \/ UNCHANGED vars
  <2>1. /\ UNCHANGED <<objVars, map, tasks, cur>> /\ pc'[Io] = pc[Io]
        /\ accept' = "ok" => accept = "ok"
    BY <1>1 DEF StopIgnored, StopAcceptor, StopContext, Join, DestroyManager, vars
  <2>2. Posted' = Posted
    BY <2>1 DEF Posted
  <2>3. QED
    BY <2>1, <2>2, FreshKept
<1>2. CASE Clear
  <2>1. UNCHANGED <<accept, tasks, cur>> /\ pc'[Io] = pc[Io] /\ map' = {} /\ mutex = None
    BY <1>2 DEF Clear
  <2>2. \A s \in Sessions : s \notin map => /\ mem'[s] = mem[s] /\ sock'[s] = sock[s]
                                            /\ ptr'[s] = ptr[s] /\ read'[s] = read[s]
    BY <1>2 DEF Clear
  <2>3. \A s \in map : mem'[s] = "deleted"
    BY <1>2 DEF Clear
  <2>4. \A s \in Sessions : s \notin map => (Untouched(s) => Untouched(s)')
    BY <2>1, <2>2 DEF Untouched, Posted
  <2>5. pc[Io] # "init" /\ (pc[Io] = "add" => cur[Io] \in Sessions)
    BY <2>1 DEF ControlInv, Working
  <2>6. \A s \in Sessions : mem[s] = "none" => s \notin map
    BY DEF FreshInv
  <2>7. accept' = "ok" => \E s \in Sessions : mem'[s] = "none"
    BY <2>1, <2>2, <2>6 DEF FreshInv
  <2>8. ASSUME NEW s \in Sessions, mem'[s] = "none"
        PROVE  Untouched(s)' /\ cur'[Io] # s /\ sock'[s] = "none" /\ ~ptr'[s] /\ s \notin map'
    <3>1. s \notin map /\ mem[s] = "none"
      BY <2>2, <2>3, <2>8
    <3>2. QED
      BY <2>1, <2>2, <2>4, <3>1 DEF FreshInv
  <2>9. pc'[Io] = "add" => /\ Untouched(cur[Io])' /\ mem'[cur[Io]] = "live"
                           /\ sock'[cur[Io]] = "live" /\ ptr'[cur[Io]]
    BY <2>1, <2>2, <2>4, <2>5 DEF FreshInv, Live
  <2>10. QED
    BY <2>1, <2>5, <2>7, <2>8, <2>9 DEF FreshInv, Live
<1>3. QED
  BY <1>1, <1>2 DEF ControlStep

\* No other thread comes near a refused session.
LEMMA RejectThread ==
  ASSUME TypeOK, ControlInv, FreshInv, RejectInv, NEW t \in Threads,
         TaskStep(t) \/ (CloseStep(t) /\ t # Io) \/ Undefined(t)
  PROVE  RejectInv'
<1> USE ThreadAssumption DEF Threads, mgrVars, objVars
<1> SUFFICES ASSUME pc'[Io] = "reject"
             PROVE  Untouched(cur[Io])' /\ (cur'[Io] \in map' => ptr'[cur'[Io]])
  BY DEF RejectInv
<1>1. CASE Undefined(t)
  BY <1>1 DEF Undefined, RejectInv, Untouched, Posted
<1>2. ASSUME ~Undefined(t)
      PROVE  t # Io /\ pc'[Io] = pc[Io] /\ cur'[Io] = cur[Io]
  BY <1>2, TaskEffect, CloseEffect
<1>3. ASSUME ~Undefined(t)
      PROVE  /\ Untouched(cur[Io]) /\ cur[Io] \in Sessions /\ cur[t] # cur[Io]
             /\ cur[Io] \in map => ptr[cur[Io]]
  BY <1>2, <1>3 DEF RejectInv, Untouched, ControlInv, Working
<1>4. CASE ~Undefined(t) /\ TaskStep(t)
  <2>1. /\ UNCHANGED <<read, ptr, map>>
        /\ \A u \in Threads : cur'[u] \in {cur[u], None} \/ cur'[u] \in Posted
        /\ Posted' \subseteq Posted
    BY <1>4, TaskEffect, PostedSteps
  <2>2. QED
    BY <1>2, <1>3, <1>4, <2>1 DEF Untouched
<1>5. CASE ~Undefined(t) /\ CloseStep(t)
  <2>1. tasks' = tasks /\ \A u \in Threads : cur'[u] \in {cur[u], None}
    BY <1>5, CloseEffect
  <2>2. /\ map' \subseteq map
        /\ read'[cur[Io]] = read[cur[Io]] /\ ptr'[cur[Io]] = ptr[cur[Io]]
    BY <1>3, <1>5 DEF CloseStep, Close, Close_Session, CloseSocket, Aborted, TypeOK
  <2>3. QED
    BY <1>2, <1>3, <1>5, <2>1, <2>2 DEF Untouched, Posted
<1>6. QED
  BY <1>1, <1>4, <1>5

LEMMA RejectIo ==
  ASSUME TypeOK, ControlInv, FreshInv, RejectInv,
         RunStep \/ AddStep \/ AddedStep \/ CloseStep(Io)
  PROVE  RejectInv'
<1> USE ThreadAssumption DEF Goto, Leave, Threads, TypeOK, mgrVars, objVars
<1>1. CASE RunStep \/ AddedStep \/ CloseStep(Io)
  <2>1. pc'[Io] # "reject"
    <3>1. CASE RunStep
      BY <3>1 DEF RunStep, RunRestart, RunRefused, RunOpen, RunListen, RunThrows, RunReturns
    <3>2. CASE AddedStep
      BY <3>2, HandlerEffect DEF AddedStep, HandlerThrows, Accepted, RejectSession, FreeSocket, Decoded
    <3>3. CASE CloseStep(Io)
      BY <3>3, CloseEffect
    <3>4. QED
      BY <1>1, <3>1, <3>2, <3>3
  <2>2. QED
    BY <2>1 DEF RejectInv
<1>2. CASE AddFull
  <2>1. /\ pc[Io] = "add" /\ cur[Io] \in Sessions /\ Untouched(cur[Io]) /\ cur[Io] \notin map
        /\ UNCHANGED <<map, tasks, cur>> /\ read'[cur[Io]] = "none"
    BY <1>2 DEF AddFull, CloseSocket, Aborted, ControlInv, Working, FreshInv, Untouched
  <2>2. QED
    BY <2>1 DEF RejectInv, Untouched, Posted
<1>3. CASE InitRefuses
  <2>1. /\ pc[Io] = "init" /\ Untouched(cur[Io]) /\ ptr[cur[Io]] /\ UNCHANGED <<objVars, tasks, cur>>
    BY <1>3 DEF InitRefuses, FreshInv
  <2>2. QED
    BY <2>1 DEF RejectInv, Untouched, Posted
<1>4. CASE Handle_accept \/ AddInsert \/ InitAccepts \/ InitCloses
  BY <1>4 DEF Handle_accept, AddInsert, InitAccepts, InitCloses, RejectInv
<1>5. CASE Handle_accept_Error
  BY <1>5 DEF Handle_accept_Error, RejectInv, Untouched, Posted
<1>6. QED
  BY <1>1, <1>2, <1>3, <1>4, <1>5 DEF AddStep

LEMMA RejectOther ==
  ASSUME TypeOK, ControlInv, RejectInv, Network \/ ControlStep \/ UNCHANGED vars
  PROVE  RejectInv'
<1> USE ThreadAssumption DEF Goto, Threads, TypeOK, mgrVars, objVars
<1>1. pc'[Io] = pc[Io] /\ UNCHANGED <<tasks, cur>>
  BY DEF Network, Connect, ConnectFails, PeerSends, PeerCloses, WriteEnds, vars,
         ControlStep, StopIgnored, StopAcceptor, StopContext, Clear, Join, DestroyManager
<1>2. CASE Network
  <2>1. UNCHANGED <<map, ptr>> /\ \A s \in Sessions : read[s] = "none" => read'[s] = "none"
    BY <1>2 DEF Network, Connect, ConnectFails, PeerSends, PeerCloses, WriteEnds
  <2>2. pc[Io] = "reject" => cur[Io] \in Sessions
    BY DEF ControlInv, Working
  <2>3. QED
    BY <1>1, <2>1, <2>2 DEF RejectInv, Untouched, Posted
<1>3. CASE Clear
  <2>1. map' = {} /\ \A s \in Sessions : read[s] = "none" => read'[s] = "none"
    BY <1>3 DEF Clear
  <2>2. pc[Io] = "reject" => cur[Io] \in Sessions
    BY DEF ControlInv, Working
  <2>3. QED
    BY <1>1, <2>1, <2>2 DEF RejectInv, Untouched, Posted
<1>4. CASE StopIgnored \/ StopAcceptor \/ StopContext \/ Join \/ DestroyManager \/ UNCHANGED vars
  <2>1. UNCHANGED <<map, ptr, read>>
    BY <1>4 DEF StopIgnored, StopAcceptor, StopContext, Join, DestroyManager, vars
  <2>2. QED
    BY <1>1, <2>1 DEF RejectInv, Untouched, Posted
<1>5. QED
  BY <1>2, <1>3, <1>4 DEF ControlStep

-----------------------------------------------------------------------------
(* The map, the sessions in it and the threads that take them out.          *)

\* A step that touches neither the map nor a session, and takes no thread to or from the places
\* the invariant speaks of.
LEMMA LinkKept ==
  ASSUME PoolInv, UNCHANGED <<mem, sock, ptr, pooled, map>>,
         \A t \in Threads : /\ pc'[t] = "unlink" <=> pc[t] = "unlink"
                            /\ pc[t] = "unlink" => cur'[t] = cur[t],
         pc[Io] \in {"add", "reject"} => pc'[Io] \in {"add", "reject"} /\ cur'[Io] = cur[Io]
  PROVE  LinkInv'
<1> USE DEF PoolInv, LinkInv, TypeOK
<1>1. PointerInv'
  BY DEF PointerInv
<1>2. PoolExact'
  BY DEF PoolExact, Live
<1>3. NoneForgotten'
  BY DEF NoneForgotten, Live
<1>4. QED
  BY <1>1, <1>2, <1>3

LEMMA LinkQuiet ==
  ASSUME PoolInv,
         \/ RunStep \/ Network \/ Handle_accept_Error \/ InitAccepts \/ InitRefuses
         \/ HandlerThrows \/ Accepted \/ UNCHANGED vars
         \/ Decoded \/ \E s \in Sessions : Handler_Receive(s) \/ Handler_Write(s)
         \/ \E t \in Threads : TaskStep(t)
         \/ \E t \in Threads : Undefined(t)
         \/ StopIgnored \/ StopAcceptor \/ StopContext \/ Join \/ DestroyManager
  PROVE  LinkInv'
<1> USE ThreadAssumption DEF TypeOK, Goto, Leave, Threads, mgrVars, objVars
<1>t. TypeOK
  BY DEF PoolInv
<1>1. CASE RunStep
  BY <1>t, <1>1, LinkKept
     DEF RunStep, RunRestart, RunRefused, RunOpen, RunListen, RunThrows, RunReturns
<1>2. CASE Network
  BY <1>t, <1>2, LinkKept DEF Network, Connect, ConnectFails, PeerSends, PeerCloses, WriteEnds
<1>3. CASE Handle_accept_Error \/ InitAccepts \/ InitRefuses
  BY <1>t, <1>3, LinkKept DEF Handle_accept_Error, InitAccepts, InitRefuses
<1>4. CASE HandlerThrows \/ Accepted
  BY <1>t, <1>4, LinkKept DEF HandlerThrows, Accepted
<1>5. CASE UNCHANGED vars
  BY <1>t, <1>5, LinkKept DEF vars
<1>6. CASE Decoded \/ \E s \in Sessions : Handler_Receive(s) \/ Handler_Write(s)
  BY <1>t, <1>6, HandlerEffect, LinkKept DEF Decoded
<1>7. ASSUME NEW t \in Threads, TaskStep(t) PROVE LinkInv'
  <2>1. UNCHANGED <<mem, sock, ptr, pooled, map>>
    BY <1>7, TaskEffect DEF PoolInv
  <2>2. ASSUME NEW u \in Threads
        PROVE  /\ pc'[u] = "unlink" <=> pc[u] = "unlink"
               /\ pc[u] = "unlink" => cur'[u] = cur[u]
    BY <1>7, TaskEffect DEF PoolInv
  <2>3. pc[Io] \in {"add", "reject"} => pc'[Io] \in {"add", "reject"} /\ cur'[Io] = cur[Io]
    BY <1>7, TaskEffect DEF PoolInv
  <2>4. QED
    BY <2>1, <2>2, <2>3, LinkKept
<1>8. ASSUME NEW t \in Threads, Undefined(t) PROVE LinkInv'
  BY <1>t, <1>8, LinkKept DEF Undefined
<1>9. CASE StopIgnored \/ StopAcceptor \/ StopContext \/ Join \/ DestroyManager
  BY <1>t, <1>9, LinkKept DEF StopIgnored, StopAcceptor, StopContext, Join, DestroyManager
<1>10. QED
  BY <1>1, <1>2, <1>3, <1>4, <1>5, <1>6, <1>7, <1>8, <1>9

LEMMA LinkAdd ==
  ASSUME PoolInv, Handle_accept \/ AddFull \/ AddInsert \/ InitCloses
  PROVE  LinkInv'
<1> USE ThreadAssumption DEF PoolInv, LinkInv, TypeOK, Goto, Threads, mgrVars, objVars
<1>1. CASE Handle_accept
  <2>1. PICK s \in Sessions :
          /\ mem[s] = "none"
          /\ mem' = [mem EXCEPT ![s] = "live"] /\ sock' = [sock EXCEPT ![s] = "live"]
          /\ ptr' = [ptr EXCEPT ![s] = TRUE]
          /\ cur' = [cur EXCEPT ![Io] = s]
    BY <1>1, Chosen
  <2>2. s \notin map /\ \A t \in Threads : cur[t] # s
    BY <2>1 DEF FreshInv, Untouched
  <2>3. UNCHANGED <<map, pooled>> /\ pc[Io] = "idle" /\ pc' = [pc EXCEPT ![Io] = "add"]
    BY <1>1 DEF Handle_accept
  <2>4. PointerInv'
    BY <2>1, <2>2, <2>3 DEF PointerInv
  <2>5. PoolExact'
    BY <2>1, <2>2, <2>3 DEF PoolExact, Live
  <2>6. NoneForgotten'
    BY <2>1, <2>2, <2>3 DEF NoneForgotten, Live
  <2>7. QED
    BY <2>4, <2>5, <2>6
<1>2. CASE AddFull
  <2>1. /\ pc[Io] = "add" /\ pc' = [pc EXCEPT ![Io] = "reject"] /\ UNCHANGED <<mem, map, cur>>
        /\ cur[Io] \in Sessions /\ cur[Io] \notin map /\ CloseSocket(cur[Io])
    BY <1>2 DEF AddFull, ControlInv, Working, FreshInv
  <2>2. PointerInv'
    BY <2>1 DEF PointerInv, CloseSocket
  <2>3. PoolExact'
    BY <2>1 DEF PoolExact, Live
  <2>4. NoneForgotten'
    BY <2>1 DEF NoneForgotten, Live, CloseSocket
  <2>5. QED
    BY <2>2, <2>3, <2>4
<1>3. CASE AddInsert
  <2>1. /\ pc[Io] = "add" /\ pc' = [pc EXCEPT ![Io] = "init"] /\ UNCHANGED <<mem, sock, ptr, cur>>
        /\ map' = map \union {cur[Io]} /\ pooled' = [pooled EXCEPT ![cur[Io]] = TRUE]
        /\ cur[Io] \in Sessions /\ Live(cur[Io]) /\ ptr[cur[Io]]
    BY <1>3 DEF AddInsert, ControlInv, Working, FreshInv
  <2>2. PointerInv'
    BY <2>1 DEF PointerInv
  <2>3. PoolExact'
    BY <2>1 DEF PoolExact, Live
  <2>4. NoneForgotten'
    BY <2>1 DEF NoneForgotten, Live
  <2>5. QED
    BY <2>2, <2>3, <2>4
<1>4. CASE InitCloses
  <2>1. /\ pc[Io] = "init" /\ pc' = [pc EXCEPT ![Io] = "unlink"] /\ UNCHANGED <<mem, map, cur>>
        /\ cur[Io] \in Sessions /\ CloseSocket(cur[Io])
    BY <1>4 DEF InitCloses, ControlInv, Working
  <2>2. PointerInv'
    BY <2>1 DEF PointerInv, CloseSocket
  <2>3. PoolExact'
    BY <2>1 DEF PoolExact, Live
  <2>4. NoneForgotten'
    BY <2>1 DEF NoneForgotten, Live, CloseSocket
  <2>5. QED
    BY <2>2, <2>3, <2>4
<1>5. QED
  BY <1>1, <1>2, <1>3, <1>4

LEMMA LinkFree ==
  ASSUME PoolInv, RejectSession \/ FreeSocket
  PROVE  LinkInv'
<1> USE ThreadAssumption DEF PoolInv, LinkInv, TypeOK, Goto, Leave, Threads, mgrVars
<1>1. CASE RejectSession
  <2>1. /\ pc[Io] = "reject" /\ pc' = [pc EXCEPT ![Io] = "free"] /\ ~ptr[cur[Io]]
        /\ mem' = [mem EXCEPT ![cur[Io]] = "deleted"] /\ UNCHANGED <<sock, ptr, pooled, map, cur>>
        /\ cur[Io] \in Sessions
    BY <1>1 DEF RejectSession, ControlInv, Working
  <2>2. cur[Io] \notin map
    BY <2>1 DEF RejectInv
  <2>3. PointerInv'
    BY <2>1 DEF PointerInv
  <2>4. PoolExact'
    BY <2>1, <2>2 DEF PoolExact, Live
  <2>5. NoneForgotten'
    BY <2>1 DEF NoneForgotten, Live
  <2>6. QED
    BY <2>3, <2>4, <2>5
<1>2. CASE FreeSocket
  <2>1. /\ pc[Io] = "free" /\ pc' = [pc EXCEPT ![Io] = "idle"] /\ cur' = [cur EXCEPT ![Io] = None]
        /\ sock' = [sock EXCEPT ![cur[Io]] = "deleted"] /\ UNCHANGED <<mem, ptr, pooled, map>>
    BY <1>2 DEF FreeSocket
  <2>2. PointerInv'
    BY <2>1 DEF PointerInv
  <2>3. PoolExact'
    BY <2>1 DEF PoolExact, Live
  <2>4. NoneForgotten'
    BY <2>1 DEF NoneForgotten, Live
  <2>5. QED
    BY <2>2, <2>3, <2>4
<1>3. QED
  BY <1>1, <1>2

LEMMA LinkClose ==
  ASSUME PoolInv, NEW t \in Threads, CloseStep(t)
  PROVE  LinkInv'
<1> USE ThreadAssumption DEF PoolInv, LinkInv, TypeOK, Threads, mgrVars
<1>1. /\ cur[t] \in Sessions /\ \A u \in Threads \ {t} : pc'[u] = pc[u] /\ cur'[u] = cur[u]
      /\ pc[t] \in {"close", "unlink"} /\ pc'[t] \in {"idle", "decoded", "unlink"}
  BY CloseEffect
<1>2. pc[Io] \in {"add", "reject"} => pc'[Io] = pc[Io] /\ cur'[Io] = cur[Io]
  BY <1>1
<1>3. CASE Close(t) /\ ptr[cur[t]]
  <2>1. /\ pc[t] = "close" /\ CloseSocket(cur[t]) /\ UNCHANGED <<mem, map>>
        /\ IF pooled[cur[t]] THEN pc'[t] = "unlink" /\ cur'[t] = cur[t] ELSE pc'[t] # "unlink"
    BY <1>3, ReturnEffect DEF Close, Goto
  <2>2. PointerInv'
    BY <1>1, <2>1 DEF PointerInv, CloseSocket
  <2>3. PoolExact'
    BY <1>2, <2>1 DEF PoolExact, Live
  <2>4. NoneForgotten'
    BY <1>1, <1>3, <2>1 DEF NoneForgotten, Live, CloseSocket, PointerInv
  <2>5. QED
    BY <2>2, <2>3, <2>4
<1>4. CASE Close(t) /\ ~ptr[cur[t]]
  <2>1. pc[t] = "close" /\ pc'[t] # "unlink" /\ UNCHANGED <<mem, sock, ptr, pooled, map>>
    BY <1>4, ReturnEffect DEF Close
  <2>2. QED
    BY <1>1, <1>2, <2>1, LinkKept
<1>5. CASE Close_Session(t)
  <2>1. /\ pc[t] = "unlink" /\ pc'[t] # "unlink"
        /\ map' = map \ {cur[t]} /\ UNCHANGED <<sock, ptr, pooled>>
        /\ mem' = [mem EXCEPT ![cur[t]] = IF cur[t] \in map THEN "deleted" ELSE @]
    BY <1>5, ReturnEffect DEF Close_Session
  <2>2. ~ptr[cur[t]]
    BY <2>1 DEF PointerInv
  <2>3. PointerInv'
    BY <1>1, <2>1 DEF PointerInv
  <2>4. PoolExact'
    BY <1>1, <1>2, <2>1 DEF PoolExact, Live
  <2>5. NoneForgotten'
    BY <1>1, <2>1, <2>2 DEF NoneForgotten, Live
  <2>6. QED
    BY <2>3, <2>4, <2>5
<1>6. QED
  BY <1>3, <1>4, <1>5 DEF CloseStep

LEMMA LinkClear ==
  ASSUME PoolInv, Clear
  PROVE  LinkInv'
<1> USE ThreadAssumption DEF PoolInv, LinkInv, TypeOK, Goto, Threads
<1>1. /\ map' = {} /\ cur' = cur /\ \A t \in Threads \ {Control} : pc'[t] = pc[t]
      /\ pc'[Control] = "join"
      /\ \A s \in map : mem'[s] = "deleted" /\ sock'[s] = "deleted" /\ ~ptr'[s]
      /\ \A s \in Sessions \ map : mem'[s] = mem[s] /\ sock'[s] = sock[s] /\ ptr'[s] = ptr[s]
  BY DEF Clear
<1>2. PointerInv'
  <2>1. ASSUME NEW t \in Threads, pc'[t] = "unlink" PROVE ~ptr'[cur'[t]]
    <3>1. pc[t] = "unlink" /\ cur'[t] = cur[t] /\ cur[t] \in Sessions
      BY <1>1, <2>1 DEF ControlInv, Working
    <3>2. QED
      BY <1>1, <3>1 DEF PointerInv
  <2>2. QED
    BY <1>1, <2>1 DEF PointerInv
<1>3. PoolExact'
  BY <1>1 DEF PoolExact, Live
<1>4. NoneForgotten'
  BY <1>1 DEF NoneForgotten, Live
<1>5. QED
  BY <1>2, <1>3, <1>4

\* Where a step of Next comes from.
LEMMA Steps ==
  ASSUME [Next]_vars
  PROVE  \/ ~Ended /\ running /\ Network
         \/ ~Ended /\ (RunStep \/ AddStep \/ AddedStep \/ ControlStep)
         \/ ~Ended /\ \E t \in Threads : TaskStep(t)
         \/ ~Ended /\ \E t \in Threads : CloseStep(t) \/ Undefined(t)
         \/ UNCHANGED vars
BY DEF Next, ThreadStep, IoStep, AddStep, AddedStep, TaskStep, CloseStep

\* Every step keeps the pool's part of the invariant.
LEMMA PoolStep ==
  ASSUME PoolInv, [Next]_vars
  PROVE  PoolInv'
<1> USE ThreadAssumption DEF PoolInv
<1>1. CASE Network \/ UNCHANGED vars
  <2>1. TypeOK'
    BY <1>1, TypeNetwork DEF TypeOK, vars, mgrVars, objVars
  <2>2. FreshInv'
    BY <1>1, FreshNetwork, FreshControl
  <2>3. QED
    BY <1>1, <2>1, <2>2, ControlOther, RejectOther, LinkQuiet
<1>2. CASE ControlStep
  <2>1. LinkInv'
    BY <1>2, LinkQuiet, LinkClear DEF ControlStep
  <2>2. QED
    BY <1>2, <2>1, TypeControl, ControlOther, FreshControl, RejectOther
<1>3. CASE RunStep
  BY <1>3, TypeRun, ControlIo, FreshRun, RejectIo, LinkQuiet
<1>4. CASE AddStep
  <2>1. LinkInv'
    BY <1>4, LinkQuiet, LinkAdd DEF AddStep
  <2>2. QED
    BY <1>4, <2>1, TypeAdd, ControlIo, FreshAdd, RejectIo
<1>5. CASE AddedStep
  <2>1. LinkInv'
    BY <1>5, LinkQuiet, LinkFree DEF AddedStep
  <2>2. QED
    BY <1>5, <2>1, TypeAdded, ControlIo, FreshAdded, RejectIo
<1>6. ASSUME NEW t \in Threads, TaskStep(t) PROVE PoolInv'
  BY <1>6, TypeThread, ControlAny, FreshThread, RejectThread, LinkQuiet
<1>7. ASSUME NEW t \in Threads, CloseStep(t) PROVE PoolInv'
  BY <1>7, TypeThread, ControlAny, FreshThread, RejectThread, RejectIo, LinkClose
<1>8. ASSUME NEW t \in Threads, Undefined(t) PROVE PoolInv'
  <2>1. TypeOK' /\ FreshInv' /\ LinkInv'
    BY <1>8, TypeThread, FreshThread, LinkQuiet
  <2>2. ControlInv'
    BY <1>8 DEF Undefined, ControlInv
  <2>3. RejectInv'
    BY <1>8, RejectThread
  <2>4. QED
    BY <2>1, <2>2, <2>3
<1>9. QED
  BY <1>1, <1>2, <1>3, <1>4, <1>5, <1>6, <1>7, <1>8, Steps

-----------------------------------------------------------------------------
(* Stop and the accept loop.                                                *)

\* Stop's flags, and the io thread that Stop did not wait for.
LEMMA StopStep ==
  ASSUME PoolInv, StopInv, StopEmpties, [Next]_vars
  PROVE  StopInv' /\ StopEmpties'
<1> USE ThreadAssumption DEF Goto, Leave, Threads, mgrVars, objVars
<1>t. TypeOK /\ ControlInv
  BY DEF PoolInv
<1>1. CASE UNCHANGED vars
  BY <1>1 DEF vars, StopInv, StopEmpties
<1> DEFINE Quiet == /\ map' \subseteq map /\ pc'[Control] = pc[Control]
                    /\ pc'[Io] = "add" => pc[Io] = "add" \/ running
<1>2. ASSUME Quiet, running' = running,
             pc'[Io] \in {"restart", "open"} => pc[Io] = pc'[Io] /\ acceptor' = acceptor
      PROVE  StopInv' /\ StopEmpties'
  <2>1. StopInv'
    BY <1>2 DEF StopInv
  <2>2. IsFiniteSet(map) /\ IsFiniteSet(map')
    BY <1>t, <1>2, PoolAssumption, FS_Subset DEF TypeOK
  <2>3. /\ Cardinality(map') <= Cardinality(map)
        /\ Cardinality(map) \in Nat /\ Cardinality(map') \in Nat
    BY <1>2, <2>2, FS_Subset, FS_CardinalityType
  <2>4. StopEmpties'
    BY <1>2, <2>3 DEF StopEmpties
  <2>5. QED
    BY <2>1, <2>4
<1>3. CASE Network \/ \E t \in Threads : Undefined(t)
  BY <1>2, <1>3 DEF Network, Connect, ConnectFails, PeerSends, PeerCloses, WriteEnds, Undefined
<1>4. ASSUME NEW t \in Threads, TaskStep(t) \/ CloseStep(t)
      PROVE  StopInv' /\ StopEmpties'
  <2>1. /\ t # Control /\ UNCHANGED <<running, acceptor>>
        /\ pc'[Control] = pc[Control]
        /\ pc'[Io] \in {"restart", "open", "add"} => pc'[Io] = pc[Io]
    BY <1>t, <1>4, TaskEffect, CloseEffect
  <2>2. map' \subseteq map
    BY <1>t, <1>4, TaskEffect DEF CloseStep, Close, Close_Session
  <2>3. QED
    BY <1>2, <2>1, <2>2
<1>5. CASE RunStep
  <2>1. CASE RunRestart \/ RunRefused \/ RunOpen
    <3>1. pc[Control] \in {"idle", "ignored"} /\ pc'[Control] = pc[Control]
      BY <1>t, <2>1 DEF RunRestart, RunRefused, RunOpen, StopInv, TypeOK
    <3>2. pc'[Io] \in {"restart", "open"} => acceptor' = "closed"
      BY <1>t, <2>1 DEF RunRestart, RunRefused, RunOpen, StopInv, TypeOK
    <3>3. QED
      BY <3>1, <3>2 DEF StopInv, StopEmpties
  <2>2. CASE RunListen \/ RunThrows \/ RunReturns
    <3>1. pc'[Io] \in {"idle", "returned"} /\ pc'[Control] = pc[Control]
          /\ UNCHANGED <<map, running>>
      BY <1>t, <2>2 DEF RunListen, RunThrows, RunReturns, TypeOK
    <3>2. QED
      BY <1>2, <3>1
  <2>3. QED
    BY <1>5, <2>1, <2>2 DEF RunStep
<1>6. CASE AddStep /\ ~AddInsert
  <2>1. pc'[Control] = pc[Control] /\ UNCHANGED <<map, running, acceptor>>
    BY <1>t, <1>6 DEF AddStep, Handle_accept, Handle_accept_Error, AddFull, InitAccepts, InitRefuses,
                      InitCloses, TypeOK
  <2>2. pc'[Io] \notin {"restart", "open"} /\ (pc'[Io] = "add" => running)
    BY <1>t, <1>6 DEF AddStep, Handle_accept, Handle_accept_Error, AddFull, InitAccepts, InitRefuses,
                      InitCloses, TypeOK
  <2>3. QED
    BY <1>2, <2>1, <2>2
<1>7. CASE AddInsert
  <2>1. /\ pc[Io] = "add" /\ pc'[Io] = "init" /\ pc'[Control] = pc[Control]
        /\ map' = map \union {cur[Io]} /\ running' = running
    BY <1>t, <1>7 DEF AddInsert, TypeOK
  <2>2. StopInv'
    BY <2>1 DEF StopInv
  <2>3. pc[Control] \in {"join", "done"} => map' = {cur[Io]}
    BY <2>1 DEF StopInv
  <2>4. pc[Control] \in {"join", "done"} => Cardinality(map') = 1
    BY <2>3, FS_Singleton
  <2>5. StopEmpties'
    BY <2>1, <2>4 DEF StopEmpties
  <2>6. QED
    BY <2>2, <2>5
<1>8. CASE AddedStep
  <2>1. /\ pc'[Control] = pc[Control] /\ UNCHANGED <<map, running>>
        /\ pc'[Io] \notin {"restart", "open", "add"}
    BY <1>t, <1>8, HandlerEffect DEF AddedStep, HandlerThrows, Accepted, RejectSession, FreeSocket,
                      Decoded, TypeOK
  <2>2. QED
    BY <1>2, <2>1
<1>9. CASE ControlStep
  <2>1. pc'[Io] = pc[Io]
    BY <1>t, <1>9 DEF ControlStep, StopIgnored, StopAcceptor, StopContext, Clear, Join, DestroyManager,
                      TypeOK
  <2>2. CASE Clear
    <3>1. /\ pc[Control] = "clear" /\ pc'[Control] = "join" /\ map' = {}
          /\ UNCHANGED <<running, acceptor>>
      BY <1>t, <2>2 DEF Clear, TypeOK
    <3>2. QED
      BY <2>1, <3>1, FS_EmptySet DEF StopInv, StopEmpties
  <2>3. CASE StopAcceptor \/ StopIgnored \/ StopContext
    <3>1. /\ pc'[Control] \in {"ignored", "context", "clear"}
          /\ pc'[Control] = "clear" => ~running'
          /\ UNCHANGED map
      BY <1>t, <2>3 DEF StopAcceptor, StopIgnored, StopContext, TypeOK
    <3>2. pc[Io] \in {"restart", "open"} => acceptor' = acceptor /\ pc'[Control] = "ignored"
      BY <1>t, <2>3 DEF StopAcceptor, StopIgnored, StopContext, StopInv, TypeOK
    <3>3. QED
      BY <2>1, <3>1, <3>2 DEF StopInv, StopEmpties
  <2>4. CASE Join \/ DestroyManager
    <3>1. /\ pc[Control] \in {"join", "done"} /\ pc'[Control] \in {"done", "terminated"}
          /\ UNCHANGED <<map, running, acceptor>>
      BY <1>t, <2>4 DEF Join, DestroyManager, TypeOK
    <3>2. QED
      BY <2>1, <3>1 DEF StopInv, StopEmpties
  <2>5. QED
    BY <1>9, <2>2, <2>3, <2>4 DEF ControlStep
<1>10. QED
  BY <1>1, <1>3, <1>4, <1>5, <1>6, <1>7, <1>8, <1>9, Steps

\* The accept loop: an AsyncAccept ends every way through Handle_accept but an accept error's.
LEMMA AcceptStep ==
  ASSUME PoolInv, KeepsAccepting, [Next]_vars
  PROVE  KeepsAccepting'
<1> USE ThreadAssumption DEF Goto, Leave, Threads, mgrVars, objVars, KeepsAccepting, SelfLocked
<1>t. TypeOK /\ ControlInv
  BY DEF PoolInv
<1>1. CASE UNCHANGED vars
  BY <1>1 DEF vars
<1>2. ASSUME UNCHANGED <<acceptor, mutex>>, accept' # "none" \/ accept' = accept,
             pc'[Io] = pc[Io] \/ pc[Io] \in {"idle", "close", "app", "decoded"}
      PROVE  KeepsAccepting'
  BY <1>2
<1>3. CASE Network \/ \E t \in Threads : Undefined(t)
  BY <1>2, <1>3 DEF Network, Connect, ConnectFails, PeerSends, PeerCloses, WriteEnds, Undefined
<1>4. ASSUME NEW t \in Threads, TaskStep(t) PROVE KeepsAccepting'
  BY <1>t, <1>2, <1>4, TaskEffect
<1>c. ASSUME NEW t \in Threads, CloseStep(t) PROVE KeepsAccepting'
  BY <1>t, <1>c, CloseEffect
<1>5. CASE RunStep
  <2>1. CASE RunRestart \/ RunRefused
    BY <1>t, <2>1 DEF RunRestart, RunRefused, TypeOK
  <2>2. CASE RunOpen \/ RunListen \/ RunThrows \/ RunReturns
    BY <1>t, <2>2 DEF RunOpen, RunListen, RunThrows, RunReturns, AsyncAccept, TypeOK
  <2>3. QED
    BY <1>5, <2>1, <2>2 DEF RunStep
<1>6. CASE AddStep
  <2>1. CASE Handle_accept \/ Handle_accept_Error
    BY <1>t, <2>1 DEF Handle_accept, Handle_accept_Error, TypeOK
  <2>2. CASE AddFull \/ AddInsert \/ InitAccepts \/ InitRefuses
    BY <1>t, <2>2 DEF AddFull, AddInsert, InitAccepts, InitRefuses, TypeOK
  <2>3. CASE InitCloses
    BY <1>t, <2>3 DEF InitCloses, TypeOK, ControlInv
  <2>4. QED
    BY <1>6, <2>1, <2>2, <2>3 DEF AddStep
<1>7. CASE AddedStep
  <2>1. CASE HandlerThrows \/ RejectSession
    BY <1>t, <2>1 DEF HandlerThrows, RejectSession, TypeOK
  <2>2. CASE Accepted \/ FreeSocket
    BY <2>2 DEF Accepted, FreeSocket, AsyncAccept
  <2>3. CASE Decoded \/ \E s \in Sessions : Handler_Receive(s) \/ Handler_Write(s)
    BY <1>t, <1>2, <2>3, HandlerEffect DEF Decoded
  <2>4. QED
    BY <1>7, <2>1, <2>2, <2>3 DEF AddedStep
<1>8. CASE ControlStep
  <2>1. pc'[Io] = pc[Io] /\ mutex' = mutex
    BY <1>t, <1>8 DEF ControlStep, StopIgnored, StopAcceptor, StopContext, Clear, Join, DestroyManager,
                      TypeOK
  <2>2. acceptor' = "closed" \/ UNCHANGED <<acceptor, accept>>
    BY <1>8 DEF ControlStep, StopIgnored, StopAcceptor, StopContext, Clear, Join, DestroyManager
  <2>3. QED
    BY <2>1, <2>2
<1>9. QED
  BY <1>1, <1>3, <1>4, <1>5, <1>6, <1>7, <1>8, <1>c, Steps

-----------------------------------------------------------------------------
(* What is pending in the reactor.                                          *)

\* An operation starts on a live session and its live socket, which stay as long as it is pending.
Ready(s) == Live(s) /\ ptr[s] /\ sock[s] = "live"

LEMMA PendingKept ==
  ASSUME PendingIsLive,
         \A s \in Sessions : "pending" \in {read'[s], write'[s]} =>
            /\ mem'[s] = mem[s] /\ sock'[s] = sock[s] /\ ptr'[s] = ptr[s]
            /\ "pending" \in {read[s], write[s]} \/ Ready(s)
  PROVE  PendingIsLive'
BY DEF PendingIsLive, Ready, Live

\* A socket that is set and does not dangle is live.
LEMMA NotDangling ==
  ASSUME PoolInv, NEW s \in Sessions, Live(s), ptr[s], ~Dangling(s)
  PROVE  Ready(s)
BY DEF PoolInv, LinkInv, PointerInv, TypeOK, Object, Dangling, Ready

\* Close leaves nothing pending on its session.
LEMMA PendingClosed ==
  ASSUME PoolInv, PendingIsLive, NEW s \in Sessions, CloseSocket(s), mem' = mem
  PROVE  PendingIsLive'
<1>1. \A q \in Sessions \ {s} : /\ read'[q] = read[q] /\ write'[q] = write[q]
                                /\ sock'[q] = sock[q] /\ ptr'[q] = ptr[q]
  BY DEF CloseSocket, Aborted, PoolInv, TypeOK
<1>2. read'[s] # "pending" /\ write'[s] # "pending"
  BY DEF CloseSocket, Aborted, PoolInv, TypeOK
<1>3. QED
  BY <1>1, <1>2, PendingKept

LEMMA PendingIo ==
  ASSUME PoolInv, PendingIsLive, AddStep \/ AddedStep
  PROVE  PendingIsLive'
<1> USE DEF Goto, Leave, mgrVars, objVars
<1>t. TypeOK /\ ControlInv /\ FreshInv
  BY DEF PoolInv
<1>c. pc[Io] \in Working => cur[Io] \in Sessions
  BY <1>t DEF ControlInv, Threads
<1>1. CASE Handle_accept
  <2>1. PICK q \in Sessions :
          /\ mem[q] = "none"
          /\ mem' = [mem EXCEPT ![q] = "live"] /\ sock' = [sock EXCEPT ![q] = "live"]
          /\ ptr' = [ptr EXCEPT ![q] = TRUE]
    BY <1>t, <1>1, Chosen
  <2>2. UNCHANGED <<read, write>> /\ "pending" \notin {read[q], write[q]}
    BY <1>1, <2>1 DEF Handle_accept, PendingIsLive, Live
  <2>3. \A r \in Sessions \ {q} : mem'[r] = mem[r] /\ sock'[r] = sock[r] /\ ptr'[r] = ptr[r]
    BY <1>t, <2>1 DEF TypeOK
  <2>4. QED
    BY <2>2, <2>3, PendingKept
<1>2. CASE Handle_accept_Error \/ AddInsert \/ InitRefuses \/ HandlerThrows \/ Accepted
  BY <1>2, PendingKept DEF Handle_accept_Error, AddInsert, InitRefuses, HandlerThrows, Accepted
<1>3. CASE AddFull \/ InitCloses
  BY <1>c, <1>3, PendingClosed DEF AddFull, InitCloses, Working
<1>4. CASE InitAccepts
  <2>1. /\ UNCHANGED <<mem, sock, ptr, write>> /\ Ready(cur[Io])
        /\ \A q \in Sessions : q # cur[Io] => read'[q] = read[q]
    BY <1>t, <1>4 DEF InitAccepts, FreshInv, TypeOK, Ready
  <2>2. QED
    BY <2>1, PendingKept
<1>5. CASE RejectSession
  <2>1. /\ UNCHANGED <<sock, ptr, read, write>> /\ ~ptr[cur[Io]]
        /\ \A q \in Sessions : q # cur[Io] => mem'[q] = mem[q]
    BY <1>t, <1>5 DEF RejectSession, TypeOK
  <2>2. cur[Io] \in Sessions => "pending" \notin {read[cur[Io]], write[cur[Io]]}
    BY <2>1 DEF PendingIsLive
  <2>3. QED
    BY <2>1, <2>2, PendingKept
<1>6. CASE FreeSocket
  <2>1. /\ UNCHANGED <<mem, ptr>>
        /\ \A q \in Sessions : q # cur[Io] =>
             read'[q] = read[q] /\ write'[q] = write[q] /\ sock'[q] = sock[q]
        /\ cur[Io] \in Sessions => "pending" \notin {read'[cur[Io]], write'[cur[Io]]}
    BY <1>t, <1>6 DEF FreeSocket, Aborted, TypeOK
  <2>2. QED
    BY <2>1, PendingKept
<1>7. CASE Decoded
  <2>1. /\ UNCHANGED <<mem, sock, ptr, write>> /\ cur[Io] \in Sessions
        /\ \A q \in Sessions : q # cur[Io] => read'[q] = read[q]
    BY <1>t, <1>c, <1>7 DEF Decoded, TypeOK, Working
  <2>2. read'[cur[Io]] = read[cur[Io]] \/ Ready(cur[Io])
    BY <1>t, <1>7, <2>1, NotDangling DEF Decoded, TypeOK
  <2>3. QED
    BY <2>1, <2>2, PendingKept
<1>8. ASSUME NEW s \in Sessions, Handler_Receive(s) \/ Handler_Write(s) PROVE PendingIsLive'
  <2>1. /\ UNCHANGED <<mem, sock, ptr>>
        /\ \A q \in Sessions \ {s} : read'[q] = read[q] /\ write'[q] = write[q]
    BY <1>t, <1>8, HandlerEffect
  <2>2. read'[s] \in {read[s], "none"} \/ Ready(s)
    BY <1>t, <1>8, NotDangling
       DEF Handler_Receive, ReadHandler, ReadData, ReadError, ReadClosed, Handler_Write, TypeOK
  <2>3. write'[s] \in {write[s], "none"} \/ Ready(s)
    BY <1>t, <1>8, NotDangling DEF Handler_Receive, Handler_Write, TypeOK
  <2>4. QED
    BY <2>1, <2>2, <2>3, PendingKept
<1>9. QED
  BY <1>1, <1>2, <1>3, <1>4, <1>5, <1>6, <1>7, <1>8 DEF AddStep, AddedStep

\* Whichever thread closes a session, and whatever the io thread does meanwhile, nothing stays
\* pending for it.
LEMMA PendingStep ==
  ASSUME PoolInv, PendingIsLive, [Next]_vars
  PROVE  PendingIsLive'
<1>t. TypeOK /\ ControlInv
  BY DEF PoolInv
<1>1. CASE Network
  <2>1. UNCHANGED <<mem, sock, ptr>>
    BY <1>1 DEF Network, Connect, ConnectFails, PeerSends, PeerCloses, WriteEnds, objVars
  <2>2. \A s \in Sessions : /\ read'[s] = "pending" => read[s] = "pending"
                            /\ write'[s] = "pending" => write[s] = "pending"
    BY <1>t, <1>1 DEF Network, Connect, ConnectFails, PeerSends, PeerCloses, WriteEnds, objVars, TypeOK
  <2>3. QED
    BY <2>1, <2>2, PendingKept
<1>2. CASE UNCHANGED vars \/ RunStep \/ (ControlStep /\ ~Clear) \/ \E t \in Threads : Undefined(t)
  <2>1. UNCHANGED objVars
    BY <1>2 DEF vars, RunStep, RunRestart, RunRefused, RunOpen, RunListen, RunThrows, RunReturns,
       ControlStep, StopIgnored, StopAcceptor, StopContext, Join, DestroyManager, Undefined
  <2>2. QED
    BY <2>1, PendingKept DEF objVars
<1>3. CASE AddStep \/ AddedStep
  BY <1>3, PendingIo
<1>4. CASE Clear
  <2>1. \A s \in map \cap Sessions : read'[s] # "pending" /\ write'[s] # "pending"
    BY <1>4 DEF Clear
  <2>2. \A s \in Sessions \ map : /\ read'[s] = read[s] /\ write'[s] = write[s]
                                 /\ mem'[s] = mem[s] /\ sock'[s] = sock[s] /\ ptr'[s] = ptr[s]
    BY <1>t, <1>4 DEF Clear, TypeOK
  <2>3. QED
    BY <2>1, <2>2, PendingKept
<1>5. ASSUME NEW t \in Threads, TaskStep(t) PROVE PendingIsLive'
  <2>1. UNCHANGED <<mem, sock, ptr, read>>
    BY <1>t, <1>5, TaskEffect
  <2>2. CASE write' = write
    BY <2>1, <2>2, PendingKept
  <2>3. CASE ASync_Send(t)
    <3>1. \A q \in Sessions : q # cur[t] => write'[q] = write[q]
      BY <1>t, <2>3 DEF ASync_Send, TypeOK
    <3>2. cur[t] \in Sessions => Ready(cur[t])
      BY <2>3, NotDangling DEF ASync_Send
    <3>3. QED
      BY <2>1, <3>1, <3>2, PendingKept
  <2>4. QED
    BY <1>5, <2>2, <2>3 DEF TaskStep, AppStep, TakeTask, OnMessageReturns, OnMessageCloses, objVars
<1>6. ASSUME NEW t \in Threads, Close(t) PROVE PendingIsLive'
  <2>1. cur[t] \in Sessions /\ mem' = mem
    BY <1>t, <1>6 DEF Close, ControlInv, Working
  <2>2. CASE CloseSocket(cur[t])
    BY <2>1, <2>2, PendingClosed
  <2>3. CASE UNCHANGED <<sock, ptr, pooled, read, write>>
    BY <2>1, <2>3, PendingKept
  <2>4. QED
    BY <1>6, <2>2, <2>3 DEF Close
<1>7. ASSUME NEW t \in Threads, Close_Session(t) PROVE PendingIsLive'
  <2>1. pc[t] = "unlink"
    BY <1>t, <1>7, ReturnEffect DEF Close_Session
  <2>2. cur[t] \in Sessions => "pending" \notin {read[cur[t]], write[cur[t]]}
    BY <2>1 DEF PoolInv, LinkInv, PointerInv, PendingIsLive
  <2>3. /\ UNCHANGED <<sock, ptr, read, write>>
        /\ \A q \in Sessions : q # cur[t] => mem'[q] = mem[q]
    BY <1>t, <1>7 DEF Close_Session, TypeOK
  <2>4. QED
    BY <2>2, <2>3, PendingKept
<1>8. QED
  BY <1>1, <1>2, <1>3, <1>4, <1>5, <1>6, <1>7, Steps DEF CloseStep

-----------------------------------------------------------------------------
(* The pool of sessions as ConnectionPool has it.                           *)

Cleared == pc[Control] \in {"join", "done", "terminated"}

\* Exactly the sessions in the map count as members of the pool.
LEMMA MembersAreMap ==
  ASSUME TypeOK, PoolExact
  PROVE  Pool!Members = map
<1>1. \A s \in Sessions : Stage(s) \in {"member", "closing"} <=> s \in map
  BY DEF PoolExact, Stage, Live
<1>2. map \subseteq Sessions
  BY DEF TypeOK
<1>3. QED
  BY <1>1, <1>2 DEF Pool!Members, Pool!At

\* A session whose object, place in the map and pointer stay keeps its stage.
LEMMA StageKept ==
  ASSUME NEW s \in Sessions, mem'[s] = mem[s], s \in map' <=> s \in map,
         s \in map => ptr'[s] = ptr[s],
         Live(s) /\ s \notin map => (pc'[Io] = "reject" <=> pc[Io] = "reject")
  PROVE  Stage(s)' = Stage(s)
<1>1. CASE mem[s] = "none" \/ s \in map
  BY <1>1 DEF Stage
<1>2. CASE mem[s] # "none" /\ s \notin map /\ Live(s)
  BY <1>2 DEF Stage, Live
<1>3. CASE mem[s] # "none" /\ s \notin map /\ ~Live(s)
  BY <1>3 DEF Stage, Live
<1>4. QED
  BY <1>1, <1>2, <1>3

\* One session moves, the others and the pool as a whole do not.
LEMMA PoolMove ==
  ASSUME NEW s \in Sessions, NEW from, NEW to, Stage(s) = from, Stage(s)' = to,
         \A r \in Sessions \ {s} : Stage(r)' = Stage(r),
         Cleared' <=> Cleared
  PROVE  Pool!Move(s, from, to)
<1>1. [r \in Sessions |-> Stage(r)][s] = from
  OBVIOUS
<1>2. [r \in Sessions |-> Stage(r)]' = [[r \in Sessions |-> Stage(r)] EXCEPT ![s] = to]
  OBVIOUS
<1>3. (pc[Control] \in {"join", "done", "terminated"})' = (pc[Control] \in {"join", "done", "terminated"})
  BY DEF Cleared
<1>4. QED
  BY <1>1, <1>2, <1>3 DEF Pool!Move

LEMMA PoolStutter ==
  ASSUME \A s \in Sessions : Stage(s)' = Stage(s), Cleared' <=> Cleared
  PROVE  UNCHANGED Pool!vars
BY DEF Pool!vars, Cleared

\* A step that leaves the objects, the map and the pointers alone, and takes the io thread neither
\* to Add_Session's refusal nor away from it.
LEMMA PoolQuiet ==
  ASSUME UNCHANGED <<mem, map, ptr>>, pc'[Io] = "reject" <=> pc[Io] = "reject", Cleared' <=> Cleared
  PROVE  UNCHANGED Pool!vars
<1>1. \A s \in Sessions : Stage(s)' = Stage(s)
  BY StageKept
<1>2. QED
  BY <1>1, PoolStutter

\* Only Clear clears the pool.
LEMMA ClearedKept ==
  ASSUME PoolInv, [Next]_vars, ~Clear
  PROVE  Cleared' <=> Cleared
<1> USE ThreadAssumption DEF Goto, Leave, Threads, Cleared
<1>t. TypeOK /\ ControlInv
  BY DEF PoolInv
<1>1. CASE ControlStep
  BY <1>t, <1>1 DEF TypeOK, ControlStep, StopIgnored, StopAcceptor, StopContext, Join, DestroyManager
<1>2. CASE RunStep \/ Network \/ UNCHANGED vars \/ \E t \in Threads : Undefined(t)
  BY <1>t, <1>2 DEF TypeOK, RunStep, RunRestart, RunRefused, RunOpen, RunListen, RunThrows,
     RunReturns, Network, Connect, ConnectFails, PeerSends, PeerCloses, WriteEnds, vars, Undefined
<1>3. CASE AddStep \/ AddedStep
  BY <1>t, <1>3, HandlerEffect DEF TypeOK, AddStep, Handle_accept, Handle_accept_Error, AddFull, AddInsert,
     InitAccepts, InitRefuses, InitCloses, AddedStep, HandlerThrows, Accepted, RejectSession,
     FreeSocket, Decoded
<1>4. ASSUME NEW t \in Threads, TaskStep(t) \/ CloseStep(t)
      PROVE  Cleared' <=> Cleared
  BY <1>t, <1>4, TaskEffect, CloseEffect
<1>5. QED
  BY <1>1, <1>2, <1>3, <1>4, Steps

\* Handle_accept offers a session: the one before it has been answered, and the pool is not cleared.
LEMMA PoolOffer ==
  ASSUME PoolInv, StopInv, Handle_accept, Cleared' <=> Cleared
  PROVE  Pool!Next
<1> USE ThreadAssumption DEF Goto, Threads
<1>1. PICK q \in Sessions : /\ mem[q] = "none" /\ mem' = [mem EXCEPT ![q] = "live"]
                            /\ ptr' = [ptr EXCEPT ![q] = TRUE]
  BY Chosen DEF PoolInv
<1>2. /\ TypeOK /\ PoolExact /\ q \notin map /\ running
      /\ map' = map /\ pc[Io] = "idle" /\ pc'[Io] = "add"
  BY <1>1 DEF PoolInv, LinkInv, FreshInv, Handle_accept, TypeOK
<1>3. \A s \in Sessions \ {q} : Stage(s)' = Stage(s)
  BY <1>1, <1>2, StageKept DEF TypeOK
<1>4. Stage(q) = "new" /\ Stage(q)' = "offered"
  BY <1>1, <1>2 DEF Stage, Live, TypeOK
<1>5. Pool!Waiting = {}
  <2>1. \A s \in Sessions : Stage(s) \notin {"offered", "refused"}
    BY <1>2 DEF Stage, PoolExact
  <2>2. QED
    BY <2>1 DEF Pool!Waiting, Pool!At
<1>6. ~Cleared
  BY <1>2 DEF StopInv, Cleared
<1>7. Pool!Move(q, "new", "offered")
  BY <1>3, <1>4, PoolMove
<1>8. QED
  BY <1>5, <1>6, <1>7 DEF Pool!Next, Pool!Offer, Cleared

\* Add_Session's test of the limit is the pool's.
LEMMA PoolAnswer ==
  ASSUME PoolInv, AddFull \/ AddInsert, Cleared' <=> Cleared
  PROVE  Pool!Next
<1> USE ThreadAssumption DEF Goto, Threads
<1>q. PICK q \in Sessions : q = cur[Io]
  BY DEF PoolInv, ControlInv, Working, AddFull, AddInsert
<1>1. /\ TypeOK /\ PoolExact /\ pc[Io] = "add" /\ q \in Sessions /\ Live(q) /\ q \notin map
      /\ ptr[q] /\ mem' = mem
  BY <1>q DEF PoolInv, LinkInv, FreshInv, AddFull, AddInsert, objVars
<1>2. Stage(q) = "offered"
  BY <1>1 DEF Stage, Live
<1>3. \A s \in Sessions \ {q} : Live(s) => s \in map
  BY <1>q, <1>1 DEF PoolExact
<1>4. Cardinality(Pool!Members) \in Nat /\ Pool!Members = map
  <2>1. IsFiniteSet(map)
    BY <1>1, PoolAssumption, FS_Subset DEF TypeOK
  <2>2. QED
    BY <1>1, <2>1, MembersAreMap, FS_CardinalityType
<1>5. CASE AddFull
  <2>1. /\ MaxClient < Cardinality(map) /\ map' = map /\ pc'[Io] = "reject"
        /\ ptr' = [ptr EXCEPT ![q] = FALSE]
    BY <1>q, <1>1, <1>5 DEF AddFull, CloseSocket, TypeOK
  <2>2. \A s \in Sessions \ {q} : Stage(s)' = Stage(s)
    BY <1>1, <1>3, <2>1, StageKept DEF TypeOK
  <2>3. Stage(q)' = "refused"
    BY <1>1, <2>1 DEF Stage, Live
  <2>4. Pool!Move(q, "offered", "refused")
    BY <1>1, <1>2, <2>2, <2>3, PoolMove
  <2>5. Cardinality(Pool!Members) >= MaxClient + 1
    BY <1>4, <2>1, PoolAssumption
  <2>6. Pool!Refuse(q)
    BY <2>4, <2>5 DEF Pool!Refuse, Pool!Cardinality, Cardinality
  <2>7. QED
    BY <1>1, <2>6 DEF Pool!Next
<1>6. CASE AddInsert
  <2>1. /\ ~(MaxClient < Cardinality(map)) /\ map' = map \union {q} /\ pc'[Io] = "init"
        /\ ptr' = ptr
    BY <1>q, <1>1, <1>6 DEF AddInsert, TypeOK
  <2>2. \A s \in Sessions \ {q} : Stage(s)' = Stage(s)
    BY <1>1, <1>3, <2>1, StageKept
  <2>3. Stage(q)' = "member"
    BY <1>1, <2>1 DEF Stage, Live
  <2>4. Pool!Move(q, "offered", "member")
    BY <1>1, <1>2, <2>2, <2>3, PoolMove
  <2>5. Cardinality(Pool!Members) < MaxClient + 1
    BY <1>4, <2>1, PoolAssumption
  <2>6. Pool!Admit(q)
    BY <2>4, <2>5 DEF Pool!Admit, Pool!Cardinality, Cardinality
  <2>7. QED
    BY <1>1, <2>6 DEF Pool!Next
<1>7. QED
  BY <1>5, <1>6

\* Handle_accept deletes a session that Add_Session refused; one that its OnEvent_Init refused is
\* a member, whose deletion is undefined.
LEMMA PoolDiscard ==
  ASSUME PoolInv, RejectSession, Cleared' <=> Cleared
  PROVE  Pool!Next
<1> USE ThreadAssumption DEF Goto, Threads
<1>q. PICK q \in Sessions : q = cur[Io]
  BY DEF PoolInv, ControlInv, Working, RejectSession
<1>1. /\ TypeOK /\ PoolExact /\ pc[Io] = "reject" /\ q \in Sessions /\ Live(q) /\ q \notin map
      /\ mem' = [mem EXCEPT ![q] = "deleted"] /\ UNCHANGED <<map, ptr>>
  BY <1>q DEF PoolInv, LinkInv, RejectInv, RejectSession
<1>2. Stage(q) = "refused" /\ Stage(q)' = "gone"
  BY <1>1 DEF Stage, Live, TypeOK
<1>3. \A s \in Sessions \ {q} : Stage(s)' = Stage(s)
  BY <1>q, <1>1, StageKept DEF TypeOK, PoolExact
<1>4. Pool!Move(q, "refused", "gone")
  BY <1>1, <1>2, <1>3, PoolMove
<1>5. QED
  BY <1>1, <1>4 DEF Pool!Next, Pool!Discard

\* Close, wherever it is called from, closes a member of the pool, and a second Close changes
\* nothing.
LEMMA PoolClose ==
  ASSUME PoolInv, NEW t \in Threads, Close(t) \/ (InitCloses /\ t = Io), Cleared' <=> Cleared
  PROVE  [Pool!Next]_(Pool!vars)
<1> USE ThreadAssumption DEF Goto, Leave, Threads
<1>q. PICK q \in Sessions : q = cur[t]
  BY DEF PoolInv, ControlInv, Working, Close, InitCloses
<1>1. /\ TypeOK /\ PoolExact /\ q \in Sessions /\ Live(q) /\ pc[t] \in {"init", "close"}
      /\ pc[t] = "init" => t = Io
      /\ UNCHANGED <<mem, map>>
  BY <1>q DEF PoolInv, LinkInv, FreshInv, Close, InitCloses
<1>2. q \in map
  <2>1. CASE q = cur[Io] /\ pc[Io] \in {"add", "reject"}
    BY <1>q, <1>1, <2>1 DEF PoolInv, FreshInv, RejectInv, Untouched
  <2>2. QED
    BY <1>1, <2>1 DEF PoolExact
<1>3. pc'[Io] = "reject" <=> pc[Io] = "reject"
  <2>1. CASE Close(t)
    BY <2>1, CloseEffect DEF PoolInv, CloseStep
  <2>2. CASE InitCloses
    BY <1>1, <2>2 DEF TypeOK, InitCloses
  <2>3. QED
    BY <2>1, <2>2
<1>4. CASE ~ptr[q]
  <2>1. ptr' = ptr
    BY <1>q, <1>1, <1>4 DEF PoolInv, FreshInv, Close, InitCloses
  <2>2. QED
    BY <1>1, <1>3, <2>1, PoolQuiet
<1>5. CASE ptr[q]
  <2>1. ptr' = [ptr EXCEPT ![q] = FALSE]
    BY <1>q, <1>1, <1>5 DEF Close, InitCloses, CloseSocket
  <2>2. Stage(q) = "member" /\ Stage(q)' = "closing"
    BY <1>1, <1>2, <1>5, <2>1 DEF Stage, Live, TypeOK
  <2>3. \A s \in Sessions \ {q} : Stage(s)' = Stage(s)
    BY <1>1, <1>3, <2>1, StageKept DEF TypeOK
  <2>4. Pool!Move(q, "member", "closing")
    BY <1>1, <2>2, <2>3, PoolMove
  <2>5. QED
    BY <1>1, <2>4 DEF Pool!Next, Pool!Close
<1>6. QED
  BY <1>4, <1>5

\* Close_Session takes out a closed member, or finds that Clear has been there first.
LEMMA PoolLeave ==
  ASSUME PoolInv, NEW t \in Threads, Close_Session(t), Cleared' <=> Cleared
  PROVE  [Pool!Next]_(Pool!vars)
<1> USE ThreadAssumption DEF Goto, Leave, Threads
<1>q. PICK q \in Sessions : q = cur[t]
  BY CloseEffect DEF PoolInv, CloseStep
<1>1. /\ TypeOK /\ PoolExact /\ q \in Sessions /\ ~ptr[q] /\ pc[t] = "unlink"
      /\ map' = map \ {q} /\ ptr' = ptr
      /\ mem' = [mem EXCEPT ![q] = IF q \in map THEN "deleted" ELSE @]
  BY <1>q, ReturnEffect DEF PoolInv, LinkInv, PointerInv, Close_Session
<1>2. pc'[Io] = "reject" <=> pc[Io] = "reject"
  BY CloseEffect DEF PoolInv, CloseStep
<1>3. CASE q \notin map
  <2>1. mem' = mem /\ map' = map
    BY <1>1, <1>3 DEF TypeOK
  <2>2. QED
    BY <1>1, <1>2, <2>1, PoolQuiet
<1>4. CASE q \in map
  <2>1. Stage(q) = "closing" /\ Stage(q)' = "gone"
    BY <1>1, <1>4 DEF Stage, Live, TypeOK, PoolExact
  <2>2. \A s \in Sessions \ {q} : Stage(s)' = Stage(s)
    BY <1>1, <1>2, StageKept DEF TypeOK
  <2>3. Pool!Move(q, "closing", "gone")
    BY <1>1, <2>1, <2>2, PoolMove
  <2>4. QED
    BY <1>1, <2>3 DEF Pool!Next, Pool!Leave
<1>5. QED
  BY <1>3, <1>4

\* Clear clears the pool, once.
LEMMA PoolClear ==
  ASSUME PoolInv, Clear
  PROVE  Pool!Next
<1> USE ThreadAssumption DEF Goto, Threads
<1>1. /\ TypeOK /\ PoolExact /\ map' = {} /\ pc'[Io] = pc[Io]
      /\ mem' = [s \in Sessions |-> IF s \in map THEN "deleted" ELSE mem[s]]
  BY DEF PoolInv, LinkInv, Clear, TypeOK
<1>2. ~Cleared /\ Cleared'
  BY <1>1 DEF Clear, Cleared, TypeOK
<1>3. ASSUME NEW s \in Sessions
      PROVE  Stage(s)' = IF s \in Pool!Members THEN "gone" ELSE Stage(s)
  <2>1. CASE s \in map
    BY <1>1, <2>1, MembersAreMap DEF Stage, Live
  <2>2. CASE s \notin map
    <3>1. Stage(s)' = Stage(s)
      BY <1>1, <2>2 DEF Stage, Live
    <3>2. QED
      BY <1>1, <2>2, <3>1, MembersAreMap
  <2>3. QED
    BY <2>1, <2>2
<1>4. [s \in Sessions |-> Stage(s)]'
        = [s \in Sessions |-> IF s \in Pool!Members THEN "gone" ELSE [r \in Sessions |-> Stage(r)][s]]
  BY <1>3
<1>5. Pool!Clear
  BY <1>2, <1>4 DEF Pool!Clear, Cleared
<1>6. QED
  BY <1>5 DEF Pool!Next

\* Every step is one of the pool's, or leaves it alone.
LEMMA PoolNext ==
  ASSUME PoolInv, StopInv, [Next]_vars
  PROVE  [Pool!Next]_(Pool!vars)
<1> USE ThreadAssumption DEF Goto, Leave, Threads
<1>t. TypeOK /\ ControlInv /\ PoolExact
  BY DEF PoolInv, LinkInv
<1>1. CASE Clear
  BY <1>1, PoolClear
<1> SUFFICES ASSUME Cleared' <=> Cleared, ~Clear
             PROVE  [Pool!Next]_(Pool!vars)
  BY <1>1, ClearedKept
<1>2. CASE Network \/ RunStep \/ ControlStep \/ UNCHANGED vars \/ \E t \in Threads : Undefined(t)
  <2>1. UNCHANGED <<mem, map, ptr>>
    BY <1>2 DEF Network, Connect, ConnectFails, PeerSends, PeerCloses, WriteEnds, objVars, vars, Undefined,
       RunStep, RunRestart, RunRefused, RunOpen, RunListen, RunThrows, RunReturns,
       ControlStep, StopIgnored, StopAcceptor, StopContext, Join, DestroyManager
  <2>2. pc'[Io] = "reject" <=> pc[Io] = "reject"
    BY <1>t, <1>2 DEF TypeOK, Network, Connect, ConnectFails, PeerSends, PeerCloses, WriteEnds, vars, Undefined,
       RunStep, RunRestart, RunRefused, RunOpen, RunListen, RunThrows, RunReturns,
       ControlStep, StopIgnored, StopAcceptor, StopContext, Join, DestroyManager
  <2>3. QED
    BY <2>1, <2>2, PoolQuiet
<1>3. CASE Handle_accept
  BY <1>3, PoolOffer
<1>4. CASE AddFull \/ AddInsert
  BY <1>4, PoolAnswer
<1>5. CASE InitCloses
  BY <1>5, PoolClose
<1>6. CASE RejectSession
  BY <1>6, PoolDiscard
<1>7. CASE InitRefuses
  <2>1. UNCHANGED <<mem, map, ptr>> /\ pc[Io] = "init"
    BY <1>7 DEF InitRefuses, objVars
  <2>2. \A s \in Sessions : Live(s) => s \in map
    BY <1>t, <2>1 DEF PoolExact
  <2>3. \A s \in Sessions : Stage(s)' = Stage(s)
    BY <2>1, <2>2, StageKept
  <2>4. QED
    BY <2>3, PoolStutter
<1>8. CASE \/ Handle_accept_Error \/ InitAccepts \/ HandlerThrows \/ Accepted \/ FreeSocket
           \/ Decoded \/ \E s \in Sessions : Handler_Receive(s) \/ Handler_Write(s)
  <2>1. UNCHANGED <<mem, map, ptr>> /\ (pc'[Io] = "reject" <=> pc[Io] = "reject")
    BY <1>t, <1>8, HandlerEffect DEF TypeOK, objVars, Handle_accept_Error, InitAccepts,
       HandlerThrows, Accepted, FreeSocket, Decoded
  <2>2. QED
    BY <2>1, PoolQuiet
<1>9. ASSUME NEW t \in Threads, TaskStep(t) PROVE [Pool!Next]_(Pool!vars)
  <2>1. UNCHANGED <<mem, map, ptr>> /\ (pc'[Io] = "reject" <=> pc[Io] = "reject")
    BY <1>t, <1>9, TaskEffect
  <2>2. QED
    BY <2>1, PoolQuiet
<1>10. ASSUME NEW t \in Threads, CloseStep(t) PROVE [Pool!Next]_(Pool!vars)
  BY <1>10, PoolClose, PoolLeave DEF CloseStep
<1>11. QED
  BY <1>2, <1>3, <1>4, <1>5, <1>6, <1>7, <1>8, <1>9, <1>10, Steps DEF AddStep, AddedStep

-----------------------------------------------------------------------------
(* Theorems.                                                                *)

LEMMA NextInv == IInv /\ [Next]_vars => IInv'
<1> SUFFICES ASSUME IInv, [Next]_vars PROVE IInv'
  OBVIOUS
<1> USE DEF IInv
<1>1. PoolInv'
  BY PoolStep
<1>2. StopInv' /\ StopEmpties'
  BY StopStep
<1>3. PendingIsLive'
  BY PendingStep
<1>4. KeepsAccepting'
  BY AcceptStep
<1>5. QED
  BY <1>1, <1>2, <1>3, <1>4

\* The inductive invariant holds of every behaviour.
THEOREM Invariance == Spec => []IInv
<1>1. QED
  BY InitInv, NextInv, PTL DEF Spec

\* Every variable keeps its type, for any threads, sessions and handlers.
THEOREM TypeCorrect == Spec => []TypeOK
<1>1. IInv => TypeOK
  BY DEF IInv, PoolInv
<1>2. QED
  BY <1>1, Invariance, PTL

\* The pool's map is exact whatever its threads do: Add_Session, Close_Session and Clear leave no
\* deleted session in it and no live one out of it.
THEOREM ExactPool == Spec => []PoolExact
<1>1. IInv => PoolExact
  BY DEF IInv, PoolInv, LinkInv
<1>2. QED
  BY <1>1, Invariance, PTL

\* A closed session in the map always has a thread that will take it out, and no socket outlives
\* the session it was set for (Close, Close_Session, Handle_accept).
THEOREM NobodyForgotten == Spec => []NoneForgotten
<1>1. IInv => NoneForgotten
  BY DEF IInv, PoolInv, LinkInv
<1>2. QED
  BY <1>1, Invariance, PTL

\* No operation is ever pending for a session that was deleted or closed, or on a socket that was:
\* whichever thread closes it, inside whatever handler, and however its own handlers send and read
\* (Close, Close_Session, Clear, Handle_accept against Async_Receive and do_send).
THEOREM NothingPendingOnDead == Spec => []PendingIsLive
<1>1. IInv => PendingIsLive
  BY DEF IInv
<1>2. QED
  BY <1>1, Invariance, PTL

\* From listen to Stop the accept loop goes on: only an accept error, or a Close inside
\* OnEvent_Init, ends it (Handle_accept, AsyncAccept).
THEOREM AcceptLoop == Spec => []KeepsAccepting
<1>1. IInv => KeepsAccepting
  BY DEF IInv
<1>2. QED
  BY <1>1, Invariance, PTL

\* Stop leaves the pool empty but for the session whose Handle_accept it did not wait for.
THEOREM EmptyAfterStop == Spec => []StopEmpties
<1>1. IInv => StopEmpties
  BY DEF IInv
<1>2. QED
  BY <1>1, Invariance, PTL

\* The manager implements the pool: whatever handlers, workers and Stop do to each other, a
\* session is admitted while there is room and refused only when there is none, closed before it
\* is taken out and deleted as it is, and after Clear only the one that was on its way comes in.
THEOREM PoolRefined == Spec => ImplementsPool
<1>1. Init => Pool!Init
  BY ThreadAssumption DEF Init, Pool!Init, Stage, Threads
<1>2. IInv /\ [Next]_vars => [Pool!Next]_(Pool!vars)
  BY PoolNext DEF IInv
<1>3. QED
  BY <1>1, <1>2, Invariance, PTL DEF Spec, ImplementsPool, Pool!Spec
=============================================================================
