---------------------------- MODULE TCPServerMgr ----------------------------
(***************************************************************************)
(* Rigi_TCPServerMgr and its Rigi_SessionPool, under a Rigi_Server: Run,   *)
(* the accept loop, the pool's map of sessions, and Stop, over the threads *)
(* that share them: the thread in Run, the workers of the thread_pool and  *)
(* the thread that calls Stop.  The pool's m_mutex protects the map only;  *)
(* a session object is used without it and deleted under it.               *)
(*                                                                         *)
(* A session is reduced to what the pool and its threads can tell apart:   *)
(* the object, its socket, and its outstanding read and write.  Close is   *)
(* one step up to Close_Session, and ASync_Send one step; TCPSession has   *)
(* the steps inside, and the queue.  A read brings one message.  Each      *)
(* session object is used for one connection.  As in TCPSession, ub ends a *)
(* behaviour.                                                              *)
(***************************************************************************)
EXTENDS Naturals, Sequences, FiniteSets

CONSTANTS
  Io,           \* the thread in Run, and so in io_context.run()
  Workers,      \* the threads of the thread_pool, if there is one
  Control,      \* the thread that calls Stop
  None,         \* no thread, no session
  Sessions,     \* session objects, each with the socket accepted for it
  MaxClient,    \* m_nMaxClient
  MaxTasks,     \* bound: OnMessage tasks waiting in the thread pool
  InitResults,  \* what the application's handlers do: "accept", "refuse" (FALSE), "close", "throw"
  Managers,     \* whose manager Run runs: the application's with a thread pool, "pooled", or
                \* without, "inline", or the server's "own"
  AcceptErrors, \* with which of them bind, or an async_accept, may fail
  AppCloses,    \* with which of them OnMessage may end with Close()
  AppSends,     \* with which of them the application's handlers may call ASync_Send()
  MaxWrites,    \* bound: sessions with an async_write outstanding
  Stops         \* what Control calls: Stop of the "manager" or of the "server"

Threads == Workers \union {Io, Control}

ASSUME ThreadAssumption ==
  Io \notin Workers /\ Control \notin Workers /\ Io # Control /\ None \notin Threads \union Sessions
ASSUME PoolAssumption ==
  /\ IsFiniteSet(Sessions) /\ MaxClient \in Nat \ {0} /\ MaxTasks \in Nat
  /\ InitResults \subseteq {"accept", "refuse", "close", "throw"}
  /\ Managers \subseteq {"pooled", "inline", "own"} /\ AcceptErrors \subseteq Managers
  /\ "pooled" \in Managers => Workers # {}
  /\ AppCloses \union AppSends \subseteq Managers \ {"own"} /\ MaxWrites \in Nat
  /\ Stops \subseteq {"manager", "server"}

VARIABLES
  owner,     \* whose manager it is
  acceptor,  \* m_acceptor: "open", "closed"
  accept,    \* the outstanding async_accept; "failed": its handler got an error, and ended
  running,   \* io_context has not been stopped
  mem,       \* per session: not yet allocated, live, deleted
  sock,      \* per session: its socket object
  ptr,       \* per session: m_pSocket # nullptr
  pooled,    \* per session: m_pSessionPool # nullptr
  read,      \* per session: its outstanding async_read_some
  write,     \* per session: its outstanding async_write
  map,       \* m_mapTCP
  mutex,     \* the holder of the pool's m_mutex between two steps
  tasks,     \* OnMessage tasks posted to the thread pool, oldest first
  pc, cur,   \* per thread: where it is, and the session it works on
  decoding,  \* the io thread is in Handler_Receive, at the call of decode
  ub         \* undefined behaviour has happened

objVars == <<mem, sock, ptr, pooled, read, write>>
mgrVars == <<owner, acceptor, accept, running>>
vars    == <<mgrVars, objVars, map, mutex, tasks, pc, cur, decoding, ub>>

Object == {"none", "live", "deleted"}
OpType == {"none", "pending", "ok", "err"}
Label  == {"restart", "open", "listen", "idle", "returned", "add", "init", "accepted", "reject",
           "free", "close", "unlink", "app", "decoded", "ignored", "context", "clear", "join", "done",
           "terminated"}

TypeOK ==
  /\ owner \in Managers
  /\ acceptor \in {"open", "closed"} /\ accept \in OpType \union {"failed"} /\ running \in BOOLEAN
  /\ mem \in [Sessions -> Object] /\ sock \in [Sessions -> Object]
  /\ ptr \in [Sessions -> BOOLEAN] /\ pooled \in [Sessions -> BOOLEAN]
  /\ read \in [Sessions -> OpType] /\ write \in [Sessions -> OpType]
  /\ map \in SUBSET Sessions /\ mutex \in {Io, None}
  /\ tasks \in Seq(Sessions)
  /\ pc \in [Threads -> Label] /\ cur \in [Threads -> Sessions \union {None}]
  /\ decoding \in BOOLEAN /\ ub \in BOOLEAN

\* The manager has been constructed and Run called, with a port and a limit it does not refuse.
Init ==
  /\ owner \in Managers
  /\ acceptor = "closed" /\ accept = "none" /\ running = TRUE
  /\ mem = [s \in Sessions |-> "none"] /\ sock = [s \in Sessions |-> "none"]
  /\ ptr = [s \in Sessions |-> FALSE] /\ pooled = [s \in Sessions |-> FALSE]
  /\ read = [s \in Sessions |-> "none"] /\ write = [s \in Sessions |-> "none"]
  /\ map = {} /\ mutex = None /\ tasks = <<>>
  /\ pc = [t \in Threads |-> IF t = Io THEN "restart" ELSE "idle"]
  /\ cur = [t \in Threads |-> None]
  /\ decoding = FALSE /\ ub = FALSE

Goto(t, from, to) == pc[t] = from /\ pc' = [pc EXCEPT ![t] = to]
Leave(t, from)    == Goto(t, from, "idle") /\ cur' = [cur EXCEPT ![t] = None]
Live(s)           == mem[s] = "live"

\* The session points to a socket that was deleted.
Dangling(s) == ptr[s] /\ sock[s] = "deleted"

\* The server's own manager has plain sessions, whose handlers do nothing.
Application     == owner # "own"
Handler(result) == result \in InitResults /\ (Application \/ result = "accept")
Pooling         == owner = "pooled"

\* Back from OnMessage, or from the Close it called: on the io thread to Handler_Receive.
Return(t, from) ==
  IF t = Io /\ decoding THEN Goto(t, from, "decoded") /\ UNCHANGED cur ELSE Leave(t, from)

\* AsyncAccept: on a closed acceptor the operation fails at once.
AsyncAccept == accept' = IF acceptor = "open" THEN "pending" ELSE "err"

-----------------------------------------------------------------------------
(* Run, up to io_context.run() and after it.                                *)

\* restart(), the thread pool, and the manager's OnEvent_Init, which returned TRUE.
RunRestart ==
  /\ Goto(Io, "restart", "open") /\ running' = TRUE
  /\ UNCHANGED <<owner, acceptor, accept, objVars, map, mutex, tasks, cur, decoding, ub>>

\* The manager's OnEvent_Init returned FALSE, and so does Run.
RunRefused ==
  /\ Handler("refuse") /\ Goto(Io, "restart", "returned") /\ running' = TRUE
  /\ UNCHANGED <<owner, acceptor, accept, objVars, map, mutex, tasks, cur, decoding, ub>>

RunOpen ==
  /\ Goto(Io, "open", "listen") /\ acceptor' = "open"
  /\ UNCHANGED <<owner, accept, running, objVars, map, mutex, tasks, cur, decoding, ub>>

\* bind, listen, AsyncAccept.
RunListen ==
  /\ Goto(Io, "listen", "idle") /\ acceptor = "open" /\ AsyncAccept
  /\ UNCHANGED <<owner, acceptor, running, objVars, map, mutex, tasks, cur, decoding, ub>>

\* bind throws: the port is taken, or Stop has closed the acceptor.
RunThrows ==
  /\ Goto(Io, "listen", "returned") /\ (owner \in AcceptErrors \/ acceptor = "closed")
  /\ UNCHANGED <<mgrVars, objVars, map, mutex, tasks, cur, decoding, ub>>

\* io_context.run() returns when it is stopped or has no work left.
RunReturns ==
  /\ Goto(Io, "idle", "returned")
  /\ \/ ~running
     \/ accept \in {"none", "failed"} /\ \A s \in Sessions : read[s] = "none" /\ write[s] = "none"
  /\ UNCHANGED <<mgrVars, objVars, map, mutex, tasks, cur, decoding, ub>>

-----------------------------------------------------------------------------
(* The network and the reactor.                                             *)

Connect ==
  /\ accept = "pending" /\ \E s \in Sessions : mem[s] = "none"
  /\ accept' = "ok"
  /\ UNCHANGED <<owner, acceptor, running, objVars, map, mutex, tasks, pc, cur, decoding, ub>>

ConnectFails ==
  /\ owner \in AcceptErrors /\ accept = "pending"
  /\ accept' = "err"
  /\ UNCHANGED <<owner, acceptor, running, objVars, map, mutex, tasks, pc, cur, decoding, ub>>

PeerSends(s) ==
  /\ read[s] = "pending" /\ read' = [read EXCEPT ![s] = "ok"]
  /\ UNCHANGED <<mgrVars, mem, sock, ptr, pooled, write, map, mutex, tasks, pc, cur, decoding, ub>>

PeerCloses(s) ==
  /\ read[s] = "pending" /\ read' = [read EXCEPT ![s] = "err"]
  /\ UNCHANGED <<mgrVars, mem, sock, ptr, pooled, write, map, mutex, tasks, pc, cur, decoding, ub>>

WriteEnds(s) ==
  /\ write[s] = "pending" /\ \E result \in {"ok", "err"} : write' = [write EXCEPT ![s] = result]
  /\ UNCHANGED <<mgrVars, mem, sock, ptr, pooled, read, map, mutex, tasks, pc, cur, decoding, ub>>

-----------------------------------------------------------------------------
(* Handle_accept, Add_Session and AsyncAccept, on the io thread.            *)

\* Handle_accept: new session, SetSocket (the first line of Add_Session).  Session objects are
\* alike until they are used: any unused one will do.
Handle_accept ==
  /\ running /\ accept = "ok" /\ accept' = "none"
  /\ Goto(Io, "idle", "add")
  /\ LET s == CHOOSE s \in Sessions : mem[s] = "none" IN
       /\ mem' = [mem EXCEPT ![s] = "live"] /\ sock' = [sock EXCEPT ![s] = "live"]
       /\ ptr' = [ptr EXCEPT ![s] = TRUE]
       /\ cur' = [cur EXCEPT ![Io] = s]
  /\ UNCHANGED <<owner, acceptor, running, pooled, read, write, map, mutex, tasks, decoding, ub>>

\* The error branch deletes the socket and does not call AsyncAccept.
Handle_accept_Error ==
  /\ running /\ accept = "err" /\ accept' = "failed" /\ pc[Io] = "idle"
  /\ UNCHANGED <<owner, acceptor, running, objVars, map, mutex, tasks, pc, cur, decoding, ub>>

\* Deleting a socket aborts what is pending on it.
Aborted(s) ==
  /\ read' = [read EXCEPT ![s] = IF @ = "pending" THEN "err" ELSE @]
  /\ write' = [write EXCEPT ![s] = IF @ = "pending" THEN "err" ELSE @]

\* The session's Close up to Close_Session: delete the socket, null both pointers.
CloseSocket(s) ==
  /\ sock' = [sock EXCEPT ![s] = "deleted"] /\ ptr' = [ptr EXCEPT ![s] = FALSE]
  /\ pooled' = [pooled EXCEPT ![s] = FALSE]
  /\ Aborted(s)

\* Add_Session takes the mutex.  Full: refuse, and close the session that has no pool yet.
AddFull ==
  /\ Goto(Io, "add", "reject") /\ mutex = None
  /\ MaxClient < Cardinality(map)
  /\ CloseSocket(cur[Io])
  /\ UNCHANGED <<mgrVars, mem, map, mutex, tasks, cur, decoding, ub>>

\* Room: enter the map and call OnEvent_Init, with the mutex held.
AddInsert ==
  /\ Goto(Io, "add", "init") /\ mutex = None
  /\ ~(MaxClient < Cardinality(map))
  /\ map' = map \union {cur[Io]} /\ pooled' = [pooled EXCEPT ![cur[Io]] = TRUE]
  /\ mutex' = Io
  /\ UNCHANGED <<mgrVars, mem, sock, ptr, read, write, tasks, cur, decoding, ub>>

\* OnEvent_Init returned TRUE: Async_Receive, and the mutex is released.
InitAccepts ==
  /\ Handler("accept") /\ Goto(Io, "init", "accepted")
  /\ read' = [read EXCEPT ![cur[Io]] = "pending"] /\ mutex' = None
  /\ UNCHANGED <<mgrVars, mem, sock, ptr, pooled, write, map, tasks, cur, decoding, ub>>

\* OnEvent_Init returned FALSE: the session stays in the map.
InitRefuses ==
  /\ Handler("refuse") /\ Goto(Io, "init", "reject")
  /\ mutex' = None
  /\ UNCHANGED <<mgrVars, objVars, map, tasks, cur, decoding, ub>>

\* OnEvent_Init called Close(), which goes on to Close_Session with the mutex held.
InitCloses ==
  /\ Handler("close") /\ Goto(Io, "init", "unlink")
  /\ CloseSocket(cur[Io])
  /\ UNCHANGED <<mgrVars, mem, map, mutex, tasks, cur, decoding, ub>>

\* OnEvent_Init or OnEvent_Accept_Session throws: the mutex is released, and Handle_accept's
\* catch deletes the socket.
HandlerThrows ==
  /\ Handler("throw") /\ pc[Io] \in {"init", "accepted"} /\ Live(cur[Io])
  /\ pc' = [pc EXCEPT ![Io] = "free"]
  /\ mutex' = IF mutex = Io THEN None ELSE mutex
  /\ UNCHANGED <<mgrVars, objVars, map, tasks, cur, decoding, ub>>

\* Mutated form: no AsyncAccept.
Accepted_NoAccept ==
  /\ Leave(Io, "accepted") /\ Live(cur[Io])
  /\ UNCHANGED <<mgrVars, objVars, map, mutex, tasks, decoding, ub>>

\* OnEvent_Accept_Session, and AsyncAccept for the next connection.
Accepted ==
  /\ Leave(Io, "accepted") /\ Live(cur[Io]) /\ AsyncAccept
  /\ UNCHANGED <<owner, acceptor, running, objVars, map, mutex, tasks, decoding, ub>>

\* Add_Session returned FALSE: delete pSession, whose socket is closed already.
RejectSession ==
  /\ Goto(Io, "reject", "free") /\ Live(cur[Io]) /\ ~ptr[cur[Io]]
  /\ mem' = [mem EXCEPT ![cur[Io]] = "deleted"]
  /\ UNCHANGED <<mgrVars, sock, ptr, pooled, read, write, map, mutex, tasks, cur, decoding, ub>>

\* delete _pSocket, if nobody has done so yet, and AsyncAccept.  The session that threw is still
\* in the map and still points to the socket.
FreeSocket ==
  /\ Leave(Io, "free") /\ sock[cur[Io]] = "live" /\ AsyncAccept
  /\ sock' = [sock EXCEPT ![cur[Io]] = "deleted"] /\ Aborted(cur[Io])
  /\ UNCHANGED <<owner, acceptor, running, mem, ptr, pooled, map, mutex, tasks, decoding, ub>>

-----------------------------------------------------------------------------
(* A session's life in the pool.                                            *)

\* The completion handler of s's read runs with this result, on a live session.
ReadHandler(s, result) == running /\ pc[Io] = "idle" /\ Live(s) /\ read[s] = result

\* Data: OnMessage, posted to the workers if there are any, in which case the next read starts.
ReadData(s) ==
  /\ ReadHandler(s, "ok") /\ ptr[s] /\ ~Dangling(s)
  /\ \/ /\ Pooling /\ Len(tasks) < MaxTasks /\ tasks' = Append(tasks, s)
        /\ read' = [read EXCEPT ![s] = "pending"]
        /\ UNCHANGED <<pc, cur, decoding>>
     \/ /\ ~Pooling /\ decoding' = TRUE
        /\ read' = [read EXCEPT ![s] = "none"]
        /\ pc' = [pc EXCEPT ![Io] = "app"] /\ cur' = [cur EXCEPT ![Io] = s]
        /\ UNCHANGED tasks

\* An error: Close.
ReadError(s) ==
  /\ ReadHandler(s, "err") /\ ptr[s]
  /\ read' = [read EXCEPT ![s] = "none"]
  /\ pc' = [pc EXCEPT ![Io] = "close"] /\ cur' = [cur EXCEPT ![Io] = s]
  /\ UNCHANGED <<tasks, decoding>>

\* A null socket: return.
ReadClosed(s) ==
  /\ ReadHandler(s, "ok") \/ ReadHandler(s, "err")
  /\ ~ptr[s]
  /\ read' = [read EXCEPT ![s] = "none"]
  /\ UNCHANGED <<tasks, pc, cur, decoding>>

\* Mutated forms: the null test is left out; an error is ignored.
Handler_Receive_NoTest(s) ==
  /\ \/ ReadData(s) \/ ReadError(s)
     \/ /\ ReadHandler(s, "ok") /\ ~ptr[s]
        /\ read' = [read EXCEPT ![s] = "pending"]
        /\ UNCHANGED <<tasks, pc, cur, decoding>>
  /\ UNCHANGED <<mgrVars, mem, sock, ptr, pooled, write, map, mutex, ub>>

Handler_Receive_NoClose(s) ==
  /\ ReadHandler(s, "err")
  /\ read' = [read EXCEPT ![s] = "none"]
  /\ UNCHANGED <<mgrVars, mem, sock, ptr, pooled, write, map, mutex, tasks, pc, cur, decoding, ub>>

Handler_Receive(s) ==
  /\ ReadData(s) \/ ReadError(s) \/ ReadClosed(s)
  /\ UNCHANGED <<mgrVars, mem, sock, ptr, pooled, write, map, mutex, ub>>

\* Handler_Receive behind the OnMessage it called: Async_Receive, which tests the socket.
Decoded ==
  /\ Leave(Io, "decoded") /\ Live(cur[Io]) /\ ~Dangling(cur[Io])
  /\ decoding' = FALSE
  /\ read' = [read EXCEPT ![cur[Io]] = IF ptr[cur[Io]] THEN "pending" ELSE @]
  /\ UNCHANGED <<mgrVars, mem, sock, ptr, pooled, write, map, mutex, tasks, ub>>

\* The completion handler of async_write: do_send, which starts another write if a frame waits
\* and the socket is there, or Handler_Send, which calls Close.
Handler_Write(s) ==
  /\ running /\ pc[Io] = "idle" /\ Live(s)
  /\ \/ /\ write[s] = "ok" /\ ~Dangling(s)
        /\ \E next \in {"none", "pending"} :
             write' = [write EXCEPT ![s] = IF ptr[s] THEN next ELSE "none"]
        /\ UNCHANGED <<pc, cur>>
     \/ /\ write[s] = "err" /\ write' = [write EXCEPT ![s] = "none"]
        /\ pc' = [pc EXCEPT ![Io] = "close"] /\ cur' = [cur EXCEPT ![Io] = s]
  /\ UNCHANGED <<mgrVars, mem, sock, ptr, pooled, read, map, mutex, tasks, decoding, ub>>

\* Mutated form: Close never gets to Close_Session.
Close_NoPool(t) ==
  /\ Return(t, "close") /\ Live(cur[t]) /\ ptr[cur[t]]
  /\ CloseSocket(cur[t])
  /\ UNCHANGED <<mgrVars, mem, map, mutex, tasks, decoding, ub>>

\* Close returns at once on a null socket; without a pool it never reaches Close_Session.
Close(t) ==
  /\ pc[t] = "close" /\ Live(cur[t]) /\ ~Dangling(cur[t])
  /\ IF pooled[cur[t]] /\ ptr[cur[t]] THEN Goto(t, "close", "unlink") /\ UNCHANGED cur
     ELSE Return(t, "close")
  /\ IF ptr[cur[t]] THEN CloseSocket(cur[t]) ELSE UNCHANGED <<sock, ptr, pooled, read, write>>
  /\ UNCHANGED <<mgrVars, mem, map, mutex, tasks, decoding, ub>>

\* Mutated form: the deleted session is not erased.
Close_Session_NoErase(t) ==
  /\ Return(t, "unlink") /\ mutex = None
  /\ mem' = [mem EXCEPT ![cur[t]] = IF cur[t] \in map THEN "deleted" ELSE @]
  /\ UNCHANGED <<mgrVars, sock, ptr, pooled, read, write, map, mutex, tasks, decoding, ub>>

\* Mutated form: the session is erased and not deleted.
Close_Session_NoDelete(t) ==
  /\ Return(t, "unlink") /\ mutex = None
  /\ map' = map \ {cur[t]}
  /\ UNCHANGED <<mgrVars, objVars, mutex, tasks, decoding, ub>>

\* Close_Session: under the mutex, delete the session if the map still has it.
Close_Session(t) ==
  /\ Return(t, "unlink") /\ mutex = None
  /\ map' = map \ {cur[t]}
  /\ mem' = [mem EXCEPT ![cur[t]] = IF cur[t] \in map THEN "deleted" ELSE @]
  /\ UNCHANGED <<mgrVars, sock, ptr, pooled, read, write, mutex, tasks, decoding, ub>>

\* A worker takes the oldest task and enters OnMessage.
TakeTask(t) ==
  /\ tasks # <<>> /\ Live(Head(tasks))
  /\ Goto(t, "idle", "app")
  /\ cur' = [cur EXCEPT ![t] = Head(tasks)] /\ tasks' = Tail(tasks)
  /\ UNCHANGED <<mgrVars, objVars, map, mutex, decoding, ub>>

\* OnEvent_Init, OnEvent_Accept_Session or OnMessage calls ASync_Send, which starts a write.  On a
\* null socket it returns, and behind an outstanding write the frame waits: no step here.
ASync_Send(t) ==
  /\ owner \in AppSends /\ pc[t] \in {"init", "accepted", "app"}
  /\ Live(cur[t]) /\ ptr[cur[t]] /\ ~Dangling(cur[t]) /\ write[cur[t]] = "none"
  /\ Cardinality({s \in Sessions : write[s] # "none"}) < MaxWrites
  /\ write' = [write EXCEPT ![cur[t]] = "pending"]
  /\ UNCHANGED <<mgrVars, mem, sock, ptr, pooled, read, map, mutex, tasks, pc, cur, decoding, ub>>

OnMessageReturns(t) ==
  /\ Return(t, "app")
  /\ UNCHANGED <<mgrVars, objVars, map, mutex, tasks, decoding, ub>>

OnMessageCloses(t) ==
  /\ owner \in AppCloses /\ Goto(t, "app", "close")
  /\ UNCHANGED <<mgrVars, objVars, map, mutex, tasks, cur, decoding, ub>>

-----------------------------------------------------------------------------
(* Stop, on the control thread.                                             *)

\* Rigi_Server::Stop with an application's manager: m_pTCP_Mgr was never set.
StopIgnored ==
  /\ "server" \in Stops /\ Application /\ Goto(Control, "idle", "ignored")
  /\ UNCHANGED <<mgrVars, objVars, map, mutex, tasks, cur, decoding, ub>>

\* m_acceptor.cancel() and close(): the outstanding accept is aborted.  On an acceptor that is not
\* open cancel() throws, and Stop has done nothing.
StopAcceptor ==
  /\ (IF Application THEN "manager" ELSE "server") \in Stops
  /\ Goto(Control, "idle", "context") /\ acceptor = "open"
  /\ acceptor' = "closed" /\ accept' = IF accept = "pending" THEN "err" ELSE accept
  /\ UNCHANGED <<owner, running, objVars, map, mutex, tasks, cur, decoding, ub>>

\* Mutated form: the io_context is left running.
StopContext_Skipped ==
  /\ Goto(Control, "context", "clear")
  /\ UNCHANGED <<mgrVars, objVars, map, mutex, tasks, cur, decoding, ub>>

\* io_context.stop() returns at once: a handler that is running goes on, none is started.
StopContext ==
  /\ Goto(Control, "context", "clear") /\ running' = FALSE
  /\ UNCHANGED <<owner, acceptor, accept, objVars, map, mutex, tasks, cur, decoding, ub>>

\* Mutated form: Clear keeps the mutex.
Clear_Locked ==
  /\ Goto(Control, "clear", "join") /\ mutex = None
  /\ mutex' = Control
  /\ UNCHANGED <<mgrVars, objVars, map, tasks, cur, decoding, ub>>

\* Mutated form: Clear tries the mutex and gives up when the io thread holds it.
Clear_GivesUp ==
  /\ Goto(Control, "clear", "join") /\ mutex # None
  /\ UNCHANGED <<mgrVars, objVars, map, mutex, tasks, cur, decoding, ub>>

\* SessionPool.Clear: under the mutex, close and delete every session in the map.
Clear ==
  /\ Goto(Control, "clear", "join") /\ mutex = None /\ \A s \in map : ~Dangling(s)
  /\ sock' = [s \in Sessions |-> IF s \in map THEN "deleted" ELSE sock[s]]
  /\ ptr' = [s \in Sessions |-> ptr[s] /\ s \notin map]
  /\ pooled' = [s \in Sessions |-> pooled[s] /\ s \notin map]
  /\ read' = [s \in Sessions |-> IF s \in map /\ read[s] = "pending" THEN "err" ELSE read[s]]
  /\ write' = [s \in Sessions |-> IF s \in map /\ write[s] = "pending" THEN "err" ELSE write[s]]
  /\ mem' = [s \in Sessions |-> IF s \in map THEN "deleted" ELSE mem[s]]
  /\ map' = {}
  /\ UNCHANGED <<mgrVars, mutex, tasks, cur, decoding, ub>>

\* m_thread_pool->join(): wait until every posted task has run.
Join ==
  /\ Goto(Control, "join", "done")
  /\ tasks = <<>> /\ \A w \in Workers : pc[w] = "idle"
  /\ UNCHANGED <<mgrVars, objVars, map, mutex, tasks, cur, decoding, ub>>

\* The manager is destroyed, by Rigi_Server::Stop or once Run has returned: ~Rigi_TCPServerMgr
\* calls Stop again, and the exception that leaves the destructor terminates the program.
DestroyManager ==
  /\ Goto(Control, "done", "terminated") /\ (Application => pc[Io] = "returned")
  /\ UNCHANGED <<mgrVars, objVars, map, mutex, tasks, cur, decoding, ub>>

-----------------------------------------------------------------------------
(* Undefined behaviour.                                                     *)

\* A step that uses a deleted session: OnEvent_Accept_Session, Close, Handler_Receive behind the
\* OnMessage that closed, ASync_Send, a completion handler or a task that captured this.
UsesDeadSession(t) ==
  \/ pc[t] \in {"accepted", "close", "decoded"} /\ ~Live(cur[t])
  \/ pc[t] = "app" /\ owner \in AppSends /\ ~Live(cur[t])
  \/ t = Io /\ running /\ pc[t] = "idle" /\
       \E s \in Sessions : ~Live(s) /\ (read[s] \in {"ok", "err"} \/ write[s] \in {"ok", "err"})
  \/ t \in Workers /\ pc[t] = "idle" /\ tasks # <<>> /\ ~Live(Head(tasks))

\* A completion handler, ASync_Send, Close or Clear uses a socket that Handle_accept's catch has
\* deleted.
UsesDeadSocket(t) ==
  \/ pc[t] \in {"close", "decoded"} /\ Dangling(cur[t])
  \/ pc[t] = "app" /\ owner \in AppSends /\ Dangling(cur[t])
  \/ t = Io /\ running /\ pc[t] = "idle" /\
       \E s \in Sessions : Dangling(s) /\ (read[s] = "ok" \/ write[s] = "ok")
  \/ pc[t] = "clear" /\ mutex = None /\ \E s \in map : Dangling(s)

\* A second delete: of a refused session that is still in the map, whose destructor closes it
\* and so deletes it, or that Clear has deleted; of a refused socket that Close has deleted.
DeletesTwice(t) ==
  \/ pc[t] = "reject" /\ (ptr[cur[t]] \/ ~Live(cur[t]))
  \/ pc[t] = "free" /\ sock[cur[t]] = "deleted"

Undefined(t) ==
  /\ UsesDeadSession(t) \/ UsesDeadSocket(t) \/ DeletesTwice(t)
  /\ ub' = TRUE
  /\ UNCHANGED <<mgrVars, objVars, map, mutex, tasks, pc, cur, decoding>>

-----------------------------------------------------------------------------
Network == Connect \/ ConnectFails \/ \E s \in Sessions : PeerSends(s) \/ PeerCloses(s) \/ WriteEnds(s)
RunStep == RunRestart \/ RunRefused \/ RunOpen \/ RunListen \/ RunThrows \/ RunReturns
IoStep  == \/ Handle_accept \/ Handle_accept_Error \/ AddFull \/ AddInsert
           \/ InitAccepts \/ InitRefuses \/ InitCloses \/ HandlerThrows \/ Accepted
           \/ RejectSession \/ FreeSocket \/ Decoded
           \/ \E s \in Sessions : Handler_Receive(s) \/ Handler_Write(s)
AppStep(t)  == ASync_Send(t) \/ OnMessageReturns(t) \/ OnMessageCloses(t)
ControlStep == StopIgnored \/ StopAcceptor \/ StopContext \/ Clear \/ Join \/ DestroyManager

Ended == ub \/ pc[Control] = "terminated"

ThreadStep(t) ==
  /\ ~Ended
  /\ \/ t = Io /\ (RunStep \/ IoStep)
     \/ t \in Workers /\ TakeTask(t)
     \/ t = Control /\ ControlStep
     \/ AppStep(t) \/ Close(t) \/ Close_Session(t) \/ Undefined(t)

\* Once the io_context is stopped no handler will see what the network does.
Next == (~Ended /\ running /\ Network) \/ \E t \in Threads : ThreadStep(t)

\* Every thread keeps running, and io_context runs ready handlers first come first served.
\* Control need not call Stop, but goes on once it has.
Fairness ==
  /\ \A t \in Threads \ {Control} : WF_vars(ThreadStep(t))
  /\ WF_vars(~Ended /\ (ControlStep \/ Undefined(Control)) /\ pc[Control] # "idle")
  /\ \A s \in Sessions : SF_vars(~Ended /\ Handler_Receive(s))

Spec     == Init /\ [][Next]_vars
FairSpec == Spec /\ Fairness

-----------------------------------------------------------------------------
(* Properties.                                                              *)

\* No session or socket is used after, or deleted after, it was deleted.
NoUndefined == ~ub

\* What a deleted session still gets is a handler that was ready or that its socket's deletion
\* aborted: nothing stays pending in the reactor for it, to fill a buffer that is gone, whichever
\* thread closes it and whatever handler it interrupts.
PendingIsLive ==
  \A s \in Sessions :
    "pending" \in {read[s], write[s]} => Live(s) /\ ptr[s] /\ sock[s] = "live"

\* docs/06_threading_and_advanced.md, section 6: the limit given to Run is the maximum number of
\* sessions.
AtMostMaxClient == Cardinality(map) <= MaxClient

\* The map is exact: its sessions are live, and a live session is in it unless the io thread is
\* between its allocation and Add_Session's answer.
PoolExact ==
  \A s \in Sessions :
    /\ s \in map => Live(s)
    /\ Live(s) => s \in map \/ (pc[Io] \in {"add", "reject"} /\ cur[Io] = s)

\* No session is forgotten: one in the map whose socket is closed has a thread on its way to
\* Close_Session with it, and a socket object lives only as long as its session points to it.
NoneForgotten ==
  \A s \in Sessions :
    /\ s \in map /\ ~ptr[s] => \E t \in Threads : pc[t] = "unlink" /\ cur[t] = s
    /\ sock[s] = "live" => ptr[s] /\ Live(s)

\* OnEvent_Init called Close() on its session: the io thread waits for the mutex it holds.
SelfLocked == pc[Io] = "unlink" /\ mutex = Io

\* The server keeps accepting: from listen until Stop, and unless an accept has failed, an accept
\* is outstanding or completed, or the io thread is in Handle_accept.
KeepsAccepting ==
  acceptor = "open" => \/ accept # "none"
                       \/ pc[Io] \in {"listen", "returned", "add", "init", "accepted", "reject", "free"}
                       \/ SelfLocked

\* After Stop the pool holds at most the one session whose Handle_accept Stop did not wait for.
StopEmpties == pc[Control] \in {"join", "done"} => Cardinality(map) <= 1

\* How far a session is in its life, as the pool sees it.
Stage(s) ==
  IF mem[s] = "none" THEN "new"
  ELSE IF s \in map THEN IF ptr[s] THEN "member" ELSE "closing"
  ELSE IF ~Live(s) THEN "gone"
  ELSE IF pc[Io] = "reject" THEN "refused" ELSE "offered"

\* The comparison in Add_Session lets one session in beyond MaxClient: AtMostMaxClient fails.
Pool == INSTANCE ConnectionPool WITH
  Capacity <- MaxClient + 1,
  stage    <- [s \in Sessions |-> Stage(s)],
  cleared  <- pc[Control] \in {"join", "done", "terminated"}

\* Whatever handlers, workers and Stop do to each other, a session goes through the pool once:
\* admitted while there is room and refused only when there is none, closed before it is taken
\* out and deleted as it is, and after Clear only the one that was on its way comes in.
ImplementsPool == Pool!Spec

\* The pool keeps no dead connection: again and again every session in the map is reading, so one
\* whose connection ended, or whose read was never started, has left.  A session whose OnEvent_Init
\* threw stays.
Released ==
  []<>(\/ \A s \in map : read[s] \in {"pending", "ok"} \/ Dangling(s)
       \/ ~running \/ Ended \/ SelfLocked)

\* A Stop that got past the acceptor returns, and so does Run, at whatever point of Run, of a
\* handler or of a task it came.
StopEnds ==
  pc[Control] = "context" ~>
    ((pc[Control] = "done" /\ pc[Io] = "returned") \/ Ended \/ SelfLocked)
=============================================================================
