----------------------------- MODULE TCPSession -----------------------------
(***************************************************************************)
(* One Rigi_TCPSession over one connection, at the granularity at which    *)
(* its threads interleave: the io_context thread that runs the completion  *)
(* handlers, and the worker threads that run OnMessage when a dispatcher   *)
(* is set.  m_send_mutex protects m_send_queue and m_bSending only;        *)
(* m_pSocket is read and written with no lock, so every test of it and     *)
(* every use of it are separate steps.                                     *)
(*                                                                         *)
(* Using a deleted socket or a deleted session is undefined behaviour.     *)
(* The model sets ub and stops there: no property is claimed past it.      *)
(***************************************************************************)
EXTENDS Naturals, Sequences

CONSTANTS
  Io,         \* the thread that calls io_context.run()
  Workers,    \* the threads of the boost::asio::thread_pool
  None,       \* no thread: m_send_mutex is free
  Frames,     \* the frames the application sends, each at most once
  MaxEmit,    \* bound: messages one decode() call emits
  MaxMsgs,    \* bound: messages emitted in all
  Pooled,     \* TRUE: m_pSessionPool is set (server), Close deletes this
  Dispatch,   \* TRUE: Set_Dispatcher was called
  AppCloses,  \* TRUE: OnMessage may end with Close()
  AppSyncs    \* TRUE: OnMessage may call Sync_Send

Threads == Workers \union {Io}

ASSUME ThreadAssumption == Io \notin Workers /\ None \notin Threads
ASSUME BoundAssumption  == MaxEmit \in Nat /\ MaxMsgs \in Nat
ASSUME ModeAssumption   == {Pooled, Dispatch, AppCloses, AppSyncs} \subseteq BOOLEAN

VARIABLES
  ptr,        \* m_pSocket # nullptr
  sock,       \* the socket object: connected, reset by the peer, closed, deleted
  alive,      \* the session object has not been deleted
  queue,      \* m_send_queue
  sending,    \* m_bSending
  mutex,      \* the holder of m_send_mutex
  writes,     \* outstanding async_write operations and their outcome
  read,       \* the outstanding async_read_some operation
  emits,      \* messages the running decode() has still to emit
  msgs,       \* messages emitted so far
  tasks,      \* OnMessage tasks posted to the thread pool, oldest first
  pc, ret,    \* per thread: where it is, and where the called function returns
  frm,        \* per thread: the frame ASync_Send or do_send holds
  fresh,      \* frames the application has not sent yet
  accepted,   \* history: frames pushed to m_send_queue, in order
  wire,       \* history: frames completely written to the connection
  ub          \* undefined behaviour has happened

netVars  == <<ptr, sock, alive>>
sendVars == <<queue, sending, mutex, writes, accepted, wire>>
recvVars == <<read, emits, msgs, tasks>>
appVars  == <<frm, fresh>>
ctlVars  == <<pc, ret>>
vars == <<netVars, sendVars, recvVars, appVars, ctlVars, ub>>

SockState == {"up", "reset", "shut", "gone"}
OpState   == {"pending", "ok", "err"}
WriteOp   == [frame : Frames, st : OpState]
Label     == {"idle", "app", "lock", "write", "sent", "fail", "close", "shut",
              "delete", "null", "drain", "leave", "emit", "arm", "sync"}

TypeOK ==
  /\ ptr \in BOOLEAN /\ sock \in SockState /\ alive \in BOOLEAN
  /\ queue \in Seq(Frames) /\ sending \in BOOLEAN
  /\ mutex \in Threads \union {None}
  /\ writes \in SUBSET WriteOp
  /\ read \in OpState \union {"none"}
  /\ emits \in Nat /\ msgs \in Nat /\ tasks \in Seq(Nat)
  /\ pc \in [Threads -> Label] /\ ret \in [Threads -> Label]
  /\ frm \in [Threads -> Frames \union {None}]
  /\ fresh \in SUBSET Frames
  /\ accepted \in Seq(Frames) /\ wire \in Seq(Frames)
  /\ ub \in BOOLEAN

\* Add_Session has set the socket and called Async_Receive.
Init ==
  /\ ptr = TRUE /\ sock = "up" /\ alive = TRUE
  /\ queue = <<>> /\ sending = FALSE /\ mutex = None /\ writes = {}
  /\ read = "pending" /\ emits = 0 /\ msgs = 0 /\ tasks = <<>>
  /\ pc = [t \in Threads |-> "idle"] /\ ret = [t \in Threads |-> "idle"]
  /\ frm = [t \in Threads |-> None] /\ fresh = Frames
  /\ accepted = <<>> /\ wire = <<>>
  /\ ub = FALSE

Goto(t, from, to) == pc[t] = from /\ pc' = [pc EXCEPT ![t] = to]

-----------------------------------------------------------------------------
(* The connection and the reactor: what boost::asio and the peer do.        *)

\* The operating system takes the last byte of a frame: the write completes.
WriteDone(w) ==
  /\ sock = "up" /\ w.st = "pending"
  /\ writes' = (writes \ {w}) \union {[w EXCEPT !.st = "ok"]}
  /\ wire' = Append(wire, w.frame)
  /\ UNCHANGED <<netVars, queue, sending, mutex, accepted, recvVars, appVars, ctlVars, ub>>

\* A write on a connection the peer has reset fails.
WriteFail(w) ==
  /\ sock = "reset" /\ w.st = "pending"
  /\ writes' = (writes \ {w}) \union {[w EXCEPT !.st = "err"]}
  /\ UNCHANGED <<netVars, queue, sending, mutex, accepted, wire, recvVars, appVars, ctlVars, ub>>

PeerReset ==
  /\ sock = "up"
  /\ sock' = "reset"
  /\ UNCHANGED <<ptr, alive, sendVars, recvVars, appVars, ctlVars, ub>>

\* Data arrives, or the read ends with an error: end of file from a live peer, a reset.
ReadDone ==
  /\ read = "pending" /\ sock = "up"
  /\ read' = "ok"
  /\ UNCHANGED <<netVars, sendVars, emits, msgs, tasks, appVars, ctlVars, ub>>

ReadFail ==
  /\ read = "pending" /\ sock \in {"up", "reset"}
  /\ read' = "err"
  /\ UNCHANGED <<netVars, sendVars, emits, msgs, tasks, appVars, ctlVars, ub>>

-----------------------------------------------------------------------------
(* ASync_Send, do_send and the completion handler of async_write.           *)

\* ASync_Send, up to its lock_guard: the unlocked null test drops the frame silently.
ASync_Send(t) ==
  /\ pc[t] \in {"app", "sent"} /\ alive
  /\ \E f \in fresh :
       /\ fresh' = fresh \ {f}
       /\ IF ptr
          THEN /\ frm' = [frm EXCEPT ![t] = f]
               /\ pc' = [pc EXCEPT ![t] = "lock"]
               /\ ret' = [ret EXCEPT ![t] = pc[t]]
          ELSE UNCHANGED <<frm, pc, ret>>
  /\ UNCHANGED <<netVars, sendVars, recvVars, ub>>

\* do_send up to its async_write, on queue q with m_send_mutex just taken by t: either
\* nothing is sent and the mutex is released, or t goes on holding it to start a write.
do_send(t, q, after) ==
  IF q = <<>> \/ ~ptr
  THEN /\ sending' = FALSE /\ queue' = q
       /\ pc' = [pc EXCEPT ![t] = after]
       /\ frm' = [frm EXCEPT ![t] = None]
       /\ UNCHANGED <<mutex, ret>>
  ELSE /\ sending' = TRUE /\ queue' = Tail(q) /\ mutex' = t
       /\ frm' = [frm EXCEPT ![t] = Head(q)]
       /\ pc' = [pc EXCEPT ![t] = "write"]
       /\ ret' = [ret EXCEPT ![t] = after]

Idle == ~sending /\ queue = <<>>

\* Mutated forms of Push: m_bSending not tested; a forgotten wake-up; newest frame first.
Push_IgnoresSending(t) ==
  /\ pc[t] = "lock" /\ alive /\ mutex = None
  /\ accepted' = Append(accepted, frm[t])
  /\ IF queue = <<>>
     THEN do_send(t, Append(queue, frm[t]), ret[t])
     ELSE /\ queue' = Append(queue, frm[t])
          /\ pc' = [pc EXCEPT ![t] = ret[t]]
          /\ frm' = [frm EXCEPT ![t] = None]
          /\ UNCHANGED <<sending, mutex, ret>>
  /\ UNCHANGED <<netVars, writes, wire, recvVars, fresh, ub>>

Push_NeverSends(t) ==
  /\ Goto(t, "lock", ret[t]) /\ alive /\ mutex = None
  /\ accepted' = Append(accepted, frm[t])
  /\ queue' = Append(queue, frm[t])
  /\ UNCHANGED <<netVars, sending, mutex, writes, wire, recvVars, appVars, ret, ub>>

Push_Front(t) ==
  /\ pc[t] = "lock" /\ alive /\ mutex = None
  /\ accepted' = Append(accepted, frm[t])
  /\ IF Idle
     THEN do_send(t, <<frm[t]>>, ret[t])
     ELSE /\ queue' = <<frm[t]>> \o queue
          /\ pc' = [pc EXCEPT ![t] = ret[t]]
          /\ frm' = [frm EXCEPT ![t] = None]
          /\ UNCHANGED <<sending, mutex, ret>>
  /\ UNCHANGED <<netVars, writes, wire, recvVars, fresh, ub>>

\* ASync_Send under the lock: push the frame, and start a write when none is running.
Push(t) ==
  /\ pc[t] = "lock" /\ alive /\ mutex = None
  /\ accepted' = Append(accepted, frm[t])
  /\ IF Idle
     THEN do_send(t, Append(queue, frm[t]), ret[t])
     ELSE /\ queue' = Append(queue, frm[t])
          /\ pc' = [pc EXCEPT ![t] = ret[t]]
          /\ frm' = [frm EXCEPT ![t] = None]
          /\ UNCHANGED <<sending, mutex, ret>>
  /\ UNCHANGED <<netVars, writes, wire, recvVars, fresh, ub>>

\* async_write(*m_pSocket, ...) and the release of m_send_mutex.
StartWrite(t) ==
  /\ Goto(t, "write", ret[t]) /\ alive /\ ptr /\ sock # "gone"
  /\ mutex' = None
  /\ frm' = [frm EXCEPT ![t] = None]
  /\ writes' = writes \union
       {[frame |-> frm[t], st |-> IF sock = "shut" THEN "err" ELSE "pending"]}
  /\ UNCHANGED <<netVars, queue, sending, accepted, wire, recvVars, fresh, ret, ub>>

\* The completion handler of async_write starts on the io thread, with its outcome.
RunWriteHandler(w) ==
  /\ w.st # "pending" /\ alive
  /\ Goto(Io, "idle", IF w.st = "ok" THEN "sent" ELSE "fail")
  /\ writes' = writes \ {w}
  /\ UNCHANGED <<netVars, queue, sending, mutex, accepted, wire, recvVars, appVars, ret, ub>>

\* Mutated forms of Resume: the queue is dropped; m_bSending is reset and nothing is sent.
Resume_Drops ==
  /\ pc[Io] = "sent" /\ alive /\ mutex = None
  /\ do_send(Io, <<>>, "idle")
  /\ UNCHANGED <<netVars, accepted, writes, wire, recvVars, fresh, ub>>

Resume_Stops ==
  /\ Goto(Io, "sent", "idle") /\ alive /\ mutex = None
  /\ sending' = FALSE
  /\ UNCHANGED <<netVars, queue, mutex, accepted, writes, wire, recvVars, appVars, ret, ub>>

\* After OnEvent_Sended: lock m_send_mutex and send the next frame.
Resume ==
  /\ pc[Io] = "sent" /\ alive /\ mutex = None
  /\ do_send(Io, queue, "idle")
  /\ UNCHANGED <<netVars, accepted, writes, wire, recvVars, fresh, ub>>

\* The error branch: clear under the lock, then Handler_Send: OnEvent_Close and Close.
WriteError ==
  /\ Goto(Io, "fail", "close") /\ alive /\ mutex = None
  /\ ret' = [ret EXCEPT ![Io] = "idle"]
  /\ sending' = FALSE /\ queue' = <<>>
  /\ UNCHANGED <<netVars, accepted, writes, wire, mutex, recvVars, appVars, ub>>

-----------------------------------------------------------------------------
(* Async_Receive, Handler_Receive and OnMessage.                            *)

\* Mutated forms: an incomplete message leaves without Async_Receive; an error without Close.
RunReadHandler_NoRearm ==
  /\ pc[Io] = "idle" /\ read = "ok" /\ alive /\ ptr
  /\ emits' \in {n \in 0..MaxEmit : msgs + n <= MaxMsgs}
  /\ pc' = [pc EXCEPT ![Io] = IF emits' = 0 THEN "idle" ELSE "emit"]
  /\ read' = "none"
  /\ UNCHANGED <<netVars, sendVars, msgs, tasks, appVars, ret, ub>>

RunReadHandler_NoClose ==
  /\ pc[Io] = "idle" /\ read = "err" /\ alive
  /\ read' = "none"
  /\ UNCHANGED <<netVars, sendVars, emits, msgs, tasks, appVars, ctlVars, ub>>

\* Handler_Receive starts: a null socket returns, an error closes, data is decoded.
RunReadHandler ==
  /\ pc[Io] = "idle" /\ read \in {"ok", "err"} /\ alive
  /\ \/ /\ ~ptr
        /\ UNCHANGED <<emits, ctlVars>>
     \/ /\ ptr /\ read = "err"
        /\ pc' = [pc EXCEPT ![Io] = "close"]
        /\ ret' = [ret EXCEPT ![Io] = "idle"]
        /\ UNCHANGED emits
     \/ /\ ptr /\ read = "ok"
        /\ emits' \in {n \in 0..MaxEmit : msgs + n <= MaxMsgs}
        /\ pc' = [pc EXCEPT ![Io] = "emit"]
        /\ UNCHANGED ret
  /\ read' = "none"
  /\ UNCHANGED <<netVars, sendVars, msgs, tasks, appVars, ub>>

\* Mutated form: the loop emits one message too many.
Emit_OneMore ==
  /\ pc[Io] = "emit" /\ alive
  /\ emits' = emits - 1 /\ msgs' = msgs + 1
  /\ pc' = [pc EXCEPT ![Io] = "app"]
  /\ UNCHANGED <<netVars, sendVars, read, tasks, appVars, ret, ub>>

\* emit(): OnMessage is posted to the thread pool, or called at once.
Emit ==
  /\ pc[Io] = "emit" /\ alive /\ emits > 0
  /\ emits' = emits - 1 /\ msgs' = msgs + 1
  /\ IF Dispatch
     THEN tasks' = Append(tasks, msgs + 1) /\ UNCHANGED pc
     ELSE pc' = [pc EXCEPT ![Io] = "app"] /\ UNCHANGED tasks
  /\ UNCHANGED <<netVars, sendVars, read, appVars, ret, ub>>

\* decode() is over: BufferClear, and the null test of Async_Receive.
Rearm ==
  /\ pc[Io] = "emit" /\ alive /\ emits = 0
  /\ pc' = [pc EXCEPT ![Io] = IF ptr THEN "arm" ELSE "idle"]
  /\ UNCHANGED <<netVars, sendVars, recvVars, appVars, ret, ub>>

\* m_pSocket->async_read_some(...).
Arm ==
  /\ Goto(Io, "arm", "idle") /\ alive /\ ptr /\ sock # "gone"
  /\ read' = IF sock = "shut" THEN "err" ELSE "pending"
  /\ UNCHANGED <<netVars, sendVars, emits, msgs, tasks, appVars, ret, ub>>

\* A worker takes the oldest task and enters OnMessage.
TakeTask(t) ==
  /\ tasks # <<>> /\ alive
  /\ Goto(t, "idle", "app")
  /\ tasks' = Tail(tasks)
  /\ UNCHANGED <<netVars, sendVars, read, emits, msgs, appVars, ret, ub>>

\* Where OnMessage returns to: the decode loop on the io thread, the pool on a worker.
AfterMessage(t) == IF t = Io THEN "emit" ELSE "idle"

OnMessageReturns(t) ==
  /\ Goto(t, "app", AfterMessage(t))
  /\ UNCHANGED <<netVars, sendVars, recvVars, appVars, ret, ub>>

\* The application ends OnMessage with Close().
OnMessageCloses(t) ==
  /\ AppCloses /\ alive
  /\ Goto(t, "app", "close")
  /\ ret' = [ret EXCEPT ![t] = AfterMessage(t)]
  /\ UNCHANGED <<netVars, sendVars, recvVars, appVars, ub>>

\* Sync_Send, called in OnMessage: after the null test the blocking send, which succeeds on a
\* live connection.  When it throws, Sync_Send calls Close() and returns to OnMessage.
Sync_Send(t) ==
  /\ AppSyncs
  /\ Goto(t, "app", "sync") /\ alive /\ ptr
  /\ UNCHANGED <<netVars, sendVars, recvVars, appVars, ret, ub>>

SyncSendDone(t) ==
  /\ alive /\ ptr /\ sock # "gone"
  /\ Goto(t, "sync", IF sock = "up" THEN "app" ELSE "close")
  /\ ret' = [ret EXCEPT ![t] = IF sock = "up" THEN @ ELSE "app"]
  /\ UNCHANGED <<netVars, sendVars, recvVars, appVars, ub>>

-----------------------------------------------------------------------------
(* Close(error), one step per access another thread can come between.       *)

\* Mutated form: m_pSocket is not tested.
CloseTest_None(t) ==
  /\ Goto(t, "close", "shut") /\ alive
  /\ UNCHANGED <<netVars, sendVars, recvVars, appVars, ret, ub>>

CloseTest(t) ==
  /\ Goto(t, "close", IF ptr THEN "shut" ELSE ret[t]) /\ alive
  /\ UNCHANGED <<netVars, sendVars, recvVars, appVars, ret, ub>>

\* m_pSocket->close(): every pending operation ends with operation_aborted.
CloseShut(t) ==
  /\ Goto(t, "shut", "delete") /\ alive /\ ptr /\ sock # "gone"
  /\ sock' = "shut"
  /\ writes' = {[w EXCEPT !.st = IF @ = "pending" THEN "err" ELSE @] : w \in writes}
  /\ read' = IF read = "pending" THEN "err" ELSE read
  /\ UNCHANGED <<ptr, alive, queue, sending, mutex, accepted, wire,
                 emits, msgs, tasks, appVars, ret, ub>>

CloseDelete(t) ==
  /\ Goto(t, "delete", "null") /\ alive /\ sock # "gone"
  /\ sock' = "gone"
  /\ UNCHANGED <<ptr, alive, sendVars, recvVars, appVars, ret, ub>>

CloseNull(t) ==
  /\ Goto(t, "null", "drain") /\ alive
  /\ ptr' = FALSE
  /\ UNCHANGED <<sock, alive, sendVars, recvVars, appVars, ret, ub>>

CloseDrain(t) ==
  /\ Goto(t, "drain", "leave") /\ alive /\ mutex = None
  /\ queue' = <<>> /\ sending' = FALSE
  /\ UNCHANGED <<netVars, mutex, writes, accepted, wire, recvVars, appVars, ret, ub>>

\* pool->Close_Session(this) deletes the session; without a pool nothing more happens.
CloseLeave(t) ==
  /\ Goto(t, "leave", ret[t]) /\ alive
  /\ alive' = ~Pooled
  /\ UNCHANGED <<ptr, sock, sendVars, recvVars, appVars, ret, ub>>

-----------------------------------------------------------------------------
(* Undefined behaviour.                                                     *)

\* A step that uses *m_pSocket after another thread deleted it or nulled the pointer.
UsesDeadSocket(t) ==
  \/ pc[t] \in {"write", "shut", "arm", "sync"} /\ (~ptr \/ sock = "gone")
  \/ pc[t] = "delete" /\ sock = "gone"

\* A step that uses a member of a deleted session: a thread inside a member function, a
\* completion handler that captured this, an OnMessage task that captured this.
UsesDeadSession(t) ==
  /\ ~alive
  /\ \/ pc[t] \notin {"idle", "app"}
     \/ t = Io /\ pc[t] = "idle" /\ (read \in {"ok", "err"} \/ \E w \in writes : w.st # "pending")
     \/ t \in Workers /\ pc[t] = "idle" /\ tasks # <<>>

Undefined(t) ==
  /\ UsesDeadSocket(t) \/ UsesDeadSession(t)
  /\ ub' = TRUE
  /\ UNCHANGED <<netVars, sendVars, recvVars, appVars, ctlVars>>

-----------------------------------------------------------------------------
SendStep(t)  == ASync_Send(t) \/ Push(t) \/ StartWrite(t)
CloseStep(t) == \/ CloseTest(t) \/ CloseShut(t) \/ CloseDelete(t)
                \/ CloseNull(t) \/ CloseDrain(t) \/ CloseLeave(t)
AppStep(t)   == OnMessageReturns(t) \/ OnMessageCloses(t)
SyncStep(t)  == Sync_Send(t) \/ SyncSendDone(t)
IoStep       == \/ \E w \in writes : RunWriteHandler(w)
                \/ Resume \/ WriteError \/ RunReadHandler \/ Emit \/ Rearm \/ Arm
Network      == \/ \E w \in writes : WriteDone(w) \/ WriteFail(w)
                \/ PeerReset \/ ReadDone \/ ReadFail

ThreadStep(t) ==
  /\ ~ub
  /\ \/ SendStep(t) \/ SyncStep(t) \/ CloseStep(t) \/ AppStep(t) \/ Undefined(t)
     \/ t = Io /\ IoStep
     \/ t \in Workers /\ TakeTask(t)

Next == (~ub /\ Network) \/ \E t \in Threads : ThreadStep(t)

\* Every thread keeps running, OnMessage returns, io_context runs its ready completion handlers first come
\* first served, the peer keeps reading what is written to it, and an operation on a reset
\* connection fails.  Data and end of file need not come.
Fairness ==
  /\ \A t \in Threads : WF_vars(ThreadStep(t)) /\ SF_vars(~ub /\ AppStep(t))
  /\ SF_vars(~ub /\ \E w \in writes : RunWriteHandler(w))
  /\ SF_vars(~ub /\ RunReadHandler)
  /\ WF_vars(~ub /\ \E w \in writes : WriteDone(w) \/ WriteFail(w))
  /\ WF_vars(~ub /\ sock = "reset" /\ ReadFail)

Spec     == Init /\ [][Next]_vars
FairSpec == Spec /\ Fairness

-----------------------------------------------------------------------------
(* Safety.                                                                  *)

\* No undefined behaviour: no thread, completion handler or task uses a socket or a session
\* that has been deleted.
NoUndefined == ~ub

\* An asio stream allows one async_write at a time: ASync_Send, called from any number of
\* threads, never has two outstanding, and holds m_send_mutex to start one only when none is.
SingleWriter ==
  /\ \A v, w \in writes : v = w
  /\ mutex # None => writes = {}

\* The completion handler is between its start and its lock_guard.
HandlerRunning == \/ pc[Io] \in {"sent", "fail"}
                  \/ pc[Io] = "lock" /\ ret[Io] = "sent"

\* No lost wake-up: while the socket is set, a queued frame always has a write outstanding,
\* about to start, or a completion handler on its way to do_send, so somebody will send it.
NoStrandedFrame ==
  queue # <<>> /\ ptr => writes # {} \/ mutex # None \/ HandlerRunning

\* The frame popped from the queue and not yet written, as a sequence of at most one: in the
\* hands of the holder mx of m_send_mutex, or in flight in ws.
Carried(mx, ws, held) ==
  IF mx # None THEN <<held[mx]>>
  ELSE IF \E w \in ws : w.st = "pending"
       THEN <<(CHOOSE w \in ws : w.st = "pending").frame>>
       ELSE <<>>

OnTheWay == Carried(mutex, writes, frm)

Connected == sock = "up" /\ ~ub

\* While connected, the frames accepted are exactly those written, the one on its way and
\* those queued, in that order: ASync_Send neither loses, repeats nor reorders a frame.
Conservation == Connected => accepted = wire \o OnTheWay \o queue

\* The receive loop never dies: on a live connection a read is outstanding or completed, or
\* the io thread is in Handler_Receive, on its way to the next Async_Receive or to Close.
Listening ==
  sock = "up" => \/ read # "none"
                 \/ pc[Io] \in {"emit", "arm", "app", "sync", "close", "shut"}
                 \/ pc[Io] \in {"lock", "write"} /\ ret[Io] = "app"

\* Two workers are never in OnMessage of the session at once (docs/06_threading_and_advanced.md,
\* section 3).
NoConcurrentOnMessage ==
  \A v, w \in Workers : pc[v] # "idle" /\ pc[w] # "idle" => v = w

-----------------------------------------------------------------------------
(* Liveness, and the abstract channel.                                      *)

Accepted(f) == \E i \in 1..Len(accepted) : accepted[i] = f
Written(f)  == \E i \in 1..Len(wire) : wire[i] = f

\* A connection the peer resets is noticed and closed: m_pSocket becomes null.
ResetCloses == sock = "reset" ~> (~ptr \/ ub)

\* A frame that ASync_Send accepted is written, unless the connection breaks first.
FramesWritten == \A f \in Frames : Accepted(f) ~> (Written(f) \/ sock # "up" \/ ub)

Pending == IF Connected THEN OnTheWay \o queue ELSE <<>>

\* The send path implements the channel that callers of ASync_Send are promised.
Channel == INSTANCE FrameChannel WITH up <- Connected, pending <- Pending

ImplementsChannel == Channel!Spec

\* The same without the channel's fairness: what the send path never does, in any mode.
ImplementsSafely == Channel!SafeSpec
=============================================================================
