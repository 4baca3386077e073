------------------------------ MODULE ClientTCP ------------------------------
(***************************************************************************)
(* Rigi_ClientTCP: a session without a pool whose socket Connect makes,    *)
(* Close deletes and Reconnect makes again, on one thread.  A completion   *)
(* handler holds the session and not the socket it was started for: what   *)
(* an earlier connection left outstanding acts on the one that is there    *)
(* when it runs.  The application may call Connect, Reconnect, Close and   *)
(* ASync_Send between handlers and in OnMessage, OnEvent_Sended and        *)
(* OnEvent_Close.                                                          *)
(***************************************************************************)
EXTENDS Naturals, Sequences, SequencesExt

CONSTANTS
  Frames,       \* frames, each sent once
  MaxConnects   \* bound: calls of Connect and Reconnect

ASSUME ClientAssumption == MaxConnects \in Nat

VARIABLES
  sock,       \* m_pSocket # nullptr
  net,        \* the current connection: "up", "reset" by the peer
  connected,  \* m_bConnected
  reads,      \* outstanding async_read_some: how many are pending, ended "ok", ended in "err"
  writes,     \* outstanding async_writes, oldest first, each a frame and its result
  queue,      \* m_send_queue
  sending,    \* m_bSending
  pc,         \* "idle", or the callback of the application the thread is in
  calls,      \* calls of Connect and Reconnect
  clean,      \* the connection was made with no handler outstanding or running
  accepted,   \* frames ASync_Send took since the connection was made
  wired       \* frames written to it

netVars  == <<net, connected>>
sendVars == <<writes, queue, sending>>
vars     == <<sock, netVars, reads, sendVars, pc, calls, clean, accepted, wired>>

Result == {"pending", "ok", "err"}
Write  == [frame : Frames, result : Result]

TypeOK ==
  /\ sock \in BOOLEAN /\ net \in {"up", "reset"} /\ connected \in BOOLEAN
  /\ reads \in [Result -> Nat] /\ writes \in Seq(Write) /\ queue \in Seq(Frames)
  /\ sending \in BOOLEAN /\ pc \in {"idle", "message", "sended", "closing"}
  /\ calls \in 0 .. MaxConnects /\ clean \in BOOLEAN
  /\ accepted \in Seq(Frames) /\ wired \in Seq(Frames)

Init ==
  /\ sock = FALSE /\ net = "up" /\ connected = FALSE
  /\ reads = [r \in Result |-> 0] /\ writes = <<>> /\ queue = <<>> /\ sending = FALSE
  /\ pc = "idle" /\ calls = 0 /\ clean = TRUE /\ accepted = <<>> /\ wired = <<>>

Goto(from, to) == pc = from /\ pc' = to

-----------------------------------------------------------------------------
(* Close, and what stands behind a connection that it ends.                 *)

\* Mutated form: one read is aborted, however many are pending.
AbortedReads_One == IF sock THEN [reads EXCEPT !["pending"] = @ - 1, !["err"] = @ + 1] ELSE reads

\* Deleting the socket aborts what is pending.
AbortedReads ==
  IF sock THEN [reads EXCEPT !["pending"] = 0, !["err"] = @ + reads["pending"]] ELSE reads

AbortedWrites ==
  [i \in DOMAIN writes |->
     IF sock /\ writes[i].result = "pending" THEN [writes[i] EXCEPT !.result = "err"]
     ELSE writes[i]]

\* Mutated form: Close keeps the queue.
ClosedQueue_Kept == queue

ClosedQueue == IF sock THEN <<>> ELSE queue

CloseSocket ==
  /\ sock' = FALSE /\ reads' = AbortedReads
  /\ writes' = AbortedWrites /\ queue' = ClosedQueue /\ sending' = (sending /\ ~sock)

-----------------------------------------------------------------------------
(* What the application calls, from wherever the thread is.                 *)

\* Mutated form: Connect does not start the read.
ConnectSucceeds_Deaf ==
  /\ calls < MaxConnects /\ calls' = calls + 1
  /\ sock' = TRUE /\ net' = "up" /\ connected' = TRUE
  /\ reads' = AbortedReads
  /\ writes' = AbortedWrites /\ queue' = ClosedQueue /\ sending' = (sending /\ ~sock)
  /\ clean' = (pc = "idle" /\ writes = <<>> /\ \A r \in Result : reads[r] = 0)
  /\ accepted' = <<>> /\ wired' = <<>>
  /\ UNCHANGED pc

\* Connect on a session that has no socket, or Reconnect, which calls Close first.  The peer takes
\* the connection: Async_Receive.
ConnectSucceeds ==
  /\ calls < MaxConnects /\ calls' = calls + 1
  /\ sock' = TRUE /\ net' = "up" /\ connected' = TRUE
  /\ reads' = [AbortedReads EXCEPT !["pending"] = 1]
  /\ writes' = AbortedWrites /\ queue' = ClosedQueue /\ sending' = (sending /\ ~sock)
  /\ clean' = (pc = "idle" /\ writes = <<>> /\ \A r \in Result : reads[r] = 0)
  /\ accepted' = <<>> /\ wired' = <<>>
  /\ UNCHANGED pc

\* connect fails: m_bConnected is FALSE, and Close deletes the new socket.
ConnectRefused ==
  /\ calls < MaxConnects /\ calls' = calls + 1
  /\ CloseSocket /\ connected' = FALSE
  /\ UNCHANGED <<net, pc, clean, accepted, wired>>

\* The name is not resolved: an exception, before which Reconnect has closed; m_bConnected stays.
ConnectUnresolved ==
  /\ calls < MaxConnects /\ calls' = calls + 1
  /\ CloseSocket
  /\ UNCHANGED <<netVars, pc, clean, accepted, wired>>

\* Close(), or a Sync_Send that failed; m_bConnected stays.
AppCloses ==
  /\ sock /\ CloseSocket
  /\ UNCHANGED <<netVars, pc, calls, clean, accepted, wired>>

\* do_send, with q as the queue it finds.
do_send(q) ==
  IF q = <<>> \/ ~sock THEN sending' = FALSE /\ queue' = q /\ UNCHANGED writes
  ELSE /\ sending' = TRUE /\ queue' = Tail(q)
       /\ writes' = Append(writes, [frame |-> Head(q), result |-> "pending"])

\* Mutated form: only the queue is looked at, not m_bSending.
ASync_Send_IgnoresSending(f) ==
  /\ sock /\ ~Contains(accepted, f)
  /\ accepted' = Append(accepted, f)
  /\ IF queue = <<>> THEN do_send(<<f>>)
     ELSE queue' = Append(queue, f) /\ UNCHANGED <<writes, sending>>
  /\ UNCHANGED <<sock, netVars, reads, pc, calls, clean, wired>>

ASync_Send(f) ==
  /\ sock /\ ~Contains(accepted, f)
  /\ accepted' = Append(accepted, f)
  /\ IF ~sending /\ queue = <<>> THEN do_send(<<f>>)
     ELSE queue' = Append(queue, f) /\ UNCHANGED <<writes, sending>>
  /\ UNCHANGED <<sock, netVars, reads, pc, calls, clean, wired>>

-----------------------------------------------------------------------------
(* Completion handlers, each up to the application's callback and after it. *)

Took(r) == reads[r] > 0 /\ reads' = [reads EXCEPT ![r] = @ - 1]

\* Mutated form: after an error the handler does not close.
Handler_Receive_NoClose ==
  /\ pc = "idle"
  /\ \/ Took("ok") /\ pc' = IF sock THEN "message" ELSE "idle"
     \/ Took("err") /\ UNCHANGED pc
  /\ UNCHANGED <<sock, netVars, sendVars, calls, clean, accepted, wired>>

\* Handler_Receive: nothing on a null socket, else OnMessage or OnEvent_Close.
Handler_Receive ==
  /\ pc = "idle"
  /\ \/ Took("ok") /\ pc' = IF sock THEN "message" ELSE "idle"
     \/ Took("err") /\ pc' = IF sock THEN "closing" ELSE "idle"
  /\ UNCHANGED <<sock, netVars, sendVars, calls, clean, accepted, wired>>

\* OnMessage has returned: Async_Receive, on the socket there is now.
AfterMessage ==
  /\ Goto("message", "idle")
  /\ reads' = [reads EXCEPT !["pending"] = IF sock THEN @ + 1 ELSE @]
  /\ UNCHANGED <<sock, netVars, sendVars, calls, clean, accepted, wired>>

\* The completion handler of async_write: OnEvent_Sended, or the queue is given up and Handler_Send
\* calls OnEvent_Close.
WriteHandler ==
  /\ pc = "idle"
  /\ \E i \in DOMAIN writes :
       /\ writes[i].result # "pending" /\ writes' = RemoveAt(writes, i)
       /\ IF writes[i].result = "ok" THEN pc' = "sended" /\ UNCHANGED <<queue, sending>>
          ELSE pc' = "closing" /\ queue' = <<>> /\ sending' = FALSE
  /\ UNCHANGED <<sock, netVars, reads, calls, clean, accepted, wired>>

\* Mutated form: the next frame is not sent.
AfterSended_Stops ==
  /\ Goto("sended", "idle") /\ sending' = FALSE
  /\ UNCHANGED <<sock, netVars, reads, writes, queue, calls, clean, accepted, wired>>

\* OnEvent_Sended has returned: do_send, on the socket there is now.
AfterSended ==
  /\ Goto("sended", "idle") /\ do_send(queue)
  /\ UNCHANGED <<sock, netVars, reads, calls, clean, accepted, wired>>

\* OnEvent_Close has returned: Close(_error), of the socket there is now.
AfterClosing ==
  /\ Goto("closing", "idle") /\ CloseSocket
  /\ UNCHANGED <<netVars, calls, clean, accepted, wired>>

-----------------------------------------------------------------------------
(* The peer and the network.                                                *)

PeerResets ==
  /\ sock /\ net = "up" /\ net' = "reset"
  /\ UNCHANGED <<sock, connected, reads, sendVars, pc, calls, clean, accepted, wired>>

\* A read brings a message, or fails on a connection that was reset.
ReadEnds ==
  /\ reads["pending"] > 0
  /\ reads' = [reads EXCEPT !["pending"] = @ - 1, ![IF net = "up" THEN "ok" ELSE "err"] = @ + 1]
  /\ UNCHANGED <<sock, netVars, sendVars, pc, calls, clean, accepted, wired>>

WriteEnds ==
  /\ \E i \in DOMAIN writes :
       /\ writes[i].result = "pending"
       /\ writes' = [writes EXCEPT ![i].result = IF net = "up" THEN "ok" ELSE "err"]
       /\ wired' = IF net = "up" THEN Append(wired, writes[i].frame) ELSE wired
  /\ UNCHANGED <<sock, netVars, reads, queue, sending, pc, calls, clean, accepted>>

-----------------------------------------------------------------------------
Application == \/ ConnectSucceeds \/ ConnectRefused \/ ConnectUnresolved \/ AppCloses
               \/ \E f \in Frames : ASync_Send(f)
AfterCall   == AfterMessage \/ AfterSended \/ AfterClosing
Network     == PeerResets \/ ReadEnds \/ WriteEnds

Next == Application \/ Handler_Receive \/ WriteHandler \/ AfterCall \/ Network

\* The thread keeps running and takes ready handlers first come first served; callbacks return; a
\* write, and a read on a connection that was reset, end.  Nothing else need happen.
Fairness ==
  /\ WF_vars(AfterCall) /\ SF_vars(Handler_Receive) /\ SF_vars(WriteHandler)
  /\ WF_vars(WriteEnds) /\ WF_vars(net = "reset" /\ ReadEnds)

Spec     == Init /\ [][Next]_vars
FairSpec == Spec /\ Fairness

-----------------------------------------------------------------------------
(* Properties.                                                              *)

\* A session without a socket, as it always is when m_bConnected is FALSE, has nothing pending or
\* queued and is ready to send when it connects again, whoever closed it and in which callback.
ClosedIsQuiet ==
  /\ ~connected => ~sock
  /\ ~sock => /\ queue = <<>> /\ ~sending /\ reads["pending"] = 0
              /\ \A i \in DOMAIN writes : writes[i].result # "pending"

\* On a connection made when nothing of an earlier one was outstanding, there is one read loop: it
\* has neither stopped nor doubled.
OneReader ==
  clean /\ sock =>
    LET outstanding == reads["pending"] + reads["ok"] + reads["err"] IN
    outstanding = 1 \/ (outstanding = 0 /\ pc \in {"message", "closing"})

\* The frame the socket is writing, as a sequence of at most one.
InFlight ==
  IF writes # <<>> /\ writes[1].result = "pending" THEN <<writes[1].frame>> ELSE <<>>

\* On such a connection there is at most one write, nothing of an earlier one is sent, and no frame
\* of its own is lost, repeated or overtaken while it is up.
Conservation ==
  clean /\ sock /\ net = "up" =>
    Len(writes) <= 1 /\ accepted = wired \o InFlight \o queue

\* Even when Reconnect leaves handlers behind: a queued frame is handed to the socket or its
\* connection ends.
FramesWritten == \A f \in Frames : Contains(queue, f) ~> ~Contains(queue, f)

\* A connection the peer reset is closed, or replaced.
ResetCloses == (sock /\ net = "reset") ~> (~sock \/ net = "up")
=============================================================================
