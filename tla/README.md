# Rigitaeda in TLA+

Rigitaeda is a C++ framework for TCP servers and clients on Boost.Asio: a server accepts
connections, makes a session object of each, decodes the incoming stream into messages with a
pluggable codec, and hands the messages to the application, which answers with `ASync_Send`.
This directory holds a model of it, the TLC configurations that check the model, and proofs
that TLAPS checks.

## The system

| component | source | state | operations |
|---|---|---|---|
| Session | `src/Rigi_TCPSession.cpp` | socket pointer, send queue, `m_bSending`, `m_send_mutex`, outstanding read and write, pool pointer, dispatcher | `ASync_Send`, `do_send`, `Sync_Send`, `Async_Receive`, `Handler_Receive`, `Handler_Send`, `Close` |
| Session pool | `src/Rigi_SessionPool.cpp` | map of sessions, limit, `m_mutex` | `Add_Session`, `Close_Session`, `Clear` |
| Server manager | `include/Rigi_TCPServerMgr.hpp` | acceptor, io_context, thread pool | `AsyncAccept`, `Handle_accept`, `Run`, `Stop` |
| Server | `src/Rigi_Server.cpp`, `include/Rigi_Server.hpp` | the manager it made itself | `Run` (two forms), `Stop`, destructor |
| Client | `include/Rigi_ClientTCP.hpp` | a session that makes its own socket, `m_bConnected` | `Connect`, `Reconnect`, `Close`, and the session's |
| Codecs | `include/Rigi_Codec*.hpp` | a buffer, parser state | `decode`, `encode`: Delimiter, LengthPrefix, FixedSize, RESP, HTTP/1.1, MQTT, Syslog |
| Wrappers | `Rigi_EventHandler`, `Rigi_Def`, `Rigi_Header` | none | type aliases |

**Threads.** One thread runs `io_context.run()` and with it every completion handler: accept,
read, write. If `Set_ThreadPool` was called, each decoded message is posted as a task to a
`thread_pool`, whose workers call `OnMessage`; otherwise the io thread calls it. A control
thread calls `Stop`. `ASync_Send` and `Close` may be called from any of them.

**Interaction.** The manager's `Handle_accept` makes a session and gives it to the pool. The
pool calls the session (`OnEvent_Init`, `Async_Receive`, `Close`) and a session calls the pool
(`Close_Session`, which deletes the session) from `Close`. Completion handlers and tasks hold a
raw `this`. The codec is called by the session's read handler on the io thread and by
`ASync_Send` on the sender's thread.

**What is hard.** `m_send_mutex` protects the queue and the flag, not the socket pointer. A
session is deleted by whoever closes it, while handlers and tasks that point to it are queued.
The pool's mutex is held while the application is called. `Stop` does not wait for the io
thread. The full list, each with its line, is under `hazards` in `PROJECT.json`.

**What makes each part correct.** Session: frames go out one at a time, in order, none lost
while the connection lives; it keeps reading until it closes; nothing deleted is used. Pool:
its map holds exactly the live sessions, at most the limit, and closed ones leave it. Manager:
it keeps accepting until stopped, and stopping ends. Server: what runs can be stopped. Client:
a new connection is not disturbed by the old one. Codecs: the messages depend on the bytes and
not on how reads cut them, and decoding undoes encoding.

## Modules

| module | models |
|---|---|
| `FrameChannel` | what `ASync_Send` promises, without threads: accepted frames are pending, then transmitted in order, until the connection breaks |
| `TCPSession` | one session on one connection: io thread, workers, network |
| `TCPSession_proofs` | the send path and its refinement of `FrameChannel`, the receive loop and the pointers, eight theorems |
| `ConnectionPool` | what a `Rigi_SessionPool` promises the manager, without sockets, threads or a mutex: how far each session is, and that the pool is cleared once |
| `TCPServerMgr` | a manager under a `Rigi_Server`: `Run`, accept loop, pool, thread pool and `Stop`, many sessions |
| `TCPServerMgr_proofs` | its inductive invariant and the refinement of `ConnectionPool`, eight theorems |
| `ClientTCP` | a client over successive connections |
| `ClientTCP_proofs` | its inductive invariant, five theorems |
| `MessageChannel` | what a codec promises both ends: the messages come out as they went in, in order, each once, and all of them |
| `CodecStream` | the setting of every codec: a sender, a TCP stream cut anywhere, a buffer, the loop in `decode`, and the properties all codecs share |
| `CodecStream_proofs` | what any codec can count on and has to show: lemmas about cuts of the stream, induction and recursion over the numbers, numerals |
| `DelimiterCodec`, `LengthPrefixCodec`, `FixedSizeCodec` | the codecs of `Rigi_Codec.hpp` |
| `Numerals` | the quotients whose last digits a numeral is made of |
| `DelimiterCodec_proofs`, `FixedSizeCodec_proofs`, `LengthPrefixCodec_proofs` | two theorems each |
| `CrlfText`, `RESPCodec`, `HTTP1Codec` | the text protocols, with the encoders before and the parsers behind them |
| `MQTTCodec` | the packet builders, the codec, `Packet::parse` |
| `SyslogCodec` | both framings and the detection of them |
| `SyslogCodec_proofs` | three theorems |
| `SyslogText` | the text of a Syslog message: `parse` and `encode` |
| `MCTCPSession`, `MCCodecs` | instances for TLC (`TCPServerMgr` and `ClientTCP` need none); `MCCodecs` composes all codecs, a behaviour picks one |

### TCPSession

The grain is one step per access that another thread can come between. `pc[t]` says where
thread `t` is, `ret[t]` where the function it is in returns to. `ASync_Send` is two steps
(`ASync_Send`: the unlocked null test; `Push`: under the lock) and, when it starts a write, a
third (`StartWrite`: the use of `*m_pSocket`, after which the mutex is released). The
completion handler of `async_write` starts with `RunWriteHandler` and ends with `Resume`
(success: `do_send`) or `WriteError` (clear, then `Close`). `OnEvent_Sended`, which the
application may override, runs before `Resume` and may send. `Close` is six steps: null test,
`close()`, `delete`, null, drain under the lock, and `Close_Session`, which deletes a session
that has a pool. `Handler_Receive` is `RunReadHandler`, one `Emit` per message, `Rearm`
(`BufferClear` and the null test of `Async_Receive`) and `Arm`. `OnMessage` is the label
`"app"`: it may send, send synchronously, close, and return. It is assumed to follow the
documented pattern that `Close()` is its last call.

The socket object is `"up"`, `"reset"` by the peer, `"shut"` after `close()`, or `"gone"`.
Closing it aborts the outstanding operations, whose handlers then run with an error. A frame is
an element of a set and is written by one network step; bytes, and `encode`, are left out.
Reading yields a number of messages; the codecs are left out.

Using a deleted socket or session is undefined behaviour. The model sets `ub` there and stops:
each safety property is claimed up to that point and `NoUndefined` says it is not reached.

### TCPServerMgr

A session object is reduced to its memory (`mem`), its socket (`sock`), its two pointers and
its outstanding `read` and `write`. `Run` is `RunRestart` or `RunRefused` (the manager's own
`OnEvent_Init`), `RunOpen`, `RunListen` (bind, listen and the first `AsyncAccept`) or `RunThrows`,
and `RunReturns`; in between the thread runs handlers. `Handle_accept` allocates a session;
`AddFull` and `AddInsert` are the two branches of `Add_Session` under the mutex; `InitAccepts`,
`InitRefuses` and `InitCloses` are what the application's `OnEvent_Init` may do, while the mutex
is held, and `HandlerThrows` is an exception from it or from `OnEvent_Accept_Session`; `Accepted`
calls `AsyncAccept` again. `RejectSession` is the branch in which `Add_Session` returned false,
`FreeSocket` the `delete _pSocket` it shares with the catch. `Stop` is four steps: `StopAcceptor`,
`StopContext` (which does not wait for a running handler), `Clear` and `Join`.

`Handler_Receive` posts `OnMessage` as a task, which `TakeTask` gives to a worker, or, without
workers, calls it: the io thread is then at the label `"app"` with `decoding` set, and `Decoded` is
what `Handler_Receive` does once `decode` is back, on the session that `OnMessage` may have closed.
`OnMessageCloses` is the `Close()` it may end with, on either thread: one step up to
`Close_Session`, which waits for the mutex and deletes. `ASync_Send` in `OnEvent_Init`,
`OnEvent_Accept_Session` or `OnMessage` is one step and starts a write; `WriteEnds` is the network,
`Handler_Write` the completion handler, which captured `this` and goes on to `do_send` or, on an
error, to `Close`. The queue and the steps inside are `TCPSession`'s.

`owner` is whose manager it is, and so what its threads may do: the application's with a thread
pool (`"pooled"`), the application's without one (`"inline"`), or the server's own (`"own"`), whose
sessions are plain and whose handlers do nothing. `Rigi_Server::Stop` stops and destroys the
server's own. For a manager of the application it is `StopIgnored`; the application calls the
manager's `Stop` and destroys it once `Run` has returned. Either way the destructor calls `Stop`
again, whose `cancel()` throws on the closed acceptor: `DestroyManager` ends the program.
`StopAcceptor` is enabled only while the acceptor is open: a `Stop` that comes earlier throws and
has done nothing, as if it had not been called.

### ClientTCP

One thread runs the handlers and, between and inside them, the application's calls. A completion
handler holds the session, not the socket it was started for. So the outstanding reads are a
number for each result and the writes a sequence, across connections: deleting the socket makes
them end with an error, and their handlers act on whatever socket there is when they run. `pc`
is the callback the thread is in; `AfterMessage`, `AfterSended` and `AfterClosing` are the rest
of the handler behind it. `connect` succeeds, fails or cannot resolve the name. `clean` records
that a connection was made with no handler outstanding or running: this is what `OneReader` and
`Conservation` need, and a client can have it by reconnecting only after the handlers of the old
connection have run.

### The codecs

`CodecStream` has the sender's end (`SendFrame`: what `encode` made goes onto the wire), the
reads (`Read(n)`: any non-empty part of what is on the wire goes to `decode`, which appends it to
its buffer) and what an iteration of the loop in `decode` ends with: `Emit`, `Skip` (erase
without emitting) or `Return`. A codec's module adds `encode` and its iterations, one step each.
The session calls `decode` again only after it returned, so nothing is read meanwhile; the sender
may write. `ends` records where in the stream each message ends, which is what `Prompt` and
`ConsumesOneValue` compare with.

Delimiter, LengthPrefix, FixedSize and MQTT work on bytes, with fewer values a byte than 256
(`Base`, `Half`), so that short messages reach every digit of a length and payloads look like
headers. RESP and HTTP/1.1 work on symbols: a byte that matters to the parser, or a word it reads
as a whole, such as a number or a header field (`CrlfText` says why cuts inside a word may be left
out). Syslog's symbols are characters with digits of radix 2 or 4. The application sees what the
parser makes of an emitted message; so `Implements` is also the round trip through builder and
parser. For MQTT that is what the accessors of `Packet` return for the type (`Accessors`); the
payload of a CONNECT or SUBSCRIBE has no accessor here, and only the framing of it is checked.
For HTTP/1.1 it includes `keep_alive`. For Syslog `SyslogText` is `parse` on the lines a device
sends, which `FieldsReadBack` compares with the fields the device put into them.

What a constructor or builder takes for granted is in the module's `...Assumption`: a delimiter
that is not empty and cannot begin inside a message, a header and a size above zero, lengths that
fit in the header and do not wrap when the header is added, MQTT strings below 65536 bytes,
Syslog ends that agree on the framing. The code checks none of these.

## Runs

| run | instance | shows |
|---|---|---|
| `session_inline` | no pool, `OnMessage` on the io thread, it may close and send synchronously; 3 frames, 3 messages, up to 2 per read | safety, liveness, and the refinement of `FrameChannel` with its fairness |
| `session_workers` | pool, two workers, 3 frames, 2 messages | the inductive invariant and the refinement's safety with three threads |
| `session_closing` | pool, io thread only | **violation** of `NoUndefined`: a failed read deletes the session under an aborted write |
| `session_senders` | one worker that sends | **violation** of `NoUndefined`: the socket is deleted between test and use |
| `session_messages` | two workers | **violation** of `NoConcurrentOnMessage` |
| `server` | all three kinds of manager, every outcome of bind, accept and the application's handlers, which may close and send, limit 1, 3 connections, one worker, `Stop` of manager or server at any time | up to the first undefined behaviour the map and the objects agree (`PoolExact`, `NoneForgotten`) and nothing is pending for a closed or deleted session (`PendingIsLive`); accepting goes on, ended connections leave the pool, `Stop` and `Run` end; the manager implements `ConnectionPool` |
| `server_refuse` | limit 1, 3 connections | **violation** of `NoUndefined`: the refused socket is deleted twice |
| `server_limit` | limit 1, 3 connections | **violation** of `AtMostMaxClient`: the pool admits one session more than the limit |
| `client` | two frames, three connects, calls in every callback | a closed client is ready to connect again (`ClosedIsQuiet`), a clean connection has one read loop and loses no frame (`OneReader`, `Conservation`), and always queued frames and reset connections go away (`FramesWritten`, `ResetCloses`) |
| `codecs` | ten codecs and framings, two to five messages deep | `Implements`: every codec over every cut of every stream implements `MessageChannel`, liveness included; `Prompt`, `ConsumesOneValue`, `AnswersInKind`, `FieldsReadBack` |
| `codec_commands` | RESP, arrays of one and two bulk strings | **violation** of `ConsumesOneValue`: array offsets are added twice |
| `codec_responses` | HTTP/1.1, a response from `serialize` | **violation** of `InOrder`: the last header field is not read, so the body is lost |

Each violation contradicts a sentence of the documentation or a comment in the code, quoted
under `findings` in `PROJECT.json`. `PROJECT.json` also names, for each property of a passing
run, a mutated form of a definition that TLC finds violating it; these operators stand before
the definition they vary.

**Bounds.** `Frames`: each is sent once; three are enough for one in flight, one queued and one
being pushed. `MaxEmit`, `MaxMsgs`: two messages of one read, and a third of a later one, give
the loop over messages, the re-arm and two tasks at once. Two workers and the io thread give
every pair of threads. `Sessions`: one object per connection; three exceed a limit of one by
two, which takes the refusing branch, and one session can be in the map, one on its way out and
one on its way in. `MaxTasks`: one task waiting behind one in a worker, two in the session's runs.
`MaxWrites`: one session has a write
outstanding at a time, beside the reads of all. In `server`, `AppSends` is the manager without
workers, where the handler of `OnMessage`, the read and the write meet on one thread, and
`AcceptErrors` the server's own: with every choice for every manager the run would not end in
time. Sends by workers are what `session_workers` and `session_senders` are about, and the theorems
about `TCPServerMgr` hold for any setting. `MaxConnects`: a connection, one that may be disturbed by it, and one more. `MaxStream` (an own one for
each codec): symbols sent; enough for a message of every kind followed by others, for every
number of length bytes, and for payloads that hold the delimiter's bytes, line ends or what looks
like a header. A behaviour ends when the
frames, messages or session objects are used up or after undefined behaviour, so the runs do
not check deadlock; that threads do not wait for each other for ever is what `FramesWritten`,
`ResetCloses`, `Released` and `StopEnds` say; that a codec does not get stuck is what
`Implements` says.

**Fairness.** Each thread keeps running (weak fairness of its steps). The io_context runs
ready handlers in the order they became ready, so a ready handler is not overtaken for ever by
others (strong fairness of `RunWriteHandler`, `RunReadHandler`, `Handler_Receive`). `OnMessage`
returns. A write on a live connection completes, the peer reading what it is sent, and an
operation on a reset connection fails. Data, end of file, connections and `Stop` need not come; a
`Stop` that has begun goes on, as a thread does. For
a codec: its loop goes on, and what was sent is read, the session re-arming its read (`Listening`).

## Proofs

**Session.** Of `TCPSession`, for any sets of workers and frames, any bounds and every mode, from
the assumptions that the threads and `None` differ and that the bounds are numbers and the modes
Boolean:

* `TypeCorrect`: `Spec => []TypeOK`
* `OneWriter`: `Spec => []SingleWriter`
* `NoLostWakeup`: `Spec => []NoStrandedFrame`
* `SafeChannel`: `Spec => ImplementsSafely`, the refinement of `FrameChannel`'s safety part
* `FramesConserved`: `Spec => []Conservation`
* `Invariance`: `Spec => []IInv`
* `AlwaysListening`: `Spec => []Listening`
* `OneThreadIsSafe`: `Spec => []NoUndefined` if there are no workers and no pool

None of the safety invariants is inductive alone. `SendInv` strengthens them with one idea,
the *token*: an outstanding write, the mutex holder about to start one, or a completion handler
on its way to `do_send`. `TokenInv` says there is at most one. `SendingInv` ties `m_bSending`
to it: it is set while a token exists, unless the socket pointer is null for good, and while the
pointer is set only if one exists. This is why the flag, which `Close` and the error branch
reset without looking, never lets a second write start: the error branch gives up the token in
the same step, and `Close` resets the flag only after it nulled the pointer (`SocketInv`), after
which `do_send` starts nothing. `ControlInv` says what each thread holds at each label. The
proof has one lemma per action of the send path and of `Close`; the actions that touch neither
share `QuietStep`.

`SafeChannel` maps `up` to "connected, no undefined behaviour yet" and `pending` to the frame on
its way followed by the queue. Each action is shown to be `Accept`, `Transmit`, `Break` or a
stutter. `FramesConserved` is an invariant of the channel's steps and is carried over.

`Listening` is inductive with `SendInv`: what a worker does to the io thread's place in the loop
is nothing, and what it does to the socket ends the claim. `OneThreadIsSafe` adds `PointerInv`:
wherever the one thread uses `m_pSocket` it is set, and it points to a deleted socket only between
the `delete` in `Close` and the assignment behind it. The violations of `NoUndefined` show that neither condition
can be dropped.

**Server.** Of `TCPServerMgr`, for any workers, sessions, limit and outcomes of the application's
handlers, from the assumption that threads, sessions and `None` differ:

* `TypeCorrect`: `Spec => []TypeOK`
* `ExactPool`: `Spec => []PoolExact`
* `NobodyForgotten`: `Spec => []NoneForgotten`
* `NothingPendingOnDead`: `Spec => []PendingIsLive`
* `AcceptLoop`: `Spec => []KeepsAccepting`
* `EmptyAfterStop`: `Spec => []StopEmpties`
* `Invariance`: `Spec => []IInv`, the conjunction `server` checks
* `PoolRefined`: `Spec => ImplementsPool`, the refinement of `ConnectionPool`

The pool's promises rest on one fact: until `Add_Session` releases the mutex, only the io thread
knows the new session. `FreshInv` says it (no read, no task, no other thread's `cur`) of a session
up to its `OnEvent_Init`, `RejectInv` of one that was refused. From the insertion on the map, the
pointers and the threads on their way to `Close_Session` move together (`LinkInv`), which is why a
closed session is never forgotten and a live one never outside the map. `StopEmpties` needs
`StopInv`: after `io_context.stop()` no new `Handle_accept` starts, so only the one that was
running can insert behind `Clear`, and it finds the map empty.

`PendingIsLive` is about the two things that can go wrong with an operation. It must not be started
on a session that is closed: every place that starts one (`InitAccepts`, `Handler_Receive`,
`Decoded`, `Handler_Write`, `ASync_Send`) does so on a live session whose pointer is set, and by
`PointerInv` and `NoneForgotten` a pointer that is set and does not dangle is a live socket's. And
it must not outlive the socket: `Close`, `Clear` and the catch in `Handle_accept` delete it, which
aborts what is pending, and `Close_Session` and `RejectSession` delete a session only after that.
What it does not say is that the aborted handlers are harmless: they are not (below). Proving the
invariants corrected the model: `Clear` may delete a session that `OnEvent_Init` refused before
`RejectSession` does, which `RejectSession` then deletes again.

`PoolRefined` maps a session to its `Stage`, read off its memory, the map, its
socket pointer and the io thread's place in `Handle_accept`. With the invariant every step is
one of the pool's or a stutter: `Handle_accept` offers, `AddInsert` admits, `AddFull` refuses,
`RejectSession` discards what was refused, `Close` and `InitCloses` close, `Close_Session` lets the
session leave, `Clear` clears, whatever stage the members are in. The pool's guards say in order
what the invariants say of single states (its capacity is `MaxClient + 1`, as `server_limit`
shows): none is offered after `Clear` and one at most comes in behind it, none is refused while
there is room, none leaves that nobody closed. `server` checks it
too, and finds it broken when `Close_Session` erases a session without deleting it
(`Close_Session_NoDelete`).

**Client.** Of `ClientTCP`, for any frames and any number of connections, which need only be a
number:

* `TypeCorrect`: `Spec => []TypeOK`
* `QuietWhenClosed`: `Spec => []ClosedIsQuiet`
* `OneReadLoop`: `Spec => []OneReader`
* `FramesConserved`: `Spec => []Conservation`
* `Invariance`: `Spec => []IInv`, the conjunction `client` checks

`ClosedIsQuiet` is inductive with the types: whatever leaves the session without a socket goes
through `CloseSocket`, and without a socket nothing becomes pending. `OneReader` is not. `ReadLoop`
makes it exact by treating the read as a token, the outstanding read or the callback before the
next one: inside `OnMessage` nothing is outstanding, and between handlers one read is. `SendLoop`
does the same for the write, with `OnEvent_Sended` as the other holder, and ties `m_bSending` and
the queue to it; `Conservation` is inductive with it. One lemma per action; the actions of the
send path share `Sending`, those that close share `Closing`.

**Codecs.** For messages that are sequences of whatever symbols (`LengthPrefixCodec`: of bytes) and meet the codec's
`...Assumption`, and however long the stream: `DelimiterCodec` for any delimiter, `FixedSizeCodec`
for any size, `LengthPrefixCodec` for any base and header, `SyslogCodec` for any radix and either
framing, fixed or detected:

* `DelimiterPrompt`, `FixedPrompt`, `LengthPrompt`, `SyslogPrompt`: `Spec => []Prompt`
* `DelimiterChannel`, `FixedChannel`, `LengthChannel`, `SyslogChannel`:
  `Spec => ImplementsSafely /\ []InOrder`, the refinement of `MessageChannel`'s safety part
* `Answers`: `Spec => []AnswersInKind`, for `SyslogCodec`

The difficulty is that what the sender wrote is in three places, emitted, in the buffer and on the
wire, cut anywhere. `StreamInv` says that buffer and wire together are cut, at the ends of frames,
into whole frames of the sender (`Cutting`, one `Tile` each), that the message of each is the one
sent with that end, and that what was emitted is what lies before (`Emitted`). The proof that
this is kept is the same for every codec: a send adds a tile (`SendKeeps`), a read moves symbols
and no cut (`ReadKeeps`), erasing the first tile removes a cut (`ConsumeKeeps`), and `decode` may
return when the first tile is not whole in the buffer (`ReturnKeeps`). A codec has to show only
that what it finds at the front of its buffer is the first tile. For FixedSize that is its length;
for Delimiter that the first delimiter in the buffer, if any, is the first tile's
(`FirstDelimiter`): an earlier one would lie inside the tile, where `DelimiterAssumption` has none.

For LengthPrefix it is that the loop in `decode` reads back what the loop in `encode` wrote
(`ReadsBack`), by induction over the bytes of the header. `Induction` and `Recursion` (a function
defined by recursion over numbers exists) come from the well-foundedness of the numbers (`Least`),
so they need no operator for a parameter. `encode` divides (`Quotients`), `decode` multiplies and
adds; after `i` bytes it has what `encode` had left with `i` bytes still to write.

For Syslog the same holds of the digits before the space (`DigitsRead`), the first space is the one
behind them (`OctetFound`), and of a line the first line feed is its last symbol (`LineFound`).
Which of the two it is, `decode` decides by one byte, once: `FramingInv` says that what it decided
is what the client does, and that it has decided whenever it returned after reading anything.
`Detects` needs that a length does not begin with `0` (`DecimalDigits`) and a message not with a
digit. That `try_octet` never gives up its buffer follows (`SyslogReturns`).

**Left to TLC.** Liveness: `FramesWritten`, `ResetCloses`, `Released`, `StopEnds` and the fairness
part of `ImplementsChannel` and `Implements`. RESP, HTTP/1.1 and MQTT, with `ConsumesOneValue`, and
the text of a Syslog message, with `FieldsReadBack`: their parsers are recursions and folds over the
buffer, each of which would need an induction of its own.
`NoUndefined` of a session in any other mode is refuted by the runs named above.

The proofs about `TCPSession` rest on `m_pSocket` never being set again after `Close`, which is so for a server's
session and not for a client that reconnects: `ClientTCP` is a module of its own.

## Known to fail outside the checked claims

In the session of a server: see the violations above.

In `TCPServerMgr`, whose properties except these cases by name (`SelfLocked`, `Dangling`, `Ended`
and a failed accept) or are claimed only up to the undefined behaviour the case ends in:

* A failed accept does not start another: the server stays up and accepts nothing.
* `OnEvent_Init` that calls `Close()` locks the pool's mutex a second time (`SelfLocked`).
* `OnEvent_Init` that returns false deletes the session twice, a full pool the socket.
* A handler that throws leaves its session in the map with a deleted socket (`Dangling`), which
  the next read, `Close` or `Clear` uses.
* With a worker and `Stop`, the tasks that `join` waits for (the comment in `Stop` promises that
  they complete) use sessions `Clear` has deleted; without one, a session whose handler the io
  thread is in.
* After `Stop` the pool may hold one session, whose `Handle_accept` was running.
* Destroying a manager that was stopped terminates the program, so `Rigi_Server::Stop` with the
  server's own manager never comes back, and `Stop` before `Run` has opened the acceptor throws.
* `Rigi_Server::Stop` with an application's manager does nothing, so `Run` does not return, where
  `docs/03_getting_started.md` and `docs/06_threading_and_advanced.md` have the thread in `Run`
  joined after it: after `StopIgnored` the server goes on.
* A session deleted by `Close_Session` while the handler of an aborted write is queued, or while
  `Handler_Receive` is still in the `decode` whose `OnMessage` closed it: both use the session
  again, and need neither workers nor `Stop`.

In `ClientTCP`, when `Reconnect` is called on a live connection or inside `OnMessage`,
`OnEvent_Sended` or `OnEvent_Close`: the aborted read of the old connection closes the new one;
the rest of the old handler starts a second read loop or a second write beside one that is
outstanding; an aborted write clears the new queue. Dropping `clean` from `OneReader` or
`Conservation` shows it. `IsConnected` stays true after `Close` and after a failed resolve.

In the codecs: an HTTP/1.1 message with `trailers` violates `InOrder`, as `step_chunked` takes the
first CRLF behind the last chunk for the end. RESP arrays violate it whenever they violate
`ConsumesOneValue`. A Syslog peer with the other framing makes the octet parser drop its buffer
(`Clear`). `Rigi_Syslog_Message::encode` writes no timestamp, and `parse` takes the first 15
characters behind the priority for one whenever there are so many: of a longer message of its own
`parse` finds the wrong host, tag and text. Structured data that ends the line is taken for the
message. `FieldsReadBack` has neither among its lines.

## Not modelled, and the plan

Not modelled: allocation failure; partial writes and bytes in the session's model; `Get_SessionIP`
and the other look-ups of addresses; the setters; a receive buffer below two bytes; the Windows
and Linux headers; the event handler wrappers (stored and never called by the session). Of
`TCPServerMgr`, a second `Run` after `Stop`, which inherits the handlers of deleted sessions that
`io_context.stop()` left behind, and with them their undefined behaviour. Of `ClientTCP`, calls
from another thread than the handlers' (`m_pSocket` is set and tested without a lock, as
`session_senders` shows for a server's session), the destructor while handlers are outstanding,
and the codec's buffer, which `Reconnect` does not reset. In the codecs: HTTP method, URI and
reason phrases, case folding and trimming, the names of Syslog facilities, a `Close` inside
`emit` (which `TCPSession` and `TCPServerMgr` have), and `encode` on a worker while the io thread decodes (Syslog's `m_octet_mode` is shared
without a lock).

What is left is proof: `MQTTCodec`, whose remaining length is a numeral that is written and read
the other way round (last digit first), would be next, by the lemmas of `CodecStream_proofs`; and the
order of what `Stop` does as an action property of `TCPServerMgr`.
