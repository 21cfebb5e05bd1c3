# LiveBroadcast in TLA+

LiveBroadcast relays live video. A publisher (OBS) pushes RTMP to `main_server`
(port 1935); a viewer asks `client_server` (port 1936) for an HTTP-FLV stream
and gets every tag the publisher sends from then on. Everything runs on
`epoll` event loops: one accepting loop per server and two io threads each
(`main.cpp`).

This directory holds TLA+ modules translated from the C++ code, TLC
configurations that check them on small instances, and TLAPS proofs of the
properties that matter most for every instance. `PROJECT.json` maps each
definition to the lines it stands for, and lists runs, mutants, hazards,
findings and theorems.

## Inventory

| Component | State | Operations | Talks to | Hard part |
|---|---|---|---|---|
| Event loop (`EventLoop`, `Epoll`) | `looping_`, `active_channels_`, `pending_func_` under a mutex | `Loop`, `Stop`, `RunInLoop`, `HandleActiveChannel`, `HandlePendingFunc` | every connection; every thread through `RunInLoop` | functions handed over while a batch runs; `Stop()` before `Loop()` |
| Event loop thread (`EventLoopThread`, `Thread`, `Condition`) | `loop_`, mutex, condition, the thread | `Start`, `ThreadFunc`, destructor | the pool that owns it | hand-over of `loop_`, lost and spurious wake-ups, joining |
| Connection (`TcpConnection`, `Channel`) | `connection_status_`, `event_`, `ep_event_`, two buffers | `Established`, `OnReadable`, `OnWritable`, `OnClose`, `Send`, `SendInLoop`, `Shutdown` | its loop, its server, its callbacks | partial sends, several events in one round, event mask read after it went stale, peer that leaves |
| Relay (`RtmpServerConnection`, `RtmpClientConnection`, `main.cpp`) | path map, viewers of a publisher, cached header, last tag | handshake success, new tag, request of a viewer, end of a viewer | both servers' io threads | all of it is shared between threads without a lock |
| Handshake (`RtmpManager::ParseShakeHand`, `ShakeHand`) | `shake_hand_status_`, receive buffer, message callback | one message, authenticate, success, failure | authentication and success callbacks | messages cut and joined by TCP |
| Chunk parser (`RtmpManager::ParseData`, `RtmpCodec`) | `parsed_status_`, current pack, `read_chunk_size_` | first header, header, body | relay (`OnNewFlvTag`) | chunks cut by TCP |
| FLV codec (`FlvManager`, `FlvCodec`) | header tags, tag fields | encode header, encode tag | relay | sizes, shared tags |
| Buffer | read and write index, vector, running sums | append, consume, read, reset, swap | connections, parsers | index arithmetic, what is moved and when, a full buffer |
| TCP server (`TcpServer`, `Acceptor`, `EventLoopThreadPool`) | `connection_map_`, next loop | accept, `OnNewConnection`, `OnCloseConnection` | loops, connections | map shared by accepting and io threads; lifetime of connections |
| TCP client (`TcpClient`, `Connector`) | connection, status and channel of an attempt | connect, reconnect, disconnect | one loop | a channel destroyed by its own handler, descriptors passed on, a handshake that fails late |
| Thread pool (`ThreadPool`) | deque of tasks, threads, running flag | `Run`, `TakeATask`, `Stop` | nobody in the server | unlocked test, stop |
| MySQL (`DbMysql`, `UserMapper`) | connection, `inited_` | query, reconnect | commented out in `main.cpp` | failed reconnect |
| Logger, addresses, formats, time | none that others read | | | |

How they interact: `Acceptor` gives `TcpServer` a descriptor; `TcpServer` makes
a `TcpConnection` on the next io loop and queues its `Established`. The loop
calls `OnReadable`, which calls the message callback. For a publisher that is
first the handshake, then the chunk parser, which calls `OnNewFlvTag` for every
tag, which calls `Send` on every viewer. The viewers live on other threads, so
`Send` goes through the viewer's loop with `RunInLoop`. For a viewer the message
callback looks the path up and joins the viewer to the publisher, on the
viewer's thread.

What makes each part correct:

- loop: a function handed over runs exactly once, in order, and neither
  functions nor channels starve each other;
- loop thread: the pointer `Start()` returns is alive while it is used, and the
  thread is gone when the object is;
- connection: what the peer receives is what was sent, in order, each byte
  once; the end is reported once; a closed connection is not polled;
- relay: a viewer gets the header, then every tag in order; it gets one
  publisher's stream; once it has gone nothing of it is left or used;
- handshake: messages are told apart and answered in order, however TCP cuts
  them, and it ends;
- chunk parser: the tags are the messages, with the size, the time and the
  previous size they should have;
- buffer: a queue of bytes, whatever is moved or enlarged;
- client: each descriptor belongs to the attempt or to the connection, and
  neither is left behind.

## Modules

| Module | Models |
|---|---|
| `TaskQueue` | abstract: a FIFO queue of functions, what `RunInLoop` promises |
| `EventLoop` | `EventLoop.cpp`, `Epoll::LoopOnce`; implements `TaskQueue` |
| `EventLoopThread` | `EventLoopThread.cpp`; extends `EventLoop`, whose steps are those of its thread |
| `TcpConnection` | `TcpConnection.cpp`, `Channel.cpp`, `Epoll::UpdateChannel`, with kernel and peer |
| `ConnectionLife` | abstract: what a server promises of each connection |
| `TcpServer` | `TcpServer.cpp`, `Acceptor.cpp`, `EventLoopThreadPool.cpp`; implements `ConnectionLife` |
| `LiveRelay` | `main.cpp`, `RtmpServerConnection.cpp`, `RtmpClientConnection.cpp` after the handshake |
| `Handshake` | `RtmpManager::ParseShakeHand`, `ShakeHand`, `OnConnectionShakeHand`, with OBS |
| `RtmpChunk` | `RtmpManager::ParseData` and what it calls, with OBS |
| `ByteQueue` | abstract: what users of a `Buffer` rely on |
| `Buffer` | `Buffer.cpp`; implements `ByteQueue` |
| `TcpClient` | `TcpClient.cpp`, `Connector.cpp`, with the kernel and the peer |
| `EventLoopThreadProofs` (with those about `EventLoop`), `TcpConnectionProofs`, `TcpServerProofs`, `TcpClientProofs`, `LiveRelayProofs`, `HandshakeProofs`, `RtmpChunkProofs`, `BufferProofs` | theorems |
| `MC...` | constants for TLC; several configurations share one |

A definition preceded by a comment that begins with `Mutant:` is not part of the
model. It is the definition after it with a plausible mistake in it, and shows
that a property can tell the difference.

### EventLoop

`pc` is the place of the loop's thread in `Loop()`. `SwapPending` is the locked
section of `HandlePendingFunc`; `RunTask` and `BatchDone` are the loop over the
swapped-out vector, so `RunInLoop` of other threads, and of the handlers and
functions themselves, comes between any two of them. `LoopOnce` reports all
ready channels: the event vector of 50 entries is larger than the number of
channels in any instance. There is no wake-up descriptor in the code: a
function waits for the 20 ms timeout of `epoll_wait` at most, which is
`LoopOnce` with nothing ready. `ready` is the kernel's view, level triggered.

`done`, `posts` and `mark` are history. `ImplementsTaskQueue` maps the abstract
queue to `done \o batch \o pending_func_`: a swap or the end of a batch does
not change it, `RunInLoop` appends to it.

### EventLoopThread

The owner's steps are those of `Start()` and of the destructor, the thread's
those of `ThreadFunc()`. `cond_.Wait()` releases the mutex as it goes to sleep,
hence one step for the test and the sleep. The destructor may come at any moment
after `Start()`, also before the thread has entered `Loop()`, whose first
statement then overwrites what `Stop()` wrote. `DestroyTerminates` is therefore
about a `Stop()` that was not overwritten, `pc # "new" /\ ~looping_`; that the
destructor returns whenever it comes, `DestructorReturns`, is refuted by TLC.

### TcpConnection

Output units are numbered in the order in which `SendInLoop` accepts them.
`event_` is what the last round reported and `ep_event_` what the channel asked
for; `IsWriting()` tests the first one, as `Channel.cpp:149` does. One round of
the loop is `Poll`, the readable handler, the writable handler, the swap and
the batch, as `HandleEvent` and `Loop` order them. The callbacks of the user (the
connection callback of `Established`, the new-message callback) may send, shut
down or do neither, and the second may leave the receive buffer `full`, in which
case the next `read()` returns 0 and closes a connection whose peer is there.

`Outcomes` is what `send()` may do, `Room` the kernel's send buffer. A blocking
`send()` returns when everything has been taken; it comes back short or fails
only if something befalls it. `Strikes` chooses that beforehand: a shortage of
memory, which gives an errno that `SendInLoop` does not name
(`TcpConnection.cpp:254-266`: the data is buffered and "out" asked for) or a short
count, or a reset by the peer during the wait. Signals are not among it: the
program installs no handler. `write_complete_callback_` is set by no one in the
program and left out.

`CreateDefaultSocket` makes blocking sockets and `accept()` sets no flag, so
`non_blocking = FALSE` is the program as it is built. `non_blocking = TRUE` is
what the handlers' comments on `EWOULDBLOCK` are written for. The properties are
stated for both. A channel that was closed asks for no event (`ClosedNotPolled`),
though the `DisableWritable` of an `OnWritable` that follows, in the same round,
the `OnReadable` that closed the connection may register it again, with none.
`LoopReturns` has a premise: the peer reads what was sent to it again and again,
or resets. Without it a blocking `send()` keeps the thread for ever.

Two things that comments say are refuted by TLC, and stand at the end of the
module: after a short or failing send "out" is registered under a stale
`event_`, so that `Shutdown()` may close the write side over buffered data
(`WriteClosedAfterData`), and a send in the round whose `OnWritable` has just
drained the buffer still sees "out" in `event_`, so that it is buffered and nothing
asks for "out": it waits for the next send (`WaitingIsWatched`).

### TcpServer

Every loop has a position: the accepting loop's steps through
`Acceptor::OnReadable` and `OnNewConnection` up to the end of its local
`shared_ptr`, and all loops' steps through polling, `OnClose`,
`OnCloseConnection` and the queued `Established`. A connection lives while
something refers to it: the map, a queued `Established`, the handler that runs
(the guard of `HandleEventWithGuard`), the application. `Free` is what that
leaves of the descriptors; with none left `accept()` fails and its assertion
(the build does not define `NDEBUG`) ends the process. `keeps` tells the
two servers of `main.cpp` apart: `OnConnection` of `main_server` allocates an
`RtmpServerConnection` that holds the connection and is never freed, so
`LeftConnectionReleased` is stated for the other one, and is refuted without
that condition. Data, and an end for other reasons than the peer's close, are
in `TcpConnection`.

### LiveRelay

One action per access to state that two threads share. The publisher's
`OnNewFlvTag` is `MakeTagBuffer`, then `Advance` and `SendTag` for each entry; the
tags of the header (script, first audio, first video: `HeaderTags`) come one at a
time, and a joining viewer may encode them in between, one at a time as well.
A viewer's request is `RequestFound`, `Insert`, `CheckHeader`, `EncodeHeader`,
two `AppendHeader`, `SendHeader`, `MarkLastTag`, `SendFirstTag`. Its end is `Close`
(the status), `OnConnectionClose` (the publisher's map) and `OnCloseConnection`
(the server's map). `pending` is
the viewer's share of its loop's vector. A `Send` in it holds a plain `this`;
`Destroyed` says when that pointer dangles: the three steps are done and no
publisher's map holds the viewer. Undefined behaviour is a choice:
it sets `fault` and nothing happens any more, or it goes unnoticed.

What is simplified: single operations on `std::map`, on `shared_ptr` and on
`Buffer` are atomic; each connection has a thread of its own (exact for one
publisher and two viewers on pools of two); a tag's size is its number, so
that the PreviousTagSize of tag t is t - 1 until a joining viewer changes it.
The end of a publisher's connection changes nothing that is modelled: nothing
removes it from `rtmp_connection_map`. The tag a viewer is sent on joining may
come again or after its successor, as in 7, 6, 7: `NoTagLost` and
`FanOutInOrder` say what is true of the tags after it.

### Handshake

A message is `Pieces` units and its answer one element of `replies`. TCP
delivers any non-empty part of what is under way. The client sends the messages
`README.md:146-185` shows OBS sending: `patient`, it waits where the description
shows it waiting; otherwise it goes on without answers. `createStream` may come
with a full header or as the 26 bytes after `0xc3` that `RtmpManager.cpp:411-417`
skips. When that leaves the parser in the middle of a message, what it makes of
the bytes is nondeterministic.

A client that is refused may go on as well. `Shutdown()` closes the server's side
of the connection only: nothing is answered any more (`connected`), but what
comes is read and parsed, so that such a client is bound and its stream taken.
`RefusedNotBound` says otherwise, as `README.md:37` does, and is refuted by TLC.
`OnAuthenticate` of `main.cpp` returns true for everyone, so that nobody is refused
in the program as it is built. `SHAKE_FAILED` is left out: `ParseHeaderAndBody`
would have to see `DecodeHeader` return less than 0, which it never does
(`RtmpCodec.cpp:57-95`).

`CompletesOrSitsOnMessage` excludes a client that does not wait and uses the
`0xc3` form: with part of its createStream skipped, the rest makes the parser
take the stream for messages.

### RtmpChunk

Lengths are scaled: a chunk is a few units, each header format has its own
length, and the three and four bytes in which RTMP and FLV write numbers are
digits of a small base. `ParseData` of one read is a series of actions until
`pc` is "wait" again. `pack` keeps what a header leaves out, as
`current_rtmp_pack_` does; `EncodeTag` is what `EncodeHeaderToFlvTag` and
`ProcessNewFlvTag` write into a tag.

Assumed of the stream, as OBS sends it: the receive buffer is not larger than a
chunk, and `StartLength` is not shorter than the three first messages (about 400
bytes of 1000), whose timestamps are 0; a header of format 0, which carries the
time itself, comes only while that is 0 (`AddTimeStamp` adds it like a
difference); no message after the first header is empty; the first three
messages are a script, an audio and a video message with headers of format 0, so
that `ParseFirstHeader` does not meet its `return -1` (`RtmpManager.cpp:138-152`,
172-180, 204-220). There the code consumes what it has decoded, stays in its status
and tries again at whatever comes next: nothing could be said of the tags. A stream out of step
has no actions, and `TagsAreMessages` would fail before it came to that. Tags
carry three bytes of time, so their times wrap; `TagHeaders` compares them
modulo what three bytes hold.

`DeliveredByNextRead` leaves out the time before the first header has been
taken. `ParseFirstHeader` waits for `StartLength` units, and messages that follow
the first three may be complete among them; in the run the first header takes 2
units of the 8 waited for, so that this happens.

### Buffer

A record has the fields of the class, with the whole vector in `buffer_`. The
helpers are the member functions, on one record; an action is a call, with the
move, the growth and the write in the code's order. `read()` gives anything for
which there is room, or nothing. `WriteInPlace` is the caller that writes to
`WriteBegin()` and moves the index itself. `SizeT` is the range of the running
sums, which count modulo it. `MaxUnread` bounds what callers leave unread, not
the vector: how far that grows is `GrowsToFit`. `ImplementsByteQueue` maps the
queue to the unread bytes of each buffer. A negative index, which
`FlvManager::ReadDataFromFile` would add for an unreadable file, is left out.

### TcpClient

The loop is the one of `EventLoop`, reduced to its rounds; the functions queued
are all `Connector::Connect`. `sock` is the kernel's side of a descriptor:
"progress" is a handshake that a signal has interrupted (`EINTR`, which
`Connector::Connect` takes like success) and that may yet fail. A handler that
destroys channels and closes descriptors does so at its end, while what it opens
gets a descriptor before that, hence `closing`. What the connection transfers is
in `TcpConnection`. `DisConnect` and the destructor dereference a null pointer,
always (`TcpClient.cpp:54-58, 88-94`): `RemoveConnection` is given a reference to
the very pointer it resets. `TcpClient.h:43-45` calls it closing the connection.

`Patient` restricts the application to `Connect()` with nothing under way. With
`Patient = FALSE` TLC refutes `ChannelsLive`, `SocketsOwned`, `ToldOfBothEnds`
and `AttemptSettles`: a second attempt replaces the channel of the first while
`epoll` still holds it, and a second connection replaces the first without its
user being told.

`Connector.h:28-31` and `Connector.cpp:97-99` say that the writable event verifies
that the connection is established. `HandleWrite` does not ask for `SO_ERROR`: a
handshake that "failed" after the interruption is handed over as a connection, and
closed after that. `HandedOverEstablished` says what the comments do and is
refuted; `AttemptSettles` says what holds either way: an attempt becomes the
connection or its descriptor is closed, and one that failed or ended does not keep
its descriptor. Other remarks: `SetReConnect(false)` sets `retry_` to true
(`TcpClient.cpp:60-63`); a refused attempt is logged as a retry and not retried
(`Connector.cpp:79-91`).

## Runs

| Run | Instance | Shows |
|---|---|---|
| `MCEventLoopThread` | owner, 2 threads and the loop's own handlers, 2 channels, 3 functions | live pointer, no lost wake-up, queue refinement, bounded rounds, no starvation, `Start()` returns, and the destructor unless its `Stop()` was overwritten |
| `MCLiveRelay` | 1 publisher, 2 viewers, 3 header tags, 2 tags | header first, no tag lost, order, viewer forgotten |
| `MCLiveRelayLive` | 1 publisher, 2 viewers, 1 header tag, 2 tags | tags arrive, whatever the other viewer does |
| `MCTcpConnection` | blocking and non-blocking, 3 sends of 1 or 2 units, room for 2, 2 messages | order, one close, no event asked for after it; handlers return to a peer that reads or goes |
| `MCTcpServer` | no or 2 io threads, 3 connections, 2 addresses, 2 descriptors, applications that keep connections or not | life cycle refinement, no dangling channel, round robin, descriptors come back |
| `MCHandshake` | messages of 3 units, both forms of createStream, both results of authentication, a client that waits and one that does not | in step, answers in order, data only when bound, end |
| `MCRtmpChunk` | 3 messages of up to 3 chunks, four header formats, times that wrap | tags are messages, with their header fields; buffer never full; delivery |
| `MCBuffer` | 2 buffers, 2 byte values, rooms from 1 byte, at most 2 unread | byte queue refinement, bounded growth |
| `MCTcpClient` | 3 calls of `Connect()`, reconnecting or not, 3 descriptors | channels alive, descriptors owned, both ends reported, attempts settle |
| `MCNoUseAfterDestruction` | 1 publisher, 1 viewer | refuted: a queued `Send` outlives its connection |
| `MCJoinIsSafeOnceBound` | 1 publisher, 1 viewer | refuted: joining before the first tag uses a null pointer |
| `MCHandshakeStalls` | full createStream | refuted: messages behind releaseStream in one read are left lying, and the client waits |

`TypeOK` is an invariant of two runs; of the other modules it is a theorem
that no run repeats.

Why the bounds are enough: a wrong order needs two tasks, units or tags, a loss
or a repetition shows with a third; all races of the relay are between one
publisher and one viewer or between two viewers of one publisher (a takeover,
which needs two publishers, is left to the proof). Liveness is checked with one
tag in the header: how many there are makes no difference to a fan-out. Three
connections on two addresses and two descriptors reuse an address and a descriptor
and run out of both. Three units a message give a first, a middle and a last part. The chunk sizes are below, at
and above one and two chunks; 14 + 14 exceeds three digits of base 3, so that
times wrap, and three messages let a header leave out what the one before had
and that had left out itself. Two unread bytes in a vector that begins with room
for one make every append move, enlarge or both. Three connects give an attempt
that fails, one that comes up and its successor, beside the reconnects, which
are not bounded. Every bound on a counter (`MaxPosts`, `MaxSends`, `MaxInputs`,
`MaxTag`, `MaxRequests`, `MaxMessages`, `MaxConnections`, `MaxConnects`,
`MaxUnread`) only stops callers from calling; `MaxThreads` is the largest
number of io threads a server is configured with. Two requests on one viewing
connection are outside of the runs (one client sends one), but not of the
theorems about `LiveRelay`.

Deadlock checking is off: with their inputs used up the systems stop, and a
connection, an object or the process may end. The liveness properties say what
must not stop.

`MCLiveRelay` declares its two viewers symmetric; no property of that run is a
liveness property.

### Fairness

`EventLoop`: weak fairness of the loop's thread, which the operating system
schedules, and strong fairness of `LoopOnce`, since signals do not interrupt
each and every wait. Nothing is assumed of threads that hand functions over,
of channels or of `Stop`. `EventLoopThread`: both threads are scheduled;
nothing of spurious wake-ups, and the owner need not destroy the object.
`TcpConnection`: the loop's thread; nothing of the peer, who may never read
(`LoopReturns` has a premise instead).
`TcpServer`: every thread; nothing of the clients.
`TcpClient`: the loop's thread is scheduled and a handshake ends one way or the
other (the kernel gives up in the end); nothing of the application and the peer.
`LiveRelay`: only that `OnNewFlvTag` finishes, for a `Send` from another thread
hands the data over and does not block. A viewer's own sends block, so that its
thread may stand still; `TagReachesViewer` says of the viewer it is about, and of
no other, that it gets on (`GetsOn`), as a premise. `Handshake`: the client goes on
when it has its answer, or without, and TCP delivers.

### What the runs found

Three runs are expected to fail, each with a finding in `PROJECT.json`. More of
what comments and documentation say is stated in `LiveRelay` (`IterationIsSafe`,
`HeaderSentOnce`, `HeaderHasMetadata`, `FirstTagFollowsHeader`,
`PreviousTagSizes`), `TcpConnection` (`WriteClosedAfterData`,
`WaitingIsWatched`), `Handshake` (`RefusedNotBound`), `TcpClient`
(`HandedOverEstablished`), `EventLoopThread` (`DestructorReturns`) and `RtmpChunk`
(`EveryMessageParsed`), and refuted by TLC when one is given as the only property
of the respective configuration (the last two with `FairSpec`).

`DestructorReturns` fails because `Loop()` sets `looping_` as its first
statement, after `Start()` has returned the loop, so that a `Stop()` in between
is overwritten (`EventLoop.cpp:29`) and the destructor waits for ever; the
`sleep(2)` of `test/EventLoopThread/EventLoopThreadTest.cpp:27` hides it.

Conditions that are needed: `TcpClient` without `Patient` is described above.
`LoopReturns` of `TcpConnection` is refuted without its premise,
`TagReachesViewer` without `GetsOn`, `LeftConnectionReleased` of `TcpServer` for
`main_server`, `InStep` of `Handshake` without its exception for the `0xc3`
form, and `ClosedViewerForgotten` without `requests[v] <= 1`, by a viewer that
asks two publishers on one connection: its close callback knows the second one
only. None of these is a run.

## Proofs

| Theorem | Module | For every |
|---|---|---|
| `LoopTypeCorrect`, `RoundBounded`, `LoopImplementsTaskQueue` | `EventLoopThreadProofs` | set of threads and channels, number of functions |
| `ThreadTypeCorrect`, `ThreadRoundBounded`, `ThreadImplementsTaskQueue` | `EventLoopThreadProofs` | the same, with the owner's steps between them |
| `OwnerLoopLives`, `ThreadEndsFirst` | `EventLoopThreadProofs` | the same; also a destructor that comes before the loop has begun |
| `ConnectionTypeCorrect`, `StreamStaysInOrder`, `ClosesOnce`, `ClosedStaysUnpolled` | `TcpConnectionProofs` | lengths and number of sends, room of the kernel, inputs, kind of descriptor |
| `ServerTypeCorrect`, `WatchedStayAlive`, `ServerImplementsConnectionLife`, `ThreadsShareConnections` | `TcpServerProofs` | number of threads, connections, addresses and descriptors |
| `ClientTypeCorrect` | `TcpClientProofs` | set of descriptors, number of calls, application |
| `ClientChannelsLive`, `ClientSocketsOwned`, `ClientTellsBothEnds` | `TcpClientProofs` | the same, for a patient application |
| `RelayTypeCorrect`, `HeaderComesFirst`, `ViewersHaveOneSource`, `ClosedViewersForgotten`, `FanOutStaysInOrder`, `NoTagIsLost` | `LiveRelayProofs` | set of publishers, viewers and paths, number of tags and requests |
| `HandshakeTypeCorrect`, `HandshakeStaysInStep`, `RepliesStayInOrder`, `BodyComesOnceBound` | `HandshakeProofs` | size of a message, cut into reads, form of createStream, answer of authentication, waiting or not |
| `ChunkTypeCorrect`, `TagsAreTheMessages`, `TagHeadersCorrect`, `ReadAlwaysHasRoom`, `DeliveryByNextRead` | `RtmpChunkProofs` | length of chunks, headers, messages and of the buffer, base of numbers, cut into reads, number of messages |
| `BufferTypeCorrect`, `BufferImplementsByteQueue`, `BufferGrowsToFit`, `SumsAlwaysAgree` | `BufferProofs` | set of buffers and bytes, free front, room at the start, width of the sums |

Assumptions: the named `ASSUME` of each module, which TLC evaluates in the runs,
and `Patient` where the table says so; fairness is not needed.

### Event loop

`RoundBounded`. `Len(done) <= mark` is not inductive: it does not say how many
functions a batch holds. `RoundInv` says that the functions run and those in
the batch are `mark` in number, that `posts` exceeds it by those pending, and
that outside of `HandlePendingFunc` the batch is empty. A swap sets `mark`
to `posts` just as it moves all of `pending_func_` into the batch; nothing else
adds to the batch.

`LoopImplementsTaskQueue`. `Handed` is the refined variable. `HandedStep` shows,
action by action, that it is unchanged or grows by one function at its end; the
lemmas before it (`AppendToConcat`, `MoveHead`, `ElementAfter`) do the reasoning
about concatenation. `Run` of `TaskQueue` needs the type invariant.

`ThreadRunsLoop` shows that every step of the owner and of the thread is a step
of the loop or leaves it alone (`StepOfLoop`), so that `Spec` of
`EventLoopThread` implies `LoopSpec` and the three theorems above carry over. For
the lifetime of the loop `LifeInv` adds what the owner's position says of the
thread's: the pointer is set just while the thread runs the loop; an owner in
`Start()` has a thread that is created or running, and one that holds the
pointer a thread that runs; and until the owner has asked it to stop the loop
has not begun or goes on, so that the thread cannot leave it.

### TcpConnection

One invariant, `Inv`, carries all four theorems. Until `Established` has run it
is the only function queued and the descriptor is not watched (`Unborn`);
afterwards the queue holds `Send`s only (`Born`). `OnClose` therefore cannot
come before `Established` or be undone by it. In the round that closed a
connection nothing readable is left to handle (`NoInputOnceClosed`), so that it
closes once; nothing is enabled after that, for `SendInLoop` gives up, and
`OnWritable` only takes "out" away, hence `ClosedNotPolled` on either kind of
descriptor. After a fatal error `SendInLoop` gives up as well
(`GivenUpOnceFailed`), so that no unit follows one that was dropped.
`OutcomeFits` and `UnitsMove` say what `send()` takes, and that the units it takes
move from the buffer to the wire; the step is proved once for the data
(`StreamStep`) and once for status and channel (`LifeStep`).

### TcpServer

`Inv` follows a connection through what refers to it. It is established once, on
the loop it was given to (`EstablishedOnce`: no loop has it queued twice, and
one that waits is "connecting" and in the map); it is watched just while it is
connected; from `AddConnection` until it has ended the map holds it under its
name (`Rooted`, `MapNames`), which no other connection has (`NamesUnique`: the
number in it is never used again, whoever comes back from the same address); and
a handler holds on to the one it closes (`Guarded`). Hence a watched channel is
in the map, and alive.

For `ServerImplementsConnectionLife` the refined state of a connection is its
`Stage`: its status until it has ended, then whether the map, a handler or the
application still keeps it (`Kept`). `ReferencedIsKept` shows that queued
functions need not be counted, `LifeStep` that every action moves each
connection by at most one stage.

`LoadBalanced` says that two threads differ by one at most, which does not tell
whose turn it is. `InTurn` says that the threads up to `next_thread_id_` have
one connection more than the rest.

### TcpClient

The types hold for any application. The other theorems are about an
application that calls `Connect()` with nothing under way (`Patient`), as
TLC refutes the properties for one that does not. Under it there is one of a
queued call, an attempt and a connection (`OneAtATime`); what epoll holds of a
descriptor is the channel that is there, a descriptor in use is not free, and the
application knows the connection there is (`Matched`). `AttemptKeeps` is about
`Connector::Connect` from a handler that closes descriptors at its end.

### LiveRelay

`RelayTypeCorrect`. `TypeOK` is not inductive: `SendTag` goes through an iterator
and `SendFirstTag` through a pointer. `ControlInv` adds what the positions of
the handlers say of them: the iterator is on a viewer, a joining viewer has a
publisher, a tag exists once the fan-out or `MarkLastTag` has seen one, the header
tags read are counted as long as they are encoded (`temp`), and a viewer whose
close handler runs is disconnected.

`HeaderComesFirst`. Nothing is sent to a viewer before it has been inserted, but
tags are queued for it from then on. `HeaderInv` adds that a viewer to whom
nothing was sent is not yet past `SendHeader`, or not connected any more, and
that a queued function cannot run while its request handler does, for both are
on one thread; it is stated over `Joined` (a fan-out may reach the viewer, or a
tag waits for it) and `Served` (something was sent to it, or it can no longer be
sent anything).

`ViewersHaveOneSource` and `ClosedViewersForgotten` rest on `SourceInv`: only
the publisher a viewer asked for knows it, by its map, its iterator or what is
left of its iteration, and the close callback knows that publisher (`Placed`);
what was sent or waits comes from it (`FromOne`).

`FanOutStaysInOrder` and `NoTagIsLost` rest on `OrderInv`. Counting from the end,
the tags that wait for a viewer, and those it was sent from the third item on,
have consecutive numbers up to the last tag fanned out to it (`UpTo`); that is
the publisher's last tag, or the one before as long as the fan-out has the viewer
still to come (`Awaits`). What comes before is fixed by how far the joining
handler is: `Numbered` says when nothing, the header, or the header and the
first tag have been sent, and bounds the number of that first tag, which the
code takes from a variable the publisher changes meanwhile.

### Handshake

`HandshakeInv` joins `InStep` to three facts. What has been answered is a
function of the message expected next (`Answering`), for a connection that was
not shut down, and a part of that for one that was. The io thread is in the
handler that is the callback, and that is the chunk parser's just after success
(`Handling`). Every message before the one expected was sent (`InReach`), which
needs neither a client that waits nor one that was accepted: messages are parsed
in their order, so that, with `InStep`, what is left when the path is bound begins
with the stream. The lemmas about `Units` say which piece stands
where in the stream without division (`Position`), and what a message less at
the front or more at the end makes of it.

### RtmpChunk

One invariant, `ChunkInv`, carries the five theorems; none of the properties is
inductive, for none says where in the stream the parser is. `Followed` does:
there are formats `f`, places `o` at which the messages begin and a number `c` of
units consumed such that

- what is ahead, in the receive buffer and on the wire, is what the client sent
  from `c` on (`Stream`: first header, headers and chunked bodies at their
  places, and what a header leaves out is as in the message before);
- the parser is where its status says (`Placed`): at the beginning of a message,
  or inside one, `q` whole chunks and `read_chunk_size_` units into its body
  (`InChunk`; `Whole(q)` spares the proofs a division), or in front of the header
  between two chunks;
- what was complete before the last read is parsed, or is in the buffer with no
  end of a chunk in front of its own end (`DueSoon`), so that nothing makes
  `ParseData` return before it has parsed it.

`Packed` says what that place means for the data: `pack` holds the fields of the
message being received, or of the last one (from which the next header may leave
fields out), and its body so far; `timestamp_` is the time of the last message
modulo four bytes. `Waits` is why a read has room: in `epoll_wait` the buffer is
empty within a body; in front of a header it holds less than a header, or the end
of a chunk has just been taken out of it. `Tagged` adds to `TagsAreMessages` and
`TagHeaders` that the size in a tag is the length of its body, from which the next
tag's previous size is computed.

Each action has a lemma (`ReadKeeps`, `ParseHeaderKeeps`, `BodyCompleteKeeps`, ...).
They rest on three groups: numbers (three digits carry what is below `Base` cubed,
`NumberOfDigits`; the low three digits of a sum that wraps at four are those of the
time, `TimeStampIsLow`, `SumOfWrapped`, `LowOfWrapped`), the chunked body without
division (`ChunkedBodyAt`), and what reading, consuming and sending do to what is
ahead (`StreamRead`, `StreamDrop`, `StreamSend`). `ChunkAssumption` is needed
where a buffer longer than a chunk could hold a complete message and, in front of
its end, the end of a chunk, and where a header, or the `StartLength` units waited
for, must fit into the buffer.

### Buffer

`Inv` says of each record that its indices are in order and
inside the vector (`BufferOK`) and that the sums differ by what is unread. One
lemma per member function says what it does to the unread bytes: nothing
(`AdjustKeeps`, `ReSizeKeeps`), a suffix more (`StorePuts`, `AppendDataPuts`), a
prefix less (`AddReadIndexTakes`). `StepBecomes` collects them into the steps of
`ByteQueue`, `ContentsStep` lifts that to all buffers. Growth rests on
`AppendData` moving first: what is missing is then the unread bytes less the
room of the whole vector.

### Only model-checked

Liveness under fairness is beyond the prover: "every function runs",
"handlers return", "attempts settle", "the handshake completes" stay with TLC.
Every invariant and every refinement of a passing run is a theorem. `OneSource` of
`LiveRelay` is a theorem and in no run, nor are the `TypeOK` of most modules.

## Not modelled

- `ThreadPool`: `Run` queues a task only if the deque is not empty
  (`ThreadPool.cpp:59-73`), and nothing else fills it. The deque stays empty,
  every task runs in the caller's thread and the pool's threads wait: nothing
  interleaves. The server does not use it.
- Reading FLV files (`FlvManager::ParseFile`): only a test calls it.
  `FlvTag::GetPreviousTagSize` adds up multiples of one number, so that
  `CheckTag` refuses the second tag, and a truncated file is read from
  for ever.
- `DbMysql`, `UserMapper`: commented out in `main.cpp`.
- `Select` (Windows, v1.0.0 only), the logger and `File`, and the wrappers around
  sockets, addresses, time and text formats.
- FLV byte layout beyond the fields of `TagHeaders`, AMF and the contents of tags;
  headers that do not fit into a buffer (`FlvManager.cpp:144`).
- Failures that end the process (`pthread_create`, `bind`).

## Plan

Every safety property of the runs is proved. What may come next: the remarks of
"What the runs found" as theorems about the restricted programs for which they
hold (a relay whose viewers join only after the first tag, a loop that is stopped
only once it runs), and shorter proofs where a lemma about the stream
serves several actions.
