# A TLA+ model of feipu

feipu is a small C++ network library in the style of muduo: one event loop per
thread, a TCP server that spreads its connections over a pool of such loops,
timers, and an HTTP server on top.  This directory holds TLA+ modules for its
core, the TLC configurations that check them on small instances, and TLAPS
proofs for the parts that can be proved for every instance.

Contents: the system (1), the modules (2), the runs (3), fairness (4), what is
proved (5), disagreements with the source (6), what is not modelled (7), the
plan (8).

## 1. The system

| Component | State it keeps | Operations | Who calls it |
|---|---|---|---|
| EventLoop (`base/src/Eventloop.cpp`) | `functions_` under `mutex_`, eventfd `wakeupFd_`, `looping_` | `loop`, `runInLoop`, `quit`, `wakeup`, `doFunctions`, `RunAt/RunAfter/RunEvery` | its own thread, and any other thread through `runInLoop` and `quit` |
| Poller, Channel (`Poller.cpp`, `Channel.cpp`, `Channel.h`) | `fd_channel_map_`, the kernel's epoll set; events, revents, reading and writing flags, tie | `poll`, `update_channel`, `removeChannel`, `handleEvent`, `enable*/disable*` | the loop thread |
| TcpConnection (`TcpConnection.cpp`) | `status_`, `inBuffer_`, `outBuffer_`, its Channel | `send`, `shutdown` from any thread; `sendInLoop`, `shutInLoop`, `NetIntoBuffer`, `BufferIntoNet`, `handleClose`, `connectEstablished`, `connectDestory` on the loop | user callbacks, other threads, TcpServer |
| TcpServer, Acceptor (`TcpServer.cpp/.h`) | `connections_`, `nextConnId_` | `whenNewConnection`, `whenOldConnDisconnect`, `removeConnection` | the main loop; io loops through `runInLoop` |
| EventLoopPool, EventLoopThread, Thread | `loops_`, `threads_`, `count_`; `loop_` under a mutex with a condition; thread id handshake | `start`, `getNextLoop`, `startloop`, destructor | the thread that owns the server |
| TimerQueue, Timer, TimeStamp | `timers_` ordered by expiry and address, `now_chache_` | `addTimer`, `getNextTimerTimerOut`, `handleTimeEvent` | `EventLoop::loop` and user code |
| Buffer (`Buffer.cpp`) | a vector and two indices | `append`, `readFd`, `retrieve`, `retrieveUntil`, `replaceCRCF` | TcpConnection, HttpHandler |
| HttpServer, HttpHandler | per connection `check_state_`, `line_index_`, the request so far | `on_connect`, `on_recv`, `parse_http`, `handle_http` | TcpConnection's callbacks |
| Router | `entries_` | `route`, `deal`, `match` | user code, then HttpHandler |
| HttpMsg, HttpDef | headers, content, start line | setters, `setContent`, `Dump` | HttpHandler and the handlers of routes |
| UdpServer | `inBuffer_`, `outBuffer_`, its Channel | `start`, `send`, `NetToBuffer`, `BufferToNet`, `reciveDatagram` | the loop thread, callbacks of the user |
| InetAddress (`InetAddress.cpp`, `FeiSocketops.cpp`) | an owned `sockaddr_in`, or none | constructors, copy, `operator=`, `toIpPort` | TcpServer, UdpServer, user code |
| Logging, sockets, CurrentThread, tools | none that others depend on | formatting and thin wrappers | everybody |

Threads meet in four places: `functions_` and the eventfd of a loop;
`status_` of a connection, which is read and written without a lock; the
reference counts of a connection, whose last pointer decides on which thread
it is deleted; and the handshake and teardown of the pool.  The rest runs on
one loop thread, where the difficulty is what callbacks do to the object that
called them and in what order events, functors and timers come.

What makes each part correct:

* EventLoop - no wakeup and no quit is lost; tasks run once, in order.
* TcpConnection - the byte stream has no gap, repetition or inversion; write
  interest follows the buffer; nothing is cut off by a shutdown; a close by the
  peer is always seen.
* TcpServer - up and down are each reported once; no Channel outlives its
  connection and descriptors are reused safely, as long as no `send` runs behind
  the close of its connection; nothing leaks.
* Pool - `startloop` returns a live loop; teardown ends.
* Timers - never early, never twice, in order, and in the end.
* Buffer - the content is a FIFO byte queue, the vector does not grow with the
  traffic.
* HTTP - how a request is cut into reads does not matter; at most one answer,
  for a complete request, whole before the end of the stream.
* Router - the pointer loop of `match` finds what a cut into segments finds,
  whatever the order of the table, and the handler gets its captures.
* Poller - the map, the epoll set and the channels agree; nobody starves.
* UdpServer - no datagram is lost, doubled or reordered between the socket and
  the user; POLLOUT is on exactly while something waits.
* InetAddress - a value type.

`PROJECT.json` lists the hazards at their lines, each with the properties that
would catch it or the reason why none does.

## 2. The modules

**TaskQueue** - the promise of `runInLoop`: one FIFO queue of tasks that is
served as long as it is open.

**EventLoop** - the detailed loop.  `loopPc` is the position of the loop thread
(test of `looping_`, in `epoll_wait`, calling handlers, at the swap of
`doFunctions`, between and inside functors).  A push and its `wakeup()` are two
steps, as are the two halves of `quit()`; `handleWakeEvent` is a step after the
poll that reported it.  `functors` is the local vector of `doFunctions`.
`Poll(FALSE)` returns for the eventfd, `Poll(TRUE)` for any other reason.
Actions inside callbacks (`RunInLoopInside`, `QuitInside`) are enabled while a
handler or functor runs.

**TcpConnection** - one connection from `connectEstablished` on, with its
Channel and its entry in the Poller.  The loop thread's handlers
(`HupEvent`, `NetIntoBuffer`, `BufferIntoNet`, `AfterDrain`, in the order of
`handleEvent`), the functors (`RunSend`, `RunShut`, `ConnectDestory`), user
code on the loop thread (`SendInside`, `ShutdownInside`), threads that call
`send` and `shutdown` in the steps in which the code reads and writes
`status_`, and the peer.  The functor queue is a FIFO, which is what EventLoop
is shown to give.  `AfterDrain` is apart from `BufferIntoNet` because
`write_cb_` runs between them and may call `send` again.  `fault` records the
`LOG_FATAL` (which aborts) or assert that was hit, or the use of a dead
pointer; nothing happens after it.

**ConnLifecycle** - the promise of TcpServer: accepted on a free descriptor,
up once, down once, then gone.  A connection that a late `send` has put back
into the poller is in a phase of its own, `"back"`, after "down" and before
"gone"; of it nothing more is promised than the descriptor and the end.

**TcpServer** - all connections of a server over the main loop and the io
loops.  A TcpConnection object has no variable of its own: it is `Alive` while
`connections_`, user code, a queued functor, a functor of a batch that is not
finished, or the guard of `handleEvent` refers to it.  `fdMap` and `epoll` are
the Pollers, and `accept()` returns the lowest descriptor not in use, so that
stale entries would be hit at once.  With no io threads, everything is a plain
call on loop 0.  Threads of the user call `send` and `shutdown` on the
connections in `Shared`, in the steps in which the code reads and writes
`status_`, so that `Disconnecting` may overwrite a `Disconnected`; of output
there is only what reaches the Poller (`RunSend`, `BufferIntoNet`).  `late` has
the connections whose functor of a `send` ran behind `connectDestory` and put
the dead channel back into the map and the epoll set (`TcpConnection.cpp:94`).
`Abort` is a failing assert, a `LOG_FATAL` or a use of deleted memory: wherever
the condition of an action that the code asserts or relies on is false
(`Failing`), the process ends, and `fault` keeps loop and descriptor.
User code is careful here: it keeps its pointer while a functor of its own is
queued.  TcpConnection has the user who does not.

**TimerQueue** - the timers of one loop with the part of `EventLoop::loop` that
drives them.  The clock is a variable; `now` is `now_chache_`; `until` is the
end of the `epoll_wait` that blocks.  `ToInt` is the conversion of the
`int64_t` timeout to `epoll_wait`'s `int`, whose largest value is `IntMax`, and
`TicksPerMs` what it makes of a microsecond.  `InOrder(S)` is the vector of a
set of timers in the order of `std::set<Entry>`.

**EventLoopPool** - the owner thread in `start` and in the destructors, each
loop thread from `Thread::wrapper` to the end of its stack frame.  A critical
section is one step; a wait is a position that a notify or a spurious wakeup
ends.

**ByteQueue** / **Buffer** - the promise of a buffer and the
vector with two indices that keeps it.  The record `buf` is the C++ object;
`Appended`, `MakeSpace`, `Read` and `Filled` are the functions of `Buffer.cpp`
as operators on it.  `input` and `peak` are history variables for the
refinement and the bound.

**HttpHandler** - the incremental parser on its own.  `Receive` appends a piece
of input and `Parse` is one pass of the loop of `parse_http`.  A byte is `CR`,
`LF`, some other text, or one symbol for the text of a good request line, a
header or a Content-length header; this is all the parser's control depends
on.  `Reference(n)` is one parse of the first `n` bytes at once, the reference
the incremental one is compared with.

A length is `atol` of the text put into a `size_t`, so that one that is negative
becomes huge (`SizeMod` stands for 2^64) and its request never completes; the
last sentence on lengths in `AnswersOneCompleteRequest` rests on this.

**HttpConnection** - the composition of HttpHandler, whose actions it uses
(`Parser`), with TcpConnection (`Tcp`): one connection without other threads,
its `message_cb_` being `on_recv`.  The read of TcpConnection's `NetIntoBuffer`
and HttpHandler's `Receive` are one action (`OnRecv`), as are `SendInLoop` and
the answer (`HandleHttp`).  `pc` has positions between the calls that `on_recv`
makes, where the peer may do anything.  Of the Router there is what tells
apart how `handle_http` ends (`router`): there is none and no answer is sent; it
has an answer for the path of this client, be it 501; or that path leads to a
misused `*`, where `deal` is `LOG_FATAL` and `pc` is "stopped" from then on.  A
broken request goes through `deal` too, with the path of its request line if
that was read (`MayMisuse`).

**Poller** - one loop's channels, `fd_channel_map_`, the kernel's epoll set,
`rec_events_` and the loop that handles what `poll` returns.  TcpConnection and
TcpServer use the Poller in its two or three relevant situations; this module
lets owners do whatever the Channel interface allows, including `disableAll`
followed by `enableWrite`, descriptors that are used again, and, as UdpServer
does, deletion without `un_register`.  `lapsed` remembers which channels have
disabled everything once.

**UdpServer** - a server with its two queues, the positions inside
`NetToBuffer` and `BufferToNet`, and the callbacks, which may call `send` and
take or leave datagrams.  Datagrams have a number and a size; sizes decide what
`recvfrom` cuts off and `sendto` refuses.

**Router** - one action per pass of the inner loop of `match`, with `kp` and
`vp` as indices; `todo` is what the iterator of the unordered map has not come
to, and any order is possible.  The second half of the module is the reference,
on segments and without pointers: `Cuts(s)` are the places where "/" cuts `s`,
`Segment(s, n)` is what lies between two of them, and `Matching` and `Misused`
compare pattern and path segment by segment.  A capture has a value, `ValueOf`,
and the name the readmes give it, `Documented`; `SeesCaptures` takes that or the
name with its marker, and a run of its own asks for the documented one.

**AddressValues** / **InetAddress** - a value type, and
the objects that implement it with a `unique_ptr`, an assignment operator that
writes into the heap, and ports in network byte order.

Seven of the modules have a module `...Proofs` that extends them with theorems;
the proofs about Buffer, InetAddress, EventLoopPool and Router, which use
nothing of the other modules, are together in **StandaloneProofs** (section 5).
For that reason the last three name their parts after themselves (`PoolSpec`,
`RouterNext`, `addressVars`).

`MC*` modules only name an instance for TLC, except MCHttpConnection and
MCRouter, which define the sets of inputs, and MCBase, a behaviour of which is
either one of Buffer or one of InetAddress.

## 3. The runs

The check of deadlock is off in every run because each of these systems may
really stop: a loop returns after `quit`, a connection is removed, a client has
sent everything, a bound is reached.  Progress is checked by liveness
properties instead.

| Run | Instance | What it shows |
|---|---|---|
| eventloop | 2 threads, 3 tasks, 2 quits | `NoLostWakeup`, `NoLostQuit`, the refinement of TaskQueue with its liveness, `QuitTakesEffect` |
| tcpconn | 1 writer thread and the loop, 3 messages of 2 units | `StreamIntegrity`, `PendingIffWriting`, `FaultCauses`; `FlushEventually`, `ShutdownCompletes`, `PeerCloseIsHandled` |
| tcpserver | 2 connections, 2 descriptors, 0 to 2 io threads; a thread that sends on the first connection and one that shuts it down | `UsedIsAlive`, `OnlyLateSendsAreFatal`, the refinement of ConnLifecycle, `ClosedPeerIsCollected` |
| timerqueue | 2 timers, delays 0, 1, 3, clock to 5, set back at most once | `NeverEarly`, `RunsInOrder`, `TimersFire` |
| pool | 3 threads | `StartedLoopIsThere`, `StartReturns`, `QuitInTimeJoins` |
| pool_quit | 1 thread | refutes `QuitUsesLiveLoop` (section 6) |
| base | a Buffer: vector of 2 + 1 bytes, at most 4 held, extrabuf of 3; or InetAddress: 3 objects, 2 addresses, ports of 2 bits | `SizeBounded`, the refinement of ByteQueue; the refinement of AddressValues, with `OwnedOnce` |
| http | 5 beginnings of a request, each followed by two of 6 pieces, in all cuts; a peer that leaves or resets; no Router, one that answers, one that ends the process | `PiecesDoNotMatter`, `AnswersOneCompleteRequest`, `TwoWaysToEnd`, `CompleteIsServed` |
| udp | 2 datagrams in, 3 out, each of two sizes | `OnceInOrder`, `WritingIffWaiting`, `BothWaysFlow` |
| poller | 2 TCP channels and 1 UDP channel, 2 descriptors, a vector of 1 event | `AskedIsWatched`, `NoAssertFails`, `ReadyIsHandled` |
| router | 2 routes of 10 patterns, short paths, 2 methods | `HandlerIsRight`, `FatalIffMisused` |
| router_names | 1 route of 10 patterns, short paths | refutes `CapturesAsDocumented` (section 6) |

EventLoop, TcpConnection, TcpServer, TimerQueue, Buffer and InetAddress have a
type invariant, which also says where transient state can exist (InetAddress's
is only proved, being a part of its inductive invariant, as are the types in
PollerProofs and UdpServerProofs); every property of a passing run has a seeded
defect in the module of the code (the definitions marked so) under which TLC
finds it violated.

Why the bounds are enough.  *eventloop*: one task in the batch, one in
`functions_` and one being pushed is every relation between the two vectors
that the code distinguishes; two callers are needed for one eventfd read to
swallow two wakeups.  *tcpconn*: messages of two units make a short write
possible, and three messages allow one on the wire, one buffered and one
queued; the second writer of the code's general case is the loop thread's own
user code.  *tcpserver*: the lowest free descriptor goes to the second
connection again as soon as the first has gone, with what the first has left
behind, on the same loop with none or one io thread and on another with two,
which also tell the order of `getNextLoop` from a constant; and `accept` may
fail at any time.  One connection with a late `send` and one without tell what
such a `send` can do to the other.  *timerqueue*: two timers can tie, overtake
and be created during each other's callbacks; delays of zero, shorter and
longer than a tick of the poll occur.  `MaxAdd` and `MaxClock` only end the
run: no timer is created after the first, and at the second every bounded wait
counts as over.  Delays stay below the width of the timeout there (see section
6).  One set-back at any state reaches every combination of armed, cached and
waiting timers; the dates in `NeverEarly` and `RunsInOrder` do not survive it
(a timer created after the clock was set back is compared with the time cached
before, and runs at once), so these two promise them only until then, while a
one-shot timer still runs once and `TimersFire` holds throughout.  *pool*:
three threads are first, middle and last for the owner's index.  *base*: every
branch of `makeSpace` and `readFd` is reached, with contents of length zero up
to more than the vector; three InetAddress objects are the left side, the right
side and one that must not change, and ports of two bits have values that are
negative as signed ones and values that swapping changes.  *http*: the
beginnings are nothing, a request line, one with a length, a complete head with
content to come, and a negative length that is followed by a header; two more
pieces end it, cut it off, make it bad, or are a second length, content or
further input, and every way to cut a CRLF in two occurs.  An answer of two
units can be written whole, in part or not at all.  Which path leads where is
for run *router*.  *udp*: three datagrams are one being sent, one waiting
and one that a callback adds.  *poller*: a third channel takes the descriptor
of one of the other two while that is being deleted, and two ready descriptors
do not fit into a vector of one event.  *router*: a match depends on one entry
at a time, except for what is left behind by an earlier one, so two entries are
enough; the patterns overlap in fields, stars, prefixes and trailing slashes.

## 4. Fairness

* EventLoop: weak fairness of the loop thread while it is not blocked, and of
  the `wakeup()` that follows a push.  Nothing is assumed of other
  descriptors: `Poll(TRUE)` is not owed.
* TcpConnection: the loop iterates, so `Poll(TRUE)` and `RunFunctor` get strong
  fairness (other functors and events may disable them in between) and handlers
  weak fairness; a thread inside `send` or `shutdown` goes on; the main loop
  runs `removeConnection`.  `Poll(TRUE)` says that the kernel has room again
  and again while data is pending: the peer reads.
* TcpServer: each loop thread runs; user code goes on inside `send` and
  `shutdown` and drops its pointers in the end, without which no connection can
  be expected to be deleted.
* TimerQueue: the loop thread runs and time goes on.  No socket event is owed.
* EventLoopPool: threads are scheduled; no spurious wakeup, no event and no
  destruction is owed.
* HttpConnection: as TcpConnection; the client owes nothing.
* Poller: the loop thread runs, and `epoll_wait` reports what is ready even if
  it also returns for other reasons (strong fairness of `Poll`).
* UdpServer: the loop runs, callbacks return, and the kernel has room again and
  again (strong fairness of `Poll(TRUE)` and `SendTo`).  Nothing is owed by
  the network or the user.
* Router: `match` runs on.  Buffer and InetAddress have no fairness.

## 5. Proofs

| Module | Theorems | for any | Assumption on the constants |
|---|---|---|---|
| EventLoopProofs | `TypeCorrect`, `NoLostWakeupHolds`, `NoLostQuitHolds`, `ExactlyOnceInOrderHolds`, `QueueSafety` | threads, tasks, quits | the bound on quits is a natural number |
| TcpConnectionProofs | `TypeCorrect`, `StreamIntegrityHolds`, `PendingIffWritingHolds`, `FaultCausesHolds` | writers, messages | none |
| TcpServerProofs | `TypeCorrect`, `UsedIsAliveHolds`, `OnlyLateSendsAreFatalHolds`, `ServerImplementsConnLifecycle` | io threads, connections, descriptors, connections that threads use | descriptors and thread counts are natural numbers, no descriptor is 0 |
| TimerQueueProofs | `TypeCorrect`, `NeverEarlyHolds`, `RunsInOrderHolds` | timers, delays, dates, width of `int` | times and addresses of timers are natural numbers |
| UdpServerProofs | `OnceInOrderHolds`, `WritingIffWaitingHolds` | numbers and sizes of datagrams, buffer sizes | sizes and bounds are natural numbers |
| PollerProofs | `AskedIsWatchedHolds`, `NoAssertFailsHolds` | channels of both kinds, descriptors, first size of the vector | the kinds are disjoint, `None` is neither a channel nor a descriptor, the vector is not empty |
| HttpProofs | `PiecesDoNotMatterHolds`, `AnswersOneCompleteRequestHolds`, `TwoWaysToEndHolds`, `HttpUsesTcp` | messages, width of `size_t` | messages are sequences of the parser's bytes, `SizeMod` is not 0 |
| StandaloneProofs: Buffer | `TypeCorrect`, `SizeBoundedHolds`, `ByteQueueHolds` | sizes, bytes | sizes are natural numbers, CR and LF are bytes |
| InetAddress | `AddressTypeCorrect`, `OwnedOnceHolds`, `ValuesHold` | objects, heap cells, addresses, width of a byte | see below |
| EventLoopPool | `StartedLoopIsThereHolds`, `NoNotifyIsMissedHolds`, `QuitReachesHolds` | number of loops | it is a natural number, at least 1 |
| Router | `HandlerIsRightHolds`, `FatalIffMisusedHolds` | patterns, paths, methods, calls of `route` | patterns and paths are sequences of characters |

The bounds that only keep TLC's instances finite are constants, so a theorem
holds for every value of them.  Where the invariants of a
module need each other, they are parts of one inductive invariant `IInv`, a
conjunction of named parts: a lemma for every action, or for a group of actions
that change the same things, leads to a lemma `Invariance` for the
specification.  TLC finds every `IInv` true on the instance of section 3.

`EventLoopProofs` proves for every set of threads and tasks and every number of
quits: `TypeCorrect`, `NoLostWakeupHolds`, `NoLostQuitHolds`,
`ExactlyOnceInOrderHolds`, and `QueueSafety`, that every step of the loop is a
step of TaskQueue or a stutter.  The only assumption is that `MaxQuits` is a
natural number.  `TypeOK` is inductive; it is proved in three parts, sequences,
control and counters.  Its clause that the batch is empty outside `doFunctions`
is what lets `Swap` overwrite `functors`.  The other invariants are inductive
relative to it.  The step that matters in `NoLostWakeup` is `HandleWakeEvent`,
which takes away the evidence of every wakeup so far: the invariant survives
because `WillSwap` becomes true in the same step, since `doFunctions` comes
after the handlers of the same iteration.  Lemma `WakeupStays` collects the
steps that leave a pending wakeup alone.

`TcpConnectionProofs`.  `StreamIntegrity` is inductive only with what happens
after a write was refused: the buffer is empty from then on (`StreamInv`), so
later bytes cannot be put behind a gap.  `PendingIffWriting` is about a
connection that is up; the invariant `WriteInv` also says what remains of it
after `handleClose`, which drops POLLOUT and keeps the buffer, and that the
write side is shut down with an empty buffer only.  `FaultCauses` needs the life
of the channel after a close (`CloseInv`: it is out of the epoll set, unless a
late `send` put it back after `connectDestory`, which is the only way to a
second close) and of what waits in the functor queue (`QueueInv`:
`connectDestory` is queued once, and functors of a writer that keeps its
connection and data find both).

`TcpServerProofs` follows a connection through the functors that hand it from
loop to loop.  What a loop has still to run is the rest of its batch and then
its queue (`Rest`).  Each functor occurs once there, and what it will find is
fixed when it is queued (`FunctorFinds`): *establish* finds a connection not
yet reported, *remove* one that was reported down and is still in
`connections_`, *destory* one that is no longer in `connections_` but still in
the map of its loop.  So each entry of a map belongs to a connection that
either `connections_` or a queued `connectDestory` keeps alive (`Entries`),
unless a late `send` has put it there: such a connection has been reported down
and left `connections_` (`Lates`), and a thread that is inside `send` or has a
functor queued keeps a connection alive until that has run (`Users`).  That is
`UsedIsAlive`.  `accept` returns a descriptor that no live connection has,
hence none that a map still has, unless a late `send` put it there
(`NextFdIsFree`).  `AbortPlace` goes through the places where the process can
end and finds a late connection with that loop and descriptor at each.
`NoneRevived` says of every step that it brings no deleted connection back,
which the refinement of ConnLifecycle needs besides `IInv`: a step then takes a
connection to its next phase, or lets a set of connections go whose last
pointer was in the batch that ended.  ConnLifecycle has no fairness, so the
whole formula `ImplementsConnLifecycle` is proved.

`TimerQueueProofs`.  `TypeOK` contains that a `Timer*` is in one place only: the
set, the vector of expired timers, or a functor still queued.  `OnTime`: a
timer that waits in any of the three is set for its turn or later, and one that
has just run will be once it is reset.  `Batch`: the vector is in the order of
the set and everything in it has expired by `now_chache_`.  With these a timer
that runs is not early.  `Later`: whatever entered the set since the vector was
filled is later than that, or was set for a past date; so nothing that waits
should have run before it.  That getExpired has a vector to return at all needs
the least element of a set of naturals (`LeastNumber`, from the
well-foundedness of `<`).

`UdpServerProofs`.  Every step moves the head of one queue to the end of the
next or appends at the far end, which leaves the concatenations of
`OnceInOrder` alone (`MoveHead`, `AppendRight`).  `WritingIffWaiting` needs
`OutIsWanted`: a POLLOUT that was reported is handled after the message
callback, and nothing in between can empty the queue, so that `BufferToNet`'s
asserts hold.

`PollerProofs`.  `AskedIsWatched` needs to know whose entries can be in the map
(`Entries`: live channels, and those of a UdpServer that was deleted), that live
channels have different descriptors and only a lapsed one asks for nothing
(`Owners`), and, for the asserts, that a channel that was reported and waits for
its handler is not deleted before, unless with a UdpServer (`Handled`).

Buffer (`StandaloneProofs`) - proved for any sizes, any bytes and any bound:
`TypeCorrect` (indices in order and inside the vector, so no subtraction on
`size_t` wraps round), `SizeBoundedHolds`, and `ByteQueueHolds`, the whole
refinement of ByteQueue (it has no fairness, so its temporal formula is proved
too).  The assumption is that the sizes are natural numbers and that CR and LF
are bytes.  The lemmas `MoveShape`, `GrowShape`, `MakeSpaceShape`,
`BehindShape`, `AppendedShape` and `ReadShape` follow the calls of the C++
functions: each says what its function does to size, indices and content.  The
bound rests on `GrowArithmetic`: the vector is only resized when moving would
not make room, and then the result is below the reserve plus twice the new
content.

InetAddress (`StandaloneProofs`) - proved for any objects, cells and addresses
and any width of a byte: `AddressTypeCorrect`, `OwnedOnceHolds` and
`ValuesHold`, the refinement of AddressValues.  The inductive invariant is
`AddressTypeOK` with `OwnedOnce`: an assignment writes into a cell, and only
because the cell has one owner does it change one value.  `ImplementsValues`
contains `OwnedOnce`, so that a cell that nobody owns is a violation too,
although no value shows it.  Every action changes pointers and heap in one of
three ways (lemmas `PlacedChanges`, `RemovedChanges`, `OverwrittenChanges`).
`SwapTwice` and `ThroughInt16` are the arithmetic of ports.  Besides the two
assumptions on Byte and the addresses, `MarkerAssumption` says that the null
pointer and a missing object are not mistaken for an address.

EventLoopPool (`StandaloneProofs`).  `PoolInv` has four parts besides the
types.  `Positions`: where a loop thread is tells whether `loop_` is set, its
EventLoop exists and its id is known.  `OneByOne`: the owner starts one thread
after the other, each when the loop of the one before is there, and it does not
wait for something that has happened already (`NoNotifyIsMissedHolds`; a wait
whose notify is over would last for ever).  `EndsWhenQuit`: a loop has ended,
or is about to, only if a callback or the destructor has quit it.
`QuitReaches`: a `quit()` of the destructor that came after `loop()` had begun
is not overwritten, and the eventfd is readable as long as the thread is in its
poll, so that the `join` behind it is not for ever.  `StartedLoopIsThere`
follows from the first three.

`HttpProofs`.  The reference is a recursive function, `Parsed(n)`, whose k-th
value is the parse of the first n bytes after k lines.  A claim about all its
values is proved by contradiction: there is a least k at which it fails
(`LeastNumber`), which is not the first, and the step before it contradicts
that.  `Parsing` is the part of `HttpInv` on the parser.  While it goes on, it
is where the reference is after some number of steps, with nothing behind the
line it works on but what has arrived since (`Underway`); once it has decided,
the reference decides the same (`Outcome`).  A new piece keeps this because a
step of the reference that goes on does the same when more bytes have arrived
(`OnceExtends`), also where a CR was the last byte of a piece.  The rest of
`HttpInv` is about the connection: nothing is written before the answer
(`NoOutput`), there is one close and one answer (`ClosedOnce`, `AnsweredOnce`),
the answer is that to the first bytes the parser has accepted (`AnswersRight`),
and where the Router can be misused there is none (`RouterSays`: a request that
is complete has a path, so `deal` cannot get past it).  `HttpUsesTcp` is the
composition: each step of HttpConnection is one of TcpConnection's or leaves
that module's variables alone, with `given` as its history of sends, each
message once.

Router (`StandaloneProofs`).  `RouterInv` says of a scan (`Scanning`) that one
of three things is true: both pointers are at their n-th cut and the n segments
before fit (`AtCut`); both are d characters behind the cut before a literal
segment and those d characters agree (`Within`); or a "*" has taken the rest of
the path (`BehindStar`).  In each, `matches` is what these segments capture
(`Taken`).  There is a lemma for every kind of pass (`EntryScans`,
`LiteralScans`, `FieldScans`, `StarScans`); `AtSlash` is the one they share,
that whenever the pointers are at the same "/" they are at the same cut.
`EndSays` then reads off what it means that the loop ends: both pointers are at
the end exactly if the pattern matches by its segments.  `Captured` has the
captures under the names that `match` stores; `StoredAreCaptures` leads from
there to `SeesCaptures`, which does not know these names.  `Passed` collects
the entries that were tried, so that 501 is right whatever the order of the
map.  `Cuts` is recursive too, and what is said of all cuts is proved as in
`HttpProofs`.

Only model-checked is all liveness, which rests on fairness and ENABLED and is
out of TLAPS's reach: the fairness of TaskQueue and `QuitTakesEffect`,
`FlushEventually`, `ShutdownCompletes`, `PeerCloseIsHandled`,
`ClosedPeerIsCollected`, `TimersFire`, `StartReturns`, `QuitInTimeJoins`,
`CompleteIsServed`, `BothWaysFlow`, `ReadyIsHandled`.  Every safety property of
the runs is proved.

## 6. Where the code does not do what it says

* **pool_quit**: the comment on the `quit()` in `~EventLoopThread` says that it
  may only be done when the loop is running; but the loop thread can leave
  `loop()` and destroy its EventLoop between the two halves of that `quit()`.
  TLC refutes `QuitUsesLiveLoop`.
* **router_names**: `src/readme.md:73` and `src/http/readme.md:43` say that the
  field of ":param" is found under "param"; `match` stores it under ":param".
  For "{param}" it means to leave the braces out, but looks for the "{" one
  place too early.  TLC refutes `CapturesAsDocumented`; `HandlerIsRight` accepts
  both names.

The following were met while modelling.  They are behaviours of the models, and
the passing properties are worded around them, at the place named.

* `shutdown()`, said to close gracefully, calls `shutInLoop` at once, which is
  `LOG_FATAL` while output is still buffered.  `HttpServer::on_recv` calls it
  right behind `send`, so an answer that one `write` does not take whole ends
  the server (`FaultCauses`; `TwoWaysToEnd` says that a client has one other way
  to end it, a path with a misused `*` behind it).
* A `send` from another thread tests `status_` and queues `sendInLoop`, which
  does not test it again.  If the functor runs behind `connectDestory` and
  cannot write everything, `enableWrite` puts the channel back into the map and
  the epoll set, and nothing takes it out when the connection is deleted.  The
  next connection on that descriptor fails an assert of the Poller, or `poll`
  reports a deleted channel; while the connection lives, its channel may be
  told to close again, which is `LOG_FATAL`, or after a `shutdown()` that wrote
  `Disconnecting` over the `Disconnected`, a second "down" and an assert of
  `removeConnection` (`late` in `UsedIsAlive` and `OnlyLateSendsAreFatal`,
  "back" in ConnLifecycle).
* The functor of a `send` from another thread keeps raw pointers to the data and
  the connection, which the caller may free before it runs (`careful` in
  `FaultCauses`).
* A `send` and a `shutdown` by another thread while earlier output is still
  buffered: `status_` is `Disconnecting` at once, the drain of the earlier
  output shuts the socket down, and the queued `send` is lost.
  `StreamIntegrity` promises the whole stream only while no write can fail.
* A peer that resets while output is buffered makes `BufferIntoNet`'s `write`
  fail, which is `LOG_FATAL` (`FaultCauses`).
* The timeout of the loop is computed in microseconds and given to
  `epoll_wait`, which counts milliseconds: a loop oversleeps unless something
  wakes it (`TicksPerMs`; `TimersFire` does not say when).
* A delay beyond 2^31 microseconds (36 minutes) becomes a negative `int` and
  the loop blocks for ever; the instance keeps delays below the width
  (`IntMax`).
* The error branch of `on_recv` does not return, so a broken request also goes
  to `handle_http`.  By then the connection is no longer up and the second
  `send` has no effect: `AnswersOneCompleteRequest` counts what is sent.
* `BufferToNet` takes the front of the queue that it has just emptied, copies it
  and follows the address in it before it asks the kernel for anything.  This is
  undefined; a `fault` is one outcome, and that it does no harm is another
  (`FrontOfEmpty`, `fault` in `BothWaysFlow`).
* An HttpServer without a Router (`serve()` not called) answers nothing and
  closes (`router` in `CompleteIsServed`).
* `atol` makes 0 of a length that is no number, and the request is complete
  without content; the length a request is compared with is the one `atol` gave
  (`AnswersOneCompleteRequest`).
* `~UdpServer` leaves its freed channel in the poller's map, and a later channel
  with the same descriptor is never watched (`LeftBehind` in `AskedIsWatched`,
  and the second half of `NoAssertFails`).
* A channel that has disabled everything cannot be enabled again (`lapsed` in
  `AskedIsWatched`).  No component of the library does that, except a `send`
  that runs behind a close (module TcpConnection), where it is as well.
* A `*` that is not the last segment is accepted by `route` and ends the process
  when a request reaches it (`FatalIffMisused`).
* `InetAddress(ip, port)` stores the port in host byte order, so that `toIpPort`
  shows it swapped.  Nobody in the repository calls this constructor and no
  comment speaks of it; AddressValues promises no port for it.
* The FIXME of `~EventLoopThread` (a `quit()` before `loop()` is forgotten and
  `join` hangs) is excluded by `early` in `QuitInTimeJoins`.

## 7. What is not modelled

* Service: empty stubs.
* HttpMsg's setters and `Dump`, and the tables of HttpDef with its conversions
  of status texts and content types: formatting and data.  What the parser puts
  into a message is in HttpHandler, what a handler answers is one message of
  HttpConnection.  InetAddressComp has no caller.
* Logging, the wrappers of system calls, CurrentThread, tools: formatting and
  thin wrappers; that `LOG_FATAL` aborts is in the models that can reach it.
  Failures of `socket`, `bind` and `listen` end the process before it serves.
* In HttpHandler: the individual fields of the request line and the names and
  values of headers, other than the length.
* In TcpConnection: the content of incoming data (a Buffer, and in
  HttpConnection the pieces of a request), and the name and context of the
  connection.
* In TcpServer: output that can be written at once or is buffered while the
  connection is in the map, the functor of `shutdown`, the `LOG_FATAL`s of
  `shutInLoop` and of a failing `write`, and a user who frees its pointers
  while a functor refers to them.  All of these are in TcpConnection
  (`FaultCauses`), of one connection.
* In HttpConnection: which path leads where, and with it the text of an answer.
* In UdpServer: the addresses of datagrams, and a short `sendto`, which UDP does
  not do.  Errors of `recvfrom` other than EAGAIN end the process.

## 8. Plan

Done in this order: EventLoop with TaskQueue and its proofs; TcpConnection;
TcpServer with ConnLifecycle; TimerQueue; EventLoopPool; Buffer with ByteQueue
and its proofs; HttpHandler; UdpServer; Poller; Router; HttpConnection;
InetAddress with AddressValues and its proofs; the clock that is set back; then
the proofs about UdpServer, Poller, TcpConnection, TcpServer with the refinement
of ConnLifecycle, TimerQueue, EventLoopPool, HttpConnection and Router.

Nothing that a run checks and that could be proved is left.  What would be
worth adding to the models: the addresses of datagrams in UdpServer, and a
UdpServer that one of its own callbacks deletes.
