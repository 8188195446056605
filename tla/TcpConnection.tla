--------------------------- MODULE TcpConnection ---------------------------
(***************************************************************************)
(* base/src/TcpConnection.cpp with the Channel and the Poller entry it     *)
(* owns: one established connection, from connectEstablished on.  The loop *)
(* thread runs the event handlers and the functors of its queue; writer    *)
(* threads call send() and shutdown(); the peer reads, sends, closes and   *)
(* resets.  The queue is the first-in first-out queue that EventLoop is    *)
(* shown to implement (module TaskQueue), so a push is one step here.      *)
(*                                                                         *)
(* A message is two units long, enough for a write to take a part of it.   *)
(***************************************************************************)
EXTENDS Naturals, Sequences, SequencesExt

CONSTANTS Writers,   \* threads other than the loop thread that use it
          Msgs       \* messages; each is sent at most once

VARIABLES
  status,     \* status_
  reading,    \* channel_->is_reading_, the POLLIN bit of events_
  writing,    \* channel_->is_writing_, the POLLOUT bit of events_
  inMap,      \* fd_channel_map_ of the loop's Poller holds the channel
  added,      \* the fd is in the epoll set, with the channel's events
  revents,    \* what the last poll reported and handleEvent has not done yet
  draining,   \* BufferIntoNet has called write_cb_ and not tested status_ yet
  out,        \* outBuffer_, as a sequence of units
  wire,       \* what the kernel has accepted from write()
  fin,        \* the write side has been shut down
  peer,       \* "open", "eof" (it has shut down its side) or "reset"
  sockErr,    \* a reset that no read has reported yet
  unread,     \* data of the peer is waiting
  queue,      \* the functors of the io loop that concern this connection
  callerPc,   \* where each writer thread is inside send() or shutdown()
  careful,    \* writers that keep data and pointer until their functors ran
  kept,       \* writers whose data and TcpConnectionPtr are in scope
  closes,     \* number of calls of close_cb_
  removed,    \* "no", "posted" (connectDestory is queued), "done" (it ran)
  given,      \* history: the units handed to sendInLoop, in that order
  fault       \* why the process stopped, or "none"

channelVars == <<reading, writing, inMap, added>>
sockVars    == <<wire, fin, peer, sockErr, unread>>
writerVars  == <<callerPc, careful, kept>>
serverVars  == <<closes, removed>>
vars == <<status, channelVars, revents, draining, out, sockVars, queue,
          writerVars, serverVars, given, fault>>

Units(m) == <<<<m, 1>>, <<m, 2>>>>

Idle == [at |-> "idle"]

\* connectEstablished: the channel is tied, reading starts, conn_cb_ is called.
Init ==
  /\ status = "Connected"
  /\ reading = TRUE /\ writing = FALSE
  /\ inMap = TRUE /\ added = TRUE
  /\ revents = {} /\ draining = FALSE
  /\ out = <<>>
  /\ wire = <<>> /\ fin = FALSE
  /\ peer = "open" /\ sockErr = FALSE /\ unread = FALSE
  /\ queue = <<>>
  /\ callerPc = [w \in Writers |-> Idle]
  /\ careful \in SUBSET Writers
  /\ kept = Writers
  /\ closes = 0 /\ removed = "no"
  /\ given = <<>>
  /\ fault = "none"

\* The loop thread is between two handlers or functors of this connection.
LoopFree == fault = "none" /\ revents = {} /\ ~draining

\* The object is deleted: the server and the poller have let go of it and no
\* writer holds a TcpConnectionPtr.
Freed == removed = "done" /\ kept = {}

\* The kernel refuses a write() with EPIPE or ECONNRESET.
WriteFails == fin \/ peer = "reset"
-----------------------------------------------------------------------------
(* Channel and Poller.                                                     *)

\* Poller::update_channel: an fd in the map is deleted from the epoll set
\* when no event is left and modified otherwise, which fails once it has been
\* deleted; a channel that is not in the map is added.
UpdateChannelUnmapped(r, w) ==    \* seeded defect: added, not put in the map
  /\ reading' = r
  /\ writing' = w
  /\ inMap' = inMap
  /\ added' = IF inMap THEN added /\ (r \/ w) ELSE TRUE

UpdateChannel(r, w) ==
  /\ reading' = r
  /\ writing' = w
  /\ inMap' = TRUE
  /\ added' = IF inMap THEN added /\ (r \/ w) ELSE TRUE

EnableWriteForgotten == UNCHANGED channelVars               \* seeded defect
EnableWrite == UpdateChannel(reading, TRUE)

DisableWriteForgotten == UNCHANGED channelVars              \* seeded defect
DisableWrite == UpdateChannel(reading, FALSE)

\* Poller::removeChannel.
RemoveChannel == inMap' = FALSE /\ added' = FALSE

Readable == unread \/ peer # "open"
HangUp   == peer = "reset" \/ (peer = "eof" /\ fin)

\* epoll_wait reports this channel: level triggered, POLLHUP unasked for,
\* POLLOUT if the kernel has room or the socket is dead.  handleEvent calls
\* closecall_ for POLLHUP without POLLIN, then readcall_, then writecall_.
Poll(room) ==
  LET in  == reading /\ Readable
      rep == [hup |-> HangUp /\ ~in,
              in  |-> in,
              out |-> writing /\ (room \/ HangUp)]
  IN /\ LoopFree
     /\ added /\ ~Freed
     /\ revents' = {e \in {"hup", "in", "out"} : rep[e]}
     /\ revents' # {}
     /\ UNCHANGED <<status, channelVars, draining, out, sockVars, queue,
                    writerVars, serverVars, given, fault>>

\* handleEvent dispatches in the order hup, in, out.
Dispatch(e) ==
  /\ fault = "none" /\ ~draining
  /\ e \in revents
  /\ e = "in"  => "hup" \notin revents
  /\ e = "out" => revents = {"out"}
  /\ revents' = revents \ {e}
-----------------------------------------------------------------------------
(* What the loop thread does to the connection.                            *)

\* Only with nothing buffered and nothing being written may sendInLoop write
\* past the buffer.
AlwaysDirect == TRUE                                        \* seeded defect
DirectWrite == out = <<>> /\ ~writing

\* sendInLoop: write() takes everything or, interrupted or cut off by the
\* peer, a part; when it fails the message is logged and lost.
SendInLoop(m) ==
  /\ given' = given \o Units(m)
  /\ \/ /\ DirectWrite /\ WriteFails
        /\ UNCHANGED <<wire, out, channelVars>>
     \/ /\ DirectWrite /\ ~WriteFails
        /\ wire' = wire \o Units(m)
        /\ UNCHANGED <<out, channelVars>>
     \/ /\ DirectWrite /\ ~WriteFails
        /\ wire' = Append(wire, Units(m)[1])
        /\ out' = Append(out, Units(m)[2])
        /\ EnableWrite
     \/ /\ ~DirectWrite
        /\ out' = out \o Units(m)
        /\ EnableWrite
        /\ UNCHANGED wire

\* shutInLoop: LOG_FATAL if data is still being written.
ShutInLoop ==
  \/ /\ writing
     /\ fault' = "shutInLoop: is writing"
     /\ UNCHANGED fin
  \/ /\ ~writing
     /\ fin' = TRUE
     /\ UNCHANGED fault

\* handleClose: status_, disableAll, conn_cb_ and close_cb_.
HandleCloseKeepEvents ==                                    \* seeded defect
  /\ IF status = "Disconnected" THEN fault' = "handleClose: closed twice"
                                ELSE UNCHANGED fault
  /\ status' = "Disconnected"
  /\ closes' = closes + 1
  /\ UNCHANGED channelVars

HandleClose ==
  \/ /\ status = "Disconnected"
     /\ fault' = "handleClose: closed twice"
     /\ UNCHANGED <<status, channelVars, closes>>
  \/ /\ status # "Disconnected"
     /\ status' = "Disconnected"
     /\ UpdateChannel(FALSE, FALSE)
     /\ closes' = closes + 1
     /\ UNCHANGED fault

\* POLLHUP without POLLIN.
HupEvent ==
  /\ Dispatch("hup")
  /\ HandleClose
  /\ UNCHANGED <<draining, out, sockVars, queue, writerVars, removed, given>>

\* readv() returns 0: an orderly close, or a reset already reported.
EofOnly == peer = "eof" /\ ~unread                          \* seeded defect
EndOfFile == (peer = "eof" /\ ~unread) \/ (peer = "reset" /\ ~sockErr)

\* NetIntoBuffer: data (message_cb_), an error that only the first read after
\* a reset reports, or the end of file.
NetIntoBuffer ==
  /\ Dispatch("in")
  /\ \/ /\ peer # "reset" /\ unread
        /\ unread' = FALSE
        /\ UNCHANGED <<status, channelVars, closes, fault, sockErr>>
     \/ /\ sockErr
        /\ sockErr' = FALSE
        /\ UNCHANGED <<status, channelVars, closes, fault, unread>>
     \/ /\ EndOfFile
        /\ HandleClose
        /\ UNCHANGED <<sockErr, unread>>
  /\ UNCHANGED <<draining, out, wire, fin, peer, queue, writerVars, removed,
                 given>>

\* BufferIntoNet up to write_cb_: a write() of n <= 0 bytes is LOG_FATAL.
BufferIntoNet ==
  /\ Dispatch("out")
  /\ \/ /\ ~writing
        /\ UNCHANGED <<channelVars, draining, out, wire, fault>>
     \/ /\ writing /\ (WriteFails \/ out = <<>>)
        /\ fault' = "BufferIntoNet: write error"
        /\ UNCHANGED <<channelVars, draining, out, wire>>
     \/ /\ writing /\ ~WriteFails
        /\ \E n \in 1..Len(out) :
             /\ wire' = wire \o SubSeq(out, 1, n)
             /\ out' = SubSeq(out, n + 1, Len(out))
        /\ draining' = (out' = <<>>)
        /\ IF draining' THEN DisableWrite ELSE UNCHANGED channelVars
        /\ UNCHANGED fault
  /\ UNCHANGED <<status, fin, peer, sockErr, unread, queue, writerVars,
                 serverVars, given>>

\* BufferIntoNet after write_cb_: the shutdown that waited for the data.
AfterDrain ==
  /\ fault = "none" /\ draining
  /\ draining' = FALSE
  /\ IF status = "Disconnecting" THEN ShutInLoop ELSE UNCHANGED <<fin, fault>>
  /\ UNCHANGED <<status, channelVars, revents, out, wire, peer, sockErr,
                 unread, queue, writerVars, serverVars, given>>

\* A functor of send() or shutdown() holds a raw pointer to the connection,
\* that of send() also a raw pointer to the data.
Dead(f) == \/ f.op = "send" /\ f.by \notin kept
           \/ f.op # "destroy" /\ Freed

\* The next functor of the io loop.
RunDead ==
  /\ LoopFree
  /\ queue # <<>> /\ Dead(Head(queue))
  /\ queue' = Tail(queue)
  /\ fault' = "use of dead memory"
  /\ UNCHANGED <<status, channelVars, revents, draining, out, sockVars,
                 writerVars, serverVars, given>>

RunNext(op) ==
  /\ LoopFree
  /\ queue # <<>> /\ ~Dead(Head(queue)) /\ Head(queue).op = op
  /\ queue' = Tail(queue)

RunSend ==
  /\ RunNext("send")
  /\ SendInLoop(Head(queue).msg)
  /\ UNCHANGED <<status, revents, draining, fin, peer, sockErr, unread,
                 writerVars, serverVars, fault>>

RunShut ==
  /\ RunNext("shut")
  /\ ShutInLoop
  /\ UNCHANGED <<status, channelVars, revents, draining, out, wire, peer,
                 sockErr, unread, writerVars, serverVars, given>>

ConnectDestory ==
  /\ RunNext("destroy")
  /\ RemoveChannel
  /\ removed' = "done"
  /\ UNCHANGED <<status, reading, writing, revents, draining, out, sockVars,
                 writerVars, closes, given, fault>>

RunFunctor == RunDead \/ RunSend \/ RunShut \/ ConnectDestory

\* Code of the user on the loop thread (callbacks of this connection, of
\* others, or timers) calls send() or shutdown(): it runs inline.  It holds a
\* TcpConnectionPtr the server gave it, before connectDestory.
Unsent(m) == /\ ~Contains(given, <<m, 1>>)
             /\ \A i \in DOMAIN queue : queue[i].op = "send" => queue[i].msg # m
             /\ \A w \in Writers : callerPc[w] # [at |-> "send", msg |-> m]

InUserCode == fault = "none" /\ removed # "done" /\ status = "Connected"

SendInside(m) ==
  /\ InUserCode
  /\ Unsent(m)
  /\ SendInLoop(m)
  /\ UNCHANGED <<status, revents, draining, fin, peer, sockErr, unread, queue,
                 writerVars, serverVars, fault>>

ShutdownInside ==
  /\ InUserCode
  /\ status' = "Disconnecting"
  /\ ShutInLoop
  /\ UNCHANGED <<channelVars, revents, draining, out, wire, peer, sockErr,
                 unread, queue, writerVars, serverVars, given>>
-----------------------------------------------------------------------------
(* The writer threads: status_ is read, and later written, without a lock. *)

CallerAt(w, at) == fault = "none" /\ w \in kept /\ callerPc[w].at = at

Goto(w, pc) == callerPc' = [callerPc EXCEPT ![w] = pc]

SendCheck(w, m) ==
  /\ CallerAt(w, "idle")
  /\ status = "Connected"
  /\ Unsent(m)
  /\ Goto(w, [at |-> "send", msg |-> m])
  /\ UNCHANGED <<status, channelVars, revents, draining, out, sockVars, queue,
                 careful, kept, serverVars, given, fault>>

SendPost(w) ==
  /\ CallerAt(w, "send")
  /\ queue' = Append(queue, [op |-> "send", msg |-> callerPc[w].msg, by |-> w])
  /\ Goto(w, Idle)
  /\ UNCHANGED <<status, channelVars, revents, draining, out, sockVars,
                 careful, kept, serverVars, given, fault>>

ShutdownCheck(w) ==
  /\ CallerAt(w, "idle")
  /\ status = "Connected"
  /\ Goto(w, [at |-> "mark"])
  /\ UNCHANGED <<status, channelVars, revents, draining, out, sockVars, queue,
                 careful, kept, serverVars, given, fault>>

ShutdownMarkOnly(w) ==                                      \* seeded defect
  /\ CallerAt(w, "mark")
  /\ status' = "Disconnecting"
  /\ Goto(w, Idle)
  /\ UNCHANGED <<channelVars, revents, draining, out, sockVars, queue,
                 careful, kept, serverVars, given, fault>>

ShutdownMark(w) ==
  /\ CallerAt(w, "mark")
  /\ status' = "Disconnecting"
  /\ Goto(w, [at |-> "post"])
  /\ UNCHANGED <<channelVars, revents, draining, out, sockVars, queue,
                 careful, kept, serverVars, given, fault>>

ShutdownPost(w) ==
  /\ CallerAt(w, "post")
  /\ queue' = Append(queue, [op |-> "shut", by |-> w])
  /\ Goto(w, Idle)
  /\ UNCHANGED <<status, channelVars, revents, draining, out, sockVars,
                 careful, kept, serverVars, given, fault>>

Pending(w) == {i \in DOMAIN queue : queue[i].op # "destroy" /\ queue[i].by = w}

\* A writer is done with the connection: its strings and its TcpConnectionPtr
\* go out of scope.  A careful one waits until its functors have run.
Leave(w) ==
  /\ CallerAt(w, "idle")
  /\ w \in careful => Pending(w) = {}
  /\ kept' = kept \ {w}
  /\ UNCHANGED <<status, channelVars, revents, draining, out, sockVars, queue,
                 callerPc, careful, serverVars, given, fault>>
-----------------------------------------------------------------------------
(* The server's loop and the peer.                                         *)

\* close_cb_ -> TcpServer::removeConnection -> connectDestory on the io loop;
\* the assert there finds the connection still in connections_.
ServerRemove ==
  /\ fault = "none"
  /\ \/ /\ closes = 1 /\ removed = "no"
        /\ removed' = "posted"
        /\ queue' = Append(queue, [op |-> "destroy"])
        /\ UNCHANGED fault
     \/ /\ closes > 1
        /\ fault' = "removeConnection: not there"
        /\ UNCHANGED <<removed, queue>>
  /\ UNCHANGED <<status, channelVars, revents, draining, out, sockVars,
                 writerVars, closes, given>>

PeerSend ==
  /\ fault = "none" /\ peer = "open" /\ ~unread
  /\ unread' = TRUE
  /\ UNCHANGED <<status, channelVars, revents, draining, out, wire, fin, peer,
                 sockErr, queue, writerVars, serverVars, given, fault>>

PeerClose ==
  /\ fault = "none" /\ peer = "open"
  /\ peer' = "eof"
  /\ UNCHANGED <<status, channelVars, revents, draining, out, wire, fin,
                 sockErr, unread, queue, writerVars, serverVars, given, fault>>

PeerReset ==
  /\ fault = "none" /\ peer # "reset"
  /\ peer' = "reset"
  /\ sockErr' = TRUE
  /\ unread' = FALSE
  /\ UNCHANGED <<status, channelVars, revents, draining, out, wire, fin,
                 queue, writerVars, serverVars, given, fault>>
-----------------------------------------------------------------------------
Handler == HupEvent \/ NetIntoBuffer \/ BufferIntoNet \/ AfterDrain

WriterStep(w) == SendPost(w) \/ ShutdownMark(w) \/ ShutdownPost(w)

Next == \/ Poll(TRUE) \/ Poll(FALSE)
        \/ Handler
        \/ RunFunctor
        \/ ShutdownInside
        \/ \E m \in Msgs : SendInside(m)
        \/ \E w \in Writers : \/ WriterStep(w)
                              \/ ShutdownCheck(w)
                              \/ \E m \in Msgs : SendCheck(w, m)
                              \/ Leave(w)
        \/ ServerRemove
        \/ PeerSend \/ PeerClose \/ PeerReset

\* Every iteration of loop() polls once and runs the queue once, and handlers
\* return; a writer inside send() or shutdown() goes on; the server's loop
\* runs removeConnection.  Poll(TRUE): while data is pending the peer reads,
\* so that the kernel has room again and again.
Fairness == /\ SF_vars(Poll(TRUE))
            /\ SF_vars(RunFunctor)
            /\ WF_vars(Handler)
            /\ \A w \in Writers : WF_vars(WriterStep(w))
            /\ WF_vars(ServerRemove)

Spec == Init /\ [][Next]_vars /\ Fairness
-----------------------------------------------------------------------------
(* Properties.                                                             *)

Functors == [op : {"send"}, msg : Msgs, by : Writers]
            \union [op : {"shut"}, by : Writers] \union [op : {"destroy"}]

CallerPcs == {Idle} \union [at : {"send"}, msg : Msgs]
             \union [at : {"mark", "post"}]

\* Types; the epoll set holds no fd that fd_channel_map_ does not know, and
\* the test after write_cb_ comes last in a handleEvent.
TypeOK ==
  /\ status \in {"Connected", "Disconnecting", "Disconnected"}
  /\ reading \in BOOLEAN /\ writing \in BOOLEAN
  /\ inMap \in BOOLEAN /\ added \in BOOLEAN
  /\ revents \subseteq {"hup", "in", "out"}
  /\ draining \in BOOLEAN
  /\ out \in Seq(Msgs \X {1, 2}) /\ wire \in Seq(Msgs \X {1, 2})
  /\ fin \in BOOLEAN
  /\ peer \in {"open", "eof", "reset"}
  /\ sockErr \in BOOLEAN /\ unread \in BOOLEAN
  /\ queue \in Seq(Functors)
  /\ callerPc \in [Writers -> CallerPcs]
  /\ careful \subseteq Writers /\ kept \subseteq Writers
  /\ closes \in Nat
  /\ removed \in {"no", "posted", "done"}
  /\ given \in Seq(Msgs \X {1, 2})
  /\ added => inMap
  /\ draining => revents = {}

Closed == closes > 0

\* The bytes on the wire and in outBuffer_ are, in order and without gap or
\* repetition, a prefix of what was handed to sendInLoop; as long as write()
\* has had no reason to fail they are all of it.  Direct writes, short
\* writes, appends and drains interleave with sends from every thread.
StreamIntegrity ==
  /\ IsPrefix(wire \o out, given)
  /\ WriteFails \/ wire \o out = given

\* While the connection is up, POLLOUT is asked for exactly when data is
\* buffered: less, and the data is stuck; more, and BufferIntoNet writes
\* nothing, which it takes for a fatal error.
PendingIffWriting ==
  fault = "none" /\ ~Closed => (writing <=> out # <<>>)

\* Each way the process can die has its one cause: a fatal write error needs
\* a reset or a connection already closed, a fatal shutdown needs
\* data that is still buffered, a second close needs a channel that a late
\* send registered again after connectDestory, and dead memory is only
\* touched for writers that do not keep it alive.
FaultCauses ==
  /\ fault = "BufferIntoNet: write error" => peer = "reset" \/ Closed
  /\ fault = "shutInLoop: is writing" => out # <<>>
  /\ fault \in {"handleClose: closed twice", "removeConnection: not there"}
       => removed = "done" /\ inMap
  /\ fault = "use of dead memory" => careful # Writers

\* Buffered data of a live connection to a peer that keeps reading is
\* written out, unless the connection closes or the process stops.
FlushEventually == out # <<>> /\ ~Closed
                     ~> out = <<>> \/ Closed \/ fault # "none"

\* A shutdown() that found the connection up ends with the write side shut
\* down, unless the connection closes or the process stops.
ShutdownCompletes == status = "Disconnecting"
                       ~> fin \/ Closed \/ fault # "none"

\* A close or a reset by the peer is noticed, and the channel leaves the
\* poller through the server, unless the process stops.
PeerCloseIsHandled == peer # "open" ~> removed = "done" \/ fault # "none"
=============================================================================
