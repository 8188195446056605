----------------------------- MODULE TcpServer -----------------------------
(***************************************************************************)
(* base/src/TcpServer.cpp and base/include/TcpServer.h (Acceptor) with     *)
(* EventLoopPool::getNextLoop, the Poller of every loop, Channel::tie and  *)
(* the functors through which the main loop and the io loops hand a        *)
(* connection to each other: how a connection is accepted, established,    *)
(* closed, removed and deleted, how its descriptor is used again, and what *)
(* a send() or shutdown() of another thread does to that when it comes     *)
(* late.                                                                   *)
(*                                                                         *)
(* Loop 0 is the main loop; with no io threads it does the io as well and  *)
(* every runInLoop is a plain call.  A push on another loop's queue is one *)
(* step (module TaskQueue).  A connection object has no variable of its    *)
(* own: it is alive while some TcpConnectionPtr refers to it, and its      *)
(* destructor closes the descriptor.                                       *)
(*                                                                         *)
(* Of the output of a connection (module TcpConnection) only what reaches  *)
(* the Poller is here.  User code is careful: it keeps its pointer until   *)
(* the functors of its send() and shutdown() have run.                     *)
(***************************************************************************)
EXTENDS Naturals, Sequences, FiniteSets

CONSTANTS MaxConns,      \* how many connections are accepted
          Fds,           \* the descriptors accept() can return
          ThreadCounts,  \* the values given to setThreadNum
          Shared         \* connections that other threads send on or shut down

ASSUME ServerAssumption == /\ MaxConns \in Nat
                           /\ Fds \subseteq Nat \ {0}
                           /\ ThreadCounts \subseteq Nat
                           /\ Shared \subseteq Nat

VARIABLES
  threads,      \* loop_num_ of the pool
  count,        \* count_ of the pool
  nextConnId,   \* nextConnId_
  connections,  \* connections_, which owns the connections
  fd, loopOf,   \* fd_ and loop_ of the connections created so far
  status,       \* status_ of the connections created so far
  held,         \* connections that user code holds a TcpConnectionPtr of
  sender,       \* per connection, a thread in send(): "idle", "tested" or
                \* "posted" (sendInLoop is queued and has not run)
  shutting,     \* connections with a thread in shutdown() behind its test
  fdMap,        \* per loop, fd_channel_map_: descriptor -> connection
  epoll,        \* per loop, the connections in the kernel's epoll set
  active,       \* per loop, reported by poll and not handled yet
  handling,     \* per loop, the connection kept by the guard of handleEvent
  queue,        \* per loop, functions_
  batch, pos,   \* per loop, the vector doFunctions runs and how far it is
  pc,           \* per loop, "poll", "events" or "run"
  peerClosed,   \* connections whose peer has closed
  callbacks,    \* history: the calls of conn_cb_ for each connection
  late,         \* history: put back into the Poller after connectDestory
  fault         \* where an assert or LOG_FATAL has ended the process, or {}

poolVars == <<threads, count>>
connVars == <<fd, loopOf>>
pollVars == <<fdMap, epoll>>
loopVars == <<active, pc, batch, pos>>
userVars == <<sender, shutting>>
vars == <<poolVars, nextConnId, connections, connVars, status, held, userVars,
          pollVars, loopVars, handling, queue, peerClosed, callbacks, late,
          fault>>

Conns   == 1..MaxConns
Loops   == 0..threads
Created == 1..(nextConnId - 1)
None    == 0
Listen  == 0    \* the acceptor's channel among the active ones of loop 0

\* The functor of send() binds a raw pointer, the others a TcpConnectionPtr.
Refers(fs, c) == \E i \in DOMAIN fs : fs[i].conn = c /\ fs[i].op # "send"

AliveNoGuard(c) ==            \* seeded defect: handleEvent keeps no guard
  \/ c \in connections
  \/ c \in held
  \/ \E l \in Loops : Refers(queue[l], c) \/ Refers(batch[l], c)

\* Some TcpConnectionPtr refers to c: the server's set, user code, a functor
\* that is queued or in a batch not finished yet, or the guard of handleEvent.
Alive(c) == \/ c \in connections
            \/ c \in held
            \/ \E l \in Loops : \/ Refers(queue[l], c)
                                \/ Refers(batch[l], c)
                                \/ handling[l] = c

OpenFds == {fd[c] : c \in {d \in Created : Alive(d)}}

Init ==
  /\ threads \in ThreadCounts
  /\ count = 0
  /\ nextConnId = 1
  /\ connections = {}
  /\ fd = <<>> /\ loopOf = <<>> /\ status = <<>>
  /\ held = {}
  /\ sender = [c \in Conns |-> "idle"] /\ shutting = {}
  /\ fdMap = [l \in Loops |-> [f \in Fds |-> None]]
  /\ epoll = [l \in Loops |-> {}]
  /\ active = [l \in Loops |-> {}]
  /\ handling = [l \in Loops |-> None]
  /\ queue = [l \in Loops |-> <<>>]
  /\ batch = [l \in Loops |-> <<>>]
  /\ pos = [l \in Loops |-> 1]
  /\ pc = [l \in Loops |-> "poll"]
  /\ peerClosed = {}
  /\ callbacks = [c \in Conns |-> <<>>]
  /\ late = {}
  /\ fault = {}
-----------------------------------------------------------------------------
(* The pieces that handlers and functors are made of.                      *)

Post(l, f) == queue' = [queue EXCEPT ![l] = Append(@, f)]

\* EventLoopPool::getNextLoop: the io loops in turn, or the main loop.
NextLoop == IF threads = 0 THEN 0 ELSE count + 1

AdvanceOver ==                \* seeded defect: the wrap comes one too late
  count' = IF threads = 0 \/ count = threads THEN 0 ELSE count + 1

Advance == count' = IF threads = 0 \/ count + 1 = threads THEN 0 ELSE count + 1

\* A thread is inside send() or shutdown(), or the functor has yet to run.
Busy(c) == sender[c] # "idle" \/ c \in shutting

\* conn_cb_: user code may keep the pointer it is given, or drop it.
UserKeepsOrDrops(c) == \/ held' = held \union {c}
                       \/ ~Busy(c) /\ held' = held \ {c}

ConnCallbackUpOnly(c, what) ==  \* seeded defect: a close is not reported
  /\ callbacks' = IF what = "up" THEN [callbacks EXCEPT ![c] = Append(@, what)]
                                 ELSE callbacks
  /\ UserKeepsOrDrops(c)

ConnCallback(c, what) ==
  /\ callbacks' = [callbacks EXCEPT ![c] = Append(@, what)]
  /\ UserKeepsOrDrops(c)

\* Poller::update_channel for a descriptor that the map does not have.
AddChannel(l, c, f) ==
  /\ fdMap' = [fdMap EXCEPT ![l][f] = c]
  /\ epoll' = [epoll EXCEPT ![l] = @ \union {c}]

\* TcpConnection::connectEstablished on loop l for descriptor f: enableRead,
\* then conn_cb_.
Establish(l, c, f) ==
  /\ fdMap[l][f] = None
  /\ AddChannel(l, c, f)
  /\ ConnCallback(c, "up")

\* Poller::removeChannel.
RemoveChannel(l, c) ==
  /\ fdMap' = [fdMap EXCEPT ![l][fd[c]] = None]
  /\ epoll' = [epoll EXCEPT ![l] = @ \ {c}]

\* What removeChannel asserts of a map entry, and what update_channel does:
\* the Channel of another connection on this descriptor has been deleted.
SameChannel(l, c) == fdMap[l][fd[c]] \in {None, c}

\* Channel::disableAll: the descriptor leaves the epoll set, not the map.
DisableNothing(l, c) == epoll                                 \* seeded defect

DisableAll(l, c) == [epoll EXCEPT ![l] = @ \ {c}]

\* close_cb_ is TcpServer::whenOldConnDisconnect: removeConnection on the main
\* loop.  On the main loop itself, that and connectDestory are plain calls.
NotifyNobody(l, c) ==                                         \* seeded defect
  epoll' = DisableAll(l, c) /\ UNCHANGED <<connections, fdMap, queue>>

WhenOldConnDisconnect(l, c) ==
  \/ /\ l = 0
     /\ connections' = connections \ {c}
     /\ RemoveChannel(0, c)
     /\ UNCHANGED queue
  \/ /\ l # 0
     /\ epoll' = DisableAll(l, c)
     /\ Post(0, [op |-> "remove", conn |-> c])
     /\ UNCHANGED <<connections, fdMap>>

-----------------------------------------------------------------------------
(* Loop 0: Acceptor::handleNewConnect and TcpServer::whenNewConnection.    *)

\* accept() returns the lowest descriptor that is free.
Lowest(f) == f \notin OpenFds /\ \A g \in Fds \ OpenFds : f <= g

Accepts == /\ pc[0] = "events" /\ handling[0] = None
           /\ Listen \in active[0]

Accept ==
  LET c == nextConnId
      l == NextLoop
  IN
  /\ Accepts
  /\ active' = [active EXCEPT ![0] = @ \ {Listen}]
  /\ \E f \in Fds :
       /\ Lowest(f)
       /\ fd' = Append(fd, f)
       /\ \/ /\ l = 0
             /\ Establish(0, c, f)
             /\ status' = Append(status, "Connected")
             /\ UNCHANGED queue
          \/ /\ l # 0
             /\ Post(l, [op |-> "establish", conn |-> c])
             /\ status' = Append(status, "Disconnected")
             /\ UNCHANGED <<pollVars, callbacks, held>>
  /\ loopOf' = Append(loopOf, l)
  /\ connections' = connections \union {c}
  /\ nextConnId' = nextConnId + 1
  /\ Advance
  /\ UNCHANGED <<threads, userVars, pc, batch, pos, handling, peerClosed, late,
                 fault>>

\* accept() fails, as it does at least when no descriptor is left, or the
\* client has gone again: the handler does nothing.
AcceptFails ==
  /\ Accepts
  /\ active' = [active EXCEPT ![0] = @ \ {Listen}]
  /\ UNCHANGED <<poolVars, nextConnId, connections, connVars, status, held,
                 userVars, pollVars, pc, batch, pos, handling, queue,
                 peerClosed, callbacks, late, fault>>
-----------------------------------------------------------------------------
(* Every loop.                                                             *)

\* What epoll_wait must report, and what it reports if the kernel has room or
\* the peer has reset: a channel that was put back asks for POLLOUT only.
Ready(l) == {c \in epoll[l] \ late : Alive(c) /\ c \in peerClosed}
            \union (IF l = 0 /\ nextConnId <= MaxConns THEN {Listen} ELSE {})

MayBeReady(l) == {c \in epoll[l] \intersect late : Alive(c)}

\* Poller::poll: returns for a ready descriptor or for a pushed functor; each
\* channel reported must be the one fd_channel_map_ has for its descriptor.
InMap(l, cs) == \A c \in cs \ {Listen} : fdMap[l][fd[c]] = c

Poll(l) ==
  /\ pc[l] = "poll"
  /\ \E more \in SUBSET MayBeReady(l) :
       /\ Ready(l) \union more # {} \/ queue[l] # <<>>
       /\ InMap(l, Ready(l) \union more)
       /\ active' = [active EXCEPT ![l] = Ready(l) \union more]
  /\ pc' = [pc EXCEPT ![l] = "events"]
  /\ UNCHANGED <<poolVars, nextConnId, connections, connVars, status, held,
                 userVars, pollVars, batch, pos, handling, queue, peerClosed,
                 callbacks, late, fault>>

Handles(l, c) == /\ pc[l] = "events" /\ handling[l] = None
                 /\ c \in active[l] \ {Listen}

\* Asserted or taken for granted on the way from handleEvent to close_cb_: the
\* channel is there, status_ is not Disconnected yet (LOG_FATAL) and, if it
\* runs inline, removeConnection finds the connection.
CanClose(l, c) == /\ Alive(c)
                  /\ status[c] # "Disconnected"
                  /\ l = 0 => c \in connections /\ SameChannel(0, c)

\* Channel::handleEvent -> TcpConnection::handleClose for a peer that closed:
\* the guard, status_, disableAll, conn_cb_, then close_cb_.
HandleClose(l, c) ==
  /\ Handles(l, c) /\ CanClose(l, c)
  /\ active' = [active EXCEPT ![l] = @ \ {c}]
  /\ handling' = [handling EXCEPT ![l] = c]
  /\ status' = [status EXCEPT ![c] = "Disconnected"]
  /\ ConnCallback(c, "down")
  /\ WhenOldConnDisconnect(l, c)
  /\ UNCHANGED <<poolVars, nextConnId, connVars, userVars, pc, batch, pos,
                 peerClosed, late, fault>>

\* handleEvent -> BufferIntoNet for a channel that was put back: when all is
\* written, disableWrite leaves no event and takes it out of the epoll set.
BufferIntoNet(l, c) ==
  /\ Handles(l, c) /\ c \in late /\ Alive(c)
  /\ active' = [active EXCEPT ![l] = @ \ {c}]
  /\ epoll' \in {epoll, [epoll EXCEPT ![l] = @ \ {c}]}
  /\ UNCHANGED <<poolVars, nextConnId, connections, connVars, status, held,
                 userVars, fdMap, pc, batch, pos, handling, queue, peerClosed,
                 callbacks, late, fault>>

\* handleEvent returns and its guard is dropped.
EndEvent(l) ==
  /\ handling[l] # None
  /\ handling' = [handling EXCEPT ![l] = None]
  /\ UNCHANGED <<poolVars, nextConnId, connections, connVars, status, held,
                 userVars, pollVars, loopVars, queue, peerClosed, callbacks,
                 late, fault>>

\* doFunctions takes the queue.
Swap(l) ==
  /\ pc[l] = "events" /\ handling[l] = None /\ active[l] = {}
  /\ batch' = [batch EXCEPT ![l] = queue[l]]
  /\ queue' = [queue EXCEPT ![l] = <<>>]
  /\ pos' = [pos EXCEPT ![l] = 1]
  /\ pc' = [pc EXCEPT ![l] = "run"]
  /\ UNCHANGED <<poolVars, nextConnId, connections, connVars, status, held,
                 userVars, pollVars, active, handling, peerClosed, callbacks,
                 late, fault>>

\* The functor of doFunctions that is called next; the vector keeps its
\* copy, and so the pointer in it, until the whole batch is done.
IsNext(l, op) == /\ pc[l] = "run"
                 /\ pos[l] <= Len(batch[l])
                 /\ batch[l][pos[l]].op = op

Current(l, op) == IsNext(l, op) /\ pos' = [pos EXCEPT ![l] = @ + 1]

RunEstablish(l) ==
  /\ Current(l, "establish")
  /\ LET c == batch[l][pos[l]].conn IN
       /\ Establish(l, c, fd[c])
       /\ status' = [status EXCEPT ![c] = "Connected"]
  /\ UNCHANGED <<poolVars, nextConnId, connections, connVars, userVars, active,
                 pc, batch, handling, queue, peerClosed, late, fault>>

\* TcpServer::removeConnection, on the main loop, asserts that it is there.
RunRemove(l) ==
  /\ Current(l, "remove")
  /\ LET c == batch[l][pos[l]].conn IN
       /\ c \in connections
       /\ connections' = connections \ {c}
       /\ Post(loopOf[c], [op |-> "destory", conn |-> c])
  /\ UNCHANGED <<poolVars, nextConnId, connVars, status, held, userVars,
                 pollVars, active, pc, batch, handling, peerClosed, callbacks,
                 late, fault>>

\* TcpConnection::connectDestory.
RunDestory(l) ==
  /\ Current(l, "destory")
  /\ LET c == batch[l][pos[l]].conn IN
       /\ SameChannel(l, c)
       /\ RemoveChannel(l, c)
  /\ UNCHANGED <<poolVars, nextConnId, connections, connVars, status, held,
                 userVars, active, pc, batch, handling, queue, peerClosed,
                 callbacks, late, fault>>

\* sendInLoop: write() takes or refuses all of it, or enableWrite asks for
\* POLLOUT: an event more for a channel in the map, which changes nothing here
\* or, after disableAll, fails; a channel that connectDestory has taken out is
\* put back.
RunSend(l) ==
  /\ Current(l, "send")
  /\ LET c == batch[l][pos[l]].conn IN
       /\ SameChannel(l, c)
       /\ sender' = [sender EXCEPT ![c] = "idle"]
       /\ \/ UNCHANGED <<pollVars, late>>
          \/ /\ fdMap[l][fd[c]] = None
             /\ AddChannel(l, c, fd[c])
             /\ late' = late \union {c}
  /\ UNCHANGED <<poolVars, nextConnId, connections, connVars, status, held,
                 shutting, active, pc, batch, handling, queue, peerClosed,
                 callbacks, fault>>

\* The vector of doFunctions dies, and with it the pointers it held.
EndBatch(l) ==
  /\ pc[l] = "run"
  /\ pos[l] > Len(batch[l])
  /\ batch' = [batch EXCEPT ![l] = <<>>]
  /\ pos' = [pos EXCEPT ![l] = 1]
  /\ pc' = [pc EXCEPT ![l] = "poll"]
  /\ UNCHANGED <<poolVars, nextConnId, connections, connVars, status, held,
                 userVars, pollVars, active, handling, queue, peerClosed,
                 callbacks, late, fault>>
-----------------------------------------------------------------------------
(* Where the conditions above do not hold, an assert fails or LOG_FATAL is *)
(* called, or deleted memory is used; the process is then taken to end.    *)

\* The connections for which the next thing that loop l does goes wrong.
Failing(l) ==
  {c \in Created :
     \/ pc[l] = "poll" /\ c \in Ready(l) \union MayBeReady(l) /\ ~InMap(l, {c})
     \/ Handles(l, c) /\ ~CanClose(l, c)
     \/ IsNext(l, "establish") /\ c = batch[l][pos[l]].conn
          /\ fdMap[l][fd[c]] # None
     \/ IsNext(l, "remove") /\ c = batch[l][pos[l]].conn /\ c \notin connections
     \/ (IsNext(l, "destory") \/ IsNext(l, "send")) /\ c = batch[l][pos[l]].conn
          /\ ~SameChannel(l, c)}

\* The descriptors on which a new connection cannot be established inline.
AcceptFailing(l) == {f \in Fds : /\ l = 0 /\ NextLoop = 0 /\ Accepts
                                 /\ Lowest(f) /\ fdMap[0][f] # None}

\* The place of a failure: the loop and the descriptor of the connection.
Failures(l) == {[loop |-> loopOf[c], fd |-> fd[c]] : c \in Failing(l)}
               \union {[loop |-> 0, fd |-> f] : f \in AcceptFailing(l)}

Abort(l) ==
  /\ \E x \in Failures(l) : fault' = {x}
  /\ UNCHANGED <<poolVars, nextConnId, connections, connVars, status, held,
                 userVars, pollVars, loopVars, handling, queue, peerClosed,
                 callbacks, late>>
-----------------------------------------------------------------------------
(* User code on its own threads, with a pointer that it keeps.             *)

\* send() reads status_ and later, without a lock, pushes its functor; its
\* next send() here is one after that has run.
SendTest(c) ==
  /\ c \in held \intersect Shared
  /\ sender[c] = "idle" /\ status[c] = "Connected"
  /\ sender' = [sender EXCEPT ![c] = "tested"]
  /\ UNCHANGED <<poolVars, nextConnId, connections, connVars, status, held,
                 shutting, pollVars, loopVars, handling, queue, peerClosed,
                 callbacks, late, fault>>

SendPost(c) ==
  /\ sender[c] = "tested"
  /\ sender' = [sender EXCEPT ![c] = "posted"]
  /\ Post(loopOf[c], [op |-> "send", conn |-> c])
  /\ UNCHANGED <<poolVars, nextConnId, connections, connVars, status, held,
                 shutting, pollVars, loopVars, handling, peerClosed, callbacks,
                 late, fault>>

\* shutdown() reads status_ and then writes it, whatever it has become.
ShutdownTest(c) ==
  /\ c \in (held \intersect Shared) \ shutting
  /\ status[c] = "Connected"
  /\ shutting' = shutting \union {c}
  /\ UNCHANGED <<poolVars, nextConnId, connections, connVars, status, held,
                 sender, pollVars, loopVars, handling, queue, peerClosed,
                 callbacks, late, fault>>

ShutdownMark(c) ==
  /\ c \in shutting
  /\ shutting' = shutting \ {c}
  /\ status' = [status EXCEPT ![c] = "Disconnecting"]
  /\ UNCHANGED <<poolVars, nextConnId, connections, connVars, held, sender,
                 pollVars, loopVars, handling, queue, peerClosed, callbacks,
                 late, fault>>

\* User code drops the pointer it kept.
Release(c) ==
  /\ c \in held /\ ~Busy(c)
  /\ held' = held \ {c}
  /\ UNCHANGED <<poolVars, nextConnId, connections, connVars, status, userVars,
                 pollVars, loopVars, handling, queue, peerClosed, callbacks,
                 late, fault>>

PeerClose(c) ==
  /\ c \in Created \ peerClosed
  /\ peerClosed' = peerClosed \union {c}
  /\ UNCHANGED <<poolVars, nextConnId, connections, connVars, status, held,
                 userVars, pollVars, loopVars, handling, queue, callbacks, late,
                 fault>>
-----------------------------------------------------------------------------
LoopStep(l) == /\ fault = {}
               /\ \/ Poll(l) \/ EndEvent(l) \/ Swap(l) \/ EndBatch(l)
                  \/ RunEstablish(l) \/ RunRemove(l) \/ RunDestory(l)
                  \/ RunSend(l)
                  \/ \E c \in Created : HandleClose(l, c) \/ BufferIntoNet(l, c)
                  \/ l = 0 /\ (Accept \/ AcceptFails)
                  \/ Abort(l)

\* What user code has begun it ends, and it drops its pointers.
UserEnds(c) == /\ fault = {}
               /\ SendPost(c) \/ ShutdownMark(c) \/ Release(c)

Next == \/ \E l \in Loops : LoopStep(l)
        \/ \E c \in Created : \/ UserEnds(c)
                              \/ /\ fault = {}
                                 /\ SendTest(c) \/ ShutdownTest(c) \/ PeerClose(c)

\* Every loop thread runs (EventLoop: it is woken for every push), and user
\* code goes on inside send() and shutdown() and sooner or later drops the
\* pointers it keeps.
Fairness == /\ \A l \in UNION {0..n : n \in ThreadCounts} :
                 WF_vars(l \in Loops /\ LoopStep(l))
            /\ \A c \in Conns : WF_vars(c \in Created /\ UserEnds(c))

Spec == Init /\ [][Next]_vars /\ Fairness
-----------------------------------------------------------------------------
(* Properties.                                                             *)

Functors == [op : {"establish", "remove", "destory", "send"}, conn : Created]

\* Types; functors are on the loop they are for, and a loop blocked in poll
\* holds nothing of an earlier iteration.
TypeOK ==
  /\ threads \in ThreadCounts
  /\ count \in Nat /\ (count = 0 \/ count < threads)
  /\ nextConnId \in 1..(MaxConns + 1)
  /\ connections \subseteq Created
  /\ fd \in [Created -> Fds]
  /\ loopOf \in [Created -> Loops]
  /\ status \in [Created -> {"Connected", "Disconnecting", "Disconnected"}]
  /\ held \subseteq Created
  /\ sender \in [Conns -> {"idle", "tested", "posted"}]
  /\ shutting \subseteq Created
  /\ fdMap \in [Loops -> [Fds -> Created \union {None}]]
  /\ epoll \in [Loops -> SUBSET Created]
  /\ active \in [Loops -> SUBSET (Created \union {Listen})]
  /\ handling \in [Loops -> Created \union {None}]
  /\ pc \in [Loops -> {"poll", "events", "run"}]
  /\ peerClosed \subseteq Created
  /\ callbacks \in [Conns -> Seq({"up", "down"})]
  /\ late \subseteq Created
  /\ fault \subseteq [loop : Loops, fd : Fds]
  /\ \A l \in Loops :
       /\ queue[l] \in Seq(Functors)
       /\ batch[l] \in Seq(Functors)
       /\ pos[l] \in 1..(Len(batch[l]) + 1)
       /\ pc[l] = "poll" => batch[l] = <<>>
       /\ pc[l] # "events" => active[l] = {} /\ handling[l] = None
       /\ \A i \in DOMAIN queue[l] :
            IF queue[l][i].op = "remove" THEN l = 0
                                         ELSE loopOf[queue[l][i].conn] = l

\* Every Channel* in a loop's map belongs to a connection with that very
\* descriptor on that very loop, and a Channel* that poll reported to one of
\* that loop.  The connection is alive, unless a late send has put its channel
\* back: then nothing takes the entry out when the connection is deleted, and
\* user code may delete it between poll and handler.  No other entry outlives
\* its connection, although a handler may make the server drop its pointer and
\* other loops go on meanwhile, and no other report comes too late.
UsedIsAlive ==
  \A l \in Loops :
    /\ \A f \in Fds :
         LET c == fdMap[l][f] IN
           c # None => /\ Alive(c) \/ c \in late
                       /\ fd[c] = f /\ loopOf[c] = l
    /\ handling[l] # None => Alive(handling[l])
    /\ \A c \in active[l] \ {Listen} : /\ Alive(c) \/ c \in late
                                       /\ loopOf[c] = l

\* No assert of Poller, Channel and TcpServer fails and no connection is
\* closed twice (LOG_FATAL in handleClose), also when shutdown() writes status_
\* over that of a close, except on a descriptor that a late send has put back
\* into the poller of that very loop, for its connection or the next one to
\* get that descriptor.
OnlyLateSendsAreFatal ==
  \A x \in fault : \E c \in late : fd[c] = x.fd /\ loopOf[c] = x.loop

\* The life of each connection, as the callbacks and the last pointer to it
\* show it, and the use of descriptors follow ConnLifecycle: up once, down
\* once, never deleted before down, no descriptor shared by live connections;
\* a second down is possible only for a connection that a late send put back.
Phase(c) == IF c \notin Created THEN "none"
            ELSE IF ~Alive(c) THEN "gone"
            ELSE IF c \in late THEN "back"
            ELSE IF callbacks[c] = <<>> THEN "accepted"
            ELSE IF callbacks[c] = <<"up">> THEN "up"
            ELSE IF callbacks[c] = <<"up", "down">> THEN "down"
            ELSE "other"

Life == INSTANCE ConnLifecycle WITH phase <- [c \in Conns |-> Phase(c)],
                                    fd <- fd
ImplementsConnLifecycle == Life!Spec

\* A connection whose peer closed is taken down and deleted, and its
\* descriptor freed, once user code lets go of it, unless the process ends.
ClosedPeerIsCollected ==
  \A c \in Conns : c \in peerClosed ~> ~Alive(c) \/ fault # {}
=============================================================================
