------------------------ MODULE TcpConnectionProofs ------------------------
(***************************************************************************)
(* Proofs about TcpConnection, for any number of writers and messages.     *)
(*                                                                         *)
(* The invariants are not inductive alone.  That no data is lost needs to  *)
(* know that after a refused write nothing is buffered any more            *)
(* (StreamInv); that POLLOUT goes with the buffer needs to know that       *)
(* shutInLoop left nothing behind (WriteInv).  The causes of the faults    *)
(* need to know which channels can still be polled after handleClose       *)
(* (CloseInv), that connectDestory is queued once and that the functors of *)
(* a careful writer find their data (QueueInv).                            *)
(***************************************************************************)
EXTENDS TcpConnection, SequenceTheorems, TLAPS

\* Everything handed to sendInLoop is written or buffered, until a write is
\* refused: then the buffer is empty and stays so.
StreamInv ==
  \/ wire \o out = given
  \/ WriteFails /\ out = <<>> /\ ~writing /\ IsPrefix(wire, given)

\* POLLOUT goes with the buffer until handleClose drops it; the write side is
\* only shut down with nothing buffered.
WriteInv ==
  /\ writing => out # <<>>
  /\ out # <<>> => writing \/ Closed
  /\ fin /\ ~Closed => out = <<>>

\* After handleClose the poller does not report the channel again, unless a
\* late send put it back after connectDestory.
CloseInv ==
  /\ status = "Disconnected" \/ removed # "no" => Closed
  /\ ~inMap => removed = "done"
  /\ Closed => \/ ~added /\ revents \subseteq {"out"}
               \/ removed = "done" /\ inMap
  /\ ~("hup" \in revents /\ "in" \in revents)
  /\ closes > 1 => removed = "done" /\ inMap

\* connectDestory is queued at most once, by removeConnection; functors of
\* careful writers find what they point to.
QueueInv ==
  /\ \A i \in DOMAIN queue : queue[i].op = "destroy" =>
       /\ removed = "posted"
       /\ \A j \in DOMAIN queue : queue[j].op = "destroy" => i = j
  /\ \A i \in DOMAIN queue :
       queue[i].op # "destroy" /\ queue[i].by \in careful => queue[i].by \in kept

IInv == /\ TypeOK /\ StreamInv /\ WriteInv /\ CloseInv /\ QueueInv
        /\ FaultCauses
-----------------------------------------------------------------------------
(* Operators on messages and buffers.                                      *)

\* A message is a sequence of two units.
LEMMA UnitsType ==
  ASSUME NEW m \in Msgs
  PROVE  /\ Units(m) \in Seq(Msgs \X {1, 2}) /\ Len(Units(m)) = 2
         /\ Units(m)[1] \in Msgs \X {1, 2} /\ Units(m)[2] \in Msgs \X {1, 2}
         /\ Units(m) = <<Units(m)[1], Units(m)[2]>>
  BY DEF Units

\* A part of the buffer is written, the rest stays.
LEMMA CutInTwo ==
  ASSUME NEW S, NEW s \in Seq(S), NEW n \in 1..Len(s)
  PROVE  /\ SubSeq(s, 1, n) \in Seq(S) /\ SubSeq(s, n + 1, Len(s)) \in Seq(S)
         /\ SubSeq(s, 1, n) \o SubSeq(s, n + 1, Len(s)) = s
  OBVIOUS

\* What was written and then a part of the buffer, followed by its rest.
LEMMA WriteTheCut ==
  ASSUME NEW S, NEW w \in Seq(S), NEW s \in Seq(S), NEW n \in 1..Len(s)
  PROVE  (w \o SubSeq(s, 1, n)) \o SubSeq(s, n + 1, Len(s)) = w \o s
<1> DEFINE a == SubSeq(s, 1, n)
           b == SubSeq(s, n + 1, Len(s))
<1>1. a \in Seq(S) /\ b \in Seq(S)
  BY CutInTwo
<1>2. a \o b = s
  BY CutInTwo
<1> HIDE DEF a, b
<1>3. (w \o a) \o b = w \o (a \o b)
  BY <1>1, SMTT(60)
<1> QED BY <1>2, <1>3 DEF a, b

ChannelTypes == /\ reading \in BOOLEAN /\ writing \in BOOLEAN
                /\ inMap \in BOOLEAN /\ added \in BOOLEAN
                /\ added => inMap
SocketTypes  == /\ fin \in BOOLEAN
                /\ peer \in {"open", "eof", "reset"}
                /\ sockErr \in BOOLEAN /\ unread \in BOOLEAN
StreamTypes  == /\ out \in Seq(Msgs \X {1, 2}) /\ wire \in Seq(Msgs \X {1, 2})
                /\ given \in Seq(Msgs \X {1, 2})
HandlerTypes == /\ revents \subseteq {"hup", "in", "out"}
                /\ draining \in BOOLEAN
                /\ draining => revents = {}
StatusTypes  == /\ status \in {"Connected", "Disconnecting", "Disconnected"}
                /\ closes \in Nat
                /\ removed \in {"no", "posted", "done"}
QueueTypes   == queue \in Seq(Functors)
WriterTypes  == /\ callerPc \in [Writers -> CallerPcs]
                /\ careful \subseteq Writers /\ kept \subseteq Writers

\* TypeOK by groups of variables that change together.
LEMMA TypeParts ==
  TypeOK <=> /\ ChannelTypes /\ SocketTypes /\ StreamTypes /\ HandlerTypes
             /\ StatusTypes /\ QueueTypes /\ WriterTypes
  BY DEF TypeOK, ChannelTypes, SocketTypes, StreamTypes, HandlerTypes,
         StatusTypes, QueueTypes, WriterTypes

\* Poller::update_channel keeps the epoll set within fd_channel_map_.
LEMMA UpdateChannelTypes ==
  ASSUME ChannelTypes, NEW r \in BOOLEAN, NEW w \in BOOLEAN, UpdateChannel(r, w)
  PROVE  ChannelTypes'
  BY DEF ChannelTypes, UpdateChannel

\* The two changes of POLLOUT keep the types of the channel.
LEMMA EnableWriteTypes ==
  ASSUME ChannelTypes, EnableWrite \/ DisableWrite
  PROVE  ChannelTypes'
<1>1. reading \in BOOLEAN
  BY DEF ChannelTypes
<1> QED BY <1>1, UpdateChannelTypes DEF EnableWrite, DisableWrite

\* sendInLoop keeps the types of the channel and the stream.
LEMMA SendInLoopTypes ==
  ASSUME ChannelTypes, StreamTypes, NEW m \in Msgs, SendInLoop(m)
  PROVE  ChannelTypes' /\ StreamTypes'
<1>1. ChannelTypes'
  BY EnableWriteTypes DEF SendInLoop, channelVars, ChannelTypes
<1>2. /\ given' = given \o Units(m)
      /\ wire' \in {wire, wire \o Units(m), Append(wire, Units(m)[1])}
      /\ out' \in {out, out \o Units(m), Append(out, Units(m)[2])}
  BY DEF SendInLoop
<1>3. StreamTypes'
  <2> DEFINE S == Msgs \X {1, 2}
  <2>1. wire \o Units(m) \in Seq(S) /\ Append(wire, Units(m)[1]) \in Seq(S)
    BY UnitsType DEF StreamTypes
  <2>2. out \o Units(m) \in Seq(S) /\ Append(out, Units(m)[2]) \in Seq(S)
    BY UnitsType DEF StreamTypes
  <2>3. given \o Units(m) \in Seq(S)
    BY UnitsType DEF StreamTypes
  <2> QED BY <1>2, <2>1, <2>2, <2>3, Zenon DEF StreamTypes
<1> QED BY <1>1, <1>3

\* handleClose keeps the types of the channel and the status.
LEMMA HandleCloseTypes ==
  ASSUME ChannelTypes, StatusTypes, HandleClose, UNCHANGED removed
  PROVE  ChannelTypes' /\ StatusTypes'
<1>1. CASE status = "Disconnected"
  <2>1. UNCHANGED channelVars /\ UNCHANGED status /\ UNCHANGED closes
    BY <1>1, Zenon DEF HandleClose
  <2> QED BY <2>1 DEF channelVars, ChannelTypes, StatusTypes
<1>2. CASE status # "Disconnected"
  <2>1. /\ UpdateChannel(FALSE, FALSE)
        /\ status' = "Disconnected" /\ closes' = closes + 1
    BY <1>2, Zenon DEF HandleClose
  <2>2. ChannelTypes'
    BY <2>1, UpdateChannelTypes, Zenon
  <2>3. StatusTypes'
    BY <2>1 DEF StatusTypes
  <2> QED BY <2>2, <2>3
<1> QED BY <1>1, <1>2

\* What is left to dispatch; the write event comes last.
LEMMA DispatchTypes ==
  ASSUME HandlerTypes, NEW e, Dispatch(e)
  PROVE  /\ revents' \subseteq {"hup", "in", "out"}
         /\ draining \in BOOLEAN /\ ~draining
         /\ e = "out" => revents' = {}
  BY DEF HandlerTypes, Dispatch

\* The next functor, and the queue without it.
LEMMA HeadTypes ==
  ASSUME QueueTypes, queue # <<>>
  PROVE  Head(queue) \in Functors /\ Tail(queue) \in Seq(Functors)
  BY DEF QueueTypes

\* A writer moves on inside send() or shutdown().
LEMMA GotoTypes ==
  ASSUME WriterTypes, NEW w \in Writers, NEW pc \in CallerPcs, Goto(w, pc),
         UNCHANGED <<careful, kept>>
  PROVE  WriterTypes'
  BY DEF WriterTypes, Goto

\* The places a writer can be at.
LEMMA PcTypes ==
  /\ Idle \in CallerPcs
  /\ [at |-> "mark"] \in CallerPcs /\ [at |-> "post"] \in CallerPcs
  /\ \A m \in Msgs : [at |-> "send", msg |-> m] \in CallerPcs
  /\ \A pc \in CallerPcs : pc.at = "send" => pc.msg \in Msgs
  BY DEF CallerPcs, Idle

\* The functors, and who made them.
LEMMA FunctorTypes ==
  /\ [op |-> "destroy"] \in Functors
  /\ \A w \in Writers : [op |-> "shut", by |-> w] \in Functors
  /\ \A w \in Writers, m \in Msgs :
       [op |-> "send", msg |-> m, by |-> w] \in Functors
  /\ \A f \in Functors : /\ f.op \in {"send", "shut", "destroy"}
                         /\ f.op = "send" => f.msg \in Msgs
                         /\ f.op # "destroy" => f.by \in Writers
  BY DEF Functors
-----------------------------------------------------------------------------
USE DEF channelVars, sockVars, writerVars, serverVars

\* Every step keeps the types.
LEMMA TypesStep == TypeOK /\ [Next]_vars => TypeOK'
<1> SUFFICES ASSUME ChannelTypes, SocketTypes, StreamTypes, HandlerTypes,
                    StatusTypes, QueueTypes, WriterTypes, [Next]_vars
             PROVE  TypeOK'
  BY TypeParts
<1> DEFINE Goal == /\ ChannelTypes' /\ SocketTypes' /\ StreamTypes'
                   /\ HandlerTypes' /\ StatusTypes' /\ QueueTypes' /\ WriterTypes'
<1> SUFFICES Goal
  BY DEF TypeOK, ChannelTypes, SocketTypes, StreamTypes, HandlerTypes,
         StatusTypes, QueueTypes, WriterTypes
<1>a. UNCHANGED channelVars => ChannelTypes'
  BY DEF ChannelTypes
<1>b. UNCHANGED <<fin, peer, sockErr, unread>> => SocketTypes'
  BY DEF SocketTypes
<1>c. UNCHANGED <<out, wire, given>> => StreamTypes'
  BY DEF StreamTypes
<1>d. UNCHANGED <<revents, draining>> => HandlerTypes'
  BY DEF HandlerTypes
<1>e. UNCHANGED <<status, serverVars>> => StatusTypes'
  BY DEF StatusTypes
<1>f. UNCHANGED queue => QueueTypes'
  BY DEF QueueTypes
<1>g. UNCHANGED writerVars => WriterTypes'
  BY DEF WriterTypes
<1>1. ASSUME NEW room \in BOOLEAN, Poll(room) PROVE Goal
  <2>1. HandlerTypes'
    BY <1>1 DEF Poll, LoopFree, HandlerTypes
  <2>2. UNCHANGED <<status, channelVars, out, sockVars, queue, writerVars,
                    serverVars, given>>
    BY <1>1 DEF Poll
  <2> QED BY <2>1, <2>2, <1>a, <1>b, <1>c, <1>e, <1>f, <1>g
<1>2. CASE HupEvent
  <2>1. /\ Dispatch("hup") /\ HandleClose
        /\ UNCHANGED <<draining, out, sockVars, queue, writerVars, removed, given>>
    BY <1>2 DEF HupEvent
  <2>2. HandlerTypes'
    BY <2>1, DispatchTypes DEF HandlerTypes
  <2> QED BY <2>1, <2>2, HandleCloseTypes, <1>b, <1>c, <1>f, <1>g
<1>3. CASE NetIntoBuffer
  <2>1. /\ Dispatch("in")
        /\ UNCHANGED <<draining, out, wire, fin, peer, queue, writerVars,
                       removed, given>>
    BY <1>3 DEF NetIntoBuffer
  <2>2. HandlerTypes'
    BY <2>1, DispatchTypes DEF HandlerTypes
  <2>3. /\ sockErr' \in {sockErr, FALSE} /\ unread' \in {unread, FALSE}
        /\ HandleClose \/ UNCHANGED <<status, channelVars, closes>>
    BY <1>3 DEF NetIntoBuffer
  <2>4. SocketTypes'
    BY <2>1, <2>3 DEF SocketTypes
  <2>5. ChannelTypes' /\ StatusTypes'
    BY <2>1, <2>3, HandleCloseTypes, <1>a, <1>e
  <2> QED BY <2>1, <2>2, <2>4, <2>5, <1>c, <1>f, <1>g
<1>4. CASE BufferIntoNet
  <2>1. /\ Dispatch("out")
        /\ UNCHANGED <<status, fin, peer, sockErr, unread, queue, writerVars,
                       serverVars, given>>
    BY <1>4 DEF BufferIntoNet
  <2>2. \/ UNCHANGED <<channelVars, draining, out, wire>>
        \/ /\ draining' \in BOOLEAN
           /\ DisableWrite \/ UNCHANGED channelVars
           /\ \E n \in 1..Len(out) : /\ wire' = wire \o SubSeq(out, 1, n)
                                     /\ out' = SubSeq(out, n + 1, Len(out))
    BY <1>4 DEF BufferIntoNet
  <2>3. StreamTypes'
    <3>1. CASE UNCHANGED <<out, wire>>
      BY <2>1, <3>1 DEF StreamTypes
    <3>2. CASE \E n \in 1..Len(out) : /\ wire' = wire \o SubSeq(out, 1, n)
                                      /\ out' = SubSeq(out, n + 1, Len(out))
      <4> DEFINE S == Msgs \X {1, 2}
      <4>1. PICK n \in 1..Len(out) : /\ wire' = wire \o SubSeq(out, 1, n)
                                     /\ out' = SubSeq(out, n + 1, Len(out))
        BY <3>2
      <4>2. out \in Seq(S) /\ wire \in Seq(S)
        BY DEF StreamTypes
      <4> HIDE DEF S
      <4>3. out' \in Seq(S) /\ wire' \in Seq(S)
        BY <4>1, <4>2, CutInTwo
      <4> QED BY <2>1, <4>3 DEF StreamTypes, S
    <3> QED BY <2>2, <3>1, <3>2
  <2>4. ChannelTypes'
    BY <2>2, EnableWriteTypes, <1>a
  <2>5. HandlerTypes'
    BY <2>1, <2>2, DispatchTypes DEF HandlerTypes
  <2> QED BY <2>1, <2>3, <2>4, <2>5, <1>b, <1>e, <1>f, <1>g
<1>5. CASE AfterDrain
  <2>1. /\ fin' \in {fin, TRUE} /\ draining' = FALSE
        /\ UNCHANGED <<status, channelVars, revents, out, wire, peer, sockErr,
                       unread, queue, writerVars, serverVars, given>>
    BY <1>5 DEF AfterDrain, ShutInLoop
  <2>2. SocketTypes' /\ HandlerTypes'
    BY <2>1 DEF SocketTypes, HandlerTypes
  <2> QED BY <2>1, <2>2, <1>a, <1>c, <1>e, <1>f, <1>g
<1>6. CASE RunDead
  <2>1. /\ queue # <<>> /\ queue' = Tail(queue)
        /\ UNCHANGED <<status, channelVars, revents, draining, out, sockVars,
                       writerVars, serverVars, given>>
    BY <1>6 DEF RunDead
  <2>2. QueueTypes'
    BY <2>1, HeadTypes DEF QueueTypes
  <2> QED BY <2>1, <2>2, <1>a, <1>b, <1>c, <1>d, <1>e, <1>g
<1>7. CASE RunSend
  <2>1. /\ queue # <<>> /\ queue' = Tail(queue) /\ Head(queue).op = "send"
        /\ SendInLoop(Head(queue).msg)
        /\ UNCHANGED <<status, revents, draining, fin, peer, sockErr, unread,
                       writerVars, serverVars>>
    BY <1>7 DEF RunSend, RunNext
  <2>2. QueueTypes'
    BY <2>1, HeadTypes DEF QueueTypes
  <2>3. Head(queue).msg \in Msgs
    BY <2>1, HeadTypes, FunctorTypes
  <2>4. ChannelTypes' /\ StreamTypes'
    BY <2>1, <2>3, SendInLoopTypes
  <2> QED BY <2>1, <2>2, <2>4, <1>b, <1>d, <1>e, <1>g
<1>8. CASE RunShut
  <2>1. /\ queue # <<>> /\ queue' = Tail(queue) /\ fin' \in {fin, TRUE}
        /\ UNCHANGED <<status, channelVars, revents, draining, out, wire, peer,
                       sockErr, unread, writerVars, serverVars, given>>
    BY <1>8 DEF RunShut, RunNext, ShutInLoop
  <2>2. QueueTypes' /\ SocketTypes'
    BY <2>1, HeadTypes DEF QueueTypes, SocketTypes
  <2> QED BY <2>1, <2>2, <1>a, <1>c, <1>d, <1>e, <1>g
<1>9. CASE ConnectDestory
  <2>1. /\ queue # <<>> /\ queue' = Tail(queue)
        /\ RemoveChannel /\ removed' = "done"
        /\ UNCHANGED <<status, reading, writing, revents, draining, out,
                       sockVars, writerVars, closes, given>>
    BY <1>9 DEF ConnectDestory, RunNext
  <2>2. QueueTypes' /\ StatusTypes' /\ ChannelTypes'
    BY <2>1, HeadTypes
    DEF QueueTypes, StatusTypes, ChannelTypes, RemoveChannel
  <2> QED BY <2>1, <2>2, <1>b, <1>c, <1>d, <1>g
<1>10. CASE ShutdownInside
  <2>1. /\ status' = "Disconnecting" /\ fin' \in {fin, TRUE}
        /\ UNCHANGED <<channelVars, revents, draining, out, wire, peer, sockErr,
                       unread, queue, writerVars, serverVars, given>>
    BY <1>10 DEF ShutdownInside, ShutInLoop
  <2>2. StatusTypes' /\ SocketTypes'
    BY <2>1 DEF StatusTypes, SocketTypes
  <2> QED BY <2>1, <2>2, <1>a, <1>c, <1>d, <1>f, <1>g
<1>11. ASSUME NEW m \in Msgs, SendInside(m) PROVE Goal
  <2>1. /\ SendInLoop(m)
        /\ UNCHANGED <<status, revents, draining, fin, peer, sockErr, unread,
                       queue, writerVars, serverVars>>
    BY <1>11 DEF SendInside
  <2> QED BY <2>1, SendInLoopTypes, <1>b, <1>d, <1>e, <1>f, <1>g
<1>12. ASSUME NEW w \in Writers, SendPost(w) PROVE Goal
  <2>1. /\ callerPc[w].at = "send" /\ Goto(w, Idle)
        /\ queue' = Append(queue,
                      [op |-> "send", msg |-> callerPc[w].msg, by |-> w])
        /\ UNCHANGED <<status, channelVars, revents, draining, out, sockVars,
                       careful, kept, serverVars, given>>
    BY <1>12 DEF SendPost, CallerAt
  <2>2. callerPc[w].msg \in Msgs
    BY <2>1, PcTypes DEF WriterTypes
  <2>3. QueueTypes'
    BY <2>1, <2>2, FunctorTypes DEF QueueTypes
  <2>4. WriterTypes'
    BY <2>1, PcTypes, GotoTypes
  <2> QED BY <2>1, <2>3, <2>4, <1>a, <1>b, <1>c, <1>d, <1>e
<1>13. ASSUME NEW w \in Writers, ShutdownMark(w) PROVE Goal
  <2>1. /\ status' = "Disconnecting" /\ Goto(w, [at |-> "post"])
        /\ UNCHANGED <<channelVars, revents, draining, out, sockVars, queue,
                       careful, kept, serverVars, given>>
    BY <1>13 DEF ShutdownMark
  <2>2. WriterTypes' /\ StatusTypes'
    BY <2>1, PcTypes, GotoTypes DEF StatusTypes
  <2> QED BY <2>1, <2>2, <1>a, <1>b, <1>c, <1>d, <1>f
<1>14. ASSUME NEW w \in Writers, ShutdownPost(w) PROVE Goal
  <2>1. /\ queue' = Append(queue, [op |-> "shut", by |-> w]) /\ Goto(w, Idle)
        /\ UNCHANGED <<status, channelVars, revents, draining, out, sockVars,
                       careful, kept, serverVars, given>>
    BY <1>14 DEF ShutdownPost
  <2>2. QueueTypes'
    BY <2>1, FunctorTypes DEF QueueTypes
  <2>3. WriterTypes'
    BY <2>1, PcTypes, GotoTypes
  <2> QED BY <2>1, <2>2, <2>3, <1>a, <1>b, <1>c, <1>d, <1>e
<1>15. ASSUME NEW w \in Writers,
              ShutdownCheck(w) \/ \E m \in Msgs : SendCheck(w, m)
       PROVE  Goal
  <2>1. /\ \E pc \in CallerPcs : Goto(w, pc)
        /\ UNCHANGED <<status, channelVars, revents, draining, out, sockVars,
                       queue, careful, kept, serverVars, given>>
    BY <1>15, PcTypes DEF ShutdownCheck, SendCheck
  <2>2. WriterTypes'
    BY <2>1, GotoTypes
  <2> QED BY <2>1, <2>2, <1>a, <1>b, <1>c, <1>d, <1>e, <1>f
<1>16. ASSUME NEW w \in Writers, Leave(w) PROVE Goal
  <2>1. /\ kept' = kept \ {w}
        /\ UNCHANGED <<status, channelVars, revents, draining, out, sockVars,
                       queue, callerPc, careful, serverVars, given>>
    BY <1>16 DEF Leave
  <2>2. WriterTypes'
    BY <2>1 DEF WriterTypes
  <2> QED BY <2>1, <2>2, <1>a, <1>b, <1>c, <1>d, <1>e, <1>f
<1>17. CASE ServerRemove
  <2>1. /\ \/ removed' = "posted" /\ queue' = Append(queue, [op |-> "destroy"])
           \/ UNCHANGED <<removed, queue>>
        /\ UNCHANGED <<status, channelVars, revents, draining, out, sockVars,
                       writerVars, closes, given>>
    BY <1>17 DEF ServerRemove
  <2>2. QueueTypes' /\ StatusTypes'
    BY <2>1, FunctorTypes DEF QueueTypes, StatusTypes
  <2> QED BY <2>1, <2>2, <1>a, <1>b, <1>c, <1>d, <1>g
<1>18. CASE PeerSend \/ PeerClose \/ PeerReset
  <2>1. /\ fin' = fin /\ peer' \in {peer, "eof", "reset"}
        /\ sockErr' \in {sockErr, TRUE} /\ unread' \in {unread, TRUE, FALSE}
        /\ UNCHANGED <<status, channelVars, revents, draining, out, wire, queue,
                       writerVars, serverVars, given>>
    BY <1>18 DEF PeerSend, PeerClose, PeerReset
  <2>2. SocketTypes'
    BY <2>1 DEF SocketTypes
  <2> QED BY <2>1, <2>2, <1>a, <1>c, <1>d, <1>e, <1>f, <1>g
<1>19. CASE UNCHANGED vars
  BY <1>19, <1>a, <1>b, <1>c, <1>d, <1>e, <1>f, <1>g DEF vars
<1> QED
  BY <1>1, <1>2, <1>3, <1>4, <1>5, <1>6, <1>7, <1>8, <1>9, <1>10, <1>11,
     <1>12, <1>13, <1>14, <1>15, <1>16, <1>17, <1>18, <1>19
     DEF Next, Handler, RunFunctor, WriterStep

-----------------------------------------------------------------------------
(* The stream.                                                             *)

\* A sequence is a prefix of what is appended to it.
LEMMA PrefixOfConcat ==
  ASSUME NEW S, NEW s \in Seq(S), NEW t \in Seq(S)
  PROVE  IsPrefix(s, s \o t)
<1>1. /\ s \o t \in Seq(S) /\ Len(s \o t) = Len(s) + Len(t)
      /\ Len(s) \in Nat /\ Len(t) \in Nat
      /\ \A i \in 1..Len(s) : (s \o t)[i] = s[i]
  OBVIOUS
<1>2. SubSeq(s, 1, Len(s)) = SubSeq(s \o t, 1, Len(s))
  BY <1>1
<1> QED BY <1>1, <1>2 DEF IsPrefix

\* A prefix stays one when the longer sequence grows.
LEMMA PrefixExtends ==
  ASSUME NEW S, NEW s \in Seq(S), NEW t \in Seq(S), NEW u \in Seq(S),
         IsPrefix(s, t)
  PROVE  IsPrefix(s, t \o u)
<1>1. /\ t \o u \in Seq(S) /\ Len(t \o u) = Len(t) + Len(u)
      /\ Len(s) \in Nat /\ Len(t) \in Nat /\ Len(u) \in Nat
      /\ \A i \in 1..Len(t) : (t \o u)[i] = t[i]
  OBVIOUS
<1>2. Len(s) <= Len(t) /\ SubSeq(s, 1, Len(s)) = SubSeq(t, 1, Len(s))
  BY DEF IsPrefix
<1>3. SubSeq(t, 1, Len(s)) = SubSeq(t \o u, 1, Len(s))
  BY <1>1, <1>2
<1> QED BY <1>1, <1>2, <1>3 DEF IsPrefix

\* What a step may do to the stream, the write side and the channel.
LEMMA StreamCases ==
  ASSUME TypeOK, [Next]_vars
  PROVE  \/ \E m \in Msgs : SendInLoop(m) /\ UNCHANGED <<fin, peer, closes>>
         \/ BufferIntoNet
         \/ HandleClose /\ UNCHANGED <<out, wire, given, fin, peer>>
         \/ ~writing /\ UNCHANGED <<writing, out, wire, given, peer, closes>>
                     /\ fin' = TRUE
         \/ /\ UNCHANGED <<writing, out, wire, given, fin, closes>>
            /\ peer = "reset" => peer' = "reset"
<1>1. ASSUME NEW room \in BOOLEAN, Poll(room)
      PROVE  UNCHANGED <<writing, out, wire, given, fin, closes, peer>>
  BY <1>1 DEF Poll
<1>2. CASE HupEvent
  BY <1>2 DEF HupEvent
<1>3. CASE NetIntoBuffer
  <2>1. UNCHANGED <<out, wire, given, fin, peer>>
    BY <1>3 DEF NetIntoBuffer
  <2>2. HandleClose \/ UNCHANGED <<writing, closes>>
    BY <1>3 DEF NetIntoBuffer
  <2> QED BY <2>1, <2>2
<1>5. CASE AfterDrain \/ RunShut \/ ShutdownInside
  <2>1. UNCHANGED <<writing, out, wire, given, peer, closes>>
    BY <1>5 DEF AfterDrain, RunShut, ShutdownInside
  <2>2. UNCHANGED fin \/ ShutInLoop
    BY <1>5 DEF AfterDrain, RunShut, ShutdownInside
  <2>3. UNCHANGED fin \/ (~writing /\ fin' = TRUE)
    BY <2>2 DEF ShutInLoop
  <2> QED BY <2>1, <2>3
<1>6. CASE RunDead \/ ConnectDestory
  BY <1>6 DEF RunDead, ConnectDestory
<1>7. CASE RunSend
  <2>1. /\ SendInLoop(Head(queue).msg) /\ UNCHANGED <<fin, peer, closes>>
        /\ queue # <<>> /\ Head(queue).op = "send"
    BY <1>7 DEF RunSend, RunNext
  <2>2. Head(queue).msg \in Msgs
    BY <2>1, HeadTypes, FunctorTypes, TypeParts
  <2> QED BY <2>1, <2>2
<1>8. ASSUME NEW m \in Msgs, SendInside(m)
      PROVE  SendInLoop(m) /\ UNCHANGED <<fin, peer, closes>>
  BY <1>8 DEF SendInside
<1>9. ASSUME NEW w \in Writers,
             \/ WriterStep(w) \/ ShutdownCheck(w) \/ Leave(w)
             \/ \E m \in Msgs : SendCheck(w, m)
      PROVE  UNCHANGED <<writing, out, wire, given, fin, closes, peer>>
  BY <1>9 DEF WriterStep, SendPost, ShutdownMark, ShutdownPost, ShutdownCheck,
              SendCheck, Leave
<1>10. CASE ServerRemove
  BY <1>10 DEF ServerRemove
<1>11. CASE PeerSend \/ PeerClose \/ PeerReset
  BY <1>11 DEF PeerSend, PeerClose, PeerReset
<1>12. CASE UNCHANGED vars
  BY <1>12 DEF vars
<1> QED
  BY <1>1, <1>2, <1>3, <1>5, <1>6, <1>7, <1>8, <1>9, <1>10, <1>11, <1>12
     DEF Next, Handler, RunFunctor

\* sendInLoop: the branches and what each leaves.
LEMMA SendInLoopCases ==
  ASSUME NEW m \in Msgs, SendInLoop(m)
  PROVE  /\ given' = given \o Units(m)
         /\ \/ /\ DirectWrite /\ WriteFails
               /\ UNCHANGED <<wire, out, writing>>
            \/ /\ DirectWrite /\ ~WriteFails
               /\ wire' = wire \o Units(m) /\ UNCHANGED <<out, writing>>
            \/ /\ DirectWrite /\ ~WriteFails
               /\ wire' = Append(wire, Units(m)[1])
               /\ out' = Append(out, Units(m)[2]) /\ writing' = TRUE
            \/ /\ ~DirectWrite
               /\ out' = out \o Units(m) /\ wire' = wire /\ writing' = TRUE
  BY DEF SendInLoop, EnableWrite, UpdateChannel

\* BufferIntoNet: nothing happens to the stream, or a part of the buffer is
\* written and POLLOUT goes when that was all.
LEMMA BufferIntoNetCases ==
  ASSUME BufferIntoNet
  PROVE  /\ UNCHANGED <<fin, peer, closes, given>>
         /\ \/ UNCHANGED <<writing, out, wire>>
            \/ /\ writing /\ ~WriteFails
               /\ \E n \in 1..Len(out) :
                    /\ wire' = wire \o SubSeq(out, 1, n)
                    /\ out' = SubSeq(out, n + 1, Len(out))
               /\ writing' <=> out' # <<>>
<1>1. UNCHANGED <<fin, peer, closes, given>>
  BY DEF BufferIntoNet
<1>2. ASSUME DisableWrite PROVE writing' = FALSE
  BY <1>2 DEF DisableWrite, UpdateChannel
<1>3. \/ UNCHANGED <<writing, out, wire>>
      \/ /\ writing /\ ~WriteFails
         /\ \E n \in 1..Len(out) :
              /\ wire' = wire \o SubSeq(out, 1, n)
              /\ out' = SubSeq(out, n + 1, Len(out))
         /\ draining' = (out' = <<>>)
         /\ IF draining' THEN DisableWrite ELSE UNCHANGED channelVars
  BY DEF BufferIntoNet
<1> QED BY <1>1, <1>2, <1>3

\* Every step keeps StreamInv: only sendInLoop, BufferIntoNet and the end of
\* POLLOUT in handleClose touch the stream, and a refusing socket stays one.
LEMMA StreamStep == TypeOK /\ StreamInv /\ [Next]_vars => StreamInv'
<1> SUFFICES ASSUME TypeOK, StreamInv, [Next]_vars PROVE StreamInv'
  OBVIOUS
<1> DEFINE S == Msgs \X {1, 2}
<1>1. wire \in Seq(S) /\ out \in Seq(S) /\ given \in Seq(S)
  BY DEF TypeOK
<1> HIDE DEF S
<1>2. UNCHANGED fin /\ UNCHANGED peer => (WriteFails' <=> WriteFails)
  BY DEF WriteFails
<1>3. ASSUME NEW m \in Msgs, SendInLoop(m), UNCHANGED <<fin, peer>>
      PROVE  StreamInv'
  <2> DEFINE u == Units(m)
  <2>1. /\ u \in Seq(S) /\ u[1] \in S /\ u[2] \in S /\ u = <<u[1], u[2]>>
    BY UnitsType DEF S
  <2> HIDE DEF u
  <2>2. given' = given \o u
    BY <1>3, SendInLoopCases DEF u
  <2>3. CASE DirectWrite /\ WriteFails /\ UNCHANGED <<wire, out, writing>>
    <3>1. out = <<>> /\ ~writing
      BY <2>3 DEF DirectWrite
    <3>2. IsPrefix(wire, given)
      BY <1>1, <3>1, PrefixOfConcat DEF StreamInv
    <3>3. IsPrefix(wire, given \o u)
      BY <1>1, <2>1, <3>2, PrefixExtends
    <3> QED BY <1>2, <1>3, <2>2, <2>3, <3>1, <3>3 DEF StreamInv
  <2>4. CASE DirectWrite /\ ~WriteFails /\ wire' = wire \o u /\ out' = out
    <3>1. out = <<>> /\ wire \o out = given
      BY <2>4 DEF DirectWrite, StreamInv
    <3>2. (wire \o u) \o out = given \o u
      BY <3>1, <1>1, <2>1
    <3> QED BY <2>2, <2>4, <3>2 DEF StreamInv
  <2>5. CASE /\ DirectWrite /\ ~WriteFails
             /\ wire' = Append(wire, u[1]) /\ out' = Append(out, u[2])
    <3>1. out = <<>> /\ wire \o out = given
      BY <2>5 DEF DirectWrite, StreamInv
    <3>2. Append(wire, u[1]) \o Append(<<>>, u[2]) = wire \o <<u[1], u[2]>>
      BY <1>1, <2>1
    <3>3. wire = given
      BY <3>1, <1>1
    <3> QED BY <2>1, <2>2, <2>5, <3>1, <3>2, <3>3 DEF StreamInv
  <2>6. CASE ~DirectWrite /\ out' = out \o u /\ wire' = wire
    <3>1. wire \o out = given
      BY <2>6 DEF DirectWrite, StreamInv
    <3>2. u \in Seq(S)
      BY <2>1
    <3>3. wire \o (out \o u) = (wire \o out) \o u
      BY <1>1, <3>2, SMTT(60)
    <3> QED BY <2>2, <2>6, <3>1, <3>3 DEF StreamInv
  <2> QED BY <1>3, <2>3, <2>4, <2>5, <2>6, SendInLoopCases DEF u
<1>4. CASE BufferIntoNet
  <2>1. CASE UNCHANGED <<writing, out, wire>>
    BY <1>2, <1>4, <2>1, BufferIntoNetCases DEF StreamInv
  <2>2. ASSUME writing, NEW n \in 1..Len(out),
               wire' = wire \o SubSeq(out, 1, n),
               out' = SubSeq(out, n + 1, Len(out))
        PROVE  StreamInv'
    <3>1. wire \o out = given
      BY <2>2 DEF StreamInv
    <3>2. (wire \o SubSeq(out, 1, n)) \o SubSeq(out, n + 1, Len(out))
            = wire \o out
      BY <1>1, WriteTheCut
    <3>3. given' = given
      BY <1>4, BufferIntoNetCases
    <3> QED BY <2>2, <3>1, <3>2, <3>3 DEF StreamInv
  <2> QED BY <1>4, <2>1, <2>2, BufferIntoNetCases
<1>5. CASE HandleClose /\ UNCHANGED <<out, wire, given, fin, peer>>
  <2>1. writing' \in {writing, FALSE}
    BY <1>5 DEF HandleClose, UpdateChannel
  <2> QED BY <1>2, <1>5, <2>1 DEF StreamInv
<1>6. CASE UNCHANGED <<writing, out, wire, given, peer>> /\ fin' = TRUE
  BY <1>6 DEF StreamInv, WriteFails
<1>7. CASE /\ UNCHANGED <<writing, out, wire, given, fin>>
           /\ peer = "reset" => peer' = "reset"
  BY <1>7 DEF StreamInv, WriteFails
<1> QED BY <1>3, <1>4, <1>5, <1>6, <1>7, StreamCases

\* Every step keeps WriteInv.
LEMMA WriteStep == TypeOK /\ WriteInv /\ [Next]_vars => WriteInv'
<1> SUFFICES ASSUME TypeOK, WriteInv, [Next]_vars PROVE WriteInv'
  OBVIOUS
<1> DEFINE S == Msgs \X {1, 2}
<1>1. wire \in Seq(S) /\ out \in Seq(S) /\ closes \in Nat
  BY DEF TypeOK
<1> HIDE DEF S
<1>3. ASSUME NEW m \in Msgs, SendInLoop(m), UNCHANGED <<fin, closes>>
      PROVE  WriteInv'
  <2>1. out \o Units(m) # <<>> /\ Append(out, Units(m)[2]) # <<>>
    <3>1. Units(m) \in Seq(S) /\ Len(Units(m)) = 2 /\ Units(m)[2] \in S
      BY UnitsType DEF S
    <3>2. out \o Units(m) # <<>>
      <4>1. Units(m) # <<>>
        BY <3>1
      <4> QED BY <1>1, <3>1, <4>1, ConcatEqualIffEmpty
    <3>3. Append(out, Units(m)[2]) # <<>>
      BY <1>1, <3>1, AppendProperties
    <3> QED BY <3>2, <3>3
  <2>2. \/ UNCHANGED <<out, writing>>
        \/ (fin => ~DirectWrite) /\ writing' = TRUE /\ out' # <<>>
        \/ ~fin /\ writing' = TRUE /\ out' # <<>>
    BY <1>3, <2>1, SendInLoopCases DEF WriteFails
  <2> QED BY <1>3, <2>2 DEF WriteInv, DirectWrite, Closed
<1>4. CASE BufferIntoNet
  <2>1. /\ UNCHANGED <<fin, closes>>
        /\ \/ UNCHANGED <<writing, out>>
           \/ ~fin /\ (writing' <=> out' # <<>>)
    BY <1>4, BufferIntoNetCases DEF WriteFails
  <2> QED BY <2>1 DEF WriteInv, Closed
<1>5. CASE HandleClose /\ UNCHANGED <<out, fin>>
  <2>1. \/ UNCHANGED <<writing, closes>>
        \/ writing' = FALSE /\ closes' > 0
    <3>1. CASE UNCHANGED <<status, channelVars, closes>>
      BY <3>1
    <3>2. CASE UpdateChannel(FALSE, FALSE) /\ closes' = closes + 1
      BY <1>1, <3>2 DEF UpdateChannel
    <3> QED BY <1>5, <3>1, <3>2, Zenon DEF HandleClose
  <2> QED BY <1>5, <2>1 DEF WriteInv, Closed
<1>6. CASE ~writing /\ UNCHANGED <<writing, out, closes>>
  BY <1>6 DEF WriteInv, Closed
<1>7. CASE UNCHANGED <<writing, out, fin, closes>>
  BY <1>7 DEF WriteInv, Closed
<1> QED BY <1>3, <1>4, <1>5, <1>6, <1>7, StreamCases

-----------------------------------------------------------------------------
(* Closing.                                                                *)

\* A change of the channel's events, with the rest of CloseInv alone.
UpdateOnly == /\ inMap' = TRUE
              /\ inMap => (added' = TRUE => added = TRUE)
              /\ UNCHANGED <<status, removed, closes>>
              /\ revents' \subseteq revents

\* What a step may do to the status, the poller entry and the reported events.
LEMMA CloseCases ==
  ASSUME TypeOK, [Next]_vars
  PROVE  \/ \E room \in BOOLEAN : Poll(room)
         \/ HupEvent
         \/ Dispatch("in") /\ HandleClose /\ UNCHANGED removed
         \/ UpdateOnly
         \/ ConnectDestory
         \/ ServerRemove
         \/ /\ UNCHANGED <<removed, closes, inMap, added>>
            /\ revents' \subseteq revents
            /\ status' # status => status' = "Disconnecting"
<1>0. ASSUME EnableWrite \/ DisableWrite
      PROVE  inMap' = TRUE /\ (inMap => (added' = TRUE => added = TRUE))
  BY <1>0 DEF EnableWrite, DisableWrite, UpdateChannel, TypeOK
<1>1. ASSUME NEW m, SendInLoop(m)
      PROVE  UNCHANGED <<inMap, added>> \/ EnableWrite
  BY <1>1 DEF SendInLoop
<1>2. CASE NetIntoBuffer
  <2>1. Dispatch("in") /\ UNCHANGED removed
    BY <1>2 DEF NetIntoBuffer
  <2>2. HandleClose \/ UNCHANGED <<status, closes, inMap, added>>
    BY <1>2 DEF NetIntoBuffer
  <2>3. revents' \subseteq revents
    BY <2>1 DEF Dispatch
  <2> QED BY <2>1, <2>2, <2>3
<1>3. CASE BufferIntoNet
  <2>1. UNCHANGED <<status, removed, closes>> /\ revents' \subseteq revents
    BY <1>3 DEF BufferIntoNet, Dispatch
  <2>2. DisableWrite \/ UNCHANGED <<inMap, added>>
    BY <1>3 DEF BufferIntoNet
  <2> QED BY <1>0, <2>1, <2>2 DEF UpdateOnly
<1>4. CASE RunSend \/ \E m \in Msgs : SendInside(m)
  <2>1. UNCHANGED <<status, removed, closes, revents>>
    BY <1>4 DEF RunSend, SendInside
  <2>2. \E m : SendInLoop(m)
    BY <1>4 DEF RunSend, SendInside
  <2> QED BY <1>0, <1>1, <2>1, <2>2 DEF UpdateOnly
<1>5. CASE AfterDrain \/ RunShut \/ RunDead
  BY <1>5 DEF AfterDrain, RunShut, RunDead
<1>6. CASE ShutdownInside
  BY <1>6 DEF ShutdownInside
<1>7. ASSUME NEW w \in Writers,
             \/ WriterStep(w) \/ ShutdownCheck(w) \/ Leave(w)
             \/ \E m \in Msgs : SendCheck(w, m)
      PROVE  /\ UNCHANGED <<removed, closes, inMap, added, revents>>
             /\ status' # status => status' = "Disconnecting"
  BY <1>7 DEF WriterStep, SendPost, ShutdownMark, ShutdownPost, ShutdownCheck,
              SendCheck, Leave
<1>8. CASE PeerSend \/ PeerClose \/ PeerReset
  BY <1>8 DEF PeerSend, PeerClose, PeerReset
<1>9. CASE UNCHANGED vars
  BY <1>9 DEF vars
<1> QED
  BY <1>2, <1>3, <1>4, <1>5, <1>6, <1>7, <1>8, <1>9
     DEF Next, Handler, RunFunctor

\* handleClose is called for a channel that was reported: it was open, or a
\* late send had put it back.
LEMMA HandleCloseKeepsCloseInv ==
  ASSUME TypeOK, CloseInv, NEW e \in {"hup", "in"}, Dispatch(e), HandleClose,
         UNCHANGED removed
  PROVE  CloseInv'
<1>1. /\ e \in revents /\ revents' \subseteq {"out"}
      /\ ~("hup" \in revents' /\ "in" \in revents')
  BY DEF Dispatch, TypeOK, CloseInv
<1>2. Closed => removed = "done" /\ inMap
  BY <1>1 DEF CloseInv
<1>3. CASE UNCHANGED <<status, channelVars, closes>>
  BY <1>1, <1>2, <1>3 DEF CloseInv, Closed
<1>4. CASE UpdateChannel(FALSE, FALSE) /\ closes' = closes + 1
  <2>1. inMap' = TRUE /\ (inMap => added' = FALSE)
    BY <1>4 DEF UpdateChannel
  <2>2. closes' > 0 /\ (closes' > 1 => Closed) /\ Closed'
    BY <1>4 DEF TypeOK, Closed
  <2> QED BY <1>1, <1>2, <2>1, <2>2 DEF CloseInv
<1> QED BY <1>3, <1>4, Zenon DEF HandleClose

\* Every step keeps CloseInv.
LEMMA CloseStep == TypeOK /\ CloseInv /\ QueueInv /\ [Next]_vars => CloseInv'
<1> SUFFICES ASSUME TypeOK, CloseInv, QueueInv, [Next]_vars PROVE CloseInv'
  OBVIOUS
<1>1. ASSUME NEW room \in BOOLEAN, Poll(room) PROVE CloseInv'
  <2>1. /\ added
        /\ ~("hup" \in revents' /\ "in" \in revents')
        /\ UNCHANGED <<status, removed, closes, inMap, added>>
    BY <1>1 DEF Poll
  <2> QED BY <2>1 DEF CloseInv, Closed
<1>2. CASE HupEvent
  BY <1>2, HandleCloseKeepsCloseInv DEF HupEvent
<1>3. CASE Dispatch("in") /\ HandleClose /\ UNCHANGED removed
  BY <1>3, HandleCloseKeepsCloseInv
<1>4. CASE UpdateOnly
  BY <1>4 DEF UpdateOnly, CloseInv, Closed, TypeOK
<1>5. CASE ConnectDestory
  <2>1. /\ queue # <<>> /\ Head(queue).op = "destroy" /\ revents = {}
        /\ inMap' = FALSE /\ added' = FALSE /\ removed' = "done"
        /\ UNCHANGED <<status, revents, closes>>
    BY <1>5 DEF ConnectDestory, RunNext, LoopFree, RemoveChannel
  <2>2. removed = "posted"
    <3>1. 1 \in DOMAIN queue /\ queue[1] = Head(queue)
      BY <2>1 DEF TypeOK
    <3> QED BY <2>1, <3>1 DEF QueueInv
  <2> QED BY <2>1, <2>2 DEF CloseInv, Closed
<1>6. CASE ServerRemove
  <2>1. /\ UNCHANGED <<status, revents, closes, inMap, added>>
        /\ \/ closes = 1 /\ removed = "no" /\ removed' = "posted"
           \/ UNCHANGED removed
    BY <1>6 DEF ServerRemove
  <2> QED BY <2>1 DEF CloseInv, Closed
<1>7. CASE /\ UNCHANGED <<removed, closes, inMap, added>>
           /\ revents' \subseteq revents
           /\ status' # status => status' = "Disconnecting"
  BY <1>7 DEF CloseInv, Closed
<1> QED BY <1>1, <1>2, <1>3, <1>4, <1>5, <1>6, <1>7, CloseCases
-----------------------------------------------------------------------------
(* The queue.                                                              *)

\* A functor is taken out.
LEMMA TailKeepsQueueInv ==
  ASSUME TypeOK, QueueInv, queue # <<>>, queue' = Tail(queue),
         UNCHANGED <<careful, kept>>,
         UNCHANGED removed \/ Head(queue).op = "destroy"
  PROVE  QueueInv'
<1>1. /\ Len(queue) \in Nat /\ DOMAIN queue = 1..Len(queue)
      /\ DOMAIN queue' = 1..Len(queue) - 1
      /\ \A i \in DOMAIN queue' : i + 1 \in DOMAIN queue /\ queue'[i] = queue[i + 1]
      /\ 1 \in DOMAIN queue /\ queue[1] = Head(queue)
  BY DEF TypeOK
<1>2. \A i \in DOMAIN queue' : queue'[i].op = "destroy" =>
        /\ Head(queue).op # "destroy"
        /\ removed = "posted"
        /\ \A j \in DOMAIN queue' : queue'[j].op = "destroy" => i = j
  BY <1>1 DEF QueueInv
<1>3. \A i \in DOMAIN queue' :
        queue'[i].op # "destroy" /\ queue'[i].by \in careful =>
          queue'[i].by \in kept
  BY <1>1 DEF QueueInv
<1> QED BY <1>2, <1>3 DEF QueueInv

\* A functor is queued by a writer in scope or by removeConnection.
LEMMA PostKeepsQueueInv ==
  ASSUME TypeOK, QueueInv, NEW f \in Functors, queue' = Append(queue, f),
         f.op = "destroy" => removed = "no" /\ removed' = "posted",
         f.op # "destroy" => f.by \in kept /\ UNCHANGED removed,
         UNCHANGED <<careful, kept>>
  PROVE  QueueInv'
<1>1. /\ Len(queue) \in Nat /\ DOMAIN queue = 1..Len(queue)
      /\ DOMAIN queue' = 1..Len(queue) + 1
      /\ \A i \in DOMAIN queue : queue'[i] = queue[i]
      /\ queue'[Len(queue) + 1] = f
  BY DEF TypeOK
<1>2. \A i \in DOMAIN queue' : queue'[i].op = "destroy" =>
        /\ removed' = "posted"
        /\ \A j \in DOMAIN queue' : queue'[j].op = "destroy" => i = j
  BY <1>1 DEF QueueInv
<1>3. \A i \in DOMAIN queue' :
        queue'[i].op # "destroy" /\ queue'[i].by \in careful =>
          queue'[i].by \in kept
  BY <1>1 DEF QueueInv
<1> QED BY <1>2, <1>3 DEF QueueInv

\* Every step keeps QueueInv.
LEMMA QueueStep == TypeOK /\ QueueInv /\ [Next]_vars => QueueInv'
<1> SUFFICES ASSUME TypeOK, QueueInv, [Next]_vars PROVE QueueInv'
  OBVIOUS
<1>1. CASE UNCHANGED <<queue, careful, kept, removed>>
  BY <1>1 DEF QueueInv
<1>2. CASE RunDead \/ RunSend \/ RunShut \/ ConnectDestory
  <2>1. /\ queue # <<>> /\ queue' = Tail(queue) /\ UNCHANGED <<careful, kept>>
        /\ UNCHANGED removed \/ Head(queue).op = "destroy"
    BY <1>2 DEF RunDead, RunSend, RunShut, ConnectDestory, RunNext
  <2> QED BY <2>1, TailKeepsQueueInv
<1>3. ASSUME NEW w \in Writers, SendPost(w) PROVE QueueInv'
  <2>1. /\ w \in kept /\ callerPc[w].at = "send"
        /\ queue' = Append(queue,
                      [op |-> "send", msg |-> callerPc[w].msg, by |-> w])
        /\ UNCHANGED <<careful, kept, removed>>
    BY <1>3 DEF SendPost, CallerAt
  <2>2. callerPc[w].msg \in Msgs
    BY <2>1, PcTypes DEF TypeOK
  <2> QED BY <2>1, <2>2, FunctorTypes, PostKeepsQueueInv
<1>4. ASSUME NEW w \in Writers, ShutdownPost(w) PROVE QueueInv'
  <2>1. /\ w \in kept /\ queue' = Append(queue, [op |-> "shut", by |-> w])
        /\ UNCHANGED <<careful, kept, removed>>
    BY <1>4 DEF ShutdownPost, CallerAt
  <2> QED BY <2>1, FunctorTypes, PostKeepsQueueInv
<1>5. ASSUME NEW w \in Writers, Leave(w) PROVE QueueInv'
  <2>1. /\ w \in careful => Pending(w) = {}
        /\ kept' = kept \ {w} /\ UNCHANGED <<queue, careful, removed>>
    BY <1>5 DEF Leave
  <2>2. \A i \in DOMAIN queue :
          queue[i].op # "destroy" /\ queue[i].by \in careful => queue[i].by # w
    BY <2>1 DEF Pending
  <2> QED BY <2>1, <2>2 DEF QueueInv
<1>6. CASE ServerRemove
  <2>1. CASE /\ removed = "no" /\ removed' = "posted"
             /\ queue' = Append(queue, [op |-> "destroy"])
             /\ UNCHANGED <<careful, kept>>
    BY <2>1, FunctorTypes, PostKeepsQueueInv
  <2> QED BY <1>1, <1>6, <2>1 DEF ServerRemove
<1>7. ASSUME NEW room \in BOOLEAN, Poll(room)
      PROVE  UNCHANGED <<queue, careful, kept, removed>>
  BY <1>7 DEF Poll
<1>8. CASE HupEvent \/ NetIntoBuffer \/ BufferIntoNet \/ AfterDrain
  BY <1>1, <1>8 DEF HupEvent, NetIntoBuffer, BufferIntoNet, AfterDrain
<1>9. CASE ShutdownInside \/ \E m \in Msgs : SendInside(m)
  BY <1>1, <1>9 DEF ShutdownInside, SendInside
<1>10. ASSUME NEW w \in Writers, \/ ShutdownMark(w) \/ ShutdownCheck(w)
                                 \/ \E m \in Msgs : SendCheck(w, m)
       PROVE  UNCHANGED <<queue, careful, kept, removed>>
  BY <1>10 DEF ShutdownMark, ShutdownCheck, SendCheck
<1>11. CASE PeerSend \/ PeerClose \/ PeerReset
  BY <1>1, <1>11 DEF PeerSend, PeerClose, PeerReset
<1>12. CASE UNCHANGED vars
  BY <1>1, <1>12 DEF vars
<1> QED
  BY <1>1, <1>2, <1>3, <1>4, <1>5, <1>6, <1>7, <1>8, <1>9, <1>10, <1>11, <1>12
     DEF Next, Handler, RunFunctor, WriterStep

-----------------------------------------------------------------------------
(* The ways to die.                                                        *)

\* Every step to a fault has the cause that FaultCauses names.
LEMMA FaultStep == IInv /\ [Next]_vars => FaultCauses'
<1> SUFFICES ASSUME IInv, [Next]_vars PROVE FaultCauses'
  OBVIOUS
<1> USE DEF IInv
<1>0. ASSUME fault' = "none" PROVE FaultCauses'
  BY <1>0 DEF FaultCauses
<1>1. ASSUME NEW room \in BOOLEAN, Poll(room) PROVE FaultCauses'
  BY <1>0, <1>1 DEF Poll, LoopFree
<1>2. ASSUME NEW e \in {"hup", "in"}, Dispatch(e), HandleClose, UNCHANGED removed
      PROVE  FaultCauses'
  <2>1. fault = "none" /\ e \in revents
    BY <1>2 DEF Dispatch
  <2>2. CASE /\ status = "Disconnected" /\ fault' = "handleClose: closed twice"
             /\ UNCHANGED <<status, channelVars, closes>>
    <3>1. removed = "done" /\ inMap
      BY <2>1, <2>2 DEF CloseInv
    <3>2. removed' = "done" /\ inMap' /\ fault' = "handleClose: closed twice"
      BY <1>2, <2>2, <3>1
    <3> QED BY <3>2 DEF FaultCauses
  <2> QED BY <1>0, <1>2, <2>1, <2>2, Zenon DEF HandleClose
<1>3. CASE HupEvent
  BY <1>2, <1>3 DEF HupEvent
<1>4. CASE NetIntoBuffer
  <2>1. Dispatch("in") /\ UNCHANGED removed /\ fault = "none"
    BY <1>4 DEF NetIntoBuffer, Dispatch
  <2>2. HandleClose \/ UNCHANGED fault
    BY <1>4 DEF NetIntoBuffer
  <2> QED BY <1>0, <1>2, <2>1, <2>2
<1>5. CASE BufferIntoNet
  <2>1. fault = "none" /\ UNCHANGED <<peer, closes>>
    BY <1>5 DEF BufferIntoNet, Dispatch
  <2>2. \/ UNCHANGED fault
        \/ /\ writing /\ (WriteFails \/ out = <<>>)
           /\ fault' = "BufferIntoNet: write error"
    BY <1>5 DEF BufferIntoNet
  <2>3. CASE writing /\ (WriteFails \/ out = <<>>)
             /\ fault' = "BufferIntoNet: write error"
    <3>1. peer = "reset" \/ Closed
      BY <2>3 DEF WriteInv, WriteFails
    <3> QED BY <2>1, <2>3, <3>1 DEF FaultCauses, Closed
  <2> QED BY <1>0, <2>1, <2>2, <2>3
<1>6. ASSUME ShutInLoop, fault = "none", UNCHANGED out PROVE FaultCauses'
  <2>1. CASE writing /\ fault' = "shutInLoop: is writing"
    BY <1>6, <2>1 DEF FaultCauses, WriteInv
  <2> QED BY <1>0, <1>6, <2>1 DEF ShutInLoop
<1>7. CASE AfterDrain \/ RunShut \/ ShutdownInside
  <2>1. fault = "none" /\ UNCHANGED out
    BY <1>7 DEF AfterDrain, RunShut, RunNext, LoopFree, ShutdownInside, InUserCode
  <2>2. UNCHANGED fault \/ ShutInLoop
    BY <1>7 DEF AfterDrain, RunShut, ShutdownInside
  <2> QED BY <1>0, <1>6, <2>1, <2>2
<1>8. CASE RunDead
  <2>1. /\ fault' = "use of dead memory" /\ UNCHANGED careful
        /\ queue # <<>> /\ Dead(Head(queue))
    BY <1>8 DEF RunDead
  <2>2. /\ Head(queue).op # "destroy" /\ Head(queue).by \notin kept
        /\ Head(queue).by \in Writers
    BY <2>1, HeadTypes, FunctorTypes, TypeParts DEF Dead, Freed
  <2>3. 1 \in DOMAIN queue /\ queue[1] = Head(queue)
    <3>1. queue \in Seq(Functors) /\ queue # <<>>
      BY <2>1 DEF TypeOK
    <3> QED BY <3>1
  <2>4. Head(queue).by \notin careful
    BY <2>2, <2>3 DEF QueueInv
  <2> QED BY <2>1, <2>2, <2>4 DEF FaultCauses
<1>9. CASE RunSend \/ ConnectDestory \/ \E m \in Msgs : SendInside(m)
  BY <1>0, <1>9
     DEF RunSend, ConnectDestory, RunNext, LoopFree, SendInside, InUserCode
<1>10. ASSUME NEW w \in Writers,
              \/ WriterStep(w) \/ ShutdownCheck(w) \/ Leave(w)
              \/ \E m \in Msgs : SendCheck(w, m)
       PROVE  fault' = "none"
  BY <1>10 DEF WriterStep, SendPost, ShutdownMark, ShutdownPost, ShutdownCheck,
               SendCheck, Leave, CallerAt
<1>11. CASE ServerRemove
  <2>1. fault = "none" /\ UNCHANGED inMap
    BY <1>11 DEF ServerRemove
  <2>2. CASE closes > 1 /\ fault' = "removeConnection: not there"
             /\ UNCHANGED removed
    BY <2>1, <2>2 DEF CloseInv, FaultCauses
  <2> QED BY <1>0, <1>11, <2>1, <2>2 DEF ServerRemove
<1>12. CASE PeerSend \/ PeerClose \/ PeerReset
  BY <1>0, <1>12 DEF PeerSend, PeerClose, PeerReset
<1>13. CASE UNCHANGED vars
  BY <1>13 DEF vars, FaultCauses, Closed
<1> QED
  BY <1>0, <1>1, <1>3, <1>4, <1>5, <1>7, <1>8, <1>9, <1>10, <1>11, <1>12, <1>13
     DEF Next, Handler, RunFunctor
-----------------------------------------------------------------------------
(* The theorems.                                                           *)

\* connectEstablished ends in a state of the invariant.
LEMMA InitInv == Init => IInv
<1> SUFFICES ASSUME Init PROVE IInv
  OBVIOUS
<1> USE DEF Init
<1>1. TypeOK
  <2>1. ChannelTypes /\ SocketTypes /\ HandlerTypes
    BY DEF ChannelTypes, SocketTypes, HandlerTypes
  <2>2. StreamTypes /\ QueueTypes
    BY DEF StreamTypes, QueueTypes
  <2>3. StatusTypes
    BY DEF StatusTypes
  <2>4. WriterTypes
    BY PcTypes DEF WriterTypes
  <2> QED BY <2>1, <2>2, <2>3, <2>4, TypeParts
<1>2. StreamInv /\ WriteInv
  BY DEF StreamInv, WriteInv
<1>3. CloseInv /\ QueueInv /\ FaultCauses
  BY DEF CloseInv, QueueInv, FaultCauses, Closed
<1> QED BY <1>1, <1>2, <1>3 DEF IInv

\* The strengthened invariant holds in every reachable state.
LEMMA Invariance == Spec => []IInv
<1>1. IInv /\ [Next]_vars => IInv'
  BY TypesStep, StreamStep, WriteStep, CloseStep, QueueStep, FaultStep DEF IInv
<1> QED BY <1>1, InitInv, PTL DEF Spec

\* Every variable keeps its type, an fd in the epoll set is in
\* fd_channel_map_, and BufferIntoNet tests status_ last in its handleEvent.
THEOREM TypeCorrect == Spec => []TypeOK
<1>1. IInv => TypeOK
  BY DEF IInv
<1> QED BY <1>1, Invariance, PTL

\* No byte is lost, repeated or reordered between sendInLoop and the kernel,
\* for any number of writer threads and messages, unless write() fails.
THEOREM StreamIntegrityHolds == Spec => []StreamIntegrity
<1>1. IInv => StreamIntegrity
  <2> SUFFICES ASSUME IInv PROVE StreamIntegrity
    OBVIOUS
  <2> DEFINE S == Msgs \X {1, 2}
  <2>1. wire \in Seq(S) /\ out \in Seq(S) /\ given \in Seq(S)
    BY DEF IInv, TypeOK
  <2> HIDE DEF S
  <2>2. CASE wire \o out = given
    <3>1. IsPrefix(given, given)
      <4>1. <<>> \in Seq(S)
        OBVIOUS
      <4>2. IsPrefix(given, given \o <<>>)
        BY <2>1, <4>1, PrefixOfConcat
      <4> QED BY <2>1, <4>2
    <3> QED BY <2>2, <3>1 DEF StreamIntegrity
  <2>3. CASE WriteFails /\ out = <<>> /\ IsPrefix(wire, given)
    <3>1. wire \o out = wire
      BY <2>1, <2>3
    <3> QED BY <2>3, <3>1 DEF StreamIntegrity
  <2> QED BY <2>2, <2>3 DEF IInv, StreamInv
<1> QED BY <1>1, Invariance, PTL

\* On a live connection POLLOUT is asked for exactly when data is buffered.
THEOREM PendingIffWritingHolds == Spec => []PendingIffWriting
<1>1. IInv => PendingIffWriting
  BY DEF IInv, WriteInv, PendingIffWriting
<1> QED BY <1>1, Invariance, PTL

\* Each fatal error, failing assert and use of dead memory has the one cause
\* that FaultCauses names; in particular a program whose writers all keep
\* their data and pointer until their functors ran never touches dead memory.
THEOREM FaultCausesHolds == Spec => []FaultCauses
<1>1. IInv => FaultCauses
  BY DEF IInv
<1> QED BY <1>1, Invariance, PTL
=============================================================================
