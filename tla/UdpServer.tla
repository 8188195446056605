----------------------------- MODULE UdpServer -----------------------------
(***************************************************************************)
(* base/src/UdpServer.cpp and base/include/UdpServer.h: a server after     *)
(* start(), with its Channel, its two queues of datagrams and the kernel's *)
(* receive queue.  Everything runs on the loop thread ("a simple single    *)
(* threaded udpserver", UdpServer.h:1); what is hard is that the callbacks *)
(* of the user run in the middle of both handlers and call back into it.   *)
(*                                                                         *)
(* A datagram is the number of its arrival, or of its send(), and a size.  *)
(***************************************************************************)
EXTENDS Integers, Sequences

CONSTANTS Sizes,     \* sizes of datagrams
          MaxBufLen, \* MAX_BUF_LEN, what NetToBuffer can take in
          MaxSend,   \* the largest datagram sendto() accepts
          MaxIn,     \* bound: datagrams that arrive
          MaxOut     \* bound: datagrams the user sends

ASSUME UdpAssumption == /\ Sizes \subseteq Nat
                        /\ MaxBufLen \in Nat /\ MaxSend \in Nat
                        /\ MaxIn \in Nat /\ MaxOut \in Nat

VARIABLES
  kernel,     \* datagrams that wait in the socket
  inBuffer,   \* inBuffer_
  outBuffer,  \* outBuffer_
  writing,    \* channel_->is_writing_, the POLLOUT bit
  revents,    \* what the last poll reported and handleEvent has not done yet
  count,      \* count of NetToBuffer
  pc,         \* "loop", or where the loop thread is inside a handler
  arrived,    \* history: all datagrams that arrived
  handed,     \* history: what reciveDatagram returned to the user
  given,      \* history: what the user gave to send()
  wire,       \* what sendto() has accepted
  fault       \* why the process stopped, or "none"

inVars  == <<kernel, inBuffer, arrived, handed>>
outVars == <<outBuffer, writing, given, wire>>
vars == <<inVars, outVars, revents, count, pc, fault>>

Init ==
  /\ kernel = <<>> /\ inBuffer = <<>> /\ outBuffer = <<>>
  /\ writing = FALSE
  /\ revents = {} /\ count = 0 /\ pc = "loop"
  /\ arrived = <<>> /\ handed = <<>> /\ given = <<>> /\ wire = <<>>
  /\ fault = "none"

At(where) == fault = "none" /\ pc = where
-----------------------------------------------------------------------------
(* The poll and Channel::handleEvent: readcall_ before writecall_.         *)

Poll(room) ==
  /\ At("loop") /\ revents = {}
  /\ revents' = (IF kernel # <<>> THEN {"in"} ELSE {})
                \union (IF writing /\ room THEN {"out"} ELSE {})
  /\ revents' # {}
  /\ UNCHANGED <<inVars, outVars, count, pc, fault>>

Dispatch(e) == /\ At("loop")
               /\ e \in revents
               /\ e = "out" => "in" \notin revents
               /\ revents' = revents \ {e}
-----------------------------------------------------------------------------
(* NetToBuffer and the DatagramStream that message_cb_ is given.           *)

\* recvfrom() cuts off what does not fit into the buffer on the stack.
Cut(d) == [d EXCEPT !.len = IF @ > MaxBufLen THEN MaxBufLen ELSE @]

StartReading ==
  /\ Dispatch("in")
  /\ count' = 0
  /\ pc' = "recvfrom"
  /\ UNCHANGED <<inVars, outVars, fault>>

ReceiveOver ==                \* seeded defect: only the last one is kept
  /\ At("recvfrom") /\ kernel # <<>>
  /\ inBuffer' = <<Cut(Head(kernel))>>
  /\ kernel' = Tail(kernel)
  /\ count' = count + 1
  /\ UNCHANGED <<arrived, handed, outVars, revents, pc, fault>>

Receive ==
  /\ At("recvfrom") /\ kernel # <<>>
  /\ inBuffer' = Append(inBuffer, Cut(Head(kernel)))
  /\ kernel' = Tail(kernel)
  /\ count' = count + 1
  /\ UNCHANGED <<arrived, handed, outVars, revents, pc, fault>>

\* EAGAIN: message_cb_ is called if anything was received.
DrainedSilently ==            \* seeded defect: the last one is not counted
  /\ At("recvfrom") /\ kernel = <<>>
  /\ pc' = IF count > 1 THEN "message" ELSE "loop"
  /\ UNCHANGED <<inVars, outVars, revents, count, fault>>

Drained ==
  /\ At("recvfrom") /\ kernel = <<>>
  /\ pc' = IF count > 0 THEN "message" ELSE "loop"
  /\ UNCHANGED <<inVars, outVars, revents, count, fault>>

\* The user takes a datagram from the stream, or leaves it for another time;
\* an empty stream gives an invalid one, which the user has to check.
ReciveDatagram ==
  /\ At("message") /\ inBuffer # <<>>
  /\ handed' = Append(handed, Head(inBuffer))
  /\ inBuffer' = Tail(inBuffer)
  /\ UNCHANGED <<kernel, arrived, outVars, revents, count, pc, fault>>

MessageReturns ==
  /\ At("message")
  /\ pc' = "loop"
  /\ UNCHANGED <<inVars, outVars, revents, count, fault>>
-----------------------------------------------------------------------------
(* send() and BufferToNet.                                                 *)

\* Any user code on the loop thread: callbacks of this server, of others.
InUserCode == pc \in {"loop", "message", "writeAll"} /\ fault = "none"

Send(size) ==
  /\ InUserCode /\ Len(given) < MaxOut
  /\ LET d == [id |-> Len(given) + 1, len |-> size] IN
       /\ given' = Append(given, d)
       /\ outBuffer' = Append(outBuffer, d)
  /\ writing' = TRUE
  /\ UNCHANGED <<inVars, wire, revents, count, pc, fault>>

\* The two asserts at the head of BufferToNet.
StartWriting ==
  /\ Dispatch("out")
  /\ IF outBuffer # <<>> /\ writing
     THEN pc' = "sendto" /\ UNCHANGED fault
     ELSE fault' = "assert at entry" /\ UNCHANGED pc
  /\ UNCHANGED <<inVars, outVars, count>>

\* After a datagram is sent: go on, or disableWrite and call writeAll_cb_.
AfterPopNoDisable ==          \* seeded defect: POLLOUT stays on
  /\ UNCHANGED writing
  /\ pc' = IF outBuffer' = <<>> THEN "writeAll" ELSE "sendto"

AfterPop ==
  IF outBuffer' = <<>>
  THEN writing' = FALSE /\ pc' = "writeAll"
  ELSE UNCHANGED <<writing, pc>>

\* sendto() takes a datagram whole.
SendTo ==
  /\ At("sendto") /\ outBuffer # <<>>
  /\ Head(outBuffer).len <= MaxSend
  /\ wire' = Append(wire, Head(outBuffer))
  /\ outBuffer' = Tail(outBuffer)
  /\ AfterPop
  /\ UNCHANGED <<inVars, given, revents, count, fault>>

\* EAGAIN: the kernel has no room; the datagram stays for the next POLLOUT.
SendToFull ==
  /\ At("sendto") /\ outBuffer # <<>>
  /\ Head(outBuffer).len <= MaxSend
  /\ pc' = "loop"
  /\ UNCHANGED <<inVars, outVars, revents, count, fault>>

\* Any other error, such as a datagram that is too large, is LOG_SYSFATAL.
SendToFails ==
  /\ At("sendto") /\ outBuffer # <<>>
  /\ Head(outBuffer).len > MaxSend
  /\ fault' = "write error"
  /\ UNCHANGED <<inVars, outVars, revents, count, pc>>

\* front() of the emptied queue is copied, and an address in it followed, before
\* sendto() is asked: undefined, whatever room the kernel has.  What happens to
\* lie there may do no harm and sendto() report EAGAIN; anything else that may
\* follow, up to the pop() of an empty queue, is a fault.
FrontOfEmpty ==
  /\ At("sendto") /\ outBuffer = <<>>
  /\ \/ pc' = "loop" /\ UNCHANGED fault
     \/ fault' = "front of an empty queue" /\ UNCHANGED pc
  /\ UNCHANGED <<inVars, outVars, revents, count>>

\* writeAll_cb_ returns, and the loop of BufferToNet goes on whether or not
\* there is anything left to send.
WriteAllReturns ==
  /\ At("writeAll")
  /\ pc' = "sendto"
  /\ UNCHANGED <<inVars, outVars, revents, count, fault>>
-----------------------------------------------------------------------------
(* The network.                                                            *)

Arrive(size) ==
  /\ Len(arrived) < MaxIn
  /\ LET d == [id |-> Len(arrived) + 1, len |-> size] IN
       /\ arrived' = Append(arrived, d)
       /\ kernel' = Append(kernel, d)
  /\ UNCHANGED <<inBuffer, handed, outVars, revents, count, pc, fault>>
-----------------------------------------------------------------------------
Handler == \/ StartReading \/ Receive \/ Drained \/ MessageReturns
           \/ StartWriting \/ WriteAllReturns
           \/ SendToFails \/ FrontOfEmpty

Next == \/ \E room \in BOOLEAN : Poll(room)
        \/ Handler
        \/ ReciveDatagram
        \/ SendTo \/ SendToFull
        \/ \E size \in Sizes : Send(size) \/ Arrive(size)

\* The loop polls again and again, handlers go on and callbacks return; the
\* kernel sends what it has, so that it has room again and again.
Fairness == /\ WF_vars(Handler)
            /\ SF_vars(Poll(TRUE))
            /\ SF_vars(SendTo)

Spec == Init /\ [][Next]_vars /\ Fairness
-----------------------------------------------------------------------------
(* Properties.                                                             *)

\* No datagram is lost, doubled or reordered.  What the user sends goes out
\* whole and in the order of the calls: sent and waiting datagrams together are
\* all it gave, whichever callback it sent them from and however often the
\* kernel was full.  What arrives reaches the user in order, cut to
\* MAX_BUF_LEN, behind what an earlier callback has left in the stream.
OnceInOrder ==
  /\ wire \o outBuffer = given
  /\ handed \o inBuffer \o [i \in DOMAIN kernel |-> Cut(kernel[i])]
       = [i \in DOMAIN arrived |-> Cut(arrived[i])]

\* POLLOUT is asked for exactly while a datagram waits.  This is what the
\* asserts of BufferToNet rest on, which therefore hold when it is called.
WritingIffWaiting ==
  /\ writing <=> outBuffer # <<>>
  /\ fault # "assert at entry"

\* Nothing gets stuck, unless the process stops: what the user has sent goes
\* out, and every datagram that waits in the kernel gets into the stream of a
\* callback, also one that arrives while an earlier batch is read.
BothWaysFlow ==
  /\ outBuffer # <<>> ~> outBuffer = <<>> \/ fault # "none"
  /\ \A n \in 1..MaxIn :
       (\E i \in DOMAIN kernel : kernel[i].id = n)
         ~> \/ pc = "message" /\ Len(handed) + Len(inBuffer) >= n
            \/ fault # "none"
=============================================================================
