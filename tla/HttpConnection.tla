--------------------------- MODULE HttpConnection ---------------------------
(***************************************************************************)
(* One connection of an HttpServer: module TcpConnection with HttpServer's *)
(* on_recv (http/HttpServer.cpp) as the message_cb_ that NetIntoBuffer     *)
(* calls, and in it the parser of module HttpHandler and handle_http.      *)
(* Nobody but the loop thread uses the connection, so send() and           *)
(* shutdown() run inline, in the middle of NetIntoBuffer; the peer goes on *)
(* meanwhile.                                                              *)
(*                                                                         *)
(* An answer is one message of module TcpConnection: two units.  pc has    *)
(* the positions inside on_recv, between which the peer may do anything,   *)
(* and "stopped" once the Router has ended the process.                    *)
(***************************************************************************)
EXTENDS Integers, Sequences, SequencesExt

CONSTANTS Messages,  \* all that a client may send
          SizeMod    \* size_t counts modulo this, 2^64 in the code

ASSUME SizeModAssumption == SizeMod \in Nat \ {0}

\* A byte is a pair, as module HttpHandler has it.
BytePairs == STRING \X Int

ASSUME MessagesAssumption == \A m \in Messages : m \in Seq(BytePairs)

Answer == "answer"

VARIABLES
  \* those of TcpConnection
  status, reading, writing, inMap, added, revents, draining, out, wire, fin,
  peer, sockErr, unread, queue, callerPc, careful, kept, closes, removed,
  given, fault,
  \* those of HttpHandler; pc has three values more
  message, arrived, buffer, lineIndex, checkState, req, pc,
  router,     \* router_: "none" (serve() was not called), "misused" (the path
              \* of this client leads to a misused "*" in it) or "sound"
  answers     \* history: outcome and request for each send() not refused

tcpVars  == <<status, reading, writing, inMap, added, revents, draining, out,
              wire, fin, peer, sockErr, unread, queue, callerPc, careful, kept,
              closes, removed, given, fault>>
httpVars == <<message, arrived, buffer, lineIndex, checkState, req, pc, router,
              answers>>
vars == <<tcpVars, httpVars>>

Tcp == INSTANCE TcpConnection WITH Writers <- {}, Msgs <- {Answer}

\* The parser of this connection.
Parser == INSTANCE HttpHandler

\* on_connect gives the new connection its HttpHandler.
Init == /\ Tcp!Init /\ Parser!Init
        /\ router \in {"none", "sound", "misused"}
        /\ answers = <<>>
-----------------------------------------------------------------------------
(* The loop thread outside on_recv.                                        *)

\* on_recv is not running.
Idle == pc = "idle"

Poll(room) == Idle /\ Tcp!Poll(room) /\ UNCHANGED httpVars

\* handleEvent, except that there is a piece of a request: the end of the
\* file, an error that is not looked at, and what would follow if output were
\* left for POLLOUT or the channel came back after a close.
Event ==
  /\ Idle
  /\ \/ (peer = "reset" \/ ~unread) /\ Tcp!NetIntoBuffer
     \/ Tcp!HupEvent
     \/ Tcp!BufferIntoNet
     \/ Tcp!AfterDrain
  /\ UNCHANGED httpVars

\* connectDestory.
RunFunctor == Idle /\ Tcp!RunFunctor /\ UNCHANGED httpVars
-----------------------------------------------------------------------------
(* on_recv, inside NetIntoBuffer.                                          *)

OnRecv ==
  /\ Idle
  /\ peer # "reset" /\ unread
  /\ Tcp!NetIntoBuffer
  /\ Parser!Receive
  /\ UNCHANGED <<router, answers>>

ParseHttp ==
  /\ fault = "none"
  /\ Parser!Parse
  /\ UNCHANGED <<tcpVars, router, answers>>

\* PARSE_RECV: on_recv returns.
NeedMore ==
  /\ fault = "none" /\ pc = "recv"
  /\ pc' = "idle"
  /\ UNCHANGED <<tcpVars, message, arrived, buffer, lineIndex, checkState, req,
                 router, answers>>

\* TcpConnection::shutdown on the loop thread.
Shutdown ==
  IF status = "Connected"
  THEN status' = "Disconnecting" /\ Tcp!ShutInLoop
  ELSE UNCHANGED <<status, fin, fault>>

ShutsDown == /\ Shutdown
             /\ UNCHANGED <<reading, writing, inMap, added, revents, draining,
                            out, wire, peer, sockErr, unread, queue, callerPc,
                            careful, kept, closes, removed, given>>

\* PARSE_ERROR: shutdown(), and then on as if the request were complete.
ParseErrorSilent ==           \* seeded defect: no shutdown() after an error
  /\ fault = "none" /\ pc = "error"
  /\ pc' = "broken"
  /\ UNCHANGED <<tcpVars, message, arrived, buffer, lineIndex, checkState, req,
                 router, answers>>

ParseError ==
  /\ fault = "none" /\ pc = "error"
  /\ ShutsDown
  /\ pc' = "broken"
  /\ UNCHANGED <<message, arrived, buffer, lineIndex, checkState, req,
                 router, answers>>

\* deal() calls LOG_FATAL where the path leads to a misused "*" (module
\* Router): that of the request line, or one that a line left which was refused.
MayMisuse == /\ router = "misused"
             /\ checkState # "requestline" \/ Len(buffer) < arrived
Misuses == router = "misused" /\ checkState # "requestline"

\* handle_http: the router, if there is one, deals with what there is, and
\* send() refuses unless the status is Connected.
HandleHttp ==
  /\ fault = "none" /\ pc \in {"end", "broken"}
  /\ \/ /\ ~Misuses
        /\ IF router # "none" /\ status = "Connected"
           THEN /\ Tcp!SendInLoop(Answer)
                /\ answers' = Append(answers, [result |-> pc, req |-> req])
           ELSE UNCHANGED <<given, wire, out, reading, writing, inMap, added,
                            answers>>
        /\ pc' = "handled"
     \/ /\ MayMisuse
        /\ pc' = "stopped"
        /\ UNCHANGED <<given, wire, out, reading, writing, inMap, added, answers>>
  /\ UNCHANGED <<status, revents, draining, fin, peer, sockErr, unread, queue,
                 callerPc, careful, kept, closes, removed, fault,
                 message, arrived, buffer, lineIndex, checkState, req, router>>

\* The shutdown() at the end of on_recv.
HandledKeepsOpen ==           \* seeded defect: the connection is kept alive
  /\ fault = "none" /\ pc = "handled"
  /\ pc' = "idle"
  /\ UNCHANGED <<tcpVars, message, arrived, buffer, lineIndex, checkState, req,
                 router, answers>>

Handled ==
  /\ fault = "none" /\ pc = "handled"
  /\ ShutsDown
  /\ pc' = "idle"
  /\ UNCHANGED <<message, arrived, buffer, lineIndex, checkState, req,
                 router, answers>>
-----------------------------------------------------------------------------
(* The server's loop and the client.                                       *)

Going == pc # "stopped"

ServerRemove == Going /\ Tcp!ServerRemove /\ UNCHANGED httpVars

ClientSends ==
  Going /\ arrived < Len(message) /\ Tcp!PeerSend /\ UNCHANGED httpVars

ClientLeaves ==
  Going /\ (Tcp!PeerClose \/ Tcp!PeerReset) /\ UNCHANGED httpVars
-----------------------------------------------------------------------------
Handler == \/ Event
           \/ OnRecv \/ ParseHttp \/ NeedMore
           \/ ParseError \/ HandleHttp \/ Handled

Next == \/ Poll(TRUE) \/ Poll(FALSE)
        \/ Handler
        \/ RunFunctor
        \/ ServerRemove
        \/ ClientSends \/ ClientLeaves

\* As in TcpConnection.  What the client has sent arrives.
Fairness == /\ SF_vars(Poll(TRUE))
            /\ SF_vars(RunFunctor)
            /\ WF_vars(Handler)
            /\ WF_vars(ServerRemove)

Spec == Init /\ [][Next]_vars /\ Fairness
-----------------------------------------------------------------------------
(* Properties.                                                             *)

\* In whatever pieces a request arrives, also with a CRLF cut in two, the
\* first outcome is that of one parse of the same bytes at once: the same
\* decision after the same byte, the same headers, length and content.
PiecesDoNotMatter ==
  pc \in {"recv", "error", "end"} /\ status = "Connected" =>
    Parser!Reference(arrived) = [result |-> pc, req |-> req]

\* A connection gets at most one answer, and only to a complete request with
\* as much content as its last length says, although the parser goes on with
\* what arrives later.  A negative length, which is huge as a size_t, is never
\* taken for the end of a request, nor for less than the content there is.
\* What the client reads before the end of the stream is the whole answer, if
\* there is one, or nothing, unless the client has reset the connection.
AnswersOneCompleteRequest ==
  /\ Len(answers) <= 1
  /\ \A i \in DOMAIN answers :
       /\ answers[i].result = "end"
       /\ \E n \in 0..arrived : answers[i] = Parser!Reference(n)
       /\ answers[i].req.length = Len(answers[i].req.content)
  /\ fin /\ peer # "reset" =>
       wire = IF answers = <<>> THEN <<>> ELSE Tcp!Units(Answer)

\* A client can end an HttpServer in two ways and no other.  The kernel takes
\* a part of an answer, and the shutdown() right behind the send() finds the
\* rest.  Or deal() runs into a misused "*", for a complete request or a broken
\* one, and then this client has got nothing yet, nor does it ever get an answer
\* where its path leads to one.  A client that leaves or resets at any moment,
\* or sends on after its request, does not do it, nor is the connection closed
\* twice or used after its deletion.
TwoWaysToEnd ==
  /\ fault # "none" => /\ fault = "shutInLoop: is writing" /\ router = "sound"
                       /\ Len(answers) = 1 /\ Len(out) = 1
  /\ answers # <<>> => router = "sound"
  /\ pc = "stopped" => /\ router = "misused"
                       /\ wire = <<>> /\ out = <<>>

\* The client of a complete request gets the answer of the router, if there is
\* one, and the end of the stream, unless it leaves before that or the process
\* ends, which deal() does only where the path leads to a misused "*".
CompleteIsServed ==
  (arrived = Len(message) /\ Parser!Reference(arrived).result = "end")
    ~> \/ fin /\ (answers # <<>> <=> router = "sound")
       \/ peer # "open" \/ fault # "none"
       \/ pc = "stopped" /\ router = "misused"
=============================================================================
