---------------------------- MODULE HttpHandler ----------------------------
(***************************************************************************)
(* src/http/HttpHandler.cpp: the request parser of one connection, which   *)
(* is fed whatever piece of the request has arrived and keeps its place    *)
(* between the pieces.  HttpConnection is the connection it works for.     *)
(*                                                                         *)
(* A byte is a pair.  CR, LF and Other stand for themselves; the texts of a *)
(* good request line, of an ordinary header and of a Content-length header *)
(* are one byte each, since the parser tells no more about them apart.     *)
(***************************************************************************)
EXTENDS Integers, Sequences, SequencesExt, FiniteSetsExt

CONSTANTS Messages,   \* all that a client may send, as sequences of bytes
          SizeMod     \* size_t counts modulo this, 2^64 in the code

CR        == <<"CR", 0>>
LF        == <<"LF", 0>>
Other     == <<"text", 0>>
Request   == <<"request", 0>>
Field     == <<"field", 0>>
Length(k) == <<"length", k>>

VARIABLES
  message,    \* what this client sends in the end
  arrived,    \* how much of it has been read from the socket
  buffer,     \* inBuffer_
  lineIndex,  \* line_index_
  checkState, \* check_state_
  req,        \* req_: number of header lines, content_lenth, content_data
  pc          \* "idle", "parse", or what parse_http returned

vars == <<message, arrived, buffer, lineIndex, checkState, req, pc>>

NoRequest == [headers |-> 0, length |-> 0, content |-> <<>>]

\* on_connect: a new HttpHandler for the connection.
Init ==
  /\ message \in Messages
  /\ arrived = 0
  /\ buffer = <<>> /\ lineIndex = 0 /\ checkState = "requestline"
  /\ req = NoRequest
  /\ pc = "idle"
-----------------------------------------------------------------------------
(* Lines.                                                                  *)

\* Where parse_line stops, having begun at index from: at the first CR or LF,
\* or at the end of what there is.
StopAt(s, from) ==
  LET marks == {i \in (from + 1)..Len(s) : s[i] \in {CR, LF}}
  IN IF marks = {} THEN Len(s) + 1 ELSE Min(marks)

LineStatusNoOpen(s, i) ==     \* seeded defect: a CR that ends the piece is bad
  IF i > Len(s) THEN "open"
  ELSE IF \/ s[i] = CR /\ i < Len(s) /\ s[i + 1] = LF
          \/ s[i] = LF /\ i > 1 /\ s[i - 1] = CR THEN "ok"
  ELSE "bad"

LineStatus(s, i) ==
  IF i > Len(s) \/ (s[i] = CR /\ i = Len(s)) THEN "open"
  ELSE IF \/ s[i] = CR /\ s[i + 1] = LF
          \/ s[i] = LF /\ i > 1 /\ s[i - 1] = CR THEN "ok"
  ELSE "bad"

\* line_index_ behind the CRLF, and the text before it.
LineEnd(s, i)  == IF s[i] = CR THEN i + 1 ELSE i
LineText(s, i) == SubSeq(s, 1, LineEnd(s, i) - 2)

IsLength(text) == text # <<>> /\ text[1][1] = "length"
HasColon(text) == \E i \in DOMAIN text : text[i][1] \in {"field", "length"}

\* parse_headers on a line that is not empty; content_lenth is overwritten,
\* with the long that atol returns turned into a size_t.
WithHeader(r, text) ==
  [r EXCEPT !.headers = @ + 1,
            !.length = IF IsLength(text) THEN text[1][2] % SizeMod ELSE @]
-----------------------------------------------------------------------------
(* parse_http: one action for a pass of its loop.                          *)

Stop == StopAt(buffer, lineIndex)

InLines(status) == /\ pc = "parse"
                   /\ checkState # "content"
                   /\ LineStatus(buffer, Stop) = status

\* LINE_OPEN: the index waits at a CR that has no successor, or at the end.
LineOpen ==
  /\ InLines("open")
  /\ lineIndex' = Len(buffer) + (IF Stop = Len(buffer) THEN -1 ELSE 0)
  /\ pc' = "recv"
  /\ UNCHANGED <<message, arrived, buffer, checkState, req>>

LineBad ==
  /\ InLines("bad")
  /\ lineIndex' = Stop - 1
  /\ pc' = "error"
  /\ UNCHANGED <<message, arrived, buffer, checkState, req>>

\* LINE_OK: retrieve(line_index_) and line_index_ = 0.
RetrieveLine ==
  /\ buffer' = SubSeq(buffer, LineEnd(buffer, Stop) + 1, Len(buffer))
  /\ lineIndex' = 0

RequestLine ==
  /\ InLines("ok") /\ checkState = "requestline"
  /\ RetrieveLine
  /\ IF LineText(buffer, Stop) = <<Request>>
     THEN checkState' = "header" /\ UNCHANGED pc
     ELSE pc' = "error" /\ UNCHANGED checkState
  /\ UNCHANGED <<message, arrived, req>>

\* The empty line: there is content to come, or the request is complete.
EndOfHeaders ==
  /\ InLines("ok") /\ checkState = "header"
  /\ LineText(buffer, Stop) = <<>>
  /\ RetrieveLine
  /\ IF req.length # 0
     THEN checkState' = "content" /\ UNCHANGED pc
     ELSE pc' = "end" /\ UNCHANGED checkState
  /\ UNCHANGED <<message, arrived, req>>

Header ==
  /\ InLines("ok") /\ checkState = "header"
  /\ LET text == LineText(buffer, Stop) IN
       /\ text # <<>>
       /\ IF HasColon(text) THEN req' = WithHeader(req, text) /\ UNCHANGED pc
                            ELSE pc' = "error" /\ UNCHANGED req
  /\ RetrieveLine
  /\ UNCHANGED <<message, arrived, checkState>>

EnoughOff(n) == n > req.length                                \* seeded defect
Enough(n) == n >= req.length

\* parse_content copies content_lenth bytes, retrieve drops all there are.
Content ==
  /\ pc = "parse" /\ checkState = "content"
  /\ IF Enough(Len(buffer))
     THEN /\ req' = [req EXCEPT !.content = @ \o SubSeq(buffer, 1, req.length)]
          /\ buffer' = <<>>
          /\ pc' = "end"
     ELSE pc' = "recv" /\ UNCHANGED <<req, buffer>>
  /\ UNCHANGED <<message, arrived, lineIndex, checkState>>
-----------------------------------------------------------------------------
\* message_cb_ with one more piece in the buffer, also after a shutdown().
Receive ==
  /\ pc = "idle"
  /\ \E n \in (arrived + 1)..Len(message) :
       /\ buffer' = buffer \o SubSeq(message, arrived + 1, n)
       /\ arrived' = n
  /\ pc' = "parse"
  /\ UNCHANGED <<message, lineIndex, checkState, req>>

Parse == LineOpen \/ LineBad \/ RequestLine \/ EndOfHeaders \/ Header \/ Content
-----------------------------------------------------------------------------
(* The reference: the parse of all that has arrived, from its beginning.   *)

\* One line, or the content; an outcome other than "parse" is final.
ParsedOnce(p) ==
  LET i == StopAt(p.rest, 0)
      open == i > Len(p.rest) \/ (i = Len(p.rest) /\ p.rest[i] = CR)
      bad == p.rest[i] = LF \/ p.rest[i + 1] # LF
      text == LineText(p.rest, i)
      behind == [p EXCEPT !.rest = SubSeq(@, LineEnd(@, i) + 1, Len(@))]
      error == [p EXCEPT !.result = "error"]
      end == [p EXCEPT !.result = "end"]
      recv == [p EXCEPT !.result = "recv"]
  IN
  IF p.result # "parse" THEN p
  ELSE IF p.state = "content"
  THEN IF Len(p.rest) < p.req.length THEN recv
       ELSE [end EXCEPT !.req.content = SubSeq(p.rest, 1, p.req.length)]
  ELSE IF open THEN recv
  ELSE IF bad THEN error
  ELSE IF p.state = "requestline"
  THEN IF text = <<Request>> THEN [behind EXCEPT !.state = "header"] ELSE error
  ELSE IF text = <<>>
  THEN IF p.req.length = 0 THEN end ELSE [behind EXCEPT !.state = "content"]
  ELSE IF HasColon(text) THEN [behind EXCEPT !.req = WithHeader(p.req, text)]
  ELSE error

\* The parse of the first n bytes, line by line; n bytes are less than n lines.
Parsed(n) ==
  LET parsed[k \in 0..(n + 1)] ==
        IF k = 0
        THEN [rest |-> SubSeq(message, 1, n), state |-> "requestline",
              req |-> NoRequest, result |-> "parse"]
        ELSE ParsedOnce(parsed[k - 1])
  IN parsed

\* Outcome and request after the first n bytes.
Reference(n) == LET all == Parsed(n)[n + 1]
                IN [result |-> all.result, req |-> all.req]
=============================================================================
