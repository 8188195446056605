----------------------------- MODULE HttpProofs -----------------------------
(***************************************************************************)
(* Proofs about module HttpConnection, for every set of messages:          *)
(*                                                                         *)
(*  - however the bytes of a request are cut into pieces, parse_http comes *)
(*    to the decision of one parse of the same bytes;                      *)
(*  - a connection answers at most one complete request, and the client    *)
(*    reads the whole answer or nothing of it;                             *)
(*  - only an answer that the kernel takes a part of and a misused "*" of  *)
(*    the Router end the process;                                          *)
(*  - HttpServer is a user of its connection as module TcpConnection has   *)
(*    them, so that what is proved there of every connection applies.      *)
(*                                                                         *)
(* The reference is a recursive function, one step of ParsedOnce per line. *)
(* Everything needed of it comes from its steps: the least step at which a *)
(* claim fails is never the first, and the step before it contradicts      *)
(* that.  Parsing, the part of the invariant about the parser, says that   *)
(* it is always where the reference is after some number of its steps; a   *)
(* step that goes on does the same when more bytes have arrived            *)
(* (OnceExtends), hence the pieces do not matter.                          *)
(***************************************************************************)
EXTENDS HttpConnection, WellFoundedInduction, TLAPS
-----------------------------------------------------------------------------
(* Sequences.                                                              *)

\* The rest of a sequence from position m on.
LEMMA RestOf ==
  ASSUME NEW S, NEW s \in Seq(S), NEW m \in 1..(Len(s) + 1)
  PROVE  /\ SubSeq(s, m, Len(s)) \in Seq(S)
         /\ Len(SubSeq(s, m, Len(s))) = Len(s) + 1 - m
         /\ \A j \in 1..(Len(s) + 1 - m) :
              SubSeq(s, m, Len(s))[j] = s[m - 1 + j]
  OBVIOUS

\* The first n elements.
LEMMA FirstOf ==
  ASSUME NEW S, NEW s \in Seq(S), NEW n \in 0..Len(s)
  PROVE  /\ SubSeq(s, 1, n) \in Seq(S) /\ Len(SubSeq(s, 1, n)) = n
         /\ \A j \in 1..n : SubSeq(s, 1, n)[j] = s[j]
  OBVIOUS

\* One sequence behind another.
LEMMA ConcatOf ==
  ASSUME NEW S, NEW s \in Seq(S), NEW t \in Seq(S)
  PROVE  /\ s \o t \in Seq(S) /\ Len(s \o t) = Len(s) + Len(t)
         /\ \A j \in 1..Len(s) : (s \o t)[j] = s[j]
         /\ \A j \in 1..Len(t) : (s \o t)[Len(s) + j] = t[j]
  OBVIOUS

\* Sequences are equal when their elements are.
LEMMA SameElements ==
  ASSUME NEW S, NEW s \in Seq(S), NEW t \in Seq(S), Len(s) = Len(t),
         \A j \in 1..Len(s) : s[j] = t[j]
  PROVE  s = t
  OBVIOUS

\* The rest of what has become longer.
LEMMA RestOfConcat ==
  ASSUME NEW S, NEW s \in Seq(S), NEW t \in Seq(S), NEW m \in 1..(Len(s) + 1)
  PROVE  SubSeq(s \o t, m, Len(s \o t)) = SubSeq(s, m, Len(s)) \o t
<1> DEFINE c == s \o t
           r == SubSeq(s, m, Len(s))
           a == SubSeq(c, m, Len(c))
           b == r \o t
<1>1. /\ c \in Seq(S) /\ Len(c) = Len(s) + Len(t)
      /\ \A j \in 1..Len(s) : c[j] = s[j]
      /\ \A j \in 1..Len(t) : c[Len(s) + j] = t[j]
  BY ConcatOf
<1>2. /\ r \in Seq(S) /\ Len(r) = Len(s) + 1 - m
      /\ \A j \in 1..(Len(s) + 1 - m) : r[j] = s[m - 1 + j]
  BY RestOf
<1> HIDE DEF c, r
<1>3. /\ a \in Seq(S) /\ Len(a) = Len(c) + 1 - m
      /\ \A j \in 1..(Len(c) + 1 - m) : a[j] = c[m - 1 + j]
  <2>1. m \in 1..(Len(c) + 1)
    BY <1>1
  <2> QED BY <1>1, <2>1, RestOf
<1>4. /\ b \in Seq(S) /\ Len(b) = Len(r) + Len(t)
      /\ \A j \in 1..Len(r) : b[j] = r[j]
      /\ \A j \in 1..Len(t) : b[Len(r) + j] = t[j]
  <2>1. r \in Seq(S)
    BY <1>2
  <2> QED BY <2>1, ConcatOf
<1> HIDE DEF a, b
<1>5. Len(a) = Len(b)
  BY <1>1, <1>2, <1>3, <1>4
<1>6. ASSUME NEW j \in 1..Len(a) PROVE a[j] = b[j]
  <2>0. j \in Nat /\ Len(s) \in Nat /\ Len(t) \in Nat /\ m \in Nat
    OBVIOUS
  <2>1. a[j] = c[m - 1 + j]
    BY <1>3
  <2>2. CASE j <= Len(r)
    <3>1. m - 1 + j \in 1..Len(s) /\ j \in 1..Len(r)
      BY <1>2, <2>0, <2>2
    <3> QED BY <1>1, <1>2, <1>4, <2>1, <3>1
  <2>3. CASE ~(j <= Len(r))
    <3>0. Len(r) = Len(s) + 1 - m /\ j <= Len(s) + Len(t) + 1 - m
      BY <1>1, <1>2, <1>3
    <3>1. PICK k : k = j - Len(r)
      OBVIOUS
    <3>2. k \in 1..Len(t) /\ m - 1 + j = Len(s) + k /\ j = Len(r) + k
      BY <2>0, <2>3, <3>0, <3>1
    <3>3. c[m - 1 + j] = t[k]
      BY <1>1, <3>2
    <3>4. b[j] = t[k]
      BY <1>4, <3>2
    <3> QED BY <2>1, <3>3, <3>4
  <2> QED BY <2>2, <2>3
<1>7. a = b
  <2>1. a \in Seq(S) /\ b \in Seq(S)
    BY <1>3, <1>4
  <2> QED BY <1>5, <1>6, <2>1, SameElements
<1> QED BY <1>7 DEF a, b, c, r

\* A longer prefix is the shorter one with what is between behind it.
LEMMA PrefixExtends ==
  ASSUME NEW S, NEW s \in Seq(S), NEW n \in 0..Len(s), NEW m \in n..Len(s)
  PROVE  /\ SubSeq(s, n + 1, m) \in Seq(S)
         /\ Len(SubSeq(s, n + 1, m)) = m - n
         /\ SubSeq(s, 1, m) = SubSeq(s, 1, n) \o SubSeq(s, n + 1, m)
<1> DEFINE p == SubSeq(s, 1, m)
           q == SubSeq(s, 1, n)
           r == SubSeq(s, n + 1, m)
           b == q \o r
<1>0. n \in Nat /\ m \in Nat /\ n <= m /\ m <= Len(s)
  OBVIOUS
<1>1. p \in Seq(S) /\ Len(p) = m /\ \A j \in 1..m : p[j] = s[j]
  <2>1. m \in 0..Len(s)
    OBVIOUS
  <2> QED BY <2>1, FirstOf
<1>2. q \in Seq(S) /\ Len(q) = n /\ \A j \in 1..n : q[j] = s[j]
  BY FirstOf
<1>3. r \in Seq(S) /\ Len(r) = m - n /\ \A j \in 1..(m - n) : r[j] = s[n + j]
  BY <1>0
<1> HIDE DEF p, q, r
<1>4. /\ b \in Seq(S) /\ Len(b) = Len(q) + Len(r)
      /\ \A j \in 1..Len(q) : b[j] = q[j]
      /\ \A j \in 1..Len(r) : b[Len(q) + j] = r[j]
  <2>1. q \in Seq(S) /\ r \in Seq(S)
    BY <1>2, <1>3
  <2> QED BY <2>1, ConcatOf
<1> HIDE DEF b
<1>5. Len(p) = Len(b)
  BY <1>0, <1>1, <1>2, <1>3, <1>4
<1>6. ASSUME NEW j \in 1..Len(p) PROVE p[j] = b[j]
  <2>0. j \in Nat /\ 1 <= j /\ j <= m /\ Len(q) = n /\ Len(r) = m - n
    BY <1>1, <1>2, <1>3
  <2>1. p[j] = s[j]
    BY <1>1
  <2>2. CASE j <= n
    <3>1. j \in 1..n
      BY <2>0, <2>2
    <3> QED BY <1>2, <1>4, <2>0, <2>1, <3>1
  <2>3. CASE ~(j <= n)
    <3>1. PICK k : k = j - n
      OBVIOUS
    <3>2. k \in 1..(m - n) /\ j = n + k
      BY <1>0, <2>0, <2>3, <3>1
    <3>3. b[j] = r[k]
      BY <1>4, <2>0, <3>2
    <3>4. r[k] = s[j]
      BY <1>3, <3>2
    <3> QED BY <2>1, <3>3, <3>4
  <2> QED BY <2>2, <2>3
<1>7. p = b
  <2>1. p \in Seq(S) /\ b \in Seq(S)
    BY <1>1, <1>4
  <2> QED BY <1>5, <1>6, <2>1, SameElements
<1> QED BY <1>3, <1>7 DEF p, q, r, b

\* A set of natural numbers that is not empty has a least element.
LEMMA LeastNumber ==
  ASSUME NEW S, S \subseteq Nat, S # {}
  PROVE  \E e \in S : \A f \in S : e <= f
<1> DEFINE R == OpToRel(<, Nat)
<1>1. IsWellFoundedOn(R, Nat)
  BY NatLessThanWellFounded
<1>2. \A a, b \in Nat : a < b => <<a, b>> \in R
  BY DEF OpToRel
<1> HIDE DEF R
<1>3. PICK e \in S : \A f \in S : ~ (<<f, e>> \in R)
  BY <1>1, WFMin
<1>4. ASSUME NEW f \in S PROVE e <= f
  <2>1. e \in Nat /\ f \in Nat /\ ~ (<<f, e>> \in R)
    BY <1>3
  <2> QED BY <1>2, <2>1
<1> QED BY <1>4

-----------------------------------------------------------------------------
(* Lines.                                                                 *)

\* A byte that may end a line.
Mark(b) == b \in {Parser!CR, Parser!LF}

\* No line ends among the first n bytes.
NoMark(s, n) == \A j \in 1..n : ~Mark(s[j])

\* Where parse_line stops is the first byte behind from that may end a line.
LEMMA StopAtFirst ==
  ASSUME NEW s \in Seq(BytePairs), NEW from \in 0..Len(s)
  PROVE  LET i == Parser!StopAt(s, from)
         IN /\ i \in (from + 1)..(Len(s) + 1)
            /\ \A j \in (from + 1)..(i - 1) : ~Mark(s[j])
            /\ i <= Len(s) => Mark(s[i])
<1> DEFINE marks == {i \in (from + 1)..Len(s) : Mark(s[i])}
<1>1. Parser!StopAt(s, from) = IF marks = {} THEN Len(s) + 1
                               ELSE Parser!Min(marks)
  BY DEF Parser!StopAt, Mark
<1>2. CASE marks = {}
  BY <1>1, <1>2
<1>3. CASE marks # {}
  <2>1. /\ marks \subseteq Nat
        /\ \A j \in marks : j \in (from + 1)..Len(s) /\ Mark(s[j])
    OBVIOUS
  <2>2. \A j \in (from + 1)..Len(s) : Mark(s[j]) => j \in marks
    OBVIOUS
  <2> HIDE DEF marks
  <2>3. \E m \in marks : \A x \in marks : m <= x
    BY <1>3, <2>1, LeastNumber
  <2>4. PICK m \in marks : m = Parser!Min(marks) /\ \A x \in marks : m <= x
    BY <2>3 DEF Parser!Min
  <2>5. Parser!StopAt(s, from) = m
    BY <1>1, <1>3, <2>4
  <2>6. ASSUME NEW j \in (from + 1)..(m - 1) PROVE ~Mark(s[j])
    <3>1. j \in (from + 1)..Len(s) /\ ~ (m <= j)
      BY <2>1
    <3> QED BY <2>2, <2>4, <3>1
  <2> QED BY <2>1, <2>5, <2>6
<1> QED BY <1>2, <1>3

\* That byte is the only one of the kind.
LEMMA StopAtIs ==
  ASSUME NEW s \in Seq(BytePairs), NEW from \in 0..Len(s),
         NEW i \in (from + 1)..(Len(s) + 1),
         \A j \in (from + 1)..(i - 1) : ~Mark(s[j]),
         i <= Len(s) => Mark(s[i])
  PROVE  Parser!StopAt(s, from) = i
<1>1. PICK h \in (from + 1)..(Len(s) + 1) :
        /\ h = Parser!StopAt(s, from)
        /\ \A j \in (from + 1)..(h - 1) : ~Mark(s[j])
        /\ h <= Len(s) => Mark(s[h])
  BY StopAtFirst
<1>2. ~ (h < i) /\ ~ (i < h)
  BY <1>1
<1> QED BY <1>1, <1>2

\* Looking again from a place with no mark before it finds the same byte.
LEMMA SameStop ==
  ASSUME NEW s \in Seq(BytePairs), NEW from \in 0..Len(s), NoMark(s, from)
  PROVE  Parser!StopAt(s, from) = Parser!StopAt(s, 0)
<1>1. PICK i \in (from + 1)..(Len(s) + 1) :
        /\ i = Parser!StopAt(s, from)
        /\ \A j \in (from + 1)..(i - 1) : ~Mark(s[j])
        /\ i <= Len(s) => Mark(s[i])
  BY StopAtFirst
<1>2. \A j \in 1..(i - 1) : ~Mark(s[j])
  BY <1>1 DEF NoMark
<1> QED BY <1>1, <1>2, StopAtIs

\* More bytes behind do not move it.
LEMMA StopExtends ==
  ASSUME NEW s \in Seq(BytePairs), NEW t \in Seq(BytePairs),
         Parser!StopAt(s, 0) <= Len(s)
  PROVE  Parser!StopAt(s \o t, 0) = Parser!StopAt(s, 0)
<1>0. 0 \in 0..Len(s) /\ 0 \in 0..Len(s \o t) /\ s \o t \in Seq(BytePairs)
  OBVIOUS
<1>1. PICK i \in (0 + 1)..(Len(s) + 1) :
        /\ i = Parser!StopAt(s, 0)
        /\ \A j \in (0 + 1)..(i - 1) : ~Mark(s[j])
        /\ i <= Len(s) => Mark(s[i])
  BY <1>0, StopAtFirst
<1>2. /\ i \in (0 + 1)..(Len(s \o t) + 1) /\ i <= Len(s)
      /\ \A j \in 1..i : (s \o t)[j] = s[j]
  BY <1>1
<1>3. \A j \in (0 + 1)..(i - 1) : ~Mark((s \o t)[j])
  BY <1>1, <1>2
<1>4. Mark((s \o t)[i])
  BY <1>1, <1>2
<1>5. Parser!StopAt(s \o t, 0) = i
  BY <1>0, <1>2, <1>3, <1>4, StopAtIs
<1> QED BY <1>1, <1>5

\* What parse_line says of the first line of s, the line, and what is behind it.
Status(s) == Parser!LineStatus(s, Parser!StopAt(s, 0))
Text(s)   == Parser!LineText(s, Parser!StopAt(s, 0))
Behind(s) == SubSeq(s, Parser!LineEnd(s, Parser!StopAt(s, 0)) + 1, Len(s))

\* What LINE_OPEN, LINE_BAD and LINE_OK say of the first mark.
LEMMA StatusSays ==
  ASSUME NEW s \in Seq(BytePairs)
  PROVE  LET i == Parser!StopAt(s, 0)
         IN /\ i \in 1..(Len(s) + 1)
            /\ Status(s) \in {"open", "bad", "ok"}
            /\ Status(s) = "open"
                 <=> i > Len(s) \/ (i = Len(s) /\ s[i] = Parser!CR)
            /\ Status(s) = "bad"
                 <=> /\ i <= Len(s) /\ ~(i = Len(s) /\ s[i] = Parser!CR)
                     /\ s[i] = Parser!LF \/ s[i + 1] # Parser!LF
            /\ Status(s) = "ok"
                 => /\ i < Len(s) /\ s[i] = Parser!CR /\ s[i + 1] = Parser!LF
                    /\ Parser!LineEnd(s, i) = i + 1
<1>0. 0 \in 0..Len(s)
  OBVIOUS
<1>1. PICK i \in (0 + 1)..(Len(s) + 1) :
        /\ i = Parser!StopAt(s, 0)
        /\ \A j \in (0 + 1)..(i - 1) : ~Mark(s[j])
        /\ i <= Len(s) => Mark(s[i])
  BY <1>0, StopAtFirst
<1>2. /\ i <= Len(s) => s[i] = Parser!CR \/ s[i] = Parser!LF
      /\ i > 1 => s[i - 1] # Parser!CR
      /\ Parser!CR # Parser!LF
  <2>1. Parser!CR # Parser!LF
    BY DEF Parser!CR, Parser!LF
  <2>2. i > 1 => i - 1 \in (0 + 1)..(i - 1)
    OBVIOUS
  <2> QED BY <1>1, <2>1, <2>2 DEF Mark
<1> HIDE DEF Mark
<1>3. Status(s) = Parser!LineStatus(s, i)
  BY <1>1 DEF Status
<1>4. CASE i > Len(s)
  BY <1>1, <1>3, <1>4 DEF Parser!LineStatus
<1>5. CASE i <= Len(s) /\ s[i] = Parser!LF
  BY <1>1, <1>2, <1>3, <1>5 DEF Parser!LineStatus
<1>6. CASE i <= Len(s) /\ s[i] = Parser!CR
  <2>1. Parser!LineEnd(s, i) = i + 1
    BY <1>6 DEF Parser!LineEnd
  <2> QED BY <1>1, <1>2, <1>3, <1>6, <2>1 DEF Parser!LineStatus
<1> QED BY <1>1, <1>2, <1>4, <1>5, <1>6

-----------------------------------------------------------------------------
(* One step of the reference.                                             *)

\* The types of the reference: what is left to parse, the state, the request
\* and the outcome.
LineStates == {"requestline", "header"}
Requests == [headers : Nat, length : Nat, content : Seq(BytePairs)]
Parses == [rest : Seq(BytePairs), state : LineStates \union {"content"},
           req : Requests, result : {"parse", "recv", "error", "end"}]

\* The branches of ParsedOnce, one by one.  A parse that is over stays as it is.
LEMMA OnceFinal ==
  ASSUME NEW p, p.result # "parse"
  PROVE  Parser!ParsedOnce(p) = p
  BY DEF Parser!ParsedOnce

\* The content is complete with as many bytes as Content-Length says.
LEMMA OnceContent ==
  ASSUME NEW p \in Parses, p.result = "parse", p.state = "content"
  PROVE  Parser!ParsedOnce(p) =
           IF Len(p.rest) < p.req.length
           THEN [p EXCEPT !.result = "recv"]
           ELSE [p EXCEPT !.result = "end",
                          !.req.content = SubSeq(p.rest, 1, p.req.length)]
  BY DEF Parser!ParsedOnce, Parses, Requests

\* A line that is not complete: more bytes are needed.
LEMMA OnceOpen ==
  ASSUME NEW p \in Parses, p.result = "parse", p.state # "content",
         Status(p.rest) = "open"
  PROVE  Parser!ParsedOnce(p) = [p EXCEPT !.result = "recv"]
<1>1. p.rest \in Seq(BytePairs)
  BY DEF Parses
<1> QED BY <1>1, StatusSays DEF Parser!ParsedOnce

\* A CR or LF on its own is an error.
LEMMA OnceBad ==
  ASSUME NEW p \in Parses, p.result = "parse", p.state # "content",
         Status(p.rest) = "bad"
  PROVE  Parser!ParsedOnce(p) = [p EXCEPT !.result = "error"]
<1>1. p.rest \in Seq(BytePairs)
  BY DEF Parses
<1> QED BY <1>1, StatusSays DEF Parser!ParsedOnce

\* A complete line: the request line, the empty line or a header.
LEMMA OnceLine ==
  ASSUME NEW p \in Parses, p.result = "parse", p.state # "content",
         Status(p.rest) = "ok"
  PROVE  Parser!ParsedOnce(p) =
           IF p.state = "requestline"
           THEN IF Text(p.rest) = <<Parser!Request>>
                THEN [p EXCEPT !.rest = Behind(@), !.state = "header"]
                ELSE [p EXCEPT !.result = "error"]
           ELSE IF Text(p.rest) = <<>>
           THEN IF p.req.length = 0
                THEN [p EXCEPT !.result = "end"]
                ELSE [p EXCEPT !.rest = Behind(@), !.state = "content"]
           ELSE IF Parser!HasColon(Text(p.rest))
           THEN [p EXCEPT !.rest = Behind(@),
                          !.req = Parser!WithHeader(p.req, Text(p.rest))]
           ELSE [p EXCEPT !.result = "error"]
<1>1. p.rest \in Seq(BytePairs)
  BY DEF Parses
<1> DEFINE i == Parser!StopAt(p.rest, 0)
<1>2. /\ ~(i > Len(p.rest) \/ (i = Len(p.rest) /\ p.rest[i] = Parser!CR))
      /\ ~(p.rest[i] = Parser!LF \/ p.rest[i + 1] # Parser!LF)
  <2>1. Status(p.rest) # "open" /\ Status(p.rest) # "bad"
    OBVIOUS
  <2> QED BY <1>1, <2>1, StatusSays
<1>3. Text(p.rest) = Parser!LineText(p.rest, i)
  BY DEF Text
<1>4. Behind(p.rest) =
        SubSeq(p.rest, Parser!LineEnd(p.rest, i) + 1, Len(p.rest))
  BY DEF Behind
<1> QED BY <1>2, <1>3, <1>4 DEF Parser!ParsedOnce, Parses

\* p with the bytes t behind it.
Longer(p, t) == [rest |-> p.rest \o t, state |-> p.state, req |-> p.req,
                 result |-> p.result]

\* A complete line and what is behind it; that is shorter.
LEMMA TextType ==
  ASSUME NEW s \in Seq(BytePairs), Status(s) = "ok"
  PROVE  /\ Text(s) \in Seq(BytePairs)
         /\ Behind(s) \in Seq(BytePairs) /\ Len(Behind(s)) < Len(s)
<1>1. PICK i \in 1..(Len(s) + 1) :
        /\ i = Parser!StopAt(s, 0) /\ i < Len(s) /\ Parser!LineEnd(s, i) = i + 1
  BY StatusSays
<1>2. Text(s) = SubSeq(s, 1, i + 1 - 2)
  BY <1>1 DEF Text, Parser!LineText
<1>3. Behind(s) = SubSeq(s, i + 1 + 1, Len(s))
  BY <1>1 DEF Behind
<1>4. i + 1 - 2 = i - 1 /\ i - 1 <= Len(s) /\ i + 1 + 1 <= Len(s) + 1
  BY <1>1
<1> QED BY <1>1, <1>2, <1>3, <1>4

\* A header makes a request of a request.
LEMMA HeaderType ==
  ASSUME NEW r \in Requests, NEW text \in Seq(BytePairs)
  PROVE  Parser!WithHeader(r, text) \in Requests
<1>1. Parser!IsLength(text) => text[1][2] % SizeMod \in Nat
  <2> SUFFICES ASSUME Parser!IsLength(text) PROVE text[1][2] % SizeMod \in Nat
    OBVIOUS
  <2>1. text[1] \in BytePairs
    BY DEF Parser!IsLength
  <2>2. text[1][2] \in Int
    BY <2>1 DEF BytePairs
  <2> QED BY <2>2, SizeModAssumption
<1>2. PICK n \in Nat :
        n = IF Parser!IsLength(text) THEN text[1][2] % SizeMod ELSE r.length
  BY <1>1 DEF Requests
<1>3. Parser!WithHeader(r, text) = [r EXCEPT !.headers = @ + 1, !.length = n]
  BY <1>2 DEF Parser!WithHeader, Requests
<1>4. r.headers + 1 \in Nat
  BY DEF Requests
<1> QED BY <1>2, <1>3, <1>4 DEF Requests

\* A step makes a parse of a parse, and one that goes on has taken a line.
LEMMA OnceType ==
  ASSUME NEW p \in Parses
  PROVE  /\ Parser!ParsedOnce(p) \in Parses
         /\ Parser!ParsedOnce(p).result = "parse"
              => /\ p.result = "parse" /\ p.state # "content"
                 /\ Status(p.rest) = "ok"
                 /\ Len(Parser!ParsedOnce(p).rest) < Len(p.rest)
<1>s. /\ p.rest \in Seq(BytePairs) /\ p.req \in Requests
      /\ p.result \in {"parse", "recv", "error", "end"}
      /\ p.state \in LineStates \union {"content"}
  BY DEF Parses
<1>1. CASE p.result # "parse"
  BY <1>1, OnceFinal
<1>2. CASE p.result = "parse" /\ p.state = "content"
  <2>2. CASE Len(p.rest) < p.req.length
    BY <1>2, <2>2, OnceContent DEF Parses
  <2>3. CASE ~(Len(p.rest) < p.req.length)
    <3>0. SubSeq(p.rest, 1, p.req.length) \in Seq(BytePairs)
      <4>1. p.req.length \in 0..Len(p.rest)
        BY <1>s, <2>3 DEF Requests
      <4> QED BY <1>s, <4>1, FirstOf
    <3>1. PICK c \in Seq(BytePairs) : c = SubSeq(p.rest, 1, p.req.length)
      BY <3>0
    <3>2. Parser!ParsedOnce(p)
            = [p EXCEPT !.result = "end", !.req = [@ EXCEPT !.content = c]]
      BY <1>2, <2>3, <3>1, OnceContent DEF Parses
    <3>3. [p.req EXCEPT !.content = c] \in Requests
      BY <1>s, <3>1 DEF Requests
    <3> QED BY <3>2, <3>3 DEF Parses
  <2> QED BY <2>2, <2>3
<1>3. CASE p.result = "parse" /\ p.state # "content" /\ Status(p.rest) = "open"
  BY <1>3, OnceOpen DEF Parses
<1>4. CASE p.result = "parse" /\ p.state # "content" /\ Status(p.rest) = "bad"
  BY <1>4, OnceBad DEF Parses
<1>5. CASE p.result = "parse" /\ p.state # "content" /\ Status(p.rest) = "ok"
  <2>1. /\ Text(p.rest) \in Seq(BytePairs) /\ Behind(p.rest) \in Seq(BytePairs)
        /\ Len(Behind(p.rest)) < Len(p.rest)
    BY <1>s, <1>5, TextType
  <2>2. Parser!WithHeader(p.req, Text(p.rest)) \in Requests
    BY <1>s, <2>1, HeaderType
  <2> QED BY <1>s, <1>5, <2>1, <2>2, OnceLine DEF Parses, LineStates
<1> QED BY <1>s, <1>1, <1>2, <1>3, <1>4, <1>5, StatusSays

\* A line that is complete is complete also with more bytes behind it.
LEMMA LineExtends ==
  ASSUME NEW s \in Seq(BytePairs), NEW t \in Seq(BytePairs), Status(s) = "ok"
  PROVE  /\ Status(s \o t) = "ok" /\ Text(s \o t) = Text(s)
         /\ Behind(s \o t) = Behind(s) \o t
<1>1. PICK i \in 1..(Len(s) + 1) :
        /\ i = Parser!StopAt(s, 0) /\ i < Len(s) /\ Parser!LineEnd(s, i) = i + 1
        /\ s[i] = Parser!CR /\ s[i + 1] = Parser!LF
  BY StatusSays
<1>2. Parser!StopAt(s \o t, 0) = i
  BY <1>1, StopExtends
<1>3. /\ (s \o t)[i] = s[i] /\ (s \o t)[i + 1] = s[i + 1]
      /\ s \o t \in Seq(BytePairs) /\ Len(s \o t) = Len(s) + Len(t)
  BY <1>1
<1>4. Parser!LineEnd(s \o t, i) = i + 1
  BY <1>1, <1>3 DEF Parser!LineEnd
<1>5. Status(s \o t) = "ok"
  BY <1>1, <1>2, <1>3 DEF Status, Parser!LineStatus
<1>6. Text(s \o t) = Text(s)
  <2>1. SubSeq(s \o t, 1, i + 1 - 2) = SubSeq(s, 1, i + 1 - 2)
    BY <1>1, <1>3
  <2> QED BY <1>1, <1>2, <1>4, <2>1 DEF Text, Parser!LineText
<1>7. Behind(s \o t) = Behind(s) \o t
  <2>1. i + 1 + 1 \in 1..(Len(s) + 1)
    BY <1>1
  <2>2. SubSeq(s \o t, i + 1 + 1, Len(s \o t))
          = SubSeq(s, i + 1 + 1, Len(s)) \o t
    BY <2>1, RestOfConcat
  <2> QED BY <1>1, <1>2, <1>4, <2>2 DEF Behind
<1> QED BY <1>5, <1>6, <1>7

\* A step that goes on does the same when there are more bytes behind.
LEMMA OnceExtends ==
  ASSUME NEW p \in Parses, NEW t \in Seq(BytePairs),
         Parser!ParsedOnce(p).result = "parse"
  PROVE  Parser!ParsedOnce(Longer(p, t)) = Longer(Parser!ParsedOnce(p), t)
<1>s. p.rest \in Seq(BytePairs)
  BY DEF Parses
<1>1. p.result = "parse" /\ p.state # "content" /\ Status(p.rest) = "ok"
  BY OnceType
<1>2. PICK q : q = Longer(p, t)
  OBVIOUS
<1>c. p.rest \o t \in Seq(BytePairs)
  BY <1>s, ConcatOf
<1>3. /\ q.result = "parse" /\ q.state = p.state /\ q.req = p.req
      /\ q.rest = p.rest \o t /\ p.rest \o t \in Seq(BytePairs)
      /\ q = [rest |-> q.rest, state |-> p.state, req |-> p.req,
              result |-> "parse"]
  BY <1>s, <1>c, <1>1, <1>2 DEF Longer, Parses
<1>4. q \in Parses
  BY <1>3 DEF Parses
<1>5. PICK behind, text :
        /\ behind = Behind(p.rest) /\ text = Text(p.rest)
        /\ behind \in Seq(BytePairs)
        /\ Status(q.rest) = "ok" /\ Text(q.rest) = text
        /\ Behind(q.rest) = behind \o t
  BY <1>s, <1>1, <1>3, LineExtends, TextType
<1>6. PICK r : r = Parser!WithHeader(p.req, text)
  OBVIOUS
<1>7. CASE p.state = "requestline"
  <2>1. text = <<Parser!Request>>
    BY <1>1, <1>5, <1>7, OnceLine DEF Parses
  <2>2. /\ Parser!ParsedOnce(p) = [p EXCEPT !.rest = behind, !.state = "header"]
        /\ Parser!ParsedOnce(q) =
             [q EXCEPT !.rest = behind \o t, !.state = "header"]
    BY <1>1, <1>3, <1>4, <1>5, <1>7, <2>1, OnceLine
  <2> QED BY <1>2, <1>3, <2>2 DEF Longer, Parses
<1>8. CASE p.state = "header" /\ text = <<>>
  <2>1. p.req.length # 0
    BY <1>1, <1>5, <1>8, OnceLine DEF Parses
  <2>2. /\ Parser!ParsedOnce(p) =
             [p EXCEPT !.rest = behind, !.state = "content"]
        /\ Parser!ParsedOnce(q) =
             [q EXCEPT !.rest = behind \o t, !.state = "content"]
    BY <1>1, <1>3, <1>4, <1>5, <1>8, <2>1, OnceLine
  <2> QED BY <1>2, <1>3, <2>2 DEF Longer, Parses
<1>9. CASE p.state = "header" /\ text # <<>>
  <2>1. Parser!HasColon(text)
    BY <1>1, <1>5, <1>9, OnceLine DEF Parses
  <2>2. /\ Parser!ParsedOnce(p) = [p EXCEPT !.rest = behind, !.req = r]
        /\ Parser!ParsedOnce(q) = [q EXCEPT !.rest = behind \o t, !.req = r]
    BY <1>1, <1>3, <1>4, <1>5, <1>6, <1>9, <2>1, OnceLine
  <2> QED BY <1>2, <1>3, <2>2 DEF Longer, Parses
<1> QED BY <1>1, <1>2, <1>7, <1>8, <1>9 DEF Parses, LineStates

-----------------------------------------------------------------------------
(* The reference, step by step.                                           *)

\* Parsed(n) of module HttpHandler, of a message given: its beginning, its
\* recursion and the function that it defines.
Begin(m, n) == [rest |-> SubSeq(m, 1, n), state |-> "requestline",
                req |-> Parser!NoRequest, result |-> "parse"]

Steps(f, b, n) == f = [k \in 0..n |-> IF k = 0 THEN b
                                      ELSE Parser!ParsedOnce(f[k - 1])]

ParseOf(m, n) == CHOOSE f : Steps(f, Begin(m, n), n + 1)

\* The reference of module HttpHandler is that of the handler's message.
LEMMA ParsedIsParseOf ==
  ASSUME NEW n
  PROVE  Parser!Parsed(n) = ParseOf(message, n)
  BY DEF Parser!Parsed, ParseOf, Steps, Begin

\* The recursion defines a function.
LEMMA StepsExist ==
  ASSUME NEW b, NEW n \in Nat
  PROVE  \E f : Steps(f, b, n)
<1> DEFINE S == {m \in Nat : ~ \E f : Steps(f, b, m)}
<1>1. CASE S = {}
  BY <1>1
<1>2. CASE S # {}
  <2>1. PICK m \in S : \A x \in S : m <= x
    <3>1. S \subseteq Nat
      OBVIOUS
    <3> HIDE DEF S
    <3> QED BY <1>2, <3>1, LeastNumber
  <2>2. m \in Nat /\ ~ \E f : Steps(f, b, m)
    OBVIOUS
  <2>3. CASE m = 0
    <3> DEFINE g == [k \in 0..0 |-> b]
    <3>1. Steps(g, b, 0)
      BY DEF Steps
    <3> QED BY <2>2, <2>3, <3>1
  <2>4. CASE m # 0
    <3>1. m - 1 \in Nat /\ ~(m - 1 \in S)
      BY <2>1, <2>2, <2>4
    <3>2. PICK f : Steps(f, b, m - 1)
      BY <3>1
    <3> DEFINE g == [k \in 0..m |-> IF k = m THEN Parser!ParsedOnce(f[m - 1])
                                             ELSE f[k]]
    <3>3. ASSUME NEW k \in 0..m
          PROVE  g[k] = IF k = 0 THEN b ELSE Parser!ParsedOnce(g[k - 1])
      <4>1. CASE k = m
        <5>1. m - 1 \in 0..m /\ m - 1 # m
          BY <2>2, <2>4
        <5>2. g[k - 1] = f[m - 1]
          BY <4>1, <5>1
        <5> QED BY <2>4, <4>1, <5>2
      <4>2. CASE k # m
        <5>1. k \in 0..(m - 1) /\ k - 1 # m /\ (k # 0 => k - 1 \in 0..m)
          BY <2>2, <4>2
        <5>2. g[k] = f[k] /\ (k # 0 => g[k - 1] = f[k - 1])
          BY <4>2, <5>1
        <5>3. f[k] = IF k = 0 THEN b ELSE Parser!ParsedOnce(f[k - 1])
          BY <3>2, <5>1 DEF Steps
        <5> QED BY <5>2, <5>3
      <4> QED BY <4>1, <4>2
    <3>4. Steps(g, b, m)
      <4>1. g = [k \in 0..m |-> g[k]]
        OBVIOUS
      <4> HIDE DEF g
      <4>2. g = [k \in 0..m |-> IF k = 0 THEN b
                                ELSE Parser!ParsedOnce(g[k - 1])]
        BY <3>3, <4>1
      <4> QED BY <4>2 DEF Steps
    <3> QED BY <2>2, <3>4
  <2> QED BY <2>3, <2>4
<1> QED BY <1>1, <1>2

\* The parse of the first n bytes begins at the beginning and goes on by steps.
LEMMA ParseOfSteps ==
  ASSUME NEW m, NEW n \in Nat
  PROVE  /\ ParseOf(m, n)[0] = Begin(m, n)
         /\ \A k \in 0..n :
              ParseOf(m, n)[k + 1] = Parser!ParsedOnce(ParseOf(m, n)[k])
<1>1. Steps(ParseOf(m, n), Begin(m, n), n + 1)
  <2>1. \E f : Steps(f, Begin(m, n), n + 1)
    BY StepsExist
  <2> QED BY <2>1 DEF ParseOf
<1>2. PICK f : f = ParseOf(m, n) /\ Steps(f, Begin(m, n), n + 1)
  BY <1>1
<1>3. f[0] = Begin(m, n)
  <2>1. 0 \in 0..(n + 1)
    OBVIOUS
  <2> QED BY <1>2, <2>1 DEF Steps
<1>4. ASSUME NEW k \in 0..n PROVE f[k + 1] = Parser!ParsedOnce(f[k])
  <2>1. k + 1 \in 0..(n + 1) /\ k + 1 # 0 /\ (k + 1) - 1 = k
    OBVIOUS
  <2> QED BY <1>2, <2>1 DEF Steps
<1> QED BY <1>2, <1>3, <1>4

\* Every step of it has the type of a parse.
LEMMA ParseOfType ==
  ASSUME NEW m \in Seq(BytePairs), NEW n \in 0..Len(m), NEW k \in 0..(n + 1)
  PROVE  ParseOf(m, n)[k] \in Parses
<1> DEFINE S == {j \in Nat : j <= n + 1 /\ ParseOf(m, n)[j] \notin Parses}
<1>0. n \in Nat
  OBVIOUS
<1>1. CASE S = {}
  BY <1>1
<1>2. CASE S # {}
  <2>1. PICK j \in S : \A x \in S : j <= x
    <3>1. S \subseteq Nat
      OBVIOUS
    <3> HIDE DEF S
    <3> QED BY <1>2, <3>1, LeastNumber
  <2>2. j \in Nat /\ j <= n + 1 /\ ParseOf(m, n)[j] \notin Parses
    OBVIOUS
  <2>3. CASE j = 0
    <3>1. SubSeq(m, 1, n) \in Seq(BytePairs)
      BY FirstOf
    <3>2. Begin(m, n) \in Parses
      BY <3>1 DEF Begin, Parses, Requests, LineStates, Parser!NoRequest
    <3> QED BY <1>0, <2>2, <2>3, <3>2, ParseOfSteps
  <2>4. CASE j # 0
    <3>1. j - 1 \in 0..n /\ (j - 1) + 1 = j /\ j - 1 \in Nat /\ j - 1 <= n + 1
      BY <1>0, <2>2, <2>4
    <3>2. ParseOf(m, n)[j - 1] \in Parses
      BY <2>1, <3>1
    <3>3. ParseOf(m, n)[j] = Parser!ParsedOnce(ParseOf(m, n)[j - 1])
      BY <1>0, <3>1, ParseOfSteps
    <3> QED BY <2>2, <3>2, <3>3, OnceType
  <2> QED BY <2>3, <2>4
<1> QED BY <1>1, <1>2

\* An outcome other than "parse" is final.
LEMMA OutcomeIsFinal ==
  ASSUME NEW m, NEW n \in Nat, NEW k \in 0..(n + 1), NEW h \in k..(n + 1),
         ParseOf(m, n)[k].result # "parse"
  PROVE  ParseOf(m, n)[h] = ParseOf(m, n)[k]
<1> DEFINE S == {j \in Nat : /\ k <= j /\ j <= n + 1
                             /\ ParseOf(m, n)[j] # ParseOf(m, n)[k]}
<1>1. CASE S = {}
  BY <1>1
<1>2. CASE S # {}
  <2>1. PICK j \in S : \A x \in S : j <= x
    <3>1. S \subseteq Nat
      OBVIOUS
    <3> HIDE DEF S
    <3> QED BY <1>2, <3>1, LeastNumber
  <2>2. /\ j \in Nat /\ k <= j /\ j <= n + 1
        /\ ParseOf(m, n)[j] # ParseOf(m, n)[k]
    OBVIOUS
  <2>3. j # k
    BY <2>2
  <2>4. /\ j - 1 \in 0..n /\ (j - 1) + 1 = j /\ j - 1 \in Nat
        /\ k <= j - 1 /\ j - 1 <= n + 1
    BY <2>2, <2>3
  <2>5. ParseOf(m, n)[j - 1] = ParseOf(m, n)[k]
    BY <2>1, <2>4
  <2>6. ParseOf(m, n)[j] = Parser!ParsedOnce(ParseOf(m, n)[j - 1])
    BY <2>4, ParseOfSteps
  <2> QED BY <2>2, <2>5, <2>6, OnceFinal
<1> QED BY <1>1, <1>2

\* A parse that goes on is the same parse when more bytes have arrived.
LEMMA ParseOfExtends ==
  ASSUME NEW m \in Seq(BytePairs), NEW n \in 0..Len(m), NEW h \in n..Len(m),
         NEW k \in 0..(n + 1), ParseOf(m, n)[k].result = "parse"
  PROVE  ParseOf(m, h)[k] = Longer(ParseOf(m, n)[k], SubSeq(m, n + 1, h))
<1> DEFINE t == SubSeq(m, n + 1, h)
<1>0. n \in Nat /\ h \in Nat /\ n <= h /\ k \in Nat /\ k <= n + 1
  OBVIOUS
<1>t. t \in Seq(BytePairs) /\ SubSeq(m, 1, h) = SubSeq(m, 1, n) \o t
  BY PrefixExtends
<1> HIDE DEF t
<1>p. ASSUME NEW j \in 0..k PROVE ParseOf(m, n)[j].result = "parse"
  <2>1. j \in 0..(n + 1) /\ k \in j..(n + 1)
    BY <1>0
  <2> QED BY <1>0, <2>1, OutcomeIsFinal
<1> DEFINE S == {j \in Nat : /\ j <= k
                             /\ ParseOf(m, h)[j] # Longer(ParseOf(m, n)[j], t)}
<1>1. CASE S = {}
  <2>1. ParseOf(m, h)[k] = Longer(ParseOf(m, n)[k], t)
    BY <1>0, <1>1
  <2> QED BY <2>1 DEF t
<1>2. CASE S # {}
  <2>1. PICK j \in S : \A x \in S : j <= x
    <3>1. S \subseteq Nat
      OBVIOUS
    <3> HIDE DEF S
    <3> QED BY <1>2, <3>1, LeastNumber
  <2>2. /\ j \in Nat /\ j <= k
        /\ ParseOf(m, h)[j] # Longer(ParseOf(m, n)[j], t)
    OBVIOUS
  <2>3. CASE j = 0
    <3>1. ParseOf(m, h)[0] = Begin(m, h) /\ ParseOf(m, n)[0] = Begin(m, n)
      BY <1>0, ParseOfSteps
    <3>2. Begin(m, h) = Longer(Begin(m, n), t)
      <4>1. PICK a, c : a = SubSeq(m, 1, n) /\ c = SubSeq(m, 1, h) /\ c = a \o t
        BY <1>t
      <4>2. /\ Begin(m, n) = [rest |-> a, state |-> "requestline",
                              req |-> Parser!NoRequest, result |-> "parse"]
            /\ Begin(m, h) = [rest |-> c, state |-> "requestline",
                              req |-> Parser!NoRequest, result |-> "parse"]
        BY <4>1 DEF Begin
      <4>3. Longer(Begin(m, n), t)
              = [rest |-> a \o t, state |-> "requestline",
                 req |-> Parser!NoRequest, result |-> "parse"]
        BY <4>2 DEF Longer
      <4> QED BY <4>1, <4>2, <4>3
    <3> QED BY <2>2, <2>3, <3>1, <3>2
  <2>4. CASE j # 0
    <3>1. PICK i : i = j - 1
      OBVIOUS
    <3>2. /\ i \in 0..n /\ i \in 0..h /\ i + 1 = j /\ i \in Nat /\ i <= k
          /\ i \in 0..(n + 1) /\ j \in 0..k
      BY <1>0, <2>2, <2>4, <3>1
    <3>3. ~(j <= i)
      BY <2>2, <3>1
    <3>4. ParseOf(m, h)[i] = Longer(ParseOf(m, n)[i], t)
      BY <2>1, <3>2, <3>3
    <3>5. /\ ParseOf(m, n)[j] = Parser!ParsedOnce(ParseOf(m, n)[i])
          /\ ParseOf(m, h)[j] = Parser!ParsedOnce(ParseOf(m, h)[i])
      BY <1>0, <3>2, ParseOfSteps
    <3>6. ParseOf(m, n)[i] \in Parses
      BY <3>2, ParseOfType
    <3>7. Parser!ParsedOnce(ParseOf(m, n)[i]).result = "parse"
      BY <1>p, <3>2, <3>5
    <3> QED BY <1>t, <2>2, <3>4, <3>5, <3>6, <3>7, OnceExtends
  <2> QED BY <2>3, <2>4
<1> QED BY <1>1, <1>2
-----------------------------------------------------------------------------
(* The parser.                                                             *)

\* Where the parser is, as a step of the reference.
Now == [rest |-> buffer, state |-> checkState, req |-> req, result |-> "parse"]

\* The parser is where the reference is after some of its steps, and what has
\* been looked at of the line it waits for does not end it.
Underway ==
  /\ Now \in Parses
  /\ lineIndex \in 0..Len(buffer) /\ NoMark(buffer, lineIndex)
  /\ req.content = <<>>
  /\ \E k \in 0..arrived : /\ k + Len(buffer) <= arrived
                           /\ ParseOf(message, arrived)[k] = Now

\* What parse_http has come to.
Outcome == [result |-> pc, req |-> req]

\* What there is to say of the parser until the connection is shut down.
Parsing ==
  /\ pc \in {"idle", "parse", "recv"} => Underway
  /\ pc \in {"recv", "error", "end"} => Parser!Reference(arrived) = Outcome
  /\ pc = "end" => req.length = Len(req.content)

\* The message and how much of it has arrived.
Arrival == message \in Messages /\ arrived \in 0..Len(message)

\* The bytes are those MessagesAssumption allows.
LEMMA MessageType ==
  ASSUME Arrival
  PROVE  message \in Seq(BytePairs) /\ arrived \in Nat
  BY MessagesAssumption DEF Arrival

\* A final step of the reference is its outcome.
LEMMA OutcomeOf ==
  ASSUME Arrival, NEW k \in 0..arrived, NEW p,
         p = Parser!ParsedOnce(ParseOf(message, arrived)[k]), p.result # "parse"
  PROVE  Parser!Reference(arrived) = [result |-> p.result, req |-> p.req]
<1>0. arrived \in Nat
  BY MessageType
<1>1. ParseOf(message, arrived)[k + 1] = p
  BY <1>0, ParseOfSteps
<1>2. k + 1 \in 0..(arrived + 1) /\ arrived + 1 \in (k + 1)..(arrived + 1)
  BY <1>0
<1>3. ParseOf(message, arrived)[arrived + 1] = p
  BY <1>0, <1>1, <1>2, OutcomeIsFinal
<1>4. Parser!Parsed(arrived) = ParseOf(message, arrived)
  BY ParsedIsParseOf
<1> QED BY <1>3, <1>4 DEF Parser!Reference

\* While lines are read, the parser stops where the reference does.
LEMMA StopIsFirst ==
  ASSUME Underway
  PROVE  /\ Parser!Stop = Parser!StopAt(buffer, 0)
         /\ buffer \in Seq(BytePairs)
         /\ \A st : Parser!InLines(st)
                      <=> /\ pc = "parse" /\ checkState # "content"
                          /\ Status(buffer) = st
<1>1. /\ buffer \in Seq(BytePairs) /\ lineIndex \in 0..Len(buffer)
      /\ NoMark(buffer, lineIndex)
  BY DEF Underway, Parses, Now
<1>2. Parser!Stop = Parser!StopAt(buffer, 0)
  BY <1>1, SameStop DEF Parser!Stop
<1> QED BY <1>1, <1>2 DEF Parser!InLines, Status

\* A step of the parser that goes on is a step of the reference.
LEMMA StepGoesOn ==
  ASSUME Arrival, Underway, UNCHANGED <<message, arrived>>,
         lineIndex' = 0, req'.content = <<>>, pc' = "parse",
         Now' = Parser!ParsedOnce(Now)
  PROVE  Parsing'
<1>0. arrived \in Nat
  BY MessageType
<1>1. PICK k \in 0..arrived : /\ k + Len(buffer) <= arrived
                              /\ ParseOf(message, arrived)[k] = Now
  BY DEF Underway
<1>2. ParseOf(message, arrived)[k + 1] = Now'
  BY <1>0, <1>1, ParseOfSteps
<1>3. /\ Now \in Parses /\ Now'.result = "parse"
      /\ Now.rest = buffer /\ Now'.rest = buffer'
  BY DEF Underway, Now
<1>4. Now' \in Parses /\ Len(buffer') < Len(buffer)
  BY <1>3, OnceType
<1>5. buffer' \in Seq(BytePairs) /\ buffer \in Seq(BytePairs)
  BY <1>3, <1>4 DEF Parses
<1>6. Len(buffer) \in Nat /\ Len(buffer') \in Nat
  BY <1>5
<1>7. k + 1 \in 0..arrived /\ (k + 1) + Len(buffer') <= arrived
  BY <1>0, <1>1, <1>4, <1>6
<1>8. NoMark(buffer', 0) /\ 0 \in 0..Len(buffer')
  BY <1>6 DEF NoMark
<1>9. Underway'
  BY <1>2, <1>4, <1>7, <1>8 DEF Underway
<1> QED BY <1>9 DEF Parsing

\* A step of the parser that ends it is the outcome of the reference.
LEMMA StepEnds ==
  ASSUME Arrival, Underway, UNCHANGED <<message, arrived>>,
         pc' \in {"error", "end"},
         pc' = "end" => req'.length = Len(req'.content),
         Parser!ParsedOnce(Now).result = pc', Parser!ParsedOnce(Now).req = req'
  PROVE  Parsing'
<1>1. PICK k \in 0..arrived : ParseOf(message, arrived)[k] = Now
  BY DEF Underway
<1>2. Parser!Reference(arrived) = [result |-> pc', req |-> req']
  BY <1>1, OutcomeOf
<1>3. Parser!Reference(arrived)' = Parser!Reference(arrived)
  BY DEF Parser!Reference, Parser!Parsed
<1> QED BY <1>2, <1>3 DEF Parsing, Outcome

\* The actions of the parser.  LINE_OPEN: the reference needs more as well, and
\* nothing up to lineIndex ends the line.
LEMMA LineOpenParses ==
  ASSUME Arrival, Parsing, Parser!LineOpen
  PROVE  Parsing'
<1>1. Underway
  BY DEF Parsing, Parser!LineOpen, Parser!InLines
<1>2. /\ Status(buffer) = "open" /\ checkState # "content"
      /\ Parser!Stop = Parser!StopAt(buffer, 0) /\ buffer \in Seq(BytePairs)
      /\ UNCHANGED <<message, arrived, buffer, checkState, req>> /\ pc' = "recv"
      /\ lineIndex' = Len(buffer)
                        + (IF Parser!Stop = Len(buffer) THEN -1 ELSE 0)
  BY <1>1, StopIsFirst DEF Parser!LineOpen
<1>3. PICK i \in (0 + 1)..(Len(buffer) + 1) :
        /\ i = Parser!StopAt(buffer, 0)
        /\ \A j \in (0 + 1)..(i - 1) : ~Mark(buffer[j])
  <2>1. 0 \in 0..Len(buffer)
    BY <1>2
  <2> QED BY <1>2, <2>1, StopAtFirst
<1>4. i > Len(buffer) \/ i = Len(buffer)
  BY <1>2, <1>3, StatusSays
<1>5. lineIndex' \in 0..Len(buffer) /\ lineIndex' = i - 1
  BY <1>2, <1>3, <1>4
<1>6. NoMark(buffer, lineIndex')
  BY <1>3, <1>5 DEF NoMark
<1>7. Now' = Now
  BY <1>2 DEF Now
<1>8. Underway'
  BY <1>1, <1>2, <1>5, <1>6, <1>7 DEF Underway
<1>9. Parser!ParsedOnce(Now) = [Now EXCEPT !.result = "recv"]
  BY <1>1, <1>2, OnceOpen DEF Underway, Now
<1>10. PICK k \in 0..arrived : ParseOf(message, arrived)[k] = Now
  BY <1>1 DEF Underway
<1>11. Parser!Reference(arrived) = [result |-> "recv", req |-> req]
  BY <1>9, <1>10, OutcomeOf DEF Now
<1>12. Parser!Reference(arrived)' = Parser!Reference(arrived)
  BY <1>2 DEF Parser!Reference, Parser!Parsed
<1> QED BY <1>2, <1>8, <1>11, <1>12 DEF Parsing, Outcome

\* LINE_BAD is an error of the reference.
LEMMA LineBadParses ==
  ASSUME Arrival, Parsing, Parser!LineBad
  PROVE  Parsing'
<1>1. Underway
  BY DEF Parsing, Parser!LineBad, Parser!InLines
<1>2. /\ Status(buffer) = "bad" /\ checkState # "content"
      /\ UNCHANGED <<message, arrived, req>> /\ pc' = "error"
  BY <1>1, StopIsFirst DEF Parser!LineBad
<1>3. Parser!ParsedOnce(Now) = [Now EXCEPT !.result = "error"]
  BY <1>1, <1>2, OnceBad DEF Underway, Now
<1>4. Parser!ParsedOnce(Now).result = pc' /\ Parser!ParsedOnce(Now).req = req'
  BY <1>2, <1>3 DEF Now
<1> QED BY <1>1, <1>2, <1>4, StepEnds

\* What the three actions on a complete line have in common.
LEMMA OnLine ==
  ASSUME Underway, Parser!InLines("ok"), Parser!RetrieveLine
  PROVE  /\ Now \in Parses /\ req \in Requests /\ req.content = <<>>
         /\ pc = "parse" /\ checkState \in LineStates
         /\ Status(buffer) = "ok"
         /\ Parser!LineText(buffer, Parser!Stop) = Text(buffer)
         /\ buffer' = Behind(buffer) /\ lineIndex' = 0
<1>1. /\ pc = "parse" /\ checkState # "content" /\ Status(buffer) = "ok"
      /\ Parser!Stop = Parser!StopAt(buffer, 0)
  BY StopIsFirst
<1> QED BY <1>1 DEF Underway, Now, Parses, Parser!RetrieveLine, Text, Behind

\* The request line is good or an error in both.
LEMMA RequestLineParses ==
  ASSUME Arrival, Parsing, Parser!RequestLine
  PROVE  Parsing'
<1>1. Underway
  BY DEF Parsing, Parser!RequestLine, Parser!InLines
<1>2. /\ Now \in Parses /\ req.content = <<>> /\ pc = "parse"
      /\ Status(buffer) = "ok" /\ checkState = "requestline"
      /\ Parser!LineText(buffer, Parser!Stop) = Text(buffer)
      /\ buffer' = Behind(buffer) /\ lineIndex' = 0
      /\ UNCHANGED <<message, arrived, req>>
  BY <1>1, OnLine DEF Parser!RequestLine
<1>3. Parser!ParsedOnce(Now) =
        IF Text(buffer) = <<Parser!Request>>
        THEN [Now EXCEPT !.rest = Behind(@), !.state = "header"]
        ELSE [Now EXCEPT !.result = "error"]
  BY <1>2, OnceLine DEF Now
<1>4. CASE Text(buffer) = <<Parser!Request>>
  <2>1. checkState' = "header" /\ pc' = "parse"
    BY <1>2, <1>4 DEF Parser!RequestLine
  <2>2. Now' = Parser!ParsedOnce(Now)
    BY <1>2, <1>3, <1>4, <2>1 DEF Now
  <2> QED BY <1>1, <1>2, <2>1, <2>2, StepGoesOn
<1>5. CASE Text(buffer) # <<Parser!Request>>
  <2>1. pc' = "error"
    BY <1>2, <1>5 DEF Parser!RequestLine
  <2>2. Parser!ParsedOnce(Now).result = pc' /\ Parser!ParsedOnce(Now).req = req'
    BY <1>2, <1>3, <1>5, <2>1 DEF Now
  <2> QED BY <1>1, <1>2, <2>1, <2>2, StepEnds
<1> QED BY <1>4, <1>5

\* The empty line ends both or takes both to the content.
LEMMA EndOfHeadersParses ==
  ASSUME Arrival, Parsing, Parser!EndOfHeaders
  PROVE  Parsing'
<1>1. Underway
  BY DEF Parsing, Parser!EndOfHeaders, Parser!InLines
<1>2. /\ Now \in Parses /\ req.content = <<>> /\ pc = "parse"
      /\ Status(buffer) = "ok" /\ checkState = "header"
      /\ Text(buffer) = <<>>
      /\ buffer' = Behind(buffer) /\ lineIndex' = 0
      /\ UNCHANGED <<message, arrived, req>>
  BY <1>1, OnLine DEF Parser!EndOfHeaders
<1>3. Parser!ParsedOnce(Now) =
        IF req.length = 0
        THEN [Now EXCEPT !.result = "end"]
        ELSE [Now EXCEPT !.rest = Behind(@), !.state = "content"]
  BY <1>2, OnceLine DEF Now
<1>4. CASE req.length # 0
  <2>1. checkState' = "content" /\ pc' = "parse"
    BY <1>2, <1>4 DEF Parser!EndOfHeaders
  <2>2. Now' = Parser!ParsedOnce(Now)
    BY <1>2, <1>3, <1>4, <2>1 DEF Now
  <2> QED BY <1>1, <1>2, <2>1, <2>2, StepGoesOn
<1>5. CASE req.length = 0
  <2>1. pc' = "end"
    BY <1>2, <1>5 DEF Parser!EndOfHeaders
  <2>2. Parser!ParsedOnce(Now).result = pc' /\ Parser!ParsedOnce(Now).req = req'
    BY <1>2, <1>3, <1>5, <2>1 DEF Now
  <2>3. req'.length = Len(req'.content)
    BY <1>2, <1>5
  <2> QED BY <1>1, <1>2, <2>1, <2>2, <2>3, StepEnds
<1> QED BY <1>4, <1>5

\* A header is stored or an error in both.
LEMMA HeaderParses ==
  ASSUME Arrival, Parsing, Parser!Header
  PROVE  Parsing'
<1>1. Underway
  BY DEF Parsing, Parser!Header, Parser!InLines
<1>2. /\ Now \in Parses /\ req \in Requests /\ req.content = <<>>
      /\ pc = "parse"
      /\ Status(buffer) = "ok" /\ checkState = "header"
      /\ Text(buffer) # <<>>
      /\ buffer' = Behind(buffer) /\ lineIndex' = 0
      /\ UNCHANGED <<message, arrived, checkState>>
      /\ IF Parser!HasColon(Text(buffer))
         THEN req' = Parser!WithHeader(req, Text(buffer)) /\ UNCHANGED pc
         ELSE pc' = "error" /\ UNCHANGED req
  BY <1>1, OnLine DEF Parser!Header
<1>3. Parser!ParsedOnce(Now) =
        IF Parser!HasColon(Text(buffer))
        THEN [Now EXCEPT !.rest = Behind(@),
                         !.req = Parser!WithHeader(req, Text(buffer))]
        ELSE [Now EXCEPT !.result = "error"]
  BY <1>2, OnceLine DEF Now
<1>4. CASE Parser!HasColon(Text(buffer))
  <2>1. req'.content = <<>>
    BY <1>2, <1>4 DEF Parser!WithHeader, Requests
  <2>2. Now' = Parser!ParsedOnce(Now)
    BY <1>2, <1>3, <1>4 DEF Now
  <2> QED BY <1>1, <1>2, <1>4, <2>1, <2>2, StepGoesOn
<1>5. CASE ~Parser!HasColon(Text(buffer))
  <2>1. Parser!ParsedOnce(Now).result = pc' /\ Parser!ParsedOnce(Now).req = req'
    BY <1>2, <1>3, <1>5 DEF Now
  <2> QED BY <1>1, <1>2, <1>5, <2>1, StepEnds
<1> QED BY <1>4, <1>5

\* The content: with too few bytes both wait, otherwise both end.
LEMMA ContentParses ==
  ASSUME Arrival, Parsing, Parser!Content
  PROVE  Parsing'
<1>1. Underway
  BY DEF Parsing, Parser!Content
<1>2. /\ Now \in Parses /\ req \in Requests /\ req.content = <<>>
      /\ buffer \in Seq(BytePairs)
      /\ checkState = "content"
      /\ UNCHANGED <<message, arrived, lineIndex, checkState>>
  BY <1>1 DEF Parser!Content, Underway, Now, Parses
<1>3. Parser!ParsedOnce(Now) =
        IF Len(buffer) < req.length
        THEN [Now EXCEPT !.result = "recv"]
        ELSE [Now EXCEPT !.result = "end",
                         !.req.content = SubSeq(buffer, 1, req.length)]
  BY <1>2, OnceContent DEF Now
<1>4. req.length \in Nat /\ Len(buffer) \in Nat
  BY <1>2 DEF Requests
<1>5. CASE Len(buffer) < req.length
  <2>1. UNCHANGED <<req, buffer>> /\ pc' = "recv"
    BY <1>4, <1>5 DEF Parser!Content, Parser!Enough
  <2>2. Now' = Now
    BY <1>2, <2>1 DEF Now
  <2>3. Underway'
    BY <1>1, <1>2, <2>1, <2>2 DEF Underway
  <2>4. PICK k \in 0..arrived : ParseOf(message, arrived)[k] = Now
    BY <1>1 DEF Underway
  <2>5. Parser!Reference(arrived) = [result |-> "recv", req |-> req]
    BY <1>3, <1>5, <2>4, OutcomeOf DEF Now
  <2>6. Parser!Reference(arrived)' = Parser!Reference(arrived)
    BY <1>2 DEF Parser!Reference, Parser!Parsed
  <2> QED BY <2>1, <2>3, <2>5, <2>6 DEF Parsing, Outcome
<1>6. CASE ~(Len(buffer) < req.length)
  <2>1. PICK c : c = SubSeq(buffer, 1, req.length)
    OBVIOUS
  <2>2. c \in Seq(BytePairs) /\ Len(c) = req.length
    <3>1. req.length \in 0..Len(buffer)
      BY <1>4, <1>6
    <3> QED BY <1>2, <2>1, <3>1, FirstOf
  <2>3. req' = [req EXCEPT !.content = c] /\ pc' = "end"
    <3>1. req.content \o c = c
      BY <1>2, <2>2
    <3> QED BY <1>2, <1>4, <1>6, <2>1, <3>1 DEF Parser!Content,
               Parser!Enough, Requests
  <2>4. Parser!ParsedOnce(Now) =
          [Now EXCEPT !.result = "end", !.req = [req EXCEPT !.content = c]]
    BY <1>3, <1>6, <2>1 DEF Now
  <2>5. Parser!ParsedOnce(Now).result = pc' /\ Parser!ParsedOnce(Now).req = req'
    BY <2>3, <2>4 DEF Now
  <2>6. req'.length = Len(req'.content)
    BY <1>2, <2>2, <2>3 DEF Requests
  <2> QED BY <1>1, <1>2, <2>3, <2>5, <2>6, StepEnds
<1> QED BY <1>5, <1>6

\* More bytes arrive: what the reference did with fewer it does with more.
LEMMA ReceiveParses ==
  ASSUME Arrival, Parsing, Parser!Receive
  PROVE  Parsing'
<1>1. Underway
  BY DEF Parsing, Parser!Receive
<1>2. PICK n \in (arrived + 1)..Len(message) :
        /\ buffer' = buffer \o SubSeq(message, arrived + 1, n) /\ arrived' = n
  BY DEF Parser!Receive
<1>3. UNCHANGED <<message, lineIndex, checkState, req>> /\ pc' = "parse"
  BY DEF Parser!Receive
<1>4. /\ message \in Seq(BytePairs)
      /\ arrived \in Nat /\ arrived \in 0..Len(message)
  BY MessageType DEF Arrival
<1>5. PICK t : t = SubSeq(message, arrived + 1, n)
  OBVIOUS
<1>6. n \in arrived..Len(message) /\ n \in Nat
  BY <1>4
<1>7. t \in Seq(BytePairs) /\ Len(t) = n - arrived
  BY <1>4, <1>5, <1>6, PrefixExtends
<1>8. /\ Now \in Parses /\ buffer \in Seq(BytePairs)
      /\ lineIndex \in 0..Len(buffer) /\ NoMark(buffer, lineIndex)
  BY <1>1 DEF Underway, Now, Parses
<1>9. /\ buffer' \in Seq(BytePairs) /\ Len(buffer') = Len(buffer) + Len(t)
      /\ \A j \in 1..Len(buffer) : buffer'[j] = buffer[j]
  BY <1>2, <1>5, <1>7, <1>8, ConcatOf
<1>10. Now' = Longer(Now, t)
  BY <1>2, <1>3, <1>5 DEF Now, Longer
<1>11. PICK k \in 0..arrived : /\ k + Len(buffer) <= arrived
                               /\ ParseOf(message, arrived)[k] = Now
  BY <1>1 DEF Underway
<1>12. ParseOf(message, n)[k] = Longer(Now, t)
  <2>1. k \in 0..(arrived + 1) /\ Now.result = "parse"
    BY <1>4 DEF Now
  <2> QED BY <1>4, <1>5, <1>6, <1>11, <2>1, ParseOfExtends
<1>13. k \in 0..arrived' /\ k + Len(buffer') <= arrived'
  BY <1>2, <1>4, <1>6, <1>7, <1>8, <1>9, <1>11
<1>14. Now' \in Parses
  BY <1>3, <1>8, <1>9 DEF Now, Parses
<1>15. lineIndex' \in 0..Len(buffer') /\ NoMark(buffer', lineIndex')
  <2>1. Len(buffer) \in Nat /\ Len(t) \in Nat
    BY <1>7, <1>8
  <2>2. lineIndex \in 0..Len(buffer')
    BY <1>8, <1>9, <2>1
  <2>3. \A j \in 1..lineIndex : j \in 1..Len(buffer)
    BY <1>8, <2>1
  <2> QED BY <1>3, <1>8, <1>9, <2>2, <2>3 DEF NoMark
<1>16. Underway'
  BY <1>1, <1>2, <1>3, <1>10, <1>12, <1>13, <1>14, <1>15 DEF Underway
<1> QED BY <1>3, <1>16 DEF Parsing
-----------------------------------------------------------------------------
(* The connection.                                                         *)

\* Types, as far as they are needed.
ConnTypes ==
  /\ status \in {"Connected", "Disconnecting", "Disconnected"}
  /\ peer \in {"open", "eof", "reset"}
  /\ writing \in BOOLEAN /\ inMap \in BOOLEAN /\ added \in BOOLEAN
  /\ kept = {}
  /\ pc \in {"idle", "parse", "recv", "error", "end", "broken", "handled",
             "stopped"}
  /\ router \in {"none", "sound", "misused"}
  /\ answers = <<>> \/ answers = <<answers[1]>>

\* Output is never left for POLLOUT, nor for the end of a BufferIntoNet.
NoOutput ==
  /\ ~draining /\ revents \in {{}, {"in"}, {"hup"}}
  /\ sockErr => peer = "reset"
  /\ pc # "idle" => revents = {}

\* The connection is closed once, with nothing of it being handled, and is
\* removed after that.
ClosedOnce ==
  \/ /\ status # "Disconnected"
     /\ closes = 0 /\ removed = "no" /\ queue = <<>> /\ inMap
  \/ /\ status = "Disconnected"
     /\ closes = 1 /\ ~added /\ revents = {} /\ pc = "idle"
     /\ \/ removed \in {"no", "done"} /\ queue = <<>>
        \/ removed = "posted" /\ queue = <<[op |-> "destroy"]>>

\* Data is buffered between a send() that could not write all of it and the
\* shutdown() right behind it, which it stops.
AnsweredOnce ==
  /\ writing <=> out # <<>>
  /\ out # <<>> => /\ out = <<Tcp!Units(Answer)[2]>> /\ answers # <<>> /\ ~fin
                   /\ (pc = "handled" /\ status = "Connected") \/ fault # "none"
  /\ fault # "none" => fault = "shutInLoop: is writing" /\ out # <<>>
  /\ fin => status # "Connected"
  /\ answers # <<>> => status # "Connected" \/ pc = "handled"
  /\ pc = "broken" => status # "Connected"
  /\ answers = <<>> => wire = <<>>
  /\ answers # <<>> =>
       \/ peer = "reset"
       \/ wire = IF out = <<>> THEN Tcp!Units(Answer)
                              ELSE <<Tcp!Units(Answer)[1]>>

\* What has been answered was the outcome of a complete request.
AnswersRight ==
  \A i \in DOMAIN answers :
    /\ answers[i].result = "end"
    /\ \E n \in 0..arrived : answers[i] = Parser!Reference(n)
    /\ answers[i].req.length = Len(answers[i].req.content)

\* Nothing is answered where deal() would end the process, or has ended it.
RouterSays ==
  /\ answers # <<>> => router = "sound"
  /\ pc = "stopped" => router = "misused" /\ answers = <<>> /\ out = <<>>
  /\ pc = "end" => checkState # "requestline"

\* The inductive invariant.  After a shutdown() nothing is said of the parser:
\* it may go on with bytes that no longer matter.
HttpInv ==
  /\ ConnTypes /\ NoOutput /\ ClosedOnce /\ AnsweredOnce
  /\ Arrival /\ AnswersRight /\ RouterSays
  /\ status = "Connected" => Parsing

\* The reference is that of the message.
LEMMA ReferenceKept ==
  ASSUME message' = message, NEW n
  PROVE  Parser!Reference(n)' = Parser!Reference(n)
  BY DEF Parser!Reference, Parser!Parsed

\* The parser is left alone.
LEMMA ParserKept ==
  ASSUME HttpInv, UNCHANGED httpVars, UNCHANGED out,
         status' = "Connected" => status = "Connected"
  PROVE  /\ Arrival' /\ AnswersRight' /\ RouterSays'
         /\ status' = "Connected" => Parsing'
<1>1. UNCHANGED <<message, arrived, buffer, lineIndex, checkState, req, pc,
                  router, answers>>
  BY DEF httpVars
<1>2. Arrival' /\ (Parsing <=> Parsing')
  BY <1>1 DEF HttpInv, Arrival, Parsing, Underway, Now, Outcome,
     Parser!Reference,
     Parser!Parsed
<1>3. AnswersRight'
  BY <1>1, ReferenceKept DEF HttpInv, AnswersRight
<1>4. RouterSays'
  BY <1>1 DEF HttpInv, RouterSays
<1> QED BY <1>2, <1>3, <1>4 DEF HttpInv

\* A connection that can still be polled has not been closed.
LEMMA PollStep ==
  ASSUME HttpInv, NEW room \in BOOLEAN, Poll(room)
  PROVE  HttpInv'
<1>1. /\ UNCHANGED httpVars /\ pc = "idle" /\ fault = "none" /\ added
      /\ revents' \in {{}, {"in"}, {"hup"}}
      /\ UNCHANGED <<status, reading, writing, inMap, added, draining, out,
                     wire, fin,
                     peer, sockErr, queue, kept, closes, removed, fault>>
  <2>1. /\ UNCHANGED httpVars /\ pc = "idle" /\ fault = "none" /\ added
        /\ UNCHANGED <<status, reading, writing, inMap, added, draining, out,
                       wire, fin,
                     peer, sockErr, queue, kept, closes, removed, fault>>
    BY DEF Poll, Idle, Tcp!Poll, Tcp!LoopFree, Tcp!channelVars, Tcp!sockVars,
       Tcp!writerVars, Tcp!serverVars
  <2>2. ~writing
    BY <2>1 DEF HttpInv, AnsweredOnce
  <2>3. "out" \notin revents' /\ revents' \subseteq {"hup", "in", "out"}
        /\ ~("in" \in revents' /\ "hup" \in revents')
    BY <2>2 DEF Poll, Tcp!Poll
  <2> QED BY <2>1, <2>3
<1>2. /\ Arrival' /\ AnswersRight' /\ RouterSays'
      /\ status' = "Connected" => Parsing'
  BY <1>1, ParserKept
<1>3. UNCHANGED <<pc, router, answers>>
  BY <1>1 DEF httpVars
<1>4. ConnTypes' /\ NoOutput'
  BY <1>1, <1>3 DEF HttpInv, ConnTypes, NoOutput
<1>5. ClosedOnce'
  BY <1>1, <1>3 DEF HttpInv, ClosedOnce
<1>6. AnsweredOnce'
  BY <1>1, <1>3 DEF HttpInv, AnsweredOnce, Tcp!Units
<1> QED BY <1>2, <1>4, <1>5, <1>6 DEF HttpInv

\* An event other than a piece of a request closes the connection, or changes
\* nothing that matters.
LEMMA EventStep ==
  ASSUME HttpInv, Event
  PROVE  HttpInv'
<1>0. /\ UNCHANGED httpVars /\ UNCHANGED <<pc, router, answers>>
      /\ pc = "idle" /\ ~draining
      /\ revents \in {{}, {"in"}, {"hup"}} /\ fault = "none" /\ ~writing
  BY DEF Event, Idle, httpVars, HttpInv, NoOutput, AnsweredOnce,
     Tcp!NetIntoBuffer,
     Tcp!HupEvent, Tcp!BufferIntoNet, Tcp!AfterDrain, Tcp!Dispatch
<1>1. \/ (peer = "reset" \/ ~unread) /\ Tcp!NetIntoBuffer
      \/ Tcp!HupEvent
  BY <1>0 DEF Event, Tcp!BufferIntoNet, Tcp!AfterDrain, Tcp!Dispatch
<1>2. /\ UNCHANGED <<draining, out, wire, fin, peer, queue, kept, removed>>
      /\ revents # {} /\ revents' = {}
      /\ sockErr' => sockErr
      /\ \/ Tcp!HandleClose
         \/ UNCHANGED <<status, reading, writing, inMap, added, closes,
                        fault>>
  BY <1>0, <1>1 DEF Tcp!NetIntoBuffer, Tcp!HupEvent, Tcp!Dispatch,
     Tcp!channelVars,
     Tcp!sockVars, Tcp!writerVars, Tcp!serverVars
<1>3. /\ status # "Disconnected" /\ inMap
      /\ closes = 0 /\ removed = "no" /\ queue = <<>>
  BY <1>2 DEF HttpInv, ClosedOnce
<1>4. CASE UNCHANGED <<status, reading, writing, inMap, added, closes, fault>>
  <2>1. /\ Arrival' /\ AnswersRight' /\ RouterSays'
        /\ status' = "Connected" => Parsing'
    BY <1>0, <1>2, <1>4, ParserKept
  <2>2. ConnTypes' /\ NoOutput'
    BY <1>0, <1>2, <1>4 DEF HttpInv, ConnTypes, NoOutput
  <2>3. ClosedOnce'
    BY <1>0, <1>2, <1>3, <1>4 DEF ClosedOnce
  <2>4. AnsweredOnce'
    BY <1>0, <1>2, <1>4 DEF HttpInv, AnsweredOnce, Tcp!Units
  <2> QED BY <2>1, <2>2, <2>3, <2>4 DEF HttpInv
<1>5. CASE Tcp!HandleClose
  <2>0. /\ status' = "Disconnected" /\ closes' = closes + 1 /\ UNCHANGED fault
        /\ writing' = FALSE /\ inMap' = TRUE /\ added' = FALSE
    BY <1>3, <1>5 DEF Tcp!HandleClose, Tcp!UpdateChannel
  <2>1. /\ Arrival' /\ AnswersRight' /\ RouterSays'
        /\ status' = "Connected" => Parsing'
    BY <1>0, <1>2, <2>0, ParserKept
  <2>2. ConnTypes' /\ NoOutput'
    BY <1>0, <1>2, <2>0 DEF HttpInv, ConnTypes, NoOutput
  <2>3. ClosedOnce'
    BY <1>0, <1>2, <1>3, <2>0 DEF ClosedOnce
  <2>4. AnsweredOnce'
    BY <1>0, <1>2, <2>0 DEF HttpInv, AnsweredOnce, Tcp!Units
  <2> QED BY <2>1, <2>2, <2>3, <2>4 DEF HttpInv
<1> QED BY <1>2, <1>4, <1>5

\* The only functor this connection queues is connectDestory.
LEMMA OnlyDestroys ==
  ASSUME HttpInv, RunFunctor
  PROVE  /\ UNCHANGED httpVars /\ pc = "idle"
         /\ status = "Disconnected" /\ closes = 1 /\ ~added /\ revents = {}
         /\ queue = <<[op |-> "destroy"]>> /\ Tail(queue) = <<>>
         /\ Tcp!ConnectDestory
<1>0. UNCHANGED httpVars /\ pc = "idle" /\ queue # <<>>
  BY DEF RunFunctor, Idle, httpVars, Tcp!RunFunctor, Tcp!RunDead, Tcp!RunSend,
     Tcp!RunShut, Tcp!ConnectDestory, Tcp!RunNext
<1>1. /\ status = "Disconnected" /\ closes = 1 /\ ~added /\ revents = {}
      /\ queue = <<[op |-> "destroy"]>>
  BY <1>0 DEF HttpInv, ClosedOnce
<1>2. Head(queue) = [op |-> "destroy"] /\ Tail(queue) = <<>>
  BY <1>1
<1>3. Tcp!ConnectDestory
  <2>1. Head(queue).op = "destroy"
    BY <1>2
  <2>2. ~Tcp!Dead(Head(queue))
    BY <2>1 DEF Tcp!Dead
  <2> QED BY <2>1, <2>2 DEF RunFunctor, Tcp!RunFunctor, Tcp!RunDead,
             Tcp!RunSend,
             Tcp!RunShut, Tcp!RunNext
<1> QED BY <1>0, <1>1, <1>2, <1>3

\* connectDestory runs once, on a connection that is closed.
LEMMA FunctorStep ==
  ASSUME HttpInv, RunFunctor
  PROVE  HttpInv'
<1>0. UNCHANGED httpVars /\ UNCHANGED <<pc, router, answers>> /\ pc = "idle"
  BY OnlyDestroys DEF httpVars
<1>1. /\ status = "Disconnected" /\ closes = 1 /\ ~added /\ revents = {}
      /\ Tail(queue) = <<>> /\ Tcp!ConnectDestory
  BY OnlyDestroys
<1>4. /\ queue' = <<>> /\ removed' = "done" /\ inMap' = FALSE /\ added' = FALSE
      /\ UNCHANGED <<status, reading, writing, revents, draining, out, wire,
                     fin, peer,
                     sockErr, kept, closes, fault>>
  BY <1>1 DEF Tcp!ConnectDestory, Tcp!RunNext, Tcp!RemoveChannel,
     Tcp!sockVars,
     Tcp!writerVars
<1>5. /\ Arrival' /\ AnswersRight' /\ RouterSays'
      /\ status' = "Connected" => Parsing'
  BY <1>0, <1>4, ParserKept
<1>6. ConnTypes' /\ NoOutput'
  BY <1>0, <1>4 DEF HttpInv, ConnTypes, NoOutput
<1>7. ClosedOnce'
  BY <1>0, <1>1, <1>4 DEF ClosedOnce
<1>8. AnsweredOnce'
  BY <1>0, <1>4 DEF HttpInv, AnsweredOnce, Tcp!Units
<1> QED BY <1>5, <1>6, <1>7, <1>8 DEF HttpInv

\* removeConnection queues connectDestory, once.
LEMMA RemoveStep ==
  ASSUME HttpInv, ServerRemove
  PROVE  HttpInv'
<1>0. /\ UNCHANGED httpVars /\ UNCHANGED <<pc, router, answers>>
      /\ closes = 0 \/ closes = 1
  BY DEF ServerRemove, httpVars, HttpInv, ClosedOnce
<1>1. /\ closes = 1 /\ removed = "no" /\ removed' = "posted"
      /\ queue' = Append(queue, [op |-> "destroy"])
      /\ UNCHANGED <<status, reading, writing, inMap, added, revents,
                     draining, out,
                     wire, fin, peer, sockErr, kept, closes, fault>>
  <2>1. ~(closes > 1)
    BY <1>0
  <2> QED BY <2>1 DEF ServerRemove, Tcp!ServerRemove, Tcp!channelVars,
             Tcp!sockVars, Tcp!writerVars
<1>2. /\ status = "Disconnected" /\ ~added /\ revents = {}
      /\ pc = "idle" /\ queue = <<>>
  BY <1>1 DEF HttpInv, ClosedOnce
<1>3. queue' = <<[op |-> "destroy"]>>
  BY <1>1, <1>2
<1>4. /\ Arrival' /\ AnswersRight' /\ RouterSays'
      /\ status' = "Connected" => Parsing'
  BY <1>0, <1>1, ParserKept
<1>5. ConnTypes' /\ NoOutput'
  BY <1>0, <1>1 DEF HttpInv, ConnTypes, NoOutput
<1>6. ClosedOnce'
  BY <1>0, <1>1, <1>2, <1>3 DEF ClosedOnce
<1>7. AnsweredOnce'
  BY <1>0, <1>1 DEF HttpInv, AnsweredOnce, Tcp!Units
<1> QED BY <1>4, <1>5, <1>6, <1>7 DEF HttpInv

\* What the client does changes peer and what it has sent.
LEMMA ClientStep ==
  ASSUME HttpInv, ClientSends \/ ClientLeaves
  PROVE  HttpInv'
<1>1. /\ UNCHANGED httpVars /\ UNCHANGED <<pc, router, answers>>
      /\ UNCHANGED <<status, reading, writing, inMap, added, revents,
                     draining, out,
                     wire, fin, queue, kept, closes, removed, fault>>
      /\ \/ UNCHANGED <<peer, sockErr>>
         \/ peer = "open" /\ peer' = "eof" /\ UNCHANGED sockErr
         \/ peer' = "reset" /\ sockErr' = TRUE
  BY DEF ClientSends, ClientLeaves, Tcp!PeerSend, Tcp!PeerClose,
     Tcp!PeerReset,
     httpVars, Tcp!channelVars, Tcp!writerVars, Tcp!serverVars
<1>2. /\ Arrival' /\ AnswersRight' /\ RouterSays'
      /\ status' = "Connected" => Parsing'
  BY <1>1, ParserKept
<1>3. ConnTypes' /\ NoOutput'
  BY <1>1 DEF HttpInv, ConnTypes, NoOutput
<1>4. ClosedOnce'
  BY <1>1 DEF HttpInv, ClosedOnce
<1>5. AnsweredOnce'
  BY <1>1 DEF HttpInv, AnsweredOnce, Tcp!Units
<1> QED BY <1>2, <1>3, <1>4, <1>5 DEF HttpInv

\* on_recv begins: a piece of the request is behind what was there.
LEMMA OnRecvStep ==
  ASSUME HttpInv, OnRecv
  PROVE  HttpInv'
<1>1. /\ pc = "idle" /\ peer # "reset" /\ unread /\ fault = "none"
      /\ Parser!Receive /\ UNCHANGED <<router, answers>>
      /\ "in" \in revents /\ "hup" \notin revents
      /\ revents' = revents \ {"in"}
      /\ UNCHANGED <<draining, out, wire, fin, peer, queue, kept, removed>>
  BY DEF OnRecv, Idle, Tcp!NetIntoBuffer, Tcp!Dispatch, Tcp!writerVars
<1>2. ~sockErr /\ ~Tcp!EndOfFile
  BY <1>1 DEF HttpInv, NoOutput, Tcp!EndOfFile
<1>3. UNCHANGED <<status, reading, writing, inMap, added, closes, fault,
                  sockErr>>
  BY <1>1, <1>2 DEF OnRecv, Tcp!NetIntoBuffer, Tcp!channelVars
<1>4. revents' = {}
  BY <1>1 DEF HttpInv, NoOutput
<1>5. /\ pc' = "parse" /\ message' = message
      /\ arrived' \in (arrived + 1)..Len(message)
  BY <1>1 DEF Parser!Receive
<1>6. Arrival'
  BY <1>5 DEF HttpInv, Arrival
<1>7. AnswersRight'
  <2>1. \A n \in 0..arrived : n \in 0..arrived'
    BY <1>5 DEF HttpInv, Arrival
  <2> QED BY <1>1, <1>5, <2>1, ReferenceKept DEF HttpInv, AnswersRight
<1>8. status' = "Connected" => Parsing'
  BY <1>1, <1>3, ReceiveParses DEF HttpInv
<1>9. ConnTypes' /\ NoOutput'
  BY <1>1, <1>2, <1>3, <1>4, <1>5 DEF HttpInv, ConnTypes, NoOutput
<1>10. ClosedOnce'
  BY <1>1, <1>3, <1>4, <1>5 DEF HttpInv, ClosedOnce
<1>11. AnsweredOnce'
  BY <1>1, <1>3, <1>5 DEF HttpInv, AnsweredOnce, Tcp!Units
<1>12. RouterSays'
  BY <1>1, <1>5 DEF HttpInv, RouterSays
<1> QED BY <1>6, <1>7, <1>8, <1>9, <1>10, <1>11, <1>12 DEF HttpInv

\* Inside on_recv, with the connection left alone and not closed.
LEMMA ConnKept ==
  ASSUME HttpInv, pc # "idle", UNCHANGED <<tcpVars, router, answers>>,
         fault = "none",
         pc' \in {"idle", "parse", "recv", "error", "end"}, pc # "handled"
  PROVE  ConnTypes' /\ NoOutput' /\ ClosedOnce' /\ AnsweredOnce'
<1>1. UNCHANGED <<status, reading, writing, inMap, added, revents, draining,
                  out, wire,
                  fin, peer, sockErr, queue, kept, closes, removed, fault>>
  BY DEF tcpVars
<1>2. ConnTypes' /\ NoOutput'
  BY <1>1 DEF HttpInv, ConnTypes, NoOutput
<1>3. ClosedOnce'
  BY <1>1 DEF HttpInv, ClosedOnce
<1>4. AnsweredOnce'
  BY <1>1 DEF HttpInv, AnsweredOnce, Tcp!Units
<1> QED BY <1>2, <1>3, <1>4

\* A pass of the parser's loop.
LEMMA ParseStep ==
  ASSUME HttpInv, ParseHttp
  PROVE  HttpInv'
<1>1. /\ pc = "parse"
      /\ UNCHANGED <<message, arrived, router, answers, tcpVars>>
      /\ fault = "none" /\ pc' \in {"parse", "recv", "error", "end"}
      /\ pc' = "end" => checkState' # "requestline"
  BY DEF ParseHttp, Parser!Parse, Parser!LineOpen, Parser!LineBad,
     Parser!RequestLine, Parser!EndOfHeaders, Parser!Header, Parser!Content,
     Parser!InLines
<1>2. Arrival'
  BY <1>1 DEF HttpInv, Arrival
<1>3. AnswersRight'
  BY <1>1, ReferenceKept DEF HttpInv, AnswersRight
<1>4. ASSUME status' = "Connected" PROVE Parsing'
  <2>1. Arrival /\ Parsing
    BY <1>1, <1>4 DEF HttpInv, tcpVars
  <2> QED BY <2>1, LineOpenParses, LineBadParses, RequestLineParses,
             EndOfHeadersParses, HeaderParses, ContentParses
          DEF ParseHttp, Parser!Parse
<1>5. ConnTypes' /\ NoOutput' /\ ClosedOnce' /\ AnsweredOnce'
  BY <1>1, ConnKept
<1>6. RouterSays'
  BY <1>1 DEF HttpInv, RouterSays
<1> QED BY <1>2, <1>3, <1>4, <1>5, <1>6 DEF HttpInv

\* on_recv returns, with the parser where it is.
LEMMA NeedMoreStep ==
  ASSUME HttpInv, NeedMore
  PROVE  HttpInv'
<1>1. /\ pc = "recv" /\ pc' = "idle" /\ fault = "none"
      /\ UNCHANGED <<tcpVars, message, arrived, buffer, lineIndex,
                     checkState, req, router, answers>>
  BY DEF NeedMore
<1>2. Arrival'
  BY <1>1 DEF HttpInv, Arrival
<1>3. AnswersRight'
  BY <1>1, ReferenceKept DEF HttpInv, AnswersRight
<1>4. ASSUME status' = "Connected" PROVE Parsing'
  <2>1. Underway
    BY <1>1, <1>4 DEF HttpInv, tcpVars, Parsing
  <2>2. Underway'
    BY <1>1, <2>1 DEF Underway, Now
  <2> QED BY <1>1, <2>2 DEF Parsing
<1>5. ConnTypes' /\ NoOutput' /\ ClosedOnce' /\ AnsweredOnce'
  BY <1>1, ConnKept
<1>6. RouterSays'
  BY <1>1 DEF HttpInv, RouterSays
<1> QED BY <1>2, <1>3, <1>4, <1>5, <1>6 DEF HttpInv

\* A shutdown() inside on_recv: fatal exactly if data is buffered.
LEMMA ShutdownStep ==
  ASSUME HttpInv, ShutsDown, fault = "none", pc # "idle",
         UNCHANGED <<message, arrived, router, answers>>,
         pc' \in {"idle", "broken"}
  PROVE  HttpInv'
<1>1. UNCHANGED <<reading, writing, inMap, added, revents, draining, out,
                  wire, peer,
                  sockErr, queue, kept, closes, removed>>
  BY DEF ShutsDown
<1>2. status # "Disconnected" /\ revents = {}
  BY DEF HttpInv, ClosedOnce, NoOutput
<1>3. /\ status' = "Disconnecting"
      /\ \/ UNCHANGED <<status, fin, fault>>
         \/ status = "Connected" /\ writing /\ UNCHANGED fin
            /\ fault' = "shutInLoop: is writing"
         \/ status = "Connected" /\ ~writing /\ UNCHANGED fault /\ fin' = TRUE
  <2>1. status \in {"Connected", "Disconnecting"}
    BY <1>2 DEF HttpInv, ConnTypes
  <2> QED BY <2>1 DEF ShutsDown, Shutdown, Tcp!ShutInLoop
<1>4. Arrival'
  BY DEF HttpInv, Arrival
<1>5. AnswersRight'
  BY ReferenceKept DEF HttpInv, AnswersRight
<1>6. ConnTypes' /\ NoOutput'
  BY <1>1, <1>2, <1>3 DEF HttpInv, ConnTypes, NoOutput
<1>7. ClosedOnce'
  BY <1>1, <1>2, <1>3 DEF HttpInv, ClosedOnce
<1>8. AnsweredOnce'
  <2>1. CASE UNCHANGED <<status, fin, fault>>
    BY <1>1, <1>3, <2>1 DEF HttpInv, AnsweredOnce, Tcp!Units
  <2>2. CASE /\ status = "Connected" /\ writing /\ UNCHANGED fin
             /\ fault' = "shutInLoop: is writing"
    BY <1>1, <1>3, <2>2 DEF HttpInv, AnsweredOnce, Tcp!Units
  <2>3. CASE status = "Connected" /\ ~writing /\ UNCHANGED fault /\ fin' = TRUE
    BY <1>1, <1>3, <2>3 DEF HttpInv, AnsweredOnce, Tcp!Units
  <2> QED BY <1>3, <2>1, <2>2, <2>3
<1>9. RouterSays'
  BY <1>1 DEF HttpInv, RouterSays
<1> QED BY <1>3, <1>4, <1>5, <1>6, <1>7, <1>8, <1>9 DEF HttpInv

\* handle_http and its send().
LEMMA HandleStep ==
  ASSUME HttpInv, HandleHttp
  PROVE  HttpInv'
<1>1. /\ pc \in {"end", "broken"} /\ pc' \in {"handled", "stopped"}
      /\ fault = "none"
      /\ UNCHANGED <<status, revents, draining, fin, peer, sockErr, queue,
                     kept, closes, removed, fault, message, arrived, req,
                     router>>
  BY DEF HandleHttp
<1>2. /\ status # "Disconnected" /\ closes = 0 /\ removed = "no" /\ queue = <<>>
      /\ revents = {} /\ inMap /\ out = <<>> /\ ~writing
  BY <1>1 DEF HttpInv, ClosedOnce, NoOutput, AnsweredOnce
<1>3. Arrival'
  BY <1>1 DEF HttpInv, Arrival
<1>4. status' = "Connected" => Parsing'
  BY <1>1 DEF Parsing
<1>5. CASE pc' = "stopped" \/ router = "none" \/ status # "Connected"
  <2>1. /\ UNCHANGED <<wire, out, reading, writing, inMap, added, answers>>
        /\ pc' = "stopped" => router = "misused"
        /\ pc' = "stopped" \/ pc = "end" \/ status # "Connected"
    BY <1>1, <1>5 DEF HandleHttp, MayMisuse, HttpInv, AnsweredOnce
  <2>2. AnswersRight'
    BY <1>1, <2>1, ReferenceKept DEF HttpInv, AnswersRight
  <2>3. ConnTypes' /\ NoOutput'
    BY <1>1, <1>2, <2>1 DEF HttpInv, ConnTypes, NoOutput
  <2>4. ClosedOnce'
    BY <1>1, <1>2, <2>1 DEF HttpInv, ClosedOnce
  <2>5. AnsweredOnce'
    BY <1>1, <1>2, <2>1 DEF HttpInv, AnsweredOnce, Tcp!Units
  <2>6. RouterSays'
    BY <1>1, <1>2, <2>1 DEF HttpInv, RouterSays
  <2> QED BY <1>3, <1>4, <2>2, <2>3, <2>4, <2>5, <2>6 DEF HttpInv
<1>6. CASE pc' = "handled" /\ router # "none" /\ status = "Connected"
  <2>1. pc = "end" /\ answers = <<>> /\ wire = <<>> /\ ~fin
    BY <1>1, <1>6 DEF HttpInv, AnsweredOnce
  <2>2. /\ answers' = <<[result |-> "end", req |-> req]>>
        /\ Tcp!SendInLoop(Answer)
    BY <1>6, <2>1 DEF HandleHttp
  <2>3. /\ Parser!Reference(arrived) = [result |-> "end", req |-> req]
        /\ req.length = Len(req.content)
    BY <1>6, <2>1 DEF HttpInv, Parsing, Outcome
  <2>4. AnswersRight'
    <3>1. arrived \in 0..arrived
      BY DEF HttpInv, Arrival
    <3>2. Parser!Reference(arrived)' = Parser!Reference(arrived)
      BY <1>1 DEF Parser!Reference, Parser!Parsed
    <3>3. \E n \in 0..arrived' : answers'[1] = Parser!Reference(n)'
      BY <1>1, <2>2, <2>3, <3>1, <3>2, ReferenceKept
    <3> QED BY <2>2, <2>3, <3>3 DEF AnswersRight
  <2>5. \/ /\ peer = "reset"
           /\ UNCHANGED <<wire, out, reading, writing, inMap, added>>
        \/ /\ wire' = Tcp!Units(Answer)
           /\ UNCHANGED <<out, reading, writing, inMap, added>>
        \/ /\ wire' = <<Tcp!Units(Answer)[1]>>
           /\ out' = <<Tcp!Units(Answer)[2]>>
           /\ writing' = TRUE /\ inMap' = TRUE /\ added' \in BOOLEAN
    <3>1. /\ Tcp!DirectWrite
          /\ Tcp!WriteFails => peer = "reset"
      BY <1>2, <2>1 DEF Tcp!DirectWrite, Tcp!WriteFails
    <3>2. wire \o Tcp!Units(Answer) = Tcp!Units(Answer)
      BY <2>1 DEF Tcp!Units
    <3>3. added \in BOOLEAN
      BY DEF HttpInv, ConnTypes
    <3>4. \/ /\ Tcp!WriteFails
             /\ UNCHANGED <<wire, out, reading, writing, inMap, added>>
          \/ /\ wire' = wire \o Tcp!Units(Answer)
             /\ UNCHANGED <<out, reading, writing, inMap, added>>
          \/ /\ wire' = Append(wire, Tcp!Units(Answer)[1])
             /\ out' = Append(out, Tcp!Units(Answer)[2])
             /\ Tcp!EnableWrite
      BY <2>2, <3>1 DEF Tcp!SendInLoop, Tcp!channelVars
    <3>5. ASSUME Tcp!EnableWrite
          PROVE  writing' = TRUE /\ inMap' = TRUE /\ added' \in BOOLEAN
      BY <1>2, <3>3, <3>5 DEF Tcp!EnableWrite, Tcp!UpdateChannel
    <3>6. ASSUME NEW x PROVE Append(<<>>, x) = <<x>>
      OBVIOUS
    <3> QED BY <1>2, <2>1, <3>1, <3>2, <3>4, <3>5, <3>6
  <2>6. ConnTypes' /\ NoOutput'
    <3>1. answers' = <<answers'[1]>>
      BY <2>2
    <3> QED BY <1>1, <1>2, <2>5, <3>1 DEF HttpInv, ConnTypes, NoOutput
  <2>7. ClosedOnce'
    BY <1>1, <1>2, <2>5 DEF ClosedOnce
  <2>8. AnsweredOnce'
    <3>1. answers' # <<>>
      BY <2>2
    <3>2. PICK u, a, b : u = Tcp!Units(Answer) /\ a = u[1] /\ b = u[2]
      OBVIOUS
    <3>3. Tcp!Units(Answer)' = u
      BY <3>2 DEF Tcp!Units
    <3>4. CASE UNCHANGED <<out, writing>> /\ (peer = "reset" \/ wire' = u)
      BY <1>1, <1>2, <1>6, <2>1, <3>1, <3>3, <3>4 DEF AnsweredOnce
    <3>5. CASE wire' = <<a>> /\ out' = <<b>> /\ writing' = TRUE
      BY <1>1, <1>6, <2>1, <3>1, <3>2, <3>3, <3>5 DEF AnsweredOnce
    <3> QED BY <2>5, <3>2, <3>4, <3>5
  <2>9. RouterSays'
    <3>1. ~Misuses
      BY <1>6 DEF HandleHttp
    <3>2. router = "sound"
      BY <1>6, <2>1, <3>1 DEF HttpInv, ConnTypes, RouterSays, Misuses
    <3> QED BY <1>1, <1>6, <3>2 DEF RouterSays
  <2> QED BY <1>3, <1>4, <2>4, <2>6, <2>7, <2>8, <2>9 DEF HttpInv
<1> QED BY <1>1, <1>5, <1>6

\* It holds of a new connection.
LEMMA HttpInitInv == Init => HttpInv
<1> SUFFICES ASSUME Init PROVE HttpInv
  OBVIOUS
<1>1. /\ status = "Connected" /\ ~writing /\ inMap /\ added /\ revents = {}
      /\ draining = FALSE /\ out = <<>> /\ wire = <<>> /\ fin = FALSE
      /\ peer = "open" /\ sockErr = FALSE /\ queue = <<>> /\ kept = {}
      /\ closes = 0 /\ removed = "no"
      /\ fault = "none" /\ answers = <<>> /\ writing = FALSE
      /\ router \in {"none", "sound", "misused"}
  BY DEF Init, Tcp!Init
<1>2. /\ message \in Messages /\ arrived = 0 /\ buffer = <<>> /\ lineIndex = 0
      /\ checkState = "requestline" /\ req = Parser!NoRequest /\ pc = "idle"
  BY DEF Init, Parser!Init
<1>3. Arrival /\ message \in Seq(BytePairs)
  BY <1>2, MessagesAssumption DEF Arrival
<1>4. Parsing
  <2>1. SubSeq(message, 1, 0) = <<>>
    BY <1>3
  <2>2. ParseOf(message, 0)[0] = Now
    <3>1. ParseOf(message, 0)[0] = Begin(message, 0)
      BY ParseOfSteps
    <3> QED BY <1>2, <2>1, <3>1 DEF Begin, Now
  <2>3. /\ Now \in Parses /\ req.content = <<>>
        /\ Len(buffer) = 0 /\ NoMark(buffer, 0)
    BY <1>2 DEF Now, Parses, LineStates, Requests, Parser!NoRequest, NoMark
  <2>4. 0 \in 0..0 /\ 0 + 0 <= 0
    OBVIOUS
  <2>5. Underway
    BY <1>2, <2>2, <2>3, <2>4 DEF Underway
  <2> QED BY <1>2, <2>5 DEF Parsing
<1>5. ConnTypes /\ NoOutput
  BY <1>1, <1>2 DEF ConnTypes, NoOutput
<1>6. ClosedOnce
  BY <1>1 DEF ClosedOnce
<1>7. AnsweredOnce
  BY <1>1, <1>2 DEF AnsweredOnce
<1>8. AnswersRight
  BY <1>1 DEF AnswersRight
<1>9. RouterSays
  BY <1>1, <1>2 DEF RouterSays
<1> QED BY <1>3, <1>4, <1>5, <1>6, <1>7, <1>8, <1>9 DEF HttpInv

\* The strengthened invariant holds in every reachable state.
LEMMA HttpInvariance == Spec => []HttpInv
<1>1. HttpInv /\ [Next]_vars => HttpInv'
  <2> SUFFICES ASSUME HttpInv, [Next]_vars PROVE HttpInv'
    OBVIOUS
  <2>1. CASE Poll(TRUE) \/ Poll(FALSE)
    BY <2>1, PollStep
  <2>2. CASE Event \/ OnRecv \/ ParseHttp \/ NeedMore
    BY <2>2, EventStep, OnRecvStep, ParseStep, NeedMoreStep
  <2>3. CASE ParseError \/ Handled
    BY <2>3, ShutdownStep DEF ParseError, Handled
  <2>4. CASE \/ HandleHttp \/ RunFunctor \/ ServerRemove
             \/ ClientSends \/ ClientLeaves
    BY <2>4, HandleStep, FunctorStep, RemoveStep, ClientStep
  <2>5. CASE UNCHANGED vars
    <3>1. /\ UNCHANGED httpVars /\ UNCHANGED <<pc, router, answers>>
          /\ UNCHANGED <<status, reading, writing, inMap, added, revents,
                         draining, out, wire, fin, peer, sockErr, queue,
                         kept, closes, removed, fault>>
      BY <2>5 DEF vars, httpVars, tcpVars
    <3>2. /\ Arrival' /\ AnswersRight' /\ RouterSays'
          /\ status' = "Connected" => Parsing'
      BY <3>1, ParserKept
    <3>3. ConnTypes' /\ NoOutput' /\ ClosedOnce'
      BY <3>1 DEF HttpInv, ConnTypes, NoOutput, ClosedOnce
    <3>4. AnsweredOnce'
      BY <3>1 DEF HttpInv, AnsweredOnce, Tcp!Units
    <3> QED BY <3>2, <3>3, <3>4 DEF HttpInv
  <2> QED BY <2>1, <2>2, <2>3, <2>4, <2>5 DEF Next, Handler
<1> QED BY <1>1, HttpInitInv, PTL DEF Spec
-----------------------------------------------------------------------------
(* The theorems.                                                           *)

\* In whatever pieces a request arrives, also with a CRLF cut in two, the first
\* outcome of parse_http is that of one parse of the same bytes at once.
THEOREM PiecesDoNotMatterHolds == Spec => []PiecesDoNotMatter
<1>1. HttpInv => PiecesDoNotMatter
  BY DEF HttpInv, Parsing, Outcome, PiecesDoNotMatter
<1> QED BY <1>1, HttpInvariance, PTL

\* A connection gets at most one answer, to a complete request with the content
\* its length says, and the client reads all of it or nothing.
THEOREM AnswersOneCompleteRequestHolds == Spec => []AnswersOneCompleteRequest
<1>1. ASSUME HttpInv PROVE AnswersOneCompleteRequest
  <2>1. Len(answers) <= 1
    BY <1>1 DEF HttpInv, ConnTypes
  <2>2. ASSUME fin, peer # "reset"
        PROVE  wire = IF answers = <<>> THEN <<>> ELSE Tcp!Units(Answer)
    <3>1. out = <<>>
      BY <1>1, <2>2 DEF HttpInv, AnsweredOnce
    <3> QED BY <1>1, <2>2, <3>1 DEF HttpInv, AnsweredOnce
  <2> QED BY <1>1, <2>1, <2>2 DEF HttpInv, AnswersRight,
             AnswersOneCompleteRequest
<1> QED BY <1>1, HttpInvariance, PTL

\* A client can end an HttpServer in two ways and no other: the kernel takes a
\* part of an answer, and the shutdown() right behind the send() finds the rest;
\* or deal() runs into a misused "*", and this client has got nothing, nor does
\* it get an answer where its path leads to one.
THEOREM TwoWaysToEndHolds == Spec => []TwoWaysToEnd
<1>1. ASSUME HttpInv, fault # "none"
      PROVE  /\ fault = "shutInLoop: is writing" /\ router = "sound"
             /\ Len(answers) = 1 /\ Len(out) = 1
  <2>1. /\ fault = "shutInLoop: is writing" /\ answers = <<answers[1]>>
        /\ out = <<Tcp!Units(Answer)[2]>> /\ answers # <<>>
    BY <1>1 DEF HttpInv, ConnTypes, AnsweredOnce
  <2>2. ASSUME NEW x PROVE Len(<<x>>) = 1
    OBVIOUS
  <2>3. router = "sound"
    BY <1>1, <2>1 DEF HttpInv, RouterSays
  <2> QED BY <2>1, <2>2, <2>3
<1>2. ASSUME HttpInv, pc = "stopped"
      PROVE  router = "misused" /\ wire = <<>> /\ out = <<>>
  BY <1>2 DEF HttpInv, RouterSays, AnsweredOnce
<1>3. HttpInv => TwoWaysToEnd
  BY <1>1, <1>2 DEF TwoWaysToEnd, HttpInv, RouterSays
<1> QED BY <1>3, HttpInvariance, PTL

-----------------------------------------------------------------------------
(* HttpServer as a user of TcpConnection.                                 *)

\* Nothing has been handed to sendInLoop before the answer.
NothingGiven == answers = <<>> => given = <<>>

\* The answer of handle_http is the first and only message.
LEMMA NothingGivenStep ==
  ASSUME HttpInv, NothingGiven, [Next]_vars
  PROVE  NothingGiven'
<1>1. CASE HandleHttp
  <2>1. CASE pc' = "handled" /\ router # "none" /\ status = "Connected"
    <3>1. answers' = Append(answers, [result |-> pc, req |-> req])
      BY <1>1, <2>1 DEF HandleHttp
    <3>2. ASSUME answers' = <<>> PROVE FALSE
      BY <3>1, <3>2
    <3> QED BY <3>2 DEF NothingGiven
  <2>2. CASE ~(pc' = "handled" /\ router # "none" /\ status = "Connected")
    BY <1>1, <2>2 DEF HandleHttp, NothingGiven
  <2> QED BY <2>1, <2>2
<1>2. CASE Poll(TRUE) \/ Poll(FALSE)
  BY <1>2 DEF NothingGiven, Poll, Tcp!Poll, httpVars
<1>3. CASE Event \/ OnRecv
  <2>1. Tcp!NetIntoBuffer => UNCHANGED given
    BY DEF Tcp!NetIntoBuffer
  <2>2. Tcp!HupEvent => UNCHANGED given
    BY DEF Tcp!HupEvent
  <2>3. Tcp!BufferIntoNet => UNCHANGED given
    BY DEF Tcp!BufferIntoNet
  <2>4. Tcp!AfterDrain => UNCHANGED given
    BY DEF Tcp!AfterDrain
  <2> QED BY <1>3, <2>1, <2>2, <2>3, <2>4 DEF Event, OnRecv, httpVars,
             NothingGiven
<1>4. CASE ParseHttp \/ NeedMore
  BY <1>4 DEF ParseHttp, NeedMore, tcpVars, NothingGiven
<1>5. CASE ParseError \/ Handled
  BY <1>5 DEF ParseError, Handled, ShutsDown, NothingGiven
<1>6. CASE RunFunctor
  BY <1>6, OnlyDestroys DEF Tcp!ConnectDestory, httpVars, NothingGiven
<1>7. CASE ServerRemove
  BY <1>7 DEF ServerRemove, Tcp!ServerRemove, httpVars, NothingGiven
<1>8. CASE ClientSends \/ ClientLeaves
  BY <1>8 DEF ClientSends, ClientLeaves, Tcp!PeerSend, Tcp!PeerClose,
     Tcp!PeerReset, httpVars, NothingGiven
<1>9. CASE UNCHANGED vars
  BY <1>9 DEF vars, tcpVars, httpVars, NothingGiven
<1> QED BY <1>1, <1>2, <1>3, <1>4, <1>5, <1>6, <1>7, <1>8, <1>9
        DEF Next, Handler

\* A shutdown() in on_recv is one by code of the user on the loop thread.
LEMMA ShutsDownIsTcp ==
  ASSUME HttpInv, ShutsDown, fault = "none", pc # "idle"
  PROVE  [Tcp!Next]_(Tcp!vars)
<1>1. CASE status = "Connected"
  <2>1. removed # "done"
    BY <1>1 DEF HttpInv, ClosedOnce
  <2>2. Tcp!ShutdownInside
    BY <1>1, <2>1 DEF ShutsDown, Shutdown, Tcp!ShutdownInside, Tcp!InUserCode,
       Tcp!channelVars, Tcp!writerVars, Tcp!serverVars
  <2> QED BY <2>2 DEF Tcp!Next
<1>2. CASE status # "Connected"
  BY <1>2 DEF ShutsDown, Shutdown, Tcp!vars, Tcp!channelVars, Tcp!sockVars,
     Tcp!writerVars, Tcp!serverVars
<1> QED BY <1>1, <1>2

\* So is the send() of handle_http, which sends the answer once.
LEMMA HandleIsTcp ==
  ASSUME HttpInv, NothingGiven, HandleHttp
  PROVE  [Tcp!Next]_(Tcp!vars)
<1>1. CASE pc' = "handled" /\ router # "none" /\ status = "Connected"
  <2>1. fault = "none" /\ removed # "done" /\ queue = <<>>
    BY <1>1 DEF HandleHttp, HttpInv, ClosedOnce
  <2>2. given = <<>>
    BY <1>1 DEF HandleHttp, HttpInv, AnsweredOnce, NothingGiven
  <2>3. Tcp!Unsent(Answer)
    BY <2>1, <2>2 DEF Tcp!Unsent, Tcp!Contains
  <2>4. Tcp!SendInside(Answer)
    BY <1>1, <2>1, <2>3 DEF HandleHttp, Tcp!SendInside, Tcp!InUserCode,
       Tcp!writerVars, Tcp!serverVars
  <2> QED BY <2>4 DEF Tcp!Next
<1>2. CASE ~(pc' = "handled" /\ router # "none" /\ status = "Connected")
  BY <1>2 DEF HandleHttp, Tcp!vars, Tcp!channelVars, Tcp!sockVars,
     Tcp!writerVars, Tcp!serverVars
<1> QED BY <1>1, <1>2

\* Every step of the connection is one of a TcpConnection without writers.
LEMMA StepIsTcp ==
  ASSUME HttpInv, NothingGiven, [Next]_vars
  PROVE  [Tcp!Next]_(Tcp!vars)
<1>1. CASE Poll(TRUE) \/ Poll(FALSE)
  BY <1>1 DEF Poll, Tcp!Next
<1>2. CASE Event \/ OnRecv
  BY <1>2 DEF Event, OnRecv, Tcp!Next, Tcp!Handler
<1>3. CASE ParseHttp \/ NeedMore
  BY <1>3 DEF ParseHttp, NeedMore, tcpVars, Tcp!vars, Tcp!channelVars,
     Tcp!sockVars,
     Tcp!writerVars, Tcp!serverVars
<1>4. CASE ParseError \/ Handled
  BY <1>4, ShutsDownIsTcp DEF ParseError, Handled
<1>5. CASE HandleHttp
  BY <1>5, HandleIsTcp
<1>6. CASE RunFunctor \/ ServerRemove \/ ClientSends \/ ClientLeaves
  BY <1>6 DEF RunFunctor, ServerRemove, ClientSends, ClientLeaves, Tcp!Next
<1>7. CASE UNCHANGED vars
  BY <1>7 DEF vars, tcpVars, Tcp!vars, Tcp!channelVars, Tcp!sockVars,
     Tcp!writerVars, Tcp!serverVars
<1> QED BY <1>1, <1>2, <1>3, <1>4, <1>5, <1>6, <1>7 DEF Next, Handler

\* HttpServer is a user of its connection as module TcpConnection has them:
\* what on_recv does to it, a send() or a shutdown() on the loop thread may do,
\* and it sends each message once.
THEOREM HttpUsesTcp == Spec => Tcp!Init /\ [][Tcp!Next]_(Tcp!vars)
<1>1. Init => Tcp!Init /\ NothingGiven
  BY DEF Init, NothingGiven, Tcp!Init
<1>2. Spec => []NothingGiven
  BY <1>1, HttpInvariance, NothingGivenStep, PTL DEF Spec
<1> QED BY <1>1, <1>2, HttpInvariance, StepIsTcp, PTL DEF Spec
=============================================================================
