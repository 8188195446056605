-------------------------- MODULE UdpServerProofs --------------------------
(***************************************************************************)
(* Proofs about module UdpServer, for any number of datagrams of any size. *)
(* OnceInOrder is inductive once the types are known: every step moves one *)
(* element from the head of a queue to the end of the one before it        *)
(* (MoveHead), or appends one at the far end (AppendRight).  That a        *)
(* datagram waits exactly while POLLOUT is asked for needs OutIsWanted: a  *)
(* POLLOUT that poll reported is handled after the message callback, in    *)
(* which the user may send more but nothing can empty the queue.           *)
(***************************************************************************)
EXTENDS UdpServer, SequenceTheorems, TLAPS

\* What the network and the user can give the server.
Datagrams == [id : Nat, len : Int]

\* A sequence of datagrams as recvfrom() returns them.
CutAll(s) == [i \in DOMAIN s |-> Cut(s[i])]

\* Types of the queues and the histories.
Types ==
  /\ kernel \in Seq(Datagrams) /\ inBuffer \in Seq(Datagrams)
  /\ arrived \in Seq(Datagrams) /\ handed \in Seq(Datagrams)
  /\ outBuffer \in Seq(Datagrams)
  /\ given \in Seq(Datagrams) /\ wire \in Seq(Datagrams)
  /\ writing \in BOOLEAN

\* A POLLOUT that was reported and not handled yet finds the channel writing:
\* only BufferToNet ends that, and while it runs nothing is left to handle.
OutIsWanted ==
  /\ "out" \in revents => writing
  /\ pc \in {"sendto", "writeAll"} => "out" \notin revents

IInv == Types /\ OutIsWanted /\ OnceInOrder /\ WritingIffWaiting

-----------------------------------------------------------------------------
(* Sequences of datagrams.                                                 *)

\* Two sequences one after the other.
LEMMA ConcatShape ==
  ASSUME NEW S, NEW s \in Seq(S), NEW t \in Seq(S)
  PROVE  /\ s \o t \in Seq(S)
         /\ Len(s \o t) = Len(s) + Len(t)
         /\ \A i \in 1..Len(s \o t) :
              (s \o t)[i] = IF i <= Len(s) THEN s[i] ELSE t[i - Len(s)]
  OBVIOUS

\* The first element moves from one queue to the end of the other.
LEMMA MoveHead ==
  ASSUME NEW S, NEW w \in Seq(S), NEW q \in Seq(S), q # <<>>
  PROVE  /\ Append(w, Head(q)) \o Tail(q) = w \o q
         /\ Append(w, Head(q)) \in Seq(S) /\ Tail(q) \in Seq(S)
         /\ Head(q) \in S
<1>1. /\ Head(q) \in S /\ Tail(q) \in Seq(S) /\ Append(w, Head(q)) \in Seq(S)
      /\ Len(w) \in Nat /\ Len(q) \in Nat \ {0}
      /\ Len(Tail(q)) = Len(q) - 1 /\ Head(q) = q[1]
      /\ \A i \in 1..(Len(q) - 1) : Tail(q)[i] = q[i + 1]
      /\ Len(Append(w, Head(q))) = Len(w) + 1
      /\ \A i \in 1..Len(w) : Append(w, Head(q))[i] = w[i]
      /\ Append(w, Head(q))[Len(w) + 1] = q[1]
  OBVIOUS
<1> DEFINE a == Append(w, Head(q))
           t == Tail(q)
           u == a \o t
           v == w \o q
<1> HIDE DEF a, t
<1>2. /\ a \in Seq(S) /\ t \in Seq(S)
      /\ Len(a) = Len(w) + 1 /\ Len(t) = Len(q) - 1
      /\ \A i \in 1..Len(w) : a[i] = w[i]
      /\ a[Len(w) + 1] = q[1]
      /\ \A i \in 1..(Len(q) - 1) : t[i] = q[i + 1]
  BY <1>1 DEF a, t
<1>3. /\ u \in Seq(S) /\ Len(u) = Len(a) + Len(t)
      /\ \A i \in 1..Len(u) : u[i] = IF i <= Len(a) THEN a[i] ELSE t[i - Len(a)]
  <2>1. a \in Seq(S) /\ t \in Seq(S)
    BY <1>2
  <2> QED BY <2>1, ConcatShape, Zenon
<1>4. /\ v \in Seq(S) /\ Len(v) = Len(w) + Len(q)
      /\ \A i \in 1..Len(v) : v[i] = IF i <= Len(w) THEN w[i] ELSE q[i - Len(w)]
  OBVIOUS
<1> HIDE DEF u, v
<1>5. Len(u) = Len(v)
  BY <1>1, <1>2, <1>3, <1>4
<1>6. ASSUME NEW i \in 1..Len(u) PROVE u[i] = v[i]
  <2>1. CASE i <= Len(w)
    BY <1>1, <1>2, <1>3, <1>4, <1>5, <2>1
  <2>2. CASE i = Len(w) + 1
    BY <1>1, <1>2, <1>3, <1>4, <1>5, <2>2
  <2>3. CASE i > Len(w) + 1
    <3>1. /\ i - Len(a) \in 1..(Len(q) - 1) /\ (i - Len(a)) + 1 = i - Len(w)
          /\ ~(i <= Len(a)) /\ ~(i <= Len(w))
      BY <1>1, <1>2, <1>3, <2>3
    <3>2. u[i] = t[i - Len(a)] /\ v[i] = q[i - Len(w)]
      BY <1>3, <1>4, <1>5, <3>1
    <3> QED BY <1>2, <3>1, <3>2
  <2>4. i \in Int /\ Len(w) \in Int
    BY <1>1, <1>6
  <2>5. i <= Len(w) \/ i = Len(w) + 1 \/ i > Len(w) + 1
    BY <2>4
  <2> QED BY <2>1, <2>2, <2>3, <2>5
<1>7. u = v
  BY <1>3, <1>4, <1>5, <1>6, SeqEqual
<1> QED BY <1>1, <1>7 DEF u, v, a, t

\* What is appended to the second part is appended to the whole.
LEMMA AppendRight ==
  ASSUME NEW S, NEW w \in Seq(S), NEW q \in Seq(S), NEW e \in S
  PROVE  w \o Append(q, e) = Append(w \o q, e)
  BY SMTT(60)

\* Cutting element by element.
LEMMA CutShape ==
  ASSUME NEW s \in Seq(Datagrams)
  PROVE  /\ CutAll(s) \in Seq(Datagrams)
         /\ \A d \in Datagrams :
              /\ Cut(d) \in Datagrams
              /\ CutAll(Append(s, d)) = Append(CutAll(s), Cut(d))
         /\ s # <<>> => /\ CutAll(s) # <<>> /\ Head(CutAll(s)) = Cut(Head(s))
                        /\ CutAll(Tail(s)) = Tail(CutAll(s))
<1>1. \A d \in Datagrams : Cut(d) \in Datagrams
  BY UdpAssumption DEF Cut, Datagrams
<1>2. \A r \in Seq(Datagrams) :
        /\ CutAll(r) \in Seq(Datagrams) /\ Len(CutAll(r)) = Len(r)
        /\ Len(r) \in Nat /\ DOMAIN r = 1..Len(r)
        /\ \A i \in 1..Len(r) : CutAll(r)[i] = Cut(r[i])
  BY <1>1 DEF CutAll
<1>3. ASSUME NEW d \in Datagrams
      PROVE  CutAll(Append(s, d)) = Append(CutAll(s), Cut(d))
  <2> DEFINE a == CutAll(Append(s, d))
             b == Append(CutAll(s), Cut(d))
  <2>1. /\ Append(s, d) \in Seq(Datagrams) /\ Len(Append(s, d)) = Len(s) + 1
        /\ \A i \in 1..Len(s) : Append(s, d)[i] = s[i]
        /\ Append(s, d)[Len(s) + 1] = d
    OBVIOUS
  <2>2. /\ a \in Seq(Datagrams) /\ Len(a) = Len(s) + 1
        /\ \A i \in 1..Len(s) : a[i] = Cut(s[i])
        /\ a[Len(s) + 1] = Cut(d)
    <3> DEFINE r == Append(s, d)
    <3>1. r \in Seq(Datagrams)
      BY <2>1
    <3> HIDE DEF r
    <3>2. /\ CutAll(r) \in Seq(Datagrams) /\ Len(CutAll(r)) = Len(r)
          /\ \A i \in 1..Len(r) : CutAll(r)[i] = Cut(r[i])
      BY <1>2, <3>1
    <3>3. /\ Len(s) \in Nat /\ Len(r) = Len(s) + 1
          /\ \A i \in 1..Len(s) : r[i] = s[i]
          /\ r[Len(s) + 1] = d
      BY <1>2, <2>1 DEF r
    <3>4. /\ Len(s) + 1 \in 1..Len(r)
          /\ \A i \in 1..Len(s) : i \in 1..Len(r)
      BY <3>3
    <3> QED BY <3>2, <3>3, <3>4 DEF r
  <2> DEFINE c == CutAll(s)
             e == Cut(d)
  <2>3. /\ c \in Seq(Datagrams) /\ e \in Datagrams /\ Len(c) = Len(s)
        /\ \A i \in 1..Len(s) : c[i] = Cut(s[i])
    BY <1>1, <1>2
  <2> HIDE DEF a, c, e
  <2>4. /\ Append(c, e) \in Seq(Datagrams) /\ Len(Append(c, e)) = Len(c) + 1
        /\ \A i \in 1..Len(c) : Append(c, e)[i] = c[i]
        /\ Append(c, e)[Len(c) + 1] = e
    BY <2>3
  <2>5. \A i \in 1..Len(a) : a[i] = Append(c, e)[i]
    BY <1>2, <2>2, <2>3, <2>4 DEF e
  <2>6. a = Append(c, e)
    BY <2>2, <2>3, <2>4, <2>5, SeqEqual
  <2> QED BY <2>6 DEF a, c, e
<1>4. ASSUME s # <<>>
      PROVE  /\ CutAll(s) # <<>> /\ Head(CutAll(s)) = Cut(Head(s))
             /\ CutAll(Tail(s)) = Tail(CutAll(s))
  <2> DEFINE c == CutAll(s)
  <2>1. /\ Tail(s) \in Seq(Datagrams) /\ Len(Tail(s)) = Len(s) - 1
        /\ \A i \in 1..(Len(s) - 1) : Tail(s)[i] = s[i + 1]
        /\ Head(s) = s[1] /\ Len(s) \in Nat \ {0}
    BY <1>4
  <2>2. /\ c \in Seq(Datagrams) /\ Len(c) = Len(s)
        /\ \A i \in 1..Len(s) : c[i] = Cut(s[i])
    BY <1>2
  <2>3. /\ CutAll(Tail(s)) \in Seq(Datagrams) /\ Len(CutAll(Tail(s))) = Len(s) - 1
        /\ \A i \in 1..(Len(s) - 1) : CutAll(Tail(s))[i] = Cut(s[i + 1])
    <3> DEFINE r == Tail(s)
    <3>1. r \in Seq(Datagrams)
      BY <2>1
    <3> HIDE DEF r
    <3>2. /\ CutAll(r) \in Seq(Datagrams) /\ Len(CutAll(r)) = Len(r)
          /\ \A i \in 1..Len(r) : CutAll(r)[i] = Cut(r[i])
      BY <1>2, <3>1
    <3>3. /\ Len(r) = Len(s) - 1
          /\ \A i \in 1..(Len(s) - 1) : r[i] = s[i + 1]
      BY <2>1 DEF r
    <3> QED BY <3>2, <3>3 DEF r
  <2> HIDE DEF c
  <2>4. /\ c # <<>> /\ Head(c) = c[1] /\ Tail(c) \in Seq(Datagrams)
        /\ Len(Tail(c)) = Len(s) - 1
        /\ \A i \in 1..(Len(s) - 1) : Tail(c)[i] = c[i + 1]
    BY <2>1, <2>2
  <2>5. \A i \in 1..(Len(s) - 1) : i + 1 \in 1..Len(s)
    BY <2>1
  <2>6. \A i \in 1..(Len(s) - 1) : CutAll(Tail(s))[i] = Tail(c)[i]
    BY <2>2, <2>3, <2>4, <2>5
  <2>7. CutAll(Tail(s)) = Tail(c)
    BY <2>3, <2>4, <2>6, SeqEqual
  <2>8. Head(c) = Cut(Head(s))
    BY <2>1, <2>2, <2>4
  <2> QED BY <2>4, <2>7, <2>8 DEF c
<1> QED BY <1>1, <1>2, <1>3, <1>4

\* OnceInOrder, with a name for the datagrams still to be cut.
LEMMA InOrder ==
  OnceInOrder <=> /\ wire \o outBuffer = given
                  /\ (handed \o inBuffer) \o CutAll(kernel) = CutAll(arrived)
  BY DEF OnceInOrder, CutAll

-----------------------------------------------------------------------------
(* The steps.                                                              *)

\* Steps that move no datagram.
LEMMA QuietSteps ==
  ASSUME IInv, \/ \E room \in BOOLEAN : Poll(room)
               \/ StartReading \/ Drained \/ MessageReturns
               \/ StartWriting \/ WriteAllReturns \/ SendToFails \/ FrontOfEmpty
               \/ SendToFull \/ UNCHANGED vars
  PROVE  IInv'
<1>1. UNCHANGED <<inVars, outVars>>
  BY DEF Poll, StartReading, Drained, MessageReturns, StartWriting,
         WriteAllReturns, SendToFails, FrontOfEmpty, SendToFull, vars
<1>2. Types' /\ OnceInOrder'
  BY <1>1 DEF IInv, Types, OnceInOrder, CutAll, inVars, outVars
<1>3. OutIsWanted'
  <2>1. CASE \E room \in BOOLEAN : Poll(room)
    BY <1>1, <2>1 DEF Poll, At, IInv, OutIsWanted, outVars
  <2>2. CASE StartReading \/ Drained \/ MessageReturns
    BY <1>1, <2>2 DEF StartReading, Dispatch, Drained, MessageReturns, IInv,
                      OutIsWanted, outVars
  <2>3. CASE StartWriting
    BY <1>1, <2>3 DEF StartWriting, Dispatch, IInv, OutIsWanted, outVars
  <2>4. CASE \/ WriteAllReturns \/ SendToFails \/ FrontOfEmpty
             \/ SendToFull \/ UNCHANGED vars
    BY <1>1, <2>4 DEF WriteAllReturns, SendToFails, FrontOfEmpty, SendToFull,
                      At, vars, IInv, OutIsWanted, outVars
  <2> QED BY <2>1, <2>2, <2>3, <2>4
<1>4. fault' # "assert at entry"
  <2>1. fault # "assert at entry" /\ (writing <=> outBuffer # <<>>)
    BY DEF IInv, WritingIffWaiting
  <2>2. CASE StartWriting
    <3>1. writing
      BY <2>2 DEF StartWriting, Dispatch, IInv, OutIsWanted
    <3> QED BY <2>1, <2>2, <3>1 DEF StartWriting
  <2> QED BY <2>1, <2>2 DEF Poll, StartReading, Drained, MessageReturns,
                  WriteAllReturns, SendToFails, FrontOfEmpty, SendToFull, vars
<1>5. WritingIffWaiting'
  BY <1>1, <1>4 DEF IInv, WritingIffWaiting, outVars
<1> QED BY <1>2, <1>3, <1>5 DEF IInv

\* NetToBuffer puts a datagram into the stream.
LEMMA ReceiveStep ==
  ASSUME IInv, Receive
  PROVE  IInv'
<1>1. /\ kernel # <<>> /\ inBuffer' = Append(inBuffer, Cut(Head(kernel)))
      /\ kernel' = Tail(kernel)
      /\ UNCHANGED <<arrived, handed, outVars, revents, pc, fault>>
  BY DEF Receive
<1> DEFINE S == Datagrams
           K == CutAll(kernel)
<1>2. /\ kernel \in Seq(S) /\ inBuffer \in Seq(S) /\ handed \in Seq(S)
      /\ (handed \o inBuffer) \o K = CutAll(arrived)
  BY InOrder DEF IInv, Types
<1>3. /\ K \in Seq(S) /\ K # <<>> /\ Head(K) = Cut(Head(kernel))
      /\ CutAll(Tail(kernel)) = Tail(K) /\ Tail(kernel) \in Seq(S)
  BY <1>1, <1>2, CutShape
<1> HIDE DEF S, K
<1>4. handed \o inBuffer \in Seq(S)
  BY <1>2, ConcatShape, Zenon
<1>5. /\ Append(handed \o inBuffer, Head(K)) \o Tail(K) = (handed \o inBuffer) \o K
      /\ Head(K) \in S
  <2> DEFINE w == handed \o inBuffer
  <2>1. w \in Seq(S) /\ K \in Seq(S) /\ K # <<>>
    BY <1>3, <1>4
  <2> HIDE DEF w
  <2>2. Append(w, Head(K)) \o Tail(K) = w \o K /\ Head(K) \in S
    BY <2>1, MoveHead
  <2> QED BY <2>2 DEF w
<1>6. handed \o Append(inBuffer, Head(K)) = Append(handed \o inBuffer, Head(K))
  BY <1>2, <1>5, AppendRight
<1>7. (handed' \o inBuffer') \o CutAll(kernel)' = CutAll(arrived)'
  <2>1. handed' \o inBuffer' = Append(handed \o inBuffer, Head(K))
    BY <1>1, <1>3, <1>6
  <2>2. CutAll(kernel)' = Tail(K) /\ CutAll(arrived)' = CutAll(arrived)
    BY <1>1, <1>3 DEF CutAll
  <2> QED BY <1>2, <1>5, <2>1, <2>2
<1>8. wire' \o outBuffer' = given'
  BY <1>1, InOrder DEF IInv, outVars
<1>9. OnceInOrder'
  BY <1>7, <1>8 DEF OnceInOrder, CutAll
<1>10. inBuffer' \in Seq(S)
  BY <1>1, <1>2, <1>3, <1>5
<1>11. Types'
  BY <1>1, <1>3, <1>10 DEF IInv, Types, outVars, S
<1>12. OutIsWanted' /\ WritingIffWaiting'
  BY <1>1 DEF IInv, OutIsWanted, WritingIffWaiting, outVars
<1> QED BY <1>9, <1>11, <1>12 DEF IInv

\* The user takes a datagram from the stream.
LEMMA ReciveDatagramStep ==
  ASSUME IInv, ReciveDatagram
  PROVE  IInv'
<1>1. /\ inBuffer # <<>> /\ handed' = Append(handed, Head(inBuffer))
      /\ inBuffer' = Tail(inBuffer)
      /\ UNCHANGED <<kernel, arrived, outVars, revents, count, pc, fault>>
  BY DEF ReciveDatagram
<1>2. inBuffer \in Seq(Datagrams) /\ handed \in Seq(Datagrams)
  BY DEF IInv, Types
<1>3. /\ handed' \o inBuffer' = handed \o inBuffer
      /\ handed' \in Seq(Datagrams) /\ inBuffer' \in Seq(Datagrams)
  BY <1>1, <1>2, MoveHead
<1>4. OnceInOrder'
  BY <1>1, <1>3 DEF IInv, OnceInOrder, CutAll, outVars
<1>5. Types'
  BY <1>1, <1>3 DEF IInv, Types, outVars
<1>6. OutIsWanted' /\ WritingIffWaiting'
  BY <1>1 DEF IInv, OutIsWanted, WritingIffWaiting, outVars
<1> QED BY <1>4, <1>5, <1>6 DEF IInv

\* The user sends a datagram, from whatever callback.
LEMMA SendStep ==
  ASSUME IInv, NEW size \in Sizes, Send(size)
  PROVE  IInv'
<1>0. PICK d : d = [id |-> Len(given) + 1, len |-> size]
  OBVIOUS
<1>1. /\ given' = Append(given, d) /\ outBuffer' = Append(outBuffer, d)
      /\ writing' = TRUE
      /\ UNCHANGED <<inVars, wire, revents, pc, fault>>
  BY <1>0 DEF Send
<1>2. /\ given \in Seq(Datagrams) /\ outBuffer \in Seq(Datagrams)
      /\ wire \in Seq(Datagrams) /\ d \in Datagrams
      /\ wire \o outBuffer = given
  <2>1. given \in Seq(Datagrams) /\ size \in Nat
    BY UdpAssumption DEF IInv, Types
  <2>2. d \in Datagrams
    BY <1>0, <2>1 DEF Datagrams
  <2> QED BY <2>1, <2>2, InOrder DEF IInv, Types
<1>3. /\ outBuffer' \in Seq(Datagrams) /\ given' \in Seq(Datagrams)
      /\ outBuffer' # <<>>
  BY <1>1, <1>2
<1>4. wire' \o outBuffer' = given'
  <2>1. wire \o Append(outBuffer, d) = Append(wire \o outBuffer, d)
    BY <1>2, AppendRight
  <2> QED BY <1>1, <1>2, <2>1
<1>5. OnceInOrder'
  BY <1>1, <1>4 DEF IInv, OnceInOrder, inVars
<1>6. Types'
  BY <1>1, <1>3 DEF IInv, Types, inVars
<1>7. OutIsWanted' /\ WritingIffWaiting'
  BY <1>1, <1>3 DEF IInv, OutIsWanted, WritingIffWaiting
<1> QED BY <1>5, <1>6, <1>7 DEF IInv

\* sendto() takes a datagram, and POLLOUT goes off with the last one.
LEMMA SendToStep ==
  ASSUME IInv, SendTo
  PROVE  IInv'
<1>1. /\ outBuffer # <<>> /\ pc = "sendto"
      /\ wire' = Append(wire, Head(outBuffer)) /\ outBuffer' = Tail(outBuffer)
      /\ outBuffer' = <<>> => writing' = FALSE /\ pc' = "writeAll"
      /\ outBuffer' # <<>> => writing' = writing /\ pc' = pc
      /\ UNCHANGED <<inVars, given, revents, fault>>
  BY DEF SendTo, AfterPop, At
<1>2. outBuffer \in Seq(Datagrams) /\ wire \in Seq(Datagrams)
  BY DEF IInv, Types
<1>3. /\ wire' \o outBuffer' = wire \o outBuffer
      /\ wire' \in Seq(Datagrams) /\ outBuffer' \in Seq(Datagrams)
  BY <1>1, <1>2, MoveHead
<1>4. OnceInOrder'
  BY <1>1, <1>3 DEF IInv, OnceInOrder, inVars
<1>5. WritingIffWaiting' /\ writing' \in BOOLEAN
  <2>1. /\ outBuffer # <<>> /\ (writing <=> outBuffer # <<>>)
        /\ fault # "assert at entry" /\ writing \in BOOLEAN
    BY <1>1 DEF IInv, WritingIffWaiting, Types
  <2>2. CASE outBuffer' = <<>>
    BY <1>1, <2>1, <2>2 DEF WritingIffWaiting
  <2>3. CASE outBuffer' # <<>>
    BY <1>1, <2>1, <2>3 DEF WritingIffWaiting
  <2> QED BY <2>2, <2>3
<1>6. Types'
  BY <1>1, <1>3, <1>5 DEF IInv, Types, inVars
<1>7. OutIsWanted'
  BY <1>1 DEF IInv, OutIsWanted
<1> QED BY <1>4, <1>5, <1>6, <1>7 DEF IInv

\* A datagram arrives.
LEMMA ArriveStep ==
  ASSUME IInv, NEW size \in Sizes, Arrive(size)
  PROVE  IInv'
<1>0. PICK d : d = [id |-> Len(arrived) + 1, len |-> size]
  OBVIOUS
<1>1. /\ arrived' = Append(arrived, d) /\ kernel' = Append(kernel, d)
      /\ UNCHANGED <<inBuffer, handed, outVars, revents, count, pc, fault>>
  BY <1>0 DEF Arrive
<1>2. /\ arrived \in Seq(Datagrams) /\ kernel \in Seq(Datagrams)
      /\ inBuffer \in Seq(Datagrams) /\ handed \in Seq(Datagrams)
      /\ d \in Datagrams
      /\ (handed \o inBuffer) \o CutAll(kernel) = CutAll(arrived)
  BY <1>0, UdpAssumption, InOrder DEF IInv, Types, Datagrams
<1>3. /\ CutAll(kernel) \in Seq(Datagrams) /\ Cut(d) \in Datagrams
      /\ CutAll(kernel') = Append(CutAll(kernel), Cut(d))
      /\ CutAll(arrived') = Append(CutAll(arrived), Cut(d))
  BY <1>1, <1>2, CutShape
<1>4. handed \o inBuffer \in Seq(Datagrams)
  BY <1>2, ConcatShape, Zenon
<1>5. (handed \o inBuffer) \o Append(CutAll(kernel), Cut(d))
        = Append((handed \o inBuffer) \o CutAll(kernel), Cut(d))
  BY <1>3, <1>4, AppendRight
<1>6. (handed' \o inBuffer') \o CutAll(kernel') = CutAll(arrived')
  BY <1>1, <1>2, <1>3, <1>5
<1>7. OnceInOrder'
  BY <1>1, <1>6, InOrder DEF IInv, OnceInOrder, CutAll, outVars
<1>8. arrived' \in Seq(Datagrams) /\ kernel' \in Seq(Datagrams)
  BY <1>1, <1>2
<1>9. Types'
  BY <1>1, <1>8 DEF IInv, Types, outVars
<1>10. OutIsWanted' /\ WritingIffWaiting'
  BY <1>1 DEF IInv, OutIsWanted, WritingIffWaiting, outVars
<1> QED BY <1>7, <1>9, <1>10 DEF IInv

-----------------------------------------------------------------------------
(* The theorems.                                                           *)

\* The invariant holds in every reachable state.
LEMMA Invariance == Spec => []IInv
<1>1. Init => IInv
  <2> SUFFICES ASSUME Init PROVE IInv
    OBVIOUS
  <2>1. /\ kernel = <<>> /\ inBuffer = <<>> /\ outBuffer = <<>>
        /\ arrived = <<>> /\ handed = <<>> /\ given = <<>> /\ wire = <<>>
        /\ writing = FALSE /\ revents = {} /\ fault = "none"
    BY DEF Init
  <2>2. Types /\ OutIsWanted /\ WritingIffWaiting
    <3>1. <<>> \in Seq(Datagrams)
      OBVIOUS
    <3>2. Types
      BY <2>1, <3>1 DEF Types
    <3>3. OutIsWanted /\ WritingIffWaiting
      BY <2>1 DEF OutIsWanted, WritingIffWaiting
    <3> QED BY <3>2, <3>3
  <2>3. OnceInOrder
    <3>1. <<>> \in Seq(Datagrams) /\ CutAll(<<>>) = <<>>
      BY DEF CutAll
    <3>2. <<>> \o <<>> = <<>>
      OBVIOUS
    <3> QED BY <2>1, <3>1, <3>2, InOrder
  <2> QED BY <2>2, <2>3 DEF IInv
<1>2. IInv /\ [Next]_vars => IInv'
  <2> SUFFICES ASSUME IInv, [Next]_vars PROVE IInv'
    OBVIOUS
  <2> QED BY QuietSteps, ReceiveStep, ReciveDatagramStep, SendStep, SendToStep,
             ArriveStep DEF Next, Handler
<1> QED BY <1>1, <1>2, PTL DEF Spec

\* No datagram is lost, doubled or reordered in either direction: UdpServer's
\* queues and the user's callbacks that call back into them.
THEOREM OnceInOrderHolds == Spec => []OnceInOrder
<1>1. IInv => OnceInOrder
  BY DEF IInv
<1> QED BY <1>1, Invariance, PTL

\* POLLOUT is asked for exactly while a datagram waits, and the asserts at the
\* head of BufferToNet hold whenever it is called.
THEOREM WritingIffWaitingHolds == Spec => []WritingIffWaiting
<1>1. IInv => WritingIffWaiting
  BY DEF IInv
<1> QED BY <1>1, Invariance, PTL
=============================================================================
