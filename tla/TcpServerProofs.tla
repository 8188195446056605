-------------------------- MODULE TcpServerProofs --------------------------
(***************************************************************************)
(* Proofs about module TcpServer, for any number of threads, connections   *)
(* and descriptors.  The invariant follows a connection through the        *)
(* functors that hand it from loop to loop.  Whatever is still to run on a *)
(* loop (what is left of its batch, then its queue: Rest) is there once,   *)
(* and what it will find is known (FunctorFinds): establish a connection   *)
(* not reported yet, remove one that was reported down and is still owned, *)
(* destory one no longer owned but still in the map of its loop.  So every *)
(* entry of a map belongs to a connection that is owned or has a destory   *)
(* pending, and either keeps it alive (Entries); a descriptor in the epoll *)
(* set is that of a connection that is up, owned and in the map (Watched), *)
(* and what poll reported stays watched until it is handled (Iteration).   *)
(* The exception to each of these is a connection that a late send has put *)
(* back (Lates), which its thread keeps alive until then (Users).  So      *)
(* where an assert can fail, there is one (AbortPlace).  accept() returns  *)
(* no descriptor that a live connection has, hence none that a map has,    *)
(* unless a late send has put it there (NextFdIsFree).                     *)
(***************************************************************************)
EXTENDS TcpServer, SequenceTheorems, TLAPS

OnlyUp == <<"up">>
UpDown == <<"up", "down">>

\* Types of everything that the other parts speak of.
Types ==
  /\ threads \in ThreadCounts
  /\ count \in Nat /\ (count = 0 \/ count < threads)
  /\ nextConnId \in 1..(MaxConns + 1)
  /\ connections \subseteq Created
  /\ fd \in [Created -> Fds]
  /\ loopOf \in [Created -> Loops]
  /\ status \in [Created -> {"Connected", "Disconnecting", "Disconnected"}]
  /\ held \subseteq Created
  /\ sender \in [Conns -> {"idle", "tested", "posted"}]
  /\ shutting \subseteq Created
  /\ fdMap \in [Loops -> [Fds -> Created \union {None}]]
  /\ epoll \in [Loops -> SUBSET Created]
  /\ active \in [Loops -> SUBSET (Created \union {Listen})]
  /\ handling \in [Loops -> Created \union {None}]
  /\ pc \in [Loops -> {"poll", "events", "run"}]
  /\ peerClosed \subseteq Created
  /\ callbacks \in [Conns -> Seq({"up", "down"})]
  /\ late \subseteq Created
  /\ fault \subseteq [loop : Loops, fd : Fds]
  /\ queue \in [Loops -> Seq(Functors)]
  /\ batch \in [Loops -> Seq(Functors)]
  /\ pos \in [Loops -> Nat]

\* What a loop holds outside the part of its iteration that needs it.
Iteration ==
  \A l \in Loops :
    /\ pos[l] \in 1..(Len(batch[l]) + 1)
    /\ pc[l] # "run" => batch[l] = <<>> /\ pos[l] = 1
    /\ pc[l] # "events" => active[l] = {} /\ handling[l] = None
    /\ Listen \in active[l] => l = 0 /\ nextConnId <= MaxConns
    /\ active[l] \ {Listen} \subseteq epoll[l]

\* The functors that loop l has still to run, in that order.
Rest(l) == SubSeq(batch[l], pos[l], Len(batch[l])) \o queue[l]

Elements(s) == {s[i] : i \in DOMAIN s}

Pending(l) == Elements(Rest(l))

NoRepeat(s) == \A i, j \in DOMAIN s : s[i] = s[j] => i = j

\* What a functor of loop l will find when it runs.
FunctorFinds(l, f) ==
  LET c == f.conn IN
    /\ f.op = "establish" => /\ loopOf[c] = l /\ c \in connections
                             /\ callbacks[c] = <<>>
    /\ f.op = "remove"    => /\ l = 0 /\ loopOf[c] # 0
                             /\ \/ /\ c \in connections
                                   /\ callbacks[c] = UpDown
                                   /\ fdMap[loopOf[c]][fd[c]] = c
                                \/ /\ c \in late
                                   /\ c \notin epoll[loopOf[c]]
    /\ f.op = "destory"   => /\ loopOf[c] = l /\ c \notin connections
                             /\ c \notin late
                             /\ callbacks[c] = UpDown
                             /\ fdMap[l][fd[c]] = c
    /\ f.op = "send"      => /\ loopOf[c] = l /\ sender[c] = "posted"

\* The functors find that, and each was queued once.
FunctorsFind ==
  \A l \in Loops :
    /\ NoRepeat(Rest(l))
    /\ \A f \in Pending(l) : FunctorFinds(l, f)

\* A map entry is that of a connection that the server owns or that
\* connectDestory is still to take out, or that was put back after that.
EntryIsOf(l, f, c) ==
  /\ fd[c] = f /\ loopOf[c] = l
  /\ \/ /\ callbacks[c] # <<>>
        /\ c \in connections \/ [op |-> "destory", conn |-> c] \in Pending(l)
     \/ c \in late

Entries ==
  \A l \in Loops, f \in Fds :
    fdMap[l][f] # None => EntryIsOf(l, f, fdMap[l][f])

\* What the kernel watches is in the map of its loop, and up and owned or put
\* back.
IsWatched(l, c) ==
  /\ loopOf[c] = l
  /\ fdMap[l][fd[c]] = c
  /\ \/ /\ c \in connections
        /\ status[c] # "Disconnected"
        /\ callbacks[c] = OnlyUp
     \/ c \in late

Watched == \A l \in Loops : \A c \in epoll[l] : IsWatched(l, c)

\* Descriptors of live connections differ; a connection that was not reported
\* down is owned by the server, and one that it owns and has reported is in
\* the map of its loop.
Lives ==
  /\ \A c, d \in Created : Alive(c) /\ Alive(d) /\ fd[c] = fd[d] => c = d
  /\ \A c \in Created \ late :
       /\ callbacks[c] \in {<<>>, OnlyUp, UpDown}
       /\ callbacks[c] # UpDown => c \in connections
       /\ status[c] = "Connected" => callbacks[c] = OnlyUp
  /\ \A c \in connections :
       callbacks[c] # <<>> => fdMap[loopOf[c]][fd[c]] = c
  /\ \A c \in Conns \ Created : callbacks[c] = <<>>

\* A connection that was put back is no longer owned, and stays in the map.
Lates ==
  \A c \in late : /\ c \notin connections
                  /\ status[c] # "Connected"
                  /\ fdMap[loopOf[c]][fd[c]] = c

\* A thread inside send() or shutdown(), or waiting for its functor, keeps its
\* pointer; the connection has been reported up.
Users ==
  \A c \in Conns : Busy(c) => /\ c \in held
                              /\ c \in late \/ callbacks[c] # <<>>

IInv == /\ Types /\ Iteration /\ FunctorsFind /\ Entries /\ Watched /\ Lives
        /\ Lates /\ Users

\* Of a step: it makes no connection alive again.
NoneRevived == \A c \in Created : Alive(c)' => Alive(c)

-----------------------------------------------------------------------------
(* Sequences of functors.                                                  *)

\* The first element is taken out of a sequence without repetition.
LEMMA TailElements ==
  ASSUME NEW S, NEW s \in Seq(S), s # <<>>, NoRepeat(s)
  PROVE  /\ NoRepeat(Tail(s))
         /\ Head(s) \in Elements(s)
         /\ Elements(Tail(s)) = Elements(s) \ {Head(s)}
<1>1. /\ Len(s) \in Nat \ {0} /\ DOMAIN s = 1..Len(s)
      /\ DOMAIN Tail(s) = 1..(Len(s) - 1)
      /\ \A i \in 1..(Len(s) - 1) : Tail(s)[i] = s[i + 1]
      /\ 1 \in DOMAIN s /\ Head(s) = s[1]
  OBVIOUS
<1>2. NoRepeat(Tail(s))
  BY <1>1 DEF NoRepeat
<1>3. Head(s) \in Elements(s)
  BY <1>1 DEF Elements
<1>4. ASSUME NEW e \in Elements(Tail(s)) PROVE e \in Elements(s) \ {Head(s)}
  <2>1. PICK i \in 1..(Len(s) - 1) : e = s[i + 1]
    BY <1>1, <1>4 DEF Elements
  <2>2. i + 1 \in DOMAIN s /\ i + 1 # 1
    BY <1>1, <2>1
  <2> QED BY <1>1, <2>1, <2>2 DEF Elements, NoRepeat
<1>5. ASSUME NEW e \in Elements(s), e # Head(s) PROVE e \in Elements(Tail(s))
  <2>1. PICK i \in DOMAIN s : e = s[i]
    BY <1>5 DEF Elements
  <2>2. i - 1 \in 1..(Len(s) - 1) /\ (i - 1) + 1 = i
    BY <1>1, <1>5, <2>1
  <2>3. Tail(s)[i - 1] = e
    BY <1>1, <2>1, <2>2
  <2> QED BY <1>1, <2>2, <2>3 DEF Elements
<1> QED BY <1>2, <1>3, <1>4, <1>5

\* A new element is appended.
LEMMA AppendElements ==
  ASSUME NEW S, NEW s \in Seq(S), NEW e
  PROVE  /\ Elements(Append(s, e)) = Elements(s) \union {e}
         /\ NoRepeat(s) /\ e \notin Elements(s) => NoRepeat(Append(s, e))
<1>1. /\ Len(s) \in Nat /\ DOMAIN s = 1..Len(s)
      /\ DOMAIN Append(s, e) = 1..(Len(s) + 1)
      /\ \A i \in 1..Len(s) : Append(s, e)[i] = s[i]
      /\ Append(s, e)[Len(s) + 1] = e
  OBVIOUS
<1>2. ASSUME NEW x \in Elements(Append(s, e)) PROVE x \in Elements(s) \union {e}
  BY <1>1, <1>2 DEF Elements
<1>3. ASSUME NEW x \in Elements(s) PROVE x \in Elements(Append(s, e))
  <2>1. PICK i \in 1..Len(s) : x = s[i]
    BY <1>1, <1>3 DEF Elements
  <2>2. i \in DOMAIN Append(s, e) /\ Append(s, e)[i] = x
    BY <1>1, <2>1
  <2> QED BY <2>2 DEF Elements
<1>4. e \in Elements(Append(s, e))
  <2>1. Len(s) + 1 \in DOMAIN Append(s, e)
    BY <1>1
  <2> QED BY <1>1, <2>1 DEF Elements
<1>5. ASSUME NoRepeat(s), e \notin Elements(s) PROVE NoRepeat(Append(s, e))
  BY <1>1, <1>5 DEF NoRepeat, Elements
<1> QED BY <1>2, <1>3, <1>4, <1>5

\* Two sequences one after the other.
LEMMA ConcatShape ==
  ASSUME NEW S, NEW s \in Seq(S), NEW t \in Seq(S)
  PROVE  /\ s \o t \in Seq(S)
         /\ Len(s \o t) = Len(s) + Len(t)
         /\ \A i \in 1..Len(s \o t) :
              (s \o t)[i] = IF i <= Len(s) THEN s[i] ELSE t[i - Len(s)]
  OBVIOUS

\* A sequence without its first element.
LEMMA TailShape ==
  ASSUME NEW S, NEW s \in Seq(S), s # <<>>
  PROVE  /\ Tail(s) \in Seq(S)
         /\ Len(Tail(s)) = Len(s) - 1
         /\ Head(s) = s[1]
         /\ \A i \in 1..Len(Tail(s)) : Tail(s)[i] = s[i + 1]
  OBVIOUS

\* What is left of a batch, followed by the queue, when the next functor of the
\* batch is called, and when something is queued.
LEMMA RestOfBatch ==
  ASSUME NEW S, NEW b \in Seq(S), NEW q \in Seq(S), NEW p \in 1..Len(b)
  PROVE  LET r == SubSeq(b, p, Len(b)) \o q
         IN  /\ r \in Seq(S) /\ r # <<>> /\ Head(r) = b[p]
             /\ Tail(r) = SubSeq(b, p + 1, Len(b)) \o q
  <1> DEFINE a == SubSeq(b, p, Len(b))
             t == SubSeq(b, p + 1, Len(b))
             r == a \o q
  <1>1. /\ Len(b) \in Nat /\ Len(q) \in Nat
        /\ a \in Seq(S) /\ Len(a) = Len(b) - p + 1
        /\ \A i \in 1..Len(a) : a[i] = b[p + i - 1]
        /\ t \in Seq(S) /\ Len(t) = Len(b) - p
        /\ \A i \in 1..Len(t) : t[i] = b[p + i]
    OBVIOUS
  <1> HIDE DEF a, t
  <1>2. a \in Seq(S) /\ t \in Seq(S)
    BY <1>1
  <1>3. r \in Seq(S) /\ t \o q \in Seq(S)
    BY <1>2, ConcatShape, Zenon
  <1>4. Len(r) = Len(a) + Len(q)
    BY <1>2, ConcatShape, Zenon
  <1>5. Len(t \o q) = Len(t) + Len(q)
    BY <1>2, ConcatShape, Zenon
  <1>6. \A i \in 1..Len(r) : r[i] = IF i <= Len(a) THEN a[i] ELSE q[i - Len(a)]
    BY <1>2, ConcatShape, Zenon
  <1>7. \A i \in 1..Len(t \o q) :
          (t \o q)[i] = IF i <= Len(t) THEN t[i] ELSE q[i - Len(t)]
    BY <1>2, ConcatShape, Zenon
  <1> DEFINE u == t \o q
  <1> HIDE DEF r, u
  <1>8. r # <<>>
    BY <1>1, <1>3, <1>4
  <1>9. /\ Tail(r) \in Seq(S) /\ Len(Tail(r)) = Len(r) - 1 /\ Head(r) = r[1]
        /\ \A i \in 1..Len(Tail(r)) : Tail(r)[i] = r[i + 1]
    BY <1>3, <1>8, TailShape, Zenon
  <1>10. Len(Tail(r)) = Len(u) /\ u \in Seq(S)
    BY <1>1, <1>3, <1>4, <1>5, <1>9 DEF u
  <1>11. \A i \in 1..Len(u) : Tail(r)[i] = u[i]
    <2> TAKE i \in 1..Len(u)
    <2>1. Tail(r)[i] = r[i + 1] /\ i + 1 \in 1..Len(r)
      BY <1>1, <1>4, <1>5, <1>9, <1>10 DEF u
    <2>2. u[i] = IF i <= Len(t) THEN t[i] ELSE q[i - Len(t)]
      BY <1>7 DEF u
    <2>3. r[i + 1] = IF i + 1 <= Len(a) THEN a[i + 1] ELSE q[i + 1 - Len(a)]
      BY <1>6, <2>1
    <2>4. i + 1 - Len(a) = i - Len(t) /\ (i + 1 <= Len(a) <=> i <= Len(t))
      BY <1>1
    <2>5. ASSUME i <= Len(t) PROVE a[i + 1] = t[i]
      <3>1. i \in 1..Len(t) /\ i + 1 \in 1..Len(a) /\ p + (i + 1) - 1 = p + i
        BY <1>1, <2>5
      <3>2. a[i + 1] = b[p + (i + 1) - 1] /\ t[i] = b[p + i]
        BY <1>1, <3>1
      <3> QED BY <3>1, <3>2
    <2> QED BY <2>1, <2>2, <2>3, <2>4, <2>5
  <1>12. Tail(r) = u
    BY <1>9, <1>10, <1>11, SeqEqual, Zenon
  <1>13. Head(r) = b[p]
    <2>1. 1 \in 1..Len(a) /\ 1 \in 1..Len(r) /\ p + 1 - 1 = p /\ 1 <= Len(a)
      BY <1>1, <1>4
    <2>2. a[1] = b[p + 1 - 1]
      BY <1>1, <2>1
    <2> QED BY <1>6, <1>9, <2>1, <2>2
  <1> QED BY <1>3, <1>8, <1>12, <1>13 DEF r, a, t, u

-----------------------------------------------------------------------------
(* The functors of a loop.                                                 *)

\* What a loop has still to run is a sequence of functors.
LEMMA RestType ==
  ASSUME Types, Iteration, NEW l \in Loops
  PROVE  /\ Rest(l) \in Seq(Functors)
         /\ queue[l] \in Seq(Functors) /\ batch[l] \in Seq(Functors)
         /\ \A f \in Pending(l) : f \in Functors
<1>1. /\ queue[l] \in Seq(Functors) /\ batch[l] \in Seq(Functors)
      /\ pos[l] \in Nat
      /\ pos[l] \in 1..(Len(batch[l]) + 1)
  BY DEF Types, Iteration
<1>2. SubSeq(batch[l], pos[l], Len(batch[l])) \in Seq(Functors)
  <2> DEFINE b == batch[l]
             p == pos[l]
  <2>1. b \in Seq(Functors) /\ p \in Nat /\ p \in 1..(Len(b) + 1)
    BY <1>1
  <2> HIDE DEF b, p
  <2>2. SubSeq(b, p, Len(b)) \in Seq(Functors)
    BY <2>1
  <2> QED BY <2>2 DEF b, p
<1>3. Rest(l) \in Seq(Functors)
  BY <1>1, <1>2, ConcatShape, Zenon DEF Rest
<1>4. \A f \in Pending(l) : f \in Functors
  BY <1>3 DEF Pending, Elements
<1> QED BY <1>1, <1>3, <1>4

\* A step that leaves the loop's queue and batch alone leaves it what it has to
\* run.
LEMMA RestSame ==
  ASSUME Types, NEW l \in Loops,
         queue'[l] = queue[l], batch'[l] = batch[l], pos'[l] = pos[l]
  PROVE  Rest(l)' = Rest(l) /\ Pending(l)' = Pending(l)
  BY DEF Rest, Pending

\* Queueing a functor that is not there yet.
LEMMA RestPost ==
  ASSUME Types, Iteration, NEW l \in Loops, NEW f, Post(l, f),
         batch'[l] = batch[l], pos'[l] = pos[l]
  PROVE  /\ Pending(l)' = Pending(l) \union {f}
         /\ NoRepeat(Rest(l)) /\ f \notin Pending(l) => NoRepeat(Rest(l))'
         /\ \A k \in Loops : k # l => queue'[k] = queue[k]
<1> DEFINE S == Functors \union {f}
           b == batch[l]
           p == pos[l]
           q == queue[l]
<1>1. b \in Seq(Functors) /\ q \in Seq(Functors)
  BY RestType
<1>2. b \in Seq(S) /\ q \in Seq(S) /\ f \in S
  BY <1>1, SeqMonotonic
<1>3. p \in Nat /\ p \in 1..(Len(b) + 1)
  BY DEF Types, Iteration
<1> DEFINE r == SubSeq(b, p, Len(b)) \o q
<1>4. Rest(l) = r
  BY DEF Rest
<1>5. queue'[l] = Append(q, f) /\ \A k \in Loops : k # l => queue'[k] = queue[k]
  BY DEF Post, Types
<1>6. Rest(l)' = SubSeq(b, p, Len(b)) \o Append(q, f)
  BY <1>5 DEF Rest
<1> HIDE DEF S, b, p, q
<1>7. r \in Seq(S) /\ SubSeq(b, p, Len(b)) \o Append(q, f) = Append(r, f)
  <2> DEFINE a == SubSeq(b, p, Len(b))
  <2>1. a \in Seq(S)
    BY <1>2, <1>3
  <2> HIDE DEF a
  <2>2. a \o q \in Seq(S)
    BY <1>2, <2>1, ConcatShape
  <2>3. a \o Append(q, f) = Append(a \o q, f)
    BY <1>2, <2>1, SMTT(60)
  <2> QED BY <2>2, <2>3 DEF a
<1> HIDE DEF r
<1>8. /\ Elements(Append(r, f)) = Elements(r) \union {f}
      /\ NoRepeat(r) /\ f \notin Elements(r) => NoRepeat(Append(r, f))
  BY <1>7, AppendElements
<1> QED BY <1>4, <1>5, <1>6, <1>7, <1>8 DEF Pending

\* Calling the next functor of the batch: it was pending and no longer is.
LEMMA RestNext ==
  ASSUME Types, Iteration, NEW l \in Loops, NEW op, Current(l, op),
         NoRepeat(Rest(l)), UNCHANGED batch
  PROVE  /\ batch[l][pos[l]] \in Pending(l) /\ batch[l][pos[l]].op = op
         /\ batch[l][pos[l]] \in Functors
         /\ queue'[l] = queue[l] =>
              /\ Pending(l)' = Pending(l) \ {batch[l][pos[l]]}
              /\ NoRepeat(Rest(l))'
         /\ \A k \in Loops : k # l => pos'[k] = pos[k]
<1> DEFINE b == batch[l]
           p == pos[l]
           q == queue[l]
           r == SubSeq(b, p, Len(b)) \o q
           f == b[p]
<1>1. b \in Seq(Functors) /\ q \in Seq(Functors)
  BY RestType
<1>2. p \in Nat /\ p \in 1..(Len(b) + 1)
  BY DEF Types, Iteration
<1>3. /\ p <= Len(b) /\ f.op = op
      /\ pos'[l] = p + 1 /\ \A k \in Loops : k # l => pos'[k] = pos[k]
  BY DEF Current, IsNext, Types
<1>4. Rest(l) = r
  BY DEF Rest
<1>5. queue'[l] = q => Rest(l)' = SubSeq(b, p + 1, Len(b)) \o q
  BY <1>3 DEF Rest
<1> HIDE DEF b, p, q
<1>6. p \in 1..Len(b) /\ p \in DOMAIN b
  BY <1>1, <1>2, <1>3
<1>7. /\ r \in Seq(Functors) /\ r # <<>> /\ Head(r) = b[p]
      /\ Tail(r) = SubSeq(b, p + 1, Len(b)) \o q
  BY <1>1, <1>6, RestOfBatch
<1> HIDE DEF r
<1>8. /\ NoRepeat(Tail(r)) /\ Head(r) \in Elements(r)
      /\ Elements(Tail(r)) = Elements(r) \ {Head(r)}
  BY <1>4, <1>7, TailElements
<1>9. b[p] \in Functors
  BY <1>1, <1>6
<1> QED BY <1>3, <1>4, <1>5, <1>7, <1>8, <1>9 DEF Pending, b, p, q

\* What is left when the batch is empty or run to its end.
LEMMA RestIsQueue ==
  ASSUME NEW S, NEW b \in Seq(S), NEW q \in Seq(S)
  PROVE  /\ SubSeq(b, Len(b) + 1, Len(b)) \o q = q
         /\ SubSeq(q, 1, Len(q)) \o <<>> = q
         /\ SubSeq(<<>>, 1, Len(<<>>)) \o q = q
<1>1. SubSeq(b, Len(b) + 1, Len(b)) = <<>> /\ SubSeq(<<>>, 1, Len(<<>>)) = <<>>
  OBVIOUS
<1>2. SubSeq(q, 1, Len(q)) = q
  OBVIOUS
<1>3. <<>> \o q = q /\ q \o <<>> = q
  OBVIOUS
<1> QED BY <1>1, <1>2, <1>3

\* A functor that is still to run is in the queue or in the batch, so that the
\* pointer in it keeps its connection alive, unless it is one of send().
LEMMA PendingRefers ==
  ASSUME Types, Iteration, NEW l \in Loops
  PROVE  /\ \A f \in Pending(l) :
              f.op # "send" =>
                Refers(queue[l], f.conn) \/ Refers(batch[l], f.conn)
         /\ \A i \in DOMAIN queue[l] : queue[l][i] \in Pending(l)
<1> DEFINE b == batch[l]
           p == pos[l]
           q == queue[l]
           a == SubSeq(b, p, Len(b))
<1>1. b \in Seq(Functors) /\ q \in Seq(Functors)
  BY RestType
<1>2. p \in Nat /\ p \in 1..(Len(b) + 1)
  BY DEF Types, Iteration
<1>3. Rest(l) = a \o q
  BY DEF Rest
<1> HIDE DEF b, p, q
<1>4. /\ a \in Seq(Functors) /\ DOMAIN a = 1..Len(a) /\ Len(a) \in Nat
      /\ \A i \in 1..Len(a) : a[i] = b[p + i - 1] /\ p + i - 1 \in DOMAIN b
  BY <1>1, <1>2
<1> HIDE DEF a
<1>5. /\ a \o q \in Seq(Functors) /\ DOMAIN (a \o q) = 1..Len(a \o q)
      /\ DOMAIN q = 1..Len(q) /\ Len(q) \in Nat
  BY <1>1, <1>4, ConcatShape
<1>6. Len(a \o q) = Len(a) + Len(q)
  BY <1>1, <1>4, ConcatShape
<1>7. \A i \in 1..Len(a \o q) :
         (a \o q)[i] = IF i <= Len(a) THEN a[i] ELSE q[i - Len(a)]
  BY <1>1, <1>4, ConcatShape, Zenon
<1>8. ASSUME NEW f \in Pending(l), f.op # "send"
      PROVE  Refers(q, f.conn) \/ Refers(b, f.conn)
  <2>1. PICK i \in 1..Len(a \o q) : f = (a \o q)[i]
    BY <1>3, <1>5, <1>8 DEF Pending, Elements
  <2>2. CASE i <= Len(a)
    <3>1. f = a[i] /\ i \in 1..Len(a)
      BY <1>4, <1>7, <2>1, <2>2
    <3> QED BY <1>4, <1>8, <3>1 DEF Refers
  <2>3. CASE ~(i <= Len(a))
    <3>1. f = q[i - Len(a)]
      BY <1>7, <2>1, <2>3
    <3>2. i - Len(a) \in DOMAIN q
      BY <1>4, <1>5, <1>6, <2>1, <2>3
    <3> QED BY <1>8, <3>1, <3>2 DEF Refers
  <2> QED BY <2>2, <2>3
<1>9. ASSUME NEW i \in DOMAIN q PROVE q[i] \in Pending(l)
  <2>1. /\ Len(a) + i \in 1..Len(a \o q)
        /\ ~(Len(a) + i <= Len(a)) /\ (Len(a) + i) - Len(a) = i
    BY <1>4, <1>5, <1>6, <1>9
  <2>2. (a \o q)[Len(a) + i] = q[i]
    BY <1>7, <2>1
  <2> QED BY <1>3, <1>5, <2>1, <2>2 DEF Pending, Elements
<1> QED BY <1>8, <1>9 DEF b, q

\* What conn_cb_ has been called with, as a sequence.
LEMMA CallbackValues ==
  /\ OnlyUp # <<>> /\ UpDown # <<>> /\ OnlyUp # UpDown
  /\ Append(<<>>, "up") = OnlyUp /\ Append(OnlyUp, "down") = UpDown
<1>1. Len(<<>>) = 0 /\ Len(OnlyUp) = 1 /\ Len(UpDown) = 2
  BY DEF OnlyUp, UpDown
<1>2. OnlyUp # <<>> /\ UpDown # <<>> /\ OnlyUp # UpDown
  BY <1>1
<1>3. Append(<<>>, "up") = OnlyUp
  BY DEF OnlyUp
<1>4. Append(OnlyUp, "down") = UpDown
  <2> DEFINE S == {"up", "down"}
             a == Append(OnlyUp, "down")
  <2>1. /\ OnlyUp \in Seq(S) /\ Len(OnlyUp) = 1 /\ OnlyUp[1] = "up"
        /\ UpDown \in Seq(S) /\ Len(UpDown) = 2
        /\ UpDown[1] = "up" /\ UpDown[2] = "down"
    BY DEF OnlyUp, UpDown
  <2>2. a \in Seq(S) /\ Len(a) = 2 /\ a[1] = "up" /\ a[2] = "down"
    <3> DEFINE o == OnlyUp
               e == "down"
    <3>1. o \in Seq(S) /\ e \in S
      BY <2>1
    <3> HIDE DEF o, e, S
    <3>2. /\ Append(o, e) \in Seq(S) /\ Len(Append(o, e)) = Len(o) + 1
          /\ \A i \in 1..Len(o) : Append(o, e)[i] = o[i]
          /\ Append(o, e)[Len(o) + 1] = e
      BY <3>1
    <3>3. Len(o) = 1 /\ o[1] = "up" /\ e = "down"
      BY <2>1 DEF o, e
    <3>4. Append(o, e)[1] = o[1] /\ Append(o, e)[2] = e /\ Len(Append(o, e)) = 2
      BY <3>2, <3>3
    <3> QED BY <3>2, <3>3, <3>4 DEF o, e
  <2> HIDE DEF S, a
  <2>3. \A i \in 1..2 : a[i] = UpDown[i]
    BY <2>1, <2>2
  <2> QED BY <2>1, <2>2, <2>3, SeqEqual DEF a
<1> QED BY <1>2, <1>3, <1>4

\* The connections accepted so far are among those that ever are.
LEMMA CreatedIds ==
  ASSUME Types
  PROVE  Created \subseteq Conns /\ None \notin Created /\ 0 \in Loops
<1>1. MaxConns \in Nat /\ nextConnId \in 1..(MaxConns + 1) /\ threads \in Nat
  BY ServerAssumption DEF Types
<1> QED BY <1>1 DEF Created, Conns, None, Loops

\* Who keeps what alive.
LEMMA WhoIsAlive ==
  ASSUME IInv
  PROVE  /\ \A c \in connections \union held : Alive(c)
         /\ \A l \in Loops : \A f \in Pending(l) : Alive(f.conn)
         /\ \A l \in Loops, f \in Fds :
              fdMap[l][f] # None => Alive(fdMap[l][f]) \/ fdMap[l][f] \in late
         /\ \A l \in Loops : \A c \in active[l] \ {Listen} :
              c \in Created /\ c \in epoll[l] /\ (Alive(c) \/ c \in late)
<1>1. \A c \in connections \union held : Alive(c)
  BY DEF Alive
<1>2. ASSUME NEW l \in Loops, NEW f \in Pending(l) PROVE Alive(f.conn)
  <2>1. CASE f.op = "send"
    <3>1. sender[f.conn] = "posted" /\ f.conn \in Conns
      BY <2>1, RestType, CreatedIds DEF IInv, FunctorsFind, FunctorFinds, Functors
    <3>2. f.conn \in held
      BY <3>1 DEF IInv, Users, Busy
    <3> QED BY <1>1, <3>2
  <2>2. CASE f.op # "send"
    BY <2>2, PendingRefers DEF IInv, Alive
  <2> QED BY <2>1, <2>2
<1>3. ASSUME NEW l \in Loops, NEW f \in Fds, fdMap[l][f] # None
      PROVE  Alive(fdMap[l][f]) \/ fdMap[l][f] \in late
  <2>1. \/ fdMap[l][f] \in connections
        \/ [op |-> "destory", conn |-> fdMap[l][f]] \in Pending(l)
        \/ fdMap[l][f] \in late
    BY <1>3 DEF IInv, Entries, EntryIsOf
  <2> QED BY <1>1, <1>2, <2>1
<1>4. ASSUME NEW l \in Loops, NEW c \in active[l] \ {Listen}
      PROVE  c \in Created /\ c \in epoll[l] /\ (Alive(c) \/ c \in late)
  <2>1. c \in epoll[l] /\ c \in Created
    BY <1>4 DEF IInv, Iteration, Types
  <2>2. c \in connections \/ c \in late
    BY <1>4, <2>1 DEF IInv, Watched, IsWatched
  <2> QED BY <1>1, <2>1, <2>2
<1> QED BY <1>1, <1>2, <1>3, <1>4

\* Steps that accept, report and queue nothing and touch no map; a channel may
\* leave the epoll set, and status_ become Disconnecting.
LEMMA QuietFrame ==
  ASSUME IInv,
         UNCHANGED <<threads, nextConnId, connections, connVars, fdMap,
                     callbacks, late>>,
         \A l \in Loops : epoll'[l] \subseteq epoll[l],
         \A l \in Loops : Rest(l)' = Rest(l),
         \A c \in Created : status'[c] \in {status[c], "Disconnecting"},
         \A c \in Created : sender[c] = "posted" => sender'[c] = "posted",
         \A c \in Created : Alive(c)' => Alive(c)
  PROVE  FunctorsFind' /\ Entries' /\ Watched' /\ Lives' /\ Lates'
<1>1. Loops' = Loops /\ Created' = Created
  BY DEF Loops, Created
<1>2. \A l \in Loops : Pending(l)' = Pending(l)
  BY DEF Pending
<1>3. FunctorsFind'
  <2> SUFFICES ASSUME NEW l \in Loops, NEW f \in Pending(l)
               PROVE  FunctorFinds(l, f)'
    BY <1>1, <1>2 DEF IInv, FunctorsFind
  <2>1. FunctorFinds(l, f) /\ f.conn \in Created /\ loopOf[f.conn] \in Loops
    BY RestType DEF IInv, FunctorsFind, Functors, Types
  <2> QED BY <2>1 DEF FunctorFinds, connVars
<1>4. Entries'
  BY <1>1, <1>2 DEF IInv, Entries, EntryIsOf, connVars
<1>5. Watched'
  <2> SUFFICES ASSUME NEW l \in Loops, NEW c \in epoll'[l]
               PROVE  IsWatched(l, c)'
    BY <1>1 DEF Watched
  <2>1. c \in epoll[l] /\ c \in Created /\ IsWatched(l, c)
    BY DEF IInv, Watched, Types
  <2> QED BY <2>1 DEF IsWatched, connVars
<1>6. Lives'
  BY <1>1 DEF IInv, Lives, connVars
<1>7. Lates'
  BY <1>1 DEF IInv, Lates, Types, connVars
<1> QED BY <1>3, <1>4, <1>5, <1>6, <1>7

\* A step that leaves user code where it was.
LEMMA UsersSame ==
  ASSUME IInv, UNCHANGED <<held, userVars, callbacks, late>>
  PROVE  Users'
  BY DEF IInv, Users, Busy, userVars

-----------------------------------------------------------------------------
(* Steps that touch neither a connection nor a map.                        *)

USE DEF poolVars, connVars, pollVars, loopVars, userVars

\* poll returns: what it reports is in the epoll set.
LEMMA PollStep ==
  ASSUME IInv, NEW l \in Loops, Poll(l)
  PROVE  IInv' /\ NoneRevived
<1>1. PICK more \in SUBSET MayBeReady(l) :
        /\ pc[l] = "poll"
        /\ active' = [active EXCEPT ![l] = Ready(l) \union more]
        /\ pc' = [pc EXCEPT ![l] = "events"]
        /\ UNCHANGED <<poolVars, nextConnId, connections, connVars, status, held,
                       userVars, pollVars, batch, pos, handling, queue,
                       peerClosed, callbacks, late, fault>>
  BY DEF Poll
<1>2. Loops' = Loops /\ Created' = Created /\ Functors' = Functors
  BY <1>1 DEF Loops, Created, Functors
<1> DEFINE R == Ready(l) \union more
<1>3. /\ R \ {Listen} \subseteq epoll[l]
      /\ Listen \in R => l = 0 /\ nextConnId <= MaxConns
      /\ R \subseteq Created \union {Listen}
  <2>1. epoll[l] \in SUBSET Created /\ Listen \notin Created
    BY CreatedIds DEF IInv, Types, None, Listen
  <2> QED BY <2>1 DEF Ready, MayBeReady
<1> HIDE DEF R
<1>4. Types'
  BY <1>1, <1>2, <1>3 DEF IInv, Types, R
<1>5. Iteration'
  BY <1>1, <1>2, <1>3 DEF IInv, Iteration, Types, R
<1>6. \A k \in Loops : Rest(k)' = Rest(k)
  BY <1>1 DEF Rest
<1>7. \A c \in Created : Alive(c)' <=> Alive(c)
  BY <1>1, <1>2 DEF Alive
<1>8. FunctorsFind' /\ Entries' /\ Watched' /\ Lives' /\ Lates'
  BY <1>1, <1>6, <1>7, QuietFrame
<1>9. Users'
  BY <1>1, UsersSame
<1> QED BY <1>4, <1>5, <1>7, <1>8, <1>9 DEF IInv, NoneRevived

\* The guard of handleEvent is dropped: a connection may go away.
LEMMA EndEventStep ==
  ASSUME IInv, NEW l \in Loops, EndEvent(l)
  PROVE  IInv' /\ NoneRevived
<1>1. /\ handling' = [handling EXCEPT ![l] = None]
      /\ UNCHANGED <<poolVars, nextConnId, connections, connVars, status, held,
                     userVars, pollVars, loopVars, queue, peerClosed, callbacks,
                     late, fault>>
  BY DEF EndEvent
<1>2. Loops' = Loops /\ Created' = Created /\ Functors' = Functors
  BY <1>1 DEF Loops, Created, Functors
<1>4. Types'
  BY <1>1, <1>2 DEF IInv, Types
<1>5. Iteration'
  BY <1>1, <1>2 DEF IInv, Iteration, Types
<1>6. \A k \in Loops : Rest(k)' = Rest(k)
  BY <1>1 DEF Rest
<1>7. \A c \in Created : Alive(c)' => Alive(c)
  BY <1>1, <1>2 DEF Alive, IInv, Types, Created, None
<1>8. FunctorsFind' /\ Entries' /\ Watched' /\ Lives' /\ Lates'
  BY <1>1, <1>6, <1>7, QuietFrame
<1>9. Users'
  BY <1>1, UsersSame
<1> QED BY <1>4, <1>5, <1>7, <1>8, <1>9 DEF IInv, NoneRevived

\* doFunctions takes the queue: the same functors are still to run.
LEMMA SwapStep ==
  ASSUME IInv, NEW l \in Loops, Swap(l)
  PROVE  IInv' /\ NoneRevived
<1>1. /\ pc[l] = "events" /\ handling[l] = None /\ active[l] = {}
      /\ batch' = [batch EXCEPT ![l] = queue[l]]
      /\ queue' = [queue EXCEPT ![l] = <<>>]
      /\ pos' = [pos EXCEPT ![l] = 1]
      /\ pc' = [pc EXCEPT ![l] = "run"]
      /\ UNCHANGED <<poolVars, nextConnId, connections, connVars, status, held,
                     userVars, pollVars, active, handling, peerClosed,
                     callbacks, late, fault>>
  BY DEF Swap
<1>2. Loops' = Loops /\ Created' = Created /\ Functors' = Functors
  BY <1>1 DEF Loops, Created, Functors
<1>3. /\ batch[l] = <<>> /\ pos[l] = 1
      /\ queue[l] \in Seq(Functors) /\ Len(queue[l]) \in Nat
      /\ batch \in [Loops -> Seq(Functors)] /\ queue \in [Loops -> Seq(Functors)]
      /\ pos \in [Loops -> Nat]
  BY <1>1 DEF IInv, Types, Iteration
<1>4. Types'
  <2>1. batch' \in [Loops -> Seq(Functors)] /\ queue' \in [Loops -> Seq(Functors)]
    BY <1>1, <1>3
  <2> QED BY <1>1, <1>2, <1>3, <2>1 DEF IInv, Types
<1>5. Iteration'
  BY <1>1, <1>2, <1>3 DEF IInv, Iteration, Types
<1>6. \A k \in Loops : Rest(k)' = Rest(k)
  <2>1. \A k \in Loops : k # l => Rest(k)' = Rest(k)
    BY <1>1, <1>3 DEF Rest
  <2>2. /\ Rest(l) = SubSeq(<<>>, 1, Len(<<>>)) \o queue[l]
        /\ Rest(l)' = SubSeq(queue[l], 1, Len(queue[l])) \o <<>>
    BY <1>1, <1>3 DEF Rest
  <2>3. Rest(l)' = Rest(l)
    BY <1>3, <2>2, RestIsQueue
  <2> QED BY <2>1, <2>3
<1>7. \A c \in Created : Alive(c)' => Alive(c)
  <2>1. \A c : Refers(batch[l], c)' => Refers(queue[l], c)
    BY <1>1, <1>3 DEF Refers
  <2>2. \A c : ~Refers(queue[l], c)'
    BY <1>1, <1>3 DEF Refers
  <2>3. \A k \in Loops : k # l => batch'[k] = batch[k] /\ queue'[k] = queue[k]
    BY <1>1, <1>3
  <2>4. \A k \in Loops, c \in Created :
          k # l => /\ Refers(batch[k], c)' => Refers(batch[k], c)
                   /\ Refers(queue[k], c)' => Refers(queue[k], c)
    BY <2>3 DEF Refers
  <2> QED BY <1>1, <1>2, <2>1, <2>2, <2>4 DEF Alive
<1>8. FunctorsFind' /\ Entries' /\ Watched' /\ Lives' /\ Lates'
  BY <1>1, <1>6, <1>7, QuietFrame
<1>9. Users'
  BY <1>1, UsersSame
<1> QED BY <1>4, <1>5, <1>7, <1>8, <1>9 DEF IInv, NoneRevived

\* The batch dies when all of it has run: connections may go away.
LEMMA EndBatchStep ==
  ASSUME IInv, NEW l \in Loops, EndBatch(l)
  PROVE  IInv' /\ NoneRevived
<1>1. /\ pc[l] = "run" /\ pos[l] > Len(batch[l])
      /\ batch' = [batch EXCEPT ![l] = <<>>]
      /\ pos' = [pos EXCEPT ![l] = 1]
      /\ pc' = [pc EXCEPT ![l] = "poll"]
      /\ UNCHANGED <<poolVars, nextConnId, connections, connVars, status, held,
                     userVars, pollVars, active, handling, queue,
                     peerClosed, callbacks, late, fault>>
  BY DEF EndBatch
<1>2. Loops' = Loops /\ Created' = Created /\ Functors' = Functors
  BY <1>1 DEF Loops, Created, Functors
<1>3. /\ batch[l] \in Seq(Functors) /\ queue[l] \in Seq(Functors)
      /\ pos[l] = Len(batch[l]) + 1
      /\ batch \in [Loops -> Seq(Functors)] /\ pos \in [Loops -> Nat]
  BY <1>1 DEF IInv, Types, Iteration
<1>4. Types'
  <2>1. batch' \in [Loops -> Seq(Functors)]
    BY <1>1, <1>3
  <2> QED BY <1>1, <1>2, <1>3, <2>1 DEF IInv, Types
<1>5. Iteration'
  BY <1>1, <1>2, <1>3 DEF IInv, Iteration, Types
<1>6. \A k \in Loops : Rest(k)' = Rest(k)
  <2>1. \A k \in Loops : k # l => Rest(k)' = Rest(k)
    BY <1>1, <1>3 DEF Rest
  <2>2. /\ Rest(l) = SubSeq(batch[l], Len(batch[l]) + 1, Len(batch[l])) \o queue[l]
        /\ Rest(l)' = SubSeq(<<>>, 1, Len(<<>>)) \o queue[l]
    BY <1>1, <1>3 DEF Rest
  <2>3. Rest(l)' = Rest(l)
    BY <1>3, <2>2, RestIsQueue
  <2> QED BY <2>1, <2>3
<1>7. \A c \in Created : Alive(c)' => Alive(c)
  <2>1. \A k \in Loops, c \in Created : Refers(batch[k], c)' => Refers(batch[k], c)
    BY <1>1, <1>3 DEF Refers
  <2> QED BY <1>1, <1>2, <2>1 DEF Alive
<1>8. FunctorsFind' /\ Entries' /\ Watched' /\ Lives' /\ Lates'
  BY <1>1, <1>6, <1>7, QuietFrame
<1>9. Users'
  BY <1>1, UsersSame
<1> QED BY <1>4, <1>5, <1>7, <1>8, <1>9 DEF IInv, NoneRevived

\* accept() fails, a channel that was put back is handled, a peer closes, user
\* code drops its pointer, an assert fails, or nothing happens.
LEMMA OtherQuietSteps ==
  ASSUME IInv, \/ AcceptFails /\ 0 \in Loops
               \/ \E l \in Loops, c \in Created : BufferIntoNet(l, c)
               \/ \E c \in Created : PeerClose(c) \/ Release(c)
               \/ fault' \subseteq [loop : Loops, fd : Fds]
                    /\ \E l \in Loops : Abort(l)
               \/ UNCHANGED vars
  PROVE  IInv' /\ NoneRevived
<1>0. PICK k \in Loops, c \in Created \union {Listen} :
        /\ active' \in {active, [active EXCEPT ![k] = @ \ {c}]}
        /\ \/ epoll' = epoll
           \/ active' # active /\ c # Listen
                /\ epoll' = [epoll EXCEPT ![k] = @ \ {c}]
  <2>1. 0 \in Loops
    BY CreatedIds DEF IInv
  <2>2. CASE AcceptFails
    BY <2>1, <2>2 DEF AcceptFails
  <2>3. CASE \E l \in Loops, c \in Created : BufferIntoNet(l, c)
    <3>1. PICK l \in Loops, c \in Created : BufferIntoNet(l, c)
      BY <2>3
    <3>2. /\ c \in active[l] /\ c # Listen
          /\ active' = [active EXCEPT ![l] = @ \ {c}]
          /\ epoll' \in {epoll, [epoll EXCEPT ![l] = @ \ {c}]}
      BY <3>1 DEF BufferIntoNet, Handles
    <3>3. active' # active
      BY <3>2 DEF IInv, Types
    <3> QED BY <3>2, <3>3
  <2>4. CASE ~AcceptFails /\ ~(\E l \in Loops, c \in Created : BufferIntoNet(l, c))
    BY <2>1, <2>4 DEF PeerClose, Release, Abort, vars
  <2> QED BY <2>2, <2>3, <2>4
<1>1. /\ held' \subseteq held /\ peerClosed' \subseteq Created
      /\ fault' \subseteq [loop : Loops, fd : Fds]
      /\ UNCHANGED <<poolVars, nextConnId, connections, connVars, status,
                     userVars, fdMap, pc, batch, pos, handling, queue, callbacks,
                     late>>
  BY DEF AcceptFails, BufferIntoNet, PeerClose, Release, Abort, vars, IInv, Types
<1>2. Loops' = Loops /\ Created' = Created /\ Functors' = Functors
  BY <1>1 DEF Loops, Created, Functors
<1>3. /\ active' \in [Loops -> SUBSET (Created \union {Listen})]
      /\ epoll' \in [Loops -> SUBSET Created]
      /\ \A l \in Loops : /\ active'[l] \subseteq active[l]
                          /\ epoll'[l] \subseteq epoll[l]
                          /\ active'[l] \ {Listen} \subseteq epoll'[l]
  <2>1. /\ active \in [Loops -> SUBSET (Created \union {Listen})]
        /\ epoll \in [Loops -> SUBSET Created]
        /\ \A l \in Loops : active[l] \ {Listen} \subseteq epoll[l]
    BY DEF IInv, Types, Iteration
  <2>2. CASE active' = active /\ epoll' = epoll
    BY <2>1, <2>2
  <2>3. CASE active' = [active EXCEPT ![k] = @ \ {c}] /\ epoll' = epoll
    BY <2>1, <2>3
  <2>4. CASE /\ active' = [active EXCEPT ![k] = @ \ {c}]
             /\ epoll' = [epoll EXCEPT ![k] = @ \ {c}]
    BY <2>1, <2>4
  <2> QED BY <1>0, <2>2, <2>3, <2>4
<1>4. Types'
  BY <1>1, <1>2, <1>3 DEF IInv, Types
<1>5. Iteration'
  BY <1>1, <1>2, <1>3 DEF IInv, Iteration
<1>6. \A l \in Loops : Rest(l)' = Rest(l)
  BY <1>1 DEF Rest
<1>7. \A d \in Created : Alive(d)' => Alive(d)
  BY <1>1, <1>2 DEF Alive
<1>8. FunctorsFind' /\ Entries' /\ Watched' /\ Lives' /\ Lates'
  BY <1>1, <1>3, <1>6, <1>7, QuietFrame
<1>9. Users'
  <2>1. CASE \E d \in Created : Release(d)
    BY <1>1, <2>1 DEF IInv, Users, Busy, Release
  <2>2. CASE held' = held
    BY <1>1, <2>2, UsersSame
  <2> QED BY <2>1, <2>2 DEF AcceptFails, BufferIntoNet, PeerClose, Abort, vars
<1> QED BY <1>4, <1>5, <1>7, <1>8, <1>9 DEF IInv, NoneRevived

\* send() and shutdown() read status_, and shutdown() writes it: only of a
\* connection that was reported up and that user code holds.
LEMMA UserSteps ==
  ASSUME IInv, NEW c \in Created,
         SendTest(c) \/ ShutdownTest(c) \/ ShutdownMark(c)
  PROVE  IInv' /\ NoneRevived
<1>1. UNCHANGED <<poolVars, nextConnId, connections, connVars, held, pollVars,
                  loopVars, handling, queue, peerClosed, callbacks, late, fault>>
  BY DEF SendTest, ShutdownTest, ShutdownMark
<1>2. Loops' = Loops /\ Created' = Created /\ Functors' = Functors
  BY <1>1 DEF Loops, Created, Functors
<1>3. /\ status' \in [Created -> {"Connected", "Disconnecting", "Disconnected"}]
      /\ sender' \in [Conns -> {"idle", "tested", "posted"}]
      /\ shutting' \subseteq Created
      /\ \A d \in Created : status'[d] \in {status[d], "Disconnecting"}
      /\ \A d \in Created : sender[d] = "posted" => sender'[d] = "posted"
  BY CreatedIds DEF SendTest, ShutdownTest, ShutdownMark, IInv, Types
<1>4. Types'
  BY <1>1, <1>2, <1>3 DEF IInv, Types
<1>5. Iteration'
  BY <1>1, <1>2 DEF IInv, Iteration
<1>6. \A k \in Loops : Rest(k)' = Rest(k)
  BY <1>1 DEF Rest
<1>7. \A d \in Created : Alive(d)' => Alive(d)
  BY <1>1, <1>2 DEF Alive
<1>8. FunctorsFind' /\ Entries' /\ Watched' /\ Lives' /\ Lates'
  BY <1>1, <1>3, <1>6, <1>7, QuietFrame
<1>9. Users'
  <2> SUFFICES ASSUME NEW d \in Conns, Busy(d)'
               PROVE  d \in held /\ (d \in late \/ callbacks[d] # <<>>)
    BY <1>1 DEF Users
  <2>1. CASE Busy(d)
    BY <2>1 DEF IInv, Users
  <2>2. CASE ~Busy(d)
    <3>1. d = c /\ c \in held /\ status[c] = "Connected"
      BY <2>2 DEF Busy, SendTest, ShutdownTest, ShutdownMark, IInv, Types
    <3>2. c \in late \/ callbacks[c] = OnlyUp
      BY <3>1 DEF IInv, Lives
    <3> QED BY <3>1, <3>2, CallbackValues
  <2> QED BY <2>1, <2>2
<1> QED BY <1>4, <1>5, <1>7, <1>8, <1>9 DEF IInv, NoneRevived

\* send() queues its functor: there is no other of this connection.
LEMMA SendPostStep ==
  ASSUME IInv, NEW c \in Created, SendPost(c)
  PROVE  IInv' /\ NoneRevived
<1>0. PICK l, g : l = loopOf[c] /\ g = [op |-> "send", conn |-> c]
  OBVIOUS
<1>1. /\ sender[c] = "tested"
      /\ sender' = [sender EXCEPT ![c] = "posted"]
      /\ Post(l, g)
      /\ UNCHANGED <<poolVars, nextConnId, connections, connVars, status, held,
                     shutting, pollVars, loopVars, handling, peerClosed,
                     callbacks, late, fault>>
  BY <1>0 DEF SendPost
<1>2. Loops' = Loops /\ Created' = Created /\ Functors' = Functors
  BY <1>1 DEF Loops, Created, Functors
<1>3. l \in Loops /\ g \in Functors /\ g.op = "send" /\ g.conn = c
  BY <1>0 DEF IInv, Types, Functors
<1>t. /\ queue \in [Loops -> Seq(Functors)]
      /\ sender \in [Conns -> {"idle", "tested", "posted"}]
      /\ Created \subseteq Conns
  BY CreatedIds DEF IInv, Types
<1>4. queue' = [queue EXCEPT ![l] = Append(@, g)]
  BY <1>1 DEF Post
<1>5. g \notin Pending(l) /\ NoRepeat(Rest(l))
  <2>1. ~FunctorFinds(l, g)
    BY <1>1, <1>3 DEF FunctorFinds
  <2> QED BY <1>3, <2>1 DEF IInv, FunctorsFind
<1>6. /\ Pending(l)' = Pending(l) \union {g} /\ NoRepeat(Rest(l))'
      /\ \A k \in Loops : k # l => queue'[k] = queue[k]
  BY <1>1, <1>3, <1>5, RestPost DEF IInv
<1>7. \A k \in Loops : k # l => Rest(k)' = Rest(k) /\ Pending(k)' = Pending(k)
  BY <1>1, <1>6 DEF Rest, Pending
<1>8. Types'
  <2>1. queue' \in [Loops -> Seq(Functors)]
    BY <1>3, <1>4, <1>t
  <2>2. sender' \in [Conns -> {"idle", "tested", "posted"}]
    BY <1>1, <1>t
  <2> QED BY <1>1, <1>2, <2>1, <2>2 DEF IInv, Types
<1>9. Iteration'
  BY <1>1, <1>2 DEF IInv, Iteration
<1>10. FunctorsFind'
  <2>1. \A k \in Loops : NoRepeat(Rest(k))'
    BY <1>6, <1>7 DEF IInv, FunctorsFind
  <2> SUFFICES ASSUME NEW k \in Loops, NEW f \in Pending(k)'
               PROVE  FunctorFinds(k, f)'
    BY <1>2, <2>1 DEF FunctorsFind
  <2>2. CASE k = l /\ f = g
    <3>1. loopOf'[c] = l /\ sender'[c] = "posted"
      BY <1>0, <1>1, <1>t
    <3> QED BY <1>3, <2>2, <3>1 DEF FunctorFinds
  <2>3. CASE f \in Pending(k)
    <3>1. FunctorFinds(k, f) /\ f.conn \in Created
      BY <2>3, RestType DEF IInv, FunctorsFind, Functors
    <3>2. sender[f.conn] = "posted" => sender'[f.conn] = "posted"
      BY <1>1, <1>t
    <3> QED BY <1>1, <3>1, <3>2 DEF FunctorFinds
  <2> QED BY <1>6, <1>7, <2>2, <2>3
<1>11. Entries'
  <2>1. \A k \in Loops : Pending(k) \subseteq Pending(k)'
    BY <1>6, <1>7
  <2> QED BY <1>1, <1>2, <2>1 DEF IInv, Entries, EntryIsOf
<1>12. Watched' /\ Lates'
  BY <1>1, <1>2 DEF IInv, Watched, IsWatched, Lates
<1>13. \A d \in Created : Alive(d)' => Alive(d)
  <2>1. \A d \in Created, k \in Loops : Refers(queue[k], d)' => Refers(queue[k], d)
    <3>1. /\ DOMAIN queue[l] = 1..Len(queue[l]) /\ Len(queue[l]) \in Nat
          /\ DOMAIN queue'[l] = 1..(Len(queue[l]) + 1)
          /\ \A i \in DOMAIN queue[l] : queue'[l][i] = queue[l][i]
          /\ queue'[l][Len(queue[l]) + 1] = g
      BY <1>3, <1>4, <1>t
    <3> QED BY <1>3, <1>6, <3>1 DEF Refers
  <2> QED BY <1>1, <1>2, <2>1 DEF Alive
<1>14. Lives'
  BY <1>1, <1>2, <1>13 DEF IInv, Lives
<1>15. Users'
  BY <1>1, <1>t DEF IInv, Users, Busy
<1> QED BY <1>8, <1>9, <1>10, <1>11, <1>12, <1>13, <1>14, <1>15
    DEF IInv, NoneRevived

-----------------------------------------------------------------------------
(* Closing and taking out.                                                 *)

\* A connection is closed: it was watched, so it was in the map and either up
\* and owned, or one that was put back on an io loop; of its functors only one
\* of send() can be queued.
LEMMA HandleCloseStep ==
  ASSUME IInv, NEW l \in Loops, NEW c \in Created, HandleClose(l, c)
  PROVE  IInv' /\ NoneRevived
<1>1. /\ pc[l] = "events" /\ handling[l] = None
      /\ c \in active[l] \ {Listen}
      /\ Alive(c) /\ (l = 0 => c \in connections)
      /\ active' = [active EXCEPT ![l] = @ \ {c}]
      /\ handling' = [handling EXCEPT ![l] = c]
      /\ status' = [status EXCEPT ![c] = "Disconnected"]
      /\ callbacks' = [callbacks EXCEPT ![c] = Append(@, "down")]
      /\ held' = held \union {c} \/ (~Busy(c) /\ held' = held \ {c})
      /\ UNCHANGED <<poolVars, nextConnId, connVars, userVars, pc, batch, pos,
                     peerClosed, late, fault>>
  BY DEF HandleClose, Handles, CanClose, ConnCallback, UserKeepsOrDrops
<1>2. Loops' = Loops /\ Created' = Created /\ Functors' = Functors
  BY <1>1 DEF Loops, Created, Functors
<1>a. c \in epoll[l]
  BY <1>1, WhoIsAlive
<1>b. /\ loopOf[c] = l /\ fdMap[l][fd[c]] = c
      /\ \/ c \in connections /\ c \notin late /\ callbacks[c] = OnlyUp
         \/ c \notin connections /\ c \in late /\ l # 0
  BY <1>1, <1>a DEF IInv, Watched, IsWatched, Lates
<1>t. /\ fd \in [Created -> Fds] /\ loopOf \in [Created -> Loops]
      /\ status \in [Created -> {"Connected", "Disconnecting", "Disconnected"}]
      /\ fdMap \in [Loops -> [Fds -> Created \union {None}]]
      /\ epoll \in [Loops -> SUBSET Created]
      /\ callbacks \in [Conns -> Seq({"up", "down"})]
      /\ queue \in [Loops -> Seq(Functors)]
      /\ handling \in [Loops -> Created \union {None}]
      /\ connections \subseteq Created /\ Created \subseteq Conns
      /\ None \notin Created /\ late \subseteq Created
  BY CreatedIds DEF IInv, Types
<1>3. fd[c] \in Fds /\ c \in Conns
  BY <1>t
<1>4. /\ callbacks' \in [Conns -> Seq({"up", "down"})]
      /\ c \notin late => callbacks'[c] = UpDown
      /\ \A d \in Conns : d # c => callbacks'[d] = callbacks[d]
  <2>1. callbacks[c] \in Seq({"up", "down"})
    BY <1>3, <1>t
  <2>2. Append(callbacks[c], "down") \in Seq({"up", "down"})
    <3> DEFINE q == callbacks[c]
               S == {"up", "down"}
               e == "down"
    <3>1. q \in Seq(S) /\ e \in S
      BY <2>1
    <3> HIDE DEF q, S, e
    <3>2. Append(q, e) \in Seq(S)
      BY <3>1
    <3> QED BY <3>2 DEF q, S, e
  <2>3. c \notin late => Append(callbacks[c], "down") = UpDown
    BY <1>b, CallbackValues
  <2>4. callbacks'[c] = Append(callbacks[c], "down")
    BY <1>1, <1>3, <1>t
  <2>5. \A d \in Conns : d # c => callbacks'[d] = callbacks[d]
    BY <1>1, <1>t
  <2>6. callbacks' \in [Conns -> Seq({"up", "down"})]
    BY <1>1, <1>3, <1>t, <2>2, Zenon
  <2> QED BY <2>3, <2>4, <2>5, <2>6
<1>5. \A k \in Loops : \A f \in Pending(k) : f.conn = c => f.op = "send"
  <2> SUFFICES ASSUME NEW k \in Loops, NEW f \in Pending(k), f.conn = c,
                      f.op # "send"
               PROVE  FALSE
    OBVIOUS
  <2>1. f.op \in {"establish", "remove", "destory"}
    BY RestType DEF IInv, Functors
  <2>2. FunctorFinds(k, f)
    BY DEF IInv, FunctorsFind
  <2> QED BY <1>a, <1>b, <2>1, <2>2, CallbackValues DEF FunctorFinds
<1>6. /\ status' \in [Created -> {"Connected", "Disconnecting", "Disconnected"}]
      /\ handling' \in [Loops -> Created \union {None}]
      /\ status'[c] = "Disconnected"
      /\ \A d \in Created : d # c => status'[d] = status[d]
      /\ \A k \in Loops, d \in Created :
           handling'[k] = d => handling[k] = d \/ d = c
      /\ active' \in [Loops -> SUBSET (Created \union {Listen})]
  BY <1>1, <1>t DEF IInv, Types
<1>7. Users'
  BY <1>1, <1>2, <1>4, <1>b, CallbackValues DEF IInv, Users, Busy
<1>8. CASE /\ l = 0
           /\ connections' = connections \ {c}
           /\ RemoveChannel(0, c)
           /\ UNCHANGED queue
  <2>1. /\ fdMap' = [fdMap EXCEPT ![l][fd[c]] = None]
        /\ epoll' = [epoll EXCEPT ![l] = @ \ {c}]
    BY <1>8 DEF RemoveChannel
  <2>0. c \in connections /\ c \notin late
    BY <1>1, <1>b, <1>8
  <2>2. Types'
    <3>1. /\ fdMap' \in [Loops -> [Fds -> Created \union {None}]]
          /\ epoll' \in [Loops -> SUBSET Created]
      BY <1>3, <1>t, <2>1
    <3> QED BY <1>1, <1>2, <1>4, <1>6, <1>8, <3>1 DEF IInv, Types
  <2>3. Iteration'
    BY <1>1, <1>2, <1>8, <2>1 DEF IInv, Iteration, Types
  <2>4. \A k \in Loops : Rest(k)' = Rest(k) /\ Pending(k)' = Pending(k)
    BY <1>1, <1>8 DEF Rest, Pending
  <2>a. \A m \in Loops, d \in Created :
          d # c /\ fdMap[m][fd[d]] = d => fdMap'[m][fd[d]] = d
    BY <1>3, <1>b, <1>t, <2>1
  <2>b. \A m \in Loops, d \in Created : d \notin epoll[m] => d \notin epoll'[m]
    BY <1>t, <2>1
  <2>5. FunctorsFind'
    <3>1. ASSUME NEW k \in Loops, NEW f \in Pending(k)
          PROVE  FunctorFinds(k, f)'
      <4>1. /\ f.conn \in Created /\ loopOf[f.conn] \in Loops
            /\ FunctorFinds(k, f)
        BY <1>t, RestType DEF IInv, FunctorsFind, Functors
      <4>2. CASE f.conn = c
        <5>1. f.op = "send"
          BY <1>5, <4>2
        <5> QED BY <1>1, <4>1, <5>1 DEF FunctorFinds
      <4>3. CASE f.conn # c
        <5>1. callbacks'[f.conn] = callbacks[f.conn]
          BY <1>4, <1>t, <4>1, <4>3
        <5> QED BY <1>1, <1>8, <2>a, <2>b, <4>1, <4>3, <5>1 DEF FunctorFinds
      <4> QED BY <4>2, <4>3
    <3>2. \A k \in Loops : NoRepeat(Rest(k))'
      BY <2>4 DEF IInv, FunctorsFind
    <3> QED BY <1>2, <2>4, <3>1, <3>2 DEF FunctorsFind
  <2>6. Entries'
    <3> SUFFICES ASSUME NEW k \in Loops, NEW f \in Fds, NEW d,
                        fdMap'[k][f] = d, d # None
                 PROVE  EntryIsOf(k, f, d)'
      BY <1>2 DEF Entries, EntryIsOf
    <3>1. fdMap[k][f] = d /\ d \in Created
      BY <1>t, <2>1
    <3>2. EntryIsOf(k, f, d)
      BY <3>1 DEF IInv, Entries
    <3>3. d # c
      BY <1>3, <1>b, <1>t, <2>1, <3>1, <3>2 DEF EntryIsOf
    <3>4. callbacks'[d] = callbacks[d]
      BY <1>4, <1>t, <3>1, <3>3
    <3> QED BY <1>1, <1>8, <2>4, <3>1, <3>2, <3>3, <3>4 DEF EntryIsOf
  <2>7. Watched'
    <3> SUFFICES ASSUME NEW k \in Loops, NEW d \in epoll'[k]
                 PROVE  IsWatched(k, d)'
      BY <1>2 DEF Watched
    <3>1. d \in epoll[k] /\ d \in Created
      BY <1>t, <2>1
    <3>2. IsWatched(k, d)
      BY <3>1 DEF IInv, Watched
    <3>3. d # c
      BY <1>b, <1>t, <2>1, <3>1, <3>2 DEF IsWatched
    <3>4. status'[d] = status[d] /\ callbacks'[d] = callbacks[d]
      BY <1>4, <1>6, <1>t, <3>1, <3>3
    <3> QED BY <1>1, <1>8, <2>a, <3>1, <3>2, <3>3, <3>4 DEF IsWatched
  <2>8. \A d \in Created : Alive(d)' => Alive(d)
    BY <1>1, <1>2, <1>6, <1>8 DEF Alive
  <2>c. \A d \in Created :
          d # c /\ fdMap[loopOf[d]][fd[d]] = d => fdMap'[loopOf'[d]][fd'[d]] = d
    BY <1>1, <1>t, <2>a
  <2>9. Lives'
    <3>1. ASSUME NEW d \in connections', callbacks'[d] # <<>>
          PROVE  fdMap'[loopOf'[d]][fd'[d]] = d
      <4>1. d \in connections /\ d # c /\ d \in Created
        BY <1>8, <1>t, <3>1
      <4>2. callbacks[d] # <<>>
        BY <1>4, <1>t, <3>1, <4>1
      <4>3. fdMap[loopOf[d]][fd[d]] = d
        BY <4>1, <4>2 DEF IInv, Lives
      <4> QED BY <2>c, <4>1, <4>3
    <3>2. ASSUME NEW d \in Created \ late
          PROVE  /\ callbacks'[d] \in {<<>>, OnlyUp, UpDown}
                 /\ callbacks'[d] # UpDown => d \in connections'
                 /\ status'[d] = "Connected" => callbacks'[d] = OnlyUp
      BY <1>4, <1>6, <1>8, <1>t, <3>2 DEF IInv, Lives
    <3>3. \A d \in Conns \ Created : callbacks'[d] = <<>>
      BY <1>4 DEF IInv, Lives
    <3>4. \A d, e \in Created : Alive(d)' /\ Alive(e)' /\ fd'[d] = fd'[e] => d = e
      BY <1>1, <2>8 DEF IInv, Lives
    <3> QED BY <1>1, <1>2, <3>1, <3>2, <3>3, <3>4 DEF Lives, Conns
  <2>10. Lates'
    <3> SUFFICES ASSUME NEW d \in late
                 PROVE  /\ d \notin connections' /\ status'[d] # "Connected"
                        /\ fdMap'[loopOf'[d]][fd'[d]] = d
      BY <1>1 DEF Lates
    <3>1. d # c /\ d \in Created
      BY <1>t, <2>0
    <3> QED BY <1>6, <1>8, <2>c, <3>1 DEF IInv, Lates
  <2> QED BY <1>7, <2>2, <2>3, <2>5, <2>6, <2>7, <2>8, <2>9, <2>10
      DEF IInv, NoneRevived
<1>9. CASE /\ l # 0
           /\ epoll' = DisableAll(l, c)
           /\ Post(0, [op |-> "remove", conn |-> c])
           /\ UNCHANGED <<connections, fdMap>>
  <2>1. 0 \in Loops /\ epoll' = [epoll EXCEPT ![l] = @ \ {c}]
    BY <1>9, CreatedIds DEF DisableAll, IInv
  <2> DEFINE g == [op |-> "remove", conn |-> c]
  <2>2. g \in Functors /\ g.conn = c /\ g.op = "remove"
    BY DEF Functors
  <2>3. queue' = [queue EXCEPT ![0] = Append(@, g)]
    BY <1>9 DEF Post
  <2>4. queue' \in [Loops -> Seq(Functors)]
    BY <2>1, <2>2, <2>3 DEF IInv, Types
  <2> HIDE DEF g
  <2>5. Types'
    <3>1. epoll' \in [Loops -> SUBSET Created]
      BY <1>t, <2>1
    <3> QED BY <1>1, <1>2, <1>3, <1>4, <1>6, <1>9, <2>4, <3>1 DEF IInv, Types
  <2>6. Iteration'
    BY <1>1, <1>2, <1>9, <2>1 DEF IInv, Iteration, Types
  <2>7. /\ Pending(0)' = Pending(0) \union {g} /\ NoRepeat(Rest(0))'
        /\ \A k \in Loops : k # 0 => queue'[k] = queue[k]
    <3>1. g \notin Pending(0) /\ NoRepeat(Rest(0))
      BY <1>5, <2>1, <2>2 DEF IInv, FunctorsFind
    <3> QED BY <1>1, <1>9, <2>1, <3>1, RestPost DEF IInv, g
  <2>8. \A k \in Loops : k # 0 => Rest(k)' = Rest(k) /\ Pending(k)' = Pending(k)
    BY <1>1, <2>7 DEF Rest, Pending
  <2>b. \A m \in Loops, d \in Created : d \notin epoll[m] => d \notin epoll'[m]
    BY <1>t, <2>1
  <2>9. FunctorsFind'
    <3>1. ASSUME NEW k \in Loops, NEW f \in Pending(k)
          PROVE  FunctorFinds(k, f)'
      <4>1. /\ f.conn \in Created /\ loopOf[f.conn] \in Loops
            /\ FunctorFinds(k, f)
        BY <1>t, RestType DEF IInv, FunctorsFind, Functors
      <4>2. CASE f.conn = c
        <5>1. f.op = "send"
          BY <1>5, <4>2
        <5> QED BY <1>1, <4>1, <5>1 DEF FunctorFinds
      <4>3. CASE f.conn # c
        <5>1. callbacks'[f.conn] = callbacks[f.conn]
          BY <1>4, <1>t, <4>1, <4>3
        <5> QED BY <1>1, <1>9, <2>b, <4>1, <5>1 DEF FunctorFinds
      <4> QED BY <4>2, <4>3
    <3>2. FunctorFinds(0, g)'
      <4>1. loopOf'[c] # 0 /\ c \notin epoll'[loopOf'[c]]
        BY <1>1, <1>9, <1>b, <1>t, <2>1
      <4>2. \/ /\ c \in connections' /\ callbacks'[c] = UpDown
               /\ fdMap'[loopOf'[c]][fd'[c]] = c
            \/ c \in late'
        BY <1>1, <1>4, <1>9, <1>b
      <4> QED BY <2>2, <4>1, <4>2 DEF FunctorFinds
    <3>3. \A k \in Loops : NoRepeat(Rest(k))'
      BY <2>7, <2>8 DEF IInv, FunctorsFind
    <3>4. \A k \in Loops : \A f \in Pending(k)' : f \in Pending(k) \/ (k = 0 /\ f = g)
      BY <2>7, <2>8
    <3> QED BY <1>2, <3>1, <3>2, <3>3, <3>4 DEF FunctorsFind
  <2>10. Entries'
    <3>1. \A d \in Created : \/ d \in late
                             \/ callbacks[d] # <<>> => callbacks'[d] # <<>>
      BY <1>4, <1>t, CallbackValues
    <3>2. \A k \in Loops : Pending(k) \subseteq Pending(k)'
      BY <2>7, <2>8
    <3> SUFFICES ASSUME NEW k \in Loops, NEW f \in Fds, NEW d,
                        fdMap[k][f] = d, d # None
                 PROVE  EntryIsOf(k, f, d)'
      BY <1>1, <1>2, <1>9 DEF Entries, EntryIsOf
    <3>3. d \in Created
      BY <1>t
    <3>4. EntryIsOf(k, f, d)
      BY DEF IInv, Entries
    <3> QED BY <1>1, <1>9, <3>1, <3>2, <3>3, <3>4 DEF EntryIsOf
  <2>11. Watched'
    <3> SUFFICES ASSUME NEW k \in Loops, NEW d \in epoll'[k]
                 PROVE  IsWatched(k, d)'
      BY <1>2 DEF Watched
    <3>1. d \in epoll[k] /\ d \in Created /\ ~(k = l /\ d = c)
      BY <1>t, <2>1
    <3>2. IsWatched(k, d)
      BY <3>1 DEF IInv, Watched
    <3>3. d # c
      BY <1>b, <3>1, <3>2 DEF IsWatched
    <3>4. status'[d] = status[d] /\ callbacks'[d] = callbacks[d]
      BY <1>4, <1>6, <1>t, <3>1, <3>3
    <3> QED BY <1>1, <1>9, <3>2, <3>4 DEF IsWatched
  <2>12. \A d \in Created : Alive(d)' => Alive(d)
    <3>1. \A d \in Created, k \in Loops :
            Refers(queue[k], d)' => Refers(queue[k], d) \/ d = c
      <4>1. \A k \in Loops : k # 0 => queue'[k] = queue[k]
        BY <2>7
      <4>2. /\ DOMAIN queue[0] = 1..Len(queue[0]) /\ Len(queue[0]) \in Nat
            /\ DOMAIN queue'[0] = 1..(Len(queue[0]) + 1)
            /\ \A i \in DOMAIN queue[0] : queue'[0][i] = queue[0][i]
            /\ queue'[0][Len(queue[0]) + 1] = g
        BY <1>t, <2>1, <2>3
      <4> QED BY <2>2, <4>1, <4>2 DEF Refers
    <3> QED BY <1>1, <1>2, <1>6, <1>9, <3>1 DEF Alive
  <2>13. Lives'
    <3>1. \A d \in Created \ late : d # c \/ (callbacks'[d] = UpDown /\ d \in connections)
      BY <1>4, <1>b
    <3>2. \A d \in connections : callbacks'[d] # <<>> => callbacks[d] # <<>>
      BY <1>4, <1>b, <1>t, CallbackValues
    <3> QED BY <1>1, <1>2, <1>3, <1>4, <1>6, <1>9, <1>t, <2>12, <3>1, <3>2
            DEF IInv, Lives
  <2>14. Lates'
    BY <1>1, <1>6, <1>9, <1>t DEF IInv, Lates
  <2> QED BY <1>7, <2>5, <2>6, <2>9, <2>10, <2>11, <2>12, <2>13, <2>14
      DEF IInv, NoneRevived
<1> QED BY <1>8, <1>9 DEF HandleClose, WhenOldConnDisconnect

\* Two functors with the same name and connection are the same functor.
LEMMA SameFunctor ==
  ASSUME NEW f \in Functors, NEW g \in Functors, f.op = g.op, f.conn = g.conn
  PROVE  f = g
  BY DEF Functors

\* connectDestory finds its connection in the map and takes it out.
LEMMA RunDestoryStep ==
  ASSUME IInv, NEW l \in Loops, RunDestory(l)
  PROVE  IInv' /\ NoneRevived
<1>0. PICK f, c : f = batch[l][pos[l]] /\ c = f.conn
  OBVIOUS
<1>1. /\ Current(l, "destory")
      /\ RemoveChannel(l, c)
      /\ UNCHANGED <<poolVars, nextConnId, connections, connVars, status, held,
                     userVars, active, pc, batch, handling, queue, peerClosed,
                     callbacks, late, fault>>
  BY <1>0 DEF RunDestory
<1>2. Loops' = Loops /\ Created' = Created /\ Functors' = Functors
  BY <1>1 DEF Loops, Created, Functors
<1>3. /\ f \in Pending(l) /\ f.op = "destory" /\ f \in Functors
      /\ Pending(l)' = Pending(l) \ {f} /\ NoRepeat(Rest(l))'
      /\ \A k \in Loops : k # l => pos'[k] = pos[k]
  BY <1>0, <1>1, RestNext DEF IInv, FunctorsFind
<1>4. /\ c \in Created /\ loopOf[c] = l /\ c \notin connections
      /\ c \notin late /\ callbacks[c] = UpDown /\ fdMap[l][fd[c]] = c
  BY <1>0, <1>3 DEF IInv, FunctorsFind, FunctorFinds, Functors
<1>t. /\ fd \in [Created -> Fds] /\ loopOf \in [Created -> Loops]
      /\ fdMap \in [Loops -> [Fds -> Created \union {None}]]
      /\ epoll \in [Loops -> SUBSET Created]
      /\ pos \in [Loops -> Nat]
      /\ Created \subseteq Conns /\ None \notin Created
      /\ connections \subseteq Created /\ late \subseteq Created
  BY CreatedIds DEF IInv, Types
<1>5. /\ fdMap' = [fdMap EXCEPT ![l][fd[c]] = None]
      /\ epoll' = [epoll EXCEPT ![l] = @ \ {c}]
      /\ pos' = [pos EXCEPT ![l] = @ + 1] /\ pos[l] <= Len(batch[l])
      /\ pc[l] = "run"
  BY <1>1 DEF RemoveChannel, Current, IsNext
<1>6. Types'
  <2>1. /\ fdMap' \in [Loops -> [Fds -> Created \union {None}]]
        /\ epoll' \in [Loops -> SUBSET Created]
        /\ pos' \in [Loops -> Nat]
    BY <1>4, <1>5, <1>t
  <2> QED BY <1>1, <1>2, <2>1 DEF IInv, Types
<1>7. epoll' = epoll
  <2>1. c \notin epoll[l]
    BY <1>4 DEF IInv, Watched, IsWatched
  <2> QED BY <1>5, <1>t, <2>1
<1>8. Iteration'
  <2>1. pos'[l] \in 1..(Len(batch[l]) + 1)
    <3>1. batch[l] \in Seq(Functors) /\ pos[l] \in 1..(Len(batch[l]) + 1)
      BY RestType DEF IInv, Iteration
    <3> QED BY <1>5, <1>t, <3>1
  <2> QED BY <1>1, <1>2, <1>3, <1>5, <1>7, <2>1 DEF IInv, Iteration
<1>9. \A k \in Loops : k # l => Rest(k)' = Rest(k) /\ Pending(k)' = Pending(k)
  BY <1>1, <1>3 DEF Rest, Pending
<1>10. \A m \in Loops, d \in Created :
         d # c /\ fdMap[m][fd[d]] = d => fdMap'[m][fd[d]] = d
  BY <1>4, <1>5, <1>t
<1>11. FunctorsFind'
  <2> SUFFICES ASSUME NEW k \in Loops, NEW g \in Pending(k)'
               PROVE  FunctorFinds(k, g)'
    BY <1>2, <1>3, <1>9 DEF IInv, FunctorsFind
  <2>1. g \in Pending(k) /\ g \in Functors /\ ~(k = l /\ g = f)
    BY <1>3, <1>9, RestType DEF IInv
  <2>2. FunctorFinds(k, g)
    BY <2>1 DEF IInv, FunctorsFind
  <2>3. /\ g.op \in {"establish", "remove", "destory", "send"}
        /\ g.conn \in Created /\ loopOf[g.conn] \in Loops
    BY <1>t, <2>1 DEF Functors
  <2>4. CASE g.conn = c
    <3>1. ASSUME g.op = "destory" PROVE FALSE
      BY <1>0, <1>3, <1>4, <2>1, <2>2, <2>4, <3>1, SameFunctor DEF FunctorFinds
    <3>2. g.op = "send"
      BY <1>4, <2>2, <2>3, <2>4, <3>1 DEF FunctorFinds
    <3> QED BY <1>1, <2>2, <3>2 DEF FunctorFinds
  <2>5. CASE g.conn # c
    BY <1>1, <1>7, <1>10, <2>2, <2>3, <2>5 DEF FunctorFinds
  <2> QED BY <2>4, <2>5
<1>12. Entries'
  <2> SUFFICES ASSUME NEW k \in Loops, NEW h \in Fds, NEW d,
                      fdMap'[k][h] = d, d # None
               PROVE  EntryIsOf(k, h, d)'
    BY <1>2 DEF Entries, EntryIsOf
  <2>1. fdMap[k][h] = d /\ d \in Created
    BY <1>4, <1>5, <1>t
  <2>2. EntryIsOf(k, h, d)
    BY <2>1 DEF IInv, Entries
  <2>3. d # c
    BY <1>4, <1>5, <1>t, <2>1, <2>2 DEF EntryIsOf
  <2>4. [op |-> "destory", conn |-> d] # f
    BY <1>0, <2>3
  <2> QED BY <1>1, <1>3, <1>9, <2>2, <2>4 DEF EntryIsOf
<1>13. Watched'
  <2> SUFFICES ASSUME NEW k \in Loops, NEW d \in epoll[k]
               PROVE  IsWatched(k, d)'
    BY <1>2, <1>7 DEF Watched
  <2>1. IsWatched(k, d) /\ d \in Created
    BY <1>t DEF IInv, Watched
  <2>2. d # c
    BY <1>4, <2>1 DEF IsWatched
  <2> QED BY <1>1, <1>10, <2>1, <2>2 DEF IsWatched
<1>14. \A d \in Created : Alive(d)' => Alive(d)
  BY <1>1, <1>2 DEF Alive
<1>15. \A d \in Created :
         d # c /\ fdMap[loopOf[d]][fd[d]] = d => fdMap'[loopOf'[d]][fd'[d]] = d
  BY <1>1, <1>10, <1>t
<1>16. Lives'
  <2>1. ASSUME NEW d \in connections', callbacks'[d] # <<>>
        PROVE  fdMap'[loopOf'[d]][fd'[d]] = d
    BY <1>1, <1>4, <1>15, <1>t, <2>1 DEF IInv, Lives
  <2> QED BY <1>1, <1>2, <1>14, <2>1 DEF IInv, Lives
<1>17. Lates'
  BY <1>1, <1>4, <1>15, <1>t DEF IInv, Lates
<1>18. Users'
  BY <1>1, UsersSame
<1> QED BY <1>6, <1>8, <1>11, <1>12, <1>13, <1>14, <1>16, <1>17, <1>18
    DEF IInv, NoneRevived

\* removeConnection finds its connection and sends it to its loop.
LEMMA RunRemoveStep ==
  ASSUME IInv, NEW l \in Loops, RunRemove(l)
  PROVE  IInv' /\ NoneRevived
<1>0. PICK f, c, m, g : /\ f = batch[l][pos[l]] /\ c = f.conn /\ m = loopOf[c]
                        /\ g = [op |-> "destory", conn |-> c]
  OBVIOUS
<1>1. /\ Current(l, "remove")
      /\ c \in connections
      /\ connections' = connections \ {c}
      /\ Post(m, g)
      /\ UNCHANGED <<poolVars, nextConnId, connVars, status, held, userVars,
                     pollVars, active, pc, batch, handling, peerClosed,
                     callbacks, late, fault>>
  BY <1>0 DEF RunRemove
<1>2. Loops' = Loops /\ Created' = Created /\ Functors' = Functors
  BY <1>1 DEF Loops, Created, Functors
<1>3. /\ f \in Pending(l) /\ f.op = "remove" /\ f \in Functors
      /\ queue'[l] = queue[l] =>
           Pending(l)' = Pending(l) \ {f} /\ NoRepeat(Rest(l))'
      /\ \A k \in Loops : k # l => pos'[k] = pos[k]
  BY <1>0, <1>1, RestNext DEF IInv, FunctorsFind
<1>4. /\ c \in Created /\ l = 0 /\ m # 0 /\ c \notin late
      /\ callbacks[c] = UpDown /\ fdMap[m][fd[c]] = c
  BY <1>0, <1>1, <1>3 DEF IInv, FunctorsFind, FunctorFinds, Functors, Lates
<1>5. m \in Loops /\ g \in Functors /\ g.op = "destory" /\ g.conn = c
  BY <1>0, <1>4 DEF IInv, Types, Functors
<1>6. FunctorFinds(m, g)' /\ g \notin Pending(m)
  <2>1. FunctorFinds(m, g)'
    BY <1>0, <1>1, <1>4, <1>5 DEF FunctorFinds
  <2>2. ~FunctorFinds(m, g)
    BY <1>1, <1>5 DEF FunctorFinds
  <2> QED BY <1>5, <2>1, <2>2 DEF IInv, FunctorsFind
<1>7. queue' = [queue EXCEPT ![m] = Append(@, g)]
  BY <1>1 DEF Post
<1>8. /\ Pending(m)' = Pending(m) \union {g} /\ NoRepeat(Rest(m))'
      /\ \A k \in Loops : k # m => queue'[k] = queue[k]
  <2>1. pos'[m] = pos[m]
    BY <1>3, <1>4, <1>5
  <2> QED BY <1>1, <1>5, <1>6, <2>1, RestPost DEF IInv, FunctorsFind
<1>9. Pending(l)' = Pending(l) \ {f} /\ NoRepeat(Rest(l))'
  BY <1>3, <1>4, <1>8
<1>10. \A k \in Loops : k # l /\ k # m =>
         Rest(k)' = Rest(k) /\ Pending(k)' = Pending(k)
  BY <1>1, <1>3, <1>8 DEF Rest, Pending
<1>11. \A k \in Loops : NoRepeat(Rest(k))'
  BY <1>8, <1>9, <1>10 DEF IInv, FunctorsFind
<1>12. pos' = [pos EXCEPT ![l] = @ + 1] /\ pos[l] <= Len(batch[l]) /\ pc[l] = "run"
  BY <1>1 DEF Current, IsNext
<1>13. Types'
  <2>1. queue' \in [Loops -> Seq(Functors)] /\ pos' \in [Loops -> Nat]
    BY <1>5, <1>7, <1>12 DEF IInv, Types
  <2> QED BY <1>1, <1>2, <2>1 DEF IInv, Types
<1>14. Iteration'
  <2>1. pos'[l] \in 1..(Len(batch[l]) + 1)
    <3>1. /\ batch[l] \in Seq(Functors) /\ pos[l] \in 1..(Len(batch[l]) + 1)
          /\ pos \in [Loops -> Nat]
      BY RestType DEF IInv, Iteration, Types
    <3> QED BY <1>12, <3>1
  <2> QED BY <1>1, <1>2, <1>3, <1>12, <2>1 DEF IInv, Iteration
<1>15. FunctorsFind'
  <2> SUFFICES ASSUME NEW k \in Loops, NEW h \in Pending(k)'
               PROVE  FunctorFinds(k, h)'
    BY <1>2, <1>11 DEF FunctorsFind
  <2>1. CASE k = m /\ h = g
    BY <1>6, <2>1
  <2>2. CASE ~(k = m /\ h = g)
    <3>1. h \in Pending(k) /\ h \in Functors /\ ~(k = l /\ h = f)
      BY <1>8, <1>9, <1>10, <2>2, RestType DEF IInv
    <3>2. FunctorFinds(k, h)
      BY <3>1 DEF IInv, FunctorsFind
    <3>3. h.op \in {"establish", "remove", "destory", "send"}
      BY <3>1 DEF Functors
    <3>4. CASE h.conn = c
      <4>1. ASSUME h.op = "remove" PROVE FALSE
        BY <1>0, <1>3, <1>4, <3>1, <3>2, <3>4, <4>1, SameFunctor DEF FunctorFinds
      <4>2. ASSUME h.op = "establish" PROVE FALSE
        BY <1>4, <3>2, <3>4, <4>2, CallbackValues DEF FunctorFinds
      <4>3. ASSUME h.op = "destory" PROVE FALSE
        BY <1>1, <3>2, <3>4, <4>3 DEF FunctorFinds
      <4>4. h.op = "send"
        BY <3>3, <4>1, <4>2, <4>3
      <4> QED BY <1>1, <3>2, <4>4 DEF FunctorFinds
    <3>5. CASE h.conn # c
      BY <1>1, <3>2, <3>5 DEF FunctorFinds
    <3> QED BY <3>4, <3>5
  <2> QED BY <2>1, <2>2
<1>16. Entries'
  <2> SUFFICES ASSUME NEW k \in Loops, NEW h \in Fds, NEW d,
                      fdMap[k][h] = d, d # None
               PROVE  EntryIsOf(k, h, d)'
    BY <1>1, <1>2 DEF Entries, EntryIsOf
  <2>1. EntryIsOf(k, h, d)
    BY DEF IInv, Entries
  <2>2. [op |-> "destory", conn |-> d] # f
    BY <1>3
  <2>3. [op |-> "destory", conn |-> d] \in Pending(k)
          => [op |-> "destory", conn |-> d] \in Pending(k)'
    BY <1>8, <1>9, <1>10, <2>2
  <2>4. d = c => [op |-> "destory", conn |-> d] \in Pending(k)'
    BY <1>0, <1>8, <2>1 DEF EntryIsOf
  <2> QED BY <1>1, <2>1, <2>3, <2>4 DEF EntryIsOf
<1>17. Watched'
  <2> SUFFICES ASSUME NEW k \in Loops, NEW d \in epoll[k]
               PROVE  IsWatched(k, d)'
    BY <1>1, <1>2 DEF Watched
  <2>1. IsWatched(k, d)
    BY DEF IInv, Watched
  <2>2. d # c
    BY <1>4, <2>1, CallbackValues DEF IsWatched
  <2> QED BY <1>1, <2>1, <2>2 DEF IsWatched
<1>18. \A d \in Created : Alive(d)' => Alive(d)
  <2>1. \A d \in Created, k \in Loops :
          Refers(queue[k], d)' => Refers(queue[k], d) \/ d = c
    <3>1. /\ DOMAIN queue[m] = 1..Len(queue[m]) /\ Len(queue[m]) \in Nat
          /\ DOMAIN queue'[m] = 1..(Len(queue[m]) + 1)
          /\ \A i \in DOMAIN queue[m] : queue'[m][i] = queue[m][i]
          /\ queue'[m][Len(queue[m]) + 1] = g
      BY <1>5, <1>7 DEF IInv, Types
    <3> QED BY <1>5, <1>8, <3>1 DEF Refers
  <2> QED BY <1>1, <1>2, <2>1 DEF Alive
<1>19. Lives'
  BY <1>1, <1>2, <1>4, <1>18 DEF IInv, Lives
<1>20. Lates' /\ Users'
  BY <1>1, UsersSame DEF IInv, Lates
<1> QED BY <1>13, <1>14, <1>15, <1>16, <1>17, <1>18, <1>19, <1>20
    DEF IInv, NoneRevived

-----------------------------------------------------------------------------
(* Establishing, and sending when it is late.                              *)

\* connectEstablished puts its connection into an empty place of the map.
LEMMA RunEstablishStep ==
  ASSUME IInv, NEW l \in Loops, RunEstablish(l)
  PROVE  IInv' /\ NoneRevived
<1>0. PICK f, c : f = batch[l][pos[l]] /\ c = f.conn
  OBVIOUS
<1>1. /\ Current(l, "establish")
      /\ Establish(l, c, fd[c])
      /\ status' = [status EXCEPT ![c] = "Connected"]
      /\ UNCHANGED <<poolVars, nextConnId, connections, connVars, userVars,
                     active, pc, batch, handling, queue, peerClosed, late, fault>>
  BY <1>0 DEF RunEstablish
<1>2. Loops' = Loops /\ Created' = Created /\ Functors' = Functors
  BY <1>1 DEF Loops, Created, Functors
<1>3. /\ f \in Pending(l) /\ f.op = "establish" /\ f \in Functors
      /\ Pending(l)' = Pending(l) \ {f} /\ NoRepeat(Rest(l))'
      /\ \A k \in Loops : k # l => pos'[k] = pos[k]
  BY <1>0, <1>1, RestNext DEF IInv, FunctorsFind
<1>4. /\ c \in Created /\ loopOf[c] = l /\ c \in connections
      /\ callbacks[c] = <<>> /\ c \notin late
  BY <1>0, <1>3 DEF IInv, FunctorsFind, FunctorFinds, Functors, Lates
<1>t. /\ fd \in [Created -> Fds] /\ loopOf \in [Created -> Loops]
      /\ status \in [Created -> {"Connected", "Disconnecting", "Disconnected"}]
      /\ fdMap \in [Loops -> [Fds -> Created \union {None}]]
      /\ epoll \in [Loops -> SUBSET Created]
      /\ callbacks \in [Conns -> Seq({"up", "down"})]
      /\ pos \in [Loops -> Nat]
      /\ Created \subseteq Conns /\ None \notin Created
      /\ held \subseteq Created /\ connections \subseteq Created
      /\ late \subseteq Created
  BY CreatedIds DEF IInv, Types
<1>5. fdMap[l][fd[c]] = None
  BY <1>1 DEF Establish
<1>6. /\ fdMap' = [fdMap EXCEPT ![l][fd[c]] = c]
      /\ epoll' = [epoll EXCEPT ![l] = @ \union {c}]
      /\ callbacks' = [callbacks EXCEPT ![c] = OnlyUp]
      /\ held' = held \union {c} \/ (~Busy(c) /\ held' = held \ {c})
      /\ pos' = [pos EXCEPT ![l] = @ + 1] /\ pos[l] <= Len(batch[l])
      /\ pc[l] = "run"
  <2>1. /\ fdMap' = [fdMap EXCEPT ![l][fd[c]] = c]
        /\ epoll' = [epoll EXCEPT ![l] = @ \union {c}]
    BY <1>1 DEF Establish, AddChannel
  <2>2. /\ callbacks' = [callbacks EXCEPT ![c] = Append(@, "up")]
        /\ held' = held \union {c} \/ (~Busy(c) /\ held' = held \ {c})
    BY <1>1 DEF Establish, ConnCallback, UserKeepsOrDrops
  <2>3. callbacks' = [callbacks EXCEPT ![c] = OnlyUp]
    BY <1>4, <1>t, <2>2, CallbackValues
  <2> QED BY <1>1, <2>1, <2>2, <2>3 DEF Current, IsNext
<1>7. /\ fdMap' \in [Loops -> [Fds -> Created \union {None}]]
      /\ epoll' \in [Loops -> SUBSET Created]
      /\ callbacks' \in [Conns -> Seq({"up", "down"})]
      /\ status' \in [Created -> {"Connected", "Disconnecting", "Disconnected"}]
      /\ pos' \in [Loops -> Nat]
      /\ held' \subseteq Created
  <2>1. OnlyUp \in Seq({"up", "down"})
    BY DEF OnlyUp
  <2>2. callbacks' \in [Conns -> Seq({"up", "down"})]
    BY <1>4, <1>6, <1>t, <2>1, Zenon
  <2> QED BY <1>1, <1>4, <1>6, <1>t, <2>2
<1>8. Types'
  BY <1>1, <1>2, <1>7 DEF IInv, Types
<1>9. Iteration'
  <2>1. pos'[l] \in 1..(Len(batch[l]) + 1)
    <3>1. batch[l] \in Seq(Functors) /\ pos[l] \in 1..(Len(batch[l]) + 1)
      BY RestType DEF IInv, Iteration
    <3> QED BY <1>6, <1>t, <3>1
  <2>2. \A k \in Loops : epoll[k] \subseteq epoll'[k]
    BY <1>6, <1>t
  <2> QED BY <1>1, <1>2, <1>3, <1>6, <2>1, <2>2 DEF IInv, Iteration
<1>10. \A k \in Loops : k # l => Rest(k)' = Rest(k) /\ Pending(k)' = Pending(k)
  BY <1>1, <1>3 DEF Rest, Pending
<1>11. /\ \A d \in Conns : d # c => callbacks'[d] = callbacks[d]
       /\ \A d \in Created : d # c => status'[d] = status[d]
       /\ callbacks'[c] = OnlyUp /\ status'[c] = "Connected"
       /\ fdMap'[l][fd[c]] = c
       /\ \A k \in Loops, d \in Created :
            d \notin epoll[k] /\ d # c => d \notin epoll'[k]
  BY <1>1, <1>4, <1>6, <1>t
<1>12. \A k \in Loops, h \in Fds :
         fdMap'[k][h] = fdMap[k][h] \/ (k = l /\ h = fd[c] /\ fdMap'[k][h] = c)
  BY <1>4, <1>6, <1>t
<1>m. \A m \in Loops, d \in Created :
         fdMap[m][fd[d]] = d => fdMap'[m][fd[d]] = d
  <2> SUFFICES ASSUME NEW m \in Loops, NEW d \in Created, fdMap[m][fd[d]] = d
               PROVE  fdMap'[m][fd[d]] = d
    OBVIOUS
  <2>1. d # None /\ fd[d] \in Fds /\ ~(m = l /\ fd[d] = fd[c])
    BY <1>5, <1>t
  <2> QED BY <1>12, <2>1
<1>13. FunctorsFind'
  <2> SUFFICES ASSUME NEW k \in Loops, NEW g \in Pending(k)'
               PROVE  FunctorFinds(k, g)'
    BY <1>2, <1>3, <1>10 DEF IInv, FunctorsFind
  <2>1. g \in Pending(k) /\ g \in Functors /\ ~(k = l /\ g = f)
    BY <1>3, <1>10, RestType DEF IInv
  <2>2. FunctorFinds(k, g)
    BY <2>1 DEF IInv, FunctorsFind
  <2>3. /\ g.op \in {"establish", "remove", "destory", "send"}
        /\ g.conn \in Created /\ g.conn \in Conns /\ loopOf[g.conn] \in Loops
    BY <1>t, <2>1 DEF Functors
  <2>4. CASE g.conn = c
    <3>1. ASSUME g.op = "establish" PROVE FALSE
      BY <1>0, <1>3, <1>4, <2>1, <2>2, <2>4, <3>1, SameFunctor DEF FunctorFinds
    <3>2. g.op = "send"
      BY <1>4, <2>2, <2>3, <2>4, <3>1, CallbackValues DEF FunctorFinds
    <3> QED BY <1>1, <2>2, <3>2 DEF FunctorFinds
  <2>5. CASE g.conn # c
    <3>1. callbacks'[g.conn] = callbacks[g.conn]
      BY <1>11, <2>3, <2>5
    <3> QED BY <1>1, <1>11, <1>m, <2>2, <2>3, <2>5, <3>1 DEF FunctorFinds
  <2> QED BY <2>4, <2>5
<1>14. Entries'
  <2> SUFFICES ASSUME NEW k \in Loops, NEW h \in Fds, NEW d,
                      fdMap'[k][h] = d, d # None
               PROVE  EntryIsOf(k, h, d)'
    BY <1>2 DEF Entries, EntryIsOf
  <2>1. CASE k = l /\ h = fd[c] /\ d = c
    BY <1>1, <1>4, <1>11, <2>1, CallbackValues DEF EntryIsOf
  <2>2. CASE fdMap[k][h] = d
    <3>1. EntryIsOf(k, h, d) /\ d \in Conns
      BY <1>t, <2>2 DEF IInv, Entries
    <3>2. callbacks[d] # <<>> => callbacks'[d] # <<>>
      BY <1>11, <3>1, CallbackValues
    <3>3. [op |-> "destory", conn |-> d] # f
      BY <1>3
    <3>4. [op |-> "destory", conn |-> d] \in Pending(k)
            => [op |-> "destory", conn |-> d] \in Pending(k)'
      BY <1>3, <1>10, <3>3
    <3> QED BY <1>1, <3>1, <3>2, <3>4 DEF EntryIsOf
  <2> QED BY <1>12, <2>1, <2>2
<1>15. Watched'
  <2> SUFFICES ASSUME NEW k \in Loops, NEW d \in epoll'[k]
               PROVE  IsWatched(k, d)'
    BY <1>2 DEF Watched
  <2>1. CASE k = l /\ d = c
    BY <1>1, <1>4, <1>11, <2>1 DEF IsWatched
  <2>2. CASE d \in epoll[k]
    <3>1. IsWatched(k, d) /\ d \in Created
      BY <1>t, <2>2 DEF IInv, Watched
    <3>2. d # c
      BY <1>4, <3>1, CallbackValues DEF IsWatched
    <3>3. callbacks'[d] = callbacks[d] /\ status'[d] = status[d]
      BY <1>11, <1>t, <3>1, <3>2
    <3> QED BY <1>1, <1>m, <3>1, <3>3 DEF IsWatched
  <2> QED BY <1>6, <1>t, <2>1, <2>2
<1>16. \A d \in Created : Alive(d)' => Alive(d)
  BY <1>1, <1>2, <1>4, <1>6 DEF Alive
<1>a. \A d \in Created :
         fdMap[loopOf[d]][fd[d]] = d => fdMap'[loopOf'[d]][fd'[d]] = d
  BY <1>1, <1>m, <1>t
<1>17. Lives'
  <2>1. ASSUME NEW d \in connections, callbacks'[d] # <<>>
        PROVE  fdMap'[loopOf'[d]][fd'[d]] = d
    BY <1>1, <1>4, <1>11, <1>a, <1>t, <2>1 DEF IInv, Lives
  <2>2. ASSUME NEW d \in Created \ late
        PROVE  /\ callbacks'[d] \in {<<>>, OnlyUp, UpDown}
               /\ callbacks'[d] # UpDown => d \in connections'
               /\ status'[d] = "Connected" => callbacks'[d] = OnlyUp
    BY <1>1, <1>4, <1>11, <1>t, <2>2 DEF IInv, Lives
  <2>3. \A d \in Conns \ Created : callbacks'[d] = <<>>
    BY <1>4, <1>11 DEF IInv, Lives
  <2>4. \A d, e \in Created : Alive(d)' /\ Alive(e)' /\ fd'[d] = fd'[e] => d = e
    BY <1>1, <1>16 DEF IInv, Lives
  <2> QED BY <1>1, <1>2, <2>1, <2>2, <2>3, <2>4 DEF Lives, Conns
<1>18. Lates'
  <2> SUFFICES ASSUME NEW d \in late
               PROVE  /\ d \notin connections /\ status'[d] # "Connected"
                      /\ fdMap'[loopOf'[d]][fd'[d]] = d
    BY <1>1 DEF Lates
  <2>1. d # c /\ d \in Created
    BY <1>4, <1>t
  <2> QED BY <1>11, <1>a, <2>1 DEF IInv, Lates
<1>19. Users'
  BY <1>1, <1>4, <1>6, <1>11, CallbackValues DEF IInv, Users, Busy
<1> QED BY <1>8, <1>9, <1>13, <1>14, <1>15, <1>16, <1>17, <1>18, <1>19
    DEF IInv, NoneRevived

\* sendInLoop finds its connection in the map, or out of it because
\* connectDestory has run: then it may put the channel back.
LEMMA RunSendStep ==
  ASSUME IInv, NEW l \in Loops, RunSend(l)
  PROVE  /\ IInv' /\ NoneRevived
         /\ \/ late' = late
            \/ \E c \in Created \ late : /\ late' = late \union {c}
                                         /\ callbacks[c] = UpDown /\ Alive(c)
<1>0. PICK f, c : f = batch[l][pos[l]] /\ c = f.conn
  OBVIOUS
<1>1. /\ Current(l, "send")
      /\ sender' = [sender EXCEPT ![c] = "idle"]
      /\ \/ UNCHANGED <<pollVars, late>>
         \/ /\ fdMap[l][fd[c]] = None
            /\ AddChannel(l, c, fd[c])
            /\ late' = late \union {c}
      /\ UNCHANGED <<poolVars, nextConnId, connections, connVars, status, held,
                     shutting, active, pc, batch, handling, queue, peerClosed,
                     callbacks, fault>>
  BY <1>0 DEF RunSend
<1>2. Loops' = Loops /\ Created' = Created /\ Functors' = Functors
  BY <1>1 DEF Loops, Created, Functors
<1>3. /\ f \in Pending(l) /\ f.op = "send" /\ f \in Functors
      /\ Pending(l)' = Pending(l) \ {f} /\ NoRepeat(Rest(l))'
      /\ \A k \in Loops : k # l => pos'[k] = pos[k]
  BY <1>0, <1>1, RestNext DEF IInv, FunctorsFind
<1>t. /\ fd \in [Created -> Fds] /\ loopOf \in [Created -> Loops]
      /\ fdMap \in [Loops -> [Fds -> Created \union {None}]]
      /\ epoll \in [Loops -> SUBSET Created]
      /\ sender \in [Conns -> {"idle", "tested", "posted"}]
      /\ pos \in [Loops -> Nat]
      /\ Created \subseteq Conns /\ None \notin Created
      /\ connections \subseteq Created /\ late \subseteq Created
  BY CreatedIds DEF IInv, Types
<1>4. /\ c \in Created /\ loopOf[c] = l /\ sender[c] = "posted"
      /\ c \in held /\ (c \in late \/ callbacks[c] # <<>>)
  <2>1. c \in Created /\ loopOf[c] = l /\ sender[c] = "posted"
    BY <1>0, <1>3 DEF IInv, FunctorsFind, FunctorFinds, Functors
  <2> QED BY <1>t, <2>1 DEF IInv, Users, Busy
<1>5. ASSUME fdMap[l][fd[c]] = None
      PROVE  /\ c \notin late /\ c \notin connections /\ callbacks[c] = UpDown
             /\ status[c] # "Connected"
  <2>1. fdMap[loopOf[c]][fd[c]] # c
    BY <1>4, <1>5, <1>t
  <2>2. c \notin late
    BY <2>1 DEF IInv, Lates
  <2>3. c \notin connections
    BY <1>4, <2>1, <2>2 DEF IInv, Lives
  <2>4. callbacks[c] = UpDown
    BY <1>4, <2>2, <2>3 DEF IInv, Lives
  <2> QED BY <1>4, <2>2, <2>3, <2>4, CallbackValues DEF IInv, Lives
<1>6. /\ pos' = [pos EXCEPT ![l] = @ + 1] /\ pos[l] <= Len(batch[l])
      /\ pc[l] = "run"
  BY <1>1 DEF Current, IsNext
<1>7. \/ fdMap' = fdMap /\ epoll' = epoll /\ late' = late
      \/ /\ fdMap[l][fd[c]] = None
         /\ fdMap' = [fdMap EXCEPT ![l][fd[c]] = c]
         /\ epoll' = [epoll EXCEPT ![l] = @ \union {c}]
         /\ late' = late \union {c}
  BY <1>1 DEF AddChannel
<1>8. /\ fdMap' \in [Loops -> [Fds -> Created \union {None}]]
      /\ epoll' \in [Loops -> SUBSET Created]
      /\ late' \subseteq Created
      /\ sender' \in [Conns -> {"idle", "tested", "posted"}]
      /\ pos' \in [Loops -> Nat]
      /\ \A k \in Loops : epoll[k] \subseteq epoll'[k]
      /\ \A k \in Loops : \A d \in epoll'[k] :
           d \in epoll[k] \/ (k = l /\ d = c /\ c \in late' /\ fdMap'[l][fd[c]] = c)
      /\ \A k \in Loops, h \in Fds :
           \/ fdMap'[k][h] = fdMap[k][h]
           \/ k = l /\ h = fd[c] /\ fdMap'[k][h] = c /\ c \in late'
      /\ late \subseteq late'
      /\ \A m \in Loops, d \in Created :
           fdMap[m][fd[d]] = d => fdMap'[m][fd[d]] = d
      /\ \A d \in Created : d # c => sender'[d] = sender[d]
  <2>1. /\ sender' \in [Conns -> {"idle", "tested", "posted"}]
        /\ pos' \in [Loops -> Nat]
        /\ \A d \in Created : d # c => sender'[d] = sender[d]
    BY <1>1, <1>4, <1>6, <1>t
  <2>2. CASE fdMap' = fdMap /\ epoll' = epoll /\ late' = late
    BY <1>t, <2>1, <2>2
  <2>3. CASE /\ fdMap[l][fd[c]] = None
             /\ fdMap' = [fdMap EXCEPT ![l][fd[c]] = c]
             /\ epoll' = [epoll EXCEPT ![l] = @ \union {c}]
             /\ late' = late \union {c}
    BY <1>4, <1>t, <2>1, <2>3
  <2> QED BY <1>7, <2>2, <2>3
<1>9. Types'
  BY <1>1, <1>2, <1>8 DEF IInv, Types
<1>10. Iteration'
  <2>1. pos'[l] \in 1..(Len(batch[l]) + 1)
    <3>1. batch[l] \in Seq(Functors) /\ pos[l] \in 1..(Len(batch[l]) + 1)
      BY RestType DEF IInv, Iteration
    <3> QED BY <1>6, <1>t, <3>1
  <2> QED BY <1>1, <1>2, <1>3, <1>6, <1>8, <2>1 DEF IInv, Iteration
<1>11. \A k \in Loops : k # l => Rest(k)' = Rest(k) /\ Pending(k)' = Pending(k)
  BY <1>1, <1>3 DEF Rest, Pending
<1>12. FunctorsFind'
  <2> SUFFICES ASSUME NEW k \in Loops, NEW g \in Pending(k)'
               PROVE  FunctorFinds(k, g)'
    BY <1>2, <1>3, <1>11 DEF IInv, FunctorsFind
  <2>1. g \in Pending(k) /\ g \in Functors /\ ~(k = l /\ g = f)
    BY <1>3, <1>11, RestType DEF IInv
  <2>2. FunctorFinds(k, g)
    BY <2>1 DEF IInv, FunctorsFind
  <2>3. /\ g.op \in {"establish", "remove", "destory", "send"}
        /\ g.conn \in Created /\ loopOf[g.conn] \in Loops
    BY <1>t, <2>1 DEF Functors
  <2>4. CASE g.conn = c
    <3>1. g.op # "send"
      BY <1>0, <1>3, <1>4, <2>1, <2>2, <2>4, SameFunctor DEF FunctorFinds
    <3>2. late' = late /\ epoll' = epoll /\ fdMap' = fdMap
      BY <1>4, <1>5, <1>7, <1>t, <2>2, <2>3, <2>4, <3>1, CallbackValues
         DEF FunctorFinds
    <3> QED BY <1>1, <2>2, <3>1, <3>2 DEF FunctorFinds
  <2>5. CASE g.conn # c
    <3>1. sender'[g.conn] = sender[g.conn]
      BY <1>8, <2>3, <2>5
    <3>2. g.conn \in late' <=> g.conn \in late
      BY <1>7, <2>5
    <3>3. g.conn \notin epoll[loopOf[g.conn]] => g.conn \notin epoll'[loopOf[g.conn]]
      BY <1>8, <2>3, <2>5
    <3>4. \A m \in {k, loopOf[g.conn]} :
            fdMap[m][fd[g.conn]] = g.conn => fdMap'[m][fd[g.conn]] = g.conn
      BY <1>8, <2>3
    <3> QED BY <1>1, <2>2, <3>1, <3>2, <3>3, <3>4 DEF FunctorFinds
  <2> QED BY <2>4, <2>5
<1>13. Entries'
  <2> SUFFICES ASSUME NEW k \in Loops, NEW h \in Fds, NEW d,
                      fdMap'[k][h] = d, d # None
               PROVE  EntryIsOf(k, h, d)'
    BY <1>2 DEF Entries, EntryIsOf
  <2>1. CASE k = l /\ h = fd[c] /\ d = c /\ c \in late'
    BY <1>1, <1>4, <2>1 DEF EntryIsOf
  <2>2. CASE fdMap[k][h] = d
    <3>1. EntryIsOf(k, h, d)
      BY <2>2 DEF IInv, Entries
    <3>2. [op |-> "destory", conn |-> d] # f
      BY <1>3
    <3>3. [op |-> "destory", conn |-> d] \in Pending(k)
            => [op |-> "destory", conn |-> d] \in Pending(k)'
      BY <1>3, <1>11, <3>2
    <3> QED BY <1>1, <1>8, <3>1, <3>3 DEF EntryIsOf
  <2> QED BY <1>8, <2>1, <2>2
<1>14. Watched'
  <2> SUFFICES ASSUME NEW k \in Loops, NEW d \in epoll'[k]
               PROVE  IsWatched(k, d)'
    BY <1>2 DEF Watched
  <2>1. CASE k = l /\ d = c /\ c \in late' /\ fdMap'[l][fd[c]] = c
    BY <1>1, <1>4, <2>1 DEF IsWatched
  <2>2. CASE d \in epoll[k]
    <3>1. IsWatched(k, d) /\ d \in Created
      BY <1>t, <2>2 DEF IInv, Watched
    <3> QED BY <1>1, <1>8, <3>1 DEF IsWatched
  <2> QED BY <1>8, <2>1, <2>2
<1>15. \A d \in Created : Alive(d)' => Alive(d)
  BY <1>1, <1>2 DEF Alive
<1>16. \A d \in Created :
         fdMap[loopOf[d]][fd[d]] = d => fdMap'[loopOf'[d]][fd'[d]] = d
  BY <1>1, <1>8, <1>t
<1>17. Lives'
  <2>1. \A d \in connections :
          callbacks'[d] # <<>> => fdMap'[loopOf'[d]][fd'[d]] = d
    BY <1>1, <1>16, <1>t DEF IInv, Lives
  <2>2. \A d \in Created \ late' : d \in Created \ late
    BY <1>8
  <2> QED BY <1>1, <1>2, <1>15, <2>1, <2>2 DEF IInv, Lives
<1>18. Lates'
  <2> SUFFICES ASSUME NEW d \in late'
               PROVE  /\ d \notin connections /\ status[d] # "Connected"
                      /\ fdMap'[loopOf'[d]][fd'[d]] = d
    BY <1>1 DEF Lates
  <2>1. CASE d \in late
    BY <1>16, <1>t, <2>1 DEF IInv, Lates
  <2>2. CASE d \notin late
    <3>1. d = c /\ fdMap[l][fd[c]] = None
      BY <1>7, <2>2
    <3>2. fdMap'[l][fd[c]] = c
      BY <1>4, <1>7, <1>t, <2>2
    <3> QED BY <1>1, <1>4, <1>5, <3>1, <3>2
  <2> QED BY <2>1, <2>2
<1>19. Users'
  <2> SUFFICES ASSUME NEW d \in Conns, Busy(d)'
               PROVE  d \in held /\ (d \in late' \/ callbacks[d] # <<>>)
    BY <1>1 DEF Users
  <2>1. Busy(d)
    BY <1>1, <1>t DEF Busy
  <2> QED BY <1>8, <2>1 DEF IInv, Users
<1>20. \/ late' = late
       \/ \E d \in Created \ late : /\ late' = late \union {d}
                                    /\ callbacks[d] = UpDown /\ Alive(d)
  BY <1>4, <1>5, <1>7, WhoIsAlive
<1> QED BY <1>9, <1>10, <1>12, <1>13, <1>14, <1>15, <1>17, <1>18, <1>19, <1>20
    DEF IInv, NoneRevived

-----------------------------------------------------------------------------
(* Accepting.                                                              *)

\* A function on 1..(n - 1) is extended to n.
LEMMA AppendFunction ==
  ASSUME NEW S, NEW n \in Nat \ {0}, NEW D, D = 1..(n - 1),
         NEW g \in [D -> S], NEW e \in S
  PROVE  /\ Append(g, e) \in [1..n -> S]
         /\ \A i \in D : Append(g, e)[i] = g[i]
         /\ Append(g, e)[n] = e
<1>1. g \in Seq(S) /\ Len(g) = n - 1
  OBVIOUS
<1>2. /\ Append(g, e) \in Seq(S) /\ Len(Append(g, e)) = Len(g) + 1
      /\ \A i \in 1..Len(g) : Append(g, e)[i] = g[i]
      /\ Append(g, e)[Len(g) + 1] = e
  BY <1>1
<1>3. Append(g, e) \in [1..Len(Append(g, e)) -> S]
  BY <1>2, LenProperties
<1> QED BY <1>1, <1>2, <1>3

\* Nothing knows of the connection that is about to be accepted.
LEMMA NextIsNew ==
  ASSUME IInv, nextConnId <= MaxConns
  PROVE  /\ nextConnId \in Conns /\ nextConnId \notin Created /\ nextConnId # None
         /\ \A l \in Loops : \A g \in Pending(l) : g.conn # nextConnId
         /\ callbacks[nextConnId] = <<>>
         /\ ~Alive(nextConnId)
<1>1. nextConnId \in Nat \ {0} /\ MaxConns \in Nat
  BY ServerAssumption DEF IInv, Types
<1>2. nextConnId \in Conns /\ nextConnId \notin Created /\ nextConnId # None
  BY <1>1 DEF Conns, Created, None
<1>3. \A l \in Loops : \A g \in Pending(l) : g.conn # nextConnId
  BY <1>2, RestType DEF IInv, Functors
<1>4. callbacks[nextConnId] = <<>>
  BY <1>2 DEF IInv, Lives
<1>5. \A l \in Loops : ~Refers(queue[l], nextConnId) /\ ~Refers(batch[l], nextConnId)
  <2> SUFFICES ASSUME NEW l \in Loops
               PROVE  ~Refers(queue[l], nextConnId) /\ ~Refers(batch[l], nextConnId)
    OBVIOUS
  <2>1. queue[l] \in Seq(Functors) /\ batch[l] \in Seq(Functors)
    BY RestType DEF IInv
  <2>2. \A g \in Functors : g.conn # nextConnId
    BY <1>2 DEF Functors
  <2> QED BY <2>1, <2>2 DEF Refers
<1>6. ~Alive(nextConnId)
  BY <1>2, <1>5 DEF Alive, IInv, Types
<1> QED BY <1>2, <1>3, <1>4, <1>6

\* The descriptor that accept() returns is with no live connection, and in no
\* map unless a late send has put it there.
LEMMA NextFdIsFree ==
  ASSUME IInv, NEW f \in Fds \ OpenFds
  PROVE  /\ \A d \in Created : Alive(d) => fd[d] # f
         /\ \A l \in Loops : fdMap[l][f] # None =>
              /\ fdMap[l][f] \in late
              /\ fd[fdMap[l][f]] = f /\ loopOf[fdMap[l][f]] = l
<1>1. \A d \in Created : Alive(d) => fd[d] # f
  BY DEF OpenFds
<1>2. ASSUME NEW l \in Loops, NEW d, d = fdMap[l][f], d # None
      PROVE  d \in late /\ fd[d] = f /\ loopOf[d] = l
  <2>1. d \in Created
    BY <1>2 DEF IInv, Types
  <2>2. Alive(d) \/ d \in late
    BY <1>2, WhoIsAlive
  <2>3. fd[d] = f /\ loopOf[d] = l
    BY <1>2 DEF IInv, Entries, EntryIsOf
  <2> QED BY <1>1, <2>1, <2>2, <2>3
<1> QED BY <1>1, <1>2

\* The connection c is accepted on descriptor f for loop l.
Accepted(c, f, l) ==
  /\ c = nextConnId /\ nextConnId' = c + 1 /\ f \in Fds \ OpenFds /\ l \in Loops
  /\ c \in Conns /\ c \notin Created /\ c # None /\ c \in Created'
  /\ Created' = Created \union {c} /\ Loops' = Loops
  /\ Functors \subseteq Functors'
  /\ [op |-> "establish", conn |-> c] \in Functors'
  /\ fd' \in [Created' -> Fds] /\ fd'[c] = f /\ \A d \in Created : fd'[d] = fd[d]
  /\ fd' = Append(fd, f)
  /\ loopOf' \in [Created' -> Loops] /\ loopOf'[c] = l
  /\ \A d \in Created : loopOf'[d] = loopOf[d]
  /\ connections' = connections \union {c}
  /\ count' \in Nat /\ (count' = 0 \/ count' < threads)
  /\ active' = [active EXCEPT ![0] = @ \ {Listen}]
  /\ handling[0] = None /\ pc[0] = "events"
  /\ UNCHANGED <<threads, userVars, pc, batch, pos, handling, peerClosed, late,
                 fault>>
  /\ \/ /\ l = 0 /\ Establish(0, c, f) /\ status' = Append(status, "Connected")
        /\ UNCHANGED queue
     \/ /\ l # 0 /\ Post(l, [op |-> "establish", conn |-> c])
        /\ status' = Append(status, "Disconnected")
        /\ UNCHANGED <<pollVars, callbacks, held>>

\* What accepting does, whichever loop the connection goes to.
LEMMA AcceptEffect ==
  ASSUME IInv, Accept
  PROVE  \E c, f, l : Accepted(c, f, l)
<1>0. PICK c, l : c = nextConnId /\ l = NextLoop
  OBVIOUS
<1>1. PICK f \in Fds \ OpenFds :
        /\ fd' = Append(fd, f)
        /\ \/ /\ l = 0 /\ Establish(0, c, f) /\ status' = Append(status, "Connected")
              /\ UNCHANGED queue
           \/ /\ l # 0 /\ Post(l, [op |-> "establish", conn |-> c])
              /\ status' = Append(status, "Disconnected")
              /\ UNCHANGED <<pollVars, callbacks, held>>
  BY <1>0 DEF Accept, Lowest
<1>2. /\ pc[0] = "events" /\ handling[0] = None /\ Listen \in active[0]
      /\ active' = [active EXCEPT ![0] = @ \ {Listen}]
      /\ loopOf' = Append(loopOf, l) /\ connections' = connections \union {c}
      /\ nextConnId' = c + 1 /\ Advance
      /\ UNCHANGED <<threads, userVars, pc, batch, pos, handling, peerClosed, late,
                     fault>>
  BY <1>0 DEF Accept, Accepts
<1>3. /\ threads \in Nat /\ count \in Nat /\ (count = 0 \/ count < threads)
      /\ c \in Nat \ {0} /\ MaxConns \in Nat /\ 0 \in Loops
  BY <1>0, ServerAssumption, CreatedIds DEF IInv, Types
<1>4. c <= MaxConns
  BY <1>0, <1>2, <1>3 DEF IInv, Iteration
<1>5. c \in Conns /\ c \notin Created /\ c # None
  BY <1>0, <1>4, NextIsNew
<1>6. Created' = Created \union {c} /\ Loops' = Loops
  BY <1>0, <1>2, <1>3 DEF Created, Loops
<1>7. l \in Loops
  BY <1>0, <1>3 DEF NextLoop, Loops
<1>8. count' \in Nat /\ (count' = 0 \/ count' < threads)
  BY <1>2, <1>3 DEF Advance
<1>9. /\ Functors \subseteq Functors'
      /\ [op |-> "establish", conn |-> c] \in Functors'
  BY <1>6 DEF Functors
<1>10. /\ Created = 1..(c - 1) /\ Created' = 1..c
       /\ fd \in [Created -> Fds] /\ loopOf \in [Created -> Loops]
  BY <1>0, <1>2, <1>3 DEF Created, IInv, Types
<1>11. /\ fd' \in [Created' -> Fds] /\ fd'[c] = f
       /\ \A d \in Created : fd'[d] = fd[d]
  <2>1. c \in Nat \ {0} /\ fd \in [Created -> Fds] /\ f \in Fds
    BY <1>1, <1>3, <1>10
  <2>2. Append(fd, f) \in [1..c -> Fds]
    BY <1>10, <2>1, AppendFunction, Zenon
  <2>3. Append(fd, f)[c] = f
    BY <1>10, <2>1, AppendFunction
  <2>4. \A d \in Created : Append(fd, f)[d] = fd[d]
    BY <1>10, <2>1, AppendFunction
  <2> QED BY <1>1, <1>10, <2>2, <2>3, <2>4
<1>12. /\ loopOf' \in [Created' -> Loops] /\ loopOf'[c] = l
       /\ \A d \in Created : loopOf'[d] = loopOf[d]
  <2>1. c \in Nat \ {0} /\ loopOf \in [Created -> Loops] /\ l \in Loops
    BY <1>3, <1>7, <1>10
  <2>2. Append(loopOf, l) \in [1..c -> Loops]
    BY <1>10, <2>1, AppendFunction, Zenon
  <2>3. Append(loopOf, l)[c] = l
    BY <1>10, <2>1, AppendFunction
  <2>4. \A d \in Created : Append(loopOf, l)[d] = loopOf[d]
    BY <1>10, <2>1, AppendFunction
  <2> QED BY <1>2, <1>10, <2>2, <2>3, <2>4
<1> QED
  BY <1>0, <1>1, <1>2, <1>5, <1>6, <1>7, <1>8, <1>9, <1>11, <1>12 DEF Accepted

\* A connection is accepted, for the main loop or for an io loop.
LEMMA AcceptStep ==
  ASSUME IInv, Accept
  PROVE  IInv'
<1> USE DEF Accepted
<1>1. PICK c, f, l : Accepted(c, f, l)
  BY AcceptEffect
<1> DEFINE e == [op |-> "establish", conn |-> c]
<1>t. /\ fdMap \in [Loops -> [Fds -> Created \union {None}]]
      /\ epoll \in [Loops -> SUBSET Created]
      /\ active \in [Loops -> SUBSET (Created \union {Listen})]
      /\ callbacks \in [Conns -> Seq({"up", "down"})]
      /\ fd \in [Created -> Fds] /\ loopOf \in [Created -> Loops]
      /\ status \in [Created -> {"Connected", "Disconnecting", "Disconnected"}]
      /\ queue \in [Loops -> Seq(Functors)] /\ batch \in [Loops -> Seq(Functors)]
      /\ handling \in [Loops -> Created \union {None}]
      /\ held \subseteq Created /\ connections \subseteq Created
      /\ 0 \in Loops /\ Created \subseteq Conns
      /\ threads \in ThreadCounts
      /\ pc \in [Loops -> {"poll", "events", "run"}]
      /\ peerClosed \subseteq Created /\ pos \in [Loops -> Nat]
      /\ sender \in [Conns -> {"idle", "tested", "posted"}]
      /\ shutting \subseteq Created /\ late \subseteq Created
      /\ fault \subseteq [loop : Loops, fd : Fds]
  BY CreatedIds DEF IInv, Types
<1>2. /\ \A k \in Loops : \A g \in Pending(k) : g.conn # c
      /\ callbacks[c] = <<>> /\ ~Alive(c)
      /\ c \in 1..MaxConns /\ MaxConns \in Nat
  BY <1>1, NextIsNew, ServerAssumption DEF Conns
<1>3. /\ l = 0 => fdMap[0][f] = None
      /\ \A d \in Created : Alive(d) => fd[d] # f
      /\ f \in Fds
  BY <1>1, NextFdIsFree DEF Establish
<1>4. /\ status' \in [Created' -> {"Connected", "Disconnecting", "Disconnected"}]
      /\ status'[c] = IF l = 0 THEN "Connected" ELSE "Disconnected"
      /\ \A d \in Created : status'[d] = status[d]
  <2>1. c \in Nat \ {0} /\ Created = 1..(c - 1) /\ Created' = 1..c
    BY <1>1, <1>2 DEF Created
  <2>2. status \in [Created -> {"Connected", "Disconnecting", "Disconnected"}]
    BY <1>t
  <2>3. ASSUME NEW v \in {"Connected", "Disconnecting", "Disconnected"}
        PROVE  /\ Append(status, v)
                    \in [1..c -> {"Connected", "Disconnecting", "Disconnected"}]
               /\ Append(status, v)[c] = v
               /\ \A d \in Created : Append(status, v)[d] = status[d]
    <3> DEFINE S == {"Connected", "Disconnecting", "Disconnected"}
    <3>1. status \in [Created -> S] /\ v \in S
      BY <2>2
    <3> HIDE DEF S
    <3>2. Append(status, v) \in [1..c -> S]
      BY <2>1, <3>1, AppendFunction, Zenon
    <3>3. Append(status, v)[c] = v
      BY <2>1, <3>1, AppendFunction
    <3>4. \A d \in Created : Append(status, v)[d] = status[d]
      BY <2>1, <3>1, AppendFunction
    <3> QED BY <2>1, <3>2, <3>3, <3>4 DEF S
  <2>4. CASE l = 0
    <3>1. status' = Append(status, "Connected")
      BY <1>1, <2>4
    <3> QED BY <2>1, <2>3, <2>4, <3>1
  <2>5. CASE l # 0
    <3>1. status' = Append(status, "Disconnected")
      BY <1>1, <2>5
    <3> QED BY <2>1, <2>3, <2>5, <3>1
  <2> QED BY <2>4, <2>5
<1>5. /\ \A k \in Loops, h \in Fds :
           \/ fdMap'[k][h] = fdMap[k][h]
           \/ k = l /\ h = f /\ fdMap'[k][h] = c /\ callbacks'[c] = OnlyUp
      /\ fdMap' \in [Loops -> [Fds -> Created' \union {None}]]
      /\ epoll' \in [Loops -> SUBSET Created']
      /\ callbacks' \in [Conns -> Seq({"up", "down"})]
      /\ \A k \in Loops : epoll[k] \subseteq epoll'[k]
      /\ \A k \in Loops : \A d \in epoll'[k] :
           \/ d \in epoll[k]
           \/ /\ d = c /\ k = l /\ l = 0 /\ callbacks'[c] = OnlyUp
              /\ fdMap'[l][f] = c
      /\ \A d \in Conns : d # c => callbacks'[d] = callbacks[d]
      /\ callbacks'[c] = IF l = 0 THEN OnlyUp ELSE <<>>
      /\ l = 0 => fdMap'[0][f] = c
      /\ held' \subseteq held \union {c}
  <2>1. CASE l = 0
    <3>1. Establish(0, c, f)
      BY <1>1, <2>1
    <3>2. /\ fdMap' = [fdMap EXCEPT ![0][f] = c]
          /\ epoll' = [epoll EXCEPT ![0] = @ \union {c}]
          /\ callbacks' = [callbacks EXCEPT ![c] = Append(@, "up")]
          /\ held' \in {held \union {c}, held \ {c}}
      BY <3>1 DEF Establish, AddChannel, ConnCallback, UserKeepsOrDrops
    <3>3. callbacks' = [callbacks EXCEPT ![c] = OnlyUp]
      BY <1>1, <1>2, <1>t, <3>2, CallbackValues
    <3>4. callbacks' \in [Conns -> Seq({"up", "down"})]
      <4>1. OnlyUp \in Seq({"up", "down"})
        BY DEF OnlyUp
      <4> QED BY <1>1, <1>t, <3>3, <4>1, Zenon
    <3>5. /\ callbacks'[c] = OnlyUp
          /\ \A d \in Conns : d # c => callbacks'[d] = callbacks[d]
      BY <1>1, <1>t, <3>3
    <3>6. /\ fdMap' \in [Loops -> [Fds -> Created' \union {None}]]
          /\ fdMap'[0][f] = c
          /\ \A k \in Loops, h \in Fds :
               fdMap'[k][h] = fdMap[k][h] \/ (k = l /\ h = f /\ fdMap'[k][h] = c)
      BY <1>1, <1>3, <1>t, <2>1, <3>2
    <3>7. /\ epoll' \in [Loops -> SUBSET Created']
          /\ \A k \in Loops : epoll[k] \subseteq epoll'[k]
          /\ \A k \in Loops : \A d \in epoll'[k] :
               d \in epoll[k] \/ (d = c /\ k = l)
      BY <1>1, <1>t, <2>1, <3>2
    <3> QED BY <2>1, <3>2, <3>4, <3>5, <3>6, <3>7
  <2>2. CASE l # 0
    <3>1. fdMap' = fdMap /\ epoll' = epoll /\ callbacks' = callbacks /\ held' = held
      BY <1>1, <2>2
    <3>2. /\ fdMap' \in [Loops -> [Fds -> Created' \union {None}]]
          /\ epoll' \in [Loops -> SUBSET Created']
      <4>1. Created \subseteq Created'
        BY <1>1
      <4>2. fdMap' \in [Loops -> [Fds -> Created' \union {None}]]
        BY <1>t, <3>1, <4>1
      <4>3. epoll' \in [Loops -> SUBSET Created']
        BY <1>t, <3>1, <4>1
      <4> QED BY <4>2, <4>3
    <3> QED BY <1>2, <1>t, <2>2, <3>1, <3>2
  <2> QED BY <2>1, <2>2
<1>6. /\ queue' \in [Loops -> Seq(Functors')] /\ batch' \in [Loops -> Seq(Functors')]
      /\ \A k \in Loops : NoRepeat(Rest(k))'
      /\ \A k \in Loops : Pending(k) \subseteq Pending(k)'
      /\ \A k \in Loops : \A g \in Pending(k)' :
           g \in Pending(k) \/ (g = e /\ k = l /\ l # 0)
      /\ \A k \in Loops, d \in Created : Refers(queue'[k], d) => Refers(queue[k], d)
  <2>1. batch' \in [Loops -> Seq(Functors')]
    BY <1>1, <1>t, SeqMonotonic
  <2>2. CASE l = 0
    <3>1. queue' = queue
      BY <1>1, <2>2
    <3>2. queue' \in [Loops -> Seq(Functors')]
      BY <1>1, <1>t, <3>1, SeqMonotonic
    <3>3. \A k \in Loops : Rest(k)' = Rest(k) /\ Pending(k)' = Pending(k)
      BY <1>1, <3>1 DEF Rest, Pending
    <3>4. \A k \in Loops : NoRepeat(Rest(k))'
      BY <3>3 DEF IInv, FunctorsFind
    <3> QED BY <2>1, <3>1, <3>2, <3>3, <3>4
  <2>3. CASE l # 0
    <3>1. Post(l, e)
      BY <1>1, <2>3
    <3>2. /\ Pending(l)' = Pending(l) \union {e}
          /\ NoRepeat(Rest(l)) /\ e \notin Pending(l) => NoRepeat(Rest(l))'
      BY <1>1, <3>1, RestPost DEF IInv
    <3>3. e \notin Pending(l) /\ \A k \in Loops : NoRepeat(Rest(k))
      BY <1>1, <1>2 DEF IInv, FunctorsFind
    <3>4. queue' = [queue EXCEPT ![l] = Append(@, e)]
      BY <3>1 DEF Post
    <3>5. \A k \in Loops : k # l => queue'[k] = queue[k]
      BY <1>t, <3>4
    <3>6. \A k \in Loops : k # l => Rest(k)' = Rest(k) /\ Pending(k)' = Pending(k)
      BY <1>1, <3>5 DEF Rest, Pending
    <3>7. queue' \in [Loops -> Seq(Functors')]
      <4>1. queue \in [Loops -> Seq(Functors')] /\ e \in Functors'
        BY <1>1, <1>t, SeqMonotonic
      <4>2. Append(queue[l], e) \in Seq(Functors')
        BY <1>1, <4>1
      <4> HIDE DEF e
      <4> QED BY <1>1, <3>4, <4>1, <4>2
    <3>8. \A d \in Created : Refers(queue'[l], d) => Refers(queue[l], d)
      <4>1. queue[l] \in Seq(Functors) /\ queue'[l] = Append(queue[l], e)
        BY <1>1, <1>t, <3>4
      <4>2. \A i \in DOMAIN queue'[l] :
              \/ i \in DOMAIN queue[l] /\ queue'[l][i] = queue[l][i]
              \/ queue'[l][i] = e
        <5> DEFINE q == queue[l]
        <5>1. q \in Seq(Functors) /\ queue'[l] = Append(q, e)
          BY <4>1
        <5> HIDE DEF e, q
        <5>2. /\ DOMAIN q = 1..Len(q) /\ Len(q) \in Nat
              /\ DOMAIN Append(q, e) = 1..(Len(q) + 1)
              /\ \A i \in 1..Len(q) : Append(q, e)[i] = q[i]
              /\ Append(q, e)[Len(q) + 1] = e
          BY <5>1
        <5> QED BY <5>1, <5>2 DEF q
      <4>3. \A d \in Created : e.conn # d
        BY <1>1
      <4> HIDE DEF e
      <4> QED BY <4>2, <4>3 DEF Refers
    <3> QED BY <2>1, <2>3, <3>2, <3>3, <3>5, <3>6, <3>7, <3>8
  <2> QED BY <2>2, <2>3
<1>7. Types'
  <2>1. nextConnId' \in 1..(MaxConns + 1)
    BY <1>1, <1>2
  <2>2. /\ active' \in [Loops -> SUBSET (Created' \union {Listen})]
        /\ handling' \in [Loops -> Created' \union {None}]
        /\ held' \subseteq Created' /\ connections' \subseteq Created'
        /\ peerClosed' \subseteq Created'
    BY <1>1, <1>5, <1>t
  <2> QED BY <1>1, <1>4, <1>5, <1>6, <1>t, <2>1, <2>2 DEF Types
<1>8. Iteration'
  <2>1. \A k \in Loops : active'[k] \subseteq active[k] /\ Listen \notin active'[0]
    BY <1>1, <1>t
  <2>2. \A k \in Loops : active'[k] \ {Listen} \subseteq epoll'[k]
    BY <1>5, <2>1 DEF IInv, Iteration
  <2> QED BY <1>1, <2>1, <2>2 DEF IInv, Iteration
<1>9. \A k \in Loops, d \in Created :
        fdMap[k][fd[d]] = d => fdMap'[k][fd[d]] = d
  <2> SUFFICES ASSUME NEW k \in Loops, NEW d \in Created, fdMap[k][fd[d]] = d
               PROVE  fdMap'[k][fd[d]] = d
    OBVIOUS
  <2>1. d # None /\ d # c /\ fd[d] \in Fds
    BY <1>1, <1>t, CreatedIds DEF IInv
  <2>2. CASE l = 0
    <3>1. ~(k = 0 /\ fd[d] = f)
      BY <1>3, <2>1, <2>2
    <3> QED BY <1>5, <2>1, <2>2, <3>1
  <2>3. CASE l # 0
    BY <1>1, <2>3
  <2> QED BY <2>2, <2>3
<1>10. \A d \in Created :
         /\ d # c /\ callbacks'[d] = callbacks[d] /\ fd'[d] = fd[d]
         /\ loopOf'[d] = loopOf[d] /\ loopOf[d] \in Loops /\ status'[d] = status[d]
         /\ d \in connections' <=> d \in connections
  BY <1>1, <1>4, <1>5, <1>t
<1>11. FunctorsFind'
  <2> SUFFICES ASSUME NEW k \in Loops, NEW g \in Pending(k)'
               PROVE  FunctorFinds(k, g)'
    BY <1>1, <1>6 DEF FunctorsFind
  <2>1. CASE g \in Pending(k)
    <3>1. FunctorFinds(k, g) /\ g.conn \in Created
      BY <2>1, RestType DEF IInv, FunctorsFind, Functors
    <3>2. \A m \in Loops : g.conn \notin epoll[m] => g.conn \notin epoll'[m]
      BY <1>1, <1>5, <3>1
    <3>3. \A m \in {k, loopOf[g.conn]} :
            fdMap[m][fd[g.conn]] = g.conn => fdMap'[m][fd'[g.conn]] = g.conn
      BY <1>9, <1>10, <3>1
    <3>4. sender' = sender /\ late' = late
      BY <1>1
    <3> QED BY <1>10, <3>1, <3>2, <3>3, <3>4 DEF FunctorFinds
  <2>2. CASE g = e /\ k = l /\ l # 0
    <3>1. g.op = "establish" /\ g.conn = c
      BY <2>2
    <3> HIDE DEF e
    <3> QED BY <1>1, <1>5, <2>2, <3>1 DEF FunctorFinds
  <2> QED BY <1>6, <2>1, <2>2
<1>12. Entries'
  <2> SUFFICES ASSUME NEW k \in Loops, NEW h \in Fds, NEW d,
                      fdMap'[k][h] = d, d # None
               PROVE  EntryIsOf(k, h, d)'
    BY <1>1 DEF Entries, EntryIsOf
  <2>1. CASE k = l /\ h = f /\ d = c /\ callbacks'[c] = OnlyUp
    <3>1. callbacks'[c] # <<>>
      BY <2>1, CallbackValues
    <3> QED BY <1>1, <2>1, <3>1 DEF EntryIsOf
  <2>2. CASE fdMap[k][h] = d
    <3>1. EntryIsOf(k, h, d) /\ d \in Created
      BY <1>t, <2>2 DEF IInv, Entries
    <3> QED BY <1>1, <1>6, <1>10, <3>1 DEF EntryIsOf
  <2> QED BY <1>5, <2>1, <2>2
<1>13. Watched'
  <2> SUFFICES ASSUME NEW k \in Loops, NEW d \in epoll'[k]
               PROVE  IsWatched(k, d)'
    BY <1>1 DEF Watched
  <2>1. CASE d \in epoll[k]
    <3>1. IsWatched(k, d) /\ d \in Created
      BY <1>t, <2>1 DEF IInv, Watched
    <3> QED BY <1>1, <1>9, <1>10, <3>1 DEF IsWatched
  <2>2. CASE /\ d = c /\ k = l /\ l = 0 /\ callbacks'[c] = OnlyUp
             /\ fdMap'[l][f] = c
    BY <1>1, <1>4, <2>2 DEF IsWatched
  <2> QED BY <1>5, <2>1, <2>2
<1>14. \A d \in Created : Alive(d)' => Alive(d)
  BY <1>1, <1>5, <1>6 DEF Alive
<1>15. \A d \in Created :
         fdMap[loopOf[d]][fd[d]] = d => fdMap'[loopOf'[d]][fd'[d]] = d
  BY <1>9, <1>10
<1>16. Lives'
  <2>1. \A d \in Created' : d = c \/ d \in Created
    BY <1>1
  <2>2. ASSUME NEW d \in Created', NEW g \in Created',
               Alive(d)', Alive(g)', fd'[d] = fd'[g]
        PROVE  d = g
    BY <1>1, <1>3, <1>10, <1>14, <2>1, <2>2 DEF IInv, Lives
  <2>3. ASSUME NEW d \in Created' \ late
        PROVE  /\ callbacks'[d] \in {<<>>, OnlyUp, UpDown}
               /\ callbacks'[d] # UpDown => d \in connections'
               /\ status'[d] = "Connected" => callbacks'[d] = OnlyUp
    <3>1. CASE d = c
      BY <1>1, <1>4, <1>5, <3>1
    <3>2. CASE d \in Created
      BY <1>10, <2>3, <3>2 DEF IInv, Lives
    <3> QED BY <2>1, <3>1, <3>2
  <2>4. ASSUME NEW d \in connections', callbacks'[d] # <<>>
        PROVE  fdMap'[loopOf'[d]][fd'[d]] = d
    <3>1. CASE d = c
      BY <1>1, <1>5, <2>4, <3>1
    <3>2. CASE d # c
      BY <1>1, <1>10, <1>15, <1>t, <2>4, <3>2 DEF IInv, Lives
    <3> QED BY <3>1, <3>2
  <2>5. \A d \in Conns \ Created' : callbacks'[d] = <<>>
    BY <1>1, <1>5, <2>1 DEF IInv, Lives
  <2> QED BY <1>1, <2>2, <2>3, <2>4, <2>5 DEF Lives, Conns
<1>17. Lates'
  <2> SUFFICES ASSUME NEW d \in late
               PROVE  /\ d \notin connections' /\ status'[d] # "Connected"
                      /\ fdMap'[loopOf'[d]][fd'[d]] = d
    BY <1>1 DEF Lates
  <2>1. d \in Created
    BY <1>t
  <2> QED BY <1>10, <1>15, <2>1 DEF IInv, Lates
<1>18. Users'
  <2> SUFFICES ASSUME NEW d \in Conns, Busy(d)'
               PROVE  d \in held' /\ (d \in late \/ callbacks'[d] # <<>>)
    BY <1>1 DEF Users, Conns
  <2>1. Busy(d)
    BY <1>1 DEF Busy
  <2>2. d \in held /\ d # c /\ (d \in late \/ callbacks[d] # <<>>)
    BY <1>1, <1>t, <2>1 DEF IInv, Users
  <2>3. held' = held \/ held' = held \union {c} \/ held' = held \ {c}
    BY <1>1 DEF Establish, ConnCallback, UserKeepsOrDrops
  <2> QED BY <1>5, <2>2, <2>3
<1> QED BY <1>7, <1>8, <1>11, <1>12, <1>13, <1>16, <1>17, <1>18 DEF IInv

-----------------------------------------------------------------------------
(* Where an assert can fail.                                               *)

\* The functor that is called next is pending.
LEMMA NextIsPending ==
  ASSUME IInv, NEW l \in Loops, NEW op, IsNext(l, op)
  PROVE  /\ batch[l][pos[l]] \in Pending(l) /\ batch[l][pos[l]].op = op
         /\ batch[l][pos[l]].conn \in Created
         /\ FunctorFinds(l, batch[l][pos[l]])
<1> DEFINE b == batch[l]
           p == pos[l]
           q == queue[l]
           r == SubSeq(b, p, Len(b)) \o q
<1>1. b \in Seq(Functors) /\ q \in Seq(Functors)
  BY RestType DEF IInv
<1>2. p \in 1..(Len(b) + 1) /\ p <= Len(b) /\ b[p].op = op
  BY DEF IInv, Iteration, IsNext
<1>3. Rest(l) = r
  BY DEF Rest
<1> HIDE DEF b, p, q
<1>4. p \in 1..Len(b)
  BY <1>1, <1>2
<1>5. r \in Seq(Functors) /\ r # <<>> /\ Head(r) = b[p]
  BY <1>1, <1>4, RestOfBatch
<1> HIDE DEF r
<1>6. 1 \in DOMAIN r /\ r[1] = b[p]
  BY <1>5
<1>7. b[p] \in Pending(l)
  BY <1>3, <1>6 DEF Pending, Elements
<1> QED BY <1>2, <1>7, RestType DEF IInv, FunctorsFind, Functors, b, p

\* An assert fails only for a connection that was put back or for one that has
\* its descriptor on its loop.
LEMMA FailingPlace ==
  ASSUME IInv, NEW l \in Loops, NEW c \in Failing(l)
  PROVE  \E d \in late : fd[d] = fd[c] /\ loopOf[d] = loopOf[c]
<1> DEFINE f == batch[l][pos[l]]
<1>t. /\ fd \in [Created -> Fds] /\ epoll \in [Loops -> SUBSET Created]
      /\ fdMap \in [Loops -> [Fds -> Created \union {None}]]
      /\ c \in Created /\ Listen \notin Created /\ None \notin Created
  BY CreatedIds DEF IInv, Types, Failing, Listen, None
<1>e. ASSUME NEW d, d = fdMap[l][fd[c]], d # None, Alive(c), loopOf[c] = l,
             d # c \/ (callbacks[c] = <<>> /\ c \in connections)
      PROVE  \E e \in late : fd[e] = fd[c] /\ loopOf[e] = loopOf[c]
  <2>1. fd[c] \in Fds /\ d \in Created
    BY <1>e, <1>t
  <2>2. EntryIsOf(l, fd[c], d) /\ (Alive(d) \/ d \in late)
    BY <1>e, <2>1, WhoIsAlive DEF IInv, Entries
  <2>3. Alive(d) => d = c
    BY <1>e, <1>t, <2>1, <2>2 DEF IInv, Lives, EntryIsOf
  <2>4. d \in late
    BY <1>e, <2>2, <2>3 DEF EntryIsOf
  <2> QED BY <1>e, <2>2, <2>4 DEF EntryIsOf
<1>1. CASE pc[l] = "poll" /\ c \in Ready(l) \union MayBeReady(l) /\ ~InMap(l, {c})
  <2>1. c \in epoll[l]
    BY <1>1, <1>t DEF Ready, MayBeReady
  <2>2. fdMap[l][fd[c]] = c
    BY <2>1 DEF IInv, Watched, IsWatched
  <2> QED BY <1>1, <2>2 DEF InMap
<1>2. CASE Handles(l, c) /\ ~CanClose(l, c)
  <2>1. c \in epoll[l] /\ (Alive(c) \/ c \in late)
    BY <1>2, WhoIsAlive DEF Handles
  <2>2. IsWatched(l, c)
    BY <2>1 DEF IInv, Watched
  <2>3. c \in late
    BY <1>2, <2>1, <2>2 DEF CanClose, SameChannel, IsWatched
  <2> QED BY <2>3
<1>3. CASE IsNext(l, "establish") /\ c = f.conn /\ fdMap[l][fd[c]] # None
  <2>1. c \in connections /\ callbacks[c] = <<>> /\ loopOf[c] = l
    BY <1>3, NextIsPending DEF FunctorFinds
  <2>2. Alive(c)
    BY <2>1, WhoIsAlive
  <2> QED BY <1>3, <1>e, <2>1, <2>2
<1>4. CASE IsNext(l, "remove") /\ c = f.conn /\ c \notin connections
  BY <1>4, NextIsPending DEF FunctorFinds
<1>5. CASE /\ IsNext(l, "destory") \/ IsNext(l, "send")
           /\ c = f.conn /\ ~SameChannel(l, c)
  <2>1. f \in Pending(l) /\ FunctorFinds(l, f) /\ f.op \in {"destory", "send"}
    BY <1>5, NextIsPending
  <2>2. loopOf[c] = l /\ Alive(c)
    BY <1>5, <2>1, WhoIsAlive DEF FunctorFinds
  <2> QED BY <1>5, <1>e, <2>2 DEF SameChannel
<1> QED BY <1>1, <1>2, <1>3, <1>4, <1>5 DEF Failing

\* The process ends only where a late send has left its mark.
LEMMA AbortPlace ==
  ASSUME IInv, NEW l \in Loops, Abort(l)
  PROVE  /\ fault' \subseteq [loop : Loops, fd : Fds]
         /\ OnlyLateSendsAreFatal'
<1>1. PICK x \in Failures(l) : fault' = {x}
  BY DEF Abort
<1>2. fd' = fd /\ loopOf' = loopOf /\ late' = late
  BY DEF Abort
<1>3. CASE x \in {[loop |-> loopOf[c], fd |-> fd[c]] : c \in Failing(l)}
  <2>1. PICK c \in Failing(l) : x = [loop |-> loopOf[c], fd |-> fd[c]]
    BY <1>3
  <2>2. x.loop = loopOf[c] /\ x.fd = fd[c] /\ c \in Created
    BY <2>1 DEF Failing
  <2>3. x \in [loop : Loops, fd : Fds]
    BY <2>1, <2>2 DEF IInv, Types
  <2>4. PICK d \in late : fd[d] = fd[c] /\ loopOf[d] = loopOf[c]
    BY FailingPlace
  <2> QED BY <1>1, <1>2, <2>2, <2>3, <2>4 DEF OnlyLateSendsAreFatal
<1>4. CASE x \in {[loop |-> 0, fd |-> h] : h \in AcceptFailing(l)}
  <2>1. PICK h \in AcceptFailing(l) : x = [loop |-> 0, fd |-> h]
    BY <1>4
  <2>2. h \in Fds \ OpenFds /\ fdMap[0][h] # None /\ l = 0
    BY DEF AcceptFailing, Lowest
  <2>3. /\ fdMap[0][h] \in late /\ fd[fdMap[0][h]] = h
        /\ loopOf[fdMap[0][h]] = 0
    BY <2>2, NextFdIsFree
  <2>4. x.loop = 0 /\ x.fd = h /\ x \in [loop : Loops, fd : Fds]
    BY <2>1, <2>2
  <2> QED BY <1>1, <1>2, <2>3, <2>4 DEF OnlyLateSendsAreFatal
<1> QED BY <1>3, <1>4 DEF Failures

-----------------------------------------------------------------------------
(* The invariant.                                                          *)

\* Nothing has been accepted yet.
LEMMA InitInv == Init => IInv
<1> SUFFICES ASSUME Init PROVE IInv
  OBVIOUS
<1>1. /\ threads \in ThreadCounts /\ threads \in Nat /\ MaxConns \in Nat
      /\ count = 0 /\ nextConnId = 1 /\ connections = {} /\ held = {}
      /\ fd = <<>> /\ loopOf = <<>> /\ status = <<>>
      /\ fdMap = [l \in Loops |-> [f \in Fds |-> None]]
      /\ epoll = [l \in Loops |-> {}] /\ active = [l \in Loops |-> {}]
      /\ handling = [l \in Loops |-> None]
      /\ queue = [l \in Loops |-> <<>>] /\ batch = [l \in Loops |-> <<>>]
      /\ pos = [l \in Loops |-> 1] /\ pc = [l \in Loops |-> "poll"]
      /\ peerClosed = {} /\ callbacks = [c \in Conns |-> <<>>] /\ fault = {}
      /\ sender = [c \in Conns |-> "idle"] /\ shutting = {} /\ late = {}
  BY ServerAssumption DEF Init
<1>2. Created = {}
  BY <1>1 DEF Created
<1>3. \A S : <<>> \in [{} -> S] /\ <<>> \in Seq(S)
  OBVIOUS
<1>4. Types
  BY <1>1, <1>2, <1>3 DEF Types
<1>5. Iteration
  BY <1>1, <1>2 DEF Iteration
<1>6. \A l \in Loops : Rest(l) = <<>> /\ Pending(l) = {}
  BY <1>1 DEF Rest, Pending, Elements
<1>7. FunctorsFind
  BY <1>6 DEF FunctorsFind, NoRepeat
<1>8. Entries /\ Watched /\ Lives /\ Lates /\ Users
  BY <1>1, <1>2 DEF Entries, Watched, Lives, Lates, Users, Busy
<1> QED BY <1>4, <1>5, <1>7, <1>8 DEF IInv

\* Every step keeps the invariant; the process goes on until an assert fails.
LEMMA Invariance == Spec => [](IInv /\ OnlyLateSendsAreFatal)
<1>1. Init => OnlyLateSendsAreFatal
  BY DEF Init, OnlyLateSendsAreFatal
<1>2. IInv /\ OnlyLateSendsAreFatal /\ [Next]_vars
        => IInv' /\ OnlyLateSendsAreFatal'
  <2> SUFFICES ASSUME IInv, OnlyLateSendsAreFatal, [Next]_vars
               PROVE  IInv' /\ OnlyLateSendsAreFatal'
    OBVIOUS
  <2>1. 0 \in Loops
    BY CreatedIds DEF IInv
  <2>2. ASSUME fault = {}, fault' = fault PROVE OnlyLateSendsAreFatal'
    BY <2>2 DEF OnlyLateSendsAreFatal
  <2>3. ASSUME NEW l \in Loops, LoopStep(l)
        PROVE  IInv' /\ OnlyLateSendsAreFatal'
    <3>1. CASE Abort(l)
      BY <3>1, AbortPlace, OtherQuietSteps
    <3>2. CASE ~Abort(l)
      <4>1. IInv'
        BY <2>1, <2>3, <3>2, PollStep, EndEventStep, SwapStep, EndBatchStep,
           RunEstablishStep, RunRemoveStep, RunDestoryStep, RunSendStep,
           HandleCloseStep, AcceptStep, OtherQuietSteps DEF LoopStep
      <4>2. fault = {} /\ fault' = fault
        BY <2>3, <3>2
           DEF LoopStep, Poll, EndEvent, Swap, EndBatch, RunEstablish, RunRemove,
               RunDestory, RunSend, HandleClose, BufferIntoNet, Accept,
               AcceptFails
      <4> QED BY <2>2, <4>1, <4>2
    <3> QED BY <3>1, <3>2
  <2>4. ASSUME NEW c \in Created,
               \/ UserEnds(c)
               \/ fault = {} /\ (SendTest(c) \/ ShutdownTest(c) \/ PeerClose(c))
        PROVE  IInv' /\ OnlyLateSendsAreFatal'
    <3>1. IInv'
      BY <2>4, UserSteps, SendPostStep, OtherQuietSteps DEF UserEnds
    <3>2. fault = {} /\ fault' = fault
      BY <2>4 DEF UserEnds, SendTest, SendPost, ShutdownTest, ShutdownMark,
                  Release, PeerClose
    <3> QED BY <2>2, <3>1, <3>2
  <2>5. ASSUME UNCHANGED vars PROVE IInv' /\ OnlyLateSendsAreFatal'
    BY <2>5, OtherQuietSteps DEF vars, OnlyLateSendsAreFatal
  <2> QED BY <2>3, <2>4, <2>5 DEF Next
<1> QED BY <1>1, <1>2, InitInv, PTL DEF Spec

\* No assert of Poller, Channel and TcpServer fails, and no connection is closed
\* twice (handleClose is fatal for one that is Disconnected), except on a
\* descriptor that a late send has put back into the poller of that very loop.
THEOREM OnlyLateSendsAreFatalHolds == Spec => []OnlyLateSendsAreFatal
BY Invariance, PTL

\* A raw Channel* that a map or the list of active channels holds outlives its
\* connection only if a late send has put it back, and none stands under another
\* connection's descriptor or on another loop.
THEOREM UsedIsAliveHolds == Spec => []UsedIsAlive
<1>1. IInv => UsedIsAlive
  <2> SUFFICES ASSUME IInv PROVE UsedIsAlive
    OBVIOUS
  <2>1. ASSUME NEW l \in Loops, NEW f \in Fds, fdMap[l][f] # None
        PROVE  /\ Alive(fdMap[l][f]) \/ fdMap[l][f] \in late
               /\ fd[fdMap[l][f]] = f /\ loopOf[fdMap[l][f]] = l
    BY <2>1, WhoIsAlive DEF IInv, Entries, EntryIsOf
  <2>2. \A l \in Loops : handling[l] # None => Alive(handling[l])
    BY DEF Alive
  <2>3. ASSUME NEW l \in Loops, NEW c \in active[l] \ {Listen}
        PROVE  (Alive(c) \/ c \in late) /\ loopOf[c] = l
    BY WhoIsAlive DEF IInv, Watched, IsWatched
  <2> QED BY <2>1, <2>2, <2>3 DEF UsedIsAlive
<1> QED BY <1>1, Invariance, PTL

\* Every variable has its type, a loop blocked in poll holds nothing of an
\* earlier iteration, and every functor is in the queue of the loop it is for.
THEOREM TypeCorrect == Spec => []TypeOK
<1>1. IInv => TypeOK
  <2> SUFFICES ASSUME IInv PROVE TypeOK
    OBVIOUS
  <2>3. ASSUME NEW l \in Loops
        PROVE  /\ queue[l] \in Seq(Functors) /\ batch[l] \in Seq(Functors)
               /\ pos[l] \in 1..(Len(batch[l]) + 1)
               /\ pc[l] = "poll" => batch[l] = <<>>
               /\ pc[l] # "events" => active[l] = {} /\ handling[l] = None
    BY <2>3, RestType DEF IInv, Iteration
  <2>4. ASSUME NEW l \in Loops, NEW i \in DOMAIN queue[l]
        PROVE  IF queue[l][i].op = "remove" THEN l = 0
                                            ELSE loopOf[queue[l][i].conn] = l
    <3>1. queue[l][i] \in Pending(l)
      BY PendingRefers DEF IInv
    <3>2. FunctorFinds(l, queue[l][i])
      BY <3>1 DEF IInv, FunctorsFind
    <3>3. queue[l][i].op \in {"establish", "remove", "destory", "send"}
      BY <3>1, RestType DEF IInv, Functors
    <3> QED BY <3>2, <3>3 DEF FunctorFinds
  <2> QED BY <2>3, <2>4 DEF TypeOK, IInv, Types
<1> QED BY <1>1, Invariance, PTL

-----------------------------------------------------------------------------
(* The refinement.                                                         *)

\* The phase that the refinement mapping gives a connection that was accepted.
LEMMA PhaseValues ==
  ASSUME IInv, NEW c \in Created
  PROVE  /\ ~Alive(c) => Phase(c) = "gone"
         /\ Alive(c) /\ c \in late => Phase(c) = "back"
         /\ Alive(c) /\ c \notin late =>
              /\ callbacks[c] = <<>> => Phase(c) = "accepted"
              /\ callbacks[c] = OnlyUp => Phase(c) = "up"
              /\ callbacks[c] = UpDown => Phase(c) = "down"
BY CallbackValues DEF Phase, OnlyUp, UpDown

\* Steps that accept and report nothing of a connection that was not put back:
\* connections may go away, and only those whose close was reported or that
\* were put back do, or nothing shows.
LEMMA GoneStep ==
  ASSUME IInv, IInv', NoneRevived, UNCHANGED <<nextConnId, fd, late>>,
         \A c \in Conns : c \in late \/ callbacks'[c] = callbacks[c]
  PROVE  [Life!Next]_Life!vars
<1> DEFINE P == [c \in Conns |-> Phase(c)]
           S == {c \in Created : Alive(c) /\ ~Alive(c)'}
<1>1. Created' = Created /\ Created \subseteq Conns
  BY CreatedIds DEF Created, IInv
<1>2. \A c \in Conns \ S : Phase(c)' = Phase(c)
  BY <1>1 DEF Phase, NoneRevived
<1>3. ASSUME NEW c \in S
      PROVE  Phase(c) \in {"down", "back"} /\ Phase(c)' = "gone"
  <2>1. c \in Created /\ Alive(c) /\ ~Alive(c)'
    OBVIOUS
  <2>2. c \notin connections'
    BY <2>1 DEF Alive
  <2>3. c \in late \/ callbacks[c] = UpDown
    BY <1>1, <2>1, <2>2 DEF IInv, Lives
  <2> QED BY <1>1, <2>1, <2>3, PhaseValues DEF Phase
<1>4. P' = [c \in Conns |-> IF c \in S THEN "gone" ELSE P[c]]
  BY <1>2, <1>3
<1>5. \A c \in S : P[c] \in {"down", "back"}
  BY <1>1, <1>3
<1>6. S \subseteq Conns
  BY <1>1
<1>7. CASE S = {}
  BY <1>2, <1>7 DEF Life!vars
<1>8. CASE S # {}
  <2>1. Life!Gone(S)
    BY <1>4, <1>5 DEF Life!Gone
  <2> HIDE DEF S
  <2> QED BY <1>6, <1>8, <2>1 DEF Life!Next
<1> QED BY <1>7, <1>8

\* Steps that change the phase of one connection.
LEMMA OneMoves ==
  ASSUME NEW c \in Conns, NEW from, NEW to,
         Phase(c) = from, Phase(c)' = to,
         \A d \in Conns : d # c => Phase(d)' = Phase(d)
  PROVE  Life!Move(c, from, to)
<1> DEFINE P == [d \in Conns |-> Phase(d)]
<1>1. P[c] = from /\ P' = [P EXCEPT ![c] = to]
  OBVIOUS
<1> QED BY <1>1 DEF Life!Move

\* A late send puts a connection back that is down, or nothing shows.
LEMMA SendShows ==
  ASSUME IInv, IInv', NEW l \in Loops, RunSend(l)
  PROVE  [Life!Next]_Life!vars
<1>1. UNCHANGED <<threads, nextConnId, connections, fd, held, batch, handling,
                  queue, callbacks>>
  BY DEF RunSend
<1>2. Created' = Created /\ Loops' = Loops /\ Created \subseteq Conns
  BY <1>1, CreatedIds DEF Created, Loops, IInv
<1>3. \A d \in Created : Alive(d)' = Alive(d)
  BY <1>1, <1>2 DEF Alive, Refers
<1>4. CASE late' = late
  BY <1>1, <1>2, <1>3, <1>4, GoneStep DEF NoneRevived
<1>5. ASSUME NEW c \in Created \ late, late' = late \union {c},
             callbacks[c] = UpDown, Alive(c)
      PROVE  Life!Next
  <2>1. \A d \in Conns : d # c => Phase(d)' = Phase(d)
    BY <1>1, <1>2, <1>3, <1>5 DEF Phase
  <2>2. Phase(c) = "down" /\ Phase(c)' = "back"
    BY <1>2, <1>3, <1>5, PhaseValues DEF Phase
  <2>3. Life!Back(c)
    BY <1>1, <1>2, <2>1, <2>2, OneMoves DEF Life!Back
  <2> QED BY <1>2, <2>3 DEF Life!Next
<1> QED BY <1>4, <1>5, RunSendStep

\* A connection that an io loop establishes goes up.
LEMMA EstablishGoesUp ==
  ASSUME IInv, IInv', NEW l \in Loops, RunEstablish(l)
  PROVE  Life!Next
<1>0. PICK c : c = batch[l][pos[l]].conn
  OBVIOUS
<1>1. /\ IsNext(l, "establish")
      /\ callbacks' = [callbacks EXCEPT ![c] = Append(@, "up")]
      /\ held' \in {held \union {c}, held \ {c}}
      /\ UNCHANGED <<threads, nextConnId, connections, fd, loopOf, batch,
                     handling, queue, late>>
  BY <1>0
     DEF RunEstablish, Current, Establish, ConnCallback, UserKeepsOrDrops
<1>2. /\ batch[l][pos[l]].op = "establish" /\ c \in Created
      /\ FunctorFinds(l, batch[l][pos[l]])
  BY <1>0, <1>1, NextIsPending
<1>3. c \in connections /\ callbacks[c] = <<>> /\ c \notin late
  BY <1>0, <1>2 DEF FunctorFinds, IInv, Lates
<1>4. /\ Created' = Created /\ Loops' = Loops /\ Created \subseteq Conns
      /\ callbacks \in [Conns -> Seq({"up", "down"})]
  BY <1>1, CreatedIds DEF Created, Loops, IInv, Types
<1>5. callbacks'[c] = OnlyUp /\ \A d \in Conns : d # c => callbacks'[d] = callbacks[d]
  <2>1. c \in Conns /\ Append(<<>>, "up") = OnlyUp
    BY <1>2, <1>4, CallbackValues
  <2>2. callbacks'[c] = Append(callbacks[c], "up")
    BY <1>1, <1>4, <2>1
  <2>3. \A d \in Conns : d # c => callbacks'[d] = callbacks[d]
    BY <1>1, <1>4
  <2> QED BY <1>3, <2>1, <2>2, <2>3
<1>6. Alive(c) /\ Alive(c)' /\ \A d \in Conns : d # c => Alive(d)' = Alive(d)
  BY <1>1, <1>3, <1>4 DEF Alive
<1>7. \A d \in Conns : d # c => Phase(d)' = Phase(d)
  BY <1>1, <1>4, <1>5, <1>6 DEF Phase
<1>8. Phase(c) = "accepted" /\ Phase(c)' = "up"
  BY <1>1, <1>2, <1>3, <1>4, <1>5, <1>6, PhaseValues, CallbackValues
     DEF Phase, OnlyUp
<1>9. Life!Up(c)
  BY <1>1, <1>2, <1>4, <1>7, <1>8, OneMoves DEF Life!Up
<1> QED BY <1>2, <1>4, <1>9 DEF Life!Next

\* A connection whose peer closed goes down, unless it was put back.
LEMMA CloseGoesDown ==
  ASSUME IInv, IInv', NEW l \in Loops, NEW c \in Created \ late,
         HandleClose(l, c)
  PROVE  Life!Next
<1>1. /\ handling[l] = None /\ c \in active[l] \ {Listen}
      /\ handling' = [handling EXCEPT ![l] = c]
      /\ callbacks' = [callbacks EXCEPT ![c] = Append(@, "down")]
      /\ held' \in {held \union {c}, held \ {c}}
      /\ connections' \in {connections, connections \ {c}}
      /\ UNCHANGED <<threads, nextConnId, fd, loopOf, batch, late>>
  BY DEF HandleClose, Handles, ConnCallback, UserKeepsOrDrops,
         WhenOldConnDisconnect
<1>2. /\ Created' = Created /\ Loops' = Loops /\ Created \subseteq Conns
      /\ callbacks \in [Conns -> Seq({"up", "down"})]
      /\ handling \in [Loops -> Created \union {None}]
      /\ queue \in [Loops -> Seq(Functors)] /\ 0 \in Loops /\ None \notin Created
  BY <1>1, CreatedIds DEF Created, Loops, IInv, Types
<1>3. Alive(c) /\ callbacks[c] = OnlyUp
  BY <1>1, <1>2, WhoIsAlive DEF IInv, Watched, IsWatched
<1>4. callbacks'[c] = UpDown /\ \A d \in Conns : d # c => callbacks'[d] = callbacks[d]
  BY <1>1, <1>2, <1>3, CallbackValues
<1>5. \A k \in Loops, d \in Created : d # c => (Refers(queue[k], d)' <=> Refers(queue[k], d))
  <2> DEFINE g == [op |-> "remove", conn |-> c]
             q == queue[0]
  <2>1. queue' = queue \/ queue' = [queue EXCEPT ![0] = Append(@, g)]
    BY DEF HandleClose, WhenOldConnDisconnect, Post
  <2>2. CASE queue' = queue
    BY <2>2 DEF Refers
  <2>3. CASE queue' = [queue EXCEPT ![0] = Append(@, g)]
    <3>1. q \in Seq(Functors) /\ g.conn = c
      BY <1>2
    <3>2. queue'[0] = Append(q, g) /\ \A k \in Loops : k # 0 => queue'[k] = queue[k]
      BY <1>2, <2>3
    <3> HIDE DEF g, q
    <3>3. /\ DOMAIN q = 1..Len(q) /\ Len(q) \in Nat
          /\ DOMAIN Append(q, g) = 1..(Len(q) + 1)
          /\ \A i \in 1..Len(q) : Append(q, g)[i] = q[i]
          /\ Append(q, g)[Len(q) + 1] = g
      BY <3>1
    <3>4. \A d \in Created : d # c => (Refers(Append(q, g), d) <=> Refers(q, d))
      BY <3>1, <3>3 DEF Refers
    <3>5. ASSUME NEW k \in Loops, NEW d \in Created, d # c
          PROVE  Refers(queue'[k], d) <=> Refers(queue[k], d)
      BY <3>2, <3>4, <3>5 DEF q
    <3> QED BY <3>5 DEF Refers
  <2> QED BY <2>1, <2>2, <2>3
<1>6. Alive(c)'
  BY <1>1, <1>2 DEF Alive
<1>7. ASSUME NEW d \in Created, d # c PROVE Alive(d)' = Alive(d)
  <2>1. \A k \in Loops : handling'[k] = d <=> handling[k] = d
    BY <1>1, <1>2, <1>7
  <2>2. d \in connections' <=> d \in connections
    BY <1>1, <1>7
  <2>3. d \in held' <=> d \in held
    BY <1>1, <1>7
  <2>4. \A k \in Loops : Refers(batch[k], d)' <=> Refers(batch[k], d)
    BY <1>1 DEF Refers
  <2>5. \A k \in Loops : Refers(queue[k], d)' <=> Refers(queue[k], d)
    BY <1>5, <1>7
  <2> QED BY <1>2, <2>1, <2>2, <2>3, <2>4, <2>5 DEF Alive
<1>8. \A d \in Conns : d # c => Phase(d)' = Phase(d)
  BY <1>1, <1>2, <1>4, <1>7 DEF Phase
<1>9. Phase(c) = "up" /\ Phase(c)' = "down"
  BY <1>1, <1>2, <1>3, <1>4, <1>6, PhaseValues, CallbackValues DEF Phase, OnlyUp, UpDown
<1>10. Life!Down(c)
  BY <1>1, <1>2, <1>8, <1>9, OneMoves DEF Life!Down
<1> QED BY <1>2, <1>10 DEF Life!Next

\* One that was put back shows nothing of a second close but that it may go.
LEMMA SecondCloseShows ==
  ASSUME IInv, IInv', NEW l \in Loops, NEW c \in late, HandleClose(l, c)
  PROVE  [Life!Next]_Life!vars
<1>1. /\ callbacks' = [callbacks EXCEPT ![c] = Append(@, "down")]
      /\ UNCHANGED <<nextConnId, fd, late>>
  BY DEF HandleClose, ConnCallback
<1>2. callbacks \in [Conns -> Seq({"up", "down"})] /\ c \in Created
  BY DEF IInv, Types
<1>3. \A d \in Conns : d \in late \/ callbacks'[d] = callbacks[d]
  BY <1>1, <1>2
<1>4. NoneRevived
  BY <1>2, HandleCloseStep
<1> QED BY <1>1, <1>3, <1>4, GoneStep

\* A new connection gets a descriptor that no live one has, and starts out
\* accepted, or up if the main loop establishes it at once.
LEMMA AcceptShows ==
  ASSUME IInv, IInv', Accept
  PROVE  Life!Next
<1>0. PICK c, f, l : Accepted(c, f, l)
  BY AcceptEffect
<1>1. /\ c = nextConnId /\ f \in Fds \ OpenFds /\ l \in Loops
      /\ c \in Conns /\ c \notin Created /\ c # None /\ c \in Created'
      /\ Created' = Created \union {c} /\ Loops' = Loops
      /\ fd' \in [Created' -> Fds] /\ fd'[c] = f /\ \A d \in Created : fd'[d] = fd[d]
      /\ connections' = connections \union {c}
      /\ \/ /\ l = 0 /\ Establish(0, c, f) /\ UNCHANGED queue
         \/ /\ l # 0 /\ Post(l, [op |-> "establish", conn |-> c])
            /\ UNCHANGED <<callbacks, held>>
  BY <1>0 DEF Accepted
<1>u. UNCHANGED <<batch, handling, late>>
  BY <1>0 DEF Accepted
<1>2. /\ \A d \in Created : Alive(d) => fd[d] # f
      /\ callbacks[c] = <<>> /\ f \in Fds
  <2>1. nextConnId <= MaxConns /\ f \in Fds
    BY <1>1, ServerAssumption DEF Conns
  <2>2. \A d \in Created : Alive(d) => fd[d] # f
    BY <1>1, NextFdIsFree
  <2>3. callbacks[c] = <<>>
    BY <1>1, <2>1, NextIsNew
  <2> QED BY <2>1, <2>2, <2>3
<1>3. /\ Created \subseteq Conns /\ fd \in [Created -> Fds]
      /\ callbacks \in [Conns -> Seq({"up", "down"})] /\ late \subseteq Created
      /\ queue \in [Loops -> Seq(Functors)]
  BY CreatedIds DEF IInv, Types
<1>4. /\ callbacks'[c] \in {<<>>, OnlyUp}
      /\ \A d \in Conns : d # c => callbacks'[d] = callbacks[d]
      /\ held' \in {held, held \union {c}, held \ {c}}
  <2>1. CASE l = 0
    <3>1. Establish(0, c, f)
      BY <1>1, <2>1
    <3>2. /\ callbacks' = [callbacks EXCEPT ![c] = Append(@, "up")]
          /\ held' \in {held \union {c}, held \ {c}}
      BY <3>1 DEF Establish, ConnCallback, UserKeepsOrDrops
    <3>3. callbacks' = [callbacks EXCEPT ![c] = OnlyUp]
      BY <1>1, <1>2, <1>3, <3>2, CallbackValues
    <3> QED BY <1>1, <1>3, <3>2, <3>3
  <2>2. CASE l # 0
    <3>1. callbacks' = callbacks /\ held' = held
      BY <1>1, <2>2
    <3> QED BY <1>2, <3>1
  <2> QED BY <2>1, <2>2
<1>5. ASSUME NEW k \in Loops, NEW d \in Created
      PROVE  Refers(queue[k], d)' <=> Refers(queue[k], d)
  <2> DEFINE e == [op |-> "establish", conn |-> c]
             q == queue[l]
  <2>1. queue' = queue \/ queue' = [queue EXCEPT ![l] = Append(@, e)]
    BY <1>1 DEF Post
  <2>2. CASE queue' = queue
    BY <2>2 DEF Refers
  <2>3. CASE queue' = [queue EXCEPT ![l] = Append(@, e)]
    <3>1. q \in Seq(Functors) /\ e.conn = c
      BY <1>1, <1>3
    <3>2. queue'[l] = Append(q, e) /\ (k # l => queue'[k] = queue[k])
      BY <1>1, <1>3, <2>3
    <3> HIDE DEF e, q
    <3>3. /\ DOMAIN q = 1..Len(q) /\ Len(q) \in Nat
          /\ DOMAIN Append(q, e) = 1..(Len(q) + 1)
          /\ \A i \in 1..Len(q) : Append(q, e)[i] = q[i]
          /\ Append(q, e)[Len(q) + 1] = e
      BY <3>1
    <3>4. d # c
      BY <1>1
    <3>5. Refers(Append(q, e), d) <=> Refers(q, d)
      BY <3>1, <3>3, <3>4 DEF Refers
    <3>6. Refers(queue'[k], d) <=> Refers(queue[k], d)
      BY <3>2, <3>5 DEF q
    <3> QED BY <3>6 DEF Refers
  <2> QED BY <2>1, <2>2, <2>3
<1>6. ASSUME NEW d \in Created PROVE d # c /\ Alive(d)' = Alive(d)
  <2>1. d # c
    BY <1>1
  <2>2. (d \in connections' <=> d \in connections) /\ (d \in held' <=> d \in held)
    BY <1>1, <1>4, <2>1
  <2>3. \A k \in Loops : Refers(batch[k], d)' <=> Refers(batch[k], d)
    BY <1>u DEF Refers
  <2>4. \A k \in Loops : Refers(queue[k], d)' <=> Refers(queue[k], d)
    BY <1>5
  <2> QED BY <1>1, <1>u, <2>1, <2>2, <2>3, <2>4 DEF Alive
<1>7. Alive(c)'
  BY <1>1 DEF Alive
<1>8. \A d \in Conns : d # c => Phase(d)' = Phase(d)
  BY <1>1, <1>u, <1>4, <1>6 DEF Phase
<1>9. Phase(c) = "none" /\ Phase(c)' \in {"accepted", "up"}
  BY <1>1, <1>u, <1>3, <1>4, <1>7, CallbackValues DEF Phase, OnlyUp
<1>10. Life!Move(c, "none", "accepted") \/ Life!Move(c, "none", "up")
  BY <1>1, <1>8, <1>9, OneMoves
<1>11. fd' = [d \in DOMAIN fd \union {c} |-> IF d = c THEN f ELSE fd[d]]
  BY <1>1, <1>3
<1>12. \A d \in Conns : Life!Live(d) => fd[d] # f
  <2> SUFFICES ASSUME NEW d \in Conns, Life!Live(d) PROVE fd[d] # f
    OBVIOUS
  <2>1. Phase(d) \in {"accepted", "up", "down", "back"}
    BY DEF Life!Live
  <2>2. d \in Created /\ Alive(d)
    BY <2>1 DEF Phase
  <2> QED BY <1>2, <2>2
<1>13. Life!Accept(c, f)
  BY <1>10, <1>11, <1>12 DEF Life!Accept
<1> QED BY <1>1, <1>2, <1>13 DEF Life!Next

\* TcpServer implements ConnLifecycle: each connection is reported up once,
\* then down once, is never deleted before its close was reported, and no
\* descriptor is shared by two live connections, whatever the threads do; only
\* of a connection that a late send put back may a second close be reported.
THEOREM ServerImplementsConnLifecycle == Spec => ImplementsConnLifecycle
<1>1. Init => Life!Init
  <2> SUFFICES ASSUME Init PROVE Life!Init
    OBVIOUS
  <2>1. nextConnId = 1 /\ fd = <<>>
    BY DEF Init
  <2>2. \A c \in Conns : Phase(c) = "none"
    BY <2>1 DEF Phase, Created
  <2> QED BY <2>1, <2>2 DEF Life!Init
<1>2. IInv /\ IInv' /\ [Next]_vars => [Life!Next]_Life!vars
  <2> SUFFICES ASSUME IInv, IInv', [Next]_vars PROVE [Life!Next]_Life!vars
    OBVIOUS
  <2>1. 0 \in Loops
    BY CreatedIds DEF IInv
  <2>2. ASSUME NEW l \in Loops, LoopStep(l) PROVE [Life!Next]_Life!vars
    <3>1. CASE Poll(l)
      BY <3>1, PollStep, GoneStep DEF Poll
    <3>2. CASE EndEvent(l)
      BY <3>2, EndEventStep, GoneStep DEF EndEvent
    <3>3. CASE Swap(l)
      BY <3>3, SwapStep, GoneStep DEF Swap
    <3>4. CASE EndBatch(l)
      BY <3>4, EndBatchStep, GoneStep DEF EndBatch
    <3>5. CASE RunEstablish(l)
      BY <3>5, EstablishGoesUp
    <3>6. CASE RunRemove(l)
      BY <3>6, RunRemoveStep, GoneStep DEF RunRemove
    <3>7. CASE RunDestory(l)
      BY <3>7, RunDestoryStep, GoneStep DEF RunDestory
    <3>8. CASE RunSend(l)
      BY <3>8, SendShows
    <3>9. CASE \E c \in Created : HandleClose(l, c)
      BY <3>9, CloseGoesDown, SecondCloseShows
    <3>10. CASE \E c \in Created : BufferIntoNet(l, c)
      BY <3>10, OtherQuietSteps, GoneStep DEF BufferIntoNet
    <3>11. CASE Accept
      BY <3>11, AcceptShows
    <3>12. CASE AcceptFails
      BY <2>1, <3>12, OtherQuietSteps, GoneStep DEF AcceptFails
    <3>13. CASE Abort(l)
      BY <3>13, AbortPlace, OtherQuietSteps, GoneStep DEF Abort
    <3> QED BY <2>2, <3>1, <3>2, <3>3, <3>4, <3>5, <3>6, <3>7, <3>8, <3>9, <3>10,
               <3>11, <3>12, <3>13 DEF LoopStep
  <2>3. ASSUME NEW c \in Created,
               SendTest(c) \/ ShutdownTest(c) \/ ShutdownMark(c)
        PROVE  [Life!Next]_Life!vars
    BY <2>3, UserSteps, GoneStep DEF SendTest, ShutdownTest, ShutdownMark
  <2>4. ASSUME NEW c \in Created, SendPost(c) PROVE [Life!Next]_Life!vars
    BY <2>4, SendPostStep, GoneStep DEF SendPost
  <2>5. ASSUME NEW c \in Created, PeerClose(c) \/ Release(c)
        PROVE  [Life!Next]_Life!vars
    BY <2>5, OtherQuietSteps, GoneStep DEF PeerClose, Release
  <2>6. ASSUME UNCHANGED vars PROVE [Life!Next]_Life!vars
    BY <2>6, OtherQuietSteps, GoneStep DEF vars
  <2> QED BY <2>2, <2>3, <2>4, <2>5, <2>6 DEF Next, UserEnds
<1> QED BY <1>1, <1>2, Invariance, PTL DEF Spec, ImplementsConnLifecycle, Life!Spec
=============================================================================
