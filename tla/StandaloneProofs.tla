-------------------------- MODULE StandaloneProofs --------------------------
(***************************************************************************)
(* Proofs about four parts that stand by themselves.                       *)
(*                                                                         *)
(* Buffer, for any sizes and any bytes.  TypeOK is inductive; the lemmas   *)
(* say what each function of Buffer.cpp does to the size, the indices and  *)
(* the content, and the theorems put them together: the types, the bound   *)
(* of the vector, and that a buffer implements ByteQueue.                  *)
(*                                                                         *)
(* InetAddress, for every set of objects, heap cells and addresses and     *)
(* every width of a byte.  AddressTypeOK and OwnedOnce together are        *)
(* inductive.  That no two objects own the same cell is what makes a write *)
(* into a cell the assignment of one value, so the refinement of           *)
(* AddressValues rests on both, and on the arithmetic of ports.            *)
(*                                                                         *)
(* EventLoopPool, for any number of loops.  PoolInv is inductive: where a  *)
(* thread is tells what it has published, the owner starts them one by one *)
(* and misses no notify, and a loop ends only when it was quit.            *)
(*                                                                         *)
(* Router, for any patterns, paths and methods.  RouterInv is inductive:   *)
(* while match() scans an entry its pointers are at the same cut of the    *)
(* pattern and the path, or as far behind it in a literal segment, or      *)
(* behind a "*", and what has been captured is what the segments so far    *)
(* capture.  EndSays tells what it means that the loop ends.  Cuts is      *)
(* recursive; what is said of all cuts is proved by the least one that it  *)
(* is false of.                                                            *)
(***************************************************************************)
EXTENDS Buffer, InetAddress, EventLoopPool, Router, WellFoundedInduction,
        TLAPS

(* Buffer.                                                                 *)

\* std::copy into a vector that has the room changes these bytes alone.
LEMMA CopyType ==
  ASSUME NEW data \in Seq(Chars), NEW p \in Nat, NEW s \in Seq(Chars),
         p + Len(s) <= Len(data)
  PROVE  /\ Copy(data, p, s) \in Seq(Chars)
         /\ Len(Copy(data, p, s)) = Len(data)
         /\ \A i \in 1..Len(data) :
              Copy(data, p, s)[i] = IF p < i /\ i <= p + Len(s) THEN s[i - p]
                                                                ELSE data[i]
<1>1. \A i \in DOMAIN data : i \in (p + 1)..(p + Len(s)) => s[i - p] \in Chars
  OBVIOUS
<1>2. Copy(data, p, s) \in [1..Len(data) -> Chars]
  BY <1>1 DEF Copy
<1>3. \A i \in 1..Len(data) :
        Copy(data, p, s)[i] = IF p < i /\ i <= p + Len(s) THEN s[i - p]
                                                          ELSE data[i]
  BY DEF Copy
<1> QED BY <1>2, <1>3

\* The content of a buffer is a sequence of its readable bytes.
LEMMA ContentType ==
  ASSUME NEW b \in Buffers, InOrder(b)
  PROVE  /\ Content(b) \in Seq(Chars)
         /\ Len(Content(b)) = Readable(b)
         /\ \A i \in 1..Readable(b) : Content(b)[i] = b.data[b.readIndex + i]
<1>1. /\ b.data \in Seq(Chars) /\ b.readIndex \in Nat /\ b.writeIndex \in Nat
      /\ b.readIndex <= b.writeIndex /\ b.writeIndex <= Len(b.data)
  BY BufferAssumption DEF Buffers, InOrder
<1>2. ASSUME NEW d \in Seq(Chars), NEW r \in Nat, NEW w \in Nat,
             r <= w, w <= Len(d)
      PROVE  /\ SubSeq(d, r + 1, w) \in Seq(Chars)
             /\ Len(SubSeq(d, r + 1, w)) = w - r
             /\ \A i \in 1..(w - r) : SubSeq(d, r + 1, w)[i] = d[r + i]
  BY <1>2
<1> QED BY <1>1, <1>2 DEF Content, Readable

\* Moving the content to the front keeps the vector's size.
LEMMA MoveShape ==
  ASSUME NEW b \in Buffers, InOrder(b)
  PROVE  /\ Move(b) \in Buffers /\ InOrder(Move(b))
         /\ Readable(Move(b)) = Readable(b)
         /\ Len(Move(b).data) = Len(b.data)
         /\ Move(b).writeIndex = DefaultPreSize + Readable(b)
         /\ \A i \in 1..Readable(b) :
              Move(b).data[DefaultPreSize + i] = b.data[b.readIndex + i]
<1>1. /\ b.data \in Seq(Chars) /\ b.readIndex \in Nat /\ b.writeIndex \in Nat
      /\ DefaultPreSize \in Nat /\ DefaultPreSize <= b.readIndex
      /\ b.readIndex <= b.writeIndex /\ b.writeIndex <= Len(b.data)
  BY BufferAssumption DEF Buffers, InOrder
<1> DEFINE c == Content(b)
           d == Copy(b.data, DefaultPreSize, c)
<1>2. /\ c \in Seq(Chars) /\ Len(c) = Readable(b)
      /\ \A i \in 1..Readable(b) : c[i] = b.data[b.readIndex + i]
  BY ContentType
<1>3. /\ Readable(b) \in Nat /\ Readable(b) = b.writeIndex - b.readIndex
      /\ DefaultPreSize + Readable(b) <= Len(b.data)
  BY <1>1 DEF Readable
<1> HIDE DEF c
<1>4. /\ d \in Seq(Chars) /\ Len(d) = Len(b.data)
      /\ \A i \in 1..Len(b.data) :
           d[i] = IF DefaultPreSize < i /\ i <= DefaultPreSize + Len(c)
                  THEN c[i - DefaultPreSize] ELSE b.data[i]
  BY <1>1, <1>2, <1>3, CopyType
<1> HIDE DEF d
<1>5. Move(b) = [data |-> d, readIndex |-> DefaultPreSize,
                 writeIndex |-> Readable(b) + DefaultPreSize]
  BY DEF Move, d, c
<1>6. Move(b) \in Buffers
  BY <1>1, <1>3, <1>4, <1>5 DEF Buffers
<1>7. InOrder(Move(b))
  BY <1>1, <1>3, <1>4, <1>5 DEF InOrder
<1>8. Readable(Move(b)) = Readable(b)
  BY <1>1, <1>3, <1>5 DEF Readable
<1>9. Len(Move(b).data) = Len(b.data)
  BY <1>4, <1>5
<1>10. Move(b).writeIndex = DefaultPreSize + Readable(b)
  BY <1>1, <1>3, <1>5
<1>11. ASSUME NEW i \in 1..Readable(b)
       PROVE  Move(b).data[DefaultPreSize + i] = b.data[b.readIndex + i]
  <2>1. Move(b).data[DefaultPreSize + i] = d[DefaultPreSize + i]
    BY <1>5
  <2>2. /\ DefaultPreSize + i \in 1..Len(b.data)
        /\ DefaultPreSize < DefaultPreSize + i
        /\ DefaultPreSize + i <= DefaultPreSize + Len(c)
        /\ (DefaultPreSize + i) - DefaultPreSize = i
    BY <1>1, <1>2, <1>3
  <2>3. d[DefaultPreSize + i] = c[i]
    BY <1>4, <2>2
  <2> QED BY <1>2, <2>1, <2>3
<1> QED BY <1>6, <1>7, <1>8, <1>9, <1>10, <1>11

\* Growing leaves content and indices alone and makes exactly the room asked.
LEMMA GrowShape ==
  ASSUME NEW b \in Buffers, InOrder(b), NEW n \in Nat, n > Writeable(b)
  PROVE  /\ Grow(b, n) \in Buffers /\ InOrder(Grow(b, n))
         /\ Len(Grow(b, n).data) = b.writeIndex + n
         /\ Grow(b, n).readIndex = b.readIndex
         /\ Grow(b, n).writeIndex = b.writeIndex
         /\ \A i \in 1..Len(b.data) : Grow(b, n).data[i] = b.data[i]
<1>1. /\ b.data \in Seq(Chars) /\ b.readIndex \in Nat /\ b.writeIndex \in Nat
      /\ DefaultPreSize \in Nat /\ DefaultPreSize <= b.readIndex
      /\ b.readIndex <= b.writeIndex /\ b.writeIndex <= Len(b.data)
      /\ b = [data |-> b.data, readIndex |-> b.readIndex,
              writeIndex |-> b.writeIndex]
  BY BufferAssumption DEF Buffers, InOrder
<1> DEFINE d == [i \in 1..(b.writeIndex + n) |->
                   IF i <= Len(b.data) THEN b.data[i] ELSE Nul]
<1>2. Len(b.data) < b.writeIndex + n
  BY <1>1 DEF Writeable
<1>3. /\ d \in [1..(b.writeIndex + n) -> Chars]
      /\ \A i \in 1..Len(b.data) : d[i] = b.data[i]
  BY <1>1, <1>2 DEF Chars
<1>4. Grow(b, n) = [b EXCEPT !.data = d]
  BY Zenon DEF Grow
<1> HIDE DEF d
<1>5. d \in Seq(Chars) /\ Len(d) = b.writeIndex + n
  BY <1>1, <1>3
<1>6. Grow(b, n) = [data |-> d, readIndex |-> b.readIndex,
                    writeIndex |-> b.writeIndex]
  BY <1>1, <1>4
<1>7. Grow(b, n) \in Buffers
  BY <1>1, <1>5, <1>6 DEF Buffers
<1>8. InOrder(Grow(b, n))
  BY <1>1, <1>2, <1>5, <1>6 DEF InOrder
<1>9. \A i \in 1..Len(b.data) : Grow(b, n).data[i] = b.data[i]
  BY <1>3, <1>6
<1> QED BY <1>5, <1>6, <1>7, <1>8, <1>9

\* The arithmetic of the second branch of makeSpace: a vector of l bytes that
\* holds w - r from r on, of which p stay free, and n bytes do not fit.
LEMMA GrowArithmetic ==
  ASSUME NEW l \in Nat, NEW r \in Nat, NEW w \in Nat, NEW p \in Nat,
         NEW n \in Nat, r <= w, w <= l, l - w + r - p < n
  PROVE  w + n < p + 2 * ((w - r) + n)
<1>1. r < p + n
  OBVIOUS
<1>2. r + r < w + p + n
  BY <1>1
<1>3. 2 * ((w - r) + n) = (w + w + n + n) - (r + r)
  OBVIOUS
<1> QED BY <1>2, <1>3

\* makeSpace makes the room it is asked for and keeps the content; the vector
\* keeps its size or ends below twice the content that is coming.
LEMMA MakeSpaceShape ==
  ASSUME NEW b \in Buffers, InOrder(b), NEW n \in Nat, n > Writeable(b)
  PROVE  LET a == MakeSpace(b, n) IN
         /\ a \in Buffers /\ InOrder(a)
         /\ Readable(a) = Readable(b)
         /\ a.writeIndex + n <= Len(a.data)
         /\ \/ Len(a.data) = Len(b.data)
            \/ Len(a.data) < DefaultPreSize + 2 * (Readable(b) + n)
         /\ \A i \in 1..Readable(b) :
              a.data[a.readIndex + i] = b.data[b.readIndex + i]
<1> DEFINE a == MakeSpace(b, n)
<1>1. /\ b.data \in Seq(Chars) /\ b.readIndex \in Nat /\ b.writeIndex \in Nat
      /\ DefaultPreSize \in Nat /\ DefaultPreSize <= b.readIndex
      /\ b.readIndex <= b.writeIndex /\ b.writeIndex <= Len(b.data)
      /\ Len(b.data) \in Nat
  BY BufferAssumption DEF Buffers, InOrder
<1>2. CASE FitsAfterMove(b, n)
  <2>1. a = Move(b)
    BY <1>2 DEF MakeSpace
  <2>2. Move(b).readIndex = DefaultPreSize
    BY DEF Move
  <2>3. a.writeIndex + n <= Len(a.data)
    <3>1. Len(b.data) - b.writeIndex + b.readIndex - DefaultPreSize >= n
      BY <1>2 DEF FitsAfterMove, Writeable
    <3>2. /\ a.writeIndex = DefaultPreSize + (b.writeIndex - b.readIndex)
          /\ Len(a.data) = Len(b.data)
      BY <2>1, MoveShape DEF Readable
    <3> QED BY <1>1, <3>1, <3>2
  <2> HIDE DEF a
  <2> QED BY <2>1, <2>2, <2>3, MoveShape DEF a
<1>3. CASE ~FitsAfterMove(b, n)
  <2>1. a = Grow(b, n)
    BY <1>3 DEF MakeSpace
  <2>2. /\ a \in Buffers /\ InOrder(a)
        /\ Len(a.data) = b.writeIndex + n
        /\ a.readIndex = b.readIndex /\ a.writeIndex = b.writeIndex
        /\ \A i \in 1..Len(b.data) : a.data[i] = b.data[i]
    BY <2>1, GrowShape
  <2> HIDE DEF a
  <2>3. Readable(a) = Readable(b)
    BY <2>2 DEF Readable
  <2>4. Len(a.data) < DefaultPreSize + 2 * (Readable(b) + n)
    <3>1. Len(b.data) - b.writeIndex + b.readIndex - DefaultPreSize < n
      BY <1>1, <1>3 DEF FitsAfterMove, Writeable
    <3>2. b.writeIndex + n
            < DefaultPreSize + 2 * ((b.writeIndex - b.readIndex) + n)
      BY <1>1, <3>1, GrowArithmetic
    <3> QED BY <2>2, <3>2 DEF Readable
  <2>5. ASSUME NEW i \in 1..Readable(b)
        PROVE  a.data[a.readIndex + i] = b.data[b.readIndex + i]
    <3>1. b.readIndex + i \in 1..Len(b.data)
      BY <1>1 DEF Readable
    <3> QED BY <2>2, <3>1
  <2>6. a.writeIndex + n <= Len(a.data)
    BY <1>1, <2>2
  <2> QED BY <2>2, <2>3, <2>4, <2>5, <2>6 DEF a
<1> QED BY <1>2, <1>3

\* Bytes copied behind the content of a buffer that has the room for them.
LEMMA BehindShape ==
  ASSUME NEW b \in Buffers, InOrder(b), NEW s \in Seq(Chars),
         b.writeIndex + Len(s) <= Len(b.data)
  PROVE  /\ Behind(b, s) \in Buffers /\ InOrder(Behind(b, s))
         /\ Readable(Behind(b, s)) = Readable(b) + Len(s)
         /\ Len(Behind(b, s).data) = Len(b.data)
         /\ \A i \in 1..Readable(b) :
              Behind(b, s).data[Behind(b, s).readIndex + i]
                = b.data[b.readIndex + i]
         /\ \A i \in 1..Len(s) :
              Behind(b, s).data[Behind(b, s).readIndex + Readable(b) + i] = s[i]
<1> DEFINE d == Copy(b.data, b.writeIndex, s)
           w == b.writeIndex + Len(s)
           c == Behind(b, s)
<1>1. /\ b.data \in Seq(Chars) /\ b.readIndex \in Nat /\ b.writeIndex \in Nat
      /\ DefaultPreSize \in Nat /\ DefaultPreSize <= b.readIndex
      /\ b.readIndex <= b.writeIndex /\ b.writeIndex <= Len(b.data)
      /\ Len(s) \in Nat /\ Len(b.data) \in Nat
  BY BufferAssumption DEF Buffers, InOrder
<1>2. /\ d \in Seq(Chars) /\ Len(d) = Len(b.data)
      /\ \A i \in 1..Len(b.data) :
           d[i] = IF b.writeIndex < i /\ i <= b.writeIndex + Len(s)
                  THEN s[i - b.writeIndex] ELSE b.data[i]
  BY <1>1, CopyType
<1>3. c = [b EXCEPT !.data = d, !.writeIndex = w]
  BY Zenon DEF Behind
<1> HIDE DEF c, d
<1>4. w \in Nat /\ b.writeIndex <= w /\ w <= Len(b.data)
  BY <1>1
<1>5. w = b.writeIndex + Len(s)
  OBVIOUS
<1> HIDE DEF w
<1>6. c = [data |-> d, readIndex |-> b.readIndex, writeIndex |-> w]
  BY <1>3 DEF Buffers
<1>7. c.data = d /\ c.readIndex = b.readIndex /\ c.writeIndex = w
  BY <1>6
<1>8. c \in Buffers
  BY <1>1, <1>2, <1>4, <1>6 DEF Buffers
<1>9. InOrder(c)
  BY <1>1, <1>2, <1>4, <1>7 DEF InOrder
<1>10. Readable(c) = Readable(b) + Len(s)
  BY <1>1, <1>5, <1>7 DEF Readable
<1>11. ASSUME NEW i \in 1..Readable(b)
       PROVE  c.data[c.readIndex + i] = b.data[b.readIndex + i]
  <2>1. /\ b.readIndex + i \in 1..Len(b.data)
        /\ ~(b.writeIndex < b.readIndex + i)
    BY <1>1 DEF Readable
  <2>2. d[b.readIndex + i] = b.data[b.readIndex + i]
    BY <1>2, <2>1
  <2> QED BY <1>7, <2>2
<1>12. ASSUME NEW i \in 1..Len(s)
       PROVE  c.data[c.readIndex + Readable(b) + i] = s[i]
  <2>1. c.readIndex + Readable(b) + i = b.writeIndex + i
    BY <1>1, <1>7 DEF Readable
  <2>2. /\ b.writeIndex + i \in 1..Len(b.data)
        /\ b.writeIndex < b.writeIndex + i
        /\ b.writeIndex + i <= b.writeIndex + Len(s)
        /\ (b.writeIndex + i) - b.writeIndex = i
    BY <1>1
  <2>3. d[b.writeIndex + i] = s[i]
    BY <1>2, <2>2
  <2> QED BY <1>7, <2>1, <2>3
<1> QED BY <1>2, <1>7, <1>8, <1>9, <1>10, <1>11, <1>12 DEF c

\* append puts s behind the content; the vector keeps its size or ends below
\* twice what it then holds.
LEMMA AppendedShape ==
  ASSUME NEW b \in Buffers, InOrder(b), NEW s \in Seq(Chars)
  PROVE  LET c == Appended(b, s) IN
         /\ c \in Buffers /\ InOrder(c)
         /\ Readable(c) = Readable(b) + Len(s)
         /\ \/ Len(c.data) = Len(b.data)
            \/ Len(c.data) < DefaultPreSize + 2 * Readable(c)
         /\ \A i \in 1..Readable(b) :
              c.data[c.readIndex + i] = b.data[b.readIndex + i]
         /\ \A i \in 1..Len(s) : c.data[c.readIndex + Readable(b) + i] = s[i]
<1> DEFINE a == IF Len(s) > Writeable(b) THEN MakeSpace(b, Len(s)) ELSE b
           c == Behind(a, s)
<1>1. Len(s) \in Nat
  OBVIOUS
<1>2. /\ a \in Buffers /\ InOrder(a)
      /\ Readable(a) = Readable(b)
      /\ a.writeIndex + Len(s) <= Len(a.data)
      /\ \/ Len(a.data) = Len(b.data)
         \/ Len(a.data) < DefaultPreSize + 2 * (Readable(b) + Len(s))
      /\ \A i \in 1..Readable(b) :
           a.data[a.readIndex + i] = b.data[b.readIndex + i]
  <2>1. CASE Len(s) > Writeable(b)
    <3>1. a = MakeSpace(b, Len(s))
      BY <2>1
    <3> HIDE DEF a
    <3> QED BY <1>1, <2>1, <3>1, MakeSpaceShape
  <2>2. CASE ~(Len(s) > Writeable(b))
    <3>1. b.writeIndex + Len(s) <= Len(b.data)
      BY <1>1, <2>2 DEF Writeable, Buffers
    <3> QED BY <2>2, <3>1
  <2> QED BY <2>1, <2>2
<1>3. Appended(b, s) = c
  BY Zenon DEF Appended
<1> HIDE DEF a
<1>4. /\ c \in Buffers /\ InOrder(c)
      /\ Readable(c) = Readable(a) + Len(s)
      /\ Len(c.data) = Len(a.data)
      /\ \A i \in 1..Readable(a) :
           c.data[c.readIndex + i] = a.data[a.readIndex + i]
      /\ \A i \in 1..Len(s) : c.data[c.readIndex + Readable(a) + i] = s[i]
  BY <1>2, BehindShape
<1> HIDE DEF c
<1> QED BY <1>2, <1>3, <1>4

\* readFd puts all that readv returned behind the content, also what did not
\* fit into the vector and went through extrabuf.
LEMMA ReadShape ==
  ASSUME NEW b \in Buffers, InOrder(b), NEW s \in Seq(Chars)
  PROVE  LET c == Read(b, s) IN
         /\ c \in Buffers /\ InOrder(c)
         /\ Readable(c) = Readable(b) + Len(s)
         /\ \/ Len(c.data) = Len(b.data)
            \/ Len(c.data) < DefaultPreSize + 2 * Readable(c)
         /\ \A i \in 1..Readable(b) :
              c.data[c.readIndex + i] = b.data[b.readIndex + i]
         /\ \A i \in 1..Len(s) : c.data[c.readIndex + Readable(b) + i] = s[i]
<1> DEFINE W == Writeable(b)
           c == Read(b, s)
<1>1. /\ b.data \in Seq(Chars) /\ b.readIndex \in Nat /\ b.writeIndex \in Nat
      /\ b.readIndex <= b.writeIndex /\ b.writeIndex <= Len(b.data)
      /\ Len(s) \in Nat /\ Len(b.data) \in Nat
      /\ W \in Nat /\ b.writeIndex + W = Len(b.data) /\ Readable(b) \in Nat
  BY BufferAssumption DEF Buffers, InOrder, Writeable, Readable
<1>2. CASE Len(s) <= W
  <2>1. b.writeIndex + Len(s) <= Len(b.data)
    BY <1>1, <1>2
  <2>2. c = Behind(b, s)
    BY <1>2, Zenon DEF Read
  <2> HIDE DEF c
  <2>3. /\ c \in Buffers /\ InOrder(c)
        /\ Readable(c) = Readable(b) + Len(s)
        /\ Len(c.data) = Len(b.data)
        /\ \A i \in 1..Readable(b) :
             c.data[c.readIndex + i] = b.data[b.readIndex + i]
        /\ \A i \in 1..Len(s) : c.data[c.readIndex + Readable(b) + i] = s[i]
    BY <2>1, <2>2, BehindShape
  <2> QED BY <2>3 DEF c
<1>3. CASE ~(Len(s) <= W)
  <2> DEFINE s1 == SubSeq(s, 1, W)
             s2 == SubSeq(s, W + 1, Len(s))
             full == Behind(b, s1)
  <2>1. /\ s1 \in Seq(Chars) /\ Len(s1) = W
        /\ \A i \in 1..W : s1[i] = s[i]
    BY <1>1, <1>3
  <2>2. /\ s2 \in Seq(Chars) /\ Len(s2) = Len(s) - W
        /\ \A i \in 1..(Len(s) - W) : s2[i] = s[W + i]
    BY <1>1, <1>3
  <2>3. c = Appended(full, s2)
    BY <1>3, Zenon DEF Read, Filled
  <2> HIDE DEF c, s1, s2
  <2>4. /\ full \in Buffers /\ InOrder(full)
        /\ Readable(full) = Readable(b) + W
        /\ Len(full.data) = Len(b.data)
        /\ \A i \in 1..Readable(b) :
             full.data[full.readIndex + i] = b.data[b.readIndex + i]
        /\ \A i \in 1..W :
             full.data[full.readIndex + Readable(b) + i] = s1[i]
    <3>1. b.writeIndex + Len(s1) <= Len(b.data)
      BY <1>1, <2>1
    <3> QED BY <2>1, <3>1, BehindShape
  <2> HIDE DEF full
  <2>5. /\ c \in Buffers /\ InOrder(c)
        /\ Readable(c) = Readable(full) + Len(s2)
        /\ \/ Len(c.data) = Len(full.data)
           \/ Len(c.data) < DefaultPreSize + 2 * Readable(c)
        /\ \A i \in 1..Readable(full) :
             c.data[c.readIndex + i] = full.data[full.readIndex + i]
        /\ \A i \in 1..Len(s2) :
             c.data[c.readIndex + Readable(full) + i] = s2[i]
    BY <2>2, <2>3, <2>4, AppendedShape
  <2>6. Readable(c) = Readable(b) + Len(s)
    BY <1>1, <2>2, <2>4, <2>5
  <2>7. ASSUME NEW i \in 1..Readable(b)
        PROVE  c.data[c.readIndex + i] = b.data[b.readIndex + i]
    <3>1. i \in 1..Readable(full)
      BY <1>1, <2>4
    <3> QED BY <2>4, <2>5, <3>1
  <2>8. ASSUME NEW i \in 1..Len(s)
        PROVE  c.data[c.readIndex + Readable(b) + i] = s[i]
    <3>0. /\ c.readIndex \in Nat /\ full.readIndex \in Nat
      BY <2>4, <2>5 DEF Buffers
    <3>1. CASE i <= W
      <4>1. i \in 1..W /\ Readable(b) + i \in 1..Readable(full)
        BY <1>1, <2>4, <3>1
      <4>2. /\ c.readIndex + Readable(b) + i = c.readIndex + (Readable(b) + i)
            /\ full.readIndex + Readable(b) + i
                 = full.readIndex + (Readable(b) + i)
        BY <1>1, <3>0
      <4>3. c.data[c.readIndex + (Readable(b) + i)]
              = full.data[full.readIndex + (Readable(b) + i)]
        BY <2>5, <4>1
      <4>4. full.data[full.readIndex + Readable(b) + i] = s1[i]
        BY <2>4, <4>1
      <4>5. s1[i] = s[i]
        BY <2>1, <4>1
      <4> QED BY <4>2, <4>3, <4>4, <4>5
    <3>2. CASE ~(i <= W)
      <4> DEFINE j == i - W
      <4>1. j \in 1..(Len(s) - W) /\ W + j = i
        BY <1>1, <3>2
      <4>2. c.readIndex + Readable(b) + i = c.readIndex + Readable(full) + j
        BY <1>1, <2>4, <3>0
      <4> HIDE DEF j
      <4>3. c.data[c.readIndex + Readable(full) + j] = s2[j]
        BY <2>2, <2>5, <4>1
      <4>4. s2[j] = s[i]
        BY <2>2, <4>1
      <4> QED BY <4>2, <4>3, <4>4
    <3> QED BY <3>1, <3>2
  <2> QED BY <2>4, <2>5, <2>6, <2>7, <2>8 DEF c
<1> QED BY <1>2, <1>3
-----------------------------------------------------------------------------
\* What a call does to the buffer: it stays well formed and the vector keeps
\* its size or ends below twice what it then holds.
Step(c, s) == /\ c \in Buffers /\ InOrder(c)
              /\ s \in Seq(Bytes)
              /\ Becomes(c, s)
              /\ \/ Len(c.data) = Len(buf.data)
                 \/ Len(c.data) < DefaultPreSize + 2 * Readable(c)

\* Strings are sequences of bytes, which are characters.
LEMMA StringsType ==
  ASSUME NEW n \in Int, NEW s \in Strings(n)
  PROVE  s \in Seq(Bytes) /\ s \in Seq(Chars)
<1>1. PICK k \in 1..n : s \in [1..k -> Bytes]
  BY DEF Strings
<1>2. k \in Nat
  OBVIOUS
<1>3. s \in Seq(Bytes)
  BY <1>1, <1>2
<1>4. s \in [1..k -> Chars]
  BY <1>1 DEF Chars
<1>5. s \in Seq(Chars)
  BY <1>2, <1>4
<1> QED BY <1>3, <1>5

\* Overwriting a line end changes no size and no index.
LEMMA ReplaceShape ==
  ASSUME NEW b \in Buffers, InOrder(b), NEW p \in Nat, NEW c,
         c = Blanked(b, p)
  PROVE  /\ c \in Buffers /\ InOrder(c)
         /\ Len(c.data) = Len(b.data)
         /\ c.readIndex = b.readIndex /\ c.writeIndex = b.writeIndex
         /\ \A i \in 1..Len(b.data) :
              c.data[i] = IF i = p \/ i = p + 1 THEN Nul ELSE b.data[i]
<1> DEFINE d == [b.data EXCEPT ![p] = Nul, ![p + 1] = Nul]
<1>1. /\ b.data \in Seq(Chars) /\ b.readIndex \in Nat /\ b.writeIndex \in Nat
  BY DEF Buffers
<1>2. Nul \in Chars
  BY DEF Chars
<1>3. /\ d \in Seq(Chars) /\ Len(d) = Len(b.data)
  <2>1. b.data \in [1..Len(b.data) -> Chars] /\ Len(b.data) \in Nat
    BY <1>1
  <2>2. d \in [1..Len(b.data) -> Chars]
    BY <1>2, <2>1
  <2> HIDE DEF d
  <2> QED BY <2>1, <2>2
<1>4. \A i \in 1..Len(b.data) :
        d[i] = IF i = p \/ i = p + 1 THEN Nul ELSE b.data[i]
  BY <1>1
<1>5. c = [b EXCEPT !.data = d]
  BY Zenon DEF Blanked
<1> HIDE DEF d
<1>6. c.data = d /\ c.readIndex = b.readIndex /\ c.writeIndex = b.writeIndex
  BY <1>5 DEF Buffers
<1>7. c \in Buffers
  BY <1>1, <1>3, <1>5 DEF Buffers
<1>8. InOrder(c)
  BY <1>3, <1>6 DEF InOrder
<1> QED BY <1>3, <1>4, <1>6, <1>7, <1>8

\* append is such a step.
LEMMA AppendStep ==
  ASSUME TypeOK, NEW s \in Strings(MaxContent - Readable(buf)),
         Becomes(Appended(buf, s), s)
  PROVE  Step(Appended(buf, s), s)
<1>1. MaxContent - Readable(buf) \in Int
  BY BufferAssumption DEF TypeOK, Buffers, Readable
<1>2. s \in Seq(Bytes) /\ s \in Seq(Chars)
  BY <1>1, StringsType
<1> QED BY <1>2, AppendedShape DEF TypeOK, Step

\* readFd is such a step, whatever readv returns.
LEMMA ReadStep ==
  ASSUME TypeOK, NEW s \in Strings(MaxContent - Readable(buf)),
         Becomes(Read(buf, s), s)
  PROVE  Step(Read(buf, s), s)
<1>1. MaxContent - Readable(buf) \in Int
  BY BufferAssumption DEF TypeOK, Buffers, Readable
<1>2. s \in Seq(Bytes) /\ s \in Seq(Chars)
  BY <1>1, StringsType
<1> QED BY <1>2, ReadShape DEF TypeOK, Step

\* retrieve is such a step, and moves readIndex_ alone.
LEMMA RetrieveStep ==
  ASSUME TypeOK, NEW n \in 1..Readable(buf), NEW c,
         c = [buf EXCEPT !.readIndex = @ + n], Becomes(c, <<>>)
  PROVE  /\ Step(c, <<>>)
         /\ c.data = buf.data /\ c.readIndex = buf.readIndex + n
         /\ c.writeIndex = buf.writeIndex
<1>1. /\ buf \in Buffers /\ InOrder(buf)
      /\ buf.readIndex \in Nat /\ buf.writeIndex \in Nat
      /\ DefaultPreSize \in Nat
  BY BufferAssumption DEF TypeOK, Buffers
<1>2. /\ c.data = buf.data /\ c.readIndex = buf.readIndex + n
      /\ c.writeIndex = buf.writeIndex
  BY <1>1 DEF Buffers
<1>3. buf.readIndex + n \in Nat /\ buf.readIndex + n <= buf.writeIndex
  BY <1>1 DEF Readable
<1>4. c \in Buffers
  BY <1>1, <1>3 DEF Buffers
<1>5. InOrder(c)
  BY <1>1, <1>2, <1>3 DEF InOrder
<1> QED BY <1>2, <1>4, <1>5 DEF Step

\* replaceCRCF is such a step.
LEMMA ReplaceStep ==
  ASSUME TypeOK, NEW p \in Nat, NEW c,
         c = Blanked(buf, p), Becomes(c, <<>>)
  PROVE  Step(c, <<>>)
<1>1. /\ c \in Buffers /\ InOrder(c) /\ Len(c.data) = Len(buf.data)
  BY ReplaceShape DEF TypeOK
<1> QED BY <1>1 DEF Step

\* Every step of the buffer is one of them.
LEMMA NextStep ==
  ASSUME TypeOK, Next
  PROVE  \E c, s : Step(c, s)
<1>1. CASE AppendBytes
  BY <1>1, AppendStep DEF AppendBytes
<1>2. CASE ReadFd
  BY <1>2, ReadStep DEF ReadFd
<1>3. CASE Retrieve
  BY <1>3, RetrieveStep DEF Retrieve
<1>4. CASE ReplaceCRLF
  <2>1. PICK i \in 0..(Readable(buf) - 2) :
          Becomes(Blanked(buf, buf.readIndex + i + 1), <<>>)
    BY <1>4, Zenon DEF ReplaceCRLF
  <2>2. buf.readIndex + i + 1 \in Nat
    BY DEF TypeOK, Buffers
  <2> QED BY <2>1, <2>2, ReplaceStep
<1> QED BY <1>1, <1>2, <1>3, <1>4 DEF Next

\* A step keeps the types and the bound of the vector.
LEMMA StepKeeps ==
  ASSUME TypeOK, NEW c, NEW s, Step(c, s)
  PROVE  TypeOK' /\ (SizeBounded => SizeBounded')
<1>1. /\ buf' = c /\ input' = s /\ c \in Buffers /\ InOrder(c)
      /\ s \in Seq(Bytes)
      /\ peak' = IF Readable(c) > peak THEN Readable(c) ELSE peak
  BY DEF Step, Becomes
<1>2. Readable(c) \in Nat /\ Len(c.data) \in Nat /\ peak \in Nat
  BY <1>1, BufferAssumption DEF Buffers, InOrder, Readable, TypeOK
<1>3. peak' \in Nat /\ Readable(c) <= peak' /\ peak <= peak'
  BY <1>1, <1>2
<1>4. InOrder(buf)' /\ (buf \in Buffers)' /\ (Readable(buf) <= peak)'
  BY <1>1, <1>3 DEF InOrder, Buffers, Readable
<1>5. TypeOK'
  BY <1>1, <1>3, <1>4 DEF TypeOK
<1>6. ASSUME SizeBounded
      PROVE  SizeBounded'
  <2>1. DefaultPreSize \in Nat
    BY BufferAssumption
  <2>2. CASE Len(c.data) = Len(buf.data)
    BY <1>1, <1>2, <1>3, <1>6, <2>1, <2>2 DEF SizeBounded
  <2>3. CASE Len(c.data) < DefaultPreSize + 2 * Readable(c)
    <3>1. Len(c.data) < DefaultPreSize + 2 * peak'
      BY <1>2, <1>3, <2>1, <2>3
    <3> QED BY <1>1, <3>1 DEF SizeBounded
  <2> QED BY <2>2, <2>3 DEF Step
<1> QED BY <1>5, <1>6
-----------------------------------------------------------------------------
\* A buffer begins well formed, with the size of Buffer::Buffer and empty.
LEMMA InitShape ==
  ASSUME Init
  PROVE  /\ TypeOK /\ SizeBounded
         /\ Readable(buf) = 0
<1> DEFINE n == DefaultSize + DefaultPreSize
           d == [i \in 1..n |-> Nul]
<1>1. DefaultSize \in Nat /\ DefaultPreSize \in Nat /\ n \in Nat
  BY BufferAssumption
<1>2. d \in [1..n -> Chars]
  BY DEF Chars
<1>3. /\ buf = [data |-> d, readIndex |-> DefaultPreSize,
                writeIndex |-> DefaultPreSize]
      /\ peak = 0 /\ input = <<>>
  BY DEF Init
<1>4. DefaultPreSize <= n
  BY <1>1
<1>5. n = DefaultSize + DefaultPreSize
  OBVIOUS
<1> HIDE DEF d, n
<1>6. d \in Seq(Chars) /\ Len(d) = n
  BY <1>1, <1>2
<1>7. buf \in Buffers
  BY <1>1, <1>3, <1>6 DEF Buffers
<1>8. InOrder(buf)
  BY <1>1, <1>3, <1>4, <1>6 DEF InOrder
<1>9. Readable(buf) = 0
  BY <1>1, <1>3 DEF Readable
<1>10. SizeBounded
  BY <1>3, <1>5, <1>6 DEF SizeBounded
<1> QED BY <1>3, <1>7, <1>8, <1>9, <1>10 DEF TypeOK

\* The indices of a buffer stay inside its vector and in order, with the
\* reserve in front, for any sizes and any bytes.
THEOREM TypeCorrect == Spec => []TypeOK
<1>1. Init => TypeOK
  BY InitShape
<1>2. TypeOK /\ [Next]_vars => TypeOK'
  <2>1. CASE Next
    BY <2>1, NextStep, StepKeeps
  <2>2. CASE UNCHANGED vars
    BY <2>2 DEF vars, TypeOK, InOrder, Readable
  <2> QED BY <2>1, <2>2
<1> QED BY <1>1, <1>2, PTL DEF Spec

\* The vector of a buffer never exceeds its first size and twice the most it
\* has held, however long it is used.
THEOREM SizeBoundedHolds == Spec => []SizeBounded
<1>1. Init => SizeBounded
  BY InitShape
<1>2. TypeOK /\ SizeBounded /\ [Next]_vars => SizeBounded'
  <2>1. CASE Next
    BY <2>1, NextStep, StepKeeps
  <2>2. CASE UNCHANGED vars
    BY <2>2 DEF vars, SizeBounded
  <2> QED BY <2>1, <2>2
<1> QED BY <1>1, <1>2, TypeCorrect, PTL DEF Spec
-----------------------------------------------------------------------------
\* A buffer that has kept its content and put s behind it holds content \o s.
LEMMA ContentAppended ==
  ASSUME NEW b \in Buffers, InOrder(b), NEW c \in Buffers, InOrder(c),
         NEW s \in Seq(Chars),
         Readable(c) = Readable(b) + Len(s),
         \A i \in 1..Readable(b) :
           c.data[c.readIndex + i] = b.data[b.readIndex + i],
         \A i \in 1..Len(s) : c.data[c.readIndex + Readable(b) + i] = s[i]
  PROVE  Content(c) = Content(b) \o s
<1> DEFINE x == Content(c)
           y == Content(b)
<1>1. /\ x \in Seq(Chars) /\ Len(x) = Readable(c)
      /\ \A i \in 1..Readable(c) : x[i] = c.data[c.readIndex + i]
  BY ContentType
<1>2. /\ y \in Seq(Chars) /\ Len(y) = Readable(b)
      /\ \A i \in 1..Readable(b) : y[i] = b.data[b.readIndex + i]
  BY ContentType
<1> HIDE DEF x, y
<1>3. /\ y \o s \in Seq(Chars) /\ Len(y \o s) = Len(x)
      /\ \A i \in 1..Len(x) :
           (y \o s)[i] = IF i <= Len(y) THEN y[i] ELSE s[i - Len(y)]
  BY <1>1, <1>2
<1>4. ASSUME NEW i \in 1..Len(x)
      PROVE  x[i] = (y \o s)[i]
  <2>0. /\ Readable(b) \in Nat /\ Len(s) \in Nat /\ c.readIndex \in Nat
        /\ x[i] = c.data[c.readIndex + i]
    BY <1>1, <1>2 DEF Buffers
  <2>1. CASE i <= Readable(b)
    <3>1. i \in 1..Readable(b)
      BY <2>0, <2>1
    <3>2. x[i] = y[i]
      BY <1>2, <2>0, <3>1
    <3>3. (y \o s)[i] = y[i]
      BY <1>2, <1>3, <2>1
    <3> QED BY <3>2, <3>3
  <2>2. CASE ~(i <= Readable(b))
    <3> DEFINE j == i - Readable(b)
    <3>1. /\ j \in 1..Len(s)
          /\ c.readIndex + i = c.readIndex + Readable(b) + j
      BY <1>1, <2>0, <2>2
    <3>2. (y \o s)[i] = s[j]
      BY <1>2, <1>3, <2>2
    <3> HIDE DEF j
    <3> QED BY <2>0, <3>1, <3>2
  <2> QED BY <2>1, <2>2
<1> QED BY <1>1, <1>3, <1>4 DEF x, y

\* readIndex_ advanced by n drops the first n of the content.
LEMMA ContentRetrieved ==
  ASSUME NEW b \in Buffers, InOrder(b), NEW c \in Buffers, InOrder(c),
         NEW n \in 1..Readable(b),
         c.data = b.data, c.readIndex = b.readIndex + n,
         c.writeIndex = b.writeIndex
  PROVE  Content(c) = SubSeq(Content(b), n + 1, Len(Content(b)))
<1> DEFINE x == Content(c)
           y == Content(b)
           z == SubSeq(y, n + 1, Len(y))
<1>1. /\ x \in Seq(Chars) /\ Len(x) = Readable(c)
      /\ \A i \in 1..Readable(c) : x[i] = c.data[c.readIndex + i]
  BY ContentType
<1>2. /\ y \in Seq(Chars) /\ Len(y) = Readable(b)
      /\ \A i \in 1..Readable(b) : y[i] = b.data[b.readIndex + i]
  BY ContentType
<1> HIDE DEF x, y
<1>3. /\ b.readIndex \in Nat /\ Readable(b) \in Nat
      /\ Readable(c) = Readable(b) - n
  BY <1>2 DEF Buffers, Readable
<1>4. /\ z \in Seq(Chars) /\ Len(z) = Readable(b) - n
      /\ \A i \in 1..(Readable(b) - n) : z[i] = y[n + i]
  BY <1>2, <1>3
<1> HIDE DEF z
<1>5. ASSUME NEW i \in 1..(Readable(b) - n)
      PROVE  x[i] = z[i]
  <2>1. n + i \in 1..Readable(b) /\ b.readIndex + (n + i) = c.readIndex + i
    BY <1>3
  <2>2. x[i] = c.data[c.readIndex + i]
    BY <1>1, <1>3
  <2>3. y[n + i] = b.data[b.readIndex + (n + i)]
    BY <1>2, <2>1
  <2> QED BY <1>4, <2>1, <2>2, <2>3
<1>6. x = z
  BY <1>1, <1>3, <1>4, <1>5
<1> QED BY <1>6 DEF x, y, z

\* A line end overwritten in the vector is overwritten in the content.
LEMMA ContentReplaced ==
  ASSUME NEW b \in Buffers, InOrder(b), NEW c \in Buffers, InOrder(c),
         NEW k \in 1..(Readable(b) - 1),
         c.readIndex = b.readIndex, c.writeIndex = b.writeIndex,
         Len(c.data) = Len(b.data),
         \A i \in 1..Len(b.data) :
           c.data[i] = IF i = b.readIndex + k \/ i = b.readIndex + (k + 1)
                       THEN Nul ELSE b.data[i]
  PROVE  Content(c) = [Content(b) EXCEPT ![k] = Nul, ![k + 1] = Nul]
<1> DEFINE x == Content(c)
           y == Content(b)
           z == [y EXCEPT ![k] = Nul, ![k + 1] = Nul]
<1>1. /\ x \in Seq(Chars) /\ Len(x) = Readable(c)
      /\ \A i \in 1..Readable(c) : x[i] = c.data[c.readIndex + i]
  BY ContentType
<1>2. /\ y \in Seq(Chars) /\ Len(y) = Readable(b)
      /\ \A i \in 1..Readable(b) : y[i] = b.data[b.readIndex + i]
  BY ContentType
<1> HIDE DEF x, y
<1>3. /\ b.readIndex \in Nat /\ b.writeIndex \in Nat /\ k \in Nat
      /\ Readable(b) \in Nat /\ Readable(c) = Readable(b)
      /\ b.readIndex + Readable(b) <= Len(b.data) /\ Len(b.data) \in Nat
  BY <1>2 DEF Buffers, Readable, InOrder
<1>4. /\ DOMAIN z = 1..Readable(b)
      /\ \A i \in 1..Readable(b) :
           z[i] = IF i = k \/ i = k + 1 THEN Nul ELSE y[i]
  BY <1>2
<1>5. ASSUME NEW i \in 1..Readable(b)
      PROVE  c.data[b.readIndex + i] = IF i = k \/ i = k + 1 THEN Nul
                                       ELSE b.data[b.readIndex + i]
  <2>1. b.readIndex + i \in 1..Len(b.data)
    BY <1>3
  <2>2. CASE i = k
    BY <2>1, <2>2
  <2>3. CASE i = k + 1
    BY <2>1, <2>3
  <2>4. CASE i # k /\ i # k + 1
    <3>1. /\ b.readIndex + i # b.readIndex + k
          /\ b.readIndex + i # b.readIndex + (k + 1)
      BY <1>3, <2>4
    <3> QED BY <2>1, <2>4, <3>1
  <2> QED BY <2>2, <2>3, <2>4
<1>6. ASSUME NEW i \in 1..Readable(b)
      PROVE  x[i] = z[i]
  <2>1. x[i] = c.data[b.readIndex + i]
    BY <1>1, <1>3
  <2> QED BY <1>2, <1>4, <1>5, <2>1
<1>7. x \in [1..Readable(b) -> Chars]
  BY <1>1, <1>3
<1> HIDE DEF z
<1>8. z = [i \in 1..Readable(b) |-> z[i]]
  BY <1>4 DEF z
<1>9. x = z
  BY <1>6, <1>7, <1>8
<1> QED BY <1>9 DEF x, y, z
-----------------------------------------------------------------------------
\* Every step of the buffer is one of the byte queue.
LEMMA QueueStep ==
  ASSUME TypeOK, Next
  PROVE  Queue!Next
<1>1. ASSUME NEW c, NEW s, Step(c, s),
             Readable(c) = Readable(buf) + Len(s),
             \A i \in 1..Readable(buf) :
               c.data[c.readIndex + i] = buf.data[buf.readIndex + i],
             \A i \in 1..Len(s) :
               c.data[c.readIndex + Readable(buf) + i] = s[i]
      PROVE  Queue!Put
  <2>1. /\ c \in Buffers /\ InOrder(c) /\ s \in Seq(Bytes) /\ s \in Seq(Chars)
        /\ buf' = c /\ input' = s
    BY <1>1 DEF Step, Becomes, Chars
  <2>2. Content(c) = Content(buf) \o s
    BY <1>1, <2>1, ContentAppended DEF TypeOK
  <2>3. Content(buf)' = Content(c)
    BY <2>1 DEF Content
  <2> QED BY <2>1, <2>2, <2>3 DEF Queue!Put
<1>2. ASSUME NEW s \in Strings(MaxContent - Readable(buf))
      PROVE  s \in Seq(Chars) /\ buf \in Buffers /\ InOrder(buf)
  <2>1. MaxContent - Readable(buf) \in Int
    BY BufferAssumption DEF TypeOK, Buffers, Readable
  <2> QED BY <2>1, StringsType DEF TypeOK
<1>3. CASE AppendBytes
  <2>1. PICK s \in Strings(MaxContent - Readable(buf)) :
          Becomes(Appended(buf, s), s)
    BY <1>3 DEF AppendBytes
  <2> QED BY <1>1, <1>2, <2>1, AppendStep, AppendedShape DEF Queue!Next
<1>4. CASE ReadFd
  <2>1. PICK s \in Strings(MaxContent - Readable(buf)) : Becomes(Read(buf, s), s)
    BY <1>4 DEF ReadFd
  <2> QED BY <1>1, <1>2, <2>1, ReadStep, ReadShape DEF Queue!Next
<1>5. CASE Retrieve
  <2>1. PICK n \in 1..Readable(buf) :
          Becomes([buf EXCEPT !.readIndex = @ + n], <<>>)
    BY <1>5 DEF Retrieve
  <2> DEFINE c == [buf EXCEPT !.readIndex = @ + n]
  <2>2. /\ Step(c, <<>>)
        /\ c.data = buf.data /\ c.readIndex = buf.readIndex + n
        /\ c.writeIndex = buf.writeIndex
    BY <2>1, RetrieveStep
  <2> HIDE DEF c
  <2>3. /\ c \in Buffers /\ InOrder(c) /\ buf' = c /\ input' = <<>>
        /\ buf \in Buffers /\ InOrder(buf)
    BY <2>2 DEF Step, Becomes, TypeOK
  <2>4. Content(c) = SubSeq(Content(buf), n + 1, Len(Content(buf)))
    BY <2>2, <2>3, ContentRetrieved
  <2>5. n \in 0..Len(Content(buf))
    BY <2>3, ContentType
  <2>6. Content(buf)' = Content(c)
    BY <2>3 DEF Content
  <2> QED BY <2>3, <2>4, <2>5, <2>6 DEF Queue!Take, Queue!Next
<1>6. CASE ReplaceCRLF
  <2>1. PICK i \in 0..(Readable(buf) - 2) :
          /\ buf.data[buf.readIndex + i + 1] = CR
          /\ buf.data[buf.readIndex + i + 1 + 1] = LF
          /\ Becomes(Blanked(buf, buf.readIndex + i + 1), <<>>)
    BY <1>6, Zenon DEF ReplaceCRLF
  <2> DEFINE p == buf.readIndex + i + 1
             k == i + 1
             c == Blanked(buf, p)
  <2> HIDE DEF p, k, c
  <2>2. /\ buf \in Buffers /\ InOrder(buf)
        /\ buf.readIndex \in Nat /\ Readable(buf) \in Nat
    <3>1. buf \in Buffers /\ InOrder(buf)
      BY DEF TypeOK
    <3>2. buf.readIndex \in Nat
      BY <3>1 DEF Buffers
    <3> QED BY <3>1, <3>2, ContentType
  <2>3. /\ p \in Nat /\ k \in 1..(Readable(buf) - 1)
        /\ p = buf.readIndex + k /\ p + 1 = buf.readIndex + k + 1
        /\ p + 1 = buf.readIndex + (k + 1)
        /\ k \in 1..Readable(buf) /\ k + 1 \in 1..Readable(buf)
    BY <2>2 DEF p, k
  <2>4. buf.data[p] = CR /\ buf.data[p + 1] = LF /\ Becomes(c, <<>>)
    BY <2>1 DEF p, c
  <2>5. c = Blanked(buf, p)
    BY DEF c
  <2>6. /\ c \in Buffers /\ InOrder(c) /\ Len(c.data) = Len(buf.data)
        /\ c.readIndex = buf.readIndex /\ c.writeIndex = buf.writeIndex
        /\ \A j \in 1..Len(buf.data) :
             c.data[j] = IF j = p \/ j = p + 1 THEN Nul ELSE buf.data[j]
    <3>1. p \in Nat
      BY <2>3
    <3> QED BY <2>2, <2>5, <3>1, ReplaceShape
  <2>7. buf' = c /\ input' = <<>>
    BY <2>4 DEF Becomes
  <2>8. Content(c) = [Content(buf) EXCEPT ![k] = Nul, ![k + 1] = Nul]
    <3>1. k \in 1..(Readable(buf) - 1)
      BY <2>3
    <3>2. p = buf.readIndex + k /\ p + 1 = buf.readIndex + (k + 1)
      BY <2>3
    <3>3. \A j \in 1..Len(buf.data) :
            c.data[j] = IF \/ j = buf.readIndex + k
                           \/ j = buf.readIndex + (k + 1)
                        THEN Nul ELSE buf.data[j]
      BY <2>6, <3>2, Zenon
    <3> QED BY <2>2, <2>6, <3>1, <3>3, ContentReplaced
  <2>9. /\ k \in 1..(Len(Content(buf)) - 1)
        /\ Content(buf)[k] = CR /\ Content(buf)[k + 1] = LF
    BY <2>2, <2>3, <2>4, ContentType
  <2>10. Content(buf)' = Content(c)
    BY <2>7 DEF Content
  <2> QED BY <2>7, <2>8, <2>9, <2>10 DEF Queue!Blank, Queue!Next
<1> QED BY <1>3, <1>4, <1>5, <1>6 DEF Next

\* Appending, reading past the end of the vector, moving, growing and
\* retrieving together are a first-in first-out queue of bytes.
THEOREM ByteQueueHolds == Spec => ImplementsByteQueue
<1>1. Init => Queue!Init
  <2> SUFFICES ASSUME Init PROVE Queue!Init
    OBVIOUS
  <2>1. /\ Content(buf) \in Seq(Chars) /\ Len(Content(buf)) = 0
        /\ input = <<>>
    BY InitShape, ContentType DEF TypeOK, Init
  <2> QED BY <2>1 DEF Queue!Init
<1>2. TypeOK /\ [Next]_vars => [Queue!Next]_(Queue!vars)
  <2>1. CASE Next
    BY <2>1, QueueStep
  <2>2. CASE UNCHANGED vars
    BY <2>2 DEF vars, Queue!vars, Content
  <2> QED BY <2>1, <2>2
<1> QED BY <1>1, <1>2, TypeCorrect, PTL DEF Spec, ImplementsByteQueue, Queue!Spec
-----------------------------------------------------------------------------
(* InetAddress: arithmetic of ports.                                       *)

\* A number is given by its quotient and its remainder.
LEMMA DivMod ==
  ASSUME NEW x \in Nat, NEW b \in Nat \ {0}
  PROVE  /\ x \div b \in Nat /\ x % b \in 0..(b - 1)
         /\ x = b * (x \div b) + (x % b)
  BY Z3

\* Quotient and remainder of what is built from them.
LEMMA DivModUnique ==
  ASSUME NEW b \in Nat \ {0}, NEW q \in Nat, NEW r \in 0..(b - 1)
  PROVE  (q * b + r) \div b = q /\ (q * b + r) % b = r
  BY Z3

LEMMA QuotientBound ==
  ASSUME NEW b \in Nat \ {0}, NEW x \in 0..(b * b - 1)
  PROVE  x \div b \in 0..(b - 1)
<1>1. x \in Nat /\ b * b \in Nat /\ x < b * b
  BY Z3
<1>2. PICK q \in Nat, r \in 0..(b - 1) : q = x \div b /\ x = b * q + r
  BY <1>1, DivMod
<1>3. q >= b => b * q >= b * b
  BY Z3
<1> QED BY <1>1, <1>2, <1>3, Z3

\* Swapping the bytes of a port gives a port, and doing it twice that port.
LEMMA SwapTwice ==
  ASSUME NEW x \in Ports
  PROVE  Swapped(x) \in Ports /\ Swapped(Swapped(x)) = x
<1> DEFINE q == x \div Byte
           r == x % Byte
<1>1. Byte \in Nat \ {0} /\ x \in Nat /\ x \in 0..(Byte * Byte - 1)
  BY InetAssumption DEF Ports
<1>2. q \in 0..(Byte - 1) /\ r \in 0..(Byte - 1) /\ x = Byte * q + r
  BY <1>1, DivMod, QuotientBound
<1>3. Swapped(x) = r * Byte + q
  BY DEF Swapped
<1>4. r * Byte + q \in 0..(Byte * Byte - 1)
  <2> HIDE DEF q, r
  <2>1. r * Byte <= (Byte - 1) * Byte
    BY <1>1, <1>2, Z3
  <2>2. (Byte - 1) * Byte = Byte * Byte - Byte
    BY <1>1, Z3
  <2> QED BY <1>1, <1>2, <2>1, <2>2, Z3
<1>5. (r * Byte + q) \div Byte = r /\ (r * Byte + q) % Byte = q
  <2> HIDE DEF q, r
  <2>1. r \in Nat
    BY <1>1, <1>2
  <2> QED BY <1>1, <1>2, <2>1, DivModUnique
<1> QED BY <1>1, <1>2, <1>3, <1>4, <1>5 DEF Swapped, Ports

\* A port comes through int16_t unchanged.
LEMMA ThroughInt16 ==
  ASSUME NEW x \in Ports
  PROVE  ToUint16(ToInt16(x)) = x
  BY InetAssumption, Z3 DEF ToUint16, ToInt16, Ports
-----------------------------------------------------------------------------
(* The three ways in which an action changes pointers and heap.            *)

AddressInv == AddressTypeOK /\ OwnedOnce

\* Object o gets value v and the others keep theirs.
Changes(o, v) ==
  /\ AddressInv'
  /\ \A p \in Objects : Value(p)' = IF p = o THEN v ELSE Value(p)

\* An object without a cell gets a new one.
LEMMA PlacedChanges ==
  ASSUME AddressInv, NEW o \in Objects, NEW c \in Free, NEW sa \in Sockaddrs,
         addr[o] \notin Cells,
         heap' = With(c, sa), addr' = [addr EXCEPT ![o] = c]
  PROVE  Changes(o, Shown(sa))
<1> USE InetAssumption DEF AddressInv, AddressTypeOK, OwnedOnce, Free, With
<1>1. AddressTypeOK'
  OBVIOUS
<1>2. OwnedOnce'
  OBVIOUS
<1>3. ASSUME NEW p \in Objects
      PROVE  Value(p)' = IF p = o THEN Shown(sa) ELSE Value(p)
  BY DEF Value, Shown
<1> QED BY <1>1, <1>2, <1>3 DEF Changes

\* An object loses its cell, if it has one, which is freed.
LEMMA RemovedChanges ==
  ASSUME AddressInv, NEW o \in Objects, NEW marker \in {Null, Gone},
         addr' = [addr EXCEPT ![o] = marker],
         heap' = IF addr[o] \in Cells THEN Without(addr[o]) ELSE heap
  PROVE  Changes(o, marker)
<1> USE InetAssumption DEF AddressInv, AddressTypeOK, OwnedOnce, Without
<1>1. AddressTypeOK'
  OBVIOUS
<1>2. OwnedOnce'
  OBVIOUS
<1>3. ASSUME NEW p \in Objects
      PROVE  Value(p)' = IF p = o THEN marker ELSE Value(p)
  BY DEF Value, Shown
<1> QED BY <1>1, <1>2, <1>3 DEF Changes

\* The cell of an object is written; nobody else owns it.
LEMMA OverwrittenChanges ==
  ASSUME AddressInv, NEW o \in Objects, NEW sa \in Sockaddrs,
         addr[o] \in Cells,
         heap' = With(addr[o], sa), addr' = addr
  PROVE  Changes(o, Shown(sa))
<1> USE InetAssumption DEF AddressInv, AddressTypeOK, OwnedOnce, With
<1>1. AddressTypeOK'
  OBVIOUS
<1>2. OwnedOnce'
  OBVIOUS
<1>3. ASSUME NEW p \in Objects
      PROVE  Value(p)' = IF p = o THEN Shown(sa) ELSE Value(p)
  BY DEF Value, Shown
<1> QED BY <1>1, <1>2, <1>3 DEF Changes
-----------------------------------------------------------------------------
(* The actions, by what they do to values.                                 *)

LEMMA DefaultChanges ==
  ASSUME AddressInv, NEW o \in Objects, Default(o)
  PROVE  Value(o) = Gone /\ Changes(o, Null)
<1>1. addr[o] = Gone /\ addr' = [addr EXCEPT ![o] = Null] /\ heap' = heap
  BY DEF Default, Live
<1>2. Changes(o, Null)
  BY <1>1, RemovedChanges, InetAssumption
<1> QED BY <1>1, <1>2 DEF Value

LEMMA NewChanges ==
  ASSUME AddressInv, NEW o \in Objects, NEW sa \in Sockaddrs, New(o, sa)
  PROVE  Value(o) = Gone /\ Changes(o, Shown(sa))
<1>1. addr[o] = Gone
  BY DEF New, Live
<1>2. PICK c \in Free : heap' = With(c, sa) /\ addr' = [addr EXCEPT ![o] = c]
  BY DEF New
<1>3. Changes(o, Shown(sa))
  BY <1>1, <1>2, PlacedChanges, InetAssumption
<1> QED BY <1>1, <1>3 DEF Value

LEMMA DestroyChanges ==
  ASSUME AddressInv, NEW o \in Objects, Destruct(o)
  PROVE  Value(o) # Gone /\ Changes(o, Gone)
<1>1. addr[o] # Gone /\ addr[o] \in Cells \union {Null}
  BY DEF Destruct, Live, AddressInv, AddressTypeOK
<1>2. heap' = IF addr[o] \in Cells THEN Without(addr[o]) ELSE heap
  BY <1>1, InetAssumption DEF Destruct
<1>3. Changes(o, Gone)
  BY <1>2, RemovedChanges DEF Destruct
<1>4. addr[o] \in Cells => heap[addr[o]] \in Sockaddrs
  BY DEF AddressInv, AddressTypeOK
<1>5. ASSUME NEW sa \in Sockaddrs PROVE Shown(sa) \in [ip : Ips, port : Ports]
  BY SwapTwice DEF Shown, Sockaddrs
<1> QED BY <1>1, <1>3, <1>4, <1>5, MarkerAssumption, InetAssumption DEF Value

\* A live object shows an address or is invalid.
LEMMA LiveValue ==
  ASSUME AddressInv, NEW o \in Objects, addr[o] # Gone
  PROVE  /\ Value(o) # Gone
         /\ addr[o] = Null => Value(o) = Null
         /\ addr[o] # Null => /\ addr[o] \in Cells
                              /\ heap[addr[o]] \in Sockaddrs
                              /\ Value(o) = Shown(heap[addr[o]])
<1>1. ASSUME NEW sa \in Sockaddrs PROVE Shown(sa) \in [ip : Ips, port : Ports]
  BY SwapTwice DEF Shown, Sockaddrs
<1> QED BY <1>1, MarkerAssumption, InetAssumption
        DEF AddressInv, AddressTypeOK, Value

LEMMA CopyChanges ==
  ASSUME AddressInv, NEW o \in Objects, NEW from \in Objects,
         CopyConstruct(o, from)
  PROVE  Value(o) = Gone /\ Value(from) # Gone /\ Changes(o, Value(from))
<1>1. addr[from] # Gone
  BY DEF CopyConstruct, Live
<1>2. CASE addr[from] = Null
  BY <1>1, <1>2, LiveValue, DefaultChanges DEF CopyConstruct
<1>3. CASE addr[from] # Null
  BY <1>1, <1>3, LiveValue, NewChanges DEF CopyConstruct
<1> QED BY <1>2, <1>3

\* An address is assigned: into the cell of o, or into a new one.
LEMMA WrittenChanges ==
  ASSUME AddressInv, NEW o \in Objects, addr[o] # Gone,
         NEW sa \in Sockaddrs, Written(o, sa)
  PROVE  Changes(o, Shown(sa))
<1>1. CASE addr[o] # Null /\ heap' = With(addr[o], sa) /\ addr' = addr
  BY <1>1, LiveValue, OverwrittenChanges
<1>2. CASE /\ addr[o] = Null
           /\ \E c \in Free : /\ heap' = With(c, sa)
                              /\ addr' = [addr EXCEPT ![o] = c]
  BY <1>2, PlacedChanges, InetAssumption
<1> QED BY <1>1, <1>2 DEF Written

\* The three alternatives of operator=.
LEMMA AssignChanges ==
  ASSUME AddressInv, NEW o \in Objects, NEW from \in Objects, Assign(o, from)
  PROVE  /\ Value(o) # Gone /\ Value(from) # Gone
         /\ UNCHANGED addressVars \/ Changes(o, Value(from))
<1>1. addr[o] # Gone /\ addr[from] # Gone
  BY DEF Assign, Live
<1>2. CASE o = from /\ UNCHANGED addressVars
  BY <1>1, <1>2, LiveValue
<1>3. CASE addr[from] = Null /\ Released(o)
  <2>1. heap' = IF addr[o] \in Cells THEN Without(addr[o]) ELSE heap
    BY <1>1, <1>3, LiveValue, InetAssumption DEF Released
  <2>2. Changes(o, Null)
    BY <1>3, <2>1, RemovedChanges DEF Released
  <2> QED BY <1>1, <1>3, <2>2, LiveValue
<1>4. CASE addr[from] # Null /\ Written(o, heap[addr[from]])
  BY <1>1, <1>4, LiveValue, WrittenChanges
<1> QED BY <1>2, <1>3, <1>4 DEF Assign

\* What the constructors store is a sockaddr_in, and what is shown of it.
LEMMA StoredPorts ==
  ASSUME NEW ip \in Ips, NEW port \in Ports
  PROVE  /\ [sin_addr |-> ip, sin_port |-> port] \in Sockaddrs
         /\ [sin_addr |-> ip, sin_port |-> Swapped(port)] \in Sockaddrs
         /\ NetworkPort(port) = Swapped(port)
         /\ Shown([sin_addr |-> ip, sin_port |-> Swapped(port)])
              = [ip |-> ip, port |-> port]
  BY SwapTwice, ThroughInt16 DEF Sockaddrs, NetworkPort, Shown
-----------------------------------------------------------------------------
(* Every step is a step of AddressValues or a stutter.                     *)

\* The values of all objects, which stand for the variable of AddressValues.
Values == [o \in Objects |-> Value(o)]

\* Unchanged pointers and heap leave everything as it is.
LEMMA StutterKeeps ==
  ASSUME AddressInv, UNCHANGED addressVars
  PROVE  AddressInv' /\ Values' = Values
<1>1. AddressInv'
  BY DEF AddressInv, AddressTypeOK, OwnedOnce, addressVars
<1>2. Values' = Values
  BY DEF Values, Value, Shown, addressVars
<1> QED BY <1>1, <1>2

\* A change of one object is a change of one variable there.
LEMMA ChangeBecomes ==
  ASSUME NEW o \in Objects, NEW v, Changes(o, v)
  PROVE  AddressInv' /\ Values' = [Values EXCEPT ![o] = v]
  BY DEF Changes, Values

LEMMA StepRefines ==
  ASSUME AddressInv, [AddressNext]_addressVars
  PROVE  AddressInv' /\ [Abstract!Next]_(Values)
<1> USE DEF Abstract!Next, Abstract!Exists, Abstract!Becomes, Values
<1>1. CASE UNCHANGED addressVars
  BY <1>1, StutterKeeps
<1>2. ASSUME NEW o \in Objects, Default(o)
      PROVE  AddressInv' /\ Abstract!Default(o)
  BY <1>2, DefaultChanges, ChangeBecomes DEF Abstract!Default
<1>3. ASSUME NEW o \in Objects, Destruct(o)
      PROVE  AddressInv' /\ Abstract!Destroy(o)
  BY <1>3, DestroyChanges, ChangeBecomes DEF Abstract!Destroy
<1>4. ASSUME NEW o \in Objects, NEW port \in Ports, FromPort(o, port)
      PROVE  AddressInv' /\ Abstract!FromPort(o, port)
  <2> DEFINE sa == [sin_addr |-> Any, sin_port |-> Swapped(port)]
  <2>1. New(o, sa) /\ sa \in Sockaddrs /\ Shown(sa) = [ip |-> Any, port |-> port]
    BY <1>4, StoredPorts, InetAssumption DEF FromPort
  <2> HIDE DEF sa
  <2> QED BY <2>1, NewChanges, ChangeBecomes DEF Abstract!FromPort
<1>5. ASSUME NEW o \in Objects, NEW ip \in Ips, NEW port \in Ports,
             FromIpPort(o, ip, port)
      PROVE  AddressInv' /\ Abstract!FromIp(o, ip)
  <2> DEFINE sa == [sin_addr |-> ip, sin_port |-> port]
  <2>1. New(o, sa) /\ sa \in Sockaddrs
    BY <1>5, StoredPorts DEF FromIpPort
  <2>2. Shown(sa) = [ip |-> ip, port |-> Swapped(port)] /\ Swapped(port) \in Ports
    BY SwapTwice DEF Shown
  <2> HIDE DEF sa
  <2> QED BY <2>1, <2>2, NewChanges, ChangeBecomes
          DEF Abstract!FromIp, Abstract!Ports, Ports
<1>6. ASSUME NEW o \in Objects, NEW ip \in Ips, NEW port \in Ports,
             FromSockaddr(o, ip, port)
      PROVE  /\ AddressInv'
             /\ \E peer \in Abstract!Valid : Abstract!FromPeer(o, peer)
  <2> DEFINE sa == [sin_addr |-> ip, sin_port |-> Swapped(port)]
             peer == [ip |-> ip, port |-> port]
  <2>1. New(o, sa) /\ sa \in Sockaddrs /\ Shown(sa) = peer
    BY <1>6, StoredPorts DEF FromSockaddr
  <2>2. peer \in Abstract!Valid
    BY DEF Abstract!Valid, Abstract!Ports, Ports
  <2> HIDE DEF sa, peer
  <2>3. AddressInv' /\ Abstract!FromPeer(o, peer)
    BY <2>1, NewChanges, ChangeBecomes DEF Abstract!FromPeer
  <2> QED BY <2>2, <2>3
<1>7. ASSUME NEW o \in Objects, NEW from \in Objects, CopyConstruct(o, from)
      PROVE  AddressInv' /\ Abstract!Copy(o, from)
  BY <1>7, CopyChanges, ChangeBecomes DEF Abstract!Copy
<1>8. ASSUME NEW o \in Objects, NEW from \in Objects, Assign(o, from)
      PROVE  AddressInv' /\ (Abstract!Assign(o, from) \/ Values' = Values)
  BY <1>8, AssignChanges, ChangeBecomes, StutterKeeps DEF Abstract!Assign
<1> QED BY <1>1, <1>2, <1>3, <1>4, <1>5, <1>6, <1>7, <1>8
        DEF AddressNext, Ports, Abstract!Ports

LEMMA InitRefines == AddressInit => AddressInv /\ Abstract!Init
<1> SUFFICES ASSUME AddressInit PROVE AddressInv /\ Abstract!Init
  OBVIOUS
<1>1. AddressTypeOK /\ OwnedOnce
  BY InetAssumption DEF AddressInit, AddressTypeOK, OwnedOnce
<1>2. Abstract!Init
  BY DEF AddressInit, Value, Abstract!Init
<1> QED BY <1>1, <1>2 DEF AddressInv

\* The strengthened invariant holds in every reachable state.
LEMMA AddressInvariance == AddressSpec => []AddressInv
<1>1. AddressInv /\ [AddressNext]_addressVars => AddressInv'
  BY StepRefines
<1> QED BY <1>1, InitRefines, PTL DEF AddressSpec
-----------------------------------------------------------------------------
(* The theorems.                                                           *)

\* The type invariant of InetAddress: addr_ is null or points to what is
\* allocated.
THEOREM AddressTypeCorrect == AddressSpec => []AddressTypeOK
<1>1. AddressInv => AddressTypeOK
  BY DEF AddressInv
<1> QED BY <1>1, AddressInvariance, PTL

\* Every cell of the heap has exactly one owner, whatever is copied, assigned
\* and destroyed: unique_ptr and operator= together neither leak nor share.
THEOREM OwnedOnceHolds == AddressSpec => []OwnedOnce
<1>1. AddressInv => OwnedOnce
  BY DEF AddressInv
<1> QED BY <1>1, AddressInvariance, PTL

\* InetAddress implements AddressValues, and without a leak: objects are values,
\* and ports survive int16_t and both byte swaps.
THEOREM ValuesHold == AddressSpec => ImplementsValues
<1>1. AddressInv /\ [AddressNext]_addressVars => [Abstract!Next]_(Values)
  BY StepRefines
<1>2. AddressInit => Abstract!Init
  BY InitRefines
<1>3. AddressSpec => Abstract!Spec
  BY <1>1, <1>2, AddressInvariance, PTL DEF AddressSpec, Abstract!Spec, Values
<1> QED BY <1>3, OwnedOnceHolds, PTL DEF ImplementsValues
-----------------------------------------------------------------------------
(* EventLoopPool, for any number of loops.                                 *)

Starting == {"spawn", "start", "start wait", "startloop", "startloop wait"}

PoolTypes ==
  /\ owner \in Starting \union {"use", "quit", "wake", "join", "done"}
  /\ cur \in Threads
  /\ child \in [Threads -> {"none", "wrapper", "construct", "publish",
                            "publish done", "test", "poll", "exited"}]
  /\ count \in [Threads -> {0, 1}]
  /\ loop \in [Threads -> BOOLEAN] /\ alive \in [Threads -> BOOLEAN]
  /\ looping \in [Threads -> BOOLEAN] /\ eventfd \in [Threads -> BOOLEAN]
  /\ early \in [Threads -> BOOLEAN] /\ quitInside \in [Threads -> BOOLEAN]

\* The owner has been through Thread::start and startloop with thread i.
Started(i) == owner \notin Starting \/ i < cur

\* The owner has written FALSE into looping_ of loop i.
QuitStored(i) ==
  \/ owner = "quit" /\ i < cur
  \/ owner \in {"wake", "join"} /\ i <= cur
  \/ owner = "done"

\* What a thread has done is told by where it is: its loop is published, its
\* EventLoop exists, its id is known.
Positions ==
  \A i \in Threads :
    /\ loop[i] <=> child[i] \in {"publish done", "test", "poll", "exited"}
    /\ alive[i] <=> child[i] \in {"publish", "publish done", "test", "poll"}
    /\ child[i] \in {"none", "wrapper"} <=> count[i] = 0

\* The owner starts one thread after the other, each after the loop of the one
\* before is there, and it misses no notify.
OneByOne ==
  /\ \A i \in Threads : Started(i) => loop[i]
  /\ owner \in Starting => \A i \in Threads : i > cur => child[i] = "none"
  /\ owner = "spawn" => child[cur] = "none"
  /\ owner \in {"start", "start wait", "startloop", "startloop wait"}
       => child[cur] # "none"
  /\ owner \in {"startloop", "startloop wait"} => count[cur] = 1
  /\ owner = "start wait" => count[cur] = 0
  /\ owner = "startloop wait" => ~loop[cur]

\* A loop ends because somebody has quit it.
EndsWhenQuit ==
  \A i \in Threads :
    child[i] = "exited" \/ (child[i] \in {"test", "poll"} /\ ~looping[i])
      => quitInside[i] \/ QuitStored(i)

\* A quit() that came when the loop was running reaches it: looping_ stays
\* FALSE, and the eventfd ends the poll it may be blocked in.
QuitReaches ==
  (owner \in {"wake", "join"} /\ ~early[cur]) =>
    /\ child[cur] \in {"test", "poll", "exited"}
    /\ child[cur] # "exited" => ~looping[cur]
    /\ owner = "join" /\ child[cur] = "poll" => eventfd[cur]

\* The inductive invariant.
PoolInv == PoolTypes /\ Positions /\ OneByOne /\ EndsWhenQuit /\ QuitReaches

\* A pool has at least one loop.
LEMMA LoopCount == LoopNum \in Nat /\ LoopNum >= 1
  BY PoolAssumption
USE LoopCount DEF Threads

\* The owner works on one of the threads.
LEMMA CurIsThread ==
  ASSUME PoolTypes
  PROVE  cur \in Nat /\ 1 <= cur /\ cur <= LoopNum
<1>1. cur \in Threads
  BY DEF PoolTypes
<1> QED BY <1>1

\* Nothing is started: PoolInv holds.
LEMMA PoolInitInv == PoolInit => PoolInv
  BY DEF PoolInit, All, PoolInv, PoolTypes, Positions, OneByOne, EndsWhenQuit,
     QuitReaches, Started, Starting

\* std::thread is created.
LEMMA SpawnStep ==
  ASSUME PoolInv, Spawn
  PROVE  PoolInv'
<1>t. PoolTypes /\ Positions /\ OneByOne /\ EndsWhenQuit /\ QuitReaches
  BY DEF PoolInv
<1>1. PoolTypes'
  BY <1>t DEF PoolTypes, Starting, Positions, Spawn, ownerVars, loopVars,
     history
<1>2. Positions'
  BY <1>t DEF Positions, OneByOne, PoolTypes, Starting, Spawn, ownerVars,
     loopVars, history
<1>3. OneByOne'
  BY <1>t DEF OneByOne, Positions, PoolTypes, Started, Starting, Spawn,
     ownerVars, loopVars, history
<1>4. EndsWhenQuit'
  BY <1>t DEF EndsWhenQuit, QuitStored, QuitReaches, OneByOne, Positions,
     PoolTypes, Starting, Spawn, ownerVars, loopVars, history
<1>5. QuitReaches'
  BY <1>t DEF QuitReaches, Positions, OneByOne, Started, PoolTypes, Starting,
     Spawn, ownerVars, loopVars, history
<1> QED BY <1>1, <1>2, <1>3, <1>4, <1>5 DEF PoolInv

\* Thread::start looks at count, in one critical section with its wait.
LEMMA AwaitCountStep ==
  ASSUME PoolInv, AwaitCount
  PROVE  PoolInv'
<1>t. PoolTypes /\ Positions /\ OneByOne /\ EndsWhenQuit /\ QuitReaches
  BY DEF PoolInv
<1>1. PoolTypes'
  BY <1>t DEF PoolTypes, Starting, Positions, AwaitCount, ownerVars, loopVars,
     history
<1>2. Positions'
  BY <1>t DEF Positions, PoolTypes, Starting, AwaitCount, ownerVars, loopVars,
     history
<1>3. OneByOne'
  BY <1>t DEF OneByOne, Positions, PoolTypes, Started, Starting, AwaitCount,
     ownerVars, loopVars, history
<1>4. EndsWhenQuit'
  BY <1>t DEF EndsWhenQuit, QuitStored, QuitReaches, OneByOne, Positions,
     PoolTypes, Starting, AwaitCount, ownerVars, loopVars, history
<1>5. QuitReaches'
  BY <1>t DEF QuitReaches, Positions, OneByOne, Started, PoolTypes, Starting,
     AwaitCount, ownerVars, loopVars, history
<1> QED BY <1>1, <1>2, <1>3, <1>4, <1>5 DEF PoolInv

\* startloop looks at loop_, in one critical section with its wait, and the pool
\* goes on to the next thread, or is started.
LEMMA AwaitLoopStep ==
  ASSUME PoolInv, AwaitLoop
  PROVE  PoolInv'
<1>t. PoolTypes /\ Positions /\ OneByOne /\ EndsWhenQuit /\ QuitReaches
  BY DEF PoolInv
<1>d. cur \in Nat /\ 1 <= cur /\ cur <= LoopNum
  BY <1>t, CurIsThread
<1>u. /\ owner = "startloop"
      /\ UNCHANGED <<child, count, loop, alive, looping, eventfd, early,
                     quitInside>>
  BY DEF AwaitLoop, ownerVars, loopVars, history
<1>1. CASE loop[cur] /\ cur = LoopNum /\ owner' = "use" /\ cur' = 1
  <2>1. PoolTypes'
    <3>1. cur' \in Threads
      BY <1>1
    <3> QED BY <1>t, <1>u, <1>1, <3>1 DEF PoolTypes
  <2>2. Positions'
    BY <1>t, <1>u DEF Positions
  <2>3. OneByOne'
    <3>1. ASSUME NEW i \in Threads PROVE loop[i]
      <4>1. i < cur \/ i = cur
        BY <1>d, <1>1
      <4> QED BY <1>t, <1>1, <4>1 DEF OneByOne, Started
    <3> QED BY <1>u, <1>1, <3>1 DEF OneByOne, Starting
  <2>4. EndsWhenQuit'
    BY <1>t, <1>u, <1>1 DEF EndsWhenQuit, QuitStored
  <2>5. QuitReaches'
    BY <1>1 DEF QuitReaches
  <2> QED BY <2>1, <2>2, <2>3, <2>4, <2>5 DEF PoolInv
<1>2. CASE loop[cur] /\ cur # LoopNum /\ owner' = "spawn" /\ cur' = cur + 1
  <2>1. cur' \in Threads
    BY <1>d, <1>2
  <2>2. PoolTypes'
    BY <1>t, <1>u, <1>2, <2>1 DEF PoolTypes, Starting
  <2>3. Positions'
    BY <1>t, <1>u DEF Positions
  <2>4. OneByOne'
    <3>1. ASSUME NEW i \in Threads, i < cur' PROVE loop[i]
      <4>1. i < cur \/ i = cur
        BY <1>d, <1>2, <3>1
      <4> QED BY <1>t, <1>2, <4>1 DEF OneByOne, Started
    <3>2. ASSUME NEW i \in Threads, i > cur' \/ i = cur' PROVE child[i] = "none"
      <4>1. i > cur
        BY <1>d, <1>2, <3>2
      <4> QED BY <1>t, <1>u, <4>1 DEF OneByOne, Starting
    <3> QED BY <1>u, <1>2, <2>1, <3>1, <3>2 DEF OneByOne, Started, Starting
  <2>5. EndsWhenQuit'
    BY <1>t, <1>u, <1>2 DEF EndsWhenQuit, QuitStored
  <2>6. QuitReaches'
    BY <1>2 DEF QuitReaches
  <2> QED BY <2>2, <2>3, <2>4, <2>5, <2>6 DEF PoolInv
<1>3. CASE ~loop[cur] /\ owner' = "startloop wait" /\ UNCHANGED cur
  <2>1. PoolTypes'
    BY <1>t, <1>u, <1>3 DEF PoolTypes, Starting
  <2>2. Positions'
    BY <1>t, <1>u DEF Positions
  <2>3. OneByOne'
    BY <1>t, <1>u, <1>3 DEF OneByOne, Started, Starting
  <2>4. EndsWhenQuit'
    BY <1>t, <1>u, <1>3 DEF EndsWhenQuit, QuitStored
  <2>5. QuitReaches'
    BY <1>3 DEF QuitReaches
  <2> QED BY <2>1, <2>2, <2>3, <2>4, <2>5 DEF PoolInv
<1> QED BY <1>1, <1>2, <1>3 DEF AwaitLoop, Returned

\* A wait ends by itself, and the condition is looked at again.
LEMMA SpuriousStep ==
  ASSUME PoolInv, Spurious
  PROVE  PoolInv'
<1>t. PoolTypes /\ Positions /\ OneByOne /\ EndsWhenQuit /\ QuitReaches
  BY DEF PoolInv
<1>1. PoolTypes'
  BY <1>t DEF PoolTypes, Starting, Positions, Spurious, ownerVars, loopVars,
     history
<1>2. Positions'
  BY <1>t DEF Positions, PoolTypes, Starting, Spurious, ownerVars, loopVars,
     history
<1>3. OneByOne'
  BY <1>t DEF OneByOne, Positions, PoolTypes, Started, Starting, Spurious,
     ownerVars, loopVars, history
<1>4. EndsWhenQuit'
  BY <1>t DEF EndsWhenQuit, QuitStored, QuitReaches, OneByOne, Positions,
     PoolTypes, Starting, Spurious, ownerVars, loopVars, history
<1>5. QuitReaches'
  BY <1>t DEF QuitReaches, Positions, OneByOne, Started, PoolTypes, Starting,
     Spurious, ownerVars, loopVars, history
<1> QED BY <1>1, <1>2, <1>3, <1>4, <1>5 DEF PoolInv

\* The pool is destroyed.
LEMMA DestroyStep ==
  ASSUME PoolInv, Destroy
  PROVE  PoolInv'
<1>t. PoolTypes /\ Positions /\ OneByOne /\ EndsWhenQuit /\ QuitReaches
  BY DEF PoolInv
<1>1. PoolTypes'
  BY <1>t DEF PoolTypes, Starting, Positions, Destroy, ownerVars, loopVars,
     history
<1>2. Positions'
  BY <1>t DEF Positions, PoolTypes, Starting, Destroy, ownerVars, loopVars,
     history
<1>3. OneByOne'
  BY <1>t DEF OneByOne, Positions, PoolTypes, Started, Starting, Destroy,
     ownerVars, loopVars, history
<1>4. EndsWhenQuit'
  BY <1>t DEF EndsWhenQuit, QuitStored, QuitReaches, OneByOne, Positions,
     PoolTypes, Starting, Destroy, ownerVars, loopVars, history
<1>5. QuitReaches'
  BY <1>t DEF QuitReaches, Positions, OneByOne, Started, PoolTypes, Starting,
     Destroy, ownerVars, loopVars, history
<1> QED BY <1>1, <1>2, <1>3, <1>4, <1>5 DEF PoolInv

\* quit() of the loop cur writes looping_.
LEMMA QuitStoreStep ==
  ASSUME PoolInv, QuitStore
  PROVE  PoolInv'
<1>t. PoolTypes /\ Positions /\ OneByOne /\ EndsWhenQuit /\ QuitReaches
  BY DEF PoolInv
<1>d. cur \in Nat /\ 1 <= cur /\ cur <= LoopNum
  BY <1>t, CurIsThread
<1>1. PoolTypes'
  BY <1>t DEF PoolTypes, Starting, Positions, QuitStore, ownerVars, loopVars,
     history
<1>2. Positions'
  BY <1>t DEF Positions, PoolTypes, Starting, QuitStore, ownerVars, loopVars,
     history
<1>3. OneByOne'
  BY <1>t DEF OneByOne, Positions, PoolTypes, Started, Starting, QuitStore,
     ownerVars, loopVars, history
<1>4. EndsWhenQuit'
  <2> SUFFICES ASSUME NEW i \in Threads,
                      child'[i] = "exited" \/ (child'[i] \in {"test",
                      "poll"} /\ ~looping'[i])
               PROVE  quitInside'[i] \/ QuitStored(i)'
    BY DEF EndsWhenQuit
  <2>u. /\ owner = "quit" /\ owner' = "wake"
        /\ UNCHANGED <<cur, child, quitInside>>
    BY DEF QuitStore
  <2>1. CASE i = cur
    BY <1>d, <2>u, <2>1 DEF QuitStored
  <2>2. CASE i # cur
    <3>1. looping'[i] = looping[i]
      BY <1>t, <2>2 DEF QuitStore, PoolTypes
    <3>2. quitInside[i] \/ QuitStored(i)
      BY <1>t, <3>1 DEF QuitStore, EndsWhenQuit
    <3> QED BY <1>d, <2>u, <3>2 DEF QuitStored
  <2> QED BY <2>1, <2>2
<1>5. QuitReaches'
  BY <1>t DEF QuitReaches, Positions, OneByOne, Started, PoolTypes, Starting,
     QuitStore, ownerVars, loopVars, history
<1> QED BY <1>1, <1>2, <1>3, <1>4, <1>5 DEF PoolInv

\* quit() of the loop cur wakes it up.
LEMMA QuitWakeStep ==
  ASSUME PoolInv, QuitWake
  PROVE  PoolInv'
<1>t. PoolTypes /\ Positions /\ OneByOne /\ EndsWhenQuit /\ QuitReaches
  BY DEF PoolInv
<1>1. PoolTypes'
  BY <1>t DEF PoolTypes, Starting, Positions, QuitWake, ownerVars, loopVars,
     history
<1>2. Positions'
  BY <1>t DEF Positions, PoolTypes, Starting, QuitWake, ownerVars, loopVars,
     history
<1>3. OneByOne'
  BY <1>t DEF OneByOne, Positions, PoolTypes, Started, Starting, QuitWake,
     ownerVars, loopVars, history
<1>4. EndsWhenQuit'
  BY <1>t DEF EndsWhenQuit, QuitStored, QuitReaches, OneByOne, Positions,
     PoolTypes, Starting, QuitWake, ownerVars, loopVars, history
<1>5. QuitReaches'
  BY <1>t DEF QuitReaches, Positions, OneByOne, Started, PoolTypes, Starting,
     QuitWake, ownerVars, loopVars, history
<1> QED BY <1>1, <1>2, <1>3, <1>4, <1>5 DEF PoolInv

\* A thread is joined, and the next one is quit.
LEMMA JoinStep ==
  ASSUME PoolInv, Join
  PROVE  PoolInv'
<1>t. PoolTypes /\ Positions /\ OneByOne /\ EndsWhenQuit /\ QuitReaches
  BY DEF PoolInv
<1>d. cur \in Nat /\ 1 <= cur /\ cur <= LoopNum
  BY <1>t, CurIsThread
<1>u. /\ owner = "join"
      /\ UNCHANGED <<child, count, loop, alive, looping, eventfd, early,
                     quitInside>>
  BY DEF Join, loopVars, history
<1>c. \/ cur = LoopNum /\ owner' = "done" /\ cur' = cur
      \/ cur # LoopNum /\ owner' = "quit" /\ cur' = cur + 1
  BY DEF Join
<1>1. PoolTypes'
  <2>1. cur' \in Threads
    BY <1>c, <1>d
  <2> QED BY <1>t, <1>u, <1>c, <2>1 DEF PoolTypes
<1>2. Positions'
  BY <1>t, <1>u DEF Positions
<1>3. OneByOne'
  BY <1>t, <1>u, <1>c DEF OneByOne, Started, Starting
<1>4. EndsWhenQuit'
  <2>1. ASSUME NEW i \in Threads, QuitStored(i) PROVE QuitStored(i)'
    <3>1. i <= cur
      BY <1>u, <2>1 DEF QuitStored
    <3>2. i < cur + 1
      BY <1>d, <3>1
    <3> QED BY <1>c, <3>2 DEF QuitStored
  <2> QED BY <1>t, <1>u, <2>1 DEF EndsWhenQuit
<1>5. QuitReaches'
  BY <1>c DEF QuitReaches
<1> QED BY <1>1, <1>2, <1>3, <1>4, <1>5 DEF PoolInv

\* A thread publishes its id, and the owner that waits for it is notified.
LEMMA WrapperStep ==
  ASSUME PoolInv, NEW i \in Threads, Wrapper(i)
  PROVE  PoolInv'
<1>t. PoolTypes /\ Positions /\ OneByOne /\ EndsWhenQuit /\ QuitReaches
  BY DEF PoolInv
<1>1. PoolTypes'
  BY <1>t DEF PoolTypes, Starting, Positions, Wrapper, Goes, Notify,
     ownerVars, loopVars, history
<1>2. Positions'
  <2> SUFFICES ASSUME NEW j \in Threads
               PROVE  /\ loop'[j] <=> child'[j] \in {"publish done", "test",
                                                     "poll", "exited"}
                      /\ alive'[j] <=> child'[j] \in {"publish", "publish done",
                                                      "test", "poll"}
                      /\ child'[j] \in {"none", "wrapper"} <=> count'[j] = 0
    BY DEF Positions
  <2>1. CASE j = i
    <3>1. child[i] = "wrapper" /\ child'[i] = "construct" /\ count'[i] = 1
      BY <1>t DEF PoolTypes, Wrapper, Goes
    <3>2. UNCHANGED <<loop, alive>>
      BY DEF Wrapper, loopVars
    <3>3. ~loop[i] /\ ~alive[i]
      BY <1>t, <3>1 DEF Positions
    <3>4. ~loop'[i] /\ ~alive'[i]
      BY <3>2, <3>3
    <3> QED BY <2>1, <3>1, <3>4
  <2>2. CASE j # i
    BY <1>t, <2>2 DEF Positions, PoolTypes, Wrapper, Goes, ownerVars,
       loopVars, history
  <2> QED BY <2>1, <2>2
<1>3. OneByOne'
  BY <1>t DEF OneByOne, Positions, PoolTypes, Started, Starting, Wrapper,
     Goes, Notify, ownerVars, loopVars, history
<1>4. EndsWhenQuit'
  BY <1>t DEF EndsWhenQuit, QuitStored, QuitReaches, OneByOne, Positions,
     PoolTypes, Starting, Wrapper, Goes, Notify, ownerVars, loopVars, history
<1>5. QuitReaches'
  BY <1>t DEF QuitReaches, Positions, OneByOne, Started, PoolTypes, Starting,
     Wrapper, Goes, Notify, ownerVars, loopVars, history
<1> QED BY <1>1, <1>2, <1>3, <1>4, <1>5 DEF PoolInv

\* A thread makes its EventLoop.
LEMMA ConstructStep ==
  ASSUME PoolInv, NEW i \in Threads, Construct(i)
  PROVE  PoolInv'
<1>t. PoolTypes /\ Positions /\ OneByOne /\ EndsWhenQuit /\ QuitReaches
  BY DEF PoolInv
<1>1. PoolTypes'
  BY <1>t DEF PoolTypes, Starting, Positions, Construct, Goes, ownerVars,
     loopVars, history
<1>2. Positions'
  BY <1>t DEF Positions, PoolTypes, Starting, Construct, Goes, ownerVars,
     loopVars, history
<1>3. OneByOne'
  BY <1>t DEF OneByOne, Positions, PoolTypes, Started, Starting, Construct,
     Goes, ownerVars, loopVars, history
<1>4. EndsWhenQuit'
  BY <1>t DEF EndsWhenQuit, QuitStored, QuitReaches, OneByOne, Positions,
     PoolTypes, Starting, Construct, Goes, ownerVars, loopVars, history
<1>5. QuitReaches'
  BY <1>t DEF QuitReaches, Positions, OneByOne, Started, PoolTypes, Starting,
     Construct, Goes, ownerVars, loopVars, history
<1> QED BY <1>1, <1>2, <1>3, <1>4, <1>5 DEF PoolInv

\* A thread publishes its loop, and the owner that waits for it is notified.
LEMMA PublishStep ==
  ASSUME PoolInv, NEW i \in Threads, Publish(i)
  PROVE  PoolInv'
<1>t. PoolTypes /\ Positions /\ OneByOne /\ EndsWhenQuit /\ QuitReaches
  BY DEF PoolInv
<1>1. PoolTypes'
  BY <1>t DEF PoolTypes, Starting, Positions, Publish, Goes, Notify,
     ownerVars, loopVars, history
<1>2. Positions'
  BY <1>t DEF Positions, PoolTypes, Starting, Publish, Goes, Notify,
     ownerVars, loopVars, history
<1>3. OneByOne'
  BY <1>t DEF OneByOne, Positions, PoolTypes, Started, Starting, Publish,
     Goes, Notify, ownerVars, loopVars, history
<1>4. EndsWhenQuit'
  BY <1>t DEF EndsWhenQuit, QuitStored, QuitReaches, OneByOne, Positions,
     PoolTypes, Starting, Publish, Goes, Notify, ownerVars, loopVars, history
<1>5. QuitReaches'
  BY <1>t DEF QuitReaches, Positions, OneByOne, Started, PoolTypes, Starting,
     Publish, Goes, Notify, ownerVars, loopVars, history
<1> QED BY <1>1, <1>2, <1>3, <1>4, <1>5 DEF PoolInv

\* A loop starts to run, and forgets a quit() that came too early.
LEMMA EnterLoopStep ==
  ASSUME PoolInv, NEW i \in Threads, EnterLoop(i)
  PROVE  PoolInv'
<1>t. PoolTypes /\ Positions /\ OneByOne /\ EndsWhenQuit /\ QuitReaches
  BY DEF PoolInv
<1>1. PoolTypes'
  BY <1>t DEF PoolTypes, Starting, Positions, EnterLoop, Goes, ownerVars,
     loopVars, history
<1>2. Positions'
  BY <1>t DEF Positions, PoolTypes, Starting, EnterLoop, Goes, ownerVars,
     loopVars, history
<1>3. OneByOne'
  BY <1>t DEF OneByOne, Positions, PoolTypes, Started, Starting, EnterLoop,
     Goes, ownerVars, loopVars, history
<1>4. EndsWhenQuit'
  BY <1>t DEF EndsWhenQuit, QuitStored, QuitReaches, OneByOne, Positions,
     PoolTypes, Starting, EnterLoop, Goes, ownerVars, loopVars, history
<1>5. QuitReaches'
  BY <1>t DEF QuitReaches, Positions, OneByOne, Started, PoolTypes, Starting,
     EnterLoop, Goes, ownerVars, loopVars, history
<1> QED BY <1>1, <1>2, <1>3, <1>4, <1>5 DEF PoolInv

\* A loop looks at looping_, and polls or ends.
LEMMA TestLoopingStep ==
  ASSUME PoolInv, NEW i \in Threads, TestLooping(i)
  PROVE  PoolInv'
<1>t. PoolTypes /\ Positions /\ OneByOne /\ EndsWhenQuit /\ QuitReaches
  BY DEF PoolInv
<1>u. /\ child[i] = "test"
      /\ UNCHANGED <<owner, cur, count, loop, looping, eventfd, early,
                     quitInside>>
  BY DEF TestLooping, Goes, ownerVars, loopVars, history
<1>1. CASE /\ looping[i] /\ child' = [child EXCEPT ![i] = "poll"]
           /\ UNCHANGED alive
  <2>1. PoolTypes'
    BY <1>t, <1>u, <1>1 DEF PoolTypes
  <2>2. Positions'
    BY <1>t, <1>u, <1>1 DEF Positions, PoolTypes
  <2>3. OneByOne'
    BY <1>t, <1>u, <1>1 DEF OneByOne, Started, PoolTypes
  <2>4. EndsWhenQuit'
    BY <1>t, <1>u, <1>1 DEF EndsWhenQuit, QuitStored, PoolTypes
  <2>5. QuitReaches'
    BY <1>t, <1>u, <1>1 DEF QuitReaches, PoolTypes
  <2> QED BY <2>1, <2>2, <2>3, <2>4, <2>5 DEF PoolInv
<1>2. CASE /\ ~looping[i] /\ child' = [child EXCEPT ![i] = "exited"]
           /\ alive' = [alive EXCEPT ![i] = FALSE]
  <2>1. PoolTypes'
    BY <1>t, <1>u, <1>2 DEF PoolTypes
  <2>2. Positions'
    BY <1>t, <1>u, <1>2 DEF Positions, PoolTypes
  <2>3. OneByOne'
    BY <1>t, <1>u, <1>2 DEF OneByOne, Started, PoolTypes
  <2>4. EndsWhenQuit'
    BY <1>t, <1>u, <1>2 DEF EndsWhenQuit, QuitStored, PoolTypes
  <2>5. QuitReaches'
    BY <1>t, <1>u, <1>2 DEF QuitReaches, PoolTypes
  <2> QED BY <2>1, <2>2, <2>3, <2>4, <2>5 DEF PoolInv
<1> QED BY <1>1, <1>2 DEF TestLooping, Goes

\* A poll ends for the eventfd.
LEMMA WokenStep ==
  ASSUME PoolInv, NEW i \in Threads, Woken(i)
  PROVE  PoolInv'
<1>t. PoolTypes /\ Positions /\ OneByOne /\ EndsWhenQuit /\ QuitReaches
  BY DEF PoolInv
<1>1. PoolTypes'
  BY <1>t DEF PoolTypes, Starting, Positions, Woken, Goes, ownerVars,
     loopVars, history
<1>2. Positions'
  BY <1>t DEF Positions, PoolTypes, Starting, Woken, Goes, ownerVars,
     loopVars, history
<1>3. OneByOne'
  BY <1>t DEF OneByOne, Positions, PoolTypes, Started, Starting, Woken, Goes,
     ownerVars, loopVars, history
<1>4. EndsWhenQuit'
  BY <1>t DEF EndsWhenQuit, QuitStored, QuitReaches, OneByOne, Positions,
     PoolTypes, Starting, Woken, Goes, ownerVars, loopVars, history
<1>5. QuitReaches'
  BY <1>t DEF QuitReaches, Positions, OneByOne, Started, PoolTypes, Starting,
     Woken, Goes, ownerVars, loopVars, history
<1> QED BY <1>1, <1>2, <1>3, <1>4, <1>5 DEF PoolInv

\* A poll ends for something else, and its handler may quit the loop.
LEMMA OtherEventStep ==
  ASSUME PoolInv, NEW i \in Threads, OtherEvent(i)
  PROVE  PoolInv'
<1>t. PoolTypes /\ Positions /\ OneByOne /\ EndsWhenQuit /\ QuitReaches
  BY DEF PoolInv
<1>1. PoolTypes'
  <2>1. UNCHANGED <<owner, cur, count, loop, alive, eventfd, early>>
    BY DEF OtherEvent, ownerVars, loopVars
  <2>2. child' = [child EXCEPT ![i] = "test"]
    BY DEF OtherEvent, Goes
  <2>3. /\ looping' \in [Threads -> BOOLEAN]
        /\ quitInside' \in [Threads -> BOOLEAN]
    BY <1>t DEF PoolTypes, OtherEvent
  <2> QED BY <1>t, <2>1, <2>2, <2>3 DEF PoolTypes
<1>2. Positions'
  BY <1>t DEF Positions, PoolTypes, Starting, OtherEvent, Goes, ownerVars,
     loopVars, history
<1>3. OneByOne'
  BY <1>t DEF OneByOne, Positions, PoolTypes, Started, Starting, OtherEvent,
     Goes, ownerVars, loopVars, history
<1>4. EndsWhenQuit'
  <2> SUFFICES ASSUME NEW j \in Threads,
                      child'[j] = "exited" \/ (child'[j] \in {"test",
                      "poll"} /\ ~looping'[j])
               PROVE  quitInside'[j] \/ QuitStored(j)'
    BY DEF EndsWhenQuit
  <2>1. QuitStored(j)' <=> QuitStored(j)
    BY DEF QuitStored, OtherEvent, ownerVars
  <2>2. CASE j = i
    BY <1>t, <2>1, <2>2 DEF EndsWhenQuit, PoolTypes, OtherEvent, Goes
  <2>3. CASE j # i
    BY <1>t, <2>1, <2>3 DEF EndsWhenQuit, PoolTypes, OtherEvent, Goes
  <2> QED BY <2>2, <2>3
<1>5. QuitReaches'
  BY <1>t DEF QuitReaches, Positions, OneByOne, Started, PoolTypes, Starting,
     OtherEvent, Goes, ownerVars, loopVars, history
<1> QED BY <1>1, <1>2, <1>3, <1>4, <1>5 DEF PoolInv

\* The strengthened invariant holds in every reachable state.
LEMMA PoolInvariance == PoolSpec => []PoolInv
<1>1. PoolInv /\ [PoolNext]_poolVars => PoolInv'
  <2> SUFFICES ASSUME PoolInv, [PoolNext]_poolVars PROVE PoolInv'
    OBVIOUS
  <2>1. CASE OwnerStep \/ Spurious \/ Destroy
    BY <2>1, SpawnStep, AwaitCountStep, AwaitLoopStep, QuitStoreStep,
       QuitWakeStep,
       JoinStep, SpuriousStep, DestroyStep DEF OwnerStep
  <2>2. ASSUME NEW i \in Threads, ChildStep(i) \/ OtherEvent(i) PROVE PoolInv'
    BY <2>2, WrapperStep, ConstructStep, PublishStep, EnterLoopStep,
       TestLoopingStep,
       WokenStep, OtherEventStep DEF ChildStep
  <2>3. CASE UNCHANGED poolVars
    BY <2>3 DEF poolVars, ownerVars, loopVars, history, PoolInv, PoolTypes,
       Positions,
       OneByOne, EndsWhenQuit, QuitReaches, Started, QuitStored
  <2> QED BY <2>1, <2>2, <2>3 DEF PoolNext
<1> QED BY <1>1, PoolInitInv, PTL DEF PoolSpec

\* A loop in use has been started, and quit() has not touched it.
LEMMA InUseIsStarted ==
  ASSUME PoolInv, NEW i \in Threads, InUse(i)
  PROVE  Started(i) /\ ~QuitStored(i)
<1>1. PoolTypes
  BY DEF PoolInv
<1>2. cur \in Nat
  BY <1>1, CurIsThread
<1>3. CASE owner \in Starting /\ i < cur
  BY <1>3 DEF Started, QuitStored, Starting
<1>4. CASE owner = "use"
  BY <1>4 DEF Started, QuitStored, Starting
<1>5. CASE owner \in {"quit", "wake", "join"} /\ i > cur
  <2>1. ~(i <= cur) /\ ~(i < cur)
    BY <1>2, <1>5
  <2> QED BY <1>5, <2>1 DEF Started, QuitStored, Starting
<1>6. CASE owner = "quit" /\ i = cur
  BY <1>2, <1>6 DEF Started, QuitStored, Starting
<1> QED BY <1>3, <1>4, <1>5, <1>6 DEF InUse, Starting

\* startloop returns a loop that is there, however notify and wait interleave
\* and however often a wait ends by itself; until it is quit it stays.
THEOREM StartedLoopIsThereHolds == PoolSpec => []StartedLoopIsThere
<1>1. ASSUME PoolInv PROVE StartedLoopIsThere
  <2> SUFFICES ASSUME NEW i \in Threads, InUse(i), ~quitInside[i]
               PROVE  loop[i] /\ alive[i]
    BY DEF StartedLoopIsThere
  <2>1. PoolTypes /\ Positions /\ OneByOne /\ EndsWhenQuit
    BY <1>1 DEF PoolInv
  <2>2. Started(i) /\ ~QuitStored(i)
    BY <1>1, InUseIsStarted
  <2>3. loop[i] /\ child[i] # "exited"
    BY <2>1, <2>2 DEF OneByOne, EndsWhenQuit
  <2> QED BY <2>1, <2>3 DEF Positions
<1> QED BY <1>1, PoolInvariance, PTL

\* A waiting owner is owed its notify: it waits in Thread::start only while
\* count is 0, and in startloop only while loop_ is nullptr.
NoNotifyIsMissed ==
  /\ owner = "start wait" => count[cur] = 0
  /\ owner = "startloop wait" => ~loop[cur]

\* No notify is missed: the thread that will notify has not been there yet, so
\* EventLoopPool::start can only be late and not stuck.
THEOREM NoNotifyIsMissedHolds == PoolSpec => []NoNotifyIsMissed
<1>1. PoolInv => NoNotifyIsMissed
  BY DEF PoolInv, OneByOne, NoNotifyIsMissed
<1> QED BY <1>1, PoolInvariance, PTL

\* A quit() that came when the loop was running reaches it: looping_ stays FALSE
\* until the thread has ended, which the eventfd lets it see, so the join that
\* follows waits for a thread that is on its way out.
THEOREM QuitReachesHolds == PoolSpec => []QuitReaches
<1>1. PoolInv => QuitReaches
  BY DEF PoolInv
<1> QED BY <1>1, PoolInvariance, PTL
-----------------------------------------------------------------------------
(* Router.                                                                 *)


\* A set of natural numbers that is not empty has a least element.
LEMMA LeastNumber ==
  ASSUME NEW S, S \subseteq Nat, S # {}
  PROVE  \E e \in S : \A f \in S : e <= f
<1> DEFINE R == OpToRel(<, Nat)
<1>1. IsWellFoundedOn(R, Nat)
  BY NatLessThanWellFounded
<1>2. \A a, b \in Nat : a < b => <<a, b>> \in R
  BY DEF OpToRel
<1> HIDE DEF R
<1>3. PICK e \in S : \A f \in S : ~ (<<f, e>> \in R)
  BY <1>1, WFMin
<1>4. ASSUME NEW f \in S PROVE e <= f
  <2>1. e \in Nat /\ f \in Nat /\ ~ (<<f, e>> \in R)
    BY <1>3
  <2> QED BY <1>2, <2>1
<1> QED BY <1>4

\* FirstAt is the first place of c, or behind the end.
LEMMA FirstAtIs ==
  ASSUME NEW s \in Seq(STRING), NEW from \in 1..(Len(s) + 2), NEW c
  PROVE  LET i == FirstAt(s, from, c)
         IN /\ i \in 1..(Len(s) + 1)
            /\ IF from <= Len(s) + 1 THEN from <= i ELSE i = Len(s) + 1
            /\ \A j \in from..(i - 1) : s[j] # c
            /\ i <= Len(s) => s[i] = c
<1> DEFINE at == {i \in from..Len(s) : s[i] = c}
<1>1. FirstAt(s, from, c) = IF at = {} THEN Len(s) + 1
                            ELSE CHOOSE i \in at : \A j \in at : i <= j
  BY DEF FirstAt
<1>2. CASE at = {}
  <2>1. FirstAt(s, from, c) = Len(s) + 1
    BY <1>1, <1>2
  <2>2. \A j \in from..Len(s) : s[j] # c
    BY <1>2
  <2> QED BY <2>1, <2>2
<1>3. CASE at # {}
  <2>1. /\ at \subseteq Nat
        /\ \A j \in at : j \in from..Len(s) /\ s[j] = c
        /\ \A j \in from..Len(s) : s[j] = c => j \in at
    OBVIOUS
  <2> HIDE DEF at
  <2>2. \E i \in at : \A j \in at : i <= j
    BY <1>3, <2>1, LeastNumber
  <2>3. PICK i \in at : /\ i = CHOOSE k \in at : \A j \in at : k <= j
                        /\ \A j \in at : i <= j
    BY <2>2
  <2>4. FirstAt(s, from, c) = i
    BY <1>1, <1>3, <2>3
  <2>5. i \in from..Len(s) /\ s[i] = c
    BY <2>1
  <2>6. ASSUME NEW j \in from..(i - 1) PROVE s[j] # c
    <3>1. j \in from..Len(s) /\ ~(i <= j)
      BY <2>5
    <3> QED BY <2>1, <2>3, <3>1
  <2> QED BY <2>4, <2>5, <2>6
<1> QED BY <1>2, <1>3

\* The recursion of Cuts, up to its n-th step.
CutSteps(f, s, n) == f = [k \in 0..n |-> IF k = 0 THEN 0
                                         ELSE FirstAt(s, f[k - 1] + 1, "/")]

\* It defines a function.
LEMMA CutStepsExist ==
  ASSUME NEW s, NEW n \in Nat
  PROVE  \E f : CutSteps(f, s, n)
<1> DEFINE S == {m \in Nat : ~ \E f : CutSteps(f, s, m)}
<1>1. CASE S = {}
  BY <1>1
<1>2. CASE S # {}
  <2>1. PICK m \in S : \A x \in S : m <= x
    <3>1. S \subseteq Nat
      OBVIOUS
    <3> HIDE DEF S
    <3> QED BY <1>2, <3>1, LeastNumber
  <2>2. m \in Nat /\ ~ \E f : CutSteps(f, s, m)
    OBVIOUS
  <2>3. CASE m = 0
    <3> DEFINE g == [k \in 0..0 |-> 0]
    <3>1. CutSteps(g, s, 0)
      BY DEF CutSteps
    <3> QED BY <2>2, <2>3, <3>1
  <2>4. CASE m # 0
    <3>1. m - 1 \in Nat /\ ~(m - 1 \in S)
      BY <2>1, <2>2, <2>4
    <3>2. PICK f : CutSteps(f, s, m - 1)
      BY <3>1
    <3> DEFINE g == [k \in 0..m |-> IF k = m THEN FirstAt(s, f[m - 1] + 1, "/")
                                             ELSE f[k]]
    <3>3. ASSUME NEW k \in 0..m
          PROVE  g[k] = IF k = 0 THEN 0 ELSE FirstAt(s, g[k - 1] + 1, "/")
      <4>1. CASE k = m
        <5>1. m - 1 \in 0..m /\ m - 1 # m
          BY <2>2, <2>4
        <5>2. g[k - 1] = f[m - 1]
          BY <4>1, <5>1
        <5> QED BY <2>4, <4>1, <5>2
      <4>2. CASE k # m
        <5>1. k \in 0..(m - 1) /\ k - 1 # m /\ (k # 0 => k - 1 \in 0..m)
          BY <2>2, <4>2
        <5>2. g[k] = f[k] /\ (k # 0 => g[k - 1] = f[k - 1])
          BY <4>2, <5>1
        <5>3. f[k] = IF k = 0 THEN 0 ELSE FirstAt(s, f[k - 1] + 1, "/")
          BY <3>2, <5>1 DEF CutSteps
        <5> QED BY <5>2, <5>3
      <4> QED BY <4>1, <4>2
    <3>4. CutSteps(g, s, m)
      <4>1. g = [k \in 0..m |-> g[k]]
        OBVIOUS
      <4> HIDE DEF g
      <4>2. g = [k \in 0..m |-> IF k = 0 THEN 0
                                ELSE FirstAt(s, g[k - 1] + 1, "/")]
        BY <3>3, <4>1
      <4> QED BY <4>2 DEF CutSteps
    <3> QED BY <2>2, <3>4
  <2> QED BY <2>3, <2>4
<1> QED BY <1>1, <1>2

\* Each cut is found from the one before.
LEMMA CutsAre ==
  ASSUME NEW s \in Seq(STRING)
  PROVE  /\ Cuts(s)[0] = 0
         /\ \A n \in 0..Len(s) :
              Cuts(s)[n + 1] = FirstAt(s, Cuts(s)[n] + 1, "/")
<1>1. Cuts(s) = CHOOSE f : CutSteps(f, s, Len(s) + 1)
  BY DEF Cuts, CutSteps
<1>2. PICK f : f = Cuts(s) /\ CutSteps(f, s, Len(s) + 1)
  BY <1>1, CutStepsExist
<1>3. f[0] = 0
  <2>1. 0 \in 0..(Len(s) + 1)
    OBVIOUS
  <2> QED BY <1>2, <2>1 DEF CutSteps
<1>4. ASSUME NEW n \in 0..Len(s) PROVE f[n + 1] = FirstAt(s, f[n] + 1, "/")
  <2>1. n + 1 \in 0..(Len(s) + 1) /\ n + 1 # 0 /\ (n + 1) - 1 = n
    OBVIOUS
  <2> QED BY <1>2, <2>1 DEF CutSteps
<1> QED BY <1>2, <1>3, <1>4

\* The cuts are places of s, and the n-th one is not before n.
LEMMA CutType ==
  ASSUME NEW s \in Seq(STRING), NEW n \in 0..(Len(s) + 1)
  PROVE  Cuts(s)[n] \in 0..(Len(s) + 1) /\ n <= Cuts(s)[n]
<1> DEFINE Fine(j) == Cuts(s)[j] \in 0..(Len(s) + 1) /\ j <= Cuts(s)[j]
           S == {j \in Nat : j <= Len(s) + 1 /\ ~Fine(j)}
<1>1. CASE S = {}
  <2>1. n \in Nat /\ n <= Len(s) + 1 /\ n \notin S
    BY <1>1
  <2> QED BY <2>1
<1>2. CASE S # {}
  <2>1. PICK j \in S : \A x \in S : j <= x
    <3>1. S \subseteq Nat
      OBVIOUS
    <3> HIDE DEF S
    <3> QED BY <1>2, <3>1, LeastNumber
  <2>2. j \in Nat /\ j <= Len(s) + 1 /\ ~Fine(j)
    OBVIOUS
  <2>3. j # 0
    BY <2>2, CutsAre
  <2>4. PICK m \in 0..Len(s) : m = j - 1
    BY <2>2, <2>3
  <2>5. Fine(m)
    BY <2>1, <2>4
  <2>6. PICK c \in 0..(Len(s) + 1) : c = Cuts(s)[m] /\ m <= c
    BY <2>5
  <2>7. Cuts(s)[m + 1] = FirstAt(s, c + 1, "/")
    BY <2>6, CutsAre
  <2>8. c + 1 \in 1..(Len(s) + 2)
    OBVIOUS
  <2>9. PICK i \in 1..(Len(s) + 1) :
          /\ i = FirstAt(s, c + 1, "/")
          /\ IF c + 1 <= Len(s) + 1 THEN c + 1 <= i ELSE i = Len(s) + 1
    BY <2>8, FirstAtIs
  <2>10. Fine(m + 1)
    <3>1. m + 1 <= i
      BY <2>6, <2>9
    <3> QED BY <2>7, <2>9, <3>1
  <2> QED BY <2>2, <2>4, <2>10
<1> QED BY <1>1, <1>2

\* Between two cuts there is no "/", and there is one at every cut inside s.
LEMMA CutNext ==
  ASSUME NEW s \in Seq(STRING), NEW n \in 0..Len(s)
  PROVE  /\ Cuts(s)[n + 1] = FirstAt(s, Cuts(s)[n] + 1, "/")
         /\ Cuts(s)[n] <= Len(s) => Cuts(s)[n] < Cuts(s)[n + 1]
         /\ Cuts(s)[n] = Len(s) + 1 => Cuts(s)[n + 1] = Len(s) + 1
         /\ \A j \in (Cuts(s)[n] + 1)..(Cuts(s)[n + 1] - 1) : s[j] # "/"
         /\ Cuts(s)[n + 1] <= Len(s) => s[Cuts(s)[n + 1]] = "/"
<1>1. PICK c \in 0..(Len(s) + 1) : c = Cuts(s)[n]
  BY CutType
<1>2. Cuts(s)[n + 1] = FirstAt(s, c + 1, "/")
  BY <1>1, CutsAre
<1>3. c + 1 \in 1..(Len(s) + 2)
  OBVIOUS
<1>4. PICK i : /\ i = FirstAt(s, c + 1, "/") /\ i \in 1..(Len(s) + 1)
               /\ IF c + 1 <= Len(s) + 1 THEN c + 1 <= i ELSE i = Len(s) + 1
               /\ \A j \in (c + 1)..(i - 1) : s[j] # "/"
               /\ i <= Len(s) => s[i] = "/"
  BY <1>3, FirstAtIs
<1> QED BY <1>1, <1>2, <1>4

\* Once behind the end, the cuts stay there.
LEMMA CutsEnd ==
  ASSUME NEW s \in Seq(STRING), NEW m \in 0..(Len(s) + 1),
         NEW n \in m..(Len(s) + 1), Cuts(s)[m] = Len(s) + 1
  PROVE  Cuts(s)[n] = Len(s) + 1
<1> DEFINE S == {j \in Nat : /\ m <= j /\ j <= Len(s) + 1
                             /\ Cuts(s)[j] # Len(s) + 1}
<1>1. CASE S = {}
  <2>1. n \in Nat /\ m <= n /\ n <= Len(s) + 1 /\ n \notin S
    BY <1>1
  <2> QED BY <2>1
<1>2. CASE S # {}
  <2>1. PICK j \in S : \A x \in S : j <= x
    <3>1. S \subseteq Nat
      OBVIOUS
    <3> HIDE DEF S
    <3> QED BY <1>2, <3>1, LeastNumber
  <2>2. j \in Nat /\ m <= j /\ j <= Len(s) + 1 /\ Cuts(s)[j] # Len(s) + 1
    OBVIOUS
  <2>3. j # m
    BY <2>2
  <2>4. PICK h \in 0..Len(s) : h = j - 1 /\ m <= h
    BY <2>2, <2>3
  <2>5. Cuts(s)[h] = Len(s) + 1
    BY <2>1, <2>4
  <2>6. Cuts(s)[h + 1] = Len(s) + 1
    BY <2>5, CutNext
  <2> QED BY <2>2, <2>4, <2>6
<1> QED BY <1>1, <1>2

\* There are as many segments as it takes to get behind the end.
LEMMA CountIs ==
  ASSUME NEW s \in Seq(STRING)
  PROVE  /\ Count(s) \in 1..(Len(s) + 1)
         /\ Cuts(s)[Count(s)] = Len(s) + 1
         /\ \A n \in 0..(Len(s) + 1) : n < Count(s) <=> Cuts(s)[n] <= Len(s)
<1> DEFINE S == {j \in Nat : j <= Len(s) + 1 /\ Cuts(s)[j] = Len(s) + 1}
<1>1. PICK m \in S : \A x \in S : m <= x
  <2>1. Len(s) + 1 \in 0..(Len(s) + 1)
    OBVIOUS
  <2>2. Cuts(s)[Len(s) + 1] = Len(s) + 1
    BY <2>1, CutType
  <2>3. S \subseteq Nat /\ S # {}
    BY <2>2
  <2> HIDE DEF S
  <2> QED BY <2>3, LeastNumber
<1>2. m \in Nat /\ m <= Len(s) + 1 /\ Cuts(s)[m] = Len(s) + 1
  OBVIOUS
<1>3. m # 0
  BY <1>2, CutsAre
<1>4. m - 1 \in 0..(Len(s) + 1) /\ Cuts(s)[m - 1] # Len(s) + 1
  BY <1>1, <1>2, <1>3
<1>5. Cuts(s)[m - 1] <= Len(s)
  BY <1>4, CutType
<1>6. m \in 1..(Len(s) + 1)
  BY <1>2, <1>3
<1>7. PICK n \in 1..(Len(s) + 1) :
        /\ n = Count(s) /\ Cuts(s)[n - 1] <= Len(s) /\ Cuts(s)[n] = Len(s) + 1
  BY <1>2, <1>5, <1>6 DEF Count
<1>8. ASSUME NEW j \in 0..(Len(s) + 1), j < n PROVE Cuts(s)[j] <= Len(s)
  <2>1. ASSUME Cuts(s)[j] = Len(s) + 1 PROVE FALSE
    <3>1. n - 1 \in j..(Len(s) + 1)
      BY <1>8
    <3>2. Cuts(s)[n - 1] = Len(s) + 1
      BY <2>1, <3>1, CutsEnd
    <3> QED BY <1>7, <3>2
  <2> QED BY <2>1, CutType
<1>9. ASSUME NEW j \in 0..(Len(s) + 1), ~(j < n) PROVE Cuts(s)[j] = Len(s) + 1
  <2>1. j \in n..(Len(s) + 1) /\ n \in 0..(Len(s) + 1)
    BY <1>9
  <2> QED BY <1>7, <2>1, CutsEnd
<1> QED BY <1>7, <1>8, <1>9

\* A part of a sequence.
LEMMA PartOf ==
  ASSUME NEW s \in Seq(STRING), NEW a \in 0..Len(s),
         NEW b \in (a + 1)..(Len(s) + 1)
  PROVE  /\ SubSeq(s, a + 1, b - 1) \in Seq(STRING)
         /\ Len(SubSeq(s, a + 1, b - 1)) = b - a - 1
         /\ \A j \in 1..(b - a - 1) : SubSeq(s, a + 1, b - 1)[j] = s[a + j]
<1>1. /\ a + 1 \in 1..(Len(s) + 1) /\ b - 1 \in a..Len(s)
      /\ (b - 1) - (a + 1) + 1 = b - a - 1
  OBVIOUS
<1>2. SubSeq(s, a + 1, b - 1)
        = [j \in 1..((b - 1) - (a + 1) + 1) |-> s[j + (a + 1) - 1]]
  BY <1>1 DEF SubSeq
<1>3. \A j \in 1..(b - a - 1) : j + (a + 1) - 1 = a + j /\ a + j \in 1..Len(s)
  OBVIOUS
<1>4. b - a - 1 \in Nat
  OBVIOUS
<1>5. \A j \in 1..(b - a - 1) : s[a + j] \in STRING
  BY <1>3
<1>6. SubSeq(s, a + 1, b - 1) = [j \in 1..(b - a - 1) |-> s[a + j]]
  BY <1>1, <1>2, <1>3
<1>7. \A m \in Nat : \A f \in [1..m -> STRING] : f \in Seq(STRING) /\ Len(f) = m
  OBVIOUS
<1> QED BY <1>4, <1>5, <1>6, <1>7

\* The n-th segment is what is between the cuts.
LEMMA SegmentIs ==
  ASSUME NEW s \in Seq(STRING), NEW n \in 1..Count(s)
  PROVE  \E a \in 0..Len(s) :
         \E b \in (a + 1)..(Len(s) + 1), u \in Seq(STRING) :
           /\ a = Cuts(s)[n - 1] /\ b = Cuts(s)[n] /\ u = Segment(s, n)
           /\ Len(u) = b - a - 1
           /\ \A j \in 1..(b - a - 1) : u[j] = s[a + j]
<1>1. Count(s) \in 1..(Len(s) + 1)
  BY CountIs
<1>2. PICK m \in 0..Len(s) : m = n - 1 /\ m < Count(s) /\ n = m + 1
  BY <1>1
<1>3. PICK a \in 0..Len(s) : a = Cuts(s)[m]
  BY <1>2, CountIs, CutType
<1>4. PICK b \in (a + 1)..(Len(s) + 1) : b = Cuts(s)[n]
  <2>1. m + 1 \in 0..(Len(s) + 1)
    OBVIOUS
  <2>2. a < Cuts(s)[m + 1]
    BY <1>3, CutNext
  <2>3. Cuts(s)[m + 1] \in 0..(Len(s) + 1)
    BY <2>1, CutType
  <2> QED BY <1>2, <1>3, <2>2, <2>3
<1>5. Segment(s, n) = SubSeq(s, a + 1, b - 1)
  BY <1>2, <1>3, <1>4 DEF Segment
<1>6. /\ SubSeq(s, a + 1, b - 1) \in Seq(STRING)
      /\ Len(SubSeq(s, a + 1, b - 1)) = b - a - 1
      /\ \A j \in 1..(b - a - 1) : SubSeq(s, a + 1, b - 1)[j] = s[a + j]
  BY PartOf
<1> QED BY <1>2, <1>3, <1>4, <1>5, <1>6

\* Sequences are equal when their elements are.
LEMMA SameElements ==
  ASSUME NEW s \in Seq(STRING), NEW t \in Seq(STRING), Len(s) = Len(t),
         \A j \in 1..Len(s) : s[j] = t[j]
  PROVE  s = t
  OBVIOUS

\* Two segments are equal when as much is between the cuts, and the same.
LEMMA SameSegment ==
  ASSUME NEW s \in Seq(STRING), NEW t \in Seq(STRING), NEW n \in Nat \ {0},
         n <= Count(s), n <= Count(t)
  PROVE  Segment(s, n) = Segment(t, n)
           <=> /\ Cuts(s)[n] - Cuts(s)[n - 1] = Cuts(t)[n] - Cuts(t)[n - 1]
               /\ \A j \in 1..(Cuts(s)[n] - Cuts(s)[n - 1] - 1) :
                    s[Cuts(s)[n - 1] + j] = t[Cuts(t)[n - 1] + j]
<1>1. n \in 1..Count(s) /\ n \in 1..Count(t)
  BY CountIs
<1>2. PICK a \in 0..Len(s) : \E b \in (a + 1)..(Len(s) + 1), u \in Seq(STRING) :
        /\ a = Cuts(s)[n - 1] /\ b = Cuts(s)[n] /\ u = Segment(s, n)
        /\ Len(u) = b - a - 1
        /\ \A j \in 1..(b - a - 1) : u[j] = s[a + j]
  BY <1>1, SegmentIs
<1>2a. PICK b \in (a + 1)..(Len(s) + 1), u \in Seq(STRING) :
        /\ a = Cuts(s)[n - 1] /\ b = Cuts(s)[n] /\ u = Segment(s, n)
        /\ Len(u) = b - a - 1
        /\ \A j \in 1..(b - a - 1) : u[j] = s[a + j]
  BY <1>2
<1>3. PICK c \in 0..Len(t) : \E d \in (c + 1)..(Len(t) + 1), v \in Seq(STRING) :
        /\ c = Cuts(t)[n - 1] /\ d = Cuts(t)[n] /\ v = Segment(t, n)
        /\ Len(v) = d - c - 1
        /\ \A j \in 1..(d - c - 1) : v[j] = t[c + j]
  BY <1>1, SegmentIs
<1>3a. PICK d \in (c + 1)..(Len(t) + 1), v \in Seq(STRING) :
        /\ c = Cuts(t)[n - 1] /\ d = Cuts(t)[n] /\ v = Segment(t, n)
        /\ Len(v) = d - c - 1
        /\ \A j \in 1..(d - c - 1) : v[j] = t[c + j]
  BY <1>3
<1>4. ASSUME u = v
      PROVE  b - a = d - c /\ \A j \in 1..(b - a - 1) : s[a + j] = t[c + j]
  <2>1. b - a - 1 = d - c - 1
    BY <1>2a, <1>3a, <1>4
  <2>2. b - a = d - c
    BY <2>1
  <2>3. ASSUME NEW j \in 1..(b - a - 1) PROVE s[a + j] = t[c + j]
    BY <1>2a, <1>3a, <1>4, <2>1
  <2> QED BY <2>2, <2>3
<1>5. ASSUME b - a = d - c, \A j \in 1..(b - a - 1) : s[a + j] = t[c + j]
      PROVE  u = v
  <2>1. b - a - 1 = d - c - 1
    BY <1>5
  <2>2. Len(u) = Len(v)
    BY <1>2a, <1>3a, <2>1
  <2>3. ASSUME NEW j \in 1..Len(u) PROVE u[j] = v[j]
    <3>1. j \in 1..(b - a - 1) /\ j \in 1..(d - c - 1)
      BY <1>2a, <2>1
    <3>2. u[j] = s[a + j] /\ v[j] = t[c + j]
      BY <1>2a, <1>3a, <3>1
    <3>3. s[a + j] = t[c + j]
      BY <1>5, <3>1
    <3> QED BY <3>2, <3>3
  <2> QED BY <2>2, <2>3, SameElements
<1> QED BY <1>2a, <1>3a, <1>4, <1>5

\* What is ahead of a cut says what kind of segment begins there.
LEMMA AheadSays ==
  ASSUME key \in Seq(STRING), NEW n \in Nat \ {0}, n + 1 <= Count(key)
  PROVE  /\ Cuts(key)[n] \in 1..Len(key) /\ key[Cuts(key)[n]] = "/"
         /\ IsStar(key, n + 1) <=> Ahead(Cuts(key)[n]) = "*"
         /\ IsField(key, n + 1) <=> Ahead(Cuts(key)[n]) \in {":", "{"}
<1>1. n + 1 \in 1..Count(key) /\ n \in 1..Count(key)
      /\ n - 1 \in 0..Len(key) /\ n \in 0..Len(key) /\ (n + 1) - 1 = n
      /\ (n - 1) + 1 = n /\ n + 1 > 1
  BY CountIs
<1>2. PICK a \in 1..Len(key) : a = Cuts(key)[n]
  <2>1. PICK c \in 0..Len(key) : c = Cuts(key)[(n + 1) - 1]
    BY <1>1, SegmentIs
  <2>2. n <= c
    BY <1>1, <2>1, CutType
  <2> QED BY <1>1, <2>1, <2>2
<1>3. key[a] = "/"
  <2>1. Cuts(key)[(n - 1) + 1] <= Len(key)
             => key[Cuts(key)[(n - 1) + 1]] = "/"
    BY <1>1, CutNext
  <2> QED BY <1>1, <1>2, <2>1
<1>4. PICK b \in (a + 1)..(Len(key) + 1), u \in Seq(STRING) :
        /\ b = Cuts(key)[n + 1] /\ u = Segment(key, n + 1)
        /\ Len(u) = b - a - 1
        /\ \A j \in 1..(b - a - 1) : u[j] = key[a + j]
  <2>1. PICK c \in 0..Len(key) :
          \E b \in (c + 1)..(Len(key) + 1), u \in Seq(STRING) :
            /\ c = Cuts(key)[(n + 1) - 1]
            /\ b = Cuts(key)[n + 1] /\ u = Segment(key, n + 1)
            /\ Len(u) = b - c - 1
            /\ \A j \in 1..(b - c - 1) : u[j] = key[c + j]
    BY <1>1, SegmentIs
  <2>2. c = a
    BY <1>1, <1>2, <2>1
  <2> QED BY <2>1, <2>2
<1>5. /\ b <= Len(key) => key[b] = "/"
      /\ \A j \in (a + 1)..(b - 1) : key[j] # "/"
  BY <1>1, <1>2, <1>4, CutNext
<1>6. Ahead(a) = IF a < Len(key) THEN key[a + 1] ELSE ""
  BY <1>3 DEF Ahead
<1>7. CASE b = a + 1
  <2>1. u = <<>>
    <3>1. Len(u) = b - a - 1 /\ b - a - 1 = 0
      BY <1>4, <1>7
    <3> QED BY <3>1
  <2>2. Ahead(a) \in {"/", ""}
    <3>1. CASE a < Len(key)
      <4>1. a + 1 <= Len(key) /\ key[a + 1] = "/"
        BY <1>5, <1>7, <3>1
      <4> QED BY <1>6, <3>1, <4>1
    <3>2. CASE ~(a < Len(key))
      BY <1>6, <3>2
    <3> QED BY <3>1, <3>2
  <2>3. ~Starts(u, "*") /\ ~Starts(u, ":") /\ ~Starts(u, "{")
    BY <2>1 DEF Starts
  <2> QED BY <1>2, <1>3, <1>4, <2>2, <2>3 DEF IsStar, IsField
<1>8. CASE b # a + 1
  <2>1. 1 \in 1..(b - a - 1) /\ a < Len(key)
    <3>1. b \in Nat /\ a \in Nat /\ a + 1 < b /\ b <= Len(key) + 1
      BY <1>8
    <3> QED BY <3>1
  <2>2. u[1] = key[a + 1] /\ Ahead(a) = key[a + 1]
    BY <1>4, <1>6, <2>1
  <2>3. u # <<>>
    <3>1. Len(u) # 0
      BY <1>4, <2>1
    <3> QED BY <3>1
  <2>4. \A c : Starts(u, c) <=> Ahead(a) = c
    BY <2>2, <2>3 DEF Starts
  <2> QED BY <1>1, <1>2, <1>3, <1>4, <2>4 DEF IsStar, IsField
<1> QED BY <1>7, <1>8

\* StarAt is the first "*" segment, or behind the end.
LEMMA StarAtIs ==
  ASSUME NEW p \in Seq(STRING)
  PROVE  /\ StarAt(p) \in 1..(Count(p) + 1)
         /\ \A n \in 1..(StarAt(p) - 1) : ~IsStar(p, n)
         /\ StarAt(p) <= Count(p) => IsStar(p, StarAt(p))
<1> DEFINE at == {n \in 1..Count(p) : IsStar(p, n)}
<1>0. PICK c \in Nat : c = Count(p)
  BY CountIs
<1>1. StarAt(p) = IF at = {} THEN c + 1
                  ELSE CHOOSE n \in at : \A j \in at : n <= j
  BY <1>0 DEF StarAt
<1>2. /\ at \subseteq Nat
      /\ \A j \in at : j \in 1..c /\ IsStar(p, j)
      /\ \A j \in 1..c : IsStar(p, j) => j \in at
  BY <1>0
<1> HIDE DEF at
<1>3. CASE at = {}
  <2>1. StarAt(p) = c + 1
    BY <1>1, <1>3
  <2>2. \A n \in 1..c : ~IsStar(p, n)
    BY <1>2, <1>3
  <2> QED BY <1>0, <2>1, <2>2
<1>4. CASE at # {}
  <2>1. \E n \in at : \A j \in at : n <= j
    BY <1>2, <1>4, LeastNumber
  <2>2. PICK i \in at : i = StarAt(p) /\ \A j \in at : i <= j
    BY <1>1, <1>4, <2>1
  <2>3. i \in 1..c /\ IsStar(p, i)
    BY <1>2
  <2>4. ASSUME NEW n \in 1..(i - 1) PROVE ~IsStar(p, n)
    <3>1. n \in 1..c /\ ~(i <= n)
      BY <1>0, <2>3
    <3> QED BY <1>2, <2>2, <3>1
  <2> QED BY <1>0, <2>2, <2>3, <2>4
<1> QED BY <1>3, <1>4

\* What match() captures of p, with the names that it stores: the last value
\* for a name that occurs twice.
NameOf(p, n) ==
  IF IsStar(p, n) THEN Tail(Segment(p, n)) ELSE Segment(p, n)

LastOf(places) == CHOOSE n \in places : \A j \in places : j <= n

CapturedAt(p, path, places) ==
  [x \in {NameOf(p, n) : n \in places} |->
     ValueOf(p, path, LastOf({n \in places : NameOf(p, n) = x}))]

Captured(p, path) == CapturedAt(p, path, Capturing(p))

\* The capture of one place more is written over those before.
LEMMA CapturedMore ==
  ASSUME NEW p, NEW path, NEW places \in SUBSET Nat, NEW n \in Nat,
         \A m \in places : m < n
  PROVE  CapturedAt(p, path, places \union {n}) =
           Put(CapturedAt(p, path, places), NameOf(p, n), ValueOf(p, path, n))
<1> DEFINE more == places \union {n}
           f == CapturedAt(p, path, places)
           At1(x) == {m \in places : NameOf(p, m) = x}
           At2(x) == {m \in more : NameOf(p, m) = x}
           names == {NameOf(p, m) : m \in places}
<1>1. f = [x \in names |-> ValueOf(p, path, LastOf(At1(x)))]
  BY DEF CapturedAt
<1>2. CapturedAt(p, path, more) =
        [x \in {NameOf(p, m) : m \in more} |-> ValueOf(p, path, LastOf(At2(x)))]
  BY DEF CapturedAt
<1>3. {NameOf(p, m) : m \in more} = {NameOf(p, n)} \union names
  OBVIOUS
<1>4. \A x : x # NameOf(p, n) => At2(x) = At1(x)
  OBVIOUS
<1>5. LastOf(At2(NameOf(p, n))) = n
  <2> DEFINE S == At2(NameOf(p, n))
  <2>1. n \in S /\ \A j \in S : j \in Nat /\ j <= n
    OBVIOUS
  <2> HIDE DEF S
  <2>2. PICK m \in S : m = LastOf(S) /\ \A j \in S : j <= m
    BY <2>1 DEF LastOf
  <2>3. m \in Nat /\ m <= n /\ n <= m
    BY <2>1, <2>2
  <2>4. m = n
    BY <2>3
  <2> QED BY <2>2, <2>4 DEF S
<1>6. Put(f, NameOf(p, n), ValueOf(p, path, n)) =
        [x \in {NameOf(p, n)} \union DOMAIN f |->
           IF x \in {NameOf(p, n)} THEN ValueOf(p, path, n) ELSE f[x]]
  BY DEF Put, Over
<1> HIDE DEF f, At1, At2, names, more
<1>7. DOMAIN f = names
  BY <1>1
<1>8. \A x \in {NameOf(p, n)} \union names :
        ValueOf(p, path, LastOf(At2(x))) =
          IF x \in {NameOf(p, n)} THEN ValueOf(p, path, n) ELSE f[x]
  BY <1>1, <1>4, <1>5
<1>9. CapturedAt(p, path, more) = Put(f, NameOf(p, n), ValueOf(p, path, n))
  BY <1>2, <1>3, <1>6, <1>7, <1>8
<1> QED BY <1>9 DEF f, more
-----------------------------------------------------------------------------
\* The first n segments of key fit those of the path, and none is a "*".
Led(n) == /\ n <= Count(key) /\ n <= Count(Path)
          /\ \A i \in 1..n : ~IsStar(key, i) /\ Fits(key, Path, i)

\* What is captured in the first n segments.
Taken(n) ==
  CapturedAt(key, Path, {i \in 1..n : IsStar(key, i) \/ IsField(key, i)})

\* Both pointers are at their n-th cut.
AtCut(n) ==
  /\ Led(n) /\ fault = "none"
  /\ kp = Cuts(key)[n] /\ vp = Cuts(Path)[n]
  /\ matches = Taken(n)

\* Both are behind the first d characters of an n-th segment that is literal.
Within(n, d) ==
  /\ Led(n - 1) /\ n <= Count(key) /\ n <= Count(Path) /\ fault = "none"
  /\ ~IsStar(key, n) /\ ~IsField(key, n)
  /\ kp = Cuts(key)[n - 1] + 1 + d /\ kp <= Cuts(key)[n]
  /\ vp = Cuts(Path)[n - 1] + 1 + d /\ vp <= Cuts(Path)[n]
  /\ \A j \in 1..d : key[Cuts(key)[n - 1] + j] = Path[Cuts(Path)[n - 1] + j]
  /\ matches = Taken(n - 1)

\* The n-th segment is a "*" and has taken the rest of the path.
BehindStar(n) ==
  /\ Led(n - 1) /\ n <= Count(key) /\ n <= Count(Path)
  /\ IsStar(key, n)
  /\ kp = Cuts(key)[n] /\ vp = Len(Path) + 1
  /\ matches = Taken(n)
  /\ fault = IF kp < Len(key) THEN "match: * usage" ELSE "none"

\* Where the two pointers are while match() scans an entry.
Scanning == \E n \in Nat \ {0} : \/ AtCut(n) \/ BehindStar(n)
                                 \/ \E d \in Nat : Within(n, d)

\* Entries that were tried do not serve the request, nor should they end it.
Passed(tried) ==
  \A p \in tried : ~Right(p) /\ ~(Misused(p) /\ Leads(p, Path))

\* The types, and that a fatal message comes from where it is given.
RouterTypes ==
  /\ DOMAIN entries \subseteq Patterns /\ todo \subseteq DOMAIN entries
  /\ req.path \in Seq(STRING)
  /\ pc \in {"setup", "idle", "next", "scan", "handler", "answered"}
  /\ fault \in {"none", "route: duplicate", "match: * usage"}
  /\ fault = "route: duplicate" => pc = "setup"
  /\ fault = "match: * usage" => pc = "scan"

\* The entry that the request has got is right, with its own captures.
Serves == /\ key \in DOMAIN entries /\ Right(key)
          /\ pathMatches = Captured(key, Path)

\* The inductive invariant.
RouterInv ==
  /\ RouterTypes
  /\ pc \in {"setup", "idle", "next", "scan"} => pathMatches = NoMatches
  /\ pc = "next" => Passed(DOMAIN entries \ todo)
  /\ pc = "scan" => /\ key \in DOMAIN entries \ todo
                    /\ Passed((DOMAIN entries \ todo) \ {key})
                    /\ Scanning
  /\ pc = "handler" => Serves
  /\ pc = "answered" =>
       IF result = NotImplemented
       THEN pathMatches = NoMatches /\ Passed(DOMAIN entries)
       ELSE Serves

\* There is only one place that FirstAt can be.
LEMMA FirstAtOnly ==
  ASSUME NEW s \in Seq(STRING), NEW from \in 1..(Len(s) + 1), NEW c,
         NEW i \in from..(Len(s) + 1),
         \A j \in from..(i - 1) : s[j] # c, i <= Len(s) => s[i] = c
  PROVE  FirstAt(s, from, c) = i
<1>1. from \in 1..(Len(s) + 2)
  OBVIOUS
<1>2. PICK k \in from..(Len(s) + 1) :
        /\ k = FirstAt(s, from, c)
        /\ \A j \in from..(k - 1) : s[j] # c
        /\ k <= Len(s) => s[k] = c
  <2>1. /\ FirstAt(s, from, c) \in 1..(Len(s) + 1)
        /\ from <= FirstAt(s, from, c)
        /\ \A j \in from..(FirstAt(s, from, c) - 1) : s[j] # c
        /\ FirstAt(s, from, c) <= Len(s) => s[FirstAt(s, from, c)] = c
    BY <1>1, FirstAtIs
  <2> QED BY <2>1
<1>3. ~(i < k)
  BY <1>2
<1>4. ~(k < i)
  BY <1>2
<1> QED BY <1>2, <1>3, <1>4

\* Without its first element a part begins one place later.
LEMMA TailOf ==
  ASSUME NEW s \in Seq(STRING), NEW a \in 0..Len(s),
         NEW b \in (a + 2)..(Len(s) + 1)
  PROVE  Tail(SubSeq(s, a + 1, b - 1)) = SubSeq(s, a + 2, b - 1)
<1>1. /\ a + 1 \in 0..Len(s) /\ b \in ((a + 1) + 1)..(Len(s) + 1)
      /\ (a + 1) + 1 = a + 2 /\ b \in (a + 1)..(Len(s) + 1)
  OBVIOUS
<1>2. PICK u \in Seq(STRING) : /\ u = SubSeq(s, a + 1, b - 1)
                               /\ Len(u) = b - a - 1
                               /\ \A j \in 1..(b - a - 1) : u[j] = s[a + j]
  BY <1>1, PartOf
<1>3. PICK c \in 0..Len(s) : c = a + 1
  BY <1>1
<1>4. PICK v \in Seq(STRING) : /\ v = SubSeq(s, c + 1, b - 1)
                               /\ Len(v) = b - c - 1
                               /\ \A j \in 1..(b - c - 1) : v[j] = s[c + j]
  <2>1. b \in (c + 1)..(Len(s) + 1)
    BY <1>1, <1>3
  <2> QED BY <2>1, PartOf
<1>5. u # <<>> /\ Len(u) >= 1
  BY <1>2
<1>6. /\ Tail(u) \in Seq(STRING) /\ Len(Tail(u)) = Len(u) - 1
      /\ \A j \in 1..(Len(u) - 1) : Tail(u)[j] = u[j + 1]
  BY <1>5
<1>7. Len(Tail(u)) = Len(v) /\ Len(v) = b - c - 1 /\ Len(u) - 1 = b - c - 1
  BY <1>2, <1>3, <1>4, <1>6
<1>8. ASSUME NEW j \in 1..Len(Tail(u)) PROVE Tail(u)[j] = v[j]
  <2>1. /\ j \in 1..(Len(u) - 1) /\ j \in 1..(b - c - 1)
        /\ j + 1 \in 1..(b - a - 1) /\ a + (j + 1) = c + j
    BY <1>2, <1>3, <1>6, <1>7
  <2>2. Tail(u)[j] = u[j + 1] /\ u[j + 1] = s[a + (j + 1)] /\ v[j] = s[c + j]
    BY <1>2, <1>4, <1>6, <2>1
  <2> QED BY <2>1, <2>2
<1>9. Tail(u) = v
  BY <1>6, <1>7, <1>8, SameElements
<1> QED BY <1>1, <1>2, <1>3, <1>4, <1>9

\* What follows of the request's path is that of key and Path alone.
LEMMA ScanFrame ==
  ASSUME UNCHANGED <<key, req>>
  PROVE  /\ Path' = Path
         /\ \A n : (Led(n)' <=> Led(n)) /\ Taken(n)' = Taken(n)
<1>1. Path' = Path
  BY DEF Path
<1>2. ASSUME NEW n PROVE Led(n)' <=> Led(n)
  BY <1>1 DEF Led
<1>3. ASSUME NEW n PROVE Taken(n)' = Taken(n)
  BY <1>1 DEF Taken
<1> QED BY <1>1, <1>2, <1>3

\* The path without what follows a "?".
LEMMA PathType ==
  ASSUME req.path \in Seq(STRING)
  PROVE  Path \in Seq(STRING)
<1>1. PICK s \in Seq(STRING) : s = req.path
  OBVIOUS
<1>2. PICK i \in 1..(Len(s) + 1) : i = FirstAt(s, 1, "?")
  <2>1. 1 \in 1..(Len(s) + 2)
    OBVIOUS
  <2> QED BY <2>1, FirstAtIs
<1>3. SubSeq(s, 1, i - 1) \in Seq(STRING)
  <2>1. 0 \in 0..Len(s) /\ i \in (0 + 1)..(Len(s) + 1) /\ 0 + 1 = 1
    OBVIOUS
  <2> QED BY <2>1, PartOf
<1> QED BY <1>1, <1>2, <1>3 DEF Path

\* One segment more has been captured, or has not.
LEMMA TakenMore ==
  ASSUME NEW n \in Nat \ {0}
  PROVE  Taken(n) = IF IsStar(key, n) \/ IsField(key, n)
                    THEN Put(Taken(n - 1), NameOf(key, n), ValueOf(key, Path, n))
                    ELSE Taken(n - 1)
<1> DEFINE In(m) == {i \in 1..m : IsStar(key, i) \/ IsField(key, i)}
<1>1. Taken(n) = CapturedAt(key, Path, In(n))
      /\ Taken(n - 1) = CapturedAt(key, Path, In(n - 1))
  BY DEF Taken
<1>2. \A i : i \in 1..n <=> i \in 1..(n - 1) \/ i = n
  OBVIOUS
<1>3. CASE IsStar(key, n) \/ IsField(key, n)
  <2>1. In(n) = In(n - 1) \union {n}
    BY <1>2, <1>3
  <2>2. In(n - 1) \in SUBSET Nat /\ \A m \in In(n - 1) : m < n
    OBVIOUS
  <2> HIDE DEF In
  <2>3. CapturedAt(key, Path, In(n - 1) \union {n}) =
          Put(CapturedAt(key, Path, In(n - 1)),
              NameOf(key, n), ValueOf(key, Path, n))
    BY <2>2, CapturedMore
  <2> QED BY <1>1, <1>3, <2>1, <2>3
<1>4. CASE ~(IsStar(key, n) \/ IsField(key, n))
  <2>1. In(n) = In(n - 1)
    BY <1>2, <1>4
  <2> HIDE DEF In
  <2> QED BY <1>1, <1>4, <2>1
<1> QED BY <1>3, <1>4

\* At a "/" both pointers are at the same cut, and a segment begins there.
LEMMA AtSlash ==
  ASSUME key \in Seq(STRING), Path \in Seq(STRING), Scanning, Same,
         key[kp] = "/"
  PROVE  \E n \in Nat \ {0} : /\ AtCut(n)
                              /\ n + 1 <= Count(key) /\ n + 1 <= Count(Path)
<1>0. /\ Count(key) \in 1..(Len(key) + 1) /\ Count(Path) \in 1..(Len(Path) + 1)
      /\ Cuts(key)[Count(key)] = Len(key) + 1
      /\ Cuts(Path)[Count(Path)] = Len(Path) + 1
  BY CountIs
<1>1. kp <= Len(key) /\ vp <= Len(Path) /\ Path[vp] = "/"
  BY DEF Same
<1>2. ASSUME NEW n \in Nat \ {0}, AtCut(n)
      PROVE  n + 1 <= Count(key) /\ n + 1 <= Count(Path)
  <2>1. /\ n <= Count(key) /\ n <= Count(Path)
        /\ Cuts(key)[n] <= Len(key) /\ Cuts(Path)[n] <= Len(Path)
    BY <1>1, <1>2 DEF AtCut, Led
  <2>2. n # Count(key) /\ n # Count(Path)
    BY <1>0, <2>1
  <2> QED BY <1>0, <2>1, <2>2
<1>3. ASSUME NEW n \in Nat \ {0}, NEW d \in Nat, Within(n, d)
      PROVE  AtCut(n)
  <2>1. /\ n \in 1..Count(key) /\ n \in 1..Count(Path)
        /\ n - 1 \in 0..Len(key) /\ n - 1 \in 0..Len(Path) /\ (n - 1) + 1 = n
    BY <1>0, <1>3 DEF Within
  <2>2. PICK a \in 0..Len(key) :
          \E b \in (a + 1)..(Len(key) + 1), u \in Seq(STRING) :
            a = Cuts(key)[n - 1] /\ b = Cuts(key)[n]
    BY <2>1, SegmentIs
  <2>2b. PICK b \in (a + 1)..(Len(key) + 1) :
          /\ a = Cuts(key)[n - 1] /\ b = Cuts(key)[n]
          /\ \A j \in (a + 1)..(b - 1) : key[j] # "/"
    <3>1. \A j \in (Cuts(key)[n - 1] + 1)..(Cuts(key)[n] - 1) : key[j] # "/"
      BY <2>1, CutNext
    <3> QED BY <2>2, <3>1
  <2>3. PICK c \in 0..Len(Path) :
          \E e \in (c + 1)..(Len(Path) + 1), u \in Seq(STRING) :
            c = Cuts(Path)[n - 1] /\ e = Cuts(Path)[n]
    BY <2>1, SegmentIs
  <2>3b. PICK e \in (c + 1)..(Len(Path) + 1) :
          /\ c = Cuts(Path)[n - 1] /\ e = Cuts(Path)[n]
          /\ \A j \in (c + 1)..(e - 1) : Path[j] # "/"
    <3>1. \A j \in (Cuts(Path)[n - 1] + 1)..(Cuts(Path)[n] - 1) : Path[j] # "/"
      BY <2>1, CutNext
    <3> QED BY <2>3, <3>1
  <2>4. /\ kp = a + 1 + d /\ kp <= b /\ vp = c + 1 + d /\ vp <= e
        /\ \A j \in 1..d : key[a + j] = Path[c + j]
    BY <1>3, <2>2b, <2>3b DEF Within
  <2>5. kp = b
    <3>1. kp \in Int /\ kp <= b /\ (kp < b => kp \in (a + 1)..(b - 1))
      BY <2>4
    <3>2. ~(kp < b)
      BY <2>2b, <3>1
    <3> QED BY <3>1, <3>2
  <2>6. vp = e
    <3>1. vp \in Int /\ vp <= e /\ (vp < e => vp \in (c + 1)..(e - 1))
      BY <2>4
    <3>2. ~(vp < e)
      BY <1>1, <2>3b, <3>1
    <3> QED BY <3>1, <3>2
  <2>7. d = b - a - 1 /\ b - a = e - c
    BY <2>4, <2>5, <2>6
  <2>8. Segment(key, n) = Segment(Path, n)
    BY <2>1, <2>2b, <2>3b, <2>4, <2>7, SameSegment
  <2>9. Led(n)
    <3>1. \A i \in 1..n : i \in 1..(n - 1) \/ i = n
      OBVIOUS
    <3> QED BY <1>3, <2>8, <3>1 DEF Within, Led, Fits
  <2>10. Taken(n) = Taken(n - 1)
    BY <1>3, TakenMore DEF Within
  <2> QED BY <1>3, <2>2b, <2>3b, <2>5, <2>6, <2>9, <2>10 DEF AtCut, Within
<1>4. ASSUME NEW n, BehindStar(n) PROVE FALSE
  <2>1. vp = Len(Path) + 1
    BY <1>4 DEF BehindStar
  <2> QED BY <1>1, <2>1
<1> QED BY <1>2, <1>3, <1>4 DEF Scanning

\* The n-th segment of s lies between the places a and b.
Spans(s, n, a, b) ==
  /\ a \in Nat /\ b \in Nat /\ a < b /\ b <= Len(s) + 1
  /\ a = Cuts(s)[n - 1] /\ b = Cuts(s)[n] /\ b = FirstAt(s, a + 1, "/")
  /\ Segment(s, n) \in Seq(STRING) /\ Len(Segment(s, n)) = b - a - 1
  /\ \A j \in 1..(b - a - 1) : Segment(s, n)[j] = s[a + j]
  /\ \A j \in (a + 1)..(b - 1) : s[j] # "/"
  /\ b <= Len(s) => s[b] = "/"

\* Each of its segments lies somewhere.
LEMMA SpanOf ==
  ASSUME NEW s \in Seq(STRING), NEW n \in Nat \ {0}, n <= Count(s)
  PROVE  \E a, b : Spans(s, n, a, b)
<1>1. n \in 1..Count(s) /\ n - 1 \in 0..Len(s) /\ (n - 1) + 1 = n
  BY CountIs
<1>2. PICK a \in 0..Len(s) : \E b \in (a + 1)..(Len(s) + 1), u \in Seq(STRING) :
        /\ a = Cuts(s)[n - 1] /\ b = Cuts(s)[n] /\ u = Segment(s, n)
        /\ Len(u) = b - a - 1
        /\ \A j \in 1..(b - a - 1) : u[j] = s[a + j]
  BY <1>1, SegmentIs
<1>3. PICK b \in (a + 1)..(Len(s) + 1), u \in Seq(STRING) :
        /\ a = Cuts(s)[n - 1] /\ b = Cuts(s)[n] /\ u = Segment(s, n)
        /\ Len(u) = b - a - 1
        /\ \A j \in 1..(b - a - 1) : u[j] = s[a + j]
  BY <1>2
<1>4. /\ b = FirstAt(s, a + 1, "/")
      /\ \A j \in (a + 1)..(b - 1) : s[j] # "/"
      /\ b <= Len(s) => s[b] = "/"
  BY <1>1, <1>3, CutNext
<1>5. a \in Nat /\ b \in Nat /\ a < b /\ b <= Len(s) + 1
  OBVIOUS
<1>6. Spans(s, n, a, b)
  BY <1>3, <1>4, <1>5 DEF Spans
<1> QED BY <1>6

\* match() begins with both pointers at their beginnings.
LEMMA EntryScans ==
  ASSUME NextEntry, key' \in Seq(STRING), Path' \in Seq(STRING)
  PROVE  Scanning'
<1>1. /\ kp' = 1 /\ vp' = 1 /\ matches' = NoMatches /\ fault' = "none"
  BY DEF NextEntry, At
<1>2. /\ 1 <= Count(key') /\ 1 <= Count(Path')
      /\ 0 <= Count(key') /\ 0 <= Count(Path')
  BY CountIs
<1>3. /\ Cuts(key')[0] = 0 /\ Cuts(Path')[0] = 0
      /\ Cuts(key')[1] >= 1 /\ Cuts(Path')[1] >= 1
  <2>1. \A s \in Seq(STRING) : Cuts(s)[0] = 0 /\ 1 \in 0..(Len(s) + 1)
    BY CutsAre
  <2>2. \A s \in Seq(STRING) : Cuts(s)[1] >= 1
    BY <2>1, CutType
  <2> QED BY <2>1, <2>2
<1>4. Taken(0)' = NoMatches
  <2>1. {i \in 1..0 : IsStar(key', i) \/ IsField(key', i)} = {}
    OBVIOUS
  <2>2. Taken(0)' = [x \in {} |->
          ValueOf(key', Path', LastOf({n \in {} : NameOf(key', n) = x}))]
    BY <2>1 DEF Taken, CapturedAt
  <2> QED BY <2>2 DEF NoMatches
<1>5. Led(0)'
  BY <1>2 DEF Led
<1>6. ~IsStar(key', 1) /\ ~IsField(key', 1)
  BY DEF IsStar, IsField
<1>7. Within(1, 0)'
  BY <1>1, <1>2, <1>3, <1>4, <1>5, <1>6 DEF Within
<1>8. 1 \in Nat \ {0} /\ 0 \in Nat
  OBVIOUS
<1> QED BY <1>7, <1>8 DEF Scanning

\* One character of both is the same.
LEMMA LiteralScans ==
  ASSUME key \in Seq(STRING), Path \in Seq(STRING), Scanning, Literal
  PROVE  Scanning'
<1>1. /\ Same /\ UNCHANGED <<key, req, matches, fault>>
      /\ kp' = kp + 1 /\ vp' = vp + 1 /\ fault = "none"
      /\ Ahead(kp) \notin {"*", ":", "{"}
  BY DEF Literal, Same, At
<1>2. Path' = Path /\ \A n : (Led(n)' <=> Led(n)) /\ Taken(n)' = Taken(n)
  BY <1>1, ScanFrame
<1>3. CASE key[kp] = "/"
  <2>1. PICK n \in Nat \ {0} :
          AtCut(n) /\ n + 1 <= Count(key) /\ n + 1 <= Count(Path)
    BY <1>1, <1>3, AtSlash
  <2>2. kp = Cuts(key)[n] /\ vp = Cuts(Path)[n] /\ Led(n) /\ matches = Taken(n)
    BY <2>1 DEF AtCut
  <2>3. ~IsStar(key, n + 1) /\ ~IsField(key, n + 1)
    BY <1>1, <2>1, <2>2, AheadSays
  <2>4. PICK m \in Nat \ {0} :
          m = n + 1 /\ m - 1 = n /\ m <= Count(key) /\ m <= Count(Path)
    BY <2>1
  <2>5. PICK a, b : Spans(key, m, a, b)
    BY <2>4, SpanOf
  <2>6. PICK c, e : Spans(Path, m, c, e)
    BY <2>4, SpanOf
  <2>7. /\ kp' = Cuts(key)[m - 1] + 1 + 0 /\ kp' <= Cuts(key)[m]
        /\ vp' = Cuts(Path)[m - 1] + 1 + 0 /\ vp' <= Cuts(Path)[m]
    <3>1. a = Cuts(key)[m - 1] /\ b = Cuts(key)[m]
          /\ c = Cuts(Path)[m - 1] /\ e = Cuts(Path)[m]
          /\ a \in Nat /\ b \in Nat /\ a < b /\ c \in Nat /\ e \in Nat /\ c < e
      BY <2>5, <2>6 DEF Spans
    <3>2. a + 1 = a + 1 + 0 /\ a + 1 <= b /\ c + 1 = c + 1 + 0 /\ c + 1 <= e
      <4>1. /\ a \in Nat /\ b \in Nat /\ a < b
            /\ c \in Nat /\ e \in Nat /\ c < e
        BY <3>1
      <4> QED BY <4>1
    <3> QED BY <1>1, <2>2, <2>4, <3>1, <3>2
  <2>8. Within(m, 0)'
    <3>1. Led(m - 1)' /\ matches' = Taken(m - 1)' /\ fault' = "none"
      BY <1>1, <1>2, <2>2, <2>4
    <3>2. /\ m <= Count(key') /\ m <= Count(Path')
          /\ ~IsStar(key', m) /\ ~IsField(key', m)
          /\ kp' = Cuts(key')[m - 1] + 1 + 0 /\ kp' <= Cuts(key')[m]
          /\ vp' = Cuts(Path')[m - 1] + 1 + 0 /\ vp' <= Cuts(Path')[m]
      BY <1>1, <1>2, <2>1, <2>3, <2>4, <2>7
    <3> QED BY <3>1, <3>2 DEF Within
  <2> QED BY <2>8 DEF Scanning
<1>4. CASE key[kp] # "/"
  <2>1. PICK n \in Nat \ {0}, d \in Nat : Within(n, d)
    <3>1. ASSUME NEW n \in Nat \ {0}, AtCut(n) PROVE FALSE
      <4>1. kp = Cuts(key)[n] /\ n <= Count(key)
        BY <3>1 DEF AtCut, Led
      <4>2. n - 1 \in 0..Len(key) /\ (n - 1) + 1 = n
        BY <4>1, CountIs
      <4>3. Cuts(key)[n] <= Len(key) => key[Cuts(key)[n]] = "/"
        BY <4>2, CutNext
      <4> QED BY <1>1, <1>4, <4>1, <4>3 DEF Same
    <3>2. ASSUME NEW n, BehindStar(n) PROVE FALSE
      <4>1. vp = Len(Path) + 1 /\ vp <= Len(Path)
        BY <1>1, <3>2 DEF BehindStar, Same
      <4> QED BY <4>1
    <3> QED BY <3>1, <3>2 DEF Scanning
  <2>2. PICK a, b : Spans(key, n, a, b)
    BY <2>1, SpanOf DEF Within
  <2>3. PICK c, e : Spans(Path, n, c, e)
    BY <2>1, SpanOf DEF Within
  <2>4. /\ a \in Nat /\ b \in Nat
        /\ b <= Len(key) => key[b] = "/"
        /\ a = Cuts(key)[n - 1] /\ b = Cuts(key)[n]
    BY <2>2 DEF Spans
  <2>5. /\ c \in Nat /\ e \in Nat
        /\ e <= Len(Path) => Path[e] = "/"
        /\ c = Cuts(Path)[n - 1] /\ e = Cuts(Path)[n]
    BY <2>3 DEF Spans
  <2>7. /\ kp = a + 1 + d /\ kp <= b /\ vp = c + 1 + d /\ vp <= e
        /\ \A j \in 1..d : key[a + j] = Path[c + j]
    BY <2>1, <2>4, <2>5 DEF Within
  <2>8. kp <= Len(key) /\ vp <= Len(Path) /\ key[kp] = Path[vp]
    BY <1>1 DEF Same
  <2>9. kp # b /\ vp # e
    <3>1. kp = b => key[kp] = "/"
      BY <2>4, <2>8
    <3>2. vp = e => Path[vp] = "/"
      BY <2>5, <2>8
    <3> QED BY <1>4, <2>8, <3>1, <3>2
  <2>10. /\ kp + 1 = a + 1 + (d + 1) /\ kp + 1 <= b
         /\ vp + 1 = c + 1 + (d + 1) /\ vp + 1 <= e
         /\ kp = a + (d + 1) /\ vp = c + (d + 1) /\ d + 1 \in Nat
    <3>1. a \in Nat /\ b \in Nat /\ c \in Nat /\ e \in Nat
      BY <2>4, <2>5
    <3>2. kp = a + 1 + d /\ kp <= b /\ vp = c + 1 + d /\ vp <= e
      BY <2>7
    <3>3. kp \in Int /\ vp \in Int
      BY <3>1, <3>2
    <3>4. kp + 1 <= b /\ vp + 1 <= e
      BY <2>9, <3>1, <3>2, <3>3
    <3>5. /\ a + 1 + d + 1 = a + 1 + (d + 1) /\ a + 1 + d = a + (d + 1)
          /\ c + 1 + d + 1 = c + 1 + (d + 1) /\ c + 1 + d = c + (d + 1)
      BY <3>1
    <3> QED BY <3>2, <3>4, <3>5
  <2>11. ASSUME NEW j \in 1..(d + 1) PROVE key[a + j] = Path[c + j]
    <3>1. CASE j = d + 1
      BY <2>8, <2>10, <3>1
    <3>2. CASE j # d + 1
      <4>1. j \in 1..d
        BY <3>2
      <4> QED BY <2>7, <4>1
    <3> QED BY <3>1, <3>2
  <2>12. Within(n, d + 1)'
    <3>1. /\ Led(n - 1)' /\ matches' = Taken(n - 1)' /\ fault' = "none"
          /\ n <= Count(key) /\ n <= Count(Path)
          /\ ~IsStar(key, n) /\ ~IsField(key, n)
      BY <1>1, <1>2, <2>1 DEF Within
    <3>2. /\ kp' = Cuts(key)[n - 1] + 1 + (d + 1) /\ kp' <= Cuts(key)[n]
          /\ vp' = Cuts(Path)[n - 1] + 1 + (d + 1) /\ vp' <= Cuts(Path)[n]
          /\ \A j \in 1..(d + 1) :
               key[Cuts(key)[n - 1] + j] = Path[Cuts(Path)[n - 1] + j]
      BY <1>1, <2>4, <2>5, <2>10, <2>11
    <3>3. key' = key /\ Path' = Path
      BY <1>1, <1>2
    <3> QED BY <3>1, <3>2, <3>3 DEF Within
  <2> QED BY <2>10, <2>12 DEF Scanning
<1> QED BY <1>3, <1>4

\* A field takes the segment of the path behind the same cut.
LEMMA FieldScans ==
  ASSUME key \in Seq(STRING), Path \in Seq(STRING), Scanning, MatchField
  PROVE  Scanning'
<1>1. /\ Same /\ UNCHANGED <<key, req, fault>> /\ Ahead(kp) \in {":", "{"}
      /\ kp' = FirstAt(key, kp + 1, "/") /\ vp' = FirstAt(Path, vp + 1, "/")
      /\ matches' = Put(matches, SubSeq(key, kp + 1, kp' - 1),
                        SubSeq(Path, vp + 1, vp' - 1))
  BY DEF MatchField
<1>2. key[kp] = "/"
  BY <1>1 DEF Ahead
<1>3. PICK n \in Nat \ {0} :
        AtCut(n) /\ n + 1 <= Count(key) /\ n + 1 <= Count(Path)
  BY <1>1, <1>2, AtSlash
<1>4. PICK m \in Nat \ {0} :
        m = n + 1 /\ m - 1 = n /\ m <= Count(key) /\ m <= Count(Path)
  BY <1>3
<1>5. PICK a, b : Spans(key, m, a, b)
  BY <1>4, SpanOf
<1>6. PICK c, e : Spans(Path, m, c, e)
  BY <1>4, SpanOf
<1>7. /\ a = Cuts(key)[n] /\ b = Cuts(key)[m] /\ b = FirstAt(key, a + 1, "/")
      /\ c = Cuts(Path)[n] /\ e = Cuts(Path)[m] /\ e = FirstAt(Path, c + 1, "/")
  BY <1>4, <1>5, <1>6 DEF Spans
<1>8. kp = a /\ vp = c /\ matches = Taken(n) /\ Led(n) /\ fault = "none"
  BY <1>3, <1>7 DEF AtCut
<1>9. kp' = b /\ vp' = e
  BY <1>1, <1>7, <1>8
<1>10. IsField(key, m) /\ ~IsStar(key, m)
  <2>1. /\ IsStar(key, n + 1) <=> Ahead(Cuts(key)[n]) = "*"
        /\ IsField(key, n + 1) <=> Ahead(Cuts(key)[n]) \in {":", "{"}
    BY <1>3, AheadSays
  <2> QED BY <1>1, <1>4, <1>7, <1>8, <2>1
<1>11. matches' = Put(Taken(n), NameOf(key, m), ValueOf(key, Path, m))
  <2>1. /\ NameOf(key, m) = Segment(key, m)
        /\ ValueOf(key, Path, m) = Segment(Path, m)
        /\ Segment(key, m) = SubSeq(key, a + 1, b - 1)
        /\ Segment(Path, m) = SubSeq(Path, c + 1, e - 1)
    BY <1>4, <1>7, <1>10 DEF NameOf, ValueOf, Segment
  <2> QED BY <1>1, <1>8, <1>9, <2>1
<1>12. Taken(m) = matches'
  BY <1>4, <1>10, <1>11, TakenMore
<1>13. Led(m)
  <2>1. \A i \in 1..m : i \in 1..n \/ i = m
    BY <1>4
  <2> QED BY <1>4, <1>8, <1>10, <2>1 DEF Led, Fits
<1>14. Path' = Path /\ Led(m)' /\ Taken(m)' = Taken(m)
  BY <1>1, <1>13, ScanFrame
<1>15. AtCut(m)'
  BY <1>1, <1>7, <1>8, <1>9, <1>12, <1>14 DEF AtCut
<1> QED BY <1>15 DEF Scanning

\* A "*" takes all that is left of the path.
LEMMA StarScans ==
  ASSUME key \in Seq(STRING), Path \in Seq(STRING), Scanning, Star
  PROVE  Scanning'
<1>1. /\ Same /\ UNCHANGED <<key, req>> /\ Ahead(kp) = "*"
      /\ kp' = FirstAt(key, kp + 2, "/") /\ vp' = Len(Path) + 1
      /\ matches' = Put(matches, SubSeq(key, kp + 2, kp' - 1),
                        SubSeq(Path, vp + 1, Len(Path)))
      /\ fault' = IF kp' < Len(key) THEN "match: * usage" ELSE fault
  BY DEF Star
<1>2. key[kp] = "/" /\ kp < Len(key) /\ key[kp + 1] = "*"
  BY <1>1 DEF Ahead
<1>3. PICK n \in Nat \ {0} :
        AtCut(n) /\ n + 1 <= Count(key) /\ n + 1 <= Count(Path)
  BY <1>1, <1>2, AtSlash
<1>4. PICK m \in Nat \ {0} :
        m = n + 1 /\ m - 1 = n /\ m <= Count(key) /\ m <= Count(Path)
  BY <1>3
<1>5. PICK a, b : Spans(key, m, a, b)
  BY <1>4, SpanOf
<1>6. /\ a = Cuts(key)[n] /\ b = Cuts(key)[m]
      /\ a \in Nat /\ b \in Nat /\ a < b /\ b <= Len(key) + 1
      /\ \A j \in (a + 1)..(b - 1) : key[j] # "/"
      /\ b <= Len(key) => key[b] = "/"
  BY <1>4, <1>5 DEF Spans
<1>7. /\ kp = a /\ vp = Cuts(Path)[n] /\ matches = Taken(n) /\ Led(n)
      /\ fault = "none"
  BY <1>3, <1>6 DEF AtCut
<1>8. a + 2 <= b /\ a + 2 \in 1..(Len(key) + 1) /\ a \in 0..Len(key)
      /\ b \in (a + 2)..(Len(key) + 1)
  <2>1. b # a + 1
    BY <1>2, <1>6, <1>7
  <2>2. a \in Nat /\ b \in Nat /\ a < b /\ b <= Len(key) + 1 /\ Len(key) \in Nat
    BY <1>6
  <2> QED BY <2>1, <2>2
<1>9. kp' = b
  <2>1. PICK f \in 1..(Len(key) + 1) : f = a + 2
    BY <1>8
  <2>2. PICK i \in f..(Len(key) + 1) : i = b
    BY <1>8, <2>1
  <2>3. /\ \A j \in f..(i - 1) : key[j] # "/"
        /\ i <= Len(key) => key[i] = "/"
    BY <1>6, <2>1, <2>2
  <2>4. FirstAt(key, f, "/") = i
    BY <2>3, FirstAtOnly
  <2> QED BY <1>1, <1>7, <2>1, <2>2, <2>4
<1>10. IsStar(key, m)
  <2>1. IsStar(key, n + 1) <=> Ahead(Cuts(key)[n]) = "*"
    BY <1>3, AheadSays
  <2> QED BY <1>1, <1>4, <1>6, <1>7, <2>1
<1>11. matches' = Put(Taken(n), NameOf(key, m), ValueOf(key, Path, m))
  <2>1. Tail(SubSeq(key, a + 1, b - 1)) = SubSeq(key, a + 2, b - 1)
    BY <1>8, TailOf
  <2>2. /\ NameOf(key, m) = SubSeq(key, a + 2, b - 1)
        /\ ValueOf(key, Path, m) = SubSeq(Path, vp + 1, Len(Path))
    BY <1>4, <1>6, <1>7, <1>10, <2>1 DEF NameOf, ValueOf, Segment, FromThere
  <2> QED BY <1>1, <1>7, <1>9, <2>2
<1>12. Taken(m) = matches'
  BY <1>4, <1>10, <1>11, TakenMore
<1>14. Path' = Path /\ Led(n)' /\ Taken(m)' = Taken(m)
  BY <1>1, <1>7, ScanFrame
<1>15. BehindStar(m)'
  <2>1. /\ Led(m - 1)' /\ m <= Count(key') /\ m <= Count(Path')
        /\ IsStar(key', m)
        /\ kp' = Cuts(key')[m] /\ vp' = Len(Path') + 1 /\ matches' = Taken(m)'
    BY <1>1, <1>4, <1>6, <1>9, <1>10, <1>12, <1>14
  <2>2. fault' = IF kp' < Len(key') THEN "match: * usage" ELSE "none"
    BY <1>1, <1>7
  <2> QED BY <2>1, <2>2 DEF BehindStar
<1> QED BY <1>15 DEF Scanning

\* Behind a "*" the path leads to it, and it is the first of key.
LEMMA BehindSays ==
  ASSUME key \in Seq(STRING), Path \in Seq(STRING),
         NEW n \in Nat \ {0}, BehindStar(n)
  PROVE  StarAt(key) = n /\ Leads(key, Path) /\ n <= Count(key)
<1>0. PICK k \in Nat \ {0}, v \in Nat \ {0} : k = Count(key) /\ v = Count(Path)
  BY CountIs
<1>1. PICK st \in 1..(k + 1) : /\ st = StarAt(key)
                               /\ \A i \in 1..(st - 1) : ~IsStar(key, i)
                               /\ st <= k => IsStar(key, st)
  BY <1>0, StarAtIs
<1>2. Led(n - 1) /\ n <= k /\ n <= v /\ IsStar(key, n)
  BY <1>0 DEF BehindStar
<1>3. st = n
  <2>1. ~(st \in 1..(n - 1))
    BY <1>0, <1>1, <1>2 DEF Led
  <2>2. ~(n \in 1..(st - 1))
    BY <1>1, <1>2
  <2> QED BY <2>1, <2>2
<1>4. Leads(key, Path)
  BY <1>0, <1>1, <1>2, <1>3 DEF Leads, Led
<1> QED BY <1>0, <1>1, <1>2, <1>3, <1>4

\* When the loop ends, both pointers are at the end exactly if key matches, and
\* then its captures are there; otherwise the path does not lead to a "*" of
\* key that is misused.
LEMMA EndSays ==
  ASSUME key \in Seq(STRING), Path \in Seq(STRING), Scanning, fault = "none",
         ~(kp <= Len(key) /\ vp <= Len(Path) /\ key[kp] = Path[vp]),
         kp \in Nat, vp \in Nat
  PROVE  IF kp > Len(key) /\ vp > Len(Path)
         THEN /\ Matching(key, Path) /\ ~Misused(key)
              /\ matches = Captured(key, Path)
         ELSE ~Matching(key, Path) /\ ~(Misused(key) /\ Leads(key, Path))
<1>0. PICK k \in Nat \ {0}, v \in Nat \ {0} : k = Count(key) /\ v = Count(Path)
  BY CountIs
<1>1. PICK st \in 1..(k + 1) : /\ st = StarAt(key)
                               /\ \A n \in 1..(st - 1) : ~IsStar(key, n)
                               /\ st <= k => IsStar(key, st)
  BY <1>0, StarAtIs
<1>2. Captured(key, Path) = Taken(k)
  <2>1. Capturing(key) = {i \in 1..k : IsStar(key, i) \/ IsField(key, i)}
    BY <1>0 DEF Capturing
  <2> QED BY <2>1 DEF Captured, Taken
<1>3. /\ Cuts(key)[k] = Len(key) + 1 /\ Cuts(Path)[v] = Len(Path) + 1
      /\ \A n \in 1..k : Cuts(key)[n] <= Len(key) <=> n < k
      /\ \A n \in 1..v : Cuts(Path)[n] <= Len(Path) <=> n < v
      /\ \A n \in 1..k : Cuts(key)[n] \in 0..(Len(key) + 1)
      /\ \A n \in 1..v : Cuts(Path)[n] \in 0..(Len(Path) + 1)
  <2>1. /\ k \in 1..(Len(key) + 1) /\ v \in 1..(Len(Path) + 1)
    BY <1>0, CountIs
  <2>2. /\ \A n \in 1..k : n \in 0..(Len(key) + 1)
        /\ \A n \in 1..v : n \in 0..(Len(Path) + 1)
    BY <2>1
  <2> QED BY <1>0, <2>2, CountIs, CutType
\* All of both has been gone through, without a "*".
<1>4. ASSUME Led(k), k = v
      PROVE  Matching(key, Path) /\ ~Misused(key)
  <2>1. st = k + 1
    <3>1. st <= k => st \in 1..k
      OBVIOUS
    <3> QED BY <1>0, <1>1, <1>4, <3>1 DEF Led
  <2> QED BY <1>0, <1>1, <1>4, <2>1 DEF Matching, Leads, Misused, Led
\* The n-th segments differ, or one of both has one more.
<1>5. ASSUME NEW n \in Nat \ {0}, Led(n - 1), n <= k, n <= v, ~IsStar(key, n),
             Leads(key, Path), ~Fits(key, Path, n)
      PROVE  FALSE
  <2>1. n < st
    <3>1. st <= n => st \in 1..(n - 1) \/ st = n
      OBVIOUS
    <3>2. ~(st \in 1..(n - 1))
      BY <1>0, <1>1, <1>5 DEF Led
    <3> QED BY <1>0, <1>1, <1>5, <3>1, <3>2
  <2>2. n \in 1..(st - 1)
    BY <2>1
  <2> QED BY <1>1, <1>5, <2>2 DEF Leads
<1>6. ASSUME NEW n \in Nat \ {0}, Led(n), Leads(key, Path)
      PROVE  n = k <=> n = v
  <2>1. n < st /\ n <= k /\ n <= v
    <3>1. st <= n => st \in 1..n
      OBVIOUS
    <3> QED BY <1>0, <1>1, <1>6, <3>1 DEF Led
  <2> QED BY <1>0, <1>1, <1>6, <2>1 DEF Leads
<1>7. ASSUME NEW n \in Nat \ {0}, AtCut(n)
      PROVE  IF kp > Len(key) /\ vp > Len(Path)
             THEN n = k /\ n = v /\ Led(k) /\ matches = Taken(k)
             ELSE ~(n = k <=> n = v) /\ Led(n)
  <2>1. /\ n \in 1..k /\ n \in 1..v /\ Led(n) /\ matches = Taken(n)
        /\ kp = Cuts(key)[n] /\ vp = Cuts(Path)[n]
    BY <1>0, <1>7 DEF AtCut, Led
  <2>2. (kp <= Len(key) <=> n < k) /\ (vp <= Len(Path) <=> n < v)
    BY <1>3, <2>1
  <2>3. kp <= Len(key) => key[kp] = "/"
    <3>1. PICK a, b : Spans(key, n, a, b)
      BY <1>0, <2>1, SpanOf
    <3> QED BY <2>1, <3>1 DEF Spans
  <2>4. vp <= Len(Path) => Path[vp] = "/"
    <3>1. PICK a, b : Spans(Path, n, a, b)
      BY <1>0, <2>1, SpanOf
    <3> QED BY <2>1, <3>1 DEF Spans
  <2>5. ~(kp <= Len(key) /\ vp <= Len(Path))
    BY <2>3, <2>4
  <2>6. (kp > Len(key) <=> n = k) /\ (vp > Len(Path) <=> n = v)
    BY <2>1, <2>2
  <2> QED BY <2>1, <2>2, <2>5, <2>6
<1>8. ASSUME NEW n \in Nat \ {0}, NEW d \in Nat, Within(n, d)
      PROVE  IF kp > Len(key) /\ vp > Len(Path)
             THEN n = k /\ n = v /\ Led(k) /\ matches = Taken(k)
             ELSE \/ ~Fits(key, Path, n)
                  \/ ~(n = k <=> n = v) /\ Led(n)
  <2>1. /\ n \in 1..k /\ n \in 1..v /\ Led(n - 1) /\ matches = Taken(n - 1)
        /\ ~IsStar(key, n) /\ ~IsField(key, n)
    BY <1>0, <1>8 DEF Within
  <2>2. PICK a, b : Spans(key, n, a, b)
    BY <1>0, <2>1, SpanOf
  <2>3. PICK c, e : Spans(Path, n, c, e)
    BY <1>0, <2>1, SpanOf
  <2>4. /\ a = Cuts(key)[n - 1] /\ b = Cuts(key)[n]
        /\ c = Cuts(Path)[n - 1] /\ e = Cuts(Path)[n]
        /\ b <= Len(key) => key[b] = "/"
        /\ e <= Len(Path) => Path[e] = "/"
    BY <2>2, <2>3 DEF Spans
  <2>5. /\ a \in Nat /\ b \in Nat /\ a < b /\ b <= Len(key) + 1
        /\ c \in Nat /\ e \in Nat /\ c < e /\ e <= Len(Path) + 1
    BY <2>2, <2>3 DEF Spans
  <2>6. kp = a + 1 + d /\ kp <= b /\ vp = c + 1 + d /\ vp <= e
    BY <1>8, <2>4 DEF Within
  <2>7. \A j \in 1..d : key[a + j] = Path[c + j]
    BY <1>8, <2>4 DEF Within
  <2>8. Taken(n) = Taken(n - 1)
    BY <2>1, TakenMore
  <2>9. /\ b <= Len(key) <=> n < k
        /\ e <= Len(Path) <=> n < v
    BY <1>3, <2>1, <2>4
  <2>10. CASE kp = b /\ vp = e
    <3>1. d = b - a - 1 /\ b - a = e - c
      BY <2>5, <2>6, <2>10
    <3>2. Segment(key, n) = Segment(Path, n)
      BY <1>0, <2>1, <2>4, <2>7, <3>1, SameSegment
    <3>3. Led(n)
      <4>1. \A i \in 1..n : i \in 1..(n - 1) \/ i = n
        OBVIOUS
      <4> QED BY <1>0, <2>1, <3>2, <4>1 DEF Led, Fits
    <3>4. ~(kp <= Len(key) /\ vp <= Len(Path))
      BY <2>4, <2>10
    <3>5. (kp > Len(key) <=> n = k) /\ (vp > Len(Path) <=> n = v)
      BY <2>1, <2>5, <2>9, <2>10
    <3> QED BY <2>1, <2>8, <2>10, <3>3, <3>4, <3>5
  <2>11. CASE ~(kp = b /\ vp = e)
    <3>1. ASSUME Segment(key, n) = Segment(Path, n) PROVE FALSE
      <4>1. /\ b - a = e - c
            /\ \A j \in 1..(b - a - 1) : key[a + j] = Path[c + j]
        BY <1>0, <2>1, <2>4, <3>1, SameSegment
      <4>2. kp < b /\ vp < e /\ d + 1 \in 1..(b - a - 1)
            /\ a + (d + 1) = kp /\ c + (d + 1) = vp
        <5>1. /\ a \in Nat /\ b \in Nat /\ c \in Nat /\ e \in Nat
              /\ b - a = e - c
          BY <2>5, <4>1
        <5>2. kp = a + 1 + d /\ kp <= b /\ vp = c + 1 + d /\ vp <= e
          BY <2>6
        <5>3. kp < b /\ vp < e
          BY <2>11, <5>1, <5>2
        <5>4. d + 1 \in 1..(b - a - 1)
          BY <5>1, <5>2, <5>3
        <5>5. a + (d + 1) = kp /\ c + (d + 1) = vp
          BY <5>1, <5>2
        <5> QED BY <5>3, <5>4, <5>5
      <4>3. key[kp] = Path[vp]
        BY <4>1, <4>2
      <4>4. kp <= Len(key) /\ vp <= Len(Path)
        BY <2>5, <4>2
      <4> QED BY <4>3, <4>4
    <3>2. ~(kp > Len(key) /\ vp > Len(Path))
      BY <2>5, <2>6, <2>11
    <3> QED BY <2>1, <3>1, <3>2 DEF Fits
  <2> QED BY <2>10, <2>11
<1>9. ASSUME NEW n \in Nat \ {0}, BehindStar(n)
      PROVE  /\ st = n /\ Leads(key, Path) /\ kp = Cuts(key)[n] /\ n <= k
             /\ vp > Len(Path) /\ matches = Taken(n)
  BY <1>0, <1>1, <1>9, BehindSays DEF BehindStar
<1>10. ASSUME NEW n \in Nat \ {0}, BehindStar(n)
       PROVE  IF kp > Len(key) /\ vp > Len(Path)
              THEN Matching(key, Path) /\ ~Misused(key) /\ matches = Taken(k)
              ELSE ~Matching(key, Path) /\ ~Misused(key)
  <2>1. /\ st = n /\ Leads(key, Path) /\ kp = Cuts(key)[n] /\ n <= k
        /\ vp > Len(Path) /\ matches = Taken(n)
    BY <1>9, <1>10
  <2>2. n \in 1..k /\ (kp <= Len(key) <=> n < k)
    BY <1>3, <2>1
  <2>3. CASE n = k
    <3>1. kp > Len(key)
      BY <2>2, <2>3
    <3> QED BY <1>0, <1>1, <2>1, <2>3, <3>1 DEF Matching, Misused
  <2>4. CASE n # k
    <3>1. n < k /\ kp <= Len(key) /\ ~(kp < Len(key))
      BY <1>10, <2>2, <2>4 DEF BehindStar
    <3>2. kp = Len(key)
      BY <3>1
    <3>3. PICK m \in Nat \ {0} : m = n + 1 /\ m - 1 = n /\ m <= k
      BY <3>1
    <3>4. PICK a, b : Spans(key, m, a, b)
      BY <1>0, <3>3, SpanOf
    <3>5. /\ a \in Nat /\ b \in Nat /\ a < b /\ b <= Len(key) + 1
          /\ a = Cuts(key)[n] /\ b = Cuts(key)[m]
          /\ Segment(key, m) \in Seq(STRING) /\ Len(Segment(key, m)) = b - a - 1
      BY <3>3, <3>4 DEF Spans
    <3>6. b = Len(key) + 1 /\ b - a - 1 = 0
      <4>1. a \in Nat /\ b \in Nat /\ a < b /\ b <= Len(key) + 1
        BY <3>5
      <4>2. a = Len(key)
        BY <2>1, <3>2, <3>5
      <4> QED BY <4>1, <4>2
    <3>7. Segment(key, m) = <<>>
      BY <3>5, <3>6
    <3>8. m = k
      <4>1. m \in 1..k
        BY <3>3
      <4>2. ~(Cuts(key)[m] <= Len(key))
        BY <3>5, <3>6
      <4> QED BY <1>3, <4>1, <4>2
    <3>9. ~Matching(key, Path)
      BY <1>0, <1>1, <2>1, <3>1 DEF Matching
    <3>10. ~Misused(key)
      BY <1>0, <1>1, <2>1, <3>3, <3>7, <3>8 DEF Misused
    <3> QED BY <3>1, <3>9, <3>10
  <2> QED BY <2>3, <2>4
<1>11. ASSUME NEW n \in Nat \ {0}, AtCut(n) \/ \E d \in Nat : Within(n, d)
       PROVE  IF kp > Len(key) /\ vp > Len(Path)
              THEN n = k /\ n = v /\ Led(k) /\ matches = Taken(k)
              ELSE ~Leads(key, Path)
  <2>1. ASSUME NEW d \in Nat, Within(n, d)
        PROVE  Led(n - 1) /\ n <= k /\ n <= v /\ ~IsStar(key, n)
    BY <1>0, <2>1 DEF Within
  <2> QED BY <1>5, <1>6, <1>7, <1>8, <1>11, <2>1
<1>12. CASE \E n \in Nat \ {0} : BehindStar(n)
  BY <1>2, <1>10, <1>12
<1>13. CASE \E n \in Nat \ {0} : AtCut(n) \/ \E d \in Nat : Within(n, d)
  BY <1>2, <1>4, <1>11, <1>13 DEF Matching
<1> QED BY <1>12, <1>13 DEF Scanning

\* With more than a "/" behind its "*", key misuses it.
LEMMA MisusedSays ==
  ASSUME key \in Seq(STRING), Path \in Seq(STRING),
         NEW n \in Nat \ {0}, BehindStar(n), kp < Len(key)
  PROVE  Misused(key)
<1>1. PICK k \in Nat \ {0} : k = Count(key)
  BY CountIs
<1>2. Cuts(key)[k] = Len(key) + 1
  BY <1>1, CountIs
<1>3. StarAt(key) = n /\ n <= k /\ kp = Cuts(key)[n]
  BY <1>1, BehindSays DEF BehindStar
<1>4. PICK a, b : Spans(key, k, a, b)
  BY <1>1, SpanOf
<1>5. PICK c, d : Spans(key, n, c, d)
  BY <1>1, <1>3, SpanOf
<1>6. d \in Nat /\ d = kp /\ d < Len(key)
  BY <1>3, <1>5 DEF Spans
<1>7. n # k
  <2>1. n = k => d = Len(key) + 1
    BY <1>2, <1>3, <1>6
  <2> QED BY <1>6, <2>1
<1>8. n < k
  BY <1>3, <1>7
<1>9. ASSUME ~(n + 1 < k) PROVE Segment(key, k) # <<>>
  <2>1. k - 1 = n
    BY <1>8, <1>9
  <2>2. /\ a = Cuts(key)[k - 1] /\ b = Cuts(key)[k] /\ a \in Nat /\ b \in Nat
        /\ Len(Segment(key, k)) = b - a - 1
    BY <1>4 DEF Spans
  <2>3. a = d /\ b = Len(key) + 1
    BY <1>2, <1>3, <1>6, <2>1, <2>2
  <2>4. b - a - 1 # 0
    BY <1>6, <2>3
  <2> QED BY <2>2, <2>4
<1> QED BY <1>1, <1>3, <1>8, <1>9 DEF Misused

\* The loop ends the process only behind a "*" that is misused.
LEMMA FatalSays ==
  ASSUME key \in Seq(STRING), Path \in Seq(STRING), Scanning,
         fault = "match: * usage"
  PROVE  Misused(key) /\ Leads(key, Path)
<1>1. PICK n \in Nat \ {0} : BehindStar(n)
  BY DEF Scanning, AtCut, Within
<1>2. kp < Len(key)
  BY <1>1 DEF BehindStar
<1> QED BY <1>1, <1>2, BehindSays, MisusedSays

\* While match() scans, both pointers are numbers.
LEMMA PointersAre ==
  ASSUME key \in Seq(STRING), Path \in Seq(STRING), Scanning
  PROVE  kp \in Nat /\ vp \in Nat
<1>1. /\ \A n \in Nat \ {0} : n <= Count(key) =>
             Cuts(key)[n] \in Nat /\ Cuts(key)[n - 1] \in Nat
      /\ \A n \in Nat \ {0} : n <= Count(Path) =>
             Cuts(Path)[n] \in Nat /\ Cuts(Path)[n - 1] \in Nat
      /\ Len(Path) + 1 \in Nat
  <2>1. ASSUME NEW s \in Seq(STRING), NEW n \in Nat \ {0}, n <= Count(s)
        PROVE  Cuts(s)[n] \in Nat /\ Cuts(s)[n - 1] \in Nat
    <3>1. PICK a, b : Spans(s, n, a, b)
      BY <2>1, SpanOf
    <3> QED BY <3>1 DEF Spans
  <2> QED BY <2>1
<1>2. ASSUME NEW n \in Nat \ {0}, AtCut(n) PROVE kp \in Nat /\ vp \in Nat
  BY <1>1, <1>2 DEF AtCut, Led
<1>3. ASSUME NEW n \in Nat \ {0}, BehindStar(n) PROVE kp \in Nat /\ vp \in Nat
  BY <1>1, <1>3 DEF BehindStar
<1>4. ASSUME NEW n \in Nat \ {0}, NEW d \in Nat, Within(n, d)
      PROVE  kp \in Nat /\ vp \in Nat
  <2>1. Cuts(key)[n - 1] \in Nat /\ Cuts(Path)[n - 1] \in Nat
    BY <1>1, <1>4 DEF Within
  <2>2. kp = Cuts(key)[n - 1] + 1 + d /\ vp = Cuts(Path)[n - 1] + 1 + d
    BY <1>4 DEF Within
  <2> QED BY <2>1, <2>2
<1> QED BY <1>2, <1>3, <1>4 DEF Scanning

\* Nothing has been captured yet that matches could be written over.
LEMMA CapturedAlone ==
  Over(Captured(key, Path), NoMatches) = Captured(key, Path)
<1> DEFINE f == Captured(key, Path)
<1>1. f = [x \in DOMAIN f |-> f[x]]
  BY DEF Captured, CapturedAt
<1>2. DOMAIN NoMatches = {}
  BY DEF NoMatches
<1> HIDE DEF f
<1>3. Over(f, NoMatches) = [x \in DOMAIN f |-> f[x]]
  BY <1>2 DEF Over
<1> QED BY <1>1, <1>3 DEF f

\* The answer to a request is that of the entries and of the request alone.
LEMMA RightFrame ==
  ASSUME UNCHANGED <<entries, req>>
  PROVE  Path' = Path /\ \A p : Right(p)' <=> Right(p)
<1>1. Path' = Path
  BY DEF Path
<1>2. ASSUME NEW p PROVE Right(p)' <=> Right(p)
  BY <1>1 DEF Right
<1> QED BY <1>1, <1>2
-----------------------------------------------------------------------------
\* When the loop ends, an entry is passed or serves the request.
LEMMA EndScanKeeps ==
  ASSUME RouterInv, EndScan, key \in Seq(STRING), Path \in Seq(STRING)
  PROVE  RouterInv'
<1>1. /\ pc = "scan" /\ fault = "none" /\ ~Same
      /\ UNCHANGED <<entries, req>> /\ UNCHANGED <<todo, key>>
      /\ UNCHANGED <<result, fault>>
  BY DEF EndScan, At, scanVars
<1>2. /\ RouterTypes /\ pathMatches = NoMatches /\ Scanning
      /\ key \in DOMAIN entries \ todo
      /\ Passed((DOMAIN entries \ todo) \ {key})
  BY <1>1 DEF RouterInv
<1>3. IF kp > Len(key) /\ vp > Len(Path)
      THEN Matching(key, Path) /\ ~Misused(key) /\ matches = Captured(key, Path)
      ELSE ~Matching(key, Path) /\ ~(Misused(key) /\ Leads(key, Path))
  <2>1. ~(kp <= Len(key) /\ vp <= Len(Path) /\ key[kp] = Path[vp])
    BY <1>1 DEF Same, At
  <2> QED BY <1>1, <1>2, <2>1, EndSays, PointersAre
<1>4. Path' = Path /\ \A p : Right(p)' <=> Right(p)
  BY <1>1, RightFrame
<1>5. CASE kp > Len(key) /\ vp > Len(Path) /\ req.method \in entries[key]
  <2>1. pc' = "handler" /\ pathMatches' = Over(matches, pathMatches)
    BY <1>5 DEF EndScan
  <2>2. pathMatches' = Captured(key, Path)
    BY <1>2, <1>3, <1>5, <2>1, CapturedAlone
  <2>3. Right(key)
    BY <1>2, <1>3, <1>5 DEF Right
  <2>4. Serves'
    BY <1>1, <1>2, <1>4, <2>2, <2>3 DEF Serves
  <2>5. RouterTypes'
    BY <1>1, <1>2, <2>1 DEF RouterTypes
  <2> QED BY <2>1, <2>4, <2>5 DEF RouterInv
<1>6. CASE ~(kp > Len(key) /\ vp > Len(Path) /\ req.method \in entries[key])
  <2>1. pc' = "next" /\ pathMatches' = pathMatches
    BY <1>6 DEF EndScan
  <2>2. ~Right(key) /\ ~(Misused(key) /\ Leads(key, Path))
    BY <1>3, <1>6 DEF Right
  <2>3. Passed(DOMAIN entries \ todo)
    BY <1>2, <2>2 DEF Passed
  <2>4. Passed(DOMAIN entries \ todo)'
    BY <1>1, <1>4, <2>3 DEF Passed
  <2>5. RouterTypes'
    BY <1>1, <1>2, <2>1 DEF RouterTypes
  <2> QED BY <1>2, <2>1, <2>4, <2>5 DEF RouterInv
<1> QED BY <1>5, <1>6

\* A pass of the loop keeps what has been passed, and that both scan.
LEMMA ScanKeeps ==
  ASSUME RouterInv, Star \/ MatchField \/ Literal,
         key \in Seq(STRING), Path \in Seq(STRING)
  PROVE  RouterInv'
<1>1. /\ pc = "scan" /\ pc' = pc /\ fault' \in {"none", "match: * usage"}
      /\ UNCHANGED <<entries, req>> /\ UNCHANGED <<todo, key>>
      /\ pathMatches' = pathMatches
  BY DEF Star, MatchField, Literal, Same, At
<1>2. /\ RouterTypes /\ pathMatches = NoMatches /\ Scanning
      /\ key \in DOMAIN entries \ todo
      /\ Passed((DOMAIN entries \ todo) \ {key})
  BY <1>1 DEF RouterInv
<1>3. Scanning'
  BY <1>2, StarScans, FieldScans, LiteralScans
<1>4. Path' = Path /\ \A p : Right(p)' <=> Right(p)
  BY <1>1, RightFrame
<1>5. Passed((DOMAIN entries \ todo) \ {key})'
  BY <1>1, <1>2, <1>4 DEF Passed
<1>6. RouterTypes'
  BY <1>1, <1>2 DEF RouterTypes
<1> QED BY <1>1, <1>2, <1>3, <1>5, <1>6 DEF RouterInv

\* The next entry is one that has not been passed.
LEMMA EntryKeeps ==
  ASSUME RouterInv, NextEntry
  PROVE  RouterInv'
<1>1. /\ pc = "next" /\ fault = "none" /\ pc' = "scan"
      /\ UNCHANGED <<entries, req>> /\ UNCHANGED <<pathMatches, fault>>
      /\ key' \in todo /\ todo' = todo \ {key'}
  BY DEF NextEntry, At
<1>2. /\ RouterTypes /\ pathMatches = NoMatches
      /\ Passed(DOMAIN entries \ todo)
  BY <1>1 DEF RouterInv
<1>3. Path' = Path /\ \A p : Right(p)' <=> Right(p)
  BY <1>1, RightFrame
<1>4. key' \in Seq(STRING) /\ Path' \in Seq(STRING)
  <2>1. key' \in Patterns /\ req.path \in Seq(STRING)
    BY <1>1, <1>2 DEF RouterTypes
  <2> QED BY <1>3, <2>1, RouterAssumption, PathType
<1>5. Scanning'
  BY <1>4, EntryScans
<1>6. key' \in DOMAIN entries' \ todo'
  BY <1>1, <1>2 DEF RouterTypes
<1>7. Passed((DOMAIN entries \ todo) \ {key})'
  <2>1. (DOMAIN entries' \ todo') \ {key'} = (DOMAIN entries \ todo)
    BY <1>1, <1>2 DEF RouterTypes
  <2> QED BY <1>2, <1>3, <2>1 DEF Passed
<1>8. RouterTypes'
  BY <1>1, <1>2 DEF RouterTypes
<1> QED BY <1>1, <1>2, <1>5, <1>6, <1>7, <1>8 DEF RouterInv

\* RouterInv is inductive.
LEMMA RouterStep ==
  ASSUME RouterInv, [RouterNext]_routerVars
  PROVE  RouterInv'
<1>1. ASSUME NEW p \in Patterns, NEW m \in Methods, Route(p, m)
      PROVE  RouterInv'
  <2>1. /\ pc = "setup" /\ pc' = "setup" /\ fault = "none"
        /\ UNCHANGED <<req, todo>> /\ pathMatches' = pathMatches
    BY <1>1 DEF Route, At, scanVars
  <2>2. /\ DOMAIN entries' \subseteq Patterns
        /\ DOMAIN entries \subseteq DOMAIN entries'
        /\ fault' \in {"none", "route: duplicate"}
    <3>1. DOMAIN entries \subseteq Patterns
      BY DEF RouterInv, RouterTypes
    <3>2. CASE m \in Handled(p)
      <4>1. entries' = entries /\ fault' = "route: duplicate"
        BY <1>1, <3>2 DEF Route
      <4> QED BY <3>1, <4>1
    <3>3. CASE m \notin Handled(p)
      <4>1. entries' = Put(entries, p, Handled(p) \union {m}) /\ fault' = fault
        BY <1>1, <3>3 DEF Route
      <4>2. DOMAIN entries' = {p} \union DOMAIN entries
        BY <4>1 DEF Put, Over
      <4> QED BY <2>1, <3>1, <4>1, <4>2
    <3> QED BY <3>2, <3>3
  <2> QED BY <2>1, <2>2 DEF RouterInv, RouterTypes
<1>2. CASE Serve
  BY <1>2 DEF Serve, At, scanVars, RouterInv, RouterTypes
<1>3. ASSUME NEW path \in Paths, NEW m \in Methods, Deal(path, m)
      PROVE  RouterInv'
  <2>1. /\ pc' = "next" /\ pathMatches' = NoMatches /\ fault = "none"
        /\ UNCHANGED <<entries, fault>> /\ todo' = DOMAIN entries
        /\ req'.path = path
    BY <1>3 DEF Deal, At
  <2>2. path \in Seq(STRING)
    BY RouterAssumption
  <2>3. RouterTypes'
    BY <2>1, <2>2 DEF RouterInv, RouterTypes
  <2>4. Passed(DOMAIN entries \ todo)'
    BY <2>1 DEF Passed
  <2> QED BY <2>1, <2>3, <2>4 DEF RouterInv
<1>4. CASE NextEntry
  BY <1>4, EntryKeeps
<1>5. CASE NoHandler
  <2>1. /\ pc = "next" /\ pc' = "answered" /\ todo = {} /\ fault = "none"
        /\ result' = NotImplemented /\ UNCHANGED <<entries, req>>
        /\ UNCHANGED <<todo, pathMatches, fault>>
    BY <1>5 DEF NoHandler, At, scanVars
  <2>2. RouterTypes /\ pathMatches = NoMatches /\ Passed(DOMAIN entries \ todo)
    BY <2>1 DEF RouterInv
  <2>3. Path' = Path /\ \A p : Right(p)' <=> Right(p)
    BY <2>1, RightFrame
  <2>4. Passed(DOMAIN entries)'
    BY <2>1, <2>2, <2>3 DEF Passed
  <2>5. RouterTypes'
    BY <2>1, <2>2 DEF RouterTypes
  <2> QED BY <2>1, <2>2, <2>4, <2>5 DEF RouterInv
<1>6. ASSUME pc = "scan" PROVE key \in Seq(STRING) /\ Path \in Seq(STRING)
  <2>1. RouterTypes /\ key \in DOMAIN entries
    BY <1>6 DEF RouterInv
  <2> QED BY <2>1, RouterAssumption, PathType DEF RouterTypes
<1>7. CASE Star \/ MatchField \/ Literal
  BY <1>6, <1>7, ScanKeeps DEF Star, MatchField, Literal, Same, At
<1>8. CASE EndScan
  BY <1>6, <1>8, EndScanKeeps DEF EndScan, At
<1>9. CASE Call
  <2>1. /\ pc = "handler" /\ pc' = "answered" /\ fault = "none"
        /\ result' # NotImplemented /\ UNCHANGED <<entries, req>>
        /\ UNCHANGED <<todo, key>> /\ UNCHANGED <<pathMatches, fault>>
    BY <1>9 DEF Call, At, scanVars, NotImplemented
  <2>2. RouterTypes /\ Serves
    BY <2>1 DEF RouterInv
  <2>3. Path' = Path /\ \A p : Right(p)' <=> Right(p)
    BY <2>1, RightFrame
  <2>4. Serves'
    BY <2>1, <2>2, <2>3 DEF Serves
  <2>5. RouterTypes'
    BY <2>1, <2>2 DEF RouterTypes
  <2> QED BY <2>1, <2>4, <2>5 DEF RouterInv
<1>10. CASE UNCHANGED routerVars
  <2>1. /\ UNCHANGED <<entries, req>> /\ UNCHANGED <<pc, todo, key>>
        /\ UNCHANGED <<kp, vp, matches>>
        /\ UNCHANGED <<pathMatches, result, fault>>
    BY <1>10 DEF routerVars, scanVars
  <2>2. Path' = Path /\ \A p : Right(p)' <=> Right(p)
    BY <2>1, RightFrame
  <2>3. \A n : (Led(n)' <=> Led(n)) /\ Taken(n)' = Taken(n)
    BY <2>1, ScanFrame
  <2>4. Scanning' <=> Scanning
    BY <2>1, <2>2, <2>3 DEF Scanning, AtCut, Within, BehindStar
  <2>5. (Serves' <=> Serves) /\ (RouterTypes' <=> RouterTypes)
    BY <2>1, <2>2 DEF Serves, RouterTypes
  <2>6. \A S : Passed(S)' <=> Passed(S)
    BY <2>1, <2>2 DEF Passed
  <2> QED BY <2>1, <2>4, <2>5, <2>6 DEF RouterInv
<1> QED BY <1>1, <1>2, <1>3, <1>4, <1>5, <1>7, <1>8, <1>9, <1>10
        DEF RouterNext, Match

\* It holds in every state.
LEMMA RouterInvariance == RouterSpec => []RouterInv
<1>1. RouterInit => RouterInv
  <2>1. ASSUME RouterInit PROVE RouterTypes
    <3>1. DOMAIN entries = {} /\ req.path = <<>>
      BY <2>1 DEF RouterInit
    <3> QED BY <2>1, <3>1 DEF RouterInit, RouterTypes
  <2> QED BY <2>1 DEF RouterInit, RouterInv
<1>2. RouterInv /\ [RouterNext]_routerVars => RouterInv'
  BY RouterStep
<1> QED BY <1>1, <1>2, PTL DEF RouterSpec

\* A set of numbers up to c that is not empty has a greatest element.
LEMMA GreatestNumber ==
  ASSUME NEW c \in Nat, NEW S, S \subseteq 1..c, S # {}
  PROVE  \E m \in S : \A j \in S : j <= m
<1> DEFINE T == {c - j : j \in S}
<1>1. T \subseteq Nat /\ T # {}
  <2>1. \A j \in S : j \in Nat /\ j <= c
    OBVIOUS
  <2>2. \A j \in S : c - j \in Nat
    BY <2>1
  <2>3. PICK j \in S : TRUE
    OBVIOUS
  <2>4. c - j \in T
    OBVIOUS
  <2> QED BY <2>2, <2>4
<1>2. PICK e \in T : \A f \in T : e <= f
  BY <1>1, LeastNumber
<1>3. PICK m \in S : e = c - m
  BY <1>2
<1>4. ASSUME NEW j \in S PROVE j <= m
  <2>1. e <= c - j
    BY <1>2
  <2>2. j \in 1..c /\ m \in 1..c
    BY <1>3
  <2> QED BY <1>3, <2>1, <2>2
<1> QED BY <1>3, <1>4

\* What match() stores are the captures under one of their names.
LEMMA StoredAreCaptures ==
  ASSUME key \in Seq(STRING), pathMatches = Captured(key, Path)
  PROVE  SeesCaptures
<1> DEFINE cap == Capturing(key)
           Of(x) == {n \in cap : NameOf(key, n) = x}
<1>1. cap \subseteq Nat
  BY CountIs DEF Capturing
<1>2. /\ DOMAIN pathMatches = {NameOf(key, n) : n \in cap}
      /\ \A x \in DOMAIN pathMatches :
           pathMatches[x] = ValueOf(key, Path, LastOf(Of(x)))
  BY DEF Captured, CapturedAt
<1>3. ASSUME NEW n \in cap PROVE NameOf(key, n) \in Names(key, n)
  <2>1. IsStar(key, n) => Documented(key, n) = Tail(Segment(key, n))
    BY DEF IsStar, Documented, Starts
  <2> QED BY <2>1 DEF NameOf, Names
<1>4. ASSUME NEW x \in DOMAIN pathMatches
      PROVE  LastOf(Of(x)) \in Of(x) /\ \A j \in Of(x) : j <= LastOf(Of(x))
  <2>1. Of(x) # {} /\ Of(x) \subseteq 1..Count(key) /\ Count(key) \in Nat
    BY <1>2, CountIs DEF Capturing
  <2> HIDE DEF Of
  <2>2. \E m \in Of(x) : \A j \in Of(x) : j <= m
    BY <2>1, GreatestNumber
  <2> QED BY <2>2 DEF LastOf
<1> HIDE DEF Of
<1>5. ASSUME NEW x \in DOMAIN pathMatches
      PROVE  IsCapture(x, LastOf(Of(x))) /\ LastOf(Of(x)) \in cap
  <2>1. LastOf(Of(x)) \in cap /\ NameOf(key, LastOf(Of(x))) = x
    BY <1>4 DEF Of
  <2> QED BY <1>2, <1>3, <2>1 DEF IsCapture
<1>6. ASSUME NEW n \in cap,
             ~\E j \in cap : j > n /\ Names(key, j) \cap Names(key, n) # {}
      PROVE  \E x \in DOMAIN pathMatches : IsCapture(x, n)
  <2> DEFINE x == NameOf(key, n)
             m == LastOf(Of(x))
  <2>1. x \in DOMAIN pathMatches /\ n \in Of(x)
    BY <1>2 DEF Of
  <2>2. m \in Of(x) /\ n <= m
    BY <1>4, <2>1
  <2>3. m \in cap /\ NameOf(key, m) = x
    BY <2>2 DEF Of
  <2>4. x \in Names(key, m) /\ x \in Names(key, n)
    BY <1>3, <2>3
  <2>5. ~(m > n)
    BY <1>6, <2>3, <2>4
  <2>6. m = n
    BY <1>1, <2>2, <2>3, <2>5
  <2> QED BY <1>5, <2>1, <2>6
<1> QED BY <1>5, <1>6 DEF SeesCaptures

\* The handler that match() finds, with its pointers and in any order of the
\* entries, is one that the segments of the request agree with, it sees the
\* captures of that entry and no others, and 501 hides none.
THEOREM HandlerIsRightHolds == RouterSpec => []HandlerIsRight
<1>1. ASSUME RouterInv, Serves PROVE Right(key) /\ SeesCaptures
  <2>1. key \in Seq(STRING)
    BY <1>1, RouterAssumption DEF RouterInv, RouterTypes, Serves
  <2> QED BY <1>1, <2>1, StoredAreCaptures DEF Serves
<1>2. RouterInv => HandlerIsRight
  BY <1>1 DEF RouterInv, HandlerIsRight, Passed, Right
<1> QED BY <1>2, RouterInvariance, PTL

\* match() ends the process only through an entry that misuses "*" and that
\* the request reaches the "*" of, and it passes no such entry by.
THEOREM FatalIffMisusedHolds == RouterSpec => []FatalIffMisused
<1>1. ASSUME RouterInv, fault = "match: * usage"
      PROVE  Misused(key) /\ Leads(key, Path)
  <2>1. RouterTypes /\ Scanning /\ key \in DOMAIN entries
    BY <1>1 DEF RouterInv, RouterTypes
  <2>2. key \in Seq(STRING) /\ Path \in Seq(STRING)
    BY <2>1, RouterAssumption, PathType DEF RouterTypes
  <2> QED BY <1>1, <2>1, <2>2, FatalSays
<1>2. ASSUME RouterInv, At("next")
      PROVE  \A p \in DOMAIN entries \ todo : ~(Misused(p) /\ Leads(p, Path))
  BY <1>2 DEF RouterInv, At, Passed
<1>3. RouterInv => FatalIffMisused
  BY <1>1, <1>2 DEF FatalIffMisused
<1> QED BY <1>3, RouterInvariance, PTL
=============================================================================
