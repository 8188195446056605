------------------------------- MODULE Buffer -------------------------------
(***************************************************************************)
(* base/src/Buffer.cpp: a byte queue kept in one vector between two        *)
(* indices, which moves its content to the front or grows when the space   *)
(* behind it is short, and which readFd fills past its end through a       *)
(* second buffer on the stack.  A TcpConnection has one for each direction. *)
(*                                                                         *)
(* Positions are counted from 0 as in the code: byte i is data[i + 1].     *)
(***************************************************************************)
EXTENDS Integers, Sequences

CONSTANTS Bytes, CR, LF, Nul,
          DefaultSize, DefaultPreSize,
          ExtraSize,     \* sizeof(extrabuf)
          MaxContent     \* bound on what a buffer holds

ASSUME BufferAssumption == /\ DefaultSize \in Nat
                           /\ DefaultPreSize \in Nat
                           /\ ExtraSize \in Nat
                           /\ MaxContent \in Nat
                           /\ CR \in Bytes /\ LF \in Bytes

VARIABLES
  buf,   \* the vector data_, readIndex_ and writeIndex_
  peak,  \* history: the most bytes it has held
  input  \* history: the bytes the last call put in

vars == <<buf, peak, input>>

Chars == Bytes \union {Nul}

Readable(b)  == b.writeIndex - b.readIndex
Writeable(b) == Len(b.data) - b.writeIndex
Content(b)   == SubSeq(b.data, b.readIndex + 1, b.writeIndex)

Init ==
  /\ buf = [data |-> [i \in 1..(DefaultSize + DefaultPreSize) |-> Nul],
            readIndex |-> DefaultPreSize, writeIndex |-> DefaultPreSize]
  /\ peak = 0
  /\ input = <<>>
-----------------------------------------------------------------------------
\* std::copy of s to position p.
Copy(data, p, s) ==
  [i \in DOMAIN data |-> IF i \in (p + 1)..(p + Len(s)) THEN s[i - p]
                                                         ELSE data[i]]

FitsAfterMoveOff(b, n) ==     \* seeded defect: the prepended bytes are used
  Writeable(b) + b.readIndex >= n

FitsAfterMove(b, n) == Writeable(b) + b.readIndex - DefaultPreSize >= n

\* makeSpace, first branch: the content moves to the front.
Move(b) ==
  [data |-> Copy(b.data, DefaultPreSize, Content(b)),
   readIndex |-> DefaultPreSize,
   writeIndex |-> Readable(b) + DefaultPreSize]

GrowTwice(b, n) ==            \* seeded defect: n more than there is already
  [b EXCEPT !.data = [i \in 1..(Len(b.data) + b.writeIndex + n) |->
                        IF i <= Len(b.data) THEN b.data[i] ELSE Nul]]

\* makeSpace, second branch: data_.resize(writeIndex_ + len).
Grow(b, n) ==
  [b EXCEPT !.data = [i \in 1..(b.writeIndex + n) |->
                        IF i <= Len(b.data) THEN b.data[i] ELSE Nul]]

MakeSpace(b, n) == IF FitsAfterMove(b, n) THEN Move(b) ELSE Grow(b, n)

\* s written behind the content, with writeIndex_ behind it.
Behind(b, s) ==
  [b EXCEPT !.data = Copy(b.data, b.writeIndex, s),
            !.writeIndex = b.writeIndex + Len(s)]

\* append(data, len).
Appended(b, s) ==
  Behind(IF Len(s) > Writeable(b) THEN MakeSpace(b, Len(s)) ELSE b, s)

FilledFromStart(b, s) ==      \* seeded defect: extrabuf read from the vector
  Appended(Behind(b, SubSeq(s, 1, Writeable(b))),
           SubSeq(s, 1, Len(s) - Writeable(b)))

\* readFd, last branch: readv filled the vector, the rest is in extrabuf.
Filled(b, s) ==
  Appended(Behind(b, SubSeq(s, 1, Writeable(b))),
           SubSeq(s, Writeable(b) + 1, Len(s)))

\* readFd for what readv returns.
Read(b, s) == IF Len(s) <= Writeable(b) THEN Behind(b, s) ELSE Filled(b, s)

\* replaceCRCF: the line end at position p is overwritten.
Blanked(b, p) == [b EXCEPT !.data = [@ EXCEPT ![p] = Nul, ![p + 1] = Nul]]

Becomes(b, s) ==
  /\ buf' = b
  /\ peak' = IF Readable(b) > peak THEN Readable(b) ELSE peak
  /\ input' = s

Strings(n) == UNION {[1..k -> Bytes] : k \in 1..n}
-----------------------------------------------------------------------------
AppendBytes ==
  \E s \in Strings(MaxContent - Readable(buf)) : Becomes(Appended(buf, s), s)

\* readv returns at most what both parts of the iovec hold.
ReadFd ==
  \E s \in Strings(MaxContent - Readable(buf)) :
    /\ Len(s) <= Writeable(buf) + ExtraSize
    /\ Becomes(Read(buf, s), s)

\* retrieve and retrieveUntil, within what is readable: both assert it.
Retrieve ==
  \E n \in 1..Readable(buf) : Becomes([buf EXCEPT !.readIndex = @ + n], <<>>)

\* replaceCRCF at an index where the three asserts hold.
ReplaceCRLF ==
  \E i \in 0..(Readable(buf) - 2) :
    LET p == buf.readIndex + i + 1 IN
      /\ buf.data[p] = CR /\ buf.data[p + 1] = LF
      /\ Becomes(Blanked(buf, p), <<>>)

Next == AppendBytes \/ ReadFd \/ Retrieve \/ ReplaceCRLF

Spec == Init /\ [][Next]_vars
-----------------------------------------------------------------------------
(* Properties.                                                             *)

Buffers == [data : Seq(Chars), readIndex : Nat, writeIndex : Nat]

InOrder(b) == /\ DefaultPreSize <= b.readIndex
              /\ b.readIndex <= b.writeIndex
              /\ b.writeIndex <= Len(b.data)

\* The indices stay in the vector and in order, with the reserve in front, so
\* no size_t of makeSpace, getReadableBytes or getWriteableBytes wraps round.
TypeOK ==
  /\ buf \in Buffers /\ InOrder(buf)
  /\ peak \in Nat /\ Readable(buf) <= peak
  /\ input \in Seq(Bytes)

\* The vector grows only for what it holds: it stays at its first size, or
\* below twice the most it ever held, however long the connection lives.
SizeBounded ==
  \/ Len(buf.data) = DefaultSize + DefaultPreSize
  \/ Len(buf.data) < DefaultPreSize + 2 * peak

\* Whatever is moved, grown or read through extrabuf, the bytes between the
\* indices are those put in and not taken out yet, in order.
Queue == INSTANCE ByteQueue WITH content <- Content(buf)

ImplementsByteQueue == Queue!Spec
=============================================================================
