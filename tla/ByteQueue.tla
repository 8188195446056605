----------------------------- MODULE ByteQueue -----------------------------
(***************************************************************************)
(* What a Buffer promises: a queue of bytes that append and readFd put in  *)
(* at one end and retrieve takes out at the other, in whatever pieces.     *)
(* A line end that is still in it can be overwritten in place.             *)
(***************************************************************************)
EXTENDS Naturals, Sequences

CONSTANTS Bytes,   \* the bytes that are put in
          CR, LF,  \* the two of them that end a line
          Nul      \* what replaces them

VARIABLES content,  \* what is in the queue
          input     \* what the last step put in

vars == <<content, input>>

Init == content = <<>> /\ input = <<>>

Put == /\ input' \in Seq(Bytes)
       /\ content' = content \o input'

Take == /\ \E n \in 0..Len(content) :
             content' = SubSeq(content, n + 1, Len(content))
        /\ input' = <<>>

Blank == \E i \in 1..(Len(content) - 1) :
           /\ content[i] = CR /\ content[i + 1] = LF
           /\ content' = [content EXCEPT ![i] = Nul, ![i + 1] = Nul]
           /\ input' = <<>>

Next == Put \/ Take \/ Blank

Spec == Init /\ [][Next]_vars
=============================================================================
