--------------------------- MODULE ConnLifecycle ---------------------------
(***************************************************************************)
(* What TcpServer promises about the life of its connections.  Each one is *)
(* accepted on a descriptor no other live connection has, is reported up   *)
(* once, then down once, and only then goes away, when its descriptor may  *)
(* be used again.  Of one that a late send puts back into the poller in    *)
(* between, only the descriptor and the going away are promised.           *)
(* TcpServer is shown to implement this specification.                     *)
(***************************************************************************)
CONSTANTS Conns,  \* the connections
          Fds     \* the descriptors accept() can return

VARIABLES phase,  \* "none", "accepted", "up", "down", "back" or "gone"
          fd      \* the descriptor of each connection that was accepted

vars == <<phase, fd>>

Init == phase = [c \in Conns |-> "none"] /\ fd = <<>>

Live(c) == phase[c] \in {"accepted", "up", "down", "back"}

Move(c, from, to) == /\ phase[c] = from
                     /\ phase' = [phase EXCEPT ![c] = to]

Accept(c, f) ==
  /\ \A d \in Conns : Live(d) => fd[d] # f
  /\ \/ Move(c, "none", "accepted")
     \/ Move(c, "none", "up")
  /\ fd' = [d \in DOMAIN fd \union {c} |-> IF d = c THEN f ELSE fd[d]]

Up(c) == Move(c, "accepted", "up") /\ UNCHANGED fd
Down(c) == Move(c, "up", "down") /\ UNCHANGED fd
Back(c) == Move(c, "down", "back") /\ UNCHANGED fd

\* Several connections can go away at once, with a batch of functors.
Gone(S) ==
  /\ \A c \in S : phase[c] \in {"down", "back"}
  /\ phase' = [c \in Conns |-> IF c \in S THEN "gone" ELSE phase[c]]
  /\ UNCHANGED fd

Next == \/ \E c \in Conns : \/ Up(c) \/ Down(c) \/ Back(c)
                            \/ \E f \in Fds : Accept(c, f)
        \/ \E S \in SUBSET Conns : S # {} /\ Gone(S)

Spec == Init /\ [][Next]_vars
=============================================================================
