------------------------------- MODULE MCBase -------------------------------
(* The two value types of base, neither of which knows of the other: a      *)
(* buffer of a few bytes, or three addresses with ports of two small bytes. *)
EXTENDS Buffer, InetAddress

VARIABLE subject   \* what this behaviour is of: "buffer" or "addresses"

BaseInit == /\ Init /\ AddressInit
            /\ subject \in {"buffer", "addresses"}

BufferStep  == subject = "buffer" /\ Next /\ UNCHANGED <<addressVars, subject>>
AddressStep == subject = "addresses" /\ AddressNext /\ UNCHANGED <<vars, subject>>

BaseSpec ==
  BaseInit /\ [][BufferStep \/ AddressStep]_<<vars, addressVars, subject>>
=============================================================================
