--------------------------- MODULE AddressValues ---------------------------
(***************************************************************************)
(* What InetAddress promises to its users (base/include/InetAddress.h): a  *)
(* copyable value, which is an address with a port or the invalid address. *)
(* To write one variable changes no other.                                 *)
(***************************************************************************)
EXTENDS Naturals

CONSTANTS Objects,   \* variables of type InetAddress
          Ips, Any,  \* addresses, and INADDR_ANY among them
          Byte,      \* a byte counts modulo this, a port modulo its square
          Invalid,   \* the value without an address
          Gone       \* no value: the variable does not exist

VARIABLE val

Ports  == 0..(Byte * Byte - 1)
Valid  == [ip : Ips, port : Ports]
Values == Valid \union {Invalid}

Init == val = [o \in Objects |-> Gone]

Exists(o) == val[o] # Gone

Becomes(o, v) == val' = [val EXCEPT ![o] = v]

Default(o) == ~Exists(o) /\ Becomes(o, Invalid)

FromPort(o, port) == ~Exists(o) /\ Becomes(o, [ip |-> Any, port |-> port])

\* The port that is stored is not promised (see FromIpPort of InetAddress).
FromIp(o, ip) ==
  ~Exists(o) /\ \E port \in Ports : Becomes(o, [ip |-> ip, port |-> port])

FromPeer(o, peer) == ~Exists(o) /\ Becomes(o, peer)

Copy(o, from) == ~Exists(o) /\ Exists(from) /\ Becomes(o, val[from])

Assign(o, from) == Exists(o) /\ Exists(from) /\ Becomes(o, val[from])

Destroy(o) == Exists(o) /\ Becomes(o, Gone)

Next == \E o \in Objects :
          \/ Default(o) \/ Destroy(o)
          \/ \E port \in Ports : FromPort(o, port)
          \/ \E ip \in Ips : FromIp(o, ip)
          \/ \E peer \in Valid : FromPeer(o, peer)
          \/ \E from \in Objects : Copy(o, from) \/ Assign(o, from)

Spec == Init /\ [][Next]_val
=============================================================================
