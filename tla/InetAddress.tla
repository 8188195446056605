---------------------------- MODULE InetAddress ----------------------------
(***************************************************************************)
(* base/src/InetAddress.cpp and the conversions of ports in                *)
(* base/src/FeiSocketops.cpp: every InetAddress owns a sockaddr_in on the  *)
(* heap, or none when it is invalid.  Its assignment operator writes into  *)
(* the one there is, so that two objects must never share one.             *)
(***************************************************************************)
EXTENDS Integers

CONSTANTS Objects,   \* variables of type InetAddress
          Cells,     \* places on the heap
          Ips, Any,  \* addresses, and INADDR_ANY among them
          Byte,      \* a byte counts modulo this, a port modulo its square
          Null,      \* the null pointer
          Gone       \* the object does not exist

ASSUME InetAssumption == /\ Any \in Ips
                         /\ Byte \in Nat \ {0}
                         /\ Null \notin Cells /\ Gone \notin Cells
                         /\ Null # Gone

VARIABLES
  addr,   \* addr_ of the objects
  heap    \* the allocated cells and the sockaddr_in in them

addressVars == <<addr, heap>>

Ports     == 0..(Byte * Byte - 1)
Sockaddrs == [sin_addr : Ips, sin_port : Ports]

\* The two markers are no addresses, nor are they shown like one.
ASSUME MarkerAssumption ==
  Null \notin [ip : Ips, port : Ports] /\ Gone \notin [ip : Ips, port : Ports]

Live == {o \in Objects : addr[o] # Gone}
Free == Cells \ DOMAIN heap

AddressInit == addr = [o \in Objects |-> Gone] /\ heap = [c \in {} |-> {}]

\* hostToNetwork16 and networkToHost16 on a little endian machine.
Swapped(x) == (x % Byte) * Byte + x \div Byte

\* The conversions of a port to the int16_t that the constructor takes, and of
\* that to the uint16_t that hostToNetwork16 takes.
ToInt16(x)  == IF 2 * x >= Byte * Byte THEN x - Byte * Byte ELSE x
ToUint16(x) == x % (Byte * Byte)

With(c, sa) == [d \in DOMAIN heap \union {c} |-> IF d = c THEN sa ELSE heap[d]]
Without(c)  == [d \in DOMAIN heap \ {c} |-> heap[d]]
-----------------------------------------------------------------------------
(* Constructors.                                                           *)

New(o, sa) ==
  /\ o \notin Live
  /\ \E c \in Free : /\ heap' = With(c, sa)
                     /\ addr' = [addr EXCEPT ![o] = c]

Default(o) ==
  /\ o \notin Live
  /\ addr' = [addr EXCEPT ![o] = Null]
  /\ UNCHANGED heap

NetworkPort(port) == Swapped(ToUint16(ToInt16(port)))

FromPort(o, port) ==
  New(o, [sin_addr |-> Any, sin_port |-> NetworkPort(port)])

\* fromHostPort stores the port as it is, with no conversion.
FromIpPort(o, ip, port) == New(o, [sin_addr |-> ip, sin_port |-> port])

\* What accept, recvfrom and getsockname return is in network byte order.
FromSockaddr(o, ip, port) ==
  New(o, [sin_addr |-> ip, sin_port |-> Swapped(port)])

CopyConstruct(o, from) ==
  /\ from \in Live
  /\ IF addr[from] = Null THEN Default(o) ELSE New(o, heap[addr[from]])
-----------------------------------------------------------------------------
(* operator= and the destructor.                                           *)

AssignNoTest(o, from) ==      \* seeded defect: no test for o = from
  /\ {o, from} \subseteq Live
  /\ \/ /\ addr[o] = Null
        /\ \E c \in Free :
             /\ addr' = [addr EXCEPT ![o] = c]
             /\ \E sa \in Sockaddrs :
                  heap' = With(c, IF addr[from] = Null THEN sa
                                  ELSE heap[addr[from]])
     \/ /\ addr[o] # Null
        /\ IF addr[from] = Null
           THEN heap' = Without(addr[o]) /\ addr' = [addr EXCEPT ![o] = Null]
           ELSE heap' = With(addr[o], heap[addr[from]]) /\ UNCHANGED addr

\* An invalid right side: the address that o had, or has just been given, is
\* released and deleted.
Released(o) ==
  /\ addr' = [addr EXCEPT ![o] = Null]
  /\ heap' = IF addr[o] = Null THEN heap ELSE Without(addr[o])

\* An address is written into the cell o has, or gets.
Written(o, sa) ==
  \/ addr[o] # Null /\ heap' = With(addr[o], sa) /\ UNCHANGED addr
  \/ /\ addr[o] = Null
     /\ \E c \in Free : /\ heap' = With(c, sa)
                        /\ addr' = [addr EXCEPT ![o] = c]

\* An assignment to itself does nothing.
Assign(o, from) ==
  /\ {o, from} \subseteq Live
  /\ \/ o = from /\ UNCHANGED addressVars
     \/ o # from /\ addr[from] = Null /\ Released(o)
     \/ o # from /\ addr[from] # Null /\ Written(o, heap[addr[from]])

Destruct(o) ==
  /\ o \in Live
  /\ addr' = [addr EXCEPT ![o] = Gone]
  /\ heap' = IF addr[o] = Null THEN heap ELSE Without(addr[o])
-----------------------------------------------------------------------------
AddressNext ==
  \E o \in Objects :
    \/ Default(o) \/ Destruct(o)
    \/ \E port \in Ports : FromPort(o, port)
    \/ \E ip \in Ips, port \in Ports : FromIpPort(o, ip, port)
    \/ \E ip \in Ips, port \in Ports : FromSockaddr(o, ip, port)
    \/ \E from \in Objects : CopyConstruct(o, from) \/ Assign(o, from)

AddressSpec == AddressInit /\ [][AddressNext]_addressVars
-----------------------------------------------------------------------------
(* Properties.                                                             *)

\* What toIpPort shows of an object that is_valid.
Shown(sa) == [ip |-> sa.sin_addr, port |-> Swapped(sa.sin_port)]

\* Types; pointers point to what is allocated.
AddressTypeOK ==
  /\ addr \in [Objects -> Cells \union {Null, Gone}]
  /\ DOMAIN heap \subseteq Cells
  /\ \A c \in DOMAIN heap : heap[c] \in Sockaddrs
  /\ \A o \in Objects : addr[o] \in Cells => addr[o] \in DOMAIN heap

\* Every cell on the heap belongs to exactly one object, through every chain
\* of copies, assignments of valid and invalid addresses and destructions:
\* none leaks, is deleted twice or is used after that.
OwnedOnce ==
  /\ \A c \in DOMAIN heap : \E o \in Objects : addr[o] = c
  /\ \A o, p \in Objects : addr[o] = addr[p] /\ addr[o] \in Cells => o = p

\* Objects behave like values although operator= writes into heap cells, and
\* a port is shown as it was given, also one that is negative as int16_t; and
\* no sockaddr is left on the heap, or owned twice, while they do.
Value(o) == IF addr[o] = Gone THEN Gone
            ELSE IF addr[o] = Null THEN Null
            ELSE Shown(heap[addr[o]])

Abstract == INSTANCE AddressValues
              WITH val <- [o \in Objects |-> Value(o)], Invalid <- Null

ImplementsValues == Abstract!Spec /\ []OwnedOnce
=============================================================================
