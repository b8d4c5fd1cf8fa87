---------------------------- MODULE NameDirectory ----------------------------
(***************************************************************************)
(* What the name/address cache of Utils.c promises to the rest of the      *)
(* application, with no slots and no index: a one-to-one directory from    *)
(* device names to network addresses in which a binding that nobody        *)
(* renews, contradicts or deletes lasts for exactly Capacity calls of put  *)
(* (its own included) and is forgotten by the call after that.             *)
(***************************************************************************)
EXTENDS Naturals

CONSTANTS
  Name,      \* device names
  Addr,      \* unicast network addresses
  Capacity   \* how many puts a binding lasts

VARIABLE bindings  \* the bindings known now; age = puts since it was learnt

Binding == [name : Name, addr : Addr, age : 0 .. Capacity - 1]

Init == bindings = {}

\* The bindings of which neither the name nor the address is spoken for by
\* the new pair <<n, a>>.
Untouched(n, a) == {b \in bindings : b.name # n /\ b.addr # a}

Older(b) == [name |-> b.name, addr |-> b.addr, age |-> b.age + 1]

\* A device announced that the name n lives at the address a.
Learn(n, a) ==
  bindings' = {Older(b) : b \in {c \in Untouched(n, a) : c.age < Capacity - 1}}
                \cup {[name |-> n, addr |-> a, age |-> 0]}

\* The address a did not answer.
Forget(a) == bindings' = {b \in bindings : b.addr # a}

Next ==
  \/ \E n \in Name, a \in Addr : Learn(n, a)
  \/ \E a \in Addr : Forget(a)

Spec == Init /\ [][Next]_bindings

=============================================================================
