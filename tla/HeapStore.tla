------------------------------ MODULE HeapStore ------------------------------
(***************************************************************************)
(* What OSAL's heap promises (osal_mem_alloc, osal_mem_free): a request    *)
(* gets bytes that nobody else holds, and it is refused only when there is *)
(* no such place, neighbouring free places taken together.                 *)
(***************************************************************************)
EXTENDS Integers

CONSTANTS
  Size,         \* the sizes of requests, with the header
  Place,         \* the bytes a request may be served from, by size and kicked
  Waste,        \* how many bytes a request may get beyond its size
  NULL

VARIABLES
  held,    \* the places held: sets of neighbouring bytes
  kicked,  \* whether the long-lived places have been taken
  ret      \* the answer to the last request: the first byte of its place

Free(s) == \A h \in held : s \cap h = {}

Alloc ==
  \E n \in Size, w \in 0 .. Waste : \E a \in Place[n][kicked] :
    LET s == a .. a + n + w - 1 IN
    /\ s \subseteq Place[n][kicked]
    /\ Free(s)
    /\ held' = held \cup {s}
    /\ ret' = a
    /\ UNCHANGED kicked

Refuse ==
  \E n \in Size :
    /\ \A a \in Place[n][kicked] :
         LET s == a .. a + n - 1 IN s \subseteq Place[n][kicked] => ~Free(s)
    /\ ret' = NULL
    /\ UNCHANGED <<held, kicked>>

Release ==
  \E s \in held :
    /\ held' = held \ {s}
    /\ UNCHANGED <<kicked, ret>>

Kick == ~kicked /\ kicked' = TRUE /\ UNCHANGED <<held, ret>>

Init == held = {} /\ kicked = FALSE /\ ret = NULL
Next == Alloc \/ Refuse \/ Release \/ Kick
Spec == Init /\ [][Next]_<<held, kicked, ret>>

=============================================================================
