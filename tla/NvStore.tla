------------------------------- MODULE NvStore -------------------------------
(***************************************************************************)
(* What OSAL's NV memory promises (osal_nv_write and osal_nv_item_init): a *)
(* map from ids to values that one call at a time changes, at one moment   *)
(* of the call.  A power failure ends the call, before or after that       *)
(* moment, and leaves the map alone.                                       *)
(***************************************************************************)
CONSTANTS Id, Value, NoValue

VARIABLES
  store,   \* the map
  call     \* the call under way, or how the last one ended

NoCall == [kind |-> "none"]           \* with a failure, or a power failure
Succeeded == [kind |-> "succeeded"]
Call == [kind : {"init", "write"}, id : Id, val : Value] \cup [kind : {"delete"}, id : Id, val : {NoValue}]

Init == store = [id \in Id |-> NoValue] /\ call = NoCall

Begin(c) == call \notin Call /\ call' = c /\ UNCHANGED store

\* The call takes effect.
Effect ==
  /\ call \in Call
  /\ store' = [store EXCEPT ![call.id] = call.val]
  /\ UNCHANGED call

\* It returns SUCCESS, or NV_ITEM_UNINIT from osal_nv_item_init.
Return ==
  /\ call \in Call
  /\ store[call.id] = call.val
  /\ call' = Succeeded
  /\ UNCHANGED store

\* It returns NV_OPER_FAILED, or the power fails.
Fail == call' = NoCall /\ UNCHANGED store

Next == (\E c \in Call : Begin(c)) \/ Effect \/ Return \/ Fail

Spec == Init /\ [][Next]_<<store, call>>

=============================================================================
