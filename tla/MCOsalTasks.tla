----------------------------- MODULE MCOsalTasks -----------------------------
(***************************************************************************)
(* Instance of OsalTasks for TLC: two draining tasks and, between them in  *)
(* priority, one that receives once per call, each of which may be sent    *)
(* two messages by handlers and interrupts.                                *)
(***************************************************************************)
EXTENDS OsalTasks

=============================================================================
