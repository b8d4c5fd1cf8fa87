---------------------------- MODULE MCZdStartup ----------------------------
(***************************************************************************)
(* Instance of ZdStartup for TLC: the builds of the project (only the      *)
(* coordinator's keeps its network state), and an end device that keeps it *)
(* too.                                                                    *)
(***************************************************************************)
EXTENDS ZdStartup

AllDevices ==
  {[type |-> "coordinator", restore |-> TRUE], [type |-> "router", restore |-> FALSE],
   [type |-> "router", restore |-> TRUE], [type |-> "device", restore |-> FALSE],
   [type |-> "device", restore |-> TRUE]}

=============================================================================
