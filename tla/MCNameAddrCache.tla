--------------------------- MODULE MCNameAddrCache ---------------------------
(***************************************************************************)
(* Instance of NameAddrCache for TLC: three slots, and one name and one    *)
(* address more than that, so that the table fills up and evicts.          *)
(***************************************************************************)
EXTENDS NameAddrCache

=============================================================================
