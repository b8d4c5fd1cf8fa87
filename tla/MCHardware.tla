----------------------------- MODULE MCHardware -----------------------------
(***************************************************************************)
(* Instance of OsalHardware for TLC.  The flash has three pages of two     *)
(* items each, so that an item may go to another page than the one it was  *)
(* in and another than the reserve page.                                   *)
(***************************************************************************)
EXTENDS OsalHardware

CONSTANTS
  nwkKey, name

EqualSizes == [id \in Id |-> 1]

=============================================================================
