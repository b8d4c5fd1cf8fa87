--------------------------- MODULE MCDefaultLight ---------------------------
(***************************************************************************)
(* Instance of DefaultLight for TLC: three lights, a uint16 wrapping at 5,  *)
(* of which 4 is NoTimer, and times of up to 2; users type the number of a *)
(* light that does not exist (3) and times that are too long (3), equal to *)
(* NoTimer (4), or wrap (5, 6).                                            *)
(***************************************************************************)
EXTENDS DefaultLight

=============================================================================
