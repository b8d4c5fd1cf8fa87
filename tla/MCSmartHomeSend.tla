--------------------------- MODULE MCSmartHomeSend ---------------------------
(***************************************************************************)
(* Instance of SmartHomeSend for TLC: a transaction number that wraps after*)
(* three requests, up to three of them unconfirmed.                        *)
(***************************************************************************)
EXTENDS SmartHomeSend

=============================================================================
