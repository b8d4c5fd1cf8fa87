--------------------------- MODULE SmartHomeSender ---------------------------
(***************************************************************************)
(* What the application of one device remembers about what it sent         *)
(* (SmartHomeApp.c): the transaction counter it shares with AF_DataRequest *)
(* and the address and transaction number of its last unicast command.     *)
(* Operators on that state, used by SmartHomeSend and SmartHomeNet.        *)
(***************************************************************************)
EXTENDS NameAddrTable

CONSTANTS
  CoordAddr,   \* the address 0x0000, the initial value of a static uint16
  TransIDMod   \* SmartHomeApp_TransID is a byte: 256 in the code

ASSUME CoordAddrAssumption == CoordAddr \in Addr
ASSUME TransIDModAssumption == TransIDMod \in Nat \ {0}

TransID == 0 .. TransIDMod - 1

Sender == [transID : TransID, lastAddr : Addr, lastTransID : TransID]

\* After SmartHomeApp_Init, on statics that are zero after a reset.
ResetSender == [transID |-> 0, lastAddr |-> CoordAddr, lastTransID |-> 0]

\* Mutant: the counter is not confined to a byte.
RequestedUnwrapped(snd, accepted) ==
  [snd EXCEPT !.transID = IF accepted THEN @ + 1 ELSE @]

\* AF_DataRequest: the counter moves only if the request was accepted.
Requested(snd, accepted) ==
  [snd EXCEPT !.transID = IF accepted THEN (@ + 1) % TransIDMod ELSE @]

\* SmartHome_SendCmdWithAddr up to its call of AF_DataRequest: a unicast is
\* remembered, with the number it will have if it is accepted.
Remembered(snd, dest) ==
  IF dest = Broadcast THEN snd
  ELSE [snd EXCEPT !.lastAddr = dest, !.lastTransID = snd.transID]

\* Mutant: the number is remembered after AF_DataRequest has moved the counter.
CommandedLate(snd, dest, accepted) ==
  Remembered(Requested(snd, accepted), dest)

\* SmartHome_SendCmdWithAddr.
Commanded(snd, dest, accepted) == Requested(Remembered(snd, dest), accepted)

\* Mutant: a failure is only reported.
AfterFailureIgnored(snd, t, transID) == t

\* SmartHomeApp_ProcessEvent on a failed AF_DATA_CONFIRM_CMD: the address of
\* the last unicast is forgotten if the number is that of the last unicast.
AfterFailure(snd, t, transID) ==
  IF snd.lastTransID = transID THEN Deleted(t, snd.lastAddr) ELSE t

=============================================================================
