---------------------------- MODULE OsalHardware ----------------------------
(***************************************************************************)
(* What deals with the processor and its peripherals: the flash that keeps *)
(* items (OsalNv), the UART's transmitter (HalUartTx) and the way to sleep *)
(* (OsalSleep).  The modules share no variable, so that each is checked on *)
(* its own: part says which one a behaviour is about, and the others stay  *)
(* as they are at first.                                                   *)
(***************************************************************************)
EXTENDS OsalNv, HalUartTx, OsalSleep

VARIABLE part

allVars == <<part, vars, txVars, sleepVars>>

AllInit ==
  /\ part \in {"nv", "tx", "sleep"}
  /\ Init /\ TxInit /\ SleepInit
  /\ part # "sleep" => ~anyEvent /\ timer = [w \in {"osal", "mac"} |-> "none"]

\* Steps of one part.
InNv(A) == part = "nv" /\ A /\ UNCHANGED <<part, txVars, sleepVars>>
InTx(A) == part = "tx" /\ A /\ UNCHANGED <<part, vars, sleepVars>>
InSleep(A) == part = "sleep" /\ A /\ UNCHANGED <<part, vars, txVars>>

AllNext == InNv(Next) \/ InTx(TxNext) \/ InSleep(SleepNext)

AllSpec == AllInit /\ [][AllNext]_allVars

\* The fairness of the parts.  A behaviour is about one part, so that a
\* condition on a disjunction says the same of each part.
AllFairSpec ==
  /\ AllSpec
  /\ WF_allVars(InNv(Writing \/ initNV) \/ InTx(EndWrite \/ Fire \/ Recover)
                  \/ InSleep(SleepThread))
  /\ WF_allVars(InTx(HalUARTIsrDMA) \/ InSleep(SleepTimer))
  /\ WF_allVars(InTx(TxTick))
  /\ SF_allVars(InTx(PollShadow) \/ InSleep(Interrupt("key")))
  /\ SF_allVars(InSleep(Interrupt("radio")))
  /\ SF_allVars(InSleep(Interrupt("sleepTimer")))

-----------------------------------------------------------------------------
(* The properties of the parts.  Most have their names in the modules.     *)

\* initNV gets through once power stays on long enough.
BootEnds == <>[][pc' # "boot"]_pc => []<>(part = "nv" => pc = "ready")

\* The type invariants, and the flash keeps one page in reserve (pgRes).
WellFormed == TypeOK /\ OneReserve /\ TxTypeOK /\ SleepTypeOK

\* A device with nothing to do goes to sleep, however many interrupts have
\* kept it from doing so before (ALLOW_SLEEP_MODE in Hal_ProcessPoll).
GoesToSleep == []<>(part = "sleep" => Busy \/ thread = "asleep")

=============================================================================
