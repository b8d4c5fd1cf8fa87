------------------------------ MODULE OsalSleep ------------------------------
(***************************************************************************)
(* How an idle device goes to sleep and wakes (osal_run_system with        *)
(* POWER_SAVING, OSAL_PwrMgr.c, hal_sleep.c).  The thread finds no event,  *)
(* asks for the next time-out and stops the processor until an interrupt;  *)
(* interrupts come between any two of its steps.  What keeps one that      *)
(* comes too late from being slept over is halSleepPconValue, the value    *)
(* that stops the processor: interrupts clear it.                          *)
(*                                                                         *)
(* Times are told apart as the code does: none, long, or too short to      *)
(* sleep (PM_MIN_SLEEP_TIME).                                              *)
(***************************************************************************)
EXTENDS Naturals

CONSTANT
  PowerTask    \* the tasks, each of which may forbid to sleep

VARIABLES
  thread,      \* where the thread is
  EA,          \* interrupts are enabled
  masked,      \* only those that wake the processor are
  raised,      \* interrupts that have not been taken
  PconValue,   \* halSleepPconValue is PCON_IDLE, not 0
  anyEvent,    \* a task has an event set
  timer,       \* the time to the next time-out of "osal" timers and of the "mac"
  next,        \* what osal_next_timeout returned
  mode,        \* halPwrMgtMode
  radioOn,     \* the radio has power
  state        \* pwrmgr_task_state: the tasks that do not want to conserve power

sleepVars == <<thread, EA, masked, raised, PconValue, anyEvent, timer, next, mode, radioOn, state>>

Time == {"none", "long", "short", "due"}
Waking == {"key", "sleepTimer"}     \* P0IE_BV, STIE_BV

SleepInit ==
  /\ thread = "poll"
  /\ EA = TRUE /\ masked = FALSE /\ raised = {}
  /\ PconValue = TRUE
  /\ anyEvent \in BOOLEAN
  /\ timer \in [{"osal", "mac"} -> {"none", "long"}]
  /\ next = "none" /\ mode = "off" /\ radioOn = TRUE
  /\ state = {}

-----------------------------------------------------------------------------
(* osal_run_system *)

\* osalTimeUpdate: timers whose time is up set their events.
osalTimeUpdate ==
  /\ thread = "poll"
  /\ anyEvent' = (anyEvent \/ timer["osal"] = "due")
  /\ timer' = [timer EXCEPT !["osal"] = IF @ = "due" THEN "none" ELSE @]
  /\ thread' = "allow"
  /\ UNCHANGED <<EA, masked, raised, PconValue, next, mode, radioOn, state>>

\* Mutant: ALLOW_SLEEP_MODE is left out.
AllowNot == PconValue

\* halSleepPconValue after ALLOW_SLEEP_MODE.
Allow == TRUE

\* The end of Hal_ProcessPoll.
Hal_ProcessPoll ==
  /\ thread = "allow"
  /\ PconValue' = Allow
  /\ thread' = "scan"
  /\ UNCHANGED <<EA, masked, raised, anyEvent, timer, next, mode, radioOn, state>>

\* The look for a task with an event, and osal_pwrmgr_powerconserve up to
\* the time-out if there is none.
Scan ==
  /\ thread = "scan"
  /\ thread' = CASE anyEvent -> "task" [] ~anyEvent /\ state = {} -> "next" [] OTHER -> "poll"
  /\ UNCHANGED <<EA, masked, raised, PconValue, anyEvent, timer, next, mode, radioOn, state>>

\* A task handles its event: it may start a timer, have the MAC start one,
\* and say whether it wants to conserve power (osal_pwrmgr_task_state).
RunTask ==
  /\ thread = "task"
  /\ anyEvent' = FALSE
  /\ \E t \in {timer["osal"], "long", "short", "none"}, m \in {timer["mac"], "long"} :
       timer' = [osal |-> t, mac |-> m]
  /\ \E i \in PowerTask : state' \in {state, state \cup {i}, state \ {i}}
  /\ thread' = "poll"
  /\ UNCHANGED <<EA, masked, raised, PconValue, next, mode, radioOn>>

-----------------------------------------------------------------------------
(* osal_pwrmgr_powerconserve and halSleep *)

osal_next_timeout ==
  /\ thread = "next"
  /\ next' = timer["osal"]
  /\ thread' = "mac"
  /\ UNCHANGED <<EA, masked, raised, PconValue, anyEvent, timer, mode, radioOn, state>>

TooShort(t) == t \in {"short", "due"}

\* The shorter of the two time-outs decides, if there is one.
halSleep ==
  LET both == {next, timer["mac"]} IN
  /\ thread = "mac"
  /\ mode' = IF both = {"none"} THEN "deep" ELSE "timer"
  /\ thread' = IF \E t \in both : TooShort(t) THEN "poll" ELSE "disable"
  /\ UNCHANGED <<EA, masked, raised, PconValue, anyEvent, timer, next, radioOn, state>>

\* Mutant: the value that the interrupts clear is not looked at.
MaySleepAnyway == "radio" \notin raised

\* No interrupt came since the last poll, and the radio grants the request
\* (MAC_PwrOffReq): it does not while it is active.
MaySleep == PconValue /\ "radio" \notin raised

DisableInterrupts ==
  /\ thread = "disable"
  /\ EA' = ~MaySleep
  /\ radioOn' = ~MaySleep
  /\ thread' = IF MaySleep THEN "prepare" ELSE "poll"
  /\ UNCHANGED <<masked, raised, PconValue, anyEvent, timer, next, mode, state>>

\* HAL_SLEEP_PREP_POWER_MODE, HAL_SLEEP_IE_BACKUP_AND_DISABLE and the sleep
\* timer, whose interrupt flag is cleared.
Prepare ==
  /\ thread = "prepare"
  /\ PconValue' = TRUE
  /\ raised' = raised \ {"sleepTimer"}
  /\ masked' = TRUE /\ EA' = TRUE
  /\ thread' = "stop"
  /\ UNCHANGED <<anyEvent, timer, next, mode, radioOn, state>>

\* HAL_DISABLE_INTERRUPTS after the processor was stopped.
EnabledAwake == FALSE

\* halSetSleepMode: PCON = halSleepPconValue.
halSetSleepMode ==
  /\ thread = "stop"
  /\ thread' = IF PconValue THEN "asleep" ELSE "awake"
  /\ EA' = (PconValue \/ EnabledAwake)
  /\ UNCHANGED <<masked, raised, PconValue, anyEvent, timer, next, mode, radioOn, state>>

\* Mutant: macMcuTimer2OverflowWorkaround is left out.
MissedNot == {}

\* The interrupts of the MAC's timer that the sleep has swallowed.
Missed == {i \in {"radio"} : timer["mac"] = "due"}

\* What follows when the processor runs again, interrupts off: HAL_SLEEP_IE_RESTORE
\* macMcuTimer2OverflowWorkaround.
WakeUp ==
  /\ thread = "awake"
  /\ EA' = TRUE /\ masked' = FALSE /\ radioOn' = TRUE
  /\ raised' = raised \cup Missed
  /\ thread' = "poll"
  /\ UNCHANGED <<PconValue, anyEvent, timer, next, mode, state>>

-----------------------------------------------------------------------------
(* Interrupts *)

\* A key is pressed, or the radio has something.
Raise(i) ==
  /\ i \notin raised
  /\ i = "radio" => radioOn
  /\ raised' = raised \cup {i}
  /\ UNCHANGED <<thread, EA, masked, PconValue, anyEvent, timer, next, mode, radioOn, state>>

\* The processor takes an interrupt.  halProcessKeyInterrupt starts a timer;
\* those of the radio set events.
Interrupt(i) ==
  /\ i \in raised /\ EA /\ (masked => i \in Waking)
  /\ raised' = raised \ {i}
  /\ PconValue' = FALSE
  /\ timer' = CASE i = "key" -> [timer EXCEPT !["osal"] = IF @ \in {"short", "due"} THEN @ ELSE "long"]
                [] i = "radio" -> [timer EXCEPT !["mac"] = IF @ = "due" THEN "none" ELSE @]
                [] OTHER -> timer
  /\ anyEvent' = (anyEvent \/ i = "radio")
  /\ thread' = IF thread = "asleep" THEN "awake" ELSE thread
  /\ EA' = (thread = "asleep" => EnabledAwake)
  /\ UNCHANGED <<masked, next, mode, radioOn, state>>

\* The time that halSleepSetTimer set is up.
SleepTimer ==
  /\ thread \in {"stop", "asleep"} /\ mode = "timer" /\ "sleepTimer" \notin raised
  /\ raised' = raised \cup {"sleepTimer"}
  /\ UNCHANGED <<thread, EA, masked, PconValue, anyEvent, timer, next, mode, radioOn, state>>

\* Time goes by.  The MAC's timer interrupts when it is up.
Later(t) == CASE t = "long" -> "short" [] t = "short" -> "due" [] OTHER -> t

Elapse(w) ==
  /\ timer[w] \in {"long", "short"}
  /\ timer' = [timer EXCEPT ![w] = Later(@)]
  /\ raised' = raised \cup {i \in {"radio"} : timer'["mac"] = "due" /\ radioOn}
  /\ UNCHANGED <<thread, EA, masked, PconValue, anyEvent, next, mode, radioOn, state>>

-----------------------------------------------------------------------------
SleepThread ==
  \/ osalTimeUpdate \/ Hal_ProcessPoll \/ Scan \/ RunTask
  \/ osal_next_timeout \/ halSleep \/ DisableInterrupts \/ Prepare \/ halSetSleepMode \/ WakeUp

SleepNext ==
  \/ SleepThread
  \/ \E i \in {"key", "radio"} : Raise(i)
  \/ \E i \in {"key", "radio", "sleepTimer"} : Interrupt(i)
  \/ SleepTimer
  \/ \E w \in {"osal", "mac"} : Elapse(w)

SleepSpec == SleepInit /\ [][SleepNext]_sleepVars

\* The processor runs unless it is stopped, takes an interrupt as soon as it
\* is let in, and the sleep timer runs.
SleepFairSpec ==
  /\ SleepSpec
  /\ WF_sleepVars(SleepThread)
  /\ \A i \in {"key", "radio", "sleepTimer"} : SF_sleepVars(Interrupt(i))
  /\ WF_sleepVars(SleepTimer)

-----------------------------------------------------------------------------
SleepTypeOK ==
  /\ thread \in {"poll", "allow", "scan", "task", "next", "mac", "disable", "prepare", "stop", "asleep", "awake"}
  /\ {EA, masked, PconValue, anyEvent, radioOn} \subseteq BOOLEAN
  /\ raised \subseteq {"key", "radio", "sleepTimer"}
  /\ timer \in [{"osal", "mac"} -> Time] /\ next \in Time
  /\ mode \in {"off", "timer", "deep"}
  /\ state \subseteq PowerTask
  /\ EA = (thread \notin {"prepare", "awake"})
  /\ radioOn = (thread \notin {"prepare", "stop", "asleep", "awake"})

\* The processor never stops over an event that is set, an interrupt that is
\* masked, or a task that forbids it, and stops without the sleep timer only
\* if no timer runs (osal_pwrmgr_powerconserve, halSleep): the race that the
\* comment of CLEAR_SLEEP_MODE is about.
NothingSleptOver ==
  thread = "asleep" =>
    /\ ~anyEvent
    /\ raised \subseteq Waking
    /\ state = {}
    /\ mode = "deep" /\ "key" \notin raised => \A w \in {"osal", "mac"} : timer[w] = "none"

\* Every event is handled and every timer served in the end, the processor
\* asleep or not.
Served ==
  /\ []<>~anyEvent
  /\ \A w \in {"osal", "mac"} : []<>(timer[w] # "due")

\* What keeps a device from sleeping for longer than a round of the loop.
Busy == anyEvent \/ raised # {} \/ state # {} \/ \E w \in {"osal", "mac"} : TooShort(timer[w])

=============================================================================
