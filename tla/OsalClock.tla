------------------------------ MODULE OsalClock ------------------------------
(***************************************************************************)
(* Where OSAL has its time from (osalTimeUpdate, macMcuPrecisionCount).    *)
(* The MAC timer counts ticks of 320 microseconds and starts again at      *)
(* backoffTimerRollover.  Software makes a free running count of it: the   *)
(* rollover interrupt adds the period, or a reader that comes before the   *)
(* interrupt does it, and tells it so.  Each poll turns the ticks since    *)
(* the last one into milliseconds and keeps the remainder.                 *)
(***************************************************************************)
EXTENDS Naturals

CONSTANTS
  Rollover,    \* backoffTimerRollover
  Width,       \* the counts are taken modulo this number, 2^32 in the code
  MaxMSec,     \* the largest time osalTimeUpdate can tell, 2^16 - 1 in the code
  MaxClockLag, \* bound: ticks between two polls
  MaxTicks     \* bound: ticks

VARIABLES
  count,      \* of the MAC timer
  pending,    \* the rollover interrupt has been raised
  accumulatedOverflowCount,
  updateRolloverflag,            \* a reader has done the interrupt's work
  prevoverflowCount, prevAccumulatedOverflowCount,   \* what the last reader saw
  previousMacTimerTick,          \* the count at the last poll
  remUsTicks,                    \* what is left of the ticks, in 25ths of 320 us * 8
  now,                           \* history: the ticks since the start
  polled                         \* history: those of them at the last poll

counter == <<count, pending, accumulatedOverflowCount, updateRolloverflag,
             prevoverflowCount, prevAccumulatedOverflowCount>>
clockVars == <<counter, previousMacTimerTick, remUsTicks, now, polled>>

ClockInit ==
  /\ count = 0 /\ pending = FALSE
  /\ accumulatedOverflowCount = 0 /\ updateRolloverflag = FALSE
  /\ prevoverflowCount = 0 /\ prevAccumulatedOverflowCount = 0
  /\ previousMacTimerTick = 0 /\ remUsTicks = 0
  /\ now = 0 /\ polled = 0

Plus(a, b) == (a + b) % Width

\* A tick.  The interrupt may fail to be raised if the processor sleeps.
ClockTick ==
  /\ now < MaxTicks /\ now - polled < MaxClockLag
  /\ now' = now + 1
  /\ count' = (count + 1) % Rollover
  /\ pending' \in IF count' = 0 THEN BOOLEAN ELSE {pending}
  /\ UNCHANGED <<accumulatedOverflowCount, updateRolloverflag, prevoverflowCount,
                 prevAccumulatedOverflowCount, previousMacTimerTick, remUsTicks, polled>>

\* Whether macMcuAccumulatedOverFlow adds the period.
Adds == ~updateRolloverflag

\* macBackoffTimerPeriodIsr.
macMcuAccumulatedOverFlow ==
  /\ pending
  /\ pending' = FALSE
  /\ accumulatedOverflowCount' =
       IF Adds THEN Plus(accumulatedOverflowCount, Rollover) ELSE accumulatedOverflowCount
  /\ updateRolloverflag' = (updateRolloverflag /\ Adds)
  /\ UNCHANGED <<count, prevoverflowCount, prevAccumulatedOverflowCount,
                 previousMacTimerTick, remUsTicks, now, polled>>

Sum == Plus(accumulatedOverflowCount, count)

\* The count went down since the last look, and the interrupt has not come.
Missed ==
  /\ prevoverflowCount > Sum
  /\ prevAccumulatedOverflowCount = accumulatedOverflowCount

macMcuPrecisionCount == IF Missed THEN Plus(Sum, Rollover) ELSE Sum

\* The reader's part of the counter's state.
Look ==
  /\ accumulatedOverflowCount' =
       IF Missed THEN Plus(accumulatedOverflowCount, Rollover) ELSE accumulatedOverflowCount
  /\ updateRolloverflag' = (updateRolloverflag \/ Missed)
  /\ prevoverflowCount' = macMcuPrecisionCount
  /\ prevAccumulatedOverflowCount' = accumulatedOverflowCount'
  /\ UNCHANGED <<count, pending>>

\* osalMcuDivide31By16To16: quotient and remainder of 16 bits.
Elapsed(x) == (x \div 25) % (MaxMSec + 1)

\* Mutant: the ticks of the last poll that did not make a millisecond are lost.
ConvertedAlone(ticks) == ticks * 8

\* The ticks since the last poll and what was left of those before.
Converted(ticks) == ticks * 8 + remUsTicks

Left(x) == x % 25

Ticks == (macMcuPrecisionCount + Width - previousMacTimerTick) % Width

osalTimeUpdate ==
  /\ Look
  /\ previousMacTimerTick' = macMcuPrecisionCount
  /\ remUsTicks' = IF Ticks = 0 THEN remUsTicks ELSE Left(Converted(Ticks))
  /\ polled' = now
  /\ UNCHANGED now

\* What the poll tells osalClockUpdate and osalTimerUpdate.
elapsedMSec == IF Ticks = 0 THEN 0 ELSE Elapsed(Converted(Ticks))

ClockNext == ClockTick \/ macMcuAccumulatedOverFlow \/ osalTimeUpdate

ClockSpec == ClockInit /\ [][ClockNext]_clockVars

-----------------------------------------------------------------------------
ClockTypeOK ==
  /\ count \in 0 .. Rollover - 1 /\ remUsTicks \in 0 .. 24
  /\ {pending, updateRolloverflag} \subseteq BOOLEAN
  /\ {accumulatedOverflowCount, prevoverflowCount, prevAccumulatedOverflowCount,
      previousMacTimerTick} \subseteq 0 .. Width - 1
  /\ accumulatedOverflowCount % Rollover = 0 \/ now >= Width

\* "read a free running counter driven by MAC timer" (macMcuPrecisionCount):
\* whenever it is read, the count is that of the ticks since the start.
FreeRunning == macMcuPrecisionCount = now % Width

\* The same until the count wraps for the first time.
FreeRunningAtFirst == now < Width => FreeRunning

\* No time is lost or told twice: the count is the time until it wraps, and the
\* milliseconds of a poll and what is left make the ticks since the last one and
\* what was left before (macMcuPrecisionCount, osalTimeUpdate).
NothingLost ==
  /\ []FreeRunningAtFirst
  /\ [][polled' # polled
          => elapsedMSec * 25 + remUsTicks' = (now - polled) * 8 + remUsTicks]_clockVars

=============================================================================
