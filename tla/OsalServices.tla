---------------------------- MODULE OsalServices ----------------------------
(***************************************************************************)
(* The services of OSAL: timers, heap, clock and calendar.  The modules    *)
(* share no variable, so that each is checked on its own: part says which  *)
(* one a behaviour is about, and the others stay as they are at first.     *)
(***************************************************************************)
EXTENDS OsalTimers, OsalClock, OsalCalendar, OsalMemory

VARIABLE part

allVars == <<part, vars, memVars, clockVars, calendarVars>>

AllInit ==
  /\ part \in {"timers", "memory", "clock", "calendar"}
  /\ Init /\ MemInit /\ ClockInit /\ CalendarInit
  /\ part # "calendar" => days = 0

\* Steps of one part.
InTimers(A) ==
  part = "timers" /\ A /\ UNCHANGED <<part, memVars, clockVars, calendarVars>>
InMemory(A) ==
  part = "memory" /\ A /\ UNCHANGED <<part, vars, clockVars, calendarVars>>
InClock(A) ==
  part = "clock" /\ A /\ UNCHANGED <<part, vars, memVars, calendarVars>>
InCalendar(A) ==
  part = "calendar" /\ A /\ UNCHANGED <<part, vars, memVars, clockVars>>

AllNext ==
  \/ InTimers(Next)
  \/ InMemory(MemNext)
  \/ InClock(ClockNext)
  \/ InCalendar(NextDay)

AllSpec == AllInit /\ [][AllNext]_allVars

-----------------------------------------------------------------------------
(* The other properties of the parts have their names in their modules. *)

\* The type invariants, which for the heap says that the blocks lie behind one
\* another, and the heap's metrics.
WellFormed ==
  /\ TypeOK /\ ClockTypeOK
  /\ MemTypeOK /\ Counted

=============================================================================
