---------------------------- MODULE OsalCalendar ----------------------------
(***************************************************************************)
(* The calendar of OSAL_Clock.c: seconds since 1 January 2000 to a date    *)
(* and back (osal_ConvertUTCTime, osal_ConvertUTCSecs).  Months and days   *)
(* count from 0.                                                           *)
(*                                                                         *)
(* The behaviour goes through the days one by one, in step with a calendar *)
(* on the wall that knows how long months are.                             *)
(***************************************************************************)
EXTENDS Integers

CONSTANTS
  FirstDays,   \* the days to start from, as <<year, days since 1 January 2000>>
  Span,        \* bound: the days to go through
  Seconds      \* the seconds of a day that are looked at

BEGYEAR == 2000
LastYear == 2137
DAY == 86400

VARIABLES
  days,          \* since 1 January 2000
  year, month, day,   \* of the calendar on the wall
  span           \* the days gone through

calendarVars == <<days, year, month, day, span>>

-----------------------------------------------------------------------------
(* The code *)

IsLeapYear(y) == y % 400 = 0 \/ (y % 100 # 0 /\ y % 4 = 0)

YearLength(y) == IF IsLeapYear(y) THEN 366 ELSE 365

\* Mutant: the months after July are not shifted.
monthLengthUnshifted(leap, mon) ==
  IF mon = 1 THEN IF leap THEN 29 ELSE 28
  ELSE IF mon % 2 = 1 THEN 30 ELSE 31

monthLength(leap, mon) ==
  IF mon = 1 THEN IF leap THEN 29 ELSE 28
  ELSE LET m == IF mon > 6 THEN mon - 1 ELSE mon IN IF m % 2 = 1 THEN 30 ELSE 31

\* The days before a year, and before a month: the sums that both functions
\* take off or add one by one.
DaysBeforeYear[y \in BEGYEAR .. LastYear] ==
  IF y = BEGYEAR THEN 0 ELSE DaysBeforeYear[y - 1] + YearLength(y - 1)

DaysBeforeMonth(leap) ==
  LET before[m \in 0 .. 12] == IF m = 0 THEN 0 ELSE before[m - 1] + monthLength(leap, m - 1)
  IN  before

InYear == DaysBeforeMonth(FALSE)
InLeapYear == DaysBeforeMonth(TRUE)
BeforeMonth(y, m) == IF IsLeapYear(y) THEN InLeapYear[m] ELSE InYear[m]

\* UTCTime, as days and the seconds of the day.
osal_ConvertUTCTime(numDays, time) ==
  LET y == CHOOSE y \in BEGYEAR .. LastYear - 1 :
             DaysBeforeYear[y] <= numDays /\ numDays < DaysBeforeYear[y + 1]
      rest == numDays - DaysBeforeYear[y]
      m == CHOOSE m \in 0 .. 11 : BeforeMonth(y, m) <= rest /\ rest < BeforeMonth(y, m + 1)
  IN  [year |-> y, month |-> m, day |-> rest - BeforeMonth(y, m),
       hour |-> time \div 3600, minutes |-> (time % 3600) \div 60, seconds |-> time % 60]

osal_ConvertUTCSecs(tm) ==
  <<tm.day + BeforeMonth(tm.year, tm.month) + DaysBeforeYear[tm.year],
    (tm.hour * 60 + tm.minutes) * 60 + tm.seconds>>

-----------------------------------------------------------------------------
(* The calendar on the wall *)

Length(y, m) ==
  CASE m \in {3, 5, 8, 10} -> 30
    [] m = 1 -> IF y \in {4 * k : k \in 500 .. 534} \ {2100} THEN 29 ELSE 28
    [] OTHER -> 31

\* The days from the first of January 2000 to that of year y.
NewYear(y) == 365 * (y - BEGYEAR) + (y - 1997) \div 4 - (IF y > 2100 THEN 1 ELSE 0)

\* The days of UTCTime, whose seconds have 32 bits: 2^32 \div 86400.
MaxDays == 49710

\* A behaviour begins with a year, and stays within UTCTime.
ASSUME FirstDaysAssumption == FirstDays \subseteq {<<y, NewYear(y)>> : y \in BEGYEAR .. LastYear - 1}
ASSUME SpanAssumption == Span \in Nat /\ \A f \in FirstDays : f[2] + Span < MaxDays
ASSUME SecondsAssumption == Seconds \subseteq 0 .. DAY - 1

CalendarInit ==
  /\ \E f \in FirstDays : year = f[1] /\ days = f[2]
  /\ month = 0 /\ day = 0
  /\ span = 0

NextDay ==
  /\ span < Span
  /\ span' = span + 1 /\ days' = days + 1
  /\ LET monthOver == day + 1 = Length(year, month)
         yearOver == monthOver /\ month = 11
     IN  /\ day' = IF monthOver THEN 0 ELSE day + 1
         /\ month' = CASE yearOver -> 0 [] monthOver /\ ~yearOver -> month + 1 [] OTHER -> month
         /\ year' = IF yearOver THEN year + 1 ELSE year

CalendarSpec == CalendarInit /\ [][NextDay]_calendarVars

-----------------------------------------------------------------------------
\* osal_ConvertUTCTime tells the date of the calendar on the wall, leap years
\* and the year 2100 included, and a time of the day, and osal_ConvertUTCSecs
\* takes both back to the same seconds.
TellsTheDate ==
  \A s \in Seconds :
    LET tm == osal_ConvertUTCTime(days, s) IN
    /\ <<tm.year, tm.month, tm.day>> = <<year, month, day>>
    /\ tm.hour < 24 /\ tm.minutes < 60 /\ tm.seconds < 60
    /\ osal_ConvertUTCSecs(tm) = <<days, s>>

=============================================================================
