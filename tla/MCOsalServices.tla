--------------------------- MODULE MCOsalServices ---------------------------
(***************************************************************************)
(* Instance for TLC of the services of OSAL.                               *)
(***************************************************************************)
EXTENDS OsalServices, TLC

\* A year and a month from 2000, a leap year, from 2100, which is none, and
\* from 2135, as far as 32 bits of seconds go.
SomeYears == {<<2000, 0>>, <<2100, 36525>>, <<2135, 49308>>}

\* Timers differ in nothing the code looks at.
TimerSymmetry == Permutations(Timer)

=============================================================================
