----------------------------- MODULE OsalTimers -----------------------------
(***************************************************************************)
(* The timer list of OSAL (OSAL_Timers.c).  The thread polls the clock     *)
(* once per round of the task loop and, if time has gone by, walks the     *)
(* list with osalTimerUpdate, one critical section per record; between two *)
(* of them interrupts start timers.  A record whose time is up is taken    *)
(* out in a critical section, and its event set after it.                  *)
(*                                                                         *)
(* A timer is a pair of a task and an event.  A deleted record stays in    *)
(* the list, with its event flag cleared, until the next walk.             *)
(***************************************************************************)
EXTENDS Naturals, Sequences

CONSTANTS
  Timer,       \* the pairs of a task and an event
  Timeouts,    \* the times asked for, in milliseconds
  MaxRecords,  \* the records the heap has room for
  MaxLag,      \* bound: milliseconds between two polls
  MaxStarts    \* bound: timers started

ASSUME TimesAssumption == Timeouts \subseteq Nat
ASSUME BoundsAssumption == MaxRecords \in Nat /\ MaxLag \in Nat /\ MaxStarts \in Nat

VARIABLES
  timerHead,   \* the list
  pc,          \* where osalTimerUpdate is: "idle", "walk" or "fire"
  srchTimer,   \* the place of the record it looks at
  updateTime,  \* the time it walks the list with
  freeTimer,   \* the record taken out of the list and not freed yet
  lag,         \* the milliseconds since the last poll
  events,      \* the timers whose events are set for their tasks
  promised,    \* history: the timers started, and neither stopped nor fired
  starts       \* history: timers started

vars == <<timerHead, pc, srchTimer, updateTime, freeTimer, lag, events, promised, starts>>

\* osalTimerRec_t.  event: its event flag is not 0.  History: asked is the time
\* asked for, age the time since, and early the part of that time that was over
\* already when the timer was started.
Record == [timer : Timer, event : BOOLEAN, timeout : Nat, reloadTimeout : Nat,
           asked : Nat, age : Nat, early : Nat]

NoRecord == [timer |-> "NoRecord"]

Init ==
  /\ timerHead = <<>>
  /\ pc = "idle"
  /\ srchTimer = 1
  /\ updateTime = 0
  /\ freeTimer = NoRecord
  /\ lag = 0
  /\ events = {}
  /\ promised = {}
  /\ starts = 0

-----------------------------------------------------------------------------
(* The list, inside a critical section *)

\* osalFindTimer: the places of the records of timer t.  There is at most one.
Found(list, t) == {i \in DOMAIN list : list[i].timer = t /\ list[i].event}

\* The time record i of the list will still be charged with.
Owed(i) == lag + (IF pc # "idle" /\ i >= srchTimer THEN updateTime ELSE 0)

\* A new record.
Fresh(t, n, early) ==
  [timer |-> t, event |-> TRUE, timeout |-> n, reloadTimeout |-> 0,
   asked |-> n, age |-> 0, early |-> early]

\* A record given a new time.
Restarted(rec, n, early) == [rec EXCEPT !.timeout = n, !.asked = n, !.age = 0, !.early = early]

\* Mutant: a new timer is put at the head, behind the back of a walk.
AddedFirst(list, t, n) ==
  IF Found(list, t) # {}
  THEN [i \in DOMAIN list |->
          IF i \in Found(list, t) THEN Restarted(list[i], n, Owed(i)) ELSE list[i]]
  ELSE <<Fresh(t, n, Owed(1))>> \o list

\* osalAddTimer: a running timer is given the new time, a new one is put at
\* the end.
Added(list, t, n) ==
  IF Found(list, t) # {}
  THEN [i \in DOMAIN list |->
          IF i \in Found(list, t) THEN Restarted(list[i], n, Owed(i)) ELSE list[i]]
  ELSE Append(list, Fresh(t, n, Owed(Len(list) + 1)))

\* osal_mem_alloc finds room for a record, if one is needed.  The record taken
\* out is still allocated.
HasRoom(t) ==
  \/ Found(timerHead, t) # {}
  \/ Len(timerHead) + (IF freeTimer = NoRecord THEN 0 ELSE 1) < MaxRecords

\* Mutant: the time is set to 0, for osalTimerUpdate to take the record out.
Expired(list, t) ==
  [i \in DOMAIN list |->
     IF i \in Found(list, t) THEN [list[i] EXCEPT !.timeout = 0] ELSE list[i]]

\* osalDeleteTimer.
Deleted(list, t) ==
  [i \in DOMAIN list |->
     IF i \in Found(list, t) THEN [list[i] EXCEPT !.event = FALSE] ELSE list[i]]

\* A record after updateTime.
Charged(rec) == [rec EXCEPT !.timeout = IF @ <= updateTime THEN 0 ELSE @ - updateTime]

Reloads(rec) == rec.timeout = 0 /\ rec.reloadTimeout # 0 /\ rec.event

\* A reload timer starts anew: what it was charged too much is forgotten.
Reloaded(rec) ==
  [rec EXCEPT !.timeout = @ + rec.reloadTimeout, !.asked = rec.reloadTimeout,
              !.age = 0, !.early = lag]

\* The place that is looked at after place i.
NextPlace(i, removed) == IF removed THEN i ELSE i + 1

Without(list, i) == SubSeq(list, 1, i - 1) \o SubSeq(list, i + 1, Len(list))

-----------------------------------------------------------------------------
(* Time and the thread *)

\* The age of a record is counted no further than it gets.
Aged(rec) == [rec EXCEPT !.age = IF @ < rec.asked + 2 * MaxLag THEN @ + 1 ELSE @]

\* A millisecond goes by.
Tick ==
  /\ lag < MaxLag
  /\ lag' = lag + 1
  /\ timerHead' = [i \in DOMAIN timerHead |-> Aged(timerHead[i])]
  /\ UNCHANGED <<pc, srchTimer, updateTime, freeTimer, events, promised, starts>>

\* osalTimeUpdate finds that time has gone by and calls osalTimerUpdate.
Poll ==
  /\ pc = "idle"
  /\ lag > 0
  /\ lag' = 0
  /\ IF timerHead # <<>>
     THEN pc' = "walk" /\ srchTimer' = 1 /\ updateTime' = lag
     ELSE UNCHANGED <<pc, srchTimer, updateTime>>
  /\ UNCHANGED <<timerHead, freeTimer, events, promised, starts>>

\* One round of osalTimerUpdate's loop, as far as the end of its critical
\* section.
Visit ==
  LET charged == Charged(timerHead[srchTimer])
      rec == IF Reloads(charged) THEN Reloaded(charged) ELSE charged
      removed == rec.timeout = 0 \/ ~rec.event
  IN /\ pc = "walk"
     /\ srchTimer <= Len(timerHead)
     /\ events' = IF Reloads(charged) THEN events \cup {rec.timer} ELSE events
     /\ srchTimer' = NextPlace(srchTimer, removed)
     /\ IF removed
        THEN /\ timerHead' = Without(timerHead, srchTimer)
             /\ freeTimer' = rec
             /\ pc' = "fire"
        ELSE /\ timerHead' = [timerHead EXCEPT ![srchTimer] = rec]
             /\ UNCHANGED <<pc, freeTimer>>
     /\ UNCHANGED <<updateTime, lag, promised, starts>>

\* ... and what follows it for a record taken out.
Fire ==
  /\ pc = "fire"
  /\ IF freeTimer.timeout = 0 /\ freeTimer.event
     THEN /\ events' = events \cup {freeTimer.timer}
          /\ promised' = IF Found(timerHead, freeTimer.timer) = {}
                         THEN promised \ {freeTimer.timer} ELSE promised
     ELSE UNCHANGED <<events, promised>>
  /\ freeTimer' = NoRecord
  /\ pc' = "walk"
  /\ UNCHANGED <<timerHead, srchTimer, updateTime, lag, starts>>

\* The loop ends.
EndWalk ==
  /\ pc = "walk"
  /\ srchTimer > Len(timerHead)
  /\ pc' = "idle"
  /\ srchTimer' = 1
  /\ updateTime' = 0
  /\ UNCHANGED <<timerHead, freeTimer, lag, events, promised, starts>>

-----------------------------------------------------------------------------
(* Calls *)

\* osal_start_timerEx.  A reload timer keeps its reloadTimeout.
StartTimer(t, n) ==
  /\ starts < MaxStarts
  /\ starts' = starts + 1
  /\ IF HasRoom(t)
     THEN timerHead' = Added(timerHead, t, n) /\ promised' = promised \cup {t}
     ELSE UNCHANGED <<timerHead, promised>>
  /\ UNCHANGED <<pc, srchTimer, updateTime, freeTimer, lag, events>>

\* A handler starts a timer between two polls.
osal_start_timerEx(t, n) == pc = "idle" /\ StartTimer(t, n)

\* The key interrupt does (hal_key.c), between any two critical sections.
IsrStart(t, n) == StartTimer(t, n)

\* osal_start_reload_timer.
osal_start_reload_timer(t, n) ==
  /\ pc = "idle"
  /\ n # 0
  /\ starts < MaxStarts
  /\ starts' = starts + 1
  /\ IF HasRoom(t)
     THEN LET added == Added(timerHead, t, n)
          IN /\ timerHead' = [i \in DOMAIN added |->
                                IF i \in Found(added, t) THEN [added[i] EXCEPT !.reloadTimeout = n]
                                ELSE added[i]]
             /\ promised' = promised \cup {t}
     ELSE UNCHANGED <<timerHead, promised>>
  /\ UNCHANGED <<pc, srchTimer, updateTime, freeTimer, lag, events>>

\* osal_stop_timerEx finds the timer.
osal_stop_timerEx(t) ==
  /\ pc = "idle"
  /\ Found(timerHead, t) # {}
  /\ timerHead' = Deleted(timerHead, t)
  /\ promised' = promised \ {t}
  /\ UNCHANGED <<pc, srchTimer, updateTime, freeTimer, lag, events, starts>>

\* The task loop takes an event (OsalTasks).
TakeEvent(t) ==
  /\ pc = "idle"
  /\ t \in events
  /\ events' = events \ {t}
  /\ UNCHANGED <<timerHead, pc, srchTimer, updateTime, freeTimer, lag, promised, starts>>

\* The walk, one record after the other.
Walk == Visit \/ Fire \/ EndWalk

osalTimerUpdate == Poll \/ Walk

Next ==
  \/ Tick
  \/ osalTimerUpdate
  \/ \E t \in Timer :
       \/ \E n \in Timeouts :
            osal_start_timerEx(t, n) \/ IsrStart(t, n) \/ osal_start_reload_timer(t, n)
       \/ osal_stop_timerEx(t)
       \/ TakeEvent(t)

Spec == Init /\ [][Next]_vars

-----------------------------------------------------------------------------
(* Properties *)

\* The timers that a record of the list, or the one taken out, will fire.
Pending == {timerHead[i].timer : i \in {j \in DOMAIN timerHead : timerHead[j].event}}
Firing == IF freeTimer # NoRecord /\ freeTimer.event THEN {freeTimer.timer} ELSE {}

\* Every variable is of its type, the walk is inside the list, and a record is
\* taken out only between the two halves of a round.
TypeOK ==
  /\ timerHead \in Seq(Record)
  /\ Len(timerHead) <= MaxRecords
  /\ pc \in {"idle", "walk", "fire"}
  /\ srchTimer \in 1 .. Len(timerHead) + 1
  /\ updateTime \in Nat
  /\ freeTimer \in Record \cup {NoRecord}
  /\ freeTimer # NoRecord <=> pc = "fire"
  /\ lag \in Nat
  /\ events \subseteq Timer
  /\ promised \subseteq Timer
  /\ starts \in Nat

\* A timer never has two records that would fire: osalFindTimer stops at the
\* first.
OneRecord ==
  \A i, j \in DOMAIN timerHead :
    timerHead[i].event /\ timerHead[j].event /\ timerHead[i].timer = timerHead[j].timer => i = j

\* However often a timer is stopped, started again and restarted by interrupts
\* while the list is walked: one that was started and not stopped has one
\* record that will fire, or is just firing; one that was stopped has none, so
\* that its event is not set any more ("prevent the event associated with the
\* timer from being set").  Only the event of the record just taken out may be
\* set for a timer that was started anew meanwhile.
Kept == OneRecord /\ promised = Pending \cup Firing

\* No millisecond is lost or counted twice: what is left of a timer is what was
\* asked for less its age, once it is charged with what it owes; early is
\* what it is charged with besides, the time that was over before it started.
Exact ==
  \A i \in DOMAIN timerHead :
    LET rec == timerHead[i]
    IN rec.event => rec.timeout + rec.age + rec.early = rec.asked + Owed(i)

=============================================================================
