------------------------- MODULE OsalServices_proofs -------------------------
(***************************************************************************)
(* Proofs about the services of OSAL.  Timers, for any number of timers,   *)
(* records and times: type correctness, that every timer started and not   *)
(* stopped has one record that will fire, and that no millisecond is lost  *)
(* or counted twice between polls.  The clock, which tells the polls the   *)
(* time, and the calendar, which makes dates of it.  The heap, for any     *)
(* sizes of blocks and requests: its chain, its metrics and its promise.   *)
(***************************************************************************)
EXTENDS OsalServices, SequenceTheorems, FiniteSetTheorems,
        NaturalsInduction, WellFoundedInduction, TLAPS

-----------------------------------------------------------------------------
(* The list *)

\* A record taken out: those behind it move up by one place.
LEMMA WithoutStep ==
  ASSUME NEW list \in Seq(Record), NEW i \in 1 .. Len(list)
  PROVE  /\ Without(list, i) \in Seq(Record)
         /\ Len(Without(list, i)) = Len(list) - 1
         /\ \A j \in 1 .. Len(list) - 1 :
              Without(list, i)[j] = IF j < i THEN list[j] ELSE list[j + 1]
<1> DEFINE front == SubSeq(list, 1, i - 1)
           back == SubSeq(list, i + 1, Len(list))
<1>0. Len(list) \in Nat /\ \A j \in 1 .. Len(list) : list[j] \in Record
  BY ElementOfSeq, LenProperties
<1>1. /\ front \in Seq(Record) /\ Len(front) = i - 1
      /\ \A j \in 1 .. i - 1 : front[j] = list[j]
  BY <1>0, SubSeqProperties
<1>2. /\ back \in Seq(Record) /\ Len(back) = Len(list) - i
      /\ \A j \in 1 .. Len(list) - i : back[j] = list[i + j]
  BY <1>0, SubSeqProperties
<1>3. /\ Without(list, i) \in Seq(Record)
      /\ Len(Without(list, i)) = Len(front) + Len(back)
      /\ \A j \in 1 .. Len(front) + Len(back) :
           Without(list, i)[j] = IF j <= Len(front) THEN front[j] ELSE back[j - Len(front)]
  BY <1>1, <1>2, ConcatProperties DEF Without
<1> HIDE DEF front, back
<1>4. Len(front) + Len(back) = Len(list) - 1
  BY <1>0, <1>1, <1>2
<1>5. ASSUME NEW j \in 1 .. Len(list) - 1
      PROVE  Without(list, i)[j] = IF j < i THEN list[j] ELSE list[j + 1]
  <2>1. Without(list, i)[j] = IF j <= i - 1 THEN front[j] ELSE back[j - (i - 1)]
    BY <1>1, <1>3, <1>4
  <2>2. CASE j < i
    BY <1>0, <1>1, <2>1, <2>2
  <2>3. CASE ~(j < i)
    <3>1. j - (i - 1) \in 1 .. Len(list) - i /\ i + (j - (i - 1)) = j + 1
      BY <1>0, <2>3
    <3>2. back[j - (i - 1)] = list[i + (j - (i - 1))]
      BY <1>2, <3>1
    <3>3. ~(j <= i - 1)
      BY <1>0, <2>3
    <3> QED
      BY <2>1, <2>3, <3>1, <3>2, <3>3
  <2> QED
    BY <2>2, <2>3
<1> QED
  BY <1>3, <1>4, <1>5

\* A function on 1 .. n is a list of length n.
LEMMA ListOf ==
  ASSUME NEW n \in Nat, NEW S, NEW s \in [1 .. n -> S]
  PROVE  s \in Seq(S) /\ Len(s) = n /\ DOMAIN s = 1 .. n
<1>1. s \in Seq(S)
  BY SeqDef
<1>2. 1 .. n = 1 .. Len(s) /\ Len(s) \in Nat
  BY <1>1, LenProperties
<1> QED
  BY <1>1, <1>2

-----------------------------------------------------------------------------
(* Records *)

\* A record is not NoRecord.
LEMMA RecordIsOne ==
  ASSUME NEW rec \in Record
  PROVE  rec # NoRecord
<1>1. "event" \in DOMAIN rec /\ "event" \notin DOMAIN NoRecord
  BY DEF Record, NoRecord
<1> QED
  BY <1>1

\* A record that grows older changes its age only.
LEMMA AgedStep ==
  ASSUME NEW rec \in Record
  PROVE  /\ Aged(rec) \in Record
         /\ Aged(rec).timer = rec.timer /\ Aged(rec).event = rec.event
         /\ Aged(rec).timeout = rec.timeout /\ Aged(rec).reloadTimeout = rec.reloadTimeout
         /\ Aged(rec).asked = rec.asked /\ Aged(rec).early = rec.early
         /\ Aged(rec).age = IF rec.age < rec.asked + 2 * MaxLag THEN rec.age + 1 ELSE rec.age
BY DEF Record, Aged

\* A record that is charged changes the time that is left only.
LEMMA ChargedStep ==
  ASSUME NEW rec \in Record, updateTime \in Nat
  PROVE  /\ Charged(rec) \in Record
         /\ Charged(rec).timer = rec.timer /\ Charged(rec).event = rec.event
         /\ Charged(rec).reloadTimeout = rec.reloadTimeout
         /\ Charged(rec).asked = rec.asked /\ Charged(rec).early = rec.early
         /\ Charged(rec).age = rec.age
         /\ Charged(rec).timeout =
              IF rec.timeout <= updateTime THEN 0 ELSE rec.timeout - updateTime
BY DEF Record, Charged

\* A record that starts anew keeps its timer and the time it reloads.
LEMMA ReloadedStep ==
  ASSUME NEW rec \in Record, lag \in Nat
  PROVE  /\ Reloaded(rec) \in Record
         /\ Reloaded(rec).timer = rec.timer /\ Reloaded(rec).event = rec.event
         /\ Reloaded(rec).timeout = rec.timeout + rec.reloadTimeout
         /\ Reloaded(rec).reloadTimeout = rec.reloadTimeout
         /\ Reloaded(rec).asked = rec.reloadTimeout
         /\ Reloaded(rec).age = 0 /\ Reloaded(rec).early = lag
<1> DEFINE r1 == [rec EXCEPT !.timeout = @ + rec.reloadTimeout]
           r2 == [r1 EXCEPT !.asked = rec.reloadTimeout]
           r3 == [r2 EXCEPT !.age = 0]
           r4 == [r3 EXCEPT !.early = lag]
<1>0. rec.reloadTimeout \in Nat /\ rec.timeout + rec.reloadTimeout \in Nat
  BY DEF Record
<1>1. /\ r1 \in Record /\ r1.timeout = rec.timeout + rec.reloadTimeout
      /\ r1.timer = rec.timer /\ r1.event = rec.event
      /\ r1.reloadTimeout = rec.reloadTimeout
  BY <1>0 DEF Record
<1> HIDE DEF r1
<1>2. /\ r2 \in Record /\ r2.timeout = r1.timeout /\ r2.asked = rec.reloadTimeout
      /\ r2.timer = rec.timer /\ r2.event = rec.event
      /\ r2.reloadTimeout = rec.reloadTimeout
  BY <1>0, <1>1 DEF Record
<1> HIDE DEF r2
<1>3. /\ r3 \in Record /\ r3.timeout = r1.timeout /\ r3.asked = rec.reloadTimeout /\ r3.age = 0
      /\ r3.timer = rec.timer /\ r3.event = rec.event
      /\ r3.reloadTimeout = rec.reloadTimeout
  BY <1>2 DEF Record
<1> HIDE DEF r3
<1>4. /\ r4 \in Record /\ r4.timeout = r1.timeout /\ r4.asked = rec.reloadTimeout /\ r4.age = 0
      /\ r4.timer = rec.timer /\ r4.event = rec.event /\ r4.early = lag
      /\ r4.reloadTimeout = rec.reloadTimeout
  BY <1>3 DEF Record
<1>5. Reloaded(rec) = r4
  BY DEF Reloaded, r1, r2, r3
<1> QED
  BY <1>1, <1>4, <1>5

\* A record that is restarted keeps its timer.
LEMMA RestartedStep ==
  ASSUME NEW rec \in Record, NEW n \in Nat, NEW early \in Nat
  PROVE  /\ Restarted(rec, n, early) \in Record
         /\ Restarted(rec, n, early).timer = rec.timer
         /\ Restarted(rec, n, early).event = rec.event
         /\ Restarted(rec, n, early).timeout = n /\ Restarted(rec, n, early).asked = n
         /\ Restarted(rec, n, early).age = 0 /\ Restarted(rec, n, early).early = early
BY DEF Record, Restarted

-----------------------------------------------------------------------------
(* Starting a timer *)

\* Records that differ at most in the time they reload.
Alike(r, s) ==
  /\ r.timer = s.timer /\ r.event = s.event /\ r.timeout = s.timeout
  /\ r.asked = s.asked /\ r.age = s.age /\ r.early = s.early

\* new is list after timer t was given the time n: the records of the timer are
\* restarted, or there was none and one is added at the end.
Starts(list, new, t, n) ==
  /\ new \in Seq(Record)
  /\ Len(new) = IF Found(list, t) # {} THEN Len(list) ELSE Len(list) + 1
  /\ \A i \in 1 .. Len(list) :
       /\ i \in Found(list, t) => Alike(new[i], Restarted(list[i], n, Owed(i)))
       /\ i \notin Found(list, t) => Alike(new[i], list[i])
  /\ Found(list, t) = {} =>
       Alike(new[Len(list) + 1], Fresh(t, n, Owed(Len(list) + 1)))

\* What a record owes is a number of milliseconds.
LEMMA OwedType ==
  ASSUME lag \in Nat, updateTime \in Nat, NEW i
  PROVE  Owed(i) \in Nat
BY DEF Owed

\* osalAddTimer starts the timer and changes nothing else.
LEMMA AddedStep ==
  ASSUME lag \in Nat, updateTime \in Nat,
         NEW list \in Seq(Record), NEW t \in Timer, NEW n \in Nat
  PROVE  Starts(list, Added(list, t, n), t, n)
<1> DEFINE new == Added(list, t, n)
<1>0. Len(list) \in Nat /\ DOMAIN list = 1 .. Len(list)
  BY LenProperties
<1>1. CASE Found(list, t) # {}
  <2>1. new = [i \in 1 .. Len(list) |->
                 IF i \in Found(list, t) THEN Restarted(list[i], n, Owed(i)) ELSE list[i]]
    BY <1>0, <1>1 DEF Added
  <2>2. \A i \in 1 .. Len(list) : list[i] \in Record /\ Restarted(list[i], n, Owed(i)) \in Record
    BY ElementOfSeq, OwedType, RestartedStep
  <2>3. new \in [1 .. Len(list) -> Record]
    BY <2>1, <2>2
  <2>4. new \in Seq(Record) /\ Len(new) = Len(list)
    BY <1>0, <2>3, ListOf
  <2>5. \A i \in 1 .. Len(list) :
          new[i] = IF i \in Found(list, t) THEN Restarted(list[i], n, Owed(i)) ELSE list[i]
    BY <2>1
  <2> HIDE DEF new
  <2> QED
    BY <1>1, <2>4, <2>5 DEF Starts, Alike, new
<1>2. CASE Found(list, t) = {}
  <2> DEFINE fresh == Fresh(t, n, Owed(Len(list) + 1))
  <2>1. fresh \in Record
    BY OwedType DEF Fresh, Record
  <2>2. new = Append(list, fresh)
    BY <1>2 DEF Added
  <2> HIDE DEF fresh, new
  <2>3. /\ new \in Seq(Record) /\ Len(new) = Len(list) + 1
        /\ \A i \in 1 .. Len(list) : new[i] = list[i]
        /\ new[Len(list) + 1] = fresh
    BY <2>1, <2>2, AppendProperties
  <2> QED
    BY <1>2, <2>3 DEF Starts, Alike, new, fresh
<1> QED
  BY <1>1, <1>2

\* Both calls start the timer, or find no room and change nothing.
LEMMA StartStep ==
  ASSUME TypeOK, NEW t \in Timer, NEW n \in Timeouts,
         StartTimer(t, n) \/ osal_start_reload_timer(t, n)
  PROVE  /\ UNCHANGED <<pc, srchTimer, updateTime, freeTimer, lag, events>>
         /\ starts' \in Nat
         /\ \/ UNCHANGED <<timerHead, promised>>
            \/ /\ HasRoom(t) /\ promised' = promised \cup {t}
               /\ Starts(timerHead, timerHead', t, n)
<1> DEFINE added == Added(timerHead, t, n)
<1>0. lag \in Nat /\ updateTime \in Nat /\ timerHead \in Seq(Record) /\ n \in Nat
  BY TimesAssumption DEF TypeOK
<1>1. Starts(timerHead, added, t, n)
  BY <1>0, AddedStep
<1>2. CASE StartTimer(t, n)
  BY <1>1, <1>2 DEF StartTimer, TypeOK
<1>3. CASE osal_start_reload_timer(t, n)
  <2> DEFINE new == [i \in DOMAIN added |-> IF i \in Found(added, t)
                                            THEN [added[i] EXCEPT !.reloadTimeout = n]
                                            ELSE added[i]]
  <2> HIDE DEF added
  <2>1. /\ added \in Seq(Record) /\ Len(added) \in Nat /\ DOMAIN added = 1 .. Len(added)
        /\ \A i \in 1 .. Len(added) : added[i] \in Record
    BY <1>1, LenProperties, ElementOfSeq DEF Starts
  <2>2. \A i \in 1 .. Len(added) : new[i] \in Record /\ Alike(new[i], added[i])
    BY <1>0, <2>1 DEF Alike, Record
  <2>3. new \in [1 .. Len(added) -> Record]
    BY <2>1, <2>2
  <2>4. new \in Seq(Record) /\ Len(new) = Len(added)
    BY <2>1, <2>3, ListOf
  <2> HIDE DEF new
  <2>5. Len(timerHead) \in Nat
    BY <1>0, LenProperties
  <2>6. Starts(timerHead, new, t, n)
    BY <1>1, <2>1, <2>2, <2>4, <2>5 DEF Starts, Alike
  <2> QED
    BY <1>3, <2>6, SMTT(30) DEF osal_start_reload_timer, TypeOK, added, new
<1> QED
  BY <1>2, <1>3

-----------------------------------------------------------------------------
(* Visiting a record *)

\* The record that a round of osalTimerUpdate leaves of the one it looks at.
Visited ==
  LET charged == Charged(timerHead[srchTimer])
  IN IF Reloads(charged) THEN Reloaded(charged) ELSE charged

\* A round either puts the record back or takes it out, which it does because
\* its time is up or its timer was stopped.
LEMMA VisitStep ==
  ASSUME TypeOK, Visit
  PROVE  /\ srchTimer \in 1 .. Len(timerHead) /\ Len(timerHead) \in Nat
         /\ pc = "walk" /\ UNCHANGED <<updateTime, lag, promised, starts>>
         /\ timerHead[srchTimer] \in Record
         /\ Visited \in Record /\ Visited.timer = timerHead[srchTimer].timer
         /\ Visited.event = timerHead[srchTimer].event
         /\ events' \subseteq events \cup {Visited.timer}
         /\ timerHead' \in Seq(Record)
         /\ \/ /\ Visited.timeout = 0 \/ ~Visited.event
               /\ srchTimer' = srchTimer /\ freeTimer' = Visited /\ pc' = "fire"
               /\ timerHead' = Without(timerHead, srchTimer)
               /\ Len(timerHead') = Len(timerHead) - 1
               /\ \A j \in 1 .. Len(timerHead) - 1 :
                    timerHead'[j] = IF j < srchTimer THEN timerHead[j] ELSE timerHead[j + 1]
            \/ /\ Visited.timeout # 0 /\ Visited.event
               /\ srchTimer' = srchTimer + 1 /\ UNCHANGED <<pc, freeTimer>>
               /\ Len(timerHead') = Len(timerHead)
               /\ \A j \in 1 .. Len(timerHead) :
                    timerHead'[j] = IF j = srchTimer THEN Visited ELSE timerHead[j]
<1> DEFINE old == timerHead[srchTimer]
           charged == Charged(old)
           removed == Visited.timeout = 0 \/ ~Visited.event
<1>1. /\ timerHead \in Seq(Record) /\ Len(timerHead) \in Nat
      /\ updateTime \in Nat /\ lag \in Nat
  BY LenProperties DEF TypeOK
<1>2. srchTimer \in 1 .. Len(timerHead)
  BY <1>1 DEF TypeOK, Visit
<1>3. old \in Record
  BY <1>1, <1>2, ElementOfSeq
<1>4. charged \in Record /\ charged.timer = old.timer /\ charged.event = old.event
  BY <1>1, <1>3, ChargedStep
<1>5. /\ Reloaded(charged) \in Record /\ Reloaded(charged).timer = old.timer
      /\ Reloaded(charged).event = old.event
  BY <1>1, <1>4, ReloadedStep
<1>6. Visited \in Record /\ Visited.timer = old.timer /\ Visited.event = old.event
  BY <1>4, <1>5 DEF Visited
<1>7. /\ pc = "walk" /\ UNCHANGED <<updateTime, lag, promised, starts>>
      /\ events' = IF Reloads(charged) THEN events \cup {Visited.timer} ELSE events
      /\ srchTimer' = NextPlace(srchTimer, removed)
      /\ IF removed
         THEN /\ timerHead' = Without(timerHead, srchTimer)
              /\ freeTimer' = Visited
              /\ pc' = "fire"
         ELSE /\ timerHead' = [timerHead EXCEPT ![srchTimer] = Visited]
              /\ UNCHANGED <<pc, freeTimer>>
  BY DEF Visit, Visited
<1> HIDE DEF old, charged, Visited
<1>8. CASE removed
  <2>1. /\ timerHead' = Without(timerHead, srchTimer) /\ freeTimer' = Visited
        /\ pc' = "fire" /\ srchTimer' = srchTimer
    BY <1>7, <1>8 DEF NextPlace
  <2>2. /\ timerHead' \in Seq(Record)
        /\ Len(timerHead') = Len(timerHead) - 1
        /\ \A j \in 1 .. Len(timerHead) - 1 :
             timerHead'[j] = IF j < srchTimer THEN timerHead[j] ELSE timerHead[j + 1]
    BY <1>1, <1>2, <2>1, WithoutStep
  <2> QED
    BY <1>1, <1>2, <1>3, <1>6, <1>7, <1>8, <2>1, <2>2 DEF old
<1>9. CASE ~removed
  <2>1. /\ timerHead' = [timerHead EXCEPT ![srchTimer] = Visited]
        /\ srchTimer' = srchTimer + 1 /\ UNCHANGED <<pc, freeTimer>>
    BY <1>7, <1>9 DEF NextPlace
  <2>2. /\ timerHead' \in Seq(Record)
        /\ Len(timerHead') = Len(timerHead)
        /\ \A j \in 1 .. Len(timerHead) :
             timerHead'[j] = IF j = srchTimer THEN Visited ELSE timerHead[j]
    BY <1>1, <1>2, <1>6, <2>1, ExceptSeq
  <2> QED
    BY <1>1, <1>2, <1>3, <1>6, <1>7, <1>9, <2>1, <2>2 DEF old
<1> QED
  BY <1>8, <1>9

-----------------------------------------------------------------------------
(* Type correctness *)

\* The places the walk looks at are inside the list, or just behind it, however
\* the list grows meanwhile; a record is out of the list only while its event
\* is being set.
THEOREM TypeCorrect == Spec => []TypeOK
<1>1. Init => TypeOK
  BY BoundsAssumption, EmptySeq DEF Init, TypeOK
<1>2. TypeOK /\ [Next]_vars => TypeOK'
  <2> SUFFICES ASSUME TypeOK, [Next]_vars PROVE TypeOK'
    OBVIOUS
  <2>t. /\ timerHead \in Seq(Record) /\ Len(timerHead) \in Nat
        /\ DOMAIN timerHead = 1 .. Len(timerHead)
        /\ \A i \in 1 .. Len(timerHead) : timerHead[i] \in Record
    BY LenProperties, ElementOfSeq DEF TypeOK
  <2>1. CASE Tick
    <3>1. [i \in DOMAIN timerHead |-> Aged(timerHead[i])] \in [1 .. Len(timerHead) -> Record]
      BY <2>t, AgedStep
    <3>2. timerHead' \in Seq(Record) /\ Len(timerHead') = Len(timerHead)
      BY <2>1, <2>t, <3>1, ListOf DEF Tick
    <3> QED
      BY <2>1, <3>2 DEF Tick, TypeOK
  <2>2. CASE Poll
    BY <2>2, <2>t DEF Poll, TypeOK
  <2>3. CASE Visit
    <3>1. /\ freeTimer' \in Record \cup {NoRecord}
          /\ freeTimer' # NoRecord <=> pc' = "fire"
      BY <2>3, VisitStep, RecordIsOne DEF TypeOK
    <3>2. events' \subseteq Timer
      BY <2>3, VisitStep DEF TypeOK, Record
    <3>3. srchTimer' \in 1 .. Len(timerHead') + 1 /\ Len(timerHead') <= MaxRecords
      BY <2>3, VisitStep, BoundsAssumption DEF TypeOK
    <3> QED
      BY <2>3, <3>1, <3>2, <3>3, VisitStep DEF TypeOK
  <2>4. CASE Fire
    <3>1. freeTimer \in Record
      BY <2>4 DEF Fire, TypeOK
    <3>2. freeTimer.timer \in Timer
      BY <3>1 DEF Record
    <3> QED
      BY <2>4, <3>2 DEF Fire, TypeOK
  <2>5. CASE EndWalk
    BY <2>5, <2>t DEF EndWalk, TypeOK
  <2>6. ASSUME NEW t \in Timer, NEW n \in Timeouts,
               StartTimer(t, n) \/ osal_start_reload_timer(t, n)
        PROVE  TypeOK'
    <3>1. CASE UNCHANGED <<timerHead, promised>>
      BY <2>6, <3>1, StartStep DEF TypeOK
    <3>2. CASE HasRoom(t) /\ promised' = promised \cup {t} /\ Starts(timerHead, timerHead', t, n)
      <4>1. Len(timerHead') \in Len(timerHead) .. Len(timerHead) + 1
        BY <2>t, <3>2 DEF Starts
      <4>2. Len(timerHead') <= MaxRecords
        BY <2>t, <3>2, BoundsAssumption DEF Starts, HasRoom, TypeOK
      <4>3. srchTimer \in 1 .. Len(timerHead') + 1
        BY <2>t, <4>1 DEF TypeOK
      <4> QED
        BY <2>6, <3>2, <4>2, <4>3, StartStep DEF TypeOK, Starts
    <3> QED
      BY <2>6, <3>1, <3>2, StartStep
  <2>7. ASSUME NEW t \in Timer, osal_stop_timerEx(t) PROVE TypeOK'
    <3> DEFINE new == [i \in 1 .. Len(timerHead) |->
                         IF i \in Found(timerHead, t)
                         THEN [timerHead[i] EXCEPT !.event = FALSE] ELSE timerHead[i]]
    <3>1. \A rec \in Record : [rec EXCEPT !.event = FALSE] \in Record
      BY DEF Record
    <3>2. new \in [1 .. Len(timerHead) -> Record]
      BY <2>t, <3>1
    <3>3. timerHead' = new
      BY <2>7, <2>t DEF osal_stop_timerEx, Deleted
    <3>4. timerHead' \in Seq(Record) /\ Len(timerHead') = Len(timerHead)
      BY <2>t, <3>2, <3>3, ListOf
    <3> QED
      BY <2>7, <3>4 DEF osal_stop_timerEx, TypeOK
  <2>8. ASSUME NEW t \in Timer, TakeEvent(t) PROVE TypeOK'
    BY <2>8 DEF TakeEvent, TypeOK
  <2>9. CASE UNCHANGED vars
    BY <2>9 DEF vars, TypeOK
  <2> QED
    BY <2>1, <2>2, <2>3, <2>4, <2>5, <2>6, <2>7, <2>8, <2>9
    DEF Next, osalTimerUpdate, Walk, osal_start_timerEx, IsrStart
<1> QED
  BY <1>1, <1>2, PTL DEF Spec

-----------------------------------------------------------------------------
(* Every timer has one record that will fire *)

\* A record taken out either fires now or was stopped.
FiresNow == freeTimer # NoRecord /\ freeTimer.event => freeTimer.timeout = 0

\* If every record keeps its place, its timer and its event flag, nothing
\* changes for the timers.
LEMMA SameRecords ==
  ASSUME timerHead \in Seq(Record), timerHead' \in Seq(Record), Len(timerHead') = Len(timerHead),
         \A i \in 1 .. Len(timerHead) : /\ timerHead'[i].timer = timerHead[i].timer
                                        /\ timerHead'[i].event = timerHead[i].event,
         OneRecord
  PROVE  OneRecord' /\ Pending' = Pending
<1>1. DOMAIN timerHead = 1 .. Len(timerHead) /\ DOMAIN timerHead' = 1 .. Len(timerHead)
  BY LenProperties
<1>2. OneRecord'
  BY <1>1 DEF OneRecord
<1>3. Pending' = Pending
  BY <1>1 DEF Pending
<1> QED
  BY <1>2, <1>3

\* However often timers are stopped, started anew and restarted while the list
\* is walked, the timers started and neither stopped nor fired are those with
\* exactly one record that will fire, or the one whose event is just being set.
THEOREM TimersKept == Spec => []Kept
<1>1. Init => Kept /\ FiresNow
  BY EmptySeq DEF Init, Kept, FiresNow, OneRecord, Pending, Firing
<1>2. TypeOK /\ Kept /\ FiresNow /\ [Next]_vars => Kept' /\ FiresNow'
  <2> SUFFICES ASSUME TypeOK, Kept, FiresNow, [Next]_vars PROVE Kept' /\ FiresNow'
    OBVIOUS
  <2>t. /\ timerHead \in Seq(Record) /\ Len(timerHead) \in Nat
        /\ DOMAIN timerHead = 1 .. Len(timerHead)
        /\ \A i \in 1 .. Len(timerHead) : timerHead[i] \in Record
    BY LenProperties, ElementOfSeq DEF TypeOK
  <2>b. \A i \in 1 .. Len(timerHead) : timerHead[i].event \in BOOLEAN
    BY <2>t DEF Record
  <2>k. OneRecord /\ promised = Pending \cup Firing
    BY DEF Kept
  <2>1. CASE Tick
    <3>1. [i \in DOMAIN timerHead |-> Aged(timerHead[i])] \in [1 .. Len(timerHead) -> Record]
      BY <2>t, AgedStep
    <3>2. timerHead' \in Seq(Record) /\ Len(timerHead') = Len(timerHead)
      BY <2>1, <2>t, <3>1, ListOf DEF Tick
    <3>3. \A i \in 1 .. Len(timerHead) : timerHead'[i] = Aged(timerHead[i])
      BY <2>1, <2>t DEF Tick
    <3>4. OneRecord' /\ Pending' = Pending
      BY <2>t, <2>k, <3>2, <3>3, AgedStep, SameRecords
    <3> QED
      BY <2>1, <2>k, <3>4 DEF Tick, Kept, Firing, FiresNow
  <2>2. CASE Poll \/ EndWalk
    BY <2>2 DEF Poll, EndWalk, Kept, OneRecord, Pending, Firing, FiresNow
  <2>3. CASE Visit
    <3>1. Firing = {} /\ freeTimer = NoRecord
      BY <2>3, VisitStep DEF TypeOK, Firing
    <3>2. CASE (Visited.timeout = 0 \/ ~Visited.event) /\ freeTimer' = Visited
               /\ Len(timerHead') = Len(timerHead) - 1
               /\ \A j \in 1 .. Len(timerHead) - 1 :
                    timerHead'[j] = IF j < srchTimer THEN timerHead[j] ELSE timerHead[j + 1]
      <4> DEFINE from(j) == IF j < srchTimer THEN j ELSE j + 1
      <4>1. /\ DOMAIN timerHead' = 1 .. Len(timerHead) - 1
            /\ srchTimer \in 1 .. Len(timerHead)
        BY <2>3, <3>2, VisitStep, LenProperties
      <4>2. \A j \in 1 .. Len(timerHead) - 1 :
              /\ from(j) \in (1 .. Len(timerHead)) \ {srchTimer}
              /\ timerHead'[j] = timerHead[from(j)]
        BY <2>t, <3>2, <4>1
      <4>3. \A j, k \in 1 .. Len(timerHead) - 1 : from(j) = from(k) => j = k
        BY <2>t, <4>1
      <4>4. \A i \in (1 .. Len(timerHead)) \ {srchTimer} :
              \E j \in 1 .. Len(timerHead) - 1 : from(j) = i
        <5> SUFFICES ASSUME NEW i \in (1 .. Len(timerHead)) \ {srchTimer}
                     PROVE  \E j \in 1 .. Len(timerHead) - 1 : from(j) = i
          OBVIOUS
        <5>1. CASE i < srchTimer
          <6>1. i \in 1 .. Len(timerHead) - 1 /\ from(i) = i
            BY <2>t, <4>1, <5>1
          <6> QED
            BY <6>1
        <5>2. CASE ~(i < srchTimer)
          <6>1. i - 1 \in 1 .. Len(timerHead) - 1 /\ ~(i - 1 < srchTimer) /\ (i - 1) + 1 = i
            BY <2>t, <4>1, <5>2
          <6> QED
            BY <6>1
        <5> QED
          BY <5>1, <5>2
      <4> HIDE DEF from
      <4>5. OneRecord'
        BY <2>t, <2>k, <4>1, <4>2, <4>3 DEF OneRecord
      <4>6. Firing' = IF timerHead[srchTimer].event THEN {timerHead[srchTimer].timer} ELSE {}
        BY <2>3, <3>2, VisitStep, RecordIsOne DEF Firing
      <4>7. Pending' \cup Firing' = Pending
        <5>1. \A t : t \in Pending <=> \E i \in 1 .. Len(timerHead) :
                                         timerHead[i].event /\ timerHead[i].timer = t
          BY <2>t DEF Pending
        <5>2. \A t : t \in Pending' <=> \E j \in 1 .. Len(timerHead) - 1 :
                       timerHead[from(j)].event /\ timerHead[from(j)].timer = t
          BY <4>1, <4>2 DEF Pending
        <5>3. \A t : t \in Pending' <=> \E i \in (1 .. Len(timerHead)) \ {srchTimer} :
                       timerHead[i].event /\ timerHead[i].timer = t
          BY <4>2, <4>4, <5>2
        <5> QED
          BY <4>1, <4>6, <5>1, <5>3
      <4>8. FiresNow'
        BY <3>2 DEF FiresNow
      <4> QED
        BY <2>3, <2>k, <3>1, <4>5, <4>7, <4>8, VisitStep DEF Kept
    <3>3. CASE UNCHANGED freeTimer /\ Len(timerHead') = Len(timerHead)
               /\ \A j \in 1 .. Len(timerHead) :
                    timerHead'[j] = IF j = srchTimer THEN Visited ELSE timerHead[j]
      <4>1. OneRecord' /\ Pending' = Pending
        BY <2>3, <2>t, <2>k, <3>3, VisitStep, SameRecords
      <4> QED
        BY <2>3, <2>k, <3>3, <4>1, VisitStep DEF Kept, Firing, FiresNow
    <3> QED
      BY <2>3, <3>2, <3>3, VisitStep
  <2>4. CASE Fire
    <3>1. /\ freeTimer \in Record /\ freeTimer # NoRecord /\ freeTimer' = NoRecord
          /\ UNCHANGED timerHead
      BY <2>4 DEF Fire, TypeOK
    <3>2. OneRecord' /\ Pending' = Pending /\ Firing' = {} /\ FiresNow'
      BY <2>k, <3>1 DEF OneRecord, Pending, Firing, FiresNow
    <3>3. CASE freeTimer.event
      <4>1. freeTimer.timeout = 0 /\ Firing = {freeTimer.timer}
        BY <3>1, <3>3 DEF FiresNow, Firing
      <4>2. promised' = IF Found(timerHead, freeTimer.timer) = {}
                        THEN promised \ {freeTimer.timer} ELSE promised
        BY <2>4, <3>3, <4>1 DEF Fire
      <4>3. Found(timerHead, freeTimer.timer) # {} <=> freeTimer.timer \in Pending
        BY DEF Found, Pending
      <4> QED
        BY <2>k, <3>2, <4>1, <4>2, <4>3 DEF Kept
    <3>4. CASE ~freeTimer.event
      <4>1. promised' = promised /\ Firing = {}
        BY <2>4, <3>4 DEF Fire, Firing
      <4> QED
        BY <2>k, <3>2, <4>1 DEF Kept
    <3> QED
      BY <3>3, <3>4
  <2>5. ASSUME NEW t \in Timer, NEW n \in Timeouts,
               StartTimer(t, n) \/ osal_start_reload_timer(t, n)
        PROVE  Kept' /\ FiresNow'
    <3>1. UNCHANGED freeTimer /\ Firing' = Firing /\ FiresNow'
      BY <2>5, StartStep DEF Firing, FiresNow
    <3>2. CASE UNCHANGED <<timerHead, promised>>
      BY <2>k, <3>1, <3>2 DEF Kept, OneRecord, Pending
    <3>3. CASE promised' = promised \cup {t} /\ Starts(timerHead, timerHead', t, n)
      <4>1. /\ timerHead' \in Seq(Record) /\ DOMAIN timerHead' = 1 .. Len(timerHead')
            /\ Len(timerHead') = IF Found(timerHead, t) # {} THEN Len(timerHead)
                                 ELSE Len(timerHead) + 1
        BY <3>3, LenProperties DEF Starts
      <4>2. n \in Nat /\ \A i : Owed(i) \in Nat
        BY TimesAssumption, OwedType DEF TypeOK
      <4>3. \A i \in 1 .. Len(timerHead) : /\ timerHead'[i].timer = timerHead[i].timer
                                           /\ timerHead'[i].event = timerHead[i].event
        <5> SUFFICES ASSUME NEW i \in 1 .. Len(timerHead)
                     PROVE  /\ timerHead'[i].timer = timerHead[i].timer
                            /\ timerHead'[i].event = timerHead[i].event
          OBVIOUS
        <5>1. CASE i \in Found(timerHead, t)
          <6>1. Alike(timerHead'[i], Restarted(timerHead[i], n, Owed(i)))
            BY <3>3, <5>1 DEF Starts
          <6>2. timerHead[i] \in Record /\ n \in Nat /\ Owed(i) \in Nat
            BY <2>t, <4>2
          <6>3. /\ Restarted(timerHead[i], n, Owed(i)).timer = timerHead[i].timer
                /\ Restarted(timerHead[i], n, Owed(i)).event = timerHead[i].event
            BY <6>2 DEF Restarted, Record
          <6> QED
            BY <6>1, <6>3 DEF Alike
        <5>2. CASE i \notin Found(timerHead, t)
          BY <3>3, <5>2 DEF Starts, Alike
        <5> QED
          BY <5>1, <5>2
      <4>4. CASE Found(timerHead, t) # {}
        <5>1. t \in Pending
          BY <2>t, <4>4 DEF Found, Pending
        <5>2. OneRecord' /\ Pending' = Pending
          BY <2>t, <2>k, <4>1, <4>3, <4>4, SameRecords
        <5> QED
          BY <2>k, <3>1, <3>3, <5>1, <5>2 DEF Kept
      <4>5. CASE Found(timerHead, t) = {}
        <5> DEFINE last == Len(timerHead) + 1
        <5>1. timerHead'[last].timer = t /\ timerHead'[last].event
          BY <3>3, <4>5 DEF Starts, Alike, Fresh
        <5>2. \A i \in 1 .. Len(timerHead) : ~(timerHead[i].event /\ timerHead[i].timer = t)
          BY <2>t, <4>5 DEF Found
        <5>3. 1 .. last = (1 .. Len(timerHead)) \cup {last} /\ DOMAIN timerHead' = 1 .. last
          BY <2>t, <4>1, <4>5
        <5> HIDE DEF last
        <5>4. OneRecord'
          BY <2>t, <2>k, <4>3, <5>1, <5>2, <5>3 DEF OneRecord
        <5>5. Pending' = Pending \cup {t}
          <6>1. \A u : u \in Pending <=> \E i \in 1 .. Len(timerHead) :
                                           timerHead[i].event /\ timerHead[i].timer = u
            BY <2>t DEF Pending
          <6>2. \A u : u \in Pending' <=> \E i \in 1 .. last :
                                            timerHead'[i].event /\ timerHead'[i].timer = u
            BY <5>3 DEF Pending
          <6> QED
            BY <4>3, <5>1, <5>3, <6>1, <6>2
        <5> QED
          BY <2>k, <3>1, <3>3, <5>4, <5>5 DEF Kept
      <4> QED
        BY <4>4, <4>5
    <3> QED
      BY <2>5, <3>2, <3>3, StartStep
  <2>6. ASSUME NEW t \in Timer, osal_stop_timerEx(t) PROVE Kept' /\ FiresNow'
    <3>1. UNCHANGED freeTimer /\ freeTimer = NoRecord /\ Firing = {} /\ Firing' = {} /\ FiresNow'
      BY <2>6 DEF osal_stop_timerEx, TypeOK, Firing, FiresNow
    <3>2. DOMAIN timerHead' = 1 .. Len(timerHead)
      BY <2>6, <2>t DEF osal_stop_timerEx, Deleted
    <3>3. \A i \in 1 .. Len(timerHead) :
            /\ timerHead'[i].timer = timerHead[i].timer
            /\ timerHead'[i].event <=> timerHead[i].event /\ timerHead[i].timer # t
      BY <2>6, <2>t DEF osal_stop_timerEx, Deleted, Found, Record
    <3>4. OneRecord'
      BY <2>t, <2>k, <3>2, <3>3 DEF OneRecord
    <3>5. Pending' = Pending \ {t}
      <4>1. \A u : u \in Pending <=> \E i \in 1 .. Len(timerHead) :
                                       timerHead[i].event /\ timerHead[i].timer = u
        BY <2>t DEF Pending
      <4>2. \A u : u \in Pending' <=> \E i \in 1 .. Len(timerHead) :
                                        timerHead'[i].event /\ timerHead'[i].timer = u
        BY <3>2 DEF Pending
      <4> QED
        BY <3>3, <4>1, <4>2
    <3> QED
      BY <2>6, <2>k, <3>1, <3>4, <3>5 DEF osal_stop_timerEx, Kept
  <2>7. ASSUME NEW t \in Timer, TakeEvent(t) PROVE Kept' /\ FiresNow'
    BY <2>7 DEF TakeEvent, Kept, OneRecord, Pending, Firing, FiresNow
  <2>8. CASE UNCHANGED vars
    BY <2>8 DEF vars, Kept, OneRecord, Pending, Firing, FiresNow
  <2> QED
    BY <2>1, <2>2, <2>3, <2>4, <2>5, <2>6, <2>7, <2>8
    DEF Next, osalTimerUpdate, Walk, osal_start_timerEx, IsrStart
<1> QED
  BY <1>1, <1>2, TypeCorrect, PTL DEF Spec

-----------------------------------------------------------------------------
(* No millisecond is lost or counted twice *)

\* Polls are never further apart than the bound says, and neither is the time a
\* walk charges.
LagBounded == lag <= MaxLag /\ updateTime <= MaxLag

\* What Exact says of one record that owes the time o.
Balanced(rec, o) == rec.event => rec.timeout + rec.age + rec.early = rec.asked + o

\* A record just given the time n is balanced: what it owes was over before.
LEMMA NewBalanced ==
  ASSUME NEW r, NEW n \in Nat, NEW o \in Nat, NEW rec \in Record,
         Alike(r, Restarted(rec, n, o)) \/ \E t : Alike(r, Fresh(t, n, o))
  PROVE  Balanced(r, o)
<1>1. CASE Alike(r, Restarted(rec, n, o))
  <2>1. /\ Restarted(rec, n, o).timeout = n /\ Restarted(rec, n, o).asked = n
        /\ Restarted(rec, n, o).age = 0 /\ Restarted(rec, n, o).early = o
    BY DEF Restarted, Record
  <2> QED
    BY <1>1, <2>1 DEF Alike, Balanced
<1>2. ASSUME NEW t, Alike(r, Fresh(t, n, o)) PROVE Balanced(r, o)
  BY <1>2 DEF Alike, Fresh, Balanced
<1> QED
  BY <1>1, <1>2

\* A record that is charged with what it owes for the walk owes that no more.
LEMMA ChargePays ==
  ASSUME NEW rec \in Record, NEW l \in Nat, NEW u \in Nat,
         rec.timeout + rec.age + rec.early = rec.asked + (l + u)
  PROVE  (rec.timeout - u) + rec.age + rec.early = rec.asked + l
<1> DEFINE t == rec.timeout
           a == rec.age
           e == rec.early
           n == rec.asked
<1>1. t \in Nat /\ a \in Nat /\ e \in Nat /\ n \in Nat
  BY DEF Record
<1>2. t + a + e = n + (l + u)
  OBVIOUS
<1> HIDE DEF t, a, e, n
<1>3. (t - u) + a + e = n + l
  BY <1>1, <1>2
<1> QED
  BY <1>3 DEF t, a, e, n

\* A millisecond that makes a record older is one more that it owes.
LEMMA TickCounts ==
  ASSUME NEW rec \in Record, NEW o \in Nat, rec.timeout + rec.age + rec.early = rec.asked + o
  PROVE  rec.timeout + (rec.age + 1) + rec.early = rec.asked + (o + 1)
<1>1. rec.timeout \in Nat /\ rec.age \in Nat /\ rec.early \in Nat /\ rec.asked \in Nat
  BY DEF Record
<1> QED
  BY <1>1

\* A record that was visited and put back has paid what it owed: either the
\* time was taken off, or it starts anew and forgives itself the lag.
LEMMA VisitBalanced ==
  ASSUME TypeOK, pc = "walk", srchTimer \in 1 .. Len(timerHead),
         timerHead[srchTimer] \in Record,
         Balanced(timerHead[srchTimer], lag + updateTime), Visited.timeout # 0
  PROVE  Balanced(Visited, lag)
<1> DEFINE old == timerHead[srchTimer]
           charged == Charged(old)
<1>1. lag \in Nat /\ updateTime \in Nat
  BY DEF TypeOK
<1>2. /\ charged \in Record /\ charged.event = old.event
      /\ charged.reloadTimeout = old.reloadTimeout
      /\ charged.asked = old.asked /\ charged.early = old.early /\ charged.age = old.age
      /\ charged.timeout = IF old.timeout <= updateTime THEN 0 ELSE old.timeout - updateTime
  BY <1>1, ChargedStep
<1>3. Visited = IF Reloads(charged) THEN Reloaded(charged) ELSE charged
  BY DEF Visited
<1>4. /\ old.timeout \in Nat /\ old.age \in Nat /\ old.early \in Nat /\ old.asked \in Nat
      /\ charged.reloadTimeout \in Nat
  BY <1>2 DEF Record
<1> HIDE DEF charged
<1>5. CASE Reloads(charged)
  <2>1. /\ Reloaded(charged).timeout = charged.timeout + charged.reloadTimeout
        /\ Reloaded(charged).asked = charged.reloadTimeout
        /\ Reloaded(charged).age = 0 /\ Reloaded(charged).early = lag
    BY <1>1, <1>2, ReloadedStep
  <2>2. charged.timeout = 0
    BY <1>5 DEF Reloads
  <2> QED
    BY <1>1, <1>3, <1>4, <1>5, <2>1, <2>2 DEF Balanced
<1>6. CASE ~Reloads(charged)
  <2>1. Visited = charged /\ old.timeout > updateTime
    BY <1>1, <1>2, <1>3, <1>4, <1>6
  <2>2. charged.timeout = old.timeout - updateTime
    BY <1>1, <1>2, <1>4, <2>1
  <2>3. SUFFICES ASSUME old.event
                 PROVE  charged.timeout + charged.age + charged.early = charged.asked + lag
    BY <1>2, <2>1 DEF Balanced
  <2>4. old.timeout + old.age + old.early = old.asked + (lag + updateTime)
    BY <2>3 DEF Balanced
  <2> HIDE DEF old
  <2>5. (old.timeout - updateTime) + old.age + old.early = old.asked + lag
    BY <1>1, <2>4, ChargePays DEF old
  <2> QED
    BY <1>2, <2>2, <2>5
<1> QED
  BY <1>5, <1>6

\* Whatever happens between two polls and during a walk, what is left of a
\* timer is what was asked for less its age and what it still owes.
THEOREM TimersExact == Spec => []Exact
<1>1. Init => Exact /\ LagBounded
  BY BoundsAssumption, EmptySeq DEF Init, Exact, LagBounded
<1>2. TypeOK /\ Exact /\ LagBounded /\ [Next]_vars => Exact' /\ LagBounded'
  <2> SUFFICES ASSUME TypeOK, Exact, LagBounded, [Next]_vars PROVE Exact' /\ LagBounded'
    OBVIOUS
  <2>t. /\ timerHead \in Seq(Record) /\ Len(timerHead) \in Nat
        /\ DOMAIN timerHead = 1 .. Len(timerHead)
        /\ \A i \in 1 .. Len(timerHead) : timerHead[i] \in Record
    BY LenProperties, ElementOfSeq DEF TypeOK
  <2>n. lag \in Nat /\ updateTime \in Nat /\ MaxLag \in Nat /\ srchTimer \in Nat
    BY <2>t, BoundsAssumption DEF TypeOK
  <2>o. \A i : Owed(i) \in Nat
    BY <2>n, OwedType
  <2>e. \A i \in 1 .. Len(timerHead) : Balanced(timerHead[i], Owed(i))
    BY <2>t DEF Exact, Balanced
  <2>q. ASSUME NEW n \in Nat, DOMAIN timerHead' = 1 .. n,
               \A i \in 1 .. n : Balanced(timerHead'[i], Owed(i)')
        PROVE  Exact'
    BY <2>q DEF Exact, Balanced
  <2>1. CASE Tick
    <3>1. LagBounded'
      BY <2>1, <2>n DEF Tick, LagBounded
    <3>2. ASSUME NEW i \in 1 .. Len(timerHead), timerHead'[i].event
          PROVE  timerHead'[i].timeout + timerHead'[i].age + timerHead'[i].early
                   = timerHead'[i].asked + Owed(i)'
      <4> DEFINE rec == timerHead[i]
      <4>1. timerHead'[i] = Aged(rec) /\ rec \in Record
        BY <2>1, <2>t DEF Tick
      <4>2. /\ Aged(rec).event = rec.event /\ Aged(rec).timeout = rec.timeout
            /\ Aged(rec).asked = rec.asked /\ Aged(rec).early = rec.early
            /\ Aged(rec).age = IF rec.age < rec.asked + 2 * MaxLag THEN rec.age + 1 ELSE rec.age
        BY <4>1, AgedStep
      <4>3. rec.timeout + rec.age + rec.early = rec.asked + Owed(i)
        BY <2>e, <3>2, <4>1, <4>2 DEF Balanced
      <4>4. /\ rec.timeout \in Nat /\ rec.age \in Nat /\ rec.early \in Nat /\ rec.asked \in Nat
        BY <4>1 DEF Record
      <4>5. Owed(i) < 2 * MaxLag /\ Owed(i)' = Owed(i) + 1 /\ Owed(i) \in Nat
        BY <2>1, <2>n DEF Tick, Owed, LagBounded
      <4> HIDE DEF rec
      <4>6. rec.age < rec.asked + 2 * MaxLag
        BY <2>n, <4>3, <4>4, <4>5, SMTT(30)
      <4>7. Aged(rec).age = rec.age + 1
        BY <4>2, <4>6
      <4>8. rec.timeout + (rec.age + 1) + rec.early = rec.asked + (Owed(i) + 1)
        BY <4>1, <4>3, <4>5, TickCounts
      <4> QED
        BY <4>1, <4>2, <4>5, <4>7, <4>8
    <3>3. DOMAIN timerHead' = 1 .. Len(timerHead)
      BY <2>1, <2>t DEF Tick
    <3> QED
      BY <2>t, <2>q, <3>1, <3>2, <3>3 DEF Balanced
  <2>2. CASE Poll
    <3>1. UNCHANGED timerHead /\ LagBounded'
      BY <2>2, <2>n DEF Poll, LagBounded
    <3>2. \A i \in 1 .. Len(timerHead) : Owed(i)' = Owed(i)
      BY <2>2, <2>t, <2>n DEF Poll, Owed
    <3> QED
      BY <2>t, <2>e, <2>q, <3>1, <3>2
  <2>3. CASE Visit
    <3>1. LagBounded'
      BY <2>3, VisitStep DEF LagBounded
    <3>2. pc = "walk" /\ srchTimer \in 1 .. Len(timerHead)
      BY <2>3, VisitStep
    <3>3. \A i \in 1 .. Len(timerHead) :
            Owed(i) = IF i >= srchTimer THEN lag + updateTime ELSE lag
      BY <2>n, <3>2 DEF Owed
    <3>4. CASE /\ srchTimer' = srchTimer /\ pc' = "fire"
               /\ Len(timerHead') = Len(timerHead) - 1
               /\ \A j \in 1 .. Len(timerHead) - 1 :
                    timerHead'[j] = IF j < srchTimer THEN timerHead[j] ELSE timerHead[j + 1]
      <4>1. DOMAIN timerHead' = 1 .. Len(timerHead) - 1
        BY <2>3, <3>4, VisitStep, LenProperties
      <4>2. \A j : Owed(j)' = lag + (IF j >= srchTimer THEN updateTime ELSE 0)
        BY <2>3, <3>4, VisitStep DEF Owed
      <4>3. ASSUME NEW j \in 1 .. Len(timerHead) - 1
            PROVE  Balanced(timerHead'[j], Owed(j)')
        <5>1. CASE j < srchTimer
          <6>1. j \in 1 .. Len(timerHead) /\ Owed(j)' = Owed(j) /\ timerHead'[j] = timerHead[j]
            BY <2>t, <2>n, <3>3, <3>4, <4>2, <5>1
          <6> QED
            BY <2>e, <6>1
        <5>2. CASE ~(j < srchTimer)
          <6>1. /\ j + 1 \in 1 .. Len(timerHead) /\ Owed(j)' = Owed(j + 1)
                /\ timerHead'[j] = timerHead[j + 1]
            BY <2>t, <2>n, <3>3, <3>4, <4>2, <5>2
          <6> QED
            BY <2>e, <6>1
        <5> QED
          BY <5>1, <5>2
      <4>4. Len(timerHead) - 1 \in Nat
        BY <2>t, <3>2
      <4> QED
        BY <2>q, <3>1, <4>1, <4>3, <4>4
    <3>5. CASE /\ srchTimer' = srchTimer + 1 /\ UNCHANGED pc /\ Visited.timeout # 0
               /\ Len(timerHead') = Len(timerHead)
               /\ \A j \in 1 .. Len(timerHead) :
                    timerHead'[j] = IF j = srchTimer THEN Visited ELSE timerHead[j]
      <4>1. DOMAIN timerHead' = 1 .. Len(timerHead)
        BY <2>3, <3>5, VisitStep, LenProperties
      <4>2. \A j \in 1 .. Len(timerHead) :
              Owed(j)' = IF j >= srchTimer + 1 THEN lag + updateTime ELSE lag
        BY <2>3, <2>n, <3>2, <3>5, VisitStep DEF Owed
      <4>3. Balanced(Visited, lag)
        <5>1. Balanced(timerHead[srchTimer], lag + updateTime)
          BY <2>e, <2>n, <3>2, <3>3
        <5> QED
          BY <2>t, <3>2, <3>5, <5>1, VisitBalanced
      <4>4. ASSUME NEW j \in 1 .. Len(timerHead)
            PROVE  Balanced(timerHead'[j], Owed(j)')
        <5>1. CASE j = srchTimer
          BY <2>n, <3>5, <4>2, <4>3, <5>1
        <5>2. CASE j # srchTimer
          <6>1. Owed(j)' = Owed(j) /\ timerHead'[j] = timerHead[j]
            BY <2>n, <3>3, <3>5, <4>2, <5>2
          <6> QED
            BY <2>e, <6>1
        <5> QED
          BY <5>1, <5>2
      <4> QED
        BY <2>t, <2>q, <3>1, <4>1, <4>4
    <3> QED
      BY <2>3, <3>4, <3>5, VisitStep
  <2>4. CASE Fire
    <3>1. UNCHANGED timerHead /\ LagBounded' /\ \A i : Owed(i)' = Owed(i)
      BY <2>4 DEF Fire, LagBounded, Owed
    <3> QED
      BY <2>t, <2>e, <2>q, <3>1
  <2>5. CASE EndWalk
    <3>1. UNCHANGED timerHead /\ LagBounded'
      BY <2>5, BoundsAssumption DEF EndWalk, LagBounded
    <3>2. \A i \in 1 .. Len(timerHead) : Owed(i)' = Owed(i)
      BY <2>5, <2>t, <2>n DEF EndWalk, Owed
    <3> QED
      BY <2>t, <2>e, <2>q, <3>1, <3>2
  <2>6. ASSUME NEW t \in Timer, NEW n \in Timeouts,
               StartTimer(t, n) \/ osal_start_reload_timer(t, n)
        PROVE  Exact' /\ LagBounded'
    <3>1. LagBounded' /\ \A i : Owed(i)' = Owed(i)
      BY <2>6, StartStep DEF LagBounded, Owed
    <3>2. CASE UNCHANGED timerHead
      BY <2>t, <2>e, <2>q, <3>1, <3>2
    <3>3. CASE Starts(timerHead, timerHead', t, n)
      <4>1. /\ DOMAIN timerHead' = 1 .. Len(timerHead') /\ Len(timerHead') \in Nat
            /\ Len(timerHead') = IF Found(timerHead, t) # {} THEN Len(timerHead)
                                 ELSE Len(timerHead) + 1
        BY <3>3, LenProperties DEF Starts
      <4>2. n \in Nat
        BY TimesAssumption
      <4>3. ASSUME NEW i \in 1 .. Len(timerHead)
            PROVE  Balanced(timerHead'[i], Owed(i))
        <5>1. CASE i \in Found(timerHead, t)
          <6>1. Alike(timerHead'[i], Restarted(timerHead[i], n, Owed(i)))
            BY <3>3, <5>1 DEF Starts
          <6>2. timerHead[i] \in Record /\ Owed(i) \in Nat
            BY <2>t, <2>o
          <6> QED
            BY <4>2, <6>1, <6>2, NewBalanced
        <5>2. CASE i \notin Found(timerHead, t)
          <6>1. Alike(timerHead'[i], timerHead[i])
            BY <3>3, <5>2 DEF Starts
          <6> QED
            BY <2>e, <6>1 DEF Alike, Balanced
        <5> QED
          BY <5>1, <5>2
      <4>4. ASSUME Found(timerHead, t) = {}
            PROVE  Balanced(timerHead'[Len(timerHead) + 1], Owed(Len(timerHead) + 1))
        <5>1. Alike(timerHead'[Len(timerHead) + 1], Fresh(t, n, Owed(Len(timerHead) + 1)))
          BY <3>3, <4>4 DEF Starts
        <5>2. Owed(Len(timerHead) + 1) \in Nat
          BY <2>o
        <5> QED
          BY <4>2, <5>1, <5>2 DEF Alike, Fresh, Balanced
      <4>5. ASSUME NEW i \in 1 .. Len(timerHead')
            PROVE  Balanced(timerHead'[i], Owed(i)')
        <5>1. CASE i \in 1 .. Len(timerHead)
          BY <3>1, <4>3, <5>1
        <5>2. CASE i \notin 1 .. Len(timerHead)
          <6>1. Found(timerHead, t) = {} /\ Len(timerHead') = Len(timerHead) + 1
            BY <4>1, <5>2
          <6>2. i = Len(timerHead) + 1
            BY <2>t, <5>2, <6>1
          <6> QED
            BY <3>1, <4>4, <6>1, <6>2
        <5> QED
          BY <5>1, <5>2
      <4> QED
        BY <2>q, <3>1, <4>1, <4>5
    <3> QED
      BY <2>6, <3>2, <3>3, StartStep
  <2>7. ASSUME NEW t \in Timer, osal_stop_timerEx(t) PROVE Exact' /\ LagBounded'
    <3>1. LagBounded' /\ \A i : Owed(i)' = Owed(i)
      BY <2>7 DEF osal_stop_timerEx, LagBounded, Owed
    <3>2. DOMAIN timerHead' = 1 .. Len(timerHead)
      BY <2>7, <2>t DEF osal_stop_timerEx, Deleted
    <3>3. \A i \in 1 .. Len(timerHead) : ~timerHead'[i].event \/ timerHead'[i] = timerHead[i]
      BY <2>7, <2>t DEF osal_stop_timerEx, Deleted, Record
    <3>4. \A i \in 1 .. Len(timerHead) : Balanced(timerHead'[i], Owed(i)')
      BY <2>e, <3>1, <3>3 DEF Balanced
    <3> QED
      BY <2>t, <2>q, <3>1, <3>2, <3>4
  <2>8. ASSUME NEW t \in Timer, TakeEvent(t) PROVE Exact' /\ LagBounded'
    BY <2>8 DEF TakeEvent, Exact, LagBounded, Owed
  <2>9. CASE UNCHANGED vars
    BY <2>9 DEF vars, Exact, LagBounded, Owed
  <2> QED
    BY <2>1, <2>2, <2>3, <2>4, <2>5, <2>6, <2>7, <2>8, <2>9
    DEF Next, osalTimerUpdate, Walk, osal_start_timerEx, IsrStart
<1> QED
  BY <1>1, <1>2, TypeCorrect, PTL DEF Spec

-----------------------------------------------------------------------------
(* The clock that tells the timers the time, for every rollover period and  *)
(* width of the counts.                                                     *)

\* The task loop polls more often than the MAC timer starts again, and often
\* enough for the milliseconds to fit into 16 bits.
PolledInTime ==
  /\ Rollover \in Nat \ {0} /\ Width \in Nat \ {0}
  /\ {MaxMSec, MaxClockLag, MaxTicks} \subseteq Nat
  /\ MaxClockLag < Rollover
  /\ MaxClockLag * 8 + 24 < (MaxMSec + 1) * 25

\* The ticks up to which the MAC timer has started again.
Base == now - count

\* The software's part of the count is what it should be, or one period behind
\* because neither the interrupt nor a reader has added it; then it started again
\* after the last poll, which has left what shows it to the next one.
Running ==
  /\ count \in 0 .. Rollover - 1 /\ remUsTicks \in 0 .. 24
  /\ now \in Nat /\ polled \in 0 .. now /\ now - polled <= MaxClockLag
  /\ Base >= 0
  /\ prevoverflowCount = polled /\ previousMacTimerTick = polled
  /\ \/ accumulatedOverflowCount = Base
     \/ /\ accumulatedOverflowCount = Base - Rollover
        /\ accumulatedOverflowCount >= 0
        /\ Base > polled
        /\ prevAccumulatedOverflowCount = accumulatedOverflowCount
  /\ pending /\ accumulatedOverflowCount = Base => updateRolloverflag
  /\ Base <= polled => prevAccumulatedOverflowCount = Base

\* A number is not changed by taking it modulo a larger one, also after one
\* turn.
LEMMA ModWithin ==
  ASSUME NEW w \in Nat \ {0}, NEW n \in 0 .. w - 1
  PROVE  n % w = n /\ (n + w) % w = n
<1> DEFINE q == (n + w) \div w
           r == (n + w) % w
<1>0. n % w = n
  OBVIOUS
<1>1. q \in Int /\ r \in 0 .. w - 1 /\ n + w = w * q + r
  OBVIOUS
<1> HIDE DEF q, r
<1>2. ASSUME q >= 2 PROVE FALSE
  <2>1. PICK k \in Nat : q = k + 2
    BY <1>1, <1>2
  <2>2. w * q = w * k + 2 * w /\ w * k \in Nat
    BY <2>1
  <2> QED
    BY <1>1, <2>2
<1>3. ASSUME q <= 0 PROVE FALSE
  <2>1. PICK k \in Nat : q = 0 - k
    BY <1>1, <1>3
  <2>2. w * q = 0 - (w * k) /\ w * k \in Nat
    BY <2>1
  <2> QED
    BY <1>1, <2>2
<1>4. q = 1
  BY <1>1, <1>2, <1>3
<1>5. w * q = w
  BY <1>4
<1> QED
  BY <1>0, <1>1, <1>5 DEF r

\* Milliseconds and what is left are what was to be converted.
LEMMA Conversion ==
  ASSUME PolledInTime, NEW x \in 0 .. MaxClockLag * 8 + 24
  PROVE  Elapsed(x) * 25 + Left(x) = x /\ Left(x) \in 0 .. 24
<1>1. x \in Nat /\ MaxMSec + 1 \in Nat \ {0}
  BY DEF PolledInTime
<1>2. (x \div 25) * 25 + (x % 25) = x /\ x \div 25 \in Nat /\ x % 25 \in 0 .. 24
  BY <1>1
<1>3. x \div 25 \in 0 .. (MaxMSec + 1) - 1
  BY <1>1, <1>2 DEF PolledInTime
<1>4. (x \div 25) % (MaxMSec + 1) = x \div 25
  BY <1>1, <1>3, ModWithin
<1> QED
  BY <1>2, <1>4 DEF Elapsed, Left

\* The count that a reader gets is the time.
LEMMA CountIsTime ==
  ASSUME PolledInTime, Running, now < Width
  PROVE  /\ macMcuPrecisionCount = now
         /\ Missed <=> accumulatedOverflowCount # Base
         /\ Ticks = now - polled
<1>n. /\ Width \in Nat \ {0} /\ Rollover \in Nat \ {0} /\ MaxClockLag \in Nat
      /\ MaxClockLag < Rollover
  BY DEF PolledInTime
<1>1. accumulatedOverflowCount + count \in 0 .. Width - 1
  BY <1>n DEF Running, Base
<1>2. Sum = accumulatedOverflowCount + count
  BY <1>n, <1>1, ModWithin DEF Sum, Plus
<1>3. Missed <=> accumulatedOverflowCount # Base
  BY <1>n, <1>2 DEF Missed, Running, Base
<1>4. macMcuPrecisionCount = now
  <2>1. CASE accumulatedOverflowCount = Base
    BY <1>2, <1>3, <2>1 DEF macMcuPrecisionCount, Running, Base
  <2>2. CASE accumulatedOverflowCount # Base
    <3>1. Sum + Rollover = now
      BY <1>n, <1>2, <2>2 DEF Running, Base
    <3>2. now \in 0 .. Width - 1
      BY <1>n DEF Running
    <3>3. Plus(Sum, Rollover) = now
      BY <1>n, <3>1, <3>2, ModWithin DEF Plus
    <3> QED
      BY <1>3, <2>2, <3>3 DEF macMcuPrecisionCount
  <2> QED
    BY <2>1, <2>2
<1>5. Ticks = now - polled
  <2>1. now - polled \in 0 .. Width - 1 /\ now + Width - polled = (now - polled) + Width
    BY <1>n DEF Running
  <2>2. ((now - polled) + Width) % Width = now - polled
    BY <1>n, <2>1, ModWithin
  <2>3. previousMacTimerTick = polled
    BY DEF Running
  <2> QED
    BY <1>4, <2>1, <2>2, <2>3 DEF Ticks
<1> QED
  BY <1>3, <1>4, <1>5

\* A poll leaves nothing behind.
LEMMA PollStep ==
  ASSUME PolledInTime, Running, now < Width, osalTimeUpdate
  PROVE  /\ Running'
         /\ elapsedMSec * 25 + remUsTicks' = (now - polled) * 8 + remUsTicks
<1>n. /\ Width \in Nat \ {0} /\ Rollover \in Nat \ {0} /\ MaxClockLag \in Nat
      /\ MaxClockLag < Rollover
  BY DEF PolledInTime
<1> DEFINE x == (now - polled) * 8 + remUsTicks
<1>x. x \in 0 .. MaxClockLag * 8 + 24
  BY <1>n DEF Running
<1>1. Ticks = now - polled /\ Converted(Ticks) = x
  BY CountIsTime DEF Converted
<1>2. /\ elapsedMSec = IF now - polled = 0 THEN 0 ELSE Elapsed(x)
      /\ remUsTicks' = IF now - polled = 0 THEN remUsTicks ELSE Left(x)
  BY <1>1 DEF elapsedMSec, osalTimeUpdate
<1>3. remUsTicks \in 0 .. 24 /\ now - polled \in Nat
  BY DEF Running
<1>4. Elapsed(x) * 25 + Left(x) = x /\ Left(x) \in 0 .. 24
  BY <1>x, Conversion
<1>5. elapsedMSec * 25 + remUsTicks' = x /\ remUsTicks' \in 0 .. 24
  BY <1>2, <1>3, <1>4
<1>6. /\ prevoverflowCount' = now /\ previousMacTimerTick' = now
      /\ polled' = now /\ UNCHANGED <<count, now, pending>>
      /\ prevAccumulatedOverflowCount' = accumulatedOverflowCount'
  BY CountIsTime DEF osalTimeUpdate, Look
<1>7. accumulatedOverflowCount' = Base
  <2>1. CASE accumulatedOverflowCount = Base
    BY <2>1, CountIsTime DEF osalTimeUpdate, Look
  <2>2. CASE accumulatedOverflowCount # Base
    <3>1. accumulatedOverflowCount + Rollover = Base /\ Base \in 0 .. Width - 1
      BY <1>n, <2>2 DEF Running, Base
    <3> QED
      BY <1>n, <2>2, <3>1, CountIsTime, ModWithin DEF osalTimeUpdate, Look, Plus
  <2> QED
    BY <2>1, <2>2
<1>8. pending => updateRolloverflag'
  <2>1. updateRolloverflag' = (updateRolloverflag \/ accumulatedOverflowCount # Base)
    BY CountIsTime DEF osalTimeUpdate, Look
  <2> QED
    BY <2>1 DEF Running
<1>9. Running'
  BY <1>n, <1>5, <1>6, <1>7, <1>8 DEF Running, Base
<1> QED
  BY <1>5, <1>9

\* A tick, also the one with which the MAC timer starts again.
LEMMA TickStep ==
  ASSUME PolledInTime, Running, now < Width, ClockTick
  PROVE  Running'
<1>n. /\ Rollover \in Nat \ {0} /\ MaxClockLag \in Nat /\ MaxClockLag < Rollover
  BY DEF PolledInTime
<1>1. /\ now' = now + 1 /\ now - polled < MaxClockLag
      /\ count' = (count + 1) % Rollover
      /\ count' = 0 \/ pending' = pending
      /\ UNCHANGED <<accumulatedOverflowCount, updateRolloverflag, prevoverflowCount,
                     prevAccumulatedOverflowCount, previousMacTimerTick, remUsTicks, polled>>
  BY DEF ClockTick
<1>2. CASE count + 1 < Rollover
  <2>1. count' = count + 1
    BY <1>n, <1>1, <1>2, ModWithin DEF Running
  <2>2. Base' = Base /\ pending' = pending
    BY <1>n, <1>1, <2>1 DEF Running, Base
  <2> QED
    BY <1>n, <1>1, <1>2, <2>1, <2>2 DEF Running, Base
<1>3. CASE count + 1 = Rollover
  <2>1. count' = 0
    BY <1>n, <1>1, <1>3, ModWithin DEF Running
  <2>2. Base' = Base + Rollover /\ Base <= polled
    BY <1>n, <1>1, <1>3, <2>1 DEF Running, Base
  <2>3. /\ accumulatedOverflowCount = Base /\ prevAccumulatedOverflowCount = Base
        /\ Base' > polled
    BY <1>n, <1>1, <2>1, <2>2 DEF Running, Base
  <2> QED
    BY <1>n, <1>1, <2>1, <2>2, <2>3 DEF Running, Base
<1> QED
  BY <1>n, <1>2, <1>3 DEF Running

\* The interrupt, unless a reader has done its work.
LEMMA OverflowStep ==
  ASSUME PolledInTime, Running, now < Width, macMcuAccumulatedOverFlow
  PROVE  Running'
<1>n. Rollover \in Nat \ {0} /\ Width \in Nat \ {0}
  BY DEF PolledInTime
<1>1. /\ pending /\ ~pending'
      /\ UNCHANGED <<count, prevoverflowCount, prevAccumulatedOverflowCount,
                     previousMacTimerTick, remUsTicks, now, polled>>
  BY DEF macMcuAccumulatedOverFlow
<1>2. CASE updateRolloverflag
  <2>1. UNCHANGED accumulatedOverflowCount
    BY <1>2 DEF macMcuAccumulatedOverFlow, Adds
  <2> QED
    BY <1>1, <2>1 DEF Running, Base
<1>3. CASE ~updateRolloverflag
  <2>1. accumulatedOverflowCount + Rollover = Base /\ Base \in 0 .. Width - 1 /\ Base > polled
    BY <1>n, <1>1, <1>3 DEF Running, Base
  <2>2. accumulatedOverflowCount' = Base
    BY <1>n, <1>3, <2>1, ModWithin DEF macMcuAccumulatedOverFlow, Adds, Plus
  <2> QED
    BY <1>1, <2>1, <2>2 DEF Running, Base
<1> QED
  BY <1>2, <1>3

\* The count is the time until it wraps for the first time, although the
\* interrupt of the rollover may be late, be lost, or come after a reader has
\* done its work (macMcuAccumulatedOverFlow, macMcuPrecisionCount).
THEOREM CountRunsFree ==
  ASSUME PolledInTime
  PROVE  ClockSpec => []FreeRunningAtFirst
<1> DEFINE Inv == now \in Nat /\ (now < Width => Running)
<1>1. ClockInit => Inv
  BY DEF ClockInit, PolledInTime, Running, Base
<1>2. Inv /\ [ClockNext]_clockVars => Inv'
  <2> SUFFICES ASSUME Inv, [ClockNext]_clockVars PROVE Inv'
    OBVIOUS
  <2>1. now' \in Nat /\ now <= now'
    BY DEF ClockNext, clockVars, ClockTick, macMcuAccumulatedOverFlow, osalTimeUpdate
  <2>2. now' < Width => Running'
    <3> SUFFICES ASSUME now' < Width PROVE Running'
      OBVIOUS
    <3>1. now < Width /\ Running
      BY <2>1 DEF PolledInTime
    <3>2. CASE UNCHANGED clockVars
      BY <3>1, <3>2 DEF clockVars, counter, Running, Base
    <3> QED
      BY <3>1, <3>2, TickStep, OverflowStep, PollStep DEF ClockNext
  <2> QED
    BY <2>1, <2>2
<1>3. Inv => FreeRunningAtFirst
  <2> SUFFICES ASSUME Inv, now < Width PROVE FreeRunning
    BY DEF FreeRunningAtFirst
  <2>1. now % Width = now
    BY ModWithin, SMTT(30) DEF PolledInTime
  <2> QED
    BY <2>1, CountIsTime DEF FreeRunning
<1> QED
  BY <1>1, <1>2, <1>3, PTL DEF ClockSpec

\* No time is lost or told twice: the count is the time, and what each poll tells
\* the timers and the clock, with what it leaves for the next one, are the ticks
\* since the last poll (macMcuPrecisionCount, osalTimeUpdate), as long as the
\* count does not wrap.
THEOREM NoTimeLost ==
  ASSUME PolledInTime, MaxTicks < Width
  PROVE  ClockSpec => NothingLost
<1> DEFINE Inv == Running /\ now <= MaxTicks
<1>1. ClockInit => Inv
  BY DEF ClockInit, PolledInTime, Running, Base
<1>2. Inv => now < Width
  BY DEF PolledInTime, Running
<1>3. Inv /\ [ClockNext]_clockVars => Inv'
  <2> SUFFICES ASSUME Inv, [ClockNext]_clockVars PROVE Inv'
    OBVIOUS
  <2>1. now' <= MaxTicks
    BY DEF ClockNext, clockVars, ClockTick, macMcuAccumulatedOverFlow,
           osalTimeUpdate, PolledInTime, Running
  <2>2. CASE UNCHANGED clockVars
    BY <2>1, <2>2 DEF clockVars, counter, Running, Base
  <2> QED
    BY <1>2, <2>1, <2>2, TickStep, OverflowStep, PollStep DEF ClockNext
<1>4. Inv /\ [ClockNext]_clockVars
        => [polled' # polled => elapsedMSec * 25 + remUsTicks' = (now - polled) * 8 + remUsTicks]_clockVars
  <2> SUFFICES ASSUME Inv, [ClockNext]_clockVars, polled' # polled
               PROVE  elapsedMSec * 25 + remUsTicks' = (now - polled) * 8 + remUsTicks
    OBVIOUS
  <2>1. osalTimeUpdate
    BY DEF ClockNext, clockVars, ClockTick, macMcuAccumulatedOverFlow
  <2> QED
    BY <1>2, <2>1, PollStep
<1> QED
  BY <1>1, <1>3, <1>4, CountRunsFree, PTL DEF ClockSpec, NothingLost

\* A multiple leaves no rest.
LEMMA MultipleOf ==
  ASSUME NEW r \in Nat \ {0}, NEW k \in Nat
  PROVE  (r * k) % r = 0
<1> DEFINE n == r * k
           q == n \div r
           rest == n % r
<1>1. n \in Nat
  OBVIOUS
<1>2. q \in Int /\ rest \in 0 .. r - 1 /\ n = r * q + rest
  BY <1>1
<1>3. n = r * k
  OBVIOUS
<1> HIDE DEF n, q, rest
<1>4. ASSUME k < q PROVE FALSE
  <2>1. PICK d \in Nat : q = k + 1 + d
    <3>1. q - k - 1 \in Nat /\ q = k + 1 + (q - k - 1)
      BY <1>2, <1>4
    <3> QED
      BY <3>1
  <2>2. r * q = r * k + r + r * d /\ r * d \in Nat /\ r * k \in Nat
    BY <2>1
  <2> QED
    BY <1>2, <1>3, <2>2
<1>5. ASSUME q < k PROVE FALSE
  <2>1. PICK d \in Nat : k = q + 1 + d
    <3>1. k - q - 1 \in Nat /\ k = q + 1 + (k - q - 1)
      BY <1>2, <1>5
    <3> QED
      BY <3>1
  <2>2. r * k = r * q + r + r * d /\ r * d \in Nat /\ r * q \in Int
    BY <1>2, <2>1
  <2> QED
    BY <1>2, <1>3, <2>2
<1>6. rest = 0
  <2>1. q = k
    BY <1>2, <1>4, <1>5
  <2>2. r * k \in Nat
    OBVIOUS
  <2> QED
    BY <1>2, <1>3, <2>1, <2>2
<1> QED
  BY <1>6 DEF rest, n

\* The counts and the remainder are within their bounds also when the count wraps.
ClockTyped ==
  /\ count \in 0 .. Rollover - 1 /\ remUsTicks \in 0 .. 24
  /\ pending \in BOOLEAN /\ updateRolloverflag \in BOOLEAN
  /\ accumulatedOverflowCount \in 0 .. Width - 1 /\ prevoverflowCount \in 0 .. Width - 1
  /\ prevAccumulatedOverflowCount \in 0 .. Width - 1 /\ previousMacTimerTick \in 0 .. Width - 1

\* Every step of the clock keeps them so.
LEMMA ClockTypedStep ==
  ASSUME PolledInTime, ClockTyped, [ClockNext]_clockVars
  PROVE  ClockTyped'
<1>n. Rollover \in Nat \ {0} /\ Width \in Nat \ {0}
  BY DEF PolledInTime
<1>0. \A x \in 0 .. Width - 1 : x \in Nat
  BY <1>n
<1>1. \A x, y \in Nat : Plus(x, y) \in 0 .. Width - 1
  BY <1>n DEF Plus
<1>2. CASE ClockTick
  <2>1. count' \in 0 .. Rollover - 1
    BY <1>n, <1>2 DEF ClockTick, ClockTyped
  <2>2. pending' \in BOOLEAN
    BY <1>2 DEF ClockTick, ClockTyped
  <2> QED
    BY <1>2, <2>1, <2>2 DEF ClockTick, ClockTyped
<1>3. CASE macMcuAccumulatedOverFlow
  <2>1. Plus(accumulatedOverflowCount, Rollover) \in 0 .. Width - 1
    BY <1>n, <1>0, <1>1 DEF ClockTyped
  <2>2. accumulatedOverflowCount' \in 0 .. Width - 1
    BY <1>3, <2>1 DEF macMcuAccumulatedOverFlow, ClockTyped
  <2>3. pending' \in BOOLEAN /\ updateRolloverflag' \in BOOLEAN
    BY <1>3 DEF macMcuAccumulatedOverFlow
  <2> QED
    BY <1>3, <2>2, <2>3 DEF macMcuAccumulatedOverFlow, ClockTyped
<1>4. CASE osalTimeUpdate
  <2>1. Sum \in 0 .. Width - 1
    BY <1>n, <1>1 DEF Sum, ClockTyped
  <2>2. macMcuPrecisionCount \in 0 .. Width - 1
    <3>1. Sum \in Nat
      BY <1>0, <2>1
    <3>2. Plus(Sum, Rollover) \in 0 .. Width - 1
      BY <1>n, <1>1, <3>1
    <3> QED
      BY <2>1, <3>2 DEF macMcuPrecisionCount
  <2>3. macMcuPrecisionCount + Width - previousMacTimerTick \in Nat
    BY <1>n, <2>2 DEF ClockTyped
  <2>4. Ticks \in Nat
    BY <1>n, <2>3 DEF Ticks
  <2>5. Left(Converted(Ticks)) \in 0 .. 24
    BY <2>4 DEF Left, Converted, ClockTyped
  <2>6. accumulatedOverflowCount' \in 0 .. Width - 1 /\ updateRolloverflag' \in BOOLEAN
    <3>1. Plus(accumulatedOverflowCount, Rollover) \in 0 .. Width - 1
      BY <1>n, <1>0, <1>1 DEF ClockTyped
    <3>2. accumulatedOverflowCount' \in 0 .. Width - 1
      BY <1>4, <3>1 DEF osalTimeUpdate, Look, ClockTyped
    <3>3. updateRolloverflag' = (updateRolloverflag \/ Missed)
      BY <1>4 DEF osalTimeUpdate, Look
    <3>4. updateRolloverflag' \in BOOLEAN
      BY <3>3
    <3> QED
      BY <3>2, <3>4
  <2> QED
    BY <1>4, <2>2, <2>5, <2>6 DEF osalTimeUpdate, Look, ClockTyped
<1>5. CASE UNCHANGED clockVars
  BY <1>5 DEF clockVars, counter, ClockTyped
<1> QED
  BY <1>2, <1>3, <1>4, <1>5 DEF ClockNext

\* The MAC timer has started again a number of times.
Turned == \E k \in Nat : Base = Rollover * k

\* The counter's parts stay within their widths, and the software's part is a number
\* of periods until the count wraps (macMcuPrecisionCount, osalTimeUpdate).
THEOREM ClockIsTyped ==
  ASSUME PolledInTime
  PROVE  ClockSpec => []ClockTypeOK
<1> DEFINE Inv == now \in Nat /\ ClockTyped /\ (now < Width => Running /\ Turned)
<1>n. /\ Rollover \in Nat \ {0} /\ Width \in Nat \ {0} /\ MaxClockLag \in Nat
      /\ MaxClockLag < Rollover
  BY DEF PolledInTime
<1>1. ClockInit => Inv
  <2> SUFFICES ASSUME ClockInit PROVE Inv
    OBVIOUS
  <2>0. 0 \in 0 .. Rollover - 1 /\ 0 \in 0 .. Width - 1
    BY <1>n
  <2>1. now = 0 /\ Base = 0 /\ ClockTyped
    <3>1. /\ count = 0 /\ remUsTicks = 0 /\ accumulatedOverflowCount = 0 /\ prevoverflowCount = 0
          /\ prevAccumulatedOverflowCount = 0 /\ previousMacTimerTick = 0 /\ now = 0
      BY DEF ClockInit
    <3>2. pending \in BOOLEAN /\ updateRolloverflag \in BOOLEAN
      BY DEF ClockInit
    <3> QED
      BY <2>0, <3>1, <3>2 DEF Base, ClockTyped
  <2>2. Running
    BY <1>n DEF ClockInit, Running, Base
  <2>3. Base = Rollover * 0
    BY <1>n, <2>1
  <2>4. Turned
    BY <2>3 DEF Turned
  <2> QED
    BY <2>1, <2>2, <2>4
<1>2. Inv /\ [ClockNext]_clockVars => Inv'
  <2> SUFFICES ASSUME Inv, [ClockNext]_clockVars PROVE Inv'
    OBVIOUS
  <2>1. now' \in Nat /\ now <= now'
    BY DEF ClockNext, clockVars, ClockTick, macMcuAccumulatedOverFlow, osalTimeUpdate
  <2>2. ClockTyped'
    BY ClockTypedStep
  <2>3. ASSUME now' < Width PROVE Running' /\ Turned'
    <3>1. now < Width /\ Running /\ Turned
      BY <1>n, <2>1, <2>3
    <3>2. Running'
      BY <3>1, TickStep, OverflowStep, PollStep DEF ClockNext, clockVars, counter, Running, Base
    <3>3. Turned'
      <4>1. CASE ClockTick
        <5>1. now' = now + 1 /\ count' = (count + 1) % Rollover /\ count \in 0 .. Rollover - 1
          BY <3>1, <4>1 DEF ClockTick, Running
        <5>2. PICK k \in Nat : Base = Rollover * k
          BY <3>1 DEF Turned
        <5>3. CASE count + 1 < Rollover
          <6>1. count' = count + 1
            BY <1>n, <5>1, <5>3, ModWithin
          <6>2. Base' = Base
            BY <3>1, <5>1, <6>1 DEF Base, Running
          <6> QED
            BY <5>2, <6>2 DEF Turned
        <5>4. CASE count + 1 = Rollover
          <6>1. count' = 0
            BY <1>n, <5>1, <5>4, ModWithin
          <6>2. Base' = Base + Rollover
            BY <1>n, <3>1, <5>1, <5>4, <6>1 DEF Base, Running
          <6>3. Rollover * (k + 1) = Rollover * k + Rollover
            BY <1>n
          <6>4. Base' = Rollover * (k + 1)
            BY <5>2, <6>2, <6>3
          <6> QED
            BY <6>4 DEF Turned
        <5> QED
          BY <1>n, <5>1, <5>3, <5>4
      <4>2. CASE macMcuAccumulatedOverFlow \/ osalTimeUpdate \/ UNCHANGED clockVars
        <5>1. Base' = Base
          BY <4>2 DEF Base, macMcuAccumulatedOverFlow, osalTimeUpdate, Look, clockVars, counter
        <5> QED
          BY <3>1, <5>1 DEF Turned
      <4> QED
        BY <4>1, <4>2 DEF ClockNext
    <3> QED
      BY <3>2, <3>3
  <2> QED
    BY <2>1, <2>2, <2>3
<1>3. Inv => ClockTypeOK
  <2> SUFFICES ASSUME Inv PROVE ClockTypeOK
    OBVIOUS
  <2>1. ASSUME now < Width PROVE accumulatedOverflowCount % Rollover = 0
    <3>1. Running /\ Turned
      BY <2>1
    <3>2. PICK k \in Nat : Base = Rollover * k
      BY <3>1 DEF Turned
    <3>3. CASE accumulatedOverflowCount = Base
      BY <1>n, <3>2, <3>3, MultipleOf
    <3>4. CASE accumulatedOverflowCount # Base
      <4>1. accumulatedOverflowCount = Base - Rollover /\ accumulatedOverflowCount >= 0
        BY <3>1, <3>4 DEF Running
      <4>2. k # 0
        <5>1. k = 0 => Rollover * k = 0
          BY <1>n
        <5> QED
          BY <1>n, <3>2, <4>1, <5>1
      <4>3. k - 1 \in Nat /\ Rollover * (k - 1) = Rollover * k - Rollover
        BY <1>n, <4>2
      <4>4. accumulatedOverflowCount = Rollover * (k - 1)
        BY <3>2, <4>1, <4>3
      <4> QED
        BY <1>n, <4>3, <4>4, MultipleOf
    <3> QED
      BY <3>3, <3>4
  <2>2. now < Width \/ now >= Width
    BY <1>n
  <2> QED
    BY <2>1, <2>2 DEF ClockTyped, ClockTypeOK
<1> QED
  BY <1>1, <1>2, <1>3, PTL DEF ClockSpec

-----------------------------------------------------------------------------
(* Numbers *)

\* A set of numbers has a least one.
LEMMA LeastOf ==
  ASSUME NEW S \in SUBSET Nat, S # {}
  PROVE  \E x \in S : \A y \in S : x <= y
<1>1. PICK x \in S : \A y \in S : ~(<<y, x>> \in OpToRel(<, Nat))
  BY NatLessThanWellFounded, WFMin, Zenon
<1>2. \A y \in S : ~(y < x)
  BY <1>1 DEF OpToRel
<1> QED
  BY <1>2

\* A set that holds 0, and n where it holds n - 1, holds every number up to m.
LEMMA CountedUp ==
  ASSUME NEW m \in Nat, NEW S, 0 \in S, \A n \in 1 .. m : n - 1 \in S => n \in S
  PROVE  \A n \in 0 .. m : n \in S
<1> DEFINE T == {n \in 0 .. m : n \notin S}
<1> SUFFICES ASSUME T # {} PROVE FALSE
  OBVIOUS
<1>1. PICK n \in T : \A k \in T : n <= k
  <2>1. T \in SUBSET Nat
    OBVIOUS
  <2> HIDE DEF T
  <2> QED
    BY <2>1, LeastOf
<1>2. n \in 1 .. m /\ n - 1 \in 0 .. m /\ ~(n <= n - 1)
  BY <1>1
<1>3. n - 1 \in S
  BY <1>1, <1>2
<1> QED
  BY <1>1, <1>2, <1>3

-----------------------------------------------------------------------------
(* The calendar *)

\* A year of the code is as long as from New Year's Day to the next.
LEMMA YearsFollow ==
  ASSUME NEW y \in BEGYEAR .. LastYear - 1
  PROVE  NewYear(y + 1) = NewYear(y) + YearLength(y)
<1>1. y \in 2000 .. 2136
  BY DEF BEGYEAR, LastYear
<1>2. y % 400 = 0 <=> y = 2000
  BY <1>1
<1>3. y % 100 = 0 <=> y \in {2000, 2100}
  BY <1>1
<1>4. (y + 1 - 1997) \div 4 = (y - 1997) \div 4 + (IF y % 4 = 0 THEN 1 ELSE 0)
  BY <1>1
<1> QED
  BY <1>1, <1>2, <1>3, <1>4 DEF NewYear, YearLength, IsLeapYear, BEGYEAR

\* The sum of the years before a year, taken one by one, is the number of days
\* to its beginning.
LEMMA YearsBegin == \A y \in BEGYEAR .. LastYear : DaysBeforeYear[y] = NewYear(y)
<1> DEFINE Sums(g) == g = [y \in BEGYEAR .. LastYear |->
                             IF y = BEGYEAR THEN 0 ELSE g[y - 1] + YearLength(y - 1)]
           f == [y \in BEGYEAR .. LastYear |-> NewYear(y)]
           S == {n \in Nat : DaysBeforeYear[BEGYEAR + n] = NewYear(BEGYEAR + n)}
<1>1. NewYear(BEGYEAR) = 0
  BY DEF NewYear, BEGYEAR
<1>2. \A y \in BEGYEAR .. LastYear : y # BEGYEAR =>
        y - 1 \in BEGYEAR .. LastYear - 1 /\ y - 1 \in BEGYEAR .. LastYear
        /\ NewYear(y) = NewYear(y - 1) + YearLength(y - 1)
  <2> SUFFICES ASSUME NEW y \in BEGYEAR .. LastYear, y # BEGYEAR
               PROVE  y - 1 \in BEGYEAR .. LastYear - 1 /\ y - 1 \in BEGYEAR .. LastYear
                      /\ NewYear(y) = NewYear(y - 1) + YearLength(y - 1)
    OBVIOUS
  <2>1. y - 1 \in BEGYEAR .. LastYear - 1 /\ y - 1 \in BEGYEAR .. LastYear /\ (y - 1) + 1 = y
    BY DEF BEGYEAR, LastYear
  <2> QED
    BY <2>1, YearsFollow
<1>3. Sums(f)
  BY <1>1, <1>2
<1>4. Sums(DaysBeforeYear)
  BY <1>3 DEF DaysBeforeYear
<1>5. BEGYEAR \in Nat /\ LastYear \in Nat /\ LastYear - BEGYEAR \in Nat
  BY DEF BEGYEAR, LastYear
<1>6. 0 \in S
  BY <1>1, <1>4, <1>5
<1>7. \A n \in 1 .. LastYear - BEGYEAR : n - 1 \in S => n \in S
  <2> SUFFICES ASSUME NEW n \in 1 .. LastYear - BEGYEAR, n - 1 \in S PROVE n \in S
    OBVIOUS
  <2>1. /\ BEGYEAR + n \in BEGYEAR .. LastYear /\ BEGYEAR + n # BEGYEAR
        /\ BEGYEAR + (n - 1) = (BEGYEAR + n) - 1 /\ n \in Nat
    BY <1>5
  <2>2. DaysBeforeYear[BEGYEAR + n] = DaysBeforeYear[(BEGYEAR + n) - 1] + YearLength((BEGYEAR + n) - 1)
    BY <1>4, <2>1
  <2> QED
    BY <1>2, <2>1, <2>2
<1> HIDE DEF S
<1>8. \A n \in 0 .. LastYear - BEGYEAR : n \in S
  BY <1>5, <1>6, <1>7, CountedUp
<1> SUFFICES ASSUME NEW y \in BEGYEAR .. LastYear PROVE DaysBeforeYear[y] = NewYear(y)
  OBVIOUS
<1>9. y - BEGYEAR \in 0 .. LastYear - BEGYEAR /\ BEGYEAR + (y - BEGYEAR) = y
  BY <1>5
<1> QED
  BY <1>8, <1>9 DEF S

\* The days before the months of a year.
Begun(leap, m) ==
  CASE m = 0 -> 0 [] m = 1 -> 31
    [] OTHER ->
       (IF leap THEN 1 ELSE 0) +
       (CASE m = 2 -> 59 [] m = 3 -> 90 [] m = 4 -> 120 [] m = 5 -> 151 [] m = 6 -> 181
          [] m = 7 -> 212 [] m = 8 -> 243 [] m = 9 -> 273 [] m = 10 -> 304 [] m = 11 -> 334
          [] OTHER -> 365)

\* Each month of the code is as long as from its first day to the next month's.
LEMMA MonthsFollow ==
  ASSUME NEW leap \in BOOLEAN, NEW m \in 1 .. 12
  PROVE  Begun(leap, m) = Begun(leap, m - 1) + monthLength(leap, m - 1)
<1>1. \/ m = 1 \/ m = 2 \/ m = 3 \/ m = 4 \/ m = 5 \/ m = 6 \/ m = 7 \/ m = 8 \/ m = 9 \/ m = 10
      \/ m = 11 \/ m = 12
  OBVIOUS
<1> QED
  BY <1>1 DEF Begun, monthLength

\* The sum of the months, taken one by one, is the number of days before a month.
LEMMA MonthsBegin ==
  ASSUME NEW leap \in BOOLEAN
  PROVE  \A m \in 0 .. 12 : DaysBeforeMonth(leap)[m] = Begun(leap, m)
<1> DEFINE Sums(g) == g = [m \in 0 .. 12 |-> IF m = 0 THEN 0 ELSE g[m - 1] + monthLength(leap, m - 1)]
           f == [m \in 0 .. 12 |-> Begun(leap, m)]
           b == DaysBeforeMonth(leap)
           S == {n \in Nat : b[n] = Begun(leap, n)}
<1>1. Begun(leap, 0) = 0
  BY DEF Begun
<1>2. Sums(f)
  <2>1. \A m \in 0 .. 12 : m # 0 => m \in 1 .. 12 /\ m - 1 \in 0 .. 12
    OBVIOUS
  <2> QED
    BY <1>1, <2>1, MonthsFollow
<1>3. Sums(b)
  BY <1>2 DEF DaysBeforeMonth
<1> HIDE DEF b
<1>4. 0 \in S
  BY <1>1, <1>3
<1>5. \A n \in 1 .. 12 : n - 1 \in S => n \in S
  <2> SUFFICES ASSUME NEW n \in 1 .. 12, n - 1 \in S PROVE n \in S
    OBVIOUS
  <2>1. n \in 0 .. 12 /\ n # 0 /\ n \in Nat
    OBVIOUS
  <2>2. b[n] = b[n - 1] + monthLength(leap, n - 1)
    BY <1>3, <2>1
  <2> QED
    BY <2>1, <2>2, MonthsFollow
<1> HIDE DEF S
<1>6. \A n \in 0 .. 12 : n \in S
  BY <1>4, <1>5, CountedUp
<1> QED
  BY <1>6 DEF S, b

\* The code's months are as long as those on the wall.
LEMMA LengthOfMonth ==
  ASSUME NEW y \in BEGYEAR .. LastYear - 1, NEW m \in 0 .. 11
  PROVE  Length(y, m) = monthLength(IsLeapYear(y), m)
<1>1. y \in 2000 .. 2136
  BY DEF BEGYEAR, LastYear
<1>2. y % 400 = 0 <=> y = 2000
  BY <1>1
<1>3. y % 100 = 0 <=> y \in {2000, 2100}
  BY <1>1
<1>4. y % 4 = 0 <=> y \in {4 * k : k \in 500 .. 534}
  <2>1. ASSUME y % 4 = 0 PROVE y \in {4 * k : k \in 500 .. 534}
    <3>1. y = 4 * (y \div 4) /\ y \div 4 \in 500 .. 534
      BY <1>1, <2>1
    <3> QED
      BY <3>1
  <2>2. ASSUME NEW k \in 500 .. 534, y = 4 * k PROVE y % 4 = 0
    BY <2>2
  <2> QED
    BY <2>1, <2>2
<1>5. IsLeapYear(y) <=> y \in {4 * k : k \in 500 .. 534} \ {2100}
  BY <1>1, <1>2, <1>3, <1>4 DEF IsLeapYear
<1>6. \/ m = 0 \/ m = 1 \/ m = 2 \/ m = 3 \/ m = 4 \/ m = 5 \/ m = 6 \/ m = 7 \/ m = 8 \/ m = 9
      \/ m = 10 \/ m = 11
  OBVIOUS
<1> QED
  BY <1>5, <1>6 DEF Length, monthLength

\* The days before a month of a year on the wall.
LEMMA MonthOfYear ==
  ASSUME NEW y \in BEGYEAR .. LastYear - 1
  PROVE  /\ \A m \in 0 .. 12 : BeforeMonth(y, m) = Begun(IsLeapYear(y), m)
         /\ \A m \in 0 .. 11 : BeforeMonth(y, m + 1) = BeforeMonth(y, m) + Length(y, m)
         /\ BeforeMonth(y, 0) = 0 /\ BeforeMonth(y, 12) = YearLength(y)
<1>0. IsLeapYear(y) \in BOOLEAN
  BY DEF IsLeapYear
<1>1. \A m \in 0 .. 12 : BeforeMonth(y, m) = Begun(IsLeapYear(y), m)
  <2>1. CASE IsLeapYear(y) = TRUE
    BY <2>1, MonthsBegin DEF BeforeMonth, InLeapYear
  <2>2. CASE IsLeapYear(y) = FALSE
    <3>1. \A m \in 0 .. 12 : InYear[m] = Begun(FALSE, m)
      BY MonthsBegin DEF InYear
    <3> QED
      BY <2>2, <3>1 DEF BeforeMonth
  <2> QED BY <1>0, <2>1, <2>2
<1>2. \A m \in 0 .. 11 : BeforeMonth(y, m + 1) = BeforeMonth(y, m) + Length(y, m)
  <2> SUFFICES ASSUME NEW m \in 0 .. 11
               PROVE  BeforeMonth(y, m + 1) = BeforeMonth(y, m) + Length(y, m)
    OBVIOUS
  <2>1. m \in 0 .. 12 /\ m + 1 \in 1 .. 12 /\ m + 1 \in 0 .. 12 /\ (m + 1) - 1 = m
    OBVIOUS
  <2> QED
    BY <1>0, <1>1, <2>1, MonthsFollow, LengthOfMonth
<1>3. BeforeMonth(y, 0) = 0 /\ BeforeMonth(y, 12) = YearLength(y)
  BY <1>0, <1>1 DEF Begun, YearLength
<1> QED
  BY <1>1, <1>2, <1>3

\* The code finds the year and the month on the wall.
CalendarInv ==
  /\ year \in BEGYEAR .. LastYear - 1 /\ month \in 0 .. 11 /\ day \in 0 .. Length(year, month) - 1
  /\ days = NewYear(year) + BeforeMonth(year, month) + day
  /\ span \in 0 .. Span /\ days + (Span - span) < MaxDays

\* Lengths are numbers.
LEMMA LengthIsNumber ==
  ASSUME NEW y, NEW m
  PROVE  Length(y, m) \in 28 .. 31 /\ YearLength(y) \in {365, 366}
BY DEF Length, YearLength

\* A later year begins when an earlier one is over.
LEMMA YearsInOrder ==
  ASSUME NEW y \in BEGYEAR .. LastYear, NEW z \in BEGYEAR .. LastYear, y < z
  PROVE  NewYear(y + 1) <= NewYear(z)
BY DEF NewYear, BEGYEAR, LastYear

\* A later month begins when an earlier one is over.
LEMMA MonthsInOrder ==
  ASSUME NEW leap \in BOOLEAN, NEW m \in 0 .. 11, NEW n \in 0 .. 11, m < n
  PROVE  Begun(leap, m + 1) <= Begun(leap, n)
<1>1. \/ m = 0 \/ m = 1 \/ m = 2 \/ m = 3 \/ m = 4 \/ m = 5 \/ m = 6 \/ m = 7 \/ m = 8 \/ m = 9
      \/ m = 10
  OBVIOUS
<1> QED
  BY <1>1 DEF Begun

\* Each day, the calendar on the wall and the count of days agree.
LEMMA CalendarInvariant == CalendarSpec => []CalendarInv
<1>1. CalendarInit => CalendarInv
  <2> SUFFICES ASSUME CalendarInit PROVE CalendarInv
    OBVIOUS
  <2>1. PICK y \in BEGYEAR .. LastYear - 1 :
          year = y /\ days = NewYear(y) /\ NewYear(y) + Span < MaxDays
    <3>1. PICK f \in FirstDays : year = f[1] /\ days = f[2]
      BY DEF CalendarInit
    <3>2. f \in {<<y, NewYear(y)>> : y \in BEGYEAR .. LastYear - 1} /\ f[2] + Span < MaxDays
      BY FirstDaysAssumption, SpanAssumption
    <3>3. PICK y \in BEGYEAR .. LastYear - 1 : f = <<y, NewYear(y)>>
      BY <3>2, Zenon
    <3>4. f[1] = y /\ f[2] = NewYear(y)
      BY <3>3
    <3> QED
      BY <3>1, <3>2, <3>4
  <2>2. month = 0 /\ day = 0 /\ span = 0 /\ Span \in Nat
    BY SpanAssumption DEF CalendarInit
  <2>3. NewYear(y) \in Int /\ BeforeMonth(year, month) = 0 /\ Length(year, month) \in 28 .. 31
    BY <2>1, <2>2, MonthOfYear, LengthIsNumber DEF NewYear, BEGYEAR, LastYear
  <2> QED
    BY <2>1, <2>2, <2>3 DEF CalendarInv, MaxDays
<1>2. CalendarInv /\ [NextDay]_calendarVars => CalendarInv'
  <2> SUFFICES ASSUME CalendarInv, NextDay PROVE CalendarInv'
    BY DEF CalendarInv, calendarVars, BeforeMonth
  <2>1. /\ year \in BEGYEAR .. LastYear - 1 /\ month \in 0 .. 11 /\ day \in 0 .. Length(year, month) - 1
        /\ Length(year, month) \in 28 .. 31 /\ NewYear(year) \in Int /\ Span \in Nat
        /\ BeforeMonth(year, month) \in Int
        /\ days = NewYear(year) + BeforeMonth(year, month) + day
    <3>1. BeforeMonth(year, month) \in Int
      BY MonthOfYear DEF CalendarInv, Begun
    <3>2. NewYear(year) \in Int
      BY DEF CalendarInv, NewYear, BEGYEAR, LastYear
    <3>3. Span \in Nat
      BY SpanAssumption
    <3> QED
      BY <3>1, <3>2, <3>3, LengthIsNumber DEF CalendarInv
  <2>2. span' \in 0 .. Span /\ days' = days + 1 /\ days' + (Span - span') < MaxDays
    BY <2>1 DEF CalendarInv, NextDay, MaxDays
  <2>3. CASE day + 1 # Length(year, month)
    <3>1. day' = day + 1 /\ month' = month /\ year' = year
      BY <2>3 DEF NextDay
    <3> QED
      BY <2>1, <2>2, <2>3, <3>1 DEF CalendarInv
  <2>4. CASE day + 1 = Length(year, month) /\ month # 11
    <3>1. day' = 0 /\ month' = month + 1 /\ year' = year /\ month + 1 \in 0 .. 11
      BY <2>1, <2>4 DEF NextDay
    <3>2. BeforeMonth(year, month + 1) = BeforeMonth(year, month) + Length(year, month)
      BY <2>1, MonthOfYear
    <3>3. Length(year', month') \in 28 .. 31
      BY LengthIsNumber
    <3> QED
      BY <2>1, <2>2, <2>4, <3>1, <3>2, <3>3 DEF CalendarInv
  <2>5. CASE day + 1 = Length(year, month) /\ month = 11
    <3>1. day' = 0 /\ month' = 0 /\ year' = year + 1
      BY <2>5 DEF NextDay
    <3>2. BeforeMonth(year, 12) = BeforeMonth(year, 11) + Length(year, 11)
          /\ BeforeMonth(year, 12) = YearLength(year)
      <4>1. 11 \in 0 .. 11 /\ 11 + 1 = 12
        OBVIOUS
      <4> QED
        BY <2>1, <4>1, MonthOfYear
    <3>3. NewYear(year + 1) = NewYear(year) + YearLength(year) /\ YearLength(year) \in Int
      BY <2>1, YearsFollow, LengthIsNumber
    <3>4. days' = NewYear(year + 1)
      BY <2>1, <2>2, <2>5, <3>2, <3>3
    <3>5. year + 1 \in BEGYEAR .. LastYear - 1
      <4>1. NewYear(year + 1) < 49710
        BY <2>1, <2>2, <3>4 DEF CalendarInv, MaxDays
      <4> QED
        BY <2>1, <4>1 DEF NewYear, BEGYEAR, LastYear
    <3>6. BeforeMonth(year', month') = 0 /\ Length(year', month') \in 28 .. 31
      BY <3>1, <3>5, MonthOfYear, LengthIsNumber
    <3>7. NewYear(year + 1) \in Int
      BY <2>1, <3>3
    <3> QED
      BY <2>1, <2>2, <3>1, <3>4, <3>5, <3>6, <3>7 DEF CalendarInv
  <2> QED
    BY <2>1, <2>3, <2>4, <2>5
<1> QED
  BY <1>1, <1>2, PTL DEF CalendarSpec

\* On every day that 32 bits of seconds reach from 2000, and at every second of
\* it: osal_ConvertUTCTime tells the date on the wall, and osal_ConvertUTCSecs
\* takes it back.
THEOREM DatesAreTold == CalendarSpec => []TellsTheDate
<1>1. CalendarInv => TellsTheDate
  <2> SUFFICES ASSUME CalendarInv, NEW s \in Seconds
               PROVE  LET tm == osal_ConvertUTCTime(days, s) IN
                      /\ <<tm.year, tm.month, tm.day>> = <<year, month, day>>
                      /\ tm.hour < 24 /\ tm.minutes < 60 /\ tm.seconds < 60
                      /\ osal_ConvertUTCSecs(tm) = <<days, s>>
    BY DEF TellsTheDate
  <2> DEFINE InYearOf(y) == DaysBeforeYear[y] <= days /\ days < DaysBeforeYear[y + 1]
             y0 == CHOOSE y \in BEGYEAR .. LastYear - 1 : InYearOf(y)
             rest == days - DaysBeforeYear[year]
             InMonth(m) == BeforeMonth(year, m) <= rest /\ rest < BeforeMonth(year, m + 1)
             m0 == CHOOSE m \in 0 .. 11 : InMonth(m)
             tm == [year |-> year, month |-> month, day |-> day,
                    hour |-> s \div 3600, minutes |-> (s % 3600) \div 60, seconds |-> s % 60]
  <2>1. /\ year \in BEGYEAR .. LastYear - 1 /\ month \in 0 .. 11 /\ day \in 0 .. Length(year, month) - 1
        /\ days = NewYear(year) + BeforeMonth(year, month) + day
        /\ IsLeapYear(year) \in BOOLEAN
    BY DEF CalendarInv, IsLeapYear
  <2>2. \A y \in BEGYEAR .. LastYear - 1 :
          /\ DaysBeforeYear[y] = NewYear(y) /\ DaysBeforeYear[y + 1] = NewYear(y + 1)
          /\ NewYear(y) \in Int /\ NewYear(y + 1) = NewYear(y) + YearLength(y) /\ YearLength(y) \in Int
    <3> SUFFICES ASSUME NEW y \in BEGYEAR .. LastYear - 1
                 PROVE  /\ DaysBeforeYear[y] = NewYear(y) /\ DaysBeforeYear[y + 1] = NewYear(y + 1)
                        /\ NewYear(y) \in Int /\ NewYear(y + 1) = NewYear(y) + YearLength(y)
                        /\ YearLength(y) \in Int
      OBVIOUS
    <3>1. y \in BEGYEAR .. LastYear /\ y + 1 \in BEGYEAR .. LastYear
      BY DEF BEGYEAR, LastYear
    <3>2. NewYear(y) \in Int
      BY DEF NewYear, BEGYEAR, LastYear
    <3> QED
      BY <3>1, <3>2, YearsBegin, YearsFollow, LengthIsNumber
  <2>3. /\ \A m \in 0 .. 11 : /\ BeforeMonth(year, m) = Begun(IsLeapYear(year), m)
                             /\ BeforeMonth(year, m + 1) = Begun(IsLeapYear(year), m + 1)
                             /\ BeforeMonth(year, m + 1) = BeforeMonth(year, m) + Length(year, m)
                             /\ BeforeMonth(year, m) \in Int /\ Length(year, m) \in 28 .. 31
        /\ BeforeMonth(year, 12) = YearLength(year) /\ BeforeMonth(year, 0) = 0
    <3> SUFFICES ASSUME NEW m \in 0 .. 11
                 PROVE  /\ BeforeMonth(year, m) = Begun(IsLeapYear(year), m)
                        /\ BeforeMonth(year, m + 1) = Begun(IsLeapYear(year), m + 1)
                        /\ BeforeMonth(year, m + 1) = BeforeMonth(year, m) + Length(year, m)
                        /\ BeforeMonth(year, m) \in Int /\ Length(year, m) \in 28 .. 31
      BY <2>1, MonthOfYear
    <3>1. m \in 0 .. 12 /\ m + 1 \in 0 .. 12
      OBVIOUS
    <3>2. Begun(IsLeapYear(year), m) \in Int
      BY DEF Begun
    <3> QED
      BY <2>1, <3>1, <3>2, MonthOfYear, LengthIsNumber
  <2>4. rest = BeforeMonth(year, month) + day /\ rest \in Int
    BY <2>1, <2>2, <2>3
  <2>5. InMonth(month)
    BY <2>1, <2>3, <2>4
  <2>6. 0 <= rest /\ rest < YearLength(year)
    <3>1. 0 <= BeforeMonth(year, month)
      BY <2>1, <2>3 DEF Begun
    <3>2. month + 1 = 12 \/ (month + 1 \in 0 .. 11 /\ month < 11)
      BY <2>1
    <3>3. BeforeMonth(year, month + 1) <= BeforeMonth(year, 12)
      <4>1. CASE month + 1 = 12
        BY <2>2, <2>1, <2>3, <4>1
      <4>2. CASE month < 11
        <5>1. 11 \in 0 .. 11 /\ 11 + 1 = 12
          OBVIOUS
        <5>2. Begun(IsLeapYear(year), month + 1) <= Begun(IsLeapYear(year), 11)
          BY <2>1, <4>2, <5>1, MonthsInOrder
        <5> QED
          BY <2>1, <2>3, <5>1, <5>2, <4>2
      <4> QED BY <3>2, <4>1, <4>2
    <3> QED
      BY <2>1, <2>2, <2>3, <2>4, <3>1, <3>3
  <2>7. InYearOf(year)
    BY <2>1, <2>2, <2>6
  <2>8. y0 = year
    <3>1. y0 \in BEGYEAR .. LastYear - 1 /\ InYearOf(y0)
      BY <2>1, <2>7
    <3> HIDE DEF y0
    <3>2. NewYear(y0) <= days /\ days < NewYear(y0 + 1) /\ NewYear(y0 + 1) \in Int
      BY <2>2, <3>1
    <3>3. NewYear(year) <= days /\ days < NewYear(year + 1) /\ NewYear(year + 1) \in Int
      BY <2>1, <2>2, <2>7
    <3>4. y0 \in BEGYEAR .. LastYear /\ year \in BEGYEAR .. LastYear
      BY <2>1, <3>1 DEF BEGYEAR, LastYear
    <3>5. (y0 < year => NewYear(y0 + 1) <= NewYear(year)) /\ (year < y0 => NewYear(year + 1) <= NewYear(y0))
      BY <3>4, YearsInOrder
    <3>6. NewYear(year) \in Int /\ NewYear(y0) \in Int /\ days \in Int /\ y0 \in Int /\ year \in Int
      <4>1. y0 \in Int /\ year \in Int
        BY <2>1, <3>1 DEF BEGYEAR, LastYear
      <4>2. NewYear(year) \in Int /\ NewYear(y0) \in Int
        BY <2>1, <2>2, <3>1
      <4>3. days \in Int
        BY <2>1, <2>3, <4>2
      <4> QED
        BY <4>1, <4>2, <4>3
    <3> QED
      BY <3>2, <3>3, <3>5, <3>6
  <2>9. m0 = month
    <3>1. m0 \in 0 .. 11 /\ InMonth(m0)
      BY <2>1, <2>5
    <3> HIDE DEF m0
    <3>2. ~(m0 < month)
      <4>1. ASSUME m0 < month PROVE FALSE
        <5>1. Begun(IsLeapYear(year), m0 + 1) <= Begun(IsLeapYear(year), month)
          BY <2>1, <3>1, <4>1, MonthsInOrder
        <5> QED
          BY <2>1, <2>3, <2>4, <2>5, <3>1, <5>1
      <4> QED BY <4>1
    <3>3. ~(month < m0)
      <4>1. ASSUME month < m0 PROVE FALSE
        <5>1. Begun(IsLeapYear(year), month + 1) <= Begun(IsLeapYear(year), m0)
          BY <2>1, <3>1, <4>1, MonthsInOrder
        <5> QED
          BY <2>1, <2>3, <2>4, <2>5, <3>1, <5>1
      <4> QED BY <4>1
    <3> QED
      BY <2>1, <3>1, <3>2, <3>3
  <2>10. osal_ConvertUTCTime(days, s) = tm
    <3>1. rest - BeforeMonth(year, month) = day
      BY <2>1, <2>3, <2>4
    <3> QED
      BY <2>8, <2>9, <3>1 DEF osal_ConvertUTCTime
  <2>11. s \in Nat /\ s < 86400
    <3>1. s \in 0 .. DAY - 1
      BY SecondsAssumption, Zenon
    <3>2. s \in Nat /\ s < DAY
      BY <3>1, SMT DEF DAY
    <3> QED
      BY <3>2 DEF DAY
  <2>12. tm.hour < 24 /\ tm.minutes < 60 /\ tm.seconds < 60 /\ (tm.hour * 60 + tm.minutes) * 60 + tm.seconds = s
    BY <2>11
  <2>13. tm.day + BeforeMonth(tm.year, tm.month) + DaysBeforeYear[tm.year] = days
    BY <2>1, <2>2, <2>3
  <2> HIDE DEF tm
  <2>14. osal_ConvertUTCSecs(tm) = <<days, s>>
    BY <2>12, <2>13 DEF osal_ConvertUTCSecs
  <2> QED
    BY <2>10, <2>12, <2>14 DEF tm
<1> QED
  BY <1>1, CalendarInvariant, PTL

-----------------------------------------------------------------------------
(* Sums of the values of a function *)

\* One of a set, and what a sum over subsets of D of values of f is made of.
Some(s) == CHOOSE x \in s : TRUE
SumsOf(g, f, D) == g = [s \in SUBSET D |-> IF s = {} THEN 0 ELSE f[Some(s)] + g[s \ {Some(s)}]]

\* Subsets of a finite set: taking one element out takes one off the number.
LEMMA Smaller ==
  ASSUME NEW D, IsFiniteSet(D), NEW s \in SUBSET D
  PROVE  /\ Cardinality(s) \in 0 .. Cardinality(D) /\ Cardinality(D) \in Nat
         /\ Cardinality(s) = 0 <=> s = {}
         /\ \A x \in s : s \ {x} \in SUBSET D /\ Cardinality(s \ {x}) = Cardinality(s) - 1
<1>1. IsFiniteSet(s) /\ Cardinality(s) <= Cardinality(D) /\ Cardinality(D) \in Nat
  BY FS_Subset, FS_CardinalityType
<1>2. Cardinality(s) \in Nat /\ (Cardinality(s) = 0 <=> s = {})
  BY <1>1, FS_CardinalityType, FS_EmptySet
<1>3. \A x \in s : s \ {x} \in SUBSET D /\ Cardinality(s \ {x}) = Cardinality(s) - 1
  BY <1>1, FS_RemoveElement
<1> QED
  BY <1>1, <1>2, <1>3

\* There are such sums.
LEMMA SumsExist ==
  ASSUME NEW D, IsFiniteSet(D), NEW f, \A x \in D : f[x] \in Nat
  PROVE  \E g \in [SUBSET D -> Nat] : SumsOf(g, f, D)
<1> DEFINE Of(g, s) == IF s = {} THEN 0 ELSE f[Some(s)] + g[s \ {Some(s)}]
           Upto(g, n) == \A s \in SUBSET D : Cardinality(s) <= n => g[s] = Of(g, s)
           S == {n \in Nat : \E g \in [SUBSET D -> Nat] : Upto(g, n)}
<1>1. \A s \in SUBSET D : s # {} => Some(s) \in s /\ Some(s) \in D
  BY DEF Some
<1>2. 0 \in S
  <2> DEFINE g == [s \in SUBSET D |-> 0]
  <2>1. g \in [SUBSET D -> Nat] /\ Upto(g, 0)
    <3>1. \A s \in SUBSET D : Cardinality(s) <= 0 => s = {}
      BY Smaller
    <3> QED
      BY <3>1
  <2> HIDE DEF g
  <2> QED
    BY <2>1
<1>3. ASSUME NEW n \in 1 .. Cardinality(D), n - 1 \in S PROVE n \in S
  <2>1. PICK g \in [SUBSET D -> Nat] : Upto(g, n - 1)
    BY <1>3
  <2> DEFINE h == [s \in SUBSET D |-> IF Cardinality(s) <= n - 1 THEN g[s] ELSE Of(g, s)]
  <2>2. Cardinality(D) \in Nat /\ n \in Nat
    BY <1>3, Smaller
  <2>3. \A s \in SUBSET D : Of(g, s) \in Nat
    BY <1>1
  <2>4. h \in [SUBSET D -> Nat]
    BY <2>3
  <2>5. ASSUME NEW s \in SUBSET D, Cardinality(s) <= n PROVE h[s] = Of(h, s)
    <3>1. CASE s = {}
      BY <2>1, <3>1
    <3>2. CASE s # {}
      <4>1. /\ Some(s) \in s /\ s \ {Some(s)} \in SUBSET D /\ Cardinality(s) \in Nat
            /\ Cardinality(s \ {Some(s)}) = Cardinality(s) - 1
        BY <1>1, <3>2, Smaller
      <4>2. h[s \ {Some(s)}] = g[s \ {Some(s)}]
        BY <2>2, <2>5, <4>1
      <4>3. h[s] = Of(g, s)
        BY <2>1
      <4> QED
        BY <3>2, <4>2, <4>3
    <3> QED BY <3>1, <3>2
  <2> HIDE DEF h, Of
  <2> QED
    BY <2>2, <2>4, <2>5
<1>4. Cardinality(D) \in Nat
  BY FS_CardinalityType
<1>5. Cardinality(D) \in S
  <2> HIDE DEF S
  <2> QED
    BY <1>2, <1>3, <1>4, CountedUp
<1>6. PICK g \in [SUBSET D -> Nat] : Upto(g, Cardinality(D))
  BY <1>5
<1>7. \A s \in SUBSET D : g[s] = Of(g, s)
  <2>1. \A s \in SUBSET D : Cardinality(s) <= Cardinality(D)
    BY Smaller, <1>4
  <2> HIDE DEF Of
  <2> QED
    BY <1>6, <2>1
<1> QED
  BY <1>6, <1>7 DEF SumsOf

\* The order does not matter: any element may be the first.
LEMMA AnyFirst ==
  ASSUME NEW D, IsFiniteSet(D), NEW f, \A x \in D : f[x] \in Nat, NEW g, SumsOf(g, f, D)
  PROVE  \A s \in SUBSET D : /\ g[s] \in Nat /\ (s = {} => g[s] = 0)
                             /\ \A x \in s : g[s] = f[x] + g[s \ {x}]
<1> DEFINE Fine(s) == g[s] \in Nat /\ \A x \in s : g[s] = f[x] + g[s \ {x}]
           S == {n \in Nat : \A s \in SUBSET D : Cardinality(s) <= n => Fine(s)}
<1>0. Cardinality(D) \in Nat
  BY FS_CardinalityType
<1>1. \A s \in SUBSET D : g[s] = IF s = {} THEN 0 ELSE f[Some(s)] + g[s \ {Some(s)}]
  BY DEF SumsOf
<1>2. 0 \in S
  <2>1. \A s \in SUBSET D : Cardinality(s) <= 0 => s = {}
    BY Smaller
  <2> QED
    BY <1>1, <2>1
<1>3. ASSUME NEW n \in 1 .. Cardinality(D), n - 1 \in S PROVE n \in S
  <2>0. n \in Nat /\ n - 1 \in Nat
    BY <1>0
  <2> SUFFICES ASSUME NEW s \in SUBSET D, Cardinality(s) <= n, s # {} PROVE Fine(s)
    <3>1. g[{}] = 0
      BY <1>1
    <3>2. Fine({})
      BY <3>1
    <3> HIDE DEF Fine
    <3> QED
      BY <2>0, <3>2
  <2> DEFINE y == Some(s)
  <2>1. y \in s /\ g[s] = f[y] + g[s \ {y}]
    BY <1>1 DEF Some
  <2> HIDE DEF y
  <2>2. \A x \in s : s \ {x} \in SUBSET D /\ Cardinality(s \ {x}) <= n - 1
    BY <1>0, <2>0, Smaller
  <2>3. \A x \in s : Fine(s \ {x}) /\ f[x] \in Nat
    BY <1>3, <2>2
  <2>4. g[s] \in Nat
    BY <2>1, <2>3
  <2>5. ASSUME NEW x \in s, x # y PROVE g[s] = f[x] + g[s \ {x}]
    <3> DEFINE z == (s \ {y}) \ {x}
    <3>1. x \in s \ {y} /\ y \in s \ {x} /\ (s \ {x}) \ {y} = z
      BY <2>1, <2>5
    <3>2. g[s \ {y}] = f[x] + g[z]
      BY <2>1, <2>3, <3>1
    <3>3. g[s \ {x}] = f[y] + g[z]
      BY <2>3, <3>1
    <3>4. g[z] \in Nat
      <4>1. s \ {y} \in SUBSET D /\ Cardinality(s \ {y}) <= n - 1 /\ x \in s \ {y}
        BY <2>1, <2>2, <3>1
      <4> DEFINE t == s \ {y}
      <4>2. z \in SUBSET D /\ Cardinality(z) = Cardinality(t) - 1 /\ Cardinality(t) \in Nat
        <5>1. t \in SUBSET D /\ x \in t
          BY <4>1
        <5> HIDE DEF t
        <5>2. t \ {x} \in SUBSET D /\ Cardinality(t \ {x}) = Cardinality(t) - 1 /\ Cardinality(t) \in 0 .. Cardinality(D)
          BY <5>1, Smaller
        <5> QED
          BY <1>0, <5>2 DEF t
      <4>3. Cardinality(z) <= n - 1
        BY <2>0, <4>1, <4>2
      <4> QED
        BY <1>3, <4>2, <4>3
    <3> HIDE DEF z
    <3>5. f[x] \in Nat /\ f[y] \in Nat
      BY <2>1, <2>3
    <3> QED
      BY <2>1, <3>2, <3>3, <3>4, <3>5
  <2> QED
    BY <2>1, <2>4, <2>5
<1>4. Cardinality(D) \in S
  <2> HIDE DEF S
  <2> QED
    BY <1>0, <1>2, <1>3, CountedUp
<1>5. \A s \in SUBSET D : Fine(s)
  <2>1. \A s \in SUBSET D : Cardinality(s) <= Cardinality(D)
    BY Smaller, <1>0
  <2> HIDE DEF Fine
  <2> QED
    BY <1>4, <2>1
<1> QED
  BY <1>1, <1>5

\* The library's sum is one of these.
LEMMA SumIsSums ==
  ASSUME NEW f, NEW D, IsFiniteSet(D), \A x \in D : f[x] \in Nat
  PROVE  \E g \in [SUBSET D -> Nat] : SumsOf(g, f, D) /\ SumFunctionOnSet(f, D) = g[D]
<1> DEFINE iter == CHOOSE g : SumsOf(g, f, D)
<1>1. PICK h \in [SUBSET D -> Nat] : SumsOf(h, f, D)
  BY SumsExist
<1>2. SumsOf(iter, f, D)
  BY <1>1
<1>3. SumFunctionOnSet(f, D) = iter[D]
  BY DEF SumFunctionOnSet, FoldFunctionOnSet, MapThenFoldSet, SumsOf, Some
<1>4. iter \in [SUBSET D -> Nat]
  <2> HIDE DEF iter
  <2>1. \A s \in SUBSET D : iter[s] \in Nat
    BY <1>2, AnyFirst
  <2> QED
    BY <1>2, <2>1 DEF SumsOf
<1> QED
  BY <1>2, <1>3, <1>4

\* Sums over a set depend on the values of its elements only.
LEMMA SumsAgree ==
  ASSUME NEW D, IsFiniteSet(D), NEW E \in SUBSET D,
         NEW f, \A x \in D : f[x] \in Nat, NEW g, SumsOf(g, f, D),
         NEW h, \A x \in E : h[x] = f[x], NEW k, SumsOf(k, h, E)
  PROVE  k[E] = g[E]
<1> DEFINE S == {n \in Nat : \A s \in SUBSET E : Cardinality(s) <= n => k[s] = g[s]}
<1>0. IsFiniteSet(E) /\ Cardinality(E) \in Nat
  BY FS_Subset, FS_CardinalityType
<1>1. /\ \A s \in SUBSET D : g[s] = IF s = {} THEN 0 ELSE f[Some(s)] + g[s \ {Some(s)}]
      /\ \A s \in SUBSET E : k[s] = IF s = {} THEN 0 ELSE h[Some(s)] + k[s \ {Some(s)}]
  BY DEF SumsOf
<1>2. 0 \in S
  <2>1. \A s \in SUBSET E : Cardinality(s) <= 0 => s = {}
    BY <1>0, Smaller
  <2> QED
    BY <1>1, <2>1
<1>3. ASSUME NEW n \in 1 .. Cardinality(E), n - 1 \in S PROVE n \in S
  <2>0. n \in Nat /\ n - 1 \in Nat
    BY <1>0
  <2> SUFFICES ASSUME NEW s \in SUBSET E, Cardinality(s) <= n PROVE k[s] = g[s]
    BY <2>0
  <2>1. CASE s = {}
    BY <1>1, <2>1
  <2>2. CASE s # {}
    <3> DEFINE y == Some(s)
    <3>1. y \in s /\ g[s] = f[y] + g[s \ {y}] /\ k[s] = h[y] + k[s \ {y}]
      BY <1>1, <2>2 DEF Some
    <3> HIDE DEF y
    <3>2. s \ {y} \in SUBSET E /\ Cardinality(s \ {y}) <= n - 1
      BY <1>0, <2>0, <3>1, Smaller
    <3> QED
      BY <1>3, <3>1, <3>2
  <2> QED
    BY <2>1, <2>2
<1>4. Cardinality(E) \in S
  <2> HIDE DEF S
  <2> QED
    BY <1>0, <1>2, <1>3, CountedUp
<1> QED
  BY <1>0, <1>4

\* A sum with one element more.
LEMMA SumAdded ==
  ASSUME NEW E, IsFiniteSet(E), NEW x, x \notin E,
         NEW f, \A y \in E \cup {x} : f[y] \in Nat, NEW h, \A y \in E : h[y] = f[y]
  PROVE  /\ SumFunctionOnSet(f, E \cup {x}) = f[x] + SumFunctionOnSet(h, E)
         /\ SumFunctionOnSet(h, E) \in Nat
<1> DEFINE D == E \cup {x}
<1>1. IsFiniteSet(D) /\ E \in SUBSET D /\ D \ {x} = E /\ x \in D /\ D \in SUBSET D
  BY FS_AddElement
<1>2. PICK g \in [SUBSET D -> Nat] : SumsOf(g, f, D) /\ SumFunctionOnSet(f, D) = g[D]
  BY <1>1, SumIsSums
<1>3. PICK k \in [SUBSET E -> Nat] : SumsOf(k, h, E) /\ SumFunctionOnSet(h, E) = k[E]
  BY SumIsSums
<1> HIDE DEF D
<1>4. g[D] = f[x] + g[E]
  <2>1. \A y \in D : f[y] \in Nat
    BY DEF D
  <2>2. \A s \in SUBSET D : \A y \in s : g[s] = f[y] + g[s \ {y}]
    <3>1. SumsOf(g, f, D)
      BY <1>2
    <3>2. \A s \in SUBSET D : /\ g[s] \in Nat /\ (s = {} => g[s] = 0)
                              /\ \A y \in s : g[s] = f[y] + g[s \ {y}]
      BY ONLY <1>1, <2>1, <3>1, AnyFirst
    <3> QED
      BY <3>2
  <2>3. g[D] = f[x] + g[D \ {x}]
    BY <1>1, <2>2, Zenon
  <2> QED
    BY <1>1, <2>3
<1>5. k[E] = g[E]
  BY <1>1, <1>2, <1>3, SumsAgree DEF D
<1>6. k[E] \in Nat
  BY <1>3
<1> QED
  BY <1>2, <1>3, <1>4, <1>5, <1>6 DEF D

\* The sum over nothing.
LEMMA SumEmpty == \A f : SumFunctionOnSet(f, {}) = 0
<1> SUFFICES ASSUME NEW f PROVE SumFunctionOnSet(f, {}) = 0
  OBVIOUS
<1>1. IsFiniteSet({})
  BY FS_EmptySet
<1>2. PICK g \in [SUBSET {} -> Nat] : SumsOf(g, f, {}) /\ SumFunctionOnSet(f, {}) = g[{}]
  BY <1>1, SumIsSums
<1> QED
  BY <1>2 DEF SumsOf

-----------------------------------------------------------------------------
(* Chains of blocks *)

\* The heap's places.
LEMMA Places ==
  /\ HDRSZ \in Nat /\ Guard \in Nat /\ BIGBLK \in Nat /\ Last \in Nat /\ MAXMEMHEAP \in Nat
  /\ 0 < HDRSZ /\ HDRSZ < Guard /\ BIGBLK = Guard + HDRSZ /\ BIGBLK + HDRSZ < Last
  /\ Last < MAXMEMHEAP /\ MIN_BLKSZ \in Nat /\ HDRSZ < MIN_BLKSZ /\ NULL = -1
  BY HeapAssumption DEF Guard, BIGBLK, Last, MIN_BLKSZ, NULL

\* Headers whose blocks lie behind one another from the first byte to the last
\* header, the one between bucket and wilderness among them.
Chain(l) ==
  /\ DOMAIN l \subseteq 0 .. Last
  /\ {0, Guard, BIGBLK, Last} \subseteq DOMAIN l
  /\ \A b \in DOMAIN l : l[b] \in Nat
  /\ \A b \in DOMAIN l \ {Last} :
       /\ HDRSZ <= l[b] /\ b + l[b] \in DOMAIN l
       /\ \A c \in DOMAIN l : c <= b \/ b + l[b] <= c
  /\ l[Guard] = HDRSZ

\* A block joined to the one before it.
LEMMA JoinedChain ==
  ASSUME NEW l, Chain(l), NEW prev \in DOMAIN l \ {Guard, Last}, NEW h \in DOMAIN l \ {Guard, Last},
         prev + l[prev] = h
  PROVE  /\ Chain(Joined(l, prev, h))
         /\ DOMAIN Joined(l, prev, h) = DOMAIN l \ {h}
         /\ \A b \in DOMAIN l \ {h} : Joined(l, prev, h)[b] = IF b = prev THEN l[prev] + l[h] ELSE l[b]
         /\ prev < h /\ h \notin {0, Guard, BIGBLK, Last}
<1> DEFINE j == Joined(l, prev, h)
<1>1. /\ DOMAIN j = DOMAIN l \ {h}
      /\ \A b \in DOMAIN l \ {h} : j[b] = IF b = prev THEN l[prev] + l[h] ELSE l[b]
  BY DEF Joined
<1>2. /\ prev \in Nat /\ h \in Nat /\ l[prev] \in Nat /\ l[h] \in Nat
      /\ prev < h /\ h # 0 /\ HDRSZ <= l[h]
  BY Places DEF Chain
<1>3. h # BIGBLK
  <2> SUFFICES ASSUME h = BIGBLK PROVE FALSE
    OBVIOUS
  <2>1. Guard <= prev \/ prev + l[prev] <= Guard
    BY DEF Chain
  <2>2. prev <= Guard \/ Guard + l[Guard] <= prev
    BY Places DEF Chain
  <2> QED
    BY <1>2, <2>1, <2>2, Places DEF Chain
<1> HIDE DEF j
<1>4. ASSUME NEW b \in DOMAIN j \ {Last}
      PROVE  /\ HDRSZ <= j[b] /\ b + j[b] \in DOMAIN j
             /\ \A c \in DOMAIN j : c <= b \/ b + j[b] <= c
  <2>1. b \in DOMAIN l \ {h, Last} /\ b \in Nat /\ l[b] \in Nat /\ b + l[b] \in DOMAIN l
        /\ HDRSZ <= l[b] /\ \A c \in DOMAIN l : c <= b \/ b + l[b] <= c
    BY <1>1, <1>4 DEF Chain
  <2>2. \A c \in DOMAIN l : c \in Nat
    BY DEF Chain
  <2>3. CASE b = prev
    <3>1. j[b] = l[prev] + l[h] /\ b + j[b] = h + l[h]
      BY <1>1, <1>2, <2>1, <2>3
    <3>2. h + l[h] \in DOMAIN l /\ \A c \in DOMAIN l : c <= h \/ h + l[h] <= c
      BY DEF Chain
    <3>3. \A c \in DOMAIN j : c <= b \/ b + j[b] <= c
      BY <1>1, <1>2, <2>1, <2>2, <2>3, <3>1, <3>2
    <3> QED
      BY <1>1, <1>2, <2>1, <3>1, <3>2, <3>3, Places
  <2>4. CASE b # prev
    <3>1. j[b] = l[b]
      BY <1>1, <2>1, <2>4
    <3>2. b + l[b] # h
      <4>1. prev <= b \/ b + l[b] <= prev
        BY <2>1
      <4>2. b <= prev \/ prev + l[prev] <= b
        BY <2>1 DEF Chain
      <4> QED
        BY <1>2, <2>1, <2>4, <4>1, <4>2, Places
    <3> QED
      BY <1>1, <2>1, <3>1, <3>2
  <2> QED
    BY <2>3, <2>4
<1>5. \A b \in DOMAIN j : j[b] \in Nat
  BY <1>1, <1>2 DEF Chain
<1>6. {0, Guard, BIGBLK, Last} \subseteq DOMAIN j /\ DOMAIN j \subseteq 0 .. Last /\ j[Guard] = HDRSZ
  BY <1>1, <1>2, <1>3 DEF Chain
<1>7. Chain(j)
  BY <1>4, <1>5, <1>6 DEF Chain
<1> QED
  BY <1>1, <1>2, <1>3, <1>7 DEF j

\* A block split in two.
LEMMA SplitChain ==
  ASSUME NEW l, Chain(l), NEW h \in DOMAIN l \ {Guard, Last}, NEW size \in Nat, HDRSZ < size,
         Splits(l, h, size)
  PROVE  /\ Chain(Split(l, h, size))
         /\ h + size \notin DOMAIN l /\ h + size < h + l[h]
         /\ DOMAIN Split(l, h, size) = DOMAIN l \cup {h + size}
         /\ Split(l, h, size)[h] = size
         /\ Split(l, h, size)[h + size] = l[h] - size /\ HDRSZ < l[h] - size
         /\ \A b \in DOMAIN l \ {h} : Split(l, h, size)[b] = l[b]
<1> DEFINE j == Split(l, h, size)
           n == h + size
<1>1. /\ h \in Nat /\ l[h] \in Nat /\ h + l[h] \in DOMAIN l /\ h + l[h] <= Last
      /\ \A c \in DOMAIN l : c <= h \/ h + l[h] <= c
  BY DEF Chain
<1>2. HDRSZ < l[h] - size /\ n \in Nat /\ h < n /\ n < h + l[h]
  BY <1>1, Places DEF Splits
<1>3. n \notin DOMAIN l
  BY <1>1, <1>2
<1>4. /\ DOMAIN j = DOMAIN l \cup {n} /\ j[h] = size /\ j[n] = l[h] - size
      /\ \A b \in DOMAIN l \ {h} : j[b] = l[b]
  BY <1>2, <1>3 DEF Split
<1> HIDE DEF j
<1>5. ASSUME NEW b \in DOMAIN j \ {Last}
      PROVE  /\ HDRSZ <= j[b] /\ b + j[b] \in DOMAIN j
             /\ \A c \in DOMAIN j : c <= b \/ b + j[b] <= c
  <2>1. \A c \in DOMAIN l : c \in Nat
    BY DEF Chain
  <2>2. CASE b = h
    BY <1>1, <1>2, <1>4, <2>1, <2>2, Places
  <2>3. CASE b = n
    <3>1. b + j[b] = h + l[h]
      BY <1>1, <1>2, <1>4, <2>3
    <3>2. \A c \in DOMAIN j : c <= b \/ b + j[b] <= c
      BY <1>1, <1>2, <1>4, <2>1, <2>3, <3>1
    <3> QED
      BY <1>1, <1>2, <1>4, <2>3, <3>1, <3>2, Places
  <2>4. CASE b \in DOMAIN l \ {h}
    <3>1. /\ b \in Nat /\ l[b] \in Nat /\ b + l[b] \in DOMAIN l /\ HDRSZ <= l[b]
          /\ \A c \in DOMAIN l : c <= b \/ b + l[b] <= c
      BY <1>5, <2>4 DEF Chain
    <3>2. b <= h \/ h + l[h] <= b
      BY <1>1, <2>4
    <3>3. h <= b \/ b + l[b] <= h
      BY <3>1
    <3>4. n <= b \/ b + l[b] <= n
      BY <1>1, <1>2, <2>4, <3>1, <3>2, <3>3
    <3> QED
      BY <1>2, <1>4, <2>4, <3>1, <3>4
  <2> QED
    BY <1>4, <2>2, <2>3, <2>4
<1>6. \A b \in DOMAIN j : j[b] \in Nat
  <2>1. \A b \in DOMAIN l : l[b] \in Nat
    BY DEF Chain
  <2>2. l[h] - size \in Nat
    BY <1>1, <1>2, Places
  <2> QED
    BY <1>4, <2>1, <2>2
<1>7. {0, Guard, BIGBLK, Last} \subseteq DOMAIN j /\ DOMAIN j \subseteq 0 .. Last /\ j[Guard] = HDRSZ
  BY <1>1, <1>2, <1>4, Places DEF Chain
<1>8. Chain(j)
  BY <1>5, <1>6, <1>7 DEF Chain
<1> QED
  BY <1>2, <1>3, <1>4, <1>8 DEF j

\* A block lies in the bucket or in the wilderness.
LEMMA InRegion ==
  ASSUME NEW l, Chain(l), NEW b \in DOMAIN l \ {Guard, Last}
  PROVE  /\ b \in b .. b + l[b] - 1
         /\ b .. b + l[b] - 1 \subseteq Bucket \/ b .. b + l[b] - 1 \subseteq Wilderness
         /\ BIGBLK <= b => b .. b + l[b] - 1 \subseteq Wilderness
<1>1. /\ b \in Nat /\ l[b] \in Nat /\ HDRSZ <= l[b] /\ b + l[b] <= Last
      /\ Guard <= b \/ b + l[b] <= Guard
  BY DEF Chain
<1>2. b <= Guard \/ Guard + l[Guard] <= b
  BY Places DEF Chain
<1>3. l[Guard] = HDRSZ
  BY DEF Chain
<1>4. b + l[b] <= Guard \/ BIGBLK <= b
  BY <1>1, <1>2, <1>3, Places
<1> QED
  BY <1>1, <1>4, Places DEF Bucket, Wilderness, Guard

\* Two blocks have no byte in common.
LEMMA Apart ==
  ASSUME NEW l, Chain(l), NEW b \in DOMAIN l \ {Last}, NEW c \in DOMAIN l \ {Last}, b # c
  PROVE  (b .. b + l[b] - 1) \cap (c .. c + l[c] - 1) = {}
<1>1. /\ b \in Nat /\ l[b] \in Nat /\ c \in Nat /\ l[c] \in Nat
      /\ c <= b \/ b + l[b] <= c
      /\ b <= c \/ c + l[c] <= b
  BY DEF Chain
<1> QED
  BY <1>1

\* Every byte before the last header is some block's.
LEMMA InBlock ==
  ASSUME NEW l, Chain(l), NEW a \in 0 .. Last - 1
  PROVE  \E b \in DOMAIN l \ {Last} : b <= a /\ a < b + l[b]
<1> DEFINE S == {n \in Nat : a - n \in DOMAIN l}
<1>0. a \in Nat /\ a < Last /\ \A b \in DOMAIN l : b \in Nat /\ b <= Last
  BY Places DEF Chain
<1>1. a \in S
  BY <1>0 DEF Chain
<1>2. PICK n \in S : \A m \in S : n <= m
  <2>1. S \in SUBSET Nat /\ S # {}
    BY <1>1
  <2> HIDE DEF S
  <2> QED
    BY <2>1, LeastOf
<1> DEFINE b == a - n
<1>3. b \in DOMAIN l \ {Last} /\ b \in Nat /\ b <= a /\ n \in Nat
  BY <1>0, <1>2
<1>4. b + l[b] \in DOMAIN l /\ l[b] \in Nat /\ 0 < l[b]
  BY <1>3, Places DEF Chain
<1>5. a < b + l[b]
  <2> SUFFICES ASSUME b + l[b] <= a PROVE FALSE
    BY <1>0, <1>3, <1>4
  <2>1. n - l[b] \in Nat /\ a - (n - l[b]) = b + l[b] /\ ~(n <= n - l[b])
    BY <1>0, <1>3, <1>4
  <2>2. n - l[b] \in S
    BY <1>4, <2>1
  <2> QED
    BY <1>2, <2>1, <2>2
<1> QED
  BY <1>3, <1>5

-----------------------------------------------------------------------------
(* The search *)

\* What the search starts from.
AtFirst(first) == [len |-> len, prev |-> NULL, h |-> first, hdr |-> NULL]
Rounds(g, first, size) ==
  g = [k \in 0 .. MAXMEMHEAP |-> IF k = 0 THEN AtFirst(first) ELSE Round(g[k - 1], size)]

\* The search is a number of rounds.
LEMMA SearchIsRounds ==
  ASSUME NEW first, NEW size
  PROVE  \E g : Rounds(g, first, size) /\ Search(first, size) = g[MAXMEMHEAP]
<1> DEFINE Upto(g, n) == \A k \in 0 .. n :
                           g[k] = IF k = 0 THEN AtFirst(first) ELSE Round(g[k - 1], size)
           S == {n \in Nat : \E g : Upto(g, n)}
<1>1. 0 \in S
  <2> DEFINE g == [k \in {0} |-> AtFirst(first)]
  <2>1. Upto(g, 0)
    OBVIOUS
  <2> HIDE DEF g
  <2> QED
    BY <2>1
<1>2. ASSUME NEW n \in 1 .. MAXMEMHEAP, n - 1 \in S PROVE n \in S
  <2>0. n \in Nat /\ n - 1 \in Nat
    BY Places
  <2>1. PICK g : Upto(g, n - 1)
    BY <1>2
  <2> DEFINE f == [k \in 0 .. n |-> IF k <= n - 1 THEN g[k] ELSE Round(g[n - 1], size)]
  <2>2. \A k \in 0 .. n - 1 : f[k] = g[k]
    BY <2>0
  <2>3. f[n] = Round(g[n - 1], size)
    BY <2>0
  <2> HIDE DEF f
  <2>4. ASSUME NEW k \in 0 .. n
        PROVE  f[k] = IF k = 0 THEN AtFirst(first) ELSE Round(f[k - 1], size)
    <3>1. CASE k = n
      <4>1. n - 1 \in 0 .. n - 1 /\ k # 0
        BY <2>0, <3>1
      <4> QED
        BY <2>2, <2>3, <3>1, <4>1
    <3>2. CASE k # n
      <4>1. k \in 0 .. n - 1 /\ (k # 0 => k - 1 \in 0 .. n - 1)
        BY <2>0, <3>2
      <4> QED
        BY <2>1, <2>2, <4>1
    <3> QED
      BY <3>1, <3>2
  <2> QED
    BY <2>0, <2>4
<1>3. MAXMEMHEAP \in S
  <2> HIDE DEF S
  <2> QED
    BY <1>1, <1>2, Places, CountedUp
<1>4. PICK g : Upto(g, MAXMEMHEAP)
  BY <1>3
<1> DEFINE f == [k \in 0 .. MAXMEMHEAP |-> g[k]]
<1>5. \A k \in 0 .. MAXMEMHEAP : k # 0 => k - 1 \in 0 .. MAXMEMHEAP
  BY Places
<1>6. Rounds(f, first, size)
  BY <1>4, <1>5 DEF Rounds
<1> HIDE DEF f
<1> DEFINE walk == CHOOSE w : Rounds(w, first, size)
<1>7. Rounds(walk, first, size)
  BY <1>6
<1>8. Search(first, size) = walk[MAXMEMHEAP]
  BY DEF Search, Rounds, AtFirst
<1> QED
  BY <1>7, <1>8

\* The heap's state between calls.
HeapInv ==
  /\ Chain(len)
  /\ \A b \in DOMAIN len \ {Guard, Last} : HDRSZ < len[b]
  /\ Guard \in inUse /\ inUse \subseteq DOMAIN len \ {Last}
  /\ ff1 \in DOMAIN len /\ \A b \in DOMAIN len : b < ff1 => b \in inUse
  /\ kicked \in BOOLEAN /\ (kicked = FALSE => ff1 = 0)
  /\ ret \in {NULL} \cup Bucket \cup Wilderness

Idle(l) == DOMAIN l \ (inUse \cup {Last})

\* The search after k rounds: the chain is whole, no block in use is touched, and
\* the free blocks passed are too small and have no free block behind them.
Searched(w, first, size, k) ==
  /\ w = [len |-> w.len, prev |-> w.prev, h |-> w.h, hdr |-> w.hdr]
  /\ Chain(w.len) /\ DOMAIN w.len \subseteq DOMAIN len
  /\ \A b \in DOMAIN w.len \ {Guard, Last} : HDRSZ < w.len[b]
  /\ inUse \subseteq DOMAIN w.len /\ ff1 \in DOMAIN w.len /\ \A b \in inUse : w.len[b] = len[b]
  /\ w.h \in DOMAIN w.len /\ first <= w.h
  /\ w.prev = NULL \/ (w.prev \in Idle(w.len) /\ first <= w.prev /\ w.prev + w.len[w.prev] = w.h)
  /\ w.hdr = NULL \/ (w.hdr \in Idle(w.len) /\ first <= w.hdr /\ size <= w.len[w.hdr])
  /\ \A b \in Idle(w.len) : first <= b /\ b < (IF w.hdr = NULL THEN w.h ELSE w.hdr) => w.len[b] < size
  /\ w.hdr = NULL =>
       \A b \in Idle(w.len) : first <= b /\ b < w.h => b = w.prev \/ b + w.len[b] \in inUse
  /\ w.hdr # NULL \/ w.h = Last \/ first + k <= w.h

\* A state of the search, by its parts.
LEMMA SearchedWith ==
  ASSUME NEW first, NEW size, NEW k, NEW l, NEW prev, NEW h, NEW hdr,
         Chain(l) /\ DOMAIN l \subseteq DOMAIN len,
         \A b \in DOMAIN l \ {Guard, Last} : HDRSZ < l[b],
         inUse \subseteq DOMAIN l /\ ff1 \in DOMAIN l /\ \A b \in inUse : l[b] = len[b],
         h \in DOMAIN l /\ first <= h,
         prev = NULL \/ (prev \in Idle(l) /\ first <= prev /\ prev + l[prev] = h),
         hdr = NULL \/ (hdr \in Idle(l) /\ first <= hdr /\ size <= l[hdr]),
         \A b \in Idle(l) : first <= b /\ b < (IF hdr = NULL THEN h ELSE hdr) => l[b] < size,
         hdr = NULL => \A b \in Idle(l) : first <= b /\ b < h => b = prev \/ b + l[b] \in inUse,
         hdr # NULL \/ h = Last \/ first + k <= h
  PROVE  Searched([len |-> l, prev |-> prev, h |-> h, hdr |-> hdr], first, size, k)
<1> DEFINE r == [len |-> l, prev |-> prev, h |-> h, hdr |-> hdr]
<1>1. r.len = l /\ r.prev = prev /\ r.h = h /\ r.hdr = hdr
  OBVIOUS
<1>2. r = [len |-> r.len, prev |-> r.prev, h |-> r.h, hdr |-> r.hdr]
  OBVIOUS
<1> HIDE DEF r
<1>3. Searched(r, first, size, k)
  BY <1>1, <1>2 DEF Searched
<1> QED
  BY <1>3 DEF r

\* A round at a header in use.
LEMMA RoundInUse ==
  ASSUME HeapInv, NEW first \in {ff1, BIGBLK}, NEW size \in Nat, NEW k \in Nat, NEW w,
         Searched(w, first, size, k), w.hdr = NULL, w.h # Last, w.h \in inUse
  PROVE  Searched(Round(w, size), first, size, k + 1)
<1> DEFINE next == w.h + w.len[w.h]
           r == Round(w, size)
<1>1. r = [len |-> w.len, prev |-> NULL, h |-> next, hdr |-> NULL]
  <2>1. r = [w EXCEPT !.prev = NULL, !.h = next]
    BY DEF Round
  <2>2. w = [len |-> w.len, prev |-> w.prev, h |-> w.h, hdr |-> w.hdr]
    BY DEF Searched
  <2> HIDE DEF r, next
  <2> QED
    BY <2>1, <2>2
<1> HIDE DEF r
<1>3. /\ w.h \in Nat /\ w.len[w.h] \in Nat /\ 0 < w.len[w.h] /\ next \in DOMAIN w.len
      /\ \A c \in DOMAIN w.len : c \in Nat /\ (c <= w.h \/ next <= c)
  BY Places DEF Searched, Chain
<1>4. first \in Nat
  BY Places DEF HeapInv, Chain
<1>5. \A b \in Idle(w.len) : b < next => b < w.h
  BY <1>3 DEF Idle
<1>6. \A b \in Idle(w.len) : first <= b /\ b < next => b + w.len[b] \in inUse
  <2>1. w.prev # NULL => w.prev + w.len[w.prev] = w.h
    BY DEF Searched
  <2>2. \A b \in Idle(w.len) : b # NULL
    BY <1>3, Places DEF Idle
  <2>3. \A b \in Idle(w.len) : first <= b /\ b < w.h => b = w.prev \/ b + w.len[b] \in inUse
    BY DEF Searched
  <2> HIDE DEF next
  <2> QED
    BY <1>5, <2>1, <2>2, <2>3
<1>7. \A b \in Idle(w.len) : first <= b /\ b < next => w.len[b] < size
  BY <1>5 DEF Searched
<1>8. first <= next /\ first + (k + 1) <= next
  BY <1>3, <1>4 DEF Searched
<1> HIDE DEF next
<1> QED
  <2>1. /\ Chain(w.len) /\ DOMAIN w.len \subseteq DOMAIN len
        /\ \A b \in DOMAIN w.len \ {Guard, Last} : HDRSZ < w.len[b]
        /\ inUse \subseteq DOMAIN w.len /\ ff1 \in DOMAIN w.len /\ \A b \in inUse : w.len[b] = len[b]
    BY DEF Searched
  <2>2. Searched([len |-> w.len, prev |-> NULL, h |-> next, hdr |-> NULL], first, size, k + 1)
    BY <1>3, <1>6, <1>7, <1>8, <2>1, SearchedWith
  <2> QED
    BY <1>1, <2>2 DEF r

\* A round at a free block with no free block before it.
LEMMA RoundFree ==
  ASSUME HeapInv, NEW first \in {ff1, BIGBLK}, NEW size \in Nat, NEW k \in Nat, NEW w,
         Searched(w, first, size, k), w.hdr = NULL, w.h # Last, w.h \notin inUse, w.prev = NULL
  PROVE  Searched(Round(w, size), first, size, k + 1)
<1> DEFINE next == w.h + w.len[w.h]
           found == IF w.len[w.h] >= size THEN w.h ELSE NULL
           r == Round(w, size)
<1>1. r = [len |-> w.len, prev |-> w.h, h |-> next, hdr |-> found]
  BY DEF Round
<1> HIDE DEF r
<1>3. /\ w.h \in Nat /\ w.len[w.h] \in Nat /\ 0 < w.len[w.h] /\ next \in DOMAIN w.len
      /\ \A c \in DOMAIN w.len : c \in Nat /\ w.len[c] \in Nat /\ (c <= w.h \/ next <= c)
  BY Places DEF Searched, Chain
<1>4. first \in Nat
  BY Places DEF HeapInv, Chain
<1>5. \A b \in Idle(w.len) : b < next => b < w.h \/ b = w.h
  BY <1>3 DEF Idle
<1>6. w.h \in Idle(w.len) /\ first <= w.h /\ w.h + w.len[w.h] = next /\ w.h # NULL
  BY <1>3, Places DEF Searched, Idle
<1>7. \A b \in Idle(w.len) : first <= b /\ b < next => b = w.h \/ b + w.len[b] \in inUse
  <2>1. \A b \in Idle(w.len) : b # w.prev
    BY <1>3, Places DEF Idle
  <2> QED
    BY <1>5, <2>1 DEF Searched
<1>8. first <= next /\ first + (k + 1) <= next
  BY <1>3, <1>4 DEF Searched
<1>9. \A b \in Idle(w.len) : first <= b /\ b < (IF found = NULL THEN next ELSE found) => w.len[b] < size
  <2>1. \A b \in Idle(w.len) : b \in Nat /\ w.len[b] \in Nat /\ (first <= b /\ b < w.h => w.len[b] < size)
    BY <1>3 DEF Searched, Idle
  <2>2. CASE w.len[w.h] >= size
    BY <1>6, <2>1, <2>2
  <2>3. CASE ~(w.len[w.h] >= size)
    BY <1>3, <1>5, <2>1, <2>3
  <2> QED
    BY <2>2, <2>3
<1>10. found = NULL \/ (found = w.h /\ size <= w.len[w.h])
  BY <1>3
<1> HIDE DEF next, found
<1> QED
  <2>1. /\ Chain(w.len) /\ DOMAIN w.len \subseteq DOMAIN len
        /\ \A b \in DOMAIN w.len \ {Guard, Last} : HDRSZ < w.len[b]
        /\ inUse \subseteq DOMAIN w.len /\ ff1 \in DOMAIN w.len /\ \A b \in inUse : w.len[b] = len[b]
    BY DEF Searched
  <2>2. Searched([len |-> w.len, prev |-> w.h, h |-> next, hdr |-> found], first, size, k + 1)
    BY <1>3, <1>6, <1>7, <1>8, <1>9, <1>10, <2>1, SearchedWith
  <2> QED
    BY <1>1, <2>2 DEF r

\* A round at a free block with a free block before it, which takes it in.
LEMMA RoundJoins ==
  ASSUME HeapInv, NEW first \in {ff1, BIGBLK}, NEW size \in Nat, NEW k \in Nat, NEW w,
         Searched(w, first, size, k), w.hdr = NULL, w.h # Last, w.h \notin inUse, w.prev # NULL
  PROVE  Searched(Round(w, size), first, size, k + 1)
<1> DEFINE next == w.h + w.len[w.h]
           j == Joined(w.len, w.prev, w.h)
           found == IF j[w.prev] >= size THEN w.prev ELSE NULL
           r == Round(w, size)
<1>1. r = [len |-> j, prev |-> w.prev, h |-> next, hdr |-> found]
  BY DEF Round
<1> HIDE DEF r
<1>3. /\ w.h \in Nat /\ w.len[w.h] \in Nat /\ 0 < w.len[w.h] /\ next \in DOMAIN w.len
      /\ \A c \in DOMAIN w.len : c \in Nat /\ w.len[c] \in Nat /\ (c <= w.h \/ next <= c)
  BY Places DEF Searched, Chain
<1>4. first \in Nat
  BY Places DEF HeapInv, Chain
<1>5. /\ w.prev \in DOMAIN w.len \ {Guard, Last} /\ w.h \in DOMAIN w.len \ {Guard, Last}
      /\ w.prev + w.len[w.prev] = w.h /\ Chain(w.len) /\ w.prev \notin inUse /\ first <= w.prev
  BY DEF Searched, HeapInv, Idle
<1>6. /\ Chain(j) /\ DOMAIN j = DOMAIN w.len \ {w.h}
      /\ \A b \in DOMAIN w.len \ {w.h} : j[b] = IF b = w.prev THEN w.len[w.prev] + w.len[w.h] ELSE w.len[b]
      /\ w.prev < w.h /\ w.h \notin {0, Guard, BIGBLK, Last}
  BY <1>5, JoinedChain
<1> HIDE DEF j
<1>7. w.prev \in DOMAIN j /\ w.prev \in Nat /\ j[w.prev] = w.len[w.prev] + w.len[w.h] /\ j[w.prev] \in Nat
      /\ w.prev + j[w.prev] = next /\ HDRSZ < j[w.prev] /\ w.prev # NULL
  <2>1. HDRSZ < w.len[w.prev]
    BY <1>5 DEF Searched
  <2> QED
    BY <1>3, <1>5, <1>6, <2>1, Places
<1>8. next \in DOMAIN j /\ DOMAIN j \subseteq DOMAIN len
  BY <1>3, <1>6 DEF Searched
<1>9. \A b \in DOMAIN j \ {Guard, Last} : HDRSZ < j[b]
  <2>1. \A b \in DOMAIN w.len \ {Guard, Last} : HDRSZ < w.len[b]
    BY DEF Searched
  <2> QED
    BY <1>6, <1>7, <2>1
<1>10. inUse \subseteq DOMAIN j /\ ff1 \in DOMAIN j /\ \A b \in inUse : j[b] = len[b]
  <2>1. inUse \cup {ff1} \subseteq DOMAIN w.len /\ \A b \in inUse : w.len[b] = len[b]
    BY DEF Searched
  <2>2. ff1 # w.h
    <3>1. w.prev \in DOMAIN len /\ ff1 \in Nat
      BY <1>5, <1>3, <2>1 DEF Searched
    <3>2. ~(w.prev < ff1)
      BY <1>5, <3>1 DEF HeapInv
    <3> QED
      BY <1>3, <1>6, <1>7, <3>1, <3>2
  <2> QED
    BY <1>5, <1>6, <2>1, <2>2
<1>11. Idle(j) = Idle(w.len) \ {w.h} /\ w.prev \in Idle(j)
  <2>1. w.prev # w.h
    BY <1>3, <1>5, <1>6
  <2> QED
    BY ONLY <1>5, <1>6, <2>1 DEF Idle
<1>12. \A b \in Idle(j) : b < next => b < w.h
  BY <1>3, <1>11 DEF Idle
<1>13. \A b \in Idle(j) : first <= b /\ b < next => b = w.prev \/ b + j[b] \in inUse
  <2>1. \A b \in Idle(j) : b # w.prev => j[b] = w.len[b]
    BY <1>6, <1>11 DEF Idle
  <2> QED
    BY <1>11, <1>12, <2>1 DEF Searched
<1>14. first <= next /\ first + (k + 1) <= next
  BY <1>3, <1>4 DEF Searched
<1>15. \A b \in Idle(j) : first <= b /\ b < (IF found = NULL THEN next ELSE found) => j[b] < size
  <2>1. \A b \in Idle(j) : b \in Nat /\ (b # w.prev => j[b] = w.len[b])
    BY <1>3, <1>6, <1>11 DEF Idle
  <2>2. \A b \in Idle(j) : first <= b /\ b < w.h /\ b # w.prev => j[b] < size
    BY <1>11, <2>1 DEF Searched
  <2>3. CASE j[w.prev] >= size
    BY <1>6, <1>3, <1>7, <2>1, <2>2, <2>3
  <2>4. CASE ~(j[w.prev] >= size)
    BY <1>7, <1>12, <2>1, <2>2, <2>4
  <2> QED
    BY <2>3, <2>4
<1>16. found = NULL \/ (found = w.prev /\ size <= j[w.prev])
  BY <1>7
<1> HIDE DEF next, found
<1>17. Searched([len |-> j, prev |-> w.prev, h |-> next, hdr |-> found], first, size, k + 1)
  BY <1>5, <1>6, <1>7, <1>8, <1>9, <1>10, <1>11, <1>13, <1>14, <1>15, <1>16, SearchedWith
<1> QED
  BY <1>1, <1>17 DEF r

\* Every round keeps it.
LEMMA RoundSearched ==
  ASSUME HeapInv, NEW first \in {ff1, BIGBLK}, NEW size \in Nat, NEW k \in Nat, NEW w,
         Searched(w, first, size, k)
  PROVE  Searched(Round(w, size), first, size, k + 1)
<1>1. CASE w.hdr # NULL \/ w.h = Last
  <2>1. Round(w, size) = w
    BY <1>1 DEF Round
  <2> QED
    BY <1>1, <2>1 DEF Searched
<1> QED
  BY <1>1, RoundInUse, RoundFree, RoundJoins

\* The search ends with a block that is large enough, or at the last header.
LEMMA SearchEnds ==
  ASSUME HeapInv, NEW first \in {ff1, BIGBLK}, NEW size \in Nat
  PROVE  LET w == Search(first, size) IN
         Searched(w, first, size, MAXMEMHEAP) /\ (w.hdr # NULL \/ w.h = Last)
<1>1. PICK g : Rounds(g, first, size) /\ Search(first, size) = g[MAXMEMHEAP]
  BY SearchIsRounds
<1> DEFINE S == {k \in Nat : k <= MAXMEMHEAP => Searched(g[k], first, size, k)}
<1>2. 0 \in S
  <2>1. g[0] = AtFirst(first)
    BY <1>1, Places DEF Rounds
  <2> DEFINE a == AtFirst(first)
  <2>2. /\ a.len = len /\ a.prev = NULL /\ a.h = first /\ a.hdr = NULL
        /\ a = [len |-> a.len, prev |-> a.prev, h |-> a.h, hdr |-> a.hdr]
    BY DEF AtFirst
  <2> HIDE DEF a
  <2>3. /\ first \in DOMAIN len /\ \A b \in DOMAIN len : b \in Nat
        /\ inUse \subseteq DOMAIN len /\ ff1 \in DOMAIN len
    BY Places DEF HeapInv, Chain
  <2>4. Chain(len) /\ \A b \in DOMAIN len \ {Guard, Last} : HDRSZ < len[b]
    BY DEF HeapInv
  <2>5. /\ first <= first /\ first + 0 <= first
        /\ \A b \in Idle(len) : ~(first <= b /\ b < first)
    BY <2>3 DEF Idle
  <2>6. Searched(a, first, size, 0)
    BY ONLY <2>2, <2>3, <2>4, <2>5 DEF Searched
  <2> QED
    BY <2>1, <2>6 DEF a
<1>3. ASSUME NEW k \in 1 .. MAXMEMHEAP, k - 1 \in S PROVE k \in S
  <2>1. k \in Nat /\ k - 1 \in Nat /\ k - 1 <= MAXMEMHEAP /\ k \in 0 .. MAXMEMHEAP /\ k # 0 /\ (k - 1) + 1 = k
    BY Places
  <2>2. Searched(g[k - 1], first, size, k - 1)
    BY <1>3, <2>1
  <2>3. g[k] = Round(g[k - 1], size)
    BY <1>1, <2>1 DEF Rounds
  <2>4. Searched(Round(g[k - 1], size), first, size, (k - 1) + 1)
    BY <2>1, <2>2, RoundSearched
  <2> QED
    BY <2>1, <2>3, <2>4
<1>4. Searched(g[MAXMEMHEAP], first, size, MAXMEMHEAP)
  <2>1. MAXMEMHEAP \in S
    <3> HIDE DEF S
    <3> QED
      BY <1>2, <1>3, Places, CountedUp
  <2> QED
    BY <2>1, Places
<1> DEFINE w == g[MAXMEMHEAP]
<1>5. w.hdr # NULL \/ w.h = Last
  <2>1. w.h \in Nat /\ w.h <= Last /\ first \in Nat
    BY <1>4, Places DEF Searched, Chain, HeapInv
  <2> QED
    BY <1>4, <2>1, Places DEF Searched
<1> QED
  BY <1>1, <1>4, <1>5

-----------------------------------------------------------------------------
(* The metrics *)

\* What a part of a finite set leaves of it.
LEMMA PartOf ==
  ASSUME NEW A, IsFiniteSet(A), NEW B \in SUBSET A
  PROVE  /\ IsFiniteSet(B) /\ Cardinality(A) \in Nat /\ Cardinality(B) \in Nat
         /\ Cardinality(A \ B) = Cardinality(A) - Cardinality(B)
<1>1. IsFiniteSet(B) /\ Cardinality(A) \in Nat /\ Cardinality(B) \in Nat
  BY FS_Subset, FS_CardinalityType
<1>2. Cardinality(A \ B) = Cardinality(A) - Cardinality(A \cap B) /\ A \cap B = B
  BY FS_Difference
<1> QED
  BY <1>1, <1>2

\* The blocks of a chain are finitely many.
LEMMA Headers ==
  ASSUME NEW l, Chain(l), NEW used \in SUBSET (DOMAIN l \ {Last})
  PROVE  /\ IsFiniteSet(DOMAIN l) /\ IsFiniteSet(used)
         /\ Cardinality(DOMAIN l) \in Nat /\ Cardinality(used) \in Nat
         /\ Cardinality(DOMAIN l \ {Guard, Last}) = Cardinality(DOMAIN l) - 2
         /\ Cardinality(DOMAIN l \ (used \cup {Last})) = Cardinality(DOMAIN l) - Cardinality(used) - 1
<1>1. IsFiniteSet(DOMAIN l)
  <2>1. IsFiniteSet(0 .. Last) /\ DOMAIN l \subseteq 0 .. Last
    BY Places, FS_Interval DEF Chain
  <2> QED
    BY <2>1, FS_Subset
<1>2. Guard # Last /\ {Guard, Last} \in SUBSET DOMAIN l
  BY Places DEF Chain
<1>3. Cardinality({Guard, Last}) = 2
  <2>1. IsFiniteSet({Guard}) /\ Cardinality({Guard}) = 1
    BY FS_Singleton
  <2>2. {Guard, Last} = {Guard} \cup {Last} /\ Last \notin {Guard}
    BY <1>2
  <2> QED
    BY <2>1, <2>2, FS_AddElement
<1>4. used \in SUBSET DOMAIN l /\ used \cup {Last} \in SUBSET DOMAIN l /\ Last \notin used
  BY <1>2
<1>5. Cardinality(used \cup {Last}) = Cardinality(used) + 1 /\ IsFiniteSet(used) /\ Cardinality(used) \in Nat
  BY <1>1, <1>4, FS_AddElement, PartOf
<1>6. Cardinality(DOMAIN l \ {Guard, Last}) = Cardinality(DOMAIN l) - 2 /\ Cardinality(DOMAIN l) \in Nat
  BY <1>1, <1>2, <1>3, PartOf
<1>7. Cardinality(DOMAIN l \ (used \cup {Last})) = Cardinality(DOMAIN l) - (Cardinality(used) + 1)
  BY <1>1, <1>4, <1>5, PartOf
<1> QED
  BY <1>1, <1>5, <1>6, <1>7

\* The metrics in numbers of headers.
InUseBytes == SumFunction(Restrict(len, inUse \ {Guard}))
Metrics ==
  /\ blkCnt = Cardinality(DOMAIN len) - 2
  /\ blkFree = Cardinality(DOMAIN len) - Cardinality(inUse) - 1
  /\ memAlo = InUseBytes
  /\ InUseBytes \in Nat

\* They are what the counters should tell.
LEMMA MetricsCount == HeapInv /\ Metrics => Counted
<1> SUFFICES ASSUME HeapInv, Metrics PROVE Counted
  OBVIOUS
<1>1. Chain(len) /\ inUse \in SUBSET (DOMAIN len \ {Last})
  BY DEF HeapInv
<1> QED
  BY <1>1, Headers DEF Metrics, Counted, InUseBytes

\* The bytes in use with one block more.
LEMMA OneMore ==
  ASSUME NEW l, NEW used, IsFiniteSet(used), NEW k, NEW h, h \notin used, h # Guard, k[h] \in Nat,
         \A b \in used : l[b] \in Nat /\ k[b] = l[b]
  PROVE  /\ SumFunction(Restrict(k, (used \cup {h}) \ {Guard}))
              = k[h] + SumFunction(Restrict(l, used \ {Guard}))
         /\ SumFunction(Restrict(l, used \ {Guard})) \in Nat
<1> DEFINE E == used \ {Guard}
           f == Restrict(k, E \cup {h})
           g == Restrict(l, E)
<1>1. (used \cup {h}) \ {Guard} = E \cup {h} /\ h \notin E
  OBVIOUS
<1>2. IsFiniteSet(E)
  BY FS_Subset
<1>3. DOMAIN f = E \cup {h} /\ \A y \in E \cup {h} : f[y] = k[y]
  BY DEF Restrict
<1>4. DOMAIN g = E /\ \A y \in E : g[y] = l[y]
  BY DEF Restrict
<1> HIDE DEF f, g
<1>5. (\A y \in E \cup {h} : f[y] \in Nat) /\ \A y \in E : g[y] = f[y]
  BY <1>3, <1>4
<1> HIDE DEF E
<1>6. /\ SumFunctionOnSet(f, E \cup {h}) = f[h] + SumFunctionOnSet(g, E)
      /\ SumFunctionOnSet(g, E) \in Nat
  <2>1. h \notin E /\ IsFiniteSet(E) /\ (\A y \in E \cup {h} : f[y] \in Nat) /\ \A y \in E : g[y] = f[y]
    BY <1>1, <1>2, <1>5
  <2> QED
    BY ONLY <2>1, SumAdded
<1>7. SumFunction(f) = k[h] + SumFunction(g) /\ SumFunction(g) \in Nat
  BY <1>3, <1>4, <1>6 DEF SumFunction
<1> QED
  BY <1>1, <1>7 DEF E, f, g

-----------------------------------------------------------------------------
(* The calls *)

\* The headers that a search leaves, and the block h it found.
SearchLeft(l) ==
  /\ Chain(l) /\ DOMAIN l \subseteq DOMAIN len
  /\ \A b \in DOMAIN l \ {Guard, Last} : HDRSZ < l[b]
  /\ inUse \subseteq DOMAIN l /\ ff1 \in DOMAIN l /\ \A b \in inUse : l[b] = len[b]

\* What taking a block leaves.
LEMMA TakenChain ==
  ASSUME NEW l, Chain(l), \A b \in DOMAIN l \ {Guard, Last} : HDRSZ < l[b],
         NEW h \in DOMAIN l \ {Guard, Last}, NEW size \in Nat, HDRSZ < size, size <= l[h]
  PROVE  LET t == Taken(l, h, size) IN
         /\ Chain(t) /\ \A b \in DOMAIN t \ {Guard, Last} : HDRSZ < t[b]
         /\ DOMAIN t = IF Splits(l, h, size) THEN DOMAIN l \cup {h + size} ELSE DOMAIN l
         /\ Splits(l, h, size) => h + size \notin DOMAIN l
         /\ t[h] = IF Splits(l, h, size) THEN size ELSE l[h]
         /\ t[h] \in Nat /\ size <= t[h] /\ t[h] - size < MIN_BLKSZ
         /\ \A b \in DOMAIN l \ {h} : t[b] = l[b]
<1>1. l[h] \in Nat /\ h \in Nat
  BY DEF Chain
<1>2. CASE Splits(l, h, size)
  <2> DEFINE t == Split(l, h, size)
  <2>1. /\ Chain(t) /\ h + size \notin DOMAIN l /\ DOMAIN t = DOMAIN l \cup {h + size}
        /\ t[h] = size /\ t[h + size] = l[h] - size /\ HDRSZ < l[h] - size
        /\ \A b \in DOMAIN l \ {h} : t[b] = l[b]
    BY <1>2, SplitChain
  <2> HIDE DEF t
  <2>2. \A b \in DOMAIN t \ {Guard, Last} : HDRSZ < t[b]
    BY <2>1
  <2>3. Taken(l, h, size) = t
    BY <1>2 DEF Taken, t
  <2> QED
    BY <1>2, <2>1, <2>2, <2>3, Places
<1>3. CASE ~Splits(l, h, size)
  <2>1. Taken(l, h, size) = l
    BY <1>3 DEF Taken
  <2>2. l[h] - size < MIN_BLKSZ
    BY <1>1, <1>3, Places DEF Splits
  <2> QED
    BY <1>1, <1>3, <2>1, <2>2
<1> QED
  BY <1>2, <1>3

\* The calls begin with a search.
LEMMA SearchLeaves ==
  ASSUME HeapInv, NEW first \in {ff1, BIGBLK}, NEW size \in Nat, HDRSZ < size
  PROVE  LET w == Search(first, size) IN
         /\ SearchLeft(w.len)
         /\ w.hdr # NULL => /\ w.hdr \in DOMAIN w.len \ {Guard, Last} /\ w.hdr \notin inUse
                            /\ first <= w.hdr /\ size <= w.len[w.hdr]
                            /\ \A b \in Idle(w.len) : first <= b /\ b < w.hdr => w.len[b] < size
         /\ w.hdr = NULL => \A b \in Idle(w.len) : first <= b =>
                              w.len[b] < size /\ b + w.len[b] \in inUse \cup {Last}
<1> DEFINE w == Search(first, size)
<1>1. Searched(w, first, size, MAXMEMHEAP) /\ (w.hdr # NULL \/ w.h = Last)
  BY SearchEnds
<1> HIDE DEF w
<1>2. SearchLeft(w.len)
  BY <1>1 DEF Searched, SearchLeft
<1>3. ASSUME w.hdr # NULL
      PROVE  /\ w.hdr \in DOMAIN w.len \ {Guard, Last} /\ w.hdr \notin inUse
             /\ first <= w.hdr /\ size <= w.len[w.hdr]
             /\ \A b \in Idle(w.len) : first <= b /\ b < w.hdr => w.len[b] < size
  BY <1>1, <1>3 DEF Searched, Idle, HeapInv
<1>4. ASSUME w.hdr = NULL, NEW b \in Idle(w.len), first <= b
      PROVE  w.len[b] < size /\ b + w.len[b] \in inUse \cup {Last}
  <2>1. w.h = Last /\ b < Last
    BY <1>1, <1>4, Places DEF Idle, Searched, Chain
  <2>2. w.prev # NULL => w.prev + w.len[w.prev] = Last
    BY <1>1, <2>1 DEF Searched
  <2>3. b # NULL
    BY <1>1, Places DEF Idle, Searched, Chain
  <2>4. w.len[b] < size /\ (b = w.prev \/ b + w.len[b] \in inUse)
    BY <1>1, <1>4, <2>1 DEF Searched
  <2> QED
    BY <2>2, <2>3, <2>4
<1> QED
  BY <1>2, <1>3, <1>4 DEF w

\* A block is taken.
LEMMA GrantedKeeps ==
  ASSUME HeapInv, Metrics, NEW l, SearchLeft(l), NEW h \in DOMAIN l \ {Guard, Last}, h \notin inUse,
         NEW size \in Nat, HDRSZ < size, size <= l[h], Granted(l, h, size)
  PROVE  /\ HeapInv' /\ Metrics'
         /\ len'[h] \in Nat /\ size <= len'[h] /\ len'[h] - size < MIN_BLKSZ
         /\ \A b \in inUse : len'[b] = len[b]
<1> DEFINE t == Taken(l, h, size)
<1>1. /\ Chain(l) /\ DOMAIN l \subseteq DOMAIN len
      /\ \A b \in DOMAIN l \ {Guard, Last} : HDRSZ < l[b]
      /\ inUse \subseteq DOMAIN l /\ ff1 \in DOMAIN l /\ \A b \in inUse : l[b] = len[b]
  BY DEF SearchLeft
<1>2. /\ Chain(t) /\ \A b \in DOMAIN t \ {Guard, Last} : HDRSZ < t[b]
      /\ DOMAIN t = IF Splits(l, h, size) THEN DOMAIN l \cup {h + size} ELSE DOMAIN l
      /\ Splits(l, h, size) => h + size \notin DOMAIN l
      /\ t[h] = IF Splits(l, h, size) THEN size ELSE l[h]
      /\ t[h] \in Nat /\ size <= t[h] /\ t[h] - size < MIN_BLKSZ
      /\ \A b \in DOMAIN l \ {h} : t[b] = l[b]
  <2>1. /\ Chain(l) /\ \A b \in DOMAIN l \ {Guard, Last} : HDRSZ < l[b]
        /\ h \in DOMAIN l \ {Guard, Last} /\ size \in Nat /\ HDRSZ < size /\ size <= l[h]
    BY <1>1
  <2> QED
    BY ONLY <2>1, TakenChain
<1> HIDE DEF t
<1>3. len' = t /\ inUse' = inUse \cup {h} /\ ret' = h /\ kicked' = kicked /\ ff1' = NextFf1(t, h)
  BY DEF Granted, t
<1>4. /\ Guard \in inUse /\ inUse \subseteq DOMAIN len \ {Last} /\ kicked \in BOOLEAN
      /\ \A b \in DOMAIN len : b < ff1 => b \in inUse
      /\ kicked = FALSE => ff1 = 0
  BY DEF HeapInv
<1>5. /\ h \in Nat /\ ff1 \in Nat /\ \A b \in DOMAIN t : b \in Nat
      /\ h + t[h] \in DOMAIN t /\ (\A b \in DOMAIN t : b <= h \/ h + t[h] <= b) /\ 0 < t[h]
      /\ h \in DOMAIN t
  BY <1>1, <1>2, Places DEF Chain
<1>6. ff1' \in DOMAIN t /\ \A b \in DOMAIN t : b < ff1' => b \in inUse \cup {h}
  <2>1. CASE kicked /\ ff1 = h
    <3>1. ff1' = h + t[h]
      BY <1>3, <2>1 DEF NextFf1
    <3>2. ASSUME NEW b \in DOMAIN t, b < ff1', b # h PROVE b \in inUse
      <4>1. b < h
        BY <1>5, <3>1, <3>2
      <4>2. b \in DOMAIN len
        BY <1>1, <1>2, <1>5, <4>1
      <4> QED
        BY <1>4, <2>1, <4>1, <4>2
    <3> QED
      BY <1>5, <3>1, <3>2
  <2>2. CASE ~(kicked /\ ff1 = h)
    <3>1. ff1' = ff1
      BY <1>3, <2>2 DEF NextFf1
    <3>2. ~(h < ff1)
      BY <1>1, <1>4
    <3>3. ASSUME NEW b \in DOMAIN t, b < ff1 PROVE b \in inUse
      <4>1. b \in DOMAIN len
        BY <1>1, <1>2, <1>5, <3>2, <3>3
      <4> QED
        BY <1>4, <3>3, <4>1
    <3> QED
      BY <1>1, <1>2, <3>1, <3>3
  <2> QED
    BY <2>1, <2>2
<1>7. ret' \in Bucket \cup Wilderness
  <2>1. h \in h .. h + l[h] - 1 /\ (h .. h + l[h] - 1 \subseteq Bucket \/ h .. h + l[h] - 1 \subseteq Wilderness)
    BY <1>1, InRegion
  <2> QED
    BY <1>3, <2>1
<1>8. kicked' = FALSE => ff1' = 0
  BY <1>3, <1>4 DEF NextFf1
<1>9. HeapInv'
  BY <1>1, <1>2, <1>3, <1>4, <1>5, <1>6, <1>7, <1>8 DEF HeapInv
<1>10. /\ IsFiniteSet(DOMAIN l) /\ Cardinality(DOMAIN l) \in Nat
       /\ IsFiniteSet(inUse) /\ Cardinality(inUse) \in Nat
       /\ Cardinality(DOMAIN len) \in Nat
  <2>1. inUse \in SUBSET (DOMAIN l \ {Last}) /\ inUse \in SUBSET (DOMAIN len \ {Last}) /\ Chain(len)
    BY <1>1, <1>4 DEF HeapInv
  <2> QED
    BY <1>1, <2>1, Headers
<1>11. Cardinality(inUse') = Cardinality(inUse) + 1
  BY <1>3, <1>10, FS_AddElement
<1>12. Cardinality(DOMAIN t) = Cardinality(DOMAIN l) + (IF Splits(l, h, size) THEN 1 ELSE 0)
  BY <1>2, <1>10, FS_AddElement
<1>13. InUseBytes' = t[h] + InUseBytes /\ InUseBytes \in Nat
  <2>1. \A b \in inUse : len[b] \in Nat /\ t[b] = len[b]
    BY <1>1, <1>2, <1>4 DEF Chain
  <2> QED
    BY <1>2, <1>3, <1>10, <2>1, OneMore DEF InUseBytes
<1>14. blkCnt' = Cardinality(DOMAIN t) - 2 /\ blkFree' = Cardinality(DOMAIN t) - (Cardinality(inUse) + 1) - 1
  BY <1>10, <1>12 DEF Granted, Merged, Metrics
<1>15. memAlo' = t[h] + InUseBytes
  <2>1. memAlo' = memAlo + t[h]
    BY <1>2 DEF Granted
  <2> QED
    BY <1>2, <2>1 DEF Metrics
<1>16. Metrics'
  BY <1>2, <1>3, <1>10, <1>11, <1>13, <1>14, <1>15 DEF Metrics
<1>17. \A b \in inUse : len'[b] = len[b]
  BY <1>1, <1>2, <1>3
<1> QED
  BY <1>2, <1>3, <1>9, <1>16, <1>17

\* A request is refused.
LEMMA RefusedKeeps ==
  ASSUME HeapInv, Metrics, NEW l, SearchLeft(l), Refused(l)
  PROVE  HeapInv' /\ Metrics' /\ \A b \in inUse : len'[b] = len[b]
<1>1. /\ Chain(l) /\ DOMAIN l \subseteq DOMAIN len
      /\ \A b \in DOMAIN l \ {Guard, Last} : HDRSZ < l[b]
      /\ inUse \subseteq DOMAIN l /\ ff1 \in DOMAIN l /\ \A b \in inUse : l[b] = len[b]
  BY DEF SearchLeft
<1>2. len' = l /\ inUse' = inUse /\ ret' = NULL /\ kicked' = kicked /\ ff1' = ff1 /\ memAlo' = memAlo
  BY DEF Refused
<1>3. HeapInv'
  BY <1>1, <1>2 DEF HeapInv
<1>4. InUseBytes' = InUseBytes
  <2>1. Restrict(l, inUse \ {Guard}) = Restrict(len, inUse \ {Guard})
    BY <1>1 DEF Restrict
  <2> QED
    BY <1>2, <2>1 DEF InUseBytes
<1>5. Cardinality(DOMAIN l) \in Nat /\ Cardinality(DOMAIN len) \in Nat /\ Cardinality(inUse) \in Nat
  <2>1. inUse \in SUBSET (DOMAIN l \ {Last}) /\ inUse \in SUBSET (DOMAIN len \ {Last}) /\ Chain(len)
    BY <1>1 DEF HeapInv
  <2> QED
    BY <1>1, <2>1, Headers
<1>6. blkCnt' = Cardinality(DOMAIN l) - 2 /\ blkFree' = Cardinality(DOMAIN l) - Cardinality(inUse) - 1
  BY <1>5 DEF Refused, Merged, Metrics
<1>7. Metrics'
  BY <1>2, <1>4, <1>6 DEF Metrics
<1> QED
  BY <1>1, <1>2, <1>3, <1>7

\* A request, which is granted or refused.
LEMMA Requested ==
  ASSUME HeapInv, NEW n \in Request
  PROVE  /\ FirstPlace(n + HDRSZ) \in {ff1, BIGBLK}
         /\ n + HDRSZ \in Nat /\ HDRSZ < n + HDRSZ
<1>1. n \in Nat /\ 0 < n
  BY HeapAssumption
<1> QED
  BY <1>1, Places DEF FirstPlace

\* What one request does.
LEMMA AllocKeeps ==
  ASSUME HeapInv, Metrics, NEW n \in Request, osal_mem_alloc(n)
  PROVE  HeapInv' /\ Metrics'
<1> DEFINE size == n + HDRSZ
           w == Search(FirstPlace(size), size)
<1>1. FirstPlace(size) \in {ff1, BIGBLK} /\ size \in Nat /\ HDRSZ < size
  BY Requested
<1>2. \/ w.hdr # NULL /\ Granted(w.len, w.hdr, size)
      \/ w.hdr = NULL /\ Refused(w.len)
  BY DEF osal_mem_alloc
<1> HIDE DEF size
<1>3. /\ SearchLeft(w.len)
      /\ w.hdr # NULL => /\ w.hdr \in DOMAIN w.len \ {Guard, Last} /\ w.hdr \notin inUse
                         /\ size <= w.len[w.hdr]
  BY <1>1, SearchLeaves
<1> HIDE DEF w
<1>4. CASE w.hdr # NULL
  BY <1>1, <1>2, <1>3, <1>4, GrantedKeeps
<1>5. CASE w.hdr = NULL
  BY <1>2, <1>3, <1>5, RefusedKeeps
<1> QED
  BY <1>4, <1>5

\* A block is released.
LEMMA FreeKeeps ==
  ASSUME HeapInv, Metrics, NEW h \in inUse \ {Guard}, osal_mem_free(h)
  PROVE  HeapInv' /\ Metrics'
<1>1. len' = len /\ inUse' = inUse \ {h} /\ ret' = ret /\ kicked' = kicked /\ ff1' = LowerFf1(h)
  BY DEF osal_mem_free
<1>2. /\ Chain(len) /\ Guard \in inUse /\ inUse \subseteq DOMAIN len \ {Last}
      /\ ff1 \in DOMAIN len /\ \A b \in DOMAIN len : b < ff1 => b \in inUse
      /\ kicked = FALSE => ff1 = 0
  BY DEF HeapInv
<1>3. \A b \in DOMAIN len : b \in Nat /\ len[b] \in Nat
  BY <1>2 DEF Chain
<1>4. ff1' \in DOMAIN len /\ \A b \in DOMAIN len : b < ff1' => b \in inUse \ {h}
  BY <1>1, <1>2, <1>3 DEF LowerFf1
<1>5. kicked' = FALSE => ff1' = 0
  BY <1>1, <1>2, <1>3 DEF LowerFf1
<1>6. HeapInv'
  BY <1>1, <1>2, <1>4, <1>5 DEF HeapInv
<1>7. IsFiniteSet(inUse) /\ Cardinality(inUse) \in Nat /\ Cardinality(DOMAIN len) \in Nat
  BY <1>2, Headers
<1>8. Cardinality(inUse \ {h}) = Cardinality(inUse) - 1 /\ IsFiniteSet(inUse \ {h})
  BY <1>7, FS_RemoveElement
<1>9. InUseBytes = len[h] + InUseBytes' /\ InUseBytes' \in Nat
  <2> DEFINE used == inUse \ {h}
  <2>1. h \notin used /\ h # Guard /\ len[h] \in Nat /\ used \cup {h} = inUse
        /\ \A b \in used : len[b] \in Nat /\ len[b] = len[b]
    BY <1>2, <1>3
  <2>2. IsFiniteSet(used)
    BY <1>8
  <2> HIDE DEF used
  <2>3. /\ SumFunction(Restrict(len, (used \cup {h}) \ {Guard}))
             = len[h] + SumFunction(Restrict(len, used \ {Guard}))
        /\ SumFunction(Restrict(len, used \ {Guard})) \in Nat
    BY <2>1, <2>2, OneMore
  <2>4. inUse' = used
    BY <1>1 DEF used
  <2> QED
    BY <1>1, <2>1, <2>3, <2>4 DEF InUseBytes
<1>10. blkCnt' = blkCnt /\ blkFree' = blkFree + 1 /\ memAlo' = memAlo - len[h]
  BY DEF osal_mem_free
<1>11. memAlo' = InUseBytes'
  BY <1>3, <1>2, <1>9, <1>10 DEF Metrics
<1>12. Metrics'
  BY <1>1, <1>7, <1>8, <1>9, <1>10, <1>11 DEF Metrics
<1> QED
  BY <1>6, <1>12

\* The heap is kicked: the first free block is large enough, so that all before it
\* are in use.
LEMMA KickKeeps ==
  ASSUME HeapInv, Metrics, osal_mem_kick
  PROVE  HeapInv' /\ Metrics' /\ \A b \in inUse : len'[b] = len[b]
<1> DEFINE size == 1 + HDRSZ
           w == Search(ff1, size)
           l == w.len
           h == w.hdr
           t == Taken(l, h, size)
<1>1. size \in Nat /\ HDRSZ < size
  BY Places
<1>2. /\ len' = t /\ ff1' = h /\ kicked' = TRUE /\ h # NULL /\ kicked = FALSE
      /\ inUse' = inUse /\ ret' = ret /\ memAlo' = memAlo
      /\ blkCnt' = blkCnt - Merged(l) + (IF Splits(l, h, size) THEN 1 ELSE 0)
      /\ blkFree' = blkFree - Merged(l) + (IF Splits(l, h, size) THEN 1 ELSE 0)
  BY DEF osal_mem_kick, HeapInv
<1>3. /\ SearchLeft(l)
      /\ h # NULL => /\ h \in DOMAIN l \ {Guard, Last} /\ h \notin inUse
                     /\ ff1 <= h /\ size <= l[h]
                     /\ \A b \in Idle(l) : ff1 <= b /\ b < h => l[b] < size
  BY <1>1, SearchLeaves
<1> HIDE DEF t, l, h, w
<1>4. /\ h \in DOMAIN l \ {Guard, Last} /\ h \notin inUse /\ ff1 <= h /\ size <= l[h]
      /\ \A b \in Idle(l) : ff1 <= b /\ b < h => l[b] < size
  BY <1>2, <1>3
<1>5. /\ Chain(l) /\ DOMAIN l \subseteq DOMAIN len
      /\ \A b \in DOMAIN l \ {Guard, Last} : HDRSZ < l[b]
      /\ inUse \subseteq DOMAIN l /\ ff1 \in DOMAIN l /\ \A b \in inUse : l[b] = len[b]
  BY <1>3 DEF SearchLeft
<1>6. /\ Chain(t) /\ \A b \in DOMAIN t \ {Guard, Last} : HDRSZ < t[b]
      /\ DOMAIN t = IF Splits(l, h, size) THEN DOMAIN l \cup {h + size} ELSE DOMAIN l
      /\ Splits(l, h, size) => h + size \notin DOMAIN l
      /\ \A b \in DOMAIN l \ {h} : t[b] = l[b]
  <2> HIDE DEF size
  <2>1. /\ Chain(l) /\ \A b \in DOMAIN l \ {Guard, Last} : HDRSZ < l[b]
        /\ h \in DOMAIN l \ {Guard, Last} /\ size \in Nat /\ HDRSZ < size /\ size <= l[h]
    BY <1>1, <1>4, <1>5
  <2> QED
    BY ONLY <2>1, TakenChain DEF t
<1>7. /\ Guard \in inUse /\ inUse \subseteq DOMAIN len \ {Last}
      /\ kicked = FALSE => ff1 = 0
      /\ ret \in {NULL} \cup Bucket \cup Wilderness
  BY DEF HeapInv
<1>8. \A b \in DOMAIN l : b \in Nat /\ l[b] \in Nat
  BY <1>5 DEF Chain
<1>9. h \in DOMAIN t /\ \A b \in DOMAIN t : b < h => b \in inUse
  <2>1. h \in DOMAIN t
    BY <1>4, <1>6
  <2>2. ASSUME NEW b \in DOMAIN t, b < h, b \notin inUse PROVE FALSE
    <3>1. b \in DOMAIN l
      BY <1>1, <1>4, <1>6, <1>8, <2>2
    <3>2. b \in DOMAIN l \ {Guard, Last}
      <4>1. h <= Last
        BY <1>4, <1>5 DEF Chain
      <4>2. b # Guard
        BY <1>7, <2>2
      <4>3. b # Last
        BY <1>4, <1>8, <2>2, <4>1, Places
      <4> QED
        BY <3>1, <4>2, <4>3
    <3>3. ff1 <= b
      BY <1>2, <1>7, <1>8, <3>1
    <3>4. l[b] < size /\ HDRSZ < l[b]
      BY <1>4, <1>5, <2>2, <3>2, <3>3 DEF Idle
    <3> QED
      BY <1>8, <3>1, <3>4, Places
  <2> QED
    BY <2>1, <2>2
<1>10. inUse \subseteq DOMAIN t \ {Last} /\ \A b \in inUse : t[b] = len[b]
  BY <1>4, <1>5, <1>6, <1>7
<1>11. HeapInv'
  BY <1>2, <1>6, <1>7, <1>9, <1>10 DEF HeapInv
<1>12. InUseBytes' = InUseBytes
  <2>1. Restrict(t, inUse \ {Guard}) = Restrict(len, inUse \ {Guard})
    BY <1>10 DEF Restrict
  <2> QED
    BY <1>2, <2>1 DEF InUseBytes
<1>13. /\ IsFiniteSet(DOMAIN l) /\ Cardinality(DOMAIN l) \in Nat
       /\ Cardinality(inUse) \in Nat /\ Cardinality(DOMAIN len) \in Nat
  <2>1. inUse \in SUBSET (DOMAIN l \ {Last}) /\ inUse \in SUBSET (DOMAIN len \ {Last}) /\ Chain(len)
    BY <1>5, <1>7 DEF HeapInv
  <2> QED
    BY <1>5, <2>1, Headers
<1>14. Cardinality(DOMAIN t) = Cardinality(DOMAIN l) + (IF Splits(l, h, size) THEN 1 ELSE 0)
  BY <1>6, <1>13, FS_AddElement
<1>15. blkCnt' = Cardinality(DOMAIN t) - 2 /\ blkFree' = Cardinality(DOMAIN t) - Cardinality(inUse) - 1
  BY <1>2, <1>13, <1>14 DEF Merged, Metrics
<1>16. Metrics'
  BY <1>2, <1>12, <1>15 DEF Metrics
<1> QED
  BY <1>2, <1>10, <1>11, <1>16

\* The first state.
LEMMA FirstHeap == MemInit => HeapInv /\ Metrics
<1> SUFFICES ASSUME MemInit PROVE HeapInv /\ Metrics
  OBVIOUS
<1>1. /\ DOMAIN len = {0, Guard, BIGBLK, Last} /\ inUse = {Guard} /\ ff1 = 0 /\ kicked = FALSE
      /\ ret = NULL /\ blkCnt = 2 /\ blkFree = 2 /\ memAlo = 0
  BY DEF MemInit
<1>2. len[0] = Guard /\ len[Guard] = HDRSZ /\ len[BIGBLK] = Last - BIGBLK /\ len[Last] = 0
  BY Places DEF MemInit, Guard, BIGBLK, Last
<1>3. Chain(len)
  BY <1>1, <1>2, Places DEF Chain
<1>4. HeapInv
  <2>1. \A b \in DOMAIN len \ {Guard, Last} : HDRSZ < len[b]
    BY <1>1, <1>2, Places
  <2>2. \A b \in DOMAIN len : ~(b < ff1)
    BY <1>1, Places
  <2>3. Guard \in inUse /\ inUse \subseteq DOMAIN len \ {Last} /\ ff1 \in DOMAIN len
    BY <1>1, Places
  <2> QED
    BY <1>1, <1>3, <2>1, <2>2, <2>3 DEF HeapInv
<1>5. Cardinality(DOMAIN len) = 4 /\ Cardinality(inUse) = 1
  <2>1. IsFiniteSet({0}) /\ Cardinality({0}) = 1 /\ Cardinality(inUse) = 1
    BY <1>1, FS_Singleton
  <2>2. IsFiniteSet({0} \cup {Guard}) /\ Cardinality({0} \cup {Guard}) = 2
    BY <2>1, Places, FS_AddElement
  <2>3. IsFiniteSet(({0} \cup {Guard}) \cup {BIGBLK}) /\ Cardinality(({0} \cup {Guard}) \cup {BIGBLK}) = 3
    <3>1. BIGBLK \notin {0} \cup {Guard}
      BY Places
    <3> QED
      BY <2>2, <3>1, FS_AddElement
  <2>4. Cardinality((({0} \cup {Guard}) \cup {BIGBLK}) \cup {Last}) = 4
    <3>1. Last \notin ({0} \cup {Guard}) \cup {BIGBLK}
      BY Places
    <3> QED
      BY <2>3, <3>1, FS_AddElement
  <2>5. DOMAIN len = (({0} \cup {Guard}) \cup {BIGBLK}) \cup {Last}
    BY <1>1
  <2> QED
    BY <2>1, <2>4, <2>5
<1>6. InUseBytes = 0
  <2>1. inUse \ {Guard} = {} /\ DOMAIN Restrict(len, {}) = {}
    BY <1>1 DEF Restrict
  <2> QED
    BY <2>1, SumEmpty DEF InUseBytes, SumFunction
<1> QED
  BY <1>1, <1>4, <1>5, <1>6 DEF Metrics

\* The invariant of the heap.
LEMMA HeapInvariant == MemSpec => [](HeapInv /\ Metrics)
<1>1. HeapInv /\ Metrics /\ [MemNext]_memVars => (HeapInv /\ Metrics)'
  <2> SUFFICES ASSUME HeapInv, Metrics, [MemNext]_memVars PROVE HeapInv' /\ Metrics'
    OBVIOUS
  <2>1. ASSUME NEW n \in Request, osal_mem_alloc(n) PROVE HeapInv' /\ Metrics'
    BY <2>1, AllocKeeps
  <2>2. ASSUME NEW h \in inUse \ {Guard}, osal_mem_free(h) PROVE HeapInv' /\ Metrics'
    BY <2>2, FreeKeeps
  <2>3. CASE osal_mem_kick
    BY <2>3, KickKeeps
  <2>4. CASE UNCHANGED memVars
    BY <2>4 DEF memVars, HeapInv, Metrics, InUseBytes
  <2> QED
    BY <2>1, <2>2, <2>3, <2>4 DEF MemNext
<1> QED
  BY <1>1, FirstHeap, PTL DEF MemSpec

\* The chain of blocks is never broken: the blocks lie behind one another from the
\* first byte to the last header, bucket and wilderness apart, whatever was split,
\* joined and released (osal_mem_alloc, osal_mem_free, osal_mem_kick).
THEOREM BlocksInChain == MemSpec => []MemTypeOK
<1>1. HeapInv => MemTypeOK
  BY DEF HeapInv, Chain, MemTypeOK
<1> QED
  BY <1>1, HeapInvariant, PTL

\* The metrics tell the blocks, the free ones and the bytes in use (OSALMEM_METRICS).
THEOREM BlocksAreCounted == MemSpec => []Counted
  BY HeapInvariant, MetricsCount, PTL

-----------------------------------------------------------------------------
(* What is promised *)

Held == {Bytes(b) : b \in inUse \ {Guard}}

\* Where a request may be served from.
LEMMA PlaceIs ==
  ASSUME NEW n \in Sizes, NEW k \in BOOLEAN
  PROVE  AllowedPlace[n][k] = IF ~k \/ n <= SMALL_BLKSZ THEN Bucket \cup Wilderness ELSE Wilderness
  BY DEF AllowedPlace, Sizes

\* The places held stay as they are when the blocks in use keep their lengths.
LEMMA HeldStays ==
  ASSUME \A b \in inUse : len'[b] = len[b], inUse' = inUse
  PROVE  Held' = Held
  BY DEF Held, Bytes

\* A request that is granted gets a place that nobody holds.
LEMMA GrantedServes ==
  ASSUME HeapInv, HeapInv', NEW size \in Sizes, NEW h \in DOMAIN len', h \notin inUse,
         inUse' = inUse \cup {h}, ret' = h, kicked' = kicked,
         len'[h] \in Nat, size <= len'[h], len'[h] - size < MIN_BLKSZ,
         FirstPlace(size) <= h,
         \A b \in inUse : len'[b] = len[b]
  PROVE  Heap!Alloc
<1> DEFINE w == len'[h] - size
           s == h .. h + len'[h] - 1
           place == AllowedPlace[size][kicked]
<1>1. size \in Nat /\ w \in 0 .. MIN_BLKSZ - 1 /\ size + w = len'[h]
  <2>1. size \in Nat
    BY HeapAssumption, Places DEF Sizes
  <2> QED
    BY <2>1, Places
<1>2. Chain(len') /\ Guard \in inUse /\ inUse' \subseteq DOMAIN len' \ {Last} /\ kicked \in BOOLEAN
  BY DEF HeapInv
<1>3. h \in DOMAIN len' \ {Guard, Last} /\ h \in Nat
  BY <1>2 DEF Chain
<1>4. /\ h \in s /\ (s \subseteq Bucket \/ s \subseteq Wilderness)
      /\ BIGBLK <= h => s \subseteq Wilderness
  BY <1>2, <1>3, InRegion
<1>5. place = IF ~kicked \/ size <= SMALL_BLKSZ THEN Bucket \cup Wilderness ELSE Wilderness
  BY <1>2, PlaceIs
<1>6. s \subseteq place /\ h \in place
  <2>1. CASE ~kicked \/ size <= SMALL_BLKSZ
    BY <1>4, <1>5, <2>1
  <2>2. CASE ~(~kicked \/ size <= SMALL_BLKSZ)
    BY <1>4, <1>5, <2>2 DEF FirstPlace
  <2> QED
    BY <2>1, <2>2
<1>7. \A x \in Held : s \cap x = {}
  <2> SUFFICES ASSUME NEW b \in inUse \ {Guard} PROVE s \cap Bytes(b) = {}
    BY DEF Held
  <2>1. b \in DOMAIN len' \ {Last} /\ b # h /\ len'[b] = len[b]
    BY <1>2
  <2>2. (h .. h + len'[h] - 1) \cap (b .. b + len'[b] - 1) = {}
    BY <1>2, <1>3, <2>1, Apart
  <2> QED
    BY <2>1, <2>2 DEF Bytes
<1>8. Held' = Held \cup {s}
  <2>1. inUse' \ {Guard} = (inUse \ {Guard}) \cup {h}
    BY <1>3
  <2>2. Bytes(h)' = s
    BY DEF Bytes
  <2>3. \A b \in inUse : Bytes(b)' = Bytes(b)
    BY DEF Bytes
  <2>4. Held' = {b .. b + len'[b] - 1 : b \in inUse' \ {Guard}}
    BY DEF Held, Bytes
  <2>5. \A b \in inUse : b .. b + len'[b] - 1 = Bytes(b)
    BY DEF Bytes
  <2> HIDE DEF s
  <2>6. h .. h + len'[h] - 1 = s
    BY DEF s
  <2>7. Held' = {b .. b + len'[b] - 1 : b \in inUse \ {Guard}} \cup {s}
    BY <2>1, <2>4, <2>6
  <2>8. {b .. b + len'[b] - 1 : b \in inUse \ {Guard}} = Held
    BY <2>5 DEF Held
  <2> QED
    BY <2>7, <2>8
<1>9. h + size + w - 1 = h + len'[h] - 1
  BY <1>1, <1>3
<1> HIDE DEF w, place
<1>10. LET r == h .. h + size + w - 1 IN
       /\ r \subseteq place
       /\ Heap!Free(r)
       /\ Held' = Held \cup {r}
       /\ ret' = h /\ kicked' = kicked
  BY <1>6, <1>7, <1>8, <1>9 DEF Heap!Free, Held
<1> QED
  BY <1>1, <1>6, <1>10 DEF Heap!Alloc, Held, place, Sizes

\* A request is refused only if no place is large enough: every byte is in a block
\* in use, or in a free one that is too small and has none behind it.
LEMMA RefusedRightly ==
  ASSUME HeapInv, NEW size \in Sizes, NEW l, SearchLeft(l),
         \A b \in Idle(l) : FirstPlace(size) <= b => l[b] < size /\ b + l[b] \in inUse \cup {Last},
         NEW a \in AllowedPlace[size][kicked], a .. a + size - 1 \subseteq AllowedPlace[size][kicked]
  PROVE  ~Heap!Free(a .. a + size - 1)
<1> DEFINE s == a .. a + size - 1
           place == AllowedPlace[size][kicked]
<1>1. /\ Chain(l) /\ DOMAIN l \subseteq DOMAIN len
      /\ inUse \subseteq DOMAIN l /\ ff1 \in DOMAIN l /\ \A b \in inUse : l[b] = len[b]
  BY DEF SearchLeft
<1>2. /\ Guard \in inUse /\ inUse \subseteq DOMAIN len \ {Last} /\ kicked \in BOOLEAN
      /\ \A b \in DOMAIN len : b < ff1 => b \in inUse
  BY DEF HeapInv
<1>3. place = IF ~kicked \/ size <= SMALL_BLKSZ THEN Bucket \cup Wilderness ELSE Wilderness
  BY <1>2, PlaceIs
<1>4. size \in Nat /\ 0 < size
  BY HeapAssumption, Places DEF Sizes
<1>5. \A x \in place : x \in Nat /\ x < Last /\ (x < Guard \/ BIGBLK <= x)
  BY <1>3, Places DEF Bucket, Wilderness, Guard
<1>6. a \in Nat /\ a < Last /\ a \in s
  BY <1>4, <1>5
<1>7. PICK b \in DOMAIN l \ {Last} : b <= a /\ a < b + l[b]
  BY <1>1, <1>6, InBlock, Places
<1>8. b \in Nat /\ l[b] \in Nat /\ b + l[b] \in DOMAIN l
  BY <1>1, <1>7 DEF Chain
<1>9. \A c \in inUse : \A x \in s : ~(x \in place /\ c <= x /\ x < c + l[c] /\ Heap!Free(s))
  <2> SUFFICES ASSUME NEW c \in inUse, NEW x \in s, x \in place, c <= x, x < c + l[c], Heap!Free(s)
               PROVE  FALSE
    OBVIOUS
  <2>1. c # Guard
    <3>1. l[Guard] = HDRSZ
      BY <1>1 DEF Chain
    <3> QED
      BY <1>5, <3>1, Places
  <2>2. c \in Nat /\ l[c] \in Nat /\ l[c] = len[c] /\ x \in Nat
    BY <1>1, <1>5 DEF Chain
  <2>3. x \in Bytes(c)
    BY <2>2 DEF Bytes
  <2>4. s \cap Bytes(c) = {}
    BY <2>1 DEF Heap!Free
  <2> QED
    BY <2>3, <2>4
<1> SUFFICES ASSUME Heap!Free(s) PROVE FALSE
  OBVIOUS
<1>10. b \notin inUse
  BY <1>6, <1>7, <1>9
<1>11. FirstPlace(size) <= b
  <2>1. CASE FirstPlace(size) = ff1
    <3>1. ff1 \in Nat /\ b \in DOMAIN len
      BY <1>1, <1>7 DEF Chain
    <3> QED
      BY <1>2, <1>8, <1>10, <2>1, <3>1
  <2>2. CASE FirstPlace(size) # ff1
    <3>1. FirstPlace(size) = BIGBLK /\ place = Wilderness
      BY <1>3, <2>2 DEF FirstPlace
    <3>2. BIGBLK <= a
      BY <3>1 DEF Wilderness
    <3>3. BIGBLK <= b \/ b + l[b] <= BIGBLK
      BY <1>1, <1>7 DEF Chain
    <3> QED
      BY <1>6, <1>7, <1>8, <3>1, <3>2, <3>3, Places
  <2> QED
    BY <2>1, <2>2
<1>12. l[b] < size /\ b + l[b] \in inUse \cup {Last}
  BY <1>7, <1>10, <1>11 DEF Idle
<1> DEFINE c == b + l[b]
<1>13. c \in s /\ c \in place
  <2>1. c \in s
    BY <1>4, <1>6, <1>7, <1>8, <1>12
  <2> QED
    BY <2>1
<1>14. c \in inUse
  BY <1>5, <1>12, <1>13
<1>15. c \in Nat /\ 0 < l[c] /\ l[c] \in Nat
  <2> HIDE DEF c
  <2>1. c \in DOMAIN l \ {Last}
    BY <1>1, <1>2, <1>14
  <2>2. c \in Nat /\ l[c] \in Nat /\ HDRSZ <= l[c]
    BY <1>1, <2>1 DEF Chain
  <2> QED
    BY <2>2, Places
<1> QED
  BY <1>9, <1>13, <1>14, <1>15

\* A request.
LEMMA AllocServes ==
  ASSUME HeapInv, Metrics, NEW n \in Request, osal_mem_alloc(n)
  PROVE  Heap!Alloc \/ Heap!Refuse
<1> DEFINE size == n + HDRSZ
           w == Search(FirstPlace(size), size)
<1>1. FirstPlace(size) \in {ff1, BIGBLK} /\ size \in Nat /\ HDRSZ < size /\ size \in Sizes
  BY Requested DEF Sizes
<1>2. \/ w.hdr # NULL /\ Granted(w.len, w.hdr, size)
      \/ w.hdr = NULL /\ Refused(w.len)
  BY DEF osal_mem_alloc
<1> HIDE DEF size
<1>3. /\ SearchLeft(w.len)
      /\ w.hdr # NULL => /\ w.hdr \in DOMAIN w.len \ {Guard, Last} /\ w.hdr \notin inUse
                         /\ FirstPlace(size) <= w.hdr /\ size <= w.len[w.hdr]
      /\ w.hdr = NULL => \A b \in Idle(w.len) : FirstPlace(size) <= b =>
                           w.len[b] < size /\ b + w.len[b] \in inUse \cup {Last}
  BY <1>1, SearchLeaves
<1> HIDE DEF w
<1>4. CASE w.hdr # NULL
  <2>1. /\ HeapInv'
        /\ len'[w.hdr] \in Nat /\ size <= len'[w.hdr] /\ len'[w.hdr] - size < MIN_BLKSZ
        /\ \A b \in inUse : len'[b] = len[b]
    BY <1>1, <1>2, <1>3, <1>4, GrantedKeeps
  <2>2. inUse' = inUse \cup {w.hdr} /\ ret' = w.hdr /\ kicked' = kicked
    BY <1>2, <1>4 DEF Granted
  <2>3. w.hdr \in DOMAIN len' /\ w.hdr \notin inUse /\ FirstPlace(size) <= w.hdr
    BY <1>3, <1>4, <2>1, <2>2 DEF HeapInv
  <2>4. Heap!Alloc
    BY <1>1, <2>1, <2>2, <2>3, GrantedServes
  <2> QED
    BY <2>4
<1>5. CASE w.hdr = NULL
  <2>1. Refused(w.len) /\ SearchLeft(w.len)
    BY <1>2, <1>3, <1>5
  <2>2. \A b \in inUse : len'[b] = len[b]
    BY <2>1, RefusedKeeps
  <2>3. inUse' = inUse /\ ret' = NULL /\ kicked' = kicked
    BY <2>1 DEF Refused
  <2>4. Held' = Held
    BY <2>2, <2>3, HeldStays
  <2>5. \A a \in AllowedPlace[size][kicked] :
          a .. a + size - 1 \subseteq AllowedPlace[size][kicked] => ~Heap!Free(a .. a + size - 1)
    BY <1>1, <1>3, <1>5, RefusedRightly
  <2>6. Heap!Refuse
    BY <1>1, <2>3, <2>4, <2>5 DEF Heap!Refuse, Held, Sizes
  <2> QED
    BY <2>6
<1> QED
  BY <1>4, <1>5

\* A release.
LEMMA FreeReleases ==
  ASSUME HeapInv, NEW h \in inUse \ {Guard}, osal_mem_free(h)
  PROVE  Heap!Release
<1>1. len' = len /\ inUse' = inUse \ {h} /\ ret' = ret /\ kicked' = kicked
  BY DEF osal_mem_free
<1>2. Chain(len) /\ inUse \subseteq DOMAIN len \ {Last} /\ Guard \in inUse
  BY DEF HeapInv
<1>3. \A b \in inUse \ {Guard} : b # h => Bytes(b) # Bytes(h)
  <2> SUFFICES ASSUME NEW b \in inUse \ {Guard}, b # h PROVE Bytes(b) # Bytes(h)
    OBVIOUS
  <2>1. Bytes(b) \cap Bytes(h) = {}
    BY <1>2, Apart DEF Bytes
  <2>2. b \in Bytes(b)
    BY <1>2, InRegion DEF Bytes
  <2> QED
    BY <2>1, <2>2
<1>4. Held' = {Bytes(b) : b \in (inUse \ {Guard}) \ {h}}
  <2>1. Held' = {b .. b + len'[b] - 1 : b \in inUse' \ {Guard}}
    BY DEF Held, Bytes
  <2>2. inUse' \ {Guard} = (inUse \ {Guard}) \ {h}
    BY <1>1
  <2> QED
    BY <1>1, <2>1, <2>2 DEF Bytes
<1>5. Held' = Held \ {Bytes(h)}
  BY <1>3, <1>4 DEF Held
<1>6. Bytes(h) \in Held
  BY DEF Held
<1> QED
  BY <1>1, <1>5, <1>6 DEF Heap!Release, Held

\* The kick.
LEMMA KickKicks ==
  ASSUME HeapInv, Metrics, osal_mem_kick
  PROVE  Heap!Kick
<1>1. \A b \in inUse : len'[b] = len[b]
  BY KickKeeps
<1>2. ~kicked /\ kicked' = TRUE /\ inUse' = inUse /\ ret' = ret
  BY DEF osal_mem_kick
<1>3. Held' = Held
  BY <1>1, <1>2, HeldStays
<1> QED
  BY <1>2, <1>3 DEF Heap!Kick, Held

\* Requests get bytes that nobody else holds, and are refused only when no place,
\* of free neighbours taken together, is large enough (osal_mem_alloc,
\* osal_mem_free, osal_mem_kick).
THEOREM HeapKeepsPromise == MemSpec => ImplementsHeap
<1>1. MemInit => Heap!Init
  BY DEF MemInit, Heap!Init
<1>2. HeapInv /\ Metrics /\ [MemNext]_memVars
        => [Heap!Next]_<<{Bytes(b) : b \in inUse \ {Guard}}, kicked, ret>>
  <2> SUFFICES ASSUME HeapInv, Metrics, [MemNext]_memVars
               PROVE  [Heap!Next]_<<Held, kicked, ret>>
    BY DEF Held
  <2>1. ASSUME NEW n \in Request, osal_mem_alloc(n) PROVE Heap!Next
    BY <2>1, AllocServes DEF Heap!Next
  <2>2. ASSUME NEW h \in inUse \ {Guard}, osal_mem_free(h) PROVE Heap!Next
    BY <2>2, FreeReleases DEF Heap!Next
  <2>3. CASE osal_mem_kick
    BY <2>3, KickKicks DEF Heap!Next
  <2>4. CASE UNCHANGED memVars
    <3>1. Held' = Held
      BY <2>4 DEF memVars, Held, Bytes
    <3> QED
      BY <2>4, <3>1 DEF memVars
  <2> QED
    BY <2>1, <2>2, <2>3, <2>4 DEF MemNext
<1> QED
  BY <1>1, <1>2, HeapInvariant, PTL DEF MemSpec, ImplementsHeap, Heap!Spec

-----------------------------------------------------------------------------
(* All services *)

\* The timers' records, the clock's counts and the heap's chain of blocks and its
\* metrics are always well formed.
THEOREM ServicesWellFormed ==
  ASSUME PolledInTime
  PROVE  AllSpec => []WellFormed
<1>1. AllInit => Init /\ MemInit /\ ClockInit
  BY DEF AllInit
<1>2. [AllNext]_allVars => [Next]_vars
  BY DEF AllNext, allVars, InTimers, InMemory, InClock, InCalendar
<1>3. [AllNext]_allVars => [MemNext]_memVars
  BY DEF AllNext, allVars, InTimers, InMemory, InClock, InCalendar
<1>4. [AllNext]_allVars => [ClockNext]_clockVars
  BY DEF AllNext, allVars, InTimers, InMemory, InClock, InCalendar
<1>5. AllSpec => Spec /\ MemSpec /\ ClockSpec
  BY <1>1, <1>2, <1>3, <1>4, PTL DEF AllSpec, Spec, MemSpec, ClockSpec
<1>6. TypeOK /\ ClockTypeOK /\ MemTypeOK /\ Counted => WellFormed
  BY DEF WellFormed
<1> QED
  BY <1>5, <1>6, TypeCorrect, ClockIsTyped, BlocksInChain, BlocksAreCounted, PTL

==============================================================================
