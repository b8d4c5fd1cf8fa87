------------------------- MODULE DefaultLight_proofs -------------------------
(***************************************************************************)
(* Proofs about DefaultLight for any number of lights, any width of a      *)
(* uint16 and any longest time below its largest value: timers stay in     *)
(* range and count exactly the Updates since the command.                  *)
(***************************************************************************)
EXTENDS DefaultLight, TLAPS

\* A timer after an Update is one less, NoTimer, or what it was.
LEMMA TimerSteps ==
  ASSUME TypeOK, NEW l \in Light
  PROVE  /\ TimerAfter(l) \in (0 .. MAX_TIMEOUT) \cup {NoTimer}
         /\ TimerAfter(l) # NoTimer =>
              light_timer[l] # NoTimer /\ TimerAfter(l) = light_timer[l] - 1
  BY TimeoutAssumption DEF TypeOK, TimerAfter, TimeUp, NoTimer

\* The timer of a light never takes a value that is neither a time the command
\* accepts nor NoTimer, and the Updates counted never exceed the longest time.
THEOREM TypeAndTime == Spec => [](TypeOK /\ Punctual)
<1> USE TimeoutAssumption DEF NoTimer
<1>1. Init => TypeOK /\ Punctual
  <2> SUFFICES ASSUME Init PROVE TypeOK /\ Punctual
    OBVIOUS
  <2>1. Punctual
    BY DEF Init, Punctual
  <2>2. /\ light_timer \in [Light -> (0 .. MAX_TIMEOUT) \cup {NoTimer}]
        /\ asked \in [Light -> 0 .. MAX_TIMEOUT]
        /\ ago \in [Light -> 0 .. MAX_TIMEOUT]
        /\ startFailures \in Nat /\ timed \in Nat
    BY DEF Init
  <2>3. pin \in [Light -> BOOLEAN] /\ joined \in BOOLEAN /\ armed \in BOOLEAN /\ event \in BOOLEAN
    BY DEF Init
  <2> QED
    BY <2>1, <2>2, <2>3 DEF TypeOK
<1>2. TypeOK /\ Punctual /\ [Next]_vars => (TypeOK /\ Punctual)'
  <2> SUFFICES ASSUME TypeOK, Punctual, [Next]_vars PROVE TypeOK' /\ Punctual'
    OBVIOUS
  <2>1. ASSUME NEW n \in Number, NEW on \in BOOLEAN, Set(n, on)
        PROVE  TypeOK' /\ Punctual'
    BY <2>1 DEF Set, TypeOK, Punctual
  <2>2. ASSUME NEW n \in Number, NEW d \in Digits, NEW s \in Seconds, TurnOffLater(n, d, s)
        PROVE  TypeOK' /\ Punctual'
    <3> DEFINE t == TimeoutRead(n, d, s)
    <3>1. t \in 0 .. MAX_TIMEOUT /\ n \in Light
      <4>1. t \in Nat
        BY TypedAssumption DEF TimeoutRead, uint16
      <4> QED
        BY <2>2, <4>1 DEF TurnOffLater, Accepted
    <3> HIDE DEF t
    <3>2. /\ light_timer' = [light_timer EXCEPT ![n] = t]
          /\ asked' = [asked EXCEPT ![n] = t]
          /\ ago' = [ago EXCEPT ![n] = 0]
          /\ pin' = [pin EXCEPT ![n] = TRUE]
          /\ timed' = timed + 1
          /\ UNCHANGED <<joined, armed, event, startFailures>>
      BY <2>2 DEF TurnOffLater, t
    <3>3. TypeOK'
      BY <3>1, <3>2 DEF TypeOK
    <3>4. Punctual'
      BY <3>1, <3>2 DEF TypeOK, Punctual
    <3> QED
      BY <3>3, <3>4
  <2>3. ASSUME NEW ok \in BOOLEAN, Joined(ok)
        PROVE  TypeOK' /\ Punctual'
    BY <2>3 DEF Joined, StartTimer, TypeOK, Punctual
  <2>4. CASE TimerExpires
    BY <2>4 DEF TimerExpires, TypeOK, Punctual
  <2>5. ASSUME NEW ok \in BOOLEAN, DefaultLight_Update(ok)
        PROVE  TypeOK' /\ Punctual'
    <3>1. light_timer' = [l \in Light |-> TimerAfter(l)]
          /\ ago' = [l \in Light |-> IF TimerAfter(l) = NoTimer THEN 0 ELSE ago[l] + 1]
          /\ asked' = asked
      BY <2>5 DEF DefaultLight_Update
    <3>2. \A l \in Light :
            /\ light_timer'[l] \in (0 .. MAX_TIMEOUT) \cup {NoTimer}
            /\ ago'[l] \in 0 .. MAX_TIMEOUT
            /\ light_timer'[l] # NoTimer => ago'[l] + light_timer'[l] = asked'[l]
      BY <3>1, TimerSteps DEF TypeOK, Punctual
    <3>3. pin' \in [Light -> BOOLEAN]
      BY <2>5 DEF DefaultLight_Update
    <3>4. /\ armed' \in BOOLEAN /\ startFailures' \in Nat /\ event' \in BOOLEAN
          /\ UNCHANGED <<joined, asked, timed>>
      <4>1. armed' = ok /\ event' = FALSE /\ UNCHANGED <<joined, asked, timed>>
        BY <2>5 DEF DefaultLight_Update, StartTimer
      <4>2. startFailures' \in Nat
        BY <2>5 DEF DefaultLight_Update, StartTimer, TypeOK
      <4> QED
        BY <4>1, <4>2, Zenon
    <3>5. TypeOK'
      BY <3>1, <3>2, <3>3, <3>4 DEF TypeOK
    <3> QED
      BY <3>2, <3>5 DEF Punctual
  <2>6. CASE UNCHANGED vars
    BY <2>6 DEF vars, TypeOK, Punctual
  <2>7. ASSUME NEW n \in Number, Toggle(n)
        PROVE  TypeOK' /\ Punctual'
    <3>1. (~pin[Switched(n)]) \in BOOLEAN
      OBVIOUS
    <3> QED
      BY <2>1, <2>7, <3>1 DEF Toggle
  <2> QED
    BY <2>1, <2>2, <2>3, <2>4, <2>5, <2>6, <2>7 DEF Next, TurnOn, TurnOff
<1> QED
  BY <1>1, <1>2, PTL DEF Spec

\* Type correctness on its own: the arithmetic of the timers never leaves its
\* range, so that none comes to be 0xFFFF by counting.
THEOREM TypeCorrect == Spec => []TypeOK
BY TypeAndTime, PTL

=============================================================================
