---------------------------- MODULE DefaultLight ----------------------------
(***************************************************************************)
(* The lights of one light device and their switch-off timers              *)
(* (DefaultLight.c, DoorLight.c, RestroomLight.c), with what drives them:  *)
(* SmartHomeApp_TIMER_UPDATE_EVT, raised by an OSAL timer that the handler *)
(* of the event starts again, and that joining the network starts first    *)
(* (SmartHomeApp.c 454-472, 505-516).                                      *)
(***************************************************************************)
EXTENDS Naturals

CONSTANTS
  LIGHT_TOTAL_NUM,   \* lights per device: 3 in the code
  UINT16_MOD,        \* 65536 in the code
  MAX_TIMEOUT,       \* the longest time to switch off after: 3000 in the code
  Number,            \* the light numbers users type, any uint16
  Seconds,           \* the times users type, any decimal number
  Digits,            \* how many digits they type a light number with
  EndDevice,         \* ZSTACK_END_DEVICE_BUILD
  MaxStartFailures,  \* bound: osal_start_timerEx finds no memory
  MaxTimed           \* bound: TurnOffLater commands

Light == 0 .. LIGHT_TOTAL_NUM - 1
uint16 == 0 .. UINT16_MOD - 1
NoTimer == UINT16_MOD - 1   \* 0xFFFF

ASSUME LightAssumption == LIGHT_TOTAL_NUM \in Nat \ {0}
ASSUME TimeoutAssumption == MAX_TIMEOUT \in Nat /\ UINT16_MOD \in Nat /\ MAX_TIMEOUT < NoTimer
ASSUME TypedAssumption ==
  /\ Number \subseteq uint16 /\ Seconds \subseteq Nat /\ Digits \subseteq Nat \ {0}
  /\ EndDevice \in BOOLEAN /\ MaxStartFailures \in Nat /\ MaxTimed \in Nat

VARIABLES
  pin,            \* the lights that are on
  light_timer,    \* Updates until light l is switched off, or NoTimer
  joined,         \* the device has been in the network since the reset
  armed,          \* the OSAL timer is running
  event,          \* SmartHomeApp_TIMER_UPDATE_EVT is set
  asked,          \* history: what the last accepted TurnOffLater for l asked for
  ago,            \* history: Updates since then, while the light's timer runs
  startFailures,  \* history
  timed           \* history

vars == <<pin, light_timer, joined, armed, event, asked, ago, startFailures, timed>>

Init ==
  /\ pin = [l \in Light |-> FALSE]
  /\ light_timer = [l \in Light |-> NoTimer]
  /\ joined = FALSE
  /\ armed = FALSE
  /\ event = FALSE
  /\ asked = [l \in Light |-> 0]
  /\ ago = [l \in Light |-> 0]
  /\ startFailures = 0
  /\ timed = 0

-----------------------------------------------------------------------------
(* Commands *)

\* The switch of turnOnLight, turnOffLight and toggleLight: any number but
\* those of the other lights is light 0.
Switched(n) == IF n \in Light THEN n ELSE 0

Set(n, on) ==
  /\ pin' = [pin EXCEPT ![Switched(n)] = on]
  /\ UNCHANGED <<light_timer, joined, armed, event, asked, ago, startFailures, timed>>

\* None of these touches the timer of the light.
TurnOn(n) == Set(n, TRUE)
TurnOff(n) == Set(n, FALSE)
Toggle(n) == Set(n, ~pin[Switched(n)])

\* The time is read two characters after the start of the light number n, as
\* if that had one digit.  With two digits it starts at the blank between them
\* and reads as zero; with more it starts inside the light number, which
\* begins with zeros if it is that of a light.  A time wraps like a uint16.
TimeoutRead(n, digits, seconds) ==
  CASE digits = 1 -> seconds % UINT16_MOD
    [] digits = 2 -> 0
    [] digits > 2 -> n

\* Mutant: the time is not limited.
AcceptedAnyTime(n, timeout) == n \in Light

\* "lightNum > 2 || timeout > 3000" is refused.
Accepted(n, timeout) == n \in Light /\ timeout <= MAX_TIMEOUT

TurnOffLater(n, digits, seconds) ==
  LET timeout == TimeoutRead(n, digits, seconds)
  IN /\ timed < MaxTimed
     /\ Accepted(n, timeout)
     /\ pin' = [pin EXCEPT ![n] = TRUE]
     /\ light_timer' = [light_timer EXCEPT ![n] = timeout]
     /\ asked' = [asked EXCEPT ![n] = timeout]
     /\ ago' = [ago EXCEPT ![n] = 0]
     /\ timed' = timed + 1
     /\ UNCHANGED <<joined, armed, event, startFailures>>

-----------------------------------------------------------------------------
(* The clock *)

\* Mutant: only joining for the first time starts it.
StartTimerOnce(ok) ==
  /\ ok
  /\ armed' = (armed \/ ~joined)
  /\ UNCHANGED startFailures

\* osal_start_timerEx: a timer that is running is only set again; a new one
\* takes memory, of which there may be none.
StartTimer(ok) ==
  /\ ~ok => ~armed /\ startFailures < MaxStartFailures
  /\ armed' = ok
  /\ startFailures' = IF ok THEN startFailures ELSE startFailures + 1

\* ZDO_STATE_CHANGE to one of the three states of a device in the network.
Joined(ok) ==
  /\ ~EndDevice
  /\ joined' = TRUE
  /\ StartTimer(ok)
  /\ UNCHANGED <<pin, light_timer, event, asked, ago, timed>>

\* osalTimerUpdate, a second after the start.
TimerExpires ==
  /\ armed
  /\ armed' = FALSE
  /\ event' = TRUE
  /\ UNCHANGED <<pin, light_timer, joined, asked, ago, startFailures, timed>>

\* The lights the loop of DefaultLight_Update switches off.
TimeUp == {l \in Light : light_timer[l] = 0}

\* Mutant: the first step is taken twice, as if the time had been one less.
TimerAfterEarly(l) ==
  IF l \in TimeUp THEN NoTimer
  ELSE IF ago[l] = 0 /\ light_timer[l] \in 2 .. MAX_TIMEOUT THEN light_timer[l] - 2
  ELSE IF light_timer[l] = NoTimer THEN NoTimer ELSE light_timer[l] - 1

\* The timer of light l after an Update.
TimerAfter(l) ==
  IF l \in TimeUp THEN NoTimer
  ELSE IF light_timer[l] = NoTimer THEN NoTimer
  ELSE light_timer[l] - 1

\* SmartHomeApp_ProcessEvent on SmartHomeApp_TIMER_UPDATE_EVT:
\* DefaultLight_Update, then the timer is started again (accepted: ok).
DefaultLight_Update(ok) ==
  /\ event
  /\ event' = FALSE
  /\ pin' = [l \in Light |-> pin[l] /\ l \notin TimeUp]
  /\ light_timer' = [l \in Light |-> TimerAfter(l)]
  /\ ago' = [l \in Light |-> IF TimerAfter(l) = NoTimer THEN 0 ELSE ago[l] + 1]
  /\ StartTimer(ok)
  /\ UNCHANGED <<joined, asked, timed>>

Next ==
  \/ \E n \in Number : TurnOn(n) \/ TurnOff(n) \/ Toggle(n)
  \/ \E n \in Number, d \in Digits, s \in Seconds : TurnOffLater(n, d, s)
  \/ \E ok \in BOOLEAN : Joined(ok)
  \/ TimerExpires
  \/ \E ok \in BOOLEAN : DefaultLight_Update(ok)

Spec == Init /\ [][Next]_vars

\* The device joins the network, the OSAL timer expires, and the task loop
\* comes to its event.
FairSpec ==
  /\ Spec
  /\ WF_vars(~joined /\ \E ok \in BOOLEAN : Joined(ok))
  /\ WF_vars(TimerExpires)
  /\ WF_vars(\E ok \in BOOLEAN : DefaultLight_Update(ok))

-----------------------------------------------------------------------------
(* Properties *)

\* Every variable is of its type: a light's timer is NoTimer or a time the
\* command may ask for, which 0xFFFF is not.
TypeOK ==
  /\ pin \in [Light -> BOOLEAN]
  /\ light_timer \in [Light -> (0 .. MAX_TIMEOUT) \cup {NoTimer}]
  /\ joined \in BOOLEAN
  /\ armed \in BOOLEAN
  /\ event \in BOOLEAN
  /\ asked \in [Light -> 0 .. MAX_TIMEOUT]
  /\ ago \in [Light -> 0 .. MAX_TIMEOUT]
  /\ startFailures \in Nat
  /\ timed \in Nat

\* A light's timer has been counting since the last TurnOffLater for it, one
\* less per Update, whatever other commands, joins and Updates come in between:
\* the Update that switches the light off is the one after as many as asked for.
Punctual ==
  \A l \in Light : light_timer[l] # NoTimer => ago[l] + light_timer[l] = asked[l]

\* A light whose timer runs goes off some day, unless the clock of the device
\* was stopped by osal_start_timerEx finding no memory.
LightsOut ==
  \A l \in Light : light_timer[l] # NoTimer ~> ~pin[l] \/ startFailures > 0

=============================================================================
