------------------------------ MODULE MacRadio ------------------------------
(***************************************************************************)
(* The low level of the MAC (mac_tx.c, mac_rx.c, mac_rx_onoff.c,           *)
(* mac_radio.c, mac_sleep.c, mac_csp_tx.c and the interrupts of mac_mcu.c):*)
(* the radio is shared by frames that come in, the ACKs that it sends for  *)
(* them by itself, and one frame that goes out.  The interrupts of the     *)
(* radio do not nest; they come between any two steps of the thread, and   *)
(* late if the processor is held off (the flash stops it for 20 ms).       *)
(*                                                                         *)
(* A frame that comes in is cut up into what one interrupt reads.  Only    *)
(* unslotted CSMA is modelled, without promiscuous mode: the networks of   *)
(* the program have no beacons.  The upper level of the MAC, which comes   *)
(* as a library, sends one frame at a time, and wakes the radio before it  *)
(* turns the receiver on, changes the channel or resets.                   *)
(***************************************************************************)
EXTENDS Naturals, Sequences

CONSTANTS
  Frame,             \* frames that come in, of AnyFrame
  Flag,              \* the flags that keep the receiver on
  maxCsmaBackoffs,   \* macPib.maxCsmaBackoffs
  FifoSize           \* pieces of frames that the receive FIFO holds

VARIABLES
  m,      \* the variables of the low level and the registers of the radio:
          \*   tx      macTxActive
          \*   ackReq  txAckReq: the frame that goes out asks for an ACK
          \*   nb      number of backoffs
          \*   rx      macRxActive
          \*   outAck  macRxOutgoingAckFlag
          \*   state   pFuncRxState: which piece the next interrupt expects
          \*   inRx    rxIsrActiveFlag
          \*   reset   rxResetFlag
          \*   on      macRxOnFlag, and the receiver itself
          \*   enabled macRxEnableFlags
          \*   asleep  macSleepState is not AWAKE
          \*   moving  reqChannel is not macPhyChannel
          \*   csp     what the radio's command processor runs
          \*   cspz    how its program ended
          \*   mask    RFIRQM1, the interrupts that are let through
          \*   irq     RFIRQF1, those that are pending
          \*   fifo    the receive FIFO
          \*   over    it has overflowed, and takes nothing until it is flushed
          \*   err     RFERRF: the interrupt of the overflow is pending
          \*   coming  pieces of the frame in the air that have not arrived
          \*   asks    the radio will send an ACK for it
          \*   ack     the radio is sending an ACK
          \*   sound   history: no assertion of the code has failed
  step,   \* what the thread does next in macTxFrame or macRxDisable
  loop    \* the interrupt of the radio is in its loop over the FIFO

macVars == <<m, step, loop>>

Header == {"ack", "plain", "request"}
AnyFrame == {<<"ack">>} \cup ({"plain", "request"} \X {"body", "odd"} \X {"good", "bad"})

ASSUME RadioAssumption ==
  /\ Frame \subseteq AnyFrame
  /\ maxCsmaBackoffs \in Nat /\ FifoSize \in Nat

MacInit ==
  /\ m = [tx |-> "none", ackReq |-> FALSE, nb |-> 0, rx |-> "none", outAck |-> FALSE,
          state |-> "start", inRx |-> FALSE, reset |-> FALSE, on |-> FALSE, enabled |-> {},
          asleep |-> FALSE, moving |-> FALSE, csp |-> "none", cspz |-> "busy", mask |-> {},
          irq |-> {}, fifo |-> <<>>, over |-> FALSE, err |-> FALSE, coming |-> <<>>,
          asks |-> FALSE, ack |-> FALSE, sound |-> TRUE]
  /\ step = "idle" /\ loop = FALSE

Assert_(s, p) == [s EXCEPT !.sound = @ /\ p]

-----------------------------------------------------------------------------
(* The receiver on and off, and what may have to wait for that.            *)

\* A frame that is going out must not be cut off.
RxTxOff(s) ==
  [Assert_(s, s.csp \notin {"sending", "onair"}) EXCEPT !.on = FALSE, !.coming = <<>>, !.ack = FALSE]
FlushRxFifo(s) == [s EXCEPT !.fifo = <<>>, !.over = FALSE, !.coming = <<>>]

RxOn(s) == [s EXCEPT !.on = TRUE]
RxOff(s) == IF s.on THEN FlushRxFifo(RxTxOff(s)) ELSE s

RxIsPhysicallyActive(s) == s.rx = "started" \/ s.outAck
\* Mutant: a frame that waits for a clear channel is forgotten.
TxIsPhysicallyActiveListening(s) == s.tx = "listen"

TxIsPhysicallyActive(s) == s.tx \in {"go", "listen"}

RxOnRequest(s) == IF s.enabled # {} THEN RxOn(s) ELSE s
RxOffRequest(s) ==
  IF s.enabled = {} /\ ~RxIsPhysicallyActive(s) /\ ~TxIsPhysicallyActive(s) THEN RxOff(s) ELSE s

CancelAckTxDone(s) == [s EXCEPT !.mask = @ \ {"ackDone"}]

\* Clearing the program of the command processor raises its interrupt, which
\* is cleared.
CspPrep(s) ==
  [Assert_(s, "stop" \notin s.mask) EXCEPT
     !.csp = "none", !.cspz = "busy", !.irq = @ \ {"stop", "int"}]
CspArm(s) == [s EXCEPT !.mask = @ \cup {"stop", "int"}]
CspRun(s) == [s EXCEPT !.csp = "csma"]
CspGo(s) == CspRun(RxOn(CspArm(s)))

ForgetAck(s) == [CancelAckTxDone(s) EXCEPT !.outAck = FALSE]

StartQueuedFrame(s) ==
  LET t == Assert_(s, s.rx = "none" /\ ~s.outAck)
  IN IF t.tx = "queued" THEN CspGo(ForgetAck([t EXCEPT !.tx = "go"])) ELSE t

PostRxUpdates(s) == StartQueuedFrame(RxOffRequest(s))

\* Mutant: the frame that was queued behind the receive is not started.
HaltCleanupFinalStepAlone(s) ==
  FlushRxFifo([CancelAckTxDone(s) EXCEPT !.state = "start", !.rx = "none", !.outAck = FALSE])

HaltCleanupFinalStep(s) ==
  LET t == FlushRxFifo([CancelAckTxDone(s) EXCEPT !.state = "start"])
  IN IF s.rx # "none" \/ s.outAck
     THEN PostRxUpdates([t EXCEPT !.rx = "none", !.outAck = FALSE])
     ELSE t

\* In the middle of the interrupt that reads the FIFO the cleanup waits for
\* its end.
RxHaltCleanup(s) == IF s.inRx THEN [s EXCEPT !.reset = TRUE] ELSE HaltCleanupFinalStep(s)

RxHardDisable(s) == RxHaltCleanup(FlushRxFifo(RxTxOff([s EXCEPT !.enabled = {}])))

UpdateChannel(s) ==
  IF s.moving THEN RxOnRequest(RxHaltCleanup(RxOff([s EXCEPT !.moving = FALSE]))) ELSE s

-----------------------------------------------------------------------------
(* Transmit.                                                               *)

\* The upper level is told of each frame once.
TxComplete(s) == UpdateChannel(RxOffRequest([Assert_(s, s.tx # "none") EXCEPT !.tx = "none"]))

ChannelBusy(s) ==
  LET t == RxOffRequest([s EXCEPT !.tx = "busy", !.nb = @ + 1])
  IN IF t.nb > maxCsmaBackoffs THEN TxComplete(t) ELSE CspGo([CspPrep(t) EXCEPT !.tx = "go"])

RequestAckTimeout(s) ==
  [Assert_(s, "stop" \notin s.mask) EXCEPT
     !.csp = "timeout", !.cspz = "timeout", !.irq = @ \ {"stop"}, !.mask = @ \cup {"stop"}]

TxDone(s) ==
  IF s.tx # "go" THEN s
  ELSE IF s.ackReq THEN RequestAckTimeout([s EXCEPT !.tx = "listen"]) ELSE TxComplete(s)

\* An ACK has come, or something else, or nothing in time.
AckReceivedOrNot(s) ==
  IF s.tx # "listen" THEN s
  ELSE TxComplete([s EXCEPT !.csp = "none", !.irq = @ \cup {"stop"}, !.mask = @ \ {"stop"}])

IntIsr(s) == [Assert_(s, s.tx # "none") EXCEPT !.mask = @ \ {"int"}]
StopIsr(s) ==
  LET t == [s EXCEPT !.mask = @ \ {"stop"}]
  IN CASE t.cspz = "done" -> TxDone(t)
       [] t.cspz = "busy" -> ChannelBusy(t)
       [] OTHER -> AckReceivedOrNot(t)

ForceTxDoneIfPending(s) ==
  IF s.cspz = "done" /\ "stop" \in s.mask
  THEN LET t == [s EXCEPT !.mask = @ \ {"stop"}]
       IN TxDone(IF "int" \in t.mask THEN IntIsr(t) ELSE t)
  ELSE s

-----------------------------------------------------------------------------
(* Receive: one interrupt per piece.  read is what the FIFO gives, junk if *)
(* there is nothing in it; fate is what becomes of the frame: it is taken, *)
(* filtered, or there is no memory for it.                                 *)

RxDone(s) ==
  LET t == [(IF s.over THEN FlushRxFifo(s) ELSE s) EXCEPT !.rx = "none"]
  IN IF t.outAck THEN t ELSE PostRxUpdates(t)

AckTxDone(s) ==
  LET t == [s EXCEPT !.outAck = FALSE] IN IF t.rx = "none" THEN PostRxUpdates(t) ELSE t

\* The pieces in the FIFO are those that the interrupt expects.
Expected ==
  [start |-> Header, body |-> {"body", "odd"}, fcs |-> {"good", "bad"},
   skipBody |-> {"body", "odd"}, skipFcs |-> {"good", "bad"}]

Read(s, junk) ==
  [piece |-> IF s.fifo = <<>> THEN junk ELSE Head(s.fifo),
   after |-> [Assert_(s, s.fifo = <<>> \/ Head(s.fifo) \in Expected[s.state]) EXCEPT
                !.fifo = IF @ = <<>> THEN @ ELSE Tail(@)]]

\* A buffer is there: an ACK is asked for, or not, and the radio sends it.
Take(s, header) ==
  IF header = "request"
  THEN [s EXCEPT !.state = "body", !.outAck = TRUE, !.irq = @ \ {"ackDone"}, !.mask = @ \cup {"ackDone"}]
  ELSE [s EXCEPT !.state = "body", !.outAck = FALSE]

StartIsr(s, junk, fate) ==
  LET a == [Assert_(s, s.rx = "none") EXCEPT !.rx = "started"]
      b == ForgetAck(ForceTxDoneIfPending(a))
      r == Read(b, junk)
      c == AckReceivedOrNot(r.after)
      d == CASE r.piece = "ack" -> RxDone(c)
             [] r.piece # "ack" /\ fate = "take" -> Take(c, r.piece)
             [] r.piece # "ack" /\ fate = "filter" -> [c EXCEPT !.state = "skipBody"]
             [] OTHER -> [c EXCEPT !.state = "skipBody", !.asks = FALSE]
  IN IF a.on /\ (a.over \/ a.fifo # <<>>) THEN d ELSE PostRxUpdates([a EXCEPT !.rx = "none"])

\* Addresses, security header and payload; a security header that is refused
\* ends the receive.
BodyIsr(s, junk) ==
  LET r == Read(s, junk)
  IN IF r.piece = "odd" THEN RxHaltCleanup([r.after EXCEPT !.asks = FALSE])
     ELSE [r.after EXCEPT !.state = "fcs"]

FcsIsr(s, junk) ==
  LET r == Read(s, junk)
      t == IF r.piece = "good" THEN RxOffRequest([r.after EXCEPT !.rx = "done"]) ELSE ForgetAck(r.after)
  IN RxDone([t EXCEPT !.state = "start"])

DiscardIsr(s, junk) ==
  IF s.state = "skipBody" THEN [Read(s, junk).after EXCEPT !.state = "skipFcs"]
  ELSE RxDone([Read(s, junk).after EXCEPT !.state = "start"])

RxThresholdIsr(s, junk, fate) ==
  LET a == [s EXCEPT !.inRx = TRUE]
      b == CASE a.state = "start" -> StartIsr(a, junk, fate)
             [] a.state = "body" -> BodyIsr(a, junk)
             [] a.state = "fcs" -> FcsIsr(a, junk)
             [] OTHER -> DiscardIsr(a, junk)
      c == [b EXCEPT !.inRx = FALSE]
  IN IF c.reset THEN [HaltCleanupFinalStep(c) EXCEPT !.reset = FALSE] ELSE c

-----------------------------------------------------------------------------
(* The interrupts.  That of the overflow goes first.                       *)

Fifop == m.fifo # <<>> \/ m.over
Pending == m.irq \cap m.mask

RfIsr ==
  /\ ~loop /\ ~m.err /\ (Pending # {} \/ Fifop)
  /\ m' = CASE "int" \in Pending -> IntIsr([m EXCEPT !.irq = @ \ {"int"}])
            [] "int" \notin Pending /\ "stop" \in Pending -> StopIsr([m EXCEPT !.irq = @ \ {"stop"}])
            [] Pending = {"ackDone"} -> AckTxDone([m EXCEPT !.mask = @ \ {"ackDone"}])
            [] OTHER -> m
  /\ loop' = Fifop'
  /\ UNCHANGED step

RfIsrLoop ==
  /\ loop
  /\ \E junk \in Expected[m.state], fate \in {"take", "filter", "full"} :
       m' = RxThresholdIsr(m, junk, fate)
  /\ loop' = Fifop'
  /\ UNCHANGED step

RfErrIsr ==
  /\ ~loop /\ m.err
  /\ m' = RxHaltCleanup([m EXCEPT !.err = FALSE])
  /\ UNCHANGED <<step, loop>>

-----------------------------------------------------------------------------
(* The radio, which does not wait for the interrupts.                      *)

Radio(A) == A /\ UNCHANGED <<step, loop>>

\* A frame is heard while the radio listens.
Arrive ==
  /\ m.on /\ m.coming = <<>> /\ ~m.ack /\ ~m.over /\ m.csp \notin {"sending", "onair"}
  /\ \E f \in Frame : m' = [m EXCEPT !.coming = f, !.asks = (Head(f) = "request")]

\* The last piece of a good frame starts the ACK.
Piece ==
  /\ m.coming # <<>>
  /\ m' = IF Len(m.fifo) = FifoSize
          THEN [m EXCEPT !.over = TRUE, !.err = TRUE, !.coming = <<>>]
          ELSE [m EXCEPT !.fifo = Append(@, Head(m.coming)), !.coming = Tail(@),
                         !.ack = (m.coming = <<"good">> /\ m.asks),
                         !.asks = @ /\ Len(m.coming) > 1]

AckSent == m.ack /\ m' = [m EXCEPT !.ack = FALSE, !.irq = @ \cup {"ackDone"}]

\* The channel is clear only if nobody else is sending; the program waits for
\* the receiver to be on.
Stops(s, code) == [s EXCEPT !.csp = "none", !.cspz = code, !.irq = @ \cup {"stop"}]

Cca ==
  /\ m.csp = "csma" /\ m.on /\ ~m.ack
  /\ \/ m' = Stops(m, "busy")
     \/ m.coming = <<>> /\ m' = [m EXCEPT !.csp = "sending"]

Sfd == m.csp = "sending" /\ m' = [m EXCEPT !.csp = "onair", !.irq = @ \cup {"int"}]
Sent == m.csp = "onair" /\ m' = Stops(m, "done")
AckTimeout == m.csp = "timeout" /\ m' = Stops(m, "timeout")

-----------------------------------------------------------------------------
(* The thread.                                                             *)

Thread(A) == ~loop /\ A /\ UNCHANGED loop
Calls(A) == Thread(step = "idle" /\ A)

TxFrame(ackReq) ==
  /\ m.tx = "none"
  /\ LET t == [m EXCEPT !.tx = "initialize", !.ackReq = ackReq, !.nb = 0]
     IN IF m.asleep THEN m' = TxComplete(t) /\ UNCHANGED step
        ELSE m' = t /\ step' = "prepare"

Prepare == step = "prepare" /\ m' = CspPrep(m) /\ step' = "decide"

GoOrQueue ==
  /\ step = "decide"
  /\ IF m.rx = "none" /\ ~m.outAck
     THEN m' = [m EXCEPT !.tx = "go"] /\ step' = "go"
     ELSE m' = [m EXCEPT !.tx = "queued"] /\ step' = "idle"

Go == step = "go" /\ m' = ForgetAck(m) /\ step' = "arm"
Arm == step = "arm" /\ m' = CspArm(m) /\ step' = "turnOn"
TurnOn == step = "turnOn" /\ m' = RxOn(m) /\ step' = "run"
Run == step = "run" /\ m' = CspRun(m) /\ step' = "idle"

MayTurnOff == step = "off" /\ m' = RxOffRequest(m) /\ step' = "idle"

RxEnable(f) == ~m.asleep /\ m' = RxOn([m EXCEPT !.enabled = @ \cup {f}]) /\ UNCHANGED step
RxSoftEnable(f) == m' = [m EXCEPT !.enabled = @ \cup {f}] /\ UNCHANGED step
RxDisable(f) == m' = [m EXCEPT !.enabled = @ \ {f}] /\ step' = "off"

\* Another channel, or the same again.
SetChannel(other) ==
  /\ ~m.asleep
  /\ LET t == [m EXCEPT !.moving = other]
     IN m' = IF m.tx = "none" THEN UpdateChannel(t) ELSE t
  /\ UNCHANGED step

Sleep ==
  /\ ~m.asleep /\ m.rx = "none" /\ ~m.outAck /\ m.tx = "none" /\ m.enabled = {}
  /\ m' = [RxOff(m) EXCEPT !.asleep = TRUE]
  /\ UNCHANGED step

WakeUp == m.asleep /\ m' = RxOnRequest([m EXCEPT !.asleep = FALSE]) /\ UNCHANGED step

\* macLowLevelReset, between two frames.
LowLevelReset ==
  /\ ~m.asleep /\ m.tx = "none"
  /\ m' = RxHardDisable(m)
  /\ UNCHANGED step

GoesOn == Thread(Prepare \/ GoOrQueue \/ Go \/ Arm \/ TurnOn \/ Run \/ MayTurnOff)

MacNext ==
  \/ RfIsr \/ RfIsrLoop \/ RfErrIsr
  \/ Radio(Arrive) \/ Radio(Piece) \/ Radio(AckSent) \/ Radio(Cca) \/ Radio(Sfd) \/ Radio(Sent)
  \/ Radio(AckTimeout)
  \/ GoesOn
  \/ \E ackReq \in BOOLEAN : Calls(TxFrame(ackReq))
  \/ \E f \in Flag : Calls(RxEnable(f)) \/ Calls(RxSoftEnable(f)) \/ Calls(RxDisable(f))
  \/ \E other \in BOOLEAN : Calls(SetChannel(other))
  \/ Calls(Sleep) \/ Calls(WakeUp) \/ Calls(LowLevelReset)

MacSpec == MacInit /\ [][MacNext]_macVars

RadioGoesOn == Radio(Piece \/ AckSent \/ Cca \/ Sfd \/ Sent \/ AckTimeout)

\* The thread is run, the radio does what it was told, and interrupts are
\* served in the end.  The last is weak fairness of the interrupts, which are
\* enabled as long as one is due.
InterruptDue == loop \/ m.err \/ Fifop \/ Pending # {}
InterruptsServed == []<>~InterruptDue \/ []<><<RfIsr \/ RfIsrLoop \/ RfErrIsr>>_macVars

MacFairSpec == MacSpec /\ WF_macVars(GoesOn) /\ WF_macVars(RadioGoesOn) /\ InterruptsServed

-----------------------------------------------------------------------------
\* The variables are of their types; between steps no interrupt is in the middle
\* of the FIFO, and the states that last only inside a handler are over.
MacTypeOK ==
  /\ m.tx \in {"none", "initialize", "queued", "go", "listen"} /\ m.ackReq \in BOOLEAN
  /\ m.nb \in 0 .. maxCsmaBackoffs + 1 /\ m.rx \in {"none", "started"} /\ m.outAck \in BOOLEAN
  /\ m.state \in DOMAIN Expected /\ ~m.inRx /\ ~m.reset
  /\ m.on \in BOOLEAN /\ m.enabled \subseteq Flag /\ m.asleep \in BOOLEAN /\ m.moving \in BOOLEAN
  /\ m.csp \in {"none", "csma", "sending", "onair", "timeout"}
  /\ m.cspz \in {"busy", "done", "timeout"}
  /\ m.mask \subseteq {"int", "stop", "ackDone"} /\ m.irq \subseteq {"int", "stop", "ackDone"}
  /\ Len(m.fifo) <= FifoSize /\ {m.over, m.err, m.asks, m.ack, m.sound} \subseteq BOOLEAN
  /\ step \in {"idle", "prepare", "decide", "go", "arm", "turnOn", "run", "off"} /\ loop \in BOOLEAN

\* Nothing of the radio has still to be dealt with.
Quiet == step = "idle" /\ ~loop /\ ~m.err /\ ~Fifop /\ Pending = {} /\ m.coming = <<>> /\ ~m.ack

\* With the variables of their types, no assertion of the code fails (a frame that
\* goes out is not cut off, the FIFO holds the piece that the interrupt expects, no
\* frame is completed twice: rxStartIsr, macTxStartQueuedFrame, cspPrep...), the
\* receiver is not turned off under a frame that waits for a clear channel or goes
\* out, and it is off in sleep, and in the end if nothing wants it on
\* (macRxOffRequest).
RadioSafe ==
  /\ MacTypeOK
  /\ m.sound
  /\ m.csp \in {"csma", "sending", "onair"} => m.on
  /\ m.asleep => ~m.on
  /\ Quiet /\ m.tx = "none" /\ m.rx = "none" /\ ~m.outAck /\ m.enabled = {} => ~m.on

\* The receive interrupt came after the end of the ACK that it asked to be told of,
\* so that macRxOutgoingAckFlag stays set until the next receive.
AckMissed == Quiet /\ m.rx = "none" /\ m.outAck
\* When no more frames come in, the one that goes out is completed (txComplete),
\* though it may have been queued behind a receive, except after AckMissed.
FramesCompleted == <>[](m.coming = <<>>) => []<>(m.tx = "none" \/ AckMissed)

=============================================================================
