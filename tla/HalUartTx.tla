----------------------------- MODULE HalUartTx -----------------------------
(***************************************************************************)
(* The transmitter of the UART driver (_hal_uart_dma.c).  Writes fill one  *)
(* buffer while the DMA reads the other one; HalUARTPollDMA exchanges them *)
(* and starts the DMA, whose interrupt tells that it is through.  At that  *)
(* moment the last byte is in the register DBUF and the one before it      *)
(* still on the line: the driver waits for the time of a character before  *)
(* it starts the DMA again, which puts the next byte into DBUF.            *)
(*                                                                         *)
(* Bytes are numbered in the order in which they are accepted.  Writes are *)
(* steps of the same thread as polls, so that the branch of                *)
(* HalUARTWriteDMA for a txSel that has changed is never taken.  A write   *)
(* that is refused changes nothing.                                        *)
(***************************************************************************)
EXTENDS Integers

CONSTANTS
  TX_MAX,      \* HAL_UART_DMA_TX_MAX
  CharTicks,   \* the time of a character, in ticks of the sleep timer
  TickMod      \* the byte ST0 wraps at this number, 256 in the code; bound:
               \* polls are less than that many ticks apart

ASSUME TransmitterAssumption ==
  TX_MAX \in Nat \ {0} /\ CharTicks \in Nat \ {0} /\ TickMod \in Nat \ {0}

Buffer == {0, 1}
Byte == 0 .. 2 * TX_MAX + 2      \* more than are under way at any time
None == -1
txTick == CharTicks

VARIABLES
  txBuf, txIdx, txSel,
  txDMAPending, txShdwValid,
  since,     \* ST0 - txShdw, while that is valid
  txMT,      \* the callback is to be told that a buffer is empty
  txPc,      \* where the thread is
  write,     \* the write under way: its length, buffer and place
  uart,      \* the hardware
  line,      \* the last byte that left
  accepted,  \* the last byte that a write put in
  quiet      \* ticks since the last poll

txVars == <<txBuf, txIdx, txSel, txDMAPending, txShdwValid, since, txMT, txPc, write, uart,
            line, accepted, quiet>>

Empty == [i \in 0 .. TX_MAX - 1 |-> 0]
After(b) == (b + 1) % (2 * TX_MAX + 3)
NoWrite == [len |-> 0, txSel |-> 0, txIdx |-> 0]

\* The DMA channel with the buffer it reads, its interrupt flag, DBUF, and the
\* byte on the line with the ticks it still takes.
Idle == [armed |-> FALSE, src |-> 0, pos |-> 0, len |-> 0, irq |-> FALSE,
         dbuf |-> None, shift |-> None, left |-> 0]

TxInit ==
  /\ txBuf = [b \in Buffer |-> Empty]
  /\ txIdx = [b \in Buffer |-> 0] /\ txSel = 0
  /\ txDMAPending = FALSE /\ txShdwValid = FALSE /\ since = 0 /\ txMT = FALSE
  /\ txPc = "idle" /\ write = NoWrite
  /\ uart = Idle
  /\ line = 0 /\ accepted = 0 /\ quiet = 0


-----------------------------------------------------------------------------
(* The hardware *)

\* The DMA puts the next byte into DBUF; the last one raises the interrupt.
Transfer(u) ==
  [u EXCEPT !.dbuf = txBuf[u.src][u.pos], !.pos = @ + 1,
            !.armed = u.pos + 1 < u.len, !.irq = (u.pos + 1 = u.len)]

\* A byte in DBUF goes onto a line that is free, which triggers the DMA.
Load(u) ==
  IF u.shift = None /\ u.dbuf # None
  THEN LET v == [u EXCEPT !.shift = u.dbuf, !.dbuf = None, !.left = CharTicks]
       IN IF v.armed THEN Transfer(v) ELSE v
  ELSE u

\* A tick of the sleep timer.
TxTick ==
  /\ quiet < TickMod - 1
  /\ since' = IF txShdwValid THEN (since + 1) % TickMod ELSE since
  /\ quiet' = quiet + 1
  /\ IF uart.shift # None /\ uart.left = 1
     THEN line' = uart.shift /\ uart' = Load([uart EXCEPT !.shift = None, !.left = 0])
     ELSE line' = line /\ uart' = [uart EXCEPT !.left = IF @ > 0 THEN @ - 1 ELSE 0]
  /\ UNCHANGED <<txBuf, txIdx, txSel, txDMAPending, txShdwValid, txMT, txPc, write, accepted>>

\* What HalUARTIsrDMA does.  What was in the other buffer does not matter any
\* more.
TxDone ==
  /\ txBuf' = [txBuf EXCEPT ![1 - txSel] = Empty]
  /\ txIdx' = [txIdx EXCEPT ![1 - txSel] = 0]
  /\ txMT' = TRUE
  /\ txShdwValid' = TRUE /\ since' = 0
  /\ txDMAPending' = (txDMAPending \/ txIdx[txSel] # 0)
  /\ uart' = [uart EXCEPT !.irq = FALSE]

\* The interrupt comes between any two steps of the thread.
HalUARTIsrDMA ==
  /\ uart.irq
  /\ TxDone
  /\ UNCHANGED <<txSel, txPc, write, line, accepted, quiet>>

-----------------------------------------------------------------------------
(* HalUARTWriteDMA *)

\* All or none; then txSel and txIdx are read.
BeginWrite(len) ==
  /\ txPc = "idle"
  /\ len + txIdx[txSel] <= TX_MAX
  /\ write' = [len |-> len, txSel |-> txSel, txIdx |-> txIdx[txSel]]
  /\ txPc' = "write"
  /\ UNCHANGED <<txBuf, txIdx, txSel, txDMAPending, txShdwValid, since, txMT, uart, line,
                 accepted, quiet>>

\* The DMA is through with the other buffer.
Sends == txIdx[1 - write.txSel] = 0

\* The bytes are copied, and txIdx is written in a critical section.
EndWrite ==
  /\ txPc = "write"
  /\ txBuf' = [txBuf EXCEPT ![write.txSel] = [i \in 0 .. TX_MAX - 1 |->
       IF i \in write.txIdx .. write.txIdx + write.len - 1
       THEN After(accepted + i - write.txIdx) ELSE @[i]]]
  /\ accepted' = After(accepted + write.len - 1)
  /\ txIdx' = [txIdx EXCEPT ![write.txSel] = write.txIdx + write.len]
  /\ txDMAPending' = (txDMAPending \/ Sends)
  /\ txPc' = "idle" /\ write' = NoWrite
  /\ UNCHANGED <<txSel, txShdwValid, since, txMT, uart, line, quiet>>

-----------------------------------------------------------------------------
(* HalUARTPollDMA *)

\* Mutant: off by one.
SpacedEarly == since + 1 >= txTick

\* Mutant: as if no tick of the sleep timer could be missed.
SpacedExactly == since = txTick

\* DBUF can be overwritten.
Spaced == since > txTick

PollShadow ==
  /\ txPc = "idle"
  /\ txMT' = FALSE
  /\ txShdwValid' = (txShdwValid /\ ~Spaced)
  /\ since' = IF txShdwValid' THEN since ELSE 0
  /\ txPc' = "fire"
  /\ UNCHANGED <<txBuf, txIdx, txSel, txDMAPending, write, uart, line, accepted, quiet>>

\* The DMA is set up, armed and triggered, and the buffers exchange their roles.
Fire ==
  /\ txPc = "fire"
  /\ txDMAPending /\ ~txShdwValid
  /\ txDMAPending' = FALSE
  /\ uart' = Load(Transfer([uart EXCEPT !.armed = TRUE, !.src = txSel, !.pos = 0,
                                        !.len = txIdx[txSel], !.irq = FALSE]))
  /\ txSel' = 1 - txSel
  /\ txPc' = "idle" /\ quiet' = 0
  /\ UNCHANGED <<txBuf, txIdx, txShdwValid, since, txMT, write, line, accepted>>

\* No DMA is at work, and none has just ended.
IdleDma == ~uart.armed /\ ~uart.irq

\* Otherwise, if there is something to send and no DMA, the poll does the work
\* of the interrupt: it starts the waiting time anew.
Recover ==
  /\ txPc = "fire"
  /\ ~(txDMAPending /\ ~txShdwValid)
  /\ IF txIdx[txSel] # 0 /\ IdleDma
     THEN TxDone
     ELSE UNCHANGED <<txBuf, txIdx, txMT, txShdwValid, since, txDMAPending, uart>>
  /\ txPc' = "idle" /\ quiet' = 0
  /\ UNCHANGED <<txSel, write, line, accepted>>

TxThread ==
  \/ EndWrite \/ PollShadow \/ Fire \/ Recover
  \/ \E len \in 1 .. TX_MAX : BeginWrite(len)

TxNext == TxTick \/ HalUARTIsrDMA \/ TxThread

TxSpec == TxInit /\ [][TxNext]_txVars

\* The thread polls, again and again, and whatever else it does has an end;
\* the interrupt comes and time goes by.
TxFairSpec ==
  /\ TxSpec
  /\ WF_txVars(EndWrite \/ Fire \/ Recover)
  /\ SF_txVars(PollShadow)
  /\ WF_txVars(HalUARTIsrDMA)
  /\ WF_txVars(TxTick)

-----------------------------------------------------------------------------
\* Buffers and DMA keep to their bounds, a DMA never reads the buffer that
\* writes fill, and a time is waited for only while no DMA is at work: "while
\* the shadow was valid, DMA ISR cannot be triggered".
TxTypeOK ==
  /\ txIdx \in [Buffer -> 0 .. TX_MAX] /\ txSel \in Buffer
  /\ txBuf \in [Buffer -> [0 .. TX_MAX - 1 -> Byte]]
  /\ uart.pos <= uart.len
  /\ uart.armed \/ uart.irq => uart.src # txSel /\ txIdx[uart.src] = uart.len
  /\ txShdwValid => ~uart.armed /\ ~uart.irq

\* Bytes leave in the order in which they were accepted, none twice, none left
\* out, none overwritten in its buffer or in DBUF.
BytesInOrder == [][line' # line => line' = After(line)]_line

\* Every byte of a write that was accepted leaves in the end, provided polls
\* are not always less than a character's time apart: each poll that finds
\* data waiting starts the waiting time anew (Recover).
EverythingSent ==
  []<>(txPc = "idle" /\ quiet > txTick) =>
    []<>(line = accepted) \/ []<><<line' # line>>_txVars

=============================================================================
