------------------------- MODULE SmartHomeSend_proofs -------------------------
(***************************************************************************)
(* Proofs about the two ends of sending.  SmartHomeSend, for every set of  *)
(* names and addresses, every size of the cache and of the transaction     *)
(* counter: type correctness, and that the number remembered for the last  *)
(* command identifies it until the counter wraps.  MacRadio, for every set *)
(* of frames and flags, every number of backoffs and size of the FIFO: no  *)
(* assertion of the code fails, and the receiver is on and off when it     *)
(* should be.                                                              *)
(***************************************************************************)
EXTENDS SmartHomeSend, MacRadio, SequenceTheorems, TLAPS

-----------------------------------------------------------------------------
(* The operations on the name/address table *)

\* The index stays a slot number.
LEMMA NextIdxInSlot ==
  ASSUME NEW slot \in Slot
  PROVE  /\ NextIdx(slot) \in Slot
         /\ NextIdx(slot) = IF slot = NAME_ADDR_CACHE_SIZE - 1 THEN 0 ELSE slot + 1
  BY SizeAssumption DEF NextIdx, Slot

\* Deleting by address, or by address or name, gives a table.
LEMMA TableClosed ==
  ASSUME NEW t \in Table, NEW n \in Name, NEW a \in Addr, NEW i \in Slot
  PROVE  /\ Deleted(t, a) \in Table
         /\ WithoutMatch(t, n, a) \in Table
         /\ Put(t, i, n, a) \in Table
  BY DEF Table, Entry, Deleted, WithoutMatch, Put

\* A look-up gives a unicast address or the broadcast address.
LEMMA GetAddrType ==
  ASSUME NEW t \in Table, NEW n
  PROVE  GetAddr(t, n) \in Addr \cup {Broadcast}
<1>1. \A s \in FirstMatch(t, n) : t[s].addr \in Addr
  BY DEF FirstMatch, Table, Entry
<1>2. FirstMatch(t, n) # {} => (CHOOSE s \in FirstMatch(t, n) : TRUE) \in FirstMatch(t, n)
  OBVIOUS
<1> QED
  BY <1>1, <1>2 DEF GetAddr

-----------------------------------------------------------------------------

\* The transaction number drawn k requests before the one drawn last, when the
\* counter is at c.
Drawn(c, k) == IF k < c THEN c - 1 - k ELSE c - 1 - k + TransIDMod

\* Numbers drawn less than TransIDMod requests apart differ, and one more
\* request moves each number one further back.
LEMMA DrawnSteps ==
  ASSUME NEW c \in TransID, NEW d, d = (c + 1) % TransIDMod
  PROVE  /\ d \in TransID
         /\ Drawn(d, 0) = c
         /\ \A k \in 0 .. TransIDMod - 1 :
              k + 1 < TransIDMod => Drawn(d, k + 1) = Drawn(c, k)
         /\ \A j, k \in 0 .. TransIDMod - 1 : Drawn(c, j) = Drawn(c, k) => j = k
<1>1. d = IF c = TransIDMod - 1 THEN 0 ELSE c + 1
  BY TransIDModAssumption DEF TransID
<1> QED
  BY <1>1, TransIDModAssumption DEF Drawn, TransID

\* What a request does to the sender's number, to the requests, and to
\* sinceLast keeps their types.
LEMMA RequestTypes ==
  ASSUME TypeOK, NEW dest \in Addr \cup {Broadcast}, NEW ok \in BOOLEAN,
         AF_DataRequest(snd, dest, ok)
  PROVE  /\ requests' \subseteq Request
         /\ Requested(snd, ok) \in Sender
         /\ Commanded(snd, dest, ok) \in Sender
         /\ OneMore(sinceLast) \in 0 .. TransIDMod
         /\ AfterCommand(dest, ok) \in 0 .. TransIDMod
<1> USE TransIDModAssumption
<1>1. \A k \in 0 .. TransIDMod : OneMore(k) \in 0 .. TransIDMod
  BY DEF OneMore
<1>2. \A r \in Request : Older(r) \in Request
  BY <1>1 DEF Older, Request
<1>3. snd.transID \in TransID
  BY DEF TypeOK, Sender
<1>4. [transID |-> snd.transID, dest |-> dest, age |-> 0,
       fate |-> IF dest # MyAddr THEN "open" ELSE IF ok THEN "ok" ELSE "refused"] \in Request
  BY <1>3 DEF Request
<1>5. requests' \subseteq Request
  <2>1. requests \subseteq Request
    BY DEF TypeOK
  <2>2. {Older(r) : r \in requests} \subseteq Request
    BY <1>2, <2>1
  <2> QED
    BY <1>4, <2>1, <2>2 DEF AF_DataRequest
<1>6. (snd.transID + 1) % TransIDMod \in TransID
  BY <1>3, DrawnSteps
<1>7. Remembered(snd, dest) \in Sender /\ Remembered(snd, dest).transID = snd.transID
  BY DEF TypeOK, Remembered, Sender
<1>8. Requested(snd, ok) \in Sender
  BY <1>6 DEF TypeOK, Requested, Sender
<1>9. Commanded(snd, dest, ok) \in Sender
  BY <1>6, <1>7 DEF Commanded, Requested, Sender
<1>10. AfterCommand(dest, ok) \in 0 .. TransIDMod
  BY <1>1 DEF TypeOK, AfterCommand
<1> QED
  BY <1>1, <1>5, <1>8, <1>9, <1>10 DEF TypeOK

-----------------------------------------------------------------------------
(* Type correctness *)

\* The counter and the number remembered stay bytes, and the cache a table.
THEOREM TypeCorrect == Spec => []TypeOK
<1>1. Init => TypeOK
  BY TransIDModAssumption, SizeAssumption, CoordAddrAssumption
  DEF Init, TypeOK, ResetSender, Sender, TransID, EmptyTable, Table, Slot
<1>2. TypeOK /\ [Next]_vars => TypeOK'
  <2> SUFFICES ASSUME TypeOK, [Next]_vars PROVE TypeOK'
    OBVIOUS
  <2>1. ASSUME NEW n \in Name, NEW ok \in BOOLEAN, SmartHome_SendCmd(n, ok) PROVE TypeOK'
    <3>1. GetAddr(table, n) \in Addr \cup {Broadcast}
      BY GetAddrType DEF TypeOK
    <3> QED
      BY <2>1, <3>1, RequestTypes DEF SmartHome_SendCmd, TypeOK
  <2>2. ASSUME NEW a \in Addr, NEW ok \in BOOLEAN, SendLightStatusResp(a, ok) PROVE TypeOK'
    BY <2>2, RequestTypes DEF SendLightStatusResp, TypeOK
  <2>3. ASSUME NEW a \in Addr, NEW ok \in BOOLEAN, SendReply(a, ok) PROVE TypeOK'
    BY <2>3, RequestTypes DEF SendReply, TypeOK
  <2>4. ASSUME NEW n \in Name, NEW a \in Addr, ProcessNameAddrMapResp(n, a) PROVE TypeOK'
    BY <2>4, TableClosed, NextIdxInSlot DEF ProcessNameAddrMapResp, TypeOK
  <2>5. ASSUME NEW r \in requests, ConfirmFailed(r) PROVE TypeOK'
    <3>1. AfterFailure(snd, table, r.transID) \in Table
      BY DEF TypeOK, AfterFailure, Deleted, Table
    <3> QED
      BY <2>5, <3>1 DEF ConfirmFailed, TypeOK
  <2>6. ASSUME NEW r \in requests, ConfirmOkOrLost(r) PROVE TypeOK'
    BY <2>6 DEF ConfirmOkOrLost, TypeOK
  <2>7. CASE UNCHANGED vars
    BY <2>7 DEF vars, TypeOK
  <2> QED
    BY <2>1, <2>2, <2>3, <2>4, <2>5, <2>6, <2>7 DEF Next
<1> QED
  BY <1>1, <1>2, PTL DEF Spec

-----------------------------------------------------------------------------
(* The number identifies the last command *)

\* Every number is the one the counter had as many requests ago as the age of
\* the request, or the time since the last command, says; and a request as old
\* as the last command is that command.
Numbered ==
  /\ \A r \in requests :
       r.fate # "refused" /\ r.age < TransIDMod => r.transID = Drawn(snd.transID, r.age)
  /\ sinceLast < TransIDMod =>
       /\ snd.lastTransID = Drawn(snd.transID, sinceLast)
       /\ \A r \in requests :
            r.fate # "refused" /\ r.age = sinceLast => r.dest = snd.lastAddr

\* An accepted request: the older ones grow older by one, and the new one is
\* the only one of age 0.
LEMMA Accepted ==
  ASSUME TypeOK, Numbered, NEW dest \in Addr \cup {Broadcast},
         AF_DataRequest(snd, dest, TRUE), NEW d, d = (snd.transID + 1) % TransIDMod
  PROVE  /\ \A r \in requests' :
              r.fate # "refused" /\ r.age < TransIDMod => r.transID = Drawn(d, r.age)
         /\ \A r \in requests' : r.age = 0 => r.dest = dest
         /\ sinceLast + 1 < TransIDMod =>
              /\ snd.lastTransID = Drawn(d, sinceLast + 1)
              /\ \A r \in requests' :
                   r.fate # "refused" /\ r.age = sinceLast + 1 => r.dest = snd.lastAddr
<1> USE TransIDModAssumption
<1> DEFINE new == [transID |-> snd.transID, dest |-> dest, age |-> 0,
                   fate |-> IF dest # MyAddr THEN "open" ELSE "ok"]
<1>1. requests' = {Older(r) : r \in requests} \cup {new}
  BY DEF AF_DataRequest
<1>2. snd.transID \in TransID /\ sinceLast \in 0 .. TransIDMod
  BY DEF TypeOK, Sender
<1>3. /\ Drawn(d, 0) = snd.transID
      /\ \A k \in 0 .. TransIDMod - 1 :
           k + 1 < TransIDMod => Drawn(d, k + 1) = Drawn(snd.transID, k)
  BY <1>2, DrawnSteps
<1>4. \A r \in requests :
        /\ r.age \in 0 .. TransIDMod
        /\ Older(r).age = OneMore(r.age) /\ Older(r).transID = r.transID
        /\ Older(r).dest = r.dest /\ Older(r).fate = r.fate
  BY DEF TypeOK, Request, Older
<1>5. \A k \in 0 .. TransIDMod : OneMore(k) < TransIDMod => OneMore(k) = k + 1
  BY DEF OneMore
<1>6. \A k \in 0 .. TransIDMod : OneMore(k) # 0
  BY DEF OneMore
<1>7. new.transID = snd.transID /\ new.dest = dest /\ new.age = 0
  OBVIOUS
<1> HIDE DEF new
<1>8. ASSUME NEW r \in requests', r.fate # "refused", r.age < TransIDMod
      PROVE  r.transID = Drawn(d, r.age)
  <2>1. CASE r = new
    BY <1>3, <1>7, <2>1
  <2>2. ASSUME NEW q \in requests, r = Older(q) PROVE r.transID = Drawn(d, r.age)
    <3>1. r.age = q.age + 1 /\ q.age \in 0 .. TransIDMod /\ q.fate # "refused"
      BY <1>4, <1>5, <1>8, <2>2
    <3>2. q.transID = Drawn(snd.transID, q.age)
      BY <1>8, <3>1 DEF Numbered
    <3> QED
      BY <1>3, <1>4, <1>8, <2>2, <3>1, <3>2
  <2> QED
    BY <1>1, <2>1, <2>2
<1>9. ASSUME NEW r \in requests', r.age = 0
      PROVE  r.dest = dest
  BY <1>1, <1>4, <1>6, <1>7, <1>9
<1>10. ASSUME sinceLast + 1 < TransIDMod
       PROVE  snd.lastTransID = Drawn(d, sinceLast + 1)
  BY <1>2, <1>3, <1>10 DEF Numbered
<1>11. ASSUME sinceLast + 1 < TransIDMod, NEW r \in requests',
              r.fate # "refused", r.age = sinceLast + 1
       PROVE  r.dest = snd.lastAddr
  <2>1. r # new
    BY <1>2, <1>7, <1>11
  <2>2. PICK q \in requests : r = Older(q)
    BY <1>1, <2>1
  <2>3. q.age = sinceLast /\ q.fate # "refused"
    BY <1>2, <1>4, <1>5, <1>11, <2>2
  <2> QED
    BY <1>2, <1>4, <1>11, <2>2, <2>3 DEF Numbered
<1> QED
  BY <1>8, <1>9, <1>10, <1>11

\* A request that was not accepted: at most a refused one is added.
LEMMA Refused ==
  ASSUME NEW dest, AF_DataRequest(snd, dest, FALSE), NEW r \in requests', r.fate # "refused"
  PROVE  r \in requests
  BY DEF AF_DataRequest

\* A command, remembered unless it is a broadcast.
LEMMA CommandStep ==
  ASSUME TypeOK, Numbered, NEW dest \in Addr \cup {Broadcast}, NEW ok \in BOOLEAN,
         AF_DataRequest(snd, dest, ok),
         snd' = Commanded(snd, dest, ok), sinceLast' = AfterCommand(dest, ok)
  PROVE  Numbered'
<1> USE TransIDModAssumption
<1> DEFINE d == (snd.transID + 1) % TransIDMod
<1>1. /\ snd.transID \in TransID /\ sinceLast \in 0 .. TransIDMod
      /\ snd \in Sender
  BY DEF TypeOK, Sender
<1>2. Drawn(d, 0) = snd.transID
  BY <1>1, DrawnSteps
<1>3. CASE ok = TRUE /\ dest # Broadcast
  <2>1. snd'.transID = d /\ snd'.lastAddr = dest /\ snd'.lastTransID = snd.transID
    BY <1>1, <1>3 DEF Commanded, Requested, Remembered, Sender
  <2>2. sinceLast' = 0
    BY <1>3 DEF AfterCommand
  <2>3. /\ \A r \in requests' :
             r.fate # "refused" /\ r.age < TransIDMod => r.transID = Drawn(d, r.age)
        /\ \A r \in requests' : r.age = 0 => r.dest = dest
    BY <1>3, Accepted
  <2> HIDE DEF d
  <2>4. \A r \in requests' :
          r.fate # "refused" /\ r.age < TransIDMod => r.transID = Drawn(snd'.transID, r.age)
    BY <2>1, <2>3
  <2>5. snd'.lastTransID = Drawn(snd'.transID, sinceLast')
    BY <1>2, <2>1, <2>2
  <2>6. \A r \in requests' :
          r.fate # "refused" /\ r.age = sinceLast' => r.dest = snd'.lastAddr
    BY <2>1, <2>2, <2>3
  <2> QED
    BY <2>4, <2>5, <2>6 DEF Numbered
<1>4. CASE ok = TRUE /\ dest = Broadcast
  <2>1. /\ snd'.transID = d /\ snd'.lastAddr = snd.lastAddr
        /\ snd'.lastTransID = snd.lastTransID
    BY <1>1, <1>4 DEF Commanded, Requested, Remembered, Sender
  <2>2. sinceLast' < TransIDMod => sinceLast' = sinceLast + 1
    BY <1>1, <1>4 DEF AfterCommand, OneMore
  <2> QED
    BY <1>4, <2>1, <2>2, Accepted DEF Numbered
<1>5. CASE ok = FALSE /\ dest # Broadcast
  <2>1. snd'.transID = snd.transID
    BY <1>1, <1>5 DEF Commanded, Requested, Remembered, Sender
  <2>2. sinceLast' = TransIDMod
    BY <1>5 DEF AfterCommand
  <2>3. \A r \in requests' : r.fate # "refused" => r \in requests
    BY <1>5, Refused
  <2> QED
    BY <2>1, <2>2, <2>3 DEF Numbered
<1>6. CASE ok = FALSE /\ dest = Broadcast
  <2>1. snd' = snd
    BY <1>1, <1>6 DEF Commanded, Requested, Remembered, Sender
  <2>2. sinceLast' = sinceLast
    BY <1>6 DEF AfterCommand
  <2>3. \A r \in requests' : r.fate # "refused" => r \in requests
    BY <1>6, Refused
  <2> QED
    BY <2>1, <2>2, <2>3 DEF Numbered
<1> QED
  BY <1>3, <1>4, <1>5, <1>6

\* A reply, which is not remembered.
LEMMA ReplyStep ==
  ASSUME TypeOK, Numbered, NEW a \in Addr, NEW ok \in BOOLEAN, SendReply(a, ok)
  PROVE  Numbered'
<1> USE TransIDModAssumption
<1> DEFINE d == (snd.transID + 1) % TransIDMod
<1>1. snd \in Sender /\ sinceLast \in 0 .. TransIDMod
  BY DEF TypeOK
<1>2. CASE ok = TRUE
  <2>1. /\ snd'.transID = d /\ snd'.lastAddr = snd.lastAddr
        /\ snd'.lastTransID = snd.lastTransID
    BY <1>1, <1>2 DEF SendReply, Requested, Sender
  <2>2. sinceLast' < TransIDMod => sinceLast' = sinceLast + 1
    BY <1>1, <1>2 DEF SendReply, OneMore
  <2> QED
    BY <1>2, <2>1, <2>2, Accepted DEF Numbered, SendReply
<1>3. CASE ok = FALSE
  <2>1. snd' = snd /\ sinceLast' = sinceLast
    BY <1>1, <1>3 DEF SendReply, Requested, Sender
  <2> QED
    BY <1>3, <2>1, Refused DEF Numbered, SendReply
<1> QED
  BY <1>2, <1>3

\* While the counter has not wrapped since, a confirmation with the number of
\* the last accepted command is one for the address remembered with it.
THEOREM NumberIdentifies == Spec => []MatchIsOwn
<1>1. Init => Numbered
  BY TransIDModAssumption DEF Init, Numbered
<1>2. TypeOK /\ Numbered /\ [Next]_vars => Numbered'
  <2> SUFFICES ASSUME TypeOK, Numbered, [Next]_vars PROVE Numbered'
    OBVIOUS
  <2>1. ASSUME NEW n \in Name, NEW ok \in BOOLEAN, SmartHome_SendCmd(n, ok) PROVE Numbered'
    <3>1. GetAddr(table, n) \in Addr \cup {Broadcast}
      BY GetAddrType DEF TypeOK
    <3> QED
      BY <2>1, <3>1, CommandStep DEF SmartHome_SendCmd
  <2>2. ASSUME NEW a \in Addr, NEW ok \in BOOLEAN, SendLightStatusResp(a, ok) PROVE Numbered'
    BY <2>2, CommandStep DEF SendLightStatusResp
  <2>3. ASSUME NEW a \in Addr, NEW ok \in BOOLEAN, SendReply(a, ok) PROVE Numbered'
    BY <2>3, ReplyStep
  <2>4. ASSUME NEW n \in Name, NEW a \in Addr, ProcessNameAddrMapResp(n, a) PROVE Numbered'
    BY <2>4 DEF ProcessNameAddrMapResp, Numbered
  <2>5. ASSUME NEW r \in requests, ConfirmFailed(r) \/ ConfirmOkOrLost(r) PROVE Numbered'
    BY <2>5 DEF ConfirmFailed, ConfirmOkOrLost, Numbered
  <2>6. CASE UNCHANGED vars
    BY <2>6 DEF vars, Numbered
  <2> QED
    BY <2>1, <2>2, <2>3, <2>4, <2>5, <2>6 DEF Next
<1>3. TypeOK /\ Numbered => MatchIsOwn
  <2> SUFFICES ASSUME TypeOK, Numbered, sinceLast < TransIDMod, NEW r \in requests,
                      r.fate # "refused", r.age < TransIDMod, r.transID = snd.lastTransID
               PROVE  r.dest = snd.lastAddr
    BY DEF MatchIsOwn
  <2>1. Drawn(snd.transID, r.age) = Drawn(snd.transID, sinceLast)
    BY DEF Numbered
  <2>2. /\ snd.transID \in TransID
        /\ r.age \in 0 .. TransIDMod - 1 /\ sinceLast \in 0 .. TransIDMod - 1
    BY TransIDModAssumption DEF TypeOK, Sender, Request
  <2>3. r.age = sinceLast
    BY <2>1, <2>2, DrawnSteps
  <2> QED
    BY <2>3 DEF Numbered
<1> QED
  BY <1>1, <1>2, <1>3, TypeCorrect, PTL DEF Spec

-----------------------------------------------------------------------------
(* MacRadio: the states between two steps.  The lemmas that follow go      *)
(* through the code from the inside: what each function does to a state of *)
(* the radio, then each interrupt, each step of the radio and each step of *)
(* the thread.                                                             *)

\* Where the thread is, and the part of macTxFrame in which the frame goes out.
Step == {"idle", "prepare", "decide", "go", "arm", "turnOn", "run", "off"}
Starting == {"go", "arm", "turnOn", "run"}
Interrupts == {"int", "stop", "ackDone"}
Pieces == Header \cup {"body", "odd", "good", "bad"}
Fifo == {q \in Seq(Pieces) : Len(q) <= FifoSize}
Air == Seq(Pieces)

\* The radio's state, also in the middle of an interrupt.
RadioState ==
  [tx : {"none", "initialize", "queued", "go", "listen", "busy"}, ackReq : BOOLEAN,
   nb : 0 .. maxCsmaBackoffs + 1, rx : {"none", "started", "done"}, outAck : BOOLEAN,
   state : {"start", "body", "fcs", "skipBody", "skipFcs"}, inRx : BOOLEAN, reset : BOOLEAN,
   on : BOOLEAN, enabled : SUBSET Flag, asleep : BOOLEAN, moving : BOOLEAN,
   csp : {"none", "csma", "sending", "onair", "timeout"}, cspz : {"busy", "done", "timeout"},
   mask : SUBSET Interrupts, irq : SUBSET Interrupts, fifo : Fifo, over : BOOLEAN, err : BOOLEAN,
   coming : Air, asks : BOOLEAN, ack : BOOLEAN, sound : BOOLEAN]

\* What macTxActive and the place k of the thread say of the command processor,
\* of its interrupts and of the number of backoffs.
Sending(s, k) ==
  /\ s.tx = "initialize" <=> k \in {"prepare", "decide"}
  /\ k \in Starting =>
       /\ s.tx = "go" /\ s.csp = "none" /\ s.cspz = "busy"
       /\ "int" \notin s.irq /\ "stop" \notin s.irq
       /\ "stop" \in s.mask <=> k \in {"turnOn", "run"}
       /\ k = "run" => s.on
  /\ k = "decide" \/ s.tx = "queued" =>
       s.cspz = "busy" /\ "int" \notin s.irq /\ "stop" \notin s.irq
  /\ s.tx \notin {"go", "listen"} =>
       s.csp = "none" /\ "stop" \notin s.mask
  /\ s.tx # "go" => "int" \notin s.irq \/ "int" \notin s.mask
  /\ s.tx = "go" /\ k \notin Starting =>
       /\ "stop" \in s.mask /\ s.csp # "timeout" /\ s.cspz # "timeout"
       /\ s.csp = "none" <=> "stop" \in s.irq
       /\ s.csp # "none" => s.cspz = "busy"
       /\ s.cspz = "busy" /\ s.csp # "onair" => "int" \notin s.irq
  /\ s.tx = "listen" =>
       /\ "stop" \in s.mask /\ s.cspz = "timeout" /\ s.csp \in {"timeout", "none"}
       /\ s.csp = "none" <=> "stop" \in s.irq
  /\ s.tx \in {"initialize", "queued", "go"} => s.nb <= maxCsmaBackoffs
  /\ s.csp \in {"csma", "sending", "onair"} => s.on

\* A receiver that is off hears nothing and holds nothing; it is off in sleep,
\* which nothing that is going on survives.
Dark(s) ==
  /\ ~s.on => s.fifo = <<>> /\ ~s.over /\ s.coming = <<>>
  /\ s.asleep => ~s.on /\ ~s.moving /\ s.tx = "none" /\ s.rx = "none" /\ ~s.outAck
  /\ s.over => s.coming = <<>>

Core(s, k) == s \in RadioState /\ s.sound /\ Sending(s, k) /\ Dark(s)

\* The receiver is on for a reason.
Lit(s, k) ==
  s.on => \/ s.enabled # {} \/ s.tx \in {"go", "listen"} \/ s.rx = "started" \/ s.outAck
          \/ k = "off"

\* A change of the channel waits for the end of a transmit only.
Settled(s) == s.moving => s.tx # "none"

Good(s, k) == Core(s, k) /\ Lit(s, k) /\ Settled(s)

\* What may follow a piece of a frame, what comes next behind the pieces in the
\* FIFO, and how the FIFO and the rest of the frame in the air fit the piece that
\* the next interrupt expects.
Following(piece) ==
  CASE piece \in {"plain", "request"} -> {"body", "odd"}
    [] piece \in {"body", "odd"} -> {"good", "bad"}
    [] OTHER -> Header
Chain(q) == \A i \in 1 .. Len(q) - 1 : q[i + 1] \in Following(q[i])
Awaited(state) ==
  CASE state = "start" -> Header
    [] state \in {"body", "skipBody"} -> {"body", "odd"}
    [] OTHER -> {"good", "bad"}
Behind(q, state) == IF q = <<>> THEN Awaited(state) ELSE Following(q[Len(q)])

Fits(s) ==
  /\ Chain(s.fifo)
  /\ s.fifo # <<>> => s.fifo[1] \in Awaited(s.state)
  /\ Chain(s.coming)
  /\ s.coming # <<>> =>
       /\ s.coming[1] \in Behind(s.fifo, s.state)
       /\ Following(s.coming[Len(s.coming)]) = Header
  /\ s.coming = <<>> /\ ~s.over => Behind(s.fifo, s.state) = Header

\* A receive is under way exactly when its first piece has been read.
Receiving(s) == s.rx \in {"none", "started"} /\ (s.rx = "none" <=> s.state = "start") /\ Fits(s)

\* Between two steps, k being the place of the thread.
Safe(s, k) == Good(s, k) /\ Receiving(s) /\ s.tx # "busy" /\ ~s.inRx /\ ~s.reset
RadioInv == Safe(m, step) /\ step \in Step /\ loop \in BOOLEAN /\ (loop => Fifop)

-----------------------------------------------------------------------------
\* Nothing is left in the FIFO or of the frame in the air.
Flushed(s) == s.fifo = <<>> /\ ~s.over /\ s.coming = <<>>

\* What the transmit does, and whether the radio is in sleep or moves.
SameSend(s, t) ==
  /\ t.tx = s.tx /\ t.nb = s.nb /\ t.csp = s.csp /\ t.cspz = s.cspz /\ t.mask = s.mask
  /\ t.irq = s.irq
SameCalls(s, t) ==
  t.asleep = s.asleep /\ t.moving = s.moving /\ t.inRx = s.inRx /\ t.enabled = s.enabled
SameAir(s, t) == t.fifo = s.fifo /\ t.over = s.over /\ t.coming = s.coming
SameRx(s, t) == t.rx = s.rx /\ t.outAck = s.outAck /\ t.state = s.state

\* An empty FIFO is one, and so is a silent air.
LEMMA EmptyFifo == <<>> \in Fifo /\ <<>> \in Air
<1>1. <<>> \in Seq(Pieces) /\ Len(<<>>) = 0
  BY EmptySeq
<1> QED BY <1>1, RadioAssumption DEF Fifo, Air

\* An assertion that holds changes nothing.
LEMMA AssertHolds ==
  ASSUME NEW s \in RadioState, s.sound, NEW p, p
  PROVE  Assert_(s, p) = s
BY DEF Assert_, RadioState

\* The receiver off: what it was doing is lost, and so is the FIFO.
LEMMA OffFields ==
  ASSUME NEW s \in RadioState, s.sound, s.csp = "none"
  PROVE  LET t == RxOff(s)
         IN /\ t \in RadioState /\ t.sound /\ ~t.on /\ (s.on => Flushed(t)) /\ (~s.on => t = s)
            /\ SameSend(s, t) /\ SameRx(s, t) /\ SameCalls(s, t) /\ t.reset = s.reset
<1> DEFINE u == [s EXCEPT !.on = FALSE, !.coming = <<>>, !.ack = FALSE]
<1>1. Assert_(s, s.csp \notin {"sending", "onair"}) = s
  BY AssertHolds
<1>2. RxTxOff(s) = u
  BY <1>1, Zenon DEF RxTxOff
<1>3. u \in RadioState
  BY EmptyFifo DEF RadioState
<1>4. u.sound /\ ~u.on /\ SameSend(s, u) /\ SameRx(s, u) /\ SameCalls(s, u) /\ u.reset = s.reset
  BY DEF RadioState, SameSend, SameRx, SameCalls
<1> HIDE DEF u
<1>5. FlushRxFifo(u) \in RadioState
  BY <1>3, EmptyFifo DEF RadioState, FlushRxFifo
<1>6. LET t == FlushRxFifo(u)
      IN /\ t.sound /\ ~t.on /\ Flushed(t) /\ SameSend(u, t) /\ SameRx(u, t) /\ SameCalls(u, t)
         /\ t.reset = u.reset
  BY <1>3, <1>4 DEF RadioState, FlushRxFifo, Flushed, SameSend, SameRx, SameCalls
<1>7. CASE s.on
  <2>1. RxOff(s) = FlushRxFifo(u)
    BY <1>2, <1>7 DEF RxOff
  <2> QED BY <1>7, <1>4, <1>5, <1>6, <2>1 DEF SameSend, SameRx, SameCalls
<1>8. CASE ~s.on
  BY <1>8 DEF RxOff, SameSend, SameRx, SameCalls
<1> QED BY <1>7, <1>8

\* The receiver on.
LEMMA OnFields ==
  ASSUME NEW s \in RadioState
  PROVE  LET t == RxOn(s)
         IN /\ t \in RadioState /\ t.sound = s.sound /\ SameSend(s, t) /\ SameRx(s, t)
            /\ SameAir(s, t) /\ SameCalls(s, t) /\ t.reset = s.reset /\ t.on
<1>1. RxOn(s) \in RadioState
  BY DEF RxOn, RadioState
<1> QED
  BY DEF RxOn, RadioState, SameSend, SameRx, SameAir, SameCalls

\* cspGo: the receiver on, the interrupts of the command processor let through.
LEMMA GoFields ==
  ASSUME NEW s \in RadioState
  PROVE  LET t == CspGo(s)
         IN /\ t \in RadioState /\ SameRx(s, t) /\ SameAir(s, t) /\ SameCalls(s, t)
            /\ t.reset = s.reset /\ t.sound = s.sound /\ t.tx = s.tx /\ t.nb = s.nb
            /\ t.irq = s.irq /\ t.cspz = s.cspz /\ t.csp = "csma" /\ t.on
            /\ t.mask = s.mask \cup {"stop", "int"}
<1>1. CspGo(s) \in RadioState
  BY DEF CspGo, CspRun, RxOn, CspArm, Interrupts, RadioState
<1> QED
  BY <1>1 DEF CspGo, CspRun, RxOn, CspArm, RadioState, SameRx, SameAir, SameCalls

\* The end of the ACK is not waited for any more.
LEMMA ForgetFields ==
  ASSUME NEW s \in RadioState
  PROVE  LET t == ForgetAck(s)
         IN /\ t \in RadioState /\ SameAir(s, t) /\ SameCalls(s, t) /\ t.outAck = FALSE
            /\ t.rx = s.rx /\ t.state = s.state /\ t.reset = s.reset /\ t.sound = s.sound
            /\ t.tx = s.tx /\ t.nb = s.nb /\ t.irq = s.irq /\ t.csp = s.csp /\ t.cspz = s.cspz
            /\ t.on = s.on /\ t.mask = s.mask \ {"ackDone"}
<1>1. ForgetAck(s) \in RadioState
  BY DEF ForgetAck, CancelAckTxDone, Interrupts, RadioState
<1> QED
  BY <1>1 DEF ForgetAck, CancelAckTxDone, RadioState, SameRx, SameAir, SameCalls

\* What an interrupt may find where its pieces are missing is what it awaits.
LEMMA ExpectedIs ==
  ASSUME NEW state \in {"start", "body", "fcs", "skipBody", "skipFcs"}
  PROVE  Expected[state] = Awaited(state)
BY DEF Expected, Awaited, Header

\* macRxOffRequest: nothing, or the receiver off and its FIFO empty.
LEMMA OffRequest ==
  ASSUME NEW k \in Step, NEW s, Core(s, k)
  PROVE  LET t == RxOffRequest(s)
         IN /\ Core(t, k) /\ Lit(t, k)
            /\ SameSend(s, t) /\ SameRx(s, t) /\ SameCalls(s, t) /\ t.reset = s.reset
            /\ t.on => s.on
            /\ SameAir(s, t) \/ (Flushed(t) /\ s.rx # "started" /\ ~s.outAck)
<1>1. CASE s.enabled = {} /\ ~RxIsPhysicallyActive(s) /\ ~TxIsPhysicallyActive(s)
  <2>1. CASE s.on
    <3> DEFINE t == RxOff(s)
    <3>1. s \in RadioState /\ s.sound /\ s.csp = "none"
      BY <1>1 DEF Core, RadioState, Sending, TxIsPhysicallyActive, Starting
    <3>2. /\ t \in RadioState /\ t.sound /\ ~t.on /\ Flushed(t)
          /\ SameSend(s, t) /\ SameRx(s, t) /\ SameCalls(s, t) /\ t.reset = s.reset
      BY <3>1, <2>1, OffFields
    <3> HIDE DEF t
    <3>3. Sending(t, k)
      BY <1>1, <3>1, <3>2 DEF SameSend, Core, Sending, TxIsPhysicallyActive, Starting
    <3>4. Dark(t) /\ Lit(t, k)
      BY <3>2 DEF Core, Dark, Lit, Flushed, SameCalls, SameSend, SameRx
    <3>5. RxOffRequest(s) = t /\ s.rx # "started" /\ ~s.outAck
      BY <1>1 DEF RxOffRequest, RxIsPhysicallyActive, t
    <3> QED BY <3>2, <3>3, <3>4, <3>5 DEF Core
  <2>2. CASE ~s.on
    BY <1>1, <2>2 DEF RxOffRequest, RxOff, Core, Lit, SameSend, SameRx, SameCalls, SameAir
  <2> QED BY <2>1, <2>2
<1>2. CASE ~(s.enabled = {} /\ ~RxIsPhysicallyActive(s) /\ ~TxIsPhysicallyActive(s))
  BY <1>2 DEF RxOffRequest, Lit, RxIsPhysicallyActive, TxIsPhysicallyActive, SameSend,
    SameRx, SameCalls, SameAir
<1> QED BY <1>1, <1>2

\* macTxStartQueuedFrame.
LEMMA QueuedStarts ==
  ASSUME NEW k \in Step, NEW s, Core(s, k), s.rx = "none", ~s.outAck
  PROVE  LET t == StartQueuedFrame(s)
         IN /\ Core(t, k) /\ (Lit(s, k) => Lit(t, k))
            /\ SameRx(s, t) /\ SameCalls(s, t) /\ SameAir(s, t) /\ t.reset = s.reset
            /\ t.tx = "none" <=> s.tx = "none"
            /\ s.tx # "busy" => t.tx # "busy"
<1>1. CASE s.tx = "queued"
  <2> DEFINE t == StartQueuedFrame(s)
  <2>1. s \in RadioState /\ s.sound /\ Sending(s, k) /\ Dark(s)
    BY DEF Core
  <2>2. /\ t \in RadioState /\ t.sound /\ SameRx(s, t) /\ SameAir(s, t) /\ SameCalls(s, t)
        /\ t.reset = s.reset /\ t.tx = "go" /\ t.nb = s.nb /\ t.irq = s.irq /\ t.cspz = s.cspz
        /\ t.csp = "csma" /\ {"stop", "int"} \subseteq t.mask /\ t.on
    <3>1. Assert_(s, s.rx = "none" /\ ~s.outAck) = s
      BY <2>1, AssertHolds
    <3> DEFINE u == [s EXCEPT !.tx = "go"]
    <3>2. t = CspGo(ForgetAck(u))
      BY <3>1, <1>1 DEF StartQueuedFrame
    <3>3. /\ u \in RadioState /\ u.tx = "go" /\ SameRx(s, u) /\ SameAir(s, u) /\ SameCalls(s, u)
          /\ u.reset = s.reset /\ u.sound = s.sound /\ u.nb = s.nb /\ u.irq = s.irq
          /\ u.cspz = s.cspz
      BY <2>1 DEF RadioState, SameRx, SameAir, SameCalls
    <3> HIDE DEF u, t
    <3> DEFINE v == ForgetAck(u)
    <3>4. /\ v \in RadioState /\ SameAir(s, v) /\ SameCalls(s, v) /\ SameRx(s, v)
          /\ v.reset = s.reset /\ v.sound = s.sound /\ v.tx = "go" /\ v.nb = s.nb
          /\ v.irq = s.irq /\ v.cspz = s.cspz
      <4>1. s.outAck = FALSE
        BY <2>1 DEF RadioState
      <4> QED BY <3>3, <4>1, ForgetFields DEF SameRx, SameAir, SameCalls
    <3>5. t = CspGo(v)
      BY <3>2
    <3> HIDE DEF v
    <3> QED BY <3>5, <3>4, <2>1, GoFields DEF SameRx, SameAir, SameCalls
  <2> HIDE DEF t
  <2>3. Sending(t, k)
    BY <1>1, <2>1, <2>2 DEF Sending, Starting
  <2>4. Dark(t) /\ Lit(t, k)
    BY <1>1, <2>1, <2>2 DEF Dark, Lit, SameRx, SameAir, SameCalls
  <2> QED BY <1>1, <2>2, <2>3, <2>4 DEF Core, t
<1>2. CASE s.tx # "queued"
  BY <1>2 DEF StartQueuedFrame, Assert_, Core, RadioState, Sending, Dark, Lit, SameRx, SameCalls,
    SameAir
<1> QED BY <1>1, <1>2

\* rxPostRxUpdates: the receiver off if nothing wants it, and a frame that was
\* queued behind the receive is started.
LEMMA PostUpdates ==
  ASSUME NEW k \in Step, NEW s, Core(s, k), s.rx = "none", ~s.outAck
  PROVE  LET t == PostRxUpdates(s)
         IN /\ Core(t, k) /\ Lit(t, k)
            /\ SameRx(s, t) /\ SameCalls(s, t) /\ t.reset = s.reset
            /\ t.tx = "none" <=> s.tx = "none"
            /\ s.tx # "busy" => t.tx # "busy"
            /\ SameAir(s, t) \/ Flushed(t)
<1> DEFINE u == RxOffRequest(s)
<1>1. Core(u, k) /\ Lit(u, k) /\ u.rx = "none" /\ ~u.outAck /\ SameSend(s, u) /\ SameRx(s, u)
      /\ SameCalls(s, u) /\ u.reset = s.reset /\ (SameAir(s, u) \/ Flushed(u))
  BY OffRequest DEF SameRx
<1> HIDE DEF u
<1>2. QED
  BY <1>1, QueuedStarts DEF PostRxUpdates, u, SameRx, SameSend, SameCalls, SameAir, Flushed

\* The last step of macRxHaltCleanup: the FIFO is empty and the next piece starts
\* a frame.
LEMMA HaltEnds ==
  ASSUME NEW k \in Step, NEW s, Core(s, k), Lit(s, k)
  PROVE  LET t == HaltCleanupFinalStep(s)
         IN /\ Core(t, k) /\ Lit(t, k) /\ t.state = "start" /\ t.rx = "none" /\ Flushed(t)
            /\ SameCalls(s, t) /\ t.reset = s.reset
            /\ t.tx = "none" <=> s.tx = "none"
            /\ s.tx # "busy" => t.tx # "busy"
<1> DEFINE u == FlushRxFifo([CancelAckTxDone(s) EXCEPT !.state = "start"])
           v == [u EXCEPT !.rx = "none", !.outAck = FALSE]
<1>1. s \in RadioState /\ s.sound /\ Sending(s, k) /\ Dark(s)
  BY DEF Core
<1>2. u \in RadioState
  BY <1>1, EmptyFifo DEF FlushRxFifo, CancelAckTxDone, RadioState
<1>3. /\ u.sound = s.sound /\ SameCalls(s, u) /\ u.tx = s.tx /\ u.nb = s.nb /\ u.csp = s.csp
      /\ u.cspz = s.cspz /\ u.irq = s.irq /\ u.mask = s.mask \ {"ackDone"} /\ u.on = s.on
      /\ u.reset = s.reset /\ u.rx = s.rx /\ u.outAck = s.outAck /\ u.state = "start" /\ Flushed(u)
  BY <1>1 DEF FlushRxFifo, CancelAckTxDone, RadioState, SameCalls, Flushed
<1>4. HaltCleanupFinalStep(s) = IF s.rx # "none" \/ s.outAck THEN PostRxUpdates(v) ELSE u
  BY DEF HaltCleanupFinalStep
<1> HIDE DEF u
<1>5. /\ v \in RadioState /\ v.sound = s.sound /\ SameSend(u, v) /\ SameCalls(u, v)
      /\ v.on = u.on /\ v.reset = u.reset /\ v.state = "start" /\ v.rx = "none" /\ v.outAck = FALSE
      /\ Flushed(v)
  BY <1>2, <1>3 DEF RadioState, SameSend, SameCalls, Flushed
<1> HIDE DEF v
<1>6. Sending(u, k) /\ Sending(v, k)
  BY <1>1, <1>3, <1>5 DEF Sending, SameSend
<1>7. Dark(u) /\ Dark(v)
  BY <1>1, <1>3, <1>5 DEF Dark, Flushed, SameCalls, SameSend
<1>8. Core(u, k) /\ Core(v, k)
  BY <1>1, <1>2, <1>3, <1>5, <1>6, <1>7 DEF Core
<1>9. CASE s.rx # "none" \/ s.outAck
  BY <1>9, <1>3, <1>4, <1>5, <1>8, PostUpdates DEF SameRx, SameAir, SameCalls, SameSend, Flushed
<1>10. CASE ~(s.rx # "none" \/ s.outAck)
  <2>1. Lit(u, k)
    BY <1>3 DEF Lit, SameCalls
  <2> QED BY <2>1, <1>10, <1>3, <1>4, <1>8
<1> QED BY <1>9, <1>10

\* macRxHaltCleanup: in the interrupt that reads the FIFO it waits for its end.
LEMMA Halts ==
  ASSUME NEW k \in Step, NEW s, Core(s, k), Lit(s, k)
  PROVE  LET t == RxHaltCleanup(s)
         IN /\ Core(t, k) /\ Lit(t, k) /\ SameCalls(s, t)
            /\ t.tx = "none" <=> s.tx = "none"
            /\ s.tx # "busy" => t.tx # "busy"
            /\ s.inRx => t.reset /\ SameRx(s, t) /\ SameAir(s, t)
            /\ ~s.inRx => /\ t.reset = s.reset /\ t.state = "start" /\ t.rx = "none"
                          /\ Flushed(t)
<1>1. CASE s.inRx
  <2> DEFINE t == [s EXCEPT !.reset = TRUE]
  <2>1. s \in RadioState /\ s.sound /\ Sending(s, k) /\ Dark(s)
    BY DEF Core
  <2>2. /\ t \in RadioState /\ t.sound = s.sound /\ SameSend(s, t) /\ SameRx(s, t) /\ SameAir(s, t)
        /\ SameCalls(s, t) /\ t.on = s.on /\ t.reset
    BY <2>1 DEF RadioState, SameSend, SameRx, SameAir, SameCalls
  <2>3. RxHaltCleanup(s) = t
    BY <1>1 DEF RxHaltCleanup
  <2> HIDE DEF t
  <2>4. Sending(t, k)
    BY <2>1, <2>2 DEF Sending, SameSend
  <2>5. Dark(t) /\ Lit(t, k)
    BY <2>1, <2>2 DEF Dark, Lit, SameSend, SameRx, SameAir, SameCalls
  <2> QED BY <1>1, <2>1, <2>2, <2>3, <2>4, <2>5 DEF Core, SameSend
<1>2. CASE ~s.inRx
  BY <1>2, HaltEnds DEF RxHaltCleanup
<1> QED BY <1>1, <1>2

\* What may happen to a receive by the way: nothing; the receiver is turned off
\* where nothing is being received; or everything that came in is thrown away,
\* at once or at the end of the interrupt.
Kept(s, t) ==
  /\ t.inRx = s.inRx /\ t.asleep = s.asleep /\ t.enabled = s.enabled
  /\ \/ /\ SameRx(s, t) /\ t.reset = s.reset
        /\ SameAir(s, t) \/ (Flushed(t) /\ s.rx # "started" /\ ~s.outAck)
     \/ s.inRx /\ t.reset /\ SameRx(s, t) /\ Flushed(t)
     \/ ~s.inRx /\ t.reset = s.reset /\ t.state = "start" /\ t.rx = "none" /\ Flushed(t)

\* macRadioUpdateChannel, when no frame goes out.
LEMMA ChannelUpdated ==
  ASSUME NEW k \in Step, NEW s, Core(s, k), Lit(s, k), s.tx = "none"
  PROVE  LET t == UpdateChannel(s)
         IN Good(t, k) /\ t.tx = "none" /\ Kept(s, t)
<1>0. s \in RadioState /\ s.sound /\ Sending(s, k) /\ Dark(s)
  BY DEF Core
<1>1. CASE s.moving
  <2> DEFINE u == [s EXCEPT !.moving = FALSE]
             v == RxOff(u)
             w == RxHaltCleanup(v)
             t == RxOnRequest(w)
  <2>1. /\ u \in RadioState /\ u.sound = s.sound /\ SameSend(s, u) /\ SameRx(s, u) /\ SameAir(s, u)
        /\ u.asleep = s.asleep /\ u.inRx = s.inRx /\ u.enabled = s.enabled /\ u.moving = FALSE
        /\ u.on = s.on /\ u.reset = s.reset
    BY <1>0 DEF RadioState, SameSend, SameRx, SameAir
  <2>2. UpdateChannel(s) = t
    BY <1>1 DEF UpdateChannel
  <2>3. ~s.asleep /\ s.csp = "none"
    BY <1>0, <1>1 DEF Dark, Sending
  <2> HIDE DEF u
  <2>4. /\ v \in RadioState /\ v.sound /\ ~v.on /\ (u.on => Flushed(v)) /\ (~u.on => v = u)
        /\ SameSend(u, v) /\ SameRx(u, v) /\ SameCalls(u, v) /\ v.reset = u.reset
    <3>1. u.csp = "none" /\ u.sound
      BY <1>0, <2>1, <2>3 DEF SameSend
    <3> QED BY <3>1, <2>1, OffFields
  <2> HIDE DEF v
  <2>5. Flushed(v)
    BY <1>0, <2>1, <2>4 DEF Dark, Flushed, SameAir
  <2>6. Sending(v, k)
    BY <1>0, <2>1, <2>3, <2>4 DEF Sending, SameSend
  <2>7. Core(v, k) /\ Lit(v, k) /\ v.tx = "none"
    BY <2>1, <2>3, <2>4, <2>5, <2>6 DEF Core, Dark, Lit, Flushed, SameCalls, SameSend
  <2>8. /\ Core(w, k) /\ Lit(w, k) /\ SameCalls(v, w) /\ w.tx = "none"
        /\ v.inRx => w.reset /\ SameRx(v, w) /\ SameAir(v, w)
        /\ ~v.inRx => /\ w.reset = v.reset /\ w.state = "start" /\ w.rx = "none"
                      /\ Flushed(w)
    BY <2>7, Halts
  <2> HIDE DEF w
  <2>9. Kept(s, w) /\ w.moving = FALSE /\ ~w.asleep
    BY <1>0, <2>1, <2>3, <2>4, <2>5, <2>8 DEF Kept, SameRx, SameAir, SameCalls, Flushed
  <2>10. CASE w.enabled = {}
    BY <2>2, <2>8, <2>9, <2>10 DEF RxOnRequest, Good, Settled
  <2>11. CASE w.enabled # {}
    <3>1. w \in RadioState /\ w.sound /\ Sending(w, k) /\ Dark(w)
      BY <2>8 DEF Core
    <3>2. t = RxOn(w)
      BY <2>11 DEF RxOnRequest
    <3>3. /\ t \in RadioState /\ t.sound = w.sound /\ SameSend(w, t) /\ SameRx(w, t)
          /\ SameAir(w, t) /\ SameCalls(w, t) /\ t.reset = w.reset /\ t.on
      BY <3>1, <3>2, OnFields
    <3> HIDE DEF t
    <3>4. Sending(t, k)
      BY <3>1, <3>3 DEF Sending, SameSend
    <3>5. Dark(t) /\ Lit(t, k) /\ Settled(t)
      BY <3>1, <3>3, <2>9, <2>11 DEF Dark, Lit, Settled, SameAir, SameCalls
    <3>6. Kept(s, t)
      BY <3>3, <2>9 DEF Kept, SameRx, SameAir, SameCalls, Flushed
    <3> QED BY <2>2, <2>8, <3>1, <3>3, <3>4, <3>5, <3>6 DEF Good, Core, SameSend
  <2> QED BY <2>10, <2>11
<1>2. CASE ~s.moving
  BY <1>2 DEF UpdateChannel, Good, Settled, Kept, SameRx, SameAir
<1> QED BY <1>1, <1>2

\* txComplete: the frame has gone out, or was given up.
LEMMA Completes ==
  ASSUME NEW k \in Step, NEW s \in RadioState, s.sound, s.tx # "none",
         Core([s EXCEPT !.tx = "none"], k)
  PROVE  LET t == TxComplete(s)
         IN Good(t, k) /\ t.tx = "none" /\ Kept(s, t)
<1> DEFINE u == [s EXCEPT !.tx = "none"]
           v == RxOffRequest(u)
<1>1. u.tx = "none" /\ SameRx(s, u) /\ SameAir(s, u) /\ SameCalls(s, u) /\ u.reset = s.reset
  BY DEF RadioState, SameRx, SameAir, SameCalls
<1>2. TxComplete(s) = UpdateChannel(v)
  <2>1. Assert_(s, s.tx # "none") = s
    BY AssertHolds
  <2> QED BY <2>1, Zenon DEF TxComplete
<1>3. Core(u, k)
  OBVIOUS
<1> HIDE DEF u
<1>4. /\ Core(v, k) /\ Lit(v, k)
      /\ SameSend(u, v) /\ SameRx(u, v) /\ SameCalls(u, v) /\ v.reset = u.reset
      /\ SameAir(u, v) \/ (Flushed(v) /\ u.rx # "started" /\ ~u.outAck)
  BY <1>3, OffRequest
<1> HIDE DEF v
<1>5. Good(UpdateChannel(v), k) /\ UpdateChannel(v).tx = "none" /\ Kept(v, UpdateChannel(v))
  BY <1>1, <1>4, ChannelUpdated DEF SameSend
<1> QED
  BY <1>1, <1>2, <1>4, <1>5 DEF Kept, SameRx, SameAir, SameCalls, Flushed

\* The thread is not between macTxFrame's steps.
Idle == {"idle", "off"}

\* macTxAckReceivedCallback and its like: the wait for the ACK is over.
LEMMA AckCompletes ==
  ASSUME NEW k \in Idle, NEW s \in RadioState, s.sound, Dark(s), s.tx = "listen",
         "int" \notin s.irq \/ "int" \notin s.mask
  PROVE  LET t == AckReceivedOrNot(s)
         IN Good(t, k) /\ t.tx = "none" /\ Kept(s, t)
<1> DEFINE u == [s EXCEPT !.csp = "none", !.irq = @ \cup {"stop"}, !.mask = @ \ {"stop"}]
           w == [u EXCEPT !.tx = "none"]
<1>1. u \in RadioState
  BY DEF RadioState, Interrupts
<1>2. /\ u.sound /\ u.tx = s.tx /\ u.nb = s.nb /\ SameRx(s, u) /\ SameAir(s, u) /\ SameCalls(s, u)
      /\ u.reset = s.reset /\ u.csp = "none" /\ u.irq = s.irq \cup {"stop"}
      /\ u.mask = s.mask \ {"stop"} /\ u.on = s.on
  BY DEF RadioState, SameRx, SameAir, SameCalls
<1>3. AckReceivedOrNot(s) = TxComplete(u)
  BY DEF AckReceivedOrNot
<1> HIDE DEF u
<1>4. /\ w \in RadioState /\ w.sound /\ w.tx = "none" /\ w.csp = u.csp /\ w.irq = u.irq
      /\ w.mask = u.mask /\ w.on = u.on /\ SameRx(u, w) /\ SameAir(u, w) /\ SameCalls(u, w)
  BY <1>1, <1>2 DEF RadioState, SameRx, SameAir, SameCalls
<1> HIDE DEF w
<1>5. Sending(w, k)
  BY <1>2, <1>4 DEF Sending, Starting, Idle
<1>6. Dark(w)
  BY <1>2, <1>4 DEF Dark, SameRx, SameAir, SameCalls
<1>7. Core(w, k) /\ k \in Step
  BY <1>4, <1>5, <1>6 DEF Core, Idle, Step
<1>8. Good(TxComplete(u), k) /\ TxComplete(u).tx = "none" /\ Kept(u, TxComplete(u))
  BY <1>1, <1>2, <1>7, Completes DEF w
<1> QED
  BY <1>2, <1>3, <1>8 DEF Kept, SameRx, SameAir, SameCalls

\* A frame has gone out: its ACK is waited for, or it is completed.
LEMMA FrameSent ==
  ASSUME NEW k \in Idle, NEW s \in RadioState, s.sound, Dark(s), s.tx = "go", s.csp = "none",
         "stop" \notin s.mask, "int" \notin s.irq \/ "int" \notin s.mask
  PROVE  LET t == TxDone(s)
         IN Good(t, k) /\ t.tx \in {"none", "listen"} /\ Kept(s, t)
<1>1. CASE s.ackReq
  <2> DEFINE u == [s EXCEPT !.tx = "listen"]
             t == [u EXCEPT !.csp = "timeout", !.cspz = "timeout", !.irq = @ \ {"stop"},
                            !.mask = @ \cup {"stop"}]
  <2>1. /\ u \in RadioState /\ u.sound /\ u.tx = "listen" /\ u.mask = s.mask /\ u.irq = s.irq
        /\ u.nb = s.nb /\ u.on = s.on
        /\ SameRx(s, u) /\ SameAir(s, u) /\ SameCalls(s, u) /\ u.reset = s.reset
    BY DEF RadioState, SameRx, SameAir, SameCalls
  <2>2. TxDone(s) = RequestAckTimeout(u)
    BY <1>1 DEF TxDone
  <2> HIDE DEF u
  <2>3. Assert_(u, "stop" \notin u.mask) = u
    BY <2>1, AssertHolds
  <2>4. RequestAckTimeout(u) = t
    BY <2>3, Zenon DEF RequestAckTimeout
  <2>5. t \in RadioState
    BY <2>1 DEF RadioState, Interrupts
  <2>6. /\ t.sound /\ t.tx = "listen" /\ t.nb = u.nb /\ t.on = u.on
        /\ t.csp = "timeout" /\ t.cspz = "timeout" /\ t.irq = u.irq \ {"stop"}
        /\ t.mask = u.mask \cup {"stop"}
        /\ SameRx(u, t) /\ SameAir(u, t) /\ SameCalls(u, t) /\ t.reset = u.reset
    BY <2>1 DEF RadioState, SameRx, SameAir, SameCalls
  <2> HIDE DEF t
  <2>7. Sending(t, k)
    BY <2>1, <2>6 DEF Sending, Starting, Idle
  <2>8. Dark(t) /\ Lit(t, k) /\ Settled(t)
    BY <2>1, <2>6 DEF Dark, Lit, Settled, SameRx, SameAir, SameCalls
  <2>9. Kept(s, t)
    BY <2>1, <2>6 DEF Kept, SameRx, SameAir, SameCalls
  <2> QED BY <2>2, <2>4, <2>5, <2>6, <2>7, <2>8, <2>9 DEF Good, Core
<1>2. CASE ~s.ackReq
  <2> DEFINE w == [s EXCEPT !.tx = "none"]
  <2>1. /\ w \in RadioState /\ w.sound /\ w.tx = "none" /\ w.csp = s.csp /\ w.irq = s.irq
        /\ w.mask = s.mask /\ w.on = s.on /\ SameRx(s, w) /\ SameAir(s, w) /\ SameCalls(s, w)
    BY DEF RadioState, SameRx, SameAir, SameCalls
  <2>2. TxDone(s) = TxComplete(s)
    BY <1>2 DEF TxDone
  <2> HIDE DEF w
  <2>3. Sending(w, k)
    BY <2>1 DEF Sending, Starting, Idle
  <2>4. Dark(w)
    BY <2>1 DEF Dark, SameRx, SameAir, SameCalls
  <2>5. Core(w, k) /\ k \in Step
    BY <2>1, <2>3, <2>4 DEF Core, Idle, Step
  <2> QED BY <2>2, <2>5, Completes DEF w
<1> QED BY <1>1, <1>2

\* The channel was busy: another try, or none any more.
LEMMA BusyTried ==
  ASSUME NEW k \in Idle, NEW s \in RadioState, s.sound, Dark(s), s.tx = "go", s.csp = "none",
         "stop" \notin s.mask, "int" \notin s.irq, s.nb <= maxCsmaBackoffs
  PROVE  LET t == ChannelBusy(s)
         IN Good(t, k) /\ t.tx \in {"none", "go"} /\ Kept(s, t)
<1> DEFINE u == [s EXCEPT !.tx = "busy", !.nb = @ + 1]
           v == RxOffRequest(u)
           p == [v EXCEPT !.csp = "none", !.cspz = "busy", !.irq = @ \ {"stop", "int"}]
           q == [p EXCEPT !.tx = "go"]
           w == [v EXCEPT !.tx = "none"]
<1>1. u \in RadioState
  <2>1. s.nb + 1 \in 0 .. maxCsmaBackoffs + 1
    BY RadioAssumption DEF RadioState
  <2> QED BY <2>1 DEF RadioState
<1>2. /\ u.sound /\ u.tx = "busy" /\ u.nb = s.nb + 1 /\ u.csp = s.csp /\ u.irq = s.irq
      /\ u.mask = s.mask /\ u.on = s.on /\ SameRx(s, u) /\ SameAir(s, u) /\ SameCalls(s, u)
      /\ u.reset = s.reset
  BY DEF RadioState, SameRx, SameAir, SameCalls
<1>3. ChannelBusy(s) = IF v.nb > maxCsmaBackoffs THEN TxComplete(v)
                       ELSE CspGo([CspPrep(v) EXCEPT !.tx = "go"])
  BY DEF ChannelBusy
<1> HIDE DEF u
<1>4. Sending(u, k)
  BY <1>2 DEF Sending, Starting, Idle
<1>5. Dark(u)
  BY <1>2 DEF Dark, SameRx, SameAir, SameCalls
<1>6. Core(u, k) /\ k \in Step
  BY <1>1, <1>2, <1>4, <1>5 DEF Core, Idle, Step
<1>7. /\ Core(v, k) /\ Lit(v, k)
      /\ SameSend(u, v) /\ SameRx(u, v) /\ SameCalls(u, v) /\ v.reset = u.reset
      /\ SameAir(u, v) \/ (Flushed(v) /\ u.rx # "started" /\ ~u.outAck)
  BY <1>6, OffRequest
<1> HIDE DEF v
<1>8. /\ v \in RadioState /\ v.sound /\ Dark(v) /\ v.tx = "busy" /\ v.csp = "none"
      /\ "stop" \notin v.mask /\ "int" \notin v.irq /\ ~v.asleep /\ Kept(s, v)
  <2>1. ~s.asleep
    BY DEF Dark
  <2> QED
    BY <2>1, <1>2, <1>7 DEF Core, SameSend, Kept, SameRx, SameAir, SameCalls, Flushed
<1>9. CASE v.nb > maxCsmaBackoffs
  <2>1. /\ w \in RadioState /\ w.sound /\ w.tx = "none" /\ w.csp = v.csp /\ w.irq = v.irq
        /\ w.mask = v.mask /\ w.on = v.on /\ SameRx(v, w) /\ SameAir(v, w) /\ SameCalls(v, w)
    BY <1>8 DEF RadioState, SameRx, SameAir, SameCalls
  <2> HIDE DEF w
  <2>3. Sending(w, k)
    BY <1>8, <2>1 DEF Sending, Starting, Idle
  <2>4. Dark(w)
    BY <1>8, <2>1 DEF Dark, SameRx, SameAir, SameCalls
  <2>5. Core(w, k)
    BY <2>1, <2>3, <2>4 DEF Core
  <2>6. LET t == TxComplete(v) IN Good(t, k) /\ t.tx = "none" /\ Kept(v, t)
    BY <1>6, <1>8, <2>5, Completes DEF w
  <2> QED BY <1>3, <1>8, <1>9, <2>6 DEF Kept, SameRx, SameAir, SameCalls, Flushed
<1>10. CASE ~(v.nb > maxCsmaBackoffs)
  <2>1. Assert_(v, "stop" \notin v.mask) = v
    BY <1>8, AssertHolds
  <2>2. CspPrep(v) = p
    BY <2>1, Zenon DEF CspPrep
  <2>3. p \in RadioState
    BY <1>8 DEF RadioState
  <2>4. /\ p.sound /\ p.nb = v.nb /\ p.cspz = "busy" /\ p.irq = v.irq \ {"stop", "int"}
        /\ p.mask = v.mask /\ SameRx(v, p) /\ SameAir(v, p) /\ SameCalls(v, p)
        /\ p.reset = v.reset
    BY <1>8 DEF RadioState, SameRx, SameAir, SameCalls
  <2> HIDE DEF p
  <2>5. /\ q \in RadioState /\ q.sound /\ q.tx = "go" /\ q.nb = p.nb /\ q.cspz = p.cspz
        /\ q.irq = p.irq /\ q.mask = p.mask
        /\ SameRx(p, q) /\ SameAir(p, q) /\ SameCalls(p, q) /\ q.reset = p.reset
    BY <2>3, <2>4 DEF RadioState, SameRx, SameAir, SameCalls
  <2>6. ChannelBusy(s) = CspGo(q)
    BY <1>3, <1>10, <2>2
  <2> HIDE DEF q
  <2> DEFINE t == CspGo(q)
  <2>7. /\ t \in RadioState /\ SameRx(v, t) /\ SameAir(v, t) /\ SameCalls(v, t)
        /\ t.reset = v.reset /\ t.sound /\ t.tx = "go" /\ t.nb = v.nb
        /\ t.irq = v.irq \ {"stop", "int"} /\ t.cspz = "busy" /\ t.csp = "csma" /\ t.on
        /\ {"stop", "int"} \subseteq t.mask
    BY <2>4, <2>5, GoFields DEF SameRx, SameAir, SameCalls
  <2> HIDE DEF t
  <2>8. t.nb <= maxCsmaBackoffs
    BY <1>8, <1>10, <2>7, RadioAssumption DEF RadioState
  <2>9. Sending(t, k)
    BY <2>7, <2>8 DEF Sending, Starting, Idle
  <2>10. Dark(t) /\ Lit(t, k) /\ Settled(t)
    BY <1>8, <2>7 DEF Dark, Lit, Settled, SameRx, SameAir, SameCalls
  <2>11. Kept(s, t)
    BY <1>8, <2>7 DEF Kept, SameRx, SameAir, SameCalls, Flushed
  <2> QED BY <2>6, <2>7, <2>9, <2>10, <2>11 DEF Good, Core, t
<1> QED BY <1>9, <1>10

\* The interrupt of the command processor's end.
LEMMA ProgramEnds ==
  ASSUME NEW k \in Step, NEW s, Good(s, k), s.tx # "busy",
         "stop" \in s.mask, "stop" \in s.irq, "int" \notin s.irq \/ "int" \notin s.mask
  PROVE  LET t == StopIsr([s EXCEPT !.irq = @ \ {"stop"}])
         IN Good(t, k) /\ t.tx # "busy" /\ Kept(s, t)
<1> DEFINE r == [s EXCEPT !.irq = @ \ {"stop"}]
           u == [r EXCEPT !.mask = @ \ {"stop"}]
<1>1. s \in RadioState /\ s.sound /\ Sending(s, k) /\ Dark(s)
  BY DEF Good, Core
<1>2. s.tx \in {"go", "listen"} /\ k \in Idle /\ s.csp = "none"
  BY <1>1 DEF RadioState, Sending, Starting, Idle, Step
<1>3. s.tx = "listen" => s.cspz = "timeout"
  BY <1>1 DEF Sending
<1>4. s.tx = "go" => /\ s.cspz \in {"busy", "done"} /\ (s.cspz = "busy" => "int" \notin s.irq)
                     /\ s.nb <= maxCsmaBackoffs
  BY <1>1, <1>2 DEF RadioState, Sending, Starting, Idle
<1>5. u \in RadioState
  BY <1>1 DEF RadioState, Interrupts
<1>6. /\ u.sound /\ u.tx = s.tx /\ u.nb = s.nb /\ u.csp = s.csp /\ u.cspz = s.cspz
      /\ u.irq = s.irq \ {"stop"} /\ u.mask = s.mask \ {"stop"} /\ u.on = s.on
      /\ SameRx(s, u) /\ SameAir(s, u) /\ SameCalls(s, u) /\ u.reset = s.reset
  BY <1>1 DEF RadioState, SameRx, SameAir, SameCalls
<1>7. StopIsr(r) = CASE u.cspz = "done" -> TxDone(u)
                     [] u.cspz = "busy" -> ChannelBusy(u)
                     [] OTHER -> AckReceivedOrNot(u)
  BY DEF StopIsr
<1> HIDE DEF u
<1>8. Dark(u)
  BY <1>1, <1>6 DEF Dark, SameRx, SameAir, SameCalls
<1>9. LET t == StopIsr(r) IN Good(t, k) /\ t.tx # "busy" /\ Kept(u, t)
  <2>1. CASE u.cspz = "done"
    BY <2>1, <1>2, <1>3, <1>4, <1>5, <1>6, <1>7, <1>8, FrameSent
  <2>2. CASE u.cspz = "busy"
    <3>1. StopIsr(r) = ChannelBusy(u)
      BY <2>2, <1>7
    <3> QED BY <2>2, <3>1, <1>2, <1>3, <1>4, <1>5, <1>6, <1>8, BusyTried
  <2>3. CASE u.cspz \notin {"busy", "done"}
    <3>1. StopIsr(r) = AckReceivedOrNot(u)
      BY <2>3, <1>7
    <3> QED BY <2>3, <3>1, <1>2, <1>4, <1>5, <1>6, <1>8, AckCompletes
  <2> QED BY <2>1, <2>2, <2>3
<1> QED
  BY <1>6, <1>9 DEF Kept, SameRx, SameAir, SameCalls

\* The end of a transmit that the interrupt of a receive has overtaken.
LEMMA TxForced ==
  ASSUME NEW k \in Step, NEW s, Good(s, k), s.tx # "busy"
  PROVE  LET t == ForceTxDoneIfPending(s)
         IN Good(t, k) /\ t.tx # "busy" /\ Kept(s, t)
<1>1. s \in RadioState /\ s.sound /\ Sending(s, k) /\ Dark(s)
  BY DEF Good, Core
<1>2. CASE s.cspz = "done" /\ "stop" \in s.mask
  <2> DEFINE r == [s EXCEPT !.mask = @ \ {"stop"}]
             u == [r EXCEPT !.mask = @ \ {"int"}]
             t == IF "int" \in r.mask THEN IntIsr(r) ELSE r
  <2>1. s.tx = "go" /\ k \in Idle /\ s.csp = "none"
    BY <1>1, <1>2 DEF RadioState, Sending, Starting, Idle, Step
  <2>2. /\ r \in RadioState /\ r.sound /\ r.tx = "go" /\ r.nb = s.nb /\ r.csp = "none"
        /\ r.irq = s.irq /\ r.mask = s.mask \ {"stop"} /\ r.on = s.on
        /\ SameRx(s, r) /\ SameAir(s, r) /\ SameCalls(s, r) /\ r.reset = s.reset
    BY <1>1, <2>1 DEF RadioState, SameRx, SameAir, SameCalls
  <2>3. ForceTxDoneIfPending(s) = TxDone(t)
    BY <1>2 DEF ForceTxDoneIfPending
  <2> HIDE DEF r
  <2>4. Assert_(r, r.tx # "none") = r
    BY <2>2, AssertHolds
  <2>5. IntIsr(r) = u
    BY <2>4, Zenon DEF IntIsr
  <2>6. /\ u \in RadioState /\ u.sound /\ u.tx = "go" /\ u.nb = r.nb /\ u.csp = "none"
        /\ u.irq = r.irq /\ u.mask = r.mask \ {"int"} /\ u.on = r.on
        /\ SameRx(r, u) /\ SameAir(r, u) /\ SameCalls(r, u) /\ u.reset = r.reset
    BY <2>2 DEF RadioState, SameRx, SameAir, SameCalls
  <2> HIDE DEF u
  <2>7. /\ t \in RadioState /\ t.sound /\ t.tx = "go" /\ t.nb = s.nb /\ t.csp = "none"
        /\ t.irq = s.irq /\ "int" \notin t.mask /\ "stop" \notin t.mask /\ t.on = s.on
        /\ SameRx(s, t) /\ SameAir(s, t) /\ SameCalls(s, t) /\ t.reset = s.reset
    BY <2>2, <2>5, <2>6 DEF SameRx, SameAir, SameCalls
  <2> HIDE DEF t
  <2>8. Dark(t)
    BY <1>1, <2>1, <2>7 DEF Dark, SameRx, SameAir, SameCalls
  <2>9. LET d == TxDone(t) IN Good(d, k) /\ d.tx \in {"none", "listen"} /\ Kept(t, d)
    BY <2>1, <2>7, <2>8, FrameSent
  <2> QED BY <2>3, <2>7, <2>9 DEF Kept, SameRx, SameAir, SameCalls
<1>3. CASE ~(s.cspz = "done" /\ "stop" \in s.mask)
  BY <1>3 DEF ForceTxDoneIfPending, Kept, SameRx, SameAir
<1> QED BY <1>2, <1>3

\* The frame that goes out is not concerned, or what waits for an ACK ends.
LEMMA AckOrNot ==
  ASSUME NEW k \in Step, NEW s, Good(s, k), s.tx # "busy"
  PROVE  LET t == AckReceivedOrNot(s)
         IN Good(t, k) /\ t.tx # "busy" /\ Kept(s, t)
<1>1. CASE s.tx = "listen"
  <2>1. k \in Idle
    BY <1>1 DEF Good, Core, Sending, Starting, Step, Idle
  <2> QED BY <1>1, <2>1, AckCompletes DEF Good, Core, Sending
<1>2. CASE s.tx # "listen"
  BY <1>2 DEF AckReceivedOrNot, Kept, SameRx, SameAir
<1> QED BY <1>1, <1>2

-----------------------------------------------------------------------------
(* The receive *)

\* What Good depends on.
LEMMA SameGood ==
  ASSUME NEW k, NEW s, Good(s, k), NEW t \in RadioState, t.sound, SameSend(s, t),
         SameCalls(s, t), SameAir(s, t), t.on = s.on, t.rx = s.rx, t.outAck = s.outAck
  PROVE  Good(t, k)
<1>1. Sending(t, k)
  BY DEF Good, Core, Sending, SameSend
<1>2. Dark(t) /\ Lit(t, k) /\ Settled(t)
  BY DEF Good, Core, Dark, Lit, Settled, SameSend, SameCalls, SameAir
<1> QED BY <1>1, <1>2 DEF Good, Core

\* Another piece is expected.
LEMMA ExpectNext ==
  ASSUME NEW s \in RadioState, NEW state \in {"start", "body", "fcs", "skipBody", "skipFcs"}
  PROVE  LET t == [s EXCEPT !.state = state]
         IN /\ t \in RadioState /\ t.sound = s.sound /\ SameSend(s, t) /\ SameCalls(s, t)
            /\ SameAir(s, t) /\ t.on = s.on /\ t.rx = s.rx /\ t.outAck = s.outAck
            /\ t.reset = s.reset /\ t.state = state
BY DEF RadioState, SameSend, SameCalls, SameAir

\* The radio will not send an ACK.
LEMMA NotAsked ==
  ASSUME NEW s \in RadioState
  PROVE  LET t == [s EXCEPT !.asks = FALSE]
         IN /\ t \in RadioState /\ t.sound = s.sound /\ SameSend(s, t) /\ SameCalls(s, t)
            /\ SameAir(s, t) /\ t.on = s.on /\ t.rx = s.rx /\ t.outAck = s.outAck
            /\ t.reset = s.reset /\ t.state = s.state
BY DEF RadioState, SameSend, SameCalls, SameAir

\* What is read is the piece that is expected, if not junk that looks like it.
LEMMA Reads ==
  ASSUME NEW s \in RadioState, s.sound, NEW junk \in Awaited(s.state),
         s.fifo # <<>> => s.fifo[1] \in Awaited(s.state)
  PROVE  LET r == Read(s, junk) t == r.after
         IN /\ t \in RadioState /\ t.sound /\ SameSend(s, t) /\ SameCalls(s, t) /\ SameRx(s, t)
            /\ t.on = s.on /\ t.reset = s.reset /\ t.over = s.over /\ t.coming = s.coming
            /\ r.piece \in Awaited(s.state)
            /\ IF s.fifo = <<>> THEN t.fifo = <<>> ELSE t.fifo = Tail(s.fifo) /\ r.piece = s.fifo[1]
<1> DEFINE p == s.fifo = <<>> \/ Head(s.fifo) \in Expected[s.state]
           q == IF s.fifo = <<>> THEN s.fifo ELSE Tail(s.fifo)
           t == [s EXCEPT !.fifo = IF @ = <<>> THEN @ ELSE Tail(@)]
           piece == IF s.fifo = <<>> THEN junk ELSE Head(s.fifo)
<1>1. s.state \in {"start", "body", "fcs", "skipBody", "skipFcs"} /\ s.fifo \in Fifo
  BY DEF RadioState
<1>2. s.fifo # <<>> => Head(s.fifo) = s.fifo[1] /\ Tail(s.fifo) \in Fifo
  <2> SUFFICES ASSUME s.fifo # <<>> PROVE Head(s.fifo) = s.fifo[1] /\ Tail(s.fifo) \in Fifo
    OBVIOUS
  <2>1. s.fifo \in Seq(Pieces) /\ Len(s.fifo) <= FifoSize
    BY <1>1 DEF Fifo
  <2>2. Tail(s.fifo) \in Seq(Pieces) /\ Len(Tail(s.fifo)) = Len(s.fifo) - 1 /\ Len(s.fifo) \in Nat
    BY <2>1, HeadTailProperties, EmptySeq
  <2>3. Tail(s.fifo) \in Fifo
    BY <2>1, <2>2, RadioAssumption DEF Fifo
  <2> QED BY <2>1, <2>3
<1>3. p
  BY <1>1, <1>2, ExpectedIs
<1>4. Assert_(s, p) = s
  BY <1>3, AssertHolds
<1>5. Read(s, junk) = [piece |-> piece, after |-> t]
  BY <1>4, Zenon DEF Read
<1>6. q \in Fifo
  BY <1>1, <1>2
<1>7. t = [s EXCEPT !.fifo = q]
  OBVIOUS
<1> HIDE DEF q
<1>8. /\ t \in RadioState /\ t.sound /\ SameSend(s, t) /\ SameCalls(s, t) /\ SameRx(s, t)
      /\ t.on = s.on /\ t.reset = s.reset /\ t.over = s.over /\ t.coming = s.coming
      /\ t.fifo = q
  BY <1>6, <1>7 DEF RadioState, SameSend, SameCalls, SameRx
<1>9. piece \in Awaited(s.state) /\ (s.fifo # <<>> => piece = s.fifo[1])
  BY <1>2
<1>10. Read(s, junk).piece = piece /\ Read(s, junk).after = t
  BY <1>5
<1> HIDE DEF t, piece
<1> QED
  BY <1>8, <1>9, <1>10 DEF q

\* A reading keeps the rest of the state as it was.
LEMMA ReadKeeps ==
  ASSUME NEW k, NEW s, Good(s, k), NEW junk \in Awaited(s.state),
         s.fifo # <<>> => s.fifo[1] \in Awaited(s.state)
  PROVE  Good(Read(s, junk).after, k)
<1> DEFINE t == Read(s, junk).after
<1>1. s \in RadioState /\ s.sound
  BY DEF Good, Core
<1>2. /\ t \in RadioState /\ t.sound /\ SameSend(s, t) /\ SameCalls(s, t) /\ SameRx(s, t)
      /\ t.on = s.on /\ t.over = s.over /\ t.coming = s.coming
      /\ s.fifo = <<>> => t.fifo = <<>>
  BY <1>1, Reads
<1> HIDE DEF t
<1>3. Sending(t, k)
  BY <1>2 DEF Good, Core, Sending, SameSend
<1>4. Dark(t) /\ Lit(t, k) /\ Settled(t)
  BY <1>2 DEF Good, Core, Dark, Lit, Settled, SameSend, SameRx, SameCalls
<1> QED BY <1>2, <1>3, <1>4 DEF Good, Core, t

\* After a piece has been read, the rest fits what follows it.
LEMMA ReadFits ==
  ASSUME NEW s, s \in RadioState, Fits(s), s.fifo # <<>> \/ s.over, s.over => s.coming = <<>>,
         NEW piece, s.fifo # <<>> => piece = s.fifo[1], NEW t,
         t.over = s.over, t.coming = s.coming,
         IF s.fifo = <<>> THEN t.fifo = <<>> ELSE t.fifo = Tail(s.fifo),
         Awaited(t.state) = Following(piece)
  PROVE  Fits(t)
<1>1. s.fifo \in Seq(Pieces)
  BY DEF RadioState, Fifo
<1>2. CASE s.fifo = <<>>
  <2>1. t.fifo = <<>> /\ s.over /\ t.coming = <<>>
    BY <1>2
  <2> QED BY <2>1 DEF Fits, Chain
<1>3. CASE s.fifo # <<>>
  <2> DEFINE n == Len(s.fifo)
  <2>1. /\ n \in Nat /\ n > 0 /\ t.fifo \in Seq(Pieces)
        /\ Len(t.fifo) = n - 1 /\ \A i \in 1 .. n - 1 : t.fifo[i] = s.fifo[i + 1]
    <3>1. t.fifo = Tail(s.fifo)
      BY <1>3
    <3>2. n \in Nat /\ n > 0
      BY <1>1, <1>3, EmptySeq
    <3>3. /\ Tail(s.fifo) \in Seq(Pieces) /\ Len(Tail(s.fifo)) = n - 1
          /\ \A i \in 1 .. Len(Tail(s.fifo)) : Tail(s.fifo)[i] = s.fifo[i + 1]
      BY <1>1, <1>3, HeadTailProperties
    <3> QED BY <3>1, <3>2, <3>3
  <2>2. t.fifo = <<>> <=> n = 1
    <3>1. Len(t.fifo) = 0 => t.fifo = <<>>
      BY <2>1, EmptySeq
    <3>2. t.fifo = <<>> => Len(t.fifo) = 0
      BY EmptySeq
    <3>3. n \in Nat /\ Len(t.fifo) = n - 1
      BY <2>1
    <3> QED BY <3>1, <3>2, <3>3
  <2>3. Chain(t.fifo)
    BY <2>1 DEF Fits, Chain
  <2>4. t.fifo # <<>> => t.fifo[1] \in Awaited(t.state)
    BY <1>3, <2>1, <2>2 DEF Fits, Chain
  <2>5. Behind(t.fifo, t.state) = Behind(s.fifo, s.state)
    BY <1>3, <2>1, <2>2 DEF Behind
  <2> QED BY <2>3, <2>4, <2>5 DEF Fits
<1> QED BY <1>2, <1>3

\* An empty FIFO fits the start of a frame.
LEMMA FlushFits ==
  ASSUME NEW t, Flushed(t), t.state = "start"
  PROVE  Fits(t)
BY DEF Flushed, Fits, Chain, Behind, Awaited

\* macRxDone, also for the pieces of a frame that was thrown away.
LEMMA RxEnds ==
  ASSUME NEW k \in Step, NEW s, Core(s, k), Settled(s), s.tx # "busy"
  PROVE  LET t == RxDone(s)
         IN /\ Good(t, k) /\ t.tx # "busy" /\ t.rx = "none" /\ t.state = s.state
            /\ t.inRx = s.inRx /\ t.reset = s.reset
            /\ SameAir(s, t) \/ Flushed(t)
            /\ s.over => Flushed(t)
<1> DEFINE u == IF s.over THEN FlushRxFifo(s) ELSE s
           v == [u EXCEPT !.rx = "none"]
<1>1. s \in RadioState /\ s.sound /\ Sending(s, k) /\ Dark(s)
  BY DEF Core
<1>2. FlushRxFifo(s) \in RadioState
  BY <1>1, EmptyFifo DEF FlushRxFifo, RadioState
<1>3. /\ u \in RadioState /\ u.sound /\ SameSend(s, u) /\ SameRx(s, u) /\ SameCalls(s, u)
      /\ u.reset = s.reset /\ u.on = s.on /\ (s.over => Flushed(u)) /\ (~s.over => SameAir(s, u))
  <2>1. CASE s.over
    BY <1>1, <1>2, <2>1 DEF FlushRxFifo, RadioState, SameSend, SameRx, SameCalls, Flushed
  <2>2. CASE ~s.over
    BY <1>1, <2>2 DEF SameSend, SameRx, SameCalls, SameAir
  <2> QED BY <2>1, <2>2
<1>4. RxDone(s) = IF v.outAck THEN v ELSE PostRxUpdates(v)
  BY DEF RxDone
<1> HIDE DEF u
<1>5. /\ v \in RadioState /\ v.sound /\ SameSend(u, v) /\ SameAir(u, v) /\ SameCalls(u, v)
      /\ v.reset = u.reset /\ v.on = u.on /\ v.rx = "none" /\ v.outAck = u.outAck
      /\ v.state = u.state
  BY <1>3 DEF RadioState, SameSend, SameCalls, SameAir
<1> HIDE DEF v
<1>6. Sending(v, k)
  BY <1>1, <1>3, <1>5 DEF Sending, SameSend
<1>7. Dark(v)
  BY <1>1, <1>3, <1>5 DEF Dark, SameSend, SameRx, SameCalls, SameAir, Flushed
<1>8. Core(v, k) /\ Settled(v) /\ v.tx # "busy" /\ (SameAir(s, v) \/ Flushed(v))
      /\ (s.over => Flushed(v))
  BY <1>3, <1>5, <1>6, <1>7 DEF Core, Settled, SameSend, SameCalls, SameAir, Flushed
<1>9. CASE v.outAck
  BY <1>3, <1>4, <1>5, <1>8, <1>9 DEF Good, Lit, SameRx, SameCalls
<1>10. CASE ~v.outAck
  <2>1. LET t == PostRxUpdates(v)
        IN /\ Core(t, k) /\ Lit(t, k)
           /\ SameRx(v, t) /\ SameCalls(v, t) /\ t.reset = v.reset
           /\ t.tx = "none" <=> v.tx = "none"
           /\ v.tx # "busy" => t.tx # "busy"
           /\ SameAir(v, t) \/ Flushed(t)
    BY <1>5, <1>8, <1>10, PostUpdates
  <2> QED BY <2>1, <1>3, <1>4, <1>5, <1>8, <1>10 DEF Good, Settled, SameRx, SameCalls, SameAir, Flushed
<1> QED BY <1>9, <1>10

\* The part of an interrupt that reads one piece begins in Entered, and leaves
\* what it read about, or a reset at its end.
Entered(s, k) ==
  /\ Good(s, k) /\ Receiving(s) /\ s.tx # "busy" /\ s.inRx /\ ~s.reset
  /\ s.fifo # <<>> \/ s.over
Left(s, k) == Good(s, k) /\ s.tx # "busy" /\ s.inRx /\ (s.reset \/ Receiving(s))

\* A frame that is received keeps the radio awake.
LEMMA EnteredAwake ==
  ASSUME NEW k, NEW s, Entered(s, k)
  PROVE  s \in RadioState /\ s.sound /\ s.on /\ ~s.asleep /\ (s.over => s.coming = <<>>) /\ Fits(s)
         /\ (s.fifo # <<>> => s.fifo[1] \in Awaited(s.state))
BY DEF Entered, Good, Core, Dark, Receiving, Fits

\* macRxDone after the last piece of a frame.
LEMMA LastPiece ==
  ASSUME NEW k \in Step, NEW s, Core(s, k), Settled(s), s.tx # "busy", s.inRx, s.state = "start",
         s.reset \/ Fits(s) \/ Flushed(s)
  PROVE  Left(RxDone(s), k)
<1> DEFINE t == RxDone(s)
<1>1. /\ Good(t, k) /\ t.tx # "busy" /\ t.rx = "none" /\ t.state = "start"
      /\ t.inRx /\ t.reset = s.reset
      /\ SameAir(s, t) \/ Flushed(t)
      /\ s.over => Flushed(t)
  BY RxEnds
<1> HIDE DEF t
<1>2. CASE s.reset
  BY <1>1, <1>2 DEF Left, t
<1>3. CASE Flushed(s) \/ Flushed(t)
  <2>1. Fits(t)
    BY <1>1, <1>3, FlushFits DEF SameAir, Flushed
  <2> QED BY <2>1, <1>1 DEF Left, Receiving, t
<1>4. CASE ~s.reset /\ ~Flushed(s) /\ ~Flushed(t)
  <2>1. Fits(t)
    BY <1>1, <1>4 DEF SameAir, Fits
  <2> QED BY <2>1, <1>1 DEF Left, Receiving, t
<1> QED BY <1>2, <1>3, <1>4

\* macRxFifoOverflow apart, what follows the start of a frame: a buffer, and an
\* ACK if it is asked for.
LEMMA Takes ==
  ASSUME NEW k \in Step, NEW s, Good(s, k), s.rx = "started", ~s.asleep, NEW header
  PROVE  LET t == Take(s, header)
         IN /\ Good(t, k) /\ t.tx = s.tx /\ t.rx = "started" /\ t.state = "body" /\ t.inRx = s.inRx
            /\ t.reset = s.reset /\ SameAir(s, t)
<1> DEFINE t == Take(s, header)
<1>1. s \in RadioState /\ s.sound /\ Sending(s, k) /\ Dark(s) /\ Settled(s)
  BY DEF Good, Core
<1>2. /\ t \in RadioState /\ t.sound /\ SameAir(s, t) /\ SameCalls(s, t) /\ t.tx = s.tx
      /\ t.nb = s.nb /\ t.csp = s.csp /\ t.cspz = s.cspz /\ t.on = s.on /\ t.rx = s.rx
      /\ t.state = "body" /\ t.reset = s.reset
      /\ \A i \in {"int", "stop"} : (i \in t.irq <=> i \in s.irq) /\ (i \in t.mask <=> i \in s.mask)
  <2>1. CASE header = "request"
    <3> DEFINE u == [s EXCEPT !.state = "body", !.outAck = TRUE, !.irq = @ \ {"ackDone"},
                              !.mask = @ \cup {"ackDone"}]
    <3>1. u \in RadioState
      BY <1>1 DEF RadioState, Interrupts
    <3>2. /\ u.sound /\ SameAir(s, u) /\ SameCalls(s, u) /\ u.tx = s.tx
          /\ u.nb = s.nb /\ u.csp = s.csp /\ u.cspz = s.cspz /\ u.on = s.on /\ u.rx = s.rx
          /\ u.state = "body" /\ u.reset = s.reset
          /\ u.irq = s.irq \ {"ackDone"} /\ u.mask = s.mask \cup {"ackDone"}
      BY <1>1 DEF RadioState, SameAir, SameCalls
    <3>3. t = u
      BY <2>1 DEF Take
    <3> HIDE DEF t, u
    <3> QED BY <3>1, <3>2, <3>3
  <2>2. CASE header # "request"
    BY <1>1, <2>2 DEF Take, RadioState, SameAir, SameCalls
  <2> QED BY <2>1, <2>2
<1> HIDE DEF t
<1>3. Sending(t, k)
  BY <1>1, <1>2 DEF Sending
<1>4. Dark(t) /\ Lit(t, k) /\ Settled(t)
  BY <1>1, <1>2 DEF Dark, Lit, Settled, SameAir, SameCalls
<1> QED BY <1>2, <1>3, <1>4 DEF Good, Core, SameCalls, t

\* rxStartIsr: a new frame is taken, thrown away or given up.
LEMMA Starts ==
  ASSUME NEW k \in Step, NEW s, Entered(s, k), s.state = "start",
         NEW junk \in Awaited("start"), NEW fate
  PROVE  Left(StartIsr(s, junk, fate), k)
<1> DEFINE a == [s EXCEPT !.rx = "started"]
           f == ForceTxDoneIfPending(a)
           b == ForgetAck(f)
           r == Read(b, junk)
           e == r.after
           c == AckReceivedOrNot(e)
           d == CASE r.piece = "ack" -> RxDone(c)
                  [] r.piece # "ack" /\ fate = "take" -> Take(c, r.piece)
                  [] r.piece # "ack" /\ fate = "filter" -> [c EXCEPT !.state = "skipBody"]
                  [] OTHER -> [c EXCEPT !.state = "skipBody", !.asks = FALSE]
<1>1. /\ s \in RadioState /\ s.sound /\ s.on /\ ~s.asleep /\ (s.over => s.coming = <<>>)
      /\ (s.fifo # <<>> => s.fifo[1] \in Awaited("start")) /\ s.rx = "none" /\ Fits(s)
  BY EnteredAwake DEF Entered, Receiving
<1>2. Assert_(s, s.rx = "none") = s
  BY <1>1, AssertHolds
<1>3. /\ a \in RadioState /\ a.sound /\ SameSend(s, a) /\ SameCalls(s, a) /\ SameAir(s, a)
      /\ a.on = s.on /\ a.outAck = s.outAck /\ a.reset = s.reset /\ a.rx = "started"
      /\ a.state = "start"
  BY <1>1 DEF RadioState, SameSend, SameCalls, SameAir
<1>4. StartIsr(s, junk, fate) =
        IF a.on /\ (a.over \/ a.fifo # <<>>) THEN d ELSE PostRxUpdates([a EXCEPT !.rx = "none"])
  BY <1>2, Zenon DEF StartIsr
<1> HIDE DEF a
<1>5. Good(a, k)
  <2>1. Sending(a, k)
    BY <1>3 DEF Entered, Good, Core, Sending, SameSend
  <2>2. Dark(a) /\ Lit(a, k) /\ Settled(a)
    BY <1>1, <1>3 DEF Entered, Good, Core, Dark, Lit, Settled, SameSend, SameCalls, SameAir
  <2> QED BY <1>3, <2>1, <2>2 DEF Good, Core
<1>6. Good(f, k) /\ f.tx # "busy" /\ Kept(a, f)
  BY <1>3, <1>5, TxForced DEF Entered, SameSend
<1> HIDE DEF f
<1>7. /\ Good(b, k) /\ b.tx # "busy" /\ b.rx = "started" /\ b.inRx /\ b.state = "start" /\ ~b.asleep
      /\ (b.reset /\ Flushed(b)) \/ (~b.reset /\ SameAir(s, b))
  <2>1. /\ b \in RadioState /\ SameAir(f, b) /\ SameCalls(f, b) /\ b.outAck = FALSE
        /\ b.rx = f.rx /\ b.state = f.state /\ b.reset = f.reset /\ b.sound = f.sound
        /\ b.tx = f.tx /\ b.nb = f.nb /\ b.irq = f.irq /\ b.csp = f.csp /\ b.cspz = f.cspz
        /\ b.on = f.on /\ b.mask = f.mask \ {"ackDone"}
    BY <1>6, ForgetFields DEF Good, Core
  <2>2. f.rx = "started" /\ f.state = "start"
    BY <1>3, <1>6 DEF Kept, SameRx, Entered, SameCalls
  <2> HIDE DEF b
  <2>3. Sending(b, k)
    BY <1>6, <2>1 DEF Good, Core, Sending
  <2>4. Dark(b) /\ Lit(b, k) /\ Settled(b)
    BY <1>6, <2>1, <2>2 DEF Good, Core, Dark, Lit, Settled, SameCalls, SameAir
  <2>5. f.sound
    BY <1>6 DEF Good, Core
  <2>6. Good(b, k) /\ b.tx # "busy" /\ b.rx = "started"
    BY <1>6, <2>1, <2>2, <2>3, <2>4, <2>5 DEF Good, Core
  <2>7. a.inRx /\ ~a.reset /\ ~a.asleep /\ SameAir(s, a)
    BY <1>1, <1>3 DEF SameCalls, Entered
  <2>8. f.inRx /\ ~f.asleep /\ f.state = "start" /\ ((f.reset /\ Flushed(f)) \/ (~f.reset /\ SameAir(a, f)))
    BY <1>3, <1>6, <2>7 DEF Kept, SameRx
  <2> QED
    BY <2>1, <2>2, <2>6, <2>7, <2>8 DEF SameCalls, SameAir, Flushed
<1> HIDE DEF b
<1>8. junk \in Awaited(b.state) /\ (b.fifo # <<>> => b.fifo[1] \in Awaited(b.state))
  BY <1>1, <1>7 DEF Flushed, SameAir
<1>9. /\ Good(e, k) /\ e.tx # "busy" /\ e.rx = "started" /\ e.inRx /\ e.state = "start" /\ ~e.asleep
      /\ e.reset = b.reset /\ e.over = b.over /\ e.coming = b.coming
      /\ r.piece \in Awaited("start")
      /\ IF b.fifo = <<>> THEN e.fifo = <<>> ELSE e.fifo = Tail(b.fifo) /\ r.piece = b.fifo[1]
  <2>1. b \in RadioState /\ b.sound
    BY <1>7 DEF Good, Core
  <2>2. Good(e, k)
    BY <1>7, <1>8, ReadKeeps
  <2> QED BY <1>7, <1>8, <2>1, <2>2, Reads DEF SameSend, SameCalls, SameRx
<1> HIDE DEF r
<1>10. Good(c, k) /\ c.tx # "busy" /\ Kept(e, c)
  BY <1>9, AckOrNot
<1>11. c.reset \/ (~c.reset /\ ~b.reset /\ SameAir(e, c))
  BY <1>7, <1>9, <1>10 DEF Kept, SameRx, SameAir
<1>12. c.rx = "started" /\ c.state = "start" /\ c.inRx /\ ~c.asleep
  BY <1>9, <1>10 DEF Kept, SameRx
<1> HIDE DEF c
<1>13. \A t : SameAir(c, t) /\ Awaited(t.state) = Following(r.piece) => c.reset \/ Fits(t)
  <2> SUFFICES ASSUME NEW t, SameAir(c, t), Awaited(t.state) = Following(r.piece), ~c.reset
               PROVE  Fits(t)
    OBVIOUS
  <2>1. SameAir(s, b) /\ SameAir(e, c)
    BY <1>7, <1>11
  <2>2. s.fifo # <<>> \/ s.over
    BY DEF Entered
  <2>3. /\ t.over = s.over /\ t.coming = s.coming
        /\ s.fifo # <<>> => r.piece = s.fifo[1]
        /\ IF s.fifo = <<>> THEN t.fifo = <<>> ELSE t.fifo = Tail(s.fifo)
    BY <1>9, <2>1 DEF SameAir
  <2> QED BY <1>1, <2>2, <2>3, ReadFits
<1>14. Left(d, k)
  <2>1. CASE r.piece = "ack"
    <3>1. Awaited(c.state) = Following(r.piece)
      BY <1>12, <2>1 DEF Awaited, Following
    <3>2. c.reset \/ Fits(c)
      BY <3>1, <1>13 DEF SameAir
    <3> QED BY <2>1, <3>2, <1>10, <1>12, LastPiece DEF Good
  <2>2. CASE r.piece # "ack"
    <3>1. Following(r.piece) = {"body", "odd"}
      BY <1>9, <2>2 DEF Awaited, Following, Header
    <3>2. CASE fate = "take"
      <4>1. d = Take(c, r.piece)
        BY <2>2, <3>2
      <4> DEFINE t == Take(c, r.piece)
      <4>2. /\ Good(t, k) /\ t.tx = c.tx /\ t.rx = "started" /\ t.state = "body"
            /\ t.inRx = c.inRx /\ t.reset = c.reset /\ SameAir(c, t)
        <5>1. Good(c, k) /\ c.rx = "started" /\ ~c.asleep
          BY <1>10, <1>12
        <5> QED BY <5>1, Takes
      <4> HIDE DEF t
      <4>3. t.reset \/ Fits(t)
        BY <4>2, <3>1, <1>13 DEF Awaited
      <4>4. Left(t, k)
        BY <4>2, <4>3, <1>10, <1>12 DEF Left, Receiving
      <4> QED BY <4>1, <4>4 DEF t
    <3>3. CASE fate # "take"
      <4> DEFINE u == [c EXCEPT !.state = "skipBody"]
                 t == [u EXCEPT !.asks = FALSE]
      <4>0. d \in {u, t}
        BY <2>2, <3>3
      <4>1. c \in RadioState /\ c.sound
        BY <1>10 DEF Good, Core
      <4>2. /\ u \in RadioState /\ u.sound = c.sound /\ SameSend(c, u) /\ SameCalls(c, u)
            /\ SameAir(c, u) /\ u.on = c.on /\ u.rx = c.rx /\ u.outAck = c.outAck
            /\ u.reset = c.reset /\ u.state = "skipBody"
        BY <4>1, ExpectNext
      <4> HIDE DEF u
      <4>3. /\ t \in RadioState /\ t.sound = u.sound /\ SameSend(u, t) /\ SameCalls(u, t)
            /\ SameAir(u, t) /\ t.on = u.on /\ t.rx = u.rx /\ t.outAck = u.outAck
            /\ t.reset = u.reset /\ t.state = u.state
        BY <4>2, NotAsked
      <4> HIDE DEF t
      <4>4. Good(u, k)
        BY <4>1, <4>2, <1>10, SameGood
      <4>5. Good(t, k)
        BY <4>1, <4>2, <4>3, <4>4, SameGood
      <4>6. u.reset \/ (Fits(u) /\ Fits(t))
        BY <4>2, <4>3, <3>1, <1>13 DEF Awaited, SameAir
      <4>7. Left(u, k) /\ Left(t, k)
        BY <4>2, <4>3, <4>4, <4>5, <4>6, <1>10, <1>12 DEF Left, Receiving, SameSend, SameCalls
      <4> QED BY <4>0, <4>7
    <3> QED BY <3>2, <3>3
  <2> QED BY <2>1, <2>2
<1>15. a.on /\ (a.over \/ a.fifo # <<>>)
  BY <1>1, <1>3 DEF Entered, SameAir
<1> QED BY <1>4, <1>14, <1>15

\* A piece in the middle of a frame, or its last one, has been read.
LEMMA ReadOn ==
  ASSUME NEW k \in Step, NEW s, Entered(s, k), s.state # "start", NEW junk \in Awaited(s.state)
  PROVE  LET r == Read(s, junk) t == r.after
         IN /\ Good(t, k) /\ t.tx # "busy" /\ t.rx = "started" /\ t.inRx /\ ~t.reset /\ ~t.asleep
            /\ t.state = s.state /\ r.piece \in Awaited(s.state)
            /\ \A u : SameAir(t, u) /\ Awaited(u.state) = Following(r.piece) => Fits(u)
<1> DEFINE r == Read(s, junk)
           t == r.after
<1>1. /\ s \in RadioState /\ s.sound /\ s.on /\ ~s.asleep /\ (s.over => s.coming = <<>>)
      /\ (s.fifo # <<>> => s.fifo[1] \in Awaited(s.state)) /\ s.rx = "started" /\ Fits(s)
  BY EnteredAwake DEF Entered, Receiving
<1>2. /\ SameSend(s, t) /\ SameCalls(s, t) /\ SameRx(s, t)
      /\ t.on = s.on /\ t.reset = s.reset /\ t.over = s.over /\ t.coming = s.coming
      /\ r.piece \in Awaited(s.state)
      /\ IF s.fifo = <<>> THEN t.fifo = <<>> ELSE t.fifo = Tail(s.fifo) /\ r.piece = s.fifo[1]
  BY <1>1, Reads
<1>3. Good(t, k)
  BY <1>1, ReadKeeps DEF Entered
<1> HIDE DEF r
<1>4. ASSUME NEW u, SameAir(t, u), Awaited(u.state) = Following(r.piece) PROVE Fits(u)
  <2>1. s.fifo # <<>> \/ s.over
    BY DEF Entered
  <2>2. /\ u.over = s.over /\ u.coming = s.coming
        /\ s.fifo # <<>> => r.piece = s.fifo[1]
        /\ IF s.fifo = <<>> THEN u.fifo = <<>> ELSE u.fifo = Tail(s.fifo)
    BY <1>2, <1>4 DEF SameAir
  <2> QED BY <1>1, <1>4, <2>1, <2>2, ReadFits
<1> HIDE DEF t
<1> QED
  BY <1>1, <1>2, <1>3, <1>4 DEF Entered, SameSend, SameCalls, SameRx, r, t

\* rxAddrIsr to rxPayloadIsr: the frame goes on, or its security header is refused.
LEMMA Bodies ==
  ASSUME NEW k \in Step, NEW s, Entered(s, k), s.state = "body", NEW junk \in Awaited("body")
  PROVE  Left(BodyIsr(s, junk), k)
<1> DEFINE r == Read(s, junk)
           c == r.after
           u == [c EXCEPT !.state = "fcs"]
           t == [c EXCEPT !.asks = FALSE]
<1>1. /\ Good(c, k) /\ c.tx # "busy" /\ c.rx = "started" /\ c.inRx /\ ~c.reset
      /\ r.piece \in Awaited("body")
      /\ \A w : SameAir(c, w) /\ Awaited(w.state) = Following(r.piece) => Fits(w)
  BY ReadOn
<1>2. BodyIsr(s, junk) = IF r.piece = "odd" THEN RxHaltCleanup(t) ELSE u
  BY DEF BodyIsr
<1> HIDE DEF r
<1>3. c \in RadioState /\ c.sound
  BY <1>1 DEF Good, Core
<1> HIDE DEF c
<1>4. CASE r.piece = "odd"
  <2>1. /\ t \in RadioState /\ t.sound = c.sound /\ SameSend(c, t) /\ SameCalls(c, t)
        /\ SameAir(c, t) /\ t.on = c.on /\ t.rx = c.rx /\ t.outAck = c.outAck
    BY <1>3, NotAsked
  <2> HIDE DEF t
  <2>2. Good(t, k)
    BY <2>1, <1>1, <1>3, SameGood
  <2>3. t.inRx /\ t.tx # "busy"
    BY <1>1, <2>1 DEF SameSend, SameCalls
  <2>4. LET h == RxHaltCleanup(t)
        IN /\ Core(h, k) /\ Lit(h, k) /\ SameCalls(t, h)
           /\ h.tx = "none" <=> t.tx = "none"
           /\ t.tx # "busy" => h.tx # "busy"
           /\ t.inRx => h.reset /\ SameRx(t, h) /\ SameAir(t, h)
    BY <2>2, Halts DEF Good
  <2> QED BY <1>2, <1>4, <2>2, <2>3, <2>4 DEF Left, Good, Settled, SameCalls
<1>5. CASE r.piece # "odd"
  <2>1. /\ u \in RadioState /\ u.sound = c.sound /\ SameSend(c, u) /\ SameCalls(c, u)
        /\ SameAir(c, u) /\ u.on = c.on /\ u.rx = c.rx /\ u.outAck = c.outAck /\ u.state = "fcs"
    BY <1>3, ExpectNext
  <2> HIDE DEF u
  <2>2. Good(u, k)
    BY <2>1, <1>1, <1>3, SameGood
  <2>3. Fits(u)
    BY <2>1, <1>1 DEF Awaited, Following
  <2> QED BY <1>1, <1>2, <1>5, <2>1, <2>2, <2>3 DEF Left, Receiving, SameSend, SameCalls
<1> QED BY <1>4, <1>5

\* rxFcsIsr: the frame ends, with or without an ACK of the radio under way.
LEMMA Checks ==
  ASSUME NEW k \in Step, NEW s, Entered(s, k), s.state = "fcs", NEW junk \in Awaited("fcs")
  PROVE  Left(FcsIsr(s, junk), k)
<1> DEFINE r == Read(s, junk)
           c == r.after
           a == [c EXCEPT !.rx = "done"]
           t == IF r.piece = "good" THEN RxOffRequest(a) ELSE ForgetAck(c)
           u == [t EXCEPT !.state = "start"]
<1>1. /\ Good(c, k) /\ c.tx # "busy" /\ c.rx = "started" /\ c.inRx /\ ~c.reset /\ ~c.asleep
      /\ r.piece \in Awaited("fcs")
      /\ \A w : SameAir(c, w) /\ Awaited(w.state) = Following(r.piece) => Fits(w)
  BY ReadOn
<1>2. FcsIsr(s, junk) = RxDone(u)
  BY DEF FcsIsr
<1> HIDE DEF r
<1>3. c \in RadioState /\ c.sound /\ Sending(c, k) /\ Dark(c) /\ Settled(c)
  BY <1>1 DEF Good, Core
<1> HIDE DEF c
<1>4. Core(t, k) /\ SameCalls(c, t) /\ t.tx = c.tx /\ ~t.reset /\ (SameAir(c, t) \/ Flushed(t))
  <2>1. CASE r.piece = "good"
    <3>1. /\ a \in RadioState /\ a.sound /\ SameSend(c, a) /\ SameCalls(c, a) /\ SameAir(c, a)
          /\ a.on = c.on /\ a.reset = c.reset
      BY <1>3 DEF RadioState, SameSend, SameCalls, SameAir
    <3> HIDE DEF a
    <3>2. Sending(a, k)
      BY <1>3, <3>1 DEF Sending, SameSend
    <3>3. Dark(a)
      BY <1>1, <1>3, <3>1 DEF Dark, SameCalls, SameAir
    <3>4. Core(a, k)
      BY <3>1, <3>2, <3>3 DEF Core
    <3>5. LET q == RxOffRequest(a)
          IN /\ Core(q, k) /\ SameSend(a, q) /\ SameCalls(a, q) /\ q.reset = a.reset
             /\ SameAir(a, q) \/ (Flushed(q) /\ a.rx # "started" /\ ~a.outAck)
      BY <3>4, OffRequest
    <3> QED BY <2>1, <1>1, <3>1, <3>5 DEF SameSend, SameCalls, SameAir, Flushed
  <2>2. CASE r.piece # "good"
    <3> DEFINE q == ForgetAck(c)
    <3>1. /\ q \in RadioState /\ SameAir(c, q) /\ SameCalls(c, q) /\ q.outAck = FALSE
          /\ q.rx = c.rx /\ q.reset = c.reset /\ q.sound = c.sound
          /\ q.tx = c.tx /\ q.nb = c.nb /\ q.irq = c.irq /\ q.csp = c.csp /\ q.cspz = c.cspz
          /\ q.on = c.on /\ q.mask = c.mask \ {"ackDone"}
      BY <1>3, ForgetFields
    <3> HIDE DEF q
    <3>2. Sending(q, k)
      BY <1>3, <3>1 DEF Sending
    <3>3. Dark(q)
      BY <1>1, <1>3, <3>1 DEF Dark, SameCalls, SameAir
    <3>4. Core(q, k)
      BY <1>3, <3>1, <3>2, <3>3 DEF Core
    <3> QED BY <2>2, <1>1, <3>1, <3>4 DEF q
  <2> QED BY <2>1, <2>2
<1> HIDE DEF t
<1>5. t \in RadioState /\ t.sound /\ Sending(t, k) /\ Dark(t)
  BY <1>4 DEF Core
<1>6. /\ u \in RadioState /\ u.sound = t.sound /\ SameSend(t, u) /\ SameCalls(t, u)
      /\ SameAir(t, u) /\ u.on = t.on /\ u.rx = t.rx /\ u.outAck = t.outAck
      /\ u.reset = t.reset /\ u.state = "start"
  BY <1>5, ExpectNext
<1> HIDE DEF u
<1>7. Sending(u, k)
  BY <1>5, <1>6 DEF Sending, SameSend
<1>8. Dark(u)
  BY <1>5, <1>6 DEF Dark, SameSend, SameCalls, SameAir
<1>9. Core(u, k) /\ Settled(u) /\ u.tx # "busy" /\ u.inRx
  BY <1>1, <1>3, <1>4, <1>5, <1>6, <1>7, <1>8 DEF Core, Settled, SameSend, SameCalls
<1>10. Fits(u) \/ Flushed(u)
  <2>1. CASE Flushed(t)
    BY <2>1, <1>6 DEF Flushed, SameAir
  <2>2. CASE SameAir(c, t)
    <3>1. SameAir(c, u)
      BY <2>2, <1>6 DEF SameAir
    <3>2. Awaited(u.state) = Following(r.piece)
      BY <1>1, <1>6 DEF Awaited, Following
    <3> QED BY <3>1, <3>2, <1>1
  <2> QED BY <2>1, <2>2, <1>4
<1> QED BY <1>2, <1>6, <1>9, <1>10, LastPiece

\* rxDiscardIsr: a frame that nobody wants is read to its end.
LEMMA Discards ==
  ASSUME NEW k \in Step, NEW s, Entered(s, k), s.state \in {"skipBody", "skipFcs"},
         NEW junk \in Awaited(s.state)
  PROVE  Left(DiscardIsr(s, junk), k)
<1> DEFINE r == Read(s, junk)
           c == r.after
           next == IF s.state = "skipBody" THEN "skipFcs" ELSE "start"
           u == [c EXCEPT !.state = next]
<1>1. /\ Good(c, k) /\ c.tx # "busy" /\ c.rx = "started" /\ c.inRx /\ ~c.reset
      /\ r.piece \in Awaited(s.state)
      /\ \A w : SameAir(c, w) /\ Awaited(w.state) = Following(r.piece) => Fits(w)
  BY ReadOn
<1>2. DiscardIsr(s, junk) = IF s.state = "skipBody" THEN u ELSE RxDone(u)
  BY DEF DiscardIsr
<1> HIDE DEF r
<1>3. c \in RadioState /\ c.sound
  BY <1>1 DEF Good, Core
<1> HIDE DEF c
<1>4. next \in {"start", "body", "fcs", "skipBody", "skipFcs"} /\ Awaited(next) = Following(r.piece)
  BY <1>1 DEF Awaited, Following
<1>5. /\ u \in RadioState /\ u.sound = c.sound /\ SameSend(c, u) /\ SameCalls(c, u)
      /\ SameAir(c, u) /\ u.on = c.on /\ u.rx = c.rx /\ u.outAck = c.outAck
      /\ u.reset = c.reset /\ u.state = next
  BY <1>3, <1>4, ExpectNext
<1> HIDE DEF u
<1>6. Good(u, k)
  BY <1>5, <1>1, <1>3, SameGood
<1>7. Fits(u)
  BY <1>5, <1>4, <1>1
<1>8. u.tx # "busy" /\ u.inRx
  BY <1>1, <1>5 DEF SameSend, SameCalls
<1>9. CASE s.state = "skipBody"
  BY <1>1, <1>2, <1>5, <1>6, <1>7, <1>8, <1>9 DEF Left, Receiving
<1>10. CASE s.state # "skipBody"
  BY <1>2, <1>5, <1>6, <1>7, <1>8, <1>10, LastPiece DEF Good
<1> QED BY <1>9, <1>10

\* One interrupt of the receive FIFO, with the reset that may have waited for it.
LEMMA Threshold ==
  ASSUME NEW k \in Step, NEW s, Good(s, k), Receiving(s), s.tx # "busy", ~s.inRx, ~s.reset,
         s.fifo # <<>> \/ s.over, NEW junk \in Awaited(s.state), NEW fate
  PROVE  LET t == RxThresholdIsr(s, junk, fate)
         IN Good(t, k) /\ Receiving(t) /\ t.tx # "busy" /\ ~t.inRx /\ ~t.reset
<1> DEFINE a == [s EXCEPT !.inRx = TRUE]
           b == CASE a.state = "start" -> StartIsr(a, junk, fate)
                  [] a.state = "body" -> BodyIsr(a, junk)
                  [] a.state = "fcs" -> FcsIsr(a, junk)
                  [] OTHER -> DiscardIsr(a, junk)
           c == [b EXCEPT !.inRx = FALSE]
           h == HaltCleanupFinalStep(c)
           u == [h EXCEPT !.reset = FALSE]
<1>1. s \in RadioState /\ s.sound
  BY DEF Good, Core
<1>2. /\ a \in RadioState /\ a.sound = s.sound /\ SameSend(s, a) /\ SameRx(s, a) /\ SameAir(s, a)
      /\ a.asleep = s.asleep /\ a.moving = s.moving /\ a.enabled = s.enabled /\ a.on = s.on
      /\ a.inRx /\ a.reset = s.reset
  BY <1>1 DEF RadioState, SameSend, SameRx, SameAir
<1>3. RxThresholdIsr(s, junk, fate) = IF c.reset THEN u ELSE c
  BY DEF RxThresholdIsr
<1> HIDE DEF a
<1>4. Entered(a, k)
  <2>1. Sending(a, k)
    BY <1>2 DEF Good, Core, Sending, SameSend
  <2>2. Dark(a) /\ Lit(a, k) /\ Settled(a)
    BY <1>2 DEF Good, Core, Dark, Lit, Settled, SameSend, SameRx, SameAir
  <2>3. Receiving(a)
    BY <1>2 DEF Receiving, Fits, SameRx, SameAir
  <2> QED BY <1>1, <1>2, <2>1, <2>2, <2>3 DEF Entered, Good, Core, SameSend, SameAir
<1>5. Left(b, k)
  <2>1. a.state \in {"start", "body", "fcs", "skipBody", "skipFcs"} /\ junk \in Awaited(a.state)
    BY <1>1, <1>2 DEF RadioState, SameRx
  <2>2. CASE a.state = "start"
    BY <1>4, <2>1, <2>2, Starts
  <2>3. CASE a.state = "body"
    BY <1>4, <2>1, <2>3, Bodies
  <2>4. CASE a.state = "fcs"
    BY <1>4, <2>1, <2>4, Checks
  <2>5. CASE a.state \in {"skipBody", "skipFcs"}
    <3>1. b = DiscardIsr(a, junk)
      BY <2>5
    <3> QED BY <1>4, <2>1, <2>5, <3>1, Discards
  <2> QED BY <2>1, <2>2, <2>3, <2>4, <2>5
<1> HIDE DEF b
<1>6. b \in RadioState /\ b.sound
  BY <1>5 DEF Left, Good, Core
<1>7. /\ c \in RadioState /\ c.sound = b.sound /\ SameSend(b, c) /\ SameRx(b, c) /\ SameAir(b, c)
      /\ c.asleep = b.asleep /\ c.moving = b.moving /\ c.enabled = b.enabled /\ c.on = b.on
      /\ ~c.inRx /\ c.reset = b.reset
  BY <1>6 DEF RadioState, SameSend, SameRx, SameAir
<1> HIDE DEF c
<1>8. Good(c, k) /\ c.tx # "busy" /\ (c.reset \/ Receiving(c))
  <2>1. Sending(c, k)
    BY <1>5, <1>7 DEF Left, Good, Core, Sending, SameSend
  <2>2. Dark(c) /\ Lit(c, k) /\ Settled(c)
    BY <1>5, <1>7 DEF Left, Good, Core, Dark, Lit, Settled, SameSend, SameRx, SameAir
  <2>3. c.reset \/ Receiving(c)
    BY <1>5, <1>7 DEF Left, Receiving, Fits, SameRx, SameAir
  <2> QED BY <1>5, <1>6, <1>7, <2>1, <2>2, <2>3 DEF Left, Good, Core, SameSend
<1>9. CASE c.reset
  <2>1. /\ Core(h, k) /\ Lit(h, k) /\ h.state = "start" /\ h.rx = "none" /\ Flushed(h)
        /\ SameCalls(c, h)
        /\ h.tx = "none" <=> c.tx = "none"
        /\ c.tx # "busy" => h.tx # "busy"
    BY <1>8, HaltEnds DEF Good
  <2> HIDE DEF h
  <2>2. h \in RadioState /\ h.sound
    BY <2>1 DEF Core
  <2>3. /\ u \in RadioState /\ u.sound = h.sound /\ SameSend(h, u) /\ SameRx(h, u)
        /\ SameAir(h, u) /\ SameCalls(h, u) /\ u.on = h.on /\ u.reset = FALSE
    BY <2>2 DEF RadioState, SameSend, SameRx, SameAir, SameCalls
  <2> HIDE DEF u
  <2>4. Good(h, k)
    BY <1>8, <2>1 DEF Good, Settled, SameCalls
  <2>5. Good(u, k)
    BY <2>2, <2>3, <2>4, SameGood DEF SameRx
  <2>6. Fits(u)
    BY <2>1, <2>3, FlushFits DEF SameAir, SameRx, Flushed
  <2> QED
    BY <1>3, <1>7, <1>8, <1>9, <2>1, <2>3, <2>5, <2>6 DEF Receiving, SameRx, SameSend, SameCalls
<1>10. CASE ~c.reset
  BY <1>3, <1>7, <1>8, <1>10
<1> QED BY <1>9, <1>10

-----------------------------------------------------------------------------
(* The interrupts *)

\* What a transmit does to a receive by the way leaves a receive.
LEMMA KeptSafe ==
  ASSUME NEW k, NEW j, NEW s, NEW t, Safe(s, k), Good(t, j), t.tx # "busy", Kept(s, t)
  PROVE  Safe(t, j)
<1>1. ~t.inRx /\ ~t.reset
  BY DEF Safe, Kept
<1>2. CASE SameRx(s, t) /\ SameAir(s, t)
  BY <1>1, <1>2 DEF Safe, Receiving, Fits, SameRx, SameAir
<1>3. CASE ~(SameRx(s, t) /\ SameAir(s, t))
  <2>1. Flushed(t) /\ t.state = "start" /\ t.rx = "none"
    BY <1>3 DEF Kept, Safe, Receiving, SameRx
  <2> QED BY <1>1, <2>1, FlushFits DEF Safe, Receiving
<1> QED BY <1>2, <1>3

\* Nothing changed but the interrupts and what the radio does.
LEMMA SameSafe ==
  ASSUME NEW k, NEW j, NEW s, NEW t, Safe(s, k), t \in RadioState, t.sound, Sending(t, j), Dark(t),
         Lit(t, j), Settled(t), t.tx # "busy", SameAir(s, t), t.rx = s.rx, t.state = s.state,
         t.inRx = s.inRx, t.reset = s.reset
  PROVE  Safe(t, j)
BY DEF Safe, Good, Core, Receiving, Fits, SameAir

\* The start of the frame has gone out: its interrupt.
LEMMA Begins ==
  ASSUME NEW k \in Step, NEW s, Safe(s, k), "int" \in s.irq, "int" \in s.mask
  PROVE  LET t == IntIsr([s EXCEPT !.irq = @ \ {"int"}])
         IN Safe(t, k) /\ SameAir(s, t)
<1> DEFINE r == [s EXCEPT !.irq = @ \ {"int"}]
           t == [r EXCEPT !.mask = @ \ {"int"}]
<1>1. s \in RadioState /\ s.sound /\ Sending(s, k) /\ Dark(s) /\ Lit(s, k) /\ Settled(s)
  BY DEF Safe, Good, Core
<1>2. s.tx = "go"
  BY <1>1 DEF Sending
<1>3. r \in RadioState /\ r.sound /\ r.tx = "go"
  BY <1>1, <1>2 DEF RadioState
<1>4. Assert_(r, r.tx # "none") = r
  BY <1>3, AssertHolds
<1>5. IntIsr(r) = t
  BY <1>4, Zenon DEF IntIsr
<1>6. t \in RadioState
  BY <1>1 DEF RadioState
<1>7. /\ t.sound /\ t.tx = "go" /\ t.nb = s.nb /\ t.csp = s.csp /\ t.cspz = s.cspz /\ t.on = s.on
      /\ t.irq = s.irq \ {"int"} /\ t.mask = s.mask \ {"int"}
      /\ SameRx(s, t) /\ SameAir(s, t) /\ SameCalls(s, t) /\ t.reset = s.reset
  BY <1>1, <1>2 DEF RadioState, SameRx, SameAir, SameCalls
<1> HIDE DEF t
<1>8. Sending(t, k)
  BY <1>1, <1>2, <1>7 DEF Sending
<1>9. Dark(t) /\ Lit(t, k) /\ Settled(t)
  BY <1>1, <1>2, <1>7 DEF Dark, Lit, Settled, SameRx, SameAir, SameCalls
<1> QED
  BY <1>5, <1>6, <1>7, <1>8, <1>9, SameSafe DEF SameRx, SameCalls

\* The end of the ACK that the radio has sent.
LEMMA AckEnds ==
  ASSUME NEW k \in Step, NEW s, Safe(s, k)
  PROVE  Safe(AckTxDone([s EXCEPT !.mask = @ \ {"ackDone"}]), k)
<1> DEFINE r == [s EXCEPT !.mask = @ \ {"ackDone"}]
           t == [r EXCEPT !.outAck = FALSE]
<1>1. s \in RadioState /\ s.sound /\ Sending(s, k) /\ Dark(s) /\ Lit(s, k) /\ Settled(s)
  BY DEF Safe, Good, Core
<1>2. t \in RadioState
  BY <1>1 DEF RadioState
<1>3. /\ t.sound /\ t.tx = s.tx /\ t.nb = s.nb /\ t.csp = s.csp /\ t.cspz = s.cspz /\ t.on = s.on
      /\ t.irq = s.irq /\ t.mask = s.mask \ {"ackDone"} /\ t.rx = s.rx /\ t.state = s.state
      /\ t.outAck = FALSE /\ SameAir(s, t) /\ SameCalls(s, t) /\ t.reset = s.reset
  BY <1>1 DEF RadioState, SameAir, SameCalls
<1>4. AckTxDone(r) = IF t.rx = "none" THEN PostRxUpdates(t) ELSE t
  BY DEF AckTxDone
<1> HIDE DEF t
<1>5. Sending(t, k)
  BY <1>1, <1>3 DEF Sending
<1>6. Dark(t) /\ Settled(t)
  BY <1>1, <1>3 DEF Dark, Settled, SameAir, SameCalls
<1>7. CASE t.rx = "none"
  <2> DEFINE p == PostRxUpdates(t)
  <2>1. Core(t, k)
    BY <1>1, <1>2, <1>3, <1>5, <1>6 DEF Core
  <2>2. /\ Core(p, k) /\ Lit(p, k) /\ SameRx(t, p) /\ SameCalls(t, p) /\ p.reset = t.reset
        /\ p.tx = "none" <=> t.tx = "none"
        /\ t.tx # "busy" => p.tx # "busy"
        /\ SameAir(t, p) \/ Flushed(p)
    BY <1>3, <1>7, <2>1, PostUpdates
  <2> HIDE DEF p
  <2>3. Good(p, k) /\ p.tx # "busy" /\ ~p.inRx /\ ~p.reset /\ p.rx = "none" /\ p.state = "start"
    BY <1>3, <1>6, <1>7, <2>2 DEF Good, Settled, Safe, Receiving, SameCalls, SameRx
  <2>4. Fits(p)
    <3>1. CASE Flushed(p)
      BY <3>1, <2>3, FlushFits
    <3>2. CASE SameAir(t, p)
      BY <3>2, <1>3, <1>7, <2>3 DEF Safe, Receiving, Fits, SameAir
    <3> QED BY <3>1, <3>2, <2>2
  <2> QED BY <1>4, <1>7, <2>3, <2>4 DEF Safe, Receiving, p
<1>8. CASE t.rx # "none"
  <2>1. Lit(t, k)
    BY <1>3, <1>8 DEF Lit, Safe, Receiving
  <2>2. t.tx # "busy" /\ t.inRx = s.inRx
    BY <1>3 DEF Safe, SameCalls
  <2>3. Safe(t, k)
    BY <1>2, <1>3, <1>5, <1>6, <2>1, <2>2, SameSafe
  <2> QED BY <1>4, <1>8, <2>3
<1> QED BY <1>7, <1>8

\* The interrupt of the overflow.
LEMMA Overflows ==
  ASSUME NEW k \in Step, NEW s, Safe(s, k)
  PROVE  Safe(RxHaltCleanup([s EXCEPT !.err = FALSE]), k)
<1> DEFINE t == [s EXCEPT !.err = FALSE]
           h == RxHaltCleanup(t)
<1>1. s \in RadioState /\ s.sound
  BY DEF Safe, Good, Core
<1>2. /\ t \in RadioState /\ t.sound /\ SameSend(s, t) /\ SameRx(s, t) /\ SameAir(s, t)
      /\ SameCalls(s, t) /\ t.on = s.on /\ t.reset = s.reset
  BY <1>1 DEF RadioState, SameSend, SameRx, SameAir, SameCalls
<1> HIDE DEF t
<1>3. Good(t, k)
  BY <1>2, SameGood DEF Safe, SameRx
<1>4. /\ Core(h, k) /\ Lit(h, k) /\ SameCalls(t, h) /\ h.reset = t.reset /\ h.state = "start"
      /\ h.rx = "none" /\ Flushed(h)
      /\ h.tx = "none" <=> t.tx = "none"
      /\ t.tx # "busy" => h.tx # "busy"
  BY <1>2, <1>3, Halts DEF Good, Safe, SameCalls
<1> HIDE DEF h
<1>5. Fits(h)
  BY <1>4, FlushFits
<1> QED
  BY <1>2, <1>3, <1>4, <1>5 DEF Safe, Good, Settled, Receiving, SameCalls, SameSend, h, t

-----------------------------------------------------------------------------
(* The radio *)

\* A frame is a chain that begins with a header and after which another may begin.
LEMMA FrameFits ==
  ASSUME NEW f \in Frame
  PROVE  /\ f \in Air /\ f # <<>> /\ Chain(f) /\ f[1] \in Header /\ Following(f[Len(f)]) = Header
<1>1. CASE f = <<"ack">>
  BY <1>1 DEF Air, Pieces, Header, Chain, Following
<1>2. CASE f \in {"plain", "request"} \X {"body", "odd"} \X {"good", "bad"}
  <2>1. PICK h \in {"plain", "request"}, b \in {"body", "odd"}, c \in {"good", "bad"} :
          f = <<h, b, c>>
    BY <1>2
  <2>2. f \in Seq(Pieces) /\ Len(f) = 3 /\ f[1] = h /\ f[2] = b /\ f[3] = c
    BY <2>1 DEF Pieces, Header
  <2>3. \A i \in 1 .. Len(f) - 1 : f[i + 1] \in Following(f[i])
    <3>1. b \in Following(h) /\ c \in Following(b)
      BY DEF Following
    <3> QED BY <2>2, <3>1
  <2> QED BY <2>2, <2>3 DEF Air, Chain, Header, Following
<1> QED BY <1>1, <1>2, RadioAssumption DEF AnyFrame

\* A frame comes into the air.
LEMMA Arrives ==
  ASSUME NEW k \in Step, NEW s, Safe(s, k), s.on, s.coming = <<>>, ~s.over, NEW f \in Frame,
         NEW asks \in BOOLEAN
  PROVE  Safe([s EXCEPT !.coming = f, !.asks = asks], k)
<1> DEFINE t == [s EXCEPT !.coming = f, !.asks = asks]
<1>1. s \in RadioState /\ s.sound /\ Sending(s, k) /\ Dark(s) /\ Lit(s, k) /\ Settled(s)
  BY DEF Safe, Good, Core
<1>2. t \in RadioState
  BY <1>1, FrameFits DEF RadioState
<1>3. /\ t.sound /\ SameSend(s, t) /\ SameRx(s, t) /\ SameCalls(s, t) /\ t.on = s.on
      /\ t.reset = s.reset /\ t.fifo = s.fifo /\ t.over = s.over /\ t.coming = f
  BY <1>1 DEF RadioState, SameSend, SameRx, SameCalls
<1> HIDE DEF t
<1>4. Sending(t, k)
  BY <1>1, <1>3 DEF Sending, SameSend
<1>5. Dark(t) /\ Lit(t, k) /\ Settled(t)
  BY <1>1, <1>3 DEF Dark, Lit, Settled, SameSend, SameRx, SameCalls
<1>6. Fits(t)
  BY <1>3, FrameFits DEF Safe, Receiving, Fits, SameRx
<1> QED
  BY <1>2, <1>3, <1>4, <1>5, <1>6 DEF Safe, Good, Core, Receiving, SameSend, SameRx, SameCalls, t

\* A piece goes into the FIFO.
LEMMA PieceFits ==
  ASSUME NEW s, s \in RadioState, Fits(s), s.coming # <<>>, ~s.over, NEW t,
         t.fifo = Append(s.fifo, Head(s.coming)), t.coming = Tail(s.coming),
         t.over = s.over, t.state = s.state
  PROVE  Fits(t)
<1> DEFINE n == Len(s.fifo)
           l == Len(s.coming)
           e == s.coming[1]
<1>1. s.fifo \in Seq(Pieces) /\ s.coming \in Seq(Pieces)
  BY DEF RadioState, Fifo, Air
<1>2. e \in Pieces /\ Head(s.coming) = e /\ l \in Nat /\ l > 0 /\ n \in Nat
  BY <1>1, EmptySeq
<1>3. /\ t.fifo # <<>> /\ Len(t.fifo) = n + 1 /\ t.fifo[n + 1] = e
      /\ \A i \in 1 .. n : t.fifo[i] = s.fifo[i]
  BY <1>1, <1>2, AppendProperties
<1>4. /\ t.coming \in Seq(Pieces) /\ Len(t.coming) = l - 1
      /\ \A i \in 1 .. l - 1 : t.coming[i] = s.coming[i + 1]
  BY <1>1, <1>2, HeadTailProperties
<1>5. e \in Behind(s.fifo, s.state)
  BY DEF Fits
<1>6. s.fifo = <<>> <=> n = 0
  BY <1>1, EmptySeq
<1>7. Chain(t.fifo)
  <2> SUFFICES ASSUME NEW i \in 1 .. n PROVE t.fifo[i + 1] \in Following(t.fifo[i])
    BY <1>2, <1>3 DEF Chain
  <2>1. CASE i < n
    BY <2>1, <1>2, <1>3 DEF Fits, Chain
  <2>2. CASE i = n
    BY <2>2, <1>2, <1>3, <1>5, <1>6 DEF Behind
  <2> QED BY <2>1, <2>2, <1>2
<1>8. t.fifo[1] \in Awaited(t.state)
  <2>1. CASE n = 0
    BY <2>1, <1>3, <1>5, <1>6 DEF Behind
  <2>2. CASE n # 0
    BY <2>2, <1>2, <1>3, <1>6 DEF Fits
  <2> QED BY <2>1, <2>2
<1>9. Chain(t.coming)
  BY <1>2, <1>4 DEF Fits, Chain
<1>10. Behind(t.fifo, t.state) = Following(e)
  BY <1>2, <1>3 DEF Behind
<1>11. ASSUME t.coming # <<>>
       PROVE  t.coming[1] \in Following(e) /\ Following(t.coming[Len(t.coming)]) = Header
  <2>1. l > 1
    BY <1>2, <1>4, <1>11, EmptySeq
  <2>2. t.coming[1] = s.coming[1 + 1] /\ t.coming[l - 1] = s.coming[l]
    BY <1>2, <1>4, <2>1
  <2>3. s.coming[1 + 1] \in Following(s.coming[1]) /\ Following(s.coming[l]) = Header
    BY <1>2, <2>1 DEF Fits, Chain
  <2> QED BY <1>4, <2>2, <2>3
<1>12. ASSUME t.coming = <<>> PROVE Following(e) = Header
  <2>1. Len(t.coming) = 0
    BY <1>12, EmptySeq
  <2>2. l = 1
    BY <1>2, <1>4, <2>1
  <2> QED BY <2>2 DEF Fits
<1> QED BY <1>7, <1>8, <1>9, <1>10, <1>11, <1>12 DEF Fits

\* A piece goes from the air to the FIFO, or finds it full.
LEMMA PieceComes ==
  ASSUME NEW k \in Step, NEW s, Safe(s, k), s.coming # <<>>, NEW ack \in BOOLEAN,
         NEW asks \in BOOLEAN
  PROVE  IF Len(s.fifo) = FifoSize
         THEN LET t == [s EXCEPT !.over = TRUE, !.err = TRUE, !.coming = <<>>]
              IN Safe(t, k) /\ t.fifo = s.fifo /\ t.over
         ELSE LET t == [s EXCEPT !.fifo = Append(@, Head(s.coming)), !.coming = Tail(@),
                                 !.ack = ack, !.asks = asks]
              IN Safe(t, k) /\ t.fifo # <<>>
<1>1. s \in RadioState /\ s.sound /\ Sending(s, k) /\ Dark(s) /\ Lit(s, k) /\ Settled(s)
  BY DEF Safe, Good, Core
<1>2. s.on /\ ~s.over
  BY <1>1 DEF Dark
<1>3. CASE Len(s.fifo) = FifoSize
  <2> DEFINE t == [s EXCEPT !.over = TRUE, !.err = TRUE, !.coming = <<>>]
  <2>1. t \in RadioState
    BY <1>1, EmptyFifo DEF RadioState
  <2>2. /\ t.sound /\ SameSend(s, t) /\ SameRx(s, t) /\ SameCalls(s, t) /\ t.on = s.on
        /\ t.reset = s.reset /\ t.fifo = s.fifo /\ t.over /\ t.coming = <<>>
    BY <1>1 DEF RadioState, SameSend, SameRx, SameCalls
  <2> HIDE DEF t
  <2>3. Sending(t, k)
    BY <1>1, <2>2 DEF Sending, SameSend
  <2>4. Dark(t) /\ Lit(t, k) /\ Settled(t)
    BY <1>1, <1>2, <2>2 DEF Dark, Lit, Settled, SameSend, SameRx, SameCalls
  <2>5. Fits(t)
    BY <2>2 DEF Safe, Receiving, Fits, Chain, SameRx
  <2>6. Safe(t, k)
    BY <2>1, <2>2, <2>3, <2>4, <2>5 DEF Safe, Good, Core, Receiving, SameSend, SameRx, SameCalls
  <2> QED BY <1>3, <2>2, <2>6 DEF t
<1>4. CASE Len(s.fifo) # FifoSize
  <2> DEFINE q == Append(s.fifo, Head(s.coming))
             p == Tail(s.coming)
             t == [s EXCEPT !.fifo = q, !.coming = p, !.ack = ack, !.asks = asks]
  <2>1. /\ s.fifo \in Seq(Pieces) /\ Len(s.fifo) <= FifoSize /\ Len(s.fifo) \in Nat
        /\ s.coming \in Seq(Pieces)
    BY <1>1, EmptySeq DEF RadioState, Fifo, Air
  <2>2. Head(s.coming) \in Pieces /\ p \in Air
    BY <2>1, HeadTailProperties DEF Air
  <2>3. q \in Seq(Pieces) /\ Len(q) = Len(s.fifo) + 1 /\ q # <<>>
    BY <2>1, <2>2, AppendProperties
  <2>4. q \in Fifo
    BY <2>1, <2>3, <1>4, RadioAssumption DEF Fifo
  <2> HIDE DEF p, q
  <2>5. t \in RadioState
    BY <1>1, <2>2, <2>4 DEF RadioState
  <2>6. /\ t.sound /\ SameSend(s, t) /\ SameRx(s, t) /\ SameCalls(s, t) /\ t.on = s.on
        /\ t.reset = s.reset /\ t.fifo = q /\ t.over = s.over /\ t.coming = p
    BY <1>1 DEF RadioState, SameSend, SameRx, SameCalls
  <2> HIDE DEF t
  <2>7. Sending(t, k)
    BY <1>1, <2>6 DEF Sending, SameSend
  <2>8. Dark(t) /\ Lit(t, k) /\ Settled(t)
    BY <1>1, <1>2, <2>6 DEF Dark, Lit, Settled, SameSend, SameRx, SameCalls
  <2>9. Fits(t)
    BY <1>1, <1>2, <2>6, PieceFits DEF p, q, Safe, Receiving, SameRx
  <2>10. Safe(t, k)
    BY <2>5, <2>6, <2>7, <2>8, <2>9 DEF Safe, Good, Core, Receiving, SameSend, SameRx, SameCalls
  <2> QED BY <1>4, <2>3, <2>6, <2>10 DEF t, q, p
<1> QED BY <1>3, <1>4

\* Only what goes out is touched.
LEMMA Transmits ==
  ASSUME NEW k, NEW j, NEW s, NEW t, Safe(s, k), t \in RadioState, t.sound, SameRx(s, t),
         SameAir(s, t), SameCalls(s, t), t.on = s.on, t.reset = s.reset, t.tx = s.tx,
         Sending(t, j), k = "off" => j = "off"
  PROVE  Safe(t, j)
<1>1. Dark(t) /\ Lit(t, j) /\ Settled(t)
  BY DEF Safe, Good, Core, Dark, Lit, Settled, SameRx, SameAir, SameCalls
<1>2. t.tx # "busy" /\ t.inRx = s.inRx
  BY DEF Safe, SameCalls
<1> QED BY <1>1, <1>2, SameSafe DEF SameRx

\* The end of the ACK is sent.
LEMMA AckGoes ==
  ASSUME NEW k \in Step, NEW s, Safe(s, k)
  PROVE  LET t == [s EXCEPT !.ack = FALSE, !.irq = @ \cup {"ackDone"}]
         IN Safe(t, k) /\ SameAir(s, t)
<1> DEFINE t == [s EXCEPT !.ack = FALSE, !.irq = @ \cup {"ackDone"}]
<1>1. s \in RadioState /\ s.sound /\ Sending(s, k)
  BY DEF Safe, Good, Core
<1>2. t \in RadioState
  BY <1>1 DEF RadioState, Interrupts
<1>3. /\ t.sound /\ SameRx(s, t) /\ SameAir(s, t) /\ SameCalls(s, t) /\ t.on = s.on
      /\ t.reset = s.reset /\ t.tx = s.tx /\ t.nb = s.nb /\ t.csp = s.csp /\ t.cspz = s.cspz
      /\ t.mask = s.mask /\ t.irq = s.irq \cup {"ackDone"}
  BY <1>1 DEF RadioState, SameRx, SameAir, SameCalls
<1> HIDE DEF t
<1>4. Sending(t, k)
  BY <1>1, <1>3 DEF Sending
<1>5. Safe(t, k) /\ SameAir(s, t)
  BY <1>2, <1>3, <1>4, Transmits
<1> QED BY <1>5 DEF t

\* The program of the command processor ends: the channel is busy, the frame has
\* gone out, or no ACK has come in time.
LEMMA ProgramStops ==
  ASSUME NEW k \in Step, NEW s, Safe(s, k), NEW code \in {"busy", "done", "timeout"},
         \/ s.csp = "csma" /\ code = "busy"
         \/ s.csp = "onair" /\ code = "done"
         \/ s.csp = "timeout" /\ code = "timeout"
  PROVE  Safe(Stops(s, code), k) /\ SameAir(s, Stops(s, code))
<1> DEFINE t == Stops(s, code)
<1>1. s \in RadioState /\ s.sound /\ Sending(s, k)
  BY DEF Safe, Good, Core
<1>2. t \in RadioState
  BY <1>1 DEF Stops, RadioState, Interrupts
<1>3. /\ t.sound /\ SameRx(s, t) /\ SameAir(s, t) /\ SameCalls(s, t) /\ t.on = s.on
      /\ t.reset = s.reset /\ t.tx = s.tx /\ t.nb = s.nb /\ t.csp = "none" /\ t.cspz = code
      /\ t.mask = s.mask /\ t.irq = s.irq \cup {"stop"}
  BY <1>1 DEF Stops, RadioState, SameRx, SameAir, SameCalls
<1> HIDE DEF t
<1>4. s.tx \in {"go", "listen"} /\ k \in Idle
  BY <1>1 DEF Sending, RadioState, Starting, Idle, Step
<1>5. Sending(t, k)
  BY <1>1, <1>3, <1>4 DEF Sending, Starting, Idle
<1>6. Safe(t, k) /\ SameAir(s, t)
  BY <1>2, <1>3, <1>5, Transmits
<1> QED BY <1>6 DEF t

\* The channel is clear, and the frame goes out.
LEMMA ProgramSends ==
  ASSUME NEW k \in Step, NEW s, Safe(s, k), s.csp = "csma"
  PROVE  LET t == [s EXCEPT !.csp = "sending"] IN Safe(t, k) /\ SameAir(s, t)
<1> DEFINE t == [s EXCEPT !.csp = "sending"]
<1>1. s \in RadioState /\ s.sound /\ Sending(s, k)
  BY DEF Safe, Good, Core
<1>2. /\ t \in RadioState /\ t.sound /\ SameRx(s, t) /\ SameAir(s, t) /\ SameCalls(s, t)
      /\ t.on = s.on /\ t.reset = s.reset /\ t.tx = s.tx /\ t.nb = s.nb /\ t.csp = "sending"
      /\ t.cspz = s.cspz /\ t.mask = s.mask /\ t.irq = s.irq
  BY <1>1 DEF RadioState, SameRx, SameAir, SameCalls
<1> HIDE DEF t
<1>3. Sending(t, k)
  BY <1>1, <1>2 DEF Sending
<1>4. Safe(t, k) /\ SameAir(s, t)
  BY <1>2, <1>3, Transmits
<1> QED BY <1>4 DEF t

\* Its start has gone out.
LEMMA ProgramOnAir ==
  ASSUME NEW k \in Step, NEW s, Safe(s, k), s.csp = "sending"
  PROVE  LET t == [s EXCEPT !.csp = "onair", !.irq = @ \cup {"int"}]
         IN Safe(t, k) /\ SameAir(s, t)
<1> DEFINE t == [s EXCEPT !.csp = "onair", !.irq = @ \cup {"int"}]
<1>1. s \in RadioState /\ s.sound /\ Sending(s, k)
  BY DEF Safe, Good, Core
<1>2. t \in RadioState
  BY <1>1 DEF RadioState, Interrupts
<1>3. /\ t.sound /\ SameRx(s, t) /\ SameAir(s, t) /\ SameCalls(s, t) /\ t.on = s.on
      /\ t.reset = s.reset /\ t.tx = s.tx /\ t.nb = s.nb /\ t.csp = "onair" /\ t.cspz = s.cspz
      /\ t.mask = s.mask /\ t.irq = s.irq \cup {"int"}
  BY <1>1 DEF RadioState, SameRx, SameAir, SameCalls
<1> HIDE DEF t
<1>4. Sending(t, k)
  BY <1>1, <1>3 DEF Sending
<1>5. Safe(t, k) /\ SameAir(s, t)
  BY <1>2, <1>3, <1>4, Transmits
<1> QED BY <1>5 DEF t

-----------------------------------------------------------------------------
(* The thread *)

\* Only the thread's place changes.
LEMMA PlaceSafe ==
  ASSUME NEW k, NEW j, NEW s, Safe(s, k), Sending(s, j), k = "off" => j = "off"
  PROVE  Safe(s, j)
BY DEF Safe, Good, Core, Lit

\* macTxFrame begins, and is over at once if the radio sleeps.
LEMMA FrameBegins ==
  ASSUME NEW s, Safe(s, "idle"), s.tx = "none", NEW ackReq \in BOOLEAN
  PROVE  LET t == [s EXCEPT !.tx = "initialize", !.ackReq = ackReq, !.nb = 0]
         IN IF s.asleep THEN Safe(TxComplete(t), "idle") ELSE Safe(t, "prepare")
<1> DEFINE t == [s EXCEPT !.tx = "initialize", !.ackReq = ackReq, !.nb = 0]
           u == [t EXCEPT !.tx = "none"]
<1>1. s \in RadioState /\ s.sound /\ Sending(s, "idle") /\ Dark(s) /\ Lit(s, "idle") /\ Settled(s)
  BY DEF Safe, Good, Core
<1>2. t \in RadioState
  <2>1. 0 \in 0 .. maxCsmaBackoffs + 1
    BY RadioAssumption
  <2> QED BY <1>1, <2>1 DEF RadioState
<1>3. /\ t.sound /\ SameRx(s, t) /\ SameAir(s, t) /\ SameCalls(s, t) /\ t.on = s.on
      /\ t.reset = s.reset /\ t.tx = "initialize" /\ t.nb = 0 /\ t.csp = s.csp /\ t.cspz = s.cspz
      /\ t.mask = s.mask /\ t.irq = s.irq
  BY <1>1 DEF RadioState, SameRx, SameAir, SameCalls
<1> HIDE DEF t
<1>4. CASE s.asleep
  <2>1. /\ u \in RadioState /\ u.sound /\ SameRx(t, u) /\ SameAir(t, u) /\ SameCalls(t, u)
        /\ u.on = t.on /\ u.tx = "none" /\ u.csp = t.csp /\ u.mask = t.mask /\ u.irq = t.irq
    BY <1>2, <1>3 DEF RadioState, SameRx, SameAir, SameCalls
  <2> HIDE DEF u
  <2>2. Sending(u, "idle")
    BY <1>1, <1>3, <2>1 DEF Sending, Starting
  <2>3. Dark(u)
    BY <1>1, <1>3, <2>1 DEF Dark, SameRx, SameAir, SameCalls
  <2>4. Core(u, "idle") /\ "idle" \in Step
    BY <2>1, <2>2, <2>3 DEF Core, Step
  <2>5. LET c == TxComplete(t) IN Good(c, "idle") /\ c.tx = "none" /\ Kept(t, c)
    BY <1>2, <1>3, <2>4, Completes DEF u
  <2>6. Kept(s, TxComplete(t))
    BY <1>3, <2>5 DEF Kept, SameRx, SameAir, SameCalls
  <2> QED BY <1>4, <2>5, <2>6, KeptSafe DEF t
<1>5. CASE ~s.asleep
  <2>1. Sending(t, "prepare")
    BY <1>1, <1>3, RadioAssumption DEF Sending, Starting
  <2>2. Dark(t) /\ Lit(t, "prepare") /\ Settled(t)
    BY <1>1, <1>3, <1>5 DEF Dark, Lit, Settled, SameRx, SameAir, SameCalls
  <2>3. Safe(t, "prepare")
    BY <1>2, <1>3, <2>1, <2>2, SameSafe DEF SameRx, SameCalls
  <2> QED BY <1>5, <2>3 DEF t
<1> QED BY <1>4, <1>5

\* cspPrep: the program of the command processor is replaced.
LEMMA Prepares ==
  ASSUME NEW s, Safe(s, "prepare")
  PROVE  Safe(CspPrep(s), "decide")
<1> DEFINE t == [s EXCEPT !.csp = "none", !.cspz = "busy", !.irq = @ \ {"stop", "int"}]
<1>1. s \in RadioState /\ s.sound /\ Sending(s, "prepare")
  BY DEF Safe, Good, Core
<1>2. "stop" \notin s.mask
  BY <1>1 DEF Sending
<1>3. Assert_(s, "stop" \notin s.mask) = s
  BY <1>1, <1>2, AssertHolds
<1>4. CspPrep(s) = t
  BY <1>3, Zenon DEF CspPrep
<1>5. /\ t \in RadioState /\ t.sound /\ SameRx(s, t) /\ SameAir(s, t) /\ SameCalls(s, t)
      /\ t.on = s.on /\ t.reset = s.reset /\ t.tx = s.tx /\ t.nb = s.nb /\ t.csp = "none"
      /\ t.cspz = "busy" /\ t.mask = s.mask /\ t.irq = s.irq \ {"stop", "int"}
  BY <1>1 DEF RadioState, SameRx, SameAir, SameCalls
<1> HIDE DEF t
<1>6. Sending(t, "decide")
  BY <1>1, <1>2, <1>5 DEF Sending, Starting
<1>7. Safe(t, "decide")
  BY <1>5, <1>6, Transmits
<1> QED BY <1>4, <1>7

\* The frame goes out, or waits for the end of a receive.
LEMMA Decides ==
  ASSUME NEW s, Safe(s, "decide")
  PROVE  Safe([s EXCEPT !.tx = "go"], "go") /\ Safe([s EXCEPT !.tx = "queued"], "idle")
<1> DEFINE t == [s EXCEPT !.tx = "go"]
           u == [s EXCEPT !.tx = "queued"]
<1>1. s \in RadioState /\ s.sound /\ Sending(s, "decide") /\ Dark(s) /\ Lit(s, "decide")
      /\ Settled(s)
  BY DEF Safe, Good, Core
<1>2. /\ t \in RadioState /\ t.sound /\ SameRx(s, t) /\ SameAir(s, t) /\ SameCalls(s, t)
      /\ t.on = s.on /\ t.reset = s.reset /\ t.tx = "go" /\ t.nb = s.nb /\ t.csp = s.csp
      /\ t.cspz = s.cspz /\ t.mask = s.mask /\ t.irq = s.irq
  BY <1>1 DEF RadioState, SameRx, SameAir, SameCalls
<1>3. /\ u \in RadioState /\ u.sound /\ SameRx(s, u) /\ SameAir(s, u) /\ SameCalls(s, u)
      /\ u.on = s.on /\ u.reset = s.reset /\ u.tx = "queued" /\ u.nb = s.nb /\ u.csp = s.csp
      /\ u.cspz = s.cspz /\ u.mask = s.mask /\ u.irq = s.irq
  BY <1>1 DEF RadioState, SameRx, SameAir, SameCalls
<1> HIDE DEF t, u
<1>4. Sending(t, "go") /\ Sending(u, "idle") /\ ~s.asleep
  BY <1>1, <1>2, <1>3 DEF Sending, Starting, Dark
<1>5. Dark(t) /\ Lit(t, "go") /\ Settled(t)
  BY <1>1, <1>2, <1>4 DEF Dark, Lit, Settled, SameRx, SameAir, SameCalls
<1>6. Dark(u) /\ Lit(u, "idle") /\ Settled(u)
  BY <1>1, <1>3, <1>4 DEF Dark, Lit, Settled, Sending, SameRx, SameAir, SameCalls
<1>7. Safe(t, "go") /\ Safe(u, "idle")
  BY <1>2, <1>3, <1>4, <1>5, <1>6, SameSafe DEF SameRx, SameCalls
<1> QED BY <1>7 DEF t, u

\* macTxStartQueuedFrame's like in the thread: the receive of an ACK is no concern.
LEMMA Goes ==
  ASSUME NEW s, Safe(s, "go")
  PROVE  Safe(ForgetAck(s), "arm")
<1> DEFINE t == ForgetAck(s)
<1>1. s \in RadioState /\ s.sound /\ Sending(s, "go") /\ Dark(s) /\ Lit(s, "go") /\ Settled(s)
  BY DEF Safe, Good, Core
<1>2. /\ t \in RadioState /\ SameAir(s, t) /\ SameCalls(s, t) /\ t.outAck = FALSE
      /\ t.rx = s.rx /\ t.state = s.state /\ t.reset = s.reset /\ t.sound = s.sound
      /\ t.tx = s.tx /\ t.nb = s.nb /\ t.irq = s.irq /\ t.csp = s.csp /\ t.cspz = s.cspz
      /\ t.on = s.on /\ t.mask = s.mask \ {"ackDone"}
  BY <1>1, ForgetFields
<1> HIDE DEF t
<1>3. Sending(t, "arm") /\ t.tx = "go"
  BY <1>1, <1>2 DEF Sending, Starting
<1>4. Dark(t) /\ Lit(t, "arm") /\ Settled(t)
  BY <1>1, <1>2, <1>3 DEF Dark, Lit, Settled, SameAir, SameCalls
<1>5. Safe(t, "arm")
  BY <1>1, <1>2, <1>3, <1>4, SameSafe DEF SameCalls
<1> QED BY <1>5 DEF t

\* Arming the command processor: the end of its program will interrupt.
LEMMA Arms ==
  ASSUME NEW s, Safe(s, "arm")
  PROVE  Safe(CspArm(s), "turnOn")
<1> DEFINE t == CspArm(s)
<1>1. s \in RadioState /\ s.sound /\ Sending(s, "arm")
  BY DEF Safe, Good, Core
<1>2. t \in RadioState
  BY <1>1 DEF CspArm, RadioState, Interrupts
<1>3. /\ t.sound /\ SameRx(s, t) /\ SameAir(s, t) /\ SameCalls(s, t) /\ t.on = s.on
      /\ t.reset = s.reset /\ t.tx = s.tx /\ t.nb = s.nb /\ t.csp = s.csp /\ t.cspz = s.cspz
      /\ t.mask = s.mask \cup {"stop", "int"} /\ t.irq = s.irq
  BY <1>1 DEF CspArm, RadioState, SameRx, SameAir, SameCalls
<1> HIDE DEF t
<1>4. Sending(t, "turnOn")
  BY <1>1, <1>3 DEF Sending, Starting
<1>5. Safe(t, "turnOn")
  BY <1>2, <1>3, <1>4, Transmits
<1> QED BY <1>5 DEF t

\* The receiver on, for the frame that goes out.
LEMMA TurnsOn ==
  ASSUME NEW s, Safe(s, "turnOn")
  PROVE  Safe(RxOn(s), "run")
<1> DEFINE t == RxOn(s)
<1>1. s \in RadioState /\ s.sound /\ Sending(s, "turnOn") /\ Dark(s) /\ Settled(s)
  BY DEF Safe, Good, Core
<1>2. /\ t \in RadioState /\ t.sound /\ SameSend(s, t) /\ SameRx(s, t) /\ SameAir(s, t)
      /\ SameCalls(s, t) /\ t.reset = s.reset /\ t.on
  BY <1>1, OnFields
<1> HIDE DEF t
<1>3. Sending(t, "run") /\ t.tx = "go"
  BY <1>1, <1>2 DEF Sending, Starting, SameSend
<1>4. Dark(t) /\ Lit(t, "run") /\ Settled(t)
  BY <1>1, <1>2, <1>3 DEF Dark, Lit, Settled, SameSend, SameRx, SameAir, SameCalls
<1>5. Safe(t, "run")
  BY <1>2, <1>3, <1>4, SameSafe DEF SameRx, SameCalls
<1> QED BY <1>5 DEF t

\* The command processor starts to wait for a clear channel.
LEMMA Runs ==
  ASSUME NEW s, Safe(s, "run")
  PROVE  Safe(CspRun(s), "idle")
<1> DEFINE t == CspRun(s)
<1>1. s \in RadioState /\ s.sound /\ Sending(s, "run")
  BY DEF Safe, Good, Core
<1>2. /\ t \in RadioState /\ t.sound /\ SameRx(s, t) /\ SameAir(s, t) /\ SameCalls(s, t)
      /\ t.on = s.on /\ t.reset = s.reset /\ t.tx = s.tx /\ t.nb = s.nb /\ t.csp = "csma"
      /\ t.cspz = s.cspz /\ t.mask = s.mask /\ t.irq = s.irq
  BY <1>1 DEF CspRun, RadioState, SameRx, SameAir, SameCalls
<1> HIDE DEF t
<1>3. Sending(t, "idle")
  BY <1>1, <1>2 DEF Sending, Starting
<1>4. Safe(t, "idle")
  BY <1>2, <1>3, Transmits
<1> QED BY <1>4 DEF t

\* macRxOffRequest, in the thread.
LEMMA TurnsOff ==
  ASSUME NEW s, Safe(s, "off")
  PROVE  Safe(RxOffRequest(s), "idle")
<1> DEFINE t == RxOffRequest(s)
<1>1. Core(s, "idle") /\ "idle" \in Step
  BY DEF Safe, Good, Core, Sending, Starting, Step
<1>2. /\ Core(t, "idle") /\ Lit(t, "idle")
      /\ SameSend(s, t) /\ SameRx(s, t) /\ SameCalls(s, t) /\ t.reset = s.reset
      /\ SameAir(s, t) \/ (Flushed(t) /\ s.rx # "started" /\ ~s.outAck)
  BY <1>1, OffRequest
<1> HIDE DEF t
<1>3. Good(t, "idle") /\ t.tx # "busy"
  BY <1>2 DEF Safe, Good, Settled, SameSend, SameCalls
<1>4. Kept(s, t)
  BY <1>2 DEF Kept, SameCalls
<1>5. Safe(t, "idle")
  BY <1>3, <1>4, KeptSafe
<1> QED BY <1>5 DEF t

\* The flags that keep the receiver on, and the place from which it may go off.
LEMMA FlagsSet ==
  ASSUME NEW s, NEW j \in Idle, Safe(s, "idle"), NEW enabled \in SUBSET Flag,
         s.enabled \subseteq enabled \/ j = "off"
  PROVE  LET t == [s EXCEPT !.enabled = enabled] IN Safe(t, j) /\ t.enabled = enabled
<1> DEFINE t == [s EXCEPT !.enabled = enabled]
<1>1. s \in RadioState /\ s.sound /\ Sending(s, "idle") /\ Dark(s) /\ Lit(s, "idle") /\ Settled(s)
  BY DEF Safe, Good, Core
<1>2. t \in RadioState
  BY <1>1 DEF RadioState
<1>3. /\ t.sound /\ SameSend(s, t) /\ SameRx(s, t) /\ SameAir(s, t)
      /\ t.asleep = s.asleep /\ t.moving = s.moving /\ t.inRx = s.inRx
      /\ t.on = s.on /\ t.reset = s.reset /\ t.enabled = enabled
  BY <1>1 DEF RadioState, SameSend, SameRx, SameAir
<1> HIDE DEF t
<1>4. Sending(t, j)
  BY <1>1, <1>3 DEF Sending, Starting, SameSend, Idle
<1>5. Dark(t) /\ Lit(t, j) /\ Settled(t)
  BY <1>1, <1>3 DEF Dark, Lit, Settled, SameSend, SameRx, SameAir
<1>6. t.tx # "busy"
  BY <1>3 DEF Safe, SameSend
<1>7. Safe(t, j)
  BY <1>2, <1>3, <1>4, <1>5, <1>6, SameSafe DEF SameRx
<1> QED BY <1>3, <1>7 DEF t

\* The receiver on, for one of its flags.
LEMMA ReceiverOn ==
  ASSUME NEW s, NEW k \in Step, Safe(s, k), ~s.asleep, s.enabled # {}
  PROVE  Safe(RxOn(s), k)
<1> DEFINE t == RxOn(s)
<1>1. s \in RadioState /\ s.sound /\ Sending(s, k) /\ Dark(s) /\ Settled(s)
  BY DEF Safe, Good, Core
<1>2. /\ t \in RadioState /\ t.sound = s.sound /\ SameSend(s, t) /\ SameRx(s, t) /\ SameAir(s, t)
      /\ SameCalls(s, t) /\ t.reset = s.reset /\ t.on
  BY <1>1, OnFields
<1> HIDE DEF t
<1>3. Sending(t, k)
  BY <1>1, <1>2 DEF Sending, SameSend
<1>4. Dark(t) /\ Lit(t, k) /\ Settled(t) /\ t.tx # "busy"
  BY <1>1, <1>2 DEF Safe, Dark, Lit, Settled, SameSend, SameRx, SameAir, SameCalls
<1>5. Safe(t, k)
  BY <1>1, <1>2, <1>3, <1>4, SameSafe DEF SameRx, SameCalls
<1> QED BY <1>5 DEF t

\* Another channel, or the same again.
LEMMA Moves ==
  ASSUME NEW s, Safe(s, "idle"), ~s.asleep, NEW other \in BOOLEAN
  PROVE  LET t == [s EXCEPT !.moving = other]
         IN Safe(IF s.tx = "none" THEN UpdateChannel(t) ELSE t, "idle")
<1> DEFINE t == [s EXCEPT !.moving = other]
           c == UpdateChannel(t)
<1>1. s \in RadioState /\ s.sound /\ Sending(s, "idle") /\ Dark(s) /\ Lit(s, "idle")
  BY DEF Safe, Good, Core
<1>2. /\ t \in RadioState /\ t.sound /\ SameSend(s, t) /\ SameRx(s, t) /\ SameAir(s, t)
      /\ t.asleep = s.asleep /\ t.enabled = s.enabled /\ t.inRx = s.inRx
      /\ t.on = s.on /\ t.reset = s.reset
  BY <1>1 DEF RadioState, SameSend, SameRx, SameAir
<1> HIDE DEF t
<1>3. Sending(t, "idle")
  BY <1>1, <1>2 DEF Sending, SameSend
<1>4. Dark(t) /\ Lit(t, "idle")
  BY <1>1, <1>2 DEF Dark, Lit, SameSend, SameRx, SameAir
<1>5. CASE s.tx = "none"
  <2>1. Core(t, "idle") /\ "idle" \in Step /\ t.tx = "none"
    BY <1>2, <1>3, <1>4, <1>5 DEF Core, Step, SameSend
  <2>2. Good(c, "idle") /\ c.tx = "none" /\ Kept(t, c)
    BY <2>1, <1>4, ChannelUpdated
  <2> HIDE DEF c
  <2>3. Kept(s, c)
    BY <1>2, <2>2 DEF Kept, SameRx, SameAir
  <2>4. Safe(c, "idle")
    BY <2>2, <2>3, KeptSafe
  <2> QED BY <1>5, <2>4 DEF c, t
<1>6. CASE s.tx # "none"
  <2>1. Settled(t) /\ t.tx # "busy"
    BY <1>2, <1>6 DEF Settled, Safe, SameSend
  <2>2. Safe(t, "idle")
    BY <1>2, <1>3, <1>4, <2>1, SameSafe DEF SameRx
  <2> QED BY <1>6, <2>2 DEF t
<1> QED BY <1>5, <1>6

\* macSleep: nothing is going on, and the receiver is turned off.
LEMMA Sleeps ==
  ASSUME NEW s, Safe(s, "idle"), s.rx = "none", ~s.outAck, s.tx = "none"
  PROVE  LET t == [RxOff(s) EXCEPT !.asleep = TRUE]
         IN Safe(t, "idle") /\ Flushed(t)
<1> DEFINE u == RxOff(s)
           t == [u EXCEPT !.asleep = TRUE]
<1>1. s \in RadioState /\ s.sound /\ Sending(s, "idle") /\ Dark(s) /\ Settled(s) /\ s.csp = "none"
  BY DEF Safe, Good, Core, Sending
<1>2. /\ u \in RadioState /\ u.sound /\ ~u.on /\ (s.on => Flushed(u)) /\ (~s.on => u = s)
      /\ SameSend(s, u) /\ SameRx(s, u) /\ SameCalls(s, u) /\ u.reset = s.reset
  BY <1>1, OffFields
<1> HIDE DEF u
<1>3. Flushed(u)
  BY <1>1, <1>2 DEF Dark, Flushed
<1>4. /\ t \in RadioState /\ t.sound /\ SameSend(u, t) /\ SameRx(u, t) /\ SameAir(u, t)
      /\ t.moving = u.moving /\ t.enabled = u.enabled /\ t.inRx = u.inRx
      /\ t.on = u.on /\ t.reset = u.reset
  BY <1>2 DEF RadioState, SameSend, SameRx, SameAir
<1> HIDE DEF t
<1>5. Sending(t, "idle")
  BY <1>1, <1>2, <1>4 DEF Sending, Starting, SameSend
<1>6. Dark(t) /\ Lit(t, "idle") /\ Settled(t)
  BY <1>1, <1>2, <1>3, <1>4 DEF Dark, Lit, Settled, SameSend, SameRx, SameCalls, SameAir, Flushed
<1>7. Flushed(t) /\ t.state = "start"
  BY <1>2, <1>3, <1>4 DEF Flushed, SameAir, SameRx, Safe, Receiving
<1>8. Safe(t, "idle")
  <2>1. Fits(t)
    BY <1>7, FlushFits
  <2> QED
    BY <1>2, <1>4, <1>5, <1>6, <1>7, <2>1
      DEF Safe, Good, Core, Receiving, SameSend, SameRx, SameCalls
<1> QED BY <1>7, <1>8 DEF t, u

\* The radio awake again, and the receiver on if it was wanted on meanwhile.
LEMMA Wakes ==
  ASSUME NEW s, Safe(s, "idle"), s.asleep
  PROVE  Safe(RxOnRequest([s EXCEPT !.asleep = FALSE]), "idle")
<1> DEFINE t == [s EXCEPT !.asleep = FALSE]
<1>1. s \in RadioState /\ s.sound /\ Sending(s, "idle") /\ Dark(s) /\ Lit(s, "idle") /\ Settled(s)
  BY DEF Safe, Good, Core
<1>2. /\ t \in RadioState /\ t.sound /\ SameSend(s, t) /\ SameRx(s, t) /\ SameAir(s, t)
      /\ t.moving = s.moving /\ t.enabled = s.enabled /\ t.inRx = s.inRx /\ ~t.asleep
      /\ t.on = s.on /\ t.reset = s.reset
  BY <1>1 DEF RadioState, SameSend, SameRx, SameAir
<1> HIDE DEF t
<1>3. Sending(t, "idle")
  BY <1>1, <1>2 DEF Sending, SameSend
<1>4. Dark(t) /\ Lit(t, "idle") /\ Settled(t) /\ t.tx # "busy"
  BY <1>1, <1>2 DEF Safe, Dark, Lit, Settled, SameSend, SameRx, SameAir
<1>5. Safe(t, "idle")
  BY <1>2, <1>3, <1>4, SameSafe DEF SameRx
<1>6. t.enabled # {} => Safe(RxOn(t), "idle")
  BY <1>2, <1>5, ReceiverOn DEF Step
<1> QED BY <1>5, <1>6 DEF RxOnRequest, t

\* macLowLevelReset turns the receiver off at once, and throws away what it held.
LEMMA Resets ==
  ASSUME NEW s, Safe(s, "idle"), s.tx = "none", ~s.asleep
  PROVE  Safe(RxHardDisable(s), "idle")
<1> DEFINE e == [s EXCEPT !.enabled = {}]
           u == [e EXCEPT !.on = FALSE, !.coming = <<>>, !.ack = FALSE]
           v == FlushRxFifo(u)
           h == RxHaltCleanup(v)
<1>1. s \in RadioState /\ s.sound /\ Sending(s, "idle") /\ Dark(s) /\ Settled(s) /\ s.csp = "none"
  BY DEF Safe, Good, Core, Sending
<1>2. /\ e \in RadioState /\ e.sound /\ SameSend(s, e) /\ SameRx(s, e) /\ e.asleep = s.asleep
      /\ e.moving = s.moving /\ e.inRx = s.inRx /\ e.reset = s.reset
  BY <1>1 DEF RadioState, SameSend, SameRx
<1> HIDE DEF e
<1>3. Assert_(e, e.csp \notin {"sending", "onair"}) = e
  <2>1. e.csp = "none"
    BY <1>1, <1>2 DEF SameSend
  <2> QED BY <2>1, <1>2, AssertHolds
<1>4. RxTxOff(e) = u
  BY <1>3, Zenon DEF RxTxOff
<1>5. u \in RadioState
  BY <1>2, EmptyFifo DEF RadioState
<1>6. /\ u.sound /\ ~u.on /\ SameSend(e, u) /\ SameRx(e, u) /\ SameCalls(e, u)
      /\ u.reset = e.reset
  BY <1>2 DEF RadioState, SameSend, SameRx, SameCalls
<1> HIDE DEF u
<1>7. v \in RadioState
  BY <1>5, EmptyFifo DEF RadioState, FlushRxFifo
<1>8. /\ v.sound /\ ~v.on /\ Flushed(v) /\ SameSend(u, v) /\ SameRx(u, v) /\ SameCalls(u, v)
      /\ v.reset = u.reset
  BY <1>5, <1>6 DEF RadioState, FlushRxFifo, Flushed, SameSend, SameRx, SameCalls
<1>9. RxHardDisable(s) = h
  <2>1. RxHardDisable(s) = RxHaltCleanup(FlushRxFifo(RxTxOff(e)))
    BY Zenon DEF RxHardDisable, e
  <2> HIDE DEF h, v
  <2>2. FlushRxFifo(RxTxOff(e)) = v
    BY <1>4, Zenon DEF v
  <2> QED BY <2>1, <2>2, Zenon DEF h
<1> HIDE DEF v
<1>10. Sending(v, "idle")
  BY <1>1, <1>2, <1>6, <1>8 DEF Sending, Starting, SameSend
<1>11. Core(v, "idle") /\ Lit(v, "idle") /\ Settled(v) /\ "idle" \in Step /\ ~v.inRx /\ ~v.reset
       /\ v.tx # "busy"
  BY <1>1, <1>2, <1>6, <1>7, <1>8, <1>10
    DEF Core, Dark, Lit, Settled, Step, Flushed, SameSend, SameRx, SameCalls, Safe
<1>12. /\ Core(h, "idle") /\ Lit(h, "idle") /\ SameCalls(v, h) /\ h.reset = v.reset
       /\ h.state = "start" /\ h.rx = "none" /\ Flushed(h)
       /\ h.tx = "none" <=> v.tx = "none"
       /\ v.tx # "busy" => h.tx # "busy"
  BY <1>11, Halts
<1> HIDE DEF h
<1>13. Fits(h)
  BY <1>12, FlushFits
<1>14. Safe(h, "idle")
  BY <1>11, <1>12, <1>13 DEF Safe, Good, Settled, Receiving, SameCalls
<1> QED BY <1>9, <1>14

-----------------------------------------------------------------------------
(* The invariant *)

\* What the other lemmas need of a safe state.
LEMMA SafeState ==
  ASSUME NEW k, NEW s, Safe(s, k)
  PROVE  s \in RadioState /\ s.sound /\ Sending(s, k) /\ (k \in Step => s.mask \in SUBSET Interrupts)
BY DEF Safe, Good, Core, RadioState

\* An interrupt keeps the invariant.
LEMMA Interrupted ==
  ASSUME RadioInv, RfIsr \/ RfIsrLoop \/ RfErrIsr
  PROVE  RadioInv'
<1> DEFINE k == step
           s == m
<1>1. Safe(m, step) /\ step \in Step /\ m \in RadioState
  BY SafeState DEF RadioInv
<1>2. CASE RfIsr
  <2>1. step' = step /\ loop' = Fifop'
    BY <1>2 DEF RfIsr
  <2>2. CASE "int" \in Pending
    <3>1. m' = IntIsr([m EXCEPT !.irq = @ \ {"int"}])
      BY <1>2, <2>2 DEF RfIsr
    <3>2. Safe(m', step)
      BY <1>1, <2>2, <3>1, Begins DEF Pending
    <3> QED BY <1>1, <2>1, <3>2 DEF RadioInv, Fifop
  <2>3. CASE "int" \notin Pending /\ "stop" \in Pending
    <3>1. m' = StopIsr([m EXCEPT !.irq = @ \ {"stop"}])
      BY <1>2, <2>3 DEF RfIsr
    <3>2. Good(m', step) /\ m'.tx # "busy" /\ Kept(m, m')
      BY <1>1, <2>3, <3>1, ProgramEnds DEF Pending, Safe
    <3>3. Safe(m', step)
      BY <1>1, <3>2, KeptSafe
    <3> QED BY <1>1, <2>1, <3>3 DEF RadioInv, Fifop
  <2>4. CASE "int" \notin Pending /\ "stop" \notin Pending
    <3>1. m' = AckTxDone([m EXCEPT !.mask = @ \ {"ackDone"}]) \/ m' = m
      BY <1>2, <2>4 DEF RfIsr
    <3>2. Safe(m', step)
      BY <1>1, <3>1, AckEnds
    <3> QED BY <1>1, <2>1, <3>2 DEF RadioInv, Fifop
  <2> QED BY <2>2, <2>3, <2>4
<1>3. CASE RfIsrLoop
  <2>1. step' = step /\ loop' = Fifop' /\ loop
    BY <1>3 DEF RfIsrLoop
  <2>2. m.fifo # <<>> \/ m.over
    BY <2>1 DEF RadioInv, Fifop
  <2>3. PICK junk \in Expected[m.state], fate \in {"take", "filter", "full"} :
          m' = RxThresholdIsr(m, junk, fate)
    BY <1>3 DEF RfIsrLoop
  <2>4. junk \in Awaited(m.state)
    BY <1>1, <2>3, ExpectedIs DEF RadioState
  <2>5. Safe(m', step)
    BY <1>1, <2>2, <2>3, <2>4, Threshold DEF Safe
  <2> QED BY <1>1, <2>1, <2>5 DEF RadioInv, Fifop
<1>4. CASE RfErrIsr
  <2>1. step' = step /\ loop' = loop /\ ~loop /\ m' = RxHaltCleanup([m EXCEPT !.err = FALSE])
    BY <1>4 DEF RfErrIsr
  <2>2. Safe(m', step)
    BY <1>1, <2>1, Overflows
  <2>3. Safe(m', step') /\ step' \in Step
    BY <1>1, <2>1, <2>2
  <2>4. loop' \in BOOLEAN /\ ~loop'
    BY <2>1 DEF RadioInv
  <2> QED BY <2>3, <2>4 DEF RadioInv
<1> QED BY <1>2, <1>3, <1>4

\* What the radio does by itself keeps it, and takes nothing out of the FIFO.
LEMMA OnItsOwn ==
  ASSUME RadioInv,
         Radio(Arrive) \/ Radio(Piece) \/ Radio(AckSent) \/ Radio(Cca) \/ Radio(Sfd) \/ Radio(Sent)
         \/ Radio(AckTimeout)
  PROVE  RadioInv'
<1>1. Safe(m, step) /\ step \in Step /\ m \in RadioState /\ step' = step /\ loop' = loop
  BY SafeState DEF RadioInv, Radio
<1> SUFFICES Safe(m', step) /\ (Fifop => Fifop')
  BY <1>1 DEF RadioInv
<1>2. CASE Arrive
  <2>1. PICK f \in Frame : m' = [m EXCEPT !.coming = f, !.asks = (Head(f) = "request")]
    BY <1>2 DEF Arrive
  <2>2. (Head(f) = "request") \in BOOLEAN
    OBVIOUS
  <2>3. Safe(m', step)
    BY <1>1, <1>2, <2>1, <2>2, Arrives DEF Arrive
  <2>4. m'.fifo = m.fifo /\ m'.over = m.over
    BY <1>1, <2>1 DEF RadioState
  <2> QED BY <2>3, <2>4 DEF Fifop
<1>3. CASE Piece
  <2> DEFINE ack == (m.coming = <<"good">> /\ m.asks)
             asks == m.asks /\ Len(m.coming) > 1
  <2>1. ack \in BOOLEAN /\ asks \in BOOLEAN
    OBVIOUS
  <2>2. CASE Len(m.fifo) = FifoSize
    <3>1. m' = [m EXCEPT !.over = TRUE, !.err = TRUE, !.coming = <<>>]
      BY <1>3, <2>2 DEF Piece
    <3> QED BY <1>1, <1>3, <2>2, <3>1, PieceComes DEF Piece, Fifop
  <2>3. CASE Len(m.fifo) # FifoSize
    <3>1. m' = [m EXCEPT !.fifo = Append(@, Head(m.coming)), !.coming = Tail(@),
                         !.ack = ack, !.asks = asks]
      BY <1>3, <2>3 DEF Piece
    <3> HIDE DEF ack, asks
    <3>2. m.coming # <<>>
      BY <1>3 DEF Piece
    <3>3. Safe(m', step) /\ m'.fifo # <<>>
      BY <1>1, <2>1, <2>3, <3>1, <3>2, PieceComes
    <3> QED BY <3>3 DEF Fifop
  <2> QED BY <2>2, <2>3
<1>4. CASE AckSent
  BY <1>1, <1>4, AckGoes DEF AckSent, Fifop, SameAir
<1>5. CASE Cca
  <2>1. CASE m' = Stops(m, "busy")
    BY <1>1, <1>5, <2>1, ProgramStops DEF Cca, Fifop, SameAir
  <2>2. CASE m' = [m EXCEPT !.csp = "sending"]
    BY <1>1, <1>5, <2>2, ProgramSends DEF Cca, Fifop, SameAir
  <2> QED BY <1>5, <2>1, <2>2 DEF Cca
<1>6. CASE Sfd
  BY <1>1, <1>6, ProgramOnAir DEF Sfd, Fifop, SameAir
<1>7. CASE Sent
  BY <1>1, <1>7, ProgramStops DEF Sent, Fifop, SameAir
<1>8. CASE AckTimeout
  BY <1>1, <1>8, ProgramStops DEF AckTimeout, Fifop, SameAir
<1> QED BY <1>2, <1>3, <1>4, <1>5, <1>6, <1>7, <1>8 DEF Radio

\* What the thread does keeps it: it runs outside the interrupts.
LEMMA Called ==
  ASSUME RadioInv,
         \/ GoesOn
         \/ \E ackReq \in BOOLEAN : Calls(TxFrame(ackReq))
         \/ \E f \in Flag : Calls(RxEnable(f)) \/ Calls(RxSoftEnable(f)) \/ Calls(RxDisable(f))
         \/ \E other \in BOOLEAN : Calls(SetChannel(other))
         \/ Calls(Sleep) \/ Calls(WakeUp) \/ Calls(LowLevelReset)
  PROVE  RadioInv'
<1>1. Safe(m, step) /\ step \in Step /\ m \in RadioState
  BY SafeState DEF RadioInv
<1>2a. ~loop /\ loop' = loop
  BY DEF GoesOn, Calls, Thread
<1>2b. loop' \in BOOLEAN /\ ~loop'
  BY <1>2a DEF RadioInv
<1> SUFFICES Safe(m', step') /\ step' \in Step
  BY <1>2b DEF RadioInv
<1> USE DEF Step
<1>2. CASE Prepare
  BY <1>1, <1>2, Prepares DEF Prepare
<1>3. CASE GoOrQueue
  BY <1>1, <1>3, Decides DEF GoOrQueue
<1>4. CASE Go
  BY <1>1, <1>4, Goes DEF Go
<1>5. CASE Arm
  BY <1>1, <1>5, Arms DEF Arm
<1>6. CASE TurnOn
  BY <1>1, <1>6, TurnsOn DEF TurnOn
<1>7. CASE Run
  BY <1>1, <1>7, Runs DEF Run
<1>8. CASE MayTurnOff
  BY <1>1, <1>8, TurnsOff DEF MayTurnOff
<1>9. ASSUME NEW ackReq \in BOOLEAN, step = "idle", TxFrame(ackReq) PROVE Safe(m', step') /\ step' \in Step
  <2> DEFINE t == [m EXCEPT !.tx = "initialize", !.ackReq = ackReq, !.nb = 0]
  <2>1. /\ m.tx = "none"
        /\ IF m.asleep THEN m' = TxComplete(t) /\ UNCHANGED step ELSE m' = t /\ step' = "prepare"
    BY <1>9 DEF TxFrame
  <2>2. IF m.asleep THEN Safe(TxComplete(t), "idle") ELSE Safe(t, "prepare")
    BY <1>1, <1>9, <2>1, FrameBegins
  <2> HIDE DEF t
  <2> QED BY <1>1, <1>9, <2>1, <2>2
<1>10. ASSUME NEW f \in Flag, step = "idle", RxEnable(f) \/ RxSoftEnable(f)
       PROVE  Safe(m', step') /\ step' \in Step
  <2> DEFINE t == [m EXCEPT !.enabled = @ \cup {f}]
  <2>1. m.enabled \cup {f} \in SUBSET Flag
    BY <1>1 DEF RadioState
  <2>2. Safe(t, "idle") /\ t.enabled # {} /\ t.asleep = m.asleep
    <3>1. Safe(t, "idle") /\ t.enabled = m.enabled \cup {f}
      BY <1>1, <1>10, <2>1, FlagsSet DEF Idle
    <3>2. t.asleep = m.asleep
      BY <1>1 DEF RadioState
    <3> QED BY <3>1, <3>2
  <2> HIDE DEF t
  <2>3. ~t.asleep => Safe(RxOn(t), "idle")
    BY <2>2, ReceiverOn
  <2> QED BY <1>10, <2>2, <2>3 DEF RxEnable, RxSoftEnable, t
<1>11. ASSUME NEW f \in Flag, step = "idle", RxDisable(f) PROVE Safe(m', step') /\ step' \in Step
  <2>1. m.enabled \ {f} \in SUBSET Flag
    BY <1>1 DEF RadioState
  <2>2. Safe([m EXCEPT !.enabled = m.enabled \ {f}], "off")
    BY <1>1, <1>11, <2>1, FlagsSet DEF Idle
  <2> QED BY <1>11, <2>2 DEF RxDisable
<1>12. ASSUME NEW other \in BOOLEAN, step = "idle", SetChannel(other)
       PROVE  Safe(m', step') /\ step' \in Step
  BY <1>1, <1>12, Moves DEF SetChannel
<1>13. ASSUME step = "idle", Sleep PROVE Safe(m', step') /\ step' \in Step
  BY <1>1, <1>13, Sleeps DEF Sleep
<1>14. ASSUME step = "idle", WakeUp PROVE Safe(m', step') /\ step' \in Step
  BY <1>1, <1>14, Wakes DEF WakeUp
<1>15. ASSUME step = "idle", LowLevelReset PROVE Safe(m', step') /\ step' \in Step
  BY <1>1, <1>15, Resets DEF LowLevelReset
<1> QED
  BY <1>2, <1>3, <1>4, <1>5, <1>6, <1>7, <1>8, <1>9, <1>10, <1>11, <1>12, <1>13, <1>14, <1>15
    DEF GoesOn, Calls, Thread

\* At first everything is at rest.
LEMMA RadioInit ==
  ASSUME MacInit
  PROVE  RadioInv
<1>1. m \in RadioState
  BY EmptyFifo, RadioAssumption DEF MacInit, RadioState
<1>2. Safe(m, step)
  BY <1>1, RadioAssumption DEF MacInit, Safe, Good, Core, Sending, Starting, Dark, Lit, Settled,
    Receiving, Fits, Chain, Behind, Awaited
<1> QED BY <1>2 DEF MacInit, RadioInv, Step

\* Whatever the order of interrupts, radio and thread, RadioInv holds.
LEMMA RadioInvariant == MacSpec => []RadioInv
<1>1. RadioInv /\ UNCHANGED macVars => RadioInv'
  BY DEF RadioInv, macVars, Fifop
<1>2. RadioInv /\ MacNext => RadioInv'
  BY Interrupted, OnItsOwn, Called DEF MacNext
<1> QED
  BY <1>1, <1>2, RadioInit, PTL DEF MacSpec

\* RadioInv says enough: the variables of MacRadio are of their types.
LEMMA RadioTyped ==
  ASSUME RadioInv
  PROVE  MacTypeOK
<1>1. m \in RadioState /\ m.rx \in {"none", "started"} /\ m.tx # "busy" /\ ~m.inRx /\ ~m.reset
  BY DEF RadioInv, Safe, Good, Core, Receiving
<1>2. m.state \in DOMAIN Expected
  BY <1>1 DEF RadioState, Expected
<1> QED BY <1>1, <1>2 DEF RadioState, Interrupts, Fifo, RadioInv, Step, MacTypeOK

\* For every set of frames and flags, every number of backoffs and size of the
\* FIFO, and late or early interrupts: the low level of the MAC breaks none of its
\* own assertions, and the receiver is on while a frame waits for a clear channel
\* or goes out, off in sleep, and off in the end if nothing wants it on.
THEOREM RadioIsSafe == MacSpec => []RadioSafe
<1>1. RadioInv => RadioSafe
  BY RadioTyped DEF RadioInv, Safe, Good, Core, Sending, Dark, Lit, Quiet, RadioSafe
<1> QED
  BY <1>1, RadioInvariant, PTL

=============================================================================
