-------------------------- MODULE SmartHomeNet_proofs --------------------------
(***************************************************************************)
(* Proofs about SmartHomeNet for every set of devices, names and addresses *)
(* and every bound: type correctness, that the caches hold only pairs that *)
(* were true at some moment, and that a command moves a light only while   *)
(* the device bears the name of its role.                                  *)
(***************************************************************************)
EXTENDS SmartHomeNet, TLAPS

-----------------------------------------------------------------------------
(* The operations on the name/address table *)

\* The index stays a slot number.
LEMMA NextIdxInSlot ==
  ASSUME NEW slot \in Slot
  PROVE  /\ NextIdx(slot) \in Slot
         /\ NextIdx(slot) = IF slot = NAME_ADDR_CACHE_SIZE - 1 THEN 0 ELSE slot + 1
  BY SizeAssumption DEF NextIdx, Slot

\* Deleting by address, or by address or name, gives a table.
LEMMA TableClosed ==
  ASSUME NEW t \in Table, NEW n \in Name, NEW a \in Addr, NEW i \in Slot
  PROVE  /\ Deleted(t, a) \in Table
         /\ WithoutMatch(t, n, a) \in Table
         /\ Put(t, i, n, a) \in Table
  BY DEF Table, Entry, Deleted, WithoutMatch, Put

\* A look-up gives a unicast address or the broadcast address.
LEMMA GetAddrType ==
  ASSUME NEW t \in Table, NEW n
  PROVE  GetAddr(t, n) \in Addr \cup {Broadcast}
<1>1. \A s \in FirstMatch(t, n) : t[s].addr \in Addr
  BY DEF FirstMatch, Table, Entry
<1>2. FirstMatch(t, n) # {} => (CHOOSE s \in FirstMatch(t, n) : TRUE) \in FirstMatch(t, n)
  OBVIOUS
<1> QED
  BY <1>1, <1>2 DEF GetAddr

\* What a deletion leaves was there before, and so is what a put leaves, apart
\* from the new entry.
LEMMA EntriesAfter ==
  ASSUME NEW t \in Table, NEW n \in Name, NEW a \in Addr, NEW i \in Slot
  PROVE  /\ Entries(Deleted(t, a)) \subseteq Entries(t)
         /\ Entries(Put(t, i, n, a)) \subseteq Entries(t) \cup {[addr |-> a, name |-> n]}
BY DEF Table, Entries, Deleted, Put, WithoutMatch

-----------------------------------------------------------------------------
(* Type correctness *)

\* What the sender of a device is left with by a request, a unicast command or
\* a broadcast is again a sender.
LEMMA SenderTypes ==
  ASSUME NEW s \in Sender, NEW dest \in Addr \cup {Broadcast}, NEW ok
  PROVE  /\ s.transID \in TransID
         /\ Requested(s, ok) \in Sender
         /\ Commanded(s, dest, ok) \in Sender
<1>1. s.transID \in TransID
  BY DEF Sender
<1>2. (s.transID + 1) % TransIDMod \in TransID
  BY <1>1, TransIDModAssumption DEF TransID
<1>3. Remembered(s, dest) \in Sender /\ Remembered(s, dest).transID = s.transID
  BY DEF Remembered, Sender
<1>4. \A r \in Sender : r.transID = s.transID => Requested(r, ok) \in Sender
  BY <1>2 DEF Requested, Sender
<1> QED
  BY <1>1, <1>3, <1>4 DEF Commanded

\* What AF_DataRequest hands on is a set of frames, or of numbers to confirm.
LEMMA RequestTypes ==
  ASSUME TypeOK, NEW n \in Node, NEW t \in TransID,
         NEW dest \in Addr \cup {Broadcast}, NEW text \in Text, NEW ok
  PROVE  /\ Frames(n, t, dest, text, ok) \subseteq Frame
         /\ Refusals(n, t, dest, ok) \subseteq TransID
BY DEF TypeOK, Frames, Refusals, Frame

\* Handling a message keeps the types of all it changes.
LEMMA HandledTypes ==
  ASSUME TypeOK, NEW n \in Node, NEW m, NEW s \in Sender, NEW out \in SUBSET Frame,
         NEW refused \in SUBSET TransID, NEW faults, Handled(n, m, s, out, refused, faults)
  PROVE  /\ name' \in [Node -> Name] /\ bootName' \in [Node -> Name]
         /\ addr' \in [Node -> Addr] /\ snd' \in [Node -> Sender]
         /\ air' \subseteq Frame
         /\ \A k \in Node : rx'[k] \subseteq Message /\ failures'[k] \subseteq TransID
<1>1. /\ name' \in [Node -> Name] /\ bootName' \in [Node -> Name]
      /\ addr' \in [Node -> Addr] /\ snd' \in [Node -> Sender]
      /\ air' \subseteq Frame
  BY DEF Handled, TypeOK, deviceVars
<1>2. ASSUME NEW k \in Node PROVE rx'[k] \subseteq Message /\ failures'[k] \subseteq TransID
  BY DEF Handled, TypeOK
<1> QED
  BY <1>1, <1>2

\* A reply is a message handled, with at most one frame sent.
LEMMA ReplyTypes ==
  ASSUME TypeOK, NEW n \in Node, NEW m \in Message, NEW text \in Text, NEW ok,
         Reply(n, m, text, ok)
  PROVE  /\ name' \in [Node -> Name] /\ bootName' \in [Node -> Name]
         /\ addr' \in [Node -> Addr] /\ snd' \in [Node -> Sender]
         /\ air' \subseteq Frame
         /\ \A k \in Node : rx'[k] \subseteq Message /\ failures'[k] \subseteq TransID
<1>1. snd[n] \in Sender /\ m.addr \in Addr
  BY DEF TypeOK, Message
<1>2. snd[n].transID \in TransID /\ Requested(snd[n], ok) \in Sender
  BY <1>1, SenderTypes
<1>3. /\ Frames(n, snd[n].transID, m.addr, text, ok) \subseteq Frame
      /\ Refusals(n, snd[n].transID, m.addr, ok) \subseteq TransID
  BY <1>1, <1>2, RequestTypes
<1> QED
  BY <1>2, <1>3, HandledTypes DEF Reply

\* What users send is of its type.
LEMMA SendTypes ==
  ASSUME TypeOK, NEW n \in Node, NEW text \in Text, NEW dest \in Addr \cup {Broadcast},
         NEW ok, Send(n, text, dest, ok)
  PROVE  TypeOK'
<1>1. snd[n] \in Sender
  BY DEF TypeOK
<1>2. snd[n].transID \in TransID /\ Commanded(snd[n], dest, ok) \in Sender
  BY <1>1, SenderTypes
<1>3. /\ Frames(n, snd[n].transID, dest, text, ok) \subseteq Frame
      /\ Refusals(n, snd[n].transID, dest, ok) \subseteq TransID
  BY <1>2, RequestTypes
<1>4. air' \subseteq Frame /\ snd' \in [Node -> Sender]
  BY <1>2, <1>3 DEF Send, TypeOK
<1>5. \A k \in Node : rx'[k] \subseteq Message /\ failures'[k] \subseteq TransID
  BY <1>3 DEF Send, TypeOK
<1> QED
  BY <1>4, <1>5 DEF Send, TypeOK, deviceVars

\* A message from the queue, whichever handler it goes to.
LEMMA MessageTypes ==
  ASSUME TypeOK, NEW n \in Node, NEW m \in rx[n], MessageMSGCB(n, m)
  PROVE  TypeOK'
<1>m. /\ m \in Message /\ m.addr \in Addr /\ m.text \in Text
      /\ snd[n] \in Sender /\ name[n] \in Name /\ bootName[n] \in Name
  BY DEF TypeOK, Message
<1>s. snd[n].transID \in TransID /\ \A ok : Requested(snd[n], ok) \in Sender
  BY <1>m, SenderTypes
<1>a. Announcement(n) \in Text
  BY <1>m DEF Announcement, Text, Kind
<1>1. ASSUME NEW ok \in BOOLEAN, ProcessReportNames(n, m, ok) PROVE TypeOK'
  <2>1. [kind |-> "ReportNamesResp", name |-> name[n]] \in Text
    BY <1>m DEF Text, Kind
  <2> QED
    BY <1>1, <1>m, <2>1, ReplyTypes DEF ProcessReportNames, TypeOK
<1>2. CASE ProcessNameAddrMapResp(n, m)
  <2>1. /\ name' \in [Node -> Name] /\ bootName' \in [Node -> Name]
        /\ addr' \in [Node -> Addr] /\ snd' \in [Node -> Sender]
        /\ air' \subseteq Frame
        /\ \A k \in Node : rx'[k] \subseteq Message /\ failures'[k] \subseteq TransID
    BY <1>2, <1>m, HandledTypes DEF ProcessNameAddrMapResp
  <2>2. table' \in [Node -> Table] /\ idx' \in [Node -> Slot]
    <3>1. CASE m.text.name \in CachedName
      <4>1. table[n] \in Table /\ idx[n] \in Slot /\ m.text.name \in Name
        BY <3>1, NetAssumption DEF TypeOK
      <4>2. Put(table[n], idx[n], m.text.name, m.addr) \in Table /\ NextIdx(idx[n]) \in Slot
        BY <1>m, <4>1, TableClosed, NextIdxInSlot
      <4> QED
        BY <1>2, <3>1, <4>2 DEF ProcessNameAddrMapResp, TypeOK
    <3>2. CASE m.text.name \notin CachedName
      BY <1>2, <3>2 DEF ProcessNameAddrMapResp, TypeOK
    <3> QED
      BY <3>1, <3>2
  <2> QED
    BY <1>2, <2>1, <2>2 DEF ProcessNameAddrMapResp, TypeOK
<1>3. CASE ProcessLightStatusResp(n, m)
  BY <1>3, <1>m, HandledTypes DEF ProcessLightStatusResp, TypeOK
<1>4. ASSUME NEW ok \in BOOLEAN, NotForMe(n, m, ok) PROVE TypeOK'
  <2>1. CASE m.wasBroadcast
    BY <1>4, <1>m, <2>1, HandledTypes DEF NotForMe, TypeOK
  <2>2. CASE ~m.wasBroadcast
    BY <1>4, <1>m, <1>a, <2>2, ReplyTypes DEF NotForMe, TypeOK
  <2> QED
    BY <2>1, <2>2
<1>5. ASSUME NEW ok1 \in BOOLEAN, NEW ok2 \in BOOLEAN, ForMe(n, m, ok1, ok2) PROVE TypeOK'
  <2> DEFINE answers == m.text.kind = "LightStatus" /\ Obeys(n, m)
             s1 == IF m.wasBroadcast THEN Requested(snd[n], ok1) ELSE snd[n]
             s2 == IF answers THEN Commanded(s1, m.addr, ok2) ELSE s1
             status == [kind |-> "LightStatusResp", name |-> bootName[n]]
             out == (IF m.wasBroadcast
                     THEN Frames(n, snd[n].transID, m.addr, Announcement(n), ok1) ELSE {})
                      \cup (IF answers
                            THEN Frames(n, s1.transID, m.addr, status, ok2) ELSE {})
             refused == Refusals(n, snd[n].transID, m.addr, ok1)
                          \cup Refusals(n, s1.transID, m.addr, ok2)
  <2>1. Handled(n, m, s2, out, refused, Count(ok1) + Count(ok2))
    BY <1>5 DEF ForMe
  <2>2. s1 \in Sender
    BY <1>m, <1>s
  <2>3. s1.transID \in TransID /\ s2 \in Sender
    BY <1>m, <2>2, SenderTypes
  <2>4. status \in Text
    BY <1>m DEF Text, Kind
  <2>5. out \subseteq Frame /\ refused \subseteq TransID
    BY <1>m, <1>s, <1>a, <2>3, <2>4, RequestTypes
  <2> HIDE DEF out, refused, s1, s2
  <2>6. /\ name' \in [Node -> Name] /\ bootName' \in [Node -> Name]
        /\ addr' \in [Node -> Addr] /\ snd' \in [Node -> Sender]
        /\ air' \subseteq Frame
        /\ \A k \in Node : rx'[k] \subseteq Message /\ failures'[k] \subseteq TransID
    BY <2>1, <2>3, <2>5, HandledTypes
  <2>7. light' \in [Node -> BOOLEAN]
    BY <1>5 DEF ForMe, TypeOK
  <2> QED
    BY <1>5, <2>6, <2>7 DEF ForMe, TypeOK
<1> QED
  BY <1>1, <1>2, <1>3, <1>4, <1>5 DEF MessageMSGCB

\* Type correctness: the caches stay tables and the indices inside them, the
\* transaction numbers stay bytes, and only messages with a sender's address
\* and a text of a known kind are ever under way.
THEOREM TypeCorrect == Spec => []TypeOK
<1>1. Init => TypeOK
  BY NetAssumption, SizeAssumption, CoordAddrAssumption, TransIDModAssumption
  DEF Init, TypeOK, EmptyTable, Table, Slot, ResetSender, Sender, TransID
<1>2. TypeOK /\ [Next]_vars => TypeOK'
  <2> SUFFICES ASSUME TypeOK, [Next]_vars PROVE TypeOK'
    OBVIOUS
  <2>1. ASSUME NEW n \in Node, NEW verb \in Verb, NEW target \in Name, NEW ok \in BOOLEAN,
               SmartHome_SendCmd(n, verb, target, ok)
        PROVE  TypeOK'
    <3>1. [kind |-> verb, name |-> target] \in Text
      BY DEF Text, Kind, Verb
    <3>2. GetAddr(table[n], target) \in Addr \cup {Broadcast}
      BY GetAddrType DEF TypeOK
    <3> QED
      BY <2>1, <3>1, <3>2, SendTypes DEF SmartHome_SendCmd
  <2>2. ASSUME NEW n \in Node, NEW dest \in Addr \cup {Broadcast}, NEW ok \in BOOLEAN,
               SendReportNames(n, dest, ok)
        PROVE  TypeOK'
    <3>1. [kind |-> "ReportNames", name |-> NoName] \in Text
      BY DEF Text, Kind
    <3> QED
      BY <2>2, <3>1, SendTypes DEF SendReportNames
  <2>3. ASSUME NEW f \in air, NEW to \in SUBSET Node, NEW ok \in BOOLEAN, AirDone(f, to, ok)
        PROVE  TypeOK'
    <3>1. Received(f) \in Message /\ f.from \in Node /\ f.transID \in TransID
      BY DEF TypeOK, Received, Message, Frame
    <3>2. \A k \in Node : rx'[k] \subseteq Message /\ failures'[k] \subseteq TransID
      BY <2>3, <3>1 DEF AirDone, TypeOK
    <3>3. air' \subseteq Frame
      BY <2>3 DEF AirDone, TypeOK
    <3> QED
      BY <2>3, <3>2, <3>3 DEF AirDone, TypeOK, deviceVars
  <2>4. ASSUME NEW n \in Node, NEW t \in failures[n], DataConfirm(n, t) PROVE TypeOK'
    <3>1. AfterFailure(snd[n], table[n], t) \in Table
      BY DEF TypeOK, AfterFailure, Deleted, Table
    <3> QED
      BY <2>4, <3>1 DEF DataConfirm, TypeOK, deviceVars
  <2>5. ASSUME NEW n \in Node, NEW m \in rx[n], MessageMSGCB(n, m) PROVE TypeOK'
    BY <2>5, MessageTypes
  <2>6. ASSUME NEW n \in Node, NEW new \in Name, WriteName(n, new) PROVE TypeOK'
    BY <2>6 DEF WriteName, TypeOK
  <2>7. ASSUME NEW n \in Node, SystemReset(n) PROVE TypeOK'
    <3>1. EmptyTable \in Table /\ 0 \in Slot /\ ResetSender \in Sender
      BY SizeAssumption, CoordAddrAssumption, TransIDModAssumption
      DEF EmptyTable, Table, Slot, ResetSender, Sender, TransID
    <3>2. air' \subseteq Frame
      BY <2>7 DEF SystemReset, TypeOK
    <3>3. \A k \in Node : rx'[k] \subseteq Message /\ failures'[k] \subseteq TransID
      BY <2>7 DEF SystemReset, TypeOK
    <3> QED
      BY <2>7, <3>1, <3>2, <3>3 DEF SystemReset, TypeOK
  <2>8. ASSUME NEW n \in Node, NEW a \in Addr, Rejoin(n, a) PROVE TypeOK'
    BY <2>8 DEF Rejoin, TypeOK
  <2>9. CASE UNCHANGED vars
    BY <2>9 DEF vars, deviceVars, TypeOK
  <2> QED
    BY <2>1, <2>2, <2>3, <2>4, <2>5, <2>6, <2>7, <2>8, <2>9 DEF Next
<1> QED
  BY <1>1, <1>2, PTL DEF Spec

-----------------------------------------------------------------------------
(* Only truths are cached *)

\* Some device was called n while it lived at a.
Held(n, a) == [name |-> n, addr |-> a] \in held

\* An announcement gives a pair that some device had.
Honest(f) == f.text.kind = "NameAddrMap" => Held(f.text.name, f.addr)

\* What every device is called and lives at now, what every announcement under
\* way says, and what every cache holds was true at some moment.
Truthful ==
  /\ \A n \in Node : Held(name[n], addr[n])
  /\ \A f \in air : Honest(f)
  /\ \A n \in Node : \A m \in rx[n] : Honest(m)
  /\ OnlyTruthsCached

\* A frame is honest unless it is an announcement of something else than the
\* name of its sender.
LEMMA FramesHonest ==
  ASSUME Truthful, NEW n \in Node, NEW t, NEW to, NEW text, NEW ok,
         text.kind = "NameAddrMap" => text.name = name[n]
  PROVE  \A f \in Frames(n, t, to, text, ok) : Honest(f)
BY DEF Truthful, Frames, Honest

\* Handling a message sends honest frames only and touches no cache.
LEMMA HandledTruthful ==
  ASSUME Truthful, TypeOK, NEW n \in Node, NEW m, NEW s, NEW out, NEW refused, NEW faults,
         Handled(n, m, s, out, refused, faults), \A f \in out : Honest(f)
  PROVE  /\ UNCHANGED <<name, addr, held>>
         /\ \A k \in Node : Held(name[k], addr[k])'
         /\ \A f \in air' : Honest(f)'
         /\ \A k \in Node : \A r \in rx'[k] : Honest(r)'
<1>1. UNCHANGED <<name, addr, held>>
  BY DEF Handled, deviceVars
<1>2. \A f : Honest(f)' <=> Honest(f)
  BY <1>1 DEF Honest, Held
<1>3. air' = air \cup out
  BY DEF Handled
<1>4. \A k \in Node : rx'[k] \subseteq rx[k]
  BY DEF Handled, TypeOK
<1>5. \A k \in Node : Held(name[k], addr[k])'
  BY <1>1 DEF Truthful, Held
<1> QED
  BY <1>1, <1>2, <1>3, <1>4, <1>5 DEF Truthful

\* Sending a text that is no announcement, or announces the sender's own name,
\* keeps every announcement honest.
LEMMA SendTruthful ==
  ASSUME Truthful, TypeOK, NEW n \in Node, NEW text, NEW dest, NEW ok,
         Send(n, text, dest, ok), text.kind # "NameAddrMap"
  PROVE  Truthful'
<1>1. UNCHANGED <<name, addr, held, table, rx>>
  BY DEF Send, deviceVars
<1>2. \A f : Honest(f)' <=> Honest(f)
  BY <1>1 DEF Honest, Held
<1>3. \A f \in air' : Honest(f)
  BY FramesHonest DEF Send, Truthful
<1>4. OnlyTruthsCached'
  BY <1>1 DEF Truthful, OnlyTruthsCached, Entries
<1> QED
  BY <1>1, <1>2, <1>3, <1>4 DEF Truthful, Held

\* A message from the queue, whichever handler it goes to: only announcements
\* reach the cache, and they are honest.
LEMMA MessageTruthful ==
  ASSUME Truthful, TypeOK, NEW n \in Node, NEW m \in rx[n], MessageMSGCB(n, m)
  PROVE  Truthful'
<1>a. Announcement(n).name = name[n]
  BY DEF Announcement
<1>1. ASSUME NEW s, NEW out, NEW refused, NEW faults, Handled(n, m, s, out, refused, faults),
             \A f \in out : Honest(f), UNCHANGED table
      PROVE  Truthful'
  <2>1. OnlyTruthsCached'
    BY <1>1, HandledTruthful DEF Truthful, OnlyTruthsCached, Entries
  <2> QED
    BY <1>1, <2>1, HandledTruthful DEF Truthful
<1>2. ASSUME NEW text, NEW ok, Reply(n, m, text, ok), UNCHANGED table,
             text.kind = "NameAddrMap" => text.name = name[n]
      PROVE  Truthful'
  <2>1. \A f \in Frames(n, snd[n].transID, m.addr, text, ok) : Honest(f)
    BY <1>2, FramesHonest
  <2> QED
    BY <1>1, <1>2, <2>1 DEF Reply
<1>3. ASSUME NEW ok \in BOOLEAN, ProcessReportNames(n, m, ok) PROVE Truthful'
  BY <1>2, <1>3 DEF ProcessReportNames
<1>4. CASE ProcessNameAddrMapResp(n, m)
  <2>1. Handled(n, m, snd[n], {}, {}, 0) /\ Held(m.text.name, m.addr)
    BY <1>4 DEF ProcessNameAddrMapResp, Truthful, Honest
  <2>2. OnlyTruthsCached'
    <3>1. CASE m.text.name \in CachedName
      <4>1. m.addr \in Addr /\ m.text.name \in Name /\ table[n] \in Table /\ idx[n] \in Slot
        BY <3>1, NetAssumption DEF TypeOK, Message
      <4>2. Entries(table'[n]) \subseteq
              Entries(table[n]) \cup {[addr |-> m.addr, name |-> m.text.name]}
        BY <1>4, <3>1, <4>1, EntriesAfter DEF ProcessNameAddrMapResp, TypeOK
      <4>3. \A k \in Node : k # n => table'[k] = table[k]
        BY <1>4, <3>1 DEF ProcessNameAddrMapResp, TypeOK
      <4>4. UNCHANGED held
        BY <2>1 DEF Handled
      <4>5. ASSUME NEW k \in Node, NEW e \in Entries(table'[k])
            PROVE  [name |-> e.name, addr |-> e.addr] \in held
        <5>1. CASE e \in Entries(table[k])
          BY <5>1 DEF Truthful, OnlyTruthsCached
        <5>2. CASE e = [addr |-> m.addr, name |-> m.text.name]
          BY <2>1, <5>2 DEF Held
        <5> QED
          BY <4>2, <4>3, <4>5, <5>1, <5>2
      <4> QED
        BY <4>4, <4>5 DEF OnlyTruthsCached, Entries
    <3>2. CASE m.text.name \notin CachedName
      <4>1. UNCHANGED <<held, table>>
        BY <1>4, <3>2 DEF ProcessNameAddrMapResp, Handled
      <4> QED
        BY <4>1 DEF Truthful, OnlyTruthsCached, Entries
    <3> QED
      BY <3>1, <3>2
  <2> QED
    BY <2>1, <2>2, HandledTruthful DEF Truthful
<1>5. CASE ProcessLightStatusResp(n, m)
  BY <1>1, <1>5 DEF ProcessLightStatusResp
<1>6. ASSUME NEW ok \in BOOLEAN, NotForMe(n, m, ok) PROVE Truthful'
  BY <1>1, <1>2, <1>a, <1>6 DEF NotForMe
<1>7. ASSUME NEW ok1 \in BOOLEAN, NEW ok2 \in BOOLEAN, ForMe(n, m, ok1, ok2) PROVE Truthful'
  <2> DEFINE answers == m.text.kind = "LightStatus" /\ Obeys(n, m)
             s1 == IF m.wasBroadcast THEN Requested(snd[n], ok1) ELSE snd[n]
             s2 == IF answers THEN Commanded(s1, m.addr, ok2) ELSE s1
             status == [kind |-> "LightStatusResp", name |-> bootName[n]]
             out == (IF m.wasBroadcast
                     THEN Frames(n, snd[n].transID, m.addr, Announcement(n), ok1) ELSE {})
                      \cup (IF answers
                            THEN Frames(n, s1.transID, m.addr, status, ok2) ELSE {})
             refused == Refusals(n, snd[n].transID, m.addr, ok1)
                          \cup Refusals(n, s1.transID, m.addr, ok2)
  <2>1. Handled(n, m, s2, out, refused, Count(ok1) + Count(ok2)) /\ UNCHANGED table
    BY <1>7 DEF ForMe
  <2>2. status.kind # "NameAddrMap"
    OBVIOUS
  <2>3. \A f \in out : Honest(f)
    BY <1>a, <2>2, FramesHonest
  <2> HIDE DEF out, refused, s2
  <2> QED
    BY <1>1, <2>1, <2>3
<1> QED
  BY <1>3, <1>4, <1>5, <1>6, <1>7 DEF MessageMSGCB

\* Whatever renames, rejoins, resets, faults and late announcements interleave,
\* a cache holds only pairs that some device had at some moment.
THEOREM CachesTruthful == Spec => []OnlyTruthsCached
<1>1. Init => Truthful
  BY NetAssumption DEF Init, Truthful, Held, OnlyTruthsCached, Entries, EmptyTable
<1>2. TypeOK /\ Truthful /\ [Next]_vars => Truthful'
  <2> SUFFICES ASSUME TypeOK, Truthful, [Next]_vars PROVE Truthful'
    OBVIOUS
  <2>1. ASSUME NEW n \in Node, NEW verb \in Verb, NEW target \in Name, NEW ok \in BOOLEAN,
               SmartHome_SendCmd(n, verb, target, ok)
        PROVE  Truthful'
    <3>1. [kind |-> verb, name |-> target].kind # "NameAddrMap"
      BY NetAssumption DEF Verb
    <3> QED
      BY <2>1, <3>1, SendTruthful DEF SmartHome_SendCmd
  <2>2. ASSUME NEW n \in Node, NEW dest \in Addr \cup {Broadcast}, NEW ok \in BOOLEAN,
               SendReportNames(n, dest, ok)
        PROVE  Truthful'
    BY <2>2, SendTruthful DEF SendReportNames
  <2>3. ASSUME NEW f \in air, NEW to \in SUBSET Node, NEW ok \in BOOLEAN, AirDone(f, to, ok)
        PROVE  Truthful'
    <3>1. UNCHANGED <<name, addr, held, table>> /\ air' \subseteq air
      BY <2>3 DEF AirDone, deviceVars
    <3>2. \A g : Honest(g)' <=> Honest(g)
      BY <3>1 DEF Honest, Held
    <3>3. Honest(Received(f))
      BY DEF Truthful, Honest, Received
    <3>4. \A k \in Node : rx'[k] \subseteq rx[k] \cup {Received(f)}
      BY <2>3 DEF AirDone
    <3>5. OnlyTruthsCached'
      BY <3>1 DEF Truthful, OnlyTruthsCached, Entries
    <3> QED
      BY <3>1, <3>2, <3>3, <3>4, <3>5 DEF Truthful, Held
  <2>4. ASSUME NEW n \in Node, NEW t \in failures[n], DataConfirm(n, t) PROVE Truthful'
    <3>1. UNCHANGED <<name, addr, held, air, rx>>
      BY <2>4 DEF DataConfirm, deviceVars
    <3>2. \A k \in Node : Entries(table'[k]) \subseteq Entries(table[k])
      <4>1. table[n] \in Table /\ snd[n].lastAddr \in Addr
        BY DEF TypeOK, Sender
      <4>2. Entries(Deleted(table[n], snd[n].lastAddr)) \subseteq Entries(table[n])
        BY <4>1 DEF Entries, Deleted, Table
      <4> QED
        BY <2>4, <4>2 DEF DataConfirm, AfterFailure, TypeOK
    <3>3. OnlyTruthsCached'
      BY <3>1, <3>2 DEF Truthful, OnlyTruthsCached, Entries
    <3> QED
      BY <3>1, <3>3 DEF Truthful, Honest, Held
  <2>5. ASSUME NEW n \in Node, NEW m \in rx[n], MessageMSGCB(n, m) PROVE Truthful'
    BY <2>5, MessageTruthful
  <2>6. ASSUME NEW n \in Node, NEW new \in Name, WriteName(n, new) PROVE Truthful'
    <3>1. UNCHANGED <<addr, table, air, rx>> /\ held \subseteq held'
      BY <2>6 DEF WriteName
    <3>2. \A k \in Node : Held(name[k], addr[k])'
      BY <2>6 DEF WriteName, TypeOK, Truthful, Held
    <3>3. OnlyTruthsCached'
      BY <3>1 DEF Truthful, OnlyTruthsCached, Entries
    <3> QED
      BY <3>1, <3>2, <3>3 DEF Truthful, Honest, Held
  <2>7. ASSUME NEW n \in Node, SystemReset(n) PROVE Truthful'
    <3>1. /\ UNCHANGED <<name, addr, held>> /\ air' \subseteq air
          /\ \A k \in Node : rx'[k] \subseteq rx[k]
      BY <2>7 DEF SystemReset, TypeOK
    <3>2. \A k \in Node : table'[k] = EmptyTable \/ table'[k] = table[k]
      BY <2>7 DEF SystemReset, TypeOK
    <3>3. OnlyTruthsCached'
      BY <3>1, <3>2 DEF Truthful, OnlyTruthsCached, Entries, EmptyTable
    <3> QED
      BY <3>1, <3>3 DEF Truthful, Honest, Held
  <2>8. ASSUME NEW n \in Node, NEW a \in Addr, Rejoin(n, a) PROVE Truthful'
    <3>1. UNCHANGED <<name, table, air, rx>> /\ held \subseteq held'
      BY <2>8 DEF Rejoin
    <3>2. \A k \in Node : Held(name[k], addr[k])'
      BY <2>8 DEF Rejoin, TypeOK, Truthful, Held
    <3>3. OnlyTruthsCached'
      BY <3>1 DEF Truthful, OnlyTruthsCached, Entries
    <3> QED
      BY <3>1, <3>2, <3>3 DEF Truthful, Honest, Held
  <2>9. CASE UNCHANGED vars
    BY <2>9 DEF vars, deviceVars, Truthful, Held, Honest, OnlyTruthsCached, Entries
  <2> QED
    BY <2>1, <2>2, <2>3, <2>4, <2>5, <2>6, <2>7, <2>8, <2>9 DEF Next
<1>3. Truthful => OnlyTruthsCached
  BY DEF Truthful
<1> QED
  BY <1>1, <1>2, <1>3, TypeCorrect, PTL DEF Spec

-----------------------------------------------------------------------------
(* A light obeys its own name *)

\* The number of resets so far is a number, so that a reset changes it.
ResetsCounted == "resets" \in DOMAIN used /\ used.resets \in Nat

\* The pin of a light moves in two places: a reset switches it off, and a
\* Toggle that bears the stored name and begins with the name of the role
\* switches it over.
THEOREM LightsObeyOwnName == Spec => LightObeysOwnName
<1> DEFINE Obeyed == \A n \in Node : light'[n] # light[n] /\ used'.resets = used.resets
                       => <<bootName[n], name[n]>> \in Prefix
<1>1. Init => ResetsCounted
  BY DEF Init, ResetsCounted
<1>2. TypeOK /\ ResetsCounted /\ [Next]_vars => ResetsCounted' /\ [Obeyed]_vars
  <2> SUFFICES ASSUME TypeOK, ResetsCounted, [Next]_vars
               PROVE  ResetsCounted' /\ [Obeyed]_vars
    OBVIOUS
  <2>s. ASSUME NEW n, NEW text, NEW dest, NEW ok, Send(n, text, dest, ok)
        PROVE  ResetsCounted' /\ Obeyed
    BY <2>s DEF Send, ResetsCounted
  <2>h. ASSUME NEW n, NEW m, NEW s, NEW out, NEW refused, NEW faults,
               Handled(n, m, s, out, refused, faults)
        PROVE  ResetsCounted'
    BY <2>h DEF Handled, ResetsCounted
  <2>1. ASSUME NEW n \in Node, NEW verb \in Verb, NEW target \in Name, NEW ok \in BOOLEAN,
               SmartHome_SendCmd(n, verb, target, ok)
        PROVE  ResetsCounted' /\ Obeyed
    BY <2>1, <2>s DEF SmartHome_SendCmd
  <2>2. ASSUME NEW n \in Node, NEW dest \in Addr \cup {Broadcast}, NEW ok \in BOOLEAN,
               SendReportNames(n, dest, ok)
        PROVE  ResetsCounted' /\ Obeyed
    BY <2>2, <2>s DEF SendReportNames
  <2>3. ASSUME NEW f \in air, NEW to \in SUBSET Node, NEW ok \in BOOLEAN, AirDone(f, to, ok)
        PROVE  ResetsCounted' /\ Obeyed
    BY <2>3 DEF AirDone, ResetsCounted
  <2>4. ASSUME NEW n \in Node, NEW t \in failures[n], DataConfirm(n, t)
        PROVE  ResetsCounted' /\ Obeyed
    BY <2>4 DEF DataConfirm, ResetsCounted
  <2>5. ASSUME NEW n \in Node, NEW m \in rx[n], MessageMSGCB(n, m)
        PROVE  ResetsCounted' /\ Obeyed
    <3>1. ASSUME NEW ok \in BOOLEAN, ProcessReportNames(n, m, ok)
          PROVE  ResetsCounted' /\ Obeyed
      BY <2>h, <3>1 DEF ProcessReportNames, Reply
    <3>2. CASE ProcessNameAddrMapResp(n, m) \/ ProcessLightStatusResp(n, m)
      BY <2>h, <3>2 DEF ProcessNameAddrMapResp, ProcessLightStatusResp
    <3>3. ASSUME NEW ok \in BOOLEAN, NotForMe(n, m, ok)
          PROVE  ResetsCounted' /\ Obeyed
      BY <2>h, <3>3 DEF NotForMe, Reply
    <3>4. ASSUME NEW ok1 \in BOOLEAN, NEW ok2 \in BOOLEAN, ForMe(n, m, ok1, ok2)
          PROVE  ResetsCounted' /\ Obeyed
      <4>1. ResetsCounted'
        BY <2>h, <3>4 DEF ForMe
      <4>2. Matches(n, m)
        BY <3>4 DEF ForMe
      <4>3. \A k \in Node : light'[k] # light[k] => k = n /\ Obeys(n, m)
        BY <3>4 DEF ForMe, TypeOK
      <4> QED
        BY <4>1, <4>2, <4>3 DEF Matches, Obeys
    <3> QED
      BY <2>5, <3>1, <3>2, <3>3, <3>4 DEF MessageMSGCB
  <2>6. ASSUME NEW n \in Node, NEW new \in Name, WriteName(n, new)
        PROVE  ResetsCounted' /\ Obeyed
    BY <2>6 DEF WriteName, ResetsCounted
  <2>7. ASSUME NEW n \in Node, SystemReset(n) PROVE ResetsCounted' /\ Obeyed
    <3>1. used' = [used EXCEPT !.resets = @ + 1]
      BY <2>7 DEF SystemReset
    <3> QED
      BY <3>1 DEF ResetsCounted
  <2>8. ASSUME NEW n \in Node, NEW a \in Addr, Rejoin(n, a) PROVE ResetsCounted' /\ Obeyed
    BY <2>8 DEF Rejoin, ResetsCounted
  <2>9. CASE UNCHANGED vars
    BY <2>9 DEF vars, ResetsCounted
  <2> QED
    BY <2>1, <2>2, <2>3, <2>4, <2>5, <2>6, <2>7, <2>8, <2>9 DEF Next
<1> QED
  BY <1>1, <1>2, TypeCorrect, PTL DEF Spec, LightObeysOwnName

================================================================================
