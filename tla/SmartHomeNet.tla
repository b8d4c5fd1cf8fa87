---------------------------- MODULE SmartHomeNet ----------------------------
(***************************************************************************)
(* The devices of a house talking to each other (SmartHomeApp.c, Utils.c). *)
(* Every device runs the same application: it sends commands by name, from *)
(* the UART or a key, to the address its cache knows for that name or to   *)
(* everybody; it obeys commands for its own name; it answers a broadcast   *)
(* command that is for it, and a unicast command that is not, with its     *)
(* name and address, which the sender puts in its cache.                   *)
(*                                                                         *)
(* A frame is in the air until the network is done with it, which puts a   *)
(* message in the queue of those it reached and a confirmation in the      *)
(* queue of its sender (left out when it reports success, which the        *)
(* application only prints).  Frames overtake each other, so the order     *)
(* inside a queue tells nothing more and the queues are sets.              *)
(***************************************************************************)
EXTENDS SmartHomeSender, FiniteSets

CONSTANTS
  Node,         \* the devices
  LightName,    \* names whose boot-time role is a light
  Prefix,       \* pairs <<p, n>> of names: n begins with p
  CachedName,   \* names short enough for ProcessNameAddrMapResp to accept
  InitName,     \* InitName[n]: the name stored in the NV memory of n
  Fitting,      \* Fitting[n]: the names no longer than that NV item of n
  InitAddr,     \* InitAddr[n]: the short address of n
  Command,      \* what users send, from {"Toggle", "LightStatus", "ReportNames"}
  Commander,    \* the devices on which users send commands
  Patient,      \* users send only when nothing is under way
  SingleHop,    \* a frame nobody took is never confirmed as delivered
  MaxCommands, MaxFaults, MaxRenames, MaxResets, MaxRejoins  \* bounds

ASSUME NetAssumption ==
  /\ LightName \subseteq Name /\ CachedName \subseteq Name
  /\ Prefix \subseteq Name \X Name /\ \A n \in Name : <<n, n>> \in Prefix
  /\ InitName \in [Node -> Name]
  /\ \A n \in Node : InitName[n] \in Fitting[n]
  /\ InitAddr \in [Node -> Addr]
  /\ \A m, n \in Node : InitAddr[m] = InitAddr[n] => m = n
  /\ Commander \subseteq Node
  /\ Command \subseteq {"Toggle", "LightStatus", "ReportNames"}
  /\ Patient \in BOOLEAN /\ SingleHop \in BOOLEAN
  /\ {MaxFaults, MaxRenames, MaxResets, MaxRejoins} \subseteq Nat
  /\ MaxCommands \in Nat   \* 0: no bound

VARIABLES
  name,      \* Util_ReadName
  bootName,  \* the name SmartHomeApp_Init chose the Processor_ functions by
  addr,      \* NLME_GetShortAddr
  table,     \* name_addr_cache
  idx,       \* name_addr_cache_idx
  snd,       \* SmartHomeApp_TransID, _LastSendAddr, _LastSendTransID
  light,     \* the pin of light 0
  air,       \* frames handed to the network
  rx,        \* incoming messages queued for the application
  failures,  \* failed confirmations queued for the application, by number
  held,      \* history: which device was at which address under which name
  used       \* how much of each bound is used up

deviceVars == <<name, bootName, addr>>
vars == <<name, bootName, addr, table, idx, snd, light, air, rx, failures, held, used>>

\* What a message says.  A NameAddrMap carries the address of its sender
\* twice, in its text and in its header: addr stands for both.  So does a
\* ReportNamesResp.  A ReportNames carries no name.
Kind == {"ReportNames", "ReportNamesResp", "NameAddrMap", "LightStatusResp"} \cup Command
NoName == "none"
Text == [kind : Kind, name : Name \cup {NoName}]

Frame == [from : Node, addr : Addr, to : Addr \cup {Broadcast}, transID : TransID, text : Text]
Message == [addr : Addr, transID : TransID, wasBroadcast : BOOLEAN, text : Text]

\* The named commands, as opposed to "ReportNames".
Verb == Command \ {"ReportNames"}

Init ==
  /\ name = InitName
  /\ bootName = InitName
  /\ addr = InitAddr
  /\ table = [n \in Node |-> EmptyTable]
  /\ idx = [n \in Node |-> 0]
  /\ snd = [n \in Node |-> ResetSender]
  /\ light = [n \in Node |-> FALSE]
  /\ air = {}
  /\ rx = [n \in Node |-> {}]
  /\ failures = [n \in Node |-> {}]
  /\ held = {[name |-> InitName[n], addr |-> InitAddr[n]] : n \in Node}
  /\ used = [commands |-> 0, faults |-> 0, renames |-> 0, resets |-> 0, rejoins |-> 0]

-----------------------------------------------------------------------------
(* Sending *)

\* What AF_DataRequest hands to the network and to the queue of the sender n,
\* whose counter is at transID: a refused request to the device itself is
\* confirmed as failed, any other refused request leaves no trace.
Frames(n, transID, to, text, ok) ==
  IF ok THEN {[from |-> n, addr |-> addr[n], to |-> to, transID |-> transID, text |-> text]}
  ELSE {}

Refusals(n, transID, to, ok) ==
  IF ~ok /\ to = addr[n] THEN {transID} ELSE {}

\* The bound on faults covers refused requests and lost frames.
FaultsAllowed(k) == used.faults + k <= MaxFaults

Count(ok) == IF ok THEN 0 ELSE 1

Quiet == air = {} /\ \A n \in Node : rx[n] = {} /\ failures[n] = {}

\* SmartHome_SendCmdWithAddr, called by SmartHome_SendCmd.
Send(n, text, dest, ok) ==
  /\ n \in Commander
  /\ Patient => Quiet
  /\ MaxCommands > 0 => used.commands < MaxCommands
  /\ FaultsAllowed(Count(ok))
  /\ air' = air \cup Frames(n, snd[n].transID, dest, text, ok)
  /\ failures' = [failures EXCEPT ![n] = @ \cup Refusals(n, snd[n].transID, dest, ok)]
  /\ snd' = [snd EXCEPT ![n] = Commanded(@, dest, ok)]
  /\ used' = [used EXCEPT !.commands = IF MaxCommands > 0 THEN @ + 1 ELSE @,
                          !.faults = @ + Count(ok)]
  /\ UNCHANGED <<deviceVars, table, idx, light, rx, held>>

\* SmartHome_SendCmd with a command for the device called target.
SmartHome_SendCmd(n, verb, target, ok) ==
  Send(n, [kind |-> verb, name |-> target], GetAddr(table[n], target), ok)

\* SmartHome_SendCmd("ReportNames"): Util_GetNameFromCmd looks for a blank
\* beyond the end of the text, in what is left of an earlier command, and
\* takes what follows for a name: any name, known or not.
SendReportNames(n, dest, ok) ==
  /\ "ReportNames" \in Command
  /\ dest \in {Broadcast} \cup {e.addr : e \in Entries(table[n])}
  /\ Send(n, [kind |-> "ReportNames", name |-> NoName], dest, ok)

-----------------------------------------------------------------------------
(* The network (external) *)

\* The devices other than the sender, or the one at the frame's address.
Reachable(f) ==
  IF f.to = Broadcast THEN Node \ {f.from} ELSE {n \in Node : addr[n] = f.to}

Received(f) == [addr |-> f.addr, transID |-> f.transID,
                wasBroadcast |-> f.to = Broadcast, text |-> f.text]

\* The network is done with frame f: it reached the devices in to, and its
\* sender is told ok.  Each device that should have got it and did not is a
\* fault, and so is a failure reported for a frame that was received.
\* With one hop the report tells whether a unicast was received; over more,
\* only whether the next device took it.
AirDone(f, to, ok) ==
  LET missed == Cardinality(Reachable(f) \ to)
      wrong == IF ~ok /\ to # {} THEN 1 ELSE 0
  IN /\ to \subseteq Reachable(f)
     /\ ok /\ SingleHop /\ f.to # Broadcast => to # {}
     /\ FaultsAllowed(missed + wrong)
     /\ used' = [used EXCEPT !.faults = @ + missed + wrong]
     /\ air' = air \ {f}
     /\ rx' = [n \in Node |-> IF n \in to THEN rx[n] \cup {Received(f)} ELSE rx[n]]
     /\ failures' = IF ok THEN failures ELSE [failures EXCEPT ![f.from] = @ \cup {f.transID}]
     /\ UNCHANGED <<deviceVars, table, idx, snd, light, held>>

\* A device joins again through another parent and gets another address.
Rejoin(n, a) ==
  /\ used.rejoins < MaxRejoins
  /\ \A m \in Node : addr[m] # a
  /\ addr' = [addr EXCEPT ![n] = a]
  /\ held' = held \cup {[name |-> name[n], addr |-> a]}
  /\ used' = [used EXCEPT !.rejoins = @ + 1]
  /\ UNCHANGED <<name, bootName, table, idx, snd, light, air, rx, failures>>

-----------------------------------------------------------------------------
(* The application task *)

\* SmartHomeApp_ProcessEvent, case AF_DATA_CONFIRM_CMD with a failed status.
DataConfirm(n, transID) ==
  /\ failures' = [failures EXCEPT ![n] = @ \ {transID}]
  /\ table' = [table EXCEPT ![n] = AfterFailure(snd[n], @, transID)]
  /\ UNCHANGED <<deviceVars, idx, snd, light, air, rx, held, used>>

\* Device n takes message m from its queue, is done with it, and has sent the
\* frames out, its counters being left in s.
Handled(n, m, s, out, refused, faults) ==
  /\ FaultsAllowed(faults)
  /\ used' = [used EXCEPT !.faults = @ + faults]
  /\ rx' = [rx EXCEPT ![n] = @ \ {m}]
  /\ air' = air \cup out
  /\ failures' = [failures EXCEPT ![n] = @ \cup refused]
  /\ snd' = [snd EXCEPT ![n] = s]
  /\ UNCHANGED <<deviceVars, held>>

\* A reply to the sender of m that uses up a transaction number and is not
\* remembered: SmartHomeApp_ProcessReportNames, SmartHomeApp_SendNameAddrResp.
Reply(n, m, text, ok) ==
  Handled(n, m, Requested(snd[n], ok),
          Frames(n, snd[n].transID, m.addr, text, ok),
          Refusals(n, snd[n].transID, m.addr, ok), Count(ok))

\* Mutant: the announcement bears the name of the role, not the stored one.
RoleAnnouncement(n) == [kind |-> "NameAddrMap", name |-> bootName[n]]

\* The text of SmartHomeApp_SendNameAddrResp.
Announcement(n) == [kind |-> "NameAddrMap", name |-> name[n]]

\* "ReportNames", whatever the name of this device.
ProcessReportNames(n, m, ok) ==
  /\ m.text.kind = "ReportNames"
  /\ Reply(n, m, [kind |-> "ReportNamesResp", name |-> name[n]], ok)
  /\ UNCHANGED <<table, idx, light>>

\* SmartHomeApp_ProcessNameAddrMapResp: a name that is too long is ignored.
ProcessNameAddrMapResp(n, m) ==
  /\ m.text.kind = "NameAddrMap"
  /\ Handled(n, m, snd[n], {}, {}, 0)
  /\ IF m.text.name \in CachedName
     THEN /\ table' = [table EXCEPT ![n] = Put(@, idx[n], m.text.name, m.addr)]
          /\ idx' = [idx EXCEPT ![n] = NextIdx(@)]
     ELSE UNCHANGED <<table, idx>>
  /\ UNCHANGED light

\* "LightStatusResp " skips the test of the name, and no role acts on it.
ProcessLightStatusResp(n, m) ==
  /\ m.text.kind = "LightStatusResp"
  /\ Handled(n, m, snd[n], {}, {}, 0)
  /\ UNCHANGED <<table, idx, light>>

\* Mutant: announcements are tested against the name like commands are.
AddressedMaps(m) == m.text.kind \in Verb \cup {"ReportNamesResp", "NameAddrMap"}

\* Everything else names the device it is for.
Addressed(m) == m.text.kind \in Verb \cup {"ReportNamesResp"}

\* Mutant: the name the device booted with is compared.
MatchesRole(n, m) == m.text.name = bootName[n]

\* SmartHomeApp_NameAddrNotMatch, negated: the command bears the stored name.
Matches(n, m) == m.text.name = name[n]

\* SmartHomeApp_MessageMSGCB, the name does not match: a unicast sent to a wrong address is
\* answered with who lives here, a broadcast for another device is ignored.
NotForMe(n, m, ok) ==
  /\ Addressed(m)
  /\ ~Matches(n, m)
  /\ IF m.wasBroadcast
     THEN ok /\ Handled(n, m, snd[n], {}, {}, 0)
     ELSE Reply(n, m, Announcement(n), ok)
  /\ UNCHANGED <<table, idx, light>>

\* The role chosen at boot tests that the name begins with its own.
Obeys(n, m) == bootName[n] \in LightName /\ <<bootName[n], m.text.name>> \in Prefix

\* For me: a broadcast is first answered with who I am (accepted: ok1); then
\* Processor_HandleMsg runs, and LightStatus is answered (accepted: ok2) by
\* SmartHome_SendCmdWithAddr, which remembers the asker as the last address.
ForMe(n, m, ok1, ok2) ==
  LET answers == m.text.kind = "LightStatus" /\ Obeys(n, m)
      s1 == IF m.wasBroadcast THEN Requested(snd[n], ok1) ELSE snd[n]
      s2 == IF answers THEN Commanded(s1, m.addr, ok2) ELSE s1
      status == [kind |-> "LightStatusResp", name |-> bootName[n]]
  IN /\ Addressed(m)
     /\ Matches(n, m)
     /\ ~m.wasBroadcast => ok1
     /\ ~answers => ok2
     /\ Handled(n, m, s2,
          (IF m.wasBroadcast THEN Frames(n, snd[n].transID, m.addr, Announcement(n), ok1) ELSE {})
            \cup (IF answers THEN Frames(n, s1.transID, m.addr, status, ok2) ELSE {}),
          Refusals(n, snd[n].transID, m.addr, ok1) \cup Refusals(n, s1.transID, m.addr, ok2),
          Count(ok1) + Count(ok2))
     /\ light' = IF m.text.kind = "Toggle" /\ Obeys(n, m)
                 THEN [light EXCEPT ![n] = ~@] ELSE light
     /\ UNCHANGED <<table, idx>>

\* SmartHomeApp_MessageMSGCB.
MessageMSGCB(n, m) ==
  \/ \E ok \in BOOLEAN : ProcessReportNames(n, m, ok)
  \/ ProcessNameAddrMapResp(n, m)
  \/ ProcessLightStatusResp(n, m)
  \/ \E ok \in BOOLEAN : NotForMe(n, m, ok)
  \/ \E ok1, ok2 \in BOOLEAN : ForMe(n, m, ok1, ok2)

-----------------------------------------------------------------------------
(* The UART *)

\* "WriteName ": the name changes at once, the role does not.  osal_nv_write
\* refuses a name longer than the NV item, which changes nothing.
WriteName(n, new) ==
  /\ used.renames < MaxRenames
  /\ new \in Fitting[n]
  /\ name' = [name EXCEPT ![n] = new]
  /\ held' = held \cup {[name |-> new, addr |-> addr[n]]}
  /\ used' = [used EXCEPT !.renames = @ + 1]
  /\ UNCHANGED <<bootName, addr, table, idx, snd, light, air, rx, failures>>

\* "SystemReset", or a power failure: everything in RAM is lost, with the
\* queues and the frames not sent yet; the NV memory keeps the name and
\* (NV_RESTORE) the address, and the role follows the name.
SystemReset(n) ==
  /\ used.resets < MaxResets
  /\ bootName' = [bootName EXCEPT ![n] = name[n]]
  /\ table' = [table EXCEPT ![n] = EmptyTable]
  /\ idx' = [idx EXCEPT ![n] = 0]
  /\ snd' = [snd EXCEPT ![n] = ResetSender]
  /\ light' = [light EXCEPT ![n] = FALSE]
  /\ air' = {f \in air : f.from # n}
  /\ rx' = [rx EXCEPT ![n] = {}]
  /\ failures' = [failures EXCEPT ![n] = {}]
  /\ used' = [used EXCEPT !.resets = @ + 1]
  /\ UNCHANGED <<name, addr, held>>

-----------------------------------------------------------------------------

Next ==
  \/ \E n \in Node, verb \in Verb, target \in Name, ok \in BOOLEAN :
       SmartHome_SendCmd(n, verb, target, ok)
  \/ \E n \in Node, dest \in Addr \cup {Broadcast}, ok \in BOOLEAN : SendReportNames(n, dest, ok)
  \/ \E f \in air, to \in SUBSET Node, ok \in BOOLEAN : AirDone(f, to, ok)
  \/ \E n \in Node : \E t \in failures[n] : DataConfirm(n, t)
  \/ \E n \in Node : \E m \in rx[n] : MessageMSGCB(n, m)
  \/ \E n \in Node, new \in Name : WriteName(n, new)
  \/ \E n \in Node : SystemReset(n)
  \/ \E n \in Node, a \in Addr : Rejoin(n, a)

Spec == Init /\ [][Next]_vars

\* The network is done with every frame some day, and the application task
\* runs until its queue is empty (osal_run_system, osal_msg_receive).
Fairness ==
  /\ WF_vars(\E f \in air, to \in SUBSET Node, ok \in BOOLEAN : AirDone(f, to, ok))
  /\ \A n \in Node : /\ WF_vars(\E t \in failures[n] : DataConfirm(n, t))
                     /\ WF_vars(\E m \in rx[n] : MessageMSGCB(n, m))

FairSpec == Spec /\ Fairness

\* And the users switch every light again and again.
Persistence ==
  \A n \in Node : InitName[n] \in LightName =>
    SF_vars(\E c \in Commander, ok \in BOOLEAN :
              SmartHome_SendCmd(c, "Toggle", InitName[n], ok))

PersistentSpec == FairSpec /\ Persistence

-----------------------------------------------------------------------------
(* Properties *)

\* Every variable is of its type.
TypeOK ==
  /\ name \in [Node -> Name]
  /\ bootName \in [Node -> Name]
  /\ addr \in [Node -> Addr]
  /\ table \in [Node -> Table]
  /\ idx \in [Node -> Slot]
  /\ snd \in [Node -> Sender]
  /\ light \in [Node -> BOOLEAN]
  /\ air \subseteq Frame
  /\ \A n \in Node : rx[n] \subseteq Message /\ failures[n] \subseteq TransID

\* A cache may be out of date, but it never holds a pair of a name and an
\* address that were not those of one device at one moment, however renames,
\* rejoins and late announcements interleave.
OnlyTruthsCached ==
  \A n \in Node : \A e \in Entries(table[n]) : [name |-> e.name, addr |-> e.addr] \in held

\* A command moves a light only while the device still bears the name it
\* booted with, or one that begins with it: a renamed light obeys neither its
\* old name nor, before a reset, an unrelated new one.
LightObeysOwnName ==
  [][\A n \in Node : light'[n] # light[n] /\ used'.resets = used.resets
       => <<bootName[n], name[n]>> \in Prefix]_vars

\* No message storm: answers to answers come to an end, so that after the last
\* command of the users every queue is empty for good.
SettlesDown == <>[]Quiet

\* "maybe wrong cache data" (SmartHomeApp.c:793): wrong cache data is put right
\* by the device that got the command, or by the failure of a command that
\* nobody got.  However names and addresses got mixed up before, a user who
\* keeps sending commands to a light moves it again and again.
LightsAnswer ==
  \A n \in Node : InitName[n] \in LightName => []<>light[n] /\ []<>~light[n]

=============================================================================
