---------------------------- MODULE SmartHomeSend ----------------------------
(***************************************************************************)
(* One device sending commands by name (SmartHomeApp.c 294-328, 420-448,   *)
(* 665-744): requests handed to AF_DataRequest, confirmed later and in any *)
(* order by AF_DATA_CONFIRM_CMD, and the cache entry that a failed         *)
(* confirmation drops.  The other devices are the environment: they        *)
(* announce themselves and ask for replies at any time.                    *)
(***************************************************************************)
EXTENDS SmartHomeSender, FiniteSets

CONSTANTS
  MyAddr,       \* this device's own short address
  MaxOpen       \* bound: requests without a confirmation at one time

ASSUME MyAddrAssumption == MyAddr \in Addr

VARIABLES
  snd,       \* TransID, LastSendAddr and LastSendTransID
  table,     \* name_addr_cache
  idx,       \* name_addr_cache_idx
  requests,  \* requests whose confirmation this device has not handled yet
  sinceLast  \* history: requests accepted since the last unicast command, up
             \* to TransIDMod; TransIDMod also if it was refused or never sent

vars == <<snd, table, idx, requests, sinceLast>>

\* transID is all the confirmation shows to the application.  dest and age,
\* the number of requests accepted since, up to TransIDMod, are history.
\* fate is "open" while the network decides; a request to the device itself
\* is confirmed at once, "refused" if AF_DataRequest did not accept it.
Request == [transID : TransID, dest : Addr \cup {Broadcast},
            age : 0 .. TransIDMod, fate : {"open", "ok", "refused"}]

Init ==
  /\ snd = ResetSender
  /\ table = EmptyTable
  /\ idx = 0
  /\ requests = {}
  /\ sinceLast = TransIDMod

OneMore(count) == IF count < TransIDMod THEN count + 1 ELSE count

Older(r) == [r EXCEPT !.age = OneMore(@)]

\* AF_DataRequest for dest, called with the sender state before: an accepted
\* request will be confirmed by the network; one to the device's own address
\* is confirmed in the call, accepted or not.
\* Bound: no second refused request to itself that looks like one still there.
AF_DataRequest(before, dest, ok) ==
  LET aged == IF ok THEN {Older(r) : r \in requests} ELSE requests
      new == [transID |-> before.transID, dest |-> dest, age |-> 0,
              fate |-> IF dest # MyAddr THEN "open" ELSE IF ok THEN "ok" ELSE "refused"]
  IN IF ok \/ dest = MyAddr
     THEN new \notin aged /\ requests' = aged \cup {new}
     ELSE requests' = aged

AfterCommand(dest, ok) ==
  CASE dest # Broadcast -> IF ok THEN 0 ELSE TransIDMod
    [] dest = Broadcast -> IF ok THEN OneMore(sinceLast) ELSE sinceLast

Room == Cardinality(requests) < MaxOpen

\* SmartHome_SendCmd: the name is looked up; an unknown one is broadcast.
SmartHome_SendCmd(n, ok) ==
  /\ Room
  /\ LET dest == GetAddr(table, n)
     IN /\ AF_DataRequest(snd, dest, ok)
        /\ snd' = Commanded(snd, dest, ok)
        /\ sinceLast' = AfterCommand(dest, ok)
  /\ UNCHANGED <<table, idx>>

\* SmartHome_SendCmdWithAddr called by a light that answers LightStatus.
SendLightStatusResp(a, ok) ==
  /\ Room
  /\ AF_DataRequest(snd, a, ok)
  /\ snd' = Commanded(snd, a, ok)
  /\ sinceLast' = AfterCommand(a, ok)
  /\ UNCHANGED <<table, idx>>

\* SmartHomeApp_ProcessReportNames and SmartHomeApp_SendNameAddrResp: a reply
\* that uses up a transaction number and is not remembered.
SendReply(a, ok) ==
  /\ Room
  /\ AF_DataRequest(snd, a, ok)
  /\ snd' = Requested(snd, ok)
  /\ sinceLast' = IF ok THEN OneMore(sinceLast) ELSE sinceLast
  /\ UNCHANGED <<table, idx>>

\* SmartHomeApp_ProcessNameAddrMapResp.
ProcessNameAddrMapResp(n, a) ==
  /\ table' = Put(table, idx, n, a)
  /\ idx' = NextIdx(idx)
  /\ UNCHANGED <<snd, requests, sinceLast>>

\* SmartHomeApp_ProcessEvent, case AF_DATA_CONFIRM_CMD: the delivery failed.
ConfirmFailed(r) ==
  /\ r.fate \in {"open", "refused"}
  /\ requests' = requests \ {r}
  /\ table' = AfterFailure(snd, table, r.transID)
  /\ UNCHANGED <<snd, idx, sinceLast>>

\* The delivery succeeded, or afDataConfirm found no memory for the message
\* and the application never hears of it: nothing but the request goes away.
ConfirmOkOrLost(r) ==
  /\ requests' = requests \ {r}
  /\ UNCHANGED <<snd, table, idx, sinceLast>>

Next ==
  \/ \E n \in Name, ok \in BOOLEAN : SmartHome_SendCmd(n, ok)
  \/ \E a \in Addr, ok \in BOOLEAN : SendLightStatusResp(a, ok)
  \/ \E a \in Addr, ok \in BOOLEAN : SendReply(a, ok)
  \/ \E n \in Name, a \in Addr : ProcessNameAddrMapResp(n, a)
  \/ \E r \in requests : ConfirmFailed(r) \/ ConfirmOkOrLost(r)

Spec == Init /\ [][Next]_vars

-----------------------------------------------------------------------------
(* Properties *)

\* The sender's numbers stay bytes, requests and slots are well formed.
TypeOK ==
  /\ snd \in Sender
  /\ table \in Table
  /\ idx \in Slot
  /\ requests \subseteq Request
  /\ sinceLast \in 0 .. TransIDMod

\* While the byte has not wrapped, LastSendTransID identifies the last unicast
\* command if AF_DataRequest accepted it: a confirmation with this number is
\* one for LastSendAddr, so a failure forgets the address that failed.
MatchIsOwn ==
  sinceLast < TransIDMod =>
    \A r \in requests :
      r.fate # "refused" /\ r.age < TransIDMod /\ r.transID = snd.lastTransID
        => r.dest = snd.lastAddr

\* "byte sentTransID; // This should match the value sent" (SmartHomeApp.c:406):
\* the entry that a failed confirmation drops from the cache is that of the
\* address the failed message was sent to, whatever happened before.
DropsOnlyFailedAddress ==
  [][\A r \in requests \ requests' :
       \A e \in Entries(table) \ Entries(table') : e.addr = r.dest]_vars

=============================================================================
