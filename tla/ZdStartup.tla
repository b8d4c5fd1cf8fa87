----------------------------- MODULE ZdStartup -----------------------------
(***************************************************************************)
(* How a device gets into a network, back into it, and out of it (ZDApp.c  *)
(* and ZDO_StartDevice), and how the application is told.  A device is a   *)
(* task of the loop: its messages come before its events, and its events   *)
(* have an order.  Requests to the network layer are answered later, by    *)
(* callbacks that leave a message or an event, and the status in one       *)
(* variable for all of them, nwkStatus.                                    *)
(*                                                                         *)
(* Security is off, as the program is built (SECURE=0).  The network layer *)
(* comes as a library: it accepts a request or refuses it, and answers     *)
(* what it has accepted.  Memory for messages and timers is there, except  *)
(* where the code looks whether it is.                                     *)
(***************************************************************************)
EXTENDS Naturals, Sequences

CONSTANTS
  Devices,             \* the builds: [type : {"coordinator", "router", "device"},
                       \*              restore : BOOLEAN], the latter for NV_RESTORE
  MAX_RESUME_RETRY,
  NUM_DISC_ATTEMPTS,
  DiscRetries,         \* scans after which a sleeping device looks at all channels,
                       \* 4 in the code
  RejoinScans,         \* and rejoining devices, 5 in the code
  Thresholds,          \* energy thresholds to form a network with
  MaxFaults            \* bound: what the network, the power or the user does to a device

ASSUME NumbersAssumption ==
  {MAX_RESUME_RETRY, NUM_DISC_ATTEMPTS, DiscRetries, RejoinScans, Thresholds, MaxFaults} \subseteq Nat

VARIABLES
  device,         \* the build, which does not change
  logicalType,    \* ZDO_Config_Node_Descriptor.LogicalType
  devState, devStartMode,
  nwkStatus,      \* it is ZSuccess
  retryCnt,
  scan,           \* zdoDiscCounter, discRetries, scanCnt, the channels and the threshold
  nib,            \* _NIB: the device has a short address, and a PAN ID
  events, timers, msgs,     \* of the ZDApp task
  requests,       \* requests to the network layer that are not answered
  nv,             \* the network state, the startup option and the leave control
  app,            \* the ZDO_STATE_CHANGE message to the application, and what it knows
  network,        \* the network around: the channel it is on, and whether all goes well
  faults,         \* history: faults so far
  gone            \* history: the device has been reset for good, and has not joined since

zdVars == <<device, logicalType, devState, devStartMode, nwkStatus, retryCnt, scan, nib, events,
            timers, msgs, requests, nv, app, network, faults, gone>>

Type == {"coordinator", "router", "device"}

ASSUME DevicesAssumption == Devices \subseteq [type : Type, restore : BOOLEAN]

DevState == {"HOLD", "INIT", "NWK_DISC", "NWK_JOINING", "NWK_REJOIN", "END_DEVICE", "ROUTER",
             "COORD_STARTING", "ZB_COORD", "NWK_ORPHAN"}
StartMode == {"JOIN", "RESUME", "HARD", "REJOIN"}
Event == {"NETWORK_INIT", "NETWORK_START", "ROUTER_START", "STATE_CHANGE", "NWK_UPDATE_NV",
          "DEVICE_RESET"}
Message == {"NWK_DISC_CNF", "NWK_JOIN_IND", "NWK_JOIN_REQ"}
Request == {"discovery", "formation", "startRouter", "join", "rejoin", "orphan"}
Leave == {"init", "set", "setRejoin"}

Joined == {"END_DEVICE", "ROUTER", "ZB_COORD"}

NoScan == [counter |-> 1, retries |-> 0, cnt |-> 0, all |-> FALSE, threshold |-> 0]

\* RAM after a reset, and what ZDOInitDevice makes of it.
Restores(flash) == device.restore /\ ~flash.new /\ flash.network

ColdStart(flash) ==
  LET restored == Restores(flash)
      hold == flash.leave = "set"
  IN /\ logicalType' = device.type
     /\ devStartMode' = CASE restored -> "RESUME"
                          [] ~restored /\ device.type = "coordinator" -> "HARD"
                          [] OTHER -> "JOIN"
     /\ nv' = [network |-> flash.network /\ (device.restore => ~flash.new),
               new |-> flash.new \/ hold,
               leave |-> "init"]
     /\ devState' = IF hold THEN "HOLD" ELSE "INIT"
     /\ events' = CASE hold -> {"STATE_CHANGE"}
                    [] ~hold /\ restored -> {"NETWORK_INIT"}
                    [] OTHER -> {}
     /\ timers' = IF hold \/ restored THEN {} ELSE {"NETWORK_INIT"}
     /\ nib' = [addr |-> restored, pan |-> restored]
     /\ nwkStatus' = TRUE /\ retryCnt' = 0 /\ scan' = NoScan
     /\ msgs' = <<>> /\ requests' = {}
     /\ app' = [queued |-> "none", state |-> "INIT"]

ZdInit ==
  /\ device \in Devices
  /\ logicalType = device.type
  /\ devState = "INIT"
  /\ devStartMode = IF device.type = "coordinator" THEN "HARD" ELSE "JOIN"
  /\ nwkStatus = TRUE /\ retryCnt = 0 /\ scan = NoScan
  /\ nib = [addr |-> FALSE, pan |-> FALSE]
  /\ events = {} /\ timers = {"NETWORK_INIT"} /\ msgs = <<>> /\ requests = {}
  /\ nv = [network |-> FALSE, new |-> FALSE, leave |-> "init"]
  /\ app = [queued |-> "none", state |-> "INIT"]
  /\ network = [default |-> TRUE, well |-> FALSE]
  /\ faults = 0
  /\ gone = FALSE

-----------------------------------------------------------------------------
(* Small parts *)

\* A request is accepted or refused; if all goes well, accepted.
Accepts == IF network.well THEN {TRUE} ELSE BOOLEAN

Requested(r, accepted) == IF accepted THEN requests \cup {r} ELSE requests

\* ZDApp_NVUpdate, on top of the timers t.
NVUpdate(t) == IF device.restore THEN t \cup {"NWK_UPDATE_NV"} ELSE t

\* A counter that the code compares with a limit.
UpTo(n, limit) == IF n < limit THEN n + 1 ELSE n

\* The receiver is off while the device is idle.
Sleeps == device.type = "device"

Order == <<"NETWORK_INIT", "NETWORK_START", "ROUTER_START", "STATE_CHANGE", "NWK_UPDATE_NV",
           "DEVICE_RESET">>

\* ZDApp_event_loop handles event e: messages first, then the events in order.
Handles(e) == msgs = <<>> /\ e \in events /\ e = Head(SelectSeq(Order, LAMBDA x : x \in events))

-----------------------------------------------------------------------------
(* ZDO_NETWORK_INIT *)

\* Mutant: only the channel of the device is looked at.
DiscoveredOnDefault(accepted) == scan

\* The scan with which ZDO_StartDevice looks for a network.  The channel list is
\* widened after the request, for the scans that follow: all says whether the
\* list was wide when this one was asked for.
Discovered(accepted) ==
  LET retries == IF Sleeps /\ accepted THEN UpTo(scan.retries, DiscRetries) ELSE scan.retries
      cnt == IF devStartMode = "REJOIN" THEN UpTo(scan.cnt, RejoinScans + 1) ELSE scan.cnt
  IN [scan EXCEPT !.retries = retries, !.cnt = cnt,
                  !.all = (scan.retries = DiscRetries \/ scan.cnt = RejoinScans + 1)]

\* The request that ZDO_StartDevice makes, and the state it is made in.
StartRequest ==
  CASE logicalType = "coordinator" /\ devStartMode = "HARD" -> "formation"
    [] logicalType = "coordinator" /\ devStartMode = "RESUME" -> "startRouter"
    [] logicalType # "coordinator" /\ devStartMode = "RESUME" -> "orphan"
    [] OTHER -> "discovery"

StartState ==
  [formation |-> "COORD_STARTING", startRouter |-> "COORD_STARTING", orphan |-> "NWK_ORPHAN",
   discovery |-> "NWK_DISC"]

\* The orphan scan of a router is only pretended.
StartAccepts == IF StartRequest = "orphan" /\ logicalType = "router" THEN {TRUE} ELSE Accepts

\* ZDO_NETWORK_INIT after NWK_RETRY_DELAY, if the request was refused.
Retries(accepted) == IF accepted THEN timers ELSE timers \cup {"NETWORK_INIT"}

\* ZDO_StartDevice.
NetworkInit ==
  /\ Handles("NETWORK_INIT")
  /\ \E accepted \in StartAccepts :
       /\ requests' = Requested(StartRequest, accepted)
       /\ scan' = IF StartRequest = "discovery" THEN Discovered(accepted) ELSE scan
       /\ timers' = Retries(accepted)
  /\ devState' = StartState[StartRequest]
  /\ events' = (events \ {"NETWORK_INIT"}) \cup {"STATE_CHANGE"}
  /\ UNCHANGED <<device, logicalType, devStartMode, nwkStatus, retryCnt, nib, msgs, nv, app,
                 network, faults, gone>>

-----------------------------------------------------------------------------
(* Messages *)

\* A network with room for the device answers, on a channel that is looked at.
Answers == network.default \/ scan.all
Found == IF network.well THEN {Answers} ELSE {FALSE, Answers}

\* Mutant: the message is dropped after a scan that found nothing.
ScansAgainNot(t) == t

\* The device waits a while and scans again.
ScansAgain(t) == t \cup {"NETWORK_INIT"}

\* A network is chosen once there were enough scans: the device joins, or, of
\* another profile than its network, joins as an end device
\* (ZDApp_NodeProfileSync).  A device that has been told to resume meanwhile
\* does neither.
ChooseNetwork ==
  \/ /\ devStartMode = "JOIN"
     /\ devState' = "NWK_JOINING"
     /\ logicalType' \in {logicalType, "device"}
     /\ \E accepted \in Accepts :
          requests' = Requested("join", accepted) /\ timers' = Retries(accepted)
     /\ UNCHANGED <<nib>>
  \/ /\ devStartMode = "REJOIN"
     /\ devState' = "NWK_REJOIN"
     /\ nib' = [addr |-> TRUE, pan |-> TRUE]
     /\ \E accepted \in Accepts :
          requests' = Requested("rejoin", accepted) /\ timers' = Retries(accepted)
     /\ UNCHANGED <<logicalType>>
  \/ /\ devStartMode \notin {"JOIN", "REJOIN"}
     /\ UNCHANGED <<devState, logicalType, nib, requests, timers>>

\* ZDO_NWK_DISC_CNF.  A device that is not discovering any more ignores it.
NwkDiscCnf ==
  /\ msgs # <<>> /\ Head(msgs) = "NWK_DISC_CNF"
  /\ msgs' = Tail(msgs)
  /\ \/ /\ devState # "NWK_DISC"
        /\ UNCHANGED <<devState, logicalType, scan, nib, timers, requests>>
     \/ /\ devState = "NWK_DISC" /\ TRUE \in Found /\ scan.counter > NUM_DISC_ATTEMPTS
        /\ ChooseNetwork
        /\ UNCHANGED <<scan>>
     \/ /\ devState = "NWK_DISC" /\ (FALSE \in Found \/ scan.counter <= NUM_DISC_ATTEMPTS)
        /\ scan' = [scan EXCEPT !.counter = UpTo(@, NUM_DISC_ATTEMPTS + 1)]
        /\ timers' = ScansAgain(timers)
        /\ UNCHANGED <<devState, logicalType, nib, requests>>
  /\ UNCHANGED <<device, devStartMode, nwkStatus, retryCnt, events, nv, app, network, faults, gone>>

\* The device is in: it tells the application and, unless it is an end device,
\* starts to be a router.
JoinSucceeded ==
  /\ devState' = "END_DEVICE"
  /\ events' = events \cup {"STATE_CHANGE"}
  /\ IF logicalType = "device"
     THEN UNCHANGED requests
     ELSE \E accepted \in Accepts : requests' = Requested("startRouter", accepted)
  /\ UNCHANGED <<devStartMode, retryCnt, scan, nib, timers>>

\* Mutant: it goes on to look for its parent.
GivesUpNot == devStartMode

\* How a device that does not get back as what it was goes on.
GivesUpResuming == IF nib.pan THEN "REJOIN" ELSE "JOIN"

\* A join, or the pretended orphan scan of a router, has failed.
JoinFailed ==
  LET resuming == devStartMode = "RESUME" IN
  /\ retryCnt' = IF resuming THEN retryCnt + 1 ELSE retryCnt
  /\ devStartMode' = IF resuming /\ retryCnt' >= MAX_RESUME_RETRY THEN GivesUpResuming ELSE devStartMode
  /\ nib' = [nib EXCEPT !.addr = FALSE]
  /\ scan' = [scan EXCEPT !.counter = 1]
  /\ timers' = timers \cup {"NETWORK_INIT"}
  /\ UNCHANGED <<devState, events, requests>>

\* An orphan scan or a rejoin has failed.
RejoinFailed ==
  LET resuming == devStartMode = "RESUME" IN
  /\ retryCnt' = IF resuming THEN retryCnt + 1 ELSE retryCnt
  /\ devStartMode' =
       CASE resuming /\ retryCnt' <= MAX_RESUME_RETRY -> GivesUpResuming
         [] resuming /\ retryCnt' > MAX_RESUME_RETRY -> "JOIN"
         [] OTHER -> devStartMode
  /\ timers' = timers \cup {"NETWORK_INIT"}
  /\ UNCHANGED <<devState, scan, nib, events, requests>>

JoinsAnew == devState = "NWK_JOINING" \/ (devState = "NWK_ORPHAN" /\ logicalType = "router")
ComesBack == ~JoinsAnew /\ devState \in {"NWK_ORPHAN", "NWK_REJOIN"}

\* ZDO_NWK_JOIN_IND: ZDApp_ProcessNetworkJoin.  A device that does not wait
\* for it takes it for news of its address.
NwkJoinInd ==
  /\ msgs # <<>> /\ Head(msgs) = "NWK_JOIN_IND"
  /\ msgs' = Tail(msgs)
  /\ \/ (JoinsAnew \/ ComesBack) /\ nwkStatus /\ JoinSucceeded
     \/ JoinsAnew /\ ~nwkStatus /\ JoinFailed
     \/ ComesBack /\ ~nwkStatus /\ RejoinFailed
     \/ /\ ~JoinsAnew /\ ~ComesBack
        /\ events' = events \cup {"STATE_CHANGE"}
        /\ UNCHANGED <<devState, devStartMode, retryCnt, scan, nib, timers, requests>>
  /\ UNCHANGED <<device, logicalType, nwkStatus, nv, app, network, faults, gone>>

\* ZDO_NWK_JOIN_REQ: the parent is lost.
NwkJoinReq ==
  /\ msgs # <<>> /\ Head(msgs) = "NWK_JOIN_REQ"
  /\ msgs' = Tail(msgs)
  /\ retryCnt' = 0
  /\ devStartMode' = "RESUME"
  /\ events' = events \cup {"NETWORK_INIT"}
  /\ UNCHANGED <<device, logicalType, devState, nwkStatus, scan, nib, timers, requests, nv, app,
                 network, faults, gone>>

-----------------------------------------------------------------------------
(* Other events *)

\* ZDApp_NetworkStartEvt.
NetworkStart ==
  /\ Handles("NETWORK_START")
  /\ \/ /\ nwkStatus
        /\ devState' = IF devState = "COORD_STARTING" THEN "ZB_COORD" ELSE devState
        /\ events' = (events \ {"NETWORK_START"}) \cup {"STATE_CHANGE"}
        /\ UNCHANGED scan
     \/ /\ ~nwkStatus /\ scan.threshold < Thresholds
        /\ scan' = [scan EXCEPT !.threshold = @ + 1]
        /\ events' = (events \ {"NETWORK_START"}) \cup {"NETWORK_INIT"}
        /\ UNCHANGED devState
     \/ /\ ~nwkStatus /\ scan.threshold = Thresholds
        /\ devState' = "INIT"
        /\ events' = (events \ {"NETWORK_START"}) \cup {"STATE_CHANGE"}
        /\ UNCHANGED scan
  /\ UNCHANGED <<device, logicalType, devStartMode, nwkStatus, retryCnt, nib, timers, msgs,
                 requests, nv, app, network, faults, gone>>

\* ZDO_ROUTER_START.
RouterStart ==
  /\ Handles("ROUTER_START")
  /\ devState' = IF nwkStatus /\ devState = "END_DEVICE" THEN "ROUTER" ELSE devState
  /\ events' = (events \ {"ROUTER_START"}) \cup {"STATE_CHANGE"}
  /\ UNCHANGED <<device, logicalType, devStartMode, nwkStatus, retryCnt, scan, nib, timers, msgs,
                 requests, nv, app, network, faults, gone>>

\* Mutant: a message that waits is left as it is.
MessageKept(old) == IF old = "none" THEN devState ELSE old

\* zdoSendStateChangeMsg: a message that waits is brought up to date.
StateMessage(old) == devState

\* ZDO_UpdateNwkStatus, with memory for the message or without.
StateChange ==
  /\ Handles("STATE_CHANGE")
  /\ \/ /\ app' = [app EXCEPT !.queued = StateMessage(@)]
        /\ events' = events \ {"STATE_CHANGE"}
        /\ UNCHANGED faults
     \/ /\ app.queued = "none" /\ faults < MaxFaults
        /\ faults' = faults + 1
        /\ UNCHANGED <<app, events>>
  /\ UNCHANGED <<device, logicalType, devState, devStartMode, nwkStatus, retryCnt, scan, nib,
                 timers, msgs, requests, nv, network, gone>>

\* SmartHomeApp's part, when it gets to run.
AppStateChange ==
  /\ app.queued # "none"
  /\ app' = [queued |-> "none", state |-> app.queued]
  /\ UNCHANGED <<device, logicalType, devState, devStartMode, nwkStatus, retryCnt, scan, nib,
                 events, timers, msgs, requests, nv, network, faults, gone>>

\* ZDApp_SaveNetworkStateEvt.  A state without an address is not restored.
NwkUpdateNv ==
  /\ Handles("NWK_UPDATE_NV")
  /\ nv' = [nv EXCEPT !.network = nib.addr, !.new = FALSE]
  /\ events' = events \ {"NWK_UPDATE_NV"}
  /\ UNCHANGED <<device, logicalType, devState, devStartMode, nwkStatus, retryCnt, scan, nib,
                 timers, msgs, requests, app, network, faults, gone>>

\* Mutant: the device restarts with its network state.
LeavingKeeps(flash) == flash

\* The startup option that makes the device start anew.
Leaving(flash) == [flash EXCEPT !.new = TRUE]

DeviceReset ==
  /\ Handles("DEVICE_RESET")
  /\ ColdStart(Leaving(nv))
  /\ gone' = TRUE
  /\ UNCHANGED <<device, network, faults>>

-----------------------------------------------------------------------------
(* Timers, and what the network layer calls *)

Expire(t) ==
  /\ t \in timers
  /\ timers' = timers \ {t}
  /\ events' = events \cup {t}
  /\ UNCHANGED <<device, logicalType, devState, devStartMode, nwkStatus, retryCnt, scan, nib, msgs,
                 requests, nv, app, network, faults, gone>>

NetworkDiscoveryConfirmCB ==
  /\ "discovery" \in requests
  /\ requests' = requests \ {"discovery"}
  /\ msgs' = Append(msgs, "NWK_DISC_CNF")
  /\ UNCHANGED <<device, logicalType, devState, devStartMode, nwkStatus, retryCnt, scan, nib,
                 events, timers, nv, app, network, faults, gone>>

\* The answer to a request to form a network, or to go on with one.
NetworkFormationConfirmCB(r) ==
  /\ r \in requests
  /\ r = "formation" \/ (r = "startRouter" /\ device.type = "coordinator")
  /\ requests' = requests \ {r}
  /\ nwkStatus' \in Accepts
  /\ nib' = IF nwkStatus' THEN [addr |-> TRUE, pan |-> TRUE] ELSE nib
  /\ gone' = (gone /\ ~nwkStatus')
  /\ events' = events \cup {"NETWORK_START"}
  /\ UNCHANGED <<device, logicalType, devState, devStartMode, retryCnt, scan, timers, msgs, nv,
                 app, network, faults>>

StartRouterConfirmCB ==
  /\ "startRouter" \in requests /\ device.type # "coordinator"
  /\ requests' = requests \ {"startRouter"}
  /\ nwkStatus' \in Accepts
  /\ events' = events \cup {"ROUTER_START"}
  /\ UNCHANGED <<device, logicalType, devState, devStartMode, retryCnt, scan, nib, timers, msgs,
                 nv, app, network, faults, gone>>

\* The answer to a join, a rejoin or an orphan scan.  A parent may have
\* forgotten its child even if all goes well.
JoinConfirmCB(r) ==
  /\ r \in requests \cap {"join", "rejoin", "orphan"}
  /\ requests' = requests \ {r}
  /\ nwkStatus' \in (IF r = "orphan" THEN BOOLEAN ELSE Accepts)
  /\ nib' = IF nwkStatus' THEN [addr |-> TRUE, pan |-> TRUE] ELSE nib
  /\ gone' = (gone /\ ~nwkStatus')
  /\ timers' = IF nwkStatus' THEN NVUpdate(timers) ELSE timers
  /\ msgs' = Append(msgs, "NWK_JOIN_IND")
  /\ UNCHANGED <<device, logicalType, devState, devStartMode, retryCnt, scan, events, nv, app,
                 network, faults>>

\* ZDApp_NwkStateUpdateCB: the state of the network layer has changed.
NwkStateUpdateCB ==
  /\ nib.addr /\ NVUpdate(timers) # timers
  /\ timers' = NVUpdate(timers)
  /\ UNCHANGED <<device, logicalType, devState, devStartMode, nwkStatus, retryCnt, scan, nib,
                 events, msgs, requests, nv, app, network, faults, gone>>

Fault == ~network.well /\ faults < MaxFaults /\ faults' = faults + 1

\* ZDO_SyncIndicationCB: a child hears nothing from its parent.
SyncIndicationCB ==
  /\ Fault
  /\ nib.addr /\ logicalType = "device"
  /\ msgs' = Append(msgs, "NWK_JOIN_REQ")
  /\ UNCHANGED <<device, logicalType, devState, devStartMode, nwkStatus, retryCnt, scan, nib,
                 events, timers, requests, nv, app, network, gone>>

\* ZDO_LeaveInd and ZDO_LeaveCnf for the device itself: ZDApp_LeaveReset.
LeaveReset(rejoin) ==
  /\ Fault
  /\ nib.addr
  /\ nv' = [nv EXCEPT !.leave = IF rejoin THEN "setRejoin" ELSE "set"]
  /\ timers' = timers \cup {"DEVICE_RESET"}
  /\ UNCHANGED <<device, logicalType, devState, devStartMode, nwkStatus, retryCnt, scan, nib,
                 events, msgs, requests, app, network, gone>>

\* ZDO_AddrChangeIndicationCB: another device has the same address.
AddrChangeIndicationCB ==
  /\ Fault
  /\ nib.addr
  /\ timers' = NVUpdate(timers)
  /\ events' = events \cup {"STATE_CHANGE"}
  /\ UNCHANGED <<device, logicalType, devState, devStartMode, nwkStatus, retryCnt, scan, nib, msgs,
                 requests, nv, app, network, gone>>

\* The power fails, or somebody presses the reset button.
PowerFail ==
  /\ Fault
  /\ ColdStart(nv)
  /\ UNCHANGED <<device, network, gone>>

\* The network moves to another channel (ZDNwkMgr).
ChannelChange ==
  /\ Fault
  /\ network' = [network EXCEPT !.default = ~@]
  /\ UNCHANGED <<device, logicalType, devState, devStartMode, nwkStatus, retryCnt, scan, nib,
                 events, timers, msgs, requests, nv, app, gone>>

\* From now on all goes well.
GetWell ==
  /\ ~network.well
  /\ network' = [network EXCEPT !.well = TRUE]
  /\ UNCHANGED <<device, logicalType, devState, devStartMode, nwkStatus, retryCnt, scan, nib,
                 events, timers, msgs, requests, nv, app, faults, gone>>

-----------------------------------------------------------------------------
ZDApp_event_loop ==
  \/ NwkDiscCnf \/ NwkJoinInd \/ NwkJoinReq
  \/ NetworkInit \/ NetworkStart \/ RouterStart \/ StateChange \/ NwkUpdateNv \/ DeviceReset

Answer ==
  \/ NetworkDiscoveryConfirmCB \/ StartRouterConfirmCB
  \/ \E r \in Request : NetworkFormationConfirmCB(r) \/ JoinConfirmCB(r)

ZdNext ==
  \/ ZDApp_event_loop
  \/ AppStateChange
  \/ \E t \in Event : Expire(t)
  \/ Answer
  \/ NwkStateUpdateCB \/ SyncIndicationCB \/ AddrChangeIndicationCB
  \/ \E rejoin \in BOOLEAN : LeaveReset(rejoin)
  \/ PowerFail \/ ChannelChange \/ GetWell

ZdSpec == ZdInit /\ [][ZdNext]_zdVars

\* The task runs, timers expire, and the network layer answers what it has
\* accepted.
ZdFairSpec ==
  /\ ZdSpec
  /\ WF_zdVars(ZDApp_event_loop)
  /\ WF_zdVars(Expire("NETWORK_INIT")) /\ WF_zdVars(Expire("DEVICE_RESET"))
  /\ WF_zdVars(Answer)

-----------------------------------------------------------------------------
\* A coordinator that has tried all thresholds waits for the user.
Dormant == devState = "INIT" /\ device.type = "coordinator" /\ scan.threshold = Thresholds

InMsgs(m) == \E i \in DOMAIN msgs : msgs[i] = m

ZdTypeOK ==
  /\ device \in Devices /\ logicalType \in Type
  /\ devState \in DevState /\ devStartMode \in StartMode
  /\ nwkStatus \in BOOLEAN /\ retryCnt \in 0 .. MAX_RESUME_RETRY + 1
  /\ scan.counter \in 1 .. NUM_DISC_ATTEMPTS + 1 /\ scan.threshold \in 0 .. Thresholds
  /\ nib \in [addr : BOOLEAN, pan : BOOLEAN]
  /\ events \subseteq Event /\ timers \subseteq Event /\ requests \subseteq Request
  /\ msgs \in Seq(Message)
  /\ nv \in [network : BOOLEAN, new : BOOLEAN, leave : Leave]
  /\ app \in [queued : DevState \cup {"none"}, state : DevState]
  /\ network \in [default : BOOLEAN, well : BOOLEAN] /\ faults \in 0 .. MaxFaults /\ gone \in BOOLEAN

\* A device that is not in a network has something under way that will take
\* it on, whatever answers come late, twice or to a question it has given up.
OnItsWay ==
  \/ devState \in Joined \cup {"HOLD"} \/ Dormant
  \/ "NETWORK_INIT" \in events \cup timers
  \/ devState = "NWK_DISC" /\ ("discovery" \in requests \/ InMsgs("NWK_DISC_CNF"))
  \/ /\ devState \in {"NWK_JOINING", "NWK_REJOIN", "NWK_ORPHAN"}
     /\ requests \cap {"join", "rejoin", "orphan"} # {} \/ InMsgs("NWK_JOIN_IND")
  \/ /\ devState = "COORD_STARTING"
     /\ requests \cap {"formation", "startRouter"} # {} \/ "NETWORK_START" \in events

\* The application is told what the device is, at the latest with the message
\* or the event that is under way: "the Application task may only receive
\* notification of the final, steady-state state".
LastWord == IF app.queued = "none" THEN app.state ELSE app.queued
Told == {devState, LastWord} \cap Joined # {} => LastWord = devState \/ "STATE_CHANGE" \in events

\* A device that was reset to leave does not come back as what it was, however
\* often its power fails before it has joined again.
StartsAnew == gone => devStartMode # "RESUME"

\* When all goes well at last, the device gets in and stays in, unless it was
\* told to stay away, and if it looks at the channel the network is on.
Findable == network.default \/ Sleeps \/ devStartMode = "REJOIN"
GetsIn ==
  <>[](network.well /\ Findable)
    => <>[](devState \in Joined \/ devState = "HOLD" \/ scan.threshold = Thresholds)

=============================================================================
