--------------------------- MODULE ZdStartup_proofs ---------------------------
(***************************************************************************)
(* Proofs about ZdStartup for every set of builds, every number of retries *)
(* and every number of faults: type correctness, that the application gets *)
(* the last word about the state, that a device that left starts anew, and *)
(* that a device outside of a network always has something under way that  *)
(* takes it on.                                                            *)
(***************************************************************************)
EXTENDS ZdStartup, SequenceTheorems, TLAPS

-----------------------------------------------------------------------------
(* Messages and events *)

\* Taking the first message leaves the others, and adding one keeps all.
LEMMA MessageSteps ==
  ASSUME msgs \in Seq(Message)
  PROVE  /\ msgs # <<>> /\ msgs' = Tail(msgs) =>
              /\ msgs' \in Seq(Message)
              /\ \A m : InMsgs(m)' => InMsgs(m)
              /\ \A m : InMsgs(m) /\ Head(msgs) # m => InMsgs(m)'
         /\ \A x \in Message : msgs' = Append(msgs, x) =>
              /\ msgs' \in Seq(Message)
              /\ \A m : InMsgs(m)' <=> InMsgs(m) \/ m = x
<1>d. DOMAIN msgs = 1 .. Len(msgs) /\ Len(msgs) \in Nat
  BY LenProperties
<1>1. ASSUME msgs # <<>>, msgs' = Tail(msgs)
      PROVE  /\ msgs' \in Seq(Message)
             /\ \A m : InMsgs(m)' => InMsgs(m)
             /\ \A m : InMsgs(m) /\ Head(msgs) # m => InMsgs(m)'
  <2>1. /\ Head(msgs) = msgs[1] /\ msgs' \in Seq(Message) /\ Len(msgs') = Len(msgs) - 1
        /\ \A i \in 1 .. Len(msgs) - 1 : msgs'[i] = msgs[i + 1]
    BY <1>1, HeadTailProperties
  <2>2. DOMAIN msgs' = 1 .. Len(msgs) - 1
    BY <2>1, LenProperties
  <2>3. ASSUME NEW m, InMsgs(m)' PROVE InMsgs(m)
    <3>1. PICK i \in 1 .. Len(msgs) - 1 : msgs'[i] = m
      BY <2>2, <2>3 DEF InMsgs
    <3>2. i + 1 \in DOMAIN msgs /\ msgs[i + 1] = m
      BY <1>d, <2>1, <3>1
    <3> QED
      BY <3>2 DEF InMsgs
  <2>4. ASSUME NEW m, InMsgs(m), Head(msgs) # m PROVE InMsgs(m)'
    <3>1. PICK i \in 1 .. Len(msgs) : msgs[i] = m
      BY <1>d, <2>4 DEF InMsgs
    <3>2. i - 1 \in 1 .. Len(msgs) - 1 /\ (i - 1) + 1 = i
      BY <1>d, <2>1, <2>4, <3>1
    <3>3. msgs'[i - 1] = m
      BY <2>1, <3>1, <3>2
    <3> QED
      BY <2>2, <3>2, <3>3 DEF InMsgs
  <2> QED
    BY <2>1, <2>3, <2>4
<1>2. ASSUME NEW x \in Message, msgs' = Append(msgs, x)
      PROVE  /\ msgs' \in Seq(Message)
             /\ \A m : InMsgs(m)' <=> InMsgs(m) \/ m = x
  <2>1. /\ msgs' \in Seq(Message) /\ Len(msgs') = Len(msgs) + 1
        /\ \A i \in 1 .. Len(msgs) : msgs'[i] = msgs[i]
        /\ msgs'[Len(msgs) + 1] = x
    BY <1>2, AppendProperties
  <2>2. DOMAIN msgs' = 1 .. Len(msgs) + 1
    BY <2>1, LenProperties
  <2>3. 1 .. Len(msgs) + 1 = (1 .. Len(msgs)) \cup {Len(msgs) + 1}
    BY <1>d
  <2> QED
    BY <1>d, <2>1, <2>2, <2>3 DEF InMsgs
<1> QED
  BY <1>1, <1>2

\* An event that is handled was there, and no message was.
LEMMA HandlesStep ==
  ASSUME NEW e, Handles(e)
  PROVE  msgs = <<>> /\ e \in events
BY DEF Handles

-----------------------------------------------------------------------------
(* Type correctness *)

ScanType == [counter : 1 .. NUM_DISC_ATTEMPTS + 1, retries : Nat, cnt : Nat, all : BOOLEAN,
             threshold : 0 .. Thresholds]

\* A device that resumes has retries left: the one that uses them up makes it
\* look for another network.
Typed ==
  /\ ZdTypeOK
  /\ scan \in ScanType
  /\ devStartMode = "RESUME" => retryCnt <= MAX_RESUME_RETRY

\* A reset leaves a device that may start.
LEMMA ColdStartTyped ==
  ASSUME Typed, NEW left \in [network : BOOLEAN, new : BOOLEAN, leave : Leave],
         ColdStart(left), UNCHANGED <<device, network>>,
         faults' \in 0 .. MaxFaults, gone' \in BOOLEAN
  PROVE  Typed'
<1>1. device \in Devices /\ device.type \in Type /\ device.restore \in BOOLEAN
  BY DevicesAssumption DEF Typed, ZdTypeOK
<1>2. NoScan \in ScanType
  BY NumbersAssumption DEF NoScan, ScanType
<1>3. /\ logicalType' \in Type /\ devStartMode' \in StartMode /\ devState' \in DevState
      /\ events' \subseteq Event /\ timers' \subseteq Event
  BY <1>1 DEF ColdStart, Type, StartMode, DevState, Event
<1>4. /\ nv' \in [network : BOOLEAN, new : BOOLEAN, leave : Leave]
      /\ nib' \in [addr : BOOLEAN, pan : BOOLEAN]
      /\ app' \in [queued : DevState \cup {"none"}, state : DevState]
  BY <1>1 DEF ColdStart, Restores, Leave, DevState
<1>5. /\ scan' \in ScanType /\ nwkStatus' \in BOOLEAN
      /\ retryCnt' = 0 /\ msgs' = <<>> /\ requests' = {}
  BY <1>2 DEF ColdStart
<1>6. scan'.counter \in 1 .. NUM_DISC_ATTEMPTS + 1 /\ scan'.threshold \in 0 .. Thresholds
  BY <1>5 DEF ScanType
<1>7. 0 <= MAX_RESUME_RETRY /\ 0 \in 0 .. MAX_RESUME_RETRY + 1 /\ msgs' \in Seq(Message)
  BY <1>5, NumbersAssumption, EmptySeq
<1> QED
  BY <1>1, <1>3, <1>4, <1>5, <1>6, <1>7 DEF Typed, ZdTypeOK

\* A request is accepted or not.
LEMMA AcceptsType == Accepts \subseteq BOOLEAN
BY DEF Accepts

\* What a scan, and the choice of a network after it, leave is of its type.
LEMMA DiscoveryTyped ==
  ASSUME Typed, NEW accepted \in BOOLEAN
  PROVE  Discovered(accepted) \in ScanType
<1>1. /\ scan \in ScanType /\ scan.retries \in Nat /\ scan.cnt \in Nat /\ scan.all \in BOOLEAN
      /\ DiscRetries \in Nat /\ RejoinScans + 1 \in Nat
  BY NumbersAssumption DEF Typed, ScanType
<1>2. \A n, k \in Nat : UpTo(n, k) \in Nat
  BY DEF UpTo
<1> DEFINE retries == IF Sleeps /\ accepted THEN UpTo(scan.retries, DiscRetries) ELSE scan.retries
           cnt == IF devStartMode = "REJOIN" THEN UpTo(scan.cnt, RejoinScans + 1) ELSE scan.cnt
           all == scan.retries = DiscRetries \/ scan.cnt = RejoinScans + 1
<1>3. retries \in Nat /\ cnt \in Nat /\ all \in BOOLEAN
  BY <1>1, <1>2
<1>4. Discovered(accepted) = [scan EXCEPT !.retries = retries, !.cnt = cnt, !.all = all]
  BY DEF Discovered
<1> HIDE DEF retries, cnt, all
<1> QED
  BY <1>1, <1>3, <1>4 DEF ScanType

\* The request a device starts with, and the state it makes it in.
LEMMA StartStates ==
  /\ StartRequest \in {"formation", "startRouter", "orphan", "discovery"}
  /\ StartState["formation"] = "COORD_STARTING" /\ StartState["startRouter"] = "COORD_STARTING"
  /\ StartState["orphan"] = "NWK_ORPHAN" /\ StartState["discovery"] = "NWK_DISC"
BY DEF StartRequest, StartState

\* Every step keeps the types, and the retries of a device that resumes.
LEMMA TypedInv == ZdSpec => []Typed
<1>1. ZdInit => Typed
  <2> SUFFICES ASSUME ZdInit PROVE Typed
    OBVIOUS
  <2>1. device.type \in Type
    BY DevicesAssumption DEF ZdInit
  <2>2. NoScan \in ScanType
    BY NumbersAssumption DEF NoScan, ScanType
  <2>3. scan.counter \in 1 .. NUM_DISC_ATTEMPTS + 1 /\ scan.threshold \in 0 .. Thresholds
    BY <2>2 DEF ZdInit, ScanType
  <2>4. 0 <= MAX_RESUME_RETRY /\ 0 \in 0 .. MAX_RESUME_RETRY + 1 /\ 0 \in 0 .. MaxFaults
    BY NumbersAssumption
  <2> QED
    BY <2>1, <2>2, <2>3, <2>4, EmptySeq
    DEF ZdInit, Typed, ZdTypeOK, DevState, StartMode, Event, Leave
<1>2. Typed /\ [ZdNext]_zdVars => Typed'
  <2> SUFFICES ASSUME Typed, [ZdNext]_zdVars PROVE Typed'
    OBVIOUS
  <2> USE NumbersAssumption DEF Typed, ZdTypeOK
  <2>m. msgs # <<>> /\ msgs' = Tail(msgs) => msgs' \in Seq(Message)
    BY MessageSteps
  <2>a. \A x \in Message : msgs' = Append(msgs, x) => msgs' \in Seq(Message)
    BY MessageSteps
  <2>s. /\ scan.counter \in 1 .. NUM_DISC_ATTEMPTS + 1 /\ scan.threshold \in 0 .. Thresholds
        /\ scan.retries \in Nat /\ scan.cnt \in Nat /\ scan.all \in BOOLEAN
    BY DEF ScanType
  <2>1. CASE NwkDiscCnf
    <3>1. scan' \in ScanType
      <4>1. UpTo(scan.counter, NUM_DISC_ATTEMPTS + 1) \in 1 .. NUM_DISC_ATTEMPTS + 1
        BY <2>s, SMTT(30) DEF UpTo
      <4> QED
        BY <2>1, <4>1 DEF NwkDiscCnf, ScanType
    <3>2. scan'.counter \in 1 .. NUM_DISC_ATTEMPTS + 1 /\ scan'.threshold \in 0 .. Thresholds
      BY <3>1 DEF ScanType
    <3>3. ASSUME ChooseNetwork
          PROVE  /\ devState' \in DevState /\ logicalType' \in Type
                 /\ nib' \in [addr : BOOLEAN, pan : BOOLEAN]
                 /\ requests' \subseteq Request /\ timers' \subseteq Event
      <4>1. devState' \in DevState
        BY <3>3 DEF ChooseNetwork, DevState
      <4>2. logicalType' \in Type
        BY <3>3 DEF ChooseNetwork, Type
      <4>3. nib' \in [addr : BOOLEAN, pan : BOOLEAN]
        <5>1. nib' = nib \/ nib' = [addr |-> TRUE, pan |-> TRUE]
          BY <3>3 DEF ChooseNetwork
        <5>2. [addr |-> TRUE, pan |-> TRUE] \in [addr : BOOLEAN, pan : BOOLEAN]
          OBVIOUS
        <5>3. nib \in [addr : BOOLEAN, pan : BOOLEAN]
          OBVIOUS
        <5> QED
          BY <5>1, <5>2, <5>3
      <4>4. requests' \subseteq Request
        BY <3>3 DEF ChooseNetwork, Requested, Request
      <4>5. timers' \subseteq Event
        BY <3>3 DEF ChooseNetwork, Retries, Event
      <4> QED
        BY <4>1, <4>2, <4>3, <4>4, <4>5
    <3>4. /\ devState' \in DevState /\ logicalType' \in Type
          /\ nib' \in [addr : BOOLEAN, pan : BOOLEAN]
          /\ requests' \subseteq Request /\ timers' \subseteq Event
      BY <2>1, <3>3 DEF NwkDiscCnf, ScansAgain, Event
    <3> QED
      BY <2>1, <2>m, <3>1, <3>2, <3>4 DEF NwkDiscCnf
  <2>2. CASE NwkJoinInd
    <3>1. ASSUME JoinSucceeded
          PROVE  /\ devState' = "END_DEVICE" /\ events' \subseteq Event
                 /\ requests' \subseteq Request
                 /\ UNCHANGED <<devStartMode, retryCnt, scan, nib, timers>>
      BY <3>1 DEF JoinSucceeded, Requested, Request, Event
    <3>2. ASSUME JoinFailed
          PROVE  /\ scan' \in ScanType /\ timers' \subseteq Event
                 /\ nib' \in [addr : BOOLEAN, pan : BOOLEAN]
                 /\ devStartMode' \in StartMode /\ retryCnt' \in 0 .. MAX_RESUME_RETRY + 1
                 /\ devStartMode' = "RESUME" => retryCnt' <= MAX_RESUME_RETRY
                 /\ UNCHANGED <<devState, events, requests>>
      <4>0. 1 \in 1 .. NUM_DISC_ATTEMPTS + 1
        OBVIOUS
      <4>1. scan' \in ScanType
        <5>1. scan' = [scan EXCEPT !.counter = 1]
          BY <3>2 DEF JoinFailed
        <5> QED
          BY <2>s, <4>0, <5>1 DEF ScanType
      <4>2. timers' \subseteq Event /\ nib' \in [addr : BOOLEAN, pan : BOOLEAN]
        BY <3>2 DEF JoinFailed, Event
      <4>3. /\ devStartMode' \in StartMode /\ retryCnt' \in 0 .. MAX_RESUME_RETRY + 1
            /\ devStartMode' = "RESUME" => retryCnt' <= MAX_RESUME_RETRY
        BY <3>2 DEF JoinFailed, GivesUpResuming, StartMode
      <4> QED
        BY <3>2, <4>1, <4>2, <4>3 DEF JoinFailed
    <3>3. ASSUME RejoinFailed
          PROVE  /\ timers' \subseteq Event
                 /\ devStartMode' \in StartMode /\ retryCnt' \in 0 .. MAX_RESUME_RETRY + 1
                 /\ devStartMode' = "RESUME" => retryCnt' <= MAX_RESUME_RETRY
                 /\ UNCHANGED <<devState, scan, nib, events, requests>>
      <4>1. /\ devStartMode' \in StartMode /\ retryCnt' \in 0 .. MAX_RESUME_RETRY + 1
            /\ devStartMode' = "RESUME" => retryCnt' <= MAX_RESUME_RETRY
        BY <3>3 DEF RejoinFailed, GivesUpResuming, StartMode
      <4> QED
        BY <3>3, <4>1 DEF RejoinFailed, Event
    <3>4. /\ scan' \in ScanType /\ timers' \subseteq Event /\ events' \subseteq Event
          /\ requests' \subseteq Request /\ devState' \in DevState
          /\ nib' \in [addr : BOOLEAN, pan : BOOLEAN]
          /\ devStartMode' \in StartMode /\ retryCnt' \in 0 .. MAX_RESUME_RETRY + 1
          /\ devStartMode' = "RESUME" => retryCnt' <= MAX_RESUME_RETRY
      BY <2>2, <3>1, <3>2, <3>3 DEF NwkJoinInd, DevState, Event
    <3>5. scan'.counter \in 1 .. NUM_DISC_ATTEMPTS + 1 /\ scan'.threshold \in 0 .. Thresholds
      BY <3>4 DEF ScanType
    <3> QED
      BY <2>2, <2>m, <3>4, <3>5 DEF NwkJoinInd
  <2>3. CASE NwkJoinReq
    BY <2>3, <2>m, SMTT(30) DEF NwkJoinReq, StartMode, Event
  <2>4. CASE NetworkInit
    <3>1. StartState[StartRequest] \in DevState /\ StartRequest \in Request
      BY StartStates DEF DevState, Request
    <3>2. PICK accepted \in StartAccepts :
            /\ requests' = Requested(StartRequest, accepted)
            /\ scan' = IF StartRequest = "discovery" THEN Discovered(accepted) ELSE scan
            /\ timers' = Retries(accepted)
      BY <2>4 DEF NetworkInit
    <3>3. accepted \in BOOLEAN
      BY AcceptsType DEF StartAccepts
    <3>4. scan' \in ScanType
      BY <3>2, <3>3, DiscoveryTyped
    <3>5. scan'.counter \in 1 .. NUM_DISC_ATTEMPTS + 1 /\ scan'.threshold \in 0 .. Thresholds
      BY <3>4 DEF ScanType
    <3>6. requests' \subseteq Request /\ timers' \subseteq Event /\ events' \subseteq Event
      BY <2>4, <3>1, <3>2 DEF NetworkInit, Requested, Retries, Event
    <3> QED
      BY <2>4, <3>1, <3>4, <3>5, <3>6 DEF NetworkInit
  <2>5. CASE NetworkStart
    <3>1. scan' \in ScanType
      <4>1. ASSUME scan.threshold < Thresholds
            PROVE  [scan EXCEPT !.threshold = @ + 1] \in ScanType
        <5>1. scan.threshold + 1 \in 0 .. Thresholds
          BY <2>s, <4>1, SMTT(30)
        <5> QED
          BY <2>s, <5>1 DEF ScanType
      <4>2. scan' = scan \/ (scan.threshold < Thresholds /\ scan' = [scan EXCEPT !.threshold = @ + 1])
        BY <2>5 DEF NetworkStart
      <4> QED
        BY <4>1, <4>2
    <3>2. scan'.counter \in 1 .. NUM_DISC_ATTEMPTS + 1 /\ scan'.threshold \in 0 .. Thresholds
      BY <3>1 DEF ScanType
    <3>3. devState' \in DevState /\ events' \subseteq Event
      BY <2>5 DEF NetworkStart, DevState, Event
    <3> QED
      BY <2>5, <3>1, <3>2, <3>3, SMTT(30) DEF NetworkStart
  <2>6. CASE RouterStart
    BY <2>6 DEF RouterStart, DevState, Event
  <2>7. CASE StateChange
    BY <2>7 DEF StateChange, StateMessage, DevState
  <2>8. CASE NwkUpdateNv
    BY <2>8 DEF NwkUpdateNv
  <2>9. CASE DeviceReset
    <3>1. Leaving(nv) \in [network : BOOLEAN, new : BOOLEAN, leave : Leave]
      BY DEF Leaving
    <3> QED
      BY <2>9, <3>1, ColdStartTyped DEF DeviceReset
  <2>10. CASE AppStateChange
    BY <2>10 DEF AppStateChange
  <2>11. ASSUME NEW t \in Event, Expire(t) PROVE Typed'
    BY <2>11 DEF Expire
  <2>12. CASE NetworkDiscoveryConfirmCB
    BY <2>12, <2>a DEF NetworkDiscoveryConfirmCB, Message
  <2>13. CASE StartRouterConfirmCB
    BY <2>13 DEF StartRouterConfirmCB, Accepts, Event
  <2>14. ASSUME NEW r \in Request, NetworkFormationConfirmCB(r) PROVE Typed'
    BY <2>14 DEF NetworkFormationConfirmCB, Accepts, Event
  <2>15. ASSUME NEW r \in Request, JoinConfirmCB(r) PROVE Typed'
    BY <2>15, <2>a DEF JoinConfirmCB, Accepts, Event, NVUpdate, Message
  <2>16. CASE NwkStateUpdateCB
    BY <2>16 DEF NwkStateUpdateCB, NVUpdate, Event
  <2>17. CASE SyncIndicationCB
    BY <2>17, <2>a, SMTT(30) DEF SyncIndicationCB, Fault, Message
  <2>18. CASE AddrChangeIndicationCB
    BY <2>18 DEF AddrChangeIndicationCB, Fault, NVUpdate, Event
  <2>19. ASSUME NEW rejoin \in BOOLEAN, LeaveReset(rejoin) PROVE Typed'
    <3>1. nv' \in [network : BOOLEAN, new : BOOLEAN, leave : Leave]
      BY <2>19 DEF LeaveReset, Leave
    <3> QED
      BY <2>19, <3>1, SMTT(30) DEF LeaveReset, Fault, Event
  <2>20. CASE PowerFail
    BY <2>20, ColdStartTyped, SMTT(30) DEF PowerFail, Fault
  <2>21. CASE ChannelChange \/ GetWell
    <3>1. network' \in [default : BOOLEAN, well : BOOLEAN]
      BY <2>21 DEF ChannelChange, GetWell
    <3>2. faults' \in 0 .. MaxFaults
      BY <2>21 DEF ChannelChange, GetWell, Fault
    <3> QED
      BY <2>21, <3>1, <3>2 DEF ChannelChange, GetWell
  <2>22. CASE UNCHANGED zdVars
    BY <2>22 DEF zdVars
  <2> QED
    BY <2>1, <2>2, <2>3, <2>4, <2>5, <2>6, <2>7, <2>8, <2>9, <2>10, <2>11, <2>12, <2>13,
       <2>14, <2>15, <2>16, <2>17, <2>18, <2>19, <2>20, <2>21, <2>22
    DEF ZdNext, ZDApp_event_loop, Answer
<1> QED
  BY <1>1, <1>2, PTL DEF ZdSpec

\* Type correctness: every counter stays within its limit, and a device is
\* always in one of the states the application knows.
THEOREM TypeCorrect == ZdSpec => []ZdTypeOK
<1>1. Typed => ZdTypeOK
  BY DEF Typed
<1> QED
  BY <1>1, TypedInv, PTL

-----------------------------------------------------------------------------
(* The last word *)

\* The application is told: whatever changes the state of a device that is in
\* a network, or that the application takes for one, leaves the event that
\* tells, and the event is only taken away with the state in the message
\* (ZDO_UpdateNwkStatus, zdoSendStateChangeMsg).
THEOREM ApplicationTold == ZdSpec => []Told
<1>1. ZdInit => Told
  BY DEF ZdInit, Told, LastWord, Joined
<1>2. ZdTypeOK /\ Told /\ [ZdNext]_zdVars => Told'
  <2> SUFFICES ASSUME ZdTypeOK, Told, [ZdNext]_zdVars PROVE Told'
    OBVIOUS
  <2>s. "STATE_CHANGE" \in events' => Told'
    BY DEF Told
  <2>q. ASSUME UNCHANGED <<devState, app>>, "STATE_CHANGE" \in events => "STATE_CHANGE" \in events'
        PROVE  Told'
    BY <2>q DEF Told, LastWord
  <2>c. ASSUME NEW left, ColdStart(left) PROVE Told'
    <3>1. devState' \in {"HOLD", "INIT"} /\ LastWord' = "INIT"
      BY <2>c DEF ColdStart, LastWord
    <3> QED
      BY <3>1 DEF Told, Joined
  <2>1. CASE NwkDiscCnf
    <3>1. UNCHANGED <<events, app>>
      BY <2>1 DEF NwkDiscCnf
    <3>2. CASE UNCHANGED devState
      BY <2>q, <3>1, <3>2
    <3>3. CASE devState = "NWK_DISC" /\ devState' \in {"NWK_JOINING", "NWK_REJOIN"}
      BY <3>1, <3>3 DEF Told, LastWord, Joined
    <3> QED
      BY <2>1, <3>2, <3>3 DEF NwkDiscCnf, ChooseNetwork
  <2>2. CASE NwkJoinInd
    <3>1. CASE JoinSucceeded
      BY <2>s, <3>1 DEF JoinSucceeded
    <3>2. CASE JoinFailed \/ RejoinFailed
      BY <2>2, <2>q, <3>2 DEF NwkJoinInd, JoinFailed, RejoinFailed
    <3>3. CASE "STATE_CHANGE" \in events'
      BY <2>s, <3>3
    <3> QED
      BY <2>2, <3>1, <3>2, <3>3 DEF NwkJoinInd
  <2>3. CASE NetworkInit
    BY <2>3, <2>s DEF NetworkInit
  <2>4. CASE NetworkStart
    <3>1. CASE "STATE_CHANGE" \in events'
      BY <2>s, <3>1
    <3>2. CASE UNCHANGED devState /\ events' = (events \ {"NETWORK_START"}) \cup {"NETWORK_INIT"}
      BY <2>4, <2>q, <3>2 DEF NetworkStart
    <3> QED
      BY <2>4, <3>1, <3>2 DEF NetworkStart
  <2>5. CASE RouterStart
    BY <2>5, <2>s DEF RouterStart
  <2>6. CASE StateChange
    <3>1. CASE app' = [app EXCEPT !.queued = devState] /\ UNCHANGED devState
      <4>1. app'.queued = devState /\ devState # "none"
        BY <3>1 DEF ZdTypeOK, DevState
      <4> QED
        BY <3>1, <4>1 DEF Told, LastWord
    <3>2. CASE UNCHANGED <<devState, app, events>>
      BY <2>q, <3>2
    <3> QED
      BY <2>6, <3>1, <3>2 DEF StateChange, StateMessage
  <2>7. CASE AppStateChange
    BY <2>7 DEF AppStateChange, Told, LastWord
  <2>8. CASE DeviceReset \/ PowerFail
    BY <2>8, <2>c DEF DeviceReset, PowerFail
  <2>9. ASSUME NEW t \in Event, Expire(t) PROVE Told'
    BY <2>9, <2>q DEF Expire
  <2>10. CASE NwkJoinReq \/ NwkUpdateNv
    BY <2>10, <2>q DEF NwkJoinReq, NwkUpdateNv
  <2>11. CASE Answer
    BY <2>11, <2>q
    DEF Answer, NetworkDiscoveryConfirmCB, StartRouterConfirmCB, NetworkFormationConfirmCB,
        JoinConfirmCB
  <2>12. CASE NwkStateUpdateCB \/ SyncIndicationCB \/ AddrChangeIndicationCB
    BY <2>12, <2>q DEF NwkStateUpdateCB, SyncIndicationCB, AddrChangeIndicationCB
  <2>13. ASSUME NEW rejoin \in BOOLEAN, LeaveReset(rejoin) PROVE Told'
    BY <2>13, <2>q DEF LeaveReset
  <2>14. CASE ChannelChange \/ GetWell \/ UNCHANGED zdVars
    BY <2>14, <2>q DEF ChannelChange, GetWell, zdVars
  <2> QED
    BY <2>1, <2>2, <2>3, <2>4, <2>5, <2>6, <2>7, <2>8, <2>9, <2>10, <2>11, <2>12, <2>13, <2>14
    DEF ZdNext, ZDApp_event_loop
<1> QED
  BY <1>1, <1>2, TypeCorrect, PTL DEF ZdSpec

-----------------------------------------------------------------------------
(* Starting anew *)

\* A device that was reset for good has nothing left that could make it resume:
\* no address, no network state that would be restored, and nobody who tells it
\* that its parent is lost.
Anew ==
  gone =>
    /\ devStartMode \in {"JOIN", "HARD"}
    /\ ~nib.addr
    /\ ~Restores(nv)
    /\ ~InMsgs("NWK_JOIN_REQ")

\* A reset keeps it so, and makes it so when no network state is restored.
LEMMA ColdStartAnew ==
  ASSUME NEW left, ColdStart(left), ~Restores(left), UNCHANGED device
  PROVE  Anew'
<1>1. devStartMode' \in {"JOIN", "HARD"} /\ ~nib'.addr
  BY DEF ColdStart
<1>2. nv'.network = (left.network /\ (device.restore => ~left.new))
  BY DEF ColdStart
<1>3. ~Restores(nv)'
  BY <1>2 DEF Restores
<1>4. ~InMsgs("NWK_JOIN_REQ")'
  BY EmptySeq DEF ColdStart, InMsgs
<1> QED
  BY <1>1, <1>3, <1>4 DEF Anew

\* A device that left starts anew, however often its power fails before it has
\* joined again (ZDApp_LeaveReset, ZDApp_ResetTimer, ZDOInitDevice).
THEOREM LeaversStartAnew == ZdSpec => []StartsAnew
<1>1. ZdInit => Anew
  BY DEF ZdInit, Anew
<1>2. ZdTypeOK /\ Anew /\ [ZdNext]_zdVars => Anew'
  <2> SUFFICES ASSUME ZdTypeOK, Anew, [ZdNext]_zdVars PROVE Anew'
    OBVIOUS
  <2>g. ~gone' => Anew'
    BY DEF Anew
  <2>j. ~InMsgs("NWK_JOIN_REQ") /\ UNCHANGED msgs => ~InMsgs("NWK_JOIN_REQ")'
    BY DEF InMsgs
  <2>t. ~InMsgs("NWK_JOIN_REQ") /\ msgs # <<>> /\ msgs' = Tail(msgs) => ~InMsgs("NWK_JOIN_REQ")'
    BY MessageSteps DEF ZdTypeOK
  <2>a. ASSUME NEW x \in Message \ {"NWK_JOIN_REQ"}, msgs' = Append(msgs, x), ~InMsgs("NWK_JOIN_REQ")
        PROVE  ~InMsgs("NWK_JOIN_REQ")'
    BY <2>a, MessageSteps DEF ZdTypeOK
  <2>q. ASSUME UNCHANGED <<device, devStartMode, nib, nv, msgs, gone>> PROVE Anew'
    BY <2>q, <2>j DEF Anew, Restores
  <2>1. CASE NwkDiscCnf
    <3>1. gone => ~nib'.addr
      BY <2>1 DEF NwkDiscCnf, ChooseNetwork, Anew
    <3> QED
      BY <2>1, <2>t, <3>1 DEF NwkDiscCnf, Anew, Restores
  <2>2. CASE NwkJoinInd
    <3>1. gone => devStartMode' = devStartMode /\ ~nib'.addr
      <4>1. JoinFailed => nib' = [nib EXCEPT !.addr = FALSE]
        BY DEF JoinFailed
      <4>2. nib' = nib \/ nib' = [nib EXCEPT !.addr = FALSE]
        BY <2>2, <4>1 DEF NwkJoinInd, JoinSucceeded, RejoinFailed
      <4>3. devStartMode # "RESUME" => devStartMode' = devStartMode
        BY <2>2 DEF NwkJoinInd, JoinSucceeded, JoinFailed, RejoinFailed
      <4> QED
        BY <4>2, <4>3 DEF Anew, ZdTypeOK
    <3> QED
      BY <2>2, <2>t, <3>1 DEF NwkJoinInd, Anew, Restores
  <2>3. CASE NwkJoinReq
    <3>1. InMsgs("NWK_JOIN_REQ")
      <4>1. 1 \in DOMAIN msgs /\ msgs[1] = "NWK_JOIN_REQ"
        BY <2>3, HeadTailProperties, LenProperties, EmptySeq DEF NwkJoinReq, ZdTypeOK
      <4> QED
        BY <4>1 DEF InMsgs
    <3> QED
      BY <2>3, <2>g, <3>1 DEF NwkJoinReq, Anew
  <2>4. CASE NetworkInit \/ NetworkStart \/ RouterStart \/ StateChange \/ AppStateChange
    BY <2>4, <2>q DEF NetworkInit, NetworkStart, RouterStart, StateChange, AppStateChange
  <2>5. CASE NwkUpdateNv
    <3>1. nv'.network = nib.addr
      BY <2>5 DEF NwkUpdateNv, ZdTypeOK
    <3> QED
      BY <2>5, <2>j, <3>1 DEF NwkUpdateNv, Anew, Restores
  <2>6. CASE DeviceReset
    <3>1. ~Restores(Leaving(nv))
      BY DEF Restores, Leaving, ZdTypeOK
    <3> QED
      BY <2>6, <3>1, ColdStartAnew DEF DeviceReset
  <2>7. CASE PowerFail
    BY <2>7, <2>g, ColdStartAnew DEF PowerFail, Anew
  <2>8. ASSUME NEW t \in Event, Expire(t) PROVE Anew'
    BY <2>8, <2>q DEF Expire
  <2>9. CASE NetworkDiscoveryConfirmCB
    BY <2>9, <2>a DEF NetworkDiscoveryConfirmCB, Anew, Restores, Message
  <2>10. CASE StartRouterConfirmCB
    BY <2>10, <2>q DEF StartRouterConfirmCB
  <2>11. ASSUME NEW r \in Request, NetworkFormationConfirmCB(r) PROVE Anew'
    BY <2>11, <2>g, <2>j DEF NetworkFormationConfirmCB, Anew, Restores
  <2>12. ASSUME NEW r \in Request, JoinConfirmCB(r) PROVE Anew'
    BY <2>12, <2>g, <2>a DEF JoinConfirmCB, Anew, Restores, Message
  <2>13. CASE NwkStateUpdateCB \/ ChannelChange \/ GetWell \/ UNCHANGED zdVars
    BY <2>13, <2>q DEF NwkStateUpdateCB, ChannelChange, GetWell, zdVars
  <2>14. CASE SyncIndicationCB \/ AddrChangeIndicationCB
    BY <2>14, <2>g DEF SyncIndicationCB, AddrChangeIndicationCB, Anew
  <2>15. ASSUME NEW rejoin \in BOOLEAN, LeaveReset(rejoin) PROVE Anew'
    BY <2>15, <2>g DEF LeaveReset, Anew
  <2> QED
    BY <2>1, <2>2, <2>3, <2>4, <2>5, <2>6, <2>7, <2>8, <2>9, <2>10, <2>11, <2>12, <2>13, <2>14,
       <2>15
    DEF ZdNext, ZDApp_event_loop, Answer
<1>3. Anew => StartsAnew
  BY DEF Anew, StartsAnew
<1> QED
  BY <1>1, <1>2, <1>3, TypeCorrect, PTL DEF ZdSpec

-----------------------------------------------------------------------------
(* On its way *)

\* What a device is: it is a coordinator when it starts a network hard, and
\* when there is a network to start, and it is what it was built as or an end
\* device.
Roles ==
  /\ devStartMode = "HARD" => logicalType = "coordinator"
  /\ logicalType \in {device.type, "device"}
  /\ "formation" \in requests \/ "NETWORK_START" \in events \cup timers \/ devState = "COORD_STARTING"
       => device.type = "coordinator"

\* A device that discovers although it should resume will start over.
DiscoversOnce ==
  devState = "NWK_DISC" /\ devStartMode \in {"RESUME", "HARD"} => "NETWORK_INIT" \in events \cup timers

\* A device discovers when it is to join or rejoin, and only a coordinator
\* starts a network.
LEMMA StartRoles ==
  ASSUME devStartMode \in StartMode, Roles
  PROVE  /\ StartRequest = "discovery" => devStartMode \in {"JOIN", "REJOIN"}
         /\ StartRequest \in {"formation", "startRouter"} => device.type = "coordinator"
         /\ StartRequest = "orphan" => logicalType # "coordinator"
BY DEF StartRequest, StartMode, Roles

\* A reset makes the device what it was built as.
LEMMA ColdStartRoles ==
  ASSUME NEW left, ColdStart(left), UNCHANGED device
  PROVE  Roles' /\ DiscoversOnce' /\ OnItsWay'
<1>1. logicalType' = device.type /\ (devStartMode' = "HARD" => device.type = "coordinator")
  BY DEF ColdStart
<1>2. /\ devState' \in {"HOLD", "INIT"} /\ requests' = {}
      /\ "NETWORK_START" \notin events' \cup timers'
      /\ devState' = "HOLD" \/ "NETWORK_INIT" \in events' \cup timers'
  BY DEF ColdStart
<1> QED
  BY <1>1, <1>2 DEF Roles, DiscoversOnce, OnItsWay

\* The roles are kept, and a device that is told to resume while it discovers
\* is told to start over.
LEMMA RolesInv == ZdSpec => [](Roles /\ DiscoversOnce)
<1>1. ZdInit => Roles /\ DiscoversOnce
  BY DEF ZdInit, Roles, DiscoversOnce
<1>2. ZdTypeOK /\ Roles /\ DiscoversOnce /\ [ZdNext]_zdVars => Roles' /\ DiscoversOnce'
  <2> SUFFICES ASSUME ZdTypeOK, Roles, DiscoversOnce, [ZdNext]_zdVars
               PROVE  Roles' /\ DiscoversOnce'
    OBVIOUS
  <2>q. ASSUME UNCHANGED <<device, logicalType, devState, devStartMode>>,
               "NETWORK_INIT" \in events \cup timers => "NETWORK_INIT" \in events' \cup timers',
               "NETWORK_START" \in events' \cup timers' => "NETWORK_START" \in events \cup timers,
               "formation" \in requests' => "formation" \in requests
        PROVE  Roles' /\ DiscoversOnce'
    BY <2>q DEF Roles, DiscoversOnce
  <2>1. CASE NwkDiscCnf
    <3>1. ASSUME ChooseNetwork PROVE Roles' /\ DiscoversOnce'
      <4>1. /\ "formation" \in requests' => "formation" \in requests
            /\ timers \subseteq timers' /\ timers' \subseteq timers \cup {"NETWORK_INIT"}
        BY <3>1 DEF ChooseNetwork, Requested, Retries
      <4>2. /\ devStartMode = "JOIN" => logicalType' \in {logicalType, "device"}
            /\ devStartMode # "JOIN" => logicalType' = logicalType
            /\ devState' \in {devState, "NWK_JOINING", "NWK_REJOIN"}
        BY <3>1 DEF ChooseNetwork
      <4>3. UNCHANGED <<device, devStartMode, events>>
        BY <2>1 DEF NwkDiscCnf
      <4>4. Roles'
        BY <4>1, <4>2, <4>3 DEF Roles
      <4>5. DiscoversOnce'
        BY <4>1, <4>2, <4>3 DEF DiscoversOnce
      <4> QED
        BY <4>4, <4>5
    <3> QED
      BY <2>1, <2>q, <3>1 DEF NwkDiscCnf, ScansAgain
  <2>2. CASE NwkJoinInd
    <3>1. ASSUME JoinSucceeded PROVE Roles' /\ DiscoversOnce'
      BY <2>2, <3>1 DEF NwkJoinInd, JoinSucceeded, Requested, Roles, DiscoversOnce
    <3>2. ASSUME JoinFailed \/ RejoinFailed PROVE Roles' /\ DiscoversOnce'
      <4>1. /\ timers' = timers \cup {"NETWORK_INIT"}
            /\ UNCHANGED <<device, logicalType, devState, events, requests>>
        BY <2>2, <3>2 DEF NwkJoinInd, JoinFailed, RejoinFailed
      <4>2. devStartMode' = "HARD" => devStartMode = "HARD"
        BY <3>2 DEF JoinFailed, RejoinFailed, GivesUpResuming
      <4> QED
        BY <4>1, <4>2 DEF Roles, DiscoversOnce
    <3> QED
      BY <2>2, <2>q, <3>1, <3>2 DEF NwkJoinInd
  <2>3. CASE NwkJoinReq
    BY <2>3 DEF NwkJoinReq, Roles, DiscoversOnce
  <2>4. CASE NetworkInit
    <3>1. /\ devState' = StartState[StartRequest]
          /\ UNCHANGED <<device, logicalType, devStartMode>>
          /\ "NETWORK_START" \in events' \cup timers' => "NETWORK_START" \in events \cup timers
          /\ "formation" \in requests' => "formation" \in requests \/ StartRequest = "formation"
      BY <2>4 DEF NetworkInit, Requested, Retries
    <3>2. devState' = "NWK_DISC" => devStartMode \in {"JOIN", "REJOIN"}
      BY <3>1, StartStates, StartRoles DEF ZdTypeOK
    <3>3. devState' = "COORD_STARTING" => device.type = "coordinator"
      BY <3>1, StartStates, StartRoles DEF ZdTypeOK
    <3>4. StartRequest = "formation" => device.type = "coordinator"
      BY StartRoles DEF ZdTypeOK
    <3> QED
      BY <3>1, <3>2, <3>3, <3>4 DEF Roles, DiscoversOnce
  <2>5. CASE NetworkStart
    <3>1. /\ devState' \in {devState, "ZB_COORD", "INIT"}
          /\ events' \subseteq events \cup {"STATE_CHANGE", "NETWORK_INIT"}
          /\ "NETWORK_INIT" \in events => "NETWORK_INIT" \in events'
          /\ UNCHANGED <<device, logicalType, devStartMode, timers, requests>>
      BY <2>5 DEF NetworkStart
    <3> QED
      BY <3>1 DEF Roles, DiscoversOnce
  <2>6. CASE RouterStart
    <3>1. devState' \in {devState, "ROUTER"}
      BY <2>6 DEF RouterStart
    <3> QED
      BY <2>6, <3>1 DEF RouterStart, Roles, DiscoversOnce
  <2>7. CASE StateChange \/ NwkUpdateNv \/ AppStateChange
    BY <2>7, <2>q DEF StateChange, NwkUpdateNv, AppStateChange
  <2>8. CASE DeviceReset \/ PowerFail
    BY <2>8, ColdStartRoles DEF DeviceReset, PowerFail
  <2>9. ASSUME NEW t \in Event, Expire(t) PROVE Roles' /\ DiscoversOnce'
    BY <2>9, <2>q DEF Expire
  <2>10. CASE NetworkDiscoveryConfirmCB
    BY <2>10, <2>q DEF NetworkDiscoveryConfirmCB
  <2>11. CASE StartRouterConfirmCB
    BY <2>11, <2>q DEF StartRouterConfirmCB
  <2>12. ASSUME NEW r \in Request, NetworkFormationConfirmCB(r) PROVE Roles' /\ DiscoversOnce'
    BY <2>12 DEF NetworkFormationConfirmCB, Roles, DiscoversOnce
  <2>13. ASSUME NEW r \in Request, JoinConfirmCB(r) PROVE Roles' /\ DiscoversOnce'
    BY <2>13, <2>q DEF JoinConfirmCB, NVUpdate
  <2>14. CASE NwkStateUpdateCB \/ SyncIndicationCB \/ AddrChangeIndicationCB
    BY <2>14, <2>q DEF NwkStateUpdateCB, SyncIndicationCB, AddrChangeIndicationCB, NVUpdate
  <2>15. ASSUME NEW rejoin \in BOOLEAN, LeaveReset(rejoin) PROVE Roles' /\ DiscoversOnce'
    BY <2>15, <2>q DEF LeaveReset
  <2>16. CASE ChannelChange \/ GetWell \/ UNCHANGED zdVars
    BY <2>16, <2>q DEF ChannelChange, GetWell, zdVars
  <2> QED
    BY <2>1, <2>2, <2>3, <2>4, <2>5, <2>6, <2>7, <2>8, <2>9, <2>10, <2>11, <2>12, <2>13, <2>14,
       <2>15, <2>16
    DEF ZdNext, ZDApp_event_loop, Answer
<1> QED
  BY <1>1, <1>2, TypeCorrect, PTL DEF ZdSpec

\* A device outside of a network always has something under way: whatever is
\* answered late, twice or to a question given up, no step takes the last of it
\* away without leaving the next.
THEOREM AlwaysOnItsWay == ZdSpec => []OnItsWay
<1>1. ZdInit => OnItsWay
  BY DEF ZdInit, OnItsWay
<1>2. ZdTypeOK /\ Roles /\ DiscoversOnce /\ OnItsWay /\ [ZdNext]_zdVars => OnItsWay'
  <2> SUFFICES ASSUME ZdTypeOK, Roles, DiscoversOnce, OnItsWay, [ZdNext]_zdVars PROVE OnItsWay'
    OBVIOUS
  <2>i. "NETWORK_INIT" \in events' \cup timers' => OnItsWay'
    BY DEF OnItsWay
  <2>m. ASSUME NEW m, UNCHANGED msgs, InMsgs(m) PROVE InMsgs(m)'
    BY <2>m DEF InMsgs
  <2>t. ASSUME NEW m, msgs # <<>>, msgs' = Tail(msgs), Head(msgs) # m, InMsgs(m) PROVE InMsgs(m)'
    BY <2>t, MessageSteps DEF ZdTypeOK
  <2>a. ASSUME NEW x \in Message, msgs' = Append(msgs, x)
        PROVE  InMsgs(x)' /\ \A m : InMsgs(m) => InMsgs(m)'
    BY <2>a, MessageSteps DEF ZdTypeOK
  <2>k. ASSUME UNCHANGED <<device, devState>>, scan'.threshold = scan.threshold,
               "NETWORK_INIT" \in events \cup timers => "NETWORK_INIT" \in events' \cup timers',
               "NETWORK_START" \in events => "NETWORK_START" \in events',
               requests \subseteq requests',
               \A m : InMsgs(m) => InMsgs(m)'
        PROVE  OnItsWay'
    BY <2>k DEF OnItsWay, Dormant
  <2>1. CASE NwkDiscCnf
    <3>1. CASE devState # "NWK_DISC"
      <4>1. UNCHANGED <<device, devState, scan, timers, requests, events>>
        BY <2>1, <3>1 DEF NwkDiscCnf
      <4>2. InMsgs("NWK_JOIN_IND") => InMsgs("NWK_JOIN_IND")'
        BY <2>1, <2>t DEF NwkDiscCnf
      <4> QED
        BY <3>1, <4>1, <4>2 DEF OnItsWay, Dormant
    <3>2. CASE devState = "NWK_DISC" /\ ChooseNetwork
      <4>1. CASE devStartMode = "JOIN"
        <5>1. devState' = "NWK_JOINING" /\ ("join" \in requests' \/ "NETWORK_INIT" \in timers')
          BY <3>2, <4>1 DEF ChooseNetwork, Requested, Retries, Accepts
        <5> QED
          BY <5>1 DEF OnItsWay
      <4>2. CASE devStartMode = "REJOIN"
        <5>1. devState' = "NWK_REJOIN" /\ ("rejoin" \in requests' \/ "NETWORK_INIT" \in timers')
          BY <3>2, <4>2 DEF ChooseNetwork, Requested, Retries, Accepts
        <5> QED
          BY <5>1 DEF OnItsWay
      <4>3. CASE devStartMode \notin {"JOIN", "REJOIN"}
        <5>1. devStartMode \in {"RESUME", "HARD"} /\ UNCHANGED <<events, timers>>
          BY <2>1, <3>2, <4>3 DEF NwkDiscCnf, ChooseNetwork, ZdTypeOK, StartMode
        <5> QED
          BY <2>i, <3>2, <5>1 DEF DiscoversOnce
      <4> QED
        BY <4>1, <4>2, <4>3
    <3>3. CASE timers' = ScansAgain(timers)
      BY <2>i, <3>3 DEF ScansAgain
    <3> QED
      BY <2>1, <3>1, <3>2, <3>3 DEF NwkDiscCnf
  <2>2. CASE NwkJoinInd
    <3>1. CASE JoinSucceeded
      BY <3>1 DEF JoinSucceeded, OnItsWay, Joined
    <3>2. CASE JoinFailed \/ RejoinFailed
      BY <2>i, <3>2 DEF JoinFailed, RejoinFailed
    <3>3. CASE /\ ~JoinsAnew /\ ~ComesBack
               /\ events' = events \cup {"STATE_CHANGE"}
               /\ UNCHANGED <<devState, devStartMode, retryCnt, scan, nib, timers, requests>>
      <4>1. devState \notin {"NWK_JOINING", "NWK_REJOIN", "NWK_ORPHAN"}
        BY <3>3 DEF JoinsAnew, ComesBack
      <4>2. InMsgs("NWK_DISC_CNF") => InMsgs("NWK_DISC_CNF")'
        BY <2>2, <2>t DEF NwkJoinInd
      <4> QED
        BY <2>2, <3>3, <4>1, <4>2 DEF NwkJoinInd, OnItsWay, Dormant
    <3> QED
      BY <2>2, <3>1, <3>2, <3>3 DEF NwkJoinInd
  <2>3. CASE NwkJoinReq
    BY <2>3, <2>i DEF NwkJoinReq
  <2>4. CASE NetworkInit
    <3>1. PICK accepted \in StartAccepts :
            /\ requests' = Requested(StartRequest, accepted)
            /\ timers' = Retries(accepted)
            /\ devState' = StartState[StartRequest]
      BY <2>4 DEF NetworkInit
    <3>2. CASE accepted
      <4>1. StartRequest \in requests'
        BY <3>1, <3>2 DEF Requested
      <4> QED
        BY <3>1, <4>1, StartStates DEF OnItsWay
    <3>3. CASE ~accepted
      BY <2>i, <3>1, <3>3 DEF Retries
    <3> QED
      BY <3>2, <3>3
  <2>5. CASE NetworkStart
    <3>1. CASE nwkStatus
      <4>1. /\ devState' = IF devState = "COORD_STARTING" THEN "ZB_COORD" ELSE devState
            /\ events' = (events \ {"NETWORK_START"}) \cup {"STATE_CHANGE"}
            /\ UNCHANGED <<device, scan, timers, msgs, requests>>
        BY <2>5, <3>1 DEF NetworkStart
      <4>2. \A m : InMsgs(m) => InMsgs(m)'
        BY <2>m, <4>1
      <4> QED
        BY <4>1, <4>2 DEF OnItsWay, Dormant, Joined
    <3>2. CASE "NETWORK_INIT" \in events'
      BY <2>i, <3>2
    <3>3. CASE devState' = "INIT" /\ scan.threshold = Thresholds /\ UNCHANGED scan
      <4>1. device.type = "coordinator" /\ UNCHANGED device
        BY <2>5, HandlesStep DEF NetworkStart, Roles
      <4> QED
        BY <3>3, <4>1 DEF OnItsWay, Dormant
    <3> QED
      BY <2>5, <3>1, <3>2, <3>3 DEF NetworkStart
  <2>6. CASE RouterStart
    <3>1. \A m : InMsgs(m) => InMsgs(m)'
      BY <2>6, <2>m DEF RouterStart
    <3>2. devState' = "ROUTER" \/ UNCHANGED devState
      BY <2>6 DEF RouterStart
    <3>3. devState' = "ROUTER" => OnItsWay'
      BY DEF OnItsWay, Joined
    <3> QED
      BY <2>6, <2>k, <3>1, <3>2, <3>3 DEF RouterStart
  <2>7. CASE StateChange \/ NwkUpdateNv \/ AppStateChange
    <3>1. \A m : InMsgs(m) => InMsgs(m)'
      BY <2>7, <2>m DEF StateChange, NwkUpdateNv, AppStateChange
    <3> QED
      BY <2>7, <2>k, <3>1 DEF StateChange, NwkUpdateNv, AppStateChange
  <2>8. CASE DeviceReset \/ PowerFail
    BY <2>8, ColdStartRoles DEF DeviceReset, PowerFail
  <2>9. ASSUME NEW e \in Event, Expire(e) PROVE OnItsWay'
    <3>1. \A m : InMsgs(m) => InMsgs(m)'
      BY <2>9, <2>m DEF Expire
    <3> QED
      BY <2>9, <2>k, <3>1 DEF Expire
  <2>10. CASE NetworkDiscoveryConfirmCB
    <3>1. /\ InMsgs("NWK_DISC_CNF")' /\ \A m : InMsgs(m) => InMsgs(m)'
          /\ requests' = requests \ {"discovery"}
          /\ UNCHANGED <<device, devState, scan, events, timers>>
      BY <2>10, <2>a DEF NetworkDiscoveryConfirmCB, Message
    <3> QED
      BY <3>1 DEF OnItsWay, Dormant
  <2>11. CASE StartRouterConfirmCB
    <3>1. devState # "COORD_STARTING"
      BY <2>11 DEF StartRouterConfirmCB, Roles
    <3>2. \A m : InMsgs(m) => InMsgs(m)'
      BY <2>11, <2>m DEF StartRouterConfirmCB
    <3>3. /\ requests' = requests \ {"startRouter"} /\ events' = events \cup {"ROUTER_START"}
          /\ UNCHANGED <<device, devState, scan, timers>>
      BY <2>11 DEF StartRouterConfirmCB
    <3> QED
      BY <3>1, <3>2, <3>3 DEF OnItsWay, Dormant
  <2>12. ASSUME NEW r \in Request, NetworkFormationConfirmCB(r) PROVE OnItsWay'
    <3>1. \A m : InMsgs(m) => InMsgs(m)'
      BY <2>12, <2>m DEF NetworkFormationConfirmCB
    <3>2. /\ requests' = requests \ {r} /\ r \in {"formation", "startRouter"}
          /\ events' = events \cup {"NETWORK_START"}
          /\ UNCHANGED <<device, devState, scan, timers>>
      BY <2>12 DEF NetworkFormationConfirmCB
    <3> QED
      BY <3>1, <3>2 DEF OnItsWay, Dormant
  <2>13. ASSUME NEW r \in Request, JoinConfirmCB(r) PROVE OnItsWay'
    <3>1. InMsgs("NWK_JOIN_IND")' /\ \A m : InMsgs(m) => InMsgs(m)'
      BY <2>13, <2>a DEF JoinConfirmCB, Message
    <3>2. /\ requests' = requests \ {r} /\ r \in {"join", "rejoin", "orphan"}
          /\ timers \subseteq timers'
          /\ UNCHANGED <<device, devState, scan, events>>
      BY <2>13 DEF JoinConfirmCB, NVUpdate
    <3> QED
      BY <3>1, <3>2 DEF OnItsWay, Dormant
  <2>14. CASE NwkStateUpdateCB \/ AddrChangeIndicationCB
    <3>1. \A m : InMsgs(m) => InMsgs(m)'
      BY <2>14, <2>m DEF NwkStateUpdateCB, AddrChangeIndicationCB
    <3> QED
      BY <2>14, <2>k, <3>1 DEF NwkStateUpdateCB, AddrChangeIndicationCB, NVUpdate
  <2>15. CASE SyncIndicationCB
    BY <2>15, <2>a, <2>k DEF SyncIndicationCB, Message
  <2>16. ASSUME NEW rejoin \in BOOLEAN, LeaveReset(rejoin) PROVE OnItsWay'
    <3>1. \A m : InMsgs(m) => InMsgs(m)'
      BY <2>16, <2>m DEF LeaveReset
    <3> QED
      BY <2>16, <2>k, <3>1 DEF LeaveReset
  <2>17. CASE ChannelChange \/ GetWell \/ UNCHANGED zdVars
    <3>1. \A m : InMsgs(m) => InMsgs(m)'
      BY <2>17, <2>m DEF ChannelChange, GetWell, zdVars
    <3> QED
      BY <2>17, <2>k, <3>1 DEF ChannelChange, GetWell, zdVars
  <2> QED
    BY <2>1, <2>2, <2>3, <2>4, <2>5, <2>6, <2>7, <2>8, <2>9, <2>10, <2>11, <2>12, <2>13, <2>14,
       <2>15, <2>16, <2>17
    DEF ZdNext, ZDApp_event_loop, Answer
<1> QED
  BY <1>1, <1>2, TypeCorrect, RolesInv, PTL DEF ZdSpec

=============================================================================
