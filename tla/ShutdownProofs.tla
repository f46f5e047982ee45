--------------------------- MODULE ShutdownProofs ---------------------------
(***************************************************************************)
(* Proofs about module Simulator for any topology, any set of frames, any  *)
(* number of datagrams and up to two SIGINTs: its types, and the bounds on *)
(* what a gateway still sends and a device still gets once it was told to  *)
(* stop.                                                                   *)
(***************************************************************************)
EXTENDS Shutdown, SequenceTheorems, TLAPS

-----------------------------------------------------------------------------
(* Type correctness, one step per action, for each of the three parts of   *)
(* the state: gateways, devices and main.                                  *)

\* The conjuncts of TypeOK about the main thread.
MainTypeOK ==
    /\ mainPc \in MainPcs
    /\ idx \in Nat \ {0}
    /\ caller \in {"run", "catch", "signal"}
    /\ built \in BOOLEAN
    /\ simStopped \in BOOLEAN
    /\ sigint \in {"none", "early", "late"}
    /\ exitCode \in {"none", "success", "failure", "abort", "undefined",
                     "exit_success", "exit_failure"}
    /\ gwGone \subseteq Gateways

\* The type invariant is that of the gateways, the devices and main.
LEMMA TypeParts == TypeOK <=> GatewayTypeOK /\ DeviceTypeOK /\ MainTypeOK
  BY DEF TypeOK, MainTypeOK

\* A step that changes nothing of the gateways keeps their types.
LEMMA GatewayFrame == GatewayTypeOK /\ UNCHANGED gatewayVars => GatewayTypeOK'
  BY DEF GatewayTypeOK, gatewayVars, pullVars, netVars, chanVars

\* A step that changes nothing of the devices keeps their types.
LEMMA DeviceFrame == DeviceTypeOK /\ UNCHANGED deviceVars => DeviceTypeOK'
  BY DEF DeviceTypeOK, deviceVars, upVars, downVars

\* A step that changes nothing of main keeps its types.
LEMMA MainFrame == MainTypeOK /\ UNCHANGED mainVars => MainTypeOK'
  BY DEF MainTypeOK, mainVars

\* The initial state is well typed.
LEMMA TypeInit == Init => TypeOK
  <1> SUFFICES ASSUME Init PROVE TypeOK
    OBVIOUS
  <1>1. GatewayTypeOK
    <2>1. (CHOOSE frame \in Frames : TRUE) \in Frames
      BY FrameAssumption
    <2> QED
      BY <2>1 DEF Init, GatewayInit, GatewayTypeOK, Finished
  <1>2. DeviceTypeOK
    <2>1. \A d \in Devices : Route[d] \in Seq(Gateways) /\ Route[d] # <<>>
      BY TopologyAssumption
    <2>2. \A d \in Devices : 1 \in DOMAIN Route[d]
      BY <2>1, EmptySeq, LenProperties
    <2>3. 0 \in 0..(W32 - 1)
      BY FrameAssumption
    <2>4. /\ hop \in [Devices -> Nat \ {0}] /\ \A d \in Devices : hop[d] \in DOMAIN Route[d]
          /\ fCntUp \in [Devices -> 0..(W32 - 1)] /\ fCntDown \in [Devices -> 0..(W32 - 1)]
      BY <2>2, <2>3, FrameAssumption DEF Init, DeviceInit
    <2> QED
      BY <2>4 DEF Init, DeviceInit, DeviceTypeOK, Finished
  <1>3. MainTypeOK
    <2>1. gwGone \subseteq Gateways /\ mainPc \in MainPcs
      BY DEF Init, MainPcs
    <2>2. /\ idx = 1 /\ caller = "run" /\ built = FALSE /\ simStopped = FALSE
          /\ sigint = "none" /\ exitCode = "none"
      BY DEF Init
    <2>3. built \in BOOLEAN /\ simStopped \in BOOLEAN
      BY <2>2
    <2>4. idx \in Nat \ {0}
      BY <2>2
    <2> QED
      BY <2>1, <2>2, <2>3, <2>4 DEF MainTypeOK
  <1> QED
    BY <1>1, <1>2, <1>3, TypeParts

\* Main keeps its own types.
LEMMA MainStepMainType ==
    ASSUME MainTypeOK, MainStep \/ DurationExpires \/ LaunchFailure \/ Signal
    PROVE  MainTypeOK'
  <1> USE DEF MainTypeOK, MainPcs, StopPcs, Destroying, Goto, Continue, Loop, Exit, Throw
  <1>1. CASE InitSucceeds
    BY <1>1 DEF InitSucceeds
  <1>2. CASE OpenSockets
    BY <1>2 DEF OpenSockets
  <1>3. CASE LaunchKeepAlive
    BY <1>3 DEF LaunchKeepAlive
  <1>4. CASE LaunchPull
    BY <1>4 DEF LaunchPull
  <1>5. CASE LaunchUplink
    BY <1>5 DEF LaunchUplink
  <1>6. CASE LaunchDownlink
    BY <1>6 DEF LaunchDownlink
  <1>7. CASE DurationExpires
    BY <1>7 DEF DurationExpires
  <1>8. CASE InitThrows
    BY <1>8 DEF InitThrows
  <1>9. CASE SocketFails
    BY <1>9 DEF SocketFails
  <1>10. CASE LaunchThrows
    BY <1>10 DEF LaunchThrows
  <1>11. CASE StopIgnored
    BY <1>11 DEF StopIgnored
  <1>12. CASE StopBegins
    BY <1>12 DEF StopBegins
  <1>13. CASE FlagDevice
    BY <1>13 DEF FlagDevice
  <1>14. CASE FlagGateway
    BY <1>14 DEF FlagGateway
  <1>15. CASE CloseChannel
    BY <1>15 DEF CloseChannel
  <1>16. CASE JoinUplink
    BY <1>16 DEF JoinUplink
  <1>17. CASE JoinDownlink
    BY <1>17 DEF JoinDownlink
  <1>18. CASE JoinDownlinkThrows
    BY <1>18 DEF JoinDownlinkThrows
  <1>19. CASE JoinPull
    BY <1>19 DEF JoinPull
  <1>20. CASE JoinPullThrows
    BY <1>20 DEF JoinPullThrows
  <1>21. CASE JoinKeepAlive
    BY <1>21 DEF JoinKeepAlive
  <1>22. CASE ReturnFromStop
    BY <1>22 DEF ReturnFromStop
  <1>23. CASE DestroyGatewayList
    BY <1>23 DEF DestroyGatewayList
  <1>24. CASE DestroyDevice
    BY <1>24 DEF DestroyDevice
  <1>25. CASE SigintFirst
    BY <1>25 DEF SigintFirst
  <1>26. CASE SigintInDestructor
    BY <1>26 DEF SigintInDestructor
  <1>27. CASE SigintAgain
    BY <1>27 DEF SigintAgain
  <1> QED
    BY <1>1, <1>2, <1>3, <1>4, <1>5, <1>6, <1>7, <1>8, <1>9, <1>10, <1>11, <1>12, <1>13, <1>14, <1>15, <1>16, <1>17, <1>18, <1>19, <1>20, <1>21, <1>22, <1>23, <1>24, <1>25, <1>26, <1>27
       DEF MainStep, Launch, LaunchFailure, Stop, Finish, Signal

\* Main keeps the types of the gateways it launches, stops and joins.
LEMMA MainStepGatewayType ==
    ASSUME GatewayTypeOK, MainStep \/ DurationExpires \/ LaunchFailure \/ Signal
    PROVE  GatewayTypeOK'
  <1>0. CASE UNCHANGED gatewayVars
    BY <1>0, GatewayFrame
  <1>1. CASE LaunchKeepAlive
    BY <1>1
       DEF LaunchKeepAlive, GatewayTypeOK, pullVars, netVars, chanVars, KeepAlivePcs, PullPcs,
           Finished, Ended, Joined
  <1>2. CASE LaunchPull
    BY <1>2
       DEF LaunchPull, GatewayTypeOK, pullVars, netVars, chanVars, KeepAlivePcs, PullPcs,
           Finished, Ended, Joined
  <1>3. CASE FlagGateway
    BY <1>3
       DEF FlagGateway, GatewayTypeOK, pullVars, netVars, chanVars, KeepAlivePcs, PullPcs,
           Finished, Ended, Joined
  <1>4. CASE CloseChannel
    BY <1>4
       DEF CloseChannel, GatewayTypeOK, pullVars, netVars, chanVars, KeepAlivePcs, PullPcs,
           Finished, Ended, Joined
  <1>5. CASE JoinPull
    BY <1>5
       DEF JoinPull, GatewayTypeOK, pullVars, netVars, chanVars, KeepAlivePcs, PullPcs,
           Finished, Ended, Joined
  <1>6. CASE JoinPullThrows
    BY <1>6
       DEF JoinPullThrows, GatewayTypeOK, pullVars, netVars, chanVars, KeepAlivePcs, PullPcs,
           Finished, Ended, Joined
  <1>7. CASE JoinKeepAlive
    BY <1>7
       DEF JoinKeepAlive, GatewayTypeOK, pullVars, netVars, chanVars, KeepAlivePcs, PullPcs,
           Finished, Ended, Joined
  <1> QED
    BY <1>0, <1>1, <1>2, <1>3, <1>4, <1>5, <1>6, <1>7
       DEF MainStep, Launch, LaunchFailure, Stop, Finish, Signal, unthreaded,
           InitSucceeds, OpenSockets, LaunchUplink, LaunchDownlink,
           DurationExpires, InitThrows, SocketFails, LaunchThrows,
           StopIgnored, StopBegins, FlagDevice, JoinUplink,
           JoinDownlink, JoinDownlinkThrows, ReturnFromStop, DestroyGatewayList,
           DestroyDevice, SigintFirst, SigintInDestructor, SigintAgain

\* Main keeps the types of the devices it launches, stops and joins.
LEMMA MainStepDeviceType ==
    ASSUME DeviceTypeOK, MainStep \/ DurationExpires \/ LaunchFailure \/ Signal
    PROVE  DeviceTypeOK'
  <1>0. CASE UNCHANGED deviceVars
    BY <1>0, DeviceFrame
  <1>1. CASE LaunchUplink
    BY <1>1
       DEF LaunchUplink, DeviceTypeOK, upVars, downVars, UpPcs, DownPcs,
           Finished, Ended, Joined
  <1>2. CASE LaunchDownlink
    BY <1>2
       DEF LaunchDownlink, DeviceTypeOK, upVars, downVars, UpPcs, DownPcs,
           Finished, Ended, Joined
  <1>3. CASE FlagDevice
    BY <1>3
       DEF FlagDevice, DeviceTypeOK, upVars, downVars, UpPcs, DownPcs,
           Finished, Ended, Joined
  <1>4. CASE JoinUplink
    BY <1>4
       DEF JoinUplink, DeviceTypeOK, upVars, downVars, UpPcs, DownPcs,
           Finished, Ended, Joined
  <1>5. CASE JoinDownlink
    BY <1>5
       DEF JoinDownlink, DeviceTypeOK, upVars, downVars, UpPcs, DownPcs,
           Finished, Ended, Joined
  <1>6. CASE JoinDownlinkThrows
    BY <1>6
       DEF JoinDownlinkThrows, DeviceTypeOK, upVars, downVars, UpPcs, DownPcs,
           Finished, Ended, Joined
  <1> QED
    BY <1>0, <1>1, <1>2, <1>3, <1>4, <1>5, <1>6
       DEF MainStep, Launch, LaunchFailure, Stop, Finish, Signal, unthreaded,
           InitSucceeds, OpenSockets, LaunchKeepAlive, LaunchPull,
           DurationExpires, InitThrows, SocketFails, LaunchThrows,
           StopIgnored, StopBegins, FlagGateway, CloseChannel,
           JoinPull, JoinPullThrows, JoinKeepAlive, ReturnFromStop,
           DestroyGatewayList, DestroyDevice, SigintFirst, SigintInDestructor,
           SigintAgain

\* The threads of a gateway keep the types of the gateways.
LEMMA GatewayThreadType ==
    ASSUME GatewayTypeOK, NEW g \in Gateways, GatewayStep(g) \/ ServerSend(g)
    PROVE  GatewayTypeOK'
  <1> USE DEF GatewayTypeOK, pullVars, netVars, chanVars, Finished, Ended, KeepAlivePcs, PullPcs
  <1>1. CASE KeepAliveEnd(g)
    BY <1>1 DEF KeepAliveEnd
  <1>2. CASE PullCheck(g)
    BY <1>2 DEF PullCheck
  <1>3. CASE PullTimeout(g)
    BY <1>3 DEF PullTimeout
  <1>4. CASE PullReceive(g)
    <2>1. Head(inbox[g]) \in Packets /\ Tail(inbox[g]) \in Seq(Packets)
      BY <1>4, HeadTailProperties DEF PullReceive
    <2>2. inbox' \in [Gateways -> Seq(Packets)]
      BY <1>4, <2>1 DEF PullReceive
    <2>3. pulled' \in [Gateways -> Frames] /\ todo' \in [Gateways -> SUBSET Devices]
      <3> DEFINE packet == Head(inbox[g])
      <3>1. packet \in PullResp => packet.frame \in Frames
        BY DEF PullResp
      <3>2. Attached(g) \in SUBSET Devices
        BY DEF Attached
      <3>3. \/ UNCHANGED <<pulled, todo>>
            \/ /\ packet \in PullResp
               /\ pulled' = [pulled EXCEPT ![g] = packet.frame]
               /\ todo' = [todo EXCEPT ![g] = Attached(g)]
        BY <1>4 DEF PullReceive
      <3> HIDE DEF packet
      <3> QED
        BY <3>1, <3>2, <3>3
    <2>4. pullPc' \in [Gateways -> Finished \union PullPcs]
      BY <1>4 DEF PullReceive
    <2> QED
      BY <1>4, <2>2, <2>3, <2>4 DEF PullReceive
  <1>5. CASE PullTxAck(g)
    BY <1>5 DEF PullTxAck
  <1>6. ASSUME NEW d \in Devices, PullPut(g, d)
        PROVE  GatewayTypeOK'
    <2>1. queue' \in [Devices -> Seq(Frames)]
      BY <1>6, AppendProperties DEF PullPut
    <2> QED
      BY <1>6, <2>1 DEF PullPut
  <1>7. ASSUME NEW d \in Devices, PullPutThrows(g, d)
        PROVE  GatewayTypeOK'
    BY <1>7 DEF PullPutThrows
  <1>8. CASE ServerSend(g)
    <2>1. inbox' \in [Gateways -> Seq(Packets)]
      BY <1>8, AppendProperties DEF ServerSend
    <2> QED
      BY <1>8, <2>1 DEF ServerSend
  <1> QED
    BY <1>1, <1>2, <1>3, <1>4, <1>5, <1>6, <1>7, <1>8 DEF GatewayStep, PullStep

\* The gateway an uplink thread is at is one of the gateways.
LEMMA AtGateway == \A d \in Devices : DeviceTypeOK => At(d) \in Gateways
  <1> SUFFICES ASSUME NEW d \in Devices, DeviceTypeOK PROVE At(d) \in Gateways
    OBVIOUS
  <1>1. Route[d] \in Seq(Gateways) /\ hop[d] \in DOMAIN Route[d]
    BY TopologyAssumption DEF DeviceTypeOK
  <1> QED
    BY <1>1, LenProperties, ElementOfSeq DEF At

\* The threads of a device keep the types of the gateways and the devices.
LEMMA DeviceThreadType ==
    ASSUME GatewayTypeOK, DeviceTypeOK, NEW d \in Devices, UplinkStep(d) \/ DownlinkStep(d)
    PROVE  GatewayTypeOK' /\ DeviceTypeOK'
  <1> USE DEF DeviceTypeOK, upVars, downVars, Finished, Ended, UpPcs, DownPcs
  <1>1. CASE UplinkRound(d)
    <2>1. (fCntUp[d] + 1) % W32 \in 0..(W32 - 1)
      BY FrameAssumption
    <2>2. 1 \in DOMAIN Route[d]
      BY TopologyAssumption, EmptySeq, LenProperties
    <2>3. fCntUp' \in [Devices -> 0..(W32 - 1)] /\ hop' \in [Devices -> Nat \ {0}]
      BY <1>1, <2>1 DEF UplinkRound
    <2>4. \A e \in Devices : hop'[e] \in DOMAIN Route[e]
      BY <1>1, <2>2 DEF UplinkRound
    <2> QED
      BY <1>1, <2>3, <2>4, GatewayFrame DEF UplinkRound
  <1>2. CASE PushLock(d)
    BY <1>2, AtGateway DEF PushLock, GatewayTypeOK, pullVars, netVars, chanVars
  <1>3. CASE PushCheck(d)
    BY <1>3, GatewayFrame DEF PushCheck
  <1>4. CASE PushSend(d)
    <2>1. latePushes' \in [Gateways -> Nat]
      BY <1>4, AtGateway DEF PushSend
    <2> QED
      BY <1>4, <2>1, GatewayFrame DEF PushSend
  <1>5. CASE PushReturn(d)
    <2>1. Route[d] \in Seq(Gateways) /\ DOMAIN Route[d] = 1..Len(Route[d]) /\ Len(Route[d]) \in Nat
      BY TopologyAssumption, LenProperties
    <2>2. hop' \in [Devices -> Nat \ {0}] /\ \A e \in Devices : hop'[e] \in DOMAIN Route[e]
      <3>1. CASE hop[d] < Len(Route[d])
        <4>1. hop' = [hop EXCEPT ![d] = hop[d] + 1]
          BY <1>5, <3>1 DEF PushReturn
        <4>2. hop[d] + 1 \in DOMAIN Route[d] /\ hop[d] + 1 \in Nat \ {0}
          BY <2>1, <3>1
        <4> QED
          BY <4>1, <4>2
      <3>2. CASE ~(hop[d] < Len(Route[d]))
        BY <1>5, <3>2 DEF PushReturn
      <3> QED
        BY <3>1, <3>2
    <2>3. GatewayTypeOK'
      BY <1>5 DEF PushReturn, GatewayTypeOK, pullVars, netVars, chanVars
    <2> QED
      BY <1>5, <2>2, <2>3 DEF PushReturn
  <1>6. CASE DownlinkCheck(d)
    BY <1>6, GatewayFrame DEF DownlinkCheck
  <1>7. CASE DownlinkGetClosed(d)
    BY <1>7, GatewayFrame DEF DownlinkGetClosed
  <1>8. CASE DownlinkGet(d)
    <2>1. Head(queue[d]) \in Frames /\ Tail(queue[d]) \in Seq(Frames)
      BY <1>8, HeadTailProperties DEF DownlinkGet, GatewayTypeOK
    <2>2. GatewayTypeOK'
      BY <1>8, <2>1 DEF DownlinkGet, GatewayTypeOK, pullVars, netVars
    <2>3. NewFCntDown(fCntDown[d], Head(queue[d]).fCnt) \in 0..(W32 - 1)
      <3>1. Head(queue[d]).fCnt \in Nat /\ fCntDown[d] \in Nat
        <4>1. Head(queue[d]) \in [mType : 0..7, wellFormed : BOOLEAN, to : Devices, fCnt : Nat]
          BY <2>1, FrameAssumption
        <4>2. fCntDown[d] \in 0..(W32 - 1) /\ W32 \in Nat
          BY FrameAssumption
        <4> QED
          BY <4>1, <4>2
      <3>2. /\ W16 \in Nat \ {0} /\ W32 \in Nat \ {0}
            /\ Head(queue[d]).fCnt % W16 \in Int /\ fCntDown[d] % W16 \in Int
        BY <3>1, FrameAssumption
      <3> QED
        BY <3>1, <3>2 DEF NewFCntDown
    <2>4. fCntDown' \in [Devices -> 0..(W32 - 1)] /\ handled' \in [Devices -> SUBSET Frames]
      <3> DEFINE frame == Head(queue[d])
      <3>1. \/ UNCHANGED <<fCntDown, handled>>
            \/ /\ fCntDown' = [fCntDown EXCEPT ![d] = NewFCntDown(fCntDown[d], frame.fCnt)]
               /\ handled' = [handled EXCEPT ![d] = handled[d] \union {frame}]
        BY <1>8 DEF DownlinkGet
      <3> HIDE DEF frame
      <3>2. frame \in Frames /\ NewFCntDown(fCntDown[d], frame.fCnt) \in 0..(W32 - 1)
        BY <2>1, <2>3 DEF frame
      <3> QED
        BY <3>1, <3>2
    <2>5. lateGets' \in [Devices -> Nat]
      BY <1>8 DEF DownlinkGet
    <2>6. downPc' \in [Devices -> Finished \union DownPcs]
      BY <1>8 DEF DownlinkGet
    <2> QED
      BY <1>8, <2>2, <2>4, <2>5, <2>6 DEF DownlinkGet
  <1> QED
    BY <1>1, <1>2, <1>3, <1>4, <1>5, <1>6, <1>7, <1>8 DEF UplinkStep, DownlinkStep

\* Every variable keeps its type; in particular the hop of an uplink thread
\* stays within the route of its device, and the counters within 32 bits.
THEOREM TypeCorrect == Spec => []TypeOK
  <1>1. TypeOK /\ [Next]_vars => TypeOK'
    <2> SUFFICES ASSUME TypeOK, [Next]_vars PROVE TypeOK'
      OBVIOUS
    <2>0. GatewayTypeOK /\ DeviceTypeOK /\ MainTypeOK
      BY TypeParts
    <2>1. CASE MainStep \/ DurationExpires \/ LaunchFailure \/ Signal
      BY <2>0, <2>1, MainStepMainType, MainStepGatewayType, MainStepDeviceType
         DEF TypeOK, MainTypeOK
    <2>2. ASSUME NEW g \in Gateways, GatewayThread(g) \/ Server(g)
          PROVE  TypeOK'
      <3>1. GatewayTypeOK'
        BY <2>0, <2>2, GatewayThreadType DEF GatewayThread, Server
      <3>2. DeviceTypeOK' /\ MainTypeOK'
        BY <2>0, <2>2, DeviceFrame, MainFrame DEF GatewayThread, Server
      <3> QED
        BY <3>1, <3>2 DEF TypeOK, MainTypeOK
    <2>3. ASSUME NEW d \in Devices, UplinkThread(d) \/ DownlinkThread(d)
          PROVE  TypeOK'
      <3>1. GatewayTypeOK' /\ DeviceTypeOK'
        BY <2>0, <2>3, DeviceThreadType DEF UplinkThread, DownlinkThread
      <3>2. MainTypeOK'
        BY <2>0, <2>3, MainFrame DEF UplinkThread, DownlinkThread
      <3> QED
        BY <3>1, <3>2 DEF TypeOK, MainTypeOK
    <2>4. CASE UNCHANGED vars
      BY <2>0, <2>4, GatewayFrame, DeviceFrame, MainFrame DEF vars, TypeOK, MainTypeOK
    <2> QED
      BY <2>1, <2>2, <2>3, <2>4 DEF Next, Exited
  <1> QED
    BY TypeInit, <1>1, PTL DEF Spec

-----------------------------------------------------------------------------
(* The uplink threads, the push mutexes and the stop flags of the gateways. *)

\* An uplink thread is launched once: main never meets it again.
LaunchedOnce ==
    /\ mainPc \in {"init", "open", "launch_ka", "launch_pull"} =>
            \A d \in Devices : upPc[d] = "none"
    /\ mainPc = "launch_up" => \A d \in Devices : d >= idx => upPc[d] = "none"
    /\ mainPc = "launch_down" => \A d \in Devices : d > idx => upPc[d] = "none"

\* No gateway has sent anything late before it was stopped, nor while a
\* thread that read its flag has still to send.
LatePushes ==
    /\ \A g \in Gateways : latePushes[g] <= 1
    /\ \A g \in Gateways : ~gwStopped[g] => latePushes[g] = 0
    /\ \A d \in Devices : upPc[d] = "send" => latePushes[At(d)] = 0

UplinkInv == LaunchedOnce /\ PushMutex /\ LatePushes

\* The invariant of the push mutexes holds initially.
LEMMA UplinkInit == Init => UplinkInv
  <1> SUFFICES ASSUME Init PROVE UplinkInv
    OBVIOUS
  <1>1. /\ \A d \in Devices : upPc[d] = "none"
        /\ \A g \in Gateways : pushOwner[g] = 0 /\ latePushes[g] = 0
    BY DEF Init, GatewayInit, DeviceInit
  <1> QED
    BY <1>1 DEF UplinkInv, LaunchedOnce, PushMutex, LatePushes, Inside, Devices

\* What any step but those on upPc leaves to be checked.
LEMMA UplinkFrame ==
    ASSUME PushMutex, LatePushes, UNCHANGED <<upVars, pushOwner>>,
           \A g \in Gateways : gwStopped[g] => gwStopped'[g]
    PROVE  PushMutex' /\ LatePushes'
  BY DEF PushMutex, LatePushes, Inside, At, upVars

\* Main keeps it: it launches an uplink thread once, outside every mutex.
LEMMA UplinkMain ==
    ASSUME TypeOK, UplinkInv, MainStep \/ DurationExpires \/ LaunchFailure \/ Signal
    PROVE  UplinkInv'
  <1> USE TypeParts DEF UplinkInv
  <1>1. CASE LaunchUplink
    <2>1. /\ upPc' = [upPc EXCEPT ![idx] = "sleep"] /\ mainPc' = "launch_down" /\ idx' = idx
          /\ UNCHANGED <<hop, pushOwner, latePushes, gwStopped>>
      BY <1>1 DEF LaunchUplink, Continue, gatewayVars
    <2>2. idx \in Nat /\ upPc \in [Devices -> Finished \union UpPcs] /\ Devices \subseteq Nat
      BY DEF MainTypeOK, DeviceTypeOK, Devices
    <2>3. \A d \in Devices : d >= idx => upPc[d] = "none"
      BY <1>1 DEF LaunchUplink, LaunchedOnce
    <2>4. LaunchedOnce'
      BY <2>1, <2>2, <2>3 DEF LaunchedOnce
    <2>5. /\ \A d \in Devices : Inside(d)' <=> Inside(d)
          /\ \A d \in Devices : upPc'[d] = "send" <=> upPc[d] = "send"
      BY <2>1, <2>2, <2>3 DEF Inside
    <2> QED
      BY <2>1, <2>4, <2>5 DEF PushMutex, LatePushes, At
  <1>2. CASE JoinUplink
    <2>1. /\ upPc[idx] \in {"none", "ready"} /\ upPc' = [upPc EXCEPT ![idx] = Joined(upPc[idx])]
          /\ mainPc' = "join_down" /\ UNCHANGED <<hop, pushOwner, latePushes, gwStopped>>
      BY <1>2 DEF JoinUplink, Continue, gatewayVars
    <2>2. upPc \in [Devices -> Finished \union UpPcs]
      BY DEF DeviceTypeOK
    <2>3. /\ \A d \in Devices : Inside(d)' <=> Inside(d)
          /\ \A d \in Devices : upPc'[d] = "send" <=> upPc[d] = "send"
      BY <2>1, <2>2 DEF Inside, Joined
    <2> QED
      BY <2>1, <2>3 DEF PushMutex, LatePushes, At, LaunchedOnce
  <1>3. CASE ~LaunchUplink /\ ~JoinUplink
    <2>1. UNCHANGED <<upVars, pushOwner>>
      BY <1>3
         DEF MainStep, Launch, LaunchFailure, Stop, Finish, Signal, unthreaded, gatewayVars,
           deviceVars, upVars, InitSucceeds, OpenSockets, LaunchKeepAlive, LaunchPull,
           LaunchDownlink, DurationExpires, InitThrows, SocketFails,
           LaunchThrows, StopIgnored, StopBegins, FlagDevice,
           FlagGateway, CloseChannel, JoinDownlink, JoinDownlinkThrows,
           JoinPull, JoinPullThrows, JoinKeepAlive, ReturnFromStop,
           DestroyGatewayList, DestroyDevice, SigintFirst, SigintInDestructor,
           SigintAgain
    <2>2. \A g \in Gateways : gwStopped[g] => gwStopped'[g]
      <3>1. CASE FlagGateway
        BY <3>1 DEF FlagGateway, GatewayTypeOK
      <3>2. CASE ~FlagGateway
        <4>1. UNCHANGED gwStopped
          BY <1>3, <3>2
             DEF MainStep, Launch, LaunchFailure, Stop, Finish, Signal, unthreaded, gatewayVars,
               deviceVars, InitSucceeds, OpenSockets, LaunchKeepAlive, LaunchPull,
           LaunchDownlink, DurationExpires, InitThrows, SocketFails,
           LaunchThrows, StopIgnored, StopBegins, FlagDevice,
           FlagGateway, CloseChannel, JoinDownlink, JoinDownlinkThrows,
           JoinPull, JoinPullThrows, JoinKeepAlive, ReturnFromStop,
           DestroyGatewayList, DestroyDevice, SigintFirst, SigintInDestructor,
           SigintAgain
        <4> QED
          BY <4>1
      <3> QED
        BY <3>1, <3>2
    <2>3. LaunchedOnce'
      <3> idx \in Nat
        BY DEF MainTypeOK
      <3>1. upPc' = upPc
        BY <2>1 DEF upVars
      <3> USE <3>1 DEF LaunchedOnce, Devices, Goto, Continue, Loop, Exit, Throw
      <3>2. CASE LaunchPull
        BY <3>2 DEF LaunchPull
      <3>3. CASE LaunchDownlink
        BY <3>3 DEF LaunchDownlink
      <3>4. CASE InitSucceeds \/ OpenSockets \/ LaunchKeepAlive
        BY <3>4 DEF InitSucceeds, OpenSockets, LaunchKeepAlive
      <3>5. CASE ~LaunchPull /\ ~LaunchDownlink /\ ~InitSucceeds /\ ~OpenSockets /\ ~LaunchKeepAlive
        <4>1. mainPc' \notin {"init", "open", "launch_ka", "launch_pull", "launch_up", "launch_down"}
          BY <1>3, <3>5
             DEF MainStep, Launch, LaunchFailure, Stop, Finish, Signal, InitSucceeds, OpenSockets, LaunchKeepAlive, LaunchPull,
           LaunchDownlink, DurationExpires, InitThrows, SocketFails,
           LaunchThrows, StopIgnored, StopBegins, FlagDevice,
           FlagGateway, CloseChannel, JoinDownlink, JoinDownlinkThrows,
           JoinPull, JoinPullThrows, JoinKeepAlive, ReturnFromStop,
           DestroyGatewayList, DestroyDevice, SigintFirst, SigintInDestructor,
           SigintAgain
        <4> QED
          BY <4>1
      <3> QED
        BY <3>2, <3>3, <3>4, <3>5
    <2> QED
      BY <2>1, <2>2, <2>3, UplinkFrame
  <1> QED
    BY <1>1, <1>2, <1>3

\* The uplink threads keep it, each step of send_uplink_frame.
LEMMA UplinkUser ==
    ASSUME TypeOK, UplinkInv, NEW d \in Devices, UplinkStep(d), UNCHANGED mainVars
    PROVE  UplinkInv'
  <1> USE TypeParts DEF UplinkInv
  <1>0. /\ upPc \in [Devices -> Finished \union UpPcs]
        /\ pushOwner \in [Gateways -> Devices \union {0}]
        /\ latePushes \in [Gateways -> Nat]
        /\ hop \in [Devices -> Nat \ {0}]
        /\ \A e \in Devices : At(e) \in Gateways
        /\ 0 \notin Devices
    <2>1. \A e \in Devices : At(e) \in Gateways
      BY AtGateway
    <2>2. 0 \notin Devices
      BY DEF Devices
    <2> QED
      BY <2>1, <2>2 DEF DeviceTypeOK, GatewayTypeOK
  <1>1. LaunchedOnce'
    <2>1. upPc[d] # "none" /\ \A e \in Devices : e # d => upPc'[e] = upPc[e]
      BY <1>0 DEF UplinkStep, UplinkRound, PushLock, PushCheck, PushSend, PushReturn
    <2> QED
      BY <2>1 DEF LaunchedOnce, mainVars
  <1>2. \A e \in Devices : e # d => At(e)' = At(e) /\ upPc'[e] = upPc[e]
    BY <1>0 DEF UplinkStep, UplinkRound, PushLock, PushCheck, PushSend, PushReturn, At
  <1>3. UNCHANGED gwStopped
    BY DEF UplinkStep, UplinkRound, PushLock, PushCheck, PushSend, PushReturn, gatewayVars
  <1>4. CASE UplinkRound(d)
    <2>1. /\ ~Inside(d) /\ ~Inside(d)' /\ upPc'[d] # "send"
          /\ UNCHANGED <<pushOwner, latePushes>>
      BY <1>0, <1>4 DEF UplinkRound, Inside, gatewayVars
    <2> QED
      BY <1>1, <1>2, <1>3, <2>1 DEF PushMutex, LatePushes, Inside
  <1>5. CASE PushLock(d)
    <2>1. /\ pushOwner[At(d)] = 0 /\ pushOwner' = [pushOwner EXCEPT ![At(d)] = d]
          /\ ~Inside(d) /\ Inside(d)' /\ upPc'[d] # "send" /\ At(d)' = At(d)
          /\ UNCHANGED latePushes
      BY <1>0, <1>5 DEF PushLock, Inside, At
    <2>2. PushMutex'
      BY <1>0, <1>2, <2>1 DEF PushMutex, Inside
    <2> QED
      BY <1>1, <1>2, <1>3, <2>1, <2>2 DEF LatePushes
  <1>6. CASE PushCheck(d)
    <2>1. /\ Inside(d) /\ Inside(d)' /\ At(d)' = At(d) /\ ~gwStopped[At(d)]
          /\ UNCHANGED <<pushOwner, latePushes>>
      BY <1>0, <1>6 DEF PushCheck, Inside, At, gatewayVars
    <2>2. PushMutex'
      BY <1>0, <1>2, <2>1 DEF PushMutex, Inside
    <2>3. LatePushes'
      BY <1>0, <1>2, <1>3, <2>1 DEF LatePushes
    <2> QED
      BY <1>1, <2>2, <2>3
  <1>7. CASE PushSend(d)
    <2>1. /\ Inside(d) /\ Inside(d)' /\ At(d)' = At(d)
          /\ upPc[d] = "send" /\ upPc'[d] = "await"
          /\ UNCHANGED pushOwner
          /\ latePushes' = [latePushes EXCEPT ![At(d)] =
                                latePushes[At(d)] + (IF gwStopped[At(d)] THEN 1 ELSE 0)]
      BY <1>0, <1>7 DEF PushSend, Inside, At, gatewayVars
    <2>2. PushMutex'
      BY <1>0, <1>2, <2>1 DEF PushMutex, Inside
    <2>3. latePushes[At(d)] = 0
      BY <2>1 DEF LatePushes
    \* Nobody else is about to send through the same gateway: d holds its mutex.
    <2>4. \A e \in Devices : e # d /\ upPc[e] = "send" => At(e) # At(d)
      BY <1>0, <2>1 DEF PushMutex, Inside
    <2>5. LatePushes'
      <3>1. \A g \in Gateways : latePushes'[g] <= 1 /\ (~gwStopped'[g] => latePushes'[g] = 0)
        BY <1>0, <1>3, <2>1, <2>3 DEF LatePushes
      <3>2. \A e \in Devices : upPc'[e] = "send" => latePushes'[At(e)'] = 0
        BY <1>0, <1>2, <2>1, <2>4 DEF LatePushes
      <3> QED
        BY <3>1, <3>2 DEF LatePushes, At
    <2> QED
      BY <1>1, <2>2, <2>5
  <1>8. CASE PushReturn(d)
    <2>1. /\ Inside(d) /\ ~Inside(d)' /\ upPc'[d] # "send"
          /\ pushOwner' = [pushOwner EXCEPT ![At(d)] = 0]
          /\ UNCHANGED latePushes
      BY <1>0, <1>8 DEF PushReturn, Inside
    <2>2. PushMutex'
      BY <1>0, <1>2, <2>1 DEF PushMutex, Inside
    <2> QED
      BY <1>1, <1>2, <1>3, <2>1, <2>2 DEF LatePushes
  <1> QED
    BY <1>4, <1>5, <1>6, <1>7, <1>8 DEF UplinkStep

\* The push mutex excludes, no uplink thread waits for one while it holds
\* another, and a stopped gateway sends at most once more.
THEOREM UplinkCorrect == Spec => []UplinkInv
  <1>1. UplinkInv /\ TypeOK /\ [Next]_vars => UplinkInv'
    <2> SUFFICES ASSUME UplinkInv, TypeOK, [Next]_vars PROVE UplinkInv'
      OBVIOUS
    <2>1. CASE MainStep \/ DurationExpires \/ LaunchFailure \/ Signal
      BY <2>1, UplinkMain
    <2>2. ASSUME NEW d \in Devices, UplinkThread(d)
          PROVE  UplinkInv'
      BY <2>2, UplinkUser DEF UplinkThread
    <2>3. ASSUME UNCHANGED <<upVars, pushOwner, gwStopped, mainVars>>
          PROVE  UplinkInv'
      BY <2>3, UplinkFrame DEF UplinkInv, LaunchedOnce, upVars, mainVars
    <2>4. ASSUME NEW g \in Gateways, GatewayThread(g) \/ Server(g)
          PROVE  UNCHANGED <<upVars, pushOwner, gwStopped, mainVars>>
      BY <2>4 DEF GatewayThread, Server, GatewayStep, PullStep, KeepAliveEnd, PullCheck,
           PullTimeout, PullReceive, PullPut, PullPutThrows, PullTxAck, ServerSend, deviceVars
    <2>5. ASSUME NEW d \in Devices, DownlinkThread(d)
          PROVE  UNCHANGED <<upVars, pushOwner, gwStopped, mainVars>>
      BY <2>5 DEF DownlinkThread, DownlinkStep, DownlinkCheck, DownlinkGetClosed, DownlinkGet,
           gatewayVars
    <2>6. CASE UNCHANGED vars
      BY <2>3, <2>6 DEF vars, gatewayVars, deviceVars
    <2> QED
      BY <2>1, <2>2, <2>3, <2>4, <2>5, <2>6 DEF Next, Exited
  <1> QED
    BY TypeCorrect, UplinkInit, <1>1, PTL DEF Spec

\* Once stopped, a gateway sends at most one more PUSH_DATA.
THEOREM OnePushCorrect == Spec => []OnePushAfterStop
  <1>1. UplinkInv => OnePushAfterStop
    BY DEF UplinkInv, LatePushes, OnePushAfterStop
  <1> QED
    BY UplinkCorrect, <1>1, PTL

\* Devices cannot block each other on the push mutexes, whatever the order of
\* the gateways in their routes.
THEOREM NoLockCycle == Spec => []WaitsHoldingNothing
  <1>1. UplinkInv => WaitsHoldingNothing
    BY DEF UplinkInv, PushMutex, Inside, WaitsHoldingNothing
  <1> QED
    BY UplinkCorrect, <1>1, PTL

-----------------------------------------------------------------------------
(* The downlink threads of the devices and the closing of their channels.  *)

\* A device that is inside get has got nothing since its channel was closed.
LateGets ==
    \A d \in Devices :
        /\ lateGets[d] <= 1
        /\ ~closed[d] => lateGets[d] = 0
        /\ downPc[d] = "get" => lateGets[d] = 0

\* Main keeps the bound on late gets, closing the channel being its one step
\* that matters.
LEMMA DownlinkMain ==
    ASSUME TypeOK, LateGets, MainStep \/ DurationExpires \/ LaunchFailure \/ Signal
    PROVE  LateGets'
  <1> USE TypeParts DEF LateGets
  <1>1. CASE CloseChannel
    <2>1. UNCHANGED <<lateGets, downPc>> /\ closed' = [closed EXCEPT ![idx] = TRUE]
      BY <1>1 DEF CloseChannel, deviceVars, downVars
    <2>2. \A d \in Devices : ~closed'[d] => ~closed[d]
      BY <2>1 DEF GatewayTypeOK
    <2> QED
      BY <2>1, <2>2
  <1>2. CASE LaunchDownlink \/ JoinDownlink \/ JoinDownlinkThrows
    <2>1. UNCHANGED <<lateGets, closed>>
      BY <1>2 DEF LaunchDownlink, JoinDownlink, JoinDownlinkThrows, gatewayVars, chanVars
    <2>2. \A d \in Devices : downPc'[d] = "get" => downPc[d] = "get"
      BY <1>2 DEF LaunchDownlink, JoinDownlink, JoinDownlinkThrows, Joined, DeviceTypeOK
    <2> QED
      BY <2>1, <2>2
  <1>3. CASE ~CloseChannel /\ ~LaunchDownlink /\ ~JoinDownlink /\ ~JoinDownlinkThrows
    <2>1. UNCHANGED <<lateGets, downPc, closed>>
      BY <1>3
         DEF MainStep, Launch, LaunchFailure, Stop, Finish, Signal, unthreaded, gatewayVars,
           deviceVars, chanVars, downVars, InitSucceeds, OpenSockets, LaunchKeepAlive, LaunchPull,
           LaunchUplink, DurationExpires, InitThrows, SocketFails,
           LaunchThrows, StopIgnored, StopBegins, FlagDevice,
           FlagGateway, JoinUplink, JoinPull, JoinPullThrows,
           JoinKeepAlive, ReturnFromStop, DestroyGatewayList, DestroyDevice,
           SigintFirst, SigintInDestructor, SigintAgain
    <2> QED
      BY <2>1
  <1> QED
    BY <1>1, <1>2, <1>3

\* The downlink threads keep it: each asks is_closed before it gets again.
LEMMA DownlinkUser ==
    ASSUME TypeOK, LateGets, NEW d \in Devices, DownlinkStep(d)
    PROVE  LateGets'
  <1> USE TypeParts DEF LateGets
  <1>0. /\ downPc \in [Devices -> Finished \union DownPcs]
        /\ lateGets \in [Devices -> Nat]
    BY DEF DeviceTypeOK
  <1>1. CASE DownlinkCheck(d)
    BY <1>0, <1>1 DEF DownlinkCheck, gatewayVars, chanVars
  <1>2. CASE DownlinkGetClosed(d)
    BY <1>0, <1>2 DEF DownlinkGetClosed, gatewayVars, chanVars
  <1>3. CASE DownlinkGet(d)
    <2>1. /\ downPc[d] = "get" /\ downPc'[d] # "get" /\ UNCHANGED closed
          /\ \A e \in Devices : e # d => downPc'[e] = downPc[e]
          /\ lateGets' = [lateGets EXCEPT ![d] = lateGets[d] + (IF closed[d] THEN 1 ELSE 0)]
      BY <1>0, <1>3 DEF DownlinkGet
    <2> QED
      BY <1>0, <2>1
  <1> QED
    BY <1>1, <1>2, <1>3 DEF DownlinkStep

\* A device gets at most one frame after its channel was closed.
THEOREM OneGetCorrect == Spec => []OneGetAfterClose
  <1>1. Init => LateGets
    BY DEF Init, DeviceInit, LateGets
  <1>2. LateGets /\ TypeOK /\ [Next]_vars => LateGets'
    <2> SUFFICES ASSUME LateGets, TypeOK, [Next]_vars PROVE LateGets'
      OBVIOUS
    <2>1. CASE MainStep \/ DurationExpires \/ LaunchFailure \/ Signal
      BY <2>1, DownlinkMain
    <2>2. ASSUME NEW d \in Devices, DownlinkThread(d)
          PROVE  LateGets'
      BY <2>2, DownlinkUser DEF DownlinkThread
    <2>3. ASSUME UNCHANGED <<downVars, closed>>
          PROVE  LateGets'
      BY <2>3 DEF LateGets, downVars
    <2>4. ASSUME NEW g \in Gateways, GatewayThread(g) \/ Server(g)
          PROVE  UNCHANGED <<downVars, closed>>
      BY <2>4 DEF GatewayThread, Server, GatewayStep, PullStep, KeepAliveEnd, PullCheck,
           PullTimeout, PullReceive, PullPut, PullPutThrows, PullTxAck, ServerSend, deviceVars,
           chanVars
    <2>5. ASSUME NEW d \in Devices, UplinkThread(d)
          PROVE  UNCHANGED <<downVars, closed>>
      BY <2>5 DEF UplinkThread, UplinkStep, UplinkRound, PushLock, PushCheck, PushSend,
           PushReturn, gatewayVars, chanVars
    <2>6. CASE UNCHANGED vars
      BY <2>3, <2>6 DEF vars, gatewayVars, deviceVars, chanVars
    <2> QED
      BY <2>1, <2>2, <2>3, <2>4, <2>5, <2>6 DEF Next, Exited
  <1>3. LateGets => OneGetAfterClose
    BY DEF LateGets, OneGetAfterClose
  <1> QED
    BY TypeCorrect, <1>1, <1>2, <1>3, PTL DEF Spec

-----------------------------------------------------------------------------
(* The downlink threads of the gateways and the closing of the channels.   *)

\* Main closes channels in stop only.
ClosedInStop ==
    /\ mainPc \in StopPcs => simStopped
    /\ \A d \in Devices : closed[d] => simStopped
    /\ PullFailsOnlyInStop

\* Main closes a channel only after it raised simulator::_stopped.
LEMMA ClosingMain ==
    ASSUME TypeOK, ClosedInStop, MainStep \/ DurationExpires \/ LaunchFailure \/ Signal
    PROVE  ClosedInStop'
  <1> USE TypeParts DEF ClosedInStop, PullFailsOnlyInStop, StopPcs
  <1>1. CASE StopBegins
    <2>1. simStopped'
      BY <1>1 DEF StopBegins
    <2> QED
      BY <2>1
  <1>2. CASE ~StopBegins
    <2>1. simStopped' = simStopped
      BY <1>2 DEF MainStep, Launch, LaunchFailure, Stop, Finish, Signal, InitSucceeds, OpenSockets, LaunchKeepAlive, LaunchPull,
           LaunchUplink, LaunchDownlink, DurationExpires, InitThrows,
           SocketFails, LaunchThrows, StopIgnored, FlagDevice,
           FlagGateway, CloseChannel, JoinUplink, JoinDownlink,
           JoinDownlinkThrows, JoinPull, JoinPullThrows, JoinKeepAlive,
           ReturnFromStop, DestroyGatewayList, DestroyDevice, SigintFirst,
           SigintInDestructor, SigintAgain
    <2>2. mainPc' \in StopPcs => mainPc \in StopPcs
      BY <1>2
         DEF MainStep, Launch, LaunchFailure, Stop, Finish, Signal, Goto, Continue, Loop, Exit,
           Throw, InitSucceeds, OpenSockets, LaunchKeepAlive, LaunchPull,
           LaunchUplink, LaunchDownlink, DurationExpires, InitThrows,
           SocketFails, LaunchThrows, StopIgnored, FlagDevice,
           FlagGateway, CloseChannel, JoinUplink, JoinDownlink,
           JoinDownlinkThrows, JoinPull, JoinPullThrows, JoinKeepAlive,
           ReturnFromStop, DestroyGatewayList, DestroyDevice, SigintFirst,
           SigintInDestructor, SigintAgain
    <2>3. \A d \in Devices : closed'[d] => simStopped
      <3>1. CASE CloseChannel
        BY <3>1 DEF CloseChannel
      <3>2. CASE ~CloseChannel
        <4>1. closed' = closed
          BY <1>2, <3>2
             DEF MainStep, Launch, LaunchFailure, Stop, Finish, Signal, unthreaded, gatewayVars,
               chanVars, InitSucceeds, OpenSockets, LaunchKeepAlive, LaunchPull,
           LaunchUplink, LaunchDownlink, DurationExpires, InitThrows,
           SocketFails, LaunchThrows, StopIgnored, FlagDevice,
           FlagGateway, CloseChannel, JoinUplink, JoinDownlink,
           JoinDownlinkThrows, JoinPull, JoinPullThrows, JoinKeepAlive,
           ReturnFromStop, DestroyGatewayList, DestroyDevice, SigintFirst,
           SigintInDestructor, SigintAgain
        <4> QED
          BY <4>1
      <3> QED
        BY <3>1, <3>2
    <2>4. \A g \in Gateways : pullPc'[g] \in {"failed", "rethrown"} => simStopped
      <3>1. CASE LaunchPull \/ JoinPull
        BY <3>1 DEF LaunchPull, JoinPull, Joined, GatewayTypeOK
      <3>2. CASE JoinPullThrows
        BY <3>2 DEF JoinPullThrows
      <3>3. CASE ~LaunchPull /\ ~JoinPull /\ ~JoinPullThrows
        <4>1. pullPc' = pullPc
          BY <1>2, <3>3
             DEF MainStep, Launch, LaunchFailure, Stop, Finish, Signal, unthreaded, gatewayVars,
               pullVars, InitSucceeds, OpenSockets, LaunchKeepAlive, LaunchPull,
           LaunchUplink, LaunchDownlink, DurationExpires, InitThrows,
           SocketFails, LaunchThrows, StopIgnored, FlagDevice,
           FlagGateway, CloseChannel, JoinUplink, JoinDownlink,
           JoinDownlinkThrows, JoinPull, JoinPullThrows, JoinKeepAlive,
           ReturnFromStop, DestroyGatewayList, DestroyDevice, SigintFirst,
           SigintInDestructor, SigintAgain
        <4> QED
          BY <4>1
      <3> QED
        BY <3>1, <3>2, <3>3
    <2> QED
      BY <2>1, <2>2, <2>3, <2>4
  <1> QED
    BY <1>1, <1>2

\* No gateway's downlink thread dies before the simulation is being stopped.
THEOREM PullFailsCorrect == Spec => []PullFailsOnlyInStop
  <1>1. Init => ClosedInStop
    BY DEF Init, GatewayInit, ClosedInStop, PullFailsOnlyInStop, StopPcs
  <1>2. ClosedInStop /\ TypeOK /\ [Next]_vars => ClosedInStop'
    <2> SUFFICES ASSUME ClosedInStop, TypeOK, [Next]_vars PROVE ClosedInStop'
      OBVIOUS
    <2>1. CASE MainStep \/ DurationExpires \/ LaunchFailure \/ Signal
      BY <2>1, ClosingMain
    <2>2. ASSUME NEW g \in Gateways, GatewayThread(g) \/ Server(g)
          PROVE  ClosedInStop'
      <3>1. UNCHANGED <<mainPc, simStopped, closed>>
        BY <2>2 DEF GatewayThread, Server, GatewayStep, PullStep, KeepAliveEnd, PullCheck,
             PullTimeout, PullReceive, PullPut, PullPutThrows, PullTxAck, ServerSend, mainVars,
             chanVars
      <3>2. \A h \in Gateways : pullPc'[h] \in {"failed", "rethrown"} =>
               pullPc[h] \in {"failed", "rethrown"} \/ \E d \in Devices : closed[d]
        BY <2>2, TypeParts
           DEF GatewayThread, Server, GatewayStep, PullStep, KeepAliveEnd, PullCheck,
             PullTimeout, PullReceive, PullPut, PullPutThrows, PullTxAck, ServerSend, pullVars,
             GatewayTypeOK
      <3> QED
        BY <3>1, <3>2 DEF ClosedInStop, PullFailsOnlyInStop
    <2>3. ASSUME UNCHANGED <<mainPc, simStopped, closed, pullPc>>
          PROVE  ClosedInStop'
      BY <2>3 DEF ClosedInStop, PullFailsOnlyInStop
    <2>4. ASSUME NEW d \in Devices, UplinkThread(d) \/ DownlinkThread(d)
          PROVE  UNCHANGED <<mainPc, simStopped, closed, pullPc>>
      BY <2>4 DEF UplinkThread, UplinkStep, UplinkRound, PushLock, PushCheck, PushSend,
           PushReturn, DownlinkThread, DownlinkStep, DownlinkCheck, DownlinkGetClosed,
           DownlinkGet, gatewayVars, chanVars, pullVars, mainVars
    <2>5. CASE UNCHANGED vars
      BY <2>3, <2>5 DEF vars, gatewayVars, chanVars, pullVars, mainVars
    <2> QED
      BY <2>1, <2>2, <2>3, <2>4, <2>5 DEF Next, Exited
  <1>3. ClosedInStop => PullFailsOnlyInStop
    BY DEF ClosedInStop
  <1> QED
    BY TypeCorrect, <1>1, <1>2, <1>3, PTL DEF Spec
=============================================================================
