--------------------------- MODULE TeardownProofs ---------------------------
(***************************************************************************)
(* Proofs about the end of a simulation (modules Simulator and Shutdown),  *)
(* for any topology, any set of frames, any number of datagrams and up to  *)
(* two SIGINTs: nothing runs when main returns, no gateway is used after   *)
(* it was destroyed, and the destructor meets a thread nobody told to end  *)
(* only when stop was cut short.  First, the downlink counter of a device. *)
(***************************************************************************)
EXTENDS ShutdownProofs

-----------------------------------------------------------------------------
(* The downlink counter.                                                   *)

\* A number below m is its own remainder.
LEMMA SmallMod == \A n, m \in Nat : n < m => n % m = n
  OBVIOUS

\* The counter of an accepted frame replaces a counter below 2^16.
LEMMA CounterReplaced ==
    ASSUME NEW old \in Nat, NEW n \in Nat, old < W16, n < W16
    PROVE  NewFCntDown(old, n) = n
  <1>1. /\ n % W16 = n /\ old % W16 = old /\ n % W32 = n
        /\ W16 \in Nat /\ W32 \in Nat
    BY SmallMod, FrameAssumption
  <1> QED
    BY <1>1 DEF NewFCntDown

\* A downlink thread keeps it: only a frame signed for the device, with a
\* counter that fits the wire, is accepted.
LEMMA CounterGet ==
    ASSUME TypeOK, CounterOfAcceptedFrame, NEW d \in Devices, DownlinkGet(d)
    PROVE  CounterOfAcceptedFrame'
  <1> DEFINE frame == Head(queue[d])
  <1>1. frame \in Frames
    BY HeadTailProperties DEF DownlinkGet, TypeOK, GatewayTypeOK
  <1>2. /\ fCntDown \in [Devices -> 0..(W32 - 1)] /\ handled \in [Devices -> SUBSET Frames]
        /\ frame.fCnt \in Nat /\ W16 \in Nat /\ fCntDown[d] \in Nat
    <2>1. frame \in [mType : 0..7, wellFormed : BOOLEAN, to : Devices, fCnt : Nat]
      BY <1>1, FrameAssumption
    <2>2. fCntDown \in [Devices -> 0..(W32 - 1)] /\ handled \in [Devices -> SUBSET Frames]
      BY DEF TypeOK, DeviceTypeOK
    <2> QED
      BY <2>1, <2>2, FrameAssumption
  <1>3. \/ UNCHANGED <<fCntDown, handled>>
        \/ /\ frame.to = d /\ frame.fCnt < W16
           /\ fCntDown' = [fCntDown EXCEPT ![d] = NewFCntDown(fCntDown[d], frame.fCnt)]
           /\ handled' = [handled EXCEPT ![d] = handled[d] \union {frame}]
    BY DEF DownlinkGet, MicValid
  <1> HIDE DEF frame
  <1>4. CASE UNCHANGED <<fCntDown, handled>>
    BY <1>4 DEF CounterOfAcceptedFrame
  <1>5. ASSUME frame.to = d, frame.fCnt < W16,
               fCntDown' = [fCntDown EXCEPT ![d] = NewFCntDown(fCntDown[d], frame.fCnt)],
               handled' = [handled EXCEPT ![d] = handled[d] \union {frame}]
        PROVE  CounterOfAcceptedFrame'
    <2>1. fCntDown'[d] = frame.fCnt
      BY <1>2, <1>5, CounterReplaced DEF CounterOfAcceptedFrame
    <2>2. handled'[d] = handled[d] \union {frame}
      BY <1>2, <1>5
    <2>3. \A e \in Devices : e # d => fCntDown'[e] = fCntDown[e] /\ handled'[e] = handled[e]
      BY <1>2, <1>5
    <2> QED
      BY <1>5, <2>1, <2>2, <2>3 DEF CounterOfAcceptedFrame
  <1> QED
    BY <1>3, <1>4, <1>5

\* Nothing else changes the counter or accepts a frame.
LEMMA CounterUntouched ==
    ASSUME TypeOK, [Next]_vars, \A d \in Devices : ~DownlinkGet(d)
    PROVE  UNCHANGED <<fCntDown, handled>>
  <1>1. CASE MainStep \/ DurationExpires \/ LaunchFailure \/ Signal
    BY <1>1
       DEF MainStep, Launch, LaunchFailure, Stop, Finish, Signal, unthreaded, deviceVars, downVars,
           InitSucceeds, OpenSockets, LaunchKeepAlive, LaunchPull, LaunchUplink, LaunchDownlink,
           DurationExpires, InitThrows, SocketFails, LaunchThrows, StopIgnored, StopBegins,
           FlagDevice, FlagGateway, CloseChannel, JoinUplink, JoinDownlink, JoinDownlinkThrows,
           JoinPull, JoinPullThrows, JoinKeepAlive, ReturnFromStop, DestroyGatewayList,
           DestroyDevice, SigintFirst, SigintInDestructor, SigintAgain
  <1>2. ASSUME NEW g \in Gateways, GatewayThread(g) \/ Server(g)
        PROVE  UNCHANGED <<fCntDown, handled>>
    BY <1>2 DEF GatewayThread, Server, deviceVars, downVars
  <1>3. ASSUME NEW d \in Devices, UplinkThread(d) \/ DownlinkThread(d)
        PROVE  UNCHANGED <<fCntDown, handled>>
    BY <1>3
       DEF UplinkThread, UplinkStep, UplinkRound, PushLock, PushCheck, PushSend, PushReturn,
           DownlinkThread, DownlinkStep, DownlinkCheck, DownlinkGetClosed, downVars
  <1>4. CASE UNCHANGED vars
    BY <1>4 DEF vars, deviceVars, downVars
  <1> QED
    BY <1>1, <1>2, <1>3, <1>4 DEF Next, Exited

\* The downlink counter of a device never leaves the low 16 bits and is the
\* counter of a frame it accepted (device.cpp:141-142).
THEOREM CounterCorrect == Spec => []CounterOfAcceptedFrame
  <1>1. Init => CounterOfAcceptedFrame
    <2>1. W16 \in Nat /\ 0 < W16
      BY FrameAssumption
    <2> QED
      BY <2>1 DEF Init, DeviceInit, CounterOfAcceptedFrame
  <1>2. TypeOK /\ CounterOfAcceptedFrame /\ [Next]_vars => CounterOfAcceptedFrame'
    <2>1. ASSUME CounterOfAcceptedFrame, UNCHANGED <<fCntDown, handled>>
          PROVE  CounterOfAcceptedFrame'
      BY <2>1 DEF CounterOfAcceptedFrame
    <2> QED
      BY <2>1, CounterGet, CounterUntouched
  <1> QED
    BY TypeCorrect, <1>1, <1>2, PTL DEF Spec

-----------------------------------------------------------------------------
(* What has ended stays so.                                                *)

Launching == LaunchKeepAlive \/ LaunchPull \/ LaunchUplink \/ LaunchDownlink

\* No thread that was not running runs now.
NoneStarted ==
    /\ \A g \in Gateways : /\ ~Running(kaPc[g]) => ~Running(kaPc'[g])
                           /\ ~Running(pullPc[g]) => ~Running(pullPc'[g])
    /\ \A d \in Devices : /\ ~Running(upPc[d]) => ~Running(upPc'[d])
                          /\ ~Running(downPc[d]) => ~Running(downPc'[d])

\* A step that leaves every thread where it is starts none.
LEMMA UntouchedThreads == UNCHANGED <<kaPc, pullPc, upPc, downPc>> => NoneStarted
  BY DEF NoneStarted

\* The threads themselves start no thread.
LEMMA ThreadsStartNone ==
    ASSUME TypeOK,
           \/ \E g \in Gateways : GatewayThread(g) \/ Server(g)
           \/ \E d \in Devices : UplinkThread(d) \/ DownlinkThread(d)
    PROVE  NoneStarted
  <1> USE TypeParts DEF NoneStarted, Running, Finished, Ended
  <1>1. ASSUME NEW g \in Gateways, GatewayThread(g) \/ Server(g)
        PROVE  NoneStarted
    <2>1. UNCHANGED <<upPc, downPc>>
      BY <1>1 DEF GatewayThread, Server, deviceVars, upVars, downVars
    <2>2. CASE KeepAliveEnd(g)
      BY <2>1, <2>2 DEF KeepAliveEnd, pullVars, GatewayTypeOK
    <2>3. CASE PullStep(g)
      BY <2>1, <2>3 DEF PullStep, PullCheck, PullTimeout, PullReceive, PullPut, PullPutThrows,
           PullTxAck, GatewayTypeOK
    <2>4. CASE Server(g)
      BY <2>1, <2>4 DEF Server, ServerSend, pullVars
    <2> QED
      BY <1>1, <2>2, <2>3, <2>4 DEF GatewayThread, GatewayStep
  <1>2. ASSUME NEW d \in Devices, UplinkThread(d)
        PROVE  NoneStarted
    BY <1>2 DEF UplinkThread, UplinkStep, UplinkRound, PushLock, PushCheck, PushSend, PushReturn,
         gatewayVars, pullVars, downVars, DeviceTypeOK
  <1>3. ASSUME NEW d \in Devices, DownlinkThread(d)
        PROVE  NoneStarted
    <2>1. UNCHANGED <<kaPc, pullPc, upPc>> /\ downPc[d] \in {"check", "get"}
      BY <1>3 DEF DownlinkThread, DownlinkStep, DownlinkCheck, DownlinkGetClosed, DownlinkGet,
           gatewayVars, pullVars, upVars
    <2>2. \A e \in Devices : e # d => downPc'[e] = downPc[e]
      BY <1>3 DEF DownlinkThread, DownlinkStep, DownlinkCheck, DownlinkGetClosed, DownlinkGet,
           DeviceTypeOK
    <2> QED
      BY <2>1, <2>2
  <1> QED
    BY <1>1, <1>2, <1>3

\* Main starts threads in gateway::run and device::run only: what stop joins
\* has ended.
LEMMA MainStartsNone ==
    ASSUME TypeOK, MainStep \/ DurationExpires \/ LaunchFailure \/ Signal, ~Launching
    PROVE  NoneStarted
  <1> USE TypeParts DEF NoneStarted, Running, Finished, Ended
  <1>1. CASE JoinUplink
    BY <1>1 DEF JoinUplink, Joined, DeviceTypeOK, gatewayVars, pullVars, downVars
  <1>2. CASE JoinDownlink
    BY <1>2 DEF JoinDownlink, Joined, DeviceTypeOK, gatewayVars, pullVars, upVars
  <1>3. CASE JoinDownlinkThrows
    BY <1>3 DEF JoinDownlinkThrows, DeviceTypeOK, gatewayVars, pullVars, upVars
  <1>4. CASE JoinPull
    BY <1>4 DEF JoinPull, Joined, GatewayTypeOK, deviceVars, upVars, downVars
  <1>5. CASE JoinPullThrows
    BY <1>5 DEF JoinPullThrows, GatewayTypeOK, deviceVars, upVars, downVars
  <1>6. CASE JoinKeepAlive
    BY <1>6 DEF JoinKeepAlive, Joined, GatewayTypeOK, pullVars, deviceVars, upVars, downVars
  <1>7. CASE ~(\/ JoinUplink \/ JoinDownlink \/ JoinDownlinkThrows
               \/ JoinPull \/ JoinPullThrows \/ JoinKeepAlive)
    <2>1. UNCHANGED <<kaPc, pullPc, upPc, downPc>>
      BY <1>7
         DEF Launching, MainStep, Launch, LaunchFailure, Stop, Finish, Signal, unthreaded,
             gatewayVars, deviceVars, pullVars, upVars, downVars, InitSucceeds, OpenSockets,
             DurationExpires, InitThrows, SocketFails, LaunchThrows, StopIgnored, StopBegins,
             FlagDevice, FlagGateway, CloseChannel, ReturnFromStop, DestroyGatewayList,
             DestroyDevice, SigintFirst, SigintInDestructor, SigintAgain
    <2> QED
      BY <2>1
  <1> QED
    BY <1>1, <1>2, <1>3, <1>4, <1>5, <1>6, <1>7

-----------------------------------------------------------------------------
(* The destruction of the simulator.                                       *)

\* The threads of the devices before the n-th have ended, and those of the
\* gateways that no later device uses.
QuietBefore(n) ==
    /\ \A d \in Devices : d < n => ~Running(upPc[d]) /\ ~Running(downPc[d])
    /\ \A g \in Gateways : (\A d \in Attached(g) : d < n) => GatewayQuiet(g)

\* Nobody can enter a gateway that was destroyed.
GoneQuiet ==
    \A g \in gwGone : GatewayQuiet(g) /\ \A d \in Attached(g) : ~Running(upPc[d])

\* How far the destructor has come is what it has waited for; main returns a
\* code only through it.
TeardownInv ==
    /\ mainPc \notin Destroying \union {"exited"} => exitCode = "none" /\ gwGone = {}
    /\ mainPc = "destroy_gw" => gwGone = {}
    /\ mainPc = "destroy_dev" => QuietBefore(idx)
    /\ mainPc = "exited" /\ exitCode \in {"success", "failure"} => QuietBefore(NDev + 1)
    /\ GoneQuiet

\* What was quiet stays so while no thread is started.
LEMMA QuietStays ==
    ASSUME TypeOK, NoneStarted
    PROVE  /\ \A n : QuietBefore(n) => QuietBefore(n)'
           /\ GoneQuiet /\ UNCHANGED gwGone => GoneQuiet'
  <1>1. \A g \in Gateways : GatewayQuiet(g) => GatewayQuiet(g)'
    BY DEF NoneStarted, GatewayQuiet, Running
  <1>2. \A d \in Devices : /\ ~Running(upPc[d]) => ~Running(upPc[d])'
                           /\ ~Running(downPc[d]) => ~Running(downPc[d])'
    BY DEF NoneStarted, Running
  <1>3. ASSUME NEW n, QuietBefore(n)
        PROVE  QuietBefore(n)'
    BY <1>1, <1>2, <1>3 DEF QuietBefore
  <1>4. GoneQuiet /\ UNCHANGED gwGone => GoneQuiet'
    <2>1. gwGone \subseteq Gateways /\ \A g : Attached(g) \subseteq Devices
      BY DEF TypeOK, Attached
    <2> QED
      BY <1>1, <1>2, <2>1 DEF GoneQuiet
  <1> QED
    BY <1>3, <1>4

\* The threads keep it.
LEMMA TeardownThreads ==
    ASSUME TypeOK, TeardownInv, NoneStarted, UNCHANGED mainVars
    PROVE  TeardownInv'
  <1>1. UNCHANGED <<mainPc, idx, exitCode, gwGone>>
    BY DEF mainVars
  <1>2. \A n : QuietBefore(n) => QuietBefore(n)'
    BY QuietStays
  <1>3. mainPc' = "destroy_dev" => QuietBefore(idx)'
    BY <1>1, <1>2 DEF TeardownInv, QuietBefore
  <1>4. mainPc' = "exited" /\ exitCode' \in {"success", "failure"} => QuietBefore(NDev + 1)'
    BY <1>1, <1>2 DEF TeardownInv
  <1> QED
    BY <1>1, <1>3, <1>4, QuietStays DEF TeardownInv

\* The destructor keeps it: it waits for the threads of one device after the
\* other, and for those of the gateways it releases.
LEMMA TeardownDestroys ==
    ASSUME TypeOK, TeardownInv, Finish
    PROVE  TeardownInv'
  <1> USE TypeParts
  <1>0. idx \in Nat /\ NDev \in Nat
    BY TopologyAssumption DEF MainTypeOK
  <1>1. CASE ReturnFromStop
    <2>1. mainPc' = "destroy_gw" /\ gwGone' = gwGone /\ gwGone = {}
      BY <1>1 DEF ReturnFromStop, Goto, TeardownInv, Destroying
    <2> QED
      BY <2>1 DEF TeardownInv, Destroying, GoneQuiet
  <1>2. CASE DestroyGatewayList
    <2> DEFINE unused == {g \in Gateways : Attached(g) = {}}
    <2>1. /\ mainPc' = "destroy_dev" /\ idx' = 1 /\ gwGone' = unused
          /\ \A g \in unused : GatewayQuiet(g)
          /\ UNCHANGED <<kaPc, pullPc, upPc, downPc>>
      BY <1>2 DEF DestroyGatewayList, Goto, TeardownInv, unthreaded, gatewayVars, pullVars,
           deviceVars, upVars, downVars
    <2>2. \A d \in Devices : ~(d < 1)
      BY DEF Devices
    <2>3. \A g \in Gateways : (\A d \in Attached(g) : d < 1) => g \in unused
      BY <2>2 DEF Attached
    <2>4. QuietBefore(idx)'
      BY <2>1, <2>2, <2>3 DEF QuietBefore, GatewayQuiet
    <2>5. GoneQuiet'
      BY <2>1 DEF GoneQuiet, GatewayQuiet
    <2> QED
      BY <2>1, <2>4, <2>5 DEF TeardownInv, Destroying
  <1>3. CASE DestroyDevice
    <2> DEFINE released == {g \in Gateways : LastUser(g, idx)}
    <2>1. /\ QuietBefore(idx) /\ GoneQuiet
          /\ ~Running(downPc[idx]) /\ ~Running(upPc[idx])
          /\ \A g \in released : GatewayQuiet(g)
          /\ gwGone' = gwGone \union released
          /\ UNCHANGED <<kaPc, pullPc, upPc, downPc>>
      BY <1>3 DEF DestroyDevice, TeardownInv, unthreaded, gatewayVars, pullVars, deviceVars,
           upVars, downVars
    <2>2. \A d \in Devices : d \in Nat /\ (d < idx + 1 <=> d < idx \/ d = idx)
      BY <1>0 DEF Devices
    <2>3. \A g : Attached(g) \subseteq Devices
      BY DEF Attached
    <2>4. QuietBefore(idx + 1)
      <3>1. ASSUME NEW g \in Gateways, \A d \in Attached(g) : d < idx + 1
            PROVE  GatewayQuiet(g)
        <4>1. CASE idx \in Attached(g)
          <5>1. \A d \in Attached(g) : d <= idx
            BY <1>0, <2>2, <2>3, <3>1
          <5> QED
            BY <2>1, <4>1, <5>1 DEF LastUser
        <4>2. CASE idx \notin Attached(g)
          BY <2>1, <2>2, <2>3, <3>1, <4>2 DEF QuietBefore
        <4> QED
          BY <4>1, <4>2
      <3> QED
        BY <2>1, <2>2, <3>1 DEF QuietBefore
    <2>5. GoneQuiet'
      <3>1. ASSUME NEW g \in released
            PROVE  \A d \in Attached(g) : ~Running(upPc[d])
        <4>1. \A d \in Attached(g) : d < idx + 1
          BY <1>0, <2>2, <2>3 DEF LastUser
        <4> QED
          BY <2>3, <2>4, <4>1 DEF QuietBefore
      <3> QED
        BY <2>1, <3>1 DEF GoneQuiet, GatewayQuiet
    <2>6. CASE idx < NDev
      <3>1. mainPc' = "destroy_dev" /\ idx' = idx + 1
        BY <1>3, <2>6 DEF DestroyDevice, Loop
      <3>2. QuietBefore(idx)'
        BY <2>1, <2>4, <3>1 DEF QuietBefore, GatewayQuiet
      <3> QED
        BY <2>5, <3>1, <3>2 DEF TeardownInv, Destroying
    <2>7. CASE ~(idx < NDev)
      <3>1. mainPc' = "exited"
        BY <1>3, <2>7 DEF DestroyDevice, Loop, Goto
      <3>2. \A d \in Devices : d < idx + 1
        BY <1>0, <2>7 DEF Devices
      <3>3. QuietBefore(NDev + 1)'
        BY <2>1, <2>3, <2>4, <3>2 DEF QuietBefore, GatewayQuiet
      <3> QED
        BY <2>5, <3>1, <3>3 DEF TeardownInv, Destroying
    <2> QED
      BY <2>6, <2>7
  <1> QED
    BY <1>1, <1>2, <1>3 DEF Finish

\* Whatever else main does, it goes where nothing is destroyed, or the process
\* ends with another code.
LEMMA TeardownMain ==
    ASSUME TypeOK, TeardownInv, Launch \/ Stop \/ DurationExpires \/ LaunchFailure \/ Signal
    PROVE  TeardownInv'
  <1>1. gwGone' = gwGone
    BY DEF Launch, LaunchFailure, Stop, Signal, InitSucceeds, OpenSockets,
        LaunchKeepAlive, LaunchPull, LaunchUplink, LaunchDownlink, DurationExpires, InitThrows,
        SocketFails, LaunchThrows, StopIgnored, StopBegins, FlagDevice, FlagGateway, CloseChannel,
        JoinUplink, JoinDownlink, JoinDownlinkThrows, JoinPull, JoinPullThrows, JoinKeepAlive,
        SigintFirst, SigintInDestructor, SigintAgain
  <1>2. \/ /\ mainPc \notin Destroying \union {"exited"}
           /\ mainPc' \notin Destroying \union {"exited"} /\ exitCode' = exitCode
        \/ mainPc' = "exited" /\ exitCode' \in {"abort", "exit_failure", "undefined", "exit_success"}
    <2> USE DEF Goto, Continue, Loop, Exit, Throw, Destroying
    <2>1. CASE Launch \/ DurationExpires
      BY <2>1 DEF Launch, InitSucceeds, OpenSockets, LaunchKeepAlive, LaunchPull, LaunchUplink,
           LaunchDownlink, DurationExpires
    <2>2. CASE LaunchFailure
      BY <2>2 DEF LaunchFailure, InitThrows, SocketFails, LaunchThrows
    <2>3. CASE Stop
      BY <2>3 DEF Stop, StopIgnored, StopBegins, FlagDevice, FlagGateway, CloseChannel,
           JoinUplink, JoinDownlink, JoinDownlinkThrows, JoinPull, JoinPullThrows, JoinKeepAlive
    <2>4. CASE Signal
      BY <2>4 DEF Signal, SigintFirst, SigintInDestructor, SigintAgain
    <2> QED
      BY <2>1, <2>2, <2>3, <2>4
  <1>3. CASE mainPc' \notin Destroying \union {"exited"}
    BY <1>1, <1>2, <1>3 DEF TeardownInv, Destroying, GoneQuiet
  <1>4. CASE mainPc' = "exited" /\ exitCode' \notin {"success", "failure"}
    <2>1. CASE Launching
      <3>1. gwGone = {}
        BY <2>1 DEF TeardownInv, Launching, LaunchKeepAlive, LaunchPull, LaunchUplink,
             LaunchDownlink, Destroying
      <3> QED
        BY <1>1, <1>4, <3>1 DEF TeardownInv, GoneQuiet, Destroying
    <2>2. CASE ~Launching
      <3>1. GoneQuiet'
        BY <1>1, <2>2, MainStartsNone, QuietStays DEF TeardownInv, MainStep
      <3> QED
        BY <1>4, <3>1 DEF TeardownInv, Destroying
    <2> QED
      BY <2>1, <2>2
  <1> QED
    BY <1>2, <1>3, <1>4

\* The destructor gets no further than the threads it waits for let it.
THEOREM TeardownCorrect == Spec => []TeardownInv
  <1>1. Init => TeardownInv
    BY DEF Init, TeardownInv, Destroying, GoneQuiet
  <1>2. TypeOK /\ TeardownInv /\ [Next]_vars => TeardownInv'
    <2> SUFFICES ASSUME TypeOK, TeardownInv, [Next]_vars PROVE TeardownInv'
      OBVIOUS
    <2>1. CASE MainStep \/ DurationExpires \/ LaunchFailure \/ Signal
      BY <2>1, TeardownMain, TeardownDestroys DEF MainStep
    <2>2. CASE \/ \E g \in Gateways : GatewayThread(g) \/ Server(g)
               \/ \E d \in Devices : UplinkThread(d) \/ DownlinkThread(d)
      <3>1. UNCHANGED mainVars
        BY <2>2 DEF GatewayThread, Server, UplinkThread, DownlinkThread
      <3> QED
        BY <2>2, <3>1, ThreadsStartNone, TeardownThreads
    <2>3. CASE UNCHANGED vars
      <3>1. UNCHANGED mainVars /\ UNCHANGED <<kaPc, pullPc, upPc, downPc>>
        BY <2>3 DEF vars, gatewayVars, pullVars, deviceVars, upVars, downVars
      <3> QED
        BY <3>1, UntouchedThreads, TeardownThreads
    <2> QED
      BY <2>1, <2>2, <2>3 DEF Next, Exited
  <1> QED
    BY TypeCorrect, <1>1, <1>2, PTL DEF Spec

\* When main returns no thread is left running, whichever way it came to its
\* return: the destructors have waited for all of them.
THEOREM JoinedCorrect == Spec => []JoinedBeforeReturn
  <1>1. TeardownInv => JoinedBeforeReturn
    <2>1. \A d \in Devices : d < NDev + 1
      BY TopologyAssumption DEF Devices
    <2>2. \A g : Attached(g) \subseteq Devices
      BY DEF Attached
    <2> QED
      BY <2>1, <2>2 DEF TeardownInv, QuietBefore, GatewayQuiet, JoinedBeforeReturn
  <1> QED
    BY TeardownCorrect, <1>1, PTL

\* A gateway is destroyed after its threads and the uplink threads of all its
\* devices have ended, so nobody holds its push mutex.
THEOREM DestroyCorrect == Spec => []NoUseAfterDestroy
  <1>1. TypeOK /\ UplinkInv /\ TeardownInv => NoUseAfterDestroy
    <2> SUFFICES ASSUME TypeOK, UplinkInv, TeardownInv, NEW g \in gwGone
                 PROVE  /\ GatewayQuiet(g) /\ pushOwner[g] = 0
                        /\ \A d \in Attached(g) : ~Running(upPc[d])
      BY DEF NoUseAfterDestroy
    <2>1. GatewayQuiet(g) /\ \A d \in Attached(g) : ~Running(upPc[d])
      BY DEF TeardownInv, GoneQuiet
    <2>2. g \in Gateways /\ pushOwner[g] \in Devices \union {0}
      BY TypeParts DEF MainTypeOK, GatewayTypeOK
    <2>3. ASSUME NEW d \in Devices, pushOwner[g] = d
          PROVE  FALSE
      <3>1. Inside(d) /\ At(d) = g
        BY <2>2, <2>3 DEF UplinkInv, PushMutex
      <3>2. d \in Attached(g)
        BY <3>1, TypeParts DEF Attached, RouteSet, At, DeviceTypeOK
      <3> QED
        BY <2>1, <3>1, <3>2 DEF Inside, Running, Finished, Ended
    <2> QED
      BY <2>1, <2>2, <2>3
  <1> QED
    BY TypeCorrect, UplinkCorrect, TeardownCorrect, <1>1, PTL

-----------------------------------------------------------------------------
(* How far stop has come, and the threads it may have left untold.         *)

\* Where main is before stop.
Starting == {"init", "open", "launch_ka", "launch_pull", "launch_up", "launch_down", "sleep"}

\* Main starts with its flag down, stops with its flag up, and returns without
\* having stopped anything only if init never filled the lists.
StopPlace ==
    /\ mainPc \in Starting => ~simStopped
    /\ mainPc \in Starting \ {"init"} => built
    /\ mainPc \in StopPcs => simStopped
    /\ mainPc \in {"return"} \union Destroying => simStopped \/ ~built
    /\ mainPc \in {"flag_dev", "close", "join_up", "join_down"} => idx <= NDev

\* Then there is no thread.
Unlaunched ==
    /\ \A g \in Gateways : kaPc[g] = "none" /\ pullPc[g] = "none"
    /\ \A d \in Devices : upPc[d] = "none" /\ downPc[d] = "none"

\* Nothing has cut stop short.
Uncut == sigint # "late" /\ \A d \in Devices : downPc[d] # "rethrown"

\* What stop has told so far, by where main is in it; past it, all there is.
Told ==
    /\ \A d \in Devices : devStopped[d] \/ (mainPc = "flag_dev" /\ idx <= d)
    /\ \A g \in Gateways :
        gwStopped[g] \/ mainPc = "flag_dev" \/ (mainPc = "flag_gw" /\ idx <= g)
    /\ \A d \in Devices :
        \/ closed[d]
        \/ mainPc \in {"flag_dev", "flag_gw"}
        \/ mainPc = "close" /\ idx <= d
        \/ mainPc \in {"join_up", "join_down"} /\ idx < d

StopInv ==
    /\ StopPlace
    /\ ~built => Unlaunched
    /\ simStopped /\ mainPc # "exited" /\ Uncut => Told

\* Main keeps to its places.
LEMMA PlaceMain ==
    ASSUME TypeOK, StopPlace, MainStep \/ DurationExpires \/ LaunchFailure \/ Signal
    PROVE  StopPlace'
  <1> USE DEF StopPlace, Starting, StopPcs, Destroying, Goto, Continue, Loop, Exit, Throw
  <1>0. idx \in Nat /\ NDev \in Nat /\ 1 <= NDev
    BY TopologyAssumption DEF TypeOK
  <1>1. CASE InitSucceeds
    BY <1>0, <1>1 DEF InitSucceeds
  <1>2. CASE StopBegins
    BY <1>0, <1>2 DEF StopBegins
  <1>3. CASE (Launch /\ ~InitSucceeds) \/ LaunchFailure \/ DurationExpires
    BY <1>0, <1>3 DEF Launch, OpenSockets, LaunchKeepAlive, LaunchPull, LaunchUplink, LaunchDownlink,
         LaunchFailure, InitThrows, SocketFails, LaunchThrows, DurationExpires
  <1>4. CASE Stop /\ ~StopBegins
    BY <1>0, <1>4 DEF Stop, StopIgnored, IsRunning, FlagDevice, FlagGateway, CloseChannel,
         JoinUplink, JoinDownlink, JoinDownlinkThrows, JoinPull, JoinPullThrows, JoinKeepAlive,
         TypeOK
  <1>5. CASE Finish \/ Signal
    BY <1>0, <1>5 DEF Finish, ReturnFromStop, DestroyGatewayList, DestroyDevice, Signal, SigintFirst,
         SigintInDestructor, SigintAgain
  <1> QED
    BY <1>1, <1>2, <1>3, <1>4, <1>5 DEF MainStep

\* A thread that was not launched takes no step.
LEMMA UnlaunchedThreads ==
    ASSUME Unlaunched,
           \/ \E g \in Gateways : GatewayThread(g) \/ Server(g)
           \/ \E d \in Devices : UplinkThread(d) \/ DownlinkThread(d)
    PROVE  FALSE
  <1> USE DEF Unlaunched
  <1>1. ASSUME NEW g \in Gateways, GatewayThread(g)
        PROVE  FALSE
    BY <1>1 DEF GatewayThread, GatewayStep, KeepAliveEnd, PullStep, PullCheck, PullTimeout,
         PullReceive, PullPut, PullPutThrows, PullTxAck
  <1>2. ASSUME NEW g \in Gateways, Server(g)
        PROVE  FALSE
    BY <1>2 DEF Server, Running, Finished
  <1>3. ASSUME NEW d \in Devices, UplinkThread(d) \/ DownlinkThread(d)
        PROVE  FALSE
    BY <1>3 DEF UplinkThread, UplinkStep, UplinkRound, PushLock, PushCheck, PushSend, PushReturn,
         DownlinkThread, DownlinkStep, DownlinkCheck, DownlinkGetClosed, DownlinkGet
  <1> QED
    BY <1>1, <1>2, <1>3

\* Main launches threads once init has filled the lists, and what it joins
\* without a thread stays so.
LEMMA UnlaunchedMain ==
    ASSUME TypeOK, StopPlace, ~built => Unlaunched,
           MainStep \/ DurationExpires \/ LaunchFailure \/ Signal
    PROVE  ~built' => Unlaunched'
  <1> SUFFICES ASSUME ~built' PROVE Unlaunched'
    OBVIOUS
  <1>1. CASE InitSucceeds
    BY <1>1 DEF InitSucceeds
  <1>2. CASE ~InitSucceeds
    <2>1. built' = built
      BY <1>2 DEF MainStep, Launch, LaunchFailure, Stop, Finish, Signal, OpenSockets,
           LaunchKeepAlive, LaunchPull, LaunchUplink, LaunchDownlink, DurationExpires, InitThrows,
           SocketFails, LaunchThrows, StopIgnored, StopBegins, FlagDevice, FlagGateway,
           CloseChannel, JoinUplink, JoinDownlink, JoinDownlinkThrows, JoinPull, JoinPullThrows,
           JoinKeepAlive, ReturnFromStop, DestroyGatewayList, DestroyDevice, SigintFirst,
           SigintInDestructor, SigintAgain
    <2>2. Unlaunched
      BY <2>1
    <2>3. ~Launching
      BY <2>1 DEF Launching, LaunchKeepAlive, LaunchPull, LaunchUplink, LaunchDownlink,
           StopPlace, Starting
    <2>4. CASE JoinUplink \/ JoinDownlink \/ JoinPull \/ JoinKeepAlive
      BY <2>2, <2>4, TypeParts
         DEF Unlaunched, JoinUplink, JoinDownlink, JoinPull, JoinKeepAlive, Joined,
             GatewayTypeOK, DeviceTypeOK, gatewayVars, pullVars, deviceVars, upVars, downVars
    <2>5. CASE JoinDownlinkThrows \/ JoinPullThrows
      BY <2>2, <2>5, TypeParts
         DEF Unlaunched, JoinDownlinkThrows, JoinPullThrows, GatewayTypeOK, DeviceTypeOK,
             gatewayVars, pullVars, deviceVars, upVars, downVars
    <2>6. CASE ~(\/ JoinUplink \/ JoinDownlink \/ JoinDownlinkThrows
                 \/ JoinPull \/ JoinPullThrows \/ JoinKeepAlive)
      <3>1. UNCHANGED <<kaPc, pullPc, upPc, downPc>>
        BY <2>3, <2>6
           DEF Launching, MainStep, Launch, LaunchFailure, Stop, Finish, Signal, unthreaded,
               gatewayVars, deviceVars, pullVars, upVars, downVars, InitSucceeds, OpenSockets,
               DurationExpires, InitThrows, SocketFails, LaunchThrows, StopIgnored, StopBegins,
               FlagDevice, FlagGateway, CloseChannel, ReturnFromStop, DestroyGatewayList,
               DestroyDevice, SigintFirst, SigintInDestructor, SigintAgain
      <3> QED
        BY <2>2, <3>1 DEF Unlaunched
    <2> QED
      BY <2>4, <2>5, <2>6
  <1> QED
    BY <1>1, <1>2

\* Stop tells one device or gateway after the other: main keeps the account of
\* it, as long as nothing cuts stop short.
LEMMA ToldMain ==
    ASSUME TypeOK, StopInv, MainStep \/ DurationExpires \/ LaunchFailure \/ Signal
    PROVE  simStopped' /\ mainPc' # "exited" /\ Uncut' => Told'
  <1> SUFFICES ASSUME simStopped', mainPc' # "exited", Uncut'
               PROVE  Told'
    OBVIOUS
  <1>0. /\ idx \in Nat /\ NDev \in Nat /\ NGw \in Nat
        /\ \A d \in Devices : d \in Nat /\ 1 <= d /\ d <= NDev
        /\ \A g \in Gateways : g \in Nat /\ 1 <= g /\ g <= NGw
        /\ devStopped \in [Devices -> BOOLEAN] /\ gwStopped \in [Gateways -> BOOLEAN]
        /\ closed \in [Devices -> BOOLEAN]
    <2>1. idx \in Nat /\ NDev \in Nat /\ NGw \in Nat
      BY TopologyAssumption DEF TypeOK
    <2>2. /\ \A d \in Devices : d \in Nat /\ 1 <= d /\ d <= NDev
          /\ \A g \in Gateways : g \in Nat /\ 1 <= g /\ g <= NGw
      BY <2>1 DEF Devices, Gateways
    <2> QED
      BY <2>1, <2>2 DEF TypeOK, GatewayTypeOK, DeviceTypeOK
  <1>1. CASE StopBegins
    BY <1>0, <1>1 DEF StopBegins, Goto, Told
  <1>2. CASE ~StopBegins
    <2>1. simStopped' = simStopped /\ mainPc # "exited"
      BY <1>2 DEF MainStep, Launch, LaunchFailure, Stop, Finish, Signal, InitSucceeds,
           OpenSockets, LaunchKeepAlive, LaunchPull, LaunchUplink, LaunchDownlink,
           DurationExpires, InitThrows, SocketFails, LaunchThrows, StopIgnored, FlagDevice,
           FlagGateway, CloseChannel, JoinUplink, JoinDownlink, JoinDownlinkThrows, JoinPull,
           JoinPullThrows, JoinKeepAlive, ReturnFromStop, DestroyGatewayList, DestroyDevice,
           SigintFirst, SigintInDestructor, SigintAgain, Destroying
    \* Main is past its start, and no signal came: the first would be late.
    <2>2. Stop \/ Finish
      <3>1. mainPc \notin Starting
        BY <2>1 DEF StopInv, StopPlace
      <3>2. ~Launch /\ ~DurationExpires /\ ~LaunchFailure
        BY <3>1 DEF Starting, Launch, InitSucceeds, OpenSockets, LaunchKeepAlive, LaunchPull,
             LaunchUplink, LaunchDownlink, DurationExpires, LaunchFailure, InitThrows,
             SocketFails, LaunchThrows
      <3>3. ~Signal
        BY <2>1 DEF Signal, SigintFirst, SigintInDestructor, SigintAgain, Exit, Goto, Uncut
      <3> QED
        BY <3>2, <3>3 DEF MainStep
    <2>3. ~JoinDownlinkThrows
      <3>1. ASSUME JoinDownlinkThrows
            PROVE  FALSE
        <4>1. idx \in Devices
          BY <1>0, <3>1 DEF JoinDownlinkThrows, StopInv, StopPlace, TypeOK, Devices
        <4>2. downPc'[idx] = "rethrown"
          BY <3>1, <4>1, TypeParts DEF JoinDownlinkThrows, DeviceTypeOK
        <4> QED
          BY <4>1, <4>2 DEF Uncut
      <3> QED
        BY <3>1
    <2>4. Told
      <3>1. sigint' = sigint /\ \A d \in Devices : downPc[d] = "rethrown" => downPc'[d] = "rethrown"
        <4>1. CASE JoinDownlink
          BY <4>1, TypeParts DEF JoinDownlink, Joined, DeviceTypeOK
        <4>2. CASE ~JoinDownlink
          BY <1>2, <2>2, <2>3, <4>2
             DEF Stop, Finish, unthreaded, deviceVars, downVars, StopIgnored, FlagDevice,
                 FlagGateway, CloseChannel, JoinUplink, JoinPull, JoinPullThrows, JoinKeepAlive,
                 ReturnFromStop, DestroyGatewayList, DestroyDevice
        <4> QED
          BY <4>1, <4>2
      <3> QED
        BY <2>1, <3>1 DEF StopInv, Uncut
    <2> USE <1>0, <2>4 DEF Told, Goto, Continue, Loop
    <2>5. CASE FlagDevice
      BY <2>5 DEF FlagDevice, gatewayVars, chanVars
    <2>6. CASE FlagGateway
      BY <2>6 DEF FlagGateway, chanVars, deviceVars
    <2>7. CASE CloseChannel
      BY <2>7 DEF CloseChannel, deviceVars
    <2>8. CASE JoinUplink
      BY <2>8 DEF JoinUplink, gatewayVars, chanVars
    <2>9. CASE JoinDownlink
      BY <2>9 DEF JoinDownlink, gatewayVars, chanVars
    <2>10. CASE JoinPull \/ JoinPullThrows \/ JoinKeepAlive
      BY <2>10 DEF JoinPull, JoinPullThrows, JoinKeepAlive, chanVars, deviceVars, Throw, Exit
    <2>11. CASE StopIgnored \/ Finish
      BY <2>11 DEF StopIgnored, Finish, ReturnFromStop, DestroyGatewayList, DestroyDevice,
           unthreaded, gatewayVars, chanVars, deviceVars
    <2> QED
      BY <1>2, <2>2, <2>3, <2>5, <2>6, <2>7, <2>8, <2>9, <2>10, <2>11 DEF Stop
  <1> QED
    BY <1>1, <1>2

\* The threads raise no flag, close no channel and rethrow nothing.
LEMMA ToldThreads ==
    ASSUME TypeOK, StopInv,
           \/ \E g \in Gateways : GatewayThread(g) \/ Server(g)
           \/ \E d \in Devices : UplinkThread(d) \/ DownlinkThread(d)
    PROVE  StopInv'
  <1>1. UNCHANGED <<mainPc, idx, built, simStopped, sigint>>
    BY DEF GatewayThread, Server, UplinkThread, DownlinkThread, mainVars
  <1>2. UNCHANGED <<devStopped, gwStopped, closed>>
        /\ \A d \in Devices : downPc[d] = "rethrown" => downPc'[d] = "rethrown"
    <2>1. ASSUME NEW g \in Gateways, GatewayThread(g) \/ Server(g)
          PROVE  UNCHANGED <<devStopped, gwStopped, closed, downPc>>
      BY <2>1 DEF GatewayThread, Server, GatewayStep, PullStep, KeepAliveEnd, PullCheck,
           PullTimeout, PullReceive, PullPut, PullPutThrows, PullTxAck, ServerSend, deviceVars,
           downVars, chanVars
    <2>2. ASSUME NEW d \in Devices, UplinkThread(d)
          PROVE  UNCHANGED <<devStopped, gwStopped, closed, downPc>>
      BY <2>2 DEF UplinkThread, UplinkStep, UplinkRound, PushLock, PushCheck, PushSend,
           PushReturn, gatewayVars, chanVars, downVars
    <2>3. ASSUME NEW d \in Devices, DownlinkThread(d)
          PROVE  /\ UNCHANGED <<devStopped, gwStopped, closed>>
                 /\ \A e \in Devices : downPc[e] = "rethrown" => downPc'[e] = "rethrown"
      <3>1. UNCHANGED <<devStopped, gwStopped, closed>> /\ downPc[d] # "rethrown"
        BY <2>3 DEF DownlinkThread, DownlinkStep, DownlinkCheck, DownlinkGetClosed, DownlinkGet,
             gatewayVars, chanVars
      <3>2. \A e \in Devices : e # d => downPc'[e] = downPc[e]
        BY <2>3, TypeParts DEF DownlinkThread, DownlinkStep, DownlinkCheck, DownlinkGetClosed,
             DownlinkGet, DeviceTypeOK
      <3> QED
        BY <3>1, <3>2
    <2> QED
      BY <2>1, <2>2, <2>3
  <1>3. StopPlace'
    BY <1>1 DEF StopInv, StopPlace
  <1>4. ~built' => Unlaunched'
    BY <1>1, UnlaunchedThreads DEF StopInv
  <1>5. simStopped' /\ mainPc' # "exited" /\ Uncut' => Told'
    BY <1>1, <1>2 DEF StopInv, Uncut, Told
  <1> QED
    BY <1>3, <1>4, <1>5 DEF StopInv

\* What stop has told is accounted for by where main is, unless the exception
\* of a device's downlink thread or a signal during stop cut it short.
THEOREM StopCorrect == Spec => []StopInv
  <1>1. Init => StopInv
    BY DEF Init, GatewayInit, DeviceInit, StopInv, StopPlace, Unlaunched, Starting, StopPcs,
        Destroying
  <1>2. TypeOK /\ StopInv /\ [Next]_vars => StopInv'
    <2> SUFFICES ASSUME TypeOK, StopInv, [Next]_vars PROVE StopInv'
      OBVIOUS
    <2>1. CASE MainStep \/ DurationExpires \/ LaunchFailure \/ Signal
      <3>1. StopPlace'
        BY <2>1, PlaceMain DEF StopInv
      <3>2. ~built' => Unlaunched'
        BY <2>1, UnlaunchedMain DEF StopInv
      <3>3. simStopped' /\ mainPc' # "exited" /\ Uncut' => Told'
        BY <2>1, ToldMain
      <3> QED
        BY <3>1, <3>2, <3>3 DEF StopInv
    <2>2. CASE \/ \E g \in Gateways : GatewayThread(g) \/ Server(g)
               \/ \E d \in Devices : UplinkThread(d) \/ DownlinkThread(d)
      BY <2>2, ToldThreads
    <2>3. CASE UNCHANGED vars
      BY <2>3 DEF vars, gatewayVars, pullVars, chanVars, deviceVars, upVars, downVars, mainVars,
           StopInv, StopPlace, Unlaunched, Uncut, Told
    <2> QED
      BY <2>1, <2>2, <2>3 DEF Next, Exited
  <1> QED
    BY TypeCorrect, <1>1, <1>2, PTL DEF Spec

\* The destructor waits for a thread that nobody told to end only after a
\* SIGINT during stop or an exception from a device's downlink thread; neither
\* an early SIGINT nor a gateway's exception suffices.
THEOREM AbandonedCorrect == Spec => []AbandonedOnlyAfter
  <1>1. TypeOK /\ StopInv => AbandonedOnlyAfter
    <2> SUFFICES ASSUME TypeOK, StopInv, mainPc \in Destroying, Uncut
                 PROVE  ~Orphan
      BY DEF AbandonedOnlyAfter, Abandoned, Uncut
    <2>1. CASE simStopped
      <3>1. /\ \A d \in Devices : devStopped[d] /\ closed[d]
            /\ \A g \in Gateways : gwStopped[g]
        BY <2>1 DEF StopInv, Told, Destroying
      <3> QED
        BY <3>1 DEF Orphan
    <2>2. CASE ~simStopped
      <3>1. Unlaunched
        BY <2>2 DEF StopInv, StopPlace
      <3> QED
        BY <3>1 DEF Orphan, Unlaunched, GatewayQuiet, Running, Finished
    <2> QED
      BY <2>1, <2>2
  <1> QED
    BY TypeCorrect, StopCorrect, <1>1, PTL
=============================================================================
