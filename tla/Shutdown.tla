------------------------------ MODULE Shutdown ------------------------------
(***************************************************************************)
(* The correctness properties of module Simulator: what the joins, the     *)
(* flags, the mutexes and the channels guarantee together, and what the    *)
(* README promises about the end of a simulation.                          *)
(***************************************************************************)
EXTENDS Simulator

\* The type invariant.
TypeOK ==
    /\ GatewayTypeOK
    /\ DeviceTypeOK
    /\ mainPc \in MainPcs
    /\ idx \in Nat \ {0}
    /\ caller \in {"run", "catch", "signal"}
    /\ built \in BOOLEAN
    /\ simStopped \in BOOLEAN
    /\ sigint \in {"none", "early", "late"}
    /\ exitCode \in {"none", "success", "failure", "abort", "undefined",
                     "exit_success", "exit_failure"}
    /\ gwGone \subseteq Gateways
-----------------------------------------------------------------------------
\* The push mutex of a gateway is held by exactly the uplink thread that is
\* inside its send_uplink_frame (gateway.cpp:49), so that a PUSH_ACK is
\* awaited by one device at a time.
Inside(d) == upPc[d] \in {"locked", "send", "await"}
PushMutex ==
    \A d \in Devices, g \in Gateways :
        (Inside(d) /\ At(d) = g) <=> pushOwner[g] = d

\* An uplink thread that waits for the push mutex of a gateway holds none:
\* devices that list the same gateways in opposite order cannot block each
\* other for ever (gateway.cpp:49, device.cpp:85-87).
WaitsHoldingNothing ==
    \A d \in Devices : upPc[d] = "lock" => \A g \in Gateways : pushOwner[g] # d

\* Once its stop flag is up a gateway sends at most one more PUSH_DATA,
\* however many devices queue for it: the flag is read under the push mutex
\* (gateway.cpp:49-52), so one thread at most has read it before it rose.
OnePushAfterStop == \A g \in Gateways : latePushes[g] <= 1

\* Once its channel is closed a device gets at most one more frame, however
\* many are queued: is_closed is asked before each get (device.cpp:93-96).
OneGetAfterClose == \A d \in Devices : lateGets[d] <= 1

\* When main returns, no thread is left running: each was joined by stop or
\* by the destructor of its future.
JoinedBeforeReturn ==
    (mainPc = "exited" /\ exitCode \in {"success", "failure"}) =>
        /\ \A g \in Gateways : ~Running(kaPc[g]) /\ ~Running(pullPc[g])
        /\ \A d \in Devices : ~Running(upPc[d]) /\ ~Running(downPc[d])

\* A gateway is destroyed only when its threads have ended and no uplink
\* thread can enter it any more, although it is shared by several devices.
NoUseAfterDestroy ==
    \A g \in gwGone :
        /\ GatewayQuiet(g)
        /\ pushOwner[g] = 0
        /\ \A d \in Attached(g) : ~Running(upPc[d])

\* The downlink thread of a gateway dies of an exception only while the
\* simulation is being stopped: no channel is closed before.
PullFailsOnlyInStop ==
    \A g \in Gateways : pullPc[g] \in {"failed", "rethrown"} => simStopped

\* A thread that nobody will tell to end while the destructor waits for it:
\* its stop flag is down, or it sleeps in get on a channel left open.
Orphan ==
    \/ \E d \in Devices :
        \/ (Running(upPc[d]) \/ Running(downPc[d])) /\ ~devStopped[d]
        \/ downPc[d] = "get" /\ queue[d] = <<>> /\ ~closed[d]
    \/ \E g \in Gateways : ~GatewayQuiet(g) /\ ~gwStopped[g]
Abandoned == mainPc \in Destroying /\ Orphan

\* The destructor meets such a thread only if stop was cut short: by the
\* exception of a device's downlink thread, or by a SIGINT during stop.
AbandonedOnlyAfter ==
    Abandoned => sigint = "late" \/ \E d \in Devices : downPc[d] = "rethrown"

\* device::handle_data keeps the counter of the last frame accepted in its
\* low 16 bits and never counts a roll-over: the counter stays below 2^16,
\* and it is the counter of some accepted frame.
CounterOfAcceptedFrame ==
    \A d \in Devices :
        /\ fCntDown[d] < W16
        /\ handled[d] # {} => \E frame \in handled[d] : frame.fCnt = fCntDown[d]
        /\ \A frame \in handled[d] : frame.to = d
-----------------------------------------------------------------------------
\* README.md:130: "The simulation will be gracefully stopped after a
\* simulator.duration interval."  Unless a signal or a failed launch came
\* first, main returns EXIT_SUCCESS.
GracefulStop ==
    (mainPc = "exited" /\ sigint = "none" /\ ~LaunchMayFail) => exitCode = "success"

\* README.md:134-137: "SUPG will be terminated" "when an exception is thrown":
\* the destructor never waits for a thread that was not told to end.
NoOrphanLeft == ~Abandoned

\* What the code does guarantee: the process ends unless the destructor
\* waits for a thread that stop was kept from stopping.
TerminatesUnlessAbandoned == <>(mainPc = "exited" \/ Abandoned)

\* The simulation has not been told to stop yet.
Simulating ==
    mainPc \in {"open", "launch_ka", "launch_pull", "launch_up", "launch_down", "sleep"}

\* README.md:128: devices "handle downlink frames, if any".  A frame for d
\* that a gateway of d has confirmed to the server with a TX_ACK is accepted
\* by d, or the simulation is stopped first.
AckedFrameIsHandled ==
    \A d \in Devices : \A g \in Gateways : \A frame \in Frames :
        (frame \in txAcked[g] /\ frame.to = d /\ d \in Attached(g) /\ frame.wellFormed
            /\ frame.mType \in DataDown /\ frame.fCnt < W16)
        ~> (frame \in handled[d] \/ ~Simulating)
=============================================================================
