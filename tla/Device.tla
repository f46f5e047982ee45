------------------------------- MODULE Device -------------------------------
(***************************************************************************)
(* The threads of the simulated devices (src/core/device.cpp): an uplink   *)
(* thread that periodically sends one frame through every gateway of the   *)
(* device, under the push mutex of each gateway, and a downlink thread     *)
(* that gets downlink frames from the channel of the device.               *)
(*                                                                         *)
(* A downlink frame is a record:                                           *)
(*   mType       the three type bits of its MAC header, 0..7               *)
(*   wellFormed  can it be decoded (phy_payload::unmarshal returns)?       *)
(*   to          the device whose network session key signed it            *)
(*   fCnt        the server's downlink counter, all its bits               *)
(***************************************************************************)
EXTENDS Gateway

CONSTANTS
    CharIsSigned,   \* is char signed on the build's platform?
    FirstFCnt,      \* simulator.device.f_cnt, the same for every device
    W16, W32        \* 2^16 and 2^32 in the program, smaller in a model

ASSUME FrameAssumption ==
    /\ Frames # {}
    /\ Frames \subseteq [mType : 0..7, wellFormed : BOOLEAN, to : Devices, fCnt : Nat]
    /\ CharIsSigned \in BOOLEAN
    /\ W16 \in Nat \ {0}
    /\ W32 \in Nat \ {0}
    /\ W16 <= W32
    /\ FirstFCnt \in 0..(W32 - 1)

VARIABLES
    devStopped,   \* device::_stopped
    upPc,         \* uplink thread of each device
    hop,          \* position of that thread in the route
    fCntUp,       \* _f_cnt_up
    downPc,       \* downlink thread of each device
    fCntDown,     \* _f_cnt_down
    handled,      \* history: downlink frames accepted by each device
    lateGets,     \* history: frames each device got once its channel was closed
    latePushes    \* history: PUSH_DATA sent by each gateway once stopped

upVars     == <<upPc, hop, fCntUp, latePushes>>
downVars   == <<downPc, fCntDown, handled, lateGets>>
deviceVars == <<devStopped, upVars, downVars>>

UpPcs   == {"sleep", "lock", "locked", "send", "await"}
DownPcs == {"check", "get"}

DeviceInit ==
    /\ devStopped = [d \in Devices |-> FALSE]
    /\ upPc = [d \in Devices |-> "none"]
    /\ hop = [d \in Devices |-> 1]
    /\ fCntUp = [d \in Devices |-> FirstFCnt]
    /\ downPc = [d \in Devices |-> "none"]
    /\ fCntDown = [d \in Devices |-> 0]
    /\ handled = [d \in Devices |-> {}]
    /\ lateGets = [d \in Devices |-> 0]
    /\ latePushes = [g \in Gateways |-> 0]
-----------------------------------------------------------------------------
\* uplink_loop and send_data

\* Mutant: the counter is wider than 32 bits.
UplinkRoundWide(d) ==
    /\ upPc[d] = "sleep"
    /\ ~devStopped[d]
    /\ upPc' = [upPc EXCEPT ![d] = "lock"]
    /\ hop' = [hop EXCEPT ![d] = 1]
    /\ fCntUp' = [fCntUp EXCEPT ![d] = @ + 1]
    /\ UNCHANGED <<gatewayVars, devStopped, latePushes, downVars>>

\* After its sleep (5 s the first time, then the uplink interval; neither can
\* be interrupted by a stop) the thread reads its flag, builds one frame with
\* the current counter and offers it to each gateway.
UplinkRound(d) ==
    /\ upPc[d] = "sleep"
    /\ IF devStopped[d]
       THEN /\ upPc' = [upPc EXCEPT ![d] = "ready"]
            /\ UNCHANGED <<hop, fCntUp>>
       ELSE /\ upPc' = [upPc EXCEPT ![d] = "lock"]
            /\ hop' = [hop EXCEPT ![d] = 1]
            /\ fCntUp' = [fCntUp EXCEPT ![d] = (@ + 1) % W32]
    /\ UNCHANGED <<gatewayVars, devStopped, latePushes, downVars>>

\* The gateway whose send_uplink_frame the uplink thread of d is in.
At(d) == Route[d][hop[d]]

\* gateway::send_uplink_frame, run by the uplink thread of d.

\* Mutant: no mutex.
PushLockFree(d) ==
    /\ upPc[d] = "lock"
    /\ pushOwner' = [pushOwner EXCEPT ![At(d)] = d]
    /\ upPc' = [upPc EXCEPT ![d] = "locked"]
    /\ UNCHANGED <<gwStopped, kaPc, pullVars, netVars, chanVars>>
    /\ UNCHANGED <<devStopped, hop, fCntUp, latePushes, downVars>>

PushLock(d) ==
    /\ upPc[d] = "lock"
    /\ pushOwner[At(d)] = 0
    /\ pushOwner' = [pushOwner EXCEPT ![At(d)] = d]
    /\ upPc' = [upPc EXCEPT ![d] = "locked"]
    /\ UNCHANGED <<gwStopped, kaPc, pullVars, netVars, chanVars>>
    /\ UNCHANGED <<devStopped, hop, fCntUp, latePushes, downVars>>

PushCheck(d) ==
    /\ upPc[d] = "locked"
    /\ ~gwStopped[At(d)]
    /\ upPc' = [upPc EXCEPT ![d] = "send"]
    /\ UNCHANGED <<gatewayVars, devStopped, hop, fCntUp, latePushes, downVars>>

\* The flag may have been raised since it was read.
PushSend(d) ==
    /\ upPc[d] = "send"
    /\ upPc' = [upPc EXCEPT ![d] = "await"]
    /\ latePushes' = [latePushes EXCEPT ![At(d)] = @ + (IF gwStopped[At(d)] THEN 1 ELSE 0)]
    /\ UNCHANGED <<gatewayVars, devStopped, hop, fCntUp, downVars>>

\* Mutant: the mutex of a gateway is kept while the next one is tried.
PushReturnKeeps(d) ==
    /\ \/ upPc[d] = "locked" /\ gwStopped[At(d)]
       \/ upPc[d] = "await"
    /\ IF hop[d] < Len(Route[d])
       THEN /\ hop' = [hop EXCEPT ![d] = @ + 1]
            /\ upPc' = [upPc EXCEPT ![d] = "lock"]
            /\ UNCHANGED pushOwner
       ELSE /\ upPc' = [upPc EXCEPT ![d] = "sleep"]
            /\ pushOwner' = [g \in Gateways |-> IF pushOwner[g] = d THEN 0 ELSE pushOwner[g]]
            /\ UNCHANGED hop
    /\ UNCHANGED <<gwStopped, kaPc, pullVars, netVars, chanVars>>
    /\ UNCHANGED <<devStopped, fCntUp, latePushes, downVars>>

\* send_uplink_frame returns: the gateway is stopped, or the wait for the
\* PUSH_ACK (4 s at most) is over.  The mutex is released and the loop of
\* send_uplink goes on with the next gateway, or ends.
PushReturn(d) ==
    /\ \/ upPc[d] = "locked" /\ gwStopped[At(d)]
       \/ upPc[d] = "await"
    /\ pushOwner' = [pushOwner EXCEPT ![At(d)] = 0]
    /\ IF hop[d] < Len(Route[d])
       THEN /\ hop' = [hop EXCEPT ![d] = @ + 1]
            /\ upPc' = [upPc EXCEPT ![d] = "lock"]
       ELSE /\ upPc' = [upPc EXCEPT ![d] = "sleep"]
            /\ UNCHANGED hop
    /\ UNCHANGED <<gwStopped, kaPc, pullVars, netVars, chanVars>>
    /\ UNCHANGED <<devStopped, fCntUp, latePushes, downVars>>
-----------------------------------------------------------------------------
\* downlink_loop

\* mhdr::unmarshal shifts a char right by five bits: where char is signed,
\* a type of 4 or more comes out negative.
MType(frame) ==
    IF CharIsSigned /\ frame.mType > 3 THEN frame.mType - 8 ELSE frame.mType

JoinAccept == 1
DataDown   == {3, 5}    \* unconfirmed_data_down, confirmed_data_down

\* Mutant: the uplink types are taken for the downlink ones.
OutcomeOfUplinks(frame) ==
    IF ~frame.wellFormed THEN "break"
    ELSE IF MType(frame) = JoinAccept THEN "skip"
    ELSE IF MType(frame) \in {2, 4} THEN "handle"
    ELSE "throw"

\* What the loop does with a frame: the catch block leaves the loop, an
\* unexpected type throws out of the thread.
Outcome(frame) ==
    IF ~frame.wellFormed THEN "break"
    ELSE IF MType(frame) = JoinAccept THEN "skip"
    ELSE IF MType(frame) \in DataDown THEN "handle"
    ELSE "throw"

\* Mutant: only the 16 bits on the wire are signed.
MicOfWireBits(d, frame) == frame.to = d

\* validate_downlink_data_mic: fhdr::unmarshal knows only the low 16 bits of
\* the counter, and the server signs all of them.
MicValid(d, frame) == frame.to = d /\ frame.fCnt < W16

\* "Reset frame count": the low 16 bits are replaced, in 32-bit arithmetic.
NewFCntDown(old, fCnt) == (old + (fCnt % W16) - (old % W16)) % W32

\* Mutant: neither the flag nor the channel is asked before the next get.
DownlinkCheckNothing(d) ==
    /\ downPc[d] = "check"
    /\ downPc' = [downPc EXCEPT ![d] = "get"]
    /\ UNCHANGED <<gatewayVars, devStopped, upVars, fCntDown, handled, lateGets>>

DownlinkCheck(d) ==
    /\ downPc[d] = "check"
    /\ downPc' = [downPc EXCEPT ![d] = IF devStopped[d] \/ closed[d] THEN "ready" ELSE "get"]
    /\ UNCHANGED <<gatewayVars, devStopped, upVars, fCntDown, handled, lateGets>>

\* get returns false: the channel was closed while empty.
DownlinkGetClosed(d) ==
    /\ downPc[d] = "get"
    /\ queue[d] = <<>>
    /\ closed[d]
    /\ downPc' = [downPc EXCEPT ![d] = "check"]
    /\ UNCHANGED <<gatewayVars, devStopped, upVars, fCntDown, handled, lateGets>>

\* get returns a frame, and the loop decodes it and deals with it.
DownlinkGet(d) ==
    /\ downPc[d] = "get"
    /\ queue[d] # <<>>
    /\ queue' = [queue EXCEPT ![d] = Tail(@)]
    /\ lateGets' = [lateGets EXCEPT ![d] = @ + (IF closed[d] THEN 1 ELSE 0)]
    /\ LET frame   == Head(queue[d])
           outcome == Outcome(frame)
       IN /\ downPc' = [downPc EXCEPT ![d] = CASE outcome = "break" -> "ready"
                                              [] outcome = "throw" -> "failed"
                                              [] OTHER -> "check"]
          /\ IF outcome = "handle" /\ MicValid(d, frame)
             THEN /\ fCntDown' = [fCntDown EXCEPT ![d] = NewFCntDown(@, frame.fCnt)]
                  /\ handled' = [handled EXCEPT ![d] = @ \union {frame}]
             ELSE UNCHANGED <<fCntDown, handled>>
    /\ UNCHANGED <<gwStopped, kaPc, pullVars, netVars, pushOwner, closed, devStopped, upVars>>
-----------------------------------------------------------------------------
UplinkStep(d) ==
    UplinkRound(d) \/ PushLock(d) \/ PushCheck(d) \/ PushSend(d) \/ PushReturn(d)

DownlinkStep(d) == DownlinkCheck(d) \/ DownlinkGetClosed(d) \/ DownlinkGet(d)

\* The types of the device variables (part of TypeOK of module Simulator).
DeviceTypeOK ==
    /\ devStopped \in [Devices -> BOOLEAN]
    /\ upPc \in [Devices -> Finished \union UpPcs]
    /\ hop \in [Devices -> Nat \ {0}]
    /\ \A d \in Devices : hop[d] \in DOMAIN Route[d]
    /\ fCntUp \in [Devices -> 0..(W32 - 1)]
    /\ downPc \in [Devices -> Finished \union DownPcs]
    /\ fCntDown \in [Devices -> 0..(W32 - 1)]
    /\ handled \in [Devices -> SUBSET Frames]
    /\ lateGets \in [Devices -> Nat]
    /\ latePushes \in [Gateways -> Nat]
=============================================================================
