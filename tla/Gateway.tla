------------------------------ MODULE Gateway ------------------------------
(***************************************************************************)
(* The threads of the simulated gateways (src/core/gateway.cpp) and what   *)
(* they share: the stop flag, the push mutex, the pull socket, and the     *)
(* channels of the devices (include/supg/util/channel.h, one atomic step   *)
(* per operation here; module Channel shows what those steps are made of). *)
(*                                                                         *)
(* Each gateway runs a keep-alive thread and a downlink ("pull") thread.   *)
(* Its push side has no thread of its own: the uplink threads of the       *)
(* devices execute send_uplink_frame, see module Device.                   *)
(*                                                                         *)
(* Durations are not modelled here: a sleep or a receive with a timeout    *)
(* may last any time.  _connected only chooses between two durations, so   *)
(* it is left out; tokens and acknowledgements of the push side are in     *)
(* module Uplink.                                                          *)
(***************************************************************************)
EXTENDS Integers, Sequences, FiniteSets

CONSTANTS
    NGw, NDev,      \* number of gateways and devices
    Route,          \* Route[d]: the _gateways vector of device d
    Frames,         \* downlink frames the network server may send
    OtherKinds,     \* kinds of other datagrams it may send
    MaxPackets      \* bound: how many datagrams it sends in all

Gateways == 1..NGw
Devices  == 1..NDev
RouteSet(d) == {Route[d][i] : i \in DOMAIN Route[d]}

\* _devices of gateway g: the map filled by device::add_gateway.  A gateway
\* listed twice in a route still holds the device once.
Attached(g) == {d \in Devices : g \in RouteSet(d)}

PullResp == [kind : {"pull_resp"}, frame : Frames]
Packets  == PullResp \union [kind : OtherKinds]

ASSUME TopologyAssumption ==
    /\ NGw \in Nat \ {0}
    /\ NDev \in Nat \ {0}
    /\ Route \in [Devices -> Seq(Gateways) \ {<<>>}]
    /\ OtherKinds \subseteq {"pull_ack", "invalid", "empty"}
    /\ MaxPackets \in Nat

VARIABLES
    gwStopped,    \* gateway::_stopped
    kaPc,         \* keep-alive thread of each gateway
    pullPc,       \* downlink thread of each gateway
    inbox,        \* datagrams waiting in each pull socket
    pulled,       \* the frame each downlink thread is handing out
    todo,         \* devices it has not handed it to yet
    txAcked,      \* history: frames each gateway has sent a TX_ACK for
    pushOwner,    \* who holds _push_mutex; 0 if nobody
    queue,        \* the channel of each device: _queue
    closed,       \* and _closed
    packets       \* datagrams sent by the server so far (bound)

pullVars    == <<pullPc, pulled, todo, txAcked>>
chanVars    == <<queue, closed>>
netVars     == <<inbox, packets>>
gatewayVars == <<gwStopped, kaPc, pullVars, netVars, pushOwner, chanVars>>

\* A thread is launched by std::async and its future collects how it ended.
\* "rethrown": the future's get() has thrown the thread's exception.
Ended    == {"ready", "failed"}
Finished == {"none", "joined", "rethrown"} \union Ended

KeepAlivePcs == {"loop"}
PullPcs      == {"check", "recv", "deliver"}

GatewayInit ==
    /\ gwStopped = [g \in Gateways |-> FALSE]
    /\ kaPc = [g \in Gateways |-> "none"]
    /\ pullPc = [g \in Gateways |-> "none"]
    /\ inbox = [g \in Gateways |-> <<>>]
    /\ pulled = [g \in Gateways |-> CHOOSE frame \in Frames : TRUE]
    /\ todo = [g \in Gateways |-> {}]
    /\ txAcked = [g \in Gateways |-> {}]
    /\ pushOwner = [g \in Gateways |-> 0]
    /\ queue = [d \in Devices |-> <<>>]
    /\ closed = [d \in Devices |-> FALSE]
    /\ packets = 0
-----------------------------------------------------------------------------
\* keep_alive sends PULL_DATA and sleeps, over and over, which changes
\* nothing here, until it reads its flag after the gateway was stopped.
KeepAliveEnd(g) ==
    /\ kaPc[g] = "loop"
    /\ gwStopped[g]
    /\ kaPc' = [kaPc EXCEPT ![g] = "ready"]
    /\ UNCHANGED <<gwStopped, pullVars, netVars, pushOwner, chanVars>>
-----------------------------------------------------------------------------
\* handle_downlink_frame

PullCheck(g) ==
    /\ pullPc[g] = "check"
    /\ pullPc' = [pullPc EXCEPT ![g] = IF gwStopped[g] THEN "ready" ELSE "recv"]
    /\ UNCHANGED <<gwStopped, kaPc, pulled, todo, txAcked, netVars, pushOwner, chanVars>>

\* Mutant: the silence of the server is treated as an error.
PullTimeoutThrows(g) ==
    /\ pullPc[g] = "recv"
    /\ inbox[g] = <<>>
    /\ pullPc' = [pullPc EXCEPT ![g] = "failed"]
    /\ UNCHANGED <<gwStopped, kaPc, pulled, todo, txAcked, netVars, pushOwner, chanVars>>

\* select reports nothing within 16 s: the flag is read again either way.
PullTimeout(g) ==
    /\ pullPc[g] = "recv"
    /\ inbox[g] = <<>>
    /\ pullPc' = [pullPc EXCEPT ![g] = IF gwStopped[g] THEN "ready" ELSE "check"]
    /\ UNCHANGED <<gwStopped, kaPc, pulled, todo, txAcked, netVars, pushOwner, chanVars>>

\* A datagram received after the gateway was stopped is dropped.
PullReceive(g) ==
    /\ pullPc[g] = "recv"
    /\ inbox[g] # <<>>
    /\ inbox' = [inbox EXCEPT ![g] = Tail(@)]
    /\ LET packet == Head(inbox[g]) IN
       IF ~gwStopped[g] /\ packet \in PullResp
       THEN /\ pulled' = [pulled EXCEPT ![g] = packet.frame]
            /\ todo' = [todo EXCEPT ![g] = Attached(g)]
            /\ pullPc' = [pullPc EXCEPT ![g] = "deliver"]
       ELSE /\ pullPc' = [pullPc EXCEPT ![g] = IF gwStopped[g] THEN "ready" ELSE "check"]
            /\ UNCHANGED <<pulled, todo>>
    /\ UNCHANGED <<gwStopped, kaPc, txAcked, packets, pushOwner, chanVars>>

\* device.second->put(frame) for one more device, in the order of the map:
\* any order, eui64::operator< being no ordering of the EUIs.
PullPut(g, d) ==
    /\ pullPc[g] = "deliver"
    /\ d \in todo[g]
    /\ ~closed[d]
    /\ queue' = [queue EXCEPT ![d] = Append(@, pulled[g])]
    /\ todo' = [todo EXCEPT ![g] = @ \ {d}]
    /\ UNCHANGED <<gwStopped, kaPc, pullPc, pulled, txAcked, netVars, pushOwner, closed>>

\* put on a closed channel throws; the exception ends the thread, and the
\* remaining devices and the TX_ACK are skipped.
PullPutThrows(g, d) ==
    /\ pullPc[g] = "deliver"
    /\ d \in todo[g]
    /\ closed[d]
    /\ pullPc' = [pullPc EXCEPT ![g] = "failed"]
    /\ UNCHANGED <<gwStopped, kaPc, pulled, todo, txAcked, netVars, pushOwner, chanVars>>

\* send_downlink_tx_ack, then the pause before the next cycle.
PullTxAck(g) ==
    /\ pullPc[g] = "deliver"
    /\ todo[g] = {}
    /\ txAcked' = [txAcked EXCEPT ![g] = @ \union {pulled[g]}]
    /\ pullPc' = [pullPc EXCEPT ![g] = "check"]
    /\ UNCHANGED <<gwStopped, kaPc, pulled, todo, netVars, pushOwner, chanVars>>
-----------------------------------------------------------------------------
\* The network server (external).  UDP may lose, repeat and reorder: the
\* server simply makes any datagram arrive at any pull socket at any time.
ServerSend(g) ==
    /\ packets < MaxPackets
    /\ packets' = packets + 1
    /\ \E packet \in Packets : inbox' = [inbox EXCEPT ![g] = Append(@, packet)]
    /\ UNCHANGED <<gwStopped, kaPc, pullVars, pushOwner, chanVars>>
-----------------------------------------------------------------------------
PullStep(g) ==
    \/ PullCheck(g) \/ PullTimeout(g) \/ PullReceive(g) \/ PullTxAck(g)
    \/ \E d \in Devices : PullPut(g, d) \/ PullPutThrows(g, d)

GatewayStep(g) == KeepAliveEnd(g) \/ PullStep(g)

\* The types of the gateway variables (part of TypeOK of module Simulator).
GatewayTypeOK ==
    /\ gwStopped \in [Gateways -> BOOLEAN]
    /\ kaPc \in [Gateways -> Finished \union KeepAlivePcs]
    /\ pullPc \in [Gateways -> Finished \union PullPcs]
    /\ inbox \in [Gateways -> Seq(Packets)]
    /\ pulled \in [Gateways -> Frames]
    /\ todo \in [Gateways -> SUBSET Devices]
    /\ txAcked \in [Gateways -> SUBSET Frames]
    /\ pushOwner \in [Gateways -> Devices \union {0}]
    /\ queue \in [Devices -> Seq(Frames)]
    /\ closed \in [Devices -> BOOLEAN]
    /\ packets \in Nat
=============================================================================
