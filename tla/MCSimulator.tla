---------------------------- MODULE MCSimulator ----------------------------
(***************************************************************************)
(* Instances of Shutdown for TLC: small topologies and the downlink frames *)
(* that tell the outcomes of device::downlink_loop apart.                  *)
(***************************************************************************)
EXTENDS Shutdown

Frame(type, ok, to, n) == [mType |-> type, wellFormed |-> ok, to |-> to, fCnt |-> n]

\* Unconfirmed data for device 1 (the last with a counter wider than the wire
\* where W16 is 2), undecodable bytes, a frame of an uplink type, and
\* confirmed data.
Good      == Frame(3, TRUE, 1, 0)
Next1     == Frame(3, TRUE, 1, 1)
Wrapped   == Frame(3, TRUE, 1, 2)
Garbage   == Frame(0, FALSE, 1, 0)
UplinkOne == Frame(2, TRUE, 1, 0)
Confirmed == Frame(5, TRUE, 1, 0)

GoodFrames     == {Good}
DownlinkFrames == {Good, UplinkOne}
ThrowingFrame  == {Confirmed}
GarbageFrames  == {Good, Garbage}
HandledFrames  == {Next1, Wrapped}

\* One device on one gateway; two devices that use two gateways in opposite
\* order; two devices with a gateway each.
OneGateway       == <<<<1>>>>
OppositeOrder    == <<<<1, 2>>, <<2, 1>>>>
SeparateGateways == <<<<1>>, <<2>>>>
=============================================================================
