------------------------------- MODULE Setup -------------------------------
(***************************************************************************)
(* How simulator::init (src/core/simulator.cpp) lays out a simulation: the *)
(* device and gateway counts it reads from the configuration file, the     *)
(* gateways it creates, and the gateways it draws for each device.  What   *)
(* it leaves behind are the routes that module Simulator takes as given.   *)
(*                                                                         *)
(* The other settings of the file are checked one by one and copied into   *)
(* the devices; they are not modelled here.                                *)
(***************************************************************************)
EXTENDS Naturals, Sequences, FiniteSets

CONSTANTS
    Absent,      \* the file does not have the setting
    MaxDevices,  \* 1000 in the program
    Limit        \* bound: the largest count in a file

ASSUME SetupAssumption ==
    /\ Limit \in Nat \ {0} /\ MaxDevices \in Nat \ {0}
    /\ Absent \notin 0..Limit

VARIABLES
    file,        \* the counts in the file: dev, min and max
    count,       \* _config: _dev_count, _gw_min_count, _gw_max_count
    pc,          \* where init is
    want,        \* gw_count: how many gateways the device at hand gets
    route,       \* _gateways of the device at hand
    devices,     \* _dev_list: the routes of the finished devices
    attached     \* _devices of each gateway

vars == <<file, count, pc, want, route, devices, attached>>

Settings == {"dev", "min", "max"}
Pcs == {"read_dev", "read_min", "read_max", "gateways", "device", "draw",
        "done", "threw", "undefined"}

Init ==
    /\ file \in [Settings -> 0..Limit \union {Absent}]
    /\ count = [s \in Settings |-> 1]
    /\ pc = "read_dev"
    /\ want = 0
    /\ route = <<>>
    /\ devices = <<>>
    /\ attached = <<>>
-----------------------------------------------------------------------------
\* A setting that is absent keeps its default, unchecked.
Read(s, here, next, fits) ==
    /\ pc = here
    /\ IF file[s] = Absent
       THEN pc' = next /\ UNCHANGED count
       ELSE /\ count' = [count EXCEPT ![s] = file[s]]
            /\ pc' = IF fits THEN next ELSE "threw"
    /\ UNCHANGED <<file, want, route, devices, attached>>

ReadDeviceCount == Read("dev", "read_dev", "read_min", file["dev"] \in 1..MaxDevices)
ReadMinCount == Read("min", "read_min", "read_max", file["min"] > 0)

\* Mutant: the largest count is tested like the smallest.
ReadMaxCountAlone == Read("max", "read_max", "gateways", file["max"] > 0)

ReadMaxCount == Read("max", "read_max", "gateways", file["max"] >= count["min"])

CreateGateways ==
    /\ pc = "gateways"
    /\ attached' = [g \in 1..count["max"] |-> {}]
    /\ pc' = "device"
    /\ UNCHANGED <<file, count, want, route, devices>>

Finished == Len(devices) = count["dev"]

\* Mutant: the range starts at zero.
BeginDeviceFromZero ==
    /\ pc = "device"
    /\ ~Finished
    /\ \E n \in 0..count["max"] : want' = n
    /\ pc' = "draw"
    /\ route' = <<>>
    /\ UNCHANGED <<file, count, devices, attached>>

\* get_random_number(min, max): std::uniform_int_distribution is undefined
\* for an empty range.
BeginDevice ==
    /\ pc = "device"
    /\ ~Finished
    /\ IF count["min"] <= count["max"]
       THEN (\E n \in count["min"]..count["max"] : want' = n) /\ pc' = "draw"
       ELSE pc' = "undefined" /\ UNCHANGED want
    /\ route' = <<>>
    /\ UNCHANGED <<file, count, devices, attached>>

Current == Len(devices) + 1

\* Mutant: the gateway is not told of its device.
DrawGatewayOneSided ==
    /\ pc = "draw"
    /\ Len(route) < want
    /\ \E g \in DOMAIN attached : route' = Append(route, g)
    /\ UNCHANGED <<file, count, pc, want, devices, attached>>

\* init looks a drawn gateway up in gw_list, which it never adds to: the
\* gateway is always new, and is added to the device (device::add_gateway).
DrawGateway ==
    /\ pc = "draw"
    /\ Len(route) < want
    /\ \E g \in DOMAIN attached :
        /\ route' = Append(route, g)
        /\ attached' = [attached EXCEPT ![g] = @ \union {Current}]
    /\ UNCHANGED <<file, count, pc, want, devices>>

EndDevice ==
    /\ pc = "draw"
    /\ Len(route) = want
    /\ devices' = Append(devices, route)
    /\ route' = <<>>
    /\ pc' = "device"
    /\ UNCHANGED <<file, count, want, attached>>

EndInit ==
    /\ pc = "device"
    /\ Finished
    /\ pc' = "done"
    /\ UNCHANGED <<file, count, want, route, devices, attached>>

Next ==
    \/ ReadDeviceCount \/ ReadMinCount \/ ReadMaxCount
    \/ CreateGateways \/ BeginDevice \/ DrawGateway \/ EndDevice \/ EndInit

Spec == Init /\ [][Next]_vars
-----------------------------------------------------------------------------
Occurs(g, r) == \E i \in DOMAIN r : r[i] = g

\* Every route of the devices so far, the one in the making included.
RouteOf(d) == IF d = Current THEN route ELSE devices[d]

\* Uplinks and downlinks use the same gateways: a device is in the map of a
\* gateway exactly when the gateway is in its vector (device.cpp:30-33), at
\* every moment of the construction.
AttachedMatchesRoutes ==
    \A g \in DOMAIN attached : \A d \in 1..Current :
        d \in attached[g] <=> Occurs(g, RouteOf(d))

\* What init leaves is a topology module Gateway accepts: every device has a
\* route, of the configured length, through gateways that exist.
TopologyReady ==
    pc = "done" =>
        /\ Len(devices) = count["dev"] /\ count["dev"] \in 1..MaxDevices
        /\ \A d \in 1..Len(devices) :
            /\ devices[d] \in Seq(DOMAIN attached) \ {<<>>}
            /\ Len(devices[d]) \in count["min"]..count["max"]

\* The undefined draw has one cause: a file that raises the smallest count and
\* leaves out the largest, whose default of one nothing compares with it
\* (simulator.cpp:216-222, simulator.cpp:308).
UndefinedOnlyByDefault ==
    pc = "undefined" => file["max"] = Absent /\ file["min"] # Absent /\ file["min"] > 1
=============================================================================
