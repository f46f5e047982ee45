---------------------------- MODULE SetupProofs ----------------------------
(***************************************************************************)
(* Proofs about module Setup: whatever the counts in the file and whatever *)
(* gateways are drawn, init leaves a topology that module Gateway accepts, *)
(* and the maps of the gateways agree with the vectors of the devices.     *)
(***************************************************************************)
EXTENDS Setup, SequenceTheorems, TLAPS

Known == DOMAIN attached

\* Types, and where the counts have been tested.
CountsRead ==
    /\ file \in [Settings -> (0..Limit) \union {Absent}]
    /\ count \in [Settings -> Nat]
    /\ pc \in Pcs
    /\ pc # "threw" => /\ \A s \in Settings : count[s] > 0
                       /\ count["dev"] <= MaxDevices
    /\ \A s \in Settings : file[s] = Absent => count[s] = 1

\* The lists have the lengths their loops give them.
ListsGrow ==
    /\ attached \in [Known -> SUBSET (1..Current)]
    /\ route \in Seq(Known)
    /\ devices \in Seq(Seq(Known))
    /\ want \in Nat
    /\ pc \in {"device", "draw", "done", "undefined"} => Known = 1..count["max"]
    /\ pc \notin {"device", "draw", "done", "undefined"} => Known = {} /\ devices = <<>>
    /\ pc # "draw" => route = <<>>
    /\ pc = "draw" => /\ want \in count["min"]..count["max"]
                      /\ Len(route) <= want
                      /\ Len(devices) < count["dev"]
    /\ pc = "device" => Len(devices) <= count["dev"]
    /\ pc = "done" => Len(devices) = count["dev"]
    /\ \A d \in 1..Len(devices) : Len(devices[d]) \in count["min"]..count["max"]

SetupInv == CountsRead /\ ListsGrow /\ AttachedMatchesRoutes

-----------------------------------------------------------------------------
\* The three settings are different, and the limits are numbers.
LEMMA SettingFacts ==
    /\ "dev" \in Settings /\ "min" \in Settings /\ "max" \in Settings
    /\ Limit \in Nat /\ Absent \notin 0..Limit /\ MaxDevices \in Nat \ {0}
  BY SetupAssumption DEF Settings

\* Nothing is drawn yet.
LEMMA SetupInit == Init => SetupInv
<1> SUFFICES ASSUME Init PROVE SetupInv
  OBVIOUS
<1>1. CountsRead
  BY SettingFacts DEF Init, CountsRead, Pcs
<1>2. <<>> \in Seq(Known) /\ <<>> \in Seq(Seq(Known)) /\ Len(<<>>) = 0
  BY EmptySeq
<1>3. Known = {} /\ attached = [g \in {} |-> {}]
  BY DEF Init, Known
<1>4. ListsGrow
  BY <1>2, <1>3 DEF Init, ListsGrow
<1>5. AttachedMatchesRoutes
  BY <1>3 DEF AttachedMatchesRoutes, Known
<1>6. QED
  BY <1>1, <1>4, <1>5 DEF SetupInv

\* Reading a setting tests it.
LEMMA ReadKeeps ==
    ASSUME SetupInv, ReadDeviceCount \/ ReadMinCount \/ ReadMaxCount
    PROVE  SetupInv'
<1> DEFINE Effect(s, here, next) ==
        /\ pc = here /\ pc' \in {next, "threw"}
        /\ UNCHANGED <<file, want, route, devices, attached>>
        /\ \/ UNCHANGED count
           \/ /\ file[s] # Absent /\ count' = [count EXCEPT ![s] = file[s]]
              /\ pc' # "threw" => file[s] > 0 /\ (s = "dev" => file[s] <= MaxDevices)
<1>1. \/ Effect("dev", "read_dev", "read_min")
      \/ Effect("min", "read_min", "read_max")
      \/ Effect("max", "read_max", "gateways")
  <2>1. ASSUME ReadDeviceCount PROVE Effect("dev", "read_dev", "read_min")
    BY <2>1, SettingFacts DEF ReadDeviceCount, Read
  <2>2. ASSUME ReadMinCount PROVE Effect("min", "read_min", "read_max")
    BY <2>2, SettingFacts DEF ReadMinCount, Read
  <2>3. ASSUME ReadMaxCount PROVE Effect("max", "read_max", "gateways")
    <3>1. file["max"] # Absent => file["max"] \in Nat
      BY SettingFacts DEF SetupInv, CountsRead
    <3>2. count["min"] \in Nat /\ count["min"] > 0
      BY <2>3, SettingFacts DEF ReadMaxCount, Read, SetupInv, CountsRead
    <3>3. QED
      BY <2>3, <3>1, <3>2 DEF ReadMaxCount, Read
  <2>4. QED
    BY <2>1, <2>2, <2>3
<1>2. PICK s \in Settings, here \in {"read_dev", "read_min", "read_max"},
           next \in {"read_min", "read_max", "gateways"} : Effect(s, here, next)
  BY <1>1, SettingFacts
<1>3. file[s] # Absent => file[s] \in Nat
  BY SettingFacts DEF SetupInv, CountsRead
<1>4. count' \in [Settings -> Nat]
  BY <1>2, <1>3 DEF SetupInv, CountsRead
<1>5. pc' # "threw" => (\A t \in Settings : count'[t] > 0) /\ count'["dev"] <= MaxDevices
  BY <1>2, <1>3, SettingFacts DEF SetupInv, CountsRead
<1>6. CountsRead'
  BY <1>2, <1>4, <1>5 DEF SetupInv, CountsRead, Pcs
<1>7. ListsGrow'
  BY <1>2 DEF SetupInv, ListsGrow, Known, Current
<1>8. AttachedMatchesRoutes'
  BY <1>2 DEF SetupInv, AttachedMatchesRoutes, Occurs, RouteOf, Current
<1>9. QED
  BY <1>6, <1>7, <1>8 DEF SetupInv

\* The gateways have no devices at first.
LEMMA CreateGatewaysKeeps == ASSUME SetupInv, CreateGateways PROVE SetupInv'
<1>1. /\ pc = "gateways" /\ pc' = "device"
      /\ attached' = [g \in 1..count["max"] |-> {}]
      /\ devices = <<>> /\ route = <<>> /\ UNCHANGED <<file, count, want, route, devices>>
  BY DEF CreateGateways, SetupInv, ListsGrow
<1>2. CountsRead'
  BY <1>1 DEF SetupInv, CountsRead, Pcs
<1>3. <<>> \in Seq(Known') /\ <<>> \in Seq(Seq(Known')) /\ Len(<<>>) = 0
  BY EmptySeq
<1>4. Known' = 1..count'["max"] /\ attached' \in [Known' -> SUBSET (1..Current')]
  BY <1>1 DEF Known
<1>5. ListsGrow'
  <2>1. count["dev"] \in Nat /\ count' = count
    BY <1>1, SettingFacts DEF SetupInv, CountsRead
  <2>2. QED
    BY <1>1, <1>3, <1>4, <2>1 DEF SetupInv, ListsGrow
<1>6. AttachedMatchesRoutes'
  <2>1. Current' = 1
    BY <1>1, <1>3 DEF Current
  <2>2. \A g \in Known' : attached'[g] = {} /\ ~Occurs(g, <<>>)
    BY <1>1 DEF Known, Occurs
  <2>3. QED
    BY <1>1, <2>1, <2>2 DEF AttachedMatchesRoutes, RouteOf, Known
<1>7. QED
  BY <1>2, <1>5, <1>6 DEF SetupInv

\* The device at hand starts with an empty vector, and is in no map.
LEMMA BeginDeviceKeeps == ASSUME SetupInv, BeginDevice PROVE SetupInv'
<1>1. /\ pc = "device" /\ pc' \in {"draw", "undefined"} /\ route = <<>> /\ route' = <<>>
      /\ UNCHANGED <<file, count, devices, attached>>
      /\ Len(devices) # count["dev"]
      /\ want' \in Nat
      /\ pc' = "draw" => want' \in count["min"]..count["max"]
  BY SettingFacts DEF BeginDevice, Finished, SetupInv, ListsGrow, CountsRead
<1>2. CountsRead'
  BY <1>1 DEF SetupInv, CountsRead, Pcs
<1>3. Len(<<>>) = 0
  BY EmptySeq
<1>4. ListsGrow'
  <2>1. Len(devices) \in Nat /\ count["dev"] \in Nat
    BY LenProperties, SettingFacts DEF SetupInv, CountsRead, ListsGrow
  <2>2. Len(devices) < count["dev"]
    BY <1>1, <2>1 DEF SetupInv, ListsGrow
  <2>3. pc' = "draw" => Len(route') <= want'
    BY <1>1, <1>3
  <2>4. QED
    BY <1>1, <2>2, <2>3 DEF SetupInv, ListsGrow, Known, Current
<1>5. AttachedMatchesRoutes'
  BY <1>1 DEF SetupInv, AttachedMatchesRoutes, RouteOf, Current
<1>6. QED
  BY <1>2, <1>4, <1>5 DEF SetupInv

\* A drawn gateway and the device at hand learn of each other.
LEMMA DrawGatewayKeeps == ASSUME SetupInv, DrawGateway PROVE SetupInv'
<1>1. PICK g \in Known :
        /\ route' = Append(route, g)
        /\ attached' = [attached EXCEPT ![g] = @ \union {Current}]
  BY DEF DrawGateway, Known
<1>2. /\ pc = "draw" /\ Len(route) < want /\ UNCHANGED <<file, count, pc, want, devices>>
  BY DEF DrawGateway
<1>3. /\ Current \in Nat /\ Current \in 1..Current /\ Current' = Current
      /\ Len(devices) \in Nat /\ Current = Len(devices) + 1
  BY <1>2, LenProperties DEF SetupInv, ListsGrow, Current
<1>4. attached' \in [Known -> SUBSET (1..Current)] /\ Known' = Known
  BY <1>1, <1>3 DEF SetupInv, ListsGrow, Known
<1>5. /\ route' \in Seq(Known) /\ Len(route') = Len(route) + 1 /\ Len(route) \in Nat
      /\ \A i \in 1..Len(route) : route'[i] = route[i]
      /\ route'[Len(route) + 1] = g
  BY <1>1, AppendProperties, LenProperties DEF SetupInv, ListsGrow
<1>6. CountsRead'
  BY <1>2 DEF SetupInv, CountsRead
<1>7. ListsGrow'
  <2>1. Len(route') <= want'
    BY <1>2, <1>5 DEF SetupInv, ListsGrow
  <2>2. QED
    BY <1>2, <1>3, <1>4, <1>5, <2>1 DEF SetupInv, ListsGrow
<1>8. AttachedMatchesRoutes'
  <2>1. SUFFICES ASSUME NEW h \in Known, NEW d \in 1..Current
                 PROVE  d \in attached'[h] <=> Occurs(h, RouteOf(d)')
    BY <1>3, <1>4 DEF AttachedMatchesRoutes, Known, Occurs
  <2>2. d \in attached[h] <=> Occurs(h, RouteOf(d))
    BY DEF SetupInv, AttachedMatchesRoutes, Known
  <2>3. CASE d # Current
    <3>1. RouteOf(d)' = RouteOf(d)
      BY <1>2, <1>3, <2>3 DEF RouteOf
    <3>2. d \in attached'[h] <=> d \in attached[h]
      BY <1>1, <2>3 DEF SetupInv, ListsGrow
    <3>3. QED
      BY <2>2, <3>1, <3>2
  <2>4. CASE d = Current
    <3>1. RouteOf(d) = route /\ RouteOf(d)' = route'
      BY <1>3, <2>4 DEF RouteOf
    <3>2. DOMAIN route = 1..Len(route) /\ DOMAIN route' = 1..(Len(route) + 1)
      BY <1>5, LenProperties DEF SetupInv, ListsGrow
    <3>3. Occurs(h, route') <=> Occurs(h, route) \/ h = g
      BY <1>5, <3>2 DEF Occurs
    <3>4. d \in attached'[h] <=> d \in attached[h] \/ h = g
      BY <1>1, <2>4 DEF SetupInv, ListsGrow
    <3>5. QED
      BY <2>2, <3>1, <3>3, <3>4
  <2>5. QED
    BY <2>3, <2>4
<1>9. QED
  BY <1>6, <1>7, <1>8 DEF SetupInv

\* The finished vector joins the others; nobody knows the next device yet.
LEMMA EndDeviceKeeps == ASSUME SetupInv, EndDevice PROVE SetupInv'
<1>1. /\ pc = "draw" /\ pc' = "device" /\ Len(route) = want
      /\ devices' = Append(devices, route) /\ route' = <<>>
      /\ UNCHANGED <<file, count, want, attached>>
  BY DEF EndDevice
<1>2. PICK n \in Nat : n = Len(devices)
  BY LenProperties DEF SetupInv, ListsGrow
<1>3. /\ devices' \in Seq(Seq(Known)) /\ Len(devices') = n + 1
      /\ \A d \in 1..n : devices'[d] = devices[d]
      /\ devices'[n + 1] = route
  BY <1>1, <1>2, AppendProperties DEF SetupInv, ListsGrow
<1>4. Current = n + 1 /\ Current' = n + 2 /\ 1..Current \subseteq 1..Current'
  BY <1>2, <1>3 DEF Current
<1>5. CountsRead'
  BY <1>1 DEF SetupInv, CountsRead, Pcs
<1>6. ListsGrow'
  <2>1. \A d \in 1..Len(devices') : Len(devices'[d]) \in count["min"]..count["max"]
    BY <1>1, <1>2, <1>3 DEF SetupInv, ListsGrow
  <2>2. attached' \in [Known' -> SUBSET (1..Current')] /\ Known' = Known
    BY <1>1, <1>4 DEF SetupInv, ListsGrow, Known
  <2>3. <<>> \in Seq(Known)
    BY EmptySeq
  <2>4. Len(devices') <= count["dev"]
    <3>1. n < count["dev"] /\ count["dev"] \in Nat
      BY <1>1, <1>2, SettingFacts DEF SetupInv, ListsGrow, CountsRead
    <3>2. QED
      BY <1>3, <3>1
  <2>5. QED
    BY <1>1, <1>3, <2>1, <2>2, <2>3, <2>4 DEF SetupInv, ListsGrow
<1>7. AttachedMatchesRoutes'
  <2>1. SUFFICES ASSUME NEW g \in Known, NEW d \in 1..Current'
                 PROVE  d \in attached[g] <=> Occurs(g, RouteOf(d)')
    BY <1>1 DEF AttachedMatchesRoutes, Known, Occurs
  <2>2. CASE d = n + 2
    <3>1. RouteOf(d)' = <<>>
      BY <1>1, <1>4, <2>2 DEF RouteOf
    <3>2. ~Occurs(g, <<>>)
      BY DEF Occurs
    <3>3. d \notin attached[g]
      BY <1>4, <2>2 DEF SetupInv, ListsGrow
    <3>4. QED
      BY <3>1, <3>2, <3>3
  <2>3. CASE d # n + 2
    <3>1. d \in 1..Current
      BY <1>4, <2>3
    <3>2. RouteOf(d)' = devices'[d]
      BY <1>4, <2>3, <3>1 DEF RouteOf
    <3>3. devices'[d] = RouteOf(d)
      <4>1. d \in 1..n \/ d = n + 1
        BY <1>4, <3>1
      <4>2. CASE d = n + 1
        BY <1>3, <1>4, <4>2 DEF RouteOf
      <4>3. CASE d \in 1..n
        <5>1. d # Current
          BY <1>4, <4>3
        <5>2. QED
          BY <1>3, <4>3, <5>1 DEF RouteOf
      <4>4. QED
        BY <4>1, <4>2, <4>3
    <3>4. QED
      BY <3>1, <3>2, <3>3 DEF SetupInv, AttachedMatchesRoutes, Known
  <2>4. QED
    BY <2>2, <2>3
<1>8. QED
  BY <1>5, <1>6, <1>7 DEF SetupInv

\* When the last device is made init is done.
LEMMA EndInitKeeps == ASSUME SetupInv, EndInit PROVE SetupInv'
<1>1. /\ pc = "device" /\ pc' = "done" /\ Len(devices) = count["dev"]
      /\ UNCHANGED <<file, count, want, route, devices, attached>>
  BY DEF EndInit, Finished
<1>2. CountsRead'
  BY <1>1 DEF SetupInv, CountsRead, Pcs
<1>3. ListsGrow'
  BY <1>1 DEF SetupInv, ListsGrow, Known, Current
<1>4. AttachedMatchesRoutes'
  BY <1>1 DEF SetupInv, AttachedMatchesRoutes, RouteOf, Current
<1>5. QED
  BY <1>2, <1>3, <1>4 DEF SetupInv

\* The construction of the topology keeps all three parts of its invariant.
THEOREM SetupCorrect == Spec => []SetupInv
<1>1. SetupInv /\ [Next]_vars => SetupInv'
  <2>1. ASSUME SetupInv, UNCHANGED vars PROVE SetupInv'
    BY <2>1 DEF SetupInv, CountsRead, ListsGrow, AttachedMatchesRoutes, Known, Current,
         RouteOf, vars
  <2>2. QED
    BY <2>1, ReadKeeps, CreateGatewaysKeeps, BeginDeviceKeeps, DrawGatewayKeeps,
       EndDeviceKeeps, EndInitKeeps DEF Next
<1>2. QED
  BY SetupInit, <1>1, PTL DEF Spec

\* A device is in the map of a gateway exactly when the gateway is in its
\* vector, at every moment of the construction (device.cpp:30-33).
THEOREM AttachedCorrect == Spec => []AttachedMatchesRoutes
<1>1. SetupInv => AttachedMatchesRoutes
  BY DEF SetupInv
<1>2. QED
  BY SetupCorrect, <1>1, PTL

\* Where all three counts have been tested.
Tested == {"gateways", "device", "draw", "done", "undefined"}

\* A range is empty only where the largest count is the default.
DefaultAlone ==
    /\ pc \in {"read_max"} \union Tested /\ file["min"] # Absent => count["min"] = file["min"]
    /\ pc \in Tested => file["max"] = Absent \/ count["min"] <= count["max"]
    /\ pc = "undefined" => ~(count["min"] <= count["max"])

\* Wherever init is, what it knows of the counts excludes another cause of the
\* undefined draw than a smallest count without a largest
\* (simulator.cpp:216-222, simulator.cpp:308).
THEOREM UndefinedCorrect == Spec => []UndefinedOnlyByDefault
<1>1. Init => DefaultAlone
  BY DEF Init, DefaultAlone, Tested
<1>2. SetupInv /\ DefaultAlone /\ [Next]_vars => DefaultAlone'
  <2>1. SUFFICES ASSUME SetupInv, DefaultAlone, [Next]_vars PROVE DefaultAlone'
    OBVIOUS
  <2> USE DEF Tested
  <2>2. /\ count["min"] \in Nat /\ count["max"] \in Nat
        /\ count \in [Settings -> Nat] /\ SetupInv
    BY <2>1, SettingFacts DEF SetupInv, CountsRead
  <2>3. CASE ReadDeviceCount \/ ReadMinCount
    BY <2>1, <2>2, <2>3, SettingFacts DEF ReadDeviceCount, ReadMinCount, Read, DefaultAlone
  <2>4. CASE ReadMaxCount
    BY <2>1, <2>2, <2>4, SettingFacts DEF ReadMaxCount, Read, DefaultAlone
  <2>5. CASE BeginDevice
    BY <2>1, <2>2, <2>5 DEF BeginDevice, DefaultAlone
  <2>6. CASE CreateGateways \/ DrawGateway \/ EndDevice \/ EndInit
    BY <2>1, <2>6 DEF CreateGateways, DrawGateway, EndDevice, EndInit, DefaultAlone
  <2>7. CASE UNCHANGED vars
    BY <2>1, <2>7 DEF vars, DefaultAlone
  <2>8. QED
    BY <2>1, <2>3, <2>4, <2>5, <2>6, <2>7 DEF Next
<1>3. SetupInv /\ DefaultAlone => UndefinedOnlyByDefault
  <2>1. SUFFICES ASSUME SetupInv, DefaultAlone, pc = "undefined"
                 PROVE  file["max"] = Absent /\ file["min"] # Absent /\ file["min"] > 1
    BY DEF UndefinedOnlyByDefault
  <2>2. QED
    <3>1. ~(count["min"] <= count["max"]) /\ file["max"] = Absent
      BY <2>1 DEF DefaultAlone, Tested
    <3>2. /\ count["min"] \in Nat /\ count["max"] = 1
          /\ file["min"] = Absent => count["min"] = 1
      BY <2>1, <3>1, SettingFacts DEF SetupInv, CountsRead
    <3>3. file["min"] # Absent => count["min"] = file["min"]
      BY <2>1 DEF DefaultAlone, Tested
    <3>4. QED
      BY <3>1, <3>2, <3>3
<1>4. QED
  BY <1>1, <1>2, <1>3, SetupCorrect, PTL DEF Spec

\* What init leaves is a topology for the simulation, for all counts
\* (simulator.cpp:303-335).
THEOREM TopologyCorrect == Spec => []TopologyReady
<1>1. SetupInv => TopologyReady
  <2>1. SUFFICES ASSUME SetupInv, pc = "done"
                 PROVE  /\ Len(devices) = count["dev"] /\ count["dev"] \in 1..MaxDevices
                        /\ \A d \in 1..Len(devices) :
                              /\ devices[d] \in Seq(Known) \ {<<>>}
                              /\ Len(devices[d]) \in count["min"]..count["max"]
    BY DEF TopologyReady, Known
  <2>2. Len(devices) = count["dev"] /\ count["dev"] \in 1..MaxDevices /\ count["min"] > 0
    BY <2>1, SettingFacts DEF SetupInv, CountsRead, ListsGrow
  <2>3. ASSUME NEW d \in 1..Len(devices)
        PROVE  devices[d] \in Seq(Known) \ {<<>>} /\ Len(devices[d]) \in count["min"]..count["max"]
    <3>1. devices[d] \in Seq(Known) /\ Len(devices[d]) \in count["min"]..count["max"]
      BY <2>1, ElementOfSeq DEF SetupInv, ListsGrow
    <3>2. Len(<<>>) = 0
      BY EmptySeq
    <3>3. count["min"] \in Nat
      BY <2>1, SettingFacts DEF SetupInv, CountsRead
    <3>4. QED
      BY <2>2, <3>1, <3>2, <3>3
  <2>4. QED
    BY <2>2, <2>3
<1>2. QED
  BY SetupCorrect, <1>1, PTL
=============================================================================
