------------------------------- MODULE Session -------------------------------
(***************************************************************************)
(* One frame between one device and the network server, from the           *)
(* configuration file to the payload at the other end:                     *)
(*                                                                         *)
(*  - init (src/core/simulator.cpp) gives the device its address and keys; *)
(*    whoever wrote the file activates the same devices at the server, as  *)
(*    README.md describes them;                                            *)
(*  - send_data encrypts, signs and marshals, and the gateway puts the     *)
(*    frame into its packet as Base64;                                     *)
(*  - downlink_loop and handle_data take a frame of the server apart.      *)
(*                                                                         *)
(* The ciphers are ideal.  The frame on its way carries the one integrity  *)
(* code and the one key stream its sender computed; whoever computes from  *)
(* anything else gets other bytes.  Counters at the device are in module   *)
(* Device.                                                                 *)
(***************************************************************************)
EXTENDS Base64, Codec

CONSTANTS
    Word,          \* half a key: 2^64 in the program
    W16,           \* 2^16: ports and the frame counter on the air
    BlockLen,      \* bytes of a cipher block: 16 in the program
    Files,         \* configuration files
    DeviceCount,
    Downlinks,     \* frames the server may send
    Cuts,          \* bound: where the text of a downlink may be harmed
    Payload,       \* config::_payload
    Absent         \* the file does not have the setting

Key == [hi : 0..(Word - 1), lo : 0..(Word - 1)]

\* The settings used here, and the address under the name of README.md.
File ==
    [port : Int, addr : {Absent} \union [digits : Nat, value : Nat], address : Nat,
     nwk : Key, app : Key, fPort : Int, fCnt : Int]

Downlink ==
    [mType : 0..7, rfu : 0..7, major : 0..3, flags : 0..15, fCnt : Nat,
     fOpts : {opts \in Seq(Byte) : Len(opts) <= 15}, fPort : 0..NoPort, data : Seq(Byte)]

ASSUME SessionAssumption ==
    /\ Word \in Nat \ {0} /\ W16 \in 1..(256 * 256) /\ BlockLen \in Nat \ {0}
    /\ Files \subseteq File
    /\ DeviceCount \in 1..Word
    /\ Downlinks \subseteq Downlink /\ Downlinks # {}
    /\ \A d \in Downlinks : d.data # <<>> => d.fPort # NoPort
    /\ Cuts \subseteq Nat
    /\ Payload \in Seq(Byte) \ {<<>>}

VARIABLES
    file,      \* the configuration file
    pc,
    self,      \* which device, from 0
    device,    \* its address, keys, port and uplink counter
    target,    \* the device the server has sent its frame to
    down,      \* that frame
    signed,    \* what the integrity code on the air was computed over
    stream,    \* the key stream on the air
    frame,     \* the bytes on the air
    text,      \* these as text
    harmed,    \* has the text been changed, from which character on?
    result     \* what the receiver made of it

channelVars == <<signed, stream, frame, text, harmed>>
vars == <<file, pc, self, device, target, down, channelVars, result>>

Pcs   == {"init", "threw", "idle", "sent", "answered", "read", "taken"}
Kinds == {"none", "refused", "read",
          "undecodable", "unsupported", "threw", "invalid", "handled"}
Nothing == [kind |-> "none", port |-> 0, data |-> <<>>]
Unharmed == -1

Init ==
    /\ file \in Files
    /\ pc = "init"
    /\ self = 0
    /\ device = [addr |-> EmptyMac.addr, nwk |-> file.nwk, app |-> file.app,
                 fPort |-> 0, fCntUp |-> 0]
    /\ target = 0
    /\ down = CHOOSE d \in Downlinks : TRUE
    /\ signed = <<>> /\ stream = <<>>
    /\ frame = <<>> /\ text = <<>> /\ harmed = Unharmed
    /\ result = Nothing
-----------------------------------------------------------------------------
\* init

\* 256 to the power of n.
Weight ==
    LET weight[n \in 0..AddrLen] == IF n = 0 THEN 1 ELSE 256 * weight[n - 1]
    IN  weight

AddrBase == Weight[AddrLen]

BigEndian(n) == [i \in 1..AddrLen |-> (n \div Weight[AddrLen - i]) % 256]

\* _port is a uint16_t and narrowed before it is compared with zero.
NarrowPort == file.port % W16

\* The setting is called first_addr here and must have twice the digits of an
\* address; README.md calls it first_address, which init never looks for.
Refused ==
    \/ NarrowPort = 0
    \/ file.addr # Absent /\ file.addr.digits # 4 * AddrLen
    \/ file.fPort <= 0
    \/ file.fCnt < 0

InitThrows ==
    /\ pc = "init"
    /\ Refused
    /\ pc' = "threw"
    /\ UNCHANGED <<file, self, device, target, down, channelVars, result>>

\* Reading hexadecimal digits that do not fit gives the largest number.
FirstAddr ==
    IF file.addr = Absent THEN 0
    ELSE IF file.addr.value >= AddrBase THEN AddrBase - 1 ELSE file.addr.value

\* Mutant: the upper half is incremented.
AddKeyUpper(key, k) == [hi |-> (key.hi + k) % Word, lo |-> key.lo]

\* The lower half wraps by itself.
AddKey(key, k) == [hi |-> key.hi, lo |-> (key.lo + k) % Word]

\* Mutant: the port keeps its width.
MadeWide(k) ==
    [addr   |-> BigEndian((FirstAddr + k) % AddrBase),
     nwk    |-> AddKey(file.nwk, k),
     app    |-> AddKey([hi |-> file.nwk.hi, lo |-> file.app.lo], k),
     fPort  |-> file.fPort,
     fCntUp |-> file.fCnt]

\* The upper half of the application session key is read from the network
\* session key.
Made(k) ==
    [addr   |-> BigEndian((FirstAddr + k) % AddrBase),
     nwk    |-> AddKey(file.nwk, k),
     app    |-> AddKey([hi |-> file.nwk.hi, lo |-> file.app.lo], k),
     fPort  |-> file.fPort % 256,
     fCntUp |-> file.fCnt]

MakeDevice(k) ==
    /\ pc = "init"
    /\ ~Refused
    /\ pc' = "idle"
    /\ self' = k
    /\ device' = Made(k)
    /\ UNCHANGED <<file, target, down, channelVars, result>>
-----------------------------------------------------------------------------
\* The ciphers.  The code on the air is SignedCode; any other input gives
\* OtherCode, which no frame ends with.  Key streams differ likewise, and block
\* by block.

SignedCode == <<17, 130, 255, 64>>
OtherCode  == <<>>

Cmac(input, onAir) == IF input = onAir THEN SignedCode ELSE OtherCode

KeyByte(id, onAir, i) ==
    ((IF id = onAir THEN 90 ELSE 165) + (i - 1) \div BlockLen) % 256

\* Bit by bit.
Xor(a, b) ==
    LET bit(weight) == weight * ((a \div weight + b \div weight) % 2)
    IN  bit(1) + bit(2) + bit(4) + bit(8) + bit(16) + bit(32) + bit(64) + bit(128)

Cipher(data, id, onAir) == [i \in 1..Len(data) |-> Xor(data[i], KeyByte(id, onAir, i))]

\* Mutant: every key stream is that of an uplink.
StreamOfUplink(p, key) ==
    [key |-> key, up |-> TRUE, addr |-> Reversed(p.mac.addr), fCnt |-> p.mac.fCnt]

\* encrypt_frm_payload: what the key stream depends on.
StreamOf(p, key) ==
    [key |-> key, up |-> IsUplink(p), addr |-> Reversed(p.mac.addr), fCnt |-> p.mac.fCnt]

\* calculate_uplink_data_mic and calculate_downlink_data_mic for LoRaWAN 1.0,
\* where no other counter enters.
MicInput(p, key, up) ==
    [key |-> key, up |-> up, addr |-> Reversed(p.mac.addr), fCnt |-> p.mac.fCnt,
     len |-> Len(Plain(p)) % 256, plain |-> Plain(p)]
-----------------------------------------------------------------------------
\* The server (external) knows the devices of README.md:98-102.

Registered(k) ==
    [addr |-> file.address + k,
     nwk  |-> [hi |-> file.nwk.hi + (file.nwk.lo + k) \div Word, lo |-> (file.nwk.lo + k) % Word],
     app  |-> [hi |-> file.app.hi + (file.app.lo + k) \div Word, lo |-> (file.app.lo + k) % Word]]

\* It reads a frame by the layout of LoRaWAN.
ServerReads ==
    /\ pc = "sent"
    /\ LET end   == HeaderEnd(Tail(frame)) + 1
           addr  == SubSeq(frame, 2, 1 + AddrLen)
           plain == SubSeq(frame, 1, Len(frame) - MicLen)
           known == Registered(self)
           input == [key |-> known.nwk, up |-> TRUE, addr |-> addr, fCnt |-> device.fCntUp - 1,
                     len |-> Len(plain) % 256, plain |-> plain]
           port  == frame[end + 1]
           id    == [key |-> IF port = 0 THEN known.nwk ELSE known.app,
                     up |-> TRUE, addr |-> addr, fCnt |-> device.fCntUp - 1]
           data  == Cipher(SubSeq(plain, end + 2, Len(plain)), id, stream)
       IN  IF /\ NarrowPort = file.port
              /\ text = Base64Of(frame)
              /\ known.addr < AddrBase
              /\ addr = Reversed(BigEndian(known.addr))
              /\ SubSeq(frame, Len(plain) + 1, Len(frame)) = Cmac(input, signed)
           THEN result' = [kind |-> "read", port |-> port, data |-> data]
           ELSE result' = [kind |-> "refused", port |-> 0, data |-> <<>>]
    /\ pc' = "read"
    /\ UNCHANGED <<file, self, device, target, down, channelVars>>

\* What it writes: for any of its devices, any frame.
DownAddr(k) == Reversed(BigEndian(Registered(k).addr))

DownStream(k, d) ==
    [key |-> IF d.fPort = 0 THEN Registered(k).nwk ELSE Registered(k).app,
     up |-> FALSE, addr |-> DownAddr(k), fCnt |-> d.fCnt]

DownPlain(k, d) ==
    LET control == <<d.flags * 16 + Len(d.fOpts), d.fCnt % 256, (d.fCnt \div 256) % 256>>
        port    == IF d.fPort = NoPort THEN <<>> ELSE <<d.fPort>>
    IN  <<d.mType * 32 + d.rfu * 4 + d.major>> \o
            (DownAddr(k) \o control \o d.fOpts \o
                (port \o Cipher(d.data, DownStream(k, d), DownStream(k, d))))

DownSigned(k, d) ==
    [key |-> Registered(k).nwk, up |-> FALSE, addr |-> DownAddr(k), fCnt |-> d.fCnt,
     len |-> Len(DownPlain(k, d)) % 256, plain |-> DownPlain(k, d)]

\* All devices of a gateway get it.
ServerSends(k, d) ==
    /\ pc = "idle"
    /\ Registered(k).addr < AddrBase
    /\ stream' = DownStream(k, d)
    /\ signed' = DownSigned(k, d)
    /\ frame' = DownPlain(k, d) \o SignedCode
    /\ text' = Base64Of(frame')
    /\ target' = k
    /\ down' = d
    /\ pc' = "answered"
    /\ UNCHANGED <<file, self, device, harmed, result>>

\* The text ends, or goes on with something else, after n characters.
HarmText(n) ==
    /\ pc = "answered"
    /\ harmed = Unharmed
    /\ n < Len(text)
    /\ harmed' = n
    /\ \/ text' = SubSeq(text, 1, n)
       \/ text' = [text EXCEPT ![n + 1] = Foreign]
    /\ UNCHANGED <<file, pc, self, device, target, down, signed, stream, frame, result>>
-----------------------------------------------------------------------------
\* device::send_data and send_uplink; generate_push_data_packet.

UpPhy(dev, frm) ==
    [mType |-> UnconfirmedDataUp, major |-> 0,
     mac |-> [EmptyMac EXCEPT !.addr = dev.addr, !.fCnt = dev.fCntUp,
                              !.fPort = dev.fPort, !.frm = frm]]

UpStream(dev) == StreamOf(UpPhy(dev, Payload), dev.app)

\* The frame once its payload is encrypted.
UpSealed(dev) == UpPhy(dev, Cipher(Payload, UpStream(dev), UpStream(dev)))

UpSigned(dev) == MicInput(UpSealed(dev), dev.nwk, TRUE)

\* f_cnt is an int and one frame is sent: the counter does not wrap here (in
\* module Device it does).
SendData ==
    /\ pc = "idle"
    /\ stream' = UpStream(device)
    /\ signed' = UpSigned(device)
    /\ frame' = Plain(UpSealed(device)) \o Cmac(UpSigned(device), UpSigned(device))
    /\ text' = Encode(frame')
    /\ device' = [device EXCEPT !.fCntUp = @ + 1]
    /\ pc' = "sent"
    /\ UNCHANGED <<file, self, target, down, harmed, result>>
-----------------------------------------------------------------------------
\* device::downlink_loop and handle_data

Received == Decode(text)
Phy == PhyUnmarshal(Received)

Taken(kind, port, data) ==
    /\ pc = "answered"
    /\ pc' = "taken"
    /\ result' = [kind |-> kind, port |-> port, data |-> data]
    /\ UNCHANGED <<file, self, device, target, down, channelVars>>

Decodable == ~PhyUnmarshalThrows(Received)

HandleUndecodable ==
    /\ ~Decodable
    /\ Taken("undecodable", 0, <<>>)

HandleJoinAccept ==
    /\ Decodable
    /\ Phy.mType = JoinAccept
    /\ Taken("unsupported", 0, <<>>)

HandleUnexpected ==
    /\ Decodable
    /\ Phy.mType \notin {JoinAccept, UnconfirmedDataDown, ConfirmedDataDown}
    /\ Taken("threw", 0, <<>>)

\* The code is computed over the frame marshalled again, which may throw.
ValidMic ==
    /\ ~MacMarshalThrows(Phy.mac)
    /\ Cmac(MicInput(Phy, device.nwk, FALSE), signed) = Phy.mic

IsDataDown == Decodable /\ Phy.mType \in {UnconfirmedDataDown, ConfirmedDataDown}

HandleInvalid ==
    /\ IsDataDown
    /\ ~ValidMic
    /\ Taken("invalid", 0, <<>>)

\* Only a frame with a port is decrypted.  The address is compared with
\* nothing but the code.
HandleData ==
    /\ IsDataDown
    /\ ValidMic
    /\ IF Phy.mac.fPort \in {NoPort, 0}
       THEN Taken("handled", 0, <<>>)
       ELSE Taken("handled", Phy.mac.fPort,
                  Cipher(Phy.mac.frm, StreamOf(Phy, device.app), stream))
-----------------------------------------------------------------------------
DownlinkFrame ==
    \/ HandleUndecodable \/ HandleJoinAccept \/ HandleUnexpected
    \/ HandleInvalid \/ HandleData

Next ==
    \/ InitThrows
    \/ \E k \in 0..(DeviceCount - 1) : MakeDevice(k)
    \/ SendData \/ ServerReads
    \/ \E k \in 0..(DeviceCount - 1), d \in Downlinks : ServerSends(k, d)
    \/ \E n \in Cuts : HarmText(n)
    \/ DownlinkFrame

Spec == Init /\ [][Next]_vars
-----------------------------------------------------------------------------
\* The type invariant.
TypeOK ==
    /\ file \in Files
    /\ pc \in Pcs
    /\ self \in 0..(DeviceCount - 1) /\ target \in 0..(DeviceCount - 1)
    /\ device.addr \in [1..AddrLen -> Byte]
    /\ \A key \in {device.nwk, device.app} : key.hi \in 0..(Word - 1) /\ key.lo \in 0..(Word - 1)
    /\ device.fPort \in Byte /\ device.fCntUp \in Nat
    /\ down \in Downlinks
    /\ frame \in Seq(Byte)
    /\ text \in Seq(0..Foreign)
    /\ harmed \in Nat \union {Unharmed}
    /\ result.kind \in Kinds /\ result.port \in Byte /\ result.data \in Seq(Byte)

\* How many characters of a frame carry bits of it, and whether all are there.
Whole == harmed = Unharmed \/ harmed >= CharCount(Len(frame))

\* Base64 is Base64, and what decodes of a text that is cut or has something
\* foreign in it is the bytes that were complete before
\* (helper.cpp:32-73, gateway.cpp:193, device.cpp:97).
TextCarriesFrame ==
    /\ pc \in {"sent", "read"} => text = Base64Of(frame)
    /\ pc \in {"answered", "taken"} =>
           Decode(text) = IF Whole THEN frame ELSE SubSeq(frame, 1, (6 * harmed) \div 8)

\* The files init is faithful to: a port and an FPort that fit, the address
\* under the name init looks for, no carry in the network session key, and an
\* application session key whose upper half is that of the network session
\* key.  Whatever else README.md:45 and README.md:98-102 admit is where the
\* code departs from them (DocumentedUplinkIsRead).
Faithful ==
    /\ file.port \in 0..(W16 - 1)
    /\ file.fPort < 256
    /\ file.address = FirstAddr /\ file.address + self < AddrBase
    /\ file.nwk.lo + self < Word
    /\ file.app.hi + (file.app.lo + self) \div Word = file.nwk.hi

PayloadRead == [kind |-> "read", port |-> file.fPort, data |-> Payload]

\* Of such a file the server reads the payload of every device: address, keys,
\* counter, integrity code, encryption and text fit together
\* (simulator.cpp:75-301, device.cpp:43-71).
UplinkIsRead == pc = "read" /\ Faithful => result = PayloadRead

\* A file by README.md:43-55, under its names and without an overflow.
Documented ==
    /\ file.port \in 1..(W16 - 1) /\ file.fPort \in 1..255
    /\ file.addr = Absent
    /\ LET known == Registered(self)
       IN  known.addr < AddrBase /\ known.nwk.hi < Word /\ known.app.hi < Word

\* README.md:98-102 tells the address and keys of the k-th device, and
\* README.md:112 to activate it with them: then the server reads its payload.
DocumentedUplinkIsRead == pc = "read" /\ Documented => result = PayloadRead

\* What a device handles was sent to it, unharmed, and it takes the port and,
\* with the right key, the payload the server sent.  It is never told by the
\* address, only by its key (device.cpp:124-153, payload.cpp:408-467).
HandledIsAuthentic ==
    result.kind = "handled" =>
        /\ Whole
        /\ target = self
        /\ result.port = (IF down.fPort = NoPort THEN 0 ELSE down.fPort)
        /\ result.port # 0 =>
               (result.data = down.data
                    <=> device.app = Registered(self).app \/ down.data = <<>>)

\* A data frame that the server sent to the device is handled, provided that
\* what unmarshal drops is zero (the reserved bits of the header, the upper
\* half of the counter), that its type is one a char holds, and that it has
\* no frame options beside a port of zero (payload.cpp:159-216).
GenuineIsHandled ==
    (/\ pc = "taken"
     /\ Whole
     /\ target = self /\ device.nwk = Registered(self).nwk
     /\ down.mType \in (IF CharSigned THEN {UnconfirmedDataDown}
                        ELSE {UnconfirmedDataDown, ConfirmedDataDown})
     /\ down.rfu = 0
     /\ down.fCnt < W16
     /\ ~(down.fPort = 0 /\ down.fOpts # <<>>))
    => result.kind = "handled"
=============================================================================
