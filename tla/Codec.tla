------------------------------- MODULE Codec -------------------------------
(***************************************************************************)
(* The layout of a LoRaWAN frame: the marshal and unmarshal functions of   *)
(* src/core/payload.cpp.  A phy_payload is a record, a frame on the air a  *)
(* sequence of bytes; what throws is a predicate of its own.               *)
(*                                                                         *)
(* A vector of data_payload is the concatenation of its elements, none of  *)
(* which is ever empty, and _class_b shares the bit of _f_pending.         *)
(***************************************************************************)
EXTENDS Integers, Sequences

CONSTANTS
    AddrLen,      \* bytes of a device address: 4 in the program
    CharSigned    \* is char signed?  (byte is char)

ASSUME CodecAssumption ==
    /\ AddrLen \in Nat \ {0}
    /\ CharSigned \in BOOLEAN

Byte      == 0..255
HeaderLen == AddrLen + 3
MicLen    == 4

Reversed(s) == [i \in 1..Len(s) |-> s[Len(s) + 1 - i]]

JoinRequest         == 0
JoinAccept          == 1
UnconfirmedDataUp   == 2
UnconfirmedDataDown == 3
ConfirmedDataUp     == 4
ConfirmedDataDown   == 5
RejoinRequest       == 6
Proprietary         == 7

\* _f_port is a null pointer.
NoPort == 256

\* The mac_payload of a value-initialized phy_payload.
EmptyMac ==
    [addr |-> [i \in 1..AddrLen |-> 0],
     adr |-> FALSE, adrAckReq |-> FALSE, ack |-> FALSE, fPending |-> FALSE,
     fCnt |-> 0, fOpts |-> <<>>, fPort |-> NoPort, frm |-> <<>>]
-----------------------------------------------------------------------------
\* eui64::operator<, which is no ordering: it goes on after a byte that is
\* greater.
EuiLess(a, b) == \E i \in 1..8 : a[i] < b[i]
-----------------------------------------------------------------------------
\* mhdr.  The bits between the type and the version are dropped.  A shift of
\* a signed char keeps its sign, so the types from four on come out negative,
\* which no case of a switch matches.

MType(b) == IF CharSigned /\ b >= 128 THEN b \div 32 - 8 ELSE b \div 32

MhdrMarshal(p) == <<(p.mType % 8) * 32 + p.major>>

IsUplink(p) ==
    p.mType \in {JoinRequest, UnconfirmedDataUp, ConfirmedDataUp, RejoinRequest}
-----------------------------------------------------------------------------
\* f_ctrl

FCtrlMarshal(m) ==
    (IF m.adr THEN 128 ELSE 0) + (IF m.adrAckReq THEN 64 ELSE 0)
        + (IF m.ack THEN 32 ELSE 0) + (IF m.fPending THEN 16 ELSE 0)
        + (Len(m.fOpts) % 16)

Flag(b, mask) == (b \div mask) % 2 = 1

FOptsLen(b) == b % 16
-----------------------------------------------------------------------------
\* fhdr and mac_payload

FhdrMarshalThrows(m) == Len(m.fOpts) % 256 > 15

\* Of the frame counter the lower two bytes go on the air.
FhdrMarshal(m) ==
    Reversed(m.addr) \o <<FCtrlMarshal(m), m.fCnt % 256, (m.fCnt \div 256) % 256>> \o m.fOpts

MacMarshalThrows(m) ==
    \/ FhdrMarshalThrows(m)
    \/ m.fPort = NoPort /\ m.frm # <<>>
    \/ m.fPort = 0 /\ m.fOpts # <<>>

MacMarshal(m) ==
    FhdrMarshal(m) \o ((IF m.fPort = NoPort THEN <<>> ELSE <<m.fPort>>) \o m.frm)

\* Where the frame header ends: f_ctrl follows the address.
HeaderEnd(data) == HeaderLen + FOptsLen(data[AddrLen + 1])

\* Mutant: a frame without a port is taken for a short one.
MacUnmarshalThrowsAtEnd(data) ==
    \/ Len(data) < HeaderLen
    \/ Len(data) <= HeaderEnd(data)
    \/ /\ Len(data) > HeaderEnd(data) + 1
       /\ data[HeaderEnd(data) + 1] = 0
       /\ FOptsLen(data[AddrLen + 1]) > 0

\* A port of zero beside frame options is refused here only if there is a
\* payload too.
MacUnmarshalThrows(data) ==
    \/ Len(data) < HeaderLen
    \/ Len(data) < HeaderEnd(data)
    \/ /\ Len(data) > HeaderEnd(data) + 1
       /\ data[HeaderEnd(data) + 1] = 0
       /\ FOptsLen(data[AddrLen + 1]) > 0

\* The upper half of the frame counter is taken to be zero.
MacUnmarshal(data) ==
    LET ctrl == data[AddrLen + 1]
        end  == HeaderEnd(data)
    IN  [addr      |-> Reversed(SubSeq(data, 1, AddrLen)),
         adr       |-> Flag(ctrl, 128),
         adrAckReq |-> Flag(ctrl, 64),
         ack       |-> Flag(ctrl, 32),
         fPending  |-> Flag(ctrl, 16),
         fCnt      |-> data[AddrLen + 2] + 256 * data[AddrLen + 3],
         fOpts     |-> SubSeq(data, HeaderLen + 1, end),
         fPort     |-> IF Len(data) > end THEN data[end + 1] ELSE NoPort,
         frm       |-> SubSeq(data, end + 2, Len(data))]
-----------------------------------------------------------------------------
\* phy_payload

PhyMarshal(p) == MhdrMarshal(p) \o MacMarshal(p.mac) \o p.mic

\* These types leave the mac_payload as it was.
Unsupported == {JoinRequest, JoinAccept, RejoinRequest, Proprietary}

MacBytes(data) == SubSeq(data, 2, Len(data) - MicLen)

PhyUnmarshalThrows(data) ==
    \/ Len(data) < 1 + MicLen
    \/ MType(data[1]) \notin Unsupported /\ MacUnmarshalThrows(MacBytes(data))

PhyUnmarshal(data) ==
    [mType |-> MType(data[1]),
     major |-> data[1] % 4,
     mac   |-> IF MType(data[1]) \in Unsupported THEN EmptyMac
               ELSE MacUnmarshal(MacBytes(data)),
     mic   |-> SubSeq(data, Len(data) - MicLen + 1, Len(data))]

\* The bytes an integrity code is computed over: the frame is marshalled
\* again, from what unmarshal made of it.
Plain(p) == MhdrMarshal(p) \o MacMarshal(p.mac)
=============================================================================
