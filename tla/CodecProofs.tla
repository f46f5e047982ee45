---------------------------- MODULE CodecProofs ----------------------------
(***************************************************************************)
(* What holds of the encodings for every frame, whatever its length and    *)
(* its bytes: of marshal and unmarshal (module Codec), and of              *)
(* base64_encode and base64_decode (module Base64), each loop of which is  *)
(* followed three bytes, or four characters, at a time.                    *)
(***************************************************************************)
EXTENDS Base64, Codec, SequenceTheorems, WellFoundedInduction, TLAPS

\* What the four flags of a mac_payload and the length of its frame options
\* put into f_ctrl can be taken out again.
LEMMA FlagsSurvive ==
    ASSUME NEW a \in 0..1, NEW b \in 0..1, NEW c \in 0..1, NEW d \in 0..1, NEW n \in 0..15,
           NEW x \in Int, x = 128 * a + 64 * b + 32 * c + 16 * d + n
    PROVE  /\ (x \div 128) % 2 = a /\ (x \div 64) % 2 = b
           /\ (x \div 32) % 2 = c /\ (x \div 16) % 2 = d
           /\ x % 16 = n
BY SMTT(60)

\* And the other way around: f_ctrl is its flags and the length.
LEMMA FlagsComplete ==
    ASSUME NEW x \in Byte
    PROVE  \E a \in 0..1, b \in 0..1, c \in 0..1, d \in 0..1, n \in 0..15 :
              /\ x = 128 * a + 64 * b + 32 * c + 16 * d + n
              /\ (x \div 128) % 2 = a /\ (x \div 64) % 2 = b
              /\ (x \div 32) % 2 = c /\ (x \div 16) % 2 = d
              /\ x % 16 = n
<1>1. PICK q \in 0..15, n \in 0..15 : x = 16 * q + n
  BY DEF Byte
<1>2. PICK a \in 0..1, b \in 0..1, c \in 0..1, d \in 0..1 : q = 8 * a + 4 * b + 2 * c + d
  OBVIOUS
<1>3. x \in Int /\ x = 128 * a + 64 * b + 32 * c + 16 * d + n
  BY <1>1, <1>2
<1>4. QED
  BY <1>3, FlagsSurvive

\* The two bytes of the counter.
LEMMA CounterBytes ==
    ASSUME NEW low \in Byte, NEW high \in Byte
    PROVE  /\ (low + 256 * high) % 256 = low
           /\ ((low + 256 * high) \div 256) % 256 = high
BY DEF Byte

\* What is left of a counter of which two bytes are sent.
LEMMA CounterHalf ==
    ASSUME NEW n \in Nat
    PROVE  (n % 256) + 256 * ((n \div 256) % 256) = n % 65536
<1>1. PICK q \in Nat : q = n \div 256
  OBVIOUS
<1>2. PICK r \in Nat : r = n % 256
  OBVIOUS
<1>3. n = 256 * q + r /\ r \in 0..255
  BY <1>1, <1>2
<1>4. PICK p \in Nat : p = q \div 256
  OBVIOUS
<1>5. PICK s \in Nat : s = q % 256
  OBVIOUS
<1>6. q = 256 * p + s /\ s \in 0..255
  BY <1>4, <1>5
<1>7. PICK t \in Nat : t = n % 65536
  OBVIOUS
<1>8. PICK u \in Nat : u = n \div 65536
  OBVIOUS
<1>9. n = 65536 * u + t /\ t <= 65535
  BY <1>7, <1>8
<1>10. r + 256 * s = t
  BY <1>3, <1>6, <1>9
<1>11. QED
  BY <1>1, <1>2, <1>5, <1>7, <1>10

\* An address is turned around on the air, and turned back when it is read.
LEMMA ReversedTwice ==
    ASSUME NEW S, NEW s \in Seq(S)
    PROVE  /\ Reversed(s) \in Seq(S) /\ Len(Reversed(s)) = Len(s)
           /\ Reversed(Reversed(s)) = s
<1>1. Len(s) \in Nat /\ s \in [1..Len(s) -> S]
  BY LenProperties
<1>2. ASSUME NEW t \in Seq(S)
      PROVE  /\ Reversed(t) \in Seq(S) /\ Len(Reversed(t)) = Len(t)
             /\ \A i \in 1..Len(t) : Reversed(t)[i] = t[Len(t) + 1 - i]
  <2>1. Len(t) \in Nat /\ \A i \in 1..Len(t) : Len(t) + 1 - i \in 1..Len(t)
    BY LenProperties
  <2>2. \A i \in 1..Len(t) : t[Len(t) + 1 - i] \in S
    BY <2>1, ElementOfSeq
  <2>3. QED
    BY <2>1, <2>2, SMTT(30) DEF Reversed
<1>3. Reversed(s) \in Seq(S) /\ Len(Reversed(s)) = Len(s)
  BY <1>2
<1>4. Reversed(Reversed(s)) \in Seq(S) /\ Len(Reversed(Reversed(s))) = Len(s)
  BY <1>2, <1>3
<1>5. ASSUME NEW i \in 1..Len(s) PROVE Reversed(Reversed(s))[i] = s[i]
  <2>1. Len(s) + 1 - i \in 1..Len(s) /\ Len(s) + 1 - (Len(s) + 1 - i) = i
    BY <1>1
  <2>2. Reversed(Reversed(s))[i] = Reversed(s)[Len(s) + 1 - i]
    BY <1>2, <1>3
  <2>3. Reversed(s)[Len(s) + 1 - i] = s[Len(s) + 1 - (Len(s) + 1 - i)]
    BY <1>2, <2>1
  <2>4. QED
    BY <2>1, <2>2, <2>3
<1>6. QED
  BY <1>3, <1>4, <1>5, SeqEqual
-----------------------------------------------------------------------------
\* unmarshal and then marshal

\* Where the frame options are, and that they are read whole.
LEMMA OptionsRead ==
    ASSUME NEW data \in Seq(Byte), ~MacUnmarshalThrows(data)
    PROVE  /\ HeaderLen = AddrLen + 3 /\ AddrLen \in Nat \ {0}
           /\ Len(data) \in Nat /\ HeaderLen <= HeaderEnd(data) /\ HeaderEnd(data) <= Len(data)
           /\ HeaderEnd(data) \in Nat
           /\ FOptsLen(data[AddrLen + 1]) \in 0..15
           /\ MacUnmarshal(data).fOpts \in Seq(Byte)
           /\ Len(MacUnmarshal(data).fOpts) = FOptsLen(data[AddrLen + 1])
<1>1. AddrLen \in Nat \ {0} /\ Len(data) \in Nat /\ HeaderLen = AddrLen + 3
  BY CodecAssumption, LenProperties DEF HeaderLen
<1>2. Len(data) >= HeaderLen /\ Len(data) >= HeaderEnd(data)
  <2>1. PICK n \in Byte : n = data[AddrLen + 1]
    <3>1. ~(Len(data) < HeaderLen)
      BY DEF MacUnmarshalThrows
    <3>2. AddrLen + 1 \in 1..Len(data)
      BY <1>1, <3>1
    <3>3. QED
      BY <3>2, ElementOfSeq
  <2>2. FOptsLen(n) \in Nat
    BY DEF FOptsLen, Byte
  <2>3. ~(Len(data) < HeaderLen) /\ ~(Len(data) < HeaderLen + FOptsLen(n))
    BY <2>1 DEF MacUnmarshalThrows, HeaderEnd
  <2>4. QED
    BY <1>1, <2>1, <2>2, <2>3 DEF HeaderEnd
<1>3. data[AddrLen + 1] \in Byte
  BY <1>1, <1>2, ElementOfSeq
<1>4. PICK n \in 0..15 : n = FOptsLen(data[AddrLen + 1])
  <2>1. PICK x \in Byte : x = data[AddrLen + 1]
    BY <1>3
  <2>2. FOptsLen(x) \in 0..15
    BY DEF FOptsLen, Byte
  <2>3. QED
    BY <2>1, <2>2
<1>5. HeaderEnd(data) = HeaderLen + n
  BY <1>4 DEF HeaderEnd
<1>6. MacUnmarshal(data).fOpts = SubSeq(data, HeaderLen + 1, HeaderLen + n)
  BY <1>5 DEF MacUnmarshal
<1>7. \A i \in (HeaderLen + 1)..(HeaderLen + n) : data[i] \in Byte
  BY <1>1, <1>2, <1>5, ElementOfSeq
<1>8. MacUnmarshal(data).fOpts \in Seq(Byte) /\ Len(MacUnmarshal(data).fOpts) = n
  <2>1. PICK first \in Int, last \in Int : first = HeaderLen + 1 /\ last = HeaderLen + n
    BY <1>1
  <2>2. \A i \in first..last : data[i] \in Byte
    BY <1>7, <2>1
  <2>3. /\ SubSeq(data, first, last) \in Seq(Byte)
        /\ Len(SubSeq(data, first, last)) = IF first <= last THEN last - first + 1 ELSE 0
    BY <2>2, SubSeqProperties
  <2>4. (IF first <= last THEN last - first + 1 ELSE 0) = n
    BY <1>1, <2>1
  <2>5. QED
    BY <1>6, <2>1, <2>3, <2>4
<1>9. QED
  BY <1>1, <1>2, <1>4, <1>5, <1>8

\* f_ctrl comes back as it was.
LEMMA FCtrlComesBack ==
    ASSUME NEW data \in Seq(Byte), ~MacUnmarshalThrows(data)
    PROVE  FCtrlMarshal(MacUnmarshal(data)) = data[AddrLen + 1]
<1> DEFINE m == MacUnmarshal(data)
<1>1. AddrLen + 1 \in 1..Len(data)
  BY OptionsRead
<1>2. PICK x \in Byte : x = data[AddrLen + 1]
  BY <1>1, ElementOfSeq
<1>3. PICK a \in 0..1, b \in 0..1, c \in 0..1, d \in 0..1, n \in 0..15 :
         /\ x = 128 * a + 64 * b + 32 * c + 16 * d + n
         /\ (x \div 128) % 2 = a /\ (x \div 64) % 2 = b
         /\ (x \div 32) % 2 = c /\ (x \div 16) % 2 = d
         /\ x % 16 = n
  BY FlagsComplete
<1>4. /\ m.adr = (a = 1) /\ m.adrAckReq = (b = 1) /\ m.ack = (c = 1) /\ m.fPending = (d = 1)
  BY <1>2, <1>3 DEF MacUnmarshal, Flag
<1>5. Len(m.fOpts) % 16 = n
  <2>1. Len(m.fOpts) = n
    BY <1>2, <1>3, OptionsRead DEF FOptsLen
  <2>2. QED
    BY <2>1
<1> HIDE DEF m
<1>6. /\ (IF m.adr THEN 128 ELSE 0) = 128 * a /\ (IF m.adrAckReq THEN 64 ELSE 0) = 64 * b
      /\ (IF m.ack THEN 32 ELSE 0) = 32 * c /\ (IF m.fPending THEN 16 ELSE 0) = 16 * d
  <2>1. /\ (IF a = 1 THEN 128 ELSE 0) = 128 * a /\ (IF b = 1 THEN 64 ELSE 0) = 64 * b
        /\ (IF c = 1 THEN 32 ELSE 0) = 32 * c /\ (IF d = 1 THEN 16 ELSE 0) = 16 * d
    OBVIOUS
  <2>2. QED
    BY <1>4, <2>1, Zenon
<1>7. FCtrlMarshal(m) = x
  BY <1>3, <1>5, <1>6 DEF FCtrlMarshal
<1>8. QED
  BY <1>2, <1>7 DEF m

\* So do the three bytes after the address.
LEMMA ControlComesBack ==
    ASSUME NEW data \in Seq(Byte), ~MacUnmarshalThrows(data),
           NEW m, m = MacUnmarshal(data)
    PROVE  <<FCtrlMarshal(m), m.fCnt % 256, (m.fCnt \div 256) % 256>>
               = SubSeq(data, AddrLen + 1, HeaderLen)
<1>1. /\ AddrLen \in Nat /\ Len(data) \in Nat /\ HeaderLen = AddrLen + 3
      /\ HeaderLen <= Len(data)
  BY OptionsRead
<1>2. /\ AddrLen + 1 \in 1..Len(data) /\ AddrLen + 2 \in 1..Len(data)
      /\ AddrLen + 3 \in 1..Len(data)
  BY <1>1
<1>3. PICK ctrl \in Byte, low \in Byte, high \in Byte :
         ctrl = data[AddrLen + 1] /\ low = data[AddrLen + 2] /\ high = data[AddrLen + 3]
  BY <1>2, ElementOfSeq
<1>4. m.fCnt = low + 256 * high
  BY <1>3 DEF MacUnmarshal
<1>5. FCtrlMarshal(m) = ctrl /\ m.fCnt % 256 = low /\ (m.fCnt \div 256) % 256 = high
  BY <1>3, <1>4, CounterBytes, FCtrlComesBack
<1>6. PICK t \in Seq(Byte) : /\ t = SubSeq(data, AddrLen + 1, HeaderLen) /\ Len(t) = 3
                             /\ t[1] = ctrl /\ t[2] = low /\ t[3] = high
  <2>1. \A i \in (AddrLen + 1)..HeaderLen : data[i] \in Byte
    BY <1>1, ElementOfSeq
  <2>2. AddrLen + 1 \in Int /\ HeaderLen \in Int
    BY <1>1
  <2>3. PICK t : t = SubSeq(data, AddrLen + 1, HeaderLen)
    OBVIOUS
  <2>4. /\ t \in Seq(Byte)
        /\ Len(t) = IF AddrLen + 1 <= HeaderLen THEN HeaderLen - (AddrLen + 1) + 1 ELSE 0
        /\ \A i \in 1..(HeaderLen - (AddrLen + 1) + 1) : t[i] = data[AddrLen + 1 + i - 1]
    BY <2>1, <2>2, <2>3, SubSeqProperties
  <2>5. HeaderLen - (AddrLen + 1) + 1 = 3 /\ AddrLen + 1 <= HeaderLen
    BY <1>1
  <2>6. Len(t) = 3 /\ \A i \in 1..3 : t[i] = data[AddrLen + 1 + i - 1]
    BY <2>4, <2>5
  <2>7. t[1] = data[AddrLen + 1] /\ t[2] = data[AddrLen + 2] /\ t[3] = data[AddrLen + 3]
    BY <1>1, <2>6
  <2>8. QED
    BY <1>3, <2>3, <2>4, <2>6, <2>7
<1>7. <<ctrl, low, high>> = t
  <2>1. <<ctrl, low, high>> \in Seq(Byte) /\ Len(<<ctrl, low, high>>) = 3
    BY <1>3
  <2>2. \A i \in 1..3 : <<ctrl, low, high>>[i] = t[i]
    BY <1>6
  <2>3. QED
    BY <1>6, <2>1, <2>2, SeqEqual
<1>8. QED
  BY <1>5, <1>6, <1>7

\* A mac_payload that unmarshal accepts has the very bytes it was read from:
\* the integrity code of a received frame, which is computed over the frame
\* marshalled again, is computed over what was sent, but for the reserved bits
\* of its header (payload.cpp:162-223, payload.cpp:320-322).
THEOREM RemarshalExact ==
    ASSUME NEW data \in Seq(Byte), ~MacUnmarshalThrows(data)
    PROVE  MacMarshal(MacUnmarshal(data)) = data
<1>1. PICK m : m = MacUnmarshal(data)
  OBVIOUS
<1>2. PICK len \in Nat, end \in Nat, first \in Nat :
         /\ len = Len(data) /\ end = HeaderEnd(data) /\ first = AddrLen
         /\ first > 0 /\ HeaderLen = first + 3 /\ first + 3 <= end /\ end <= len
  BY OptionsRead
<1>3. \A i \in 1..len : data[i] \in Byte
  BY <1>2, ElementOfSeq
<1>4. Reversed(m.addr) = SubSeq(data, 1, first)
  <2>1. m.addr = Reversed(SubSeq(data, 1, first))
    BY <1>1, <1>2 DEF MacUnmarshal
  <2>2. SubSeq(data, 1, first) \in Seq(Byte)
    <3>1. \A i \in 1..first : data[i] \in Byte
      BY <1>2, <1>3
    <3>2. QED
      BY <3>1, SubSeqProperties
  <2>3. QED
    BY <2>1, <2>2, ReversedTwice
<1>5. <<FCtrlMarshal(m), m.fCnt % 256, (m.fCnt \div 256) % 256>>
        = SubSeq(data, first + 1, first + 3)
  BY <1>1, <1>2, ControlComesBack
<1>6. m.fOpts = SubSeq(data, first + 3 + 1, end)
  BY <1>1, <1>2 DEF MacUnmarshal
<1>7. FhdrMarshal(m) = SubSeq(data, 1, end)
  <2>1. SubSeq(data, 1, first) \o SubSeq(data, first + 1, first + 3) = SubSeq(data, 1, first + 3)
    <3>1. /\ 1 \in 1..(Len(data) + 1) /\ first \in (1 - 1)..Len(data)
          /\ first + 3 \in first..Len(data)
      BY <1>2
    <3>2. QED
      BY <3>1, ConcatAdjacentSubSeq
  <2>2. SubSeq(data, 1, first + 3) \o SubSeq(data, first + 3 + 1, end) = SubSeq(data, 1, end)
    <3>1. /\ 1 \in 1..(Len(data) + 1) /\ first + 3 \in (1 - 1)..Len(data)
          /\ end \in (first + 3)..Len(data)
      BY <1>2
    <3>2. QED
      BY <3>1, ConcatAdjacentSubSeq
  <2>3. QED
    BY <1>4, <1>5, <1>6, <2>1, <2>2 DEF FhdrMarshal
<1>8. (IF m.fPort = NoPort THEN <<>> ELSE <<m.fPort>>) \o m.frm = SubSeq(data, end + 1, len)
  <2>1. m.frm = SubSeq(data, end + 2, len)
    BY <1>1, <1>2 DEF MacUnmarshal
  <2>2. m.fPort = IF len > end THEN data[end + 1] ELSE NoPort
    BY <1>1, <1>2 DEF MacUnmarshal
  <2>3. CASE len = end
    <3>1. SubSeq(data, end + 1, len) = <<>> /\ m.frm = <<>>
      BY <1>2, <2>1, <2>3, SubSeqEmpty
    <3>2. m.fPort = NoPort
      BY <2>2, <2>3
    <3>3. <<>> \o <<>> = <<>>
      BY ConcatEmptySeq, EmptySeq
    <3>4. QED
      BY <3>1, <3>2, <3>3
  <2>4. CASE len > end
    <3>1. m.fPort = data[end + 1] /\ m.fPort \in Byte
      BY <1>2, <1>3, <2>2, <2>4
    <3>2. m.fPort # NoPort
      <4>1. \A n \in Byte : n # NoPort
        BY DEF Byte, NoPort
      <4>2. QED
        BY <3>1, <4>1
    <3>3. SubSeq(data, end + 1, len) = <<data[end + 1]>> \o SubSeq(data, end + 1 + 1, len)
      <4>1. end + 1 \in 1..Len(data) /\ len \in (end + 1)..Len(data)
        BY <1>2, <2>4
      <4>2. QED
        BY <4>1, SubSeqRecursiveFirst
    <3>4. end + 1 + 1 = end + 2
      BY <1>2
    <3>5. QED
      BY <2>1, <3>1, <3>2, <3>3, <3>4
  <2>5. len = end \/ len > end
    BY <1>2
  <2>6. QED
    BY <2>3, <2>4, <2>5
<1>9. SubSeq(data, 1, end) \o SubSeq(data, end + 1, len) = SubSeq(data, 1, len)
  <2>1. 1 \in 1..(Len(data) + 1) /\ end \in (1 - 1)..Len(data) /\ len \in end..Len(data)
    BY <1>2
  <2>2. QED
    BY <2>1, ConcatAdjacentSubSeq
<1>10. QED
  BY <1>1, <1>2, <1>7, <1>8, <1>9, SubSeqFull DEF MacMarshal

\* Of what unmarshal accepts marshal refuses one thing, frame options beside
\* a port of zero when there is no payload: checking the integrity code of such
\* a frame throws (payload.cpp:177, payload.cpp:214-217).
THEOREM RemarshalThrows ==
    ASSUME NEW data \in Seq(Byte), ~MacUnmarshalThrows(data)
    PROVE  MacMarshalThrows(MacUnmarshal(data)) <=>
             /\ Len(data) = HeaderEnd(data) + 1
             /\ data[HeaderEnd(data) + 1] = 0
             /\ FOptsLen(data[AddrLen + 1]) > 0
<1>1. PICK m : m = MacUnmarshal(data)
  OBVIOUS
<1>2. PICK len \in Nat, end \in Nat, opts \in 0..15 :
         /\ len = Len(data) /\ end = HeaderEnd(data) /\ end <= len
         /\ opts = FOptsLen(data[AddrLen + 1]) /\ Len(m.fOpts) = opts /\ m.fOpts \in Seq(Byte)
  BY <1>1, OptionsRead
<1>3. ~FhdrMarshalThrows(m)
  <2>1. \A n \in 0..15 : ~(n % 256 > 15)
    OBVIOUS
  <2>2. QED
    BY <1>2, <2>1 DEF FhdrMarshalThrows
<1>4. m.fOpts # <<>> <=> opts > 0
  BY <1>2, EmptySeq
<1>5. m.fPort = (IF len > end THEN data[end + 1] ELSE NoPort) /\ m.frm = SubSeq(data, end + 2, len)
  BY <1>1, <1>2 DEF MacUnmarshal
<1>6. len > end + 1 => ~(data[end + 1] = 0 /\ opts > 0)
  BY <1>2 DEF MacUnmarshalThrows
<1>7. CASE len = end
  <2>1. m.fPort = NoPort /\ m.frm = <<>>
    BY <1>2, <1>5, <1>7, SubSeqEmpty
  <2>2. NoPort # 0 /\ len # end + 1
    BY <1>7 DEF NoPort
  <2>3. QED
    BY <1>1, <1>2, <1>3, <2>1, <2>2 DEF MacMarshalThrows
<1>8. CASE len > end
  <2>1. end + 1 \in 1..Len(data)
    BY <1>2, <1>8
  <2>2. data[end + 1] \in Byte
    BY <2>1, ElementOfSeq
  <2>3. \A n \in Byte : n # NoPort
    BY DEF Byte, NoPort
  <2>4. m.fPort = data[end + 1] /\ m.fPort # NoPort
    BY <1>5, <1>8, <2>2, <2>3
  <2>5. MacMarshalThrows(m) <=> (data[end + 1] = 0 /\ opts > 0)
    BY <1>3, <1>4, <2>4 DEF MacMarshalThrows
  <2>6. len = end + 1 \/ len > end + 1
    BY <1>2, <1>8
  <2>7. len > end + 1 => len # end + 1
    BY <1>2
  <2>8. QED
    BY <1>1, <1>2, <1>6, <2>5, <2>6, <2>7
<1>9. QED
  BY <1>2, <1>7, <1>8
-----------------------------------------------------------------------------
\* marshal and then unmarshal

\* A mac_payload the program can build.  It puts 15 bytes of f_opts in at most;
\* fhdr::marshal would let 256 of them pass, since it cuts their number to a
\* byte before it looks at it (payload.cpp:109).
MacPayload ==
    [addr : [1..AddrLen -> Byte],
     adr : BOOLEAN, adrAckReq : BOOLEAN, ack : BOOLEAN, fPending : BOOLEAN,
     fCnt : Nat, fOpts : {opts \in Seq(Byte) : Len(opts) <= 15},
     fPort : 0..NoPort, frm : Seq(Byte)]

\* What a part of a sequence is, byte for byte, it is as a sequence.
LEMMA Slice ==
    ASSUME NEW S, NEW s \in Seq(S), NEW t \in Seq(S), NEW from \in Nat,
           from + Len(t) <= Len(s), \A i \in 1..Len(t) : s[from + i] = t[i]
    PROVE  SubSeq(s, from + 1, from + Len(t)) = t
<1>1. PICK first \in Int, last \in Int, len \in Nat :
         first = from + 1 /\ last = from + Len(t) /\ len = Len(t)
  BY LenProperties
<1>2. \A i \in first..last : s[i] \in S
  <2>1. \A i \in first..last : i \in 1..Len(s)
    BY <1>1, LenProperties
  <2>2. QED
    BY <2>1, ElementOfSeq
<1>3. PICK part : part = SubSeq(s, first, last)
  OBVIOUS
<1>4. /\ part \in Seq(S)
      /\ Len(part) = IF first <= last THEN last - first + 1 ELSE 0
      /\ \A i \in 1..(last - first + 1) : part[i] = s[first + i - 1]
  BY <1>2, <1>3, SubSeqProperties
<1>5. Len(part) = len
  BY <1>1, <1>4
<1>6. \A i \in 1..len : part[i] = s[from + i]
  BY <1>1, <1>4
<1>7. part = t
  BY <1>1, <1>4, <1>5, <1>6, SeqEqual
<1>8. QED
  BY <1>1, <1>3, <1>7

\* f_ctrl is a byte that holds the flags and the length.
LEMMA FCtrlHolds ==
    ASSUME NEW m \in MacPayload, NEW x, x = FCtrlMarshal(m)
    PROVE  /\ x \in Byte
           /\ Flag(x, 128) = m.adr /\ Flag(x, 64) = m.adrAckReq
           /\ Flag(x, 32) = m.ack /\ Flag(x, 16) = m.fPending
           /\ FOptsLen(x) = Len(m.fOpts)
<1> DEFINE Digit(flag) == IF flag THEN 1 ELSE 0
           a == Digit(m.adr)
           b == Digit(m.adrAckReq)
           c == Digit(m.ack)
           d == Digit(m.fPending)
<1>1. /\ (a = 1) = m.adr /\ (b = 1) = m.adrAckReq
      /\ (c = 1) = m.ack /\ (d = 1) = m.fPending
  BY DEF MacPayload
<1>2. PICK n \in 0..15 : n = Len(m.fOpts)
  <2>1. m.fOpts \in Seq(Byte) /\ Len(m.fOpts) <= 15
    BY DEF MacPayload
  <2>2. PICK n \in Nat : n = Len(m.fOpts)
    BY <2>1, LenProperties
  <2>3. n <= 15
    BY <2>1, <2>2
  <2>4. n \in 0..15
    BY <2>3
  <2>5. QED
    BY <2>2, <2>4
<1>3. /\ (IF m.adr THEN 128 ELSE 0) = 128 * a /\ (IF m.adrAckReq THEN 64 ELSE 0) = 64 * b
      /\ (IF m.ack THEN 32 ELSE 0) = 32 * c /\ (IF m.fPending THEN 16 ELSE 0) = 16 * d
  OBVIOUS
<1> a \in 0..1 /\ b \in 0..1 /\ c \in 0..1 /\ d \in 0..1
  OBVIOUS
<1> HIDE DEF a, b, c, d
<1>4. n % 16 = n
  OBVIOUS
<1>5. x = 128 * a + 64 * b + 32 * c + 16 * d + n
  BY <1>2, <1>3, <1>4 DEF FCtrlMarshal
<1>6. x \in Int /\ x \in Byte
  BY <1>5 DEF Byte
<1>7. /\ (x \div 128) % 2 = a /\ (x \div 64) % 2 = b
      /\ (x \div 32) % 2 = c /\ (x \div 16) % 2 = d
      /\ x % 16 = n
  BY <1>5, <1>6, FlagsSurvive
<1>8. QED
  BY <1>1, <1>2, <1>6, <1>7 DEF Flag, FOptsLen

\* A function on the first numbers is a sequence.
LEMMA FunctionIsSeq ==
    ASSUME NEW S, NEW m \in Nat, NEW f \in [1..m -> S]
    PROVE  f \in Seq(S) /\ Len(f) = m
OBVIOUS

\* Both parts of a concatenation, each at its place.
LEMMA TwoParts ==
    ASSUME NEW S, NEW s \in Seq(S), NEW t \in Seq(S), NEW u, u = s \o t,
           NEW m \in Nat, NEW n \in Nat, m = Len(s), n = Len(t)
    PROVE  /\ u \in Seq(S) /\ Len(u) = m + n
           /\ \A i \in 1..m : u[i] = s[i]
           /\ \A i \in 1..n : u[m + i] = t[i]
<1>1. \A i \in 1..m : i \in 1..(m + n) /\ i <= m
  OBVIOUS
<1>2. \A i \in 1..n : m + i \in 1..(m + n) /\ ~(m + i <= m) /\ m + i - m = i
  OBVIOUS
<1>3. /\ s \o t \in Seq(S) /\ Len(s \o t) = m + n
      /\ \A i \in 1..(m + n) : (s \o t)[i] = IF i <= m THEN s[i] ELSE t[i - m]
  BY ConcatProperties
<1>4. QED
  BY <1>1, <1>2, <1>3

Joined(u, s, t) ==
    /\ Len(u) = Len(s) + Len(t)
    /\ \A i \in 1..Len(s) : u[i] = s[i]
    /\ \A i \in 1..Len(t) : u[Len(s) + i] = t[i]

LEMMA BothParts ==
    ASSUME NEW S, NEW s \in Seq(S), NEW t \in Seq(S)
    PROVE  s \o t \in Seq(S) /\ Joined(s \o t, s, t)
<1>1. PICK m \in Nat, n \in Nat : m = Len(s) /\ n = Len(t)
  BY LenProperties
<1>2. PICK u : u = s \o t
  OBVIOUS
<1>3. u \in Seq(S) /\ Joined(u, s, t)
  BY <1>1, <1>2, TwoParts DEF Joined
<1>4. QED
  BY <1>2, <1>3, Zenon

\* What it takes to be put together from five parts.
InPlace(s, a, b, c, d, e) ==
    /\ s \in Seq(Byte)
    /\ Len(s) = Len(a) + Len(b) + Len(c) + Len(d) + Len(e)
    /\ \A i \in 1..Len(a) : s[i] = a[i]
    /\ \A i \in 1..Len(b) : s[Len(a) + i] = b[i]
    /\ \A i \in 1..Len(c) : s[Len(a) + Len(b) + i] = c[i]
    /\ \A i \in 1..Len(d) : s[Len(a) + Len(b) + Len(c) + i] = d[i]
    /\ \A i \in 1..Len(e) : s[Len(a) + Len(b) + Len(c) + Len(d) + i] = e[i]

\* And all of five parts.
LEMMA FiveParts ==
    ASSUME NEW a \in Seq(Byte), NEW b \in Seq(Byte), NEW c \in Seq(Byte), NEW d \in Seq(Byte),
           NEW e \in Seq(Byte)
    PROVE  InPlace(((a \o b) \o c) \o (d \o e), a, b, c, d, e)
<1>1. PICK j \in Nat, k \in Nat, l \in Nat, m \in Nat, n \in Nat :
         j = Len(a) /\ k = Len(b) /\ l = Len(c) /\ m = Len(d) /\ n = Len(e)
  BY LenProperties
<1>2. PICK q \in Nat, r \in Nat, t \in Nat : q = j + k /\ r = q + l /\ t = m + n
  OBVIOUS
<1>3. PICK two : two = a \o b /\ two \in Seq(Byte) /\ Joined(two, a, b)
  BY BothParts
<1>4. PICK front : front = two \o c /\ front \in Seq(Byte) /\ Joined(front, two, c)
  BY <1>3, BothParts
<1>5. PICK back : back = d \o e /\ back \in Seq(Byte) /\ Joined(back, d, e)
  BY BothParts
<1>6. PICK s : s = front \o back /\ s \in Seq(Byte) /\ Joined(s, front, back)
  BY <1>4, <1>5, BothParts
<1>7. /\ Joined(two, a, b) /\ Joined(front, two, c) /\ Joined(back, d, e)
      /\ Joined(s, front, back) /\ s \in Seq(Byte)
  BY <1>3, <1>4, <1>5, <1>6, Zenon
<1>8. Len(two) = q /\ Len(front) = r /\ Len(back) = t /\ Len(s) = r + t
  BY <1>1, <1>2, <1>7 DEF Joined
<1>9. /\ \A i \in 1..j : two[i] = a[i]
      /\ \A i \in 1..k : two[j + i] = b[i]
      /\ \A i \in 1..q : front[i] = two[i]
      /\ \A i \in 1..l : front[q + i] = c[i]
  BY <1>1, <1>7, <1>8, Zenon DEF Joined
<1>10. /\ \A i \in 1..m : back[i] = d[i]
       /\ \A i \in 1..n : back[m + i] = e[i]
       /\ \A i \in 1..r : s[i] = front[i]
       /\ \A i \in 1..t : s[r + i] = back[i]
  BY <1>1, <1>7, <1>8, Zenon DEF Joined
<1>11. ASSUME NEW i \in 1..j PROVE s[i] = a[i]
  <2>1. i \in 1..q /\ i \in 1..r
    BY <1>2
  <2>2. QED
    BY <1>9, <1>10, <2>1
<1>12. ASSUME NEW i \in 1..k PROVE s[j + i] = b[i]
  <2>1. j + i \in 1..q /\ j + i \in 1..r
    BY <1>2
  <2>2. QED
    BY <1>9, <1>10, <2>1
<1>13. ASSUME NEW i \in 1..l PROVE s[j + k + i] = c[i]
  <2>1. q + i \in 1..r /\ j + k + i = q + i
    BY <1>2
  <2>2. QED
    BY <1>9, <1>10, <2>1
<1>14. ASSUME NEW i \in 1..m PROVE s[j + k + l + i] = d[i]
  <2>1. i \in 1..t /\ j + k + l + i = r + i
    BY <1>2
  <2>2. QED
    BY <1>10, <2>1
<1>15. ASSUME NEW i \in 1..n PROVE s[j + k + l + m + i] = e[i]
  <2>1. m + i \in 1..t /\ j + k + l + m + i = r + (m + i)
    BY <1>2
  <2>2. QED
    BY <1>9, <1>10, <2>1
<1>16. Len(s) = j + k + l + m + n
  BY <1>2, <1>8
<1>17. InPlace(s, a, b, c, d, e)
  BY <1>1, <1>7, <1>11, <1>12, <1>13, <1>14, <1>15, <1>16 DEF InPlace
<1>18. QED
  BY <1>3, <1>4, <1>5, <1>6, <1>17, Zenon

\* A mac_payload with another counter.
LEMMA CounterSet ==
    ASSUME NEW m \in MacPayload, NEW n
    PROVE  [m EXCEPT !.fCnt = n]
               = [addr |-> m.addr, adr |-> m.adr, adrAckReq |-> m.adrAckReq, ack |-> m.ack,
                  fPending |-> m.fPending, fCnt |-> n, fOpts |-> m.fOpts, fPort |-> m.fPort,
                  frm |-> m.frm]
BY DEF MacPayload

\* Where the parts of a mac_payload are when it is marshalled, and what they
\* are read as.
LaidOut(data, m) ==
    /\ data \in Seq(Byte)
    /\ Len(data) = HeaderLen + Len(m.fOpts) + (IF m.fPort = NoPort THEN 0 ELSE 1) + Len(m.frm)
    /\ HeaderEnd(data) = HeaderLen + Len(m.fOpts)
    /\ FOptsLen(data[AddrLen + 1]) = Len(m.fOpts)
    /\ m.fPort # NoPort => data[HeaderEnd(data) + 1] = m.fPort

ReadBack(data, m) == MacUnmarshal(data) = [m EXCEPT !.fCnt = @ % 65536]

LEMMA MarshalLayout ==
    ASSUME NEW m \in MacPayload, m.fPort = NoPort => m.frm = <<>>
    PROVE  LaidOut(MacMarshal(m), m) /\ ReadBack(MacMarshal(m), m)
<1>1. PICK data : data = MacMarshal(m)
  OBVIOUS
<1>2. PICK addrLen \in Nat : addrLen = AddrLen
  BY CodecAssumption
<1>3. PICK addr : addr = Reversed(m.addr)
  OBVIOUS
<1>4. addr \in Seq(Byte) /\ Len(addr) = addrLen /\ Reversed(addr) = m.addr
  <2>1. m.addr \in [1..addrLen -> Byte]
    BY <1>2 DEF MacPayload
  <2>2. m.addr \in Seq(Byte) /\ Len(m.addr) = addrLen
    BY <2>1
  <2>3. QED
    BY <1>3, <2>2, ReversedTwice
<1>5. PICK ctrl \in Byte : ctrl = FCtrlMarshal(m)
  BY FCtrlHolds
<1>6. PICK fCnt \in Nat : fCnt = m.fCnt
  BY DEF MacPayload
<1>7. PICK control : control = <<ctrl, fCnt % 256, (fCnt \div 256) % 256>>
  OBVIOUS
<1>8. control \in Seq(Byte) /\ Len(control) = 3
  <2>1. fCnt % 256 \in Byte /\ (fCnt \div 256) % 256 \in Byte
    BY DEF Byte
  <2>2. QED
    BY <1>7, <2>1
<1>9. PICK opts \in Seq(Byte) : opts = m.fOpts
  BY DEF MacPayload
<1>10. PICK frm \in Seq(Byte) : frm = m.frm
  BY DEF MacPayload
<1>11. PICK size \in Nat : size = Len(opts)
  BY LenProperties
<1>12. PICK rest \in Nat : rest = Len(frm)
  BY LenProperties
<1>13. PICK fPort : fPort = m.fPort
  OBVIOUS
<1>14. PICK portByte : portByte = IF fPort = NoPort THEN <<>> ELSE <<fPort>>
  OBVIOUS
<1>15. /\ portByte \in Seq(Byte) /\ (fPort = NoPort => Len(portByte) = 0)
       /\ fPort # NoPort => Len(portByte) = 1 /\ portByte[1] = fPort
  <2>1. fPort # NoPort => fPort \in Byte
    BY <1>13 DEF MacPayload, Byte, NoPort
  <2>2. CASE fPort = NoPort
    BY <1>14, <2>2, EmptySeq
  <2>3. CASE fPort # NoPort
    BY <1>14, <2>1, <2>3
  <2>4. QED
    BY <2>2, <2>3
<1>16. PICK port \in Nat : port = Len(portByte)
  BY <1>15, LenProperties
<1>17. PICK two : two = addr \o control
  OBVIOUS
<1>18. PICK front : front = two \o opts
  OBVIOUS
<1>19. PICK back : back = portByte \o frm
  OBVIOUS
<1>20. data = front \o back
  BY <1>1, <1>3, <1>5, <1>6, <1>7, <1>9, <1>10, <1>13, <1>14,
     <1>17, <1>18, <1>19 DEF MacMarshal, FhdrMarshal
<1>21. /\ data \in Seq(Byte) /\ Len(data) = addrLen + 3 + size + port + rest
       /\ \A i \in 1..addrLen : data[i] = addr[i]
       /\ \A i \in 1..3 : data[addrLen + i] = control[i]
       /\ \A i \in 1..size : data[addrLen + 3 + i] = opts[i]
       /\ \A i \in 1..port : data[addrLen + 3 + size + i] = portByte[i]
       /\ \A i \in 1..rest : data[addrLen + 3 + size + port + i] = frm[i]
  <2>1. addr \in Seq(Byte) /\ addrLen = Len(addr) /\ portByte \in Seq(Byte)
    BY <1>4, <1>15
  <2>2. PICK k \in Nat : k = 3
    OBVIOUS
  <2>3. control \in Seq(Byte) /\ k = Len(control)
    BY <1>8, <2>2
  <2>4. opts \in Seq(Byte) /\ frm \in Seq(Byte)
    OBVIOUS
  <2>5. InPlace(data, addr, control, opts, portByte, frm)
    BY <1>17, <1>18, <1>19, <1>20, <2>1, <2>3, <2>4, FiveParts
  <2>6. /\ Len(addr) = addrLen /\ Len(control) = 3 /\ Len(opts) = size
        /\ Len(portByte) = port /\ Len(frm) = rest
    BY <1>11, <1>12, <1>16, <2>1, <2>2, <2>3
  <2>7. QED
    BY <2>5, <2>6, ZenonT(30) DEF InPlace
<1>22. PICK end \in Nat : end = addrLen + 3 + size
  OBVIOUS
<1>23. data[addrLen + 1] = ctrl /\ FOptsLen(ctrl) = size /\ HeaderEnd(data) = end
  <2>1. data[addrLen + 1] = ctrl
    BY <1>7, <1>21
  <2>2. FOptsLen(ctrl) = size
    BY <1>5, <1>9, <1>11, FCtrlHolds
  <2>3. QED
    BY <1>2, <1>22, <2>1, <2>2 DEF HeaderEnd, HeaderLen
<1>24. Len(data) = end + port + rest
  BY <1>21, <1>22
<1>25. fPort # NoPort => port = 1 /\ data[end + 1] = fPort
  <2>1. SUFFICES ASSUME fPort # NoPort PROVE port = 1 /\ data[end + 1] = fPort
    OBVIOUS
  <2>2. port = 1 /\ portByte[1] = fPort
    BY <1>15, <1>16, <2>1
  <2>3. data[addrLen + 3 + size + 1] = portByte[1]
    BY <1>21, <2>2
  <2>4. QED
    BY <1>22, <2>2, <2>3
<1>26. fPort = NoPort => port = 0 /\ rest = 0
  <2>1. SUFFICES ASSUME fPort = NoPort PROVE port = 0 /\ rest = 0
    OBVIOUS
  <2>2. frm = <<>>
    BY <1>10, <1>13, <2>1
  <2>3. QED
    BY <1>12, <1>15, <1>16, <2>1, <2>2, EmptySeq
<1>27. PICK read : read = MacUnmarshal(data)
  OBVIOUS
<1>28. read.addr = m.addr
  <2>1. \A i \in 1..addrLen : data[0 + i] = addr[i]
    BY <1>21
  <2>2. 0 + addrLen <= Len(data)
    BY <1>22, <1>24
  <2>3. SubSeq(data, 0 + 1, 0 + addrLen) = addr
    BY <1>4, <1>21, <2>1, <2>2, Slice
  <2>4. SubSeq(data, 1, addrLen) = addr
    BY <2>3
  <2>5. QED
    BY <1>2, <1>4, <1>27, <2>4 DEF MacUnmarshal
<1>29. /\ read.adr = m.adr /\ read.adrAckReq = m.adrAckReq
       /\ read.ack = m.ack /\ read.fPending = m.fPending
  BY <1>2, <1>5, <1>23, <1>27, FCtrlHolds DEF MacUnmarshal
<1>30. read.fCnt = fCnt % 65536
  <2>1. data[addrLen + 2] = fCnt % 256 /\ data[addrLen + 3] = (fCnt \div 256) % 256
    BY <1>7, <1>21
  <2>2. (fCnt % 256) + 256 * ((fCnt \div 256) % 256) = fCnt % 65536
    BY CounterHalf
  <2>3. QED
    BY <1>2, <1>27, <2>1, <2>2 DEF MacUnmarshal
<1>31. read.fOpts = opts
  <2>1. PICK from \in Nat : from = addrLen + 3
    OBVIOUS
  <2>2. \A i \in 1..Len(opts) : data[from + i] = opts[i]
    BY <1>11, <1>21, <2>1
  <2>3. from + Len(opts) <= Len(data) /\ from + Len(opts) = end
    BY <1>11, <1>22, <1>24, <2>1
  <2>4. SubSeq(data, from + 1, end) = opts
    BY <1>21, <2>2, <2>3, Slice
  <2>5. HeaderLen = from
    BY <1>2, <2>1 DEF HeaderLen
  <2>6. QED
    BY <1>23, <1>27, <2>4, <2>5 DEF MacUnmarshal
<1>32. read.fPort = fPort
  <2>1. read.fPort = IF Len(data) > end THEN data[end + 1] ELSE NoPort
    BY <1>23, <1>27 DEF MacUnmarshal
  <2>2. CASE fPort = NoPort
    <3>1. ~(Len(data) > end)
      BY <1>24, <1>26, <2>2
    <3>2. QED
      BY <2>1, <2>2, <3>1
  <2>3. CASE fPort # NoPort
    <3>1. Len(data) > end
      BY <1>24, <1>25, <2>3
    <3>2. QED
      BY <1>25, <2>1, <2>3, <3>1
  <2>4. QED
    BY <2>2, <2>3
<1>33. read.frm = frm
  <2>1. read.frm = SubSeq(data, end + 2, Len(data))
    BY <1>23, <1>27 DEF MacUnmarshal
  <2>2. CASE fPort = NoPort
    <3>1. Len(data) < end + 2 /\ Len(data) \in Int /\ end + 2 \in Int
      BY <1>24, <1>26, <2>2
    <3>2. SubSeq(data, end + 2, Len(data)) = <<>>
      BY <3>1, SubSeqEmpty
    <3>3. frm = <<>>
      BY <1>12, <1>26, <2>2, EmptySeq
    <3>4. QED
      BY <2>1, <3>2, <3>3
  <2>3. CASE fPort # NoPort
    <3>1. PICK from \in Nat : from = end + 1
      OBVIOUS
    <3>2. port = 1
      BY <1>25, <2>3
    <3>3. \A i \in 1..Len(frm) : data[from + i] = frm[i]
      BY <1>12, <1>21, <1>22, <3>1, <3>2
    <3>4. from + Len(frm) <= Len(data) /\ from + Len(frm) = Len(data) /\ from + 1 = end + 2
      BY <1>12, <1>24, <3>1, <3>2
    <3>5. SubSeq(data, from + 1, from + Len(frm)) = frm
      BY <1>21, <3>3, <3>4, Slice
    <3>6. QED
      BY <2>1, <3>4, <3>5
  <2>4. QED
    BY <2>2, <2>3
<1>34. read = [m EXCEPT !.fCnt = fCnt % 65536]
  <2>1. read = [addr |-> read.addr, adr |-> read.adr, adrAckReq |-> read.adrAckReq,
                ack |-> read.ack, fPending |-> read.fPending, fCnt |-> read.fCnt,
                fOpts |-> read.fOpts, fPort |-> read.fPort, frm |-> read.frm]
    BY <1>27 DEF MacUnmarshal
  <2>3. [m EXCEPT !.fCnt = fCnt % 65536]
           = [addr |-> m.addr, adr |-> m.adr, adrAckReq |-> m.adrAckReq,
              ack |-> m.ack, fPending |-> m.fPending, fCnt |-> fCnt % 65536,
              fOpts |-> m.fOpts, fPort |-> m.fPort, frm |-> m.frm]
    BY CounterSet
  <2>4. QED
    BY <1>9, <1>10, <1>13, <1>28, <1>29, <1>30, <1>31, <1>32, <1>33, <2>1, <2>3
<1>35. Len(data) = HeaderLen + Len(m.fOpts) + (IF m.fPort = NoPort THEN 0 ELSE 1) + Len(m.frm)
  <2>1. port = IF fPort = NoPort THEN 0 ELSE 1
    BY <1>25, <1>26
  <2>2. HeaderLen = addrLen + 3
    BY <1>2 DEF HeaderLen
  <2>3. QED
    BY <1>9, <1>10, <1>11, <1>12, <1>13, <1>21, <2>1, <2>2
<1>36. HeaderEnd(data) = HeaderLen + Len(m.fOpts) /\ FOptsLen(data[AddrLen + 1]) = Len(m.fOpts)
  BY <1>2, <1>9, <1>11, <1>22, <1>23 DEF HeaderLen
<1>37. m.fPort # NoPort => data[HeaderEnd(data) + 1] = m.fPort
  BY <1>13, <1>23, <1>25
<1>38. LaidOut(data, m)
  BY <1>21, <1>35, <1>36, <1>37 DEF LaidOut
<1>39. ReadBack(data, m)
  BY <1>6, <1>27, <1>34 DEF ReadBack
<1>40. QED
  BY <1>1, <1>38, <1>39, Zenon

\* What is marshalled and refused when it is read.
LEMMA LayoutThrows ==
    ASSUME NEW m \in MacPayload, m.fPort = NoPort => m.frm = <<>>
    PROVE  MacUnmarshalThrows(MacMarshal(m)) <=> m.fPort = 0 /\ m.fOpts # <<>> /\ m.frm # <<>>
<1>1. PICK data : data = MacMarshal(m) /\ LaidOut(data, m)
  BY MarshalLayout
<1>2. PICK size \in Nat, rest \in Nat, head \in Nat :
         /\ size = Len(m.fOpts) /\ rest = Len(m.frm) /\ head = HeaderLen
         /\ (m.fOpts # <<>> <=> size > 0) /\ (m.frm # <<>> <=> rest > 0)
  <2>1. m.fOpts \in Seq(Byte) /\ m.frm \in Seq(Byte)
    BY DEF MacPayload
  <2>2. Len(m.fOpts) \in Nat /\ Len(m.frm) \in Nat
    BY <2>1, LenProperties
  <2>3. (m.fOpts # <<>> <=> Len(m.fOpts) > 0) /\ (m.frm # <<>> <=> Len(m.frm) > 0)
    BY <2>1, <2>2, EmptySeq
  <2>4. HeaderLen \in Nat
    BY CodecAssumption DEF HeaderLen
  <2>5. QED
    BY <2>2, <2>3, <2>4
<1>3. PICK port \in 0..1 : port = IF m.fPort = NoPort THEN 0 ELSE 1
  OBVIOUS
<1>4. Len(data) = head + size + port + rest
  <2>1. Len(data) = HeaderLen + Len(m.fOpts) + (IF m.fPort = NoPort THEN 0 ELSE 1) + Len(m.frm)
    BY <1>1, Zenon DEF LaidOut
  <2>2. QED
    BY <1>2, <1>3, <2>1
<1>5. HeaderEnd(data) = head + size /\ FOptsLen(data[AddrLen + 1]) = size
  <2>1. HeaderEnd(data) = HeaderLen + Len(m.fOpts) /\ FOptsLen(data[AddrLen + 1]) = Len(m.fOpts)
    BY <1>1, Zenon DEF LaidOut
  <2>2. QED
    BY <1>2, <2>1
<1>6. m.fPort # NoPort => data[(head + size) + 1] = m.fPort
  <2>1. m.fPort # NoPort => data[HeaderEnd(data) + 1] = m.fPort
    BY <1>1, Zenon DEF LaidOut
  <2>2. QED
    BY <1>5, <2>1, Zenon
<1>7. MacUnmarshalThrows(data) <=>
        Len(data) > (head + size) + 1 /\ data[(head + size) + 1] = 0 /\ size > 0
  <2>1. ~(Len(data) < head) /\ ~(Len(data) < head + size)
    BY <1>4
  <2>2. QED
    BY <1>2, <1>5, <2>1, Zenon DEF MacUnmarshalThrows
<1>8. CASE m.fPort = NoPort
  <2>1. rest = 0 /\ port = 0 /\ m.fPort # 0
    BY <1>2, <1>3, <1>8 DEF NoPort
  <2>2. ~(Len(data) > (head + size) + 1)
    BY <1>4, <2>1
  <2>3. QED
    BY <1>1, <1>7, <2>1, <2>2, Zenon
<1>9. CASE m.fPort # NoPort
  <2>1. Len(data) > (head + size) + 1 <=> rest > 0
    BY <1>3, <1>4, <1>9
  <2>2. QED
    BY <1>1, <1>2, <1>6, <1>7, <1>9, <2>1, Zenon
<1>10. QED
  BY <1>8, <1>9, Zenon

\* A mac_payload that is marshalled is read as it was, but for the upper half
\* of its frame counter, which is not sent (payload.cpp:123-126,
\* payload.cpp:148-151, payload.cpp:162-223).
THEOREM MarshalRoundTrip ==
    ASSUME NEW m \in MacPayload, ~MacMarshalThrows(m)
    PROVE  /\ ~MacUnmarshalThrows(MacMarshal(m))
           /\ MacUnmarshal(MacMarshal(m)) = [m EXCEPT !.fCnt = @ % 65536]
<1>1. (m.fPort = NoPort => m.frm = <<>>) /\ ~(m.fPort = 0 /\ m.fOpts # <<>>)
  BY DEF MacMarshalThrows
<1>2. QED
  BY <1>1, MarshalLayout, LayoutThrows DEF ReadBack
-----------------------------------------------------------------------------
\* Two identifiers neither of which is less than the other are the same one, so
\* the map of a gateway takes no two devices for one; yet each of two may be
\* less than the other, and where the map puts them is left to chance
\* (payload.cpp:35-42, gateway.h:46).
THEOREM EuiNotMerged ==
    /\ \A a, b \in [1..8 -> Byte] : (~EuiLess(a, b) /\ ~EuiLess(b, a)) <=> a = b
    /\ \E a, b \in [1..8 -> Byte] : EuiLess(a, b) /\ EuiLess(b, a)
<1>1. ASSUME NEW a \in [1..8 -> Byte], NEW b \in [1..8 -> Byte],
             ~EuiLess(a, b), ~EuiLess(b, a)
      PROVE  a = b
  <2>1. ASSUME NEW i \in 1..8 PROVE a[i] = b[i]
    <3>1. a[i] \in Int /\ b[i] \in Int
      BY DEF Byte
    <3>2. ~(a[i] < b[i]) /\ ~(b[i] < a[i])
      BY <1>1 DEF EuiLess
    <3>3. QED
      BY <3>1, <3>2
  <2>2. QED
    BY <2>1
<1>2. ASSUME NEW a \in [1..8 -> Byte] PROVE ~EuiLess(a, a)
  BY DEF EuiLess, Byte
<1>3. \E a, b \in [1..8 -> Byte] : EuiLess(a, b) /\ EuiLess(b, a)
  <2> DEFINE a == [i \in 1..8 |-> IF i = 1 THEN 1 ELSE 0]
             b == [i \in 1..8 |-> IF i = 2 THEN 1 ELSE 0]
  <2>1. a \in [1..8 -> Byte] /\ b \in [1..8 -> Byte]
    BY DEF Byte
  <2>2. EuiLess(a, b) /\ EuiLess(b, a)
    BY DEF EuiLess
  <2>3. QED
    BY <2>1, <2>2
<1>4. QED
  BY <1>1, <1>2, <1>3
-----------------------------------------------------------------------------
(* Base64                                                                  *)

\* The sequences of bytes, and of characters of base64_chars.
Char  == 0..63
Bytes == Seq(Byte)
Chars == Seq(Char)

-----------------------------------------------------------------------------
(* Induction over the places of a sequence, with a set for the property.   *)

\* A set of natural numbers that is closed under successor holds them all.
LEMMA Induction ==
    ASSUME NEW T, 0 \in T, \A n \in T : n \in Nat => n + 1 \in T
    PROVE  Nat \subseteq T
<1> DEFINE Rest == Nat \ T
<1>1. SUFFICES ASSUME Rest # {} PROVE FALSE
  OBVIOUS
<1>2. PICK m \in Rest : \A k \in Rest : <<k, m>> \notin OpToRel(<, Nat)
  BY <1>1, WFMin, NatLessThanWellFounded, Zenon
<1>3. \A k \in Rest : ~(k < m)
  BY <1>2, Zenon DEF OpToRel
<1>4. m # 0 /\ m \in Nat /\ m \notin T
  OBVIOUS
<1>5. m - 1 \in Nat /\ m - 1 < m /\ (m - 1) + 1 = m
  BY <1>4
<1>6. m - 1 \in T
  BY <1>3, <1>5
<1>7. QED
  BY <1>4, <1>5, <1>6

\* The steps of the loop over the bytes are well defined.
LEMMA EncodingSteps ==
    ASSUME NEW s, NEW len \in Nat, len = Len(s)
    PROVE  /\ DOMAIN Encoding(s) = 0..len
           /\ Encoding(s)[0] = [val |-> 0, valb |-> -6, out |-> <<>>]
           /\ \A n \in 1..len : Encoding(s)[n] = EncodeByte(Encoding(s)[n - 1], s[n])
<1> DEFINE Zero == [val |-> 0, valb |-> -6, out |-> <<>>]
           Steps(f, k) == f = [n \in 0..k |-> IF n = 0 THEN Zero ELSE EncodeByte(f[n - 1], s[n])]
           T == {k \in Nat : \E f : Steps(f, k)}
<1> HIDE DEF Zero
<1>1. 0 \in T
  <2>1. Steps([n \in 0..0 |-> Zero], 0)
    OBVIOUS
  <2>2. QED
    BY <2>1
<1>2. ASSUME NEW k \in T PROVE k + 1 \in T
  <2>1. k \in Nat /\ k + 1 \in Nat
    OBVIOUS
  <2>2. PICK f : Steps(f, k)
    OBVIOUS
  <2>3. PICK last : last = EncodeByte(f[k], s[k + 1])
    OBVIOUS
  <2>4. PICK g : g = [n \in 0..(k + 1) |-> IF n <= k THEN f[n] ELSE last]
    OBVIOUS
  <2>5. ASSUME NEW n \in 0..(k + 1)
        PROVE  g[n] = IF n = 0 THEN Zero ELSE EncodeByte(g[n - 1], s[n])
    <3>1. CASE n = 0
      BY <2>1, <2>2, <2>4, <3>1
    <3>2. CASE n \in 1..k
      <4>1. g[n] = f[n] /\ g[n - 1] = f[n - 1] /\ n # 0 /\ n \in 0..k
        BY <2>1, <2>4, <3>2
      <4>2. f[n] = EncodeByte(f[n - 1], s[n])
        BY <2>2, <4>1
      <4>3. QED
        BY <4>1, <4>2
    <3>3. CASE n = k + 1
      <4>1. g[n] = last /\ g[n - 1] = f[k] /\ n # 0
        BY <2>1, <2>4, <3>3
      <4>2. QED
        BY <2>3, <3>3, <4>1
    <3>4. QED
      BY <2>1, <3>1, <3>2, <3>3
  <2>6. g = [n \in 0..(k + 1) |-> g[n]]
    BY <2>4
  <2>7. Steps(g, k + 1)
    BY <2>5, <2>6
  <2>8. QED
    BY <2>1, <2>7
<1>3. \E f : Steps(f, len)
  BY <1>1, <1>2, Induction
<1>4. Encoding(s) = [n \in 0..len |-> IF n = 0 THEN Zero ELSE EncodeByte(Encoding(s)[n - 1], s[n])]
  BY <1>3 DEF Encoding, Zero
<1>5. QED
  BY <1>4 DEF Zero

\* The steps of the loop over the characters are well defined.
LEMMA DecodingSteps ==
    ASSUME NEW s, NEW len \in Nat, len = Len(s)
    PROVE  /\ DOMAIN Decoding(s) = 0..len
           /\ Decoding(s)[0] = [val |-> 0, valb |-> -8, out |-> <<>>]
           /\ \A n \in 1..len : Decoding(s)[n] = DecodeChar(Decoding(s)[n - 1], s[n])
<1> DEFINE Zero == [val |-> 0, valb |-> -8, out |-> <<>>]
           Steps(f, k) == f = [n \in 0..k |-> IF n = 0 THEN Zero ELSE DecodeChar(f[n - 1], s[n])]
           T == {k \in Nat : \E f : Steps(f, k)}
<1> HIDE DEF Zero
<1>1. 0 \in T
  <2>1. Steps([n \in 0..0 |-> Zero], 0)
    OBVIOUS
  <2>2. QED
    BY <2>1
<1>2. ASSUME NEW k \in T PROVE k + 1 \in T
  <2>1. k \in Nat /\ k + 1 \in Nat
    OBVIOUS
  <2>2. PICK f : Steps(f, k)
    OBVIOUS
  <2>3. PICK last : last = DecodeChar(f[k], s[k + 1])
    OBVIOUS
  <2>4. PICK g : g = [n \in 0..(k + 1) |-> IF n <= k THEN f[n] ELSE last]
    OBVIOUS
  <2>5. ASSUME NEW n \in 0..(k + 1)
        PROVE  g[n] = IF n = 0 THEN Zero ELSE DecodeChar(g[n - 1], s[n])
    <3>1. CASE n = 0
      BY <2>1, <2>2, <2>4, <3>1
    <3>2. CASE n \in 1..k
      <4>1. g[n] = f[n] /\ g[n - 1] = f[n - 1] /\ n # 0 /\ n \in 0..k
        BY <2>1, <2>4, <3>2
      <4>2. f[n] = DecodeChar(f[n - 1], s[n])
        BY <2>2, <4>1
      <4>3. QED
        BY <4>1, <4>2
    <3>3. CASE n = k + 1
      <4>1. g[n] = last /\ g[n - 1] = f[k] /\ n # 0
        BY <2>1, <2>4, <3>3
      <4>2. QED
        BY <2>3, <3>3, <4>1
    <3>4. QED
      BY <2>1, <3>1, <3>2, <3>3
  <2>6. g = [n \in 0..(k + 1) |-> g[n]]
    BY <2>4
  <2>7. Steps(g, k + 1)
    BY <2>5, <2>6
  <2>8. QED
    BY <2>1, <2>7
<1>3. \E f : Steps(f, len)
  BY <1>1, <1>2, Induction
<1>4. Decoding(s) = [n \in 0..len |-> IF n = 0 THEN Zero ELSE DecodeChar(Decoding(s)[n - 1], s[n])]
  BY <1>3 DEF Decoding, Zero
<1>5. QED
  BY <1>4 DEF Zero

-----------------------------------------------------------------------------
(* The accumulator.                                                        *)

\* What division is.
LEMMA Division ==
    ASSUME NEW x \in Nat, NEW b \in Nat, b > 0
    PROVE  /\ x \div b \in Nat /\ x % b \in Nat /\ x % b < b
           /\ x = b * (x \div b) + (x % b)
OBVIOUS

\* A multiple more makes no difference to the remainder.
LEMMA Multiple ==
    ASSUME NEW m \in Nat, NEW v \in Nat
    PROVE  (65536 * m + v) % 65536 = v % 65536
<1>1. PICK a \in Nat, b \in Nat : v = 65536 * a + b /\ b < 65536 /\ b = v % 65536
  BY Division
<1>2. PICK x \in Nat : x = 65536 * m + v
  OBVIOUS
<1>3. PICK n \in Nat, c \in Nat : x = 65536 * n + c /\ c < 65536 /\ c = x % 65536
  BY Division
<1>4. b = c
  BY <1>1, <1>2, <1>3
<1>5. QED
  BY <1>1, <1>2, <1>3, <1>4

\* It overflows, but never in its lower 16 bits.
LEMMA Overflow ==
    ASSUME NEW x \in Nat
    PROVE  x % ValBase \in Nat /\ (x % ValBase) % 65536 = x % 65536
<1>1. PICK b \in Nat : b = ValBase /\ b > 0 /\ b % 65536 = 0
  BY ValAssumption
<1>2. PICK k \in Nat : k = b \div 65536
  BY <1>1
<1>3. b = 65536 * k
  BY <1>1, <1>2
<1>4. PICK v \in Nat, t \in Nat : v = x % b /\ x = b * t + v
  BY <1>1, Division
<1>5. PICK m \in Nat : m = k * t
  OBVIOUS
<1>6. b * t = 65536 * m
  BY <1>3, <1>5
<1>7. x = 65536 * m + v
  BY <1>4, <1>6
<1>8. QED
  BY <1>1, <1>4, <1>7, Multiple

\* A value that ends in two bytes, and the characters with their bits.
EndsInBytes(v, p, c) ==
    /\ v % 256 = c /\ v % 64 = c % 64 /\ (v \div 4) % 64 = c \div 4
    /\ (v \div 16) % 64 = (p % 4) * 16 + c \div 16
    /\ (v \div 64) % 64 = (p % 16) * 4 + c \div 64

LEMMA BitsOfBytes ==
    ASSUME NEW a \in Nat, NEW p \in Byte, NEW c \in Byte
    PROVE  EndsInBytes(256 * (256 * a + p) + c, p, c)
<1>1. PICK v \in Nat : v = 256 * (256 * a + p) + c
  BY DEF Byte
<1>2. v % 256 = c /\ v % 64 = c % 64 /\ (v \div 4) % 64 = c \div 4
  BY <1>1 DEF Byte
<1>3. (v \div 16) % 64 = (p % 4) * 16 + c \div 16
  BY <1>1 DEF Byte
<1>4. (v \div 64) % 64 = (p % 16) * 4 + c \div 64
  BY <1>1 DEF Byte
<1>5. EndsInBytes(v, p, c)
  BY <1>2, <1>3, <1>4 DEF EndsInBytes
<1>6. QED
  BY <1>1, <1>5

\* A value that ends in two characters, and the bytes with their bits.
EndsInChars(v, p, c) ==
    /\ v % 64 = c /\ v % 256 = (p % 4) * 64 + c
    /\ (v \div 16) % 256 = p * 4 + c \div 16
    /\ (v \div 4) % 256 = (p % 16) * 16 + c \div 4

LEMMA BitsOfSextets ==
    ASSUME NEW a \in Nat, NEW p \in Char, NEW c \in Char
    PROVE  EndsInChars(64 * (64 * a + p) + c, p, c)
<1>1. PICK v \in Nat : v = 64 * (64 * a + p) + c
  BY DEF Char
<1>2. v % 64 = c /\ v % 256 = (p % 4) * 64 + c
  BY <1>1 DEF Char
<1>3. PICK h \in Nat, k \in Nat : h = c \div 16 /\ k = c \div 4 /\ h < 4 /\ k < 16
  BY DEF Char
<1>4. PICK u \in Nat, w \in Nat : u = v \div 16 /\ w = v \div 4
  OBVIOUS
<1>5. u = 256 * a + 4 * p + h
  BY <1>1, <1>3, <1>4 DEF Char
<1>6. u % 256 = 4 * p + h
  BY <1>3, <1>5 DEF Char
<1>7. w = 1024 * a + 16 * p + k
  BY <1>1, <1>3, <1>4 DEF Char
<1>8. w % 256 = 16 * (p % 16) + k
  BY <1>3, <1>7 DEF Char
<1>9. EndsInChars(v, p, c)
  BY <1>2, <1>3, <1>4, <1>6, <1>8 DEF EndsInChars, Char
<1>10. QED
  BY <1>1, <1>9

\* val after something is added below.
Shift(val, weight, c) == (val * weight + c) % ValBase

\* A byte is shifted in below the byte before it.
LEMMA ShiftByte ==
    ASSUME NEW old \in Nat, NEW c \in Byte
    PROVE  \E a \in Nat : Shift(old, 256, c) = 256 * (256 * a + (old % 256)) + c
<1> USE DEF Byte
<1>1. PICK d \in Nat, p \in 0..255 : old = 256 * d + p /\ p = old % 256
  OBVIOUS
<1>2. PICK x \in Nat : x = old * 256 + c
  OBVIOUS
<1>3. x % 65536 = 256 * p + c
  BY <1>1, <1>2
<1>4. PICK v \in Nat : v = x % ValBase /\ v % 65536 = 256 * p + c
  BY <1>3, Overflow
<1>5. PICK a \in Nat : v = 65536 * a + 256 * p + c
  BY <1>4
<1>6. Shift(old, 256, c) = v
  BY <1>2, <1>4 DEF Shift
<1>7. QED
  BY <1>1, <1>5, <1>6

\* Six bits are shifted in below the six before them.
LEMMA ShiftSextet ==
    ASSUME NEW old \in Nat, NEW c \in Char
    PROVE  \E a \in Nat : Shift(old, 64, c) = 64 * (64 * a + (old % 64)) + c
<1> USE DEF Char
<1>1. PICK d \in Nat, p \in 0..63 : old = 64 * d + p /\ p = old % 64
  OBVIOUS
<1>2. PICK x \in Nat : x = old * 64 + c
  OBVIOUS
<1>3. PICK v \in Nat : v = x % ValBase /\ v % 65536 = x % 65536
  BY <1>2, Overflow
<1>4. PICK b \in Nat, u \in Nat : v = 65536 * b + u /\ u = v % 65536
  BY Division
<1>5. PICK w \in Nat : x = 65536 * w + u
  BY <1>3, <1>4, Division
<1>6. v = 65536 * b + u /\ x = 65536 * w + u
  BY <1>4, <1>5
<1>7. PICK e \in Int : e = 16 * b + d - 16 * w
  BY <1>1
<1>8. v = 4096 * e + 64 * p + c
  BY <1>1, <1>2, <1>6, <1>7
<1>9. e \in Nat
  BY <1>8
<1>10. Shift(old, 64, c) = v
  BY <1>2, <1>3 DEF Shift
<1>11. QED
  BY <1>1, <1>8, <1>9, <1>10

-----------------------------------------------------------------------------
(* The reference in terms of bytes.                                        *)

\* A byte past the end counts as zero.
At(s, n) == IF n <= Len(s) THEN s[n] ELSE 0

\* The bits of one byte.
LEMMA BitsAt ==
    ASSUME NEW s \in Bytes, NEW j \in Nat, NEW x, x = At(s, j + 1)
    PROVE  /\ x \in 0..255
           /\ Bit(s, 8 * j)     = (x \div 128) % 2
           /\ Bit(s, 8 * j + 1) = (x \div 64) % 2
           /\ Bit(s, 8 * j + 2) = (x \div 32) % 2
           /\ Bit(s, 8 * j + 3) = (x \div 16) % 2
           /\ Bit(s, 8 * j + 4) = (x \div 8) % 2
           /\ Bit(s, 8 * j + 5) = (x \div 4) % 2
           /\ Bit(s, 8 * j + 6) = (x \div 2) % 2
           /\ Bit(s, 8 * j + 7) = x % 2
<1>1. PICK len \in Nat : len = Len(s)
  BY LenProperties DEF Bytes
<1>2. x \in 0..255
  BY <1>1, ElementOfSeq DEF At, Bytes, Byte
<1>3. ASSUME NEW b \in 0..7, NEW w \in Nat \ {0}, w = 2^(7 - b)
      PROVE  Bit(s, 8 * j + b) = (x \div w) % 2
  <2>1. PICK n \in Nat : n = 8 * j + b
    OBVIOUS
  <2>2. n \div 8 = j /\ n % 8 = b /\ (n >= 8 * len <=> j >= len)
    BY <2>1
  <2>3. CASE j >= len
    <3>1. x = 0 /\ Bit(s, n) = 0
      BY <1>1, <2>2, <2>3 DEF At, Bit
    <3>2. (0 \div w) % 2 = 0
      OBVIOUS
    <3>3. QED
      BY <2>1, <3>1, <3>2
  <2>4. CASE j < len
    <3>1. x = s[j + 1] /\ Bit(s, n) = (s[j + 1] \div 2^(7 - b)) % 2
      BY <1>1, <2>2, <2>4 DEF At, Bit
    <3>2. QED
      BY <1>3, <2>1, <3>1
  <2>5. QED
    BY <2>3, <2>4
<1>4. /\ 128 = 2^(7 - 0) /\ 64 = 2^(7 - 1) /\ 32 = 2^(7 - 2) /\ 16 = 2^(7 - 3)
      /\ 8 = 2^(7 - 4) /\ 4 = 2^(7 - 5) /\ 2 = 2^(7 - 6) /\ 1 = 2^(7 - 7)
  OBVIOUS
<1>5. /\ Bit(s, 8 * j + 0) = (x \div 128) % 2 /\ Bit(s, 8 * j + 1) = (x \div 64) % 2
      /\ Bit(s, 8 * j + 2) = (x \div 32) % 2 /\ Bit(s, 8 * j + 3) = (x \div 16) % 2
  BY <1>3, <1>4
<1>6. /\ Bit(s, 8 * j + 4) = (x \div 8) % 2 /\ Bit(s, 8 * j + 5) = (x \div 4) % 2
      /\ Bit(s, 8 * j + 6) = (x \div 2) % 2 /\ Bit(s, 8 * j + 7) = (x \div 1) % 2
  BY <1>3, <1>4
<1>7. 8 * j + 0 = 8 * j /\ x \div 1 = x
  BY <1>2
<1>8. QED
  BY <1>2, <1>5, <1>6, <1>7

\* A byte is the sum of its bits, and so are its parts.
LEMMA SumOfBits ==
    ASSUME NEW x \in 0..255
    PROVE  /\ x \div 4 = 32 * ((x \div 128) % 2) + 16 * ((x \div 64) % 2) + 8 * ((x \div 32) % 2)
                           + 4 * ((x \div 16) % 2) + 2 * ((x \div 8) % 2) + ((x \div 4) % 2)
           /\ x % 4 = 2 * ((x \div 2) % 2) + (x % 2)
           /\ x \div 16 = 8 * ((x \div 128) % 2) + 4 * ((x \div 64) % 2) + 2 * ((x \div 32) % 2)
                            + ((x \div 16) % 2)
           /\ x % 16 = 8 * ((x \div 8) % 2) + 4 * ((x \div 4) % 2) + 2 * ((x \div 2) % 2) + (x % 2)
           /\ x \div 64 = 2 * ((x \div 128) % 2) + ((x \div 64) % 2)
           /\ x % 64 = 32 * ((x \div 32) % 2) + 16 * ((x \div 16) % 2) + 8 * ((x \div 8) % 2)
                         + 4 * ((x \div 4) % 2) + 2 * ((x \div 2) % 2) + (x % 2)
<1>1. PICK a \in 0..1, b \in 0..1, c \in 0..1, d \in 0..1, e \in 0..1, f \in 0..1, g \in 0..1,
           h \in 0..1 : x = 128 * a + 64 * b + 32 * c + 16 * d + 8 * e + 4 * f + 2 * g + h
  <2>1. PICK u \in 0..15, v \in 0..15 : x = 16 * u + v
    OBVIOUS
  <2>2. PICK a \in 0..1, b \in 0..1, c \in 0..1, d \in 0..1 : u = 8 * a + 4 * b + 2 * c + d
    OBVIOUS
  <2>3. PICK e \in 0..1, f \in 0..1, g \in 0..1, h \in 0..1 : v = 8 * e + 4 * f + 2 * g + h
    OBVIOUS
  <2>4. x = 128 * a + 64 * b + 32 * c + 16 * d + 8 * e + 4 * f + 2 * g + h
    BY <2>1, <2>2, <2>3
  <2>5. QED
    BY <2>4
<1>2. /\ (x \div 128) % 2 = a /\ (x \div 64) % 2 = b /\ (x \div 32) % 2 = c
      /\ (x \div 16) % 2 = d
  BY <1>1
<1>3. (x \div 8) % 2 = e /\ (x \div 4) % 2 = f /\ (x \div 2) % 2 = g /\ x % 2 = h
  BY <1>1
<1>4. x \div 4 = 32 * a + 16 * b + 8 * c + 4 * d + 2 * e + f /\ x % 4 = 2 * g + h
  BY <1>1
<1>5. x \div 16 = 8 * a + 4 * b + 2 * c + d /\ x % 16 = 8 * e + 4 * f + 2 * g + h
  BY <1>1
<1>6. x \div 64 = 2 * a + b /\ x % 64 = 32 * c + 16 * d + 8 * e + 4 * f + 2 * g + h
  BY <1>1
<1>7. QED
  BY <1>2, <1>3, <1>4, <1>5, <1>6

\* Six bits as a number.
SixBits(a, b, c, d, e, f) == a * 32 + b * 16 + c * 8 + d * 4 + e * 2 + f * 1

\* The bits of a byte, and of two neighbours, by six.
LEMMA BitsBySix ==
    ASSUME NEW x \in 0..255
    PROVE  /\ SixBits((x \div 128) % 2, (x \div 64) % 2, (x \div 32) % 2,
                      (x \div 16) % 2, (x \div 8) % 2, (x \div 4) % 2) = x \div 4
           /\ SixBits((x \div 32) % 2, (x \div 16) % 2, (x \div 8) % 2,
                      (x \div 4) % 2, (x \div 2) % 2, x % 2) = x % 64
BY SumOfBits DEF SixBits

LEMMA BitsAcross ==
    ASSUME NEW x \in 0..255, NEW y \in 0..255
    PROVE  /\ SixBits((x \div 2) % 2, x % 2, (y \div 128) % 2,
                      (y \div 64) % 2, (y \div 32) % 2, (y \div 16) % 2) = (x % 4) * 16 + y \div 16
           /\ SixBits((x \div 8) % 2, (x \div 4) % 2, (x \div 2) % 2,
                      x % 2, (y \div 128) % 2, (y \div 64) % 2) = (x % 16) * 4 + y \div 64
<1>1. SixBits((x \div 2) % 2, x % 2, (y \div 128) % 2,
              (y \div 64) % 2, (y \div 32) % 2, (y \div 16) % 2) = (x % 4) * 16 + y \div 16
  BY SumOfBits DEF SixBits
<1>2. SixBits((x \div 8) % 2, (x \div 4) % 2, (x \div 2) % 2,
              x % 2, (y \div 128) % 2, (y \div 64) % 2) = (x % 16) * 4 + y \div 64
  <2>1. x % 16 = 8 * ((x \div 8) % 2) + 4 * ((x \div 4) % 2) + 2 * ((x \div 2) % 2) + (x % 2)
    BY SumOfBits
  <2>2. y \div 64 = 2 * ((y \div 128) % 2) + ((y \div 64) % 2)
    BY SumOfBits
  <2>3. QED
    BY <2>1, <2>2 DEF SixBits
<1>3. QED
  BY <1>1, <1>2

\* Three bytes and their four characters.
Quad(s, q, x, y, z) ==
    /\ x \in Byte /\ y \in Byte /\ z \in Byte
    /\ Sextet(s, 4 * q + 1) = x \div 4
    /\ Sextet(s, 4 * q + 2) = (x % 4) * 16 + y \div 16
    /\ Sextet(s, 4 * q + 3) = (y % 16) * 4 + z \div 64
    /\ Sextet(s, 4 * q + 4) = z % 64

LEMMA FourSextets ==
    ASSUME NEW s \in Bytes, NEW q \in Nat
    PROVE  Quad(s, q, At(s, 3 * q + 1), At(s, 3 * q + 2), At(s, 3 * q + 3))
<1>1. PICK x, y, z : x = At(s, 3 * q + 1) /\ y = At(s, 3 * q + 2) /\ z = At(s, 3 * q + 3)
  OBVIOUS
<1>2. PICK j \in Nat, k \in Nat, l \in Nat : j = 3 * q /\ k = 3 * q + 1 /\ l = 3 * q + 2
  OBVIOUS
<1>3. x = At(s, j + 1) /\ y = At(s, k + 1) /\ z = At(s, l + 1)
  BY <1>1, <1>2
<1>4. x \in 0..255 /\ y \in 0..255 /\ z \in 0..255
  BY <1>3, BitsAt
<1>5. /\ Bit(s, 24 * q)     = (x \div 128) % 2
      /\ Bit(s, 24 * q + 1) = (x \div 64) % 2
      /\ Bit(s, 24 * q + 2) = (x \div 32) % 2
      /\ Bit(s, 24 * q + 3) = (x \div 16) % 2
      /\ Bit(s, 24 * q + 4) = (x \div 8) % 2
      /\ Bit(s, 24 * q + 5) = (x \div 4) % 2
      /\ Bit(s, 24 * q + 6) = (x \div 2) % 2
      /\ Bit(s, 24 * q + 7) = x % 2
  BY <1>2, <1>3, BitsAt
<1>6. /\ Bit(s, 8 * k) = (y \div 128) % 2
      /\ Bit(s, 8 * k + 1) = (y \div 64) % 2
      /\ Bit(s, 8 * k + 2) = (y \div 32) % 2
      /\ Bit(s, 8 * k + 3) = (y \div 16) % 2
      /\ Bit(s, 8 * k + 4) = (y \div 8) % 2
      /\ Bit(s, 8 * k + 5) = (y \div 4) % 2
      /\ Bit(s, 8 * k + 6) = (y \div 2) % 2
      /\ Bit(s, 8 * k + 7) = y % 2
  BY <1>3, BitsAt
<1>7. /\ Bit(s, 24 * q + 8)  = (y \div 128) % 2
      /\ Bit(s, 24 * q + 9)  = (y \div 64) % 2
      /\ Bit(s, 24 * q + 10) = (y \div 32) % 2
      /\ Bit(s, 24 * q + 11) = (y \div 16) % 2
      /\ Bit(s, 24 * q + 12) = (y \div 8) % 2
      /\ Bit(s, 24 * q + 13) = (y \div 4) % 2
      /\ Bit(s, 24 * q + 14) = (y \div 2) % 2
      /\ Bit(s, 24 * q + 15) = y % 2
  BY <1>2, <1>6
<1>8. /\ Bit(s, 8 * l) = (z \div 128) % 2
      /\ Bit(s, 8 * l + 1) = (z \div 64) % 2
      /\ Bit(s, 8 * l + 2) = (z \div 32) % 2
      /\ Bit(s, 8 * l + 3) = (z \div 16) % 2
      /\ Bit(s, 8 * l + 4) = (z \div 8) % 2
      /\ Bit(s, 8 * l + 5) = (z \div 4) % 2
      /\ Bit(s, 8 * l + 6) = (z \div 2) % 2
      /\ Bit(s, 8 * l + 7) = z % 2
  BY <1>3, BitsAt
<1>9. /\ Bit(s, 24 * q + 16) = (z \div 128) % 2
      /\ Bit(s, 24 * q + 17) = (z \div 64) % 2
      /\ Bit(s, 24 * q + 18) = (z \div 32) % 2
      /\ Bit(s, 24 * q + 19) = (z \div 16) % 2
      /\ Bit(s, 24 * q + 20) = (z \div 8) % 2
      /\ Bit(s, 24 * q + 21) = (z \div 4) % 2
      /\ Bit(s, 24 * q + 22) = (z \div 2) % 2
      /\ Bit(s, 24 * q + 23) = z % 2
  BY <1>2, <1>8
<1>10. 2^(5 - 0) = 32 /\ 2^(5 - 1) = 16 /\ 2^(5 - 2) = 8 /\ 2^(5 - 3) = 4 /\ 2^(5 - 4) = 2
         /\ 2^(5 - 5) = 1
  OBVIOUS
<1>11. Sextet(s, 4 * q + 1)
        = SixBits(Bit(s, 24 * q), Bit(s, 24 * q + 1), Bit(s, 24 * q + 2),
                  Bit(s, 24 * q + 3), Bit(s, 24 * q + 4), Bit(s, 24 * q + 5))
  BY <1>10 DEF Sextet, SixBits
<1>12. Sextet(s, 4 * q + 1) = x \div 4
  BY <1>4, <1>5, <1>11, BitsBySix
<1>13. Sextet(s, 4 * q + 2)
        = SixBits(Bit(s, 24 * q + 6), Bit(s, 24 * q + 7), Bit(s, 24 * q + 8),
                  Bit(s, 24 * q + 9), Bit(s, 24 * q + 10), Bit(s, 24 * q + 11))
  BY <1>10 DEF Sextet, SixBits
<1>14. Sextet(s, 4 * q + 2) = (x % 4) * 16 + y \div 16
  <2>1. SixBits((x \div 2) % 2, x % 2, (y \div 128) % 2,
                (y \div 64) % 2, (y \div 32) % 2, (y \div 16) % 2) = (x % 4) * 16 + y \div 16
    BY <1>4, BitsAcross
  <2>2. QED
    BY <1>5, <1>7, <1>9, <1>13, <2>1
<1>15. Sextet(s, 4 * q + 3)
        = SixBits(Bit(s, 24 * q + 12), Bit(s, 24 * q + 13), Bit(s, 24 * q + 14),
                  Bit(s, 24 * q + 15), Bit(s, 24 * q + 16), Bit(s, 24 * q + 17))
  BY <1>10 DEF Sextet, SixBits
<1>16. Sextet(s, 4 * q + 3) = (y % 16) * 4 + z \div 64
  <2>1. SixBits((y \div 8) % 2, (y \div 4) % 2, (y \div 2) % 2,
                y % 2, (z \div 128) % 2, (z \div 64) % 2) = (y % 16) * 4 + z \div 64
    BY <1>4, BitsAcross
  <2>2. QED
    BY <1>5, <1>7, <1>9, <1>15, <2>1
<1>17. Sextet(s, 4 * q + 4)
        = SixBits(Bit(s, 24 * q + 18), Bit(s, 24 * q + 19), Bit(s, 24 * q + 20),
                  Bit(s, 24 * q + 21), Bit(s, 24 * q + 22), Bit(s, 24 * q + 23))
  BY <1>10 DEF Sextet, SixBits
<1>18. Sextet(s, 4 * q + 4) = z % 64
  <2>1. SixBits((z \div 32) % 2, (z \div 16) % 2, (z \div 8) % 2,
                (z \div 4) % 2, (z \div 2) % 2, z % 2) = z % 64
    BY <1>4, BitsBySix
  <2>2. QED
    BY <1>5, <1>7, <1>9, <1>17, <2>1
<1>19. Quad(s, q, x, y, z)
  BY <1>4, <1>12, <1>14, <1>16, <1>18 DEF Quad, Byte
<1>20. QED
  BY <1>1, <1>19, Zenon

\* Every character of the reference is one of base64_chars.
LEMMA SextetType ==
    ASSUME NEW s \in Bytes, NEW i \in Nat \ {0}
    PROVE  Sextet(s, i) \in 0..63
<1>1. PICK h \in Nat : i = h + 1
  OBVIOUS
<1>2. PICK q : q = h \div 4
  OBVIOUS
<1>3. q \in Nat /\ (h = 4 * q \/ h = 4 * q + 1 \/ h = 4 * q + 2 \/ h = 4 * q + 3)
  BY <1>2
<1>4. i = 4 * q + 1 \/ i = 4 * q + 2 \/ i = 4 * q + 3 \/ i = 4 * q + 4
  BY <1>1, <1>3
<1>5. PICK x, y, z : x = At(s, 3 * q + 1) /\ y = At(s, 3 * q + 2) /\ z = At(s, 3 * q + 3)
  OBVIOUS
<1>6. Quad(s, q, x, y, z)
  BY <1>3, <1>5, FourSextets, Zenon
<1>7. /\ x \div 4 \in 0..63 /\ (x % 4) * 16 + y \div 16 \in 0..63
      /\ (y % 16) * 4 + z \div 64 \in 0..63 /\ z % 64 \in 0..63
  <2>1. x \in 0..255 /\ y \in 0..255 /\ z \in 0..255
    BY <1>6 DEF Quad, Byte
  <2>2. QED
    BY <2>1
<1>8. /\ Sextet(s, 4 * q + 1) \in 0..63 /\ Sextet(s, 4 * q + 2) \in 0..63
      /\ Sextet(s, 4 * q + 3) \in 0..63 /\ Sextet(s, 4 * q + 4) \in 0..63
  BY <1>6, <1>7, Zenon DEF Quad
<1>9. QED
  BY <1>4, <1>8, Zenon

-----------------------------------------------------------------------------
(* base64_encode.                                                          *)

\* The characters of the reference up to the n-th.
Sextets(s, n) == [i \in 1..n |-> Sextet(s, i)]

LEMMA SextetsType ==
    ASSUME NEW s \in Bytes, NEW n \in Nat
    PROVE  Sextets(s, n) \in Chars /\ Len(Sextets(s, n)) = n
<1>1. ASSUME NEW i \in 1..n PROVE Sextet(s, i) \in 0..63
  <2>1. i \in Nat \ {0}
    OBVIOUS
  <2>2. QED
    BY <2>1, SextetType
<1>2. Sextets(s, n) \in [1..n -> 0..63]
  BY <1>1 DEF Sextets
<1>3. QED
  BY <1>2 DEF Chars, Char

\* Characters are added at the end.
LEMMA SextetsGrow ==
    ASSUME NEW s \in Bytes, NEW n \in Nat, NEW m \in Nat,
           NEW t, t = [i \in 1..m |-> Sextet(s, n + i)]
    PROVE  Sextets(s, n) \o t = Sextets(s, n + m)
<1>1. PICK a \in Seq(Char) : a = Sextets(s, n) /\ Len(a) = n
  BY SextetsType DEF Chars
<1>2. PICK b \in Seq(Char) : b = Sextets(s, n + m) /\ Len(b) = n + m
  BY SextetsType DEF Chars
<1>3. t \in Seq(Char) /\ Len(t) = m
  <2>1. ASSUME NEW i \in 1..m PROVE Sextet(s, n + i) \in Char
    <3>1. n + i \in Nat \ {0}
      OBVIOUS
    <3>2. QED
      BY <3>1, SextetType DEF Char
  <2>2. t \in [1..m -> Char]
    BY <2>1
  <2>3. QED
    BY <2>2, FunctionIsSeq, Zenon
<1>4. PICK u : u = a \o t
  OBVIOUS
<1>5. /\ u \in Seq(Char) /\ Len(u) = n + m
      /\ \A i \in 1..n : u[i] = a[i]
      /\ \A i \in 1..m : u[n + i] = t[i]
  <2>1. u \in Seq(Char) /\ Joined(u, a, t)
    BY <1>3, <1>4, BothParts
  <2>2. QED
    BY <1>1, <1>3, <2>1, Zenon DEF Joined
<1>6. ASSUME NEW i \in 1..(n + m) PROVE u[i] = b[i]
  <2>1. b[i] = Sextet(s, i)
    BY <1>2 DEF Sextets
  <2>2. CASE i <= n
    BY <1>1, <1>5, <2>1, <2>2 DEF Sextets
  <2>3. CASE i > n
    <3>1. PICK j \in 1..m : i = n + j
      BY <2>3
    <3>2. u[n + j] = Sextet(s, n + j)
      BY <1>5
    <3>3. QED
      BY <2>1, <3>1, <3>2
  <2>4. QED
    BY <2>2, <2>3
<1>7. u = b
  BY <1>2, <1>5, <1>6, SeqEqual
<1>8. QED
  BY <1>1, <1>2, <1>4, <1>7

\* The accumulator after one byte more: its bits, and those of the byte before.
LEMMA EncodeValue ==
    ASSUME NEW v \in Nat, NEW c \in Byte
    PROVE  \E w \in Nat, p \in Byte :
              w = Shift(v, 256, c) /\ p = v % 256 /\ EndsInBytes(w, p, c)
<1>1. PICK a \in Nat : Shift(v, 256, c) = 256 * (256 * a + (v % 256)) + c
  BY ShiftByte
<1>2. PICK p \in Byte : p = v % 256
  BY DEF Byte
<1>3. PICK w \in Nat : w = Shift(v, 256, c) /\ w = 256 * (256 * a + p) + c
  BY <1>1, <1>2 DEF Byte
<1>4. EndsInBytes(w, p, c)
  <2>1. EndsInBytes(256 * (256 * a + p) + c, p, c)
    BY BitsOfBytes, Zenon
  <2>2. QED
    BY <1>3, <2>1, Zenon
<1>5. QED
  BY <1>2, <1>3, <1>4, Zenon

LEMMA EncodeByteIs ==
    ASSUME NEW acc, NEW c
    PROVE  EncodeByte(acc, c)
             = [val |-> Shift(acc.val, 256, c),
               valb |-> (acc.valb + 8) - 6 * ((acc.valb + 8) \div 6 + 1),
                out |-> acc.out \o Characters(Shift(acc.val, 256, c), acc.valb + 8)]
BY Zenon DEF EncodeByte, Shift

\* The characters one byte more gives, by the bits left over.
LEMMA CharactersAre ==
    ASSUME NEW w \in Nat
    PROVE  /\ Characters(w, 2) = [i \in 1..1 |-> (w \div 4) % 64]
           /\ Characters(w, 4) = [i \in 1..1 |-> (w \div 16) % 64]
           /\ Characters(w, 6) = [i \in 1..2 |-> IF i = 1 THEN (w \div 64) % 64 ELSE w % 64]
<1>1. 2^2 = 4 /\ 2^4 = 16 /\ 2^6 = 64 /\ 2^0 = 1 /\ w \div 1 = w
  OBVIOUS
<1>2. 2 \div 6 + 1 = 1 /\ 4 \div 6 + 1 = 1 /\ 6 \div 6 + 1 = 2
  OBVIOUS
<1>3. ASSUME NEW i \in 1..1 PROVE 2 - 6 * (i - 1) = 2 /\ 4 - 6 * (i - 1) = 4
  OBVIOUS
<1>4. ASSUME NEW i \in 1..2 PROVE 6 - 6 * (i - 1) = IF i = 1 THEN 6 ELSE 0
  OBVIOUS
<1>5. Characters(w, 2) = [i \in 1..1 |-> (w \div 4) % 64]
  BY <1>1, <1>2, <1>3 DEF Characters
<1>6. Characters(w, 4) = [i \in 1..1 |-> (w \div 16) % 64]
  BY <1>1, <1>2, <1>3 DEF Characters
<1>7. Characters(w, 6) = [i \in 1..2 |-> IF i = 1 THEN (w \div 64) % 64 ELSE w % 64]
  BY <1>1, <1>2, <1>4 DEF Characters
<1>8. QED
  BY <1>5, <1>6, <1>7

\* The accumulator when k characters have been given.
Coded(acc, v, b, s, k) == acc = [val |-> v, valb |-> b, out |-> Sextets(s, k)]

\* What a byte gives is the next m characters of the reference.
Gives(v, b, c, s, k, m) ==
    Characters(Shift(v, 256, c), b + 8) = [i \in 1..m |-> Sextet(s, k + i)]

LEMMA EncodeByteCodes ==
    ASSUME NEW s \in Bytes, NEW k \in Nat, NEW m \in Nat, NEW v, NEW b, NEW acc, NEW c,
           Coded(acc, v, b, s, k), Gives(v, b, c, s, k, m)
    PROVE  Coded(EncodeByte(acc, c), Shift(v, 256, c), (b + 8) - 6 * ((b + 8) \div 6 + 1), s, k + m)
<1>1. acc.val = v /\ acc.valb = b /\ acc.out = Sextets(s, k)
  BY DEF Coded
<1>2. EncodeByte(acc, c)
        = [val |-> Shift(v, 256, c), valb |-> (b + 8) - 6 * ((b + 8) \div 6 + 1),
           out |-> Sextets(s, k) \o Characters(Shift(v, 256, c), b + 8)]
  BY <1>1, EncodeByteIs, Zenon
<1>3. Sextets(s, k) \o Characters(Shift(v, 256, c), b + 8) = Sextets(s, k + m)
  BY SextetsGrow, Zenon DEF Gives
<1>4. QED
  BY <1>1, <1>2, <1>3, Zenon DEF Coded

\* The first, second and third byte of three.
LEMMA EncodeFirst ==
    ASSUME NEW s \in Bytes, NEW q \in Nat, At(s, 3 * q + 1) \in Byte,
           NEW v \in Nat, NEW acc, Coded(acc, v, -6, s, 4 * q)
    PROVE  \E w \in Nat : w % 256 = At(s, 3 * q + 1)
             /\ Coded(EncodeByte(acc, At(s, 3 * q + 1)), w, -4, s, 4 * q + 1)
<1>1. PICK c \in Byte : c = At(s, 3 * q + 1)
  OBVIOUS
<1>2. PICK w \in Nat, p \in Byte : w = Shift(v, 256, c) /\ EndsInBytes(w, p, c)
  BY EncodeValue, Zenon
<1>3. (w \div 4) % 64 = c \div 4 /\ w % 256 = c
  BY <1>2, Zenon DEF EndsInBytes
<1>4. Sextet(s, 4 * q + 1) = c \div 4
  BY <1>1, FourSextets, Zenon DEF Quad
<1>5. Characters(w, 2) = [i \in 1..1 |-> Sextet(s, 4 * q + i)]
  <2>1. ASSUME NEW i \in 1..1 PROVE (w \div 4) % 64 = Sextet(s, 4 * q + i)
    BY <1>3, <1>4
  <2>2. [i \in 1..1 |-> (w \div 4) % 64] = [i \in 1..1 |-> Sextet(s, 4 * q + i)]
    BY <2>1
  <2>3. Characters(w, 2) = [i \in 1..1 |-> (w \div 4) % 64]
    BY CharactersAre, Zenon
  <2>4. QED
    BY <2>2, <2>3, Zenon
<1>6. -6 + 8 = 2 /\ 2 - 6 * (2 \div 6 + 1) = -4 /\ 4 * q \in Nat /\ 1 \in Nat
  OBVIOUS
<1>7. Gives(v, -6, c, s, 4 * q, 1)
  BY <1>2, <1>5, <1>6, Zenon DEF Gives
<1>8. Coded(EncodeByte(acc, c), Shift(v, 256, c), (-6 + 8) - 6 * ((-6 + 8) \div 6 + 1), s,
        4 * q + 1)
  BY <1>6, <1>7, EncodeByteCodes, Zenon
<1>9. QED
  BY <1>1, <1>2, <1>3, <1>6, <1>8, Zenon

LEMMA EncodeSecond ==
    ASSUME NEW s \in Bytes, NEW q \in Nat, At(s, 3 * q + 2) \in Byte,
           NEW v \in Nat, v % 256 = At(s, 3 * q + 1),
           NEW acc, Coded(acc, v, -4, s, 4 * q + 1)
    PROVE  \E w \in Nat : w % 256 = At(s, 3 * q + 2)
             /\ Coded(EncodeByte(acc, At(s, 3 * q + 2)), w, -2, s, 4 * q + 2)
<1>1. PICK c \in Byte : c = At(s, 3 * q + 2)
  OBVIOUS
<1>2. PICK w \in Nat, p \in Byte : w = Shift(v, 256, c) /\ p = v % 256 /\ EndsInBytes(w, p, c)
  BY EncodeValue, Zenon
<1>3. (w \div 16) % 64 = (p % 4) * 16 + c \div 16 /\ w % 256 = c
  BY <1>2, Zenon DEF EndsInBytes
<1>4. Sextet(s, 4 * q + 2) = (p % 4) * 16 + c \div 16
  <2>1. Quad(s, q, At(s, 3 * q + 1), At(s, 3 * q + 2), At(s, 3 * q + 3))
    BY FourSextets, Zenon
  <2>2. Quad(s, q, p, c, At(s, 3 * q + 3))
    BY <1>1, <1>2, <2>1, Zenon
  <2>3. QED
    BY <2>2, Zenon DEF Quad
<1>5. Characters(w, 4) = [i \in 1..1 |-> Sextet(s, (4 * q + 1) + i)]
  <2>1. ASSUME NEW i \in 1..1 PROVE (w \div 16) % 64 = Sextet(s, (4 * q + 1) + i)
    <3>1. (4 * q + 1) + i = 4 * q + 2
      OBVIOUS
    <3>2. QED
      BY <1>3, <1>4, <3>1, Zenon
  <2>2. [i \in 1..1 |-> (w \div 16) % 64] = [i \in 1..1 |-> Sextet(s, (4 * q + 1) + i)]
    BY <2>1
  <2>3. Characters(w, 4) = [i \in 1..1 |-> (w \div 16) % 64]
    BY CharactersAre, Zenon
  <2>4. QED
    BY <2>2, <2>3, Zenon
<1>6. /\ -4 + 8 = 4 /\ 4 - 6 * (4 \div 6 + 1) = -2 /\ 4 * q + 1 \in Nat /\ 1 \in Nat
      /\ (4 * q + 1) + 1 = 4 * q + 2
  OBVIOUS
<1>7. Gives(v, -4, c, s, 4 * q + 1, 1)
  BY <1>2, <1>5, <1>6, Zenon DEF Gives
<1>8. Coded(EncodeByte(acc, c), Shift(v, 256, c), (-4 + 8) - 6 * ((-4 + 8) \div 6 + 1), s,
            (4 * q + 1) + 1)
  BY <1>6, <1>7, EncodeByteCodes, Zenon
<1>9. QED
  BY <1>1, <1>2, <1>3, <1>6, <1>8, Zenon

LEMMA EncodeThird ==
    ASSUME NEW s \in Bytes, NEW q \in Nat, At(s, 3 * q + 3) \in Byte,
           NEW v \in Nat, v % 256 = At(s, 3 * q + 2),
           NEW acc, Coded(acc, v, -2, s, 4 * q + 2)
    PROVE  \E w \in Nat : w % 256 = At(s, 3 * q + 3)
             /\ Coded(EncodeByte(acc, At(s, 3 * q + 3)), w, -6, s, 4 * (q + 1))
<1>1. PICK c \in Byte : c = At(s, 3 * q + 3)
  OBVIOUS
<1>2. PICK w \in Nat, p \in Byte : w = Shift(v, 256, c) /\ p = v % 256 /\ EndsInBytes(w, p, c)
  BY EncodeValue, Zenon
<1>3. (w \div 64) % 64 = (p % 16) * 4 + c \div 64 /\ w % 64 = c % 64 /\ w % 256 = c
  BY <1>2, Zenon DEF EndsInBytes
<1>4. Sextet(s, 4 * q + 3) = (p % 16) * 4 + c \div 64 /\ Sextet(s, 4 * q + 4) = c % 64
  <2>1. Quad(s, q, At(s, 3 * q + 1), At(s, 3 * q + 2), At(s, 3 * q + 3))
    BY FourSextets, Zenon
  <2>2. Quad(s, q, At(s, 3 * q + 1), p, c)
    BY <1>1, <1>2, <2>1, Zenon
  <2>3. QED
    BY <2>2, Zenon DEF Quad
<1>5. Characters(w, 6) = [i \in 1..2 |-> Sextet(s, (4 * q + 2) + i)]
  <2>1. ASSUME NEW i \in 1..2
        PROVE  (IF i = 1 THEN (w \div 64) % 64 ELSE w % 64) = Sextet(s, (4 * q + 2) + i)
    <3>1. CASE i = 1
      <4>1. (4 * q + 2) + i = 4 * q + 3
        BY <3>1
      <4>2. QED
        BY <1>3, <1>4, <3>1, <4>1, Zenon
    <3>2. CASE i = 2
      <4>1. (4 * q + 2) + i = 4 * q + 4 /\ i # 1
        BY <3>2
      <4>2. QED
        BY <1>3, <1>4, <4>1, Zenon
    <3>3. QED
      BY <3>1, <3>2
  <2>2. [i \in 1..2 |-> IF i = 1 THEN (w \div 64) % 64 ELSE w % 64]
          = [i \in 1..2 |-> Sextet(s, (4 * q + 2) + i)]
    BY <2>1
  <2>3. Characters(w, 6) = [i \in 1..2 |-> IF i = 1 THEN (w \div 64) % 64 ELSE w % 64]
    BY CharactersAre, Zenon
  <2>4. QED
    BY <2>2, <2>3, Zenon
<1>6. /\ -2 + 8 = 6 /\ 6 - 6 * (6 \div 6 + 1) = -6 /\ 4 * q + 2 \in Nat /\ 2 \in Nat
      /\ (4 * q + 2) + 2 = 4 * (q + 1)
  OBVIOUS
<1>7. Gives(v, -2, c, s, 4 * q + 2, 2)
  BY <1>2, <1>5, <1>6, Zenon DEF Gives
<1>8. Coded(EncodeByte(acc, c), Shift(v, 256, c), (-2 + 8) - 6 * ((-2 + 8) \div 6 + 1), s,
            (4 * q + 2) + 2)
  BY <1>6, <1>7, EncodeByteCodes, Zenon
<1>9. QED
  BY <1>1, <1>2, <1>3, <1>6, <1>8, Zenon

\* The n-th step takes the n-th byte.
LEMMA NextByte ==
    ASSUME NEW s \in Bytes, NEW n \in Nat, n < Len(s)
    PROVE  /\ At(s, n + 1) \in Byte
           /\ Encoding(s)[n + 1] = EncodeByte(Encoding(s)[n], At(s, n + 1))
<1>1. PICK len \in Nat : len = Len(s)
  BY LenProperties DEF Bytes
<1>2. PICK m : m = n + 1
  OBVIOUS
<1>3. m \in 1..len /\ m <= len /\ m - 1 = n
  BY <1>1, <1>2
<1>4. s[m] = At(s, m) /\ s[m] \in Byte
  BY <1>1, <1>3, ElementOfSeq DEF At, Bytes
<1>5. Encoding(s)[m] = EncodeByte(Encoding(s)[m - 1], s[m])
  BY <1>1, <1>3, EncodingSteps, Zenon
<1>6. QED
  BY <1>2, <1>3, <1>4, <1>5, Zenon

\* The loop over the bytes, three at a time and for what is left.
LEMMA EncodeThrees ==
    ASSUME NEW s \in Bytes, NEW q \in Nat, 3 * q <= Len(s)
    PROVE  \E v \in Nat : Coded(Encoding(s)[3 * q], v, -6, s, 4 * q)
<1>1. PICK len \in Nat : len = Len(s)
  BY LenProperties DEF Bytes
<1> DEFINE T == {k \in Nat : 3 * k <= len => \E v \in Nat :
                  Coded(Encoding(s)[3 * k], v, -6, s, 4 * k)}
<1>2. 0 \in T
  <2>1. Encoding(s)[0] = [val |-> 0, valb |-> -6, out |-> <<>>]
    BY <1>1, EncodingSteps, Zenon
  <2>2. Sextets(s, 0) = <<>>
    BY DEF Sextets
  <2>3. Coded(Encoding(s)[0], 0, -6, s, 0)
    BY <2>1, <2>2, Zenon DEF Coded
  <2>4. 3 * 0 = 0 /\ 4 * 0 = 0 /\ 0 \in Nat
    OBVIOUS
  <2>5. QED
    BY <2>3, <2>4, Zenon
<1>3. ASSUME NEW k \in T, k \in Nat PROVE k + 1 \in T
  <2>1. SUFFICES ASSUME 3 * (k + 1) <= len
                 PROVE  \E v \in Nat : Coded(Encoding(s)[3 * (k + 1)], v, -6, s, 4 * (k + 1))
    BY <1>3
  <2>2. 3 * k <= len /\ 3 * k \in Nat /\ 3 * k + 1 \in Nat /\ 3 * k + 2 \in Nat
    BY <1>3, <2>1
  <2>3. 3 * k < len /\ 3 * k + 1 < len /\ 3 * k + 2 < len
    BY <1>3, <2>1
  <2>4. /\ (3 * k + 1) + 1 = 3 * k + 2 /\ (3 * k + 2) + 1 = 3 * k + 3
        /\ 3 * k + 3 = 3 * (k + 1)
    BY <1>3
  <2>5. PICK v \in Nat : Coded(Encoding(s)[3 * k], v, -6, s, 4 * k)
    BY <1>3, <2>2, Zenon
  <2>6. /\ At(s, 3 * k + 1) \in Byte
        /\ Encoding(s)[3 * k + 1] = EncodeByte(Encoding(s)[3 * k], At(s, 3 * k + 1))
    BY <1>1, <2>2, <2>3, NextByte, Zenon
  <2>7. PICK w \in Nat : /\ w % 256 = At(s, 3 * k + 1)
                         /\ Coded(Encoding(s)[3 * k + 1], w, -4, s, 4 * k + 1)
    <3>1. \E w \in Nat :
             /\ w % 256 = At(s, 3 * k + 1)
             /\ Coded(EncodeByte(Encoding(s)[3 * k], At(s, 3 * k + 1)), w, -4, s, 4 * k + 1)
      BY <1>3, <2>5, <2>6, EncodeFirst, Zenon
    <3>2. QED
      BY <2>6, <3>1, Zenon
  <2>8. /\ At(s, 3 * k + 2) \in Byte
        /\ Encoding(s)[3 * k + 2] = EncodeByte(Encoding(s)[3 * k + 1], At(s, 3 * k + 2))
    BY <1>1, <2>2, <2>3, <2>4, NextByte, Zenon
  <2>9. PICK x \in Nat : /\ x % 256 = At(s, 3 * k + 2)
                         /\ Coded(Encoding(s)[3 * k + 2], x, -2, s, 4 * k + 2)
    <3>1. \E x \in Nat :
             /\ x % 256 = At(s, 3 * k + 2)
             /\ Coded(EncodeByte(Encoding(s)[3 * k + 1], At(s, 3 * k + 2)), x, -2, s, 4 * k + 2)
      BY <1>3, <2>7, <2>8, EncodeSecond, Zenon
    <3>2. QED
      BY <2>8, <3>1, Zenon
  <2>10. /\ At(s, 3 * k + 3) \in Byte
         /\ Encoding(s)[3 * k + 3] = EncodeByte(Encoding(s)[3 * k + 2], At(s, 3 * k + 3))
    BY <1>1, <2>2, <2>3, <2>4, NextByte, Zenon
  <2>11. QED
    <3>1. \E y \in Nat :
             /\ y % 256 = At(s, 3 * k + 3)
             /\ Coded(EncodeByte(Encoding(s)[3 * k + 2], At(s, 3 * k + 3)), y, -6, s, 4 * (k + 1))
      BY <1>3, <2>9, <2>10, EncodeThird, Zenon
    <3>2. QED
      BY <2>4, <2>10, <3>1, Zenon
<1>4. q \in T
  BY <1>2, <1>3, Induction
<1>5. QED
  BY <1>1, <1>4

LEMMA EncodeThreesAndOne ==
    ASSUME NEW s \in Bytes, NEW q \in Nat, 3 * q + 1 <= Len(s)
    PROVE  \E v \in Nat : /\ v % 256 = At(s, 3 * q + 1)
                          /\ Coded(Encoding(s)[3 * q + 1], v, -4, s, 4 * q + 1)
<1>1. PICK len \in Nat : len = Len(s)
  BY LenProperties DEF Bytes
<1>2. 3 * q < len /\ 3 * q <= len /\ 3 * q \in Nat
  BY <1>1
<1>3. PICK v \in Nat : Coded(Encoding(s)[3 * q], v, -6, s, 4 * q)
  BY <1>1, <1>2, EncodeThrees, Zenon
<1>4. /\ At(s, 3 * q + 1) \in Byte
      /\ Encoding(s)[3 * q + 1] = EncodeByte(Encoding(s)[3 * q], At(s, 3 * q + 1))
  BY <1>1, <1>2, NextByte, Zenon
<1>5. QED
  <2>1. \E w \in Nat :
           /\ w % 256 = At(s, 3 * q + 1)
           /\ Coded(EncodeByte(Encoding(s)[3 * q], At(s, 3 * q + 1)), w, -4, s, 4 * q + 1)
    BY <1>3, <1>4, EncodeFirst, Zenon
  <2>2. QED
    BY <1>4, <2>1, Zenon

LEMMA EncodeThreesAndTwo ==
    ASSUME NEW s \in Bytes, NEW q \in Nat, 3 * q + 2 <= Len(s)
    PROVE  \E v \in Nat : /\ v % 256 = At(s, 3 * q + 2)
                          /\ Coded(Encoding(s)[3 * q + 2], v, -2, s, 4 * q + 2)
<1>1. PICK len \in Nat : len = Len(s)
  BY LenProperties DEF Bytes
<1>2. 3 * q + 1 < len /\ 3 * q + 1 <= len /\ 3 * q + 1 \in Nat /\ (3 * q + 1) + 1 = 3 * q + 2
  BY <1>1
<1>3. PICK v \in Nat : /\ v % 256 = At(s, 3 * q + 1)
                       /\ Coded(Encoding(s)[3 * q + 1], v, -4, s, 4 * q + 1)
  BY <1>1, <1>2, EncodeThreesAndOne, Zenon
<1>4. /\ At(s, 3 * q + 2) \in Byte
      /\ Encoding(s)[3 * q + 2] = EncodeByte(Encoding(s)[3 * q + 1], At(s, 3 * q + 2))
  BY <1>1, <1>2, NextByte, Zenon
<1>5. QED
  <2>1. \E x \in Nat :
           /\ x % 256 = At(s, 3 * q + 2)
           /\ Coded(EncodeByte(Encoding(s)[3 * q + 1], At(s, 3 * q + 2)), x, -2, s, 4 * q + 2)
    BY <1>3, <1>4, EncodeSecond, Zenon
  <2>2. QED
    BY <1>4, <2>1, Zenon

\* What is left over makes one character more.
LEMMA EncodeEnds ==
    ASSUME NEW s, NEW v, NEW b, NEW k, Coded(Encoding(s)[Len(s)], v, b, s, k)
    PROVE  Encode(s) = Padded(IF b > -6
             THEN Append(Sextets(s, k), (((v * 256) % ValBase) \div 2^(b + 8)) % 64)
             ELSE Sextets(s, k))
<1>1. PICK e : e = Encoding(s)[Len(s)]
  OBVIOUS
<1>2. e.val = v /\ e.valb = b /\ e.out = Sextets(s, k)
  BY <1>1 DEF Coded
<1>3. Encode(s) = Padded(IF e.valb > -6
        THEN Append(e.out, (((e.val * 256) % ValBase) \div 2^(e.valb + 8)) % 64)
        ELSE e.out)
  BY <1>1, Zenon DEF Encode
<1>4. QED
  BY <1>2, <1>3, Zenon

LEMMA EncodeRest ==
    ASSUME NEW v \in Nat
    PROVE  \E w \in Nat, p \in Byte :
              w = (v * 256) % ValBase /\ p = v % 256 /\ EndsInBytes(w, p, 0)
<1>1. 0 \in Byte
  BY DEF Byte
<1>2. PICK w \in Nat, p \in Byte : w = Shift(v, 256, 0) /\ p = v % 256 /\ EndsInBytes(w, p, 0)
  BY <1>1, EncodeValue, Zenon
<1>3. v * 256 + 0 = v * 256
  OBVIOUS
<1>4. Shift(v, 256, 0) = (v * 256) % ValBase
  BY <1>3, Zenon DEF Shift
<1>5. QED
  BY <1>2, <1>4, Zenon

\* One character more.
LEMMA SextetsAppend ==
    ASSUME NEW s \in Bytes, NEW n \in Nat
    PROVE  Append(Sextets(s, n), Sextet(s, n + 1)) = Sextets(s, n + 1)
<1>1. PICK a \in Chars : a = Sextets(s, n)
  BY SextetsType
<1>2. PICK c : c = Sextet(s, n + 1)
  OBVIOUS
<1>3. Append(a, c) = a \o <<c>>
  BY DEF Chars
<1>4. <<c>> = [i \in 1..1 |-> Sextet(s, n + i)]
  <2>1. ASSUME NEW i \in 1..1 PROVE Sextet(s, n + i) = c
    BY <1>2
  <2>2. <<c>> = [i \in 1..1 |-> c]
    OBVIOUS
  <2>3. QED
    BY <2>1, <2>2
<1>5. 1 \in Nat
  OBVIOUS
<1>6. QED
  BY <1>1, <1>2, <1>3, <1>4, <1>5, SextetsGrow, Zenon

\* base64_encode gives the Base64 of every sequence of bytes (helper.cpp:29-49).
THEOREM EncodeIsBase64 ==
    ASSUME NEW s \in Bytes
    PROVE  Encode(s) = Base64Of(s)
<1>1. PICK len \in Nat : len = Len(s)
  BY LenProperties DEF Bytes
<1>2. PICK q : q = len \div 3
  OBVIOUS
<1>3. q \in Nat /\ (len = 3 * q \/ len = 3 * q + 1 \/ len = 3 * q + 2)
  BY <1>1, <1>2
<1>4. Base64Of(s) = Padded(Sextets(s, CharCount(len)))
  BY <1>1, Zenon DEF Base64Of, Sextets
<1>5. CASE len = 3 * q
  <2>1. 3 * q <= Len(s) /\ CharCount(len) = 4 * q
    BY <1>1, <1>3, <1>5 DEF CharCount
  <2>2. PICK v \in Nat : Coded(Encoding(s)[3 * q], v, -6, s, 4 * q)
    BY <1>3, <2>1, EncodeThrees, Zenon
  <2>3. Coded(Encoding(s)[Len(s)], v, -6, s, 4 * q)
    BY <1>1, <1>5, <2>2, Zenon
  <2>4. ~(-6 > -6)
    OBVIOUS
  <2>5. Encode(s) = Padded(Sextets(s, 4 * q))
    BY <2>3, <2>4, EncodeEnds, Zenon
  <2>6. QED
    BY <1>4, <2>1, <2>5, Zenon
<1>6. CASE len = 3 * q + 1
  <2>1. 3 * q + 1 <= Len(s) /\ CharCount(len) = (4 * q + 1) + 1 /\ 4 * q + 1 \in Nat
    BY <1>1, <1>3, <1>6 DEF CharCount
  <2>2. PICK v \in Nat : /\ v % 256 = At(s, 3 * q + 1)
                         /\ Coded(Encoding(s)[3 * q + 1], v, -4, s, 4 * q + 1)
    BY <1>3, <2>1, EncodeThreesAndOne, Zenon
  <2>3. Coded(Encoding(s)[Len(s)], v, -4, s, 4 * q + 1)
    BY <1>1, <1>6, <2>2, Zenon
  <2>4. -4 > -6 /\ -4 + 8 = 4 /\ 2^4 = 16 /\ (4 * q + 1) + 1 = 4 * q + 2 /\ 0 \div 16 = 0
    BY <1>3
  <2>5. Encode(s) = Padded(Append(Sextets(s, 4 * q + 1), (((v * 256) % ValBase) \div 16) % 64))
    <3>1. Encode(s) = Padded(IF -4 > -6
            THEN Append(Sextets(s, 4 * q + 1), (((v * 256) % ValBase) \div 2^(-4 + 8)) % 64)
            ELSE Sextets(s, 4 * q + 1))
      BY <2>3, EncodeEnds, Zenon
    <3>2. QED
      BY <2>4, <3>1, Zenon
  <2>6. PICK w \in Nat, p \in Byte :
             w = (v * 256) % ValBase /\ p = v % 256 /\ EndsInBytes(w, p, 0)
    BY EncodeRest, Zenon
  <2>7. At(s, 3 * q + 2) = 0
    BY <1>1, <1>3, <1>6 DEF At
  <2>8. Quad(s, q, p, 0, At(s, 3 * q + 3))
    <3>1. Quad(s, q, At(s, 3 * q + 1), At(s, 3 * q + 2), At(s, 3 * q + 3))
      BY <1>3, FourSextets, Zenon
    <3>2. QED
      BY <2>2, <2>6, <2>7, <3>1, Zenon
  <2>9. (w \div 16) % 64 = Sextet(s, (4 * q + 1) + 1)
    BY <2>4, <2>6, <2>8, Zenon DEF Quad, EndsInBytes
  <2>10. QED
    BY <1>4, <2>1, <2>5, <2>6, <2>9, SextetsAppend, Zenon
<1>7. CASE len = 3 * q + 2
  <2>1. 3 * q + 2 <= Len(s) /\ CharCount(len) = (4 * q + 2) + 1 /\ 4 * q + 2 \in Nat
    BY <1>1, <1>3, <1>7 DEF CharCount
  <2>2. PICK v \in Nat : /\ v % 256 = At(s, 3 * q + 2)
                         /\ Coded(Encoding(s)[3 * q + 2], v, -2, s, 4 * q + 2)
    BY <1>3, <2>1, EncodeThreesAndTwo, Zenon
  <2>3. Coded(Encoding(s)[Len(s)], v, -2, s, 4 * q + 2)
    BY <1>1, <1>7, <2>2, Zenon
  <2>4. -2 > -6 /\ -2 + 8 = 6 /\ 2^6 = 64 /\ (4 * q + 2) + 1 = 4 * q + 3 /\ 0 \div 64 = 0
    BY <1>3
  <2>5. Encode(s) = Padded(Append(Sextets(s, 4 * q + 2), (((v * 256) % ValBase) \div 64) % 64))
    <3>1. Encode(s) = Padded(IF -2 > -6
            THEN Append(Sextets(s, 4 * q + 2), (((v * 256) % ValBase) \div 2^(-2 + 8)) % 64)
            ELSE Sextets(s, 4 * q + 2))
      BY <2>3, EncodeEnds, Zenon
    <3>2. QED
      BY <2>4, <3>1, Zenon
  <2>6. PICK w \in Nat, p \in Byte :
             w = (v * 256) % ValBase /\ p = v % 256 /\ EndsInBytes(w, p, 0)
    BY EncodeRest, Zenon
  <2>7. At(s, 3 * q + 3) = 0
    BY <1>1, <1>3, <1>7 DEF At
  <2>8. Quad(s, q, At(s, 3 * q + 1), p, 0)
    <3>1. Quad(s, q, At(s, 3 * q + 1), At(s, 3 * q + 2), At(s, 3 * q + 3))
      BY <1>3, FourSextets, Zenon
    <3>2. QED
      BY <2>2, <2>6, <2>7, <3>1, Zenon
  <2>9. (w \div 64) % 64 = Sextet(s, (4 * q + 2) + 1)
    BY <2>4, <2>6, <2>8, Zenon DEF Quad, EndsInBytes
  <2>10. QED
    BY <1>4, <2>1, <2>5, <2>6, <2>9, SextetsAppend, Zenon
<1>8. QED
  BY <1>3, <1>5, <1>6, <1>7

-----------------------------------------------------------------------------
(* base64_decode.                                                          *)

\* The first bytes.
First(s, n) == [i \in 1..n |-> At(s, i)]

\* The accumulator when k bytes have been given.
Decoded(acc, v, b, s, k) == acc = [val |-> v, valb |-> b, out |-> First(s, k)]

LEMMA AtType ==
    ASSUME NEW s \in Bytes, NEW n \in Nat \ {0}
    PROVE  At(s, n) \in Byte
<1>1. PICK len \in Nat : len = Len(s)
  BY LenProperties DEF Bytes
<1>2. CASE n <= len
  <2>1. n \in 1..len
    BY <1>1, <1>2
  <2>2. QED
    BY <1>1, <1>2, <2>1, ElementOfSeq DEF At, Bytes
<1>3. CASE ~(n <= len)
  <2>1. At(s, n) = 0
    BY <1>1, <1>3, Zenon DEF At
  <2>2. QED
    BY <2>1 DEF Byte
<1>4. QED
  BY <1>2, <1>3

LEMMA FirstType ==
    ASSUME NEW s \in Bytes, NEW n \in Nat
    PROVE  First(s, n) \in Bytes /\ Len(First(s, n)) = n
<1>1. ASSUME NEW i \in 1..n PROVE At(s, i) \in Byte
  <2>1. i \in Nat \ {0}
    OBVIOUS
  <2>2. QED
    BY <2>1, AtType
<1>2. First(s, n) \in [1..n -> Byte]
  BY <1>1 DEF First
<1>3. QED
  BY <1>2 DEF Bytes

\* One byte more.
LEMMA FirstAppend ==
    ASSUME NEW s \in Bytes, NEW n \in Nat
    PROVE  Append(First(s, n), At(s, n + 1)) = First(s, n + 1)
<1>1. PICK a \in Bytes : a = First(s, n) /\ Len(a) = n
  BY FirstType
<1>2. PICK c : c = At(s, n + 1)
  OBVIOUS
<1>3. PICK b \in Bytes : b = First(s, n + 1) /\ Len(b) = n + 1
  BY FirstType
<1>4. PICK d : d = Append(a, c)
  OBVIOUS
<1>5. /\ d = [i \in 1..(n + 1) |-> d[i]]
      /\ \A i \in 1..n : d[i] = a[i]
      /\ d[n + 1] = c
  <2>1. c \in Byte
    BY <1>2, AtType
  <2>2. d \in Seq(Byte) /\ Len(d) = n + 1 /\ d[n + 1] = c /\ \A i \in 1..n : d[i] = a[i]
    BY <1>1, <1>4, <2>1, AppendProperties DEF Bytes
  <2>3. QED
    BY <2>2
<1>6. ASSUME NEW i \in 1..(n + 1) PROVE d[i] = At(s, i)
  <2>1. CASE i <= n
    <3>1. i \in 1..n
      BY <2>1
    <3>2. d[i] = a[i] /\ a[i] = At(s, i)
      BY <1>1, <1>5, <3>1 DEF First
    <3>3. QED
      BY <3>2
  <2>2. CASE i = n + 1
    BY <1>2, <1>5, <2>2, Zenon
  <2>3. QED
    BY <2>1, <2>2
<1>7. First(s, n + 1) = [i \in 1..(n + 1) |-> At(s, i)]
  BY Zenon DEF First
<1>8. d = First(s, n + 1)
  BY <1>5, <1>6, <1>7
<1>9. QED
  BY <1>1, <1>2, <1>4, <1>8, Zenon

\* The accumulator after one character more.
LEMMA DecodeValue ==
    ASSUME NEW v \in Nat, NEW c \in Char
    PROVE  \E w \in Nat, p \in Char :
              w = Shift(v, 64, c) /\ p = v % 64 /\ EndsInChars(w, p, c)
<1>1. PICK a \in Nat : Shift(v, 64, c) = 64 * (64 * a + (v % 64)) + c
  BY ShiftSextet
<1>2. PICK p \in Char : p = v % 64
  BY DEF Char
<1>3. PICK w \in Nat : w = Shift(v, 64, c) /\ w = 64 * (64 * a + p) + c
  BY <1>1, <1>2 DEF Char
<1>4. EndsInChars(w, p, c)
  <2>1. EndsInChars(64 * (64 * a + p) + c, p, c)
    BY BitsOfSextets, Zenon
  <2>2. QED
    BY <1>3, <2>1, Zenon
<1>5. QED
  BY <1>2, <1>3, <1>4, Zenon

\* One character more: without and with a byte.
LEMMA DecodeCharSkips ==
    ASSUME NEW s, NEW k, NEW v, NEW b, NEW acc, NEW c, Decoded(acc, v, b, s, k), ~(b + 6 >= 0)
    PROVE  Decoded(DecodeChar(acc, c), Shift(v, 64, c), b + 6, s, k)
<1>1. acc.val = v /\ acc.valb = b /\ acc.out = First(s, k)
  BY DEF Decoded
<1>2. DecodeChar(acc, c)
        = IF acc.valb + 6 >= 0
          THEN [val |-> Shift(acc.val, 64, c), valb |-> (acc.valb + 6) - 8,
                out |-> Append(acc.out, (Shift(acc.val, 64, c) \div 2^(acc.valb + 6)) % 256)]
          ELSE [val |-> Shift(acc.val, 64, c), valb |-> acc.valb + 6, out |-> acc.out]
  BY Zenon DEF DecodeChar, Shift
<1>3. QED
  BY <1>1, <1>2, Zenon DEF Decoded

LEMMA DecodeCharTakes ==
    ASSUME NEW s \in Bytes, NEW k \in Nat, NEW v, NEW b, NEW acc, NEW c,
           Decoded(acc, v, b, s, k), b + 6 >= 0,
           (Shift(v, 64, c) \div 2^(b + 6)) % 256 = At(s, k + 1)
    PROVE  Decoded(DecodeChar(acc, c), Shift(v, 64, c), (b + 6) - 8, s, k + 1)
<1>1. acc.val = v /\ acc.valb = b /\ acc.out = First(s, k)
  BY DEF Decoded
<1>2. DecodeChar(acc, c)
        = IF acc.valb + 6 >= 0
          THEN [val |-> Shift(acc.val, 64, c), valb |-> (acc.valb + 6) - 8,
                out |-> Append(acc.out, (Shift(acc.val, 64, c) \div 2^(acc.valb + 6)) % 256)]
          ELSE [val |-> Shift(acc.val, 64, c), valb |-> acc.valb + 6, out |-> acc.out]
  BY Zenon DEF DecodeChar, Shift
<1>3. DecodeChar(acc, c)
        = [val |-> Shift(v, 64, c), valb |-> (b + 6) - 8, out |-> Append(First(s, k), At(s, k + 1))]
  BY <1>1, <1>2, Zenon
<1>4. QED
  BY <1>3, FirstAppend, Zenon DEF Decoded

\* The bytes in terms of their characters.
LEMMA QuadBack ==
    ASSUME NEW s \in Bytes, NEW q \in Nat
    PROVE  /\ Sextet(s, 4 * q + 1) * 4 + Sextet(s, 4 * q + 2) \div 16 = At(s, 3 * q + 1)
           /\ (Sextet(s, 4 * q + 2) % 16) * 16 + Sextet(s, 4 * q + 3) \div 4 = At(s, 3 * q + 2)
           /\ (Sextet(s, 4 * q + 3) % 4) * 64 + Sextet(s, 4 * q + 4) = At(s, 3 * q + 3)
<1>1. PICK x, y, z : x = At(s, 3 * q + 1) /\ y = At(s, 3 * q + 2) /\ z = At(s, 3 * q + 3)
  OBVIOUS
<1>2. Quad(s, q, x, y, z)
  BY <1>1, FourSextets, Zenon
<1>3. x \in 0..255 /\ y \in 0..255 /\ z \in 0..255
  BY <1>2 DEF Quad, Byte
<1>4. PICK a, b, c, d : /\ a = x \div 4 /\ b = (x % 4) * 16 + y \div 16
                        /\ c = (y % 16) * 4 + z \div 64 /\ d = z % 64
  OBVIOUS
<1>5. a * 4 + b \div 16 = x
  BY <1>3, <1>4
<1>6. (b % 16) * 16 + c \div 4 = y
  BY <1>3, <1>4
<1>7. (c % 4) * 64 + d = z
  BY <1>3, <1>4
<1>8. /\ Sextet(s, 4 * q + 1) = a /\ Sextet(s, 4 * q + 2) = b
      /\ Sextet(s, 4 * q + 3) = c /\ Sextet(s, 4 * q + 4) = d
  BY <1>2, <1>4, Zenon DEF Quad
<1>9. QED
  BY <1>1, <1>5, <1>6, <1>7, <1>8, Zenon

\* The first, second, third and fourth character of four.
LEMMA DecodeFirst ==
    ASSUME NEW s \in Bytes, NEW q \in Nat, NEW v \in Nat,
           NEW acc, Decoded(acc, v, -8, s, 3 * q)
    PROVE  \E w \in Nat : /\ w % 64 = Sextet(s, 4 * q + 1)
                          /\ Decoded(DecodeChar(acc, Sextet(s, 4 * q + 1)), w, -2, s, 3 * q)
<1>1. Sextet(s, 4 * q + 1) \in Char
  <2>1. 4 * q + 1 \in Nat \ {0}
    OBVIOUS
  <2>2. QED
    BY <2>1, SextetType, Zenon DEF Char
<1>2. PICK w \in Nat, p \in Char :
           w = Shift(v, 64, Sextet(s, 4 * q + 1)) /\ p = v % 64
             /\ EndsInChars(w, p, Sextet(s, 4 * q + 1))
  BY <1>1, DecodeValue, Zenon
<1>3. w % 64 = Sextet(s, 4 * q + 1)
  BY <1>2, Zenon DEF EndsInChars
<1>4. ~(-8 + 6 >= 0) /\ -8 + 6 = -2
  OBVIOUS
<1>5. Decoded(DecodeChar(acc, Sextet(s, 4 * q + 1)), Shift(v, 64, Sextet(s, 4 * q + 1)), -8 + 6,
        s, 3 * q)
  BY <1>4, DecodeCharSkips, Zenon
<1>6. QED
  BY <1>2, <1>3, <1>4, <1>5, Zenon

LEMMA DecodeSecond ==
    ASSUME NEW s \in Bytes, NEW q \in Nat, NEW v \in Nat,
           v % 64 = Sextet(s, 4 * q + 1),
           NEW acc, Decoded(acc, v, -2, s, 3 * q)
    PROVE  \E w \in Nat : /\ w % 64 = Sextet(s, 4 * q + 2)
                          /\ Decoded(DecodeChar(acc, Sextet(s, 4 * q + 2)), w, -4, s, 3 * q + 1)
<1>1. Sextet(s, 4 * q + 2) \in Char
  <2>1. 4 * q + 2 \in Nat \ {0}
    OBVIOUS
  <2>2. QED
    BY <2>1, SextetType, Zenon DEF Char
<1>2. PICK w \in Nat, p \in Char :
           w = Shift(v, 64, Sextet(s, 4 * q + 2)) /\ p = v % 64
             /\ EndsInChars(w, p, Sextet(s, 4 * q + 2))
  BY <1>1, DecodeValue, Zenon
<1>3. w % 64 = Sextet(s, 4 * q + 2)
  BY <1>2, Zenon DEF EndsInChars
<1>4. /\ -2 + 6 >= 0 /\ -2 + 6 = 4 /\ 4 - 8 = -4 /\ 3 * q \in Nat
      /\ (3 * q) + 1 = 3 * q + 1 /\ 2^4 = 16
  OBVIOUS
<1>5. (w \div 16) % 256 = At(s, (3 * q) + 1)
  <2>1. (w \div 16) % 256 = p * 4 + Sextet(s, 4 * q + 2) \div 16
    BY <1>2, Zenon DEF EndsInChars
  <2>2. Sextet(s, 4 * q + 1) * 4 + Sextet(s, 4 * q + 2) \div 16 = At(s, 3 * q + 1)
    BY QuadBack, Zenon
  <2>3. p = Sextet(s, 4 * q + 1)
    BY <1>2, Zenon
  <2>4. (3 * q) + 1 = 3 * q + 1
    OBVIOUS
  <2>5. QED
    BY <2>1, <2>2, <2>3, <2>4, Zenon
<1>6. (Shift(v, 64, Sextet(s, 4 * q + 2)) \div 2^(-2 + 6)) % 256 = At(s, (3 * q) + 1)
  BY <1>2, <1>4, <1>5, Zenon
<1>7. Decoded(DecodeChar(acc, Sextet(s, 4 * q + 2)), Shift(v, 64, Sextet(s, 4 * q + 2)),
        (-2 + 6) - 8, s, (3 * q) + 1)
  BY <1>4, <1>6, DecodeCharTakes, Zenon
<1>8. QED
  BY <1>2, <1>3, <1>4, <1>7, Zenon

LEMMA DecodeThird ==
    ASSUME NEW s \in Bytes, NEW q \in Nat, NEW v \in Nat,
           v % 64 = Sextet(s, 4 * q + 2),
           NEW acc, Decoded(acc, v, -4, s, 3 * q + 1)
    PROVE  \E w \in Nat : /\ w % 64 = Sextet(s, 4 * q + 3)
                          /\ Decoded(DecodeChar(acc, Sextet(s, 4 * q + 3)), w, -6, s, 3 * q + 2)
<1>1. Sextet(s, 4 * q + 3) \in Char
  <2>1. 4 * q + 3 \in Nat \ {0}
    OBVIOUS
  <2>2. QED
    BY <2>1, SextetType, Zenon DEF Char
<1>2. PICK w \in Nat, p \in Char :
           w = Shift(v, 64, Sextet(s, 4 * q + 3)) /\ p = v % 64
             /\ EndsInChars(w, p, Sextet(s, 4 * q + 3))
  BY <1>1, DecodeValue, Zenon
<1>3. w % 64 = Sextet(s, 4 * q + 3)
  BY <1>2, Zenon DEF EndsInChars
<1>4. /\ -4 + 6 >= 0 /\ -4 + 6 = 2 /\ 2 - 8 = -6 /\ 3 * q + 1 \in Nat
      /\ (3 * q + 1) + 1 = 3 * q + 2 /\ 2^2 = 4
  OBVIOUS
<1>5. (w \div 4) % 256 = At(s, (3 * q + 1) + 1)
  <2>1. (w \div 4) % 256 = (p % 16) * 16 + Sextet(s, 4 * q + 3) \div 4
    BY <1>2, Zenon DEF EndsInChars
  <2>2. (Sextet(s, 4 * q + 2) % 16) * 16 + Sextet(s, 4 * q + 3) \div 4 = At(s, 3 * q + 2)
    BY QuadBack, Zenon
  <2>3. p = Sextet(s, 4 * q + 2)
    BY <1>2, Zenon
  <2>4. (3 * q + 1) + 1 = 3 * q + 2
    OBVIOUS
  <2>5. QED
    BY <2>1, <2>2, <2>3, <2>4, Zenon
<1>6. (Shift(v, 64, Sextet(s, 4 * q + 3)) \div 2^(-4 + 6)) % 256 = At(s, (3 * q + 1) + 1)
  BY <1>2, <1>4, <1>5, Zenon
<1>7. Decoded(DecodeChar(acc, Sextet(s, 4 * q + 3)), Shift(v, 64, Sextet(s, 4 * q + 3)),
        (-4 + 6) - 8, s, (3 * q + 1) + 1)
  BY <1>4, <1>6, DecodeCharTakes, Zenon
<1>8. QED
  BY <1>2, <1>3, <1>4, <1>7, Zenon

LEMMA DecodeFourth ==
    ASSUME NEW s \in Bytes, NEW q \in Nat, NEW v \in Nat,
           v % 64 = Sextet(s, 4 * q + 3),
           NEW acc, Decoded(acc, v, -6, s, 3 * q + 2)
    PROVE  \E w \in Nat : /\ w % 64 = Sextet(s, 4 * q + 4)
                          /\ Decoded(DecodeChar(acc, Sextet(s, 4 * q + 4)), w, -8, s, 3 * (q + 1))
<1>1. Sextet(s, 4 * q + 4) \in Char
  <2>1. 4 * q + 4 \in Nat \ {0}
    OBVIOUS
  <2>2. QED
    BY <2>1, SextetType, Zenon DEF Char
<1>2. PICK w \in Nat, p \in Char :
           w = Shift(v, 64, Sextet(s, 4 * q + 4)) /\ p = v % 64
             /\ EndsInChars(w, p, Sextet(s, 4 * q + 4))
  BY <1>1, DecodeValue, Zenon
<1>3. w % 64 = Sextet(s, 4 * q + 4)
  BY <1>2, Zenon DEF EndsInChars
<1>4. /\ -6 + 6 >= 0 /\ -6 + 6 = 0 /\ 0 - 8 = -8 /\ 3 * q + 2 \in Nat
      /\ (3 * q + 2) + 1 = 3 * (q + 1) /\ 2^0 = 1 /\ w \div 1 = w
  OBVIOUS
<1>5. (w \div 1) % 256 = At(s, (3 * q + 2) + 1)
  <2>1. (w \div 1) % 256 = (p % 4) * 64 + Sextet(s, 4 * q + 4)
    BY <1>2, <1>4, Zenon DEF EndsInChars
  <2>2. (Sextet(s, 4 * q + 3) % 4) * 64 + Sextet(s, 4 * q + 4) = At(s, 3 * q + 3)
    BY QuadBack, Zenon
  <2>3. p = Sextet(s, 4 * q + 3)
    BY <1>2, Zenon
  <2>4. (3 * q + 2) + 1 = 3 * q + 3
    OBVIOUS
  <2>5. QED
    BY <2>1, <2>2, <2>3, <2>4, Zenon
<1>6. (Shift(v, 64, Sextet(s, 4 * q + 4)) \div 2^(-6 + 6)) % 256 = At(s, (3 * q + 2) + 1)
  BY <1>2, <1>4, <1>5, Zenon
<1>7. Decoded(DecodeChar(acc, Sextet(s, 4 * q + 4)), Shift(v, 64, Sextet(s, 4 * q + 4)),
        (-6 + 6) - 8, s, (3 * q + 2) + 1)
  BY <1>4, <1>6, DecodeCharTakes, Zenon
<1>8. QED
  BY <1>2, <1>3, <1>4, <1>7, Zenon

\* A text that begins with m characters of the reference.
Carries(text, s, m) ==
    /\ text \in Seq(0..Foreign) /\ Len(text) \in Nat /\ m <= Len(text)
    /\ \A i \in 1..m : text[i] = Sextet(s, i)

\* The n-th step takes the n-th character.
LEMMA NextChar ==
    ASSUME NEW s, NEW text, NEW m \in Nat, Carries(text, s, m), NEW n \in Nat, n < m
    PROVE  Decoding(text)[n + 1] = DecodeChar(Decoding(text)[n], Sextet(s, n + 1))
<1>1. PICK len \in Nat : len = Len(text) /\ m <= len
  BY DEF Carries
<1>2. PICK k : k = n + 1
  OBVIOUS
<1>3. k \in 1..len /\ k \in 1..m /\ k - 1 = n
  BY <1>1, <1>2
<1>4. text[k] = Sextet(s, k)
  BY <1>3 DEF Carries
<1>5. Decoding(text)[k] = DecodeChar(Decoding(text)[k - 1], text[k])
  BY <1>1, <1>3, DecodingSteps, Zenon
<1>6. QED
  BY <1>2, <1>3, <1>4, <1>5, Zenon

\* The loop over the characters, four at a time and for what is left.
LEMMA DecodeFours ==
    ASSUME NEW s \in Bytes, NEW text, NEW m \in Nat, Carries(text, s, m),
           NEW q \in Nat, 4 * q <= m
    PROVE  \E v \in Nat : Decoded(Decoding(text)[4 * q], v, -8, s, 3 * q)
<1> DEFINE T == {k \in Nat : 4 * k <= m => \E v \in Nat :
                  Decoded(Decoding(text)[4 * k], v, -8, s, 3 * k)}
<1>1. 0 \in T
  <2>1. Decoding(text)[0] = [val |-> 0, valb |-> -8, out |-> <<>>]
    BY DecodingSteps, Zenon DEF Carries
  <2>2. First(s, 0) = <<>>
    BY DEF First
  <2>3. Decoded(Decoding(text)[0], 0, -8, s, 0)
    BY <2>1, <2>2, Zenon DEF Decoded
  <2>4. 3 * 0 = 0 /\ 4 * 0 = 0 /\ 0 \in Nat
    OBVIOUS
  <2>5. QED
    BY <2>3, <2>4, Zenon
<1>2. ASSUME NEW k \in T, k \in Nat PROVE k + 1 \in T
  <2>1. SUFFICES ASSUME 4 * (k + 1) <= m
                 PROVE  \E v \in Nat : Decoded(Decoding(text)[4 * (k + 1)], v, -8, s, 3 * (k + 1))
    BY <1>2
  <2>2. /\ 4 * k <= m /\ 4 * k \in Nat /\ 4 * k + 1 \in Nat /\ 4 * k + 2 \in Nat
        /\ 4 * k + 3 \in Nat
    BY <1>2, <2>1
  <2>3. 4 * k < m /\ 4 * k + 1 < m /\ 4 * k + 2 < m /\ 4 * k + 3 < m
    BY <1>2, <2>1
  <2>4. /\ (4 * k + 1) + 1 = 4 * k + 2 /\ (4 * k + 2) + 1 = 4 * k + 3
        /\ (4 * k + 3) + 1 = 4 * k + 4 /\ 4 * k + 4 = 4 * (k + 1)
    BY <1>2
  <2>5. PICK v \in Nat : Decoded(Decoding(text)[4 * k], v, -8, s, 3 * k)
    BY <1>2, <2>2, Zenon
  <2>6. PICK w \in Nat : /\ w % 64 = Sextet(s, 4 * k + 1)
                         /\ Decoded(Decoding(text)[4 * k + 1], w, -2, s, 3 * k)
    <3>1. \E w \in Nat : /\ w % 64 = Sextet(s, 4 * k + 1)
                         /\ Decoded(DecodeChar(Decoding(text)[4 * k], Sextet(s, 4 * k + 1)), w,
                              -2, s, 3 * k)
      BY <1>2, <2>5, DecodeFirst, Zenon
    <3>2. Decoding(text)[4 * k + 1] = DecodeChar(Decoding(text)[4 * k], Sextet(s, 4 * k + 1))
      BY <2>2, <2>3, NextChar, Zenon
    <3>3. QED
      BY <3>1, <3>2, Zenon
  <2>7. PICK x \in Nat : /\ x % 64 = Sextet(s, 4 * k + 2)
                         /\ Decoded(Decoding(text)[4 * k + 2], x, -4, s, 3 * k + 1)
    <3>1. \E x \in Nat : /\ x % 64 = Sextet(s, 4 * k + 2)
                         /\ Decoded(DecodeChar(Decoding(text)[4 * k + 1], Sextet(s, 4 * k + 2)),
                                    x, -4, s, 3 * k + 1)
      BY <1>2, <2>6, DecodeSecond, Zenon
    <3>2. Decoding(text)[(4 * k + 1) + 1]
            = DecodeChar(Decoding(text)[4 * k + 1], Sextet(s, (4 * k + 1) + 1))
      BY <2>2, <2>3, NextChar, Zenon
    <3>3. QED
      BY <2>4, <3>1, <3>2, Zenon
  <2>8. PICK y \in Nat : /\ y % 64 = Sextet(s, 4 * k + 3)
                         /\ Decoded(Decoding(text)[4 * k + 3], y, -6, s, 3 * k + 2)
    <3>1. \E y \in Nat : /\ y % 64 = Sextet(s, 4 * k + 3)
                         /\ Decoded(DecodeChar(Decoding(text)[4 * k + 2], Sextet(s, 4 * k + 3)),
                                    y, -6, s, 3 * k + 2)
      BY <1>2, <2>7, DecodeThird, Zenon
    <3>2. Decoding(text)[(4 * k + 2) + 1]
            = DecodeChar(Decoding(text)[4 * k + 2], Sextet(s, (4 * k + 2) + 1))
      BY <2>2, <2>3, NextChar, Zenon
    <3>3. QED
      BY <2>4, <3>1, <3>2, Zenon
  <2>9. \E z \in Nat : /\ z % 64 = Sextet(s, 4 * k + 4)
                       /\ Decoded(DecodeChar(Decoding(text)[4 * k + 3], Sextet(s, 4 * k + 4)),
                                  z, -8, s, 3 * (k + 1))
    BY <1>2, <2>8, DecodeFourth, Zenon
  <2>10. Decoding(text)[(4 * k + 3) + 1]
           = DecodeChar(Decoding(text)[4 * k + 3], Sextet(s, (4 * k + 3) + 1))
    BY <2>2, <2>3, NextChar, Zenon
  <2>11. QED
    BY <2>4, <2>9, <2>10, Zenon
<1>3. q \in T
  BY <1>1, <1>2, Induction
<1>4. QED
  BY <1>3

LEMMA DecodeFoursAndOne ==
    ASSUME NEW s \in Bytes, NEW text, NEW m \in Nat, Carries(text, s, m),
           NEW q \in Nat, 4 * q + 1 <= m
    PROVE  \E v \in Nat : /\ v % 64 = Sextet(s, 4 * q + 1)
                          /\ Decoded(Decoding(text)[4 * q + 1], v, -2, s, 3 * q)
<1>1. 4 * q \in Nat /\ 4 * q < m /\ 4 * q <= m
  OBVIOUS
<1>2. PICK v \in Nat : Decoded(Decoding(text)[4 * q], v, -8, s, 3 * q)
  BY <1>1, DecodeFours, Zenon
<1>3. \E w \in Nat : /\ w % 64 = Sextet(s, 4 * q + 1)
                     /\ Decoded(DecodeChar(Decoding(text)[4 * q], Sextet(s, 4 * q + 1)), w, -2,
                          s, 3 * q)
  BY <1>2, DecodeFirst, Zenon
<1>4. Decoding(text)[4 * q + 1] = DecodeChar(Decoding(text)[4 * q], Sextet(s, 4 * q + 1))
  BY <1>1, NextChar, Zenon
<1>5. QED
  BY <1>3, <1>4, Zenon

LEMMA DecodeFoursAndTwo ==
    ASSUME NEW s \in Bytes, NEW text, NEW m \in Nat, Carries(text, s, m),
           NEW q \in Nat, 4 * q + 2 <= m
    PROVE  \E v \in Nat : /\ v % 64 = Sextet(s, 4 * q + 2)
                          /\ Decoded(Decoding(text)[4 * q + 2], v, -4, s, 3 * q + 1)
<1>1. 4 * q + 1 \in Nat /\ 4 * q + 1 < m /\ 4 * q + 1 <= m /\ (4 * q + 1) + 1 = 4 * q + 2
  OBVIOUS
<1>2. PICK v \in Nat : /\ v % 64 = Sextet(s, 4 * q + 1)
                       /\ Decoded(Decoding(text)[4 * q + 1], v, -2, s, 3 * q)
  BY <1>1, DecodeFoursAndOne, Zenon
<1>3. \E w \in Nat : /\ w % 64 = Sextet(s, 4 * q + 2)
                     /\ Decoded(DecodeChar(Decoding(text)[4 * q + 1], Sextet(s, 4 * q + 2)),
                                w, -4, s, 3 * q + 1)
  BY <1>2, DecodeSecond, Zenon
<1>4. Decoding(text)[4 * q + 2] = DecodeChar(Decoding(text)[4 * q + 1], Sextet(s, 4 * q + 2))
  BY <1>1, NextChar, Zenon
<1>5. QED
  BY <1>3, <1>4, Zenon

LEMMA DecodeFoursAndThree ==
    ASSUME NEW s \in Bytes, NEW text, NEW m \in Nat, Carries(text, s, m),
           NEW q \in Nat, 4 * q + 3 <= m
    PROVE  \E v \in Nat : /\ v % 64 = Sextet(s, 4 * q + 3)
                          /\ Decoded(Decoding(text)[4 * q + 3], v, -6, s, 3 * q + 2)
<1>1. 4 * q + 2 \in Nat /\ 4 * q + 2 < m /\ 4 * q + 2 <= m /\ (4 * q + 2) + 1 = 4 * q + 3
  OBVIOUS
<1>2. PICK v \in Nat : /\ v % 64 = Sextet(s, 4 * q + 2)
                       /\ Decoded(Decoding(text)[4 * q + 2], v, -4, s, 3 * q + 1)
  BY <1>1, DecodeFoursAndTwo, Zenon
<1>3. \E w \in Nat : /\ w % 64 = Sextet(s, 4 * q + 3)
                     /\ Decoded(DecodeChar(Decoding(text)[4 * q + 2], Sextet(s, 4 * q + 3)),
                                w, -6, s, 3 * q + 2)
  BY <1>2, DecodeThird, Zenon
<1>4. Decoding(text)[4 * q + 3] = DecodeChar(Decoding(text)[4 * q + 2], Sextet(s, 4 * q + 3))
  BY <1>1, NextChar, Zenon
<1>5. QED
  BY <1>3, <1>4, Zenon

\* What is out is every byte whose last bit has come in.
LEMMA DecodingOut ==
    ASSUME NEW s \in Bytes, NEW text, NEW m \in Nat, Carries(text, s, m)
    PROVE  Decoding(text)[m].out = First(s, (6 * m) \div 8)
<1>1. PICK q : q = m \div 4
  OBVIOUS
<1>2. q \in Nat /\ (m = 4 * q \/ m = 4 * q + 1 \/ m = 4 * q + 2 \/ m = 4 * q + 3)
  BY <1>1
<1>3. ASSUME NEW v, NEW b, NEW k, Decoded(Decoding(text)[m], v, b, s, k)
      PROVE  Decoding(text)[m].out = First(s, k)
  BY <1>3 DEF Decoded
<1>4. CASE m = 4 * q
  <2>1. 4 * q <= m /\ (6 * m) \div 8 = 3 * q
    BY <1>2, <1>4
  <2>2. QED
    BY <1>2, <1>3, <1>4, <2>1, DecodeFours, Zenon
<1>5. CASE m = 4 * q + 1
  <2>1. 4 * q + 1 <= m /\ (6 * m) \div 8 = 3 * q
    BY <1>2, <1>5
  <2>2. QED
    BY <1>2, <1>3, <1>5, <2>1, DecodeFoursAndOne, Zenon
<1>6. CASE m = 4 * q + 2
  <2>1. 4 * q + 2 <= m /\ (6 * m) \div 8 = 3 * q + 1
    BY <1>2, <1>6
  <2>2. QED
    BY <1>2, <1>3, <1>6, <2>1, DecodeFoursAndTwo, Zenon
<1>7. CASE m = 4 * q + 3
  <2>1. 4 * q + 3 <= m /\ (6 * m) \div 8 = 3 * q + 2
    BY <1>2, <1>7
  <2>2. QED
    BY <1>2, <1>3, <1>7, <2>1, DecodeFoursAndThree, Zenon
<1>8. QED
  BY <1>2, <1>4, <1>5, <1>6, <1>7

\* The loop ends where the characters of the reference do.
LEMMA LoopEnds ==
    ASSUME NEW s \in Bytes, NEW text, NEW m \in Nat, Carries(text, s, m),
           m = Len(text) \/ text[m + 1] >= Pad
    PROVE  LoopEnd(text) = m
<1>1. PICK len \in Nat : len = Len(text) /\ m <= len
  BY DEF Carries
<1>2. ASSUME NEW i \in 1..m PROVE text[i] \in 0..63
  <2>1. i \in Nat \ {0}
    OBVIOUS
  <2>2. text[i] = Sextet(s, i)
    BY DEF Carries
  <2>3. QED
    BY <2>1, <2>2, SextetType
<1>3. ASSUME NEW i \in 1..m PROVE text[i] < 64 /\ ~(text[i] >= 64)
  <2>1. PICK c \in 0..63 : c = text[i]
    BY <1>2
  <2>2. c < 64 /\ ~(c >= 64)
    OBVIOUS
  <2>3. QED
    BY <2>1, <2>2, Zenon
<1>4. m = len \/ text[m + 1] >= 64
  BY <1>1 DEF Pad
<1> DEFINE Ends(n) == (\A i \in 1..n : text[i] < Pad) /\ (n = len \/ text[n + 1] >= Pad)
<1>5. Ends(m) /\ m \in 0..len
  <2>1. m \in 0..len
    BY <1>1
  <2>2. QED
    BY <1>3, <1>4, <2>1, Zenon DEF Pad
<1>6. ASSUME NEW n \in 0..len, Ends(n) PROVE n = m
  <2>1. ASSUME n < m PROVE FALSE
    <3>1. n + 1 \in 1..m /\ n # len
      BY <1>1, <2>1
    <3>2. QED
      BY <1>3, <1>6, <3>1, Zenon DEF Pad
  <2>2. ASSUME n > m PROVE FALSE
    <3>1. m + 1 \in 1..n /\ m # len
      BY <1>1, <2>2
    <3>2. text[m + 1] < 64 /\ text[m + 1] >= 64
      BY <1>4, <1>6, <3>1, Zenon DEF Pad
    <3>3. PICK c \in 0..65 : c = text[m + 1]
      <4>1. m + 1 \in 1..len /\ text \in Seq(0..65)
        BY <1>1, <3>1 DEF Carries, Foreign
      <4>2. QED
        BY <1>1, <4>1, ElementOfSeq
    <3>4. c < 64 /\ c >= 64
      BY <3>2, <3>3, Zenon
    <3>5. QED
      BY <3>4
  <2>3. QED
    BY <2>1, <2>2
<1>7. LoopEnd(text) = CHOOSE n \in 0..len : Ends(n)
  BY <1>1, Zenon DEF LoopEnd
<1>8. QED
  BY <1>5, <1>6, <1>7

\* base64_decode of a text that begins like the Base64 of some bytes and then
\* ends, or goes on with padding or a foreign character, gives the bytes that
\* were complete by then (helper.cpp:52-73).
THEOREM DecodeIsPrefix ==
    ASSUME NEW s \in Bytes, NEW text, NEW m \in Nat, Carries(text, s, m),
           m <= CharCount(Len(s)), m = Len(text) \/ text[m + 1] >= Pad
    PROVE  Decode(text) = SubSeq(s, 1, (6 * m) \div 8)
<1>1. PICK len \in Nat : len = Len(s)
  BY LenProperties DEF Bytes
<1>2. PICK k : k = (6 * m) \div 8
  OBVIOUS
<1>3. k \in Nat /\ k <= len
  BY <1>1, <1>2 DEF CharCount
<1>4. Decode(text) = First(s, k)
  BY <1>2, DecodingOut, LoopEnds, Zenon DEF Decode
<1>5. First(s, k) = SubSeq(s, 1, k)
  <2>1. ASSUME NEW i \in 1..k PROVE At(s, i) = s[i]
    BY <1>1, <1>3 DEF At
  <2>2. First(s, k) = [i \in 1..k |-> s[i]]
    BY <2>1 DEF First
  <2>3. SubSeq(s, 1, k) = [i \in 1..k |-> s[i]]
    <3>1. SubSeq(s, 1, k) = [i \in 1..(1 + k - 1) |-> s[i + 1 - 1]]
      BY <1>1, <1>3 DEF Bytes
    <3>2. 1 + k - 1 = k /\ \A i \in 1..k : i + 1 - 1 = i
      BY <1>3
    <3>3. QED
      BY <3>1, <3>2
  <2>4. QED
    BY <2>2, <2>3
<1>6. QED
  BY <1>2, <1>4, <1>5

\* The Base64 of a sequence of bytes: its characters and its padding.
IsBase64(t, s, n) ==
    /\ n \in Nat /\ Len(t) \in Nat /\ n <= Len(t) /\ t \in Seq(0..Foreign)
    /\ \A i \in 1..n : t[i] = Sextet(s, i)
    /\ \A i \in (n + 1)..Len(t) : t[i] = Pad

LEMMA Base64Text ==
    ASSUME NEW s \in Bytes
    PROVE  IsBase64(Base64Of(s), s, CharCount(Len(s)))
<1>1. PICK n, t : n = CharCount(Len(s)) /\ t = Base64Of(s)
  OBVIOUS
<1>2. PICK len \in Nat : len = Len(s)
  BY LenProperties DEF Bytes
<1>3. n \in Nat
  BY <1>1, <1>2 DEF CharCount
<1>4. PICK a \in Chars : a = Sextets(s, n) /\ Len(a) = n
  BY <1>3, SextetsType
<1>5. PICK d : d = (-n) % 4
  OBVIOUS
<1>6. d \in Nat
  BY <1>3, <1>5
<1>7. PICK b : b = [i \in 1..d |-> Pad]
  OBVIOUS
<1>8. t = a \o b
  <2>1. t = Padded(a)
    BY <1>1, <1>4, Zenon DEF Base64Of, Sextets
  <2>2. QED
    BY <1>4, <1>5, <1>7, <2>1, Zenon DEF Padded
<1>9. a \in Seq(0..65) /\ b \in Seq(0..65) /\ Len(b) = d
  BY <1>4, <1>6, <1>7 DEF Chars, Char, Pad
<1>10. /\ t \in Seq(0..65) /\ Len(t) = n + d
      /\ \A i \in 1..(n + d) : t[i] = IF i <= n THEN a[i] ELSE b[i - n]
  <2>1. /\ a \o b \in Seq(0..65) /\ Len(a \o b) = Len(a) + Len(b)
        /\ \A i \in 1..(Len(a) + Len(b)) :
              (a \o b)[i] = IF i <= Len(a) THEN a[i] ELSE b[i - Len(a)]
    BY <1>9, ConcatProperties, Zenon
  <2>2. QED
    BY <1>4, <1>8, <1>9, <2>1, Zenon
<1>11. ASSUME NEW i \in 1..n PROVE t[i] = Sextet(s, i)
  <2>1. i \in 1..(n + d) /\ i <= n
    BY <1>3, <1>6
  <2>2. t[i] = a[i]
    BY <1>10, <2>1, Zenon
  <2>3. QED
    BY <1>4, <2>2 DEF Sextets
<1>12. ASSUME NEW i \in (n + 1)..Len(t) PROVE t[i] = Pad
  <2>1. i \in 1..(n + d) /\ ~(i <= n) /\ i - n \in 1..d
    BY <1>3, <1>6, <1>10
  <2>2. t[i] = b[i - n]
    BY <1>10, <2>1, Zenon
  <2>3. QED
    BY <1>7, <2>1, <2>2
<1>13. n <= Len(t) /\ Len(t) \in Nat
  BY <1>3, <1>6, <1>10
<1>14. IsBase64(t, s, n)
  BY <1>3, <1>10, <1>11, <1>12, <1>13, Zenon DEF IsBase64, Foreign
<1>15. QED
  BY <1>1, <1>14, Zenon

\* The whole text decodes to the bytes.
THEOREM DecodeIsInverse ==
    ASSUME NEW s \in Bytes
    PROVE  Decode(Base64Of(s)) = s
<1>1. PICK len \in Nat : len = Len(s)
  BY LenProperties DEF Bytes
<1>2. PICK n : n = CharCount(len)
  OBVIOUS
<1>3. n \in Nat /\ (6 * n) \div 8 = len
  BY <1>1, <1>2 DEF CharCount
<1>4. PICK t : t = Base64Of(s)
  OBVIOUS
<1>5. IsBase64(t, s, n)
  BY <1>1, <1>2, <1>4, Base64Text, Zenon
<1>6. Carries(t, s, n)
  BY <1>5, Zenon DEF Carries, IsBase64
<1>7. n = Len(t) \/ t[n + 1] >= Pad
  BY <1>5 DEF Pad, IsBase64
<1>8. n <= CharCount(Len(s))
  BY <1>1, <1>2, <1>3
<1>9. Decode(t) = SubSeq(s, 1, len)
  BY <1>3, <1>6, <1>7, <1>8, DecodeIsPrefix, Zenon
<1>10. SubSeq(s, 1, len) = s
  BY <1>1 DEF Bytes
<1>11. QED
  BY <1>4, <1>9, <1>10, Zenon
=============================================================================
