--------------------------- MODULE SessionProofs ---------------------------
(***************************************************************************)
(* Proofs about module Session.                                            *)
(***************************************************************************)
EXTENDS Session, CodecProofs

-----------------------------------------------------------------------------
(* The exclusive or of bytes.                                              *)

BitOf(x, weight) == (x \div weight) % 2

BitWeights == {1, 2, 4, 8, 16, 32, 64, 128}

\* The byte with the given bits.
ByteOf(a, b, c, d, e, f, g, h) ==
    a + 2 * b + 4 * c + 8 * d + 16 * e + 32 * f + 64 * g + 128 * h

HasBits(x, a, b, c, d, e, f, g, h) ==
    /\ x \in Byte
    /\ BitOf(x, 1) = a /\ BitOf(x, 2) = b /\ BitOf(x, 4) = c /\ BitOf(x, 8) = d
    /\ BitOf(x, 16) = e /\ BitOf(x, 32) = f /\ BitOf(x, 64) = g /\ BitOf(x, 128) = h

\* Such a byte is one, and has these bits.
LEMMA BitsOfByte ==
    ASSUME NEW a \in 0..1, NEW b \in 0..1, NEW c \in 0..1, NEW d \in 0..1,
           NEW e \in 0..1, NEW f \in 0..1, NEW g \in 0..1, NEW h \in 0..1
    PROVE  HasBits(ByteOf(a, b, c, d, e, f, g, h), a, b, c, d, e, f, g, h)
<1>1. PICK x \in Nat : x = ByteOf(a, b, c, d, e, f, g, h)
  BY DEF ByteOf
<1>2. x \in Byte
  BY <1>1 DEF ByteOf, Byte
<1>3. PICK y \in Nat : y = e + 2 * f + 4 * g + 8 * h
  OBVIOUS
<1>4. PICK z \in Nat : z = a + 2 * b + 4 * c + 8 * d
  OBVIOUS
<1>5. x = z + 16 * y /\ y < 16 /\ z < 16
  BY <1>1, <1>3, <1>4 DEF ByteOf
<1>6. BitOf(x, 1) = a /\ BitOf(x, 2) = b /\ BitOf(x, 4) = c /\ BitOf(x, 8) = d
  BY <1>4, <1>5, SMTT(60) DEF BitOf
<1>7. BitOf(x, 16) = e /\ BitOf(x, 32) = f /\ BitOf(x, 64) = g /\ BitOf(x, 128) = h
  BY <1>3, <1>5, SMTT(60) DEF BitOf
<1>8. HasBits(x, a, b, c, d, e, f, g, h)
  BY <1>2, <1>6, <1>7, Zenon DEF HasBits
<1>9. QED
  BY <1>1, <1>8, Zenon

\* Every byte has eight.
LEMMA ByteHasBits ==
    ASSUME NEW x \in Byte
    PROVE  /\ \A w \in BitWeights : BitOf(x, w) \in 0..1
           /\ x = ByteOf(BitOf(x, 1), BitOf(x, 2), BitOf(x, 4), BitOf(x, 8),
                         BitOf(x, 16), BitOf(x, 32), BitOf(x, 64), BitOf(x, 128))
<1>1. \A w \in BitWeights : BitOf(x, w) \in 0..1
  BY DEF BitWeights, BitOf, Byte
<1>2. x = ByteOf(BitOf(x, 1), BitOf(x, 2), BitOf(x, 4), BitOf(x, 8),
                 BitOf(x, 16), BitOf(x, 32), BitOf(x, 64), BitOf(x, 128))
  BY SMTT(60) DEF ByteOf, BitOf, Byte
<1>3. QED
  BY <1>1, <1>2

\* Two bytes with the same bits are the same.
LEMMA SameBits ==
    ASSUME NEW x \in Byte, NEW y \in Byte,
           \A w \in BitWeights : BitOf(x, w) = BitOf(y, w)
    PROVE  x = y
<1>1. /\ BitOf(x, 1) = BitOf(y, 1) /\ BitOf(x, 2) = BitOf(y, 2)
      /\ BitOf(x, 4) = BitOf(y, 4) /\ BitOf(x, 8) = BitOf(y, 8)
      /\ BitOf(x, 16) = BitOf(y, 16) /\ BitOf(x, 32) = BitOf(y, 32)
      /\ BitOf(x, 64) = BitOf(y, 64) /\ BitOf(x, 128) = BitOf(y, 128)
  BY DEF BitWeights
<1>2. x = ByteOf(BitOf(y, 1), BitOf(y, 2), BitOf(y, 4), BitOf(y, 8),
                 BitOf(y, 16), BitOf(y, 32), BitOf(y, 64), BitOf(y, 128))
  BY <1>1, ByteHasBits, Zenon
<1>3. QED
  BY <1>2, ByteHasBits, Zenon

\* The bits of an exclusive or.
LEMMA XorBits ==
    ASSUME NEW x \in Byte, NEW y \in Byte
    PROVE  /\ Xor(x, y) \in Byte
           /\ \A w \in BitWeights : BitOf(Xor(x, y), w) = (BitOf(x, w) + BitOf(y, w)) % 2
<1> DEFINE sum(w) == (x \div w + y \div w) % 2
<1>1. \A w \in BitWeights : sum(w) \in 0..1 /\ sum(w) = (BitOf(x, w) + BitOf(y, w)) % 2
  BY DEF BitWeights, BitOf, Byte
<1>2. Xor(x, y) = ByteOf(sum(1), sum(2), sum(4), sum(8), sum(16), sum(32), sum(64), sum(128))
  <2>1. \A w \in BitWeights : sum(w) \in Int
    BY <1>1
  <2> HIDE DEF sum
  <2>2. Xor(x, y) = 1 * sum(1) + 2 * sum(2) + 4 * sum(4) + 8 * sum(8) + 16 * sum(16)
                      + 32 * sum(32) + 64 * sum(64) + 128 * sum(128)
    BY Zenon DEF Xor, sum
  <2>3. QED
    BY <2>1, <2>2 DEF ByteOf, BitWeights
<1> HIDE DEF sum
<1>3. PICK a \in 0..1, b \in 0..1, c \in 0..1, d \in 0..1,
           e \in 0..1, f \in 0..1, g \in 0..1, h \in 0..1 :
         /\ a = sum(1) /\ b = sum(2) /\ c = sum(4) /\ d = sum(8)
         /\ e = sum(16) /\ f = sum(32) /\ g = sum(64) /\ h = sum(128)
  BY <1>1 DEF BitWeights
<1>4. /\ Xor(x, y) \in Byte
      /\ BitOf(Xor(x, y), 1) = sum(1) /\ BitOf(Xor(x, y), 2) = sum(2)
      /\ BitOf(Xor(x, y), 4) = sum(4) /\ BitOf(Xor(x, y), 8) = sum(8)
      /\ BitOf(Xor(x, y), 16) = sum(16) /\ BitOf(Xor(x, y), 32) = sum(32)
      /\ BitOf(Xor(x, y), 64) = sum(64) /\ BitOf(Xor(x, y), 128) = sum(128)
  <2>1. HasBits(ByteOf(a, b, c, d, e, f, g, h), a, b, c, d, e, f, g, h)
    BY BitsOfByte
  <2>2. Xor(x, y) = ByteOf(a, b, c, d, e, f, g, h)
    BY <1>2, <1>3, Zenon
  <2>3. HasBits(Xor(x, y), a, b, c, d, e, f, g, h)
    BY <2>1, <2>2, Zenon
  <2>4. QED
    BY <1>3, <2>3, SMT DEF HasBits
<1>5. \A w \in BitWeights : BitOf(Xor(x, y), w) = sum(w)
  BY <1>4, Zenon DEF BitWeights
<1>6. QED
  BY <1>1, <1>4, <1>5, Zenon

\* A byte comes back if, and only if, the same key is applied twice.
LEMMA XorTwice ==
    ASSUME NEW x \in Byte, NEW k \in Byte, NEW l \in Byte
    PROVE  Xor(Xor(x, k), l) = x <=> k = l
<1>1. PICK y \in Byte :
         /\ y = Xor(x, k)
         /\ \A w \in BitWeights : BitOf(y, w) = (BitOf(x, w) + BitOf(k, w)) % 2
  BY XorBits
<1>2. PICK z \in Byte :
         /\ z = Xor(y, l)
         /\ \A w \in BitWeights : BitOf(z, w) = (BitOf(y, w) + BitOf(l, w)) % 2
  BY XorBits
<1>3. ASSUME NEW w \in BitWeights
      PROVE  BitOf(z, w) = BitOf(x, w) <=> BitOf(k, w) = BitOf(l, w)
  <2>1. PICK a \in 0..1, b \in 0..1, c \in 0..1 :
             a = BitOf(x, w) /\ b = BitOf(k, w) /\ c = BitOf(l, w)
    BY ByteHasBits
  <2>2. BitOf(z, w) = (((a + b) % 2) + c) % 2
    BY <1>1, <1>2, <2>1
  <2>3. (((a + b) % 2) + c) % 2 = a <=> b = c
    OBVIOUS
  <2>4. QED
    BY <2>1, <2>2, <2>3, Zenon
<1>4. z = x <=> k = l
  BY <1>3, SameBits
<1>5. QED
  BY <1>1, <1>2, <1>4, Zenon

\* A key stream is bytes.
LEMMA KeyByteType ==
    ASSUME NEW id, NEW onAir, NEW i \in Nat \ {0}
    PROVE  KeyByte(id, onAir, i) \in Byte
<1>1. BlockLen \in Nat \ {0}
  BY SessionAssumption
<1>2. (i - 1) \div BlockLen \in Int
  BY <1>1
<1>3. QED
  BY <1>2 DEF KeyByte, Byte

\* Two key streams differ in every byte.
LEMMA KeyByteDiffers ==
    ASSUME NEW id, NEW onAir, NEW i \in Nat \ {0}
    PROVE  KeyByte(id, onAir, i) = KeyByte(onAir, onAir, i) <=> id = onAir
<1>1. PICK j \in Int : j = (i - 1) \div BlockLen
  <2>1. BlockLen \in Nat \ {0}
    BY SessionAssumption
  <2>2. QED
    BY <2>1
<1>2. (90 + j) % 256 # (165 + j) % 256
  OBVIOUS
<1>3. KeyByte(onAir, onAir, i) = (90 + j) % 256
  BY <1>1 DEF KeyByte
<1>4. CASE id = onAir
  BY <1>4
<1>5. CASE id # onAir
  <2>1. KeyByte(id, onAir, i) = (165 + j) % 256
    BY <1>1, <1>5 DEF KeyByte
  <2>2. QED
    BY <1>2, <1>3, <1>5, <2>1
<1>6. QED
  BY <1>4, <1>5

-----------------------------------------------------------------------------
(* The ciphers.                                                            *)

\* What is encrypted is as long as before.
LEMMA CipherType ==
    ASSUME NEW data \in Seq(Byte), NEW id, NEW onAir
    PROVE  /\ Cipher(data, id, onAir) \in Seq(Byte) /\ Len(Cipher(data, id, onAir)) = Len(data)
           /\ \A i \in 1..Len(data) :
                  Cipher(data, id, onAir)[i] = Xor(data[i], KeyByte(id, onAir, i))
<1>1. PICK n \in Nat : n = Len(data)
  BY LenProperties
<1>2. ASSUME NEW i \in 1..n PROVE Xor(data[i], KeyByte(id, onAir, i)) \in Byte
  <2>1. data[i] \in Byte /\ i \in Nat \ {0}
    BY <1>1, ElementOfSeq
  <2>2. KeyByte(id, onAir, i) \in Byte
    BY <2>1, KeyByteType
  <2>3. QED
    BY <2>1, <2>2, XorBits
<1>3. PICK f : f = [i \in 1..n |-> Xor(data[i], KeyByte(id, onAir, i))]
  OBVIOUS
<1>4. f = Cipher(data, id, onAir)
  BY <1>1, <1>3, Zenon DEF Cipher
<1>5. f \in [1..n -> Byte]
  BY <1>2, <1>3
<1>6. f \in Seq(Byte) /\ Len(f) = n
  BY <1>5, FunctionIsSeq
<1>7. \A i \in 1..n : f[i] = Xor(data[i], KeyByte(id, onAir, i))
  BY <1>3
<1>8. QED
  BY <1>1, <1>4, <1>6, <1>7, Zenon

\* What is encrypted comes back with the same key stream only.
LEMMA CipherTwice ==
    ASSUME NEW data \in Seq(Byte), NEW id, NEW onAir
    PROVE  Cipher(Cipher(data, onAir, onAir), id, onAir) = data <=> id = onAir \/ data = <<>>
<1>1. PICK n \in Nat : n = Len(data)
  BY LenProperties
<1>2. PICK sealed \in Seq(Byte) :
         /\ sealed = Cipher(data, onAir, onAir) /\ Len(sealed) = n
         /\ \A i \in 1..n : sealed[i] = Xor(data[i], KeyByte(onAir, onAir, i))
  BY <1>1, CipherType
<1>3. PICK opened \in Seq(Byte) :
         /\ opened = Cipher(sealed, id, onAir) /\ Len(opened) = n
         /\ \A i \in 1..n : opened[i] = Xor(sealed[i], KeyByte(id, onAir, i))
  BY <1>2, CipherType
<1>4. ASSUME NEW i \in 1..n PROVE opened[i] = data[i] <=> id = onAir
  <2>1. data[i] \in Byte /\ i \in Nat \ {0}
    BY <1>1, ElementOfSeq
  <2>2. PICK k \in Byte, l \in Byte :
             k = KeyByte(onAir, onAir, i) /\ l = KeyByte(id, onAir, i)
    BY <2>1, KeyByteType
  <2>3. opened[i] = Xor(Xor(data[i], k), l)
    BY <1>2, <1>3, <2>2, Zenon
  <2>4. Xor(Xor(data[i], k), l) = data[i] <=> k = l
    BY <2>1, XorTwice
  <2>5. k = l <=> id = onAir
    BY <2>1, <2>2, KeyByteDiffers, Zenon
  <2>6. QED
    BY <2>3, <2>4, <2>5, Zenon
<1>5. CASE data = <<>>
  <2>1. n = 0
    BY <1>1, <1>5, EmptySeq
  <2>2. opened = <<>>
    BY <1>3, <2>1, EmptySeq
  <2>3. QED
    BY <1>2, <1>3, <1>5, <2>2, Zenon
<1>6. CASE data # <<>>
  <2>1. 1 \in 1..n
    <3>1. n # 0
      BY <1>1, <1>6, EmptySeq
    <3>2. QED
      BY <3>1
  <2>2. opened = data => id = onAir
    BY <1>4, <2>1, Zenon
  <2>3. id = onAir => opened = data
    BY <1>1, <1>3, <1>4, SeqEqual
  <2>4. QED
    BY <1>2, <1>3, <1>6, <2>2, <2>3, Zenon
<1>7. QED
  BY <1>5, <1>6, Zenon

-----------------------------------------------------------------------------
(* The frames.                                                             *)

\* A frame is its header, its mac_payload and its code.
Sealed(f, b, data, code) ==
    /\ f \in Seq(Byte) /\ Len(f) = Len(data) + 5
    /\ f[1] = b
    /\ MacBytes(f) = data
    /\ \A i \in 1..Len(data) : f[1 + i] = data[i]
    /\ SubSeq(f, Len(f) - MicLen + 1, Len(f)) = code
    /\ SubSeq(f, 1, Len(f) - MicLen) = <<b>> \o data

\* A header byte, a mac_payload and a code make such a frame.
LEMMA FrameParts ==
    ASSUME NEW b \in Byte, NEW data \in Seq(Byte), NEW code \in Seq(Byte), Len(code) = 4
    PROVE  /\ <<b>> \o data \in Seq(Byte) /\ Len(<<b>> \o data) = Len(data) + 1
           /\ Sealed((<<b>> \o data) \o code, b, data, code)
<1>1. PICK n \in Nat : n = Len(data)
  BY LenProperties
<1>2. PICK head : head = <<b>>
  OBVIOUS
<1>3. head \in Seq(Byte) /\ Len(head) = 1 /\ head[1] = b
  BY <1>2
<1>4. PICK plain : plain = head \o data /\ plain \in Seq(Byte) /\ Joined(plain, head, data)
  BY <1>3, BothParts
<1>5. /\ Len(plain) = 1 + n /\ plain[1] = b
      /\ \A i \in 1..n : plain[1 + i] = data[i]
  <2>1. /\ Len(plain) = Len(head) + Len(data)
        /\ \A i \in 1..Len(head) : plain[i] = head[i]
        /\ \A i \in 1..Len(data) : plain[Len(head) + i] = data[i]
    BY <1>4, Zenon DEF Joined
  <2>2. QED
    BY <1>1, <1>3, <2>1
<1>6. PICK f : f = plain \o code /\ f \in Seq(Byte) /\ Joined(f, plain, code)
  BY <1>4, BothParts
<1>7. /\ Len(f) = 1 + n + 4
      /\ \A i \in 1..(1 + n) : f[i] = plain[i]
      /\ \A i \in 1..4 : f[1 + n + i] = code[i]
  <2>1. /\ Len(f) = Len(plain) + Len(code)
        /\ \A i \in 1..Len(plain) : f[i] = plain[i]
        /\ \A i \in 1..Len(code) : f[Len(plain) + i] = code[i]
    BY <1>6, Zenon DEF Joined
  <2>2. QED
    BY <1>5, <2>1
<1>8. f[1] = b
  BY <1>5, <1>7
<1>9. SubSeq(f, 2, 1 + n) = data
  <2>1. \A i \in 1..Len(data) : f[1 + i] = data[i]
    BY <1>1, <1>5, <1>7
  <2>2. 1 \in Nat /\ 1 + Len(data) <= Len(f)
    BY <1>1, <1>7
  <2>3. SubSeq(f, 1 + 1, 1 + Len(data)) = data
    BY <1>6, <2>1, <2>2, Slice
  <2>4. QED
    BY <1>1, <2>3
<1>10. SubSeq(f, 1 + n + 1, 1 + n + 4) = code
  <2>1. PICK from \in Nat : from = 1 + n
    OBVIOUS
  <2>2. \A i \in 1..Len(code) : f[from + i] = code[i]
    BY <1>7, <2>1
  <2>3. from + Len(code) <= Len(f)
    BY <1>7, <2>1
  <2>4. SubSeq(f, from + 1, from + Len(code)) = code
    BY <1>6, <2>2, <2>3, Slice
  <2>5. QED
    BY <2>1, <2>4
<1>11. SubSeq(f, 1, 1 + n) = plain
  <2>1. \A i \in 1..Len(plain) : f[0 + i] = plain[i]
    BY <1>5, <1>7
  <2>2. 0 \in Nat /\ 0 + Len(plain) <= Len(f)
    BY <1>5, <1>7
  <2>3. SubSeq(f, 0 + 1, 0 + Len(plain)) = plain
    BY <1>4, <1>6, <2>1, <2>2, Slice
  <2>4. QED
    BY <1>5, <2>3
<1>12. Len(f) - MicLen = 1 + n /\ 1 + n + 1 = Len(f) - MicLen + 1 /\ 1 + n + 4 = Len(f)
  BY <1>7 DEF MicLen
<1>13. Sealed(f, b, data, code)
  <2>1. Len(f) = Len(data) + 5
    BY <1>1, <1>7
  <2>2. MacBytes(f) = data
    BY <1>9, <1>12, Zenon DEF MacBytes
  <2>3. SubSeq(f, Len(f) - MicLen + 1, Len(f)) = code
    BY <1>10, <1>12, Zenon
  <2>4. SubSeq(f, 1, Len(f) - MicLen) = <<b>> \o data
    BY <1>2, <1>4, <1>11, <1>12, Zenon
  <2>5. \A i \in 1..Len(data) : f[1 + i] = data[i]
    BY <1>1, <1>5, <1>7
  <2>6. QED
    BY <1>6, <1>8, <2>1, <2>2, <2>3, <2>4, <2>5, Zenon DEF Sealed
<1>14. Len(plain) = Len(data) + 1
  BY <1>1, <1>5
<1>15. QED
  BY <1>2, <1>4, <1>6, <1>13, <1>14, Zenon

\* The code on the air has the length of one.
LEMMA CodeType == SignedCode \in Seq(Byte) /\ Len(SignedCode) = 4
<1>1. SignedCode \in Seq(Byte)
  BY DEF SignedCode, Byte
<1>2. QED
  BY <1>1 DEF SignedCode

\* The powers of 256 up to AddrBase.
LEMMA Weights ==
    /\ Weight[0] = 1
    /\ \A n \in 1..AddrLen : Weight[n] = 256 * Weight[n - 1]
    /\ \A n \in 0..AddrLen : Weight[n] \in Nat \ {0}
<1> DEFINE Steps(f, k) == f = [n \in 0..k |-> IF n = 0 THEN 1 ELSE 256 * f[n - 1]]
           T == {k \in Nat : \E f : Steps(f, k)}
<1>1. 0 \in T
  <2>1. Steps([n \in 0..0 |-> 1], 0)
    OBVIOUS
  <2>2. QED
    BY <2>1
<1>2. ASSUME NEW k \in T PROVE k + 1 \in T
  <2>1. k \in Nat /\ k + 1 \in Nat
    OBVIOUS
  <2>2. PICK f : Steps(f, k)
    OBVIOUS
  <2>3. PICK g : g = [n \in 0..(k + 1) |-> IF n <= k THEN f[n] ELSE 256 * f[k]]
    OBVIOUS
  <2>4. ASSUME NEW n \in 0..(k + 1)
        PROVE  g[n] = IF n = 0 THEN 1 ELSE 256 * g[n - 1]
    <3>1. CASE n = 0
      BY <2>1, <2>2, <2>3, <3>1
    <3>2. CASE n \in 1..k
      <4>1. g[n] = f[n] /\ g[n - 1] = f[n - 1] /\ n # 0 /\ n \in 0..k
        BY <2>1, <2>3, <3>2
      <4>2. f[n] = 256 * f[n - 1]
        BY <2>2, <4>1
      <4>3. QED
        BY <4>1, <4>2
    <3>3. CASE n = k + 1
      <4>1. g[n] = 256 * f[k] /\ g[n - 1] = f[k] /\ n # 0
        BY <2>1, <2>3, <3>3
      <4>2. QED
        BY <4>1
    <3>4. QED
      BY <2>1, <3>1, <3>2, <3>3
  <2>5. g = [n \in 0..(k + 1) |-> g[n]]
    BY <2>3
  <2>6. Steps(g, k + 1)
    BY <2>4, <2>5
  <2>7. QED
    BY <2>1, <2>6
<1>3. AddrLen \in Nat
  BY CodecAssumption
<1>4. \E f : Steps(f, AddrLen)
  <2>1. Nat \subseteq T
    <3> HIDE DEF T
    <3>1. QED
      BY <1>1, <1>2, Induction
  <2>2. AddrLen \in T
    BY <1>3, <2>1
  <2>3. QED
    BY <2>2
<1>5. Weight = [n \in 0..AddrLen |-> IF n = 0 THEN 1 ELSE 256 * Weight[n - 1]]
  BY <1>4 DEF Weight
<1>6. Weight[0] = 1 /\ \A n \in 1..AddrLen : Weight[n] = 256 * Weight[n - 1]
  BY <1>3, <1>5
<1> DEFINE U == {k \in Nat : k <= AddrLen => Weight[k] \in Nat \ {0}}
<1>7. 0 \in U
  BY <1>6
<1>8. ASSUME NEW k \in U PROVE k + 1 \in U
  <2>1. SUFFICES ASSUME k + 1 <= AddrLen PROVE Weight[k + 1] \in Nat \ {0}
    OBVIOUS
  <2>2. Weight[k] \in Nat \ {0} /\ k + 1 \in 1..AddrLen /\ (k + 1) - 1 = k
    BY <1>3, <2>1
  <2>3. Weight[k + 1] = 256 * Weight[k]
    BY <1>6, <2>2
  <2>4. QED
    BY <2>2, <2>3
<1>9. \A n \in 0..AddrLen : Weight[n] \in Nat \ {0}
  <2>1. Nat \subseteq U
    <3> HIDE DEF U
    <3>1. QED
      BY <1>7, <1>8, Induction
  <2>2. QED
    BY <1>3, <2>1
<1>10. QED
  BY <1>6, <1>9

\* An address is bytes.
LEMMA AddressType ==
    ASSUME NEW n \in Nat
    PROVE  BigEndian(n) \in [1..AddrLen -> Byte]
<1>1. AddrLen \in Nat
  BY CodecAssumption
<1>2. ASSUME NEW i \in 1..AddrLen PROVE (n \div Weight[AddrLen - i]) % 256 \in Byte
  <2>1. AddrLen - i \in 0..AddrLen
    BY <1>1
  <2>2. PICK w \in Nat \ {0} : w = Weight[AddrLen - i]
    BY <2>1, Weights
  <2>3. (n \div w) % 256 \in Byte
    BY <2>2 DEF Byte
  <2>4. QED
    BY <2>2, <2>3, Zenon
<1>3. QED
  BY <1>2 DEF BigEndian

\* A frame of the server, as a mac_payload of the program.
DownMac(k, d) ==
    [addr      |-> BigEndian(Registered(k).addr),
     adr       |-> Flag(d.flags, 8),
     adrAckReq |-> Flag(d.flags, 4),
     ack       |-> Flag(d.flags, 2),
     fPending  |-> Flag(d.flags, 1),
     fCnt      |-> d.fCnt,
     fOpts     |-> d.fOpts,
     fPort     |-> d.fPort,
     frm       |-> Cipher(d.data, DownStream(k, d), DownStream(k, d))]

DownMhdr(d) == d.mType * 32 + d.rfu * 4 + d.major

\* What the server may send.
LEMMA DownlinkType ==
    ASSUME NEW d \in Downlinks
    PROVE  /\ d.mType \in 0..7 /\ d.rfu \in 0..7 /\ d.major \in 0..3 /\ d.flags \in 0..15
           /\ d.fCnt \in Nat /\ d.fPort \in 0..NoPort
           /\ d.fOpts \in {opts \in Seq(Byte) : Len(opts) <= 15} /\ d.data \in Seq(Byte)
           /\ d.data # <<>> => d.fPort # NoPort
<1>1. d \in Downlink /\ (d.data # <<>> => d.fPort # NoPort)
  BY SessionAssumption, Zenon
<1>2. QED
  BY <1>1 DEF Downlink

\* The server counts addresses on without an end.
LEMMA RegisteredAddress ==
    ASSUME file \in Files, NEW k \in 0..(DeviceCount - 1)
    PROVE  k \in Nat /\ Registered(k).addr \in Nat
<1>1. file \in File /\ DeviceCount \in 1..Word
  BY SessionAssumption, Zenon
<1>2. file.address \in Nat /\ k \in Nat
  BY <1>1 DEF File
<1>3. Registered(k).addr = file.address + k
  BY DEF Registered
<1>4. QED
  BY <1>2, <1>3

\* The mac_payload of a downlink, which has no payload without a port.
LEMMA DownMacType ==
    ASSUME file \in Files, NEW k \in 0..(DeviceCount - 1), NEW d \in Downlinks
    PROVE  /\ DownMac(k, d) \in MacPayload
           /\ DownMac(k, d).fPort = NoPort => DownMac(k, d).frm = <<>>
<1>1. PICK addr \in [1..AddrLen -> Byte] : addr = BigEndian(Registered(k).addr)
  BY RegisteredAddress, AddressType
<1>2. PICK frm \in Seq(Byte) :
         /\ frm = Cipher(d.data, DownStream(k, d), DownStream(k, d))
         /\ Len(frm) = Len(d.data)
  BY DownlinkType, CipherType
<1>3. PICK a \in BOOLEAN, b \in BOOLEAN, c \in BOOLEAN, e \in BOOLEAN :
         /\ a = Flag(d.flags, 8) /\ b = Flag(d.flags, 4)
         /\ c = Flag(d.flags, 2) /\ e = Flag(d.flags, 1)
  BY DEF Flag
<1>4. DownMac(k, d) = [addr |-> addr, adr |-> a, adrAckReq |-> b, ack |-> c, fPending |-> e,
                       fCnt |-> d.fCnt, fOpts |-> d.fOpts, fPort |-> d.fPort, frm |-> frm]
  BY <1>1, <1>2, <1>3 DEF DownMac
<1>5. DownMac(k, d) \in MacPayload
  BY <1>4, DownlinkType DEF MacPayload
<1>6. d.fPort = NoPort => frm = <<>>
  <2>1. d.fPort = NoPort => d.data = <<>>
    BY DownlinkType
  <2>2. d.data = <<>> => Len(d.data) = 0
    BY EmptySeq
  <2>3. Len(frm) = 0 => frm = <<>>
    BY EmptySeq
  <2>4. QED
    BY <1>2, <2>1, <2>2, <2>3
<1>7. QED
  BY <1>4, <1>5, <1>6

\* A downlink is its header and its mac_payload marshalled.
LEMMA DownPlainIs ==
    ASSUME file \in Files, NEW k \in 0..(DeviceCount - 1), NEW d \in Downlinks
    PROVE  /\ DownMhdr(d) \in Byte
           /\ DownPlain(k, d) = <<DownMhdr(d)>> \o MacMarshal(DownMac(k, d))
<1>1. DownMhdr(d) \in Byte
  <2>1. d.mType \in 0..7 /\ d.rfu \in 0..7 /\ d.major \in 0..3
    BY DownlinkType, Zenon
  <2>2. PICK x \in 0..7, y \in 0..7, z \in 0..3 : x = d.mType /\ y = d.rfu /\ z = d.major
    BY <2>1
  <2>3. x * 32 + y * 4 + z \in Byte
    BY DEF Byte
  <2>4. QED
    BY <2>2, <2>3, Zenon DEF DownMhdr
<1>2. PICK m : m = DownMac(k, d)
  OBVIOUS
<1>3. FCtrlMarshal(m) = d.flags * 16 + Len(d.fOpts)
  <2>1. PICK n \in 0..15 : n = Len(d.fOpts)
    <3>1. PICK opts \in Seq(Byte) : opts = d.fOpts /\ Len(opts) <= 15
      <4>1. d.fOpts \in {opts \in Seq(Byte) : Len(opts) <= 15}
        BY DownlinkType, Zenon
      <4>2. QED
        BY <4>1
    <3>2. PICK n \in Nat : n = Len(opts)
      BY LenProperties
    <3>3. n <= 15
      BY <3>1, <3>2, Zenon
    <3>4. n \in 0..15
      BY <3>3
    <3>5. QED
      BY <3>1, <3>2, <3>4, Zenon
  <2>2. PICK x \in 0..15 : x = d.flags
    <3>1. d.flags \in 0..15
      BY DownlinkType, Zenon
    <3>2. QED
      BY <3>1
  <2>3. PICK a \in 0..1, b \in 0..1, c \in 0..1, e \in 0..1 :
             /\ x = 8 * a + 4 * b + 2 * c + e
             /\ a = (x \div 8) % 2 /\ b = (x \div 4) % 2 /\ c = (x \div 2) % 2 /\ e = (x \div 1) % 2
    OBVIOUS
  <2>4. /\ m.adr = (a = 1) /\ m.adrAckReq = (b = 1) /\ m.ack = (c = 1) /\ m.fPending = (e = 1)
        /\ Len(m.fOpts) = n
    BY <1>2, <2>1, <2>2, <2>3 DEF DownMac, Flag
  <2>5. Len(m.fOpts) % 16 = n
    BY <2>4
  <2>6. /\ (IF m.adr THEN 128 ELSE 0) = 128 * a /\ (IF m.adrAckReq THEN 64 ELSE 0) = 64 * b
        /\ (IF m.ack THEN 32 ELSE 0) = 32 * c /\ (IF m.fPending THEN 16 ELSE 0) = 16 * e
    <3>1. /\ (IF a = 1 THEN 128 ELSE 0) = 128 * a /\ (IF b = 1 THEN 64 ELSE 0) = 64 * b
          /\ (IF c = 1 THEN 32 ELSE 0) = 32 * c /\ (IF e = 1 THEN 16 ELSE 0) = 16 * e
      OBVIOUS
    <3>2. QED
      BY <2>4, <3>1, Zenon
  <2>7. FCtrlMarshal(m) = 128 * a + 64 * b + 32 * c + 16 * e + n
    BY <2>5, <2>6 DEF FCtrlMarshal
  <2>8. 128 * a + 64 * b + 32 * c + 16 * e + n = x * 16 + n
    BY <2>3
  <2>9. QED
    BY <2>1, <2>2, <2>7, <2>8, Zenon
<1>4. PICK control :
         control = <<d.flags * 16 + Len(d.fOpts), d.fCnt % 256, (d.fCnt \div 256) % 256>>
  OBVIOUS
<1>5. /\ m.addr = BigEndian(Registered(k).addr) /\ m.fCnt = d.fCnt /\ m.fOpts = d.fOpts
      /\ m.fPort = d.fPort /\ m.frm = Cipher(d.data, DownStream(k, d), DownStream(k, d))
  BY <1>2 DEF DownMac
<1>6. PICK port : port = IF d.fPort = NoPort THEN <<>> ELSE <<d.fPort>>
  OBVIOUS
<1>7. FhdrMarshal(m) = Reversed(m.addr) \o control \o d.fOpts
  BY <1>3, <1>4, <1>5, Zenon DEF FhdrMarshal
<1>8. MacMarshal(m) = FhdrMarshal(m) \o (port \o Cipher(d.data, DownStream(k, d), DownStream(k, d)))
  BY <1>5, <1>6, Zenon DEF MacMarshal
<1>9. MacMarshal(m) = DownAddr(k) \o control \o d.fOpts
                        \o (port \o Cipher(d.data, DownStream(k, d), DownStream(k, d)))
  BY <1>5, <1>7, <1>8, Zenon DEF DownAddr
<1>10. QED
  BY <1>1, <1>2, <1>4, <1>6, <1>9, Zenon DEF DownPlain, DownMhdr
-----------------------------------------------------------------------------
(* Numbers of a width that is a constant.                                  *)

\* What fits is not changed.
LEMMA Fits ==
    ASSUME NEW x \in Nat, NEW b \in Nat \ {0}
    PROVE  x % b = x <=> x < b
<1>1. PICK q \in Nat, r \in Nat : q = x \div b /\ r = x % b /\ r < b /\ x = b * q + r
  BY Division
<1>2. ASSUME x < b PROVE r = x
  <2>1. CASE q = 0
    BY <1>1, <2>1
  <2>2. CASE q >= 1
    <3>1. b * q >= b
      BY <2>2
    <3>2. QED
      BY <1>1, <1>2, <3>1
  <2>3. QED
    BY <2>1, <2>2
<1>3. QED
  BY <1>1, <1>2

\* Two numbers less than the width apart do not become the same.
LEMMA SameRemainder ==
    ASSUME NEW x \in Nat, NEW y \in Nat, NEW b \in Nat \ {0}
    PROVE  x % b = y % b /\ x <= y /\ y < x + b => x = y
<1>1. PICK q \in Nat, r \in Nat : r = x % b /\ x = b * q + r
  <2>1. PICK q \in Nat, r \in Nat : q = x \div b /\ r = x % b /\ x = b * q + r
    BY Division
  <2>2. QED
    BY <2>1
<1>2. PICK p \in Nat, s \in Nat : s = y % b /\ y = b * p + s
  <2>1. PICK p \in Nat, s \in Nat : p = y \div b /\ s = y % b /\ y = b * p + s
    BY Division
  <2>2. QED
    BY <2>1
<1> SUFFICES ASSUME x <= y, y < x + b, r = s PROVE x = y
  BY <1>1, <1>2
<1>3. PICK d \in Int : d = p - q
  OBVIOUS
<1>4. b * d = y - x
  <2>1. PICK v \in Int, w \in Int : v = b * q /\ w = b * d
    OBVIOUS
  <2>2. p = q + d
    BY <1>3
  <2>3. b * p = v + w
    BY <2>1, <2>2
  <2>4. x = v + r /\ y = v + w + r
    BY <1>1, <1>2, <2>1, <2>3
  <2>5. QED
    BY <2>1, <2>4
<1>5. d = 0
  <2>1. ~(d >= 1)
    <3>1. d >= 1 => b * d >= b
      OBVIOUS
    <3>2. QED
      BY <1>4, <3>1
  <2>2. ~(d <= -1)
    <3>1. d <= -1 => b * d <= -b
      OBVIOUS
    <3>2. QED
      BY <1>4, <3>1
  <2>3. QED
    BY <2>1, <2>2
<1>6. b * d = 0
  BY <1>5
<1>7. QED
  BY <1>4, <1>6

\* Dividing first by b and then by 256.
InSteps(x, b, p, s) ==
    p = x \div (256 * b) /\ s = (x \div b) % 256 /\ x \div b = 256 * p + s

\* Every division by 256 * b is done in steps.
LEMMA DivisionSteps ==
    ASSUME NEW x \in Nat, NEW b \in Nat \ {0}
    PROVE  \E p \in Nat, s \in Nat : InSteps(x, b, p, s)
<1>1. PICK q \in Nat, r \in Nat : q = x \div b /\ r < b /\ x = b * q + r
  BY Division
<1>2. PICK p \in Nat, s \in Nat : s = q % 256 /\ s < 256 /\ q = 256 * p + s
  BY Division
<1>3. PICK c \in Nat \ {0} : c = 256 * b
  OBVIOUS
<1>4. PICK d \in Nat, t \in Nat : d = x \div c /\ t < c /\ x = c * d + t
  BY Division
<1>5. PICK u \in Nat : u = b * s + r
  OBVIOUS
<1>6. u < c
  <2>1. b * s <= b * 255
    BY <1>2
  <2>2. QED
    BY <1>1, <1>3, <1>5, <2>1
<1>7. x = c * p + u
  <2>1. b * q = c * p + b * s
    BY <1>2, <1>3
  <2>2. QED
    BY <1>1, <1>5, <2>1
<1>8. d = p
  <2>1. PICK e \in Int : e = d - p
    OBVIOUS
  <2>2. c * e = u - t
    <3>1. PICK v \in Int, w \in Int : v = c * p /\ w = c * e
      OBVIOUS
    <3>2. d = p + e
      BY <2>1
    <3>3. c * d = v + w
      BY <3>1, <3>2
    <3>4. x = v + w + t /\ x = v + u
      BY <1>4, <1>7, <3>1, <3>3
    <3>5. QED
      BY <3>1, <3>4
  <2>3. ~(e >= 1)
    <3>1. e >= 1 => c * e >= c
      OBVIOUS
    <3>2. QED
      BY <1>4, <1>6, <2>2, <3>1
  <2>4. ~(e <= -1)
    <3>1. e <= -1 => c * e <= -c
      OBVIOUS
    <3>2. QED
      BY <1>4, <1>6, <2>2, <3>1
  <2>5. QED
    BY <2>1, <2>3, <2>4
<1>9. InSteps(x, b, p, s)
  BY <1>1, <1>2, <1>3, <1>4, <1>8, Zenon DEF InSteps
<1>10. QED
  BY <1>9

\* An address that fits is told by its bytes.
LEMMA SameAddress ==
    ASSUME NEW x \in Nat, NEW y \in Nat, x < AddrBase, y < AddrBase, BigEndian(x) = BigEndian(y)
    PROVE  x = y
<1>1. PICK len \in Nat \ {0} : len = AddrLen
  BY CodecAssumption
<1> DEFINE Same(n) == x \div Weight[len - n] = y \div Weight[len - n]
           T == {n \in Nat : n <= len => Same(n)}
<1>2. 0 \in T
  <2>1. PICK b \in Nat \ {0} : b = Weight[len]
    BY <1>1, Weights
  <2>2. x < b /\ y < b
    BY <1>1, <2>1 DEF AddrBase
  <2>3. ASSUME NEW z \in Nat, z < b PROVE z \div b = 0
    <3>1. PICK q \in Nat, r \in Nat : q = z \div b /\ z = b * q + r
      BY Division
    <3>2. q >= 1 => b * q >= b
      OBVIOUS
    <3>3. QED
      BY <2>3, <3>1, <3>2
  <2>4. x \div b = y \div b
    BY <2>2, <2>3
  <2>5. len - 0 = len
    OBVIOUS
  <2>6. QED
    BY <2>1, <2>4, <2>5
<1>3. ASSUME NEW n \in T PROVE n + 1 \in T
  <2>1. n \in Nat /\ (n <= len => Same(n))
    OBVIOUS
  <2>2. SUFFICES ASSUME n + 1 <= len PROVE Same(n + 1)
    BY <2>1
  <2>3. PICK k \in 0..(len - 1) : k = len - (n + 1)
    BY <2>1, <2>2
  <2>4. PICK b \in Nat \ {0} : b = Weight[k] /\ Weight[k + 1] = 256 * b
    <3>1. k \in 0..AddrLen /\ k + 1 \in 1..AddrLen /\ (k + 1) - 1 = k
      BY <1>1, <2>3
    <3>2. QED
      BY <3>1, Weights
  <2>5. len - n = k + 1 /\ n <= len /\ n + 1 \in 1..len
    BY <2>1, <2>2, <2>3
  <2>6. x \div (256 * b) = y \div (256 * b)
    BY <2>1, <2>4, <2>5, Zenon
  <2>7. (x \div b) % 256 = (y \div b) % 256
    <3>1. ASSUME NEW z \in Nat PROVE BigEndian(z)[n + 1] = (z \div b) % 256
      <4>1. BigEndian(z)[n + 1] = (z \div Weight[AddrLen - (n + 1)]) % 256
        BY <1>1, <2>5 DEF BigEndian
      <4>2. QED
        BY <1>1, <2>3, <2>4, <4>1, Zenon
    <3>2. QED
      BY <3>1
  <2>8. x \div b = y \div b
    <3>1. PICK p \in Nat, s \in Nat : InSteps(x, b, p, s)
      BY DivisionSteps
    <3>2. PICK q \in Nat, r \in Nat : InSteps(y, b, q, r)
      BY DivisionSteps
    <3>3. p = q /\ s = r
      BY <2>6, <2>7, <3>1, <3>2, Zenon DEF InSteps
    <3>4. QED
      BY <3>1, <3>2, <3>3, Zenon DEF InSteps
  <2>9. QED
    BY <2>3, <2>4, <2>8, Zenon
<1>4. Same(len)
  <2>1. Nat \subseteq T
    <3> HIDE DEF T
    <3>1. QED
      BY <1>2, <1>3, Induction
  <2>2. QED
    BY <2>1
<1>5. x \div 1 = x /\ y \div 1 = y /\ len - len = 0
  OBVIOUS
<1>6. QED
  BY <1>4, <1>5, Weights, Zenon
-----------------------------------------------------------------------------
(* What the file says.                                                     *)

\* The settings of a file.
LEMMA FileType ==
    ASSUME file \in Files
    PROVE  /\ file.nwk \in Key /\ file.app \in Key
           /\ file.port \in Int /\ file.fPort \in Int /\ file.fCnt \in Int /\ file.address \in Nat
           /\ file.addr = Absent \/ file.addr.value \in Nat
<1>1. file \in File
  BY SessionAssumption, Zenon
<1>2. QED
  BY <1>1 DEF File

\* The widths of keys and addresses, and how many devices there are.
LEMMA Widths ==
    /\ Word \in Nat \ {0} /\ DeviceCount \in Nat \ {0} /\ DeviceCount <= Word
    /\ AddrBase \in Nat \ {0}
<1>1. Word \in Nat \ {0} /\ DeviceCount \in 1..Word
  BY SessionAssumption, Zenon
<1>2. AddrLen \in 0..AddrLen
  BY CodecAssumption
<1>3. AddrBase \in Nat \ {0}
  BY <1>2, Weights, Zenon DEF AddrBase
<1>4. QED
  BY <1>1, <1>3

\* The first address fits.
LEMMA FirstAddrType ==
    ASSUME file \in Files
    PROVE  FirstAddr \in Nat /\ FirstAddr < AddrBase
<1>1. PICK base \in Nat \ {0} : base = AddrBase
  BY Widths
<1>2. CASE file.addr = Absent
  <2>1. FirstAddr = 0
    BY <1>2, Zenon DEF FirstAddr
  <2>2. QED
    BY <1>1, <2>1
<1>3. CASE file.addr # Absent
  <2>1. PICK value \in Nat : value = file.addr.value
    BY <1>3, FileType, Zenon
  <2>2. FirstAddr = IF value >= base THEN base - 1 ELSE value
    BY <1>1, <1>3, <2>1, Zenon DEF FirstAddr
  <2>3. QED
    BY <1>1, <2>2
<1>4. QED
  BY <1>2, <1>3, Zenon

\* Incrementing a key leaves it one.
LEMMA AddKeyType ==
    ASSUME NEW key \in Key, NEW k \in Nat
    PROVE  AddKey(key, k) \in Key
<1>1. PICK word \in Nat \ {0} : word = Word
  BY Widths
<1>2. key.hi \in 0..(word - 1) /\ key.lo \in 0..(word - 1)
  BY <1>1 DEF Key
<1>3. PICK x \in Nat : x = key.lo + k
  BY <1>2
<1>4. x % word \in 0..(word - 1)
  <2>1. x % word \in Nat /\ x % word < word
    BY Division
  <2>2. QED
    BY <2>1
<1>5. AddKey(key, k) = [hi |-> key.hi, lo |-> x % word]
  BY <1>1, <1>3, Zenon DEF AddKey
<1>6. QED
  BY <1>1, <1>2, <1>4, <1>5 DEF Key

Device ==
    [addr : [1..AddrLen -> Byte], nwk : Key, app : Key, fPort : Byte, fCntUp : Nat]

\* What init makes is a device, if it refuses nothing.
LEMMA MadeType ==
    ASSUME file \in Files, ~Refused, NEW k \in 0..(DeviceCount - 1)
    PROVE  Made(k) \in Device
<1>1. k \in Nat
  BY Widths
<1>2. BigEndian((FirstAddr + k) % AddrBase) \in [1..AddrLen -> Byte]
  <2>1. PICK first \in Nat : first = FirstAddr
    BY FirstAddrType
  <2>2. PICK sum \in Nat : sum = first + k
    BY <1>1
  <2>3. PICK base \in Nat : base = AddrBase /\ base > 0
    BY Widths
  <2>4. sum % base \in Nat
    BY <2>3, Division
  <2>5. QED
    BY <2>1, <2>2, <2>3, <2>4, AddressType, Zenon
<1>3. AddKey(file.nwk, k) \in Key
  BY <1>1, FileType, AddKeyType
<1>4. [hi |-> file.nwk.hi, lo |-> file.app.lo] \in Key
  BY FileType DEF Key
<1>5. AddKey([hi |-> file.nwk.hi, lo |-> file.app.lo], k) \in Key
  BY <1>1, <1>4, AddKeyType
<1>6. file.fPort % 256 \in Byte
  BY FileType DEF Byte
<1>7. file.fCnt \in Nat
  <2>1. ~(file.fCnt < 0)
    BY Zenon DEF Refused
  <2>2. QED
    BY <2>1, FileType
<1>8. QED
  BY <1>2, <1>3, <1>5, <1>6, <1>7 DEF Made, Device

-----------------------------------------------------------------------------
(* A frame of the server.                                                  *)

\* The frame of a downlink, whole.
LEMMA DownFrame ==
    ASSUME file \in Files, NEW k \in 0..(DeviceCount - 1), NEW d \in Downlinks
    PROVE  /\ MacMarshal(DownMac(k, d)) \in Seq(Byte)
           /\ DownPlain(k, d) \in Seq(Byte)
           /\ Len(DownPlain(k, d)) = Len(MacMarshal(DownMac(k, d))) + 1
           /\ Sealed(DownPlain(k, d) \o SignedCode, DownMhdr(d), MacMarshal(DownMac(k, d)),
                     SignedCode)
<1>1. LaidOut(MacMarshal(DownMac(k, d)), DownMac(k, d))
  BY DownMacType, MarshalLayout, Zenon
<1>2. PICK data \in Seq(Byte) : data = MacMarshal(DownMac(k, d))
  BY <1>1, Zenon DEF LaidOut
<1>3. PICK b \in Byte : b = DownMhdr(d)
  BY DownPlainIs, Zenon
<1>4. DownPlain(k, d) = <<b>> \o data
  BY <1>2, <1>3, DownPlainIs, Zenon
<1>5. /\ <<b>> \o data \in Seq(Byte) /\ Len(<<b>> \o data) = Len(data) + 1
      /\ Sealed((<<b>> \o data) \o SignedCode, b, data, SignedCode)
  BY CodeType, FrameParts, Zenon
<1>6. QED
  BY <1>2, <1>3, <1>4, <1>5, Zenon

-----------------------------------------------------------------------------
(* A frame of the device.                                                  *)

UpMac(dev, frm) ==
    [addr |-> dev.addr, adr |-> FALSE, adrAckReq |-> FALSE, ack |-> FALSE, fPending |-> FALSE,
     fCnt |-> dev.fCntUp, fOpts |-> <<>>, fPort |-> dev.fPort, frm |-> frm]

\* A mac_payload starts out as one.
LEMMA EmptyMacType == EmptyMac \in MacPayload
<1>1. PICK zeros : zeros = [i \in 1..AddrLen |-> 0]
  OBVIOUS
<1>2. zeros \in [1..AddrLen -> Byte]
  BY <1>1 DEF Byte
<1>3. EmptyMac = [addr |-> zeros, adr |-> FALSE, adrAckReq |-> FALSE, ack |-> FALSE,
                  fPending |-> FALSE, fCnt |-> 0, fOpts |-> <<>>, fPort |-> NoPort,
                  frm |-> <<>>]
  BY <1>1, Zenon DEF EmptyMac
<1>4. <<>> \in {opts \in Seq(Byte) : Len(opts) <= 15} /\ NoPort \in 0..NoPort
  BY DEF NoPort
<1>5. QED
  BY <1>2, <1>3, <1>4 DEF MacPayload

\* The mac_payload of an uplink always has a port.
LEMMA UpMacType ==
    ASSUME NEW dev \in Device, NEW frm \in Seq(Byte)
    PROVE  UpMac(dev, frm) \in MacPayload /\ UpMac(dev, frm).fPort # NoPort
<1>1. <<>> \in {opts \in Seq(Byte) : Len(opts) <= 15}
  OBVIOUS
<1>2. dev.fPort \in 0..NoPort /\ dev.fPort # NoPort
  <2>1. dev.fPort \in 0..255
    BY DEF Device, Byte
  <2>2. PICK port \in 0..255 : port = dev.fPort
    BY <2>1
  <2>3. port \in 0..256 /\ port # 256
    OBVIOUS
  <2>4. QED
    BY <2>2, <2>3, Zenon DEF NoPort
<1>3. dev.addr \in [1..AddrLen -> Byte] /\ dev.fCntUp \in Nat
  BY DEF Device
<1>4. QED
  BY <1>1, <1>2, <1>3 DEF UpMac, MacPayload

\* The frame send_data fills in.
LEMMA UpPhyIs ==
    ASSUME NEW dev \in Device, NEW frm \in Seq(Byte)
    PROVE  UpPhy(dev, frm) = [mType |-> UnconfirmedDataUp, major |-> 0, mac |-> UpMac(dev, frm)]
<1>1. PICK e \in MacPayload : e = EmptyMac
  BY EmptyMacType
<1>2. /\ e.adr = FALSE /\ e.adrAckReq = FALSE /\ e.ack = FALSE /\ e.fPending = FALSE
      /\ e.fOpts = <<>>
  BY <1>1, Zenon DEF EmptyMac
<1>3. PICK addr \in [1..AddrLen -> Byte], fCnt \in Nat, fPort \in 0..NoPort :
         addr = dev.addr /\ fCnt = dev.fCntUp /\ fPort = dev.fPort
  BY UpMacType DEF UpMac, MacPayload
<1>4. PICK m : m = [e EXCEPT !.addr = addr, !.fCnt = fCnt, !.fPort = fPort, !.frm = frm]
  OBVIOUS
<1>5. /\ m \in MacPayload
      /\ m.addr = addr /\ m.adr = e.adr /\ m.adrAckReq = e.adrAckReq /\ m.ack = e.ack
      /\ m.fPending = e.fPending /\ m.fCnt = fCnt /\ m.fOpts = e.fOpts /\ m.fPort = fPort
      /\ m.frm = frm
  BY <1>4 DEF MacPayload
<1>6. m = UpMac(dev, frm)
  BY <1>2, <1>3, <1>5 DEF MacPayload, UpMac
<1>7. QED
  BY <1>1, <1>3, <1>4, <1>6, Zenon DEF UpPhy

\* And as bytes: 64 is the header of unconfirmed data.
LEMMA UpPlainIs ==
    ASSUME NEW dev \in Device, NEW frm \in Seq(Byte)
    PROVE  Plain(UpPhy(dev, frm)) = <<64>> \o MacMarshal(UpMac(dev, frm))
<1>1. PICK p : p = UpPhy(dev, frm)
  OBVIOUS
<1>2. p.mType = 2 /\ p.major = 0 /\ p.mac = UpMac(dev, frm)
  BY <1>1, UpPhyIs DEF UnconfirmedDataUp
<1>3. MhdrMarshal(p) = <<64>>
  <2>1. (2 % 8) * 32 + 0 = 64
    OBVIOUS
  <2>2. MhdrMarshal(p) = <<(2 % 8) * 32 + 0>>
    BY <1>2, Zenon DEF MhdrMarshal
  <2>3. QED
    BY <2>1, <2>2, Zenon
<1>4. QED
  BY <1>1, <1>2, <1>3, Zenon DEF Plain

\* What the server makes of the frame of a device by its layout.
Readable(f, plain, dev, frm) ==
    /\ f \in Seq(Byte) /\ plain \in Seq(Byte) /\ Len(f) \in Nat /\ Len(plain) = Len(f) - MicLen
    /\ HeaderEnd(Tail(f)) = HeaderLen
    /\ SubSeq(f, 2, 1 + AddrLen) = Reversed(dev.addr)
    /\ SubSeq(f, 1, Len(f) - MicLen) = plain
    /\ SubSeq(f, Len(f) - MicLen + 1, Len(f)) = SignedCode
    /\ f[HeaderLen + 2] = dev.fPort
    /\ SubSeq(plain, HeaderLen + 3, Len(plain)) = frm

\* The server finds every part of the frame of a device at its place.
LEMMA UpFrame ==
    ASSUME NEW dev \in Device, NEW frm \in Seq(Byte)
    PROVE  Readable(Plain(UpPhy(dev, frm)) \o SignedCode, Plain(UpPhy(dev, frm)), dev, frm)
<1>1. PICK m \in MacPayload :
         /\ m = UpMac(dev, frm)
         /\ m.fPort # NoPort /\ m.fPort = dev.fPort /\ m.frm = frm /\ m.fOpts = <<>>
         /\ m.addr = dev.addr
  BY UpMacType DEF UpMac
<1>2. PICK data : data = MacMarshal(m) /\ LaidOut(data, m) /\ ReadBack(data, m)
  BY <1>1, MarshalLayout
<1>3. PICK alen \in Nat, size \in Nat : alen = AddrLen /\ alen > 0 /\ size = Len(frm)
  BY CodecAssumption, LenProperties
<1>4. HeaderLen = alen + 3
  BY <1>3 DEF HeaderLen
<1>5. /\ data \in Seq(Byte) /\ Len(data) = alen + 4 + size /\ HeaderEnd(data) = alen + 3
      /\ FOptsLen(data[alen + 1]) = 0 /\ data[alen + 4] = dev.fPort
  <2>1. /\ data \in Seq(Byte)
        /\ Len(data) = HeaderLen + Len(m.fOpts) + (IF m.fPort = NoPort THEN 0 ELSE 1) + Len(m.frm)
        /\ HeaderEnd(data) = HeaderLen + Len(m.fOpts)
        /\ FOptsLen(data[AddrLen + 1]) = Len(m.fOpts)
        /\ data[HeaderEnd(data) + 1] = m.fPort
    BY <1>1, <1>2, Zenon DEF LaidOut
  <2>2. Len(m.fOpts) = 0
    BY <1>1
  <2>3. HeaderEnd(data) = alen + 3
    BY <1>3, <1>4, <2>1, <2>2
  <2>4. HeaderEnd(data) + 1 = alen + 4
    BY <1>3, <2>3
  <2>5. Len(data) = alen + 3 + 0 + 1 + size
    BY <1>1, <1>3, <1>4, <2>1, <2>2, Zenon
  <2>6. alen + 3 + 0 + 1 + size = alen + 4 + size
    OBVIOUS
  <2>7. QED
    BY <1>1, <1>3, <2>1, <2>2, <2>3, <2>4, <2>5, <2>6, Zenon
<1>6. /\ Reversed(SubSeq(data, 1, alen)) = dev.addr
      /\ SubSeq(data, alen + 5, alen + 4 + size) = frm
  <2>1. MacUnmarshal(data).addr = m.addr /\ MacUnmarshal(data).frm = m.frm
    BY <1>2 DEF ReadBack, MacPayload
  <2>2. /\ MacUnmarshal(data).addr = Reversed(SubSeq(data, 1, AddrLen))
        /\ MacUnmarshal(data).frm = SubSeq(data, HeaderEnd(data) + 2, Len(data))
    BY DEF MacUnmarshal
  <2>3. (alen + 3) + 2 = alen + 5
    BY <1>3
  <2>4. QED
    BY <1>1, <1>3, <1>5, <2>1, <2>2, <2>3, Zenon
<1>7. PICK addr \in Seq(Byte) :
         /\ addr = Reversed(dev.addr) /\ Len(addr) = alen
         /\ \A i \in 1..alen : addr[i] = data[i]
  <2>1. PICK part : part = SubSeq(data, 1, alen)
    OBVIOUS
  <2>2. part \in Seq(Byte) /\ Len(part) = alen /\ \A i \in 1..alen : part[i] = data[i]
    BY <1>3, <1>5, <2>1
  <2>3. Reversed(dev.addr) = part
    BY <1>6, <2>1, <2>2, ReversedTwice, Zenon
  <2>4. QED
    BY <2>2, <2>3
<1>8. \A i \in 1..size : data[alen + 4 + i] = frm[i]
  <2>1. PICK from \in Nat, to \in Nat : from = alen + 5 /\ to = alen + 4 + size
    BY <1>3
  <2>2. \A i \in 1..(to - from + 1) : SubSeq(data, from, to)[i] = data[from + i - 1]
    BY <1>3, <1>5, <2>1
  <2>3. \A i \in 1..size : i \in 1..(to - from + 1) /\ from + i - 1 = alen + 4 + i
    BY <1>3, <2>1
  <2>4. SubSeq(data, from, to) = frm
    BY <1>6, <2>1, Zenon
  <2>5. QED
    BY <2>2, <2>3, <2>4
<1>9. PICK plain \in Seq(Byte), f \in Seq(Byte) :
         /\ plain = Plain(UpPhy(dev, frm)) /\ f = plain \o SignedCode
         /\ plain = <<64>> \o data /\ Len(plain) = Len(data) + 1
         /\ Sealed(f, 64, data, SignedCode)
  <2>1. 64 \in Byte
    BY DEF Byte
  <2>2. /\ <<64>> \o data \in Seq(Byte) /\ Len(<<64>> \o data) = Len(data) + 1
        /\ Sealed((<<64>> \o data) \o SignedCode, 64, data, SignedCode)
    BY <1>5, <2>1, CodeType, FrameParts, Zenon
  <2>3. Plain(UpPhy(dev, frm)) = <<64>> \o data
    BY <1>1, <1>2, UpPlainIs, Zenon
  <2>4. (<<64>> \o data) \o SignedCode \in Seq(Byte)
    BY <2>2, Zenon DEF Sealed
  <2>5. QED
    BY <2>2, <2>3, <2>4
<1>10. /\ f \in Seq(Byte) /\ Len(f) = alen + size + 9 /\ Len(plain) = alen + size + 5
       /\ \A i \in 1..(alen + 4 + size) : f[1 + i] = data[i]
       /\ SubSeq(f, Len(f) - MicLen + 1, Len(f)) = SignedCode
       /\ SubSeq(f, 1, Len(f) - MicLen) = plain
  <2>1. /\ f \in Seq(Byte) /\ Len(f) = Len(data) + 5
        /\ \A i \in 1..Len(data) : f[1 + i] = data[i]
        /\ SubSeq(f, Len(f) - MicLen + 1, Len(f)) = SignedCode
        /\ SubSeq(f, 1, Len(f) - MicLen) = plain
    BY <1>9, Zenon DEF Sealed
  <2>2. Len(f) = alen + size + 9 /\ Len(plain) = alen + size + 5
    BY <1>3, <1>5, <1>9, <2>1
  <2>3. QED
    BY <1>5, <2>1, <2>2, Zenon
<1>11. HeaderEnd(Tail(f)) = HeaderLen
  <2>1. Tail(f)[alen + 1] = f[1 + (alen + 1)]
    BY <1>3, <1>10
  <2>2. f[1 + (alen + 1)] = data[alen + 1]
    BY <1>3, <1>10
  <2>3. HeaderEnd(Tail(f)) = HeaderLen + 0
    BY <1>3, <1>5, <2>1, <2>2, Zenon DEF HeaderEnd
  <2>4. HeaderLen + 0 = HeaderLen
    BY <1>3, <1>4
  <2>5. QED
    BY <2>3, <2>4, Zenon
<1>12. SubSeq(f, 2, 1 + AddrLen) = addr
  <2>1. \A i \in 1..Len(addr) : f[1 + i] = addr[i]
    <3>1. ASSUME NEW i \in 1..alen PROVE f[1 + i] = addr[i]
      <4>1. i \in 1..(alen + 4 + size)
        BY <1>3
      <4>2. QED
        BY <1>7, <1>10, <4>1, Zenon
    <3>2. QED
      BY <1>7, <3>1, Zenon
  <2>2. 1 \in Nat /\ 1 + Len(addr) <= Len(f)
    BY <1>3, <1>7, <1>10
  <2>3. SubSeq(f, 1 + 1, 1 + Len(addr)) = addr
    BY <1>10, <2>1, <2>2, Slice
  <2>4. QED
    BY <1>3, <1>7, <2>3
<1>13. f[HeaderLen + 2] = dev.fPort
  <2>1. f[1 + (alen + 4)] = data[alen + 4]
    BY <1>3, <1>10
  <2>2. HeaderLen + 2 = 1 + (alen + 4)
    BY <1>3, <1>4
  <2>3. QED
    BY <1>5, <2>1, <2>2, Zenon
<1>14. SubSeq(plain, HeaderLen + 3, Len(plain)) = frm
  <2>1. PICK from \in Nat : from = alen + 5
    BY <1>3
  <2>2. ASSUME NEW i \in 1..Len(frm) PROVE plain[from + i] = frm[i]
    <3>1. alen + 4 + i \in 1..Len(data) /\ from + i = 1 + (alen + 4 + i)
      BY <1>3, <1>5, <2>1
    <3>2. plain[1 + (alen + 4 + i)] = data[alen + 4 + i]
      BY <1>5, <1>9, <3>1
    <3>3. QED
      BY <1>3, <1>8, <3>1, <3>2, Zenon
  <2>3. from + Len(frm) <= Len(plain) /\ from + Len(frm) = Len(plain) /\ from + 1 = HeaderLen + 3
    BY <1>3, <1>4, <1>10, <2>1
  <2>4. SubSeq(plain, from + 1, from + Len(frm)) = frm
    BY <2>2, <2>3, Slice
  <2>5. QED
    BY <2>3, <2>4, Zenon
<1>15. Len(f) \in Nat /\ Len(plain) = Len(f) - MicLen
  BY <1>3, <1>10 DEF MicLen
<1>16. Readable(f, plain, dev, frm)
  BY <1>7, <1>10, <1>11, <1>12, <1>13, <1>14, <1>15, Zenon DEF Readable
<1>17. QED
  BY <1>9, <1>16, Zenon
-----------------------------------------------------------------------------
(* The text on its way.                                                    *)

\* The text of some bytes, unharmed or harmed after h characters.
Carrying(t, f, h) ==
    \/ h = Unharmed /\ t = Base64Of(f)
    \/ /\ h \in Nat /\ h < Len(Base64Of(f))
       /\ t = SubSeq(Base64Of(f), 1, h) \/ t = [Base64Of(f) EXCEPT ![h + 1] = Foreign]

\* What is left of a text that is harmed.
Harmed(t, base, h) ==
    /\ t \in Seq(0..Foreign) /\ Len(t) \in Nat /\ h <= Len(t) /\ Len(t) <= Len(base)
    /\ \A i \in 1..h : t[i] = base[i]
    /\ h = Len(t) \/ t[h + 1] >= Pad

\* The beginning of a sequence.
LEMMA Prefix ==
    ASSUME NEW S, NEW s \in Seq(S), NEW n \in Nat, n <= Len(s)
    PROVE  /\ SubSeq(s, 1, n) \in Seq(S) /\ Len(SubSeq(s, 1, n)) = n
           /\ \A i \in 1..n : SubSeq(s, 1, n)[i] = s[i]
OBVIOUS

\* A text HarmText has been at is one.
LEMMA HarmedText ==
    ASSUME NEW base \in Seq(0..Foreign), NEW h \in Nat, NEW t
    PROVE  /\ h < Len(base)
           /\ t = SubSeq(base, 1, h) \/ t = [base EXCEPT ![h + 1] = Foreign]
           => Harmed(t, base, h)
<1> SUFFICES ASSUME h < Len(base), t = SubSeq(base, 1, h) \/ t = [base EXCEPT ![h + 1] = Foreign]
             PROVE  Harmed(t, base, h)
  OBVIOUS
<1>1. PICK len \in Nat : len = Len(base) /\ h < len
  BY LenProperties
<1>2. CASE t = SubSeq(base, 1, h)
  <2>1. PICK s : s = SubSeq(base, 1, h)
    OBVIOUS
  <2>2. s \in Seq(0..Foreign) /\ Len(s) = h /\ \A i \in 1..h : s[i] = base[i]
    <3>1. h <= Len(base)
      BY <1>1
    <3>2. QED
      BY <2>1, <3>1, Prefix, Zenon
  <2>3. h <= Len(s) /\ Len(s) \in Nat /\ Len(s) <= Len(base)
    BY <1>1, <2>2
  <2>4. QED
    BY <1>2, <2>1, <2>2, <2>3, Zenon DEF Harmed
<1>3. CASE t = [base EXCEPT ![h + 1] = Foreign]
  <2>1. PICK s : s = [base EXCEPT ![h + 1] = Foreign]
    OBVIOUS
  <2>2. Foreign \in 0..Foreign /\ Foreign >= Pad
    BY DEF Foreign, Pad
  <2>3. h + 1 \in 1..len
    BY <1>1
  <2>4. base \in [1..len -> 0..Foreign]
    BY <1>1, LenProperties
  <2>5. s \in [1..len -> 0..Foreign] /\ s[h + 1] = Foreign /\ \A i \in 1..h : s[i] = base[i]
    BY <2>1, <2>2, <2>3, <2>4
  <2>6. s \in Seq(0..Foreign) /\ Len(s) = len
    BY <2>5, FunctionIsSeq
  <2>7. h <= Len(s) /\ Len(s) \in Nat /\ Len(s) <= Len(base)
    BY <1>1, <2>6
  <2>8. QED
    BY <1>3, <2>1, <2>2, <2>5, <2>6, <2>7, Zenon DEF Harmed
<1>4. QED
  BY <1>2, <1>3

\* What decodes of a text, harmed or not.
LEMMA TextDecoded ==
    ASSUME NEW f \in Seq(Byte), NEW t, NEW h, Carrying(t, f, h)
    PROVE  /\ t \in Seq(0..Foreign)
           /\ Decode(t) = IF h = Unharmed \/ h >= CharCount(Len(f)) THEN f
                          ELSE SubSeq(f, 1, (6 * h) \div 8)
<1>1. PICK len \in Nat : len = Len(f)
  BY LenProperties
<1>2. PICK n \in Nat : n = CharCount(Len(f)) /\ (6 * n) \div 8 = len
  BY <1>1 DEF CharCount
<1>3. PICK base : base = Base64Of(f)
  OBVIOUS
<1>4. /\ Len(base) \in Nat /\ n <= Len(base) /\ base \in Seq(0..Foreign)
      /\ \A i \in 1..n : base[i] = Sextet(f, i)
      /\ \A i \in (n + 1)..Len(base) : base[i] = Pad
  BY <1>2, <1>3, Base64Text, Zenon DEF IsBase64, Bytes
<1>5. CASE h = Unharmed
  <2>1. t = base
    BY <1>3, <1>5 DEF Carrying, Unharmed
  <2>2. Decode(t) = f
    BY <1>3, <2>1, DecodeIsInverse, Zenon DEF Bytes
  <2>3. QED
    BY <1>4, <1>5, <2>1, <2>2, Zenon
<1>6. CASE h # Unharmed
  <2>1. /\ h \in Nat /\ h < Len(base)
        /\ t = SubSeq(base, 1, h) \/ t = [base EXCEPT ![h + 1] = Foreign]
    BY <1>3, <1>6, Zenon DEF Carrying
  <2>2. Harmed(t, base, h)
    BY <1>4, <2>1, HarmedText, Zenon
  <2>3. /\ t \in Seq(0..Foreign) /\ Len(t) \in Nat /\ h <= Len(t) /\ Len(t) <= Len(base)
        /\ \A i \in 1..h : t[i] = base[i]
        /\ h = Len(t) \/ t[h + 1] >= Pad
    BY <2>2, Zenon DEF Harmed
  <2>4. PICK m \in Nat : m = IF h >= n THEN n ELSE h
    BY <2>1
  <2>5. m <= h /\ m <= n
    BY <2>1, <2>4
  <2>6. Carries(t, f, m)
    <3>1. ASSUME NEW i \in 1..m PROVE t[i] = Sextet(f, i)
      <4>1. i \in 1..h /\ i \in 1..n
        BY <2>1, <2>5
      <4>2. QED
        BY <1>4, <2>3, <4>1, Zenon
    <3>2. m <= Len(t)
      BY <2>1, <2>3, <2>5
    <3>3. QED
      BY <2>3, <3>1, <3>2, Zenon DEF Carries
  <2>7. m = Len(t) \/ t[m + 1] >= Pad
    <3>1. CASE h <= n
      <4>1. m = h
        BY <2>1, <2>4, <3>1
      <4>2. QED
        BY <2>3, <4>1, Zenon
    <3>2. CASE ~(h <= n)
      <4>1. m = n /\ n + 1 \in 1..h /\ n + 1 \in (n + 1)..Len(base)
        BY <1>4, <2>1, <2>3, <2>4, <3>2
      <4>2. t[m + 1] = Pad
        BY <1>4, <2>3, <4>1, Zenon
      <4>3. Pad >= Pad
        BY DEF Pad
      <4>4. QED
        BY <4>2, <4>3, Zenon
    <3>3. QED
      BY <3>1, <3>2
  <2>8. Decode(t) = SubSeq(f, 1, (6 * m) \div 8)
    <3>1. m <= CharCount(Len(f))
      BY <1>2, <2>5, Zenon
    <3>2. QED
      BY <2>6, <2>7, <3>1, DecodeIsPrefix, Zenon DEF Bytes
  <2>9. CASE h >= n
    <3>1. Decode(t) = SubSeq(f, 1, len)
      BY <1>2, <2>4, <2>8, <2>9, Zenon
    <3>2. SubSeq(f, 1, len) = f
      BY <1>1
    <3>3. QED
      BY <1>2, <2>3, <2>9, <3>1, <3>2, Zenon
  <2>10. CASE ~(h >= n)
    BY <1>2, <1>6, <2>3, <2>4, <2>8, <2>10, Zenon
  <2>11. QED
    BY <2>9, <2>10, Zenon
<1>7. QED
  BY <1>5, <1>6, Zenon

-----------------------------------------------------------------------------
(* The inductive invariant.                                                *)

\* A device is as init made it, but for the counter of the frame it has sent.
DeviceInv ==
    pc \notin {"init", "threw"} =>
        /\ ~Refused
        /\ device = IF pc \in {"sent", "read"} THEN [Made(self) EXCEPT !.fCntUp = @ + 1]
                    ELSE Made(self)

\* What is on the air of an uplink.
UpInv ==
    pc \in {"sent", "read"} =>
        /\ stream = UpStream(Made(self))
        /\ signed = UpSigned(Made(self))
        /\ frame = Plain(UpSealed(Made(self))) \o SignedCode
        /\ text = Base64Of(frame)

\* What is on the air of a downlink.
DownInv ==
    pc \in {"answered", "taken"} =>
        /\ stream = DownStream(target, down)
        /\ signed = DownSigned(target, down)
        /\ frame = DownPlain(target, down) \o SignedCode
        /\ Carrying(text, frame, harmed)

\* Nothing is harmed before it is sent, and there is no result before the end.
EarlyInv ==
    /\ pc \notin {"answered", "taken"} => harmed = Unharmed
    /\ pc \notin {"read", "taken"} => result = Nothing

Inv == TypeOK /\ DeviceInv /\ UpInv /\ DownInv /\ EarlyInv

\* The file is never written, so that neither is what follows from it.
LEMMA SameMade ==
    ASSUME file' = file, NEW CONSTANT k, self' = k
    PROVE  Made(self)' = Made(k)
<1>1. FirstAddr' = FirstAddr
  BY Zenon DEF FirstAddr
<1>2. QED
  BY <1>1, Zenon DEF Made

\* The file is refused or not, once and for all.
LEMMA SameRefused ==
    ASSUME file' = file
    PROVE  Refused' <=> Refused
BY Zenon DEF Refused, NarrowPort

\* What the server computes with is never written either.
LEMMA SameDown ==
    ASSUME file' = file, NEW CONSTANT k, NEW CONSTANT d, target' = k, down' = d
    PROVE  /\ DownStream(target, down)' = DownStream(k, d)
           /\ DownPlain(target, down)' = DownPlain(k, d)
           /\ DownSigned(target, down)' = DownSigned(k, d)
<1>1. Registered(target)' = Registered(k)
  BY Zenon DEF Registered
<1>2. DownAddr(target)' = DownAddr(k)
  BY <1>1, Zenon DEF DownAddr
<1>3. DownStream(target, down)' = DownStream(k, d)
  BY <1>1, <1>2, Zenon DEF DownStream
<1>4. DownPlain(target, down)' = DownPlain(k, d)
  BY <1>2, <1>3 DEF DownPlain
<1>5. DownSigned(target, down)' = DownSigned(k, d)
  BY <1>1, <1>2, <1>4, Zenon DEF DownSigned
<1>6. QED
  BY <1>3, <1>4, <1>5, Zenon

\* Nor what the device does.
LEMMA SameUp ==
    ASSUME NEW CONSTANT dev, Made(self)' = dev
    PROVE  /\ UpStream(Made(self))' = UpStream(dev)
           /\ UpSigned(Made(self))' = UpSigned(dev)
           /\ Plain(UpSealed(Made(self)))' = Plain(UpSealed(dev))
OBVIOUS

\* The parts of TypeOK about a device.
DeviceOK(dev) ==
    /\ dev.addr \in [1..AddrLen -> Byte]
    /\ \A key \in {dev.nwk, dev.app} : key.hi \in 0..(Word - 1) /\ key.lo \in 0..(Word - 1)
    /\ dev.fPort \in Byte /\ dev.fCntUp \in Nat

\* The settings of a device one by one.
LEMMA DeviceParts ==
    ASSUME NEW dev \in Device
    PROVE  /\ DeviceOK(dev) /\ DeviceOK([dev EXCEPT !.fCntUp = @ + 1])
           /\ [dev EXCEPT !.fCntUp = @ + 1].fCntUp - 1 = dev.fCntUp
<1>1. /\ dev.addr \in [1..AddrLen -> Byte] /\ dev.nwk \in Key /\ dev.app \in Key
      /\ dev.fPort \in Byte /\ dev.fCntUp \in Nat
  BY DEF Device
<1>2. \A key \in {dev.nwk, dev.app} : key.hi \in 0..(Word - 1) /\ key.lo \in 0..(Word - 1)
  BY <1>1 DEF Key
<1>3. PICK next : next = [dev EXCEPT !.fCntUp = @ + 1]
  OBVIOUS
<1>4. /\ next.addr = dev.addr /\ next.nwk = dev.nwk /\ next.app = dev.app
      /\ next.fPort = dev.fPort /\ next.fCntUp = dev.fCntUp + 1
  BY <1>3 DEF Device
<1>5. next.fCntUp \in Nat /\ next.fCntUp - 1 = dev.fCntUp
  BY <1>1, <1>4
<1>6. DeviceOK(dev)
  BY <1>1, <1>2, Zenon DEF DeviceOK
<1>7. DeviceOK(next)
  BY <1>1, <1>2, <1>4, <1>5, Zenon DEF DeviceOK
<1>8. QED
  BY <1>3, <1>5, <1>6, <1>7, Zenon

\* The invariant holds at first, and every action keeps it.
LEMMA InitInv == Init => Inv
<1> SUFFICES ASSUME Init PROVE Inv
  OBVIOUS
<1>1. file \in Files /\ file.nwk \in Key /\ file.app \in Key
  BY FileType DEF Init
<1>2. DeviceOK(device)
  <2>1. PICK addr : addr = EmptyMac.addr
    OBVIOUS
  <2>2. addr \in [1..AddrLen -> Byte]
    BY <2>1, EmptyMacType DEF MacPayload
  <2>3. device = [addr |-> addr, nwk |-> file.nwk, app |-> file.app, fPort |-> 0, fCntUp |-> 0]
    BY <2>1, Zenon DEF Init
  <2>4. device \in Device
    BY <1>1, <2>2, <2>3 DEF Device, Byte
  <2>5. QED
    BY <2>4, DeviceParts
<1>3. down \in Downlinks
  <2>1. Downlinks # {}
    BY SessionAssumption, Zenon
  <2>2. QED
    BY <2>1, Zenon DEF Init
<1>4. self \in 0..(DeviceCount - 1) /\ target \in 0..(DeviceCount - 1)
  BY Widths DEF Init
<1>5. <<>> \in Seq(Byte) /\ <<>> \in Seq(0..Foreign) /\ 0 \in Byte
  BY DEF Byte
<1>6. result.kind \in Kinds /\ result.port \in Byte /\ result.data \in Seq(Byte)
  <2>1. result = [kind |-> "none", port |-> 0, data |-> <<>>]
    BY Zenon DEF Init, Nothing
  <2>2. QED
    BY <1>5, <2>1 DEF Kinds
<1>7. TypeOK
  BY <1>1, <1>2, <1>3, <1>4, <1>5, <1>6, Zenon DEF TypeOK, DeviceOK, Init, Pcs
<1>8. QED
  BY <1>7 DEF Inv, DeviceInv, UpInv, DownInv, EarlyInv, Init

\* init refuses the file.
LEMMA InitThrowsInv ==
    ASSUME Inv, InitThrows
    PROVE  Inv'
<1>1. /\ pc = "init" /\ pc' = "threw"
      /\ UNCHANGED <<file, self, device, target, down, signed, stream, frame, text, harmed, result>>
  BY DEF InitThrows, channelVars
<1>2. TypeOK'
  BY <1>1 DEF Inv, TypeOK, Pcs
<1>3. DeviceInv' /\ UpInv' /\ DownInv'
  BY <1>1 DEF DeviceInv, UpInv, DownInv
<1>4. EarlyInv'
  BY <1>1 DEF Inv, EarlyInv
<1>5. QED
  BY <1>2, <1>3, <1>4, Zenon DEF Inv

\* init makes the device.
LEMMA MakeDeviceInv ==
    ASSUME Inv, NEW CONSTANT k \in 0..(DeviceCount - 1), MakeDevice(k)
    PROVE  Inv'
<1>1. /\ pc = "init" /\ pc' = "idle" /\ ~Refused /\ self' = k /\ device' = Made(k)
      /\ UNCHANGED <<file, target, down, signed, stream, frame, text, harmed, result>>
  BY DEF MakeDevice, channelVars
<1>2. TypeOK'
  <2>1. DeviceOK(device')
    <3>1. Made(k) \in Device
      BY <1>1, MadeType DEF Inv, TypeOK
    <3>2. QED
      BY <1>1, <3>1, DeviceParts, Zenon
  <2>2. QED
    BY <1>1, <2>1 DEF Inv, TypeOK, Pcs, DeviceOK
<1>3. DeviceInv'
  <2>1. Made(self)' = Made(k) /\ (Refused' <=> Refused)
    BY <1>1, SameMade, SameRefused
  <2>2. QED
    BY <1>1, <2>1 DEF DeviceInv
<1>4. UpInv' /\ DownInv'
  BY <1>1 DEF UpInv, DownInv
<1>5. EarlyInv'
  BY <1>1 DEF Inv, EarlyInv
<1>6. QED
  BY <1>2, <1>3, <1>4, <1>5, Zenon DEF Inv

\* What has been sent can be read.
LEMMA SealedType ==
    ASSUME NEW dev \in Device
    PROVE  /\ Cipher(Payload, UpStream(dev), UpStream(dev)) \in Seq(Byte)
           /\ Readable(Plain(UpSealed(dev)) \o SignedCode, Plain(UpSealed(dev)), dev,
                       Cipher(Payload, UpStream(dev), UpStream(dev)))
<1>1. Payload \in Seq(Byte)
  BY SessionAssumption, Zenon
<1>2. Cipher(Payload, UpStream(dev), UpStream(dev)) \in Seq(Byte)
  BY <1>1, CipherType
<1>3. QED
  BY <1>2, UpFrame, Zenon DEF UpSealed

\* The device sends.
LEMMA SendDataInv ==
    ASSUME Inv, SendData
    PROVE  Inv'
<1>1. /\ pc = "idle" /\ pc' = "sent"
      /\ stream' = UpStream(device) /\ signed' = UpSigned(device)
      /\ frame' = Plain(UpSealed(device)) \o SignedCode
      /\ text' = Encode(frame')
      /\ device' = [device EXCEPT !.fCntUp = @ + 1]
      /\ UNCHANGED <<file, self, target, down, harmed, result>>
  BY DEF SendData, Cmac
<1>2. file \in Files /\ self \in 0..(DeviceCount - 1) /\ ~Refused /\ device = Made(self)
  BY <1>1 DEF Inv, TypeOK, DeviceInv
<1>3. PICK k : k = self
  OBVIOUS
<1>4. PICK dev \in Device : dev = Made(k) /\ dev = device
  BY <1>2, <1>3, MadeType
<1>5. PICK f \in Seq(Byte) : f = frame'
  <2>1. Plain(UpSealed(dev)) \o SignedCode \in Seq(Byte)
    BY SealedType, Zenon DEF Readable
  <2>2. QED
    BY <1>1, <1>4, <2>1
<1>6. text' = Base64Of(f) /\ text' \in Seq(0..Foreign)
  <2>1. Encode(f) = Base64Of(f) /\ IsBase64(Base64Of(f), f, CharCount(Len(f)))
    BY EncodeIsBase64, Base64Text, Zenon DEF Bytes
  <2>2. QED
    BY <1>1, <1>5, <2>1, Zenon DEF IsBase64
<1>7. TypeOK'
  <2>1. DeviceOK(device')
    BY <1>1, <1>4, DeviceParts, Zenon
  <2>2. QED
    BY <1>1, <1>5, <1>6, <2>1 DEF Inv, TypeOK, Pcs, DeviceOK
<1>8. Made(self)' = dev /\ (Refused' <=> Refused)
  BY <1>1, <1>3, <1>4, SameMade, SameRefused
<1>9. DeviceInv'
  BY <1>1, <1>2, <1>4, <1>8, Zenon DEF DeviceInv
<1>10. UpInv'
  <2>1. /\ UpStream(Made(self))' = UpStream(dev)
        /\ UpSigned(Made(self))' = UpSigned(dev)
        /\ Plain(UpSealed(Made(self)))' = Plain(UpSealed(dev))
    BY <1>8, SameUp
  <2>2. QED
    BY <1>1, <1>4, <1>5, <1>6, <2>1, Zenon DEF UpInv
<1>11. DownInv' /\ EarlyInv'
  BY <1>1 DEF Inv, EarlyInv, DownInv
<1>12. QED
  BY <1>7, <1>9, <1>10, <1>11, Zenon DEF Inv

\* The server sends.
LEMMA ServerSendsInv ==
    ASSUME Inv, NEW CONSTANT k \in 0..(DeviceCount - 1), NEW CONSTANT d \in Downlinks,
           ServerSends(k, d)
    PROVE  Inv'
<1>1. /\ pc = "idle" /\ pc' = "answered"
      /\ stream' = DownStream(k, d) /\ signed' = DownSigned(k, d)
      /\ frame' = DownPlain(k, d) \o SignedCode
      /\ text' = Base64Of(frame') /\ target' = k /\ down' = d
      /\ UNCHANGED <<file, self, device, harmed, result>>
  BY DEF ServerSends
<1>2. file \in Files /\ ~Refused /\ device = Made(self) /\ harmed = Unharmed /\ result = Nothing
  BY <1>1 DEF Inv, TypeOK, DeviceInv, EarlyInv
<1>3. PICK f \in Seq(Byte) : f = frame'
  <2>1. DownPlain(k, d) \o SignedCode \in Seq(Byte)
    BY <1>2, DownFrame, Zenon DEF Sealed
  <2>2. QED
    BY <1>1, <2>1
<1>4. text' = Base64Of(f) /\ text' \in Seq(0..Foreign)
  <2>1. IsBase64(Base64Of(f), f, CharCount(Len(f)))
    BY Base64Text, Zenon DEF Bytes
  <2>2. QED
    BY <1>1, <1>3, <2>1, Zenon DEF IsBase64
<1>5. TypeOK'
  BY <1>1, <1>3, <1>4 DEF Inv, TypeOK, Pcs
<1>6. DeviceInv'
  <2>1. PICK i : i = self
    OBVIOUS
  <2>2. Made(self)' = Made(i) /\ (Refused' <=> Refused)
    BY <1>1, <2>1, SameMade, SameRefused
  <2>3. pc' \notin {"sent", "read"}
    BY <1>1
  <2>4. QED
    BY <1>1, <1>2, <2>1, <2>2, <2>3, Zenon DEF DeviceInv
<1>7. DownInv'
  <2>1. /\ DownStream(target, down)' = DownStream(k, d)
        /\ DownPlain(target, down)' = DownPlain(k, d)
        /\ DownSigned(target, down)' = DownSigned(k, d)
    BY <1>1, SameDown
  <2>2. Carrying(text, frame, harmed)'
    BY <1>1, <1>2, Zenon DEF Carrying
  <2>3. QED
    BY <1>1, <2>1, <2>2, Zenon DEF DownInv
<1>8. UpInv' /\ EarlyInv'
  BY <1>1, <1>2 DEF UpInv, EarlyInv
<1>9. QED
  BY <1>5, <1>6, <1>7, <1>8, Zenon DEF Inv

\* The text is harmed.
LEMMA HarmTextInv ==
    ASSUME Inv, NEW CONSTANT n \in Cuts, HarmText(n)
    PROVE  Inv'
<1>1. /\ pc = "answered" /\ harmed = Unharmed /\ n < Len(text) /\ harmed' = n
      /\ text' = SubSeq(text, 1, n) \/ text' = [text EXCEPT ![n + 1] = Foreign]
      /\ UNCHANGED <<file, pc, self, device, target, down, signed, stream, frame, result>>
  BY DEF HarmText
<1>2. n \in Nat
  BY SessionAssumption
<1>3. text = Base64Of(frame)
  BY <1>1 DEF Inv, DownInv, Carrying, Unharmed
<1>4. Carrying(text, frame, harmed)'
  BY <1>1, <1>2, <1>3, Zenon DEF Carrying
<1>5. text' \in Seq(0..Foreign)
  <2>1. PICK f \in Seq(Byte) : f = frame
    BY DEF Inv, TypeOK
  <2>2. Carrying(text', f, n)
    BY <1>1, <1>4, <2>1, Zenon
  <2>3. QED
    BY <2>2, TextDecoded, Zenon
<1>6. TypeOK'
  BY <1>1, <1>2, <1>5 DEF Inv, TypeOK
<1>7. PICK i, k, d : i = self /\ k = target /\ d = down
  OBVIOUS
<1>8. DeviceInv'
  <2>1. Made(self)' = Made(i) /\ (Refused' <=> Refused)
    BY <1>1, <1>7, SameMade, SameRefused
  <2>2. pc' \notin {"sent", "read"} /\ pc \notin {"sent", "read"} /\ pc \notin {"init", "threw"}
    BY <1>1
  <2>3. QED
    BY <1>1, <1>7, <2>1, <2>2, Zenon DEF Inv, DeviceInv
<1>9. DownInv'
  <2>1. /\ DownStream(target, down)' = DownStream(k, d)
        /\ DownPlain(target, down)' = DownPlain(k, d)
        /\ DownSigned(target, down)' = DownSigned(k, d)
    BY <1>1, <1>7, SameDown
  <2>2. pc \in {"answered", "taken"}
    BY <1>1
  <2>3. QED
    BY <1>1, <1>4, <1>7, <2>1, <2>2, Zenon DEF Inv, DownInv
<1>10. UpInv' /\ EarlyInv'
  BY <1>1 DEF Inv, UpInv, EarlyInv
<1>11. QED
  BY <1>6, <1>8, <1>9, <1>10, Zenon DEF Inv

\* The device takes a frame, whatever it makes of it.
LEMMA TakenInv ==
    ASSUME Inv, NEW CONSTANT kind \in Kinds, NEW CONSTANT port \in Byte,
           NEW CONSTANT data \in Seq(Byte), Taken(kind, port, data)
    PROVE  Inv'
<1>1. /\ pc = "answered" /\ pc' = "taken"
      /\ result' = [kind |-> kind, port |-> port, data |-> data]
      /\ UNCHANGED <<file, self, device, target, down, signed, stream, frame, text, harmed>>
  BY DEF Taken, channelVars
<1>2. TypeOK'
  BY <1>1 DEF Inv, TypeOK, Pcs
<1>3. PICK i, k, d : i = self /\ k = target /\ d = down
  OBVIOUS
<1>4. DeviceInv'
  <2>1. Made(self)' = Made(i) /\ (Refused' <=> Refused)
    BY <1>1, <1>3, SameMade, SameRefused
  <2>2. pc' \notin {"sent", "read"} /\ pc \notin {"sent", "read"} /\ pc \notin {"init", "threw"}
    BY <1>1
  <2>3. QED
    BY <1>1, <1>3, <2>1, <2>2, Zenon DEF Inv, DeviceInv
<1>5. DownInv'
  <2>1. /\ DownStream(target, down)' = DownStream(k, d)
        /\ DownPlain(target, down)' = DownPlain(k, d)
        /\ DownSigned(target, down)' = DownSigned(k, d)
    BY <1>1, <1>3, SameDown
  <2>2. pc \in {"answered", "taken"}
    BY <1>1
  <2>3. Carrying(text, frame, harmed)'
    BY <1>1, <2>2, Zenon DEF Inv, DownInv, Carrying
  <2>4. QED
    BY <1>1, <1>3, <2>1, <2>2, <2>3, Zenon DEF Inv, DownInv
<1>6. UpInv' /\ EarlyInv'
  BY <1>1 DEF Inv, UpInv, EarlyInv
<1>7. QED
  BY <1>2, <1>4, <1>5, <1>6, Zenon DEF Inv

\* The bytes that come out of the text.
LEMMA ReceivedType ==
    ASSUME Inv, pc \in {"answered", "taken"}
    PROVE  /\ frame \in Seq(Byte) /\ Received \in Seq(Byte)
           /\ Received = IF Whole THEN frame ELSE SubSeq(frame, 1, (6 * harmed) \div 8)
<1>1. PICK f \in Seq(Byte) : f = frame
  BY DEF Inv, TypeOK
<1>2. Carrying(text, f, harmed)
  BY <1>1 DEF Inv, DownInv
<1>3. Decode(text) = IF harmed = Unharmed \/ harmed >= CharCount(Len(f)) THEN f
                     ELSE SubSeq(f, 1, (6 * harmed) \div 8)
  BY <1>2, TextDecoded, Zenon
<1>4. Received = IF Whole THEN frame ELSE SubSeq(frame, 1, (6 * harmed) \div 8)
  BY <1>1, <1>3, Zenon DEF Received, Whole
<1>5. ASSUME ~Whole PROVE SubSeq(frame, 1, (6 * harmed) \div 8) \in Seq(Byte)
  <2>1. PICK len \in Nat : len = Len(f)
    BY LenProperties
  <2>2. PICK h \in Nat : h = harmed /\ ~(h >= CharCount(len))
    BY <1>1, <1>5, <2>1 DEF Inv, TypeOK, Whole
  <2>3. PICK m \in Nat : m = (6 * h) \div 8 /\ m <= len
    BY <2>2 DEF CharCount
  <2>4. SubSeq(f, 1, m) \in Seq(Byte)
    BY <2>1, <2>3, Prefix, Zenon
  <2>5. QED
    BY <1>1, <2>2, <2>3, <2>4, Zenon
<1>6. QED
  BY <1>1, <1>4, <1>5, Zenon
-----------------------------------------------------------------------------
(* What unmarshal makes of bytes.                                          *)

\* A part of a sequence of bytes that ends within it.
LEMMA Part ==
    ASSUME NEW s \in Seq(Byte), NEW m \in Nat \ {0}, NEW n \in Nat, n <= Len(s)
    PROVE  SubSeq(s, m, n) \in Seq(Byte)
<1>1. PICK len \in Nat : len = Len(s)
  BY LenProperties
<1>2. CASE m <= n
  BY <1>1, <1>2, SubSeqProperties
<1>3. CASE ~(m <= n)
  <2>1. SubSeq(s, m, n) = <<>>
    BY <1>1, <1>3
  <2>2. QED
    BY <2>1
<1>4. QED
  BY <1>2, <1>3

\* The port and the payload of a mac_payload that is read.
LEMMA MacType ==
    ASSUME NEW data \in Seq(Byte), ~MacUnmarshalThrows(data)
    PROVE  /\ MacUnmarshal(data).fPort \in Byte \union {NoPort}
           /\ MacUnmarshal(data).frm \in Seq(Byte)
<1>1. PICK len \in Nat, end \in Nat : len = Len(data) /\ end = HeaderEnd(data) /\ end <= len
  BY OptionsRead
<1>2. MacUnmarshal(data).fPort \in Byte \union {NoPort}
  <2>1. MacUnmarshal(data).fPort = IF len > end THEN data[end + 1] ELSE NoPort
    BY <1>1, Zenon DEF MacUnmarshal
  <2>2. ASSUME len > end PROVE data[end + 1] \in Byte
    <3>1. end + 1 \in 1..len
      BY <1>1, <2>2
    <3>2. QED
      BY <1>1, <3>1, ElementOfSeq
  <2>3. QED
    BY <2>1, <2>2
<1>3. MacUnmarshal(data).frm \in Seq(Byte)
  <2>1. MacUnmarshal(data).frm = SubSeq(data, end + 2, len)
    BY <1>1 DEF MacUnmarshal
  <2>2. end + 2 \in Nat \ {0} /\ len <= Len(data)
    BY <1>1
  <2>3. QED
    BY <2>1, <2>2, Part, Zenon
<1>4. QED
  BY <1>2, <1>3

\* A frame of data that is read: its mac_payload, and its code of four bytes.
LEMMA DataPhy ==
    ASSUME NEW data \in Seq(Byte), ~PhyUnmarshalThrows(data), MType(data[1]) \notin Unsupported
    PROVE  /\ MacBytes(data) \in Seq(Byte) /\ Len(MacBytes(data)) = Len(data) - 5
           /\ ~MacUnmarshalThrows(MacBytes(data))
           /\ PhyUnmarshal(data).mac = MacUnmarshal(MacBytes(data))
           /\ PhyUnmarshal(data).mic # <<>>
<1>1. PICK len \in Nat : len = Len(data)
  BY LenProperties
<1>2. len >= 5 /\ ~MacUnmarshalThrows(MacBytes(data))
  <2>1. ~(len < 1 + MicLen) /\ ~MacUnmarshalThrows(MacBytes(data))
    BY <1>1, Zenon DEF PhyUnmarshalThrows
  <2>2. QED
    BY <1>1, <2>1 DEF MicLen
<1>3. MacBytes(data) \in Seq(Byte) /\ Len(MacBytes(data)) = len - 5
  <2>1. PICK n \in Nat : n = len - 4 /\ n >= 1 /\ n <= len
    BY <1>2
  <2>2. SubSeq(data, 2, n) \in Seq(Byte)
    BY <1>1, <2>1, Part
  <2>3. Len(SubSeq(data, 2, n)) = n - 1
    BY <1>1, <2>1
  <2>4. MacBytes(data) = SubSeq(data, 2, n)
    BY <1>1, <2>1 DEF MacBytes, MicLen
  <2>5. QED
    BY <2>1, <2>2, <2>3, <2>4
<1>4. PhyUnmarshal(data).mac = MacUnmarshal(MacBytes(data))
  BY DEF PhyUnmarshal
<1>5. PhyUnmarshal(data).mic # <<>>
  <2>1. PICK m \in Nat : m = len - 3 /\ m >= 2
    BY <1>2
  <2>2. Len(SubSeq(data, m, len)) = 4
    BY <1>1, <1>2, <2>1
  <2>3. PhyUnmarshal(data).mic = SubSeq(data, Len(data) - MicLen + 1, Len(data))
    BY DEF PhyUnmarshal
  <2>4. Len(data) - MicLen + 1 = m
    BY <1>1, <2>1 DEF MicLen
  <2>5. PhyUnmarshal(data).mic = SubSeq(data, m, len)
    BY <1>1, <2>3, <2>4, Zenon
  <2>6. Len(PhyUnmarshal(data).mic) = 4
    BY <2>2, <2>5, Zenon
  <2>7. Len(<<>>) # 4
    OBVIOUS
  <2>8. QED
    BY <2>6, <2>7, Zenon
<1>6. QED
  BY <1>1, <1>2, <1>3, <1>4, <1>5, Zenon

\* Both types of data have a mac_payload.
LEMMA DataTypes == {UnconfirmedDataDown, ConfirmedDataDown} \intersect Unsupported = {}
BY DEF UnconfirmedDataDown, ConfirmedDataDown, Unsupported, JoinRequest, JoinAccept,
       RejoinRequest, Proprietary

\* A frame of data that the device has received.
LEMMA DataReceived ==
    ASSUME Inv, pc = "answered", IsDataDown
    PROVE  /\ Received \in Seq(Byte) /\ Phy = PhyUnmarshal(Received)
           /\ MacBytes(Received) \in Seq(Byte) /\ Len(MacBytes(Received)) = Len(Received) - 5
           /\ ~MacUnmarshalThrows(MacBytes(Received))
           /\ Phy.mac = MacUnmarshal(MacBytes(Received))
           /\ Phy.mic # <<>>
           /\ Phy.mType \in {UnconfirmedDataDown, ConfirmedDataDown}
<1>1. ~PhyUnmarshalThrows(Received) /\ Phy.mType \in {UnconfirmedDataDown, ConfirmedDataDown}
  BY DEF IsDataDown, Decodable
<1>2. PICK data \in Seq(Byte) : data = Received
  BY ReceivedType
<1>3. Phy = PhyUnmarshal(data)
  BY <1>2, Zenon DEF Phy
<1>4. Phy.mType = MType(data[1])
  BY <1>3 DEF PhyUnmarshal
<1>5. MType(data[1]) \notin Unsupported
  BY <1>1, <1>4, DataTypes
<1>6. QED
  BY <1>1, <1>2, <1>3, <1>5, DataPhy, Zenon

\* The device handles data.
LEMMA HandleDataInv ==
    ASSUME Inv, HandleData
    PROVE  Inv'
<1>1. pc = "answered" /\ IsDataDown
  BY DEF HandleData, Taken
<1>2. PICK mac : mac = Phy.mac /\ mac.fPort \in Byte \union {NoPort} /\ mac.frm \in Seq(Byte)
  BY <1>1, DataReceived, MacType
<1>3. 0 \in Byte /\ <<>> \in Seq(Byte) /\ "handled" \in Kinds
  BY DEF Byte, Kinds
<1>4. CASE mac.fPort \in {NoPort, 0}
  <2>1. Taken("handled", 0, <<>>)
    BY <1>2, <1>4, Zenon DEF HandleData
  <2>2. QED
    BY <1>3, <2>1, TakenInv
<1>5. CASE mac.fPort \notin {NoPort, 0}
  <2>1. PICK port \in Byte : port = mac.fPort
    BY <1>2, <1>5
  <2>2. PICK data \in Seq(Byte) : data = Cipher(Phy.mac.frm, StreamOf(Phy, device.app), stream)
    BY <1>2, CipherType
  <2>3. Taken("handled", port, data)
    BY <1>2, <1>5, <2>1, <2>2, Zenon DEF HandleData
  <2>4. QED
    BY <1>3, <2>3, TakenInv
<1>6. QED
  BY <1>4, <1>5

\* It handles nothing else.
LEMMA OtherFramesInv ==
    ASSUME Inv,
           \/ HandleUndecodable \/ HandleJoinAccept \/ HandleUnexpected \/ HandleInvalid
    PROVE  Inv'
<1>1. PICK kind \in Kinds : Taken(kind, 0, <<>>)
  BY DEF HandleUndecodable, HandleJoinAccept, HandleUnexpected, HandleInvalid, Kinds
<1>2. 0 \in Byte /\ <<>> \in Seq(Byte)
  BY DEF Byte
<1>3. QED
  BY <1>1, <1>2, TakenInv
-----------------------------------------------------------------------------
(* What the server makes of an uplink.                                     *)

\* What it expects the code to be computed over.
KnownInput(dev, k) ==
    [key |-> Registered(k).nwk, up |-> TRUE, addr |-> Reversed(dev.addr), fCnt |-> dev.fCntUp,
     len |-> Len(Plain(UpSealed(dev))) % 256, plain |-> Plain(UpSealed(dev))]

\* And the key stream.
KnownStream(dev, k) ==
    [key |-> IF dev.fPort = 0 THEN Registered(k).nwk ELSE Registered(k).app,
     up |-> TRUE, addr |-> Reversed(dev.addr), fCnt |-> dev.fCntUp]

Known(dev, k) ==
    /\ NarrowPort = file.port
    /\ Registered(k).addr < AddrBase
    /\ Reversed(dev.addr) = Reversed(BigEndian(Registered(k).addr))
    /\ KnownInput(dev, k) = UpSigned(dev)

ReadResult(dev, k) ==
    [kind |-> "read", port |-> dev.fPort,
     data |-> Cipher(Cipher(Payload, UpStream(dev), UpStream(dev)), KnownStream(dev, k),
                     UpStream(dev))]

RefusedResult == [kind |-> "refused", port |-> 0, data |-> <<>>]

\* A code is right for one input alone.
LEMMA OnlySigned ==
    ASSUME NEW input, NEW onAir
    PROVE  Cmac(input, onAir) = SignedCode <=> input = onAir
BY DEF Cmac, SignedCode, OtherCode

\* The result of ServerReads, with its parts named.
LEMMA ServerReadsIs ==
    ASSUME Inv, ServerReads, NEW CONSTANT k, k = self, NEW CONSTANT dev \in Device, dev = Made(k)
    PROVE  result' = IF Known(dev, k) THEN ReadResult(dev, k) ELSE RefusedResult
<1>1. pc = "sent"
  BY DEF ServerReads
<1>2. /\ stream = UpStream(dev) /\ signed = UpSigned(dev)
      /\ frame = Plain(UpSealed(dev)) \o SignedCode /\ text = Base64Of(frame)
      /\ device = [dev EXCEPT !.fCntUp = @ + 1]
  BY <1>1 DEF Inv, UpInv, DeviceInv
<1>3. device.fCntUp - 1 = dev.fCntUp
  BY <1>2, DeviceParts, Zenon
<1>4. PICK plain, frm :
         /\ plain = Plain(UpSealed(dev)) /\ frm = Cipher(Payload, UpStream(dev), UpStream(dev))
         /\ Readable(frame, plain, dev, frm)
  BY <1>2, SealedType
<1>5. /\ Len(frame) \in Nat /\ Len(plain) = Len(frame) - MicLen
      /\ HeaderEnd(Tail(frame)) = HeaderLen
      /\ SubSeq(frame, 2, 1 + AddrLen) = Reversed(dev.addr)
      /\ SubSeq(frame, 1, Len(frame) - MicLen) = plain
      /\ SubSeq(frame, Len(frame) - MicLen + 1, Len(frame)) = SignedCode
      /\ frame[HeaderLen + 2] = dev.fPort
      /\ SubSeq(plain, HeaderLen + 3, Len(plain)) = frm
  BY <1>4, Zenon DEF Readable
<1>6. HeaderLen + 1 + 1 = HeaderLen + 2 /\ HeaderLen + 1 + 2 = HeaderLen + 3
  BY CodecAssumption DEF HeaderLen
<1>7. SubSeq(frame, Len(plain) + 1, Len(frame)) = SignedCode
  BY <1>5, Zenon
<1>8. frame[HeaderEnd(Tail(frame)) + 1 + 1] = dev.fPort
  BY <1>5, <1>6, Zenon
<1>9. SubSeq(plain, HeaderEnd(Tail(frame)) + 1 + 2, Len(plain)) = frm
  BY <1>5, <1>6, Zenon
<1>10. SignedCode = Cmac(KnownInput(dev, k), signed) <=> KnownInput(dev, k) = UpSigned(dev)
  BY <1>2, OnlySigned
<1>11. KnownInput(dev, k)
         = [key |-> Registered(self).nwk, up |-> TRUE, addr |-> SubSeq(frame, 2, 1 + AddrLen),
            fCnt |-> device.fCntUp - 1, len |-> Len(plain) % 256, plain |-> plain]
  BY <1>3, <1>4, <1>5, Zenon DEF KnownInput
<1>12. KnownStream(dev, k)
         = [key |-> IF dev.fPort = 0 THEN Registered(self).nwk ELSE Registered(self).app,
            up |-> TRUE, addr |-> SubSeq(frame, 2, 1 + AddrLen), fCnt |-> device.fCntUp - 1]
  BY <1>3, <1>5, Zenon DEF KnownStream
<1>13. PICK id, input, data :
          id = KnownStream(dev, k) /\ input = KnownInput(dev, k) /\ data = Cipher(frm, id, stream)
  OBVIOUS
<1>14. IF /\ NarrowPort = file.port
          /\ text = Base64Of(frame)
          /\ Registered(self).addr < AddrBase
          /\ SubSeq(frame, 2, 1 + AddrLen) = Reversed(BigEndian(Registered(self).addr))
          /\ SubSeq(frame, Len(plain) + 1, Len(frame)) = Cmac(input, signed)
       THEN result' = [kind |-> "read", port |-> dev.fPort, data |-> data]
       ELSE result' = [kind |-> "refused", port |-> 0, data |-> <<>>]
  BY <1>5, <1>8, <1>9, <1>11, <1>12, <1>13, Zenon DEF ServerReads
<1>15. IF Known(dev, k) THEN result' = [kind |-> "read", port |-> dev.fPort, data |-> data]
       ELSE result' = [kind |-> "refused", port |-> 0, data |-> <<>>]
  BY <1>2, <1>5, <1>7, <1>10, <1>13, <1>14, Zenon DEF Known
<1>16. QED
  BY <1>2, <1>4, <1>13, <1>15, Zenon DEF ReadResult, RefusedResult

\* The server reads.
LEMMA ServerReadsInv ==
    ASSUME Inv, ServerReads
    PROVE  Inv'
<1>1. /\ pc = "sent" /\ pc' = "read"
      /\ UNCHANGED <<file, self, device, target, down, signed, stream, frame, text, harmed>>
  BY DEF ServerReads, channelVars
<1>2. file \in Files /\ self \in 0..(DeviceCount - 1) /\ ~Refused
  BY <1>1 DEF Inv, TypeOK, DeviceInv
<1>3. PICK k : k = self
  OBVIOUS
<1>4. PICK dev \in Device : dev = Made(k)
  BY <1>2, <1>3, MadeType
<1>5. result' = IF Known(dev, k) THEN ReadResult(dev, k) ELSE RefusedResult
  BY <1>3, <1>4, ServerReadsIs
<1>6. result'.kind \in Kinds /\ result'.port \in Byte /\ result'.data \in Seq(Byte)
  <2>1. PICK data \in Seq(Byte) :
             data = Cipher(Cipher(Payload, UpStream(dev), UpStream(dev)), KnownStream(dev, k),
                           UpStream(dev))
    BY SealedType, CipherType
  <2>2. PICK port \in Byte : port = dev.fPort
    BY DEF Device
  <2>3. \/ result' = [kind |-> "read", port |-> port, data |-> data]
        \/ result' = [kind |-> "refused", port |-> 0, data |-> <<>>]
    BY <1>5, <2>1, <2>2, Zenon DEF ReadResult, RefusedResult
  <2>4. 0 \in Byte /\ <<>> \in Seq(Byte)
    BY DEF Byte
  <2>5. PICK r : r = result'
    OBVIOUS
  <2>6. CASE r = [kind |-> "read", port |-> port, data |-> data]
    <3>1. r.kind \in Kinds /\ r.port \in Byte /\ r.data \in Seq(Byte)
      BY <2>6 DEF Kinds
    <3>2. QED
      BY <2>5, <3>1, Zenon
  <2>7. CASE r = [kind |-> "refused", port |-> 0, data |-> <<>>]
    <3>1. r.kind \in Kinds /\ r.port \in Byte /\ r.data \in Seq(Byte)
      BY <2>4, <2>7 DEF Kinds
    <3>2. QED
      BY <2>5, <3>1, Zenon
  <2>8. QED
    BY <2>3, <2>5, <2>6, <2>7, Zenon
<1>7. TypeOK'
  BY <1>1, <1>6 DEF Inv, TypeOK, Pcs
<1>8. Made(self)' = dev /\ (Refused' <=> Refused)
  BY <1>1, <1>3, <1>4, SameMade, SameRefused
<1>9. pc' \in {"sent", "read"} /\ pc \in {"sent", "read"} /\ pc \notin {"init", "threw"}
  BY <1>1
<1>10. DeviceInv'
  BY <1>1, <1>3, <1>4, <1>8, <1>9, Zenon DEF Inv, DeviceInv
<1>11. UpInv'
  <2>1. /\ UpStream(Made(self))' = UpStream(dev)
        /\ UpSigned(Made(self))' = UpSigned(dev)
        /\ Plain(UpSealed(Made(self)))' = Plain(UpSealed(dev))
    BY <1>8, SameUp
  <2>2. QED
    BY <1>1, <1>3, <1>4, <1>9, <2>1, Zenon DEF Inv, UpInv
<1>12. DownInv' /\ EarlyInv'
  BY <1>1 DEF Inv, DownInv, EarlyInv
<1>13. QED
  BY <1>7, <1>10, <1>11, <1>12, Zenon DEF Inv

\* Nothing happens.
LEMMA StutterInv ==
    ASSUME Inv, UNCHANGED vars
    PROVE  Inv'
<1>1. UNCHANGED <<file, pc, self, device, target, down, signed, stream, frame, text, harmed,
                  result>>
  BY DEF vars, channelVars
<1>2. TypeOK' /\ EarlyInv'
  BY <1>1 DEF Inv, TypeOK, EarlyInv
<1>3. PICK i, k, d : i = self /\ k = target /\ d = down
  OBVIOUS
<1>4. Made(self)' = Made(i) /\ (Refused' <=> Refused)
  BY <1>1, <1>3, SameMade, SameRefused
<1>5. DeviceInv'
  BY <1>1, <1>3, <1>4, Zenon DEF Inv, DeviceInv
<1>6. UpInv'
  <2>1. /\ UpStream(Made(self))' = UpStream(Made(i))
        /\ UpSigned(Made(self))' = UpSigned(Made(i))
        /\ Plain(UpSealed(Made(self)))' = Plain(UpSealed(Made(i)))
    <3>1. PICK dev : dev = Made(i)
      OBVIOUS
    <3>2. QED
      BY <1>4, <3>1, SameUp
  <2>2. QED
    BY <1>1, <1>3, <2>1, Zenon DEF Inv, UpInv
<1>7. DownInv'
  <2>1. /\ DownStream(target, down)' = DownStream(k, d)
        /\ DownPlain(target, down)' = DownPlain(k, d)
        /\ DownSigned(target, down)' = DownSigned(k, d)
    BY <1>1, <1>3, SameDown
  <2>2. QED
    BY <1>1, <1>3, <2>1, Zenon DEF Inv, DownInv, Carrying
<1>8. QED
  BY <1>2, <1>5, <1>6, <1>7, Zenon DEF Inv

\* The steps of the specification, with what they depend on.
LEMMA InvStep == Inv /\ [Next]_vars => Inv'
<1> SUFFICES ASSUME Inv, [Next]_vars PROVE Inv'
  OBVIOUS
<1>1. CASE InitThrows
  BY <1>1, InitThrowsInv
<1>2. ASSUME NEW CONSTANT k \in 0..(DeviceCount - 1), MakeDevice(k) PROVE Inv'
  BY <1>2, MakeDeviceInv
<1>3. CASE SendData
  BY <1>3, SendDataInv
<1>4. CASE ServerReads
  BY <1>4, ServerReadsInv
<1>5. ASSUME NEW CONSTANT k \in 0..(DeviceCount - 1), NEW CONSTANT d \in Downlinks,
             ServerSends(k, d)
      PROVE  Inv'
  BY <1>5, ServerSendsInv
<1>6. ASSUME NEW CONSTANT n \in Cuts, HarmText(n) PROVE Inv'
  BY <1>6, HarmTextInv
<1>7. CASE DownlinkFrame
  BY <1>7, OtherFramesInv, HandleDataInv DEF DownlinkFrame
<1>8. CASE UNCHANGED vars
  BY <1>8, StutterInv
<1>9. QED
  BY <1>1, <1>2, <1>3, <1>4, <1>5, <1>6, <1>7, <1>8, Zenon DEF Next

\* The inductive invariant holds in every state.
LEMMA InvAlways == Spec => []Inv
BY InitInv, InvStep, PTL DEF Spec

-----------------------------------------------------------------------------
\* Every key half, port, byte and character stays within its width, whatever
\* the numbers of the file are: the halves wrap at AddKey, the port at a byte,
\* the characters of the text are Base64's or one foreign one
\* (simulator.cpp:256-301, helper.cpp:32-73).
THEOREM TypeCorrect == Spec => []TypeOK
<1>1. Inv => TypeOK
  BY DEF Inv
<1>2. QED
  BY <1>1, InvAlways, PTL

\* base64_encode makes the Base64 of the frame of an uplink, and what the
\* device decodes of a downlink whose text ends early or goes on with
\* something foreign is the whole bytes before that place
\* (helper.cpp:32-73, gateway.cpp:193, device.cpp:97).
THEOREM FrameCarried == Spec => []TextCarriesFrame
<1>1. Inv => TextCarriesFrame
  <2> SUFFICES ASSUME Inv PROVE TextCarriesFrame
    OBVIOUS
  <2>1. pc \in {"sent", "read"} => text = Base64Of(frame)
    BY DEF Inv, UpInv
  <2>2. pc \in {"answered", "taken"} =>
           Decode(text) = IF Whole THEN frame ELSE SubSeq(frame, 1, (6 * harmed) \div 8)
    BY ReceivedType, Zenon DEF Received
  <2>3. QED
    BY <2>1, <2>2, Zenon DEF TextCarriesFrame
<1>2. QED
  BY <1>1, InvAlways, PTL
-----------------------------------------------------------------------------
(* When the server can read an uplink.                                     *)

\* A port that is narrowed stays what it is only within its width.
LEMMA PortFits ==
    ASSUME file \in Files
    PROVE  NarrowPort = file.port <=> file.port \in 0..(W16 - 1)
<1>1. PICK w \in Nat \ {0} : w = W16
  <2>1. W16 \in 1..(256 * 256)
    BY SessionAssumption, Zenon
  <2>2. QED
    BY <2>1
<1>2. PICK x \in Int : x = file.port
  BY FileType
<1>3. x % w = x <=> x \in 0..(w - 1)
  <2>1. x % w \in 0..(w - 1)
    OBVIOUS
  <2>2. ASSUME x \in 0..(w - 1) PROVE x % w = x
    <3>1. x \in Nat /\ x < w
      BY <2>2
    <3>2. QED
      BY <3>1, Fits
  <2>3. QED
    BY <2>1, <2>2
<1>4. QED
  BY <1>1, <1>2, <1>3, Zenon DEF NarrowPort

\* The addresses agree where the setting is under the name init looks for.
LEMMA AddressAgrees ==
    ASSUME file \in Files, NEW k \in 0..(DeviceCount - 1)
    PROVE  /\ Registered(k).addr < AddrBase
           /\ Reversed(Made(k).addr) = Reversed(BigEndian(Registered(k).addr))
           <=> file.address = FirstAddr /\ file.address + k < AddrBase
<1>1. PICK first \in Nat, base \in Nat \ {0} :
         first = FirstAddr /\ base = AddrBase /\ first < base
  BY FirstAddrType, Widths
<1>2. PICK i \in Nat, address \in Nat : i = k /\ address = file.address
  BY FileType, Widths
<1>3. PICK x \in Nat : x = (first + i) % base /\ x < base
  <2>1. PICK sum \in Nat : sum = first + i
    OBVIOUS
  <2>2. sum % base \in Nat /\ sum % base < base
    BY Division
  <2>3. QED
    BY <2>1, <2>2
<1>4. PICK y \in Nat : y = address + i
  OBVIOUS
<1>5. /\ Registered(k).addr = y
      /\ Made(k).addr = BigEndian(x)
  BY <1>1, <1>2, <1>3, <1>4 DEF Registered, Made
<1>6. ASSUME y < base, Reversed(BigEndian(x)) = Reversed(BigEndian(y)) PROVE x = y
  <2>1. PICK s \in Seq(Byte), t \in Seq(Byte) : s = BigEndian(x) /\ t = BigEndian(y)
    <3>1. BigEndian(x) \in [1..AddrLen -> Byte] /\ BigEndian(y) \in [1..AddrLen -> Byte]
      BY AddressType
    <3>2. AddrLen \in Nat
      BY CodecAssumption
    <3>3. BigEndian(x) \in Seq(Byte) /\ BigEndian(y) \in Seq(Byte)
      BY <3>1, <3>2, FunctionIsSeq, Zenon
    <3>4. QED
      BY <3>3
  <2>2. s = t
    <3>1. Reversed(Reversed(s)) = s /\ Reversed(Reversed(t)) = t
      BY <2>1, ReversedTwice
    <3>2. Reversed(s) = Reversed(t)
      BY <1>6, <2>1, Zenon
    <3>3. QED
      BY <3>1, <3>2, Zenon
  <2>3. QED
    BY <1>1, <1>3, <1>6, <2>1, <2>2, SameAddress, Zenon
<1>7. ASSUME x = y, y < base PROVE address = first
  <2>1. PICK q \in Nat : first + i = base * q + y
    <3>1. PICK sum \in Nat : sum = first + i
      OBVIOUS
    <3>2. PICK q \in Nat, r \in Nat : q = sum \div base /\ r = sum % base /\ sum = base * q + r
      BY Division
    <3>3. r = y
      BY <1>3, <1>7, <3>1, <3>2
    <3>4. QED
      BY <3>1, <3>2, <3>3
  <2>2. ~(q >= 1)
    <3>1. q >= 1 => base * q >= base
      OBVIOUS
    <3>2. QED
      BY <1>1, <1>4, <2>1, <3>1
  <2>3. q = 0
    BY <2>2
  <2>4. base * q = 0
    BY <2>3
  <2>5. QED
    BY <1>4, <2>1, <2>4
<1>8. ASSUME address = first, y < base PROVE x = y
  <2>1. first + i = y /\ y % base = y
    BY <1>4, <1>8, Fits
  <2>2. QED
    BY <1>3, <2>1
<1>9. y < base /\ Reversed(BigEndian(x)) = Reversed(BigEndian(y)) <=> address = first /\ y < base
  BY <1>6, <1>7, <1>8
<1>10. QED
  BY <1>1, <1>2, <1>4, <1>5, <1>9, Zenon

\* The key of a device and the one README.md describes differ by the carry.
LEMMA NetworkKeyAgrees ==
    ASSUME file \in Files, NEW k \in 0..(DeviceCount - 1)
    PROVE  Registered(k).nwk = Made(k).nwk <=> file.nwk.lo + k < Word
<1>1. PICK w \in Nat \ {0}, i \in Nat : w = Word /\ i = k
  BY Widths
<1>2. PICK hi \in Nat, lo \in Nat : hi = file.nwk.hi /\ lo = file.nwk.lo
  BY FileType, Widths DEF Key
<1>3. PICK x \in Nat : x = lo + i
  OBVIOUS
<1>4. PICK q \in Nat, r \in Nat : q = x \div w /\ r = x % w /\ r < w /\ x = w * q + r
  BY Division
<1>5. Registered(k).nwk = [hi |-> hi + q, lo |-> r]
  BY <1>1, <1>2, <1>3, <1>4, Zenon DEF Registered
<1>6. Made(k).nwk = [hi |-> hi, lo |-> r]
  BY <1>1, <1>2, <1>3, <1>4, Zenon DEF Made, AddKey
<1>7. [hi |-> hi + q, lo |-> r] = [hi |-> hi, lo |-> r] <=> q = 0
  <2>1. hi + q = hi <=> q = 0
    OBVIOUS
  <2>2. [hi |-> hi + q, lo |-> r].hi = hi + q /\ [hi |-> hi, lo |-> r].hi = hi
    OBVIOUS
  <2>3. QED
    BY <2>1, <2>2, Zenon
<1>8. q = 0 <=> x < w
  <2>1. q = 0 => x = r
    BY <1>4
  <2>2. q >= 1 => w * q >= w
    OBVIOUS
  <2>3. QED
    BY <1>4, <2>1, <2>2
<1>9. QED
  BY <1>1, <1>2, <1>3, <1>5, <1>6, <1>7, <1>8, Zenon

\* Of the session key the upper half is taken from the network key.
LEMMA SessionKeyAgrees ==
    ASSUME file \in Files, NEW k \in 0..(DeviceCount - 1)
    PROVE  Registered(k).app = Made(k).app
             <=> file.app.hi + (file.app.lo + k) \div Word = file.nwk.hi
<1>1. PICK hi, lo : hi = file.app.hi + (file.app.lo + k) \div Word /\ lo = (file.app.lo + k) % Word
  OBVIOUS
<1>2. Registered(k).app = [hi |-> hi, lo |-> lo]
  BY <1>1, Zenon DEF Registered
<1>3. Made(k).app = [hi |-> file.nwk.hi, lo |-> lo]
  BY <1>1 DEF Made, AddKey
<1>4. PICK top : top = file.nwk.hi
  OBVIOUS
<1>5. [hi |-> hi, lo |-> lo] = [hi |-> top, lo |-> lo] <=> hi = top
  <2>1. [hi |-> hi, lo |-> lo].hi = hi /\ [hi |-> top, lo |-> lo].hi = top
    OBVIOUS
  <2>2. QED
    BY <2>1, Zenon
<1>6. QED
  BY <1>1, <1>2, <1>3, <1>4, <1>5, Zenon

\* What the device computes with.
LEMMA UpIs ==
    ASSUME NEW dev \in Device
    PROVE  /\ UpStream(dev) = [key |-> dev.app, up |-> TRUE, addr |-> Reversed(dev.addr),
                               fCnt |-> dev.fCntUp]
           /\ UpSigned(dev) = [key |-> dev.nwk, up |-> TRUE, addr |-> Reversed(dev.addr),
                               fCnt |-> dev.fCntUp, len |-> Len(Plain(UpSealed(dev))) % 256,
                               plain |-> Plain(UpSealed(dev))]
<1>1. ASSUME NEW frm \in Seq(Byte)
      PROVE  /\ UpPhy(dev, frm).mac.addr = dev.addr /\ UpPhy(dev, frm).mac.fCnt = dev.fCntUp
             /\ IsUplink(UpPhy(dev, frm)) = TRUE
  <2>1. PICK p : p = UpPhy(dev, frm) /\ p.mac = UpMac(dev, frm) /\ p.mType = UnconfirmedDataUp
    BY UpPhyIs
  <2>2. p.mac.addr = dev.addr /\ p.mac.fCnt = dev.fCntUp
    BY <2>1 DEF UpMac
  <2>3. IsUplink(p) = TRUE
    BY <2>1 DEF IsUplink
  <2>4. QED
    BY <2>1, <2>2, <2>3, Zenon
<1>2. Payload \in Seq(Byte)
  BY SessionAssumption, Zenon
<1>3. UpStream(dev) = [key |-> dev.app, up |-> TRUE, addr |-> Reversed(dev.addr),
                       fCnt |-> dev.fCntUp]
  BY <1>1, <1>2, Zenon DEF UpStream, StreamOf
<1>4. UpSealed(dev).mac.addr = dev.addr /\ UpSealed(dev).mac.fCnt = dev.fCntUp
  BY <1>1, SealedType, Zenon DEF UpSealed
<1>5. UpSigned(dev) = [key |-> dev.nwk, up |-> TRUE, addr |-> Reversed(dev.addr),
                       fCnt |-> dev.fCntUp, len |-> Len(Plain(UpSealed(dev))) % 256,
                       plain |-> Plain(UpSealed(dev))]
  BY <1>4, Zenon DEF UpSigned, MicInput
<1>6. QED
  BY <1>3, <1>5
-----------------------------------------------------------------------------
\* The server accepts what the file, read by README.md, lets it expect.
LEMMA KnownIs ==
    ASSUME file \in Files, NEW k \in 0..(DeviceCount - 1), NEW dev \in Device, dev = Made(k)
    PROVE  Known(dev, k) <=> /\ file.port \in 0..(W16 - 1)
                             /\ file.address = FirstAddr /\ file.address + k < AddrBase
                             /\ file.nwk.lo + k < Word
<1>1. KnownInput(dev, k) = UpSigned(dev) <=> Registered(k).nwk = dev.nwk
  <2>1. PICK addr, n, len, plain :
             /\ addr = Reversed(dev.addr) /\ n = dev.fCntUp
             /\ len = Len(Plain(UpSealed(dev))) % 256 /\ plain = Plain(UpSealed(dev))
    OBVIOUS
  <2>2. PICK a, b : a = Registered(k).nwk /\ b = dev.nwk
    OBVIOUS
  <2>3. UpSigned(dev) = [key |-> b, up |-> TRUE, addr |-> addr, fCnt |-> n, len |-> len,
                         plain |-> plain]
    BY <2>1, <2>2, UpIs, Zenon
  <2>4. KnownInput(dev, k) = [key |-> a, up |-> TRUE, addr |-> addr, fCnt |-> n, len |-> len,
                              plain |-> plain]
    BY <2>1, <2>2, Zenon DEF KnownInput
  <2>5. [key |-> a, up |-> TRUE, addr |-> addr, fCnt |-> n, len |-> len, plain |-> plain].key = a
    OBVIOUS
  <2>6. [key |-> b, up |-> TRUE, addr |-> addr, fCnt |-> n, len |-> len, plain |-> plain].key = b
    OBVIOUS
  <2>7. QED
    BY <2>2, <2>3, <2>4, <2>5, <2>6, Zenon
<1>2. Registered(k).nwk = dev.nwk <=> file.nwk.lo + k < Word
  BY NetworkKeyAgrees, Zenon
<1>3. /\ Registered(k).addr < AddrBase
      /\ Reversed(dev.addr) = Reversed(BigEndian(Registered(k).addr))
      <=> file.address = FirstAddr /\ file.address + k < AddrBase
  BY AddressAgrees, Zenon
<1>4. NarrowPort = file.port <=> file.port \in 0..(W16 - 1)
  BY PortFits
<1>5. QED
  BY <1>1, <1>2, <1>3, <1>4, Zenon DEF Known

\* And reads it if the port of the frame and the key of the payload are right.
LEMMA ReadIs ==
    ASSUME file \in Files, ~Refused, NEW k \in 0..(DeviceCount - 1),
           NEW dev \in Device, dev = Made(k)
    PROVE  ReadResult(dev, k) = [kind |-> "read", port |-> file.fPort, data |-> Payload]
             <=> /\ file.fPort < 256
                 /\ file.app.hi + (file.app.lo + k) \div Word = file.nwk.hi
<1>1. PICK port \in Int : port = file.fPort
  BY FileType
<1>2. port > 0
  <2>1. ~(file.fPort <= 0)
    BY Zenon DEF Refused
  <2>2. QED
    BY <1>1, <2>1
<1>3. dev.fPort = port % 256
  BY <1>1 DEF Made
<1>4. /\ port % 256 = port <=> port < 256
      /\ port < 256 => port % 256 # 0
  BY <1>2
<1>5. PICK up, id : up = UpStream(dev) /\ id = KnownStream(dev, k)
  OBVIOUS
<1>6. PICK data : data = Cipher(Cipher(Payload, up, up), id, up)
  OBVIOUS
<1>7. data = Payload <=> id = up
  <2>1. Payload \in Seq(Byte) /\ Payload # <<>>
    BY SessionAssumption, Zenon
  <2>2. QED
    BY <1>6, <2>1, CipherTwice, Zenon
<1>8. ReadResult(dev, k) = [kind |-> "read", port |-> port % 256, data |-> data]
  BY <1>3, <1>5, <1>6, Zenon DEF ReadResult
<1>9. ReadResult(dev, k) = [kind |-> "read", port |-> port, data |-> Payload]
        <=> port % 256 = port /\ data = Payload
  <2>1. PICK p : p = port % 256
    OBVIOUS
  <2>2. [kind |-> "read", port |-> p, data |-> data]
             = [kind |-> "read", port |-> port, data |-> Payload]
          <=> p = port /\ data = Payload
    <3>1. /\ [kind |-> "read", port |-> p, data |-> data].port = p
          /\ [kind |-> "read", port |-> p, data |-> data].data = data
          /\ [kind |-> "read", port |-> port, data |-> Payload].port = port
          /\ [kind |-> "read", port |-> port, data |-> Payload].data = Payload
      OBVIOUS
    <3>2. QED
      BY <3>1, Zenon
  <2>3. QED
    BY <1>8, <2>1, <2>2, Zenon
<1>10. ASSUME port < 256
       PROVE  id = up <=> file.app.hi + (file.app.lo + k) \div Word = file.nwk.hi
  <2>1. dev.fPort # 0
    BY <1>3, <1>4, <1>10, Zenon
  <2>2. PICK a, b, addr, n : /\ a = Registered(k).app /\ b = dev.app
                             /\ addr = Reversed(dev.addr) /\ n = dev.fCntUp
    OBVIOUS
  <2>3. id = [key |-> a, up |-> TRUE, addr |-> addr, fCnt |-> n]
    BY <1>5, <2>1, <2>2, Zenon DEF KnownStream
  <2>4. up = [key |-> b, up |-> TRUE, addr |-> addr, fCnt |-> n]
    BY <1>5, <2>2, UpIs, Zenon
  <2>5. /\ [key |-> a, up |-> TRUE, addr |-> addr, fCnt |-> n].key = a
        /\ [key |-> b, up |-> TRUE, addr |-> addr, fCnt |-> n].key = b
    OBVIOUS
  <2>6. id = up <=> a = b
    BY <2>3, <2>4, <2>5, Zenon
  <2>7. QED
    BY <2>2, <2>6, SessionKeyAgrees, Zenon
<1>11. QED
  BY <1>1, <1>4, <1>7, <1>9, <1>10, Zenon

\* What becomes of an uplink: it is read exactly if init is faithful to the
\* file.
ReadExactly == pc = "read" => (Faithful <=> result = PayloadRead)

\* So it is once the server has read the frame.
LEMMA ServerReadsCorrect ==
    ASSUME Inv, ServerReads
    PROVE  ReadExactly'
<1>1. pc = "sent" /\ pc' = "read" /\ UNCHANGED <<file, self>>
  BY DEF ServerReads
<1>2. file \in Files /\ self \in 0..(DeviceCount - 1) /\ ~Refused
  BY <1>1 DEF Inv, TypeOK, DeviceInv
<1>3. PICK k \in 0..(DeviceCount - 1) : k = self
  BY <1>2
<1>4. PICK dev \in Device : dev = Made(k)
  BY <1>2, <1>3, MadeType
<1>5. result' = IF Known(dev, k) THEN ReadResult(dev, k) ELSE RefusedResult
  BY <1>3, <1>4, ServerReadsIs
<1>6. PICK wanted : wanted = [kind |-> "read", port |-> file.fPort, data |-> Payload]
  OBVIOUS
<1>7. RefusedResult # wanted
  <2>1. RefusedResult.kind = "refused" /\ wanted.kind = "read"
    BY <1>6 DEF RefusedResult
  <2>2. QED
    BY <2>1
<1>8. (/\ file.port \in 0..(W16 - 1)
       /\ file.fPort < 256
       /\ file.address = FirstAddr /\ file.address + k < AddrBase
       /\ file.nwk.lo + k < Word
       /\ file.app.hi + (file.app.lo + k) \div Word = file.nwk.hi)
      <=> Known(dev, k) /\ ReadResult(dev, k) = wanted
  BY <1>2, <1>4, <1>6, KnownIs, ReadIs, Zenon
<1>9. Known(dev, k) /\ ReadResult(dev, k) = wanted <=> result' = wanted
  BY <1>5, <1>7, Zenon
<1>10. FirstAddr' = FirstAddr
  BY <1>1, Zenon DEF FirstAddr
<1>11. QED
  BY <1>1, <1>3, <1>6, <1>8, <1>9, <1>10, Zenon DEF ReadExactly, Faithful, PayloadRead

\* The files that init is faithful to are all the files whose uplinks are
\* read: a departure from README.md is never without consequence.
LEMMA ReadAlways == Spec => []ReadExactly
<1>1. Init => ReadExactly
  BY DEF Init, ReadExactly
<1>2. Inv /\ ReadExactly /\ [Next]_vars => ReadExactly'
  <2> SUFFICES ASSUME Inv, ReadExactly, [Next]_vars PROVE ReadExactly'
    OBVIOUS
  <2>1. CASE pc' # "read"
    BY <2>1, Zenon DEF ReadExactly
  <2>2. CASE ServerReads
    BY <2>2, ServerReadsCorrect
  <2>3. CASE UNCHANGED vars
    <3>1. UNCHANGED <<file, pc, self, result>>
      BY <2>3 DEF vars
    <3>2. FirstAddr' = FirstAddr
      BY <3>1, Zenon DEF FirstAddr
    <3>3. QED
      BY <3>1, <3>2, Zenon DEF ReadExactly, Faithful, PayloadRead
  <2>4. ASSUME Next PROVE ServerReads \/ pc' # "read"
    <3>1. CASE InitThrows \/ SendData \/ ServerReads
      BY <3>1 DEF InitThrows, SendData
    <3>2. ASSUME NEW k \in 0..(DeviceCount - 1), MakeDevice(k) PROVE pc' # "read"
      BY <3>2 DEF MakeDevice
    <3>3. ASSUME NEW k \in 0..(DeviceCount - 1), NEW d \in Downlinks, ServerSends(k, d)
          PROVE  pc' # "read"
      BY <3>3 DEF ServerSends
    <3>4. ASSUME NEW n \in Cuts, HarmText(n) PROVE pc' # "read"
      BY <3>4 DEF HarmText
    <3>5. CASE DownlinkFrame
      BY <3>5 DEF DownlinkFrame, HandleUndecodable, HandleJoinAccept, HandleUnexpected,
                  HandleInvalid, HandleData, Taken
    <3>6. QED
      BY <2>4, <3>1, <3>2, <3>3, <3>4, <3>5, Zenon DEF Next
  <2>5. QED
    BY <2>1, <2>2, <2>3, <2>4
<1>3. QED
  BY <1>1, <1>2, InvAlways, PTL DEF Spec

\* The server reads every uplink of a device whose port, FPort, address and
\* keys init takes from the file as README.md says, whatever else the file
\* holds (simulator.cpp:75-301, device.cpp:43-71).
THEOREM UplinkRead == Spec => []UplinkIsRead
<1>1. ReadExactly => UplinkIsRead
  BY Zenon DEF ReadExactly, UplinkIsRead
<1>2. QED
  BY <1>1, ReadAlways, PTL
-----------------------------------------------------------------------------
(* A frame that the device handles.                                        *)

\* Its bytes but for the code are as many as those the code is computed over.
LEMMA PlainLength ==
    ASSUME Inv, pc = "answered", IsDataDown
    PROVE  Len(Plain(Phy)) = Len(Received) - 4
<1>1. PICK data \in Seq(Byte) : data = MacBytes(Received)
  BY DataReceived
<1>2. MacMarshal(Phy.mac) = data
  BY <1>1, DataReceived, RemarshalExact
<1>3. PICK b \in Byte : MhdrMarshal(Phy) = <<b>>
  <2>1. PICK t \in {3, 5} : t = Phy.mType
    BY DataReceived DEF UnconfirmedDataDown, ConfirmedDataDown
  <2>2. PICK received \in Seq(Byte) : received = Received /\ Phy = PhyUnmarshal(received)
    BY DataReceived
  <2>3. received[1] \in Byte
    <3>1. Len(data) \in Nat /\ Len(data) = Len(received) - 5 /\ Len(received) \in Nat
      BY <1>1, <2>2, DataReceived, LenProperties
    <3>2. 1 \in 1..Len(received)
      BY <3>1
    <3>3. QED
      BY <3>2, ElementOfSeq
  <2>4. PICK v \in 0..3 : v = Phy.major
    <3>1. Phy.major = received[1] % 4
      BY <2>2 DEF PhyUnmarshal
    <3>2. PICK x \in Byte : x = received[1]
      BY <2>3
    <3>3. x % 4 \in 0..3
      BY DEF Byte
    <3>4. QED
      BY <3>1, <3>2, <3>3
  <2>5. (t % 8) * 32 + v \in Byte
    BY DEF Byte
  <2>6. MhdrMarshal(Phy) = <<(t % 8) * 32 + v>>
    BY <2>1, <2>4, Zenon DEF MhdrMarshal
  <2>7. QED
    BY <2>5, <2>6
<1>4. Plain(Phy) = <<b>> \o data
  BY <1>2, <1>3, Zenon DEF Plain
<1>5. Len(<<b>> \o data) = Len(data) + 1
  BY CodeType, FrameParts, Zenon
<1>6. PICK m \in Nat, n \in Nat : m = Len(data) /\ n = Len(Received) /\ m = n - 5
  BY <1>1, DataReceived, LenProperties
<1>7. QED
  BY <1>4, <1>5, <1>6

\* A prefix is shorter, if not all characters are there.
LEMMA WholeByLength ==
    ASSUME Inv, pc = "answered", Len(Received) = Len(frame)
    PROVE  Whole /\ Received = frame
<1>1. PICK f \in Seq(Byte) : f = frame
  BY ReceivedType
<1>2. PICK len \in Nat : len = Len(f)
  BY LenProperties
<1>3. Received = IF Whole THEN f ELSE SubSeq(f, 1, (6 * harmed) \div 8)
  BY <1>1, ReceivedType
<1>4. ASSUME ~Whole PROVE FALSE
  <2>1. PICK h \in Nat : h = harmed /\ ~(h >= CharCount(len))
    BY <1>1, <1>2, <1>4 DEF Inv, TypeOK, Whole
  <2>2. PICK m \in Nat : m = (6 * h) \div 8 /\ m < len
    BY <2>1 DEF CharCount
  <2>3. m <= Len(f)
    BY <1>2, <2>2
  <2>4. Len(SubSeq(f, 1, m)) = m
    BY <2>3, Prefix, Zenon
  <2>5. Received = SubSeq(f, 1, m)
    BY <1>3, <1>4, <2>1, <2>2, Zenon
  <2>6. m = len
    BY <1>1, <1>2, <2>4, <2>5, Zenon
  <2>7. QED
    BY <2>2, <2>6
<1>5. QED
  BY <1>1, <1>3, <1>4, Zenon

\* The code of a frame that is valid is the one on the air.
LEMMA ValidIsSigned ==
    ASSUME Inv, pc = "answered", IsDataDown, ValidMic
    PROVE  MicInput(Phy, device.nwk, FALSE) = DownSigned(target, down)
<1>1. Phy.mic # <<>>
  BY DataReceived
<1>2. Cmac(MicInput(Phy, device.nwk, FALSE), signed) = Phy.mic
  BY Zenon DEF ValidMic
<1>3. MicInput(Phy, device.nwk, FALSE) = signed
  BY <1>1, <1>2, Zenon DEF Cmac, OtherCode
<1>4. signed = DownSigned(target, down)
  BY DEF Inv, DownInv
<1>5. QED
  BY <1>3, <1>4, Zenon

\* And so are the key, the address, the counter and the bytes.
IsSigned(p, key, k, d) == MicInput(p, key, FALSE) = DownSigned(k, d)

\* What follows for the frame and the key.
LEMMA SignedParts ==
    ASSUME NEW p, NEW key, NEW k, NEW d, IsSigned(p, key, k, d)
    PROVE  /\ key = Registered(k).nwk
           /\ Reversed(p.mac.addr) = DownAddr(k)
           /\ p.mac.fCnt = d.fCnt
           /\ Plain(p) = DownPlain(k, d)
<1>1. PICK x : x = MicInput(p, key, FALSE)
  OBVIOUS
<1>2. /\ x.key = key /\ x.addr = Reversed(p.mac.addr) /\ x.fCnt = p.mac.fCnt
      /\ x.plain = Plain(p)
  BY <1>1 DEF MicInput
<1>3. x = DownSigned(k, d)
  BY <1>1, Zenon DEF IsSigned
<1>4. /\ x.key = Registered(k).nwk /\ x.addr = DownAddr(k) /\ x.fCnt = d.fCnt
      /\ x.plain = DownPlain(k, d)
  BY <1>3 DEF DownSigned
<1>5. QED
  BY <1>2, <1>4

\* Two devices never have the same lower half of a key.
LEMMA KeysDiffer ==
    ASSUME file \in Files, NEW i \in 0..(DeviceCount - 1), NEW k \in 0..(DeviceCount - 1),
           Made(i).nwk = Registered(k).nwk
    PROVE  i = k
<1>1. PICK w \in Nat \ {0}, count \in Nat : w = Word /\ count = DeviceCount /\ count <= w
  BY Widths
<1>2. PICK a \in Nat, b \in Nat : a = i /\ b = k /\ a < count /\ b < count
  BY <1>1
<1>3. PICK lo \in Nat : lo = file.nwk.lo
  BY FileType, Widths DEF Key
<1>4. (lo + a) % w = (lo + b) % w
  <2>1. Made(i).nwk.lo = (file.nwk.lo + i) % Word
    BY DEF Made, AddKey
  <2>2. Registered(k).nwk.lo = (file.nwk.lo + k) % Word
    BY DEF Registered
  <2>3. Made(i).nwk.lo = Registered(k).nwk.lo
    OBVIOUS
  <2>4. QED
    BY <1>1, <1>2, <1>3, <2>1, <2>2, <2>3, Zenon
<1>5. PICK x \in Nat, y \in Nat : x = lo + a /\ y = lo + b
  OBVIOUS
<1>6. x % w = y % w /\ y < x + w /\ x < y + w
  BY <1>1, <1>2, <1>4, <1>5
<1>7. x <= y => x = y
  BY <1>6, SameRemainder
<1>8. y <= x => y = x
  BY <1>6, SameRemainder
<1>9. QED
  BY <1>2, <1>5, <1>7, <1>8

\* What a device makes of a frame that comes as it was sent.
LEMMA FrameRead ==
    ASSUME file \in Files, NEW k \in 0..(DeviceCount - 1), NEW d \in Downlinks,
           NEW m, m = MacUnmarshal(MacBytes(DownPlain(k, d) \o SignedCode))
    PROVE  /\ m.fPort = d.fPort
           /\ m.frm = Cipher(d.data, DownStream(k, d), DownStream(k, d))
           /\ m.addr = BigEndian(Registered(k).addr)
           /\ d.fCnt < 256 * 256 => m.fCnt = d.fCnt
           /\ m.fOpts = d.fOpts
<1>1. PICK n \in MacPayload : n = DownMac(k, d) /\ (n.fPort = NoPort => n.frm = <<>>)
  BY DownMacType
<1>2. MacBytes(DownPlain(k, d) \o SignedCode) = MacMarshal(n)
  BY <1>1, DownFrame, Zenon DEF Sealed
<1>3. PICK data : data = MacMarshal(n) /\ ReadBack(data, n)
  BY <1>1, MarshalLayout
<1>4. m = MacUnmarshal(data)
  BY <1>2, <1>3, Zenon
<1>5. /\ m.fPort = n.fPort /\ m.frm = n.frm /\ m.addr = n.addr /\ m.fOpts = n.fOpts
      /\ m.fCnt = n.fCnt % 65536 /\ n.fCnt \in Nat
  BY <1>3, <1>4 DEF ReadBack, MacPayload
<1>6. n.fCnt < 256 * 256 => m.fCnt = n.fCnt
  <2>1. PICK c \in Nat : c = n.fCnt
    BY <1>5
  <2>2. c < 256 * 256 => c % 65536 = c
    OBVIOUS
  <2>3. QED
    BY <1>5, <2>1, <2>2
<1>7. /\ n.fPort = d.fPort /\ n.frm = Cipher(d.data, DownStream(k, d), DownStream(k, d))
      /\ n.addr = BigEndian(Registered(k).addr) /\ n.fCnt = d.fCnt /\ n.fOpts = d.fOpts
  BY <1>1 DEF DownMac
<1>8. QED
  BY <1>5, <1>6, <1>7

\* Data to a device is not encrypted as data from one.
LEMMA DownIsNoUplink ==
    ASSUME Phy.mType \in {UnconfirmedDataDown, ConfirmedDataDown}
    PROVE  IsUplink(Phy) = FALSE
BY DEF IsUplink, UnconfirmedDataDown, ConfirmedDataDown, JoinRequest, UnconfirmedDataUp,
       ConfirmedDataUp, RejoinRequest

\* All of it together.
LEMMA Authentic ==
    ASSUME Inv, pc = "answered", IsDataDown, ValidMic
    PROVE  /\ Whole /\ target = self
           /\ Phy.mac.fPort = down.fPort
           /\ down.fPort # 0 =>
                  (Cipher(Phy.mac.frm, StreamOf(Phy, device.app), stream) = down.data
                       <=> device.app = Registered(self).app \/ down.data = <<>>)
<1>1. PICK i \in 0..(DeviceCount - 1), k \in 0..(DeviceCount - 1), d \in Downlinks :
         i = self /\ k = target /\ d = down
  BY DEF Inv, TypeOK
<1>2. file \in Files /\ device = Made(i) /\ stream = DownStream(k, d)
      /\ frame = DownPlain(k, d) \o SignedCode
  BY <1>1 DEF Inv, TypeOK, DeviceInv, DownInv
<1>3. /\ device.nwk = Registered(k).nwk /\ Reversed(Phy.mac.addr) = DownAddr(k)
      /\ Phy.mac.fCnt = d.fCnt /\ Plain(Phy) = DownPlain(k, d)
  <2>1. IsSigned(Phy, device.nwk, k, d)
    BY <1>1, ValidIsSigned, Zenon DEF IsSigned
  <2>2. PICK p, key : p = Phy /\ key = device.nwk
    OBVIOUS
  <2>3. IsSigned(p, key, k, d)
    BY <2>1, <2>2, Zenon
  <2>4. p.mac.fCnt = d.fCnt
    BY <2>3, SignedParts
  <2>5. /\ key = Registered(k).nwk /\ Reversed(p.mac.addr) = DownAddr(k)
        /\ Plain(p) = DownPlain(k, d)
    BY <2>3, SignedParts, Zenon
  <2>6. QED
    BY <2>2, <2>4, <2>5, Zenon
<1>4. Whole /\ Received = frame
  <2>1. PICK n \in Nat : n = Len(DownPlain(k, d)) /\ Len(frame) = n + 4
    <3>1. PICK data \in Seq(Byte) : data = MacMarshal(DownMac(k, d))
      BY <1>2, DownFrame
    <3>2. Len(DownPlain(k, d)) = Len(data) + 1 /\ Len(frame) = Len(data) + 5
      BY <1>2, <3>1, DownFrame, Zenon DEF Sealed
    <3>3. PICK m \in Nat : m = Len(data)
      BY LenProperties
    <3>4. QED
      BY <3>2, <3>3
  <2>2. n = Len(Received) - 4
    BY <1>3, <2>1, PlainLength, Zenon
  <2>3. Len(Received) \in Nat
    BY DataReceived, LenProperties
  <2>4. Len(Received) = Len(frame)
    BY <2>1, <2>2, <2>3
  <2>5. QED
    BY <2>4, WholeByLength
<1>5. i = k
  BY <1>2, <1>3, KeysDiffer, Zenon
<1>6. PICK m : m = Phy.mac
  OBVIOUS
<1>7. m.fPort = d.fPort /\ m.frm = Cipher(d.data, DownStream(k, d), DownStream(k, d))
  <2>1. m = MacUnmarshal(MacBytes(DownPlain(k, d) \o SignedCode))
    BY <1>2, <1>4, <1>6, DataReceived, Zenon
  <2>2. QED
    BY <1>2, <2>1, FrameRead
<1>8. PICK id, air : id = StreamOf(Phy, device.app) /\ air = stream
  OBVIOUS
<1>9. Cipher(m.frm, id, air) = d.data <=> id = air \/ d.data = <<>>
  <2>1. PICK data \in Seq(Byte) : data = d.data
    BY DownlinkType
  <2>2. air = DownStream(k, d) /\ m.frm = Cipher(data, air, air)
    BY <1>2, <1>7, <1>8, <2>1, Zenon
  <2>3. Cipher(Cipher(data, air, air), id, air) = data <=> id = air \/ data = <<>>
    BY CipherTwice, Zenon
  <2>4. QED
    BY <2>1, <2>2, <2>3, Zenon
<1>10. ASSUME d.fPort # 0 PROVE id = air <=> device.app = Registered(k).app
  <2>1. PICK a, b, addr, n : /\ a = device.app /\ b = Registered(k).app
                             /\ addr = DownAddr(k) /\ n = d.fCnt
    OBVIOUS
  <2>2. id = [key |-> a, up |-> FALSE, addr |-> addr, fCnt |-> n]
    BY <1>3, <1>8, <2>1, DataReceived, DownIsNoUplink, Zenon DEF StreamOf
  <2>3. air = [key |-> b, up |-> FALSE, addr |-> addr, fCnt |-> n]
    BY <1>2, <1>8, <1>10, <2>1, Zenon DEF DownStream
  <2>4. /\ [key |-> a, up |-> FALSE, addr |-> addr, fCnt |-> n].key = a
        /\ [key |-> b, up |-> FALSE, addr |-> addr, fCnt |-> n].key = b
    OBVIOUS
  <2>5. QED
    BY <2>1, <2>2, <2>3, <2>4, Zenon
<1>11. QED
  BY <1>1, <1>4, <1>5, <1>6, <1>7, <1>8, <1>9, <1>10, Zenon

\* HandledIsAuthentic holds once a device has handled data.
LEMMA HandleDataCorrect ==
    ASSUME Inv, HandleData
    PROVE  HandledIsAuthentic'
<1>1. pc = "answered" /\ IsDataDown /\ ValidMic
  BY DEF HandleData, Taken
<1>2. UNCHANGED <<file, self, device, target, down, harmed, frame>>
  BY DEF HandleData, Taken, channelVars
<1>3. PICK port, data : port = Phy.mac.fPort
                        /\ data = Cipher(Phy.mac.frm, StreamOf(Phy, device.app), stream)
  OBVIOUS
<1>4. /\ Whole /\ target = self /\ port = down.fPort
      /\ port # 0 =>
             (data = down.data <=> device.app = Registered(self).app \/ down.data = <<>>)
  BY <1>1, <1>3, Authentic, Zenon
<1>5. Whole' /\ Registered(self)' = Registered(self)
  <2>1. Whole'
    BY <1>2, <1>4, Zenon DEF Whole
  <2>2. PICK i : i = self
    OBVIOUS
  <2>3. Registered(self)' = Registered(i)
    BY <1>2, <2>2, Zenon DEF Registered
  <2>4. QED
    BY <2>1, <2>2, <2>3, Zenon
<1>6. PICK r : r = result'
  OBVIOUS
<1>7. /\ r.port = (IF port = NoPort THEN 0 ELSE port)
      /\ r.port # 0 => r.data = data
  <2>1. CASE port \in {NoPort, 0}
    <3>1. result' = [kind |-> "handled", port |-> 0, data |-> <<>>]
      BY <1>3, <2>1, Zenon DEF HandleData, Taken
    <3>2. r.port = 0
      BY <1>6, <3>1
    <3>3. QED
      BY <2>1, <3>2
  <2>2. CASE port \notin {NoPort, 0}
    <3>1. result' = [kind |-> "handled", port |-> port, data |-> data]
      BY <1>3, <2>2, Zenon DEF HandleData, Taken
    <3>2. r.port = port /\ r.data = data
      BY <1>6, <3>1
    <3>3. QED
      BY <2>2, <3>2
  <2>3. QED
    BY <2>1, <2>2
<1>8. r.port # 0 =>
          (r.data = down.data <=> device.app = Registered(self).app \/ down.data = <<>>)
  <2>1. r.port # 0 => port # 0
    BY <1>7
  <2>2. QED
    BY <1>4, <1>7, <2>1, Zenon
<1>9. /\ target' = self' /\ r.port = (IF down'.fPort = NoPort THEN 0 ELSE down'.fPort)
      /\ r.port # 0 =>
          (r.data = down'.data <=> device'.app = Registered(self)'.app \/ down'.data = <<>>)
  BY <1>2, <1>4, <1>5, <1>7, <1>8, Zenon
<1>10. QED
  BY <1>5, <1>6, <1>9, Zenon DEF HandledIsAuthentic

\* The other steps to the end of a behaviour.
LEMMA OthersHandleNothing ==
    ASSUME \/ ServerReads \/ HandleUndecodable \/ HandleJoinAccept \/ HandleUnexpected
           \/ HandleInvalid
    PROVE  result'.kind # "handled"
<1>1. CASE ServerReads
  <2>1. PICK port, data : \/ result' = [kind |-> "read", port |-> port, data |-> data]
                          \/ result' = [kind |-> "refused", port |-> 0, data |-> <<>>]
    BY <1>1, Zenon DEF ServerReads
  <2>2. QED
    BY <2>1
<1>2. CASE \/ HandleUndecodable \/ HandleJoinAccept \/ HandleUnexpected \/ HandleInvalid
  <2>1. PICK kind \in {"undecodable", "unsupported", "threw", "invalid"} : Taken(kind, 0, <<>>)
    BY <1>2 DEF HandleUndecodable, HandleJoinAccept, HandleUnexpected, HandleInvalid
  <2>2. result' = [kind |-> kind, port |-> 0, data |-> <<>>]
    BY <2>1, Zenon DEF Taken
  <2>3. QED
    BY <2>1, <2>2
<1>3. QED
  BY <1>1, <1>2

\* Where a behaviour comes to its end.
LEMMA EndStep ==
    ASSUME Inv, Next
    PROVE  \/ ServerReads \/ DownlinkFrame
           \/ pc' \notin {"read", "taken"}
<1>1. CASE InitThrows \/ SendData
  BY <1>1 DEF InitThrows, SendData
<1>2. ASSUME NEW k \in 0..(DeviceCount - 1), MakeDevice(k) PROVE pc' \notin {"read", "taken"}
  BY <1>2 DEF MakeDevice
<1>3. ASSUME NEW k \in 0..(DeviceCount - 1), NEW d \in Downlinks, ServerSends(k, d)
      PROVE  pc' \notin {"read", "taken"}
  BY <1>3 DEF ServerSends
<1>4. ASSUME NEW n \in Cuts, HarmText(n) PROVE pc' \notin {"read", "taken"}
  BY <1>4 DEF HarmText
<1>5. QED
  BY <1>1, <1>2, <1>3, <1>4, Zenon DEF Next

\* A device handles a downlink only if all its bytes came as they were sent
\* and it was sent to this device, takes its port as it was, and its payload
\* exactly if the key is the one the server has: no two of the devices of a
\* gateway, which all get the frame, accept each other's
\* (device.cpp:124-153, payload.cpp:408-467).
THEOREM HandledAuthentic == Spec => []HandledIsAuthentic
<1>1. Init => HandledIsAuthentic
  <2> SUFFICES ASSUME Init PROVE HandledIsAuthentic
    OBVIOUS
  <2>1. result.kind = "none"
    BY DEF Init, Nothing
  <2>2. QED
    BY <2>1 DEF HandledIsAuthentic
<1>2. Inv /\ HandledIsAuthentic /\ [Next]_vars => HandledIsAuthentic'
  <2> SUFFICES ASSUME Inv, HandledIsAuthentic, [Next]_vars PROVE HandledIsAuthentic'
    OBVIOUS
  <2>1. CASE pc' \notin {"read", "taken"}
    <3>1. result' = Nothing
      BY <2>1, InvStep DEF Inv, EarlyInv
    <3>2. Nothing.kind # "handled" /\ Nothing' = Nothing
      BY DEF Nothing
    <3>3. result'.kind # "handled"
      BY <3>1, <3>2, Zenon
    <3>4. QED
      BY <3>3, Zenon DEF HandledIsAuthentic
  <2>2. CASE HandleData
    BY <2>2, HandleDataCorrect
  <2>3. CASE \/ ServerReads \/ HandleUndecodable \/ HandleJoinAccept \/ HandleUnexpected
             \/ HandleInvalid
    BY <2>3, OthersHandleNothing, Zenon DEF HandledIsAuthentic
  <2>4. CASE UNCHANGED vars
    <3>1. UNCHANGED <<file, self, device, target, down, frame, harmed, result>>
      BY <2>4 DEF vars, channelVars
    <3>2. PICK i : i = self
      OBVIOUS
    <3>3. Registered(self)' = Registered(i)
      BY <3>1, <3>2, Zenon DEF Registered
    <3>4. Whole' <=> Whole
      BY <3>1, Zenon DEF Whole
    <3>5. QED
      BY <3>1, <3>2, <3>3, <3>4, Zenon DEF HandledIsAuthentic
  <2>5. QED
    BY <2>1, <2>2, <2>3, <2>4, EndStep, Zenon DEF DownlinkFrame
<1>3. QED
  BY <1>1, <1>2, InvAlways, PTL DEF Spec
-----------------------------------------------------------------------------
(* A frame that the device must handle.                                    *)

\* Its header comes back.
LEMMA HeaderRead ==
    ASSUME NEW d \in Downlinks, d.rfu = 0,
           d.mType \in (IF CharSigned THEN {UnconfirmedDataDown}
                        ELSE {UnconfirmedDataDown, ConfirmedDataDown})
    PROVE  /\ MType(DownMhdr(d)) \in {UnconfirmedDataDown, ConfirmedDataDown}
           /\ (MType(DownMhdr(d)) % 8) * 32 + (DownMhdr(d) % 4) = DownMhdr(d)
<1>1. PICK t \in {3, 5}, v \in 0..3 : t = d.mType /\ v = d.major
  BY DownlinkType DEF UnconfirmedDataDown, ConfirmedDataDown
<1>2. CharSigned => t = 3
  BY <1>1 DEF UnconfirmedDataDown
<1>3. PICK b \in Byte : b = t * 32 + v
  BY DEF Byte
<1>4. DownMhdr(d) = b
  <2>1. DownMhdr(d) = t * 32 + 0 * 4 + v
    BY <1>1, Zenon DEF DownMhdr
  <2>2. t * 32 + 0 * 4 + v = t * 32 + v
    OBVIOUS
  <2>3. QED
    BY <1>3, <2>1, <2>2, Zenon
<1>5. b \div 32 = t /\ b % 4 = v /\ (t = 3 => ~(b >= 128))
  BY <1>3
<1>6. MType(b) = t
  BY <1>2, <1>5 DEF MType
<1>7. (t % 8) * 32 + v = b
  BY <1>3
<1>8. QED
  BY <1>4, <1>5, <1>6, <1>7 DEF UnconfirmedDataDown, ConfirmedDataDown

\* And nothing throws.
LEMMA BodyRead ==
    ASSUME file \in Files, NEW k \in 0..(DeviceCount - 1), NEW d \in Downlinks,
           ~(d.fPort = 0 /\ d.fOpts # <<>>), NEW data, data = MacMarshal(DownMac(k, d))
    PROVE  ~MacUnmarshalThrows(data) /\ ~MacMarshalThrows(MacUnmarshal(data))
<1>1. PICK n \in MacPayload : n = DownMac(k, d) /\ (n.fPort = NoPort => n.frm = <<>>)
  BY DownMacType
<1>2. n.fPort = d.fPort /\ n.fOpts = d.fOpts
  BY <1>1 DEF DownMac
<1>3. data = MacMarshal(n) /\ ReadBack(data, n)
  BY <1>1, MarshalLayout
<1>4. ~MacUnmarshalThrows(data)
  <2>1. MacUnmarshalThrows(MacMarshal(n)) <=> n.fPort = 0 /\ n.fOpts # <<>> /\ n.frm # <<>>
    BY <1>1, LayoutThrows
  <2>2. QED
    BY <1>2, <1>3, <2>1, Zenon
<1>5. PICK m : m = MacUnmarshal(data)
  OBVIOUS
<1>6. m.fPort = n.fPort /\ m.frm = n.frm /\ m.fOpts = n.fOpts
  BY <1>3, <1>5 DEF ReadBack, MacPayload
<1>7. ~FhdrMarshalThrows(m)
  <2>1. PICK opts \in Seq(Byte) : opts = n.fOpts /\ Len(opts) <= 15
    BY DEF MacPayload
  <2>2. PICK len \in Nat : len = Len(opts)
    BY LenProperties
  <2>3. len <= 15
    BY <2>1, <2>2, Zenon
  <2>4. ~(len % 256 > 15)
    BY <2>3
  <2>5. QED
    BY <1>6, <2>1, <2>2, <2>4, Zenon DEF FhdrMarshalThrows
<1>8. ~MacMarshalThrows(m)
  BY <1>1, <1>2, <1>6, <1>7, Zenon DEF MacMarshalThrows
<1>9. QED
  BY <1>4, <1>5, <1>8, Zenon

\* What the server may send a device with the same key, to be sure of it.
Expected(d) ==
    /\ d.mType \in (IF CharSigned THEN {UnconfirmedDataDown}
                    ELSE {UnconfirmedDataDown, ConfirmedDataDown})
    /\ d.rfu = 0
    /\ d.fCnt < W16
    /\ ~(d.fPort = 0 /\ d.fOpts # <<>>)

\* Such a frame is data, and its code is right.
LEMMA Genuine ==
    ASSUME Inv, pc = "answered", Whole, target = self, device.nwk = Registered(self).nwk,
           Expected(down)
    PROVE  IsDataDown /\ ValidMic
<1>1. PICK k \in 0..(DeviceCount - 1), d \in Downlinks : k = target /\ d = down
  BY DEF Inv, TypeOK
<1>2. /\ file \in Files /\ frame = DownPlain(k, d) \o SignedCode /\ signed = DownSigned(k, d)
      /\ Received = frame
  BY <1>1, ReceivedType DEF Inv, TypeOK, DownInv
<1>3. PICK b \in Byte, data \in Seq(Byte) :
         /\ b = DownMhdr(d) /\ data = MacMarshal(DownMac(k, d))
         /\ DownPlain(k, d) = <<b>> \o data /\ Sealed(frame, b, data, SignedCode)
  BY <1>2, DownPlainIs, DownFrame
<1>4. PICK f \in Seq(Byte) :
         /\ f = Received /\ Len(f) = Len(data) + 5 /\ f[1] = b /\ MacBytes(f) = data
         /\ SubSeq(f, Len(f) - MicLen + 1, Len(f)) = SignedCode
  BY <1>2, <1>3, Zenon DEF Sealed
<1>5. MType(b) \in {UnconfirmedDataDown, ConfirmedDataDown} /\ (MType(b) % 8) * 32 + (b % 4) = b
  BY <1>1, <1>3, HeaderRead, Zenon DEF Expected
<1>6. ~MacUnmarshalThrows(data) /\ ~MacMarshalThrows(MacUnmarshal(data))
  BY <1>1, <1>2, <1>3, BodyRead, Zenon DEF Expected
<1>7. MType(b) \notin Unsupported
  BY <1>5, DataTypes
<1>8. PICK p : p = PhyUnmarshal(f) /\ p = Phy
  BY <1>4, Zenon DEF Phy
<1>9. p.mType = MType(b) /\ p.major = b % 4 /\ p.mac = MacUnmarshal(data) /\ p.mic = SignedCode
  <2>1. PICK t, v, m, c : t = MType(b) /\ v = b % 4 /\ m = MacUnmarshal(data) /\ c = SignedCode
    OBVIOUS
  <2>2. p = [mType |-> t, major |-> v, mac |-> m, mic |-> c]
    BY <1>4, <1>7, <1>8, <2>1, Zenon DEF PhyUnmarshal
  <2>3. p.mType = t /\ p.major = v /\ p.mac = m /\ p.mic = c
    BY <2>2
  <2>4. QED
    BY <2>1, <2>3, Zenon
<1>10. IsDataDown
  <2>1. ~(Len(f) < 1 + MicLen)
    BY <1>4, LenProperties DEF MicLen
  <2>2. ~PhyUnmarshalThrows(f)
    BY <1>4, <1>6, <2>1, Zenon DEF PhyUnmarshalThrows
  <2>3. QED
    BY <1>4, <1>5, <1>8, <1>9, <2>2, Zenon DEF IsDataDown, Decodable
<1>11. Plain(p) = DownPlain(k, d)
  <2>1. MhdrMarshal(p) = <<b>>
    BY <1>5, <1>9, Zenon DEF MhdrMarshal
  <2>2. MacMarshal(p.mac) = data
    BY <1>6, <1>9, RemarshalExact
  <2>3. QED
    BY <1>3, <2>1, <2>2, Zenon DEF Plain
<1>12. MicInput(p, device.nwk, FALSE) = DownSigned(k, d)
  <2>1. PICK m : /\ m = MacUnmarshal(data) /\ m.addr = BigEndian(Registered(k).addr)
                 /\ d.fCnt < 256 * 256 => m.fCnt = d.fCnt
    <3>1. data = MacBytes(DownPlain(k, d) \o SignedCode)
      BY <1>2, <1>4, Zenon
    <3>2. PICK m : m = MacUnmarshal(MacBytes(DownPlain(k, d) \o SignedCode))
      OBVIOUS
    <3>3. m.addr = BigEndian(Registered(k).addr) /\ (d.fCnt < 256 * 256 => m.fCnt = d.fCnt)
      BY <1>2, <3>2, FrameRead
    <3>4. QED
      BY <3>1, <3>2, <3>3
  <2>2. m.fCnt = d.fCnt
    <3>1. PICK top \in Nat, w \in Nat : top = 256 * 256 /\ w = W16 /\ w <= top
      <4>1. PICK top : top = 256 * 256
        OBVIOUS
      <4>2. top \in Nat
        BY <4>1
      <4>3. W16 \in 1..top
        BY <4>1, SessionAssumption, Zenon
      <4>4. QED
        BY <4>1, <4>2, <4>3
    <3>2. PICK c \in Nat : c = d.fCnt
      BY DownlinkType
    <3>3. c < w
      BY <1>1, <3>1, <3>2, Zenon DEF Expected
    <3>4. c < top
      BY <3>1, <3>3
    <3>5. QED
      BY <2>1, <3>1, <3>2, <3>4, Zenon
  <2>3. Reversed(p.mac.addr) = DownAddr(k) /\ p.mac.fCnt = d.fCnt
    BY <1>9, <2>1, <2>2, Zenon DEF DownAddr
  <2>4. device.nwk = Registered(k).nwk
    BY <1>1, Zenon
  <2>5. QED
    BY <1>11, <2>3, <2>4, Zenon DEF MicInput, DownSigned
<1>13. ValidMic
  <2>1. Cmac(MicInput(Phy, device.nwk, FALSE), signed) = SignedCode
    BY <1>2, <1>8, <1>12, Zenon DEF Cmac
  <2>2. QED
    BY <1>6, <1>8, <1>9, <2>1, Zenon DEF ValidMic
<1>14. QED
  BY <1>10, <1>13

\* A data frame of the server that comes as it was sent, to the device with
\* the key it was signed with, is handled: marshalling it again gives the same
\* bytes and the same code, unless a reserved bit, the upper half of the
\* counter, a type past the sign of a char or options beside a port of zero
\* get lost on the way (payload.cpp:159-216, device.cpp:124-153).
THEOREM GenuineHandled == Spec => []GenuineIsHandled
<1>1. Init => GenuineIsHandled
  BY DEF Init, GenuineIsHandled
<1>2. Inv /\ GenuineIsHandled /\ [Next]_vars => GenuineIsHandled'
  <2> SUFFICES ASSUME Inv, GenuineIsHandled, [Next]_vars PROVE GenuineIsHandled'
    OBVIOUS
  <2>1. CASE pc' # "taken"
    BY <2>1, Zenon DEF GenuineIsHandled
  <2>2. CASE DownlinkFrame
    <3>1. pc = "answered" /\ UNCHANGED <<file, self, device, target, down, frame, harmed>>
      BY <2>2 DEF DownlinkFrame, HandleUndecodable, HandleJoinAccept, HandleUnexpected,
                  HandleInvalid, HandleData, Taken, channelVars
    <3>2. PICK i : i = self
      OBVIOUS
    <3>3. Registered(self)' = Registered(i)
      BY <3>1, <3>2, Zenon DEF Registered
    <3>4. Whole' <=> Whole
      BY <3>1, Zenon DEF Whole
    <3>5. ASSUME Whole, target = self, device.nwk = Registered(i).nwk, Expected(down)
          PROVE  result'.kind = "handled"
      <4>1. IsDataDown /\ ValidMic
        BY <3>1, <3>2, <3>5, Genuine, Zenon
      <4>2. HandleData
        BY <2>2, <4>1 DEF DownlinkFrame, HandleUndecodable, HandleJoinAccept, HandleUnexpected,
                         HandleInvalid, IsDataDown, JoinAccept, UnconfirmedDataDown,
                         ConfirmedDataDown
      <4>3. PICK port, data : result' = [kind |-> "handled", port |-> port, data |-> data]
        BY <4>2, Zenon DEF HandleData, Taken
      <4>4. QED
        BY <4>3
    <3>6. QED
      BY <3>1, <3>2, <3>3, <3>4, <3>5, Zenon DEF GenuineIsHandled, Expected
  <2>3. CASE ServerReads
    BY <2>3, <2>1 DEF ServerReads
  <2>4. CASE UNCHANGED vars
    <3>1. UNCHANGED <<file, pc, self, device, target, down, frame, harmed, result>>
      BY <2>4 DEF vars, channelVars
    <3>2. PICK i : i = self
      OBVIOUS
    <3>3. Registered(self)' = Registered(i)
      BY <3>1, <3>2, Zenon DEF Registered
    <3>4. Whole' <=> Whole
      BY <3>1, Zenon DEF Whole
    <3>5. QED
      BY <3>1, <3>2, <3>3, <3>4, Zenon DEF GenuineIsHandled
  <2>5. QED
    BY <2>1, <2>2, <2>3, <2>4, EndStep, Zenon
<1>3. QED
  BY <1>1, <1>2, InvAlways, PTL DEF Spec
=============================================================================
