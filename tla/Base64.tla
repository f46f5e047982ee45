------------------------------- MODULE Base64 -------------------------------
(***************************************************************************)
(* base64_encode and base64_decode (src/util/helper.cpp), and what Base64  *)
(* is (RFC 4648) to compare them with.                                     *)
(*                                                                         *)
(* A character is its place in base64_chars, Pad, or Foreign for any       *)
(* other one.                                                              *)
(***************************************************************************)
EXTENDS Integers, Sequences

CONSTANT ValBase    \* val is an unsigned int: 2^32 in the program

Pad     == 64
Foreign == 65

\* The accumulator holds the byte at hand and at most one byte before it.
ASSUME ValAssumption == ValBase \in Nat /\ ValBase > 0 /\ ValBase % 2^16 = 0

Padded(text) == text \o [i \in 1..(-Len(text)) % 4 |-> Pad]
-----------------------------------------------------------------------------
\* The inner loop of base64_encode gives a character for every six bits there are.
Characters(val, valb) == [i \in 1..(valb \div 6 + 1) |-> (val \div 2^(valb - 6 * (i - 1))) % 64]

\* Mutant: the bits left over from the bytes before are forgotten.
EncodeByteForgets(acc, c) ==
    LET valb == acc.valb + 8
    IN  [val  |-> c,
         valb |-> valb - 6 * (valb \div 6 + 1),
         out  |-> acc.out \o Characters(c, valb)]

EncodeByte(acc, c) ==
    LET val  == (acc.val * 256 + c) % ValBase
        valb == acc.valb + 8
    IN  [val  |-> val,
         valb |-> valb - 6 * (valb \div 6 + 1),
         out  |-> acc.out \o Characters(val, valb)]

\* val, valb and out after each byte.
Encoding(bytes) ==
    LET after[n \in 0..Len(bytes)] ==
            IF n = 0 THEN [val |-> 0, valb |-> -6, out |-> <<>>]
            ELSE EncodeByte(after[n - 1], bytes[n])
    IN  after

Encode(bytes) ==
    LET end  == Encoding(bytes)[Len(bytes)]
        rest == (((end.val * 256) % ValBase) \div 2^(end.valb + 8)) % 64
    IN  Padded(IF end.valb > -6 THEN Append(end.out, rest) ELSE end.out)

DecodeChar(acc, c) ==
    LET val  == (acc.val * 64 + c) % ValBase
        valb == acc.valb + 6
    IN  IF valb >= 0
        THEN [val |-> val, valb |-> valb - 8,
              out |-> Append(acc.out, (val \div 2^valb) % 256)]
        ELSE [val |-> val, valb |-> valb, out |-> acc.out]

\* The same after each character.
Decoding(text) ==
    LET after[n \in 0..Len(text)] ==
            IF n = 0 THEN [val |-> 0, valb |-> -8, out |-> <<>>]
            ELSE DecodeChar(after[n - 1], text[n])
    IN  after

\* Padding or a foreign character ends the loop, whatever follows.
LoopEnd(text) ==
    CHOOSE n \in 0..Len(text) :
        /\ \A i \in 1..n : text[i] < Pad
        /\ n = Len(text) \/ text[n + 1] >= Pad

Decode(text) == Decoding(text)[LoopEnd(text)].out
-----------------------------------------------------------------------------
\* The reference: the bits of the bytes, most significant first and followed
\* by zeros, six to a character.
Bit(bytes, n) ==
    IF n >= 8 * Len(bytes) THEN 0
    ELSE (bytes[n \div 8 + 1] \div 2^(7 - (n % 8))) % 2

CharCount(length) == (8 * length + 5) \div 6

Sextet(bytes, i) ==
    LET digit(b) == Bit(bytes, 6 * (i - 1) + b) * 2^(5 - b)
    IN  digit(0) + digit(1) + digit(2) + digit(3) + digit(4) + digit(5)

Base64Of(bytes) == Padded([i \in 1..CharCount(Len(bytes)) |-> Sextet(bytes, i)])
=============================================================================
