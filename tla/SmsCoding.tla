------------------------------ MODULE SmsCoding ------------------------------
(***************************************************************************)
(* utils/smsCoding.cpp: the pure functions between text, seven-bit         *)
(* characters, packed octets, and half-octets of telephone numbers.        *)
(* Characters and octets are their codes.                                  *)
(***************************************************************************)
EXTENDS Integers, Sequences

CONSTANT CharIsSigned   \* is `char` signed in this build?  (AVR: yes, ARM and Xtensa: no)

ASSUME CharAssumption == CharIsSigned \in BOOLEAN

-----------------------------------------------------------------------------
(* Characters *)

\* The characters that have the same code in ASCII and in GSM 03.38.
SameInBoth == ((32 .. 90) \ {36, 64}) \cup (97 .. 122) \cup {10, 13}

\* A kept character is marked by 0xFF in a `char` and then compared with 0xFF:
\* equal only where `char` is unsigned.
EncodeChar(c) == CASE c = 36 -> 2
                   [] c = 64 -> 0
                   [] c \in SameInBoth -> IF CharIsSigned THEN 255 ELSE c
                   [] c = 95 -> 17
                   [] OTHER -> 63

DecodeChar(c) == CASE c \in SameInBoth -> c
                   [] c = 0 -> 64
                   [] c = 2 -> 36
                   [] c = 17 -> 95
                   [] OTHER -> 63

encodeGSM(text) == [i \in 1 .. Len(text) |-> EncodeChar(text[i])]
decodeGSM(chars) == [i \in 1 .. Len(chars) |-> DecodeChar(chars[i])]

\* Two octets a character, the high one first; only ASCII is kept.
decodeUCS2(octets, n) ==
  [i \in 1 .. n |-> IF octets[2*i - 1] = 0 /\ octets[2*i] < 128 THEN octets[2*i] ELSE 63]

-----------------------------------------------------------------------------
(* Packing, as loops over a buffer of bits *)

\* The inner loop runs at most twice: a character fills seven of eight bits.
LoadChar(s, chars) ==
  IF s.bits < 8 /\ s.next <= Len(chars)
  THEN [s EXCEPT !.buffer = @ + (chars[s.next] % 128) * 2^s.bits,
                 !.bits = @ + 7,
                 !.next = @ + 1]
  ELSE s

StoreOctet(s) == [s EXCEPT !.out = Append(@, s.buffer % 256),
                           !.buffer = @ \div 256,
                           !.bits = IF @ < 8 THEN 0 ELSE @ - 8]

MoreToPack(s, chars) == s.bits > 0 \/ s.next <= Len(chars)

pack7Bit(chars, fillbits) ==
  LET round[n \in Nat] ==
        IF n = 0
        THEN [buffer |-> 0, bits |-> fillbits, next |-> 1, out |-> <<>>]
        ELSE LET s == round[n - 1] IN
             IF n = 1 \/ MoreToPack(s, chars)
             THEN StoreOctet(LoadChar(LoadChar(s, chars), chars))
             ELSE s
  IN  round[Len(chars) + 1].out

LoadOctet(s, octets) ==
  IF s.bits < 7
  THEN [s EXCEPT !.buffer = @ + octets[s.next] * 2^s.bits,
                 !.bits = @ + 8,
                 !.next = @ + 1]
  ELSE s

ExtractChar(s) == [s EXCEPT !.out = Append(@, s.buffer % 128),
                            !.buffer = @ \div 128,
                            !.bits = @ - 7]

unpack7Bit(octets, evalChars, fillbits) ==
  LET round[n \in Nat] ==
        IF n = 0
        THEN IF fillbits = 0
             THEN [buffer |-> 0, bits |-> 0, next |-> 1, out |-> <<>>]
             ELSE [buffer |-> octets[1] \div 2^fillbits, bits |-> 8 - fillbits,
                   next |-> 2, out |-> <<>>]
        ELSE ExtractChar(LoadOctet(round[n - 1], octets))
  IN  round[evalChars].out

-----------------------------------------------------------------------------
(* Telephone numbers: two digits an octet, the low half first *)

storeBcdDigits(digits) ==
  [i \in 1 .. (Len(digits) + 1) \div 2 |->
     digits[2*i - 1] + 16 * (IF 2*i <= Len(digits) THEN digits[2*i] ELSE 15)]

extractBcdDigits(octets, n) ==
  [i \in 1 .. n |-> IF i % 2 = 1 THEN octets[(i + 1) \div 2] % 16
                                 ELSE octets[i \div 2] \div 16]

-----------------------------------------------------------------------------
(* Hexadecimal digits, by their codes *)

hexToNibble(c) == (c % 16) + (IF c >= 65 THEN 9 ELSE 0)
nibble2hex(n) == IF n < 10 THEN n + 48 ELSE n - 10 + 65
hexPairToByte(high, low) == hexToNibble(high) * 16 + hexToNibble(low)
byteTohexPair(octet) == <<nibble2hex(octet \div 16), nibble2hex(octet % 16)>>

\* What SMSCommands.send() writes and SMSCommands.read() takes back.
HexOf(octets) == [i \in 1 .. 2 * Len(octets) |-> byteTohexPair(octets[(i + 1) \div 2])[2 - (i % 2)]]
FromHex(hex) == [i \in 1 .. Len(hex) \div 2 |-> hexPairToByte(hex[2*i - 1], hex[2*i])]
=============================================================================
