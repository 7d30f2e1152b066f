-------------------------------- MODULE Hex --------------------------------
(***************************************************************************)
(* The hexadecimal texts of src/util.rs.  A byte is two digits of base     *)
(* Radix (16 in the code; a smaller one keeps every case).  A text is a    *)
(* record: its prefix, whether blanks surround it, and its characters.  A  *)
(* digit in upper case is the same character as in lower case; characters  *)
(* that are not digits are Plus and Other.                                 *)
(***************************************************************************)
EXTENDS Integers, Sequences

CONSTANT Radix

ASSUME HexAssumption == Radix \in Nat /\ Radix > 1

Base == Radix * Radix
Digits == 0 .. Radix - 1
Bytes == 0 .. Base - 1
Plus == Radix
Other == Radix + 1

Text(padded, prefix, body) ==
    [padded |-> padded, prefix |-> prefix, body |-> body]

HexLower(bytes) ==
    [i \in 1 .. 2 * Len(bytes) |->
        IF i % 2 = 1 THEN bytes[(i + 1) \div 2] \div Radix
                     ELSE bytes[i \div 2] % Radix]

PrefixedHex(bytes) == Text(FALSE, "0x", HexLower(bytes))

Readable(bytes) == [ok |-> TRUE, bytes |-> bytes]
Unreadable == [ok |-> FALSE, bytes |-> << >>]

\* u8::from_str_radix on two characters: a leading plus sign is accepted.
TwoDigits(high, low) == low \in Digits /\ high \in Digits \cup {Plus}
ByteOf(high, low) == IF high = Plus THEN low ELSE high * Radix + low

DecodeHexBody(body) ==
    IF /\ Len(body) % 2 = 0
       /\ \A i \in 1 .. Len(body) \div 2 : TwoDigits(body[2 * i - 1], body[2 * i])
      THEN Readable([i \in 1 .. Len(body) \div 2 |->
                        ByteOf(body[2 * i - 1], body[2 * i])])
      ELSE Unreadable

\* Blanks around the text and either prefix are dropped.
DecodeFlexibleHex(text) == DecodeHexBody(text.body)

\* Mutant of DecodeFixedHex: shorter texts are accepted too.
DecodeShortHex(text, size) ==
    LET read == DecodeFlexibleHex(text)
    IN  IF read.ok /\ Len(read.bytes) <= size THEN read ELSE Unreadable

DecodeFixedHex(text, size) ==
    LET read == DecodeFlexibleHex(text)
    IN  IF read.ok /\ Len(read.bytes) = size THEN read ELSE Unreadable

ParseAddress(text, size) ==
    IF text.prefix = "" THEN Unreadable ELSE DecodeFixedHex(text, size)
=============================================================================
