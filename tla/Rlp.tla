-------------------------------- MODULE Rlp --------------------------------
(***************************************************************************)
(* RLP as src/eth.rs writes and reads it.  A byte string is a sequence of  *)
(* numbers below Base.  The prefix bytes are placed in a byte's range as   *)
(* RLP places them: Radix = 16 (so Base = 256) and WordBytes = 8 give      *)
(* 0x80, 55, 0xb7, 0xc0 and 0xf7, and a smaller byte keeps every boundary. *)
(* A u64 has WordBytes bytes and a u128 twice as many.                     *)
(***************************************************************************)
EXTENDS Hex
Seqs == INSTANCE SequencesExt   \* FlattenSeq

CONSTANT WordBytes  \* bytes of a u64, which a usize is too

ASSUME RlpAssumption ==
    /\ Radix % 2 = 0
    /\ WordBytes \in Nat \ {0}
    /\ Base \div 4 > WordBytes + 1

\* How many values k bytes have.
Power[k \in 0 .. 2 * WordBytes] == IF k = 0 THEN 1 ELSE Base * Power[k - 1]

U64 == Power[WordBytes]
U128 == Power[2 * WordBytes]

StringBase == Base \div 2               \* 0x80
Short == Base \div 4 - 1 - WordBytes    \* 55
ListBase == StringBase + Base \div 4    \* 0xc0
-----------------------------------------------------------------------------
\* The shortest big-endian digits of a u128: none for zero.
MinimalBe(n) ==
    LET len == CHOOSE d \in 0 .. 2 * WordBytes :
                   n < Power[d] /\ (d > 0 => n >= Power[d - 1])
    IN  [i \in 1 .. len |-> (n \div Power[len - i]) % Base]

LengthPrefix(len, base) ==
    IF len <= Short
      THEN <<base + len>>
      ELSE <<base + Short + Len(MinimalBe(len))>> \o MinimalBe(len)

RlpBytes(bytes) ==
    IF Len(bytes) = 1 /\ bytes[1] < StringBase
      THEN bytes
      ELSE LengthPrefix(Len(bytes), StringBase) \o bytes

RlpList(items) ==
    LET payload == Seqs!FlattenSeq(items)
    IN  LengthPrefix(Len(payload), ListBase) \o payload

RlpUint(n) == RlpBytes(MinimalBe(n))

\* Mutant of StripLeadingZeros: fixed-width integers are written as they are.
StripNothing(bytes) == bytes

StripLeadingZeros(bytes) ==
    LET first == CHOOSE i \in 1 .. Len(bytes) + 1 :
                     /\ \A j \in 1 .. i - 1 : bytes[j] = 0
                     /\ i <= Len(bytes) => bytes[i] # 0
    IN  SubSeq(bytes, first, Len(bytes))
-----------------------------------------------------------------------------
\* Shifting digits into a word of the given size: what overflows is lost.
BeTo(bytes, word) ==
    LET acc[i \in 0 .. Len(bytes)] ==
            IF i = 0 THEN 0 ELSE (acc[i - 1] * Base + bytes[i]) % word
    IN  acc[Len(bytes)]

BeToU64(bytes) == BeTo(bytes, U64)
BeToU128(bytes) == BeTo(bytes, U128)

Decoded(item, next) == [ok |-> TRUE, item |-> item, next |-> next]
Undecodable == [ok |-> FALSE, item |-> << >>, next |-> 0]

\* input.get(start..start + len) with indices from 0; the sum wraps, as in a
\* release build, and a range that runs backwards yields nothing.
Slice(input, start, len) ==
    LET upTo(end) == IF start <= end /\ end <= Len(input)
                       THEN Decoded(SubSeq(input, start + 1, end), end)
                       ELSE Undecodable
    IN  upTo((start + len) % U64)

\* The bytes after a length that was itself read from the input.
SliceOfRead(input, size) ==
    IF size.ok THEN Slice(input, size.next, BeToU64(size.item)) ELSE Undecodable

\* Mutant of DecodeString: the size of a length is off by one.
DecodeStringShortLength(input, pos) ==
    LET prefix == input[pos + 1]
    IN  IF prefix < StringBase
          THEN Decoded(<<prefix>>, pos + 1)
        ELSE IF prefix <= StringBase + Short
          THEN Slice(input, pos + 1, prefix - StringBase)
        ELSE SliceOfRead(input, Slice(input, pos + 1, prefix - StringBase - Short - 1))

DecodeString(input, pos) ==
    IF pos >= Len(input) \/ input[pos + 1] >= ListBase
      THEN Undecodable
      ELSE LET prefix == input[pos + 1]
           IN  IF prefix < StringBase
                 THEN Decoded(<<prefix>>, pos + 1)
               ELSE IF prefix <= StringBase + Short
                 THEN Slice(input, pos + 1, prefix - StringBase)
               ELSE SliceOfRead(input, Slice(input, pos + 1, prefix - StringBase - Short))

\* One round of the loop: the string at the cursor joins those before it.
Advanced(input, end, read) ==
    LET followed(string) ==
            IF string.ok THEN Decoded(Append(read.item, string.item), string.next)
                         ELSE Undecodable
    IN  IF read.ok /\ read.next < end
          THEN followed(DecodeString(input, read.next))
          ELSE read

\* The strings from start on, until end is reached; the last one may run past
\* it.  Every round moves the cursor.
DecodeItems(input, start, end) ==
    LET read[round \in 0 .. Len(input)] ==
            IF round = 0 THEN Decoded(<< >>, start)
                         ELSE Advanced(input, end, read[round - 1])
    IN  IF end <= Len(input) THEN read[Len(input)] ELSE Undecodable

\* The items of a list whose length has been read.
DecodeLongList(input, size) ==
    IF size.ok
      THEN DecodeItems(input, size.next, (size.next + BeToU64(size.item)) % U64)
      ELSE Undecodable

DecodeFlatList(input) ==
    IF input = << >> \/ input[1] < ListBase
      THEN Undecodable
    ELSE IF input[1] <= ListBase + Short
      THEN DecodeItems(input, 1, 1 + input[1] - ListBase)
    ELSE DecodeLongList(input, Slice(input, 1, input[1] - ListBase - Short))

\* src is no longer than size; the code panics when it is.
LeftPad(src, size) ==
    [i \in 1 .. size |->
        IF i <= size - Len(src) THEN 0 ELSE src[i - (size - Len(src))]]
=============================================================================
