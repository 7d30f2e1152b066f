----------------------------- MODULE RlpProofs -----------------------------
(***************************************************************************)
(* What is written as RLP is read back, for every base, every word and     *)
(* every length: numbers, strings, flat lists, and hexadecimal around      *)
(* them.  Recursive functions are reached by induction on the naturals,    *)
(* which is the well-foundedness of <.                                     *)
(***************************************************************************)
EXTENDS Transfer, SequenceTheorems, WellFoundedInduction, TLAPS

-----------------------------------------------------------------------------
\* Induction.

\* A set of naturals has a least element.
LEMMA Least ==
    ASSUME NEW S, S \subseteq Nat, NEW n \in S
    PROVE  \E m \in S : \A k \in S : m <= k
<1>1. IsWellFoundedOn(OpToRel(<, Nat), Nat)
  BY NatLessThanWellFounded, Zenon
<1>2. PICK m \in S : \A k \in S : <<k, m>> \notin OpToRel(<, Nat)
  BY <1>1, WFMin
<1>3. \A k \in S : ~(k < m)
  BY <1>2 DEF OpToRel
<1> QED
  BY <1>3

LEMMA NumbersByInduction ==
    ASSUME NEW S, 0 \in S, \A k \in Nat : k \in S => k + 1 \in S
    PROVE  Nat \subseteq S
<1> SUFFICES ASSUME NEW n \in Nat, n \notin S
             PROVE  FALSE
  OBVIOUS
<1> DEFINE T == {k \in Nat : k \notin S}
<1>1. PICK m \in T : \A k \in T : m <= k
  BY Least
<1>2. m \in Nat \ {0} /\ m \notin S
  BY <1>1
<1>3. m - 1 \in Nat /\ m - 1 \notin T
  BY <1>1, <1>2
<1>4. m - 1 + 1 \in S
  BY <1>3
<1> QED
  BY <1>2, <1>4

\* The value of f at i is made of the one before it.
Follows(f, F, n) == \A i \in 1 .. n : f[i] = F[<<i, f[i - 1]>>]

\* Recursion over an interval defines a function.
LEMMA Recursion ==
    ASSUME NEW X, NEW x \in X, NEW N \in Nat, NEW F \in [(1 .. N) \X X -> X]
    PROVE  \E f \in [0 .. N -> X] : f[0] = x /\ Follows(f, F, N)
<1> DEFINE Defined(n) == \E f \in [0 .. n -> X] : f[0] = x /\ Follows(f, F, n)
           S == {n \in Nat : n <= N => Defined(n)}
<1>1. 0 \in S
  <2> DEFINE g == [k \in 0 .. 0 |-> x]
  <2>1. g \in [0 .. 0 -> X] /\ g[0] = x /\ Follows(g, F, 0)
    BY DEF Follows
  <2> QED
    BY <2>1
<1>2. ASSUME NEW n \in Nat, n \in S
      PROVE  n + 1 \in S
  <2> SUFFICES ASSUME n + 1 <= N
               PROVE  Defined(n + 1)
    OBVIOUS
  <2>1. PICK g \in [0 .. n -> X] : g[0] = x /\ Follows(g, F, n)
    BY <1>2
  <2> DEFINE h == [k \in 0 .. n + 1 |-> IF k = n + 1 THEN F[<<n + 1, g[n]>>] ELSE g[k]]
  <2>2. h[n + 1] = F[<<n + 1, g[n]>>] /\ \A k \in 0 .. n : h[k] = g[k]
    OBVIOUS
  <2>3. g[n] \in X /\ <<n + 1, g[n]>> \in (1 .. N) \X X
    BY <2>1
  <2>4. h \in [0 .. n + 1 -> X]
    BY <2>1, <2>3
  <2> HIDE DEF h
  <2>5. ASSUME NEW i \in 1 .. n + 1
        PROVE  h[i] = F[<<i, h[i - 1]>>]
    <3>1. CASE i = n + 1
      <4>1. h[i - 1] = g[n]
        BY <2>2, <3>1
      <4> QED
        BY <2>2, <3>1, <4>1
    <3>2. CASE i # n + 1
      <4>1. i \in 1 .. n /\ i - 1 \in 0 .. n /\ i \in 0 .. n
        BY <3>2
      <4>2. h[i] = g[i] /\ h[i - 1] = g[i - 1]
        BY <2>2, <4>1
      <4> QED
        BY <2>1, <4>1, <4>2 DEF Follows
    <3> QED
      BY <3>1, <3>2
  <2>6. h[0] = x
    BY <2>1, <2>2
  <2> QED
    BY <2>4, <2>5, <2>6 DEF Follows
<1>3. Nat \subseteq S
  BY <1>1, <1>2, NumbersByInduction
<1>4. N \in S
  BY <1>3
<1> QED
  BY <1>4 DEF S

-----------------------------------------------------------------------------
\* Arithmetic.

LEMMA BaseIsNat == Base \in Nat /\ Base > 1
<1>1. \A r \in Nat : r > 1 => r * r \in Nat /\ r * r > 1
  OBVIOUS
<1> QED
  BY <1>1, HexAssumption DEF HexAssumption, Base

\* The prefix bytes are in their order and in a byte's range.
LEMMA Prefixes ==
    /\ WordBytes \in Nat \ {0}
    /\ StringBase \in Nat /\ Short \in Nat \ {0} /\ ListBase \in Nat
    /\ StringBase + Short + WordBytes < ListBase
    /\ ListBase + Short + WordBytes < Base
<1>1. PICK b \in Nat : b = Base /\ b > 1
  BY BaseIsNat
<1>2. PICK w \in Nat \ {0} : w = WordBytes /\ b \div 4 > w + 1
  BY <1>1, RlpAssumption DEF RlpAssumption
<1>3. /\ StringBase = b \div 2 /\ Short = b \div 4 - 1 - w
      /\ ListBase = b \div 2 + b \div 4
  BY <1>1, <1>2 DEF StringBase, Short, ListBase
<1>4. b \div 2 \in Nat /\ b \div 4 \in Nat /\ b \div 2 + b \div 4 + b \div 4 <= b
  OBVIOUS
<1>5. PICK h \in Nat, q \in Nat : h = b \div 2 /\ q = b \div 4
  BY <1>4
<1>6. h + q + q <= b /\ q > w + 1
  BY <1>2, <1>4, <1>5
<1>7. StringBase = h /\ Short = q - 1 - w /\ ListBase = h + q
  BY <1>3, <1>5
<1> QED
  BY <1>1, <1>2, <1>6, <1>7

LEMMA PowerIsFollowed ==
    /\ Power[0] = 1
    /\ \A k \in 1 .. 2 * WordBytes : Power[k] = Base * Power[k - 1]
    /\ \A k \in 0 .. 2 * WordBytes : Power[k] \in Nat \ {0}
<1>1. PICK N \in Nat : N = 2 * WordBytes
  BY Prefixes
<1> DEFINE F == [p \in (1 .. N) \X (Nat \ {0}) |-> Base * p[2]]
           IsPower(f) == f = [k \in 0 .. N |-> IF k = 0 THEN 1 ELSE Base * f[k - 1]]
<1>2. F \in [(1 .. N) \X (Nat \ {0}) -> Nat \ {0}]
  <2>1. \A b, n \in Nat \ {0} : b * n \in Nat \ {0}
    OBVIOUS
  <2>2. Base \in Nat \ {0}
    BY BaseIsNat
  <2> QED
    BY <2>1, <2>2
<1>3. PICK f \in [0 .. N -> Nat \ {0}] : f[0] = 1 /\ Follows(f, F, N)
  <2> HIDE DEF F
  <2>1. 1 \in Nat \ {0}
    OBVIOUS
  <2> QED
    BY <1>2, <2>1, Recursion, Zenon
<1>4. IsPower(f)
  <2>1. ASSUME NEW k \in 0 .. N, k # 0
        PROVE  f[k] = Base * f[k - 1]
    <3>1. k \in 1 .. N /\ k - 1 \in 0 .. N
      BY <2>1
    <3>2. f[k - 1] \in Nat \ {0} /\ <<k, f[k - 1]>> \in (1 .. N) \X (Nat \ {0})
      BY <3>1
    <3>3. f[k] = F[<<k, f[k - 1]>>]
      BY <1>3, <3>1 DEF Follows
    <3> QED
      BY <3>2, <3>3
  <2> HIDE DEF F
  <2> QED
    BY <1>3, <2>1
<1>5. Power = CHOOSE g : IsPower(g)
  BY <1>1 DEF Power
<1>6. IsPower(Power)
  BY <1>4, <1>5
<1>7. /\ Power[0] = 1
      /\ \A k \in 1 .. N : Power[k] = Base * Power[k - 1]
  BY <1>6
<1>8. \A k \in 0 .. N : Power[k] \in Nat \ {0}
  <2> DEFINE S == {k \in Nat : k <= N => Power[k] \in Nat \ {0}}
  <2>1. 0 \in S
    BY <1>7
  <2>2. ASSUME NEW k \in Nat, k \in S
        PROVE  k + 1 \in S
    <3> SUFFICES ASSUME k + 1 <= N
                 PROVE  Power[k + 1] \in Nat \ {0}
      OBVIOUS
    <3>1. Power[k + 1] = Base * Power[k] /\ Power[k] \in Nat \ {0}
      BY <1>7, <2>2
    <3>2. \A b, n \in Nat \ {0} : b * n \in Nat \ {0}
      OBVIOUS
    <3> QED
      BY <3>1, <3>2, BaseIsNat
  <2>3. Nat \subseteq S
    <3> HIDE DEF S
    <3> QED
      BY <2>1, <2>2, NumbersByInduction
  <2> QED
    BY <2>3
<1> QED
  BY <1>1, <1>7, <1>8

LEMMA PowerGrows ==
    ASSUME NEW i \in 0 .. 2 * WordBytes, NEW j \in i .. 2 * WordBytes
    PROVE  Power[i] <= Power[j]
<1> DEFINE S == {k \in Nat : i + k <= 2 * WordBytes => Power[i] <= Power[i + k]}
<1>1. 0 \in S
  BY PowerIsFollowed
<1>2. ASSUME NEW k \in Nat, k \in S
      PROVE  k + 1 \in S
  <2> SUFFICES ASSUME i + (k + 1) <= 2 * WordBytes
               PROVE  Power[i] <= Power[i + (k + 1)]
    OBVIOUS
  <2>1. i + k \in 0 .. 2 * WordBytes /\ i + k + 1 \in 1 .. 2 * WordBytes /\ i + k + 1 - 1 = i + k
    BY Prefixes
  <2>2. Power[i + k + 1] = Base * Power[i + k] /\ Power[i + k] \in Nat
    BY <2>1, PowerIsFollowed
  <2>3. Power[i] <= Power[i + k] /\ Power[i] \in Nat
    BY <1>2, <2>1, PowerIsFollowed
  <2>4. \A b, n, m \in Nat : b > 1 /\ m <= n => m <= b * n
    OBVIOUS
  <2>5. Power[i] <= Base * Power[i + k]
    BY <2>2, <2>3, <2>4, BaseIsNat
  <2>6. i + (k + 1) = i + k + 1
    OBVIOUS
  <2> QED
    BY <2>2, <2>5, <2>6
<1>3. Nat \subseteq S
  <2> HIDE DEF S
  <2> QED
    BY <1>1, <1>2, NumbersByInduction
<1>4. j - i \in S /\ i + (j - i) = j /\ j <= 2 * WordBytes
  BY <1>3, Prefixes
<1> QED
  BY <1>4

LEMMA WordsAreNat ==
    /\ U64 \in Nat \ {0} /\ U128 \in Nat \ {0} /\ U64 <= U128 /\ U64 >= Base
<1>1. WordBytes \in 0 .. 2 * WordBytes /\ 2 * WordBytes \in WordBytes .. 2 * WordBytes
  BY Prefixes
<1>2. 1 \in 0 .. 2 * WordBytes /\ WordBytes \in 1 .. 2 * WordBytes /\ 0 \in 0 .. 2 * WordBytes
  BY Prefixes
<1>3. Power[1] = Base
  BY <1>2, PowerIsFollowed, BaseIsNat
<1> QED
  BY <1>1, <1>2, <1>3, PowerIsFollowed, PowerGrows DEF U64, U128

LEMMA Division ==
    ASSUME NEW n \in Nat, NEW p \in Nat \ {0}
    PROVE  /\ n \div p \in Nat /\ n % p \in 0 .. p - 1
           /\ n = p * (n \div p) + (n % p)
  OBVIOUS

LEMMA Quotient ==
    ASSUME NEW p \in Nat \ {0}, NEW q \in Nat, NEW r \in 0 .. p - 1
    PROVE  (p * q + r) \div p = q
  OBVIOUS

LEMMA FunctionIsSeq ==
    ASSUME NEW S, NEW d \in Nat, NEW f \in [1 .. d -> S]
    PROVE  f \in Seq(S) /\ Len(f) = d
  OBVIOUS

LEMMA SmallRemainder == \A w \in Nat : \A k \in 0 .. w - 1 : k % w = k
  OBVIOUS

\* Dividing by a product is dividing twice.
LEMMA DivideTwice ==
    ASSUME NEW n \in Nat, NEW p \in Nat \ {0}, NEW b \in Nat \ {0}
    PROVE  n \div (b * p) = (n \div p) \div b
<1>1. PICK q \in Nat, r \in 0 .. p - 1 : q = n \div p /\ n = p * q + r
  BY Division
<1>2. PICK s \in Nat, t \in 0 .. b - 1 : s = q \div b /\ q = b * s + t
  BY Division
<1>3. n = (b * p) * s + (p * t + r)
  <2>1. p * (b * s + t) = (b * p) * s + p * t
    OBVIOUS
  <2>2. p * q = (b * p) * s + p * t
    BY <1>2, <2>1
  <2>3. (b * p) * s \in Int /\ p * t \in Int
    OBVIOUS
  <2>4. \A x, y \in Int : x + y + r = x + (y + r)
    OBVIOUS
  <2>5. (b * p) * s + p * t + r = (b * p) * s + (p * t + r)
    BY <2>3, <2>4
  <2> QED
    BY <1>1, <2>2, <2>5
<1>4. p * t + r \in 0 .. b * p - 1
  <2>1. p * t <= p * (b - 1) /\ p * t \in Nat
    OBVIOUS
  <2>2. p * (b - 1) = b * p - p /\ b * p \in Nat
    OBVIOUS
  <2>3. PICK x \in Nat, y \in Nat : x = p * t /\ y = b * p
    BY <2>1, <2>2
  <2> QED
    BY <2>1, <2>2, <2>3
<1>5. b * p \in Nat \ {0}
  OBVIOUS
<1>6. n \div (b * p) = s
  BY <1>3, <1>4, <1>5, Quotient
<1> QED
  BY <1>1, <1>2, <1>6

-----------------------------------------------------------------------------
\* Numbers as bytes.

\* A number has d digits when it has no more and, if any, no fewer.
HasDigits(n, d) == n < Power[d] /\ (d > 0 => n >= Power[d - 1])

LEMMA MinimalBeIs ==
    ASSUME NEW n \in 0 .. U128 - 1
    PROVE  \E d \in 0 .. 2 * WordBytes :
               /\ HasDigits(n, d)
               /\ MinimalBe(n) = [i \in 1 .. d |-> (n \div Power[d - i]) % Base]
<1> DEFINE S == {d \in 0 .. 2 * WordBytes : n < Power[d]}
           width == CHOOSE d \in 0 .. 2 * WordBytes : HasDigits(n, d)
<1>1. 2 * WordBytes \in S /\ S \subseteq Nat
  BY Prefixes, WordsAreNat DEF U128
<1>2. PICK d \in S : \A k \in S : d <= k
  BY <1>1, Least
<1>3. HasDigits(n, d)
  <2> SUFFICES ASSUME d > 0
               PROVE  n >= Power[d - 1]
    BY <1>2 DEF HasDigits
  <2>1. d - 1 \in 0 .. 2 * WordBytes /\ d - 1 \notin S
    BY <1>2, Prefixes
  <2>2. ~(n < Power[d - 1]) /\ Power[d - 1] \in Nat
    BY <2>1, PowerIsFollowed
  <2> QED
    BY <2>2
<1>4. width \in 0 .. 2 * WordBytes /\ HasDigits(n, width)
  BY <1>2, <1>3
<1>5. MinimalBe(n) = [i \in 1 .. width |-> (n \div Power[width - i]) % Base]
  BY DEF MinimalBe, HasDigits
<1> HIDE DEF width
<1> QED
  BY <1>4, <1>5

\* A number's bytes: how many, and that the first is not zero.
LEMMA MinimalBeType ==
    ASSUME NEW n \in 0 .. U128 - 1
    PROVE  /\ MinimalBe(n) \in Seq(Bytes)
           /\ Len(MinimalBe(n)) \in 0 .. 2 * WordBytes
           /\ n > 0 => Len(MinimalBe(n)) > 0
           /\ n < U64 => Len(MinimalBe(n)) <= WordBytes
           /\ MinimalBe(n) # << >> => MinimalBe(n)[1] # 0
<1>1. PICK d \in 0 .. 2 * WordBytes :
               /\ HasDigits(n, d)
               /\ MinimalBe(n) = [i \in 1 .. d |-> (n \div Power[d - i]) % Base]
  BY MinimalBeIs
<1>2. n \in Nat /\ d \in Nat /\ WordBytes \in Nat \ {0}
  BY WordsAreNat, Prefixes
<1>3. ASSUME NEW i \in 1 .. d
      PROVE  /\ (n \div Power[d - i]) \in Nat
             /\ (n \div Power[d - i]) % Base \in Bytes
  <2>1. Power[d - i] \in Nat \ {0}
    <3>1. d - i \in 0 .. 2 * WordBytes
      BY <1>2
    <3> QED
      BY <3>1, PowerIsFollowed
  <2>2. (n \div Power[d - i]) \in Nat
    BY <1>2, <2>1, Division
  <2>3. \A q \in Nat : q % Base \in Bytes
    BY BaseIsNat DEF Bytes
  <2> QED
    BY <2>2, <2>3, Zenon
<1>4. MinimalBe(n) \in Seq(Bytes) /\ Len(MinimalBe(n)) = d
  <2> DEFINE digits == [i \in 1 .. d |-> (n \div Power[d - i]) % Base]
  <2>1. digits \in [1 .. d -> Bytes]
    BY <1>3
  <2> HIDE DEF digits
  <2>2. digits \in Seq(Bytes) /\ Len(digits) = d
    BY <1>2, <2>1, FunctionIsSeq
  <2> QED
    BY <1>1, <2>2 DEF digits
<1>5. n > 0 => d > 0
  BY <1>1, PowerIsFollowed DEF HasDigits
<1>6. ASSUME n < U64
      PROVE  d <= WordBytes
  <2> SUFFICES ASSUME d > WordBytes
               PROVE  FALSE
    BY <1>2
  <2>1. WordBytes \in 0 .. 2 * WordBytes /\ d - 1 \in WordBytes .. 2 * WordBytes
    BY <1>2
  <2>2. Power[WordBytes] <= Power[d - 1] /\ Power[d - 1] \in Nat /\ Power[WordBytes] \in Nat
    <3>1. d - 1 \in 0 .. 2 * WordBytes
      BY <1>2, <2>1
    <3> QED
      BY <2>1, <3>1, PowerGrows, PowerIsFollowed
  <2>3. n >= Power[d - 1]
    BY <1>1, <1>2 DEF HasDigits
  <2> QED
    BY <1>2, <1>6, <2>2, <2>3 DEF U64
<1>7. ASSUME d > 0
      PROVE  MinimalBe(n)[1] # 0
  <2>1. d - 1 \in 0 .. 2 * WordBytes /\ d \in 1 .. 2 * WordBytes /\ 1 \in 1 .. d
    BY <1>2, <1>7
  <2>2. PICK p \in Nat \ {0} : p = Power[d - 1] /\ n >= p /\ n < Base * p
    BY <1>1, <1>7, <2>1, PowerIsFollowed DEF HasDigits
  <2>3. n \div p \in 1 .. Base - 1
    <3>1. \A b \in Nat : n < b * p => n \div p < b
      BY <1>2
    <3>2. n \div p >= 1
      BY <1>2, <2>2
    <3>3. n \div p \in Nat
      BY <1>2
    <3> QED
      BY <2>2, <3>1, <3>2, <3>3, BaseIsNat
  <2>4. (n \div p) % Base = n \div p
    BY <2>3, BaseIsNat
  <2>5. MinimalBe(n)[1] = (n \div p) % Base
    BY <1>1, <2>1, <2>2
  <2> QED
    BY <2>3, <2>4, <2>5, BaseIsNat
<1>8. MinimalBe(n) # << >> => d > 0
  BY <1>4
<1> QED
  BY <1>2, <1>4, <1>5, <1>6, <1>7, <1>8

\* The bytes of a number are read back as the number by any word it fits
\* (minimal_be against be_to_u64 and be_to_u128, eth.rs 57-65, 321-339).
THEOREM NumberIsRead ==
    ASSUME NEW word \in Nat, word <= U128, NEW n \in 0 .. word - 1
    PROVE  BeTo(MinimalBe(n), word) = n
<1>1. n \in Nat /\ n \in 0 .. U128 - 1
  BY WordsAreNat
<1>2. PICK d \in 0 .. 2 * WordBytes :
               /\ HasDigits(n, d)
               /\ MinimalBe(n) = [i \in 1 .. d |-> (n \div Power[d - i]) % Base]
  BY <1>1, MinimalBeIs
<1>3. d \in Nat /\ Base \in Nat \ {0} /\ WordBytes \in Nat
  BY Prefixes, BaseIsNat
<1> DEFINE bytes == MinimalBe(n)
           IsRead(acc) == acc = [i \in 0 .. Len(bytes) |->
                                    IF i = 0 THEN 0 ELSE (acc[i - 1] * Base + bytes[i]) % word]
           upTo == [i \in 0 .. d |-> n \div Power[d - i]]
<1>4. Len(bytes) = d /\ \A i \in 1 .. d : bytes[i] = (n \div Power[d - i]) % Base
  BY <1>2, <1>3
<1>5. \A i \in 0 .. d : upTo[i] \in 0 .. n
  <2> SUFFICES ASSUME NEW i \in 0 .. d
               PROVE  n \div Power[d - i] \in 0 .. n
    OBVIOUS
  <2>1. d - i \in 0 .. 2 * WordBytes
    BY <1>3
  <2>2. Power[d - i] \in Nat \ {0}
    BY <2>1, PowerIsFollowed
  <2>3. \A p \in Nat \ {0} : n \div p \in 0 .. n
    BY <1>1
  <2> QED
    BY <2>2, <2>3, Zenon
<1>6. upTo[0] = 0 /\ upTo[d] = n
  <2>1. d - 0 = d /\ d - d = 0 /\ Power[d] \in Nat /\ n < Power[d]
    BY <1>2, <1>3, PowerIsFollowed DEF HasDigits
  <2>2. \A p \in Nat : n < p => n \div p = 0
    BY <1>1
  <2>3. n \div 1 = n
    BY <1>1
  <2>4. n \div Power[d - 0] = 0
    BY <2>1, <2>2, Zenon
  <2>5. n \div Power[d - d] = n
    BY <2>1, <2>3, PowerIsFollowed, Zenon
  <2>6. 0 \in 0 .. d /\ d \in 0 .. d
    BY <1>3
  <2> QED
    BY <2>4, <2>5, <2>6
<1>7. ASSUME NEW i \in 1 .. d
      PROVE  upTo[i] = (upTo[i - 1] * Base + bytes[i]) % word
  <2>1. d - i \in 0 .. 2 * WordBytes /\ d - i + 1 \in 1 .. 2 * WordBytes
        /\ d - i + 1 - 1 = d - i /\ d - (i - 1) = d - i + 1 /\ i - 1 \in 0 .. d
    BY <1>3
  <2>2. Power[d - (i - 1)] = Base * Power[d - i] /\ Power[d - i] \in Nat \ {0}
    BY <2>1, PowerIsFollowed
  <2>3. PICK q \in 0 .. n : q = n \div Power[d - i] /\ upTo[i] = q
    BY <1>5
  <2>4. upTo[i - 1] = q \div Base
    <3>1. n \div (Base * Power[d - i]) = (n \div Power[d - i]) \div Base
      BY <1>1, <1>3, <2>2, DivideTwice
    <3>2. upTo[i - 1] = n \div Power[d - (i - 1)]
      BY <2>1
    <3> QED
      BY <2>2, <2>3, <3>1, <3>2, Zenon
  <2>5. bytes[i] = q % Base
    BY <1>4, <2>3, Zenon
  <2>6. (q \div Base) * Base + (q % Base) = q
    BY <1>1, <1>3, Division
  <2>7. q % word = q
    <3>1. q \in 0 .. word - 1
      BY <1>1
    <3> QED
      BY <3>1, SmallRemainder, Zenon
  <2>8. (upTo[i - 1] * Base + bytes[i]) % word = q
    BY <2>4, <2>5, <2>6, <2>7, Zenon
  <2> QED
    BY <2>3, <2>8, Zenon
<1> HIDE DEF bytes
<1>8. IsRead(upTo)
  <2>1. upTo = [i \in 0 .. d |-> IF i = 0 THEN 0 ELSE upTo[i]]
    BY <1>6
  <2>2. \A i \in 0 .. d : i # 0 => upTo[i] = (upTo[i - 1] * Base + bytes[i]) % word
    <3>1. \A i \in 0 .. d : i # 0 => i \in 1 .. d
      BY <1>3
    <3> HIDE DEF upTo
    <3> QED
      BY <1>7, <3>1, Zenon
  <2> HIDE DEF upTo
  <2> QED
    BY <1>4, <2>1, <2>2
<1>9. PICK acc : IsRead(acc) /\ BeTo(bytes, word) = acc[d]
  <2>1. IsRead(CHOOSE acc : IsRead(acc))
    BY <1>8
  <2>2. BeTo(bytes, word) = (CHOOSE acc : IsRead(acc))[Len(bytes)]
    BY DEF BeTo
  <2> QED
    BY <1>4, <2>1, <2>2
<1>10. \A i \in 0 .. d : acc[i] = upTo[i]
  <2> HIDE DEF upTo
  <2> DEFINE S == {i \in Nat : i <= d => acc[i] = upTo[i]}
  <2>1. acc[0] = 0 /\ \A i \in 1 .. d : acc[i] = (acc[i - 1] * Base + bytes[i]) % word
    BY <1>3, <1>4, <1>9
  <2>2. 0 \in S
    BY <1>6, <2>1
  <2>3. ASSUME NEW i \in Nat, i \in S
        PROVE  i + 1 \in S
    <3> SUFFICES ASSUME i + 1 <= d
                 PROVE  acc[i + 1] = upTo[i + 1]
      OBVIOUS
    <3>1. i + 1 \in 1 .. d /\ i + 1 - 1 = i /\ acc[i] = upTo[i]
      BY <1>3, <2>3
    <3> QED
      BY <1>7, <2>1, <3>1
  <2>4. Nat \subseteq S
    <3> HIDE DEF S
    <3> QED
      BY <2>2, <2>3, NumbersByInduction
  <2> QED
    BY <1>3, <2>4
<1>11. d \in 0 .. d
  BY <1>3
<1> HIDE DEF upTo
<1> QED
  BY <1>6, <1>9, <1>10, <1>11, Zenon DEF bytes

-----------------------------------------------------------------------------
\* Strings.

\* The input has this part right after the first pos bytes.
Holds(input, pos, part) ==
    /\ pos + Len(part) <= Len(input)
    /\ \A i \in 1 .. Len(part) : input[pos + i] = part[i]

LEMMA HoldsParts ==
    ASSUME NEW input \in Seq(Bytes), NEW pos \in Nat,
           NEW s \in Seq(Bytes), NEW t \in Seq(Bytes), Holds(input, pos, s \o t)
    PROVE  Holds(input, pos, s) /\ Holds(input, pos + Len(s), t)
<1>1. PICK m \in Nat, n \in Nat, k \in Nat : m = Len(s) /\ n = Len(t) /\ k = Len(input)
  OBVIOUS
<1>2. /\ Len(s \o t) = m + n
      /\ \A i \in 1 .. m + n : (s \o t)[i] = IF i <= m THEN s[i] ELSE t[i - m]
  BY <1>1, ConcatProperties
<1>3. pos + (m + n) <= k /\ \A i \in 1 .. m + n : input[pos + i] = (s \o t)[i]
  BY <1>1, <1>2 DEF Holds
<1>4. Holds(input, pos, s)
  <2>1. ASSUME NEW i \in 1 .. m
        PROVE  input[pos + i] = s[i]
    <3>1. i \in 1 .. m + n /\ i <= m
      OBVIOUS
    <3>2. input[pos + i] = (s \o t)[i] /\ (s \o t)[i] = s[i]
      BY <1>2, <1>3, <3>1
    <3> QED
      BY <3>2
  <2>2. pos + m <= k
    BY <1>3
  <2> QED
    BY <1>1, <2>1, <2>2 DEF Holds
<1>5. ASSUME NEW i \in 1 .. n
      PROVE  input[pos + m + i] = t[i]
  <2>1. m + i \in 1 .. m + n /\ ~(m + i <= m) /\ m + i - m = i /\ pos + (m + i) = pos + m + i
    OBVIOUS
  <2>2. input[pos + (m + i)] = (s \o t)[m + i]
    BY <1>3, <2>1
  <2>3. (s \o t)[m + i] = t[i]
    BY <1>2, <2>1
  <2> QED
    BY <2>1, <2>2, <2>3, Zenon
<1>6. pos + m + n <= k
  BY <1>3
<1> QED
  BY <1>1, <1>4, <1>5, <1>6 DEF Holds

\* A slice of the right length is the part that stands there.
LEMMA SliceIsRead ==
    ASSUME NEW input \in Seq(Bytes), Len(input) < U64, NEW start \in Nat,
           NEW part \in Seq(Bytes), Holds(input, start, part)
    PROVE  Slice(input, start, Len(part)) = Decoded(part, start + Len(part))
<1>1. PICK n \in Nat, k \in Nat, w \in Nat \ {0} : n = Len(part) /\ k = Len(input) /\ w = U64
  BY WordsAreNat
<1>2. /\ start + n <= k /\ k < w
      /\ \A i \in 1 .. n : input[start + i] = part[i]
  BY <1>1 DEF Holds
<1>3. (start + n) % w = start + n
  <2>1. start + n \in 0 .. w - 1
    BY <1>2
  <2> QED
    BY <2>1, SmallRemainder, Zenon
<1>4. SubSeq(input, start + 1, start + n) = part
  <2>1. \A i \in start + 1 .. start + n : input[i] \in Bytes
    BY <1>1, <1>2
  <2>2. /\ SubSeq(input, start + 1, start + n) \in Seq(Bytes)
        /\ Len(SubSeq(input, start + 1, start + n)) =
               IF start + 1 <= start + n THEN (start + n) - (start + 1) + 1 ELSE 0
        /\ \A i \in 1 .. (start + n) - (start + 1) + 1 :
               SubSeq(input, start + 1, start + n)[i] = input[start + 1 + i - 1]
    BY <2>1, SubSeqProperties
  <2>3. PICK sub \in Seq(Bytes) : sub = SubSeq(input, start + 1, start + n)
    BY <2>2
  <2>4. Len(sub) = n
    BY <2>2, <2>3
  <2>5. ASSUME NEW i \in 1 .. n
        PROVE  sub[i] = part[i]
    <3>1. start + 1 + i - 1 = start + i /\ i \in 1 .. (start + n) - (start + 1) + 1
      OBVIOUS
    <3> QED
      BY <1>2, <2>2, <2>3, <3>1
  <2> QED
    BY <1>1, <2>3, <2>4, <2>5, SeqEqual
<1>5. start <= start + n
  OBVIOUS
<1> QED
  BY <1>1, <1>2, <1>3, <1>4, <1>5 DEF Slice

\* What a length prefix is made of.
LEMMA LengthPrefixType ==
    ASSUME NEW len \in 0 .. U64 - 1, NEW base \in {StringBase, ListBase}
    PROVE  /\ LengthPrefix(len, base) \in Seq(Bytes)
           /\ Len(LengthPrefix(len, base)) \in 1 .. 1 + WordBytes
           /\ len <= Short => LengthPrefix(len, base) = <<base + len>>
           /\ len > Short =>
                  /\ Len(MinimalBe(len)) \in 1 .. WordBytes
                  /\ LengthPrefix(len, base)
                         = <<base + Short + Len(MinimalBe(len))>> \o MinimalBe(len)
<1>1. base \in Nat /\ base + Short + WordBytes < Base
  BY Prefixes, BaseIsNat
<1>2. len \in 0 .. U128 - 1 /\ len \in Nat
  BY WordsAreNat
<1>3. CASE len <= Short
  <2>1. LengthPrefix(len, base) = <<base + len>>
    BY <1>3 DEF LengthPrefix
  <2>2. base + len \in Bytes
    BY <1>1, <1>2, <1>3, Prefixes, BaseIsNat DEF Bytes
  <2>3. ~(len > Short)
    BY <1>2, <1>3, Prefixes
  <2> QED
    BY <2>1, <2>2, <2>3, Prefixes
<1>4. CASE ~(len <= Short)
  <2>1. LengthPrefix(len, base) = <<base + Short + Len(MinimalBe(len))>> \o MinimalBe(len)
    BY <1>4 DEF LengthPrefix
  <2>2. MinimalBe(len) \in Seq(Bytes) /\ Len(MinimalBe(len)) \in 1 .. WordBytes
    <3>1. len > 0 /\ len < U64
      BY <1>2, <1>4, Prefixes, WordsAreNat
    <3>2. /\ MinimalBe(len) \in Seq(Bytes)
          /\ Len(MinimalBe(len)) \in 0 .. 2 * WordBytes
          /\ Len(MinimalBe(len)) > 0 /\ Len(MinimalBe(len)) <= WordBytes
      BY <1>2, <3>1, MinimalBeType, Zenon
    <3> QED
      BY <3>2, Prefixes
  <2>3. PICK d \in 1 .. WordBytes : d = Len(MinimalBe(len))
    BY <2>2
  <2>4. base + Short + d \in Bytes
    BY <1>1, Prefixes, BaseIsNat DEF Bytes
  <2>5. <<base + Short + d>> \in Seq(Bytes) /\ Len(<<base + Short + d>>) = 1
    BY <2>4
  <2>6. /\ <<base + Short + d>> \o MinimalBe(len) \in Seq(Bytes)
        /\ Len(<<base + Short + d>> \o MinimalBe(len)) = 1 + d
    BY <2>2, <2>3, <2>5, ConcatProperties
  <2> QED
    BY <1>4, <2>1, <2>2, <2>3, <2>6, Prefixes
<1> QED
  BY <1>3, <1>4

\* The two forms of a string.
LEMMA RlpBytesType ==
    ASSUME NEW item \in Seq(Bytes), Len(item) < U64
    PROVE  /\ RlpBytes(item) \in Seq(Bytes)
           /\ Len(RlpBytes(item)) \in 1 .. 1 + WordBytes + Len(item)
           /\ \/ /\ Len(item) = 1 /\ item[1] < StringBase
                 /\ RlpBytes(item) = item
              \/ /\ ~(Len(item) = 1 /\ item[1] < StringBase)
                 /\ RlpBytes(item) = LengthPrefix(Len(item), StringBase) \o item
                 /\ Len(RlpBytes(item)) = Len(LengthPrefix(Len(item), StringBase)) + Len(item)
<1>1. Len(item) \in 0 .. U64 - 1 /\ Len(item) \in Nat
  BY WordsAreNat
<1>2. CASE Len(item) = 1 /\ item[1] < StringBase
  <2>1. RlpBytes(item) = item
    BY <1>2 DEF RlpBytes
  <2>2. 1 \in 1 .. 1 + WordBytes + 1
    BY Prefixes
  <2> QED
    BY <1>2, <2>1, <2>2, Zenon
<1>3. CASE ~(Len(item) = 1 /\ item[1] < StringBase)
  <2>1. RlpBytes(item) = LengthPrefix(Len(item), StringBase) \o item
    BY <1>3 DEF RlpBytes
  <2>2. PICK prefix \in Seq(Bytes) :
            prefix = LengthPrefix(Len(item), StringBase) /\ Len(prefix) \in 1 .. 1 + WordBytes
    BY <1>1, LengthPrefixType
  <2>3. prefix \o item \in Seq(Bytes) /\ Len(prefix \o item) = Len(prefix) + Len(item)
    BY ConcatProperties
  <2> QED
    BY <1>1, <1>3, <2>1, <2>2, <2>3, Prefixes
<1> QED
  BY <1>2, <1>3

\* A length that was written after its own length is read back.
LEMMA LongLengthIsRead ==
    ASSUME NEW input \in Seq(Bytes), Len(input) < U64, NEW pos \in Nat,
           NEW len \in 0 .. U64 - 1, len > Short, NEW base \in {StringBase, ListBase},
           Holds(input, pos, LengthPrefix(len, base))
    PROVE  \E d \in 1 .. WordBytes :
               /\ Len(LengthPrefix(len, base)) = 1 + d
               /\ input[pos + 1] = base + Short + d
               /\ Slice(input, pos + 1, d) = Decoded(MinimalBe(len), pos + 1 + d)
               /\ BeToU64(MinimalBe(len)) = len
<1>1. len \in 0 .. U128 - 1 /\ len \in Nat /\ base \in Nat /\ WordBytes \in Nat
  BY WordsAreNat, Prefixes
<1>2. PICK d \in 1 .. WordBytes :
          /\ d = Len(MinimalBe(len))
          /\ LengthPrefix(len, base) = <<base + Short + d>> \o MinimalBe(len)
  BY LengthPrefixType
<1>3. base + Short + d \in Bytes
  BY <1>1, Prefixes, BaseIsNat DEF Bytes
<1>4. /\ <<base + Short + d>> \in Seq(Bytes) /\ MinimalBe(len) \in Seq(Bytes)
      /\ Len(<<base + Short + d>>) = 1
  BY <1>1, <1>3, MinimalBeType
<1>5. /\ Holds(input, pos, <<base + Short + d>>)
      /\ Holds(input, pos + 1, MinimalBe(len))
  <2>1. PICK first \in Seq(Bytes) : first = <<base + Short + d>> /\ Len(first) = 1
    BY <1>4
  <2>2. Holds(input, pos, first \o MinimalBe(len))
    BY <1>2, <2>1
  <2>3. Holds(input, pos, first) /\ Holds(input, pos + Len(first), MinimalBe(len))
    BY <1>4, <2>2, HoldsParts
  <2> QED
    BY <2>1, <2>3
<1>6. Len(LengthPrefix(len, base)) = 1 + d
  <2>1. Len(<<base + Short + d>> \o MinimalBe(len))
            = Len(<<base + Short + d>>) + Len(MinimalBe(len))
    BY <1>4, ConcatProperties
  <2> QED
    BY <1>2, <1>4, <2>1, Zenon
<1>7. input[pos + 1] = base + Short + d
  BY <1>4, <1>5 DEF Holds
<1>8. Slice(input, pos + 1, d) = Decoded(MinimalBe(len), pos + 1 + d)
  BY <1>2, <1>4, <1>5, SliceIsRead
<1>9. BeToU64(MinimalBe(len)) = len
  BY NumberIsRead, WordsAreNat DEF BeToU64
<1> QED
  BY <1>6, <1>7, <1>8, <1>9

LEMMA DecodeStringIs ==
    ASSUME NEW input, NEW pos, NEW prefix, prefix = input[pos + 1],
           ~(pos >= Len(input)), ~(prefix >= ListBase)
    PROVE  DecodeString(input, pos) =
               IF prefix < StringBase
                 THEN Decoded(<<prefix>>, pos + 1)
               ELSE IF prefix <= StringBase + Short
                 THEN Slice(input, pos + 1, prefix - StringBase)
               ELSE SliceOfRead(input, Slice(input, pos + 1, prefix - StringBase - Short))
  BY Zenon DEF DecodeString

\* A string that was written is read back wherever it stands, and no more than
\* it: a single byte, the short form and the long form (rlp_bytes against
\* rlp_decode_string, eth.rs 19-27, 45-55, 295-319).
THEOREM StringIsRead ==
    ASSUME NEW input \in Seq(Bytes), Len(input) < U64, NEW pos \in Nat,
           NEW item \in Seq(Bytes), Len(item) < U64, Holds(input, pos, RlpBytes(item))
    PROVE  DecodeString(input, pos) = Decoded(item, pos + Len(RlpBytes(item)))
<1>1. PICK n \in Nat, k \in Nat : n = Len(item) /\ n < U64 /\ k = Len(input)
  OBVIOUS
<1>2. /\ StringBase \in Nat /\ Short \in Nat \ {0} /\ ListBase \in Nat /\ WordBytes \in Nat
      /\ StringBase + Short + WordBytes < ListBase
  BY Prefixes
<1>3. PICK whole \in Seq(Bytes) : whole = RlpBytes(item) /\ Len(whole) \in Nat \ {0}
  BY <1>1, <1>2, RlpBytesType
<1>4. pos < k /\ Holds(input, pos, whole) /\ input[pos + 1] = whole[1]
  BY <1>1, <1>3 DEF Holds
<1>5. CASE n = 1 /\ item[1] < StringBase
  <2>1. whole = item /\ item = <<item[1]>>
    <3>1. whole = item
      BY <1>1, <1>3, <1>5 DEF RlpBytes
    <3>2. \A s \in Seq(Bytes) : Len(s) = 1 => s = <<s[1]>>
      OBVIOUS
    <3> QED
      BY <1>1, <1>5, <3>1, <3>2
  <2>2. input[pos + 1] = item[1] /\ item[1] \in Nat
    BY <1>1, <1>4, <1>5, <2>1, BaseIsNat DEF Bytes
  <2>3. ~(input[pos + 1] >= ListBase) /\ ~(pos >= k)
    BY <1>2, <1>4, <1>5, <2>2
  <2>4. DecodeString(input, pos) = Decoded(<<item[1]>>, pos + 1)
    BY <1>1, <1>5, <2>2, <2>3, DecodeStringIs
  <2> QED
    BY <1>1, <1>3, <1>5, <2>1, <2>4, Zenon
<1>6. CASE ~(n = 1 /\ item[1] < StringBase)
  <2>1. PICK prefix \in Seq(Bytes) :
            /\ prefix = LengthPrefix(n, StringBase)
            /\ Len(prefix) \in 1 .. 1 + WordBytes
            /\ whole = prefix \o item /\ Len(whole) = Len(prefix) + n
    <3>1. n \in 0 .. U64 - 1
      BY <1>1, WordsAreNat
    <3> QED
      BY <1>1, <1>3, <1>6, <3>1, RlpBytesType, LengthPrefixType
  <2>2. Holds(input, pos, prefix) /\ Holds(input, pos + Len(prefix), item)
    BY <1>4, <2>1, HoldsParts
  <2>3. CASE n <= Short
    <3>1. prefix = <<StringBase + n>> /\ Len(prefix) = 1
      <4>1. n \in 0 .. U64 - 1
        BY <1>1, WordsAreNat
      <4>2. prefix = <<StringBase + n>>
        BY <2>1, <2>3, <4>1, LengthPrefixType, Zenon
      <4>3. \A x : Len(<<x>>) = 1
        OBVIOUS
      <4> QED
        BY <4>2, <4>3, Zenon
    <3>2. input[pos + 1] = StringBase + n
      BY <2>2, <3>1 DEF Holds
    <3>3. Slice(input, pos + 1, n) = Decoded(item, pos + 1 + n)
      BY <1>1, <2>2, <3>1, SliceIsRead
    <3>4. /\ ~(StringBase + n >= ListBase) /\ ~(pos >= k)
          /\ ~(StringBase + n < StringBase) /\ StringBase + n <= StringBase + Short
          /\ StringBase + n - StringBase = n /\ pos + 1 + n = pos + (1 + n)
      BY <1>2, <1>4, <2>3
    <3>5. DecodeString(input, pos) = Slice(input, pos + 1, n)
      <4>1. PICK p : /\ p = input[pos + 1] /\ p = StringBase + n
                     /\ ~(pos >= Len(input)) /\ ~(p >= ListBase)
                     /\ ~(p < StringBase) /\ p <= StringBase + Short
        BY <1>1, <3>2, <3>4
      <4>2. DecodeString(input, pos) = Slice(input, pos + 1, p - StringBase)
        BY <4>1, DecodeStringIs
      <4>3. p - StringBase = n
        BY <1>2, <4>1
      <4> QED
        BY <4>2, <4>3, Zenon
    <3> QED
      BY <1>3, <2>1, <3>1, <3>3, <3>4, <3>5, Zenon
  <2>4. CASE ~(n <= Short)
    <3>1. PICK d \in 1 .. WordBytes :
               /\ Len(prefix) = 1 + d
               /\ input[pos + 1] = StringBase + Short + d
               /\ Slice(input, pos + 1, d) = Decoded(MinimalBe(n), pos + 1 + d)
               /\ BeToU64(MinimalBe(n)) = n
      <4>1. n \in 0 .. U64 - 1 /\ n > Short
        BY <1>1, <1>2, <2>4, WordsAreNat
      <4> QED
        BY <2>1, <2>2, <4>1, LongLengthIsRead
    <3>2. Slice(input, pos + 1 + d, n) = Decoded(item, pos + 1 + d + n)
      <4>1. pos + Len(prefix) = pos + 1 + d /\ pos + 1 + d \in Nat
        BY <3>1
      <4> QED
        BY <1>1, <2>2, <4>1, SliceIsRead
    <3>3. /\ ~(StringBase + Short + d >= ListBase) /\ ~(pos >= k)
          /\ ~(StringBase + Short + d < StringBase)
          /\ ~(StringBase + Short + d <= StringBase + Short)
          /\ StringBase + Short + d - StringBase - Short = d
          /\ pos + 1 + d + n = pos + (1 + d + n)
      BY <1>2, <1>4
    <3>4. DecodeString(input, pos) = SliceOfRead(input, Slice(input, pos + 1, d))
      <4>1. PICK p : /\ p = input[pos + 1] /\ p = StringBase + Short + d
                     /\ ~(pos >= Len(input)) /\ ~(p >= ListBase)
                     /\ ~(p < StringBase) /\ ~(p <= StringBase + Short)
        BY <1>1, <3>1, <3>3
      <4>2. DecodeString(input, pos) =
                SliceOfRead(input, Slice(input, pos + 1, p - StringBase - Short))
        BY <4>1, DecodeStringIs
      <4>3. p - StringBase - Short = d
        BY <1>2, <4>1
      <4> QED
        BY <4>2, <4>3, Zenon
    <3>5. SliceOfRead(input, Slice(input, pos + 1, d)) = Slice(input, pos + 1 + d, n)
      BY <3>1 DEF SliceOfRead, Decoded
    <3> QED
      BY <1>3, <2>1, <3>1, <3>2, <3>3, <3>4, <3>5, Zenon
  <2> QED
    BY <2>3, <2>4
<1> QED
  BY <1>5, <1>6

-----------------------------------------------------------------------------
\* Lists.

\* J[i] is the first i parts one after the other.
Joins(J, parts) ==
    /\ J \in [0 .. Len(parts) -> Seq(Bytes)]
    /\ J[0] = << >>
    /\ \A i \in 1 .. Len(parts) : J[i] = J[i - 1] \o parts[i]

LEMMA JoinExists ==
    ASSUME NEW parts \in Seq(Seq(Bytes))
    PROVE  \E J : Joins(J, parts)
<1>1. PICK n \in Nat : n = Len(parts)
  OBVIOUS
<1> DEFINE F == [p \in (1 .. n) \X Seq(Bytes) |-> p[2] \o parts[p[1]]]
<1>2. F \in [(1 .. n) \X Seq(Bytes) -> Seq(Bytes)]
  <2>1. \A s, t \in Seq(Bytes) : s \o t \in Seq(Bytes)
    OBVIOUS
  <2>2. \A i \in 1 .. n : parts[i] \in Seq(Bytes)
    BY <1>1
  <2> QED
    BY <2>1, <2>2
<1>3. << >> \in Seq(Bytes)
  OBVIOUS
<1>4. PICK J \in [0 .. n -> Seq(Bytes)] : J[0] = << >> /\ Follows(J, F, n)
  <2> HIDE DEF F
  <2> QED
    BY <1>2, <1>3, Recursion, Zenon
<1>5. ASSUME NEW i \in 1 .. n
      PROVE  J[i] = J[i - 1] \o parts[i]
  <2>1. i - 1 \in 0 .. n
    OBVIOUS
  <2>2. <<i, J[i - 1]>> \in (1 .. n) \X Seq(Bytes)
    BY <2>1
  <2>3. J[i] = F[<<i, J[i - 1]>>]
    BY <1>4 DEF Follows
  <2> QED
    BY <2>2, <2>3
<1> QED
  BY <1>1, <1>4, <1>5 DEF Joins

\* A function that joins as J does, from the first or from the empty string, is J.
LEMMA JoinIsUnique ==
    ASSUME NEW parts \in Seq(Seq(Bytes)), NEW J, Joins(J, parts),
           NEW f, NEW m \in {0, 1}, m <= Len(parts), f[m] = J[m],
           \A i \in m + 1 .. Len(parts) : f[i] = f[i - 1] \o parts[i]
    PROVE  f[Len(parts)] = J[Len(parts)]
<1>1. PICK n \in Nat : n = Len(parts)
  OBVIOUS
<1> DEFINE S == {k \in Nat : m + k <= n => f[m + k] = J[m + k]}
<1>2. 0 \in S
  OBVIOUS
<1>3. ASSUME NEW k \in Nat, k \in S
      PROVE  k + 1 \in S
  <2> SUFFICES ASSUME m + (k + 1) <= n
               PROVE  f[m + (k + 1)] = J[m + (k + 1)]
    OBVIOUS
  <2>1. PICK i \in m + 1 .. n : i = m + (k + 1) /\ i - 1 = m + k /\ i \in 1 .. n
    OBVIOUS
  <2>2. f[i - 1] = J[i - 1]
    BY <1>3, <2>1
  <2>3. f[i] = f[i - 1] \o parts[i] /\ J[i] = J[i - 1] \o parts[i]
    BY <1>1, <2>1 DEF Joins
  <2> QED
    BY <2>1, <2>2, <2>3, Zenon
<1>4. n - m \in S
  <2>1. Nat \subseteq S
    <3> HIDE DEF S
    <3> QED
      BY <1>2, <1>3, NumbersByInduction
  <2> QED
    BY <1>1, <2>1
<1>5. m + (n - m) = n
  BY <1>1
<1> QED
  BY <1>1, <1>4, <1>5

LEMMA FlattenIs ==
    ASSUME NEW parts \in Seq(Seq(Bytes)), NEW J, Joins(J, parts)
    PROVE  Seqs!FlattenSeq(parts) = J[Len(parts)]
<1>1. PICK n \in Nat : n = Len(parts)
  OBVIOUS
<1>2. CASE n = 0
  <2>1. parts = << >> /\ J[0] = << >>
    <3>1. \A s \in Seq(Seq(Bytes)) : Len(s) = 0 => s = << >>
      OBVIOUS
    <3> QED
      BY <1>1, <1>2, <3>1 DEF Joins
  <2>2. Seqs!FlattenSeq(parts) = parts
    BY <1>1, <1>2 DEF Seqs!FlattenSeq
  <2> QED
    BY <1>1, <1>2, <2>1, <2>2
<1>3. CASE n # 0
  <2> DEFINE IsFlat(f) ==
          f = [i \in 1 .. Len(parts) |-> IF i = 1 THEN parts[i] ELSE f[i - 1] \o parts[i]]
      flat == [i \in 1 .. n |-> J[i]]
  <2>1. 1 \in 1 .. n /\ J[1] = parts[1]
    <3>1. PICK i \in 1 .. n : i = 1 /\ i - 1 = 0
      BY <1>3
    <3>2. J[i] = J[i - 1] \o parts[i] /\ J[0] = << >>
      BY <1>1 DEF Joins
    <3>3. parts[i] \in Seq(Bytes)
      BY <1>1
    <3>4. << >> \o parts[i] = parts[i]
      BY <3>3, ConcatEmptySeq
    <3>5. J[i] = parts[i]
      BY <3>1, <3>2, <3>4, Zenon
    <3> QED
      BY <3>1, <3>5
  <2>2. IsFlat(flat)
    <3>1. ASSUME NEW i \in 1 .. n, i # 1
          PROVE  flat[i] = flat[i - 1] \o parts[i]
      <4>1. i - 1 \in 1 .. n
        BY <3>1
      <4> QED
        BY <1>1, <4>1 DEF Joins
    <3>2. flat = [i \in 1 .. n |-> flat[i]] /\ flat[1] = parts[1]
      BY <2>1
    <3> HIDE DEF flat
    <3> QED
      BY <1>1, <3>1, <3>2
  <2>3. PICK f : IsFlat(f) /\ Seqs!FlattenSeq(parts) = f[Len(parts)]
    <3>1. IsFlat(CHOOSE f : IsFlat(f))
      BY <2>2
    <3>2. Seqs!FlattenSeq(parts) = (CHOOSE f : IsFlat(f))[Len(parts)]
      BY <1>1, <1>3 DEF Seqs!FlattenSeq
    <3> QED
      BY <3>1, <3>2
  <2>4. f[1] = J[1] /\ 1 <= Len(parts)
    BY <1>1, <2>1, <2>3
  <2>5. \A i \in 1 + 1 .. Len(parts) : f[i] = f[i - 1] \o parts[i]
    <3> SUFFICES ASSUME NEW i \in 1 + 1 .. Len(parts)
                 PROVE  f[i] = f[i - 1] \o parts[i]
      OBVIOUS
    <3>1. i \in 1 .. Len(parts) /\ i # 1
      BY <1>1
    <3> QED
      BY <2>3, <3>1
  <2>6. 1 \in {0, 1}
    OBVIOUS
  <2> QED
    BY <2>3, <2>4, <2>5, <2>6, JoinIsUnique
<1> QED
  BY <1>2, <1>3

\* Where the parts begin and end.
LEMMA JoinLengths ==
    ASSUME NEW parts \in Seq(Seq(Bytes)), NEW J, Joins(J, parts)
    PROVE  /\ \A i \in 0 .. Len(parts) : J[i] \in Seq(Bytes) /\ Len(J[i]) \in Nat
           /\ \A i \in 1 .. Len(parts) :
                  parts[i] \in Seq(Bytes) /\ Len(J[i]) = Len(J[i - 1]) + Len(parts[i])
<1>1. PICK n \in Nat : n = Len(parts)
  OBVIOUS
<1>2. \A i \in 0 .. n : J[i] \in Seq(Bytes) /\ Len(J[i]) \in Nat
  <2>1. J \in [0 .. n -> Seq(Bytes)]
    BY <1>1, Zenon DEF Joins
  <2> QED
    BY <2>1
<1>3. ASSUME NEW i \in 1 .. n
      PROVE  parts[i] \in Seq(Bytes) /\ Len(J[i]) = Len(J[i - 1]) + Len(parts[i])
  <2>1. i - 1 \in 0 .. n
    OBVIOUS
  <2>2. parts[i] \in Seq(Bytes)
    BY <1>1
  <2>3. J[i - 1] \in Seq(Bytes)
    BY <1>2, <2>1
  <2>4. J[i] = J[i - 1] \o parts[i]
    BY <1>1 DEF Joins
  <2>5. Len(J[i - 1] \o parts[i]) = Len(J[i - 1]) + Len(parts[i])
    BY <2>2, <2>3, ConcatProperties
  <2> QED
    BY <2>2, <2>4, <2>5, Zenon
<1> QED
  BY <1>1, <1>2, <1>3

\* What is made of n parts of at least one and at most most bytes.
LEMMA JoinSize ==
    ASSUME NEW parts \in Seq(Seq(Bytes)), NEW J, Joins(J, parts), NEW most \in Nat,
           \A i \in 1 .. Len(parts) : Len(parts[i]) \in 1 .. most
    PROVE  \A i \in 0 .. Len(parts) : i <= Len(J[i]) /\ Len(J[i]) <= i * most
<1>1. PICK n \in Nat : n = Len(parts)
  OBVIOUS
<1> DEFINE S == {i \in Nat : i <= n => i <= Len(J[i]) /\ Len(J[i]) <= i * most}
<1>2. 0 \in S
  <2>1. Len(J[0]) = 0 /\ 0 * most = 0
    BY DEF Joins
  <2> QED
    BY <2>1
<1>3. ASSUME NEW i \in Nat, i \in S
      PROVE  i + 1 \in S
  <2> SUFFICES ASSUME i + 1 <= n
               PROVE  i + 1 <= Len(J[i + 1]) /\ Len(J[i + 1]) <= (i + 1) * most
    OBVIOUS
  <2>1. PICK k \in 1 .. n : k = i + 1 /\ k - 1 = i
    OBVIOUS
  <2>2. Len(J[k]) = Len(J[k - 1]) + Len(parts[k]) /\ Len(parts[k]) \in 1 .. most
    BY <1>1, JoinLengths
  <2>3. i <= n
    OBVIOUS
  <2>4. i <= Len(J[i]) /\ Len(J[i]) <= i * most /\ Len(J[i]) \in Nat
    <3>1. i \in 0 .. Len(parts)
      BY <1>1, <2>3
    <3> QED
      BY <1>3, <2>3, <3>1, JoinLengths
  <2>5. (i + 1) * most = i * most + most /\ i * most \in Nat
    OBVIOUS
  <2>6. \A p, q \in Nat : \A r \in 1 .. most :
            i <= q /\ q <= p => i + 1 <= q + r /\ q + r <= p + most
    OBVIOUS
  <2>7. /\ i + 1 <= Len(J[i]) + Len(parts[k])
        /\ Len(J[i]) + Len(parts[k]) <= i * most + most
    BY <2>2, <2>4, <2>5, <2>6, Zenon
  <2>8. Len(J[k]) = Len(J[i]) + Len(parts[k])
    BY <2>1, <2>2, Zenon
  <2> QED
    BY <2>1, <2>5, <2>7, <2>8, Zenon
<1>4. Nat \subseteq S
  <2> HIDE DEF S
  <2> QED
    BY <1>2, <1>3, NumbersByInduction
<1> QED
  BY <1>1, <1>4

\* Where all stands one after the other, every part stands at its place.
LEMMA JoinHolds ==
    ASSUME NEW input \in Seq(Bytes), NEW pos \in Nat,
           NEW parts \in Seq(Seq(Bytes)), NEW J, Joins(J, parts),
           Holds(input, pos, J[Len(parts)])
    PROVE  \A i \in 1 .. Len(parts) :
               /\ Holds(input, pos + Len(J[i - 1]), parts[i])
               /\ Len(J[i]) <= Len(J[Len(parts)])
<1>1. PICK n \in Nat : n = Len(parts)
  OBVIOUS
<1> DEFINE Fits(i) == Holds(input, pos, J[i]) /\ Len(J[i]) <= Len(J[n])
           S == {k \in Nat : k <= n => Fits(n - k)}
<1>2. ASSUME NEW i \in 1 .. n, Fits(i)
      PROVE  Fits(i - 1) /\ Holds(input, pos + Len(J[i - 1]), parts[i])
  <2>1. i - 1 \in 0 .. n /\ i \in 0 .. n /\ n \in 0 .. n
    OBVIOUS
  <2>2. /\ J[i - 1] \in Seq(Bytes) /\ parts[i] \in Seq(Bytes)
        /\ J[i] = J[i - 1] \o parts[i] /\ Len(J[i]) = Len(J[i - 1]) + Len(parts[i])
        /\ Len(J[n]) \in Nat /\ Len(J[i]) \in Nat
    BY <1>1, <2>1, JoinLengths DEF Joins
  <2>3. Len(J[i - 1]) \in Nat /\ Len(parts[i]) \in Nat
    BY <2>2
  <2>4. Holds(input, pos, J[i - 1]) /\ Holds(input, pos + Len(J[i - 1]), parts[i])
    <3>1. Holds(input, pos, J[i - 1] \o parts[i])
      BY <1>2, <2>2
    <3> QED
      BY <2>2, <3>1, HoldsParts
  <2>5. Len(J[i - 1]) <= Len(J[n])
    <3>1. \A x, y, z \in Nat : x + y <= z => x <= z
      OBVIOUS
    <3>2. Len(J[i]) <= Len(J[n])
      BY <1>2
    <3>3. Len(J[i - 1]) + Len(parts[i]) <= Len(J[n])
      BY <2>2, <3>2, Zenon
    <3> QED
      BY <2>2, <2>3, <3>1, <3>3, Zenon
  <2> QED
    BY <2>4, <2>5
<1>3. 0 \in S
  <2>1. n - 0 = n /\ n \in 0 .. n
    OBVIOUS
  <2>2. Len(J[n]) \in Nat
    BY <1>1, <2>1, JoinLengths
  <2> QED
    BY <1>1, <2>1, <2>2
<1>4. ASSUME NEW k \in Nat, k \in S
      PROVE  k + 1 \in S
  <2> SUFFICES ASSUME k + 1 <= n
               PROVE  Fits(n - (k + 1))
    OBVIOUS
  <2>1. PICK i \in 1 .. n : i = n - k /\ n - (k + 1) = i - 1
    OBVIOUS
  <2>2. Fits(i)
    BY <1>4, <2>1
  <2>3. Fits(i - 1)
    BY <1>2, <2>2
  <2> HIDE DEF Fits
  <2> QED
    BY <2>1, <2>3
<1>5. Nat \subseteq S
  <2> HIDE DEF S
  <2> QED
    BY <1>3, <1>4, NumbersByInduction
<1>6. ASSUME NEW i \in 1 .. n
      PROVE  Fits(i)
  <2>1. n - i \in Nat /\ n - i <= n /\ n - (n - i) = i
    OBVIOUS
  <2> HIDE DEF Fits
  <2> QED
    BY <1>5, <2>1
<1> QED
  BY <1>1, <1>2, <1>6

Strings(items) == [i \in 1 .. Len(items) |-> RlpBytes(items[i])]

LEMMA StringsType ==
    ASSUME NEW items \in Seq(Seq(Bytes)), \A i \in 1 .. Len(items) : Len(items[i]) < U64
    PROVE  /\ Strings(items) \in Seq(Seq(Bytes)) /\ Len(Strings(items)) = Len(items)
           /\ \A i \in 1 .. Len(items) :
                  /\ items[i] \in Seq(Bytes) /\ Strings(items)[i] = RlpBytes(items[i])
                  /\ Len(Strings(items)[i]) \in 1 .. 1 + WordBytes + Len(items[i])
<1>1. PICK n \in Nat : n = Len(items)
  OBVIOUS
<1>2. ASSUME NEW i \in 1 .. n
      PROVE  /\ items[i] \in Seq(Bytes) /\ RlpBytes(items[i]) \in Seq(Bytes)
             /\ Len(RlpBytes(items[i])) \in 1 .. 1 + WordBytes + Len(items[i])
  BY <1>1, RlpBytesType
<1>3. Strings(items) \in [1 .. n -> Seq(Bytes)]
  BY <1>1, <1>2 DEF Strings
<1>4. Strings(items) \in Seq(Seq(Bytes)) /\ Len(Strings(items)) = n
  BY <1>3, FunctionIsSeq
<1>5. \A i \in 1 .. n : Strings(items)[i] = RlpBytes(items[i])
  BY <1>1 DEF Strings
<1> QED
  BY <1>1, <1>2, <1>4, <1>5

\* What the loop has read after some rounds is the first so many items.
LEMMA ItemsAreRead ==
    ASSUME NEW input \in Seq(Bytes), Len(input) < U64, NEW pos \in Nat,
           NEW items \in Seq(Seq(Bytes)), \A i \in 1 .. Len(items) : Len(items[i]) < U64,
           NEW J, Joins(J, Strings(items)), Holds(input, pos, J[Len(items)])
    PROVE  DecodeItems(input, pos, pos + Len(J[Len(items)]))
               = Decoded(items, pos + Len(J[Len(items)]))
<1>1. PICK n \in Nat, k \in Nat : n = Len(items) /\ k = Len(input)
  OBVIOUS
<1> DEFINE parts == Strings(items)
<1>2. parts \in Seq(Seq(Bytes)) /\ Len(parts) = n
  BY <1>1, StringsType
<1>3. ASSUME NEW i \in 1 .. n
      PROVE  /\ items[i] \in Seq(Bytes) /\ Len(items[i]) < U64
             /\ parts[i] = RlpBytes(items[i])
             /\ Len(parts[i]) \in Nat /\ Len(parts[i]) >= 1
  <2>1. Len(parts[i]) \in 1 .. 1 + WordBytes + Len(items[i])
    BY <1>1, StringsType
  <2> QED
    BY <1>1, <2>1, StringsType
<1> HIDE DEF parts
<1>4. Joins(J, parts)
  BY DEF parts
<1>5. PICK at \in [0 .. n -> Nat] : \A i \in 0 .. n : at[i] = pos + Len(J[i])
  <2>1. \A i \in 0 .. n : pos + Len(J[i]) \in Nat
    BY <1>2, <1>4, JoinLengths
  <2>2. [i \in 0 .. n |-> pos + Len(J[i])] \in [0 .. n -> Nat]
    BY <2>1
  <2> QED
    BY <2>2
<1>6. at[0] = pos /\ at[n] <= k
  <2>1. Len(J[0]) = 0
    BY <1>4 DEF Joins
  <2>2. pos + Len(J[n]) <= k
    BY <1>1 DEF Holds
  <2> QED
    BY <1>5, <2>1, <2>2
<1>7. ASSUME NEW i \in 1 .. n
      PROVE  /\ Holds(input, at[i - 1], parts[i])
             /\ at[i] = at[i - 1] + Len(parts[i]) /\ at[i] <= at[n] /\ at[i - 1] < at[i]
  <2>1. i - 1 \in 0 .. n /\ i \in 0 .. n /\ n \in 0 .. n
    OBVIOUS
  <2>2. /\ Holds(input, pos + Len(J[i - 1]), parts[i])
        /\ Len(J[i]) <= Len(J[n])
    BY <1>1, <1>2, <1>4, JoinHolds
  <2>3. Len(J[i]) = Len(J[i - 1]) + Len(parts[i])
    BY <1>2, <1>4, JoinLengths
  <2>4. Len(J[i]) \in Nat /\ Len(J[i - 1]) \in Nat /\ Len(J[n]) \in Nat
    BY <1>2, <1>4, <2>1, JoinLengths
  <2>5. at[i] = pos + Len(J[i]) /\ at[i - 1] = pos + Len(J[i - 1]) /\ at[n] = pos + Len(J[n])
    BY <1>5, <2>1
  <2>6. \A x, y, z, l \in Nat : y = x + l /\ y <= z /\ l >= 1 =>
            /\ pos + y = pos + x + l /\ pos + y <= pos + z /\ pos + x < pos + y
    OBVIOUS
  <2>7. /\ pos + Len(J[i]) = pos + Len(J[i - 1]) + Len(parts[i])
        /\ pos + Len(J[i]) <= pos + Len(J[n])
        /\ pos + Len(J[i - 1]) < pos + Len(J[i])
    <3>1. Len(parts[i]) \in Nat /\ Len(parts[i]) >= 1
      BY <1>3
    <3>2. PICK x \in Nat, y \in Nat, z \in Nat, l \in Nat :
              x = Len(J[i - 1]) /\ y = Len(J[i]) /\ z = Len(J[n]) /\ l = Len(parts[i])
      BY <2>4, <3>1
    <3>3. y = x + l /\ y <= z /\ l >= 1
      BY <2>2, <2>3, <3>1, <3>2, Zenon
    <3>4. pos + y = pos + x + l /\ pos + y <= pos + z /\ pos + x < pos + y
      BY <2>6, <3>3
    <3> QED
      BY <3>2, <3>4, Zenon
  <2> QED
    BY <2>2, <2>5, <2>7, Zenon
<1> DEFINE after(m) == Decoded(SubSeq(items, 1, m), at[m])
           round == [r \in 0 .. k |-> after(IF r <= n THEN r ELSE n)]
           end == at[n]
           IsLoop(f) == f = [r \in 0 .. k |-> IF r = 0 THEN Decoded(<< >>, pos)
                                                       ELSE Advanced(input, end, f[r - 1])]
<1>8. ASSUME NEW i \in 1 .. n
      PROVE  Advanced(input, end, after(i - 1)) = after(i)
  <2>1. DecodeString(input, at[i - 1]) = Decoded(items[i], at[i])
    <3>1. at[i - 1] \in Nat
      BY <1>5
    <3>2. Holds(input, at[i - 1], RlpBytes(items[i]))
      BY <1>3, <1>7
    <3>3. DecodeString(input, at[i - 1]) = Decoded(items[i], at[i - 1] + Len(RlpBytes(items[i])))
      BY <1>3, <3>1, <3>2, StringIsRead
    <3> QED
      BY <1>3, <1>7, <3>3
  <2>2. Append(SubSeq(items, 1, i - 1), items[i]) = SubSeq(items, 1, i)
    <3>1. SubSeq(items, 1, i) = SubSeq(items, 1, i - 1) \o <<items[i]>>
      BY <1>1, SubSeqRecursiveSecond
    <3>2. \A j \in 1 .. i - 1 : items[j] \in Seq(Bytes)
      BY <1>1
    <3>3. SubSeq(items, 1, i - 1) \in Seq(Seq(Bytes))
      BY <3>2, SubSeqProperties
    <3> QED
      BY <1>3, <3>1, <3>3, AppendIsConcat
  <2>3. at[i - 1] < end
    <3>1. i - 1 \in 0 .. n /\ i \in 0 .. n /\ n \in 0 .. n
      OBVIOUS
    <3>2. at[i - 1] \in Nat /\ at[i] \in Nat /\ at[n] \in Nat
      BY <1>5, <3>1
    <3> QED
      BY <1>7, <3>2
  <2>4. /\ after(i - 1).ok /\ after(i - 1).next = at[i - 1]
        /\ after(i - 1).item = SubSeq(items, 1, i - 1)
    BY DEF Decoded
  <2>5. Advanced(input, end, after(i - 1))
            = Decoded(Append(SubSeq(items, 1, i - 1), items[i]), at[i])
    <3> HIDE DEF after
    <3>1. /\ Decoded(items[i], at[i]).ok /\ Decoded(items[i], at[i]).item = items[i]
          /\ Decoded(items[i], at[i]).next = at[i]
      BY DEF Decoded
    <3>2. Advanced(input, end, after(i - 1)) =
              LET string == DecodeString(input, at[i - 1])
              IN  IF string.ok
                    THEN Decoded(Append(SubSeq(items, 1, i - 1), string.item), string.next)
                    ELSE Undecodable
      BY <2>3, <2>4, Zenon DEF Advanced
    <3> QED
      BY <2>1, <3>1, <3>2, Zenon
  <2> QED
    BY <2>2, <2>5
<1>9. Advanced(input, end, after(n)) = after(n)
  BY <1>5 DEF Advanced, Decoded
<1>10. after(0) = Decoded(<< >>, pos) /\ after(n) = Decoded(items, end)
  <2>1. SubSeq(items, 1, 0) = << >>
    OBVIOUS
  <2>2. SubSeq(items, 1, n) = items
    BY <1>1
  <2> QED
    BY <1>6, <2>1, <2>2, Zenon
<1> HIDE DEF after
<1>11. ASSUME NEW r \in 1 .. k
       PROVE  round[r] = Advanced(input, end, round[r - 1])
  <2>1. r - 1 \in 0 .. k /\ r \in 0 .. k
    OBVIOUS
  <2>2. CASE r <= n
    <3>1. r \in 1 .. n /\ r - 1 <= n
      BY <2>2
    <3> QED
      BY <1>8, <2>1, <2>2, <3>1
  <2>3. CASE ~(r <= n)
    <3>1. r - 1 <= n => r - 1 = n
      BY <2>3
    <3> QED
      BY <1>9, <2>1, <2>3, <3>1
  <2> QED
    BY <2>2, <2>3
<1>12. round[0] = Decoded(<< >>, pos)
  BY <1>10
<1> HIDE DEF round
<1>13. PICK f : IsLoop(f) /\ DecodeItems(input, pos, end) = f[k]
  <2>1. IsLoop(round)
    <3>1. round = [r \in 0 .. k |-> round[r]]
      BY DEF round
    <3>2. \A r \in 0 .. k : r # 0 => r \in 1 .. k
      OBVIOUS
    <3> QED
      BY <1>11, <1>12, <3>1, <3>2
  <2>2. IsLoop(CHOOSE f : IsLoop(f))
    BY <2>1
  <2>3. DecodeItems(input, pos, end) = (CHOOSE f : IsLoop(f))[k]
    BY <1>1, <1>6 DEF DecodeItems
  <2> QED
    BY <2>2, <2>3
<1>14. f[k] = round[k]
  <2> DEFINE S == {r \in Nat : r <= k => f[r] = round[r]}
  <2>1. 0 \in S
    BY <1>12, <1>13
  <2>2. ASSUME NEW r \in Nat, r \in S
        PROVE  r + 1 \in S
    <3> SUFFICES ASSUME r + 1 <= k
                 PROVE  f[r + 1] = round[r + 1]
      OBVIOUS
    <3>1. PICK s \in 1 .. k : s = r + 1 /\ s - 1 = r /\ s \in 0 .. k /\ s # 0
      OBVIOUS
    <3>2. f[s] = Advanced(input, end, f[s - 1])
      BY <1>13, <3>1
    <3>3. f[s - 1] = round[s - 1]
      BY <2>2, <3>1
    <3> QED
      BY <1>11, <3>1, <3>2, <3>3, Zenon
  <2>3. Nat \subseteq S
    <3> HIDE DEF S
    <3> QED
      BY <2>1, <2>2, NumbersByInduction
  <2> QED
    BY <2>3
<1>15. round[k] = after(n)
  <2>1. n <= k
    <3> DEFINE T == {i \in Nat : i <= n => i <= at[i]}
    <3>1. 0 \in T
      BY <1>5
    <3>2. ASSUME NEW i \in Nat, i \in T
          PROVE  i + 1 \in T
      <4> SUFFICES ASSUME i + 1 <= n
                   PROVE  i + 1 <= at[i + 1]
        OBVIOUS
      <4>1. PICK j \in 1 .. n : j = i + 1 /\ j - 1 = i /\ i \in 0 .. n /\ j \in 0 .. n
        OBVIOUS
      <4>2. at[i] < at[j] /\ at[i] \in Nat /\ at[j] \in Nat /\ i <= at[i]
        BY <1>5, <1>7, <3>2, <4>1
      <4>3. i + 1 <= at[j]
        BY <4>2
      <4> QED
        BY <4>1, <4>3
    <3>3. Nat \subseteq T
      <4> HIDE DEF T
      <4> QED
        BY <3>1, <3>2, NumbersByInduction
    <3>4. n <= at[n] /\ n \in 0 .. n
      BY <3>3
    <3> QED
      BY <1>5, <1>6, <3>4
  <2>2. k \in 0 .. k /\ (k <= n => k = n)
    BY <2>1
  <2> QED
    BY <2>2 DEF round
<1>16. end = pos + Len(J[n])
  BY <1>5
<1> QED
  BY <1>1, <1>10, <1>13, <1>14, <1>15, <1>16

\* Nothing that is written for the items is longer than an address space.
Writable(items) ==
    /\ items \in Seq(Seq(Bytes))
    /\ \E most \in Nat :
           /\ 1 + WordBytes + Len(items) * (1 + WordBytes + most) < U64
           /\ \A i \in 1 .. Len(items) : Len(items[i]) <= most

\* What a list is made of.
LEMMA ListType ==
    ASSUME NEW items, Writable(items)
    PROVE  \E J : \E payload \in Seq(Bytes) :
               /\ Joins(J, Strings(items)) /\ payload = J[Len(items)]
               /\ \A i \in 1 .. Len(items) : Len(items[i]) < U64
               /\ 1 + WordBytes + Len(payload) < U64
               /\ RlpList(Strings(items)) = LengthPrefix(Len(payload), ListBase) \o payload
<1>1. items \in Seq(Seq(Bytes))
  BY DEF Writable
<1>2. PICK n \in Nat : n = Len(items)
  BY <1>1
<1>3. PICK most \in Nat :
          /\ 1 + WordBytes + n * (1 + WordBytes + most) < U64
          /\ \A i \in 1 .. n : Len(items[i]) <= most
  BY <1>2 DEF Writable
<1>4. PICK w \in Nat, size \in Nat : w = WordBytes /\ size = 1 + WordBytes + most
  BY Prefixes
<1>5. n * size \in Nat /\ (n # 0 => size <= n * size)
  OBVIOUS
<1>6. 1 + w + n * size < U64 /\ U64 \in Nat
  BY <1>3, <1>4, WordsAreNat
<1>7. ASSUME NEW i \in 1 .. n
      PROVE  items[i] \in Seq(Bytes) /\ Len(items[i]) < U64
  <2>1. Len(items[i]) \in Nat /\ Len(items[i]) <= most /\ n # 0 /\ items[i] \in Seq(Bytes)
    BY <1>1, <1>2, <1>3
  <2>2. size < U64
    BY <1>5, <1>6, <2>1
  <2> QED
    BY <1>4, <1>6, <2>1, <2>2
<1>8. /\ Strings(items) \in Seq(Seq(Bytes)) /\ Len(Strings(items)) = n
      /\ \A i \in 1 .. n : Len(Strings(items)[i]) \in 1 .. 1 + WordBytes + Len(items[i])
  BY <1>1, <1>2, <1>7, StringsType
<1>9. ASSUME NEW i \in 1 .. n
      PROVE  Len(Strings(items)[i]) \in 1 .. size
  <2>1. Len(items[i]) \in Nat /\ Len(items[i]) <= most
    BY <1>1, <1>2, <1>3
  <2>2. Len(Strings(items)[i]) \in 1 .. 1 + WordBytes + Len(items[i])
    BY <1>8
  <2>3. \A a, b, c, d \in Nat : b <= c /\ d \in 1 .. 1 + a + b => d \in 1 .. 1 + a + c
    OBVIOUS
  <2>4. WordBytes \in Nat /\ Len(Strings(items)[i]) \in Nat /\ size = 1 + WordBytes + most
    BY <1>4, <2>2
  <2> QED
    BY <1>3, <2>1, <2>2, <2>3, <2>4, Zenon
<1>10. PICK J : Joins(J, Strings(items))
  BY <1>8, JoinExists
<1>11. PICK payload \in Seq(Bytes) : payload = J[n] /\ Len(payload) <= n * size
  <2>1. n \in 0 .. n
    OBVIOUS
  <2>2. \A i \in 0 .. n : J[i] \in Seq(Bytes)
    BY <1>8, <1>10, JoinLengths
  <2>3. \A i \in 0 .. n : i <= Len(J[i]) /\ Len(J[i]) <= i * size
    BY <1>8, <1>9, <1>10, JoinSize
  <2> QED
    BY <2>1, <2>2, <2>3
<1>12. 1 + WordBytes + Len(payload) < U64
  <2>1. \A a, b, c, m \in Nat : m <= b /\ 1 + a + b < c => 1 + a + m < c
    OBVIOUS
  <2>2. Len(payload) \in Nat /\ Len(payload) <= n * size
    BY <1>11
  <2> QED
    BY <1>4, <1>5, <1>6, <2>1, <2>2, Zenon
<1>13. Seqs!FlattenSeq(Strings(items)) = payload
  BY <1>8, <1>10, <1>11, FlattenIs
<1>14. RlpList(Strings(items)) = LengthPrefix(Len(payload), ListBase) \o payload
  BY <1>13 DEF RlpList
<1> QED
  BY <1>2, <1>7, <1>10, <1>11, <1>12, <1>14

\* A flat list that was written is read back, item by item, whatever the number
\* and the length of the items (rlp_list against rlp_decode_flat_list, eth.rs
\* 29-38, 264-293).
THEOREM ListIsRead ==
    ASSUME NEW items, Writable(items)
    PROVE  /\ RlpList(Strings(items)) \in Seq(Bytes)
           /\ DecodeFlatList(RlpList(Strings(items)))
                  = Decoded(items, Len(RlpList(Strings(items))))
<1>1. items \in Seq(Seq(Bytes))
  BY DEF Writable
<1>2. PICK J, payload :
          /\ payload \in Seq(Bytes)
          /\ Joins(J, Strings(items)) /\ payload = J[Len(items)]
          /\ \A i \in 1 .. Len(items) : Len(items[i]) < U64
          /\ 1 + WordBytes + Len(payload) < U64
          /\ RlpList(Strings(items)) = LengthPrefix(Len(payload), ListBase) \o payload
  BY ListType
<1>3. PICK n \in Nat : n = Len(payload) /\ 1 + WordBytes + n < U64
  BY <1>2
<1>4. /\ ListBase \in Nat /\ Short \in Nat \ {0} /\ WordBytes \in Nat /\ U64 \in Nat
      /\ n \in 0 .. U64 - 1
  BY <1>3, Prefixes, WordsAreNat
<1>5. PICK prefix \in Seq(Bytes) :
          prefix = LengthPrefix(n, ListBase) /\ Len(prefix) \in 1 .. 1 + WordBytes
  BY <1>4, LengthPrefixType
<1>6. PICK input \in Seq(Bytes), k \in Nat :
          /\ input = RlpList(Strings(items)) /\ input = prefix \o payload
          /\ k = Len(input) /\ k = Len(prefix) + n
  <2>1. prefix \o payload \in Seq(Bytes) /\ Len(prefix \o payload) = Len(prefix) + n
    BY <1>2, <1>3
  <2>2. RlpList(Strings(items)) = prefix \o payload
    BY <1>2, <1>3, <1>5
  <2>3. Len(prefix \o payload) \in Nat
    BY <2>1
  <2> QED
    BY <2>1, <2>2, <2>3, Zenon
<1>7. /\ Len(input) < U64 /\ k >= 1 /\ input # << >>
      /\ Holds(input, 0, prefix) /\ Holds(input, Len(prefix), payload)
  <2>1. Len(input) < U64 /\ k >= 1 /\ input # << >>
    BY <1>3, <1>4, <1>5, <1>6
  <2>2. Holds(input, 0, prefix \o payload)
    BY <1>6 DEF Holds
  <2>3. 0 \in Nat /\ 0 + Len(prefix) = Len(prefix)
    BY <1>5
  <2>4. Holds(input, 0, prefix) /\ Holds(input, 0 + Len(prefix), payload)
    BY <1>2, <2>2, <2>3, HoldsParts, Zenon
  <2> QED
    BY <2>1, <2>3, <2>4, Zenon
<1>8. ASSUME NEW start \in Nat, start = Len(prefix)
      PROVE  DecodeItems(input, start, start + n) = Decoded(items, k)
  <2>1. Holds(input, start, J[Len(items)])
    BY <1>2, <1>7, <1>8
  <2>2. DecodeItems(input, start, start + Len(J[Len(items)]))
            = Decoded(items, start + Len(J[Len(items)]))
    <3>1. /\ input \in Seq(Bytes) /\ Len(input) < U64 /\ start \in Nat
          /\ items \in Seq(Seq(Bytes))
          /\ \A i \in 1 .. Len(items) : Len(items[i]) < U64
          /\ Joins(J, Strings(items))
      BY <1>1, <1>2, <1>7
    <3> QED
      BY <2>1, <3>1, ItemsAreRead, ZenonT(60)
  <2>3. Len(J[Len(items)]) = n /\ start + n = k
    BY <1>2, <1>3, <1>6, <1>8
  <2> QED
    BY <2>2, <2>3, Zenon
<1>9. CASE n <= Short
  <2>1. prefix = <<ListBase + n>>
    BY <1>4, <1>5, <1>9, LengthPrefixType, Zenon
  <2>2. Len(prefix) = 1 /\ prefix[1] = ListBase + n
    BY <2>1
  <2>3. PICK first : /\ first = input[1] /\ first = ListBase + n
                     /\ ~(first < ListBase) /\ first <= ListBase + Short
                     /\ 1 + first - ListBase = 1 + n
    <3>1. input[1] = ListBase + n
      <4>1. 1 \in 1 .. Len(prefix) /\ 0 + 1 = 1
        BY <2>2
      <4>2. input[0 + 1] = prefix[1]
        BY <1>7, <4>1 DEF Holds
      <4> QED
        BY <2>2, <4>1, <4>2
    <3> QED
      BY <1>4, <1>9, <3>1
  <2>4. DecodeFlatList(input) = DecodeItems(input, 1, 1 + first - ListBase)
    BY <1>7, <2>3, Zenon DEF DecodeFlatList
  <2>5. DecodeItems(input, 1, 1 + n) = Decoded(items, k)
    BY <1>8, <2>2
  <2> QED
    BY <1>6, <2>3, <2>4, <2>5, Zenon
<1>10. CASE ~(n <= Short)
  <2>1. PICK d \in 1 .. WordBytes :
            /\ Len(prefix) = 1 + d
            /\ input[1] = ListBase + Short + d
            /\ Slice(input, 1, d) = Decoded(MinimalBe(n), 1 + d)
            /\ BeToU64(MinimalBe(n)) = n
    <3>1. n > Short /\ 0 \in Nat /\ ListBase \in {StringBase, ListBase}
      BY <1>4, <1>10
    <3>2. Holds(input, 0, LengthPrefix(n, ListBase))
      BY <1>5, <1>7
    <3>3. \E d \in 1 .. WordBytes :
              /\ Len(LengthPrefix(n, ListBase)) = 1 + d
              /\ input[0 + 1] = ListBase + Short + d
              /\ Slice(input, 0 + 1, d) = Decoded(MinimalBe(n), 0 + 1 + d)
              /\ BeToU64(MinimalBe(n)) = n
      BY <1>4, <1>7, <3>1, <3>2, LongLengthIsRead
    <3>4. 0 + 1 = 1
      OBVIOUS
    <3> QED
      BY <1>5, <3>3, <3>4
  <2>2. PICK first : /\ first = input[1] /\ first = ListBase + Short + d
                     /\ ~(first < ListBase) /\ ~(first <= ListBase + Short)
                     /\ first - ListBase - Short = d
    BY <1>4, <2>1
  <2>3. DecodeFlatList(input)
            = DecodeLongList(input, Slice(input, 1, first - ListBase - Short))
    BY <1>7, <2>2, Zenon DEF DecodeFlatList
  <2>4. PICK size : /\ size = Slice(input, 1, first - ListBase - Short)
                    /\ size.ok /\ size.item = MinimalBe(n) /\ size.next = 1 + d
    BY <2>1, <2>2 DEF Decoded
  <2>5. (1 + d + n) % U64 = 1 + d + n
    <3>1. 1 + d + n \in 0 .. U64 - 1
      BY <1>3, <1>4
    <3> QED
      BY <1>4, <3>1, SmallRemainder, Zenon
  <2>6. DecodeLongList(input, size) = DecodeItems(input, 1 + d, 1 + d + n)
    BY <2>1, <2>4, <2>5 DEF DecodeLongList
  <2>7. 1 + d \in Nat
    BY <1>4
  <2>8. DecodeItems(input, 1 + d, 1 + d + n) = Decoded(items, k)
    BY <1>8, <2>1, <2>7
  <2> QED
    BY <1>6, <2>3, <2>4, <2>6, <2>8, Zenon
<1> QED
  BY <1>6, <1>9, <1>10

\* Different lists are written differently, so a signature is for one payload
\* only (rlp_list, eth.rs 29-38).
THEOREM ListsDiffer ==
    ASSUME NEW items, NEW others, Writable(items), Writable(others),
           RlpList(Strings(items)) = RlpList(Strings(others))
    PROVE  items = others
<1>1. DecodeFlatList(RlpList(Strings(items))).item = items
  BY ListIsRead DEF Decoded
<1>2. DecodeFlatList(RlpList(Strings(others))).item = others
  BY ListIsRead DEF Decoded
<1> QED
  BY <1>1, <1>2

-----------------------------------------------------------------------------
\* Hexadecimal text and fixed-width integers.

LEMMA Halves ==
    ASSUME NEW n \in Nat
    PROVE  /\ (2 * n) % 2 = 0 /\ (2 * n) \div 2 = n
           /\ \A i \in 1 .. n : /\ 2 * i - 1 \in 1 .. 2 * n /\ (2 * i - 1) % 2 = 1
                                /\ (2 * i - 1 + 1) \div 2 = i
                                /\ 2 * i \in 1 .. 2 * n /\ (2 * i) % 2 = 0
                                /\ (2 * i) \div 2 = i
  OBVIOUS

\* The two digits of a byte.
LEMMA DigitPairs ==
    ASSUME NEW byte \in Bytes
    PROVE  /\ byte \div Radix \in Digits /\ byte % Radix \in Digits
           /\ (byte \div Radix) * Radix + (byte % Radix) = byte
<1>1. Radix \in Nat \ {0} /\ byte \in Nat /\ byte < Radix * Radix
  <2>1. byte \in Nat /\ byte < Base
    BY BaseIsNat DEF Bytes
  <2> QED
    BY <2>1, HexAssumption DEF HexAssumption, Base
<1>2. /\ byte \div Radix \in Nat /\ byte % Radix \in 0 .. Radix - 1
      /\ byte = Radix * (byte \div Radix) + (byte % Radix)
  <2>1. PICK r \in Nat \ {0} : r = Radix
    BY <1>1
  <2>2. PICK b \in Nat : b = byte
    BY <1>1
  <2>3. b \div r \in Nat /\ b % r \in 0 .. r - 1 /\ b = r * (b \div r) + (b % r)
    BY Division
  <2> QED
    BY <2>1, <2>2, <2>3, Zenon
<1>3. PICK q \in Nat, d \in 0 .. Radix - 1 : q = byte \div Radix /\ d = byte % Radix
  BY <1>2
<1>4. byte = Radix * q + d /\ Radix * q = q * Radix
  BY <1>1, <1>2, <1>3
<1>5. q < Radix
  <2>1. \A r, x \in Nat : x >= r => r * x >= r * r
    OBVIOUS
  <2>2. Radix * q \in Nat /\ Radix * Radix \in Nat /\ q >= Radix => Radix * q >= Radix * Radix
    BY <1>1, <2>1
  <2> QED
    BY <1>1, <1>4, <2>2
<1> QED
  BY <1>1, <1>2, <1>3, <1>4, <1>5 DEF Digits

\* What is written of bytes is read back, by the tool and by the node.
LEMMA HexIsRead ==
    ASSUME NEW bytes \in Seq(Bytes)
    PROVE  /\ DecodeFlexibleHex(PrefixedHex(bytes)) = Readable(bytes)
           /\ HexLower(bytes) \in Seq(Digits)
           /\ Len(HexLower(bytes)) = 2 * Len(bytes)
           /\ \A i \in 1 .. Len(bytes) :
                  /\ HexLower(bytes)[2 * i - 1] = bytes[i] \div Radix
                  /\ HexLower(bytes)[2 * i] = bytes[i] % Radix
<1>1. PICK n \in Nat : n = Len(bytes)
  OBVIOUS
<1>2. PICK text : text = HexLower(bytes)
  OBVIOUS
<1>3. text = [i \in 1 .. 2 * n |-> IF i % 2 = 1 THEN bytes[(i + 1) \div 2] \div Radix
                                                 ELSE bytes[i \div 2] % Radix]
  BY <1>1, <1>2 DEF HexLower
<1>4. ASSUME NEW i \in 1 .. n
      PROVE  /\ text[2 * i - 1] = bytes[i] \div Radix /\ text[2 * i] = bytes[i] % Radix
             /\ text[2 * i - 1] \in Digits /\ text[2 * i] \in Digits
             /\ text[2 * i - 1] * Radix + text[2 * i] = bytes[i]
  <2>1. /\ 2 * i - 1 \in 1 .. 2 * n /\ (2 * i - 1) % 2 = 1 /\ (2 * i - 1 + 1) \div 2 = i
        /\ 2 * i \in 1 .. 2 * n /\ (2 * i) % 2 # 1 /\ (2 * i) \div 2 = i
    BY Halves
  <2>2. bytes[i] \in Bytes
    BY <1>1
  <2>3. text[2 * i - 1] = bytes[i] \div Radix /\ text[2 * i] = bytes[i] % Radix
    BY <1>3, <2>1, Zenon
  <2>4. PICK high, low :
            /\ high = bytes[i] \div Radix /\ low = bytes[i] % Radix
            /\ high \in Digits /\ low \in Digits /\ high * Radix + low = bytes[i]
    <3>1. /\ bytes[i] \div Radix \in Digits /\ bytes[i] % Radix \in Digits
          /\ (bytes[i] \div Radix) * Radix + (bytes[i] % Radix) = bytes[i]
      BY <2>2, DigitPairs, Zenon
    <3> QED
      BY <3>1, Zenon
  <2>5. text[2 * i - 1] = high /\ text[2 * i] = low
    BY <2>3, <2>4, Zenon
  <2>6. text[2 * i - 1] * Radix + text[2 * i] = bytes[i]
    BY <2>4, <2>5, Zenon
  <2>7. text[2 * i - 1] \in Digits /\ text[2 * i] \in Digits
    BY <2>4, <2>5, Zenon
  <2> QED
    BY <2>3, <2>6, <2>7, Zenon
<1>5. \A i \in 1 .. 2 * n : text[i] \in Digits
  <2> SUFFICES ASSUME NEW i \in 1 .. 2 * n
               PROVE  text[i] \in Digits
    OBVIOUS
  <2>1. \/ \E k \in 1 .. n : i = 2 * k
        \/ \E k \in 1 .. n : i = 2 * k - 1
    <3>1. i = 2 * (i \div 2) \/ i = 2 * (i \div 2 + 1) - 1
      OBVIOUS
    <3>2. i = 2 * (i \div 2) => i \div 2 \in 1 .. n
      OBVIOUS
    <3>3. i = 2 * (i \div 2 + 1) - 1 => i \div 2 + 1 \in 1 .. n
      OBVIOUS
    <3> QED
      BY <3>1, <3>2, <3>3, Zenon
  <2> QED
    BY <1>4, <2>1
<1>6. text \in Seq(Digits) /\ Len(text) = 2 * n
  <2>1. text \in [1 .. 2 * n -> Digits]
    BY <1>3, <1>5
  <2>2. 2 * n \in Nat
    OBVIOUS
  <2> QED
    BY <2>1, <2>2, FunctionIsSeq
<1>7. DecodeHexBody(text) = Readable(bytes)
  <2>1. Len(text) % 2 = 0 /\ Len(text) \div 2 = n
    BY <1>6, Halves
  <2>2. \A i \in 1 .. n : TwoDigits(text[2 * i - 1], text[2 * i])
    BY <1>4 DEF TwoDigits
  <2>3. \A i \in 1 .. n : ByteOf(text[2 * i - 1], text[2 * i]) = bytes[i]
    <3>1. Plus \notin Digits
      BY HexAssumption DEF Plus, Digits
    <3> QED
      BY <1>4, <3>1 DEF ByteOf
  <2>4. [i \in 1 .. n |-> ByteOf(text[2 * i - 1], text[2 * i])] = bytes
    <3>1. bytes = [i \in 1 .. n |-> bytes[i]]
      BY <1>1
    <3> QED
      BY <2>3, <3>1
  <2> QED
    BY <2>1, <2>2, <2>4 DEF DecodeHexBody
<1>8. PrefixedHex(bytes).body = text
  BY <1>2 DEF PrefixedHex, Text
<1> QED
  BY <1>1, <1>2, <1>4, <1>6, <1>7, <1>8 DEF DecodeFlexibleHex

\* A byte string is some zeros and the digits that are left without them.
LEMMA StripIs ==
    ASSUME NEW size \in Nat, NEW bytes \in [1 .. size -> Bytes]
    PROVE  \E zeros \in 0 .. size :
               /\ \A j \in 1 .. zeros : bytes[j] = 0
               /\ StripLeadingZeros(bytes) \in Seq(Bytes)
               /\ Len(StripLeadingZeros(bytes)) = size - zeros
               /\ \A i \in 1 .. size - zeros :
                      StripLeadingZeros(bytes)[i] = bytes[zeros + i]
               /\ zeros < size => bytes[zeros + 1] # 0
<1> DEFINE IsFirst(i) == /\ \A j \in 1 .. i - 1 : bytes[j] = 0
                         /\ i <= Len(bytes) => bytes[i] # 0
           first == CHOOSE i \in 1 .. Len(bytes) + 1 : IsFirst(i)
<1>1. bytes \in Seq(Bytes) /\ Len(bytes) = size
  BY FunctionIsSeq
<1>2. \E i \in 1 .. Len(bytes) + 1 : IsFirst(i)
  <2> DEFINE S == {i \in Nat : i \in 1 .. size + 1 /\ (i <= size => bytes[i] # 0)}
  <2>1. S \subseteq Nat /\ size + 1 \in S
    OBVIOUS
  <2>2. PICK i \in S : \A k \in S : i <= k
    <3> HIDE DEF S
    <3> QED
      BY <2>1, Least, Zenon
  <2>3. i \in 1 .. size + 1 /\ (i <= size => bytes[i] # 0)
    OBVIOUS
  <2>4. ASSUME NEW j \in 1 .. i - 1
        PROVE  bytes[j] = 0
    <3>1. j \in 1 .. size + 1 /\ ~(i <= j) /\ j \in Nat
      BY <2>3
    <3> QED
      BY <2>2, <3>1
  <2> QED
    BY <1>1, <2>3, <2>4
<1>3. first \in 1 .. size + 1 /\ IsFirst(first)
  BY <1>1, <1>2
<1>4. StripLeadingZeros(bytes) = SubSeq(bytes, first, Len(bytes))
  BY DEF StripLeadingZeros
<1> HIDE DEF first
<1>5. PICK zeros \in 0 .. size : first = zeros + 1
  <2>1. first - 1 \in 0 .. size /\ first = (first - 1) + 1
    BY <1>3
  <2> QED
    BY <2>1
<1>6. StripLeadingZeros(bytes) = SubSeq(bytes, zeros + 1, size)
  BY <1>1, <1>4, <1>5
<1>7. PICK rest : rest = SubSeq(bytes, zeros + 1, size)
  OBVIOUS
<1>8. /\ rest \in Seq(Bytes) /\ Len(rest) = size - zeros
      /\ \A i \in 1 .. size - zeros : rest[i] = bytes[zeros + i]
  <2>1. zeros + 1 \in 1 .. Len(bytes) + 1 /\ size \in zeros .. Len(bytes)
    BY <1>1, <1>5
  <2>2. \A i \in 1 .. size - zeros : bytes[zeros + i] \in Bytes
    OBVIOUS
  <2>3. rest = [i \in 1 .. size - zeros |-> bytes[zeros + i]]
    <3>1. size - (zeros + 1) + 1 = size - zeros /\ \A i \in Int : i + (zeros + 1) - 1 = zeros + i
      OBVIOUS
    <3> QED
      BY <1>1, <1>7, <2>1, <3>1
  <2>4. size - zeros \in Nat
    OBVIOUS
  <2>5. rest \in [1 .. size - zeros -> Bytes]
    BY <2>2, <2>3
  <2> QED
    BY <2>3, <2>4, <2>5, FunctionIsSeq
<1>9. /\ \A j \in 1 .. zeros : bytes[j] = 0
      /\ zeros < size => bytes[zeros + 1] # 0
  <2>1. IsFirst(zeros + 1) /\ zeros + 1 - 1 = zeros /\ (zeros < size => zeros + 1 <= size)
    BY <1>3, <1>5
  <2> QED
    BY <1>1, <2>1
<1>10. StripLeadingZeros(bytes) = rest
  BY <1>6, <1>7
<1> QED
  BY <1>8, <1>9, <1>10

\* What two strings make one after the other.
LEMMA Joined ==
    ASSUME NEW s \in Seq(Bytes), NEW t \in Seq(Bytes)
    PROVE  /\ s \o t \in Seq(Bytes) /\ Len(s \o t) = Len(s) + Len(t)
           /\ \A i \in 1 .. Len(s) + Len(t) :
                  (s \o t)[i] = IF i <= Len(s) THEN s[i] ELSE t[i - Len(s)]
  BY ConcatProperties

\* Zeros in front of what was stripped give it back too.
LEMMA ZerosRestored ==
    ASSUME NEW size \in Nat, NEW bytes \in [1 .. size -> Bytes]
    PROVE  LET rest == StripLeadingZeros(bytes)
           IN  /\ rest = << >> \/ rest[1] # 0
               /\ [i \in 1 .. size - Len(rest) |-> 0] \o rest = bytes
<1>1. PICK rest : rest = StripLeadingZeros(bytes)
  OBVIOUS
<1>2. PICK zeros \in 0 .. size :
          /\ \A j \in 1 .. zeros : bytes[j] = 0
          /\ rest \in Seq(Bytes) /\ Len(rest) = size - zeros
          /\ \A i \in 1 .. size - zeros : rest[i] = bytes[zeros + i]
          /\ zeros < size => bytes[zeros + 1] # 0
  <2>1. \E zeros \in 0 .. size :
            /\ \A j \in 1 .. zeros : bytes[j] = 0
            /\ StripLeadingZeros(bytes) \in Seq(Bytes)
            /\ Len(StripLeadingZeros(bytes)) = size - zeros
            /\ \A i \in 1 .. size - zeros :
                   StripLeadingZeros(bytes)[i] = bytes[zeros + i]
            /\ zeros < size => bytes[zeros + 1] # 0
    BY StripIs
  <2> QED
    BY <1>1, <2>1
<1>3. rest = << >> \/ rest[1] # 0
  <2>1. CASE zeros < size
    <3>1. rest[1] = bytes[zeros + 1]
      BY <1>2, <2>1
    <3> QED
      BY <1>2, <2>1, <3>1
  <2>2. CASE ~(zeros < size)
    <3>1. Len(rest) = 0
      BY <1>2, <2>2
    <3> QED
      BY <1>2, <3>1
  <2> QED
    BY <2>1, <2>2
<1>4. [i \in 1 .. size - Len(rest) |-> 0] \o rest = bytes
  <2>1. PICK pad : pad = [i \in 1 .. zeros |-> 0]
    OBVIOUS
  <2>2. size - Len(rest) = zeros
    BY <1>2
  <2>3. [i \in 1 .. size - Len(rest) |-> 0] \o rest = pad \o rest
    BY <2>1, <2>2, Zenon
  <2>4. 0 \in Bytes
    BY BaseIsNat DEF Bytes
  <2>5. pad \in Seq(Bytes) /\ Len(pad) = zeros /\ \A i \in 1 .. zeros : pad[i] = 0
    <3>1. pad \in [1 .. zeros -> Bytes] /\ \A i \in 1 .. zeros : pad[i] = 0
      BY <2>1, <2>4
    <3>2. zeros \in Nat
      OBVIOUS
    <3> QED
      BY <3>1, <3>2, FunctionIsSeq, Zenon
  <2>6. PICK both : both = pad \o rest
    OBVIOUS
  <2>7. /\ both \in Seq(Bytes) /\ Len(both) = size
        /\ \A i \in 1 .. size : both[i] = IF i <= zeros THEN pad[i] ELSE rest[i - zeros]
    <3>1. PICK z \in Nat, m \in Nat : z = Len(pad) /\ m = Len(rest) /\ z = zeros /\ z + m = size
      <4>1. zeros \in Nat /\ size - zeros \in Nat /\ zeros + (size - zeros) = size
        OBVIOUS
      <4> QED
        BY <1>2, <2>5, <4>1
    <3>2. /\ both \in Seq(Bytes) /\ Len(both) = z + m
          /\ \A i \in 1 .. z + m : both[i] = IF i <= z THEN pad[i] ELSE rest[i - z]
      <4>1. pad \in Seq(Bytes) /\ rest \in Seq(Bytes)
        BY <1>2, <2>5
      <4>2. /\ pad \o rest \in Seq(Bytes) /\ Len(pad \o rest) = Len(pad) + Len(rest)
            /\ \A i \in 1 .. Len(pad) + Len(rest) :
                   (pad \o rest)[i] = IF i <= Len(pad) THEN pad[i] ELSE rest[i - Len(pad)]
        BY <4>1, Joined, Zenon
      <4> QED
        BY <2>6, <3>1, <4>2, Zenon
    <3> QED
      BY <3>1, <3>2
  <2>8. ASSUME NEW i \in 1 .. size
        PROVE  both[i] = bytes[i]
    <3>1. CASE i <= zeros
      BY <1>2, <2>5, <2>7, <3>1
    <3>2. CASE ~(i <= zeros)
      <4>1. i - zeros \in 1 .. size - zeros /\ zeros + (i - zeros) = i
        BY <3>2
      <4> QED
        BY <1>2, <2>7, <3>2, <4>1
    <3> QED
      BY <3>1, <3>2
  <2>9. both = [i \in 1 .. size |-> both[i]] /\ bytes = [i \in 1 .. size |-> bytes[i]]
    BY <2>7
  <2>10. [i \in 1 .. size |-> both[i]] = [i \in 1 .. size |-> bytes[i]]
    BY <2>8
  <2> QED
    BY <2>3, <2>6, <2>9, <2>10, Zenon
<1> QED
  BY <1>1, <1>3, <1>4

\* Padding what was stripped to its size gives it back.
LEMMA PadIsInverse ==
    ASSUME NEW size \in Nat, NEW bytes \in [1 .. size -> Bytes]
    PROVE  LeftPad(StripLeadingZeros(bytes), size) = bytes
<1>1. PICK zeros \in 0 .. size :
          /\ \A j \in 1 .. zeros : bytes[j] = 0
          /\ Len(StripLeadingZeros(bytes)) = size - zeros
          /\ \A i \in 1 .. size - zeros :
                 StripLeadingZeros(bytes)[i] = bytes[zeros + i]
  BY StripIs
<1>2. PICK rest : rest = StripLeadingZeros(bytes)
  OBVIOUS
<1>3. size - Len(rest) = zeros
  BY <1>1, <1>2
<1>4. ASSUME NEW i \in 1 .. size
      PROVE  (IF i <= zeros THEN 0 ELSE rest[i - zeros]) = bytes[i]
  <2>1. CASE i <= zeros
    BY <1>1, <2>1
  <2>2. CASE ~(i <= zeros)
    <3>1. i - zeros \in 1 .. size - zeros /\ zeros + (i - zeros) = i
      BY <2>2
    <3> QED
      BY <1>1, <1>2, <2>2, <3>1
  <2> QED
    BY <2>1, <2>2
<1>5. LeftPad(rest, size) = [i \in 1 .. size |-> IF i <= zeros THEN 0 ELSE rest[i - zeros]]
  <2>1. PICK z : z = size - Len(rest)
    OBVIOUS
  <2>2. LeftPad(rest, size) = [i \in 1 .. size |-> IF i <= z THEN 0 ELSE rest[i - z]]
    BY <2>1 DEF LeftPad
  <2> QED
    BY <1>3, <2>1, <2>2
<1> QED
  BY <1>2, <1>4, <1>5

-----------------------------------------------------------------------------
\* The items of a transaction.

Transfers ==
    [chain_id : 0 .. U64 - 1, nonce : 0 .. U64 - 1, gas_price : 0 .. U128 - 1,
     gas_limit : 0 .. U64 - 1, to : [1 .. AddressBytes -> Bytes],
     value : 0 .. U128 - 1]

ItemsOf(tx, v, r, s) ==
    <<MinimalBe(tx.nonce), MinimalBe(tx.gas_price), MinimalBe(tx.gas_limit),
      tx.to, MinimalBe(tx.value), << >>, v, r, s>>

Longest == 2 * WordBytes + AddressBytes + SigBytes
Item(bytes) == bytes \in Seq(Bytes) /\ Len(bytes) <= Longest

LEMMA ItemBounds ==
    /\ Longest \in Nat
    /\ \A n \in 0 .. U128 - 1 : Item(MinimalBe(n))
    /\ \A n \in 0 .. U64 - 1 : n \in 0 .. U128 - 1
    /\ \A f \in [1 .. AddressBytes -> Bytes] : Item(f)
    /\ Item(<< >>)
    /\ 1 + WordBytes + 9 * (1 + WordBytes + Longest) < U64
<1>1. PICK w \in Nat \ {0}, a \in Nat, s \in Nat :
          /\ w = WordBytes /\ a = AddressBytes /\ s = SigBytes
          /\ 10 * (1 + 3 * w + a + s) < U64
  BY Prefixes, TransferAssumption DEF TransferAssumption
<1>2. Longest = 2 * w + a + s
  BY <1>1 DEF Longest
<1>3. U64 \in Nat /\ U128 \in Nat /\ U64 <= U128
  BY WordsAreNat
<1>4. ASSUME NEW n \in 0 .. U128 - 1
      PROVE  Item(MinimalBe(n))
  <2>1. MinimalBe(n) \in Seq(Bytes) /\ Len(MinimalBe(n)) \in 0 .. 2 * WordBytes
    BY MinimalBeType
  <2> QED
    BY <1>1, <1>2, <2>1 DEF Item
<1>5. ASSUME NEW f \in [1 .. AddressBytes -> Bytes]
      PROVE  Item(f)
  <2>1. f \in Seq(Bytes) /\ Len(f) = a
    BY <1>1, FunctionIsSeq
  <2> QED
    BY <1>1, <1>2, <2>1 DEF Item
<1>6. 1 + w + 9 * (1 + w + (2 * w + a + s)) <= 10 * (1 + 3 * w + a + s)
  OBVIOUS
<1>7. Item(<< >>)
  BY <1>2 DEF Item
<1> QED
  BY <1>1, <1>2, <1>3, <1>4, <1>5, <1>6, <1>7

LEMMA SixAndThree ==
    ASSUME NEW x, NEW y, NEW z, NEW a, NEW b, NEW c, NEW d, NEW e, NEW f, NEW g, NEW h, NEW i,
           x = <<a, b, c, d, e, f>>, y = <<g, h, i>>,
           z = <<a, b, c, d, e, f, g, h, i>>
    PROVE  x \o y = z
<1>1. PICK S : S = {a, b, c, d, e, f, g, h, i}
  OBVIOUS
<1>2. /\ x \in Seq(S) /\ y \in Seq(S) /\ z \in Seq(S)
      /\ Len(x) = 6 /\ Len(y) = 3 /\ Len(z) = 9
  BY <1>1
<1>3. x \o y \in Seq(S) /\ Len(x \o y) = 9
  BY <1>2
<1>4. ASSUME NEW k \in 1 .. 9
      PROVE  (x \o y)[k] = z[k]
  <2>1. (x \o y)[k] = IF k <= 6 THEN x[k] ELSE y[k - 6]
    BY <1>2
  <2>2. k \in {1, 2, 3, 4, 5, 6, 7, 8, 9}
    OBVIOUS
  <2> QED
    BY <2>1, <2>2
<1>5. PICK u \in Seq(S) : u = x \o y /\ Len(u) = 9
  BY <1>3
<1>6. u = [k \in 1 .. 9 |-> u[k]] /\ z = [k \in 1 .. 9 |-> z[k]]
  BY <1>2, <1>5
<1>7. [k \in 1 .. 9 |-> u[k]] = [k \in 1 .. 9 |-> z[k]]
  BY <1>4, <1>5
<1> QED
  BY <1>5, <1>6, <1>7, Zenon

\* The first six of nine items.
LEMMA FirstSix ==
    ASSUME NEW S, NEW items \in Seq(S), Len(items) = 9
    PROVE  SubSeq(items, 1, 6)
               = <<items[1], items[2], items[3], items[4], items[5], items[6]>>
<1>1. PICK x : x = SubSeq(items, 1, 6)
  OBVIOUS
<1>2. /\ x \in Seq(S) /\ Len(x) = 6
      /\ \A i \in 1 .. 6 : x[i] = items[i]
  <2>1. x = [i \in 1 .. 6 |-> items[i]]
    BY <1>1
  <2>2. \A i \in 1 .. 6 : items[i] \in S
    <3>1. \A i \in 1 .. 6 : i \in 1 .. 9
      OBVIOUS
    <3>2. \A i \in 1 .. Len(items) : items[i] \in S
      BY ElementOfSeq
    <3> QED
      BY <3>1, <3>2, Zenon
  <2> QED
    BY <2>1, <2>2, FunctionIsSeq
<1>3. x = [i \in 1 .. 6 |-> x[i]]
  BY <1>2
<1>4. PICK y : y = <<items[1], items[2], items[3], items[4], items[5], items[6]>>
  OBVIOUS
<1>5. y = [i \in 1 .. 6 |-> y[i]]
  BY <1>4
<1>6. \A i \in 1 .. 6 : y[i] = items[i]
  <2>1. 1 .. 6 = {1, 2, 3, 4, 5, 6}
    OBVIOUS
  <2> QED
    BY <1>4, <2>1
<1>7. [i \in 1 .. 6 |-> x[i]] = [i \in 1 .. 6 |-> y[i]]
  BY <1>2, <1>6
<1> QED
  BY <1>1, <1>3, <1>4, <1>5, <1>7, Zenon

LEMMA TransferItems ==
    ASSUME NEW tx \in Transfers, NEW v, NEW r, NEW s, Item(v), Item(r), Item(s)
    PROVE  /\ Writable(ItemsOf(tx, v, r, s)) /\ Len(ItemsOf(tx, v, r, s)) = 9
           /\ Fields(tx, << >>) \o <<RlpBytes(v), RlpBytes(r), RlpBytes(s)>>
                  = Strings(ItemsOf(tx, v, r, s))
<1>1. PICK a, b, c, d, e, f :
          /\ a = MinimalBe(tx.nonce) /\ b = MinimalBe(tx.gas_price)
          /\ c = MinimalBe(tx.gas_limit) /\ d = tx.to /\ e = MinimalBe(tx.value)
          /\ f = << >>
  OBVIOUS
<1>2. PICK items : items = <<a, b, c, d, e, f, v, r, s>>
  OBVIOUS
<1>3. ItemsOf(tx, v, r, s) = items
  BY <1>1, <1>2 DEF ItemsOf
<1>4. Item(a) /\ Item(b) /\ Item(c) /\ Item(d) /\ Item(e) /\ Item(f)
  BY <1>1, ItemBounds DEF Transfers
<1>5. /\ Len(items) = 9 /\ items \in Seq(Seq(Bytes))
      /\ \A i \in 1 .. 9 : Item(items[i])
  <2>1. \A i \in 1 .. 9 : Item(items[i])
    BY <1>2, <1>4
  <2>2. /\ a \in Seq(Bytes) /\ b \in Seq(Bytes) /\ c \in Seq(Bytes) /\ d \in Seq(Bytes)
        /\ e \in Seq(Bytes) /\ f \in Seq(Bytes) /\ v \in Seq(Bytes) /\ r \in Seq(Bytes)
        /\ s \in Seq(Bytes)
    BY <1>4 DEF Item
  <2>3. Len(items) = 9 /\ items \in Seq(Seq(Bytes))
    BY <1>2, <2>2
  <2> QED
    BY <2>1, <2>3
<1>6. Writable(items)
  BY <1>5, ItemBounds DEF Writable, Item
<1>7. Fields(tx, << >>) = <<RlpBytes(a), RlpBytes(b), RlpBytes(c), RlpBytes(d),
                            RlpBytes(e), RlpBytes(f)>>
  BY <1>1, Zenon DEF Fields, RlpUint
<1>8. Strings(items) = <<RlpBytes(a), RlpBytes(b), RlpBytes(c), RlpBytes(d), RlpBytes(e),
                         RlpBytes(f), RlpBytes(v), RlpBytes(r), RlpBytes(s)>>
  BY <1>2, <1>5 DEF Strings
<1>9. Fields(tx, << >>) \o <<RlpBytes(v), RlpBytes(r), RlpBytes(s)>> = Strings(items)
  <2>1. PICK x, y, z : /\ x = Fields(tx, << >>) /\ z = Strings(items)
                       /\ y = <<RlpBytes(v), RlpBytes(r), RlpBytes(s)>>
    OBVIOUS
  <2>2. PICK p1, p2, p3, p4, p5, p6, p7, p8, p9 :
            /\ x = <<p1, p2, p3, p4, p5, p6>> /\ y = <<p7, p8, p9>>
            /\ z = <<p1, p2, p3, p4, p5, p6, p7, p8, p9>>
    BY <1>7, <1>8, <2>1
  <2>3. x \o y = z
    BY <2>2, SixAndThree, Zenon
  <2> QED
    BY <2>1, <2>3, Zenon
<1> QED
  BY <1>3, <1>5, <1>6, <1>9

\* The payload that is signed and the text that is sent.
LEMMA PayloadIs ==
    ASSUME NEW tx \in Transfers
    PROVE  /\ SigningPayload(tx)
                  = RlpList(Strings(ItemsOf(tx, MinimalBe(tx.chain_id), << >>, << >>)))
           /\ Writable(ItemsOf(tx, MinimalBe(tx.chain_id), << >>, << >>))
<1>1. PICK v : v = MinimalBe(tx.chain_id)
  OBVIOUS
<1>2. Item(v) /\ Item(<< >>)
  BY <1>1, ItemBounds DEF Transfers
<1>3. /\ Writable(ItemsOf(tx, v, << >>, << >>))
      /\ Fields(tx, << >>) \o <<RlpBytes(v), RlpBytes(<< >>), RlpBytes(<< >>)>>
             = Strings(ItemsOf(tx, v, << >>, << >>))
  BY <1>2, TransferItems
<1>4. SigningPayload(tx)
          = RlpList(Fields(tx, << >>) \o <<RlpBytes(v), RlpBytes(<< >>), RlpBytes(<< >>)>>)
  BY <1>1, Zenon DEF SigningPayload, RlpUint
<1>5. SigningPayload(tx) = RlpList(Strings(ItemsOf(tx, v, << >>, << >>)))
  BY <1>3, <1>4, Zenon
<1> QED
  BY <1>1, <1>3, <1>5, Zenon

LEMMA SignedIs ==
    ASSUME NEW tx \in Transfers, NEW signature,
           signature.r \in [1 .. SigBytes -> Bytes],
           signature.s \in [1 .. SigBytes -> Bytes],
           signature.recovery_id \in {0, 1},
           NEW v, v = V(tx.chain_id, signature.recovery_id)
    PROVE  LET items == ItemsOf(tx, MinimalBe(v), StripLeadingZeros(signature.r),
                                StripLeadingZeros(signature.s))
           IN  /\ Writable(items) /\ Len(items) = 9
               /\ SignLegacyTransfer(tx, signature) = PrefixedHex(RlpList(Strings(items)))
               /\ v \in 0 .. U64 - 1
<1>1. PICK b, r, s : /\ b = MinimalBe(v) /\ r = StripLeadingZeros(signature.r)
                     /\ s = StripLeadingZeros(signature.s)
  OBVIOUS
<1>2. v \in 0 .. U64 - 1
  <2>1. \A c, p \in Nat : \A w \in Nat \ {0} : (c * 2 + 35 + p) % w \in 0 .. w - 1
    OBVIOUS
  <2>2. tx.chain_id \in Nat /\ signature.recovery_id \in Nat /\ U64 \in Nat \ {0}
    BY WordsAreNat DEF Transfers
  <2> QED
    BY <2>1, <2>2, Zenon DEF V
<1>3. \A f \in [1 .. SigBytes -> Bytes] : Item(StripLeadingZeros(f))
  <2> SUFFICES ASSUME NEW f \in [1 .. SigBytes -> Bytes]
               PROVE  Item(StripLeadingZeros(f))
    OBVIOUS
  <2>1. PICK n \in Nat : n = SigBytes
    BY TransferAssumption DEF TransferAssumption
  <2>2. PICK zeros \in 0 .. n : /\ StripLeadingZeros(f) \in Seq(Bytes)
                                /\ Len(StripLeadingZeros(f)) = n - zeros
    <3>1. f \in [1 .. n -> Bytes]
      BY <2>1
    <3> QED
      BY <3>1, StripIs, Zenon
  <2>3. n - zeros <= Longest
    BY <2>1, Prefixes, TransferAssumption DEF TransferAssumption, Longest
  <2> QED
    BY <2>2, <2>3 DEF Item
<1>4. Item(b) /\ Item(r) /\ Item(s)
  BY <1>1, <1>2, <1>3, ItemBounds
<1>5. /\ Writable(ItemsOf(tx, b, r, s)) /\ Len(ItemsOf(tx, b, r, s)) = 9
      /\ Fields(tx, << >>) \o <<RlpBytes(b), RlpBytes(r), RlpBytes(s)>>
             = Strings(ItemsOf(tx, b, r, s))
  BY <1>4, TransferItems
<1>6. SignLegacyTransfer(tx, signature) = PrefixedHex(RlpList(Strings(ItemsOf(tx, b, r, s))))
  BY <1>1, <1>5, Zenon DEF SignLegacyTransfer, RlpUint
<1> QED
  BY <1>1, <1>2, <1>5, <1>6, Zenon

-----------------------------------------------------------------------------
\* Recovery.

\* Signatures whose bytes have their sizes.
Sized(signature) ==
    /\ signature.r \in [1 .. SigBytes -> Bytes]
    /\ signature.s \in [1 .. SigBytes -> Bytes]
    /\ signature.recovery_id \in {0, 1}

\* The chain id and the parity that are found in v, if v did not wrap.
LEMMA ChainIsFound ==
    ASSUME NEW c \in Nat, NEW p \in {0, 1}, c * 2 + 35 + p < U64
    PROVE  /\ V(c, p) = c * 2 + 35 + p
           /\ V(c, p) >= 35 /\ (V(c, p) - 35) \div 2 = c /\ (V(c, p) - 35) % 2 = p
<1>1. PICK w \in Nat \ {0} : w = U64
  BY WordsAreNat
<1>2. c * 2 + 35 + p \in 0 .. w - 1
  BY <1>1
<1>3. (c * 2 + 35 + p) % w = c * 2 + 35 + p
  BY <1>2, SmallRemainder, Zenon
<1>4. V(c, p) = c * 2 + 35 + p
  BY <1>1, <1>3 DEF V
<1>5. /\ c * 2 + 35 + p >= 35 /\ (c * 2 + 35 + p - 35) \div 2 = c
      /\ (c * 2 + 35 + p - 35) % 2 = p
  OBVIOUS
<1> QED
  BY <1>4, <1>5

\* If it wrapped another one is found.
LEMMA ChainIsLost ==
    ASSUME NEW c \in Nat, NEW p \in {0, 1}, ~(c * 2 + 35 + p < U64), V(c, p) >= 35
    PROVE  (V(c, p) - 35) \div 2 # c
<1>1. PICK w \in Nat \ {0} : w = U64
  BY WordsAreNat
<1>2. PICK v \in 0 .. w - 1 : v = V(c, p) /\ v = (c * 2 + 35 + p) % w
  BY <1>1 DEF V
<1> SUFFICES ASSUME (v - 35) \div 2 = c
             PROVE  FALSE
  BY <1>2
<1>3. v = 2 * c + 35 \/ v = 2 * c + 36
  BY <1>2
<1>4. c * 2 + 35 + p = w
  BY <1>1, <1>2, <1>3
<1>5. w % w = 0
  OBVIOUS
<1> QED
  BY <1>2, <1>4, <1>5

\* The items of a transaction that was signed, as they are read again.
LEMMA SignedItems ==
    ASSUME NEW tx \in Transfers, NEW v \in 0 .. U64 - 1, NEW r, NEW s,
           NEW items, items = ItemsOf(tx, MinimalBe(v), r, s)
    PROVE  /\ TransferOf(items) = [tx EXCEPT !.chain_id = (v - 35) \div 2]
           /\ BeToU64(items[7]) = v
           /\ items[4] = tx.to /\ Len(items[4]) = AddressBytes /\ items[6] = << >>
           /\ items[8] = r /\ items[9] = s
<1>1. /\ items[1] = MinimalBe(tx.nonce) /\ items[2] = MinimalBe(tx.gas_price)
      /\ items[3] = MinimalBe(tx.gas_limit) /\ items[4] = tx.to
      /\ items[5] = MinimalBe(tx.value) /\ items[6] = << >>
      /\ items[7] = MinimalBe(v) /\ items[8] = r /\ items[9] = s
  BY DEF ItemsOf
<1>2. U64 \in Nat /\ U128 \in Nat /\ U64 <= U128
  BY WordsAreNat
<1>3. \A n \in 0 .. U64 - 1 : BeToU64(MinimalBe(n)) = n
  BY <1>2, NumberIsRead DEF BeToU64
<1>4. \A n \in 0 .. U128 - 1 : BeToU128(MinimalBe(n)) = n
  BY <1>2, NumberIsRead DEF BeToU128
<1>5. /\ tx.nonce \in 0 .. U64 - 1 /\ tx.gas_limit \in 0 .. U64 - 1
      /\ tx.gas_price \in 0 .. U128 - 1 /\ tx.value \in 0 .. U128 - 1
      /\ tx.to \in [1 .. AddressBytes -> Bytes]
  BY DEF Transfers
<1>6. Len(items[4]) = AddressBytes
  BY <1>1, <1>5, FunctionIsSeq, TransferAssumption DEF TransferAssumption
<1>7. TransferOf(items) =
          [nonce |-> tx.nonce, gas_price |-> tx.gas_price, gas_limit |-> tx.gas_limit,
           to |-> tx.to, value |-> tx.value, chain_id |-> (v - 35) \div 2]
  BY <1>1, <1>3, <1>4, <1>5, Zenon DEF TransferOf
<1>8. [tx EXCEPT !.chain_id = (v - 35) \div 2] =
          [nonce |-> tx.nonce, gas_price |-> tx.gas_price, gas_limit |-> tx.gas_limit,
           to |-> tx.to, value |-> tx.value, chain_id |-> (v - 35) \div 2]
  BY DEF Transfers
<1> QED
  BY <1>1, <1>3, <1>6, <1>7, <1>8

\* recover_legacy_transfer is the inverse of signing: every field and the signer
\* come back as long as v fits a u64, and another chain id when it does not
\* (eth.rs 127-166, 199-275).
THEOREM SignedIsRecovered ==
    ASSUME NEW tx \in Transfers, NEW signature, Sized(signature),
           signature.payload = SigningPayload(tx),
           NEW found, found = RecoverLegacyTransfer(SignLegacyTransfer(tx, signature), signature)
    PROVE  /\ tx.chain_id * 2 + 35 + signature.recovery_id < U64 =>
                  found = [ok |-> TRUE, tx |-> tx, from |-> signature.key]
           /\ ~(tx.chain_id * 2 + 35 + signature.recovery_id < U64) =>
                  (found.ok => found.tx.chain_id # tx.chain_id)
<1>1. PICK v : v = V(tx.chain_id, signature.recovery_id)
  OBVIOUS
<1>2. PICK r, s : r = StripLeadingZeros(signature.r) /\ s = StripLeadingZeros(signature.s)
  OBVIOUS
<1>3. PICK items : items = ItemsOf(tx, MinimalBe(v), r, s)
  OBVIOUS
<1>4. /\ Writable(items) /\ Len(items) = 9 /\ v \in 0 .. U64 - 1
      /\ SignLegacyTransfer(tx, signature) = PrefixedHex(RlpList(Strings(items)))
  BY <1>1, <1>2, <1>3, SignedIs DEF Sized
<1>5. PICK list \in Seq(Bytes) :
          /\ list = RlpList(Strings(items))
          /\ DecodeFlatList(list) = Decoded(items, Len(list))
  BY <1>4, ListIsRead
<1>6. DecodeFlexibleHex(PrefixedHex(list)) = Readable(list)
  BY HexIsRead
<1>7. found = RecoverFrom(items, signature, v)
  <2>1. found = RecoverItems(DecodeFlatList(list), signature)
    <3>1. PICK raw : raw = DecodeFlexibleHex(PrefixedHex(list))
      OBVIOUS
    <3>2. raw.ok /\ raw.bytes = list
      BY <1>6, <3>1 DEF Readable
    <3>3. SignLegacyTransfer(tx, signature) = PrefixedHex(list)
      BY <1>4, <1>5
    <3> QED
      BY <3>1, <3>2, <3>3, Zenon DEF RecoverLegacyTransfer
  <2>2. PICK read : read = DecodeFlatList(list)
    OBVIOUS
  <2>3. read.ok /\ read.item = items
    BY <1>5, <2>2 DEF Decoded
  <2>4. BeToU64(items[7]) = v
    BY <1>3, <1>4, SignedItems
  <2> QED
    BY <1>4, <2>1, <2>2, <2>3, <2>4, Zenon DEF RecoverItems
<1>8. /\ TransferOf(items) = [tx EXCEPT !.chain_id = (v - 35) \div 2]
      /\ Len(items[4]) = AddressBytes /\ items[6] = << >>
      /\ items[8] = r /\ items[9] = s
  BY <1>3, <1>4, SignedItems
<1>9. tx.chain_id \in Nat /\ signature.recovery_id \in {0, 1}
  BY WordsAreNat DEF Transfers, Sized
<1>10. ASSUME tx.chain_id * 2 + 35 + signature.recovery_id < U64
       PROVE  found = [ok |-> TRUE, tx |-> tx, from |-> signature.key]
  <2>1. v >= 35 /\ (v - 35) \div 2 = tx.chain_id /\ (v - 35) % 2 = signature.recovery_id
    BY <1>1, <1>9, <1>10, ChainIsFound
  <2>2. TransferOf(items) = tx
    BY <1>8, <2>1 DEF Transfers
  <2>3. LeftPad(r, SigBytes) = signature.r /\ LeftPad(s, SigBytes) = signature.s
    BY <1>2, PadIsInverse, TransferAssumption DEF TransferAssumption, Sized
  <2>4. RlpList(Fields(tx, items[6])
                    \o <<RlpUint(tx.chain_id), RlpBytes(<< >>), RlpBytes(<< >>)>>)
            = signature.payload
    BY <1>8, Zenon DEF SigningPayload
  <2>5. Recovered(signature, signature.payload, signature.r, signature.s,
                  signature.recovery_id) = signature.key
    BY Zenon DEF Recovered
  <2>6. found = [ok |-> TRUE, tx |-> tx,
                 from |-> Recovered(signature, signature.payload, signature.r, signature.s,
                                    signature.recovery_id)]
    BY <1>7, <1>8, <2>1, <2>2, <2>3, <2>4, Zenon DEF RecoverFrom
  <2> QED
    BY <2>5, <2>6, Zenon
<1>11. ASSUME ~(tx.chain_id * 2 + 35 + signature.recovery_id < U64), found.ok
       PROVE  found.tx.chain_id # tx.chain_id
  <2>1. v >= 35 /\ found.tx = TransferOf(items)
    BY <1>7, <1>11 DEF RecoverFrom, NoTransfer
  <2>2. (v - 35) \div 2 # tx.chain_id
    BY <1>1, <1>9, <1>11, <2>1, ChainIsLost
  <2>3. TransferOf(items).chain_id = (v - 35) \div 2
    BY <1>8 DEF Transfers
  <2> QED
    BY <2>1, <2>2, <2>3
<1> QED
  BY <1>10, <1>11
=============================================================================
