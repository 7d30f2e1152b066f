---------------------------- MODULE ServiceProofs ----------------------------
(***************************************************************************)
(* The start of the service, what it signs and what the node makes of it,  *)
(* and the reasons for which a claim is turned away, for every             *)
(* environment, every set of defaults, every recipient, every state of the *)
(* node and every width of the words.                                      *)
(***************************************************************************)
EXTENDS Service, RlpProofs, FiniteSetTheorems

\* What the rest of the program takes for granted of a configuration.
Sane(c) ==
    /\ c.faucet_queue_capacity \in 1 .. U64 - 1
    /\ c.web_workers >= 1 /\ c.listen_port >= 1
    /\ c.pow_bits \in 1 .. MaxPowBits
    /\ c.pow_puzzles \in 1 .. MaxPowPuzzles
    /\ c.faucet_drip_wei \in 0 .. U128 - 1
    /\ c.faucet_gas_price_wei \in None .. U128 - 1
    /\ c.faucet_private_key \in 1 .. KeyOrder - 1

\* The environment with its blank variables removed.
Twin(e) == [f \in Variables |-> IF e[f] = Blank THEN Unset ELSE e[f]]

Loaded == {"runtime", "chain", "faucet", "bind", "listening"}

StartupInv ==
    /\ env \in Environments
    /\ status \in Loaded => Loads(env) /\ config = Resolved(env)
    /\ status = "panic" =>
           ~Loads(env) \/ Resolved(env).faucet_queue_capacity > MaxPermits
    /\ status \in {"faucet", "bind", "listening"} => chain_id \in 0 .. U64 - 1
    /\ status \in {"bind", "listening"} => PermitsFit(config.faucet_queue_capacity)

USE WordsAreNat

-----------------------------------------------------------------------------
\* The defaults leave nothing blank, so trimming a field changes nothing.
LEMMA FieldsAreNotBlank ==
    ASSUME NEW e, NEW f
    PROVE  TrimmedField(e, f) = Field(e, f)
BY DEF TrimmedField, Field, IsUnset, Given, Blank

\* A number that loads lies in its type and is not zero where that is refused.
LEMMA NumbersLoad ==
    ASSUME NEW e, Loads(e), NEW f \in Numbers, ~IsUnset(e[f])
    PROVE  /\ Field(e, f).n \in 0 .. Widths[f] - 1
           /\ f \in NonZero => Field(e, f).n # 0
BY DEF Loads, EnvyAccepts, Parses, Field

LEMMA NonZeroLoad ==
    ASSUME NEW e, Loads(e), NEW f \in NonZero
    PROVE  Field(e, f).n \in Int /\ Field(e, f).n >= 1
<1>1. f \in Numbers
  BY DEF NonZero, Numbers, Widths
<1>2. CASE IsUnset(e[f])
  <2>1. f # "chain_id"
    BY DEF NonZero
  <2>2. Defaults[f] \in 0 .. Widths[f] - 1 /\ Defaults[f] # 0
    BY <1>1, <2>1, StartupAssumption DEF StartupAssumption
  <2> QED
    BY <1>2, <2>2 DEF Field, Given
<1>3. CASE ~IsUnset(e[f])
  BY <1>1, <1>3, NumbersLoad
<1> QED
  BY <1>2, <1>3

\* What main resolves from an environment that loads is sane.
LEMMA LoadedIsSane ==
    ASSUME NEW e, Loads(e)
    PROVE  Sane(Resolved(e))
<1> DEFINE c == Resolved(e)
<1>1. \A f \in Numbers : c[f] = Field(e, f).n
  BY FieldsAreNotBlank DEF Resolved, Variables
<1>2. \A f \in Texts : c[f] = Field(e, f).n
  BY FieldsAreNotBlank DEF Resolved, Variables
<1> HIDE DEF c
<1>3. c.faucet_queue_capacity \in 1 .. U64 - 1
  <2>1. "faucet_queue_capacity" \in Numbers \cap NonZero
    BY DEF Numbers, NonZero, Widths
  <2>2. Widths["faucet_queue_capacity"] = U64
    BY DEF Widths
  <2>3. Field(e, "faucet_queue_capacity").n \in 1 .. U64 - 1
    <3>1. CASE IsUnset(e["faucet_queue_capacity"])
      BY <2>1, <2>2, <3>1, StartupAssumption DEF StartupAssumption, Field, Given
    <3>2. CASE ~IsUnset(e["faucet_queue_capacity"])
      BY <2>1, <2>2, <3>2, NumbersLoad, NonZeroLoad
    <3> QED
      BY <3>1, <3>2
  <2> QED
    BY <1>1, <2>1, <2>3
<1>4. c.web_workers >= 1 /\ c.listen_port >= 1
  BY <1>1, NonZeroLoad DEF NonZero, Numbers, Widths
<1>5. c.pow_bits \in 1 .. MaxPowBits /\ c.pow_puzzles \in 1 .. MaxPowPuzzles
  BY <1>1 DEF Loads, Validate, ValidDifficulty, Numbers, Widths
<1>6. c.faucet_drip_wei \in 0 .. U128 - 1
  BY <1>2 DEF Loads, Validate, Wei, Texts
<1>7. c.faucet_gas_price_wei \in None .. U128 - 1
  <2>1. c.faucet_gas_price_wei = Field(e, "faucet_gas_price_wei").n
    BY <1>2 DEF Texts
  <2>2. CASE IsUnset(e["faucet_gas_price_wei"])
    BY <2>1, <2>2, StartupAssumption DEF StartupAssumption, Field, Given, None
  <2>3. CASE ~IsUnset(e["faucet_gas_price_wei"])
    BY <2>1, <2>3 DEF Loads, Validate, Wei, Field, IsUnset, None
  <2> QED
    BY <2>2, <2>3
<1>8. c.faucet_private_key \in 1 .. KeyOrder - 1
  BY <1>2, FieldsAreNotBlank DEF Loads, ValidKey, Texts
<1> QED
  BY <1>3, <1>4, <1>5, <1>6, <1>7, <1>8 DEF c, Sane

\* A configured chain id fits a u64.
LEMMA ConfiguredChainFits ==
    ASSUME NEW e, Loads(e), Resolved(e).chain_id # None
    PROVE  Resolved(e).chain_id \in 0 .. U64 - 1
<1>1. "chain_id" \in Numbers /\ Widths["chain_id"] = U64
  BY DEF Numbers, Widths
<1>2. Resolved(e).chain_id = Field(e, "chain_id").n
  BY <1>1, FieldsAreNotBlank DEF Resolved, Variables
<1>3. ~IsUnset(e["chain_id"])
  BY <1>2, StartupAssumption DEF StartupAssumption, Field, Given
<1> QED
  BY <1>1, <1>2, <1>3, NumbersLoad

\* Whatever quantity is read from a reply fits the word asked for.
LEMMA QuantitiesFit ==
    ASSUME NEW reply, ReadQuantity(reply, U64).ok
    PROVE  ReadQuantity(reply, U64).value \in 0 .. U64 - 1
BY DEF ReadQuantity, ParseHex, Quantity, NoQuantity

-----------------------------------------------------------------------------
\* Blank variables play no part in the loading of an environment.
LEMMA BlanksDropped ==
    ASSUME NEW e \in Environments
    PROVE  /\ Loads(Twin(e)) <=> Loads(e)
           /\ Resolved(Twin(e)) = Resolved(e)
<1>1. \A f \in Variables : e[f] # Blank => Twin(e)[f] = e[f]
  BY DEF Twin
<1>2. \A f \in Variables : e[f] = Blank => Twin(e)[f] = Unset
  BY DEF Twin
<1>3. \A f \in Variables : IsUnset(Twin(e)[f]) <=> IsUnset(e[f])
  BY <1>1, <1>2 DEF IsUnset
<1>4. \A f \in Variables : Field(Twin(e), f) = Field(e, f)
  BY <1>1, <1>3 DEF Field, IsUnset
<1>5. \A f \in Variables : TrimmedField(Twin(e), f) = TrimmedField(e, f)
  BY <1>4, FieldsAreNotBlank
<1>6. Resolved(Twin(e)) = Resolved(e)
  BY <1>4, <1>5 DEF Resolved
<1>7. EnvyAccepts(Twin(e)) <=> EnvyAccepts(e)
  <2>1. \A f \in Numbers : ~IsUnset(e[f]) => Twin(e)[f] = e[f]
    BY <1>1 DEF Variables, IsUnset
  <2> QED
    BY <1>3, <2>1 DEF EnvyAccepts, Variables
<1>8. Validate(Twin(e)) <=> Validate(e)
  <2>1. {"pow_bits", "pow_puzzles", "faucet_drip_wei", "faucet_gas_price_wei"}
            \subseteq Variables
    BY DEF Variables, Numbers, Texts, Widths
  <2>2. (Twin(e)["faucet_gas_price_wei"] \in {Unset, Blank} \/ Wei(Twin(e)["faucet_gas_price_wei"]))
            <=> (e["faucet_gas_price_wei"] \in {Unset, Blank} \/ Wei(e["faucet_gas_price_wei"]))
    BY <1>1, <1>3, <2>1 DEF IsUnset
  <2> QED
    BY <1>4, <2>1, <2>2 DEF Validate
<1>9. "faucet_private_key" \in Variables
  BY DEF Variables, Texts
<1> QED
  BY <1>5, <1>6, <1>7, <1>8, <1>9 DEF Loads

\* Only the steps of the start change what the start has settled.
LEMMA StartInductive ==
    ASSUME StartupInv, [Next]_vars
    PROVE  StartupInv'
<1>1. CASE UNCHANGED <<boot, status>>
  BY <1>1 DEF boot, StartupInv
<1>2. CASE StartupAction
  BY <1>2 DEF StartupAction, boot, StartupInv, Loaded
<1>3. CASE LoadConfig
  <2>1. env' = env /\ chain_id' = chain_id
    BY <1>3 DEF LoadConfig
  <2>2. \/ Loads(env) /\ status' = "runtime" /\ config' = Resolved(env)
        \/ ~Loads(env) /\ status' = "panic"
    BY <1>3, Zenon DEF LoadConfig
  <2> QED
    BY <2>1, <2>2 DEF StartupInv, Loaded
<1>4. CASE BuildRuntime
  BY <1>4 DEF BuildRuntime, boot, StartupInv, Loaded
<1>5. CASE ConfiguredChain
  <2>1. /\ status = "chain" /\ status' = "faucet"
        /\ config.chain_id # None /\ chain_id' = config.chain_id
        /\ env' = env /\ config' = config
    BY <1>5 DEF ConfiguredChain
  <2>2. Loads(env) /\ config = Resolved(env)
    BY <2>1 DEF StartupInv, Loaded
  <2>3. chain_id' \in 0 .. U64 - 1
    BY <2>1, <2>2, ConfiguredChainFits
  <2> QED
    BY <2>1, <2>2, <2>3 DEF StartupInv, Loaded
<1>6. ASSUME NEW reply, DiscoverChain(reply)
      PROVE  StartupInv'
  <2>1. chain_id' \in 0 .. U64 - 1
    BY <1>6, QuantitiesFit, StartupAssumption DEF DiscoverChain, StartupAssumption
  <2> QED
    BY <1>6, <2>1 DEF DiscoverChain, StartupInv, Loaded
<1>7. CASE NewFaucet
  <2>1. /\ status = "faucet" /\ UNCHANGED <<env, config, chain_id>>
        /\ \/ PermitsFit(config.faucet_queue_capacity) /\ status' = "bind"
           \/ ~PermitsFit(config.faucet_queue_capacity) /\ status' = "panic"
    BY <1>7, Zenon DEF NewFaucet, boot
  <2>2. Loads(env) /\ config = Resolved(env)
    BY <2>1 DEF StartupInv, Loaded
  <2>3. config.faucet_queue_capacity \in 1 .. U64 - 1
    BY <2>2, LoadedIsSane DEF Sane
  <2>4. MaxPermits \in Int
    BY WordsAreNat DEF MaxPermits
  <2>5. ~PermitsFit(config.faucet_queue_capacity) =>
            config.faucet_queue_capacity > MaxPermits
    BY <2>3, <2>4, WordsAreNat DEF PermitsFit
  <2> QED
    BY <2>1, <2>2, <2>5 DEF StartupInv, Loaded
<1>8. CASE Bind
  BY <1>8 DEF Bind, boot, StartupInv, Loaded
<1>9. CASE Start
  BY <1>2, <1>3, <1>4, <1>5, <1>6, <1>7, <1>8, <1>9 DEF Start, StartupStep
<1>10. ASSUME NEW text \in Recipients, Claim(text)
      PROVE  UNCHANGED <<boot, status>>
  BY <1>10 DEF Claim
<1>11. CASE ReadPrice \/ ReadBalance \/ ReadNonce \/ Submit \/ Rest
  BY <1>1, <1>11 DEF ReadPrice, ReadBalance, ReadNonce, Submit, Rest, vars
<1> QED
  BY <1>1, <1>9, <1>10, <1>11 DEF Next, vars

THEOREM StartInvariant == Spec => []StartupInv
<1>1. Init => StartupInv
  BY DEF Init, StartupInit, StartupInv, Loaded
<1> QED
  BY <1>1, StartInductive, PTL DEF Spec

\* A server that listens has a sane configuration, whatever the environment and
\* the node's reply (config.rs 96-203, main.rs 27-91).
THEOREM ServiceListeningIsSane == Spec => []ListeningIsSane
<1>1. StartupInv => ListeningIsSane
  BY LoadedIsSane DEF StartupInv, ListeningIsSane, Sane, Loaded, PermitsFit
<1> QED
  BY <1>1, StartInvariant, PTL

\* A blank variable is as good as none, whatever the others are
\* (config.rs 96-102, 156-163, 193-202).
THEOREM ServiceBlankIsUnset == Spec => []BlankIsUnset
<1>1. StartupInv => BlankIsUnset
  BY BlanksDropped DEF StartupInv, BlankIsUnset, Twin, Loaded
<1> QED
  BY <1>1, StartInvariant, PTL

-----------------------------------------------------------------------------
\* How a recipient is read.

\* What is read digit by digit is written back digit by digit.
LEMMA DigitsOf ==
    ASSUME NEW high \in Digits, NEW low \in Digits
    PROVE  /\ (high * Radix + low) \div Radix = high
           /\ (high * Radix + low) % Radix = low
  BY HexAssumption DEF HexAssumption, Digits

\* The digit that stands at place i of a recipient's text.
Digit(text, i) == IF text.body[i] = Plus /\ i % 2 = 1 THEN 0 ELSE text.body[i]

LEMMA PairIsRead ==
    ASSUME NEW text, NEW j \in Nat \ {0},
           TwoDigits(text.body[2 * j - 1], text.body[2 * j])
    PROVE  /\ ByteOf(text.body[2 * j - 1], text.body[2 * j]) \div Radix
                  = Digit(text, 2 * j - 1)
           /\ ByteOf(text.body[2 * j - 1], text.body[2 * j]) % Radix
                  = Digit(text, 2 * j)
<1> DEFINE high == text.body[2 * j - 1]
           low == text.body[2 * j]
<1>1. (2 * j - 1) % 2 = 1 /\ (2 * j) % 2 = 0
  OBVIOUS
<1>2. low \in Digits /\ Digit(text, 2 * j) = low
  BY <1>1 DEF TwoDigits, Digit
<1>3. CASE high = Plus
  <2>1. Digit(text, 2 * j - 1) = 0 /\ ByteOf(high, low) = low
    BY <1>1, <1>3 DEF Digit, ByteOf
  <2>2. low \div Radix = 0 /\ low % Radix = low
    <3>1. \A r \in Nat \ {0} : \A d \in 0 .. r - 1 : d \div r = 0 /\ d % r = d
      OBVIOUS
    <3>2. Radix \in Nat \ {0} /\ low \in 0 .. Radix - 1
      BY <1>2, HexAssumption DEF HexAssumption, Digits
    <3> QED
      BY <3>1, <3>2, Zenon
  <2> QED
    BY <1>2, <2>1, <2>2
<1>4. CASE high # Plus
  <2>1. high \in Digits /\ Digit(text, 2 * j - 1) = high
    BY <1>1, <1>4 DEF Digit, TwoDigits
  <2>2. ByteOf(high, low) = high * Radix + low
    BY <1>4 DEF ByteOf
  <2> QED
    BY <1>2, <2>1, <2>2, DigitsOf
<1> QED
  BY <1>3, <1>4

\* What parse_address takes is an address, and the one that the text names.
LEMMA ReadAsNamed ==
    ASSUME NEW text \in Recipients, ParseAddress(text, AddressBytes).ok
    PROVE  LET address == ParseAddress(text, AddressBytes).bytes
           IN  Stands(text, address) /\ Len(address) = AddressBytes
<1> DEFINE body == text.body
           half == Len(body) \div 2
           address == [i \in 1 .. half |-> ByteOf(body[2 * i - 1], body[2 * i])]
<1>1. body \in Seq(Digits \cup {Plus, Other}) /\ Len(body) \in Nat
  BY ServiceAssumption DEF ServiceAssumption
<1>2. /\ text.prefix # ""
      /\ DecodeHexBody(body).ok
      /\ ParseAddress(text, AddressBytes).bytes = DecodeHexBody(body).bytes
      /\ Len(DecodeHexBody(body).bytes) = AddressBytes
  BY DEF ParseAddress, DecodeFixedHex, DecodeFlexibleHex, Unreadable
<1>3. /\ Len(body) % 2 = 0
      /\ \A i \in 1 .. half : TwoDigits(body[2 * i - 1], body[2 * i])
      /\ DecodeHexBody(body).bytes = address
  BY <1>2 DEF DecodeHexBody, Readable, Unreadable
<1>4. half \in Nat /\ Len(body) = 2 * half
  <2>1. \A n \in Nat : n % 2 = 0 => n \div 2 \in Nat /\ n = 2 * (n \div 2)
    OBVIOUS
  <2> QED
    BY <1>1, <1>3, <2>1, Zenon
<1> HIDE DEF half
<1>5. Len(address) = half
  <2>1. \E n \in Nat : n = half
    BY <1>4
  <2> QED
    BY <2>1
<1>6. \A i \in 1 .. half : /\ address[i] \div Radix = Digit(text, 2 * i - 1)
                           /\ address[i] % Radix = Digit(text, 2 * i)
  <2> SUFFICES ASSUME NEW i \in 1 .. half
               PROVE  /\ address[i] \div Radix = Digit(text, 2 * i - 1)
                      /\ address[i] % Radix = Digit(text, 2 * i)
    OBVIOUS
  <2>1. i \in Nat \ {0}
    BY <1>4
  <2>2. TwoDigits(body[2 * i - 1], body[2 * i])
    BY <1>3
  <2>3. address[i] = ByteOf(body[2 * i - 1], body[2 * i])
    OBVIOUS
  <2> QED
    BY <2>1, <2>2, <2>3, PairIsRead
<1> HIDE DEF address, body
<1>7. HexLower(address) = [i \in 1 .. 2 * half |-> Digit(text, i)]
  <2>1. ASSUME NEW i \in 1 .. 2 * half, i % 2 = 1
        PROVE  address[(i + 1) \div 2] \div Radix = Digit(text, i)
    <3>1. (i + 1) \div 2 \in 1 .. half /\ 2 * ((i + 1) \div 2) - 1 = i
      BY <1>4, <2>1
    <3> QED
      BY <1>6, <3>1
  <2>2. ASSUME NEW i \in 1 .. 2 * half, i % 2 # 1
        PROVE  address[i \div 2] % Radix = Digit(text, i)
    <3>1. i \div 2 \in 1 .. half /\ 2 * (i \div 2) = i
      BY <1>4, <2>2
    <3> QED
      BY <1>6, <3>1
  <2> QED
    BY <1>5, <2>1, <2>2 DEF HexLower
<1>8. DOMAIN body = 1 .. 2 * half
  BY <1>1, <1>4
<1> QED
  BY <1>2, <1>3, <1>5, <1>7, <1>8 DEF Stands, Digit, body

\* And it takes whatever names an address.
LEMMA AddressesAreRead ==
    ASSUME NEW text \in Recipients, NamesAnAddress(text)
    PROVE  ParseAddress(text, AddressBytes).ok
<1> DEFINE body == text.body
<1>1. /\ text.prefix # "" /\ AddressBytes \in Nat
      /\ Len(body) = 2 * AddressBytes
      /\ DOMAIN body = 1 .. 2 * AddressBytes
      /\ Len(body) % 2 = 0 /\ Len(body) \div 2 = AddressBytes
  <2>1. body \in Seq(Digits \cup {Plus, Other})
    BY ServiceAssumption DEF ServiceAssumption
  <2>2. /\ text.prefix # "" /\ AddressBytes \in Nat
        /\ Len(body) = 2 * AddressBytes
    BY TransferAssumption DEF TransferAssumption, NamesAnAddress
  <2>3. DOMAIN body = 1 .. Len(body)
    BY <2>1
  <2>4. PICK n \in Nat : n = AddressBytes
    BY <2>2
  <2>5. (2 * n) % 2 = 0 /\ (2 * n) \div 2 = n
    OBVIOUS
  <2> QED
    BY <2>2, <2>3, <2>4, <2>5
<1>2. ASSUME NEW i \in 1 .. AddressBytes
      PROVE  TwoDigits(body[2 * i - 1], body[2 * i])
  <2>1. /\ 2 * i - 1 \in 1 .. 2 * AddressBytes /\ (2 * i - 1) % 2 = 1
        /\ 2 * i \in 1 .. 2 * AddressBytes /\ (2 * i) % 2 # 1
    BY TransferAssumption DEF TransferAssumption
  <2>2. \A k \in DOMAIN body :
            body[k] \in IF k % 2 = 1 THEN Digits \cup {Plus} ELSE Digits
    BY DEF NamesAnAddress
  <2>3. body[2 * i - 1] \in Digits \cup {Plus} /\ body[2 * i] \in Digits
    BY <1>1, <2>1, <2>2
  <2> QED
    BY <2>3 DEF TwoDigits
<1>3. /\ DecodeHexBody(body).ok
      /\ Len(DecodeHexBody(body).bytes) = AddressBytes
  <2>1. DecodeHexBody(body) =
            Readable([i \in 1 .. AddressBytes |-> ByteOf(body[2 * i - 1], body[2 * i])])
    BY <1>1, <1>2 DEF DecodeHexBody
  <2>2. PICK n \in Nat : n = AddressBytes
    BY <1>1
  <2>3. Len([i \in 1 .. n |-> ByteOf(body[2 * i - 1], body[2 * i])]) = n
    OBVIOUS
  <2> QED
    BY <2>1, <2>2, <2>3 DEF Readable
<1> QED
  BY <1>1, <1>3 DEF ParseAddress, DecodeFixedHex, DecodeFlexibleHex

-----------------------------------------------------------------------------
\* What is read of an honest node's replies.

\* Only a faulty reply cannot be read, and what is read is the node's number.
LEMMA ReadingsAreTrue ==
    ASSUME NEW word \in Nat, NEW n \in 0 .. word - 1,
           NEW reading \in Readings(n, word)
    PROVE  /\ ~reading.quantity.ok => reading.faulty
           /\ reading.quantity.ok => reading.quantity.value = n
<1>1. PICK reply \in HonestReplies(n) \cup FaultyReplies(word) :
          reading = [quantity |-> ReadQuantity(reply, word),
                     faulty |-> reply \notin HonestReplies(n)]
  BY DEF Readings
<1>2. CASE reply \in HonestReplies(n)
  <2>1. ReadQuantity(reply, word) = Quantity(n)
    BY <1>2 DEF HonestReplies, Reply, ReadQuantity, Call, ParseHex
  <2>2. reading.quantity = Quantity(n)
    BY <1>1, <2>1
  <2> QED
    BY <2>2 DEF Quantity
<1>3. CASE reply \notin HonestReplies(n)
  <2>1. reply \in FaultyReplies(word)
    BY <1>3
  <2>2. ReadQuantity(reply, word) = NoQuantity
    BY <2>1 DEF FaultyReplies, Reply, ReadQuantity, Call, ParseHex
  <2>3. reading.quantity = NoQuantity /\ reading.faulty
    BY <1>1, <1>3, <2>2
  <2> QED
    BY <2>3 DEF NoQuantity
<1> QED
  BY <1>2, <1>3

\* The numbers of a configuration fit their types.
LEMMA AmountsFit ==
    ASSUME StartupInv, status \in Loaded
    PROVE  /\ config.faucet_drip_wei \in 0 .. U128 - 1
           /\ config.faucet_gas_limit \in 0 .. U64 - 1
           /\ config.faucet_gas_price_wei # None =>
                  config.faucet_gas_price_wei \in 0 .. U128 - 1
<1>1. Loads(env) /\ config = Resolved(env)
  BY DEF StartupInv
<1>2. Sane(config)
  BY <1>1, LoadedIsSane
<1>3. config.faucet_gas_limit = Field(env, "faucet_gas_limit").n
  BY <1>1 DEF Resolved, Variables, Numbers, Widths, Texts
<1>4. "faucet_gas_limit" \in Numbers /\ Widths["faucet_gas_limit"] = U64
  BY DEF Numbers, Widths
<1>5. Field(env, "faucet_gas_limit").n \in 0 .. U64 - 1
  <2>1. CASE IsUnset(env["faucet_gas_limit"])
    BY <1>4, <2>1, StartupAssumption DEF StartupAssumption, Field, Given
  <2>2. CASE ~IsUnset(env["faucet_gas_limit"])
    BY <1>1, <1>4, <2>2, NumbersLoad
  <2> QED
    BY <2>1, <2>2
<1> QED
  BY <1>2, <1>3, <1>5, WordsAreNat DEF Sane, None

LEMMA AmountsAreNumbers ==
    ASSUME StartupInv, status \in Loaded
    PROVE  /\ config.faucet_drip_wei \in Nat /\ config.faucet_gas_limit \in Nat
           /\ config.faucet_gas_price_wei # None => config.faucet_gas_price_wei \in Nat
  BY AmountsFit

\* What the balance check asks for is never more than the drip costs.
LEMMA NeededIsJustified ==
    ASSUME StartupInv, status \in Loaded, price \in Nat
    PROVE  /\ Needed \in Int
           /\ Needed <= config.faucet_drip_wei + price * config.faucet_gas_limit
<1>1. config.faucet_drip_wei \in Nat /\ config.faucet_gas_limit \in Nat
  BY AmountsAreNumbers
<1>2. price * config.faucet_gas_limit \in Nat
  <2>1. \A x, y \in Nat : x * y \in Nat
    OBVIOUS
  <2> QED
    BY <1>1, <2>1
<1>3. ASSUME NEW n \in Int
      PROVE  Saturated(n) \in Int /\ Saturated(n) <= n
  BY DEF Saturated
<1>4. ASSUME NEW cost \in Nat, NEW drip \in Nat
      PROVE  /\ Saturated(drip + Saturated(cost)) \in Int
             /\ Saturated(drip + Saturated(cost)) <= drip + cost
  <2>1. Saturated(cost) \in Int /\ Saturated(cost) <= cost
    BY <1>3
  <2>2. drip + Saturated(cost) \in Int
    BY <2>1
  <2> QED
    BY <1>3, <2>1, <2>2
<1> QED
  BY <1>1, <1>2, <1>4 DEF Needed
-----------------------------------------------------------------------------
\* The claim, from the text to the reply.

\* Until a claim is answered the node is as it was; from the moment its text is
\* read until then it pays who was named; what is on its way to the node has
\* been signed.
ClaimInv ==
    /\ step \in {"idle", "price", "balance", "nonce", "sending", "answered"}
    /\ step # "idle" => status = "listening"
    /\ step # "answered" => response = "none" /\ node \in NodeStates
    /\ step \notin {"idle", "answered"} =>
           Stands(recipient, to) /\ Len(to) = AddressBytes
    /\ price \in Nat
    /\ step = "sending" => raw # NoText
    /\ RefusalsExplained

USE ServiceAssumption DEF ServiceAssumption

\* The node's numbers fit the words they are read into.
LEMMA NodeNumbers ==
    ASSUME node \in NodeStates
    PROVE  /\ node.price \in 0 .. U128 - 1
           /\ node.balance \in 0 .. U128 - 1
           /\ node.nonce \in 0 .. U64 - 1
  OBVIOUS

\* A quantity that cannot be read was not the node's.
LEMMA FailingReads ==
    ASSUME ClaimInv, step \notin {"idle", "answered"}, ReadFails, faulty' = TRUE,
           UNCHANGED <<boot, status, external>>
    PROVE  ClaimInv'
<1>1. /\ step' = "answered" /\ response' = "RPC_ERROR" /\ faulty'
      /\ UNCHANGED <<status, node, price>>
  BY DEF ReadFails, Answer, claim, external
<1>2. status = "listening"
  BY DEF ClaimInv
<1> QED
  BY <1>1, <1>2 DEF ClaimInv, RefusalsExplained

LEMMA ClaimReads ==
    ASSUME ClaimInv, NEW text \in Recipients, Claim(text)
    PROVE  ClaimInv'
<1>1. /\ status = "listening" /\ step = "idle" /\ response = "none"
      /\ recipient' = text /\ to' = ParseAddress(text, AddressBytes).bytes
      /\ UNCHANGED <<status, price, raw, faulty, node>>
      /\ price \in Nat /\ node \in NodeStates
  BY DEF Claim, external, ClaimInv
<1>2. CASE ParseAddress(text, AddressBytes).ok
  <2>1. step' = "price" /\ response' = "none"
    BY <1>1, <1>2 DEF Claim, Proceed
  <2>2. Stands(text, ParseAddress(text, AddressBytes).bytes)
            /\ Len(ParseAddress(text, AddressBytes).bytes) = AddressBytes
    BY <1>2, ReadAsNamed
  <2>3. Stands(recipient, to)' /\ Len(to') = AddressBytes
    BY <1>1, <2>2 DEF Stands
  <2> QED
    BY <1>1, <2>1, <2>3 DEF ClaimInv, RefusalsExplained
<1>3. CASE ~ParseAddress(text, AddressBytes).ok
  <2>1. step' = "answered" /\ response' = "BAD_REQUEST"
    BY <1>3 DEF Claim, Answer
  <2>2. ~NamesAnAddress(text)
    BY <1>3, AddressesAreRead
  <2>3. ~NamesAnAddress(recipient')
    BY <1>1, <2>2
  <2> QED
    BY <1>1, <2>1, <2>3 DEF ClaimInv, RefusalsExplained, NamesAnAddress
<1> QED
  BY <1>2, <1>3

LEMMA PriceReads ==
    ASSUME StartupInv, ClaimInv, ReadPrice
    PROVE  ClaimInv'
<1>1. /\ step = "price" /\ status = "listening" /\ response = "none"
      /\ node \in NodeStates /\ UNCHANGED <<boot, status, external>>
      /\ Stands(recipient, to) /\ Len(to) = AddressBytes
  BY DEF ReadPrice, ClaimInv
<1>2. ASSUME NEW n \in Nat, UsePrice(n)
      PROVE  ClaimInv'
  <2>1. /\ step' = "balance" /\ response' = "none" /\ price' = n
        /\ UNCHANGED <<recipient, to, node, status>>
    BY <1>1, <1>2 DEF UsePrice, Proceed, external
  <2>2. Stands(recipient, to)' /\ Len(to') = AddressBytes
    BY <1>1, <2>1 DEF Stands
  <2> QED
    BY <1>1, <2>1, <2>2 DEF ClaimInv, RefusalsExplained
<1>3. CASE config.faucet_gas_price_wei # None
  <2>1. config.faucet_gas_price_wei \in Nat
    BY <1>1, <1>3, AmountsAreNumbers DEF Loaded
  <2>2. UsePrice(config.faucet_gas_price_wei)
    BY <1>3 DEF ReadPrice
  <2> QED
    BY <1>2, <2>1, <2>2
<1>4. CASE config.faucet_gas_price_wei = None
  <2>1. PICK reading \in Readings(node.price, U128) :
            /\ faulty' = (faulty \/ reading.faulty)
            /\ IF reading.quantity.ok
                 THEN UsePrice(QuotedPrice(reading.quantity.value))
                 ELSE ReadFails
    BY <1>4, Zenon DEF ReadPrice
  <2>2. /\ ~reading.quantity.ok => reading.faulty
        /\ reading.quantity.ok => reading.quantity.value = node.price
        /\ node.price \in Nat
    BY <1>1, NodeNumbers, ReadingsAreTrue
  <2>3. CASE reading.quantity.ok
    BY <1>2, <2>1, <2>2, <2>3 DEF QuotedPrice
  <2>4. CASE ~reading.quantity.ok
    BY <1>1, <2>1, <2>2, <2>4, FailingReads
  <2> QED
    BY <2>3, <2>4
<1> QED
  BY <1>3, <1>4

LEMMA BalanceReads ==
    ASSUME StartupInv, ClaimInv, ReadBalance
    PROVE  ClaimInv'
<1>1. /\ step = "balance" /\ status = "listening" /\ response = "none"
      /\ node \in NodeStates /\ UNCHANGED <<boot, status, external>>
      /\ Stands(recipient, to) /\ Len(to) = AddressBytes /\ price \in Nat
  BY DEF ReadBalance, ClaimInv
<1>2. PICK reading \in Readings(node.balance, U128) :
          /\ faulty' = (faulty \/ reading.faulty)
          /\ IF reading.quantity.ok
               THEN CheckBalance(reading.quantity.value) ELSE ReadFails
  BY Zenon DEF ReadBalance
<1>3. /\ ~reading.quantity.ok => reading.faulty
      /\ reading.quantity.ok => reading.quantity.value = node.balance
      /\ node.balance \in Nat
  BY <1>1, NodeNumbers, ReadingsAreTrue
<1>4. CASE reading.quantity.ok
  <2>1. CheckBalance(node.balance)
    BY <1>2, <1>3, <1>4
  <2>2. /\ UNCHANGED <<recipient, to, price, raw, node, status, config>>
    BY <1>1, <2>1 DEF CheckBalance, claim, external, boot
  <2>3. Stands(recipient, to)' /\ Len(to') = AddressBytes
    BY <1>1, <2>2 DEF Stands
  <2>4. CASE node.balance < Needed
    <3>1. step' = "answered" /\ response' = "INSUFFICIENT_FUNDS"
      BY <2>1, <2>4 DEF CheckBalance, Answer
    <3>2. node.balance < config.faucet_drip_wei + price * config.faucet_gas_limit
      <4>1. \A b, n, m \in Int : b < n /\ n <= m => b < m
        OBVIOUS
      <4>2. config.faucet_drip_wei + price * config.faucet_gas_limit \in Int
        <5>1. \A x, y, z \in Nat : x + y * z \in Int
          OBVIOUS
        <5> QED
          BY <1>1, <5>1, AmountsAreNumbers DEF Loaded
      <4> QED
        BY <1>1, <1>3, <2>4, <4>1, <4>2, NeededIsJustified DEF Loaded
    <3>3. node'.balance < config'.faucet_drip_wei + price' * config'.faucet_gas_limit
      BY <2>2, <3>2
    <3> QED
      BY <1>1, <2>2, <3>1, <3>3 DEF ClaimInv, RefusalsExplained
  <2>5. CASE ~(node.balance < Needed)
    <3>1. step' = "nonce" /\ response' = "none"
      BY <1>1, <2>1, <2>5 DEF CheckBalance, Proceed
    <3> QED
      BY <1>1, <2>2, <2>3, <3>1 DEF ClaimInv, RefusalsExplained
  <2> QED
    BY <2>4, <2>5
<1>5. CASE ~reading.quantity.ok
  BY <1>1, <1>2, <1>3, <1>5, FailingReads
<1> QED
  BY <1>4, <1>5

LEMMA NonceReads ==
    ASSUME StartupInv, ClaimInv, ReadNonce
    PROVE  ClaimInv'
<1>1. /\ step = "nonce" /\ status = "listening" /\ response = "none"
      /\ node \in NodeStates /\ UNCHANGED <<boot, status, external>>
      /\ Stands(recipient, to) /\ Len(to) = AddressBytes /\ price \in Nat
  BY DEF ReadNonce, ClaimInv
<1>2. PICK reading \in Readings(node.nonce, U64) :
          /\ faulty' = (faulty \/ reading.faulty)
          /\ IF reading.quantity.ok
               THEN SignAndSend(reading.quantity.value) ELSE ReadFails
  BY Zenon DEF ReadNonce
<1>3. ~reading.quantity.ok => reading.faulty
  BY <1>1, NodeNumbers, ReadingsAreTrue
<1>4. ASSUME NEW nonce, SignAndSend(nonce)
      PROVE  ClaimInv'
  <2>1. /\ step' = "sending" /\ response' = "none"
        /\ UNCHANGED <<recipient, to, price, node, status>>
    BY <1>1, <1>4 DEF SignAndSend, Proceed, external
  <2>2. raw'.prefix = "0x"
    BY <1>4 DEF SignAndSend, SignLegacyTransfer, PrefixedHex, Text
  <2>3. raw' # NoText
    <3>1. NoText.prefix = "" /\ "" # "0x"
      BY DEF NoText, Text
    <3> HIDE DEF NoText
    <3> QED
      BY <2>2, <3>1, Zenon
  <2>4. Stands(recipient, to)' /\ Len(to') = AddressBytes
    BY <1>1, <2>1 DEF Stands
  <2> QED
    BY <1>1, <2>1, <2>3, <2>4 DEF ClaimInv, RefusalsExplained, NoText
<1>5. CASE ~reading.quantity.ok
  BY <1>1, <1>2, <1>3, <1>5, FailingReads
<1> QED
  BY <1>2, <1>4, <1>5

LEMMA SubmitAnswers ==
    ASSUME ClaimInv, Submit
    PROVE  ClaimInv'
<1>1. /\ step = "sending" /\ status = "listening" /\ raw # NoText /\ price \in Nat
      /\ UNCHANGED <<recipient, to, price, raw, status>>
  BY DEF Submit, ClaimInv, claim
<1>2. step' = "answered" /\ response' \in {"ok", "RPC_ERROR"}
  BY DEF Submit, NodeHandles, Answer
<1> QED
  BY <1>1, <1>2 DEF ClaimInv, RefusalsExplained, NoText

\* The start is over before a claim begins.
LEMMA StartLeavesClaims ==
    ASSUME ClaimInv, Start
    PROVE  ClaimInv'
<1>1. step = "idle"
  BY DEF ClaimInv, Start, StartupStep, StartupAction, LoadConfig, BuildRuntime,
         ConfiguredChain, DiscoverChain, NewFaucet, Bind
<1> QED
  BY <1>1 DEF Start, claim, external, ClaimInv, RefusalsExplained

THEOREM ClaimInvariant == Spec => []ClaimInv
<1>1. Init => ClaimInv
  BY DEF Init, ClaimInv, RefusalsExplained
<1>2. StartupInv /\ ClaimInv /\ [Next]_vars => ClaimInv'
  <2> SUFFICES ASSUME StartupInv, ClaimInv, [Next]_vars
               PROVE  ClaimInv'
    OBVIOUS
  <2>1. CASE UNCHANGED vars
    <3>1. UNCHANGED <<status, step, recipient, to, price, raw, response, node, config, faulty>>
      BY <2>1 DEF vars, boot, claim, external
    <3> QED
      BY <3>1 DEF ClaimInv, RefusalsExplained, Stands, NamesAnAddress
  <2> QED
    BY <2>1, ClaimReads, PriceReads, BalanceReads, NonceReads, SubmitAnswers,
       StartLeavesClaims DEF Next, Rest
<1> QED
  BY <1>1, <1>2, StartInvariant, PTL DEF Spec

\* A claim is turned away before anything is signed only because its text is no
\* address, the account cannot pay or a reply was faulty, whatever the
\* environment, the recipient and the state of the node (util.rs 22-65, 105-118;
\* faucet.rs 152-178; rpc.rs 28-131).
THEOREM ServiceRefusalsExplained == Spec => []RefusalsExplained
<1>1. ClaimInv => RefusalsExplained
  BY DEF ClaimInv
<1> QED
  BY <1>1, ClaimInvariant, PTL

\* What is signed for is the address that the text names, of the right length
\* (util.rs 22-65, 105-118; faucet.rs 152-188).
THEOREM ServiceRecipientAsNamed ==
    Spec => [](step \notin {"idle", "answered"} =>
                   Stands(recipient, to) /\ Len(to) = AddressBytes)
<1>1. ClaimInv => (step \notin {"idle", "answered"} =>
                       Stands(recipient, to) /\ Len(to) = AddressBytes)
  BY DEF ClaimInv
<1> QED
  BY <1>1, ClaimInvariant, PTL

-----------------------------------------------------------------------------
\* What the node makes of a transaction that was signed.

LEMMA NodeNumberIs ==
    ASSUME NEW n \in 0 .. U64 - 1
    PROVE  NodeNumber(n) = MinimalBe(n)
<1>1. PICK w \in Nat \ {0} : w = WordBytes
  BY Prefixes
<1>2. n \in 0 .. U128 - 1 /\ n \in Nat /\ U64 = Power[w]
  BY <1>1 DEF U64
<1>3. PICK d \in 0 .. 2 * w :
          /\ HasDigits(n, d)
          /\ MinimalBe(n) = [i \in 1 .. d |-> (n \div Power[d - i]) % Base]
  BY <1>1, <1>2, MinimalBeIs
<1>4. \A i \in 0 .. 2 * w : Power[i] \in Nat
  BY <1>1, PowerIsFollowed
<1>5. \A i \in 0 .. 2 * w : \A j \in i .. 2 * w : Power[i] <= Power[j]
  BY <1>1, PowerGrows
<1>6. d \in 0 .. w
  <2> SUFFICES ASSUME d > w
               PROVE  FALSE
    BY <1>1
  <2>1. d - 1 \in w .. 2 * w /\ w \in 0 .. 2 * w
    BY <1>1
  <2>2. Power[w] <= Power[d - 1] /\ Power[w] \in Nat /\ Power[d - 1] \in Nat
    BY <1>4, <1>5, <2>1
  <2>3. n >= Power[d - 1] /\ n < Power[w]
    BY <1>1, <1>2, <1>3 DEF HasDigits
  <2> QED
    BY <1>2, <2>2, <2>3
<1>7. {k \in 0 .. w - 1 : Power[k] <= n} = 0 .. d - 1
  <2>1. ASSUME NEW k \in 0 .. w - 1, k < d
        PROVE  Power[k] <= n
    <3>1. k \in 0 .. 2 * w /\ d - 1 \in k .. 2 * w /\ d - 1 \in 0 .. 2 * w
      BY <1>1, <1>6, <2>1
    <3>2. Power[k] <= Power[d - 1] /\ Power[k] \in Nat /\ Power[d - 1] \in Nat
      BY <1>4, <1>5, <3>1
    <3>3. n >= Power[d - 1]
      BY <1>3, <2>1 DEF HasDigits
    <3> QED
      BY <1>2, <3>2, <3>3
  <2>2. ASSUME NEW k \in 0 .. w - 1, k >= d
        PROVE  ~(Power[k] <= n)
    <3>1. d \in 0 .. 2 * w /\ k \in d .. 2 * w /\ k \in 0 .. 2 * w
      BY <1>1, <1>6, <2>2
    <3>2. Power[d] <= Power[k] /\ Power[k] \in Nat /\ Power[d] \in Nat
      BY <1>4, <1>5, <3>1
    <3>3. n < Power[d]
      BY <1>3 DEF HasDigits
    <3> QED
      BY <1>2, <3>2, <3>3
  <2>3. \A k : k \in 0 .. d - 1 <=> k \in 0 .. w - 1 /\ k < d
    BY <1>6
  <2>4. \A k \in 0 .. w - 1 : Power[k] <= n <=> k < d
    <3>1. \A k \in 0 .. w - 1 : ~(k < d) => k >= d
      BY <1>6
    <3> QED
      BY <2>1, <2>2, <3>1
  <2> QED
    BY <2>3, <2>4
<1>8. Cardinality(0 .. d - 1) = d
  BY FS_Interval
<1>9. Cardinality({k \in 0 .. WordBytes - 1 : Power[k] <= n}) = d
  BY <1>1, <1>7, <1>8, Zenon
<1> QED
  BY <1>3, <1>9, Zenon DEF NodeNumber

LEMMA NodePrefixIs ==
    ASSUME NEW len \in 0 .. U64 - 1, NEW base
    PROVE  NodePrefix(len, base) = LengthPrefix(len, base)
BY NodeNumberIs, Zenon DEF NodePrefix, LengthPrefix

LEMMA NodeStringIs ==
    ASSUME NEW item \in Seq(Bytes), Len(item) < U64
    PROVE  NodeString(item) = RlpBytes(item)
<1>1. Len(item) \in 0 .. U64 - 1
  OBVIOUS
<1>2. NodePrefix(Len(item), StringBase) = LengthPrefix(Len(item), StringBase)
  BY <1>1, NodePrefixIs, Zenon
<1> QED
  BY <1>2, Zenon DEF NodeString, RlpBytes

\* The node writes a list as the service does.
LEMMA NodeListIs ==
    ASSUME NEW items, Writable(items)
    PROVE  NodeList(items) = RlpList(Strings(items))
<1>1. PICK J, payload :
          /\ payload \in Seq(Bytes)
          /\ Joins(J, Strings(items)) /\ payload = J[Len(items)]
          /\ \A i \in 1 .. Len(items) : Len(items[i]) < U64
          /\ 1 + WordBytes + Len(payload) < U64
          /\ RlpList(Strings(items)) = LengthPrefix(Len(payload), ListBase) \o payload
  BY ListType
<1>2. items \in Seq(Seq(Bytes))
  BY DEF Writable
<1>3. PICK n \in Nat : n = Len(items)
  BY <1>2
<1>4. PICK parts : parts = Strings(items)
  OBVIOUS
<1>5. /\ parts \in Seq(Seq(Bytes)) /\ Len(parts) = n
      /\ \A i \in 1 .. n : parts[i] = NodeString(items[i])
  <2>1. \A i \in 1 .. n : items[i] \in Seq(Bytes) /\ parts[i] = RlpBytes(items[i])
    BY <1>1, <1>2, <1>3, <1>4, StringsType
  <2>2. \A i \in 1 .. n : NodeString(items[i]) = RlpBytes(items[i])
    BY <1>1, <1>3, <2>1, NodeStringIs
  <2> QED
    BY <1>1, <1>2, <1>3, <1>4, <2>1, <2>2, StringsType
<1> DEFINE IsJoin(f) == f = [i \in 0 .. n |-> IF i = 0 THEN << >>
                                              ELSE f[i - 1] \o NodeString(items[i])]
           join == CHOOSE f : IsJoin(f)
<1>6. IsJoin(J)
  <2>1. J \in [0 .. n -> Seq(Bytes)] /\ J[0] = << >>
    BY <1>1, <1>4, <1>5 DEF Joins
  <2>2. \A i \in 0 .. n : i # 0 => J[i] = J[i - 1] \o NodeString(items[i])
    <3>1. \A i \in 0 .. n : i # 0 => i \in 1 .. n
      OBVIOUS
    <3>2. \A i \in 1 .. n : J[i] = J[i - 1] \o parts[i]
      BY <1>1, <1>4, <1>5, Zenon DEF Joins
    <3> QED
      BY <1>5, <3>1, <3>2, Zenon
  <2>3. J = [i \in 0 .. n |-> J[i]]
    BY <2>1
  <2>4. [i \in 0 .. n |-> J[i]] = [i \in 0 .. n |-> IF i = 0 THEN << >>
                                              ELSE J[i - 1] \o NodeString(items[i])]
    BY <2>1, <2>2
  <2> QED
    BY <2>3, <2>4, Zenon
<1>7. join = [i \in 0 .. n |-> IF i = 0 THEN << >> ELSE join[i - 1] \o NodeString(items[i])]
  BY <1>6, Zenon
<1>8. NodeList(items) = NodePrefix(Len(join[n]), ListBase) \o join[n]
  BY <1>3 DEF NodeList
<1> HIDE DEF join
<1>9. join[n] = J[n]
  <2>1. join[0] = << >>
    BY <1>7
  <2>2. ASSUME NEW i \in 1 .. n
        PROVE  join[i] = join[i - 1] \o parts[i]
    <3>1. i \in 0 .. n /\ i # 0
      OBVIOUS
    <3>2. join[i] = join[i - 1] \o NodeString(items[i])
      BY <1>7, <3>1
    <3> QED
      BY <1>5, <3>2
  <2>3. 0 \in {0, 1} /\ 0 <= n /\ 0 + 1 = 1
    OBVIOUS
  <2>4. join[0] = J[0] /\ Joins(J, parts)
    BY <1>1, <1>4, <2>1, Zenon DEF Joins
  <2>5. \A i \in 0 + 1 .. Len(parts) : join[i] = join[i - 1] \o parts[i]
    BY <1>5, <2>2, <2>3
  <2>6. join[Len(parts)] = J[Len(parts)]
    <3>1. PICK m \in {0, 1} : m = 0
      OBVIOUS
    <3>2. /\ m <= Len(parts) /\ join[m] = J[m]
          /\ \A i \in m + 1 .. Len(parts) : join[i] = join[i - 1] \o parts[i]
      BY <1>5, <2>3, <2>4, <2>5, <3>1
    <3>3. parts \in Seq(Seq(Bytes)) /\ Joins(J, parts)
      BY <1>5, <2>4
    <3> QED
      BY <3>2, <3>3, JoinIsUnique, Zenon
  <2> QED
    BY <1>5, <2>6, Zenon
<1>10. Len(payload) \in 0 .. U64 - 1
  <2>1. Len(payload) \in Nat /\ 1 + WordBytes + Len(payload) < U64
    BY <1>1
  <2>2. \A m, w, u \in Nat : 1 + w + m < u => m \in 0 .. u - 1
    OBVIOUS
  <2>3. WordBytes \in Nat /\ U64 \in Nat
    BY Prefixes
  <2> QED
    BY <2>1, <2>2, <2>3, Zenon
<1> QED
  BY <1>1, <1>3, <1>8, <1>9, <1>10, NodePrefixIs, Zenon

\* Padding restores what was stripped, and what was stripped is canonical.
LEMMA StrippedIs ==
    ASSUME NEW bytes \in [1 .. SigBytes -> Bytes]
    PROVE  /\ Padding(StripLeadingZeros(bytes)) = bytes
           /\ Canonical(StripLeadingZeros(bytes))
<1>1. SigBytes \in Nat
  BY TransferAssumption DEF TransferAssumption
<1>2. LET rest == StripLeadingZeros(bytes)
      IN  /\ rest = << >> \/ rest[1] # 0
          /\ [i \in 1 .. SigBytes - Len(rest) |-> 0] \o rest = bytes
  BY <1>1, ZerosRestored, Zenon
<1> QED
  BY <1>2, Zenon DEF Padding, Canonical

\* The node reads the bytes of the text it was sent.
LEMMA NodeReadsText ==
    ASSUME NEW bytes \in Seq(Bytes)
    PROVE  NodeTransaction(PrefixedHex(bytes)) = NodeReads(bytes, DecodeFlatList(bytes).item)
<1>0. PICK n \in Nat : n = Len(bytes)
  OBVIOUS
<1>1. PICK body : n = Len(bytes) /\ body = HexLower(bytes)
  BY <1>0
<1>2. /\ Len(body) = 2 * n
      /\ \A i \in 1 .. n : body[2 * i - 1] = bytes[i] \div Radix /\ body[2 * i] = bytes[i] % Radix
  BY <1>1, HexIsRead, Zenon
<1>3. PrefixedHex(bytes).body = body
  BY <1>1 DEF PrefixedHex, Text
<1>4. Len(body) \div 2 = n
  BY <1>2, Halves
<1>5. ASSUME NEW i \in 1 .. n
      PROVE  body[2 * i - 1] * Radix + body[2 * i] = bytes[i]
  <2>1. bytes[i] \in Bytes
    BY <1>1
  <2>2. (bytes[i] \div Radix) * Radix + (bytes[i] % Radix) = bytes[i]
    BY <2>1, DigitPairs, Zenon
  <2> QED
    BY <1>2, <2>2, Zenon
<1>6. bytes = [i \in 1 .. n |-> body[2 * i - 1] * Radix + body[2 * i]]
  <2>1. bytes = [i \in 1 .. n |-> bytes[i]]
    BY <1>1
  <2>2. [i \in 1 .. n |-> body[2 * i - 1] * Radix + body[2 * i]] = [i \in 1 .. n |-> bytes[i]]
    BY <1>5
  <2> QED
    BY <2>1, <2>2, Zenon
<1> QED
  BY <1>3, <1>4, <1>6, Zenon DEF NodeTransaction

\* The nine items of a transaction are in the form the node asks for.
LEMMA ItemsAreCanonical ==
    ASSUME NEW tx \in Transfers, NEW v \in 0 .. U64 - 1, NEW r, NEW s,
           Canonical(r), Canonical(s), NEW items, items = ItemsOf(tx, MinimalBe(v), r, s)
    PROVE  \A i \in {1, 2, 3, 5, 7, 8, 9} : Canonical(items[i])
<1>1. \A n \in 0 .. U128 - 1 : Canonical(MinimalBe(n))
  BY MinimalBeType DEF Canonical
<1>2. \A n \in 0 .. U64 - 1 : n \in 0 .. U128 - 1
  BY ItemBounds
<1>3. /\ items[1] = MinimalBe(tx.nonce) /\ items[2] = MinimalBe(tx.gas_price)
      /\ items[3] = MinimalBe(tx.gas_limit) /\ items[5] = MinimalBe(tx.value)
      /\ items[7] = MinimalBe(v) /\ items[8] = r /\ items[9] = s
  BY DEF ItemsOf
<1>4. /\ tx.nonce \in 0 .. U128 - 1 /\ tx.gas_price \in 0 .. U128 - 1
      /\ tx.gas_limit \in 0 .. U128 - 1 /\ tx.value \in 0 .. U128 - 1 /\ v \in 0 .. U128 - 1
  BY <1>2 DEF Transfers
<1> QED
  BY <1>1, <1>3, <1>4

\* Whom the node finds behind a transaction.
Parity(tx) == V(tx.chain_id, signed.recovery_id) - 2 * node_chain - 35
Sender(tx) ==
    Recovered(signed, SigningPayload([tx EXCEPT !.chain_id = node_chain]),
              signed.r, signed.s, Parity(tx))
Finding(tx, from) ==
    [from |-> from, nonce |-> tx.nonce, gas_price |-> tx.gas_price,
     gas_limit |-> tx.gas_limit, to |-> tx.to, value |-> tx.value, data |-> << >>]

\* What the node makes of a transaction that was signed: one for another chain
\* than its own, or the fields and whoever signed for them.
LEMMA NodeFinds ==
    ASSUME NEW tx \in Transfers, Sized(signed), node_chain \in 0 .. U64 - 1,
           NEW found, found = NodeTransaction(SignLegacyTransfer(tx, signed))
    PROVE  found = IF Parity(tx) \in {0, 1} THEN Finding(tx, Sender(tx))
                                            ELSE [from |-> "nobody"]
<1>0. PICK v, parity, payload :
          /\ v = V(tx.chain_id, signed.recovery_id) /\ parity = v - 2 * node_chain - 35
          /\ payload = SigningPayload([tx EXCEPT !.chain_id = node_chain])
          /\ parity = Parity(tx)
          /\ Sender(tx) = Recovered(signed, payload, signed.r, signed.s, parity)
  BY Zenon DEF Parity, Sender
<1>1. PICK r, s : r = StripLeadingZeros(signed.r) /\ s = StripLeadingZeros(signed.s)
  OBVIOUS
<1>2. PICK items : items = ItemsOf(tx, MinimalBe(v), r, s)
  OBVIOUS
<1>3. /\ Writable(items) /\ Len(items) = 9 /\ v \in 0 .. U64 - 1
      /\ SignLegacyTransfer(tx, signed) = PrefixedHex(RlpList(Strings(items)))
  BY <1>0, <1>1, <1>2, SignedIs DEF Sized
<1>4. PICK list \in Seq(Bytes) :
          /\ list = RlpList(Strings(items))
          /\ DecodeFlatList(list) = Decoded(items, Len(list))
  BY <1>3, ListIsRead
<1>5. found = NodeReads(list, items)
  <2>1. NodeTransaction(PrefixedHex(list)) = NodeReads(list, DecodeFlatList(list).item)
    BY NodeReadsText
  <2>2. DecodeFlatList(list).item = items
    BY <1>4 DEF Decoded
  <2> QED
    BY <1>3, <1>4, <2>1, <2>2, Zenon
<1>6. list = NodeList(items)
  BY <1>3, <1>4, NodeListIs, Zenon
<1>7. /\ Canonical(r) /\ Canonical(s)
      /\ Padding(r) = signed.r /\ Padding(s) = signed.s
  BY <1>1, StrippedIs DEF Sized
<1>8. \A i \in {1, 2, 3, 5, 7, 8, 9} : Canonical(items[i])
  BY <1>2, <1>3, <1>7, ItemsAreCanonical
<1>9. \A n \in 0 .. U128 - 1 : BeTo(MinimalBe(n), U128) = n
  BY NumberIsRead
<1>10. /\ BeTo(items[1], U128) = tx.nonce /\ BeTo(items[2], U128) = tx.gas_price
       /\ BeTo(items[3], U128) = tx.gas_limit /\ BeTo(items[5], U128) = tx.value
       /\ BeTo(items[7], U128) = v /\ items[4] = tx.to /\ items[6] = << >>
       /\ items[8] = r /\ items[9] = s
  <2>1. /\ items[1] = MinimalBe(tx.nonce) /\ items[2] = MinimalBe(tx.gas_price)
        /\ items[3] = MinimalBe(tx.gas_limit) /\ items[5] = MinimalBe(tx.value)
        /\ items[7] = MinimalBe(v) /\ items[4] = tx.to /\ items[6] = << >>
        /\ items[8] = r /\ items[9] = s
    BY <1>2 DEF ItemsOf
  <2>2. /\ tx.nonce \in 0 .. U128 - 1 /\ tx.gas_price \in 0 .. U128 - 1
        /\ tx.gas_limit \in 0 .. U128 - 1 /\ tx.value \in 0 .. U128 - 1 /\ v \in 0 .. U128 - 1
    BY <1>3, ItemBounds DEF Transfers
  <2> QED
    BY <1>9, <2>1, <2>2
<1>11. NodeList(SubSeq(items, 1, 6) \o <<NodeNumber(node_chain), << >>, << >> >>) = payload
  <2>1. PICK other : other = [tx EXCEPT !.chain_id = node_chain]
    OBVIOUS
  <2>2. /\ other \in Transfers /\ other.chain_id = node_chain /\ other.nonce = tx.nonce
        /\ other.gas_price = tx.gas_price /\ other.gas_limit = tx.gas_limit
        /\ other.to = tx.to /\ other.value = tx.value
    BY <2>1 DEF Transfers
  <2>3. PICK all : all = ItemsOf(other, MinimalBe(node_chain), << >>, << >>)
    OBVIOUS
  <2>4. payload = RlpList(Strings(all)) /\ Writable(all)
    BY <1>0, <2>1, <2>2, <2>3, PayloadIs
  <2>5. NodeNumber(node_chain) = MinimalBe(node_chain)
    BY NodeNumberIs
  <2>6. SubSeq(items, 1, 6) = <<items[1], items[2], items[3], items[4], items[5], items[6]>>
    <3>1. items \in Seq(Seq(Bytes))
      BY <1>3 DEF Writable
    <3> QED
      BY <1>3, <3>1, FirstSix, Zenon
  <2>7. SubSeq(items, 1, 6) \o <<NodeNumber(node_chain), << >>, << >> >> = all
    <3>1. /\ items[1] = MinimalBe(tx.nonce) /\ items[2] = MinimalBe(tx.gas_price)
          /\ items[3] = MinimalBe(tx.gas_limit) /\ items[5] = MinimalBe(tx.value)
          /\ items[4] = tx.to /\ items[6] = << >>
      BY <1>2 DEF ItemsOf
    <3>2. PICK e, c : e = << >> /\ c = MinimalBe(node_chain)
      OBVIOUS
    <3>3. all = <<items[1], items[2], items[3], items[4], items[5], items[6], c, e, e>>
      BY <2>2, <2>3, <3>1, <3>2, Zenon DEF ItemsOf
    <3>4. PICK x, y : x = SubSeq(items, 1, 6) /\ y = <<NodeNumber(node_chain), << >>, << >> >>
      OBVIOUS
    <3>5. y = <<c, e, e>>
      BY <2>5, <3>2, <3>4
    <3>6. x = <<items[1], items[2], items[3], items[4], items[5], items[6]>>
      BY <2>6, <3>4
    <3>7. x \o y = all
      BY <3>3, <3>5, <3>6, SixAndThree, Zenon
    <3> QED
      BY <3>4, <3>7, Zenon
  <2> QED
    BY <2>4, <2>7, NodeListIs, Zenon
<1>12. CASE parity \in {0, 1}
  <2>1. found = [from |-> Recovered(signed, payload, signed.r, signed.s, parity),
                 nonce |-> tx.nonce, gas_price |-> tx.gas_price,
                 gas_limit |-> tx.gas_limit, to |-> tx.to,
                 value |-> tx.value, data |-> << >>]
    BY <1>0, <1>3, <1>5, <1>6, <1>7, <1>8, <1>10, <1>11, <1>12, Zenon DEF NodeReads
  <2> QED
    BY <1>0, <1>12, <2>1, Zenon DEF Finding
<1>13. CASE parity \notin {0, 1}
  <2>1. found = [from |-> "nobody"]
    BY <1>0, <1>5, <1>10, <1>13, Zenon DEF NodeReads
  <2> QED
    BY <1>0, <1>13, <2>1, Zenon
<1> QED
  BY <1>12, <1>13, Zenon

\* Payloads for two chains differ.
LEMMA PayloadsDiffer ==
    ASSUME NEW tx \in Transfers, NEW other \in Transfers,
           SigningPayload(tx) = SigningPayload(other)
    PROVE  tx.chain_id = other.chain_id
<1>1. PICK a, b : /\ a = ItemsOf(tx, MinimalBe(tx.chain_id), << >>, << >>)
                  /\ b = ItemsOf(other, MinimalBe(other.chain_id), << >>, << >>)
  OBVIOUS
<1>2. Writable(a) /\ Writable(b) /\ RlpList(Strings(a)) = RlpList(Strings(b))
  BY <1>1, PayloadIs
<1>3. a = b
  BY <1>2, ListsDiffer, Zenon
<1>4. a[7] = MinimalBe(tx.chain_id) /\ b[7] = MinimalBe(other.chain_id)
  BY <1>1 DEF ItemsOf
<1>5. tx.chain_id \in 0 .. U64 - 1 /\ other.chain_id \in 0 .. U64 - 1 /\ U64 \in Nat /\ U64 <= U128
  BY WordsAreNat DEF Transfers
<1>6. BeTo(MinimalBe(tx.chain_id), U64) = tx.chain_id
  BY <1>5, NumberIsRead
<1>7. BeTo(MinimalBe(other.chain_id), U64) = other.chain_id
  BY <1>5, NumberIsRead
<1> QED
  BY <1>3, <1>4, <1>6, <1>7, Zenon

\* What comes from the faucet is what it signed, for the node's own chain; and
\* if that is the chain it was signed for and v fits, it does come from it.
LEMMA TakenAsSigned ==
    ASSUME NEW tx \in Transfers, Sized(signed), signed.key = "faucet",
           signed.payload = SigningPayload(tx), node_chain \in 0 .. U64 - 1,
           NEW found, found = NodeTransaction(SignLegacyTransfer(tx, signed))
    PROVE  /\ found.from = "faucet" =>
                  tx.chain_id = node_chain /\ found = Finding(tx, "faucet")
           /\ tx.chain_id = node_chain /\ 2 * node_chain + 36 < U64 =>
                  found.from = "faucet"
<1>1. found = IF Parity(tx) \in {0, 1} THEN Finding(tx, Sender(tx)) ELSE [from |-> "nobody"]
  BY NodeFinds
<1>2. PICK other : other = [tx EXCEPT !.chain_id = node_chain]
  OBVIOUS
<1>3. other \in Transfers /\ other.chain_id = node_chain
  BY <1>2 DEF Transfers
<1>4. Sender(tx) = Recovered(signed, SigningPayload(other), signed.r, signed.s, Parity(tx))
  BY <1>2, Zenon DEF Sender
<1>5. ASSUME found.from = "faucet"
      PROVE  tx.chain_id = node_chain /\ found = Finding(tx, "faucet")
  <2>1. Parity(tx) \in {0, 1} /\ Sender(tx) = "faucet"
    BY <1>1, <1>5 DEF Finding
  <2>2. SigningPayload(other) = SigningPayload(tx)
    BY <1>4, <2>1 DEF Recovered
  <2> QED
    BY <1>1, <1>3, <2>1, <2>2, PayloadsDiffer
<1>6. ASSUME tx.chain_id = node_chain, 2 * node_chain + 36 < U64
      PROVE  found.from = "faucet"
  <2>1. PICK c \in Nat, p \in {0, 1} : c = node_chain /\ p = signed.recovery_id
    <3>1. node_chain \in Nat
      BY WordsAreNat
    <3>2. signed.recovery_id \in {0, 1}
      BY DEF Sized
    <3> QED
      BY <3>1, <3>2
  <2>2. c * 2 + 35 + p < U64
    BY <1>6, <2>1
  <2>3. V(c, p) = c * 2 + 35 + p
    BY <2>2, ChainIsFound
  <2>4. Parity(tx) = signed.recovery_id /\ Parity(tx) \in {0, 1}
    BY <1>6, <2>1, <2>3 DEF Parity
  <2>5. other = tx
    BY <1>2, <1>6 DEF Transfers
  <2>6. Sender(tx) = "faucet"
    BY <1>4, <2>4, <2>5, Zenon DEF Recovered
  <2> QED
    BY <1>1, <2>4, <2>6 DEF Finding
<1> QED
  BY <1>5, <1>6

-----------------------------------------------------------------------------
\* The chain that is signed for.

ChainInv ==
    /\ \/ status \in {"args", "config", "runtime", "chain", "faucet", "bind",
                     "listening"}
       \/ Terminated
    /\ chain_id \in None .. U64 - 1
    /\ node_chain \in 0 .. U64 - 1
    /\ status \in {"faucet", "bind", "listening"} /\ config.chain_id = None =>
           chain_id \in {node_chain, FallbackChain}

\* What is read of a reply to the node's own chain id is that chain id.
LEMMA ChainIsRead ==
    ASSUME node_chain \in 0 .. U64 - 1,
           NEW reply \in HonestReplies(node_chain) \cup FaultyReplies(U64),
           ReadQuantity(reply, U64).ok
    PROVE  ReadQuantity(reply, U64).value = node_chain
<1>1. PICK reading : reading = [quantity |-> ReadQuantity(reply, U64),
                                faulty |-> reply \notin HonestReplies(node_chain)]
  OBVIOUS
<1>2. reading \in Readings(node_chain, U64)
  BY <1>1 DEF Readings
<1>3. U64 \in Nat
  BY WordsAreNat, BaseIsNat
<1>4. reading.quantity.ok => reading.quantity.value = node_chain
  BY <1>2, <1>3, ReadingsAreTrue
<1> QED
  BY <1>1, <1>4

LEMMA ChainStep ==
    ASSUME StartupInv, ChainInv, [Next]_vars
    PROVE  ChainInv'
<1>1. CASE UNCHANGED <<boot, status>>
  BY <1>1 DEF boot, ChainInv, Terminated
<1>2. CASE StartupAction
  BY <1>2 DEF StartupAction, boot, ChainInv, Terminated
<1>3. CASE LoadConfig
  <2>1. UNCHANGED <<chain_id, node_chain>> /\ status' \in {"runtime", "panic"}
    BY <1>3 DEF LoadConfig
  <2> QED
    BY <2>1 DEF ChainInv, Terminated
<1>4. CASE BuildRuntime
  BY <1>4 DEF BuildRuntime, boot, ChainInv, Terminated
<1>5. CASE ConfiguredChain
  <2>1. /\ status = "chain" /\ status' = "faucet"
        /\ config.chain_id # None /\ chain_id' = config.chain_id
        /\ UNCHANGED <<env, config, node_chain>>
    BY <1>5 DEF ConfiguredChain
  <2>2. chain_id' \in 0 .. U64 - 1
    BY <2>1, ConfiguredChainFits DEF StartupInv, Loaded
  <2> QED
    BY <2>1, <2>2, WordsAreNat DEF ChainInv, None
<1>6. ASSUME NEW reply \in HonestReplies(node_chain) \cup FaultyReplies(U64),
             DiscoverChain(reply)
      PROVE  ChainInv'
  <2>1. /\ status' = "faucet" /\ UNCHANGED <<config, node_chain>>
        /\ chain_id' = IF ReadQuantity(reply, U64).ok
                         THEN ReadQuantity(reply, U64).value ELSE FallbackChain
    BY <1>6 DEF DiscoverChain
  <2>2. chain_id' \in {node_chain, FallbackChain}
    BY <2>1, ChainIsRead DEF ChainInv
  <2>3. chain_id' \in 0 .. U64 - 1
    BY <2>2, StartupAssumption DEF StartupAssumption, ChainInv
  <2> QED
    BY <2>1, <2>2, <2>3, WordsAreNat DEF ChainInv, None
<1>7. CASE NewFaucet
  <2>1. /\ status = "faucet" /\ status' \in {"bind", "panic"} /\ UNCHANGED boot
    BY <1>7 DEF NewFaucet
  <2> QED
    BY <2>1 DEF boot, ChainInv, Terminated
<1>8. CASE Bind
  BY <1>8 DEF Bind, boot, ChainInv, Terminated
<1>9. CASE Start
  BY <1>2, <1>3, <1>4, <1>5, <1>6, <1>7, <1>8, <1>9 DEF Start, StartupStep
<1>10. ASSUME NEW text \in Recipients, Claim(text)
      PROVE  UNCHANGED <<boot, status>>
  BY <1>10 DEF Claim
<1>11. CASE ReadPrice \/ ReadBalance \/ ReadNonce \/ Submit \/ Rest
  BY <1>1, <1>11 DEF ReadPrice, ReadBalance, ReadNonce, Submit, Rest, vars
<1> QED
  BY <1>1, <1>9, <1>10, <1>11 DEF Next, vars

\* The chain id is the configured one, the node's or the fallback.
THEOREM ChainInvariant == Spec => []ChainInv
<1>1. Init => ChainInv
  BY StartupAssumption, WordsAreNat
     DEF Init, StartupInit, StartupAssumption, ChainInv, None
<1> QED
  BY <1>1, ChainStep, StartInvariant, PTL DEF Spec

-----------------------------------------------------------------------------
\* What is signed and what the node takes of it.

\* The text on its way is the transaction with this nonce, signed by the faucet.
SignedFor(nonce) ==
    /\ Transaction(nonce) \in Transfers
    /\ Sized(signed) /\ signed.key = "faucet"
    /\ signed.payload = SigningPayload(Transaction(nonce))
    /\ raw = SignLegacyTransfer(Transaction(nonce), signed)

SignedInv ==
    /\ to = << >> \/ to \in [1 .. AddressBytes -> Bytes]
    /\ step \notin {"idle", "answered"} => to \in [1 .. AddressBytes -> Bytes]
    /\ price \in 0 .. U128 - 1
    /\ step \in {"idle", "price", "balance", "nonce"} => raw = NoText
    /\ step # "answered" => accepted = {}
    /\ step \in {"nonce", "sending"} => ~(node.balance < Needed)
    /\ raw # NoText =>
           \E nonce \in 0 .. U64 - 1 :
               SignedFor(nonce) /\ (step = "sending" => nonce = node.nonce)
    /\ DripAsConfigured

\* What a claim reads as its address is one, or nothing.
LEMMA AddressesAreBytes ==
    ASSUME NEW text \in Recipients
    PROVE  /\ ParseAddress(text, AddressBytes).ok =>
                  ParseAddress(text, AddressBytes).bytes \in [1 .. AddressBytes -> Bytes]
           /\ ~ParseAddress(text, AddressBytes).ok =>
                  ParseAddress(text, AddressBytes).bytes = << >>
<1>1. ASSUME ParseAddress(text, AddressBytes).ok
      PROVE  ParseAddress(text, AddressBytes).bytes \in [1 .. AddressBytes -> Bytes]
  <2>1. PICK body : body = text.body
    OBVIOUS
  <2>2. /\ DecodeHexBody(body).ok
        /\ ParseAddress(text, AddressBytes).bytes = DecodeHexBody(body).bytes
        /\ Len(DecodeHexBody(body).bytes) = AddressBytes
    BY <1>1, <2>1 DEF ParseAddress, DecodeFixedHex, DecodeFlexibleHex, Unreadable
  <2>3. PICK half : half = Len(body) \div 2
    OBVIOUS
  <2>4. half \in Nat
    <3>1. Len(body) \in Nat
      BY <2>1, ServiceAssumption DEF ServiceAssumption
    <3>2. \A n \in Nat : n \div 2 \in Nat
      OBVIOUS
    <3> QED
      BY <2>3, <3>1, <3>2
  <2>5. /\ \A i \in 1 .. half : TwoDigits(body[2 * i - 1], body[2 * i])
        /\ DecodeHexBody(body).bytes
               = [i \in 1 .. half |-> ByteOf(body[2 * i - 1], body[2 * i])]
    BY <2>2, <2>3 DEF DecodeHexBody, Readable, Unreadable
  <2>6. ASSUME NEW high \in Digits \cup {Plus}, NEW low \in Digits
        PROVE  ByteOf(high, low) \in Bytes
    <3>1. PICK r \in Nat \ {0} : r = Radix
      BY HexAssumption DEF HexAssumption
    <3>2. low \in 0 .. r - 1 /\ (high # Plus => high \in 0 .. r - 1)
      BY <3>1 DEF Digits
    <3>3. ASSUME NEW h \in 0 .. r - 1, NEW l \in 0 .. r - 1
          PROVE  h * r + l \in 0 .. r * r - 1 /\ l \in 0 .. r * r - 1
      <4>1. h * r <= (r - 1) * r /\ (r - 1) * r = r * r - r /\ h * r \in Nat
        <5>1. \A x, y, z \in Nat : x <= y => x * z <= y * z
          OBVIOUS
        <5>2. (r - 1) * r = r * r - r
          OBVIOUS
        <5>3. h * r \in Nat
          OBVIOUS
        <5> QED
          BY <5>1, <5>2, <5>3
      <4> QED
        BY <4>1
    <3> QED
      BY <3>1, <3>2, <3>3 DEF ByteOf, Bytes, Base
  <2>7. DecodeHexBody(body).bytes \in [1 .. half -> Bytes]
    BY <2>5, <2>6 DEF TwoDigits
  <2>8. Len(DecodeHexBody(body).bytes) = half
    BY <2>4, <2>7, FunctionIsSeq, Zenon
  <2> QED
    BY <2>2, <2>7, <2>8
<1>2. ASSUME ~ParseAddress(text, AddressBytes).ok
      PROVE  ParseAddress(text, AddressBytes).bytes = << >>
  BY <1>2 DEF ParseAddress, DecodeFixedHex, Unreadable
<1> QED
  BY <1>1, <1>2

\* While nothing that the claim is made of changes, what is signed stays so.
LEMMA SignedStays ==
    ASSUME SignedInv, UNCHANGED <<boot, recipient, to, price, signed, raw, external>>,
           step' = step \/ step' = "answered"
    PROVE  SignedInv'
<1>1. UNCHANGED <<config, chain_id, node_chain, node, accepted>>
  BY DEF boot, external
<1>2. Needed' = Needed
  BY <1>1 DEF Needed
<1>3. \A nonce : SignedFor(nonce) => SignedFor(nonce)'
  BY <1>1 DEF SignedFor, Transaction
<1>4. DripAsConfigured'
  BY <1>1 DEF SignedInv, DripAsConfigured, Stands
<1>5. raw' # NoText =>
          \E nonce \in 0 .. U64 - 1 :
              SignedFor(nonce)' /\ (step' = "sending" => nonce = node'.nonce)
  BY <1>1, <1>3 DEF SignedInv, NoText
<1>6. raw' # NoText' =>
          (\E nonce \in 0 .. U64 - 1 :
              SignedFor(nonce) /\ (step = "sending" => nonce = node.nonce))'
  BY <1>5 DEF NoText
<1> QED
  BY <1>1, <1>2, <1>4, <1>6 DEF SignedInv, NoText

\* So it does when a claim proceeds to its next question with nothing signed.
LEMMA NothingSignedYet ==
    ASSUME step' \in {"idle", "price", "balance", "nonce", "answered"},
           raw' = NoText, accepted' = {},
           to' = << >> \/ to' \in [1 .. AddressBytes -> Bytes],
           step' # "answered" => step' = "idle" \/ to' \in [1 .. AddressBytes -> Bytes],
           price' \in 0 .. U128 - 1,
           step' = "nonce" => ~(node.balance < Needed)'
    PROVE  SignedInv'
  BY DEF SignedInv, DripAsConfigured, NoText

LEMMA ClaimSigned ==
    ASSUME SignedInv, NEW text \in Recipients, Claim(text)
    PROVE  SignedInv'
<1>1. /\ step = "idle" /\ raw' = raw /\ price' = price /\ accepted' = accepted
      /\ to' = ParseAddress(text, AddressBytes).bytes
  BY DEF Claim, external
<1>2. raw' = NoText /\ accepted' = {} /\ price' \in 0 .. U128 - 1
  BY <1>1 DEF SignedInv
<1>3. CASE ParseAddress(text, AddressBytes).ok
  <2>1. step' = "price"
    BY <1>3 DEF Claim, Proceed
  <2>2. to' \in [1 .. AddressBytes -> Bytes]
    BY <1>1, <1>3, AddressesAreBytes, Zenon
  <2> QED
    BY <1>2, <2>1, <2>2, NothingSignedYet
<1>4. CASE ~ParseAddress(text, AddressBytes).ok
  <2>1. step' = "answered"
    BY <1>4 DEF Claim, Answer
  <2>2. to' = << >>
    BY <1>1, <1>4, AddressesAreBytes, Zenon
  <2> QED
    BY <1>2, <2>1, <2>2, NothingSignedYet
<1> QED
  BY <1>3, <1>4

LEMMA FailingReadSigned ==
    ASSUME SignedInv, ReadFails, UNCHANGED <<boot, external>>
    PROVE  SignedInv'
  BY SignedStays DEF ReadFails, Answer, claim

LEMMA OneFits == 1 \in 0 .. U128 - 1
  BY WordsAreNat, BaseIsNat

LEMMA PriceSigned ==
    ASSUME StartupInv, ClaimInv, SignedInv, ReadPrice
    PROVE  SignedInv'
<1>1. /\ step = "price" /\ status = "listening" /\ node \in NodeStates
      /\ UNCHANGED <<boot, external>>
      /\ raw = NoText /\ accepted = {} /\ to \in [1 .. AddressBytes -> Bytes]
  BY DEF ReadPrice, ClaimInv, SignedInv
<1>2. ASSUME NEW n \in 0 .. U128 - 1, UsePrice(n)
      PROVE  SignedInv'
  <2>1. /\ step' = "balance" /\ price' = n /\ UNCHANGED <<to, raw, accepted>>
    BY <1>1, <1>2 DEF UsePrice, Proceed, external
  <2> QED
    BY <1>1, <1>2, <2>1, NothingSignedYet
<1>3. CASE config.faucet_gas_price_wei # None
  <2>1. config.faucet_gas_price_wei \in 0 .. U128 - 1
    BY <1>1, <1>3, AmountsFit DEF Loaded
  <2>2. UsePrice(config.faucet_gas_price_wei)
    BY <1>3 DEF ReadPrice
  <2> QED
    BY <1>2, <2>1, <2>2
<1>4. CASE config.faucet_gas_price_wei = None
  <2>1. PICK reading \in Readings(node.price, U128) :
            IF reading.quantity.ok
              THEN UsePrice(QuotedPrice(reading.quantity.value))
              ELSE ReadFails
    BY <1>4, Zenon DEF ReadPrice
  <2>2. /\ reading.quantity.ok => reading.quantity.value = node.price
        /\ node.price \in 0 .. U128 - 1
    BY <1>1, NodeNumbers, ReadingsAreTrue
  <2>3. CASE reading.quantity.ok
    <3>1. UsePrice(QuotedPrice(node.price))
      BY <2>1, <2>2, <2>3
    <3>2. QuotedPrice(node.price) \in 0 .. U128 - 1
      BY <2>2, OneFits DEF QuotedPrice
    <3> QED
      BY <1>2, <3>1, <3>2
  <2>4. CASE ~reading.quantity.ok
    BY <1>1, <2>1, <2>4, FailingReadSigned
  <2> QED
    BY <2>3, <2>4
<1> QED
  BY <1>3, <1>4

LEMMA BalanceSigned ==
    ASSUME ClaimInv, SignedInv, ReadBalance
    PROVE  SignedInv'
<1>1. /\ step = "balance" /\ node \in NodeStates /\ UNCHANGED <<boot, external>>
      /\ raw = NoText /\ accepted = {} /\ to \in [1 .. AddressBytes -> Bytes]
      /\ price \in 0 .. U128 - 1
  BY DEF ReadBalance, ClaimInv, SignedInv
<1>2. PICK reading \in Readings(node.balance, U128) :
          IF reading.quantity.ok
            THEN CheckBalance(reading.quantity.value) ELSE ReadFails
  BY Zenon DEF ReadBalance
<1>3. reading.quantity.ok => reading.quantity.value = node.balance
  BY <1>1, NodeNumbers, ReadingsAreTrue
<1>4. CASE reading.quantity.ok
  <2>1. CheckBalance(node.balance)
    BY <1>2, <1>3, <1>4
  <2>2. UNCHANGED <<to, price, raw, config, node, accepted>>
    BY <1>1, <2>1 DEF CheckBalance, claim, external, boot
  <2>3. /\ step' \in {"answered", "nonce"}
        /\ step' = "nonce" => ~(node.balance < Needed)
    BY <2>1, Zenon DEF CheckBalance, Answer, Proceed
  <2>4. step' = "nonce" => ~(node.balance < Needed)'
    BY <2>2, <2>3 DEF Needed
  <2> QED
    BY <1>1, <2>2, <2>3, <2>4, NothingSignedYet
<1>5. CASE ~reading.quantity.ok
  BY <1>1, <1>2, <1>5, FailingReadSigned
<1> QED
  BY <1>4, <1>5

LEMMA NonceSigned ==
    ASSUME StartupInv, ClaimInv, SignedInv, ReadNonce
    PROVE  SignedInv'
<1>1. /\ step = "nonce" /\ status = "listening" /\ node \in NodeStates
      /\ UNCHANGED <<boot, external>>
      /\ accepted = {} /\ to \in [1 .. AddressBytes -> Bytes]
      /\ price \in 0 .. U128 - 1 /\ ~(node.balance < Needed)
  BY DEF ReadNonce, ClaimInv, SignedInv
<1>2. PICK reading \in Readings(node.nonce, U64) :
          IF reading.quantity.ok
            THEN SignAndSend(reading.quantity.value) ELSE ReadFails
  BY Zenon DEF ReadNonce
<1>3. /\ reading.quantity.ok => reading.quantity.value = node.nonce
      /\ node.nonce \in 0 .. U64 - 1
  BY <1>1, NodeNumbers, ReadingsAreTrue
<1>4. CASE reading.quantity.ok
  <2>1. SignAndSend(node.nonce)
    BY <1>2, <1>3, <1>4
  <2>2. PICK bytes \in Signatures :
            signed' = [key |-> "faucet", payload |-> SigningPayload(Transaction(node.nonce)),
                       r |-> bytes.r, s |-> bytes.s, recovery_id |-> bytes.recovery_id]
    BY <2>1, Zenon DEF SignAndSend
  <2>3. /\ raw' = SignLegacyTransfer(Transaction(node.nonce), signed')
        /\ step' = "sending" /\ UNCHANGED <<to, price>>
    BY <2>1 DEF SignAndSend, Proceed
  <2>4. UNCHANGED <<config, chain_id, node_chain, node, accepted>>
    BY <1>1 DEF boot, external
  <2>5. Transaction(node.nonce) \in Transfers
    <3>1. chain_id \in 0 .. U64 - 1
      BY <1>1 DEF StartupInv
    <3>2. /\ config.faucet_drip_wei \in 0 .. U128 - 1
          /\ config.faucet_gas_limit \in 0 .. U64 - 1
      BY <1>1, AmountsFit DEF Loaded
    <3> QED
      BY <1>1, <1>3, <3>1, <3>2 DEF Transaction, Transfers
  <2>6. Transaction(node.nonce)' = Transaction(node.nonce) /\ Needed' = Needed
    BY <2>3, <2>4 DEF Transaction, Needed
  <2>7. /\ signed'.key = "faucet"
        /\ signed'.payload = SigningPayload(Transaction(node.nonce))
        /\ Sized(signed')
    BY <2>2 DEF Sized
  <2>8. SignedFor(node.nonce)'
    BY <2>3, <2>5, <2>6, <2>7, Zenon DEF SignedFor
  <2>9. \E nonce \in 0 .. U64 - 1 :
            (SignedFor(nonce) /\ (step = "sending" => nonce = node.nonce))'
    <3>1. PICK nonce \in 0 .. U64 - 1 : nonce = node.nonce
      BY <1>3
    <3>2. SignedFor(nonce)' /\ nonce = node'.nonce
      BY <2>4, <2>8, <3>1
    <3> QED
      BY <3>2
  <2>10. accepted' = {} /\ DripAsConfigured'
    BY <1>1, <2>4 DEF DripAsConfigured
  <2>11. ~(node.balance < Needed)'
    BY <1>1, <2>4, <2>6
  <2> QED
    BY <1>1, <2>3, <2>9, <2>10, <2>11 DEF SignedInv
<1>5. CASE ~reading.quantity.ok
  BY <1>1, <1>2, <1>5, FailingReadSigned
<1> QED
  BY <1>4, <1>5

\* What the node makes of the text on its way.
LEMMA SubmitFinds ==
    ASSUME ChainInv, NEW nonce, SignedFor(nonce),
           NEW found, found = NodeTransaction(raw)
    PROVE  /\ found.from = "faucet" =>
                  chain_id = node_chain /\ found = Finding(Transaction(nonce), "faucet")
           /\ chain_id = node_chain /\ ChainFits => found.from = "faucet"
<1>1. PICK tx : tx = Transaction(nonce)
  OBVIOUS
<1>2. /\ tx \in Transfers /\ Sized(signed) /\ signed.key = "faucet"
      /\ signed.payload = SigningPayload(tx)
      /\ found = NodeTransaction(SignLegacyTransfer(tx, signed))
      /\ node_chain \in 0 .. U64 - 1
  BY <1>1, Zenon DEF SignedFor, ChainInv
<1>3. tx.chain_id = chain_id
  BY <1>1 DEF Transaction
<1>4. /\ found.from = "faucet" =>
             tx.chain_id = node_chain /\ found = Finding(tx, "faucet")
      /\ tx.chain_id = node_chain /\ 2 * node_chain + 36 < U64 =>
             found.from = "faucet"
  BY <1>2, TakenAsSigned, Zenon
<1> QED
  BY <1>1, <1>3, <1>4 DEF ChainFits

LEMMA SubmitSigned ==
    ASSUME ClaimInv, ChainInv, SignedInv, Submit
    PROVE  SignedInv'
<1>1. /\ step = "sending" /\ NodeHandles(NodeTransaction(raw)) /\ raw # NoText
      /\ UNCHANGED <<config, chain_id, node_chain, recipient, to, price, signed, raw>>
      /\ accepted = {} /\ Stands(recipient, to) /\ Len(to) = AddressBytes
      /\ to \in [1 .. AddressBytes -> Bytes] /\ price \in 0 .. U128 - 1
  BY DEF Submit, boot, claim, ClaimInv, SignedInv
<1>2. PICK nonce \in 0 .. U64 - 1 : SignedFor(nonce) /\ nonce = node.nonce
  BY <1>1 DEF SignedInv
<1>3. PICK found : found = NodeTransaction(raw)
  OBVIOUS
<1>4. step' = "answered"
  BY <1>1, Zenon DEF NodeHandles, Answer
<1>5. SignedFor(nonce)'
  BY <1>1, <1>2 DEF SignedFor, Transaction
<1>6. DripAsConfigured'
  <2>1. CASE NodeTakes(found)
    <3>1. accepted' = {found} /\ found.from = "faucet"
      BY <1>1, <1>3, <2>1 DEF NodeHandles, NodeTakes
    <3>2. chain_id = node_chain /\ found = Finding(Transaction(nonce), "faucet")
      BY <1>2, <1>3, <3>1, SubmitFinds, Zenon
    <3>3. /\ found.to = to /\ found.value = config.faucet_drip_wei
          /\ found.gas_limit = config.faucet_gas_limit /\ found.data = << >>
      BY <3>2 DEF Finding, Transaction
    <3>4. Stands(recipient, to)'
      BY <1>1 DEF Stands
    <3> QED
      BY <1>1, <3>1, <3>2, <3>3, <3>4 DEF DripAsConfigured
  <2>2. CASE ~NodeTakes(found)
    <3>1. accepted' = {}
      BY <1>1, <1>3, <2>2 DEF NodeHandles, external
    <3> QED
      BY <3>1 DEF DripAsConfigured
  <2> QED
    BY <2>1, <2>2
<1>7. \E n \in 0 .. U64 - 1 :
          (SignedFor(n) /\ (step = "sending" => n = node.nonce))'
  BY <1>4, <1>5
<1> QED
  BY <1>1, <1>4, <1>6, <1>7 DEF SignedInv

\* Once a claim is made, the start is over.
LEMMA StartSigned ==
    ASSUME ClaimInv, SignedInv, Start
    PROVE  SignedInv'
<1>1. step = "idle"
  BY DEF Start, StartupStep, StartupAction, LoadConfig, BuildRuntime,
         ConfiguredChain, DiscoverChain, NewFaucet, Bind, ClaimInv
<1>2. /\ step' = "idle" /\ raw' = NoText /\ accepted' = {}
      /\ to' = << >> \/ to' \in [1 .. AddressBytes -> Bytes]
      /\ price' \in 0 .. U128 - 1
  BY <1>1 DEF Start, claim, external, SignedInv
<1> QED
  BY <1>2, NothingSignedYet

LEMMA SignedStep ==
    ASSUME StartupInv, ChainInv, ClaimInv, SignedInv, [Next]_vars
    PROVE  SignedInv'
<1>1. CASE Start
  BY <1>1, StartSigned
<1>2. CASE \E text \in Recipients : Claim(text)
  BY <1>2, ClaimSigned
<1>3. CASE ReadPrice
  BY <1>3, PriceSigned
<1>4. CASE ReadBalance
  BY <1>4, BalanceSigned
<1>5. CASE ReadNonce
  BY <1>5, NonceSigned
<1>6. CASE Submit
  BY <1>6, SubmitSigned
<1>7. CASE Rest \/ UNCHANGED vars
  BY <1>7, SignedStays DEF Rest, vars, claim
<1> QED
  BY <1>1, <1>2, <1>3, <1>4, <1>5, <1>6, <1>7 DEF Next

\* The text that was sent is the faucet's signature of the drip, with the
\* node's nonce until it is answered (faucet.rs 152-188, eth.rs 127-176).
THEOREM SignedInvariant == Spec => []SignedInv
<1>1. Init => SignedInv
  BY OneFits DEF Init, SignedInv, DripAsConfigured
<1> QED
  BY <1>1, SignedStep, StartInvariant, ChainInvariant, ClaimInvariant, PTL DEF Spec

\* What goes to the chain is the configured drip to the recipient that was
\* named, on the node's own chain, whatever the environment, the recipient, the
\* state of the node and its replies (eth.rs 127-176, faucet.rs 152-188).
THEOREM ServiceDripAsConfigured == Spec => []DripAsConfigured
<1>1. SignedInv => DripAsConfigured
  BY DEF SignedInv
<1> QED
  BY <1>1, SignedInvariant, PTL

LEMMA SentIsDigits ==
    ASSUME SignedInv
    PROVE  \A i \in DOMAIN raw.body : raw.body[i] \in Digits
<1>1. CASE raw = NoText
  <2>1. raw.body = << >>
    BY <1>1 DEF NoText, Text
  <2> QED
    BY <2>1
<1>2. CASE raw # NoText
  <2>1. PICK nonce : SignedFor(nonce)
    BY <1>2 DEF SignedInv
  <2>2. PICK tx, v, items :
            /\ tx = Transaction(nonce) /\ v = V(tx.chain_id, signed.recovery_id)
            /\ items = ItemsOf(tx, MinimalBe(v), StripLeadingZeros(signed.r),
                               StripLeadingZeros(signed.s))
    OBVIOUS
  <2>3. tx \in Transfers /\ Sized(signed) /\ raw = SignLegacyTransfer(tx, signed)
    BY <2>1, <2>2, Zenon DEF SignedFor
  <2>4. /\ signed.r \in [1 .. SigBytes -> Bytes] /\ signed.s \in [1 .. SigBytes -> Bytes]
        /\ signed.recovery_id \in {0, 1}
    BY <2>3 DEF Sized
  <2>5. Writable(items) /\ SignLegacyTransfer(tx, signed) = PrefixedHex(RlpList(Strings(items)))
    BY <2>2, <2>3, <2>4, SignedIs, Zenon
  <2>6. PICK list : list = RlpList(Strings(items))
    OBVIOUS
  <2>7. list \in Seq(Bytes) /\ raw = PrefixedHex(list)
    BY <2>3, <2>5, <2>6, ListIsRead, Zenon
  <2>8. raw.body = HexLower(list)
    BY <2>7, Zenon DEF PrefixedHex, Text
  <2>9. HexLower(list) \in Seq(Digits)
    BY <2>7, HexIsRead
  <2> QED
    BY <2>8, <2>9
<1> QED
  BY <1>1, <1>2

\* Every code that is answered is one of four.
AnswerInv == response \in Answers

LEMMA AnswersAreCodes ==
    ASSUME AnswerInv, [Next]_vars
    PROVE  AnswerInv'
<1> USE DEF AnswerInv
<1>1. \A code : Answer(code) => response' = code
  BY DEF Answer
<1>2. ASSUME NEW text \in Recipients, Claim(text)
      PROVE  response' \in Answers
  BY <1>2 DEF Claim, Answer, Proceed, Answers
<1>3. ReadFails => response' \in Answers
  BY DEF ReadFails, Answer, Answers
<1>4. \A n : UsePrice(n) => response' = response
  BY DEF UsePrice, Proceed
<1>5. CASE ReadPrice
  BY <1>3, <1>4, <1>5, Zenon DEF ReadPrice
<1>6. \A n : CheckBalance(n) => response' \in Answers
  BY DEF CheckBalance, Answer, Proceed, Answers
<1>7. CASE ReadBalance
  BY <1>3, <1>6, <1>7, Zenon DEF ReadBalance
<1>8. \A n : SignAndSend(n) => response' = response
  BY DEF SignAndSend, Proceed
<1>9. CASE ReadNonce
  BY <1>3, <1>8, <1>9, Zenon DEF ReadNonce
<1>10. CASE Submit
  BY <1>10 DEF Submit, NodeHandles, Answer, Answers
<1>11. CASE Start \/ Rest \/ UNCHANGED vars
  BY <1>11 DEF Start, Rest, vars
<1> QED
  BY <1>2, <1>5, <1>7, <1>9, <1>10, <1>11 DEF Next

\* Every variable stays in its type: the chain id and the price fit their
\* words, and what is sent are digits (eth.rs 127-176, util.rs 67-93).
THEOREM ServiceTypeInvariant == Spec => []ServiceTypeOK
<1>1. Init => AnswerInv
  BY DEF Init, Answers, AnswerInv
<1>2. Spec => []AnswerInv
  BY <1>1, AnswersAreCodes, PTL DEF Spec
<1>3. ChainInv /\ ClaimInv /\ SignedInv /\ AnswerInv => ServiceTypeOK
  BY SentIsDigits DEF ChainInv, ClaimInv, SignedInv, AnswerInv, ServiceTypeOK
<1> QED
  BY <1>2, <1>3, ChainInvariant, ClaimInvariant, SignedInvariant, PTL

\* recover_legacy_transfer is the inverse of signing: for every transaction that
\* the service signs it finds the sender and the fields, or, when v has wrapped
\* around, another chain id (eth.rs 127-166, 199-275).
THEOREM ServiceRecoversExactly == Spec => []RecoversExactly
<1>1. ASSUME SignedInv
      PROVE  RecoversExactly
  <2> SUFFICES ASSUME raw # NoText,
                      NEW found, found = RecoverLegacyTransfer(raw, signed)
               PROVE  IF 2 * chain_id + 35 + signed.recovery_id < U64
                        THEN /\ found.ok /\ found.from = "faucet"
                             /\ found.tx = Transaction(found.tx.nonce)
                             /\ signed.payload = SigningPayload(found.tx)
                        ELSE found.ok => found.tx.chain_id # chain_id
    BY Zenon DEF RecoversExactly
  <2>1. PICK nonce : SignedFor(nonce)
    BY <1>1 DEF SignedInv
  <2>2. PICK tx : tx = Transaction(nonce)
    OBVIOUS
  <2>3. /\ tx \in Transfers /\ Sized(signed) /\ signed.key = "faucet"
        /\ signed.payload = SigningPayload(tx)
        /\ found = RecoverLegacyTransfer(SignLegacyTransfer(tx, signed), signed)
    BY <2>1, <2>2, Zenon DEF SignedFor
  <2>4. /\ tx.chain_id * 2 + 35 + signed.recovery_id < U64 =>
               found = [ok |-> TRUE, tx |-> tx, from |-> signed.key]
        /\ ~(tx.chain_id * 2 + 35 + signed.recovery_id < U64) =>
               (found.ok => found.tx.chain_id # tx.chain_id)
    BY <2>3, SignedIsRecovered, Zenon
  <2>5. tx.chain_id = chain_id /\ tx.nonce = nonce
    BY <2>2 DEF Transaction
  <2>6. tx.chain_id * 2 = 2 * chain_id
    BY <2>3, <2>5, WordsAreNat DEF Transfers
  <2>7. CASE 2 * chain_id + 35 + signed.recovery_id < U64
    <3>1. found = [ok |-> TRUE, tx |-> tx, from |-> signed.key]
      BY <2>4, <2>6, <2>7
    <3>2. found.ok /\ found.from = "faucet" /\ found.tx = tx
      BY <2>3, <3>1
    <3>3. found.tx = Transaction(found.tx.nonce)
      BY <2>2, <2>5, <3>2
    <3> QED
      BY <2>3, <2>7, <3>2, <3>3
  <2>8. CASE ~(2 * chain_id + 35 + signed.recovery_id < U64)
    BY <2>4, <2>5, <2>6, <2>8
  <2> QED
    BY <2>7, <2>8
<1> QED
  BY <1>1, SignedInvariant, PTL

-----------------------------------------------------------------------------
\* What the node refuses.

\* What passes the balance check is enough for the drip, as long as a u128 can
\* count what it costs.
LEMMA EnoughIsEnough ==
    ASSUME NEW balance \in 0 .. U128 - 1, ~(balance < Needed),
           StartupInv, status \in Loaded, price \in Nat,
           ~(config.faucet_drip_wei + price * config.faucet_gas_limit >= U128)
    PROVE  config.faucet_drip_wei + price * config.faucet_gas_limit <= balance
<1>1. PICK drip \in Nat, cost \in Nat :
          drip = config.faucet_drip_wei /\ cost = price * config.faucet_gas_limit
  <2>1. config.faucet_drip_wei \in Nat /\ config.faucet_gas_limit \in Nat
    BY AmountsAreNumbers
  <2>2. \A x, y \in Nat : x * y \in Nat
    OBVIOUS
  <2> QED
    BY <2>1, <2>2
<1>2. balance >= Saturated(drip + Saturated(cost))
  <2>1. ~(balance < Saturated(drip + Saturated(cost)))
    BY <1>1, Zenon DEF Needed
  <2>2. Saturated(drip + Saturated(cost)) \in Int
    BY WordsAreNat DEF Saturated
  <2> QED
    BY <2>1, <2>2
<1>3. drip + cost < U128
  BY <1>1, WordsAreNat
<1>4. drip + cost <= balance
  BY <1>2, <1>3, WordsAreNat DEF Saturated
<1> QED
  BY <1>1, <1>4

LEMMA RefusalIsExplained ==
    ASSUME StartupInv, ChainInv, ClaimInv, SignedInv, Submit, response' = "RPC_ERROR"
    PROVE  FailuresExplained'
<1>1. /\ step = "sending" /\ NodeHandles(NodeTransaction(raw)) /\ raw # NoText
      /\ UNCHANGED <<config, chain_id, node_chain, recipient, to, price, signed, raw>>
      /\ price \in Nat /\ status = "listening" /\ node \in NodeStates
      /\ ~(node.balance < Needed)
  BY DEF Submit, boot, claim, ClaimInv, SignedInv
<1>2. PICK nonce \in 0 .. U64 - 1 : SignedFor(nonce) /\ nonce = node.nonce
  BY <1>1 DEF SignedInv
<1>3. PICK found : found = NodeTransaction(raw)
  OBVIOUS
<1>4. CASE NodeTakes(found)
  <2>1. PICK reply : /\ faulty' = (faulty \/ ~SendRawTransaction(reply))
                     /\ Answer(IF SendRawTransaction(reply) THEN "ok" ELSE "RPC_ERROR")
    BY <1>1, <1>3, <1>4, Zenon DEF NodeHandles
  <2>2. ~SendRawTransaction(reply)
    BY <2>1 DEF Answer
  <2> QED
    BY <2>1, <2>2 DEF FailuresExplained
<1>5. CASE ~NodeTakes(found)
  <2> SUFFICES ASSUME ~(config.faucet_gas_limit < IntrinsicGas), ChainFits,
                      ~(config.faucet_drip_wei + price * config.faucet_gas_limit >= U128),
                      chain_id = node_chain
               PROVE  FALSE
    <3>1. chain_id # node_chain => config.chain_id # None \/ chain_id = FallbackChain
      BY <1>1 DEF ChainInv
    <3>2. \/ config'.faucet_gas_limit < IntrinsicGas
          \/ config'.faucet_drip_wei + price' * config'.faucet_gas_limit >= U128
          \/ ~ChainFits'
          \/ /\ chain_id' # node_chain'
             /\ config'.chain_id # None \/ chain_id' = FallbackChain
      BY <1>1, <3>1 DEF ChainFits
    <3> QED
      BY <3>2 DEF FailuresExplained
  <2>1. found.from = "faucet" /\ found = Finding(Transaction(nonce), "faucet")
    BY <1>2, <1>3, SubmitFinds, Zenon
  <2>2. /\ found.nonce = nonce /\ found.gas_limit = config.faucet_gas_limit
        /\ found.value = config.faucet_drip_wei /\ found.gas_price = price
    BY <2>1 DEF Finding, Transaction
  <2>3. found.gas_limit >= IntrinsicGas
    BY <1>1, <2>2, AmountsFit DEF Loaded
  <2>4. found.value + found.gas_price * found.gas_limit <= node.balance
    <3>1. node.balance \in 0 .. U128 - 1
      BY <1>1, NodeNumbers, WordsAreNat
    <3>2. config.faucet_drip_wei + price * config.faucet_gas_limit <= node.balance
      BY <1>1, <3>1, EnoughIsEnough DEF Loaded
    <3> QED
      BY <2>2, <3>2, Zenon
  <2> QED
    BY <1>2, <1>5, <2>1, <2>2, <2>3, <2>4 DEF NodeTakes
<1> QED
  BY <1>4, <1>5

LEMMA FailureStep ==
    ASSUME StartupInv, ChainInv, ClaimInv, SignedInv, FailuresExplained,
           ClaimInv', [Next]_vars
    PROVE  FailuresExplained'
<1>1. CASE step = "answered"
  <2>1. UNCHANGED vars
    <3>1. status = "listening"
      BY <1>1 DEF ClaimInv
    <3> QED
      BY <1>1, <3>1 DEF Next, Start, StartupStep, StartupAction, LoadConfig,
         BuildRuntime, ConfiguredChain, DiscoverChain, NewFaucet, Bind, Claim, ReadPrice, ReadBalance,
         ReadNonce, Submit, Rest
  <2>2. UNCHANGED <<response, faulty, config, chain_id, node_chain, price>>
    BY <2>1 DEF vars, boot, claim
  <2> QED
    BY <2>2 DEF FailuresExplained, ChainFits
<1>2. CASE Submit
  BY <1>2, RefusalIsExplained DEF FailuresExplained
<1>3. CASE step # "answered" /\ ~Submit
  <2>1. raw' # NoText => response' # "RPC_ERROR"
    <3>1. CASE ReadNonce
      <4>1. raw = NoText
        BY <3>1 DEF ReadNonce, SignedInv
      <4>2. PICK reading :
                IF reading.quantity.ok
                  THEN SignAndSend(reading.quantity.value) ELSE ReadFails
        BY <3>1, Zenon DEF ReadNonce
      <4>3. response = "none"
        BY <1>3 DEF ClaimInv
      <4> QED
        BY <4>1, <4>2, <4>3 DEF SignAndSend, Proceed, ReadFails, claim
    <3>2. CASE Start \/ Rest \/ UNCHANGED vars
      BY <1>3, <3>2 DEF Start, Rest, vars, ClaimInv
    <3>3. CASE \E text \in Recipients : Claim(text)
      BY <3>3 DEF Claim, SignedInv
    <3>4. CASE ReadPrice
      <4>1. raw = NoText
        BY <3>4 DEF ReadPrice, SignedInv
      <4>2. UNCHANGED raw
        BY <3>4, Zenon DEF ReadPrice, UsePrice, ReadFails, claim
      <4> QED
        BY <4>1, <4>2
    <3>5. CASE ReadBalance
      <4>1. raw = NoText
        BY <3>5 DEF ReadBalance, SignedInv
      <4>2. UNCHANGED raw
        BY <3>5, Zenon DEF ReadBalance, CheckBalance, ReadFails, claim
      <4> QED
        BY <4>1, <4>2
    <3> QED
      BY <1>3, <3>1, <3>2, <3>3, <3>4, <3>5 DEF Next
  <2>2. response' = "RPC_ERROR" /\ raw' = NoText => faulty'
    BY DEF ClaimInv, RefusalsExplained, NoText
  <2> QED
    BY <2>1, <2>2 DEF FailuresExplained
<1> QED
  BY <1>1, <1>2, <1>3

\* What the node refuses it refuses only for a reason the operator is told, and
\* never because of how the transaction is encoded: for every environment,
\* recipient and state of the node, an account that holds all a u128 can count
\* included (main.rs 76-90, faucet.rs 165-193, eth.rs 19-64, 127-176).
THEOREM ServiceFailuresExplained == Spec => []FailuresExplained
<1>1. Init => FailuresExplained
  BY DEF Init, FailuresExplained
<1>2. StartupInv /\ ChainInv /\ ClaimInv /\ SignedInv /\ FailuresExplained
          /\ ClaimInv' /\ [Next]_vars => FailuresExplained'
  BY FailureStep
<1> QED
  BY <1>1, <1>2, StartInvariant, ChainInvariant, ClaimInvariant, SignedInvariant, PTL
     DEF Spec
=============================================================================
