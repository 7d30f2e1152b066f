------------------------------ MODULE Service ------------------------------
(***************************************************************************)
(* One drip from the environment to the chain: the process starts, a       *)
(* recipient is named by a text, submit (src/faucet.rs) reads what it      *)
(* needs from the node, signs and sends, and the node takes the            *)
(* transaction or refuses it.  Claims one after the other and at once are  *)
(* the matter of ClaimFlow; here it is the data.                           *)
(*                                                                         *)
(* The node is honest about its state but its replies may be faulty.  It   *)
(* takes only the canonical encoding of a transaction for its chain.       *)
(***************************************************************************)
EXTENDS Startup, Transfer, FiniteSets

CONSTANTS
    Recipients,     \* bound: the texts given as recipient
    Signatures,     \* bound: the bytes [r, s, recovery_id] that libsecp returns
    NodeStates,     \* bound: nonce, price and balance the node reports
    IntrinsicGas    \* 21000

\* A text is made of characters, the node's numbers fit their types and the
\* bytes of a signature have their sizes.
ASSUME ServiceAssumption ==
    /\ \A text \in Recipients : text.body \in Seq(Digits \cup {Plus, Other})
    /\ NodeStates \subseteq [nonce : 0 .. U64 - 1, price : 0 .. U128 - 1,
                             balance : 0 .. U128 - 1]
    /\ Signatures \subseteq [r : [1 .. SigBytes -> Bytes],
                             s : [1 .. SigBytes -> Bytes], recovery_id : {0, 1}]
    /\ IntrinsicGas \in Nat

VARIABLES
    step,       \* where submit is, "idle" before and "answered" after it
    recipient,  \* the text of the claim
    to,         \* and the address it was read as
    price,      \* the gas price in use
    signed,     \* the signature with the key and the payload it is for
    raw,        \* the text sent to the node
    response,   \* the code answered
    node,       \* external: the state of the node
    faulty,     \* history: some reply was faulty
    accepted    \* external: the transactions the node took

claim == <<recipient, to, price, signed, raw>>
external == <<node, accepted>>
vars == <<boot, status, step, claim, response, faulty, external>>

NoSignature == [key |-> "none", payload |-> << >>, r |-> << >>, s |-> << >>,
                recovery_id |-> 0]
NoText == Text(FALSE, "", << >>)

Init ==
    /\ StartupInit
    /\ step = "idle"
    /\ recipient = NoText
    /\ to = << >>
    /\ price = 0
    /\ signed = NoSignature
    /\ raw = NoText
    /\ response = "none"
    /\ node \in NodeStates
    /\ faulty = FALSE
    /\ accepted = {}

\* Startup of the process; the chain id may have been guessed.
Start ==
    /\ StartupStep
    /\ UNCHANGED <<step, claim, response, faulty, external>>

Answer(code) == step' = "answered" /\ response' = code
Proceed(label) == step' = label /\ UNCHANGED response

\* The recipient is read when the challenge is asked for, and again from it.
Claim(text) ==
    /\ status = "listening" /\ step = "idle"
    /\ recipient' = text
    /\ to' = ParseAddress(text, AddressBytes).bytes
    /\ IF ParseAddress(text, AddressBytes).ok
         THEN Proceed("price") ELSE Answer("BAD_REQUEST")
    /\ UNCHANGED <<boot, status, price, signed, raw, faulty, external>>

\* Whatever the node replies to a question whose answer is n, as it is read.
Readings(n, word) ==
    {[quantity |-> ReadQuantity(reply, word), faulty |-> reply \notin HonestReplies(n)] :
        reply \in HonestReplies(n) \cup FaultyReplies(word)}

\* A quantity that cannot be read ends the claim.
ReadFails == Answer("RPC_ERROR") /\ UNCHANGED claim

QuotedPrice(quote) == IF quote = 0 THEN 1 ELSE quote

UsePrice(n) ==
    /\ price' = n
    /\ Proceed("balance")
    /\ UNCHANGED <<recipient, to, signed, raw>>

ReadPrice ==
    /\ step = "price"
    /\ IF config.faucet_gas_price_wei # None
         THEN UsePrice(config.faucet_gas_price_wei) /\ UNCHANGED faulty
         ELSE \E reading \in Readings(node.price, U128) :
                  /\ faulty' = (faulty \/ reading.faulty)
                  /\ IF reading.quantity.ok
                       THEN UsePrice(QuotedPrice(reading.quantity.value))
                       ELSE ReadFails
    /\ UNCHANGED <<boot, status, external>>

Saturated(n) == IF n < U128 THEN n ELSE U128 - 1

Needed ==
    Saturated(config.faucet_drip_wei + Saturated(price * config.faucet_gas_limit))

CheckBalance(n) ==
    /\ IF n < Needed THEN Answer("INSUFFICIENT_FUNDS") ELSE Proceed("nonce")
    /\ UNCHANGED claim

ReadBalance ==
    /\ step = "balance"
    /\ \E reading \in Readings(node.balance, U128) :
           /\ faulty' = (faulty \/ reading.faulty)
           /\ IF reading.quantity.ok
                THEN CheckBalance(reading.quantity.value) ELSE ReadFails
    /\ UNCHANGED <<boot, status, external>>

Transaction(nonce) ==
    [chain_id |-> chain_id, nonce |-> nonce, gas_price |-> price,
     gas_limit |-> config.faucet_gas_limit, to |-> to,
     value |-> config.faucet_drip_wei]

SignAndSend(nonce) ==
    /\ \E bytes \in Signatures :
           signed' = [key |-> "faucet", payload |-> SigningPayload(Transaction(nonce)),
                      r |-> bytes.r, s |-> bytes.s, recovery_id |-> bytes.recovery_id]
    /\ raw' = SignLegacyTransfer(Transaction(nonce), signed')
    /\ Proceed("sending")
    /\ UNCHANGED <<recipient, to, price>>

ReadNonce ==
    /\ step = "nonce"
    /\ \E reading \in Readings(node.nonce, U64) :
           /\ faulty' = (faulty \/ reading.faulty)
           /\ IF reading.quantity.ok
                THEN SignAndSend(reading.quantity.value) ELSE ReadFails
    /\ UNCHANGED <<boot, status, external>>
-----------------------------------------------------------------------------
\* External: RLP and EIP-155 as the node has them.
NodeNumber(n) ==
    LET width == Cardinality({k \in 0 .. WordBytes - 1 : Power[k] <= n})
    IN  [i \in 1 .. width |-> (n \div Power[width - i]) % Base]
NodePrefix(len, base) ==
    IF len <= Short
      THEN <<base + len>>
      ELSE <<base + Short + Len(NodeNumber(len))>> \o NodeNumber(len)
NodeString(item) ==
    IF Len(item) = 1 /\ item[1] < StringBase
      THEN item ELSE NodePrefix(Len(item), StringBase) \o item
NodeList(items) ==
    LET join[i \in 0 .. Len(items)] ==
            IF i = 0 THEN << >> ELSE join[i - 1] \o NodeString(items[i])
    IN  NodePrefix(Len(join[Len(items)]), ListBase) \o join[Len(items)]
Padding(item) == [i \in 1 .. SigBytes - Len(item) |-> 0] \o item
Canonical(item) == item = << >> \/ item[1] # 0

\* External: what the node makes of the items of a transaction.
NodeReads(bytes, items) ==
    LET n(i) == BeTo(items[i], U128)
        parity == n(7) - 2 * node_chain - 35
        payload == NodeList(SubSeq(items, 1, 6)
                              \o <<NodeNumber(node_chain), << >>, << >> >>)
    IN  IF /\ Len(items) = 9
           /\ bytes = NodeList(items)
           /\ \A i \in {1, 2, 3, 5, 7, 8, 9} : Canonical(items[i])
           /\ parity \in {0, 1}
          THEN [from |-> Recovered(signed, payload, Padding(items[8]),
                                   Padding(items[9]), parity),
                nonce |-> n(1), gas_price |-> n(2), gas_limit |-> n(3),
                to |-> items[4], value |-> n(5), data |-> items[6]]
          ELSE [from |-> "nobody"]

NodeTransaction(text) ==
    LET read(bytes) == NodeReads(bytes, DecodeFlatList(bytes).item)
    IN  read([i \in 1 .. Len(text.body) \div 2 |->
                 text.body[2 * i - 1] * Radix + text.body[2 * i]])

\* External: the node takes the next transaction of an account that can pay, at
\* any price: a node with a least price refuses what an override puts below it.
NodeTakes(tx) ==
    /\ tx.from = "faucet"
    /\ tx.nonce = node.nonce
    /\ tx.gas_limit >= IntrinsicGas
    /\ tx.value + tx.gas_price * tx.gas_limit <= node.balance

NodeHandles(tx) ==
    IF NodeTakes(tx)
      THEN /\ accepted' = accepted \cup {tx}
           /\ node' = [node EXCEPT !.nonce = @ + 1,
                          !.balance = @ - tx.value - tx.gas_price * tx.gas_limit]
           /\ \E reply \in HonestReplies(0) \cup FaultyReplies(U64) :
                  /\ faulty' = (faulty \/ ~SendRawTransaction(reply))
                  /\ Answer(IF SendRawTransaction(reply) THEN "ok" ELSE "RPC_ERROR")
      ELSE Answer("RPC_ERROR") /\ UNCHANGED <<external, faulty>>

Submit ==
    /\ step = "sending"
    /\ NodeHandles(NodeTransaction(raw))
    /\ UNCHANGED <<boot, status, claim>>

Rest == (Terminated \/ step = "answered") /\ UNCHANGED vars

Next ==
    \/ Start
    \/ \E text \in Recipients : Claim(text)
    \/ ReadPrice \/ ReadBalance \/ ReadNonce \/ Submit
    \/ Rest

Spec == Init /\ [][Next]_vars
-----------------------------------------------------------------------------
Answers == {"none", "ok", "BAD_REQUEST", "INSUFFICIENT_FUNDS", "RPC_ERROR"}

ServiceTypeOK ==
    /\ \/ status \in {"args", "config", "runtime", "chain", "faucet", "bind",
                     "listening"}
       \/ Terminated
    /\ chain_id \in None .. U64 - 1
    /\ step \in {"idle", "price", "balance", "nonce", "sending", "answered"}
    /\ to = << >> \/ to \in [1 .. AddressBytes -> Bytes]
    /\ price \in 0 .. U128 - 1
    /\ \A i \in DOMAIN raw.body : raw.body[i] \in Digits
    /\ response \in Answers

\* A server that listens meets what the rest of the program takes for granted:
\* a capacity that its semaphore can have, a difficulty a browser can solve,
\* amounts and ids that fit their types (config.rs 147-169, faucet.rs 91,
\* index.html 250-251).
ListeningIsSane ==
    status = "listening" =>
        /\ config.faucet_queue_capacity \in 1 .. MaxPermits
        /\ config.web_workers >= 1 /\ config.listen_port >= 1
        /\ config.pow_bits \in 1 .. MaxPowBits
        /\ config.pow_puzzles \in 1 .. MaxPowPuzzles
        /\ config.faucet_drip_wei \in 0 .. U128 - 1
        /\ config.faucet_gas_price_wei \in None .. U128 - 1
        /\ config.faucet_private_key \in 1 .. KeyOrder - 1
        /\ chain_id \in 0 .. U64 - 1

\* A variable that is set to blanks behaves as if it were not set, for every
\* variable: the start fails for what is set, not for a blank, and yields the
\* same configuration (config.rs 84-90, 147-155, 188-192, main.rs 55-61).
BlankIsUnset ==
    LET twin == [f \in Variables |-> IF env[f] = Blank THEN Unset ELSE env[f]]
    IN  /\ status = "panic" => \/ ~Loads(twin)
                               \/ Resolved(twin).faucet_queue_capacity > MaxPermits
        /\ status \in {"runtime", "chain", "faucet", "bind", "listening"} =>
               config = Resolved(twin)

\* The address that a text of digits stands for; util.rs reads a plus sign in
\* front of a digit as zero.
Stands(text, address) ==
    /\ text.prefix # ""
    /\ HexLower(address) =
           [i \in DOMAIN text.body |->
               IF text.body[i] = Plus /\ i % 2 = 1 THEN 0 ELSE text.body[i]]

NamesAnAddress(text) ==
    /\ text.prefix # ""
    /\ Len(text.body) = 2 * AddressBytes
    /\ \A i \in DOMAIN text.body :
           text.body[i] \in IF i % 2 = 1 THEN Digits \cup {Plus} ELSE Digits

\* What the chain takes is the configured drip to the recipient that was named,
\* from the faucet, without data, on the chain the service was set up for,
\* whatever the node replied (eth.rs 127-176, faucet.rs 152-188).
DripAsConfigured ==
    \A tx \in accepted :
        /\ Stands(recipient, tx.to) /\ Len(tx.to) = AddressBytes
        /\ tx.value = config.faucet_drip_wei
        /\ tx.gas_limit = config.faucet_gas_limit
        /\ tx.data = << >>
        /\ chain_id = node_chain

\* Whether v fits a u64 for this chain id, as EIP-2294 requires of it.
ChainFits == 2 * chain_id + 36 < U64

\* A claim is turned away before anything is signed only because the text is
\* no address, the account cannot pay what the drip costs at most, or a reply
\* was faulty.  No check of a text, a balance or a quantity is stricter than
\* that (util.rs 22-65, 105-118; faucet.rs 152-178; rpc.rs 28-131).
RefusalsExplained ==
    /\ response = "BAD_REQUEST" => ~NamesAnAddress(recipient)
    /\ response = "INSUFFICIENT_FUNDS" =>
           node.balance < config.faucet_drip_wei + price * config.faucet_gas_limit
    /\ response = "RPC_ERROR" /\ raw = NoText => faulty

\* What the node refuses it refuses only for a reason the operator is told: a
\* faulty reply, a gas limit too small, a drip that costs more than a u128 can
\* count, a chain id that is not the node's (by CHAIN_ID or because the node
\* could not be asked) or too large to sign for.  No encoding is ever the reason,
\* and short of that cost no balance (main.rs 76-90, faucet.rs 165-193, eth.rs
\* 19-64, 127-176).
FailuresExplained ==
    response = "RPC_ERROR" =>
        \/ faulty
        \/ config.faucet_gas_limit < IntrinsicGas
        \/ config.faucet_drip_wei + price * config.faucet_gas_limit >= U128
        \/ ~ChainFits
        \/ /\ chain_id # node_chain
           /\ config.chain_id # None \/ chain_id = FallbackChain

\* recover_legacy_transfer is the inverse of signing: it finds the sender and
\* every field, unless v does not fit a u64; then the chain id it finds is
\* another one (eth.rs 127-166, 199-275).
RecoversExactly ==
    LET isInverse(found) ==
            IF 2 * chain_id + 35 + signed.recovery_id < U64
              THEN /\ found.ok /\ found.from = "faucet"
                   /\ found.tx = Transaction(found.tx.nonce)
                   /\ signed.payload = SigningPayload(found.tx)
              ELSE found.ok => found.tx.chain_id # chain_id
    IN  raw # NoText => isInverse(RecoverLegacyTransfer(raw, signed))
=============================================================================
