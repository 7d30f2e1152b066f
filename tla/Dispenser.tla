----------------------------- MODULE Dispenser -----------------------------
(***************************************************************************)
(* Faucet::dispense (src/faucet.rs), run by concurrent claims against one  *)
(* execution node.                                                         *)
(*                                                                         *)
(* A claim is a future: it advances between awaits, waits for the node's   *)
(* answer at each await, and may be dropped at one when the client hangs   *)
(* up.  The node is external: what it does is what the RPC calls of        *)
(* src/rpc.rs rely on, "pending" nonce and balance included.               *)
(***************************************************************************)
EXTENDS Integers, Sequences, FiniteSets

CONSTANTS
    Claims,             \* one element for each claim request
    Capacity,           \* FAUCET_QUEUE_CAPACITY, the semaphore's permits
    Drip,               \* FAUCET_DRIP_WEI
    GasLimit,           \* FAUCET_GAS_LIMIT
    GasPrices,          \* the node's quotes, or the override alone
    GasPriceOverride,   \* TRUE when FAUCET_GAS_PRICE_WEI is set
    Funds,              \* the faucet account's balance at the start
    U128Max,            \* the largest u128
    Faults              \* which faults may happen

ASSUME DispenserAssumption ==
    /\ Capacity \in Nat \ {0}                   \* a NonZeroUsize
    /\ Drip \in Nat
    /\ GasLimit \in Nat
    /\ GasPrices \subseteq Nat
    /\ GasPriceOverride \in BOOLEAN
    /\ U128Max \in Nat
    /\ Funds \in Nat /\ Funds < U128Max      \* below the saturation point
    /\ Faults \subseteq {"drop", "late", "reply_lost", "disconnect", "crash"}

VARIABLES
    permits,    \* available permits of the admission semaphore
    serialize,  \* the fair mutex: its holder, then those that wait for it
    stage,      \* stage[c]: how far dispense has got for claim c
    outcome,    \* outcome[c]: what dispense returns, "none" until known
    tx,         \* tx[c]: nonce and gas price of the transfer for c
    wire,       \* claims whose raw transaction is on its way to the node
    answer,     \* answer[c]: what the node said of that transaction
    dripped,    \* claims whose transaction the node has accepted
    pending,    \* the node's "pending" transaction count of the faucet
    balance     \* the node's "pending" balance of the faucet

process == <<permits, serialize, stage, outcome, tx>>
node == <<wire, answer, dripped, pending, balance>>
dispenser == <<process, node>>

\* Each stage names what the claim does next.
Stages == {"out", "admitted", "locking", "balance", "nonce", "sending",
           "unlock", "leave", "receipt", "returned", "dropped"}
Inside == {"admitted", "locking", "balance", "nonce", "sending",
           "unlock", "leave"}
Critical == {"balance", "nonce", "sending", "unlock"}
Awaits == {"locking", "balance", "nonce", "sending", "receipt"}

Outcomes == {"none", "sent", "INSUFFICIENT_FUNDS", "RPC_ERROR"}

Holders == {c \in Claims : stage[c] \in Inside}

\* Mutant of HoldsLock: the guard is dropped as soon as it is obtained, as
\* `let _ = lock().await` would.
HoldsLockNever(c) == serialize # << >>

HoldsLock(c) == serialize # << >> /\ Head(serialize) = c

Without(c) ==
    IF \E i \in 1 .. Len(serialize) : serialize[i] = c
      THEN LET i == CHOOSE i \in 1 .. Len(serialize) : serialize[i] = c
           IN  SubSeq(serialize, 1, i - 1)
                 \o SubSeq(serialize, i + 1, Len(serialize))
      ELSE serialize

Cap(n) == IF n > U128Max THEN U128Max ELSE n

\* Saturating: a product or a sum beyond u128 stops at the largest u128.
Needed(gas_price) == Cap(Drip + Cap(gas_price * GasLimit))

-----------------------------------------------------------------------------
DispenserInit ==
    /\ permits = Capacity
    /\ serialize = << >>
    /\ stage = [c \in Claims |-> "out"]
    /\ outcome = [c \in Claims |-> "none"]
    /\ tx = [c \in Claims |-> [nonce |-> 0, gas_price |-> 0]]
    /\ wire = {}
    /\ answer = [c \in Claims |-> "none"]
    /\ dripped = {}
    /\ pending = 0
    /\ balance = Funds

TryAdmit(c) ==
    /\ stage[c] = "out"
    /\ permits > 0
    /\ permits' = permits - 1
    /\ stage' = [stage EXCEPT ![c] = "admitted"]
    /\ UNCHANGED <<serialize, outcome, tx, node>>

\* The caller gives the permit up without dispensing.
DropPermit(c) ==
    /\ stage[c] = "admitted"
    /\ permits' = permits + 1
    /\ stage' = [stage EXCEPT ![c] = "dropped"]
    /\ UNCHANGED <<serialize, outcome, tx, node>>

\* serialize.lock().await: first come, first served.
EnterDispense(c) ==
    /\ stage[c] = "admitted"
    /\ serialize' = Append(serialize, c)
    /\ stage' = [stage EXCEPT ![c] = "locking"]
    /\ UNCHANGED <<permits, outcome, tx, node>>

\* A quote of 0 is raised to 1; the configured override is used as it is.
SetGasPrice(c) ==
    /\ stage[c] = "locking"
    /\ HoldsLock(c)
    /\ \E price \in GasPrices :
           tx' = [tx EXCEPT ![c].gas_price =
                    IF price = 0 /\ ~GasPriceOverride THEN 1 ELSE price]
    /\ stage' = [stage EXCEPT ![c] = "balance"]
    /\ UNCHANGED <<permits, serialize, outcome, node>>

Fail(c, error) ==
    /\ outcome' = [outcome EXCEPT ![c] = error]
    /\ stage' = [stage EXCEPT ![c] = "unlock"]
    /\ UNCHANGED <<permits, serialize, tx>>

\* One of the three reads fails in any of RpcClient::call's ways.
ReadFails(c) ==
    /\ \/ stage[c] = "locking" /\ HoldsLock(c) /\ ~GasPriceOverride
       \/ stage[c] \in {"balance", "nonce"}
    /\ Fail(c, "RPC_ERROR")
    /\ UNCHANGED node

Underfunded(c) ==
    /\ stage[c] = "balance"
    /\ balance < Needed(tx[c].gas_price)
    /\ Fail(c, "INSUFFICIENT_FUNDS")
    /\ UNCHANGED node

Funded(c) ==
    /\ stage[c] = "balance"
    /\ balance >= Needed(tx[c].gas_price)
    /\ stage' = [stage EXCEPT ![c] = "nonce"]
    /\ UNCHANGED <<permits, serialize, outcome, tx, node>>

\* Nothing is awaited between the nonce's arrival and the sending.
SignAndSend(c) ==
    /\ stage[c] = "nonce"
    /\ tx' = [tx EXCEPT ![c].nonce = pending]
    /\ wire' = wire \cup {c}
    /\ stage' = [stage EXCEPT ![c] = "sending"]
    /\ UNCHANGED <<permits, serialize, outcome, answer, dripped, pending,
                   balance>>

\* Mutant of Submitted: the hash computed locally is returned without
\* waiting for the node's answer.
SubmittedUnanswered(c) ==
    /\ stage[c] = "sending"
    /\ outcome' = [outcome EXCEPT ![c] = "sent"]
    /\ stage' = [stage EXCEPT ![c] = "unlock"]
    /\ UNCHANGED <<permits, serialize, tx, node>>

Submitted(c) ==
    /\ stage[c] = "sending"
    /\ answer[c] = "hash"
    /\ outcome' = [outcome EXCEPT ![c] = "sent"]
    /\ stage' = [stage EXCEPT ![c] = "unlock"]
    /\ UNCHANGED <<permits, serialize, tx, node>>

Rejected(c) ==
    /\ stage[c] = "sending"
    /\ answer[c] = "error"
    /\ Fail(c, "RPC_ERROR")
    /\ UNCHANGED node

\* Mutants of Unlock: the permit goes with the lock and is returned again
\* later; the lock is never released.
UnlockAndLeave(c) ==
    /\ stage[c] = "unlock"
    /\ serialize' = Tail(serialize)
    /\ permits' = permits + 1
    /\ stage' = [stage EXCEPT ![c] = "leave"]
    /\ UNCHANGED <<outcome, tx, node>>
UnlockForgotten(c) ==
    /\ stage[c] = "unlock"
    /\ stage' = [stage EXCEPT ![c] = "leave"]
    /\ UNCHANGED <<permits, serialize, outcome, tx, node>>

\* The guard is dropped before the permit, on success and on error alike.
Unlock(c) ==
    /\ stage[c] = "unlock"
    /\ serialize' = Tail(serialize)
    /\ stage' = [stage EXCEPT ![c] = "leave"]
    /\ UNCHANGED <<permits, outcome, tx, node>>

Leave(c) ==
    /\ stage[c] = "leave"
    /\ permits' = permits + 1
    /\ stage' = [stage EXCEPT ![c] =
                    IF outcome[c] = "sent" THEN "receipt" ELSE "returned"]
    /\ UNCHANGED <<serialize, outcome, tx, node>>

\* await_receipt ends with a receipt or at its deadline, never in error.
AwaitReceipt(c) ==
    /\ stage[c] = "receipt"
    /\ stage' = [stage EXCEPT ![c] = "returned"]
    /\ UNCHANGED <<permits, serialize, outcome, tx, node>>
-----------------------------------------------------------------------------
\* External: the node receives the raw transaction.  It takes the next nonce
\* only, and only if the account can pay the value and the gas.
Deliver(c) ==
    /\ c \in wire
    /\ wire' = wire \ {c}
    /\ LET cost == Drip + tx[c].gas_price * GasLimit
       IN  \/ /\ tx[c].nonce = pending /\ cost <= balance
              /\ answer' = [answer EXCEPT ![c] = "hash"]
              /\ dripped' = dripped \cup {c}
              /\ pending' = pending + 1
              /\ balance' = balance - cost
           \/ /\ tx[c].nonce # pending \/ cost > balance
              /\ answer' = [answer EXCEPT ![c] = "error"]
              /\ UNCHANGED <<dripped, pending, balance>>
    /\ UNCHANGED process

\* send_raw_transaction ends in a transport or parsing error: the request
\* was lost, is still on its way, or was accepted and the reply was lost.
SendFails(c) ==
    /\ stage[c] = "sending"
    /\ \/ "drop" \in Faults /\ c \in wire /\ wire' = wire \ {c}
       \/ "late" \in Faults /\ c \in wire /\ UNCHANGED wire
       \/ "reply_lost" \in Faults /\ answer[c] = "hash" /\ UNCHANGED wire
    /\ Fail(c, "RPC_ERROR")
    /\ UNCHANGED <<answer, dripped, pending, balance>>

\* Mutants of Disconnect: a permit is returned during the receipt wait too;
\* the dropped future stays in the mutex.
DisconnectOverpays(c) ==
    /\ "disconnect" \in Faults
    /\ stage[c] \in Awaits
    /\ serialize' = Without(c)
    /\ permits' = permits + 1
    /\ stage' = [stage EXCEPT ![c] = "dropped"]
    /\ UNCHANGED <<outcome, tx, node>>
DisconnectHoldsLock(c) ==
    /\ "disconnect" \in Faults
    /\ stage[c] \in Awaits
    /\ permits' = IF stage[c] \in Inside THEN permits + 1 ELSE permits
    /\ stage' = [stage EXCEPT ![c] = "dropped"]
    /\ UNCHANGED <<serialize, outcome, tx, node>>

\* The client hangs up and the future is dropped where it waits: it leaves
\* the mutex or its queue and returns its permit.  What was sent was sent.
Disconnect(c) ==
    /\ "disconnect" \in Faults
    /\ stage[c] \in Awaits
    /\ serialize' = Without(c)
    /\ permits' = IF stage[c] \in Inside THEN permits + 1 ELSE permits
    /\ stage' = [stage EXCEPT ![c] = "dropped"]
    /\ UNCHANGED <<outcome, tx, node>>

\* The process dies and a new one starts with a free queue.
Crash ==
    /\ "crash" \in Faults
    /\ permits' = Capacity
    /\ serialize' = << >>
    /\ stage' = [c \in Claims |->
                    IF stage[c] \in {"out", "returned"}
                      THEN stage[c] ELSE "dropped"]
    /\ UNCHANGED <<outcome, tx, node>>

DispenseStep(c) ==
    \/ SetGasPrice(c) \/ ReadFails(c) \/ Underfunded(c) \/ Funded(c)
    \/ SignAndSend(c) \/ Submitted(c) \/ Rejected(c) \/ SendFails(c)
    \/ Unlock(c) \/ Leave(c) \/ AwaitReceipt(c)
-----------------------------------------------------------------------------
DispenserTypeOK ==
    /\ permits \in 0 .. Capacity
    /\ serialize \in Seq(Claims)
    /\ stage \in [Claims -> Stages]
    /\ outcome \in [Claims -> Outcomes]
    /\ tx \in [Claims -> [nonce : Nat, gas_price : Nat]]
    /\ wire \subseteq Claims
    /\ answer \in [Claims -> {"none", "hash", "error"}]
    /\ dripped \subseteq Claims
    /\ pending \in Nat
    /\ balance \in 0 .. Funds

Cost(c) == Drip + tx[c].gas_price * GasLimit

\* Every permit is either available or held by one claim that is still in
\* the system: no path out of dispense, error, hang-up and replay included,
\* loses a permit or returns it twice (faucet.rs 119-138, server.rs 221-228).
PermitAccounting == permits + Cardinality(Holders) = Capacity

\* Nonces stay sequential: whatever is on its way to the node carries the
\* nonce the node expects next and is affordable, so the node never refuses
\* a drip for its nonce or its cost (faucet.rs 123-128, 150-151, 167-173).
FreshNonce ==
    \A c \in wire : tx[c].nonce = pending /\ Cost(c) <= balance

\* A hash means the node took the transaction; an error means it did not and
\* never will, so the caller may let the claim be retried (server.rs 268-285).
OutcomeTruthful ==
    \A c \in Claims :
        /\ outcome[c] = "sent" => c \in dripped
        /\ outcome[c] \in {"INSUFFICIENT_FUNDS", "RPC_ERROR"}
               => c \notin dripped \cup wire
=============================================================================
