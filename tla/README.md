# Verification of atlas-faucet

TLA+ models of the faucet service in `src/`, checked with TLC on small instances
and proved with TLAPS for every value of the constants: the keeper, the
dispenser, the handlers that join them with the promise of the whole service,
the browser page with its worker pool, the start, and the data of a drip from the
environment to the bytes that the node takes. Line numbers refer to the
files under `src/src/` unless another path is given.

The faucet is a small axum service. A client asks for a signed proof-of-work
challenge bound to its address, solves it, and posts the solution; the service
checks everything again and sends one fixed drip from its account through an
Ethereum execution node. What can go wrong is mostly *between* requests: two
claims race for one challenge, one address, one nonce or one permit; a claim
fails half-way and must undo exactly what it did; a reply is lost; a client
hangs up; the process restarts.  The rest can go wrong in the data of a single
drip: a setting that slips through, a quantity that does not fit, an encoding
that only some transactions meet, a receipt that comes too late.

## 1. Inventory

| Part | State it keeps | Operations | Modules |
|---|---|---|---|
| `PowKeeper` (pow.rs 93-301) | boot nonce, consumed salts with their expiry, time of the last reservation per address; each map behind its own mutex | issue, verify_challenge, consume_salt, release_salt, cooldown_remaining, try_begin_claim, release_claim | `PowKeeper`, `KeeperCalls`, `KeeperLemmas`, `KeeperProofs` |
| `Faucet` (faucet.rs) | admission semaphore, fair async mutex `serialize`, configuration | try_admit, dispense, submit, await_receipt, balance | `Dispenser`, `DispenserCalls`, `SingleFlight`, `DispenserLemmas`, `DispenserProofs` |
| HTTP handlers (server.rs) | none of their own; each request is a future with its locals | challenge_handler, claim_handler, status, health, index | `ClaimFlow`, `DripLedger`, `FlowProofs` |
| RPC client (rpc.rs) | none | call and six typed wrappers | `RpcReply`; inside `Dispenser`, `Service`, `Receipt` |
| Execution node | pending nonce and balance, transactions on the way, blocks | accept or refuse a raw transaction, mine it | external, inside `Dispenser`, `Service`, `Receipt` |
| Receipt wait (faucet.rs 213-253) | deadline | poll, sleep, give up | `Receipt`, `PageProofs` |
| Verifier and reference solver (pow.rs 303-356) | none | verify_solution, solve_puzzle | `Solver` |
| Browser page (index.html) | worker pool, solved nonces, page phase | challenge, mine in workers, claim, show | `Solver` (the pool), `Page`, `PageProofs` |
| Encoding and signing (eth.rs) | none | RLP both ways, EIP-155 signing and recovery | `Rlp`, `Transfer`, `RlpProofs` |
| Hex and addresses (util.rs) | none | encode, decode, parse_address, checksum | `Hex` (not the checksum) |
| Configuration and start (config.rs, main.rs, server.rs 40-49) | none after start | parse, default, validate, find the chain id, bind | `Startup`, `ServiceProofs` |
| One drip, end to end (main.rs, faucet.rs 150-193) | configuration, chain id | submit | `Service`, `ServiceProofs` |

How the parts meet. `claim_handler` is the only place where the keeper and the
faucet meet: it reserves the address, takes a permit, burns the salt and hands
the claim to `dispense`; on every failure it takes back what it took. Handlers
run concurrently on tokio's threads, so any two operations on the shared maps
may interleave; inside `dispense` they queue for one mutex and await the node
four times. hyper drops a handler's future when its connection closes, which
can only happen at an await: nothing after it runs, only destructors do.

What each part owes the others, and what makes it hard:

- Keeper: a challenge is redeemed once although expired salts are forgotten, a
  redemption can be taken back, and a restart forgets everything; reservations
  are a cooldown apart although lapsed entries are pruned and late releases
  meet newer entries; nobody is refused without a reason.
- Faucet: permits are neither lost nor made on any path; from the nonce read to
  the submission a claim is alone, so nonces stay sequential; an outcome says
  what happened at the node; no claim waits for ever behind another.
- Browser page: what the pool resolves with is what the server accepts, it gives
  up only for a reason; what the page shows is so; every visit ends.
- Receipt wait: what it reports is so, and it is bounded by the timeout.
- Start: a server that listens has a configuration the rest can take for
  granted, and a blank variable is as good as none.
- Transaction data: what the chain takes is the configured drip to the recipient
  that was named; a failure has a reason the operator can see.
- Handlers: one drip per challenge, drips to one address a cooldown apart, only
  earned drips, truthful answers, and no trace of a failed claim.

The full list of hazards, each at its line, is `PROJECT.json` "hazards".

## 2. Modules and their correspondence to the code

**PowKeeper.** One variable per map, total functions with `Absent` for a
missing key. Every method holds one lock from its first access to its last, so
each is one action; a method with two results is two actions whose guards are
the conditions that select the result, and pruning is part of both. The HMAC is
ideal: a MAC is the record of its inputs (secret, boot nonce, address, salt,
expiry). Difficulty, epoch and the other signed fields are fixed by the
configuration, so a client that alters one fails the same equality; the
alterations modelled are the recipient and the expiry. `issued` is what clients
hold. `SatAdd`/`SatSub` are u64 saturating arithmetic with the bound `U64Max`.

**KeeperCalls** drives the keeper with every legal call in any order and keeps
two histories that are never pruned: `redemptions[s]`, how many consumptions of
a salt have not been given back, and `grants[a][t]`, the reservations made at
`t` and not given back. A caller gives back only what it took, at any later
time, which is what `claim_handler` does.

**Dispenser** is `Faucet::dispense` as a state machine per claim. `stage[c]`
names the next thing the future does; the stages `locking`, `balance`, `nonce`,
`sending`, `receipt` are the awaits. `serialize` is tokio's fair mutex: its
holder, then the waiters in order. The nonce read and the submission are one
step apart because nothing is awaited in between; the node sees the
transaction later (`Deliver`). The node takes the next nonce only, and only if
the account can pay. Faults, each switched by the constant `Faults`:

| Fault | What happens |
|---|---|
| `drop` | the request never reaches the node and the call errs |
| `late` | the call errs while the request is still on its way |
| `reply_lost` | the node accepted it and the reply is lost or unreadable |
| `disconnect` | the client hangs up and the future is dropped where it waits |
| `crash` | the process dies and a new one starts |

The three reads before the submission may fail at any time in any
configuration.

**DispenserCalls** lets any number of claims in, each admitted at most once and
then either dropping its permit (the replay path of the handler) or
dispensing. **SingleFlight** is the abstract promise: a bounded number inside,
one of them at work, only that one paid, nobody paid twice.

**ClaimFlow** is the handlers over both. `pc[c]` is the statement
`claim_handler` runs next; each step is one operation on shared state, in the
order of the source: reserve, admit, consume, dispense, and the undo paths
(`busy`; `drop_permit` then `reused`; release of the reservation then of the
salt). `now[c]` is the time read once at server.rs:179 and used for every later
check. Two bounds say how far the wall clock may run past that time:
`MaxSyncSecs` before the last check, `MaxClaimSecs` before the answer. The
proof-of-work verdict is an input of `Receive`; a body that is no claim or a
challenge that cannot be decoded is `ReceiveMalformed`. `MaxSetBack` says how
far the wall clock may be set back.

**DripLedger** is the promise of the whole service without its parts: a set of
drips entered one at a time, each for a fresh challenge and spaced from its
predecessors, and one final answer per claim that says whether it is in the set.
`ClaimFlow!Ledger` maps the node's accepted transactions to entries and the
responses to answers; `LedgerPromise` is the refinement.

**Solver** is the browser's worker pool and the server's verdict on its result.
Each worker mines its stripe of puzzles in a thread of its own and posts
messages; the page handles them one at a time, in order per worker and in any
order between workers; settling the promise terminates the pool and drops what
was not yet handled. Hash, preimage layout and difficulty are one table, chosen
freely in `Init`, that says which nonce of which puzzle is good enough; the
page's solution is compared with `verify_solution` and with the reference
solver `solve_puzzle`.

**Receipt** is `await_receipt`: asking, answering, sleeping until it is over.
Time is counted in fractions of the 500 ms sleep (`Interval`), and a poll may
take up to `MaxPoll`: what the node answers is the chain at a moment in between,
while the transaction is mined, or reverts, at any time. The answers are those
of `RpcReply!TransactionReceipt`: an error is swallowed, null means not yet.
`Instant + Duration` panics above `MaxInstant`.

**Page** is one visit, `run()` in index.html, over `Solver` and `Receipt`: the
click, the challenge, the pool, the claim, what the handler answers and the
alert. Each fetch may fail. `promise`, `claim` and `wait` are what run() awaits.

**RpcReply** has one operator per method of the RPC client, over a reply's
members: body, JSON, `error` absent, null or given, `result` missing, null, a
text or something else, and the number a text denotes.

**Startup** is `main` as a state machine: arguments, configuration, runtime,
chain id, faucet, bind. Each may end the process: an argument, an environment
that does not load, threads that the system refuses (`BuildRuntime`), a capacity
beyond what a tokio semaphore can have (`NewFaucet`, `MaxPermits`), an address
in use. The value of a variable is the number its text denotes and whether
blanks surround it; `Widths` has the types envy parses. `create_config`'s filter
of blank variables, envy's refusal of padded numbers, `trim` in the parsers of
amounts and keys, and the defaults are each where the code has them.

**Hex**, **Rlp**, **Transfer** are util.rs and eth.rs as operators. Bytes are
numbers and texts sequences of digits, in any even `Radix`: `Short`, `ListBase`
and the other prefixes are where RLP puts them in a byte of that size, and with
`Radix` 16 and `WordBytes` 8 they are the code's 55, 0x80, 0xc0. Words wrap as in
a release build. Loops over bytes and items are recursive functions on the number
of rounds (`BeTo`, `DecodeItems` with `Advanced` for one round), so that they can be
proved about. A signature is ideal: it recovers to its key for exactly its
payload, r, s and recovery id, and to a stranger otherwise.

**Service** takes one claim from the environment to the chain through all of
those, with `submit` call by call. The node decodes what it is sent by a
definition of its own (`NodeReads`): canonical RLP, minimal integers, its own
chain id. It has no least price: that a real node refuses a configured price below
its own is not in the model, and would be one more disjunct of `FailuresExplained`.
It is honest about its state but any reply may be faulty.

**MCKeeper**, **MCFlow** add symmetry sets, **MCService** the environments,
recipients and signatures. `KeeperLemmas` and `DispenserLemmas` hold the lemmas
that hold of a component on its own and in `ClaimFlow`; the `Proofs` modules are
the subject of section 4. Operators whose comment starts with
"Mutant of" are plausible wrong versions of the definition that follows them;
no behaviour uses them. They show that a property can fail.

## 3. Runs

| Run | Instance | Asks |
|---|---|---|
| keeper | 2 salts, 2 addresses, cooldown 2, lifetime 2, clock 0..4 with u64 ending at 5, 1 restart, pinned secret | no replay, spaced grants, justified refusals |
| dispenser | 3 claims, 2 permits, quotes 0 and 2, funds 8 against costs 4 and 5, lost requests, failing reads | types, nonces, outcomes, implements SingleFlight |
| dispenser_faults | 3 claims, 2 permits, all five faults, fairness | permits, everyone leaves |
| flow | 3 claims, 2 addresses, 2 challenges, 2 permits, cooldown 2, lifetime 2, clock 0..3, funds for two drips | all seven promises of the service, implements DripLedger |
| flow_faults | as flow, with hang-ups, one crash and restart, a time up to one second old and claims of up to two seconds, clock 0..2 | one drip per challenge, drips spaced but for the second the checks took, truthful answers, only hang-ups leave traces, and only until the restart |
| flow_no_cooldown | as flow, cooldown 0, lifetime 1 | one drip per challenge, no trace of failures |
| flow_liveness | 2 claims, 1 permit, a time up to one second old, a clock set back by a second, lifetime 1, clock 0..2, fairness | no trace of failures, every claim answered |
| page | every table of 1 to 3 puzzles over nonces 0 and 1; hardwareConcurrency undefined, 1 and 2; failing workers and requests; timeouts 0, 3 and 9 with sleeps of 2, polls of up to 1 and instants up to 8; fairness | types, accepted solutions, truthful and bounded wait, truthful alert, justified rejections, the visit ends |
| service | a byte of 64 values (`Radix` 8), u64 of two bytes, addresses of 2 and r, s of 14 bytes; each variable around each of its limits, drip, price and chain together; 4 node chains, 8 recipients, 3 signatures, 5 node states, all faulty replies | types, sane configuration, blank is unset, drip as configured, refusals and failures explained, recovery |
| flow_stale_replay | a time up to one second old, cooldown 1, lifetime 1 | one drip per challenge: fails |
| flow_hangup_leak | hang-ups | no trace of failures: fails |
| flow_reply_lost | replies lost | one drip per challenge: fails |

Why the bounds are enough. Three claims are the least at which one claim acts
while a second is half-way and a third prunes, queues or takes the permit; two
of each other kind make "same" and "different" both possible. The clock runs
past a whole cooldown and a whole lifetime, so boundary seconds, expiry and
pruning all occur; in `keeper` the last second is close enough to `U64Max` that
deadlines saturate. With funds of 4 and costs of 2 the account runs dry within
the run. In `flow_faults` a claim may take as long as the cooldown, so its
reservation lapses under it and a newer one takes its place; `CooldownSpacing`
is violated there, by the one second that `SpacedUpToDelay` grants, and a
release that does not compare times violates that too. No challenge expires
within its clock, which is why a stale time costs no challenge there. `MaxBoots` 1 gives one
restart with everything in flight. The queue is full in `dispenser` and
`flow_no_cooldown` (two permits, three claims) and in `flow_liveness` (one
permit); in `flow` two addresses can reserve at once, so two claims meet at the
mutex and never a third.

In `service` a string of up to 13 bytes is short, so r and s of 14 bytes and the
same with leading zeros fall on both sides of the boundary between the short and
the long form; every transaction is a long list. Numbers on both sides of one byte
and of the boundary byte 0x80 occur as nonces (0, 31, 32, 64), prices and drips
(0, 32, 4096, the largest u128), and the chain ids 2029 to 2031 are those around
the largest whose v fits. The node's balances are around what a drip costs
and the two largest of a u128: with the largest, the saturated check (faucet.rs:169)
lets a drip through that costs more than a u128 can count, which the node refuses
and `FailuresExplained` names. Besides the listed mutants, ten other slips
were tried by hand on `service` (swapped digits, zero written as a byte, the long
form one byte late, 0x80 as its own encoding, no chain id in the payload, v
without the chain id, zero accepted where NonZero is asked, a null error taken
for an error, an unparseable quantity taken for zero, the balance check without
gas) and each violates a property.

In `page` a timeout of 3 with sleeps of 2 puts the deadline between two polls,
9 is beyond the largest instant, and 0 skips the wait. Two nonces are enough for a
puzzle with its first, its last or no nonce good; three puzzles over two workers
for stripes of different length.

Fairness (`DispenserCalls!Fairness`, `ClaimFlow!Fairness`): weak fairness of
each handler's next step, because tokio polls every task that can advance and
its mutex is first-come first-served; weak fairness of the node's handling of
what reaches it. `DispenseStep` includes the answer of each read, so the
liveness properties assume that the node answers: no RPC call has a timeout
(rpc.rs 36-40), and without that assumption the code promises nothing. Arrival
of requests, admission, ticks and faults are not fair.

In `Page`, every worker thread runs and every message and error event is
eventually handled, as in any browser tab that stays open; a request is answered
or fails; the receipt wait goes on and time passes. Failures, blocks and the
click are not fair.

Deadlock is checked everywhere; `AllOver` and `Rest` are the states in which
the system may legitimately stand still.

### What the code does not promise

Three runs exhibit a statement of the repository that does not hold, and the
first two need no failure of the node:

- `flow_stale_replay`: `consume_salt` prunes with the caller's time. A handler
  that read the clock in a challenge's last second and is overtaken by another
  handler one second later finds its salt forgotten and redeems the challenge
  again (pow.rs:226 "`false` on replay"). The cooldown can be undercut in the
  same way, because a boundary-second claim replaces the older entry and removes
  its own on failing, but only by what the delay was: that is `SpacedUpToDelay`.
  The window is one scheduling delay wide.
- `flow_hangup_leak`: a dropped handler runs no undo code, so the address stays
  locked for a cooldown and the challenge stays burnt although nothing was
  sent (pow.rs:291-294).
- `flow_reply_lost`: an error of `eth_sendRawTransaction` does not mean that
  nothing was broadcast (server.rs:268, pow.rs:240-241), so the released
  challenge can pay twice.

Met while modelling, each reproducible by changing one constant of a run:

- README.md:83 and 188 of the repository say challenges survive restarts when
  POW_HMAC_SECRET is set; the MAC also covers the boot nonce (pow.rs:102-106),
  so none does. `flow_faults` relies on this.
- faucet.rs:150-151 "nonces stay sequential": a hang-up during the submission
  frees the lock while the transaction is still on its way, and the next claim
  signs with the same nonce. `DispenserFreshNonce` excludes that fault.
- pow.rs:268-269 calls the reservation an in-flight lock; it lapses with the
  cooldown, so `OneClaimPerAddress` needs `MaxClaimSecs < Cooldown`. The drips stay
  spaced all the same (`flow_faults`).
- server.rs:219 says that only `queue_capacity` claims are in the system; the
  permit is returned before the receipt wait (faucet.rs:138).
- A server that cannot bind returns from `main` with exit status 0
  (server.rs:45-48); DEPLOYMENT.md:129 has `Restart=on-failure`.
- A huge FAUCET_RECEIPT_TIMEOUT_SECS passes `validate`, which promises that
  misconfiguration fails fast (config.rs:165-166), and panics in every claim at
  faucet.rs:224, after the drip was sent. FAUCET_GAS_LIMIT is not validated
  either: below the intrinsic gas every claim fails at the node.
- A huge FAUCET_QUEUE_CAPACITY passes `validate` and panics when the faucet is made
  (faucet.rs:91), after the chain id has been asked for; README.md and config.rs give
  it no upper limit.
- faucet.rs:213 "or the timeout elapses": the wait may outlast the timeout by one
  sleep and one poll, which is what `WaitBounded` states.
- `u8::from_str_radix` accepts a plus sign, so util.rs reads "+f" as the byte 15
  and `parse_address` takes addresses that are not hexadecimal.
- index.html:430 shows a transfer that is still pending as a warning, because
  `transferred`, which faucet.rs:40 calls meaningful only when mined, is false.
- With the clock set back, a salt pruned at the later time verifies and pays
  again: the same pruning as in `flow_stale_replay`, over a longer window.

## 4. Proofs

TLC checks the instances above; the theorems hold for every value of the
constants: any sets of claims, salts and addresses (infinite ones included, where
nothing else is said), any cooldown, lifetime, capacity, number of puzzles,
workers and nonces, any width of the words.

**What is assumed.** Each module's named assumption on its constants, evaluated
by TLC on every run: `KeeperAssumption`, `CallsAssumption`,
`DispenserAssumption`, `FlowAssumption`, `SolverAssumption`, `ReceiptAssumption`,
`HexAssumption`, `RlpAssumption` (a byte has room for the prefixes of lengths of
every size), `TransferAssumption` (the length of a transaction fits a usize),
`StartupAssumption` (the defaults and the node's chain id are within their own
types and limits), `ServiceAssumption` (texts are made of characters, the node's
numbers and the bytes of a signature have their sizes) and the like: natural
numbers, at least one permit, a clock that does not reach the largest u64, funds
below the largest u128. What a theorem
needs of the faults and of the clock is a hypothesis of its own:

| Theorems | Hypothesis | Why it is needed |
|---|---|---|
| types, permits, one at a time, `FlowDripsAreEarned`, `FlowOnlyHangUpsLeaveTraces` | none: every fault, every clock | |
| `FlowFailureLeavesNoTrace` | nobody hangs up, no restart | `flow_hangup_leak` |
| `DispenserOutcomeTruthful`, `FlowResponseTruthful` | `NothingUnaccounted`: of the faults at most drop, disconnect, crash | `flow_reply_lost` |
| `FlowSpacedUpToDelay` | `NothingUnaccounted`, `MaxSetBack = 0` | `flow_reply_lost`; with the clock set back there is no measure of time |
| `FlowOneDripPerChallenge`, `FlowCooldownSpacing`, `FlowImplementsLedger` | `NothingUnaccounted`, `ChecksInOneSecond` (`MaxSyncSecs` and `MaxSetBack` 0) | `flow_reply_lost`, `flow_stale_replay` |
| `FlowOneClaimPerAddress` | `MaxClaimSecs < Cooldown`, `MaxSetBack = 0` | a reservation lapses with the cooldown |
| `DispenserFreshNonce`, `DispenserImplementsSingleFlight` | of the faults at most drop, reply_lost | a hang-up while sending reuses the nonce |

The run `flow` is an instance of all of these hypotheses, `flow_faults` of those
of the spacing and of the answers.

**Keeper.** Neither `NoReplay` nor `GrantsSpaced` is inductive. `SaltInv` adds
what makes forgetting safe: every challenge carries the MAC of its own fields and
no two share a salt (`Genuine`, `SaltsDiffer`), and a kept redemption is still in
the consumed set unless its challenge has expired or belongs to an earlier
process (`Remembered`), in which case `Authentic` or `Expired` stops it.
`ClaimInv` says that a kept reservation is the recorded one or a full cooldown
old (`Recorded`), so a new grant is a cooldown away from all of them;
`RecordedForAReason` is the converse that justifies refusals. Theorems:
`KeeperTypeCorrect`, `KeeperNoReplay`, `KeeperGrantsSpaced`,
`KeeperRefusalsJustified`.

**Dispenser.** `DispenserInv` is the conjunction of the types, of the permit
equation with finiteness of the holders, and of `QueueInv`: exactly the claims
between `lock()` and the drop of its guard are in the mutex, each once, and only
the first is past `lock()`. It holds under every fault and gives
`DispenserTypeCorrect`, `DispenserPermitAccounting` and `DispenserOneAtATime`.
`WithoutShifts` is the lemma about removing a dropped future from the queue.
`Moves` lists the dispenser's steps without saying who takes them, so the same
lemmas serve `DispenserCalls` and `ClaimFlow`. Two further invariants hold under
the faults they tolerate: `FreshInv` gives `DispenserFreshNonce`, `TruthInv`
gives `DispenserOutcomeTruthful`. `DispenserImplementsSingleFlight` maps
admission to Enter, obtaining the lock to Start, acceptance by the node to Pay,
unlocking to Stop, returning the permit to Exit, and everything else to a
stutter.

**Handlers** (`FlowProofs`). `FlowInv` joins the invariants of the parts with
what relates them: `Together`, how far a handler is and how far the future it
awaits; `SentLate`, nothing is sent before its claim is in dispense; `Presented`,
what is in flight or sent was issued and presented in time; `Unanswered`. It needs
no hypothesis and gives `FlowTypeCorrect` and `FlowDripsAreEarned`.
`OnlyHangUpsLeaveTraces` is inductive beside it. Its hard case is an undo: what
is left in the map must be somebody else's, and it is, because `release_claim`
compares the time and an entry of the claim's own carries it (`TraceMove`).
`FailureLeavesNoTrace` follows from it where nobody is gone. `Told` and
`TruthInv` give `FlowResponseTruthful`; `InTime` and `Locked` (a claim in flight
holds the recorded reservation) give `FlowOneClaimPerAddress`. The lemma
`Progress` says once what any step does to any claim; the later proofs use it in
place of the actions.

**The ledger** (`FlowProofs`, at the end). `OneDripPerChallenge` is not
inductive: two claims may have presented the same challenge, and the set of
consumed salts forgets. `LedgerInv` says that whoever holds a salt, from its
consumption to the release or for ever once paid, holds it alone (`OneHolder`),
and that the salt is remembered until its challenge has expired or the process
that issued it is gone (`SaltsHeld`); with a handler's checks in one second
(`OnTime`), whoever could consume a forgotten salt has been refused before.
`KeptRecorded` and `KeptSpaced` say the same of reservations. They need less:
checks that end within `MaxSyncSecs` (`SoonEnough`), so `FlowSpacedUpToDelay`
holds for every delay and `FlowCooldownSpacing` is its case without any. Where
the delay is below the cooldown two reservations of one address never carry the
same time, which is why a release cannot meet another claim's entry; where it is
not, nothing is promised. `FlowImplementsLedger` maps the node's acceptance to
an entry, an answer to an answer and the rest to a stutter.

**The page** (`PageProofs`). The pool: `SolverInv` says that a worker has found
or reported every puzzle of its stripe before its current one (`WorkerInv`), that
"done" and "unsolvable" are a worker's last words (`MessagesTrue`), and that as
many workers are counted as have finished; so when the last "done" is counted
every puzzle has been reported, to the array (`AllDone`). `EveryPuzzleAssigned`
is the arithmetic: the stripes of any number of workers cover any number of
puzzles. `CountInv` bounds the count: a puzzle that is still owed is owed by one
worker, once, and the puzzles counted and owed are no more than there are.
`VisitInv` carries the solution to the server's verdict and the wait to the alert.
Theorems: `PageTypeCorrect`, `PageSolutionAccepted`, `PageRejectionJustified` (of
steps), `PageShownTruthful`. The wait: `ReceiptInv` says when polls and sleeps begin
(`Punctual`: before the deadline has passed by a whole sleep, so one more poll is
the last) and what the reply on its way back is worth (`ReplyTruthful`: null means
that the transaction was mined, if at all, after the poll was sent). Theorems:
`PageWaitBounded`, `PageReceiptTruthful`.

**The encoding** (`RlpProofs`). Every lemma holds for every radix, every width of
the words and every number and length of the items. Recursive functions are
reached by induction, which the library's induction theorems do not give here
(they take an operator as a parameter) but the well-foundedness of `<` on the
naturals does: `Least` gives every set of naturals its least element, and each
induction is the least counterexample, refuted. Powers are positive and grow
(`PowerIsFollowed`), so a number has a length of its own (`MinimalBeIs`) and
shifting its bytes in, one by one and modulo any word that it fits, yields the
leading digits of the number (`NumberIsRead`). `StringIsRead` goes through the
three forms of a string where it stands in the input: the prefix bytes of the
forms do not overlap, and the length that is read is the length that was written.
`ListIsRead` carries an invariant over the rounds of the loop: after round k the
first k items have been read and the cursor stands behind the k-th. That different
lists have different encodings is a corollary (`ListsDiffer`). `HexIsRead` and
`PadIsInverse` are the text around the bytes and the padding of r and s.
`SignedIsRecovered` puts them together with the arithmetic of v: `ChainIsFound`
when it fits, `ChainIsLost` when it has wrapped around.

**Start, claim and chain** (`ServiceProofs`). `StartupInv` carries `Loads(env)`
and `config = Resolved(env)` from the loading of the configuration to the
listening server, and that the capacity fits its semaphore from `NewFaucet` on;
`LoadedIsSane` goes through envy's parsing, validation, trimming and defaults
field by field, `BlanksDropped` compares an environment with its twin without
blank variables. Theorems: `ServiceListeningIsSane`, `ServiceBlankIsUnset`.
`ClaimInv` follows a claim from its text to its answer: `ReadAsNamed` and
`AddressesAreRead` say that parse_address takes exactly the texts that name an
address and reads the address they name, `ReadingsAreTrue` that only a faulty
reply cannot be read, `NeededIsJustified` that saturation never asks for more
than the drip costs. Theorems: `ServiceRefusalsExplained`,
`ServiceRecipientAsNamed`.

`ChainInv` says where the chain id comes from: the configuration, the node or the
fallback. `SignedInv` says that what was sent is the faucet's signature of this
claim's transaction (`SignedFor`), with the nonce that the node has until it
answers, and that the balance then covered what was asked for; it is inductive
only beside the other three. On the instance of `service` TLC finds no state that
violates any of the four. `NodeFinds` says what the node's own decoder makes of
such a text: it is canonical for the node (`NodeNumberIs`, `NodeListIs`,
`ItemsAreCanonical`), so what is found are the fields that were signed, and the
signer if the chain is the node's. From another chain the payload differs
(`PayloadsDiffer`) and the sender is a stranger: `TakenAsSigned`, from which
`ServiceDripAsConfigured` follows. `ServiceRecoversExactly` is `SignedIsRecovered`
for what the service signs. `EnoughIsEnough` turns the saturated balance check into
the node's exact one, which leaves `ServiceFailuresExplained` nothing but the
reasons it names. With `ServiceTypeInvariant`, every invariant that the runs expect
to hold is stated by a theorem.

**Only model-checked.** Liveness (`EveryoneLeaves`, `EveryClaimAnswered`,
`PageRecovers`): the provers do not treat ENABLED.

## 5. Not modelled

Not modelled and why: secp256k1, keccak and SHA-256 (bit-level, taken as ideal
where they matter) and with them `leading_zero_bits` and the case of checksummed
addresses; HTML, CSS, progress reports and wording; the index, status and health
endpoints (they read, change nothing and are not inputs of a claim); tokio, axum
and hyper beyond what the handlers rely on; packaging and tests; panics other
than those of start-up and of the deadline. RPC time-outs do not exist in the
code, so a node that never answers is outside every liveness property.

Room for more: `Service` follows one claim; joining its data to the interleavings
of `ClaimFlow`, so that the nonces and balances of one are those of the other, is
left to the two properties they share (a fresh nonce, an affordable drip).
