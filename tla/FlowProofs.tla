----------------------------- MODULE FlowProofs -----------------------------
(***************************************************************************)
(* The promises of the service as a whole, for every set of claims, salts  *)
(* and addresses, every cooldown, lifetime, capacity and bound: no error   *)
(* leaves a trace, no challenge pays twice, the drips to one address are a *)
(* cooldown apart, and the service implements DripLedger.  Each theorem    *)
(* names the faults it tolerates and what it assumes of the clock.         *)
(***************************************************************************)
EXTENDS ClaimFlow, KeeperLemmas, DispenserLemmas

\* The faults after which an error still means that nothing was or will be
\* sent.
NothingUnaccounted == Faults \subseteq {"drop", "disconnect", "crash"}

Sent(c) == c \in dripped \cup wire

-----------------------------------------------------------------------------
HandlerTypes ==
    /\ clock \in 0 .. MaxTime
    /\ pc \in [Claims -> PCs]
    /\ req \in [Claims -> Challenges \cup {NoChallenge}]
    /\ now \in [Claims -> 0 .. MaxTime]
    /\ response \in [Claims -> {"none", "ok"} \cup Errors]

\* The handler and the future it awaits agree on how far the claim has got.
InDispense == {"locking", "balance", "nonce", "sending", "unlock", "leave",
               "receipt", "returned"}
Settled == {"unlock", "leave", "receipt", "returned"}

Together ==
    \A c \in Claims :
        /\ pc[c] \in {"idle", "reserve", "admit", "busy"} => stage[c] = "out"
        /\ pc[c] \in {"consume", "drop_permit", "dispense"} =>
               stage[c] = "admitted"
        /\ pc[c] = "reused" => stage[c] = "dropped"
        /\ pc[c] = "await" =>
               /\ stage[c] \in InDispense
               /\ stage[c] \in Settled => outcome[c] # "none"
        /\ pc[c] = "undo_salt" =>
               /\ stage[c] = "returned"
               /\ outcome[c] \in {"INSUFFICIENT_FUNDS", "RPC_ERROR"}
        /\ pc[c] \in {"done", "gone"} =>
               stage[c] \in {"out", "returned", "dropped"}

\* Nothing is sent before its claim is in dispense.
SentLate ==
    \A c \in Claims :
        Sent(c) => /\ pc[c] \in {"await", "undo_salt", "done", "gone"}
                   /\ stage[c] \notin Early

\* What is in flight or sent was presented in time and was issued; what is
\* in flight, by this process.
Presented ==
    \A c \in Claims :
        /\ pc[c] \in Active \/ Sent(c) =>
               req[c] \in issued /\ now[c] <= req[c].expires_at
        /\ pc[c] \in Active => req[c].hmac.boot_nonce = boot

Unanswered == \A c \in Claims : pc[c] # "done" => response[c] = "none"

FlowInv ==
    /\ KeeperTypeOK /\ DispenserInv /\ HandlerTypes
    /\ Genuine /\ SaltsDiffer
    /\ Together /\ SentLate /\ Presented /\ Unanswered

-----------------------------------------------------------------------------
\* An answer agrees with the node, for good.
Told ==
    \A c \in Claims :
        /\ response[c] = "ok" => c \in dripped
        /\ response[c] \in Errors => ~Sent(c)

\* With a clock that is not set back, a claim in flight carries a time of the
\* last MaxClaimSecs seconds.
InTime ==
    \A c \in Claims :
        pc[c] \in Active => now[c] <= clock /\ clock <= now[c] + MaxClaimSecs

Locked ==
    \A c \in Claims : pc[c] \in Reserved => last_claim[req[c].address] = now[c]

LockInv == InTime /\ Locked /\ OneClaimPerAddress

USE KeeperAssumption, DispenserAssumption, FlowAssumption
    DEF KeeperAssumption, DispenserAssumption, FlowAssumption

-----------------------------------------------------------------------------
\* What advancing the future that handler c awaits may change.
LEMMA DispensingFrame ==
    ASSUME stage \in [Claims -> Stages], outcome \in [Claims -> Outcomes],
           NEW c \in Claims, DispenseStep(c)
    PROVE  /\ stage' = [stage EXCEPT ![c] = stage'[c]]
           /\ outcome' = [outcome EXCEPT ![c] = outcome'[c]]
           /\ stage'[c] \in InDispense
           /\ \/ stage'[c] \in Settled /\ outcome'[c] # "none"
              \/ stage'[c] \in Settled /\ stage[c] \in Settled
                     /\ outcome' = outcome
              \/ stage'[c] \notin Settled
           /\ dripped' = dripped
           /\ wire' \subseteq wire \cup {c}
           /\ stage'[c] \in Early => stage[c] \in Early /\ wire' = wire
<1> USE DEF InDispense, Settled, Early
<1>1. CASE SetGasPrice(c) \/ Funded(c)
  BY <1>1 DEF SetGasPrice, Funded, node, Stages, Outcomes
<1>2. CASE ReadFails(c) \/ Underfunded(c) \/ Rejected(c)
  BY <1>2 DEF ReadFails, Underfunded, Rejected, Fail, node, Stages, Outcomes
<1>3. CASE SendFails(c)
  BY <1>3 DEF SendFails, Fail, Stages, Outcomes
<1>4. CASE SignAndSend(c)
  BY <1>4 DEF SignAndSend, Stages, Outcomes
<1>5. CASE Submitted(c)
  BY <1>5 DEF Submitted, node, Stages, Outcomes
<1>6. CASE Unlock(c) \/ Leave(c) \/ AwaitReceipt(c)
  <2>1. /\ stage[c] \in Settled /\ stage'[c] \in Settled
        /\ stage' = [stage EXCEPT ![c] = stage'[c]]
        /\ UNCHANGED <<outcome, wire, dripped>>
    BY <1>6 DEF Unlock, Leave, AwaitReceipt, node
  <2>2. QED
    BY <2>1
<1>7. QED
  BY <1>1, <1>2, <1>3, <1>4, <1>5, <1>6 DEF DispenseStep

\* Every step of the service is a step of dispense or leaves it alone.
LEMMA FlowMoves == [Next]_vars => Moves
<1> SUFFICES ASSUME [Next]_vars
             PROVE  Moves
  OBVIOUS
<1> USE DEF Moves
<1>1. ASSUME NEW c \in Claims, Handle(c)
      PROVE  Moves
  BY <1>1 DEF Handle, Reserve, Admit, Busy, Consume, ReplayDropsPermit, Reused,
              Dispense, Dispensing, Succeed, UndoClaim, UndoSalt
<1>2. ASSUME NEW c \in Claims, ReceiveMalformed(c) \/ NodeDelivers(c) \/ HangUp(c)
      PROVE  Moves
  BY <1>2 DEF ReceiveMalformed, NodeDelivers, HangUp
<1>3. QED
  BY <1>1, <1>2
     DEF Next, Challenge, Receive, CrashRestart, Tick, SetBack, Rest, vars

\* Every step of the service is one call of the keeper or leaves it alone.
LEMMA FlowCallsKeeper ==
    ASSUME [Next]_vars
    PROVE  \/ \E s \in Salts, a \in Addresses, t \in 0 .. clock : Issue(s, a, t)
           \/ \E c \in Claims :
                  /\ pc[c] \in Active
                  /\ \/ BeginClaim(req[c].address, now[c])
                     \/ ClaimRefused(req[c].address, now[c])
                     \/ ReleaseClaim(req[c].address, now[c])
                     \/ ConsumeSalt(req[c].salt, req[c].expires_at, now[c])
                     \/ SaltReplayed(req[c].salt, now[c])
                     \/ ReleaseSalt(req[c].salt)
           \/ KeeperRestart
           \/ UNCHANGED keeper
<1> USE DEF Active, Reserved
<1>1. ASSUME NEW c \in Claims, Handle(c)
      PROVE  \/ /\ pc[c] \in Active
                /\ \/ BeginClaim(req[c].address, now[c])
                   \/ ClaimRefused(req[c].address, now[c])
                   \/ ReleaseClaim(req[c].address, now[c])
                   \/ ConsumeSalt(req[c].salt, req[c].expires_at, now[c])
                   \/ SaltReplayed(req[c].salt, now[c])
                   \/ ReleaseSalt(req[c].salt)
             \/ UNCHANGED keeper
  BY <1>1 DEF Handle, Reserve, Admit, Busy, Consume, ReplayDropsPermit, Reused,
              Dispense, Dispensing, Succeed, UndoClaim, UndoSalt
<1>2. ASSUME NEW c \in Claims, ReceiveMalformed(c) \/ NodeDelivers(c) \/ HangUp(c)
      PROVE  UNCHANGED keeper
  BY <1>2 DEF ReceiveMalformed, NodeDelivers, HangUp
<1>3. ASSUME NEW a \in Addresses, NEW s \in Salts, Challenge(a, s)
      PROVE  \E t \in 0 .. clock : Issue(s, a, t)
  BY <1>3 DEF Challenge
<1>4. QED
  BY <1>1, <1>2, <1>3
     DEF Next, Receive, CrashRestart, Tick, SetBack, Rest, vars

LEMMA FlowKeeperStep ==
    ASSUME FlowInv, [Next]_vars
    PROVE  KeeperTypeOK' /\ Genuine' /\ SaltsDiffer'
<1>0. /\ KeeperTypeOK /\ Genuine /\ SaltsDiffer
      /\ clock \in 0 .. MaxTime
      /\ \A c \in Claims : now[c] \in 0 .. MaxTime
      /\ \A c \in Claims : pc[c] \in Active => req[c] \in issued
  BY DEF FlowInv, HandlerTypes, Presented
<1>1. /\ boot \in Nat
      /\ consumed \in [Salts -> (0 .. U64Max) \cup {Absent}]
      /\ last_claim \in [Addresses -> (0 .. U64Max) \cup {Absent}]
      /\ issued \subseteq Challenges
      /\ \A ch \in issued : ch.hmac.boot_nonce \in Nat
  BY <1>0 DEF KeeperTypeOK, Challenges, Macs
<1>2. ASSUME NEW s \in Salts, NEW a \in Addresses, NEW t \in 0 .. clock,
             Issue(s, a, t)
      PROVE  KeeperTypeOK' /\ Genuine' /\ SaltsDiffer'
  <2> DEFINE new == NewChallenge(s, a, t)
  <2>1. /\ new \in Challenges /\ new.salt = s
        /\ new.hmac.boot_nonce = boot /\ new.hmac.address = new.address
        /\ new.hmac.salt = s /\ new.hmac.expires_at = new.expires_at
    BY <1>0, NewChallengeType
  <2>2. /\ issued' = issued \cup {new}
        /\ \A ch \in issued : ch.salt # s
        /\ UNCHANGED <<boot, consumed, last_claim>>
    BY <1>2 DEF Issue, FreshSalts
  <2> HIDE DEF new
  <2>3. KeeperTypeOK'
    BY <1>1, <2>1, <2>2 DEF KeeperTypeOK
  <2>4. Genuine'
    BY <1>0, <1>1, <2>1, <2>2 DEF Genuine
  <2>5. SaltsDiffer'
    BY <1>0, <2>1, <2>2 DEF SaltsDiffer
  <2>6. QED
    BY <2>3, <2>4, <2>5
<1>3. ASSUME UNCHANGED <<boot, issued>>,
             consumed' \in [Salts -> (0 .. U64Max) \cup {Absent}],
             last_claim' \in [Addresses -> (0 .. U64Max) \cup {Absent}]
      PROVE  KeeperTypeOK' /\ Genuine' /\ SaltsDiffer'
  BY <1>0, <1>1, <1>3 DEF KeeperTypeOK, Genuine, SaltsDiffer
<1>4. ASSUME NEW c \in Claims, pc[c] \in Active,
             \/ BeginClaim(req[c].address, now[c])
             \/ ClaimRefused(req[c].address, now[c])
             \/ ReleaseClaim(req[c].address, now[c])
             \/ ConsumeSalt(req[c].salt, req[c].expires_at, now[c])
             \/ SaltReplayed(req[c].salt, now[c])
             \/ ReleaseSalt(req[c].salt)
      PROVE  KeeperTypeOK' /\ Genuine' /\ SaltsDiffer'
  <2>1. /\ req[c].address \in Addresses /\ req[c].salt \in Salts
        /\ req[c].expires_at \in 0 .. U64Max
        /\ now[c] \in Nat /\ now[c] \in 0 .. U64Max
    BY <1>0, <1>1, <1>4 DEF Challenges
  <2>2. /\ RetainedSalts(now[c]) \in [Salts -> (0 .. U64Max) \cup {Absent}]
        /\ RetainedClaims(now[c])
               \in [Addresses -> (0 .. U64Max) \cup {Absent}]
    BY <1>0, <2>1, RetainedTypes
  <2>3. CASE \/ BeginClaim(req[c].address, now[c])
             \/ ClaimRefused(req[c].address, now[c])
             \/ ReleaseClaim(req[c].address, now[c])
    BY <1>1, <1>3, <2>1, <2>2, <2>3 DEF BeginClaim, ClaimRefused, ReleaseClaim
  <2>4. CASE \/ ConsumeSalt(req[c].salt, req[c].expires_at, now[c])
             \/ SaltReplayed(req[c].salt, now[c])
             \/ ReleaseSalt(req[c].salt)
    BY <1>1, <1>3, <2>1, <2>2, <2>4 DEF ConsumeSalt, SaltReplayed, ReleaseSalt
  <2>5. QED
    BY <1>4, <2>3, <2>4
<1>5. CASE KeeperRestart
  BY <1>0, <1>1, <1>5
     DEF KeeperRestart, KeeperTypeOK, Genuine, SaltsDiffer, Absent
<1>6. CASE UNCHANGED keeper
  BY <1>1, <1>3, <1>6 DEF keeper
<1>7. QED
  BY <1>2, <1>4, <1>5, <1>6, FlowCallsKeeper

-----------------------------------------------------------------------------
HandlerInv == HandlerTypes /\ Together /\ SentLate /\ Presented /\ Unanswered

\* One claim in flight moves on; the others, their futures and what is known
\* of their challenges stay.
LEMMA HandlerMove ==
    ASSUME FlowInv, NEW c \in Claims, pc[c] \in Active,
           pc' = [pc EXCEPT ![c] = pc'[c]],
           pc'[c] \in PCs \ {"idle", "reserve"},
           response' = [response EXCEPT ![c] = response'[c]],
           response'[c] \in {"none", "ok"} \cup Errors,
           pc'[c] # "done" => response'[c] = "none",
           UNCHANGED <<clock, req, now, boot, issued>>,
           stage' = [stage EXCEPT ![c] = stage'[c]],
           outcome' = [outcome EXCEPT ![c] = outcome'[c]],
           pc'[c] \in {"admit", "busy"} => stage'[c] = "out",
           pc'[c] \in {"consume", "drop_permit", "dispense"} =>
               stage'[c] = "admitted",
           pc'[c] = "reused" => stage'[c] = "dropped",
           pc'[c] = "await" =>
               /\ stage'[c] \in InDispense
               /\ stage'[c] \in Settled => outcome'[c] # "none",
           pc'[c] = "undo_salt" =>
               /\ stage'[c] = "returned"
               /\ outcome'[c] \in {"INSUFFICIENT_FUNDS", "RPC_ERROR"},
           pc'[c] \in {"done", "gone"} =>
               stage'[c] \in {"out", "returned", "dropped"},
           (dripped \cup wire)' \subseteq dripped \cup wire \cup {c},
           Sent(c)' => /\ pc'[c] \in {"await", "undo_salt", "done", "gone"}
                       /\ stage'[c] \notin Early
    PROVE  HandlerInv'
<1>0. /\ HandlerTypes /\ Together /\ SentLate /\ Presented /\ Unanswered
      /\ stage \in [Claims -> Stages] /\ outcome \in [Claims -> Outcomes]
  BY DEF FlowInv, DispenserInv, Shape
<1>1. HandlerTypes'
  BY <1>0 DEF HandlerTypes
<1>2. Together'
  BY <1>0 DEF HandlerTypes, Together
<1>3. SentLate'
  BY <1>0 DEF HandlerTypes, SentLate, Sent
<1>4. Presented'
  BY <1>0 DEF HandlerTypes, Presented, Sent
<1>5. Unanswered'
  BY <1>0 DEF HandlerTypes, Unanswered
<1>6. QED
  BY <1>1, <1>2, <1>3, <1>4, <1>5 DEF HandlerInv

LEMMA HandlerStep ==
    ASSUME FlowInv, [Next]_vars
    PROVE  HandlerInv'
<1>0. /\ KeeperTypeOK /\ Genuine
      /\ HandlerTypes /\ Together /\ SentLate /\ Presented /\ Unanswered
      /\ stage \in [Claims -> Stages] /\ outcome \in [Claims -> Outcomes]
      /\ issued \subseteq Challenges
  BY DEF FlowInv, DispenserInv, Shape, KeeperTypeOK
<1> USE <1>0
<1> USE DEF Go, Proceed, Answer, Sent, PCs, Active, Reserved, Errors, InDispense
<1>1. ASSUME NEW c \in Claims, Reserve(c) \/ Admit(c)
      PROVE  HandlerInv'
  <2>1. /\ pc[c] \in {"reserve", "admit"}
        /\ stage[c] = "out" /\ ~Sent(c) /\ response[c] = "none"
    BY <1>1 DEF Reserve, Admit, Together, SentLate, Unanswered
  <2>2. CASE Reserve(c)
    <3>1. /\ UNCHANGED <<boot, issued, stage, outcome, wire, dripped>>
          /\ Proceed(c, "admit") \/ Answer(c, "COOLDOWN")
      BY <2>2 DEF Reserve, BeginClaim, ClaimRefused, dispenser, process, node
    <3>2. QED
      BY <2>1, <3>1, HandlerMove DEF HandlerTypes
  <2>3. CASE Admit(c)
    <3>1. /\ UNCHANGED <<boot, issued, outcome, wire, dripped>>
          /\ \/ Proceed(c, "consume") /\ stage' = [stage EXCEPT ![c] = "admitted"]
             \/ Proceed(c, "busy") /\ UNCHANGED stage
      BY <2>3 DEF Admit, TryAdmit, dispenser, process, node, keeper
    <3>2. QED
      BY <2>1, <3>1, HandlerMove DEF HandlerTypes
  <2>4. QED
    BY <1>1, <2>2, <2>3
<1>2. ASSUME NEW c \in Claims, Busy(c) \/ Reused(c)
      PROVE  HandlerInv'
  <2>1. /\ pc[c] \in {"busy", "reused"}
        /\ stage[c] \in {"out", "dropped"} /\ ~Sent(c) /\ response[c] = "none"
    BY <1>2 DEF Busy, Reused, Together, SentLate, Unanswered
  <2>2. /\ UNCHANGED <<boot, issued, stage, outcome, wire, dripped>>
        /\ Answer(c, "FAUCET_BUSY") \/ Answer(c, "CHALLENGE_REUSED")
    BY <1>2 DEF Busy, Reused, ReleaseClaim, dispenser, process, node
  <2>3. QED
    BY <2>1, <2>2, HandlerMove DEF HandlerTypes
<1>3. ASSUME NEW c \in Claims, Consume(c)
      PROVE  HandlerInv'
  <2>1. /\ pc[c] = "consume"
        /\ stage[c] = "admitted" /\ ~Sent(c) /\ response[c] = "none"
    BY <1>3 DEF Consume, Together, SentLate, Unanswered
  <2>2. /\ UNCHANGED <<boot, issued, stage, outcome, wire, dripped>>
        /\ Proceed(c, "dispense") \/ Proceed(c, "drop_permit")
    BY <1>3 DEF Consume, ConsumeSalt, SaltReplayed, dispenser, process, node
  <2>3. QED
    BY <2>1, <2>2, HandlerMove DEF HandlerTypes
<1>4. ASSUME NEW c \in Claims, ReplayDropsPermit(c) \/ Dispense(c)
      PROVE  HandlerInv'
  <2>1. /\ pc[c] \in {"drop_permit", "dispense"}
        /\ ~Sent(c) /\ response[c] = "none"
    BY <1>4 DEF ReplayDropsPermit, Dispense, SentLate, Unanswered
  <2>2. /\ UNCHANGED <<boot, issued, outcome, wire, dripped>>
        /\ \/ Proceed(c, "reused") /\ stage' = [stage EXCEPT ![c] = "dropped"]
           \/ Proceed(c, "await") /\ stage' = [stage EXCEPT ![c] = "locking"]
    BY <1>4 DEF ReplayDropsPermit, DropPermit, Dispense, EnterDispense,
                keeper, process, node
  <2>3. QED
    BY <2>1, <2>2, HandlerMove DEF HandlerTypes, Settled
<1>5. ASSUME NEW c \in Claims, Dispensing(c)
      PROVE  HandlerInv'
  <2>1. /\ pc[c] = "await" /\ response[c] = "none"
        /\ stage[c] \in Settled => outcome[c] # "none"
        /\ UNCHANGED <<boot, issued, handlers>>
        /\ DispenseStep(c)
    BY <1>5 DEF Dispensing, Together, Unanswered, keeper
  <2>2. /\ stage' = [stage EXCEPT ![c] = stage'[c]]
        /\ outcome' = [outcome EXCEPT ![c] = outcome'[c]]
        /\ stage'[c] \in InDispense
        /\ stage'[c] \in Settled => outcome'[c] # "none"
        /\ (dripped \cup wire)' \subseteq dripped \cup wire \cup {c}
        /\ Sent(c)' => stage'[c] \notin Early
    <3>1. stage[c] \in Early => ~Sent(c)
      BY DEF SentLate
    <3>2. QED
      BY <2>1, <3>1, DispensingFrame
  <2>3. pc' = [pc EXCEPT ![c] = "await"] /\ response' = [response EXCEPT ![c] = "none"]
    BY <2>1 DEF handlers, HandlerTypes
  <2>4. QED
    BY <2>1, <2>2, <2>3, HandlerMove DEF handlers, HandlerTypes
<1>6. ASSUME NEW c \in Claims, Succeed(c) \/ UndoClaim(c)
      PROVE  HandlerInv'
  <2>1. /\ pc[c] = "await" /\ stage[c] = "returned" /\ response[c] = "none"
        /\ outcome[c] \in Outcomes \ {"none"}
    BY <1>6 DEF Succeed, UndoClaim, Together, Settled, Unanswered
  <2>2. /\ UNCHANGED <<boot, issued, stage, outcome, wire, dripped>>
        /\ \/ Answer(c, "ok")
           \/ Proceed(c, "undo_salt") /\ outcome[c] # "sent"
    BY <1>6 DEF Succeed, UndoClaim, ReleaseClaim, keeper, dispenser, process, node
  <2>3. QED
    BY <2>1, <2>2, HandlerMove DEF HandlerTypes, Outcomes, Early
<1>7. ASSUME NEW c \in Claims, UndoSalt(c)
      PROVE  HandlerInv'
  <2>1. /\ pc[c] = "undo_salt" /\ stage[c] = "returned"
        /\ outcome[c] \in {"INSUFFICIENT_FUNDS", "RPC_ERROR"}
    BY <1>7 DEF UndoSalt, Together
  <2>2. /\ UNCHANGED <<boot, issued, stage, outcome, wire, dripped>>
        /\ Answer(c, outcome[c])
    BY <1>7 DEF UndoSalt, ReleaseSalt, dispenser, process, node
  <2>3. /\ pc'[c] = "done" /\ response'[c] = outcome[c]
        /\ stage'[c] = "returned" /\ stage'[c] \notin Early
    BY <2>1, <2>2 DEF HandlerTypes, Early
  <2>4. /\ pc' = [pc EXCEPT ![c] = pc'[c]]
        /\ response' = [response EXCEPT ![c] = response'[c]]
        /\ stage' = [stage EXCEPT ![c] = stage'[c]]
        /\ outcome' = [outcome EXCEPT ![c] = outcome'[c]]
    BY <2>2, <2>3
  <2>5. QED
    BY <2>1, <2>2, <2>3, <2>4, HandlerMove
<1>8. ASSUME NEW c \in Claims, HangUp(c)
      PROVE  HandlerInv'
  <2>1. /\ pc[c] = "await" /\ response[c] = "none"
        /\ UNCHANGED <<boot, issued, outcome, wire, dripped>>
        /\ stage' = [stage EXCEPT ![c] = "dropped"]
        /\ Proceed(c, "gone")
    BY <1>8 DEF HangUp, Disconnect, Unanswered, keeper, node
  <2>2. /\ pc'[c] = "gone" /\ response'[c] = "none"
        /\ stage'[c] = "dropped" /\ stage'[c] \notin Early
    BY <2>1 DEF HandlerTypes, Early
  <2>3. /\ pc' = [pc EXCEPT ![c] = pc'[c]]
        /\ response' = [response EXCEPT ![c] = response'[c]]
        /\ stage' = [stage EXCEPT ![c] = stage'[c]]
        /\ outcome' = [outcome EXCEPT ![c] = outcome'[c]]
    BY <2>1, <2>2 DEF HandlerTypes
  <2>4. QED
    BY <2>1, <2>2, <2>3, HandlerMove
<1>9. ASSUME NEW c \in Claims, NodeDelivers(c)
      PROVE  HandlerInv'
  <2>1. /\ UNCHANGED <<boot, issued, stage, outcome, handlers>>
        /\ Sent(c) /\ (dripped \cup wire)' \subseteq dripped \cup wire
    BY <1>9 DEF NodeDelivers, Deliver, keeper, process
  <2>2. QED
    BY <2>1 DEF HandlerInv, HandlerTypes, Together, SentLate, Presented,
                Unanswered, handlers
<1>10. ASSUME NEW c \in Claims, NEW r \in Errors,
              pc[c] = "idle", Answer(c, r), UNCHANGED <<keeper, dispenser>>
       PROVE  HandlerInv'
  <2>1. /\ stage[c] = "out" /\ ~Sent(c)
        /\ UNCHANGED <<boot, issued, stage, outcome, wire, dripped>>
    BY <1>10 DEF Together, SentLate, keeper, dispenser, process, node
  <2>2. QED
    BY <1>10, <2>1 DEF HandlerInv, HandlerTypes, Together, SentLate, Presented,
                       Unanswered
<1>11. ASSUME NEW c \in Claims, NEW ch \in Presentable, NEW solved \in BOOLEAN,
              Receive(c, ch, solved)
       PROVE  HandlerInv'
  <2>1. CASE Authentic(ch) /\ ~Expired(ch, clock) /\ solved
    <3>1. /\ pc[c] = "idle" /\ stage[c] = "out" /\ ~Sent(c) /\ response[c] = "none"
          /\ UNCHANGED <<boot, issued, stage, outcome, wire, dripped, clock, response>>
          /\ req' = [req EXCEPT ![c] = ch]
          /\ now' = [now EXCEPT ![c] = clock]
          /\ pc' = [pc EXCEPT ![c] = "reserve"]
      BY <1>11, <2>1 DEF Receive, Together, SentLate, Unanswered,
                         keeper, dispenser, process, node
    <3>2. ch \in issued /\ ch.hmac.boot_nonce = boot
      BY <2>1, AuthenticIsIssued
    <3>3. clock <= ch.expires_at
      BY <2>1, <3>2 DEF Expired, HandlerTypes, Challenges
    <3>4. HandlerTypes'
      BY <3>1, <3>2 DEF HandlerTypes
    <3>5. Together' /\ SentLate' /\ Unanswered'
      BY <3>1 DEF HandlerTypes, Together, SentLate, Unanswered
    <3>6. Presented'
      BY <3>1, <3>2, <3>3 DEF HandlerTypes, Presented
    <3>7. QED
      BY <3>4, <3>5, <3>6 DEF HandlerInv
  <2>2. CASE ~(Authentic(ch) /\ ~Expired(ch, clock) /\ solved)
    <3>1. /\ pc[c] = "idle" /\ UNCHANGED <<keeper, dispenser>>
          /\ \/ Answer(c, "CHALLENGE_INVALID")
             \/ Answer(c, "CHALLENGE_EXPIRED")
             \/ Answer(c, "INVALID_POW")
      <4> HIDE DEF Answer
      <4>1. QED
        BY <1>11, <2>2 DEF Receive
    <3>2. QED
      <4> HIDE DEF Answer
      <4>1. QED
        BY <1>10, <3>1
  <2>3. QED
    BY <2>1, <2>2
<1>12. ASSUME NEW c \in Claims, ReceiveMalformed(c)
       PROVE  HandlerInv'
  <2> HIDE DEF Answer
  <2>1. QED
    BY <1>10, <1>12 DEF ReceiveMalformed
<1>13. CASE CrashRestart
  <2>1. /\ boot' = boot + 1
        /\ UNCHANGED <<issued, outcome, wire, dripped, clock, req, now, response>>
        /\ stage' = [c \in Claims |->
                        IF stage[c] \in {"out", "returned"}
                          THEN stage[c] ELSE "dropped"]
        /\ pc' = [c \in Claims |-> IF pc[c] \in Active THEN "gone" ELSE pc[c]]
    BY <1>13 DEF CrashRestart, Crash, KeeperRestart, node
  <2>2. HandlerTypes' /\ Together' /\ SentLate' /\ Presented' /\ Unanswered'
    BY <2>1 DEF HandlerTypes, Together, SentLate, Presented, Unanswered, Early
  <2>3. QED
    BY <2>2 DEF HandlerInv
<1>14. ASSUME clock' \in 0 .. MaxTime,
              UNCHANGED <<keeper, dispenser, pc, req, now, response>>
       PROVE  HandlerInv'
  BY <1>14 DEF HandlerInv, HandlerTypes, Together, SentLate, Presented,
               Unanswered, keeper, dispenser, process, node
<1>15. CASE Tick \/ SetBack
  BY <1>14, <1>15 DEF Tick, SetBack, HandlerTypes
<1>16. ASSUME NEW a \in Addresses, NEW s \in Salts, Challenge(a, s)
       PROVE  HandlerInv'
  <2>1. /\ issued \subseteq issued'
        /\ UNCHANGED <<boot, dispenser, handlers>>
    BY <1>16 DEF Challenge, Issue
  <2>2. QED
    BY <2>1 DEF HandlerInv, HandlerTypes, Together, SentLate, Presented,
                Unanswered, dispenser, process, node, handlers
<1>17. CASE UNCHANGED vars
  BY <1>14, <1>17 DEF vars, handlers, HandlerTypes
<1>18. QED
  <2> HIDE DEF Go, Proceed, Answer, Sent, PCs, Active, Reserved, Errors, InDispense
  <2>1. ASSUME NEW c \in Claims, Handle(c)
        PROVE  HandlerInv'
    BY <1>1, <1>2, <1>3, <1>4, <1>5, <1>6, <1>7, <2>1 DEF Handle
  <2>2. QED
    BY <1>8, <1>9, <1>11, <1>12, <1>13, <1>15, <1>16, <1>17, <2>1 DEF Next, Rest

LEMMA FlowInit == Init => FlowInv
<1> SUFFICES ASSUME Init
             PROVE  FlowInv
  OBVIOUS
<1>1. KeeperTypeOK /\ Genuine /\ SaltsDiffer
  BY DEF Init, KeeperInit, KeeperTypeOK, Genuine, SaltsDiffer, Absent
<1>2. DispenserInv
  BY DispenserInductive DEF Init
<1>3. HandlerTypes /\ Together /\ SentLate /\ Presented /\ Unanswered
  BY DEF Init, DispenserInit, HandlerTypes, Together, SentLate, Presented,
         Unanswered, Sent, PCs, Active, Reserved
<1>4. QED
  BY <1>1, <1>2, <1>3 DEF FlowInv

\* The types of all parts, the agreement of handler and future and the
\* provenance of what is in flight are invariant, whatever the faults and
\* the clock.
THEOREM FlowInvariant == Spec => []FlowInv
<1>1. FlowInv /\ [Next]_vars => FlowInv'
  <2> SUFFICES ASSUME FlowInv, [Next]_vars
               PROVE  FlowInv'
    OBVIOUS
  <2>1. DispenserInv'
    BY FlowMoves, DispenserInductive DEF FlowInv
  <2>2. QED
    BY <2>1, FlowKeeperStep, HandlerStep DEF FlowInv, HandlerInv
<1>2. QED
  BY <1>1, FlowInit, PTL DEF Spec

\* Every variable of the composed service keeps its type; what a handler in
\* flight holds is a challenge (server.rs 165-287).
THEOREM FlowTypeCorrect == Spec => []FlowTypeOK
<1>1. FlowInv => FlowTypeOK
  <2> SUFFICES ASSUME FlowInv
               PROVE  FlowTypeOK
    OBVIOUS
  <2>1. DispenserTypeOK
    BY InvariantTypes DEF FlowInv
  <2>2. \A c \in Claims : pc[c] \in Active => req[c] \in Challenges
    BY DEF FlowInv, Presented, KeeperTypeOK
  <2>3. QED
    BY <2>1, <2>2 DEF FlowInv, HandlerTypes, FlowTypeOK
<1>2. QED
  BY <1>1, FlowInvariant, PTL

\* Whatever is on its way to the node or accepted by it was earned: it goes
\* to the recipient of a challenge this service issued, presented unaltered
\* and in time.  No fault and no clock changes that (pow.rs 151-208).
THEOREM FlowDripsAreEarned == Spec => []DripsAreEarned
<1>1. FlowInv => DripsAreEarned
  BY DEF FlowInv, DripsAreEarned, Presented, Sent, DispenserInv, Shape
<1>2. QED
  BY <1>1, FlowInvariant, PTL

-----------------------------------------------------------------------------
\* What claim c leaves behind as it moves on: at most its own reservation and
\* its own salt, and those only if it is in flight still, gone or paid.
LEMMA TraceMove ==
    ASSUME FlowInv, OnlyHangUpsLeaveTraces, NEW c \in Claims, pc[c] \in Active,
           pc' = [pc EXCEPT ![c] = pc'[c]],
           response' = [response EXCEPT ![c] = response'[c]],
           UNCHANGED <<req, now, boot>>,
           \A a \in Addresses :
               \/ last_claim'[a] \in {last_claim[a], Absent}
               \/ a = req[c].address /\ last_claim'[a] = now[c],
           last_claim'[req[c].address] = now[c] =>
               \/ pc'[c] \in Reserved \cup {"gone"} \/ response'[c] = "ok"
               \/ /\ pc[c] \notin Reserved
                  /\ last_claim'[req[c].address] = last_claim[req[c].address],
           \A s \in Salts :
               consumed'[s] \in {consumed[s], Absent} \/ s = req[c].salt,
           consumed'[req[c].salt] # Absent =>
               \/ pc'[c] \in {"dispense", "await", "undo_salt", "gone"}
               \/ response'[c] = "ok"
               \/ /\ pc[c] \notin {"dispense", "await", "undo_salt"}
                  /\ consumed'[req[c].salt] = consumed[req[c].salt]
    PROVE  OnlyHangUpsLeaveTraces'
<1>0. /\ req[c].hmac.boot_nonce = boot
      /\ pc[c] \notin {"done", "gone"} /\ response[c] = "none"
      /\ \A d \in Claims \ {c} : pc'[d] = pc[d] /\ response'[d] = response[d]
  BY DEF FlowInv, HandlerTypes, Presented, Unanswered, Active, Reserved
<1>1. ASSUME NEW a \in Addresses, last_claim'[a] # Absent
      PROVE  \E d \in Claims :
                 /\ pc'[d] \in Reserved \cup {"gone"} \/ response'[d] = "ok"
                 /\ req'[d].address = a /\ now'[d] = last_claim'[a]
                 /\ req'[d].hmac.boot_nonce = boot'
  <2>1. CASE last_claim'[a] = last_claim[a]
    <3>1. PICK d \in Claims :
              /\ pc[d] \in Reserved \cup {"gone"} \/ response[d] = "ok"
              /\ req[d].address = a /\ now[d] = last_claim[a]
              /\ req[d].hmac.boot_nonce = boot
      BY <1>1, <2>1 DEF OnlyHangUpsLeaveTraces
    <3>2. pc'[d] \in Reserved \cup {"gone"} \/ response'[d] = "ok"
      BY <1>0, <2>1, <3>1
    <3>3. QED
      BY <3>1, <3>2, <2>1
  <2>2. CASE a = req[c].address /\ last_claim'[a] = now[c]
    BY <1>0, <2>1, <2>2
  <2>3. QED
    BY <1>1, <2>1, <2>2
<1>2. ASSUME NEW s \in Salts, consumed'[s] # Absent
      PROVE  \E d \in Claims :
                 /\ \/ pc'[d] \in {"dispense", "await", "undo_salt", "gone"}
                    \/ response'[d] = "ok"
                 /\ req'[d].salt = s
                 /\ req'[d].hmac.boot_nonce = boot'
  <2>1. CASE consumed'[s] = consumed[s]
    <3>1. PICK d \in Claims :
              /\ \/ pc[d] \in {"dispense", "await", "undo_salt", "gone"}
                 \/ response[d] = "ok"
              /\ req[d].salt = s
              /\ req[d].hmac.boot_nonce = boot
      BY <1>2, <2>1 DEF OnlyHangUpsLeaveTraces
    <3>2. \/ pc'[d] \in {"dispense", "await", "undo_salt", "gone"}
          \/ response'[d] = "ok"
      BY <1>0, <1>2, <2>1, <3>1
    <3>3. QED
      BY <3>1, <3>2, <2>1
  <2>2. CASE s = req[c].salt /\ consumed'[s] # consumed[s]
    BY <1>0, <1>2, <2>2
  <2>3. QED
    BY <1>2, <2>1, <2>2
<1>3. QED
  BY <1>1, <1>2 DEF OnlyHangUpsLeaveTraces

LEMMA TraceStep ==
    ASSUME FlowInv, OnlyHangUpsLeaveTraces, [Next]_vars
    PROVE  OnlyHangUpsLeaveTraces'
<1>0. /\ HandlerTypes /\ Unanswered
      /\ consumed \in [Salts -> (0 .. U64Max) \cup {Absent}]
      /\ last_claim \in [Addresses -> (0 .. U64Max) \cup {Absent}]
      /\ \A c \in Claims : now[c] \in Nat
      /\ \A c \in Claims : pc[c] \in Active =>
             req[c].address \in Addresses /\ req[c].salt \in Salts
  BY DEF FlowInv, HandlerTypes, KeeperTypeOK, Presented, Challenges
<1> USE <1>0
<1> USE DEF Active, Reserved
<1>1. ASSUME NEW c \in Claims, Reserve(c)
      PROVE  OnlyHangUpsLeaveTraces'
  <2>1. /\ pc[c] = "reserve"
        /\ UNCHANGED <<req, now, boot, consumed>>
        /\ pc' = [pc EXCEPT ![c] = pc'[c]]
        /\ response' = [response EXCEPT ![c] = response'[c]]
        /\ pc'[c] = "admit" \/ ClaimRefused(req[c].address, now[c])
    BY <1>1 DEF Reserve, BeginClaim, ClaimRefused, Proceed, Answer, Go, HandlerTypes
  <2>2. \A a \in Addresses : RetainedClaims(now[c])[a] \in {last_claim[a], Absent}
    BY DEF RetainedClaims
  <2>3. \A a \in Addresses :
            \/ last_claim'[a] \in {last_claim[a], Absent}
            \/ a = req[c].address /\ last_claim'[a] = now[c]
    BY <1>1, <2>1, <2>2, RetainedTypes DEF Reserve, BeginClaim, ClaimRefused, FlowInv
  <2>4. ClaimRefused(req[c].address, now[c]) =>
            last_claim'[req[c].address] \in {last_claim[req[c].address], Absent}
    BY <2>1, <2>2 DEF ClaimRefused
  <2>5. last_claim'[req[c].address] = now[c] =>
            \/ pc'[c] \in Reserved
            \/ last_claim'[req[c].address] = last_claim[req[c].address]
    BY <2>1, <2>4 DEF Absent
  <2>6. QED
    BY <2>1, <2>3, <2>5, TraceMove
<1>2. ASSUME NEW c \in Claims,
             Admit(c) \/ ReplayDropsPermit(c) \/ Dispense(c) \/ Dispensing(c)
      PROVE  OnlyHangUpsLeaveTraces'
  <2>1. /\ pc[c] \in {"admit", "drop_permit", "dispense", "await"}
        /\ UNCHANGED <<keeper, req, now>>
        /\ pc' = [pc EXCEPT ![c] = pc'[c]]
        /\ response' = [response EXCEPT ![c] = response'[c]]
        /\ pc'[c] \in Reserved
        /\ pc[c] \in {"dispense", "await"} => pc'[c] = "await"
    BY <1>2 DEF Admit, ReplayDropsPermit, Dispense, Dispensing, handlers,
                Proceed, Go, HandlerTypes
  <2>2. QED
    BY <2>1, TraceMove DEF keeper
<1>3. ASSUME NEW c \in Claims, Busy(c) \/ Reused(c) \/ UndoClaim(c)
      PROVE  OnlyHangUpsLeaveTraces'
  <2>1. /\ pc[c] \in {"busy", "reused", "await"}
        /\ ReleaseClaim(req[c].address, now[c])
        /\ UNCHANGED <<req, now, boot, consumed>>
        /\ pc' = [pc EXCEPT ![c] = pc'[c]]
        /\ response' = [response EXCEPT ![c] = response'[c]]
        /\ pc[c] = "await" => pc'[c] = "undo_salt"
    BY <1>3 DEF Busy, Reused, UndoClaim, ReleaseClaim, Proceed, Answer, Go,
                HandlerTypes
  <2>2. /\ \A a \in Addresses : last_claim'[a] \in {last_claim[a], Absent}
        /\ last_claim'[req[c].address] # now[c]
    BY <2>1 DEF ReleaseClaim, Absent
  <2>3. QED
    BY <2>1, <2>2, TraceMove
<1>4. ASSUME NEW c \in Claims, Consume(c)
      PROVE  OnlyHangUpsLeaveTraces'
  <2>1. /\ pc[c] = "consume" /\ pc'[c] \in Reserved
        /\ UNCHANGED <<req, now, boot, last_claim>>
        /\ pc' = [pc EXCEPT ![c] = pc'[c]]
        /\ response' = [response EXCEPT ![c] = response'[c]]
        /\ pc'[c] = "dispense" \/ SaltReplayed(req[c].salt, now[c])
    BY <1>4 DEF Consume, ConsumeSalt, SaltReplayed, Proceed, Go, HandlerTypes
  <2>2. \A s \in Salts : RetainedSalts(now[c])[s] \in {consumed[s], Absent}
    BY DEF RetainedSalts
  <2>3. \A s \in Salts : consumed'[s] \in {consumed[s], Absent} \/ s = req[c].salt
    BY <1>4, <2>1, <2>2, RetainedTypes DEF Consume, ConsumeSalt, SaltReplayed, FlowInv
  <2>4. SaltReplayed(req[c].salt, now[c]) =>
            consumed'[req[c].salt] \in {consumed[req[c].salt], Absent}
    BY <2>1, <2>2 DEF SaltReplayed
  <2>5. QED
    BY <2>1, <2>3, <2>4, TraceMove
<1>5. ASSUME NEW c \in Claims, Succeed(c) \/ HangUp(c)
      PROVE  OnlyHangUpsLeaveTraces'
  <2>1. /\ pc[c] = "await"
        /\ UNCHANGED <<keeper, req, now>>
        /\ pc' = [pc EXCEPT ![c] = pc'[c]]
        /\ response' = [response EXCEPT ![c] = response'[c]]
        /\ pc'[c] = "gone" \/ response'[c] = "ok"
    BY <1>5 DEF Succeed, HangUp, Proceed, Answer, Go, HandlerTypes
  <2>2. QED
    BY <2>1, TraceMove DEF keeper
<1>6. ASSUME NEW c \in Claims, UndoSalt(c)
      PROVE  OnlyHangUpsLeaveTraces'
  <2>1. /\ pc[c] = "undo_salt"
        /\ UNCHANGED <<req, now, boot, last_claim>>
        /\ pc' = [pc EXCEPT ![c] = pc'[c]]
        /\ response' = [response EXCEPT ![c] = response'[c]]
        /\ consumed' = [consumed EXCEPT ![req[c].salt] = Absent]
    BY <1>6 DEF UndoSalt, ReleaseSalt, Answer, Go, HandlerTypes
  <2>2. consumed'[req[c].salt] = Absent
    BY <2>1
  <2>3. \A s \in Salts : consumed'[s] \in {consumed[s], Absent} \/ s = req[c].salt
    BY <2>1
  <2>4. QED
    BY <2>1, <2>2, <2>3, TraceMove
<1>7. ASSUME UNCHANGED <<last_claim, consumed, boot, pc, response, req, now>>
      PROVE  OnlyHangUpsLeaveTraces'
  BY <1>7 DEF OnlyHangUpsLeaveTraces
<1>8. CASE \/ Tick \/ SetBack \/ UNCHANGED vars
           \/ \E c \in Claims : NodeDelivers(c)
           \/ \E a \in Addresses, s \in Salts : Challenge(a, s)
  BY <1>7, <1>8 DEF Tick, SetBack, vars, NodeDelivers, Challenge, Issue, keeper,
                    handlers
<1>9. ASSUME NEW c \in Claims, pc[c] = "idle",
             UNCHANGED <<last_claim, consumed, boot>>,
             pc' = [pc EXCEPT ![c] = pc'[c]],
             req' = [req EXCEPT ![c] = req'[c]],
             now' = [now EXCEPT ![c] = now'[c]],
             response' = [response EXCEPT ![c] = response'[c]]
      PROVE  OnlyHangUpsLeaveTraces'
  <2>1. response[c] = "none"
    BY <1>9 DEF Unanswered
  <2>2. QED
    BY <1>9, <2>1 DEF OnlyHangUpsLeaveTraces, HandlerTypes
<1>10. ASSUME NEW c \in Claims, ReceiveMalformed(c)
       PROVE  OnlyHangUpsLeaveTraces'
  BY <1>9, <1>10 DEF ReceiveMalformed, Answer, Go, keeper, HandlerTypes
<1>11. ASSUME NEW c \in Claims, NEW ch \in Presentable, NEW solved \in BOOLEAN,
              Receive(c, ch, solved)
       PROVE  OnlyHangUpsLeaveTraces'
  <2>1. /\ pc[c] = "idle"
        /\ UNCHANGED <<last_claim, consumed, boot>>
        /\ pc' = [pc EXCEPT ![c] = pc'[c]]
        /\ req' = [req EXCEPT ![c] = req'[c]]
        /\ now' = [now EXCEPT ![c] = now'[c]]
        /\ response' = [response EXCEPT ![c] = response'[c]]
    BY <1>11 DEF Receive, Answer, Go, keeper, HandlerTypes
  <2>2. QED
    BY <1>9, <2>1
<1>12. CASE CrashRestart
  BY <1>12 DEF CrashRestart, KeeperRestart, OnlyHangUpsLeaveTraces
<1>13. QED
  <2> HIDE DEF Active, Reserved
  <2>1. ASSUME NEW c \in Claims, Handle(c)
        PROVE  OnlyHangUpsLeaveTraces'
    BY <1>1, <1>2, <1>3, <1>4, <1>5, <1>6, <2>1 DEF Handle
  <2>2. QED
    BY <1>5, <1>8, <1>10, <1>11, <1>12, <2>1 DEF Next, Rest

\* Whatever the faults and the clock, a claim locks nobody out for longer
\* than it is in flight or paid, unless its own client hung up, and then
\* only until the process restarts (server.rs 208-285, pow.rs 113-120).
THEOREM FlowOnlyHangUpsLeaveTraces == Spec => []OnlyHangUpsLeaveTraces
<1>1. Init => OnlyHangUpsLeaveTraces
  BY DEF Init, KeeperInit, OnlyHangUpsLeaveTraces
<1>2. QED
  BY <1>1, TraceStep, FlowInvariant, PTL DEF Spec

\* Where no client hangs up and the process does not restart, a claim that
\* fails leaves neither a reservation nor a burnt salt behind (pow.rs
\* 239-241, 268-269; server.rs 208-285).
THEOREM FlowFailureLeavesNoTrace ==
    ASSUME Faults \cap {"disconnect", "crash"} = {}
    PROVE  Spec => []FailureLeavesNoTrace
<1> DEFINE NobodyGone == \A c \in Claims : pc[c] # "gone"
<1>1. Init => NobodyGone
  BY DEF Init
<1>2. FlowInv /\ NobodyGone /\ [Next]_vars => NobodyGone'
  <2> SUFFICES ASSUME FlowInv, NobodyGone, [Next]_vars
               PROVE  NobodyGone'
    OBVIOUS
  <2>1. pc \in [Claims -> PCs]
    BY DEF FlowInv, HandlerTypes
  <2>2. ASSUME NEW c \in Claims, Handle(c)
        PROVE  NobodyGone'
    BY <2>1, <2>2
       DEF Handle, Reserve, Admit, Busy, Consume, ReplayDropsPermit, Reused,
           Dispense, Dispensing, Succeed, UndoClaim, UndoSalt, Proceed,
           Answer, Go, handlers
  <2>3. ASSUME NEW c \in Claims, ReceiveMalformed(c) \/ NodeDelivers(c) \/ HangUp(c)
        PROVE  NobodyGone'
    BY <2>1, <2>3 DEF ReceiveMalformed, NodeDelivers, HangUp, Disconnect, Answer,
                      Go, handlers
  <2>4. ASSUME NEW c \in Claims, NEW ch \in Presentable, NEW solved \in BOOLEAN,
               Receive(c, ch, solved)
        PROVE  NobodyGone'
    BY <2>1, <2>4 DEF Receive, Answer, Go
  <2>5. QED
    BY <2>2, <2>3, <2>4 DEF Next, Challenge, CrashRestart, Crash, Tick, SetBack,
                            Rest, handlers, vars
<1>3. OnlyHangUpsLeaveTraces /\ NobodyGone => FailureLeavesNoTrace
  BY DEF OnlyHangUpsLeaveTraces, FailureLeavesNoTrace
<1>4. QED
  <2>1. Spec => []NobodyGone
    BY <1>1, <1>2, FlowInvariant, PTL DEF Spec
  <2>2. QED
    BY <1>3, <2>1, FlowOnlyHangUpsLeaveTraces, PTL

-----------------------------------------------------------------------------
\* How a claim comes to hold what it holds: a request is read once, a
\* reservation is made by Reserve, a salt burnt by Consume, and a transaction
\* sent from inside dispense only.
Progresses(d) ==
    /\ pc[d] # "idle" => req'[d] = req[d] /\ now'[d] = now[d]
    /\ Sent(d)' => Sent(d) \/ pc[d] = "await"
    /\ d \in dripped => d \in dripped'
    /\ pc'[d] \in Active =>
           \/ pc[d] \in Active /\ (pc'[d] \in Checks => pc[d] \in Checks)
           \/ pc[d] = "idle" /\ now'[d] = clock /\ clock' = clock
    /\ pc'[d] \in Reserved =>
           pc[d] \in Reserved \/ (Reserve(d) /\ pc'[d] = "admit")
    /\ pc'[d] \in {"dispense", "await", "undo_salt"} =>
           \/ pc[d] \in {"dispense", "await", "undo_salt"}
           \/ Consume(d) /\ pc'[d] = "dispense"

LEMMA Progress ==
    ASSUME FlowInv, [Next]_vars, NEW d \in Claims
    PROVE  Progresses(d)
<1>0. /\ HandlerTypes
      /\ stage \in [Claims -> Stages] /\ outcome \in [Claims -> Outcomes]
  BY DEF FlowInv, DispenserInv, Shape
<1> USE <1>0 DEF Checks, Active, Reserved, Sent, Progresses
<1>1. ASSUME NEW c \in Claims,
             \/ Reserve(c) \/ Admit(c) \/ Busy(c) \/ Consume(c)
             \/ ReplayDropsPermit(c) \/ Reused(c) \/ Dispense(c)
             \/ Succeed(c) \/ UndoClaim(c) \/ UndoSalt(c) \/ HangUp(c)
             \/ ReceiveMalformed(c)
      PROVE  Progresses(d)
  <2>1. UNCHANGED <<req, now, wire, dripped>>
    BY <1>1 DEF Reserve, Admit, TryAdmit, Busy, Consume, ReplayDropsPermit,
                DropPermit, Reused, Dispense, EnterDispense, Succeed,
                UndoClaim, UndoSalt, HangUp, Disconnect, ReceiveMalformed,
                Proceed, Answer, dispenser, node
  <2>2. /\ \A e \in Claims : e # c => pc'[e] = pc[e]
        /\ \/ pc[c] = "reserve" /\ pc'[c] = "admit" /\ Reserve(c)
           \/ pc[c] = "admit" /\ pc'[c] \in {"consume", "busy"}
           \/ pc[c] = "consume" /\ pc'[c] = "dispense" /\ Consume(c)
           \/ pc[c] = "consume" /\ pc'[c] = "drop_permit"
           \/ pc[c] = "drop_permit" /\ pc'[c] = "reused"
           \/ pc[c] = "dispense" /\ pc'[c] = "await"
           \/ pc[c] = "await" /\ pc'[c] = "undo_salt"
           \/ pc'[c] \in {"done", "gone"}
    BY <1>1 DEF Reserve, Admit, Busy, Consume, ReplayDropsPermit, Reused,
                Dispense, Succeed, UndoClaim, UndoSalt, HangUp,
                ReceiveMalformed, Proceed, Answer, Go, HandlerTypes
  <2>3. QED
    BY <2>1, <2>2
<1>2. ASSUME NEW c \in Claims, Dispensing(c)
      PROVE  Progresses(d)
  <2>1. /\ pc[c] = "await" /\ UNCHANGED handlers
        /\ dripped' = dripped /\ wire' \subseteq wire \cup {c}
    BY <1>2, DispensingFrame DEF Dispensing
  <2>2. QED
    BY <2>1 DEF handlers
<1>3. ASSUME NEW c \in Claims, NodeDelivers(c)
      PROVE  Progresses(d)
  <2>1. /\ UNCHANGED handlers /\ dripped \subseteq dripped'
        /\ (dripped \cup wire)' \subseteq dripped \cup wire
    BY <1>3 DEF NodeDelivers, Deliver
  <2>2. QED
    BY <2>1 DEF handlers
<1>4. ASSUME NEW c \in Claims, NEW ch \in Presentable, NEW solved \in BOOLEAN,
             Receive(c, ch, solved)
      PROVE  Progresses(d)
  <2>1. /\ pc[c] = "idle" /\ UNCHANGED <<wire, dripped, clock>>
        /\ \A e \in Claims :
               e # c => pc'[e] = pc[e] /\ req'[e] = req[e] /\ now'[e] = now[e]
        /\ \/ pc'[c] = "reserve" /\ now'[c] = clock
           \/ pc'[c] = "done"
    BY <1>4 DEF Receive, Answer, Go, HandlerTypes, dispenser, node
  <2>2. QED
    BY <2>1
<1>5. CASE CrashRestart
  BY <1>5 DEF CrashRestart, Crash, node
<1>6. CASE \/ Tick \/ SetBack \/ UNCHANGED vars
           \/ \E a \in Addresses, s \in Salts : Challenge(a, s)
  <2>1. UNCHANGED <<pc, req, now, wire, dripped>>
    BY <1>6 DEF Tick, SetBack, vars, Challenge, handlers, dispenser, node
  <2>2. QED
    BY <2>1
<1>7. QED
  <2> HIDE DEF Checks, Active, Reserved, Sent, Progresses
  <2>1. ASSUME NEW c \in Claims, Handle(c)
        PROVE  Progresses(d)
    BY <1>1, <1>2, <2>1 DEF Handle
  <2>2. CASE \E c \in Claims :
                ReceiveMalformed(c) \/ Handle(c) \/ NodeDelivers(c) \/ HangUp(c)
    BY <1>1, <1>3, <2>1, <2>2
  <2>3. QED
    BY <1>4, <1>5, <1>6, <2>2 DEF Next, Rest

\* A handler answers once: "ok" when dispense returned Ok, its own error
\* before dispense, or the error that dispense returned.
Tells(c) ==
    /\ response[c] = "none"
    /\ response' = [response EXCEPT ![c] = response'[c]]
    /\ UNCHANGED <<wire, dripped, req, now>>
    /\ \/ response'[c] = "ok" /\ outcome[c] = "sent"
       \/ response'[c] \in Errors /\ ~Sent(c)
       \/ /\ response'[c] = outcome[c]
          /\ outcome[c] \in {"INSUFFICIENT_FUNDS", "RPC_ERROR"}

LEMMA Telling ==
    ASSUME FlowInv, [Next]_vars
    PROVE  UNCHANGED response \/ \E c \in Claims : Tells(c)
<1>0. HandlerTypes /\ Together /\ SentLate /\ Unanswered
  BY DEF FlowInv
<1> USE DEF Tells
<1>1. ASSUME NEW c \in Claims, NEW r \in Errors,
             pc[c] \in {"idle", "reserve", "busy", "reused"},
             Answer(c, r), UNCHANGED dispenser
      PROVE  Tells(c)
  BY <1>0, <1>1 DEF SentLate, Unanswered, Answer, HandlerTypes, dispenser, node
<1>2. ASSUME NEW c \in Claims,
             Reserve(c) \/ Busy(c) \/ Reused(c) \/ ReceiveMalformed(c)
      PROVE  UNCHANGED response \/ Tells(c)
  <2>1. /\ pc[c] \in {"idle", "reserve", "busy", "reused"}
        /\ UNCHANGED dispenser
        /\ \/ UNCHANGED response
           \/ \E r \in Errors : Answer(c, r)
    BY <1>2 DEF Reserve, Busy, Reused, ReceiveMalformed, Proceed, Errors
  <2>2. QED
    BY <1>1, <2>1
<1>3. ASSUME NEW c \in Claims, NEW ch \in Presentable, NEW solved \in BOOLEAN,
             Receive(c, ch, solved)
      PROVE  UNCHANGED response \/ Tells(c)
  <2>1. /\ pc[c] = "idle" /\ UNCHANGED dispenser
        /\ \/ UNCHANGED response
           \/ \E r \in Errors : Answer(c, r)
    BY <1>3 DEF Receive, Errors
  <2>2. QED
    BY <1>1, <2>1
<1>4. ASSUME NEW c \in Claims, Succeed(c) \/ UndoSalt(c)
      PROVE  Tells(c)
  <2>1. /\ pc[c] \in {"await", "undo_salt"} /\ response[c] = "none"
        /\ UNCHANGED dispenser
        /\ \/ Answer(c, "ok") /\ outcome[c] = "sent"
           \/ Answer(c, outcome[c]) /\ pc[c] = "undo_salt"
    BY <1>0, <1>4 DEF Succeed, UndoSalt, Unanswered
  <2>2. /\ response' = [response EXCEPT ![c] = response'[c]]
        /\ UNCHANGED <<wire, dripped, req, now>>
        /\ \/ response'[c] = "ok" /\ outcome[c] = "sent"
           \/ response'[c] = outcome[c] /\ pc[c] = "undo_salt"
    BY <1>0, <2>1 DEF Answer, HandlerTypes, dispenser, node
  <2>3. QED
    BY <1>0, <2>1, <2>2 DEF Together
<1>5. ASSUME NEW c \in Claims,
             \/ Admit(c) \/ Consume(c) \/ ReplayDropsPermit(c) \/ Dispense(c)
             \/ Dispensing(c) \/ UndoClaim(c) \/ HangUp(c) \/ NodeDelivers(c)
      PROVE  UNCHANGED response
  BY <1>5 DEF Admit, Consume, ReplayDropsPermit, Dispense, Dispensing,
              UndoClaim, HangUp, NodeDelivers, Proceed, handlers
<1>6. CASE \/ Tick \/ SetBack \/ UNCHANGED vars \/ CrashRestart
           \/ \E a \in Addresses, s \in Salts : Challenge(a, s)
  BY <1>6 DEF Tick, SetBack, vars, CrashRestart, Challenge, handlers
<1>7. QED
  <2> HIDE DEF Tells
  <2>1. ASSUME NEW c \in Claims, Handle(c)
        PROVE  UNCHANGED response \/ Tells(c)
    BY <1>2, <1>4, <1>5, <2>1 DEF Handle
  <2>2. CASE \E c \in Claims :
                ReceiveMalformed(c) \/ Handle(c) \/ NodeDelivers(c) \/ HangUp(c)
    BY <1>2, <1>5, <2>1, <2>2
  <2>3. QED
    BY <1>3, <1>6, <2>2 DEF Next, Rest

LEMMA ToldStep ==
    ASSUME FlowInv, TruthInv, Told, [Next]_vars
    PROVE  Told'
<1>0. HandlerTypes /\ Unanswered
  BY DEF FlowInv
<1>1. CASE UNCHANGED response
  <2>1. \A c \in Claims : response[c] # "none" => pc[c] = "done"
    BY <1>0 DEF Unanswered
  <2>2. ASSUME NEW c \in Claims
        PROVE  /\ response'[c] = response[c]
               /\ c \in dripped => c \in dripped'
               /\ response[c] # "none" /\ ~Sent(c) => ~Sent(c)'
    BY <1>1, <2>1, Progress DEF Progresses
  <2>3. QED
    BY <2>2 DEF Told, Errors
<1>2. ASSUME NEW c \in Claims, Tells(c)
      PROVE  Told'
  BY <1>0, <1>2 DEF Tells, Told, Errors, TruthInv, Sent, HandlerTypes
<1>3. QED
  BY <1>1, <1>2, Telling

\* An error means that nothing was or will be sent, "ok" that the node took
\* the transaction, as long as no transaction goes unaccounted for (server.rs
\* 238-285).
THEOREM FlowResponseTruthful ==
    ASSUME NothingUnaccounted
    PROVE  Spec => []ResponseTruthful
<1>1. Init => TruthInv /\ Told
  BY DEF Init, DispenserInit, TruthInv, Told, Errors, Sent, Early
<1>2. FlowInv /\ TruthInv /\ Told /\ [Next]_vars => TruthInv' /\ Told'
  BY FlowMoves, TruthStep, ToldStep DEF FlowInv, DispenserInv, NothingUnaccounted
<1>3. Told => ResponseTruthful
  BY DEF Told, ResponseTruthful, Sent
<1>4. QED
  BY <1>1, <1>2, <1>3, FlowInvariant, PTL DEF Spec

-----------------------------------------------------------------------------
\* The steps that touch what the keeper remembers, and those that move the
\* clock.
LEMMA Calls ==
    ASSUME [Next]_vars
    PROVE  \/ \E c \in Claims :
                  Reserve(c) \/ Busy(c) \/ Reused(c) \/ UndoClaim(c)
           \/ \E c \in Claims : Consume(c) \/ UndoSalt(c)
           \/ CrashRestart
           \/ UNCHANGED <<last_claim, consumed, boot>>
<1>1. ASSUME NEW c \in Claims, Handle(c)
      PROVE  \/ Reserve(c) \/ Busy(c) \/ Reused(c) \/ UndoClaim(c)
             \/ Consume(c) \/ UndoSalt(c)
             \/ UNCHANGED keeper
  BY <1>1 DEF Handle, Admit, ReplayDropsPermit, Dispense, Dispensing, Succeed
<1>2. ASSUME NEW c \in Claims, ReceiveMalformed(c) \/ NodeDelivers(c) \/ HangUp(c)
      PROVE  UNCHANGED keeper
  BY <1>2 DEF ReceiveMalformed, NodeDelivers, HangUp
<1>3. ASSUME NEW c \in Claims, NEW ch \in Presentable, NEW solved \in BOOLEAN,
             Receive(c, ch, solved)
      PROVE  UNCHANGED keeper
  BY <1>3 DEF Receive
<1>4. CASE \/ Tick \/ SetBack \/ UNCHANGED vars
           \/ \E a \in Addresses, s \in Salts : Challenge(a, s)
  BY <1>4 DEF Tick, SetBack, vars, Challenge, Issue, keeper
<1>5. UNCHANGED keeper => UNCHANGED <<last_claim, consumed, boot>>
  BY DEF keeper
<1>6. CASE \E c \in Claims :
               ReceiveMalformed(c) \/ Handle(c) \/ NodeDelivers(c) \/ HangUp(c)
  BY <1>1, <1>2, <1>5, <1>6
<1>7. QED
  BY <1>3, <1>4, <1>5, <1>6 DEF Next, Rest

LEMMA Clock ==
    ASSUME HandlerTypes, [Next]_vars, MaxSetBack = 0
    PROVE  /\ clock' >= clock
           /\ Tick \/ clock' = clock
<1>1. ~SetBack
  BY DEF SetBack, HandlerTypes
<1>2. ASSUME NEW c \in Claims, Handle(c)
      PROVE  clock' = clock
  BY <1>2
     DEF Handle, Reserve, Admit, Busy, Consume, ReplayDropsPermit, Reused,
         Dispense, Dispensing, Succeed, UndoClaim, UndoSalt, Proceed, Answer,
         handlers
<1>3. ASSUME NEW c \in Claims, ReceiveMalformed(c) \/ NodeDelivers(c) \/ HangUp(c)
      PROVE  clock' = clock
  BY <1>3 DEF ReceiveMalformed, NodeDelivers, HangUp, Proceed, Answer, handlers
<1>4. ASSUME NEW c \in Claims, NEW ch \in Presentable, NEW solved \in BOOLEAN,
             Receive(c, ch, solved)
      PROVE  clock' = clock
  BY <1>4 DEF Receive, Answer
<1>5. ASSUME \/ UNCHANGED vars \/ CrashRestart
             \/ \E a \in Addresses, s \in Salts : Challenge(a, s)
      PROVE  clock' = clock
  BY <1>5 DEF vars, CrashRestart, Challenge, handlers
<1>6. Tick \/ clock' = clock
  BY <1>1, <1>2, <1>3, <1>4, <1>5 DEF Next, Rest
<1>7. QED
  BY <1>6 DEF Tick, HandlerTypes

-----------------------------------------------------------------------------
LEMMA InTimeStep ==
    ASSUME FlowInv, InTime, [Next]_vars, MaxSetBack = 0
    PROVE  InTime'
<1> SUFFICES ASSUME NEW c \in Claims, pc'[c] \in Active
             PROVE  now'[c] <= clock' /\ clock' <= now'[c] + MaxClaimSecs
  BY DEF InTime
<1>0. HandlerTypes /\ clock \in Nat /\ now[c] \in Nat
  BY DEF FlowInv, HandlerTypes
<1>1. CASE pc[c] = "idle" /\ now'[c] = clock /\ clock' = clock
  BY <1>0, <1>1
<1>2. CASE pc[c] \in Active
  <2>1. /\ now'[c] = now[c]
        /\ now[c] <= clock /\ clock <= now[c] + MaxClaimSecs
    BY <1>2, Progress DEF Progresses, InTime, Active, Reserved
  <2>2. CASE clock' = clock
    BY <2>1, <2>2
  <2>3. CASE Tick
    BY <1>0, <1>2, <2>1, <2>3 DEF Tick
  <2>4. QED
    BY <1>0, <2>2, <2>3, Clock
<1>3. QED
  BY <1>1, <1>2, Progress DEF Progresses

\* A reservation stands for as long as its claim is in flight, because a
\* claim is answered before a cooldown has passed.
LEMMA LockStep ==
    ASSUME FlowInv, LockInv, [Next]_vars,
           Cooldown > 0, MaxSetBack = 0, MaxClaimSecs < Cooldown
    PROVE  Locked' /\ OneClaimPerAddress'
<1>0. /\ KeeperTypeOK /\ HandlerTypes /\ InTime /\ Locked /\ OneClaimPerAddress
      /\ clock \in Nat /\ clock < U64Max
      /\ \A c \in Claims : now[c] \in Nat /\ now[c] < U64Max
      /\ \A c \in Claims : pc[c] \in Active => req[c].address \in Addresses
      /\ \A c \in Claims : pc[c] \in Reserved => pc[c] # "idle"
      /\ \A c \in Claims : pc[c] \in Reserved => pc[c] \in Active
  BY DEF FlowInv, LockInv, HandlerTypes, KeeperTypeOK, Presented, Challenges,
         Active, Reserved
<1>1. ASSUME \A d \in Claims :
                 pc'[d] \in Reserved =>
                     /\ pc[d] \in Reserved
                     /\ last_claim'[req[d].address] = last_claim[req[d].address]
      PROVE  Locked' /\ OneClaimPerAddress'
  <2>1. \A d \in Claims : pc'[d] \in Reserved => req'[d] = req[d] /\ now'[d] = now[d]
    BY <1>0, <1>1, Progress DEF Progresses
  <2>2. QED
    BY <1>0, <1>1, <2>1 DEF Locked, OneClaimPerAddress
<1>2. ASSUME NEW c \in Claims, NEW d \in Claims,
             pc[c] = "reserve", pc[d] \in Reserved
      PROVE  /\ RetainedClaims(now[c])[req[d].address] = now[d]
             /\ req[d].address = req[c].address =>
                    CoolingDown(req[c].address, now[c])
  <2>1. /\ last_claim[req[d].address] = now[d]
        /\ now[d] <= clock /\ clock <= now[d] + MaxClaimSecs
        /\ now[c] <= clock
    BY <1>0, <1>2 DEF Locked, InTime, Active
  <2>2. ~(last_claim[req[d].address] + Cooldown <= now[c])
    BY <1>0, <2>1
  <2>3. last_claim[req[d].address] # Absent /\ req[d].address \in Addresses
    BY <1>0, <1>2, <2>1 DEF Absent
  <2>4. QED
    BY <1>0, <2>1, <2>2, <2>3, Retention
<1>3. ASSUME NEW c \in Claims, Reserve(c)
      PROVE  Locked' /\ OneClaimPerAddress'
  <2>1. /\ pc[c] = "reserve" /\ pc[c] \notin Reserved /\ c \in Claims
        /\ UNCHANGED <<req, now>>
        /\ \A d \in Claims : d # c => pc'[d] = pc[d]
        /\ req[c].address \in Addresses
    BY <1>0, <1>3 DEF Reserve, Proceed, Answer, Go, HandlerTypes, Active, Reserved
  <2>2. CASE BeginClaim(req[c].address, now[c])
    <3>1. last_claim' = [RetainedClaims(now[c]) EXCEPT ![req[c].address] = now[c]]
      BY <2>2 DEF BeginClaim
    <3>2. RetainedClaims(now[c]) \in [Addresses -> (0 .. U64Max) \cup {Absent}]
      BY <1>0, RetainedTypes
    <3>3. \A d \in Claims : d # c /\ pc'[d] \in Reserved =>
              /\ pc[d] \in Reserved
              /\ req[d].address # req[c].address
              /\ last_claim'[req[d].address] = now[d]
      BY <1>0, <1>2, <2>1, <2>2, <3>1, <3>2 DEF BeginClaim
    <3>4. last_claim'[req[c].address] = now[c]
      BY <2>1, <3>1, <3>2
    <3>5. Locked'
      BY <2>1, <3>3, <3>4 DEF Locked
    <3>6. OneClaimPerAddress'
      BY <1>0, <2>1, <3>3 DEF OneClaimPerAddress
    <3>7. QED
      BY <3>5, <3>6
  <2>3. CASE ClaimRefused(req[c].address, now[c])
    <3>1. last_claim' = RetainedClaims(now[c]) /\ CoolingDown(req[c].address, now[c])
      BY <2>3 DEF ClaimRefused
    <3>2. pc'[c] \notin Reserved
      BY <1>0, <1>3, <3>1
         DEF Reserve, BeginClaim, Answer, Go, HandlerTypes, Reserved
    <3>3. QED
      BY <1>0, <1>1, <1>2, <2>1, <3>1, <3>2 DEF Locked
  <2>4. QED
    BY <1>3, <2>2, <2>3 DEF Reserve
<1>4. ASSUME NEW c \in Claims, Busy(c) \/ Reused(c) \/ UndoClaim(c)
      PROVE  Locked' /\ OneClaimPerAddress'
  <2>1. /\ pc[c] \in Reserved /\ pc'[c] \notin Reserved
        /\ \A d \in Claims : d # c => pc'[d] = pc[d]
        /\ ReleaseClaim(req[c].address, now[c])
    BY <1>0, <1>4 DEF Busy, Reused, UndoClaim, Proceed, Answer, Go,
                      HandlerTypes, Reserved
  <2>2. \A a \in Addresses :
            a # req[c].address => last_claim'[a] = last_claim[a]
    BY <2>1 DEF ReleaseClaim
  <2>3. QED
    BY <1>0, <1>1, <2>1, <2>2 DEF OneClaimPerAddress
<1>5. CASE CrashRestart
  <2>1. \A d \in Claims : pc'[d] \notin Reserved
    BY <1>5 DEF CrashRestart, Active, Reserved
  <2>2. QED
    BY <1>1, <2>1
<1>6. ASSUME UNCHANGED last_claim, ~\E c \in Claims : Reserve(c)
      PROVE  Locked' /\ OneClaimPerAddress'
  BY <1>1, <1>6, Progress DEF Progresses
<1>7. ASSUME NEW c \in Claims, Consume(c) \/ UndoSalt(c)
      PROVE  Locked' /\ OneClaimPerAddress'
  <2>1. UNCHANGED last_claim
    BY <1>7 DEF Consume, UndoSalt, ConsumeSalt, SaltReplayed, ReleaseSalt
  <2>2. QED
    BY <1>3, <1>6, <2>1
<1>8. QED
  BY <1>3, <1>4, <1>5, <1>6, <1>7, Calls

\* While one claim for an address is between its reservation and its outcome
\* no other is, if claims are answered before the cooldown is over and the
\* clock is not set back (pow.rs 263-269, server.rs 208-211).
THEOREM FlowOneClaimPerAddress ==
    ASSUME MaxSetBack = 0, MaxClaimSecs < Cooldown
    PROVE  Spec => []OneClaimPerAddress
<1>1. Init => LockInv
  BY DEF Init, LockInv, InTime, Locked, OneClaimPerAddress, Active, Reserved
<1>2. FlowInv /\ LockInv /\ [Next]_vars => LockInv'
  BY InTimeStep, LockStep DEF LockInv
<1>3. LockInv => OneClaimPerAddress
  BY DEF LockInv
<1>4. QED
  BY <1>1, <1>2, <1>3, FlowInvariant, PTL DEF Spec

-----------------------------------------------------------------------------
\* The ledger: every drip is a new one.

\* The checks of a handler run in the second in which its request arrived.
ChecksInOneSecond == MaxSyncSecs = 0 /\ MaxSetBack = 0

OnTime == \A c \in Claims : pc[c] \in Checks => now[c] = clock

\* Or they run no more than MaxSyncSecs after it.
SoonEnough ==
    \A c \in Claims :
        pc[c] \in Checks => now[c] <= clock /\ clock <= now[c] + MaxSyncSecs

\* A salt that was consumed and not given back is remembered until its
\* challenge has expired or belongs to an earlier process.
Holding(c) == pc[c] \in {"dispense", "await", "undo_salt"} \/ Sent(c)

SaltsHeld ==
    \A c \in Claims :
        Holding(c) =>
            \/ req[c].hmac.boot_nonce < boot
            \/ clock > req[c].expires_at
            \/ consumed[req[c].salt] = req[c].expires_at

OneHolder ==
    \A c, d \in Claims :
        c # d /\ Holding(c) /\ Holding(d) => req[c].salt # req[d].salt

\* A reservation that was not given back is the recorded one or a full
\* cooldown old, and so those of one address are a cooldown apart, but for what
\* the checks took.
Kept(c) == pc[c] \in Reserved \/ Sent(c)

KeptRecorded ==
    \A c \in Claims :
        Kept(c) /\ req[c].hmac.boot_nonce = boot =>
            /\ now[c] <= clock
            /\ \/ last_claim[req[c].address] = now[c]
               \/ now[c] + Cooldown <= clock

KeptSpaced ==
    \A c, d \in Claims :
        (/\ c # d /\ Kept(c) /\ Kept(d)
         /\ req[c].address = req[d].address
         /\ req[c].hmac.boot_nonce = req[d].hmac.boot_nonce)
            => \/ now[c] - now[d] >= Cooldown - MaxSyncSecs
               \/ now[d] - now[c] >= Cooldown - MaxSyncSecs

KeptInv == Cooldown > MaxSyncSecs => KeptRecorded /\ KeptSpaced

LedgerInv ==
    /\ TruthInv /\ Told
    /\ OnTime /\ SaltsHeld /\ OneHolder /\ KeptInv

-----------------------------------------------------------------------------
LEMMA OnTimeStep ==
    ASSUME FlowInv, OnTime, ChecksInOneSecond, [Next]_vars
    PROVE  OnTime'
<1> SUFFICES ASSUME NEW c \in Claims, pc'[c] \in Checks
             PROVE  now'[c] = clock'
  BY DEF OnTime
<1>0. HandlerTypes
  BY DEF FlowInv
<1>1. CASE pc[c] = "idle" /\ now'[c] = clock /\ clock' = clock
  BY <1>1
<1>2. CASE pc[c] \in Checks
  <2>1. now'[c] = now[c] /\ now[c] = clock
    BY <1>2, Progress DEF Progresses, OnTime, Checks
  <2>2. ~Tick
    BY <1>0, <1>2, <2>1 DEF Tick, ChecksInOneSecond, HandlerTypes
  <2>3. QED
    BY <1>0, <2>1, <2>2, Clock DEF ChecksInOneSecond
<1>3. QED
  BY <1>1, <1>2, Progress DEF Progresses, Checks, Active, Reserved

LEMMA SoonEnoughStep ==
    ASSUME FlowInv, SoonEnough, MaxSetBack = 0, [Next]_vars
    PROVE  SoonEnough'
<1> SUFFICES ASSUME NEW c \in Claims, pc'[c] \in Checks
             PROVE  now'[c] <= clock' /\ clock' <= now'[c] + MaxSyncSecs
  BY DEF SoonEnough
<1>0. HandlerTypes /\ clock \in Nat /\ now[c] \in Nat /\ MaxSyncSecs \in Nat
  BY FlowAssumption DEF FlowInv, HandlerTypes, FlowAssumption
<1>1. CASE pc[c] = "idle" /\ now'[c] = clock /\ clock' = clock
  BY <1>0, <1>1
<1>2. CASE pc[c] \in Checks
  <2>1. /\ now'[c] = now[c]
        /\ now[c] <= clock /\ clock <= now[c] + MaxSyncSecs
    BY <1>2, Progress DEF Progresses, SoonEnough, Checks
  <2>2. CASE clock' = clock
    BY <2>1, <2>2
  <2>3. CASE Tick
    BY <1>0, <1>2, <2>1, <2>3 DEF Tick
  <2>4. QED
    BY <1>0, <2>2, <2>3, Clock
<1>3. QED
  BY <1>1, <1>2, Progress DEF Progresses, Checks, Active, Reserved

\* What a claim that holds a salt holds: one that this service issued, once.
LEMMA Held ==
    ASSUME FlowInv, NEW c \in Claims, Holding(c) \/ Kept(c)
    PROVE  /\ pc[c] # "idle" /\ req[c] \in issued
           /\ req[c].salt \in Salts /\ req[c].address \in Addresses
           /\ req[c].expires_at \in 0 .. U64Max
           /\ req[c].hmac.boot_nonce \in Nat
           /\ req[c].hmac.boot_nonce <= boot
<1>1. /\ pc[c] # "idle" /\ req[c] \in issued
  BY DEF FlowInv, Holding, Kept, SentLate, Presented, Active, Reserved
<1>2. QED
  BY <1>1 DEF FlowInv, KeeperTypeOK, Genuine, Challenges, Macs

LEMMA HoldingMoves ==
    ASSUME FlowInv, [Next]_vars, NEW c \in Claims, Holding(c)'
    PROVE  /\ req'[c] = req[c]
           /\ Holding(c) \/ (Consume(c) /\ pc'[c] = "dispense")
<1>1. Holding(c) \/ (Consume(c) /\ pc'[c] = "dispense")
  BY Progress DEF Progresses, Holding
<1>2. pc[c] # "idle"
  BY <1>1, Held DEF Consume
<1>3. QED
  BY <1>1, <1>2, Progress DEF Progresses

LEMMA KeptMoves ==
    ASSUME FlowInv, [Next]_vars, NEW c \in Claims, Kept(c)'
    PROVE  /\ req'[c] = req[c] /\ now'[c] = now[c]
           /\ Kept(c) \/ (Reserve(c) /\ pc'[c] = "admit")
<1>1. Kept(c) \/ (Reserve(c) /\ pc'[c] = "admit")
  BY Progress DEF Progresses, Kept, Reserved
<1>2. pc[c] # "idle"
  BY <1>1, Held DEF Reserve
<1>3. QED
  BY <1>1, <1>2, Progress DEF Progresses

\* A claim whose outcome is an error has sent nothing.
LEMMA ErrorsUnsent ==
    ASSUME FlowInv, TruthInv, NEW c \in Claims,
           \/ pc[c] \in {"busy", "reused", "undo_salt"}
           \/ pc[c] = "await" /\ stage[c] = "returned" /\ outcome[c] # "sent"
    PROVE  ~Sent(c)
<1>1. CASE pc[c] \in {"busy", "reused"}
  BY <1>1 DEF FlowInv, SentLate
<1>2. CASE pc[c] \notin {"busy", "reused"}
  <2>1. outcome[c] \in {"INSUFFICIENT_FUNDS", "RPC_ERROR"}
    BY <1>2 DEF FlowInv, DispenserInv, Shape, Together, Settled, Outcomes
  <2>2. QED
    BY <2>1 DEF TruthInv, Sent
<1>3. QED
  BY <1>1, <1>2

LEMMA SaltsStep ==
    ASSUME FlowInv, TruthInv, OnTime, SaltsHeld, OneHolder,
           ChecksInOneSecond, [Next]_vars
    PROVE  SaltsHeld' /\ OneHolder'
<1>0. /\ KeeperTypeOK /\ HandlerTypes /\ SaltsDiffer
      /\ clock \in Nat /\ clock' \in Nat /\ clock' >= clock /\ boot \in Nat
      /\ \A c \in Claims : now[c] \in Nat
  <2>1. HandlerTypes'
    BY HandlerStep DEF HandlerInv
  <2>2. QED
    BY <2>1, Clock DEF FlowInv, HandlerTypes, KeeperTypeOK, ChecksInOneSecond
\* Who holds a salt held it before, and what is remembered of it stays.
<1>1. ASSUME \A d \in Claims :
                 Holding(d)' =>
                     /\ Holding(d)
                     /\ \/ req[d].hmac.boot_nonce < boot'
                        \/ clock' > req[d].expires_at
                        \/ consumed'[req[d].salt] = req[d].expires_at
      PROVE  SaltsHeld' /\ OneHolder'
  <2>1. \A d \in Claims : Holding(d)' => req'[d] = req[d]
    BY HoldingMoves
  <2>2. SaltsHeld'
    BY <1>1, <2>1 DEF SaltsHeld
  <2>3. OneHolder'
    BY <1>1, <2>1 DEF OneHolder
  <2>4. QED
    BY <2>2, <2>3
<1>2. ASSUME UNCHANGED <<consumed, boot>>, ~\E c \in Claims : Consume(c)
      PROVE  SaltsHeld' /\ OneHolder'
  <2>1. ASSUME NEW d \in Claims, Holding(d)'
        PROVE  /\ Holding(d)
               /\ \/ req[d].hmac.boot_nonce < boot'
                  \/ clock' > req[d].expires_at
                  \/ consumed'[req[d].salt] = req[d].expires_at
    <3>1. Holding(d)
      BY <1>2, <2>1, HoldingMoves
    <3>2. req[d].expires_at \in Nat
      BY <3>1, Held
    <3>3. QED
      BY <1>0, <1>2, <3>1, <3>2 DEF SaltsHeld
  <2>2. QED
    BY <1>1, <2>1
\* Pruning at time t forgets only what has expired by then.
<1>3. ASSUME NEW c \in Claims, Consume(c)
      PROVE  SaltsHeld' /\ OneHolder'
  <2>1. /\ pc[c] = "consume" /\ now[c] = clock /\ clock' = clock
        /\ ~Holding(c) /\ UNCHANGED <<boot, wire, dripped>>
        /\ req[c] \in issued /\ clock <= req[c].expires_at
        /\ req[c].hmac.boot_nonce = boot
    BY <1>3 DEF Consume, ConsumeSalt, SaltReplayed, Proceed, FlowInv, Presented,
                SentLate, OnTime, Checks, Active, Reserved, Holding, dispenser,
                node
  <2>2. RetainedSalts(clock) \in [Salts -> (0 .. U64Max) \cup {Absent}]
    BY <1>0, RetainedTypes
  <2>3. ASSUME NEW d \in Claims, Holding(d)
        PROVE  \/ req[d].hmac.boot_nonce < boot
               \/ clock > req[d].expires_at
               \/ RetainedSalts(clock)[req[d].salt] = req[d].expires_at
    <3>1. req[d].salt \in Salts /\ req[d].expires_at \in Nat
      BY <2>3, Held
    <3>2. QED
      BY <1>0, <2>3, <3>1 DEF SaltsHeld, RetainedSalts
  <2>4. CASE ConsumeSalt(req[c].salt, req[c].expires_at, now[c])
    <3>1. /\ consumed' = [RetainedSalts(clock) EXCEPT
                             ![req[c].salt] = req[c].expires_at]
          /\ RetainedSalts(clock)[req[c].salt] = Absent
      BY <2>1, <2>4 DEF ConsumeSalt
    <3>2. req[c].salt \in Salts /\ req[c].expires_at \in Nat
      BY <1>0, <2>1 DEF KeeperTypeOK, Challenges
    <3>3. ASSUME NEW d \in Claims, Holding(d)
          PROVE  req[d].salt # req[c].salt
      <4>1. SUFFICES ASSUME req[d].salt = req[c].salt
                     PROVE  FALSE
        OBVIOUS
      <4>2. req[d] = req[c]
        BY <1>0, <2>1, <3>3, <4>1, Held DEF SaltsDiffer
      <4>3. RetainedSalts(clock)[req[c].salt] = req[c].expires_at
        BY <1>0, <2>1, <2>3, <3>2, <3>3, <4>2
      <4>4. QED
        BY <3>1, <3>2, <4>3 DEF Absent
    <3>4. consumed'[req[c].salt] = req[c].expires_at
      BY <2>2, <3>1, <3>2
    <3>5. ASSUME NEW d \in Claims, d # c, Holding(d)'
          PROVE  /\ Holding(d) /\ req'[d] = req[d]
                 /\ \/ req[d].hmac.boot_nonce < boot
                    \/ clock > req[d].expires_at
                    \/ consumed'[req[d].salt] = req[d].expires_at
      <4>1. pc'[d] = pc[d]
        BY <1>0, <1>3, <3>5 DEF Consume, Proceed, Go, HandlerTypes
      <4>2. Holding(d) /\ req'[d] = req[d]
        BY <2>1, <3>5, <4>1, HoldingMoves DEF Consume, Holding, Sent
      <4>3. QED
        BY <2>2, <2>3, <3>1, <3>2, <3>3, <4>2, Held
    <3>6. req'[c] = req[c]
      BY <2>1, Progress DEF Progresses
    <3>7. SaltsHeld'
      BY <2>1, <3>4, <3>5, <3>6 DEF SaltsHeld
    <3>8. OneHolder'
      BY <3>3, <3>5, <3>6 DEF OneHolder
    <3>9. QED
      BY <3>7, <3>8
  <2>5. CASE SaltReplayed(req[c].salt, now[c])
    <3>1. /\ RetainedSalts(clock)[req[c].salt] # Absent
          /\ consumed' = RetainedSalts(clock)
      BY <2>1, <2>5 DEF SaltReplayed
    <3>2. pc'[c] = "drop_permit"
      BY <1>0, <1>3, <2>1, <3>1
         DEF Consume, ConsumeSalt, Proceed, Go, HandlerTypes
    <3>3. ~Holding(c)'
      BY <2>1, <3>2 DEF Holding, Sent
    <3>4. \A d \in Claims : Holding(d)' => Holding(d)
      <4>1. ASSUME NEW d \in Claims, Holding(d)', d # c
            PROVE  Holding(d)
        <5>1. pc'[d] = pc[d]
          BY <1>0, <1>3, <4>1 DEF Consume, Proceed, Go, HandlerTypes
        <5>2. QED
          BY <2>1, <4>1, <5>1 DEF Holding, Sent
      <4>2. QED
        BY <3>3, <4>1
    <3>5. QED
      BY <1>1, <2>1, <2>3, <3>1, <3>4
  <2>6. QED
    BY <1>3, <2>4, <2>5 DEF Consume
<1>4. ASSUME NEW c \in Claims, UndoSalt(c)
      PROVE  SaltsHeld' /\ OneHolder'
  <2>1. /\ pc[c] = "undo_salt" /\ pc'[c] = "done" /\ clock' = clock
        /\ UNCHANGED <<boot, wire, dripped>>
        /\ consumed' = [consumed EXCEPT ![req[c].salt] = Absent]
    BY <1>0, <1>4 DEF UndoSalt, ReleaseSalt, Answer, Go, HandlerTypes,
                      dispenser, node
  <2>2. Holding(c) /\ ~Holding(c)'
    BY <2>1, ErrorsUnsent DEF Holding, Sent
  <2>3. ASSUME NEW d \in Claims, Holding(d)'
        PROVE  /\ Holding(d)
               /\ \/ req[d].hmac.boot_nonce < boot'
                  \/ clock' > req[d].expires_at
                  \/ consumed'[req[d].salt] = req[d].expires_at
    <3>1. d # c /\ Holding(d)
      <4>1. d # c
        BY <2>2, <2>3
      <4>2. pc'[d] = pc[d]
        BY <1>0, <1>4, <4>1 DEF UndoSalt, Answer, Go, HandlerTypes
      <4>3. QED
        BY <2>1, <2>3, <4>1, <4>2 DEF Holding, Sent
    <3>2. consumed'[req[d].salt] = consumed[req[d].salt]
      BY <1>0, <2>1, <2>2, <3>1, Held DEF OneHolder, KeeperTypeOK
    <3>3. QED
      BY <2>1, <3>1, <3>2 DEF SaltsHeld
  <2>4. QED
    BY <1>1, <2>3
<1>5. CASE CrashRestart
  <2>1. /\ boot' = boot + 1 /\ UNCHANGED <<wire, dripped>>
        /\ \A d \in Claims : pc'[d] \notin {"dispense", "await", "undo_salt"}
    BY <1>5 DEF CrashRestart, KeeperRestart, Crash, node, Active, Reserved
  <2>2. ASSUME NEW d \in Claims, Holding(d)'
        PROVE  Holding(d) /\ req[d].hmac.boot_nonce < boot'
    <3>1. Holding(d)
      BY <2>1, <2>2 DEF Holding, Sent
    <3>2. QED
      BY <1>0, <2>1, <3>1, Held
  <2>3. QED
    BY <1>1, <2>2
<1>6. ASSUME NEW c \in Claims, Reserve(c) \/ Busy(c) \/ Reused(c) \/ UndoClaim(c)
      PROVE  UNCHANGED <<consumed, boot>>
  BY <1>6 DEF Reserve, Busy, Reused, UndoClaim, BeginClaim, ClaimRefused,
              ReleaseClaim
<1>7. QED
  BY <1>2, <1>3, <1>4, <1>5, <1>6, Calls

LEMMA KeptStep ==
    ASSUME FlowInv, TruthInv, SoonEnough, KeptRecorded, KeptSpaced,
           Cooldown > MaxSyncSecs, MaxSetBack = 0, [Next]_vars
    PROVE  KeptRecorded' /\ KeptSpaced'
<1>0. /\ KeeperTypeOK /\ HandlerTypes
      /\ clock \in Nat /\ clock' \in Nat /\ clock' >= clock
      /\ clock < U64Max /\ boot \in Nat
      /\ Cooldown \in Nat /\ MaxSyncSecs \in Nat
      /\ \A c \in Claims : now[c] \in Nat
  <2>1. HandlerTypes'
    BY HandlerStep DEF HandlerInv
  <2>2. QED
    BY <2>1, Clock, KeeperAssumption, FlowAssumption
       DEF FlowInv, HandlerTypes, KeeperTypeOK, KeeperAssumption, FlowAssumption
\* Who keeps a reservation kept it before, and it stays recorded or is old.
<1>1. ASSUME \A d \in Claims :
                 Kept(d)' =>
                     /\ Kept(d)
                     /\ req[d].hmac.boot_nonce = boot' =>
                            /\ now[d] <= clock'
                            /\ \/ last_claim'[req[d].address] = now[d]
                               \/ now[d] + Cooldown <= clock'
      PROVE  KeptRecorded' /\ KeptSpaced'
  <2>1. \A d \in Claims : Kept(d)' => req'[d] = req[d] /\ now'[d] = now[d]
    BY KeptMoves
  <2>2. KeptRecorded'
    BY <1>1, <2>1 DEF KeptRecorded
  <2>3. KeptSpaced'
    BY <1>1, <2>1 DEF KeptSpaced
  <2>4. QED
    BY <2>2, <2>3
<1>2. ASSUME UNCHANGED <<last_claim, boot>>, ~\E c \in Claims : Reserve(c)
      PROVE  KeptRecorded' /\ KeptSpaced'
  <2>1. ASSUME NEW d \in Claims, Kept(d)'
        PROVE  /\ Kept(d)
               /\ req[d].hmac.boot_nonce = boot' =>
                      /\ now[d] <= clock'
                      /\ \/ last_claim'[req[d].address] = now[d]
                         \/ now[d] + Cooldown <= clock'
    <3>1. Kept(d)
      BY <1>2, <2>1, KeptMoves
    <3>2. QED
      BY <1>0, <1>2, <3>1 DEF KeptRecorded
  <2>2. QED
    BY <1>1, <2>1
<1>3. ASSUME NEW c \in Claims, Reserve(c)
      PROVE  KeptRecorded' /\ KeptSpaced'
  <2>1. /\ pc[c] = "reserve" /\ clock' = clock
        /\ now[c] <= clock /\ clock <= now[c] + MaxSyncSecs
        /\ ~Kept(c) /\ UNCHANGED <<boot, wire, dripped>>
        /\ req[c].hmac.boot_nonce = boot /\ req[c].address \in Addresses
    BY <1>3 DEF Reserve, BeginClaim, ClaimRefused, Proceed, Answer, FlowInv,
                Presented, SentLate, KeeperTypeOK, Challenges, SoonEnough, Checks,
                Active, Reserved, Kept, dispenser, node
  <2>0. now[c] \in Nat /\ now[c] < U64Max /\ Cooldown # 0
    BY <1>0, <2>1, KeeperAssumption DEF KeeperAssumption
  <2>2. \A d \in Claims : d # c => (Kept(d)' => Kept(d))
    <3>1. \A d \in Claims : d # c => pc'[d] = pc[d]
      BY <1>0, <1>3 DEF Reserve, Proceed, Answer, Go, HandlerTypes
    <3>2. QED
      BY <2>1, <3>1 DEF Kept, Sent
  <2>3. ASSUME NEW d \in Claims, Kept(d), req[d].hmac.boot_nonce = boot
        PROVE  /\ now[d] <= clock
               /\ \/ RetainedClaims(now[c])[req[d].address] = now[d]
                  \/ now[d] + Cooldown <= clock
               /\ \/ req[d].address # req[c].address
                  \/ CoolingDown(req[c].address, now[c])
                  \/ now[d] + Cooldown <= clock
    <3>1. now[d] <= clock
      BY <2>3 DEF KeptRecorded
    <3>2. CASE now[d] + Cooldown <= clock
      BY <3>1, <3>2
    <3>3. CASE last_claim[req[d].address] = now[d]
      <4>1. req[d].address \in Addresses /\ last_claim[req[d].address] # Absent
        BY <1>0, <2>3, <3>3, Held DEF Absent
      <4>2. /\ \/ RetainedClaims(now[c])[req[d].address] = last_claim[req[d].address]
               \/ last_claim[req[d].address] + Cooldown < now[c]
            /\ ~CoolingDown(req[d].address, now[c]) =>
                   last_claim[req[d].address] + Cooldown <= now[c]
        BY <1>0, <2>0, <4>1, Retention
      <4>3. QED
        BY <1>0, <2>0, <2>1, <2>3, <3>1, <3>3, <4>2
    <3>4. QED
      BY <2>3, <3>2, <3>3 DEF KeptRecorded
  <2>4. RetainedClaims(now[c]) \in [Addresses -> (0 .. U64Max) \cup {Absent}]
    BY <1>0, RetainedTypes
  <2>5. CASE BeginClaim(req[c].address, now[c])
    <3>1. /\ ~CoolingDown(req[c].address, now[c])
          /\ last_claim' = [RetainedClaims(now[c]) EXCEPT ![req[c].address] = now[c]]
      BY <2>1, <2>5 DEF BeginClaim
    <3>2. ASSUME NEW d \in Claims, d # c, Kept(d)'
          PROVE  /\ Kept(d)
                 /\ req'[d] = req[d] /\ now'[d] = now[d]
                 /\ req[d].hmac.boot_nonce = boot =>
                        /\ now[d] <= clock
                        /\ \/ last_claim'[req[d].address] = now[d]
                           \/ now[d] + Cooldown <= clock
                        /\ \/ req[d].address # req[c].address
                           \/ now[d] + Cooldown <= clock
      <4>1. Kept(d) /\ req'[d] = req[d] /\ now'[d] = now[d]
        BY <2>2, <3>2, KeptMoves
      <4>2. req[d].address \in Addresses
        BY <4>1, Held
      <4>3. QED
        BY <2>3, <2>4, <3>1, <4>1, <4>2
    <3>3. /\ last_claim'[req[c].address] = now[c]
          /\ req'[c] = req[c] /\ now'[c] = now[c]
      BY <2>1, <2>4, <3>1, Progress DEF Progresses
    <3>4. KeptRecorded'
      BY <1>0, <2>1, <3>2, <3>3 DEF KeptRecorded
    <3>5. KeptSpaced'
      <4>1. SUFFICES ASSUME NEW d \in Claims, NEW e \in Claims, d # e,
                            Kept(d)', Kept(e)',
                            req'[d].address = req'[e].address,
                            req'[d].hmac.boot_nonce = req'[e].hmac.boot_nonce
                     PROVE  \/ now'[d] - now'[e] >= Cooldown - MaxSyncSecs
                            \/ now'[e] - now'[d] >= Cooldown - MaxSyncSecs
        BY DEF KeptSpaced
      <4>2. CASE d # c /\ e # c
        BY <3>2, <4>1, <4>2 DEF KeptSpaced
      <4>3. CASE d = c
        BY <1>0, <2>1, <3>2, <3>3, <4>1, <4>3
      <4>4. CASE e = c
        BY <1>0, <2>1, <3>2, <3>3, <4>1, <4>4
      <4>5. QED
        BY <4>2, <4>3, <4>4
    <3>6. QED
      BY <3>4, <3>5
  <2>6. CASE ClaimRefused(req[c].address, now[c])
    <3>1. /\ CoolingDown(req[c].address, now[c])
          /\ last_claim' = RetainedClaims(now[c])
      BY <2>1, <2>6 DEF ClaimRefused
    <3>2. pc'[c] = "done"
      BY <1>0, <1>3, <2>1, <3>1 DEF Reserve, BeginClaim, Answer, Go, HandlerTypes
    <3>3. ~Kept(c)'
      BY <2>1, <3>2 DEF Kept, Sent, Reserved
    <3>4. QED
      BY <1>1, <2>1, <2>2, <2>3, <3>1, <3>3
  <2>7. QED
    BY <1>3, <2>5, <2>6 DEF Reserve
<1>4. ASSUME NEW c \in Claims, Busy(c) \/ Reused(c) \/ UndoClaim(c)
      PROVE  KeptRecorded' /\ KeptSpaced'
  <2>1. /\ pc[c] \in Reserved /\ pc'[c] \notin Reserved /\ clock' = clock
        /\ ReleaseClaim(req[c].address, now[c])
        /\ UNCHANGED <<boot, wire, dripped>>
        /\ \A d \in Claims : d # c => pc'[d] = pc[d]
        /\ req[c].hmac.boot_nonce = boot
    BY <1>0, <1>4 DEF Busy, Reused, UndoClaim, ReleaseClaim, Proceed, Answer,
                      Go, HandlerTypes, FlowInv, Presented, Active, Reserved,
                      dispenser, node
  <2>2. Kept(c) /\ ~Kept(c)'
    <3>1. ~Sent(c)
      BY <1>4, ErrorsUnsent DEF Busy, Reused, UndoClaim
    <3>2. QED
      BY <2>1, <3>1 DEF Kept, Sent
  <2>3. ASSUME NEW d \in Claims, Kept(d)'
        PROVE  /\ Kept(d)
               /\ req[d].hmac.boot_nonce = boot' =>
                      /\ now[d] <= clock'
                      /\ \/ last_claim'[req[d].address] = now[d]
                         \/ now[d] + Cooldown <= clock'
    <3>1. d # c /\ Kept(d)
      BY <2>1, <2>2, <2>3 DEF Kept, Sent
    <3>2. ASSUME req[d].hmac.boot_nonce = boot,
                 last_claim[req[d].address] = now[d]
          PROVE  last_claim'[req[d].address] = now[d]
      <4>1. req[d].address # req[c].address \/ now[d] # now[c]
        BY <1>0, <2>1, <2>2, <3>1, <3>2 DEF KeptSpaced
      <4>2. req[d].address \in Addresses
        BY <3>1, Held
      <4>3. QED
        BY <1>0, <2>1, <3>2, <4>1, <4>2 DEF ReleaseClaim, KeeperTypeOK
    <3>3. QED
      BY <2>1, <3>1, <3>2 DEF KeptRecorded
  <2>4. QED
    BY <1>1, <2>3
<1>5. CASE CrashRestart
  <2>1. /\ boot' = boot + 1 /\ UNCHANGED <<wire, dripped>>
        /\ \A d \in Claims : pc'[d] \notin Reserved
    BY <1>5 DEF CrashRestart, KeeperRestart, Crash, node, Active, Reserved
  <2>2. ASSUME NEW d \in Claims, Kept(d)'
        PROVE  Kept(d) /\ req[d].hmac.boot_nonce # boot'
    <3>1. Kept(d)
      BY <2>1, <2>2 DEF Kept, Sent
    <3>2. QED
      BY <1>0, <2>1, <3>1, Held
  <2>3. QED
    BY <1>1, <2>2
<1>6. ASSUME NEW c \in Claims, Consume(c) \/ UndoSalt(c)
      PROVE  UNCHANGED <<last_claim, boot>> /\ ~\E d \in Claims : Reserve(d)
  <2>1. UNCHANGED <<last_claim, boot>>
    BY <1>6 DEF Consume, UndoSalt, ConsumeSalt, SaltReplayed, ReleaseSalt
  <2>2. /\ pc[c] \in {"consume", "undo_salt"} /\ pc'[c] # pc[c]
        /\ \A d \in Claims : d # c => pc'[d] = pc[d]
    BY <1>0, <1>6 DEF Consume, UndoSalt, Proceed, Answer, Go, HandlerTypes
  <2>3. ASSUME NEW d \in Claims, Reserve(d)
        PROVE  FALSE
    BY <1>0, <2>2, <2>3 DEF Reserve, Proceed, Answer, Go, HandlerTypes
  <2>4. QED
    BY <2>1, <2>3
<1>7. QED
  BY <1>2, <1>3, <1>4, <1>5, <1>6, Calls

-----------------------------------------------------------------------------
LEMMA LedgerInit == Init => LedgerInv
  BY DEF Init, DispenserInit, LedgerInv, TruthInv, Told, OnTime, SaltsHeld,
         OneHolder, KeptInv, KeptRecorded, KeptSpaced, Holding, Kept, Sent,
         Checks, Reserved, Errors, Early

LEMMA LedgerStep ==
    ASSUME NothingUnaccounted, ChecksInOneSecond,
           FlowInv, LedgerInv, [Next]_vars
    PROVE  LedgerInv'
<1>1. TruthInv' /\ Told'
  BY TruthStep, FlowMoves, ToldStep
     DEF NothingUnaccounted, FlowInv, DispenserInv, LedgerInv
<1>2. OnTime' /\ SaltsHeld' /\ OneHolder'
  BY OnTimeStep, SaltsStep DEF LedgerInv
<1>3. SoonEnough
  BY DEF LedgerInv, OnTime, SoonEnough, ChecksInOneSecond, FlowInv, HandlerTypes
<1>4. KeptInv'
  BY <1>3, KeptStep DEF LedgerInv, KeptInv, ChecksInOneSecond
<1>5. QED
  BY <1>1, <1>2, <1>4 DEF LedgerInv

THEOREM LedgerInvariant ==
    ASSUME NothingUnaccounted, ChecksInOneSecond
    PROVE  Spec => []LedgerInv
  BY LedgerInit, LedgerStep, FlowInvariant, PTL DEF Spec

\* One solved challenge never buys two drips, over retries after an error,
\* concurrent redemptions, pruning of expired salts and restarts, if nothing
\* goes unaccounted for and the checks of a handler are done in the second in
\* which its request arrived (pow.rs 16-20, 226-242; server.rs 226-285).
THEOREM FlowOneDripPerChallenge ==
    ASSUME NothingUnaccounted, ChecksInOneSecond
    PROVE  Spec => []OneDripPerChallenge
<1>1. FlowInv /\ LedgerInv => OneDripPerChallenge
  BY DEF FlowInv, DispenserInv, Shape, LedgerInv, OneHolder, Holding, Sent,
         OneDripPerChallenge
<1>2. QED
  BY <1>1, FlowInvariant, LedgerInvariant, PTL

\* The spacing needs less than the ledger: that checks end in time.
SpacingInv == TruthInv /\ Told /\ SoonEnough /\ KeptInv

\* Drips to one address by one process answer requests a cooldown apart, but for
\* the seconds that a handler's checks took, however stale its time, however late
\* its claim is answered and whatever others prune or take back in between, if
\* nothing goes unaccounted for and the clock is not set back (server.rs 179-212,
\* pow.rs 270-300).
THEOREM FlowSpacedUpToDelay ==
    ASSUME NothingUnaccounted, MaxSetBack = 0
    PROVE  Spec => []SpacedUpToDelay
<1>1. Init => SpacingInv
  BY LedgerInit DEF LedgerInv, SpacingInv, SoonEnough, Init, Checks
<1>2. FlowInv /\ SpacingInv /\ [Next]_vars => SpacingInv'
  <2> SUFFICES ASSUME FlowInv, SpacingInv, [Next]_vars
               PROVE  SpacingInv'
    OBVIOUS
  <2>1. TruthInv' /\ Told'
    BY TruthStep, FlowMoves, ToldStep
       DEF NothingUnaccounted, FlowInv, DispenserInv, SpacingInv
  <2>2. SoonEnough'
    BY SoonEnoughStep DEF SpacingInv
  <2>3. KeptInv'
    BY KeptStep DEF SpacingInv, KeptInv
  <2>4. QED
    BY <2>1, <2>2, <2>3 DEF SpacingInv
<1>3. FlowInv /\ SpacingInv => SpacedUpToDelay
  <2> SUFFICES ASSUME FlowInv, SpacingInv
               PROVE  SpacedUpToDelay
    OBVIOUS
  <2>1. /\ dripped \subseteq Claims /\ \A c \in Claims : now[c] \in Nat
        /\ Cooldown \in Nat /\ MaxSyncSecs \in Nat
    BY KeeperAssumption, FlowAssumption
       DEF FlowInv, DispenserInv, Shape, HandlerTypes, KeeperAssumption, FlowAssumption
  <2>2. CASE Cooldown <= MaxSyncSecs
    BY <2>1, <2>2 DEF SpacedUpToDelay
  <2>3. CASE Cooldown > MaxSyncSecs
    BY <2>1, <2>3 DEF SpacingInv, KeptInv, KeptSpaced, Kept, Sent, SpacedUpToDelay
  <2>4. QED
    BY <2>1, <2>2, <2>3
<1>4. QED
  BY <1>1, <1>2, <1>3, FlowInvariant, PTL DEF Spec

\* They answer requests a full cooldown apart when the checks of a handler are done
\* in the second in which its request arrived (config.rs 80-83, pow.rs 263-300).
THEOREM FlowCooldownSpacing ==
    ASSUME NothingUnaccounted, ChecksInOneSecond
    PROVE  Spec => []CooldownSpacing
<1>1. MaxSetBack = 0 /\ MaxSyncSecs = 0 /\ Cooldown \in Nat
  BY KeeperAssumption DEF ChecksInOneSecond, KeeperAssumption
<1>2. SpacedUpToDelay => CooldownSpacing
  BY <1>1 DEF SpacedUpToDelay, CooldownSpacing
<1>3. QED
  BY <1>1, <1>2, FlowSpacedUpToDelay, PTL

-----------------------------------------------------------------------------
\* The node accepts one transaction at a time, and nothing else happens then.
LEMMA Entering ==
    ASSUME FlowInv, [Next]_vars
    PROVE  \/ dripped' = dripped
           \/ \E c \in wire : dripped' = dripped \cup {c} /\ UNCHANGED handlers
<1>0. stage \in [Claims -> Stages] /\ outcome \in [Claims -> Outcomes]
  BY DEF FlowInv, DispenserInv, Shape
<1>1. ASSUME NEW c \in Claims, Dispensing(c)
      PROVE  dripped' = dripped
  BY <1>0, <1>1, DispensingFrame DEF Dispensing
<1>2. ASSUME NEW c \in Claims, Handle(c), ~Dispensing(c)
      PROVE  dripped' = dripped
  BY <1>2
     DEF Handle, Reserve, Admit, TryAdmit, Busy, Consume, ReplayDropsPermit,
         DropPermit, Reused, Dispense, EnterDispense, Succeed, UndoClaim,
         UndoSalt, dispenser, node
<1>3. ASSUME NEW c \in Claims, ReceiveMalformed(c) \/ HangUp(c)
      PROVE  dripped' = dripped
  BY <1>3 DEF ReceiveMalformed, HangUp, Disconnect, dispenser, node
<1>4. ASSUME NEW c \in Claims, NodeDelivers(c)
      PROVE  \/ dripped' = dripped
             \/ c \in wire /\ dripped' = dripped \cup {c} /\ UNCHANGED handlers
  BY <1>4 DEF NodeDelivers, Deliver
<1>5. ASSUME NEW c \in Claims, NEW ch \in Presentable, NEW solved \in BOOLEAN,
             Receive(c, ch, solved)
      PROVE  dripped' = dripped
  BY <1>5 DEF Receive, dispenser, node
<1>6. ASSUME \/ CrashRestart \/ Tick \/ SetBack \/ UNCHANGED vars
             \/ \E a \in Addresses, s \in Salts : Challenge(a, s)
      PROVE  dripped' = dripped
  BY <1>6 DEF CrashRestart, Crash, Tick, SetBack, vars, Challenge, dispenser, node
<1>7. CASE \E c \in Claims :
               ReceiveMalformed(c) \/ Handle(c) \/ NodeDelivers(c) \/ HangUp(c)
  BY <1>1, <1>2, <1>3, <1>4, <1>7
<1>8. QED
  BY <1>5, <1>6, <1>7 DEF Next, Rest

Entry(c) ==
    [claim |-> c, salt |-> req[c].salt, address |-> req[c].address,
     arrival |-> now[c], process |-> req[c].hmac.boot_nonce]

Entries == {Entry(c) : c \in dripped}

Answers ==
    [c \in Claims |->
        IF response[c] \in {"none", "ok"} THEN response[c] ELSE "error"]

\* The node's acceptance of a transaction enters a new drip in the ledger.
LEMMA EnterStep ==
    ASSUME ChecksInOneSecond, FlowInv, LedgerInv, NEW c \in wire,
           dripped' = dripped \cup {c}, UNCHANGED handlers
    PROVE  Ledger!Enter \/ UNCHANGED <<Entries, Answers>>
<1>0. /\ c \in Claims /\ dripped \subseteq Claims
      /\ response \in [Claims -> {"none", "ok"} \cup Errors]
      /\ \A d \in Claims : now[d] \in Nat
      /\ UNCHANGED <<req, now, response>>
  BY DEF FlowInv, DispenserInv, Shape, HandlerTypes, handlers
<1>1. c \notin dripped /\ response[c] = "none"
  BY <1>0 DEF LedgerInv, TruthInv, Told, Sent
<1>2. Entries' = Entries \cup {Entry(c)} /\ Answers' = Answers
  BY <1>0 DEF Entries, Entry, Answers
<1>3. Answers[c] = "none"
  BY <1>0, <1>1 DEF Answers
<1>4. \A e \in Entries : e.claim # c
  BY <1>1 DEF Entries, Entry
<1>5. ASSUME NEW d \in dripped
      PROVE  /\ Entry(c).salt # Entry(d).salt
             /\ Ledger!Apart(Entry(c), Entry(d))
  <2>1. d \in Claims /\ c # d /\ Sent(c) /\ Sent(d)
    BY <1>0, <1>1 DEF Sent
  <2>2. req[c].salt # req[d].salt
    BY <1>0, <2>1 DEF LedgerInv, OneHolder, Holding
  <2>3. \/ req[c].address # req[d].address
        \/ req[c].hmac.boot_nonce # req[d].hmac.boot_nonce
        \/ now[c] - now[d] >= Cooldown
        \/ now[d] - now[c] >= Cooldown
    <3>1. CASE Cooldown = 0
      BY <1>0, <2>1, <3>1
    <3>2. CASE Cooldown > 0
      BY <1>0, <2>1, <3>2, KeeperAssumption
         DEF LedgerInv, KeptInv, KeptSpaced, Kept, ChecksInOneSecond, KeeperAssumption
    <3>3. QED
      BY <3>1, <3>2
  <2>4. QED
    BY <2>2, <2>3 DEF Entry, Ledger!Apart
<1>6. \A e \in Entries : Entry(c).salt # e.salt /\ Ledger!Apart(Entry(c), e)
  BY <1>5 DEF Entries
<1>7. /\ Entry(c) \in Entries' /\ Entry(c).claim = c
      /\ Answers[Entry(c).claim] = "none"
  BY <1>2, <1>3 DEF Entry
<1>8. QED
  BY <1>2, <1>4, <1>6, <1>7
     DEF Ledger!Enter, Ledger!Entered, Entries, Entry, Answers

\* An answer is told once and agrees with the ledger.
LEMMA TellStep ==
    ASSUME FlowInv, LedgerInv, LedgerInv', NEW c \in Claims, Tells(c)
    PROVE  Ledger!Tell(c)
<1>0. /\ response \in [Claims -> {"none", "ok"} \cup Errors]
      /\ response' = [response EXCEPT ![c] = response'[c]]
      /\ response[c] = "none" /\ UNCHANGED <<dripped, wire, req, now>>
  BY DEF FlowInv, HandlerTypes, Tells
<1>1. \/ response'[c] = "ok" /\ c \in dripped
      \/ response'[c] \in Errors /\ c \notin dripped
  BY <1>0 DEF Tells, LedgerInv, TruthInv, Sent, Errors
<1>2. Entries' = Entries
  BY <1>0 DEF Entries, Entry
<1>3. (\E e \in Entries : e.claim = c) <=> c \in dripped
  <2>1. \A d : Entry(d).claim = d
    BY DEF Entry
  <2>2. c \in dripped => Entry(c) \in Entries
    BY DEF Entries
  <2>3. \A e \in Entries : e.claim \in dripped
    BY <2>1 DEF Entries
  <2>4. QED
    BY <2>1, <2>2, <2>3
<1>4. Answers[c] = "none"
  BY <1>0 DEF Answers
<1>5. Answers' = [Answers EXCEPT
                     ![c] = IF \E e \in Entries : e.claim = c
                              THEN "ok" ELSE "error"]
  BY <1>0, <1>1, <1>3 DEF Answers, Errors
<1>6. QED
  BY <1>2, <1>4, <1>5 DEF Ledger!Tell, Ledger!Entered, Entries, Entry, Answers

\* The service implements the ledger of drips, on the same two conditions:
\* an accepted transaction enters a drip for a fresh challenge, a cooldown
\* apart from its address's others, a response tells a claim once what the
\* ledger says, and every other step leaves both alone (server.rs 165-287).
THEOREM FlowImplementsLedger ==
    ASSUME NothingUnaccounted, ChecksInOneSecond
    PROVE  Spec => LedgerPromise
<1>1. Init => Ledger!Init
  BY DEF Init, DispenserInit, Ledger!Init
<1>2. FlowInv /\ LedgerInv /\ LedgerInv' /\ [Next]_vars
          => Ledger!Next \/ UNCHANGED <<Entries, Answers>>
  <2> SUFFICES ASSUME FlowInv, LedgerInv, LedgerInv', [Next]_vars
               PROVE  Ledger!Next \/ UNCHANGED <<Entries, Answers>>
    OBVIOUS
  <2>1. ASSUME NEW c \in wire, dripped' = dripped \cup {c}, UNCHANGED handlers
        PROVE  Ledger!Next \/ UNCHANGED <<Entries, Answers>>
    BY <2>1, EnterStep DEF Ledger!Next
  <2>2. ASSUME NEW c \in Claims, Tells(c)
        PROVE  Ledger!Next
    BY <2>2, TellStep DEF Ledger!Next
  <2>3. CASE dripped' = dripped /\ UNCHANGED response
    <3>1. \A c \in dripped : req'[c] = req[c] /\ now'[c] = now[c]
      BY Progress DEF Progresses, FlowInv, SentLate, Sent, DispenserInv, Shape
    <3>2. Entries' = Entries
      BY <2>3, <3>1 DEF Entries, Entry
    <3>3. QED
      BY <2>3, <3>2 DEF Answers
  <2>4. QED
    BY <2>1, <2>2, <2>3, Entering, Telling
<1>3. QED
  BY <1>1, <1>2, FlowInvariant, LedgerInvariant, PTL
     DEF Spec, LedgerPromise, Ledger!Spec, Entries, Answers, Entry
=============================================================================
