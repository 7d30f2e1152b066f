-------------------------- MODULE DispenserProofs --------------------------
(***************************************************************************)
(* What dispense promises, for every set of claims, every capacity, price  *)
(* and balance.  Each theorem names the faults it tolerates.               *)
(***************************************************************************)
EXTENDS DispenserCalls, DispenserLemmas

USE DispenserAssumption DEF DispenserAssumption

LEMMA NextMoves == [Next]_dispenser => Moves
  BY DEF Next, AllOver, Moves

LEMMA Inductive == Spec => []DispenserInv
<1>1. DispenserInv /\ [Next]_dispenser => DispenserInv'
  BY DispenserInductive, NextMoves
<1>2. QED
  BY <1>1, DispenserInductive, PTL DEF Spec

\* Permits are neither lost nor made, whatever fails, is dropped or crashes:
\* each is free or held by one claim inside (faucet.rs 119-138).
THEOREM DispenserPermitAccounting == Spec => []PermitAccounting
<1>1. DispenserInv => PermitAccounting
  BY DEF DispenserInv, PermitInv
<1>2. QED
  BY <1>1, Inductive, PTL

\* Every variable keeps its type: no permit beyond the capacity, no queue
\* entry that is not a claim, no balance below zero or above the funds.
THEOREM DispenserTypeCorrect == Spec => []DispenserTypeOK
  BY Inductive, InvariantTypes, PTL

\* One claim at a time is between lock() and the drop of its guard, whoever
\* hangs up while queueing or working (faucet.rs 123, 129-148).
THEOREM DispenserOneAtATime ==
    Spec => [](\A c, d \in Claims :
                   stage[c] \in Critical /\ stage[d] \in Critical => c = d)
<1>1. DispenserInv => \A c, d \in Claims :
                  stage[c] \in Critical /\ stage[d] \in Critical => c = d
  BY CriticalHolds DEF DispenserInv, HoldsLock
<1>2. QED
  BY <1>1, Inductive, PTL DEF Spec

-----------------------------------------------------------------------------
\* While no sending future is dropped and no request outlives its error,
\* what is on the wire belongs to the claim at work, which read the node's
\* nonce and balance under the lock it still holds.
FreshInv ==
    \A c \in Claims :
        /\ c \in wire => /\ stage[c] = "sending" /\ answer[c] = "none"
                         /\ tx[c].nonce = pending
        /\ c \in wire \/ stage[c] = "nonce" => Cost(c) <= balance
        /\ stage[c] \in Early => answer[c] = "none"
        /\ c \in dripped => answer[c] = "hash"

\* The saturating comparison is exact for every balance below the largest
\* u128.
LEMMA NeededIsCost ==
    ASSUME NEW p \in Nat, NEW b \in 0 .. Funds, b >= Needed(p)
    PROVE  Drip + p * GasLimit <= b
<1> DEFINE gas == p * GasLimit
<1>1. gas \in Nat
  OBVIOUS
<1>2. b >= Cap(Drip + Cap(gas))
  BY DEF Needed
<1> HIDE DEF gas
<1>3. Drip + gas <= b
  BY <1>1, <1>2 DEF Cap
<1>4. QED
  BY <1>3 DEF gas

LEMMA FreshStep ==
    ASSUME Faults \subseteq {"drop", "reply_lost"},
           Shape, QueueInv, FreshInv, [Next]_dispenser
    PROVE  FreshInv'
<1>0. /\ stage \in [Claims -> Stages]
      /\ tx \in [Claims -> [nonce : Nat, gas_price : Nat]]
      /\ answer \in [Claims -> {"none", "hash", "error"}]
      /\ pending \in Nat /\ balance \in 0 .. Funds
  BY DEF Shape
<1> USE <1>0 DEF FreshInv, Early, Stages
<1>1. ASSUME NEW c \in Claims, TryAdmit(c) \/ DropPermit(c)
      PROVE  FreshInv'
  BY <1>1 DEF TryAdmit, DropPermit, node, Cost
<1>2. ASSUME NEW c \in Claims, EnterDispense(c)
      PROVE  FreshInv'
  BY <1>2 DEF EnterDispense, node, Cost
<1>3. ASSUME NEW c \in Claims, SetGasPrice(c)
      PROVE  FreshInv'
  <2>1. /\ stage[c] = "locking" /\ stage' = [stage EXCEPT ![c] = "balance"]
        /\ \A d \in Claims : d # c => tx'[d] = tx[d]
        /\ UNCHANGED <<wire, answer, dripped, pending, balance>>
    BY <1>3 DEF SetGasPrice, node
  <2>2. QED
    BY <2>1 DEF Cost
<1>4. ASSUME NEW c \in Claims, ReadFails(c) \/ Underfunded(c) \/ Rejected(c)
      PROVE  FreshInv'
  BY <1>4 DEF ReadFails, Underfunded, Rejected, Fail, node, Cost
<1>5. ASSUME NEW c \in Claims, Funded(c)
      PROVE  FreshInv'
  <2>1. Cost(c) <= balance
    BY <1>5, NeededIsCost DEF Funded, Cost
  <2>2. QED
    BY <1>5, <2>1 DEF Funded, node, Cost
<1>6. ASSUME NEW c \in Claims, SignAndSend(c)
      PROVE  FreshInv'
  <2>1. /\ stage[c] = "nonce" /\ stage' = [stage EXCEPT ![c] = "sending"]
        /\ wire' = wire \cup {c}
        /\ tx'[c].nonce = pending /\ tx'[c].gas_price = tx[c].gas_price
        /\ \A d \in Claims : d # c => tx'[d] = tx[d]
        /\ UNCHANGED <<answer, dripped, pending, balance>>
    BY <1>6 DEF SignAndSend
  <2>2. QED
    BY <2>1 DEF Cost
<1>7. ASSUME NEW c \in Claims, Submitted(c)
      PROVE  FreshInv'
  BY <1>7 DEF Submitted, node, Cost
<1>8. ASSUME NEW c \in Claims, SendFails(c)
      PROVE  FreshInv'
  <2>1. \/ wire' = wire \ {c}
        \/ answer[c] = "hash" /\ wire' = wire
    BY <1>8 DEF SendFails
  <2>2. QED
    BY <1>8, <2>1 DEF SendFails, Fail, Cost
<1>9. ASSUME NEW c \in Claims, Unlock(c) \/ Leave(c) \/ AwaitReceipt(c)
      PROVE  FreshInv'
  <2>1. /\ stage[c] \in {"unlock", "leave", "receipt"}
        /\ stage'[c] \in {"leave", "receipt", "returned"}
        /\ \A d \in Claims : d # c => stage'[d] = stage[d]
        /\ UNCHANGED <<tx, wire, answer, dripped, pending, balance>>
    BY <1>9 DEF Unlock, Leave, AwaitReceipt, node
  <2>2. QED
    BY <2>1 DEF Cost
<1>10. ASSUME NEW c \in Claims, Deliver(c)
       PROVE  FreshInv'
  <2>1. stage[c] = "sending" /\ c \notin wire' /\ c \in wire
    BY <1>10 DEF Deliver
  <2>2. \A d \in Claims : stage[d] \in Critical => d = c
    BY <2>1, CriticalHolds DEF HoldsLock, Critical
  <2>3. \A d \in Claims : d # c => d \notin wire /\ stage[d] # "nonce"
    BY <2>2 DEF Critical
  <2>4. /\ wire' = wire \ {c} /\ UNCHANGED <<stage, tx>>
        /\ dripped' \subseteq dripped \cup {c}
        /\ c \in dripped' => answer'[c] = "hash"
        /\ \A d \in Claims : d # c => answer'[d] = answer[d]
    BY <1>10, <2>1 DEF Deliver, process
  <2>5. QED
    BY <2>1, <2>3, <2>4
<1>11. ASSUME NEW c \in Claims, Disconnect(c)
       PROVE  FreshInv'
  BY <1>11 DEF Disconnect
<1>12. CASE UNCHANGED dispenser
  BY <1>12 DEF dispenser, process, node, Cost
<1>13. CASE Crash
  BY <1>13 DEF Crash
<1>14. QED
  BY <1>1, <1>2, <1>3, <1>4, <1>5, <1>6, <1>7, <1>8, <1>9, <1>10, <1>11,
     <1>12, <1>13 DEF Next, DispenseStep, AllOver

\* Nonces stay sequential and drips affordable, as long as no client hangs
\* up while its transaction is sent (faucet.rs 123-128, 150-151, 167-173).
THEOREM DispenserFreshNonce ==
    ASSUME Faults \subseteq {"drop", "reply_lost"}
    PROVE  Spec => []FreshNonce
<1>1. DispenserInit => FreshInv
  BY DEF DispenserInit, FreshInv, Early, Cost
<1>2. DispenserInv /\ FreshInv /\ [Next]_dispenser => FreshInv'
  BY FreshStep DEF DispenserInv
<1>3. FreshInv /\ DispenserInv => FreshNonce
  BY DEF FreshInv, FreshNonce, DispenserInv, Shape
<1>4. QED
  BY <1>1, <1>2, <1>3, Inductive, PTL DEF Spec

-----------------------------------------------------------------------------
\* A success means the node took the drip and an error that it never will,
\* even when clients hang up and the process restarts, as long as a sending
\* that fails means a request that never arrives (server.rs 268-285).
THEOREM DispenserOutcomeTruthful ==
    ASSUME Faults \subseteq {"drop", "disconnect", "crash"}
    PROVE  Spec => []OutcomeTruthful
<1>1. DispenserInit => TruthInv
  BY DEF DispenserInit, TruthInv, Early
<1>2. DispenserInv /\ TruthInv /\ [Next]_dispenser => TruthInv'
  BY TruthStep, NextMoves DEF DispenserInv
<1>3. TruthInv => OutcomeTruthful
  BY DEF TruthInv, OutcomeTruthful
<1>4. QED
  BY <1>1, <1>2, <1>3, Inductive, PTL DEF Spec

-----------------------------------------------------------------------------
Working == {c \in Claims : stage[c] \in Critical}

LEMMA WorkingAlone ==
    ASSUME QueueInv, NEW c \in Claims, HoldsLock(c)
    PROVE  Working \subseteq {c}
  BY CriticalHolds DEF Working, HoldsLock

\* Each step of the queue is a step of SingleFlight or changes nothing of
\* what SingleFlight shows.
LEMMA PromiseStep ==
    ASSUME Faults \subseteq {"drop", "reply_lost"},
           DispenserInv, FreshInv, [Next]_dispenser
    PROVE  [Promise!Next]_(Promise!sfvars)
<1>0. /\ stage \in [Claims -> Stages]
      /\ permits \in Nat /\ dripped \subseteq Claims
      /\ IsFiniteSet(Holders) /\ permits + Cardinality(Holders) = Capacity
      /\ QueueInv
  BY DEF DispenserInv, Shape, PermitInv, PermitAccounting
<1> USE <1>0 DEF Stages, Promise!Next, Promise!sfvars
<1>1. ASSUME NEW c \in Claims, TryAdmit(c)
      PROVE  Promise!Enter(c)
  <2>1. /\ stage[c] = "out" /\ stage' = [stage EXCEPT ![c] = "admitted"]
        /\ dripped' = dripped /\ permits > 0
    BY <1>1 DEF TryAdmit, node
  <2>2. c \notin Holders \cup dripped
    BY <2>1 DEF Holders, Inside, FreshInv, Early
  <2>3. Cardinality(Holders) < Capacity
    BY <2>1, FS_CardinalityType
  <2>4. Holders' = Holders \cup {c} /\ Working' = Working
    BY <2>1 DEF Holders, Working, Inside, Critical
  <2>5. QED
    BY <2>1, <2>2, <2>3, <2>4
       DEF Promise!Enter, Working, Promise!Cardinality, Cardinality
<1>2. ASSUME NEW c \in Claims, DropPermit(c) \/ Leave(c)
      PROVE  Promise!Exit(c)
  <2>1. /\ stage[c] \in Inside \ Critical /\ stage'[c] \notin Inside
        /\ \A d \in Claims : d # c => stage'[d] = stage[d]
        /\ dripped' = dripped
    BY <1>2 DEF DropPermit, Leave, Inside, Critical, node
  <2>2. c \in Holders \ Working
    BY <2>1 DEF Holders, Working
  <2>3. Holders' = Holders \ {c} /\ Working' = Working
    BY <2>1 DEF Holders, Working, Inside, Critical
  <2>4. QED
    BY <2>1, <2>2, <2>3 DEF Promise!Exit, Working
<1>3. ASSUME NEW c \in Claims, EnterDispense(c)
      PROVE  UNCHANGED Promise!sfvars
  BY <1>3 DEF EnterDispense, node, Holders, Inside, Critical
<1>4. ASSUME NEW c \in Claims, stage[c] = "locking",
             SetGasPrice(c) \/ ReadFails(c)
      PROVE  Promise!Start(c)
  <2>1. /\ stage'[c] \in Critical
        /\ \A d \in Claims : d # c => stage'[d] = stage[d]
        /\ dripped' = dripped /\ HoldsLock(c)
    BY <1>4 DEF SetGasPrice, ReadFails, Fail, Critical, node
  <2>2. Working = {}
    BY <1>4, <2>1, WorkingAlone DEF Working, Critical
  <2>3. c \in Holders /\ Holders' = Holders
    BY <1>4, <2>1 DEF Holders, Inside, Critical
  <2>4. Working' = {c}
    BY <2>1, <2>2 DEF Working
  <2>5. QED
    BY <2>1, <2>2, <2>3, <2>4 DEF Promise!Start, Working
<1>5. ASSUME NEW c \in Claims, stage[c] \in Critical,
             \/ ReadFails(c) \/ Underfunded(c) \/ Rejected(c) \/ Funded(c)
             \/ SignAndSend(c) \/ Submitted(c) \/ SendFails(c)
      PROVE  UNCHANGED Promise!sfvars
  <2>1. /\ stage'[c] \in Critical
        /\ \A d \in Claims : d # c => stage'[d] = stage[d]
        /\ dripped' = dripped
    BY <1>5 DEF ReadFails, Underfunded, Rejected, Funded, SignAndSend,
                Submitted, SendFails, Fail, Critical, node
  <2>2. QED
    BY <1>5, <2>1 DEF Holders, Inside, Critical
<1>6. ASSUME NEW c \in Claims, Unlock(c)
      PROVE  Promise!Stop(c)
  <2>1. /\ stage[c] = "unlock" /\ stage' = [stage EXCEPT ![c] = "leave"]
        /\ dripped' = dripped
    BY <1>6 DEF Unlock, node
  <2>2. c \in Working /\ Working \subseteq {c}
    BY <2>1, CriticalHolds, WorkingAlone DEF Working, Critical
  <2>3. Holders' = Holders /\ Working' = {}
    BY <2>1, <2>2 DEF Holders, Working, Inside, Critical
  <2>4. QED
    BY <2>1, <2>2, <2>3 DEF Promise!Stop, Working
<1>7. ASSUME NEW c \in Claims, AwaitReceipt(c)
      PROVE  UNCHANGED Promise!sfvars
  BY <1>7 DEF AwaitReceipt, node, Holders, Inside, Critical
<1>8. ASSUME NEW c \in Claims, Deliver(c)
      PROVE  Promise!Pay(c) \/ UNCHANGED Promise!sfvars
  <2>1. stage[c] = "sending" /\ c \notin dripped /\ stage' = stage
    BY <1>8 DEF Deliver, process, FreshInv
  <2>2. c \in Working
    BY <2>1 DEF Working, Critical
  <2>3. dripped' = dripped \cup {c} \/ dripped' = dripped
    BY <1>8 DEF Deliver
  <2>4. Holders' = Holders /\ Working' = Working
    BY <2>1 DEF Holders, Working
  <2>5. QED
    BY <2>1, <2>2, <2>3, <2>4 DEF Promise!Pay, Working
<1>9. ASSUME NEW c \in Claims
      PROVE  ~Disconnect(c) /\ ~Crash
  BY DEF Disconnect, Crash
<1>10. CASE UNCHANGED dispenser
  BY <1>10 DEF dispenser, process, node, Holders
<1>11. ASSUME NEW c \in Claims, DispenseStep(c)
       PROVE  [Promise!Next]_(Promise!sfvars)
  <2>1. CASE SetGasPrice(c)
    BY <2>1, <1>4 DEF SetGasPrice
  <2>2. CASE ReadFails(c)
    BY <2>2, <1>4, <1>5 DEF ReadFails, Critical
  <2>3. CASE \/ Underfunded(c) \/ Rejected(c) \/ Funded(c)
             \/ SignAndSend(c) \/ Submitted(c) \/ SendFails(c)
    <3>1. stage[c] \in Critical
      BY <2>3 DEF Underfunded, Rejected, Funded, SignAndSend, Submitted,
                  SendFails, Critical
    <3>2. QED
      BY <2>3, <3>1, <1>5
  <2>4. CASE Unlock(c) \/ Leave(c) \/ AwaitReceipt(c)
    BY <2>4, <1>2, <1>6, <1>7
  <2>5. QED
    BY <1>11, <2>1, <2>2, <2>3, <2>4 DEF DispenseStep
<1>12. CASE Crash
  BY <1>12 DEF Crash
<1>13. QED
  BY <1>1, <1>2, <1>3, <1>8, <1>9, <1>10, <1>11, <1>12 DEF Next, AllOver

\* The queue with its permits, lock, reads, node and errors implements
\* SingleFlight: a bounded number inside, one at work, only the one at work
\* paid, and nobody paid twice (README.md 57-62, faucet.rs 123-148).
THEOREM DispenserImplementsSingleFlight ==
    ASSUME Faults \subseteq {"drop", "reply_lost"}
    PROVE  Spec => SingleFlightPromise
<1>1. DispenserInit => FreshInv
  BY DEF DispenserInit, FreshInv, Early, Cost
<1>2. DispenserInv /\ FreshInv /\ [Next]_dispenser => FreshInv'
  BY FreshStep DEF DispenserInv
<1>3. DispenserInit => Promise!Init
  BY DEF DispenserInit, Promise!Init, Holders, Inside, Critical
<1>4. DispenserInv /\ FreshInv /\ [Next]_dispenser => [Promise!Next]_(Promise!sfvars)
  BY PromiseStep
<1>5. QED
  BY <1>1, <1>2, <1>3, <1>4, Inductive, PTL
     DEF Spec, SingleFlightPromise, Promise!Spec
=============================================================================
