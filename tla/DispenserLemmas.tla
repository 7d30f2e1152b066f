-------------------------- MODULE DispenserLemmas --------------------------
(***************************************************************************)
(* What every step of dispense preserves, whoever calls it: the lemmas     *)
(* shared by the proofs about the dispenser alone (DispenserProofs) and    *)
(* about the service that calls it (FlowProofs).                           *)
(***************************************************************************)
EXTENDS Dispenser, FiniteSetTheorems, SequenceTheorems, TLAPS

\* A step of any caller: one claim moves, the process dies, or dispense and
\* the node stay as they are.
Moves ==
    \/ \E c \in Claims :
           \/ TryAdmit(c) \/ DropPermit(c) \/ EnterDispense(c)
           \/ DispenseStep(c) \/ Deliver(c) \/ Disconnect(c)
    \/ Crash
    \/ UNCHANGED dispenser

\* DispenserTypeOK but for the bound of permits and the queue, whose types
\* rest on the two invariants below.
Shape ==
    /\ permits \in Nat
    /\ stage \in [Claims -> Stages]
    /\ outcome \in [Claims -> Outcomes]
    /\ tx \in [Claims -> [nonce : Nat, gas_price : Nat]]
    /\ wire \subseteq Claims
    /\ answer \in [Claims -> {"none", "hash", "error"}]
    /\ dripped \subseteq Claims
    /\ pending \in Nat
    /\ balance \in 0 .. Funds

PermitInv == IsFiniteSet(Holders) /\ PermitAccounting

\* Exactly the claims between lock() and the drop of its guard are in the
\* mutex, each once, and only the one in front is past lock().
Queued == {"locking"} \cup Critical

QueueInv ==
    /\ serialize \in Seq(Claims)
    /\ \A i, j \in 1 .. Len(serialize) :
           serialize[i] = serialize[j] => i = j
    /\ \A i \in 1 .. Len(serialize) :
           /\ stage[serialize[i]] \in Queued
           /\ stage[serialize[i]] \in Critical => i = 1
    /\ \A c \in Claims :
           stage[c] \in Queued =>
               \E i \in 1 .. Len(serialize) : serialize[i] = c

DispenserInv == Shape /\ PermitInv /\ QueueInv

\* The stages before the transaction is sent.
Early == {"out", "admitted", "locking", "balance", "nonce"}

\* An outcome is settled by the node's answer, and until a claim sends the
\* node has nothing of it.
TruthInv ==
    \A c \in Claims :
        /\ c \in dripped <=> answer[c] = "hash"
        /\ c \in wire => answer[c] = "none"
        /\ outcome[c] = "sent" => answer[c] = "hash"
        /\ outcome[c] \in {"INSUFFICIENT_FUNDS", "RPC_ERROR"} =>
               c \notin dripped \cup wire
        /\ stage[c] \in Early => answer[c] = "none" /\ c \notin wire
        /\ stage[c] \in Early \cup {"sending"} => outcome[c] = "none"

USE DispenserAssumption DEF DispenserAssumption

-----------------------------------------------------------------------------
LEMMA CostType ==
    ASSUME NEW p \in Nat
    PROVE  Drip + p * GasLimit \in Nat
<1>1. p * GasLimit \in Nat
  OBVIOUS
<1>2. QED
  BY <1>1

LEMMA ShapeInit == DispenserInit => Shape
  BY DEF DispenserInit, Shape, Stages, Outcomes

LEMMA ShapeStep ==
    ASSUME Shape, Moves
    PROVE  Shape'
<1> USE DEF Shape
<1>1. ASSUME NEW c \in Claims, TryAdmit(c)
      PROVE  Shape'
  BY <1>1 DEF TryAdmit, node, Stages
<1>2. ASSUME NEW c \in Claims, DropPermit(c)
      PROVE  Shape'
  BY <1>2 DEF DropPermit, node, Stages
<1>3. ASSUME NEW c \in Claims, EnterDispense(c)
      PROVE  Shape'
  BY <1>3 DEF EnterDispense, node, Stages
<1>4. ASSUME NEW c \in Claims, SetGasPrice(c)
      PROVE  Shape'
  <2>1. PICK price \in GasPrices :
            tx' = [tx EXCEPT ![c].gas_price =
                     IF price = 0 /\ ~GasPriceOverride THEN 1 ELSE price]
    BY <1>4 DEF SetGasPrice
  <2>2. tx' \in [Claims -> [nonce : Nat, gas_price : Nat]]
    BY <2>1
  <2>3. QED
    BY <1>4, <2>2 DEF SetGasPrice, node, Stages
<1>5. ASSUME NEW c \in Claims, ReadFails(c) \/ Underfunded(c) \/ Rejected(c)
      PROVE  Shape'
  BY <1>5 DEF ReadFails, Underfunded, Rejected, Fail, node, Stages, Outcomes
<1>6. ASSUME NEW c \in Claims, Funded(c)
      PROVE  Shape'
  BY <1>6 DEF Funded, node, Stages
<1>7. ASSUME NEW c \in Claims, SignAndSend(c)
      PROVE  Shape'
  BY <1>7 DEF SignAndSend, Stages
<1>8. ASSUME NEW c \in Claims, Submitted(c)
      PROVE  Shape'
  BY <1>8 DEF Submitted, node, Stages, Outcomes
<1>9. ASSUME NEW c \in Claims, SendFails(c)
      PROVE  Shape'
  BY <1>9 DEF SendFails, Fail, Stages, Outcomes
<1>10. ASSUME NEW c \in Claims, Unlock(c) \/ Leave(c) \/ AwaitReceipt(c)
       PROVE  Shape'
  <2>1. CASE Unlock(c) \/ AwaitReceipt(c)
    BY <2>1 DEF Unlock, AwaitReceipt, node, Stages
  <2>2. CASE Leave(c)
    <3> DEFINE s == IF outcome[c] = "sent" THEN "receipt" ELSE "returned"
    <3>1. s \in Stages /\ stage' = [stage EXCEPT ![c] = s]
      BY <2>2 DEF Leave, Stages
    <3> HIDE DEF s
    <3>2. QED
      BY <2>2, <3>1 DEF Leave, node
  <2>3. QED
    BY <1>10, <2>1, <2>2
<1>11. ASSUME NEW c \in Claims, Deliver(c)
       PROVE  Shape'
  <2>1. Drip + tx[c].gas_price * GasLimit \in Nat
    BY CostType
  <2>2. QED
    BY <1>11, <2>1 DEF Deliver, process
<1>12. ASSUME NEW c \in Claims, Disconnect(c)
       PROVE  Shape'
  BY <1>12 DEF Disconnect, node, Stages
<1>13. CASE Crash
  BY <1>13 DEF Crash, node, Stages
<1>14. CASE UNCHANGED dispenser
  BY <1>14 DEF dispenser, process, node
<1>15. QED
  BY <1>1, <1>2, <1>3, <1>4, <1>5, <1>6, <1>7, <1>8, <1>9, <1>10, <1>11,
     <1>12, <1>13, <1>14 DEF Moves, DispenseStep

-----------------------------------------------------------------------------
\* A claim that goes in takes a permit, and one that goes out returns it.
LEMMA PermitMove ==
    ASSUME PermitInv, permits \in Nat, stage \in [Claims -> Stages],
           NEW c \in Claims, NEW s \in Stages,
           stage' = [stage EXCEPT ![c] = s],
           \/ stage[c] \notin Inside /\ s \in Inside /\ permits' = permits - 1
           \/ stage[c] \in Inside /\ s \notin Inside /\ permits' = permits + 1
           \/ (stage[c] \in Inside <=> s \in Inside) /\ permits' = permits
    PROVE  PermitInv'
<1> USE DEF PermitInv, PermitAccounting
<1> DEFINE n == Cardinality(Holders)
<1>1. n \in Nat
  BY FS_CardinalityType
<1>2. Holders' = IF s \in Inside THEN Holders \cup {c} ELSE Holders \ {c}
  BY DEF Holders
<1>3. c \in Holders <=> stage[c] \in Inside
  BY DEF Holders
<1>4. /\ IsFiniteSet(Holders \cup {c})
      /\ Cardinality(Holders \cup {c}) =
             IF c \in Holders THEN n ELSE n + 1
  BY FS_AddElement
<1>5. /\ IsFiniteSet(Holders \ {c})
      /\ Cardinality(Holders \ {c}) =
             IF c \in Holders THEN n - 1 ELSE n
  BY FS_RemoveElement
<1>6. permits + n = Capacity
  OBVIOUS
<1> HIDE DEF n
<1>7. CASE s \in Inside
  BY <1>1, <1>2, <1>3, <1>4, <1>6, <1>7
<1>8. CASE s \notin Inside
  BY <1>1, <1>2, <1>3, <1>5, <1>6, <1>8
<1>9. QED
  BY <1>7, <1>8

LEMMA NoHolders ==
    ASSUME Holders = {}, permits = Capacity
    PROVE  PermitInv
  BY FS_EmptySet DEF PermitInv, PermitAccounting

LEMMA PermitStep ==
    ASSUME Shape, PermitInv, Moves
    PROVE  PermitInv'
<1>0. permits \in Nat /\ stage \in [Claims -> Stages]
  BY DEF Shape
<1> USE <1>0 DEF Stages, Inside
<1>1. ASSUME NEW c \in Claims, TryAdmit(c)
      PROVE  PermitInv'
  BY <1>1, PermitMove DEF TryAdmit
<1>2. ASSUME NEW c \in Claims, DropPermit(c)
      PROVE  PermitInv'
  BY <1>2, PermitMove DEF DropPermit
<1>3. ASSUME NEW c \in Claims, EnterDispense(c)
      PROVE  PermitInv'
  BY <1>3, PermitMove DEF EnterDispense
<1>4. ASSUME NEW c \in Claims, SetGasPrice(c) \/ Funded(c) \/ SignAndSend(c)
      PROVE  PermitInv'
  BY <1>4, PermitMove DEF SetGasPrice, Funded, SignAndSend
<1>5. ASSUME NEW c \in Claims,
             \/ ReadFails(c) \/ Underfunded(c) \/ Rejected(c)
             \/ SendFails(c) \/ Submitted(c)
      PROVE  PermitInv'
  <2>1. /\ stage[c] \in Inside
        /\ stage' = [stage EXCEPT ![c] = "unlock"]
        /\ permits' = permits
    BY <1>5 DEF ReadFails, Underfunded, Rejected, SendFails, Submitted, Fail
  <2>2. QED
    BY <2>1, PermitMove
<1>6. ASSUME NEW c \in Claims, Unlock(c)
      PROVE  PermitInv'
  BY <1>6, PermitMove DEF Unlock
<1>7. ASSUME NEW c \in Claims, Leave(c)
      PROVE  PermitInv'
  <2> DEFINE s == IF outcome[c] = "sent" THEN "receipt" ELSE "returned"
  <2>1. s \in Stages \ Inside
    OBVIOUS
  <2>2. /\ stage[c] \in Inside
        /\ stage' = [stage EXCEPT ![c] = s]
        /\ permits' = permits + 1
    BY <1>7 DEF Leave
  <2> HIDE DEF s
  <2>3. QED
    BY <2>1, <2>2, PermitMove
<1>8. ASSUME NEW c \in Claims, AwaitReceipt(c)
      PROVE  PermitInv'
  BY <1>8, PermitMove DEF AwaitReceipt
<1>9. ASSUME NEW c \in Claims, Deliver(c)
      PROVE  PermitInv'
  BY <1>9 DEF Deliver, process, PermitInv, PermitAccounting, Holders
<1>10. ASSUME NEW c \in Claims, Disconnect(c)
       PROVE  PermitInv'
  <2>1. /\ stage' = [stage EXCEPT ![c] = "dropped"]
        /\ permits' = IF stage[c] \in Inside THEN permits + 1 ELSE permits
    BY <1>10 DEF Disconnect
  <2>2. QED
    BY <2>1, PermitMove
<1>11. CASE Crash
  <2>1. (Holders = {})' /\ (permits = Capacity)'
    BY <1>11 DEF Crash, Holders
  <2>2. QED
    BY <2>1, FS_EmptySet DEF PermitInv, PermitAccounting
<1>12. CASE UNCHANGED dispenser
  BY <1>12 DEF dispenser, process, PermitInv, PermitAccounting, Holders
<1>13. QED
  BY <1>1, <1>2, <1>3, <1>4, <1>5, <1>6, <1>7, <1>8, <1>9, <1>10, <1>11,
     <1>12 DEF Moves, DispenseStep

-----------------------------------------------------------------------------
\* Taking an element out of a sequence shifts those behind it by one.
LEMMA WithoutShifts ==
    ASSUME QueueInv, NEW c, NEW k \in 1 .. Len(serialize), serialize[k] = c
    PROVE  /\ Without(c) \in Seq(Claims)
           /\ Len(Without(c)) = Len(serialize) - 1
           /\ \A i \in 1 .. Len(Without(c)) :
                  Without(c)[i] =
                      IF i < k THEN serialize[i] ELSE serialize[i + 1]
<1>0. /\ serialize \in Seq(Claims)
      /\ \A i, j \in 1 .. Len(serialize) :
             serialize[i] = serialize[j] => i = j
  BY DEF QueueInv
<1> USE <1>0
<1>1. PICK front : front = SubSeq(serialize, 1, k - 1)
  OBVIOUS
<1>2. PICK back : back = SubSeq(serialize, k + 1, Len(serialize))
  OBVIOUS
<1>3. Without(c) = front \o back
  <2>1. (CHOOSE i \in 1 .. Len(serialize) : serialize[i] = c) = k
    OBVIOUS
  <2>2. QED
    BY <1>1, <1>2, <2>1 DEF Without
<1>4. /\ front \in Seq(Claims)
      /\ Len(front) = k - 1
      /\ \A i \in 1 .. k - 1 : front[i] = serialize[i]
  BY <1>1, SubSeqProperties
<1>5. /\ back \in Seq(Claims)
      /\ Len(back) = Len(serialize) - k
      /\ \A i \in 1 .. Len(serialize) - k : back[i] = serialize[k + i]
  BY <1>2, SubSeqProperties
<1>6. /\ front \o back \in Seq(Claims)
      /\ Len(front \o back) = Len(front) + Len(back)
      /\ \A i \in 1 .. Len(front) + Len(back) :
             (front \o back)[i] =
                 IF i <= Len(front) THEN front[i] ELSE back[i - Len(front)]
  <2>1. front \in Seq(Claims) /\ back \in Seq(Claims)
    BY <1>4, <1>5
  <2>2. QED
    BY <2>1, ConcatProperties
<1>7. Len(Without(c)) = Len(serialize) - 1
  BY <1>3, <1>4, <1>5, <1>6
<1>8. ASSUME NEW i \in 1 .. Len(Without(c))
      PROVE  Without(c)[i] = IF i < k THEN serialize[i] ELSE serialize[i + 1]
  <2>1. i \in 1 .. Len(front) + Len(back)
    BY <1>3, <1>6
  <2>2. CASE i < k
    BY <1>3, <1>4, <1>6, <2>1, <2>2
  <2>3. CASE i >= k
    <3>1. i - Len(front) \in 1 .. Len(serialize) - k
      BY <1>4, <1>5, <2>1, <2>3
    <3>2. k + (i - Len(front)) = i + 1 /\ ~(i <= Len(front))
      BY <1>4, <2>3
    <3>3. (front \o back)[i] = back[i - Len(front)]
      BY <1>6, <2>1, <3>2
    <3>4. back[i - Len(front)] = serialize[i + 1]
      BY <1>5, <3>1, <3>2
    <3>5. QED
      BY <1>3, <2>3, <3>3, <3>4
  <2>4. QED
    BY <2>2, <2>3
<1>9. QED
  BY <1>3, <1>6, <1>7, <1>8

\* A claim that moves to stage s without touching the mutex.
LEMMA QueueMove ==
    ASSUME QueueInv, stage \in [Claims -> Stages],
           NEW c \in Claims, NEW s \in Stages,
           stage' = [stage EXCEPT ![c] = s], serialize' = serialize,
           \/ stage[c] \notin Queued /\ s \notin Queued
           \/ stage[c] \in Queued /\ s \in Queued /\ HoldsLock(c)
           \/ stage[c] \in Critical /\ s \in Critical
    PROVE  QueueInv'
<1> USE DEF QueueInv
<1>1. ASSUME NEW i \in 1 .. Len(serialize)
      PROVE  /\ stage'[serialize[i]] \in Queued
             /\ stage'[serialize[i]] \in Critical => i = 1
  <2>1. CASE serialize[i] # c
    BY <1>1, <2>1
  <2>2. CASE serialize[i] = c
    <3>1. stage[c] \in Queued /\ s \in Queued
      BY <1>1, <2>2 DEF Queued
    <3>2. HoldsLock(c) => i = 1
      BY <1>1, <2>2 DEF HoldsLock
    <3>3. QED
      BY <1>1, <2>2, <3>1, <3>2
  <2>3. QED
    BY <2>1, <2>2
<1>2. ASSUME NEW d \in Claims, stage'[d] \in Queued
      PROVE  \E i \in 1 .. Len(serialize) : serialize[i] = d
  BY <1>2 DEF Queued
<1>3. QED
  BY <1>1, <1>2

\* A claim past lock() holds the mutex, and so there is at most one.
LEMMA CriticalHolds ==
    ASSUME QueueInv, NEW c \in Claims, stage[c] \in Critical
    PROVE  HoldsLock(c)
<1>1. PICK i \in 1 .. Len(serialize) : serialize[i] = c
  BY DEF QueueInv, Queued
<1>2. i = 1
  BY <1>1 DEF QueueInv
<1>3. QED
  BY <1>1, <1>2 DEF HoldsLock, QueueInv

LEMMA QueueStep ==
    ASSUME Shape, QueueInv, Moves
    PROVE  QueueInv'
<1>0. stage \in [Claims -> Stages] /\ serialize \in Seq(Claims)
  BY DEF Shape, QueueInv
<1> USE <1>0 DEF Stages, Queued, Critical
<1>1. ASSUME NEW c \in Claims, TryAdmit(c)
      PROVE  QueueInv'
  BY <1>1, QueueMove DEF TryAdmit
<1>2. ASSUME NEW c \in Claims, DropPermit(c)
      PROVE  QueueInv'
  BY <1>2, QueueMove DEF DropPermit
<1>3. ASSUME NEW c \in Claims, EnterDispense(c)
      PROVE  QueueInv'
  <2> DEFINE n == Len(serialize)
  <2>1. /\ serialize' \in Seq(Claims)
        /\ Len(serialize') = n + 1
        /\ \A i \in 1 .. n : serialize'[i] = serialize[i]
        /\ serialize'[n + 1] = c
    BY <1>3, AppendProperties DEF EnterDispense
  <2>2. n \in Nat
    OBVIOUS
  <2>3. stage[c] = "admitted" /\ stage' = [stage EXCEPT ![c] = "locking"]
    BY <1>3 DEF EnterDispense
  <2>4. \A i \in 1 .. n : serialize[i] # c /\ serialize[i] \in Claims
    BY <2>3 DEF QueueInv
  <2> HIDE DEF n
  <2>5. \A i, j \in 1 .. n + 1 : serialize'[i] = serialize'[j] => i = j
    <3> SUFFICES ASSUME NEW i \in 1 .. n + 1, NEW j \in 1 .. n + 1,
                        serialize'[i] = serialize'[j]
                 PROVE  i = j
      OBVIOUS
    <3>1. i \in 1 .. n \/ i = n + 1
      BY <2>2
    <3>2. j \in 1 .. n \/ j = n + 1
      BY <2>2
    <3>3. QED
      BY <2>1, <2>4, <3>1, <3>2 DEF QueueInv, n
  <2>6. ASSUME NEW i \in 1 .. n + 1
        PROVE  /\ stage'[serialize'[i]] \in Queued
               /\ stage'[serialize'[i]] \in Critical => i = 1
    <3>1. CASE i \in 1 .. n
      BY <2>1, <2>3, <2>4, <3>1 DEF QueueInv, n
    <3>2. CASE i = n + 1
      BY <2>1, <2>3, <3>2
    <3>3. QED
      BY <2>2, <3>1, <3>2
  <2>7. ASSUME NEW d \in Claims, stage'[d] \in Queued
        PROVE  \E i \in 1 .. n + 1 : serialize'[i] = d
    <3>1. CASE d = c
      BY <2>1, <2>2, <3>1
    <3>2. CASE d # c
      <4>1. PICK i \in 1 .. n : serialize[i] = d
        BY <2>3, <2>7, <3>2 DEF QueueInv, n
      <4>2. QED
        BY <2>1, <2>2, <4>1
    <3>3. QED
      BY <3>1, <3>2
  <2>8. QED
    BY <2>1, <2>5, <2>6, <2>7 DEF QueueInv
<1>4. ASSUME NEW c \in Claims, SetGasPrice(c)
      PROVE  QueueInv'
  BY <1>4, QueueMove DEF SetGasPrice
<1>5. ASSUME NEW c \in Claims, Funded(c) \/ SignAndSend(c)
      PROVE  QueueInv'
  BY <1>5, QueueMove DEF Funded, SignAndSend
<1>6. ASSUME NEW c \in Claims,
             \/ ReadFails(c) \/ Underfunded(c) \/ Rejected(c)
             \/ SendFails(c) \/ Submitted(c)
      PROVE  QueueInv'
  <2>1. /\ stage[c] \in Queued
        /\ stage[c] \in Critical \/ HoldsLock(c)
        /\ stage' = [stage EXCEPT ![c] = "unlock"]
        /\ serialize' = serialize
    BY <1>6 DEF ReadFails, Underfunded, Rejected, SendFails, Submitted, Fail
  <2>2. QED
    BY <2>1, QueueMove
<1>7. ASSUME NEW c \in Claims, Unlock(c)
      PROVE  QueueInv'
  <2> DEFINE n == Len(serialize)
  <2>1. stage[c] = "unlock" /\ stage' = [stage EXCEPT ![c] = "leave"]
    BY <1>7 DEF Unlock
  <2>2. HoldsLock(c)
    BY <2>1, CriticalHolds
  <2>3. serialize # << >> /\ serialize[1] = c /\ n \in Nat \ {0}
    BY <2>2, EmptySeq DEF HoldsLock
  <2>4. /\ serialize' \in Seq(Claims)
        /\ Len(serialize') = n - 1
        /\ \A i \in 1 .. n - 1 : serialize'[i] = serialize[i + 1]
    BY <1>7, <2>3, HeadTailProperties DEF Unlock
  <2> HIDE DEF n
  <2>5. \A i, j \in 1 .. n - 1 : serialize'[i] = serialize'[j] => i = j
    <3> SUFFICES ASSUME NEW i \in 1 .. n - 1, NEW j \in 1 .. n - 1,
                        serialize'[i] = serialize'[j]
                 PROVE  i = j
      OBVIOUS
    <3>1. i + 1 \in 1 .. n /\ j + 1 \in 1 .. n
      BY <2>3
    <3>2. i + 1 = j + 1
      BY <2>4, <3>1 DEF QueueInv, n
    <3>3. QED
      BY <3>2
  <2>6. ASSUME NEW i \in 1 .. n - 1
        PROVE  /\ stage'[serialize'[i]] \in Queued
               /\ stage'[serialize'[i]] \in Critical => i = 1
    <3>1. i + 1 \in 1 .. n /\ i + 1 # 1
      BY <2>3
    <3>2. /\ serialize[i + 1] \in Claims \ {c}
          /\ stage[serialize[i + 1]] \in Queued \ Critical
      BY <2>3, <3>1 DEF QueueInv, n
    <3>3. QED
      BY <2>1, <2>4, <3>2
  <2>7. ASSUME NEW d \in Claims, stage'[d] \in Queued
        PROVE  \E i \in 1 .. n - 1 : serialize'[i] = d
    <3>1. d # c /\ stage[d] \in Queued
      BY <2>1, <2>7
    <3>2. PICK j \in 1 .. n : serialize[j] = d
      BY <3>1 DEF QueueInv, n
    <3>3. j - 1 \in 1 .. n - 1 /\ (j - 1) + 1 = j
      BY <2>3, <3>1, <3>2
    <3>4. serialize'[j - 1] = d
      BY <2>4, <3>2, <3>3
    <3>5. QED
      BY <3>3, <3>4
  <2>8. QED
    BY <2>4, <2>5, <2>6, <2>7 DEF QueueInv
<1>8. ASSUME NEW c \in Claims, Leave(c)
      PROVE  QueueInv'
  <2> DEFINE s == IF outcome[c] = "sent" THEN "receipt" ELSE "returned"
  <2>1. s \in Stages \ Queued
    OBVIOUS
  <2>2. /\ stage[c] \notin Queued
        /\ stage' = [stage EXCEPT ![c] = s]
        /\ serialize' = serialize
    BY <1>8 DEF Leave
  <2> HIDE DEF s
  <2>3. QED
    BY <2>1, <2>2, QueueMove
<1>9. ASSUME NEW c \in Claims, AwaitReceipt(c)
      PROVE  QueueInv'
  BY <1>9, QueueMove DEF AwaitReceipt
<1>10. ASSUME NEW c \in Claims, Deliver(c)
       PROVE  QueueInv'
  BY <1>10 DEF Deliver, process, QueueInv
<1>11. ASSUME NEW c \in Claims, Disconnect(c)
       PROVE  QueueInv'
  <2>1. /\ stage' = [stage EXCEPT ![c] = "dropped"]
        /\ serialize' = Without(c)
    BY <1>11 DEF Disconnect
  <2>2. CASE stage[c] \notin Queued
    <3>1. \A i \in 1 .. Len(serialize) : serialize[i] # c
      BY <2>2 DEF QueueInv
    <3>2. serialize' = serialize
      BY <2>1, <3>1 DEF Without
    <3>3. QED
      BY <2>1, <2>2, <3>2, QueueMove
  <2>3. CASE stage[c] \in Queued
    <3>1. PICK k \in 1 .. Len(serialize) : serialize[k] = c
      BY <2>3 DEF QueueInv
    <3> DEFINE n == Len(serialize)
    <3>2. /\ serialize' \in Seq(Claims)
          /\ Len(serialize') = n - 1
          /\ \A i \in 1 .. Len(serialize') :
                 serialize'[i] =
                     IF i < k THEN serialize[i] ELSE serialize[i + 1]
      <4>1. /\ Without(c) \in Seq(Claims)
            /\ Len(Without(c)) = n - 1
            /\ \A i \in 1 .. Len(Without(c)) :
                   Without(c)[i] =
                       IF i < k THEN serialize[i] ELSE serialize[i + 1]
        BY <3>1, WithoutShifts, SMTT(20)
      <4>2. QED
        BY <2>1, <4>1
    <3>3. n \in Nat
      OBVIOUS
    <3> HIDE DEF n
    <3>4. \A i, j \in 1 .. n - 1 : serialize'[i] = serialize'[j] => i = j
      <4> SUFFICES ASSUME NEW i \in 1 .. n - 1, NEW j \in 1 .. n - 1,
                          serialize'[i] = serialize'[j]
                   PROVE  i = j
        OBVIOUS
      <4> DEFINE at(x) == IF x < k THEN x ELSE x + 1
      <4>1. at(i) \in 1 .. n /\ at(j) \in 1 .. n
        BY <3>3
      <4>2. serialize'[i] = serialize[at(i)] /\ serialize'[j] = serialize[at(j)]
        BY <3>2
      <4>3. at(i) = at(j)
        <5>1. serialize[at(i)] = serialize[at(j)]
          BY <4>2
        <5> HIDE DEF at
        <5>2. QED
          BY <4>1, <5>1 DEF QueueInv, n
      <4>4. QED
        BY <3>3, <4>3
    <3>5. ASSUME NEW i \in 1 .. n - 1
          PROVE  /\ stage'[serialize'[i]] \in Queued
                 /\ stage'[serialize'[i]] \in Critical => i = 1
      <4>1. CASE i < k
        <5>1. i \in 1 .. n /\ i # k
          BY <3>3, <4>1
        <5>2. serialize[i] \in Claims /\ serialize[i] # c
          BY <3>1, <5>1 DEF QueueInv, n
        <5>3. serialize'[i] = serialize[i]
          BY <3>2, <4>1
        <5>4. QED
          BY <2>1, <5>1, <5>2, <5>3 DEF QueueInv, n
      <4>2. CASE i >= k
        <5>1. i + 1 \in 1 .. n /\ i + 1 # k /\ i + 1 # 1
          BY <3>3, <4>2
        <5>2. serialize[i + 1] \in Claims /\ serialize[i + 1] # c
          BY <3>1, <5>1 DEF QueueInv, n
        <5>3. serialize'[i] = serialize[i + 1]
          BY <3>2, <4>2
        <5>4. QED
          BY <2>1, <5>1, <5>2, <5>3 DEF QueueInv, n
      <4>3. QED
        BY <4>1, <4>2
    <3>6. ASSUME NEW d \in Claims, stage'[d] \in Queued
          PROVE  \E i \in 1 .. n - 1 : serialize'[i] = d
      <4>1. d # c /\ stage[d] \in Queued
        BY <2>1, <3>6
      <4>2. PICK j \in 1 .. n : serialize[j] = d
        BY <4>1 DEF QueueInv, n
      <4>3. j # k
        BY <3>1, <4>1, <4>2
      <4>4. CASE j < k
        <5>1. j \in 1 .. n - 1
          BY <3>1, <3>3, <4>4 DEF n
        <5>2. serialize'[j] = d
          BY <3>2, <4>2, <4>4, <5>1
        <5>3. QED
          BY <5>1, <5>2
      <4>5. CASE j > k
        <5>1. j - 1 \in 1 .. n - 1 /\ ~(j - 1 < k) /\ (j - 1) + 1 = j
          BY <3>3, <4>5
        <5>2. serialize'[j - 1] = d
          BY <3>2, <4>2, <5>1
        <5>3. QED
          BY <5>1, <5>2
      <4>6. QED
        BY <4>3, <4>4, <4>5
    <3>7. QED
      BY <3>2, <3>4, <3>5, <3>6 DEF QueueInv
  <2>4. QED
    BY <2>2, <2>3
<1>12. CASE Crash
  <2>1. serialize' = << >> /\ \A c \in Claims : stage'[c] \notin Queued
    BY <1>12 DEF Crash
  <2>2. QED
    BY <2>1 DEF QueueInv
<1>13. CASE UNCHANGED dispenser
  BY <1>13 DEF dispenser, process, QueueInv
<1>14. QED
  BY <1>1, <1>2, <1>3, <1>4, <1>5, <1>6, <1>7, <1>8, <1>9, <1>10, <1>11,
     <1>12, <1>13 DEF Moves, DispenseStep

LEMMA DispenserInductive ==
    /\ DispenserInit => DispenserInv
    /\ DispenserInv /\ Moves => DispenserInv'
<1>1. ASSUME DispenserInit
      PROVE  DispenserInv
  <2>1. Holders = {} /\ permits = Capacity
    BY <1>1 DEF DispenserInit, Holders, Inside
  <2>2. QueueInv
    BY <1>1 DEF DispenserInit, QueueInv, Queued, Critical
  <2>3. QED
    BY <1>1, <2>1, <2>2, ShapeInit, NoHolders DEF DispenserInv
<1>2. QED
  BY <1>1, ShapeStep, PermitStep, QueueStep DEF DispenserInv

\* The types of permits and queue follow from the equation and the order.
LEMMA InvariantTypes == DispenserInv => DispenserTypeOK
<1> SUFFICES ASSUME DispenserInv
             PROVE  permits \in 0 .. Capacity
  BY DEF DispenserInv, Shape, QueueInv, DispenserTypeOK
<1>1. Cardinality(Holders) \in Nat /\ permits \in Nat
  BY FS_CardinalityType DEF DispenserInv, Shape, PermitInv
<1>2. QED
  BY <1>1 DEF DispenserInv, PermitInv, PermitAccounting

-----------------------------------------------------------------------------
LEMMA TruthStep ==
    ASSUME Faults \subseteq {"drop", "disconnect", "crash"},
           Shape, TruthInv, Moves
    PROVE  TruthInv'
<1>0. /\ stage \in [Claims -> Stages]
      /\ outcome \in [Claims -> Outcomes]
      /\ answer \in [Claims -> {"none", "hash", "error"}]
      /\ dripped \subseteq Claims
  BY DEF Shape
<1> USE <1>0 DEF TruthInv, Early, Stages, Outcomes
<1>1. ASSUME NEW c \in Claims, TryAdmit(c) \/ DropPermit(c)
      PROVE  TruthInv'
  BY <1>1 DEF TryAdmit, DropPermit, node
<1>2. ASSUME NEW c \in Claims, EnterDispense(c)
      PROVE  TruthInv'
  BY <1>2 DEF EnterDispense, node
<1>3. ASSUME NEW c \in Claims, SetGasPrice(c) \/ Funded(c)
      PROVE  TruthInv'
  BY <1>3 DEF SetGasPrice, Funded, node
<1>4. ASSUME NEW c \in Claims, ReadFails(c) \/ Underfunded(c)
      PROVE  TruthInv'
  BY <1>4 DEF ReadFails, Underfunded, Fail, node
<1>5. ASSUME NEW c \in Claims, SignAndSend(c)
      PROVE  TruthInv'
  BY <1>5 DEF SignAndSend
<1>6. ASSUME NEW c \in Claims, Submitted(c) \/ Rejected(c)
      PROVE  TruthInv'
  BY <1>6 DEF Submitted, Rejected, Fail, node
<1>7. ASSUME NEW c \in Claims, SendFails(c)
      PROVE  TruthInv'
  <2>1. c \in wire /\ wire' = wire \ {c}
    BY <1>7 DEF SendFails
  <2>2. QED
    BY <1>7, <2>1 DEF SendFails, Fail
<1>8. ASSUME NEW c \in Claims, Unlock(c) \/ Leave(c) \/ AwaitReceipt(c)
      PROVE  TruthInv'
  <2>1. /\ stage'[c] \in {"leave", "receipt", "returned"}
        /\ \A d \in Claims : d # c => stage'[d] = stage[d]
        /\ UNCHANGED <<outcome, wire, answer, dripped>>
    BY <1>8 DEF Unlock, Leave, AwaitReceipt, node
  <2>2. QED
    BY <2>1
<1>9. ASSUME NEW c \in Claims, Deliver(c)
      PROVE  TruthInv'
  <2>1. /\ c \in wire /\ wire' = wire \ {c}
        /\ UNCHANGED <<stage, outcome>>
    BY <1>9 DEF Deliver, process
  <2>2. \/ /\ answer' = [answer EXCEPT ![c] = "hash"]
           /\ dripped' = dripped \cup {c}
        \/ /\ answer' = [answer EXCEPT ![c] = "error"]
           /\ dripped' = dripped
    BY <1>9 DEF Deliver
  <2>3. outcome[c] = "none" /\ stage[c] \notin Early
    BY <2>1
  <2>4. QED
    BY <2>1, <2>2, <2>3
<1>10. ASSUME NEW c \in Claims, Disconnect(c)
       PROVE  TruthInv'
  BY <1>10 DEF Disconnect, node
<1>11. CASE Crash
  BY <1>11 DEF Crash, node
<1>12. CASE UNCHANGED dispenser
  BY <1>12 DEF dispenser, process, node
<1>13. QED
  BY <1>1, <1>2, <1>3, <1>4, <1>5, <1>6, <1>7, <1>8, <1>9, <1>10, <1>11,
     <1>12 DEF Moves, DispenseStep
=============================================================================
