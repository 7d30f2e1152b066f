---------------------------- MODULE KeeperLemmas ----------------------------
(***************************************************************************)
(* What the keeper's operators yield, whoever calls them: the lemmas       *)
(* shared by the proofs about the keeper alone (KeeperProofs) and about    *)
(* the service that calls it (FlowProofs).                                 *)
(***************************************************************************)
EXTENDS PowKeeper, TLAPS

\* Every challenge handed out carries the MAC of its own fields, made by
\* this process or an earlier one, and no two share a salt.
Genuine ==
    \A ch \in issued :
        /\ ch.hmac.boot_nonce <= boot
        /\ ch.hmac.address = ch.address
        /\ ch.hmac.salt = ch.salt
        /\ ch.hmac.expires_at = ch.expires_at

SaltsDiffer == \A c, d \in issued : c.salt = d.salt => c = d

USE KeeperAssumption DEF KeeperAssumption

-----------------------------------------------------------------------------
\* What a client can present is, field by field, what an issued challenge
\* says, but for the altered recipient or expiry.
LEMMA PresentableFields ==
    ASSUME KeeperTypeOK, NEW ch \in Presentable
    PROVE  /\ ch \in Challenges
           /\ \E i \in issued : /\ ch.hmac = i.hmac /\ ch.salt = i.salt
                                /\ (ch.address = i.address
                                    /\ ch.expires_at = i.expires_at) => ch = i
<1>1. issued \subseteq Challenges
  BY DEF KeeperTypeOK
<1>2. CASE ch \in issued
  BY <1>1, <1>2
<1>3. ASSUME NEW i \in issued, NEW a \in Addresses,
             ch = [i EXCEPT !.address = a]
      PROVE  /\ ch \in Challenges
             /\ ch.hmac = i.hmac /\ ch.salt = i.salt
             /\ (ch.address = i.address /\ ch.expires_at = i.expires_at)
                    => ch = i
  BY <1>1, <1>3 DEF Challenges
<1>4. ASSUME NEW i \in issued, ch = [i EXCEPT !.expires_at = U64Max]
      PROVE  /\ ch \in Challenges
             /\ ch.hmac = i.hmac /\ ch.salt = i.salt
             /\ (ch.address = i.address /\ ch.expires_at = i.expires_at)
                    => ch = i
  BY <1>1, <1>4 DEF Challenges
<1>5. QED
  BY <1>2, <1>3, <1>4 DEF Presentable

\* The MAC check accepts only challenges of this process, unaltered.
LEMMA AuthenticIsIssued ==
    ASSUME KeeperTypeOK, Genuine, NEW ch \in Presentable, Authentic(ch)
    PROVE  ch \in issued /\ ch.hmac.boot_nonce = boot
<1>1. PICK i \in issued : /\ ch.hmac = i.hmac /\ ch.salt = i.salt
                          /\ (ch.address = i.address
                              /\ ch.expires_at = i.expires_at) => ch = i
  BY PresentableFields
<1>2. ch.hmac = Mac(ch.address, ch.salt, ch.expires_at)
  BY DEF Authentic
<1>3. /\ ch.hmac.address = ch.address
      /\ ch.hmac.expires_at = ch.expires_at
      /\ ch.hmac.boot_nonce = boot
  BY <1>2 DEF Mac
<1>4. i.hmac.address = i.address /\ i.hmac.expires_at = i.expires_at
  BY DEF Genuine
<1>5. QED
  BY <1>1, <1>3, <1>4

LEMMA NewChallengeType ==
    ASSUME KeeperTypeOK, NEW s \in Salts, NEW a \in Addresses,
           NEW now \in Nat
    PROVE  /\ NewChallenge(s, a, now) \in Challenges
           /\ NewChallenge(s, a, now).salt = s
           /\ NewChallenge(s, a, now).hmac.boot_nonce = boot
           /\ NewChallenge(s, a, now).hmac.address =
                  NewChallenge(s, a, now).address
           /\ NewChallenge(s, a, now).hmac.salt = s
           /\ NewChallenge(s, a, now).hmac.expires_at =
                  NewChallenge(s, a, now).expires_at
<1>1. SatAdd(now, Ttl) \in 0 .. U64Max
  BY DEF SatAdd
<1>2. Secret \in Nat /\ boot \in Nat
  BY DEF KeeperTypeOK, Secret
<1>3. Mac(a, s, SatAdd(now, Ttl)) \in Macs
  BY <1>1, <1>2 DEF Mac, Macs
<1>4. QED
  BY <1>1, <1>3 DEF NewChallenge, Challenges, Mac

LEMMA RetainedTypes ==
    ASSUME KeeperTypeOK, NEW now \in Nat
    PROVE  /\ RetainedSalts(now) \in [Salts -> (0 .. U64Max) \cup {Absent}]
           /\ RetainedClaims(now)
                  \in [Addresses -> (0 .. U64Max) \cup {Absent}]
  BY DEF KeeperTypeOK, RetainedSalts, RetainedClaims, Absent

\* Below the top of u64 the saturating deadline is the true one, or later
\* than any time the clock can show.
LEMMA Deadline ==
    ASSUME NEW last \in Nat, NEW t \in Nat, t < U64Max
    PROVE  /\ SatAdd(last, Cooldown) < t => last + Cooldown < t
           /\ Remaining(last, t) = 0 => last + Cooldown <= t
           /\ Remaining(last, t) > 0 => t < last + Cooldown
  BY DEF SatAdd, SatSub, Remaining

\* Pruning forgets a reservation only when its cooldown is over, and a claim
\* is let through only then.
LEMMA Retention ==
    ASSUME KeeperTypeOK, NEW a \in Addresses, last_claim[a] # Absent,
           NEW t \in Nat, t < U64Max
    PROVE  /\ last_claim[a] \in Nat
           /\ \/ RetainedClaims(t)[a] = last_claim[a]
              \/ last_claim[a] + Cooldown < t
           /\ Cooldown # 0 /\ ~CoolingDown(a, t) =>
                  last_claim[a] + Cooldown <= t
<1>1. last_claim[a] \in Nat
  BY DEF KeeperTypeOK
<1>2. \/ RetainedClaims(t)[a] = last_claim[a]
      \/ last_claim[a] + Cooldown < t
  <2>1. CASE SatAdd(last_claim[a], Cooldown) < t
    BY <1>1, <2>1, Deadline
  <2>2. CASE ~(SatAdd(last_claim[a], Cooldown) < t)
    <3>1. SatAdd(last_claim[a], Cooldown) >= t
      BY <1>1, <2>2 DEF SatAdd
    <3>2. QED
      BY <3>1 DEF RetainedClaims
  <2>3. QED
    BY <2>1, <2>2
<1>3. ASSUME Cooldown # 0, ~CoolingDown(a, t)
      PROVE  last_claim[a] + Cooldown <= t
  <2>1. CASE RetainedClaims(t)[a] = last_claim[a]
    <3>1. ~(Remaining(last_claim[a], t) > 0)
      BY <1>3, <2>1 DEF CoolingDown
    <3>2. Remaining(last_claim[a], t) \in Nat
      BY <1>1 DEF Remaining, SatAdd, SatSub
    <3>3. QED
      BY <1>1, <3>1, <3>2, Deadline
  <2>2. CASE last_claim[a] + Cooldown < t
    BY <1>1, <2>2
  <2>3. QED
    BY <1>2, <2>1, <2>2
<1>4. QED
  BY <1>1, <1>2, <1>3
=============================================================================
