---------------------------- MODULE KeeperProofs ----------------------------
(***************************************************************************)
(* The keeper's promises, for every set of salts and addresses and every   *)
(* cooldown, lifetime and bound.                                           *)
(***************************************************************************)
EXTENDS KeeperCalls, KeeperLemmas

\* A kept redemption is remembered until it no longer matters, because its
\* challenge has expired or belongs to an earlier process.
Remembered ==
    \A s \in Salts :
        redemptions[s] > 0 =>
            \E ch \in issued :
                /\ ch.salt = s
                /\ \/ ch.hmac.boot_nonce < boot
                   \/ clock > ch.expires_at
                   \/ consumed[s] = ch.expires_at

BurntForAReason == \A s \in Salts : consumed[s] # Absent => redemptions[s] > 0

SaltInv == Genuine /\ SaltsDiffer /\ NoReplay /\ Remembered /\ BurntForAReason

\* A kept reservation is the recorded one or a full cooldown old.
Recorded ==
    \A a \in Addresses, t \in 0 .. MaxTime :
        grants[a][t] > 0 =>
            /\ t <= clock
            /\ t = last_claim[a] \/ t + Cooldown <= clock

RecordedForAReason ==
    \A a \in Addresses :
        last_claim[a] # Absent =>
            last_claim[a] <= clock /\ grants[a][last_claim[a]] > 0

ClaimInv == Cooldown > 0 => Recorded /\ RecordedForAReason /\ GrantsSpaced

NoClaimsRecorded ==
    Cooldown = 0 => \A a \in Addresses : last_claim[a] = Absent

USE KeeperAssumption, CallsAssumption
    DEF KeeperAssumption, CallsAssumption

-----------------------------------------------------------------------------
\* Every variable keeps its type: times stay within u64 although sums of
\* u64 times may not, and counts of what is kept are never negative.
THEOREM KeeperTypeCorrect == Spec => []TypeOK
<1>1. Init => TypeOK
  BY DEF Init, KeeperInit, TypeOK, KeeperTypeOK, Absent
<1>2. ASSUME TypeOK, [Next]_vars
      PROVE  TypeOK'
  <2> USE <1>2 DEF TypeOK, KeeperTypeOK
  <2>1. ASSUME NEW s \in Salts, NEW a \in Addresses, Challenge(s, a)
        PROVE  TypeOK'
    BY <2>1, NewChallengeType DEF Challenge, Issue
  <2>2. ASSUME NEW ch \in Presentable, Redeem(ch)
        PROVE  TypeOK'
    <3>1. ch \in Challenges
      BY PresentableFields
    <3>2. ch.salt \in Salts /\ ch.expires_at \in 0 .. U64Max
      BY <3>1 DEF Challenges
    <3>3. redemptions' \in [Salts -> Nat]
      BY <2>2, <3>2 DEF Redeem
    <3>4. QED
      BY <2>2, <3>2, <3>3, RetainedTypes DEF Redeem, ConsumeSalt
  <2>3. ASSUME NEW ch \in Presentable, RedeemAgain(ch)
        PROVE  TypeOK'
    BY <2>3, RetainedTypes DEF RedeemAgain, SaltReplayed
  <2>4. ASSUME NEW ch \in issued, GiveBackSalt(ch)
        PROVE  TypeOK'
    <3>1. ch.salt \in Salts
      BY DEF Challenges
    <3>2. redemptions' \in [Salts -> Nat]
      BY <2>4, <3>1 DEF GiveBackSalt
    <3>3. QED
      BY <2>4, <3>1, <3>2 DEF GiveBackSalt, ReleaseSalt
  <2>5. ASSUME NEW a \in Addresses, Begin(a)
        PROVE  TypeOK'
    <3>1. grants' \in [Addresses -> [0 .. MaxTime -> Nat]]
      BY <2>5 DEF Begin
    <3>2. last_claim' \in [Addresses -> (0 .. U64Max) \cup {Absent}]
      BY <2>5, RetainedTypes DEF Begin, BeginClaim
    <3>3. QED
      BY <2>5, <3>1, <3>2 DEF Begin, BeginClaim
  <2>6. ASSUME NEW a \in Addresses, BeginRefused(a)
        PROVE  TypeOK'
    BY <2>6, RetainedTypes DEF BeginRefused, ClaimRefused
  <2>7. ASSUME NEW a \in Addresses, NEW t \in 0 .. MaxTime, GiveBackClaim(a, t)
        PROVE  TypeOK'
    <3>1. grants' \in [Addresses -> [0 .. MaxTime -> Nat]]
      BY <2>7 DEF GiveBackClaim
    <3>2. QED
      BY <2>7, <3>1 DEF GiveBackClaim, ReleaseClaim
  <2>8. CASE Tick
    BY <2>8 DEF Tick, keeper
  <2>9. CASE Restart
    BY <2>9 DEF Restart, KeeperRestart, Absent
  <2>10. CASE UNCHANGED vars
    BY <2>10 DEF vars, keeper
  <2>11. QED
    BY <1>2, <2>1, <2>2, <2>3, <2>4, <2>5, <2>6, <2>7, <2>8, <2>9, <2>10
       DEF Next
<1>3. QED
  BY <1>1, <1>2, PTL DEF Spec

-----------------------------------------------------------------------------
\* The bookkeeping of salts is invariant under every call, tick and restart.
THEOREM KeeperSaltInvariant == Spec => []SaltInv
<1>1. Init => SaltInv
  BY DEF Init, KeeperInit, SaltInv, Genuine, SaltsDiffer, NoReplay,
         Remembered, BurntForAReason
<1>2. ASSUME TypeOK, SaltInv, [Next]_vars
      PROVE  SaltInv'
  <2> USE <1>2
  <2>t. KeeperTypeOK /\ clock \in Nat
    BY DEF TypeOK
  <2>0. /\ boot \in Nat /\ clock \in 0 .. MaxTime
        /\ consumed \in [Salts -> (0 .. U64Max) \cup {Absent}]
        /\ redemptions \in [Salts -> Nat]
        /\ issued \subseteq Challenges
        /\ \A ch \in issued : /\ ch.salt \in Salts
                              /\ ch.expires_at \in 0 .. U64Max
                              /\ ch.hmac.boot_nonce \in Nat
    BY DEF TypeOK, KeeperTypeOK, Challenges, Macs
  <2>1. ASSUME NEW s \in Salts, NEW a \in Addresses, Challenge(s, a)
        PROVE  SaltInv'
    <3> DEFINE new == NewChallenge(s, a, clock)
    <3>1. /\ issued' = issued \cup {new}
          /\ \A ch \in issued : ch.salt # s
          /\ UNCHANGED <<boot, consumed, clock, redemptions>>
      BY <2>1 DEF Challenge, Issue, FreshSalts
    <3>2. /\ new.salt = s
          /\ new.hmac.boot_nonce = boot /\ new.hmac.address = new.address
          /\ new.hmac.salt = s /\ new.hmac.expires_at = new.expires_at
      BY <2>t, NewChallengeType
    <3> HIDE DEF new
    <3>3. Genuine'
      BY <2>0, <3>1, <3>2 DEF SaltInv, Genuine
    <3>4. SaltsDiffer'
      BY <3>1, <3>2 DEF SaltInv, SaltsDiffer
    <3>5. Remembered'
      BY <3>1 DEF SaltInv, Remembered
    <3>6. NoReplay' /\ BurntForAReason'
      BY <3>1 DEF SaltInv, NoReplay, BurntForAReason
    <3>7. QED
      BY <3>3, <3>4, <3>5, <3>6 DEF SaltInv
  <2>2. ASSUME NEW ch \in Presentable, Redeem(ch)
        PROVE  SaltInv'
    <3>1. ch \in issued /\ ch.hmac.boot_nonce = boot
      BY <2>2, <2>t, AuthenticIsIssued DEF Redeem, SaltInv
    <3>2. /\ clock <= ch.expires_at
          /\ RetainedSalts(clock)[ch.salt] = Absent
          /\ consumed' = [RetainedSalts(clock) EXCEPT ![ch.salt] = ch.expires_at]
          /\ redemptions' = [redemptions EXCEPT ![ch.salt] = @ + 1]
          /\ UNCHANGED <<boot, issued, clock>>
      BY <2>0, <2>2, <3>1 DEF Redeem, ConsumeSalt, Expired
    <3>3. redemptions[ch.salt] = 0
      <4> SUFFICES ASSUME redemptions[ch.salt] > 0
                   PROVE  FALSE
        BY <2>0, <3>1
      <4>1. PICK i \in issued :
                /\ i.salt = ch.salt
                /\ \/ i.hmac.boot_nonce < boot
                   \/ clock > i.expires_at
                   \/ consumed[ch.salt] = i.expires_at
        BY <2>0, <3>1 DEF SaltInv, Remembered
      <4>2. i = ch
        BY <3>1, <4>1 DEF SaltInv, SaltsDiffer
      <4>3. consumed[ch.salt] = ch.expires_at
        BY <2>0, <3>1, <3>2, <4>1, <4>2
      <4>4. QED
        BY <2>0, <3>1, <3>2, <4>3 DEF RetainedSalts, Absent
    <3>4. NoReplay'
      BY <2>0, <3>1, <3>2, <3>3 DEF SaltInv, NoReplay
    <3>5. Remembered'
      <4> SUFFICES ASSUME NEW s \in Salts, redemptions'[s] > 0
                   PROVE  (\E i \in issued :
                              /\ i.salt = s
                              /\ \/ i.hmac.boot_nonce < boot
                                 \/ clock > i.expires_at
                                 \/ consumed[s] = i.expires_at)'
        BY DEF Remembered
      <4>1. CASE s = ch.salt
        BY <2>0, <3>1, <3>2, <4>1 DEF RetainedSalts
      <4>2. CASE s # ch.salt
        <5>1. PICK i \in issued :
                  /\ i.salt = s
                  /\ \/ i.hmac.boot_nonce < boot
                     \/ clock > i.expires_at
                     \/ consumed[s] = i.expires_at
          BY <2>0, <3>2, <4>2 DEF SaltInv, Remembered
        <5>2. clock > i.expires_at \/ consumed'[s] = i.expires_at
                \/ i.hmac.boot_nonce < boot
          BY <2>0, <3>2, <4>2, <5>1 DEF RetainedSalts
        <5>3. QED
          BY <3>2, <5>1, <5>2
      <4>3. QED
        BY <4>1, <4>2
    <3>6. BurntForAReason'
      BY <2>0, <3>1, <3>2 DEF SaltInv, BurntForAReason, RetainedSalts
    <3>7. Genuine' /\ SaltsDiffer'
      BY <3>2 DEF SaltInv, Genuine, SaltsDiffer
    <3>8. QED
      BY <3>4, <3>5, <3>6, <3>7 DEF SaltInv
  <2>3. ASSUME NEW ch \in Presentable, RedeemAgain(ch)
        PROVE  SaltInv'
    <3>1. /\ consumed' = RetainedSalts(clock)
          /\ UNCHANGED <<boot, issued, clock, redemptions>>
      BY <2>3 DEF RedeemAgain, SaltReplayed
    <3>2. Remembered' /\ BurntForAReason'
      BY <2>0, <3>1
         DEF SaltInv, Remembered, BurntForAReason, RetainedSalts
    <3>3. QED
      BY <3>1, <3>2 DEF SaltInv, Genuine, SaltsDiffer, NoReplay
  <2>4. ASSUME NEW ch \in issued, GiveBackSalt(ch)
        PROVE  SaltInv'
    <3>1. /\ redemptions[ch.salt] > 0
          /\ redemptions' = [redemptions EXCEPT ![ch.salt] = @ - 1]
          /\ consumed' = [consumed EXCEPT ![ch.salt] = Absent]
          /\ UNCHANGED <<boot, issued, clock>>
      BY <2>4 DEF GiveBackSalt, ReleaseSalt
    <3>2. redemptions'[ch.salt] = 0
      BY <2>0, <3>1 DEF SaltInv, NoReplay
    <3>3. NoReplay' /\ Remembered' /\ BurntForAReason'
      BY <2>0, <3>1, <3>2 DEF SaltInv, NoReplay, Remembered, BurntForAReason
    <3>4. QED
      BY <3>1, <3>3 DEF SaltInv, Genuine, SaltsDiffer
  <2>5. ASSUME UNCHANGED <<boot, issued, consumed, redemptions>>,
               clock' \in Nat, clock' >= clock
        PROVE  SaltInv'
    <3>1. Remembered'
      BY <2>0, <2>5 DEF SaltInv, Remembered
    <3>2. QED
      BY <2>5, <3>1
         DEF SaltInv, Genuine, SaltsDiffer, NoReplay, BurntForAReason
  <2>6. CASE Restart
    <3>1. /\ boot' = boot + 1
          /\ consumed' = [s \in Salts |-> Absent]
          /\ UNCHANGED <<issued, clock, redemptions>>
      BY <2>6 DEF Restart, KeeperRestart
    <3>2. Genuine'
      BY <2>0, <3>1 DEF SaltInv, Genuine
    <3>3. Remembered'
      <4> SUFFICES ASSUME NEW s \in Salts, redemptions[s] > 0
                   PROVE  \E i \in issued : i.salt = s /\ i.hmac.boot_nonce < boot'
        BY <3>1 DEF Remembered
      <4>1. PICK i \in issued : i.salt = s
        BY DEF SaltInv, Remembered
      <4>2. i.hmac.boot_nonce < boot'
        BY <2>0, <3>1 DEF SaltInv, Genuine
      <4>3. QED
        BY <4>1, <4>2
    <3>4. BurntForAReason' /\ SaltsDiffer' /\ NoReplay'
      BY <3>1 DEF SaltInv, BurntForAReason, SaltsDiffer, NoReplay
    <3>5. QED
      BY <3>2, <3>3, <3>4 DEF SaltInv
  <2>7. ASSUME NEW a \in Addresses,
               Begin(a) \/ BeginRefused(a)
                 \/ \E t \in 0 .. MaxTime : GiveBackClaim(a, t)
        PROVE  SaltInv'
    BY <2>0, <2>5, <2>7 DEF Begin, BeginClaim, BeginRefused, ClaimRefused,
                            GiveBackClaim, ReleaseClaim
  <2>8. CASE Tick
    BY <2>0, <2>5, <2>8 DEF Tick, keeper
  <2>9. CASE UNCHANGED vars
    BY <2>0, <2>5, <2>9 DEF vars, keeper
  <2>10. QED
    BY <2>1, <2>2, <2>3, <2>4, <2>6, <2>7, <2>8, <2>9 DEF Next
<1>3. QED
  BY <1>1, <1>2, KeeperTypeCorrect, PTL DEF Spec

\* The same challenge is never redeemed twice: pruning at expiry, releases
\* at any later time and restarts with a pinned secret included.
THEOREM KeeperNoReplay == Spec => []NoReplay
<1>1. SaltInv => NoReplay
  BY DEF SaltInv
<1>2. QED
  BY <1>1, KeeperSaltInvariant, PTL

-----------------------------------------------------------------------------
\* When the reservation of one address is refused or lapses nothing that is
\* kept and less than a cooldown old is forgotten.
LEMMA PruningKeepsRecent ==
    ASSUME TypeOK, Cooldown > 0, Recorded, RecordedForAReason,
           NEW a \in Addresses
    PROVE  LET last == RetainedClaims(clock)[a]
           IN  /\ \A t \in 0 .. MaxTime :
                      grants[a][t] > 0 => t = last \/ t + Cooldown <= clock
               /\ last # Absent => last = last_claim[a]
<1> DEFINE last == RetainedClaims(clock)[a]
<1>1. last_claim[a] \in (0 .. U64Max) \cup {Absent} /\ clock \in 0 .. MaxTime
  BY DEF TypeOK, KeeperTypeOK
<1>2. CASE last = last_claim[a]
  BY <1>2 DEF Recorded
<1>3. CASE last # last_claim[a]
  <2>1. last = Absent /\ last_claim[a] # Absent
    BY <1>3 DEF RetainedClaims
  <2>2. SatAdd(last_claim[a], Cooldown) < clock
    BY <1>1, <1>3 DEF RetainedClaims, SatAdd
  <2>3. last_claim[a] + Cooldown < clock
    BY <1>1, <2>1, <2>2, Deadline
  <2>4. QED
    BY <1>1, <2>1, <2>3 DEF Recorded
<1>4. QED
  BY <1>2, <1>3

\* The bookkeeping of reservations is invariant.
THEOREM KeeperClaimInvariant == Spec => [](ClaimInv /\ NoClaimsRecorded)
<1>1. Init => ClaimInv /\ NoClaimsRecorded
  BY DEF Init, KeeperInit, ClaimInv, NoClaimsRecorded, Recorded,
         RecordedForAReason, GrantsSpaced
<1>2. ASSUME TypeOK, ClaimInv, NoClaimsRecorded, [Next]_vars
      PROVE  ClaimInv' /\ NoClaimsRecorded'
  <2> USE <1>2
  <2>0. /\ clock \in 0 .. MaxTime
        /\ last_claim \in [Addresses -> (0 .. U64Max) \cup {Absent}]
        /\ grants \in [Addresses -> [0 .. MaxTime -> Nat]]
    BY DEF TypeOK, KeeperTypeOK
  <2>1. ASSUME UNCHANGED <<last_claim, grants>>, clock' \in Nat, clock' >= clock
        PROVE  ClaimInv' /\ NoClaimsRecorded'
    <3>1. ASSUME Cooldown > 0
          PROVE  Recorded' /\ RecordedForAReason' /\ GrantsSpaced'
      BY <2>0, <2>1, <3>1
         DEF ClaimInv, Recorded, RecordedForAReason, GrantsSpaced, Absent
    <3>2. QED
      BY <2>1, <3>1 DEF ClaimInv, NoClaimsRecorded
  <2>2. ASSUME NEW a \in Addresses, Begin(a)
        PROVE  ClaimInv' /\ NoClaimsRecorded'
    <3>1. NoClaimsRecorded'
      BY <2>2 DEF Begin, BeginClaim, NoClaimsRecorded
    <3>2. ASSUME Cooldown > 0
          PROVE  Recorded' /\ RecordedForAReason' /\ GrantsSpaced'
      <4>1. Recorded /\ RecordedForAReason /\ GrantsSpaced
        BY <3>2 DEF ClaimInv
      <4>2. /\ last_claim' = [RetainedClaims(clock) EXCEPT ![a] = clock]
            /\ grants' = [grants EXCEPT ![a][clock] = @ + 1]
            /\ clock' = clock
            /\ ~CoolingDown(a, clock)
        BY <2>2, <3>2 DEF Begin, BeginClaim
      <4>3. \A t \in 0 .. MaxTime : grants[a][t] > 0 => t + Cooldown <= clock
        <5>1. SUFFICES ASSUME NEW t \in 0 .. MaxTime, grants[a][t] > 0
                       PROVE  t + Cooldown <= clock
          OBVIOUS
        <5>2. CASE t = RetainedClaims(clock)[a]
          <6>1. Remaining(t, clock) = 0
            BY <2>0, <3>2, <4>2, <5>2, SMTT(20)
               DEF CoolingDown, Absent, Remaining, SatSub, SatAdd
          <6>2. QED
            BY <2>0, <6>1, Deadline
        <5>3. QED
          BY <3>2, <4>1, <5>1, <5>2, PruningKeepsRecent
      <4>4. grants[a][clock] = 0
        BY <2>0, <3>2, <4>3
      <4>5. /\ \A t \in 0 .. MaxTime :
                   grants'[a][t] = IF t = clock THEN 1 ELSE grants[a][t]
            /\ \A b \in Addresses \ {a} : grants'[b] = grants[b]
        BY <2>0, <4>2, <4>4
      <4>6. /\ last_claim'[a] = clock
            /\ \A b \in Addresses \ {a} :
                   last_claim'[b] = RetainedClaims(clock)[b]
        BY <2>0, <4>2 DEF RetainedClaims
      <4>7. Recorded'
        <5> SUFFICES ASSUME NEW b \in Addresses, NEW t \in 0 .. MaxTime,
                            grants'[b][t] > 0
                     PROVE  /\ t <= clock
                            /\ t = last_claim'[b] \/ t + Cooldown <= clock
          BY <4>2 DEF Recorded
        <5>1. CASE b = a
          <6>1. CASE t = clock
            BY <2>0, <4>6, <5>1, <6>1
          <6>2. CASE t # clock
            <7>1. grants[a][t] > 0
              BY <4>5, <5>1, <6>2
            <7>2. QED
              BY <2>0, <4>3, <5>1, <7>1
          <6>3. QED
            BY <6>1, <6>2
        <5>2. CASE b # a
          BY <3>2, <4>1, <4>5, <4>6, <5>2, PruningKeepsRecent DEF Recorded
        <5>3. QED
          BY <5>1, <5>2
      <4>8. RecordedForAReason'
        <5> SUFFICES ASSUME NEW b \in Addresses, last_claim'[b] # Absent
                     PROVE  /\ last_claim'[b] <= clock
                            /\ grants'[b][last_claim'[b]] > 0
          BY <4>2 DEF RecordedForAReason
        <5>1. CASE b = a
          BY <2>0, <4>5, <4>6, <5>1
        <5>2. CASE b # a
          BY <3>2, <4>1, <4>5, <4>6, <5>2, PruningKeepsRecent
             DEF RecordedForAReason
        <5>3. QED
          BY <5>1, <5>2
      <4>9. GrantsSpaced'
        <5> SUFFICES ASSUME NEW b \in Addresses,
                            NEW t \in 0 .. MaxTime, NEW u \in 0 .. MaxTime
                     PROVE  /\ grants'[b][t] <= 1
                            /\ (t < u /\ grants'[b][t] > 0 /\ grants'[b][u] > 0)
                                   => u - t >= Cooldown
          BY DEF GrantsSpaced
        <5>1. CASE b = a
          <6>1. grants'[a][t] <= 1
            <7>1. grants[a][t] <= 1
              BY <3>2, <4>1 DEF GrantsSpaced
            <7>2. QED
              BY <4>5, <7>1
          <6>2. ASSUME t < u, grants'[a][t] > 0, grants'[a][u] > 0
                PROVE  u - t >= Cooldown
            <7>1. CASE t # clock /\ u # clock
              <8>1. grants[a][t] > 0 /\ grants[a][u] > 0
                BY <4>5, <6>2, <7>1
              <8>2. QED
                BY <3>2, <4>1, <6>2, <8>1 DEF GrantsSpaced
            <7>2. CASE u = clock
              <8>1. grants[a][t] > 0
                BY <2>0, <4>5, <6>2, <7>2
              <8>2. QED
                BY <2>0, <4>3, <7>2, <8>1
            <7>3. CASE t = clock
              <8>1. grants[a][u] > 0
                BY <2>0, <4>5, <6>2, <7>3
              <8>2. QED
                BY <2>0, <4>3, <6>2, <7>3, <8>1
            <7>4. QED
              BY <7>1, <7>2, <7>3
          <6>3. QED
            BY <5>1, <6>1, <6>2
        <5>2. CASE b # a
          BY <3>2, <4>1, <4>5, <5>2 DEF GrantsSpaced
        <5>3. QED
          BY <5>1, <5>2
      <4>10. QED
        BY <4>7, <4>8, <4>9
    <3>3. QED
      BY <3>1, <3>2 DEF ClaimInv
  <2>3. ASSUME NEW a \in Addresses, BeginRefused(a)
        PROVE  ClaimInv' /\ NoClaimsRecorded'
    <3>1. /\ last_claim' = RetainedClaims(clock)
          /\ Cooldown # 0
          /\ UNCHANGED <<grants, clock>>
      BY <2>3 DEF BeginRefused, ClaimRefused, CoolingDown
    <3>2. Recorded /\ RecordedForAReason /\ GrantsSpaced
      BY <3>1 DEF ClaimInv
    <3>3. Recorded' /\ RecordedForAReason'
      BY <3>1, <3>2, PruningKeepsRecent DEF Recorded, RecordedForAReason
    <3>4. QED
      BY <3>1, <3>2, <3>3 DEF ClaimInv, NoClaimsRecorded, GrantsSpaced
  <2>4. ASSUME NEW a \in Addresses, NEW t \in 0 .. MaxTime, GiveBackClaim(a, t)
        PROVE  ClaimInv' /\ NoClaimsRecorded'
    <3>1. /\ grants[a][t] > 0
          /\ grants' = [grants EXCEPT ![a][t] = @ - 1]
          /\ last_claim' = IF last_claim[a] = t
                             THEN [last_claim EXCEPT ![a] = Absent]
                             ELSE last_claim
          /\ UNCHANGED clock
      BY <2>4 DEF GiveBackClaim, ReleaseClaim
    <3>2. NoClaimsRecorded'
      BY <2>0, <3>1 DEF NoClaimsRecorded
    <3>3. ASSUME Cooldown > 0
          PROVE  Recorded' /\ RecordedForAReason' /\ GrantsSpaced'
      <4>1. Recorded /\ RecordedForAReason /\ GrantsSpaced
        BY <3>3 DEF ClaimInv
      <4>2. grants[a][t] = 1
        BY <2>0, <3>1, <3>3, <4>1 DEF GrantsSpaced
      <4>3. \A b \in Addresses, u \in 0 .. MaxTime :
                grants'[b][u] = IF b = a /\ u = t THEN 0 ELSE grants[b][u]
        BY <2>0, <3>1, <4>2
      <4>4. \A b \in Addresses :
                last_claim'[b] = IF b = a /\ last_claim[a] = t
                                   THEN Absent ELSE last_claim[b]
        BY <2>0, <3>1
      <4>5. Recorded'
        BY <2>0, <3>1, <4>1, <4>3, <4>4 DEF Recorded
      <4>6. RecordedForAReason'
        <5> SUFFICES ASSUME NEW b \in Addresses, last_claim'[b] # Absent
                     PROVE  /\ last_claim'[b] <= clock
                            /\ grants'[b][last_claim'[b]] > 0
          BY <3>1 DEF RecordedForAReason
        <5>1. /\ last_claim'[b] = last_claim[b]
              /\ ~(b = a /\ last_claim[b] = t)
              /\ last_claim[b] \in 0 .. MaxTime
          BY <2>0, <4>1, <4>4 DEF RecordedForAReason
        <5>2. /\ last_claim[b] <= clock
              /\ grants[b][last_claim[b]] > 0
          BY <2>0, <4>1, <5>1 DEF RecordedForAReason, Absent
        <5>3. grants'[b][last_claim[b]] = grants[b][last_claim[b]]
          BY <4>3, <5>1
        <5>4. QED
          BY <5>1, <5>2, <5>3
      <4>7. GrantsSpaced'
        <5> SUFFICES ASSUME NEW b \in Addresses,
                            NEW v \in 0 .. MaxTime, NEW u \in 0 .. MaxTime
                     PROVE  /\ grants'[b][v] <= 1
                            /\ (v < u /\ grants'[b][v] > 0 /\ grants'[b][u] > 0)
                                   => u - v >= Cooldown
          BY DEF GrantsSpaced
        <5>1. grants'[b][v] <= 1
          <6>1. grants[b][v] <= 1
            BY <3>3, <4>1 DEF GrantsSpaced
          <6>2. QED
            BY <4>3, <6>1
        <5>2. /\ grants'[b][v] > 0 => grants[b][v] > 0
              /\ grants'[b][u] > 0 => grants[b][u] > 0
          BY <4>3
        <5>3. QED
          BY <3>3, <4>1, <5>1, <5>2 DEF GrantsSpaced
      <4>8. QED
        BY <4>5, <4>6, <4>7
    <3>4. QED
      BY <3>2, <3>3 DEF ClaimInv
  <2>5. CASE Restart
    BY <2>0, <2>5 DEF Restart, KeeperRestart, ClaimInv, NoClaimsRecorded,
                      Recorded, RecordedForAReason, GrantsSpaced
  <2>6. CASE Tick
    BY <2>0, <2>1, <2>6 DEF Tick, keeper
  <2>7. ASSUME UNCHANGED <<last_claim, grants, clock>>
        PROVE  ClaimInv' /\ NoClaimsRecorded'
    BY <2>0, <2>1, <2>7
  <2>8. ASSUME NEW s \in Salts, NEW a \in Addresses, Challenge(s, a)
        PROVE  ClaimInv' /\ NoClaimsRecorded'
    BY <2>7, <2>8 DEF Challenge, Issue
  <2>9. ASSUME NEW ch \in Presentable, Redeem(ch) \/ RedeemAgain(ch)
        PROVE  ClaimInv' /\ NoClaimsRecorded'
    BY <2>7, <2>9 DEF Redeem, ConsumeSalt, RedeemAgain, SaltReplayed
  <2>10. ASSUME NEW ch \in issued, GiveBackSalt(ch)
         PROVE  ClaimInv' /\ NoClaimsRecorded'
    BY <2>7, <2>10 DEF GiveBackSalt, ReleaseSalt
  <2>11. CASE UNCHANGED vars
    BY <2>7, <2>11 DEF vars, keeper
  <2>12. QED
    BY <2>2, <2>3, <2>4, <2>5, <2>6, <2>8, <2>9, <2>10, <2>11 DEF Next
<1>3. QED
  BY <1>1, <1>2, KeeperTypeCorrect, PTL DEF Spec

\* With a cooldown, kept reservations for one address are a full cooldown
\* apart, for every cooldown and every schedule of calls and releases.
THEOREM KeeperGrantsSpaced == Spec => []GrantsSpaced
<1>1. ClaimInv => GrantsSpaced
  BY DEF ClaimInv, GrantsSpaced
<1>2. QED
  BY <1>1, KeeperClaimInvariant, PTL

\* Nobody is refused on account of something that was given back.
THEOREM KeeperRefusalsJustified == Spec => []RefusalsJustified
<1>1. ASSUME TypeOK, SaltInv, ClaimInv, NoClaimsRecorded
      PROVE  RefusalsJustified
  <2>1. ASSUME NEW a \in Addresses, CooldownRemaining(a, clock) > 0
        PROVE  \E t \in 0 .. clock : grants[a][t] > 0 /\ clock < t + Cooldown
    <3>1. /\ Cooldown > 0
          /\ last_claim[a] # Absent
          /\ Remaining(last_claim[a], clock) > 0
      BY <2>1 DEF CooldownRemaining
    <3>2. /\ last_claim[a] \in 0 .. clock
          /\ grants[a][last_claim[a]] > 0
      BY <1>1, <3>1
         DEF TypeOK, KeeperTypeOK, ClaimInv, RecordedForAReason
    <3>3. clock < last_claim[a] + Cooldown
      BY <1>1, <3>1, <3>2, Deadline DEF TypeOK
    <3>4. QED
      BY <3>2, <3>3
  <2>2. QED
    BY <1>1, <2>1 DEF RefusalsJustified, SaltInv, BurntForAReason
<1>2. QED
  BY <1>1, KeeperTypeCorrect, KeeperSaltInvariant, KeeperClaimInvariant, PTL
=============================================================================
