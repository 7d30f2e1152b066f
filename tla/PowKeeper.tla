----------------------------- MODULE PowKeeper -----------------------------
(***************************************************************************)
(* The state behind PowKeeper (src/pow.rs) and its operations.  Each       *)
(* operation runs in one critical section of one mutex, so each is one     *)
(* atomic action; an operation with two results is two actions, guarded by *)
(* the condition that selects the result.  The callers are elsewhere:      *)
(* KeeperCalls (any caller) and ClaimFlow (the HTTP handlers).             *)
(*                                                                         *)
(* Time is in whole seconds.  A HashMap is a total function that yields    *)
(* Absent for a missing key.  The HMAC is ideal: a MAC is the record of    *)
(* its inputs, so it can be produced only by the keeper and two MACs are   *)
(* equal exactly when their inputs are.                                    *)
(***************************************************************************)
EXTENDS Integers

CONSTANTS
    Salts,          \* the 16-byte salts that random_array may draw
    Addresses,      \* the recipients' addresses
    Cooldown,       \* FAUCET_COOLDOWN_SECS; 0 disables the cooldown
    Ttl,            \* POW_TTL_SECS
    U64Max,         \* the largest u64, where saturating arithmetic stops
    PinnedSecret    \* TRUE when POW_HMAC_SECRET is set

ASSUME KeeperAssumption ==
    /\ Cooldown \in Nat
    /\ Ttl \in Nat
    /\ U64Max \in Nat
    /\ PinnedSecret \in BOOLEAN

VARIABLES
    boot,           \* identifies the process: the random boot_nonce
    consumed,       \* consumed[s]: expiry recorded with the burnt salt s
    last_claim,     \* last_claim[a]: when address a reserved its claim
    issued          \* every challenge handed out, in clients' hands

keeper == <<boot, consumed, last_claim, issued>>

Absent == -1

\* Mutant of SatAdd: a plain addition that does not stop.
SatAddUnbounded(x, y) == x + y

SatAdd(x, y) == IF x + y > U64Max THEN U64Max ELSE x + y
SatSub(x, y) == IF x > y THEN x - y ELSE 0

\* A random secret is drawn at start-up unless POW_HMAC_SECRET pins it.
Secret == IF PinnedSecret THEN 0 ELSE boot

\* Mutant of Mac: the boot nonce is left out.
MacWithoutBoot(address, salt, expires_at) ==
    [secret |-> Secret, boot_nonce |-> 0,
     address |-> address, salt |-> salt, expires_at |-> expires_at]

Mac(address, salt, expires_at) ==
    [secret |-> Secret, boot_nonce |-> boot,
     address |-> address, salt |-> salt, expires_at |-> expires_at]

Macs == [secret : Nat, boot_nonce : Nat, address : Addresses,
         salt : Salts, expires_at : 0 .. U64Max]

Challenges == [salt : Salts, address : Addresses,
               expires_at : 0 .. U64Max, hmac : Macs]

NewChallenge(salt, address, now) ==
    LET expires_at == SatAdd(now, Ttl)
    IN  [salt |-> salt, address |-> address, expires_at |-> expires_at,
         hmac |-> Mac(address, salt, expires_at)]

FreshSalts == Salts \ {ch.salt : ch \in issued}

\* What a client may send back: a challenge it was given, as it stands or
\* with the recipient or the expiry altered.
Presentable ==
    issued \cup {[ch EXCEPT !.address = a] : ch \in issued, a \in Addresses}
           \cup {[ch EXCEPT !.expires_at = U64Max] : ch \in issued}

-----------------------------------------------------------------------------
KeeperInit ==
    /\ boot = 0
    /\ consumed = [s \in Salts |-> Absent]
    /\ last_claim = [a \in Addresses |-> Absent]
    /\ issued = {}

Issue(salt, address, now) ==
    /\ salt \in FreshSalts
    /\ issued' = issued \cup {NewChallenge(salt, address, now)}
    /\ UNCHANGED <<boot, consumed, last_claim>>

\* Mutant of Authentic: the MAC does not cover the recipient.
AuthenticForAnyone(ch) == ch.hmac = Mac(ch.hmac.address, ch.salt, ch.expires_at)

\* verify_challenge: the MAC is re-derived first, then the expiry is checked.
Authentic(ch) == ch.hmac = Mac(ch.address, ch.salt, ch.expires_at)
Expired(ch, now) == now > ch.expires_at

\* Mutant of RetainedSalts: a salt is forgotten in its last valid second.
RetainedSaltsTooShort(now) ==
    [s \in Salts |-> IF consumed[s] > now THEN consumed[s] ELSE Absent]

\* consume_salt: expired entries are pruned whatever the result.
RetainedSalts(now) ==
    [s \in Salts |-> IF consumed[s] >= now THEN consumed[s] ELSE Absent]

\* Mutant of ConsumeSalt: the salt is inserted without being looked up.
ConsumeSaltUnchecked(salt, expires_at, now) ==
    /\ consumed' = [RetainedSalts(now) EXCEPT ![salt] = expires_at]
    /\ UNCHANGED <<boot, last_claim, issued>>

ConsumeSalt(salt, expires_at, now) ==
    /\ RetainedSalts(now)[salt] = Absent
    /\ consumed' = [RetainedSalts(now) EXCEPT ![salt] = expires_at]
    /\ UNCHANGED <<boot, last_claim, issued>>

SaltReplayed(salt, now) ==
    /\ RetainedSalts(now)[salt] # Absent
    /\ consumed' = RetainedSalts(now)
    /\ UNCHANGED <<boot, last_claim, issued>>

ReleaseSalt(salt) ==
    /\ consumed' = [consumed EXCEPT ![salt] = Absent]
    /\ UNCHANGED <<boot, last_claim, issued>>

\* Mutant of Remaining: one second too many.
RemainingOneMore(last, now) == SatSub(SatAdd(last, Cooldown) + 1, now)

Remaining(last, now) == SatSub(SatAdd(last, Cooldown), now)

CooldownRemaining(address, now) ==
    IF Cooldown = 0 \/ last_claim[address] = Absent
      THEN 0
      ELSE Remaining(last_claim[address], now)

\* try_begin_claim: lapsed reservations are pruned before the check.
RetainedClaims(now) ==
    [a \in Addresses |->
        IF last_claim[a] # Absent /\ SatAdd(last_claim[a], Cooldown) >= now
          THEN last_claim[a] ELSE Absent]

CoolingDown(address, now) ==
    LET last == RetainedClaims(now)[address]
    IN  /\ Cooldown # 0
        /\ last # Absent
        /\ Remaining(last, now) > 0

BeginClaim(address, now) ==
    /\ ~CoolingDown(address, now)
    /\ last_claim' = IF Cooldown = 0
                       THEN last_claim
                       ELSE [RetainedClaims(now) EXCEPT ![address] = now]
    /\ UNCHANGED <<boot, consumed, issued>>

ClaimRefused(address, now) ==
    /\ CoolingDown(address, now)
    /\ last_claim' = RetainedClaims(now)
    /\ UNCHANGED <<boot, consumed, issued>>

\* Mutant of ReleaseClaim: whatever entry is there is cleared.
ReleaseClaimAny(address, reserved_at) ==
    /\ last_claim' = [last_claim EXCEPT ![address] = Absent]
    /\ UNCHANGED <<boot, consumed, issued>>

\* Only the reservation made at reserved_at is cleared, never a newer one.
ReleaseClaim(address, reserved_at) ==
    /\ last_claim' = IF last_claim[address] = reserved_at
                       THEN [last_claim EXCEPT ![address] = Absent]
                       ELSE last_claim
    /\ UNCHANGED <<boot, consumed, issued>>

\* The process ends and a new one starts: memory is lost, a boot nonce is
\* drawn, the challenges already handed out stay with the clients.
KeeperRestart ==
    /\ boot' = boot + 1
    /\ consumed' = [s \in Salts |-> Absent]
    /\ last_claim' = [a \in Addresses |-> Absent]
    /\ UNCHANGED issued

KeeperTypeOK ==
    /\ boot \in Nat
    /\ consumed \in [Salts -> (0 .. U64Max) \cup {Absent}]
    /\ last_claim \in [Addresses -> (0 .. U64Max) \cup {Absent}]
    /\ issued \subseteq Challenges
=============================================================================
