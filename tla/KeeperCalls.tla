---------------------------- MODULE KeeperCalls ----------------------------
(***************************************************************************)
(* PowKeeper driven by any number of callers: every legal call, in any     *)
(* order, at the current second.  The history variables remember what the  *)
(* keeper granted and never prune it, so the properties say that pruning,  *)
(* releases and restarts lose nothing that still matters.                  *)
(*                                                                         *)
(* The calls carry the time at which they run and the clock does not go    *)
(* back.  ClaimFlow drops that: its handlers use a time read earlier.      *)
(***************************************************************************)
EXTENDS PowKeeper

CONSTANTS
    MaxTime,        \* bound: the clock stops there
    MaxBoots        \* bound: how often the process may restart

ASSUME CallsAssumption ==
    /\ MaxTime \in Nat
    /\ MaxTime < U64Max     \* 2^64 seconds are not reached
    /\ MaxBoots \in Nat

VARIABLES
    clock,
    redemptions,    \* redemptions[s]: consumptions of s not released
    grants          \* grants[a][t]: reservations for a made at t, not
                    \* released, by this process

vars == <<keeper, clock, redemptions, grants>>

Init ==
    /\ KeeperInit
    /\ clock = 0
    /\ redemptions = [s \in Salts |-> 0]
    /\ grants = [a \in Addresses |-> [t \in 0 .. MaxTime |-> 0]]

Challenge(salt, a) ==
    /\ CooldownRemaining(a, clock) = 0
    /\ Issue(salt, a, clock)
    /\ UNCHANGED <<clock, redemptions, grants>>

Redeem(ch) ==
    /\ Authentic(ch)
    /\ ~Expired(ch, clock)
    /\ ConsumeSalt(ch.salt, ch.expires_at, clock)
    /\ redemptions' = [redemptions EXCEPT ![ch.salt] = @ + 1]
    /\ UNCHANGED <<clock, grants>>

RedeemAgain(ch) ==
    /\ Authentic(ch)
    /\ ~Expired(ch, clock)
    /\ SaltReplayed(ch.salt, clock)
    /\ UNCHANGED <<clock, redemptions, grants>>

\* The caller that consumed the salt gives it back, at any later time.
GiveBackSalt(ch) ==
    /\ ch.hmac.boot_nonce = boot
    /\ redemptions[ch.salt] > 0
    /\ ReleaseSalt(ch.salt)
    /\ redemptions' = [redemptions EXCEPT ![ch.salt] = @ - 1]
    /\ UNCHANGED <<clock, grants>>

Begin(a) ==
    /\ BeginClaim(a, clock)
    /\ grants' = [grants EXCEPT ![a][clock] = @ + 1]
    /\ UNCHANGED <<clock, redemptions>>

BeginRefused(a) ==
    /\ ClaimRefused(a, clock)
    /\ UNCHANGED <<clock, redemptions, grants>>

\* The caller that reserved at t gives the reservation back, later.
GiveBackClaim(a, t) ==
    /\ grants[a][t] > 0
    /\ ReleaseClaim(a, t)
    /\ grants' = [grants EXCEPT ![a][t] = @ - 1]
    /\ UNCHANGED <<clock, redemptions>>

Tick ==
    /\ clock < MaxTime
    /\ clock' = clock + 1
    /\ UNCHANGED <<keeper, redemptions, grants>>

Restart ==
    /\ boot < MaxBoots
    /\ KeeperRestart
    /\ grants' = [a \in Addresses |-> [t \in 0 .. MaxTime |-> 0]]
    /\ UNCHANGED <<clock, redemptions>>

Next ==
    \/ \E a \in Addresses, salt \in Salts : Challenge(salt, a)
    \/ \E ch \in Presentable : Redeem(ch) \/ RedeemAgain(ch)
    \/ \E ch \in issued : GiveBackSalt(ch)
    \/ \E a \in Addresses : Begin(a) \/ BeginRefused(a)
    \/ \E a \in Addresses, t \in 0 .. MaxTime : GiveBackClaim(a, t)
    \/ Tick
    \/ Restart

Spec == Init /\ [][Next]_vars
-----------------------------------------------------------------------------
TypeOK ==
    /\ KeeperTypeOK
    /\ clock \in 0 .. MaxTime
    /\ redemptions \in [Salts -> Nat]
    /\ grants \in [Addresses -> [0 .. MaxTime -> Nat]]

\* A challenge is redeemed at most once: forgetting an expired salt, giving
\* a salt back after it was forgotten, and losing the whole set in a restart
\* never let the same challenge be consumed twice (pow.rs 16-20, 226-247).
NoReplay == \A s \in Salts : redemptions[s] <= 1

\* With a cooldown, two reservations for one address that are both kept are
\* a full cooldown apart, although lapsed entries are pruned and a late
\* release may meet a newer entry (pow.rs 263-300).
GrantsSpaced ==
    Cooldown > 0 =>
        \A a \in Addresses :
            /\ \A t \in 0 .. MaxTime : grants[a][t] <= 1
            /\ \A t, u \in 0 .. MaxTime :
                   (t < u /\ grants[a][t] > 0 /\ grants[a][u] > 0)
                       => u - t >= Cooldown

\* The keeper refuses only for a reason: an address cools down because a
\* reservation made less than a cooldown ago is kept, and a salt counts as
\* consumed because one redemption of it is kept.  A release therefore
\* really frees what it names (pow.rs 239-247, 291-300).
RefusalsJustified ==
    /\ \A a \in Addresses :
           CooldownRemaining(a, clock) > 0 =>
               \E t \in 0 .. clock : grants[a][t] > 0 /\ clock < t + Cooldown
    /\ \A s \in Salts : consumed[s] # Absent => redemptions[s] > 0
=============================================================================
