----------------------------- MODULE ClaimFlow -----------------------------
(***************************************************************************)
(* The faucet service: challenge_handler and claim_handler (src/server.rs) *)
(* over the keeper and the dispenser, the clients that call them and the   *)
(* wall clock.                                                             *)
(*                                                                         *)
(* Handlers of different requests interleave between any two operations on *)
(* shared state.  claim_handler reads the clock once (line 179) and uses   *)
(* that time for every later check; MaxSyncSecs bounds how many times the  *)
(* clock may advance before the last of those checks, MaxClaimSecs how     *)
(* often while the claim is in flight.                                     *)
(***************************************************************************)
EXTENDS PowKeeper, Dispenser

CONSTANTS
    MaxSyncSecs,    \* a handler's checks end within so many seconds
    MaxClaimSecs,   \* a claim is answered within so many seconds
    MaxTime,        \* bound: the clock stops there
    MaxBoots,       \* bound: how often the process may restart
    MaxSetBack      \* the clock is set back by so many seconds at most

ASSUME FlowAssumption ==
    /\ MaxSyncSecs \in Nat
    /\ MaxClaimSecs \in Nat
    /\ MaxTime \in Nat /\ MaxTime < U64Max
    /\ MaxBoots \in Nat
    /\ MaxSetBack \in Nat

VARIABLES
    clock,      \* SystemTime in seconds
    pc,         \* pc[c]: the next step of the handler of claim c
    req,        \* req[c]: the challenge that claim c presents
    now,        \* now[c]: the time its handler read
    response    \* response[c]: the code answered, "none" until then

handlers == <<clock, pc, req, now, response>>
vars == <<keeper, dispenser, handlers>>

NoChallenge ==
    [salt |-> "none", address |-> "none", expires_at |-> 0, hmac |-> "none"]

\* Each label names what the handler does next; "idle" before the request
\* arrives, "done" once it is answered, "gone" when nobody is answered.
Checks == {"reserve", "admit", "consume"}
Reserved == {"admit", "busy", "consume", "drop_permit", "reused",
             "dispense", "await"}
Active == {"reserve", "undo_salt"} \cup Reserved
PCs == {"idle", "done", "gone"} \cup Active

Errors == {"BAD_REQUEST", "CHALLENGE_INVALID", "CHALLENGE_EXPIRED", "INVALID_POW",
           "COOLDOWN", "FAUCET_BUSY", "CHALLENGE_REUSED",
           "INSUFFICIENT_FUNDS", "RPC_ERROR"}

Go(c, label) == pc' = [pc EXCEPT ![c] = label]

Answer(c, code) ==
    /\ Go(c, "done")
    /\ response' = [response EXCEPT ![c] = code]
    /\ UNCHANGED <<clock, req, now>>

Proceed(c, label) ==
    /\ Go(c, label)
    /\ UNCHANGED <<clock, req, now, response>>

-----------------------------------------------------------------------------
Init ==
    /\ KeeperInit
    /\ DispenserInit
    /\ clock = 0
    /\ pc = [c \in Claims |-> "idle"]
    /\ req = [c \in Claims |-> NoChallenge]
    /\ now = [c \in Claims |-> 0]
    /\ response = [c \in Claims |-> "none"]

\* challenge_handler; it too may act on a time read a moment ago.
Challenge(a, salt) ==
    /\ \E t \in 0 .. clock :
           /\ clock - t <= MaxSyncSecs
           /\ CooldownRemaining(a, t) = 0
           /\ Issue(salt, a, t)
    /\ UNCHANGED <<dispenser, handlers>>

\* The request arrives, the clock is read, the envelope and the solution
\* are checked; none of it touches shared state.
Receive(c, ch, solved) ==
    /\ pc[c] = "idle"
    /\ IF Authentic(ch) /\ ~Expired(ch, clock) /\ solved
         THEN /\ req' = [req EXCEPT ![c] = ch]
              /\ now' = [now EXCEPT ![c] = clock]
              /\ Go(c, "reserve")
              /\ UNCHANGED <<clock, response>>
         ELSE Answer(c, IF ~Authentic(ch) THEN "CHALLENGE_INVALID"
                        ELSE IF Expired(ch, clock) THEN "CHALLENGE_EXPIRED"
                        ELSE "INVALID_POW")
    /\ UNCHANGED <<keeper, dispenser>>

\* A body that is not a claim, or a challenge that cannot be decoded.
ReceiveMalformed(c) ==
    /\ pc[c] = "idle"
    /\ Answer(c, "BAD_REQUEST")
    /\ UNCHANGED <<keeper, dispenser>>

\* Mutant of Reserve: a refused claim also runs release_claim.
ReserveReleasesOnRefusal(c) ==
    /\ pc[c] = "reserve"
    /\ \/ BeginClaim(req[c].address, now[c]) /\ Proceed(c, "admit")
       \/ /\ CoolingDown(req[c].address, now[c])
          /\ ReleaseClaim(req[c].address, now[c])
          /\ Answer(c, "COOLDOWN")
    /\ UNCHANGED dispenser

Reserve(c) ==
    /\ pc[c] = "reserve"
    /\ \/ BeginClaim(req[c].address, now[c]) /\ Proceed(c, "admit")
       \/ ClaimRefused(req[c].address, now[c]) /\ Answer(c, "COOLDOWN")
    /\ UNCHANGED dispenser

Admit(c) ==
    /\ pc[c] = "admit"
    /\ \/ TryAdmit(c) /\ Proceed(c, "consume")
       \/ permits = 0 /\ Proceed(c, "busy") /\ UNCHANGED dispenser
    /\ UNCHANGED keeper

\* Mutant of Busy: the clock is read again to name the reservation.
BusyReadsClockAgain(c) ==
    /\ pc[c] = "busy"
    /\ ReleaseClaim(req[c].address, clock)
    /\ Answer(c, "FAUCET_BUSY")
    /\ UNCHANGED dispenser

Busy(c) ==
    /\ pc[c] = "busy"
    /\ ReleaseClaim(req[c].address, now[c])
    /\ Answer(c, "FAUCET_BUSY")
    /\ UNCHANGED dispenser

Consume(c) ==
    /\ pc[c] = "consume"
    /\ \/ /\ ConsumeSalt(req[c].salt, req[c].expires_at, now[c])
          /\ Proceed(c, "dispense")
       \/ /\ SaltReplayed(req[c].salt, now[c])
          /\ Proceed(c, "drop_permit")
    /\ UNCHANGED dispenser

ReplayDropsPermit(c) ==
    /\ pc[c] = "drop_permit"
    /\ DropPermit(c)
    /\ Proceed(c, "reused")
    /\ UNCHANGED keeper

Reused(c) ==
    /\ pc[c] = "reused"
    /\ ReleaseClaim(req[c].address, now[c])
    /\ Answer(c, "CHALLENGE_REUSED")
    /\ UNCHANGED dispenser

Dispense(c) ==
    /\ pc[c] = "dispense"
    /\ EnterDispense(c)
    /\ Proceed(c, "await")
    /\ UNCHANGED keeper

Dispensing(c) ==
    /\ pc[c] = "await"
    /\ DispenseStep(c)
    /\ UNCHANGED <<keeper, handlers>>

\* Mutant of Succeed: the reservation is released on every path.
SucceedReleasesClaim(c) ==
    /\ pc[c] = "await"
    /\ stage[c] = "returned"
    /\ outcome[c] = "sent"
    /\ ReleaseClaim(req[c].address, now[c])
    /\ Answer(c, "ok")
    /\ UNCHANGED dispenser

\* dispense returned Ok: the reservation is kept as the cooldown record.
Succeed(c) ==
    /\ pc[c] = "await"
    /\ stage[c] = "returned"
    /\ outcome[c] = "sent"
    /\ Answer(c, "ok")
    /\ UNCHANGED <<keeper, dispenser>>

\* Mutant of UndoClaim: the reservation stays.
UndoClaimForgotten(c) ==
    /\ pc[c] = "await"
    /\ stage[c] = "returned"
    /\ outcome[c] # "sent"
    /\ Proceed(c, "undo_salt")
    /\ UNCHANGED <<keeper, dispenser>>

\* dispense returned Err: the reservation goes first, then the salt.
UndoClaim(c) ==
    /\ pc[c] = "await"
    /\ stage[c] = "returned"
    /\ outcome[c] # "sent"
    /\ ReleaseClaim(req[c].address, now[c])
    /\ Proceed(c, "undo_salt")
    /\ UNCHANGED dispenser

\* Mutant of UndoSalt: the salt stays burnt.
UndoSaltForgotten(c) ==
    /\ pc[c] = "undo_salt"
    /\ Answer(c, outcome[c])
    /\ UNCHANGED <<keeper, dispenser>>

UndoSalt(c) ==
    /\ pc[c] = "undo_salt"
    /\ ReleaseSalt(req[c].salt)
    /\ Answer(c, outcome[c])
    /\ UNCHANGED dispenser
-----------------------------------------------------------------------------
NodeDelivers(c) ==
    /\ Deliver(c)
    /\ UNCHANGED <<keeper, handlers>>

\* Mutant of HangUp: a scope guard releases the reservation when the future
\* is dropped.
HangUpReleasesClaim(c) ==
    /\ pc[c] = "await"
    /\ Disconnect(c)
    /\ Proceed(c, "gone")
    /\ ReleaseClaim(req[c].address, now[c])

\* The client hangs up at an await: the handler's future is dropped, and
\* with it the code that would have released anything.
HangUp(c) ==
    /\ pc[c] = "await"
    /\ Disconnect(c)
    /\ Proceed(c, "gone")
    /\ UNCHANGED keeper

CrashRestart ==
    /\ boot < MaxBoots
    /\ Crash
    /\ KeeperRestart
    /\ pc' = [c \in Claims |-> IF pc[c] \in Active THEN "gone" ELSE pc[c]]
    /\ UNCHANGED <<clock, req, now, response>>

Tick ==
    /\ clock < MaxTime
    /\ \A c \in Claims :
           /\ pc[c] \in Checks => clock < now[c] + MaxSyncSecs
           /\ pc[c] \in Active => clock < now[c] + MaxClaimSecs
    /\ clock' = clock + 1
    /\ UNCHANGED <<keeper, dispenser, pc, req, now, response>>

\* SystemTime is not monotonic.
SetBack ==
    /\ \E t \in 0 .. clock : clock - t \in 1 .. MaxSetBack /\ clock' = t
    /\ UNCHANGED <<keeper, dispenser, pc, req, now, response>>

\* Nothing is in flight and the clock is at its bound: the day may end here.
Rest ==
    /\ clock = MaxTime
    /\ \A c \in Claims : pc[c] \in {"idle", "done", "gone"}
    /\ UNCHANGED vars

Handle(c) ==
    \/ Reserve(c) \/ Admit(c) \/ Busy(c) \/ Consume(c)
    \/ ReplayDropsPermit(c) \/ Reused(c) \/ Dispense(c) \/ Dispensing(c)
    \/ Succeed(c) \/ UndoClaim(c) \/ UndoSalt(c)

Next ==
    \/ \E a \in Addresses, salt \in Salts : Challenge(a, salt)
    \/ \E c \in Claims, ch \in Presentable, solved \in BOOLEAN :
           Receive(c, ch, solved)
    \/ \E c \in Claims :
           ReceiveMalformed(c) \/ Handle(c) \/ NodeDelivers(c) \/ HangUp(c)
    \/ CrashRestart
    \/ Tick \/ SetBack
    \/ Rest

Spec == Init /\ [][Next]_vars

\* The runtime polls every handler that can advance and the node answers
\* what reaches it.  Requests, ticks and faults need not happen.
Fairness ==
    \A c \in Claims : WF_vars(Handle(c)) /\ WF_vars(NodeDelivers(c))

FairSpec == Spec /\ Fairness
-----------------------------------------------------------------------------
FlowTypeOK ==
    /\ KeeperTypeOK
    /\ DispenserTypeOK
    /\ clock \in 0 .. MaxTime
    /\ pc \in [Claims -> PCs]
    /\ \A c \in Claims : pc[c] \in Active => req[c] \in Challenges
    /\ now \in [Claims -> 0 .. MaxTime]
    /\ response \in [Claims -> {"none", "ok"} \cup Errors]

\* One solved challenge never buys two drips, over retries after an error,
\* concurrent redemptions, pruning of expired salts and restarts
\* (pow.rs 16-20, 226-242; server.rs 226-236, 268-285).
OneDripPerChallenge ==
    \A c, d \in dripped : c # d => req[c].salt # req[d].salt

\* While one claim for an address is between its reservation and its
\* outcome, no other claim for that address is (pow.rs 263-269,
\* server.rs 208-211).
OneClaimPerAddress ==
    Cooldown > 0 =>
        \A c, d \in Claims :
            (c # d /\ pc[c] \in Reserved /\ pc[d] \in Reserved)
                => req[c].address # req[d].address

\* Two drips to one address, by one process, answer requests that arrived at
\* least a cooldown apart (config.rs 80-83, pow.rs 263-300).
CooldownSpacing ==
    \A c, d \in dripped :
        (/\ c # d
         /\ req[c].address = req[d].address
         /\ req[c].hmac.boot_nonce = req[d].hmac.boot_nonce)
            => now[c] - now[d] >= Cooldown \/ now[d] - now[c] >= Cooldown

\* The time a handler acts on may be stale and its claim may outlive its own
\* reservation: that brings drips closer by no more than the checks took.  What
\* other claims pruned, replaced or took back in between costs no further second
\* (server.rs 179-212, pow.rs 270-300).
SpacedUpToDelay ==
    \A c, d \in dripped :
        (/\ c # d
         /\ req[c].address = req[d].address
         /\ req[c].hmac.boot_nonce = req[d].hmac.boot_nonce)
            => \/ now[c] - now[d] >= Cooldown - MaxSyncSecs
               \/ now[d] - now[c] >= Cooldown - MaxSyncSecs

\* Every transaction was earned: its claim presented, unaltered and in time,
\* a challenge this service issued to that recipient (pow.rs 151-208).
DripsAreEarned ==
    \A c \in dripped \cup wire :
        req[c] \in issued /\ now[c] <= req[c].expires_at

\* The client is told the truth: "ok" only if the node took the transaction,
\* an error only if it did not and never will (server.rs 238-285).
ResponseTruthful ==
    \A c \in Claims :
        /\ response[c] = "ok" => c \in dripped
        /\ response[c] \in Errors => c \notin dripped \cup wire

\* A reservation or a burnt salt always belongs to a claim that is still in
\* flight or was paid: a claim that fails locks nobody out (pow.rs 239-241,
\* 268-269, 291-294; server.rs 208-211).
FailureLeavesNoTrace ==
    /\ \A a \in Addresses : last_claim[a] # Absent =>
           \E c \in Claims :
               /\ pc[c] \in Reserved \/ response[c] = "ok"
               /\ req[c].address = a /\ now[c] = last_claim[a]
    /\ \A s \in Salts : consumed[s] # Absent =>
           \E c \in Claims :
               /\ pc[c] \in {"dispense", "await", "undo_salt"}
                      \/ response[c] = "ok"
               /\ req[c].salt = s

\* Not even a client that hangs up leaves more behind than its own reservation
\* and its own burnt salt, and those only until the process restarts
\* (server.rs 208-285, pow.rs 113-120).
OnlyHangUpsLeaveTraces ==
    /\ \A a \in Addresses : last_claim[a] # Absent =>
           \E c \in Claims :
               /\ pc[c] \in Reserved \cup {"gone"} \/ response[c] = "ok"
               /\ req[c].address = a /\ now[c] = last_claim[a]
               /\ req[c].hmac.boot_nonce = boot
    /\ \A s \in Salts : consumed[s] # Absent =>
           \E c \in Claims :
               /\ \/ pc[c] \in {"dispense", "await", "undo_salt", "gone"}
                  \/ response[c] = "ok"
               /\ req[c].salt = s
               /\ req[c].hmac.boot_nonce = boot

Ledger ==
    INSTANCE DripLedger WITH
        Spacing <- Cooldown,
        ledger <- {[claim |-> c, salt |-> req[c].salt, address |-> req[c].address,
                    arrival |-> now[c], process |-> req[c].hmac.boot_nonce] :
                       c \in dripped},
        answered <- [c \in Claims |->
                        IF response[c] \in {"none", "ok"} THEN response[c] ELSE "error"]

\* The service implements DripLedger: however handlers interleave, retry and
\* prune, drips are entered one at a time, for fresh challenges, spaced, and
\* answers agree with the ledger (server.rs 165-287, pow.rs 226-300).
LedgerPromise == Ledger!Spec

\* Every claim that passes the checks is answered, whatever its own calls
\* and the claims ahead of it meet (server.rs 165-287).
EveryClaimAnswered ==
    \A c \in Claims : pc[c] = "reserve" ~> pc[c] = "done"
=============================================================================
