-------------------------------- MODULE Page --------------------------------
(***************************************************************************)
(* A visit to the claim page: run (src/index.html) asks for a challenge,   *)
(* mines it in the worker pool of Solver, posts the claim, and shows what  *)
(* the handler (src/server.rs), whose wait for the receipt is Receipt,     *)
(* answers.  Either request may fail on the way.                           *)
(***************************************************************************)
EXTENDS Solver, Receipt

VARIABLES
    phase,  \* what run() awaits; "ready" when the button may be clicked
    claim,  \* the claim at the server: "none", "posted", "sent" or its error
    shown   \* the alert on the page: its kind, and the status line of a drip

vars == <<solver, receipts, phase, claim, shown>>

ChallengeErrors == {"COOLDOWN", "BAD_REQUEST"}
ClaimErrors == {"BAD_REQUEST", "CHALLENGE_EXPIRED", "CHALLENGE_INVALID",
                "CHALLENGE_REUSED", "COOLDOWN", "FAUCET_BUSY",
                "INSUFFICIENT_FUNDS", "RPC_ERROR"}

Nothing == [kind |-> "none", line |-> "none"]
Alert(kind) == [kind |-> kind, line |-> "none"]

Init ==
    /\ SolverInit
    /\ ReceiptInit
    /\ phase = "ready"
    /\ claim = "none"
    /\ shown = Nothing

\* run() ends; its finally block enables the button again.
Finish(alert) == phase' = "ready" /\ shown' = alert

Click(valid) ==
    /\ phase = "ready" /\ shown = Nothing
    /\ IF valid THEN phase' = "requesting" /\ UNCHANGED shown
                ELSE Finish(Alert("err"))
    /\ UNCHANGED <<solver, receipts, claim>>

ChallengeGranted ==
    /\ phase = "requesting"
    /\ phase' = "mining"
    /\ UNCHANGED <<solver, receipts, claim, shown>>

ChallengeRefused(code) ==
    /\ phase = "requesting"
    /\ Finish(Alert(IF code = "COOLDOWN" THEN "warn" ELSE "err"))
    /\ UNCHANGED <<solver, receipts, claim>>

Solving == phase = "mining" /\ SolverStep /\ UNCHANGED <<receipts, phase, claim, shown>>

PostClaim ==
    /\ phase = "mining" /\ promise = "resolved"
    /\ phase' = "submitting"
    /\ claim' = "posted"
    /\ UNCHANGED <<solver, receipts, shown>>

MiningFailed ==
    /\ phase = "mining" /\ promise = "rejected"
    /\ Finish(Alert("err"))
    /\ UNCHANGED <<solver, receipts, claim>>

\* A request or its reply is lost, or the reply is not JSON.  A handler whose
\* client is gone stops.
FetchFails ==
    /\ phase \in {"requesting", "submitting"}
    /\ Finish(Alert("err"))
    /\ UNCHANGED <<solver, receipts, claim>>
-----------------------------------------------------------------------------
\* claim_handler: ClaimFlow says which error it is.
ServerRefuses(code) ==
    /\ phase = "submitting" /\ claim = "posted"
    /\ claim' = IF VerifySolution(nonces) THEN code ELSE "INVALID_POW"
    /\ UNCHANGED <<solver, receipts, phase, shown>>

ServerSends ==
    /\ phase = "submitting" /\ claim = "posted"
    /\ VerifySolution(nonces)
    /\ claim' = "sent"
    /\ BeginWait
    /\ UNCHANGED <<solver, phase, shown>>

ServerWaits ==
    /\ phase = "submitting"
    /\ ReceiptStep
    /\ UNCHANGED <<solver, phase, claim, shown>>

\* hyper closes the connection of a handler that panicked.
ServerPanicked == phase = "submitting" /\ wait = "panicked" /\ FetchFails

ShowError ==
    /\ phase = "submitting" /\ claim \notin {"posted", "sent"}
    /\ Finish(Alert(IF claim \in {"FAUCET_BUSY", "COOLDOWN"} THEN "warn" ELSE "err"))
    /\ UNCHANGED <<solver, receipts, claim>>

\* Mutant of Kind: what counts is that the transaction was mined.
KindMined(answer) == IF answer.mined THEN "ok" ELSE "warn"

Kind(answer) == IF answer.transferred THEN "ok" ELSE "warn"

StatusLine(answer) ==
    IF ~answer.mined THEN "pending" ELSE IF answer.transferred THEN "mined" ELSE "reverted"

ShowDrip ==
    /\ phase = "submitting" /\ claim = "sent" /\ wait = "over"
    /\ Finish([kind |-> Kind(outcome), line |-> StatusLine(outcome)])
    /\ UNCHANGED <<solver, receipts, claim>>

Rest == shown # Nothing /\ UNCHANGED vars

Server ==
    \/ \E code \in ClaimErrors : ServerRefuses(code)
    \/ ServerSends \/ ServerPanicked

Show == PostClaim \/ MiningFailed \/ ShowError \/ ShowDrip

Next ==
    \/ \E valid \in BOOLEAN : Click(valid)
    \/ ChallengeGranted
    \/ \E code \in ChallengeErrors : ChallengeRefused(code)
    \/ Solving
    \/ FetchFails
    \/ Server \/ ServerWaits \/ Show
    \/ Rest

\* Every thread runs, every event is handled, and a request is answered or
\* fails; workers need not fail and blocks need not be mined.
Fairness ==
    /\ WF_vars(ChallengeGranted)
    /\ WF_vars(phase = "mining" /\ Start /\ Solving)
    /\ \A w \in 0 .. LeastOf(MaxPuzzles, 32) - 1 :
           /\ WF_vars(w \in Workers /\ WorkerStep(w) /\ Solving)
           /\ WF_vars(w \in Workers /\ OnMessage(w) /\ Solving)
           /\ WF_vars(w \in Workers /\ OnError(w) /\ Solving)
    /\ WF_vars(Server)
    /\ WF_vars(ServerWaits /\ wait' # wait)
    /\ WF_vars(ServerWaits /\ TimePasses)
    /\ WF_vars(Show)

Spec == Init /\ [][Next]_vars /\ Fairness
-----------------------------------------------------------------------------
PageTypeOK ==
    /\ SolverTypeOK
    /\ timeout \in {0} \cup Timeouts
    /\ wait \in Waits
    /\ deadline \in {0, timeout}
    /\ due <= time + Interval
    /\ phase \in {"ready", "requesting", "mining", "submitting"}
    /\ claim \in {"none", "posted", "sent", "INVALID_POW"} \cup ClaimErrors
    /\ shown.kind \in {"none", "ok", "warn", "err"}

\* What is shown is so: success only for a transfer that was mined and not
\* known to be reverted, a revert only for one that was, a drip only when one
\* was sent; and the server never blames the solution (index.html 419-438).
ShownTruthful ==
    /\ shown.kind = "ok" => mined = "success" \/ (mined # "no" /\ receipt = "missing")
    /\ shown.line = "reverted" => mined = "reverted"
    /\ shown.line # "none" => claim = "sent"
    /\ claim # "INVALID_POW"

\* A visit ends: whatever fails, the button can be clicked again and something
\* is shown (index.html 352-449).
PageRecovers == phase = "requesting" ~> phase = "ready" /\ shown # Nothing
=============================================================================
