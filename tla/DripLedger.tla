----------------------------- MODULE DripLedger -----------------------------
(***************************************************************************)
(* What the service promises as a whole, without keeper, permits, lock or  *)
(* node: a ledger of drips, each entered in one step.  A drip answers one  *)
(* challenge, and the drips of one process to one address answer requests  *)
(* that arrived a cooldown apart.  Each claim is told once whether it is   *)
(* in the ledger, and an answer is final.                                  *)
(***************************************************************************)
EXTENDS Integers

CONSTANTS
    Claims,
    Spacing     \* the cooldown

VARIABLES
    ledger,     \* the drips: claim, salt, address, arrival and process
    answered    \* answered[c]: "none", "ok" or "error"

Entered(c) == \E d \in ledger : d.claim = c

Apart(d, e) ==
    \/ d.address # e.address
    \/ d.process # e.process
    \/ d.arrival - e.arrival >= Spacing
    \/ e.arrival - d.arrival >= Spacing

Init ==
    /\ ledger = {}
    /\ answered = [c \in Claims |-> "none"]

Enter ==
    /\ \E d \in ledger' :
           /\ ledger' = ledger \cup {d}
           /\ answered[d.claim] = "none" /\ ~Entered(d.claim)
           /\ \A e \in ledger : d.salt # e.salt /\ Apart(d, e)
    /\ UNCHANGED answered

Tell(c) ==
    /\ answered[c] = "none"
    /\ answered' = [answered EXCEPT ![c] = IF Entered(c) THEN "ok" ELSE "error"]
    /\ UNCHANGED ledger

Next == Enter \/ \E c \in Claims : Tell(c)

Spec == Init /\ [][Next]_<<ledger, answered>>
=============================================================================
