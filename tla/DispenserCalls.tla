--------------------------- MODULE DispenserCalls ---------------------------
(***************************************************************************)
(* Dispenser driven by any number of claims, each of which is admitted at  *)
(* most once and either gives its permit up or dispenses.                  *)
(***************************************************************************)
EXTENDS Dispenser

\* Every claim is over: nothing is left to do but to stay so.
AllOver ==
    /\ \A c \in Claims : stage[c] \in {"returned", "dropped"}
    /\ UNCHANGED dispenser

Next ==
    \/ \E c \in Claims :
           \/ TryAdmit(c) \/ DropPermit(c) \/ EnterDispense(c)
           \/ DispenseStep(c) \/ Deliver(c) \/ Disconnect(c)
    \/ Crash
    \/ AllOver

Spec == DispenserInit /\ [][Next]_dispenser

\* The runtime polls every future that can advance, the node answers every
\* request that reaches it, and a receipt wait ends at its deadline.  A
\* claim that arrives need not be admitted, and no fault need happen.
Fairness ==
    \A c \in Claims :
        /\ WF_dispenser(EnterDispense(c) \/ DropPermit(c))
        /\ WF_dispenser(DispenseStep(c))
        /\ WF_dispenser(Deliver(c))

FairSpec == Spec /\ Fairness
-----------------------------------------------------------------------------
\* The abstract promise, read off the detailed state.  A claim is at work
\* while it executes submit under the lock.
Promise == INSTANCE SingleFlight WITH
    inside <- Holders,
    working <- {c \in Claims : stage[c] \in Critical},
    paid <- dripped

\* The queue with its permits, lock, node calls and errors implements
\* SingleFlight (README.md 57-62, faucet.rs 123-148).
SingleFlightPromise == Promise!Spec

\* Every admitted claim gets out: no claim waits for ever behind another,
\* whatever fails in the claims before it (faucet.rs 129-148).
EveryoneLeaves ==
    \A c \in Claims :
        stage[c] = "admitted" ~> stage[c] \in {"returned", "dropped"}
=============================================================================
