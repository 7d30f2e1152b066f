---------------------------- MODULE SingleFlight ----------------------------
(***************************************************************************)
(* What Faucet promises its callers, without permits, queue, node or wire: *)
(* a bounded number of claims is inside at once, one of them at a time is  *)
(* at work, only the one at work is paid, and it is paid at most once.     *)
(***************************************************************************)
EXTENDS Integers, FiniteSets

CONSTANTS Claims, Capacity

VARIABLES
    inside,     \* claims that occupy a slot
    working,    \* the claim being dispensed, if any
    paid        \* claims whose drip the node has taken

sfvars == <<inside, working, paid>>

Init ==
    /\ inside = {}
    /\ working = {}
    /\ paid = {}

Enter(c) ==
    /\ c \notin inside \cup paid
    /\ Cardinality(inside) < Capacity
    /\ inside' = inside \cup {c}
    /\ UNCHANGED <<working, paid>>

Start(c) ==
    /\ c \in inside
    /\ working = {}
    /\ working' = {c}
    /\ UNCHANGED <<inside, paid>>

Pay(c) ==
    /\ c \in working \ paid
    /\ paid' = paid \cup {c}
    /\ UNCHANGED <<inside, working>>

Stop(c) ==
    /\ c \in working
    /\ working' = {}
    /\ UNCHANGED <<inside, paid>>

Exit(c) ==
    /\ c \in inside \ working
    /\ inside' = inside \ {c}
    /\ UNCHANGED <<working, paid>>

Next == \E c \in Claims : Enter(c) \/ Start(c) \/ Pay(c) \/ Stop(c) \/ Exit(c)

Spec == Init /\ [][Next]_sfvars
=============================================================================
