------------------------------ MODULE MCKeeper ------------------------------
(* KeeperCalls for TLC: salts and addresses are interchangeable. *)
EXTENDS KeeperCalls, TLC

Symmetry == Permutations(Salts) \cup Permutations(Addresses)
=============================================================================
