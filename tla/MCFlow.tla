------------------------------- MODULE MCFlow -------------------------------
(* ClaimFlow for TLC: claims, salts and addresses are interchangeable. *)
EXTENDS ClaimFlow, TLC

Symmetry ==
    Permutations(Claims) \cup Permutations(Salts) \cup Permutations(Addresses)
=============================================================================
