----------------------------- MODULE MCService -----------------------------
(* Service for TLC: a byte of 64 values, a u64 of two bytes. *)
EXTENDS Service, TLC

MCDefaults ==
    [listen_port |-> 28, web_workers |-> 4, chain_id |-> None, pow_bits |-> 16,
     pow_puzzles |-> 48, pow_ttl_secs |-> 18, faucet_queue_capacity |-> 2,
     faucet_cooldown_secs |-> 6, faucet_gas_limit |-> 21,
     faucet_receipt_timeout_secs |-> 30, faucet_private_key |-> 7,
     faucet_drip_wei |-> 100, faucet_gas_price_wei |-> None,
     pow_hmac_secret |-> None]

\* Around every limit, out of range, not a number, blank and padded.
Settings(f) ==
    {Blank, Given(0), Given(1), Padded(1)}
    \cup (IF f \in Numbers
            THEN {Given(-1), Given(Widths[f] - 1), Given(Widths[f])} ELSE {})
    \cup (IF f \in {"faucet_drip_wei", "faucet_gas_price_wei"}
            THEN {Given(-1), Given(U128 - 1), Given(U128)} ELSE {})
    \cup (CASE f = "pow_bits" -> {Given(MaxPowBits), Given(MaxPowBits + 1)}
            [] f = "pow_puzzles" -> {Given(MaxPowPuzzles), Given(MaxPowPuzzles + 1)}
            [] f = "chain_id" -> {Given(2029), Given(2030), Given(2031)}
            [] f = "faucet_queue_capacity" -> {Given(MaxPermits), Given(MaxPermits + 1)}
            [] f = "faucet_private_key" ->
                 {Given(-1), Given(KeyOrder - 1), Given(KeyOrder)}
            [] OTHER -> {})

Empty == [f \in Variables |-> Unset]

\* Any one variable set, the three amounts of a drip set together, and all
\* variables blank.
MCEnvironments ==
    UNION {{[Empty EXCEPT ![f] = v] : v \in Settings(f)} : f \in Variables}
    \cup {[Empty EXCEPT !.chain_id = c, !.faucet_drip_wei = d,
                        !.faucet_gas_price_wei = p] :
              c \in {Unset, Given(2029)}, d \in {Given(0), Given(32), Given(U128 - 1)},
              p \in {Unset, Padded(0), Given(4096)}}
    \cup {[f \in Variables |-> Blank]}

\* Byte strings on both sides of the longest short string.
MCSignatures ==
    LET full == [i \in 1 .. SigBytes |-> i + 30]
        zeros(n) == [i \in 1 .. SigBytes |-> IF i <= n THEN 0 ELSE i + 40]
    IN  {[r |-> full, s |-> full, recovery_id |-> 0],
         [r |-> zeros(1), s |-> full, recovery_id |-> 1],
         [r |-> full, s |-> zeros(SigBytes - 1), recovery_id |-> 1]}

MCRecipients ==
    {Text(FALSE, "0x", <<0, 0, 7, 1>>), Text(TRUE, "0X", <<Plus, 5, 2, 3>>),
     Text(FALSE, "", <<1, 2, 3, 4>>), Text(FALSE, "0x", <<1, 2, 3>>),
     Text(FALSE, "0x", <<1, 2>>), Text(FALSE, "0x", <<1, 2, 3, 4, 5, 6>>),
     Text(FALSE, "0x", <<1, Plus, 3, 4>>), Text(FALSE, "0x", <<1, 2, 3, Other>>)}

MCNodeStates ==
    {[nonce |-> 0, price |-> 0, balance |-> 121],
     [nonce |-> 31, price |-> 5, balance |-> 204],
     [nonce |-> 32, price |-> 5, balance |-> 205],
     [nonce |-> 64, price |-> 64, balance |-> U128 - 2],
     [nonce |-> 64, price |-> 1, balance |-> U128 - 1]}
=============================================================================
