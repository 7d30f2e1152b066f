------------------------------ MODULE Transfer ------------------------------
(***************************************************************************)
(* Signing a value transfer (src/eth.rs): the EIP-155 payload, the signed  *)
(* transaction and its inverse, which the execution node computes.         *)
(*                                                                         *)
(* Keccak and secp256k1 are ideal.  A signature is a record: the key and   *)
(* the payload it is for and the bytes that stand for it; recovering from  *)
(* other bytes or for another payload yields a stranger.                   *)
(***************************************************************************)
EXTENDS Rlp

CONSTANTS
    AddressBytes,   \* 20
    SigBytes        \* 32, the bytes of r and of s

\* The last conjunct: the length of a transaction fits a usize.
ASSUME TransferAssumption ==
    /\ AddressBytes \in Nat /\ SigBytes \in Nat
    /\ 10 * (1 + 3 * WordBytes + AddressBytes + SigBytes) < U64

\* Both lists begin with the fields from nonce to data.
Fields(tx, data) ==
    <<RlpUint(tx.nonce), RlpUint(tx.gas_price), RlpUint(tx.gas_limit),
      RlpBytes(tx.to), RlpUint(tx.value), RlpBytes(data)>>

SigningPayload(tx) ==
    RlpList(Fields(tx, << >>)
              \o <<RlpUint(tx.chain_id), RlpBytes(<< >>), RlpBytes(<< >>)>>)

\* chain_id * 2 + 35 + recovery_byte in u64, which wraps in a release build.
V(chain_id, recovery_id) == (chain_id * 2 + 35 + recovery_id) % U64

SignLegacyTransfer(tx, signature) ==
    PrefixedHex(RlpList(
        Fields(tx, << >>)
          \o <<RlpUint(V(tx.chain_id, signature.recovery_id)),
               RlpBytes(StripLeadingZeros(signature.r)),
               RlpBytes(StripLeadingZeros(signature.s))>>))

\* External: what libsecp256k1 recovers.
Recovered(signature, payload, r, s, recovery_id) ==
    IF /\ payload = signature.payload
       /\ <<r, s, recovery_id>> =
              <<signature.r, signature.s, signature.recovery_id>>
      THEN signature.key
      ELSE "stranger"

NoTransfer == [ok |-> FALSE]

TransferOf(items) ==
    [nonce |-> BeToU64(items[1]), gas_price |-> BeToU128(items[2]),
     gas_limit |-> BeToU64(items[3]), to |-> items[4], value |-> BeToU128(items[5]),
     chain_id |-> (BeToU64(items[7]) - 35) \div 2]

RecoverFrom(items, signature, v) ==
    LET payload(tx) ==
            RlpList(Fields(tx, items[6])
                      \o <<RlpUint(tx.chain_id), RlpBytes(<< >>), RlpBytes(<< >>)>>)
    IN  IF v >= 35 /\ Len(items[4]) = AddressBytes
          THEN [ok |-> TRUE, tx |-> TransferOf(items),
                from |-> Recovered(signature, payload(TransferOf(items)),
                                   LeftPad(items[8], SigBytes),
                                   LeftPad(items[9], SigBytes), (v - 35) % 2)]
          ELSE NoTransfer

RecoverItems(list, signature) ==
    IF list.ok /\ Len(list.item) = 9
      THEN RecoverFrom(list.item, signature, BeToU64(list.item[7]))
      ELSE NoTransfer

\* recover_legacy_transfer; signature is the only one there is.
RecoverLegacyTransfer(text, signature) ==
    LET from(raw) == IF raw.ok THEN RecoverItems(DecodeFlatList(raw.bytes), signature)
                               ELSE NoTransfer
    IN  from(DecodeFlexibleHex(text))
=============================================================================
