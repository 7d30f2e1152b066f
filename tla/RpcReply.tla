------------------------------ MODULE RpcReply ------------------------------
(***************************************************************************)
(* What RpcClient (src/rpc.rs) makes of the node's reply to one call.      *)
(*                                                                         *)
(* A reply is a record: whether an HTTP body arrived and is JSON, its      *)
(* member "error" ("absent", "null" or "given") and its member "result":   *)
(* "missing", "null", a "text" or some "other" value.  A text holds the    *)
(* number n that its digits denote, -1 when they denote none.  The HTTP    *)
(* status is not looked at.                                                *)
(***************************************************************************)
EXTENDS Integers

Reply(delivered, json, error, kind, n) ==
    [delivered |-> delivered, json |-> json, error |-> error,
     result |-> [kind |-> kind, n |-> n]]

\* External: the replies of a node that answers n, and a sample of the rest.
HonestReplies(n) == {Reply(TRUE, TRUE, e, "text", n) : e \in {"absent", "null"}}

FaultyReplies(word) ==
    {Reply(FALSE, TRUE, "absent", "text", 0), Reply(TRUE, FALSE, "absent", "text", 0),
     Reply(TRUE, TRUE, "given", "text", 0)}
    \cup {Reply(TRUE, TRUE, e, kind, 0) :
              e \in {"absent", "null"}, kind \in {"missing", "null", "other"}}
    \cup {Reply(TRUE, TRUE, "absent", "text", n) : n \in {-1, word}}

\* Mutant of Call: a member "error" that is null counts as an error.
CallNullError(reply) ==
    IF /\ reply.delivered /\ reply.json
       /\ reply.error = "absent"
       /\ reply.result.kind # "missing"
      THEN [ok |-> TRUE, value |-> reply.result]
      ELSE [ok |-> FALSE, value |-> reply.result]

Call(reply) ==
    IF /\ reply.delivered /\ reply.json
       /\ reply.error # "given"
       /\ reply.result.kind # "missing"
      THEN [ok |-> TRUE, value |-> reply.result]
      ELSE [ok |-> FALSE, value |-> reply.result]

Quantity(n) == [ok |-> TRUE, value |-> n]
NoQuantity == [ok |-> FALSE, value |-> 0]

\* Mutant of ParseHex: the number may be of any size.
ParseHexUnbounded(value, word) ==
    IF value.kind = "text" /\ value.n >= 0 THEN Quantity(value.n) ELSE NoQuantity

\* parse_hex_u64 and parse_hex_u128
ParseHex(value, word) ==
    IF value.kind = "text" /\ value.n \in 0 .. word - 1
      THEN Quantity(value.n)
      ELSE NoQuantity

\* chain_id, transaction_count, gas_price, balance
ReadQuantity(reply, word) ==
    IF Call(reply).ok THEN ParseHex(Call(reply).value, word) ELSE NoQuantity

\* Any string is a transaction hash.
SendRawTransaction(reply) == Call(reply).ok /\ Call(reply).value.kind = "text"

\* "error", "none" (not yet mined) or "receipt"
TransactionReceipt(reply) ==
    IF ~Call(reply).ok THEN "error"
    ELSE IF Call(reply).value.kind = "null" THEN "none" ELSE "receipt"
=============================================================================
