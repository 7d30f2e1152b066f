------------------------------ MODULE Receipt ------------------------------
(***************************************************************************)
(* await_receipt (src/faucet.rs): after the submission the handler polls   *)
(* for the receipt, sleeps, and gives up at a deadline; meanwhile blocks   *)
(* are mined.  A poll takes time both ways, and what the node answers is   *)
(* the state of the chain at a moment in between.                          *)
(*                                                                         *)
(* Time counts from the start of the wait, in fractions of Interval.       *)
(***************************************************************************)
EXTENDS RpcReply

CONSTANTS
    Timeouts,       \* bound: values of FAUCET_RECEIPT_TIMEOUT_SECS
    Interval,       \* 500 ms
    MaxPoll,        \* a poll is answered or fails within so long
    MaxInstant      \* the largest Instant, relative to the start

ASSUME ReceiptAssumption ==
    /\ Timeouts \subseteq Nat
    /\ Interval \in Nat /\ MaxPoll \in Nat /\ MaxInstant \in Nat

VARIABLES
    timeout,    \* receipt_timeout, drawn when it is first used
    time,       \* Instant::now()
    wait,       \* where await_receipt is
    deadline,
    due,        \* when the poll was sent, or the sleep will end
    receipt,    \* the reply on its way back, and the last one after that
    outcome,    \* ReceiptOutcome
    mined,      \* external: the transaction, "no", "success" or "reverted"
    mined_at    \* external: when it was mined

waiting == <<deadline, due, receipt, outcome>>
chain == <<mined, mined_at>>
receipts == <<timeout, time, wait, waiting, chain>>

Waits == {"off", "asking", "answering", "sleeping", "over", "panicked"}

NoOutcome == [mined |-> FALSE, transferred |-> FALSE]

ReceiptInit ==
    /\ timeout = 0
    /\ time = 0
    /\ wait = "off"
    /\ deadline = 0
    /\ due = 0
    /\ receipt = "error"
    /\ outcome = NoOutcome
    /\ mined = "no"
    /\ mined_at = 0

\* Instant + Duration panics when the sum is out of range.
BeginWait ==
    /\ wait = "off"
    /\ timeout' \in Timeouts
    /\ IF timeout' = 0
         THEN wait' = "over" /\ UNCHANGED deadline
       ELSE IF time + timeout' > MaxInstant
         THEN wait' = "panicked" /\ UNCHANGED deadline
       ELSE wait' = "asking" /\ deadline' = time + timeout'
    /\ due' = time
    /\ UNCHANGED <<time, receipt, outcome, chain>>

\* External: null until the transaction is mined, or no usable reply.
ReceiptReplies ==
    {Reply(TRUE, TRUE, "absent", IF mined = "no" THEN "null" ELSE "other", 0),
     Reply(FALSE, TRUE, "absent", "other", 0), Reply(TRUE, TRUE, "given", "missing", 0)}

\* External: a receipt names its status; an old node leaves it out.
Statuses == {IF mined = "reverted" THEN "0x0" ELSE "0x1", "missing"}

NodeAnswers ==
    /\ wait = "asking"
    /\ \E reply \in ReceiptReplies :
           IF TransactionReceipt(reply) = "receipt"
             THEN receipt' \in Statuses
             ELSE receipt' = TransactionReceipt(reply)
    /\ wait' = "answering"
    /\ UNCHANGED <<timeout, time, deadline, due, outcome, chain>>

\* Mutant of AnswerArrives: a poll that fails is always repeated.
AnswerArrivesOrAsksAgain ==
    /\ wait = "answering"
    /\ IF receipt \notin {"error", "none"}
         THEN /\ outcome' = [mined |-> TRUE, transferred |-> receipt # "0x0"]
              /\ wait' = "over"
              /\ UNCHANGED due
       ELSE IF receipt = "none" /\ time >= deadline
         THEN wait' = "over" /\ UNCHANGED <<due, outcome>>
       ELSE wait' = "sleeping" /\ due' = time + Interval /\ UNCHANGED outcome
    /\ UNCHANGED <<timeout, time, deadline, receipt, chain>>

\* Errors are swallowed.  A missing status counts as success.
AnswerArrives ==
    /\ wait = "answering"
    /\ IF receipt \notin {"error", "none"}
         THEN /\ outcome' = [mined |-> TRUE, transferred |-> receipt # "0x0"]
              /\ wait' = "over"
              /\ UNCHANGED due
       ELSE IF time >= deadline
         THEN wait' = "over" /\ UNCHANGED <<due, outcome>>
       ELSE wait' = "sleeping" /\ due' = time + Interval /\ UNCHANGED outcome
    /\ UNCHANGED <<timeout, time, deadline, receipt, chain>>

\* Mutant of Wake: the deadline is looked at before the poll, too.
WakePastDeadline ==
    /\ wait = "sleeping"
    /\ time >= due
    /\ wait' = IF time >= deadline THEN "over" ELSE "asking"
    /\ due' = time
    /\ UNCHANGED <<timeout, time, deadline, receipt, outcome, chain>>

Wake ==
    /\ wait = "sleeping"
    /\ time >= due
    /\ wait' = "asking"
    /\ due' = time
    /\ UNCHANGED <<timeout, time, deadline, receipt, outcome, chain>>

Mine(result) ==
    /\ wait \in {"asking", "answering", "sleeping"}
    /\ mined = "no"
    /\ mined' = result
    /\ mined_at' = time
    /\ UNCHANGED <<timeout, time, wait, waiting>>

TimePasses ==
    /\ \/ wait \in {"asking", "answering"} /\ time < due + MaxPoll
       \/ wait = "sleeping" /\ time < due
    /\ time' = time + 1
    /\ UNCHANGED <<timeout, wait, waiting, chain>>

ReceiptStep ==
    \/ NodeAnswers \/ AnswerArrives \/ Wake \/ TimePasses
    \/ \E result \in {"success", "reverted"} : Mine(result)
-----------------------------------------------------------------------------
\* What await_receipt reports is so: mined only if it was, reverted only if it
\* did, and pending only if it was not mined in time to be seen by a poll that
\* could still be answered at the deadline, or that last poll failed
\* (faucet.rs 210-253).
ReceiptTruthful ==
    wait = "over" =>
        /\ outcome.mined =>
               /\ mined # "no"
               /\ outcome.transferred = (mined = "success" \/ receipt = "missing")
        /\ (~outcome.mined /\ timeout > 0) =>
               \/ receipt = "error"
               \/ mined = "no"
               \/ mined_at + MaxPoll >= deadline

\* The wait outlasts the configured timeout by one sleep and one poll at most,
\* however polls fail (faucet.rs 33, 210-253).
WaitBounded == time <= timeout + Interval + MaxPoll
=============================================================================
