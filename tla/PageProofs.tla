----------------------------- MODULE PageProofs -----------------------------
(***************************************************************************)
(* A visit to the claim page, for every number of puzzles and workers,     *)
(* every table of solutions, every timeout, sleep and poll: the wait for   *)
(* the receipt, the worker pool, the count of what it has found, and what  *)
(* the page shows.                                                         *)
(***************************************************************************)
EXTENDS Page, FiniteSetTheorems, SequenceTheorems, TLAPS

USE ReceiptAssumption, SolverAssumption DEF ReceiptAssumption, SolverAssumption

-----------------------------------------------------------------------------
\* The wait for the receipt.

Polling == {"asking", "answering"}
Settled == {"0x0", "0x1", "missing"}

WaitTypes ==
    /\ timeout \in Nat /\ time \in Nat /\ due \in Nat /\ deadline \in Nat
    /\ mined_at \in Nat
    /\ wait \in Waits
    /\ mined \in {"no", "success", "reverted"}

\* A poll or a sleep begins before the deadline has passed by a whole sleep.
Punctual ==
    /\ wait = "off" => time = 0
    /\ wait \in Polling \cup {"sleeping"} =>
           deadline = timeout /\ due < deadline + Interval
    /\ wait \in Polling => due <= time /\ time <= due + MaxPoll
    /\ wait = "sleeping" => time <= due

\* What the reply on its way back says was so when the poll was sent or later.
ReplyTruthful ==
    wait = "answering" =>
        /\ receipt \in {"error", "none"} \cup Settled
        /\ receipt = "none" => mined = "no" \/ mined_at >= due
        /\ receipt \in Settled => mined # "no"
        /\ receipt = "0x0" => mined = "reverted"
        /\ receipt = "0x1" => mined = "success"

Undecided == wait # "over" => outcome = NoOutcome

PunctualInv == WaitTypes /\ Punctual /\ WaitBounded
ReceiptInv == PunctualInv /\ ReplyTruthful /\ Undecided /\ ReceiptTruthful

\* A step of the page or the server starts the wait, advances it or leaves it
\* alone.
LEMMA StepsOfTheWait ==
    ASSUME [Next]_vars
    PROVE  BeginWait \/ ReceiptStep \/ UNCHANGED receipts
<1> SUFFICES ASSUME Next
             PROVE  BeginWait \/ ReceiptStep \/ UNCHANGED receipts
  BY DEF vars
<1>1. ASSUME NEW valid \in BOOLEAN, Click(valid) PROVE UNCHANGED receipts
  BY <1>1 DEF Click
<1>2. CASE ChallengeGranted
  BY <1>2 DEF ChallengeGranted
<1>3. ASSUME NEW code \in ChallengeErrors, ChallengeRefused(code)
      PROVE  UNCHANGED receipts
  BY <1>3 DEF ChallengeRefused
<1>4. CASE Solving
  BY <1>4 DEF Solving
<1>5. CASE FetchFails
  BY <1>5 DEF FetchFails
<1>6. CASE Server
  BY <1>6 DEF Server, ServerRefuses, ServerSends, ServerPanicked, FetchFails
<1>7. CASE ServerWaits
  BY <1>7 DEF ServerWaits
<1>8. CASE Show
  BY <1>8 DEF Show, PostClaim, MiningFailed, ShowError, ShowDrip
<1>9. CASE Rest
  BY <1>9 DEF Rest, vars
<1> QED
  BY <1>1, <1>2, <1>3, <1>4, <1>5, <1>6, <1>7, <1>8, <1>9 DEF Next

\* What TransactionReceipt makes of the replies a node may give.
LEMMA RepliesRead ==
    ASSUME NEW reply \in ReceiptReplies
    PROVE  /\ TransactionReceipt(reply) \in {"error", "none", "receipt"}
           /\ TransactionReceipt(reply) = "none" => mined = "no"
           /\ TransactionReceipt(reply) = "receipt" => mined # "no"
BY DEF ReceiptReplies, TransactionReceipt, Call, Reply

\* The wait advances within its bounds, and what it holds stays so.
LEMMA WaitStep ==
    ASSUME ReceiptInv, BeginWait \/ ReceiptStep
    PROVE  ReceiptInv'
<1> USE DEF Polling, Waits
<1>1. CASE BeginWait
  <2>1. /\ wait = "off" /\ timeout' \in Timeouts /\ due' = time
        /\ UNCHANGED <<time, receipt, outcome, mined, mined_at>>
    BY <1>1 DEF BeginWait, chain
  <2>2. \/ wait' = "over" /\ timeout' = 0 /\ deadline' = deadline
        \/ wait' = "panicked" /\ deadline' = deadline
        \/ wait' = "asking" /\ timeout' # 0 /\ deadline' = time + timeout'
    BY <1>1, Zenon DEF BeginWait
  <2>3. time = 0 /\ timeout' \in Nat
    BY <2>1 DEF ReceiptInv, PunctualInv, Punctual
  <2>4. WaitTypes'
    BY <2>1, <2>2, <2>3 DEF ReceiptInv, PunctualInv, WaitTypes
  <2>5. Punctual' /\ WaitBounded'
    <3>1. PICK t \in Nat : timeout' = t
      BY <2>3
    <3>2. time' = 0 /\ due' = 0
      BY <2>1, <2>3
    <3>3. 0 <= t + Interval + MaxPoll /\ 0 <= 0 + MaxPoll
      OBVIOUS
    <3>4. wait' = "asking" => deadline' = t /\ 0 < t + Interval
      BY <2>2, <2>3, <3>1
    <3> QED
      BY <2>2, <3>1, <3>2, <3>3, <3>4 DEF Punctual, WaitBounded
  <2>6. ReplyTruthful' /\ Undecided' /\ ReceiptTruthful'
    BY <2>1, <2>2 DEF ReceiptInv, PunctualInv, WaitTypes, ReplyTruthful, Undecided,
                      ReceiptTruthful, NoOutcome
  <2> QED
    BY <2>4, <2>5, <2>6 DEF ReceiptInv, PunctualInv
<1>2. CASE NodeAnswers
  <2>1. PunctualInv'
    BY <1>2 DEF NodeAnswers, ReceiptInv, PunctualInv, WaitTypes, Punctual, WaitBounded,
                chain
  <2>2. PICK reply \in ReceiptReplies :
            IF TransactionReceipt(reply) = "receipt"
              THEN receipt' \in Statuses ELSE receipt' = TransactionReceipt(reply)
    BY <1>2 DEF NodeAnswers
  <2>3. ReplyTruthful'
    BY <1>2, <2>2, RepliesRead
       DEF NodeAnswers, ReplyTruthful, Statuses, Settled, chain, ReceiptInv,
           PunctualInv, WaitTypes
  <2>4. Undecided' /\ ReceiptTruthful'
    BY <1>2 DEF NodeAnswers, ReceiptInv, Undecided, ReceiptTruthful
  <2> QED
    BY <2>1, <2>3, <2>4 DEF ReceiptInv
<1>3. CASE AnswerArrives
  <2>1. /\ wait = "answering"
        /\ UNCHANGED <<timeout, time, deadline, receipt, mined, mined_at>>
    BY <1>3 DEF AnswerArrives, chain
  <2>2. \/ /\ receipt \notin {"error", "none"}
           /\ outcome' = [mined |-> TRUE, transferred |-> receipt # "0x0"]
           /\ wait' = "over" /\ due' = due
        \/ /\ receipt \in {"error", "none"}
           /\ time >= deadline
           /\ wait' = "over" /\ due' = due /\ outcome' = outcome
        \/ /\ ~(time >= deadline)
           /\ wait' = "sleeping" /\ due' = time + Interval /\ outcome' = outcome
    BY <1>3, Zenon DEF AnswerArrives
  <2>3. PunctualInv'
    BY <2>1, <2>2 DEF ReceiptInv, PunctualInv, WaitTypes, Punctual, WaitBounded
  <2>4. ReplyTruthful' /\ Undecided'
    BY <2>1, <2>2 DEF ReceiptInv, ReplyTruthful, Undecided
  <2>5. outcome = NoOutcome
    BY <2>1 DEF ReceiptInv, Undecided
  <2>6. ReceiptTruthful'
    BY <2>1, <2>2, <2>5
       DEF ReceiptInv, PunctualInv, WaitTypes, Punctual, ReplyTruthful, ReceiptTruthful,
           NoOutcome, Settled
  <2> QED
    BY <2>3, <2>4, <2>6 DEF ReceiptInv
<1>4. CASE Wake
  <2>1. PunctualInv'
    BY <1>4 DEF Wake, ReceiptInv, PunctualInv, WaitTypes, Punctual, WaitBounded, chain
  <2>2. ReplyTruthful' /\ Undecided' /\ ReceiptTruthful'
    BY <1>4 DEF Wake, ReceiptInv, ReplyTruthful, Undecided, ReceiptTruthful
  <2> QED
    BY <2>1, <2>2 DEF ReceiptInv
<1>5. CASE TimePasses
  <2>1. PunctualInv'
    BY <1>5 DEF TimePasses, ReceiptInv, PunctualInv, WaitTypes, Punctual, WaitBounded,
                waiting, chain
  <2>2. ReplyTruthful' /\ Undecided' /\ ReceiptTruthful'
    BY <1>5 DEF TimePasses, ReceiptInv, ReplyTruthful, Undecided, ReceiptTruthful,
                waiting, chain
  <2> QED
    BY <2>1, <2>2 DEF ReceiptInv
<1>6. ASSUME NEW result \in {"success", "reverted"}, Mine(result)
      PROVE  ReceiptInv'
  <2>1. PunctualInv'
    BY <1>6 DEF Mine, ReceiptInv, PunctualInv, WaitTypes, Punctual, WaitBounded, waiting
  <2>2. ReplyTruthful'
    BY <1>6 DEF Mine, ReceiptInv, PunctualInv, WaitTypes, Punctual, ReplyTruthful,
                Settled, waiting
  <2>3. Undecided' /\ ReceiptTruthful'
    BY <1>6 DEF Mine, ReceiptInv, Undecided, ReceiptTruthful, waiting
  <2> QED
    BY <2>1, <2>2, <2>3 DEF ReceiptInv
<1> QED
  BY <1>1, <1>2, <1>3, <1>4, <1>5, <1>6 DEF ReceiptStep

\* The wait keeps its deadline and its word in every visit.
THEOREM WaitInvariant == Spec => []ReceiptInv
<1>1. Init => ReceiptInv
  BY DEF Init, ReceiptInit, ReceiptInv, PunctualInv, WaitTypes, Punctual, WaitBounded,
         ReplyTruthful, Undecided, ReceiptTruthful, Waits, Polling
<1>2. ReceiptInv /\ [Next]_vars => ReceiptInv'
  <2> SUFFICES ASSUME ReceiptInv, [Next]_vars PROVE ReceiptInv'
    OBVIOUS
  <2>1. CASE BeginWait \/ ReceiptStep
    BY <2>1, WaitStep
  <2>2. CASE UNCHANGED receipts
    BY <2>2 DEF receipts, waiting, chain, ReceiptInv, PunctualInv, WaitTypes, Punctual,
                WaitBounded, ReplyTruthful, Undecided, ReceiptTruthful
  <2> QED
    BY <2>1, <2>2, StepsOfTheWait
<1> QED
  BY <1>1, <1>2, PTL DEF Spec

-----------------------------------------------------------------------------
\* The invariant of the worker pool.

\* The nonce that the reference solver finds for puzzle k.
Least(k, n) ==
    n \in 0 .. MaxNonce /\ Solved(k, n) /\ \A m \in 0 .. n - 1 : ~Solved(k, m)

\* What workers post.
Messages ==
    [t : {"solved"}, index : 0 .. total - 1, nonce : 0 .. MaxNonce]
        \cup [t : {"unsolvable"}, index : 0 .. total - 1]
        \cup {[t |-> "done"]}

\* The values of the pool's variables.
SolverShape ==
    /\ total \in Nat \ {0} /\ concurrency \in Nat
    /\ promise \in {"new", "pending", "resolved", "rejected"}
    /\ nonces \in [1 .. total -> 0 .. MaxNonce]
    /\ mining \in [Workers -> [idx : Nat, nonce : 0 .. MaxNonce]]
    /\ outbox \in [Workers -> Seq(Messages)]
    /\ erred \subseteq Workers

\* Puzzle k is in the array or on its way to it.
Reported(k) ==
    \/ Least(k, nonces[k + 1])
    \/ \E w \in Workers : \E j \in 1 .. Len(outbox[w]) :
           outbox[w][j].t = "solved" /\ outbox[w][j].index = k

\* So is every puzzle of worker w.
AllReported(w) == \A i \in 1 .. Len(Indices(w)) : Reported(Indices(w)[i])

\* Worker w has posted its last message; and it has been handled.
Through(w) == ~Busy(w) /\ w \notin erred
Finished == {w \in Workers : Through(w) /\ outbox[w] = << >>}

\* The last message of w that is not yet handled.
LastOf(w) == outbox[w][Len(outbox[w])]

\* What a worker has posted is so, "done" and "unsolvable" are its last words,
\* and no puzzle it has passed is forgotten.
MessagesTrue(w) ==
    \A j \in 1 .. Len(outbox[w]) :
        /\ outbox[w][j].t = "solved" => Least(outbox[w][j].index, outbox[w][j].nonce)
        /\ outbox[w][j].t = "unsolvable" => ~Solvable(outbox[w][j].index)
        /\ outbox[w][j].t # "solved" => j = Len(outbox[w]) /\ Through(w)

\* What is so of worker w while the promise is pending.
WorkerInv(w) ==
    /\ MessagesTrue(w)
    /\ Busy(w) =>
           /\ w \notin erred
           /\ mining[w].idx \in 1 .. Len(Indices(w)) + 1
           /\ \A i \in 1 .. mining[w].idx - 1 : Reported(Indices(w)[i])
    /\ Mining(w) => \A m \in 0 .. mining[w].nonce - 1 : ~Solved(Puzzle(w), m)
    /\ Through(w) =>
           \/ outbox[w] = << >> /\ AllReported(w)
           \/ outbox[w] # << >> /\ LastOf(w).t = "done" /\ AllReported(w)
           \/ outbox[w] # << >> /\ LastOf(w).t = "unsolvable"

\* As many workers are counted as have finished, and a promise that is resolved
\* is kept.
SolverInv ==
    /\ SolverShape
    /\ promise = "new" => doneWorkers = 0
    /\ promise = "pending" =>
           /\ \A w \in Workers : WorkerInv(w)
           /\ doneWorkers = Cardinality(Finished)
    /\ promise # "pending" =>
           /\ \A w \in Workers : ~Busy(w) /\ outbox[w] = << >>
           /\ erred = {}
    /\ promise = "resolved" => \A k \in 0 .. total - 1 : Least(k, nonces[k + 1])

-----------------------------------------------------------------------------
\* How the puzzles are divided among the workers.

\* Quotient and remainder of numbers that are not negative.
LEMMA Division ==
    ASSUME NEW x \in Nat, NEW c \in Nat \ {0}
    PROVE  /\ x \div c \in Nat
           /\ x % c \in 0 .. c - 1
           /\ x = ((x \div c) * c) + (x % c)
  OBVIOUS

\* A worker's steps of c puzzles stay within the x that follow its first.
LEMMA Stays ==
    ASSUME NEW x \in Nat, NEW c \in Nat \ {0}, NEW i \in 1 .. (x \div c) + 1
    PROVE  (i - 1) * c \in 0 .. x
<1>1. /\ x \div c \in Nat /\ x % c \in Nat
      /\ x = ((x \div c) * c) + (x % c)
  BY Division
<1>2. (i - 1) * c <= (x \div c) * c
  <2>1. ASSUME NEW a \in Nat, NEW b \in Nat, a <= b
        PROVE  a * c <= b * c
    BY <2>1
  <2>2. i - 1 \in Nat /\ i - 1 <= x \div c
    BY <1>1
  <2>3. QED
    BY <1>1, <2>1, <2>2
<1>3. (i - 1) * c \in Nat /\ (x \div c) * c \in Nat
  BY <1>1
<1>4. QED
  BY <1>1, <1>2, <1>3

\* Puzzle q * c + w of n is the worker's puzzle q + 1.
LEMMA Covers ==
    ASSUME NEW n \in Nat, NEW c \in Nat \ {0}, NEW q \in Nat, NEW w \in 0 .. c - 1,
           q * c + w <= n - 1
    PROVE  /\ n - 1 - w \in Nat
           /\ q + 1 \in 1 .. ((n - 1 - w) \div c) + 1
<1> DEFINE x == n - 1 - w
<1>2. q * c \in Nat
  OBVIOUS
<1>3. x \in Nat /\ q * c <= x
  BY <1>2
<1>4. /\ x \div c \in Nat /\ x % c \in 0 .. c - 1
      /\ x = ((x \div c) * c) + (x % c)
  BY <1>3, Division
<1> HIDE DEF x
<1>5. q <= x \div c
  <2>1. SUFFICES ASSUME (x \div c) + 1 <= q
                 PROVE  FALSE
    BY <1>4
  <2>2. ((x \div c) + 1) * c <= q * c
    <3>1. ASSUME NEW a \in Nat, NEW b \in Nat, a <= b
          PROVE  a * c <= b * c
      BY <3>1
    <3>2. QED
      BY <1>4, <2>1, <3>1
  <2>3. ((x \div c) + 1) * c = ((x \div c) * c) + c
    BY <1>4
  <2>4. ((x \div c) * c) \in Nat
    BY <1>4
  <2>5. QED
    BY <1>2, <1>3, <1>4, <2>2, <2>3, <2>4
<1>6. q + 1 \in 1 .. (x \div c) + 1
  BY <1>4, <1>5
<1> QED
  BY <1>3, <1>6 DEF x

\* There is at least one worker, and none without a puzzle.
LEMMA CoresPositive ==
    ASSUME SolverShape
    PROVE  /\ cores \in Nat \ {0} /\ cores <= total
           /\ IsFiniteSet(Workers) /\ Cardinality(Workers) = cores
<1>1. cores \in Nat \ {0} /\ cores <= total
  BY DEF SolverShape, cores, LeastOf
<1>2. IsFiniteSet(0 .. cores - 1) /\ Cardinality(0 .. cores - 1) = cores
  BY <1>1, FS_Interval
<1> QED
  BY <1>1, <1>2 DEF Workers

\* Worker w's puzzles are puzzles of the challenge.
LEMMA Assigned ==
    ASSUME SolverShape, NEW w \in Workers
    PROVE  /\ Len(Indices(w)) \in Nat \ {0}
           /\ \A i \in 1 .. Len(Indices(w)) : Indices(w)[i] \in 0 .. total - 1
<1>1. total \in Nat \ {0} /\ cores \in Nat \ {0} /\ w \in Nat /\ total - 1 - w \in Nat
  BY CoresPositive DEF SolverShape, Workers
<1>2. (total - 1 - w) \div cores \in Nat
  BY <1>1, Division
<1>3. Len(Indices(w)) = (total - 1 - w) \div cores + 1
  BY <1>2 DEF Indices
<1>4. ASSUME NEW i \in 1 .. Len(Indices(w))
      PROVE  Indices(w)[i] \in 0 .. total - 1
  <2>1. (i - 1) * cores \in 0 .. (total - 1 - w)
    BY <1>1, <1>3, <1>4, Stays
  <2>2. Indices(w)[i] = w + (i - 1) * cores
    BY <1>2, <1>3 DEF Indices
  <2> QED
    BY <1>1, <2>1, <2>2
<1> QED
  BY <1>2, <1>3, <1>4

\* And every puzzle of the challenge is some worker's.
LEMMA EveryPuzzleAssigned ==
    ASSUME SolverShape, NEW k \in 0 .. total - 1
    PROVE  \E w \in Workers : \E i \in 1 .. Len(Indices(w)) : Indices(w)[i] = k
<1>1. total \in Nat \ {0} /\ cores \in Nat \ {0}
  BY CoresPositive DEF SolverShape
<1>2. PICK w \in 0 .. cores - 1, q \in Nat : k = (q * cores) + w
  <2>1. ASSUME NEW x \in Nat, NEW c \in Nat \ {0}
        PROVE  \E w \in 0 .. c - 1, q \in Nat : x = (q * c) + w
    BY Division
  <2>2. k \in Nat
    BY <1>1
  <2> QED
    BY <1>1, <2>1, <2>2, Zenon
<1>3. w \in Workers /\ total - 1 - w \in Nat
      /\ q + 1 \in 1 .. ((total - 1 - w) \div cores) + 1
  BY <1>1, <1>2, Covers DEF Workers
<1>4. (total - 1 - w) \div cores \in Nat
  BY <1>1, <1>3, Division
<1>5. Len(Indices(w)) = (total - 1 - w) \div cores + 1
  BY <1>4 DEF Indices
<1>6. q + 1 - 1 = q /\ q * cores \in Nat /\ q * cores + w = w + q * cores
  BY <1>1
<1>7. q + 1 \in 1 .. Len(Indices(w)) /\ Indices(w)[q + 1] = k
  BY <1>2, <1>3, <1>4, <1>5, <1>6 DEF Indices
<1> QED
  BY <1>3, <1>7

\* A step that leaves the challenge alone leaves what is read off it alone.
LEMMA SameChallenge ==
    ASSUME UNCHANGED <<meets, concurrency>>
    PROVE  /\ total' = total /\ cores' = cores /\ Workers' = Workers
           /\ \A w : Indices(w)' = Indices(w)
           /\ \A k, n : Solved(k, n)' = Solved(k, n)
           /\ \A k, n : Least(k, n)' = Least(k, n)
           /\ \A k : Solvable(k)' = Solvable(k)
           /\ Messages' = Messages
BY DEF total, cores, Workers, Indices, Solved, Least, Solvable, Messages

-----------------------------------------------------------------------------
\* The steps of the pool.

\* No puzzle is forgotten; and a worker is left alone.
NothingLost ==
    /\ UNCHANGED <<meets, concurrency>>
    /\ \A k \in 0 .. total - 1 : Reported(k) => Reported(k)'

Undisturbed(w) ==
    /\ mining'[w] = mining[w] /\ outbox'[w] = outbox[w]
    /\ w \in erred' <=> w \in erred

\* A step of worker w, or of the page on its behalf.
Concerns(w) ==
    /\ promise = "pending" /\ promise' = "pending"
    /\ NothingLost
    /\ \A v \in Workers \ {w} : Undisturbed(v)

\* What is known of a worker that is left alone stays so.
LEMMA OtherWorker ==
    ASSUME SolverShape, NEW v \in Workers, NothingLost, Undisturbed(v), WorkerInv(v)
    PROVE  WorkerInv(v)' /\ (v \in Finished' <=> v \in Finished)
<1>1. /\ mining'[v] = mining[v] /\ outbox'[v] = outbox[v]
      /\ v \in erred' <=> v \in erred
  BY DEF Undisturbed
<1>2. /\ total' = total /\ cores' = cores /\ Workers' = Workers
      /\ Indices(v)' = Indices(v)
      /\ \A k, n : Solved(k, n)' = Solved(k, n)
      /\ \A k, n : Least(k, n)' = Least(k, n)
      /\ \A k : Solvable(k)' = Solvable(k)
  BY SameChallenge DEF NothingLost
<1>3. /\ Busy(v)' = Busy(v) /\ Mining(v)' = Mining(v) /\ Puzzle(v)' = Puzzle(v)
      /\ LastOf(v)' = LastOf(v)
  BY <1>1, <1>2 DEF Busy, Mining, Puzzle, LastOf, Idle
<1>4. Through(v)' <=> Through(v)
  BY <1>1, <1>3 DEF Through
<1>5. v \in Finished' <=> v \in Finished
  BY <1>1, <1>2, <1>4 DEF Finished
<1>6. \A i \in 1 .. Len(Indices(v)) : Reported(Indices(v)[i]) => Reported(Indices(v)[i])'
  BY <1>2, Assigned DEF NothingLost
<1>7. AllReported(v) => AllReported(v)'
  BY <1>2, <1>6 DEF AllReported
<1>8. MessagesTrue(v)'
  BY <1>1, <1>2, <1>4 DEF MessagesTrue, WorkerInv
<1>9. Busy(v)' =>
          /\ v \notin erred'
          /\ mining'[v].idx \in 1 .. Len(Indices(v)') + 1
          /\ \A i \in 1 .. mining'[v].idx - 1 : Reported(Indices(v)[i])'
  BY <1>1, <1>2, <1>3, <1>6, Assigned DEF WorkerInv
<1>10. Mining(v)' => \A m \in 0 .. mining'[v].nonce - 1 : ~Solved(Puzzle(v), m)'
  BY <1>1, <1>2, <1>3 DEF WorkerInv
<1>11. Through(v)' =>
          \/ outbox'[v] = << >> /\ AllReported(v)'
          \/ outbox'[v] # << >> /\ LastOf(v)'.t = "done" /\ AllReported(v)'
          \/ outbox'[v] # << >> /\ LastOf(v)'.t = "unsolvable"
  BY <1>1, <1>3, <1>4, <1>7 DEF WorkerInv
<1>12. WorkerInv(v)'
  BY <1>2, <1>3, <1>8, <1>9, <1>10, <1>11 DEF WorkerInv
<1> QED
  BY <1>5, <1>12

\* So the invariant holds after a step if it holds of the worker concerned.
LEMMA OneWorker ==
    ASSUME SolverInv, NEW w \in Workers, Concerns(w), SolverShape', WorkerInv(w)',
           \/ doneWorkers' = doneWorkers /\ (w \in Finished' <=> w \in Finished)
           \/ doneWorkers' = doneWorkers + 1 /\ w \in Finished' /\ w \notin Finished
    PROVE  SolverInv'
<1>1. /\ SolverShape /\ \A v \in Workers : WorkerInv(v)
      /\ doneWorkers = Cardinality(Finished)
  BY DEF SolverInv, Concerns
<1>2. Workers' = Workers
  BY SameChallenge DEF Concerns, NothingLost, Undisturbed
<1>3. \A v \in Workers \ {w} : WorkerInv(v)' /\ (v \in Finished' <=> v \in Finished)
  BY <1>1, OtherWorker DEF Concerns
<1>4. Finished \subseteq Workers /\ Finished' \subseteq Workers
  BY <1>2 DEF Finished
<1>5. IsFiniteSet(Finished)
  BY <1>1, <1>4, CoresPositive, FS_Subset
<1>6. doneWorkers' = Cardinality(Finished')
  <2>1. CASE doneWorkers' = doneWorkers /\ (w \in Finished' <=> w \in Finished)
    <3>1. Finished' = Finished
      BY <1>3, <1>4, <2>1
    <3> QED
      BY <1>1, <2>1, <3>1
  <2>2. CASE doneWorkers' = doneWorkers + 1 /\ w \in Finished' /\ w \notin Finished
    <3>1. Finished' = Finished \cup {w}
      BY <1>3, <1>4, <2>2
    <3>2. Cardinality(Finished \cup {w}) = Cardinality(Finished) + 1
      BY <1>5, <2>2, FS_AddElement
    <3> QED
      BY <1>1, <2>2, <3>1, <3>2
  <2> QED
    BY <2>1, <2>2
<1>7. \A v \in Workers' : WorkerInv(v)'
  BY <1>2, <1>3
<1> QED
  BY <1>6, <1>7 DEF SolverInv, Concerns

\* Nothing happens but between the start and the settling of the promise.
LEMMA Pending ==
    ASSUME SolverInv, NEW w \in Workers,
           WorkerStep(w) \/ WorkerErrs(w) \/ OnMessage(w) \/ OnError(w)
    PROVE  promise = "pending" /\ SolverShape /\ WorkerInv(w)
BY DEF SolverInv, WorkerStep, WorkerErrs, OnMessage, OnError, FindNonce, NextNonce,
       AllMined, Mining, OnSolved, OnDone, OnUnsolvable, Receives

\* A settled promise owes nothing.
LEMMA Settling ==
    ASSUME SolverShape, NEW result \in {"resolved", "rejected"}, Settle(result),
           UNCHANGED <<meets, concurrency, nonces>>,
           result = "resolved" => \A k \in 0 .. total - 1 : Least(k, nonces[k + 1])
    PROVE  SolverInv'
<1>1. /\ total' = total /\ Workers' = Workers
      /\ \A k, n : Least(k, n)' = Least(k, n)
      /\ Messages' = Messages
  BY SameChallenge
<1>2. /\ promise' = result /\ erred' = {}
      /\ mining' = [w \in Workers |-> Idle]
      /\ outbox' = [w \in Workers |-> << >>]
  BY DEF Settle
<1>3. SolverShape'
  BY <1>1, <1>2 DEF SolverShape, Idle
<1>4. \A w \in Workers' : ~Busy(w)' /\ outbox'[w] = << >>
  BY <1>1, <1>2 DEF Busy, Idle
<1>5. promise' = "resolved" => \A k \in 0 .. total' - 1 : Least(k, nonces[k + 1])'
  BY <1>1, <1>2
<1> QED
  BY <1>2, <1>3, <1>4, <1>5 DEF SolverInv

\* It holds when the page is opened.
LEMMA SolverStart == SolverInit => SolverInv
<1> SUFFICES ASSUME SolverInit PROVE SolverInv
  OBVIOUS
<1>1. PICK n \in 1 .. MaxPuzzles : meets \in [1 .. n -> [1 .. MaxNonce + 1 -> BOOLEAN]]
  BY DEF SolverInit
<1>2. total = n
  BY <1>1 DEF total
<1>3. SolverShape
  BY <1>2 DEF SolverInit, SolverShape, Idle
<1>4. \A w \in Workers : ~Busy(w) /\ outbox[w] = << >>
  BY DEF SolverInit, Busy
<1> QED
  BY <1>3, <1>4 DEF SolverInit, SolverInv

\* What is posted is not lost until it is handled.
LEMMA Posted ==
    ASSUME SolverShape, NEW w \in Workers, NEW message \in Messages, Post(w, message),
           UNCHANGED <<meets, concurrency, nonces>>
    PROVE  /\ outbox' \in [Workers -> Seq(Messages)]
           /\ outbox'[w] = Append(outbox[w], message)
           /\ Len(outbox'[w]) = Len(outbox[w]) + 1
           /\ LastOf(w)' = message
           /\ \A j \in 1 .. Len(outbox[w]) : outbox'[w][j] = outbox[w][j]
           /\ \A v \in Workers \ {w} : outbox'[v] = outbox[v]
           /\ \A k \in 0 .. total - 1 : Reported(k) => Reported(k)'
<1>1. outbox \in [Workers -> Seq(Messages)] /\ outbox[w] \in Seq(Messages)
  BY DEF SolverShape
<1>2. Append(outbox[w], message) \in Seq(Messages)
  BY <1>1
<1>3. /\ outbox' \in [Workers -> Seq(Messages)]
      /\ outbox'[w] = Append(outbox[w], message)
      /\ \A v \in Workers \ {w} : outbox'[v] = outbox[v]
  BY <1>1, <1>2 DEF Post
<1>4. /\ Len(outbox'[w]) = Len(outbox[w]) + 1
      /\ outbox'[w][Len(outbox[w]) + 1] = message
      /\ \A j \in 1 .. Len(outbox[w]) : outbox'[w][j] = outbox[w][j]
  BY <1>1, <1>3
<1>5. ASSUME NEW k \in 0 .. total - 1, Reported(k)
      PROVE  Reported(k)'
  <2>1. Workers' = Workers /\ (Least(k, nonces[k + 1])' <=> Least(k, nonces[k + 1]))
    BY SameChallenge
  <2>2. CASE Least(k, nonces[k + 1])
    BY <2>1, <2>2 DEF Reported
  <2>3. ASSUME NEW v \in Workers, NEW j \in 1 .. Len(outbox[v]),
               outbox[v][j].t = "solved", outbox[v][j].index = k
        PROVE  Reported(k)'
    <3>1. j \in 1 .. Len(outbox'[v]) /\ outbox'[v][j] = outbox[v][j]
      <4>1. Len(outbox[w]) \in Nat
        BY <1>1
      <4>2. CASE v = w
        BY <1>4, <4>1, <4>2
      <4>3. CASE v # w
        BY <1>3, <4>3
      <4> QED
        BY <4>2, <4>3
    <3> QED
      BY <2>1, <2>3, <3>1 DEF Reported
  <2> QED
    BY <1>5, <2>2, <2>3 DEF Reported
<1> QED
  BY <1>3, <1>4, <1>5 DEF LastOf

\* A busy worker has posted solutions only.
LEMMA BusyHasSolved ==
    ASSUME NEW w \in Workers, WorkerInv(w), Busy(w)
    PROVE  \A j \in 1 .. Len(outbox[w]) : outbox[w][j].t = "solved"
BY DEF WorkerInv, MessagesTrue, Through

\* What a mining worker is at.
LEMMA MiningAt ==
    ASSUME SolverShape, NEW w \in Workers, WorkerInv(w), Mining(w)
    PROVE  /\ Busy(w) /\ Len(Indices(w)) \in Nat
           /\ mining[w].idx \in 1 .. Len(Indices(w))
           /\ mining[w].nonce \in 0 .. MaxNonce
           /\ Puzzle(w) = Indices(w)[mining[w].idx] /\ Puzzle(w) \in 0 .. total - 1
<1>1. Busy(w) /\ mining[w].idx <= Len(Indices(w)) /\ Len(Indices(w)) \in Nat
  BY Assigned DEF Mining
<1>2. mining[w].idx \in 1 .. Len(Indices(w)) + 1
  BY <1>1 DEF WorkerInv
<1>3. mining[w].idx \in 1 .. Len(Indices(w))
  BY <1>1, <1>2
<1>4. mining[w].nonce \in 0 .. MaxNonce
  BY DEF SolverShape
<1>5. Puzzle(w) = Indices(w)[mining[w].idx] /\ Puzzle(w) \in 0 .. total - 1
  BY <1>3, Assigned DEF Puzzle
<1> QED
  BY <1>1, <1>3, <1>4, <1>5

\* A nonce that is found is posted, and is the least one.
LEMMA FindNonceHolds ==
    ASSUME SolverInv, NEW w \in Workers, FindNonce(w)
    PROVE  SolverInv' /\ Concerns(w)
<1>1. promise = "pending" /\ SolverShape /\ WorkerInv(w)
  BY Pending DEF WorkerStep
<1> PICK k : k = Puzzle(w)
  OBVIOUS
<1> PICK n : n = mining[w].nonce
  OBVIOUS
<1> DEFINE message == [t |-> "solved", index |-> k, nonce |-> n]
<1>2. /\ Mining(w) /\ Busy(w) /\ Solved(k, n) /\ Post(w, message)
      /\ mining' = [mining EXCEPT ![w] = [idx |-> @.idx + 1, nonce |-> 0]]
      /\ UNCHANGED <<meets, concurrency, promise, nonces, doneWorkers, erred>>
  BY DEF FindNonce, state, Mining
<1>3. /\ total' = total /\ cores' = cores /\ Workers' = Workers
      /\ Indices(w)' = Indices(w)
      /\ \A i, m : Solved(i, m)' = Solved(i, m)
      /\ \A i, m : Least(i, m)' = Least(i, m)
      /\ \A i : Solvable(i)' = Solvable(i)
      /\ Messages' = Messages
  BY <1>2, SameChallenge
<1>4. /\ mining[w].idx \in 1 .. Len(Indices(w)) /\ n \in 0 .. MaxNonce
      /\ Len(Indices(w)) \in Nat
      /\ k = Indices(w)[mining[w].idx] /\ k \in 0 .. total - 1
  BY <1>1, <1>2, MiningAt
<1>5. Least(k, n)
  BY <1>1, <1>2, <1>4 DEF Least, WorkerInv
<1>6. message \in Messages
  BY <1>4 DEF Messages
<1> HIDE DEF message
<1>7. /\ mining'[w] = [idx |-> mining[w].idx + 1, nonce |-> 0]
      /\ mining' \in [Workers -> [idx : Nat, nonce : 0 .. MaxNonce]]
      /\ \A v \in Workers \ {w} : mining'[v] = mining[v]
  BY <1>1, <1>2, <1>4 DEF SolverShape
<1>8. /\ outbox' \in [Workers -> Seq(Messages)]
      /\ outbox'[w] = Append(outbox[w], message)
      /\ Len(outbox'[w]) = Len(outbox[w]) + 1
      /\ \A j \in 1 .. Len(outbox[w]) : outbox'[w][j] = outbox[w][j]
      /\ \A v \in Workers \ {w} : outbox'[v] = outbox[v]
      /\ \A i \in 0 .. total - 1 : Reported(i) => Reported(i)'
      /\ LastOf(w)' = message
  BY <1>1, <1>2, <1>6, Posted
<1>9. SolverShape'
  BY <1>1, <1>2, <1>3, <1>7, <1>8 DEF SolverShape
<1>10. Concerns(w)
  BY <1>1, <1>2, <1>7, <1>8 DEF Concerns, NothingLost, Undisturbed
<1>11. Busy(w)' /\ ~Through(w)'
  BY <1>4, <1>7 DEF Busy, Through, Idle
<1>12. Len(outbox[w]) \in Nat /\ outbox'[w][Len(outbox[w]) + 1] = message
  BY <1>1, <1>8 DEF SolverShape, LastOf
<1>13. MessagesTrue(w)'
  <2>1. SUFFICES ASSUME NEW j \in 1 .. Len(outbox'[w])
                 PROVE  /\ outbox'[w][j].t = "solved"
                        /\ Least(outbox'[w][j].index, outbox'[w][j].nonce)
    BY <1>3 DEF MessagesTrue
  <2>2. CASE j \in 1 .. Len(outbox[w])
    BY <1>1, <1>2, <1>8, <2>2, BusyHasSolved DEF WorkerInv, MessagesTrue
  <2>3. CASE j = Len(outbox[w]) + 1
    BY <1>5, <1>12, <2>3 DEF message
  <2> QED
    BY <1>8, <1>12, <2>2, <2>3
<1>14. Reported(k)'
  <2>1. /\ Len(outbox[w]) + 1 \in 1 .. Len(outbox'[w])
        /\ outbox'[w][Len(outbox[w]) + 1].t = "solved"
        /\ outbox'[w][Len(outbox[w]) + 1].index = k
    BY <1>8, <1>12 DEF message
  <2> QED
    BY <1>3, <2>1 DEF Reported
<1>15. /\ mining'[w].idx \in 1 .. Len(Indices(w)) + 1
       /\ \A i \in 1 .. mining'[w].idx - 1 : Reported(Indices(w)[i])'
  <2>1. mining'[w].idx = mining[w].idx + 1
    BY <1>7
  <2>2. ASSUME NEW i \in 1 .. mining'[w].idx - 1
        PROVE  Reported(Indices(w)[i])'
    <3>1. CASE i = mining[w].idx
      BY <1>3, <1>4, <1>14, <3>1
    <3>2. CASE i \in 1 .. mining[w].idx - 1
      <4>1. Reported(Indices(w)[i])
        BY <1>1, <1>2, <3>2 DEF WorkerInv
      <4>2. Indices(w)[i] \in 0 .. total - 1
        BY <1>1, <1>4, <3>2, Assigned
      <4> QED
        BY <1>3, <1>8, <4>1, <4>2
    <3> QED
      BY <1>4, <2>1, <2>2, <3>1, <3>2
  <2> QED
    BY <1>4, <2>1, <2>2
<1>16. mining'[w].nonce = 0
  BY <1>7
<1>17. WorkerInv(w)'
  BY <1>1, <1>2, <1>3, <1>11, <1>13, <1>15, <1>16 DEF WorkerInv
<1>18. w \notin Finished /\ w \notin Finished'
  BY <1>2, <1>11 DEF Finished, Through
<1> QED
  BY <1>2, <1>9, <1>10, <1>17, <1>18, OneWorker

\* A worker that posts "done" or "unsolvable" is through.
LEMMA LastWords ==
    ASSUME SolverInv, promise = "pending", NEW w \in Workers, Busy(w),
           NEW message \in Messages, Post(w, message),
           mining' = [mining EXCEPT ![w] = Idle],
           UNCHANGED <<meets, concurrency, state, erred>>,
           \/ message.t = "done" /\ AllReported(w)
           \/ message.t = "unsolvable" /\ ~Solvable(message.index)
    PROVE  SolverInv' /\ Concerns(w)
<1>1. SolverShape /\ WorkerInv(w) /\ w \notin erred
  BY DEF SolverInv, WorkerInv
<1>2. UNCHANGED <<promise, nonces, doneWorkers>>
  BY DEF state
<1>3. /\ total' = total /\ cores' = cores /\ Workers' = Workers
      /\ Indices(w)' = Indices(w)
      /\ \A i, m : Least(i, m)' = Least(i, m)
      /\ \A i : Solvable(i)' = Solvable(i)
      /\ Messages' = Messages
  BY SameChallenge
<1>4. /\ mining'[w] = Idle
      /\ mining' \in [Workers -> [idx : Nat, nonce : 0 .. MaxNonce]]
      /\ \A v \in Workers \ {w} : mining'[v] = mining[v]
  BY <1>1 DEF SolverShape, Idle
<1>5. /\ outbox' \in [Workers -> Seq(Messages)]
      /\ outbox'[w] = Append(outbox[w], message)
      /\ Len(outbox'[w]) = Len(outbox[w]) + 1
      /\ \A j \in 1 .. Len(outbox[w]) : outbox'[w][j] = outbox[w][j]
      /\ \A v \in Workers \ {w} : outbox'[v] = outbox[v]
      /\ \A i \in 0 .. total - 1 : Reported(i) => Reported(i)'
      /\ LastOf(w)' = message
  BY <1>1, <1>2, Posted
<1>6. SolverShape'
  BY <1>1, <1>2, <1>3, <1>4, <1>5 DEF SolverShape
<1>7. Concerns(w)
  BY <1>2, <1>4, <1>5 DEF Concerns, NothingLost, Undisturbed
<1>8. ~Busy(w)' /\ Through(w)' /\ ~Mining(w)'
  BY <1>1, <1>4 DEF Busy, Through, Mining, Idle
<1>9. Len(outbox[w]) \in Nat /\ outbox'[w][Len(outbox[w]) + 1] = message
  BY <1>1, <1>5 DEF SolverShape, LastOf
<1>10. MessagesTrue(w)'
  <2>1. ASSUME NEW j \in 1 .. Len(outbox[w])
        PROVE  /\ outbox'[w][j].t = "solved"
               /\ Least(outbox'[w][j].index, outbox'[w][j].nonce)
    BY <1>1, <1>5, BusyHasSolved DEF WorkerInv, MessagesTrue
  <2>2. message.t # "solved"
    OBVIOUS
  <2>3. ASSUME NEW j \in 1 .. Len(outbox'[w])
        PROVE  /\ outbox'[w][j].t = "solved" => Least(outbox'[w][j].index, outbox'[w][j].nonce)
               /\ outbox'[w][j].t = "unsolvable" => ~Solvable(outbox'[w][j].index)
               /\ outbox'[w][j].t # "solved" => j = Len(outbox'[w])
    <3>1. CASE j \in 1 .. Len(outbox[w])
      BY <2>1, <3>1
    <3>2. CASE j = Len(outbox[w]) + 1
      BY <1>5, <1>9, <2>2, <3>2
    <3> QED
      BY <1>5, <1>9, <3>1, <3>2
  <2> QED
    BY <1>3, <1>8, <2>3 DEF MessagesTrue
<1>11. AllReported(w) => AllReported(w)'
  BY <1>1, <1>3, <1>5, Assigned DEF AllReported
<1>12. outbox'[w] # << >>
  BY <1>5, <1>9
<1>13. WorkerInv(w)'
  BY <1>5, <1>8, <1>10, <1>11, <1>12 DEF WorkerInv
<1>14. w \notin Finished /\ w \notin Finished'
  BY <1>12 DEF Finished, Through
<1> QED
  BY <1>2, <1>6, <1>7, <1>13, <1>14, OneWorker

\* A worker that has found all of its nonces says so.
LEMMA AllMinedHolds ==
    ASSUME SolverInv, NEW w \in Workers, AllMined(w)
    PROVE  SolverInv' /\ Concerns(w)
<1>1. promise = "pending" /\ SolverShape /\ WorkerInv(w)
  BY Pending DEF WorkerStep
<1>2. /\ Busy(w) /\ ~Mining(w) /\ Post(w, [t |-> "done"])
      /\ mining' = [mining EXCEPT ![w] = Idle]
      /\ UNCHANGED <<meets, concurrency, state, erred>>
  BY DEF AllMined
<1>3. mining[w].idx = Len(Indices(w)) + 1
  BY <1>1, <1>2, Assigned DEF Mining, WorkerInv
<1>4. AllReported(w)
  BY <1>1, <1>2, <1>3, Assigned DEF WorkerInv, AllReported
<1>5. [t |-> "done"] \in Messages
  BY DEF Messages
<1> QED
  BY <1>1, <1>2, <1>4, <1>5, LastWords

\* A worker gives a puzzle up only when it has tried every nonce.
LEMMA NextNonceHolds ==
    ASSUME SolverInv, NEW w \in Workers, NextNonce(w)
    PROVE  SolverInv' /\ Concerns(w)
<1>1. promise = "pending" /\ SolverShape /\ WorkerInv(w)
  BY Pending DEF WorkerStep
<1> PICK k : k = Puzzle(w)
  OBVIOUS
<1> PICK n : n = mining[w].nonce
  OBVIOUS
<1>2. /\ Mining(w) /\ Busy(w) /\ ~Solved(k, n)
      /\ UNCHANGED <<meets, concurrency, state, erred>>
  BY DEF NextNonce, Mining
<1>3. /\ mining[w].idx \in 1 .. Len(Indices(w)) /\ n \in 0 .. MaxNonce
      /\ k \in 0 .. total - 1
  BY <1>1, <1>2, MiningAt
<1>4. \A m \in 0 .. n : ~Solved(k, m)
  BY <1>1, <1>2, <1>3 DEF WorkerInv
<1>5. CASE Exhausted(n + 1)
  <2>1. Post(w, [t |-> "unsolvable", index |-> k]) /\ mining' = [mining EXCEPT ![w] = Idle]
    BY <1>5 DEF NextNonce
  <2>2. ~Solvable(k)
    BY <1>3, <1>4, <1>5 DEF Exhausted, Solvable
  <2>3. [t |-> "unsolvable", index |-> k] \in Messages
    BY <1>3 DEF Messages
  <2> QED
    BY <1>1, <1>2, <2>1, <2>2, <2>3, LastWords
<1>6. CASE ~Exhausted(n + 1)
  <2>1. mining' = [mining EXCEPT ![w].nonce = n + 1] /\ UNCHANGED outbox
    BY <1>6 DEF NextNonce
  <2>2. /\ mining' \in [Workers -> [idx : Nat, nonce : 0 .. MaxNonce]]
        /\ \A v \in Workers \ {w} : mining'[v] = mining[v]
        /\ mining'[w].idx = mining[w].idx /\ mining'[w].nonce = n + 1
    <3>1. n + 1 \in 0 .. MaxNonce
      BY <1>3, <1>6 DEF Exhausted
    <3>2. mining \in [Workers -> [idx : Nat, nonce : 0 .. MaxNonce]]
      BY <1>1 DEF SolverShape
    <3> QED
      BY <2>1, <3>1, <3>2
  <2>3. /\ total' = total /\ cores' = cores /\ Workers' = Workers
        /\ Indices(w)' = Indices(w)
        /\ \A i, m : Solved(i, m)' = Solved(i, m)
        /\ \A i, m : Least(i, m)' = Least(i, m)
        /\ \A i : Solvable(i)' = Solvable(i)
        /\ Messages' = Messages
    BY <1>2, SameChallenge
  <2>4. SolverShape'
    BY <1>1, <1>2, <2>1, <2>2, <2>3 DEF SolverShape, state
  <2>5. \A i \in 0 .. total - 1 : Reported(i) => Reported(i)'
    BY <1>2, <2>1, <2>3 DEF Reported, state
  <2>6. Concerns(w)
    BY <1>1, <1>2, <2>1, <2>2, <2>5 DEF Concerns, NothingLost, Undisturbed, state
  <2>7. Busy(w)' /\ ~Through(w)' /\ Puzzle(w)' = k
    BY <1>3, <2>2, <2>3 DEF Busy, Through, Idle, Puzzle
  <2>8. MessagesTrue(w)'
    BY <1>1, <1>2, <2>1, <2>3, <2>7, BusyHasSolved DEF MessagesTrue, WorkerInv
  <2>9. \A i \in 1 .. mining'[w].idx - 1 : Reported(Indices(w)[i])'
    <3>1. ASSUME NEW i \in 1 .. mining[w].idx - 1
          PROVE  Reported(Indices(w)[i]) /\ Indices(w)[i] \in 0 .. total - 1
      BY <1>1, <1>2, <1>3, Assigned DEF WorkerInv
    <3> QED
      BY <2>2, <2>3, <2>5, <3>1
  <2>10. \A m \in 0 .. mining'[w].nonce - 1 : ~Solved(Puzzle(w), m)'
    BY <1>3, <1>4, <2>2, <2>3, <2>7
  <2>11. WorkerInv(w)'
    BY <1>1, <1>2, <1>3, <2>2, <2>3, <2>7, <2>8, <2>9, <2>10 DEF WorkerInv
  <2>12. w \notin Finished /\ w \notin Finished'
    BY <1>2, <2>7 DEF Finished, Through
  <2> QED
    BY <1>2, <2>4, <2>6, <2>11, <2>12, OneWorker DEF state
<1> QED
  BY <1>5, <1>6

\* A worker that fails says nothing more.
LEMMA WorkerErrsHolds ==
    ASSUME SolverInv, NEW w \in Workers, WorkerErrs(w)
    PROVE  SolverInv' /\ Concerns(w)
<1>1. promise = "pending" /\ SolverShape /\ WorkerInv(w)
  BY Pending
<1>2. /\ Busy(w) /\ mining' = [mining EXCEPT ![w] = Idle]
      /\ erred' = erred \cup {w}
      /\ UNCHANGED <<meets, concurrency, promise, nonces, doneWorkers, outbox>>
  BY DEF WorkerErrs, state
<1>3. /\ mining' \in [Workers -> [idx : Nat, nonce : 0 .. MaxNonce]]
      /\ mining'[w] = Idle
      /\ \A v \in Workers \ {w} : mining'[v] = mining[v]
  BY <1>1, <1>2 DEF SolverShape, Idle
<1>4. /\ total' = total /\ cores' = cores /\ Workers' = Workers
      /\ \A i, m : Least(i, m)' = Least(i, m)
      /\ Messages' = Messages
  BY <1>2, SameChallenge
<1>5. SolverShape'
  BY <1>1, <1>2, <1>3, <1>4 DEF SolverShape
<1>6. \A i \in 0 .. total - 1 : Reported(i) => Reported(i)'
  BY <1>2, <1>4 DEF Reported
<1>7. Concerns(w)
  BY <1>1, <1>2, <1>3, <1>6 DEF Concerns, NothingLost, Undisturbed
<1>8. ~Busy(w)' /\ ~Through(w)' /\ ~Mining(w)'
  BY <1>2, <1>3 DEF Busy, Through, Mining
<1>9. MessagesTrue(w)'
  BY <1>1, <1>2, <1>4, BusyHasSolved DEF MessagesTrue, WorkerInv
<1>10. WorkerInv(w)'
  BY <1>8, <1>9 DEF WorkerInv
<1>11. w \notin Finished /\ w \notin Finished'
  BY <1>2, <1>8 DEF Finished, Through
<1> QED
  BY <1>2, <1>5, <1>7, <1>10, <1>11, OneWorker

\* What Pop leaves of the outbox.
LEMMA Popped ==
    ASSUME SolverShape, NEW w \in Workers, outbox[w] # << >>, Pop(w)
    PROVE  /\ outbox' \in [Workers -> Seq(Messages)]
           /\ Len(outbox[w]) \in Nat \ {0}
           /\ Len(outbox'[w]) = Len(outbox[w]) - 1
           /\ \A j \in 1 .. Len(outbox[w]) - 1 : outbox'[w][j] = outbox[w][j + 1]
           /\ \A v \in Workers \ {w} : outbox'[v] = outbox[v]
           /\ outbox[w][1] \in Messages /\ Head(outbox[w]) = outbox[w][1]
<1>1. outbox \in [Workers -> Seq(Messages)] /\ outbox[w] \in Seq(Messages)
  BY DEF SolverShape
<1>2. Tail(outbox[w]) \in Seq(Messages)
  BY <1>1
<1>3. /\ outbox' \in [Workers -> Seq(Messages)]
      /\ outbox'[w] = Tail(outbox[w])
      /\ \A v \in Workers \ {w} : outbox'[v] = outbox[v]
  BY <1>1, <1>2 DEF Pop
<1> QED
  BY <1>1, <1>3

\* The message that is handled leaves its nonce in the array.
LEMMA OnSolvedHolds ==
    ASSUME SolverInv, NEW w \in Workers, OnSolved(w)
    PROVE  SolverInv' /\ Concerns(w)
<1>1. promise = "pending" /\ SolverShape /\ WorkerInv(w)
  BY Pending DEF OnMessage
<1> PICK k : k = outbox[w][1].index
  OBVIOUS
<1> PICK n : n = outbox[w][1].nonce
  OBVIOUS
<1>2. /\ outbox[w] # << >> /\ Head(outbox[w]).t = "solved" /\ Pop(w)
      /\ nonces' = [nonces EXCEPT ![Head(outbox[w]).index + 1] = Head(outbox[w]).nonce]
      /\ UNCHANGED <<meets, concurrency, promise, doneWorkers, mining, erred>>
  BY DEF OnSolved, Receives
<1>3. /\ outbox' \in [Workers -> Seq(Messages)]
      /\ Len(outbox[w]) \in Nat \ {0}
      /\ Len(outbox'[w]) = Len(outbox[w]) - 1
      /\ \A j \in 1 .. Len(outbox[w]) - 1 : outbox'[w][j] = outbox[w][j + 1]
      /\ \A v \in Workers \ {w} : outbox'[v] = outbox[v]
      /\ outbox[w][1] \in Messages /\ Head(outbox[w]) = outbox[w][1]
  BY <1>1, <1>2, Popped
<1>4. /\ outbox[w][1].t = "solved" /\ Least(k, n)
      /\ k \in 0 .. total - 1 /\ n \in 0 .. MaxNonce
  <2>1. outbox[w][1].t = "solved" /\ 1 \in 1 .. Len(outbox[w])
    BY <1>2, <1>3
  <2>2. outbox[w][1] \in [t : {"solved"}, index : 0 .. total - 1, nonce : 0 .. MaxNonce]
    BY <1>3, <2>1 DEF Messages
  <2>3. Least(outbox[w][1].index, outbox[w][1].nonce)
    BY <1>1, <2>1 DEF WorkerInv, MessagesTrue
  <2> QED
    BY <2>1, <2>2, <2>3
<1>5. /\ total' = total /\ cores' = cores /\ Workers' = Workers
      /\ Indices(w)' = Indices(w)
      /\ \A i, m : Solved(i, m)' = Solved(i, m)
      /\ \A i, m : Least(i, m)' = Least(i, m)
      /\ \A i : Solvable(i)' = Solvable(i)
      /\ Messages' = Messages
  BY <1>2, SameChallenge
<1>6. /\ nonces' \in [1 .. total -> 0 .. MaxNonce]
      /\ nonces'[k + 1] = n
      /\ \A i \in 0 .. total - 1 : i # k => nonces'[i + 1] = nonces[i + 1]
  <2>1. nonces' = [nonces EXCEPT ![k + 1] = n]
    BY <1>2, <1>3
  <2>2. total \in Nat /\ nonces \in [1 .. total -> 0 .. MaxNonce] /\ k + 1 \in 1 .. total
    BY <1>1, <1>4 DEF SolverShape
  <2>3. nonces' \in [1 .. total -> 0 .. MaxNonce]
    BY <1>4, <2>1, <2>2
  <2>4. nonces'[k + 1] = n
    BY <2>1, <2>2
  <2>5. ASSUME NEW i \in 0 .. total - 1, i # k
        PROVE  nonces'[i + 1] = nonces[i + 1]
    <3> PICK p \in 1 .. total : p = i + 1 /\ p # k + 1
      BY <1>4, <2>2, <2>5
    <3> QED
      BY <2>1, <2>2
  <2> QED
    BY <2>3, <2>4, <2>5
<1>7. SolverShape'
  BY <1>1, <1>2, <1>3, <1>5, <1>6 DEF SolverShape
<1>8. ASSUME NEW i \in 0 .. total - 1, Reported(i)
      PROVE  Reported(i)'
  <2>1. CASE i = k
    BY <1>4, <1>5, <1>6, <2>1 DEF Reported
  <2>2. CASE i # k
    <3>1. CASE Least(i, nonces[i + 1])
      BY <1>5, <1>6, <2>2, <3>1 DEF Reported
    <3>2. ASSUME NEW v \in Workers, NEW j \in 1 .. Len(outbox[v]),
                 outbox[v][j].t = "solved", outbox[v][j].index = i
          PROVE  Reported(i)'
      <4>1. CASE v # w
        BY <1>3, <1>5, <3>2, <4>1 DEF Reported
      <4>2. CASE v = w
        <5>1. j # 1
          BY <2>2, <3>2, <4>2
        <5>2. /\ j - 1 \in 1 .. Len(outbox'[w]) /\ j - 1 + 1 = j
              /\ outbox'[w][j - 1] = outbox[w][j]
          BY <1>3, <3>2, <4>2, <5>1
        <5> QED
          BY <1>5, <3>2, <4>2, <5>2 DEF Reported
      <4> QED
        BY <4>1, <4>2
    <3> QED
      BY <1>8, <3>1, <3>2 DEF Reported
  <2> QED
    BY <2>1, <2>2
<1>9. Concerns(w)
  BY <1>1, <1>2, <1>3, <1>8 DEF Concerns, NothingLost, Undisturbed
<1>10. /\ Busy(w)' = Busy(w) /\ Mining(w)' = Mining(w) /\ Puzzle(w)' = Puzzle(w)
       /\ mining'[w] = mining[w] /\ (Through(w)' <=> Through(w))
  BY <1>2, <1>5 DEF Busy, Mining, Puzzle, Through, Idle
<1>11. MessagesTrue(w)'
  <2>1. ASSUME NEW j \in 1 .. Len(outbox'[w])
        PROVE  /\ outbox'[w][j].t = "solved" => Least(outbox'[w][j].index, outbox'[w][j].nonce)
               /\ outbox'[w][j].t = "unsolvable" => ~Solvable(outbox'[w][j].index)
               /\ outbox'[w][j].t # "solved" => j = Len(outbox'[w]) /\ Through(w)
    <3>1. j + 1 \in 1 .. Len(outbox[w]) /\ outbox'[w][j] = outbox[w][j + 1]
      BY <1>3
    <3>2. /\ outbox[w][j + 1].t = "solved" => Least(outbox[w][j + 1].index, outbox[w][j + 1].nonce)
          /\ outbox[w][j + 1].t = "unsolvable" => ~Solvable(outbox[w][j + 1].index)
          /\ outbox[w][j + 1].t # "solved" => j + 1 = Len(outbox[w]) /\ Through(w)
      BY <1>1, <3>1 DEF WorkerInv, MessagesTrue
    <3> QED
      BY <1>3, <3>1, <3>2
  <2> QED
    BY <1>5, <1>10, <2>1 DEF MessagesTrue
<1>12. \A i \in 1 .. Len(Indices(w)) : Reported(Indices(w)[i]) => Reported(Indices(w)[i])'
  BY <1>1, <1>5, <1>8, Assigned
<1>13. AllReported(w) => AllReported(w)'
  BY <1>5, <1>12 DEF AllReported
<1>14. Busy(w)' =>
           /\ w \notin erred'
           /\ mining'[w].idx \in 1 .. Len(Indices(w)') + 1
           /\ \A i \in 1 .. mining'[w].idx - 1 : Reported(Indices(w)[i])'
  BY <1>1, <1>2, <1>5, <1>10, <1>12, Assigned DEF WorkerInv
<1>15. Mining(w)' => \A m \in 0 .. mining'[w].nonce - 1 : ~Solved(Puzzle(w), m)'
  BY <1>1, <1>5, <1>10 DEF WorkerInv
<1>16. Through(w) => /\ outbox'[w] # << >> /\ LastOf(w)' = LastOf(w)
                     /\ \/ LastOf(w).t = "done" /\ AllReported(w)
                        \/ LastOf(w).t = "unsolvable"
  <2> SUFFICES ASSUME Through(w)
               PROVE  /\ outbox'[w] # << >> /\ LastOf(w)' = LastOf(w)
                      /\ \/ LastOf(w).t = "done" /\ AllReported(w)
                         \/ LastOf(w).t = "unsolvable"
    OBVIOUS
  <2>1. \/ LastOf(w).t = "done" /\ AllReported(w)
        \/ LastOf(w).t = "unsolvable"
    BY <1>1, <1>2 DEF WorkerInv
  <2>2. Len(outbox[w]) # 1
    BY <1>4, <2>1 DEF LastOf
  <2>3. PICK last \in Nat \ {0, 1} : last = Len(outbox[w])
    BY <1>3, <2>2
  <2>4. outbox'[w][Len(outbox'[w])] = outbox[w][Len(outbox[w])]
    <3>1. last - 1 \in 1 .. last - 1 /\ (last - 1) + 1 = last
      OBVIOUS
    <3> QED
      BY <1>3, <2>3, <3>1
  <2>5. outbox'[w] # << >>
    <3>1. last - 1 # 0 /\ Len(outbox'[w]) = last - 1
      BY <1>3, <2>3
    <3> QED
      BY <3>1
  <2> QED
    BY <2>1, <2>4, <2>5 DEF LastOf
<1>17. WorkerInv(w)'
  BY <1>5, <1>10, <1>11, <1>13, <1>14, <1>15, <1>16 DEF WorkerInv
<1>18. w \notin Finished /\ w \notin Finished'
  BY <1>2, <1>10, <1>16 DEF Finished
<1> QED
  BY <1>2, <1>7, <1>9, <1>17, <1>18, OneWorker

\* When every worker has said that it is done, every puzzle is in the array.
LEMMA AllDone ==
    ASSUME SolverInv, NEW w \in Workers, Receives(w, "done"), doneWorkers + 1 = cores
    PROVE  \A k \in 0 .. total - 1 : Least(k, nonces[k + 1])
<1>1. /\ promise = "pending" /\ SolverShape
      /\ \A v \in Workers : WorkerInv(v)
      /\ doneWorkers = Cardinality(Finished)
  BY DEF SolverInv, Receives
<1>2. /\ outbox[w] # << >> /\ outbox[w] \in Seq(Messages)
      /\ 1 \in 1 .. Len(outbox[w]) /\ outbox[w][1].t = "done"
  BY <1>1 DEF Receives, SolverShape
<1>3. Len(outbox[w]) = 1 /\ Through(w) /\ AllReported(w)
  <2>1. Len(outbox[w]) = 1 /\ Through(w)
    BY <1>1, <1>2 DEF WorkerInv, MessagesTrue
  <2> QED
    BY <1>1, <1>2, <2>1 DEF WorkerInv, LastOf
<1>4. \A v \in Workers : v # w => v \in Finished
  <2>1. IsFiniteSet(Workers) /\ Cardinality(Workers) = cores /\ cores \in Nat
    BY <1>1, CoresPositive
  <2>2. Finished \subseteq Workers /\ w \notin Finished
    BY <1>2 DEF Finished
  <2>3. IsFiniteSet(Finished)
    BY <2>1, <2>2, FS_Subset
  <2>4. Cardinality(Finished \cup {w}) = cores /\ IsFiniteSet(Finished \cup {w})
    BY <1>1, <2>2, <2>3, FS_AddElement
  <2>5. Finished \cup {w} = Workers
    BY <2>1, <2>2, <2>4, FS_Subset
  <2> QED
    BY <2>5
<1>5. \A v \in Workers : AllReported(v)
  BY <1>1, <1>3, <1>4 DEF WorkerInv, Finished
<1>6. SUFFICES ASSUME NEW k \in 0 .. total - 1
               PROVE  Least(k, nonces[k + 1])
  OBVIOUS
<1>7. Reported(k)
  BY <1>1, <1>5, EveryPuzzleAssigned DEF AllReported
<1>8. ASSUME NEW v \in Workers, NEW j \in 1 .. Len(outbox[v]), outbox[v][j].t = "solved"
      PROVE  FALSE
  BY <1>2, <1>3, <1>4, <1>8 DEF Finished
<1> QED
  BY <1>7, <1>8 DEF Reported

\* The promise is resolved when the last worker is done, and not before.
LEMMA OnDoneHolds ==
    ASSUME SolverInv, NEW w \in Workers, OnDone(w)
    PROVE  SolverInv' /\ (doneWorkers' # cores => Concerns(w) /\ Len(outbox'[w]) = 0)
<1>1. promise = "pending" /\ SolverShape /\ WorkerInv(w)
  BY Pending DEF OnMessage
<1>2. /\ outbox[w] # << >> /\ Head(outbox[w]).t = "done" /\ Receives(w, "done")
      /\ doneWorkers' = doneWorkers + 1
      /\ UNCHANGED <<meets, concurrency, nonces>>
  BY DEF OnDone, Receives
<1>3. CASE doneWorkers' = cores
  <2>1. Settle("resolved")
    BY <1>3 DEF OnDone
  <2>2. \A k \in 0 .. total - 1 : Least(k, nonces[k + 1])
    BY <1>2, <1>3, AllDone
  <2> QED
    BY <1>1, <1>2, <1>3, <2>1, <2>2, Settling
<1>4. CASE doneWorkers' # cores
  <2>1. Pop(w) /\ UNCHANGED <<promise, mining, erred>>
    BY <1>4 DEF OnDone
  <2>2. /\ outbox' \in [Workers -> Seq(Messages)]
        /\ Len(outbox[w]) \in Nat \ {0}
        /\ Len(outbox'[w]) = Len(outbox[w]) - 1
        /\ \A v \in Workers \ {w} : outbox'[v] = outbox[v]
        /\ Head(outbox[w]) = outbox[w][1]
    BY <1>1, <1>2, <2>1, Popped
  <2>3. /\ outbox[w][1].t = "done" /\ Len(outbox[w]) = 1 /\ Through(w)
        /\ AllReported(w)
    <3>1. outbox[w][1].t = "done" /\ 1 \in 1 .. Len(outbox[w])
      BY <1>2, <2>2
    <3>2. Len(outbox[w]) = 1 /\ Through(w)
      BY <1>1, <3>1 DEF WorkerInv, MessagesTrue
    <3> QED
      BY <1>1, <1>2, <3>1, <3>2 DEF WorkerInv, LastOf
  <2>4. /\ total' = total /\ cores' = cores /\ Workers' = Workers
        /\ Indices(w)' = Indices(w)
        /\ \A i, m : Least(i, m)' = Least(i, m)
        /\ Messages' = Messages
    BY <1>2, SameChallenge
  <2>5. SolverShape'
    BY <1>1, <1>2, <2>1, <2>2, <2>4 DEF SolverShape
  <2>6. outbox'[w] \in Seq(Messages) /\ Len(outbox'[w]) = 0 /\ outbox'[w] = << >>
    <3>1. outbox'[w] \in Seq(Messages) /\ Len(outbox'[w]) = 0
      BY <2>2, <2>3
    <3> QED
      BY <3>1, EmptySeq
  <2>7. ASSUME NEW i \in 0 .. total - 1, Reported(i)
        PROVE  Reported(i)'
    <3>1. CASE Least(i, nonces[i + 1])
      BY <1>2, <2>4, <3>1 DEF Reported
    <3>2. ASSUME NEW v \in Workers, NEW j \in 1 .. Len(outbox[v]),
                 outbox[v][j].t = "solved", outbox[v][j].index = i
          PROVE  Reported(i)'
      <4>1. v # w
        BY <2>3, <3>2
      <4> QED
        BY <2>2, <2>4, <3>2, <4>1 DEF Reported
    <3> QED
      BY <2>7, <3>1, <3>2 DEF Reported
  <2>8. Concerns(w)
    BY <1>1, <1>2, <2>1, <2>2, <2>7 DEF Concerns, NothingLost, Undisturbed
  <2>9. ~Busy(w)' /\ ~Mining(w)' /\ Through(w)'
    BY <2>1, <2>3 DEF Busy, Mining, Through, Idle
  <2>10. MessagesTrue(w)'
    BY <2>6 DEF MessagesTrue
  <2>11. AllReported(w)'
    BY <1>1, <2>3, <2>4, <2>7, Assigned DEF AllReported
  <2>12. WorkerInv(w)'
    BY <2>6, <2>9, <2>10, <2>11 DEF WorkerInv
  <2>13. w \notin Finished /\ w \in Finished'
    BY <1>2, <2>4, <2>6, <2>9 DEF Finished
  <2> QED
    BY <1>2, <2>5, <2>6, <2>8, <2>12, <2>13, OneWorker
<1> QED
  BY <1>3, <1>4

\* The promise is rejected.
LEMMA PageStepHolds ==
    ASSUME SolverInv, NEW w \in Workers, OnUnsolvable(w) \/ OnError(w)
    PROVE  SolverInv'
<1>1. SolverShape
  BY DEF SolverInv
<1>2. Settle("rejected") /\ UNCHANGED <<meets, concurrency, nonces>>
  BY DEF OnUnsolvable, OnError
<1> QED
  BY <1>1, <1>2, Settling

\* The workers start at their first puzzles.
LEMMA StartHolds ==
    ASSUME SolverInv, Start
    PROVE  SolverInv'
<1>1. /\ SolverShape /\ promise = "new" /\ doneWorkers = 0
      /\ \A w \in Workers : ~Busy(w) /\ outbox[w] = << >>
      /\ erred = {}
      /\ UNCHANGED <<meets, concurrency, nonces, doneWorkers>>
  BY DEF SolverInv, Start
<1>2. CASE Settle("rejected")
  BY <1>1, <1>2, Settling
<1>3. CASE /\ promise' = "pending"
           /\ mining' = [w \in Workers |-> [idx |-> 1, nonce |-> 0]]
           /\ UNCHANGED <<outbox, erred>>
  <2>1. /\ total' = total /\ cores' = cores /\ Workers' = Workers
        /\ \A w : Indices(w)' = Indices(w)
        /\ Messages' = Messages
    BY <1>1, SameChallenge
  <2>2. SolverShape'
    BY <1>1, <1>3, <2>1 DEF SolverShape
  <2>3. ASSUME NEW w \in Workers
        PROVE  WorkerInv(w)' /\ w \notin Finished'
    <3>1. mining'[w] = [idx |-> 1, nonce |-> 0] /\ outbox'[w] = << >> /\ erred' = {}
      BY <1>1, <1>3
    <3>2. Busy(w)' /\ ~Through(w)'
      BY <3>1 DEF Busy, Through, Idle
    <3>3. MessagesTrue(w)'
      BY <3>1 DEF MessagesTrue
    <3>4. mining'[w].idx \in 1 .. Len(Indices(w)') + 1
      BY <1>1, <2>1, <3>1, Assigned
    <3> QED
      BY <3>1, <3>2, <3>3, <3>4 DEF WorkerInv, Finished
  <2>4. Finished' = {}
    BY <2>1, <2>3 DEF Finished
  <2>5. doneWorkers' = Cardinality(Finished')
    BY <1>1, <2>4, FS_EmptySet
  <2>6. \A w \in Workers' : WorkerInv(w)'
    BY <2>1, <2>3
  <2> QED
    BY <1>3, <2>2, <2>5, <2>6 DEF SolverInv
<1> QED
  BY <1>2, <1>3 DEF Start

\* Every step of the pool keeps the invariant.
LEMMA SolverHolds ==
    ASSUME SolverInv, SolverStep \/ UNCHANGED solver
    PROVE  SolverInv'
<1>1. CASE Start
  BY <1>1, StartHolds
<1>2. ASSUME NEW w \in Workers,
             WorkerStep(w) \/ WorkerErrs(w) \/ OnMessage(w) \/ OnError(w)
      PROVE  SolverInv'
  BY <1>2, FindNonceHolds, NextNonceHolds, AllMinedHolds, WorkerErrsHolds,
     OnSolvedHolds,
     OnDoneHolds, PageStepHolds
     DEF WorkerStep, OnMessage
<1>3. CASE UNCHANGED solver
  <2>1. UNCHANGED <<meets, concurrency, promise, nonces, doneWorkers, mining, outbox, erred>>
    BY <1>3 DEF solver, state, pool
  <2>2. /\ total' = total /\ Workers' = Workers
        /\ \A w : Indices(w)' = Indices(w)
        /\ \A k, n : Solved(k, n)' = Solved(k, n)
        /\ \A k, n : Least(k, n)' = Least(k, n)
        /\ \A k : Solvable(k)' = Solvable(k)
        /\ Messages' = Messages
    BY <2>1, SameChallenge
  <2>3. \A k \in 0 .. total - 1 : Reported(k)' <=> Reported(k)
    BY <2>1, <2>2 DEF Reported
  <2>4. ASSUME promise = "pending"
        PROVE  \A w \in Workers' : WorkerInv(w)' /\ (w \in Finished' <=> w \in Finished)
    <3>1. \A w \in Workers : WorkerInv(w) /\ SolverShape
      BY <2>4 DEF SolverInv
    <3>2. NothingLost /\ \A w \in Workers : Undisturbed(w)
      BY <2>1, <2>3 DEF NothingLost, Undisturbed
    <3> QED
      BY <2>2, <3>1, <3>2, OtherWorker
  <2>5. SolverShape'
    BY <2>1, <2>2 DEF SolverInv, SolverShape
  <2>6. promise # "pending" => \A w \in Workers' : ~Busy(w)' /\ outbox'[w] = << >>
    BY <2>1, <2>2 DEF SolverInv, Busy, Idle
  <2>7. promise = "resolved" => \A k \in 0 .. total' - 1 : Least(k, nonces[k + 1])'
    BY <2>1, <2>2 DEF SolverInv
  <2> QED
    BY <2>1, <2>2, <2>4, <2>5, <2>6, <2>7 DEF SolverInv, Finished
<1> QED
  BY <1>1, <1>2, <1>3 DEF SolverStep

\* A step that rejects a pending promise has a reason.
LEMMA Rejecting ==
    ASSUME SolverInv, SolverStep, promise' = "rejected"
    PROVE  \/ promise \in {"new", "rejected"}
           \/ erred # {}
           \/ \E k \in 0 .. total - 1 : ~Solvable(k)
<1>1. CASE Start
  BY <1>1 DEF Start
<1>2. ASSUME NEW w \in Workers, OnUnsolvable(w)
      PROVE  \E k \in 0 .. total - 1 : ~Solvable(k)
  <2>1. SolverShape /\ WorkerInv(w)
    BY <1>2, Pending DEF OnMessage
  <2>2. /\ outbox[w] \in Seq(Messages) /\ 1 \in 1 .. Len(outbox[w])
        /\ outbox[w][1].t = "unsolvable" /\ outbox[w][1] \in Messages
    BY <1>2, <2>1 DEF OnUnsolvable, Receives, SolverShape
  <2>3. outbox[w][1].index \in 0 .. total - 1
    BY <2>2 DEF Messages
  <2>4. ~Solvable(outbox[w][1].index)
    BY <2>1, <2>2 DEF WorkerInv, MessagesTrue
  <2> QED
    BY <2>3, <2>4
<1>3. ASSUME NEW w \in Workers, OnError(w)
      PROVE  erred # {}
  BY <1>3 DEF OnError
<1>4. ASSUME NEW w \in Workers,
             WorkerStep(w) \/ WorkerErrs(w) \/ OnSolved(w) \/ OnDone(w)
      PROVE  FALSE
  <2>1. promise = "pending"
    BY <1>4, Pending DEF OnMessage
  <2> QED
    BY <1>4, <2>1
       DEF WorkerStep, FindNonce, NextNonce, AllMined, WorkerErrs, OnSolved, OnDone,
           Settle, state
<1> QED
  BY <1>1, <1>2, <1>3, <1>4 DEF SolverStep, OnMessage

\* The reference solver finds the same nonce.
LEMMA SameNonce ==
    ASSUME NEW k, NEW n, Least(k, n)
    PROVE  n = SolvePuzzle(k)
<1> DEFINE P(m) == Solved(k, m) /\ \A i \in 0 .. m - 1 : ~Solved(k, i)
<1>1. n \in 0 .. MaxNonce /\ P(n)
  BY DEF Least
<1>2. ASSUME NEW m \in 0 .. MaxNonce, P(m)
      PROVE  m = n
  <2>1. ~(m < n)
    BY <1>1, <1>2
  <2>2. ~(n < m)
    BY <1>1, <1>2
  <2> QED
    BY <1>1, <2>1, <2>2
<1>3. SolvePuzzle(k) = CHOOSE m \in 0 .. MaxNonce : P(m)
  BY DEF SolvePuzzle
<1> HIDE DEF P
<1>4. SolvePuzzle(k) \in 0 .. MaxNonce /\ P(SolvePuzzle(k))
  BY <1>1, <1>3, Zenon
<1> QED
  BY <1>2, <1>4

-----------------------------------------------------------------------------
\* The rest of the page.

\* Where a visit is, and what it has to show for it.
VisitInv ==
    /\ phase \in {"ready", "requesting", "mining", "submitting"}
    /\ shown # Nothing => phase = "ready"
    /\ phase # "submitting" /\ shown = Nothing => claim = "none"
    /\ phase = "submitting" => promise = "resolved"
    /\ outcome.transferred => outcome.mined
    /\ ShownTruthful

\* A step of the page works on the solution or leaves it alone.
LEMMA StepsOfThePool ==
    ASSUME [Next]_vars
    PROVE  SolverStep \/ UNCHANGED solver
BY DEF Next, vars, Click, ChallengeGranted, ChallengeRefused, Solving, FetchFails,
       Server, ServerRefuses, ServerSends, ServerPanicked, ServerWaits, Show, PostClaim,
       MiningFailed, ShowError, ShowDrip, Rest, Finish

\* The server accepts what the promise resolves with.
LEMMA Verified ==
    ASSUME SolverInv, promise = "resolved"
    PROVE  VerifySolution(nonces)
<1>1. /\ total \in Nat /\ nonces \in [1 .. total -> 0 .. MaxNonce]
      /\ \A k \in 0 .. total - 1 : Solved(k, nonces[k + 1])
  BY DEF SolverInv, SolverShape, Least
<1>2. Len(nonces) = total
  BY <1>1
<1> QED
  BY <1>1, <1>2 DEF VerifySolution

\* Every step of the page keeps its word.
LEMMA VisitStep ==
    ASSUME SolverInv, ReceiptInv, VisitInv, [Next]_vars
    PROVE  VisitInv'
<1>1. ASSUME Finish(Alert("err")) \/ Finish(Alert("warn")), UNCHANGED <<solver, receipts, claim>>
      PROVE  VisitInv'
  BY <1>1 DEF VisitInv, Finish, Alert, Nothing, ShownTruthful, receipts, waiting,
              chain, solver, state
<1>2. ASSUME NEW valid \in BOOLEAN, Click(valid)
      PROVE  VisitInv'
  <2>1. CASE valid
    BY <1>2, <2>1 DEF Click, VisitInv, ShownTruthful, receipts, waiting, chain,
                      solver, state
  <2>2. CASE ~valid
    BY <1>1, <1>2, <2>2 DEF Click
  <2> QED
    BY <2>1, <2>2
<1>3. CASE ChallengeGranted
  BY <1>3 DEF ChallengeGranted, VisitInv, Nothing, ShownTruthful, receipts, waiting,
              chain, solver, state
<1>4. ASSUME NEW code \in ChallengeErrors, ChallengeRefused(code)
      PROVE  VisitInv'
  BY <1>1, <1>4 DEF ChallengeRefused
<1>5. CASE Solving
  BY <1>5 DEF Solving, VisitInv, Nothing, ShownTruthful, receipts, waiting, chain
<1>6. CASE FetchFails
  BY <1>1, <1>6 DEF FetchFails
<1>7. ASSUME NEW code \in ClaimErrors, ServerRefuses(code)
      PROVE  VisitInv'
  <2>1. VerifySolution(nonces) /\ code # "INVALID_POW" /\ shown = Nothing
    BY <1>7, Verified DEF ServerRefuses, VisitInv, ClaimErrors
  <2> QED
    BY <1>7, <2>1 DEF ServerRefuses, VisitInv, Nothing, ShownTruthful, receipts,
                      waiting, chain, solver, state
<1>8. CASE ServerSends
  <2>1. shown = Nothing
    BY <1>8 DEF ServerSends, VisitInv
  <2> QED
    BY <1>8, <2>1 DEF ServerSends, BeginWait, VisitInv, Nothing, ShownTruthful,
                      receipts, waiting, chain, solver, state
<1>9. CASE ServerPanicked
  BY <1>1, <1>9 DEF ServerPanicked, FetchFails
<1>10. CASE ServerWaits
  <2>1. /\ shown = Nothing
        /\ outcome'.transferred => outcome'.mined
    BY <1>10 DEF ServerWaits, VisitInv, ReceiptStep, NodeAnswers, AnswerArrives,
                 Wake, TimePasses, Mine, waiting, NoOutcome
  <2> QED
    BY <1>10, <2>1 DEF ServerWaits, VisitInv, Nothing, ShownTruthful, solver, state
<1>11. CASE PostClaim
  BY <1>11 DEF PostClaim, VisitInv, Nothing, ShownTruthful, receipts, waiting, chain,
               solver, state
<1>12. CASE MiningFailed
  BY <1>1, <1>12 DEF MiningFailed
<1>13. CASE ShowError
  BY <1>1, <1>13 DEF ShowError
<1>14. CASE ShowDrip
  <2>1. UNCHANGED <<promise, receipt, outcome, mined, claim>>
    BY <1>14 DEF ShowDrip, receipts, waiting, chain, solver, state
  <2>2. phase' = "ready" /\ shown' = [kind |-> Kind(outcome), line |-> StatusLine(outcome)]
        /\ claim = "sent"
    BY <1>14 DEF ShowDrip, Finish
  <2>3. outcome.mined =>
            mined # "no" /\ outcome.transferred = (mined = "success" \/ receipt = "missing")
    BY <1>14 DEF ShowDrip, ReceiptInv, ReceiptTruthful
  <2>4. mined \in {"no", "success", "reverted"} /\ (outcome.transferred => outcome.mined)
    BY DEF ReceiptInv, PunctualInv, WaitTypes, VisitInv
  <2>5. /\ Kind(outcome) = "ok" => outcome.transferred
        /\ StatusLine(outcome) = "reverted" => outcome.mined /\ ~outcome.transferred
    BY DEF Kind, StatusLine
  <2>6. ShownTruthful'
    BY <2>1, <2>2, <2>3, <2>4, <2>5 DEF ShownTruthful
  <2>7. shown' # Nothing
    BY <2>2 DEF Nothing, Kind
  <2> QED
    BY <2>1, <2>2, <2>4, <2>6, <2>7 DEF VisitInv
<1>15. CASE UNCHANGED vars
  BY <1>15 DEF vars, VisitInv, Nothing, ShownTruthful, receipts, waiting, chain,
               solver, state
<1> QED
  BY <1>2, <1>3, <1>4, <1>5, <1>6, <1>7, <1>8, <1>9, <1>10, <1>11, <1>12, <1>13,
     <1>14, <1>15
     DEF Next, Server, Show, Rest

-----------------------------------------------------------------------------
\* The count of the puzzles that are solved.

\* A message of worker w is about to tell of puzzle k.
Told(w, k) ==
    \E j \in 1 .. Len(outbox[w]) : outbox[w][j].t = "solved" /\ outbox[w][j].index = k

\* Or w has still to find its nonce.
Owes(w, k) ==
    \/ Told(w, k)
    \/ Busy(w) /\ \E i \in mining[w].idx .. Len(Indices(w)) : Indices(w)[i] = k

\* The puzzles that may yet be counted.
Outstanding == {k \in 0 .. total - 1 : \E w \in Workers : Owes(w, k)}

\* A worker tells of its own puzzles, of those it has passed, and of each once.
EachOnce(w) ==
    \A j \in 1 .. Len(outbox[w]) : outbox[w][j].t = "solved" =>
        /\ \E i \in 1 .. Len(Indices(w)) :
               /\ Indices(w)[i] = outbox[w][j].index
               /\ Busy(w) => i < mining[w].idx
        /\ \A h \in 1 .. Len(outbox[w]) :
               h # j /\ outbox[w][h].t = "solved" => outbox[w][h].index # outbox[w][j].index

\* No puzzle is counted twice: those counted and those outstanding are not more
\* than there are.
CountInv ==
    /\ solvedCount \in 0 .. total /\ doneWorkers \in 0 .. cores
    /\ promise = "new" => solvedCount = 0
    /\ promise = "pending" =>
           /\ \A w \in Workers : EachOnce(w)
           /\ solvedCount + Cardinality(Outstanding) <= total

\* A number has one quotient and one remainder.
LEMMA Quotients ==
    ASSUME NEW c \in Nat \ {0}, NEW v \in 0 .. c - 1, NEW w \in 0 .. c - 1,
           NEW a \in Nat, NEW b \in Nat, v + (a * c) = w + (b * c)
    PROVE  v = w /\ a = b
<1>1. ASSUME NEW x \in Nat, NEW y \in Nat, x < y
      PROVE  (x * c) + c <= y * c
  <2>1. PICK d \in Nat \ {0} : y = x + d
    <3>1. y - x \in Nat \ {0} /\ y = x + (y - x)
      BY <1>1
    <3> QED
      BY <3>1
  <2>2. y * c = (x * c) + (d * c) /\ c <= d * c
    <3>1. c <= d * c
      <4>1. PICK e \in Nat : d = e + 1
        <5>1. d - 1 \in Nat /\ d = (d - 1) + 1
          BY <2>1
        <5> QED
          BY <5>1
      <4>2. d * c = (e * c) + c /\ e * c \in Nat
        BY <4>1
      <4> QED
        BY <4>2
    <3>2. y * c = (x * c) + (d * c)
      BY <2>1
    <3> QED
      BY <3>1, <3>2
  <2>3. x * c \in Nat /\ d * c \in Nat
    OBVIOUS
  <2> QED
    BY <2>2, <2>3
<1>2. a * c \in Nat /\ b * c \in Nat
  OBVIOUS
<1>3. ~(a < b)
  BY <1>1, <1>2
<1>4. ~(b < a)
  BY <1>1, <1>2
<1>5. a = b
  BY <1>3, <1>4
<1> QED
  BY <1>2, <1>5

\* No puzzle is assigned twice.
LEMMA AssignedOnce ==
    ASSUME SolverShape, NEW v \in Workers, NEW w \in Workers,
           NEW i \in 1 .. Len(Indices(v)), NEW j \in 1 .. Len(Indices(w)),
           Indices(v)[i] = Indices(w)[j]
    PROVE  v = w /\ i = j
<1>1. total \in Nat \ {0} /\ cores \in Nat \ {0} /\ v \in 0 .. cores - 1 /\ w \in 0 .. cores - 1
  BY CoresPositive DEF SolverShape, Workers
<1>2. Indices(v)[i] = v + ((i - 1) * cores) /\ Indices(w)[j] = w + ((j - 1) * cores)
  <2>1. ASSUME NEW x \in Workers
        PROVE  (total - 1 - x) \div cores \in Nat
    <3>1. total - 1 - x \in Nat
      BY <1>1, CoresPositive DEF Workers
    <3> QED
      BY <1>1, <3>1, Division
  <2> QED
    BY <2>1 DEF Indices
<1>3. PICK a \in Nat, b \in Nat : a = i - 1 /\ b = j - 1
  BY Assigned
<1>4. v = w /\ a = b
  <2>1. v + (a * cores) = w + (b * cores)
    BY <1>2, <1>3
  <2>2. \A c \in Nat \ {0} : \A x, y \in 0 .. c - 1 :
            x + (a * c) = y + (b * c) => x = y /\ a = b
    BY Quotients
  <2> QED
    BY <1>1, <2>1, <2>2, Zenon
<1>5. i \in Nat /\ j \in Nat
  BY Assigned
<1> QED
  BY <1>3, <1>4, <1>5

\* A worker owes its own puzzles only.
LEMMA OwesItsOwn ==
    ASSUME SolverShape, NEW w \in Workers, WorkerInv(w), EachOnce(w), NEW k, Owes(w, k)
    PROVE  \E i \in 1 .. Len(Indices(w)) : Indices(w)[i] = k
<1>1. CASE Told(w, k)
  BY <1>1 DEF EachOnce, Told
<1>2. CASE Busy(w) /\ \E i \in mining[w].idx .. Len(Indices(w)) : Indices(w)[i] = k
  BY <1>2, Assigned DEF WorkerInv
<1> QED
  BY <1>1, <1>2 DEF Owes

\* A step by which a worker owes no more, and one puzzle less if one is counted,
\* keeps the count.
LEMMA OneWorkerCounts ==
    ASSUME SolverInv, CountInv, NEW w \in Workers, Concerns(w), EachOnce(w)',
           doneWorkers' \in 0 .. cores,
           \A k : Owes(w, k)' => Owes(w, k),
           \/ solvedCount' = solvedCount
           \/ /\ solvedCount' = solvedCount + 1
              /\ \E k \in 0 .. total - 1 : Owes(w, k) /\ ~Owes(w, k)'
    PROVE  CountInv'
<1>1. /\ SolverShape /\ promise = "pending" /\ promise' = "pending"
      /\ \A v \in Workers : WorkerInv(v) /\ EachOnce(v)
      /\ solvedCount + Cardinality(Outstanding) <= total
  BY DEF SolverInv, CountInv, Concerns
<1>2. /\ total' = total /\ cores' = cores /\ Workers' = Workers
      /\ \A v : Indices(v)' = Indices(v)
  BY SameChallenge DEF Concerns, NothingLost
<1>3. ASSUME NEW v \in Workers \ {w}
      PROVE  EachOnce(v)' /\ \A k : Owes(v, k)' <=> Owes(v, k)
  <2>1. mining'[v] = mining[v] /\ outbox'[v] = outbox[v] /\ Busy(v)' = Busy(v)
        /\ Indices(v)' = Indices(v)
    BY <1>2 DEF Concerns, Undisturbed, Busy, Idle
  <2> QED
    BY <1>1, <2>1 DEF EachOnce, Owes, Told
<1>4. Outstanding' \subseteq Outstanding
  BY <1>2, <1>3 DEF Outstanding
<1>5. IsFiniteSet(Outstanding) /\ Cardinality(Outstanding) \in Nat
  <2>1. IsFiniteSet(0 .. total - 1)
    BY <1>1, FS_Interval DEF SolverShape
  <2>2. IsFiniteSet(Outstanding)
    BY <2>1, FS_Subset DEF Outstanding
  <2> QED
    BY <2>2, FS_CardinalityType
<1>6. Cardinality(Outstanding') \in Nat /\ Cardinality(Outstanding') <= Cardinality(Outstanding)
  BY <1>4, <1>5, FS_Subset, FS_CardinalityType
<1>7. CASE solvedCount' = solvedCount
  BY <1>1, <1>2, <1>3, <1>5, <1>6, <1>7 DEF CountInv, SolverShape
<1>8. ASSUME solvedCount' = solvedCount + 1, NEW k \in 0 .. total - 1, Owes(w, k), ~Owes(w, k)'
      PROVE  CountInv'
  <2>1. \A v \in Workers \ {w} : ~Owes(v, k)
    BY <1>1, <1>8, OwesItsOwn, AssignedOnce
  <2>2. k \in Outstanding /\ k \notin Outstanding'
    BY <1>2, <1>3, <1>8, <2>1 DEF Outstanding
  <2>3. Cardinality(Outstanding') # Cardinality(Outstanding)
    BY <1>4, <1>5, <2>2, FS_Subset
  <2> QED
    <3>1. total \in Nat /\ solvedCount \in Nat
      BY <1>1 DEF CountInv, SolverShape
    <3>2. /\ solvedCount' + Cardinality(Outstanding') <= total'
          /\ solvedCount' \in 0 .. total'
      BY <1>1, <1>2, <1>5, <1>6, <1>8, <2>3, <3>1
    <3>3. \A v \in Workers' : EachOnce(v)'
      BY <1>2, <1>3
    <3> QED
      BY <1>1, <1>2, <3>2, <3>3 DEF CountInv
<1> QED
  BY <1>7, <1>8

\* The count while the promise is pending.
LEMMA Handled ==
    ASSUME SolverInv, CountInv, promise = "pending"
    PROVE  /\ solvedCount \in 0 .. total /\ doneWorkers \in 0 .. cores
           /\ \A w \in Workers : EachOnce(w)
BY DEF CountInv

\* A puzzle that is found is still owed, until the page hears of it.
LEMMA FindNonceCounts ==
    ASSUME SolverInv, CountInv, NEW w \in Workers, FindNonce(w), Concerns(w)
    PROVE  CountInv'
<1>1. promise = "pending" /\ SolverShape /\ WorkerInv(w)
  BY Pending DEF WorkerStep
<1>2. EachOnce(w) /\ doneWorkers \in 0 .. cores
  BY <1>1, Handled
<1> PICK k : k = Puzzle(w)
  OBVIOUS
<1> PICK n : n = mining[w].nonce
  OBVIOUS
<1> DEFINE message == [t |-> "solved", index |-> k, nonce |-> n]
<1>3. /\ Mining(w) /\ Busy(w) /\ Post(w, message)
      /\ mining' = [mining EXCEPT ![w] = [idx |-> @.idx + 1, nonce |-> 0]]
      /\ UNCHANGED <<meets, concurrency, nonces, solvedCount, doneWorkers>>
  BY DEF FindNonce, state, Mining
<1>4. total' = total /\ cores' = cores /\ Workers' = Workers /\ Indices(w)' = Indices(w)
  BY <1>3, SameChallenge
<1>5. /\ mining[w].idx \in 1 .. Len(Indices(w)) /\ Len(Indices(w)) \in Nat
      /\ n \in 0 .. MaxNonce
      /\ k = Indices(w)[mining[w].idx] /\ k \in 0 .. total - 1
  BY <1>1, <1>3, MiningAt
<1>6. message \in Messages
  BY <1>5 DEF Messages
<1>7. message.t = "solved" /\ message.index = k
  OBVIOUS
<1> HIDE DEF message
<1>8. /\ Len(outbox'[w]) = Len(outbox[w]) + 1 /\ Len(outbox[w]) \in Nat
      /\ \A j \in 1 .. Len(outbox[w]) : outbox'[w][j] = outbox[w][j]
      /\ outbox'[w][Len(outbox[w]) + 1] = message
  BY <1>1, <1>3, <1>6, Posted DEF LastOf, SolverShape
<1>9. Busy(w)' /\ mining'[w].idx = mining[w].idx + 1
  BY <1>1, <1>3, <1>5 DEF Busy, Idle, SolverShape
<1>10. ASSUME NEW j \in 1 .. Len(outbox[w]), outbox[w][j].t = "solved"
       PROVE  /\ outbox[w][j].index # k
              /\ \E i \in 1 .. Len(Indices(w)) :
                     Indices(w)[i] = outbox[w][j].index /\ i < mining'[w].idx
  <2>1. PICK i \in 1 .. Len(Indices(w)) :
            Indices(w)[i] = outbox[w][j].index /\ i < mining[w].idx
    BY <1>2, <1>3, <1>10 DEF EachOnce
  <2>2. outbox[w][j].index # k
    BY <1>1, <1>5, <2>1, AssignedOnce
  <2>3. i < mining'[w].idx
    BY <1>5, <1>9, <2>1
  <2> QED
    BY <2>1, <2>2, <2>3
<1>11. EachOnce(w)'
  <2>1. ASSUME NEW j \in 1 .. Len(outbox'[w]), outbox'[w][j].t = "solved"
        PROVE  \E i \in 1 .. Len(Indices(w)) :
                   Indices(w)[i] = outbox'[w][j].index /\ i < mining'[w].idx
    <3>1. CASE j \in 1 .. Len(outbox[w])
      BY <1>8, <1>10, <2>1, <3>1
    <3>2. CASE j = Len(outbox[w]) + 1
      <4>1. mining[w].idx < mining'[w].idx
        BY <1>5, <1>9
      <4> QED
        BY <1>5, <1>7, <1>8, <3>2, <4>1
    <3> QED
      BY <1>8, <3>1, <3>2
  <2>2. ASSUME NEW j \in 1 .. Len(outbox'[w]), NEW h \in 1 .. Len(outbox'[w]), h # j,
               outbox'[w][j].t = "solved", outbox'[w][h].t = "solved"
        PROVE  outbox'[w][h].index # outbox'[w][j].index
    <3>1. CASE j \in 1 .. Len(outbox[w]) /\ h \in 1 .. Len(outbox[w])
      BY <1>2, <1>8, <2>2, <3>1 DEF EachOnce
    <3>2. CASE j = Len(outbox[w]) + 1 /\ h \in 1 .. Len(outbox[w])
      BY <1>7, <1>8, <1>10, <2>2, <3>2
    <3>3. CASE h = Len(outbox[w]) + 1 /\ j \in 1 .. Len(outbox[w])
      BY <1>7, <1>8, <1>10, <2>2, <3>3
    <3> QED
      BY <1>8, <2>2, <3>1, <3>2, <3>3
  <2> QED
    BY <1>4, <2>1, <2>2 DEF EachOnce
<1>12. ASSUME NEW p, Owes(w, p)'
       PROVE  Owes(w, p)
  <2>1. ASSUME NEW j \in 1 .. Len(outbox'[w]), outbox'[w][j].t = "solved",
               outbox'[w][j].index = p
        PROVE  Owes(w, p)
    <3>1. CASE j \in 1 .. Len(outbox[w])
      BY <1>8, <2>1, <3>1 DEF Owes, Told
    <3>2. CASE j = Len(outbox[w]) + 1
      <4>1. p = k
        BY <1>7, <1>8, <2>1, <3>2
      <4>2. mining[w].idx \in mining[w].idx .. Len(Indices(w))
        BY <1>5
      <4> QED
        BY <1>3, <1>5, <4>1, <4>2 DEF Owes
    <3> QED
      BY <1>8, <3>1, <3>2
  <2>2. ASSUME NEW i \in mining'[w].idx .. Len(Indices(w)), Indices(w)[i] = p
        PROVE  Owes(w, p)
    <3>1. i \in mining[w].idx .. Len(Indices(w))
      BY <1>5, <1>9
    <3> QED
      BY <1>3, <2>2, <3>1 DEF Owes
  <2> QED
    BY <1>4, <1>12, <2>1, <2>2 DEF Owes, Told
<1> QED
  BY <1>2, <1>3, <1>11, <1>12, OneWorkerCounts

\* A step that posts no solution and mines no further.
LEMMA QuietCounts ==
    ASSUME SolverInv, CountInv, NEW w \in Workers, Concerns(w),
           doneWorkers' \in 0 .. cores, solvedCount' = solvedCount,
           Len(outbox[w]) \in Nat,
           \A j \in 1 .. Len(outbox'[w]) : outbox'[w][j].t = "solved" =>
               j \in 1 .. Len(outbox[w]) /\ outbox'[w][j] = outbox[w][j],
           Busy(w)' => Busy(w) /\ mining'[w].idx = mining[w].idx
    PROVE  CountInv'
<1>1. promise = "pending" /\ Indices(w)' = Indices(w)
  BY SameChallenge DEF Concerns, NothingLost
<1>2. EachOnce(w)
  BY <1>1, Handled
<1>3. EachOnce(w)'
  <2>1. ASSUME NEW j \in 1 .. Len(outbox'[w]), outbox'[w][j].t = "solved"
        PROVE  /\ \E i \in 1 .. Len(Indices(w)) :
                      /\ Indices(w)[i] = outbox'[w][j].index
                      /\ Busy(w)' => i < mining'[w].idx
               /\ \A h \in 1 .. Len(outbox'[w]) : h # j /\ outbox'[w][h].t = "solved" =>
                      outbox'[w][h].index # outbox'[w][j].index
    BY <1>2, <2>1 DEF EachOnce
  <2> QED
    BY <1>1, <2>1 DEF EachOnce
<1>4. \A k : Owes(w, k)' => Owes(w, k)
  BY <1>1 DEF Owes, Told
<1> QED
  BY <1>3, <1>4, OneWorkerCounts

\* The page counts a puzzle once: no other message is about it.
LEMMA OnSolvedCounts ==
    ASSUME SolverInv, CountInv, NEW w \in Workers, OnSolved(w), Concerns(w)
    PROVE  CountInv'
<1>1. promise = "pending" /\ SolverShape /\ WorkerInv(w)
  BY Pending DEF OnMessage
<1>2. EachOnce(w) /\ solvedCount \in 0 .. total /\ doneWorkers \in 0 .. cores
  BY <1>1, Handled
<1> PICK k : k = outbox[w][1].index
  OBVIOUS
<1>3. /\ outbox[w] # << >> /\ Head(outbox[w]).t = "solved" /\ Pop(w)
      /\ solvedCount' = solvedCount + 1
      /\ UNCHANGED <<meets, concurrency, doneWorkers, mining>>
  BY DEF OnSolved, Receives
<1>4. /\ Len(outbox[w]) \in Nat \ {0}
      /\ Len(outbox'[w]) = Len(outbox[w]) - 1
      /\ \A j \in 1 .. Len(outbox[w]) - 1 : outbox'[w][j] = outbox[w][j + 1]
      /\ outbox[w][1] \in Messages /\ Head(outbox[w]) = outbox[w][1]
  BY <1>1, <1>3, Popped
<1>5. total' = total /\ cores' = cores /\ Workers' = Workers /\ Indices(w)' = Indices(w)
  BY <1>3, SameChallenge
<1>6. mining'[w] = mining[w] /\ Busy(w)' = Busy(w)
  BY <1>3 DEF Busy, Idle
<1>7. 1 \in 1 .. Len(outbox[w]) /\ outbox[w][1].t = "solved" /\ k \in 0 .. total - 1
  BY <1>3, <1>4 DEF Messages
<1>8. ASSUME NEW j \in 1 .. Len(outbox'[w])
      PROVE  /\ j + 1 \in 1 .. Len(outbox[w]) /\ outbox'[w][j] = outbox[w][j + 1]
             /\ j + 1 # 1
  BY <1>4
<1>9. EachOnce(w)'
  <2>1. ASSUME NEW j \in 1 .. Len(outbox'[w]), outbox'[w][j].t = "solved"
        PROVE  /\ \E i \in 1 .. Len(Indices(w)) :
                      /\ Indices(w)[i] = outbox'[w][j].index
                      /\ Busy(w) => i < mining[w].idx
               /\ \A h \in 1 .. Len(outbox'[w]) : h # j /\ outbox'[w][h].t = "solved" =>
                      outbox'[w][h].index # outbox'[w][j].index
    <3> PICK g \in 1 .. Len(outbox[w]) : g = j + 1 /\ outbox'[w][j] = outbox[w][g]
      BY <1>8
    <3>1. \E i \in 1 .. Len(Indices(w)) :
              /\ Indices(w)[i] = outbox'[w][j].index
              /\ Busy(w) => i < mining[w].idx
      BY <1>2, <2>1 DEF EachOnce
    <3>2. ASSUME NEW h \in 1 .. Len(outbox'[w]), h # j, outbox'[w][h].t = "solved"
          PROVE  outbox'[w][h].index # outbox'[w][j].index
      <4>1. PICK f \in 1 .. Len(outbox[w]) : f = h + 1 /\ outbox'[w][h] = outbox[w][f]
        BY <1>8
      <4>2. f # g
        BY <1>4, <3>2, <4>1
      <4>3. outbox[w][f].index # outbox[w][g].index
        BY <1>2, <2>1, <3>2, <4>1, <4>2, Zenon DEF EachOnce
      <4> QED
        BY <4>1, <4>3
    <3> QED
      BY <3>1, <3>2
  <2> QED
    BY <1>5, <1>6, <2>1 DEF EachOnce
<1>10. \A p : Told(w, p)' => Told(w, p) /\ p # k
  <2>1. ASSUME NEW j \in 1 .. Len(outbox'[w]), outbox'[w][j].t = "solved"
        PROVE  Told(w, outbox'[w][j].index)
    BY <1>8, <2>1 DEF Told
  <2>2. ASSUME NEW j \in 1 .. Len(outbox'[w]), outbox'[w][j].t = "solved"
        PROVE  outbox'[w][j].index # k
    <3>1. PICK g \in 1 .. Len(outbox[w]) : g # 1 /\ outbox'[w][j] = outbox[w][g]
      BY <1>8
    <3> QED
      BY <1>2, <1>7, <2>2, <3>1 DEF EachOnce
  <2> QED
    BY <2>1, <2>2 DEF Told
<1>11. \A p : Owes(w, p)' => Owes(w, p)
  BY <1>5, <1>6, <1>10 DEF Owes
<1>12. Owes(w, k)
  BY <1>7 DEF Owes, Told
<1>13. ~Owes(w, k)'
  <2>1. ASSUME Busy(w), NEW i \in mining[w].idx .. Len(Indices(w)), Indices(w)[i] = k
        PROVE  FALSE
    <3>1. PICK j \in 1 .. Len(Indices(w)) : Indices(w)[j] = k /\ j < mining[w].idx
      BY <1>2, <1>7, <2>1 DEF EachOnce
    <3>2. i \in 1 .. Len(Indices(w)) /\ j < i
      BY <1>1, <2>1, <3>1, Assigned DEF WorkerInv
    <3> QED
      BY <1>1, <2>1, <3>1, <3>2, AssignedOnce
  <2> QED
    BY <1>5, <1>6, <1>10, <2>1 DEF Owes
<1> QED
  BY <1>2, <1>3, <1>7, <1>9, <1>11, <1>12, <1>13, OneWorkerCounts

\* Not more workers are counted than there are.
LEMMA OnDoneCounts ==
    ASSUME SolverInv, CountInv, NEW w \in Workers, OnDone(w),
           doneWorkers' # cores => Concerns(w) /\ Len(outbox'[w]) = 0
    PROVE  CountInv'
<1>1. /\ promise = "pending" /\ SolverShape
      /\ doneWorkers = Cardinality(Finished)
  BY Pending DEF OnMessage, SolverInv
<1>2. /\ outbox[w] # << >>
      /\ doneWorkers' = doneWorkers + 1 /\ solvedCount' = solvedCount
      /\ UNCHANGED <<meets, concurrency>>
  BY DEF OnDone, Receives
<1>3. cores \in Nat /\ doneWorkers < cores /\ doneWorkers \in Nat
  <2>1. IsFiniteSet(Workers) /\ Cardinality(Workers) = cores /\ cores \in Nat
    BY <1>1, CoresPositive
  <2>2. Finished \subseteq Workers /\ w \notin Finished
    BY <1>2 DEF Finished
  <2> QED
    BY <1>1, <2>1, <2>2, FS_Subset, FS_CardinalityType
<1>4. doneWorkers' \in 0 .. cores /\ total' = total /\ cores' = cores
  BY <1>2, <1>3, SameChallenge
<1>5. CASE doneWorkers' = cores
  <2>1. promise' = "resolved"
    BY <1>5 DEF OnDone, Settle
  <2> QED
    BY <1>2, <1>4, <2>1 DEF CountInv
<1>6. CASE doneWorkers' # cores
  <2>1. Len(outbox[w]) \in Nat
    BY <1>1 DEF SolverShape
  <2>2. mining' = mining
    BY <1>6 DEF OnDone
  <2> QED
    BY <1>2, <1>4, <1>6, <2>1, <2>2, QuietCounts DEF Busy, Idle
<1> QED
  BY <1>5, <1>6

\* At the start every puzzle is outstanding.
LEMMA StartCounts ==
    ASSUME SolverInv, CountInv, Start
    PROVE  CountInv'
<1>1. /\ SolverShape /\ promise = "new" /\ solvedCount = 0 /\ doneWorkers \in 0 .. cores
      /\ \A w \in Workers : outbox[w] = << >>
      /\ UNCHANGED <<meets, concurrency, solvedCount, doneWorkers>>
  BY DEF Start, SolverInv, CountInv
<1>2. total' = total /\ cores' = cores /\ Workers' = Workers /\ total \in Nat
  BY <1>1, SameChallenge DEF SolverShape
<1>3. CASE promise' = "rejected"
  BY <1>1, <1>2, <1>3 DEF CountInv
<1>4. CASE promise' = "pending" /\ outbox' = outbox
  <2>1. \A w \in Workers' : EachOnce(w)'
    BY <1>1, <1>2, <1>4 DEF EachOnce
  <2>2. Outstanding' \subseteq 0 .. total - 1
    BY <1>2 DEF Outstanding
  <2>3. IsFiniteSet(0 .. total - 1) /\ Cardinality(0 .. total - 1) = total
    BY <1>2, FS_Interval
  <2>4. Cardinality(Outstanding') <= total /\ Cardinality(Outstanding') \in Nat
    BY <2>2, <2>3, FS_Subset, FS_CardinalityType
  <2> QED
    BY <1>1, <1>2, <1>4, <2>1, <2>4 DEF CountInv
<1> QED
  BY <1>3, <1>4 DEF Start, Settle

\* Every step of the pool keeps the count.
LEMMA CountHolds ==
    ASSUME SolverInv, CountInv, SolverStep \/ UNCHANGED solver
    PROVE  CountInv'
<1>1. CASE Start
  BY <1>1, StartCounts
<1>2. ASSUME NEW w \in Workers, WorkerStep(w)
      PROVE  CountInv'
  <2>1. /\ promise = "pending" /\ SolverShape /\ WorkerInv(w)
        /\ doneWorkers \in 0 .. cores
    BY <1>2, Pending, Handled
  <2>2. CASE FindNonce(w)
    BY <2>2, FindNonceHolds, FindNonceCounts
  <2>3. CASE NextNonce(w) \/ AllMined(w)
    <3>1. Concerns(w)
      BY <2>3, NextNonceHolds, AllMinedHolds
    <3>2. doneWorkers' \in 0 .. cores /\ solvedCount' = solvedCount /\ Len(outbox[w]) \in Nat
      BY <2>1, <2>3 DEF NextNonce, AllMined, state, SolverShape
    <3>3. Busy(w)' => Busy(w) /\ mining'[w].idx = mining[w].idx
      BY <2>1, <2>3 DEF NextNonce, AllMined, Mining, Busy, SolverShape
    <3>4. CASE UNCHANGED outbox
      BY <3>1, <3>2, <3>3, <3>4, QuietCounts
    <3>5. ASSUME NEW message \in Messages, message.t # "solved", Post(w, message)
          PROVE  CountInv'
      <4>1. UNCHANGED <<meets, concurrency, nonces>>
        BY <2>3 DEF NextNonce, AllMined, state
      <4>2. /\ Len(outbox'[w]) = Len(outbox[w]) + 1
            /\ \A j \in 1 .. Len(outbox[w]) : outbox'[w][j] = outbox[w][j]
            /\ outbox'[w][Len(outbox[w]) + 1] = message
        BY <2>1, <3>2, <3>5, <4>1, Posted DEF LastOf
      <4>3. \A j \in 1 .. Len(outbox'[w]) : outbox'[w][j].t = "solved" =>
                j \in 1 .. Len(outbox[w]) /\ outbox'[w][j] = outbox[w][j]
        BY <3>2, <3>5, <4>2
      <4> QED
        BY <3>1, <3>2, <3>3, <4>3, QuietCounts
    <3>6. CASE AllMined(w)
      BY <3>5, <3>6 DEF AllMined, Messages
    <3>7. CASE NextNonce(w)
      <4>1. Puzzle(w) \in 0 .. total - 1
        BY <2>1, <3>7, MiningAt DEF NextNonce
      <4>2. [t |-> "unsolvable", index |-> Puzzle(w)] \in Messages
        BY <4>1 DEF Messages
      <4> QED
        BY <3>4, <3>5, <3>7, <4>2 DEF NextNonce
    <3> QED
      BY <2>3, <3>6, <3>7
  <2> QED
    BY <1>2, <2>2, <2>3 DEF WorkerStep
<1>3. ASSUME NEW w \in Workers, WorkerErrs(w)
      PROVE  CountInv'
  <2>1. SolverShape /\ doneWorkers \in 0 .. cores
    BY <1>3, Pending, Handled
  <2>2. Concerns(w)
    BY <1>3, WorkerErrsHolds
  <2> QED
    BY <1>3, <2>1, <2>2, QuietCounts DEF WorkerErrs, state, SolverShape, Busy
<1>4. ASSUME NEW w \in Workers, OnSolved(w)
      PROVE  CountInv'
  BY <1>4, OnSolvedHolds, OnSolvedCounts
<1>5. ASSUME NEW w \in Workers, OnDone(w)
      PROVE  CountInv'
  BY <1>5, OnDoneHolds, OnDoneCounts
<1>6. ASSUME NEW w \in Workers, OnUnsolvable(w) \/ OnError(w)
      PROVE  CountInv'
  <2>1. promise' = "rejected" /\ UNCHANGED <<meets, concurrency, solvedCount, doneWorkers>>
    BY <1>6 DEF OnUnsolvable, OnError, Settle
  <2>2. total' = total /\ cores' = cores
    BY <2>1, SameChallenge
  <2> QED
    BY <2>1, <2>2 DEF CountInv
<1>7. CASE UNCHANGED solver
  <2>1. UNCHANGED <<meets, concurrency, promise, solvedCount, doneWorkers, mining, outbox>>
    BY <1>7 DEF solver, state, pool
  <2>2. /\ total' = total /\ cores' = cores /\ Workers' = Workers
        /\ \A w : Indices(w)' = Indices(w)
    BY <2>1, SameChallenge
  <2>3. \A w : Busy(w)' = Busy(w)
    BY <2>1 DEF Busy, Idle
  <2>4. /\ \A w \in Workers : EachOnce(w)' <=> EachOnce(w)
        /\ \A w, k : Owes(w, k)' <=> Owes(w, k)
    BY <2>1, <2>2, <2>3 DEF EachOnce, Owes, Told
  <2>5. Outstanding' = Outstanding
    BY <2>2, <2>4 DEF Outstanding
  <2> QED
    BY <2>1, <2>2, <2>4, <2>5 DEF CountInv
<1> QED
  BY <1>1, <1>2, <1>3, <1>4, <1>5, <1>6, <1>7 DEF SolverStep, OnMessage

\* Nothing is counted when the page is opened.
LEMMA CountStart == SolverInit => CountInv
<1> SUFFICES ASSUME SolverInit PROVE CountInv
  OBVIOUS
<1>1. total \in Nat /\ cores \in Nat
  BY SolverStart, CoresPositive DEF SolverInv, SolverShape
<1> QED
  BY <1>1 DEF SolverInit, CountInv

-----------------------------------------------------------------------------
\* The values of what is left.
VisitTypes ==
    /\ timeout \in {0} \cup Timeouts
    /\ wait = "off" => deadline = 0
    /\ deadline \in {0, timeout}
    /\ due <= time + Interval
    /\ claim \in {"none", "posted", "sent", "INVALID_POW"} \cup ClaimErrors
    /\ shown.kind \in {"none", "ok", "warn", "err"}

\* Every step keeps them.
LEMMA VisitTypesStep ==
    ASSUME ReceiptInv, VisitTypes, [Next]_vars
    PROVE  VisitTypes'
<1>1. /\ claim' \in {"none", "posted", "sent", "INVALID_POW"} \cup ClaimErrors
      /\ shown'.kind \in {"none", "ok", "warn", "err"}
  BY DEF VisitTypes, Next, vars, Click, ChallengeGranted, ChallengeRefused, Solving,
         FetchFails, Server, ServerRefuses, ServerSends, ServerPanicked, ServerWaits,
         Show,
         PostClaim, MiningFailed, ShowError, ShowDrip, Rest, Finish, Alert, Kind
<1>2. /\ timeout' \in {0} \cup Timeouts
      /\ wait' = "off" => deadline' = 0
      /\ deadline' \in {0, timeout'}
      /\ due' <= time' + Interval
  <2>1. CASE BeginWait
    <3>1. /\ wait = "off" /\ time = 0 /\ deadline = 0
          /\ timeout' \in Timeouts /\ due' = time /\ time' = time
      BY <2>1 DEF BeginWait, ReceiptInv, PunctualInv, Punctual, VisitTypes
    <3>2. wait' \in {"over", "panicked", "asking"} /\ deadline' \in {deadline, time + timeout'}
      BY <2>1, Zenon DEF BeginWait
    <3>3. PICK t \in Nat : timeout' = t
      BY <3>1
    <3> QED
      BY <3>1, <3>2, <3>3
  <2>2. CASE ReceiptStep
    BY <2>2 DEF ReceiptStep, NodeAnswers, AnswerArrives, Wake, TimePasses, Mine,
                waiting,
                chain, ReceiptInv, PunctualInv, WaitTypes, VisitTypes
  <2>3. CASE UNCHANGED receipts
    BY <2>3 DEF receipts, waiting, VisitTypes
  <2> QED
    BY <2>1, <2>2, <2>3, StepsOfTheWait
<1> QED
  BY <1>1, <1>2 DEF VisitTypes

\* Every visit keeps to the solution, its count and its types.
THEOREM PageInvariant == Spec => [](SolverInv /\ CountInv /\ VisitInv /\ VisitTypes)
<1> DEFINE Inv == SolverInv /\ CountInv /\ VisitInv /\ VisitTypes
<1>1. Init => Inv
  <2> SUFFICES ASSUME Init PROVE Inv
    OBVIOUS
  <2>1. SolverInv /\ CountInv
    BY SolverStart, CountStart DEF Init
  <2>2. VisitInv /\ VisitTypes
    BY DEF Init, ReceiptInit, VisitInv, VisitTypes, Nothing, ShownTruthful, NoOutcome
  <2> QED
    BY <2>1, <2>2
<1>2. Inv /\ ReceiptInv /\ [Next]_vars => Inv'
  BY StepsOfThePool, SolverHolds, CountHolds, VisitStep, VisitTypesStep
<1> QED
  BY <1>1, <1>2, WaitInvariant, PTL DEF Spec

\* Every variable of the page, the pool and the wait keeps to its values; solvedCount
\* never exceeds the puzzles and doneWorkers never the workers (index.html 236-449).
THEOREM PageTypeCorrect == Spec => []PageTypeOK
<1>1. SolverInv /\ CountInv => SolverTypeOK
  <2> SUFFICES ASSUME SolverInv, CountInv PROVE SolverTypeOK
    OBVIOUS
  <2>1. ASSUME NEW w \in Workers
        PROVE  mining[w].idx \in 0 .. Len(Indices(w)) + 1 /\ mining[w].nonce \in 0 .. MaxNonce
    <3>1. SolverShape /\ Len(Indices(w)) \in Nat
      BY Assigned DEF SolverInv
    <3>2. CASE Busy(w)
      BY <3>1, <3>2 DEF SolverInv, WorkerInv, SolverShape
    <3>3. CASE ~Busy(w)
      BY <3>1, <3>3 DEF Busy, Idle
    <3> QED
      BY <3>2, <3>3
  <2> QED
    BY <2>1 DEF SolverTypeOK, SolverInv, SolverShape, CountInv
<1>2. SolverTypeOK /\ ReceiptInv /\ VisitInv /\ VisitTypes => PageTypeOK
  BY DEF PageTypeOK, ReceiptInv, PunctualInv, WaitTypes, VisitInv, VisitTypes
<1> QED
  BY <1>1, <1>2, PageInvariant, WaitInvariant, PTL

\* However many workers mine however many puzzles in whatever order, what the page
\* posts is what the reference solver finds (index.html 287-308, pow.rs 318-356).
THEOREM PageSolutionAccepted == Spec => []SolutionAccepted
<1>1. SolverInv => SolutionAccepted
  BY Verified, SameNonce DEF SolverInv, SolutionAccepted
<1> QED
  BY <1>1, PageInvariant, PTL

\* The page gives up mining only for a reason (index.html 250-251, 309-323).
THEOREM PageRejectionJustified == Spec => RejectionJustified
<1>1. SolverInv /\ [Next]_vars =>
          [promise' = "rejected" =>
               \/ promise \in {"new", "rejected"}
               \/ erred # {}
               \/ \E k \in 0 .. total - 1 : ~Solvable(k)]_solver
  BY StepsOfThePool, Rejecting
<1> QED
  BY <1>1, PageInvariant, PTL DEF Spec, RejectionJustified

\* What is shown is so, and the server never blames the solution
\* (index.html 419-438).
THEOREM PageShownTruthful == Spec => []ShownTruthful
<1>1. VisitInv => ShownTruthful
  BY DEF VisitInv
<1> QED
  BY <1>1, PageInvariant, PTL

\* However polls fail and blocks come, the wait outlasts the timeout by one
\* sleep and one poll at most (faucet.rs 210-253).
THEOREM PageWaitBounded == Spec => []WaitBounded
<1>1. ReceiptInv => WaitBounded
  BY DEF ReceiptInv, PunctualInv
<1> QED
  BY <1>1, WaitInvariant, PTL

\* What the wait reports is so: mined, reverted or pending (faucet.rs 210-253).
THEOREM PageReceiptTruthful == Spec => []ReceiptTruthful
<1>1. ReceiptInv => ReceiptTruthful
  BY DEF ReceiptInv
<1> QED
  BY <1>1, WaitInvariant, PTL
=============================================================================
