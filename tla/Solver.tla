------------------------------- MODULE Solver -------------------------------
(***************************************************************************)
(* solvePow (src/index.html): the page mines a challenge in a pool of web  *)
(* workers, and verify_solution (src/pow.rs) judges the result.            *)
(*                                                                         *)
(* Workers run in threads of their own and post messages; the page handles *)
(* one message or error at a time, in the order of each worker's messages  *)
(* and in any order between workers.  The hash is a table: meets[k][n]     *)
(* says whether nonce n of puzzle k has enough leading zero bits.          *)
(* Progress reports change only what is displayed and are left out.  Page  *)
(* is the rest of the page.                                                *)
(***************************************************************************)
EXTENDS Integers, Sequences

CONSTANTS
    MaxPuzzles,     \* bound: puzzles per challenge
    MaxNonce,       \* the largest u32
    Concurrencies   \* values of navigator.hardwareConcurrency, 0: undefined

ASSUME SolverAssumption ==
    /\ MaxPuzzles \in Nat \ {0}     \* POW_PUZZLES is at least 1
    /\ MaxNonce \in Nat
    /\ Concurrencies \subseteq Nat

VARIABLES
    meets,          \* the table of the challenge being solved
    concurrency,    \* this browser's hardwareConcurrency
    promise,        \* "new", "pending", "resolved" or "rejected"
    nonces,         \* the array the promise resolves with
    solvedCount,
    doneWorkers,
    mining,         \* mining[w]: what worker w is trying, see Idle
    outbox,         \* outbox[w]: messages of w that are not yet handled
    erred           \* workers whose error event is not yet handled

state == <<promise, nonces, solvedCount, doneWorkers>>
pool == <<mining, outbox, erred>>
solver == <<meets, concurrency, state, pool>>

total == Len(meets)

LeastOf(a, b) == IF a < b THEN a ELSE b
cores == LeastOf(IF concurrency = 0 THEN 4 ELSE concurrency, LeastOf(total, 32))
Workers == 0 .. cores - 1

\* Puzzles are numbered from 0; sequences here start at 1.
Solved(k, nonce) == meets[k + 1][nonce + 1]

\* Mutant of Indices: every worker starts at puzzle 0.
IndicesFromZero(w) ==
    [i \in 1 .. (total - 1) \div cores + 1 |-> (i - 1) * cores]

\* Worker w takes every cores-th puzzle from w on.
Indices(w) == [i \in 1 .. (total - 1 - w) \div cores + 1 |-> w + (i - 1) * cores]

\* A worker that is through, has given up, or has been terminated.
Idle == [idx |-> 0, nonce |-> 0]

SolverInit ==
    /\ meets \in UNION {[1 .. n -> [1 .. MaxNonce + 1 -> BOOLEAN]] :
                           n \in 1 .. MaxPuzzles}
    /\ concurrency \in Concurrencies
    /\ promise = "new"
    /\ nonces = [k \in 1 .. total |-> 0]
    /\ solvedCount = 0
    /\ doneWorkers = 0
    /\ mining = [w \in Workers |-> Idle]
    /\ outbox = [w \in Workers |-> << >>]
    /\ erred = {}

\* cleanup terminates every worker and with it what it had still to say.
Settle(result) ==
    /\ promise' = result
    /\ mining' = [w \in Workers |-> Idle]
    /\ outbox' = [w \in Workers |-> << >>]
    /\ erred' = {}

\* The executor runs to its end before any message is handled.
Start ==
    /\ promise = "new"
    /\ \/ /\ promise' = "pending"
          /\ mining' = [w \in Workers |-> [idx |-> 1, nonce |-> 0]]
          /\ UNCHANGED <<outbox, erred>>
       \/ Settle("rejected")    \* a worker could not be constructed
    /\ UNCHANGED <<meets, concurrency, nonces, solvedCount, doneWorkers>>
-----------------------------------------------------------------------------
Busy(w) == mining[w] # Idle
Post(w, message) == outbox' = [outbox EXCEPT ![w] = Append(@, message)]
Mining(w) == Busy(w) /\ mining[w].idx <= Len(Indices(w))
Puzzle(w) == Indices(w)[mining[w].idx]

FindNonce(w) ==
    /\ Mining(w)
    /\ Solved(Puzzle(w), mining[w].nonce)
    /\ Post(w, [t |-> "solved", index |-> Puzzle(w), nonce |-> mining[w].nonce])
    /\ mining' = [mining EXCEPT ![w] = [idx |-> @.idx + 1, nonce |-> 0]]
    /\ UNCHANGED <<meets, concurrency, state, erred>>

\* Mutant of Exhausted: the last nonce is never tried.
ExhaustedEarly(nonce) == nonce >= MaxNonce

Exhausted(nonce) == nonce > MaxNonce

NextNonce(w) ==
    /\ Mining(w)
    /\ ~Solved(Puzzle(w), mining[w].nonce)
    /\ LET next == mining[w].nonce + 1
       IN  IF Exhausted(next)
             THEN /\ Post(w, [t |-> "unsolvable", index |-> Puzzle(w)])
                  /\ mining' = [mining EXCEPT ![w] = Idle]
             ELSE /\ mining' = [mining EXCEPT ![w].nonce = next]
                  /\ UNCHANGED outbox
    /\ UNCHANGED <<meets, concurrency, state, erred>>

AllMined(w) ==
    /\ Busy(w) /\ ~Mining(w)
    /\ Post(w, [t |-> "done"])
    /\ mining' = [mining EXCEPT ![w] = Idle]
    /\ UNCHANGED <<meets, concurrency, state, erred>>

\* A worker fails to load or throws.
WorkerErrs(w) ==
    /\ Busy(w)
    /\ mining' = [mining EXCEPT ![w] = Idle]
    /\ erred' = erred \cup {w}
    /\ UNCHANGED <<meets, concurrency, state, outbox>>
-----------------------------------------------------------------------------
Pop(w) == outbox' = [outbox EXCEPT ![w] = Tail(@)]
Receives(w, t) ==
    /\ outbox[w] # << >>
    /\ Head(outbox[w]).t = t

OnSolved(w) ==
    /\ Receives(w, "solved")
    /\ nonces' = [nonces EXCEPT ![Head(outbox[w]).index + 1] =
                     Head(outbox[w]).nonce]
    /\ solvedCount' = solvedCount + 1
    /\ Pop(w)
    /\ UNCHANGED <<meets, concurrency, promise, doneWorkers, mining, erred>>

\* Mutant of OnDone: the first worker to finish settles the promise.
OnFirstDone(w) ==
    /\ Receives(w, "done")
    /\ doneWorkers' = doneWorkers + 1
    /\ Settle("resolved")
    /\ UNCHANGED <<meets, concurrency, nonces, solvedCount>>

OnDone(w) ==
    /\ Receives(w, "done")
    /\ doneWorkers' = doneWorkers + 1
    /\ IF doneWorkers' = cores
         THEN Settle("resolved")
         ELSE Pop(w) /\ UNCHANGED <<promise, mining, erred>>
    /\ UNCHANGED <<meets, concurrency, nonces, solvedCount>>

OnUnsolvable(w) ==
    /\ Receives(w, "unsolvable")
    /\ Settle("rejected")
    /\ UNCHANGED <<meets, concurrency, nonces, solvedCount, doneWorkers>>

\* Mutant of OnError: the handler logs and carries on.
OnErrorIgnored(w) ==
    /\ w \in erred
    /\ erred' = erred \ {w}
    /\ UNCHANGED <<meets, concurrency, state, mining, outbox>>

OnError(w) ==
    /\ w \in erred
    /\ Settle("rejected")
    /\ UNCHANGED <<meets, concurrency, nonces, solvedCount, doneWorkers>>

OnMessage(w) == OnSolved(w) \/ OnDone(w) \/ OnUnsolvable(w)

WorkerStep(w) == FindNonce(w) \/ NextNonce(w) \/ AllMined(w)

SolverStep ==
    \/ Start
    \/ \E w \in Workers : WorkerStep(w) \/ WorkerErrs(w)
                             \/ OnMessage(w) \/ OnError(w)
-----------------------------------------------------------------------------
\* solve_puzzle: the least nonce that meets the difficulty.
SolvePuzzle(k) ==
    CHOOSE n \in 0 .. MaxNonce :
        Solved(k, n) /\ \A m \in 0 .. n - 1 : ~Solved(k, m)

Solvable(k) == \E n \in 0 .. MaxNonce : Solved(k, n)

\* verify_solution, for difficulties that the configuration admits.
VerifySolution(solution) ==
    /\ Len(solution) = total
    /\ \A k \in 0 .. total - 1 : Solved(k, solution[k + 1])

SolverTypeOK ==
    /\ promise \in {"new", "pending", "resolved", "rejected"}
    /\ nonces \in [1 .. total -> 0 .. MaxNonce]
    /\ solvedCount \in 0 .. total
    /\ doneWorkers \in 0 .. cores
    /\ \A w \in Workers :
           /\ mining[w].idx \in 0 .. Len(Indices(w)) + 1
           /\ mining[w].nonce \in 0 .. MaxNonce
    /\ erred \subseteq Workers

\* What the page posts, the server accepts: however the workers' messages
\* interleave, every nonce is filled in before the promise resolves, and it
\* is the nonce the reference solver finds (index.html 287-308, pow.rs 318-356).
SolutionAccepted ==
    promise = "resolved" =>
        /\ VerifySolution(nonces)
        /\ \A k \in 0 .. total - 1 : nonces[k + 1] = SolvePuzzle(k)

\* The page gives up only for a reason: a worker that could not start or
\* failed, or a puzzle without a solution (index.html 250-251, 309-323).
RejectionJustified ==
    [][promise' = "rejected" =>
           \/ promise \in {"new", "rejected"}
           \/ erred # {}
           \/ \E k \in 0 .. total - 1 : ~Solvable(k)]_solver
=============================================================================
