--------------------------- MODULE ChallengeSolver ---------------------------
(***************************************************************************)
(* The proof of work a pool may ask for before it talks: find a nonce      *)
(* whose BLAKE3 digest with the seed starts with `difficulty' zero bits.   *)
(* The CPU solver (solve_challenge, stratum_client.py) walks the nonces    *)
(* with worker processes that share a stop flag and a result queue; the    *)
(* OpenCL solver (blake3_challenge_gpu.py, blake3_challenge.cl) launches   *)
(* batches of work items that share a found flag and one result slot.      *)
(*                                                                         *)
(* A digest is a sequence of bytes, a byte the sequence of its ByteBits    *)
(* bits, top bit first; each nonce has any of Digests.  Nonces end at      *)
(* MaxNonce: past it there is no winner, and a CPU worker keeps looking.   *)
(* A process may die at any time; work items do not.                       *)
(***************************************************************************)
EXTENDS Integers, Sequences

CONSTANTS
  Workers,      \* worker processes, and work items of one batch
  Inner,        \* hashes between two looks at the stop flag (4096)
  MaxNonce,     \* bound on the nonces that can win
  ByteBits,     \* bits of a byte of a digest (8)
  Digests,      \* digests a nonce may have
  Difficulties, \* difficulties the pool may ask for
  MaxDeaths     \* bound on the processes that die

ASSUME SolverAssumption ==
  /\ Workers \in Nat \ {0} /\ Inner \in Nat \ {0} /\ MaxNonce \in Nat
  /\ ByteBits \in Nat \ {0} /\ MaxDeaths \in Nat
  /\ \A d \in Digests : d \in Seq([1..ByteBits -> {0, 1}])
  /\ Difficulties \subseteq Nat
  \* A pool asks for no more zero bits than a digest has: past that no nonce
  \* passes the CPU's test and only the all-zero digest the kernel's.
  /\ \A d \in Digests, n \in Difficulties : n <= ByteBits * Len(d)

Worker == 0..Workers - 1
None   == -1

VARIABLES
  solver,      \* "cpu" or "gpu"
  difficulty,
  digest,      \* of each nonce
  pc,          \* where each worker is
  nonce,       \* the nonce it looks at next
  left,        \* hashes until it looks at the flag (CPU)
  flag,        \* stop_flag, found_flag
  results,     \* result_q (CPU)
  found_nonce, \* the result slot (GPU)
  base,        \* nonce_base (GPU)
  answer,      \* what the solver returned
  deaths

problem == <<solver, difficulty, digest>>
gpu     == <<found_nonce, base>>
vars    == <<problem, pc, nonce, left, flag, results, gpu, answer, deaths>>

-----------------------------------------------------------------------------
(***************************************************************************)
(* The two tests of a digest.                                              *)
(***************************************************************************)

First(positions) == CHOOSE i \in positions : \A j \in positions : i <= j

\* (b >> (8 - n)) == 0, b == 0: the top n bits of a byte are zero.
ZeroBits(b, n) == \A i \in 1..n : b[i] = 0

\* The CPU's: eight per zero byte in front, then the zero bits of the next.
_leading_zero_bits(d) ==
  LET nonzero == {i \in DOMAIN d : ~ZeroBits(d[i], ByteBits)}
      byte    == First(nonzero)
  IN IF nonzero = {} THEN ByteBits * Len(d)
     ELSE ByteBits * (byte - 1) + First({i \in 1..ByteBits : d[byte][i] = 1}) - 1

\* The kernel's: no byte makes it return false.  At byte i, d is what is left
\* of the difficulty; once that is zero the loop is over.
meets_difficulty(out, d0) ==
  \A i \in DOMAIN out :
    LET d == d0 - ByteBits * (i - 1)
    IN ZeroBits(out[i], IF d >= ByteBits THEN ByteBits ELSE d)

Wins(n) ==
  /\ n \in 0..MaxNonce
  /\ IF solver = "cpu" THEN _leading_zero_bits(digest[n]) >= difficulty
                       ELSE meets_difficulty(digest[n], difficulty)

-----------------------------------------------------------------------------
Init ==
  /\ solver \in {"cpu", "gpu"} /\ difficulty \in Difficulties
  /\ digest \in [0..MaxNonce -> Digests]
  /\ \E n \in 0..MaxNonce : Wins(n)
  /\ pc = [w \in Worker |-> "check"] /\ nonce = [w \in Worker |-> w]
  /\ left = [w \in Worker |-> 0]
  /\ flag = FALSE /\ results = <<>> /\ found_nonce = 0 /\ base = 0
  /\ answer = None /\ deaths = 0

At(w, from, to) == pc[w] = from /\ pc' = [pc EXCEPT ![w] = to]

\* `while not stop_flag.value', or the kernel's early out.
Check(w) ==
  /\ IF flag THEN At(w, "check", "exit") /\ UNCHANGED left
     ELSE At(w, "check", "hash") /\ left' = [left EXCEPT ![w] = Inner]
  /\ UNCHANGED <<problem, nonce, flag, results, gpu, answer, deaths>>

\* The next nonce of this process; nonces past MaxNonce are one.
Step(n) == IF n + Workers > MaxNonce THEN MaxNonce + 1 ELSE n + Workers

Hash(w) ==
  /\ IF Wins(nonce[w]) THEN At(w, "hash", "won") /\ UNCHANGED <<nonce, left>>
     ELSE IF solver = "gpu" THEN At(w, "hash", "exit") /\ UNCHANGED <<nonce, left>>
     ELSE /\ At(w, "hash", IF left[w] = 1 THEN "check" ELSE "hash")
          /\ nonce' = [nonce EXCEPT ![w] = Step(@)]
          /\ left' = [left EXCEPT ![w] = @ - 1]
  /\ UNCHANGED <<problem, flag, results, gpu, answer, deaths>>

\* The flag first, the nonce behind it.
RaiseFlag(w) ==
  /\ At(w, "won", "put") /\ flag' = TRUE
  /\ UNCHANGED <<problem, nonce, left, results, gpu, answer, deaths>>

\* result_q.put, or the store to found_nonce: a later winner overwrites it.
Report(w) ==
  /\ At(w, "put", "exit")
  /\ IF solver = "cpu" THEN results' = Append(results, nonce[w]) /\ UNCHANGED found_nonce
                       ELSE found_nonce' = nonce[w] /\ UNCHANGED results
  /\ UNCHANGED <<problem, nonce, left, flag, base, answer, deaths>>

\* A worker process is killed.
Die(w) ==
  /\ solver = "cpu" /\ pc[w] \notin {"exit", "dead"} /\ deaths < MaxDeaths
  /\ pc' = [pc EXCEPT ![w] = "dead"] /\ deaths' = deaths + 1
  /\ UNCHANGED <<problem, nonce, left, flag, results, gpu, answer>>

\* solve_challenge: wait until there is a result, take the first, and stop and
\* terminate the rest.
TakeResult ==
  /\ solver = "cpu" /\ answer = None /\ results # <<>>
  /\ answer' = Head(results) /\ flag' = TRUE
  /\ pc' = [w \in Worker |-> IF pc[w] = "dead" THEN "dead" ELSE "exit"]
  /\ UNCHANGED <<problem, nonce, left, results, gpu, deaths>>

\* Fault: the host reads the slot without waiting for the batch.
FinishedEarly == flag

\* queue.finish(): every work item of the batch is over.
Finished == \A w \in Worker : pc[w] = "exit"

\* Fault: every batch tries the same nonces.
NextBaseStuck == base

\* Fault: one nonce is left out between two batches.
NextBaseSkips == base + Workers + 1

NextBase == base + Workers

\* The flag is read back; the slot is when it is set, and the next batch is
\* launched with flag and slot cleared when it is not.
EndBatch ==
  /\ solver = "gpu" /\ answer = None /\ Finished
  /\ IF flag
       THEN answer' = found_nonce /\ UNCHANGED <<pc, nonce, gpu>>
       ELSE /\ base' = NextBase /\ found_nonce' = 0
            /\ nonce' = [w \in Worker |-> base' + w]
            /\ pc' = [w \in Worker |-> "check"]
            /\ UNCHANGED answer
  /\ UNCHANGED <<problem, left, flag, results, deaths>>

Work(w) == Check(w) \/ Hash(w) \/ RaiseFlag(w) \/ Report(w)
Host    == TakeResult \/ EndBatch

Next == Host \/ \E w \in Worker : Work(w) \/ Die(w)

\* The processes are scheduled and the device runs what it was given.
Spec ==
  /\ Init /\ [][Next]_vars
  /\ WF_vars(Host) /\ \A w \in Worker : WF_vars(Work(w))

-----------------------------------------------------------------------------
(***************************************************************************)
(* Properties.                                                             *)
(***************************************************************************)

\* What either solver returns is a nonce the pool takes, however many workers
\* won and in whichever order flag, queue and slot were written; the kernel's
\* test of the digest accepts what counting its zero bits does
\* (stratum_client.py 53-130, blake3_challenge_gpu.py 65-116).
NonceValid ==
  answer # None => answer \in 0..MaxNonce /\ _leading_zero_bits(digest[answer]) >= difficulty

\* A worker has tried every nonce of its class before the one it looks at, and
\* the batches every nonce before theirs: no winner is passed over, however the
\* flag cuts the others short (stratum_client.py 68-85,
\* blake3_challenge_gpu.py 65-116).
NoWinnerSkipped ==
  \A n \in 0..MaxNonce :
    /\ solver = "cpu" => \A w \in Worker : n % Workers = w /\ n < nonce[w] => ~Wins(n)
    /\ solver = "gpu" => (n < base => ~Wins(n))

\* No process is left that could still report: the flag went up and its winner
\* died before the nonce was in the queue, or those with a winner ahead died.
Orphaned ==
  /\ solver = "cpu" /\ results = <<>>
  /\ \A w \in Worker :
       \/ pc[w] \in {"dead", "exit"} \/ (flag /\ pc[w] = "check")
       \/ /\ pc[w] \in {"check", "hash"}
          /\ \A n \in nonce[w]..MaxNonce : n % Workers = w => ~Wins(n)

\* A solver answers, whatever processes die, unless no process could any more
\* (stratum_client.py 68-130).
Solved == <>(answer # None \/ Orphaned)
=============================================================================
