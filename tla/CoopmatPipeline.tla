--------------------------- MODULE CoopmatPipeline ---------------------------
(***************************************************************************)
(* One round of PearlMiner._search_coopmat_pipelined                       *)
(* (src/src/pearl_amd/miner.py): the calling thread is the producer, it    *)
(* takes candidate shares from the GPU search and puts them on a bounded   *)
(* queue; a pool of submit threads takes them off, builds the proof and    *)
(* submits it to the mining pool.  The round is closed with one None       *)
(* sentinel per submit thread and a join.                                  *)
(*                                                                         *)
(* The GPU search itself (JackpotCoopmat.search_all_stream) is abstracted  *)
(* to "the next candidate, the end of the stream, or an exception"; it is  *)
(* modelled in CoopmatRounds.  Candidates are numbered 1, 2, ... in the    *)
(* order the search yields them, so `yielded' names the newest one.        *)
(*                                                                         *)
(* outcome, attempts, late and latePuts are history variables: the code    *)
(* has no such state, they record what became of each candidate.           *)
(***************************************************************************)
EXTENDS Naturals, Sequences, FiniteSets

CONSTANTS
  Workers,     \* the submit threads: max(1, coopmat_submit_threads) of them
  MaxReturn,   \* coopmat_shares_per_round, the search's max_return
  QMax         \* queue.Queue(maxsize=64); the runs bound it lower

ASSUME PipelineAssumption ==
  /\ Workers # {} /\ IsFiniteSet(Workers)
  /\ MaxReturn \in Nat
  /\ QMax \in Nat \ {0}

VARIABLES
  ppc,         \* where the producer is
  yielded,     \* how many candidates the search has yielded
  q,           \* the queue q: candidates and None sentinels
  unposted,    \* workers whose sentinel is not in the queue yet
  genErr,      \* the search raised (a jcm_* call returned rc # 0)
  err,         \* err[0]: the first candidate whose submission raised, or None
  nSubmitted,  \* n_submitted[0]
  stop,        \* should_continue() is False
  wpc,         \* where each worker is
  item,        \* the item each worker holds
  outcome,     \* history: what became of each candidate
  attempts,    \* history: how often each candidate was sent to the pool
  late,        \* history: submissions each worker began since stop was set
  latePuts     \* history: candidates put since err was set

producer == <<ppc, yielded, unposted, genErr>>
consumer == <<wpc, item, nSubmitted, err, outcome, attempts>>
vars == <<ppc, yielded, q, unposted, genErr, err, nSubmitted, stop, wpc, item,
          outcome, attempts, late, latePuts>>

None       == 0
Candidates == 1..MaxReturn

ProducerRunning == {"next", "put", "check", "sentinels", "join"}
ProducerEnded   == {"returned", "exhausted", "raised"}
Holding         == {"check", "pace", "reply", "count", "except"}

Init ==
  /\ ppc = "next" /\ yielded = 0 /\ unposted = Workers /\ genErr = FALSE
  /\ q = <<>>
  /\ wpc = [w \in Workers |-> "get"]
  /\ item = [w \in Workers |-> None]
  /\ err = None /\ nSubmitted = 0
  /\ stop = FALSE
  /\ outcome = [c \in Candidates |-> "open"]
  /\ attempts = [c \in Candidates |-> 0]
  /\ late = [w \in Workers |-> 0] /\ latePuts = 0

-----------------------------------------------------------------------------
(***************************************************************************)
(* The producer.                                                           *)
(***************************************************************************)

\* `for cand in search_all_stream(...)': the search yields a candidate ...
Yield ==
  /\ ppc = "next"
  /\ yielded < MaxReturn
  /\ yielded' = yielded + 1
  /\ ppc' = "put"
  /\ UNCHANGED <<unposted, genErr, q, consumer, stop, late, latePuts>>

\* ... or it is over: the grid is swept, max_return is reached, or the search
\* saw should_continue() return False.
StreamEnds ==
  /\ ppc = "next"
  /\ ppc' = "sentinels"
  /\ UNCHANGED <<yielded, unposted, genErr, q, consumer, stop, late, latePuts>>

\* A failing jcm_search_submit / jcm_search_collect raises out of the loop into
\* its `finally'.
StreamRaises ==
  /\ ppc = "next"
  /\ ppc' = "sentinels"
  /\ genErr' = TRUE
  /\ UNCHANGED <<yielded, unposted, q, consumer, stop, late, latePuts>>

\* Fault: the queue has no bound.
PutUnbounded ==
  /\ ppc = "put"
  /\ q' = Append(q, yielded)
  /\ ppc' = "check"
  /\ latePuts' = IF err = None THEN latePuts ELSE latePuts + 1
  /\ UNCHANGED <<yielded, unposted, genErr, consumer, stop, late>>

\* q.put(cand): blocks while the queue is full.
Put ==
  /\ ppc = "put"
  /\ Len(q) < QMax
  /\ q' = Append(q, yielded)
  /\ ppc' = "check"
  /\ latePuts' = IF err = None THEN latePuts ELSE latePuts + 1
  /\ UNCHANGED <<yielded, unposted, genErr, consumer, stop, late>>

\* Fault: the producer never looks at err.
CheckErrIgnored ==
  /\ ppc = "check"
  /\ ppc' = "next"
  /\ UNCHANGED <<yielded, unposted, genErr, q, consumer, stop, late, latePuts>>

\* `if err: break': a consumer failed.
CheckErr ==
  /\ ppc = "check"
  /\ ppc' = IF err # None THEN "sentinels" ELSE "next"
  /\ UNCHANGED <<yielded, unposted, genErr, q, consumer, stop, late, latePuts>>

\* `for _ in workers: q.put(None)', one blocking put at a time.
PutSentinel ==
  /\ ppc = "sentinels"
  /\ Len(q) < QMax
  /\ q' = Append(q, None)
  /\ \E w \in unposted : unposted' = unposted \ {w}
  /\ UNCHANGED <<ppc, yielded, genErr, consumer, stop, late, latePuts>>

SentinelsPosted ==
  /\ ppc = "sentinels"
  /\ unposted = {}
  /\ ppc' = "join"
  /\ UNCHANGED <<yielded, unposted, genErr, q, consumer, stop, late, latePuts>>

\* Fault: the consumers' error is not raised after the join.
RoundResultSwallowed ==
  CASE genErr                     -> "raised"
    [] ~genErr /\ nSubmitted = 0  -> "exhausted"
    [] ~genErr /\ nSubmitted # 0  -> "returned"

\* How the call ends: an exception of the search propagates through the
\* `finally', otherwise err[0] is raised, otherwise search_exhausted is emitted
\* when no share was submitted.
RoundResult ==
  CASE genErr \/ err # None                    -> "raised"
    [] ~genErr /\ err = None /\ nSubmitted = 0 -> "exhausted"
    [] ~genErr /\ err = None /\ nSubmitted # 0 -> "returned"

\* Fault: the calling thread returns as soon as the sentinels are queued.
JoinSkipped ==
  /\ ppc = "join"
  /\ ppc' = RoundResult
  /\ UNCHANGED <<yielded, unposted, genErr, q, consumer, stop, late, latePuts>>

\* `for w in workers: w.join()' and the code after the `try'.
Join ==
  /\ ppc = "join"
  /\ \A w \in Workers : wpc[w] = "done"
  /\ ppc' = RoundResult
  /\ UNCHANGED <<yielded, unposted, genErr, q, consumer, stop, late, latePuts>>

Producer ==
  \/ Yield \/ StreamEnds \/ StreamRaises
  \/ Put \/ CheckErr
  \/ PutSentinel \/ SentinelsPosted \/ Join

-----------------------------------------------------------------------------
(***************************************************************************)
(* A submit thread (_consumer).                                            *)
(***************************************************************************)

\* Fault: the item is read without being removed before another thread reads.
GetPeeks(w) ==
  /\ wpc[w] = "get"
  /\ q # <<>>
  /\ q' = IF Head(q) = None \/ Len(q) > 1 THEN Tail(q) ELSE q
  /\ wpc' = [wpc EXCEPT ![w] = IF Head(q) = None THEN "done" ELSE "check"]
  /\ item' = [item EXCEPT ![w] = Head(q)]
  /\ UNCHANGED <<producer, nSubmitted, err, outcome, attempts, stop, late, latePuts>>

\* item = q.get(): blocks while the queue is empty; None ends the thread.
Get(w) ==
  /\ wpc[w] = "get"
  /\ q # <<>>
  /\ q' = Tail(q)
  /\ wpc' = [wpc EXCEPT ![w] = IF Head(q) = None THEN "done" ELSE "check"]
  /\ item' = [item EXCEPT ![w] = Head(q)]
  /\ UNCHANGED <<producer, nSubmitted, err, outcome, attempts, stop, late, latePuts>>

\* Fault: the stop predicate is not consulted.
CheckStopIgnored(w) ==
  /\ wpc[w] = "check"
  /\ wpc' = [wpc EXCEPT ![w] = "pace"]
  /\ UNCHANGED <<producer, q, item, nSubmitted, err, outcome, attempts, stop,
                 late, latePuts>>

\* `if not should_continue(): continue': drop the share, do not submit it.
CheckStop(w) ==
  /\ wpc[w] = "check"
  /\ \/ /\ stop
        /\ wpc' = [wpc EXCEPT ![w] = "get"]
        /\ item' = [item EXCEPT ![w] = None]
        /\ outcome' = [outcome EXCEPT ![item[w]] = "dropped"]
     \/ /\ ~stop
        /\ wpc' = [wpc EXCEPT ![w] = "pace"]
        /\ UNCHANGED <<item, outcome>>
  /\ UNCHANGED <<producer, q, nSubmitted, err, attempts, stop, late, latePuts>>

\* _pace() is over and _submit_hit writes the mining.submit frame.  The stop
\* predicate is not looked at again after the sleep.
SubmitStart(w) ==
  /\ wpc[w] = "pace"
  /\ wpc' = [wpc EXCEPT ![w] = "reply"]
  /\ attempts' = [attempts EXCEPT ![item[w]] = @ + 1]
  /\ late' = [late EXCEPT ![w] = IF stop THEN @ + 1 ELSE @]
  /\ UNCHANGED <<producer, q, item, nSubmitted, err, outcome, stop, latePuts>>

\* build_plain_proof or the socket write raises: nothing reached the pool.
SubmitAborts(w) ==
  /\ wpc[w] = "pace"
  /\ wpc' = [wpc EXCEPT ![w] = "except"]
  /\ UNCHANGED <<producer, q, item, nSubmitted, err, outcome, attempts, stop,
                 late, latePuts>>

\* session.submit_share returns the pool's answer ...
SubmitAnswered(w) ==
  /\ wpc[w] = "reply"
  /\ wpc' = [wpc EXCEPT ![w] = "count"]
  /\ UNCHANGED <<producer, q, item, nSubmitted, err, outcome, attempts, stop,
                 late, latePuts>>

\* ... or raises TimeoutError or ConnectionError.
SubmitRaises(w) ==
  /\ wpc[w] = "reply"
  /\ wpc' = [wpc EXCEPT ![w] = "except"]
  /\ UNCHANGED <<producer, q, item, nSubmitted, err, outcome, attempts, stop,
                 late, latePuts>>

\* `with lock: n_submitted[0] += 1'.
Count(w) ==
  /\ wpc[w] = "count"
  /\ nSubmitted' = nSubmitted + 1
  /\ outcome' = [outcome EXCEPT ![item[w]] = "submitted"]
  /\ item' = [item EXCEPT ![w] = None]
  /\ wpc' = [wpc EXCEPT ![w] = "get"]
  /\ UNCHANGED <<producer, q, err, attempts, stop, late, latePuts>>

\* Fault: the thread dies of the exception.
RecordErrAndDie(w) ==
  /\ wpc[w] = "except"
  /\ err' = IF err = None THEN item[w] ELSE err
  /\ outcome' = [outcome EXCEPT ![item[w]] = "failed"]
  /\ item' = [item EXCEPT ![w] = None]
  /\ wpc' = [wpc EXCEPT ![w] = "done"]
  /\ UNCHANGED <<producer, q, nSubmitted, attempts, stop, late, latePuts>>

\* `except BaseException: with lock: if not err: err.append(e)'; the thread
\* goes on with the next item.
RecordErr(w) ==
  /\ wpc[w] = "except"
  /\ err' = IF err = None THEN item[w] ELSE err
  /\ outcome' = [outcome EXCEPT ![item[w]] = "failed"]
  /\ item' = [item EXCEPT ![w] = None]
  /\ wpc' = [wpc EXCEPT ![w] = "get"]
  /\ UNCHANGED <<producer, q, nSubmitted, attempts, stop, late, latePuts>>

Consumer(w) ==
  \/ Get(w) \/ CheckStop(w)
  \/ SubmitStart(w) \/ SubmitAborts(w) \/ SubmitAnswered(w) \/ SubmitRaises(w)
  \/ Count(w) \/ RecordErr(w)

-----------------------------------------------------------------------------
(***************************************************************************)
(* The caller's stop predicate.  A stop event and a lost session stay; a   *)
(* job change does not have to: the predicate compares the newest job key  *)
(* with the round's, and the pool may bring the old job back.              *)
(***************************************************************************)
StopRequested ==
  /\ ~stop
  /\ stop' = TRUE
  /\ late' = [w \in Workers |-> 0]
  /\ UNCHANGED <<producer, q, consumer, latePuts>>

StopWithdrawn ==
  /\ stop
  /\ stop' = FALSE
  /\ UNCHANGED <<producer, q, consumer, late, latePuts>>

\* The call has ended: the caller goes on, this round does nothing more.
Ended ==
  /\ ppc \in ProducerEnded
  /\ UNCHANGED vars

Next ==
  \/ Producer
  \/ \E w \in Workers : Consumer(w)
  \/ StopRequested \/ StopWithdrawn
  \/ Ended

\* Every thread keeps running: the search ends (finite grid, GPU fences get
\* signalled), a submission returns or raises, and a thread that can go on does.
\* Nothing is assumed of the stop predicate.  That a submission returns is an
\* assumption about the pool, too: only the wait for the answer has a timeout
\* (30 s), and CallEnds of StratumRpc names the exception, a pool that keeps the
\* connection up without reading from it; that round does not end.
Fairness ==
  /\ WF_vars(Producer)
  /\ \A w \in Workers : WF_vars(Consumer(w))

Safety == Init /\ [][Next]_vars
Spec   == Safety /\ Fairness

-----------------------------------------------------------------------------
(***************************************************************************)
(* Properties.                                                             *)
(***************************************************************************)

TypeOK ==
  /\ ppc \in ProducerRunning \cup ProducerEnded
  /\ yielded \in 0..MaxReturn
  /\ q \in Seq({None} \cup Candidates) /\ Len(q) <= QMax
  /\ unposted \subseteq Workers
  /\ genErr \in BOOLEAN /\ stop \in BOOLEAN
  /\ err \in {None} \cup Candidates
  /\ nSubmitted \in Nat
  /\ wpc \in [Workers -> Holding \cup {"get", "done"}]
  /\ item \in [Workers -> {None} \cup Candidates]
  /\ outcome \in [Candidates -> {"open", "submitted", "failed", "dropped"}]
  /\ attempts \in [Candidates -> Nat]
  /\ late \in [Workers -> Nat] /\ latePuts \in Nat

InQueue(c) == \E i \in 1..Len(q) : q[i] = c
HeldBy(c, w) == item[w] = c /\ wpc[w] \in Holding

\* No share is lost and none is duplicated on its way from the search to the
\* pool: a yielded candidate without an outcome is in exactly one place (the
\* producer's hands, one queue cell, one submit thread), and a decided one is
\* in none (the hand-over through q, miner.py 494-525).
InOnePlace(c) ==
  /\ \/ c = yielded /\ ppc = "put"
     \/ InQueue(c)
     \/ \E w \in Workers : HeldBy(c, w)
  /\ c = yielded /\ ppc = "put" =>
       ~InQueue(c) /\ \A w \in Workers : ~HeldBy(c, w)
  /\ InQueue(c) => \A w \in Workers : ~HeldBy(c, w)
  /\ \A i, j \in 1..Len(q) : q[i] = c /\ q[j] = c => i = j
  /\ \A v, w \in Workers : HeldBy(c, v) /\ HeldBy(c, w) => v = w

Nowhere(c) ==
  /\ ~InQueue(c)
  /\ \A w \in Workers : ~HeldBy(c, w)

Conservation ==
  \A c \in 1..yielded :
    IF outcome[c] = "open" THEN InOnePlace(c) ELSE Nowhere(c)

\* Every share is sent to the pool at most once, whatever the failures
\* (_submit_hit is never retried and q hands an item to one thread).
SentAtMostOnce == \A c \in Candidates : attempts[c] <= 1

\* When the call returns or raises, no submit thread is still running and no
\* share is undecided or left in the queue (miner.py 526-530): the state the
\* round's proofs were built from may be replaced.
NothingLeftBehind ==
  ppc \in ProducerEnded =>
    /\ q = <<>>
    /\ \A w \in Workers : wpc[w] = "done"
    /\ \A c \in 1..yielded : outcome[c] # "open"

\* After a stop request each submit thread begins at most one more submission,
\* the one it is already pacing (miner.py 500-502).
StopBound == stop => \A w \in Workers : late[w] <= 1

\* After the first failed submission the producer queues at most one more
\* candidate before it leaves the search loop (miner.py 522-525).
FailureBound == latePuts <= 1

Sentinels == {i \in 1..Len(q) : q[i] = None}
Finished  == {w \in Workers : wpc[w] = "done"}

\* One sentinel per thread, counted wherever it is: so the join can neither
\* wait forever nor leave a thread behind (miner.py 526-530).
SentinelAccounting ==
  Cardinality(unposted) + Cardinality(Sentinels) + Cardinality(Finished)
    = Cardinality(Workers)

\* What the caller of the round gets (miner.py 532-537).
result == IF ppc \in ProducerEnded THEN ppc ELSE "running"

Abstract == INSTANCE ShareRound WITH accepted <- yielded

\* The round implements the abstract promise of ShareRound: shares are decided
\* once each and the result is truthful; and as the abstract round always ends,
\* so does this one, with queues of any size and failing submissions: the
\* producer never waits forever on a full queue or in the join
\* (miner.py 443-537).
ImplementsRound == Abstract!RoundSpec
=============================================================================
