------------------------------ MODULE LiveMiner ------------------------------
(***************************************************************************)
(* The main thread of the live miner: the loop of 35_run_miner_live.py, or *)
(* PearlMiner.run(), over a session that announces work and may be lost,   *)
(* with the signal handler and the wall-clock timer that set stop_evt; and *)
(* PearlMiner's preflight, which derives and caches the matrices, builds   *)
(* the trees, and puts the job on the first evaluator that will take it:   *)
(* coopmat, Vulkan, OpenCL, and the CPU behind them.                       *)
(*                                                                         *)
(* What a search finds is nondeterministic here (ShareAssembly has the     *)
(* searches).  Continuous coopmat mining (CoopmatRounds, CoopmatPipeline)  *)
(* is one phase: it is entered, submits hits one by one, and returns when  *)
(* its predicate says so.                                                  *)
(***************************************************************************)
EXTENDS Naturals

CONSTANTS
  Job, NoJob,    \* what the session may announce; no job
  Key,           \* Key[j]: job_key; a new job id or target may come under the same
  Shape,         \* Shape[j] = <<m, n>>
  Tile,          \* Tile[j]: (h, w, r) of its patterns and rank
  PoolPattern,   \* the jobs whose patterns the coopmat kernel is written for
  WholeChunks,   \* the row counts whose matrices are whole Merkle chunks
  None,          \* no evaluator
  MaxHits        \* --max-hits

ASSUME LiveAssumption ==
  /\ NoJob \notin Job /\ PoolPattern \subseteq Job
  /\ MaxHits \in Nat \ {0}
  /\ \A j \in Job : Shape[j] \in Nat \X Nat
  /\ None \notin [tile : {Tile[j] : j \in Job}, job : Job \cup {NoJob}]

Kinds     == {"coopmat", "vk", "gpu"}
Evaluator == [tile : {Tile[j] : j \in Job}, job : Job \cup {NoJob}]

VARIABLES
  caller,    \* "script", or "run" for PearlMiner.run()
  coopmat,   \* --coopmat
  onDevice,  \* the trees are built from device buffers
  phase,     \* where the main thread is
  current,   \* session.current_work()
  lost,      \* the session is disconnected
  stop,      \* stop_evt
  work,      \* the job taken from the session
  ab,        \* shape of the cached A and B
  state,     \* MinerState: the job and the shape it was built for
  use,       \* which evaluators are still enabled
  ev,        \* the evaluators: the tile each is compiled for, the job it holds
  hits,      \* hits_submitted
  submitted, \* shares handed to the session
  fault      \* the exception that ended the main thread

session == <<current, lost>>
config  == <<caller, coopmat, onDevice>>
miner   == <<ab, state, use, ev>>
counts  == <<hits, submitted>>
vars    == <<config, phase, session, stop, work, miner, counts, fault>>

Over == phase \in {"ended", "crashed"}

Init ==
  /\ caller \in {"script", "run"} /\ coopmat \in BOOLEAN /\ onDevice \in BOOLEAN
  /\ phase = IF caller = "script" THEN "start" ELSE "loop"
  /\ current = NoJob /\ lost = FALSE /\ stop = FALSE /\ work = NoJob
  /\ ab = <<0, 0>> /\ state = [job |-> NoJob, ab |-> <<0, 0>>]
  /\ use \in {u \in [Kinds -> BOOLEAN] : u["coopmat"] = coopmat}
  /\ ev = [e \in Kinds |-> None]
  /\ hits = 0 /\ submitted = 0 /\ fault = "none"

\* An exception that nothing catches ends the main thread.
Crash(what) == phase' = "crashed" /\ fault' = what
Go(p)       == phase' = p /\ UNCHANGED fault

-----------------------------------------------------------------------------
(***************************************************************************)
(* The session, the signal handler, the timer.                             *)
(***************************************************************************)
Announce ==
  /\ ~lost /\ ~Over
  /\ \E j \in Job : current' = j
  /\ UNCHANGED <<config, phase, lost, stop, work, miner, counts, fault>>

Disconnect ==
  /\ ~lost
  /\ lost' = TRUE
  /\ UNCHANGED <<config, phase, current, stop, work, miner, counts, fault>>

\* _stop_handler, and _cap_timer after observe-seconds.
SetStop ==
  /\ caller = "script" /\ ~stop
  /\ stop' = TRUE
  /\ UNCHANGED <<config, phase, session, work, miner, counts, fault>>

-----------------------------------------------------------------------------
(***************************************************************************)
(* The loop.                                                               *)
(***************************************************************************)

\* The loop's condition is false: run() knows no stop_evt.
Stopping == lost \/ (caller = "script" /\ stop)

Loop ==
  /\ phase = "loop"
  /\ Go(IF Stopping THEN "ended" ELSE "wait")
  /\ UNCHANGED <<config, session, stop, work, miner, counts>>

\* wait_for_work: the latest work, a timeout when there has been none yet, or
\* ConnectionError.  The script's first call only serves to print the work.
WaitForWork ==
  /\ phase \in {"start", "wait"}
  /\ IF lost \/ (current = NoJob /\ (caller = "run" \/ phase = "start"))
       THEN Go("ended") /\ UNCHANGED work
     ELSE IF current = NoJob \/ phase = "start"
       THEN Go("loop") /\ UNCHANGED work
     ELSE Go("got") /\ work' = current
  /\ UNCHANGED <<config, session, stop, miner, counts>>

\* The script runs the preflight for every search, run() when the key changed.
TakeJob ==
  /\ phase = "got"
  /\ \/ caller = "script" /\ stop /\ Go("ended")
     \/ caller = "script" /\ ~stop /\ Go(IF coopmat THEN "enter" ELSE "matrices")
     \/ /\ caller = "run"
        /\ Go(IF state.job = NoJob \/ Key[work] # Key[state.job] THEN "matrices" ELSE "search")
  /\ UNCHANGED <<config, session, stop, work, miner, counts>>

-----------------------------------------------------------------------------
(***************************************************************************)
(* PearlMiner._preflight.                                                  *)
(***************************************************************************)

\* A and B are derived again when the shape of either differs; the trees from
\* device buffers when A is whole chunks, and then B must be, too.
Matrices ==
  /\ phase = "matrices"
  /\ ab' = IF ab[1] # Shape[work][1] \/ ab[2] # Shape[work][2] THEN Shape[work] ELSE ab
  /\ IF onDevice /\ ab'[1] \in WholeChunks /\ ab'[2] \notin WholeChunks
       THEN Crash("trees") ELSE Go("coopmat")
  /\ UNCHANGED <<config, session, stop, work, state, use, ev, counts>>

\* The evaluator for this tile: the one there is, or a new one.
Built(kind) ==
  IF ev[kind] # None /\ ev[kind].tile = Tile[work] THEN ev[kind]
  ELSE [tile |-> Tile[work], job |-> NoJob]

Fresh(kind) == ev[kind] # Built(kind)

\* set_job worked: the preflight returns the new MinerState.
Holds(kind) ==
  /\ ev' = [ev EXCEPT ![kind] = [Built(kind) EXCEPT !.job = work]]
  /\ state' = [job |-> work, ab |-> ab]
  /\ Go("search") /\ UNCHANGED use

\* Fault: the evaluator that failed is disabled but kept.
DroppedKept(kind) == ev

\* The evaluator that failed is forgotten.
Dropped(kind) == [ev EXCEPT ![kind] = None]

\* It cannot be built, or does not take the job: disabled for good, and the
\* next one is tried.
FallThrough(kind, next) ==
  /\ use' = [use EXCEPT ![kind] = FALSE]
  /\ ev' = Dropped(kind)
  /\ Go(next) /\ UNCHANGED state

Skip(kind, next) == ~use[kind] /\ Go(next) /\ UNCHANGED <<use, ev, state>>

\* _ensure_jackpot_coopmat and set_job; both failures are caught.
PreflightCoopmat ==
  /\ phase = "coopmat"
  /\ \/ Skip("coopmat", "vk")
     \/ use["coopmat"] /\ work \in PoolPattern /\ Holds("coopmat")
     \/ use["coopmat"] /\ FallThrough("coopmat", "vk")
  /\ UNCHANGED <<config, session, stop, work, ab, counts>>

\* _ensure_jackpot_vk and set_job; what set_job raises is not caught.
PreflightVk ==
  /\ phase = "vk"
  /\ \/ Skip("vk", "gpu")
     \/ use["vk"] /\ Holds("vk")
     \/ use["vk"] /\ Fresh("vk") /\ FallThrough("vk", "gpu")
     \/ use["vk"] /\ Crash("set_job") /\ ev' = [ev EXCEPT !["vk"] = Built("vk")]
        /\ UNCHANGED <<use, state>>
  /\ UNCHANGED <<config, session, stop, work, ab, counts>>

\* _ensure_jackpot_gpu and set_job; neither is guarded.  Without it the CPU
\* searches from the MinerState.
PreflightGpu ==
  /\ phase = "gpu"
  /\ \/ use["gpu"] /\ Holds("gpu")
     \/ /\ use["gpu"] /\ Crash("set_job")
        /\ ev' \in {ev, [ev EXCEPT !["gpu"] = Built("gpu")]} /\ UNCHANGED <<use, state>>
     \/ /\ ~use["gpu"] /\ Go("search") /\ state' = [job |-> work, ab |-> ab]
        /\ UNCHANGED <<use, ev>>
  /\ UNCHANGED <<config, session, stop, work, ab, counts>>

-----------------------------------------------------------------------------
(***************************************************************************)
(* PearlMiner._search_one_job and _submit_hit.                             *)
(***************************************************************************)

\* The evaluator a search uses: the first there is.
Chosen ==
  IF ev["coopmat"] # None THEN "coopmat"
  ELSE IF ev["vk"] # None THEN "vk"
  ELSE IF ev["gpu"] # None THEN "gpu" ELSE "cpu"

\* Fault: the limit is compared before the hit is counted.
ReachedLate(n) == n - 1 >= MaxHits

Reached(n) == n >= MaxHits

\* _on_event("hit_found"): the script counts, and stops at --max-hits.
Count ==
  /\ hits' = IF caller = "script" THEN hits + 1 ELSE hits
  /\ stop' = (stop \/ (caller = "script" /\ Reached(hits')))

\* The search runs to a hit, to the end of the grid or to max_attempts;
\* nothing interrupts it.  A coopmat round (run() only) submits its own hits.
Search ==
  /\ phase = "search"
  /\ \/ Go("loop") /\ UNCHANGED <<stop, hits>>
     \/ Chosen # "coopmat" /\ Go("found") /\ Count
     \/ Chosen # "cpu" /\ Crash("search") /\ UNCHANGED <<stop, hits>>
  /\ UNCHANGED <<config, session, work, miner, submitted>>

\* build_plain_proof and submit_share; an answer, or what the call raises.
SubmitHit ==
  /\ phase = "found"
  /\ Go("loop") \/ Crash("submit")
  /\ submitted' = IF caller = "script" THEN submitted + 1 ELSE submitted
  /\ UNCHANGED <<config, session, stop, work, miner, hits>>

-----------------------------------------------------------------------------
(***************************************************************************)
(* PearlMiner.mine_coopmat_continuous, as the script calls it.             *)
(***************************************************************************)

\* The evaluator there is, whatever its tile, or a new one; then the first
\* preflight.  What either raises ends the script.
EnterCoopmat ==
  /\ phase = "enter"
  /\ LET e == IF ev["coopmat"] # None THEN ev["coopmat"]
              ELSE [tile |-> Tile[work], job |-> NoJob]
     IN \/ /\ ev["coopmat"] = None
           /\ use' = [use EXCEPT !["coopmat"] = FALSE]
           /\ Crash("no_evaluator") /\ UNCHANGED <<ev, state>>
        \/ /\ use["coopmat"]
           /\ ev' = [ev EXCEPT !["coopmat"] = e] /\ Crash("set_job")
           /\ UNCHANGED <<use, state>>
        \/ /\ use["coopmat"] /\ work \in PoolPattern
           /\ ev' = [ev EXCEPT !["coopmat"] = [e EXCEPT !.job = work]]
           /\ state' = [job |-> work, ab |-> Shape[work]]
           /\ Go("mining") /\ UNCHANGED use
  /\ UNCHANGED <<config, session, stop, work, ab, counts>>

\* Fault: the predicate does not look at stop_evt.
ShouldStopDeaf == lost \/ (current # NoJob /\ Key[current] # Key[work])

\* _should_stop
ShouldStop == stop \/ lost \/ (current # NoJob /\ Key[current] # Key[work])

\* One share of a round: counted, then submitted.  ConnectionError is caught.
MiningHit ==
  /\ phase = "mining" /\ ~ShouldStop
  /\ \/ Go("mining") /\ Count
     \/ Crash("submit") /\ Count
     \/ Go("ended") /\ hits' = hits + 1 /\ stop' = TRUE
  /\ submitted' = submitted + 1
  /\ UNCHANGED <<config, session, work, miner>>

\* A preflight of a later round, or a sweep, raises.
MiningFails ==
  /\ phase = "mining" /\ Crash("round")
  /\ UNCHANGED <<config, session, stop, work, miner, counts>>

MiningReturns ==
  /\ phase = "mining" /\ ShouldStop
  /\ Go("loop")
  /\ UNCHANGED <<config, session, stop, work, miner, counts>>

-----------------------------------------------------------------------------
Main ==
  \/ Loop \/ WaitForWork \/ TakeJob
  \/ Matrices \/ PreflightCoopmat \/ PreflightVk \/ PreflightGpu
  \/ Search \/ SubmitHit
  \/ EnterCoopmat \/ MiningReturns

Next == Announce \/ Disconnect \/ SetStop \/ Main \/ MiningHit \/ MiningFails

\* The main thread runs, every search ends, every submission returns or raises
\* (CallEnds of StratumRpc: the pool reads on), and the timer fires.
Spec == Init /\ [][Next]_vars /\ WF_vars(Main) /\ WF_vars(SetStop)

-----------------------------------------------------------------------------
(***************************************************************************)
(* Properties.                                                             *)
(***************************************************************************)

\* The types.
TypeOK ==
  /\ caller \in {"script", "run"} /\ coopmat \in BOOLEAN /\ onDevice \in BOOLEAN
  /\ phase \in {"start", "loop", "wait", "got", "enter", "mining", "matrices",
                "coopmat", "vk", "gpu", "search", "found", "ended", "crashed"}
  /\ current \in Job \cup {NoJob} /\ work \in Job \cup {NoJob}
  /\ lost \in BOOLEAN /\ stop \in BOOLEAN
  /\ ab \in Nat \X Nat /\ state \in [job : Job \cup {NoJob}, ab : Nat \X Nat]
  /\ use \in [Kinds -> BOOLEAN] /\ ev \in [Kinds -> Evaluator \cup {None}]
  /\ hits \in Nat /\ submitted \in Nat
  /\ fault \in {"none", "trees", "set_job", "search", "submit", "no_evaluator", "round"}

\* A search, and the proof of what it finds, is for the work taken from the
\* session: the evaluator it uses holds that work's job key, for its tile, and
\* so does the MinerState, with matrices of its shape; whichever evaluators
\* failed before, whatever jobs came and went (miner.py 220-276, 281-394,
\* 396-441, 649-667).
EvaluatorHoldsJob ==
  phase \in {"search", "found"} =>
    /\ Key[state.job] = Key[work] /\ state.ab = Shape[state.job]
    /\ Chosen # "cpu" => /\ ev[Chosen].job = state.job
                         /\ ev[Chosen].tile = Tile[state.job]
    /\ caller = "script" => state.job = work

\* Without coopmat, where one thread searches and submits, the script never
\* hands the session more shares than --max-hits, and has counted every share
\* before it is handed over (35_run_miner_live.py 124-154, 218-312).
NoShareTooMany ==
  caller = "script" /\ ~coopmat =>
                       /\ submitted <= hits /\ hits <= MaxHits
                       /\ hits - submitted = IF phase = "found" THEN 1 ELSE 0

\* Once told to stop, or without its session, the main thread ends; the script
\* always does, in the wall-clock time it was given
\* (35_run_miner_live.py 195-217, 218-312, miner.py 649-667).
StopEnds ==
  /\ Stopping ~> Over
  /\ caller = "script" => <>Over
=============================================================================
