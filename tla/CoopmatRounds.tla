---------------------------- MODULE CoopmatRounds ----------------------------
(***************************************************************************)
(* Continuous coopmat mining: the outer loop of the live miner calls       *)
(* PearlMiner.mine_coopmat_continuous once per pool job; each round        *)
(* searches one job slot of the GPU library tile by tile                   *)
(* (JackpotCoopmat.search_all_stream) while a prefetch thread runs the     *)
(* next round's preflight and builds its matrices into the other job slot  *)
(* (_preflight_into, jcm_set_job_slot).                                    *)
(*                                                                         *)
(* The submit threads behind the search are those of CoopmatPipeline; here *)
(* they only matter in that one of them may fail (`if err: break') and in  *)
(* that a round waits for them.  The proof work on a tile's contents is    *)
(* abstracted to a number of hits.                                         *)
(***************************************************************************)
EXTENDS Naturals, Sequences

CONSTANTS
  NSLOT,       \* search slots: tiles in flight at once (2 in the library)
  NJOB,        \* job slots (2 in the library)
  NTiles,      \* tiles of one sweep: ceil(nbands * nblocks / chunk_wg)
  MaxReturn,   \* coopmat_shares_per_round
  MaxHits,     \* hit records a tile can return (4096 in the code)
  TileHits,    \* most hits a tile can have, for the runs
  Seed,        \* miner seeds; next_seed() returns any of them
  Job,         \* job keys the pool may announce
  NoSeed,      \* no seed yet
  NoJob        \* no job yet

ASSUME RoundsAssumption ==
  /\ NSLOT \in Nat \ {0}
  /\ NJOB \in Nat /\ NJOB >= 2
  /\ NTiles \in Nat /\ MaxReturn \in Nat /\ MaxHits \in Nat /\ TileHits \in Nat
  /\ Job # {} /\ NoJob \notin Job /\ NoSeed \notin Seed

SearchSlot == 0..NSLOT - 1
JobSlot    == 0..NJOB - 1

VARIABLES
  poolJob,     \* job key of session.current_work()
  stopEvt,     \* stop_evt, or the session is disconnected
  mpc,         \* where the mining thread is
  work,        \* job key of the work the call was made with
  cur,         \* job slot the round searches
  state,       \* seed of the MinerState the round's proofs are built from
  nextIdx,     \* next tile to submit
  fifo,        \* tiles in flight, in submission order: [slot, tile]
  yielded,     \* shares this round's search has yielded
  batch,       \* the tile being yielded: its slot and the hits left
  stopSeen,    \* the predicate's value when this tile was collected
  pf,          \* the prefetch thread: where it is, and its seed
  slot,        \* contents of the job slots: PA, PB, KEY
  shape,       \* whose m, n, nblocks the library context holds
  gpu,         \* tile in each search slot
  hit,         \* hit buffer of each search slot, written by the GPU
  rec,         \* host copy of it, filled by jcm_search_collect
  swept,       \* history: tiles collected this round
  cutShort,    \* history: the predicate was seen True this round
  lateTiles    \* history: tiles submitted since stop_evt was set, up to NSLOT + 1

pool   == <<poolJob, stopEvt>>
sweep  == <<nextIdx, fifo, yielded, batch, stopSeen, swept, cutShort>>
device == <<gpu, hit, rec>>
vars   == <<pool, mpc, work, cur, state, sweep, pf, slot, shape, device, lateTiles>>

Empty == [st |-> "empty", seed |-> NoSeed, job |-> NoJob]
NoHit == [seed |-> NoSeed, job |-> NoJob, tile |-> 0, n |-> 0]
Idle  == [st |-> "idle", job |-> 0, tile |-> 0, shape |-> NoJob]

Init ==
  /\ poolJob \in Job /\ stopEvt = FALSE
  /\ mpc = "out" /\ work = NoJob /\ cur = 0 /\ state = NoSeed
  /\ nextIdx = 0 /\ fifo = <<>> /\ yielded = 0 /\ stopSeen = FALSE
  /\ batch = [slot |-> 0, left |-> 0]
  /\ swept = 0 /\ cutShort = FALSE /\ lateTiles = 0
  /\ pf = [st |-> "off", seed |-> NoSeed]
  /\ slot = [j \in JobSlot |-> Empty] /\ shape = NoJob
  /\ gpu = [s \in SearchSlot |-> Idle]
  /\ hit = [s \in SearchSlot |-> NoHit]
  /\ rec = [s \in SearchSlot |-> NoHit]

\* Fault: the predicate does not look at the stop event.
ShouldStopJobOnly == poolJob # work

\* Fault: the predicate does not look at the pool's job.
ShouldStopEventOnly == stopEvt

\* _should_stop of the live script.
ShouldStop == stopEvt \/ poolJob # work

\* Fault: there is only one job slot in use.
NextSlotSame(j) == j

\* Fault: the slot number does not wrap around.
NextSlotNoWrap(j) == j + 1

\* nxt = (cur + 1) % njob
NextSlot(j) == (j + 1) % NJOB

-----------------------------------------------------------------------------
(***************************************************************************)
(* jcm_set_job_slot, in two steps: the old buffers are freed and the       *)
(* context's shape is overwritten; the new contents are complete.          *)
(***************************************************************************)
BeginSetJob(j) ==
  /\ slot' = [slot EXCEPT ![j] = [st |-> "building", seed |-> NoSeed, job |-> NoJob]]
  /\ shape' = work

EndSetJob(j, s) ==
  /\ slot' = [slot EXCEPT ![j] = [st |-> "ready", seed |-> s, job |-> work]]
  /\ UNCHANGED shape

\* jcm_search_submit: the tile will read job slot cur and the context's shape.
SubmitTile(s) ==
  /\ gpu' = [gpu EXCEPT ![s] =
               [st |-> "running", job |-> cur, tile |-> nextIdx, shape |-> shape]]
  /\ nextIdx' = nextIdx + 1
  /\ lateTiles' = IF stopEvt /\ lateTiles <= NSLOT THEN lateTiles + 1 ELSE lateTiles
  /\ UNCHANGED <<hit, rec>>

-----------------------------------------------------------------------------
(***************************************************************************)
(* The mining thread: entering the call and round 0's blocking preflight.  *)
(***************************************************************************)
EnterCall ==
  /\ mpc = "out"
  /\ ~stopEvt
  /\ mpc' = "derive0"
  /\ work' = poolJob
  /\ cur' = 0
  /\ state' \in Seed
  /\ UNCHANGED <<pool, sweep, pf, slot, shape, device, lateTiles>>

BeginSetJob0 ==
  /\ mpc = "derive0"
  /\ mpc' = "set0"
  /\ BeginSetJob(cur)
  /\ UNCHANGED <<pool, work, cur, state, sweep, pf, device, lateTiles>>

EndSetJob0 ==
  /\ mpc = "set0"
  /\ mpc' = "top"
  /\ EndSetJob(cur, state)
  /\ UNCHANGED <<pool, work, cur, state, sweep, pf, device, lateTiles>>

Preflight0Fails ==
  /\ mpc \in {"derive0", "set0"}
  /\ mpc' = "gone"
  /\ UNCHANGED <<pool, work, cur, state, sweep, pf, slot, shape, device, lateTiles>>

\* `while not should_stop()' ends the call ...
LeaveCall ==
  /\ mpc = "top"
  /\ ShouldStop
  /\ mpc' = "out"
  /\ UNCHANGED <<pool, work, cur, state, sweep, pf, slot, shape, device, lateTiles>>

\* ... or starts a round: draw the next seed, start the prefetch thread, and
\* enter search_all_stream.
StartRound ==
  /\ mpc = "top"
  /\ ~ShouldStop
  /\ \E s \in Seed : pf' = [st |-> "derive", seed |-> s]
  /\ mpc' = "prime"
  /\ nextIdx' = 0 /\ fifo' = <<>> /\ yielded' = 0
  /\ swept' = 0 /\ cutShort' = FALSE
  /\ UNCHANGED <<pool, work, cur, state, batch, stopSeen, slot, shape, device,
                 lateTiles>>

-----------------------------------------------------------------------------
(***************************************************************************)
(* search_all_stream.                                                      *)
(***************************************************************************)

\* slot = next_idx % _NSLOT
PrimeSlot == nextIdx % NSLOT

\* Prime the search slots; the predicate is not consulted.
Prime ==
  /\ mpc = "prime"
  /\ nextIdx < NTiles
  /\ Len(fifo) < NSLOT
  /\ SubmitTile(PrimeSlot)
  /\ fifo' = Append(fifo, [slot |-> PrimeSlot, tile |-> nextIdx])
  /\ UNCHANGED <<pool, mpc, work, cur, state, yielded, batch, stopSeen, swept,
                 cutShort, pf, slot, shape>>

Primed ==
  /\ mpc = "prime"
  /\ nextIdx >= NTiles \/ Len(fifo) >= NSLOT
  /\ mpc' = "collect"
  /\ UNCHANGED <<pool, work, cur, state, sweep, pf, slot, shape, device, lateTiles>>

Least(a, b) == IF a <= b THEN a ELSE b

\* fifo.popleft(), _collect(slot): wait for the tile's fence, copy its hits to
\* the host, and look at the predicate.
Collect ==
  /\ mpc = "collect"
  /\ fifo # <<>>
  /\ gpu[Head(fifo).slot].st = "done"
  /\ LET s == Head(fifo).slot IN
       /\ rec' = [rec EXCEPT ![s] = [hit[s] EXCEPT !.n = Least(@, MaxHits)]]
       /\ gpu' = [gpu EXCEPT ![s] = Idle]
       /\ batch' = [slot |-> s, left |-> Least(hit[s].n, MaxHits)]
  /\ fifo' = Tail(fifo)
  /\ stopSeen' = ShouldStop
  /\ cutShort' = (cutShort \/ ShouldStop)
  /\ swept' = swept + 1
  /\ mpc' = "refill"
  /\ UNCHANGED <<pool, work, cur, state, nextIdx, yielded, pf, slot, shape, hit,
                 lateTiles>>

\* Fault: the slot is refilled without looking at the predicate.
CanRefillAlways == nextIdx < NTiles /\ yielded < MaxReturn

\* Fault: the last tile is forgotten.
CanRefillOffByOne == nextIdx + 1 < NTiles /\ yielded < MaxReturn /\ ~stopSeen

CanRefill == nextIdx < NTiles /\ yielded < MaxReturn /\ ~stopSeen

\* Refill the slot before its hits are handed out; drop them when stopping.
Refill ==
  /\ mpc = "refill"
  /\ \/ /\ CanRefill
        /\ SubmitTile(batch.slot)
        /\ fifo' = Append(fifo, [slot |-> batch.slot, tile |-> nextIdx])
     \/ /\ ~CanRefill
        /\ UNCHANGED <<nextIdx, fifo, device, lateTiles>>
  /\ mpc' = IF stopSeen THEN "collect" ELSE "yield"
  /\ UNCHANGED <<pool, work, cur, state, yielded, batch, stopSeen, swept,
                 cutShort, pf, slot, shape>>

\* One record becomes a Candidate and is queued for the submit threads.
YieldShare ==
  /\ mpc = "yield"
  /\ batch.left > 0
  /\ yielded < MaxReturn
  /\ yielded' = yielded + 1
  /\ batch' = [batch EXCEPT !.left = @ - 1]
  /\ UNCHANGED <<pool, mpc, work, cur, state, nextIdx, fifo, stopSeen, swept,
                 cutShort, pf, slot, shape, device, lateTiles>>

\* The consumer of the generator saw a submit error and left the loop: tiles
\* may be in flight.
AbandonSearch ==
  /\ mpc = "yield"
  /\ yielded > 0
  /\ mpc' = "raise"
  /\ UNCHANGED <<pool, work, cur, state, sweep, pf, slot, shape, device, lateTiles>>

BatchDone ==
  /\ mpc = "yield"
  /\ batch.left = 0 \/ yielded >= MaxReturn
  /\ mpc' = "collect"
  /\ UNCHANGED <<pool, work, cur, state, sweep, pf, slot, shape, device, lateTiles>>

\* `while fifo' is over; the submit threads are joined and may have failed.
SweepEnds ==
  /\ mpc = "collect"
  /\ fifo = <<>>
  /\ mpc' \in {"join", "raise"}
  /\ UNCHANGED <<pool, work, cur, state, sweep, pf, slot, shape, device, lateTiles>>

\* jcm_search_submit or jcm_search_collect returns rc # 0.
SearchRaises ==
  /\ mpc \in {"prime", "refill"} \/ (mpc = "collect" /\ fifo # <<>>)
  /\ mpc' = "raise"
  /\ UNCHANGED <<pool, work, cur, state, sweep, pf, slot, shape, device, lateTiles>>

-----------------------------------------------------------------------------
(***************************************************************************)
(* The end of a round: pf.join(), then promote the prebuilt slot.          *)
(***************************************************************************)

\* Fault: the slot is promoted, the state of its proofs is not.
PromoteStateStale ==
  /\ mpc = "join"
  /\ pf.st = "done"
  /\ mpc' = "top"
  /\ cur' = NextSlot(cur)
  /\ pf' = [st |-> "off", seed |-> NoSeed]
  /\ UNCHANGED <<pool, work, state, sweep, slot, shape, device, lateTiles>>

\* Fault: the prefetch thread is not joined.
PromoteNoJoin ==
  /\ mpc = "join"
  /\ mpc' = "top"
  /\ state' = pf.seed
  /\ cur' = NextSlot(cur)
  /\ pf' = [st |-> "off", seed |-> NoSeed]
  /\ UNCHANGED <<pool, work, sweep, slot, shape, device, lateTiles>>

Promote ==
  /\ mpc = "join"
  /\ pf.st = "done"
  /\ mpc' = "top"
  /\ state' = pf.seed
  /\ cur' = NextSlot(cur)
  /\ pf' = [st |-> "off", seed |-> NoSeed]
  /\ UNCHANGED <<pool, work, sweep, slot, shape, device, lateTiles>>

\* The prefetch failed (its exception is raised after a good round), or the
\* round did; the call raises and the caller does not mine again.
RoundRaises ==
  /\ \/ mpc = "join" /\ pf.st = "failed"
     \/ mpc = "raise" /\ pf.st \in {"done", "failed"}
  /\ mpc' = "gone"
  /\ UNCHANGED <<pool, work, cur, state, sweep, pf, slot, shape, device, lateTiles>>

Miner ==
  \/ EnterCall \/ BeginSetJob0 \/ EndSetJob0 \/ Preflight0Fails
  \/ LeaveCall \/ StartRound
  \/ Prime \/ Primed \/ Collect \/ Refill \/ YieldShare \/ AbandonSearch
  \/ BatchDone \/ SweepEnds \/ SearchRaises
  \/ Promote \/ RoundRaises

-----------------------------------------------------------------------------
(***************************************************************************)
(* The prefetch thread (_prefetch).                                        *)
(***************************************************************************)
PrefetchBeginSetJob ==
  /\ pf.st = "derive"
  /\ pf' = [pf EXCEPT !.st = "set"]
  /\ BeginSetJob(NextSlot(cur))
  /\ UNCHANGED <<pool, mpc, work, cur, state, sweep, device, lateTiles>>

PrefetchEndSetJob ==
  /\ pf.st = "set"
  /\ pf' = [pf EXCEPT !.st = "done"]
  /\ EndSetJob(NextSlot(cur), pf.seed)
  /\ UNCHANGED <<pool, mpc, work, cur, state, sweep, device, lateTiles>>

PrefetchFails ==
  /\ pf.st \in {"derive", "set"}
  /\ pf' = [pf EXCEPT !.st = "failed"]
  /\ UNCHANGED <<pool, mpc, work, cur, state, sweep, slot, shape, device, lateTiles>>

Prefetch == PrefetchBeginSetJob \/ PrefetchEndSetJob \/ PrefetchFails

-----------------------------------------------------------------------------
(***************************************************************************)
(* The GPU finishes a tile and signals its fence; the pool and the user.   *)
(***************************************************************************)
FinishTile(s) ==
  /\ gpu[s].st = "running"
  /\ gpu' = [gpu EXCEPT ![s].st = "done"]
  /\ \E n \in 0..TileHits :
       hit' = [hit EXCEPT ![s] = [seed |-> slot[gpu[s].job].seed,
                                  job  |-> gpu[s].shape,
                                  tile |-> gpu[s].tile, n |-> n]]
  /\ UNCHANGED <<pool, mpc, work, cur, state, sweep, pf, slot, shape, rec, lateTiles>>

NewJob ==
  /\ \E j \in Job \ {poolJob} : poolJob' = j
  /\ UNCHANGED <<stopEvt, mpc, work, cur, state, sweep, pf, slot, shape, device,
                 lateTiles>>

Stop ==
  /\ ~stopEvt
  /\ stopEvt' = TRUE
  /\ UNCHANGED <<poolJob, mpc, work, cur, state, sweep, pf, slot, shape, device,
                 lateTiles>>

\* The live script is over.
Over ==
  /\ mpc = "gone" \/ (mpc = "out" /\ stopEvt)
  /\ UNCHANGED vars

Next ==
  \/ Miner
  \/ Prefetch
  \/ \E s \in SearchSlot : FinishTile(s)
  \/ NewJob \/ Stop \/ Over

\* Threads run, GPU fences are signalled, and each round's submit threads are
\* joined, which they are unless the pool stops reading (Fairness of
\* CoopmatPipeline).  Otherwise the pool and the user owe nothing.
Fairness ==
  /\ WF_vars(Miner)
  /\ WF_vars(Prefetch)
  /\ \A s \in SearchSlot : WF_vars(FinishTile(s))

Safety == Init /\ [][Next]_vars
Spec   == Safety /\ Fairness

-----------------------------------------------------------------------------
(***************************************************************************)
(* Properties.                                                             *)
(***************************************************************************)
InSweep == {"prime", "collect", "refill", "yield"}
MinerPc == {"out", "derive0", "set0", "top", "join", "raise", "gone"} \cup InSweep

Tile         == 0..NTiles
TileInFlight == [slot : SearchSlot, tile : Tile]
TileBatch    == [slot : SearchSlot, left : Nat]
Thread       == [st : {"off", "derive", "set", "done", "failed"},
                 seed : Seed \cup {NoSeed}]
SlotContents == [st : {"empty", "building", "ready"}, seed : Seed \cup {NoSeed},
                 job : Job \cup {NoJob}]
GpuTile      == [st : {"idle", "running", "done"}, job : JobSlot, tile : Tile,
                 shape : Job \cup {NoJob}]
HitBuffer    == [seed : Seed \cup {NoSeed}, job : Job \cup {NoJob}, tile : Tile,
                 n : Nat]

TypeOK ==
  /\ poolJob \in Job /\ stopEvt \in BOOLEAN
  /\ mpc \in MinerPc
  /\ work \in Job \cup {NoJob} /\ state \in Seed \cup {NoSeed}
  /\ cur \in JobSlot
  /\ nextIdx \in Tile /\ swept \in Tile /\ yielded \in 0..MaxReturn
  /\ fifo \in Seq(TileInFlight)
  /\ batch \in TileBatch
  /\ stopSeen \in BOOLEAN /\ cutShort \in BOOLEAN /\ lateTiles \in Nat
  /\ pf \in Thread
  /\ slot \in [JobSlot -> SlotContents]
  /\ shape \in Job \cup {NoJob}
  /\ gpu \in [SearchSlot -> GpuTile]
  /\ hit \in [SearchSlot -> HitBuffer]
  /\ rec \in [SearchSlot -> HitBuffer]

\* Every share handed to the submit threads was found in the matrices its proof
\* will be built from, on a grid of the job's own shape, and belongs to the
\* tile just collected, although its search slot is already searching the next
\* tile (jackpot_coopmat.py 316-342, miner.py 609-627).
SharesMatchState ==
  mpc = "yield" /\ batch.left > 0 =>
    LET r == rec[batch.slot] IN
      r.seed = state /\ r.job = work /\ r.tile = swept - 1 /\ batch.left <= r.n

InFlight(i) == gpu[fifo[i].slot].tile = fifo[i].tile /\ gpu[fifo[i].slot].st # "idle"

\* The grid is swept in order, no tile twice and none skipped: those in flight
\* are the ones after the last collected, each in a search slot of its own; a
\* round neither stopped nor full has swept all of it; and no tile is in flight
\* outside a sweep, unless the call is raising, so that the next round may
\* rebuild this round's job slot (jackpot_coopmat.py 307-340,
\* jackpot_coopmat_vk.cpp 227-231).
SweepExact ==
  /\ mpc \in InSweep =>
       /\ nextIdx = swept + Len(fifo)
       /\ \A i \in 1..Len(fifo) :
            /\ fifo[i].tile = swept + i - 1 /\ InFlight(i)
            /\ \A k \in 1..Len(fifo) : fifo[k].slot = fifo[i].slot => k = i
  /\ mpc = "join" => cutShort \/ yielded >= MaxReturn \/ swept = NTiles
  /\ mpc \in {"out", "derive0", "set0", "top", "join"} =>
       \A s \in SearchSlot : gpu[s].st = "idle"

\* After the stop event at most the slots being primed are still submitted:
\* the stop is honoured within one tile per search slot (miner.py 456-458).
StopWithinTiles == lateTiles <= NSLOT

\* The job slots are used as jcm_set_job_slot's contract demands: none is
\* rebuilt while a tile reads it, none is read before it is built.
Contract == INSTANCE JobSlots WITH
  content <- [j \in JobSlot |-> slot[j].st],
  readers <- [j \in JobSlot |->
                {s \in SearchSlot : gpu[s].st = "running" /\ gpu[s].job = j}]

KeepsContract == Contract!SlotsSpec

\* A stop request ends the mining, whatever the search, the prefetch and the
\* submit threads were doing, if their submissions return
\* (35_run_miner_live.py 278-287).
StopEndsMining == stopEvt ~> mpc \in {"out", "gone"}

\* A job that stays is the one mined, unless the mining is over: the caller
\* re-enters with the new work (miner.py 591-592, 35_run_miner_live.py 278-298).
JobFollowed ==
  \A j \in Job :
    <>[](poolJob = j) => <>[](work = j \/ stopEvt \/ mpc = "gone")
=============================================================================
