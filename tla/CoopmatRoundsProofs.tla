------------------------- MODULE CoopmatRoundsProofs -------------------------
(***************************************************************************)
(* Proofs about CoopmatRounds, for every number of search slots and tiles, *)
(* two or more job slots and every set of seeds and jobs.                  *)
(*                                                                         *)
(* None of the run's invariants is inductive.  That a share belongs to the *)
(* round's matrices depends on what the job slot held when its tile was    *)
(* finished, on who may write that slot meanwhile, on which tiles the      *)
(* sweep waits for and on what the host copied when it stopped waiting;    *)
(* IndInv says these together, one named part each.                        *)
(***************************************************************************)
EXTENDS CoopmatRounds, TLAPS

\* The mining thread is outside a round, or inside one.
Outside == {"out", "derive0", "set0", "top"}
InRound == InSweep \cup {"join", "raise"}

\* The prefetch thread exists exactly while a round runs, and has ended when
\* the call has: nothing writes a job slot behind the caller's back.
\* Inside the call there is a job to mine and a state to mine it with.
ThreadsOK ==
  /\ mpc # "out" => work \in Job /\ state \in Seed
  /\ pf.st # "off" => pf.seed \in Seed
  /\ mpc \in Outside => pf.st = "off"
  /\ mpc \in InRound => pf.st # "off"
  /\ mpc = "gone" => pf.st \notin {"derive", "set"}

\* What a job slot holds once it is built.
Built(seed, job) == [st |-> "ready", seed |-> seed, job |-> job]

\* The round's slot holds the matrices of the state its proofs are built from;
\* the other one is being built, or holds those of the next state.
SlotsOK ==
  /\ mpc = "set0" => slot[cur].st = "building"
  /\ mpc \in {"top"} \cup InRound => slot[cur] = Built(state, work)
  /\ mpc \in {"set0", "top"} \cup InRound => shape = work
  /\ pf.st = "set" => slot[NextSlot(cur)].st = "building"
  /\ mpc \in InRound /\ pf.st = "done" => slot[NextSlot(cur)] = Built(pf.seed, work)

\* A tile on the GPU reads the round's slot on the grid of the round's job, is
\* awaited by the sweep, and what it found carries the round's state.
DeviceOK ==
  \A s \in SearchSlot : gpu[s].st # "idle" =>
    /\ mpc \in InSweep \cup {"raise"} => gpu[s].job = cur /\ gpu[s].shape = work
    /\ mpc \in InSweep =>
         /\ \E i \in 1..Len(fifo) : fifo[i].slot = s
         /\ gpu[s].st = "done" =>
              hit[s].seed = state /\ hit[s].job = work /\ hit[s].tile = gpu[s].tile

\* While the search slots are primed they are taken in order.
PrimeOK ==
  mpc = "prime" =>
    /\ swept = 0 /\ yielded = 0 /\ Len(fifo) <= NSLOT
    /\ \A i \in 1..Len(fifo) : fifo[i].slot = i - 1

\* The slot just collected is free until it is refilled, and the host copy of
\* its hits is the one the hits are handed out from.
BatchOK ==
  /\ mpc = "refill" => gpu[batch.slot].st = "idle"
  /\ mpc = "refill" /\ stopSeen => cutShort
  /\ mpc \in {"refill", "yield"} /\ batch.left > 0 =>
       LET r == rec[batch.slot] IN
         r.seed = state /\ r.job = work /\ r.tile = swept - 1 /\ batch.left <= r.n

\* A sweep that waits for no tile has a reason to be over.
ProgressOK ==
  mpc \in {"collect", "yield"} =>
    cutShort \/ yielded >= MaxReturn \/ nextIdx = NTiles \/ fifo # <<>>

\* Tiles submitted after the stop: those of the priming, or the one refill
\* whose tile was collected before the stop.
LateOK ==
  /\ ~stopEvt => lateTiles = 0
  /\ mpc = "prime" => lateTiles <= Len(fifo)
  /\ mpc = "refill" /\ ~stopSeen => lateTiles = 0

IndInv ==
  /\ TypeOK /\ ThreadsOK /\ SlotsOK /\ DeviceOK /\ PrimeOK /\ BatchOK
  /\ ProgressOK /\ LateOK /\ SweepExact /\ StopWithinTiles

-----------------------------------------------------------------------------
(***************************************************************************)
(* Facts about slots and queues.                                           *)
(***************************************************************************)

\* What fifo.append leaves in the queue of tiles in flight.
LEMMA AppendCells ==
  ASSUME NEW S, NEW s \in Seq(S), NEW e \in S
  PROVE  /\ Append(s, e) \in Seq(S) /\ Append(s, e) # <<>>
         /\ Len(s) \in Nat /\ Len(Append(s, e)) = Len(s) + 1
         /\ \A i \in 1..Len(s) : Append(s, e)[i] = s[i]
         /\ Append(s, e)[Len(s) + 1] = e
  OBVIOUS

\* What fifo.popleft leaves in it.
LEMMA TailCells ==
  ASSUME NEW S, NEW s \in Seq(S), s # <<>>
  PROVE  /\ Tail(s) \in Seq(S) /\ Head(s) \in S /\ Head(s) = s[1]
         /\ Len(s) \in Nat \ {0} /\ Len(Tail(s)) = Len(s) - 1
         /\ \A i \in 1..Len(Tail(s)) : Tail(s)[i] = s[i + 1]
  OBVIOUS

\* The prefetch never builds the slot the round searches: with two or more job
\* slots the next one is another one (miner.py 550-566).
LEMMA NextSlotIsOther ==
  ASSUME NEW j \in JobSlot
  PROVE  NextSlot(j) \in JobSlot /\ NextSlot(j) # j
<1>1. CASE j = NJOB - 1
  <2>1. (j + 1) % NJOB = 0
    BY <1>1, RoundsAssumption
  <2>2. QED
    BY <1>1, <2>1, RoundsAssumption DEF NextSlot, JobSlot
<1>2. CASE j < NJOB - 1
  <2>1. (j + 1) % NJOB = j + 1
    BY <1>2, RoundsAssumption DEF JobSlot
  <2>2. QED
    BY <1>2, <2>1, RoundsAssumption DEF NextSlot, JobSlot
<1>3. QED
  BY <1>1, <1>2, RoundsAssumption DEF JobSlot

\* Priming takes the search slots in their order.
LEMMA PrimeSlotIs ==
  ASSUME nextIdx \in Nat
  PROVE  PrimeSlot \in SearchSlot /\ (nextIdx < NSLOT => PrimeSlot = nextIdx)
  BY RoundsAssumption DEF PrimeSlot, SearchSlot

\* What the types say of the fields.
LEMMA Fields ==
  ASSUME TypeOK
  PROVE  /\ pf.st \in {"off", "derive", "set", "done", "failed"}
         /\ pf.seed \in Seed \cup {NoSeed}
         /\ batch.slot \in SearchSlot /\ batch.left \in Nat
         /\ Len(fifo) \in Nat
         /\ \A i \in 1..Len(fifo) : fifo[i].slot \in SearchSlot /\ fifo[i].tile \in Tile
         /\ \A j \in JobSlot : slot[j].seed \in Seed \cup {NoSeed}
         /\ \A s \in SearchSlot :
              /\ gpu[s].st \in {"idle", "running", "done"} /\ gpu[s].job \in JobSlot
              /\ gpu[s].tile \in Tile /\ gpu[s].shape \in Job \cup {NoJob}
              /\ hit[s].n \in Nat
<1>1. /\ pf \in Thread /\ batch \in TileBatch /\ fifo \in Seq(TileInFlight)
      /\ slot \in [JobSlot -> SlotContents] /\ gpu \in [SearchSlot -> GpuTile]
      /\ hit \in [SearchSlot -> HitBuffer]
  BY DEF TypeOK
<1>2. \A i \in 1..Len(fifo) : fifo[i] \in TileInFlight
  BY <1>1
<1>3. Len(fifo) \in Nat
  BY <1>1
<1>4. \A i \in 1..Len(fifo) : fifo[i].slot \in SearchSlot /\ fifo[i].tile \in Tile
  BY <1>2 DEF TileInFlight
<1>5. \A s \in SearchSlot : gpu[s] \in GpuTile /\ hit[s] \in HitBuffer
  BY <1>1
<1>6. \A j \in JobSlot : slot[j].seed \in Seed \cup {NoSeed}
  BY <1>1 DEF SlotContents
<1>7. QED
  BY <1>1, <1>3, <1>4, <1>5, <1>6 DEF Thread, TileBatch, GpuTile, HitBuffer

\* What freeing a job slot's buffers and overwriting the shape leaves.
LEMMA BeginSetJobLeaves ==
  ASSUME TypeOK, NEW j \in JobSlot, BeginSetJob(j)
  PROVE  /\ slot' \in [JobSlot -> SlotContents]
         /\ slot'[j].st = "building"
         /\ \A i \in JobSlot \ {j} : slot'[i] = slot[i]
         /\ shape' = work
  BY DEF TypeOK, BeginSetJob, SlotContents

\* What completing a job slot leaves.
LEMMA EndSetJobLeaves ==
  ASSUME TypeOK, NEW j \in JobSlot, NEW s \in Seed \cup {NoSeed}, EndSetJob(j, s)
  PROVE  /\ slot' \in [JobSlot -> SlotContents]
         /\ slot'[j] = Built(s, work)
         /\ \A i \in JobSlot \ {j} : slot'[i] = slot[i]
         /\ shape' = shape
  BY DEF TypeOK, EndSetJob, Built, SlotContents

\* What submitting a tile leaves.
LEMMA SubmitLeaves ==
  ASSUME TypeOK, NEW s \in SearchSlot, nextIdx < NTiles, SubmitTile(s)
  PROVE  /\ gpu' \in [SearchSlot -> GpuTile]
         /\ gpu'[s] = [st |-> "running", job |-> cur, tile |-> nextIdx, shape |-> shape]
         /\ \A t \in SearchSlot \ {s} : gpu'[t] = gpu[t]
         /\ nextIdx \in Nat /\ nextIdx' = nextIdx + 1 /\ nextIdx' \in Tile
         /\ hit' = hit /\ rec' = rec
         /\ lateTiles' \in Nat
         /\ ~stopEvt => lateTiles' = lateTiles
         /\ lateTiles' <= lateTiles + 1
<1>1. [st |-> "running", job |-> cur, tile |-> nextIdx, shape |-> shape] \in GpuTile
  BY DEF TypeOK, GpuTile
<1>2. gpu \in [SearchSlot -> GpuTile]
  BY DEF TypeOK
<1>3. gpu' = [gpu EXCEPT ![s] =
                [st |-> "running", job |-> cur, tile |-> nextIdx, shape |-> shape]]
  BY DEF SubmitTile
<1>4. /\ gpu' \in [SearchSlot -> GpuTile]
      /\ gpu'[s] = [st |-> "running", job |-> cur, tile |-> nextIdx, shape |-> shape]
      /\ \A t \in SearchSlot \ {s} : gpu'[t] = gpu[t]
  BY <1>1, <1>2, <1>3
<1>5. nextIdx \in Nat /\ nextIdx' = nextIdx + 1 /\ nextIdx' \in Tile
  BY RoundsAssumption DEF TypeOK, SubmitTile, Tile
<1>6. lateTiles \in Nat /\ stopEvt \in BOOLEAN
  BY DEF TypeOK
<1>7. QED
  BY <1>4, <1>5, <1>6, RoundsAssumption DEF SubmitTile

-----------------------------------------------------------------------------
(***************************************************************************)
(* The initial state, and the types.                                       *)
(***************************************************************************)

\* The call starts in the invariant: nothing is built, nothing is searched.
LEMMA InitIndInv == Init => IndInv
<1> SUFFICES ASSUME Init PROVE IndInv
  OBVIOUS
<1> USE DEF Init
<1>1. TypeOK
  <2> USE RoundsAssumption
  <2>1. 0 \in Tile /\ 0 \in SearchSlot /\ 0 \in JobSlot /\ 0 \in 0..MaxReturn
    BY DEF Tile, SearchSlot, JobSlot
  <2>2. /\ slot \in [JobSlot -> SlotContents]
        /\ pf \in Thread /\ batch \in TileBatch
    BY <2>1 DEF Empty, SlotContents, Thread, TileBatch
  <2>3. gpu \in [SearchSlot -> GpuTile]
    BY <2>1 DEF Idle, GpuTile
  <2>4. NoHit \in HitBuffer
    BY <2>1 DEF NoHit, HitBuffer
  <2>5. fifo \in Seq(TileInFlight)
    OBVIOUS
  <2>6. QED
    BY <2>1, <2>2, <2>3, <2>4, <2>5 DEF TypeOK, MinerPc
<1>2. ThreadsOK /\ SlotsOK /\ PrimeOK /\ BatchOK /\ ProgressOK /\ LateOK
  BY DEF ThreadsOK, SlotsOK, PrimeOK, BatchOK, ProgressOK, LateOK, InRound, InSweep
<1>3. \A s \in SearchSlot : gpu[s].st = "idle"
  BY DEF Idle
<1>4. DeviceOK /\ SweepExact
  BY <1>3 DEF DeviceOK, SweepExact, InSweep
<1>5. StopWithinTiles
  BY RoundsAssumption DEF StopWithinTiles
<1>6. QED
  BY <1>1, <1>2, <1>4, <1>5 DEF IndInv

\* A step of the mining thread keeps every type.
LEMMA MinerType == IndInv /\ Miner => TypeOK'
<1> SUFFICES ASSUME IndInv, Miner PROVE TypeOK'
  OBVIOUS
<1>t. TypeOK
  BY DEF IndInv
<1>a. (mpc # "out" => work \in Job) /\ (mpc \in Outside => pf.st = "off")
  BY DEF IndInv, ThreadsOK
<1> USE DEF TypeOK, MinerPc, InSweep, pool, sweep, device
<1>1. CASE EnterCall
  <2>1. 0 \in JobSlot
    BY RoundsAssumption DEF JobSlot
  <2>2. QED
    BY <1>t, <1>1, <2>1 DEF EnterCall
<1>2. CASE BeginSetJob0
  <2>1. cur \in JobSlot /\ BeginSetJob(cur) /\ work \in Job
    BY <1>t, <1>a, <1>2 DEF BeginSetJob0
  <2>2. QED
    BY <1>t, <1>2, <2>1, BeginSetJobLeaves DEF BeginSetJob0
<1>3. CASE EndSetJob0
  <2>1. cur \in JobSlot /\ state \in Seed \cup {NoSeed} /\ EndSetJob(cur, state)
    BY <1>3 DEF EndSetJob0, IndInv
  <2>2. QED
    BY <1>t, <1>3, <2>1, EndSetJobLeaves DEF EndSetJob0
<1>4. CASE Preflight0Fails \/ LeaveCall
  BY <1>t, <1>4 DEF Preflight0Fails, LeaveCall
<1>5. CASE StartRound
  <2>1. /\ 0 \in Tile /\ 0 \in 0..MaxReturn
        /\ <<>> \in Seq(TileInFlight)
    BY RoundsAssumption DEF Tile
  <2>2. pf' \in Thread
    BY <1>5 DEF StartRound, Thread
  <2>3. QED
    BY <1>t, <1>5, <2>1, <2>2 DEF StartRound
<1>6. CASE Prime
  <2>1. /\ nextIdx \in Nat /\ nextIdx < NTiles /\ SubmitTile(PrimeSlot)
        /\ fifo' = Append(fifo, [slot |-> PrimeSlot, tile |-> nextIdx])
    BY <1>t, <1>6 DEF Prime, Tile
  <2>2. PrimeSlot \in SearchSlot
    BY <2>1, PrimeSlotIs
  <2>3. fifo' \in Seq(TileInFlight)
    BY <1>t, <2>1, <2>2, AppendCells DEF TileInFlight, Tile
  <2>4. QED
    BY <1>t, <1>6, <2>1, <2>2, <2>3, SubmitLeaves DEF Prime
<1>7. CASE Primed \/ AbandonSearch \/ BatchDone \/ SweepEnds \/ SearchRaises \/ RoundRaises
  BY <1>t, <1>7 DEF Primed, AbandonSearch, BatchDone, SweepEnds, SearchRaises, RoundRaises
<1>8. CASE Collect
  <2> DEFINE s == Head(fifo).slot
  <2>1. fifo # <<>> /\ fifo \in Seq(TileInFlight)
    BY <1>t, <1>8 DEF Collect
  <2>2. s \in SearchSlot /\ fifo' \in Seq(TileInFlight)
    <3>1. Head(fifo) \in TileInFlight /\ Tail(fifo) \in Seq(TileInFlight)
      BY <2>1, TailCells
    <3>2. QED
      BY <1>8, <3>1 DEF Collect, TileInFlight
  <2>3. swept' \in Tile
    <3>1. Len(fifo) \in Nat \ {0}
      BY <2>1, TailCells
    <3>2. nextIdx = swept + Len(fifo)
      BY <1>8 DEF Collect, IndInv, SweepExact
    <3>3. nextIdx \in 0..NTiles /\ swept \in 0..NTiles
      BY <1>t DEF Tile
    <3>4. swept' = swept + 1
      BY <1>8 DEF Collect
    <3>5. QED
      BY <3>1, <3>2, <3>3, <3>4, RoundsAssumption DEF Tile
  <2>4. hit[s] \in HitBuffer /\ Least(hit[s].n, MaxHits) \in Nat
    BY <1>t, <2>2, Fields, RoundsAssumption DEF Least
  <2>5. rec' \in [SearchSlot -> HitBuffer]
    <3>1. rec \in [SearchSlot -> HitBuffer]
      BY <1>t
    <3>2. rec' = [rec EXCEPT ![s] = [hit[s] EXCEPT !.n = Least(hit[s].n, MaxHits)]]
      BY <1>8 DEF Collect
    <3>3. [hit[s] EXCEPT !.n = Least(hit[s].n, MaxHits)] \in HitBuffer
      BY <2>4 DEF HitBuffer
    <3>4. QED
      BY <3>1, <3>2, <3>3
  <2>6. gpu' \in [SearchSlot -> GpuTile]
    <3>1. Idle \in GpuTile
      BY RoundsAssumption DEF Idle, GpuTile, JobSlot, Tile
    <3>2. QED
      BY <1>t, <1>8, <3>1 DEF Collect
  <2>7. batch' \in TileBatch /\ stopSeen' \in BOOLEAN
        /\ cutShort' \in BOOLEAN
    BY <1>t, <1>8, <2>2, <2>4 DEF Collect, ShouldStop, TileBatch
  <2>8. UNCHANGED <<pool, work, cur, state, nextIdx, yielded, pf, slot, shape, hit,
                    lateTiles>> /\ mpc' = "refill"
    BY <1>8 DEF Collect
  <2>9. QED
    BY <1>t, <2>2, <2>3, <2>5, <2>6, <2>7, <2>8
<1>9. CASE Refill
  <2>1. UNCHANGED <<pool, work, cur, state, yielded, batch, stopSeen, swept,
                    cutShort, pf, slot, shape>>
        /\ mpc' \in {"collect", "yield"}
    BY <1>9 DEF Refill
  <2>2. CASE CanRefill
    <3>1. /\ nextIdx < NTiles /\ SubmitTile(batch.slot) /\ batch.slot \in SearchSlot
          /\ fifo' = Append(fifo, [slot |-> batch.slot, tile |-> nextIdx])
      BY <1>t, <1>9, <2>2, Fields DEF Refill, CanRefill
    <3>2. fifo' \in Seq(TileInFlight)
      BY <1>t, <3>1, AppendCells DEF TileInFlight
    <3>3. QED
      BY <1>t, <2>1, <3>1, <3>2, SubmitLeaves
  <2>3. CASE ~CanRefill
    BY <1>t, <1>9, <2>1, <2>3 DEF Refill
  <2>4. QED
    BY <2>2, <2>3
<1>10. CASE YieldShare
  <2>1. yielded' \in 0..MaxReturn
    BY <1>t, <1>10, RoundsAssumption DEF YieldShare
  <2>2. batch' \in TileBatch
    BY <1>t, <1>10, Fields DEF YieldShare, TileBatch
  <2>3. QED
    BY <1>t, <1>10, <2>1, <2>2 DEF YieldShare
<1>11. CASE Promote
  <2>1. cur' \in JobSlot
    BY <1>t, <1>11, NextSlotIsOther DEF Promote
  <2>2. pf' \in Thread /\ state' \in Seed \cup {NoSeed}
    BY <1>t, <1>11, Fields DEF Promote, Thread
  <2>3. QED
    BY <1>t, <1>11, <2>1, <2>2 DEF Promote
<1>12. QED
  BY <1>1, <1>2, <1>3, <1>4, <1>5, <1>6, <1>7, <1>8, <1>9, <1>10, <1>11 DEF Miner

\* So does every other step.
LEMMA TypeStep == IndInv /\ [Next]_vars => TypeOK'
<1> SUFFICES ASSUME IndInv, [Next]_vars PROVE TypeOK'
  OBVIOUS
<1>t. TypeOK
  BY DEF IndInv
<1>a. (mpc # "out" => work \in Job) /\ (mpc \in Outside => pf.st = "off")
  BY DEF IndInv, ThreadsOK
<1> USE DEF TypeOK, pool, sweep, device
<1>1. CASE Miner
  BY <1>1, MinerType
<1>2. CASE PrefetchBeginSetJob
  <2>1. NextSlot(cur) \in JobSlot /\ BeginSetJob(NextSlot(cur))
    BY <1>t, <1>2, NextSlotIsOther DEF PrefetchBeginSetJob
  <2>2. work \in Job
    BY <1>a, <1>2 DEF PrefetchBeginSetJob, Outside
  <2>3. pf' \in Thread
    BY <1>t, <1>2, Fields DEF PrefetchBeginSetJob, Thread
  <2>4. QED
    BY <1>t, <1>2, <2>1, <2>2, <2>3, BeginSetJobLeaves DEF PrefetchBeginSetJob
<1>3. CASE PrefetchEndSetJob
  <2>1. /\ NextSlot(cur) \in JobSlot /\ EndSetJob(NextSlot(cur), pf.seed)
        /\ pf.seed \in Seed \cup {NoSeed}
    BY <1>t, <1>3, NextSlotIsOther, Fields DEF PrefetchEndSetJob
  <2>2. pf' \in Thread
    BY <1>t, <1>3, Fields DEF PrefetchEndSetJob, Thread
  <2>3. QED
    BY <1>t, <1>3, <2>1, <2>2, EndSetJobLeaves DEF PrefetchEndSetJob
<1>4. CASE PrefetchFails
  <2>1. pf' \in Thread
    BY <1>t, <1>4, Fields DEF PrefetchFails, Thread
  <2>2. QED
    BY <1>t, <1>4, <2>1 DEF PrefetchFails
<1>5. ASSUME NEW s \in SearchSlot, FinishTile(s) PROVE TypeOK'
  <2>1. /\ gpu' = [gpu EXCEPT ![s].st = "done"]
        /\ UNCHANGED <<pool, mpc, work, cur, state, sweep, pf, slot, shape, rec, lateTiles>>
    BY <1>5 DEF FinishTile
  <2>2. PICK n \in 0..TileHits :
          hit' = [hit EXCEPT ![s] = [seed |-> slot[gpu[s].job].seed,
                                     job  |-> gpu[s].shape,
                                     tile |-> gpu[s].tile, n |-> n]]
    BY <1>5 DEF FinishTile
  <2>3. /\ slot[gpu[s].job].seed \in Seed \cup {NoSeed} /\ gpu[s].tile \in Tile
        /\ gpu[s].shape \in Job \cup {NoJob} /\ n \in Nat
    BY <1>t, Fields, RoundsAssumption
  <2>4. hit' \in [SearchSlot -> HitBuffer]
    BY <1>t, <2>2, <2>3 DEF HitBuffer
  <2>5. gpu' \in [SearchSlot -> GpuTile]
    BY <1>t, <2>1 DEF GpuTile
  <2>6. QED
    BY <1>t, <2>1, <2>4, <2>5
<1>6. CASE NewJob \/ Stop
  BY <1>t, <1>6 DEF NewJob, Stop
<1>7. CASE Over \/ UNCHANGED vars
  BY <1>t, <1>7 DEF Over, vars
<1>8. QED
  BY <1>1, <1>2, <1>3, <1>4, <1>5, <1>6, <1>7 DEF Next, Prefetch

-----------------------------------------------------------------------------
(***************************************************************************)
(* The threads and the job slots.                                          *)
(***************************************************************************)

\* The steps that touch neither the job slots nor what the round is about.
QuietInRound ==
  \/ Prime \/ Primed \/ Collect \/ Refill \/ YieldShare \/ AbandonSearch
  \/ BatchDone \/ SweepEnds \/ SearchRaises

\* They leave the round where it is: same work, same state, same slots.
LEMMA QuietLeaves ==
  QuietInRound =>
    /\ mpc \in InSweep /\ mpc' \in InRound
    /\ UNCHANGED <<pool, work, cur, state, pf, slot, shape>>
  BY DEF QuietInRound, Prime, Primed, Collect, Refill, YieldShare, AbandonSearch,
         BatchDone, SweepEnds, SearchRaises, InRound, InSweep

\* The prefetch thread runs only inside a round.
LEMMA PrefetchInRound ==
  IndInv /\ Prefetch => mpc \in InRound /\ mpc' = mpc
<1> SUFFICES ASSUME IndInv, Prefetch PROVE mpc \in InRound /\ mpc' = mpc
  OBVIOUS
<1>1. pf.st \in {"derive", "set"} /\ mpc' = mpc
  BY DEF Prefetch, PrefetchBeginSetJob, PrefetchEndSetJob, PrefetchFails
<1>2. mpc \in MinerPc /\ ThreadsOK
  BY DEF IndInv, TypeOK
<1>3. QED
  BY <1>1, <1>2 DEF ThreadsOK, MinerPc, Outside, InRound

\* The steps of the environment.
Environment == NewJob \/ Stop \/ Over \/ UNCHANGED vars

LEMMA EnvironmentLeaves ==
  Environment =>
    UNCHANGED <<mpc, work, cur, state, sweep, pf, slot, shape, device, lateTiles>>
  BY DEF Environment, NewJob, Stop, Over, vars

\* A step is one of these; the parts below go through them in this order.
LEMMA Steps ==
  [Next]_vars =>
    \/ EnterCall \/ BeginSetJob0 \/ EndSetJob0 \/ Preflight0Fails \/ LeaveCall
    \/ StartRound \/ QuietInRound \/ Promote \/ RoundRaises \/ Prefetch
    \/ (\E s \in SearchSlot : FinishTile(s)) \/ Environment
  BY DEF Next, Miner, QuietInRound, Environment

\* ThreadsOK is preserved: the prefetch thread starts with the round and is
\* joined before the round is over (miner.py 568-589, 634-644).
LEMMA ThreadsStep == IndInv /\ [Next]_vars => ThreadsOK'
<1> SUFFICES ASSUME IndInv, [Next]_vars PROVE ThreadsOK'
  OBVIOUS
<1>t. TypeOK /\ ThreadsOK
  BY DEF IndInv
<1> USE DEF ThreadsOK, Outside, InRound, InSweep
<1>1. CASE EnterCall
  <2>1. poolJob \in Job
    BY <1>t DEF TypeOK
  <2>2. QED
    BY <1>t, <1>1, <2>1 DEF EnterCall
<1>2. CASE BeginSetJob0 \/ EndSetJob0 \/ Preflight0Fails \/ LeaveCall
  BY <1>t, <1>2 DEF BeginSetJob0, EndSetJob0, Preflight0Fails, LeaveCall
<1>3. CASE StartRound
  BY <1>t, <1>3 DEF StartRound
<1>4. CASE QuietInRound
  BY <1>t, <1>4, QuietLeaves
<1>5. CASE Promote
  BY <1>t, <1>5 DEF Promote
<1>6. CASE RoundRaises
  BY <1>t, <1>6 DEF RoundRaises
<1>7. CASE Prefetch
  <2>1. mpc \in InRound /\ UNCHANGED <<mpc, work, state>>
    BY <1>7, PrefetchInRound
       DEF Prefetch, PrefetchBeginSetJob, PrefetchEndSetJob, PrefetchFails
  <2>2. pf \in Thread /\ \E st \in {"set", "done", "failed"} : pf' = [pf EXCEPT !.st = st]
    BY <1>t, <1>7
       DEF TypeOK, Prefetch, PrefetchBeginSetJob, PrefetchEndSetJob, PrefetchFails
  <2>3. pf'.st \in {"set", "done", "failed"} /\ pf'.seed = pf.seed
    BY <2>2 DEF Thread
  <2>4. QED
    BY <1>t, <2>1, <2>3
<1>8. ASSUME NEW s \in SearchSlot, FinishTile(s) PROVE ThreadsOK'
  BY <1>t, <1>8 DEF FinishTile
<1>9. CASE Environment
  BY <1>t, <1>9, EnvironmentLeaves
<1>10. QED
  BY <1>1, <1>2, <1>3, <1>4, <1>5, <1>6, <1>7, <1>8, <1>9, Steps

\* SlotsOK is preserved: the round's slot is written before the round only, the
\* other one by the prefetch thread only, and promotion takes the state that
\* was built (miner.py 550-566, 646-652).
LEMMA SlotsStep == IndInv /\ [Next]_vars => SlotsOK'
<1> SUFFICES ASSUME IndInv, [Next]_vars PROVE SlotsOK'
  OBVIOUS
<1>t. TypeOK /\ ThreadsOK /\ SlotsOK
  BY DEF IndInv
<1>c. cur \in JobSlot
  BY <1>t DEF TypeOK
<1>1. CASE EnterCall
  <2>1. mpc' = "derive0" /\ pf' = pf /\ pf.st = "off"
    BY <1>t, <1>1 DEF EnterCall, ThreadsOK, Outside
  <2>2. QED
    BY <2>1 DEF SlotsOK, InRound, InSweep
<1>2. CASE BeginSetJob0
  <2>1. /\ mpc' = "set0" /\ pf' = pf /\ pf.st = "off" /\ cur' = cur /\ work' = work
        /\ BeginSetJob(cur)
    BY <1>t, <1>2 DEF BeginSetJob0, ThreadsOK, Outside
  <2>2. slot'[cur].st = "building" /\ shape' = work
    BY <1>t, <1>c, <2>1, BeginSetJobLeaves
  <2>3. QED
    BY <2>1, <2>2 DEF SlotsOK, InRound, InSweep
<1>3. CASE EndSetJob0
  <2>1. /\ mpc = "set0" /\ mpc' = "top" /\ pf' = pf /\ pf.st = "off"
        /\ UNCHANGED <<cur, work, state>> /\ EndSetJob(cur, state)
    BY <1>t, <1>3 DEF EndSetJob0, ThreadsOK, Outside
  <2>2. state \in Seed \cup {NoSeed}
    BY <1>t DEF TypeOK
  <2>3. slot'[cur] = Built(state, work) /\ shape' = shape
    BY <1>t, <1>c, <2>1, <2>2, EndSetJobLeaves
  <2>4. shape = work
    BY <1>t, <2>1 DEF SlotsOK
  <2>5. QED
    BY <2>1, <2>3, <2>4 DEF SlotsOK, InRound, InSweep
<1>4. CASE Preflight0Fails \/ LeaveCall
  <2>1. mpc' \in {"gone", "out"} /\ pf' = pf /\ pf.st = "off"
    BY <1>t, <1>4 DEF Preflight0Fails, LeaveCall, ThreadsOK, Outside
  <2>2. QED
    BY <2>1 DEF SlotsOK, InRound, InSweep
<1>5. CASE StartRound
  <2>1. /\ mpc = "top" /\ mpc' = "prime" /\ pf'.st = "derive"
        /\ UNCHANGED <<work, cur, state, slot, shape>>
    BY <1>5 DEF StartRound
  <2>2. QED
    BY <1>t, <2>1 DEF SlotsOK
<1>6. CASE QuietInRound
  <2>1. mpc \in InRound /\ mpc' \in InRound
    BY <1>6, QuietLeaves DEF InRound
  <2>2. QED
    BY <1>t, <1>6, <2>1, QuietLeaves DEF SlotsOK, NextSlot, InRound, InSweep
<1>7. CASE Promote
  <2>1. /\ mpc = "join" /\ pf.st = "done" /\ mpc' = "top" /\ pf'.st = "off"
        /\ state' = pf.seed /\ cur' = NextSlot(cur) /\ UNCHANGED <<work, slot, shape>>
    BY <1>7 DEF Promote
  <2>2. slot[NextSlot(cur)] = Built(pf.seed, work) /\ shape = work
    BY <1>t, <2>1 DEF SlotsOK, InRound
  <2>3. QED
    BY <2>1, <2>2 DEF SlotsOK, InRound, InSweep
<1>8. CASE RoundRaises
  <2>1. mpc' = "gone" /\ pf' = pf /\ pf.st \in {"done", "failed"}
    BY <1>8 DEF RoundRaises
  <2>2. QED
    BY <2>1 DEF SlotsOK, InRound, InSweep
<1>9. CASE Prefetch
  <2>1. mpc \in InRound /\ mpc' = mpc
    BY <1>9, PrefetchInRound
  <2>2. NextSlot(cur) \in JobSlot /\ NextSlot(cur) # cur
    BY <1>c, NextSlotIsOther
  <2>3. slot[cur] = Built(state, work) /\ shape = work
    BY <1>t, <2>1 DEF SlotsOK
  <2>p. pf \in Thread
    BY <1>t DEF TypeOK
  <2>m. mpc # "set0"
    BY <2>1 DEF InRound, InSweep
  <2>4. CASE PrefetchBeginSetJob
    <3>1. /\ pf' = [pf EXCEPT !.st = "set"] /\ BeginSetJob(NextSlot(cur))
          /\ UNCHANGED <<work, cur, state>>
      BY <2>4 DEF PrefetchBeginSetJob
    <3>2. slot'[NextSlot(cur)].st = "building" /\ slot'[cur] = slot[cur] /\ shape' = work
      BY <1>t, <1>c, <2>2, <3>1, BeginSetJobLeaves
    <3>3. pf'.st = "set"
      BY <2>p, <3>1 DEF Thread
    <3>4. NextSlot(cur)' = NextSlot(cur)
      BY <3>1 DEF NextSlot
    <3>5. QED
      BY <2>1, <2>3, <2>m, <3>1, <3>2, <3>3, <3>4 DEF SlotsOK
  <2>5. CASE PrefetchEndSetJob
    <3>1. /\ pf' = [pf EXCEPT !.st = "done"] /\ EndSetJob(NextSlot(cur), pf.seed)
          /\ UNCHANGED <<work, cur, state>>
      BY <2>5 DEF PrefetchEndSetJob
    <3>2. /\ slot'[NextSlot(cur)] = Built(pf.seed, work) /\ slot'[cur] = slot[cur]
          /\ shape' = shape
      BY <1>t, <1>c, <2>2, <3>1, EndSetJobLeaves, Fields
    <3>3. pf'.st = "done" /\ pf'.seed = pf.seed
      BY <2>p, <3>1 DEF Thread
    <3>4. NextSlot(cur)' = NextSlot(cur)
      BY <3>1 DEF NextSlot
    <3>5. QED
      BY <2>1, <2>3, <2>m, <3>1, <3>2, <3>3, <3>4 DEF SlotsOK
  <2>6. CASE PrefetchFails
    <3>1. pf' = [pf EXCEPT !.st = "failed"] /\ UNCHANGED <<work, cur, state, slot, shape>>
      BY <2>6 DEF PrefetchFails
    <3>2. pf'.st = "failed"
      BY <2>p, <3>1 DEF Thread
    <3>3. QED
      BY <2>1, <2>3, <2>m, <3>1, <3>2 DEF SlotsOK
  <2>7. QED
    BY <1>9, <2>4, <2>5, <2>6 DEF Prefetch
<1>10. CASE (\E s \in SearchSlot : FinishTile(s)) \/ Environment
  <2>1. UNCHANGED <<mpc, work, cur, state, pf, slot, shape>>
    BY <1>10, EnvironmentLeaves DEF FinishTile
  <2>2. QED
    BY <1>t, <2>1 DEF SlotsOK, NextSlot
<1>11. QED
  BY <1>1, <1>2, <1>3, <1>4, <1>5, <1>6, <1>7, <1>8, <1>9, <1>10, Steps

-----------------------------------------------------------------------------
(***************************************************************************)
(* The sweep and the search slots.                                         *)
(***************************************************************************)

\* The parts of SweepExact.
SweepOrder ==
  mpc \in InSweep =>
    /\ nextIdx = swept + Len(fifo)
    /\ \A i \in 1..Len(fifo) :
         /\ fifo[i].tile = swept + i - 1 /\ InFlight(i)
         /\ \A k \in 1..Len(fifo) : fifo[k].slot = fifo[i].slot => k = i

SweepWhole == mpc = "join" => cutShort \/ yielded >= MaxReturn \/ swept = NTiles

IdleOutside ==
  mpc \in {"out", "derive0", "set0", "top", "join"} =>
    \A s \in SearchSlot : gpu[s].st = "idle"

LEMMA SweepParts == SweepExact <=> SweepOrder /\ SweepWhole /\ IdleOutside
  BY DEF SweepExact, SweepOrder, SweepWhole, IdleOutside

\* A tile is submitted to a free search slot, by the priming or by a refill.
Submits(t) ==
  /\ mpc \in InSweep /\ mpc' \in InSweep
  /\ nextIdx < NTiles /\ gpu[t].st = "idle" /\ SubmitTile(t)
  /\ fifo' = Append(fifo, [slot |-> t, tile |-> nextIdx])
  /\ UNCHANGED <<work, cur, state, swept, slot>>

\* The slot the priming takes next is free: the ones in flight come before it.
LEMMA PrimeSubmits ==
  ASSUME IndInv, Prime
  PROVE  PrimeSlot \in SearchSlot /\ Submits(PrimeSlot)
<1>1. TypeOK /\ DeviceOK /\ PrimeOK /\ SweepOrder
  BY SweepParts DEF IndInv
<1>2. /\ mpc = "prime" /\ mpc' = mpc /\ nextIdx < NTiles /\ Len(fifo) < NSLOT
      /\ SubmitTile(PrimeSlot)
      /\ fifo' = Append(fifo, [slot |-> PrimeSlot, tile |-> nextIdx])
      /\ UNCHANGED <<work, cur, state, swept, slot>>
  BY DEF Prime
<1>3. nextIdx = Len(fifo) /\ Len(fifo) \in Nat
  BY <1>1, <1>2, Fields DEF SweepOrder, PrimeOK, InSweep
<1>4. PrimeSlot \in SearchSlot /\ PrimeSlot = Len(fifo)
  BY <1>2, <1>3, PrimeSlotIs
<1>5. gpu[PrimeSlot].st = "idle"
  <2>1. ASSUME gpu[PrimeSlot].st # "idle" PROVE FALSE
    <3>1. PICK i \in 1..Len(fifo) : fifo[i].slot = PrimeSlot
      BY <1>1, <1>2, <1>4, <2>1 DEF DeviceOK, InSweep
    <3>2. fifo[i].slot = i - 1
      BY <1>1, <1>2 DEF PrimeOK
    <3>3. QED
      BY <1>3, <1>4, <3>1, <3>2
  <2>2. QED
    BY <2>1
<1>6. QED
  BY <1>2, <1>4, <1>5 DEF Submits, InSweep

\* The slot a refill takes is the one just collected.
LEMMA RefillSubmits ==
  ASSUME IndInv, Refill, CanRefill
  PROVE  batch.slot \in SearchSlot /\ Submits(batch.slot)
<1>1. TypeOK /\ BatchOK
  BY DEF IndInv
<1>2. /\ mpc = "refill" /\ mpc' \in InSweep /\ nextIdx < NTiles
      /\ SubmitTile(batch.slot)
      /\ fifo' = Append(fifo, [slot |-> batch.slot, tile |-> nextIdx])
      /\ UNCHANGED <<work, cur, state, swept, slot>>
  BY DEF Refill, CanRefill, InSweep
<1>3. gpu[batch.slot].st = "idle"
  BY <1>1, <1>2 DEF BatchOK
<1>4. QED
  BY <1>1, <1>2, <1>3, Fields DEF Submits, InSweep

\* The tile submitted is the next of the sweep and reads the round's slot.
LEMMA SubmitKeeps ==
  ASSUME IndInv, NEW t \in SearchSlot, Submits(t)
  PROVE  DeviceOK' /\ SweepOrder'
<1>1. TypeOK /\ DeviceOK /\ SweepOrder /\ SlotsOK
  BY SweepParts DEF IndInv
<1>2. /\ mpc \in InSweep /\ mpc' \in InSweep
      /\ UNCHANGED <<work, cur, state, swept, hit>>
  BY DEF Submits, SubmitTile
<1>3. /\ gpu[t].st = "idle"
      /\ gpu'[t] = [st |-> "running", job |-> cur, tile |-> nextIdx, shape |-> shape]
      /\ \A s \in SearchSlot \ {t} : gpu'[s] = gpu[s]
      /\ nextIdx \in Nat /\ nextIdx' = nextIdx + 1
  BY <1>1, SubmitLeaves DEF Submits
<1>4. nextIdx \in Tile
  BY <1>1 DEF TypeOK
<1>5. /\ Len(fifo) \in Nat /\ Len(fifo') = Len(fifo) + 1
      /\ \A i \in 1..Len(fifo) : fifo'[i] = fifo[i]
      /\ fifo'[Len(fifo) + 1] = [slot |-> t, tile |-> nextIdx]
  <2>1. [slot |-> t, tile |-> nextIdx] \in TileInFlight
    BY <1>4 DEF TileInFlight
  <2>2. fifo \in Seq(TileInFlight) /\ fifo' = Append(fifo, [slot |-> t, tile |-> nextIdx])
    BY <1>1 DEF TypeOK, Submits
  <2>3. QED
    BY <2>1, <2>2, AppendCells
<1>6. shape = work
  BY <1>1, <1>2 DEF SlotsOK, InRound
<1>7. swept \in Nat /\ nextIdx = swept + Len(fifo)
  BY <1>1, <1>2 DEF TypeOK, Tile, SweepOrder
<1>8. \A i \in 1..Len(fifo) :
        /\ fifo[i].tile = swept + i - 1 /\ fifo[i].slot \in SearchSlot /\ fifo[i].slot # t
        /\ gpu[fifo[i].slot].tile = fifo[i].tile /\ gpu[fifo[i].slot].st # "idle"
        /\ \A k \in 1..Len(fifo) : fifo[k].slot = fifo[i].slot => k = i
  BY <1>1, <1>2, <1>3, Fields DEF SweepOrder, InFlight
<1>9. DeviceOK'
  <2>1. SUFFICES ASSUME NEW s \in SearchSlot, gpu'[s].st # "idle"
                 PROVE  /\ gpu'[s].job = cur /\ gpu'[s].shape = work
                        /\ \E i \in 1..Len(fifo') : fifo'[i].slot = s
                        /\ gpu'[s].st = "done" =>
                             /\ hit[s].seed = state /\ hit[s].job = work
                             /\ hit[s].tile = gpu'[s].tile
    BY <1>2 DEF DeviceOK
  <2>2. CASE s = t
    BY <1>3, <1>5, <1>6, <2>2
  <2>3. CASE s # t
    <3>1. gpu'[s] = gpu[s]
      BY <1>3, <2>3
    <3>2. PICK i \in 1..Len(fifo) : fifo[i].slot = s
      BY <1>1, <1>2, <2>1, <3>1 DEF DeviceOK
    <3>3. i \in 1..Len(fifo') /\ fifo'[i].slot = s
      BY <1>5, <3>2
    <3>4. QED
      BY <1>1, <1>2, <2>1, <3>1, <3>3 DEF DeviceOK
  <2>4. QED
    BY <2>2, <2>3
<1>10. SweepOrder'
  <2>1. ASSUME NEW i \in 1..Len(fifo')
        PROVE  /\ fifo'[i].tile = swept + i - 1
               /\ gpu'[fifo'[i].slot].tile = fifo'[i].tile
               /\ gpu'[fifo'[i].slot].st # "idle"
               /\ \A k \in 1..Len(fifo') : fifo'[k].slot = fifo'[i].slot => k = i
    <3>1. \A k \in 1..Len(fifo') : k \in 1..Len(fifo) \/ k = Len(fifo) + 1
      BY <1>5
    <3>2. CASE i \in 1..Len(fifo)
      <4>1. fifo'[i] = fifo[i] /\ gpu'[fifo[i].slot] = gpu[fifo[i].slot]
        BY <1>3, <1>5, <1>8, <3>2
      <4>2. ASSUME NEW k \in 1..Len(fifo'), fifo'[k].slot = fifo[i].slot PROVE k = i
        <5>1. k # Len(fifo) + 1
          BY <1>5, <1>8, <3>2, <4>2
        <5>2. k \in 1..Len(fifo) /\ fifo'[k] = fifo[k]
          BY <1>5, <3>1, <5>1
        <5>3. QED
          BY <1>8, <3>2, <4>2, <5>2
      <4>3. QED
        BY <1>8, <3>2, <4>1, <4>2
    <3>3. CASE i = Len(fifo) + 1
      <4>1. fifo'[i].slot = t /\ fifo'[i].tile = nextIdx
        BY <1>5, <3>3
      <4>2. \A k \in 1..Len(fifo) : fifo'[k].slot # t
        BY <1>5, <1>8
      <4>3. gpu'[t].tile = nextIdx /\ gpu'[t].st # "idle"
        BY <1>3
      <4>4. nextIdx = swept + i - 1
        BY <1>5, <1>7, <3>3
      <4>5. QED
        BY <3>1, <3>3, <4>1, <4>2, <4>3, <4>4
    <3>4. QED
      BY <3>1, <3>2, <3>3
  <2>2. nextIdx' = swept' + Len(fifo')
    BY <1>2, <1>3, <1>5, <1>7
  <2>3. QED
    BY <1>2, <2>1, <2>2 DEF SweepOrder, InFlight
<1>11. QED
  BY <1>9, <1>10

\* What collecting the oldest tile leaves (jackpot_coopmat.py 316-325).
LEMMA CollectLeaves ==
  ASSUME IndInv, Collect, NEW s, s = Head(fifo).slot
  PROVE  /\ s \in SearchSlot /\ Len(fifo) \in Nat \ {0} /\ fifo[1].slot = s
         /\ gpu[s].st = "done" /\ gpu'[s].st = "idle"
         /\ \A t \in SearchSlot \ {s} : gpu'[t] = gpu[t]
         /\ Len(fifo') = Len(fifo) - 1
         /\ \A i \in 1..Len(fifo') : fifo'[i] = fifo[i + 1]
         /\ swept \in Nat /\ swept' = swept + 1
         /\ mpc = "collect" /\ mpc' = "refill"
         /\ UNCHANGED <<work, cur, state, hit, nextIdx>>
<1>1. TypeOK
  BY DEF IndInv
<1>2. /\ fifo # <<>> /\ fifo' = Tail(fifo) /\ gpu' = [gpu EXCEPT ![s] = Idle]
      /\ gpu[s].st = "done" /\ mpc = "collect" /\ mpc' = "refill" /\ swept' = swept + 1
      /\ UNCHANGED <<work, cur, state, hit, nextIdx>>
  BY DEF Collect
<1>3. fifo \in Seq(TileInFlight) /\ swept \in Nat
  BY <1>1 DEF TypeOK, Tile
<1>4. /\ Head(fifo) = fifo[1] /\ Head(fifo) \in TileInFlight /\ Len(fifo) \in Nat \ {0}
      /\ Len(fifo') = Len(fifo) - 1 /\ \A i \in 1..Len(fifo') : fifo'[i] = fifo[i + 1]
  BY <1>2, <1>3, TailCells
<1>5. s \in SearchSlot /\ fifo[1].slot = s
  BY <1>4 DEF TileInFlight
<1>6. gpu'[s].st = "idle" /\ \A t \in SearchSlot \ {s} : gpu'[t] = gpu[t]
  BY <1>1, <1>2, <1>5 DEF TypeOK, Idle
<1>7. QED
  BY <1>2, <1>3, <1>4, <1>5, <1>6

\* The tiles left in flight are the ones after it, in the other search slots.
LEMMA CollectKeeps ==
  ASSUME IndInv, Collect
  PROVE  DeviceOK' /\ SweepOrder'
<1> DEFINE s == Head(fifo).slot
<1>1. TypeOK /\ DeviceOK /\ SweepOrder
  BY SweepParts DEF IndInv
<1>2. /\ s \in SearchSlot /\ Len(fifo) \in Nat \ {0} /\ fifo[1].slot = s
      /\ gpu'[s].st = "idle" /\ \A t \in SearchSlot \ {s} : gpu'[t] = gpu[t]
      /\ Len(fifo') = Len(fifo) - 1
      /\ \A i \in 1..Len(fifo') : fifo'[i] = fifo[i + 1]
      /\ swept \in Nat /\ swept' = swept + 1
      /\ mpc = "collect" /\ mpc' = "refill"
      /\ UNCHANGED <<work, cur, state, hit, nextIdx>>
  BY CollectLeaves
<1> HIDE DEF s
<1>3. mpc \in InSweep /\ mpc' \in InSweep
  BY <1>2 DEF InSweep
<1>4. /\ nextIdx = swept + Len(fifo)
      /\ \A i \in 1..Len(fifo) :
           /\ fifo[i].tile = swept + i - 1 /\ fifo[i].slot \in SearchSlot
           /\ gpu[fifo[i].slot].tile = fifo[i].tile /\ gpu[fifo[i].slot].st # "idle"
           /\ \A k \in 1..Len(fifo) : fifo[k].slot = fifo[i].slot => k = i
  BY <1>1, <1>3, Fields DEF SweepOrder, InFlight
<1>5. DeviceOK'
  <2>1. SUFFICES ASSUME NEW t \in SearchSlot, gpu'[t].st # "idle"
                 PROVE  /\ gpu'[t].job = cur /\ gpu'[t].shape = work
                        /\ \E i \in 1..Len(fifo') : fifo'[i].slot = t
                        /\ gpu'[t].st = "done" =>
                             /\ hit[t].seed = state /\ hit[t].job = work
                             /\ hit[t].tile = gpu'[t].tile
    BY <1>2, <1>3 DEF DeviceOK
  <2>2. t # s /\ gpu'[t] = gpu[t]
    BY <1>2, <2>1
  <2>3. PICK i \in 1..Len(fifo) : fifo[i].slot = t
    BY <1>1, <1>3, <2>1, <2>2 DEF DeviceOK
  <2>4. i # 1 /\ i - 1 \in 1..Len(fifo') /\ fifo'[i - 1].slot = t
    BY <1>2, <2>2, <2>3
  <2>5. QED
    BY <1>1, <1>3, <2>1, <2>2, <2>4 DEF DeviceOK
<1>6. SweepOrder'
  <2>1. ASSUME NEW i \in 1..Len(fifo')
        PROVE  /\ fifo'[i].tile = swept' + i - 1
               /\ gpu'[fifo'[i].slot].tile = fifo'[i].tile
               /\ gpu'[fifo'[i].slot].st # "idle"
               /\ \A k \in 1..Len(fifo') : fifo'[k].slot = fifo'[i].slot => k = i
    <3>1. i + 1 \in 1..Len(fifo) /\ 1 \in 1..Len(fifo) /\ i + 1 # 1 /\ fifo'[i] = fifo[i + 1]
      BY <1>2
    <3>2. fifo[i + 1].slot # s /\ fifo[i + 1].slot \in SearchSlot
      BY <1>2, <1>4, <3>1
    <3>3. gpu'[fifo'[i].slot] = gpu[fifo[i + 1].slot]
      BY <1>2, <3>1, <3>2
    <3>4. fifo'[i].tile = swept' + i - 1
      BY <1>2, <1>4, <3>1
    <3>5. ASSUME NEW k \in 1..Len(fifo'), fifo'[k].slot = fifo'[i].slot PROVE k = i
      <4>1. k + 1 \in 1..Len(fifo) /\ fifo'[k] = fifo[k + 1]
        BY <1>2
      <4>2. k + 1 = i + 1
        BY <1>4, <3>1, <3>5, <4>1
      <4>3. QED
        BY <4>2
    <3>6. QED
      BY <1>4, <3>1, <3>3, <3>4, <3>5
  <2>2. nextIdx' = swept' + Len(fifo')
    BY <1>2, <1>4
  <2>3. QED
    BY <2>1, <2>2 DEF SweepOrder, InFlight
<1>7. QED
  BY <1>5, <1>6

\* The steps of a sweep that leave its tiles alone.
LEMMA QuietTiles ==
  ASSUME QuietInRound, ~Prime, ~Collect, ~(Refill /\ CanRefill)
  PROVE  UNCHANGED <<work, cur, state, gpu, hit, rec, fifo, nextIdx, swept>>
  BY DEF QuietInRound, Primed, Refill, YieldShare, AbandonSearch, BatchDone,
         SweepEnds, SearchRaises, sweep, device

\* Finishing a tile leaves its place in the sweep and its hits, those of the
\* slot it read.
LEMMA FinishLeaves ==
  ASSUME TypeOK, NEW s \in SearchSlot, FinishTile(s)
  PROVE  /\ gpu[s].st = "running" /\ gpu'[s].st = "done"
         /\ gpu'[s].job = gpu[s].job /\ gpu'[s].tile = gpu[s].tile
         /\ gpu'[s].shape = gpu[s].shape
         /\ hit'[s].seed = slot[gpu[s].job].seed /\ hit'[s].job = gpu[s].shape
         /\ hit'[s].tile = gpu[s].tile
         /\ \A t \in SearchSlot \ {s} : gpu'[t] = gpu[t] /\ hit'[t] = hit[t]
         /\ UNCHANGED <<pool, mpc, work, cur, state, sweep, pf, slot, shape, rec,
                        lateTiles>>
<1>1. gpu \in [SearchSlot -> GpuTile] /\ hit \in [SearchSlot -> HitBuffer]
  BY DEF TypeOK
<1>2. /\ gpu[s].st = "running" /\ gpu' = [gpu EXCEPT ![s].st = "done"]
      /\ UNCHANGED <<pool, mpc, work, cur, state, sweep, pf, slot, shape, rec, lateTiles>>
  BY DEF FinishTile
<1>3. PICK n \in 0..TileHits :
        hit' = [hit EXCEPT ![s] = [seed |-> slot[gpu[s].job].seed,
                                   job  |-> gpu[s].shape,
                                   tile |-> gpu[s].tile, n |-> n]]
  BY DEF FinishTile
<1>4. gpu[s] \in GpuTile
  BY <1>1
<1>5. gpu'[s] = [gpu[s] EXCEPT !.st = "done"] /\ \A t \in SearchSlot \ {s} : gpu'[t] = gpu[t]
  BY <1>1, <1>2
<1>6. /\ gpu'[s].st = "done" /\ gpu'[s].job = gpu[s].job /\ gpu'[s].tile = gpu[s].tile
      /\ gpu'[s].shape = gpu[s].shape
  BY <1>4, <1>5 DEF GpuTile
<1>7. /\ hit'[s].seed = slot[gpu[s].job].seed /\ hit'[s].job = gpu[s].shape
      /\ hit'[s].tile = gpu[s].tile
      /\ \A t \in SearchSlot \ {s} : hit'[t] = hit[t]
  BY <1>1, <1>3
<1>8. QED
  BY <1>2, <1>5, <1>6, <1>7

\* The tiles of a sweep, through every step.
LEMMA TilesStep == IndInv /\ [Next]_vars => DeviceOK' /\ SweepOrder'
<1> SUFFICES ASSUME IndInv, [Next]_vars PROVE DeviceOK' /\ SweepOrder'
  OBVIOUS
<1>t. /\ TypeOK /\ ThreadsOK /\ DeviceOK /\ SlotsOK
      /\ SweepOrder /\ SweepWhole /\ IdleOutside
  BY SweepParts DEF IndInv
<1>1. CASE EnterCall \/ BeginSetJob0 \/ EndSetJob0 \/ Preflight0Fails \/ LeaveCall
  <2>1. mpc' \notin InSweep \cup {"raise"}
    BY <1>1 DEF EnterCall, BeginSetJob0, EndSetJob0, Preflight0Fails, LeaveCall, InSweep
  <2>2. QED
    BY <2>1 DEF DeviceOK, SweepOrder
<1>2. CASE StartRound
  <2>1. /\ mpc = "top" /\ gpu' = gpu /\ fifo' = <<>> /\ nextIdx' = 0 /\ swept' = 0
    BY <1>2 DEF StartRound, device
  <2>2. \A s \in SearchSlot : gpu'[s].st = "idle"
    BY <1>t, <2>1 DEF IdleOutside
  <2>3. QED
    BY <2>1, <2>2 DEF DeviceOK, SweepOrder
<1>3. CASE Prime
  BY <1>3, PrimeSubmits, SubmitKeeps
<1>4. CASE Collect
  BY <1>4, CollectKeeps
<1>5. CASE Refill /\ CanRefill
  BY <1>5, RefillSubmits, SubmitKeeps
<1>6. CASE QuietInRound /\ ~Prime /\ ~Collect /\ ~(Refill /\ CanRefill)
  <2>1. UNCHANGED <<work, cur, state, gpu, hit, fifo, nextIdx, swept>>
    BY <1>6, QuietTiles
  <2>2. mpc \in InSweep
    BY <1>6, QuietLeaves
  <2>3. QED
    BY <1>t, <2>1, <2>2 DEF DeviceOK, SweepOrder, InFlight
<1>7. CASE Promote \/ RoundRaises
  <2>1. mpc' \in {"top", "gone"}
    BY <1>7 DEF Promote, RoundRaises
  <2>2. QED
    BY <2>1 DEF DeviceOK, SweepOrder, InSweep
<1>8. CASE Prefetch
  <2>1. UNCHANGED <<mpc, work, cur, state, gpu, hit, fifo, nextIdx, swept>>
    BY <1>8 DEF Prefetch, PrefetchBeginSetJob, PrefetchEndSetJob, PrefetchFails,
                sweep, device
  <2>2. QED
    BY <1>t, <2>1 DEF DeviceOK, SweepOrder, InFlight
<1>9. ASSUME NEW s \in SearchSlot, FinishTile(s) PROVE DeviceOK' /\ SweepOrder'
  <2>1. /\ gpu[s].st = "running" /\ gpu'[s].st = "done"
        /\ gpu'[s].job = gpu[s].job /\ gpu'[s].tile = gpu[s].tile
        /\ gpu'[s].shape = gpu[s].shape
        /\ hit'[s].seed = slot[gpu[s].job].seed /\ hit'[s].job = gpu[s].shape
        /\ hit'[s].tile = gpu[s].tile
        /\ \A t \in SearchSlot \ {s} : gpu'[t] = gpu[t] /\ hit'[t] = hit[t]
        /\ UNCHANGED <<mpc, work, cur, state, fifo, nextIdx, swept>>
    BY <1>t, <1>9, FinishLeaves DEF sweep
  <2>2. mpc \in InSweep => slot[cur] = Built(state, work)
    BY <1>t DEF SlotsOK, InRound
  <2>3. mpc \in InSweep => hit'[s].seed = state /\ hit'[s].job = work
    BY <1>t, <2>1, <2>2 DEF DeviceOK, Built
  <2>4. DeviceOK'
    <3>1. SUFFICES ASSUME NEW t \in SearchSlot, gpu'[t].st # "idle"
                   PROVE  (mpc \in InSweep \cup {"raise"} =>
                             gpu'[t].job = cur /\ gpu'[t].shape = work)
                          /\ (mpc \in InSweep =>
                                /\ \E i \in 1..Len(fifo) : fifo[i].slot = t
                                /\ gpu'[t].st = "done" =>
                                     /\ hit'[t].seed = state /\ hit'[t].job = work
                                     /\ hit'[t].tile = gpu'[t].tile)
      BY <2>1 DEF DeviceOK
    <3>2. CASE t = s
      BY <1>t, <2>1, <2>3, <3>2 DEF DeviceOK
    <3>3. CASE t # s
      BY <1>t, <2>1, <3>1, <3>3 DEF DeviceOK
    <3>4. QED
      BY <3>2, <3>3
  <2>5. SweepOrder'
    <3>1. \A t \in SearchSlot : gpu'[t].tile = gpu[t].tile
                                /\ (gpu[t].st # "idle" => gpu'[t].st # "idle")
      BY <2>1
    <3>2. \A i \in 1..Len(fifo) : fifo[i].slot \in SearchSlot
      BY <1>t, Fields
    <3>3. \A i \in 1..Len(fifo) : mpc \in InSweep => InFlight(i)'
      BY <1>t, <2>1, <3>1, <3>2 DEF SweepOrder, InFlight
    <3>4. QED
      BY <1>t, <2>1, <3>3 DEF SweepOrder
  <2>6. QED
    BY <2>4, <2>5
<1>10. CASE Environment
  <2>1. UNCHANGED <<mpc, work, cur, state, gpu, hit, fifo, nextIdx, swept>>
    BY <1>10, EnvironmentLeaves DEF sweep, device
  <2>2. QED
    BY <1>t, <2>1 DEF DeviceOK, SweepOrder, InFlight
<1>11. QED
  BY <1>1, <1>2, <1>3, <1>4, <1>5, <1>6, <1>7, <1>8, <1>9, <1>10, Steps DEF QuietInRound

\* A sweep is over only when all tiles are collected, it was stopped, or the
\* round is full; then, and until the next round, no tile is in flight.
LEMMA SweepOverStep == IndInv /\ [Next]_vars => SweepWhole' /\ IdleOutside'
<1> SUFFICES ASSUME IndInv, [Next]_vars PROVE SweepWhole' /\ IdleOutside'
  OBVIOUS
<1>t. /\ TypeOK /\ DeviceOK /\ ProgressOK
      /\ SweepOrder /\ SweepWhole /\ IdleOutside
  BY SweepParts DEF IndInv
<1>1. CASE EnterCall \/ BeginSetJob0 \/ EndSetJob0 \/ Preflight0Fails \/ LeaveCall
  <2>1. /\ mpc \in {"out", "derive0", "set0", "top"} /\ gpu' = gpu /\ mpc' # "join"
    BY <1>1 DEF EnterCall, BeginSetJob0, EndSetJob0, Preflight0Fails, LeaveCall, device
  <2>2. QED
    BY <1>t, <2>1 DEF SweepWhole, IdleOutside
<1>2. CASE StartRound
  BY <1>2 DEF StartRound, SweepWhole, IdleOutside
<1>3. CASE SweepEnds
  <2>1. /\ mpc = "collect" /\ fifo = <<>>
        /\ UNCHANGED <<gpu, cutShort, yielded, swept, nextIdx, fifo>>
    BY <1>3 DEF SweepEnds, sweep, device
  <2>2. Len(fifo) = 0
    BY <2>1
  <2>3. \A s \in SearchSlot : gpu[s].st = "idle"
    BY <1>t, <2>1, <2>2 DEF DeviceOK, InSweep
  <2>4. nextIdx = swept /\ (cutShort \/ yielded >= MaxReturn \/ nextIdx = NTiles)
    <3>1. swept \in Nat
      BY <1>t DEF TypeOK, Tile
    <3>2. QED
      BY <1>t, <2>1, <2>2, <3>1 DEF SweepOrder, ProgressOK, InSweep
  <2>5. QED
    BY <2>1, <2>3, <2>4 DEF SweepWhole, IdleOutside
<1>4. CASE QuietInRound /\ ~SweepEnds
  <2>1. mpc' \in InSweep \cup {"raise"}
    BY <1>4 DEF QuietInRound, Prime, Primed, Collect, Refill, YieldShare,
                AbandonSearch, BatchDone, SearchRaises, InSweep
  <2>2. QED
    BY <2>1 DEF SweepWhole, IdleOutside, InSweep
<1>5. CASE Promote \/ RoundRaises
  <2>1. /\ mpc \in {"join", "raise"} /\ gpu' = gpu
        /\ mpc' = "gone" \/ (mpc' = "top" /\ mpc = "join")
    BY <1>5 DEF Promote, RoundRaises, device
  <2>2. QED
    BY <1>t, <2>1 DEF SweepWhole, IdleOutside
<1>6. CASE Prefetch
  <2>1. UNCHANGED <<mpc, gpu, cutShort, yielded, swept>>
    BY <1>6 DEF Prefetch, PrefetchBeginSetJob, PrefetchEndSetJob, PrefetchFails,
                sweep, device
  <2>2. QED
    BY <1>t, <2>1 DEF SweepWhole, IdleOutside
<1>7. ASSUME NEW s \in SearchSlot, FinishTile(s) PROVE SweepWhole' /\ IdleOutside'
  <2>1. gpu[s].st = "running" /\ UNCHANGED <<mpc, cutShort, yielded, swept>>
    BY <1>7 DEF FinishTile, sweep
  <2>2. QED
    BY <1>t, <2>1 DEF SweepWhole, IdleOutside
<1>8. CASE Environment
  <2>1. UNCHANGED <<mpc, gpu, cutShort, yielded, swept>>
    BY <1>8, EnvironmentLeaves DEF sweep, device
  <2>2. QED
    BY <1>t, <2>1 DEF SweepWhole, IdleOutside
<1>9. QED
  BY <1>1, <1>2, <1>3, <1>4, <1>5, <1>6, <1>7, <1>8, Steps

\* The search slots are primed in their order.
LEMMA PrimeStep == IndInv /\ [Next]_vars => PrimeOK'
<1> SUFFICES ASSUME IndInv, [Next]_vars, mpc' = "prime" PROVE PrimeOK'
  BY DEF PrimeOK
<1>t. TypeOK /\ PrimeOK /\ SweepOrder
  BY SweepParts DEF IndInv
<1>1. CASE EnterCall \/ BeginSetJob0 \/ EndSetJob0 \/ Preflight0Fails \/ LeaveCall
  BY <1>1 DEF EnterCall, BeginSetJob0, EndSetJob0, Preflight0Fails, LeaveCall
<1>2. CASE StartRound
  BY <1>2, RoundsAssumption DEF StartRound, PrimeOK
<1>3. CASE Prime
  <2>1. /\ mpc = "prime" /\ Len(fifo) < NSLOT /\ UNCHANGED <<swept, yielded>>
        /\ nextIdx \in Nat /\ fifo \in Seq(TileInFlight)
    BY <1>t, <1>3 DEF Prime, TypeOK, Tile
  <2>2. PrimeSlot \in SearchSlot /\ PrimeSlot = Len(fifo) /\ nextIdx \in Tile
    BY <1>t, <2>1, PrimeSlotIs, Fields DEF TypeOK, SweepOrder, PrimeOK, InSweep
  <2>3. /\ Len(fifo) \in Nat /\ Len(fifo') = Len(fifo) + 1
        /\ \A i \in 1..Len(fifo) : fifo'[i] = fifo[i]
        /\ fifo'[Len(fifo) + 1].slot = Len(fifo)
    BY <1>3, <2>1, <2>2, AppendCells DEF Prime, TileInFlight
  <2>4. \A i \in 1..Len(fifo') : fifo'[i].slot = i - 1
    BY <1>t, <2>1, <2>3 DEF PrimeOK
  <2>5. QED
    BY <1>t, <2>1, <2>3, <2>4, RoundsAssumption DEF PrimeOK
<1>4. CASE QuietInRound /\ ~Prime
  BY <1>4 DEF QuietInRound, Primed, Collect, Refill, YieldShare, AbandonSearch,
              BatchDone, SweepEnds, SearchRaises
<1>5. CASE Promote \/ RoundRaises
  BY <1>5 DEF Promote, RoundRaises
<1>6. CASE Prefetch \/ (\E s \in SearchSlot : FinishTile(s)) \/ Environment
  <2>1. UNCHANGED <<mpc, swept, yielded, fifo>>
    BY <1>6, EnvironmentLeaves
       DEF Prefetch, PrefetchBeginSetJob, PrefetchEndSetJob, PrefetchFails,
           FinishTile, sweep
  <2>2. QED
    BY <1>t, <2>1 DEF PrimeOK
<1>7. QED
  BY <1>1, <1>2, <1>3, <1>4, <1>5, <1>6, Steps

\* The host copy is the collected tile's, and stays so while the search slot
\* it came from searches the next tile (jackpot_coopmat.py 316-342).
LEMMA BatchStep == IndInv /\ [Next]_vars => BatchOK'
<1> SUFFICES ASSUME IndInv, [Next]_vars PROVE BatchOK'
  OBVIOUS
<1>t. TypeOK /\ BatchOK /\ DeviceOK /\ SweepOrder
  BY SweepParts DEF IndInv
<1>1. CASE \/ EnterCall \/ BeginSetJob0 \/ EndSetJob0 \/ Preflight0Fails \/ LeaveCall
           \/ StartRound \/ Promote \/ RoundRaises
  <2>1. mpc' \notin {"refill", "yield"}
    BY <1>1 DEF EnterCall, BeginSetJob0, EndSetJob0, Preflight0Fails, LeaveCall,
                StartRound, Promote, RoundRaises
  <2>2. QED
    BY <2>1 DEF BatchOK
<1>2. CASE Prime \/ Primed \/ AbandonSearch \/ BatchDone \/ SweepEnds \/ SearchRaises
  <2>1. mpc' \notin {"refill", "yield"}
    BY <1>2 DEF Prime, Primed, AbandonSearch, BatchDone, SweepEnds, SearchRaises
  <2>2. QED
    BY <2>1 DEF BatchOK
<1>3. CASE Collect
  <2> DEFINE s == Head(fifo).slot
  <2>1. /\ s \in SearchSlot /\ Len(fifo) \in Nat \ {0} /\ fifo[1].slot = s
        /\ gpu[s].st = "done" /\ gpu'[s].st = "idle"
        /\ swept \in Nat /\ swept' = swept + 1 /\ mpc = "collect"
        /\ UNCHANGED <<work, state>>
    BY <1>3, CollectLeaves
  <2>2. /\ batch' = [slot |-> s, left |-> Least(hit[s].n, MaxHits)]
        /\ rec' = [rec EXCEPT ![s] = [hit[s] EXCEPT !.n = Least(hit[s].n, MaxHits)]]
        /\ stopSeen' = ShouldStop /\ cutShort' = (cutShort \/ ShouldStop)
    BY <1>3 DEF Collect
  <2> HIDE DEF s
  <2>3. hit[s] \in HitBuffer /\ rec \in [SearchSlot -> HitBuffer]
    BY <1>t, <2>1 DEF TypeOK
  <2>4. hit[s].seed = state /\ hit[s].job = work /\ hit[s].tile = gpu[s].tile
    BY <1>t, <2>1 DEF DeviceOK, InSweep
  <2>5. gpu[s].tile = swept
    <3>1. 1 \in 1..Len(fifo)
      BY <2>1
    <3>2. fifo[1].tile = swept + 1 - 1 /\ gpu[fifo[1].slot].tile = fifo[1].tile
      BY <1>t, <2>1, <3>1 DEF SweepOrder, InFlight, InSweep
    <3>3. QED
      BY <2>1, <3>2
  <2>6. rec'[s] = [hit[s] EXCEPT !.n = Least(hit[s].n, MaxHits)]
    BY <2>1, <2>2, <2>3
  <2>7. /\ rec'[s].seed = state /\ rec'[s].job = work /\ rec'[s].tile = swept
        /\ rec'[s].n = Least(hit[s].n, MaxHits)
    BY <2>3, <2>4, <2>5, <2>6 DEF HitBuffer
  <2>8. Least(hit[s].n, MaxHits) \in Nat
    BY <1>t, <2>1, Fields, RoundsAssumption DEF Least
  <2>9. batch'.slot = s /\ batch'.left = Least(hit[s].n, MaxHits)
    BY <2>2
  <2>10. stopSeen' => cutShort'
    BY <2>2
  <2>11. rec'[batch'.slot].n = batch'.left /\ swept = swept' - 1
    BY <2>1, <2>7, <2>9
  <2>12. QED
    BY <2>1, <2>7, <2>8, <2>9, <2>10, <2>11 DEF BatchOK
<1>4. CASE Refill
  <2>1. /\ mpc = "refill" /\ mpc' # "refill"
        /\ UNCHANGED <<work, state, batch, swept, rec>>
    BY <1>4 DEF Refill, SubmitTile, device
  <2>2. QED
    BY <1>t, <2>1 DEF BatchOK
<1>5. CASE YieldShare
  <2>1. /\ mpc = "yield" /\ batch.left > 0 /\ batch' = [batch EXCEPT !.left = @ - 1]
        /\ UNCHANGED <<mpc, work, state, swept, rec>>
    BY <1>5 DEF YieldShare, device
  <2>2. batch \in TileBatch /\ batch.left \in Nat
    BY <1>t, Fields DEF TypeOK
  <2>3. batch'.slot = batch.slot /\ batch'.left = batch.left - 1
    BY <2>1, <2>2 DEF TileBatch
  <2>4. rec[batch.slot] \in HitBuffer
    BY <1>t, Fields DEF TypeOK
  <2>5. rec[batch.slot].n \in Nat
    BY <2>4 DEF HitBuffer
  <2>6. QED
    BY <1>t, <2>1, <2>2, <2>3, <2>5 DEF BatchOK
<1>6. CASE Prefetch \/ Environment
  <2>1. UNCHANGED <<mpc, work, state, gpu, batch, stopSeen, cutShort, swept, rec>>
    BY <1>6, EnvironmentLeaves
       DEF Prefetch, PrefetchBeginSetJob, PrefetchEndSetJob, PrefetchFails, sweep, device
  <2>2. QED
    BY <1>t, <2>1 DEF BatchOK
<1>7. ASSUME NEW s \in SearchSlot, FinishTile(s) PROVE BatchOK'
  <2>1. /\ gpu[s].st = "running" /\ \A t \in SearchSlot \ {s} : gpu'[t] = gpu[t]
        /\ UNCHANGED <<mpc, work, state, batch, stopSeen, cutShort, swept, rec>>
    BY <1>t, <1>7, FinishLeaves DEF sweep
  <2>2. batch.slot \in SearchSlot
    BY <1>t, Fields
  <2>3. QED
    BY <1>t, <2>1, <2>2 DEF BatchOK
<1>8. QED
  BY <1>1, <1>2, <1>3, <1>4, <1>5, <1>6, <1>7, Steps DEF QuietInRound

\* A sweep does not run dry without a reason (jackpot_coopmat.py 307-340).
LEMMA ProgressStep == IndInv /\ [Next]_vars => ProgressOK'
<1> SUFFICES ASSUME IndInv, [Next]_vars, mpc' \in {"collect", "yield"} PROVE ProgressOK'
  BY DEF ProgressOK
<1>t. TypeOK /\ BatchOK /\ ProgressOK
  BY DEF IndInv
<1>n. /\ nextIdx \in 0..NTiles /\ yielded \in 0..MaxReturn /\ fifo \in Seq(TileInFlight)
  BY <1>t DEF TypeOK, Tile
<1>1. CASE \/ EnterCall \/ BeginSetJob0 \/ EndSetJob0 \/ Preflight0Fails \/ LeaveCall
           \/ StartRound \/ Promote \/ RoundRaises
  BY <1>1 DEF EnterCall, BeginSetJob0, EndSetJob0, Preflight0Fails, LeaveCall,
              StartRound, Promote, RoundRaises
<1>2. CASE Prime \/ Collect \/ AbandonSearch \/ SweepEnds \/ SearchRaises
  BY <1>2 DEF Prime, Collect, AbandonSearch, SweepEnds, SearchRaises
<1>3. CASE Primed
  <2>1. UNCHANGED <<nextIdx, fifo>> /\ (nextIdx >= NTiles \/ Len(fifo) >= NSLOT)
    BY <1>3 DEF Primed, sweep
  <2>2. QED
    BY <1>n, <2>1, RoundsAssumption DEF ProgressOK
<1>4. CASE Refill
  <2>1. UNCHANGED <<yielded, cutShort, stopSeen>> /\ mpc = "refill"
    BY <1>4 DEF Refill
  <2>2. CASE CanRefill
    <3>1. fifo' = Append(fifo, [slot |-> batch.slot, tile |-> nextIdx])
      BY <1>4, <2>2 DEF Refill
    <3>2. fifo' # <<>>
      BY <1>n, <1>t, <3>1, AppendCells, Fields DEF TileInFlight, Tile
    <3>3. QED
      BY <3>2 DEF ProgressOK
  <2>3. CASE ~CanRefill
    <3>1. nextIdx' = nextIdx
      BY <1>4, <2>3 DEF Refill
    <3>2. nextIdx >= NTiles \/ yielded >= MaxReturn \/ stopSeen
      BY <1>n, <2>3, RoundsAssumption DEF CanRefill
    <3>3. stopSeen => cutShort
      BY <1>t, <2>1 DEF BatchOK
    <3>4. QED
      BY <1>n, <2>1, <3>1, <3>2, <3>3, RoundsAssumption DEF ProgressOK
  <2>4. QED
    BY <2>2, <2>3
<1>5. CASE YieldShare
  <2>1. /\ mpc = "yield" /\ yielded' = yielded + 1
        /\ UNCHANGED <<cutShort, nextIdx, fifo>>
    BY <1>5 DEF YieldShare
  <2>2. QED
    BY <1>n, <1>t, <2>1, RoundsAssumption DEF ProgressOK
<1>6. CASE BatchDone
  <2>1. mpc = "yield" /\ UNCHANGED <<cutShort, yielded, nextIdx, fifo>>
    BY <1>6 DEF BatchDone, sweep
  <2>2. QED
    BY <1>t, <2>1 DEF ProgressOK
<1>7. CASE Prefetch \/ (\E s \in SearchSlot : FinishTile(s)) \/ Environment
  <2>1. UNCHANGED <<mpc, cutShort, yielded, nextIdx, fifo>>
    BY <1>7, EnvironmentLeaves
       DEF Prefetch, PrefetchBeginSetJob, PrefetchEndSetJob, PrefetchFails,
           FinishTile, sweep
  <2>2. QED
    BY <1>t, <2>1 DEF ProgressOK
<1>8. QED
  BY <1>1, <1>2, <1>3, <1>4, <1>5, <1>6, <1>7, Steps DEF QuietInRound

\* The stop is seen before the second tile after it (jackpot_coopmat.py 326-333,
\* miner.py 456-458).
LEMMA LateStep == IndInv /\ [Next]_vars => LateOK' /\ StopWithinTiles'
<1> SUFFICES ASSUME IndInv, [Next]_vars PROVE LateOK' /\ StopWithinTiles'
  OBVIOUS
<1>t. TypeOK /\ LateOK /\ StopWithinTiles
  BY DEF IndInv
<1>n. lateTiles \in Nat /\ stopEvt \in BOOLEAN /\ Len(fifo) \in Nat
  BY <1>t, Fields DEF TypeOK
<1>1. CASE \/ EnterCall \/ BeginSetJob0 \/ EndSetJob0 \/ Preflight0Fails \/ LeaveCall
           \/ Promote \/ RoundRaises
  <2>1. UNCHANGED <<stopEvt, lateTiles>> /\ mpc' \notin {"prime", "refill"}
    BY <1>1 DEF EnterCall, BeginSetJob0, EndSetJob0, Preflight0Fails, LeaveCall,
                Promote, RoundRaises, pool
  <2>2. QED
    BY <1>t, <2>1 DEF LateOK, StopWithinTiles
<1>2. CASE StartRound
  <2>1. /\ ~stopEvt /\ UNCHANGED <<stopEvt, lateTiles>> /\ mpc' = "prime" /\ fifo' = <<>>
    BY <1>2 DEF StartRound, ShouldStop, pool
  <2>2. lateTiles = 0
    BY <1>t, <2>1 DEF LateOK
  <2>3. QED
    BY <1>t, <2>1, <2>2 DEF LateOK, StopWithinTiles
<1>3. CASE Prime
  <2>1. PrimeSlot \in SearchSlot /\ Submits(PrimeSlot)
    BY <1>3, PrimeSubmits
  <2>2. lateTiles' <= lateTiles + 1 /\ lateTiles' \in Nat /\ (~stopEvt => lateTiles' = lateTiles)
    BY <1>t, <2>1, SubmitLeaves DEF Submits
  <2>3. /\ mpc = "prime" /\ mpc' = "prime" /\ Len(fifo) < NSLOT /\ stopEvt' = stopEvt
    BY <1>3 DEF Prime, pool
  <2>4. Len(fifo') = Len(fifo) + 1
    BY <1>t, <2>1, AppendCells DEF Submits, TypeOK, TileInFlight
  <2>5. QED
    BY <1>n, <1>t, <2>2, <2>3, <2>4, RoundsAssumption DEF LateOK, StopWithinTiles
<1>4. CASE Collect
  <2>1. /\ UNCHANGED <<stopEvt, lateTiles>> /\ mpc' = "refill" /\ stopSeen' = ShouldStop
    BY <1>4 DEF Collect, pool
  <2>2. QED
    BY <1>t, <2>1 DEF LateOK, StopWithinTiles, ShouldStop
<1>5. CASE Refill /\ CanRefill
  <2>1. batch.slot \in SearchSlot /\ Submits(batch.slot)
    BY <1>5, RefillSubmits
  <2>2. lateTiles' <= lateTiles + 1 /\ lateTiles' \in Nat /\ (~stopEvt => lateTiles' = lateTiles)
    BY <1>t, <2>1, SubmitLeaves DEF Submits
  <2>3. mpc = "refill" /\ mpc' = "yield" /\ ~stopSeen /\ stopEvt' = stopEvt
    BY <1>5 DEF Refill, CanRefill, pool
  <2>4. lateTiles = 0
    BY <1>t, <2>3 DEF LateOK
  <2>5. QED
    BY <1>n, <2>2, <2>3, <2>4, RoundsAssumption DEF LateOK, StopWithinTiles
<1>6. CASE \/ Primed \/ (Refill /\ ~CanRefill) \/ YieldShare \/ AbandonSearch \/ BatchDone
           \/ SweepEnds \/ SearchRaises
  <2>1. UNCHANGED <<stopEvt, lateTiles>> /\ mpc' \notin {"prime", "refill"}
    BY <1>6 DEF Primed, Refill, YieldShare, AbandonSearch, BatchDone, SweepEnds,
                SearchRaises, pool
  <2>2. QED
    BY <1>t, <2>1 DEF LateOK, StopWithinTiles
<1>7. CASE Prefetch \/ (\E s \in SearchSlot : FinishTile(s)) \/ NewJob \/ Over \/ UNCHANGED vars
  <2>1. UNCHANGED <<mpc, stopEvt, lateTiles, fifo, stopSeen>>
    BY <1>7
       DEF Prefetch, PrefetchBeginSetJob, PrefetchEndSetJob, PrefetchFails,
           FinishTile, NewJob, Over, vars, pool, sweep
  <2>2. QED
    BY <1>t, <2>1 DEF LateOK, StopWithinTiles
<1>8. CASE Stop
  <2>1. ~stopEvt /\ stopEvt' /\ UNCHANGED <<mpc, lateTiles, fifo, stopSeen>>
    BY <1>8 DEF Stop, sweep
  <2>2. QED
    BY <1>t, <2>1 DEF LateOK, StopWithinTiles
<1>9. QED
  BY <1>1, <1>2, <1>3, <1>4, <1>5, <1>6, <1>7, <1>8, Steps DEF QuietInRound, Environment

\* IndInv is an invariant of the continuous search.
LEMMA Inductive == Safety => []IndInv
<1>1. Init => IndInv
  BY InitIndInv
<1>2. IndInv /\ [Next]_vars => IndInv'
  <2> SUFFICES ASSUME IndInv, [Next]_vars PROVE IndInv'
    OBVIOUS
  <2>1. TypeOK' /\ ThreadsOK' /\ SlotsOK'
    BY TypeStep, ThreadsStep, SlotsStep
  <2>2. DeviceOK' /\ SweepOrder' /\ SweepWhole' /\ IdleOutside'
    BY TilesStep, SweepOverStep
  <2>3. PrimeOK' /\ BatchOK' /\ ProgressOK'
    BY PrimeStep, BatchStep, ProgressStep
  <2>4. LateOK' /\ StopWithinTiles'
    BY LateStep
  <2>5. SweepExact'
    BY <2>2 DEF SweepExact, SweepOrder, SweepWhole, IdleOutside
  <2>6. QED
    BY <2>1, <2>2, <2>3, <2>4, <2>5 DEF IndInv
<1>3. QED
  BY <1>1, <1>2, PTL DEF Safety

-----------------------------------------------------------------------------
(***************************************************************************)
(* The invariants of the runs.                                             *)
(***************************************************************************)

\* Every variable keeps its type (jackpot_coopmat.py 262-342, miner.py 541-660).
THEOREM TypeCorrect == Safety => []TypeOK
<1>1. IndInv => TypeOK
  BY DEF IndInv
<1>2. QED
  BY <1>1, Inductive, PTL

\* Whatever the prefetch thread writes meanwhile and however early its search
\* slot is refilled, a share handed out was found in the matrices and under the
\* job its proof will be built for (miner.py 609-627).
THEOREM SharesMatchStateHolds == Safety => []SharesMatchState
<1>1. IndInv => SharesMatchState
  BY DEF IndInv, BatchOK, SharesMatchState
<1>2. QED
  BY <1>1, Inductive, PTL

\* The sweep is exact for every number of tiles and search slots
\* (jackpot_coopmat.py 307-340).
THEOREM SweepExactHolds == Safety => []SweepExact
<1>1. IndInv => SweepExact
  BY DEF IndInv
<1>2. QED
  BY <1>1, Inductive, PTL

\* A stop is honoured within one tile per search slot (miner.py 456-458).
THEOREM StopWithinTilesHolds == Safety => []StopWithinTiles
<1>1. IndInv => StopWithinTiles
  BY DEF IndInv
<1>2. QED
  BY <1>1, Inductive, PTL

-----------------------------------------------------------------------------
(***************************************************************************)
(* The job slots' contract: the refinement of JobSlots, step by step.      *)
(***************************************************************************)
content == [j \in JobSlot |-> slot[j].st]
readers == [j \in JobSlot |->
              {s \in SearchSlot : gpu[s].st = "running" /\ gpu[s].job = j}]

\* A step that leaves the slots' contents and the tiles alone is a stutter.
LEMMA Untouched ==
  ASSUME UNCHANGED <<slot, gpu>>
  PROVE  UNCHANGED Contract!slotVars
  BY DEF Contract!slotVars

\* Rebuilding a slot no tile is reading is a BeginBuild.
LEMMA BuildImplements ==
  ASSUME TypeOK, NEW j \in JobSlot, BeginSetJob(j), gpu' = gpu,
         \A s \in SearchSlot : ~(gpu[s].st = "running" /\ gpu[s].job = j)
  PROVE  Contract!SlotsNext
<1>1. slot'[j].st = "building" /\ \A i \in JobSlot \ {j} : slot'[i] = slot[i]
  BY BeginSetJobLeaves
<1>2. readers[j] = {}
  BY DEF readers
<1>3. content' = [content EXCEPT ![j] = "building"]
  BY <1>1 DEF content
<1>4. readers' = readers
  BY DEF readers
<1>5. QED
  BY <1>2, <1>3, <1>4 DEF Contract!SlotsNext, Contract!BeginBuild, content, readers

\* Completing it is an EndBuild.
LEMMA CompleteImplements ==
  ASSUME TypeOK, NEW j \in JobSlot, NEW sd \in Seed \cup {NoSeed}, EndSetJob(j, sd),
         gpu' = gpu, slot[j].st = "building"
  PROVE  Contract!SlotsNext
<1>1. slot'[j] = Built(sd, work) /\ \A i \in JobSlot \ {j} : slot'[i] = slot[i]
  BY EndSetJobLeaves
<1>2. content[j] = "building"
  BY DEF content
<1>3. content' = [content EXCEPT ![j] = "ready"]
  <2>1. slot'[j].st = "ready"
    BY <1>1 DEF Built
  <2>2. QED
    BY <1>1, <2>1 DEF content
<1>4. readers' = readers
  BY DEF readers
<1>5. QED
  BY <1>2, <1>3, <1>4 DEF Contract!SlotsNext, Contract!EndBuild, content, readers

\* Submitting a tile is a BeginRead of the round's slot, which is ready.
LEMMA SubmitImplements ==
  ASSUME IndInv, NEW t \in SearchSlot, Submits(t)
  PROVE  Contract!SlotsNext
<1>1. TypeOK /\ SlotsOK
  BY DEF IndInv
<1>2. cur \in JobSlot /\ slot' = slot /\ mpc \in InRound
  BY <1>1 DEF TypeOK, Submits, InRound
<1>3. content[cur] = "ready"
  BY <1>1, <1>2 DEF SlotsOK, Built, content
<1>4. /\ gpu[t].st = "idle" /\ gpu'[t].st = "running" /\ gpu'[t].job = cur
      /\ \A s \in SearchSlot \ {t} : gpu'[s] = gpu[s]
  BY <1>1, SubmitLeaves DEF Submits
<1>5. \A i \in JobSlot : t \notin readers[i]
  BY <1>4 DEF readers
<1>6. readers' = [readers EXCEPT ![cur] = @ \cup {t}]
  <2>1. \A i \in JobSlot : readers'[i] = IF i = cur THEN readers[i] \cup {t} ELSE readers[i]
    BY <1>2, <1>4 DEF readers
  <2>2. readers' = [i \in JobSlot |-> readers'[i]]
    BY DEF readers
  <2>3. QED
    BY <1>2, <2>1, <2>2 DEF readers
<1>7. content' = content
  BY <1>2 DEF content
<1>8. QED
  BY <1>2, <1>3, <1>5, <1>6, <1>7 DEF Contract!SlotsNext, Contract!BeginRead, content, readers

\* Finishing it is an EndRead.
LEMMA FinishImplements ==
  ASSUME TypeOK, NEW s \in SearchSlot, FinishTile(s)
  PROVE  Contract!SlotsNext
<1>1. PICK j \in JobSlot : j = gpu[s].job
  BY Fields
<1>2. /\ gpu[s].st = "running" /\ gpu'[s].st = "done" /\ slot' = slot
      /\ \A t \in SearchSlot \ {s} : gpu'[t] = gpu[t]
  BY FinishLeaves
<1>3. s \in readers[j]
  BY <1>1, <1>2 DEF readers
<1>4. readers' = [readers EXCEPT ![j] = @ \ {s}]
  <2>1. \A t \in SearchSlot, i \in JobSlot :
          (gpu'[t].st = "running" /\ gpu'[t].job = i) <=>
            (gpu[t].st = "running" /\ gpu[t].job = i /\ t # s)
    BY <1>2
  <2>2. \A i \in JobSlot : readers'[i] = readers[i] \ {s}
    BY <2>1 DEF readers
  <2>3. \A i \in JobSlot : i # j => s \notin readers[i]
    BY <1>1 DEF readers
  <2>4. /\ readers = [i \in JobSlot |-> readers[i]]
        /\ readers' = [i \in JobSlot |-> readers'[i]]
    BY DEF readers
  <2>5. \A i \in JobSlot : readers'[i] = IF i = j THEN readers[i] \ {s} ELSE readers[i]
    BY <2>2, <2>3
  <2>6. QED
    BY <2>4, <2>5
<1>5. content' = content
  BY <1>2 DEF content
<1>6. QED
  BY <1>3, <1>4, <1>5 DEF Contract!SlotsNext, Contract!EndRead, content, readers

\* Collecting a finished tile changes no reader: it had stopped reading.
LEMMA CollectStutters ==
  ASSUME IndInv, Collect
  PROVE  UNCHANGED Contract!slotVars
<1> DEFINE s == Head(fifo).slot
<1>1. /\ s \in SearchSlot /\ gpu[s].st = "done" /\ gpu'[s].st = "idle"
      /\ \A t \in SearchSlot \ {s} : gpu'[t] = gpu[t]
  BY CollectLeaves
<1>2. slot' = slot
  BY DEF Collect
<1> HIDE DEF s
<1>3. \A t \in SearchSlot, j \in JobSlot :
        (gpu'[t].st = "running" /\ gpu'[t].job = j) <=> (gpu[t].st = "running" /\ gpu[t].job = j)
  BY <1>1
<1>4. readers' = readers
  BY <1>3 DEF readers
<1>5. content' = content
  BY <1>2 DEF content
<1>6. QED
  BY <1>4, <1>5 DEF Contract!slotVars, content, readers

\* Every step is a step of the contract or leaves its state alone.
LEMMA StepKeepsContract ==
  IndInv /\ [Next]_vars => [Contract!SlotsNext]_Contract!slotVars
<1> SUFFICES ASSUME IndInv, [Next]_vars
             PROVE  Contract!SlotsNext \/ UNCHANGED Contract!slotVars
  OBVIOUS
<1>t. TypeOK /\ ThreadsOK /\ SlotsOK /\ DeviceOK /\ IdleOutside
  BY SweepParts DEF IndInv
<1>c. cur \in JobSlot
  BY <1>t DEF TypeOK
<1>1. CASE \/ EnterCall \/ Preflight0Fails \/ LeaveCall \/ StartRound \/ Promote \/ RoundRaises
  <2>1. UNCHANGED <<slot, gpu>>
    BY <1>1 DEF EnterCall, Preflight0Fails, LeaveCall, StartRound, Promote, RoundRaises,
                device
  <2>2. QED
    BY <2>1, Untouched
<1>2. CASE BeginSetJob0
  <2>1. mpc = "derive0" /\ BeginSetJob(cur) /\ gpu' = gpu
    BY <1>2 DEF BeginSetJob0, device
  <2>2. \A s \in SearchSlot : ~(gpu[s].st = "running" /\ gpu[s].job = cur)
    BY <1>t, <2>1 DEF IdleOutside
  <2>3. QED
    BY <1>t, <1>c, <2>1, <2>2, BuildImplements
<1>3. CASE EndSetJob0
  <2>1. mpc = "set0" /\ EndSetJob(cur, state) /\ gpu' = gpu
    BY <1>3 DEF EndSetJob0, device
  <2>2. slot[cur].st = "building" /\ state \in Seed \cup {NoSeed}
    BY <1>t, <2>1 DEF SlotsOK, TypeOK
  <2>3. QED
    BY <1>t, <1>c, <2>1, <2>2, CompleteImplements
<1>4. CASE Prime
  BY <1>4, PrimeSubmits, SubmitImplements
<1>5. CASE Refill /\ CanRefill
  BY <1>5, RefillSubmits, SubmitImplements
<1>6. CASE Collect
  BY <1>6, CollectStutters
<1>7. CASE QuietInRound /\ ~Prime /\ ~Collect /\ ~(Refill /\ CanRefill)
  BY <1>7, QuietTiles, QuietLeaves, Untouched
<1>8. CASE Prefetch
  <2>1. mpc \in InRound /\ gpu' = gpu
    BY <1>8, PrefetchInRound
       DEF Prefetch, PrefetchBeginSetJob, PrefetchEndSetJob, PrefetchFails, device
  <2>2. NextSlot(cur) \in JobSlot /\ NextSlot(cur) # cur
    BY <1>c, NextSlotIsOther
  <2>3. \A s \in SearchSlot : ~(gpu[s].st = "running" /\ gpu[s].job = NextSlot(cur))
    <3>1. ASSUME NEW s \in SearchSlot, gpu[s].st = "running" PROVE gpu[s].job = cur
      <4>1. mpc # "join"
        BY <1>t, <3>1 DEF IdleOutside
      <4>2. mpc \in InSweep \cup {"raise"}
        BY <2>1, <4>1 DEF InRound
      <4>3. QED
        BY <1>t, <3>1, <4>2 DEF DeviceOK
    <3>2. QED
      BY <2>2, <3>1
  <2>4. CASE PrefetchBeginSetJob
    <3>1. BeginSetJob(NextSlot(cur))
      BY <2>4 DEF PrefetchBeginSetJob
    <3>2. QED
      BY <1>t, <2>1, <2>2, <2>3, <3>1, BuildImplements
  <2>5. CASE PrefetchEndSetJob
    <3>1. EndSetJob(NextSlot(cur), pf.seed) /\ pf.st = "set"
      BY <2>5 DEF PrefetchEndSetJob
    <3>2. slot[NextSlot(cur)].st = "building" /\ pf.seed \in Seed \cup {NoSeed}
      BY <1>t, <3>1, Fields DEF SlotsOK
    <3>3. QED
      BY <1>t, <2>1, <2>2, <3>1, <3>2, CompleteImplements
  <2>6. CASE PrefetchFails
    <3>1. slot' = slot
      BY <2>6 DEF PrefetchFails
    <3>2. QED
      BY <2>1, <3>1, Untouched
  <2>7. QED
    BY <1>8, <2>4, <2>5, <2>6 DEF Prefetch
<1>9. ASSUME NEW s \in SearchSlot, FinishTile(s) PROVE Contract!SlotsNext
  BY <1>t, <1>9, FinishImplements
<1>10. CASE Environment
  <2>1. UNCHANGED <<slot, gpu>>
    BY <1>10, EnvironmentLeaves DEF device
  <2>2. QED
    BY <2>1, Untouched
<1>11. QED
  BY <1>1, <1>2, <1>3, <1>4, <1>5, <1>6, <1>7, <1>8, <1>9, <1>10, Steps DEF QuietInRound

\* The mining thread, the prefetch thread and the GPU together keep the job
\* slots' contract: no slot is rebuilt while a tile reads it, none is read
\* before it is built (jackpot_coopmat_vk.cpp 222-246, miner.py 550-566).
THEOREM KeepsContractHolds == Safety => KeepsContract
<1>1. Init => Contract!SlotsInit
  <2>1. ASSUME Init PROVE Contract!SlotsInit
    <3>1. \A j \in JobSlot : slot[j].st = "empty"
      BY <2>1 DEF Init, Empty
    <3>2. \A s \in SearchSlot : gpu[s].st = "idle"
      BY <2>1 DEF Init, Idle
    <3>3. QED
      BY <3>1, <3>2 DEF Contract!SlotsInit
  <2>2. QED
    BY <2>1
<1>2. QED
  BY <1>1, Inductive, StepKeepsContract, PTL DEF Safety, KeepsContract, Contract!SlotsSpec
=============================================================================
