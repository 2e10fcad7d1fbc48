# Verification of the pearl miner

TLA+ modules, TLC runs and TLAPS proofs about the GPU miner in this repository
(`src/src`, paths below are relative to it). The miner logs in to a stratum
pool, derives two matrices from a seed, searches tiles of their product for
hashes below a target on the GPU, and submits each find as a proof.

## Inventory

| part | state | operations | who it talks to |
|---|---|---|---|
| `pearl_amd/stratum_client.py` | socket, id counter, `_pending`, `_responses`, `_disconnected`, dialect | connect, handshake, `_call`, reader loop, `_dispatch`, close | pool (messages), session (callbacks), submit threads (calls) |
| `pearl_amd/stratum_session.py` | latest notify, params, difficulty, current `Work` | `_on_*` callbacks, `_maybe_emit_work`, wait_for_work, reconnect runner | client, miner |
| `pearl_amd/miner.py` | evaluators, current `MinerState` | preflight, one-job search, coopmat round, continuous loop, submit | session, evaluators |
| `pearl_amd/jackpot_coopmat.py` | readback buffers, `last_attempts` | set_job, search, search_all_stream | Vulkan library |
| `pearl_amd/vk/jackpot_coopmat_vk.cpp` | job slots (PA, PB, KEY), search slots (fence, target, hits), shape | set_job_slot, search_submit, search_collect | GPU |
| `scripts/35_run_miner_live.py` | stop event, counters | main loop, stop predicate, timers, event sink | all of the above |
| `mining_config.py`, `candidate_search.py` | none | patterns and their bytes, the candidate grid, the CPU search | miner |
| `merkle_proof.py`, `merkle_gpu.py`, `kernels/blake3_merkle.cl` | device buffers | trees of a matrix, multileaf proofs | miner, pool |
| `jackpot.py`, `proof_builder.py`, `derive_matrix_gpu.py`, `pearl_noise_gpu.py` | device buffers | matrices, noise, jackpot words | miner, evaluators |
| `jackpot_gpu.py`, `jackpot_vk.py`, their kernels | the job on the device | set_job, batched search | miner |
| `plain_proof_codec.py` | none | the wire form of a proof | miner, pool |
| `solve_challenge`, `blake3_challenge_gpu.py`, `kernels/blake3_challenge.cl` | stop flag, result queue or slot | search of a nonce | client |
| `scripts/34_miner_offline.py` | none | one share, without a pool | the pure parts |

What is hard here is concurrency: one reader thread, a mining thread, a
prefetch thread, a pool of submit threads, timers, and a GPU that runs
asynchronously; with failures at each of them, a pool that may answer late or
never and drop the connection, and stop requests and job changes at any time.
Nothing is persisted, so there is no crash recovery. What makes each part right:

* round pipeline: no share lost, duplicated or sent twice; the round ends,
  with nothing left running, and tells its caller the truth; a stop and an error
  take effect within a bound;
* continuous mining: a share is proved with the matrices it was found in; job
  and search slots are never overwritten while read; the sweep is complete; a
  stop or a job change is honoured;
* calls: each call gets its own reply or the right exception, ends once its
  request is out, and leaves nothing in the tables;
* session: the announced work is the newest and not a mixture; disconnects
  reach whoever waits; the reconnect loop stops;
* main thread: a search uses an evaluator that holds the job it was given,
  however the others failed; no more than max-hits shares are submitted; a stop
  ends it;
* pure parts: a proof reaches the roots committed to, all implementations of
  trees, jackpot words and searches agree, encodings round-trip, the enumerated
  grid is exactly the valid one;
* challenge: the nonce is one the pool takes, and the solver ends.

`PROJECT.json` lists the hazards at their lines.

## Modules

`CoopmatPipeline` is `_search_coopmat_pipelined`. `ppc` is the program point of
the calling thread, `wpc[w]` that of submit thread `w`, `q` the queue
(candidates are numbered as the search yields them, `None` is the sentinel),
`err` and `nSubmitted` the two cells the threads share. The GPU search is
reduced to "next candidate, end, or exception"; each `with lock` block, each
queue operation and each read of the predicate is one action. The predicate may
become true and, as a job key can come back, false again. `outcome`, `attempts`,
`late` and `latePuts` are history.

`ShareRound` is what a round promises: accepted shares are decided once each,
and the result, given after the last decision, is truthful. `CoopmatPipeline`
implements it with `accepted <- yielded` and the `result` defined there.

`CoopmatRounds` is the level above: `mine_coopmat_continuous`, re-entered by the
live script for each job, the prefetch thread (`pf`), `search_all_stream`
(`mpc`, `nextIdx`, `fifo`, `batch`, `yielded`, `stopSeen`) and the library's
context (`slot`, `shape`, `gpu`, `hit`, `rec`). `jcm_set_job_slot` is two steps,
freeing and complete, because tiles run meanwhile. A finished tile writes the
seed and job it read into `hit`, so that a share found in the wrong matrices is
visible. The submit threads appear only as the error that makes the loop leave
the search.

`JobSlots` is the contract comment of `jcm_set_job_slot` as a state machine;
`CoopmatRounds` implements it (`KeepsContract`).

`StratumRpc` is `_call`, `_send`, the reader loop and the reply path of
`_dispatch`. A call is a process; a thread's successive calls are one of the
interleavings of separate calls. Each critical section of `_lock` is one action,
and `ev.set()`, which follows the section in `_dispatch`, another. The tables are
sets of pairs id and call. The socket may be down while a write still succeeds,
and the reader may end while the socket is up (an exception in `_dispatch`).
`_send` is two actions, taking `_send_lock` and returning from `sendall`: the
socket has no timeout, so `Send` is not enabled while the connection is up and the
pool has stopped reading (`Stalled`), and the lock is held meanwhile.

`StratumSession` is one session with the handshake of its client: `mpc` is the
program point of the thread that calls `start` and then `wait_for_work`, `rpc`
the reader thread, `emit[t]` how far thread `t` is in `_maybe_emit_work`, which
both run: assembling under the lock is one action, the event and the callback
are one each, as they come after the lock. An announcement is its age and what
becomes of it (a notify with or without target; parameters that are good, give no
configuration, or lack `m` and `n`; a difficulty that divides, is not positive,
or makes the division fail). The pool is not constrained. `own`, `told`, `got`,
`challenged` and `lostAtCall` are history. The login's reply path is in
`StratumRpc`, mining in `CoopmatRounds`.

`SessionRunner` is `run_session_with_reconnect`; a session is reduced to its start,
its connection and its end. `abandoned` counts the connections whose `start` raised:
`__exit__` is not called for a failed `__enter__`, so only the pool closes them.
`slept` and `owed` are history, the pause before this attempt and the one that the
connections abandoned in a row call for.

`ShareAssembly` is a share from the pool's parameters to the wire, in the order
of the offline script: `Configure`, `Derive`, `BuildTrees`, `SetJob`, `Search`,
`Prove`, each action one stretch of calls with all the input it may have
(pattern, shape, seed, where the matrices are derived and the trees built, which
candidates win, cap, batch size, difficulty). `TreesFrom` is what `_preflight` makes
of `path` and the size of A: both trees from the derivation's device buffers, both
from bytes uploaded by the host, which pads a partial last chunk, or both on the
CPU. It uses one module for each algorithm, in which a
definition has the name of the function it stands for:

* `MerkleTree`: `merkle_proof.py` and the host and kernels of the device's tree. A
  chaining value is the term of the compressions it comes from, so two are equal
  exactly when the bytes, counters, lengths and flags hashed are; `Replay` is the
  verifier of the self-test.
* `Patterns`: lists to patterns, six bytes and back, what is refused, the offsets
  of the candidate grid, and the coopmat kernel's own numbering of them.
* `Jackpot`: matrices and noise over abstract random functions, the words of one
  candidate on the CPU, and what each kernel computes in their place: tables of
  the whole matrices, slices of the rank, tiles, packed bytes. Words have
  `WordBits` bits and wrap; int7 and int8 conversions are those of the code.
* `CandidateSearch`: the CPU loop, the batches of the OpenCL and Vulkan hosts, and
  the sweep over coopmat workgroups, with caps, cuts and the choice of a winner.
* `ShareTarget`: difficulty to target, the adjustment factor, the clamp, and the
  comparison of a digest as a number and word by word.
* `PlainProofCodec`: encoder and decoder of a proof. A cell of the wire is a u64, a
  digest or a byte.

`Numbers` has what several of them use: powers of two and exclusive or, as
recursive functions on naturals.

The pool is external: `RowFromLeaves`, `PoolJackpot` and `ReachesRoot` are what a
verifier has to do with a share.

`ShareInvariant` states `AssemblyInv`, what each step of `ShareAssembly` leaves
behind, for the proofs. TLC finds it true in every one of the 49311 states of the
`assembly` instance.

`LiveMiner` is the main thread of the live script, or `PearlMiner.run()`. `phase`
is where it is; `use` and `ev` are the evaluators, enabled or not, with the tile
each was compiled for and the job it holds; `ab` and `state` the cached
matrices and the `MinerState`. Each `_ensure_...` function with its `set_job` and
its fallback is one action, and so are the preflight's matrices, a search and a
submission. Continuous coopmat mining is one phase here, and `CoopmatRounds`
shows what happens in it. `fault` is the exception that ended the thread.

`ChallengeSolver` is both solvers of a challenge. On the CPU each worker process
has a program counter between its look at the stop flag, its hashes, raising
the flag and putting its result; a process may die at any of them. On the
device the work items of a batch race for the flag and the one slot, and the
host reads the slot after the batch. A digest is a sequence of bytes and a byte
the sequence of its bits; which digest a nonce has is arbitrary. A pool is assumed
to ask for no more zero bits than a digest has (`SolverAssumption`): past that no
nonce passes the CPU's test, and the kernel's only the digest of zeros.

Modules named `MC...` give the runs their instances, those named `...Proofs`
hold the theorems. A definition commented "Fault:" is a variant with a plausible
bug, used to see that a property notices it; no specification refers to it.

## Runs

| run | bounds | checks |
|---|---|---|
| `pipeline` | 2 submit threads, 3 shares, queue of 2 | no share lost, doubled or left behind; a stop and an error take effect; the round ends; implements `ShareRound` |
| `rounds` | 2 search slots, 2 job slots, 3 tiles, 2 shares a round, 2 seeds, 2 jobs | shares match their matrices, the sweep is exact, a stop within tiles, implements `JobSlots` |
| `rounds_live` | 2 tiles, 1 share a round, up to 2 hits with room for 1 | a stop ends the mining, a new job that stays is picked up |
| `rpc` | 2 calls | own reply or the right exception, clean tables, waiters woken, a call ends unless the pool stops reading |
| `rpc_dead` | 2 calls | violated: a call registered after the reader's end is never woken |
| `session` | 3 announcements and the declared shape | newest Work, order, waiting, a lost connection noticed |
| `session_challenge` | 1 announcement | violated: "a pool that speaks first can't race us" |
| `runner` | pauses 2 to 60, 2 abandoned connections | pauses grow with the connections left behind, stop |
| `assembly` | chunks of 8 bytes in blocks of 4, words of 10 bits; m of 1, 4, 6, n of 2, 5, 8, k of 4, 12, rank 4; 14 patterns, 2 seeds, caps 0 (none), 1, 4, batches of 3, one or two winners | a share verifies; where the root is keyed BLAKE3, for each way the trees are built; words, searches, grid, bytes |
| `kernels` | the same, 1 seed, caps 0 and 4 | violated: "GPU == CPU bit-identical" |
| `live` | 3 jobs under 2 keys, `--max-hits` 2 | evaluators, max-hits, the end |
| `solver` | 2 workers, nonces 0 to 3, digests of two bytes of 2 bits, difficulties 1 to 3, 2 deaths | the nonce wins; no winner passed over; there is an answer |

Why the bounds are enough. Two submit threads have all pairwise interleavings;
three shares fill the queue of two while the producer or a thread holds another;
the proofs remove these bounds. Two search and job slots are the library's
numbers; three tiles make one slot be reused within a sweep. Rounds are not
bounded: the loop returns to states it had. Two calls are at odds over ids, tables
and the reader's end, and their safety is proved for any number. `lateTiles`
saturates one above its bound. `MaxHits` of `CoopmatRounds` is 1 (4096 in the code)
so that a tile can have more hits than the buffer. Three announcements
are one of each kind, or two of one kind with a notify that carries its target,
so both threads can assemble different Works at once; the proofs take any number.
The pauses are the code's defaults.

In `assembly` the matrices are of less than a chunk, one chunk, an even and an odd
number, and with a partial last one; rows share a chunk and cross one; k is one
slice of the rank and three; the patterns have one, two and four dimensions, some
do not nest or do not fit the wire's bytes, some lists are refused; a batch of
three divides no grid of two, four or eight, and the caps cut the first batch, the
second, or none. Sums of int8 products wrap in ten bits. The dimension quantum
and difficulty one are scaled so that targets below, above and far above a
digest's size occur. The kernels' words do not depend on the caps, so one seed
is enough to see them differ.

In `live` two jobs have one key and the third another key, shape and pattern,
with a second matrix that is no whole number of chunks: an evaluator is
reused, rebuilt and refused. In `solver` two workers are enough to race, and
four digests per nonce (0 to 3 leading zero bits, across the byte's border) give
every pattern of winners over the nonces.

Fairness. Every thread that can go on does: the mining thread, the prefetch
thread, each submit thread, each call and the reader, and a tile's fence is
signalled. Timers expire. In `LiveMiner` the main thread is fair as a whole and
the wall-clock timer fires (`WF(Main)`, `WF(SetStop)`); a hit or a failure in the
coopmat phase is not fair by itself. In `ChallengeSolver` the host and each worker
that lives go on. Nothing is assumed of the user, the
connection or the order in which threads are woken, and no action that fails is
fair by itself. Of the pool one thing is assumed outside `StratumRpc`: that it reads.
A write to a pool that keeps the connection up and stops reading blocks for ever, so
that a submission need not return; in `CoopmatPipeline`, `CoopmatRounds`, `LiveMiner`
and `StratumSession` submissions and logins are taken to return, and their liveness
(the end of the round, `StopEndsMining`, `JobFollowed`, `StopEnds`, `LossNoticed`)
holds on that condition. `StratumRpc` does not assume it: `CallEnds` names the state
as its exception. In `SessionRunner` `start` is not fair, as it may block there. Symmetry is used in the run `rounds` only. `live` and `solver` end in
states without a successor (the script has ended, the solver has answered or
waits for the dead), so those two do not look for deadlocks.

## Proofs

`CoopmatPipelineProofs`, for every finite nonempty set of submit threads, every
share bound and every queue size of at least one (`PipelineAssumption`): the
type invariant, the other five invariants of run `pipeline`, the accounting of
the sentinels (`SentinelAccounting`), and that the pipeline implements `ShareRound!RoundSafety`. `Conservation` alone is not
inductive. `IndInv` adds what each place knows of the others: a queued candidate
is undecided and held by nobody (`QueueOK`), a held one is undecided, held once
and sent only past the pacing gate (`HeldOK`), one not put yet is untouched
(`FreshOK`), an undecided one is somewhere (`NotLost`), sentinels come last and
a finished thread leaves only sentinels (`ClosingOK`), and the counters behind
the two bounds and the result (`StopOK`, `FailureOK`, `ResultOK`).

`StratumRpcProofs`, for every set of calls: the type invariant, the three other
safety properties of run `rpc`, and that a connection is only reported lost when
it is (`LostMeansDisconnected`). Its `IndInv` says that ids are unique and above
the handshake's (`IdsOK`), that everything in a table or in flight carries its
call's id (`MessagesOK`), that a set event is backed by a stored reply or the
end of the connection (`EventsOK`), that a request is in one of three places
(`InFlightOK`), and that a waiting call is registered or about to be woken
(`WaitOK`).

`StratumSessionProofs`, for any number of announcements: the type invariant, the
three other invariants of run `session`, `WorkNeverOlder`, and that a
`wait_for_work` that began on a lost connection returns no Work (`NoWorkOnceLost`). `WorkCurrent` is
inductive by itself, as whoever changes an announcement has an assembly ahead.
The others need where the threads can be (`PhaseOK`), the order of the ages
(`AgesOK`), what an emit owes to the Work stored before it (`ToldOK`, `EventOK`)
and that a lost connection stays lost (`LostOK`); `ClockOK` is about the model's
bound only. The same module, which extends both, holds the proofs about
`SessionRunner` for every pair of pauses: `LeaksPaced` and `PausesGrow`, from
what the next pause is after the last (`BackoffOK`) and how it compares with what the
abandoned connections call for wherever the runner is (`OwedOK`). That is why the runner's `Init`,
`Next` and so on have a prefix.

`LiveMinerProofs`, for every set of jobs with any keys, shapes and patterns and
every `--max-hits`: type correctness, `EvaluatorHoldsJob` and `NoShareTooMany`. The
invariant says where the main thread can be with the work in its hand (`PhaseOK`),
that an evaluator given up is forgotten and that those before the one being tried
are (`EvaluatorsOK`), that what a search would use is for the job of the
`MinerState`, in a search and, for `run()`, which searches again without a new
preflight, between two (`ReadyOK`), and that the hit that reaches the limit also
stops the loop (`LimitOK`). `EvaluatorHoldsJob` speaks of the search only; without
`ReadyOK` and `EvaluatorsOK` an evaluator left behind by an earlier job could be
chosen in it.

`CoopmatRoundsProofs`, for any number of search slots, tiles, hits and shares, two
or more job slots, and every set of seeds and jobs: type correctness,
`SharesMatchState`, `SweepExact`, `StopWithinTiles`, and that mining implements
`JobSlots` (`KeepsContract`). None of these is inductive: that a share belongs to
the round's matrices depends on what its job slot held when the tile was
finished, and so on everybody who may write that slot meanwhile. `IndInv` adds
that the prefetch thread lives exactly within a round (`ThreadsOK`), what the
round's job slot and the other one hold (`SlotsOK`), that a busy search slot reads
the round's job slot, is waited for, and leaves hits of the round's state
(`DeviceOK`), that priming takes the slots in order (`PrimeOK`), that the slot just
collected is free while its hits are handed out from the host's copy (`BatchOK`),
that a sweep that waits for nothing has a reason to be over (`ProgressOK`), and who
may still have submitted a tile after the stop (`LateOK`). The refinement uses it
too: a job slot is only rebuilt while no search slot reads it, because of `SweepExact`
before a round and because the prefetch thread writes the other one within it.

`ChallengeSolverProofs`, for any number of workers and hashes between two looks at
the flag, any digests and any number of deaths: `NonceValid`, `NoWinnerSkipped`, and
`TestsAgree`, that the kernel's test of a digest accepts what counting its zero bits
accepts. `IndInv` says that what is about to be reported, queued, stored or
returned wins (`Winners`: with the flag up and nothing stored, the work item that
raised it is still to store), which nonce each worker is at (`Classes`), and that
every winner is still ahead (`Skipped`). That a least nonzero byte and a least set
bit exist comes from the well-foundedness of inclusion among finite sets
(`FS_StrictSubsetOrderingWellFounded` on the segments 0..x).

`ShareAssemblyProofs` proves first the operators `ShareAssembly` is composed of, then
`ShareAssembly` itself, for all patterns, shapes, seeds, difficulties, caps and batch
sizes that the named assumptions allow.

Of the operators: `VkFindsFirst`, the Vulkan search is the CPU loop, attempts
included, whatever the cap; `GpuFindsFirst`, the OpenCL search gives the same
candidate, counts less than a batch more and nothing beyond the cap; both rest on
`FirstBatch`: the least winner lies in the first batch that has one.
`CoopmatFindsAny`: without a cap, and over a grid whose rows are whole bands, the
sweep finds something exactly when the grid holds something, and nothing else; both
conditions are needed, as workgroups cover whole bands and a cap cuts them. `WordsDecide`:
four words compared from the high end decide as the numbers do, for every target
a session can announce, which needs the clamp. `DecodeInverts`: for every proof with
chunks of the fixed size a buffer that ends where the encoder ended gives the proof
back, one that ends a cell or more earlier and one that goes on behind it are
refused. Its invariant is `Reached`: after each of the sixteen reads the decoder
stands where the encoder's next field began, with the values so far, or it has failed
because the buffer ended before. The cells abstract the code's u64s: a field of 2^64
or more, which `struct.pack` refuses, and a buffer cut within a cell are outside of it.
`FromListIs`: a list that is not refused becomes a pattern that lists it again.
`RootIsKeyedHash` and `DeviceBuilds`: the root of the layers is the keyed hash, which
is defined by splitting instead of pairing, for every length; and the device's layers
are the CPU's for whole chunks, more than one, from a buffer and from bytes. `ReplayIs`: the multileaf proof of any
leaves, replayed as the verifier does, ends at the root with nothing left.

Of `ShareAssembly`, for every state of every behaviour: `GridIsExact`,
`SearchersAlwaysAgree`, `WireAlwaysUnambiguous` and `ProofAlwaysAccepted`, each the invariant of run `assembly`
of that name. `AssemblyHolds` proves the inductive invariant `AssemblyInv`: the
properties speak of `mc`, `AB`, `layers` and `wire` several steps after they were
set, so it records for each phase where they came from (`ConfigInv`, `MatricesInv`,
`TreesInv`, `JobInv`, `WireInv`) and that the candidate is one of the grid
(`FoundInv`).

`KernelProofs` goes on from `AssemblyInv` and proves the three others.

`TreesAlwaysAgree`: the root is keyed BLAKE3, and the layers those of
`build_merkle_tree`, exactly where `KeyedTree` says, for matrices of every size. Where
it does not, the last leaf is another chain of compressions than the CPU's: with the
padding its last block has another length or there are more blocks (`PartialApart`), and
a lone chunk lacks the root flag (`RootApart`). As the compression is injective, two
chains of one length that differ in the last step end in different values; so do two
of different lengths, because only a first step has the flag of a start
(`ChainsApart`). The last value of each layer is a parent of the last below it or that
one itself, so the lists differ at their ends (`EndApart`) up to the root
(`LayersApart`, `RootsApart`).

`ConfigAlwaysOnWire`: a configuration reads back exactly when its strides nest and fit.

`KernelsAlwaysAgree`, from the data of a candidate:

* the device's blocks and lanes of BLAKE3 output are the CPU's stream (`BlocksInRow`,
  `DeviceDerives`), and the noise tables of a round hold the rows the CPU generates
  for single indices (`UniformRows`, `DevicePairs`, `TablesAre`);
* an entry of a matrix has seven bits (`DerivedDense`), a permutation pair lies below
  the rank (`PairWithin`, through powers of two and low bits), so a noised entry has
  eight (`OverlaySmall`) and neither the int8 of a slot nor the packing of its bytes
  loses anything (`SlotIs`, `StripsIs`, `PackedIs`);
* a bit of a word is the parity of a set of cells; the tiles split that set
  (`CellsCount`, `TilesOdd`), so exclusive-or tile by tile is that of the whole
  (`TileXorIs`, `TilesTogether`);
* every row of the candidate is found in the leaves of the share (`RowLeaves`,
  `RowRead`), so the pool evaluates the same rows (`PoolGives`).

`CandidateIs` shows that a reachable state of phase `proved` satisfies the hypotheses
of all these lemmas.

How recursion was dealt with. Recursive functions over naturals are used in place of
recursive operators; `Recursion` shows that such a function exists and satisfies its
equation, `Upwards` and `SameUp` are induction on natural numbers by the least
counterexample (`LeastOf`), which follows from the well-foundedness of inclusion
among finite sets. In `ReplayIs` the fold over the levels of a tree is expanded
into its accumulators, and a level's invariant says which siblings were consumed, by
prefix sums of how many each level needs. Exclusive or of numbers is defined on the
sets of their one bits.

The assumptions are the named ones of each module: they say what the constants
are, not how the code behaves. TLC evaluates them in the runs.

Only model-checked is liveness (the end of the round in `ImplementsRound`,
`StopEndsMining`, `JobFollowed`, `CallEnds`, `LossNoticed`, `StopHonoured`, `StopEnds`,
`Solved`), which the prover cannot do.

## Findings

* `rpc_dead`: the comment in the reader's `finally` (277-278) and the handler in
  the live script (292-294) expect a lost connection to end a submission with
  ConnectionError; a call registered after the reader's last sweep waits its
  timeout and raises TimeoutError, which the script does not catch.
* `session_challenge`: the comment at 376-377 of `stratum_client.py` says a pool
  that speaks first cannot race the capture, as nothing was sent; the reader
  started by `connect` can dispatch the challenge before the capture is there.
* `kernels`: the OpenCL kernels and `vk/jackpot.comp` begin a new sum in every slice
  of the rank, while the CPU evaluator and the coopmat kernel keep a running one;
  README.md:37 says the tile is the cumulative sum and `jackpot_gpu.py:387` that the
  two are bit-identical. With more than one slice they are not. `KernelsAgree`
  is therefore about the CPU, the coopmat kernel and the pool on one side, and
  the OpenCL and Vulkan kernels among themselves on the other.

Seen while modelling, without a run of their own:

* a handshake that raises leaves its client and reader thread behind, and nothing
  closes them (`abandoned`; `LeaksPaced` is how fast they pile up); after a disconnect the runner reconnects without a pause; within a session it
  does not look at `stop` (its docstring, `stratum_session.py:388`, names the loop);
* with a client-first pool the callback may be told of an older Work last
  (`ToldLast` excludes it); parameters without `m` or `n` end the reader thread
  (`EmitRaises`);
* the script's comment at 275-278 speaks of one preflight and no reseed; every
  round of continuous mining draws a fresh seed;
* without a coopmat evaluator `mine_coopmat_continuous` raises RuntimeError
  (`miner.py:599-600`), which the script does not catch (292); README.md:169-170
  describes a fallback;
* a search that is not coopmat ignores the stop predicate it is given, so the
  comment at `35_run_miner_live.py:304-307` does not hold for it;
* `miner.py:331-334` takes the Merkle root for the keyed BLAKE3 of the matrix, and the
  docstring at `merkle_gpu.py:134-143` promises the layers of `build_merkle_tree`. When
  A is not whole chunks, or was not derived on the device, `_preflight` uploads the
  bytes of both matrices (`miner.py:316-319`), and the host pads a partial last chunk
  with zeros that are hashed (`merkle_gpu.py:171-174`); and a buffer of exactly one
  chunk becomes a tree without the root flag. Both commit to another root, and nothing
  is raised. `TreesAgree` states exactly where. Only a B that is not whole chunks, next
  to an A that is, raises (`merkle_gpu.py:151-154`). `ProofAccepted` is about
  matrices of whole chunks, more than one, as the pool's shapes are;
* the socket has no timeout (`stratum_client.py:220`) and `_send` writes under
  `_send_lock` before the timed wait (242-243, 344): a pool that keeps the connection up
  and stops reading holds the writing thread and every other sender, and with a submit
  thread the round that joins it (`CallEnds`);
* the seed is fixed for the process, so the next search of the same job finds
  the same first candidate and submits it again;
* a worker process that dies between the stop flag and the result queue leaves the
  host waiting for ever: `Solved` names that state (`Orphaned`) as its exception;
* a difficulty between zero and one makes `int(D)` zero: no Work is built.

## Plan

What would come next:

* several submit threads over the counter of `--max-hits`.

## Not modelled

* The inside of BLAKE3: its compression and its extendable output are an injective
  term in `MerkleTree` and fixed functions in `Jackpot`. Nothing in the miner depends
  on more than that equal inputs give equal digests.
* Buffers, compilation, work-group and subgroup layout of the kernels, and the memory
  order within a work group: what is modelled of a kernel is which words it
  computes for a candidate and, in the challenge kernel, the race for its slot.
* Device selection (`device.py`): it changes no
  state.
* The split of the TCP stream into lines and JSON, and the base64 and gzip
  around a proof: library calls.
* Time: the pacing gate and the pauses only delay what the models let happen at
  any time; how long a stop takes without coopmat is not stated.
* The increment of `hits_submitted` by several submit threads, statistics and
  printed output, the command line, build scripts, and `experiments/`.
* Job keys and commitment hashes are tokens; `nbits_to_target`, which the miner does
  not call, is left out.
