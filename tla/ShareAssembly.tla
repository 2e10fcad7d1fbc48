---------------------------- MODULE ShareAssembly ----------------------------
(***************************************************************************)
(* One share from the pool's parameters to the wire: the mining            *)
(* configuration and the job key, the matrices from the miner's seed,      *)
(* their Merkle trees, the search of the candidate grid, the proof, its    *)
(* bytes, and what the pool reads from them.  The order is that of the     *)
(* offline script (34_miner_offline.py); the live miner makes the same     *)
(* calls, and may derive the matrices and build the trees on the device.   *)
(*                                                                         *)
(* The pool is external: it takes a share whose leaves reach the roots it  *)
(* was committed with, cover the rows of the candidate and give the same   *)
(* jackpot words.                                                          *)
(***************************************************************************)
EXTENDS PlainProofCodec, Patterns, Jackpot, CandidateSearch, ShareTarget

CONSTANTS
  RowLists, ColLists,   \* patterns the pool may announce
  Ms, Ns, Ks, Rank,     \* shapes it may announce
  Seeds,                \* seeds the miner may draw
  Difficulties,         \* set_difficulty, in halves
  NotifyTargets,        \* targets a notify may carry
  Caps, BatchSizes      \* max_attempts, jackpot_batch_size

\* The rank is a power of two and whole digests (jackpot.py 163-166).
ASSUME AssemblyAssumption ==
  /\ RowLists \cup ColLists \subseteq Seq(Int)
  /\ Ms \cup Ns \cup Ks \subseteq Nat \ {0} /\ Seeds \subseteq Nat
  /\ \E e \in 1..WordBits : Rank = Pow2[e]
  /\ Rank % HashBytes = 0 /\ \A k \in Ks : k % Rank = 0
  /\ Difficulties \subseteq Nat /\ NotifyTargets \subseteq Nat \cup {NoTarget}
  /\ Caps \subseteq Nat /\ BatchSizes \subseteq Nat \ {0}

VARIABLES
  phase,     \* how far the share is
  lists,     \* the announced row and column lists
  mc,        \* MiningConfiguration
  shape,     \* m, n
  seed,      \* the miner's seed
  AB,        \* the matrices from it
  path,      \* where the matrices are derived and the trees are built
  layers,    \* Merkle layers of A and of B
  job,       \* what the devices hold: the noise tables, and the noised matrices
  found,     \* what each evaluator's search returned, and for which question
  wire       \* the encoded proof

vars == <<phase, lists, mc, shape, seed, AB, path, layers, job, found, wire>>

NoConfig == [common_dim |-> 0, rank |-> 0, mma_type |-> 0, rows_pattern |-> <<>>,
             cols_pattern |-> <<>>]
NotFound == [below |-> {}, cap |-> 0, cpu |-> Nothing(0), gpu |-> Nothing(0),
             vk |-> Nothing(0), coopmat |-> [hits |-> {}, attempts |-> 0]]

Init ==
  /\ phase = "start" /\ lists = << <<>>, <<>> >> /\ mc = NoConfig
  /\ shape = [m |-> 0, n |-> 0] /\ seed = 0 /\ path = [derived |-> "cpu", trees |-> "cpu"]
  /\ AB = <<>> /\ layers = <<>> /\ job = <<>> /\ found = NotFound /\ wire = <<>>

JobKey == compute_job_key("header", mc)

\* A matrix' bytes, row after row.
Bytes(i) == FlattenSeq(AB[i])

\* (b_noise_seed, a_noise_seed): each depends on the job key and a root, and
\* the second on the first; numbers stand in for the digests.
commitment_hash == <<2 * seed, 2 * seed + 1>>

-----------------------------------------------------------------------------
\* The pool's parameters: a list or a shape that is refused raises ValueError,
\* in from_list or when the job key is computed.
Configure ==
  /\ phase = "start"
  /\ \E p \in RowLists, q \in ColLists, k \in Ks :
       /\ lists' = <<p, q>>
       /\ IF RefusesList(p) \/ RefusesList(q)
            THEN phase' = "refused" /\ UNCHANGED mc
            ELSE /\ mc' = [common_dim |-> k, rank |-> Rank, mma_type |-> 0,
                           rows_pattern |-> from_list(p), cols_pattern |-> from_list(q)]
                 /\ phase' = IF RefusesShape(from_list(p)) \/ RefusesShape(from_list(q))
                               THEN "refused" ELSE "configured"
  /\ UNCHANGED <<shape, seed, AB, path, layers, job, found, wire>>

\* The miner may have either device helper without the other.
Derive ==
  /\ phase = "configured"
  /\ \E m \in Ms, n \in Ns, s \in Seeds, w, v \in {"cpu", "device"} :
       /\ shape' = [m |-> m, n |-> n] /\ seed' = s
       /\ path' = [derived |-> w, trees |-> v]
       /\ AB' = IF w = "cpu" THEN derive_AB_from_seed(s, m, n, mc.common_dim)
                              ELSE derive_AB(s, m, n, mc.common_dim)
  /\ phase' = "derived"
  /\ UNCHANGED <<lists, mc, layers, job, found, wire>>

\* What both trees are built from, which the size of A decides: the buffers of
\* the derivation, or bytes that the host pads and uploads, or hashes itself.
TreesFrom ==
  IF path.trees = "cpu" THEN "cpu"
  ELSE IF path.derived = "device" /\ (shape.m * mc.common_dim) % ChunkLen = 0 THEN "buffer"
  ELSE "upload"

\* The layers kept for the proofs of the whole job.
MatrixLayers(i) ==
  IF TreesFrom = "cpu" THEN build_merkle_tree(Bytes(i), JobKey)
  ELSE build_layers(Bytes(i), JobKey, TreesFrom = "buffer")

\* A buffer that is not whole chunks raises ValueError: only B's can be one.
BuildTrees ==
  /\ phase = "derived"
  /\ IF TreesFrom = "buffer" /\ RefusesBuffer(shape.n * mc.common_dim)
       THEN phase' = "refused" /\ UNCHANGED layers
       ELSE phase' = "hashed" /\ layers' = [i \in 1..2 |-> MatrixLayers(i)]
  /\ UNCHANGED <<lists, mc, shape, seed, AB, path, job, found, wire>>

\* The evaluators are given the job.
SetJob ==
  /\ phase = "hashed"
  /\ phase' = "set"
  /\ LET tables == set_job(AB[1], AB[2], commitment_hash, mc.common_dim, mc.rank)
     IN job' = [tables |-> tables, slot |-> set_job_slot(tables)]
  /\ UNCHANGED <<lists, mc, shape, seed, AB, path, layers, found, wire>>

\* Row offsets outside, column offsets inside.
Grid ==
  LET rows == enumerate_valid_offsets(mc.rows_pattern, shape.m)
      cols == enumerate_valid_offsets(mc.cols_pattern, shape.n)
  IN FlattenSeq([i \in 1..Len(rows) |-> [j \in 1..Len(cols) |-> <<rows[i], cols[j]>>]])

\* The digest of the j-th candidate: those that won are just below the target,
\* the others just meet it.
hash_jackpot(j, target, won) == Least(target, TargetMax) - IF j \in won THEN 1 ELSE 0

\* The same digests, put to every evaluator.
Answers(grid, byNumber, byWords, cap, b) ==
  [below |-> byNumber, cap |-> cap,
   cpu |-> search_candidate(grid, byNumber, cap),
   gpu |-> JackpotGpuSearch(grid, byWords, cap, b),
   vk  |-> JackpotVkSearch(grid, byWords, cap, b),
   coopmat |-> JackpotCoopmatSearch(coopmat_offsets(mc.rows_pattern, shape.m),
                                    coopmat_offsets(mc.cols_pattern, shape.n),
                                    axis_constraint(mc.rows_pattern)[2], byWords, cap, b)]

Ask(grid, target, won, cap, b) ==
  LET hash(j) == hash_jackpot(j, target, won)
  IN Answers(grid, {grid[j] : j \in {j \in 1..Len(grid) : Below(hash(j), target)}},
             {grid[j] : j \in {j \in 1..Len(grid) : BelowByWords(hash(j), target)}}, cap, b)

Daf == difficulty_adjustment_factor(size(mc.rows_pattern), size(mc.cols_pattern),
                                    mc.common_dim)

\* One candidate wins, or it and the last one do.
Search ==
  /\ phase = "set" /\ Grid # <<>>
  /\ \E i \in 1..Len(Grid), cap \in Caps, b \in BatchSizes,
        d \in Difficulties, e \in NotifyTargets, two \in BOOLEAN :
       /\ ~NoShareTarget(d) /\ share_target(d, e, Daf) > 0
       /\ found' = Ask(Grid, share_target(d, e, Daf),
                       {i} \cup {j \in {Len(Grid)} : two}, cap, b)
  /\ phase' = "searched"
  /\ UNCHANGED <<lists, mc, shape, seed, AB, path, layers, job, wire>>

a_rows_indices == indices_with_offset(mc.rows_pattern, found.cpu.hit[1])
b_cols_indices == indices_with_offset(mc.cols_pattern, found.cpu.hit[2])

\* build_plain_proof for one matrix: the leaves its rows touch.
MatrixProof(i, indices) ==
  [proof |-> get_multileaf_proof(layers[i], Bytes(i),
               compute_leaf_indices_from_rows(ToSet(indices), mc.common_dim)),
   row_indices |-> indices]

build_plain_proof ==
  [m |-> shape.m, n |-> shape.n, k |-> mc.common_dim, noise_rank |-> mc.rank,
   a |-> MatrixProof(1, a_rows_indices), bt |-> MatrixProof(2, b_cols_indices)]

\* The candidate is all that is left of the search.
Prove ==
  /\ phase = "searched" /\ found.cpu.hit # <<>>
  /\ wire' = Encode(build_plain_proof)
  /\ found' = [NotFound EXCEPT !.cpu = found.cpu]
  /\ phase' = "proved"
  /\ UNCHANGED <<lists, mc, shape, seed, AB, path, layers, job>>

Over ==
  /\ \/ phase \in {"refused", "proved"}
     \/ phase = "set" /\ Grid = <<>>
     \/ phase = "searched" /\ found.cpu.hit = <<>>
  /\ UNCHANGED vars

Next == Configure \/ Derive \/ BuildTrees \/ SetJob \/ Search \/ Prove \/ Over

Spec == Init /\ [][Next]_vars

-----------------------------------------------------------------------------
(***************************************************************************)
(* The pool (external).                                                    *)
(***************************************************************************)

\* A row of a matrix, from the leaves of a proof.
RowFromLeaves(p, row, cols) ==
  LET Byte(x) == LET j == CHOOSE j \in DOMAIN p.leaf_indices :
                            p.leaf_indices[j] = x \div ChunkLen
                 IN p.leaf_data[j][1 + (x % ChunkLen)]
  IN <<>> \o [l \in 1..cols |-> Byte(row * cols + l - 1)]

\* The jackpot words the pool computes from the rows a share carries.
PoolJackpot(pp) ==
  LET noise == compute_noise_for_indices(pp.k, pp.noise_rank, commitment_hash,
                                           pp.a.row_indices, pp.bt.row_indices)
      Strip(mp) == [i \in DOMAIN mp.row_indices |->
                      RowFromLeaves(mp.proof, mp.row_indices[i], pp.k)]
  IN compute_jackpot(PlusRows(Strip(pp.a), noise[1]), PlusRows(Strip(pp.bt), noise[2]),
                       pp.k, pp.noise_rank)

ReachesRoot(mp, root) ==
  LET r == Replay(mp.proof, JobKey) IN mp.proof.root = root /\ r.root = root /\ r.left = <<>>

-----------------------------------------------------------------------------
(***************************************************************************)
(* Properties.                                                             *)
(***************************************************************************)
WholeChunks(rows) ==
  (rows * mc.common_dim) % ChunkLen = 0 /\ rows * mc.common_dim > ChunkLen

Accepts(pp) ==
  /\ <<pp.m, pp.n, pp.k, pp.noise_rank>> = <<shape.m, shape.n, mc.common_dim, Rank>>
  /\ pp.a.row_indices = a_rows_indices /\ pp.bt.row_indices = b_cols_indices
  /\ ReachesRoot(pp.a, merkle_root_keyed(Bytes(1), JobKey))
  /\ ReachesRoot(pp.bt, merkle_root_keyed(Bytes(2), JobKey))

\* A share of matrices of whole chunks, more than one, is one the pool takes:
\* decoded from the wire its leaves reach the roots both commitments are made
\* with, wherever the trees were built and whichever rows the candidate touches
\* (miner.py 102-148, merkle_proof.py 234-281).
ProofAccepted ==
  phase = "proved" /\ WholeChunks(shape.m) /\ WholeChunks(shape.n) =>
    Accepts(Decode(wire).vals)

\* The words of the candidate from the matrices the CPU derives.
CpuWords(matrices) ==
  evaluate_candidate(matrices[1], matrices[2], a_rows_indices, b_cols_indices,
                     commitment_hash, mc.common_dim, Rank)

AgreeOn(rows, cols, k, words) ==
  /\ coopmat_candidate(job.slot, rows, cols, k, Rank) = words
  /\ PoolJackpot(Decode(wire).vals) = words
  /\ \A TW \in {t \in 1..2 : Len(cols) % t = 0} :
       jackpot_search_wtile(job.tables, rows, cols, k, Rank, TW)
         = jackpot_search(job.tables, rows, cols, k, Rank)

\* The words of a candidate are the same three times over: on the CPU, from
\* the matrices it derives; from those of either derivation, on the coopmat
\* kernel that keeps the noised matrices as int8; and at the pool, from the
\* leaves the share carries; and the kernels of the OpenCL and the Vulkan
\* search agree with each other whatever tiles they cut (jackpot.py 189-267,
\* derive_matrix_gpu.py 163-226, pmat.comp 24-36, jackpot_coopmat.comp 88-126,
\* jackpot_gpu.py 47-71).
KernelsAgree ==
  phase = "proved" =>
    AgreeOn(a_rows_indices, b_cols_indices, mc.common_dim,
            CpuWords(derive_AB_from_seed(seed, shape.m, shape.n, mc.common_dim)))

\* "Selftest: GPU == CPU bit-identical" (jackpot_gpu.py 387, 390-459): the
\* OpenCL kernel's words are those of evaluate_candidate.
GpuMatchesCpu ==
  phase = "proved" =>
    jackpot_search(job.tables, a_rows_indices, b_cols_indices, mc.common_dim, Rank)
      = CpuWords(AB)

\* The wire form is read back as it was written, and no shorter nor longer
\* buffer is taken for a proof (plain_proof_codec.py 161-192).
WireUnambiguous ==
  phase = "proved" =>
    /\ Decode(wire) = [ok |-> TRUE, rest |-> <<>>, vals |-> build_plain_proof]
    /\ \A i \in 0..Len(wire) - 1 : ~Decode(SubSeq(wire, 1, i)).ok
    /\ ~Decode(Append(wire, 0)).ok

\* Where the tree over so many rows is that of keyed BLAKE3: on the CPU, over whole
\* chunks, more than one, and on the device, from bytes, over up to one chunk.
KeyedTree(rows) ==
  \/ TreesFrom = "cpu"
  \/ WholeChunks(rows)
  \/ TreesFrom = "upload" /\ rows * mc.common_dim <= ChunkLen

\* Exactly there the root a share commits to is keyed BLAKE3 of the matrix, and
\* the layers are those of build_merkle_tree.  Elsewhere it is not, although
\* nothing is raised and miner.py 331-334 and merkle_gpu.py 134-143 say it is:
\* bytes that end within a chunk are hashed with the zeros they are padded with
\* (merkle_gpu.py 171-174), and one chunk in a buffer without the root flag
\* (merkle_proof.py 194-218, merkle_gpu.py 129-229, miner.py 304-329).
TreesAgree ==
  phase = "hashed" =>
    \A i \in 1..2 :
      LET rows == <<shape.m, shape.n>>[i] IN
        /\ KeyedTree(rows) <=> Root(layers[i]) = merkle_root_keyed(Bytes(i), JobKey)
        /\ KeyedTree(rows) => layers[i] = build_merkle_tree(Bytes(i), JobKey)

\* Strides that are multiples of the period within, and fit a wire byte.
Encodable(s) ==
  \A i \in 1..NumDims : /\ s[i][1] % MinStride(s, i) = 0
                        /\ Factor(s, i) <= ByteMod /\ s[i][2] <= ByteMod

\* A pattern reads back from its six bytes as the rows announced exactly when
\* its strides nest and fit a byte; the bytes are canonical then
\* (mining_config.py 82-160).
ConfigOnWire ==
  phase = "configured" =>
    LET back == ConfigFromBytes(ConfigToBytes(mc)) IN
      \A i \in 1..2 :
        LET s == <<mc.rows_pattern, mc.cols_pattern>>[i]
            t == <<back.rows_pattern, back.cols_pattern>>[i]
        IN /\ to_list(s) = lists[i] /\ size(s) = Len(lists[i])
           /\ Encodable(s) <=> t = s
           /\ Encodable(s) => ~RefusesBytes(to_bytes(s)) /\ to_list(t) = lists[i]

AxisExact(s, axisLen) ==
  LET offsets == ToSet(enumerate_valid_offsets(s, axisLen))
      touched(o) == ToSet(indices_with_offset(s, o))
  IN /\ \A o \in offsets : touched(o) \subseteq 0..axisLen - 1
     /\ Cardinality(RealDims(s)) = 1 =>
          /\ \A o, p \in offsets : o # p => touched(o) \cap touched(p) = {}
          /\ ToSet(coopmat_offsets(s, axisLen)) \subseteq offsets
          /\ axisLen % period(s) = 0 =>
               /\ UNION {touched(o) : o \in offsets} = 0..axisLen - 1
               /\ coopmat_offsets(s, axisLen) = enumerate_valid_offsets(s, axisLen)

\* The candidates of one axis are those of a valid pattern: inside the matrix,
\* and for a pattern of one dimension no index belongs to two of them and, on
\* whole periods, none to none.  There the coopmat numbering is the same list;
\* elsewhere it leaves some out (candidate_search.py 58-80,
\* jackpot_coopmat.py 144-146).
GridExact ==
  phase \in {"derived", "hashed"} =>
    AxisExact(mc.rows_pattern, shape.m) /\ AxisExact(mc.cols_pattern, shape.n)

\* Over the same digests every evaluator gives the candidate the CPU loop
\* gives, within the same cap: the first in order for the batched ones; the
\* coopmat sweep some candidate below the target when there is one in the
\* workgroups it may use.  However large the difficulty makes the target, it
\* is one that four words hold (candidate_search.py 83-124, jackpot_gpu.py
\* 286-383, jackpot_vk.cpp 263-301, jackpot_coopmat.py 134-169,
\* stratum_session.py 276-288).
SearchersAgree ==
  phase = "searched" =>
    /\ found.gpu.hit = found.cpu.hit /\ found.vk = found.cpu
    /\ found.gpu.attempts >= found.cpu.attempts
    /\ found.cap # 0 => found.gpu.attempts <= found.cap
    /\ found.coopmat.hits \subseteq found.below
    /\ /\ found.cap = 0 /\ Cardinality(RealDims(mc.rows_pattern)) = 1 /\ Cardinality(RealDims(mc.cols_pattern)) = 1
       /\ shape.m % period(mc.rows_pattern) = 0 /\ shape.n % period(mc.cols_pattern) = 0
       => found.coopmat.hits # {}
=============================================================================
