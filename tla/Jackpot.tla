------------------------------- MODULE Jackpot -------------------------------
(***************************************************************************)
(* What one candidate is worth: the matrices derived from the miner's seed *)
(* (proof_builder.py), the noise added to them (jackpot.py), the running   *)
(* partial product folded into the jackpot words; and the same words as    *)
(* the device computes them, from noise tables of the whole matrices       *)
(* (pearl_noise_gpu.py, jackpot_gpu.py, jackpot_vk.py) and from matrices   *)
(* noised once for the whole job (jackpot_coopmat.py).                     *)
(*                                                                         *)
(* A matrix is a sequence of rows.  A machine word has WordBits bits       *)
(* instead of 32; a byte has eight.  A word that is only combined bit by   *)
(* bit is the set of its one bits.  The hash functions are stand-ins:      *)
(* fixed functions to words, whose low bits serve as the digest's bytes.   *)
(***************************************************************************)
EXTENDS Numbers, SequencesExt

CONSTANTS
  HashBytes,    \* bytes of a digest, and words of one (32 and 8 in the code)
  JackpotSize,  \* words of the jackpot message (16)
  LRot,         \* LROT_PER_TILE (13)
  WordBits      \* bits of a word (32)

ASSUME JackpotAssumption ==
  /\ HashBytes \in Nat \ {0} /\ JackpotSize \in Nat \ {0} /\ WordBits \in Nat \ {0} /\ LRot \in 0..WordBits - 1

Word == Pow2[WordBits]

\* The one bits of every word; an integer is cut to a word (two's complement,
\* when it is negative).
Bits    == [x \in 0..Word - 1 |-> {b \in 0..WordBits - 1 : (x \div Pow2[b]) % 2 = 1}]
Uint(x) == Bits[x % Word]

\* The number that bits stand for.
Number(bits) ==
  LET low[n \in 0..WordBits] ==
        IF n = 0 THEN 0 ELSE low[n - 1] + (IF n - 1 \in bits THEN Pow2[n - 1] ELSE 0)
  IN low[WordBits]

Xor(x, y) == (x \ y) \cup (y \ x)

\* Rows of entries, as tuples.
Matrix(rows, cols, Entry(_, _)) ==
  <<>> \o [i \in 1..rows |-> <<>> \o [j \in 1..cols |-> Entry(i, j)]]

\* A stand-in for keyed BLAKE3 of (index + 1, put into slot) and the seed label.
get_random_hash(index, label, key, slot) ==
  [i \in 1..HashBytes |->
     (key * 97 + label * 53 + slot * 29 + (index + 1) * 1041 + i * i * 571 + i * 13) % Word]

\* A stand-in for the extendable output of BLAKE3 over the tag and the seed.
Xof(tag, seed, i) == (seed * 89 + tag * 151 + i * i * 19 + i * 67) % 256

\* Fault: all eight bits of the byte are kept.
Int7Full(byte) == ((byte + 128) % 256) - 128

\* The low seven bits of a byte, as a signed number.
Int7(byte) == (byte % 128) - 128 * ((byte \div 64) % 2)

derive_matrix(seed, rows, cols, tag) ==
  LET Entry(i, j) == Int7(Xof(tag, seed, (i - 1) * cols + j)) IN Matrix(rows, cols, Entry)

\* A and B, from the same seed under two domain tags.
derive_AB_from_seed(seed, m, n, k) ==
  <<derive_matrix(seed, m, k, 0), derive_matrix(seed, n, k, 1)>>

\* The device's XOF: one work item per block of two digests' length writes what
\* is left of its block.
XofBlock == 2 * HashBytes

blake3_xof_derive_int8(gid, seed, tag, total) ==
  LET left == total - gid * XofBlock
  IN [i \in 1..(IF left >= XofBlock THEN XofBlock ELSE left) |->
        Int7(Xof(tag, seed, gid * XofBlock + i))]

derive(seed, rows, cols, tag) ==
  LET total == rows * cols
      out == FlattenSeq([g \in 1..(total + XofBlock - 1) \div XofBlock |->
                           blake3_xof_derive_int8(g - 1, seed, tag, total)])
      Entry(i, j) == out[(i - 1) * cols + j]
  IN Matrix(rows, cols, Entry)

derive_AB(seed, m, n, k) == <<derive(seed, m, k, 0), derive(seed, n, k, 1)>>

\* int8 wraps around.
Int8(x)      == ((x + 128) % 256) - 128
mul_hi(a, b) == (a * b) \div Word
rotl(x, s)   == {(b + s) % WordBits : b \in x}

-----------------------------------------------------------------------------
(***************************************************************************)
(* Noise.                                                                  *)
(***************************************************************************)

\* The bytes of row r are those of the stream from r * cols on.
generate_uniform_random_matrix(label, key, rows, cols) ==
  <<>> \o [i \in 1..Len(rows) |->
     LET start == rows[i] * cols
         lo == start \div HashBytes
         hi == (start + cols + HashBytes - 1) \div HashBytes
         stream == FlattenSeq([b \in 1..hi - lo |-> get_random_hash(lo + b - 1, label, key, 0)])
     IN <<>> \o [j \in 1..cols |-> (stream[start - lo * HashBytes + j] % 64) - 32]]

\* Two distinct columns of the uniform matrix, from one word.
PermPair(v, rank) ==
  LET first == v % rank IN <<first, Number(Xor(Uint(first), Uint(1 + mul_hi(rank - 1, v))))>>

generate_permutation_matrix(label, key, k, rank) ==
  <<>> \o [row \in 1..k |->
     PermPair(get_random_hash((row - 1) \div HashBytes, label, key, 1)
                [1 + ((row - 1) % HashBytes)], rank)]

matvec_sparse_perm(perm, vec) ==
  <<>> \o [i \in 1..Len(perm) |-> Int8(vec[perm[i][1] + 1] - vec[perm[i][2] + 1])]

\* The overlay on one row of a whole matrix, wrapped to int8: pmat.comp, and
\* apply_sparse_noise.
apply_sparse_noise(dense, pool, perm) ==
  <<>> \o [l \in 1..Len(dense) |-> Int8(dense[l] + pool[perm[l][1] + 1] - pool[perm[l][2] + 1])]

\* ch = <<b_noise_seed, a_noise_seed>>; the noise of some rows and columns.
compute_noise_for_indices(k, rank, ch, aRows, bCols) ==
  LET e_al   == generate_uniform_random_matrix(0, ch[2], aRows, rank)
      e_ar_t == generate_permutation_matrix(0, ch[2], k, rank)
      e_bl   == generate_permutation_matrix(1, ch[1], k, rank)
      e_br_t == generate_uniform_random_matrix(1, ch[1], bCols, rank)
  IN <<<<>> \o [u \in 1..Len(aRows) |-> matvec_sparse_perm(e_ar_t, e_al[u])],
       <<>> \o [v \in 1..Len(bCols) |-> matvec_sparse_perm(e_bl, e_br_t[v])]>>

-----------------------------------------------------------------------------
(***************************************************************************)
(* The jackpot words, from noised rows of A and of B.                      *)
(***************************************************************************)
Dot(x, y, from, to) ==
  LET sum[l \in from - 1..to] == IF l < from THEN 0 ELSE sum[l - 1] + x[l] * y[l]
  IN sum[to]

\* `^=' over many words: the bits that an odd number of them have.
XorAll(words) ==
  {b \in 0..WordBits - 1 : Cardinality({i \in 1..Len(words) : b \in words[i]}) % 2 = 1}

\* The XOR of one h x w tile: the products of the columns from..to.
TileXor(sa, sb, from, to) ==
  XorAll(<<>> \o [c \in 1..Len(sa) * Len(sb) |->
            Uint(Dot(sa[1 + ((c - 1) \div Len(sb))], sb[1 + ((c - 1) % Len(sb))], from, to))])

\* One rotated word after the other takes up a tile.
FoldWords(xors) ==
  LET msg[t \in 0..Len(xors)] ==
        IF t = 0 THEN [i \in 1..JackpotSize |-> {}]
        ELSE [msg[t - 1] EXCEPT ![1 + ((t - 1) % JackpotSize)] = Xor(rotl(@, LRot), xors[t])]
  IN msg[Len(xors)]

\* `tile += ...': the tile is cumulative, its products those of all columns up
\* to the boundary ll.
compute_jackpot(sa, sb, k, r) ==
  FoldWords([t \in 1..k \div r |-> TileXor(sa, sb, 1, t * r)])

Rows(matrix, indices) == [i \in 1..Len(indices) |-> matrix[indices[i] + 1]]

PlusRows(x, y) ==
  LET Plus(i, l) == x[i][l] + y[i][l] IN Matrix(Len(x), Len(x[1]), Plus)

\* The message hashed and compared with the target.
evaluate_candidate(A, B, aRows, bCols, ch, k, r) ==
  LET noise == compute_noise_for_indices(k, r, ch, aRows, bCols)
  IN compute_jackpot(PlusRows(Rows(A, aRows), noise[1]), PlusRows(Rows(B, bCols), noise[2]), k, r)

-----------------------------------------------------------------------------
(***************************************************************************)
(* The device's way.                                                       *)
(***************************************************************************)

\* One work item per digest: its row, and its place in the row.
uniform(label, key, rows, cols) ==
  LET Entry(row, j) ==
        LET block == (row - 1) * (cols \div HashBytes) + ((j - 1) \div HashBytes)
        IN (get_random_hash(block, label, key, 0)[1 + ((j - 1) % HashBytes)] % 64) - 32
  IN Matrix(rows, cols, Entry)

\* One work item per digest of the permutation; the rows past k are dropped.
perm(label, key, k, rank) ==
  SubSeq(FlattenSeq([b \in 1..(k + HashBytes - 1) \div HashBytes |->
           [j \in 1..HashBytes |-> PermPair(get_random_hash(b - 1, label, key, 1)[j], rank)]]), 1, k)

\* Tables of a whole matrix and the permutation its noise is gathered with:
\* set_job of the OpenCL, Vulkan and coopmat evaluators.
set_job(A, B, ch, k, r) ==
  [A |-> A, B |-> B,
   e_al   |-> uniform(0, ch[2], Len(A), r), e_ar_t |-> perm(0, ch[2], k, r),
   e_bl   |-> perm(1, ch[1], k, r), e_br_t |-> uniform(1, ch[1], Len(B), r)]

\* The operand strips of the rows t + pattern, as exact sums.
Strips(matrix, pool, pairs, rows) ==
  LET Entry(i, l) == matrix[rows[i] + 1][l] + pool[rows[i] + 1][pairs[l][1] + 1]
                                            - pool[rows[i] + 1][pairs[l][2] + 1]
  IN Matrix(Len(rows), Len(pairs), Entry)

\* The same, packed as bytes.
Packed(strips) ==
  LET Entry(i, l) == Int8(strips[i][l]) IN Matrix(Len(strips), Len(strips[1]), Entry)

\* `int acc = 0' in the loop over the slices: each tile is that of its own r
\* columns.
FoldSlices(sa, sb, k, r) ==
  FoldWords([t \in 1..k \div r |-> TileXor(sa, sb, (t - 1) * r + 1, t * r)])

\* The OpenCL kernel of GCN devices recomputes its noise for every product.
jackpot_search(job, aRows, bCols, k, r) ==
  FoldSlices(Strips(job.A, job.e_al, job.e_ar_t, aRows),
             Strips(job.B, job.e_br_t, job.e_bl, bCols), k, r)

\* The kernels for RDNA devices, OpenCL and Vulkan: packed strips, and tiles of
\* TW columns, a divisor of all, that are combined slice by slice.
jackpot_search_wtile(job, aRows, bCols, k, r, TW) ==
  LET sa == Packed(Strips(job.A, job.e_al, job.e_ar_t, aRows))
      sb == Packed(Strips(job.B, job.e_br_t, job.e_bl, bCols))
      Tile(w) == SubSeq(sb, (w - 1) * TW + 1, w * TW)
  IN FoldWords([t \in 1..k \div r |->
       XorAll(<<>> \o [w \in 1..Len(sb) \div TW |->
                 TileXor(sa, Tile(w), (t - 1) * r + 1, t * r)])])

\* PA and PB: both matrices noised once, kept as int8.
set_job_slot(job) ==
  <<[i \in 1..Len(job.A) |-> apply_sparse_noise(job.A[i], job.e_al[i], job.e_ar_t)],
    [i \in 1..Len(job.B) |-> apply_sparse_noise(job.B[i], job.e_br_t[i], job.e_bl)]>>

coopmat_candidate(slot, aRows, bCols, k, r) ==
  compute_jackpot(Rows(slot[1], aRows), Rows(slot[2], bCols), k, r)
=============================================================================
