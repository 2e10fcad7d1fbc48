----------------------------- MODULE MerkleTree -----------------------------
(***************************************************************************)
(* The keyed BLAKE3 Merkle tree over a matrix (merkle_proof.py), the       *)
(* multi-leaf proofs cut from it, their replay, and the tree the OpenCL    *)
(* host builds in its place (merkle_gpu.py).                               *)
(*                                                                         *)
(* Bytes are integers, a chaining value is the term of the compressions it *)
(* came from: two are equal exactly when everything hashed is.  Chunks and *)
(* blocks are scaled down (1024 and 64 bytes in the code).                 *)
(***************************************************************************)
EXTENDS Numbers, SequencesExt

CONSTANTS ChunkLen, BlockLen

ASSUME MerkleAssumption ==
  /\ BlockLen \in Nat \ {0} /\ ChunkLen \in Nat \ {0}
  /\ ChunkLen % BlockLen = 0

Zeros(n) == [i \in 1..n |-> 0]

\* data[i * size : (i + 1) * size], which Python cuts off at the end of data.
Piece(data, i, size) == SubSeq(data, i * size + 1, Least((i + 1) * size, Len(data)))

\* One block compression: an injective function of all it is given.
compress(cv, block, counter, blockLen, flags) == <<flags, counter, blockLen, cv, block>>

\* The true length of block b, hashed with it: the last one may be partial.
block_len(data, b) == Least(BlockLen, Len(data) - (b - 1) * BlockLen)

\* Chaining value of one chunk: its blocks, the last padded with zeros, one
\* after the other.
chunk_cv(data, index, key, isRoot) ==
  LET n == IF data = <<>> THEN 1 ELSE CeilDiv(Len(data), BlockLen)
      padded == data \o Zeros(n * BlockLen - Len(data))
      flags(b) == {"KEYED_HASH"} \cup {f \in {"CHUNK_START"} : b = 1}
                  \cup {f \in {"CHUNK_END"} : b = n}
                  \cup {f \in {"ROOT"} : b = n /\ isRoot}
      cv[b \in 0..n] ==
        IF b = 0 THEN key
        ELSE compress(cv[b - 1], Piece(padded, b - 1, BlockLen), index,
                      block_len(data, b), flags(b))
  IN cv[n]

parent_cv(left, right, key, isRoot) ==
  compress(key, <<left, right>>, 0, BlockLen,
           {"KEYED_HASH", "PARENT"} \cup {f \in {"ROOT"} : isRoot})

-----------------------------------------------------------------------------
(***************************************************************************)
(* The tree: its layers, the leaves first.                                 *)
(***************************************************************************)

\* Fault: an odd chaining value is paired with itself.
LayerCvsDouble(prev, key, isTop) ==
  [i \in 1..CeilDiv(Len(prev), 2) |->
     parent_cv(prev[2 * i - 1], prev[Least(2 * i, Len(prev))], key, isTop)]

\* Adjacent values are combined, an odd last one is carried up unchanged.
compute_layer_cvs(prev, key, isTop) ==
  [i \in 1..CeilDiv(Len(prev), 2) |->
     IF 2 * i <= Len(prev)
       THEN parent_cv(prev[2 * i - 1], prev[2 * i], key, isTop /\ Len(prev) = 2)
       ELSE prev[Len(prev)]]

\* The number of layers over n leaves.
Height(n) == CHOOSE h \in 0..n : Pow2[h] >= n /\ \A g \in 0..h - 1 : Pow2[g] < n

\* `while len(layers[-1]) > 1'
BuildUp(leaves, key) ==
  LET layer[l \in 0..Height(Len(leaves))] ==
        IF l = 0 THEN leaves
        ELSE LET prev == layer[l - 1]
             IN <<>> \o compute_layer_cvs(prev, key, Len(prev) = 2)
  IN <<>> \o [l \in 1..Height(Len(leaves)) + 1 |-> layer[l - 1]]

leaf_cvs(data, key) ==
  <<>> \o [i \in 1..CeilDiv(Len(data), ChunkLen) |->
             chunk_cv(Piece(data, i - 1, ChunkLen), i - 1, key, FALSE)]

build_merkle_tree(data, key) ==
  IF data = <<>> THEN << <<>> >>
  ELSE IF Len(data) <= ChunkLen THEN << <<chunk_cv(data, 0, key, TRUE)>> >>
  ELSE BuildUp(leaf_cvs(data, key), key)

Root(layers) == Last(layers)[1]

(***************************************************************************)
(* Keyed BLAKE3 of the same bytes, as the library computes it: the left    *)
(* subtree holds the largest power of two of chunks below all of them.     *)
(***************************************************************************)
merkle_root_keyed(data, key) ==
  LET n == CeilDiv(Len(data), ChunkLen)
      half(c) == CHOOSE p \in {Pow2[e] : e \in 0..c} : p < c /\ 2 * p >= c
      node[span \in {x \in (0..n) \X (1..n) : x[1] + x[2] <= n}] ==
        LET lo == span[1]
            c  == span[2]
        IN IF c = 1 THEN chunk_cv(Piece(data, lo, ChunkLen), lo, key, n = 1)
           ELSE parent_cv(node[<<lo, half(c)>>], node[<<lo + half(c), c - half(c)>>], key, c = n)
  IN node[<<0, n>>]

-----------------------------------------------------------------------------
(***************************************************************************)
(* The OpenCL host's tree.                                                 *)
(***************************************************************************)
pad_to_chunk(data) == data \o Zeros(CeilDiv(Len(data), ChunkLen) * ChunkLen - Len(data))

\* The single-chunk kernel is told the true length and sets the root flag.
single_chunk_root(data, key) == chunk_cv(data, 0, key, TRUE)

\* One work item per whole chunk, of whole blocks.
blake3_chunk_cvs(data, key) ==
  LET n == ChunkLen \div BlockLen
      flags(b) == {"KEYED_HASH"} \cup {f \in {"CHUNK_START"} : b = 1}
                  \cup {f \in {"CHUNK_END"} : b = n}
      Item(c) ==
        LET cv[b \in 0..n] ==
              IF b = 0 THEN key
              ELSE compress(cv[b - 1], Piece(data, c * n + b - 1, BlockLen), c, BlockLen, flags(b))
        IN cv[n]
  IN <<>> \o [i \in 1..Len(data) \div ChunkLen |-> Item(i - 1)]

\* One work item per pair.
blake3_merkle_layer(cur, key, isRootLayer) ==
  [i \in 1..Len(cur) \div 2 |-> parent_cv(cur[2 * i - 1], cur[2 * i], key, isRootLayer)]

\* The host copies an odd last value behind what the kernel writes.
merkle_layer(cur, key) ==
  blake3_merkle_layer(cur, key, Len(cur) = 2)
  \o (IF Len(cur) % 2 = 1 THEN <<Last(cur)>> ELSE <<>>)

\* A buffer on the device must hold whole chunks.
RefusesBuffer(nBytes) == nBytes = 0 \/ nBytes % ChunkLen # 0

build_layers(data, key, onDevice) ==
  IF ~onDevice /\ data = <<>> THEN << <<>> >>
  ELSE IF ~onDevice /\ Len(data) <= ChunkLen THEN << <<single_chunk_root(data, key)>> >>
  ELSE LET leaves == blake3_chunk_cvs(pad_to_chunk(data), key)
           layer[l \in 0..Height(Len(leaves))] ==
             IF l = 0 THEN leaves ELSE merkle_layer(layer[l - 1], key)
       IN <<>> \o [l \in 1..Height(Len(leaves)) + 1 |-> layer[l - 1]]

-----------------------------------------------------------------------------
(***************************************************************************)
(* Multi-leaf proofs.                                                      *)
(***************************************************************************)

\* The leaves that cover some rows of a matrix.
compute_leaf_indices_from_rows(rows, cols) ==
  UNION {(r * cols) \div ChunkLen .. ((r + 1) * cols - 1) \div ChunkLen : r \in rows}

Sorted(S)  == [j \in 1..Cardinality(S) |->
                CHOOSE i \in S : Cardinality({x \in S : x < i}) = j - 1]
Sibling(i) == IF i % 2 = 1 THEN i - 1 ELSE i + 1

\* Fault: an absent right neighbour is not recognised at the end of a level.
SiblingsWrap(layers, S) ==
  FlattenSeq([l \in 1..Len(layers) - 1 |->
    LET current == {i \div Pow2[l - 1] : i \in S}
        needed == {i \in current : Sibling(i) \notin current}
    IN [j \in 1..Cardinality(needed) |->
          layers[l][Least(Sibling(Sorted(needed)[j]) + 1, Len(layers[l]))]]])

\* Walk the levels, collecting the neighbours the proof does not hold itself.
Siblings(layers, S) ==
  FlattenSeq([l \in 1..Len(layers) - 1 |->
    LET current == {i \div Pow2[l - 1] : i \in S}
        needed == {i \in current : Sibling(i) \notin current /\ Sibling(i) < Len(layers[l])}
    IN [j \in 1..Cardinality(needed) |-> layers[l][Sibling(Sorted(needed)[j]) + 1]]])

\* S is not empty and within the tree: the code raises ValueError otherwise.
get_multileaf_proof(layers, data, S) ==
  [leaf_data    |-> [j \in 1..Cardinality(S) |->
                       pad_to_chunk(Piece(data, Sorted(S)[j], ChunkLen))],
   leaf_indices |-> Sorted(S),
   total_leaves |-> Len(layers[1]),
   root         |-> Root(layers),
   siblings     |-> Siblings(layers, S)]

(***************************************************************************)
(* The replay: from the leaves and the siblings, consumed in order, back   *)
(* to the root.  None when a sibling is missing.                           *)
(***************************************************************************)

\* An entry of the level above: a later one for the same place replaces it.
Put(f, k, v) == [x \in {k} \cup DOMAIN f |-> IF x = k THEN v ELSE f[x]]

\* One node of the level cur: its parent goes to the level above, from its own
\* neighbour or from the next sibling of the proof.
ReplayNode(cur, levelLen, key, a, i) ==
  LET Pair(left, right) == parent_cv(left, right, key, levelLen = 2)
      Up(v, sibs) == [cur |-> Put(a.cur, i \div 2, v), sibs |-> sibs, short |-> a.short]
  IN IF i % 2 = 1 /\ i - 1 \in DOMAIN cur THEN a
     ELSE IF i % 2 = 0 /\ i + 1 \in DOMAIN cur THEN Up(Pair(cur[i], cur[i + 1]), a.sibs)
     ELSE IF i % 2 = 0 /\ i + 1 >= levelLen THEN Up(cur[i], a.sibs)
     ELSE IF a.sibs = <<>> THEN [a EXCEPT !.short = TRUE]
     ELSE IF i % 2 = 0 THEN Up(Pair(cur[i], Head(a.sibs)), Tail(a.sibs))
     ELSE Up(Pair(Head(a.sibs), cur[i]), Tail(a.sibs))

ReplayLevel(acc, levelLen, key) ==
  FoldLeft(LAMBDA a, i : ReplayNode(acc.cur, levelLen, key, a, i),
           [cur |-> <<>>, sibs |-> acc.sibs, short |-> acc.short],
           Sorted(DOMAIN acc.cur))

\* What the replay is left with: the root it reached and the unused siblings.
Replay(p, key) ==
  LET n == Len(p.leaf_indices)
      leafCvs == [i \in ToSet(p.leaf_indices) |->
                    LET j == CHOOSE j \in 1..n : p.leaf_indices[j] = i
                    IN chunk_cv(p.leaf_data[j], i, key, FALSE)]
      done == FoldLeft(LAMBDA acc, l : IF acc.short THEN acc
                         ELSE ReplayLevel(acc, CeilDiv(p.total_leaves, Pow2[l - 1]), key),
                       [cur |-> leafCvs, sibs |-> p.siblings, short |-> FALSE],
                       [l \in 1..Height(p.total_leaves) |-> l])
  IN [root |-> IF done.short THEN <<>> ELSE done.cur[0], left |-> done.sibs]
=============================================================================
