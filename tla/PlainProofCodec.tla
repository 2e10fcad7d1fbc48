--------------------------- MODULE PlainProofCodec ---------------------------
(***************************************************************************)
(* The wire form of a PlainProof (plain_proof_codec.py): bincode, every    *)
(* vector behind its length, fixed-size arrays without one.                *)
(*                                                                         *)
(* The wire is a sequence of cells: a u64 and a digest take one cell, a    *)
(* chunk one per byte.  A decoder's state holds what it has decoded so far *)
(* and the rest of the buffer; a read past the end makes it not ok, the    *)
(* ValueError of the code, and it stays so.                                *)
(***************************************************************************)
EXTENDS MerkleTree

-----------------------------------------------------------------------------
(***************************************************************************)
(* Encoding.                                                               *)
(***************************************************************************)

\* _pack_vec_u64, and _pack_vec_fixed_bytes for digests.
pack_vec(items) == <<Len(items)>> \o items

\* Every chunk carries its own length as well.
pack_vec_byte_chunks(chunks) ==
  LET step    == 1 + ChunkLen
      Cell(x) == IF x % step = 0 THEN ChunkLen ELSE chunks[1 + (x \div step)][x % step]
  IN <<Len(chunks)>> \o [x \in 1..Len(chunks) * step |-> Cell(x - 1)]

EncodeMerkleProof(p) ==
  pack_vec_byte_chunks(p.leaf_data) \o pack_vec(p.leaf_indices)
  \o <<p.total_leaves, p.root>> \o pack_vec(p.siblings)

EncodeMatrixProof(mp) == EncodeMerkleProof(mp.proof) \o pack_vec(mp.row_indices)

Encode(pp) ==
  <<pp.m, pp.n, pp.k, pp.noise_rank>> \o EncodeMatrixProof(pp.a) \o EncodeMatrixProof(pp.bt)

-----------------------------------------------------------------------------
(***************************************************************************)
(* Decoding.                                                               *)
(***************************************************************************)
Reading(buf) == [ok |-> TRUE, vals |-> <<>>, rest |-> buf]
Bad          == [ok |-> FALSE, vals |-> <<>>, rest |-> <<>>]

\* The buffer, already read up to here, goes on for n cells.
Has(st, n) == st.ok /\ Len(st.rest) >= n

\* They are read as the value v.
read_exact(st, n, v) ==
  [ok |-> TRUE, vals |-> Append(st.vals, v), rest |-> SubSeq(st.rest, n + 1, Len(st.rest))]

\* One cell: a u64, or a digest of fixed size.
unpack_u64(st) == IF Has(st, 1) THEN read_exact(st, 1, Head(st.rest)) ELSE Bad

\* A vector: its length, then so many cells.
unpack_vec(st) ==
  IF Has(st, 1) /\ Has(st, 1 + Head(st.rest))
    THEN read_exact(st, 1 + Head(st.rest), SubSeq(st.rest, 2, 1 + Head(st.rest)))
    ELSE Bad

\* A vector of vectors, each of which must say that it is a chunk.
unpack_vec_byte_chunks(st) ==
  LET step == 1 + ChunkLen
      n    == Head(st.rest)
  IN IF /\ Has(st, 1) /\ Has(st, 1 + n * step)
        /\ \A i \in 0..n - 1 : st.rest[2 + i * step] = ChunkLen
       THEN read_exact(st, 1 + n * step,
              [i \in 1..n |-> SubSeq(st.rest, 3 + (i - 1) * step, 1 + i * step)])
       ELSE Bad

\* The fields of MerkleProof, MatrixMerkleProof and PlainProof, in their order.
read_merkle_proof(st) ==
  unpack_vec(unpack_u64(unpack_u64(unpack_vec(unpack_vec_byte_chunks(st)))))

read_matrix_proof(st) == unpack_vec(read_merkle_proof(st))

read_plain_proof(st) ==
  read_matrix_proof(read_matrix_proof(unpack_u64(unpack_u64(unpack_u64(unpack_u64(st))))))

\* The values of a matrix' proof, i being the first of them.
DecodeMatrixProof(v, i) ==
  [proof |-> [leaf_data |-> v[i], leaf_indices |-> v[i + 1], total_leaves |-> v[i + 2],
              root |-> v[i + 3], siblings |-> v[i + 4]],
   row_indices |-> v[i + 5]]

\* Fault: bytes behind the proof are not noticed.
TrailingIgnored(st) == FALSE

\* Trailing junk is refused.
Trailing(st) == st.rest # <<>>

\* ok is FALSE when the code raises ValueError.
Decode(buf) ==
  LET s == read_plain_proof(Reading(buf))
      v == s.vals
  IN IF ~s.ok \/ Trailing(s) THEN Bad
     ELSE [ok |-> TRUE, rest |-> <<>>,
           vals |-> [m |-> v[1], n |-> v[2], k |-> v[3], noise_rank |-> v[4],
                     a |-> DecodeMatrixProof(v, 5), bt |-> DecodeMatrixProof(v, 11)]]
=============================================================================
