--------------------------- MODULE CandidateSearch ---------------------------
(***************************************************************************)
(* The searches of one job's candidate grid: the CPU loop                  *)
(* (candidate_search.py), the batched OpenCL search (jackpot_gpu.py), the  *)
(* native Vulkan search (jackpot_vk.py) and the coopmat sweep              *)
(* (jackpot_coopmat.py).                                                   *)
(*                                                                         *)
(* A grid is the sequence of the candidates in the order of enumeration;   *)
(* `below' is the set of those whose hash is below the target.  A result   *)
(* holds the candidate found (<<>> for None) and the attempts counted.     *)
(***************************************************************************)
EXTENDS Integers, SequencesExt

Unlimited == 0    \* max_attempts None, and 0 where the code takes 0 for it

Nothing(attempts) == [hit |-> <<>>, attempts |-> attempts]
Capped(cap, n)    == IF cap = Unlimited \/ cap > n THEN n ELSE cap

\* The candidates of seq that are below the target, as positions.
Hits(seq, below) == {i \in 1..Len(seq) : seq[i] \in below}
First(S)         == CHOOSE i \in S : \A j \in S : i <= j

\* Row offsets outside, column offsets inside; the first hit ends the search,
\* and so does the cap, looked at after each evaluation.
search_candidate(grid, below, cap) ==
  LET tried == SubSeq(grid, 1, Capped(cap, Len(grid)))
  IN IF Hits(tried, below) = {} THEN Nothing(Len(tried))
     ELSE LET i == First(Hits(tried, below)) IN [hit |-> grid[i], attempts |-> i]

\* Fault: the last hit of a batch wins.
WinnerLast(S) == CHOOSE i \in S : \A j \in S : i >= j

\* np.argmax of the mask: the first True.
Winner(S) == First(S)

\* The last batch is cut so that the cap is not exceeded.
Cut(batch, attempts, cap) ==
  IF cap # Unlimited /\ attempts + Len(batch) > cap
    THEN SubSeq(batch, 1, cap - attempts) ELSE batch

\* Where the batches (or tiles) of size b begin, up to n.
Starts(n, b) == {at \in 0..n - 1 : at % b = 0}

\* The first batch with a hit ends the search; a whole batch is evaluated and
\* counted before its hashes are compared.
JackpotGpuSearch(grid, below, cap, batchSize) ==
  LET Batch(at) == Cut(SubSeq(grid, at + 1, Capped(at + batchSize, Len(grid))), at, cap)
      limit   == Capped(cap, Len(grid))
      hitting == {at \in Starts(limit, batchSize) : Hits(Batch(at), below) # {}}
      at      == First(hitting)
  IN IF hitting = {} THEN Nothing(limit)
     ELSE [hit |-> Batch(at)[Winner(Hits(Batch(at), below))],
           attempts |-> at + Len(Batch(at))]

\* jvk_search: the same batches, but a hit counts up to itself.
JackpotVkSearch(grid, below, cap, batchSize) ==
  LET Batch(at) == SubSeq(grid, at + 1, Capped(cap, Capped(at + batchSize, Len(grid))))
      limit   == Capped(cap, Len(grid))
      hitting == {at \in Starts(limit, batchSize) : Hits(Batch(at), below) # {}}
      at      == First(hitting)
      i       == First(Hits(Batch(at), below))
  IN IF hitting = {} THEN Nothing(limit)
     ELSE [hit |-> Batch(at)[i], attempts |-> at + i]

(***************************************************************************)
(* The coopmat sweep: workgroup w evaluates one band of rows against one   *)
(* block of columns, tile after tile of chunk workgroups.  Any hit of the  *)
(* first tile that has one may be the record returned: hits is their set.  *)
(***************************************************************************)
Workgroup(w, rows, cols, win, nblocks) ==
  {<<rows[(w \div nblocks) * win + d], cols[1 + (w % nblocks)]>> : d \in 1..win}

JackpotCoopmatSearch(rows, cols, win, below, cap, chunk) ==
  LET nblocks == Len(cols)
      total == (Len(rows) \div win) * nblocks
      wgCap == IF cap = Unlimited THEN total ELSE Capped((cap + win - 1) \div win, total)
      Tile(off) == UNION {Workgroup(w, rows, cols, win, nblocks) :
                            w \in off..Capped(off + chunk, wgCap) - 1}
      hitting == {off \in Starts(wgCap, chunk) : Tile(off) \cap below # {}}
      off     == First(hitting)
  IN IF hitting = {} THEN [hits |-> {}, attempts |-> win * wgCap]
     ELSE [hits |-> Tile(off) \cap below, attempts |-> win * Capped(off + chunk, wgCap)]
=============================================================================
