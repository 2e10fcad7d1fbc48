---------------------------- MODULE KernelProofs ----------------------------
(***************************************************************************)
(* Proofs that hold what the devices and the wire make of a share against  *)
(* what the CPU makes of it, in every reachable state of ShareAssembly:    *)
(*                                                                         *)
(* TreesAgree - the root of the host's tree is keyed BLAKE3 exactly where  *)
(* KeyedTree says.  Elsewhere the last leaf is another chain of            *)
(* compressions, and so is the last value of every layer above it.         *)
(*                                                                         *)
(* ConfigOnWire - the six bytes of a pattern read back as the pattern.     *)
(*                                                                         *)
(* KernelsAgree - the words of a candidate are the same on the CPU, on the *)
(* coopmat pipeline and at the pool, from the leaves of the share; and the *)
(* OpenCL and the Vulkan search agree with each other, whatever tiles they *)
(* cut.  The argument follows the data.  The device derives the matrices   *)
(* and the noise from the same BLAKE3 stream, in blocks; every entry of a  *)
(* matrix has seven bits and every noised one eight, so packing loses      *)
(* nothing; a bit of a word is the parity of a count, which the tiles      *)
(* split; the pool finds each row of the candidate in the leaves proved.   *)
(***************************************************************************)
EXTENDS ShareAssemblyProofs, FunctionTheorems

-----------------------------------------------------------------------------
(***************************************************************************)
(* Where the host's tree is not that of keyed BLAKE3: its last leaf is     *)
(* another, and so is the last value of every layer above it.              *)
(***************************************************************************)

\* A chain of compressions: each of the one before and of what else it is given.
Chain(key, rest, n, cv) ==
  cv = [b \in 0..n |-> IF b = 0 THEN key
                       ELSE <<rest[b][1], rest[b][2], rest[b][3], cv[b - 1], rest[b][4]>>]

\* Each of its values.
Steps(rest, n, cv) ==
  \A b \in 1..n : cv[b] = <<rest[b][1], rest[b][2], rest[b][3], cv[b - 1], rest[b][4]>>

LEMMA ChainAt ==
  ASSUME NEW key, NEW rest, NEW n \in Nat, NEW cv, Chain(key, rest, n, cv)
  PROVE  Steps(rest, n, cv)
<1>1. \A b \in 0..n : cv[b] = IF b = 0 THEN key
                              ELSE <<rest[b][1], rest[b][2], rest[b][3], cv[b - 1], rest[b][4]>>
  BY DEF Chain
<1>2. ASSUME NEW b \in 1..n
      PROVE  cv[b] = <<rest[b][1], rest[b][2], rest[b][3], cv[b - 1], rest[b][4]>>
  <2>1. b \in 0..n /\ b # 0
    OBVIOUS
  <2>2. QED
    BY <1>1, <2>1
<1>3. QED
  BY <1>2 DEF Steps

\* There is one.
LEMMA ChainExists ==
  ASSUME NEW key, NEW rest, NEW N \in Nat
  PROVE  \E cv : Chain(key, rest, N, cv)
<1> DEFINE T == {n \in 0..N : \E cv : Chain(key, rest, n, cv)}
           Next1(v, b) == <<rest[b][1], rest[b][2], rest[b][3], v, rest[b][4]>>
<1>0. \A v, b : Next1(v, b) = <<rest[b][1], rest[b][2], rest[b][3], v, rest[b][4]>>
  OBVIOUS
<1>1. \A n : n \in T <=> n \in 0..N /\ \E cv : Chain(key, rest, n, cv)
  OBVIOUS
<1>2. \A n, cv : Chain(key, rest, n, cv) <=>
                   cv = [b \in 0..n |-> IF b = 0 THEN key ELSE Next1(cv[b - 1], b)]
  BY DEF Chain
<1> HIDE DEF T, Next1
<1>3. 0 \in T
  <2>1. PICK z \in 0..N : z = 0
    OBVIOUS
  <2>2. PICK cv : cv = [b \in 0..z |-> key]
    OBVIOUS
  <2>3. \A b \in 0..z : b = 0
    BY <2>1
  <2>4. cv = [b \in 0..z |-> IF b = 0 THEN key ELSE Next1(cv[b - 1], b)]
    BY <2>2, <2>3
  <2>5. z \in T
    BY <1>1, <1>2, <2>4
  <2>6. QED
    BY <2>1, <2>5
<1>4. ASSUME NEW n \in 0..N - 1, n \in T PROVE n + 1 \in T
  <2>1. PICK m : m = n + 1 /\ m \in 0..N /\ m - 1 = n /\ m # 0
    OBVIOUS
  <2>2. PICK g : g = [b \in 0..n |-> IF b = 0 THEN key ELSE Next1(g[b - 1], b)]
    BY <1>1, <1>2, <1>4
  <2>3. \A b \in 0..n : g[b] = IF b = 0 THEN key ELSE Next1(g[b - 1], b)
    BY <2>2
  <2>4. PICK h : h = [b \in 0..m |-> IF b <= n THEN g[b] ELSE Next1(g[n], b)]
    OBVIOUS
  <2>5. ASSUME NEW b \in 0..m PROVE h[b] = IF b = 0 THEN key ELSE Next1(h[b - 1], b)
    <3>1. CASE b <= n
      <4>1. h[b] = g[b] /\ b \in 0..n
        BY <2>4, <3>1
      <4>2. b # 0 => b - 1 \in 0..m /\ b - 1 <= n
        BY <2>1, <4>1
      <4>3. b # 0 => h[b - 1] = g[b - 1]
        BY <2>4, <4>2
      <4>4. QED
        BY <2>3, <4>1, <4>3
    <3>2. CASE ~(b <= n)
      <4>1. b = m /\ b - 1 = n /\ b # 0 /\ n \in 0..m
        BY <2>1, <3>2
      <4>2. h[b] = Next1(g[n], b) /\ h[n] = g[n]
        BY <2>4, <3>2, <4>1
      <4>3. QED
        BY <4>1, <4>2
    <3>3. QED
      BY <3>1, <3>2
  <2>6. h = [b \in 0..m |-> IF b = 0 THEN key ELSE Next1(h[b - 1], b)]
    BY <2>4, <2>5
  <2>7. m \in T
    BY <1>1, <1>2, <2>1, <2>6
  <2>8. QED
    BY <2>1, <2>7
<1>5. \A n \in 0..N : n \in T
  BY <1>3, <1>4, Upwards
<1>6. N \in T
  BY <1>5
<1>7. QED
  BY <1>1, <1>6

\* The longer of two chains ends in another value, if the shorter starts with a
\* flag the longer does not set later on.
LEMMA ChainsApart ==
  ASSUME NEW key, NEW p, NEW n \in Nat, NEW f, Chain(key, p, n, f),
         NEW r, NEW m \in Nat \ {0}, NEW g, Chain(key, r, m, g), m < n,
         \A b \in 2..n : p[b][1] # r[1][1]
  PROVE  f[n] # g[m]
<1>0. \A b \in 1..n : f[b] = <<p[b][1], p[b][2], p[b][3], f[b - 1], p[b][4]>>
  <2>1. Steps(p, n, f)
    BY ChainAt
  <2>2. QED
    BY <2>1 DEF Steps
<1>1. \A b \in 1..m : g[b] = <<r[b][1], r[b][2], r[b][3], g[b - 1], r[b][4]>>
  <2>1. m \in Nat
    OBVIOUS
  <2>2. Steps(r, m, g)
    BY <2>1, ChainAt
  <2>3. QED
    BY <2>2 DEF Steps
<1>2. PICK s \in Nat \ {0}, M \in Nat : s = n - m /\ M = m - 1
  OBVIOUS
<1> DEFINE T == {b \in 0..M : f[b + 1 + s] # g[b + 1]}
<1>3. \A b : b \in T <=> b \in 0..M /\ f[b + 1 + s] # g[b + 1]
  OBVIOUS
<1> HIDE DEF T
<1>4. 0 \in T
  <2>1. PICK o, a : o = 1 /\ a = 1 + s /\ o \in 1..m /\ a \in 1..n /\ a \in 2..n
    BY <1>2
  <2>2. f[a][1] = p[a][1] /\ g[o][1] = r[o][1]
    BY <1>0, <1>1, <2>1
  <2>3. p[a][1] # r[o][1]
    BY <2>1
  <2>4. f[a] # g[o]
    BY <2>2, <2>3
  <2>5. 0 + 1 + s = a /\ 0 + 1 = o /\ 0 \in 0..M
    BY <1>2, <2>1
  <2>6. QED
    BY <1>3, <2>4, <2>5
<1>5. ASSUME NEW b \in 0..M - 1, b \in T PROVE b + 1 \in T
  <2>1. PICK c, a : /\ c = b + 2 /\ a = b + 2 + s /\ c \in 1..m /\ a \in 1..n
                    /\ c - 1 = b + 1 /\ a - 1 = b + 1 + s /\ b + 1 \in 0..M
                    /\ (b + 1) + 1 = c /\ (b + 1) + 1 + s = a
    BY <1>2
  <2>2. f[a - 1] # g[c - 1]
    BY <1>3, <1>5, <2>1
  <2>3. f[a][4] = f[a - 1] /\ g[c][4] = g[c - 1]
    BY <1>0, <1>1, <2>1
  <2>4. f[a] # g[c]
    BY <2>2, <2>3
  <2>5. QED
    BY <1>3, <2>1, <2>4
<1>6. M \in T
  <2>1. \A b \in 0..M : b \in T
    BY <1>4, <1>5, Upwards
  <2>2. QED
    BY <1>2, <2>1
<1>7. M + 1 + s = n /\ M + 1 = m
  BY <1>2
<1>8. QED
  BY <1>3, <1>6, <1>7

\* The chain of a work item.
ItemRun(data, c, n, key, rest, cv) ==
  /\ Chain(key, rest, n, cv) /\ WorkItem(data, c, n, key) = cv[n]
  /\ \A b \in 1..n : rest[b][1] = WholeFlags(b, n) /\ rest[b][3] = BlockLen

LEMMA ItemChain ==
  ASSUME NEW data, NEW c, NEW n \in Nat, NEW key
  PROVE  \E rest, cv : ItemRun(data, c, n, key, rest, cv)
<1>1. PICK rest : rest = [b \in 1..n |-> <<WholeFlags(b, n), c, BlockLen,
                                           Piece(data, c * n + b - 1, BlockLen)>>]
  OBVIOUS
<1>2. ASSUME NEW cv PROVE Chain(key, rest, n, cv) <=> ItemCvs(data, c, n, key, cv)
  <2>1. ASSUME NEW b \in 0..n
        PROVE  (IF b = 0 THEN key
                ELSE <<rest[b][1], rest[b][2], rest[b][3], cv[b - 1], rest[b][4]>>)
               = (IF b = 0 THEN key
                  ELSE compress(cv[b - 1], Piece(data, c * n + b - 1, BlockLen), c, BlockLen,
                                WholeFlags(b, n)))
    <3>1. b # 0 => b \in 1..n
      OBVIOUS
    <3>2. QED
      BY <1>1, <3>1 DEF compress
  <2>2. QED
    BY <2>1 DEF Chain, ItemCvs
<1>3. PICK cv : cv = CHOOSE f : ItemCvs(data, c, n, key, f)
  OBVIOUS
<1>4. \E f : ItemCvs(data, c, n, key, f)
  BY <1>2, ChainExists
<1>5. Chain(key, rest, n, cv)
  BY <1>2, <1>3, <1>4
<1>6. \A b \in 1..n : rest[b][1] = WholeFlags(b, n) /\ rest[b][3] = BlockLen
  BY <1>1
<1>7. QED
  BY <1>3, <1>5, <1>6 DEF WorkItem, ItemRun

\* The chain of a chunk.
ChunkRun(data, c, n, key, isRoot, rest, cv) ==
  /\ Chain(key, rest, n, cv) /\ chunk_cv(data, c, key, isRoot) = cv[n]
  /\ \A b \in 1..n : rest[b][1] = ChunkFlags(b, n, isRoot) /\ rest[b][3] = block_len(data, b)

LEMMA ChunkIsChain ==
  ASSUME NEW data, data # <<>>, NEW c, NEW n \in Nat, n = CeilDiv(Len(data), BlockLen),
         NEW key, NEW isRoot
  PROVE  \E rest, cv : ChunkRun(data, c, n, key, isRoot, rest, cv)
<1>1. PICK padded : padded = data \o Zeros(n * BlockLen - Len(data))
  OBVIOUS
<1>2. PICK rest : rest = [b \in 1..n |-> <<ChunkFlags(b, n, isRoot), c, block_len(data, b),
                                           Piece(padded, b - 1, BlockLen)>>]
  OBVIOUS
<1>3. ASSUME NEW cv PROVE Chain(key, rest, n, cv) <=> ChunkCvs(data, padded, c, n, key, isRoot, cv)
  <2>1. ASSUME NEW b \in 0..n
        PROVE  (IF b = 0 THEN key
                ELSE <<rest[b][1], rest[b][2], rest[b][3], cv[b - 1], rest[b][4]>>)
               = (IF b = 0 THEN key
                  ELSE compress(cv[b - 1], Piece(padded, b - 1, BlockLen), c,
                                block_len(data, b), ChunkFlags(b, n, isRoot)))
    <3>1. b # 0 => b \in 1..n
      OBVIOUS
    <3>2. QED
      BY <1>2, <3>1 DEF compress
  <2>2. QED
    BY <2>1 DEF Chain, ChunkCvs
<1>4. PICK cv : cv = ChunkChain(data, padded, c, n, key, isRoot)
  OBVIOUS
<1>5. \E f : ChunkCvs(data, padded, c, n, key, isRoot, f)
  BY <1>3, ChainExists
<1>6. Chain(key, rest, n, cv)
  BY <1>3, <1>4, <1>5 DEF ChunkChain
<1>7. chunk_cv(data, c, key, isRoot) = cv[n]
  BY <1>1, <1>4, ChunkCvIs DEF Chained
<1>8. \A b \in 1..n : rest[b][1] = ChunkFlags(b, n, isRoot) /\ rest[b][3] = block_len(data, b)
  BY <1>2
<1>9. QED
  BY <1>6, <1>7, <1>8 DEF ChunkRun

\* The numbers of blocks: of a whole chunk, and of r bytes of one.
LEMMA BlockCounts ==
  ASSUME NEW r \in Nat \ {0}, r <= ChunkLen
  PROVE  \E B \in Nat \ {0}, n \in Nat \ {0}, m \in Nat \ {0} :
           /\ B = BlockLen /\ n = ChunkLen \div BlockLen /\ ChunkLen = n * B
           /\ m = CeilDiv(r, BlockLen) /\ m <= n
<1>1. PICK B \in Nat \ {0}, C \in Nat \ {0} : B = BlockLen /\ C = ChunkLen /\ C % B = 0
  BY MerkleAssumption
<1>2. PICK n \in Nat : n = C \div B /\ C = n * B /\ n # 0
  <2>1. PICK n, z : n = C \div B /\ z = C % B
    OBVIOUS
  <2>2. n \in Nat /\ z = 0 /\ C = B * n + z
    BY <1>1, <2>1, Division
  <2>3. C = n * B /\ n # 0
    BY <2>2
  <2>4. QED
    BY <2>1, <2>2, <2>3
<1>3. PICK m \in Nat : m = CeilDiv(r, B) /\ \A x \in Nat : x < m <=> x * B < r
  BY CeilIs
<1>4. m # 0
  <2>1. PICK z \in Nat : z = 0 /\ z * B = 0
    OBVIOUS
  <2>2. z < m
    BY <1>3, <2>1
  <2>3. QED
    BY <2>1, <2>2
<1>5. m <= n
  <2>1. ~(n * B < r)
    BY <1>1, <1>2
  <2>2. ~(n < m)
    BY <1>2, <1>3, <2>1
  <2>3. QED
    BY <1>2, <1>3, <2>2
<1>6. QED
  BY <1>1, <1>2, <1>3, <1>4, <1>5

\* A chunk that is not whole is another than the work item of the padded one.
LEMMA PartialApart ==
  ASSUME NEW V, NEW p \in Seq(V), 0 < Len(p), Len(p) < ChunkLen, NEW data, NEW c, NEW key
  PROVE  WorkItem(data, c, ChunkLen \div BlockLen, key) # chunk_cv(p, c, key, FALSE)
<1>1. PICK r \in Nat \ {0}, C \in Nat \ {0} : r = Len(p) /\ C = ChunkLen /\ r < C
  <2>1. PICK r \in Nat \ {0} : r = Len(p)
    OBVIOUS
  <2>2. PICK C \in Nat \ {0} : C = ChunkLen
    BY MerkleAssumption
  <2>3. QED
    BY <2>1, <2>2
<1>2. PICK B \in Nat \ {0}, n \in Nat \ {0}, m \in Nat \ {0} :
        /\ B = BlockLen /\ n = ChunkLen \div BlockLen /\ C = n * B
        /\ m = CeilDiv(r, BlockLen) /\ m <= n
  BY <1>1, BlockCounts
<1>8. n \in Nat /\ m \in Nat
  OBVIOUS
<1>10. PICK rest1, f : ItemRun(data, c, n, key, rest1, f)
  BY <1>8, ItemChain
<1>3. /\ Chain(key, rest1, n, f) /\ WorkItem(data, c, n, key) = f[n]
      /\ \A b \in 1..n : rest1[b][1] = WholeFlags(b, n) /\ rest1[b][3] = BlockLen
  BY <1>10 DEF ItemRun
<1>11. PICK rest2, g : ChunkRun(p, c, m, key, FALSE, rest2, g)
  <2>1. p # <<>>
    OBVIOUS
  <2>2. m = CeilDiv(Len(p), BlockLen)
    BY <1>1, <1>2
  <2>3. QED
    BY <1>8, <2>1, <2>2, ChunkIsChain
<1>4. /\ Chain(key, rest2, m, g) /\ chunk_cv(p, c, key, FALSE) = g[m]
      /\ \A b \in 1..m : rest2[b][1] = ChunkFlags(b, m, FALSE) /\ rest2[b][3] = block_len(p, b)
  BY <1>11 DEF ChunkRun
<1>12. Steps(rest1, n, f) /\ Steps(rest2, m, g)
  BY <1>3, <1>4, <1>8, ChainAt
<1>5. f[n] # g[m]
  <2>1. CASE m = n
    <3>1. PICK x \in Int : x = r - (n - 1) * B /\ x < B
      <4>1. PICK y \in Nat : y = (n - 1) * B /\ n * B = y + B
        <5>1. PICK o \in Nat : o = n - 1 /\ n = o + 1
          OBVIOUS
        <5>2. (o + 1) * B = o * B + B /\ o * B \in Nat
          OBVIOUS
        <5>3. QED
          BY <5>1, <5>2
      <4>2. r - y < B
        BY <1>1, <1>2, <4>1
      <4>3. QED
        BY <4>1, <4>2
    <3>2. block_len(p, n) = x
      BY <1>1, <1>2, <3>1 DEF block_len, Least
    <3>3. n \in 1..n
      OBVIOUS
    <3>4. f[n][3] = B
      <4>1. f[n][3] = rest1[n][3]
        <5>1. f[n] = <<rest1[n][1], rest1[n][2], rest1[n][3], f[n - 1], rest1[n][4]>>
          BY <1>12, <3>3 DEF Steps
        <5>2. QED
          BY <5>1
      <4>2. QED
        BY <1>2, <1>3, <3>3, <4>1
    <3>5. g[n][3] = x
      <4>1. g[n][3] = rest2[n][3]
        <5>1. g[n] = <<rest2[n][1], rest2[n][2], rest2[n][3], g[n - 1], rest2[n][4]>>
          BY <1>12, <2>1, <3>3 DEF Steps
        <5>2. QED
          BY <5>1
      <4>2. QED
        BY <1>4, <2>1, <3>2, <3>3, <4>1
    <3>6. f[n] # g[n]
      BY <3>1, <3>4, <3>5
    <3>7. QED
      BY <2>1, <3>6
  <2>2. CASE m # n
    <3>1. m < n /\ n \in Nat
      BY <1>2, <2>2
    <3>2. \A b \in 2..n : rest1[b][1] # rest2[1][1]
      <4>1. ASSUME NEW b \in 2..n PROVE rest1[b][1] # rest2[1][1]
        <5>1. b \in 1..n /\ b # 1 /\ 1 \in 1..m
          OBVIOUS
        <5>2. rest1[b][1] = WholeFlags(b, n) /\ rest2[1][1] = ChunkFlags(1, m, FALSE)
          BY <1>3, <1>4, <5>1
        <5>3. "CHUNK_START" \notin WholeFlags(b, n)
          BY <5>1 DEF WholeFlags
        <5>4. "CHUNK_START" \in ChunkFlags(1, m, FALSE)
          BY DEF ChunkFlags
        <5>5. QED
          BY <5>2, <5>3, <5>4
      <4>2. QED
        BY <4>1
    <3>3. QED
      BY <1>3, <1>4, <3>1, <3>2, ChainsApart
  <2>3. QED
    BY <2>1, <2>2
<1>6. QED
  BY <1>2, <1>3, <1>4, <1>5

\* One chunk hashed as the root is another than its work item.
LEMMA RootApart ==
  ASSUME NEW V, NEW p \in Seq(V), Len(p) = ChunkLen, NEW data, NEW c, NEW key
  PROVE  WorkItem(data, c, ChunkLen \div BlockLen, key) # chunk_cv(p, c, key, TRUE)
<1>1. PICK C \in Nat \ {0} : C = ChunkLen /\ C = Len(p)
  BY MerkleAssumption
<1>2. PICK B \in Nat \ {0}, n \in Nat \ {0}, m \in Nat \ {0} :
        /\ B = BlockLen /\ n = ChunkLen \div BlockLen
        /\ m = CeilDiv(C, BlockLen)
  BY <1>1, BlockCounts
<1>8. n \in Nat /\ m \in Nat
  OBVIOUS
<1>10. PICK rest1, f : ItemRun(data, c, n, key, rest1, f)
  BY <1>8, ItemChain
<1>3. /\ Chain(key, rest1, n, f) /\ WorkItem(data, c, n, key) = f[n]
      /\ \A b \in 1..n : rest1[b][1] = WholeFlags(b, n) /\ rest1[b][3] = BlockLen
  BY <1>10 DEF ItemRun
<1>11. PICK rest2, g : ChunkRun(p, c, m, key, TRUE, rest2, g)
  <2>1. p # <<>>
    BY <1>1
  <2>2. m = CeilDiv(Len(p), BlockLen)
    BY <1>1, <1>2
  <2>3. QED
    BY <1>8, <2>1, <2>2, ChunkIsChain
<1>4. /\ Chain(key, rest2, m, g) /\ chunk_cv(p, c, key, TRUE) = g[m]
      /\ \A b \in 1..m : rest2[b][1] = ChunkFlags(b, m, TRUE) /\ rest2[b][3] = block_len(p, b)
  BY <1>11 DEF ChunkRun
<1>12. Steps(rest1, n, f) /\ Steps(rest2, m, g)
  BY <1>3, <1>4, <1>8, ChainAt
<1>5. f[n][1] = WholeFlags(n, n) /\ g[m][1] = ChunkFlags(m, m, TRUE)
  <2>1. n \in 1..n /\ m \in 1..m
    OBVIOUS
  <2>2. f[n] = <<rest1[n][1], rest1[n][2], rest1[n][3], f[n - 1], rest1[n][4]>>
    BY <1>12, <2>1 DEF Steps
  <2>3. g[m] = <<rest2[m][1], rest2[m][2], rest2[m][3], g[m - 1], rest2[m][4]>>
    BY <1>12, <2>1 DEF Steps
  <2>4. f[n][1] = rest1[n][1] /\ g[m][1] = rest2[m][1]
    BY <2>2, <2>3
  <2>5. QED
    BY <1>3, <1>4, <2>1, <2>4
<1>6. "ROOT" \notin WholeFlags(n, n) /\ "ROOT" \in ChunkFlags(m, m, TRUE)
  BY DEF WholeFlags, ChunkFlags
<1>7. f[n] # g[m]
  BY <1>5, <1>6
<1>9. QED
  BY <1>2, <1>3, <1>4, <1>7

\* Two lists of one length that differ in their last values.
EndApart(x, y) == Len(x) \in Nat \ {0} /\ Len(y) = Len(x) /\ x[Len(x)] # y[Len(x)]

\* So do the layers over them,
LEMMA LayersApart ==
  ASSUME NEW x, NEW y, EndApart(x, y), NEW key, NEW u, NEW v, Paired(x, key, u), Paired(y, key, v)
  PROVE  EndApart(u, v)
<1>1. PICK n \in Nat \ {0} : n = Len(x) /\ n = Len(y) /\ x[n] # y[n]
  BY DEF EndApart
<1>2. PICK m \in Nat : m = CeilDiv(n, 2) /\ \A c \in Nat : c < m <=> c * 2 < n
  <2>1. PICK two \in Nat \ {0}, k \in Nat : two = 2 /\ k = n
    OBVIOUS
  <2>2. QED
    BY <2>1, CeilIs
<1>3. m # 0 /\ (n = 2 * m \/ n = 2 * m - 1)
  <2>1. 0 < m <=> 0 * 2 < n
    BY <1>2
  <2>2. m # 0
    BY <2>1
  <2>3. PICK o \in Nat : o = m - 1
    BY <2>2
  <2>4. o < m <=> o * 2 < n
    BY <1>2
  <2>5. m < m <=> m * 2 < n
    BY <1>2
  <2>6. QED
    BY <2>2, <2>3, <2>4, <2>5
<1>4. /\ Len(u) = m /\ Len(v) = m
      /\ u[m] = IF 2 * m <= n THEN parent_cv(x[2 * m - 1], x[2 * m], key, n = 2) ELSE x[n]
      /\ v[m] = IF 2 * m <= n THEN parent_cv(y[2 * m - 1], y[2 * m], key, n = 2) ELSE y[n]
  <2>1. m \in 1..m
    BY <1>3
  <2>2. QED
    BY <1>1, <1>2, <2>1 DEF Paired
<1>5. u[m] # v[m]
  <2>1. CASE n = 2 * m
    <3>1. PICK a, b, o : /\ u[m] = parent_cv(a, x[n], key, o) /\ v[m] = parent_cv(b, y[n], key, o)
      BY <1>4, <2>1
    <3>2. u[m][5][2] = x[n] /\ v[m][5][2] = y[n]
      BY <3>1 DEF parent_cv, compress
    <3>3. QED
      BY <1>1, <3>2
  <2>2. CASE n # 2 * m
    <3>1. ~(2 * m <= n)
      BY <1>3, <2>2
    <3>2. QED
      BY <1>1, <1>4, <3>1
  <2>3. QED
    BY <2>1, <2>2
<1>6. QED
  BY <1>3, <1>4, <1>5 DEF EndApart

\* up to the root.
LEMMA RootsApart ==
  ASSUME NEW x, NEW y, IsList(x), IsList(y), EndApart(x, y), NEW key, NEW s, NEW t,
         TreeOf(x, key, s), TreeOf(y, key, t)
  PROVE  Root(s) # Root(t)
<1>1. PICK n \in Nat \ {0} : n = Len(x) /\ n = Len(y)
  BY DEF EndApart
<1>2. PICK h \in Nat : h = Height(n)
  BY HeightIs
<1>3. PICK f : Layered(x, key, f) /\ s = [l \in 1..h + 1 |-> f[l - 1]]
  BY <1>1, <1>2 DEF TreeOf
<1>4. PICK g : Layered(y, key, g) /\ t = [l \in 1..h + 1 |-> g[l - 1]]
  BY <1>1, <1>2 DEF TreeOf
<1> DEFINE T == {l \in 0..h : EndApart(f[l], g[l])}
<1>5. \A l : l \in T <=> l \in 0..h /\ EndApart(f[l], g[l])
  OBVIOUS
<1> HIDE DEF T
<1>6. 0 \in T
  <2>1. f[0] = x /\ g[0] = y
    BY <1>3, <1>4 DEF Layered
  <2>2. 0 \in 0..h
    BY <1>2
  <2>3. QED
    BY <1>5, <2>1, <2>2
<1>7. ASSUME NEW l \in 0..h - 1, l \in T PROVE l + 1 \in T
  <2>1. PICK k : k = l + 1 /\ k \in 1..h /\ k \in 0..h /\ k - 1 = l
    BY <1>2
  <2>2. Paired(f[l], key, f[k]) /\ Paired(g[l], key, g[k])
    BY <1>1, <1>2, <1>3, <1>4, <2>1 DEF Layered
  <2>3. EndApart(f[l], g[l])
    BY <1>5, <1>7
  <2>4. EndApart(f[k], g[k])
    BY <2>2, <2>3, LayersApart
  <2>5. QED
    BY <1>5, <2>1, <2>4
<1>8. EndApart(f[h], g[h])
  <2>1. \A l \in 0..h : l \in T
    BY <1>6, <1>7, Upwards
  <2>2. h \in 0..h
    BY <1>2
  <2>3. QED
    BY <1>5, <2>1, <2>2
<1>9. Len(f[h]) = 1
  BY <1>1, <1>2, <1>3, TopIs
<1>10. f[h][1] # g[h][1]
  BY <1>8, <1>9 DEF EndApart
<1>11. Root(s) = f[h][1]
  <2>1. s = [l \in 1..h + 1 |-> s[l]] /\ s[h + 1] = f[h]
    BY <1>2, <1>3
  <2>2. Len(s) = h + 1
    BY <1>2, <2>1, ListIs
  <2>3. QED
    BY <2>1, <2>2 DEF Root, Last
<1>12. Root(t) = g[h][1]
  <2>1. t = [l \in 1..h + 1 |-> t[l]] /\ t[h + 1] = g[h]
    BY <1>2, <1>4
  <2>2. Len(t) = h + 1
    BY <1>2, <2>1, ListIs
  <2>3. QED
    BY <2>1, <2>2 DEF Root, Last
<1>13. QED
  BY <1>10, <1>11, <1>12

\* One leaf is its own tree.
LEMMA LeafIsTree ==
  ASSUME NEW w, NEW key
  PROVE  /\ IsList(<<w>>) /\ Len(<<w>>) = 1
         /\ \E t : TreeOf(<<w>>, key, t) /\ Root(t) = w
<1>1. IsList(<<w>>) /\ Len(<<w>>) = 1
  <2>1. <<w>> \in Seq({w})
    OBVIOUS
  <2>2. QED
    BY <2>1 DEF IsList
<1>2. PICK t : TreeOf(<<w>>, key, t)
  BY <1>1, BuildUpIs
<1>3. PICK o \in Nat \ {0} : o = 1 /\ o = Len(<<w>>)
  BY <1>1
<1>4. Height(o) = 0
  <2>1. Height(o) \in 0..o /\ \A g \in 0..Height(o) - 1 : Pow2[g] < o
    BY HeightIs
  <2>2. PICK z \in Nat : z = 0 /\ Pow2[z] = 1
    BY PowIs
  <2>3. PICK h \in 0..1 : h = Height(o)
    BY <1>3, <2>1
  <2>4. h # 1
    <3>1. ASSUME h = 1 PROVE FALSE
      <4>1. z \in 0..h - 1
        BY <2>2, <3>1
      <4>2. QED
        BY <1>3, <2>1, <2>2, <2>3, <4>1
    <3>2. QED
      BY <3>1
  <2>5. QED
    BY <2>3, <2>4
<1>5. PICK g : Layered(<<w>>, key, g) /\ t = [l \in 1..Height(Len(<<w>>)) + 1 |-> g[l - 1]]
  BY <1>2 DEF TreeOf
<1>6. t = [l \in 1..1 |-> g[l - 1]] /\ g[0] = <<w>>
  <2>1. t = [l \in 1..0 + 1 |-> g[l - 1]]
    BY <1>3, <1>4, <1>5
  <2>2. g[0] = <<w>>
    BY <1>5 DEF Layered
  <2>3. QED
    BY <2>1, <2>2
<1>7. Len(t) = 1 /\ t[1] = <<w>>
  <2>1. t = [l \in 1..1 |-> t[l]] /\ t[1] = <<w>>
    BY <1>6
  <2>2. QED
    BY <2>1, ListIs
<1>8. Root(t) = w
  BY <1>7 DEF Root, Last
<1>9. QED
  BY <1>1, <1>2, <1>8

\* The last chunk of bytes that are not whole chunks is shorter than one.
LEMMA LastPartial ==
  ASSUME NEW V, NEW data \in Seq(V), Len(data) > 0, Len(data) % ChunkLen # 0,
         NEW q \in Nat \ {0}, q = CeilDiv(Len(data), ChunkLen)
  PROVE  \E p \in Seq(V) : /\ p = Piece(data, q - 1, ChunkLen)
                           /\ 0 < Len(p) /\ Len(p) < ChunkLen
<1>1. PICK C \in Nat \ {0} : C = ChunkLen
  BY MerkleAssumption
<1>2. PICK len \in Nat : len = Len(data) /\ len % C # 0
  BY <1>1
<1>3. q = CeilDiv(len, C) /\ \A x \in Nat : x < q <=> x * C < len
  BY <1>1, <1>2, CeilIs
<1>4. PICK a \in Nat, b \in Nat : a = (q - 1) * C /\ b = q * C /\ b = a + C
  <2>1. PICK o \in Nat : o = q - 1 /\ q = o + 1
    OBVIOUS
  <2>2. (o + 1) * C = o * C + C /\ o * C \in Nat
    OBVIOUS
  <2>3. QED
    BY <2>1, <2>2
<1>5. a < len
  <2>1. PICK o \in Nat : o = q - 1 /\ o < q
    OBVIOUS
  <2>2. o * C < len
    BY <1>3, <2>1
  <2>3. QED
    BY <1>4, <2>1, <2>2
<1>6. ~(b < len)
  BY <1>3, <1>4
<1>7. b # len
  <2>1. ASSUME b = len PROVE FALSE
    <3>1. PICK z \in 0..C - 1 : z = 0 /\ len = C * q + z
      BY <1>4, <2>1
    <3>2. len % C = z
      BY <3>1, Quotient
    <3>3. QED
      BY <1>2, <3>1, <3>2
  <2>2. QED
    BY <2>1
<1>8. PICK p : p = SubSeq(data, a + 1, len)
  OBVIOUS
<1>9. Piece(data, q - 1, ChunkLen) = p
  <2>1. Least(b, len) = len
    BY <1>6 DEF Least
  <2>2. (q - 1) + 1 = q
    OBVIOUS
  <2>3. QED
    BY <1>1, <1>2, <1>4, <1>8, <2>1, <2>2 DEF Piece
<1>10. p \in Seq(V) /\ Len(p) = len - a
  <2>1. \A i \in a + 1..len : data[i] \in V
    BY <1>2
  <2>2. PICK e \in Nat : e = a + 1 /\ e <= len
    BY <1>5
  <2>3. SubSeq(data, e, len) \in Seq(V)
    BY <1>2, <2>1, <2>2
  <2>4. Len(SubSeq(data, e, len)) = len - e + 1
    BY <1>2, <2>2
  <2>5. QED
    BY <1>8, <2>2, <2>3, <2>4
<1>11. 0 < len - a /\ len - a < C
  BY <1>4, <1>5, <1>6, <1>7
<1>12. QED
  BY <1>1, <1>9, <1>10, <1>11

\* The host's tree over one chunk in a buffer, or over bytes that end within
\* one, has another root.
LEMMA UnkeyedTree ==
  ASSUME NEW V, NEW data \in Seq(V), NEW key, NEW d \in BOOLEAN,
         \/ d /\ Len(data) = ChunkLen
         \/ Len(data) > ChunkLen /\ Len(data) % ChunkLen # 0
  PROVE  Root(build_layers(data, key, d)) # Root(build_merkle_tree(data, key))
<1>1. PICK C \in Nat \ {0}, len \in Nat \ {0} :
        /\ C = ChunkLen /\ len = Len(data) /\ (d \/ len > C) /\ (len = C \/ len > C)
  <2>1. PICK C \in Nat \ {0} : C = ChunkLen
    BY MerkleAssumption
  <2>2. PICK len \in Nat : len = Len(data)
    OBVIOUS
  <2>3. (d /\ len = C) \/ len > C
    BY <2>1, <2>2
  <2>4. len # 0 /\ (d \/ len > C) /\ (len = C \/ len > C)
    BY <2>3
  <2>5. QED
    BY <2>1, <2>2, <2>4
<1>2. data # <<>> /\ Len(data) > 0
  BY <1>1
<1>3. PICK q, cvs :
        /\ q \in Nat /\ q = CeilDiv(Len(data), ChunkLen) /\ cvs = blake3_chunk_cvs(pad_to_chunk(data), key)
        /\ IsList(cvs) /\ Len(cvs) = q /\ q # 0
        /\ \A i \in 1..q : cvs[i] = WorkItem(pad_to_chunk(data), i - 1, ChunkLen \div BlockLen, key)
  <2>1. CeilDiv(len, C) \in Nat
    BY CeilIs
  <2>2. QED
    BY <1>1, <1>2, <2>1, PaddedLeaves
<1>4. PICK t : t = build_layers(data, key, d) /\ TreeOf(cvs, key, t)
  <2>1. d \/ (data # <<>> /\ ~(Len(data) <= ChunkLen))
    BY <1>1, <1>2
  <2>2. build_layers(data, key, d) = DeviceLayers(cvs, key)
    BY <1>3, <2>1, DeviceLoops
  <2>3. BuildUp(cvs, key) = DeviceLayers(cvs, key)
    BY <1>3, DeviceTree
  <2>4. TreeOf(cvs, key, BuildUp(cvs, key))
    BY <1>3, BuildUpIs
  <2>5. QED
    BY <2>2, <2>3, <2>4
<1>5. CASE len = C
  <2>1. q = 1
    <3>1. PICK m \in Nat : m = CeilDiv(len, C) /\ \A x \in Nat : x < m <=> x * C < len
      BY CeilIs
    <3>2. PICK o \in Nat : o = 1 /\ o * C = C
      OBVIOUS
    <3>3. ~(o < m)
      BY <1>5, <3>1, <3>2
    <3>4. m = q
      BY <1>1, <1>3, <3>1
    <3>5. QED
      BY <1>3, <3>2, <3>3, <3>4
  <2>2. PICK w : w = chunk_cv(data, 0, key, TRUE)
    OBVIOUS
  <2>3. Root(build_merkle_tree(data, key)) = w
    <3>1. Len(data) <= ChunkLen
      BY <1>1, <1>5
    <3>2. build_merkle_tree(data, key) = << <<w>> >>
      BY <1>2, <2>2, <3>1 DEF build_merkle_tree
    <3>3. QED
      BY <3>2 DEF Root, Last
  <2>4. cvs[1] # w
    <3>1. PICK z, i : z = 0 /\ i = 1 /\ i - 1 = z /\ i \in 1..q
      BY <2>1
    <3>2. cvs[i] = WorkItem(pad_to_chunk(data), z, ChunkLen \div BlockLen, key)
      BY <1>3, <3>1
    <3>3. Len(data) = ChunkLen
      BY <1>1, <1>5
    <3>4. WorkItem(pad_to_chunk(data), z, ChunkLen \div BlockLen, key) # chunk_cv(data, z, key, TRUE)
      BY <3>3, RootApart
    <3>5. QED
      BY <2>2, <3>1, <3>2, <3>4
  <2>5. PICK s : IsList(<<w>>) /\ Len(<<w>>) = 1 /\ TreeOf(<<w>>, key, s) /\ Root(s) = w
    BY LeafIsTree
  <2>6. EndApart(cvs, <<w>>)
    BY <1>3, <2>1, <2>4 DEF EndApart
  <2>7. Root(t) # Root(s)
    BY <1>3, <1>4, <2>5, <2>6, RootsApart
  <2>8. QED
    BY <1>4, <2>3, <2>5, <2>7
<1>6. CASE len # C
  <2>1. Len(data) > ChunkLen /\ Len(data) % ChunkLen # 0 /\ Len(data) \in Nat
    BY <1>1, <1>6
  <2>2. PICK leaves :
          /\ leaves = leaf_cvs(data, key) /\ IsList(leaves) /\ Len(leaves) = q
          /\ \A i \in 0..q - 1 : leaves[i + 1] = chunk_cv(Piece(data, i, ChunkLen), i, key, FALSE)
    BY <1>3, <2>1, LeavesAre
  <2>3. TreeOf(leaves, key, build_merkle_tree(data, key))
    BY <2>1, <2>2, BuiltOver
  <2>4. PICK p \in Seq(V) : p = Piece(data, q - 1, ChunkLen) /\ 0 < Len(p) /\ Len(p) < ChunkLen
    BY <1>2, <1>3, <2>1, LastPartial
  <2>5. cvs[q] # leaves[q]
    <3>1. PICK i : i = q - 1 /\ i \in 0..q - 1 /\ i + 1 = q /\ q \in 1..q
      BY <1>3
    <3>2. leaves[q] = chunk_cv(p, i, key, FALSE)
      BY <2>2, <2>4, <3>1
    <3>3. cvs[q] = WorkItem(pad_to_chunk(data), i, ChunkLen \div BlockLen, key)
      BY <1>3, <3>1
    <3>4. WorkItem(pad_to_chunk(data), i, ChunkLen \div BlockLen, key) # chunk_cv(p, i, key, FALSE)
      BY <2>4, PartialApart
    <3>5. QED
      BY <3>2, <3>3, <3>4
  <2>6. EndApart(cvs, leaves)
    BY <1>3, <2>2, <2>5 DEF EndApart
  <2>7. QED
    BY <1>3, <1>4, <2>2, <2>3, <2>6, RootsApart
<1>7. QED
  BY <1>5, <1>6

\* Where the tree is not keyed, the root is another.
LEMMA UnkeyedAre ==
  ASSUME ConfigInv, MatricesInv, TreesInv, phase \in FromHashed, NEW i \in 1..2,
         ~KeyedTree(<<shape.m, shape.n>>[i])
  PROVE  Root(layers[i]) # merkle_root_keyed(Bytes(i), JobKey)
<1>1. phase \in FromDerived
  BY DEF FromDerived, FromHashed
<1>2. PICK rows : rows = <<shape.m, shape.n>>[i]
  OBVIOUS
<1>3. PICK V, k, key, data :
        /\ rows \in Nat \ {0} /\ k \in Nat \ {0} /\ k = mc.common_dim /\ key = JobKey
        /\ data = Bytes(i) /\ data \in Seq(V) /\ Len(data) = rows * k
  BY <1>1, <1>2, JobBytes
<1>4. PICK C \in Nat \ {0}, len \in Nat \ {0} : C = ChunkLen /\ len = rows * k /\ len = Len(data)
  <2>1. rows * k \in Nat \ {0}
    BY <1>3
  <2>2. QED
    BY <1>3, <2>1, MerkleAssumption
<1>5. ~(len % C = 0 /\ len > C) /\ TreesFrom # "cpu" /\ ~(TreesFrom = "upload" /\ len <= C)
  BY <1>2, <1>3, <1>4 DEF KeyedTree, WholeChunks
<1>6. TreesFrom = "buffer" \/ TreesFrom = "upload"
  BY <1>5 DEF TreesFrom
<1>7. PICK d \in BOOLEAN :
        /\ d <=> TreesFrom = "buffer"
        /\ layers[i] = build_layers(data, key, d)
  BY <1>3, <1>5 DEF TreesInv, MatrixLayers
<1>8. TreesFrom = "buffer" => len % C = 0
  <2>1. ASSUME TreesFrom = "buffer" PROVE len % C = 0
    <3>1. CASE i = 1
      <4>1. rows = shape.m
        BY <1>2, <3>1
      <4>2. (shape.m * mc.common_dim) % ChunkLen = 0
        BY <2>1 DEF TreesFrom
      <4>3. QED
        BY <1>3, <1>4, <4>1, <4>2
    <3>2. CASE i # 1
      <4>1. rows = shape.n
        BY <1>2, <3>2
      <4>2. (shape.n * mc.common_dim) % ChunkLen = 0
        BY <2>1 DEF TreesInv, RefusesBuffer
      <4>3. QED
        BY <1>3, <1>4, <4>1, <4>2
    <3>3. QED
      BY <3>1, <3>2
  <2>2. QED
    BY <2>1
<1>9. (d /\ len = C) \/ (len > C /\ len % C # 0)
  <2>1. CASE TreesFrom = "buffer"
    <3>1. len % C = 0 /\ ~(len > C) /\ d
      BY <1>5, <1>7, <1>8, <2>1
    <3>2. PICK w : w = len \div C
      OBVIOUS
    <3>3. w \in Nat /\ len = C * w
      BY <3>1, <3>2, Division
    <3>4. w = 1
      <4>1. w # 0
        BY <3>3
      <4>2. ~(1 < w)
        <5>1. ASSUME 1 < w PROVE FALSE
          <6>1. C * 1 + C <= C * w
            BY <3>3, <5>1, Products
          <6>2. QED
            BY <3>1, <3>3, <6>1
        <5>2. QED
          BY <5>1
      <4>3. QED
        BY <3>3, <4>1, <4>2
    <3>5. QED
      BY <3>1, <3>3, <3>4
  <2>2. CASE TreesFrom = "upload"
    BY <1>5, <2>2
  <2>3. QED
    BY <1>6, <2>1, <2>2
<1>10. Root(build_layers(data, key, d)) # Root(build_merkle_tree(data, key))
  <2>1. (d /\ Len(data) = ChunkLen) \/ (Len(data) > ChunkLen /\ Len(data) % ChunkLen # 0)
    BY <1>4, <1>9
  <2>2. QED
    BY <1>3, <2>1, UnkeyedTree
<1>11. Root(build_merkle_tree(data, key)) = merkle_root_keyed(data, key)
  BY <1>3, <1>4, RootIsKeyedHash
<1>12. QED
  BY <1>3, <1>7, <1>10, <1>11

\* Whichever of the ways both trees are built: the root that is committed is keyed
\* BLAKE3 of the matrix, and the layers are those of build_merkle_tree, on the CPU,
\* over whole chunks, more than one, and over up to one chunk of uploaded bytes.
\* Anywhere else it is another root, and nothing is raised (miner.py 304-334).
THEOREM TreesAlwaysAgree == Spec => []TreesAgree
<1>1. ASSUME AssemblyInv, phase = "hashed", NEW i \in 1..2, NEW rows, rows = <<shape.m, shape.n>>[i]
      PROVE  /\ KeyedTree(rows) <=> Root(layers[i]) = merkle_root_keyed(Bytes(i), JobKey)
             /\ KeyedTree(rows) => layers[i] = build_merkle_tree(Bytes(i), JobKey)
  <2>1. ConfigInv /\ MatricesInv /\ TreesInv /\ phase \in FromHashed
    BY <1>1 DEF AssemblyInv, FromHashed
  <2>2. KeyedTree(rows) => LayersOf(i)
    BY <1>1, <2>1, LayersAre
  <2>3. ~KeyedTree(rows) => Root(layers[i]) # merkle_root_keyed(Bytes(i), JobKey)
    BY <1>1, <2>1, UnkeyedAre
  <2>4. QED
    BY <2>2, <2>3 DEF LayersOf
<1>2. AssemblyInv => TreesAgree
  BY <1>1 DEF TreesAgree
<1>3. QED
  BY <1>2, AssemblyHolds, PTL
-----------------------------------------------------------------------------
(***************************************************************************)
(* A mining configuration on the wire, and the patterns read back from it. *)
(***************************************************************************)

\* The pairs of a pattern's bytes, one behind the other.
PairsOnWire(N, b, w, at) ==
  \A i \in 1..N : w[at + 2 * i - 2] = b[i][1] /\ w[at + 2 * i - 1] = b[i][2]

LEMMA PairsFlat ==
  ASSUME NEW N \in Nat \ {0}, NEW b \in [1..N -> Nat \X Nat]
  PROVE  /\ FlattenSeq(b) \in Seq(Nat) /\ Len(FlattenSeq(b)) = 2 * N
         /\ PairsOnWire(N, b, FlattenSeq(b), 1)
<1>1. ASSUME NEW i \in 1..N PROVE b[i] \in Seq(Nat) /\ Len(b[i]) = 2
  <2>1. PICK x, y : x \in Nat /\ y \in Nat /\ b[i] = <<x, y>>
    OBVIOUS
  <2>2. <<x, y>> \in Seq(Nat) /\ Len(<<x, y>>) = 2
    BY <2>1
  <2>3. QED
    BY <2>1, <2>2
<1>2. PICK L \in Nat \ {0} : L = 2
  OBVIOUS
<1>3. RowsOf(Nat, N, L, b)
  <2>1. b \in [1..N -> Seq(Nat)]
    BY <1>1
  <2>2. \A i \in 1..N - 1 : Len(b[i]) = L
    BY <1>1, <1>2
  <2>3. QED
    BY <2>1, <2>2 DEF RowsOf
<1>4. PICK f : f = FlattenSeq(b) /\ Filled(Nat, N, L, b, f)
  BY <1>3, FlattenRows
<1>5. /\ f \in Seq(Nat) /\ Len(f) = (N - 1) * L + Len(b[N])
      /\ \A i \in 0..N - 1 : \A j \in 1..Len(b[i + 1]) : f[i * L + j] = b[i + 1][j]
  BY <1>4 DEF Filled
<1>6. Len(f) = 2 * N
  <2>1. N \in 1..N
    OBVIOUS
  <2>2. Len(b[N]) = 2
    BY <1>1, <2>1
  <2>3. (N - 1) * L + 2 = 2 * N
    BY <1>2
  <2>4. QED
    BY <1>5, <2>2, <2>3
<1>7. ASSUME NEW i \in 1..N PROVE f[1 + 2 * i - 2] = b[i][1] /\ f[1 + 2 * i - 1] = b[i][2]
  <2>1. PICK h : h = i - 1 /\ h \in 0..N - 1 /\ h + 1 = i
    OBVIOUS
  <2>2. Len(b[h + 1]) = 2
    BY <1>1, <2>1
  <2>3. f[h * L + 1] = b[i][1] /\ f[h * L + 2] = b[i][2]
    <3>1. \A j \in 1..Len(b[h + 1]) : f[h * L + j] = b[h + 1][j]
      BY <1>5, <2>1
    <3>2. 1 \in 1..Len(b[h + 1]) /\ 2 \in 1..Len(b[h + 1])
      BY <2>2
    <3>3. f[h * L + 1] = b[h + 1][1] /\ f[h * L + 2] = b[h + 1][2]
      BY <3>1, <3>2
    <3>4. QED
      BY <2>1, <3>3
  <2>4. h * L + 1 = 1 + 2 * i - 2 /\ h * L + 2 = 1 + 2 * i - 1
    BY <1>2, <2>1
  <2>5. QED
    BY <2>3, <2>4
<1>8. QED
  BY <1>4, <1>5, <1>6, <1>7 DEF PairsOnWire

\* The bytes of both patterns are read from where they were put.
LEMMA PairsRead ==
  ASSUME NEW N \in Nat \ {0}, NEW b \in [1..N -> Nat \X Nat], NEW c \in [1..N -> Nat \X Nat],
         NEW x, NEW y, NEW z, NEW w, w = <<x, y, z>> \o FlattenSeq(b) \o FlattenSeq(c)
  PROVE  PairsOnWire(N, b, w, 4) /\ PairsOnWire(N, c, w, 4 + 2 * N)
<1>1. PICK f, g, h, V : /\ f = FlattenSeq(b) /\ g = FlattenSeq(c) /\ h = <<x, y, z>>
                        /\ V = Nat \cup {x, y, z}
  OBVIOUS
<1>2. h \in Seq(V) /\ Len(h) = 3
  BY <1>1
<1>3. /\ f \in Seq(Nat) /\ Len(f) = 2 * N /\ PairsOnWire(N, b, f, 1)
      /\ g \in Seq(Nat) /\ Len(g) = 2 * N /\ PairsOnWire(N, c, g, 1)
  BY <1>1, PairsFlat
<1>4. f \in Seq(V) /\ g \in Seq(V)
  BY <1>1, <1>3, SeqWiden
<1>5. PICK l \in Nat, n3 \in Nat : l = 2 * N /\ n3 = 3 /\ Len(f) = l /\ Len(g) = l /\ Len(h) = n3
  BY <1>2, <1>3
<1>6. PICK u : u = h \o f /\ w = u \o g
  BY <1>1
<1>7. u \in Seq(V) /\ Len(u) = n3 + l /\ \A i \in 1..l : u[n3 + i] = f[i]
  <2>1. Joined(V, h, f, Len(h), Len(f), h \o f)
    BY <1>2, <1>4, TwoParts
  <2>2. Joined(V, h, f, n3, l, u)
    BY <1>5, <1>6, <2>1
  <2>3. QED
    BY <2>2 DEF Joined
<1>8. PICK m \in Nat : m = n3 + l
  OBVIOUS
<1>9. (\A i \in 1..m : w[i] = u[i]) /\ (\A i \in 1..l : w[m + i] = g[i])
  <2>1. Joined(V, u, g, Len(u), Len(g), u \o g)
    BY <1>4, <1>7, TwoParts
  <2>2. Joined(V, u, g, m, l, w)
    BY <1>5, <1>6, <1>7, <1>8, <2>1
  <2>3. QED
    BY <2>2 DEF Joined
<1>10. ASSUME NEW i \in 1..l PROVE w[3 + i] = f[i] /\ w[3 + 2 * N + i] = g[i]
  <2>1. PICK a : a = n3 + i /\ a \in 1..m
    BY <1>8
  <2>2. w[a] = f[i] /\ w[m + i] = g[i]
    BY <1>7, <1>9, <2>1
  <2>3. a = 3 + i /\ m + i = 3 + 2 * N + i
    BY <1>5, <1>8, <2>1
  <2>4. QED
    BY <2>2, <2>3
<1>11. ASSUME NEW i \in 1..N
      PROVE  /\ w[4 + 2 * i - 2] = b[i][1] /\ w[4 + 2 * i - 1] = b[i][2]
             /\ w[4 + 2 * N + 2 * i - 2] = c[i][1] /\ w[4 + 2 * N + 2 * i - 1] = c[i][2]
  <2>1. PICK e \in Nat, h2 \in Nat, p \in Nat, q \in Nat :
          /\ e = 2 * i /\ h2 = 2 * N /\ p = e - 1 /\ q = e /\ e >= 2 /\ e <= l
    BY <1>5
  <2>2. p \in 1..l /\ q \in 1..l /\ 1 + e - 2 = p /\ 1 + e - 1 = q
    BY <1>5, <2>1
  <2>3. 4 + e - 2 = 3 + p /\ 4 + e - 1 = 3 + q /\ 4 + h2 + e - 2 = 3 + h2 + p /\ 4 + h2 + e - 1 = 3 + h2 + q
    BY <2>1
  <2>4. f[p] = b[i][1] /\ f[q] = b[i][2] /\ g[p] = c[i][1] /\ g[q] = c[i][2]
    BY <1>3, <2>1, <2>2 DEF PairsOnWire
  <2>5. /\ w[3 + p] = b[i][1] /\ w[3 + q] = b[i][2]
        /\ w[3 + h2 + p] = c[i][1] /\ w[3 + h2 + q] = c[i][2]
    BY <1>10, <2>1, <2>2, <2>4
  <2>6. QED
    BY <2>1, <2>3, <2>5
<1>12. QED
  BY <1>11 DEF PairsOnWire

\* One turn of from_bytes' loop.
Unpacked(b, inner, i) == <<(1 + b[i][1]) * MinStride(inner, i), 1 + b[i][2]>>

\* f holds what from_bytes has after each turn.
Unpacking(b, N, f) ==
  /\ f \in [0..N -> Seq(Dim)] /\ f[0] = <<>>
  /\ \A i \in 1..N : Len(f[i - 1]) = i - 1 /\ f[i] = Append(f[i - 1], Unpacked(b, f[i - 1], i))

\* The stride below a dimension is a natural number.
LEMMA StrideBelow ==
  ASSUME NEW s \in Seq(Dim), NEW i \in Nat \ {0}, i <= Len(s) + 1
  PROVE  MinStride(s, i) \in Nat
<1>1. CASE i = 1
  BY <1>1 DEF MinStride
<1>2. CASE i # 1
  <2>1. i - 1 \in 1..Len(s)
    BY <1>2
  <2>2. PICK x \in Nat, y \in Nat : x = s[i - 1][1] /\ y = s[i - 1][2]
    BY <2>1 DEF Dim
  <2>3. x * y \in Nat
    BY <2>2
  <2>4. QED
    BY <1>2, <2>2, <2>3 DEF MinStride
<1>3. QED
  BY <1>1, <1>2

LEMMA UnpackedIs ==
  ASSUME NEW N \in Nat, NEW b \in [1..N -> Nat \X Nat], NEW i \in 1..N,
         NEW inner \in Seq(Dim), Len(inner) = i - 1
  PROVE  Unpacked(b, inner, i) \in Dim
<1>1. PICK m \in Nat : m = MinStride(inner, i)
  BY StrideBelow
<1>2. PICK x \in Nat, y \in Nat : x = b[i][1] /\ y = b[i][2]
  OBVIOUS
<1>3. PICK z \in Nat, w \in Nat \ {0} : z = 1 + x /\ w = 1 + y
  <2>1. 1 + x \in Nat /\ 1 + y \in Nat \ {0}
    BY x \in Nat, y \in Nat
  <2>2. QED
    BY <2>1
<1>4. Unpacked(b, inner, i) = <<z * m, w>>
  BY <1>1, <1>2, <1>3 DEF Unpacked
<1>5. z * m \in Nat
  BY <1>1, <1>3
<1>6. QED
  BY <1>3, <1>4, <1>5 DEF Dim

\* What from_bytes has after each turn exists.
LEMMA UnpackingExists ==
  ASSUME NEW N \in Nat, NEW b \in [1..N -> Nat \X Nat]
  PROVE  \E f : Unpacking(b, N, f)
<1>1. PICK S, a, step, prev :
        /\ S = Seq(Dim) /\ a = <<>> /\ prev = [i \in 1..N |-> i - 1]
        /\ step = [x \in S \X (1..N) |->
                     IF Len(x[1]) = x[2] - 1 THEN Append(x[1], Unpacked(b, x[1], x[2])) ELSE x[1]]
  OBVIOUS
<1>2. ASSUME NEW x \in S \X (1..N) PROVE step[x] \in S
  <2>1. PICK inner \in S, i \in 1..N : x = <<inner, i>>
    OBVIOUS
  <2>2. step[x] = IF Len(inner) = i - 1 THEN Append(inner, Unpacked(b, inner, i)) ELSE inner
    BY <1>1, <2>1
  <2>3. CASE Len(inner) = i - 1
    <3>1. Unpacked(b, inner, i) \in Dim
      BY <1>1, <2>3, UnpackedIs
    <3>2. PICK u \in Dim : u = Unpacked(b, inner, i)
      BY <3>1
    <3>3. Append(inner, u) \in Seq(Dim)
      BY <1>1, AppendProperties
    <3>4. QED
      BY <1>1, <2>2, <2>3, <3>2, <3>3
  <2>4. CASE Len(inner) # i - 1
    BY <2>2, <2>4
  <2>5. QED
    BY <2>3, <2>4
<1>3. StepsFrom(S, a, N, step, prev)
  <2>1. a \in S
    BY <1>1
  <2>2. step \in [S \X (1..N) -> S]
    BY <1>1, <1>2
  <2>3. prev \in [1..N -> Nat] /\ \A n \in 1..N : prev[n] < n
    BY <1>1
  <2>4. QED
    BY <2>1, <2>2, <2>3 DEF StepsFrom
<1>4. PICK f : Recursive(S, a, N, step, prev, f)
  BY <1>3, Recursion
<1>5. f \in [0..N -> S] /\ f[0] = <<>>
  BY <1>1, <1>4 DEF Recursive
<1>6. ASSUME NEW i \in 1..N
      PROVE  f[i] = IF Len(f[i - 1]) = i - 1 THEN Append(f[i - 1], Unpacked(b, f[i - 1], i))
                                             ELSE f[i - 1]
  <2>1. PICK r : r = f[i - 1] /\ r \in S
    BY <1>5
  <2>2. prev[i] = i - 1
    BY <1>1
  <2>3. f[i] = step[<<r, i>>]
    BY <1>4, <2>1, <2>2 DEF Recursive
  <2>4. PICK x : x = <<r, i>>
    OBVIOUS
  <2>5. x \in S \X (1..N) /\ x[1] = r /\ x[2] = i
    BY <2>1, <2>4
  <2>6. step[x] = IF Len(x[1]) = x[2] - 1 THEN Append(x[1], Unpacked(b, x[1], x[2])) ELSE x[1]
    BY <1>1, <2>5
  <2>7. QED
    BY <2>1, <2>3, <2>4, <2>5, <2>6
<1>7. PICK T : T = {i \in 0..N : Len(f[i]) = i}
  OBVIOUS
<1>8. \A i : i \in T <=> i \in 0..N /\ Len(f[i]) = i
  BY <1>7
<1>9. ASSUME NEW n \in 0..N - 1, n \in T PROVE n + 1 \in T
  <2>1. PICK i : i = n + 1 /\ i \in 1..N /\ i - 1 = n
    OBVIOUS
  <2>2. PICK r : r = f[n] /\ r \in Seq(Dim) /\ Len(r) = n
    BY <1>1, <1>5, <1>8, <1>9
  <2>3. Unpacked(b, r, i) \in Dim
    BY <2>1, <2>2, UnpackedIs
  <2>4. f[i] = Append(r, Unpacked(b, r, i))
    BY <1>6, <2>1, <2>2
  <2>5. Len(f[i]) = Len(r) + 1
    BY <2>2, <2>3, <2>4, AppendProperties
  <2>6. i \in 0..N /\ Len(f[i]) = i
    BY <2>1, <2>2, <2>5
  <2>7. i \in T
    BY <1>8, <2>6
  <2>8. QED
    BY <2>1, <2>7
<1>10. \A n \in 0..N : n \in T
  <2>1. 0 \in T
    BY <1>5, <1>8
  <2>2. QED
    BY <1>9, <2>1, Upwards
<1>11. ASSUME NEW i \in 1..N
       PROVE  Len(f[i - 1]) = i - 1 /\ f[i] = Append(f[i - 1], Unpacked(b, f[i - 1], i))
  <2>1. i - 1 \in 0..N
    OBVIOUS
  <2>2. Len(f[i - 1]) = i - 1
    BY <1>8, <1>10, <2>1
  <2>3. QED
    BY <1>6, <2>2
<1>12. QED
  BY <1>1, <1>5, <1>11 DEF Unpacking

\* Each dimension of what was read is that of its bytes, on the one below.
ReadFrom(b, N, t) ==
  /\ t \in Seq(Dim) /\ Len(t) = N
  /\ \A i \in 1..N : t[i] = Unpacked(b, t, i)

\* A turn adds one.
LEMMA ReadOn ==
  ASSUME NEW N \in Nat, NEW b \in [1..N -> Nat \X Nat], NEW n \in 0..N - 1,
         NEW r, ReadFrom(b, n, r), NEW s, s = Append(r, Unpacked(b, r, n + 1))
  PROVE  ReadFrom(b, n + 1, s)
<1>1. r \in Seq(Dim) /\ Len(r) = n /\ \A i \in 1..n : r[i] = Unpacked(b, r, i)
  BY DEF ReadFrom
<1>2. PICK m, d : m = n + 1 /\ m \in 1..N /\ d = Unpacked(b, r, m)
  OBVIOUS
<1>3. d \in Dim
  <2>1. Len(r) = m - 1
    BY <1>1, <1>2
  <2>2. QED
    BY <1>1, <1>2, <2>1, UnpackedIs
<1>4. s \in Seq(Dim) /\ Len(s) = m /\ s[m] = d /\ \A i \in 1..n : s[i] = r[i]
  BY <1>1, <1>2, <1>3, AppendProperties
<1>5. ASSUME NEW i \in 1..m PROVE Unpacked(b, s, i) = Unpacked(b, r, i)
  <2>1. CASE i = 1
    BY <2>1 DEF Unpacked, MinStride
  <2>2. CASE i # 1
    <3>1. i - 1 \in 1..n
      BY <1>2, <2>2
    <3>2. s[i - 1] = r[i - 1]
      BY <1>4, <3>1
    <3>3. QED
      BY <3>2 DEF Unpacked, MinStride
  <2>3. QED
    BY <2>1, <2>2
<1>6. ASSUME NEW i \in 1..m PROVE s[i] = Unpacked(b, s, i)
  <2>1. CASE i = m
    BY <1>2, <1>4, <1>5, <2>1
  <2>2. CASE i # m
    <3>1. i \in 1..n
      BY <1>2, <2>2
    <3>2. QED
      BY <1>1, <1>4, <1>5, <3>1
  <2>3. QED
    BY <2>1, <2>2
<1>7. QED
  BY <1>2, <1>4, <1>6 DEF ReadFrom

\* That is what from_bytes returns.
LEMMA FromBytesIs ==
  ASSUME NEW N \in Nat, NEW b \in [1..N -> Nat \X Nat]
  PROVE  ReadFrom(b, N, from_bytes(b))
<1>1. Len(b) = N
  BY FunctionIsSeq
<1>2. PICK f : Unpacking(b, N, f)
  BY UnpackingExists
<1>3. /\ f \in [0..N -> Seq(Dim)] /\ f[0] = <<>>
      /\ \A i \in 1..N : f[i] = Append(f[i - 1], Unpacked(b, f[i - 1], i))
  BY <1>2 DEF Unpacking
<1> DEFINE Shapes(g) == g = [i \in 0..N |-> IF i = 0 THEN <<>>
                               ELSE LET inner == g[i - 1]
                                    IN Append(inner, <<(1 + b[i][1]) * MinStride(inner, i), 1 + b[i][2]>>)]
<1>4. from_bytes(b) = (CHOOSE g : Shapes(g))[N]
  BY <1>1 DEF from_bytes
<1>5. \A g : Shapes(g) <=> g = [i \in 0..N |-> IF i = 0 THEN <<>>
                                               ELSE Append(g[i - 1], Unpacked(b, g[i - 1], i))]
  BY DEF Unpacked
<1> HIDE DEF Shapes
<1>6. Shapes(f)
  <2>1. ASSUME NEW i \in 0..N
        PROVE  f[i] = IF i = 0 THEN <<>> ELSE Append(f[i - 1], Unpacked(b, f[i - 1], i))
    <3>1. CASE i = 0
      BY <1>3, <3>1
    <3>2. CASE i # 0
      <4>1. i \in 1..N
        BY <3>2
      <4>2. QED
        BY <1>3, <3>2, <4>1
    <3>3. QED
      BY <3>1, <3>2
  <2>2. f = [i \in 0..N |-> IF i = 0 THEN <<>> ELSE Append(f[i - 1], Unpacked(b, f[i - 1], i))]
    BY <1>3, <2>1
  <2>3. QED
    BY <1>5, <2>2
<1>7. PICK g : g = (CHOOSE h : Shapes(h)) /\ Shapes(g)
  BY <1>6
<1>8. \A i \in 0..N : g[i] = IF i = 0 THEN <<>> ELSE Append(g[i - 1], Unpacked(b, g[i - 1], i))
  BY <1>5, <1>7
<1>9. ASSUME NEW i \in 1..N, g[i - 1] = f[i - 1] PROVE g[i] = f[i]
  <2>1. i \in 0..N /\ i # 0
    OBVIOUS
  <2>2. g[i] = Append(g[i - 1], Unpacked(b, g[i - 1], i))
    BY <1>8, <2>1
  <2>3. f[i] = Append(f[i - 1], Unpacked(b, f[i - 1], i))
    BY <1>3
  <2>4. QED
    BY <1>9, <2>2, <2>3
<1>10. g[0] = f[0]
  <2>1. PICK z : z = 0 /\ z \in 0..N
    OBVIOUS
  <2>2. QED
    BY <1>3, <1>8, <2>1
<1>11. g[N] = f[N]
  BY <1>9, <1>10, SameUp
<1>12. from_bytes(b) = f[N]
  BY <1>4, <1>7, <1>11
<1>13. PICK T : T = {n \in 0..N : ReadFrom(b, n, f[n])}
  OBVIOUS
<1>14. \A n : n \in T <=> n \in 0..N /\ ReadFrom(b, n, f[n])
  BY <1>13
<1>15. 0 \in T
  <2>1. PICK e, z : e = <<>> /\ z = 0
    OBVIOUS
  <2>2. e \in Seq(Dim) /\ Len(e) = z /\ z \in 0..N /\ 1..z = {}
    BY <2>1
  <2>3. ReadFrom(b, z, e)
    BY <2>2 DEF ReadFrom
  <2>4. e = f[z]
    BY <1>3, <2>1
  <2>5. z \in T
    BY <1>14, <2>2, <2>3, <2>4
  <2>6. QED
    BY <2>1, <2>5
<1>16. ASSUME NEW n \in 0..N - 1, n \in T PROVE n + 1 \in T
  <2>1. PICK m : m = n + 1 /\ m \in 1..N /\ m \in 0..N /\ m - 1 = n
    OBVIOUS
  <2>2. PICK r, s : r = f[n] /\ s = f[m] /\ ReadFrom(b, n, r)
    BY <1>14, <1>16
  <2>3. s = Append(r, Unpacked(b, r, n + 1))
    BY <1>3, <2>1, <2>2
  <2>4. ReadFrom(b, m, s)
    BY <2>1, <2>2, <2>3, ReadOn
  <2>5. QED
    BY <1>14, <2>1, <2>2, <2>4
<1>17. \A n \in 0..N : n \in T
  BY <1>15, <1>16, Upwards
<1>18. N \in 0..N
  OBVIOUS
<1>19. QED
  BY <1>12, <1>14, <1>17, <1>18

\* The bytes leave only one shape to read.
LEMMA OneReading ==
  ASSUME NEW N \in Nat, NEW b, NEW s, NEW t, ReadFrom(b, N, s), ReadFrom(b, N, t)
  PROVE  t = s
<1>1. /\ s \in Seq(Dim) /\ Len(s) = N /\ \A i \in 1..N : s[i] = Unpacked(b, s, i)
      /\ t \in Seq(Dim) /\ Len(t) = N /\ \A i \in 1..N : t[i] = Unpacked(b, t, i)
  BY DEF ReadFrom
<1>2. PICK T : T = {n \in 0..N : n = 0 \/ t[n] = s[n]}
  OBVIOUS
<1>3. \A n : n \in T <=> n \in 0..N /\ (n = 0 \/ t[n] = s[n])
  BY <1>2
<1>4. ASSUME NEW n \in 0..N - 1, n \in T PROVE n + 1 \in T
  <2>1. PICK i : i = n + 1 /\ i \in 1..N /\ i \in 0..N /\ i - 1 = n
    OBVIOUS
  <2>2. Unpacked(b, t, i) = Unpacked(b, s, i)
    <3>1. CASE i = 1
      BY <3>1 DEF Unpacked, MinStride
    <3>2. CASE i # 1
      <4>1. t[i - 1] = s[i - 1]
        BY <1>3, <1>4, <2>1, <3>2
      <4>2. QED
        BY <4>1 DEF Unpacked, MinStride
    <3>3. QED
      BY <3>1, <3>2
  <2>3. t[i] = s[i]
    BY <1>1, <2>1, <2>2
  <2>4. QED
    BY <1>3, <2>1, <2>3
<1>5. \A n \in 0..N : n \in T
  <2>1. 0 \in T
    BY <1>3
  <2>2. QED
    BY <1>4, <2>1, Upwards
<1>6. ASSUME NEW i \in 1..N PROVE t[i] = s[i]
  <2>1. i \in 0..N /\ i # 0
    OBVIOUS
  <2>2. QED
    BY <1>3, <1>5, <2>1
<1>7. QED
  BY <1>1, <1>6, SeqEqual

\* A shape to_bytes takes: so many dimensions, each of at least one stride of
\* the one below.
Nested(s, N) ==
  /\ s \in Seq(Dim) /\ Len(s) = N /\ N \in Nat \ {0} /\ N = NumDims
  /\ \A i \in 1..N : /\ s[i][1] \in Nat /\ s[i][2] \in Nat \ {0} /\ s[i] = <<s[i][1], s[i][2]>>
                     /\ MinStride(s, i) \in Nat \ {0} /\ Factor(s, i) \in Nat \ {0}

LEMMA NestedIs ==
  ASSUME NEW p, NEW s, NEW dims, Shaped(p, s, dims), ~RefusesShape(s)
  PROVE  Nested(s, NumDims)
<1>1. /\ s \in Seq(Dim) /\ dims \in Seq(Dim) /\ Len(dims) <= Len(s) /\ NumDims <= Len(s)
      /\ \A i \in 1..Len(dims) : s[i] = dims[i] /\ dims[i][1] > 0 /\ dims[i][2] > 1
      /\ \A i \in Len(dims) + 1..Len(s) : s[i] = Padding(dims)
  BY DEF Shaped
<1>2. PICK N \in Nat \ {0} : N = NumDims /\ Len(s) = N
  <2>1. ~(Len(s) > NumDims)
    BY DEF RefusesShape
  <2>2. NumDims \in Nat \ {0} /\ Len(s) \in Nat
    BY <1>1, PatternsAssumption
  <2>3. QED
    BY <1>1, <2>1, <2>2
<1>3. ASSUME NEW i \in 1..N PROVE s[i][1] > 0
  <2>1. CASE i \in 1..Len(dims)
    BY <1>1, <2>1
  <2>2. CASE i \notin 1..Len(dims)
    <3>1. i \in Len(dims) + 1..Len(s)
      BY <1>1, <1>2, <2>2
    <3>2. Padding(dims)[1] > 0
      BY <1>1, PaddingIs
    <3>3. QED
      BY <1>1, <3>1, <3>2
  <2>3. QED
    BY <2>1, <2>2
<1>4. ASSUME NEW i \in 1..N
      PROVE  s[i][1] \in Nat \ {0} /\ s[i][2] \in Nat \ {0} /\ s[i] = <<s[i][1], s[i][2]>>
  <2>1. s[i] \in Dim
    BY <1>1, <1>2
  <2>2. QED
    BY <1>3, <2>1 DEF Dim
<1>5. ASSUME NEW i \in 1..N PROVE MinStride(s, i) \in Nat \ {0}
  <2>1. CASE i = 1
    BY <2>1 DEF MinStride
  <2>2. CASE i # 1
    <3>1. i - 1 \in 1..N
      BY <2>2
    <3>2. PICK x \in Nat \ {0}, y \in Nat \ {0} : x = s[i - 1][1] /\ y = s[i - 1][2]
      BY <1>4, <3>1
    <3>3. x * y \in Nat \ {0}
      BY <3>2
    <3>4. QED
      BY <2>2, <3>2, <3>3 DEF MinStride
  <2>3. QED
    BY <2>1, <2>2
<1>6. ASSUME NEW i \in 1..N PROVE Factor(s, i) \in Nat \ {0}
  <2>1. Factor(s, i) # 0
    BY <1>2 DEF RefusesShape
  <2>2. PICK x \in Nat, m \in Nat \ {0} : x = s[i][1] /\ m = MinStride(s, i)
    BY <1>4, <1>5
  <2>3. x \div m \in Nat
    BY <2>2, Division
  <2>4. QED
    BY <2>1, <2>2, <2>3 DEF Factor
<1>7. QED
  BY <1>1, <1>2, <1>4, <1>5, <1>6 DEF Nested

\* A stride and a length that a byte each can hold.
Fits(x, M, F, n, B) ==
  (x % M = 0 /\ F <= B /\ n <= B) <=>
    ((1 + ((F - 1) % B)) * M = x /\ 1 + ((n - 1) % B) = n)

LEMMA ByteHolds ==
  ASSUME NEW x \in Nat, NEW M \in Nat \ {0}, NEW F \in Nat \ {0}, F = x \div M,
         NEW n \in Nat \ {0}, NEW B \in Nat \ {0}
  PROVE  Fits(x, M, F, n, B)
<1>1. PICK r : r = x % M /\ r \in 0..M - 1 /\ x = M * F + r
  <2>1. x % M \in 0..M - 1 /\ x = M * (x \div M) + (x % M)
    BY Division
  <2>2. PICK r, q : r = x % M /\ q = x \div M
    OBVIOUS
  <2>3. r \in 0..M - 1 /\ x = M * q + r /\ q = F
    BY <2>1, <2>2
  <2>4. QED
    BY <2>2, <2>3
<1>2. ASSUME NEW a \in Nat \ {0}
      PROVE  /\ (a - 1) % B \in 0..B - 1 /\ (a - 1) % B <= a - 1
             /\ a <= B <=> (a - 1) % B = a - 1
  <2>1. PICK c, q, e : c \in Nat /\ c = a - 1 /\ q = c \div B /\ e = c % B
    OBVIOUS
  <2>2. q \in Nat /\ e \in 0..B - 1 /\ c = B * q + e
    BY <2>1, Division
  <2>3. PICK h \in Nat : h = B * q
    BY <2>2
  <2>4. e <= c
    BY <2>2, <2>3
  <2>5. c < B => e = c
    <3>1. ASSUME c < B PROVE c % B = c
      <4>1. PICK z : z = 0 /\ z \in Int /\ B * z = 0
        OBVIOUS
      <4>2. c \in 0..B - 1 /\ c = B * z + c
        BY <2>1, <3>1, <4>1
      <4>3. QED
        BY <2>1, <4>1, <4>2, Quotient
    <3>2. QED
      BY <2>1, <3>1
  <2>6. a <= B <=> c < B
    BY <2>1
  <2>7. e = c => c < B
    BY <2>2
  <2>8. QED
    BY <2>1, <2>2, <2>4, <2>5, <2>6, <2>7
<1>3. PICK f, k : f = (F - 1) % B /\ k = (n - 1) % B
  OBVIOUS
<1>4. /\ f \in 0..B - 1 /\ f <= F - 1 /\ (F <= B <=> f = F - 1)
      /\ k \in 0..B - 1 /\ (n <= B <=> k = n - 1)
  BY <1>2, <1>3
<1>5. PICK g \in Nat : g = 1 + f /\ g <= F
  BY <1>4
<1>6. r = 0 /\ F <= B => g * M = x
  <2>1. ASSUME r = 0, F <= B PROVE g * M = x
    <3>1. g = F
      BY <1>4, <1>5, <2>1
    <3>2. QED
      BY <1>1, <2>1, <3>1
  <2>2. QED
    BY <2>1
<1>7. g * M = x => r = 0 /\ F <= B
  <2>1. ASSUME g * M = x PROVE r = 0 /\ F <= B
    <3>1. PICK z : z = 0 /\ z \in 0..M - 1
      OBVIOUS
    <3>2. x = M * g + z /\ g \in Int
      BY <2>1, <3>1
    <3>3. x \div M = g /\ x % M = z
      BY <3>1, <3>2, Quotient
    <3>4. g = F /\ r = 0
      BY <1>1, <3>1, <3>3
    <3>5. QED
      BY <1>4, <1>5, <3>4
  <2>2. QED
    BY <2>1
<1>8. n <= B <=> 1 + k = n
  BY <1>4
<1>9. QED
  BY <1>1, <1>3, <1>5, <1>6, <1>7, <1>8 DEF Fits

\* Two numbers for each dimension.
LEMMA BytesOfShape ==
  ASSUME NEW s, NEW N, Nested(s, N)
  PROVE  /\ to_bytes(s) \in [1..N -> Nat \X Nat]
         /\ \A i \in 1..N : /\ to_bytes(s)[i][1] = (Factor(s, i) - 1) % ByteMod
                            /\ to_bytes(s)[i][2] = (s[i][2] - 1) % ByteMod
<1>1. /\ Len(s) = N
      /\ \A i \in 1..N : s[i][2] \in Nat \ {0} /\ Factor(s, i) \in Nat \ {0}
  BY DEF Nested
<1>2. PICK b : b = to_bytes(s)
  OBVIOUS
<1>3. b = [i \in 1..N |-> <<(Factor(s, i) - 1) % ByteMod, (s[i][2] - 1) % ByteMod>>]
  BY <1>1, <1>2 DEF to_bytes
<1>4. PICK B \in Nat \ {0} : B = ByteMod
  BY PatternsAssumption
<1>5. \A a \in Nat \ {0} : (a - 1) % B \in Nat
  OBVIOUS
<1>6. ASSUME NEW i \in 1..N
      PROVE  /\ b[i] \in Nat \X Nat /\ b[i][1] = (Factor(s, i) - 1) % ByteMod
             /\ b[i][2] = (s[i][2] - 1) % ByteMod
  <2>1. PICK x, y : x = (Factor(s, i) - 1) % ByteMod /\ y = (s[i][2] - 1) % ByteMod
    OBVIOUS
  <2>2. x \in Nat /\ y \in Nat
    BY <1>1, <1>4, <1>5, <2>1
  <2>3. b[i] = <<x, y>>
    BY <1>3, <2>1
  <2>4. QED
    BY <2>1, <2>2, <2>3
<1>7. b \in [1..N -> Nat \X Nat]
  BY <1>3, <1>6
<1>8. QED
  BY <1>2, <1>6, <1>7

\* A shape reads back from its bytes exactly when they hold it.
LEMMA EncodableReads ==
  ASSUME NEW s, NEW N, Nested(s, N)
  PROVE  Encodable(s) <=> from_bytes(to_bytes(s)) = s
<1>1. /\ s \in Seq(Dim) /\ Len(s) = N /\ N \in Nat \ {0} /\ N = NumDims
      /\ \A i \in 1..N : /\ s[i][1] \in Nat /\ s[i][2] \in Nat \ {0} /\ s[i] = <<s[i][1], s[i][2]>>
                         /\ MinStride(s, i) \in Nat \ {0} /\ Factor(s, i) \in Nat \ {0}
  BY DEF Nested
<1>2. PICK b : b = to_bytes(s)
  OBVIOUS
<1>3. /\ b \in [1..N -> Nat \X Nat]
      /\ \A i \in 1..N : /\ b[i][1] = (Factor(s, i) - 1) % ByteMod
                         /\ b[i][2] = (s[i][2] - 1) % ByteMod
  BY <1>2, BytesOfShape
<1>4. PICK t : t = from_bytes(b)
  OBVIOUS
<1>5. ReadFrom(b, N, t)
  BY <1>1, <1>3, <1>4, FromBytesIs
<1>6. t = s <=> ReadFrom(b, N, s)
  BY <1>1, <1>5, OneReading
<1>7. ReadFrom(b, N, s) <=> \A i \in 1..N : s[i] = Unpacked(b, s, i)
  BY <1>1 DEF ReadFrom
<1>8. ASSUME NEW i \in 1..N
      PROVE  s[i] = Unpacked(b, s, i) <=>
               s[i][1] % MinStride(s, i) = 0 /\ Factor(s, i) <= ByteMod /\ s[i][2] <= ByteMod
  <2>1. PICK x, n, M, F, B :
          /\ x = s[i][1] /\ n = s[i][2] /\ M = MinStride(s, i) /\ F = Factor(s, i) /\ B = ByteMod
    OBVIOUS
  <2>2. /\ x \in Nat /\ n \in Nat \ {0} /\ M \in Nat \ {0} /\ F \in Nat \ {0}
        /\ s[i] = <<x, n>> /\ B \in Nat \ {0}
    BY <1>1, <2>1, PatternsAssumption
  <2>3. F = x \div M
    BY <2>1 DEF Factor
  <2>4. Fits(x, M, F, n, B)
    BY <2>2, <2>3, ByteHolds
  <2>5. Unpacked(b, s, i) = <<(1 + ((F - 1) % B)) * M, 1 + ((n - 1) % B)>>
    BY <1>3, <2>1 DEF Unpacked
  <2>6. PICK v, w : v = (1 + ((F - 1) % B)) * M /\ w = 1 + ((n - 1) % B)
    OBVIOUS
  <2>7. <<x, n>> = <<v, w>> <=> x = v /\ n = w
    OBVIOUS
  <2>8. QED
    BY <2>1, <2>2, <2>4, <2>5, <2>6, <2>7 DEF Fits
<1>9. Encodable(s) <=> \A i \in 1..N : s[i] = Unpacked(b, s, i)
  BY <1>1, <1>8 DEF Encodable
<1>10. QED
  BY <1>2, <1>4, <1>6, <1>7, <1>9

\* The bytes of a shape they hold are canonical: only padding has length 1, and
\* its factor is 1.
LEMMA EncodableTaken ==
  ASSUME NEW p, NEW s, NEW dims, Shaped(p, s, dims), ~RefusesShape(s), Encodable(s)
  PROVE  ~RefusesBytes(to_bytes(s))
<1>1. /\ s \in Seq(Dim) /\ dims \in Seq(Dim) /\ Len(dims) <= Len(s)
      /\ \A i \in 1..Len(dims) : s[i] = dims[i] /\ dims[i][1] > 0 /\ dims[i][2] > 1
      /\ \A i \in Len(dims) + 1..Len(s) : s[i] = Padding(dims)
  BY DEF Shaped
<1>2. PICK N, d : N = NumDims /\ d = Len(dims)
  OBVIOUS
<1>3. Nested(s, N)
  BY <1>2, NestedIs
<1>4. /\ Len(s) = N /\ N \in Nat \ {0} /\ d \in Nat
      /\ \A i \in 1..N : s[i][2] \in Nat \ {0} /\ MinStride(s, i) \in Nat \ {0}
  BY <1>1, <1>2, <1>3 DEF Nested
<1>5. PICK b : b = to_bytes(s)
  OBVIOUS
<1>6. /\ b \in [1..N -> Nat \X Nat]
      /\ \A i \in 1..N : /\ b[i][1] = (Factor(s, i) - 1) % ByteMod
                         /\ b[i][2] = (s[i][2] - 1) % ByteMod
  BY <1>3, <1>5, BytesOfShape
<1>7. PICK B \in Nat \ {0} : B = ByteMod
  BY PatternsAssumption
<1>8. ASSUME NEW j \in 1..N, b[j][2] = 0 PROVE s[j][2] = 1
  <2>1. PICK n \in Nat \ {0} : n = s[j][2] /\ n <= B
    BY <1>2, <1>4, <1>7 DEF Encodable
  <2>2. PICK x \in Nat, m \in Nat, F \in Nat : x = s[j][1] /\ m = MinStride(s, j) /\ F = Factor(s, j)
    BY <1>3 DEF Nested
  <2>3. (n - 1) % B = 0
    BY <1>6, <1>7, <1>8, <2>1
  <2>4. n - 1 \in 0..B - 1
    BY <2>1
  <2>5. (n - 1) % B = n - 1
    BY <2>4
  <2>6. QED
    BY <2>1, <2>3, <2>5
<1>9. ASSUME NEW j \in 1..N, b[j][2] = 0 PROVE j > d
  <2>1. s[j][2] = 1
    BY <1>8, <1>9
  <2>2. j \notin 1..d
    BY <1>1, <1>2, <2>1
  <2>3. QED
    BY <1>4, <2>2
<1>10. PICK per \in Nat \ {0} : Padding(dims) = <<per, 1>>
  <2>1. Padding(dims) \in Dim /\ Padding(dims)[1] > 0 /\ Padding(dims)[2] = 1
    BY <1>1, PaddingIs
  <2>2. QED
    BY <2>1 DEF Dim
<1>11. ASSUME NEW i \in 1..N, i > d PROVE b[i] = <<0, 0>>
  <2>1. s[i] = <<per, 1>>
    BY <1>1, <1>2, <1>4, <1>10, <1>11
  <2>2. MinStride(s, i) = per
    <3>1. CASE i = 1
      <4>1. dims = <<>>
        BY <1>1, <1>2, <1>4, <1>11, <3>1, EmptySeq
      <4>2. QED
        BY <1>10, <3>1, <4>1 DEF MinStride, Padding
    <3>2. CASE i # 1 /\ i = d + 1
      <4>1. dims # <<>> /\ i - 1 = d /\ d \in 1..d
        BY <1>2, <1>4, <3>2
      <4>2. s[i - 1] = Last(dims)
        BY <1>1, <1>2, <4>1 DEF Last
      <4>3. Padding(dims)[1] = Last(dims)[1] * Last(dims)[2]
        BY <4>1 DEF Padding
      <4>4. QED
        BY <1>10, <3>2, <4>2, <4>3 DEF MinStride
    <3>3. CASE i # 1 /\ i # d + 1
      <4>1. i - 1 \in d + 1..Len(s)
        BY <1>4, <1>11, <3>3
      <4>2. s[i - 1] = <<per, 1>>
        BY <1>1, <1>2, <1>10, <4>1
      <4>3. per * 1 = per
        OBVIOUS
      <4>4. QED
        BY <3>3, <4>2, <4>3 DEF MinStride
    <3>4. QED
      BY <3>1, <3>2, <3>3
  <2>3. Factor(s, i) = 1
    <3>1. PICK o, z : o = 1 /\ z = 0 /\ o \in Int /\ z \in 0..per - 1 /\ per = per * o + z
      OBVIOUS
    <3>2. per \div per = o
      BY <3>1, Quotient
    <3>3. QED
      BY <2>1, <2>2, <3>1, <3>2 DEF Factor
  <2>4. (1 - 1) % B = 0
    <3>1. PICK z : z = 0 /\ z \in 0..B - 1 /\ z \in Int /\ z = B * z + z /\ z \in Nat
      OBVIOUS
    <3>2. z % B = z
      BY <3>1, Quotient
    <3>3. QED
      BY <3>1, <3>2
  <2>5. b[i][1] = 0 /\ b[i][2] = 0
    BY <1>6, <1>7, <2>1, <2>3, <2>4
  <2>6. b[i] \in Nat \X Nat
    BY <1>6
  <2>7. QED
    BY <2>5, <2>6
<1>12. ASSUME NEW i \in 1..N, NEW j \in 1..i, b[j][2] = 0 PROVE b[i] = <<0, 0>>
  <2>1. j \in 1..N /\ j <= i
    BY <1>4
  <2>2. j > d
    BY <1>9, <1>12, <2>1
  <2>3. i > d
    BY <1>4, <2>1, <2>2
  <2>4. QED
    BY <1>11, <2>3
<1>13. Len(b) = N
  BY <1>4, <1>6, FunctionIsSeq
<1>14. QED
  BY <1>5, <1>12, <1>13 DEF RefusesBytes

\* What is read from the six bytes of a pattern, and what they are.
ReadsAs(p, s, t) ==
  /\ to_list(s) = p /\ size(s) = Len(p)
  /\ Encodable(s) <=> t = s
  /\ Encodable(s) => ~RefusesBytes(to_bytes(s)) /\ to_list(t) = p

LEMMA PatternOnWire ==
  ASSUME NEW p, NEW s, NEW dims, Shaped(p, s, dims), ~RefusesShape(s)
  PROVE  ReadsAs(p, s, from_bytes(to_bytes(s)))
<1>1. to_list(s) = p /\ size(s) = Len(p)
  BY DEF Shaped
<1>2. Encodable(s) <=> from_bytes(to_bytes(s)) = s
  BY NestedIs, EncodableReads
<1>3. Encodable(s) => ~RefusesBytes(to_bytes(s))
  BY EncodableTaken
<1>4. QED
  BY <1>1, <1>2, <1>3 DEF ReadsAs

\* Each pattern's bytes are those from_bytes is given.
LEMMA ConfigRead ==
  ASSUME NEW c, NEW r, NEW q, r = c.rows_pattern, q = c.cols_pattern,
         Nested(r, NumDims), Nested(q, NumDims)
  PROVE  /\ ConfigFromBytes(ConfigToBytes(c)).rows_pattern = from_bytes(to_bytes(r))
         /\ ConfigFromBytes(ConfigToBytes(c)).cols_pattern = from_bytes(to_bytes(q))
<1>1. PICK N \in Nat \ {0} : N = NumDims
  BY PatternsAssumption
<1>2. PICK b, e : b = to_bytes(r) /\ e = to_bytes(q)
  OBVIOUS
<1>3. b \in [1..N -> Nat \X Nat] /\ e \in [1..N -> Nat \X Nat]
  BY <1>1, <1>2, BytesOfShape
<1>4. PICK w, x, y, z : /\ x = c.common_dim /\ y = c.rank /\ z = c.mma_type
                        /\ w = <<x, y, z>> \o FlattenSeq(b) \o FlattenSeq(e)
  OBVIOUS
<1>5. w = ConfigToBytes(c)
  BY <1>2, <1>4 DEF ConfigToBytes
<1>6. PairsOnWire(N, b, w, 4) /\ PairsOnWire(N, e, w, 4 + 2 * N)
  BY <1>3, <1>4, PairsRead
<1>7. ASSUME NEW f \in [1..N -> Nat \X Nat], NEW at, PairsOnWire(N, f, w, at)
      PROVE  [i \in 1..N |-> <<w[at + 2 * i - 2], w[at + 2 * i - 1]>>] = f
  <2>1. ASSUME NEW i \in 1..N PROVE <<w[at + 2 * i - 2], w[at + 2 * i - 1]>> = f[i]
    <3>1. w[at + 2 * i - 2] = f[i][1] /\ w[at + 2 * i - 1] = f[i][2]
      BY <1>7 DEF PairsOnWire
    <3>2. PICK v : v = f[i] /\ v \in Nat \X Nat
      OBVIOUS
    <3>3. v = <<v[1], v[2]>>
      BY <3>2
    <3>4. QED
      BY <3>1, <3>2, <3>3
  <2>2. QED
    BY <2>1
<1>8. PICK u : u = 4 + 2 * N
  OBVIOUS
<1>9. PairsOnWire(N, e, w, u)
  BY <1>6, <1>8
<1>10. PICK g, h : /\ g = [i \in 1..N |-> <<w[4 + 2 * i - 2], w[4 + 2 * i - 1]>>]
                   /\ h = [i \in 1..N |-> <<w[u + 2 * i - 2], w[u + 2 * i - 1]>>]
  OBVIOUS
<1>11. g = b /\ h = e
  BY <1>3, <1>6, <1>7, <1>9, <1>10
<1>12. ConfigFromBytes(w).rows_pattern = from_bytes(g) /\ ConfigFromBytes(w).cols_pattern = from_bytes(h)
  BY <1>1, <1>8, <1>10 DEF ConfigFromBytes
<1>13. QED
  BY <1>2, <1>5, <1>11, <1>12

\* Whatever lists the pool announces: the configuration's bytes give the shape
\* back exactly when its strides nest and fit a byte, they are canonical then,
\* and the shape lists what was announced.
THEOREM ConfigAlwaysOnWire == Spec => []ConfigOnWire
<1>1. ASSUME ConfigInv, phase = "configured"
      PROVE  /\ ReadsAs(lists[1], mc.rows_pattern, ConfigFromBytes(ConfigToBytes(mc)).rows_pattern)
             /\ ReadsAs(lists[2], mc.cols_pattern, ConfigFromBytes(ConfigToBytes(mc)).cols_pattern)
  <2>1. PICK d, e : Shaped(lists[1], mc.rows_pattern, d) /\ Shaped(lists[2], mc.cols_pattern, e)
    BY <1>1, PatternsAre DEF FromConfigured
  <2>2. ~RefusesShape(mc.rows_pattern) /\ ~RefusesShape(mc.cols_pattern)
    BY <1>1 DEF ConfigInv, FromConfigured
  <2>3. PICK c, r, q : c = mc /\ r = c.rows_pattern /\ q = c.cols_pattern
    OBVIOUS
  <2>4. Nested(r, NumDims) /\ Nested(q, NumDims)
    BY <2>1, <2>2, <2>3, NestedIs
  <2>5. /\ ConfigFromBytes(ConfigToBytes(c)).rows_pattern = from_bytes(to_bytes(r))
        /\ ConfigFromBytes(ConfigToBytes(c)).cols_pattern = from_bytes(to_bytes(q))
    BY <2>3, <2>4, ConfigRead
  <2>6. ReadsAs(lists[1], r, from_bytes(to_bytes(r))) /\ ReadsAs(lists[2], q, from_bytes(to_bytes(q)))
    BY <2>1, <2>2, <2>3, PatternOnWire
  <2>7. QED
    BY <2>3, <2>5, <2>6
<1>2. ASSUME ConfigInv PROVE ConfigOnWire
  <2>1. ASSUME phase = "configured", NEW i \in 1..2
        PROVE  ReadsAs(lists[i], <<mc.rows_pattern, mc.cols_pattern>>[i],
                       <<ConfigFromBytes(ConfigToBytes(mc)).rows_pattern,
                         ConfigFromBytes(ConfigToBytes(mc)).cols_pattern>>[i])
    <3>1. i = 1 \/ i = 2
      OBVIOUS
    <3>2. QED
      BY <1>1, <1>2, <2>1, <3>1
  <2>2. QED
    BY <2>1 DEF ConfigOnWire, ReadsAs
<1>3. AssemblyInv => ConfigOnWire
  BY <1>2 DEF AssemblyInv
<1>4. QED
  BY <1>3, AssemblyHolds, PTL

-----------------------------------------------------------------------------
\* The device's BLAKE3 output: block by block and lane by lane it writes the
\* same words, so the matrices it derives are the CPU's.

\* The place of an entry among the bytes of its matrix.
LEMMA EntryPlace ==
  ASSUME NEW rows \in Nat \ {0}, NEW cols \in Nat \ {0}, NEW i \in 1..rows, NEW j \in 1..cols
  PROVE  (i - 1) * cols + j \in 1..rows * cols
<1>1. i - 1 \in Int /\ rows \in Int /\ i - 1 < rows /\ cols \in Nat \ {0}
  OBVIOUS
<1>2. cols * (i - 1) + cols <= cols * rows
  BY <1>1, Products
<1>3. PICK a, b : a = (i - 1) * cols /\ b = rows * cols /\ a \in Nat /\ b \in Nat /\ a + cols <= b
  <2>1. (i - 1) * cols = cols * (i - 1) /\ rows * cols = cols * rows
    OBVIOUS
  <2>2. (i - 1) * cols \in Nat /\ rows * cols \in Nat
    OBVIOUS
  <2>3. QED
    BY <1>2, <2>1, <2>2
<1>4. a + j \in 1..b
  BY <1>3
<1>5. QED
  BY <1>3, <1>4

\* What a work item of the device's XOF writes, of the bytes v of the stream.
BlockOf(v, B, total, g, s) ==
  /\ s = [i \in 1..Len(s) |-> v[(g - 1) * B + i]]
  /\ Len(s) \in Nat /\ Len(s) <= B
  /\ (g - 1) * B + Len(s) <= total
  /\ Len(s) = B \/ (g - 1) * B + Len(s) = total

\* Only the last may be shorter.
Blocks(v, B, total, n, seqs) ==
  /\ n = CeilDiv(total, B) /\ seqs = [g \in 1..n |-> seqs[g]]
  /\ \A g \in 1..n : BlockOf(v, B, total, g, seqs[g]) /\ (g < n => Len(seqs[g]) = B)

Written(v, B, total, g, s) ==
  s = [i \in 1..(IF total - (g - 1) * B >= B THEN B ELSE total - (g - 1) * B) |-> v[(g - 1) * B + i]]

\* A block that was written so is the block of the stream, and a full one if not the last.
LEMMA BlockIs ==
  ASSUME NEW total \in Nat \ {0}, NEW v, NEW B \in Nat \ {0}, NEW n, n = CeilDiv(total, B),
         NEW g \in 1..n, NEW s, Written(v, B, total, g, s)
  PROVE  BlockOf(v, B, total, g, s) /\ (g < n => Len(s) = B)
<1>1. n \in Nat /\ \A c \in Nat : c < n <=> c * B < total
  BY CeilIs
<1>2. PICK c \in Nat : c = g - 1 /\ c < n /\ c + 1 = g
  BY <1>1
<1>3. PICK z \in Nat : z = c * B /\ z < total
  BY <1>1, <1>2
<1>4. PICK len \in Nat : len = IF total - z >= B THEN B ELSE total - z
  <2>1. total - z \in Nat
    BY <1>3
  <2>2. QED
    BY <2>1
<1>5. s = [i \in 1..len |-> v[z + i]] /\ (g - 1) * B = z
  BY <1>2, <1>3, <1>4 DEF Written
<1>6. Len(s) = len
  <2>1. s = [i \in 1..len |-> s[i]]
    BY <1>5
  <2>2. QED
    BY <2>1, ListIs
<1>7. BlockOf(v, B, total, g, s)
  <2>1. len <= B /\ z + len <= total /\ (len = B \/ z + len = total)
    BY <1>3, <1>4
  <2>2. QED
    BY <1>4, <1>5, <1>6, <2>1 DEF BlockOf
<1>8. ASSUME g < n PROVE len = B
  <2>1. (c + 1) * B < total /\ (c + 1) * B = z + B
    <3>1. g \in Nat /\ g * B < total
      BY <1>1, <1>8
    <3>2. (c + 1) * B = c * B + B
      OBVIOUS
    <3>3. QED
      BY <1>2, <1>3, <3>1, <3>2
  <2>2. QED
    BY <1>3, <1>4, <2>1
<1>9. QED
  BY <1>1, <1>6, <1>7, <1>8

\* The blocks one behind the other are the stream.
LEMMA BlocksInRow ==
  ASSUME NEW total \in Nat \ {0}, NEW B \in Nat \ {0}, NEW n, NEW v,
         NEW seqs, Blocks(v, B, total, n, seqs), NEW x \in 1..total
  PROVE  FlattenSeq(seqs)[x] = v[x]
<1> n = CeilDiv(total, B) /\ seqs = [g \in 1..n |-> seqs[g]]
  BY DEF Blocks
<1> \A g \in 1..n : BlockOf(v, B, total, g, seqs[g]) /\ (g < n => Len(seqs[g]) = B)
  BY DEF Blocks
<1>1. n \in Nat /\ \A c \in Nat : c < n <=> c * B < total
  BY CeilIs
<1>2. PICK V : V = {v[y] : y \in 1..total}
  OBVIOUS
<1>3. ASSUME NEW g \in 1..n PROVE seqs[g] \in Seq(V)
  <2>1. PICK s, len : s = seqs[g] /\ len = Len(s)
    OBVIOUS
  <2>2. BlockOf(v, B, total, g, s)
    BY <2>1
  <2>3. PICK z \in Nat : z = (g - 1) * B
    <3>1. (g - 1) * B \in Nat
      BY <1>1
    <3>2. QED
      BY <3>1
  <2>4. len \in Nat /\ z + len <= total /\ s = [i \in 1..len |-> v[z + i]]
    BY <2>1, <2>2, <2>3 DEF BlockOf
  <2>5. \A i \in 1..len : z + i \in 1..total
    BY <2>3, <2>4
  <2>6. \A i \in 1..len : v[z + i] \in V
    BY <1>2, <2>5
  <2>7. s \in [1..len -> V]
    BY <2>4, <2>6
  <2>8. QED
    BY <2>1, <2>4, <2>7, FunctionIsSeq
<1>4. seqs \in [1..n -> Seq(V)]
  BY <1>3
<1>5. PICK z \in Nat : z = 0
  OBVIOUS
<1>6. n # 0
  <2>1. z * B < total
    BY <1>5
  <2>2. z < n
    BY <1>1, <2>1
  <2>3. QED
    BY <1>5, <2>2
<1>7. \A i \in 1..n - 1 : Len(seqs[i]) = B
  BY <1>1
<1>8. RowsOf(V, n, B, seqs)
  BY <1>1, <1>4, <1>6, <1>7 DEF RowsOf
<1>9. PICK out : out = FlattenSeq(seqs)
  OBVIOUS
<1>10. Filled(V, n, B, seqs, out)
  BY <1>8, <1>9, FlattenRows
<1>11. PICK y \in Nat : y = x - 1 /\ y < total /\ x = y + 1
  OBVIOUS
<1>12. PICK q \in Nat, r \in 0..B - 1 : y = B * q + r
  BY Divided
<1>13. PICK w \in Nat : w = q * B /\ w = B * q /\ y = w + r
  BY <1>12
<1>14. q < n
  <2>1. q * B < total
    BY <1>11, <1>13
  <2>2. QED
    BY <1>1, <2>1
<1>15. PICK g : g = q + 1 /\ g \in 1..n /\ g - 1 = q /\ q \in 0..n - 1
  <2>1. n \in Nat
    BY <1>1
  <2>2. QED
    BY <1>14, <2>1
<1>16. PICK s, len : s = seqs[g] /\ len = Len(s)
  OBVIOUS
<1>17. BlockOf(v, B, total, g, s)
  BY <1>15, <1>16
<1>18. /\ len \in Nat
       /\ len = B \/ w + len = total
       /\ s = [i \in 1..len |-> v[w + i]]
  <2>1. (g - 1) * B = w
    BY <1>13, <1>15
  <2>2. QED
    BY <1>16, <1>17, <2>1 DEF BlockOf
<1>19. r + 1 \in 1..len
  <2>1. y = w + r /\ y < total /\ w \in Nat
    BY <1>11, <1>13
  <2>2. len \in Nat /\ (len = B \/ w + len = total)
    BY <1>18
  <2>3. QED
    BY <2>1, <2>2
<1>20. out[w + (r + 1)] = s[r + 1]
  BY <1>10, <1>13, <1>15, <1>16, <1>19 DEF Filled
<1>21. s[r + 1] = v[w + (r + 1)]
  BY <1>18, <1>19
<1>22. w + (r + 1) = x
  BY <1>11, <1>12, <1>13
<1>23. QED
  BY <1>9, <1>20, <1>21, <1>22

\* The device derives the matrix the CPU derives.
LEMMA DeviceDerives ==
  ASSUME NEW rows \in Nat \ {0}, NEW cols \in Nat \ {0}, NEW s, NEW tag
  PROVE  derive(s, rows, cols, tag) = derive_matrix(s, rows, cols, tag)
<1>1. PICK total \in Nat \ {0} : total = rows * cols
  <2>1. rows * cols \in Nat \ {0}
    OBVIOUS
  <2>2. QED
    BY <2>1
<1>2. PICK B \in Nat \ {0} : B = XofBlock
  BY JackpotAssumption DEF XofBlock
<1>3. PICK v : v = [x \in 1..total |-> Int7(Xof(tag, s, x))]
  OBVIOUS
<1>4. PICK n : n = CeilDiv(total, B)
  OBVIOUS
<1>5. PICK seqs : seqs = [g \in 1..n |-> blake3_xof_derive_int8(g - 1, s, tag, total)]
  OBVIOUS
<1>6. n \in Nat /\ \A c \in Nat : c < n <=> c * B < total
  BY <1>4, CeilIs
<1>7. ASSUME NEW g \in 1..n
      PROVE  BlockOf(v, B, total, g, seqs[g]) /\ (g < n => Len(seqs[g]) = B)
  <2>1. PICK z, len : /\ z = (g - 1) * B
                      /\ len = IF total - z >= B THEN B ELSE total - z
    OBVIOUS
  <2>2. seqs[g] = [i \in 1..len |-> Int7(Xof(tag, s, z + i))]
    BY <1>2, <1>5, <2>1 DEF blake3_xof_derive_int8
  <2>3. z \in Nat /\ z < total /\ len \in Nat /\ z + len <= total
    <3>1. PICK c \in Nat : c = g - 1 /\ c < n
      BY <1>6
    <3>2. c * B \in Nat /\ c * B < total
      BY <1>6, <3>1
    <3>3. z \in Nat /\ z < total
      BY <2>1, <3>1, <3>2
    <3>4. QED
      BY <2>1, <3>3
  <2>4. \A i \in 1..len : v[z + i] = Int7(Xof(tag, s, z + i))
    <3>1. \A i \in 1..len : z + i \in 1..total
      BY <2>3
    <3>2. QED
      BY <1>3, <3>1
  <2>5. seqs[g] = [i \in 1..len |-> v[z + i]]
    BY <2>2, <2>4
  <2>6. PICK u : u = seqs[g]
    OBVIOUS
  <2>7. Written(v, B, total, g, u)
    BY <2>1, <2>5, <2>6 DEF Written
  <2>8. BlockOf(v, B, total, g, u) /\ (g < n => Len(u) = B)
    BY <1>4, <2>7, BlockIs
  <2>9. QED
    BY <2>6, <2>8
<1>8. PICK out : out = FlattenSeq(seqs)
  OBVIOUS
<1>9. ASSUME NEW x \in 1..total PROVE out[x] = v[x]
  <2>1. seqs = [g \in 1..n |-> seqs[g]]
    BY <1>5
  <2>2. Blocks(v, B, total, n, seqs)
    BY <1>4, <1>7, <2>1 DEF Blocks
  <2>3. FlattenSeq(seqs)[x] = v[x]
    BY <2>2, BlocksInRow
  <2>4. QED
    BY <1>8, <2>3
<1>10. \A i \in 1..rows, j \in 1..cols :
         out[(i - 1) * cols + j] = Int7(Xof(tag, s, (i - 1) * cols + j))
  <2>1. \A i \in 1..rows, j \in 1..cols : (i - 1) * cols + j \in 1..total
    BY <1>1, EntryPlace
  <2>2. QED
    BY <1>3, <1>9, <2>1
<1>11. derive(s, rows, cols, tag)
         = <<>> \o [i \in 1..rows |-> <<>> \o [j \in 1..cols |-> out[(i - 1) * cols + j]]]
  BY <1>1, <1>2, <1>4, <1>5, <1>8 DEF derive, Matrix, CeilDiv
<1>12. derive_matrix(s, rows, cols, tag)
         = <<>> \o [i \in 1..rows |-> <<>> \o [j \in 1..cols |-> Int7(Xof(tag, s, (i - 1) * cols + j))]]
  BY DEF derive_matrix, Matrix
<1>13. QED
  BY <1>10, <1>11, <1>12

-----------------------------------------------------------------------------
\* Two rows generated from the same blocks, and what a row of the uniform noise
\* holds.

\* The w of some table, row after row.
Tabled(w, c, B, seqs) ==
  c \in Nat \ {0} /\ B \in Nat \ {0} /\ seqs = [b \in 1..c |-> [j \in 1..B |-> w[<<b, j>>]]]

FoundAt(w, B, x, v) == v = w[<<((x - 1) \div B) + 1, ((x - 1) % B) + 1>>]

\* Blocks of one size, joined, hold each word where its number says.
LEMMA EqualBlocks ==
  ASSUME NEW w, NEW c, NEW B, NEW seqs, Tabled(w, c, B, seqs)
  PROVE  /\ IsList(FlattenSeq(seqs)) /\ Len(FlattenSeq(seqs)) = c * B
         /\ \A x \in 1..c * B : FoundAt(w, B, x, FlattenSeq(seqs)[x])
<1> c \in Nat \ {0} /\ B \in Nat \ {0} /\ seqs = [b \in 1..c |-> [j \in 1..B |-> w[<<b, j>>]]]
  BY DEF Tabled
<1>1. PICK V : V = {w[x] : x \in (1..c) \X (1..B)}
  OBVIOUS
<1>2. ASSUME NEW b \in 1..c PROVE seqs[b] \in Seq(V) /\ Len(seqs[b]) = B
  <2>1. \A j \in 1..B : w[<<b, j>>] \in V
    <3>1. \A j \in 1..B : <<b, j>> \in (1..c) \X (1..B)
      OBVIOUS
    <3>2. QED
      BY <1>1, <3>1
  <2>2. seqs[b] \in [1..B -> V]
    BY <2>1
  <2>3. QED
    BY <2>2, FunctionIsSeq
<1>3. seqs \in [1..c -> Seq(V)]
  BY <1>2
<1>4. RowsOf(V, c, B, seqs)
  <2>1. \A i \in 1..c - 1 : Len(seqs[i]) = B
    BY <1>2
  <2>2. QED
    BY <1>3, <2>1 DEF RowsOf
<1>5. Len(seqs[c]) = B
  BY <1>2
<1>6. PICK flat : flat = FlattenSeq(seqs)
  OBVIOUS
<1>7. Flat(V, c, B, seqs, flat)
  BY <1>4, <1>5, <1>6, Flattened
<1>8. flat \in Seq(V) /\ Len(flat) = c * B
  <2>1. flat \in Seq(V) /\ Len(flat) = (c - 1) * B + B
    BY <1>5, <1>7 DEF Flat, Filled
  <2>2. (c - 1) * B + B = c * B
    OBVIOUS
  <2>3. QED
    BY <2>1, <2>2
<1>9. ASSUME NEW x \in 1..c * B PROVE FoundAt(w, B, x, flat[x])
  <2>1. x \in 1..Len(flat)
    BY <1>8
  <2>2. PICK q, r : q = (x - 1) \div B /\ r = (x - 1) % B
    OBVIOUS
  <2>3. InRow(c, seqs, q, r, flat[x]) /\ r \in 0..B - 1
    BY <1>7, <2>1, <2>2, FlatDiv
  <2>4. q + 1 \in 1..c /\ r + 1 \in 1..B /\ flat[x] = seqs[q + 1][r + 1]
    BY <2>3 DEF InRow
  <2>5. flat[x] = w[<<q + 1, r + 1>>]
    BY <2>4
  <2>6. QED
    BY <2>2, <2>5 DEF FoundAt
<1>10. QED
  BY <1>6, <1>8, <1>9 DEF IsList

\* The j-th byte of a row of the uniform matrix.
UniformAt(label, key, cols, row, j) ==
  (get_random_hash(row * (cols \div HashBytes) + ((j - 1) \div HashBytes), label, key, 0)
     [1 + ((j - 1) % HashBytes)] % 64) - 32

UniformRow(label, key, cols, row, x) == x = [j \in 1..cols |-> UniformAt(label, key, cols, row, j)]

WholeDigests(cols) == cols \in Nat \ {0} /\ cols % HashBytes = 0

\* Whole digests are as many as the quotient says.
LEMMA DigestCount ==
  ASSUME NEW cols, WholeDigests(cols)
  PROVE  /\ HashBytes \in Nat \ {0} /\ cols \div HashBytes \in Nat \ {0}
         /\ cols = (cols \div HashBytes) * HashBytes
<1>1. PICK H \in Nat \ {0} : H = HashBytes
  BY JackpotAssumption
<1>2. PICK c \in Nat, r \in 0..H - 1 : c = cols \div H /\ r = cols % H /\ cols = H * c + r
  BY Divided DEF WholeDigests
<1>3. cols \in Nat \ {0} /\ r = 0
  BY <1>1, <1>2 DEF WholeDigests
<1>4. cols = c * H
  BY <1>2, <1>3
<1>5. c # 0
  BY <1>3, <1>4
<1>6. QED
  BY <1>1, <1>2, <1>4, <1>5

\* The CPU's stream begins with the digest the row begins with.
LEMMA StreamStarts ==
  ASSUME NEW H \in Nat \ {0}, NEW c \in Nat \ {0}, NEW row \in Nat
  PROVE  /\ (row * (c * H)) \div H = row * c
         /\ (row * (c * H) + c * H + H - 1) \div H = row * c + c
         /\ row * (c * H) - (row * c) * H = 0
<1>1. PICK a \in Nat : a = row * c
  OBVIOUS
<1>2. row * (c * H) = H * a
  BY <1>1
<1>3. PICK z \in Nat : z = row * (c * H) /\ z = H * a + 0
  BY <1>2
<1>4. z \div H = a
  <2>1. 0 \in 0..H - 1
    OBVIOUS
  <2>2. QED
    BY <1>3, <2>1, Quotient
<1>5. PICK y \in Nat, r \in 0..H - 1 : y = z + c * H + H - 1 /\ r = H - 1
  BY <1>3
<1>6. y = H * (a + c) + r
  <2>1. H * (a + c) = H * a + c * H
    OBVIOUS
  <2>2. QED
    BY <1>3, <1>5, <2>1
<1>7. y \div H = a + c
  <2>1. a + c \in Int
    OBVIOUS
  <2>2. QED
    BY <1>5, <1>6, <2>1, Quotient
<1>8. H * a = a * H
  OBVIOUS
<1>9. QED
  BY <1>1, <1>3, <1>4, <1>5, <1>7, <1>8

\* A digest is a list of its words.
LEMMA HashIs ==
  ASSUME NEW i, NEW label, NEW key, NEW slot
  PROVE  get_random_hash(i, label, key, slot)
           = [j \in 1..HashBytes |-> get_random_hash(i, label, key, slot)[j]]
  BY DEF get_random_hash

\* A row of the noise on the CPU.
LEMMA GeneratedRow ==
  ASSUME NEW label, NEW key, NEW rows, rows \in Seq(Nat), NEW cols, WholeDigests(cols),
         NEW i \in 1..Len(rows)
  PROVE  UniformRow(label, key, cols, rows[i], generate_uniform_random_matrix(label, key, rows, cols)[i])
<1>1. PICK n \in Nat : n = Len(rows)
  OBVIOUS
<1>2. PICK H \in Nat \ {0}, c \in Nat \ {0} : H = HashBytes /\ c = cols \div H /\ cols = c * H
  BY DigestCount
<1>3. PICK row \in Nat : row = rows[i]
  OBVIOUS
<1>4. PICK w : w = [x \in (1..c) \X (1..H) |-> get_random_hash(row * c + x[1] - 1, label, key, 0)[x[2]]]
  OBVIOUS
<1>5. PICK seqs : seqs = [b \in 1..c |-> get_random_hash(row * c + b - 1, label, key, 0)]
  OBVIOUS
<1>6. Tabled(w, c, H, seqs)
  <2>1. \A b \in 1..c : \A j \in 1..H : w[<<b, j>>] = get_random_hash(row * c + b - 1, label, key, 0)[j]
    BY <1>4
  <2>2. ASSUME NEW b \in 1..c
        PROVE  seqs[b] = [j \in 1..H |-> get_random_hash(row * c + b - 1, label, key, 0)[j]]
    <3>1. PICK x : x = row * c + b - 1
      OBVIOUS
    <3>2. PICK z : z = 0
      OBVIOUS
    <3>3. get_random_hash(x, label, key, z) = [j \in 1..H |-> get_random_hash(x, label, key, z)[j]]
      BY <1>2, HashIs
    <3>4. seqs[b] = get_random_hash(x, label, key, z)
      BY <1>5, <3>1, <3>2
    <3>5. QED
      BY <3>1, <3>2, <3>3, <3>4
  <2>3. \A b \in 1..c : seqs[b] = [j \in 1..H |-> w[<<b, j>>]]
    BY <2>1, <2>2
  <2>4. seqs = [b \in 1..c |-> [j \in 1..H |-> w[<<b, j>>]]]
    BY <1>5, <2>3
  <2>5. QED
    BY <2>4 DEF Tabled
<1>7. PICK stream : stream = FlattenSeq(seqs)
  OBVIOUS
<1>8. ASSUME NEW j \in 1..cols PROVE (stream[0 + j] % 64) - 32 = UniformAt(label, key, cols, row, j)
  <2>1. FoundAt(w, H, j, stream[j])
    BY <1>2, <1>6, <1>7, EqualBlocks
  <2>2. PICK q \in Nat, r \in 0..H - 1 : q = (j - 1) \div H /\ r = (j - 1) % H /\ j - 1 = H * q + r
    <3>1. j - 1 \in Nat
      BY <1>2
    <3>2. QED
      BY <3>1, Divided
  <2>3. q < c
    <3>1. H * q < c * H
      BY <1>2, <2>2
    <3>2. q >= c => H * q >= c * H
      BY <1>2, <2>2
    <3>3. QED
      BY <3>1, <3>2
  <2>4. stream[j] = w[<<q + 1, r + 1>>]
    BY <2>1, <2>2 DEF FoundAt
  <2>5. w[<<q + 1, r + 1>>] = get_random_hash(row * c + (q + 1) - 1, label, key, 0)[r + 1]
    <3>1. <<q + 1, r + 1>> \in (1..c) \X (1..H)
      BY <1>2, <2>2, <2>3
    <3>2. QED
      BY <1>4, <3>1
  <2>6. row * c + (q + 1) - 1 = row * c + q /\ r + 1 = 1 + r /\ 0 + j = j
    BY <1>2, <2>2
  <2>7. stream[0 + j] = get_random_hash(row * c + q, label, key, 0)[1 + r]
    BY <2>4, <2>5, <2>6
  <2>8. QED
    BY <1>2, <2>2, <2>7 DEF UniformAt
<1>9. PICK g : g = generate_uniform_random_matrix(label, key, rows, cols)
  OBVIOUS
<1>10. PICK start, lo, hi : start = row * cols /\ lo = start \div H /\ hi = (start + cols + H - 1) \div H
  OBVIOUS
<1>11. lo = row * c /\ hi = row * c + c /\ start - lo * H = 0
  <2>1. /\ (row * (c * H)) \div H = row * c
        /\ (row * (c * H) + c * H + H - 1) \div H = row * c + c
        /\ row * (c * H) - (row * c) * H = 0
    BY StreamStarts
  <2>2. start = row * (c * H) /\ start + cols + H - 1 = row * (c * H) + c * H + H - 1
    BY <1>2, <1>10
  <2>3. lo = row * c
    BY <1>10, <2>1, <2>2
  <2>4. hi = row * c + c
    BY <1>10, <2>1, <2>2
  <2>5. QED
    BY <2>1, <2>2, <2>3, <2>4
<1>12. hi - lo = c
  BY <1>11
<1>13. stream = FlattenSeq([b \in 1..hi - lo |-> get_random_hash(lo + b - 1, label, key, 0)])
  BY <1>5, <1>7, <1>11, <1>12
<1>14. PICK rowOf : rowOf = [u \in 1..n |-> g[u]]
  OBVIOUS
<1>15. PICK mat : mat = [u \in 1..n |->
     LET begin == rows[u] * cols
         low == begin \div H
         high == (begin + cols + H - 1) \div H
         all == FlattenSeq([b \in 1..high - low |-> get_random_hash(low + b - 1, label, key, 0)])
     IN <<>> \o [j \in 1..cols |-> (all[begin - low * H + j] % 64) - 32]]
  OBVIOUS
<1>16. g = <<>> \o mat
  BY <1>1, <1>2, <1>9, <1>15 DEF generate_uniform_random_matrix
<1>17. <<>> \o mat = mat
  <2>1. mat = [u \in 1..n |-> mat[u]]
    BY <1>15
  <2>2. QED
    BY <2>1, ListIs
<1>18. mat[i] = <<>> \o [j \in 1..cols |-> (stream[0 + j] % 64) - 32]
  <2>1. i \in 1..n
    BY <1>1
  <2>2. mat[i] = <<>> \o [j \in 1..cols |-> (stream[start - lo * H + j] % 64) - 32]
    BY <1>3, <1>10, <1>13, <1>15, <2>1
  <2>3. QED
    BY <1>11, <2>2
<1>19. PICK u : u = [j \in 1..cols |-> UniformAt(label, key, cols, row, j)]
  OBVIOUS
<1>20. mat[i] = <<>> \o u
  BY <1>8, <1>18, <1>19
<1>21. <<>> \o u = u
  <2>1. u = [j \in 1..cols |-> u[j]] /\ cols \in Nat
    BY <1>19 DEF WholeDigests
  <2>2. QED
    BY <2>1, ListIs
<1>22. QED
  BY <1>3, <1>9, <1>16, <1>17, <1>19, <1>20, <1>21 DEF UniformRow

-----------------------------------------------------------------------------
\* The noise tables: uniform rows and permutation pairs, of either path.

\* A matrix of tuples has the entries it is given.
LEMMA MatrixRows ==
  ASSUME NEW rows \in Nat, NEW cols \in Nat, NEW t, t = [i \in 1..rows |-> t[i]],
         \A i \in 1..rows : t[i] = [j \in 1..cols |-> t[i][j]]
  PROVE  <<>> \o [i \in 1..rows |-> <<>> \o t[i]] = t
<1>1. \A i \in 1..rows : <<>> \o t[i] = t[i]
  BY ListIs
<1>2. [i \in 1..rows |-> <<>> \o t[i]] = t
  BY <1>1
<1>3. <<>> \o t = t
  BY ListIs
<1>4. QED
  BY <1>2, <1>3

\* The device's rows of the noise are the CPU's.
UniformTable(label, key, rows, cols, x) ==
  x = [i \in 1..rows |-> [j \in 1..cols |-> UniformAt(label, key, cols, i - 1, j)]]

\* uniform draws, for row i, what the CPU draws for it alone.
LEMMA UniformRows ==
  ASSUME NEW label, NEW key, NEW rows \in Nat, NEW cols, WholeDigests(cols)
  PROVE  UniformTable(label, key, rows, cols, uniform(label, key, rows, cols))
<1>1. PICK t : t = [i \in 1..rows |-> [j \in 1..cols |-> UniformAt(label, key, cols, i - 1, j)]]
  OBVIOUS
<1>2. uniform(label, key, rows, cols)
        = <<>> \o [i \in 1..rows |-> <<>> \o [j \in 1..cols |-> UniformAt(label, key, cols, i - 1, j)]]
  BY DEF uniform, Matrix, UniformAt
<1>3. uniform(label, key, rows, cols) = <<>> \o [i \in 1..rows |-> <<>> \o t[i]]
  BY <1>1, <1>2
<1>4. /\ cols \in Nat
      /\ t = [i \in 1..rows |-> t[i]]
      /\ \A i \in 1..rows : t[i] = [j \in 1..cols |-> t[i][j]]
  BY <1>1 DEF WholeDigests
<1>5. <<>> \o [i \in 1..rows |-> <<>> \o t[i]] = t
  BY <1>4, MatrixRows
<1>6. QED
  BY <1>1, <1>3, <1>5 DEF UniformTable

\* The two columns a row of the permutation matrix names.
PermAt(label, key, rank, row) ==
  PermPair(get_random_hash((row - 1) \div HashBytes, label, key, 1)[1 + ((row - 1) % HashBytes)], rank)

PermRows(label, key, k, rank, x) == x = [row \in 1..k |-> PermAt(label, key, rank, row)]

\* The CPU's permutation matrix has the pair of each row's digest byte.
LEMMA GeneratedPairs ==
  ASSUME NEW label, NEW key, NEW rank, NEW k \in Nat
  PROVE  PermRows(label, key, k, rank, generate_permutation_matrix(label, key, k, rank))
<1>1. PICK u : u = [row \in 1..k |-> PermAt(label, key, rank, row)]
  OBVIOUS
<1>2. generate_permutation_matrix(label, key, k, rank) = <<>> \o u
  BY <1>1 DEF generate_permutation_matrix, PermAt
<1>3. <<>> \o u = u
  <2>1. u = [row \in 1..k |-> u[row]]
    BY <1>1
  <2>2. QED
    BY <2>1, ListIs
<1>4. QED
  BY <1>1, <1>2, <1>3 DEF PermRows

\* One work item per digest names the same columns.
LEMMA DevicePairs ==
  ASSUME NEW label, NEW key, NEW rank, NEW k, WholeDigests(k)
  PROVE  PermRows(label, key, k, rank, perm(label, key, k, rank))
<1>1. PICK H \in Nat \ {0}, c \in Nat \ {0} : H = HashBytes /\ c = k \div H /\ k = c * H
  BY DigestCount
<1>2. k \in Nat
  BY DEF WholeDigests
<1>3. (k + H - 1) \div H = c
  <2>1. PICK y \in Nat, r \in 0..H - 1 : y = k + H - 1 /\ r = H - 1
    BY <1>2
  <2>2. y = H * c + r
    BY <1>1, <2>1
  <2>3. c \in Int
    OBVIOUS
  <2>4. QED
    BY <2>1, <2>2, <2>3, Quotient
<1>4. PICK w : w = [x \in (1..c) \X (1..H) |-> PermPair(get_random_hash(x[1] - 1, label, key, 1)[x[2]], rank)]
  OBVIOUS
<1>5. PICK seqs : seqs = [b \in 1..c |-> [j \in 1..H |->
                            PermPair(get_random_hash(b - 1, label, key, 1)[j], rank)]]
  OBVIOUS
<1>6. Tabled(w, c, H, seqs)
  <2>1. \A b \in 1..c, j \in 1..H :
          w[<<b, j>>] = PermPair(get_random_hash(b - 1, label, key, 1)[j], rank)
    BY <1>4
  <2>2. seqs = [b \in 1..c |-> [j \in 1..H |-> w[<<b, j>>]]]
    BY <1>5, <2>1
  <2>3. QED
    BY <2>2 DEF Tabled
<1>7. PICK flat : flat = FlattenSeq(seqs)
  OBVIOUS
<1>8. IsList(flat) /\ Len(flat) = k
  BY <1>1, <1>6, <1>7, EqualBlocks
<1>9. ASSUME NEW x \in 1..k PROVE flat[x] = PermAt(label, key, rank, x)
  <2>1. FoundAt(w, H, x, flat[x])
    BY <1>1, <1>6, <1>7, EqualBlocks
  <2>2. PICK q \in Nat, r \in 0..H - 1 : q = (x - 1) \div H /\ r = (x - 1) % H /\ x - 1 = H * q + r
    <3>1. x - 1 \in Nat
      BY <1>2
    <3>2. QED
      BY <3>1, Divided
  <2>3. q < c
    <3>1. H * q < c * H
      BY <1>1, <2>2
    <3>2. q >= c => H * q >= c * H
      BY <1>1, <2>2
    <3>3. QED
      BY <3>1, <3>2
  <2>4. flat[x] = w[<<q + 1, r + 1>>]
    BY <2>1, <2>2 DEF FoundAt
  <2>5. w[<<q + 1, r + 1>>] = PermPair(get_random_hash((q + 1) - 1, label, key, 1)[r + 1], rank)
    <3>1. <<q + 1, r + 1>> \in (1..c) \X (1..H)
      BY <2>2, <2>3
    <3>2. QED
      BY <1>4, <3>1
  <2>6. (q + 1) - 1 = q /\ r + 1 = 1 + r
    BY <2>2
  <2>7. flat[x] = PermPair(get_random_hash(q, label, key, 1)[1 + r], rank)
    BY <2>4, <2>5, <2>6
  <2>8. QED
    BY <1>1, <2>2, <2>7 DEF PermAt
<1>10. perm(label, key, k, rank) = SubSeq(flat, 1, k)
  BY <1>1, <1>3, <1>5, <1>7 DEF perm
<1>11. SubSeq(flat, 1, k) = flat
  <2>1. PICK V : flat \in Seq(V)
    BY <1>8 DEF IsList
  <2>2. QED
    BY <1>2, <1>8, <2>1
<1>12. flat = [x \in 1..k |-> flat[x]]
  <2>1. PICK V : flat \in Seq(V)
    BY <1>8 DEF IsList
  <2>2. QED
    BY <1>2, <1>8, <2>1
<1>13. QED
  BY <1>9, <1>10, <1>11, <1>12 DEF PermRows

\* A word of a digest.
LEMMA HashWord ==
  ASSUME NEW i \in Nat, NEW label \in Nat, NEW key \in Nat, NEW slot \in Nat, NEW j \in 1..HashBytes
  PROVE  Word \in Nat \ {0} /\ get_random_hash(i, label, key, slot)[j] \in 0..Word - 1
<1>1. Word \in Nat \ {0}
  BY PowIs, JackpotAssumption DEF Word
<1>2. j \in Nat
  BY JackpotAssumption
<1>3. PICK a \in Nat, b \in Nat, c \in Nat, d \in Nat, e \in Nat, f \in Nat :
        a = key * 97 /\ b = label * 53 /\ c = slot * 29 /\ d = (i + 1) * 1041 /\ e = j * j * 571 /\ f = j * 13
  <2>1. j * j \in Nat
    BY <1>2
  <2>2. j * j * 571 \in Nat
    BY <2>1
  <2>3. key * 97 \in Nat /\ label * 53 \in Nat /\ slot * 29 \in Nat /\ (i + 1) * 1041 \in Nat /\ j * 13 \in Nat
    BY <1>2
  <2>4. QED
    BY <2>2, <2>3
<1>4. PICK x \in Nat : x = a + b + c + d + e + f
  OBVIOUS
<1>5. get_random_hash(i, label, key, slot)[j] = x % Word
  BY <1>3, <1>4 DEF get_random_hash
<1>6. x % Word \in 0..Word - 1
  BY <1>1, Division
<1>7. QED
  BY <1>1, <1>5, <1>6

-----------------------------------------------------------------------------
\* Low bits and powers of two: a permutation pair lies below the rank.

\* A number below a power of two has no bit from there on.
LEMMA LowBits ==
  ASSUME NEW e \in 0..WordBits, NEW x \in Nat, x < Pow2[e]
  PROVE  Uint(x) \subseteq 0..e - 1
<1>1. PICK W \in Nat \ {0} : W = WordBits
  BY JackpotAssumption
<1>2. e \in Nat /\ e <= W /\ W \in Nat
  BY <1>1
<1>3. PICK M \in Nat \ {0} : M = Word /\ x < M
  <2>1. Pow2[e] <= Pow2[W] /\ Pow2[W] \in Nat \ {0} /\ Pow2[e] \in Nat
    BY <1>2, PowGrows, PowIs
  <2>2. QED
    BY <1>1, <2>1 DEF Word
<1>4. x % M = x
  <2>1. PICK z \in Nat : z = 0
    OBVIOUS
  <2>2. x = M * z + x /\ x \in 0..M - 1
    BY <1>3, <2>1
  <2>3. QED
    BY <2>2, Quotient
<1>5. Uint(x) = {b \in 0..W - 1 : (x \div Pow2[b]) % 2 = 1}
  <2>1. x % Word = x /\ x \in 0..Word - 1
    BY <1>3, <1>4
  <2>2. Bits[x] = {b \in 0..WordBits - 1 : (x \div Pow2[b]) % 2 = 1}
    BY <2>1 DEF Bits
  <2>3. QED
    BY <1>1, <2>1, <2>2 DEF Uint
<1>6. ASSUME NEW b \in 0..W - 1, b >= e PROVE (x \div Pow2[b]) % 2 # 1
  <2>1. b \in Nat
    BY <1>1
  <2>2. PICK p \in Nat \ {0} : p = Pow2[b] /\ x < p
    <3>1. Pow2[e] <= Pow2[b] /\ Pow2[b] \in Nat \ {0} /\ Pow2[e] \in Nat
      BY <1>2, <1>6, <2>1, PowGrows, PowIs
    <3>2. QED
      BY <3>1
  <2>3. PICK z \in Nat : z = 0
    OBVIOUS
  <2>4. x = p * z + x /\ x \in 0..p - 1
    BY <2>2, <2>3
  <2>5. x \div p = z
    BY <2>4, Quotient
  <2>6. QED
    BY <2>2, <2>3, <2>5
<1>7. \A b \in Uint(x) : b \in 0..W - 1 /\ ~(b >= e)
  BY <1>5, <1>6
<1>8. QED
  BY <1>2, <1>7

\* The number of bits below a place is below its power.
LEMMA NumberBelow ==
  ASSUME NEW e \in 0..WordBits, NEW bits, bits \subseteq 0..e - 1
  PROVE  Number(bits) \in 0..Pow2[e] - 1
<1> DEFINE Low(g) == g = [n \in 0..WordBits |->
             IF n = 0 THEN 0 ELSE g[n - 1] + (IF n - 1 \in bits THEN Pow2[n - 1] ELSE 0)]
<1>1. PICK W \in Nat \ {0} : W = WordBits
  BY JackpotAssumption
<1>2. Number(bits) = (CHOOSE g : Low(g))[W]
  BY <1>1 DEF Number
<1>3. PICK add : add = [n \in 1..W |-> IF n - 1 \in bits THEN Pow2[n - 1] ELSE 0]
  OBVIOUS
<1>4. ASSUME NEW n \in 1..W PROVE add[n] \in Nat
  <2>1. n - 1 \in Nat
    OBVIOUS
  <2>2. Pow2[n - 1] \in Nat
    BY <2>1, PowIs
  <2>3. QED
    BY <1>3, <2>2
<1>5. PICK step : step = [x \in Nat \X (1..W) |-> x[1] + add[x[2]]]
  OBVIOUS
<1>6. PICK prev : prev = [n \in 1..W |-> n - 1]
  OBVIOUS
<1>7. step \in [Nat \X (1..W) -> Nat]
  BY <1>4, <1>5
<1>8. prev \in [1..W -> Nat] /\ \A n \in 1..W : prev[n] = n - 1
  BY <1>6
<1>9. PICK z \in Nat : z = 0
  OBVIOUS
<1>10. StepsFrom(Nat, z, W, step, prev)
  BY <1>7, <1>8 DEF StepsFrom
<1>11. PICK f : Recursive(Nat, z, W, step, prev, f)
  BY <1>10, Recursion
<1>12. f \in [0..W -> Nat] /\ f[z] = z /\ \A n \in 1..W : f[n] = step[<<f[prev[n]], n>>]
  BY <1>9, <1>11 DEF Recursive
<1>13. ASSUME NEW n \in 1..W PROVE f[n] = f[n - 1] + add[n]
  <2>1. prev[n] = n - 1 /\ n - 1 \in 0..W
    BY <1>8
  <2>2. <<f[n - 1], n>> \in Nat \X (1..W)
    BY <1>12, <2>1
  <2>3. step[<<f[n - 1], n>>] = f[n - 1] + add[n]
    BY <1>5, <2>2
  <2>4. QED
    BY <1>12, <2>1, <2>3
<1>14. Low(f)
  <2>1. ASSUME NEW n \in 0..W
        PROVE  f[n] = IF n = 0 THEN 0 ELSE f[n - 1] + (IF n - 1 \in bits THEN Pow2[n - 1] ELSE 0)
    <3>1. CASE n = 0
      BY <1>9, <1>12, <3>1
    <3>2. CASE n # 0
      <4>1. n \in 1..W
        BY <3>2
      <4>2. add[n] = IF n - 1 \in bits THEN Pow2[n - 1] ELSE 0
        BY <1>3, <4>1
      <4>3. QED
        BY <1>13, <3>2, <4>1, <4>2
    <3>3. QED
      BY <3>1, <3>2
  <2>2. QED
    BY <1>1, <1>12, <2>1
<1>15. PICK g : g = (CHOOSE h : Low(h)) /\ Low(g)
  <2> HIDE DEF Low
  <2>1. QED
    BY <1>14
<1>16. ASSUME NEW n \in 0..W
       PROVE  g[n] = IF n = 0 THEN 0 ELSE g[n - 1] + (IF n - 1 \in bits THEN Pow2[n - 1] ELSE 0)
  BY <1>1, <1>15
<1>17. PICK T : T = {n \in 0..W : g[n] \in Nat /\ g[n] < Pow2[n] /\ g[n] < Pow2[e]}
  OBVIOUS
<1>18. 0 \in T
  <2>1. g[0] = 0
    BY <1>16
  <2>2. e \in Nat /\ 0 \in Nat
    BY <1>1
  <2>3. Pow2[0] = 1 /\ Pow2[e] \in Nat \ {0}
    BY <2>2, PowIs
  <2>4. QED
    BY <1>17, <2>1, <2>3
<1>19. ASSUME NEW n \in 0..W - 1, n \in T PROVE n + 1 \in T
  <2>1. n \in Nat /\ n + 1 \in 0..W /\ n + 1 # 0 /\ (n + 1) - 1 = n /\ e \in Nat
    BY <1>1
  <2>2. g[n + 1] = g[n] + (IF n \in bits THEN Pow2[n] ELSE 0)
    BY <1>16, <2>1
  <2>3. PICK p \in Nat \ {0}, pp \in Nat, pe \in Nat \ {0} :
          p = Pow2[n] /\ pp = Pow2[n + 1] /\ pp = 2 * p /\ pe = Pow2[e]
    <3>1. Pow2[n] \in Nat \ {0} /\ Pow2[e] \in Nat \ {0}
      BY <2>1, PowIs
    <3>2. Pow2[n + 1] = 2 * Pow2[n]
      BY <2>1, PowIs
    <3>3. 2 * Pow2[n] \in Nat
      BY <3>1
    <3>4. QED
      BY <3>1, <3>2, <3>3
  <2>4. PICK y \in Nat : y = g[n] /\ y < p /\ y < pe
    BY <1>17, <1>19, <2>3
  <2>5. CASE n \notin bits
    <3>1. g[n + 1] = y
      BY <2>2, <2>4, <2>5
    <3>2. y < pp
      BY <2>3, <2>4
    <3>3. QED
      BY <1>17, <2>1, <2>3, <2>4, <3>1, <3>2
  <2>6. CASE n \in bits
    <3>1. n < e
      BY <2>1, <2>6
    <3>2. 2 * p <= pe
      BY <2>1, <2>3, <3>1, PowGrows
    <3>3. g[n + 1] = y + p
      BY <2>2, <2>3, <2>4, <2>6
    <3>4. y + p \in Nat /\ y + p < pp /\ y + p < pe
      BY <2>3, <2>4, <3>2
    <3>5. QED
      BY <1>17, <2>1, <2>3, <3>3, <3>4
  <2>7. QED
    BY <2>5, <2>6
<1>20. \A n \in 0..W : n \in T
  BY <1>18, <1>19, Upwards
<1>21. g[W] \in Nat /\ g[W] < Pow2[e]
  <2>1. W \in 0..W
    OBVIOUS
  <2>2. QED
    BY <1>17, <1>20, <2>1
<1>22. Pow2[e] \in Nat
  BY <1>1, PowIs
<1>23. QED
  BY <1>2, <1>15, <1>21, <1>22

\* A rank is a power of two, and more than one column.
PowerRank(rank) == \E e \in 1..WordBits : rank = Pow2[e]

\* Both columns of a pair are columns of the uniform matrix.
LEMMA PairWithin ==
  ASSUME NEW rank, PowerRank(rank), NEW v \in 0..Word - 1
  PROVE  \E a \in 0..rank - 1, b \in 0..rank - 1 : PermPair(v, rank) = <<a, b>>
<1>1. PICK e \in 1..WordBits : rank = Pow2[e]
  BY DEF PowerRank
<1>2. PICK W \in Nat \ {0} : W = WordBits
  BY JackpotAssumption
<1>3. e \in 0..WordBits /\ e \in Nat /\ 1 <= e /\ 0 < e
  BY <1>2
<1>4. rank \in Nat /\ rank >= 2
  <2>1. 2 * Pow2[0] <= Pow2[e] /\ Pow2[0] = 1 /\ Pow2[e] \in Nat
    BY <1>3, PowGrows, PowIs
  <2>2. QED
    BY <1>1, <2>1
<1>5. PICK M \in Nat \ {0} : M = Word
  BY PowIs, JackpotAssumption DEF Word
<1>6. v \in Nat /\ v < M /\ rank \in Nat \ {0}
  BY <1>4, <1>5
<1>7. PICK a : a = v % rank /\ a \in 0..rank - 1
  BY <1>6, Division
<1>8. PICK s \in Nat : s = rank - 1 /\ s < rank
  BY <1>4
<1>9. PICK h : h = mul_hi(s, v)
  OBVIOUS
<1>10. h \in Nat /\ h < s
  <2>1. PICK y \in Nat : y = s * v
    <3>1. s * v \in Nat
      BY <1>6, <1>8
    <3>2. QED
      BY <3>1
  <2>2. PICK q \in Nat, r \in 0..M - 1 : q = y \div M /\ r = y % M /\ y = M * q + r
    BY Divided
  <2>3. h = q
    BY <1>5, <1>9, <2>1, <2>2 DEF mul_hi
  <2>4. s * v + s <= s * M
    <3>1. s \in Nat \ {0} /\ v \in Int /\ M \in Int
      BY <1>4, <1>6, <1>8
    <3>2. QED
      BY <1>6, <3>1, Products
  <2>5. ASSUME q >= s PROVE FALSE
    <3>1. M * q >= M * s
      <4>1. CASE q = s
        BY <4>1
      <4>2. CASE q # s
        <5>1. s < q /\ s \in Int /\ q \in Int
          BY <2>5, <4>2
        <5>2. M * s + M <= M * q
          BY <5>1, Products
        <5>3. M * s \in Int /\ M * q \in Int
          OBVIOUS
        <5>4. QED
          BY <5>2, <5>3
      <4>3. QED
        BY <4>1, <4>2
    <3>2. PICK t \in Nat : t = M * s /\ t = s * M
      OBVIOUS
    <3>3. PICK u \in Nat : u = M * q
      OBVIOUS
    <3>4. s > 0
      BY <1>4, <1>8
    <3>5. QED
      BY <2>1, <2>2, <2>4, <3>1, <3>2, <3>3, <3>4
  <2>6. QED
    BY <2>2, <2>3, <2>5
<1>11. 1 + h \in Nat /\ 1 + h < Pow2[e] /\ a \in Nat /\ a < Pow2[e]
  BY <1>1, <1>4, <1>7, <1>8, <1>10
<1>12. Uint(a) \subseteq 0..e - 1 /\ Uint(1 + h) \subseteq 0..e - 1
  BY <1>3, <1>11, LowBits
<1>13. PICK bits : bits = Xor(Uint(a), Uint(1 + h)) /\ bits \subseteq 0..e - 1
  BY <1>12 DEF Xor
<1>14. Number(bits) \in 0..rank - 1
  BY <1>1, <1>3, <1>13, NumberBelow
<1>15. PermPair(v, rank) = <<a, Number(bits)>>
  BY <1>7, <1>8, <1>9, <1>13 DEF PermPair
<1>16. QED
  BY <1>7, <1>14, <1>15

-----------------------------------------------------------------------------
\* Widths: seven-bit matrices, eight-bit noised operands.

\* An entry of the uniform matrix.
LEMMA UniformSmall ==
  ASSUME NEW label \in Nat, NEW key \in Nat, NEW cols, WholeDigests(cols), NEW row \in Nat,
         NEW j \in 1..cols
  PROVE  UniformAt(label, key, cols, row, j) \in -32..31
<1>1. PICK H \in Nat \ {0}, c \in Nat \ {0} : H = HashBytes /\ c = cols \div H
  BY DigestCount
<1>2. j - 1 \in Nat
  BY DEF WholeDigests
<1>3. PICK q \in Nat, r \in 0..H - 1 : q = (j - 1) \div H /\ r = (j - 1) % H /\ j - 1 = H * q + r
  BY <1>2, Divided
<1>4. PICK i \in Nat : i = row * c + q
  <2>1. row * c \in Nat
    OBVIOUS
  <2>2. row * c + q \in Nat
    BY <2>1
  <2>3. QED
    BY <2>2
<1>5. 1 + r \in 1..HashBytes
  BY <1>1
<1>6. PICK z \in Nat : z = 0
  OBVIOUS
<1>7. PICK v : v = get_random_hash(i, label, key, z)[1 + r] /\ v \in Nat
  <2>1. Word \in Nat \ {0} /\ get_random_hash(i, label, key, z)[1 + r] \in 0..Word - 1
    BY <1>5, HashWord
  <2>2. QED
    BY <2>1
<1>8. UniformAt(label, key, cols, row, j) = (v % 64) - 32
  BY <1>1, <1>3, <1>4, <1>6, <1>7 DEF UniformAt
<1>9. (v % 64) - 32 \in -32..31
  BY <1>7
<1>10. QED
  BY <1>8, <1>9

\* A pair of the permutation matrix.
TwoColumns(rank, p) == \E a \in 0..rank - 1, b \in 0..rank - 1 : p = <<a, b>>

\* Every pair it draws names two columns below the rank.
LEMMA PermAtIs ==
  ASSUME NEW label \in Nat, NEW key \in Nat, NEW rank, PowerRank(rank), NEW row \in Nat \ {0}
  PROVE  TwoColumns(rank, PermAt(label, key, rank, row))
<1>1. PICK H \in Nat \ {0} : H = HashBytes
  BY JackpotAssumption
<1>2. row - 1 \in Nat
  OBVIOUS
<1>3. PICK q \in Nat, r \in 0..H - 1 : q = (row - 1) \div H /\ r = (row - 1) % H /\ row - 1 = H * q + r
  BY <1>2, Divided
<1>4. PICK z \in Nat : z = 1
  OBVIOUS
<1>5. 1 + r \in 1..HashBytes
  BY <1>1
<1>6. PICK v : v = get_random_hash(q, label, key, z)[1 + r] /\ v \in 0..Word - 1
  BY <1>5, HashWord
<1>7. PermAt(label, key, rank, row) = PermPair(v, rank)
  BY <1>1, <1>3, <1>4, <1>6 DEF PermAt
<1>8. \E a \in 0..rank - 1, b \in 0..rank - 1 : PermPair(v, rank) = <<a, b>>
  BY <1>6, PairWithin
<1>9. QED
  BY <1>7, <1>8 DEF TwoColumns

\* Seven bits, as a signed number; eight take every sum of one with two of the
\* noise.
LEMMA Int7Is ==
  ASSUME NEW byte \in 0..255
  PROVE  Int7(byte) \in -64..63
<1>1. PICK r \in 0..127 : r = byte % 128
  OBVIOUS
<1>2. (byte \div 64) % 2 = IF r >= 64 THEN 1 ELSE 0
  BY <1>1
<1>3. Int7(byte) = r - 128 * (IF r >= 64 THEN 1 ELSE 0)
  BY <1>1, <1>2 DEF Int7
<1>4. QED
  BY <1>1, <1>3

\* A number of eight bits is its own int8.
LEMMA Int8Is ==
  ASSUME NEW x \in -128..127
  PROVE  Int8(x) = x
<1>1. (x + 128) % 256 = x + 128
  OBVIOUS
<1>2. QED
  BY <1>1 DEF Int8

\* A matrix of seven-bit numbers.
Dense(rows, cols, A) ==
  /\ A = [i \in 1..rows |-> A[i]] /\ \A i \in 1..rows : A[i] = [j \in 1..cols |-> A[i][j]]
  /\ \A i \in 1..rows, j \in 1..cols : A[i][j] \in -64..63

\* derive_matrix gives one, of the shape asked for.
LEMMA DerivedDense ==
  ASSUME NEW rows \in Nat \ {0}, NEW cols \in Nat \ {0}, NEW s \in Nat, NEW tag \in Nat
  PROVE  Dense(rows, cols, derive_matrix(s, rows, cols, tag))
<1>1. PICK t : t = [i \in 1..rows |-> [j \in 1..cols |-> Int7(Xof(tag, s, (i - 1) * cols + j))]]
  OBVIOUS
<1>2. /\ rows \in Nat /\ cols \in Nat
      /\ t = [i \in 1..rows |-> t[i]]
      /\ \A i \in 1..rows : t[i] = [j \in 1..cols |-> t[i][j]]
  BY <1>1
<1>3. <<>> \o [i \in 1..rows |-> <<>> \o t[i]] = t
  BY <1>2, MatrixRows
<1>4. derive_matrix(s, rows, cols, tag)
        = <<>> \o [i \in 1..rows |-> <<>> \o [j \in 1..cols |-> Int7(Xof(tag, s, (i - 1) * cols + j))]]
  BY DEF derive_matrix, Matrix
<1>5. derive_matrix(s, rows, cols, tag) = t
  BY <1>1, <1>3, <1>4
<1>6. ASSUME NEW x \in Nat PROVE Xof(tag, s, x) \in 0..255
  <2>1. PICK a \in Nat : a = x * x * 19
    <3>1. x * x \in Nat
      OBVIOUS
    <3>2. x * x * 19 \in Nat
      BY <3>1
    <3>3. QED
      BY <3>2
  <2>2. Xof(tag, s, x) = (s * 89 + tag * 151 + a + x * 67) % 256
    BY <2>1 DEF Xof
  <2>3. QED
    BY <2>2
<1>7. ASSUME NEW i \in 1..rows, NEW j \in 1..cols PROVE t[i][j] \in -64..63
  <2>1. PICK x \in Nat : x = (i - 1) * cols + j
    <3>1. (i - 1) * cols + j \in 1..rows * cols /\ rows * cols \in Nat
      BY EntryPlace
    <3>2. QED
      BY <3>1
  <2>2. t[i][j] = Int7(Xof(tag, s, x))
    BY <1>1, <2>1
  <2>3. PICK y \in 0..255 : y = Xof(tag, s, x)
    BY <1>6
  <2>4. Int7(y) \in -64..63
    BY Int7Is
  <2>5. QED
    BY <2>2, <2>3, <2>4
<1>8. QED
  BY <1>2, <1>5, <1>7 DEF Dense

\* A row, what is drawn for it, and the pairs it is gathered with.
Noisy(dense, pool, pairs, k, rank) ==
  /\ k \in Nat /\ rank \in Nat
  /\ dense = [l \in 1..k |-> dense[l]] /\ \A l \in 1..k : dense[l] \in -64..63
  /\ \A j \in 1..rank : pool[j] \in -32..31
  /\ pairs = [l \in 1..k |-> pairs[l]]
  /\ \A l \in 1..k : TwoColumns(rank, pairs[l])

Overlay(dense, pool, pairs, k) ==
  [l \in 1..k |-> dense[l] + pool[pairs[l][1] + 1] - pool[pairs[l][2] + 1]]

\* The difference of two draws has seven bits, and the noised entry eight.
LEMMA OverlaySmall ==
  ASSUME NEW dense, NEW pool, NEW pairs, NEW k, NEW rank, Noisy(dense, pool, pairs, k, rank),
         NEW l \in 1..k
  PROVE  /\ pool[pairs[l][1] + 1] - pool[pairs[l][2] + 1] \in -63..63
         /\ dense[l] + pool[pairs[l][1] + 1] - pool[pairs[l][2] + 1] \in -128..127
         /\ dense[l] + (pool[pairs[l][1] + 1] - pool[pairs[l][2] + 1])
              = dense[l] + pool[pairs[l][1] + 1] - pool[pairs[l][2] + 1]
<1>1. PICK a \in 0..rank - 1, b \in 0..rank - 1 : pairs[l] = <<a, b>>
  BY DEF Noisy, TwoColumns
<1>2. a + 1 \in 1..rank /\ b + 1 \in 1..rank
  BY DEF Noisy
<1>3. PICK x \in -32..31, y \in -32..31, d \in -64..63 :
        x = pool[a + 1] /\ y = pool[b + 1] /\ d = dense[l]
  BY <1>2 DEF Noisy
<1>4. pairs[l][1] = a /\ pairs[l][2] = b
  BY <1>1
<1>5. x - y \in -63..63 /\ d + x - y \in -128..127 /\ d + (x - y) = d + x - y
  OBVIOUS
<1>6. pool[pairs[l][1] + 1] = x /\ pool[pairs[l][2] + 1] = y /\ dense[l] = d
  BY <1>3, <1>4
<1>7. QED
  BY <1>5, <1>6

\* The overlay on the whole matrix, wrapped to int8.
LEMMA AppliedIs ==
  ASSUME NEW dense, NEW pool, NEW pairs, NEW k, NEW rank, Noisy(dense, pool, pairs, k, rank)
  PROVE  apply_sparse_noise(dense, pool, pairs) = Overlay(dense, pool, pairs, k)
<1>1. PICK f : f = [l \in 1..k |-> Int8(dense[l] + pool[pairs[l][1] + 1] - pool[pairs[l][2] + 1])]
  OBVIOUS
<1>2. Len(dense) = k /\ k \in Nat
  BY ListIs DEF Noisy
<1>3. apply_sparse_noise(dense, pool, pairs) = <<>> \o f
  BY <1>1, <1>2 DEF apply_sparse_noise
<1>4. <<>> \o f = f
  <2>1. f = [l \in 1..k |-> f[l]]
    BY <1>1
  <2>2. QED
    BY <1>2, <2>1, ListIs
<1>5. ASSUME NEW l \in 1..k
      PROVE  f[l] = dense[l] + pool[pairs[l][1] + 1] - pool[pairs[l][2] + 1]
  <2>1. PICK x : x = dense[l] + pool[pairs[l][1] + 1] - pool[pairs[l][2] + 1] /\ x \in -128..127
    BY OverlaySmall
  <2>2. f[l] = Int8(x)
    BY <1>1, <2>1
  <2>3. QED
    BY <2>1, <2>2, Int8Is
<1>6. f = Overlay(dense, pool, pairs, k)
  BY <1>1, <1>5 DEF Overlay
<1>7. QED
  BY <1>3, <1>4, <1>6

\* The noise of the row on the CPU, added to it.
LEMMA AddedIs ==
  ASSUME NEW dense, NEW pool, NEW pairs, NEW k, NEW rank, Noisy(dense, pool, pairs, k, rank)
  PROVE  [l \in 1..k |-> dense[l] + matvec_sparse_perm(pairs, pool)[l]] = Overlay(dense, pool, pairs, k)
<1>1. PICK f : f = [l \in 1..k |-> Int8(pool[pairs[l][1] + 1] - pool[pairs[l][2] + 1])]
  OBVIOUS
<1>2. Len(pairs) = k /\ k \in Nat
  BY ListIs DEF Noisy
<1>3. matvec_sparse_perm(pairs, pool) = <<>> \o f
  BY <1>1, <1>2 DEF matvec_sparse_perm
<1>4. <<>> \o f = f
  <2>1. f = [l \in 1..k |-> f[l]]
    BY <1>1
  <2>2. QED
    BY <1>2, <2>1, ListIs
<1>5. ASSUME NEW l \in 1..k
      PROVE  dense[l] + f[l] = dense[l] + pool[pairs[l][1] + 1] - pool[pairs[l][2] + 1]
  <2>1. PICK x \in -63..63 : x = pool[pairs[l][1] + 1] - pool[pairs[l][2] + 1]
    BY OverlaySmall
  <2>2. x \in -128..127
    OBVIOUS
  <2>3. f[l] = x
    BY <1>1, <2>1, <2>2, Int8Is
  <2>4. dense[l] + x = dense[l] + pool[pairs[l][1] + 1] - pool[pairs[l][2] + 1]
    BY <2>1, OverlaySmall
  <2>5. QED
    BY <2>3, <2>4
<1>6. QED
  BY <1>3, <1>4, <1>5 DEF Overlay

-----------------------------------------------------------------------------
\* The operand of the CPU's evaluation: one noised row per index.

\* One operand: a matrix with its noise's label and key, and some of its rows.
Operand(mat, count, k, rank, label, key, indices) ==
  /\ label \in Nat /\ key \in Nat /\ WholeDigests(rank) /\ WholeDigests(k) /\ PowerRank(rank)
  /\ count \in Nat \ {0} /\ Dense(count, k, mat)
  /\ RowsWithin(count, indices) /\ ToSet(indices) # {}

UniformOf(label, key, rank, row) == [j \in 1..rank |-> UniformAt(label, key, rank, row, j)]
PairsOf(label, key, k, rank)     == [l \in 1..k |-> PermAt(label, key, rank, l)]

NoisedRow(mat, k, rank, label, key, row) ==
  Overlay(mat[row + 1], UniformOf(label, key, rank, row), PairsOf(label, key, k, rank), k)

\* The rows of a candidate, noised.
NoisedRows(mat, k, rank, label, key, indices) ==
  [i \in 1..Len(indices) |-> NoisedRow(mat, k, rank, label, key, indices[i])]

\* Its rows are rows of the matrix, and there is one.
LEMMA OperandRows ==
  ASSUME NEW mat, NEW count, NEW k, NEW rank, NEW label, NEW key, NEW indices,
         Operand(mat, count, k, rank, label, key, indices)
  PROVE  /\ indices \in Seq(Nat) /\ Len(indices) \in Nat \ {0} /\ Len(mat) = count
         /\ \A i \in 1..Len(indices) : indices[i] \in 0..count - 1 /\ indices[i] + 1 \in 1..count
<1>1. indices \in Seq(Nat) /\ ToSet(indices) \subseteq 0..count - 1
  BY DEF Operand, RowsWithin
<1>2. ASSUME NEW i \in 1..Len(indices) PROVE indices[i] \in 0..count - 1
  <2>1. indices[i] \in ToSet(indices)
    BY <1>1 DEF ToSet
  <2>2. QED
    BY <1>1, <2>1
<1>3. Len(indices) # 0
  <2>1. ToSet(indices) # {}
    BY DEF Operand
  <2>2. QED
    BY <1>1, <2>1 DEF ToSet
<1>4. count \in Nat /\ mat = [i \in 1..count |-> mat[i]]
  BY DEF Operand, Dense
<1>5. Len(mat) = count
  BY <1>4, ListIs
<1>6. \A i \in 1..Len(indices) : indices[i] + 1 \in 1..count
  BY <1>2, <1>4
<1>7. QED
  BY <1>1, <1>2, <1>3, <1>5, <1>6

\* A row of an operand, its draws and its pairs are such a row.
LEMMA RowNoisy ==
  ASSUME NEW mat, NEW count, NEW k, NEW rank, NEW label, NEW key, NEW indices,
         Operand(mat, count, k, rank, label, key, indices), NEW row \in 0..count - 1
  PROVE  Noisy(mat[row + 1], UniformOf(label, key, rank, row), PairsOf(label, key, k, rank), k, rank)
<1>1. /\ label \in Nat /\ key \in Nat /\ WholeDigests(rank) /\ PowerRank(rank)
      /\ k \in Nat /\ rank \in Nat /\ count \in Nat
  BY DEF Operand, WholeDigests
<1>2. row \in Nat /\ row + 1 \in 1..count
  BY <1>1
<1>3. PICK dense : dense = mat[row + 1]
  OBVIOUS
<1>4. dense = [l \in 1..k |-> dense[l]] /\ \A l \in 1..k : dense[l] \in -64..63
  BY <1>2, <1>3 DEF Operand, Dense
<1>5. PICK pool : pool = UniformOf(label, key, rank, row)
  OBVIOUS
<1>6. \A j \in 1..rank : pool[j] \in -32..31
  <2>1. \A j \in 1..rank : pool[j] = UniformAt(label, key, rank, row, j)
    BY <1>5 DEF UniformOf
  <2>2. \A j \in 1..rank : UniformAt(label, key, rank, row, j) \in -32..31
    BY <1>1, <1>2, UniformSmall
  <2>3. QED
    BY <2>1, <2>2
<1>7. PICK pairs : pairs = PairsOf(label, key, k, rank)
  OBVIOUS
<1>8. pairs = [l \in 1..k |-> pairs[l]] /\ \A l \in 1..k : pairs[l] = PermAt(label, key, rank, l)
  BY <1>7 DEF PairsOf
<1>9. ASSUME NEW l \in 1..k PROVE TwoColumns(rank, pairs[l])
  <2>1. l \in Nat \ {0}
    BY <1>1
  <2>2. TwoColumns(rank, PermAt(label, key, rank, l))
    BY <1>1, <2>1, PermAtIs
  <2>3. QED
    BY <1>8, <2>2
<1>10. Noisy(dense, pool, pairs, k, rank)
  BY <1>1, <1>4, <1>6, <1>8, <1>9 DEF Noisy
<1>11. QED
  BY <1>3, <1>5, <1>7, <1>10

\* On the CPU: the noise of the rows, added to them.
CpuStrip(mat, k, rank, label, key, indices) ==
  PlusRows(Rows(mat, indices),
           <<>> \o [u \in 1..Len(indices) |->
                      matvec_sparse_perm(generate_permutation_matrix(label, key, k, rank),
                                         generate_uniform_random_matrix(label, key, indices, rank)[u])])

\* They are the noised rows.
LEMMA CpuStripIs ==
  ASSUME NEW mat, NEW count, NEW k, NEW rank, NEW label, NEW key, NEW indices,
         Operand(mat, count, k, rank, label, key, indices)
  PROVE  CpuStrip(mat, k, rank, label, key, indices) = NoisedRows(mat, k, rank, label, key, indices)
<1>1. PICK n \in Nat \ {0} : n = Len(indices)
  BY OperandRows
<1>2. indices \in Seq(Nat) /\ \A i \in 1..n : indices[i] \in 0..count - 1 /\ indices[i] + 1 \in 1..count
  BY <1>1, OperandRows
<1>3. k \in Nat /\ WholeDigests(rank)
  BY DEF Operand, WholeDigests
<1>4. PICK x : x = [i \in 1..n |-> mat[indices[i] + 1]]
  OBVIOUS
<1>5. Rows(mat, indices) = x
  BY <1>1, <1>4 DEF Rows
<1>6. Len(x) = n
  <2>1. x = [i \in 1..n |-> x[i]]
    BY <1>4
  <2>2. QED
    BY <2>1, ListIs
<1>7. \A i \in 1..n : x[i] = mat[indices[i] + 1] /\ x[i] = [l \in 1..k |-> x[i][l]]
  <2>1. \A r \in 1..count : mat[r] = [l \in 1..k |-> mat[r][l]]
    BY DEF Operand, Dense
  <2>2. QED
    BY <1>2, <1>4, <2>1
<1>8. Len(x[1]) = k
  <2>1. 1 \in 1..n
    OBVIOUS
  <2>2. x[1] = [l \in 1..k |-> x[1][l]]
    BY <1>7, <2>1
  <2>3. QED
    BY <1>3, <2>2, ListIs
<1>9. PICK pairs : pairs = PairsOf(label, key, k, rank)
  OBVIOUS
<1>10. generate_permutation_matrix(label, key, k, rank) = pairs
  BY <1>3, <1>9, GeneratedPairs DEF PermRows, PairsOf
<1>11. PICK gen : gen = generate_uniform_random_matrix(label, key, indices, rank)
  OBVIOUS
<1>12. ASSUME NEW u \in 1..n PROVE gen[u] = UniformOf(label, key, rank, indices[u])
  <2>1. UniformRow(label, key, rank, indices[u], gen[u])
    BY <1>1, <1>2, <1>3, <1>11, GeneratedRow
  <2>2. QED
    BY <2>1 DEF UniformRow, UniformOf
<1>13. PICK y : y = [u \in 1..n |-> matvec_sparse_perm(pairs, gen[u])]
  OBVIOUS
<1>14. <<>> \o y = y
  <2>1. y = [u \in 1..n |-> y[u]]
    BY <1>13
  <2>2. QED
    BY <2>1, ListIs
<1>15. CpuStrip(mat, k, rank, label, key, indices) = PlusRows(x, y)
  BY <1>1, <1>5, <1>10, <1>11, <1>13, <1>14 DEF CpuStrip
<1>16. PICK t : t = [i \in 1..n |-> [l \in 1..k |-> x[i][l] + y[i][l]]]
  OBVIOUS
<1>17. PlusRows(x, y) = t
  <2>1. PlusRows(x, y) = <<>> \o [i \in 1..n |-> <<>> \o [l \in 1..k |-> x[i][l] + y[i][l]]]
    BY <1>6, <1>8 DEF PlusRows, Matrix
  <2>2. PlusRows(x, y) = <<>> \o [i \in 1..n |-> <<>> \o t[i]]
    BY <1>16, <2>1
  <2>3. n \in Nat /\ t = [i \in 1..n |-> t[i]] /\ \A i \in 1..n : t[i] = [l \in 1..k |-> t[i][l]]
    BY <1>16
  <2>4. <<>> \o [i \in 1..n |-> <<>> \o t[i]] = t
    BY <1>3, <2>3, MatrixRows
  <2>5. QED
    BY <2>2, <2>4
<1>18. ASSUME NEW i \in 1..n PROVE t[i] = NoisedRow(mat, k, rank, label, key, indices[i])
  <2>1. PICK row : row = indices[i] /\ row \in 0..count - 1
    BY <1>2
  <2>2. PICK dense, pool : dense = mat[row + 1] /\ pool = UniformOf(label, key, rank, row)
    OBVIOUS
  <2>3. Noisy(dense, pool, pairs, k, rank)
    BY <1>9, <2>1, <2>2, RowNoisy
  <2>4. [l \in 1..k |-> dense[l] + matvec_sparse_perm(pairs, pool)[l]] = Overlay(dense, pool, pairs, k)
    BY <2>3, AddedIs
  <2>5. x[i] = dense /\ y[i] = matvec_sparse_perm(pairs, pool)
    BY <1>7, <1>12, <1>13, <2>1, <2>2
  <2>6. t[i] = [l \in 1..k |-> dense[l] + matvec_sparse_perm(pairs, pool)[l]]
    BY <1>16, <2>5
  <2>7. QED
    BY <1>9, <2>1, <2>2, <2>4, <2>6 DEF NoisedRow
<1>19. QED
  BY <1>1, <1>15, <1>16, <1>17, <1>18 DEF NoisedRows

-----------------------------------------------------------------------------
\* The slots of a round, the strips taken from them and their packing, which
\* loses nothing because every entry fits its width.

\* The tables of the device hold what the CPU draws.
LEMMA TablesAre ==
  ASSUME NEW mat, NEW count, NEW k, NEW rank, NEW label, NEW key, NEW indices,
         Operand(mat, count, k, rank, label, key, indices)
  PROVE  /\ \A row \in 0..count - 1 :
              uniform(label, key, Len(mat), rank)[row + 1] = UniformOf(label, key, rank, row)
         /\ perm(label, key, k, rank) = PairsOf(label, key, k, rank)
<1>1. Len(mat) = count /\ count \in Nat /\ WholeDigests(rank) /\ WholeDigests(k)
  BY OperandRows DEF Operand
<1>2. PICK x : x = uniform(label, key, Len(mat), rank)
  OBVIOUS
<1>3. UniformTable(label, key, count, rank, x)
  BY <1>1, <1>2, UniformRows
<1>4. x = [i \in 1..count |-> [j \in 1..rank |-> UniformAt(label, key, rank, i - 1, j)]]
  BY <1>3 DEF UniformTable
<1>5. ASSUME NEW row \in 0..count - 1 PROVE x[row + 1] = UniformOf(label, key, rank, row)
  <2>1. row + 1 \in 1..count /\ (row + 1) - 1 = row
    BY <1>1
  <2>2. PICK i : i = row + 1 /\ i \in 1..count /\ i - 1 = row
    BY <2>1
  <2>3. x[i] = [j \in 1..rank |-> UniformAt(label, key, rank, i - 1, j)]
    BY <1>4, <2>2
  <2>4. QED
    BY <2>2, <2>3 DEF UniformOf
<1>6. PermRows(label, key, k, rank, perm(label, key, k, rank))
  BY <1>1, DevicePairs
<1>7. QED
  BY <1>2, <1>5, <1>6 DEF PermRows, PairsOf

\* What the coopmat kernel is given.
SlotOf(mat, k, rank, label, key) ==
  [i \in 1..Len(mat) |-> apply_sparse_noise(mat[i], uniform(label, key, Len(mat), rank)[i],
                                            perm(label, key, k, rank))]

\* Its rows are the noised rows: the int8 loses nothing.
LEMMA SlotIs ==
  ASSUME NEW mat, NEW count, NEW k, NEW rank, NEW label, NEW key, NEW indices,
         Operand(mat, count, k, rank, label, key, indices)
  PROVE  Rows(SlotOf(mat, k, rank, label, key), indices) = NoisedRows(mat, k, rank, label, key, indices)
<1>1. PICK n \in Nat \ {0} : n = Len(indices)
  BY OperandRows
<1>2. \A i \in 1..n : indices[i] \in 0..count - 1 /\ indices[i] + 1 \in 1..count
  BY <1>1, OperandRows
<1>3. Len(mat) = count
  BY OperandRows
<1>4. PICK pairs : pairs = PairsOf(label, key, k, rank)
  OBVIOUS
<1>5. PICK slot : slot = SlotOf(mat, k, rank, label, key)
  OBVIOUS
<1>6. ASSUME NEW row \in 0..count - 1, row + 1 \in 1..count
      PROVE  slot[row + 1] = NoisedRow(mat, k, rank, label, key, row)
  <2>1. PICK dense, pool : dense = mat[row + 1] /\ pool = UniformOf(label, key, rank, row)
    OBVIOUS
  <2>2. Noisy(dense, pool, pairs, k, rank)
    BY <1>4, <2>1, RowNoisy
  <2>3. apply_sparse_noise(dense, pool, pairs) = Overlay(dense, pool, pairs, k)
    BY <2>2, AppliedIs
  <2>4. /\ uniform(label, key, Len(mat), rank)[row + 1] = pool
        /\ perm(label, key, k, rank) = pairs
    BY <1>4, <2>1, TablesAre
  <2>5. slot[row + 1] = apply_sparse_noise(dense, pool, pairs)
    BY <1>3, <1>5, <1>6, <2>1, <2>4 DEF SlotOf
  <2>6. QED
    BY <1>4, <2>1, <2>3, <2>5 DEF NoisedRow
<1>7. Rows(slot, indices) = [i \in 1..n |-> slot[indices[i] + 1]]
  BY <1>1 DEF Rows
<1>8. \A i \in 1..n : slot[indices[i] + 1] = NoisedRow(mat, k, rank, label, key, indices[i])
  BY <1>2, <1>6
<1>9. QED
  BY <1>1, <1>5, <1>7, <1>8 DEF NoisedRows

\* What the other kernels work on.
StripOf(mat, k, rank, label, key, indices) ==
  Strips(mat, uniform(label, key, Len(mat), rank), perm(label, key, k, rank), indices)

\* It is the noised rows as well.
LEMMA StripsIs ==
  ASSUME NEW mat, NEW count, NEW k, NEW rank, NEW label, NEW key, NEW indices,
         Operand(mat, count, k, rank, label, key, indices)
  PROVE  StripOf(mat, k, rank, label, key, indices) = NoisedRows(mat, k, rank, label, key, indices)
<1>1. PICK n \in Nat \ {0} : n = Len(indices)
  BY OperandRows
<1>2. \A i \in 1..n : indices[i] \in 0..count - 1
  BY <1>1, OperandRows
<1>3. k \in Nat
  BY DEF Operand, WholeDigests
<1>4. PICK pairs : pairs = PairsOf(label, key, k, rank)
  OBVIOUS
<1>5. PICK pool : pool = uniform(label, key, Len(mat), rank)
  OBVIOUS
<1>6. /\ \A row \in 0..count - 1 : pool[row + 1] = UniformOf(label, key, rank, row)
      /\ perm(label, key, k, rank) = pairs
  BY <1>4, <1>5, TablesAre
<1>7. Len(pairs) = k
  <2>1. pairs = [l \in 1..k |-> pairs[l]]
    BY <1>4 DEF PairsOf
  <2>2. QED
    BY <1>3, <2>1, ListIs
<1>8. PICK t : t = [i \in 1..n |-> [l \in 1..k |->
                     mat[indices[i] + 1][l] + pool[indices[i] + 1][pairs[l][1] + 1]
                                            - pool[indices[i] + 1][pairs[l][2] + 1]]]
  OBVIOUS
<1>9. StripOf(mat, k, rank, label, key, indices) = <<>> \o [i \in 1..n |-> <<>> \o [l \in 1..k |->
                     mat[indices[i] + 1][l] + pool[indices[i] + 1][pairs[l][1] + 1]
                                            - pool[indices[i] + 1][pairs[l][2] + 1]]]
  BY <1>1, <1>5, <1>6, <1>7 DEF StripOf, Strips, Matrix
<1>10. StripOf(mat, k, rank, label, key, indices) = <<>> \o [i \in 1..n |-> <<>> \o t[i]]
  BY <1>8, <1>9
<1>11. <<>> \o [i \in 1..n |-> <<>> \o t[i]] = t
  <2>1. n \in Nat /\ t = [i \in 1..n |-> t[i]] /\ \A i \in 1..n : t[i] = [l \in 1..k |-> t[i][l]]
    BY <1>8
  <2>2. QED
    BY <1>3, <2>1, MatrixRows
<1>12. ASSUME NEW i \in 1..n PROVE t[i] = NoisedRow(mat, k, rank, label, key, indices[i])
  <2>1. PICK row : row = indices[i] /\ row \in 0..count - 1
    BY <1>2
  <2>2. pool[row + 1] = UniformOf(label, key, rank, row)
    BY <1>6, <2>1
  <2>3. t[i] = [l \in 1..k |-> mat[row + 1][l] + pool[row + 1][pairs[l][1] + 1]
                                               - pool[row + 1][pairs[l][2] + 1]]
    BY <1>8, <2>1
  <2>4. QED
    BY <1>4, <2>1, <2>2, <2>3 DEF NoisedRow, Overlay
<1>13. QED
  BY <1>1, <1>8, <1>10, <1>11, <1>12 DEF NoisedRows

\* The strips fit into bytes.
LEMMA PackedIs ==
  ASSUME NEW mat, NEW count, NEW k, NEW rank, NEW label, NEW key, NEW indices,
         Operand(mat, count, k, rank, label, key, indices)
  PROVE  Packed(NoisedRows(mat, k, rank, label, key, indices))
           = NoisedRows(mat, k, rank, label, key, indices)
<1>1. PICK n \in Nat \ {0} : n = Len(indices)
  BY OperandRows
<1>2. \A i \in 1..n : indices[i] \in 0..count - 1
  BY <1>1, OperandRows
<1>3. k \in Nat
  BY DEF Operand, WholeDigests
<1>4. PICK t : t = NoisedRows(mat, k, rank, label, key, indices)
  OBVIOUS
<1>5. t = [i \in 1..n |-> NoisedRow(mat, k, rank, label, key, indices[i])]
  BY <1>1, <1>4 DEF NoisedRows
<1>6. \A i \in 1..n : t[i] = [l \in 1..k |-> t[i][l]]
  BY <1>5 DEF NoisedRow, Overlay
<1>7. Len(t) = n /\ Len(t[1]) = k
  <2>1. t = [i \in 1..n |-> t[i]]
    BY <1>5
  <2>2. 1 \in 1..n
    OBVIOUS
  <2>3. t[1] = [l \in 1..k |-> t[1][l]]
    BY <1>6, <2>2
  <2>4. QED
    BY <1>3, <2>1, <2>3, ListIs
<1>8. ASSUME NEW i \in 1..n, NEW l \in 1..k PROVE Int8(t[i][l]) = t[i][l]
  <2>1. PICK row : row = indices[i] /\ row \in 0..count - 1
    BY <1>2
  <2>2. PICK dense, pool, pairs : /\ dense = mat[row + 1] /\ pool = UniformOf(label, key, rank, row)
                                  /\ pairs = PairsOf(label, key, k, rank)
    OBVIOUS
  <2>3. Noisy(dense, pool, pairs, k, rank)
    BY <2>1, <2>2, RowNoisy
  <2>4. PICK x : x = dense[l] + pool[pairs[l][1] + 1] - pool[pairs[l][2] + 1] /\ x \in -128..127
    BY <2>3, OverlaySmall
  <2>5. t[i] = Overlay(dense, pool, pairs, k)
    BY <1>5, <2>1, <2>2 DEF NoisedRow
  <2>6. t[i][l] = x
    BY <2>4, <2>5 DEF Overlay
  <2>7. QED
    BY <2>4, <2>6, Int8Is
<1>9. PICK u : u = [i \in 1..n |-> [l \in 1..k |-> Int8(t[i][l])]]
  OBVIOUS
<1>10. Packed(t) = <<>> \o [i \in 1..n |-> <<>> \o [l \in 1..k |-> Int8(t[i][l])]]
  BY <1>7 DEF Packed, Matrix
<1>11. Packed(t) = <<>> \o [i \in 1..n |-> <<>> \o u[i]]
  BY <1>9, <1>10
<1>12. <<>> \o [i \in 1..n |-> <<>> \o u[i]] = u
  <2>1. n \in Nat /\ u = [i \in 1..n |-> u[i]] /\ \A i \in 1..n : u[i] = [l \in 1..k |-> u[i][l]]
    BY <1>9
  <2>2. QED
    BY <1>3, <2>1, MatrixRows
<1>13. \A i \in 1..n : u[i] = t[i]
  <2>1. ASSUME NEW i \in 1..n PROVE u[i] = t[i]
    <3>1. u[i] = [l \in 1..k |-> t[i][l]]
      BY <1>8, <1>9
    <3>2. QED
      BY <1>6, <3>1
  <2>2. QED
    BY <2>1
<1>14. u = t
  BY <1>5, <1>9, <1>13
<1>15. QED
  BY <1>4, <1>11, <1>12, <1>14

-----------------------------------------------------------------------------
\* Counting modulo two over the tiles of a tensor.

\* Odd numbers of elements.
Odd(S) == Cardinality(S) % 2 = 1

\* A union of disjoint sets is odd when just one of them is.
LEMMA OddSplit ==
  ASSUME NEW S, NEW T, IsFiniteSet(S), IsFiniteSet(T), S \cap T = {}
  PROVE  IsFiniteSet(S \cup T) /\ (Odd(S \cup T) <=> (Odd(S) <=> ~Odd(T)))
<1>1. PICK a \in Nat, b \in Nat : a = Cardinality(S) /\ b = Cardinality(T)
  BY FS_CardinalityType
<1>2. Cardinality(S \cap T) = 0
  BY FS_EmptySet
<1>3. IsFiniteSet(S \cup T) /\ Cardinality(S \cup T) = a + b
  <2>1. IsFiniteSet(S \cup T)
    BY FS_Union
  <2>2. Cardinality(S \cup T) = Cardinality(S) + Cardinality(T) - Cardinality(S \cap T)
    BY FS_Union
  <2>3. QED
    BY <1>1, <1>2, <2>1, <2>2
<1>4. (a + b) % 2 = 1 <=> (a % 2 = 1 <=> ~(b % 2 = 1))
  OBVIOUS
<1>5. QED
  BY <1>1, <1>3, <1>4 DEF Odd

\* The product of a tile's rows and columns, numbered row by row.
Cell(c, B, o) == <<1 + ((c - 1) \div B), o + 1 + ((c - 1) % B)>>

CellAt(h, B, o, c) ==
  \E i \in 1..h, r \in 0..B - 1 : Cell(c, B, o) = <<i, o + 1 + r>> /\ c = (i - 1) * B + r + 1

\* Each number names a cell of the tile, and is made of its row and column.
LEMMA CellIs ==
  ASSUME NEW h \in Nat, NEW B \in Nat \ {0}, NEW o \in Nat, NEW c \in 1..h * B
  PROVE  CellAt(h, B, o, c)
<1>1. PICK n \in Nat : n = h * B
  <2>1. h * B \in Nat
    OBVIOUS
  <2>2. QED
    BY <2>1
<1>2. PICK y \in Nat : y = c - 1 /\ y < n
  BY <1>1
<1>3. PICK q \in Nat, r \in 0..B - 1 : q = y \div B /\ r = y % B /\ y = B * q + r
  BY Divided
<1>4. q < h
  <2>1. PICK z \in Nat : z = B * q
    OBVIOUS
  <2>2. z < n
    BY <1>2, <1>3, <2>1
  <2>3. ASSUME q >= h PROVE FALSE
    <3>1. CASE q = h
      <4>1. z = n
        BY <1>1, <2>1, <3>1
      <4>2. QED
        BY <2>2, <4>1
    <3>2. CASE q # h
      <4>1. h < q /\ h \in Int /\ q \in Int
        BY <2>3, <3>2
      <4>2. B * h + B <= B * q
        BY <4>1, Products
      <4>3. B * h = n
        BY <1>1
      <4>4. QED
        BY <2>1, <2>2, <4>2, <4>3
    <3>3. QED
      BY <3>1, <3>2
  <2>4. QED
    BY <2>3
<1>5. PICK i : i = 1 + q /\ i \in 1..h /\ i - 1 = q
  BY <1>4
<1>6. Cell(c, B, o) = <<i, o + 1 + r>>
  BY <1>2, <1>3, <1>5 DEF Cell
<1>7. c = (i - 1) * B + r + 1
  <2>1. (i - 1) * B = B * q
    BY <1>5
  <2>2. QED
    BY <1>2, <1>3, <2>1
<1>8. QED
  BY <1>5, <1>6, <1>7 DEF CellAt

HasCell(h, B, o, t) == \E c \in 1..h * B : Cell(c, B, o) = t

\* Each cell of the tile has a number.
LEMMA CellBack ==
  ASSUME NEW h \in Nat, NEW B \in Nat \ {0}, NEW o \in Nat, NEW i \in 1..h, NEW j \in o + 1..o + B
  PROVE  HasCell(h, B, o, <<i, j>>)
<1>1. PICK r \in 0..B - 1 : r = j - o - 1 /\ o + 1 + r = j
  <2>1. j - o - 1 \in 0..B - 1 /\ o + 1 + (j - o - 1) = j
    OBVIOUS
  <2>2. QED
    BY <2>1
<1>2. h \in Nat \ {0} /\ r + 1 \in 1..B
  OBVIOUS
<1>3. (i - 1) * B + (r + 1) \in 1..h * B
  BY <1>2, EntryPlace
<1>4. PICK q \in Nat : q = i - 1 /\ 1 + q = i
  OBVIOUS
<1>5. PICK y \in Nat : y = B * q + r
  <2>1. B * q \in Nat
    OBVIOUS
  <2>2. QED
    BY <2>1
<1>6. PICK c : c = y + 1 /\ c \in 1..h * B /\ c - 1 = y
  <2>1. (i - 1) * B = B * q
    BY <1>4
  <2>2. PICK z \in Nat : z = B * q
    OBVIOUS
  <2>3. (i - 1) * B + (r + 1) = y + 1
    BY <1>5, <2>1, <2>2
  <2>4. QED
    BY <1>3, <1>5, <2>3
<1>7. y \div B = q /\ y % B = r
  <2>1. q \in Int
    OBVIOUS
  <2>2. QED
    BY <1>5, <2>1, Quotient
<1>8. Cell(c, B, o) = <<i, j>>
  BY <1>1, <1>4, <1>6, <1>7 DEF Cell
<1>9. QED
  BY <1>6, <1>8 DEF HasCell

\* As many products of a tile have a bit as cells of its columns.
SameOdd(h, B, o, G) ==
  LET D == G \cap ((1..h) \X (o + 1..o + B))
  IN IsFiniteSet(D) /\ (Odd({c \in 1..h * B : Cell(c, B, o) \in G}) <=> Odd(D))

\* The numbering is one to one, so that the two counts are the same.
LEMMA CellsCount ==
  ASSUME NEW h \in Nat, NEW B \in Nat \ {0}, NEW o \in Nat, NEW G
  PROVE  SameOdd(h, B, o, G)
<1>1. PICK C : C = {c \in 1..h * B : Cell(c, B, o) \in G}
  OBVIOUS
<1>2. PICK D : D = G \cap ((1..h) \X (o + 1..o + B))
  OBVIOUS
<1>3. PICK f : f = [c \in C |-> Cell(c, B, o)]
  OBVIOUS
<1>4. f \in Bijection(C, D)
  <2>1. f \in [C -> D]
    <3>1. ASSUME NEW c \in C PROVE f[c] \in D
      <4>1. c \in 1..h * B /\ Cell(c, B, o) \in G
        BY <1>1
      <4>2. CellAt(h, B, o, c)
        BY <4>1, CellIs
      <4>3. PICK i \in 1..h, r \in 0..B - 1 : Cell(c, B, o) = <<i, o + 1 + r>>
        BY <4>2 DEF CellAt
      <4>4. o + 1 + r \in o + 1..o + B
        OBVIOUS
      <4>5. Cell(c, B, o) \in (1..h) \X (o + 1..o + B)
        BY <4>3, <4>4
      <4>6. QED
        BY <1>2, <1>3, <4>1, <4>5
    <3>2. QED
      BY <1>3, <3>1
  <2>2. ASSUME NEW a \in C, NEW b \in C, f[a] = f[b] PROVE a = b
    <3>1. a \in 1..h * B /\ b \in 1..h * B
      BY <1>1
    <3>2. CellAt(h, B, o, a) /\ CellAt(h, B, o, b)
      BY <3>1, CellIs
    <3>3. PICK i \in 1..h, r \in 0..B - 1 :
            Cell(a, B, o) = <<i, o + 1 + r>> /\ a = (i - 1) * B + r + 1
      BY <3>2 DEF CellAt
    <3>4. PICK u \in 1..h, v \in 0..B - 1 :
            Cell(b, B, o) = <<u, o + 1 + v>> /\ b = (u - 1) * B + v + 1
      BY <3>2 DEF CellAt
    <3>5. <<i, o + 1 + r>> = <<u, o + 1 + v>>
      BY <1>3, <2>2, <3>3, <3>4
    <3>6. i = u /\ o + 1 + r = o + 1 + v
      BY <3>5
    <3>7. r = v
      BY <3>6
    <3>8. QED
      BY <3>3, <3>4, <3>6, <3>7
  <2>3. ASSUME NEW t \in D PROVE \E c \in C : f[c] = t
    <3>1. PICK i \in 1..h, j \in o + 1..o + B : t = <<i, j>> /\ t \in G
      BY <1>2
    <3>2. HasCell(h, B, o, <<i, j>>)
      BY CellBack
    <3>3. PICK c \in 1..h * B : Cell(c, B, o) = t
      BY <3>1, <3>2 DEF HasCell
    <3>4. QED
      BY <1>1, <1>3, <3>1, <3>3
  <2>4. QED
    BY <2>1, <2>2, <2>3, Fun_IsBij
<1>5. IsFiniteSet(C)
  <2>1. h * B \in Int /\ 1 \in Int
    OBVIOUS
  <2>2. IsFiniteSet(1..h * B)
    BY <2>1, FS_Interval
  <2>3. QED
    BY <1>1, <2>2, FS_Subset
<1>6. IsFiniteSet(D) /\ Cardinality(D) = Cardinality(C)
  BY <1>4, <1>5, FS_Bijection, Fun_ExistsBij
<1>7. QED
  BY <1>1, <1>2, <1>6 DEF Odd, SameOdd

\* The columns of n tiles of TW, one after the other.
Columns(G, h, n) == G \cap ((1..h) \X (1..n))
TileOf(G, h, TW, w) == G \cap ((1..h) \X ((w - 1) * TW + 1..(w - 1) * TW + TW))

\* The tiles with an odd number are odd in number exactly when the whole is.
LEMMA TilesOdd ==
  ASSUME NEW h \in Nat, NEW TW \in Nat \ {0}, NEW G, NEW N \in Nat
  PROVE  Odd({w \in 1..N : Odd(TileOf(G, h, TW, w))}) <=> Odd(Columns(G, h, N * TW))
<1>1. PICK OT : OT = {w \in 1..N : Odd(TileOf(G, h, TW, w))}
  OBVIOUS
<1>2. PICK T : T = {n \in 0..N : /\ IsFiniteSet(Columns(G, h, n * TW)) /\ IsFiniteSet(OT \cap (1..n))
                                  /\ (Odd(OT \cap (1..n)) <=> Odd(Columns(G, h, n * TW)))}
  OBVIOUS
<1>3. 0 \in T
  <2>1. 0 * TW = 0 /\ 1..0 = {}
    OBVIOUS
  <2>2. Columns(G, h, 0 * TW) = {}
    BY <2>1 DEF Columns
  <2>3. OT \cap (1..0) = {}
    BY <2>1
  <2>4. 0 \in 0..N
    OBVIOUS
  <2>5. QED
    BY <1>2, <2>2, <2>3, <2>4, FS_EmptySet
<1>4. ASSUME NEW n \in 0..N - 1, n \in T PROVE n + 1 \in T
  <2>1. PICK p \in Nat : p = n * TW /\ (n + 1) * TW = p + TW
    <3>1. n \in Nat
      OBVIOUS
    <3>2. n * TW \in Nat /\ (n + 1) * TW = n * TW + TW
      BY <3>1
    <3>3. QED
      BY <3>2
  <2>2. PICK old, new, odds : /\ old = Columns(G, h, p) /\ new = TileOf(G, h, TW, n + 1)
                              /\ odds = OT \cap (1..n)
    OBVIOUS
  <2>3. IsFiniteSet(old) /\ IsFiniteSet(odds) /\ (Odd(odds) <=> Odd(old))
    BY <1>2, <1>4, <2>1, <2>2
  <2>4. new = G \cap ((1..h) \X (p + 1..p + TW))
    <3>1. ((n + 1) - 1) * TW = p
      BY <2>1
    <3>2. QED
      BY <2>2, <3>1 DEF TileOf
  <2>5. IsFiniteSet(new)
    <3>1. SameOdd(h, TW, p, G)
      BY CellsCount
    <3>2. QED
      BY <2>4, <3>1 DEF SameOdd
  <2>6. Columns(G, h, (n + 1) * TW) = old \cup new /\ old \cap new = {}
    <3>1. 1..p + TW = (1..p) \cup (p + 1..p + TW) /\ (1..p) \cap (p + 1..p + TW) = {}
      OBVIOUS
    <3>2. PICK L, R : L = 1..p /\ R = p + 1..p + TW
      OBVIOUS
    <3>3. 1..p + TW = L \cup R /\ L \cap R = {}
      BY <3>1, <3>2
    <3>4. old = G \cap ((1..h) \X L) /\ new = G \cap ((1..h) \X R)
      BY <2>2, <2>4, <3>2 DEF Columns
    <3>5. Columns(G, h, (n + 1) * TW) = G \cap ((1..h) \X (L \cup R))
      BY <2>1, <3>3 DEF Columns
    <3>6. QED
      BY <3>3, <3>4, <3>5
  <2>7. /\ IsFiniteSet(old \cup new)
        /\ Odd(old \cup new) <=> (Odd(old) <=> ~Odd(new))
    BY <2>3, <2>5, <2>6, OddSplit
  <2>8. n + 1 \in 1..N /\ n + 1 \in 0..N /\ 1..n + 1 = (1..n) \cup {n + 1} /\ n + 1 \notin 1..n
    OBVIOUS
  <2>9. n + 1 \in OT <=> Odd(new)
    BY <1>1, <2>2, <2>8
  <2>10. CASE Odd(new)
    <3>1. OT \cap (1..n + 1) = odds \cup {n + 1} /\ odds \cap {n + 1} = {}
      BY <2>2, <2>8, <2>9, <2>10
    <3>2. IsFiniteSet({n + 1}) /\ Odd({n + 1})
      <4>1. IsFiniteSet({n + 1}) /\ Cardinality({n + 1}) = 1
        BY FS_Singleton
      <4>2. QED
        BY <4>1 DEF Odd
    <3>3. /\ IsFiniteSet(odds \cup {n + 1})
          /\ Odd(odds \cup {n + 1}) <=> (Odd(odds) <=> ~Odd({n + 1}))
      BY <2>3, <3>1, <3>2, OddSplit
    <3>4. QED
      BY <1>2, <2>3, <2>6, <2>7, <2>8, <2>10, <3>1, <3>2, <3>3
  <2>11. CASE ~Odd(new)
    <3>1. OT \cap (1..n + 1) = odds
      BY <2>2, <2>8, <2>9, <2>11
    <3>2. QED
      BY <1>2, <2>3, <2>6, <2>7, <2>8, <2>11, <3>1
  <2>12. QED
    BY <2>10, <2>11
<1>5. \A n \in 0..N : n \in T
  BY <1>3, <1>4, Upwards
<1>6. N \in T
  BY <1>5
<1>7. OT \cap (1..N) = OT
  BY <1>1
<1>8. QED
  BY <1>1, <1>2, <1>6, <1>7

-----------------------------------------------------------------------------
\* The bits of a word, exclusive-or'ed tile by tile or over the whole row.

\* The bits that an odd number of words have.
OddBits(n, g) == {b \in 0..WordBits - 1 : Odd({c \in 1..n : b \in g[c]})}

\* The exclusive or of the words has those bits.
LEMMA XorAllIs ==
  ASSUME NEW n \in Nat, NEW g, g = [c \in 1..n |-> g[c]]
  PROVE  XorAll(<<>> \o g) = OddBits(n, g)
<1>1. <<>> \o g = g /\ Len(g) = n
  BY ListIs
<1>2. QED
  BY <1>1 DEF XorAll, Odd, OddBits

\* The products that have a bit.
BitCells(sa, sb, h, L, from, to, b) ==
  {x \in (1..h) \X (1..L) : b \in Uint(Dot(sa[x[1]], sb[x[2]], from, to))}

\* B of the columns, behind o others.
PartOf(sb, tile, L, B, o) ==
  /\ L \in Nat /\ B \in Nat \ {0} /\ o \in Nat /\ o + B <= L /\ Len(tile) = B
  /\ \A r \in 0..B - 1 : tile[1 + r] = sb[o + 1 + r]

\* What the tile of them comes to.
TileBits(sa, sb, h, L, from, to, B, o) ==
  {b \in 0..WordBits - 1 : Odd(BitCells(sa, sb, h, L, from, to, b) \cap ((1..h) \X (o + 1..o + B)))}

\* The exclusive or of a tile's products is odd counting over its cells.
LEMMA TileXorIs ==
  ASSUME NEW sa, NEW sb, NEW tile, NEW from, NEW to, NEW h \in Nat, Len(sa) = h, NEW L, NEW B, NEW o,
         PartOf(sb, tile, L, B, o)
  PROVE  TileXor(sa, tile, from, to) = TileBits(sa, sb, h, L, from, to, B, o)
<1>1. L \in Nat /\ B \in Nat \ {0} /\ o \in Nat /\ o + B <= L /\ Len(tile) = B
  BY DEF PartOf
<1>2. PICK n \in Nat : n = h * B
  <2>1. h * B \in Nat
    BY <1>1
  <2>2. QED
    BY <2>1
<1>3. PICK g : g = [c \in 1..n |-> Uint(Dot(sa[1 + ((c - 1) \div B)], tile[1 + ((c - 1) % B)], from, to))]
  OBVIOUS
<1>4. TileXor(sa, tile, from, to) = XorAll(<<>> \o g)
  BY <1>1, <1>2, <1>3 DEF TileXor
<1>5. g = [c \in 1..n |-> g[c]]
  BY <1>3
<1>6. XorAll(<<>> \o g) = OddBits(n, g)
  BY <1>5, XorAllIs
<1>7. ASSUME NEW b \in 0..WordBits - 1, NEW G, G = BitCells(sa, sb, h, L, from, to, b), NEW c \in 1..n
      PROVE  b \in g[c] <=> Cell(c, B, o) \in G
  <2>1. CellAt(h, B, o, c)
    BY <1>1, <1>2, CellIs
  <2>2. PICK i \in 1..h, r \in 0..B - 1 : Cell(c, B, o) = <<i, o + 1 + r>>
    BY <2>1 DEF CellAt
  <2>3. PICK q, s : q = (c - 1) \div B /\ s = (c - 1) % B
    OBVIOUS
  <2>4. 1 + q = i /\ o + 1 + s = o + 1 + r
    BY <2>2, <2>3 DEF Cell
  <2>5. s \in Int
    <3>1. c - 1 \in Nat
      BY <1>2
    <3>2. (c - 1) % B \in 0..B - 1
      BY <1>1, <3>1, Division
    <3>3. QED
      BY <1>1, <2>3, <3>2
  <2>6. s = r
    BY <1>1, <2>4, <2>5
  <2>7. g[c] = Uint(Dot(sa[i], tile[1 + r], from, to))
    BY <1>3, <2>3, <2>4, <2>6
  <2>8. PICK j : j = o + 1 + r /\ j \in 1..L /\ tile[1 + r] = sb[j]
    <3>1. tile[1 + r] = sb[o + 1 + r]
      BY DEF PartOf
    <3>2. o + 1 + r \in 1..L
      BY <1>1
    <3>3. QED
      BY <3>1, <3>2
  <2>9. Cell(c, B, o) = <<i, j>> /\ <<i, j>> \in (1..h) \X (1..L)
    BY <2>2, <2>8
  <2>10. <<i, j>> \in G <=> b \in Uint(Dot(sa[i], sb[j], from, to))
    BY <1>7, <2>9 DEF BitCells
  <2>11. QED
    BY <2>7, <2>8, <2>9, <2>10
<1>8. ASSUME NEW b \in 0..WordBits - 1
      PROVE  Odd({c \in 1..n : b \in g[c]})
               <=> Odd(BitCells(sa, sb, h, L, from, to, b) \cap ((1..h) \X (o + 1..o + B)))
  <2>1. PICK G : G = BitCells(sa, sb, h, L, from, to, b)
    OBVIOUS
  <2>2. {c \in 1..n : b \in g[c]} = {c \in 1..h * B : Cell(c, B, o) \in G}
    BY <1>2, <1>7, <2>1
  <2>3. Odd({c \in 1..h * B : Cell(c, B, o) \in G}) <=> Odd(G \cap ((1..h) \X (o + 1..o + B)))
    <3>1. SameOdd(h, B, o, G)
      BY <1>1, CellsCount
    <3>2. QED
      BY <3>1 DEF SameOdd
  <2>4. QED
    BY <2>1, <2>2, <2>3
<1>9. QED
  BY <1>4, <1>6, <1>8 DEF TileBits, OddBits

\* A list cut into tiles of TW.
LEMMA TilePart ==
  ASSUME NEW sb, IsList(sb), NEW TW \in Nat \ {0}, NEW N \in Nat, Len(sb) = N * TW, NEW w \in 1..N
  PROVE  PartOf(sb, SubSeq(sb, (w - 1) * TW + 1, w * TW), N * TW, TW, (w - 1) * TW)
<1>1. PICK V : sb \in Seq(V)
  BY DEF IsList
<1>2. PICK o \in Nat : o = (w - 1) * TW /\ w * TW = o + TW
  <2>1. PICK y \in Nat : y = w - 1 /\ w = y + 1
    OBVIOUS
  <2>2. y * TW \in Nat /\ (y + 1) * TW = y * TW + TW
    OBVIOUS
  <2>3. QED
    BY <2>1, <2>2
<1>3. PICK L \in Nat : L = N * TW /\ o + TW <= L
  <2>1. N * TW \in Nat
    OBVIOUS
  <2>2. w * TW <= N * TW
    <3>1. CASE w = N
      BY <2>1, <3>1
    <3>2. CASE w # N
      <4>1. w < N /\ w \in Int /\ N \in Int
        BY <3>2
      <4>2. TW * w + TW <= TW * N
        BY <4>1, Products
      <4>3. TW * w = w * TW /\ TW * N = N * TW /\ w * TW \in Int
        OBVIOUS
      <4>4. QED
        BY <2>1, <4>2, <4>3
    <3>3. QED
      BY <3>1, <3>2
  <2>3. QED
    BY <1>2, <2>1, <2>2
<1>4. PICK tile : tile = SubSeq(sb, o + 1, o + TW)
  OBVIOUS
<1>5. Len(tile) = TW /\ \A r \in 0..TW - 1 : tile[1 + r] = sb[o + 1 + r]
  <2>1. Len(sb) = L
    BY <1>3
  <2>2. tile = [i \in 1..TW |-> sb[i + o]]
    BY <1>1, <1>3, <1>4, <2>1
  <2>3. tile = [i \in 1..TW |-> tile[i]]
    BY <2>2
  <2>4. Len(tile) = TW
    BY <2>3, ListIs
  <2>5. ASSUME NEW r \in 0..TW - 1 PROVE tile[1 + r] = sb[o + 1 + r]
    <3>1. 1 + r \in 1..TW /\ (1 + r) + o = o + 1 + r
      OBVIOUS
    <3>2. QED
      BY <2>2, <3>1
  <2>6. QED
    BY <2>4, <2>5
<1>6. QED
  BY <1>2, <1>3, <1>4, <1>5 DEF PartOf

\* The tiles of a product together are the product.
LEMMA TilesTogether ==
  ASSUME NEW sa, NEW sb, IsList(sb), NEW from, NEW to, NEW h \in Nat, Len(sa) = h,
         NEW TW \in Nat \ {0}, NEW N \in Nat \ {0}, Len(sb) = N * TW
  PROVE  XorAll(<<>> \o [w \in 1..N |-> TileXor(sa, SubSeq(sb, (w - 1) * TW + 1, w * TW), from, to)])
           = TileXor(sa, sb, from, to)
<1>1. PICK L \in Nat \ {0} : L = N * TW
  <2>1. N * TW \in Nat \ {0}
    OBVIOUS
  <2>2. QED
    BY <2>1
<1>2. PICK g : g = [w \in 1..N |-> TileXor(sa, SubSeq(sb, (w - 1) * TW + 1, w * TW), from, to)]
  OBVIOUS
<1>3. ASSUME NEW w \in 1..N PROVE g[w] = TileBits(sa, sb, h, L, from, to, TW, (w - 1) * TW)
  <2>1. PICK o, tile : o = (w - 1) * TW /\ tile = SubSeq(sb, (w - 1) * TW + 1, w * TW)
    OBVIOUS
  <2>2. PartOf(sb, tile, L, TW, o)
    BY <1>1, <2>1, TilePart
  <2>3. TileXor(sa, tile, from, to) = TileBits(sa, sb, h, L, from, to, TW, o)
    BY <2>2, TileXorIs
  <2>4. QED
    BY <1>2, <2>1, <2>3
<1>4. XorAll(<<>> \o g) = OddBits(N, g)
  <2>1. N \in Nat /\ g = [w \in 1..N |-> g[w]]
    BY <1>2
  <2>2. QED
    BY <2>1, XorAllIs
<1>5. PICK z \in Nat : z = 0
  OBVIOUS
<1>6. TileXor(sa, sb, from, to) = TileBits(sa, sb, h, L, from, to, L, z)
  <2>1. \A r \in 0..L - 1 : sb[1 + r] = sb[z + 1 + r]
    BY <1>5
  <2>2. PartOf(sb, sb, L, L, z)
    BY <1>1, <1>5, <2>1 DEF PartOf
  <2>3. QED
    BY <2>2, TileXorIs
<1>7. ASSUME NEW b \in 0..WordBits - 1
      PROVE  Odd({w \in 1..N : b \in g[w]}) <=> b \in TileBits(sa, sb, h, L, from, to, L, z)
  <2>1. PICK G : G = BitCells(sa, sb, h, L, from, to, b)
    OBVIOUS
  <2>2. ASSUME NEW w \in 1..N PROVE b \in g[w] <=> Odd(TileOf(G, h, TW, w))
    BY <1>3, <2>1 DEF TileBits, TileOf
  <2>3. {w \in 1..N : b \in g[w]} = {w \in 1..N : Odd(TileOf(G, h, TW, w))}
    BY <2>2
  <2>4. Odd({w \in 1..N : Odd(TileOf(G, h, TW, w))}) <=> Odd(Columns(G, h, N * TW))
    BY TilesOdd
  <2>5. Columns(G, h, N * TW) = G \cap ((1..h) \X (z + 1..z + L))
    <3>1. z + 1 = 1 /\ z + L = N * TW
      BY <1>1, <1>5
    <3>2. QED
      BY <3>1 DEF Columns
  <2>6. b \in TileBits(sa, sb, h, L, from, to, L, z) <=> Odd(G \cap ((1..h) \X (z + 1..z + L)))
    BY <2>1 DEF TileBits
  <2>7. QED
    BY <2>3, <2>4, <2>5, <2>6
<1>8. TileBits(sa, sb, h, L, from, to, L, z) \subseteq 0..WordBits - 1
  BY DEF TileBits
<1>9. QED
  BY <1>2, <1>4, <1>6, <1>7, <1>8 DEF OddBits

-----------------------------------------------------------------------------
\* The pool's rows, read from the leaves of the share it accepts.

\* A byte of a chunk of the proof is the matrix' byte.
LEMMA ChunkByte ==
  ASSUME NEW V, 0 \in V, NEW data \in Seq(V), NEW c \in Nat, NEW r \in 0..ChunkLen - 1,
         c * ChunkLen + r < Len(data)
  PROVE  pad_to_chunk(Piece(data, c, ChunkLen))[1 + r] = data[c * ChunkLen + r + 1]
<1>1. PICK C \in Nat \ {0} : C = ChunkLen
  BY MerkleAssumption
<1>2. PICK a \in Nat, b \in Nat, n \in Nat : a = c * C /\ b = (c + 1) * C /\ n = Len(data)
  <2>1. PICK a \in Nat, b \in Nat : a = c * C /\ b = (c + 1) * C
    OBVIOUS
  <2>2. Len(data) \in Nat
    OBVIOUS
  <2>3. QED
    BY <2>1, <2>2
<1>3. b = a + C /\ a + r < n /\ r \in 0..C - 1
  <2>1. (c + 1) * C = c * C + C
    OBVIOUS
  <2>2. QED
    BY <1>1, <1>2, <2>1
<1>4. PICK e \in Nat : e = Least(b, n) /\ e <= n /\ a + r < e /\ e <= a + C
  BY <1>3 DEF Least
<1>5. PICK p : p = SubSeq(data, a + 1, e) /\ Piece(data, c, ChunkLen) = p
  BY <1>1, <1>2, <1>4 DEF Piece
<1>6. p \in Seq(V) /\ Len(p) = e - a
  BY <1>2, <1>3, <1>4, <1>5
<1>7. PICK l \in Nat : l = Len(p) /\ r < l /\ l <= C
  BY <1>3, <1>4, <1>6
<1>8. p[1 + r] = data[a + r + 1]
  BY <1>2, <1>3, <1>4, <1>5
<1>9. CeilDiv(l, C) = 1
  <2>1. PICK m \in Nat : m = CeilDiv(l, C) /\ \A x \in Nat : x < m <=> x * C < l
    BY CeilIs
  <2>2. PICK z \in Nat, o \in Nat : z = 0 /\ o = 1 /\ z * C = 0 /\ o * C = C
    OBVIOUS
  <2>3. z < m /\ ~(o < m)
    BY <1>3, <1>7, <2>1, <2>2
  <2>4. m = 1
    BY <2>2, <2>3
  <2>5. QED
    BY <2>1, <2>4
<1>10. PICK o \in Nat : o = 1 * C - l /\ l + o = C
  BY <1>7
<1>11. PICK z : z = Zeros(o) /\ z \in Seq(V) /\ Len(z) = o
  <2>1. Zeros(o) \in [1..o -> V]
    BY DEF Zeros
  <2>2. QED
    BY <2>1, FunctionIsSeq
<1>12. pad_to_chunk(p) = p \o z
  BY <1>1, <1>7, <1>9, <1>10, <1>11 DEF pad_to_chunk
<1>13. \A i \in 1..Len(p) + Len(z) : (p \o z)[i] = IF i <= Len(p) THEN p[i] ELSE z[i - Len(p)]
  BY <1>6, <1>11, ConcatProperties
<1>14. PICK i : i = 1 + r /\ i \in 1..Len(p) + Len(z) /\ i <= Len(p)
  BY <1>3, <1>7, <1>11
<1>15. (p \o z)[1 + r] = p[1 + r]
  BY <1>13, <1>14
<1>16. QED
  BY <1>1, <1>2, <1>5, <1>8, <1>12, <1>15

\* The leaves of a proof, in order.
LeavesOf(p, S, data) ==
  /\ p.leaf_indices = Sorted(S)
  /\ \A j \in 1..Cardinality(S) : p.leaf_data[j] = pad_to_chunk(Piece(data, Sorted(S)[j], ChunkLen))

\* The leaf a place names.
NamedLeaf(p, c) == p.leaf_data[CHOOSE j \in DOMAIN p.leaf_indices : p.leaf_indices[j] = c]

\* The place named c holds chunk c of the data.
LEMMA LeafNamed ==
  ASSUME NEW S, S \subseteq Nat, IsFiniteSet(S), NEW p, NEW data, LeavesOf(p, S, data), NEW c \in S
  PROVE  NamedLeaf(p, c) = pad_to_chunk(Piece(data, c, ChunkLen))
<1>1. PICK s : s = Sorted(S) /\ InOrder(S, s)
  BY SortedIs
<1>2. PICK n \in Nat : n = Cardinality(S) /\ DOMAIN s = 1..n
  BY <1>1 DEF InOrder
<1>3. p.leaf_indices = s
  BY <1>1 DEF LeavesOf
<1>4. \E j \in 1..n : s[j] = c
  BY <1>1, <1>2, OrderedAt
<1>5. PICK j : j = (CHOOSE x \in 1..n : s[x] = c) /\ j \in 1..n /\ s[j] = c
  BY <1>4
<1>6. p.leaf_data[j] = pad_to_chunk(Piece(data, c, ChunkLen))
  BY <1>1, <1>2, <1>5 DEF LeavesOf
<1>7. QED
  BY <1>2, <1>3, <1>5, <1>6 DEF NamedLeaf

\* The leaf of a byte of a row, and its place there.
LeafOf(S, x) == x \div ChunkLen \in S /\ x % ChunkLen \in 0..ChunkLen - 1
                /\ (x \div ChunkLen) * ChunkLen + (x % ChunkLen) = x

\* Every byte of a row lies in one of the leaves that are proved for it.
LEMMA RowLeaves ==
  ASSUME NEW R, NEW k \in Nat \ {0}, NEW row \in R, row \in Nat, NEW l \in 1..k
  PROVE  LeafOf(compute_leaf_indices_from_rows(R, k), row * k + l - 1)
<1>1. PICK C \in Nat \ {0} : C = ChunkLen
  BY MerkleAssumption
<1>2. PICK a \in Nat, x \in Nat, b \in Nat :
        a = row * k /\ b = (row + 1) * k - 1 /\ x = row * k + l - 1 /\ a <= x /\ x <= b
  <2>1. PICK a \in Nat : a = row * k
    OBVIOUS
  <2>2. (row + 1) * k = a + k
    BY <2>1
  <2>3. a + l - 1 \in Nat /\ a + k - 1 \in Nat /\ a <= a + l - 1 /\ a + l - 1 <= a + k - 1
    BY <2>1
  <2>4. QED
    BY <2>1, <2>2, <2>3
<1>3. a \div C \in Nat /\ x \div C \in Nat /\ b \div C \in Nat /\ a \div C <= x \div C /\ x \div C <= b \div C
  BY <1>2
<1>4. x \div C \in (row * k) \div ChunkLen .. ((row + 1) * k - 1) \div ChunkLen
  BY <1>1, <1>2, <1>3
<1>5. x \div C \in compute_leaf_indices_from_rows(R, k)
  BY <1>4 DEF compute_leaf_indices_from_rows
<1>6. PICK q \in Nat, r \in 0..C - 1 : q = x \div C /\ r = x % C /\ x = C * q + r
  BY Divided
<1>7. q * C + r = x
  BY <1>6
<1>8. QED
  BY <1>1, <1>2, <1>5, <1>6, <1>7 DEF LeafOf

\* A dense matrix is one of integers.
LEMMA DenseIs ==
  ASSUME NEW rows \in Nat \ {0}, NEW k \in Nat, NEW mat, Dense(rows, k, mat)
  PROVE  IsMatrix(Int, rows, k, mat)
<1>1. ASSUME NEW i \in 1..rows PROVE mat[i] \in Seq(Int) /\ Len(mat[i]) = k
  <2>1. mat[i] = [j \in 1..k |-> mat[i][j]] /\ \A j \in 1..k : mat[i][j] \in -64..63
    BY DEF Dense
  <2>2. PICK f : f = mat[i] /\ f = [j \in 1..k |-> f[j]] /\ \A j \in 1..k : f[j] \in Int
    <3>1. ASSUME NEW j \in 1..k PROVE mat[i][j] \in Int
      <4>1. PICK x \in -64..63 : x = mat[i][j]
        BY <2>1
      <4>2. QED
        BY <4>1
    <3>2. QED
      BY <2>1, <3>1
  <2>3. f \in [1..k -> Int]
    BY <2>2
  <2>4. QED
    BY <2>2, <2>3, FunctionIsSeq
<1>2. mat = [i \in 1..rows |-> mat[i]]
  BY DEF Dense
<1>3. Len(mat) = rows
  BY <1>2, ListIs
<1>4. QED
  BY <1>1, <1>2, <1>3 DEF IsMatrix

\* The pool reads the rows of the matrix from the leaves.
LEMMA RowRead ==
  ASSUME NEW rows \in Nat \ {0}, NEW k \in Nat \ {0}, NEW mat, Dense(rows, k, mat),
         NEW indices, RowsWithin(rows, indices), NEW p,
         LeavesOf(p, compute_leaf_indices_from_rows(ToSet(indices), k), FlattenSeq(mat)),
         NEW row \in ToSet(indices)
  PROVE  RowFromLeaves(p, row, k) = mat[row + 1]
<1>1. PICK S : S = compute_leaf_indices_from_rows(ToSet(indices), k) /\ S \subseteq Nat /\ IsFiniteSet(S)
  BY LeafSet
<1>2. PICK data : data = FlattenSeq(mat)
  OBVIOUS
<1>3. LeavesOf(p, S, data)
  BY <1>1, <1>2
<1>4. IsMatrix(Int, rows, k, mat)
  BY DenseIs
<1>5. /\ data \in Seq(Int) /\ Len(data) = rows * k
      /\ \A i \in 0..rows - 1 : \A j \in 1..k : data[i * k + j] = mat[i + 1][j]
  BY <1>2, <1>4, BytesAre
<1>6. row \in 0..rows - 1 /\ row \in Nat /\ row + 1 \in 1..rows
  <2>1. row \in 0..rows - 1
    BY DEF RowsWithin
  <2>2. QED
    BY <2>1
<1>7. ASSUME NEW l \in 1..k, NEW x, x = row * k + l - 1
      PROVE  NamedLeaf(p, x \div ChunkLen)[1 + (x % ChunkLen)] = mat[row + 1][l]
  <2>1. LeafOf(S, x)
    BY <1>1, <1>6, <1>7, RowLeaves
  <2>2. PICK c, r : c = x \div ChunkLen /\ r = x % ChunkLen
    OBVIOUS
  <2>3. c \in S /\ r \in 0..ChunkLen - 1 /\ c * ChunkLen + r = x
    BY <2>1, <2>2 DEF LeafOf
  <2>4. NamedLeaf(p, c) = pad_to_chunk(Piece(data, c, ChunkLen))
    BY <1>1, <1>3, <2>3, LeafNamed
  <2>5. PICK y \in Nat : y = row * k /\ x = y + l - 1 /\ x + 1 = y + l /\ x \in Nat
    <3>1. PICK y \in Nat : y = row * k
      BY <1>6
    <3>2. QED
      BY <1>7, <3>1
  <2>6. x < Len(data)
    <3>1. (row + 1 - 1) * k + l \in 1..rows * k
      BY <1>6, EntryPlace
    <3>2. row + 1 - 1 = row
      BY <1>6
    <3>3. y + l \in 1..rows * k
      BY <2>5, <3>1, <3>2
    <3>4. rows * k \in Nat
      OBVIOUS
    <3>5. QED
      BY <1>5, <2>5, <3>3, <3>4
  <2>7. c \in Nat /\ 0 \in Int
    BY <1>1, <2>3
  <2>8. pad_to_chunk(Piece(data, c, ChunkLen))[1 + r] = data[c * ChunkLen + r + 1]
    BY <1>5, <2>3, <2>6, <2>7, ChunkByte
  <2>9. data[c * ChunkLen + r + 1] = data[y + l]
    BY <2>3, <2>5
  <2>10. data[y + l] = mat[row + 1][l]
    BY <1>5, <1>6, <2>5
  <2>11. QED
    BY <2>2, <2>4, <2>8, <2>9, <2>10
<1>8. PICK t : t = [l \in 1..k |-> mat[row + 1][l]]
  OBVIOUS
<1>9. RowFromLeaves(p, row, k) = <<>> \o t
  <2>1. PICK u : u = [l \in 1..k |->
          NamedLeaf(p, (row * k + l - 1) \div ChunkLen)[1 + ((row * k + l - 1) % ChunkLen)]]
    OBVIOUS
  <2>2. RowFromLeaves(p, row, k) = <<>> \o u
    BY <2>1 DEF RowFromLeaves, NamedLeaf
  <2>3. u = t
    BY <1>7, <1>8, <2>1
  <2>4. QED
    BY <2>2, <2>3
<1>10. <<>> \o t = t
  <2>1. t = [l \in 1..k |-> t[l]] /\ k \in Nat
    BY <1>8
  <2>2. QED
    BY <2>1, ListIs
<1>11. mat[row + 1] = [l \in 1..k |-> mat[row + 1][l]]
  BY <1>6 DEF Dense
<1>12. QED
  BY <1>8, <1>9, <1>10, <1>11

-----------------------------------------------------------------------------
\* Each evaluation of the candidate gives the same words.

\* Both operands of a candidate: the matrices, as many rows as they have, and
\* the rows and columns that are taken.
Both(A, B, m, n, ch, k, r, aRows, bCols) ==
  Operand(A, m, k, r, 0, ch[2], aRows) /\ Operand(B, n, k, r, 1, ch[1], bCols)

NoisedA(A, ch, k, r, aRows) == NoisedRows(A, k, r, 0, ch[2], aRows)
NoisedB(B, ch, k, r, bCols) == NoisedRows(B, k, r, 1, ch[1], bCols)

\* The words of the candidate.
WordsOf(A, B, ch, k, r, aRows, bCols) ==
  compute_jackpot(NoisedA(A, ch, k, r, aRows), NoisedB(B, ch, k, r, bCols), k, r)

\* The CPU's.
CpuSplit(A, B, ch, k, r, aRows, bCols) ==
  compute_jackpot(CpuStrip(A, k, r, 0, ch[2], aRows), CpuStrip(B, k, r, 1, ch[1], bCols), k, r)

\* Splitting noise and matrix, as the CPU does, gives the words.
LEMMA CpuGives ==
  ASSUME NEW A, NEW B, NEW m, NEW n, NEW ch, NEW k, NEW r, NEW aRows, NEW bCols,
         Both(A, B, m, n, ch, k, r, aRows, bCols)
  PROVE  evaluate_candidate(A, B, aRows, bCols, ch, k, r) = WordsOf(A, B, ch, k, r, aRows, bCols)
<1>1. evaluate_candidate(A, B, aRows, bCols, ch, k, r) = CpuSplit(A, B, ch, k, r, aRows, bCols)
  BY DEF evaluate_candidate, compute_noise_for_indices, CpuSplit, CpuStrip
<1>2. PICK zero, one : zero = 0 /\ one = 1
  OBVIOUS
<1>3. Operand(A, m, k, r, zero, ch[2], aRows) /\ Operand(B, n, k, r, one, ch[1], bCols)
  BY <1>2 DEF Both
<1>4. /\ CpuStrip(A, k, r, zero, ch[2], aRows) = NoisedRows(A, k, r, zero, ch[2], aRows)
      /\ CpuStrip(B, k, r, one, ch[1], bCols) = NoisedRows(B, k, r, one, ch[1], bCols)
  BY <1>3, CpuStripIs
<1>5. QED
  BY <1>1, <1>2, <1>4 DEF CpuSplit, WordsOf, NoisedA, NoisedB

\* The coopmat kernel's, from the matrices noised once.
LEMMA CoopmatGives ==
  ASSUME NEW A, NEW B, NEW m, NEW n, NEW ch, NEW k, NEW r, NEW aRows, NEW bCols,
         Both(A, B, m, n, ch, k, r, aRows, bCols)
  PROVE  coopmat_candidate(set_job_slot(set_job(A, B, ch, k, r)), aRows, bCols, k, r)
           = WordsOf(A, B, ch, k, r, aRows, bCols)
<1>1. PICK zero, one : zero = 0 /\ one = 1
  OBVIOUS
<1>2. set_job_slot(set_job(A, B, ch, k, r)) = <<SlotOf(A, k, r, zero, ch[2]), SlotOf(B, k, r, one, ch[1])>>
  BY <1>1 DEF set_job_slot, set_job, SlotOf
<1>3. Operand(A, m, k, r, zero, ch[2], aRows) /\ Operand(B, n, k, r, one, ch[1], bCols)
  BY <1>1 DEF Both
<1>4. /\ Rows(SlotOf(A, k, r, zero, ch[2]), aRows) = NoisedRows(A, k, r, zero, ch[2], aRows)
      /\ Rows(SlotOf(B, k, r, one, ch[1]), bCols) = NoisedRows(B, k, r, one, ch[1], bCols)
  BY <1>3, SlotIs
<1>5. PICK x, y : x = SlotOf(A, k, r, zero, ch[2]) /\ y = SlotOf(B, k, r, one, ch[1])
  OBVIOUS
<1>6. coopmat_candidate(<<x, y>>, aRows, bCols, k, r) = compute_jackpot(Rows(x, aRows), Rows(y, bCols), k, r)
  BY DEF coopmat_candidate
<1>7. QED
  BY <1>1, <1>2, <1>4, <1>5, <1>6 DEF WordsOf, NoisedA, NoisedB

\* The GCN kernel's: a new sum in every slice.
SliceWords(A, B, ch, k, r, aRows, bCols) ==
  FoldSlices(NoisedA(A, ch, k, r, aRows), NoisedB(B, ch, k, r, bCols), k, r)

\* The search on the tables gives those, over the noised rows.
LEMMA SlicesGive ==
  ASSUME NEW A, NEW B, NEW m, NEW n, NEW ch, NEW k, NEW r, NEW aRows, NEW bCols,
         Both(A, B, m, n, ch, k, r, aRows, bCols)
  PROVE  /\ jackpot_search(set_job(A, B, ch, k, r), aRows, bCols, k, r)
              = SliceWords(A, B, ch, k, r, aRows, bCols)
         /\ Strips(A, set_job(A, B, ch, k, r).e_al, set_job(A, B, ch, k, r).e_ar_t, aRows)
              = NoisedA(A, ch, k, r, aRows)
         /\ Strips(B, set_job(A, B, ch, k, r).e_br_t, set_job(A, B, ch, k, r).e_bl, bCols)
              = NoisedB(B, ch, k, r, bCols)
<1>1. PICK zero, one : zero = 0 /\ one = 1
  OBVIOUS
<1>2. PICK given : given = set_job(A, B, ch, k, r)
  OBVIOUS
<1>3. /\ given.A = A /\ given.B = B
      /\ given.e_al = uniform(zero, ch[2], Len(A), r) /\ given.e_ar_t = perm(zero, ch[2], k, r)
      /\ given.e_bl = perm(one, ch[1], k, r) /\ given.e_br_t = uniform(one, ch[1], Len(B), r)
  BY <1>1, <1>2 DEF set_job
<1>4. Operand(A, m, k, r, zero, ch[2], aRows) /\ Operand(B, n, k, r, one, ch[1], bCols)
  BY <1>1 DEF Both
<1>5. /\ StripOf(A, k, r, zero, ch[2], aRows) = NoisedRows(A, k, r, zero, ch[2], aRows)
      /\ StripOf(B, k, r, one, ch[1], bCols) = NoisedRows(B, k, r, one, ch[1], bCols)
  BY <1>4, StripsIs
<1>6. /\ Strips(A, given.e_al, given.e_ar_t, aRows) = NoisedA(A, ch, k, r, aRows)
      /\ Strips(B, given.e_br_t, given.e_bl, bCols) = NoisedB(B, ch, k, r, bCols)
  BY <1>1, <1>3, <1>5 DEF StripOf, NoisedA, NoisedB
<1>7. jackpot_search(given, aRows, bCols, k, r) = SliceWords(A, B, ch, k, r, aRows, bCols)
  BY <1>3, <1>6 DEF jackpot_search, SliceWords
<1>8. QED
  BY <1>2, <1>6, <1>7

\* The kernels' for RDNA devices: the strips are packed and cut into tiles.
LEMMA TilesGive ==
  ASSUME NEW A, NEW B, NEW m, NEW n, NEW ch, NEW k, NEW r, NEW aRows, NEW bCols,
         Both(A, B, m, n, ch, k, r, aRows, bCols),
         NEW TW \in Nat \ {0}, Len(bCols) % TW = 0
  PROVE  jackpot_search_wtile(set_job(A, B, ch, k, r), aRows, bCols, k, r, TW)
           = SliceWords(A, B, ch, k, r, aRows, bCols)
<1>1. PICK zero, one : zero = 0 /\ one = 1
  OBVIOUS
<1>2. PICK given : given = set_job(A, B, ch, k, r)
  OBVIOUS
<1>3. given.A = A /\ given.B = B
  BY <1>2 DEF set_job
<1>4. PICK sa, sb : sa = NoisedA(A, ch, k, r, aRows) /\ sb = NoisedB(B, ch, k, r, bCols)
  OBVIOUS
<1>5. Strips(A, given.e_al, given.e_ar_t, aRows) = sa /\ Strips(B, given.e_br_t, given.e_bl, bCols) = sb
  BY <1>2, <1>4, SlicesGive
<1>6. Operand(A, m, k, r, zero, ch[2], aRows) /\ Operand(B, n, k, r, one, ch[1], bCols)
  BY <1>1 DEF Both
<1>7. Packed(sa) = sa /\ Packed(sb) = sb
  <2>1. /\ Packed(NoisedRows(A, k, r, zero, ch[2], aRows)) = NoisedRows(A, k, r, zero, ch[2], aRows)
        /\ Packed(NoisedRows(B, k, r, one, ch[1], bCols)) = NoisedRows(B, k, r, one, ch[1], bCols)
    BY <1>6, PackedIs
  <2>2. QED
    BY <1>1, <1>4, <2>1 DEF NoisedA, NoisedB
<1>8. PICK h \in Nat \ {0}, l \in Nat \ {0} : h = Len(aRows) /\ l = Len(bCols)
  BY <1>6, OperandRows
<1>9. Len(sa) = h /\ IsList(sb) /\ Len(sb) = l
  <2>1. sa = [i \in 1..h |-> sa[i]]
    BY <1>4, <1>8 DEF NoisedA, NoisedRows
  <2>2. sb = [i \in 1..l |-> sb[i]]
    BY <1>4, <1>8 DEF NoisedB, NoisedRows
  <2>3. QED
    BY <2>1, <2>2, ListIs
<1>10. PICK N \in Nat \ {0} : N = l \div TW /\ l = N * TW
  <2>1. PICK q \in Nat, s \in 0..TW - 1 : q = l \div TW /\ s = l % TW /\ l = TW * q + s
    BY Divided
  <2>2. s = 0
    BY <1>8, <2>1
  <2>3. l = q * TW
    BY <2>1, <2>2
  <2>4. q # 0
    BY <2>3
  <2>5. QED
    BY <2>1, <2>3, <2>4
<1>11. jackpot_search_wtile(given, aRows, bCols, k, r, TW)
         = FoldWords([t \in 1..k \div r |->
             XorAll(<<>> \o [w \in 1..N |->
                TileXor(sa, SubSeq(sb, (w - 1) * TW + 1, w * TW), (t - 1) * r + 1, t * r)])])
  <2>1. Len(sb) \div TW = N
    BY <1>9, <1>10
  <2>2. QED
    BY <1>3, <1>5, <1>7, <2>1 DEF jackpot_search_wtile
<1>12. ASSUME NEW t \in 1..k \div r
       PROVE  XorAll(<<>> \o [w \in 1..N |->
                TileXor(sa, SubSeq(sb, (w - 1) * TW + 1, w * TW), (t - 1) * r + 1, t * r)])
                = TileXor(sa, sb, (t - 1) * r + 1, t * r)
  <2>1. PICK from, to : from = (t - 1) * r + 1 /\ to = t * r
    OBVIOUS
  <2>2. XorAll(<<>> \o [w \in 1..N |-> TileXor(sa, SubSeq(sb, (w - 1) * TW + 1, w * TW), from, to)])
          = TileXor(sa, sb, from, to)
    <3>1. h \in Nat /\ Len(sb) = N * TW
      BY <1>9, <1>10
    <3>2. QED
      BY <1>9, <3>1, TilesTogether
  <2>3. QED
    BY <2>1, <2>2
<1>13. PICK x : x = [t \in 1..k \div r |-> TileXor(sa, sb, (t - 1) * r + 1, t * r)]
  OBVIOUS
<1>14. [t \in 1..k \div r |->
             XorAll(<<>> \o [w \in 1..N |->
                TileXor(sa, SubSeq(sb, (w - 1) * TW + 1, w * TW), (t - 1) * r + 1, t * r)])] = x
  BY <1>12, <1>13
<1>15. SliceWords(A, B, ch, k, r, aRows, bCols) = FoldWords(x)
  BY <1>4, <1>13 DEF SliceWords, FoldSlices
<1>16. QED
  BY <1>2, <1>11, <1>14, <1>15

-----------------------------------------------------------------------------
\* Every reachable candidate satisfies the hypotheses of the lemmas.

\* Ranks and dimensions are whole digests.
LEMMA RankIs ==
  /\ Rank \in Nat \ {0} /\ PowerRank(Rank) /\ WholeDigests(Rank)
  /\ \A k \in Ks : k \in Nat \ {0} /\ WholeDigests(k)
<1>1. PICK e \in 1..WordBits : Rank = Pow2[e]
  BY AssemblyAssumption
<1>2. PICK W \in Nat : W = WordBits
  BY JackpotAssumption
<1>3. PICK r \in Nat \ {0} : r = Rank
  <2>1. e \in Nat
    BY <1>2
  <2>2. Pow2[e] \in Nat \ {0}
    BY <2>1, PowIs
  <2>3. QED
    BY <1>1, <2>2
<1>4. PowerRank(Rank)
  BY <1>1 DEF PowerRank
<1>5. WholeDigests(Rank)
  BY <1>3, AssemblyAssumption DEF WholeDigests
<1>6. PICK H \in Nat \ {0}, p \in Nat \ {0} : H = HashBytes /\ r = p * H
  BY <1>3, <1>5, DigestCount
<1>7. ASSUME NEW k \in Ks PROVE k \in Nat \ {0} /\ WholeDigests(k)
  <2>1. k \in Nat \ {0} /\ k % r = 0
    BY <1>3, AssemblyAssumption
  <2>2. PICK q \in Nat, s \in 0..r - 1 : q = k \div r /\ s = k % r /\ k = r * q + s
    <3>1. k \in Nat
      BY <2>1
    <3>2. QED
      BY <3>1, Divided
  <2>3. PICK z \in Nat, o \in 0..H - 1 : z = p * q /\ o = 0
    <3>1. p * q \in Nat
      OBVIOUS
    <3>2. QED
      BY <3>1
  <2>4. k = H * z + o
    <3>1. k = r * q
      BY <2>1, <2>2
    <3>2. r * q = H * (p * q)
      BY <1>6
    <3>3. QED
      BY <2>3, <3>1, <3>2
  <2>5. k % H = 0
    <3>1. z \in Int /\ k \in Nat
      BY <2>1
    <3>2. QED
      BY <2>3, <2>4, <3>1, Quotient
  <2>6. QED
    BY <1>6, <2>1, <2>5 DEF WholeDigests
<1>8. QED
  BY <1>3, <1>4, <1>5, <1>7

\* The candidate that was proved, in the matrices of either derivation.
Proved(A, B, m, n, k) ==
  /\ k = mc.common_dim /\ k \in Nat \ {0} /\ mc.rank = Rank
  /\ AB = <<A, B>> /\ derive_AB_from_seed(seed, shape.m, shape.n, k) = <<A, B>>
  /\ Both(A, B, m, n, commitment_hash, k, Rank, a_rows_indices, b_cols_indices)

\* In a reachable state that has proved a share there is one.
LEMMA CandidateIs ==
  ASSUME ConfigInv, MatricesInv, FoundInv, phase = "proved"
  PROVE  \E A, B, m, n, k : Proved(A, B, m, n, k)
<1>1. PICK k : k \in Ks /\ k = mc.common_dim /\ mc.rank = Rank
  BY DEF ConfigInv, FromConfigured
<1>2. k \in Nat \ {0} /\ WholeDigests(k) /\ PowerRank(Rank) /\ WholeDigests(Rank)
  BY <1>1, RankIs
<1>3. PICK m \in Ms, n \in Ns, s \in Seeds, w \in {"cpu", "device"} :
        /\ shape = [m |-> m, n |-> n] /\ seed = s
        /\ AB = IF w = "cpu" THEN derive_AB_from_seed(s, m, n, k) ELSE derive_AB(s, m, n, k)
  BY <1>1 DEF MatricesInv, FromDerived
<1>4. m \in Nat \ {0} /\ n \in Nat \ {0} /\ s \in Nat /\ shape.m = m /\ shape.n = n
  BY <1>3, AssemblyAssumption
<1>5. PICK zero \in Nat, one \in Nat : zero = 0 /\ one = 1
  OBVIOUS
<1>6. PICK A, B : A = derive_matrix(s, m, k, zero) /\ B = derive_matrix(s, n, k, one)
  OBVIOUS
<1>7. derive_AB_from_seed(s, m, n, k) = <<A, B>>
  BY <1>5, <1>6 DEF derive_AB_from_seed
<1>8. derive_AB(s, m, n, k) = <<A, B>>
  <2>1. derive(s, m, k, zero) = A /\ derive(s, n, k, one) = B
    BY <1>2, <1>4, <1>6, DeviceDerives
  <2>2. QED
    BY <1>5, <2>1 DEF derive_AB
<1>9. AB = <<A, B>>
  BY <1>3, <1>7, <1>8
<1>10. Dense(m, k, A) /\ Dense(n, k, B)
  BY <1>2, <1>4, <1>6, DerivedDense
<1>11. PICK a, b : a = a_rows_indices /\ b = b_cols_indices
  OBVIOUS
<1>12. RowsWithin(m, a) /\ ToSet(a) # {} /\ RowsWithin(n, b) /\ ToSet(b) # {}
  <2>1. PICK o, p : /\ o \in ToSet(enumerate_valid_offsets(mc.rows_pattern, shape.m))
                    /\ p \in ToSet(enumerate_valid_offsets(mc.cols_pattern, shape.n))
                    /\ found.cpu.hit = <<o, p>>
    BY HitIs
  <2>2. PICK d, e : Shaped(lists[1], mc.rows_pattern, d) /\ Shaped(lists[2], mc.cols_pattern, e)
    BY PatternsAre DEF FromConfigured
  <2>3. a = indices_with_offset(mc.rows_pattern, o) /\ b = indices_with_offset(mc.cols_pattern, p)
    BY <1>11, <2>1 DEF a_rows_indices, b_cols_indices
  <2>4. m \in Nat /\ n \in Nat
    BY <1>4
  <2>5. RowsWithin(m, a) /\ RowsWithin(n, b)
    BY <1>4, <2>1, <2>2, <2>3, <2>4, IndicesWithin
  <2>6. ToSet(a) # {} /\ ToSet(b) # {}
    BY <2>2, <2>3, IndicesExist
  <2>7. QED
    BY <2>5, <2>6
<1>13. PICK ch : ch = commitment_hash
  OBVIOUS
<1>14. ch[1] \in Nat /\ ch[2] \in Nat
  BY <1>3, <1>4, <1>13 DEF commitment_hash
<1>15. Operand(A, m, k, Rank, zero, ch[2], a) /\ Operand(B, n, k, Rank, one, ch[1], b)
  BY <1>2, <1>4, <1>10, <1>12, <1>14 DEF Operand
<1>16. Both(A, B, m, n, ch, k, Rank, a, b)
  BY <1>5, <1>15 DEF Both
<1>17. derive_AB_from_seed(seed, shape.m, shape.n, k) = <<A, B>>
  BY <1>3, <1>4, <1>7
<1>18. QED
  BY <1>1, <1>2, <1>9, <1>11, <1>13, <1>16, <1>17 DEF Proved

\* The rows the pool reads from the proof of one matrix.
ReadRows(p, indices, k) == [i \in DOMAIN indices |-> RowFromLeaves(p, indices[i], k)]

\* They are the matrix's rows, from the leaves of its multileaf proof.
LEMMA RowsRead ==
  ASSUME NEW mat, NEW count, NEW k, NEW rank, NEW label, NEW key, NEW indices,
         Operand(mat, count, k, rank, label, key, indices), NEW t, NEW data, data = FlattenSeq(mat)
  PROVE  ReadRows(get_multileaf_proof(t, data, compute_leaf_indices_from_rows(ToSet(indices), k)), indices, k)
           = Rows(mat, indices)
<1>1. /\ count \in Nat \ {0} /\ k \in Nat \ {0} /\ Dense(count, k, mat) /\ RowsWithin(count, indices)
  BY DEF Operand, WholeDigests
<1>2. PICK S, p : /\ S = compute_leaf_indices_from_rows(ToSet(indices), k)
                  /\ p = get_multileaf_proof(t, data, S)
  OBVIOUS
<1>3. LeavesOf(p, S, data)
  BY <1>2 DEF LeavesOf, get_multileaf_proof
<1>4. ASSUME NEW row \in ToSet(indices) PROVE RowFromLeaves(p, row, k) = mat[row + 1]
  BY <1>1, <1>2, <1>3, RowRead
<1>5. DOMAIN indices = 1..Len(indices)
  BY <1>1 DEF RowsWithin
<1>6. \A i \in DOMAIN indices : indices[i] \in ToSet(indices)
  BY DEF ToSet
<1>7. \A i \in DOMAIN indices : RowFromLeaves(p, indices[i], k) = mat[indices[i] + 1]
  BY <1>4, <1>6
<1>8. QED
  BY <1>2, <1>5, <1>7 DEF ReadRows, Rows

\* The pool's words, from the leaves.
LEMMA PoolGives ==
  ASSUME NEW A, NEW B, NEW m, NEW n, NEW k, Proved(A, B, m, n, k)
  PROVE  PoolJackpot(build_plain_proof)
           = evaluate_candidate(A, B, a_rows_indices, b_cols_indices, commitment_hash, k, Rank)
<1>1. PICK a, b, ch : a = a_rows_indices /\ b = b_cols_indices /\ ch = commitment_hash
  OBVIOUS
<1>2. k = mc.common_dim /\ mc.rank = Rank /\ AB = <<A, B>> /\ Both(A, B, m, n, ch, k, Rank, a, b)
  BY <1>1 DEF Proved
<1>3. PICK zero, one : zero = 0 /\ one = 1
  OBVIOUS
<1>4. Operand(A, m, k, Rank, zero, ch[2], a) /\ Operand(B, n, k, Rank, one, ch[1], b)
  BY <1>2, <1>3 DEF Both
<1>5. PICK p1, p2 :
        /\ p1 = get_multileaf_proof(layers[1], Bytes(1), compute_leaf_indices_from_rows(ToSet(a), k))
        /\ p2 = get_multileaf_proof(layers[2], Bytes(2), compute_leaf_indices_from_rows(ToSet(b), k))
  OBVIOUS
<1>6. Bytes(1) = FlattenSeq(A) /\ Bytes(2) = FlattenSeq(B)
  BY <1>2 DEF Bytes
<1>7. ReadRows(p1, a, k) = Rows(A, a)
  BY <1>4, <1>5, <1>6, RowsRead
<1>8. ReadRows(p2, b, k) = Rows(B, b)
  BY <1>4, <1>5, <1>6, RowsRead
<1>9. PICK pp : pp = build_plain_proof
  OBVIOUS
<1>10. /\ pp.k = k /\ pp.noise_rank = Rank
       /\ pp.a.row_indices = a /\ pp.a.proof = p1 /\ pp.bt.row_indices = b /\ pp.bt.proof = p2
  BY <1>1, <1>2, <1>5, <1>9 DEF build_plain_proof, MatrixProof
<1>11. PoolJackpot(pp)
         = compute_jackpot(PlusRows(ReadRows(p1, a, k), compute_noise_for_indices(k, Rank, ch, a, b)[1]),
                           PlusRows(ReadRows(p2, b, k), compute_noise_for_indices(k, Rank, ch, a, b)[2]),
                           k, Rank)
  BY <1>1, <1>10 DEF PoolJackpot, ReadRows
<1>12. evaluate_candidate(A, B, a, b, ch, k, Rank)
         = compute_jackpot(PlusRows(Rows(A, a), compute_noise_for_indices(k, Rank, ch, a, b)[1]),
                           PlusRows(Rows(B, b), compute_noise_for_indices(k, Rank, ch, a, b)[2]),
                           k, Rank)
  BY DEF evaluate_candidate
<1>13. QED
  BY <1>1, <1>7, <1>8, <1>9, <1>11, <1>12

\* The words of a candidate are the same on the CPU, on the coopmat kernel and
\* at the pool; and the other kernels agree with each other.
THEOREM KernelsAlwaysAgree == Spec => []KernelsAgree
<1>1. ASSUME AssemblyInv, phase = "proved"
      PROVE  AgreeOn(a_rows_indices, b_cols_indices, mc.common_dim,
                     CpuWords(derive_AB_from_seed(seed, shape.m, shape.n, mc.common_dim)))
  <2>1. ConfigInv /\ MatricesInv /\ JobInv /\ FoundInv
    BY <1>1 DEF AssemblyInv
  <2>2. PICK A, B, m, n, k : Proved(A, B, m, n, k)
    BY <1>1, <2>1, CandidateIs
  <2>3. PICK a, b, ch : a = a_rows_indices /\ b = b_cols_indices /\ ch = commitment_hash
    OBVIOUS
  <2>4. /\ k = mc.common_dim /\ mc.rank = Rank /\ AB = <<A, B>>
        /\ derive_AB_from_seed(seed, shape.m, shape.n, k) = <<A, B>>
        /\ Both(A, B, m, n, ch, k, Rank, a, b)
    BY <2>2, <2>3 DEF Proved
  <2>5. PICK words : words = evaluate_candidate(A, B, a, b, ch, k, Rank)
    OBVIOUS
  <2>6. CpuWords(<<A, B>>) = words
    BY <2>3, <2>4, <2>5 DEF CpuWords
  <2>7. PICK tables : tables = set_job(A, B, ch, k, Rank)
    OBVIOUS
  <2>8. job.tables = tables /\ job.slot = set_job_slot(tables)
    BY <1>1, <2>1, <2>3, <2>4, <2>7 DEF JobInv, FromSet
  <2>9. coopmat_candidate(job.slot, a, b, k, Rank) = words
    BY <2>4, <2>5, <2>7, <2>8, CpuGives, CoopmatGives
  <2>10. PoolJackpot(Decode(wire).vals) = words
    <3>1. Decode(wire).vals = build_plain_proof
      BY <1>1, ShareReadsBack DEF ReadBack
    <3>2. PoolJackpot(build_plain_proof) = words
      BY <2>2, <2>3, <2>5, PoolGives
    <3>3. QED
      BY <3>1, <3>2
  <2>11. ASSUME NEW TW \in {t \in 1..2 : Len(b) % t = 0}
         PROVE  jackpot_search_wtile(job.tables, a, b, k, Rank, TW) = jackpot_search(job.tables, a, b, k, Rank)
    <3>1. TW \in Nat \ {0} /\ Len(b) % TW = 0
      OBVIOUS
    <3>2. jackpot_search_wtile(tables, a, b, k, Rank, TW) = SliceWords(A, B, ch, k, Rank, a, b)
      BY <2>4, <2>7, <3>1, TilesGive
    <3>3. jackpot_search(tables, a, b, k, Rank) = SliceWords(A, B, ch, k, Rank, a, b)
      BY <2>4, <2>7, SlicesGive
    <3>4. QED
      BY <2>8, <3>2, <3>3
  <2>12. AgreeOn(a, b, k, words)
    BY <2>9, <2>10, <2>11 DEF AgreeOn
  <2>13. QED
    BY <2>3, <2>4, <2>6, <2>12
<1>2. AssemblyInv => KernelsAgree
  BY <1>1 DEF KernelsAgree
<1>3. QED
  BY <1>2, AssemblyHolds, PTL
=============================================================================
