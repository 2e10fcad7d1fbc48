------------------------ MODULE ChallengeSolverProofs ------------------------
(***************************************************************************)
(* Proofs about ChallengeSolver, for every number of workers and nonces,   *)
(* every size of a byte and every set of digests and difficulties.         *)
(*                                                                         *)
(* That the answer is valid says nothing of the workers that won and have  *)
(* not reported, of the queue and of the result slot; IndInv says that     *)
(* whatever may still become the answer is a winner.                       *)
(***************************************************************************)
EXTENDS ChallengeSolver, FiniteSetTheorems, TLAPS

-----------------------------------------------------------------------------
(***************************************************************************)
(* Numbers.                                                                *)
(***************************************************************************)

\* A set of naturals that is not empty has a least element.  The initial
\* segments 0..x of its elements are finite sets, well-founded by inclusion.
LEMMA LeastElement ==
  ASSUME NEW T, T \subseteq Nat, T # {}
  PROVE  \E x \in T : \A y \in T : x <= y
<1> DEFINE F == {0..x : x \in T}
           R == StrictSubsetOrdering(Nat)
<1>1. IsWellFoundedOn(R, FiniteSubsetsOf(Nat))
  BY FS_StrictSubsetOrderingWellFounded
<1>2. F \subseteq FiniteSubsetsOf(Nat) /\ F # {}
  <2>1. \A x \in T : 0..x \subseteq Nat /\ IsFiniteSet(0..x)
    BY FS_Interval
  <2>2. QED
    BY <2>1 DEF FiniteSubsetsOf
<1> HIDE DEF R
<1>3. PICK I \in F : \A J \in F : <<J, I>> \notin R
  <2> HIDE DEF F
  <2>1. QED
    BY <1>1, <1>2, WFMin
<1>4. PICK x \in T : I = 0..x
  BY <1>3
<1>5. ASSUME NEW y \in T, y < x PROVE FALSE
  <2>1. 0..y \in F /\ x \in Nat /\ y \in Nat
    OBVIOUS
  <2>2. 0..y \subseteq I /\ 0..y # I
    BY <1>4, <1>5, <2>1
  <2>3. 0..y \in SUBSET Nat /\ I \in SUBSET Nat
    BY <1>4, <2>1
  <2>4. <<0..y, I>> \in StrictSubsetOrdering(Nat)
    BY <2>2, <2>3 DEF StrictSubsetOrdering
  <2>5. QED
    BY <1>3, <2>1, <2>4 DEF R
<1>6. QED
  BY <1>5

\* First is that element.
LEMMA FirstIsLeast ==
  ASSUME NEW T, T \subseteq Nat, T # {}
  PROVE  First(T) \in T /\ \A y \in T : First(T) <= y
  BY LeastElement DEF First

\* Quotient and remainder.
LEMMA Division ==
  ASSUME NEW a \in Nat, NEW W \in Nat \ {0}
  PROVE  \E q \in Int : a % W = a - W * q /\ a % W \in 0..W - 1
<1>1. a \div W \in Int /\ a % W \in 0..W - 1
  OBVIOUS
<1>2. a % W = a - W * (a \div W)
  OBVIOUS
<1>3. QED
  BY <1>1, <1>2

\* The remainder is the only one.
LEMMA Remainder ==
  ASSUME NEW a \in Int, NEW W \in Nat \ {0}, NEW q \in Int, NEW r \in 0..W - 1,
         a = W * q + r
  PROVE  a % W = r
  OBVIOUS

\* A positive multiple is at least one step.
LEMMA PositiveMultiple ==
  ASSUME NEW W \in Nat \ {0}, NEW k \in Int, W * k > 0
  PROVE  W * k >= W
<1>1. k >= 1
  OBVIOUS
<1>2. QED
  BY <1>1

\* Two numbers with the same remainder are at least one step apart.
LEMMA SameRemainder ==
  ASSUME NEW a \in Nat, NEW b \in Nat, NEW W \in Nat \ {0}, NEW p \in Int, NEW r \in Int,
         a - W * p = b - W * r, a < b
  PROVE  a + W <= b
<1>1. b - a = W * (r - p)
  OBVIOUS
<1>2. PICK k \in Int : k = r - p
  OBVIOUS
<1>3. PICK m \in Int : m = W * k
  OBVIOUS
<1>4. m = b - a
  BY <1>1, <1>2, <1>3
<1>5. m > 0
  BY <1>4
<1>6. m >= W
  BY <1>3, <1>5, PositiveMultiple
<1>7. QED
  BY <1>4, <1>6

\* Two different nonces of a class are at least one step apart.
LEMMA ClassStep ==
  ASSUME NEW a \in Nat, NEW b \in Nat, NEW W \in Nat \ {0}, a % W = b % W, a < b
  PROVE  a + W <= b
<1>1. PICK p \in Int : a % W = a - W * p
  BY Division
<1>2. PICK r \in Int : b % W = b - W * r
  BY Division
<1>3. a - W * p = b - W * r
  BY <1>1, <1>2
<1>4. QED
  BY <1>3, SameRemainder

\* One step further the remainder is the same.
LEMMA Shift ==
  ASSUME NEW a \in Nat, NEW W \in Nat \ {0}, NEW q \in Int, NEW r \in 0..W - 1,
         r = a - W * q
  PROVE  (a + W) % W = r
<1>1. PICK c \in Int, d \in Int : c = a + W /\ d = q + 1
  OBVIOUS
<1>2. c = W * d + r
  BY <1>1
<1>3. c % W = r
  BY <1>2, Remainder
<1>4. QED
  BY <1>1, <1>3

\* A step of a worker stays in its class.
LEMMA ClassKept ==
  ASSUME NEW a \in Nat, NEW W \in Nat \ {0}
  PROVE  (a + W) % W = a % W
<1>1. PICK q \in Int : a % W = a - W * q /\ a % W \in 0..W - 1
  BY Division
<1>2. QED
  BY <1>1, Shift

\* A worker's first nonce is in its class.
LEMMA ClassOfWorker ==
  ASSUME NEW w \in Worker
  PROVE  w % Workers = w
  BY SolverAssumption DEF Worker

-----------------------------------------------------------------------------
(***************************************************************************)
(* The two tests of a digest.                                              *)
(***************************************************************************)

\* Products with the number of bits of a byte, for bytes before and after one.
LEMMA BytesBefore ==
  ASSUME NEW B \in Nat, NEW i \in Nat, NEW j \in Nat, i < j
  PROVE  B * (i - 1) + B <= B * (j - 1)
<1>1. PICK k \in Nat : j = i + 1 + k
  <2>1. j - i - 1 \in Nat
    OBVIOUS
  <2>2. j = i + 1 + (j - i - 1)
    OBVIOUS
  <2>3. QED
    BY <2>1, <2>2
<1>2. B * (j - 1) = B * (i - 1) + B + B * k
  BY <1>1
<1>3. B * k >= 0
  OBVIOUS
<1>4. B * (j - 1) \in Int /\ B * (i - 1) \in Int /\ B * k \in Int
  OBVIOUS
<1>5. QED
  BY <1>2, <1>3, <1>4

\* A digest of zero bytes passes both tests.
LEMMA TestsAgreeOnZero ==
  ASSUME NEW d \in Digests, NEW n \in Difficulties,
         {i \in DOMAIN d : ~ZeroBits(d[i], ByteBits)} = {}
  PROVE  meets_difficulty(d, n) /\ _leading_zero_bits(d) >= n
<1>1. \A i \in DOMAIN d : ZeroBits(d[i], ByteBits)
  OBVIOUS
<1>2. meets_difficulty(d, n)
  <2>1. SUFFICES ASSUME NEW i \in DOMAIN d, NEW e \in Int, ~(e >= ByteBits)
                 PROVE  ZeroBits(d[i], ByteBits) /\ ZeroBits(d[i], e)
    <3>1. \A i \in DOMAIN d : i \in Int
      BY SolverAssumption
    <3>2. \A i \in DOMAIN d : n - ByteBits * (i - 1) \in Int
      BY <3>1, SolverAssumption
    <3>3. ASSUME NEW i \in DOMAIN d,
                 NEW e \in Int, e = n - ByteBits * (i - 1)
          PROVE  ZeroBits(d[i], IF e >= ByteBits THEN ByteBits ELSE e)
      BY <1>1, <2>1
    <3>4. QED
      BY <3>2, <3>3 DEF meets_difficulty
  <2>2. QED
    BY <1>1, <2>1, SolverAssumption DEF ZeroBits
<1>3. QED
  BY <1>2, SolverAssumption DEF _leading_zero_bits

\* For every other digest they look at the same bit: the first one set.
LEMMA TestsAgreeOnBit ==
  ASSUME NEW d \in Digests, NEW n \in Difficulties,
         {i \in DOMAIN d : ~ZeroBits(d[i], ByteBits)} # {}
  PROVE  meets_difficulty(d, n) <=> _leading_zero_bits(d) >= n
<1> DEFINE nonzero == {i \in DOMAIN d : ~ZeroBits(d[i], ByteBits)}
<1>b. ByteBits \in Nat \ {0} /\ n \in Nat /\ d \in Seq([1..ByteBits -> {0, 1}])
  BY SolverAssumption
<1>1. DOMAIN d \subseteq Nat \ {0} /\ \A i \in DOMAIN d : d[i] \in [1..ByteBits -> {0, 1}]
  BY <1>b
<1>2. PICK k \in DOMAIN d : /\ k = First(nonzero) /\ ~ZeroBits(d[k], ByteBits)
                            /\ \A i \in DOMAIN d : i < k => ZeroBits(d[i], ByteBits)
  <2>1. nonzero \subseteq Nat /\ nonzero # {}
    BY <1>1
  <2>2. First(nonzero) \in nonzero /\ \A y \in nonzero : First(nonzero) <= y
    <3> HIDE DEF nonzero
    <3>1. QED
      BY <2>1, FirstIsLeast
  <2>3. ASSUME NEW i \in DOMAIN d, i < First(nonzero) PROVE ZeroBits(d[i], ByteBits)
    <3>1. First(nonzero) \in Nat /\ i \in Nat
      BY <1>1, <2>2
    <3>2. i \notin nonzero
      BY <2>2, <2>3, <3>1
    <3>3. QED
      BY <3>2
  <2>4. QED
    BY <2>2, <2>3
<1> DEFINE ones == {j \in 1..ByteBits : d[k][j] = 1}
<1>3. PICK z \in 1..ByteBits : /\ z = First(ones) /\ d[k][z] = 1
                               /\ \A j \in 1..z - 1 : d[k][j] = 0
  <2>1. PICK j \in 1..ByteBits : d[k][j] # 0
    BY <1>2 DEF ZeroBits
  <2>2. \A y \in 1..ByteBits : d[k][y] \in {0, 1}
    BY <1>1
  <2>3. ones \subseteq Nat /\ ones # {}
    <3>1. d[k][j] = 1
      BY <2>1, <2>2
    <3>2. j \in ones
      BY <3>1
    <3>3. ones \subseteq Nat
      BY <1>b
    <3>4. QED
      BY <3>2, <3>3
  <2>4. First(ones) \in ones /\ \A y \in ones : First(ones) <= y
    <3> HIDE DEF ones
    <3>1. QED
      BY <2>3, FirstIsLeast
  <2>5. ASSUME NEW y \in 1..First(ones) - 1 PROVE d[k][y] = 0
    <3>1. y \in 1..ByteBits /\ y \notin ones
      BY <1>b, <2>4
    <3>2. QED
      BY <2>2, <3>1
  <2>6. QED
    BY <2>4, <2>5
<1>4. _leading_zero_bits(d) = ByteBits * (k - 1) + z - 1
  BY <1>2, <1>3 DEF _leading_zero_bits
<1> DEFINE rest(i) == n - ByteBits * (i - 1)
<1>5. \A i \in DOMAIN d : rest(i) \in Int
  BY <1>b, <1>1
<1>6. meets_difficulty(d, n) <=>
        \A i \in DOMAIN d : ZeroBits(d[i], IF rest(i) >= ByteBits THEN ByteBits ELSE rest(i))
  BY DEF meets_difficulty
<1>7. k \in Nat \ {0} /\ ByteBits * (k - 1) \in Int
  BY <1>b, <1>1, <1>2
<1>c. PICK c \in Int : /\ c = ByteBits * (k - 1) /\ rest(k) = n - c
                       /\ _leading_zero_bits(d) = c + z - 1
  BY <1>4, <1>7
<1> HIDE DEF nonzero, ones
<1>8. ASSUME _leading_zero_bits(d) >= n PROVE meets_difficulty(d, n)
  <2>1. rest(k) < z /\ rest(k) < ByteBits
    <3>1. c + z - 1 >= n
      BY <1>c, <1>8
    <3>2. rest(k) = n - c
      BY <1>c
    <3> HIDE DEF rest
    <3>3. QED
      BY <1>b, <3>1, <3>2
  <2>2. SUFFICES ASSUME NEW i \in DOMAIN d
                 PROVE  ZeroBits(d[i], IF rest(i) >= ByteBits THEN ByteBits ELSE rest(i))
    BY <1>6
  <2>3. CASE i < k
    <3>1. \A y \in 1..ByteBits : d[i][y] = 0
      BY <1>2, <2>3 DEF ZeroBits
    <3>2. rest(i) \in Int
      BY <1>5
    <3> HIDE DEF rest
    <3>3. QED
      BY <1>b, <3>1, <3>2 DEF ZeroBits
  <2>4. CASE i = k
    <3>1. rest(k) \in Int
      BY <1>5
    <3> HIDE DEF rest
    <3>2. QED
      BY <1>3, <1>b, <2>1, <2>4, <3>1 DEF ZeroBits
  <2>5. CASE i > k
    <3>1. ByteBits * (k - 1) + ByteBits <= ByteBits * (i - 1)
      BY <1>b, <1>1, <1>7, <2>5, BytesBefore
    <3>2. rest(k) \in Int /\ rest(i) \in Int /\ i \in Nat
      BY <1>5, <1>1
    <3>3. rest(i) <= rest(k) - ByteBits
      <4>1. ByteBits * (i - 1) \in Int
        BY <1>b, <3>2
      <4>2. QED
        BY <1>7, <1>b, <3>1, <4>1
    <3> HIDE DEF rest
    <3>4. rest(i) < 0
      BY <1>b, <2>1, <3>2, <3>3
    <3>5. QED
      BY <1>b, <3>2, <3>4 DEF ZeroBits
  <2>6. QED
    BY <1>1, <1>7, <2>3, <2>4, <2>5
<1>9. ASSUME meets_difficulty(d, n) PROVE _leading_zero_bits(d) >= n
  <2>1. ZeroBits(d[k], IF rest(k) >= ByteBits THEN ByteBits ELSE rest(k))
    BY <1>6, <1>9
  <2>2. rest(k) \in Int
    BY <1>5
  <2>3. rest(k) < z
    <3> HIDE DEF rest
    <3>1. rest(k) < ByteBits
      BY <1>2, <1>b, <2>1, <2>2
    <3>2. ZeroBits(d[k], rest(k))
      BY <1>b, <2>1, <2>2, <3>1
    <3>3. QED
      BY <1>3, <2>2, <3>2 DEF ZeroBits
  <2>4. QED
    <3>1. rest(k) = n - c /\ _leading_zero_bits(d) = c + z - 1
      BY <1>c
    <3> HIDE DEF rest
    <3>2. QED
      BY <1>b, <2>3, <3>1
<1>10. QED
  BY <1>8, <1>9

\* The kernel accepts a digest exactly when the pool's count of its zero bits
\* does (blake3_challenge.cl 91-112, stratum_client.py 53-65).
THEOREM TestsAgree ==
  \A d \in Digests, n \in Difficulties :
    meets_difficulty(d, n) <=> _leading_zero_bits(d) >= n
  BY TestsAgreeOnZero, TestsAgreeOnBit

-----------------------------------------------------------------------------
(***************************************************************************)
(* The inductive invariant.                                                *)
(***************************************************************************)

\* The nonces that win; the problem does not change while it is solved.
Winning == {n \in 0..MaxNonce : Wins(n)}

Typed ==
  /\ solver \in {"cpu", "gpu"} /\ difficulty \in Difficulties
  /\ digest \in [0..MaxNonce -> Digests]
  /\ pc \in [Worker -> {"check", "hash", "won", "put", "exit", "dead"}]
  /\ nonce \in [Worker -> Nat] /\ flag \in BOOLEAN
  /\ results \in Seq(Nat) /\ found_nonce \in Nat /\ base \in Nat
  /\ answer \in {None} \cup Nat

\* What a worker is about to report, what is in the queue and in the slot, and
\* what was returned are winners; with the flag up and nothing in the slot yet,
\* the work item that raised it still has to store.
Winners ==
  /\ \A w \in Worker :
       /\ pc[w] \in {"won", "put"} => nonce[w] \in Winning
       /\ pc[w] = "put" => flag
  /\ \A i \in 1..Len(results) : results[i] \in Winning
  /\ solver = "gpu" /\ flag => found_nonce \in Winning \/ \E w \in Worker : pc[w] = "put"
  /\ answer # None => answer \in Winning

\* Each worker walks the nonces of its class, each batch starts at its base.
Classes ==
  /\ solver = "cpu" => \A w \in Worker : nonce[w] <= MaxNonce => nonce[w] % Workers = w
  /\ solver = "gpu" => \A w \in Worker : nonce[w] = base + w

\* The winners passed over: none, as long as no flag cut the batch short.
Skipped ==
  /\ solver = "cpu" =>
       \A w \in Worker, n \in Winning : n % Workers = w => nonce[w] <= n
  /\ solver = "gpu" =>
       /\ \A n \in Winning : base <= n
       /\ \A w \in Worker : pc[w] = "exit" => flag \/ nonce[w] \notin Winning

IndInv == Typed /\ Winners /\ Classes /\ Skipped

\* The winners are naturals, and no step changes which they are.
LEMMA WinningFacts == Winning \subseteq Nat /\ None \notin Winning
  BY SolverAssumption DEF Winning, None

LEMMA WinsIs ==
  ASSUME NEW n
  PROVE  Wins(n) <=> n \in Winning
  BY DEF Winning, Wins

LEMMA WinningKept ==
  [Next]_vars => UNCHANGED <<problem, Winning>>
<1> SUFFICES ASSUME [Next]_vars PROVE UNCHANGED <<problem, Winning>>
  OBVIOUS
<1>1. UNCHANGED problem
  BY DEF Next, Host, TakeResult, EndBatch, Work, Check, Hash, RaiseFlag, Report, Die, vars
<1>2. UNCHANGED Winning
  BY <1>1 DEF problem, Winning, Wins
<1>3. QED
  BY <1>1, <1>2

LEMMA InitIndInv == Init => IndInv
<1> SUFFICES ASSUME Init PROVE IndInv
  OBVIOUS
<1> USE DEF Init
<1>1. Typed
  <2>1. Worker \subseteq Nat
    BY SolverAssumption DEF Worker
  <2>2. nonce \in [Worker -> Nat] /\ results \in Seq(Nat)
    BY <2>1
  <2>3. pc \in [Worker -> {"check", "hash", "won", "put", "exit", "dead"}]
    OBVIOUS
  <2>4. QED
    BY <2>2, <2>3 DEF Typed
<1>2. Winners
  BY DEF Winners
<1>3. Classes
  BY ClassOfWorker DEF Classes
<1>4. Skipped
  <2>1. ASSUME NEW w \in Worker, NEW n \in Winning, n % Workers = w PROVE w <= n
    <3>1. n \in Nat /\ w \in Nat /\ Workers \in Nat \ {0} /\ w < Workers
      BY WinningFacts, SolverAssumption DEF Worker
    <3>2. n < Workers => n % Workers = n
      BY <3>1
    <3>3. QED
      BY <2>1, <3>1, <3>2
  <2>2. ASSUME NEW n \in Winning PROVE 0 <= n
    <3>1. n \in Nat
      BY WinningFacts
    <3>2. QED
      BY <3>1
  <2>3. QED
    BY <2>1, <2>2 DEF Skipped
<1>5. QED
  BY <1>1, <1>2, <1>3, <1>4 DEF IndInv

\* What each action leaves of the state the invariant is about.
LEMMA CheckKeeps ==
  ASSUME IndInv, NEW w \in Worker, Check(w), UNCHANGED <<problem, Winning>>
  PROVE  IndInv'
<1>1. /\ UNCHANGED <<solver, nonce, flag, results, found_nonce, base, answer>>
      /\ pc[w] = "check"
      /\ pc' = [pc EXCEPT ![w] = IF flag THEN "exit" ELSE "hash"]
  BY DEF Check, At, problem, gpu
<1>2. Typed'
  BY <1>1 DEF IndInv, Typed, problem
<1>3. pc \in [Worker -> {"check", "hash", "won", "put", "exit", "dead"}]
  BY DEF IndInv, Typed
<1>4. /\ pc'[w] \in {"exit", "hash"} /\ (pc'[w] = "exit" => flag)
      /\ \A v \in Worker \ {w} : pc'[v] = pc[v]
  BY <1>1, <1>3
<1>5. Winners'
  BY <1>1, <1>4 DEF IndInv, Winners
<1>6. Classes'
  BY <1>1 DEF IndInv, Classes
<1>7. Skipped'
  BY <1>1, <1>4 DEF IndInv, Skipped
<1>8. QED
  BY <1>2, <1>5, <1>6, <1>7 DEF IndInv

LEMMA HashKeeps ==
  ASSUME IndInv, NEW w \in Worker, Hash(w), UNCHANGED <<problem, Winning>>
  PROVE  IndInv'
<1>1. /\ UNCHANGED <<solver, flag, results, found_nonce, base, answer>>
      /\ pc[w] = "hash"
  BY DEF Hash, At, problem, gpu
<1>2. Typed
  BY DEF IndInv
<1>3. pc \in [Worker -> {"check", "hash", "won", "put", "exit", "dead"}]
      /\ nonce \in [Worker -> Nat]
  BY <1>2 DEF Typed
<1>4. CASE nonce[w] \in Winning
  <2>1. pc' = [pc EXCEPT ![w] = "won"] /\ nonce' = nonce
    BY <1>4, WinsIs DEF Hash, At
  <2>2. Typed'
    BY <1>1, <1>2, <2>1 DEF Typed, problem
  <2>3. pc'[w] = "won" /\ \A v \in Worker \ {w} : pc'[v] = pc[v]
    BY <1>3, <2>1
  <2>4. Winners'
    BY <1>1, <1>4, <2>1, <2>3 DEF IndInv, Winners
  <2>5. Classes' /\ Skipped'
    BY <1>1, <2>1, <2>3 DEF IndInv, Classes, Skipped
  <2>6. QED
    BY <2>2, <2>4, <2>5 DEF IndInv
<1>5. CASE nonce[w] \notin Winning /\ solver = "gpu"
  <2>1. pc' = [pc EXCEPT ![w] = "exit"] /\ nonce' = nonce
    BY <1>5, WinsIs DEF Hash, At
  <2>2. Typed'
    BY <1>1, <1>2, <2>1 DEF Typed, problem
  <2>3. pc'[w] = "exit" /\ \A v \in Worker \ {w} : pc'[v] = pc[v]
    BY <1>3, <2>1
  <2>4. Winners'
    BY <1>1, <2>1, <2>3 DEF IndInv, Winners
  <2>5. Classes' /\ Skipped'
    BY <1>1, <1>5, <2>1, <2>3 DEF IndInv, Classes, Skipped
  <2>6. QED
    BY <2>2, <2>4, <2>5 DEF IndInv
<1>6. CASE nonce[w] \notin Winning /\ solver # "gpu"
  <2>1. /\ pc' = [pc EXCEPT ![w] = IF left[w] = 1 THEN "check" ELSE "hash"]
        /\ nonce' = [nonce EXCEPT ![w] = Step(nonce[w])]
    BY <1>6, WinsIs DEF Hash, At
  <2>2. Step(nonce[w]) \in Nat
    BY <1>3, SolverAssumption DEF Step
  <2>3. Typed'
    BY <1>1, <1>2, <2>1, <2>2 DEF Typed, problem
  <2>4. /\ pc'[w] \in {"check", "hash"} /\ nonce'[w] = Step(nonce[w])
        /\ \A v \in Worker \ {w} : pc'[v] = pc[v] /\ nonce'[v] = nonce[v]
    BY <1>3, <2>1
  <2>5. Winners'
    BY <1>1, <2>4 DEF IndInv, Winners
  <2>6. solver = "cpu"
    BY <1>2, <1>6 DEF Typed
  <2>7. Workers \in Nat \ {0} /\ nonce[w] \in Nat /\ MaxNonce \in Nat
    BY <1>3, SolverAssumption
  <2>8. nonce'[w] <= MaxNonce => nonce'[w] = nonce[w] + Workers /\ nonce[w] <= MaxNonce
    BY <2>4, <2>7 DEF Step
  <2>9. Classes'
    <3>1. nonce'[w] <= MaxNonce => nonce'[w] % Workers = nonce[w] % Workers
      BY <2>7, <2>8, ClassKept
    <3>2. nonce'[w] <= MaxNonce => nonce'[w] % Workers = w
      BY <2>6, <2>8, <3>1 DEF IndInv, Classes
    <3>3. QED
      BY <1>1, <2>4, <2>6, <3>2 DEF IndInv, Classes
  <2>10. ASSUME NEW n \in Winning, n % Workers = w PROVE nonce'[w] <= n
    <3>1. n \in Nat /\ n <= MaxNonce
      BY <2>7 DEF Winning
    <3>2. nonce[w] <= n /\ nonce[w] # n
      BY <1>6, <2>6, <2>10 DEF IndInv, Skipped
    <3>3. nonce[w] <= MaxNonce
      BY <2>7, <3>1, <3>2
    <3>4. nonce[w] % Workers = n % Workers
      BY <2>6, <2>10, <3>3 DEF IndInv, Classes
    <3>5. nonce[w] < n
      BY <2>7, <3>1, <3>2
    <3>6. nonce[w] + Workers <= n
      BY <2>7, <3>1, <3>4, <3>5, ClassStep
    <3>7. QED
      BY <2>4, <2>7, <3>1, <3>6 DEF Step
  <2>11. Skipped'
    BY <1>1, <2>4, <2>6, <2>10 DEF IndInv, Skipped
  <2>12. QED
    BY <2>3, <2>5, <2>9, <2>11 DEF IndInv
<1>7. QED
  BY <1>4, <1>5, <1>6

LEMMA RaiseFlagKeeps ==
  ASSUME IndInv, NEW w \in Worker, RaiseFlag(w), UNCHANGED <<problem, Winning>>
  PROVE  IndInv'
<1>1. /\ UNCHANGED <<solver, nonce, results, found_nonce, base, answer>>
      /\ pc[w] = "won" /\ pc' = [pc EXCEPT ![w] = "put"] /\ flag' = TRUE
  BY DEF RaiseFlag, At, problem, gpu
<1>2. Typed'
  BY <1>1 DEF IndInv, Typed, problem
<1>3. pc \in [Worker -> {"check", "hash", "won", "put", "exit", "dead"}]
  BY DEF IndInv, Typed
<1>4. pc'[w] = "put" /\ \A v \in Worker \ {w} : pc'[v] = pc[v]
  BY <1>1, <1>3
<1>5. Winners'
  BY <1>1, <1>4 DEF IndInv, Winners
<1>6. Classes' /\ Skipped'
  BY <1>1 DEF IndInv, Classes, Skipped
<1>7. QED
  BY <1>2, <1>5, <1>6 DEF IndInv

LEMMA ReportKeeps ==
  ASSUME IndInv, NEW w \in Worker, Report(w), UNCHANGED <<problem, Winning>>
  PROVE  IndInv'
<1>1. /\ UNCHANGED <<solver, nonce, flag, base, answer>>
      /\ pc[w] = "put" /\ pc' = [pc EXCEPT ![w] = "exit"]
  BY DEF Report, At, problem
<1>2. Typed
  BY DEF IndInv
<1>3. /\ pc \in [Worker -> {"check", "hash", "won", "put", "exit", "dead"}]
      /\ nonce[w] \in Nat /\ results \in Seq(Nat)
  BY <1>2 DEF Typed
<1>4. pc'[w] = "exit" /\ \A v \in Worker \ {w} : pc'[v] = pc[v]
  BY <1>1, <1>3
<1>5. nonce[w] \in Winning
  BY <1>1 DEF IndInv, Winners
<1>6. CASE solver = "cpu"
  <2>1. results' = Append(results, nonce[w]) /\ found_nonce' = found_nonce
    BY <1>6 DEF Report
  <2>2. results' \in Seq(Nat) /\ \A i \in 1..Len(results') : results'[i] \in Winning
    BY <1>3, <1>5, <2>1 DEF IndInv, Winners
  <2>3. Typed'
    BY <1>1, <1>2, <2>1, <2>2 DEF Typed, problem
  <2>4. Winners'
    BY <1>1, <1>4, <1>6, <2>2 DEF IndInv, Winners
  <2>5. Classes' /\ Skipped'
    BY <1>1, <1>6 DEF IndInv, Classes, Skipped
  <2>6. QED
    BY <2>3, <2>4, <2>5 DEF IndInv
<1>7. CASE solver # "cpu"
  <2>1. found_nonce' = nonce[w] /\ results' = results
    BY <1>7 DEF Report
  <2>2. Typed'
    BY <1>1, <1>2, <1>3, <2>1 DEF Typed, problem
  <2>3. Winners'
    BY <1>1, <1>4, <1>5, <2>1 DEF IndInv, Winners
  <2>4. flag
    BY <1>1, <1>7 DEF IndInv, Winners
  <2>5. Classes' /\ Skipped'
    BY <1>1, <1>7, <2>4 DEF IndInv, Classes, Skipped
  <2>6. QED
    BY <2>2, <2>3, <2>5 DEF IndInv
<1>8. QED
  BY <1>6, <1>7

LEMMA DieKeeps ==
  ASSUME IndInv, NEW w \in Worker, Die(w), UNCHANGED <<problem, Winning>>
  PROVE  IndInv'
<1>1. /\ UNCHANGED <<solver, nonce, flag, results, found_nonce, base, answer>>
      /\ solver = "cpu" /\ pc' = [pc EXCEPT ![w] = "dead"]
  BY DEF Die, problem, gpu
<1>2. Typed'
  BY <1>1 DEF IndInv, Typed, problem
<1>3. pc \in [Worker -> {"check", "hash", "won", "put", "exit", "dead"}]
  BY DEF IndInv, Typed
<1>4. pc'[w] = "dead" /\ \A v \in Worker \ {w} : pc'[v] = pc[v]
  BY <1>1, <1>3
<1>5. Winners'
  BY <1>1, <1>4 DEF IndInv, Winners
<1>6. Classes' /\ Skipped'
  BY <1>1 DEF IndInv, Classes, Skipped
<1>7. QED
  BY <1>2, <1>5, <1>6 DEF IndInv

LEMMA TakeResultKeeps ==
  ASSUME IndInv, TakeResult, UNCHANGED <<problem, Winning>>
  PROVE  IndInv'
<1>1. /\ UNCHANGED <<solver, nonce, results, found_nonce, base>>
      /\ solver = "cpu" /\ results # <<>> /\ answer' = Head(results) /\ flag' = TRUE
      /\ pc' = [w \in Worker |-> IF pc[w] = "dead" THEN "dead" ELSE "exit"]
  BY DEF TakeResult, problem, gpu
<1>2. Typed /\ Winners
  BY DEF IndInv
<1>3. answer' = results[1] /\ 1 \in 1..Len(results) /\ answer' \in Nat
  BY <1>1, <1>2 DEF Typed
<1>4. answer' \in Winning
  BY <1>2, <1>3 DEF Winners
<1>5. \A w \in Worker : pc'[w] \in {"dead", "exit"}
  BY <1>1
<1>6. Typed'
  <2>1. pc' \in [Worker -> {"check", "hash", "won", "put", "exit", "dead"}]
    BY <1>1
  <2>2. QED
    BY <1>1, <1>2, <1>3, <2>1 DEF Typed, problem
<1>7. Winners'
  BY <1>1, <1>2, <1>4, <1>5 DEF Winners
<1>8. Classes' /\ Skipped'
  BY <1>1 DEF IndInv, Classes, Skipped
<1>9. QED
  BY <1>6, <1>7, <1>8 DEF IndInv

\* The batch is over: either its slot holds a winner, or none of its nonces
\* wins and the next batch begins behind them.
LEMMA EndBatchKeeps ==
  ASSUME IndInv, EndBatch, UNCHANGED <<problem, Winning>>
  PROVE  IndInv'
<1>1. /\ UNCHANGED <<solver, flag, results>> /\ solver = "gpu"
      /\ \A w \in Worker : pc[w] = "exit"
  BY DEF EndBatch, Finished, problem
<1>2. Typed /\ Winners /\ Classes /\ Skipped
  BY DEF IndInv
<1>3. CASE flag
  <2>1. answer' = found_nonce /\ UNCHANGED <<pc, nonce, found_nonce, base>>
    BY <1>3 DEF EndBatch, gpu
  <2>2. found_nonce \in Winning
    BY <1>1, <1>2, <1>3 DEF Winners
  <2>3. Typed'
    BY <1>1, <1>2, <2>1 DEF Typed, problem
  <2>4. Winners'
    BY <1>1, <1>2, <2>1, <2>2 DEF Winners
  <2>5. Classes' /\ Skipped'
    BY <1>1, <1>2, <2>1 DEF Classes, Skipped
  <2>6. QED
    BY <2>3, <2>4, <2>5 DEF IndInv
<1>4. CASE ~flag
  <2>1. /\ base' = base + Workers /\ found_nonce' = 0 /\ answer' = answer
        /\ nonce' = [w \in Worker |-> base' + w] /\ pc' = [w \in Worker |-> "check"]
    BY <1>4 DEF EndBatch, NextBase
  <2>2. /\ base \in Nat /\ Workers \in Nat \ {0} /\ base' \in Nat
        /\ Worker = 0..Workers - 1
    BY <1>2, <2>1, SolverAssumption DEF Typed, Worker
  <2>3. nonce' \in [Worker -> Nat]
    <3>1. ASSUME NEW w \in Worker PROVE base' + w \in Nat
      <4>1. \A b \in Nat : b + w \in Nat
        BY SolverAssumption DEF Worker
      <4>2. QED
        BY <2>2, <4>1
    <3>2. QED
      BY <2>1, <3>1
  <2>4. pc' \in [Worker -> {"check", "hash", "won", "put", "exit", "dead"}]
    BY <2>1
  <2>5. Typed'
    BY <1>1, <1>2, <2>1, <2>2, <2>3, <2>4 DEF Typed, problem
  <2>6. \A w \in Worker : pc'[w] = "check" /\ nonce'[w] = base' + w
    BY <2>1
  <2>7. Winners'
    BY <1>1, <1>2, <1>4, <2>1, <2>6 DEF Winners
  <2>8. Classes'
    BY <1>1, <2>6 DEF Classes
  <2>9. ASSUME NEW n \in Winning PROVE base' <= n
    <3>1. n \in Nat /\ base <= n
      BY <1>1, <1>2, WinningFacts DEF Skipped
    <3>2. ASSUME n < base + Workers PROVE FALSE
      <4>1. PICK w \in Worker : n = base + w
        <5>1. n - base \in Worker /\ n = base + (n - base)
          BY <2>2, <3>1, <3>2
        <5>2. QED
          BY <5>1
      <4>2. nonce[w] = n /\ nonce[w] \notin Winning
        BY <1>1, <1>2, <1>4, <4>1 DEF Classes, Skipped
      <4>3. QED
        BY <4>2
    <3>3. QED
      BY <2>1, <2>2, <3>1, <3>2
  <2>10. Skipped'
    BY <1>1, <2>6, <2>9 DEF Skipped
  <2>11. QED
    BY <2>5, <2>7, <2>8, <2>10 DEF IndInv
<1>5. QED
  BY <1>3, <1>4

\* IndInv is an invariant of both solvers.
LEMMA Inductive == Spec => []IndInv
<1>1. Init => IndInv
  BY InitIndInv
<1>2. IndInv /\ [Next]_vars => IndInv'
  <2> SUFFICES ASSUME IndInv, [Next]_vars PROVE IndInv'
    OBVIOUS
  <2>1. UNCHANGED <<problem, Winning>>
    BY WinningKept
  <2>2. CASE UNCHANGED vars
    BY <2>1, <2>2 DEF vars, problem, gpu, IndInv, Typed, Winners, Classes, Skipped
  <2>3. CASE Host
    BY <2>1, <2>3, TakeResultKeeps, EndBatchKeeps DEF Host
  <2>4. ASSUME NEW w \in Worker, Work(w) PROVE IndInv'
    BY <2>1, <2>4, CheckKeeps, HashKeeps, RaiseFlagKeeps, ReportKeeps DEF Work
  <2>5. ASSUME NEW w \in Worker, Die(w) PROVE IndInv'
    BY <2>1, <2>5, DieKeeps
  <2>6. QED
    BY <2>2, <2>3, <2>4, <2>5 DEF Next
<1>3. QED
  BY <1>1, <1>2, PTL DEF Spec

-----------------------------------------------------------------------------
(***************************************************************************)
(* The invariants of the run.                                              *)
(***************************************************************************)

\* What either solver returns is a nonce the pool takes
\* (stratum_client.py 53-130, blake3_challenge_gpu.py 65-116).
THEOREM NonceValidHolds == Spec => []NonceValid
<1>1. IndInv => NonceValid
  <2> SUFFICES ASSUME IndInv, answer # None
               PROVE  /\ answer \in 0..MaxNonce
                      /\ _leading_zero_bits(digest[answer]) >= difficulty
    BY DEF NonceValid
  <2>1. answer \in 0..MaxNonce /\ Wins(answer)
    BY DEF IndInv, Winners, Winning
  <2>2. digest[answer] \in Digests /\ difficulty \in Difficulties
    BY <2>1 DEF IndInv, Typed
  <2>3. QED
    BY <2>1, <2>2, TestsAgree DEF Wins
<1>2. QED
  BY <1>1, Inductive, PTL

\* No winner is passed over, neither within a worker's class nor between two
\* batches (stratum_client.py 68-85, blake3_challenge_gpu.py 65-116).
THEOREM NoWinnerSkippedHolds == Spec => []NoWinnerSkipped
<1>1. IndInv => NoWinnerSkipped
  <2> SUFFICES ASSUME IndInv, NEW n \in 0..MaxNonce, Wins(n)
               PROVE  /\ solver = "cpu" =>
                           \A w \in Worker : ~(n % Workers = w /\ n < nonce[w])
                      /\ solver = "gpu" => ~(n < base)
    BY DEF NoWinnerSkipped
  <2>1. n \in Winning /\ n \in Nat /\ base \in Nat /\ \A w \in Worker : nonce[w] \in Nat
    BY SolverAssumption DEF IndInv, Typed, Winning
  <2>2. ASSUME NEW w \in Worker, n % Workers = w, solver = "cpu" PROVE ~(n < nonce[w])
    <3>1. nonce[w] <= n
      BY <2>1, <2>2 DEF IndInv, Skipped
    <3>2. QED
      BY <2>1, <3>1
  <2>3. ASSUME solver = "gpu" PROVE ~(n < base)
    <3>1. base <= n
      BY <2>1, <2>3 DEF IndInv, Skipped
    <3>2. QED
      BY <2>1, <3>1
  <2>4. QED
    BY <2>2, <2>3
<1>2. QED
  BY <1>1, Inductive, PTL
=============================================================================
