---------------------------- MODULE ShareAssemblyProofs ----------------------------
(***************************************************************************)
(* Proofs about the share assembly, for every grid, pattern, matrix size   *)
(* and proof.  First the operators: the batched searches give the          *)
(* candidate the CPU loop gives; four words of a target decide as the      *)
(* number does; the coopmat sweep finds a candidate exactly when its       *)
(* workgroups hold one; the decoder takes just the proof that was encoded; *)
(* lists become the patterns that list them; the grid is exact; trees of   *)
(* whole chunks have one root however they are built; the replay of a      *)
(* proof reaches the root.  Then, by the invariant of ShareInvariant, the  *)
(* same of ShareAssembly in all its states.                                *)
(***************************************************************************)
EXTENDS ShareInvariant, SequenceTheorems, FiniteSetTheorems, TLAPS

-----------------------------------------------------------------------------
(***************************************************************************)
(* Numbers.                                                                *)
(***************************************************************************)

\* A set of naturals that is not empty has a least element: the initial
\* segments 0..x of its elements are well-founded by inclusion.
LEMMA LeastOf ==
  ASSUME NEW T, T \subseteq Nat, T # {}
  PROVE  \E x \in T : \A y \in T : x <= y
<1> DEFINE F == {0..x : x \in T}
           R == StrictSubsetOrdering(Nat)
<1>1. IsWellFoundedOn(R, FiniteSubsetsOf(Nat))
  BY FS_StrictSubsetOrderingWellFounded
<1>2. F \subseteq FiniteSubsetsOf(Nat) /\ F # {}
  <2>1. \A x \in T : 0..x \subseteq Nat /\ IsFiniteSet(0..x)
    BY FS_Interval
  <2>2. QED
    BY <2>1 DEF FiniteSubsetsOf
<1> HIDE DEF R
<1>3. PICK I \in F : \A J \in F : <<J, I>> \notin R
  <2> HIDE DEF F
  <2>1. QED
    BY <1>1, <1>2, WFMin
<1>4. PICK x \in T : I = 0..x
  BY <1>3
<1>5. ASSUME NEW y \in T, y < x PROVE FALSE
  <2>1. 0..y \in F /\ x \in Nat /\ y \in Nat
    OBVIOUS
  <2>2. 0..y \subseteq I /\ 0..y # I
    BY <1>4, <1>5, <2>1
  <2>3. <<0..y, I>> \in StrictSubsetOrdering(Nat)
    BY <1>4, <2>1, <2>2 DEF StrictSubsetOrdering
  <2>4. QED
    BY <1>3, <2>1, <2>3 DEF R
<1>6. QED
  BY <1>5

\* First is that element.
LEMMA FirstIsLeast ==
  ASSUME NEW T, T \subseteq Nat, T # {}
  PROVE  First(T) \in T /\ \A y \in T : First(T) <= y
  BY LeastOf DEF First

\* An element below all the others is First.
LEMMA FirstIs ==
  ASSUME NEW T, T \subseteq Nat, NEW x \in T, \A y \in T : x <= y
  PROVE  First(T) = x
<1>1. First(T) \in T /\ First(T) <= x
  BY FirstIsLeast
<1>2. x <= First(T) /\ x \in Nat /\ First(T) \in Nat
  BY <1>1
<1>3. QED
  BY <1>1, <1>2

\* Quotient and remainder.
LEMMA Division ==
  ASSUME NEW a \in Nat, NEW M \in Nat \ {0}
  PROVE  /\ a \div M \in Nat /\ a % M \in 0..M - 1
         /\ a = M * (a \div M) + (a % M)
  OBVIOUS

\* Less in one factor is at least one less in the product.
LEMMA Products ==
  ASSUME NEW M \in Nat \ {0}, NEW p \in Int, NEW q \in Int, p < q
  PROVE  M * p + M <= M * q
<1>1. PICK d \in Int : d = q - p
  OBVIOUS
<1>2. M * d >= M
  <2>1. d >= 1
    BY <1>1
  <2>2. QED
    BY <2>1
<1>3. M * q = M * p + M * d
  BY <1>1
<1>4. QED
  BY <1>2, <1>3

\* They are the only ones.
LEMMA Quotient ==
  ASSUME NEW a \in Nat, NEW M \in Nat \ {0}, NEW q \in Int, NEW r \in 0..M - 1,
         a = M * q + r
  PROVE  a \div M = q /\ a % M = r
<1>1. PICK x \in Int, s \in 0..M - 1 : x = a \div M /\ s = a % M /\ a = M * x + s
  BY Division
<1>2. PICK mq \in Int, mx \in Int : mq = M * q /\ mx = M * x
  OBVIOUS
<1>3. mq + r = mx + s
  BY <1>1, <1>2
<1>4. ~(x < q)
  <2>1. x < q => mx + M <= mq
    BY <1>2, Products
  <2>2. QED
    BY <1>3, <2>1
<1>5. ~(q < x)
  <2>1. q < x => mq + M <= mx
    BY <1>2, Products
  <2>2. QED
    BY <1>3, <2>1
<1>6. x = q
  BY <1>4, <1>5
<1>7. s = r
  BY <1>2, <1>3, <1>6
<1>8. QED
  BY <1>1, <1>6, <1>7

-----------------------------------------------------------------------------
(***************************************************************************)
(* The target in four words.                                               *)
(***************************************************************************)

\* Dividing twice is dividing by the product.
LEMMA DivideTwice ==
  ASSUME NEW a \in Nat, NEW M \in Nat \ {0}, NEW K \in Nat \ {0}
  PROVE  a \div (K * M) = (a \div M) \div K
<1>1. PICK q \in Nat, r \in 0..M - 1 : q = a \div M /\ a = M * q + r
  BY Division
<1>2. PICK x \in Nat, s \in 0..K - 1 : x = q \div K /\ q = K * x + s
  BY Division
<1>3. K * M \in Nat \ {0}
  OBVIOUS
<1>4. M * s + r \in 0..K * M - 1
  <2>1. PICK ms \in Nat : ms = M * s
    OBVIOUS
  <2>2. PICK mk \in Nat : mk = M * K
    OBVIOUS
  <2>3. ms + M <= mk
    BY <2>1, <2>2, Products
  <2>4. ms + r \in 0..mk - 1
    BY <2>1, <2>2, <2>3
  <2>5. K * M = mk
    BY <2>2
  <2>6. QED
    BY <2>1, <2>4, <2>5
<1>5. a = (K * M) * x + (M * s + r)
  <2>1. a = M * (K * x + s) + r
    BY <1>1, <1>2
  <2>2. M * (K * x + s) = (K * M) * x + M * s
    OBVIOUS
  <2>3. QED
    BY <2>1, <2>2
<1>6. a \div (K * M) = x
  BY <1>3, <1>4, <1>5, Quotient
<1>7. QED
  BY <1>1, <1>2, <1>6

\* Two numbers compare as their quotients do, and as their remainders where
\* those are equal.
LEMMA CompareByDigit ==
  ASSUME NEW a \in Nat, NEW b \in Nat, NEW M \in Nat \ {0}
  PROVE  a < b <=> \/ a \div M < b \div M
                   \/ a \div M = b \div M /\ a % M < b % M
<1>1. PICK p \in Nat, r \in 0..M - 1 : p = a \div M /\ r = a % M /\ a = M * p + r
  BY Division
<1>2. PICK q \in Nat, s \in 0..M - 1 : q = b \div M /\ s = b % M /\ b = M * q + s
  BY Division
<1>3. PICK mp \in Int, mq \in Int : mp = M * p /\ mq = M * q
  OBVIOUS
<1>4. p < q => mp + M <= mq
  BY <1>3, Products
<1>5. q < p => mq + M <= mp
  BY <1>3, Products
<1>6. p = q => mp = mq
  BY <1>3
<1>7. a = mp + r /\ b = mq + s
  BY <1>1, <1>2, <1>3
<1>8. a < b <=> p < q \/ (p = q /\ r < s)
  BY <1>4, <1>5, <1>6, <1>7
<1>9. QED
  BY <1>1, <1>2, <1>8

\* The words of a number, by dividing one after the other off.
LEMMA Words ==
  ASSUME NEW v \in 0..TargetMax
  PROVE  LET q1 == v \div DigitMod
             q2 == q1 \div DigitMod
             q3 == q2 \div DigitMod
         IN /\ v \in Nat /\ q1 \in Nat /\ q2 \in Nat /\ q3 \in Nat
            /\ Digit(v, 0) = v % DigitMod
            /\ Digit(v, 1) = q1 % DigitMod
            /\ Digit(v, 2) = q2 % DigitMod
            /\ Digit(v, 3) = q3
<1> DEFINE M == DigitMod
           q1 == v \div M
           q2 == q1 \div M
           q3 == q2 \div M
<1>1. M \in Nat \ {0}
  BY TargetAssumption
<1>2. v \in Nat
  BY DEF TargetMax
<1>3. q1 \in Nat
  BY <1>1, <1>2, Division
<1>4. q2 \in Nat
  BY <1>1, <1>3, Division
<1>5. q3 \in Nat
  BY <1>1, <1>4, Division
<1>6. v \div (M * M) = q2
  BY <1>1, <1>2, DivideTwice
<1>7. v \div (M * M * M) = q3
  <2>1. M * M \in Nat \ {0}
    BY <1>1
  <2>2. v \div (M * (M * M)) = (v \div (M * M)) \div M
    BY <1>1, <1>2, <2>1, DivideTwice
  <2>3. M * (M * M) = M * M * M
    BY <1>1
  <2>4. QED
    BY <1>6, <2>2, <2>3
<1>8. q3 < M
  <2>1. PICK K \in Nat \ {0} : K = M * M * M
    BY <1>1
  <2>2. v = K * q3 + (v % K) /\ v % K \in 0..K - 1
    BY <1>2, <1>7, <2>1, Division
  <2>3. v < K * M
    <3>1. v <= TargetMax /\ TargetMax = K * M - 1
      BY <2>1 DEF TargetMax
    <3>2. K * M \in Int
      BY <1>1
    <3>3. QED
      BY <1>2, <3>1, <3>2
  <2>4. M < q3 => K * M + K <= K * q3
    BY <1>1, <1>5, <2>1, Products
  <2>5. PICK kq \in Int, km \in Int : kq = K * q3 /\ km = K * M
    BY <1>1, <1>5, <2>1
  <2>6. M = q3 => kq = km
    BY <2>5
  <2>7. kq <= v /\ v < km
    BY <2>1, <2>2, <2>3, <2>5
  <2>8. QED
    BY <1>1, <1>5, <2>1, <2>4, <2>5, <2>6, <2>7
<1>9. q3 % M = q3
  BY <1>1, <1>5, <1>8
<1>10. Digit(v, 1) = q1 % M /\ Digit(v, 2) = q2 % M /\ Digit(v, 3) = q3
  BY <1>6, <1>7, <1>9 DEF Digit, Weight
<1>11. v \div 1 = v
  BY <1>2
<1>12. Digit(v, 0) = v % M
  BY <1>11 DEF Digit, Weight
<1>13. QED
  BY <1>2, <1>3, <1>4, <1>5, <1>10, <1>12

\* A share target is one that four words hold: cut where the scaled difficulty
\* is larger (stratum_session.py 276-288).
LEMMA TargetFits ==
  ASSUME NEW halves \in Nat \ {1}, NEW explicit \in Nat \cup {NoTarget}, NEW daf \in Nat
  PROVE  share_target(halves, explicit, daf) \in 0..TargetMax
<1>1. TargetMax \in Nat
  <2>1. DigitMod * DigitMod * DigitMod * DigitMod \in Nat \ {0}
    BY TargetAssumption
  <2>2. QED
    BY <2>1 DEF TargetMax
<1>2. DiffTarget(halves, explicit) \in Nat
  <2>1. CASE halves > 0
    <3>1. halves \div 2 \in Nat \ {0}
      BY <2>1
    <3>2. Diff1Target \div (halves \div 2) \in Nat
      BY <3>1, TargetAssumption, Division
    <3>3. QED
      BY <2>1, <3>2 DEF DiffTarget
  <2>2. CASE ~(halves > 0)
    BY <2>2, TargetAssumption DEF DiffTarget
  <2>3. QED
    BY <2>1, <2>2
<1>3. DiffTarget(halves, explicit) * daf \in Nat
  BY <1>2
<1>4. QED
  BY <1>1, <1>3 DEF share_target, Clamp

\* "Lex compare from the high word down": the word-by-word test of the device
\* searches is the comparison of the numbers, for every digest and every
\* target a session announces (jackpot_gpu.py 338-358, candidate_search.py 112,
\* stratum_session.py 276-288).
THEOREM WordsDecide ==
  ASSUME NEW v \in 0..TargetMax, NEW halves \in Nat \ {1},
         NEW explicit \in Nat \cup {NoTarget}, NEW daf \in Nat
  PROVE  BelowByWords(v, share_target(halves, explicit, daf))
           <=> Below(v, share_target(halves, explicit, daf))
<1>1. PICK t \in 0..TargetMax : t = share_target(halves, explicit, daf)
  BY TargetFits
<1> DEFINE M == DigitMod
           v1 == v \div M
           v2 == v1 \div M
           v3 == v2 \div M
           t1 == t \div M
           t2 == t1 \div M
           t3 == t2 \div M
<1>2. /\ v \in Nat /\ v1 \in Nat /\ v2 \in Nat /\ v3 \in Nat
      /\ Digit(v, 0) = v % M /\ Digit(v, 1) = v1 % M /\ Digit(v, 2) = v2 % M
      /\ Digit(v, 3) = v3
  BY Words
<1>3. /\ t \in Nat /\ t1 \in Nat /\ t2 \in Nat /\ t3 \in Nat
      /\ Digit(t, 0) = t % M /\ Digit(t, 1) = t1 % M /\ Digit(t, 2) = t2 % M
      /\ Digit(t, 3) = t3
  BY Words
<1>4. M \in Nat \ {0}
  BY TargetAssumption
<1> HIDE DEF M, v1, v2, v3, t1, t2, t3
<1>5. v < t <=> v1 < t1 \/ (v1 = t1 /\ Digit(v, 0) < Digit(t, 0))
  <2>1. v \in Nat /\ t \in Nat
    BY <1>2, <1>3
  <2>2. v < t <=> \/ v \div M < t \div M
                  \/ v \div M = t \div M /\ v % M < t % M
    BY <1>4, <2>1, CompareByDigit
  <2>3. QED
    BY <1>2, <1>3, <2>2 DEF v1, t1
<1>6. v1 < t1 <=> v2 < t2 \/ (v2 = t2 /\ Digit(v, 1) < Digit(t, 1))
  <2>1. v1 \in Nat /\ t1 \in Nat
    BY <1>2, <1>3
  <2>2. v1 < t1 <=> \/ v1 \div M < t1 \div M
                    \/ v1 \div M = t1 \div M /\ v1 % M < t1 % M
    BY <1>4, <2>1, CompareByDigit
  <2>3. QED
    BY <1>2, <1>3, <2>2 DEF v2, t2
<1>7. v2 < t2 <=> v3 < t3 \/ (v3 = t3 /\ Digit(v, 2) < Digit(t, 2))
  <2>1. v2 \in Nat /\ t2 \in Nat
    BY <1>2, <1>3
  <2>2. v2 < t2 <=> \/ v2 \div M < t2 \div M
                    \/ v2 \div M = t2 \div M /\ v2 % M < t2 % M
    BY <1>4, <2>1, CompareByDigit
  <2>3. QED
    BY <1>2, <1>3, <2>2 DEF v3, t3
<1>8. v1 = t1 <=> v2 = t2 /\ Digit(v, 1) = Digit(t, 1)
  <2>1. v1 = M * v2 + (v1 % M) /\ t1 = M * t2 + (t1 % M)
    BY <1>2, <1>3, <1>4, Division DEF v2, t2
  <2>2. v1 = t1 => v2 = t2
    BY DEF v2, t2
  <2>3. QED
    BY <1>2, <1>3, <2>1, <2>2
<1>9. v2 = t2 <=> v3 = t3 /\ Digit(v, 2) = Digit(t, 2)
  <2>1. v2 = M * v3 + (v2 % M) /\ t2 = M * t3 + (t2 % M)
    BY <1>2, <1>3, <1>4, Division DEF v3, t3
  <2>2. v2 = t2 => v3 = t3
    BY DEF v3, t3
  <2>3. QED
    BY <1>2, <1>3, <2>1, <2>2
<1>10. v < t <=> \/ Digit(v, 3) < Digit(t, 3)
                 \/ Digit(v, 3) = Digit(t, 3) /\ Digit(v, 2) < Digit(t, 2)
                 \/ /\ Digit(v, 3) = Digit(t, 3) /\ Digit(v, 2) = Digit(t, 2)
                    /\ Digit(v, 1) < Digit(t, 1)
                 \/ /\ Digit(v, 3) = Digit(t, 3) /\ Digit(v, 2) = Digit(t, 2)
                    /\ Digit(v, 1) = Digit(t, 1) /\ Digit(v, 0) < Digit(t, 0)
  BY <1>2, <1>3, <1>5, <1>6, <1>7, <1>8, <1>9
<1>11. /\ 0 + 1..3 = {1, 2, 3} /\ 1 + 1..3 = {2, 3} /\ 2 + 1..3 = {3} /\ 3 + 1..3 = {}
       /\ 0..3 = {0, 1, 2, 3}
  OBVIOUS
<1>12. BelowByWords(v, t) <=> v < t
  BY <1>10, <1>11 DEF BelowByWords
<1>13. QED
  BY <1>1, <1>12 DEF Below

-----------------------------------------------------------------------------
(***************************************************************************)
(* Batches of the grid.                                                    *)
(***************************************************************************)

\* Every position lies in one batch.
LEMMA StartOf ==
  ASSUME NEW i \in Nat \ {0}, NEW b \in Nat \ {0}
  PROVE  \E at \in Nat : at % b = 0 /\ at < i /\ i <= at + b
<1>1. PICK q \in Nat, r \in 0..b - 1 : i - 1 = b * q + r
  <2>1. PICK c \in Nat : c = i - 1
    OBVIOUS
  <2>2. c = b * (c \div b) + (c % b) /\ c \div b \in Nat /\ c % b \in 0..b - 1
    BY Division
  <2>3. QED
    BY <2>1, <2>2
<1>2. PICK at \in Nat : at = b * q
  OBVIOUS
<1>3. at = b * q + 0 /\ 0 \in 0..b - 1
  BY <1>2
<1>4. at % b = 0
  BY <1>3, Quotient
<1>5. i - 1 = at + r
  BY <1>1, <1>2
<1>6. QED
  BY <1>4, <1>5

\* Batches are at least their size apart.
LEMMA StartsApart ==
  ASSUME NEW at \in Nat, NEW au \in Nat, NEW b \in Nat \ {0},
         at % b = 0, au % b = 0, at < au
  PROVE  at + b <= au
<1>1. PICK p \in Nat : at = b * p
  <2>1. at = b * (at \div b) + (at % b) /\ at \div b \in Nat
    BY Division
  <2>2. QED
    BY <2>1
<1>2. PICK q \in Nat : au = b * q
  <2>1. au = b * (au \div b) + (au % b) /\ au \div b \in Nat
    BY Division
  <2>2. QED
    BY <2>1
<1>3. p < q
  <2>1. q < p => b * q + b <= b * p
    BY Products
  <2>2. p = q => at = au
    BY <1>1, <1>2
  <2>3. QED
    BY <1>1, <1>2, <2>1, <2>2
<1>4. QED
  BY <1>1, <1>2, <1>3, Products

\* What is left of n candidates under a cap.
LEMMA CappedIs ==
  ASSUME NEW cap \in Nat, NEW n \in Nat
  PROVE  /\ Capped(cap, n) \in 0..n
         /\ cap # Unlimited => Capped(cap, n) <= cap
         /\ cap = Unlimited => Capped(cap, n) = n
  BY DEF Capped, Unlimited

\* The positions within the limit that are below the target, and those of one
\* batch, counted from its start.
Winning(grid, below, n) == {i \in 1..n : grid[i] \in below}
InBatch(W, at, end)     == {x \in 1..end - at : at + x \in W}

\* e gives the end of each batch, and these are the starts of the ones that hit.
BatchEnds(e, n, b) == \A at \in Starts(n, b) : e[at] = IF at + b <= n THEN at + b ELSE n
Hitting(W, n, b, e) == {at \in Starts(n, b) : InBatch(W, at, e[at]) # {}}

\* The first batch with a winning position holds the first winning position.
LEMMA FirstBatch ==
  ASSUME NEW n \in Nat, NEW W \in SUBSET (1..n), NEW b \in Nat \ {0}, NEW e,
         BatchEnds(e, n, b), NEW hitting, hitting = Hitting(W, n, b, e)
  PROVE  /\ W = {} => hitting = {}
         /\ W # {} =>
              /\ hitting # {} /\ First(hitting) \in Starts(n, b)
              /\ First(InBatch(W, First(hitting), e[First(hitting)]))
                   \in InBatch(W, First(hitting), e[First(hitting)])
              /\ First(W) = First(hitting)
                              + First(InBatch(W, First(hitting), e[First(hitting)]))
<1> USE DEF BatchEnds, Hitting
<1>1. W = {} => hitting = {}
  BY DEF InBatch
<1>2. ASSUME W # {}
      PROVE  \E at \in hitting : /\ \A au \in hitting : at <= au
                                 /\ First(W) \in at + 1..e[at]
  <2>1. First(W) \in W /\ \A y \in W : First(W) <= y
    <3>1. W \subseteq Nat
      OBVIOUS
    <3>2. QED
      BY <1>2, <3>1, FirstIsLeast
  <2>2. PICK i \in 1..n : i = First(W)
    BY <2>1
  <2>3. PICK at \in Nat : at % b = 0 /\ at < i /\ i <= at + b
    <3>1. i \in Nat \ {0}
      OBVIOUS
    <3>2. QED
      BY <3>1, StartOf
  <2>4. at \in Starts(n, b)
    BY <2>2, <2>3 DEF Starts
  <2>5. at < i /\ i <= e[at] /\ e[at] \in Nat
    BY <2>2, <2>3, <2>4
  <2>6. i - at \in InBatch(W, at, e[at])
    <3>1. i - at \in 1..e[at] - at /\ at + (i - at) = i
      BY <2>3, <2>5
    <3>2. QED
      BY <2>1, <2>2, <3>1 DEF InBatch
  <2>7. ASSUME NEW au \in hitting, au < at PROVE FALSE
    <3>1. au \in Nat /\ au % b = 0 /\ au \in Starts(n, b) /\ au < n
      BY DEF Starts
    <3>2. au + b <= at
      BY <2>3, <2>7, <3>1, StartsApart
    <3>3. PICK x \in 1..e[au] - au : au + x \in W
      BY DEF InBatch
    <3>4. e[au] = au + b
      BY <2>2, <2>3, <3>1, <3>2
    <3>5. x \in Nat /\ x <= b
      BY <3>1, <3>3, <3>4
    <3>6. au + x < i
      BY <2>2, <2>3, <3>1, <3>2, <3>5
    <3>7. QED
      BY <2>1, <2>2, <3>1, <3>3, <3>5, <3>6
  <2>8. \A au \in hitting : at <= au
    <3>1. SUFFICES ASSUME NEW au \in hitting PROVE at <= au
      OBVIOUS
    <3>2. ~(au < at)
      BY <2>7
    <3>3. au \in Nat
      BY DEF Starts
    <3>4. QED
      BY <3>2, <3>3
  <2>9. First(W) \in at + 1..e[at]
    BY <2>2, <2>3, <2>5
  <2>10. QED
    BY <2>4, <2>6, <2>8, <2>9
<1>3. ASSUME W # {}
      PROVE  /\ hitting # {} /\ First(hitting) \in Starts(n, b)
             /\ First(InBatch(W, First(hitting), e[First(hitting)]))
                  \in InBatch(W, First(hitting), e[First(hitting)])
             /\ First(W) = First(hitting)
                             + First(InBatch(W, First(hitting), e[First(hitting)]))
  <2>1. PICK at \in hitting : /\ \A au \in hitting : at <= au
                              /\ First(W) \in at + 1..e[at]
    BY <1>2, <1>3
  <2>2. hitting \subseteq Nat /\ at \in Starts(n, b) /\ at \in Nat
    BY DEF Starts
  <2>3. First(hitting) = at
    BY <2>1, <2>2, FirstIs
  <2>4. First(W) \in W /\ \A y \in W : First(W) <= y
    <3>1. W \subseteq Nat
      OBVIOUS
    <3>2. QED
      BY <1>3, <3>1, FirstIsLeast
  <2>5. PICK i \in 1..n : i = First(W)
    BY <2>4
  <2>6. e[at] \in Nat
    BY <2>2 DEF Starts
  <2>7. i - at \in 1..e[at] - at /\ at + (i - at) = i
    BY <2>1, <2>2, <2>5, <2>6
  <2>8. i - at \in InBatch(W, at, e[at])
    BY <2>4, <2>5, <2>7 DEF InBatch
  <2>9. ASSUME NEW x \in InBatch(W, at, e[at]) PROVE i - at <= x
    <3>1. x \in 1..e[at] - at /\ at + x \in W
      BY DEF InBatch
    <3>2. x \in Nat /\ i <= at + x
      BY <2>4, <2>5, <2>6, <2>2, <3>1
    <3>3. QED
      BY <2>2, <2>5, <3>2
  <2>10. InBatch(W, at, e[at]) \subseteq Nat
    BY <2>2, <2>6 DEF InBatch
  <2>11. First(InBatch(W, at, e[at])) = i - at
    BY <2>8, <2>9, <2>10, FirstIs
  <2>12. QED
    BY <2>1, <2>2, <2>3, <2>5, <2>7, <2>8, <2>11
<1>4. QED
  BY <1>1, <1>3

-----------------------------------------------------------------------------
(***************************************************************************)
(* The searches.                                                           *)
(***************************************************************************)

\* A batch of the grid, cut off within the limit n.
LEMMA BatchHits ==
  ASSUME NEW Cand, NEW grid \in Seq(Cand), NEW below, NEW n \in 0..Len(grid),
         NEW at \in 0..n, NEW end \in at..n
  PROVE  LET B == SubSeq(grid, at + 1, end)
         IN /\ B \in Seq(Cand) /\ Len(B) = end - at
            /\ \A x \in 1..end - at : B[x] = grid[at + x]
            /\ Hits(B, below) = InBatch(Winning(grid, below, n), at, end)
<1> DEFINE B == SubSeq(grid, at + 1, end)
<1>1. at \in Nat /\ end \in Nat /\ Len(grid) \in Nat /\ at <= end /\ end <= n /\ n <= Len(grid)
  OBVIOUS
<1>2. \A x \in at + 1..end : grid[x] \in Cand
  BY <1>1
<1>3. /\ B \in Seq(Cand) /\ Len(B) = (IF at + 1 <= end THEN end - (at + 1) + 1 ELSE 0)
      /\ \A x \in 1..end - (at + 1) + 1 : B[x] = grid[(at + 1) + x - 1]
  <2>1. PICK from \in Int, to \in Int : from = at + 1 /\ to = end
    BY <1>1
  <2>2. /\ SubSeq(grid, from, to) \in Seq(Cand)
        /\ Len(SubSeq(grid, from, to)) = IF from <= to THEN to - from + 1 ELSE 0
        /\ \A x \in 1..to - from + 1 : SubSeq(grid, from, to)[x] = grid[from + x - 1]
    BY <1>2, <2>1, SubSeqProperties
  <2>3. QED
    BY <2>1, <2>2
<1>4. Len(B) = end - at
  BY <1>1, <1>3
<1>5. \A x \in 1..end - at : B[x] = grid[at + x]
  BY <1>1, <1>3
<1> HIDE DEF B
<1>6. Hits(B, below) = {x \in 1..end - at : grid[at + x] \in below}
  BY <1>4, <1>5 DEF Hits
<1>7. \A x \in 1..end - at : at + x \in 1..n
  BY <1>1
<1>8. Hits(B, below) = InBatch(Winning(grid, below, n), at, end)
  BY <1>6, <1>7 DEF InBatch, Winning
<1>9. QED
  BY <1>3, <1>4, <1>5, <1>8 DEF B

\* The loop gives the first winning position.
LEMMA CpuSearch ==
  ASSUME NEW Cand, NEW grid \in Seq(Cand), NEW below, NEW cap \in Nat
  PROVE  LET n == Capped(cap, Len(grid))
             W == Winning(grid, below, n)
         IN search_candidate(grid, below, cap) =
              IF W = {} THEN Nothing(n) ELSE [hit |-> grid[First(W)], attempts |-> First(W)]
<1> DEFINE n == Capped(cap, Len(grid))
           W == Winning(grid, below, n)
           B == SubSeq(grid, 1, n)
<1>1. n \in 0..Len(grid) /\ n \in Nat /\ 0 \in 0..n /\ n \in 0..n
  <2>1. Len(grid) \in Nat
    OBVIOUS
  <2>2. n \in 0..Len(grid)
    BY <2>1, CappedIs
  <2>3. QED
    BY <2>1, <2>2
<1> HIDE DEF n
<1>2. Len(B) = n /\ Hits(B, below) = InBatch(W, 0, n)
  <2>1. /\ Len(SubSeq(grid, 0 + 1, n)) = n - 0
        /\ Hits(SubSeq(grid, 0 + 1, n), below) = InBatch(Winning(grid, below, n), 0, n)
    BY <1>1, BatchHits
  <2>2. 0 + 1 = 1 /\ n - 0 = n
    BY <1>1
  <2>3. QED
    BY <2>1, <2>2
<1>3. InBatch(W, 0, n) = W
  <2>1. 1..n - 0 = 1..n /\ \A x \in 1..n : 0 + x = x
    BY <1>1
  <2>2. QED
    BY <2>1 DEF InBatch, Winning
<1>4. Hits(B, below) = W /\ Len(B) = n
  BY <1>2, <1>3
<1> HIDE DEF W, B
<1>5. search_candidate(grid, below, cap) =
        IF W = {} THEN Nothing(n) ELSE [hit |-> grid[First(W)], attempts |-> First(W)]
  BY <1>4 DEF search_candidate, n, B
<1>6. QED
  BY <1>5 DEF n, W

\* One batch of a search, within the cap.
LEMMA BatchOf ==
  ASSUME NEW Cand, NEW grid \in Seq(Cand), NEW below, NEW cap \in Nat, NEW b \in Nat \ {0},
         NEW n, n = Capped(cap, Len(grid)), NEW at \in Starts(n, b),
         NEW end, end = Capped(cap, Capped(at + b, Len(grid)))
  PROVE  /\ n \in 0..Len(grid) /\ at \in 0..n /\ at < n /\ end \in at..n
         /\ end = IF at + b <= n THEN at + b ELSE n
         /\ Len(SubSeq(grid, at + 1, end)) = end - at
         /\ \A x \in 1..end - at : SubSeq(grid, at + 1, end)[x] = grid[at + x]
         /\ Hits(SubSeq(grid, at + 1, end), below) = InBatch(Winning(grid, below, n), at, end)
<1>1. Len(grid) \in Nat
  OBVIOUS
<1>2. n \in 0..Len(grid)
  BY <1>1, CappedIs
<1>3. at \in Nat /\ at < n /\ end = IF at + b <= n THEN at + b ELSE n
  <2>1. at \in Nat /\ at < n
    BY <1>2 DEF Starts
  <2>2. PICK len \in Nat : len = Len(grid)
    BY <1>1
  <2>3. n = Capped(cap, len) /\ end = Capped(cap, Capped(at + b, len))
    BY <2>2
  <2>4. QED
    BY <2>1, <2>3 DEF Capped, Unlimited
<1>4. at \in 0..n /\ end \in at..n
  BY <1>2, <1>3
<1>5. /\ Len(SubSeq(grid, at + 1, end)) = end - at
      /\ \A x \in 1..end - at : SubSeq(grid, at + 1, end)[x] = grid[at + x]
      /\ Hits(SubSeq(grid, at + 1, end), below) = InBatch(Winning(grid, below, n), at, end)
  BY <1>2, <1>4, BatchHits
<1>6. QED
  BY <1>2, <1>3, <1>4, <1>5

\* A batch that is cut off at the cap is the batch that ends there.
LEMMA CutIs ==
  ASSUME NEW Cand, NEW grid \in Seq(Cand), NEW cap \in Nat, NEW b \in Nat \ {0},
         NEW at \in Starts(Capped(cap, Len(grid)), b)
  PROVE  Cut(SubSeq(grid, at + 1, Capped(at + b, Len(grid))), at, cap)
           = SubSeq(grid, at + 1, Capped(cap, Capped(at + b, Len(grid))))
<1>1. PICK n \in Nat : n = Capped(cap, Len(grid)) /\ n <= Len(grid)
  <2>1. Len(grid) \in Nat
    OBVIOUS
  <2>2. Capped(cap, Len(grid)) \in 0..Len(grid)
    BY <2>1, CappedIs
  <2>3. QED
    BY <2>1, <2>2
<1>2. at \in Nat /\ at < n
  BY <1>1 DEF Starts
<1>3. PICK m \in Nat : m = Capped(at + b, Len(grid)) /\ m <= Len(grid) /\ at <= m
  BY <1>1, <1>2 DEF Capped, Unlimited
<1> DEFINE I == SubSeq(grid, at + 1, m)
<1>4. /\ I \in Seq(Cand) /\ Len(I) = m - at
      /\ \A x \in 1..m - at : I[x] = grid[at + x]
  <2>1. m \in 0..Len(grid) /\ at \in 0..m /\ m \in at..m
    BY <1>2, <1>3
  <2>2. QED
    BY <2>1, BatchHits
<1>5. CASE cap # Unlimited /\ m > cap
  <2>1. Capped(cap, m) = cap
    BY <1>5 DEF Capped
  <2>2. n = cap
    BY <1>1, <1>3, <1>5 DEF Capped
  <2>3. at + Len(I) > cap
    BY <1>2, <1>4, <1>5
  <2>4. cap \in 0..Len(grid) /\ at \in 0..cap /\ cap \in at..cap
    BY <1>1, <1>2, <2>2
  <2>5. /\ SubSeq(grid, at + 1, cap) \in Seq(Cand)
        /\ Len(SubSeq(grid, at + 1, cap)) = cap - at
        /\ \A x \in 1..cap - at : SubSeq(grid, at + 1, cap)[x] = grid[at + x]
    BY <2>4, BatchHits
  <2>6. cap - at \in 1..Len(I) /\ Len(I) \in Nat
    BY <1>2, <1>4, <1>5, <2>2
  <2> HIDE DEF I
  <2>7. /\ SubSeq(I, 1, cap - at) \in Seq(Cand)
        /\ Len(SubSeq(I, 1, cap - at)) = cap - at
        /\ \A x \in 1..cap - at : SubSeq(I, 1, cap - at)[x] = I[x]
    <3>1. \A x \in 1..cap - at : I[x] \in Cand
      BY <1>4, <2>6
    <3>2. PICK to \in Int : to = cap - at /\ 1 <= to
      BY <2>6
    <3>3. /\ SubSeq(I, 1, to) \in Seq(Cand)
          /\ Len(SubSeq(I, 1, to)) = to - 1 + 1
          /\ \A x \in 1..to - 1 + 1 : SubSeq(I, 1, to)[x] = I[1 + x - 1]
      BY <3>1, <3>2, SubSeqProperties
    <3>4. QED
      BY <3>2, <3>3
  <2>8. \A x \in 1..cap - at : SubSeq(I, 1, cap - at)[x] = SubSeq(grid, at + 1, cap)[x]
    <3>1. \A x \in 1..cap - at : I[x] = grid[at + x]
      BY <1>2, <1>3, <1>4, <1>5
    <3>2. QED
      BY <2>5, <2>7, <3>1
  <2>9. SubSeq(I, 1, cap - at) = SubSeq(grid, at + 1, cap)
    BY <2>5, <2>7, <2>8, SeqEqual
  <2>10. Cut(I, at, cap) = SubSeq(I, 1, cap - at)
    BY <1>5, <2>3 DEF Cut
  <2>11. QED
    BY <1>3, <2>1, <2>9, <2>10 DEF I
<1>6. CASE ~(cap # Unlimited /\ m > cap)
  <2>1. Capped(cap, m) = m
    BY <1>3, <1>6 DEF Capped
  <2>2. at + Len(I) = m
    BY <1>2, <1>3, <1>4
  <2> HIDE DEF I
  <2>3. Cut(I, at, cap) = I
    BY <1>6, <2>2 DEF Cut
  <2>4. QED
    BY <1>3, <2>1, <2>3 DEF I
<1>7. QED
  BY <1>5, <1>6

\* The native search is the loop, batch by batch: the same candidate, and the
\* same count of attempts, whatever the batch size and the cap
\* (jackpot_vk.cpp 263-301, candidate_search.py 83-124).
THEOREM VkFindsFirst ==
  ASSUME NEW Cand, NEW grid \in Seq(Cand), NEW below, NEW cap \in Nat, NEW b \in Nat \ {0}
  PROVE  JackpotVkSearch(grid, below, cap, b) = search_candidate(grid, below, cap)
<1> DEFINE n == Capped(cap, Len(grid))
           W == Winning(grid, below, n)
           End(at) == Capped(cap, Capped(at + b, Len(grid)))
           e == [at \in Starts(n, b) |-> End(at)]
           Batch(at) == SubSeq(grid, at + 1, End(at))
           hitting == {at \in Starts(n, b) : Hits(Batch(at), below) # {}}
<1>1. JackpotVkSearch(grid, below, cap, b) =
        IF hitting = {} THEN Nothing(n)
        ELSE LET at == First(hitting)
                 i == First(Hits(Batch(at), below))
             IN [hit |-> Batch(at)[i], attempts |-> at + i]
  BY DEF JackpotVkSearch
<1>2. n \in Nat
  <2>1. Len(grid) \in Nat
    OBVIOUS
  <2>2. n \in 0..Len(grid)
    BY <2>1, CappedIs
  <2>3. QED
    BY <2>1, <2>2
<1>3. ASSUME NEW at \in Starts(n, b)
      PROVE  /\ End(at) = IF at + b <= n THEN at + b ELSE n
             /\ Hits(Batch(at), below) = InBatch(W, at, End(at))
             /\ \A x \in 1..End(at) - at : Batch(at)[x] = grid[at + x]
  <2>1. /\ n = Capped(cap, Len(grid)) /\ End(at) = Capped(cap, Capped(at + b, Len(grid)))
        /\ W = Winning(grid, below, n) /\ Batch(at) = SubSeq(grid, at + 1, End(at))
    OBVIOUS
  <2> HIDE DEF n, W, End, e, Batch, hitting
  <2>2. QED
    BY <2>1, BatchOf
<1>4. \A at \in Starts(n, b) : e[at] = End(at)
  OBVIOUS
<1> HIDE DEF n, e, End, Batch
<1>5. BatchEnds(e, n, b)
  BY <1>3, <1>4 DEF BatchEnds
<1>6. hitting = Hitting(W, n, b, e)
  BY <1>3, <1>4 DEF Hitting
<1>7. W \in SUBSET (1..n)
  BY DEF Winning
<1> HIDE DEF W, hitting
<1>8. /\ W = {} => hitting = {}
      /\ W # {} =>
           /\ hitting # {} /\ First(hitting) \in Starts(n, b)
           /\ First(InBatch(W, First(hitting), e[First(hitting)]))
                \in InBatch(W, First(hitting), e[First(hitting)])
           /\ First(W) = First(hitting)
                           + First(InBatch(W, First(hitting), e[First(hitting)]))
  BY <1>2, <1>5, <1>6, <1>7, FirstBatch
<1>9. CASE W = {}
  <2>1. search_candidate(grid, below, cap) = Nothing(n)
    BY <1>9, CpuSearch DEF n, W
  <2>2. QED
    BY <1>1, <1>8, <1>9, <2>1
<1>10. CASE W # {}
  <2>1. PICK at \in Starts(n, b) : at = First(hitting) /\ hitting # {}
    BY <1>8, <1>10
  <2>2. PICK i : i = First(InBatch(W, at, End(at))) /\ i \in 1..End(at) - at
    BY <1>4, <1>8, <1>10, <2>1 DEF InBatch
  <2>3. First(W) = at + i
    BY <1>4, <1>8, <1>10, <2>1, <2>2
  <2>4. First(Hits(Batch(at), below)) = i /\ Batch(at)[i] = grid[at + i]
    BY <1>3, <2>2
  <2>5. JackpotVkSearch(grid, below, cap, b) = [hit |-> grid[at + i], attempts |-> at + i]
    BY <1>1, <2>1, <2>4
  <2>6. search_candidate(grid, below, cap) = [hit |-> grid[First(W)], attempts |-> First(W)]
    BY <1>10, CpuSearch DEF n, W
  <2>7. QED
    BY <2>3, <2>5, <2>6
<1>11. QED
  BY <1>9, <1>10

\* The OpenCL search gives the candidate the loop gives.  It counts the whole
\* batch of the winner: never fewer attempts, less than a batch more, and none
\* beyond the cap (jackpot_gpu.py 286-383, candidate_search.py 83-124).
THEOREM GpuFindsFirst ==
  ASSUME NEW Cand, NEW grid \in Seq(Cand), NEW below, NEW cap \in Nat, NEW b \in Nat \ {0}
  PROVE  LET gpu == JackpotGpuSearch(grid, below, cap, b)
             cpu == search_candidate(grid, below, cap)
         IN /\ gpu.hit = cpu.hit
            /\ cpu.attempts <= gpu.attempts /\ gpu.attempts < cpu.attempts + b
            /\ cap # Unlimited => gpu.attempts <= cap
<1> DEFINE n == Capped(cap, Len(grid))
           W == Winning(grid, below, n)
           End(at) == Capped(cap, Capped(at + b, Len(grid)))
           e == [at \in Starts(n, b) |-> End(at)]
           Batch(at) == Cut(SubSeq(grid, at + 1, Capped(at + b, Len(grid))), at, cap)
           hitting == {at \in Starts(n, b) : Hits(Batch(at), below) # {}}
           gpu == JackpotGpuSearch(grid, below, cap, b)
           cpu == search_candidate(grid, below, cap)
<1>1. gpu = IF hitting = {} THEN Nothing(n)
            ELSE LET at == First(hitting)
                 IN [hit |-> Batch(at)[First(Hits(Batch(at), below))],
                     attempts |-> at + Len(Batch(at))]
  BY DEF JackpotGpuSearch, Winner
<1>2. n \in Nat /\ (cap # Unlimited => n <= cap)
  <2>1. Len(grid) \in Nat
    OBVIOUS
  <2>2. n \in 0..Len(grid) /\ (cap # Unlimited => n <= cap)
    BY <2>1, CappedIs
  <2>3. QED
    BY <2>1, <2>2
<1>3. ASSUME NEW at \in Starts(n, b)
      PROVE  /\ at \in 0..n /\ End(at) \in at..n
             /\ End(at) = IF at + b <= n THEN at + b ELSE n
             /\ Len(Batch(at)) = End(at) - at
             /\ Hits(Batch(at), below) = InBatch(W, at, End(at))
             /\ \A x \in 1..End(at) - at : Batch(at)[x] = grid[at + x]
  <2>1. Batch(at) = SubSeq(grid, at + 1, End(at))
    BY CutIs
  <2>2. /\ n = Capped(cap, Len(grid)) /\ End(at) = Capped(cap, Capped(at + b, Len(grid)))
        /\ W = Winning(grid, below, n)
    OBVIOUS
  <2> HIDE DEF n, W, End, e, Batch, hitting
  <2>3. QED
    BY <2>1, <2>2, BatchOf
<1>4. \A at \in Starts(n, b) : e[at] = End(at)
  OBVIOUS
<1> HIDE DEF n, e, End, Batch, gpu, cpu
<1>5. BatchEnds(e, n, b)
  BY <1>3, <1>4 DEF BatchEnds
<1>6. hitting = Hitting(W, n, b, e)
  BY <1>3, <1>4 DEF Hitting
<1>7. W \in SUBSET (1..n)
  BY DEF Winning
<1> HIDE DEF W, hitting
<1>8. /\ W = {} => hitting = {}
      /\ W # {} =>
           /\ hitting # {} /\ First(hitting) \in Starts(n, b)
           /\ First(InBatch(W, First(hitting), e[First(hitting)]))
                \in InBatch(W, First(hitting), e[First(hitting)])
           /\ First(W) = First(hitting)
                           + First(InBatch(W, First(hitting), e[First(hitting)]))
  BY <1>2, <1>5, <1>6, <1>7, FirstBatch
<1>9. CASE W = {}
  <2>1. cpu = Nothing(n)
    BY <1>9, CpuSearch DEF n, W, cpu
  <2>2. gpu = Nothing(n)
    BY <1>1, <1>8, <1>9
  <2>3. Nothing(n).attempts = n
    BY DEF Nothing
  <2>4. QED
    BY <1>2, <2>1, <2>2, <2>3 DEF gpu, cpu
<1>10. CASE W # {}
  <2>1. PICK at \in Starts(n, b) : at = First(hitting) /\ hitting # {}
    BY <1>8, <1>10
  <2>2. PICK i : i = First(InBatch(W, at, End(at))) /\ i \in 1..End(at) - at
    BY <1>4, <1>8, <1>10, <2>1 DEF InBatch
  <2>3. First(W) = at + i
    BY <1>4, <1>8, <1>10, <2>1, <2>2
  <2>4. First(Hits(Batch(at), below)) = i /\ Batch(at)[i] = grid[at + i]
    BY <1>3, <2>2
  <2>5. gpu = [hit |-> grid[at + i], attempts |-> at + Len(Batch(at))]
    BY <1>1, <2>1, <2>4
  <2>6. cpu = [hit |-> grid[First(W)], attempts |-> First(W)]
    BY <1>10, CpuSearch DEF n, W, cpu
  <2>7. at \in Nat /\ End(at) \in Nat /\ End(at) <= n /\ End(at) <= at + b
    BY <1>2, <1>3
  <2>8. gpu.attempts = End(at) /\ cpu.attempts = at + i /\ gpu.hit = cpu.hit
    <3>1. Len(Batch(at)) = End(at) - at
      BY <1>3
    <3>2. at + Len(Batch(at)) = End(at)
      BY <2>7, <3>1
    <3>3. QED
      BY <2>3, <2>5, <2>6, <3>2
  <2>9. i \in Nat \ {0} /\ at + i <= End(at)
    BY <2>2, <2>7
  <2>10. QED
    BY <1>2, <2>7, <2>8, <2>9 DEF gpu, cpu
<1>11. QED
  BY <1>9, <1>10

-----------------------------------------------------------------------------
(***************************************************************************)
(* The coopmat sweep.                                                      *)
(***************************************************************************)

\* The row and the column of the d-th candidate of workgroup w.
RowOf(w, d, win, nblocks) == (w \div nblocks) * win + d
ColOf(w, nblocks)         == 1 + (w % nblocks)

\* count rows are whole bands, and every band meets every block.
WholeBands(win, bands, nblocks, total, count) ==
  /\ win \in Nat \ {0} /\ bands \in Nat /\ nblocks \in Nat
  /\ total = bands * nblocks /\ count = win * bands

\* A candidate of a whole band belongs to one workgroup below the total.
LEMMA WorkgroupOf ==
  ASSUME NEW win, NEW bands, NEW nblocks, NEW total, NEW count,
         WholeBands(win, bands, nblocks, total, count),
         NEW i \in 1..count, NEW j \in 1..nblocks
  PROVE  \E w \in 0..total - 1, d \in 1..win :
           RowOf(w, d, win, nblocks) = i /\ ColOf(w, nblocks) = j
<1> USE DEF WholeBands
<1>1. win * bands \in Nat /\ i \in Nat \ {0} /\ nblocks \in Nat \ {0}
  OBVIOUS
<1>2. PICK c \in Nat : c = i - 1
  BY <1>1
<1>3. PICK band \in Nat, r \in 0..win - 1 : c = win * band + r
  <2>1. c = win * (c \div win) + (c % win) /\ c \div win \in Nat /\ c % win \in 0..win - 1
    BY Division
  <2>2. QED
    BY <2>1
<1>4. band < bands
  <2>1. bands < band => win * bands + win <= win * band
    BY Products
  <2>2. PICK wb \in Int, ws \in Int : wb = win * band /\ ws = win * bands
    OBVIOUS
  <2>3. bands = band => wb = ws
    BY <2>2
  <2>4. wb < ws
    BY <1>1, <1>2, <1>3, <2>2
  <2>5. QED
    BY <2>1, <2>2, <2>3, <2>4
<1>5. PICK w \in Nat : w = nblocks * band + (j - 1)
  BY <1>1
<1>6. w \div nblocks = band /\ w % nblocks = j - 1
  <2>1. j - 1 \in 0..nblocks - 1
    OBVIOUS
  <2>2. QED
    BY <1>1, <1>5, <2>1, Quotient
<1>7. w < bands * nblocks
  <2>1. nblocks * band + nblocks <= nblocks * bands
    BY <1>1, <1>4, Products
  <2>2. PICK nb \in Int, ns \in Int : nb = nblocks * band /\ ns = nblocks * bands
    OBVIOUS
  <2>3. bands * nblocks = ns
    BY <2>2
  <2>4. w < ns
    BY <1>5, <2>1, <2>2
  <2>5. QED
    BY <2>3, <2>4
<1>8. w \in 0..bands * nblocks - 1
  BY <1>5, <1>7
<1>9. r + 1 \in 1..win /\ band * win + (r + 1) = i
  <2>1. band * win = win * band
    OBVIOUS
  <2>2. QED
    BY <1>1, <1>2, <1>3, <2>1
<1>10. RowOf(w, r + 1, win, nblocks) = i /\ ColOf(w, nblocks) = j
  BY <1>6, <1>9 DEF RowOf, ColOf
<1>11. QED
  BY <1>8, <1>9, <1>10

\* A workgroup holds candidates of the grid only.
LEMMA WorkgroupWithin ==
  ASSUME NEW win, NEW bands, NEW nblocks, NEW total, NEW count,
         WholeBands(win, bands, nblocks, total, count),
         NEW w \in 0..total - 1, NEW d \in 1..win
  PROVE  RowOf(w, d, win, nblocks) \in 1..count /\ ColOf(w, nblocks) \in 1..nblocks
<1> USE DEF WholeBands
<1>1. total \in Nat /\ total = bands * nblocks
  OBVIOUS
<1>2. w \in Nat /\ w < total
  BY <1>1
<1>3. nblocks # 0
  <2>1. nblocks = 0 => total = 0
    BY <1>1
  <2>2. QED
    BY <1>2, <2>1
<1>4. PICK q \in Nat, r \in 0..nblocks - 1 :
        q = w \div nblocks /\ r = w % nblocks /\ w = nblocks * q + r
  <2>1. nblocks \in Nat \ {0}
    BY <1>3
  <2>2. /\ w = nblocks * (w \div nblocks) + (w % nblocks)
        /\ w \div nblocks \in Nat /\ w % nblocks \in 0..nblocks - 1
    BY <1>2, <2>1, Division
  <2>3. QED
    BY <2>2
<1>5. q < bands
  <2>1. nblocks \in Nat \ {0}
    BY <1>3
  <2>2. bands < q => nblocks * bands + nblocks <= nblocks * q
    BY <2>1, Products
  <2>3. PICK nq \in Int, nb \in Int : nq = nblocks * q /\ nb = nblocks * bands
    OBVIOUS
  <2>4. bands = q => nq = nb
    BY <2>3
  <2>5. total = nb
    BY <1>1, <2>3
  <2>6. QED
    BY <1>2, <1>4, <2>2, <2>3, <2>4, <2>5
<1>6. q * win + d \in 1..win * bands
  <2>1. win * q + win <= win * bands
    BY <1>5, Products
  <2>2. PICK wq \in Nat, wb \in Nat : wq = win * q /\ wb = win * bands
    OBVIOUS
  <2>3. q * win = wq
    BY <2>2
  <2>4. wq + d \in 1..wb
    BY <2>1, <2>2
  <2>5. QED
    BY <2>2, <2>3, <2>4
<1>7. 1 + r \in 1..nblocks
  OBVIOUS
<1>8. QED
  BY <1>4, <1>6, <1>7 DEF RowOf, ColOf

\* A pair of two lists.
LEMMA InPairs ==
  ASSUME NEW f, NEW g, NEW I, NEW J, NEW c
  PROVE  c \in {<<f[i], g[j]>> : i \in I, j \in J} <=> \E i \in I, j \in J : c = <<f[i], g[j]>>
  OBVIOUS

\* The pairs of a row offset and a column offset.
OffsetPairs(rows, cols) == {<<rows[i], cols[j]>> : i \in 1..Len(rows), j \in 1..Len(cols)}

\* Offsets in whole bands of win rows.
Banded(rows, cols, win) ==
  /\ \E R : rows \in Seq(R)
  /\ \E C : cols \in Seq(C)
  /\ \E bands \in Nat : Len(rows) = win * bands

\* What the sweep may return: candidates of the grid below the target, and one
\* when there is one.
SweepRight(rows, cols, win, below, chunk) ==
  LET hits == JackpotCoopmatSearch(rows, cols, win, below, Unlimited, chunk).hits
      grid == OffsetPairs(rows, cols)
  IN hits \subseteq grid \cap below /\ (hits = {} <=> grid \cap below = {})

\* Over whole bands and without a cap the sweep returns a hit exactly when some
\* candidate of its grid is below the target, whatever the size of its tiles;
\* and what it may return is always a candidate of the grid below the target
\* (jackpot_coopmat.py 134-169, jackpot_coopmat.comp 76-86).
THEOREM CoopmatFindsAny ==
  ASSUME NEW win \in Nat \ {0}, NEW rows, NEW cols, Banded(rows, cols, win), NEW below,
         NEW chunk \in Nat \ {0}
  PROVE  SweepRight(rows, cols, win, below, chunk)
<1>0. PICK bands : /\ bands \in Nat /\ Len(rows) = win * bands /\ Len(rows) \in Nat
                   /\ Len(cols) \in Nat
  <2>1. PICK R, C : rows \in Seq(R) /\ cols \in Seq(C)
    BY DEF Banded
  <2>2. PICK bands : bands \in Nat /\ Len(rows) = win * bands
    BY DEF Banded
  <2>3. Len(rows) \in Nat /\ Len(cols) \in Nat
    BY <2>1
  <2>4. QED
    BY <2>2, <2>3
<1> DEFINE nblocks == Len(cols)
           total == bands * nblocks
           Tile(off) == UNION {Workgroup(w, rows, cols, win, nblocks) :
                                 w \in off..Capped(off + chunk, total) - 1}
           hitting == {off \in Starts(total, chunk) : Tile(off) \cap below # {}}
           search == JackpotCoopmatSearch(rows, cols, win, below, Unlimited, chunk)
           grid == OffsetPairs(rows, cols)
<1>1. nblocks \in Nat /\ total \in Nat
  BY <1>0
<1>2. Len(rows) \div win = bands
  <2>1. PICK len \in Nat : len = Len(rows)
    BY <1>0
  <2>2. len = win * bands + 0 /\ 0 \in 0..win - 1
    BY <1>0, <2>1
  <2>3. len \div win = bands
    BY <1>0, <2>2, Quotient
  <2>4. QED
    BY <2>1, <2>3
<1>3. search.hits = IF hitting = {} THEN {} ELSE Tile(First(hitting)) \cap below
  BY <1>2 DEF JackpotCoopmatSearch
<1>4. WholeBands(win, bands, nblocks, total, Len(rows))
  BY <1>0, <1>1 DEF WholeBands
<1>5. hitting = {off \in Starts(total, chunk) : Tile(off) \cap below # {}}
  OBVIOUS
<1>6. ASSUME NEW off, NEW c
      PROVE  c \in Tile(off) <=> \E w \in off..Capped(off + chunk, total) - 1 :
                                   c \in Workgroup(w, rows, cols, win, nblocks)
  OBVIOUS
<1>7. ASSUME NEW c
      PROVE  c \in grid <=> \E i \in 1..Len(rows), j \in 1..Len(cols) : c = <<rows[i], cols[j]>>
  BY InPairs DEF OffsetPairs
<1>8. ASSUME NEW w, NEW c
      PROVE  c \in Workgroup(w, rows, cols, win, nblocks)
               <=> \E d \in 1..win :
                     c = <<rows[RowOf(w, d, win, nblocks)], cols[ColOf(w, nblocks)]>>
  BY DEF Workgroup, RowOf, ColOf
<1>9. nblocks = Len(cols)
  OBVIOUS
<1> HIDE DEF nblocks, total, Tile, hitting, search, grid
<1>10. ASSUME NEW off \in Starts(total, chunk)
      PROVE  /\ off \in Nat /\ off < total
             /\ Capped(off + chunk, total) = IF off + chunk > total THEN total ELSE off + chunk
  BY <1>1 DEF Starts, Capped, Unlimited
<1>11. ASSUME NEW off \in Starts(total, chunk), NEW c \in Tile(off) PROVE c \in grid
  <2>1. PICK w \in off..Capped(off + chunk, total) - 1 :
          c \in Workgroup(w, rows, cols, win, nblocks)
    BY <1>11, <1>6
  <2>2. PICK d \in 1..win : c = <<rows[RowOf(w, d, win, nblocks)], cols[ColOf(w, nblocks)]>>
    BY <2>1, <1>8
  <2>3. w \in 0..total - 1
    BY <1>1, <1>10
  <2>4. RowOf(w, d, win, nblocks) \in 1..Len(rows) /\ ColOf(w, nblocks) \in 1..nblocks
    BY <1>4, <2>3, WorkgroupWithin
  <2>5. PICK i \in 1..Len(rows), j \in 1..Len(cols) :
          i = RowOf(w, d, win, nblocks) /\ j = ColOf(w, nblocks)
    BY <1>9, <2>4
  <2>6. c = <<rows[i], cols[j]>>
    BY <2>2, <2>5
  <2>7. QED
    BY <1>7, <2>6
<1>12. ASSUME NEW c \in grid
      PROVE  \E off \in Starts(total, chunk) : c \in Tile(off)
  <2>1. PICK i \in 1..Len(rows), j \in 1..Len(cols) : c = <<rows[i], cols[j]>>
    BY <1>12, <1>7
  <2>2. i \in 1..Len(rows) /\ j \in 1..nblocks
    BY <1>9
  <2>3. PICK w \in 0..total - 1, d \in 1..win :
          RowOf(w, d, win, nblocks) = i /\ ColOf(w, nblocks) = j
    BY <1>4, <2>2, WorkgroupOf
  <2>4. c \in Workgroup(w, rows, cols, win, nblocks)
    <3>1. c = <<rows[RowOf(w, d, win, nblocks)], cols[ColOf(w, nblocks)]>>
      BY <2>1, <2>3
    <3>2. QED
      BY <1>8, <3>1
  <2>5. w \in Nat /\ w < total /\ w + 1 \in Nat \ {0}
    BY <1>1
  <2>6. PICK off \in Nat : off % chunk = 0 /\ off < w + 1 /\ w + 1 <= off + chunk
    BY <2>5, StartOf
  <2>7. off \in Starts(total, chunk)
    BY <1>1, <2>5, <2>6 DEF Starts
  <2>8. w \in off..Capped(off + chunk, total) - 1
    <3>1. PICK end \in Nat : /\ end = Capped(off + chunk, total)
                             /\ end = IF off + chunk > total THEN total ELSE off + chunk
      BY <1>1, <1>10, <2>7
    <3>2. w \in off..end - 1
      BY <1>1, <2>5, <2>6, <3>1
    <3>3. QED
      BY <3>1, <3>2
  <2>9. QED
    BY <1>6, <2>4, <2>7, <2>8
<1>13. hitting # {} => First(hitting) \in hitting
  <2>1. hitting \subseteq Nat
    BY <1>5, <1>10
  <2>2. QED
    BY <2>1, FirstIsLeast
<1>14. hitting = {} <=> grid \cap below = {}
  BY <1>5, <1>11, <1>12
<1>15. search.hits = {} <=> hitting = {}
  BY <1>3, <1>5, <1>13
<1>16. search.hits \subseteq grid \cap below
  BY <1>3, <1>5, <1>11, <1>13
<1>17. QED
  BY <1>14, <1>15, <1>16 DEF search, grid, SweepRight

-----------------------------------------------------------------------------
(***************************************************************************)
(* The codec.  A decoder that stands where a field was written goes on to  *)
(* where the next one was, with its value read: Reached says where it      *)
(* stands, Part where a field was written.  A buffer that ends too early   *)
(* fails a read, and every read behind it.                                 *)
(***************************************************************************)

\* A proof as build_plain_proof makes it, over cells of any kind.
Chunk(Cell) == {s \in Seq(Cell) : Len(s) = ChunkLen}

MerkleProofs(Cell) ==
  [leaf_data : Seq(Chunk(Cell)), leaf_indices : Seq(Nat), total_leaves : Nat, root : Cell,
   siblings : Seq(Cell)]

MatrixProofs(Cell) == [proof : MerkleProofs(Cell), row_indices : Seq(Nat)]

PlainProofs(Cell) ==
  [m : Nat, n : Nat, k : Nat, noise_rank : Nat, a : MatrixProofs(Cell), bt : MatrixProofs(Cell)]

\* The buffer is the first c cells of whole; F are the values it should give.
Decoding(Cell, whole, c, V, F) ==
  /\ Nat \subseteq Cell /\ whole \in Seq(Cell) /\ c \in 0..Len(whole) /\ F \in Seq(V)

\* The cells of whole behind p are those of w.
Holds(whole, p, w) == p + Len(w) <= Len(whole) /\ \A i \in 1..Len(w) : whole[p + i] = w[i]

\* From p to q the wire holds w.
Part(whole, p, w, q) == p \in Nat /\ q \in Nat /\ q = p + Len(w) /\ Holds(whole, p, w)

\* A decoder that read the first i values and should be at position p.
Reached(whole, c, F, p, i) ==
  IF p <= c THEN [ok |-> TRUE, vals |-> SubSeq(F, 1, i), rest |-> SubSeq(whole, p + 1, c)]
  ELSE Bad

\* What is left of the buffer.
LEMMA Rest ==
  ASSUME NEW Cell, NEW whole \in Seq(Cell), NEW c \in 0..Len(whole), NEW p \in 0..c
  PROVE  LET r == SubSeq(whole, p + 1, c)
         IN r \in Seq(Cell) /\ Len(r) = c - p /\ \A j \in 1..c - p : r[j] = whole[p + j]
<1>1. c \in Nat /\ Len(whole) \in Nat /\ c <= Len(whole) /\ p \in Nat /\ p <= c
  OBVIOUS
<1>2. \A j \in p + 1..c : whole[j] \in Cell
  BY <1>1, ElementOfSeq
<1>3. p + 1 \in Int /\ c \in Int
  BY <1>1
<1>4. /\ SubSeq(whole, p + 1, c) \in Seq(Cell)
      /\ Len(SubSeq(whole, p + 1, c)) = IF p + 1 <= c THEN c - (p + 1) + 1 ELSE 0
      /\ \A j \in 1..c - (p + 1) + 1 : SubSeq(whole, p + 1, c)[j] = whole[p + 1 + j - 1]
  BY <1>2, <1>3, SubSeqProperties
<1>5. QED
  BY <1>1, <1>4

\* What a read does to the state of a decoder.
LEMMA ReadState ==
  ASSUME NEW x, NEW r, NEW n, NEW v
  PROVE  read_exact([ok |-> TRUE, vals |-> x, rest |-> r], n, v)
           = [ok |-> TRUE, vals |-> Append(x, v), rest |-> SubSeq(r, n + 1, Len(r))]
  BY DEF read_exact

\* A read of n cells that are there gives the next value.
LEMMA ReadExact ==
  ASSUME NEW Cell, NEW whole, NEW c, NEW V, NEW F, Decoding(Cell, whole, c, V, F),
         NEW p \in Nat, NEW n \in Nat, p + n <= c, NEW i \in 1..Len(F)
  PROVE  read_exact(Reached(whole, c, F, p, i - 1), n, F[i]) = Reached(whole, c, F, p + n, i)
<1>1. /\ whole \in Seq(Cell) /\ c \in 0..Len(whole) /\ c \in Nat /\ p \in 0..c
      /\ F \in Seq(V) /\ Len(F) \in Nat
  BY DEF Decoding
<1>2. PICK r : r = SubSeq(whole, p + 1, c)
  OBVIOUS
<1>3. r \in Seq(Cell) /\ Len(r) = c - p /\ \A j \in 1..c - p : r[j] = whole[p + j]
  BY <1>1, <1>2, Rest
<1>4. PICK q \in 0..c : q = p + n /\ q \in Nat
  BY <1>1
<1>5. PICK s : s = SubSeq(whole, q + 1, c)
  OBVIOUS
<1>6. s \in Seq(Cell) /\ Len(s) = c - q /\ \A j \in 1..c - q : s[j] = whole[q + j]
  BY <1>1, <1>5, Rest
<1>7. SubSeq(r, n + 1, Len(r)) = s
  <2>1. PICK len \in Nat : len = Len(r) /\ len = c - p
    BY <1>1, <1>3
  <2>2. r \in Seq(Cell) /\ len \in 0..Len(r) /\ n \in 0..len
    BY <1>1, <1>3, <1>4, <2>1
  <2>3. PICK u : u = SubSeq(r, n + 1, len)
    OBVIOUS
  <2>4. u \in Seq(Cell) /\ Len(u) = len - n /\ \A j \in 1..len - n : u[j] = r[n + j]
    BY <2>2, <2>3, Rest
  <2>5. len - n = c - q
    BY <1>1, <1>4, <2>1
  <2>6. ASSUME NEW j \in 1..Len(u) PROVE u[j] = s[j]
    <3>1. j \in 1..len - n /\ j \in 1..c - q /\ n + j \in 1..c - p
      BY <1>1, <1>4, <2>1, <2>4, <2>5
    <3>2. u[j] = r[n + j] /\ s[j] = whole[q + j] /\ r[n + j] = whole[p + (n + j)]
      BY <1>3, <1>6, <2>4, <3>1
    <3>3. p + (n + j) = q + j
      BY <1>1, <1>4, <3>1
    <3>4. QED
      BY <3>2, <3>3
  <2>7. u = s
    BY <1>6, <2>4, <2>5, <2>6, SeqEqual
  <2>8. QED
    BY <2>1, <2>3, <2>7
<1>8. Append(SubSeq(F, 1, i - 1), F[i]) = SubSeq(F, 1, i)
  <2>1. 1 \in 1..Len(F) /\ i \in 1..Len(F)
    BY <1>1
  <2>2. SubSeq(F, 1, i) = SubSeq(F, 1, i - 1) \o <<F[i]>>
    BY <1>1, <2>1, SubSeqRecursiveSecond
  <2>3. SubSeq(F, 1, i - 1) \in Seq(V) /\ F[i] \in V
    <3>1. \A j \in 1..i - 1 : F[j] \in V
      BY <1>1, ElementOfSeq
    <3>2. 1 \in Int /\ i - 1 \in Int
      OBVIOUS
    <3>3. SubSeq(F, 1, i - 1) \in Seq(V)
      BY <3>1, <3>2, SubSeqProperties
    <3>4. QED
      BY <1>1, <3>3, ElementOfSeq
  <2>4. QED
    BY <2>2, <2>3, AppendIsConcat
<1>9. Reached(whole, c, F, p, i - 1) = [ok |-> TRUE, vals |-> SubSeq(F, 1, i - 1), rest |-> r]
  BY <1>1, <1>2 DEF Reached
<1>10. Reached(whole, c, F, p + n, i) = [ok |-> TRUE, vals |-> SubSeq(F, 1, i), rest |-> s]
  BY <1>4, <1>5 DEF Reached
<1>11. QED
  BY <1>7, <1>8, <1>9, <1>10, ReadState

\* Whether n more cells are there.
LEMMA HasCells ==
  ASSUME NEW Cell, NEW whole, NEW c, NEW V, NEW F, Decoding(Cell, whole, c, V, F),
         NEW p \in Nat, NEW n \in Nat, NEW i
  PROVE  /\ p + n <= c => Has(Reached(whole, c, F, p, i), n)
         /\ ~(p + n <= c) => ~Has(Reached(whole, c, F, p, i), n)
<1>1. whole \in Seq(Cell) /\ c \in 0..Len(whole) /\ c \in Nat
  BY DEF Decoding
<1>2. CASE p <= c
  <2>1. Len(SubSeq(whole, p + 1, c)) = c - p
    BY <1>1, <1>2, Rest
  <2>2. Reached(whole, c, F, p, i).ok /\ Reached(whole, c, F, p, i).rest = SubSeq(whole, p + 1, c)
    BY <1>2 DEF Reached
  <2>3. QED
    BY <1>1, <1>2, <2>1, <2>2 DEF Has
<1>3. CASE ~(p <= c)
  <2>1. ~(p + n <= c)
    BY <1>1, <1>3
  <2>2. Reached(whole, c, F, p, i) = Bad
    BY <1>3 DEF Reached
  <2>3. ~Has(Bad, n)
    BY DEF Bad, Has
  <2>4. QED
    BY <2>1, <2>2, <2>3
<1>4. QED
  BY <1>2, <1>3

\* _unpack_u64: one cell.
LEMMA ReadU64 ==
  ASSUME NEW Cell, NEW whole, NEW c, NEW V, NEW F, Decoding(Cell, whole, c, V, F),
         NEW p \in Nat, NEW i \in 1..Len(F), NEW h, h = i - 1, whole[p + 1] = F[i],
         NEW e, e = p + 1
  PROVE  unpack_u64(Reached(whole, c, F, p, h)) = Reached(whole, c, F, e, i)
<1> SUFFICES unpack_u64(Reached(whole, c, F, p, i - 1)) = Reached(whole, c, F, p + 1, i)
  OBVIOUS
<1> DEFINE st == Reached(whole, c, F, p, i - 1)
<1>1. whole \in Seq(Cell) /\ c \in 0..Len(whole) /\ c \in Nat
  BY DEF Decoding
<1>2. CASE p + 1 <= c
  <2>1. p \in 0..c /\ p <= c /\ 1 \in 1..c - p /\ 1 \in Nat
    BY <1>1, <1>2
  <2>2. Has(st, 1)
    BY <1>2, <2>1, HasCells
  <2>3. PICK r : r = SubSeq(whole, p + 1, c) /\ st.rest = r
    BY <2>1 DEF Reached
  <2>4. Head(st.rest) = F[i]
    <3>1. r \in Seq(Cell) /\ Len(r) = c - p /\ \A j \in 1..c - p : r[j] = whole[p + j]
      BY <1>1, <2>1, <2>3, Rest
    <3>2. Head(r) = r[1] /\ r[1] = whole[p + 1]
      BY <2>1, <3>1
    <3>3. QED
      BY <2>3, <3>2
  <2>5. read_exact(st, 1, F[i]) = Reached(whole, c, F, p + 1, i)
    <3>1. PICK n : n = 1
      OBVIOUS
    <3>2. n \in Nat /\ p + n <= c
      BY <1>2, <3>1
    <3>3. read_exact(st, n, F[i]) = Reached(whole, c, F, p + n, i)
      BY <3>2, ReadExact
    <3>4. QED
      BY <3>1, <3>3
  <2>6. QED
    BY <2>2, <2>4, <2>5 DEF unpack_u64
<1>3. CASE ~(p + 1 <= c)
  <2>1. ~Has(st, 1)
    <3>1. 1 \in Nat
      OBVIOUS
    <3>2. QED
      BY <1>3, <3>1, HasCells
  <2>2. Reached(whole, c, F, p + 1, i) = Bad
    BY <1>3 DEF Reached
  <2>3. QED
    BY <2>1, <2>2 DEF unpack_u64
<1>4. QED
  BY <1>2, <1>3

\* What _pack_vec_u64 writes.
LEMMA PackVec ==
  ASSUME NEW T, Nat \subseteq T, NEW items \in Seq(T)
  PROVE  /\ pack_vec(items) \in Seq(T)
         /\ Len(pack_vec(items)) = 1 + Len(items) /\ pack_vec(items)[1] = Len(items)
         /\ \A j \in 1..Len(items) : pack_vec(items)[1 + j] = items[j]
  BY DEF pack_vec

\* _unpack_vec_u64 and _unpack_vec_fixed_bytes: a count and so many cells.
LEMMA ReadVec ==
  ASSUME NEW Cell, NEW whole, NEW c, NEW V, NEW F, Decoding(Cell, whole, c, V, F),
         NEW p, NEW e, NEW i \in 1..Len(F), NEW h, h = i - 1,
         F[i] \in Seq(Cell), Part(whole, p, pack_vec(F[i]), e)
  PROVE  unpack_vec(Reached(whole, c, F, p, h)) = Reached(whole, c, F, e, i)
<1> PICK items \in Seq(Cell) : F[i] = items
  OBVIOUS
<1> p \in Nat /\ Holds(whole, p, pack_vec(items)) /\ e = p + Len(pack_vec(items))
  BY DEF Part
<1> SUFFICES unpack_vec(Reached(whole, c, F, p, i - 1))
               = Reached(whole, c, F, p + Len(pack_vec(items)), i)
  OBVIOUS
<1> DEFINE st == Reached(whole, c, F, p, i - 1)
<1>1. whole \in Seq(Cell) /\ c \in 0..Len(whole) /\ c \in Nat
  BY DEF Decoding
<1>2. PICK n \in Nat : n = Len(items)
  OBVIOUS
<1>3. /\ whole[p + 1] = n
      /\ \A j \in 1..n : whole[p + (1 + j)] = items[j]
      /\ p + (1 + n) <= Len(whole) /\ Len(pack_vec(items)) = 1 + n
  <2>1. PICK w : w = pack_vec(items)
    OBVIOUS
  <2>2. Len(w) = 1 + n /\ w[1] = n /\ \A j \in 1..n : w[1 + j] = items[j]
    BY <1>2, <2>1, PackVec DEF Decoding
  <2>3. p + (1 + n) <= Len(whole) /\ \A j \in 1..1 + n : whole[p + j] = w[j]
    BY <2>1, <2>2 DEF Holds
  <2>4. ASSUME NEW j \in 1..n PROVE whole[p + (1 + j)] = items[j]
    <3>1. PICK x \in 1..1 + n : x = 1 + j
      OBVIOUS
    <3>2. whole[p + x] = w[x]
      BY <2>3
    <3>3. w[x] = items[j]
      BY <2>2, <3>1
    <3>4. QED
      BY <3>1, <3>2, <3>3
  <2>5. whole[p + 1] = n
    <3>1. 1 \in 1..1 + n
      OBVIOUS
    <3>2. QED
      BY <2>2, <2>3, <3>1
  <2>6. QED
    BY <2>1, <2>2, <2>3, <2>4, <2>5
<1>4. 1 + n \in Nat /\ 1 \in Nat
  OBVIOUS
<1>5. CASE p + 1 <= c
  <2>1. p \in 0..c /\ p <= c
    BY <1>1, <1>5
  <2>2. PICK r : r = SubSeq(whole, p + 1, c)
    OBVIOUS
  <2>3. r \in Seq(Cell) /\ Len(r) = c - p /\ \A j \in 1..c - p : r[j] = whole[p + j]
    BY <1>1, <2>1, <2>2, Rest
  <2>4. st.rest = r
    BY <2>1, <2>2 DEF Reached
  <2>5. Head(r) = n
    <3>1. Len(r) \in Nat /\ 1 <= Len(r) /\ 1 \in 1..c - p
      BY <1>1, <1>5, <2>3
    <3>2. Head(r) = r[1]
      BY <2>3, <3>1
    <3>3. QED
      BY <1>3, <2>3, <3>1, <3>2
  <2>6. Has(st, 1)
    BY <1>4, <1>5, HasCells
  <2>7. CASE p + (1 + n) <= c
    <3>1. PICK u : u = SubSeq(r, 2, 1 + n)
      OBVIOUS
    <3>2. PICK end \in 0..Len(r) : end = 1 + n /\ 1 \in 0..end /\ end - 1 = n
      BY <1>1, <2>1, <2>3, <2>7
    <3>3. u \in Seq(Cell) /\ Len(u) = n /\ \A j \in 1..n : u[j] = r[1 + j]
      <4>1. u = SubSeq(r, 1 + 1, end)
        BY <3>1, <3>2
      <4>2. QED
        BY <2>3, <3>2, <4>1, Rest
    <3>4. ASSUME NEW j \in 1..n PROVE u[j] = items[j]
      <4>1. 1 + j \in 1..c - p
        BY <1>1, <2>1, <2>7
      <4>2. QED
        BY <1>3, <2>3, <3>3, <4>1
    <3>5. u = F[i]
      BY <1>2, <3>3, <3>4, SeqEqual
    <3>6. read_exact(st, 1 + n, F[i]) = Reached(whole, c, F, p + (1 + n), i)
      BY <1>4, <2>7, ReadExact
    <3>7. Has(st, 1 + n)
      BY <1>4, <2>7, HasCells
    <3>8. QED
      BY <1>3, <2>4, <2>5, <2>6, <3>1, <3>5, <3>6, <3>7 DEF unpack_vec
  <2>8. CASE ~(p + (1 + n) <= c)
    <3>1. Reached(whole, c, F, p + (1 + n), i) = Bad
      BY <2>8 DEF Reached
    <3>2. ~Has(st, 1 + n)
      BY <1>4, <2>8, HasCells
    <3>3. QED
      BY <1>3, <2>4, <2>5, <2>6, <3>1, <3>2 DEF unpack_vec
  <2>9. QED
    BY <2>7, <2>8
<1>6. CASE ~(p + 1 <= c)
  <2>1. ~Has(st, 1)
    BY <1>4, <1>6, HasCells
  <2>2. ~(p + (1 + n) <= c)
    BY <1>1, <1>6
  <2>3. Reached(whole, c, F, p + (1 + n), i) = Bad
    BY <2>2 DEF Reached
  <2>4. QED
    BY <1>3, <2>1, <2>3 DEF unpack_vec
<1>7. QED
  BY <1>5, <1>6

\* Where chunk i begins and ends: i * step cells behind the count.
LEMMA Strides ==
  ASSUME NEW step \in Nat \ {0}, NEW n \in Nat, NEW i \in 0..n - 1
  PROVE  \E a \in Nat : /\ a = i * step /\ (i + 1) * step = a + step /\ a + step <= n * step
                        /\ \A j \in 0..step - 1 : (a + j) \div step = i /\ (a + j) % step = j
<1>1. PICK a \in Nat : a = i * step /\ a = step * i
  OBVIOUS
<1>2. (i + 1) * step = a + step
  BY <1>1
<1>3. a + step <= n * step
  <2>1. step * i + step <= step * n
    BY Products
  <2>2. step * n = n * step
    OBVIOUS
  <2>3. QED
    BY <1>1, <2>1, <2>2
<1>4. ASSUME NEW j \in 0..step - 1 PROVE (a + j) \div step = i /\ (a + j) % step = j
  <2>1. a + j \in Nat /\ a + j = step * i + j /\ i \in Int
    BY <1>1
  <2>2. QED
    BY <2>1, Quotient
<1>5. QED
  BY <1>1, <1>2, <1>3, <1>4

\* A function on 1..n is a sequence of length n.
LEMMA FunctionIsSeq ==
  ASSUME NEW S, NEW n \in Nat, NEW f \in [1..n -> S]
  PROVE  f \in Seq(S) /\ Len(f) = n
  OBVIOUS

\* What _pack_vec_byte_chunks writes: the count, and each chunk behind its length.
ChunkCells(w, chunks, n, step) ==
  /\ Len(w) = 1 + n * step /\ w[1] = n
  /\ \A i \in 0..n - 1 :
       /\ w[2 + i * step] = ChunkLen
       /\ \A j \in 1..ChunkLen : w[2 + i * step + j] = chunks[1 + i][j]

\* _pack_vec_byte_chunks writes them so.
LEMMA PackChunks ==
  ASSUME ChunkLen \in Nat, NEW Cell, NEW chunks \in Seq(Chunk(Cell)),
         NEW n, n = Len(chunks), NEW step, step = 1 + ChunkLen,
         NEW w, w = pack_vec_byte_chunks(chunks)
  PROVE  ChunkCells(w, chunks, n, step)
<1>1. n \in Nat /\ step \in Nat \ {0}
  OBVIOUS
<1>2. PICK total \in Nat : total = n * step
  BY <1>1
<1> DEFINE At(x) == IF x % step = 0 THEN ChunkLen ELSE chunks[1 + (x \div step)][x % step]
<1>3. PICK body : body = [x \in 1..total |-> At(x - 1)]
  OBVIOUS
<1>4. w = <<n>> \o body
  BY <1>2, <1>3 DEF pack_vec_byte_chunks
<1> HIDE DEF At
<1> DEFINE S == {At(x - 1) : x \in 1..total} \cup {n}
<1>5. \A x \in 1..total : body[x] = At(x - 1)
  BY <1>3
<1>6. Len(w) = 1 + total /\ w[1] = n /\ \A x \in 1..total : w[1 + x] = body[x]
  <2>1. body \in [1..total -> S]
    BY <1>3
  <2> HIDE DEF S
  <2>2. body \in Seq(S) /\ Len(body) = total
    BY <2>1, FunctionIsSeq
  <2>3. n \in S
    BY DEF S
  <2>4. <<n>> \in Seq(S) /\ Len(<<n>>) = 1 /\ <<n>>[1] = n
    BY <2>3
  <2>5. /\ Len(w) = 1 + total
        /\ \A x \in 1..1 + total : w[x] = IF x <= 1 THEN <<n>>[x] ELSE body[x - 1]
    BY <1>4, <2>2, <2>4, ConcatProperties
  <2>6. QED
    BY <2>4, <2>5
<1>7. ASSUME NEW i \in 0..n - 1
      PROVE  /\ w[2 + i * step] = ChunkLen
             /\ \A j \in 1..ChunkLen : w[2 + i * step + j] = chunks[1 + i][j]
  <2>1. PICK a \in Nat :
          /\ a = i * step /\ a + step <= total
          /\ \A j \in 0..step - 1 : (a + j) \div step = i /\ (a + j) % step = j
    <3>1. PICK a \in Nat :
            /\ a = i * step /\ (i + 1) * step = a + step /\ a + step <= n * step
            /\ \A j \in 0..step - 1 : (a + j) \div step = i /\ (a + j) % step = j
      BY <1>1, Strides
    <3>2. QED
      BY <1>2, <3>1
  <2>2. ASSUME NEW j \in 0..ChunkLen PROVE w[2 + a + j] = At(a + j)
    <3>1. PICK x \in 1..total : x = 1 + a + j
      BY <1>1, <1>2, <2>1
    <3>2. w[1 + x] = body[x] /\ body[x] = At(x - 1)
      BY <1>5, <1>6
    <3>3. 1 + x = 2 + a + j /\ x - 1 = a + j
      BY <3>1
    <3>4. QED
      BY <3>2, <3>3
  <2>3. w[2 + a] = ChunkLen
    <3>1. 0 \in 0..ChunkLen /\ 0 \in 0..step - 1 /\ a + 0 = a /\ 2 + a + 0 = 2 + a
      BY <1>1
    <3>2. w[2 + a] = At(a) /\ a % step = 0
      BY <2>1, <2>2, <3>1
    <3>3. QED
      BY <3>2 DEF At
  <2>4. ASSUME NEW j \in 1..ChunkLen PROVE w[2 + a + j] = chunks[1 + i][j]
    <3>1. j \in 0..ChunkLen /\ j \in 0..step - 1 /\ j # 0
      OBVIOUS
    <3>2. w[2 + a + j] = At(a + j) /\ (a + j) \div step = i /\ (a + j) % step = j
      BY <2>1, <2>2, <3>1
    <3>3. QED
      BY <3>1, <3>2 DEF At
  <2>5. QED
    BY <2>1, <2>3, <2>4
<1>8. QED
  BY <1>2, <1>6, <1>7 DEF ChunkCells

\* _unpack_vec_byte_chunks: a count, and before each chunk that it is one.
LEMMA ReadChunks ==
  ASSUME ChunkLen \in Nat,
         NEW Cell, NEW whole, NEW c, NEW V, NEW F, Decoding(Cell, whole, c, V, F),
         NEW p, NEW e, NEW i \in 1..Len(F), NEW h, h = i - 1,
         F[i] \in Seq(Chunk(Cell)), Part(whole, p, pack_vec_byte_chunks(F[i]), e)
  PROVE  unpack_vec_byte_chunks(Reached(whole, c, F, p, h)) = Reached(whole, c, F, e, i)
<1> PICK chunks \in Seq(Chunk(Cell)) : F[i] = chunks
  OBVIOUS
<1> /\ p \in Nat /\ Holds(whole, p, pack_vec_byte_chunks(chunks))
    /\ e = p + Len(pack_vec_byte_chunks(chunks))
  BY DEF Part
<1> SUFFICES unpack_vec_byte_chunks(Reached(whole, c, F, p, i - 1))
               = Reached(whole, c, F, p + Len(pack_vec_byte_chunks(chunks)), i)
  OBVIOUS
<1>1. whole \in Seq(Cell) /\ c \in 0..Len(whole) /\ c \in Nat
  BY DEF Decoding
<1>2. PICK n \in Nat : n = Len(chunks)
  OBVIOUS
<1>3. PICK step \in Nat \ {0} : step = 1 + ChunkLen
  OBVIOUS
<1>4. PICK w : w = pack_vec_byte_chunks(chunks)
  OBVIOUS
<1>5. PICK count \in Nat : count = 1 + n * step
  OBVIOUS
<1>6. /\ Len(w) = count /\ w[1] = n
      /\ \A l \in 0..n - 1 :
           /\ w[2 + l * step] = ChunkLen
           /\ \A j \in 1..ChunkLen : w[2 + l * step + j] = chunks[1 + l][j]
  <2>1. ChunkCells(w, chunks, n, step)
    BY <1>2, <1>3, <1>4, PackChunks
  <2>2. QED
    BY <1>5, <2>1 DEF ChunkCells
<1>7. 1 <= count /\ p + count <= Len(whole) /\ \A x \in 1..count : whole[p + x] = w[x]
  <2>1. p + Len(w) <= Len(whole) /\ \A x \in 1..Len(w) : whole[p + x] = w[x]
    BY <1>4 DEF Holds
  <2>2. n * step \in Nat
    OBVIOUS
  <2>3. QED
    BY <1>5, <1>6, <2>1, <2>2
<1>8. PICK st : st = Reached(whole, c, F, p, i - 1)
  OBVIOUS
<1>9. unpack_vec_byte_chunks(st) =
        LET m == Head(st.rest)
        IN IF /\ Has(st, 1) /\ Has(st, 1 + m * step)
              /\ \A l \in 0..m - 1 : st.rest[2 + l * step] = ChunkLen
             THEN read_exact(st, 1 + m * step,
                    [l \in 1..m |-> SubSeq(st.rest, 3 + (l - 1) * step, 1 + l * step)])
             ELSE Bad
  BY <1>3 DEF unpack_vec_byte_chunks
<1>10. CASE p + 1 <= c
  <2>1. p \in 0..c /\ p <= c /\ 1 \in Nat
    BY <1>1, <1>10
  <2>2. PICK r : r = SubSeq(whole, p + 1, c)
    OBVIOUS
  <2>3. r \in Seq(Cell) /\ Len(r) = c - p /\ \A j \in 1..c - p : r[j] = whole[p + j]
    BY <1>1, <2>1, <2>2, Rest
  <2>4. st.rest = r
    BY <1>8, <2>1, <2>2 DEF Reached
  <2>5. Head(r) = n
    <3>1. Len(r) \in Nat /\ 1 <= Len(r) /\ 1 \in 1..c - p /\ 1 \in 1..count
      BY <1>1, <1>7, <1>10, <2>3
    <3>2. Head(r) = r[1] /\ r[1] = whole[p + 1] /\ whole[p + 1] = w[1]
      BY <1>7, <2>3, <3>1
    <3>3. QED
      BY <1>6, <3>2
  <2>6. Has(st, 1)
    BY <1>8, <1>10, <2>1, HasCells
  <2>7. CASE p + count <= c
    <3>1. \A x \in 1..count : r[x] = w[x]
      <4>1. \A x \in 1..count : x \in 1..c - p
        BY <1>1, <2>7
      <4>2. QED
        BY <1>7, <2>3, <4>1
    <3>2. ASSUME NEW l \in 0..n - 1
          PROVE  /\ r[2 + l * step] = ChunkLen
                 /\ SubSeq(r, 3 + l * step, 1 + (l + 1) * step) = chunks[1 + l]
      <4>1. PICK a \in Nat : a = l * step /\ (l + 1) * step = a + step /\ a + step <= n * step
        BY Strides
      <4>2. a + step < count
        BY <1>5, <4>1
      <4>3. r[2 + a] = ChunkLen
        <5>1. 2 + a \in 1..count
          BY <1>3, <4>2
        <5>2. QED
          BY <1>6, <3>1, <4>1, <5>1
      <4>4. PICK at \in Nat, end \in Nat : at = 2 + a /\ end = 1 + (a + step)
        OBVIOUS
      <4>5. PICK u : u = SubSeq(r, at + 1, end)
        OBVIOUS
      <4>6. end \in 0..Len(r) /\ at \in 0..end /\ end - at = ChunkLen
        BY <1>1, <1>3, <2>3, <2>7, <4>2, <4>4
      <4>7. u \in Seq(Cell) /\ Len(u) = ChunkLen /\ \A j \in 1..ChunkLen : u[j] = r[at + j]
        BY <2>3, <4>5, <4>6, Rest
      <4>8. chunks[1 + l] \in Seq(Cell) /\ Len(chunks[1 + l]) = ChunkLen
        <5>1. 1 + l \in 1..Len(chunks)
          BY <1>2
        <5>2. chunks[1 + l] \in Chunk(Cell)
          BY <5>1, ElementOfSeq
        <5>3. QED
          BY <5>2 DEF Chunk
      <4>9. ASSUME NEW j \in 1..ChunkLen PROVE u[j] = chunks[1 + l][j]
        <5>1. at + j \in 1..count /\ at + j = 2 + a + j
          BY <1>3, <4>2, <4>4
        <5>2. r[at + j] = w[2 + a + j]
          BY <3>1, <5>1
        <5>3. QED
          BY <1>6, <4>1, <4>7, <5>2
      <4>10. u = chunks[1 + l]
        BY <4>7, <4>8, <4>9, SeqEqual
      <4>11. at + 1 = 3 + a /\ end = 1 + (a + step)
        BY <4>4
      <4>12. QED
        BY <4>1, <4>3, <4>5, <4>10, <4>11
    <3>3. [l \in 1..n |-> SubSeq(r, 3 + (l - 1) * step, 1 + l * step)] = chunks
      <4>1. ASSUME NEW l \in 1..n
            PROVE  SubSeq(r, 3 + (l - 1) * step, 1 + l * step) = chunks[l]
        <5>1. PICK k \in 0..n - 1 : k = l - 1 /\ k + 1 = l /\ 1 + k = l
          OBVIOUS
        <5>2. QED
          BY <3>2, <5>1
      <4>2. chunks = [l \in 1..n |-> chunks[l]]
        BY <1>2, LenProperties
      <4>3. QED
        BY <4>1, <4>2
    <3>4. read_exact(st, count, F[i]) = Reached(whole, c, F, p + count, i)
      BY <1>8, <2>7, ReadExact
    <3>5. \A l \in 0..n - 1 : r[2 + l * step] = ChunkLen
      BY <3>2
    <3>6. Has(st, count)
      BY <1>8, <2>7, HasCells
    <3>7. unpack_vec_byte_chunks(st) = read_exact(st, count, chunks)
      BY <1>5, <1>9, <2>4, <2>5, <2>6, <3>3, <3>5, <3>6
    <3>8. QED
      BY <1>4, <1>6, <1>8, <3>4, <3>7
  <2>8. CASE ~(p + count <= c)
    <3>1. Reached(whole, c, F, p + count, i) = Bad
      BY <2>8 DEF Reached
    <3>2. ~Has(st, count)
      BY <1>8, <2>8, HasCells
    <3>3. unpack_vec_byte_chunks(st) = Bad
      BY <1>5, <1>9, <2>4, <2>5, <2>6, <3>2
    <3>4. QED
      BY <1>4, <1>6, <1>8, <3>1, <3>3
  <2>9. QED
    BY <2>7, <2>8
<1>11. CASE ~(p + 1 <= c)
  <2>1. ~Has(st, 1)
    <3>1. 1 \in Nat
      OBVIOUS
    <3>2. QED
      BY <1>8, <1>11, <3>1, HasCells
  <2>2. Reached(whole, c, F, p + count, i) = Bad
    BY <1>1, <1>7, <1>11 DEF Reached
  <2>3. unpack_vec_byte_chunks(st) = Bad
    BY <1>9, <2>1
  <2>4. QED
    BY <1>4, <1>6, <1>8, <2>2, <2>3
<1>12. QED
  BY <1>10, <1>11

\* The cells it writes.
LEMMA ChunksOnWire ==
  ASSUME ChunkLen \in Nat, NEW Cell, Nat \subseteq Cell, NEW chunks \in Seq(Chunk(Cell))
  PROVE  pack_vec_byte_chunks(chunks) \in Seq(Cell)
<1>1. PICK n \in Nat, step \in Nat \ {0} : n = Len(chunks) /\ step = 1 + ChunkLen
  OBVIOUS
<1>2. PICK total \in Nat : total = n * step /\ total = step * n
  BY <1>1
<1> DEFINE At(x) == IF x % step = 0 THEN ChunkLen ELSE chunks[1 + (x \div step)][x % step]
<1>3. PICK body : body = [x \in 1..total |-> At(x - 1)]
  OBVIOUS
<1>4. pack_vec_byte_chunks(chunks) = <<n>> \o body
  BY <1>1, <1>2, <1>3 DEF pack_vec_byte_chunks
<1>5. ASSUME NEW x \in 0..total - 1 PROVE At(x) \in Cell
  <2>1. PICK q \in Nat, r \in 0..step - 1 :
          q = x \div step /\ r = x % step /\ x = step * q + r
    BY Division
  <2>2. CASE r = 0
    BY <2>1, <2>2
  <2>3. CASE r # 0
    <3>1. q < n
      <4>1. CASE n < q
        <5>1. step * n + step <= step * q
          BY <4>1, Products
        <5>2. QED
          BY <1>2, <2>1, <5>1
      <4>2. CASE n = q
        BY <1>2, <2>1, <4>2
      <4>3. QED
        BY <4>1, <4>2
    <3>2. 1 + q \in 1..Len(chunks) /\ r \in 1..ChunkLen
      BY <1>1, <2>3, <3>1
    <3>3. chunks[1 + q] \in Chunk(Cell)
      BY <3>2, ElementOfSeq
    <3>4. chunks[1 + q][r] \in Cell
      BY <3>2, <3>3, ElementOfSeq DEF Chunk
    <3>5. QED
      BY <2>1, <2>3, <3>4
  <2>4. QED
    BY <2>2, <2>3
<1> HIDE DEF At
<1>6. body \in [1..total -> Cell]
  <2>1. \A x \in 1..total : x - 1 \in 0..total - 1
    OBVIOUS
  <2>2. QED
    BY <1>3, <1>5, <2>1
<1>7. body \in Seq(Cell)
  BY <1>6, FunctionIsSeq
<1>8. <<n>> \in Seq(Cell)
  OBVIOUS
<1>9. QED
  BY <1>4, <1>7, <1>8, ConcatProperties

\* Two parts of the wire stand one behind the other.
LEMMA HoldsParts ==
  ASSUME NEW Cell, NEW whole \in Seq(Cell), NEW p \in Nat, NEW v \in Seq(Cell), NEW w \in Seq(Cell),
         Holds(whole, p, v \o w)
  PROVE  Holds(whole, p, v) /\ Holds(whole, p + Len(v), w)
<1>1. PICK a \in Nat, b \in Nat, l \in Nat : a = Len(v) /\ b = Len(w) /\ l = Len(whole)
  OBVIOUS
<1>2. PICK u : u = v \o w
  OBVIOUS
<1>3. Len(u) = a + b /\ \A i \in 1..a + b : u[i] = IF i <= a THEN v[i] ELSE w[i - a]
  BY <1>1, <1>2, ConcatProperties
<1>4. p + (a + b) <= l /\ \A i \in 1..a + b : whole[p + i] = u[i]
  BY <1>1, <1>2, <1>3 DEF Holds
<1>5. ASSUME NEW i \in 1..a PROVE whole[p + i] = v[i]
  <2>1. i \in 1..a + b /\ i <= a
    OBVIOUS
  <2>2. QED
    BY <1>3, <1>4, <2>1
<1>6. ASSUME NEW i \in 1..b PROVE whole[(p + a) + i] = w[i]
  <2>1. PICK j \in 1..a + b : j = a + i /\ ~(j <= a) /\ j - a = i
    OBVIOUS
  <2>2. whole[p + j] = w[i]
    BY <1>3, <1>4, <2>1
  <2>3. p + j = (p + a) + i
    BY <2>1
  <2>4. QED
    BY <2>2, <2>3
<1>7. p + a <= l /\ (p + a) + b <= l
  BY <1>4
<1>8. QED
  BY <1>1, <1>5, <1>6, <1>7 DEF Holds

\* What an encoder writes.
LEMMA MatrixOnWire ==
  ASSUME ChunkLen \in Nat, NEW Cell, Nat \subseteq Cell, NEW mp \in MatrixProofs(Cell)
  PROVE  /\ pack_vec_byte_chunks(mp.proof.leaf_data) \in Seq(Cell)
         /\ pack_vec(mp.proof.leaf_indices) \in Seq(Cell)
         /\ <<mp.proof.total_leaves, mp.proof.root>> \in Seq(Cell)
         /\ pack_vec(mp.proof.siblings) \in Seq(Cell)
         /\ pack_vec(mp.row_indices) \in Seq(Cell)
         /\ mp.proof.leaf_indices \in Seq(Cell) /\ mp.row_indices \in Seq(Cell)
         /\ EncodeMatrixProof(mp) \in Seq(Cell)
<1>1. /\ mp.proof \in MerkleProofs(Cell) /\ mp.row_indices \in Seq(Nat)
  BY DEF MatrixProofs
<1>2. /\ mp.proof.leaf_data \in Seq(Chunk(Cell)) /\ mp.proof.leaf_indices \in Seq(Nat)
      /\ mp.proof.total_leaves \in Cell /\ mp.proof.root \in Cell
      /\ mp.proof.siblings \in Seq(Cell)
  BY <1>1 DEF MerkleProofs
<1>3. \A s \in Seq(Nat) : s \in Seq(Cell)
  OBVIOUS
<1>4. pack_vec_byte_chunks(mp.proof.leaf_data) \in Seq(Cell)
  BY <1>2, ChunksOnWire
<1>5. /\ pack_vec(mp.proof.leaf_indices) \in Seq(Cell)
      /\ pack_vec(mp.proof.siblings) \in Seq(Cell)
      /\ pack_vec(mp.row_indices) \in Seq(Cell)
  BY <1>1, <1>2, <1>3, PackVec
<1>6. <<mp.proof.total_leaves, mp.proof.root>> \in Seq(Cell)
  BY <1>2
<1>7. \A v \in Seq(Cell), w \in Seq(Cell) : v \o w \in Seq(Cell)
  BY ConcatProperties
<1>8. EncodeMerkleProof(mp.proof) \in Seq(Cell)
  BY <1>4, <1>5, <1>6, <1>7 DEF EncodeMerkleProof
<1>9. EncodeMatrixProof(mp) \in Seq(Cell)
  BY <1>5, <1>7, <1>8 DEF EncodeMatrixProof
<1>10. QED
  BY <1>1, <1>2, <1>3, <1>4, <1>5, <1>6, <1>9

\* The values of a proof of a matrix are F's from i + 1 on.
MatrixAt(F, i, mp) ==
  /\ F[i + 1] = mp.proof.leaf_data /\ F[i + 2] = mp.proof.leaf_indices
  /\ F[i + 3] = mp.proof.total_leaves /\ F[i + 4] = mp.proof.root
  /\ F[i + 5] = mp.proof.siblings /\ F[i + 6] = mp.row_indices

\* Of two parts written one behind the other the first ends where the second
\* begins.
LEMMA PartSplits ==
  ASSUME NEW Cell, NEW whole \in Seq(Cell), NEW p, NEW q, NEW v \in Seq(Cell),
         NEW w \in Seq(Cell), Part(whole, p, v \o w, q)
  PROVE  \E m : Part(whole, p, v, m) /\ Part(whole, m, w, q)
<1>1. PICK m : m = p + Len(v)
  OBVIOUS
<1>2. p \in Nat /\ q \in Nat /\ q = p + Len(v \o w) /\ Holds(whole, p, v \o w)
  BY DEF Part
<1>3. Holds(whole, p, v) /\ Holds(whole, m, w)
  BY <1>1, <1>2, HoldsParts
<1>4. m \in Nat /\ q = m + Len(w)
  <2>1. Len(v \o w) = Len(v) + Len(w) /\ Len(v) \in Nat /\ Len(w) \in Nat
    BY ConcatProperties
  <2>2. QED
    BY <1>1, <1>2, <2>1
<1>5. QED
  BY <1>1, <1>2, <1>3, <1>4 DEF Part

\* They are put together as they were.
LEMMA MatrixValues ==
  ASSUME NEW Cell, NEW mp \in MatrixProofs(Cell), NEW F, NEW i \in Nat, MatrixAt(F, i, mp),
         NEW k, k = i + 1
  PROVE  DecodeMatrixProof(F, k) = mp
<1>1. mp.proof \in MerkleProofs(Cell)
  BY DEF MatrixProofs
<1>2. k + 1 = i + 2 /\ k + 2 = i + 3 /\ k + 3 = i + 4 /\ k + 4 = i + 5 /\ k + 5 = i + 6
  OBVIOUS
<1>3. DecodeMatrixProof(F, k) =
        [proof |-> [leaf_data |-> mp.proof.leaf_data, leaf_indices |-> mp.proof.leaf_indices,
                    total_leaves |-> mp.proof.total_leaves, root |-> mp.proof.root,
                    siblings |-> mp.proof.siblings],
         row_indices |-> mp.row_indices]
  BY <1>2 DEF DecodeMatrixProof, MatrixAt
<1>4. mp.proof =
        [leaf_data |-> mp.proof.leaf_data, leaf_indices |-> mp.proof.leaf_indices,
         total_leaves |-> mp.proof.total_leaves, root |-> mp.proof.root,
         siblings |-> mp.proof.siblings]
  BY <1>1 DEF MerkleProofs
<1>5. mp = [proof |-> mp.proof, row_indices |-> mp.row_indices]
  BY DEF MatrixProofs
<1>6. QED
  BY <1>3, <1>4, <1>5

\* From p to q the wire holds mp, and its values are the six behind value i.
MatrixPart(Cell, whole, F, i, mp, p, q) ==
  /\ i \in Nat /\ i + 6 <= Len(F) /\ mp \in MatrixProofs(Cell) /\ MatrixAt(F, i, mp)
  /\ Part(whole, p, EncodeMatrixProof(mp), q)

\* Value i of F has its place among the values, and those before it are i - 1.
LEMMA ValueIndex ==
  ASSUME NEW F, NEW V, F \in Seq(V), NEW i \in Nat, NEW n \in 1..6, i + 6 <= Len(F)
  PROVE  i + n \in 1..Len(F) /\ i + (n - 1) = (i + n) - 1
<1>1. PICK l \in Nat : l = Len(F)
  OBVIOUS
<1>2. i + n \in 1..l /\ i + (n - 1) = (i + n) - 1
  BY <1>1
<1>3. QED
  BY <1>1, <1>2

\* MatrixMerkleProof.decode reads what MatrixMerkleProof.encode wrote.
LEMMA ReadMatrix ==
  ASSUME ChunkLen \in Nat,
         NEW Cell, NEW whole, NEW c, NEW V, NEW F, Decoding(Cell, whole, c, V, F),
         NEW i, NEW mp, NEW p, NEW q, MatrixPart(Cell, whole, F, i, mp, p, q)
  PROVE  read_matrix_proof(Reached(whole, c, F, p, i)) = Reached(whole, c, F, q, i + 6)
<1> /\ i \in Nat /\ i + 6 <= Len(F) /\ mp \in MatrixProofs(Cell) /\ MatrixAt(F, i, mp)
    /\ Part(whole, p, EncodeMatrixProof(mp), q)
  BY DEF MatrixPart
<1> DEFINE At(pos, j) == Reached(whole, c, F, pos, j)
           w1 == pack_vec_byte_chunks(mp.proof.leaf_data)
           w2 == pack_vec(mp.proof.leaf_indices)
           w3 == <<mp.proof.total_leaves, mp.proof.root>>
           w4 == pack_vec(mp.proof.siblings)
           w5 == pack_vec(mp.row_indices)
<1>1. whole \in Seq(Cell) /\ Nat \subseteq Cell /\ F \in Seq(V)
  BY DEF Decoding
<1>2. /\ w1 \in Seq(Cell) /\ w2 \in Seq(Cell) /\ w3 \in Seq(Cell) /\ w4 \in Seq(Cell)
      /\ w5 \in Seq(Cell)
  BY <1>1, MatrixOnWire
<1>3. EncodeMatrixProof(mp) = (((w1 \o w2) \o w3) \o w4) \o w5
  BY DEF EncodeMatrixProof, EncodeMerkleProof
<1>4. /\ Len(w3) = 2 /\ w3[1] = mp.proof.total_leaves /\ w3[2] = mp.proof.root
  OBVIOUS
<1>5. /\ mp.proof.leaf_data \in Seq(Chunk(Cell)) /\ mp.proof.leaf_indices \in Seq(Cell)
      /\ mp.proof.siblings \in Seq(Cell) /\ mp.row_indices \in Seq(Cell)
  <2>1. mp.proof \in MerkleProofs(Cell)
    BY DEF MatrixProofs
  <2>2. mp.proof.leaf_data \in Seq(Chunk(Cell)) /\ mp.proof.siblings \in Seq(Cell)
    BY <2>1 DEF MerkleProofs
  <2>3. QED
    BY <1>1, <2>2, MatrixOnWire
<1> HIDE DEF w1, w2, w3, w4, w5
<1>6. PICK p1, p2, p4, p5 :
        /\ Part(whole, p, w1, p1) /\ Part(whole, p1, w2, p2) /\ Part(whole, p2, w3, p4)
        /\ Part(whole, p4, w4, p5) /\ Part(whole, p5, w5, q)
  <2>1. PICK v2, v3, v4 : v2 = w1 \o w2 /\ v3 = v2 \o w3 /\ v4 = v3 \o w4
    OBVIOUS
  <2>2. v2 \in Seq(Cell)
    BY <1>2, <2>1, ConcatProperties
  <2>3. v3 \in Seq(Cell)
    BY <1>2, <2>1, <2>2, ConcatProperties
  <2>4. v4 \in Seq(Cell)
    BY <1>2, <2>1, <2>3, ConcatProperties
  <2>5. Part(whole, p, v4 \o w5, q)
    BY <1>3, <2>1
  <2>6. PICK p5 : Part(whole, p, v4, p5) /\ Part(whole, p5, w5, q)
    BY <1>1, <1>2, <2>4, <2>5, PartSplits
  <2>7. PICK p4 : Part(whole, p, v3, p4) /\ Part(whole, p4, w4, p5)
    <3>1. Part(whole, p, v3 \o w4, p5)
      BY <2>1, <2>6
    <3>2. QED
      BY <1>1, <1>2, <2>3, <3>1, PartSplits
  <2>8. PICK p2 : Part(whole, p, v2, p2) /\ Part(whole, p2, w3, p4)
    <3>1. Part(whole, p, v2 \o w3, p4)
      BY <2>1, <2>7
    <3>2. QED
      BY <1>1, <1>2, <2>2, <3>1, PartSplits
  <2>9. PICK p1 : Part(whole, p, w1, p1) /\ Part(whole, p1, w2, p2)
    <3>1. Part(whole, p, w1 \o w2, p2)
      BY <2>1, <2>8
    <3>2. QED
      BY <1>1, <1>2, <3>1, PartSplits
  <2>10. QED
    BY <2>6, <2>7, <2>8, <2>9
<1> HIDE DEF At
<1>7. unpack_vec_byte_chunks(At(p, i)) = At(p1, i + 1)
  <2>1. i + 1 \in 1..Len(F) /\ i = (i + 1) - 1
    <3>1. 1 \in 1..6 /\ i + (1 - 1) = i
      OBVIOUS
    <3>2. QED
      BY <1>1, <3>1, ValueIndex
  <2>2. F[i + 1] = mp.proof.leaf_data
    BY DEF MatrixAt
  <2>3. PICK o : o = i + 1
    OBVIOUS
  <2>4. o \in 1..Len(F) /\ i = o - 1
    BY <2>1, <2>3
  <2>5. F[o] \in Seq(Chunk(Cell)) /\ Part(whole, p, pack_vec_byte_chunks(F[o]), p1)
    BY <1>5, <1>6, <2>2, <2>3 DEF w1
  <2>6. unpack_vec_byte_chunks(Reached(whole, c, F, p, i)) = Reached(whole, c, F, p1, o)
    BY <2>4, <2>5, ReadChunks
  <2>7. QED
    BY <2>3, <2>6 DEF At
<1>8. ASSUME NEW a, NEW b, NEW n \in {2, 5, 6}, F[i + n] \in Seq(Cell),
             Part(whole, a, pack_vec(F[i + n]), b)
      PROVE  unpack_vec(At(a, i + (n - 1))) = At(b, i + n)
  <2>1. i + n \in 1..Len(F) /\ i + (n - 1) = (i + n) - 1
    BY <1>1, ValueIndex
  <2>2. PICK j, k : j = i + (n - 1) /\ k = i + n
    OBVIOUS
  <2>3. k \in 1..Len(F) /\ j = k - 1 /\ F[k] \in Seq(Cell) /\ Part(whole, a, pack_vec(F[k]), b)
    BY <1>8, <2>1, <2>2
  <2>4. unpack_vec(Reached(whole, c, F, a, j)) = Reached(whole, c, F, b, k)
    BY <2>3, ReadVec
  <2>5. QED
    BY <2>2, <2>4 DEF At
<1>9. ASSUME NEW a, NEW b, a \in Nat, b = a + 1, NEW n \in {3, 4}, whole[a + 1] = F[i + n]
      PROVE  unpack_u64(At(a, i + (n - 1))) = At(b, i + n)
  <2>1. i + n \in 1..Len(F) /\ i + (n - 1) = (i + n) - 1
    BY <1>1, ValueIndex
  <2>2. QED
    BY <1>9, <2>1, ReadU64 DEF At
<1>10. unpack_vec(At(p1, i + 1)) = At(p2, i + 2)
  <2>1. F[i + 2] = mp.proof.leaf_indices /\ 2 - 1 = 1
    BY DEF MatrixAt
  <2>2. QED
    BY <1>5, <1>6, <1>8, <2>1 DEF w2
<1>11. PICK p3 : /\ unpack_u64(At(p2, i + 2)) = At(p3, i + 3)
                 /\ unpack_u64(At(p3, i + 3)) = At(p4, i + 4)
  <2>1. p2 \in Nat /\ p4 = p2 + 2 /\ \A x \in 1..2 : whole[p2 + x] = w3[x]
    BY <1>4, <1>6 DEF Part, Holds
  <2>2. PICK p3 \in Nat : p3 = p2 + 1 /\ p4 = p3 + 1 /\ p2 + 2 = p3 + 1
    BY <2>1
  <2>3. whole[p2 + 1] = F[i + 3] /\ whole[p3 + 1] = F[i + 4]
    <3>1. whole[p2 + 1] = w3[1] /\ whole[p2 + 2] = w3[2]
      BY <2>1
    <3>2. QED
      BY <1>4, <2>2, <3>1 DEF MatrixAt
  <2>4. 3 - 1 = 2 /\ 4 - 1 = 3
    OBVIOUS
  <2>5. unpack_u64(At(p2, i + (3 - 1))) = At(p3, i + 3)
    <3>1. 3 \in {3, 4}
      OBVIOUS
    <3>2. QED
      BY <1>9, <2>1, <2>2, <2>3, <3>1
  <2>6. unpack_u64(At(p3, i + (4 - 1))) = At(p4, i + 4)
    <3>1. 4 \in {3, 4}
      OBVIOUS
    <3>2. QED
      BY <1>9, <2>2, <2>3, <3>1
  <2>7. QED
    BY <2>4, <2>5, <2>6
<1>12. unpack_vec(At(p4, i + 4)) = At(p5, i + 5)
  <2>1. F[i + 5] = mp.proof.siblings /\ 5 - 1 = 4
    BY DEF MatrixAt
  <2>2. QED
    BY <1>5, <1>6, <1>8, <2>1 DEF w4
<1>13. unpack_vec(At(p5, i + 5)) = At(q, i + 6)
  <2>1. F[i + 6] = mp.row_indices /\ 6 - 1 = 5
    BY DEF MatrixAt
  <2>2. QED
    BY <1>5, <1>6, <1>8, <2>1 DEF w5
<1>14. read_merkle_proof(At(p, i)) = At(p5, i + 5)
  BY <1>7, <1>10, <1>11, <1>12 DEF read_merkle_proof
<1>15. read_matrix_proof(At(p, i)) = At(q, i + 6)
  BY <1>13, <1>14 DEF read_matrix_proof
<1>16. QED
  BY <1>15 DEF At

\* What PlainProof.encode writes.
LEMMA EncodeOnWire ==
  ASSUME ChunkLen \in Nat, NEW Cell, Nat \subseteq Cell, NEW pp \in PlainProofs(Cell)
  PROVE  /\ <<pp.m, pp.n, pp.k, pp.noise_rank>> \in Seq(Cell)
         /\ EncodeMatrixProof(pp.a) \in Seq(Cell) /\ EncodeMatrixProof(pp.bt) \in Seq(Cell)
         /\ Encode(pp) \in Seq(Cell)
<1>1. /\ pp.m \in Cell /\ pp.n \in Cell /\ pp.k \in Cell /\ pp.noise_rank \in Cell
      /\ pp.a \in MatrixProofs(Cell) /\ pp.bt \in MatrixProofs(Cell)
  BY DEF PlainProofs
<1>2. PICK u, v, w :
        /\ u = <<pp.m, pp.n, pp.k, pp.noise_rank>> /\ v = EncodeMatrixProof(pp.a)
        /\ w = EncodeMatrixProof(pp.bt)
  OBVIOUS
<1>3. u \in Seq(Cell)
  BY <1>1, <1>2
<1>4. v \in Seq(Cell) /\ w \in Seq(Cell)
  BY <1>1, <1>2, MatrixOnWire
<1>5. u \o v \in Seq(Cell)
  BY <1>3, <1>4, ConcatProperties
<1>6. (u \o v) \o w \in Seq(Cell)
  BY <1>4, <1>5, ConcatProperties
<1>7. QED
  BY <1>2, <1>3, <1>4, <1>6 DEF Encode

\* The values of a proof in the order of the wire.
Values(pp) ==
  LET a == pp.a.proof  b == pp.bt.proof IN
  <<pp.m, pp.n, pp.k, pp.noise_rank,
    a.leaf_data, a.leaf_indices, a.total_leaves, a.root, a.siblings, pp.a.row_indices,
    b.leaf_data, b.leaf_indices, b.total_leaves, b.root, b.siblings, pp.bt.row_indices>>

\* They are sixteen, each where the decoder looks for it.
LEMMA ValuesOf ==
  ASSUME NEW pp
  PROVE  LET F == Values(pp) IN
         /\ \E V : F \in Seq(V)
         /\ Len(F) = 16
         /\ F[1] = pp.m /\ F[2] = pp.n /\ F[3] = pp.k /\ F[4] = pp.noise_rank
         /\ MatrixAt(F, 4, pp.a) /\ MatrixAt(F, 10, pp.bt)
<1> DEFINE F == Values(pp)
<1>1. Len(F) = 16
  BY DEF Values
<1>2. F \in Seq({F[x] : x \in 1..16})
  <2>1. F = [x \in 1..16 |-> F[x]]
    BY DEF Values
  <2> HIDE DEF F
  <2>2. F \in [1..16 -> {F[x] : x \in 1..16}]
    BY <2>1
  <2>3. QED
    BY <2>2, FunctionIsSeq
<1>3. F[1] = pp.m /\ F[2] = pp.n /\ F[3] = pp.k /\ F[4] = pp.noise_rank
  BY DEF Values
<1>4. MatrixAt(F, 4, pp.a)
  BY DEF Values, MatrixAt
<1>5. MatrixAt(F, 10, pp.bt)
  BY DEF Values, MatrixAt
<1>6. QED
  BY <1>1, <1>2, <1>3, <1>4, <1>5

\* The reads of PlainProof.decode, one after the other.
LEMMA ReadFields ==
  ASSUME ChunkLen \in Nat,
         NEW Cell, NEW whole, NEW c, NEW V, NEW F, Decoding(Cell, whole, c, V, F), Len(F) = 16,
         NEW u, Len(u) = 4, F[1] = u[1] /\ F[2] = u[2] /\ F[3] = u[3] /\ F[4] = u[4],
         NEW p4, NEW p10, NEW q, NEW a, NEW bt, Part(whole, 0, u, p4),
         MatrixPart(Cell, whole, F, 4, a, p4, p10), MatrixPart(Cell, whole, F, 10, bt, p10, q)
  PROVE  read_plain_proof(Reading(SubSeq(whole, 1, c))) = Reached(whole, c, F, q, 16)
<1> DEFINE At(pos, j) == Reached(whole, c, F, pos, j)
<1>1. p4 = 4
  BY DEF Part
<1>2. ASSUME NEW x \in 1..4 PROVE whole[x] = F[x]
  <2>1. whole[0 + x] = u[x]
    BY DEF Part, Holds
  <2>2. 0 + x = x /\ F[x] = u[x]
    OBVIOUS
  <2>3. QED
    BY <2>1, <2>2
<1>3. Reading(SubSeq(whole, 1, c)) = At(0, 0)
  <2>1. 0 <= c /\ 0 + 1 = 1 /\ F \in Seq(V)
    BY DEF Decoding
  <2>2. SubSeq(F, 1, 0) = <<>>
    <3>1. 0 \in 0..Len(F) /\ 0 \in 0..0 /\ 0 + 1 = 1 /\ 0 - 0 = 0
      OBVIOUS
    <3>2. SubSeq(F, 0 + 1, 0) \in Seq(V) /\ Len(SubSeq(F, 0 + 1, 0)) = 0
      BY <2>1, <3>1, Rest
    <3>3. QED
      BY <3>1, <3>2, EmptySeq
  <2>3. QED
    BY <2>1, <2>2 DEF Reading, Reached
<1>4. ASSUME NEW x \in 1..4 PROVE unpack_u64(At(x - 1, x - 1)) = At(x, x)
  <2>1. x \in 1..Len(F) /\ x - 1 \in Nat /\ (x - 1) + 1 = x
    OBVIOUS
  <2>2. whole[(x - 1) + 1] = F[x]
    BY <1>2, <2>1
  <2>3. QED
    BY <2>1, <2>2, ReadU64
<1> HIDE DEF At
<1>5. unpack_u64(unpack_u64(unpack_u64(unpack_u64(At(0, 0))))) = At(4, 4)
  <2>1. unpack_u64(At(0, 0)) = At(1, 1)
    <3>1. 1 \in 1..4 /\ 1 - 1 = 0
      OBVIOUS
    <3>2. QED
      BY <1>4, <3>1
  <2>2. unpack_u64(At(1, 1)) = At(2, 2)
    <3>1. 2 \in 1..4 /\ 2 - 1 = 1
      OBVIOUS
    <3>2. QED
      BY <1>4, <3>1
  <2>3. unpack_u64(At(2, 2)) = At(3, 3)
    <3>1. 3 \in 1..4 /\ 3 - 1 = 2
      OBVIOUS
    <3>2. QED
      BY <1>4, <3>1
  <2>4. unpack_u64(At(3, 3)) = At(4, 4)
    <3>1. 4 \in 1..4 /\ 4 - 1 = 3
      OBVIOUS
    <3>2. QED
      BY <1>4, <3>1
  <2>5. QED
    BY <2>1, <2>2, <2>3, <2>4
<1>6. read_matrix_proof(At(4, 4)) = At(p10, 10)
  <2>1. read_matrix_proof(Reached(whole, c, F, p4, 4)) = Reached(whole, c, F, p10, 4 + 6)
    BY ReadMatrix
  <2>2. 4 + 6 = 10
    OBVIOUS
  <2>3. QED
    BY <1>1, <2>1, <2>2 DEF At
<1>7. read_matrix_proof(At(p10, 10)) = At(q, 16)
  <2>1. read_matrix_proof(Reached(whole, c, F, p10, 10)) = Reached(whole, c, F, q, 10 + 6)
    BY ReadMatrix
  <2>2. 10 + 6 = 16
    OBVIOUS
  <2>3. QED
    BY <2>1, <2>2 DEF At
<1>8. read_plain_proof(At(0, 0)) = At(q, 16)
  BY <1>5, <1>6, <1>7 DEF read_plain_proof
<1>9. QED
  BY <1>3, <1>8 DEF At

\* PlainProof.decode's reads, of the first c cells of a wire that begins with
\* a proof: they give its values if it is all there.
LEMMA ReadPlain ==
  ASSUME ChunkLen \in Nat, NEW Cell, Nat \subseteq Cell, NEW pp, pp \in PlainProofs(Cell),
         NEW extra, extra \in Seq(Cell), NEW whole, whole = Encode(pp) \o extra,
         NEW c, c \in 0..Len(whole)
  PROVE  read_plain_proof(Reading(SubSeq(whole, 1, c)))
           = Reached(whole, c, Values(pp), Len(Encode(pp)), 16)
<1> DEFINE u == <<pp.m, pp.n, pp.k, pp.noise_rank>>
           v == EncodeMatrixProof(pp.a)
           w == EncodeMatrixProof(pp.bt)
<1>1. PICK F : F = Values(pp)
  OBVIOUS
<1>2. PICK V : F \in Seq(V)
  BY <1>1, ValuesOf
<1>3. /\ Len(F) = 16 /\ F[1] = u[1] /\ F[2] = u[2] /\ F[3] = u[3] /\ F[4] = u[4]
      /\ MatrixAt(F, 4, pp.a) /\ MatrixAt(F, 10, pp.bt)
  BY <1>1, ValuesOf
<1>4. u \in Seq(Cell) /\ Len(u) = 4
  BY EncodeOnWire
<1>5. v \in Seq(Cell) /\ w \in Seq(Cell) /\ Encode(pp) \in Seq(Cell)
  BY EncodeOnWire
<1>6. Encode(pp) = (u \o v) \o w
  BY DEF Encode
<1>7. pp.a \in MatrixProofs(Cell) /\ pp.bt \in MatrixProofs(Cell)
  BY DEF PlainProofs
<1> HIDE DEF u
<1>8. whole \in Seq(Cell)
  BY <1>5, ConcatProperties
<1>9. Decoding(Cell, whole, c, V, F)
  BY <1>2, <1>8 DEF Decoding
<1>10. PICK q : q = Len(Encode(pp)) /\ Part(whole, 0, Encode(pp), q)
  <2>1. PICK coded, l : coded = Encode(pp) /\ l = Len(coded)
    OBVIOUS
  <2>2. coded \in Seq(Cell) /\ l \in Nat
    BY <1>5, <2>1
  <2>3. Len(whole) = l + Len(extra) /\ \A x \in 1..l : whole[x] = coded[x]
    BY <2>1, <2>2, ConcatProperties
  <2>4. Holds(whole, 0, coded)
    <3>1. Len(extra) \in Nat
      OBVIOUS
    <3>2. 0 + l <= Len(whole)
      BY <2>2, <2>3, <3>1
    <3>3. ASSUME NEW x \in 1..l PROVE whole[0 + x] = coded[x]
      <4>1. 0 + x = x
        OBVIOUS
      <4>2. QED
        BY <2>3, <4>1
    <3>4. QED
      BY <2>1, <3>2, <3>3 DEF Holds
  <2>5. 0 \in Nat /\ l = 0 + l
    BY <2>2
  <2>6. QED
    BY <2>1, <2>2, <2>4, <2>5 DEF Part
<1>11. PICK p4, p10 :
         Part(whole, 0, u, p4) /\ Part(whole, p4, v, p10) /\ Part(whole, p10, w, q)
  <2>1. u \o v \in Seq(Cell)
    BY <1>4, <1>5, ConcatProperties
  <2>2. PICK p10 : Part(whole, 0, u \o v, p10) /\ Part(whole, p10, w, q)
    BY <1>5, <1>6, <1>8, <1>10, <2>1, PartSplits
  <2>3. PICK p4 : Part(whole, 0, u, p4) /\ Part(whole, p4, v, p10)
    BY <1>4, <1>5, <1>8, <2>2, PartSplits
  <2>4. QED
    BY <2>2, <2>3
<1>12. read_plain_proof(Reading(SubSeq(whole, 1, c))) = Reached(whole, c, F, q, 16)
  <2>1. MatrixPart(Cell, whole, F, 4, pp.a, p4, p10)
    BY <1>3, <1>7, <1>11 DEF MatrixPart
  <2>2. MatrixPart(Cell, whole, F, 10, pp.bt, p10, q)
    BY <1>3, <1>7, <1>11 DEF MatrixPart
  <2>3. QED
    BY <1>3, <1>4, <1>9, <1>11, <2>1, <2>2, ReadFields
<1>13. QED
  BY <1>1, <1>10, <1>12

\* Of a wire that begins with a proof, PlainProof.decode takes exactly the
\* bytes PlainProof.encode wrote, and gives the proof back: a buffer that ends
\* earlier, and one that goes on, raises ValueError.
THEOREM DecodeInverts ==
  ASSUME ChunkLen \in Nat, NEW Cell, Nat \subseteq Cell, NEW pp \in PlainProofs(Cell),
         NEW extra \in Seq(Cell), NEW c \in 0..Len(Encode(pp) \o extra)
  PROVE  Decode(SubSeq(Encode(pp) \o extra, 1, c)) =
           IF c = Len(Encode(pp)) THEN [ok |-> TRUE, rest |-> <<>>, vals |-> pp] ELSE Bad
<1>1. PICK whole, buf, s, l, F :
        /\ whole = Encode(pp) \o extra /\ buf = SubSeq(whole, 1, c)
        /\ s = read_plain_proof(Reading(buf)) /\ l = Len(Encode(pp)) /\ F = Values(pp)
  OBVIOUS
<1>2. s = Reached(whole, c, F, l, 16)
  BY <1>1, ReadPlain
<1>3. Encode(pp) \in Seq(Cell)
  BY EncodeOnWire
<1>4. whole \in Seq(Cell) /\ l \in Nat /\ c \in 0..Len(whole) /\ c \in Nat
  BY <1>1, <1>3, ConcatProperties
<1>5. Decode(buf) =
        IF ~s.ok \/ Trailing(s) THEN Bad
        ELSE [ok |-> TRUE, rest |-> <<>>,
              vals |-> [m |-> s.vals[1], n |-> s.vals[2], k |-> s.vals[3],
                        noise_rank |-> s.vals[4], a |-> DecodeMatrixProof(s.vals, 5),
                        bt |-> DecodeMatrixProof(s.vals, 11)]]
  BY <1>1 DEF Decode
<1>6. CASE c < l
  <2>1. s = Bad
    BY <1>2, <1>4, <1>6 DEF Reached
  <2>2. QED
    BY <1>1, <1>4, <1>5, <1>6, <2>1 DEF Bad
<1>7. CASE c > l
  <2>1. s.ok /\ s.rest = SubSeq(whole, l + 1, c)
    BY <1>2, <1>4, <1>7 DEF Reached
  <2>2. Len(s.rest) = c - l
    BY <1>4, <1>7, <2>1, Rest
  <2>3. Trailing(s)
    BY <1>4, <1>7, <2>2 DEF Trailing
  <2>4. QED
    BY <1>1, <1>4, <1>5, <1>7, <2>3
<1>8. CASE c = l
  <2>1. s.ok /\ s.rest = SubSeq(whole, l + 1, c) /\ s.vals = SubSeq(F, 1, 16)
    BY <1>2, <1>4, <1>8 DEF Reached
  <2>2. ~Trailing(s)
    <3>1. l \in 0..c /\ c - l = 0
      BY <1>4, <1>8
    <3>2. s.rest \in Seq(Cell) /\ Len(s.rest) = 0
      BY <1>4, <2>1, <3>1, Rest
    <3>3. QED
      BY <3>2, EmptySeq DEF Trailing
  <2>3. s.vals = F
    <3>1. PICK V : F \in Seq(V)
      BY <1>1, ValuesOf
    <3>2. Len(F) = 16
      BY <1>1, ValuesOf
    <3>3. 16 \in 0..Len(F) /\ 0 \in 0..16 /\ 0 + 1 = 1 /\ 16 - 0 = 16
      BY <3>2
    <3>4. PICK t : t = SubSeq(F, 1, 16) /\ t = SubSeq(F, 0 + 1, 16)
      BY <3>3
    <3>5. t \in Seq(V) /\ Len(t) = 16 /\ \A x \in 1..16 : t[x] = F[x]
      <4>1. PICK z, n : z = 0 /\ n = 16
        OBVIOUS
      <4>2. n \in 0..Len(F) /\ z \in 0..n /\ n - z = 16 /\ t = SubSeq(F, z + 1, n)
        BY <3>3, <3>4, <4>1
      <4>3. t \in Seq(V) /\ Len(t) = n - z /\ \A x \in 1..n - z : t[x] = F[z + x]
        BY <3>1, <4>2, Rest
      <4>4. \A x \in 1..16 : z + x = x
        BY <4>1
      <4>5. QED
        BY <4>2, <4>3, <4>4
    <3>6. t = F
      BY <3>1, <3>2, <3>5, SeqEqual
    <3>7. QED
      BY <2>1, <3>4, <3>6
  <2>4. /\ F[1] = pp.m /\ F[2] = pp.n /\ F[3] = pp.k /\ F[4] = pp.noise_rank
        /\ MatrixAt(F, 4, pp.a) /\ MatrixAt(F, 10, pp.bt)
    BY <1>1, ValuesOf
  <2>5. pp.a \in MatrixProofs(Cell) /\ pp.bt \in MatrixProofs(Cell)
    BY DEF PlainProofs
  <2>6. DecodeMatrixProof(F, 5) = pp.a /\ DecodeMatrixProof(F, 11) = pp.bt
    <3>1. 4 \in Nat /\ 10 \in Nat /\ 5 = 4 + 1 /\ 11 = 10 + 1
      OBVIOUS
    <3>2. QED
      BY <2>4, <2>5, <3>1, MatrixValues
  <2>7. pp = [m |-> F[1], n |-> F[2], k |-> F[3], noise_rank |-> F[4],
              a |-> DecodeMatrixProof(F, 5), bt |-> DecodeMatrixProof(F, 11)]
    BY <2>4, <2>6 DEF PlainProofs
  <2>8. Decode(buf) = [ok |-> TRUE, rest |-> <<>>, vals |-> pp]
    BY <1>5, <2>1, <2>2, <2>3, <2>7
  <2>9. QED
    BY <1>1, <1>8, <2>8
<1>9. QED
  BY <1>4, <1>6, <1>7, <1>8

-----------------------------------------------------------------------------
(***************************************************************************)
(* Recursive definitions, and sequences of sequences put one behind the    *)
(* other.                                                                  *)
(***************************************************************************)

\* Each value up to N from the one at an earlier place.
StepsFrom(S, a, N, step, prev) ==
  /\ N \in Nat /\ a \in S /\ step \in [S \X (1..N) -> S]
  /\ prev \in [1..N -> Nat] /\ \A n \in 1..N : prev[n] < n

\* f is defined by it.
Recursive(S, a, N, step, prev, f) ==
  f \in [0..N -> S] /\ f[0] = a /\ \A n \in 1..N : f[n] = step[<<f[prev[n]], n>>]

\* A function defined by such a recursion exists.
LEMMA Recursion ==
  ASSUME NEW S, NEW a, NEW N, NEW step, NEW prev, StepsFrom(S, a, N, step, prev)
  PROVE  \E f : Recursive(S, a, N, step, prev, f)
<1> N \in Nat /\ a \in S /\ step \in [S \X (1..N) -> S] /\ prev \in [1..N -> Nat]
  BY DEF StepsFrom
<1> \A n \in 1..N : prev[n] < n
  BY DEF StepsFrom
<1> DEFINE Defines(f, m) == /\ f \in [0..m -> S] /\ f[0] = a
                            /\ \A n \in 1..m : f[n] = step[<<f[prev[n]], n>>]
           Lacking == {m \in 0..N : ~\E f : Defines(f, m)}
<1>1. \A f, m : Defines(f, m) <=> /\ f \in [0..m -> S] /\ f[0] = a
                                  /\ \A n \in 1..m : f[n] = step[<<f[prev[n]], n>>]
  OBVIOUS
<1> HIDE DEF Defines
<1>2. \A m \in 0..N : m \in Lacking <=> ~\E f : Defines(f, m)
  OBVIOUS
<1>3. Lacking \subseteq 0..N /\ Lacking \subseteq Nat
  OBVIOUS
<1> HIDE DEF Lacking
<1>4. ASSUME Lacking # {} PROVE FALSE
  <2>1. PICK m \in Lacking : \A x \in Lacking : m <= x
    BY <1>3, <1>4, LeastOf
  <2>2. m \in 0..N /\ ~\E f : Defines(f, m)
    BY <1>2, <1>3, <2>1
  <2>3. m # 0
    <3>1. PICK g : g = [i \in 0..0 |-> a]
      OBVIOUS
    <3>2. g \in [0..0 -> S] /\ g[0] = a /\ \A n \in 1..0 : g[n] = step[<<g[prev[n]], n>>]
      BY <3>1
    <3>3. Defines(g, 0)
      BY <1>1, <3>2
    <3>4. QED
      BY <2>2, <3>3
  <2>4. PICK f : Defines(f, m - 1)
    <3>1. m - 1 \in 0..N /\ m - 1 \notin Lacking
      BY <2>1, <2>2, <2>3
    <3>2. QED
      BY <1>2, <3>1
  <2>5. PICK g : g = [i \in 0..m |-> IF i = m THEN step[<<f[prev[m]], m>>] ELSE f[i]]
    OBVIOUS
  <2>6. m \in 1..N /\ prev[m] \in 0..m - 1 /\ \A n \in 1..m - 1 : prev[n] \in 0..m - 1
    BY <2>2, <2>3
  <2>7. f \in [0..m - 1 -> S] /\ f[0] = a /\ \A n \in 1..m - 1 : f[n] = step[<<f[prev[n]], n>>]
    BY <1>1, <2>4
  <2>8. step[<<f[prev[m]], m>>] \in S
    BY <2>6, <2>7
  <2>9. g \in [0..m -> S] /\ g[0] = a
    BY <2>5, <2>6, <2>7, <2>8
  <2>10. \A n \in 1..m : g[n] = step[<<g[prev[n]], n>>]
    <3>1. g[m] = step[<<f[prev[m]], m>>] /\ \A i \in 0..m - 1 : g[i] = f[i]
      BY <2>5, <2>6
    <3>2. ASSUME NEW n \in 1..m PROVE g[n] = step[<<g[prev[n]], n>>]
      <4>1. n = m \/ n \in 1..m - 1
        BY <2>6
      <4>2. CASE n = m
        BY <2>6, <3>1, <4>2
      <4>3. CASE n \in 1..m - 1
        BY <2>6, <2>7, <3>1, <4>3
      <4>4. QED
        BY <4>1, <4>2, <4>3
    <3>3. QED
      BY <3>2
  <2>11. Defines(g, m)
    BY <1>1, <2>9, <2>10
  <2>12. QED
    BY <2>2, <2>11
<1>5. PICK f : Defines(f, N)
  <2>1. N \in 0..N /\ N \notin Lacking
    BY <1>4
  <2>2. QED
    BY <1>2, <2>1
<1>6. QED
  BY <1>1, <1>5 DEF Recursive


\* Induction up to N, over a set of naturals.
LEMMA Upwards ==
  ASSUME NEW T, NEW N \in Nat, 0 \in T, \A n \in 0..N - 1 : n \in T => n + 1 \in T
  PROVE  \A n \in 0..N : n \in T
<1> DEFINE Out == {n \in 0..N : n \notin T}
<1>1. Out \subseteq Nat
  OBVIOUS
<1>2. \A n : n \in Out <=> n \in 0..N /\ n \notin T
  OBVIOUS
<1> HIDE DEF Out
<1>3. ASSUME Out # {} PROVE FALSE
  <2>1. PICK n \in Out : \A m \in Out : n <= m
    BY <1>1, <1>3, LeastOf
  <2>2. n \in 0..N /\ n \notin T /\ n # 0
    BY <1>2, <2>1
  <2>3. n - 1 \in 0..N - 1 /\ n - 1 \notin Out
    BY <1>1, <2>1, <2>2
  <2>4. n - 1 \in T
    BY <1>2, <2>3
  <2>5. (n - 1) + 1 \in T
    BY <2>3, <2>4
  <2>6. QED
    BY <2>2, <2>5
<1>4. QED
  BY <1>2, <1>3

\* The empty sequence in front.
LEMMA EmptyFirst ==
  ASSUME NEW S, NEW s \in Seq(S)
  PROVE  <<>> \o s = s
  OBVIOUS

\* What FlattenSeq is: each sequence behind the one before.
LEMMA FlattenSteps ==
  ASSUME NEW S, NEW n \in Nat \ {0}, NEW seqs \in [1..n -> Seq(S)]
  PROVE  \E f \in [0..n -> Seq(S)] :
           /\ f[0] = <<>> /\ \A i \in 1..n : f[i] = f[i - 1] \o seqs[i]
           /\ FlattenSeq(seqs) = f[n]
<1>1. seqs \in Seq(Seq(S)) /\ Len(seqs) = n
  BY FunctionIsSeq
<1> DEFINE Flattens(g) == g = [i \in 1..n |-> IF i = 1 THEN seqs[i] ELSE g[i - 1] \o seqs[i]]
<1>2. FlattenSeq(seqs) = (CHOOSE x : Flattens(x))[n]
  BY <1>1 DEF FlattenSeq
<1>3. PICK f \in [0..n -> Seq(S)] : f[0] = <<>> /\ \A i \in 1..n : f[i] = f[i - 1] \o seqs[i]
  <2>1. PICK Q, e : Q = Seq(S) /\ e = <<>> /\ e \in Q
    BY EmptySeq
  <2>2. PICK step : step = [x \in Q \X (1..n) |-> x[1] \o seqs[x[2]]]
    OBVIOUS
  <2>3. PICK prev : prev = [i \in 1..n |-> i - 1]
    OBVIOUS
  <2>4. step \in [Q \X (1..n) -> Q]
    <3>1. ASSUME NEW x \in Q \X (1..n) PROVE x[1] \o seqs[x[2]] \in Q
      <4>1. x[1] \in Seq(S) /\ seqs[x[2]] \in Seq(S)
        BY <2>1
      <4>2. QED
        BY <2>1, <4>1, ConcatProperties
    <3>2. QED
      BY <2>2, <3>1
  <2>5. prev \in [1..n -> Nat] /\ \A i \in 1..n : prev[i] < i
    BY <2>3
  <2>6. PICK f \in [0..n -> Q] : f[0] = e /\ \A i \in 1..n : f[i] = step[<<f[prev[i]], i>>]
    <3>1. StepsFrom(Q, e, n, step, prev)
      BY <2>1, <2>4, <2>5 DEF StepsFrom
    <3>2. PICK f : Recursive(Q, e, n, step, prev, f)
      BY <3>1, Recursion
    <3>3. QED
      BY <3>2 DEF Recursive
  <2>7. ASSUME NEW i \in 1..n PROVE f[i] = f[i - 1] \o seqs[i]
    <3>1. prev[i] = i - 1 /\ f[i - 1] \in Q
      BY <2>3, <2>6
    <3>2. step[<<f[i - 1], i>>] = f[i - 1] \o seqs[i]
      BY <2>2, <3>1
    <3>3. QED
      BY <2>6, <3>1, <3>2
  <2>8. QED
    BY <2>1, <2>6, <2>7
<1>4. f[1] = seqs[1]
  <2>1. PICK o : o = 1 /\ o \in 1..n /\ o - 1 = 0
    OBVIOUS
  <2>2. f[o] = f[o - 1] \o seqs[o] /\ seqs[o] \in Seq(S)
    BY <1>3, <2>1
  <2>3. QED
    BY <1>3, <2>1, <2>2, EmptyFirst
<1>5. PICK h : h = [i \in 1..n |-> f[i]]
  OBVIOUS
<1>6. Flattens(h)
  <2>1. ASSUME NEW i \in 1..n PROVE h[i] = IF i = 1 THEN seqs[i] ELSE h[i - 1] \o seqs[i]
    <3>1. CASE i = 1
      BY <1>4, <1>5, <3>1
    <3>2. CASE i # 1
      <4>1. i - 1 \in 1..n /\ h[i] = f[i] /\ h[i - 1] = f[i - 1]
        BY <1>5, <3>2
      <4>2. f[i] = f[i - 1] \o seqs[i]
        BY <1>3
      <4>3. QED
        BY <3>2, <4>1, <4>2
    <3>3. QED
      BY <3>1, <3>2
  <2>2. QED
    BY <1>5, <2>1
<1>7. \A g : Flattens(g) => \A i \in 1..n : g[i] = IF i = 1 THEN seqs[i] ELSE g[i - 1] \o seqs[i]
  OBVIOUS
<1> HIDE DEF Flattens
<1>8. PICK g : g = (CHOOSE x : Flattens(x)) /\ Flattens(g)
  BY <1>6
<1>9. \A i \in 1..n : g[i] = IF i = 1 THEN seqs[i] ELSE g[i - 1] \o seqs[i]
  BY <1>7, <1>8
<1> DEFINE T == {i \in 0..n : i = 0 \/ g[i] = f[i]}
<1>10. \A i : i \in T <=> i \in 0..n /\ (i = 0 \/ g[i] = f[i])
  OBVIOUS
<1> HIDE DEF T
<1>11. ASSUME NEW i \in 0..n - 1, i \in T PROVE i + 1 \in T
  <2>1. PICK j : j = i + 1 /\ j \in 1..n /\ j - 1 = i
    OBVIOUS
  <2>2. CASE i = 0
    <3>1. j = 1 /\ j \in 0..n
      BY <2>1, <2>2
    <3>2. g[j] = seqs[j] /\ f[j] = seqs[j]
      BY <1>4, <1>9, <2>1, <3>1
    <3>3. QED
      BY <1>10, <2>1, <3>1, <3>2
  <2>3. CASE i # 0
    <3>1. g[i] = f[i]
      BY <1>10, <1>11, <2>3
    <3>2. j # 1 /\ j \in 0..n
      BY <2>1, <2>3
    <3>3. g[j] = g[j - 1] \o seqs[j]
      BY <1>9, <2>1, <3>2
    <3>4. f[j] = f[j - 1] \o seqs[j]
      BY <1>3, <2>1
    <3>5. g[j] = f[j]
      BY <2>1, <3>1, <3>3, <3>4
    <3>6. QED
      BY <1>10, <2>1, <3>2, <3>5
  <2>4. QED
    BY <2>2, <2>3
<1>12. n \in T
  <2>1. 0 \in T
    <3>1. PICK z : z = 0 /\ z \in 0..n
      OBVIOUS
    <3>2. QED
      BY <1>10, <3>1
  <2>2. \A i \in 0..n : i \in T
    BY <1>11, <2>1, Upwards
  <2>3. QED
    BY <2>2
<1>13. FlattenSeq(seqs) = f[n]
  BY <1>2, <1>8, <1>10, <1>12
<1>14. QED
  BY <1>3, <1>13

\* Sequences of one length L, of which only the last may be shorter.
RowsOf(S, n, L, seqs) ==
  /\ n \in Nat \ {0} /\ L \in Nat /\ seqs \in [1..n -> Seq(S)]
  /\ \A i \in 1..n - 1 : Len(seqs[i]) = L

\* flat is the first m of them, one behind the other.
Filled(S, m, L, seqs, flat) ==
  /\ flat \in Seq(S) /\ Len(flat) = (m - 1) * L + Len(seqs[m])
  /\ \A i \in 0..m - 1 : \A j \in 1..Len(seqs[i + 1]) : flat[i * L + j] = seqs[i + 1][j]

\* One more.
LEMMA FillRow ==
  ASSUME NEW S, NEW n, NEW L, NEW seqs, RowsOf(S, n, L, seqs), NEW m \in 1..n - 1,
         NEW flat, Filled(S, m, L, seqs, flat)
  PROVE  Filled(S, m + 1, L, seqs, flat \o seqs[m + 1])
<1>1. n \in Nat \ {0} /\ L \in Nat /\ m \in Nat /\ Len(seqs[m]) = L
  BY DEF RowsOf
<1>2. \A i \in 1..n : seqs[i] \in Seq(S) /\ Len(seqs[i]) \in Nat
  BY DEF RowsOf
<1>3. PICK t : t = flat \o seqs[m + 1]
  OBVIOUS
<1>4. PICK a \in Nat, b \in Nat : a = m * L /\ b = (m - 1) * L
  BY <1>1
<1>5. b + L = a
  BY <1>1, <1>4
<1>6. flat \in Seq(S) /\ Len(flat) = a
  BY <1>1, <1>4, <1>5 DEF Filled
<1>7. PICK o : o = m + 1 /\ o \in 1..n /\ o - 1 = m
  BY <1>1
<1>8. /\ t \in Seq(S) /\ Len(t) = a + Len(seqs[o])
      /\ \A x \in 1..a + Len(seqs[o]) : t[x] = IF x <= a THEN flat[x] ELSE seqs[o][x - a]
  BY <1>2, <1>3, <1>6, <1>7, ConcatProperties
<1>9. ASSUME NEW i \in 0..m, NEW j \in 1..Len(seqs[i + 1]) PROVE t[i * L + j] = seqs[i + 1][j]
  <2>1. i + 1 \in 1..n /\ Len(seqs[i + 1]) \in Nat /\ i \in Nat /\ j \in Nat
    BY <1>1, <1>2
  <2>2. CASE i = m
    <3>1. a + j \in 1..a + Len(seqs[o]) /\ ~(a + j <= a) /\ (a + j) - a = j
      BY <1>7, <2>1, <2>2
    <3>2. t[a + j] = seqs[o][j]
      BY <1>8, <3>1
    <3>3. QED
      BY <1>4, <1>7, <2>2, <3>2
  <2>3. CASE i # m
    <3>1. i \in 0..m - 1 /\ i + 1 \in 1..n - 1 /\ i < m
      BY <1>1, <2>3
    <3>2. PICK c \in Nat : c = i * L
      BY <1>1, <2>1
    <3>3. c + L <= a
      <4>1. L * i + L <= L * m \/ L = 0
        BY <1>1, <2>1, <3>1, Products
      <4>2. L * i = c /\ L * m = a /\ (L = 0 => c = 0)
        BY <1>1, <1>4, <2>1, <3>2
      <4>3. QED
        BY <1>1, <4>1, <4>2
    <3>4. Len(seqs[i + 1]) = L
      BY <3>1 DEF RowsOf
    <3>5. c + j \in 1..a + Len(seqs[o]) /\ c + j <= a
      BY <1>1, <1>2, <1>7, <2>1, <3>3, <3>4
    <3>6. t[c + j] = flat[c + j]
      BY <1>8, <3>5
    <3>7. flat[i * L + j] = seqs[i + 1][j]
      BY <3>1 DEF Filled
    <3>8. QED
      BY <3>2, <3>6, <3>7
  <2>4. QED
    BY <2>2, <2>3
<1>10. Filled(S, o, L, seqs, t)
  BY <1>4, <1>7, <1>8, <1>9 DEF Filled
<1>11. QED
  BY <1>3, <1>7, <1>10

\* What FlattenSeq makes of such sequences.
LEMMA FlattenRows ==
  ASSUME NEW S, NEW n, NEW L, NEW seqs, RowsOf(S, n, L, seqs)
  PROVE  Filled(S, n, L, seqs, FlattenSeq(seqs))
<1>1. n \in Nat \ {0} /\ L \in Nat /\ seqs \in [1..n -> Seq(S)]
  BY DEF RowsOf
<1>2. PICK f \in [0..n -> Seq(S)] :
        /\ f[0] = <<>> /\ \A i \in 1..n : f[i] = f[i - 1] \o seqs[i]
        /\ FlattenSeq(seqs) = f[n]
  BY <1>1, FlattenSteps
<1> DEFINE T == {i \in 0..n : i = 0 \/ Filled(S, i, L, seqs, f[i])}
<1>3. \A i : i \in T <=> i \in 0..n /\ (i = 0 \/ Filled(S, i, L, seqs, f[i]))
  OBVIOUS
<1> HIDE DEF T
<1>4. ASSUME NEW i \in 0..n - 1, i \in T PROVE i + 1 \in T
  <2>1. PICK j : j = i + 1 /\ j \in 1..n /\ j \in 0..n /\ j - 1 = i /\ j # 0
    BY <1>1
  <2>2. f[j] = f[i] \o seqs[j]
    BY <1>2, <2>1
  <2>3. CASE i = 0
    <3>1. j = 1 /\ seqs[j] \in Seq(S)
      BY <1>1, <2>1, <2>3
    <3>2. f[j] = seqs[j]
      BY <1>2, <2>2, <2>3, <3>1, EmptyFirst
    <3>3. Filled(S, 1, L, seqs, seqs[1])
      <4>1. (1 - 1) * L + Len(seqs[1]) = Len(seqs[1])
        <5>1. Len(seqs[1]) \in Nat
          BY <3>1
        <5>2. (1 - 1) * L = 0
          BY <1>1
        <5>3. QED
          BY <5>1, <5>2
      <4>2. ASSUME NEW h \in 0..1 - 1, NEW x \in 1..Len(seqs[h + 1])
            PROVE seqs[1][h * L + x] = seqs[h + 1][x]
        <5>1. h = 0 /\ h + 1 = 1 /\ h * L = 0
          BY <1>1
        <5>2. QED
          BY <3>1, <5>1
      <4>3. QED
        BY <3>1, <4>1, <4>2 DEF Filled
    <3>4. QED
      BY <1>3, <2>1, <3>1, <3>2, <3>3
  <2>4. CASE i # 0
    <3>1. i \in 1..n - 1 /\ Filled(S, i, L, seqs, f[i])
      BY <1>3, <1>4, <2>4
    <3>2. Filled(S, i + 1, L, seqs, f[i] \o seqs[i + 1])
      BY <3>1, FillRow
    <3>3. QED
      BY <1>3, <2>1, <2>2, <3>2
  <2>5. QED
    BY <2>3, <2>4
<1>5. n \in T
  <2>1. 0 \in T
    <3>1. PICK z : z = 0 /\ z \in 0..n
      BY <1>1
    <3>2. QED
      BY <1>3, <3>1
  <2>2. \A i \in 0..n : i \in T
    BY <1>1, <1>4, <2>1, Upwards
  <2>3. QED
    BY <1>1, <2>2
<1>6. QED
  BY <1>1, <1>2, <1>3, <1>5

\* c places make q rows, and r is within the next.
BehindRows(L, q, r, c) == q \in Nat /\ r \in 0..L - 1 /\ c = L * q

\* Where a row is found again.
LEMMA RowPlace ==
  ASSUME NEW S, NEW n, NEW L \in Nat \ {0}, NEW seqs, RowsOf(S, n, L, seqs), Len(seqs[n]) <= L,
         NEW flat, Filled(S, n, L, seqs, flat), NEW q, NEW r, NEW c,
         BehindRows(L, q, r, c), c + r + 1 <= Len(flat)
  PROVE  /\ q \in 0..n - 1 /\ r + 1 \in 1..Len(seqs[q + 1])
         /\ flat[c + r + 1] = seqs[q + 1][r + 1]
<1> q \in Nat /\ r \in 0..L - 1 /\ c = L * q
  BY DEF BehindRows
<1>1. n \in Nat \ {0} /\ seqs \in [1..n -> Seq(S)]
  BY DEF RowsOf
<1>2. PICK l \in Nat : l = Len(seqs[n]) /\ l <= L
  BY <1>1
<1>3. PICK b \in Nat : b = (n - 1) * L /\ b = L * (n - 1)
  BY <1>1
<1>4. Len(flat) = b + l
  BY <1>2, <1>3 DEF Filled
<1>5. c \in Nat /\ c = q * L
  OBVIOUS
<1>6. ASSUME n - 1 < q PROVE FALSE
  <2>1. L * (n - 1) + L <= L * q
    <3>1. PICK p \in Int : p = n - 1 /\ p < q
      BY <1>1, <1>6
    <3>2. L * p + L <= L * q
      BY <3>1, Products
    <3>3. QED
      BY <3>1, <3>2
  <2>2. b + L <= c
    BY <1>3, <2>1
  <2>3. QED
    BY <1>2, <1>4, <1>5, <2>2
<1>7. q \in 0..n - 1
  BY <1>1, <1>6
<1>8. PICK o : o = q + 1 /\ o \in 1..n
  BY <1>1, <1>7
<1>9. r + 1 \in 1..Len(seqs[o])
  <2>1. CASE q = n - 1
    <3>1. b = c
      BY <1>3, <2>1
    <3>2. o = n
      BY <1>1, <1>8, <2>1
    <3>3. Len(seqs[o]) = l
      BY <1>2, <3>2
    <3>4. r + 1 <= l
      BY <1>2, <1>3, <1>4, <1>5, <3>1
    <3>5. QED
      BY <1>2, <3>3, <3>4
  <2>2. CASE q # n - 1
    <3>1. o \in 1..n - 1
      BY <1>1, <1>7, <1>8, <2>2
    <3>2. Len(seqs[o]) = L
      BY <3>1 DEF RowsOf
    <3>3. QED
      BY <3>2
  <2>3. QED
    BY <2>1, <2>2
<1>10. flat[q * L + (r + 1)] = seqs[q + 1][r + 1]
  <2>1. r + 1 \in 1..Len(seqs[q + 1])
    BY <1>8, <1>9
  <2>2. QED
    BY <1>7, <2>1 DEF Filled
<1>11. q * L + (r + 1) = c + r + 1
  BY <1>5
<1>12. QED
  BY <1>7, <1>8, <1>9, <1>10, <1>11

\* flat is rows of length L, of which the last may be shorter, one behind the other.
Flat(S, n, L, seqs, flat) ==
  /\ L \in Nat \ {0} /\ RowsOf(S, n, L, seqs) /\ Len(seqs[n]) <= L
  /\ Filled(S, n, L, seqs, flat)

\* v is the entry behind r others of the row behind q others.
InRow(n, seqs, q, r, v) ==
  q \in 0..n - 1 /\ r + 1 \in 1..Len(seqs[q + 1]) /\ v = seqs[q + 1][r + 1]

\* FlattenSeq makes them that.
LEMMA Flattened ==
  ASSUME NEW S, NEW n, NEW L \in Nat \ {0}, NEW seqs, RowsOf(S, n, L, seqs), Len(seqs[n]) <= L
  PROVE  Flat(S, n, L, seqs, FlattenSeq(seqs))
  BY FlattenRows DEF Flat

\* Where its entries come from.
LEMMA FlatAt ==
  ASSUME NEW S, NEW n, NEW L, NEW seqs, NEW flat, Flat(S, n, L, seqs, flat),
         NEW q, NEW r, NEW c, BehindRows(L, q, r, c), c + r + 1 <= Len(flat)
  PROVE  InRow(n, seqs, q, r, flat[c + r + 1])
  BY RowPlace DEF Flat, InRow

\* The same by quotient and remainder.
LEMMA FlatDiv ==
  ASSUME NEW S, NEW n, NEW L, NEW seqs, NEW flat, Flat(S, n, L, seqs, flat),
         NEW x \in 1..Len(flat)
  PROVE  InRow(n, seqs, (x - 1) \div L, (x - 1) % L, flat[x]) /\ (x - 1) % L \in 0..L - 1
<1>1. PICK y : y = x - 1
  OBVIOUS
<1>2. Len(flat) \in Nat /\ L \in Nat \ {0}
  BY DEF Filled, Flat
<1>3. y \in Nat /\ x = y + 1 /\ x <= Len(flat)
  BY <1>1, <1>2
<1>4. PICK q, r : q = y \div L /\ r = y % L
  OBVIOUS
<1>5. q \in Nat /\ r \in 0..L - 1 /\ y = L * q + r
  BY <1>2, <1>3, <1>4, Division
<1>6. PICK c \in Nat : c = L * q
  BY <1>2, <1>5
<1>7. c + r + 1 = x /\ c + r + 1 <= Len(flat)
  BY <1>2, <1>3, <1>5, <1>6
<1>8. BehindRows(L, q, r, c)
  BY <1>5, <1>6 DEF BehindRows
<1>9. InRow(n, seqs, q, r, flat[c + r + 1])
  BY <1>7, <1>8, FlatAt
<1>10. QED
  BY <1>1, <1>4, <1>5, <1>7, <1>9

-----------------------------------------------------------------------------
(***************************************************************************)
(* Patterns: the list a shape stands for, and the shape a list becomes.    *)
(***************************************************************************)

\* What agrees at 0, and at each place if it does before, agrees up to N.
LEMMA SameUp ==
  ASSUME NEW N \in Nat, NEW f, NEW g, g[0] = f[0],
         \A i \in 1..N : g[i - 1] = f[i - 1] => g[i] = f[i]
  PROVE  g[N] = f[N] /\ \A i \in 0..N : g[i] = f[i]
<1> DEFINE T == {i \in 0..N : g[i] = f[i]}
<1>1. \A i : i \in T <=> i \in 0..N /\ g[i] = f[i]
  OBVIOUS
<1> HIDE DEF T
<1>2. ASSUME NEW i \in 0..N - 1, i \in T PROVE i + 1 \in T
  <2>1. PICK j : j = i + 1 /\ j \in 1..N /\ j \in 0..N /\ j - 1 = i
    OBVIOUS
  <2>2. g[i] = f[i]
    BY <1>1, <1>2
  <2>3. g[j] = f[j]
    BY <2>1, <2>2
  <2>4. QED
    BY <1>1, <2>1, <2>3
<1>3. 0 \in T
  <2>1. PICK z : z = 0 /\ z \in 0..N
    OBVIOUS
  <2>2. QED
    BY <1>1, <2>1
<1>4. \A i \in 0..N : i \in T
  BY <1>2, <1>3, Upwards
<1>5. N \in 0..N
  OBVIOUS
<1>6. QED
  BY <1>1, <1>4, <1>5

\* A dimension of a pattern.
Dim == Nat \X (Nat \ {0})

\* One turn of to_list's loop.
Expand(res, dim) ==
  FlattenSeq([x \in 1..dim[2] |-> [j \in 1..Len(res) |-> res[j] + (x - 1) * dim[1]]])

\* f holds what to_list has after each turn.
Listing(shp, f) ==
  /\ f \in [0..Len(shp) -> Seq(Nat)] /\ f[0] = <<0>>
  /\ \A i \in 1..Len(shp) : Len(f[i - 1]) \in Nat \ {0} /\ f[i] = Expand(f[i - 1], shp[i])

\* The list res, of m entries, once for each step of the dimension.
Repeats(res, m, dim, new) ==
  /\ new \in Seq(Nat) /\ Len(new) = m * dim[2]
  /\ \A a \in 0..dim[2] - 1 : \A b \in 1..m : new[a * m + b] = res[b] + a * dim[1]

\* That is what a turn makes of it.
LEMMA ExpandIs ==
  ASSUME NEW res \in Seq(Nat), NEW m \in Nat \ {0}, Len(res) = m, NEW dim \in Dim
  PROVE  Repeats(res, m, dim, Expand(res, dim))
<1>1. PICK st \in Nat, n \in Nat \ {0} : st = dim[1] /\ n = dim[2]
  BY DEF Dim
<1>2. PICK seqs : seqs = [x \in 1..n |-> [j \in 1..m |-> res[j] + (x - 1) * st]]
  OBVIOUS
<1>3. Expand(res, dim) = FlattenSeq(seqs)
  BY <1>1, <1>2 DEF Expand
<1>4. ASSUME NEW x \in 1..n
      PROVE /\ seqs[x] \in Seq(Nat) /\ Len(seqs[x]) = m
            /\ \A j \in 1..m : seqs[x][j] = res[j] + (x - 1) * st
  <2>1. seqs[x] = [j \in 1..m |-> res[j] + (x - 1) * st]
    BY <1>2
  <2>2. ASSUME NEW j \in 1..m PROVE res[j] + (x - 1) * st \in Nat
    <3>1. res[j] \in Nat /\ x - 1 \in Nat
      OBVIOUS
    <3>2. QED
      BY <3>1
  <2>3. seqs[x] \in [1..m -> Nat]
    BY <2>1, <2>2
  <2>4. QED
    BY <2>1, <2>3, FunctionIsSeq
<1>5. RowsOf(Nat, n, m, seqs)
  <2>1. seqs \in [1..n -> Seq(Nat)]
    BY <1>2, <1>4
  <2>2. QED
    BY <1>4, <2>1 DEF RowsOf
<1>6. PICK flat : flat = FlattenSeq(seqs) /\ Filled(Nat, n, m, seqs, flat)
  BY <1>5, FlattenRows
<1>7. Len(flat) = m * n
  <2>1. Len(flat) = (n - 1) * m + m
    <3>1. n \in 1..n
      OBVIOUS
    <3>2. Len(seqs[n]) = m
      BY <1>4, <3>1
    <3>3. Len(flat) = (n - 1) * m + Len(seqs[n])
      BY <1>6 DEF Filled
    <3>4. QED
      BY <3>2, <3>3
  <2>2. (n - 1) * m + m = m * n
    OBVIOUS
  <2>3. QED
    BY <2>1, <2>2
<1>8. ASSUME NEW a \in 0..n - 1, NEW b \in 1..m PROVE flat[a * m + b] = res[b] + a * st
  <2>1. PICK x \in 1..n : x = a + 1 /\ a = x - 1
    OBVIOUS
  <2>2. flat[a * m + b] = seqs[a + 1][b]
    BY <1>4, <1>6, <2>1 DEF Filled
  <2>3. QED
    BY <1>4, <2>1, <2>2
<1>9. flat \in Seq(Nat)
  BY <1>6 DEF Filled
<1>10. QED
  BY <1>1, <1>3, <1>6, <1>7, <1>8, <1>9 DEF Repeats

\* What to_list has after each turn exists, and is never empty.
LEMMA ListingExists ==
  ASSUME NEW shp \in Seq(Dim)
  PROVE  \E f : Listing(shp, f)
<1>1. PICK N \in Nat : N = Len(shp)
  OBVIOUS
<1>2. \A i \in 1..N : shp[i] \in Dim
  BY <1>1
<1>3. PICK Q, e : Q = {s \in Seq(Nat) : Len(s) > 0} /\ e = <<0>>
  OBVIOUS
<1>4. PICK step, prev : /\ step = [x \in Q \X (1..N) |-> Expand(x[1], shp[x[2]])]
                        /\ prev = [i \in 1..N |-> i - 1]
  OBVIOUS
<1>5. ASSUME NEW s \in Q, NEW i \in 1..N PROVE Expand(s, shp[i]) \in Q
  <2>1. PICK m \in Nat \ {0} : m = Len(s) /\ s \in Seq(Nat)
    BY <1>3
  <2>2. PICK n \in Nat \ {0} : n = shp[i][2]
    BY <1>2 DEF Dim
  <2>3. Expand(s, shp[i]) \in Seq(Nat) /\ Len(Expand(s, shp[i])) = m * n
    BY <1>2, <2>1, <2>2, ExpandIs DEF Repeats
  <2>4. m * n > 0
    OBVIOUS
  <2>5. QED
    BY <1>3, <2>3, <2>4
<1>6. StepsFrom(Q, e, N, step, prev)
  <2>1. e \in Q
    BY <1>3
  <2>2. step \in [Q \X (1..N) -> Q]
    BY <1>4, <1>5
  <2>3. prev \in [1..N -> Nat] /\ \A i \in 1..N : prev[i] < i
    BY <1>4
  <2>4. QED
    BY <2>1, <2>2, <2>3 DEF StepsFrom
<1>7. PICK f : Recursive(Q, e, N, step, prev, f)
  BY <1>6, Recursion
<1>8. f \in [0..N -> Q] /\ f[0] = e /\ \A i \in 1..N : f[i] = step[<<f[prev[i]], i>>]
  BY <1>7 DEF Recursive
<1>9. ASSUME NEW i \in 1..N PROVE Len(f[i - 1]) \in Nat \ {0} /\ f[i] = Expand(f[i - 1], shp[i])
  <2>1. prev[i] = i - 1 /\ f[i - 1] \in Q
    BY <1>4, <1>8
  <2>2. step[<<f[i - 1], i>>] = Expand(f[i - 1], shp[i])
    BY <1>4, <2>1
  <2>3. Len(f[i - 1]) \in Nat \ {0}
    BY <1>3, <2>1
  <2>4. QED
    BY <1>8, <2>1, <2>2, <2>3
<1>10. f \in [0..N -> Seq(Nat)]
  BY <1>3, <1>8
<1>11. QED
  BY <1>1, <1>3, <1>8, <1>9, <1>10 DEF Listing

\* It is what to_list computes.
LEMMA ToListIs ==
  ASSUME NEW shp \in Seq(Dim), NEW f, Listing(shp, f)
  PROVE  to_list(shp) = f[Len(shp)]
<1>1. PICK N \in Nat : N = Len(shp)
  OBVIOUS
<1> DEFINE Lists(g) == g = [i \in 0..N |-> IF i = 0 THEN <<0>>
                              ELSE LET res == g[i - 1]
                                   IN FlattenSeq([x \in 1..shp[i][2] |->
                                        [j \in 1..Len(res) |-> res[j] + (x - 1) * shp[i][1]]])]
<1>2. to_list(shp) = (CHOOSE g : Lists(g))[N]
  BY <1>1 DEF to_list
<1>3. \A g : Lists(g) <=> g = [i \in 0..N |-> IF i = 0 THEN <<0>> ELSE Expand(g[i - 1], shp[i])]
  BY DEF Expand
<1> HIDE DEF Lists
<1>4. f \in [0..N -> Seq(Nat)] /\ f[0] = <<0>> /\ \A i \in 1..N : f[i] = Expand(f[i - 1], shp[i])
  BY <1>1 DEF Listing
<1>5. Lists(f)
  <2>1. ASSUME NEW i \in 0..N PROVE f[i] = IF i = 0 THEN <<0>> ELSE Expand(f[i - 1], shp[i])
    <3>1. CASE i = 0
      BY <1>4, <3>1
    <3>2. CASE i # 0
      <4>1. i \in 1..N
        BY <3>2
      <4>2. QED
        BY <1>4, <3>2, <4>1
    <3>3. QED
      BY <3>1, <3>2
  <2>2. f = [i \in 0..N |-> IF i = 0 THEN <<0>> ELSE Expand(f[i - 1], shp[i])]
    BY <1>4, <2>1
  <2>3. QED
    BY <1>3, <2>2
<1>6. PICK g : g = (CHOOSE h : Lists(h)) /\ Lists(g)
  BY <1>5
<1>7. \A i \in 0..N : g[i] = IF i = 0 THEN <<0>> ELSE Expand(g[i - 1], shp[i])
  BY <1>3, <1>6
<1>8. ASSUME NEW i \in 1..N, g[i - 1] = f[i - 1] PROVE g[i] = f[i]
  <2>1. i \in 0..N /\ i # 0
    OBVIOUS
  <2>2. g[i] = Expand(g[i - 1], shp[i]) /\ f[i] = Expand(f[i - 1], shp[i])
    BY <1>4, <1>7, <2>1
  <2>3. QED
    BY <1>8, <2>2
<1>9. g[0] = f[0]
  <2>1. PICK z : z = 0 /\ z \in 0..N
    OBVIOUS
  <2>2. QED
    BY <1>4, <1>7, <2>1
<1>10. g[N] = f[N]
  BY <1>8, <1>9, SameUp
<1>11. QED
  BY <1>1, <1>2, <1>6, <1>10

\* The number of indices, dimension by dimension.
LEMMA SizeIs ==
  ASSUME NEW shp \in Seq(Dim), NEW f, f \in [0..Len(shp) -> Nat], f[0] = 1,
         \A i \in 1..Len(shp) : f[i] = f[i - 1] * shp[i][2]
  PROVE  size(shp) = f[Len(shp)]
<1>1. PICK N \in Nat : N = Len(shp)
  OBVIOUS
<1> DEFINE Sizes(g) == g = [i \in 0..N |-> IF i = 0 THEN 1 ELSE g[i - 1] * shp[i][2]]
<1>2. size(shp) = (CHOOSE g : Sizes(g))[N]
  BY <1>1 DEF size
<1>3. Sizes(f)
  <2>1. ASSUME NEW i \in 0..N PROVE f[i] = IF i = 0 THEN 1 ELSE f[i - 1] * shp[i][2]
    <3>1. CASE i = 0
      BY <3>1
    <3>2. CASE i # 0
      <4>1. i \in 1..Len(shp)
        BY <1>1, <3>2
      <4>2. QED
        BY <3>2, <4>1
    <3>3. QED
      BY <3>1, <3>2
  <2>2. QED
    BY <1>1, <2>1
<1>4. PICK g : g = (CHOOSE h : Sizes(h)) /\ Sizes(g)
  BY <1>3
<1>5. \A i \in 0..N : g[i] = IF i = 0 THEN 1 ELSE g[i - 1] * shp[i][2]
  BY <1>4
<1> HIDE DEF Sizes
<1>6. ASSUME NEW i \in 1..N, g[i - 1] = f[i - 1] PROVE g[i] = f[i]
  <2>1. i \in 0..N /\ i # 0 /\ i \in 1..Len(shp)
    BY <1>1
  <2>2. g[i] = g[i - 1] * shp[i][2] /\ f[i] = f[i - 1] * shp[i][2]
    BY <1>5, <2>1
  <2>3. QED
    BY <1>6, <2>2
<1>7. g[0] = f[0]
  <2>1. PICK z : z = 0 /\ z \in 0..N
    OBVIOUS
  <2>2. QED
    BY <1>5, <2>1
<1>8. g[N] = f[N]
  BY <1>6, <1>7, SameUp
<1>9. QED
  BY <1>1, <1>2, <1>4, <1>8

\* The list and the size of a shp: as many indices as the size says.
LEMMA ListingSize ==
  ASSUME NEW shp \in Seq(Dim), NEW f, Listing(shp, f)
  PROVE  size(shp) = Len(f[Len(shp)])
<1>1. PICK N \in Nat : N = Len(shp)
  OBVIOUS
<1>2. /\ f \in [0..N -> Seq(Nat)] /\ f[0] = <<0>>
      /\ \A i \in 1..N : Len(f[i - 1]) \in Nat \ {0} /\ f[i] = Expand(f[i - 1], shp[i])
  BY <1>1 DEF Listing
<1>3. PICK l : l = [i \in 0..N |-> Len(f[i])]
  OBVIOUS
<1>4. l \in [0..N -> Nat] /\ l[0] = 1
  <2>1. Len(<<0>>) = 1
    OBVIOUS
  <2>2. \A i \in 0..N : Len(f[i]) \in Nat
    BY <1>2
  <2>3. PICK z : z = 0 /\ z \in 0..N
    OBVIOUS
  <2>4. QED
    BY <1>2, <1>3, <2>1, <2>2, <2>3
<1>5. ASSUME NEW i \in 1..N PROVE l[i] = l[i - 1] * shp[i][2]
  <2>1. i - 1 \in 0..N /\ i \in 0..N
    OBVIOUS
  <2>2. PICK m \in Nat \ {0} : m = Len(f[i - 1]) /\ f[i - 1] \in Seq(Nat)
    BY <1>2, <2>1
  <2>3. shp[i] \in Dim
    BY <1>1
  <2>4. Len(Expand(f[i - 1], shp[i])) = m * shp[i][2]
    BY <2>2, <2>3, ExpandIs DEF Repeats
  <2>5. QED
    BY <1>2, <1>3, <2>1, <2>2, <2>4
<1>6. size(shp) = l[Len(shp)]
  BY <1>1, <1>4, <1>5, SizeIs
<1>7. QED
  BY <1>1, <1>3, <1>6

\* The dimensions inner, and behind them dimensions of one step.
Padded(shp, inner) ==
  /\ shp \in Seq(Dim) /\ inner \in Seq(Dim) /\ Len(inner) <= Len(shp)
  /\ \A i \in 1..Len(inner) : shp[i] = inner[i]
  /\ \A i \in Len(inner) + 1..Len(shp) : shp[i][2] = 1

\* They list the same.
LEMMA ListingPadded ==
  ASSUME NEW shp, NEW inner, Padded(shp, inner), NEW f, Listing(shp, f),
         NEW g, Listing(inner, g)
  PROVE  f[Len(shp)] = g[Len(inner)]
<1>0. PICK d : d = Len(inner)
  OBVIOUS
<1> /\ shp \in Seq(Dim) /\ inner \in Seq(Dim) /\ d \in Nat /\ d = Len(inner) /\ d <= Len(shp)
    /\ \A i \in 1..d : shp[i] = inner[i]
    /\ \A i \in d + 1..Len(shp) : shp[i][2] = 1
  BY <1>0 DEF Padded
<1>1. PICK N \in Nat : N = Len(shp)
  OBVIOUS
<1>2. /\ f \in [0..N -> Seq(Nat)] /\ f[0] = <<0>>
      /\ \A i \in 1..N : Len(f[i - 1]) \in Nat \ {0} /\ f[i] = Expand(f[i - 1], shp[i])
  BY <1>1 DEF Listing
<1>3. /\ g[0] = <<0>> /\ \A i \in 1..d : g[i] = Expand(g[i - 1], inner[i])
  BY DEF Listing
<1>4. f[d] = g[d]
  <2>1. ASSUME NEW i \in 1..d, f[i - 1] = g[i - 1] PROVE f[i] = g[i]
    <3>1. i \in 1..N /\ shp[i] = inner[i]
      BY <1>1
    <3>2. QED
      BY <1>2, <1>3, <2>1, <3>1
  <2>2. f[0] = g[0]
    BY <1>2, <1>3
  <2>3. QED
    BY <2>1, <2>2, SameUp
<1>5. PICK h : h = [i \in 0..N |-> IF i <= d THEN f[i] ELSE f[d]]
  OBVIOUS
<1>6. ASSUME NEW i \in 1..N, h[i - 1] = f[i - 1] PROVE h[i] = f[i]
  <2>1. i - 1 \in 0..N /\ i \in 0..N
    OBVIOUS
  <2>2. CASE i <= d
    BY <1>5, <2>1, <2>2
  <2>3. CASE ~(i <= d)
    <3>1. i \in d + 1..Len(shp) /\ d \in 0..N
      BY <1>1, <2>3
    <3>2. h[i] = f[d] /\ h[i - 1] = f[d]
      BY <1>5, <2>1, <2>3, <3>1
    <3>3. PICK r : r = f[i - 1] /\ r \in Seq(Nat) /\ Len(r) \in Nat \ {0}
      BY <1>2, <2>1
    <3>4. PICK st \in Nat : st = shp[i][1] /\ shp[i] \in Dim /\ shp[i][2] = 1
      BY <1>1, <3>1 DEF Dim
    <3>5. PICK t : t = Expand(r, shp[i])
      OBVIOUS
    <3>6. /\ t \in Seq(Nat) /\ Len(t) = Len(r) * 1
          /\ \A a \in 0..1 - 1 : \A b \in 1..Len(r) : t[a * Len(r) + b] = r[b] + a * st
      <4>1. PICK m, dim : m = Len(r) /\ dim = shp[i]
        OBVIOUS
      <4>2. m \in Nat \ {0} /\ dim \in Dim
        BY <3>3, <3>4, <4>1
      <4>3. Repeats(r, m, dim, Expand(r, dim))
        BY <3>3, <4>1, <4>2, ExpandIs
      <4>4. QED
        BY <3>4, <3>5, <4>1, <4>3 DEF Repeats
    <3>7. ASSUME NEW b \in 1..Len(r) PROVE t[b] = r[b]
      <4>1. PICK z : z = 0 /\ z \in 0..1 - 1 /\ z * Len(r) + b = b /\ z * st = 0
        BY <3>3
      <4>2. t[z * Len(r) + b] = r[b] + z * st /\ r[b] \in Nat
        BY <3>3, <3>6, <4>1
      <4>3. QED
        BY <4>1, <4>2
    <3>8. t = r
      <4>1. Len(t) = Len(r)
        BY <3>3, <3>6
      <4>2. QED
        BY <3>3, <3>6, <3>7, <4>1, SeqEqual
    <3>9. f[i] = f[i - 1]
      BY <1>2, <3>3, <3>5, <3>8
    <3>10. QED
      BY <1>6, <3>2, <3>9
  <2>4. QED
    BY <2>2, <2>3
<1>7. h[0] = f[0]
  BY <1>5
<1>8. h[N] = f[N]
  BY <1>6, <1>7, SameUp
<1>9. h[N] = f[d]
  BY <1>1, <1>5
<1>10. QED
  BY <1>1, <1>4, <1>8, <1>9

\* K times len entries of p; len entries on, each is larger by st.
Shifting(p, len, st, K) ==
  /\ len \in Nat \ {0} /\ st \in Int /\ K \in Nat \ {0}
  /\ \A i \in 1..K * len : p[i] \in Int
  /\ \A i \in 1..K * len - len : p[i] + st = p[i + len]

\* Such a list repeats its first len entries.
LEMMA PeriodRepeats ==
  ASSUME NEW p, NEW len, NEW st, NEW K, Shifting(p, len, st, K), NEW b \in 1..len
  PROVE  \A a \in 0..K - 1 : p[a * len + b] = p[b] + a * st
<1> /\ len \in Nat \ {0} /\ st \in Int /\ K \in Nat \ {0}
    /\ \A i \in 1..K * len : p[i] \in Int
    /\ \A i \in 1..K * len - len : p[i] + st = p[i + len]
  BY DEF Shifting
<1>1. PICK f, g : f = [a \in 0..K - 1 |-> p[a * len + b]] /\ g = [a \in 0..K - 1 |-> p[b] + a * st]
  OBVIOUS
<1>2. ASSUME NEW a \in 1..K - 1, g[a - 1] = f[a - 1] PROVE g[a] = f[a]
  <2>1. PICK h \in Nat : h = a - 1 /\ a = h + 1 /\ h \in 0..K - 1 /\ a \in 0..K - 1
    OBVIOUS
  <2>2. PICK c \in Nat : c = h * len /\ c = len * h
    OBVIOUS
  <2>3. a * len = c + len /\ a * st = h * st + st
    BY <2>1, <2>2
  <2>4. c + len + len <= K * len
    <3>1. len * a + len <= len * K
      <4>1. a < K /\ a \in Int /\ K \in Int
        OBVIOUS
      <4>2. QED
        BY <4>1, Products
    <3>2. len * a = c + len /\ len * K = K * len
      BY <2>3
    <3>3. QED
      BY <3>1, <3>2
  <2>5. PICK e \in Nat : e = K * len
    OBVIOUS
  <2>6. c + b \in 1..e - len /\ b \in 1..e /\ c + b \in 1..e
    BY <2>2, <2>4, <2>5
  <2>7. p[c + b] + st = p[c + b + len] /\ p[b] \in Int /\ p[c + b] \in Int
    BY <2>5, <2>6
  <2>8. f[h] = p[c + b] /\ f[a] = p[(c + len) + b] /\ g[h] = p[b] + h * st
        /\ g[a] = p[b] + (h * st + st)
    BY <1>1, <2>1, <2>2, <2>3
  <2>9. (c + len) + b = c + b + len
    BY <2>2
  <2>10. PICK y \in Int : y = h * st
    OBVIOUS
  <2>11. QED
    BY <1>2, <2>1, <2>7, <2>8, <2>9, <2>10
<1>3. g[0] = f[0]
  <2>1. PICK z : z = 0 /\ z \in 0..K - 1 /\ z * len + b = b /\ z * st = 0
    OBVIOUS
  <2>2. b \in 1..K * len
    <3>1. len * 0 + len <= len * K
      <4>1. 0 < K /\ 0 \in Int /\ K \in Int
        OBVIOUS
      <4>2. QED
        BY <4>1, Products
    <3>2. QED
      BY <3>1
  <2>3. p[b] \in Int
    BY <2>2
  <2>4. QED
    BY <1>1, <2>1, <2>3
<1>4. \A a \in 0..K - 1 : g[a] = f[a]
  <2>1. PICK N \in Nat : N = K - 1
    OBVIOUS
  <2>2. \A a \in 1..N : g[a - 1] = f[a - 1] => g[a] = f[a]
    BY <1>2, <2>1
  <2>3. \A a \in 0..N : g[a] = f[a]
    BY <1>3, <2>2, SameUp
  <2>4. QED
    BY <2>1, <2>3
<1>5. QED
  BY <1>1, <1>4

\* The dimensions dims list the first n entries of p, by the steps f.
ListsPrefix(p, n, dims, f) ==
  /\ dims \in Seq(Dim) /\ Listing(dims, f)
  /\ \A i \in 1..Len(dims) : dims[i][1] > 0 /\ dims[i][2] > 1
  /\ Len(f[Len(dims)]) = n /\ \A i \in 1..n : f[Len(dims)][i] = p[i]

\* A list from_list does not refuse at once.
Rising(p) == p \in Seq(Int) /\ p # <<>> /\ Increasing(p) /\ p[1] = 0

\* Its entries are positive but the first.
LEMMA RisingIs ==
  ASSUME NEW p, Rising(p)
  PROVE  /\ Len(p) \in Nat \ {0} /\ \A i \in 1..Len(p) : p[i] \in Nat /\ p[i] >= i - 1
         /\ \A i \in 1..Len(p) : p[i] <= p[Len(p)]
<1>1. /\ p \in Seq(Int) /\ Len(p) \in Nat \ {0} /\ p[1] = 0
      /\ \A i \in 1..Len(p) - 1 : p[i] < p[i + 1]
  BY EmptySeq DEF Rising, Increasing
<1>2. PICK n \in Nat \ {0} : n = Len(p)
  BY <1>1
<1>3. \A i \in 1..n : p[i] \in Int
  BY <1>1, <1>2
<1> DEFINE T == {j \in 0..n - 1 : p[j + 1] >= j}
           U == {j \in 0..n - 1 : p[n - j] <= p[n]}
<1>4. \A j : j \in T <=> j \in 0..n - 1 /\ p[j + 1] >= j
  OBVIOUS
<1>5. \A j : j \in U <=> j \in 0..n - 1 /\ p[n - j] <= p[n]
  OBVIOUS
<1> HIDE DEF T, U
<1>6. n - 1 \in Nat
  OBVIOUS
<1>7. \A j \in 0..n - 1 : j \in T
  <2>1. 0 \in T
    <3>1. PICK z : z = 0 /\ z \in 0..n - 1 /\ z + 1 = 1
      OBVIOUS
    <3>2. QED
      BY <1>1, <1>4, <3>1
  <2>2. ASSUME NEW j \in 0..(n - 1) - 1, j \in T PROVE j + 1 \in T
    <3>1. PICK o : o = j + 1 /\ o \in 1..n - 1 /\ o \in 1..n /\ o + 1 \in 1..n /\ o \in 0..n - 1
      OBVIOUS
    <3>2. p[o] < p[o + 1] /\ p[o] \in Int /\ p[o + 1] \in Int
      BY <1>1, <1>2, <1>3, <3>1
    <3>3. p[o] >= j
      BY <1>4, <2>2, <3>1
    <3>4. p[o + 1] >= o
      BY <3>1, <3>2, <3>3
    <3>5. QED
      BY <1>4, <3>1, <3>4
  <2>3. QED
    BY <1>6, <2>1, <2>2, Upwards
<1>8. \A j \in 0..n - 1 : j \in U
  <2>1. 0 \in U
    <3>1. PICK z : z = 0 /\ z \in 0..n - 1 /\ n - z = n
      OBVIOUS
    <3>2. p[n] \in Int
      BY <1>3
    <3>3. QED
      BY <1>5, <3>1, <3>2
  <2>2. ASSUME NEW j \in 0..(n - 1) - 1, j \in U PROVE j + 1 \in U
    <3>1. PICK o : o = n - (j + 1) /\ o \in 1..n - 1 /\ o \in 1..n /\ o + 1 = n - j /\ o + 1 \in 1..n
      OBVIOUS
    <3>2. p[o] < p[o + 1]
      BY <1>1, <1>2, <3>1
    <3>4. p[o] \in Int /\ p[o + 1] \in Int /\ p[n] \in Int
      BY <1>3, <3>1
    <3>3. p[o + 1] <= p[n]
      BY <1>5, <2>2, <3>1
    <3>5. p[n - (j + 1)] <= p[n]
      BY <3>1, <3>2, <3>3, <3>4
    <3>6. QED
      BY <1>5, <3>5
  <2>3. QED
    BY <1>6, <2>1, <2>2, Upwards
<1>9. ASSUME NEW i \in 1..n PROVE p[i] \in Nat /\ p[i] >= i - 1 /\ p[i] <= p[n]
  <2>1. PICK j, m : j = i - 1 /\ j + 1 = i /\ j \in 0..n - 1 /\ m = n - i /\ n - m = i /\ m \in 0..n - 1
    OBVIOUS
  <2>2. p[i] >= j /\ p[i] <= p[n]
    BY <1>4, <1>5, <1>7, <1>8, <2>1
  <2>3. QED
    BY <1>3, <2>1, <2>2
<1>10. QED
  BY <1>2, <1>9

\* d entries of the first n, K times over.
Repeating(p, n, d, K) ==
  /\ n \in 2..Len(p) /\ d \in 1..n - 1 /\ K \in Nat /\ K > 1 /\ n = K * d
  /\ \A i \in 1..n - d : p[i] + p[d + 1] = p[i + d]

\* The shortest period is one of them.
LEMMA ShortestIs ==
  ASSUME NEW p, NEW n \in 2..Len(p), Periods(p, n) # {}, NEW d, d = Shortest(p, n)
  PROVE  Repeating(p, n, d, n \div d)
<1>1. PICK T : T = Periods(p, n)
  OBVIOUS
<1>2. T \subseteq Nat /\ T # {}
  BY <1>1 DEF Periods
<1>3. \E e \in T : \A x \in T : e <= x
  BY <1>2, LeastOf
<1>4. d \in T
  BY <1>1, <1>3 DEF Shortest
<1>5. d \in 1..n - 1 /\ n % d = 0 /\ \A i \in 1..n - d : p[i] + p[d + 1] = p[i + d]
  BY <1>1, <1>4 DEF Periods
<1>6. PICK K \in Nat : K = n \div d /\ n = d * K
  <2>1. n \in Nat /\ d \in Nat \ {0}
    BY <1>5
  <2>2. n \div d \in Nat /\ n = d * (n \div d) + (n % d)
    BY <2>1, Division
  <2>3. QED
    BY <1>5, <2>2
<1>7. K > 1
  <2>1. d * 0 = 0 /\ d * 1 = d /\ n \in Nat /\ d < n /\ 0 < n
    BY <1>5
  <2>2. K # 0
    BY <1>6, <2>1
  <2>3. K # 1
    BY <1>6, <2>1
  <2>4. QED
    BY <2>2, <2>3
<1>8. n = K * d
  BY <1>5, <1>6
<1>9. QED
  BY <1>5, <1>6, <1>7, <1>8 DEF Repeating

\* One dimension more lists K times as many entries.
LEMMA PrefixGrows ==
  ASSUME NEW p, Rising(p), NEW n, NEW d, NEW K, Repeating(p, n, d, K),
         NEW dims, NEW f, ListsPrefix(p, d, dims, f)
  PROVE  \E g : ListsPrefix(p, n, Append(dims, <<p[d + 1], K>>), g)
<1>1. /\ n \in 2..Len(p) /\ d \in 1..n - 1 /\ K \in Nat \ {0} /\ K > 1 /\ n = K * d
      /\ \A i \in 1..n - d : p[i] + p[d + 1] = p[i + d]
  BY DEF Repeating
<1>2. Len(p) \in Nat \ {0} /\ \A i \in 1..Len(p) : p[i] \in Nat /\ p[i] >= i - 1
  BY RisingIs
<1>3. PICK M \in Nat : M = Len(dims) /\ dims \in Seq(Dim)
  BY DEF ListsPrefix
<1>4. PICK st : st = p[d + 1] /\ st \in Nat /\ st >= 1
  <2>1. PICK j : j = d + 1 /\ j \in 1..Len(p) /\ j - 1 = d
    BY <1>1, <1>2
  <2>2. p[j] \in Nat /\ p[j] >= d
    BY <1>2, <2>1
  <2>3. QED
    BY <1>1, <2>1, <2>2
<1>5. PICK dim, more : dim = <<st, K>> /\ more = Append(dims, dim) /\ dim \in Dim
  <2>1. K \in Nat \ {0} /\ st \in Nat
    BY <1>1, <1>4
  <2>2. <<st, K>> \in Dim
    BY <2>1 DEF Dim
  <2>3. QED
    BY <2>2
<1>6. /\ more \in Seq(Dim) /\ Len(more) = M + 1 /\ more[M + 1] = dim
      /\ \A i \in 1..M : more[i] = dims[i]
  BY <1>3, <1>5
<1>7. /\ f \in [0..M -> Seq(Nat)] /\ f[0] = <<0>>
      /\ \A i \in 1..M : Len(f[i - 1]) \in Nat \ {0} /\ f[i] = Expand(f[i - 1], dims[i])
      /\ \A i \in 1..M : dims[i][1] > 0 /\ dims[i][2] > 1
      /\ Len(f[M]) = d /\ \A i \in 1..d : f[M][i] = p[i]
  BY <1>3 DEF ListsPrefix, Listing
<1>8. PICK res, new : res = f[M] /\ new = Expand(res, dim) /\ res \in Seq(Nat)
  <2>1. M \in 0..M
    OBVIOUS
  <2>2. QED
    BY <1>7, <2>1
<1>9. /\ new \in Seq(Nat) /\ Len(new) = d * K
      /\ \A a \in 0..K - 1 : \A b \in 1..d : new[a * d + b] = res[b] + a * st
  <2>1. d \in Nat \ {0} /\ Len(res) = d
    BY <1>1, <1>7, <1>8
  <2>2. Repeats(res, d, dim, new)
    BY <1>5, <1>8, <2>1, ExpandIs
  <2>3. dim[1] = st /\ dim[2] = K
    BY <1>5
  <2>4. QED
    BY <2>2, <2>3 DEF Repeats
<1>10. PICK g : g = [i \in 0..M + 1 |-> IF i <= M THEN f[i] ELSE new]
  OBVIOUS
<1>11. g[M + 1] = new /\ \A i \in 0..M : g[i] = f[i]
  <2>1. PICK z : z = M + 1 /\ z \in 0..M + 1 /\ ~(z <= M)
    OBVIOUS
  <2>2. \A i \in 0..M : i \in 0..M + 1 /\ i <= M
    OBVIOUS
  <2>3. QED
    BY <1>10, <2>1, <2>2
<1>12. Listing(more, g)
  <2>1. g \in [0..M + 1 -> Seq(Nat)]
    BY <1>7, <1>9, <1>10
  <2>2. g[0] = <<0>>
    <3>1. PICK z : z = 0 /\ z \in 0..M
      OBVIOUS
    <3>2. QED
      BY <1>7, <1>11, <3>1
  <2>3. ASSUME NEW i \in 1..M + 1
        PROVE  Len(g[i - 1]) \in Nat \ {0} /\ g[i] = Expand(g[i - 1], more[i])
    <3>1. CASE i <= M
      <4>1. i \in 1..M /\ i \in 0..M /\ i - 1 \in 0..M
        BY <3>1
      <4>2. g[i] = f[i] /\ g[i - 1] = f[i - 1] /\ more[i] = dims[i]
        BY <1>6, <1>11, <4>1
      <4>3. QED
        BY <1>7, <4>1, <4>2
    <3>2. CASE ~(i <= M)
      <4>1. i = M + 1 /\ i - 1 = M /\ M \in 0..M
        BY <3>2
      <4>2. g[i] = new /\ g[i - 1] = f[M] /\ more[i] = dim
        BY <1>6, <1>11, <4>1
      <4>3. Len(f[M]) \in Nat \ {0}
        BY <1>1, <1>7
      <4>4. QED
        BY <1>8, <4>2, <4>3
    <3>3. QED
      BY <3>1, <3>2
  <2>4. QED
    BY <1>6, <2>1, <2>2, <2>3 DEF Listing
<1>13. ASSUME NEW i \in 1..M + 1 PROVE more[i][1] > 0 /\ more[i][2] > 1
  <2>1. CASE i <= M
    <3>1. i \in 1..M
      BY <2>1
    <3>2. QED
      BY <1>6, <1>7, <3>1
  <2>2. CASE ~(i <= M)
    <3>1. i = M + 1
      BY <2>2
    <3>2. more[i] = dim /\ dim[1] = st /\ dim[2] = K
      BY <1>5, <1>6, <3>1
    <3>3. QED
      BY <1>1, <1>4, <3>2
  <2>3. QED
    BY <2>1, <2>2
<1>14. ASSUME NEW i \in 1..n PROVE new[i] = p[i]
  <2>1. PICK y \in Nat : y = i - 1 /\ i = y + 1 /\ y < n
    BY <1>1
  <2>2. PICK a \in Nat, r \in 0..d - 1 : y = d * a + r
    <3>1. d \in Nat \ {0}
      BY <1>1
    <3>2. QED
      BY <3>1, Division
  <2>3. PICK c \in Nat : c = d * a /\ a * d = c
    BY <1>1
  <2>9. y = c + r /\ d \in Nat /\ n \in Nat
    BY <1>1, <2>2, <2>3
  <2>4. PICK b : b = r + 1 /\ b \in 1..d /\ i = c + b
    BY <2>1, <2>9
  <2>5. a \in 0..K - 1
    <3>1. a < K
      <4>1. K < a \/ K = a => d * K <= c
        <5>1. d \in Nat \ {0} /\ K \in Int /\ a \in Int
          BY <1>1
        <5>2. K < a => d * K + d <= d * a
          BY <5>1, Products
        <5>3. PICK e \in Nat : e = d * K
          BY <1>1
        <5>4. QED
          BY <1>1, <2>3, <5>2, <5>3
      <4>2. d * K = n
        BY <1>1
      <4>3. c < n
        BY <2>1, <2>9
      <4>4. QED
        BY <1>1, <4>1, <4>2, <4>3
    <3>2. QED
      BY <1>1, <3>1
  <2>6. new[a * d + b] = res[b] + a * st /\ res[b] = p[b]
    BY <1>7, <1>8, <1>9, <2>4, <2>5
  <2>7. p[a * d + b] = p[b] + a * st
    <3>1. \A j \in 1..K * d : p[j] \in Int
      BY <1>1, <1>2
    <3>2. \A j \in 1..K * d - d : p[j] + st = p[j + d]
      BY <1>1, <1>4
    <3>3. d \in Nat \ {0} /\ st \in Int /\ K \in Nat \ {0}
      BY <1>1, <1>4
    <3>4. Shifting(p, d, st, K)
      BY <3>1, <3>2, <3>3 DEF Shifting
    <3>5. QED
      BY <2>4, <2>5, <3>4, PeriodRepeats
  <2>8. QED
    BY <2>3, <2>4, <2>6, <2>7
<1>15. Len(new) = n /\ \A i \in 1..n : new[i] = p[i]
  <2>1. d * K = n
    BY <1>1
  <2>2. QED
    BY <1>9, <1>14, <2>1
<1>16. ListsPrefix(p, n, more, g)
  BY <1>6, <1>11, <1>12, <1>13, <1>15 DEF ListsPrefix
<1>17. QED
  BY <1>4, <1>5, <1>16

\* A list cut to its first n entries, once its first Shortest(p, n) have become inner.
SplitOff(p, n, inner) ==
  IF n = 1 THEN << <<>> >>
  ELSE IF Periods(p, n) = {} \/ inner = <<>> THEN <<>>
  ELSE <<Append(inner[1], <<p[Shortest(p, n) + 1], n \div Shortest(p, n)>>)>>

\* g holds what becomes of the first n entries, for each n.
Cuts(p, g) ==
  /\ DOMAIN g = 1..Len(p)
  /\ \A n \in 1..Len(p) : g[n] = SplitOff(p, n, g[Shortest(p, n)])

\* What the first n entries become, when they are periodic, lists them.
CutRight(p, g, n) ==
  g[n] # <<>> => \E dims, f : g[n] = <<dims>> /\ ListsPrefix(p, n, dims, f)

\* There are such values, and Factored is the last of them.
LEMMA CutsExist ==
  ASSUME NEW p, Rising(p)
  PROVE  \E g : Cuts(p, g) /\ Factored(p) = g[Len(p)]
<1>1. PICK N \in Nat \ {0} : N = Len(p)
  BY RisingIs
<1> DEFINE Defines(g) ==
      g = [n \in 1..Len(p) |->
             IF n = 1 THEN << <<>> >>
             ELSE IF Periods(p, n) = {} THEN <<>>
             ELSE LET d == Shortest(p, n)
                      inner == g[d]
                  IN IF inner = <<>> THEN <<>> ELSE <<Append(inner[1], <<p[d + 1], n \div d>>)>>]
<1>2. Factored(p) = (CHOOSE g : Defines(g))[N]
  BY <1>1 DEF Factored
<1>3. \A g : Defines(g) <=> g = [n \in 1..N |-> SplitOff(p, n, g[Shortest(p, n)])]
  BY <1>1 DEF SplitOff
<1> HIDE DEF Defines
<1>4. PICK Pairs, S, none : /\ Pairs = Int \X Nat /\ none = <<>>
                            /\ S = {none} \cup {<<s>> : s \in Seq(Pairs)}
  OBVIOUS
<1>5. ASSUME NEW n \in 1..N, n # 1, Periods(p, n) # {}
      PROVE /\ Shortest(p, n) \in 1..n - 1
            /\ <<p[Shortest(p, n) + 1], n \div Shortest(p, n)>> \in Pairs
  <2>1. PICK d, K : d = Shortest(p, n) /\ K = n \div d
    OBVIOUS
  <2>2. n \in 2..Len(p)
    BY <1>1, <1>5
  <2>3. Repeating(p, n, d, K)
    BY <1>5, <2>1, <2>2, ShortestIs
  <2>4. d \in 1..n - 1 /\ K \in Nat
    BY <2>3 DEF Repeating
  <2>5. d + 1 \in 1..Len(p)
    BY <1>1, <2>4
  <2>6. p[d + 1] \in Int
    BY <2>5, RisingIs
  <2>7. QED
    BY <1>4, <2>1, <2>4, <2>6
<1>6. PICK prev : prev = [n \in 1..N |-> IF n = 1 \/ Periods(p, n) = {} THEN 0 ELSE Shortest(p, n)]
  OBVIOUS
<1>7. prev \in [1..N -> Nat] /\ \A n \in 1..N : prev[n] < n
  <2>1. ASSUME NEW n \in 1..N PROVE prev[n] \in Nat /\ prev[n] < n
    <3>1. CASE n = 1 \/ Periods(p, n) = {}
      BY <1>6, <3>1
    <3>2. CASE ~(n = 1 \/ Periods(p, n) = {})
      <4>1. prev[n] = Shortest(p, n) /\ Shortest(p, n) \in 1..n - 1
        BY <1>5, <1>6, <3>2
      <4>2. QED
        BY <4>1
    <3>3. QED
      BY <3>1, <3>2
  <2>2. QED
    BY <1>6, <2>1
<1>8. PICK step : step = [x \in S \X (1..N) |-> SplitOff(p, x[2], x[1])]
  OBVIOUS
<1>9. ASSUME NEW s \in S, NEW n \in 1..N PROVE SplitOff(p, n, s) \in S
  <2>1. CASE n = 1
    <3>1. <<>> \in Seq(Pairs)
      OBVIOUS
    <3>2. << <<>> >> \in S
      BY <1>4, <3>1
    <3>3. QED
      BY <2>1, <3>2 DEF SplitOff
  <2>2. CASE n # 1 /\ (Periods(p, n) = {} \/ s = none)
    BY <1>4, <2>2 DEF SplitOff
  <2>3. CASE n # 1 /\ ~(Periods(p, n) = {} \/ s = none)
    <3>1. PICK t \in Seq(Pairs) : s = <<t>> /\ s[1] = t
      BY <1>4, <2>3
    <3>2. PICK e : e = <<p[Shortest(p, n) + 1], n \div Shortest(p, n)>> /\ e \in Pairs
      BY <1>5, <2>3
    <3>3. SplitOff(p, n, s) = <<Append(t, e)>>
      BY <1>4, <2>3, <3>1, <3>2 DEF SplitOff
    <3>4. Append(t, e) \in Seq(Pairs)
      BY <3>2
    <3>5. QED
      BY <1>4, <3>3, <3>4
  <2>4. QED
    BY <2>1, <2>2, <2>3
<1>10. StepsFrom(S, none, N, step, prev)
  <2>1. step \in [S \X (1..N) -> S]
    BY <1>8, <1>9
  <2>2. none \in S
    BY <1>4
  <2>3. QED
    BY <1>7, <2>1, <2>2 DEF StepsFrom
<1>11. PICK h : Recursive(S, none, N, step, prev, h)
  BY <1>10, Recursion
<1>12. h \in [0..N -> S] /\ \A n \in 1..N : h[n] = step[<<h[prev[n]], n>>]
  BY <1>11 DEF Recursive
<1>13. PICK f : f = [n \in 1..N |-> h[n]]
  OBVIOUS
<1>14. ASSUME NEW n \in 1..N PROVE f[n] = SplitOff(p, n, f[Shortest(p, n)])
  <2>1. prev[n] \in 0..N
    BY <1>7
  <2>2. h[n] = SplitOff(p, n, h[prev[n]])
    <3>1. PICK s \in S : s = h[prev[n]]
      BY <1>12, <2>1
    <3>2. step[<<s, n>>] = SplitOff(p, n, s)
      BY <1>8
    <3>3. QED
      BY <1>12, <3>1, <3>2
  <2>3. CASE n = 1 \/ Periods(p, n) = {}
    <3>1. SplitOff(p, n, h[prev[n]]) = SplitOff(p, n, f[Shortest(p, n)])
      BY <2>3 DEF SplitOff
    <3>2. QED
      BY <1>13, <2>2, <3>1
  <2>4. CASE ~(n = 1 \/ Periods(p, n) = {})
    <3>1. prev[n] = Shortest(p, n) /\ Shortest(p, n) \in 1..N
      <4>1. Shortest(p, n) \in 1..n - 1
        BY <1>5, <2>4
      <4>2. QED
        BY <1>6, <2>4, <4>1
    <3>2. f[Shortest(p, n)] = h[prev[n]]
      BY <1>13, <3>1
    <3>3. QED
      BY <1>13, <2>2, <3>2
  <2>5. QED
    BY <2>3, <2>4
<1>15. Defines(f)
  <2>1. f = [n \in 1..N |-> SplitOff(p, n, f[Shortest(p, n)])]
    BY <1>13, <1>14
  <2>2. QED
    BY <1>3, <2>1
<1>16. PICK g : g = (CHOOSE x : Defines(x)) /\ Defines(g)
  BY <1>15
<1>17. g = [n \in 1..N |-> SplitOff(p, n, g[Shortest(p, n)])]
  BY <1>3, <1>16
<1>18. Cuts(p, g)
  BY <1>1, <1>17 DEF Cuts
<1>19. QED
  BY <1>1, <1>2, <1>16, <1>18

\* One cut more.
LEMMA CutStep ==
  ASSUME NEW p, Rising(p), NEW g, Cuts(p, g), NEW n \in 1..Len(p),
         \A d \in 1..n - 1 : CutRight(p, g, d)
  PROVE  CutRight(p, g, n)
<1>1. g[n] = SplitOff(p, n, g[Shortest(p, n)])
  BY DEF Cuts
<1>2. CASE n = 1
  <2>1. PICK dims, f : dims = <<>> /\ f = [i \in 0..0 |-> <<0>>]
    OBVIOUS
  <2>2. g[n] = <<dims>>
    BY <1>1, <1>2, <2>1 DEF SplitOff
  <2>3. dims \in Seq(Dim) /\ Len(dims) = 0
    BY <2>1
  <2>4. f \in [0..0 -> Seq(Nat)] /\ f[0] = <<0>>
    BY <2>1
  <2>5. p[1] = 0
    BY DEF Rising
  <2>6. ListsPrefix(p, 1, dims, f)
    <3>1. Len(<<0>>) = 1 /\ <<0>>[1] = 0
      OBVIOUS
    <3>2. Listing(dims, f)
      BY <2>3, <2>4 DEF Listing
    <3>3. QED
      BY <2>3, <2>4, <2>5, <3>1, <3>2 DEF ListsPrefix
  <2>7. QED
    BY <1>2, <2>2, <2>6 DEF CutRight
<1>3. CASE n # 1 /\ g[n] # <<>>
  <2>1. PICK d, inner : d = Shortest(p, n) /\ inner = g[d]
    OBVIOUS
  <2>2. Periods(p, n) # {} /\ inner # <<>> /\ g[n] = <<Append(inner[1], <<p[d + 1], n \div d>>)>>
    BY <1>1, <1>3, <2>1 DEF SplitOff
  <2>3. PICK K : K = n \div d
    OBVIOUS
  <2>4. Repeating(p, n, d, K)
    <3>1. n \in 2..Len(p)
      <4>1. Len(p) \in Nat
        BY RisingIs
      <4>2. QED
        BY <1>3, <4>1
    <3>2. QED
      BY <2>1, <2>2, <2>3, <3>1, ShortestIs
  <2>5. d \in 1..n - 1
    BY <2>4 DEF Repeating
  <2>6. PICK dims, f : inner = <<dims>> /\ ListsPrefix(p, d, dims, f)
    BY <2>1, <2>2, <2>5 DEF CutRight
  <2>7. \E h : ListsPrefix(p, n, Append(dims, <<p[d + 1], K>>), h)
    BY <2>4, <2>6, PrefixGrows
  <2>8. g[n] = <<Append(dims, <<p[d + 1], K>>)>>
    BY <2>2, <2>3, <2>6
  <2>9. QED
    BY <2>7, <2>8 DEF CutRight
<1>4. QED
  BY <1>2, <1>3 DEF CutRight

\* The dimensions a list becomes are of more than one step each, and list it.
LEMMA FactoredIs ==
  ASSUME NEW p, Rising(p), Factored(p) # <<>>
  PROVE  \E dims, f : Factored(p) = <<dims>> /\ ListsPrefix(p, Len(p), dims, f)
<1>1. PICK g : Cuts(p, g) /\ Factored(p) = g[Len(p)]
  BY CutsExist
<1>2. PICK N \in Nat \ {0} : N = Len(p)
  BY RisingIs
<1> DEFINE T == {m \in 0..N : \A n \in 1..m : CutRight(p, g, n)}
<1>3. \A m : m \in T <=> m \in 0..N /\ \A n \in 1..m : CutRight(p, g, n)
  OBVIOUS
<1> HIDE DEF T
<1>4. 0 \in T
  <2>1. PICK z : z = 0 /\ z \in 0..N /\ 1..z = {}
    OBVIOUS
  <2>2. QED
    BY <1>3, <2>1
<1>5. ASSUME NEW m \in 0..N - 1, m \in T PROVE m + 1 \in T
  <2>1. PICK n : n = m + 1 /\ n \in 0..N /\ n \in 1..Len(p) /\ n - 1 = m
    BY <1>2
  <2>2. \A d \in 1..n - 1 : CutRight(p, g, d)
    BY <1>3, <1>5, <2>1
  <2>3. CutRight(p, g, n)
    BY <1>1, <2>1, <2>2, CutStep
  <2>4. ASSUME NEW d \in 1..n PROVE CutRight(p, g, d)
    <3>1. d = n \/ d \in 1..n - 1
      BY <2>1
    <3>2. QED
      BY <2>2, <2>3, <3>1
  <2>5. QED
    BY <1>3, <2>1, <2>4
<1>6. \A m \in 0..N : m \in T
  BY <1>4, <1>5, Upwards
<1>7. CutRight(p, g, N)
  <2>1. N \in 0..N /\ N \in 1..N
    OBVIOUS
  <2>2. QED
    BY <1>3, <1>6, <2>1
<1>8. QED
  BY <1>1, <1>2, <1>7 DEF CutRight

\* What is behind the dimensions: one step of the whole period.
Padding(dims) == <<IF dims = <<>> THEN 1 ELSE Last(dims)[1] * Last(dims)[2], 1>>

\* The shape s lists p by the dimensions in front.
Shaped(p, s, dims) ==
  /\ Rising(p) /\ s \in Seq(Dim) /\ dims \in Seq(Dim)
  /\ Len(dims) <= Len(s) /\ NumDims <= Len(s)
  /\ \A i \in 1..Len(dims) : s[i] = dims[i] /\ dims[i][1] > 0 /\ dims[i][2] > 1
  /\ \A i \in Len(dims) + 1..Len(s) : s[i] = Padding(dims)
  /\ to_list(s) = p /\ size(s) = Len(p)
  /\ \E f : ListsPrefix(p, Len(p), dims, f)

\* The padding is a dimension of one step, of a stride that is not 0.
LEMMA PaddingIs ==
  ASSUME NEW dims \in Seq(Dim), \A i \in 1..Len(dims) : dims[i][1] > 0
  PROVE  Padding(dims) \in Dim /\ Padding(dims)[1] > 0 /\ Padding(dims)[2] = 1
<1>1. CASE dims = <<>>
  BY <1>1 DEF Padding, Dim
<1>2. CASE dims # <<>>
  <2>1. PICK e : e = Last(dims) /\ e \in Dim /\ e[1] > 0
    <3>1. Len(dims) \in 1..Len(dims)
      BY <1>2, EmptySeq
    <3>2. QED
      BY <3>1 DEF Last
  <2>2. PICK st \in Nat, n \in Nat \ {0} : st = e[1] /\ n = e[2] /\ st > 0
    BY <2>1 DEF Dim
  <2>3. PICK per : per = st * n /\ per \in Nat /\ per > 0
    BY <2>2
  <2>4. Padding(dims) = <<per, 1>>
    BY <1>2, <2>1, <2>2, <2>3 DEF Padding
  <2>5. QED
    BY <2>3, <2>4 DEF Dim
<1>3. QED
  BY <1>1, <1>2

\* A list from_list takes is listed by the shape it gives.
LEMMA FromListIs ==
  ASSUME NEW p \in Seq(Int), ~RefusesList(p)
  PROVE  \E dims : Shaped(p, from_list(p), dims)
<1>1. Rising(p) /\ Factored(p) # <<>>
  BY DEF RefusesList, Rising
<1>2. PICK dims, f : Factored(p) = <<dims>> /\ ListsPrefix(p, Len(p), dims, f)
  BY <1>1, FactoredIs
<1>3. /\ dims \in Seq(Dim) /\ Listing(dims, f)
      /\ \A i \in 1..Len(dims) : dims[i][1] > 0 /\ dims[i][2] > 1
      /\ Len(f[Len(dims)]) = Len(p) /\ \A i \in 1..Len(p) : f[Len(dims)][i] = p[i]
  BY <1>2 DEF ListsPrefix
<1>4. PICK d \in Nat : d = Len(dims)
  BY <1>3
<1>5. PICK pad : pad = Padding(dims) /\ pad \in Dim /\ pad[2] = 1
  BY <1>3, PaddingIs
<1>6. PICK rest : rest = [i \in 1..NumDims - d |-> pad]
  OBVIOUS
<1>7. NumDims \in Nat
  BY PatternsAssumption
<1>8. rest \in Seq(Dim) /\ Len(rest) = IF NumDims > d THEN NumDims - d ELSE 0
  <2>1. CASE NumDims > d
    <3>1. rest \in [1..NumDims - d -> Dim] /\ NumDims - d \in Nat
      BY <1>5, <1>6, <1>7, <2>1
    <3>2. QED
      BY <2>1, <3>1, FunctionIsSeq
  <2>2. CASE ~(NumDims > d)
    <3>1. 1..NumDims - d = {} /\ 1..0 = {}
      BY <1>7, <2>2
    <3>2. rest \in [1..0 -> Dim]
      BY <1>6, <3>1
    <3>3. QED
      BY <2>2, <3>2, FunctionIsSeq
  <2>3. QED
    BY <2>1, <2>2
<1>9. PICK s : s = from_list(p)
  OBVIOUS
<1>10. s = dims \o rest
  <2>1. Factored(p)[1] = dims
    BY <1>2
  <2>2. QED
    BY <1>4, <1>5, <1>6, <1>9, <2>1 DEF from_list, Padding
<1>11. /\ s \in Seq(Dim) /\ Len(s) = d + Len(rest) /\ Len(rest) \in Nat
       /\ \A i \in 1..d : s[i] = dims[i]
       /\ \A i \in d + 1..Len(s) : s[i] = pad
  <2>1. s \in Seq(Dim) /\ Len(s) = d + Len(rest) /\ Len(rest) \in Nat
    <3>1. dims \in Seq(Dim) /\ rest \in Seq(Dim)
      BY <1>3, <1>8
    <3>2. QED
      BY <1>4, <1>10, <3>1
  <2>2. \A i \in 1..d : s[i] = dims[i]
    BY <1>3, <1>4, <1>8, <1>10
  <2>3. ASSUME NEW i \in d + 1..Len(s) PROVE s[i] = pad
    <3>1. PICK j : j = i - d /\ j \in 1..Len(rest) /\ i = d + j
      BY <2>1
    <3>2. s[i] = rest[j]
      BY <1>3, <1>4, <1>8, <1>10, <2>1, <3>1
    <3>3. j \in 1..NumDims - d
      BY <1>7, <1>8, <3>1
    <3>4. QED
      BY <1>6, <3>2, <3>3
  <2>4. QED
    BY <2>1, <2>2, <2>3
<1>12. d <= Len(s) /\ NumDims <= Len(s)
  BY <1>7, <1>8, <1>11
<1>13. PICK h : Listing(s, h)
  BY <1>11, ListingExists
<1>14. h[Len(s)] = f[d]
  <2>1. \A i \in d + 1..Len(s) : s[i][2] = 1
    BY <1>5, <1>11
  <2>2. Padded(s, dims)
    BY <1>3, <1>4, <1>11, <1>12, <2>1 DEF Padded
  <2>3. QED
    BY <1>3, <1>4, <1>13, <2>2, ListingPadded
<1>15. f[d] = p
  <2>1. f[d] \in Seq(Nat)
    <3>1. d \in 0..d
      OBVIOUS
    <3>2. QED
      BY <1>3, <1>4, <3>1 DEF Listing
  <2>2. f[d] \in Seq(Int) /\ p \in Seq(Int) /\ Len(f[d]) = Len(p)
    BY <1>3, <1>4, <2>1
  <2>3. \A i \in 1..Len(f[d]) : f[d][i] = p[i]
    BY <1>3, <1>4, <2>2
  <2>4. QED
    BY <2>2, <2>3, SeqEqual
<1>16. to_list(s) = p
  BY <1>11, <1>13, <1>14, <1>15, ToListIs
<1>17. size(s) = Len(p)
  BY <1>11, <1>13, <1>14, <1>15, ListingSize
<1>18. Shaped(p, s, dims)
  BY <1>1, <1>2, <1>3, <1>4, <1>5, <1>11, <1>12, <1>16, <1>17 DEF Shaped
<1>19. QED
  BY <1>9, <1>18

\* The dimensions in front are those that are not trivial.
LEMMA RealDimsAre ==
  ASSUME NEW p, NEW s, NEW dims, Shaped(p, s, dims)
  PROVE  RealDims(s) = 1..Len(dims) /\ Cardinality(RealDims(s)) = Len(dims)
<1>1. /\ s \in Seq(Dim) /\ dims \in Seq(Dim) /\ Len(dims) <= Len(s)
      /\ \A i \in 1..Len(dims) : s[i] = dims[i] /\ dims[i][1] > 0 /\ dims[i][2] > 1
      /\ \A i \in Len(dims) + 1..Len(s) : s[i] = Padding(dims)
  BY DEF Shaped
<1>2. PICK d \in Nat, N \in Nat : d = Len(dims) /\ N = Len(s) /\ d <= N
  BY <1>1
<1>3. ASSUME NEW i \in 1..N PROVE s[i][2] > 1 <=> i \in 1..d
  <2>1. CASE i \in 1..d
    BY <1>1, <1>2, <2>1
  <2>2. CASE i \notin 1..d
    <3>1. i \in d + 1..N
      BY <2>2
    <3>2. s[i][2] = 1
      BY <1>1, <1>2, <3>1, PaddingIs
    <3>3. QED
      BY <2>2, <3>2
  <2>3. QED
    BY <2>1, <2>2
<1>4. RealDims(s) = 1..d
  <2>1. \A i \in 1..d : i \in 1..N
    BY <1>2
  <2>2. QED
    BY <1>2, <1>3, <2>1 DEF RealDims
<1>5. Cardinality(1..d) = d
  BY FS_Interval
<1>6. QED
  BY <1>2, <1>4, <1>5

\* The innermost of them makes the modulus and the window.
LEMMA ConstraintIs ==
  ASSUME NEW p, NEW s, NEW dims, Shaped(p, s, dims)
  PROVE  \E win \in Nat \ {0}, n \in Nat \ {0} :
           /\ axis_constraint(s) = <<win * n, win>>
           /\ dims # <<>> => dims[1] = <<win, n>>
<1>1. RealDims(s) = 1..Len(dims)
  BY RealDimsAre
<1>2. /\ s \in Seq(Dim) /\ dims \in Seq(Dim) /\ Len(dims) <= Len(s)
      /\ \A i \in 1..Len(dims) : s[i] = dims[i] /\ dims[i][1] > 0 /\ dims[i][2] > 1
  BY DEF Shaped
<1>3. CASE dims = <<>>
  <2>1. RealDims(s) = {}
    BY <1>1, <1>3
  <2>2. axis_constraint(s) = <<1, 1>>
    BY <2>1 DEF axis_constraint
  <2>3. PICK one : one = 1 /\ one \in Nat \ {0} /\ one * one = 1
    OBVIOUS
  <2>4. QED
    BY <1>3, <2>2, <2>3
<1>4. CASE dims # <<>>
  <2>1. PICK d \in Nat \ {0} : d = Len(dims)
    BY <1>2, <1>4, EmptySeq
  <2>2. PICK i : i = CHOOSE h \in RealDims(s) : \A j \in RealDims(s) : h <= j
    OBVIOUS
  <2>3. i = 1
    <3>1. 1 \in RealDims(s) /\ \A j \in RealDims(s) : 1 <= j
      BY <1>1, <2>1
    <3>2. i \in RealDims(s) /\ \A j \in RealDims(s) : i <= j
      BY <2>2, <3>1
    <3>3. QED
      BY <1>1, <2>1, <3>1, <3>2
  <2>4. 1 \in 1..d /\ s[1] = dims[1] /\ dims[1] \in Dim /\ dims[1][1] > 0
    BY <1>2, <2>1
  <2>5. PICK win \in Nat \ {0}, n \in Nat \ {0} : dims[1] = <<win, n>> /\ win = s[1][1] /\ n = s[1][2]
    BY <2>4 DEF Dim
  <2>6. RealDims(s) # {}
    BY <1>1, <2>1
  <2>7. axis_constraint(s) = <<s[i][1] * s[i][2], s[i][1]>>
    BY <2>2, <2>6 DEF axis_constraint
  <2>8. axis_constraint(s) = <<win * n, win>>
    BY <2>3, <2>5, <2>7
  <2>9. QED
    BY <2>5, <2>8
<1>5. QED
  BY <1>3, <1>4

\* e is the offsets below upper in windows of win at the multiples of per, in order.
Windows(e, upper, per, win) ==
  /\ e \in Seq(Nat)
  /\ \A x \in 1..Len(e) : e[x] = ((x - 1) \div win) * per + ((x - 1) % win) /\ e[x] < upper
  /\ \A q \in Nat : \A r \in 0..win - 1 : q * per + r < upper => q * per + r \in ToSet(e)
  /\ upper <= 0 => Len(e) = 0
  /\ upper > 0 => Len(e) = ((upper - 1) \div per) * win
                             + Least(win, upper - ((upper - 1) \div per) * per)

\* No window begins below a bound of 0.
LEMMA NoWindows ==
  ASSUME NEW e, e = <<>>, NEW upper \in Int, upper <= 0, NEW per \in Nat \ {0},
         NEW win \in Nat \ {0}
  PROVE  Windows(e, upper, per, win)
<1>1. e \in Seq(Nat) /\ Len(e) = 0
  OBVIOUS
<1>2. ASSUME NEW q \in Nat, NEW r \in 0..win - 1 PROVE ~(q * per + r < upper)
  <2>1. q * per \in Nat
    OBVIOUS
  <2>2. QED
    BY <2>1
<1>3. 1..Len(e) = {}
  BY <1>1
<1>4. QED
  BY <1>1, <1>2, <1>3 DEF Windows

\* The windows begin below the bound, and only the last one may be cut.
Cutting(upper, per, win, n, base, width) ==
  /\ upper \in Nat \ {0} /\ per \in Nat \ {0} /\ win \in 1..per
  /\ n = (upper - 1) \div per + 1
  /\ base = [w \in 0..n - 1 |-> w * per]
  /\ width = [w \in 0..n - 1 |-> Least(win, upper - w * per)]

\* What follows of the windows.
LEMMA CuttingIs ==
  ASSUME NEW upper, NEW per, NEW win, NEW n, NEW base, NEW width,
         Cutting(upper, per, win, n, base, width)
  PROVE  /\ n \in Nat \ {0}
         /\ \A w \in 0..n - 1 : /\ base[w] \in Nat /\ width[w] \in 1..win
                                /\ base[w] + width[w] <= upper
                                /\ \A d \in 0..win - 1 : base[w] + d < upper => d < width[w]
         /\ \A w \in 0..n - 2 : width[w] = win
         /\ \A q \in Nat : q * per < upper => q \in 0..n - 1
<1>1. /\ upper \in Nat \ {0} /\ per \in Nat \ {0} /\ win \in 1..per
      /\ n = (upper - 1) \div per + 1
  BY DEF Cutting
<1>2. PICK v \in Nat : v = upper - 1 /\ upper = v + 1
  BY <1>1
<1>3. PICK k \in Nat, r \in 0..per - 1 : k = v \div per /\ v = per * k + r
  BY <1>1, <1>2, Division
<1>4. n = k + 1 /\ n \in Nat \ {0} /\ n - 1 = k
  BY <1>1, <1>2, <1>3
<1>5. PICK c \in Nat : c = per * k
  BY <1>1
<1>6. ASSUME NEW w \in Nat, w < k PROVE w * per + per <= c
  <2>1. per * w + per <= per * k
    <3>1. w \in Int /\ k \in Int /\ per \in Nat \ {0}
      BY <1>1
    <3>2. QED
      BY <1>6, <3>1, Products
  <2>2. per * w = w * per
    BY <1>1
  <2>3. QED
    BY <1>5, <2>1, <2>2
<1>7. ASSUME NEW w \in 0..n - 1
      PROVE /\ base[w] \in Nat /\ base[w] = w * per /\ width[w] = Least(win, upper - w * per)
            /\ w * per <= c
  <2>1. w \in 0..k
    BY <1>4
  <2>2. base[w] = w * per /\ width[w] = Least(win, upper - w * per)
    BY DEF Cutting
  <2>3. w * per \in Nat
    BY <1>1
  <2>4. w * per <= c
    <3>1. CASE w < k
      <4>1. w * per + per <= c
        BY <1>6, <3>1
      <4>2. QED
        BY <1>1, <2>3, <4>1
    <3>2. CASE ~(w < k)
      <4>1. w = k /\ k * per = per * k
        BY <1>1, <2>1, <3>2
      <4>2. QED
        BY <1>5, <4>1
    <3>3. QED
      BY <3>1, <3>2
  <2>5. QED
    BY <2>2, <2>3, <2>4
<1>8. ASSUME NEW w \in 0..n - 1
      PROVE /\ base[w] \in Nat /\ width[w] \in 1..win
            /\ base[w] + width[w] <= upper
            /\ \A d \in 0..win - 1 : base[w] + d < upper => d < width[w]
  <2>1. PICK b \in Nat : b = w * per /\ b = base[w] /\ width[w] = Least(win, upper - b) /\ b <= c
    BY <1>7
  <2>2. v = c + r /\ upper - b \in Nat \ {0}
    BY <1>2, <1>3, <1>5, <2>1
  <2>3. PICK l : l = upper - b /\ l \in Nat \ {0} /\ upper = l + b
    BY <1>1, <2>2
  <2>4. win \in Nat \ {0}
    BY <1>1
  <2>5. CASE win <= l
    <3>1. width[w] = win
      BY <2>1, <2>3, <2>5 DEF Least
    <3>2. QED
      BY <2>1, <2>3, <2>4, <2>5, <3>1
  <2>6. CASE ~(win <= l)
    <3>1. width[w] = l
      BY <2>1, <2>3, <2>6 DEF Least
    <3>2. QED
      BY <2>1, <2>3, <2>4, <2>6, <3>1
  <2>7. QED
    BY <2>5, <2>6
<1>9. ASSUME NEW w \in 0..n - 2 PROVE width[w] = win
  <2>1. w \in 0..n - 1 /\ w < k /\ w \in Nat
    BY <1>4
  <2>2. PICK b \in Nat : b = w * per /\ b + per <= c /\ width[w] = Least(win, upper - b)
    BY <1>6, <1>7, <2>1
  <2>3. win <= upper - b
    BY <1>1, <1>2, <1>3, <1>5, <2>2
  <2>4. QED
    BY <2>2, <2>3 DEF Least
<1>10. ASSUME NEW q \in Nat, q * per < upper PROVE q \in 0..n - 1
  <2>1. q <= k
    <3>1. k < q => per * k + per <= per * q
      <4>1. q \in Int /\ k \in Int /\ per \in Nat \ {0}
        BY <1>1
      <4>2. QED
        BY <4>1, Products
    <3>2. PICK e \in Nat : e = per * q /\ e = q * per
      BY <1>1
    <3>3. e < upper /\ upper <= c + per
      BY <1>1, <1>2, <1>3, <1>5, <1>10, <3>2
    <3>4. k < q => c + per <= e
      BY <1>5, <3>1, <3>2
    <3>5. QED
      BY <1>1, <3>3, <3>4
  <2>2. QED
    BY <1>4, <2>1
<1>11. QED
  BY <1>4, <1>8, <1>9, <1>10

\* The windows' offsets.
Rowing(seqs, n, base, width) ==
  seqs = [w \in 1..n |-> [d \in 1..width[w - 1] |-> base[w - 1] + d - 1]]

\* One behind the other they are the valid offsets.
LEMMA SomeWindows ==
  ASSUME NEW upper, NEW per, NEW win, NEW n, NEW base, NEW width,
         Cutting(upper, per, win, n, base, width),
         NEW seqs, Rowing(seqs, n, base, width)
  PROVE  Windows(FlattenSeq(seqs), upper, per, win)
<1>1. upper \in Nat \ {0} /\ per \in Nat \ {0} /\ win \in Nat \ {0}
  BY DEF Cutting
<1>2. /\ n \in Nat \ {0}
      /\ \A w \in 0..n - 1 : /\ base[w] \in Nat /\ width[w] \in 1..win
                             /\ base[w] + width[w] <= upper
                             /\ \A d \in 0..win - 1 : base[w] + d < upper => d < width[w]
      /\ \A w \in 0..n - 2 : width[w] = win
      /\ \A q \in Nat : q * per < upper => q \in 0..n - 1
  BY CuttingIs
<1>3. ASSUME NEW w \in 0..n - 1
      PROVE base[w] = w * per /\ width[w] = Least(win, upper - w * per)
  BY DEF Cutting
<1>4. ASSUME NEW w \in 0..n - 1
      PROVE /\ seqs[w + 1] \in Seq(Nat) /\ Len(seqs[w + 1]) = width[w]
            /\ \A d \in 0..width[w] - 1 : seqs[w + 1][d + 1] = base[w] + d
  <2>1. PICK b \in Nat, l \in Nat \ {0} : b = base[w] /\ l = width[w]
    <3>1. base[w] \in Nat /\ width[w] \in 1..win
      BY <1>2
    <3>2. width[w] \in Nat \ {0}
      BY <1>1, <3>1
    <3>3. QED
      BY <3>1, <3>2
  <2>2. seqs[w + 1] = [d \in 1..l |-> b + d - 1]
    <3>1. PICK v : v = w + 1 /\ v \in 1..n /\ v - 1 = w
      BY <1>2
    <3>2. seqs[v] = [d \in 1..width[v - 1] |-> base[v - 1] + d - 1]
      BY <3>1 DEF Rowing
    <3>3. QED
      BY <2>1, <3>1, <3>2
  <2>3. PICK s : s = seqs[w + 1]
    OBVIOUS
  <2>4. s \in [1..l -> Nat]
    BY <2>2, <2>3
  <2>5. s \in Seq(Nat) /\ Len(s) = l
    BY <2>4, FunctionIsSeq
  <2>6. ASSUME NEW d \in 0..l - 1 PROVE s[d + 1] = b + d
    <3>1. PICK e : e = d + 1 /\ e \in 1..l /\ b + e - 1 = b + d
      OBVIOUS
    <3>2. QED
      BY <2>2, <2>3, <3>1
  <2>7. QED
    BY <2>1, <2>3, <2>5, <2>6
<1>5. ASSUME NEW x \in 1..n PROVE seqs[x] \in Seq(Nat) /\ Len(seqs[x]) = width[x - 1]
  <2>1. PICK w : w = x - 1 /\ w \in 0..n - 1 /\ w + 1 = x
    BY <1>2
  <2>2. QED
    BY <1>4, <2>1
<1>6. RowsOf(Nat, n, win, seqs)
  <2>1. seqs \in [1..n -> Seq(Nat)]
    BY <1>5 DEF Rowing
  <2>2. ASSUME NEW i \in 1..n - 1 PROVE Len(seqs[i]) = win
    <3>1. i \in 1..n /\ i - 1 \in 0..n - 2
      BY <1>2
    <3>2. QED
      BY <1>2, <1>5, <3>1
  <2>3. QED
    BY <1>1, <1>2, <2>1, <2>2 DEF RowsOf
<1>7. PICK k \in Nat : k = n - 1 /\ n = k + 1 /\ k \in 0..n - 1
  BY <1>2
<1>8. PICK last \in Nat \ {0} : last = Len(seqs[n]) /\ last = width[k] /\ last <= win
  <2>1. n \in 1..n
    BY <1>2
  <2>2. Len(seqs[n]) = width[k] /\ width[k] \in 1..win
    BY <1>2, <1>5, <1>7, <2>1
  <2>3. QED
    BY <1>1, <2>2
<1>9. PICK e : e = FlattenSeq(seqs) /\ Flat(Nat, n, win, seqs, e)
  <2>1. Len(seqs[n]) <= win
    BY <1>8
  <2>2. QED
    BY <1>1, <1>6, <2>1, Flattened
<1>10. PICK m \in Nat : m = k * win /\ m = win * k
  BY <1>1
<1>11. e \in Seq(Nat) /\ Len(e) = m + last
  <2>1. e \in Seq(Nat) /\ Len(e) = (n - 1) * win + Len(seqs[n])
    BY <1>9 DEF Flat, Filled
  <2>2. QED
    BY <1>7, <1>8, <1>10, <2>1
<1>12. ASSUME NEW x \in 1..Len(e)
       PROVE  e[x] = ((x - 1) \div win) * per + ((x - 1) % win) /\ e[x] < upper
  <2>1. PICK q, r : q = (x - 1) \div win /\ r = (x - 1) % win
    OBVIOUS
  <2>2. InRow(n, seqs, q, r, e[x]) /\ r \in 0..win - 1
    BY <1>9, <2>1, FlatDiv
  <2>3. q \in 0..n - 1 /\ r + 1 \in 1..Len(seqs[q + 1]) /\ e[x] = seqs[q + 1][r + 1]
    BY <2>2 DEF InRow
  <2>4. PICK l \in Nat, b \in Nat : l = width[q] /\ b = base[q] /\ b + l <= upper
    <3>1. base[q] \in Nat /\ width[q] \in 1..win /\ base[q] + width[q] <= upper
      BY <1>2, <2>3
    <3>2. width[q] \in Nat
      BY <1>1, <3>1
    <3>3. QED
      BY <3>1, <3>2
  <2>5. Len(seqs[q + 1]) = l
    BY <1>4, <2>3, <2>4
  <2>6. r \in Nat /\ r < l /\ r \in 0..l - 1
    BY <1>1, <2>2, <2>3, <2>5
  <2>7. e[x] = b + r
    BY <1>4, <2>3, <2>4, <2>6
  <2>8. b = q * per
    BY <1>3, <2>3, <2>4
  <2>9. b + r < upper
    BY <1>1, <2>4, <2>6
  <2>10. QED
    BY <2>1, <2>7, <2>8, <2>9
<1>13. ASSUME NEW q \in Nat, NEW r \in 0..win - 1, q * per + r < upper
       PROVE  q * per + r \in ToSet(e)
  <2>1. PICK b \in Nat : b = q * per
    BY <1>1
  <2>2. q \in 0..n - 1
    <3>1. b < upper
      BY <1>1, <1>13, <2>1
    <3>2. QED
      BY <1>2, <2>1, <3>1
  <2>3. base[q] = b
    BY <1>3, <2>1, <2>2
  <2>4. PICK l \in Nat : l = width[q] /\ r < l /\ l <= win
    <3>1. r < width[q] /\ width[q] \in 1..win
      BY <1>2, <1>13, <2>1, <2>2, <2>3
    <3>2. QED
      BY <1>1, <3>1
  <2>5. PICK c \in Nat : c = q * win /\ c = win * q
    BY <1>1
  <2>6. c + r + 1 <= m + last
    <3>1. r \in Nat /\ r + 1 <= win
      BY <1>1
    <3>2. CASE q < k
      <4>1. win * q + win <= win * k
        <5>1. q \in Int /\ k \in Int /\ win \in Nat \ {0}
          BY <1>1
        <5>2. QED
          BY <3>2, <5>1, Products
      <4>2. QED
        BY <1>1, <1>10, <2>5, <3>1, <4>1
    <3>3. CASE ~(q < k)
      <4>1. q = k
        BY <1>7, <2>2, <3>3
      <4>2. c = m /\ l = last
        BY <1>8, <1>10, <2>4, <2>5, <4>1
      <4>3. QED
        BY <2>4, <3>1, <4>2
    <3>4. QED
      BY <3>2, <3>3
  <2>7. InRow(n, seqs, q, r, e[c + r + 1])
    <3>1. BehindRows(win, q, r, c)
      BY <2>5 DEF BehindRows
    <3>2. c + r + 1 <= Len(e)
      BY <1>11, <2>6
    <3>3. QED
      BY <1>9, <3>1, <3>2, FlatAt
  <2>8. e[c + r + 1] = b + r
    <3>1. r \in 0..width[q] - 1
      BY <2>4
    <3>2. seqs[q + 1][r + 1] = base[q] + r
      BY <1>4, <2>2, <3>1
    <3>3. QED
      BY <2>3, <2>7, <3>2 DEF InRow
  <2>9. c + r + 1 \in DOMAIN e
    <3>1. c + r + 1 \in 1..m + last
      BY <2>6
    <3>2. DOMAIN e = 1..m + last
      BY <1>11
    <3>3. QED
      BY <3>1, <3>2
  <2>10. QED
    BY <2>1, <2>8, <2>9 DEF ToSet
<1>14. (upper - 1) \div per = k
  <2>1. n = (upper - 1) \div per + 1
    BY DEF Cutting
  <2>2. upper - 1 \in Nat
    BY <1>1
  <2>3. (upper - 1) \div per \in Int
    BY <1>1, <2>2, Division
  <2>4. QED
    BY <1>7, <2>1, <2>3
<1>15. Len(e) = ((upper - 1) \div per) * win + Least(win, upper - ((upper - 1) \div per) * per)
  BY <1>3, <1>7, <1>8, <1>10, <1>11, <1>14
<1>16. ~(upper <= 0)
  BY <1>1
<1>17. QED
  BY <1>9, <1>11, <1>12, <1>13, <1>15, <1>16 DEF Windows

\* enumerate_valid_offsets gives the windows below the limit.
LEMMA EnumerateIs ==
  ASSUME NEW s, NEW axisLen, NEW upper \in Int, upper = OffsetLimit(s, axisLen),
         NEW win \in Nat \ {0}, NEW per \in Nat \ {0}, win <= per,
         axis_constraint(s) = <<per, win>>
  PROVE  Windows(enumerate_valid_offsets(s, axisLen), upper, per, win)
<1>1. PICK n : n = IF upper <= 0 THEN 0 ELSE (upper - 1) \div per + 1
  OBVIOUS
<1>2. PICK seqs : seqs = [w \in 1..n |->
                            [d \in 1..(IF win < upper - (w - 1) * per THEN win
                                       ELSE upper - (w - 1) * per) |-> (w - 1) * per + d - 1]]
  OBVIOUS
<1>3. axis_constraint(s)[1] = per /\ axis_constraint(s)[2] = win
  OBVIOUS
<1>4. enumerate_valid_offsets(s, axisLen) = FlattenSeq(seqs)
  BY <1>1, <1>2, <1>3 DEF enumerate_valid_offsets
<1>5. CASE upper <= 0
  <2>1. n = 0 /\ 1..n = {} /\ 1..0 = {}
    BY <1>1, <1>5
  <2>2. seqs \in [1..0 -> {}]
    BY <1>2, <2>1
  <2>3. seqs \in Seq({}) /\ Len(seqs) = 0
    BY <2>2, FunctionIsSeq
  <2>4. FlattenSeq(seqs) = seqs
    BY <2>3 DEF FlattenSeq
  <2>5. seqs = <<>>
    BY <2>3
  <2>6. QED
    BY <1>4, <1>5, <2>4, <2>5, NoWindows
<1>6. CASE ~(upper <= 0)
  <2>1. PICK base, width : /\ base = [w \in 0..n - 1 |-> w * per]
                           /\ width = [w \in 0..n - 1 |-> Least(win, upper - w * per)]
    OBVIOUS
  <2>2. n = (upper - 1) \div per + 1
    BY <1>1, <1>6
  <2>3. Cutting(upper, per, win, n, base, width)
    BY <1>6, <2>1, <2>2 DEF Cutting
  <2>4. n \in Nat \ {0}
    BY <2>3, CuttingIs
  <2>5. ASSUME NEW w \in 1..n
        PROVE  seqs[w] = [d \in 1..width[w - 1] |-> base[w - 1] + d - 1]
    <3>1. PICK v \in 0..n - 1 : v = w - 1
      BY <2>4
    <3>2. PICK b \in Int, left \in Int : b = v * per /\ left = upper - b
      OBVIOUS
    <3>3. base[v] = b /\ width[v] = Least(win, left)
      BY <2>1, <3>2
    <3>4. Least(win, left) = IF win < left THEN win ELSE left
      BY <3>2 DEF Least
    <3>5. seqs[w] = [d \in 1..(IF win < left THEN win ELSE left) |-> b + d - 1]
      BY <1>2, <3>1, <3>2
    <3>6. QED
      BY <3>1, <3>3, <3>4, <3>5
  <2>6. seqs = [w \in 1..n |-> [d \in 1..width[w - 1] |-> base[w - 1] + d - 1]]
    BY <1>2, <2>5
  <2>7. Rowing(seqs, n, base, width)
    BY <2>6 DEF Rowing
  <2>8. QED
    BY <1>4, <2>3, <2>7, SomeWindows
<1>7. QED
  BY <1>5, <1>6

\* A pattern of one dimension lists the multiples of its stride.
Ladder(p, s, st, n) ==
  /\ st \in Nat \ {0} /\ n \in Nat \ {0} /\ axis_constraint(s) = <<st * n, st>>
  /\ period(s) = st * n /\ to_list(s) = p /\ p \in Seq(Int) /\ Len(p) = n
  /\ \A a \in 0..n - 1 : p[a + 1] = a * st

\* That is what it is.
LEMMA OneDimension ==
  ASSUME NEW p, NEW s, NEW dims, Shaped(p, s, dims), Cardinality(RealDims(s)) = 1
  PROVE  \E st, n : Ladder(p, s, st, n)
<1>1. Len(dims) = 1
  BY RealDimsAre
<1>2. /\ Rising(p) /\ s \in Seq(Dim) /\ dims \in Seq(Dim) /\ Len(dims) <= Len(s)
      /\ \A i \in 1..Len(dims) : s[i] = dims[i]
      /\ \A i \in Len(dims) + 1..Len(s) : s[i] = Padding(dims)
      /\ to_list(s) = p
  BY DEF Shaped
<1>3. dims # <<>>
  BY <1>1
<1>4. PICK st \in Nat \ {0}, n \in Nat \ {0} :
        axis_constraint(s) = <<st * n, st>> /\ dims[1] = <<st, n>>
  BY <1>3, ConstraintIs
<1>5. PICK f : ListsPrefix(p, Len(p), dims, f)
  BY DEF Shaped
<1>6. /\ Listing(dims, f) /\ Len(f[1]) = Len(p) /\ \A i \in 1..Len(p) : f[1][i] = p[i]
  BY <1>1, <1>5 DEF ListsPrefix
<1>7. f[1] = Expand(f[0], dims[1]) /\ f[0] = <<0>>
  <2>1. PICK o : o = 1 /\ o \in 1..Len(dims) /\ o - 1 = 0
    BY <1>1
  <2>2. f[o] = Expand(f[o - 1], dims[o]) /\ f[0] = <<0>>
    BY <1>6, <2>1 DEF Listing
  <2>3. QED
    BY <2>1, <2>2
<1>8. PICK one, dim : one = 1 /\ one \in Nat \ {0} /\ dim = <<st, n>> /\ dim \in Dim
  <2>1. <<st, n>> \in Dim
    BY DEF Dim
  <2>2. QED
    BY <2>1
<1>9. Repeats(<<0>>, one, dim, f[1])
  <2>1. <<0>> \in Seq(Nat) /\ Len(<<0>>) = one
    BY <1>8
  <2>2. QED
    BY <1>4, <1>7, <1>8, <2>1, ExpandIs
<1>10. /\ Len(f[1]) = one * n
       /\ \A a \in 0..n - 1 : \A b \in 1..one : f[1][a * one + b] = <<0>>[b] + a * st
  <2>1. dim[1] = st /\ dim[2] = n
    BY <1>8
  <2>2. QED
    BY <1>9, <2>1 DEF Repeats
<1>11. Len(p) = n
  BY <1>6, <1>8, <1>10
<1>12. ASSUME NEW a \in 0..n - 1 PROVE p[a + 1] = a * st
  <2>1. PICK x : x = a + 1 /\ x \in 1..n
    OBVIOUS
  <2>2. a * one + one = x /\ one \in 1..one /\ <<0>>[one] + a * st = a * st
    BY <1>8, <2>1
  <2>3. f[1][a * one + one] = <<0>>[one] + a * st
    BY <1>10, <2>2
  <2>4. QED
    BY <1>6, <1>11, <2>1, <2>2, <2>3
<1>13. period(s) = st * n
  <2>1. PICK N \in Nat \ {0} : N = Len(s)
    BY <1>1, <1>2
  <2>2. Last(s) = s[N]
    BY <2>1 DEF Last
  <2>3. CASE N = 1
    <3>1. 1 \in 1..Len(dims)
      BY <1>1
    <3>2. s[N] = <<st, n>>
      BY <1>2, <1>4, <2>3, <3>1
    <3>3. QED
      BY <2>2, <3>2 DEF period
  <2>4. CASE N # 1
    <3>1. N \in Len(dims) + 1..Len(s)
      BY <1>1, <2>1, <2>4
    <3>2. s[N] = Padding(dims)
      BY <1>2, <3>1
    <3>3. Last(dims) = <<st, n>>
      BY <1>1, <1>4 DEF Last
    <3>4. s[N] = <<st * n, 1>>
      BY <1>3, <3>2, <3>3 DEF Padding
    <3>5. st * n \in Nat
      OBVIOUS
    <3>6. QED
      BY <2>2, <3>4, <3>5 DEF period
  <2>5. QED
    BY <2>3, <2>4
<1>14. p \in Seq(Int)
  BY <1>2 DEF Rising
<1>15. QED
  BY <1>2, <1>4, <1>11, <1>12, <1>13, <1>14 DEF Ladder

\* Quotient and remainder, by name.
LEMMA Divided ==
  ASSUME NEW a \in Nat, NEW M \in Nat \ {0}
  PROVE  \E q \in Nat : \E r \in 0..M - 1 : q = a \div M /\ r = a % M /\ a = M * q + r
<1>1. PICK q, r : q = a \div M /\ r = a % M
  OBVIOUS
<1>2. q \in Nat /\ r \in 0..M - 1 /\ a = M * q + r
  BY <1>1, Division
<1>3. QED
  BY <1>1, <1>2

\* The indices a candidate touches.
LEMMA TouchedIs ==
  ASSUME NEW p \in Seq(Int), NEW s, to_list(s) = p, NEW o \in Int, NEW x
  PROVE  x \in ToSet(indices_with_offset(s, o)) <=> \E i \in 1..Len(p) : x = p[i] + o
<1>1. indices_with_offset(s, o) = [i \in 1..Len(p) |-> p[i] + o]
  BY DEF indices_with_offset
<1>2. QED
  BY <1>1 DEF ToSet

\* A candidate of a valid offset stays inside the axis.
LEMMA InsideAxis ==
  ASSUME NEW p, NEW s, NEW dims, Shaped(p, s, dims), NEW axisLen \in Nat,
         NEW o \in ToSet(enumerate_valid_offsets(s, axisLen))
  PROVE  ToSet(indices_with_offset(s, o)) \subseteq 0..axisLen - 1
<1>1. Rising(p) /\ to_list(s) = p
  BY DEF Shaped
<1>2. /\ p \in Seq(Int) /\ Len(p) \in Nat \ {0}
      /\ \A i \in 1..Len(p) : p[i] \in Nat /\ p[i] <= p[Len(p)]
  BY <1>1, RisingIs DEF Rising
<1>3. PICK l \in Nat : l = p[Len(p)] /\ Last(p) = l
  BY <1>2 DEF Last
<1>4. PICK upper \in Int : upper = OffsetLimit(s, axisLen) /\ upper = axisLen - l
  BY <1>1, <1>3 DEF OffsetLimit
<1>5. PICK win \in Nat \ {0}, n \in Nat \ {0} : axis_constraint(s) = <<win * n, win>>
  BY ConstraintIs
<1>6. PICK per \in Nat \ {0} : per = win * n /\ win <= per
  <2>1. PICK k \in Nat : n = k + 1 /\ k = n - 1
    OBVIOUS
  <2>2. win * n = win * k + win /\ win * k \in Nat
    BY <2>1
  <2>3. QED
    BY <2>2
<1>7. PICK e : e = enumerate_valid_offsets(s, axisLen) /\ Windows(e, upper, per, win)
  BY <1>4, <1>5, <1>6, EnumerateIs
<1>8. o \in Nat /\ o < upper
  <2>1. PICK x \in DOMAIN e : o = e[x]
    BY <1>7 DEF ToSet
  <2>2. e \in Seq(Nat) /\ \A y \in 1..Len(e) : e[y] < upper
    BY <1>7 DEF Windows
  <2>3. QED
    BY <2>1, <2>2
<1>9. ASSUME NEW x \in ToSet(indices_with_offset(s, o)) PROVE x \in 0..axisLen - 1
  <2>1. PICK i \in 1..Len(p) : x = p[i] + o
    BY <1>1, <1>2, <1>8, TouchedIs
  <2>2. p[i] \in Nat /\ p[i] <= l
    BY <1>2, <1>3
  <2>3. QED
    BY <1>4, <1>8, <2>1, <2>2
<1>10. QED
  BY <1>9

\* The candidate of window q and place r in it touches x with its a-th index.
Touching(st, n, per, q, r, a, x) ==
  /\ st \in Nat \ {0} /\ n \in Nat \ {0} /\ per = st * n
  /\ q \in Nat /\ r \in 0..st - 1 /\ a \in 0..n - 1 /\ x = a * st + (q * per + r)

\* It is the only one: x is behind n * q + a strides, and r more.
LEMMA OwnerOf ==
  ASSUME NEW st, NEW n, NEW per, NEW q, NEW r, NEW a, NEW x, Touching(st, n, per, q, r, a, x)
  PROVE  (x \div st) \div n = q /\ x % st = r
<1>1. /\ st \in Nat \ {0} /\ n \in Nat \ {0} /\ per = st * n
      /\ q \in Nat /\ r \in 0..st - 1 /\ a \in 0..n - 1 /\ x = a * st + (q * per + r)
  BY DEF Touching
<1>2. PICK h \in Nat, c \in Nat : h = c + a /\ c = n * q
  BY <1>1
<1>3. x = st * h + r /\ x \in Nat
  <2>1. q * per = st * c
    BY <1>1, <1>2
  <2>2. st * h = st * c + a * st
    BY <1>1, <1>2
  <2>3. a * st \in Nat /\ st * c \in Nat
    BY <1>1
  <2>4. QED
    BY <1>1, <2>1, <2>2, <2>3
<1>4. x \div st = h /\ x % st = r
  <2>1. x \in Nat /\ st \in Nat \ {0} /\ h \in Int /\ r \in 0..st - 1 /\ x = st * h + r
    BY <1>1, <1>3
  <2>2. QED
    BY <2>1, Quotient
<1>5. h \div n = q
  <2>1. n \in Nat \ {0} /\ q \in Int /\ a \in 0..n - 1 /\ h = n * q + a
    BY <1>1, <1>2
  <2>2. QED
    BY <2>1, Quotient
<1>6. QED
  BY <1>4, <1>5

\* The offsets of whole periods inside the axis are valid.
LEMMA WholeInside ==
  ASSUME NEW st \in Nat \ {0}, NEW n \in Nat \ {0}, NEW per, per = st * n,
         NEW K \in Nat, NEW axisLen \in Nat, per * K <= axisLen,
         NEW q \in Nat, q < K, NEW r \in 0..st - 1
  PROVE  q * per + r < axisLen - (n - 1) * st
<1>1. per \in Nat \ {0}
  OBVIOUS
<1>2. per * q + per <= per * K
  BY <1>1, Products
<1>3. (n - 1) * st = per - st
  OBVIOUS
<1>4. PICK b \in Nat, e \in Nat : b = per * q /\ b = q * per /\ e = per * K
  BY <1>1
<1>5. QED
  BY <1>1, <1>2, <1>3, <1>4

\* What the grid of a pattern of one dimension is made of.
OneAxis(s, axisLen, p, st, n, per, upper, e) ==
  /\ Ladder(p, s, st, n) /\ axisLen \in Nat /\ per = st * n /\ per \in Nat \ {0}
  /\ upper = axisLen - (n - 1) * st /\ e = enumerate_valid_offsets(s, axisLen)
  /\ Windows(e, upper, per, st)

\* It is made of that.
LEMMA OneAxisIs ==
  ASSUME NEW s, NEW axisLen \in Nat, NEW p, NEW st, NEW n, Ladder(p, s, st, n)
  PROVE  \E per, upper, e : OneAxis(s, axisLen, p, st, n, per, upper, e)
<1>1. /\ st \in Nat \ {0} /\ n \in Nat \ {0} /\ axis_constraint(s) = <<st * n, st>>
      /\ to_list(s) = p /\ p \in Seq(Int) /\ Len(p) = n
      /\ \A a \in 0..n - 1 : p[a + 1] = a * st
  BY DEF Ladder
<1>2. PICK per \in Nat \ {0} : per = st * n /\ st <= per
  <2>1. PICK k \in Nat : n = k + 1 /\ k = n - 1
    BY <1>1
  <2>2. st * n = st * k + st /\ st * k \in Nat
    BY <1>1, <2>1
  <2>3. QED
    BY <1>1, <2>2
<1>3. Last(p) = (n - 1) * st
  <2>1. PICK k \in 0..n - 1 : k = n - 1 /\ k + 1 = n
    BY <1>1
  <2>2. QED
    BY <1>1, <2>1 DEF Last
<1>4. PICK upper \in Int : upper = OffsetLimit(s, axisLen) /\ upper = axisLen - (n - 1) * st
  <2>1. (n - 1) * st \in Int
    BY <1>1
  <2>2. QED
    BY <1>1, <1>3, <2>1 DEF OffsetLimit
<1>5. Windows(enumerate_valid_offsets(s, axisLen), upper, per, st)
  BY <1>1, <1>2, <1>4, EnumerateIs
<1>6. QED
  BY <1>2, <1>4, <1>5 DEF OneAxis

\* Where the offsets are, and what they touch.
Owners(s, axisLen, st, n, per, upper, e) ==
  /\ st \in Nat \ {0} /\ n \in Nat \ {0} /\ per = st * n /\ per \in Nat \ {0}
  /\ axisLen \in Nat /\ upper \in Int /\ upper = axisLen - (n - 1) * st
  /\ e = enumerate_valid_offsets(s, axisLen)
  /\ \A o \in ToSet(e) : \E q \in Nat, r \in 0..st - 1 : o = q * per + r /\ o < upper
  /\ \A q \in Nat : \A r \in 0..st - 1 : q * per + r < upper => q * per + r \in ToSet(e)
  /\ \A o \in Int : \A x : x \in ToSet(indices_with_offset(s, o))
                             <=> \E a \in 0..n - 1 : x = a * st + o

\* They are there.
LEMMA OneAxisHas ==
  ASSUME NEW s, NEW axisLen, NEW p, NEW st, NEW n, NEW per, NEW upper, NEW e,
         OneAxis(s, axisLen, p, st, n, per, upper, e)
  PROVE  Owners(s, axisLen, st, n, per, upper, e)
<1>1. /\ Ladder(p, s, st, n) /\ axisLen \in Nat /\ per = st * n /\ per \in Nat \ {0}
      /\ upper = axisLen - (n - 1) * st /\ e = enumerate_valid_offsets(s, axisLen)
      /\ Windows(e, upper, per, st)
  BY DEF OneAxis
<1>2. /\ st \in Nat \ {0} /\ n \in Nat \ {0} /\ to_list(s) = p /\ p \in Seq(Int) /\ Len(p) = n
      /\ \A a \in 0..n - 1 : p[a + 1] = a * st
  BY <1>1 DEF Ladder
<1>3. /\ e \in Seq(Nat)
      /\ \A x \in 1..Len(e) : e[x] = ((x - 1) \div st) * per + ((x - 1) % st) /\ e[x] < upper
      /\ \A q \in Nat : \A r \in 0..st - 1 : q * per + r < upper => q * per + r \in ToSet(e)
  BY <1>1 DEF Windows
<1>4. ASSUME NEW o \in ToSet(e)
      PROVE  \E q \in Nat, r \in 0..st - 1 : o = q * per + r /\ o < upper
  <2>1. PICK x \in 1..Len(e) : o = e[x]
    BY <1>3 DEF ToSet
  <2>2. PICK y \in Nat : y = x - 1
    OBVIOUS
  <2>3. PICK q \in Nat, r \in 0..st - 1 : q = y \div st /\ r = y % st
    BY <1>2, <2>2, Division
  <2>4. QED
    BY <1>3, <2>1, <2>2, <2>3
<1>5. ASSUME NEW o \in Int, NEW x
      PROVE  x \in ToSet(indices_with_offset(s, o)) <=> \E a \in 0..n - 1 : x = a * st + o
  <2>1. x \in ToSet(indices_with_offset(s, o)) <=> \E i \in 1..n : x = p[i] + o
    BY <1>2, TouchedIs
  <2>2. ASSUME NEW a \in 0..n - 1 PROVE a + 1 \in 1..n /\ p[a + 1] = a * st
    BY <1>2
  <2>3. ASSUME NEW i \in 1..n PROVE i - 1 \in 0..n - 1 /\ p[i] = (i - 1) * st
    <3>1. PICK a \in 0..n - 1 : a = i - 1 /\ a + 1 = i
      BY <1>2
    <3>2. QED
      BY <2>2, <3>1
  <2>4. QED
    BY <2>1, <2>2, <2>3
<1>6. upper \in Int
  BY <1>1, <1>2
<1>7. QED
  BY <1>1, <1>2, <1>3, <1>4, <1>5, <1>6 DEF Owners

\* No index belongs to two candidates.
LEMMA NoneShared ==
  ASSUME NEW s, NEW axisLen, NEW st, NEW n, NEW per, NEW upper, NEW e,
         Owners(s, axisLen, st, n, per, upper, e),
         NEW o1 \in ToSet(e), NEW o2 \in ToSet(e), NEW x,
         x \in ToSet(indices_with_offset(s, o1)), x \in ToSet(indices_with_offset(s, o2))
  PROVE  o1 = o2
<1>1. /\ st \in Nat \ {0} /\ n \in Nat \ {0} /\ per = st * n /\ per \in Nat \ {0}
      /\ \A o \in ToSet(e) : \E q \in Nat, r \in 0..st - 1 : o = q * per + r /\ o < upper
      /\ \A o \in Int : \A y : y \in ToSet(indices_with_offset(s, o))
                                 <=> \E a \in 0..n - 1 : y = a * st + o
  BY DEF Owners
<1>2. ASSUME NEW o \in ToSet(e), x \in ToSet(indices_with_offset(s, o))
      PROVE  o = ((x \div st) \div n) * per + (x % st)
  <2>1. PICK q \in Nat, r \in 0..st - 1 : o = q * per + r
    BY <1>1
  <2>2. o \in Int
    BY <1>1, <2>1
  <2>3. PICK a \in 0..n - 1 : x = a * st + o
    BY <1>1, <1>2, <2>2
  <2>4. (x \div st) \div n = q /\ x % st = r
    <3>1. Touching(st, n, per, q, r, a, x)
      BY <1>1, <2>1, <2>3 DEF Touching
    <3>2. QED
      BY <3>1, OwnerOf
  <2>5. QED
    BY <2>1, <2>4
<1>3. QED
  BY <1>2

\* On whole periods every index belongs to one.
LEMMA AllTouched ==
  ASSUME NEW s, NEW axisLen, NEW st, NEW n, NEW per, NEW upper, NEW e,
         Owners(s, axisLen, st, n, per, upper, e), NEW K \in Nat, axisLen = per * K,
         NEW x \in 0..axisLen - 1
  PROVE  \E o \in ToSet(e) : x \in ToSet(indices_with_offset(s, o))
<1>1. /\ st \in Nat \ {0} /\ n \in Nat \ {0} /\ per = st * n /\ per \in Nat \ {0}
      /\ axisLen \in Nat /\ upper \in Int /\ upper = axisLen - (n - 1) * st
  BY DEF Owners
<1>2. PICK h \in Nat, r \in 0..st - 1 : x = st * h + r
  <2>1. x \in Nat /\ st \in Nat \ {0}
    BY <1>1
  <2>2. QED
    BY <2>1, Divided
<1>3. PICK q \in Nat, a \in 0..n - 1 : h = n * q + a
  <2>1. n \in Nat \ {0}
    BY <1>1
  <2>2. QED
    BY <2>1, Divided
<1>4. PICK b \in Nat : b = per * q /\ b = q * per
  BY <1>1
<1>5. x = a * st + (b + r)
  <2>1. st * h = st * (n * q) + st * a
    BY <1>1, <1>3
  <2>2. st * (n * q) = b /\ st * a = a * st
    <3>1. st * (n * q) = (st * n) * q
      BY <1>1
    <3>2. QED
      BY <1>1, <1>4, <3>1
  <2>3. a * st \in Nat
    BY <1>1
  <2>4. QED
    BY <1>1, <1>2, <2>1, <2>2, <2>3
<1>6. q < K
  <2>1. K <= q => per * K <= b
    <3>1. K < q => per * K + per <= per * q
      <4>1. K \in Int /\ q \in Int
        OBVIOUS
      <4>2. QED
        BY <1>1, <4>1, Products
    <3>2. K = q => per * K = b
      BY <1>4
    <3>3. PICK m \in Nat : m = per * K
      BY <1>1
    <3>4. QED
      BY <1>1, <1>4, <3>1, <3>2, <3>3
  <2>2. b <= x /\ x < axisLen
    <3>1. a * st \in Nat
      BY <1>1
    <3>2. QED
      BY <1>1, <1>5, <3>1
  <2>3. QED
    BY <1>1, <2>1, <2>2
<1>7. b + r < upper
  <2>1. per * K <= axisLen
    BY <1>1
  <2>2. q * per + r < axisLen - (n - 1) * st
    BY <1>1, <1>6, <2>1, WholeInside
  <2>3. QED
    BY <1>1, <1>4, <2>2
<1>8. PICK o \in Int : o = b + r
  BY <1>1
<1>9. o \in ToSet(e)
  BY <1>4, <1>7, <1>8 DEF Owners
<1>10. x \in ToSet(indices_with_offset(s, o))
  BY <1>5, <1>8 DEF Owners
<1>11. QED
  BY <1>9, <1>10

\* The numbering of the coopmat search.
LEMMA CoopmatIs ==
  ASSUME NEW s, NEW axisLen, NEW p, NEW st, NEW n, NEW per, NEW upper, NEW e,
         OneAxis(s, axisLen, p, st, n, per, upper, e)
  PROVE  coopmat_offsets(s, axisLen)
           = [i \in 1..(axisLen \div per) * st |-> ((i - 1) \div st) * per + ((i - 1) % st)]
<1>1. axis_constraint(s) = <<per, st>>
  BY DEF OneAxis, Ladder
<1>2. axis_constraint(s)[1] = per /\ axis_constraint(s)[2] = st
  BY <1>1
<1>3. QED
  BY <1>2 DEF coopmat_offsets

\* Its candidates are valid ones.
LEMMA CoopmatInside ==
  ASSUME NEW s, NEW axisLen, NEW p, NEW st, NEW n, NEW per, NEW upper, NEW e,
         OneAxis(s, axisLen, p, st, n, per, upper, e),
         Owners(s, axisLen, st, n, per, upper, e)
  PROVE  ToSet(coopmat_offsets(s, axisLen)) \subseteq ToSet(e)
<1>1. /\ st \in Nat \ {0} /\ n \in Nat \ {0} /\ per = st * n /\ per \in Nat \ {0}
      /\ axisLen \in Nat /\ upper = axisLen - (n - 1) * st
  BY DEF Owners
<1>2. PICK K \in Nat, rest \in 0..per - 1 : K = axisLen \div per /\ axisLen = per * K + rest
  <2>1. axisLen \in Nat /\ per \in Nat \ {0}
    BY <1>1
  <2>2. QED
    BY <2>1, Divided
<1>3. PICK m \in Nat : m = per * K
  BY <1>1
<1>4. per * K <= axisLen
  BY <1>1, <1>2, <1>3
<1>5. ASSUME NEW i \in 1..K * st PROVE ((i - 1) \div st) * per + ((i - 1) % st) \in ToSet(e)
  <2>1. PICK y \in Nat : y = i - 1 /\ i = y + 1
    BY <1>1
  <2>2. PICK q \in Nat, r \in 0..st - 1 : q = y \div st /\ r = y % st /\ y = st * q + r
    <3>1. st \in Nat \ {0}
      BY <1>1
    <3>2. QED
      BY <3>1, Divided
  <2>3. PICK l \in Nat : l = K * st /\ l = st * K
    BY <1>1
  <2>4. y < l
    BY <2>1, <2>3
  <2>5. q < K
    <3>1. K < q => st * K + st <= st * q
      <4>1. K \in Int /\ q \in Int
        OBVIOUS
      <4>2. QED
        BY <1>1, <4>1, Products
    <3>2. PICK c \in Nat : c = st * q
      BY <1>1
    <3>3. c < l
      BY <1>1, <2>2, <2>4, <3>2
    <3>4. K = q => l = c
      BY <2>3, <3>2
    <3>5. QED
      BY <1>1, <2>3, <3>1, <3>2, <3>3, <3>4
  <2>6. q * per + r < axisLen - (n - 1) * st
    BY <1>1, <1>4, <2>5, WholeInside
  <2>7. q * per + r \in ToSet(e)
    BY <1>1, <2>6 DEF Owners
  <2>8. QED
    BY <2>1, <2>2, <2>7
<1>6. coopmat_offsets(s, axisLen) = [i \in 1..K * st |-> ((i - 1) \div st) * per + ((i - 1) % st)]
  <2>1. coopmat_offsets(s, axisLen)
          = [i \in 1..(axisLen \div per) * st |-> ((i - 1) \div st) * per + ((i - 1) % st)]
    BY CoopmatIs
  <2>2. axisLen \div per = K
    BY <1>2
  <2>3. QED
    BY <2>1, <2>2
<1>7. QED
  BY <1>5, <1>6 DEF ToSet

\* On whole periods it is the same list.
LEMMA CoopmatSame ==
  ASSUME NEW s, NEW axisLen, NEW p, NEW st, NEW n, NEW per, NEW upper, NEW e,
         OneAxis(s, axisLen, p, st, n, per, upper, e),
         Owners(s, axisLen, st, n, per, upper, e),
         NEW K \in Nat \ {0}, axisLen = per * K
  PROVE  coopmat_offsets(s, axisLen) = e
<1>1. /\ st \in Nat \ {0} /\ n \in Nat \ {0} /\ per = st * n /\ per \in Nat \ {0}
      /\ axisLen \in Nat /\ upper \in Int /\ upper = axisLen - (n - 1) * st
  BY DEF Owners
<1>2. axisLen \div per = K
  <2>1. axisLen = per * K + 0 /\ 0 \in 0..per - 1
    BY <1>1
  <2>2. K \in Int
    OBVIOUS
  <2>3. QED
    BY <1>1, <2>1, <2>2, Quotient
<1>3. PICK k \in Nat : k = K - 1 /\ K = k + 1
  OBVIOUS
<1>4. PICK b \in Nat : b = per * k /\ b = k * per
  BY <1>1
<1>5. upper = b + st
  <2>1. per * K = b + per
    BY <1>1, <1>3, <1>4
  <2>2. (n - 1) * st = per - st
    BY <1>1
  <2>3. QED
    BY <1>1, <2>1, <2>2
<1>6. (upper - 1) \div per = k
  <2>1. st <= per
    <3>1. PICK j \in Nat : n = j + 1 /\ j = n - 1
      BY <1>1
    <3>2. st * n = st * j + st /\ st * j \in Nat
      BY <1>1, <3>1
    <3>3. QED
      BY <1>1, <3>2
  <2>2. PICK v \in Nat, r \in 0..per - 1 : v = upper - 1 /\ r = st - 1 /\ v = b + r
    BY <1>1, <1>5, <2>1
  <2>3. v = per * k + r /\ k \in Int
    BY <1>4, <2>2
  <2>4. v \div per = k
    BY <1>1, <2>3, Quotient
  <2>5. QED
    BY <2>2, <2>4
<1>7. Windows(e, upper, per, st)
  BY DEF OneAxis
<1>8. PICK l \in Nat : l = K * st
  BY <1>1
<1>9. Len(e) = l
  <2>1. upper > 0
    BY <1>1, <1>5
  <2>2. Len(e) = k * st + Least(st, upper - k * per)
    BY <1>6, <1>7, <2>1 DEF Windows
  <2>3. upper - k * per = st
    BY <1>1, <1>4, <1>5
  <2>4. Least(st, st) = st
    BY <1>1 DEF Least
  <2>5. k * st + st = K * st
    BY <1>1, <1>3
  <2>6. QED
    BY <1>8, <2>2, <2>3, <2>4, <2>5
<1>10. /\ e \in Seq(Nat)
       /\ \A x \in 1..Len(e) : e[x] = ((x - 1) \div st) * per + ((x - 1) % st)
  BY <1>7 DEF Windows
<1>11. e = [i \in 1..l |-> ((i - 1) \div st) * per + ((i - 1) % st)]
  <2>1. e = [i \in 1..Len(e) |-> e[i]]
    BY <1>10
  <2>2. QED
    BY <1>9, <1>10, <2>1
<1>12. coopmat_offsets(s, axisLen) = [i \in 1..l |-> ((i - 1) \div st) * per + ((i - 1) % st)]
  BY <1>2, <1>8, CoopmatIs
<1>13. QED
  BY <1>11, <1>12

\* The grid of one axis.
LEMMA AxisIsExact ==
  ASSUME NEW p, NEW s, NEW dims, Shaped(p, s, dims), NEW axisLen \in Nat \ {0}
  PROVE  AxisExact(s, axisLen)
<1>1. PICK e : e = enumerate_valid_offsets(s, axisLen)
  OBVIOUS
<1>2. \A o \in ToSet(e) : ToSet(indices_with_offset(s, o)) \subseteq 0..axisLen - 1
  BY <1>1, InsideAxis
<1>3. ASSUME Cardinality(RealDims(s)) = 1
      PROVE  /\ \A o1, o2 \in ToSet(e) : o1 # o2 =>
                   ToSet(indices_with_offset(s, o1)) \cap ToSet(indices_with_offset(s, o2)) = {}
             /\ ToSet(coopmat_offsets(s, axisLen)) \subseteq ToSet(e)
             /\ axisLen % period(s) = 0 =>
                  /\ UNION {ToSet(indices_with_offset(s, o)) : o \in ToSet(e)} = 0..axisLen - 1
                  /\ coopmat_offsets(s, axisLen) = e
  <2>1. PICK st, n : Ladder(p, s, st, n)
    BY <1>3, OneDimension
  <2>2. PICK per, upper : OneAxis(s, axisLen, p, st, n, per, upper, e)
    <3>1. PICK per, upper, f : OneAxis(s, axisLen, p, st, n, per, upper, f)
      BY <2>1, OneAxisIs
    <3>2. f = e
      BY <1>1, <3>1 DEF OneAxis
    <3>3. QED
      BY <3>1, <3>2
  <2>3. Owners(s, axisLen, st, n, per, upper, e)
    BY <2>2, OneAxisHas
  <2>4. \A o1, o2 \in ToSet(e) : o1 # o2 =>
          ToSet(indices_with_offset(s, o1)) \cap ToSet(indices_with_offset(s, o2)) = {}
    BY <2>3, NoneShared
  <2>5. ToSet(coopmat_offsets(s, axisLen)) \subseteq ToSet(e)
    BY <2>2, <2>3, CoopmatInside
  <2>6. ASSUME axisLen % period(s) = 0
        PROVE  /\ UNION {ToSet(indices_with_offset(s, o)) : o \in ToSet(e)} = 0..axisLen - 1
               /\ coopmat_offsets(s, axisLen) = e
    <3>1. per \in Nat \ {0} /\ per = period(s)
      BY <2>1, <2>2 DEF OneAxis, Ladder
    <3>2. PICK K \in Nat \ {0} : axisLen = per * K
      <4>1. axisLen \in Nat
        OBVIOUS
      <4>2. axisLen % per = 0
        BY <2>6, <3>1
      <4>3. PICK K \in Nat : axisLen = per * K
        <5>1. PICK q \in Nat, r \in 0..per - 1 : r = axisLen % per /\ axisLen = per * q + r
          BY <3>1, <4>1, Divided
        <5>2. axisLen = per * q
          BY <3>1, <4>2, <5>1
        <5>3. QED
          BY <5>2
      <4>4. K # 0
        BY <3>1, <4>3
      <4>5. QED
        BY <4>3, <4>4
    <3>3. coopmat_offsets(s, axisLen) = e
      BY <2>2, <2>3, <3>2, CoopmatSame
    <3>4. \A x \in 0..axisLen - 1 : \E o \in ToSet(e) : x \in ToSet(indices_with_offset(s, o))
      <4>1. K \in Nat
        OBVIOUS
      <4>2. QED
        BY <2>3, <3>2, <4>1, AllTouched
    <3>5. QED
      BY <1>2, <3>3, <3>4
  <2>7. QED
    BY <2>4, <2>5, <2>6
<1>4. QED
  BY <1>1, <1>2, <1>3 DEF AxisExact

-----------------------------------------------------------------------------
(***************************************************************************)
(* The searches of a job: the grid of both axes, the digests put to every  *)
(* evaluator, and the candidate each gives.                                *)
(***************************************************************************)

\* The offsets of an axis are numbers.
LEMMA OffsetsAre ==
  ASSUME NEW p, NEW s, NEW dims, Shaped(p, s, dims), NEW axisLen \in Nat
  PROVE  enumerate_valid_offsets(s, axisLen) \in Seq(Nat)
<1>1. Rising(p) /\ to_list(s) = p
  BY DEF Shaped
<1>2. Len(p) \in Nat \ {0} /\ \A i \in 1..Len(p) : p[i] \in Nat
  BY <1>1, RisingIs
<1>3. PICK l \in Nat : l = Last(p)
  BY <1>2 DEF Last
<1>4. PICK upper \in Int : upper = OffsetLimit(s, axisLen)
  BY <1>1, <1>3 DEF OffsetLimit
<1>5. PICK win \in Nat \ {0}, n \in Nat \ {0} : axis_constraint(s) = <<win * n, win>>
  BY ConstraintIs
<1>6. PICK per \in Nat \ {0} : per = win * n /\ win <= per
  <2>1. PICK k \in Nat : n = k + 1 /\ k = n - 1
    OBVIOUS
  <2>2. win * n = win * k + win /\ win * k \in Nat
    BY <2>1
  <2>3. QED
    BY <2>2
<1>7. Windows(enumerate_valid_offsets(s, axisLen), upper, per, win)
  BY <1>4, <1>5, <1>6, EnumerateIs
<1>8. QED
  BY <1>7 DEF Windows

\* On whole periods the coopmat numbering is the grid's, in whole windows.
WholeAxis(s, axisLen) ==
  \E win \in Nat \ {0}, bands \in Nat :
    /\ axis_constraint(s)[2] = win
    /\ coopmat_offsets(s, axisLen) = enumerate_valid_offsets(s, axisLen)
    /\ Len(coopmat_offsets(s, axisLen)) = win * bands

\* A pattern of one dimension has such an axis.
LEMMA WholeWindows ==
  ASSUME NEW p, NEW s, NEW dims, Shaped(p, s, dims), NEW axisLen \in Nat \ {0},
         Cardinality(RealDims(s)) = 1, axisLen % period(s) = 0
  PROVE  WholeAxis(s, axisLen)
<1>1. PICK st, n : Ladder(p, s, st, n)
  BY OneDimension
<1>2. PICK per, upper, e : OneAxis(s, axisLen, p, st, n, per, upper, e)
  BY <1>1, OneAxisIs
<1>3. /\ per \in Nat \ {0} /\ st \in Nat \ {0} /\ axis_constraint(s) = <<per, st>>
  BY <1>1, <1>2 DEF OneAxis, Ladder
<1>4. coopmat_offsets(s, axisLen)
        = [i \in 1..(axisLen \div per) * st |-> ((i - 1) \div st) * per + ((i - 1) % st)]
  BY <1>2, CoopmatIs
<1>5. PICK bands \in Nat : bands = axisLen \div per
  <2>1. axisLen \in Nat
    OBVIOUS
  <2>2. QED
    BY <1>3, <2>1, Divided
<1>6. PICK l \in Nat : l = bands * st /\ l = st * bands
  BY <1>3
<1>7. PICK c : c = coopmat_offsets(s, axisLen)
  OBVIOUS
<1>8. c = [i \in 1..l |-> ((i - 1) \div st) * per + ((i - 1) % st)]
  BY <1>4, <1>5, <1>6, <1>7
<1>9. c \in [1..l -> Int]
  <2>1. ASSUME NEW i \in 1..l PROVE ((i - 1) \div st) * per + ((i - 1) % st) \in Int
    <3>1. PICK y \in Nat : y = i - 1
      OBVIOUS
    <3>2. PICK q \in Nat, r \in 0..st - 1 : q = y \div st /\ r = y % st
      <4>1. st \in Nat \ {0}
        BY <1>3
      <4>2. QED
        BY <4>1, Divided
    <3>3. q * per + r \in Int
      BY <1>3
    <3>4. QED
      BY <3>1, <3>2, <3>3
  <2>2. QED
    BY <1>8, <2>1
<1>10. Len(c) = l
  BY <1>9, FunctionIsSeq
<1>11. c = enumerate_valid_offsets(s, axisLen)
  BY <1>7, AxisIsExact DEF AxisExact
<1>12. axis_constraint(s)[2] = st
  BY <1>3
<1>13. QED
  BY <1>3, <1>6, <1>7, <1>10, <1>11, <1>12 DEF WholeAxis

\* The candidates: a row offset and a column offset each.
PairList(rows, cols) ==
  FlattenSeq([i \in 1..Len(rows) |-> [j \in 1..Len(cols) |-> <<rows[i], cols[j]>>]])

IsGrid(rows, cols, g) ==
  /\ g \in Seq(Nat \X Nat) /\ Len(g) \in Nat \ {0}
  /\ \A x \in 1..Len(g) : \E i \in 1..Len(rows), j \in 1..Len(cols) :
       g[x] = <<rows[i], cols[j]>>

LEMMA GridPairs ==
  ASSUME NEW rows \in Seq(Nat), NEW cols \in Seq(Nat), NEW g, g = PairList(rows, cols),
         g # <<>>
  PROVE  IsGrid(rows, cols, g)
<1>1. PICK n \in Nat, L \in Nat : n = Len(rows) /\ L = Len(cols)
  OBVIOUS
<1>2. PICK seqs, S : /\ seqs = [i \in 1..n |-> [j \in 1..L |-> <<rows[i], cols[j]>>]]
                     /\ S = Nat \X Nat
  OBVIOUS
<1>3. g = FlattenSeq(seqs)
  BY <1>1, <1>2 DEF PairList
<1>4. ASSUME NEW i \in 1..n PROVE seqs[i] \in Seq(S) /\ Len(seqs[i]) = L
  <2>1. PICK s : s = seqs[i] /\ s = [j \in 1..L |-> <<rows[i], cols[j]>>]
    BY <1>2
  <2>2. s \in [1..L -> S]
    BY <1>1, <1>2, <2>1
  <2>3. s \in Seq(S) /\ Len(s) = L
    BY <2>2, FunctionIsSeq
  <2>4. QED
    BY <2>1, <2>3
<1>5. n # 0
  <2>1. ASSUME n = 0 PROVE FALSE
    <3>1. 1..n = {} /\ 1..0 = {}
      BY <2>1
    <3>2. seqs \in [1..0 -> {}]
      BY <1>2, <3>1
    <3>3. seqs \in Seq({}) /\ Len(seqs) = 0
      BY <3>2, FunctionIsSeq
    <3>4. seqs = <<>>
      BY <3>3
    <3>5. FlattenSeq(seqs) = <<>>
      BY <3>4 DEF FlattenSeq
    <3>6. QED
      BY <1>3, <3>5
  <2>2. QED
    BY <2>1
<1>6. RowsOf(S, n, L, seqs)
  <2>1. seqs \in [1..n -> Seq(S)]
    BY <1>2, <1>4
  <2>2. \A i \in 1..n - 1 : Len(seqs[i]) = L
    BY <1>4
  <2>3. QED
    BY <1>5, <2>1, <2>2 DEF RowsOf
<1>7. Filled(S, n, L, seqs, g)
  BY <1>3, <1>6, FlattenRows
<1>8. g \in Seq(S) /\ Len(g) = (n - 1) * L + Len(seqs[n])
  BY <1>7 DEF Filled
<1>9. Len(g) \in Nat \ {0}
  BY <1>8, EmptySeq
<1>10. Len(seqs[n]) = L
  <2>1. n \in 1..n
    BY <1>5
  <2>2. QED
    BY <1>4, <2>1
<1>11. L # 0
  <2>1. L = 0 => Len(g) = 0
    <3>1. (n - 1) * 0 = 0
      OBVIOUS
    <3>2. QED
      BY <1>8, <1>10, <3>1
  <2>2. QED
    BY <1>9, <2>1
<1>12. Flat(S, n, L, seqs, g)
  BY <1>6, <1>7, <1>10, <1>11 DEF Flat
<1>13. ASSUME NEW x \in 1..Len(g)
       PROVE  \E i \in 1..n, j \in 1..L : g[x] = <<rows[i], cols[j]>>
  <2>1. PICK q, r : q = (x - 1) \div L /\ r = (x - 1) % L
    OBVIOUS
  <2>2. InRow(n, seqs, q, r, g[x])
    BY <1>12, <2>1, FlatDiv
  <2>3. q \in 0..n - 1 /\ r + 1 \in 1..Len(seqs[q + 1]) /\ g[x] = seqs[q + 1][r + 1]
    BY <2>2 DEF InRow
  <2>4. PICK i : i = q + 1 /\ i \in 1..n
    BY <2>3
  <2>5. PICK j : j = r + 1 /\ j \in 1..L
    BY <1>4, <2>3, <2>4
  <2>6. g[x] = <<rows[i], cols[j]>>
    BY <1>2, <2>3, <2>4, <2>5
  <2>7. QED
    BY <2>4, <2>5, <2>6
<1>14. QED
  BY <1>1, <1>2, <1>8, <1>9, <1>13 DEF IsGrid

\* The work of one candidate is a number.
LEMMA DafIs ==
  ASSUME NEW p, NEW s, NEW d, Shaped(p, s, d), NEW q, NEW t, NEW e, Shaped(q, t, e),
         NEW k \in Nat
  PROVE  difficulty_adjustment_factor(size(s), size(t), k) \in Nat
<1>1. PICK a \in Nat, b \in Nat : a = size(s) /\ b = size(t)
  BY RisingIs DEF Shaped
<1>2. PICK c \in Nat : c = (k \div Quantum) * Quantum
  <2>1. Quantum \in Nat \ {0}
    BY TargetAssumption
  <2>2. k \div Quantum \in Nat
    BY <2>1, Division
  <2>3. QED
    BY <2>1, <2>2
<1>3. a * b \in Nat /\ (a * b) * c \in Nat
  OBVIOUS
<1>4. QED
  BY <1>1, <1>2, <1>3 DEF difficulty_adjustment_factor, dot_product_length

\* The coopmat sweep returns only what is below the target.
LEMMA CoopmatBelow ==
  ASSUME NEW rows, NEW cols, NEW win, NEW below, NEW cap, NEW chunk
  PROVE  JackpotCoopmatSearch(rows, cols, win, below, cap, chunk).hits \subseteq below
  BY DEF JackpotCoopmatSearch

\* The digests of the candidates: what one comparison finds below the target
\* the other finds too, and the winners are below it.
DigestsDecide(grid, target, won) ==
  LET hash(j) == hash_jackpot(j, target, won)
      below == {grid[j] : j \in {j \in 1..Len(grid) : Below(hash(j), target)}}
  IN /\ {grid[j] : j \in {j \in 1..Len(grid) : BelowByWords(hash(j), target)}} = below
     /\ \A i \in won \cap 1..Len(grid) : grid[i] \in below

LEMMA DigestsAre ==
  ASSUME NEW grid, NEW d \in Nat \ {1}, NEW e \in Nat \cup {NoTarget}, NEW daf \in Nat,
         NEW target, target = share_target(d, e, daf), target > 0, NEW won
  PROVE  DigestsDecide(grid, target, won)
<1>1. target \in 1..TargetMax /\ TargetMax \in Nat
  <2>1. target \in 0..TargetMax
    BY TargetFits
  <2>2. TargetMax \in Nat
    <3>1. DigitMod * DigitMod * DigitMod * DigitMod \in Nat \ {0}
      BY TargetAssumption
    <3>2. QED
      BY <3>1 DEF TargetMax
  <2>3. QED
    BY <2>1, <2>2
<1> DEFINE hash(j) == hash_jackpot(j, target, won)
<1>2. \A j : hash(j) = target - IF j \in won THEN 1 ELSE 0
  BY <1>1 DEF hash_jackpot, Least
<1>3. \A j : hash(j) \in 0..TargetMax
  BY <1>1, <1>2
<1>4. \A j : BelowByWords(hash(j), target) <=> Below(hash(j), target)
  BY <1>3, WordsDecide
<1>5. \A j \in won : Below(hash(j), target)
  BY <1>1, <1>2 DEF Below
<1>6. {j \in 1..Len(grid) : BelowByWords(hash(j), target)}
        = {j \in 1..Len(grid) : Below(hash(j), target)}
  BY <1>4
<1>7. \A i \in won \cap 1..Len(grid) :
        grid[i] \in {grid[j] : j \in {j \in 1..Len(grid) : Below(hash(j), target)}}
  BY <1>5
<1>8. QED
  BY <1>6, <1>7 DEF DigestsDecide

\* What SearchersAgree says of the answers to one question, whose candidate is
\* one of the grid.
FoundRight(f) ==
  /\ f.cpu.hit \in ToSet(Grid) \cup {<<>>}
  /\ f.gpu.hit = f.cpu.hit /\ f.vk = f.cpu
  /\ f.gpu.attempts >= f.cpu.attempts
  /\ f.cap # 0 => f.gpu.attempts <= f.cap
  /\ f.coopmat.hits \subseteq f.below
  /\ /\ f.cap = 0 /\ Cardinality(RealDims(mc.rows_pattern)) = 1 /\ Cardinality(RealDims(mc.cols_pattern)) = 1
     /\ shape.m % period(mc.rows_pattern) = 0 /\ shape.n % period(mc.cols_pattern) = 0
     => f.coopmat.hits # {}

\* The loop's candidate is one of the grid.
LEMMA CpuInGrid ==
  ASSUME NEW Cand, NEW grid \in Seq(Cand), NEW below, NEW cap \in Nat
  PROVE  search_candidate(grid, below, cap).hit \in ToSet(grid) \cup {<<>>}
<1> DEFINE n == Capped(cap, Len(grid))
           W == Winning(grid, below, n)
<1>1. n \in 0..Len(grid)
  <2>1. Len(grid) \in Nat
    OBVIOUS
  <2>2. QED
    BY <2>1, CappedIs
<1>2. CASE W = {}
  <2>1. search_candidate(grid, below, cap) = Nothing(n)
    BY <1>2, CpuSearch
  <2>2. QED
    BY <2>1 DEF Nothing
<1>3. CASE W # {}
  <2>1. search_candidate(grid, below, cap) = [hit |-> grid[First(W)], attempts |-> First(W)]
    BY <1>3, CpuSearch
  <2>2. W \subseteq 1..Len(grid) /\ W \subseteq Nat /\ W # {}
    BY <1>1, <1>3 DEF Winning
  <2>3. First(W) \in 1..Len(grid)
    <3>1. First(W) \in W
      <4> HIDE DEF W
      <4>1. QED
        BY <2>2, FirstIsLeast
    <3>2. QED
      BY <2>2, <3>1
  <2>4. QED
    BY <2>1, <2>3 DEF ToSet
<1>4. QED
  BY <1>2, <1>3

\* On whole periods of both axes the coopmat sweep returns some candidate below
\* the target when the grid has one.
LEMMA SweepFinds ==
  ASSUME NEW s, NEW m, WholeAxis(s, m), NEW t, NEW n, WholeAxis(t, n),
         NEW rows \in Seq(Nat), rows = enumerate_valid_offsets(s, m),
         NEW cols \in Seq(Nat), cols = enumerate_valid_offsets(t, n),
         NEW i \in 1..Len(rows), NEW j \in 1..Len(cols), NEW below,
         <<rows[i], cols[j]>> \in below, NEW b \in Nat \ {0}
  PROVE  JackpotCoopmatSearch(coopmat_offsets(s, m), coopmat_offsets(t, n),
                              axis_constraint(s)[2], below, Unlimited, b).hits # {}
<1>1. PICK win \in Nat \ {0}, bands \in Nat :
        /\ axis_constraint(s)[2] = win /\ coopmat_offsets(s, m) = rows
        /\ Len(rows) = win * bands
  BY DEF WholeAxis
<1>2. coopmat_offsets(t, n) = cols
  BY DEF WholeAxis
<1>3. <<rows[i], cols[j]>> \in OffsetPairs(rows, cols) \cap below
  BY DEF OffsetPairs
<1> DEFINE hits == JackpotCoopmatSearch(rows, cols, win, below, Unlimited, b).hits
<1>4. hits = {} <=> OffsetPairs(rows, cols) \cap below = {}
  <2>1. Banded(rows, cols, win)
    BY <1>1 DEF Banded
  <2>2. SweepRight(rows, cols, win, below, b)
    BY <2>1, CoopmatFindsAny
  <2>3. QED
    BY <2>2 DEF SweepRight
<1>5. hits # {}
  BY <1>3, <1>4
<1>6. QED
  BY <1>1, <1>2, <1>5

-----------------------------------------------------------------------------
(***************************************************************************)
(* The inductive invariant of the assembly (ShareInvariant).               *)
(***************************************************************************)

\* The patterns list what was announced, by dimensions that are not trivial.
LEMMA PatternsAre ==
  ASSUME ConfigInv, phase \in FromConfigured
  PROVE  /\ \E dims : Shaped(lists[1], mc.rows_pattern, dims)
         /\ \E dims : Shaped(lists[2], mc.cols_pattern, dims)
<1>1. PICK p \in RowLists, q \in ColLists, k \in Ks :
        /\ ~RefusesList(p) /\ ~RefusesList(q) /\ lists = <<p, q>>
        /\ mc = [common_dim |-> k, rank |-> Rank, mma_type |-> 0,
                 rows_pattern |-> from_list(p), cols_pattern |-> from_list(q)]
  BY DEF ConfigInv
<1>2. p \in Seq(Int) /\ q \in Seq(Int)
  BY AssemblyAssumption
<1>3. lists[1] = p /\ lists[2] = q /\ mc.rows_pattern = from_list(p) /\ mc.cols_pattern = from_list(q)
  BY <1>1
<1>4. QED
  BY <1>1, <1>2, <1>3, FromListIs

\* Whichever of them win, the evaluators agree about the candidates of the grid.
LEMMA AskAgrees ==
  ASSUME ConfigInv, MatricesInv, phase = "set", Grid # <<>>,
         NEW i \in 1..Len(Grid), NEW won, i \in won, NEW cap \in Caps, NEW b \in BatchSizes,
         NEW d \in Difficulties, ~NoShareTarget(d), NEW e \in NotifyTargets,
         share_target(d, e, Daf) > 0
  PROVE  FoundRight(Ask(Grid, share_target(d, e, Daf), won, cap, b))
<1> DEFINE target == share_target(d, e, Daf)
           hash(j) == hash_jackpot(j, target, won)
           byNumber == {Grid[j] : j \in {j \in 1..Len(Grid) : Below(hash(j), target)}}
           byWords == {Grid[j] : j \in {j \in 1..Len(Grid) : BelowByWords(hash(j), target)}}
<1>1. PICK s, t, dims, others :
        /\ s = mc.rows_pattern /\ t = mc.cols_pattern
        /\ Shaped(lists[1], s, dims) /\ Shaped(lists[2], t, others)
  BY PatternsAre DEF FromConfigured
<1>2. PICK m \in Nat \ {0}, n \in Nat \ {0} : shape = [m |-> m, n |-> n]
  BY AssemblyAssumption DEF MatricesInv, FromDerived
<1>3. PICK rows \in Seq(Nat), cols \in Seq(Nat) :
        rows = enumerate_valid_offsets(s, m) /\ cols = enumerate_valid_offsets(t, n)
  BY <1>1, <1>2, OffsetsAre
<1>4. Grid = PairList(rows, cols)
  BY <1>1, <1>2, <1>3 DEF Grid, PairList
<1>5. IsGrid(rows, cols, Grid)
  BY <1>4, GridPairs
<1>6. Daf \in Nat
  <2>1. mc.common_dim \in Nat
    BY AssemblyAssumption DEF ConfigInv, FromConfigured
  <2>2. QED
    BY <1>1, <2>1, DafIs DEF Daf
<1>7. DigestsDecide(Grid, target, won)
  <2>1. d \in Nat \ {1} /\ e \in Nat \cup {NoTarget}
    BY AssemblyAssumption DEF NoShareTarget
  <2>2. QED
    BY <1>6, <2>1, DigestsAre
<1>8. byWords = byNumber /\ Grid[i] \in byNumber
  BY <1>7 DEF DigestsDecide
<1>9. cap \in Nat /\ b \in Nat \ {0}
  BY AssemblyAssumption
<1> HIDE DEF byNumber, byWords
<1> DEFINE sweep == JackpotCoopmatSearch(coopmat_offsets(s, m), coopmat_offsets(t, n),
                                         axis_constraint(s)[2], byNumber, cap, b)
<1>10. Ask(Grid, target, won, cap, b) =
         [below |-> byNumber, cap |-> cap, cpu |-> search_candidate(Grid, byNumber, cap),
          gpu |-> JackpotGpuSearch(Grid, byNumber, cap, b),
          vk |-> JackpotVkSearch(Grid, byNumber, cap, b), coopmat |-> sweep]
  <2>1. Ask(Grid, target, won, cap, b) = Answers(Grid, byNumber, byWords, cap, b)
    BY DEF Ask, byNumber, byWords
  <2>2. QED
    BY <1>1, <1>2, <1>8, <2>1 DEF Answers
<1>11. JackpotVkSearch(Grid, byNumber, cap, b) = search_candidate(Grid, byNumber, cap)
  BY <1>5, <1>9, VkFindsFirst DEF IsGrid
<1> DEFINE gpu == JackpotGpuSearch(Grid, byNumber, cap, b)
           cpu == search_candidate(Grid, byNumber, cap)
<1>12. /\ gpu.hit = cpu.hit
       /\ cpu.attempts <= gpu.attempts /\ gpu.attempts < cpu.attempts + b
       /\ cap # Unlimited => gpu.attempts <= cap
  BY <1>5, <1>9, GpuFindsFirst DEF IsGrid
<1>13. cpu.hit \in ToSet(Grid) \cup {<<>>}
  BY <1>5, <1>9, CpuInGrid DEF IsGrid
<1>14. sweep.hits \subseteq byNumber
  BY CoopmatBelow
<1>15. ASSUME cap = 0, Cardinality(RealDims(s)) = 1, Cardinality(RealDims(t)) = 1,
              m % period(s) = 0, n % period(t) = 0
       PROVE  sweep.hits # {}
  <2>1. WholeAxis(s, m) /\ WholeAxis(t, n)
    BY <1>1, <1>15, WholeWindows
  <2>2. PICK y \in 1..Len(rows), z \in 1..Len(cols) : Grid[i] = <<rows[y], cols[z]>>
    BY <1>5 DEF IsGrid
  <2>3. <<rows[y], cols[z]>> \in byNumber
    BY <1>8, <2>2
  <2>4. QED
    BY <1>3, <1>9, <1>15, <2>1, <2>3, SweepFinds DEF Unlimited
<1> HIDE DEF sweep, gpu, cpu
<1>16. PICK f : f = [below |-> byNumber, cap |-> cap, cpu |-> cpu, gpu |-> gpu,
                     vk |-> cpu, coopmat |-> sweep]
  OBVIOUS
<1>17. Ask(Grid, target, won, cap, b) = f
  BY <1>10, <1>11, <1>16 DEF sweep, cpu, gpu
<1>18. /\ f.below = byNumber /\ f.cap = cap /\ f.cpu = cpu /\ f.gpu = gpu /\ f.vk = cpu
       /\ f.coopmat = sweep
  BY <1>16
<1>19. shape.m = m /\ shape.n = n
  BY <1>2
<1>20. FoundRight(f)
  <2>1. f.gpu.attempts >= f.cpu.attempts
    BY <1>12, <1>18
  <2>2. f.cap # 0 => f.gpu.attempts <= f.cap
    BY <1>12, <1>18 DEF Unlimited
  <2>3. /\ f.cap = 0 /\ Cardinality(RealDims(mc.rows_pattern)) = 1
        /\ Cardinality(RealDims(mc.cols_pattern)) = 1
        /\ shape.m % period(mc.rows_pattern) = 0 /\ shape.n % period(mc.cols_pattern) = 0
        => f.coopmat.hits # {}
    BY <1>1, <1>15, <1>18, <1>19
  <2>4. QED
    BY <1>12, <1>13, <1>14, <1>18, <2>1, <2>2, <2>3 DEF FoundRight
<1>21. QED
  BY <1>17, <1>20

\* It holds at first.
LEMMA AssemblyStarts == Init => AssemblyInv
  BY DEF Init, AssemblyInv, ConfigInv, MatricesInv, TreesInv, JobInv, FoundInv, WireInv,
         SearchersAgree, FromConfigured, FromDerived, FromHashed, FromSet

\* And at every step.
LEMMA AssemblySteps == AssemblyInv /\ [Next]_vars => AssemblyInv'
<1> SUFFICES ASSUME AssemblyInv, [Next]_vars PROVE AssemblyInv'
  OBVIOUS
<1> USE DEF FromConfigured, FromDerived, FromHashed, FromSet
<1>1. CASE Configure
  <2>1. phase' \in {"refused", "configured"}
    BY <1>1 DEF Configure
  <2>2. ConfigInv'
    BY <1>1 DEF Configure, ConfigInv
  <2>3. QED
    BY <2>1, <2>2 DEF AssemblyInv, MatricesInv, TreesInv, JobInv, FoundInv, WireInv, SearchersAgree
<1>2. CASE Derive
  <2>1. phase' = "derived" /\ UNCHANGED <<lists, mc>> /\ phase = "configured"
    BY <1>2 DEF Derive
  <2>2. ConfigInv'
    BY <2>1 DEF AssemblyInv, ConfigInv
  <2>3. MatricesInv'
    BY <1>2 DEF Derive, MatricesInv
  <2>4. QED
    BY <2>1, <2>2, <2>3 DEF AssemblyInv, TreesInv, JobInv, FoundInv, WireInv, SearchersAgree
<1>3. CASE BuildTrees
  <2>1. /\ phase = "derived" /\ phase' \in {"refused", "hashed"}
        /\ UNCHANGED <<lists, mc, shape, seed, AB, path>>
    BY <1>3 DEF BuildTrees
  <2>2. ConfigInv'
    BY <2>1 DEF AssemblyInv, ConfigInv
  <2>3. MatricesInv'
    BY <2>1 DEF AssemblyInv, MatricesInv
  <2>4. TreesInv'
    <3>1. phase' = "hashed" => /\ layers' = [i \in 1..2 |-> MatrixLayers(i)]
                               /\ TreesFrom = "buffer" => ~RefusesBuffer(shape.n * mc.common_dim)
      BY <1>3 DEF BuildTrees
    <3>2. MatrixLayers(1)' = MatrixLayers(1) /\ MatrixLayers(2)' = MatrixLayers(2)
          /\ TreesFrom' = TreesFrom
      BY <2>1 DEF MatrixLayers, TreesFrom, Bytes, JobKey
    <3>3. QED
      BY <2>1, <3>1, <3>2 DEF TreesInv
  <2>5. QED
    BY <2>1, <2>2, <2>3, <2>4 DEF AssemblyInv, JobInv, FoundInv, WireInv, SearchersAgree
<1>4. CASE SetJob
  <2>1. /\ phase = "hashed" /\ phase' = "set"
        /\ UNCHANGED <<lists, mc, shape, seed, AB, path, layers>>
    BY <1>4 DEF SetJob
  <2>2. ConfigInv' /\ MatricesInv'
    BY <2>1 DEF AssemblyInv, ConfigInv, MatricesInv
  <2>3. TreesInv'
    BY <2>1 DEF AssemblyInv, TreesInv, MatrixLayers, TreesFrom, Bytes, JobKey
  <2>4. JobInv'
    BY <1>4, <2>1 DEF SetJob, JobInv, commitment_hash
  <2>5. QED
    BY <2>1, <2>2, <2>3, <2>4 DEF AssemblyInv, FoundInv, WireInv, SearchersAgree
<1>5. CASE Search
  <2>1. /\ phase = "set" /\ phase' = "searched"
        /\ UNCHANGED <<lists, mc, shape, seed, AB, path, layers, job>>
    BY <1>5 DEF Search
  <2>2. ConfigInv' /\ MatricesInv'
    BY <2>1 DEF AssemblyInv, ConfigInv, MatricesInv
  <2>3. TreesInv' /\ JobInv'
    BY <2>1 DEF AssemblyInv, TreesInv, MatrixLayers, TreesFrom, JobInv, Bytes, JobKey,
                commitment_hash
  <2>4. Grid' = Grid /\ Daf' = Daf
    BY <2>1 DEF Grid, Daf
  <2>5. FoundInv' /\ SearchersAgree'
    <3>1. PICK i \in 1..Len(Grid), cap \in Caps, b \in BatchSizes, d \in Difficulties,
               e \in NotifyTargets, two \in BOOLEAN :
            /\ ~NoShareTarget(d) /\ share_target(d, e, Daf) > 0
            /\ found' = Ask(Grid, share_target(d, e, Daf), {i} \cup {j \in {Len(Grid)} : two}, cap, b)
      BY <1>5 DEF Search
    <3>2. PICK f : f = Ask(Grid, share_target(d, e, Daf), {i} \cup {j \in {Len(Grid)} : two}, cap, b)
                   /\ found' = f
      BY <3>1
    <3>3. FoundRight(f)
      BY <1>5, <2>1, <3>1, <3>2, AskAgrees DEF AssemblyInv, Search
    <3>4. SearchersAgree'
      BY <2>1, <3>2, <3>3 DEF FoundRight, SearchersAgree
    <3>5. FoundInv'
      BY <2>1, <2>4, <3>2, <3>3 DEF FoundRight, FoundInv
    <3>6. QED
      BY <3>4, <3>5
  <2>6. QED
    BY <2>1, <2>2, <2>3, <2>5 DEF AssemblyInv, WireInv
<1>6. CASE Prove
  <2>1. /\ phase = "searched" /\ phase' = "proved" /\ found.cpu.hit # <<>>
        /\ UNCHANGED <<lists, mc, shape, seed, AB, path, layers, job>>
        /\ found' = [NotFound EXCEPT !.cpu = found.cpu] /\ wire' = Encode(build_plain_proof)
    BY <1>6 DEF Prove
  <2>2. ConfigInv' /\ MatricesInv'
    BY <2>1 DEF AssemblyInv, ConfigInv, MatricesInv
  <2>3. TreesInv' /\ JobInv'
    BY <2>1 DEF AssemblyInv, TreesInv, MatrixLayers, TreesFrom, JobInv, Bytes, JobKey,
                commitment_hash
  <2>4. Grid' = Grid /\ Daf' = Daf
    BY <2>1 DEF Grid, Daf
  <2>7. found'.cpu = found.cpu
    BY <2>1 DEF NotFound
  <2>6. FoundInv'
    BY <2>1, <2>4, <2>7 DEF AssemblyInv, FoundInv
  <2>8. build_plain_proof' = build_plain_proof
    BY <2>1, <2>7 DEF build_plain_proof, MatrixProof, a_rows_indices, b_cols_indices, Bytes
  <2>9. WireInv'
    BY <2>1, <2>8 DEF WireInv
  <2>10. QED
    BY <2>1, <2>2, <2>3, <2>6, <2>9 DEF AssemblyInv, SearchersAgree
<1>7. CASE UNCHANGED vars
  <2>1. UNCHANGED <<phase, lists, mc, shape, seed, AB, path, layers, job, found, wire>>
    BY <1>7 DEF vars
  <2>2. ConfigInv' /\ MatricesInv'
    BY <2>1 DEF AssemblyInv, ConfigInv, MatricesInv
  <2>3. TreesInv' /\ JobInv'
    BY <2>1 DEF AssemblyInv, TreesInv, MatrixLayers, TreesFrom, JobInv, Bytes, JobKey,
                commitment_hash
  <2>4. Grid' = Grid
    BY <2>1 DEF Grid
  <2>5. FoundInv' /\ SearchersAgree'
    BY <2>1, <2>4 DEF AssemblyInv, FoundInv, SearchersAgree
  <2>6. WireInv'
    BY <2>1 DEF AssemblyInv, WireInv, build_plain_proof, MatrixProof, a_rows_indices,
                b_cols_indices, Bytes
  <2>7. QED
    BY <2>2, <2>3, <2>5, <2>6 DEF AssemblyInv
<1>8. QED
  BY <1>1, <1>2, <1>3, <1>4, <1>5, <1>6, <1>7 DEF Next, Over

\* The phases in order, and what each of them leaves.
THEOREM AssemblyHolds == Spec => []AssemblyInv
<1>1. Init => AssemblyInv
  BY AssemblyStarts
<1>2. AssemblyInv /\ [Next]_vars => AssemblyInv'
  BY AssemblySteps
<1>3. QED
  BY <1>1, <1>2, PTL DEF Spec

\* The grid of either axis is exact: for every pattern that is not refused, on
\* matrices of every size.
THEOREM GridIsExact == Spec => []GridExact
<1>1. ASSUME AssemblyInv, phase \in {"derived", "hashed"}
      PROVE  AxisExact(mc.rows_pattern, shape.m) /\ AxisExact(mc.cols_pattern, shape.n)
  <2>1. PICK d, e : Shaped(lists[1], mc.rows_pattern, d) /\ Shaped(lists[2], mc.cols_pattern, e)
    BY <1>1, PatternsAre DEF AssemblyInv, FromConfigured
  <2>2. shape.m \in Nat \ {0} /\ shape.n \in Nat \ {0}
    BY <1>1, AssemblyAssumption DEF AssemblyInv, MatricesInv, FromDerived
  <2>3. QED
    BY <2>1, <2>2, AxisIsExact
<1>2. AssemblyInv => GridExact
  BY <1>1 DEF GridExact
<1>3. QED
  BY <1>2, AssemblyHolds, PTL

\* Over the same digests every evaluator gives the candidate the CPU loop gives,
\* within the same cap, for every pattern that is not refused, matrices, target,
\* cap and batch size; the coopmat sweep misses none on whole periods.
THEOREM SearchersAlwaysAgree == Spec => []SearchersAgree
<1>1. AssemblyInv => SearchersAgree
  BY DEF AssemblyInv
<1>2. QED
  BY <1>1, AssemblyHolds, PTL

-----------------------------------------------------------------------------
(***************************************************************************)
(* Merkle trees: powers of two, the height of a tree, and its layers.      *)
(***************************************************************************)

\* f holds the powers of two up to N.
PowersTo(N, f) ==
  f \in [0..N -> Nat \ {0}] /\ f[0] = 1 /\ \A n \in 1..N : f[n] = 2 * f[n - 1]

\* They exist, and each list of them agrees with the longer ones.
LEMMA PowersExist ==
  ASSUME NEW N \in Nat
  PROVE  /\ \E f : PowersTo(N, f)
         /\ \A M \in Nat : \A f, g : PowersTo(N, f) /\ PowersTo(M, g) /\ M <= N
              => \A n \in 0..M : g[n] = f[n]
<1>1. \E f : PowersTo(N, f)
  <2>1. PICK S : S = Nat \ {0}
    OBVIOUS
  <2>2. PICK step : step = [x \in S \X (1..N) |-> 2 * x[1]]
    OBVIOUS
  <2>3. PICK prev : prev = [n \in 1..N |-> n - 1]
    OBVIOUS
  <2>4. step \in [S \X (1..N) -> S]
    BY <2>1, <2>2
  <2>5. prev \in [1..N -> Nat] /\ \A n \in 1..N : prev[n] = n - 1
    BY <2>3
  <2>6. StepsFrom(S, 1, N, step, prev)
    BY <2>1, <2>4, <2>5, 1 \in Nat \ {0} DEF StepsFrom
  <2>7. PICK f : Recursive(S, 1, N, step, prev, f)
    BY <2>6, Recursion
  <2>8. f \in [0..N -> S] /\ f[0] = 1 /\ \A n \in 1..N : f[n] = step[<<f[prev[n]], n>>]
    BY <2>7 DEF Recursive
  <2>9. ASSUME NEW n \in 1..N PROVE f[n] = 2 * f[n - 1]
    <3>1. prev[n] = n - 1 /\ n - 1 \in 0..N
      BY <2>5
    <3>2. <<f[n - 1], n>> \in S \X (1..N)
      BY <2>8, <3>1
    <3>3. step[<<f[n - 1], n>>] = 2 * f[n - 1]
      BY <2>2, <3>2
    <3>4. QED
      BY <2>8, <3>1, <3>3
  <2>10. PowersTo(N, f)
    BY <2>1, <2>8, <2>9 DEF PowersTo
  <2>11. QED
    BY <2>10
<1>2. ASSUME NEW f, NEW g, NEW M \in Nat, PowersTo(N, f), PowersTo(M, g), M <= N
      PROVE  \A n \in 0..M : g[n] = f[n]
  <2>1. g[0] = f[0]
    BY <1>2 DEF PowersTo
  <2>2. ASSUME NEW n \in 1..M, g[n - 1] = f[n - 1] PROVE g[n] = f[n]
    <3>1. n \in 1..N
      BY <1>2
    <3>2. f[n] = 2 * f[n - 1] /\ g[n] = 2 * g[n - 1]
      BY <1>2, <3>1 DEF PowersTo
    <3>3. QED
      BY <2>2, <3>2
  <2>3. QED
    BY <2>1, <2>2, SameUp
<1>3. QED
  BY <1>1, <1>2

\* What Pow2 is.
LEMMA PowIs ==
  /\ Pow2 \in [Nat -> Nat \ {0}] /\ Pow2[0] = 1
  /\ \A n \in Nat : Pow2[n + 1] = 2 * Pow2[n]
<1> DEFINE Doubles(g) == g = [n \in Nat |-> IF n = 0 THEN 1 ELSE 2 * g[n - 1]]
           P(N) == CHOOSE f : PowersTo(N, f)
           F == [n \in Nat |-> P(n)[n]]
<1>1. \A N \in Nat : PowersTo(N, P(N))
  BY PowersExist
<1> HIDE DEF P
<1>2. F \in [Nat -> Nat \ {0}] /\ F[0] = 1
  <2>1. ASSUME NEW n \in Nat PROVE P(n)[n] \in Nat \ {0}
    <3>1. n \in 0..n /\ PowersTo(n, P(n))
      BY <1>1
    <3>2. QED
      BY <3>1 DEF PowersTo
  <2>2. P(0)[0] = 1
    BY <1>1 DEF PowersTo
  <2>3. QED
    BY <2>1, <2>2
<1>3. ASSUME NEW n \in Nat PROVE F[n + 1] = 2 * F[n]
  <2>1. PICK m \in Nat : m = n + 1 /\ m - 1 = n
    OBVIOUS
  <2>2. m \in 1..m /\ n \in 0..n /\ n <= m
    BY <2>1
  <2>3. P(m)[m] = 2 * P(m)[n]
    BY <1>1, <2>1, <2>2 DEF PowersTo
  <2>4. P(n)[n] = P(m)[n]
    <3>1. PowersTo(m, P(m)) /\ PowersTo(n, P(n))
      BY <1>1
    <3>2. \A i \in 0..n : P(n)[i] = P(m)[i]
      BY <2>2, <3>1, PowersExist
    <3>3. QED
      BY <2>2, <3>2
  <2>5. F[m] = P(m)[m] /\ F[n] = P(n)[n]
    OBVIOUS
  <2>6. QED
    BY <2>1, <2>3, <2>4, <2>5
<1>4. Pow2 = CHOOSE g : Doubles(g)
  BY DEF Pow2
<1> HIDE DEF F
<1>5. Doubles(F)
  <2>1. ASSUME NEW n \in Nat PROVE F[n] = IF n = 0 THEN 1 ELSE 2 * F[n - 1]
    <3>1. CASE n = 0
      BY <1>2, <3>1
    <3>2. CASE n # 0
      <4>1. PICK m \in Nat : m = n - 1 /\ m + 1 = n
        BY <3>2
      <4>2. QED
        BY <1>3, <3>2, <4>1
    <3>3. QED
      BY <3>1, <3>2
  <2>2. QED
    BY <1>2, <2>1
<1>6. Doubles(Pow2)
  <2> HIDE DEF Doubles
  <2>1. QED
    BY <1>4, <1>5
<1>7. ASSUME NEW n \in Nat PROVE Pow2[n] = IF n = 0 THEN 1 ELSE 2 * Pow2[n - 1]
  BY <1>6
<1>8. Pow2[0] = 1
  BY <1>7
<1>9. ASSUME NEW n \in Nat PROVE Pow2[n + 1] = 2 * Pow2[n]
  <2>1. PICK m \in Nat : m = n + 1 /\ m - 1 = n /\ m # 0
    OBVIOUS
  <2>2. QED
    BY <1>7, <2>1
<1>10. ASSUME NEW n \in Nat PROVE Pow2[n] = F[n]
  <2>1. F[0] = Pow2[0]
    BY <1>2, <1>8
  <2>2. ASSUME NEW i \in 1..n, F[i - 1] = Pow2[i - 1] PROVE F[i] = Pow2[i]
    <3>1. PICK m \in Nat : m = i - 1 /\ m + 1 = i
      OBVIOUS
    <3>2. QED
      BY <1>3, <1>9, <2>2, <3>1
  <2>3. QED
    BY <2>1, <2>2, SameUp
<1>11. Pow2 = [n \in Nat |-> IF n = 0 THEN 1 ELSE 2 * Pow2[n - 1]]
  BY <1>6
<1>12. \A n \in Nat : Pow2[n] \in Nat \ {0}
  BY <1>2, <1>10
<1>13. Pow2 \in [Nat -> Nat \ {0}]
  BY <1>11, <1>12
<1>14. QED
  BY <1>8, <1>9, <1>13

\* They grow: a later one is at least twice an earlier one, and above its place.
LEMMA PowGrows ==
  ASSUME NEW a \in Nat, NEW b \in Nat
  PROVE  /\ a < b => 2 * Pow2[a] <= Pow2[b]
         /\ a <= b => Pow2[a] <= Pow2[b]
         /\ Pow2[b] > b
<1>1. \A n \in Nat : Pow2[n] \in Nat \ {0} /\ Pow2[n + 1] = 2 * Pow2[n]
  BY PowIs
<1> DEFINE T == {n \in Nat : Pow2[n] > n /\ Pow2[a + n] >= Pow2[a]
                              /\ (n > 0 => 2 * Pow2[a] <= Pow2[a + n])}
<1>2. \A n \in Nat : n \in T <=> /\ Pow2[n] > n /\ Pow2[a + n] >= Pow2[a]
                                 /\ (n > 0 => 2 * Pow2[a] <= Pow2[a + n])
  OBVIOUS
<1> HIDE DEF T
<1>3. 0 \in T
  <2>1. PICK z \in Nat : z = 0 /\ a + z = a
    OBVIOUS
  <2>2. Pow2[z] = 1
    BY <2>1, PowIs
  <2>3. z \in T
    BY <1>1, <1>2, <2>1, <2>2
  <2>4. QED
    BY <2>1, <2>3
<1>4. ASSUME NEW n \in Nat, n \in T PROVE n + 1 \in T
  <2>1. PICK m \in Nat, c \in Nat, d \in Nat : m = n + 1 /\ c = a + n /\ d = c + 1 /\ d = a + m
    OBVIOUS
  <2>2. PICK x \in Nat, y \in Nat, u \in Nat : x = Pow2[n] /\ y = Pow2[c] /\ u = Pow2[a]
    BY <1>1, <2>1
  <2>3. x > n /\ y >= u /\ (n > 0 => 2 * u <= y)
    BY <1>2, <1>4, <2>1, <2>2
  <2>4. Pow2[m] = 2 * x /\ Pow2[d] = 2 * y
    BY <1>1, <2>1, <2>2
  <2>5. Pow2[m] > m /\ Pow2[a + m] >= u /\ 2 * u <= Pow2[a + m]
    BY <2>1, <2>3, <2>4
  <2>6. m \in T
    BY <1>2, <2>2, <2>5
  <2>7. QED
    BY <2>1, <2>6
<1>5. ASSUME NEW n \in Nat PROVE n \in T
  <2>1. \A i \in 0..n - 1 : i \in T => i + 1 \in T
    BY <1>4
  <2>2. \A i \in 0..n : i \in T
    BY <1>3, <2>1, Upwards
  <2>3. QED
    BY <2>2
<1>6. Pow2[b] > b
  BY <1>2, <1>5
<1>7. ASSUME a <= b PROVE Pow2[a] <= Pow2[b] /\ (a < b => 2 * Pow2[a] <= Pow2[b])
  <2>1. PICK n \in Nat : n = b - a /\ a + n = b
    BY <1>7
  <2>2. n \in T
    BY <1>5
  <2>3. Pow2[a + n] >= Pow2[a] /\ (n > 0 => 2 * Pow2[a] <= Pow2[a + n])
    BY <1>2, <2>2
  <2>4. n > 0 <=> a < b
    BY <2>1
  <2>5. QED
    BY <1>1, <2>1, <2>3, <2>4
<1>8. QED
  BY <1>6, <1>7

\* The height of a tree over n leaves.
LEMMA HeightIs ==
  ASSUME NEW n \in Nat \ {0}
  PROVE  /\ Height(n) \in 0..n /\ Pow2[Height(n)] >= n
         /\ \A g \in 0..Height(n) - 1 : Pow2[g] < n
<1> DEFINE T == {h \in 0..n : Pow2[h] >= n}
<1>1. \A h : h \in T <=> h \in 0..n /\ Pow2[h] >= n
  OBVIOUS
<1> HIDE DEF T
<1>2. \A h \in Nat : Pow2[h] \in Nat
  BY PowIs
<1>3. n \in T /\ T \subseteq Nat
  <2>1. Pow2[n] >= n
    BY <1>2, PowGrows
  <2>2. QED
    BY <1>1, <2>1
<1>4. PICK h \in T : \A x \in T : h <= x
  BY <1>3, LeastOf
<1>5. \A g \in 0..h - 1 : Pow2[g] < n
  <2>1. ASSUME NEW g \in 0..h - 1 PROVE Pow2[g] < n
    <3>1. g \notin T /\ g \in 0..n
      BY <1>1, <1>3, <1>4
    <3>2. QED
      BY <1>1, <1>2, <3>1
  <2>2. QED
    BY <2>1
<1>6. \E x \in 0..n : Pow2[x] >= n /\ \A g \in 0..x - 1 : Pow2[g] < n
  BY <1>1, <1>4, <1>5
<1>7. QED
  BY <1>6 DEF Height

\* The division of a length into pieces, the last of them perhaps shorter.
LEMMA CeilIs ==
  ASSUME NEW a \in Nat, NEW b \in Nat \ {0}
  PROVE  /\ CeilDiv(a, b) \in Nat
         /\ \A c \in Nat : c < CeilDiv(a, b) <=> c * b < a
<1>1. PICK s \in Nat : s = a + b - 1
  OBVIOUS
<1>2. PICK q \in Nat, r \in 0..b - 1 : q = s \div b /\ r = s % b /\ s = q * b + r
  BY <1>1, Divided
<1>3. CeilDiv(a, b) = q
  BY <1>1, <1>2 DEF CeilDiv
<1>4. ASSUME NEW c \in Nat PROVE c < q <=> c * b < a
  <2>1. PICK x \in Nat, y \in Nat : x = c * b /\ y = q * b
    BY <1>2
  <2>2. a + b - 1 = y + r /\ r \in 0..b - 1
    BY <1>1, <1>2, <2>1
  <2>3. c < q => x + b <= y
    <3>1. c + 1 <= q => (c + 1) * b <= q * b
      BY <1>2, Products
    <3>2. (c + 1) * b = c * b + b
      OBVIOUS
    <3>3. QED
      BY <1>2, <2>1, <3>1, <3>2
  <2>4. q <= c => y <= x
    BY <1>2, <2>1, Products
  <2>5. QED
    BY <1>2, <2>1, <2>2, <2>3, <2>4
<1>5. QED
  BY <1>3, <1>4

\* One turn of the loop over the layers.
Up(prev, key) == <<>> \o compute_layer_cvs(prev, key, Len(prev) = 2)

\* g holds the first n layers over some leaves.
Turns(leaves, key, n, g) ==
  g = [l \in 0..n |-> IF l = 0 THEN leaves ELSE Up(g[l - 1], key)]

\* They exist.
LEMMA TurnsExist ==
  ASSUME NEW leaves, NEW key, NEW N \in Nat
  PROVE  \E g : Turns(leaves, key, N, g)
<1> DEFINE T == {n \in 0..N : \E g : Turns(leaves, key, n, g)}
<1>1. \A n : n \in T <=> n \in 0..N /\ \E g : Turns(leaves, key, n, g)
  OBVIOUS
<1> HIDE DEF T
<1>2. 0 \in T
  <2>1. PICK z \in 0..N : z = 0
    OBVIOUS
  <2>2. PICK g : g = [l \in 0..z |-> leaves]
    OBVIOUS
  <2>3. \A l \in 0..z : l = 0
    BY <2>1
  <2>4. g = [l \in 0..z |-> IF l = 0 THEN leaves ELSE Up(g[l - 1], key)]
    BY <2>2, <2>3
  <2>5. z \in T
    BY <1>1, <2>4 DEF Turns
  <2>6. QED
    BY <2>1, <2>5
<1>3. ASSUME NEW n \in 0..N - 1, n \in T PROVE n + 1 \in T
  <2>1. PICK m : m = n + 1 /\ m \in 0..N /\ m - 1 = n /\ m # 0
    OBVIOUS
  <2>2. PICK g : Turns(leaves, key, n, g)
    BY <1>1, <1>3
  <2>3. \A l \in 0..n : g[l] = IF l = 0 THEN leaves ELSE Up(g[l - 1], key)
    BY <2>2 DEF Turns
  <2>4. PICK h : h = [l \in 0..m |-> IF l <= n THEN g[l] ELSE Up(g[n], key)]
    OBVIOUS
  <2>5. ASSUME NEW l \in 0..m PROVE h[l] = IF l = 0 THEN leaves ELSE Up(h[l - 1], key)
    <3>1. CASE l <= n
      <4>1. h[l] = g[l] /\ l \in 0..n
        BY <2>4, <3>1
      <4>2. l # 0 => l - 1 \in 0..m /\ l - 1 <= n
        BY <2>1, <4>1
      <4>3. l # 0 => h[l - 1] = g[l - 1]
        BY <2>4, <4>2
      <4>4. QED
        BY <2>3, <4>1, <4>3
    <3>2. CASE ~(l <= n)
      <4>1. l = m /\ l - 1 = n /\ l # 0 /\ n \in 0..m
        BY <2>1, <3>2
      <4>2. h[l] = Up(g[n], key) /\ h[n] = g[n]
        BY <2>4, <3>2, <4>1
      <4>3. QED
        BY <4>1, <4>2
    <3>3. QED
      BY <3>1, <3>2
  <2>6. h = [l \in 0..m |-> IF l = 0 THEN leaves ELSE Up(h[l - 1], key)]
    BY <2>4, <2>5
  <2>7. m \in T
    BY <1>1, <2>1, <2>6 DEF Turns
  <2>8. QED
    BY <2>1, <2>7
<1>4. \A n \in 0..N : n \in T
  BY <1>2, <1>3, Upwards
<1>5. N \in T
  BY <1>4
<1>6. QED
  BY <1>1, <1>5

\* A sequence of anything.
IsList(s) == \E V : s \in Seq(V)

\* A function on 1..n is one.
LEMMA ListIs ==
  ASSUME NEW n \in Nat, NEW f, f = [i \in 1..n |-> f[i]]
  PROVE  IsList(f) /\ Len(f) = n /\ <<>> \o f = f
<1>1. PICK V : V = {f[i] : i \in 1..n}
  OBVIOUS
<1>2. f \in [1..n -> V]
  BY <1>1
<1>3. f \in Seq(V) /\ Len(f) = n
  BY <1>2, FunctionIsSeq
<1>4. QED
  BY <1>3, EmptyFirst DEF IsList

\* The layer over prev: its pairs, and an odd last value as it is.
Paired(prev, key, next) ==
  /\ IsList(next) /\ Len(next) = CeilDiv(Len(prev), 2)
  /\ next = [i \in 1..CeilDiv(Len(prev), 2) |->
               IF 2 * i <= Len(prev) THEN parent_cv(prev[2 * i - 1], prev[2 * i], key, Len(prev) = 2)
               ELSE prev[Len(prev)]]

LEMMA UpIs ==
  ASSUME NEW prev, IsList(prev), NEW key
  PROVE  Paired(prev, key, Up(prev, key))
<1>1. PICK n \in Nat : n = Len(prev)
  BY DEF IsList
<1>2. PICK m \in Nat : m = CeilDiv(n, 2)
  BY CeilIs
<1>3. PICK f : f = compute_layer_cvs(prev, key, n = 2)
  OBVIOUS
<1>4. f = [i \in 1..m |-> IF 2 * i <= n THEN parent_cv(prev[2 * i - 1], prev[2 * i], key, n = 2)
                          ELSE prev[n]]
  BY <1>1, <1>2, <1>3 DEF compute_layer_cvs
<1>5. f = [i \in 1..m |-> f[i]]
  BY <1>4
<1>6. IsList(f) /\ Len(f) = m /\ <<>> \o f = f
  BY <1>5, ListIs
<1>7. Up(prev, key) = f
  BY <1>1, <1>3, <1>6 DEF Up
<1>8. QED
  BY <1>1, <1>2, <1>4, <1>6, <1>7 DEF Paired

\* The number of values at level l over n leaves.
Spread(len, l, n) == len \in Nat /\ \A c \in Nat : c < len <=> c * Pow2[l] < n

\* g holds the layers of the tree over some leaves.
Layered(leaves, key, g) ==
  LET h == Height(Len(leaves))
  IN /\ g[0] = leaves
     /\ \A l \in 0..h : IsList(g[l]) /\ Spread(Len(g[l]), l, Len(leaves))
     /\ \A l \in 1..h : Paired(g[l - 1], key, g[l])

LEMMA SpreadUp ==
  ASSUME NEW len, NEW l \in Nat, NEW n \in Nat, Spread(len, l, n)
  PROVE  Spread(CeilDiv(len, 2), l + 1, n)
<1>1. len \in Nat /\ \A c \in Nat : c < len <=> c * Pow2[l] < n
  BY DEF Spread
<1>2. CeilDiv(len, 2) \in Nat /\ \A c \in Nat : c < CeilDiv(len, 2) <=> c * 2 < len
  BY <1>1, CeilIs
<1>3. PICK p \in Nat : p = Pow2[l] /\ Pow2[l + 1] = 2 * p
  BY PowIs
<1>4. ASSUME NEW c \in Nat PROVE c < CeilDiv(len, 2) <=> c * Pow2[l + 1] < n
  <2>1. PICK d \in Nat : d = c * 2
    OBVIOUS
  <2>2. d < len <=> d * p < n
    BY <1>1, <1>3
  <2>3. d * p = c * (2 * p)
    BY <2>1
  <2>4. QED
    BY <1>2, <1>3, <2>1, <2>2, <2>3
<1>5. QED
  BY <1>2, <1>4 DEF Spread

\* The turns of the loop are the layers.
LEMMA TurnsAreLayers ==
  ASSUME NEW leaves, IsList(leaves), Len(leaves) # 0, NEW key, NEW g,
         Turns(leaves, key, Height(Len(leaves)), g)
  PROVE  Layered(leaves, key, g)
<1>1. PICK n \in Nat \ {0} : n = Len(leaves)
  BY DEF IsList
<1>2. PICK h \in Nat : h = Height(n)
  BY HeightIs
<1>3. \A l \in 0..h : g[l] = IF l = 0 THEN leaves ELSE Up(g[l - 1], key)
  BY <1>1, <1>2 DEF Turns
<1> DEFINE Good(l) == IsList(g[l]) /\ Spread(Len(g[l]), l, n)
           T == {l \in 0..h : Good(l)}
<1>4. \A l : l \in T <=> l \in 0..h /\ Good(l)
  OBVIOUS
<1> HIDE DEF T
<1>5. 0 \in T
  <2>1. PICK z \in 0..h : z = 0
    BY <1>2
  <2>2. Spread(n, z, n)
    <3>1. Pow2[z] = 1
      BY <2>1, PowIs
    <3>2. QED
      BY <3>1 DEF Spread
  <2>3. g[z] = leaves
    BY <1>3, <2>1
  <2>4. Good(z)
    BY <1>1, <2>2, <2>3
  <2>5. QED
    BY <1>4, <2>1, <2>4
<1>6. ASSUME NEW l \in 0..h - 1, l \in T PROVE l + 1 \in T
  <2>1. PICK m : m = l + 1 /\ m \in 0..h /\ m - 1 = l /\ m # 0 /\ l \in Nat
    BY <1>2
  <2>2. IsList(g[l]) /\ Spread(Len(g[l]), l, n)
    BY <1>4, <1>6
  <2>3. g[m] = Up(g[l], key)
    BY <1>3, <2>1
  <2>4. Paired(g[l], key, g[m])
    BY <2>2, <2>3, UpIs
  <2>5. IsList(g[m]) /\ Len(g[m]) = CeilDiv(Len(g[l]), 2)
    BY <2>4 DEF Paired
  <2>6. Spread(Len(g[m]), m, n)
    BY <2>1, <2>2, <2>5, SpreadUp
  <2>7. QED
    BY <1>4, <2>1, <2>5, <2>6
<1>7. \A l \in 0..h : l \in T
  BY <1>5, <1>6, Upwards
<1>8. \A l \in 0..h : Good(l)
  BY <1>4, <1>7
<1>9. g[0] = leaves
  BY <1>2, <1>3
<1>10. ASSUME NEW l \in 1..h PROVE Paired(g[l - 1], key, g[l])
  <2>1. l \in 0..h /\ l - 1 \in 0..h /\ l # 0
    BY <1>2
  <2>2. g[l] = Up(g[l - 1], key) /\ IsList(g[l - 1])
    BY <1>3, <1>8, <2>1
  <2>3. QED
    BY <2>2, UpIs
<1>11. QED
  BY <1>1, <1>2, <1>8, <1>9, <1>10 DEF Layered

\* The tree: a sequence of these layers.
TreeOf(leaves, key, tree) ==
  \E g : Layered(leaves, key, g) /\ tree = [l \in 1..Height(Len(leaves)) + 1 |-> g[l - 1]]

LEMMA BuildUpIs ==
  ASSUME NEW leaves, IsList(leaves), Len(leaves) # 0, NEW key
  PROVE  TreeOf(leaves, key, BuildUp(leaves, key))
<1>1. PICK h \in Nat : h = Height(Len(leaves))
  <2>1. Len(leaves) \in Nat \ {0}
    BY DEF IsList
  <2>2. QED
    BY <2>1, HeightIs
<1>2. PICK g : g = CHOOSE f : Turns(leaves, key, h, f)
  OBVIOUS
<1>3. Turns(leaves, key, h, g)
  BY <1>2, TurnsExist
<1>4. Layered(leaves, key, g)
  BY <1>1, <1>3, TurnsAreLayers
<1>5. PICK tree : tree = [l \in 1..h + 1 |-> g[l - 1]]
  OBVIOUS
<1>6. <<>> \o tree = tree
  <2>1. h + 1 \in Nat /\ tree = [l \in 1..h + 1 |-> tree[l]]
    BY <1>1, <1>5
  <2>2. QED
    BY <2>1, ListIs
<1>7. BuildUp(leaves, key) = <<>> \o tree
  BY <1>1, <1>2, <1>5 DEF BuildUp, Turns, Up
<1>8. QED
  BY <1>1, <1>4, <1>5, <1>6, <1>7 DEF TreeOf

\* The last layer has one value: the root.
LEMMA TopIs ==
  ASSUME NEW leaves, IsList(leaves), Len(leaves) # 0, NEW key, NEW g, Layered(leaves, key, g)
  PROVE  Len(g[Height(Len(leaves))]) = 1
<1>1. PICK n \in Nat \ {0} : n = Len(leaves)
  BY DEF IsList
<1>2. PICK h \in Nat : h = Height(n) /\ Pow2[h] >= n
  BY HeightIs
<1>3. Spread(Len(g[h]), h, n)
  BY <1>1, <1>2 DEF Layered
<1>4. PICK p \in Nat : p = Pow2[h]
  BY PowIs
<1>5. PICK z \in Nat, o \in Nat : z = 0 /\ o = 1 /\ z * p = 0 /\ o * p = p
  BY <1>4
<1>6. PICK len : len = Len(g[h])
  OBVIOUS
<1>7. len \in Nat /\ (z < len <=> z * p < n) /\ (o < len <=> o * p < n)
  BY <1>3, <1>4, <1>6 DEF Spread
<1>8. len \in Nat /\ 0 < len /\ ~(1 < len)
  BY <1>2, <1>4, <1>5, <1>7
<1>9. len = 1
  BY <1>8
<1>10. QED
  BY <1>1, <1>2, <1>6, <1>9

-----------------------------------------------------------------------------
(***************************************************************************)
(* The tree and keyed BLAKE3: the layers, from the leaves up, hold the     *)
(* chaining values of runs of chunks that merkle_root_keyed computes from  *)
(* the root down.                                                          *)
(***************************************************************************)

\* The largest power of two of chunks below c.
Half(c) == CHOOSE p \in {Pow2[e] : e \in 0..c} : p < c /\ 2 * p >= c

\* It is the only power of two from which c is not twice as far.
LEMMA HalfOf ==
  ASSUME NEW c \in Nat, NEW l \in 0..c, Pow2[l] < c, c <= 2 * Pow2[l]
  PROVE  Half(c) = Pow2[l]
<1> DEFINE S == {Pow2[e] : e \in 0..c}
<1>1. \A p : p \in S <=> \E e \in 0..c : p = Pow2[e]
  OBVIOUS
<1>2. Pow2[l] \in S
  BY <1>1
<1> HIDE DEF S
<1>3. ASSUME NEW p \in S, p < c, 2 * p >= c PROVE p = Pow2[l]
  <2>1. PICK e \in 0..c : p = Pow2[e]
    BY <1>1, <1>3
  <2>2. Pow2[e] \in Nat /\ Pow2[l] \in Nat /\ e \in Nat /\ l \in Nat
    BY PowIs
  <2>3. CASE e < l
    <3>1. 2 * Pow2[e] <= Pow2[l]
      BY <2>2, <2>3, PowGrows
    <3>2. QED
      BY <1>3, <2>1, <2>2, <3>1
  <2>4. CASE l < e
    <3>1. 2 * Pow2[l] <= Pow2[e]
      BY <2>2, <2>4, PowGrows
    <3>2. QED
      BY <1>3, <2>1, <2>2, <3>1
  <2>5. CASE e = l
    BY <2>1, <2>5
  <2>6. QED
    BY <2>2, <2>3, <2>4, <2>5
<1>4. Half(c) = CHOOSE p \in S : p < c /\ 2 * p >= c
  BY DEF Half, S
<1>5. Half(c) \in S /\ Half(c) < c /\ 2 * Half(c) >= c
  <2>1. \E p \in S : p < c /\ 2 * p >= c
    <3>1. Pow2[l] \in Nat
      BY PowIs
    <3>2. 2 * Pow2[l] >= c
      BY <3>1
    <3>3. QED
      BY <1>2, <3>2
  <2>2. QED
    BY <1>4, <2>1
<1>6. QED
  BY <1>3, <1>5

\* There is one.
LEMMA HalfIs ==
  ASSUME NEW c \in Nat, c >= 2
  PROVE  Half(c) \in 1..c - 1
<1>1. PICK h \in 0..c : Pow2[h] >= c /\ \A g \in 0..h - 1 : Pow2[g] < c
  BY HeightIs
<1>2. PICK z \in Nat : z = 0 /\ Pow2[z] = 1
  BY PowIs
<1>3. h # 0
  BY <1>1, <1>2
<1>4. PICK l \in 0..c : l = h - 1 /\ l \in 0..h - 1 /\ h = l + 1
  BY <1>3
<1>5. PICK p \in Nat : p = Pow2[l] /\ Pow2[h] = 2 * p
  BY <1>4, PowIs
<1>6. p < c /\ c <= 2 * p
  BY <1>1, <1>4, <1>5
<1>7. Half(c) = p
  BY <1>5, <1>6, HalfOf
<1>8. QED
  BY <1>6, <1>7

\* Runs of at most c of n chunks: where they begin, and how many they are.
Spans(n, c) == {x \in (0..n) \X (1..n) : x[1] + x[2] <= n /\ x[2] <= c}

\* The chaining value over one run, from those of shorter ones.
Node(data, n, key, f, span) ==
  IF span[2] = 1 THEN chunk_cv(Piece(data, span[1], ChunkLen), span[1], key, n = 1)
  ELSE parent_cv(f[<<span[1], Half(span[2])>>],
                 f[<<span[1] + Half(span[2]), span[2] - Half(span[2])>>], key, span[2] = n)

Nodes(data, n, key, c, f) == f = [span \in Spans(n, c) |-> Node(data, n, key, f, span)]

\* The two parts of a run.
LEMMA Parts ==
  ASSUME NEW n \in Nat, NEW c \in 0..n, NEW span \in Spans(n, c), span[2] # 1
  PROVE  /\ <<span[1], Half(span[2])>> \in Spans(n, span[2] - 1)
         /\ <<span[1] + Half(span[2]), span[2] - Half(span[2])>> \in Spans(n, span[2] - 1)
<1>1. span \in (0..n) \X (1..n) /\ span[1] + span[2] <= n /\ span[2] <= c
  BY DEF Spans
<1>2. PICK lo \in 0..n, k \in 1..n : lo = span[1] /\ k = span[2]
  BY <1>1
<1>3. k \in Nat /\ k >= 2 /\ lo + k <= n /\ k <= c
  BY <1>1, <1>2
<1>4. PICK p \in 1..k - 1 : p = Half(k)
  BY <1>3, HalfIs
<1>5. lo + p \in 0..n /\ k - p \in 1..n /\ p \in 1..n /\ lo + p <= n /\ lo + p + (k - p) <= n
      /\ p <= k - 1 /\ k - p <= k - 1
  BY <1>3, <1>4
<1>6. <<lo, p>> \in Spans(n, k - 1)
  BY <1>5 DEF Spans
<1>7. <<lo + p, k - p>> \in Spans(n, k - 1)
  BY <1>5 DEF Spans
<1>8. QED
  BY <1>2, <1>4, <1>6, <1>7

LEMMA SpansIn ==
  ASSUME NEW n \in Nat, NEW b \in Int, NEW c \in Int, b <= c
  PROVE  Spans(n, b) \subseteq Spans(n, c)
BY DEF Spans

\* Such values exist.
LEMMA NodesExist ==
  ASSUME NEW data, NEW n \in Nat, NEW key
  PROVE  \E f : Nodes(data, n, key, n, f)
<1> DEFINE T == {c \in 0..n : \E f : Nodes(data, n, key, c, f)}
<1>1. \A c : c \in T <=> c \in 0..n /\ \E f : Nodes(data, n, key, c, f)
  OBVIOUS
<1> HIDE DEF T
<1>2. 0 \in T
  <2>1. PICK z \in 0..n : z = 0
    OBVIOUS
  <2>2. Spans(n, z) = {}
    BY <2>1 DEF Spans
  <2>3. PICK f : f = [span \in Spans(n, z) |-> 0]
    OBVIOUS
  <2>4. Nodes(data, n, key, z, f)
    BY <2>2, <2>3 DEF Nodes
  <2>5. QED
    BY <1>1, <2>1, <2>4
<1>3. ASSUME NEW c \in 0..n - 1, c \in T PROVE c + 1 \in T
  <2>1. PICK m \in 0..n : m = c + 1 /\ c <= m
    OBVIOUS
  <2>2. PICK f : Nodes(data, n, key, c, f)
    BY <1>1, <1>3
  <2>3. \A span \in Spans(n, c) : f[span] = Node(data, n, key, f, span)
    BY <2>2 DEF Nodes
  <2>4. PICK h : h = [span \in Spans(n, m) |-> IF span[2] <= c THEN f[span]
                                                ELSE Node(data, n, key, f, span)]
    OBVIOUS
  <2>5. ASSUME NEW span \in Spans(n, c) PROVE span \in Spans(n, m) /\ h[span] = f[span]
    <3>1. span \in Spans(n, m)
      BY <2>1, SpansIn
    <3>2. span[2] <= c
      BY DEF Spans
    <3>3. QED
      BY <2>4, <3>1, <3>2
  <2>6. ASSUME NEW span \in Spans(n, m)
        PROVE  Node(data, n, key, f, span) = Node(data, n, key, h, span)
    <3>1. span[2] \in 1..m
      BY <2>1 DEF Spans
    <3>2. CASE span[2] = 1
      BY <3>2 DEF Node
    <3>3. CASE span[2] # 1
      <4>1. Spans(n, span[2] - 1) \subseteq Spans(n, c)
        BY <2>1, <3>1, SpansIn
      <4>2. PICK x, y : /\ x = <<span[1], Half(span[2])>> /\ x \in Spans(n, c)
                        /\ y = <<span[1] + Half(span[2]), span[2] - Half(span[2])>>
                        /\ y \in Spans(n, c)
        BY <2>1, <3>3, <4>1, Parts
      <4>3. h[x] = f[x] /\ h[y] = f[y]
        BY <2>5, <4>2
      <4>4. QED
        BY <3>3, <4>2, <4>3 DEF Node
    <3>4. QED
      BY <3>2, <3>3
  <2>7. ASSUME NEW span \in Spans(n, m) PROVE h[span] = Node(data, n, key, h, span)
    <3>1. CASE span[2] <= c
      <4>1. span \in Spans(n, c)
        BY <3>1 DEF Spans
      <4>2. QED
        BY <2>3, <2>5, <2>6, <4>1
    <3>2. CASE ~(span[2] <= c)
      BY <2>4, <2>6, <3>2
    <3>3. QED
      BY <3>1, <3>2
  <2>8. h = [span \in Spans(n, m) |-> Node(data, n, key, h, span)]
    BY <2>4, <2>7
  <2>9. Nodes(data, n, key, m, h)
    BY <2>8 DEF Nodes
  <2>10. QED
    BY <1>1, <2>1, <2>9
<1>4. \A c \in 0..n : c \in T
  BY <1>2, <1>3, Upwards
<1>5. QED
  BY <1>1, <1>4

\* merkle_root_keyed is the value over all of the chunks.
LEMMA KeyedRootIs ==
  ASSUME NEW data, NEW key, CeilDiv(Len(data), ChunkLen) \in Nat
  PROVE  \E f : /\ Nodes(data, CeilDiv(Len(data), ChunkLen), key, CeilDiv(Len(data), ChunkLen), f)
                /\ merkle_root_keyed(data, key) = f[<<0, CeilDiv(Len(data), ChunkLen)>>]
<1> DEFINE n == CeilDiv(Len(data), ChunkLen)
<1>1. Spans(n, n) = {x \in (0..n) \X (1..n) : x[1] + x[2] <= n}
  BY DEF Spans
<1>2. PICK f : f = CHOOSE node : Nodes(data, n, key, n, node)
  OBVIOUS
<1>3. Nodes(data, n, key, n, f)
  BY <1>2, NodesExist
<1>4. ASSUME NEW node
      PROVE  Nodes(data, n, key, n, node) <=>
        node = [span \in {x \in (0..n) \X (1..n) : x[1] + x[2] <= n} |-> Node(data, n, key, node, span)]
  BY <1>1 DEF Nodes
<1>5. f = CHOOSE node : node = [span \in {x \in (0..n) \X (1..n) : x[1] + x[2] <= n} |->
                            Node(data, n, key, node, span)]
  BY <1>2, <1>4
<1>6. merkle_root_keyed(data, key) = f[<<0, n>>]
  BY <1>5 DEF merkle_root_keyed, Node, Half
<1>7. QED
  BY <1>3, <1>6

LEMMA InSpans ==
  ASSUME NEW n, NEW lo \in 0..n, NEW c \in 1..n, lo + c <= n, c <= n
  PROVE  <<lo, c>> \in Spans(n, n)
BY DEF Spans

\* Value i of level l is that of the run of chunks it stands over.
OverRun(n, f, g, l, i) ==
  g[l][i + 1] = f[<<i * Pow2[l], Least(Pow2[l], n - i * Pow2[l])>>]

\* A tree over n leaves, more than one, and the values over runs of chunks.
TwoTrees(data, key, n, f, g, leaves) ==
  /\ n \in Nat /\ n >= 2 /\ Len(leaves) = n /\ Layered(leaves, key, g)
  /\ \A i \in 0..n - 1 : leaves[i + 1] = chunk_cv(Piece(data, i, ChunkLen), i, key, FALSE)
  /\ Nodes(data, n, key, n, f)

\* At the leaves it is.
LEMMA RunsOfOne ==
  ASSUME NEW data, NEW key, NEW n, NEW f, NEW g, NEW leaves,
         TwoTrees(data, key, n, f, g, leaves), NEW z, z = 0, NEW i \in 0..n - 1
  PROVE  OverRun(n, f, g, z, i)
<1>1. /\ n \in Nat /\ n >= 2 /\ Len(leaves) = n /\ Layered(leaves, key, g)
      /\ leaves[i + 1] = chunk_cv(Piece(data, i, ChunkLen), i, key, FALSE)
      /\ Nodes(data, n, key, n, f)
  BY DEF TwoTrees
<1>2. g[z] = leaves
  BY <1>1 DEF Layered
<1>3. PICK o \in Nat : o = 1 /\ o = Pow2[z] /\ i * o = i /\ i * Pow2[z] = i
  <2>1. Pow2[0] = 1
    BY PowIs
  <2>2. i * 1 = i
    OBVIOUS
  <2>3. QED
    BY <2>1, <2>2
<1>4. Least(Pow2[z], n - i * Pow2[z]) = o
  BY <1>1, <1>3 DEF Least
<1>5. PICK span : span = <<i, o>> /\ span \in Spans(n, n) /\ span[1] = i /\ span[2] = 1
  <2>1. i \in 0..n /\ o \in 1..n /\ i + o <= n /\ o <= n /\ o = 1
    BY <1>1, <1>3
  <2>2. <<i, o>> \in Spans(n, n)
    BY <2>1, InSpans
  <2>3. QED
    BY <2>1, <2>2
<1>6. f[span] = Node(data, n, key, f, span)
  BY <1>1, <1>5 DEF Nodes
<1>7. Node(data, n, key, f, span) = chunk_cv(Piece(data, i, ChunkLen), i, key, n = 1)
  BY <1>5 DEF Node
<1>8. (n = 1) = FALSE
  BY <1>1
<1>9. f[span] = chunk_cv(Piece(data, i, ChunkLen), i, key, FALSE)
  BY <1>6, <1>7, <1>8
<1>10. QED
  BY <1>1, <1>2, <1>3, <1>4, <1>5, <1>9 DEF OverRun

\* And one level up.
LEMMA RunsOfMore ==
  ASSUME NEW data, NEW key, NEW n, NEW f, NEW g, NEW leaves,
         TwoTrees(data, key, n, f, g, leaves), NEW l \in 0..Height(n) - 1, Height(n) \in Nat,
         \A i \in Nat : i < Len(g[l]) => OverRun(n, f, g, l, i),
         NEW m, m = l + 1, NEW i \in Nat, i < Len(g[m])
  PROVE  OverRun(n, f, g, m, i)
<1>1. /\ n \in Nat /\ n >= 2 /\ Len(leaves) = n /\ Layered(leaves, key, g)
      /\ Nodes(data, n, key, n, f)
  BY DEF TwoTrees
<1>2. l \in 0..Height(n) /\ m \in 1..Height(n) /\ m - 1 = l /\ m \in 0..Height(n) /\ l \in Nat
  OBVIOUS
<1>3. Spread(Len(g[l]), l, n) /\ Spread(Len(g[m]), m, n) /\ Paired(g[l], key, g[m])
  BY <1>1, <1>2 DEF Layered
<1>4. PICK P \in Nat : P = Pow2[l] /\ Pow2[m] = 2 * P /\ P # 0
  <2>1. Pow2[l] \in Nat /\ Pow2[m] = 2 * Pow2[l]
    BY <1>2, PowIs
  <2>2. Pow2[l] > l
    BY <1>2, PowGrows
  <2>3. QED
    BY <1>2, <2>1, <2>2
<1>5. PICK len \in Nat : len = Len(g[l]) /\ \A c \in Nat : c < len <=> c * P < n
  BY <1>3, <1>4 DEF Spread
<1>6. PICK lo \in Nat : lo = i * (2 * P) /\ lo < n
  <2>1. i * (2 * P) < n
    BY <1>3, <1>4 DEF Spread
  <2>2. i * (2 * P) \in Nat
    OBVIOUS
  <2>3. QED
    BY <2>1, <2>2
<1>17. n \in Nat /\ P >= 1 /\ lo < n
  BY <1>1, <1>4, <1>6
<1>7. PICK a \in Nat, b \in Nat : /\ a = 2 * i /\ b = 2 * i + 1
                                  /\ a * P = lo /\ b * P = lo + P
  <2>1. (2 * i) * P = i * (2 * P) /\ (2 * i + 1) * P = i * (2 * P) + P
    OBVIOUS
  <2>2. QED
    BY <1>6, <2>1
<1>18. b = a + 1
  BY <1>7
<1>8. a < len /\ (b < len <=> lo + P < n)
  BY <1>5, <1>6, <1>7
<1>9. g[l][a + 1] = f[<<lo, Least(P, n - lo)>>]
  <2>1. OverRun(n, f, g, l, a)
    BY <1>5, <1>8
  <2>2. QED
    BY <1>4, <1>7, <2>1 DEF OverRun
<1>10. PICK c \in Nat : c = Least(2 * P, n - lo) /\ c >= 1 /\ c <= n - lo /\ c <= 2 * P
                        /\ (c = 2 * P \/ c = n - lo)
  <2>1. n - lo \in Nat /\ n - lo >= 1 /\ 2 * P \in Nat /\ 2 * P >= 1
    BY <1>17
  <2>2. QED
    BY <2>1 DEF Least
<1>11. PICK nx : nx = CeilDiv(len, 2) /\ i + 1 \in 1..nx
  <2>1. Len(g[m]) = CeilDiv(len, 2)
    BY <1>3, <1>5 DEF Paired
  <2>2. Len(g[m]) \in Nat
    BY <1>3 DEF Spread
  <2>3. QED
    BY <2>1, <2>2
<1>12. g[m][i + 1] = IF 2 * (i + 1) <= len
                       THEN parent_cv(g[l][2 * (i + 1) - 1], g[l][2 * (i + 1)], key, len = 2)
                       ELSE g[l][len]
  BY <1>3, <1>5, <1>11 DEF Paired
<1>13. 2 * (i + 1) - 1 = a + 1 /\ 2 * (i + 1) = b + 1 /\ (2 * (i + 1) <= len <=> b < len)
  BY <1>7
<1>14. g[m][i + 1] = f[<<lo, c>>]
  <2>1. CASE b < len
    <3>1. lo + P < n /\ c > P
      BY <1>8, <1>10, <1>17, <2>1
    <3>2. g[l][b + 1] = f[<<lo + P, Least(P, n - (lo + P))>>]
      <4>1. OverRun(n, f, g, l, b)
        BY <1>5, <2>1
      <4>2. QED
        BY <1>4, <1>7, <4>1 DEF OverRun
    <3>3. Least(P, n - (lo + P)) = c - P
      BY <1>10, <1>17, <3>1 DEF Least
    <3>4. Least(P, n - lo) = P
      BY <1>17, <3>1 DEF Least
    <3>5. Half(c) = P
      <4>1. Pow2[l] < c /\ c <= 2 * Pow2[l]
        BY <1>4, <1>10, <3>1
      <4>2. l < P
        BY <1>2, <1>4, PowGrows
      <4>3. l \in 0..c
        BY <1>2, <1>4, <1>10, <3>1, <4>2
      <4>4. QED
        BY <1>4, <4>1, <4>3, HalfOf
    <3>6. PICK span : span = <<lo, c>> /\ span \in Spans(n, n) /\ span[1] = lo /\ span[2] = c
      <4>1. lo \in 0..n /\ c \in 1..n /\ lo + c <= n /\ c <= n
        BY <1>10, <1>17
      <4>2. <<lo, c>> \in Spans(n, n)
        BY <1>1, <1>10, <4>1, InSpans
      <4>3. QED
        BY <4>2
    <3>7. f[span] = Node(data, n, key, f, span)
      BY <1>1, <3>6 DEF Nodes
    <3>8. c # 1
      BY <1>4, <1>10, <3>1
    <3>9. f[span] = parent_cv(f[<<lo, P>>], f[<<lo + P, c - P>>], key, c = n)
      BY <3>5, <3>6, <3>7, <3>8 DEF Node
    <3>10. len = 2 <=> c = n
      <4>1. PICK o \in Nat, t \in Nat : o = 1 /\ t = 2 /\ o * P = P /\ t * P = 2 * P
        OBVIOUS
      <4>2. (o < len <=> P < n) /\ (t < len <=> 2 * P < n)
        BY <1>5, <4>1
      <4>3. len = 2 <=> P < n /\ n <= 2 * P
        <5>1. (1 < len <=> P < n) /\ (2 < len <=> 2 * P < n)
          BY <4>1, <4>2
        <5>2. QED
          BY <1>17, <5>1
      <4>4. ASSUME c = n PROVE len = 2
        BY <1>10, <1>17, <3>1, <4>3, <4>4
      <4>5. ASSUME len = 2 PROVE c = n
        <5>1. i = 0
          BY <1>7, <2>1, <4>5
        <5>2. lo = 0
          BY <1>6, <5>1
        <5>3. QED
          BY <1>10, <1>17, <4>3, <4>5, <5>2
      <4>6. QED
        BY <4>4, <4>5
    <3>11. (len = 2) = (c = n)
      BY <3>10
    <3>12. g[m][i + 1] = parent_cv(f[<<lo, P>>], f[<<lo + P, c - P>>], key, len = 2)
      BY <1>9, <1>12, <1>13, <2>1, <3>2, <3>3, <3>4
    <3>13. QED
      BY <3>6, <3>9, <3>11, <3>12
  <2>2. CASE ~(b < len)
    <3>1. len = a + 1 /\ lo + P >= n
      BY <1>8, <1>17, <1>18, <2>2
    <3>2. c = Least(P, n - lo)
      BY <1>10, <1>17, <3>1 DEF Least
    <3>3. QED
      BY <1>9, <1>12, <1>13, <2>2, <3>1, <3>2
  <2>3. QED
    BY <2>1, <2>2
<1>15. i * Pow2[m] = lo /\ Least(Pow2[m], n - i * Pow2[m]) = c
  BY <1>4, <1>6, <1>10
<1>16. QED
  BY <1>14, <1>15 DEF OverRun

\* Every value of the tree is that over its run of chunks.
LEMMA RunsAgree ==
  ASSUME NEW data, NEW key, NEW n, NEW f, NEW g, NEW leaves,
         TwoTrees(data, key, n, f, g, leaves)
  PROVE  \A l \in 0..Height(n) : \A i \in Nat : i < Len(g[l]) => OverRun(n, f, g, l, i)
<1>1. n \in Nat /\ n >= 2 /\ Len(leaves) = n /\ Layered(leaves, key, g)
  BY DEF TwoTrees
<1>2. Height(n) \in Nat
  BY <1>1, HeightIs
<1> DEFINE Good(l) == \A i \in Nat : i < Len(g[l]) => OverRun(n, f, g, l, i)
           T == {l \in 0..Height(n) : Good(l)}
<1>3. \A l : l \in T <=> l \in 0..Height(n) /\ Good(l)
  OBVIOUS
<1> HIDE DEF T
<1>4. 0 \in T
  <2>1. PICK z \in 0..Height(n) : z = 0
    BY <1>2
  <2>2. g[z] = leaves
    BY <1>1, <2>1 DEF Layered
  <2>3. ASSUME NEW i \in Nat, i < Len(g[z]) PROVE OverRun(n, f, g, z, i)
    <3>1. i \in 0..n - 1
      BY <1>1, <2>2, <2>3
    <3>2. QED
      BY <2>1, <3>1, RunsOfOne
  <2>4. Good(z)
    BY <2>3
  <2>5. QED
    BY <1>3, <2>1, <2>4
<1>5. ASSUME NEW l \in 0..Height(n) - 1, l \in T PROVE l + 1 \in T
  <2>1. PICK m : m = l + 1
    OBVIOUS
  <2>2. m \in 0..Height(n)
    BY <1>2, <2>1
  <2>3. \A i \in Nat : i < Len(g[l]) => OverRun(n, f, g, l, i)
    BY <1>3, <1>5
  <2>4. \A i \in Nat : i < Len(g[m]) => OverRun(n, f, g, m, i)
    BY <1>2, <2>1, <2>3, RunsOfMore
  <2>5. Good(m)
    BY <2>4
  <2>6. QED
    BY <1>3, <2>1, <2>2, <2>5
<1>6. \A l \in 0..Height(n) : l \in T
  BY <1>2, <1>4, <1>5, Upwards
<1>7. QED
  BY <1>3, <1>6

\* The chaining values of the chunks.
LEMMA LeavesAre ==
  ASSUME NEW data, NEW key, Len(data) \in Nat
  PROVE  /\ CeilDiv(Len(data), ChunkLen) \in Nat
         /\ IsList(leaf_cvs(data, key)) /\ Len(leaf_cvs(data, key)) = CeilDiv(Len(data), ChunkLen)
         /\ \A i \in 0..CeilDiv(Len(data), ChunkLen) - 1 :
              leaf_cvs(data, key)[i + 1] = chunk_cv(Piece(data, i, ChunkLen), i, key, FALSE)
<1>1. CeilDiv(Len(data), ChunkLen) \in Nat
  BY CeilIs, MerkleAssumption
<1>2. PICK n \in Nat : n = CeilDiv(Len(data), ChunkLen)
  BY <1>1
<1>3. PICK f : f = [i \in 1..n |-> chunk_cv(Piece(data, i - 1, ChunkLen), i - 1, key, FALSE)]
  OBVIOUS
<1>4. leaf_cvs(data, key) = <<>> \o f
  BY <1>2, <1>3 DEF leaf_cvs
<1>5. f = [i \in 1..n |-> f[i]]
  BY <1>3
<1>6. IsList(f) /\ Len(f) = n /\ <<>> \o f = f
  BY <1>5, ListIs
<1>7. ASSUME NEW i \in 0..n - 1
      PROVE  f[i + 1] = chunk_cv(Piece(data, i, ChunkLen), i, key, FALSE)
  <2>1. i + 1 \in 1..n /\ (i + 1) - 1 = i
    OBVIOUS
  <2>2. QED
    BY <1>3, <2>1
<1>8. QED
  BY <1>2, <1>4, <1>6, <1>7

\* A single chunk is its own root.
LEMMA OneChunk ==
  ASSUME NEW V, NEW data \in Seq(V), NEW key, Len(data) > 0, Len(data) <= ChunkLen
  PROVE  Root(build_merkle_tree(data, key)) = merkle_root_keyed(data, key)
<1>1. PICK C \in Nat \ {0} : C = ChunkLen
  BY MerkleAssumption
<1>2. PICK len \in Nat : len = Len(data) /\ len > 0 /\ len <= C
  BY <1>1
<1>3. CeilDiv(len, C) = 1
  <2>1. PICK n \in Nat : n = CeilDiv(len, C) /\ \A c \in Nat : c < n <=> c * C < len
    BY <1>1, CeilIs
  <2>2. PICK z \in Nat, o \in Nat : z = 0 /\ o = 1 /\ z * C = 0 /\ o * C = C
    BY <1>1
  <2>3. z < n /\ ~(o < n)
    BY <1>1, <1>2, <2>1, <2>2
  <2>4. n = 1
    BY <2>2, <2>3
  <2>5. QED
    BY <2>1, <2>4
<1>4. data # <<>>
  BY <1>2
<1>5. Root(build_merkle_tree(data, key)) = chunk_cv(data, 0, key, TRUE)
  BY <1>1, <1>2, <1>4 DEF build_merkle_tree, Root, Last
<1>6. PICK o : o = 1 /\ o \in Nat \ {0} /\ CeilDiv(Len(data), ChunkLen) = o
  BY <1>1, <1>2, <1>3
<1>7. PICK f : Nodes(data, o, key, o, f) /\ merkle_root_keyed(data, key) = f[<<0, o>>]
  BY <1>6, KeyedRootIs
<1>8. PICK span : span = <<0, o>> /\ span[1] = 0 /\ span[2] = 1
  <2>1. <<0, o>>[1] = 0 /\ <<0, o>>[2] = o
    OBVIOUS
  <2>2. QED
    BY <1>6, <2>1
<1>9. span \in Spans(o, o)
  BY <1>6, <1>8 DEF Spans
<1>10. f[span] = Node(data, o, key, f, span)
  BY <1>7, <1>9 DEF Nodes
<1>11. Piece(data, 0, ChunkLen) = data
  <2>1. 0 * C + 1 = 1 /\ (0 + 1) * C = C
    BY <1>1
  <2>2. Least(C, len) = len
    BY <1>2 DEF Least
  <2>3. Piece(data, 0, ChunkLen) = SubSeq(data, 1, len)
    BY <1>1, <1>2, <2>1, <2>2 DEF Piece
  <2>4. SubSeq(data, 1, len) = data
    BY <1>2
  <2>5. QED
    BY <2>3, <2>4
<1>12. Node(data, o, key, f, span) = chunk_cv(data, 0, key, o = 1)
  BY <1>8, <1>11 DEF Node
<1>13. (o = 1) = TRUE
  BY <1>6
<1>14. QED
  BY <1>5, <1>7, <1>8, <1>10, <1>12, <1>13

\* The tree that is built over more than a chunk.
LEMMA BuiltOver ==
  ASSUME NEW data, NEW key, Len(data) \in Nat, Len(data) > ChunkLen
  PROVE  TreeOf(leaf_cvs(data, key), key, build_merkle_tree(data, key))
<1>1. PICK C \in Nat \ {0} : C = ChunkLen
  BY MerkleAssumption
<1>2. PICK n \in Nat : n = CeilDiv(Len(data), C) /\ n # 0
  <2>1. PICK n \in Nat : n = CeilDiv(Len(data), C) /\ \A c \in Nat : c < n <=> c * C < Len(data)
    BY <1>1, CeilIs
  <2>2. PICK z \in Nat : z = 0 /\ z * C = 0
    BY <1>1
  <2>3. z < n
    BY <1>1, <2>1, <2>2
  <2>4. QED
    BY <2>1, <2>2, <2>3
<1>3. PICK leaves : leaves = leaf_cvs(data, key) /\ IsList(leaves) /\ Len(leaves) = n
  BY <1>1, <1>2, LeavesAre
<1>4. TreeOf(leaves, key, BuildUp(leaves, key))
  BY <1>2, <1>3, BuildUpIs
<1>5. data # <<>> /\ ~(Len(data) <= ChunkLen)
  <2>1. Len(data) > 0 /\ ~(Len(data) <= C)
    BY <1>1
  <2>2. data # <<>>
    BY <2>1, EmptySeq
  <2>3. QED
    BY <1>1, <2>1, <2>2
<1>6. build_merkle_tree(data, key) = BuildUp(leaves, key)
  BY <1>3, <1>5 DEF build_merkle_tree
<1>7. QED
  BY <1>3, <1>4, <1>6

\* Of the first two runs the last layer is the one over everything.
LEMMA ManyChunks ==
  ASSUME NEW data, NEW key, Len(data) \in Nat, Len(data) > ChunkLen
  PROVE  Root(build_merkle_tree(data, key)) = merkle_root_keyed(data, key)
<1>1. PICK C \in Nat \ {0} : C = ChunkLen
  BY MerkleAssumption
<1>2. PICK n \in Nat : n = CeilDiv(Len(data), C) /\ n >= 2
  <2>1. PICK n \in Nat : n = CeilDiv(Len(data), C) /\ \A c \in Nat : c < n <=> c * C < Len(data)
    BY <1>1, CeilIs
  <2>2. PICK o \in Nat : o = 1 /\ o * C = C
    BY <1>1
  <2>3. o < n
    BY <1>1, <2>1, <2>2
  <2>4. QED
    BY <2>1, <2>2, <2>3
<1>3. PICK leaves : /\ leaves = leaf_cvs(data, key) /\ IsList(leaves) /\ Len(leaves) = n
                    /\ \A i \in 0..n - 1 :
                         leaves[i + 1] = chunk_cv(Piece(data, i, ChunkLen), i, key, FALSE)
  BY <1>1, <1>2, LeavesAre
<1>4. PICK tree : tree = build_merkle_tree(data, key) /\ TreeOf(leaves, key, tree)
  BY <1>3, BuiltOver
<1>5. PICK h \in Nat : h = Height(n) /\ Pow2[h] >= n
  BY <1>2, HeightIs
<1>6. PICK g : Layered(leaves, key, g) /\ tree = [l \in 1..h + 1 |-> g[l - 1]]
  BY <1>3, <1>4, <1>5 DEF TreeOf
<1>7. PICK f : Nodes(data, n, key, n, f) /\ merkle_root_keyed(data, key) = f[<<0, n>>]
  BY <1>1, <1>2, KeyedRootIs
<1>8. TwoTrees(data, key, n, f, g, leaves)
  BY <1>2, <1>3, <1>6, <1>7 DEF TwoTrees
<1>9. PICK z \in Nat : z = 0
  OBVIOUS
<1>10. Len(g[h]) = 1
  BY <1>2, <1>3, <1>5, <1>6, TopIs
<1>11. OverRun(n, f, g, h, z)
  <2>1. h \in 0..Height(n) /\ z < Len(g[h])
    BY <1>5, <1>9, <1>10
  <2>2. QED
    BY <1>8, <2>1, RunsAgree
<1>12. g[h][1] = f[<<0, n>>]
  <2>1. PICK P \in Nat : P = Pow2[h] /\ P >= n
    BY <1>5, PowIs
  <2>2. z * P = 0 /\ Least(P, n - 0) = n /\ n - 0 = n
    BY <1>9, <2>1 DEF Least
  <2>3. g[h][z + 1] = f[<<z * P, Least(P, n - z * P)>>]
    BY <1>11, <2>1 DEF OverRun
  <2>4. z + 1 = 1
    BY <1>9
  <2>5. QED
    BY <2>2, <2>3, <2>4
<1>13. tree = [l \in 1..h + 1 |-> tree[l]] /\ tree[h + 1] = g[h]
  BY <1>6
<1>14. Len(tree) = h + 1
  BY <1>13, ListIs
<1>15. Last(tree) = g[h]
  BY <1>13, <1>14 DEF Last
<1>16. QED
  BY <1>4, <1>7, <1>12, <1>15 DEF Root

\* The tree's root is keyed BLAKE3 of the data, of any length.
LEMMA RootIsKeyedHash ==
  ASSUME NEW V, NEW data \in Seq(V), NEW key, Len(data) > 0
  PROVE  Root(build_merkle_tree(data, key)) = merkle_root_keyed(data, key)
<1>1. Len(data) \in Nat /\ ChunkLen \in Nat
  BY MerkleAssumption
<1>2. CASE Len(data) <= ChunkLen
  BY <1>2, OneChunk
<1>3. CASE Len(data) > ChunkLen
  BY <1>1, <1>3, ManyChunks
<1>4. QED
  BY <1>1, <1>2, <1>3

\* The host's layer: the kernel's pairs, and the odd last value behind them.
LEMMA LayerIs ==
  ASSUME NEW cur, IsList(cur), NEW key
  PROVE  merkle_layer(cur, key) = Up(cur, key)
<1>1. PICK V : cur \in Seq(V)
  BY DEF IsList
<1>2. PICK n \in Nat : n = Len(cur)
  BY <1>1
<1>3. PICK q \in Nat, r \in 0..1 : q = n \div 2 /\ r = n % 2 /\ n = 2 * q + r
  <2>1. PICK q \in Nat, r \in 0..2 - 1 : q = n \div 2 /\ r = n % 2 /\ n = 2 * q + r
    BY Divided
  <2>2. r \in 0..1
    OBVIOUS
  <2>3. QED
    BY <2>1, <2>2
<1>4. CeilDiv(n, 2) = q + r
  <2>1. PICK m \in Nat : m = CeilDiv(n, 2) /\ \A c \in Nat : c < m <=> c * 2 < n
    <3>1. PICK b \in Nat \ {0} : b = 2
      OBVIOUS
    <3>2. CeilDiv(n, b) \in Nat /\ \A c \in Nat : c < CeilDiv(n, b) <=> c * b < n
      BY CeilIs
    <3>3. QED
      BY <3>1, <3>2
  <2>2. ~(q + r < m)
    BY <1>3, <2>1
  <2>3. q + r - 1 < m
    <3>1. CASE q + r = 0
      BY <1>3, <2>1, <3>1
    <3>2. CASE q + r # 0
      BY <1>3, <2>1, <3>2
    <3>3. QED
      BY <3>1, <3>2
  <2>4. QED
    BY <1>3, <2>1, <2>2, <2>3
<1>5. PICK a : a = [i \in 1..q |-> parent_cv(cur[2 * i - 1], cur[2 * i], key, n = 2)]
  OBVIOUS
<1>6. PICK b : b = [i \in 1..q + r |-> IF 2 * i <= n THEN parent_cv(cur[2 * i - 1], cur[2 * i], key, n = 2)
                                       ELSE cur[n]]
  OBVIOUS
<1>7. PICK t : t = IF r = 1 THEN <<cur[n]>> ELSE <<>>
  OBVIOUS
<1>8. PICK W : W = V \cup {a[i] : i \in 1..q} \cup {b[i] : i \in 1..q + r}
  OBVIOUS
<1>9. a \in [1..q -> W] /\ b \in [1..q + r -> W]
  BY <1>5, <1>6, <1>8
<1>10. a \in Seq(W) /\ Len(a) = q /\ b \in Seq(W) /\ Len(b) = q + r
  <2>1. q + r \in Nat
    OBVIOUS
  <2>2. QED
    BY <1>9, <2>1, FunctionIsSeq
<1>11. t \in Seq(W) /\ Len(t) = r /\ (r = 1 => t[1] = cur[n])
  <2>1. CASE r = 1
    <3>1. n \in 1..Len(cur)
      BY <1>2, <1>3, <2>1
    <3>2. cur[n] \in W
      BY <1>1, <1>8, <3>1
    <3>3. t = <<cur[n]>>
      BY <1>7, <2>1
    <3>4. QED
      BY <2>1, <3>2, <3>3
  <2>2. CASE r # 1
    <3>1. t = <<>> /\ r = 0
      BY <1>7, <2>2
    <3>2. QED
      BY <3>1
  <2>3. QED
    BY <2>1, <2>2
<1>12. a \o t = b
  <2>1. a \o t \in Seq(W) /\ Len(a \o t) = q + r
    BY <1>10, <1>11, ConcatProperties
  <2>2. ASSUME NEW i \in 1..q + r PROVE (a \o t)[i] = b[i]
    <3>1. CASE i <= q
      <4>1. (a \o t)[i] = a[i]
        BY <1>10, <1>11, <3>1, ConcatProperties
      <4>2. i \in 1..q /\ 2 * i <= n
        BY <1>3, <3>1
      <4>3. QED
        BY <1>5, <1>6, <4>1, <4>2
    <3>2. CASE ~(i <= q)
      <4>1. i = q + 1 /\ r = 1 /\ ~(2 * i <= n)
        BY <1>3, <3>2
      <4>2. (a \o t)[i] = t[i - q]
        BY <1>10, <1>11, <3>2, ConcatProperties
      <4>3. i - q = 1
        BY <4>1
      <4>4. b[i] = cur[n]
        BY <1>6, <4>1
      <4>5. QED
        BY <1>11, <4>1, <4>2, <4>3, <4>4
    <3>3. QED
      BY <3>1, <3>2
  <2>3. QED
    BY <1>10, <2>1, <2>2, SeqEqual
<1>13. Last(cur) = cur[n]
  BY <1>2 DEF Last
<1>14. merkle_layer(cur, key) = a \o t
  BY <1>2, <1>3, <1>5, <1>7, <1>13 DEF merkle_layer, blake3_merkle_layer
<1>15. compute_layer_cvs(cur, key, n = 2) = b
  BY <1>2, <1>4, <1>6 DEF compute_layer_cvs
<1>16. <<>> \o b = b
  BY <1>10, EmptyFirst
<1>17. QED
  BY <1>2, <1>12, <1>14, <1>15, <1>16 DEF Up

\* The host's loop over them.
DeviceTurns(leaves, key, n, g) ==
  g = [l \in 0..n |-> IF l = 0 THEN leaves ELSE merkle_layer(g[l - 1], key)]

\* There is one.
LEMMA OneLoop ==
  ASSUME NEW leaves, NEW key, NEW h \in Nat, NEW f, NEW g,
         DeviceTurns(leaves, key, h, f), DeviceTurns(leaves, key, h, g)
  PROVE  \A l \in 0..h : f[l] = g[l]
<1>1. /\ \A l \in 0..h : f[l] = IF l = 0 THEN leaves ELSE merkle_layer(f[l - 1], key)
      /\ \A l \in 0..h : g[l] = IF l = 0 THEN leaves ELSE merkle_layer(g[l - 1], key)
  BY DEF DeviceTurns
<1>2. g[0] = f[0]
  BY <1>1
<1>3. \A l \in 1..h : g[l - 1] = f[l - 1] => g[l] = f[l]
  <2>1. ASSUME NEW l \in 1..h, g[l - 1] = f[l - 1] PROVE g[l] = f[l]
    <3>1. l \in 0..h /\ l # 0
      OBVIOUS
    <3>2. QED
      BY <1>1, <2>1, <3>1
  <2>2. QED
    BY <2>1
<1>4. g[h] = f[h] /\ \A l \in 0..h : g[l] = f[l]
  BY <1>2, <1>3, SameUp
<1>5. QED
  BY <1>4

DeviceLayers(leaves, key) ==
  <<>> \o [l \in 1..Height(Len(leaves)) + 1 |->
              (CHOOSE g : DeviceTurns(leaves, key, Height(Len(leaves)), g))[l - 1]]

\* It is the loop over the layers.
LEMMA DeviceTree ==
  ASSUME NEW leaves, IsList(leaves), Len(leaves) # 0, NEW key
  PROVE  BuildUp(leaves, key) = DeviceLayers(leaves, key)
<1>0. PICK h, g : h = Height(Len(leaves)) /\ g = CHOOSE f : DeviceTurns(leaves, key, h, f)
  OBVIOUS
<1>1. h \in Nat
  <2>1. Len(leaves) \in Nat \ {0}
    BY DEF IsList
  <2>2. QED
    BY <1>0, <2>1, HeightIs
<1>2. PICK f : f = CHOOSE t : Turns(leaves, key, h, t)
  OBVIOUS
<1>3. Turns(leaves, key, h, f)
  BY <1>1, <1>2, TurnsExist
<1>4. \A l \in 0..h : IsList(f[l])
  BY <1>3, <1>0, TurnsAreLayers DEF Layered
<1>5. \A l \in 0..h : f[l] = IF l = 0 THEN leaves ELSE Up(f[l - 1], key)
  BY <1>3 DEF Turns
<1>6. ASSUME NEW l \in 1..h PROVE f[l] = merkle_layer(f[l - 1], key)
  <2>1. l - 1 \in 0..h /\ l \in 0..h /\ l # 0
    BY <1>1
  <2>2. QED
    BY <1>4, <1>5, <2>1, LayerIs
<1>7. ASSUME NEW l \in 0..h PROVE f[l] = IF l = 0 THEN leaves ELSE merkle_layer(f[l - 1], key)
  <2>1. l # 0 => l \in 1..h
    BY <1>1
  <2>2. QED
    BY <1>5, <1>6, <2>1
<1>8. f = [l \in 0..h |-> IF l = 0 THEN leaves ELSE merkle_layer(f[l - 1], key)]
  <2>1. f = [l \in 0..h |-> f[l]]
    BY <1>3 DEF Turns
  <2>2. QED
    BY <1>7, <2>1
<1>9. DeviceTurns(leaves, key, h, g)
  BY <1>8, <1>0 DEF DeviceTurns
<1>10. DeviceTurns(leaves, key, h, f)
  BY <1>8 DEF DeviceTurns
<1>13. \A l \in 0..h : f[l] = g[l]
  BY <1>1, <1>9, <1>10, OneLoop
<1>14. [l \in 1..h + 1 |-> f[l - 1]] = [l \in 1..h + 1 |-> g[l - 1]]
  BY <1>1, <1>13
<1>15. BuildUp(leaves, key) = <<>> \o [l \in 1..h + 1 |-> f[l - 1]]
  BY <1>2, <1>0 DEF BuildUp, Turns, Up
<1>16. QED
  BY <1>14, <1>15, <1>0 DEF DeviceLayers

\* p is piece c, of len, of data.
PieceOf(data, c, len, V, p) ==
  /\ p \in Seq(V) /\ Len(p) = len
  /\ \A j \in 1..len : p[j] = data[c * len + j]

\* A piece that is whole.
LEMMA PieceIs ==
  ASSUME NEW V, NEW data \in Seq(V), NEW len \in Nat \ {0}, NEW c \in Nat,
         (c + 1) * len <= Len(data)
  PROVE  PieceOf(data, c, len, V, Piece(data, c, len))
<1>1. PICK a \in Nat, b \in Nat, n \in Nat : a = c * len /\ b = (c + 1) * len /\ n = Len(data)
                                              /\ b = a + len /\ b <= n
  <2>1. PICK a \in Nat, b \in Nat : a = c * len /\ b = (c + 1) * len
    OBVIOUS
  <2>2. b = a + len
    BY <2>1
  <2>3. b <= Len(data) /\ Len(data) \in Nat
    BY <2>1
  <2>4. QED
    BY <2>1, <2>2, <2>3
<1>2. Least(b, n) = b
  BY <1>1 DEF Least
<1>3. Piece(data, c, len) = SubSeq(data, a + 1, b)
  BY <1>1, <1>2 DEF Piece
<1>4. \A i \in a + 1..b : data[i] \in V
  BY <1>1
<1>5. SubSeq(data, a + 1, b) \in Seq(V)
  BY <1>1
<1>6. Len(SubSeq(data, a + 1, b)) = len
  BY <1>1
<1>7. ASSUME NEW j \in 1..len PROVE SubSeq(data, a + 1, b)[j] = data[a + j]
  BY <1>1
<1>8. QED
  BY <1>1, <1>3, <1>5, <1>6, <1>7 DEF PieceOf

\* Chunk c of data is whole, of n blocks.
Blocked(data, B, n, C, c) ==
  /\ B \in Nat \ {0} /\ n \in Nat \ {0} /\ C = n * B /\ c \in Nat
  /\ (c + 1) * C <= Len(data)

\* Its blocks are blocks of the data.
SameBlocks(data, B, n, C, c) ==
  \A b \in 1..n : Piece(Piece(data, c, C), b - 1, B) = Piece(data, c * n + b - 1, B)

LEMMA BlocksOfChunk ==
  ASSUME NEW V, NEW data \in Seq(V), NEW B, NEW n, NEW C, NEW c, Blocked(data, B, n, C, c)
  PROVE  SameBlocks(data, B, n, C, c)
<1>1. B \in Nat \ {0} /\ n \in Nat \ {0} /\ C = n * B /\ c \in Nat
      /\ (c + 1) * C <= Len(data)
  BY DEF Blocked
<1> USE <1>1
<1>2. ASSUME NEW b \in 1..n
      PROVE  Piece(Piece(data, c, C), b - 1, B) = Piece(data, c * n + b - 1, B)
  <2>1. C \in Nat \ {0}
    OBVIOUS
  <2>2. PieceOf(data, c, C, V, Piece(data, c, C))
    BY <2>1, PieceIs
  <2>3. PICK d : d = Piece(data, c, C) /\ d \in Seq(V) /\ Len(d) = C
                 /\ \A j \in 1..C : d[j] = data[c * C + j]
    BY <2>2 DEF PieceOf
  <2>4. PICK a \in Nat, x \in Nat : a = b - 1 /\ x = c * n + b - 1
    <3>1. b - 1 \in Nat /\ c * n \in Nat
      OBVIOUS
    <3>2. QED
      BY <3>1
  <2>5. PICK u \in Nat, v \in Nat, w \in Nat :
          u = a * B /\ v = c * C /\ w = x * B /\ w = v + u
    <3>1. x = c * n + a
      BY <2>4
    <3>2. a * B \in Nat /\ c * C \in Nat /\ x * B \in Nat
      BY <2>1
    <3>3. (c * n + a) * B = c * (n * B) + a * B
      OBVIOUS
    <3>4. QED
      BY <3>1, <3>2, <3>3
  <2>6. u + B <= C
    <3>1. PICK o \in Nat : o = n - a - 1
      BY <2>4
    <3>2. n * B = (a + 1 + o) * B
      BY <3>1
    <3>3. (a + 1 + o) * B = a * B + B + o * B
      OBVIOUS
    <3>4. o * B \in Nat
      OBVIOUS
    <3>5. QED
      BY <2>5, <3>2, <3>3, <3>4
  <2>7. v + C <= Len(data)
    <3>1. (c + 1) * C = c * C + C
      BY <2>1
    <3>2. QED
      BY <2>5, <3>1
  <2>8. (a + 1) * B <= Len(d)
    <3>1. (a + 1) * B = a * B + B
      OBVIOUS
    <3>2. QED
      BY <2>3, <2>5, <2>6, <3>1
  <2>9. (x + 1) * B <= Len(data)
    <3>1. (x + 1) * B = x * B + B
      OBVIOUS
    <3>2. w + B <= Len(data)
      BY <2>1, <2>5, <2>6, <2>7
    <3>3. QED
      BY <2>5, <3>1, <3>2
  <2>10. PieceOf(d, a, B, V, Piece(d, a, B)) /\ PieceOf(data, x, B, V, Piece(data, x, B))
    BY <2>3, <2>8, <2>9, PieceIs
  <2>17. PICK p, q : p = Piece(d, a, B) /\ q = Piece(data, x, B)
    OBVIOUS
  <2>15. p \in Seq(V) /\ Len(p) = B /\ \A j \in 1..B : p[j] = d[a * B + j]
    BY <2>10, <2>17 DEF PieceOf
  <2>16. q \in Seq(V) /\ Len(q) = B /\ \A j \in 1..B : q[j] = data[x * B + j]
    BY <2>10, <2>17 DEF PieceOf
  <2>12. ASSUME NEW j \in 1..B PROVE p[j] = q[j]
    <3>1. PICK i \in Nat : i = u + j
      OBVIOUS
    <3>2. i \in 1..C /\ v + i = w + j
      BY <2>1, <2>5, <2>6, <3>1
    <3>3. p[j] = d[i] /\ q[j] = data[w + j]
      BY <2>5, <2>15, <2>16, <3>1
    <3>4. d[i] = data[v + i]
      BY <2>3, <2>5, <3>2
    <3>5. QED
      BY <3>2, <3>3, <3>4
  <2>13. p = q
    BY <2>12, <2>15, <2>16, SeqEqual
  <2>14. QED
    BY <2>3, <2>4, <2>13, <2>17
<1>3. QED
  BY <1>2 DEF SameBlocks

\* The flags of a block of a whole chunk, and of a chunk that may be the root.
WholeFlags(b, n) == {"KEYED_HASH"} \cup {f \in {"CHUNK_START"} : b = 1}
                    \cup {f \in {"CHUNK_END"} : b = n}
ChunkFlags(b, n, isRoot) == {"KEYED_HASH"} \cup {f \in {"CHUNK_START"} : b = 1}
                            \cup {f \in {"CHUNK_END"} : b = n}
                            \cup {f \in {"ROOT"} : b = n /\ isRoot}

\* The compressions of a work item, and those of chunk_cv.
ItemCvs(data, c, n, key, cv) ==
  cv = [b \in 0..n |-> IF b = 0 THEN key
                       ELSE compress(cv[b - 1], Piece(data, c * n + b - 1, BlockLen), c, BlockLen,
                                     WholeFlags(b, n))]
WorkItem(data, c, n, key) == (CHOOSE cv : ItemCvs(data, c, n, key, cv))[n]
ChunkCvs(data, padded, c, n, key, isRoot, cv) ==
  cv = [b \in 0..n |-> IF b = 0 THEN key
                       ELSE compress(cv[b - 1], Piece(padded, b - 1, BlockLen), c,
                                     block_len(data, b), ChunkFlags(b, n, isRoot))]

ChunkChain(data, padded, index, n, key, isRoot) ==
  CHOOSE cv : ChunkCvs(data, padded, index, n, key, isRoot, cv)

Chained(data, index, key, isRoot, n) ==
  n = (IF data = <<>> THEN 1 ELSE CeilDiv(Len(data), BlockLen)) =>
    chunk_cv(data, index, key, isRoot)
      = ChunkChain(data, data \o Zeros(n * BlockLen - Len(data)), index, n, key, isRoot)[n]

LEMMA ChunkCvIs ==
  ASSUME NEW data, NEW index, NEW key, NEW isRoot, NEW n
  PROVE  Chained(data, index, key, isRoot, n)
BY DEF Chained, chunk_cv, ChunkChain, ChunkCvs, ChunkFlags

\* Of a whole chunk they are the same.
LEMMA ItemIsChunk ==
  ASSUME NEW V, NEW data \in Seq(V), NEW n, NEW c, Blocked(data, BlockLen, n, ChunkLen, c), NEW key
  PROVE  chunk_cv(Piece(data, c, ChunkLen), c, key, FALSE) = WorkItem(data, c, n, key)
<1>0. n \in Nat \ {0} /\ c \in Nat /\ ChunkLen = n * BlockLen /\ (c + 1) * ChunkLen <= Len(data)
  BY DEF Blocked
<1> USE <1>0
<1>1. PICK B \in Nat \ {0}, C \in Nat \ {0} : B = BlockLen /\ C = ChunkLen /\ C = n * B
  BY MerkleAssumption
<1>2. PICK d : d = Piece(data, c, C) /\ d \in Seq(V) /\ Len(d) = C
  <2>1. PieceOf(data, c, C, V, Piece(data, c, C))
    BY <1>1, PieceIs
  <2>2. QED
    BY <2>1 DEF PieceOf
<1>3. d # <<>>
  BY <1>2
<1>4. CeilDiv(C, B) = n
  <2>1. PICK m \in Nat : m = CeilDiv(C, B) /\ \A x \in Nat : x < m <=> x * B < C
    BY CeilIs
  <2>2. ~(n < m)
    BY <1>1, <2>1
  <2>3. n - 1 < m
    <3>1. PICK x \in Nat : x = n - 1 /\ n = x + 1
      OBVIOUS
    <3>2. (x + 1) * B = x * B + B
      OBVIOUS
    <3>3. x * B < C
      BY <1>1, <3>1, <3>2
    <3>4. QED
      BY <2>1, <3>1, <3>3
  <2>4. QED
    BY <2>1, <2>2, <2>3
<1>5. d \o Zeros(n * B - Len(d)) = d
  <2>1. n * B - Len(d) = 0
    BY <1>1, <1>2
  <2>2. Zeros(0) = <<>>
    BY DEF Zeros
  <2>3. d \o <<>> = d
    BY <1>2
  <2>4. QED
    BY <2>1, <2>2, <2>3
<1>6. chunk_cv(d, c, key, FALSE) = ChunkChain(d, d, c, n, key, FALSE)[n]
  <2>1. n = IF d = <<>> THEN 1 ELSE CeilDiv(Len(d), BlockLen)
    BY <1>1, <1>2, <1>3, <1>4
  <2>2. chunk_cv(d, c, key, FALSE)
          = ChunkChain(d, d \o Zeros(n * BlockLen - Len(d)), c, n, key, FALSE)[n]
    <3>1. Chained(d, c, key, FALSE, n)
      BY ChunkCvIs
    <3>2. QED
      BY <2>1, <3>1 DEF Chained
  <2>3. d \o Zeros(n * BlockLen - Len(d)) = d
    BY <1>1, <1>5
  <2>4. QED
    BY <2>2, <2>3
<1>7. ASSUME NEW b \in 1..n PROVE ChunkFlags(b, n, FALSE) = WholeFlags(b, n)
  BY DEF ChunkFlags, WholeFlags
<1>8. ASSUME NEW b \in 1..n PROVE block_len(d, b) = B
  <2>1. PICK o \in Nat : o = n - b
    OBVIOUS
  <2>2. n * B = (o + (b - 1) + 1) * B
    BY <2>1
  <2>3. (o + (b - 1) + 1) * B = o * B + (b - 1) * B + B
    OBVIOUS
  <2>4. o * B \in Nat /\ (b - 1) * B \in Nat
    OBVIOUS
  <2>5. C - (b - 1) * B >= B
    BY <1>1, <2>2, <2>3, <2>4
  <2>6. PICK y \in Int : y = C - (b - 1) * B /\ y >= B
    BY <2>4, <2>5
  <2>7. Least(B, y) = B
    BY <2>6 DEF Least
  <2>8. QED
    BY <1>1, <1>2, <2>6, <2>7 DEF block_len
<1>9. ASSUME NEW b \in 1..n PROVE Piece(d, b - 1, B) = Piece(data, c * n + b - 1, B)
  <2>1. Blocked(data, B, n, C, c)
    BY <1>1 DEF Blocked
  <2>2. SameBlocks(data, B, n, C, c)
    BY <2>1, BlocksOfChunk
  <2>3. QED
    BY <1>2, <2>2 DEF SameBlocks
<1>10. ASSUME NEW cv PROVE ChunkCvs(d, d, c, n, key, FALSE, cv) <=> ItemCvs(data, c, n, key, cv)
  <2>1. ASSUME NEW b \in 0..n
        PROVE  (IF b = 0 THEN key
                ELSE compress(cv[b - 1], Piece(d, b - 1, BlockLen), c, block_len(d, b),
                              ChunkFlags(b, n, FALSE)))
               = (IF b = 0 THEN key
                  ELSE compress(cv[b - 1], Piece(data, c * n + b - 1, BlockLen), c, BlockLen,
                                WholeFlags(b, n)))
    <3>1. b # 0 => b \in 1..n
      OBVIOUS
    <3>2. QED
      BY <1>1, <1>7, <1>8, <1>9, <3>1
  <2>2. QED
    BY <2>1 DEF ChunkCvs, ItemCvs
<1>11. ChunkChain(d, d, c, n, key, FALSE) = CHOOSE cv : ItemCvs(data, c, n, key, cv)
  BY <1>10 DEF ChunkChain
<1>12. QED
  BY <1>1, <1>2, <1>6, <1>11 DEF WorkItem

\* Its leaves, a work item each.
DeviceCvs(data, n, q, key) == <<>> \o [i \in 1..q |-> WorkItem(data, i - 1, n, key)]

LEMMA ItemsAre ==
  ASSUME NEW data, NEW key
  PROVE  blake3_chunk_cvs(data, key)
           = DeviceCvs(data, ChunkLen \div BlockLen, Len(data) \div ChunkLen, key)
BY DEF blake3_chunk_cvs, DeviceCvs, WorkItem, ItemCvs, WholeFlags

\* The device's leaves of whole chunks are those of the CPU.
LEMMA DeviceLeaves ==
  ASSUME NEW V, NEW data \in Seq(V), NEW n \in Nat \ {0}, ChunkLen = n * BlockLen,
         NEW q \in Nat, Len(data) = q * ChunkLen, NEW key
  PROVE  blake3_chunk_cvs(data, key) = leaf_cvs(data, key)
<1>1. PICK B \in Nat \ {0}, C \in Nat \ {0} : B = BlockLen /\ C = ChunkLen /\ C = n * B
  BY MerkleAssumption
<1>2. Len(data) \div C = q
  <2>1. PICK len \in Nat, z \in 0..C - 1 : len = Len(data) /\ z = 0 /\ len = C * q + z
    BY <1>1
  <2>2. len \div C = q
    BY <2>1, Quotient
  <2>3. QED
    BY <2>1, <2>2
<1>3. C \div B = n
  <2>1. PICK z \in 0..B - 1 : z = 0 /\ C = B * n + z
    BY <1>1
  <2>2. C \div B = n
    BY <2>1, Quotient
  <2>3. QED
    BY <2>2
<1>4. CeilDiv(Len(data), C) = q
  <2>1. PICK len \in Nat : len = Len(data) /\ len = q * C
    BY <1>1
  <2>2. PICK m \in Nat : m = CeilDiv(len, C) /\ \A x \in Nat : x < m <=> x * C < len
    BY CeilIs
  <2>3. ~(q < m)
    BY <2>1, <2>2
  <2>4. q = 0 \/ q - 1 < m
    <3>1. ASSUME q # 0 PROVE q - 1 < m
      <4>1. PICK x \in Nat : x = q - 1 /\ q = x + 1
        BY <3>1
      <4>2. (x + 1) * C = x * C + C /\ x * C \in Nat
        OBVIOUS
      <4>3. x * C < len
        BY <2>1, <4>1, <4>2
      <4>4. QED
        BY <2>2, <4>1, <4>3
    <3>2. QED
      BY <3>1
  <2>5. QED
    <3>1. m = q
      BY <2>2, <2>3, <2>4
    <3>2. QED
      BY <2>1, <2>2, <3>1
<1>5. ASSUME NEW i \in 1..q
      PROVE  WorkItem(data, i - 1, n, key)
               = chunk_cv(Piece(data, i - 1, ChunkLen), i - 1, key, FALSE)
  <2>1. PICK c \in Nat : c = i - 1
    OBVIOUS
  <2>2. (c + 1) * ChunkLen <= Len(data)
    <3>1. PICK o \in Nat : o = q - i
      OBVIOUS
    <3>2. q = c + 1 + o
      BY <2>1, <3>1
    <3>3. (c + 1 + o) * C = (c + 1) * C + o * C /\ (c + 1) * C \in Nat /\ o * C \in Nat
      OBVIOUS
    <3>4. QED
      BY <1>1, <3>2, <3>3
  <2>3. QED
    <3>1. Blocked(data, BlockLen, n, ChunkLen, c)
      BY <1>1, <2>1, <2>2 DEF Blocked
    <3>2. chunk_cv(Piece(data, c, ChunkLen), c, key, FALSE) = WorkItem(data, c, n, key)
      BY <3>1, ItemIsChunk
    <3>3. QED
      BY <2>1, <3>2
<1>6. blake3_chunk_cvs(data, key) = <<>> \o [i \in 1..q |-> WorkItem(data, i - 1, n, key)]
  <2>1. ChunkLen \div BlockLen = n /\ Len(data) \div ChunkLen = q
    BY <1>1, <1>2, <1>3
  <2>2. QED
    BY <2>1, ItemsAre DEF DeviceCvs
<1>7. leaf_cvs(data, key) = <<>> \o [i \in 1..q |-> chunk_cv(Piece(data, i - 1, ChunkLen), i - 1, key, FALSE)]
  BY <1>1, <1>4 DEF leaf_cvs
<1>8. [i \in 1..q |-> WorkItem(data, i - 1, n, key)]
        = [i \in 1..q |-> chunk_cv(Piece(data, i - 1, ChunkLen), i - 1, key, FALSE)]
  BY <1>5
<1>9. QED
  BY <1>6, <1>7, <1>8

\* The loop over the leaves, unless bytes fit one chunk.
LEMMA DeviceLoops ==
  ASSUME NEW data, NEW key, NEW d \in BOOLEAN,
         d \/ (data # <<>> /\ ~(Len(data) <= ChunkLen))
  PROVE  build_layers(data, key, d)
           = DeviceLayers(blake3_chunk_cvs(pad_to_chunk(data), key), key)
  BY DEF build_layers, DeviceLayers, DeviceTurns

\* Of whole chunks it builds the layers over them.
LEMMA DeviceBuildsUp ==
  ASSUME NEW V, NEW data \in Seq(V), Len(data) > 0, Len(data) % ChunkLen = 0, NEW key
  PROVE  build_layers(data, key, TRUE) = BuildUp(leaf_cvs(data, key), key)
<1>1. PICK B \in Nat \ {0}, C \in Nat \ {0} : B = BlockLen /\ C = ChunkLen /\ C % B = 0
  BY MerkleAssumption
<1>2. PICK n \in Nat \ {0} : C = n * B
  <2>1. PICK n, z : n = C \div B /\ z = C % B
    OBVIOUS
  <2>2. n \in Nat /\ z = 0 /\ C = B * n + z
    BY <1>1, <2>1, Division
  <2>3. C = n * B /\ n # 0
    BY <2>2
  <2>4. QED
    BY <2>2, <2>3
<1>3. PICK q \in Nat : Len(data) = q * C
  <2>1. PICK len \in Nat : len = Len(data) /\ len % C = 0
    BY <1>1
  <2>2. PICK q, z : q = len \div C /\ z = len % C
    OBVIOUS
  <2>3. q \in Nat /\ z = 0 /\ len = C * q + z
    BY <2>1, <2>2, Division
  <2>4. len = q * C
    BY <2>3
  <2>5. QED
    BY <2>1, <2>3, <2>4
<1>4. blake3_chunk_cvs(data, key) = leaf_cvs(data, key)
  BY <1>1, <1>2, <1>3, DeviceLeaves
<1>5. PICK leaves : leaves = leaf_cvs(data, key)
  OBVIOUS
<1>6. PICK m \in Nat : m = CeilDiv(Len(data), C) /\ \A c \in Nat : c < m <=> c * C < Len(data)
  <2>1. Len(data) \in Nat
    OBVIOUS
  <2>2. QED
    BY <2>1, CeilIs
<1>7. IsList(leaves) /\ Len(leaves) = m
  <2>1. Len(data) \in Nat
    OBVIOUS
  <2>2. IsList(leaf_cvs(data, key)) /\ Len(leaf_cvs(data, key)) = CeilDiv(Len(data), ChunkLen)
    BY <2>1, LeavesAre
  <2>3. QED
    BY <1>1, <1>5, <1>6, <2>2
<1>8. m = q /\ m # 0
  <2>1. PICK len \in Nat : len = Len(data) /\ len = q * C /\ len > 0
    BY <1>1, <1>3
  <2>2. ~(q < m) /\ (m # 0 => m - 1 < m) /\ (q # 0 => (q - 1 < m <=> (q - 1) * C < len))
    BY <1>6, <2>1
  <2>3. q # 0
    BY <2>1
  <2>4. PICK x \in Nat : x = q - 1 /\ q = x + 1
    BY <2>3
  <2>5. (x + 1) * C = x * C + C /\ x * C \in Nat
    OBVIOUS
  <2>6. x * C < len
    BY <2>1, <2>4, <2>5
  <2>7. x < m
    BY <1>6, <2>1, <2>6
  <2>8. QED
    BY <2>2, <2>3, <2>4, <2>7
<1>9. pad_to_chunk(data) = data
  <2>1. m * C - Len(data) = 0
    BY <1>3, <1>8
  <2>2. Zeros(0) = <<>>
    BY DEF Zeros
  <2>3. data \o <<>> = data
    OBVIOUS
  <2>4. QED
    BY <1>1, <1>6, <2>1, <2>2, <2>3 DEF pad_to_chunk
<1>10. BuildUp(leaves, key) = DeviceLayers(leaves, key)
  BY <1>7, <1>8, DeviceTree
<1>11. build_layers(data, key, TRUE) = DeviceLayers(leaves, key)
  <2>1. leaves = blake3_chunk_cvs(pad_to_chunk(data), key)
    BY <1>4, <1>5, <1>9
  <2>2. QED
    BY <2>1, DeviceLoops
<1>12. QED
  BY <1>5, <1>10, <1>11

\* If they are more than one, these are the CPU's, from a buffer and from bytes.
LEMMA DeviceBuilds ==
  ASSUME NEW V, NEW data \in Seq(V), Len(data) > ChunkLen, Len(data) % ChunkLen = 0, NEW key,
         NEW d \in BOOLEAN
  PROVE  build_layers(data, key, d) = build_merkle_tree(data, key)
<1>1. PICK C \in Nat \ {0} : C = ChunkLen
  BY MerkleAssumption
<1>2. Len(data) > 0 /\ ~(Len(data) <= ChunkLen)
  <2>1. Len(data) > 0 /\ ~(Len(data) <= C)
    BY <1>1
  <2>2. QED
    BY <1>1, <2>1
<1>3. data # <<>>
  BY <1>2
<1>4. build_merkle_tree(data, key) = BuildUp(leaf_cvs(data, key), key)
  BY <1>2, <1>3 DEF build_merkle_tree
<1>5. build_layers(data, key, d) = build_layers(data, key, TRUE)
  BY <1>2, <1>3, DeviceLoops
<1>6. QED
  BY <1>2, <1>4, <1>5, DeviceBuildsUp

\* The matrix of some entries.
MatrixOf(e, rows, cols) ==
  <<>> \o [i \in 1..rows |-> <<>> \o [j \in 1..cols |-> e[<<i, j>>]]]

\* A matrix over V.
IsMatrix(V, rows, cols, mat) ==
  /\ mat \in [1..rows -> Seq(V)] /\ Len(mat) = rows
  /\ \A i \in 1..rows : Len(mat[i]) = cols

LEMMA MatrixIs ==
  ASSUME NEW V, NEW rows \in Nat, NEW cols \in Nat,
         NEW e, \A x \in (1..rows) \X (1..cols) : e[x] \in V
  PROVE  /\ IsMatrix(V, rows, cols, MatrixOf(e, rows, cols))
         /\ \A i \in 1..rows, j \in 1..cols : MatrixOf(e, rows, cols)[i][j] = e[<<i, j>>]
<1>1. PICK row : row = [i \in 1..rows |-> [j \in 1..cols |-> e[<<i, j>>]]]
  OBVIOUS
<1>2. ASSUME NEW i \in 1..rows
      PROVE  row[i] \in Seq(V) /\ Len(row[i]) = cols /\ <<>> \o row[i] = row[i]
  <2>1. row[i] = [j \in 1..cols |-> e[<<i, j>>]]
    BY <1>1
  <2>2. \A j \in 1..cols : e[<<i, j>>] \in V
    OBVIOUS
  <2>3. row[i] \in [1..cols -> V]
    BY <2>1, <2>2
  <2>4. row[i] \in Seq(V) /\ Len(row[i]) = cols
    BY <2>3, FunctionIsSeq
  <2>5. QED
    BY <2>4, EmptyFirst
<1>3. row \in [1..rows -> Seq(V)]
  BY <1>1, <1>2
<1>4. row \in Seq(Seq(V)) /\ Len(row) = rows /\ <<>> \o row = row
  <2>1. row \in Seq(Seq(V)) /\ Len(row) = rows
    BY <1>3, FunctionIsSeq
  <2>2. QED
    BY <2>1, EmptyFirst
<1>5. MatrixOf(e, rows, cols) = row
  <2>1. [i \in 1..rows |-> <<>> \o [j \in 1..cols |-> e[<<i, j>>]]] = row
    <3>1. \A i \in 1..rows : <<>> \o [j \in 1..cols |-> e[<<i, j>>]] = row[i]
      BY <1>1, <1>2
    <3>2. QED
      BY <1>1, <3>1
  <2>2. QED
    BY <1>4, <2>1 DEF MatrixOf
<1>6. QED
  BY <1>1, <1>2, <1>3, <1>4, <1>5 DEF IsMatrix

\* Its bytes, row after row.
LEMMA BytesAre ==
  ASSUME NEW V, NEW rows \in Nat \ {0}, NEW cols \in Nat, NEW mat, IsMatrix(V, rows, cols, mat)
  PROVE  /\ FlattenSeq(mat) \in Seq(V) /\ Len(FlattenSeq(mat)) = rows * cols
         /\ \A i \in 0..rows - 1 : \A j \in 1..cols : FlattenSeq(mat)[i * cols + j] = mat[i + 1][j]
<1>1. RowsOf(V, rows, cols, mat)
  BY DEF IsMatrix, RowsOf
<1>2. Filled(V, rows, cols, mat, FlattenSeq(mat))
  BY <1>1, FlattenRows
<1>3. Len(mat[rows]) = cols /\ \A i \in 0..rows - 1 : Len(mat[i + 1]) = cols
  BY DEF IsMatrix
<1>4. (rows - 1) * cols + cols = rows * cols
  OBVIOUS
<1>5. QED
  BY <1>2, <1>3, <1>4 DEF Filled

\* Either derivation makes a matrix of the shape asked for.
LEMMA DerivedIs ==
  ASSUME NEW rows \in Nat \ {0}, NEW cols \in Nat, NEW s, NEW tag, NEW mat,
         mat = derive_matrix(s, rows, cols, tag) \/ mat = derive(s, rows, cols, tag)
  PROVE  \E V : IsMatrix(V, rows, cols, mat)
<1>1. \E e : mat = MatrixOf(e, rows, cols)
  <2>1. CASE mat = derive_matrix(s, rows, cols, tag)
    <3>1. PICK e : e = [x \in (1..rows) \X (1..cols) |-> Int7(Xof(tag, s, (x[1] - 1) * cols + x[2]))]
      OBVIOUS
    <3>2. \A i \in 1..rows, j \in 1..cols : e[<<i, j>>] = Int7(Xof(tag, s, (i - 1) * cols + j))
      BY <3>1
    <3>3. derive_matrix(s, rows, cols, tag) = MatrixOf(e, rows, cols)
      BY <3>2 DEF derive_matrix, Matrix, MatrixOf
    <3>4. QED
      BY <2>1, <3>3
  <2>2. CASE mat = derive(s, rows, cols, tag)
    <3>1. PICK out : out = FlattenSeq([g \in 1..(rows * cols + XofBlock - 1) \div XofBlock |->
                             blake3_xof_derive_int8(g - 1, s, tag, rows * cols)])
      OBVIOUS
    <3>2. PICK e : e = [x \in (1..rows) \X (1..cols) |-> out[(x[1] - 1) * cols + x[2]]]
      OBVIOUS
    <3>3. \A i \in 1..rows, j \in 1..cols : e[<<i, j>>] = out[(i - 1) * cols + j]
      BY <3>2
    <3>4. derive(s, rows, cols, tag)
            = <<>> \o [i \in 1..rows |-> <<>> \o [j \in 1..cols |-> out[(i - 1) * cols + j]]]
      BY <3>1 DEF derive, Matrix
    <3>5. derive(s, rows, cols, tag) = MatrixOf(e, rows, cols)
      BY <3>3, <3>4 DEF MatrixOf
    <3>6. QED
      BY <2>2, <3>5
  <2>3. QED
    BY <2>1, <2>2
<1>2. PICK e : mat = MatrixOf(e, rows, cols)
  BY <1>1
<1>3. PICK V : V = {e[x] : x \in (1..rows) \X (1..cols)}
  OBVIOUS
<1>4. \A x \in (1..rows) \X (1..cols) : e[x] \in V
  BY <1>3
<1>5. IsMatrix(V, rows, cols, mat)
  BY <1>2, <1>4, MatrixIs
<1>6. QED
  BY <1>5

\* The bytes of either matrix of a job: as many as its shape says.
LEMMA JobBytes ==
  ASSUME ConfigInv, MatricesInv, phase \in FromDerived, NEW i \in 1..2,
         NEW rows, rows = <<shape.m, shape.n>>[i]
  PROVE  /\ rows \in Nat \ {0} /\ mc.common_dim \in Nat \ {0}
         /\ \E V : IsMatrix(V, rows, mc.common_dim, AB[i])
         /\ \E V : Bytes(i) \in Seq(V) /\ Len(Bytes(i)) = rows * mc.common_dim
<1>1. PICK m \in Ms, n \in Ns, s \in Seeds, w \in {"cpu", "device"} :
        /\ shape = [m |-> m, n |-> n]
        /\ AB = IF w = "cpu" THEN derive_AB_from_seed(s, m, n, mc.common_dim)
                             ELSE derive_AB(s, m, n, mc.common_dim)
  BY DEF MatricesInv
<1>2. mc.common_dim \in Ks
  BY DEF ConfigInv, FromConfigured, FromDerived
<1>3. PICK k \in Nat \ {0} : k = mc.common_dim
  BY <1>2, AssemblyAssumption
<1>4. m \in Nat \ {0} /\ n \in Nat \ {0} /\ shape.m = m /\ shape.n = n
  BY <1>1, AssemblyAssumption
<1>5. rows = IF i = 1 THEN m ELSE n
  BY <1>4
<1>6. rows \in Nat \ {0}
  BY <1>4, <1>5
<1>7. PICK tag : AB[i] = derive_matrix(s, rows, k, tag) \/ AB[i] = derive(s, rows, k, tag)
  <2>1. CASE i = 1
    <3>1. AB[i] = derive_matrix(s, rows, k, 0) \/ AB[i] = derive(s, rows, k, 0)
      BY <1>1, <1>3, <1>5, <2>1 DEF derive_AB_from_seed, derive_AB
    <3>2. QED
      BY <3>1
  <2>2. CASE i # 1
    <3>1. AB[i] = derive_matrix(s, rows, k, 1) \/ AB[i] = derive(s, rows, k, 1)
      BY <1>1, <1>3, <1>5, <2>2 DEF derive_AB_from_seed, derive_AB
    <3>2. QED
      BY <3>1
  <2>3. QED
    BY <2>1, <2>2
<1>8. PICK mat : mat = AB[i]
  OBVIOUS
<1>9. PICK V : IsMatrix(V, rows, k, mat)
  BY <1>6, <1>7, <1>8, DerivedIs
<1>10. FlattenSeq(mat) \in Seq(V) /\ Len(FlattenSeq(mat)) = rows * k
  BY <1>6, <1>9, BytesAre
<1>11. QED
  BY <1>3, <1>6, <1>8, <1>9, <1>10 DEF Bytes

\* The layers of the tree over a matrix, and the root they end in.
LayersOf(i) ==
  /\ Root(layers[i]) = merkle_root_keyed(Bytes(i), JobKey)
  /\ layers[i] = build_merkle_tree(Bytes(i), JobKey)

LEMMA LayersAre ==
  ASSUME ConfigInv, MatricesInv, TreesInv, phase \in FromHashed, NEW i \in 1..2,
         KeyedTree(<<shape.m, shape.n>>[i])
  PROVE  LayersOf(i)
<1>1. phase \in FromDerived
  BY DEF FromDerived, FromHashed
<1>2. PICK rows : rows = <<shape.m, shape.n>>[i]
  OBVIOUS
<1>3. PICK V, k, key, data :
        /\ rows \in Nat \ {0} /\ k \in Nat \ {0} /\ k = mc.common_dim /\ key = JobKey
        /\ data = Bytes(i) /\ data \in Seq(V) /\ Len(data) = rows * k
  BY <1>1, <1>2, JobBytes
<1>4. Len(data) > 0 /\ data # <<>>
  <2>1. rows * k > 0
    BY <1>3
  <2>2. QED
    BY <1>3, <2>1
<1>5. PICK d \in BOOLEAN :
        /\ d <=> TreesFrom = "buffer"
        /\ layers[i] = IF TreesFrom = "cpu" THEN build_merkle_tree(data, key)
                                            ELSE build_layers(data, key, d)
  BY <1>1, <1>3 DEF TreesInv, MatrixLayers
<1>6. layers[i] = build_merkle_tree(data, key)
  <2>1. CASE TreesFrom = "cpu"
    BY <1>5, <2>1
  <2>2. CASE TreesFrom # "cpu" /\ WholeChunks(rows)
    <3>1. Len(data) > ChunkLen /\ Len(data) % ChunkLen = 0
      BY <1>3, <2>2 DEF WholeChunks
    <3>2. build_layers(data, key, d) = build_merkle_tree(data, key)
      BY <1>3, <3>1, DeviceBuilds
    <3>3. QED
      BY <1>5, <2>2, <3>2
  <2>3. CASE TreesFrom = "upload" /\ rows * mc.common_dim <= ChunkLen
    <3>1. Len(data) <= ChunkLen /\ ~d
      BY <1>3, <1>5, <2>3
    <3>2. build_layers(data, key, d) = << <<chunk_cv(data, 0, key, TRUE)>> >>
      BY <1>4, <3>1 DEF build_layers, single_chunk_root
    <3>3. build_merkle_tree(data, key) = << <<chunk_cv(data, 0, key, TRUE)>> >>
      BY <1>4, <3>1 DEF build_merkle_tree
    <3>4. QED
      BY <1>5, <2>3, <3>2, <3>3
  <2>4. QED
    BY <1>2, <2>1, <2>2, <2>3 DEF KeyedTree
<1>7. Root(build_merkle_tree(data, key)) = merkle_root_keyed(data, key)
  BY <1>3, <1>4, RootIsKeyedHash
<1>8. QED
  BY <1>3, <1>6, <1>7 DEF LayersOf

\* The place of i in a set of numbers.
LowerPart(S, i) == {x \in S : x < i}
Place(S, i) == Cardinality(LowerPart(S, i))

\* A later element has a later place, and all are below the number of elements.
LEMMA PlacesRise ==
  ASSUME NEW S, S \subseteq Nat, IsFiniteSet(S)
  PROVE  /\ \A i \in S : Place(S, i) \in 0..Cardinality(S) - 1
         /\ \A i, j \in S : i < j => Place(S, i) < Place(S, j)
<1>1. ASSUME NEW i \in S PROVE IsFiniteSet(LowerPart(S, i)) /\ Place(S, i) \in Nat
  <2>1. LowerPart(S, i) \in SUBSET S
    BY DEF LowerPart
  <2>2. IsFiniteSet(LowerPart(S, i))
    BY <2>1, FS_Subset
  <2>3. QED
    BY <2>2, FS_CardinalityType DEF Place
<1>2. ASSUME NEW T, T \subseteq S, NEW i \in S, i \in T, LowerPart(S, i) \subseteq T
      PROVE  Place(S, i) < Cardinality(T) /\ Cardinality(T) \in Nat
  <2>1. IsFiniteSet(T) /\ Cardinality(T) \in Nat
    BY <1>2, FS_Subset, FS_CardinalityType
  <2>2. Place(S, i) <= Cardinality(T) /\ (Cardinality(T) = Place(S, i) => T = LowerPart(S, i))
    BY <1>2, <2>1, FS_Subset DEF Place
  <2>3. T # LowerPart(S, i)
    <3>1. i \notin LowerPart(S, i)
      BY DEF LowerPart
    <3>2. QED
      BY <1>2, <3>1
  <2>4. QED
    BY <1>1, <2>1, <2>2, <2>3
<1>3. ASSUME NEW i \in S PROVE Place(S, i) \in 0..Cardinality(S) - 1
  <2>1. LowerPart(S, i) \subseteq S
    BY DEF LowerPart
  <2>2. Place(S, i) < Cardinality(S) /\ Cardinality(S) \in Nat
    BY <1>2, <2>1
  <2>3. QED
    BY <1>1, <2>2
<1>4. ASSUME NEW i \in S, NEW j \in S, i < j PROVE Place(S, i) < Place(S, j)
  <2>1. LowerPart(S, j) \subseteq S /\ i \in LowerPart(S, j) /\ LowerPart(S, i) \subseteq LowerPart(S, j)
    <3>1. i \in Nat /\ j \in Nat /\ \A x \in S : x \in Nat
      OBVIOUS
    <3>2. \A x \in S : x < i => x < j
      BY <1>4, <3>1
    <3>3. QED
      BY <1>4, <3>2 DEF LowerPart
  <2>2. QED
    BY <1>2, <2>1 DEF Place
<1>5. QED
  BY <1>3, <1>4

\* Every place is taken.
LEMMA PlacesTaken ==
  ASSUME NEW S, S \subseteq Nat, IsFiniteSet(S), NEW r \in 0..Cardinality(S) - 1
  PROVE  \E i \in S : Place(S, i) = r
<1>1. PICK n \in Nat : n = Cardinality(S)
  BY FS_CardinalityType
<1>2. PICK T : T = 0..n - 1
  OBVIOUS
<1>3. IsFiniteSet(T) /\ Cardinality(T) = n
  BY <1>1, <1>2, FS_Interval
<1>4. PICK f : f = [i \in S |-> Place(S, i)]
  OBVIOUS
<1>5. f \in [S -> T]
  BY <1>1, <1>2, <1>4, PlacesRise
<1>6. ASSUME NEW i \in S, NEW j \in S, f[i] = f[j] PROVE i = j
  <2>1. ~(i < j) /\ ~(j < i)
    <3>1. Place(S, i) = Place(S, j) /\ Place(S, i) \in Nat
      BY <1>1, <1>2, <1>4, <1>5, <1>6
    <3>2. \A x, y \in S : x < y => Place(S, x) < Place(S, y)
      BY PlacesRise
    <3>3. i < j => Place(S, i) < Place(S, j)
      BY <3>2
    <3>4. j < i => Place(S, j) < Place(S, i)
      BY <3>2
    <3>5. QED
      BY <3>1, <3>3, <3>4
  <2>2. i \in Nat /\ j \in Nat
    OBVIOUS
  <2>3. QED
    BY <2>1, <2>2
<1>7. f \in Injection(S, T)
  BY <1>5, <1>6 DEF Injection, IsInjective
<1>8. f \in Surjection(S, T)
  BY <1>1, <1>3, <1>7, FS_Injection
<1>9. r \in T
  BY <1>1, <1>2
<1>10. \E i \in S : f[i] = r
  BY <1>8, <1>9 DEF Surjection
<1>11. QED
  BY <1>4, <1>10

\* The elements in order.
InOrder(S, s) ==
  /\ s \in Seq(S) /\ Len(s) = Cardinality(S) /\ Cardinality(S) \in Nat
  /\ \A j \in 1..Len(s) : Place(S, s[j]) = j - 1

LEMMA SortedIs ==
  ASSUME NEW S, S \subseteq Nat, IsFiniteSet(S)
  PROVE  InOrder(S, Sorted(S))
<1>1. PICK n \in Nat : n = Cardinality(S)
  BY FS_CardinalityType
<1>2. PICK s : s = Sorted(S)
  OBVIOUS
<1>3. s = [j \in 1..n |-> CHOOSE i \in S : Place(S, i) = j - 1]
  BY <1>1, <1>2 DEF Sorted, Place, LowerPart
<1>4. ASSUME NEW j \in 1..n PROVE s[j] \in S /\ Place(S, s[j]) = j - 1
  <2>1. j - 1 \in 0..Cardinality(S) - 1
    BY <1>1
  <2>2. \E i \in S : Place(S, i) = j - 1
    BY <2>1, PlacesTaken
  <2>3. s[j] = CHOOSE i \in S : Place(S, i) = j - 1
    BY <1>3
  <2>4. QED
    BY <2>2, <2>3
<1>5. s \in [1..n -> S]
  BY <1>3, <1>4
<1>6. s \in Seq(S) /\ Len(s) = n
  BY <1>5, FunctionIsSeq
<1>7. QED
  BY <1>1, <1>2, <1>4, <1>6 DEF InOrder

-----------------------------------------------------------------------------
(***************************************************************************)
(* The proof that is sent: what build_plain_proof makes is a proof as the  *)
(* encoder and the decoder take it.                                        *)
(***************************************************************************)

\* A sequence stays one over a larger set.
LEMMA SeqWiden ==
  ASSUME NEW V, NEW W, V \subseteq W, NEW s \in Seq(V)
  PROVE  s \in Seq(W)
<1>1. PICK n \in Nat : n = Len(s)
  OBVIOUS
<1>2. s \in [1..n -> W]
  BY <1>1
<1>3. QED
  BY <1>2, FunctionIsSeq

\* Padded data is whole chunks, the last one filled with zeros.
LEMMA PaddedIs ==
  ASSUME NEW V, 0 \in V, NEW data \in Seq(V), Len(data) > 0
  PROVE  \E q \in Nat \ {0}, o \in Nat :
           /\ q = CeilDiv(Len(data), ChunkLen) /\ Len(data) + o = q * ChunkLen
           /\ pad_to_chunk(data) = data \o Zeros(o) /\ pad_to_chunk(data) \in Seq(V)
           /\ Len(pad_to_chunk(data)) = q * ChunkLen
<1>0. PICK l \in Nat : l = Len(data) /\ l > 0
  OBVIOUS
<1>1. PICK C \in Nat \ {0} : C = ChunkLen /\ l = Len(data) /\ l > 0
  BY <1>0, MerkleAssumption
<1>2. PICK q \in Nat : q = CeilDiv(l, C) /\ \A x \in Nat : x < q <=> x * C < l
  BY CeilIs
<1>3. q # 0 /\ q * C >= l
  <2>1. PICK z \in Nat : z = 0 /\ z * C = 0
    OBVIOUS
  <2>2. z < q
    BY <1>1, <1>2, <2>1
  <2>3. ~(q * C < l)
    BY <1>2
  <2>4. QED
    BY <1>1, <2>1, <2>2, <2>3
<1>4. PICK y \in Nat, o \in Nat : y = q * C /\ o = y - l /\ l + o = y
  BY <1>3
<1>5. PICK z : z = Zeros(o) /\ z \in Seq(V) /\ Len(z) = o
  <2>1. Zeros(o) \in [1..o -> V]
    BY DEF Zeros
  <2>2. QED
    BY <2>1, FunctionIsSeq
<1>6. pad_to_chunk(data) = data \o z
  BY <1>1, <1>2, <1>4, <1>5 DEF pad_to_chunk
<1>7. data \o z \in Seq(V) /\ Len(data \o z) = l + o
  BY <1>1, <1>5, ConcatProperties
<1>8. QED
  BY <1>1, <1>2, <1>3, <1>4, <1>5, <1>6, <1>7

\* A chunk of a proof is as long as a chunk, the last one too.
LEMMA PaddedChunk ==
  ASSUME NEW V, 0 \in V, NEW data \in Seq(V), NEW c \in Nat, c * ChunkLen < Len(data)
  PROVE  pad_to_chunk(Piece(data, c, ChunkLen)) \in Chunk(V)
<1>1. PICK C \in Nat \ {0} : C = ChunkLen
  BY MerkleAssumption
<1>2. PICK a \in Nat, b \in Nat, n \in Nat : a = c * C /\ b = (c + 1) * C /\ n = Len(data)
  <2>1. PICK a \in Nat, b \in Nat : a = c * C /\ b = (c + 1) * C
    OBVIOUS
  <2>2. Len(data) \in Nat
    OBVIOUS
  <2>3. QED
    BY <2>1, <2>2
<1>3. b = a + C /\ a < n
  <2>1. (c + 1) * C = c * C + C
    OBVIOUS
  <2>2. QED
    BY <1>1, <1>2, <2>1
<1>4. PICK e \in Nat : e = Least(b, n) /\ e <= n /\ a < e /\ e <= a + C
  BY <1>3 DEF Least
<1>5. PICK p : p = SubSeq(data, a + 1, e) /\ Piece(data, c, ChunkLen) = p
  BY <1>1, <1>2, <1>4 DEF Piece
<1>6. p \in Seq(V) /\ Len(p) = e - a
  BY <1>2, <1>4, <1>5
<1>7. PICK l \in Nat : l = Len(p) /\ 0 < l /\ l <= C
  BY <1>4, <1>6
<1>8. CeilDiv(l, C) = 1
  <2>1. PICK m \in Nat : m = CeilDiv(l, C) /\ \A x \in Nat : x < m <=> x * C < l
    BY CeilIs
  <2>2. PICK z \in Nat, o \in Nat : z = 0 /\ o = 1 /\ z * C = 0 /\ o * C = C
    OBVIOUS
  <2>3. z < m /\ ~(o < m)
    BY <1>7, <2>1, <2>2
  <2>4. m = 1
    BY <2>2, <2>3
  <2>5. QED
    BY <2>1, <2>4
<1>9. pad_to_chunk(p) \in Seq(V) /\ Len(pad_to_chunk(p)) = 1 * ChunkLen
  BY <1>1, <1>6, <1>7, <1>8, PaddedIs
<1>10. QED
  BY <1>1, <1>5, <1>9 DEF Chunk

\* The leaves of some rows of a matrix of rows x k bytes.
LEMMA LeavesWithin ==
  ASSUME NEW rows \in Nat, NEW k \in Nat \ {0}, NEW R, R \subseteq 0..rows - 1,
         NEW c \in compute_leaf_indices_from_rows(R, k)
  PROVE  c \in Nat /\ c * ChunkLen < rows * k /\ c <= rows * k
<1>1. PICK C \in Nat \ {0} : C = ChunkLen
  BY MerkleAssumption
<1>2. PICK r \in R : c \in (r * k) \div C .. ((r + 1) * k - 1) \div C
  BY <1>1 DEF compute_leaf_indices_from_rows
<1>3. r \in Nat /\ r < rows
  OBVIOUS
<1>4. PICK x \in Nat, y \in Nat, z \in Nat : x = r * k /\ y = (r + 1) * k - 1 /\ z = rows * k /\ y < z
  <2>1. PICK x \in Nat, w \in Nat : x = r * k /\ w = (r + 1) * k /\ w = x + k
    BY <1>3
  <2>2. PICK z \in Nat : z = rows * k
    OBVIOUS
  <2>3. w <= z
    <3>1. k * r + k <= k * rows
      BY <1>3, Products
    <3>2. k * r = x /\ k * rows = z
      BY <1>3, <2>1, <2>2
    <3>3. QED
      BY <2>1, <3>1, <3>2
  <2>4. w - 1 \in Nat /\ w - 1 < z
    BY <2>1, <2>3
  <2>5. QED
    BY <2>1, <2>2, <2>4
<1>5. PICK f \in Nat, g \in Nat, t \in 0..C - 1 : f = x \div C /\ g = y \div C /\ y = C * g + t
  <2>1. PICK f \in Nat : f = x \div C
    BY Division
  <2>2. PICK g \in Nat, t \in 0..C - 1 : g = y \div C /\ y = C * g + t
    BY Divided
  <2>3. QED
    BY <2>1, <2>2
<1>6. c \in f..g
  BY <1>2, <1>4, <1>5
<1>7. c \in Nat /\ c <= g
  BY <1>6
<1>8. PICK d \in Nat, h \in Nat : d = C * c /\ h = C * g
  BY <1>7
<1>9. d <= h
  <2>1. CASE c = g
    BY <1>8, <2>1
  <2>2. CASE c # g
    <3>1. C * c + C <= C * g
      BY <1>7, <2>2, Products
    <3>2. QED
      BY <1>8, <3>1
  <2>3. QED
    BY <2>1, <2>2
<1>10. d < z /\ c <= d
  <2>1. d < z
    BY <1>4, <1>5, <1>8, <1>9
  <2>2. c <= C * c
    BY <1>7
  <2>3. QED
    BY <1>8, <2>1, <2>2
<1>11. c * C = d
  BY <1>7, <1>8
<1>12. QED
  BY <1>1, <1>4, <1>7, <1>10, <1>11

\* A tree has layers, and the first is a list.
IsTree(t) == Len(t) \in Nat \ {0} /\ Len(t[1]) \in Nat

LEMMA BuiltUp ==
  ASSUME NEW leaves, IsList(leaves), Len(leaves) # 0, NEW key
  PROVE  IsTree(BuildUp(leaves, key))
<1>1. PICK n \in Nat \ {0} : n = Len(leaves)
  BY DEF IsList
<1>2. PICK h \in Nat : h = Height(n)
  BY HeightIs
<1>3. PICK g : Layered(leaves, key, g) /\ BuildUp(leaves, key) = [l \in 1..h + 1 |-> g[l - 1]]
  BY <1>1, <1>2, BuildUpIs DEF TreeOf
<1>4. PICK t : t = BuildUp(leaves, key)
  OBVIOUS
<1>5. t = [l \in 1..h + 1 |-> t[l]] /\ t[1] = g[0]
  BY <1>3, <1>4
<1>6. Len(t) = h + 1
  BY <1>5, ListIs
<1>7. g[0] = leaves
  BY <1>3 DEF Layered
<1>8. QED
  BY <1>1, <1>4, <1>5, <1>6, <1>7 DEF IsTree

\* The device's leaves of padded data: as many as the CPU's.
LEMMA PaddedLeaves ==
  ASSUME NEW V, NEW data \in Seq(V), Len(data) > 0, NEW key
  PROVE  /\ IsList(blake3_chunk_cvs(pad_to_chunk(data), key))
         /\ Len(blake3_chunk_cvs(pad_to_chunk(data), key)) = CeilDiv(Len(data), ChunkLen)
         /\ Len(blake3_chunk_cvs(pad_to_chunk(data), key)) # 0
         /\ \A i \in 1..CeilDiv(Len(data), ChunkLen) :
              blake3_chunk_cvs(pad_to_chunk(data), key)[i]
                = WorkItem(pad_to_chunk(data), i - 1, ChunkLen \div BlockLen, key)
<1>1. data \in Seq(V \cup {0}) /\ 0 \in V \cup {0}
  BY SeqWiden
<1>2. PICK q \in Nat \ {0} : /\ q = CeilDiv(Len(data), ChunkLen)
                            /\ Len(pad_to_chunk(data)) = q * ChunkLen
  BY <1>1, PaddedIs
<1>3. PICK C \in Nat \ {0}, len \in Nat : C = ChunkLen /\ len = q * C /\ len = Len(pad_to_chunk(data))
  BY <1>2, MerkleAssumption
<1>4. len \div C = q
  <2>1. PICK z \in 0..C - 1 : z = 0 /\ len = C * q + z
    BY <1>3
  <2>2. QED
    BY <2>1, Quotient
<1>5. PICK n, d : n = ChunkLen \div BlockLen /\ d = pad_to_chunk(data)
  OBVIOUS
<1>6. PICK f : f = [i \in 1..q |-> WorkItem(d, i - 1, n, key)]
  OBVIOUS
<1>7. blake3_chunk_cvs(d, key) = <<>> \o f
  BY <1>3, <1>4, <1>5, <1>6, ItemsAre DEF DeviceCvs
<1>8. IsList(f) /\ Len(f) = q /\ <<>> \o f = f
  <2>1. f = [i \in 1..q |-> f[i]]
    BY <1>6
  <2>2. QED
    BY <2>1, ListIs
<1>9. QED
  BY <1>2, <1>5, <1>6, <1>7, <1>8

\* Whichever way it was built.
LEMMA TreesAre ==
  ASSUME NEW V, NEW data \in Seq(V), Len(data) > 0, NEW key, NEW t,
         t = build_merkle_tree(data, key) \/ \E d \in BOOLEAN : t = build_layers(data, key, d)
  PROVE  IsTree(t)
<1>1. PICK leaves : leaves = leaf_cvs(data, key)
  OBVIOUS
<1>2. PICK C \in Nat \ {0}, len \in Nat \ {0} : C = ChunkLen /\ len = Len(data)
  <2>1. PICK len \in Nat : len = Len(data) /\ len > 0
    OBVIOUS
  <2>2. PICK C \in Nat \ {0} : C = ChunkLen
    BY MerkleAssumption
  <2>3. QED
    BY <2>1, <2>2
<1>3. IsList(leaves) /\ Len(leaves) # 0
  <2>1. IsList(leaves) /\ Len(leaves) = CeilDiv(len, C)
    BY <1>1, <1>2, LeavesAre
  <2>2. PICK m \in Nat : m = CeilDiv(len, C) /\ \A x \in Nat : x < m <=> x * C < len
    BY CeilIs
  <2>3. PICK z \in Nat : z = 0 /\ z * C = 0
    OBVIOUS
  <2>4. z < m
    BY <2>2, <2>3
  <2>5. QED
    BY <2>1, <2>2, <2>3, <2>4
<1>4. IsTree(BuildUp(leaves, key))
  BY <1>3, BuiltUp
<1>5. CASE t = build_merkle_tree(data, key)
  <2>1. CASE Len(data) <= ChunkLen
    <3>1. data # <<>>
      BY <1>2
    <3>2. t = << <<chunk_cv(data, 0, key, TRUE)>> >>
      BY <1>5, <2>1, <3>1 DEF build_merkle_tree
    <3>3. QED
      BY <3>2 DEF IsTree
  <2>2. CASE ~(Len(data) <= ChunkLen)
    <3>1. data # <<>>
      BY <1>2
    <3>2. t = BuildUp(leaves, key)
      BY <1>1, <1>5, <2>2, <3>1 DEF build_merkle_tree
    <3>3. QED
      BY <1>4, <3>2
  <2>3. QED
    BY <2>1, <2>2
<1>6. ASSUME NEW d \in BOOLEAN, t = build_layers(data, key, d) PROVE IsTree(t)
  <2>1. data # <<>>
    BY <1>2
  <2>2. CASE ~d /\ Len(data) <= ChunkLen
    <3>1. t = << <<single_chunk_root(data, key)>> >>
      BY <1>6, <2>1, <2>2 DEF build_layers
    <3>2. QED
      BY <3>1 DEF IsTree
  <2>3. CASE d \/ ~(Len(data) <= ChunkLen)
    <3>1. PICK cvs : cvs = blake3_chunk_cvs(pad_to_chunk(data), key) /\ IsList(cvs) /\ Len(cvs) # 0
      BY PaddedLeaves
    <3>2. t = DeviceLayers(cvs, key)
      BY <1>6, <2>1, <2>3, <3>1, DeviceLoops
    <3>3. t = BuildUp(cvs, key)
      BY <3>1, <3>2, DeviceTree
    <3>4. QED
      BY <3>1, <3>3, BuiltUp
  <2>4. QED
    BY <2>2, <2>3
<1>7. QED
  BY <1>5, <1>6

\* The siblings of a proof, whatever they are.
LEMMA SiblingsAre ==
  ASSUME NEW t, IsTree(t), NEW S, S \subseteq Nat, IsFiniteSet(S)
  PROVE  \E W : Siblings(t, S) \in Seq(W)
<1>1. PICK n \in Nat : n = Len(t) - 1
  BY DEF IsTree
<1>2. PICK need : need = [l \in 1..n |->
         {i \in {i \div Pow2[l - 1] : i \in S} :
            Sibling(i) \notin {x \div Pow2[l - 1] : x \in S} /\ Sibling(i) < Len(t[l])}]
  OBVIOUS
<1>3. ASSUME NEW l \in 1..n PROVE Cardinality(need[l]) \in Nat
  <2>1. PICK f : f = [i \in S |-> i \div Pow2[l - 1]]
    OBVIOUS
  <2>2. PICK T : T = {f[i] : i \in S}
    OBVIOUS
  <2>3. f \in Surjection(S, T)
    BY <2>1, <2>2 DEF Surjection
  <2>4. IsFiniteSet(T)
    BY <2>3, FS_Surjection
  <2>5. need[l] \subseteq T
    <3>1. ASSUME NEW y \in need[l] PROVE y \in T
      <4>1. PICK i \in S : y = i \div Pow2[l - 1]
        BY <1>2
      <4>2. QED
        BY <2>1, <2>2, <4>1
    <3>2. QED
      BY <3>1
  <2>6. QED
    BY <2>4, <2>5, FS_Subset, FS_CardinalityType
<1>4. PICK f : f = [l \in 1..n |-> [j \in 1..Cardinality(need[l]) |-> t[l][Sibling(Sorted(need[l])[j]) + 1]]]
  OBVIOUS
<1>5. Siblings(t, S) = FlattenSeq(f)
  BY <1>1, <1>2, <1>4 DEF Siblings
<1>6. PICK W : W = UNION {{f[l][j] : j \in 1..Cardinality(need[l])} : l \in 1..n}
  OBVIOUS
<1>7. f \in [1..n -> Seq(W)]
  <2>1. ASSUME NEW l \in 1..n PROVE f[l] \in Seq(W)
    <3>1. PICK m \in Nat : m = Cardinality(need[l])
      BY <1>3
    <3>2. f[l] = [j \in 1..m |-> t[l][Sibling(Sorted(need[l])[j]) + 1]]
      BY <1>4, <3>1
    <3>3. \A j \in 1..m : f[l][j] \in W
      BY <1>6, <3>1
    <3>4. f[l] \in [1..m -> W]
      BY <3>2, <3>3
    <3>5. QED
      BY <3>4, FunctionIsSeq
  <2>2. QED
    BY <1>4, <2>1
<1>8. FlattenSeq(f) \in Seq(W)
  <2>1. CASE n = 0
    <3>1. f = <<>>
      BY <1>4, <2>1
    <3>2. FlattenSeq(f) = <<>>
      BY <3>1 DEF FlattenSeq
    <3>3. QED
      BY <3>2
  <2>2. CASE n # 0
    <3>1. PICK m \in Nat \ {0} : m = n
      BY <2>2
    <3>2. f \in [1..m -> Seq(W)]
      BY <1>7, <3>1
    <3>3. \E g \in [0..m -> Seq(W)] :
            /\ g[0] = <<>> /\ \A i \in 1..m : g[i] = g[i - 1] \o f[i]
            /\ FlattenSeq(f) = g[m]
      BY <3>2, FlattenSteps
    <3>4. PICK g \in [0..m -> Seq(W)] : FlattenSeq(f) = g[m]
      BY <3>3
    <3>5. g[m] \in Seq(W)
      OBVIOUS
    <3>6. QED
      BY <3>4, <3>5
  <2>3. QED
    BY <2>1, <2>2
<1>9. QED
  BY <1>5, <1>8

\* The proof of one matrix, from its layers and its bytes.
OneProof(t, data, indices, k) ==
  [proof |-> get_multileaf_proof(t, data, compute_leaf_indices_from_rows(ToSet(indices), k)),
   row_indices |-> indices]

\* Cells enough for it.
CellsFor(Cell, t, data, indices, k) ==
  /\ Nat \subseteq Cell /\ data \in Seq(Cell) /\ Root(t) \in Cell
  /\ Siblings(t, compute_leaf_indices_from_rows(ToSet(indices), k)) \in Seq(Cell)

\* Its rows are rows of the matrix.
RowsWithin(rows, indices) == indices \in Seq(Nat) /\ ToSet(indices) \subseteq 0..rows - 1

\* The leaves are finitely many numbers.
LEMMA LeafSet ==
  ASSUME NEW rows \in Nat, NEW k \in Nat \ {0}, NEW indices, RowsWithin(rows, indices)
  PROVE  /\ compute_leaf_indices_from_rows(ToSet(indices), k) \subseteq Nat
         /\ IsFiniteSet(compute_leaf_indices_from_rows(ToSet(indices), k))
<1>1. PICK S : S = compute_leaf_indices_from_rows(ToSet(indices), k)
  OBVIOUS
<1>2. PICK z \in Nat : z = rows * k
  OBVIOUS
<1>3. \A c \in S : c \in Nat /\ c <= z
  BY <1>1, <1>2, LeavesWithin DEF RowsWithin
<1>4. S \subseteq Nat
  BY <1>3
<1>5. IsFiniteSet(S)
  BY <1>2, <1>3, <1>4, FS_BoundedSetOfNaturals
<1>6. QED
  BY <1>1, <1>4, <1>5

LEMMA OneProofIs ==
  ASSUME NEW Cell, NEW t, IsTree(t), NEW data, NEW indices, NEW k \in Nat \ {0}, NEW rows \in Nat,
         CellsFor(Cell, t, data, indices, k), RowsWithin(rows, indices), Len(data) = rows * k
  PROVE  OneProof(t, data, indices, k) \in MatrixProofs(Cell)
<1>1. PICK S : S = compute_leaf_indices_from_rows(ToSet(indices), k) /\ S \subseteq Nat /\ IsFiniteSet(S)
  BY LeafSet
<1>2. InOrder(S, Sorted(S))
  BY <1>1, SortedIs
<1>3. PICK n, s : n \in Nat /\ n = Cardinality(S) /\ s = Sorted(S) /\ s \in Seq(S) /\ Len(s) = n
  BY <1>2 DEF InOrder
<1>4. s \in Seq(Nat)
  BY <1>1, <1>3, SeqWiden
<1>5. PICK d : d = [j \in 1..n |-> pad_to_chunk(Piece(data, s[j], ChunkLen))]
  OBVIOUS
<1>6. Nat \subseteq Cell /\ data \in Seq(Cell) /\ Root(t) \in Cell /\ Siblings(t, S) \in Seq(Cell)
  BY <1>1 DEF CellsFor
<1>7. ASSUME NEW j \in 1..n PROVE d[j] \in Chunk(Cell)
  <2>1. s[j] \in S
    BY <1>3
  <2>2. PICK c : c = s[j] /\ c \in Nat /\ c * ChunkLen < rows * k
    BY <1>1, <2>1, LeavesWithin DEF RowsWithin
  <2>3. 0 \in Cell
    BY <1>6
  <2>4. pad_to_chunk(Piece(data, c, ChunkLen)) \in Chunk(Cell)
    BY <1>6, <2>2, <2>3, PaddedChunk
  <2>5. QED
    BY <1>5, <2>2, <2>4
<1>8. d \in Seq(Chunk(Cell))
  <2>1. d \in [1..n -> Chunk(Cell)]
    BY <1>5, <1>7
  <2>2. QED
    BY <1>3, <2>1, FunctionIsSeq
<1>9. get_multileaf_proof(t, data, S)
        = [leaf_data |-> d, leaf_indices |-> s, total_leaves |-> Len(t[1]), root |-> Root(t),
           siblings |-> Siblings(t, S)]
  BY <1>3, <1>5 DEF get_multileaf_proof
<1>10. Len(t[1]) \in Nat
  BY DEF IsTree
<1>11. get_multileaf_proof(t, data, S) \in MerkleProofs(Cell)
  BY <1>4, <1>6, <1>8, <1>9, <1>10 DEF MerkleProofs
<1>12. indices \in Seq(Nat)
  BY DEF RowsWithin
<1>13. QED
  BY <1>1, <1>11, <1>12 DEF OneProof, MatrixProofs

\* There are cells for it, and any larger set of cells will do.
LEMMA CellsExist ==
  ASSUME NEW V, NEW t, IsTree(t), NEW data \in Seq(V), NEW indices, NEW k \in Nat \ {0},
         NEW rows \in Nat, RowsWithin(rows, indices)
  PROVE  \E Cell : CellsFor(Cell, t, data, indices, k)
<1>1. PICK S : S = compute_leaf_indices_from_rows(ToSet(indices), k) /\ S \subseteq Nat /\ IsFiniteSet(S)
  BY LeafSet
<1>2. PICK W : Siblings(t, S) \in Seq(W)
  BY <1>1, SiblingsAre
<1>3. PICK Cell : Cell = Nat \cup V \cup W \cup {Root(t)}
  OBVIOUS
<1>4. Nat \subseteq Cell /\ V \subseteq Cell /\ W \subseteq Cell /\ Root(t) \in Cell
  BY <1>3
<1>5. data \in Seq(Cell) /\ Siblings(t, S) \in Seq(Cell)
  BY <1>2, <1>4, SeqWiden
<1>6. QED
  BY <1>1, <1>4, <1>5 DEF CellsFor

LEMMA MoreCells ==
  ASSUME NEW Cell, NEW t, NEW data, NEW indices, NEW k, CellsFor(Cell, t, data, indices, k),
         NEW W, Cell \subseteq W
  PROVE  CellsFor(W, t, data, indices, k)
  BY SeqWiden DEF CellsFor

\* The indices of a valid candidate.
LEMMA IndicesWithin ==
  ASSUME NEW p, NEW s, NEW dims, Shaped(p, s, dims), NEW axisLen \in Nat,
         NEW o \in ToSet(enumerate_valid_offsets(s, axisLen))
  PROVE  RowsWithin(axisLen, indices_with_offset(s, o))
<1>1. Rising(p) /\ to_list(s) = p
  BY DEF Shaped
<1>2. PICK n \in Nat : n = Len(p) /\ \A i \in 1..n : p[i] \in Nat
  BY <1>1, RisingIs
<1>3. enumerate_valid_offsets(s, axisLen) \in Seq(Nat)
  BY OffsetsAre
<1>4. o \in Nat
  BY <1>3 DEF ToSet
<1>5. PICK f : f = [i \in 1..n |-> p[i] + o]
  OBVIOUS
<1>6. indices_with_offset(s, o) = f
  BY <1>1, <1>2, <1>5 DEF indices_with_offset
<1>7. f \in [1..n -> Nat]
  BY <1>2, <1>4, <1>5
<1>8. f \in Seq(Nat)
  BY <1>7, FunctionIsSeq
<1>9. ToSet(indices_with_offset(s, o)) \subseteq 0..axisLen - 1
  BY InsideAxis
<1>10. QED
  BY <1>6, <1>8, <1>9 DEF RowsWithin

\* The candidate that was found is a pair of offsets of the two axes.
LEMMA HitIs ==
  ASSUME ConfigInv, MatricesInv, FoundInv, phase = "proved"
  PROVE  \E o \in ToSet(enumerate_valid_offsets(mc.rows_pattern, shape.m)),
            p \in ToSet(enumerate_valid_offsets(mc.cols_pattern, shape.n)) :
           found.cpu.hit = <<o, p>>
<1>1. PICK d, e : Shaped(lists[1], mc.rows_pattern, d) /\ Shaped(lists[2], mc.cols_pattern, e)
  BY PatternsAre DEF FromConfigured
<1>2. PICK m, n : m \in Nat /\ n \in Nat /\ m = shape.m /\ n = shape.n
  BY AssemblyAssumption DEF MatricesInv, FromDerived
<1>3. PICK rows, cols : /\ rows = enumerate_valid_offsets(mc.rows_pattern, m)
                        /\ cols = enumerate_valid_offsets(mc.cols_pattern, n)
  OBVIOUS
<1>4. rows \in Seq(Nat) /\ cols \in Seq(Nat)
  BY <1>1, <1>2, <1>3, OffsetsAre
<1>5. PICK g : g = PairList(rows, cols) /\ g = Grid
  BY <1>2, <1>3 DEF Grid, PairList
<1>6. found.cpu.hit \in ToSet(g)
  BY <1>5 DEF FoundInv
<1>7. PICK x : x \in DOMAIN g /\ g[x] = found.cpu.hit
  BY <1>6 DEF ToSet
<1>8. g # <<>>
  BY <1>7
<1>9. IsGrid(rows, cols, g)
  BY <1>4, <1>5, <1>8, GridPairs
<1>10. g \in Seq(Nat \X Nat) /\ x \in 1..Len(g)
  BY <1>7, <1>9 DEF IsGrid
<1>11. PICK i \in 1..Len(rows), j \in 1..Len(cols) : g[x] = <<rows[i], cols[j]>>
  BY <1>9, <1>10 DEF IsGrid
<1>12. rows[i] \in ToSet(rows) /\ cols[j] \in ToSet(cols)
  BY <1>4 DEF ToSet
<1>13. QED
  BY <1>2, <1>3, <1>7, <1>11, <1>12

\* The bytes and the layers of one matrix, and the rows its proof is for.
OneSide(i, rows, indices, k) ==
  /\ IsTree(layers[i]) /\ (\E V : Bytes(i) \in Seq(V)) /\ Len(Bytes(i)) = rows * k
  /\ RowsWithin(rows, indices)

LEMMA SideIs ==
  ASSUME ConfigInv, MatricesInv, TreesInv, phase = "proved", NEW i \in 1..2,
         NEW rows, rows = <<shape.m, shape.n>>[i], NEW indices, RowsWithin(rows, indices)
  PROVE  OneSide(i, rows, indices, mc.common_dim)
<1>1. phase \in FromDerived /\ phase \in FromHashed
  BY DEF FromDerived, FromHashed
<1>2. PICK V, k, key, data :
        /\ rows \in Nat \ {0} /\ k \in Nat \ {0} /\ k = mc.common_dim /\ key = JobKey
        /\ data = Bytes(i) /\ data \in Seq(V) /\ Len(data) = rows * k
  BY <1>1, JobBytes
<1>3. Len(data) > 0
  <2>1. rows * k > 0
    BY <1>2
  <2>2. QED
    BY <1>2, <2>1
<1>4. layers[i] = build_merkle_tree(data, key)
      \/ \E d \in BOOLEAN : layers[i] = build_layers(data, key, d)
  BY <1>1, <1>2 DEF TreesInv, MatrixLayers
<1>5. PICK t : t = layers[i]
  OBVIOUS
<1>6. IsTree(t)
  BY <1>2, <1>3, <1>4, <1>5, TreesAre
<1>7. QED
  BY <1>2, <1>5, <1>6 DEF OneSide

\* The proof the miner builds is one the wire form can carry.
LEMMA ProofFits ==
  ASSUME ConfigInv, MatricesInv, TreesInv, FoundInv, phase = "proved"
  PROVE  \E Cell : Nat \subseteq Cell /\ build_plain_proof \in PlainProofs(Cell)
<1>1. PICK o, p : /\ o \in ToSet(enumerate_valid_offsets(mc.rows_pattern, shape.m))
                  /\ p \in ToSet(enumerate_valid_offsets(mc.cols_pattern, shape.n))
                  /\ found.cpu.hit = <<o, p>>
  BY HitIs
<1>2. PICK d, e : Shaped(lists[1], mc.rows_pattern, d) /\ Shaped(lists[2], mc.cols_pattern, e)
  BY PatternsAre DEF FromConfigured
<1>3. PICK m, n, k : /\ m \in Nat /\ n \in Nat /\ k \in Nat \ {0}
                     /\ m = shape.m /\ n = shape.n /\ k = mc.common_dim
  <2>1. mc.common_dim \in Ks
    BY DEF ConfigInv, FromConfigured
  <2>2. shape.m \in Ms /\ shape.n \in Ns
    BY DEF MatricesInv, FromDerived
  <2>3. QED
    BY <2>1, <2>2, AssemblyAssumption
<1>4. PICK a, b : a = a_rows_indices /\ b = b_cols_indices
  OBVIOUS
<1>5. a = indices_with_offset(mc.rows_pattern, o) /\ b = indices_with_offset(mc.cols_pattern, p)
  BY <1>1, <1>4 DEF a_rows_indices, b_cols_indices
<1>6. RowsWithin(m, a) /\ RowsWithin(n, b)
  BY <1>1, <1>2, <1>3, <1>5, IndicesWithin
<1>7. m = <<shape.m, shape.n>>[1] /\ n = <<shape.m, shape.n>>[2]
  BY <1>3
<1>8. OneSide(1, m, a, k) /\ OneSide(2, n, b, k)
  BY <1>3, <1>6, <1>7, SideIs
<1>9. PICK t1, d1, V1, t2, d2, V2 :
        /\ t1 = layers[1] /\ IsTree(t1) /\ d1 = Bytes(1) /\ d1 \in Seq(V1) /\ Len(d1) = m * k
        /\ t2 = layers[2] /\ IsTree(t2) /\ d2 = Bytes(2) /\ d2 \in Seq(V2) /\ Len(d2) = n * k
  BY <1>8 DEF OneSide
<1>10. PICK C1 : CellsFor(C1, t1, d1, a, k)
  BY <1>3, <1>6, <1>9, CellsExist
<1>11. PICK C2 : CellsFor(C2, t2, d2, b, k)
  BY <1>3, <1>6, <1>9, CellsExist
<1>12. PICK Cell : Cell = C1 \cup C2
  OBVIOUS
<1>13. C1 \subseteq Cell /\ C2 \subseteq Cell
  BY <1>12
<1>14. CellsFor(Cell, t1, d1, a, k) /\ CellsFor(Cell, t2, d2, b, k)
  BY <1>10, <1>11, <1>13, MoreCells
<1>15. PICK p1, p2 : p1 = OneProof(t1, d1, a, k) /\ p2 = OneProof(t2, d2, b, k)
  OBVIOUS
<1>16. p1 \in MatrixProofs(Cell)
  BY <1>3, <1>6, <1>9, <1>14, <1>15, OneProofIs
<1>17. p2 \in MatrixProofs(Cell)
  BY <1>3, <1>6, <1>9, <1>14, <1>15, OneProofIs
<1>18. p1 = MatrixProof(1, a) /\ p2 = MatrixProof(2, b)
  BY <1>3, <1>9, <1>15 DEF MatrixProof, OneProof
<1>19. PICK r : r \in Nat /\ r = mc.rank
  <2>1. mc.rank = Rank
    BY DEF ConfigInv, FromConfigured
  <2>2. PICK z \in 1..WordBits : Rank = Pow2[z]
    BY AssemblyAssumption
  <2>3. z \in Nat
    OBVIOUS
  <2>4. QED
    BY <2>1, <2>2, <2>3, PowIs
<1>20. build_plain_proof = [m |-> m, n |-> n, k |-> k, noise_rank |-> r, a |-> p1, bt |-> p2]
  BY <1>3, <1>4, <1>18, <1>19 DEF build_plain_proof
<1>21. build_plain_proof \in PlainProofs(Cell)
  BY <1>3, <1>16, <1>17, <1>19, <1>20 DEF PlainProofs
<1>22. Nat \subseteq Cell
  BY <1>14 DEF CellsFor
<1>23. QED
  BY <1>21, <1>22

\* What is read of the wire form, of every shorter buffer, and of one a byte
\* longer.
ReadBack(w, pp) ==
  /\ Decode(w) = [ok |-> TRUE, rest |-> <<>>, vals |-> pp]
  /\ \A i \in 0..Len(w) - 1 : ~Decode(SubSeq(w, 1, i)).ok
  /\ ~Decode(Append(w, 0)).ok

LEMMA ReadsBack ==
  ASSUME NEW Cell, Nat \subseteq Cell, NEW pp \in PlainProofs(Cell)
  PROVE  ReadBack(Encode(pp), pp)
<1>1. PICK w, l : w = Encode(pp) /\ w \in Seq(Cell) /\ l = Len(w) /\ l \in Nat
  BY EncodeOnWire, MerkleAssumption
<1>2. w \o <<>> = w /\ <<>> \in Seq(Cell)
  BY <1>1
<1>3. ChunkLen \in Nat
  BY MerkleAssumption
<1>4. ASSUME NEW c \in 0..l
      PROVE  Decode(SubSeq(w, 1, c)) = IF c = l THEN [ok |-> TRUE, rest |-> <<>>, vals |-> pp] ELSE Bad
  <2>1. PICK x : x = <<>> /\ x \in Seq(Cell) /\ Encode(pp) \o x = w
    BY <1>1, <1>2
  <2>2. c \in 0..Len(Encode(pp) \o x)
    BY <1>1, <2>1
  <2>3. Decode(SubSeq(Encode(pp) \o x, 1, c)) =
          IF c = Len(Encode(pp)) THEN [ok |-> TRUE, rest |-> <<>>, vals |-> pp] ELSE Bad
    BY <1>3, <2>1, <2>2, DecodeInverts
  <2>4. QED
    BY <1>1, <2>1, <2>3
<1>5. SubSeq(w, 1, l) = w
  BY <1>1
<1>6. Decode(w) = [ok |-> TRUE, rest |-> <<>>, vals |-> pp]
  <2>1. l \in 0..l
    BY <1>1
  <2>2. QED
    BY <1>4, <1>5, <2>1
<1>7. ASSUME NEW i \in 0..l - 1 PROVE ~Decode(SubSeq(w, 1, i)).ok
  <2>1. i \in 0..l /\ i # l
    BY <1>1
  <2>2. Decode(SubSeq(w, 1, i)) = Bad
    BY <1>4, <2>1
  <2>3. QED
    BY <2>2 DEF Bad
<1>8. ~Decode(Append(w, 0)).ok
  <2>1. PICK x : x = <<0>> /\ x \in Seq(Cell) /\ Append(w, 0) = w \o x /\ Len(x) = 1
    <3>1. 0 \in Cell
      OBVIOUS
    <3>2. <<0>> \in Seq(Cell)
      BY <3>1
    <3>3. Append(w, 0) = w \o <<0>>
      BY <1>1, <3>1
    <3>4. PICK x : x = <<0>>
      OBVIOUS
    <3>5. x \in Seq(Cell) /\ Append(w, 0) = w \o x /\ Len(x) = 1
      BY <3>2, <3>3, <3>4
    <3>6. QED
      BY <3>4, <3>5
  <2>2. PICK long, n : long = w \o x /\ n = l + 1
    OBVIOUS
  <2>3. /\ long = Encode(pp) \o x /\ long = Append(w, 0) /\ n = l + 1 /\ n \in Nat
        /\ Len(long) = n /\ long \in Seq(Cell)
    BY <1>1, <2>1, <2>2, ConcatProperties
  <2>4. n \in 0..Len(Encode(pp) \o x)
    BY <1>1, <2>3
  <2>5. Decode(SubSeq(Encode(pp) \o x, 1, n)) =
          IF n = Len(Encode(pp)) THEN [ok |-> TRUE, rest |-> <<>>, vals |-> pp] ELSE Bad
    BY <1>3, <2>1, <2>4, DecodeInverts
  <2>6. n # Len(Encode(pp))
    BY <1>1, <2>3
  <2>7. SubSeq(long, 1, n) = long
    BY <2>3
  <2>8. Decode(long) = Bad
    BY <2>3, <2>5, <2>6, <2>7
  <2>9. QED
    BY <2>3, <2>8 DEF Bad
<1>9. QED
  BY <1>1, <1>6, <1>7, <1>8 DEF ReadBack

\* The wire form of a share reads back as the proof that was built.
LEMMA ShareReadsBack ==
  ASSUME AssemblyInv, phase = "proved"
  PROVE  ReadBack(wire, build_plain_proof)
<1>1. ConfigInv /\ MatricesInv /\ TreesInv /\ FoundInv /\ wire = Encode(build_plain_proof)
  BY DEF AssemblyInv, WireInv
<1>2. PICK Cell : Nat \subseteq Cell /\ build_plain_proof \in PlainProofs(Cell)
  BY <1>1, ProofFits
<1>3. ReadBack(Encode(build_plain_proof), build_plain_proof)
  BY <1>2, ReadsBack
<1>4. QED
  BY <1>1, <1>3

\* What the miner puts on the wire reads back as the proof it built, whatever
\* the pool announced, and no prefix of it nor an extension by a byte is taken
\* for a proof.
THEOREM WireAlwaysUnambiguous == Spec => []WireUnambiguous
<1>1. AssemblyInv => WireUnambiguous
  BY ShareReadsBack DEF WireUnambiguous, ReadBack
<1>2. QED
  BY <1>1, AssemblyHolds, PTL

-----------------------------------------------------------------------------
\* w is p entries of s and n of t behind them.
Joined(S, s, t, p, n, w) ==
  /\ w \in Seq(S) /\ Len(w) = p + n
  /\ \A i \in 1..p : w[i] = s[i]
  /\ \A i \in 1..n : w[p + i] = t[i]

LEMMA TwoParts ==
  ASSUME NEW S, NEW s \in Seq(S), NEW t \in Seq(S)
  PROVE  Joined(S, s, t, Len(s), Len(t), s \o t)
<1>0. PICK p \in Nat, n \in Nat : p = Len(s) /\ n = Len(t)
  OBVIOUS
<1>1. PICK w : w = s \o t
  OBVIOUS
<1>2. /\ w \in Seq(S) /\ Len(w) = p + n
      /\ \A i \in 1..p + n : w[i] = IF i <= p THEN s[i] ELSE t[i - p]
  BY <1>0, <1>1, ConcatProperties
<1>3. ASSUME NEW i \in 1..p PROVE w[i] = s[i]
  <2>1. i \in 1..p + n /\ i <= p
    OBVIOUS
  <2>2. QED
    BY <1>2, <2>1
<1>4. ASSUME NEW i \in 1..n PROVE w[p + i] = t[i]
  <2>1. PICK j : j = p + i /\ j \in 1..p + n /\ ~(j <= p) /\ j - p = i
    OBVIOUS
  <2>2. w[j] = t[i]
    BY <1>2, <2>1
  <2>3. QED
    BY <2>1, <2>2
<1>5. QED
  BY <1>0, <1>1, <1>2, <1>3, <1>4 DEF Joined

-----------------------------------------------------------------------------
(***************************************************************************)
(* The replay of a proof: a node, a level and the tree, from the leaves    *)
(* and the siblings that are left.                                         *)
(***************************************************************************)

\* The values the nodes D give to the level above.
Reach(next, D) == [k \in {i \div 2 : i \in D} |-> next[k + 1]]

\* The replay above the nodes D, with what is behind q siblings left.
Left(next, D, whole, q) ==
  [cur |-> Reach(next, D), sibs |-> SubSeq(whole, q + 1, Len(whole)), short |-> FALSE]

\* Nodes of a level, and those of them whose neighbour the proof must bring.
NodesOf(C, prev)  == [x \in C |-> prev[x + 1]]
Needing(C, len)   == {i \in C : Sibling(i) \notin C /\ Sibling(i) < len}

\* Its own entry: a new one, or the one its left neighbour has made.
Entered(next, D, i) ==
  LET k == i \div 2
  IN /\ Put(Reach(next, D), k, next[k + 1]) = Reach(next, D \cup {i})
     /\ (\E j \in D : j \div 2 = k) => Reach(next, D) = Reach(next, D \cup {i})

LEMMA PutReach ==
  ASSUME NEW next, NEW D, NEW i
  PROVE  Entered(next, D, i)
<1>0. PICK k : k = i \div 2
  OBVIOUS
<1>1. PICK E, F : E = {j \div 2 : j \in D} /\ F = {j \div 2 : j \in D \cup {i}}
  OBVIOUS
<1>2. F = {k} \cup E
  BY <1>0, <1>1
<1>3. Reach(next, D) = [x \in E |-> next[x + 1]] /\ Reach(next, D \cup {i}) = [x \in F |-> next[x + 1]]
  BY <1>1 DEF Reach
<1>4. Put(Reach(next, D), k, next[k + 1]) = Reach(next, D \cup {i})
  BY <1>2, <1>3 DEF Put
<1>5. ASSUME NEW j \in D, j \div 2 = k PROVE Reach(next, D) = Reach(next, D \cup {i})
  <2>1. F = E
    BY <1>1, <1>2, <1>5
  <2>2. QED
    BY <1>3, <2>1
<1>6. QED
  BY <1>0, <1>4, <1>5 DEF Entered

\* What is left of the siblings, if there is one: the first, and the others.
LEMMA OneSibling ==
  ASSUME NEW V, NEW whole \in Seq(V), NEW q \in Nat, q < Len(whole),
         NEW left, left = SubSeq(whole, q + 1, Len(whole))
  PROVE  left # <<>> /\ Head(left) = whole[q + 1] /\ Tail(left) = SubSeq(whole, q + 2, Len(whole))
<1>1. PICK n \in Nat : n = Len(whole) /\ q + 1 \in 1..n /\ n - q \in Nat \ {0}
  OBVIOUS
<1>2. left \in Seq(V) /\ Len(left) = n - q /\ \A x \in 1..n - q : left[x] = whole[q + x]
  BY <1>1, Rest
<1>3. left # <<>>
  BY <1>1, <1>2, EmptySeq
<1>4. Head(left) = left[1] /\ Tail(left) \in Seq(V) /\ Len(Tail(left)) = Len(left) - 1
      /\ \A x \in 1..Len(Tail(left)) : Tail(left)[x] = left[x + 1]
  BY <1>2, <1>3
<1>5. Head(left) = whole[q + 1]
  BY <1>1, <1>2, <1>4
<1>6. PICK m, rest, t : m = q + 1 /\ rest = SubSeq(whole, m + 1, n) /\ t = Tail(left)
  OBVIOUS
<1>7. m \in 0..n /\ m \in Nat /\ n - m \in Nat /\ m + 1 = q + 2
  BY <1>1, <1>6
<1>8. rest \in Seq(V) /\ Len(rest) = n - m /\ \A x \in 1..n - m : rest[x] = whole[m + x]
  BY <1>1, <1>6, <1>7, Rest
<1>9. Len(t) = n - m
  BY <1>1, <1>2, <1>4, <1>6
<1>10. ASSUME NEW x \in 1..n - m PROVE t[x] = rest[x]
  <2>1. PICK y : y = x + 1 /\ y \in 1..n - q /\ q + y = m + x
    <3>1. n \in Nat /\ q \in Nat /\ m \in Nat /\ m = q + 1 /\ x \in Nat /\ 1 <= x /\ x <= n - m
      BY <1>1, <1>6, <1>7
    <3>2. x + 1 \in 1..n - q /\ q + (x + 1) = m + x
      BY <3>1
    <3>3. QED
      BY <3>2
  <2>2. t[x] = left[y]
    BY <1>4, <1>6, <1>9, <2>1
  <2>3. left[y] = whole[m + x]
    BY <1>2, <2>1
  <2>4. QED
    BY <1>8, <2>2, <2>3
<1>11. t = rest
  BY <1>4, <1>6, <1>8, <1>9, <1>10, SeqEqual
<1>12. QED
  BY <1>1, <1>3, <1>5, <1>6, <1>7, <1>11

\* A node and what is left when it is its turn, and after it.
Ready(prev, len, C, D, whole, q, i, t) ==
  /\ len \in Nat /\ len = Len(prev) /\ C \subseteq 0..len - 1 /\ i \in C /\ D = LowerPart(C, i)
  /\ t = IF i \in Needing(C, len) THEN q + 1 ELSE q
  /\ i \in Needing(C, len) => q < Len(whole) /\ whole[q + 1] = prev[Sibling(i) + 1]

Taken(prev, key, next, len, C, D, whole, q, i, t) ==
  ReplayNode(NodesOf(C, prev), len, key, Left(next, D, whole, q), i) = Left(next, D \cup {i}, whole, t)

LEMMA Parity ==
  ASSUME NEW i \in Nat
  PROVE  \E k \in Nat, r \in 0..1 : k = i \div 2 /\ r = i % 2 /\ i = 2 * k + r
<1>1. i \div 2 \in Nat /\ i % 2 \in 0..1 /\ i = 2 * (i \div 2) + (i % 2)
  OBVIOUS
<1>2. QED
  BY <1>1

LEMMA OddSibling ==
  ASSUME NEW i, i % 2 = 1
  PROVE  Sibling(i) = i - 1
  BY DEF Sibling

\* One node more is replayed: its value above is the tree's, and a sibling is
\* used up when its neighbour is not among the nodes.
LEMMA OneNode ==
  ASSUME NEW prev, NEW key, NEW next, Paired(prev, key, next), NEW len, NEW C, NEW D,
         NEW V, NEW whole \in Seq(V), NEW q \in Nat, NEW i, NEW t,
         Ready(prev, len, C, D, whole, q, i, t)
  PROVE  Taken(prev, key, next, len, C, D, whole, q, i, t)
<1> len \in Nat /\ len = Len(prev) /\ C \subseteq 0..len - 1 /\ i \in C /\ D = LowerPart(C, i)
  BY DEF Ready
<1> t = IF i \in Needing(C, len) THEN q + 1 ELSE q
  BY DEF Ready
<1> i \in Needing(C, len) => q < Len(whole) /\ whole[q + 1] = prev[Sibling(i) + 1]
  BY DEF Ready
<1> SUFFICES ReplayNode(NodesOf(C, prev), len, key, Left(next, D, whole, q), i)
               = Left(next, D \cup {i}, whole, t)
  BY DEF Taken
<1>1. PICK k \in Nat, r \in 0..1 : k = i \div 2 /\ r = i % 2 /\ i = 2 * k + r
  <2>1. i \in Nat
    OBVIOUS
  <2>2. QED
    BY <2>1, Parity
<1>2. i \in 0..len - 1 /\ \A x \in C : x \in 0..len - 1
  OBVIOUS
<1>3. PICK cur : cur = NodesOf(C, prev)
  OBVIOUS
<1>4. DOMAIN cur = C /\ \A x \in C : cur[x] = prev[x + 1]
  BY <1>3 DEF NodesOf
<1>5. PICK v : v = next[k + 1]
  OBVIOUS
<1>6. v = IF 2 * k + 2 <= len THEN parent_cv(prev[2 * k + 1], prev[2 * k + 2], key, len = 2)
                              ELSE prev[len]
  <2>1. PICK m : m = CeilDiv(len, 2) /\ m \in Nat /\ \A c \in Nat : c < m <=> c * 2 < len
    <3>1. 2 \in Nat \ {0}
      OBVIOUS
    <3>2. QED
      BY <3>1, CeilIs
  <2>2. k < m
    BY <1>1, <1>2, <2>1
  <2>3. PICK x : x = k + 1 /\ x \in 1..m /\ 2 * x = 2 * k + 2 /\ 2 * x - 1 = 2 * k + 1
    <3>1. k \in Nat /\ m \in Nat /\ k < m
      BY <1>1, <2>1, <2>2
    <3>2. k + 1 \in 1..m /\ 2 * (k + 1) = 2 * k + 2 /\ 2 * (k + 1) - 1 = 2 * k + 1
      BY <3>1
    <3>3. QED
      BY <3>2
  <2>4. next[x] = IF 2 * x <= len THEN parent_cv(prev[2 * x - 1], prev[2 * x], key, len = 2)
                                  ELSE prev[len]
    BY <2>1, <2>3 DEF Paired
  <2>5. QED
    BY <1>5, <2>3, <2>4
<1>7. PICK a, sibs, reach :
        /\ a = [cur |-> reach, sibs |-> sibs, short |-> FALSE]
        /\ reach = Reach(next, D) /\ sibs = SubSeq(whole, q + 1, Len(whole))
        /\ a = Left(next, D, whole, q)
  BY DEF Left
<1>8. Entered(next, D, i)
  BY PutReach
<1>9. PICK w : w = Put(reach, k, v)
  OBVIOUS
<1>10. w = Reach(next, D \cup {i})
  BY <1>1, <1>5, <1>7, <1>8, <1>9 DEF Entered
<1>11. a.cur = reach /\ a.sibs = sibs /\ a.short = FALSE
  BY <1>7
<1>12. CASE i \notin Needing(C, len)
  <2>1. t = q
    BY <1>12
  <2>2. Left(next, D \cup {i}, whole, t) = [cur |-> w, sibs |-> sibs, short |-> FALSE]
    BY <1>7, <1>10, <2>1 DEF Left
  <2>3. Sibling(i) \in C \/ ~(Sibling(i) < len)
    BY <1>12 DEF Needing
  <2>4. CASE r = 1
    <3>1. i - 1 \in C
      <4>1. Sibling(i) = i - 1
        BY <1>1, <2>4, OddSibling
      <4>2. i - 1 < len
        BY <1>2
      <4>3. QED
        BY <2>3, <4>1, <4>2
    <3>2. ReplayNode(cur, len, key, a, i) = a
      BY <1>1, <1>3, <1>4, <2>4, <3>1 DEF ReplayNode
    <3>3. i - 1 \in D /\ (i - 1) \div 2 = k
      <4>1. i - 1 < i /\ i - 1 = 2 * k + 0
        BY <1>1, <1>2, <2>4
      <4>2. (i - 1) \div 2 = k
        BY <1>1, <4>1
      <4>3. QED
        BY <3>1, <4>1, <4>2 DEF LowerPart
    <3>4. reach = Reach(next, D \cup {i})
      <4>1. PICK j : j = i - 1 /\ j \in D /\ j \div 2 = k
        BY <3>3
      <4>2. \E x \in D : x \div 2 = k
        BY <4>1
      <4>3. QED
        BY <1>1, <1>7, <1>8, <4>2 DEF Entered
    <3>5. QED
      BY <1>3, <1>7, <1>10, <2>2, <3>2, <3>4
  <2>5. CASE r = 0 /\ i + 1 \in C
    <3>1. i + 1 \in 0..len - 1
      BY <1>2, <2>5
    <3>2. v = parent_cv(cur[i], cur[i + 1], key, len = 2)
      <4>1. 2 * k + 2 <= len /\ 2 * k + 1 = i + 1 /\ 2 * k + 2 = i + 2 /\ (i + 1) + 1 = i + 2
        BY <1>1, <1>2, <2>5, <3>1
      <4>2. v = parent_cv(prev[i + 1], prev[i + 2], key, len = 2)
        BY <1>6, <4>1
      <4>3. cur[i] = prev[i + 1] /\ cur[i + 1] = prev[i + 2]
        BY <1>4, <2>5, <4>1
      <4>4. QED
        BY <4>2, <4>3
    <3>3. ReplayNode(cur, len, key, a, i) = [cur |-> w, sibs |-> sibs, short |-> FALSE]
      <4>1. i % 2 = 0 /\ i % 2 # 1 /\ i + 1 \in DOMAIN cur /\ i \div 2 = k
        BY <1>1, <1>4, <2>5
      <4>2. ReplayNode(cur, len, key, a, i)
              = [cur |-> Put(a.cur, i \div 2, parent_cv(cur[i], cur[i + 1], key, len = 2)),
                 sibs |-> a.sibs, short |-> a.short]
        BY <4>1 DEF ReplayNode
      <4>3. QED
        BY <4>1, <4>2, <3>2, <1>9, <1>11
    <3>4. QED
      BY <1>3, <1>7, <2>2, <3>3
  <2>6. CASE r = 0 /\ i + 1 \notin C
    <3>1. i + 1 >= len
      <4>1. Sibling(i) = i + 1
        BY <1>1, <2>6 DEF Sibling
      <4>2. QED
        BY <1>2, <2>3, <2>6, <4>1
    <3>2. v = cur[i]
      <4>1. ~(2 * k + 2 <= len) /\ len = i + 1
        BY <1>1, <1>2, <2>6, <3>1
      <4>2. QED
        BY <1>4, <1>6, <4>1
    <3>3. ReplayNode(cur, len, key, a, i) = [cur |-> w, sibs |-> sibs, short |-> FALSE]
      <4>1. i % 2 = 0 /\ i % 2 # 1 /\ i + 1 \notin DOMAIN cur /\ i \div 2 = k
        BY <1>1, <1>4, <2>6
      <4>2. ReplayNode(cur, len, key, a, i)
              = [cur |-> Put(a.cur, i \div 2, cur[i]), sibs |-> a.sibs, short |-> a.short]
        BY <4>1, <3>1 DEF ReplayNode
      <4>3. QED
        BY <4>1, <4>2, <3>2, <1>9, <1>11
    <3>4. QED
      BY <1>3, <1>7, <2>2, <3>3
  <2>7. QED
    BY <1>1, <2>4, <2>5, <2>6
<1>13. CASE i \in Needing(C, len)
  <2>1. t = q + 1 /\ Sibling(i) \notin C /\ Sibling(i) < len
    BY <1>13 DEF Needing
  <2>2. /\ sibs # <<>> /\ Head(sibs) = prev[Sibling(i) + 1]
        /\ Tail(sibs) = SubSeq(whole, q + 2, Len(whole))
    <3>1. q < Len(whole) /\ whole[q + 1] = prev[Sibling(i) + 1]
      BY <1>13
    <3>2. QED
      BY <1>7, <3>1, OneSibling
  <2>3. t + 1 = q + 2
    BY <2>1
  <2>4. Left(next, D \cup {i}, whole, t)
          = [cur |-> w, sibs |-> Tail(sibs), short |-> FALSE]
    BY <1>10, <2>2, <2>3 DEF Left
  <2>5. CASE r = 1
    <3>1. Sibling(i) = i - 1
      BY <1>1, <2>5 DEF Sibling
    <3>2. v = parent_cv(Head(sibs), cur[i], key, len = 2)
      <4>1. 2 * k + 2 <= len /\ 2 * k + 2 = i + 1 /\ 2 * k + 1 = Sibling(i) + 1
        BY <1>1, <1>2, <2>5, <3>1
      <4>2. cur[i] = prev[i + 1]
        BY <1>4
      <4>3. QED
        BY <1>6, <2>2, <4>1, <4>2
    <3>3. ReplayNode(cur, len, key, a, i) = [cur |-> w, sibs |-> Tail(sibs), short |-> FALSE]
      <4>1. r # 0 /\ i - 1 \notin DOMAIN cur /\ a.sibs = sibs
        BY <1>3, <1>4, <1>7, <2>1, <2>5, <3>1
      <4>2. QED
        BY <1>1, <2>2, <2>5, <3>2, <4>1, <1>9, <1>11 DEF ReplayNode
    <3>4. QED
      BY <1>3, <1>7, <2>4, <3>3
  <2>6. CASE r = 0
    <3>1. Sibling(i) = i + 1
      BY <1>1, <2>6 DEF Sibling
    <3>2. v = parent_cv(cur[i], Head(sibs), key, len = 2)
      <4>1. 2 * k + 2 <= len /\ 2 * k + 1 = i + 1 /\ 2 * k + 2 = Sibling(i) + 1
        BY <1>1, <1>2, <2>1, <2>6, <3>1
      <4>2. cur[i] = prev[i + 1]
        BY <1>4
      <4>3. QED
        BY <1>6, <2>2, <4>1, <4>2
    <3>3. ReplayNode(cur, len, key, a, i) = [cur |-> w, sibs |-> Tail(sibs), short |-> FALSE]
      <4>1. r # 1 /\ i + 1 \notin DOMAIN cur /\ a.sibs = sibs /\ ~(i + 1 >= len)
        BY <1>2, <1>3, <1>4, <1>7, <2>1, <2>6, <3>1
      <4>2. QED
        BY <1>1, <2>2, <2>6, <3>2, <4>1, <1>9, <1>11 DEF ReplayNode
    <3>4. QED
      BY <1>3, <1>7, <2>4, <3>3
  <2>7. QED
    BY <1>1, <2>5, <2>6
<1>14. QED
  BY <1>12, <1>13

\* A step of one of the two folds of the replay: a node of the level c, or a
\* level of the tree over n leaves.
FoldStep(fold, c, n, key, a, i) ==
  IF fold = "nodes" THEN ReplayNode(c, n, key, a, i)
  ELSE IF a.short THEN a ELSE ReplayLevel(a, CeilDiv(n, Pow2[i - 1]), key)

\* The function a fold over s is defined by.
Folding(fold, c, n, key, base, s, D, it) ==
  it = [T \in SUBSET D |->
          IF T = {} THEN base
          ELSE FoldStep(fold, c, n, key, it[T \ {Max(T)}], s[Max(T)])]

Foldable(fold, c, n, key, base, s, D) == \E it : Folding(fold, c, n, key, base, s, D, it)

\* The greatest element of a set is Max.
LEMMA MaxIs ==
  ASSUME NEW T, T \subseteq Nat, NEW x \in T, \A y \in T : y <= x
  PROVE  Max(T) = x
<1>1. \A y \in T : x >= y
  OBVIOUS
<1>2. ASSUME NEW z \in T, \A y \in T : z >= y PROVE z = x
  <2>1. z \in Nat /\ x \in Nat /\ z >= x /\ z <= x
    BY <1>2
  <2>2. QED
    BY <2>1
<1>3. QED
  BY <1>1, <1>2 DEF Max

\* One index more.
LEMMA FoldableUp ==
  ASSUME NEW fold, NEW c, NEW n, NEW key, NEW base, NEW s, NEW m \in Nat,
         Foldable(fold, c, n, key, base, s, 1..m)
  PROVE  Foldable(fold, c, n, key, base, s, 1..m + 1)
<1>1. PICK it : Folding(fold, c, n, key, base, s, 1..m, it)
  BY DEF Foldable
<1>2. PICK k : k = m + 1
  OBVIOUS
<1>3. \A T \in SUBSET (1..m) :
        it[T] = IF T = {} THEN base ELSE FoldStep(fold, c, n, key, it[T \ {Max(T)}], s[Max(T)])
  BY <1>1 DEF Folding
<1> DEFINE F == [T \in SUBSET (1..k) |->
                   IF k \in T THEN FoldStep(fold, c, n, key, it[T \ {k}], s[k]) ELSE it[T]]
<1>4. PICK up : up = F
  OBVIOUS
<1>5. \A T \in SUBSET (1..k) :
        up[T] = IF k \in T THEN FoldStep(fold, c, n, key, it[T \ {k}], s[k]) ELSE it[T]
  BY <1>4
<1>6. 1..k = (1..m) \cup {k} /\ k \notin 1..m /\ k \in Nat
  BY <1>2
<1>7. ASSUME NEW T \in SUBSET (1..k)
      PROVE  up[T] = IF T = {} THEN base
                     ELSE FoldStep(fold, c, n, key, up[T \ {Max(T)}], s[Max(T)])
  <2>1. CASE k \in T
    <3>1. Max(T) = k
      <4>1. T \subseteq Nat /\ \A y \in T : y <= k
        BY <1>6
      <4>2. QED
        BY <2>1, <4>1, MaxIs
    <3>2. T \ {k} \in SUBSET (1..m) /\ T \ {k} \in SUBSET (1..k) /\ k \notin T \ {k}
      BY <1>6
    <3>3. up[T \ {k}] = it[T \ {k}]
      BY <1>5, <3>2
    <3>4. QED
      BY <1>5, <2>1, <3>1, <3>3
  <2>2. CASE k \notin T
    <3>1. T \in SUBSET (1..m) /\ up[T] = it[T]
      BY <1>5, <1>6, <2>2
    <3>2. T \ {Max(T)} \in SUBSET (1..k) /\ k \notin T \ {Max(T)}
      BY <2>2
    <3>3. up[T \ {Max(T)}] = it[T \ {Max(T)}]
      BY <1>5, <3>2
    <3>4. QED
      BY <1>3, <3>1, <3>3
  <2>3. QED
    BY <2>1, <2>2
<1>8. up = [T \in SUBSET (1..k) |->
              IF T = {} THEN base
              ELSE FoldStep(fold, c, n, key, up[T \ {Max(T)}], s[Max(T)])]
  BY <1>4, <1>7
<1>9. QED
  BY <1>2, <1>8 DEF Foldable, Folding

\* Over every finite range of indices.
LEMMA FoldableAlways ==
  ASSUME NEW fold, NEW c, NEW n, NEW key, NEW base, NEW s, NEW m \in Nat
  PROVE  Foldable(fold, c, n, key, base, s, 1..m)
<1> DEFINE B == {j \in Nat : ~Foldable(fold, c, n, key, base, s, 1..j)}
<1>1. Foldable(fold, c, n, key, base, s, 1..0)
  <2>1. PICK it : it = [T \in SUBSET (1..0) |-> base]
    OBVIOUS
  <2>2. \A T \in SUBSET (1..0) : T = {}
    OBVIOUS
  <2>3. it = [T \in SUBSET (1..0) |->
                IF T = {} THEN base
                ELSE FoldStep(fold, c, n, key, it[T \ {Max(T)}], s[Max(T)])]
    BY <2>1, <2>2
  <2>4. QED
    BY <2>3 DEF Foldable, Folding
<1>2. \A j : j \in B <=> j \in Nat /\ ~Foldable(fold, c, n, key, base, s, 1..j)
  OBVIOUS
<1> HIDE DEF B
<1>3. ASSUME B # {} PROVE FALSE
  <2>1. B \subseteq Nat
    BY <1>2
  <2>2. PICK j \in B : \A y \in B : j <= y
    BY <1>3, <2>1, LeastOf
  <2>3. j # 0
    BY <1>1, <1>2
  <2>4. PICK i : i = j - 1 /\ i \in Nat /\ j = i + 1 /\ i < j
    <3>1. j \in Nat \ {0}
      BY <1>2, <2>3
    <3>2. j - 1 \in Nat /\ j = (j - 1) + 1 /\ j - 1 < j
      BY <3>1
    <3>3. QED
      BY <3>2
  <2>5. i \notin B
    <3>1. j \in Nat /\ i \in Nat /\ i < j
      BY <2>1, <2>4
    <3>2. QED
      BY <2>2, <3>1
  <2>6. Foldable(fold, c, n, key, base, s, 1..i)
    BY <1>2, <2>4, <2>5
  <2>7. Foldable(fold, c, n, key, base, s, 1..j)
    BY <2>4, <2>6, FoldableUp
  <2>8. QED
    BY <1>2, <2>7
<1>4. QED
  BY <1>2, <1>3

\* The accumulators of a fold over s, one after the other.
Accumulated(fold, c, n, key, base, s, st) ==
  /\ st[0] = base
  /\ \A j \in Nat : j < Len(s) => st[j + 1] = FoldStep(fold, c, n, key, st[j], s[j + 1])

\* The fold is where they end.
LEMMA FoldEnds ==
  ASSUME NEW fold, NEW c, NEW n, NEW key, NEW base, NEW s, IsList(s), NEW st,
         Accumulated(fold, c, n, key, base, s, st),
         NEW it, Folding(fold, c, n, key, base, s, DOMAIN s, it)
  PROVE  it[DOMAIN s] = st[Len(s)]
<1>1. PICK m \in Nat : m = Len(s) /\ DOMAIN s = 1..m
  BY DEF IsList
<1>2. st[0] = base /\ \A j \in Nat : j < m => st[j + 1] = FoldStep(fold, c, n, key, st[j], s[j + 1])
  BY <1>1 DEF Accumulated
<1>3. \A T \in SUBSET (1..m) :
        it[T] = IF T = {} THEN base ELSE FoldStep(fold, c, n, key, it[T \ {Max(T)}], s[Max(T)])
  BY <1>1 DEF Folding
<1> DEFINE B == {j \in 0..m : it[1..j] # st[j]}
<1>4. \A j : j \in B <=> j \in 0..m /\ it[1..j] # st[j]
  OBVIOUS
<1> HIDE DEF B
<1>5. ASSUME B # {} PROVE FALSE
  <2>1. B \subseteq Nat
    BY <1>4
  <2>2. PICK j \in B : \A y \in B : j <= y
    BY <1>5, <2>1, LeastOf
  <2>3. j # 0
    <3>1. 1..0 = {} /\ {} \in SUBSET (1..m)
      OBVIOUS
    <3>2. it[{}] = base
      BY <1>3, <3>1
    <3>3. QED
      BY <1>2, <1>4, <2>2, <3>1, <3>2
  <2>4. PICK i : i = j - 1 /\ i \in Nat /\ j = i + 1 /\ i < m /\ i < j
    <3>1. j \in Nat \ {0} /\ j <= m
      BY <1>4, <2>3
    <3>2. j - 1 \in Nat /\ j = (j - 1) + 1 /\ j - 1 < m /\ j - 1 < j
      BY <3>1
    <3>3. QED
      BY <3>2
  <2>5. it[1..i] = st[i]
    <3>1. i \notin B
      <4>1. j \in Nat /\ i \in Nat /\ i < j
        BY <2>1, <2>4
      <4>2. QED
        BY <2>2, <4>1
    <3>2. i \in 0..m
      BY <2>4
    <3>3. QED
      BY <1>4, <3>1, <3>2
  <2>6. Max(1..j) = j /\ (1..j) \ {j} = 1..i /\ 1..j # {} /\ 1..j \in SUBSET (1..m)
    <3>1. j \in Nat /\ i \in Nat /\ j = i + 1 /\ j <= m
      BY <1>4, <2>4
    <3>2. j \in 1..j /\ 1..j \subseteq Nat /\ \A y \in 1..j : y <= j
      BY <3>1
    <3>3. Max(1..j) = j
      BY <3>2, MaxIs
    <3>4. (1..j) \ {j} = 1..i /\ 1..j \in SUBSET (1..m)
      BY <3>1
    <3>5. QED
      BY <3>2, <3>3, <3>4
  <2>7. it[1..j] = FoldStep(fold, c, n, key, it[1..i], s[j])
    BY <1>3, <2>6
  <2>8. st[j] = FoldStep(fold, c, n, key, st[i], s[j])
    BY <1>2, <2>4
  <2>9. QED
    BY <1>4, <2>5, <2>7, <2>8
<1>6. m \in 0..m /\ m \notin B
  BY <1>5
<1>7. QED
  BY <1>1, <1>4, <1>6

\* The folds of ReplayLevel and of Replay.
NodesFold(c, n, key, base, s)  == FoldLeft(LAMBDA a, i : ReplayNode(c, n, key, a, i), base, s)
LevelsFold(n, key, base, s) ==
  FoldLeft(LAMBDA acc, l : IF acc.short THEN acc
             ELSE ReplayLevel(acc, CeilDiv(n, Pow2[l - 1]), key), base, s)

\* The fold over a level.
LEMMA LevelFold ==
  ASSUME NEW c, NEW n, NEW key, NEW base, NEW s, IsList(s), NEW st,
         Accumulated("nodes", c, n, key, base, s, st)
  PROVE  NodesFold(c, n, key, base, s) = st[Len(s)]
<1>1. PICK m \in Nat : m = Len(s) /\ DOMAIN s = 1..m
  BY DEF IsList
<1>2. \E it : Folding("nodes", c, n, key, base, s, DOMAIN s, it)
  BY <1>1, FoldableAlways DEF Foldable
<1>3. PICK it : it = CHOOSE f : Folding("nodes", c, n, key, base, s, DOMAIN s, f)
  OBVIOUS
<1>4. Folding("nodes", c, n, key, base, s, DOMAIN s, it)
  BY <1>2, <1>3
<1>5. it[DOMAIN s] = st[Len(s)]
  BY <1>4, FoldEnds
<1>6. NodesFold(c, n, key, base, s) = it[DOMAIN s]
  BY <1>3 DEF NodesFold, FoldLeft, MapThenFoldSet, Folding, FoldStep
<1>7. QED
  BY <1>5, <1>6

\* The fold over the levels.
LEMMA TreeFold ==
  ASSUME NEW n, NEW key, NEW base, NEW s, IsList(s), NEW st,
         Accumulated("levels", 0, n, key, base, s, st)
  PROVE  LevelsFold(n, key, base, s) = st[Len(s)]
<1>1. PICK m \in Nat : m = Len(s) /\ DOMAIN s = 1..m
  BY DEF IsList
<1>2. \E it : Folding("levels", 0, n, key, base, s, DOMAIN s, it)
  BY <1>1, FoldableAlways DEF Foldable
<1>3. PICK it : it = CHOOSE f : Folding("levels", 0, n, key, base, s, DOMAIN s, f)
  OBVIOUS
<1>4. Folding("levels", 0, n, key, base, s, DOMAIN s, it)
  BY <1>2, <1>3
<1>5. it[DOMAIN s] = st[Len(s)]
  BY <1>4, FoldEnds
<1>6. LevelsFold(n, key, base, s) = it[DOMAIN s]
  BY <1>3 DEF LevelsFold, FoldLeft, MapThenFoldSet, Folding, FoldStep
<1>7. QED
  BY <1>5, <1>6

\* Numbers below another are finitely many.
LEMMA FewBelow ==
  ASSUME NEW n \in Nat, NEW S, S \subseteq 0..n - 1
  PROVE  S \subseteq Nat /\ IsFiniteSet(S)
<1>1. IsFiniteSet(0..n - 1)
  BY FS_Interval
<1>2. IsFiniteSet(S)
  BY <1>1, FS_Subset
<1>3. 0..n - 1 \subseteq Nat
  OBVIOUS
<1>4. QED
  BY <1>2, <1>3

\* The first j elements of a set.
Before(S, j) == {x \in S : Place(S, x) < j}

\* Two elements do not share a place.
LEMMA PlacesApart ==
  ASSUME NEW S, S \subseteq Nat, IsFiniteSet(S), NEW i \in S, NEW j \in S, Place(S, i) = Place(S, j)
  PROVE  i = j
<1>1. Place(S, i) \in Nat /\ Place(S, j) \in Nat
  <2>1. Cardinality(S) \in Nat
    BY FS_CardinalityType
  <2>2. \A x \in S : Place(S, x) \in 0..Cardinality(S) - 1
    BY PlacesRise
  <2>3. QED
    BY <2>1, <2>2
<1>2. \A x, y \in S : x < y => Place(S, x) < Place(S, y)
  BY PlacesRise
<1>3. i < j => Place(S, i) < Place(S, j)
  BY <1>2
<1>4. j < i => Place(S, j) < Place(S, i)
  BY <1>2
<1>5. i \in Nat /\ j \in Nat
  OBVIOUS
<1>6. QED
  BY <1>1, <1>3, <1>4, <1>5

\* An element stands at its place in the order.
LEMMA OrderedAt ==
  ASSUME NEW S, S \subseteq Nat, IsFiniteSet(S), NEW i \in S
  PROVE  Place(S, i) + 1 \in 1..Cardinality(S) /\ Sorted(S)[Place(S, i) + 1] = i
<1>1. PICK s : s = Sorted(S)
  OBVIOUS
<1>2. InOrder(S, s)
  BY <1>1, SortedIs
<1>3. PICK n \in Nat : n = Cardinality(S) /\ Len(s) = n /\ s \in Seq(S)
  BY <1>2 DEF InOrder
<1>4. PICK p : p = Place(S, i)
  OBVIOUS
<1>5. p \in 0..n - 1
  BY <1>3, <1>4, PlacesRise
<1>6. p + 1 \in 1..n /\ (p + 1) - 1 = p
  BY <1>5
<1>7. Place(S, s[p + 1]) = p
  BY <1>2, <1>3, <1>6 DEF InOrder
<1>8. s[p + 1] \in S
  BY <1>3, <1>6
<1>9. s[p + 1] = i
  BY <1>4, <1>7, <1>8, PlacesApart
<1>10. QED
  BY <1>1, <1>3, <1>4, <1>6, <1>9

\* The first elements, one by one.
OneByOne(S) ==
  /\ Before(S, 0) = {} /\ Before(S, Cardinality(S)) = S
  /\ \A i \in S : /\ Before(S, Place(S, i)) = LowerPart(S, i)
                  /\ Before(S, Place(S, i) + 1) = LowerPart(S, i) \cup {i}

LEMMA BeforeIs ==
  ASSUME NEW S, S \subseteq Nat, IsFiniteSet(S)
  PROVE  OneByOne(S)
<1>1. PICK n \in Nat : n = Cardinality(S)
  BY FS_CardinalityType
<1>2. \A x \in S : Place(S, x) \in 0..n - 1
  BY <1>1, PlacesRise
<1>3. \A x \in S : Place(S, x) \in Nat /\ ~(Place(S, x) < 0) /\ Place(S, x) < n
  BY <1>2
<1>4. Before(S, 0) = {} /\ Before(S, n) = S
  BY <1>3 DEF Before
<1>5. ASSUME NEW i \in S, NEW x \in S
      PROVE  /\ Place(S, x) < Place(S, i) <=> x < i
             /\ Place(S, x) < Place(S, i) + 1 <=> x < i \/ x = i
  <2>1. \A a, b \in S : a < b => Place(S, a) < Place(S, b)
    BY PlacesRise
  <2>2. x < i => Place(S, x) < Place(S, i)
    BY <2>1
  <2>3. i < x => Place(S, i) < Place(S, x)
    BY <2>1
  <2>4. PICK a \in Nat, b \in Nat : a = Place(S, x) /\ b = Place(S, i)
    BY <1>3
  <2>5. x \in Nat /\ i \in Nat
    OBVIOUS
  <2>6. x = i => a = b
    BY <2>4
  <2>7. QED
    BY <2>2, <2>3, <2>4, <2>5, <2>6
<1>6. ASSUME NEW i \in S
      PROVE  /\ Before(S, Place(S, i)) = LowerPart(S, i)
             /\ Before(S, Place(S, i) + 1) = LowerPart(S, i) \cup {i}
  BY <1>5, <1>6 DEF Before, LowerPart
<1>7. QED
  BY <1>1, <1>4, <1>6 DEF OneByOne

\* What the siblings behind the first q bring to the nodes C of a level.
Brought(prev, C, whole, q) ==
  LET need == Needing(C, Len(prev))
  IN /\ q + Cardinality(need) <= Len(whole)
     /\ \A j \in 1..Cardinality(need) : whole[q + j] = prev[Sibling(Sorted(need)[j]) + 1]

\* The siblings used up by the first nodes of a level.
Used(C, len, j) == Cardinality(Needing(C, len) \cap Before(C, j))

\* A node that needs a sibling finds its own.
UsedAt(C, len, i, j) ==
  LET need == Needing(C, len)
      u == Used(C, len, j)
  IN /\ u \in Nat
     /\ Used(C, len, j + 1) = IF i \in need THEN u + 1 ELSE u
     /\ i \in need => u + 1 \in 1..Cardinality(need) /\ Sorted(need)[u + 1] = i

LEMMA UsedIs ==
  ASSUME NEW len \in Nat, NEW C, C \subseteq 0..len - 1, NEW i \in C,
         NEW j, j = Place(C, i)
  PROVE  UsedAt(C, len, i, j)
<1>1. PICK need : need = Needing(C, len) /\ need \subseteq C
  BY DEF Needing
<1>2. C \subseteq Nat /\ IsFiniteSet(C) /\ need \subseteq Nat /\ IsFiniteSet(need)
  <2>1. C \subseteq Nat /\ IsFiniteSet(C)
    BY FewBelow
  <2>2. need \subseteq Nat /\ IsFiniteSet(need)
    BY <1>1, <2>1, FS_Subset
  <2>3. QED
    BY <2>1, <2>2
<1>3. Before(C, j) = LowerPart(C, i) /\ Before(C, j + 1) = LowerPart(C, i) \cup {i}
  <2>1. OneByOne(C)
    BY <1>2, BeforeIs
  <2>2. QED
    BY <2>1 DEF OneByOne
<1>4. PICK low : low = need \cap LowerPart(C, i) /\ low = LowerPart(need, i)
  BY <1>1 DEF LowerPart
<1>5. IsFiniteSet(low) /\ Cardinality(low) \in Nat /\ i \notin low
  <2>1. low \subseteq need
    BY <1>4
  <2>2. IsFiniteSet(low)
    BY <1>2, <2>1, FS_Subset
  <2>3. i \notin low
    BY <1>2, <1>4 DEF LowerPart
  <2>4. QED
    BY <2>2, <2>3, FS_CardinalityType
<1>6. Used(C, len, j) = Cardinality(low)
  BY <1>1, <1>3, <1>4 DEF Used
<1>7. Used(C, len, j + 1) = IF i \in need THEN Cardinality(low) + 1 ELSE Cardinality(low)
  <2>1. CASE i \in need
    <3>1. need \cap Before(C, j + 1) = low \cup {i}
      BY <1>3, <1>4, <2>1
    <3>2. Cardinality(low \cup {i}) = Cardinality(low) + 1
      BY <1>5, FS_AddElement
    <3>3. QED
      BY <1>1, <2>1, <3>1, <3>2 DEF Used
  <2>2. CASE i \notin need
    <3>1. need \cap Before(C, j + 1) = low
      BY <1>3, <1>4, <2>2
    <3>2. QED
      BY <1>1, <2>2, <3>1 DEF Used
  <2>3. QED
    BY <2>1, <2>2
<1>8. ASSUME i \in need
      PROVE  Cardinality(low) + 1 \in 1..Cardinality(need) /\ Sorted(need)[Cardinality(low) + 1] = i
  <2>1. Cardinality(low) = Place(need, i)
    BY <1>4 DEF Place
  <2>2. QED
    BY <1>2, <1>8, <2>1, OrderedAt
<1>9. QED
  BY <1>1, <1>5, <1>6, <1>7, <1>8 DEF UsedAt

\* The replay at the nodes C of a level, behind q siblings.
Halfway(prev, C, whole, q) ==
  [cur |-> NodesOf(C, prev), sibs |-> SubSeq(whole, q + 1, Len(whole)), short |-> FALSE]

Parents(C) == {i \div 2 : i \in C}

\* The accumulators of a level.
LEMMA LevelAccumulates ==
  ASSUME NEW prev, NEW key, NEW next, Paired(prev, key, next),
         NEW len \in Nat, len = Len(prev), NEW C, C \subseteq 0..len - 1,
         NEW V, NEW whole \in Seq(V), NEW q \in Nat, Brought(prev, C, whole, q),
         NEW base, base = [cur |-> <<>>, sibs |-> SubSeq(whole, q + 1, Len(whole)), short |-> FALSE],
         NEW st, st = [j \in 0..Cardinality(C) |-> Left(next, Before(C, j), whole, q + Used(C, len, j))]
  PROVE  Accumulated("nodes", NodesOf(C, prev), len, key, base, Sorted(C), st)
<1>1. C \subseteq Nat /\ IsFiniteSet(C)
  BY FewBelow
<1>2. PICK s : s = Sorted(C)
  OBVIOUS
<1>3. InOrder(C, s)
  BY <1>1, <1>2, SortedIs
<1>4. PICK n \in Nat : n = Cardinality(C) /\ Len(s) = n /\ s \in Seq(C)
  BY <1>3 DEF InOrder
<1>5. \A j \in 1..n : Place(C, s[j]) = j - 1
  BY <1>3, <1>4 DEF InOrder
<1>6. \A j \in 0..n : st[j] = Left(next, Before(C, j), whole, q + Used(C, len, j))
  BY <1>4
<1>7. st[0] = base
  <2>1. Before(C, 0) = {}
    <3>1. OneByOne(C)
      BY <1>1, BeforeIs
    <3>2. QED
      BY <3>1 DEF OneByOne
  <2>2. Used(C, len, 0) = 0
    BY <2>1, FS_EmptySet DEF Used
  <2>3. Reach(next, {}) = <<>>
    <3>1. {i \div 2 : i \in {}} = {}
      OBVIOUS
    <3>2. QED
      BY <3>1 DEF Reach
  <2>4. 0 \in 0..n /\ q + 0 = q
    OBVIOUS
  <2>5. st[0] = Left(next, {}, whole, q)
    BY <1>6, <2>1, <2>2, <2>4
  <2>6. QED
    BY <2>3, <2>5 DEF Left
<1>8. ASSUME NEW j \in Nat, j < n
      PROVE  st[j + 1] = FoldStep("nodes", NodesOf(C, prev), len, key, st[j], s[j + 1])
  <2>1. j + 1 \in 1..n /\ j \in 0..n /\ j + 1 \in 0..n /\ (j + 1) - 1 = j
    BY <1>8
  <2>2. PICK i : i = s[j + 1] /\ i \in C
    BY <1>4, <2>1
  <2>3. Place(C, i) = j
    BY <1>5, <2>1, <2>2
  <2>4. Before(C, j) = LowerPart(C, i) /\ Before(C, j + 1) = LowerPart(C, i) \cup {i}
    <3>1. OneByOne(C)
      BY <1>1, BeforeIs
    <3>2. QED
      BY <2>2, <2>3, <3>1 DEF OneByOne
  <2>0. UsedAt(C, len, i, j)
    BY <2>2, <2>3, UsedIs
  <2>5. PICK u \in Nat, v \in Nat : u = Used(C, len, j) /\ v = Used(C, len, j + 1)
    BY <2>0 DEF UsedAt
  <2>6. /\ v = IF i \in Needing(C, len) THEN u + 1 ELSE u
        /\ i \in Needing(C, len) =>
             /\ u + 1 \in 1..Cardinality(Needing(C, len))
             /\ Sorted(Needing(C, len))[u + 1] = i
    BY <2>5, <2>0 DEF UsedAt
  <2>7. PICK p \in Nat : p = q + u
    OBVIOUS
  <2>8. q + v = IF i \in Needing(C, len) THEN p + 1 ELSE p
    BY <2>6, <2>7
  <2>9. i \in Needing(C, len) => p < Len(whole) /\ whole[p + 1] = prev[Sibling(i) + 1]
    <3>1. ASSUME i \in Needing(C, len)
          PROVE  p < Len(whole) /\ whole[p + 1] = prev[Sibling(i) + 1]
      <4>1. PICK need : need = Needing(C, len)
        OBVIOUS
      <4>2. /\ q + Cardinality(need) <= Len(whole)
            /\ \A x \in 1..Cardinality(need) : whole[q + x] = prev[Sibling(Sorted(need)[x]) + 1]
        BY <4>1 DEF Brought
      <4>3. u + 1 \in 1..Cardinality(need) /\ Sorted(need)[u + 1] = i
        BY <2>6, <3>1, <4>1
      <4>4. whole[q + (u + 1)] = prev[Sibling(i) + 1]
        BY <4>2, <4>3
      <4>5. Cardinality(need) \in Nat /\ Len(whole) \in Nat
        <5>1. need \subseteq C
          BY <4>1 DEF Needing
        <5>2. IsFiniteSet(need)
          BY <1>1, <5>1, FS_Subset
        <5>3. QED
          BY <5>2, FS_CardinalityType
      <4>6. q + (u + 1) = p + 1 /\ p < Len(whole)
        BY <2>7, <4>2, <4>3, <4>5
      <4>7. QED
        BY <4>4, <4>6
    <3>2. QED
      BY <3>1
  <2>10. PICK D, t : D = LowerPart(C, i) /\ t = q + v
    OBVIOUS
  <2>11. ReplayNode(NodesOf(C, prev), len, key, Left(next, D, whole, p), i)
           = Left(next, D \cup {i}, whole, t)
    <3>1. Ready(prev, len, C, D, whole, p, i, t)
      BY <2>2, <2>8, <2>9, <2>10 DEF Ready
    <3>2. Taken(prev, key, next, len, C, D, whole, p, i, t)
      BY <2>7, <3>1, OneNode
    <3>3. QED
      BY <3>2 DEF Taken
  <2>12. st[j] = Left(next, D, whole, p) /\ st[j + 1] = Left(next, D \cup {i}, whole, t)
    <3>1. st[j] = Left(next, Before(C, j), whole, q + Used(C, len, j))
      BY <1>6, <2>1
    <3>2. st[j + 1] = Left(next, Before(C, j + 1), whole, q + Used(C, len, j + 1))
      BY <1>6, <2>1
    <3>3. QED
      BY <2>4, <2>5, <2>7, <2>10, <3>1, <3>2
  <2>13. FoldStep("nodes", NodesOf(C, prev), len, key, st[j], i)
           = ReplayNode(NodesOf(C, prev), len, key, st[j], i)
    BY DEF FoldStep
  <2>14. QED
    BY <2>2, <2>11, <2>12, <2>13
<1>9. QED
  BY <1>2, <1>4, <1>7, <1>8 DEF Accumulated

\* What is known of a level that is replayed, and what becomes of it.
Level(prev, key, next, len, C, V, whole, q) ==
  /\ Paired(prev, key, next) /\ len \in Nat /\ len = Len(prev) /\ C \subseteq 0..len - 1
  /\ whole \in Seq(V) /\ q \in Nat /\ Brought(prev, C, whole, q)

LevelDone(prev, key, next, len, C, whole, q) ==
  ReplayLevel(Halfway(prev, C, whole, q), len, key)
    = Halfway(next, Parents(C), whole, q + Cardinality(Needing(C, len)))

\* A level is replayed: the values of the parents are the tree's, and the
\* siblings the level needs are used up.
LEMMA LevelReplayed ==
  ASSUME NEW prev, NEW key, NEW next, NEW len, NEW C, NEW V, NEW whole, NEW q,
         Level(prev, key, next, len, C, V, whole, q)
  PROVE  LevelDone(prev, key, next, len, C, whole, q)
<1> Paired(prev, key, next) /\ len \in Nat /\ len = Len(prev) /\ C \subseteq 0..len - 1
  BY DEF Level
<1> whole \in Seq(V) /\ q \in Nat /\ Brought(prev, C, whole, q)
  BY DEF Level
<1>1. C \subseteq Nat /\ IsFiniteSet(C)
  BY FewBelow
<1>2. PICK n \in Nat : n = Cardinality(C) /\ Len(Sorted(C)) = n /\ Sorted(C) \in Seq(C)
  <2>1. InOrder(C, Sorted(C))
    BY <1>1, SortedIs
  <2>2. QED
    BY <2>1 DEF InOrder
<1>3. PICK st, base, cur :
        /\ st = [j \in 0..Cardinality(C) |-> Left(next, Before(C, j), whole, q + Used(C, len, j))]
        /\ base = [cur |-> <<>>, sibs |-> SubSeq(whole, q + 1, Len(whole)), short |-> FALSE]
        /\ cur = NodesOf(C, prev)
  OBVIOUS
<1>4. Accumulated("nodes", cur, len, key, base, Sorted(C), st)
  BY <1>3, LevelAccumulates
<1>5. NodesFold(cur, len, key, base, Sorted(C)) = st[n]
  <2>1. PICK s : s = Sorted(C) /\ s \in Seq(C) /\ Len(s) = n
    BY <1>2
  <2>2. Accumulated("nodes", cur, len, key, base, s, st)
    BY <1>4, <2>1
  <2>3. NodesFold(cur, len, key, base, s) = st[Len(s)]
    BY <2>1, <2>2, LevelFold DEF IsList
  <2>4. QED
    BY <2>1, <2>3
<1>6. PICK acc : acc = Halfway(prev, C, whole, q)
  OBVIOUS
<1>7. /\ acc.cur = cur /\ DOMAIN cur = C
      /\ base = [cur |-> <<>>, sibs |-> acc.sibs, short |-> acc.short]
  BY <1>3, <1>6 DEF Halfway, NodesOf
<1>8. ReplayLevel(acc, len, key) = st[n]
  <2>1. ReplayLevel(acc, len, key)
          = NodesFold(acc.cur, len, key, [cur |-> <<>>, sibs |-> acc.sibs, short |-> acc.short],
                      Sorted(DOMAIN acc.cur))
    BY DEF ReplayLevel, NodesFold
  <2>2. QED
    BY <1>5, <1>7, <2>1
<1>9. st[n] = Left(next, C, whole, q + Cardinality(Needing(C, len)))
  <2>1. Before(C, n) = C
    <3>1. OneByOne(C)
      BY <1>1, BeforeIs
    <3>2. QED
      BY <1>2, <3>1 DEF OneByOne
  <2>2. Needing(C, len) \cap C = Needing(C, len)
    BY DEF Needing
  <2>3. n \in 0..Cardinality(C)
    BY <1>2
  <2>4. QED
    BY <1>3, <2>1, <2>2, <2>3 DEF Used
<1>10. \A p : Left(next, C, whole, p) = Halfway(next, Parents(C), whole, p)
  BY DEF Left, Halfway, Reach, NodesOf, Parents
<1>11. QED
  BY <1>6, <1>8, <1>9, <1>10 DEF LevelDone

\* One sequence begins another.
Begins(a, b) == Len(a) <= Len(b) /\ \A x \in 1..Len(a) : b[x] = a[x]

\* f puts the sequences one behind the other.
InARow(W, h, seqs, f) ==
  /\ seqs \in [1..h -> Seq(W)] /\ f \in [0..h -> Seq(W)]
  /\ f[0] = <<>> /\ \A i \in 1..h : f[i] = f[i - 1] \o seqs[i]

\* Where they stand then.
InTurn(h, seqs, f) ==
  \A l \in 1..h :
    /\ Len(f[l]) = Len(f[l - 1]) + Len(seqs[l]) /\ Len(f[l]) <= Len(f[h])
    /\ \A j \in 1..Len(seqs[l]) : f[h][Len(f[l - 1]) + j] = seqs[l][j]

LEMMA TurnsTaken ==
  ASSUME NEW W, NEW h \in Nat, NEW seqs, NEW f, InARow(W, h, seqs, f)
  PROVE  InTurn(h, seqs, f)
<1>1. /\ \A i \in 1..h : seqs[i] \in Seq(W)
      /\ \A i \in 0..h : f[i] \in Seq(W)
      /\ \A i \in 1..h : f[i] = f[i - 1] \o seqs[i]
  BY DEF InARow
<1>2. ASSUME NEW l \in 1..h
      PROVE  /\ Begins(f[l - 1], f[l]) /\ Len(f[l]) = Len(f[l - 1]) + Len(seqs[l])
             /\ \A j \in 1..Len(seqs[l]) : f[l][Len(f[l - 1]) + j] = seqs[l][j]
             /\ \A j \in 1..Len(seqs[l]) : Len(f[l - 1]) + j \in 1..Len(f[l])
  <2>1. PICK a \in Seq(W), b \in Seq(W) : a = f[l - 1] /\ b = seqs[l]
    <3>1. l - 1 \in 0..h
      OBVIOUS
    <3>2. QED
      BY <1>1, <3>1
  <2>2. f[l] = a \o b
    BY <1>1, <2>1
  <2>3. /\ Len(a) \in Nat /\ Len(b) \in Nat /\ Len(f[l]) = Len(a) + Len(b)
        /\ \A x \in 1..Len(a) : f[l][x] = a[x]
        /\ \A x \in 1..Len(b) : f[l][Len(a) + x] = b[x]
    <3>1. PICK p \in Nat, n \in Nat : p = Len(a) /\ n = Len(b)
      OBVIOUS
    <3>2. Joined(W, a, b, Len(a), Len(b), a \o b)
      BY TwoParts
    <3>3. Joined(W, a, b, p, n, f[l])
      BY <2>2, <3>1, <3>2
    <3>4. QED
      BY <3>1, <3>3 DEF Joined
  <2>4. Begins(a, f[l])
    BY <2>3 DEF Begins
  <2>5. \A x \in 1..Len(b) : Len(a) + x \in 1..Len(f[l])
    BY <2>3
  <2>6. QED
    BY <2>1, <2>3, <2>4, <2>5
<1> DEFINE T == {m \in 0..h : \A l \in 0..m : Begins(f[l], f[m])}
<1>3. \A m : m \in T <=> m \in 0..h /\ \A l \in 0..m : Begins(f[l], f[m])
  OBVIOUS
<1> HIDE DEF T
<1>4. \A i \in 0..h : Begins(f[i], f[i])
  <2>1. ASSUME NEW i \in 0..h PROVE Begins(f[i], f[i])
    <3>1. Len(f[i]) \in Nat
      BY <1>1
    <3>2. QED
      BY <3>1 DEF Begins
  <2>2. QED
    BY <2>1
<1>5. 0 \in T
  <2>1. \A l \in 0..0 : l = 0
    OBVIOUS
  <2>2. 0 \in 0..h
    OBVIOUS
  <2>3. QED
    BY <1>3, <1>4, <2>1, <2>2
<1>6. ASSUME NEW m \in 0..h - 1, m \in T PROVE m + 1 \in T
  <2>1. PICK k : k = m + 1 /\ k \in 1..h /\ k \in 0..h /\ k - 1 = m
    OBVIOUS
  <2>2. ASSUME NEW l \in 0..k PROVE Begins(f[l], f[k])
    <3>1. CASE l = k
      BY <1>4, <2>1, <3>1
    <3>2. CASE l # k
      <4>1. l \in 0..m /\ l \in 0..h /\ m \in 0..h
        BY <2>1, <3>2
      <4>2. Begins(f[l], f[m]) /\ Begins(f[m], f[k])
        BY <1>2, <1>3, <1>6, <2>1, <4>1
      <4>3. PICK a \in Nat, b \in Nat, c \in Nat : a = Len(f[l]) /\ b = Len(f[m]) /\ c = Len(f[k])
        BY <1>1, <2>1, <4>1
      <4>4. /\ a <= b /\ \A x \in 1..a : f[m][x] = f[l][x]
            /\ b <= c /\ \A x \in 1..b : f[k][x] = f[m][x]
        BY <4>2, <4>3 DEF Begins
      <4>5. a <= c /\ \A x \in 1..a : x \in 1..b
        BY <4>3, <4>4
      <4>6. QED
        BY <4>3, <4>4, <4>5 DEF Begins
    <3>3. QED
      BY <3>1, <3>2
  <2>3. QED
    BY <1>3, <2>1, <2>2
<1>7. \A m \in 0..h : m \in T
  BY <1>5, <1>6, Upwards
<1>8. ASSUME NEW l \in 1..h
      PROVE  /\ Len(f[l]) = Len(f[l - 1]) + Len(seqs[l]) /\ Len(f[l]) <= Len(f[h])
             /\ \A j \in 1..Len(seqs[l]) : f[h][Len(f[l - 1]) + j] = seqs[l][j]
  <2>1. h \in 0..h /\ l \in 0..h
    OBVIOUS
  <2>2. Begins(f[l], f[h])
    BY <1>3, <1>7, <2>1
  <2>3. Len(f[l]) <= Len(f[h]) /\ \A x \in 1..Len(f[l]) : f[h][x] = f[l][x]
    BY <2>2 DEF Begins
  <2>4. QED
    BY <1>2, <2>3
<1>9. QED
  BY <1>8 DEF InTurn

\* The nodes of level l above some leaves.
NodesAt(S, l) == {i \div Pow2[l] : i \in S}

LEMMA NodesUp ==
  ASSUME NEW S, S \subseteq Nat, NEW l \in Nat
  PROVE  Parents(NodesAt(S, l)) = NodesAt(S, l + 1)
<1>1. PICK M \in Nat \ {0} : M = Pow2[l]
  BY PowIs
<1>2. Pow2[l + 1] = 2 * M
  BY <1>1, PowIs
<1>3. ASSUME NEW i \in S PROVE i \div (2 * M) = (i \div M) \div 2
  <2>1. i \in Nat /\ 2 \in Nat \ {0}
    OBVIOUS
  <2>2. QED
    BY <2>1, DivideTwice
<1>4. PICK N : N = 2 * M
  OBVIOUS
<1>5. \A i \in S : i \div N = (i \div M) \div 2
  BY <1>3, <1>4
<1>6. Pow2[l + 1] = N
  BY <1>2, <1>4
<1>7. NodesAt(S, l + 1) = {i \div N : i \in S} /\ NodesAt(S, l) = {i \div M : i \in S}
  BY <1>1, <1>6 DEF NodesAt
<1>8. Parents(NodesAt(S, l)) = {(i \div M) \div 2 : i \in S}
  BY <1>7 DEF Parents
<1>9. QED
  BY <1>5, <1>7, <1>8

\* They are nodes of the tree.
LEMMA NodesBelow ==
  ASSUME NEW n \in Nat, NEW S, S \subseteq 0..n - 1, NEW l \in Nat, NEW len, Spread(len, l, n)
  PROVE  NodesAt(S, l) \subseteq 0..len - 1
<1>1. PICK M \in Nat \ {0} : M = Pow2[l]
  BY PowIs
<1>2. len \in Nat /\ \A c \in Nat : c < len <=> c * M < n
  BY <1>1 DEF Spread
<1>3. ASSUME NEW i \in S PROVE i \div M \in 0..len - 1
  <2>1. i \in Nat /\ i < n
    OBVIOUS
  <2>2. PICK c \in Nat, r \in 0..M - 1 : c = i \div M /\ i = M * c + r
    <3>1. PICK c, r : c = i \div M /\ r = i % M
      OBVIOUS
    <3>2. i \div M \in Nat /\ i % M \in 0..M - 1 /\ i = M * (i \div M) + (i % M)
      BY <2>1, Division
    <3>3. c \in Nat /\ r \in 0..M - 1 /\ i = M * c + r
      BY <3>1, <3>2
    <3>4. QED
      BY <3>1, <3>3
  <2>3. c * M <= i
    <3>1. PICK p \in Nat : p = M * c /\ p = c * M
      BY Products
    <3>2. i = p + r /\ r \in Nat
      BY <2>2, <3>1
    <3>3. QED
      BY <3>1, <3>2
  <2>4. c * M < n
    <3>1. PICK p \in Nat : p = c * M
      BY Products
    <3>2. QED
      BY <2>1, <2>3, <3>1
  <2>5. c < len
    BY <1>2, <2>4
  <2>6. QED
    BY <1>2, <2>2, <2>5
<1>4. QED
  BY <1>1, <1>3 DEF NodesAt

\* How many nodes level l has.
LEMMA SpreadIs ==
  ASSUME NEW n \in Nat, NEW l \in Nat, NEW len, Spread(len, l, n)
  PROVE  len = CeilDiv(n, Pow2[l])
<1>1. PICK M \in Nat \ {0} : M = Pow2[l]
  BY PowIs
<1>2. len \in Nat /\ \A c \in Nat : c < len <=> c * M < n
  BY <1>1 DEF Spread
<1>3. PICK m : m = CeilDiv(n, M) /\ m \in Nat /\ \A c \in Nat : c < m <=> c * M < n
  BY CeilIs
<1>4. \A c \in Nat : c < len <=> c < m
  BY <1>2, <1>3
<1>5. ~(len < m) /\ ~(m < len)
  BY <1>2, <1>3, <1>4
<1>6. QED
  BY <1>1, <1>2, <1>3, <1>5

\* f adds to the siblings of a proof, level after level, those the level needs.
Along(g, S, h, W, f) ==
  /\ f \in [0..h -> Seq(W)] /\ f[0] = <<>>
  /\ \A l \in 0..h - 1 :
       /\ Len(f[l + 1]) = Len(f[l]) + Cardinality(Needing(NodesAt(S, l), Len(g[l])))
       /\ Brought(g[l], NodesAt(S, l), f[h], Len(f[l]))

\* The leaves S of a tree, whose layers are g.
InTree(leaves, key, g, S, h) ==
  /\ IsList(leaves) /\ Len(leaves) \in Nat \ {0} /\ Layered(leaves, key, g)
  /\ S \subseteq 0..Len(leaves) - 1 /\ h = Height(Len(leaves)) /\ h \in Nat

\* The nodes that need a sibling are finitely many.
LEMMA NeedingIs ==
  ASSUME NEW leaves, NEW key, NEW g, NEW S, NEW h, InTree(leaves, key, g, S, h), NEW l \in 0..h
  PROVE  /\ Len(g[l]) \in Nat /\ NodesAt(S, l) \subseteq 0..Len(g[l]) - 1
         /\ Cardinality(Needing(NodesAt(S, l), Len(g[l]))) \in Nat
<1>1. PICK n \in Nat \ {0} : n = Len(leaves)
  BY DEF InTree
<1>2. S \subseteq 0..n - 1 /\ l \in Nat
  BY <1>1 DEF InTree
<1>3. Spread(Len(g[l]), l, n)
  BY <1>1 DEF InTree, Layered
<1>4. PICK len \in Nat : len = Len(g[l])
  BY <1>3 DEF Spread
<1>5. NodesAt(S, l) \subseteq 0..len - 1
  BY <1>1, <1>2, <1>3, <1>4, NodesBelow
<1>6. PICK need : need = Needing(NodesAt(S, l), len)
  OBVIOUS
<1>7. need \subseteq 0..len - 1
  BY <1>5, <1>6 DEF Needing
<1>8. IsFiniteSet(0..len - 1)
  BY FS_Interval
<1>9. Cardinality(need) \in Nat
  BY <1>7, <1>8, FS_Subset, FS_CardinalityType
<1>10. QED
  BY <1>4, <1>5, <1>6, <1>9

\* The nodes in need of a sibling at each level, and what is brought to them.
PerLevel(t, S, n, need, f) ==
  /\ n = Len(t) - 1
  /\ need = [l \in 1..n |->
               {i \in {i \div Pow2[l - 1] : i \in S} :
                  Sibling(i) \notin {x \div Pow2[l - 1] : x \in S} /\ Sibling(i) < Len(t[l])}]
  /\ f = [l \in 1..n |-> [j \in 1..Cardinality(need[l]) |-> t[l][Sibling(Sorted(need[l])[j]) + 1]]]

LEMMA SiblingsFlat ==
  ASSUME NEW t, NEW S, NEW n, NEW need, NEW f, PerLevel(t, S, n, need, f)
  PROVE  Siblings(t, S) = FlattenSeq(f)
  BY DEF Siblings, PerLevel

\* The siblings of all levels are what the last one leaves.
SiblingsEnd(g, S, h, t) == \E W, f : Along(g, S, h, W, f) /\ Siblings(t, S) = f[h]

LEMMA SiblingsAlong ==
  ASSUME NEW leaves, NEW key, NEW g, NEW S, NEW h, InTree(leaves, key, g, S, h), h # 0,
         NEW t, t = [l \in 1..h + 1 |-> g[l - 1]]
  PROVE  SiblingsEnd(g, S, h, t)
<1>1. PICK m \in Nat \ {0} : m = h
  BY DEF InTree
<1>2. PICK need : need = [l \in 1..m |-> Needing(NodesAt(S, l - 1), Len(g[l - 1]))]
  OBVIOUS
<1>3. ASSUME NEW l \in 1..m PROVE Cardinality(need[l]) \in Nat
  <2>1. PICK k : k = l - 1 /\ k \in 0..h
    BY <1>1
  <2>2. Cardinality(Needing(NodesAt(S, k), Len(g[k]))) \in Nat
    BY <2>1, NeedingIs
  <2>3. QED
    BY <1>2, <2>1, <2>2
<1>4. PICK seqs : seqs = [l \in 1..m |->
         [j \in 1..Cardinality(need[l]) |-> g[l - 1][Sibling(Sorted(need[l])[j]) + 1]]]
  OBVIOUS
<1>5. Siblings(t, S) = FlattenSeq(seqs)
  <2>1. Len(t) - 1 = m
    <3>1. PICK k \in Nat : k = m + 1 /\ k = h + 1
      BY <1>1
    <3>2. t = [l \in 1..k |-> g[l - 1]]
      BY <3>1
    <3>3. t = [l \in 1..k |-> t[l]]
      BY <3>2
    <3>4. Len(t) = k
      BY <3>3, ListIs
    <3>5. QED
      BY <3>1, <3>4
  <2>2. \A l \in 1..m : t[l] = g[l - 1]
    BY <1>1
  <2>3. need = [l \in 1..m |->
          {i \in {i \div Pow2[l - 1] : i \in S} :
             Sibling(i) \notin {x \div Pow2[l - 1] : x \in S} /\ Sibling(i) < Len(t[l])}]
    BY <1>2, <2>2 DEF Needing, NodesAt
  <2>4. seqs = [l \in 1..m |->
          [j \in 1..Cardinality(need[l]) |-> t[l][Sibling(Sorted(need[l])[j]) + 1]]]
    BY <1>4, <2>2
  <2>5. QED
    <3>1. PerLevel(t, S, m, need, seqs)
      BY <2>1, <2>3, <2>4 DEF PerLevel
    <3>2. QED
      BY <3>1, SiblingsFlat
<1>6. PICK W : W = UNION {{seqs[l][j] : j \in 1..Cardinality(need[l])} : l \in 1..m}
  OBVIOUS
<1>7. ASSUME NEW l \in 1..m PROVE seqs[l] \in Seq(W) /\ Len(seqs[l]) = Cardinality(need[l])
  <2>1. PICK c \in Nat : c = Cardinality(need[l])
    BY <1>3
  <2>2. seqs[l] = [j \in 1..c |-> g[l - 1][Sibling(Sorted(need[l])[j]) + 1]]
    BY <1>4, <2>1
  <2>3. \A j \in 1..c : seqs[l][j] \in W
    BY <1>6, <2>1
  <2>4. seqs[l] \in [1..c -> W]
    BY <2>2, <2>3
  <2>5. QED
    BY <2>1, <2>4, FunctionIsSeq
<1>8. seqs \in [1..m -> Seq(W)]
  BY <1>4, <1>7
<1>9. \E f \in [0..m -> Seq(W)] :
        /\ f[0] = <<>> /\ \A i \in 1..m : f[i] = f[i - 1] \o seqs[i]
        /\ FlattenSeq(seqs) = f[m]
  BY <1>8, FlattenSteps
<1>10. PICK f : InARow(W, m, seqs, f) /\ FlattenSeq(seqs) = f[m]
  BY <1>8, <1>9 DEF InARow
<1>11. InTurn(m, seqs, f)
  BY <1>10, TurnsTaken
<1>12. ASSUME NEW l \in 0..m - 1
       PROVE  /\ Len(f[l + 1]) = Len(f[l]) + Cardinality(Needing(NodesAt(S, l), Len(g[l])))
              /\ Brought(g[l], NodesAt(S, l), f[m], Len(f[l]))
  <2>1. PICK k : k = l + 1 /\ k \in 1..m /\ k - 1 = l
    OBVIOUS
  <2>2. PICK c \in Nat : c = Cardinality(need[k]) /\ Len(seqs[k]) = c
    BY <1>3, <1>7, <2>1
  <2>3. need[k] = Needing(NodesAt(S, l), Len(g[l]))
    BY <1>2, <2>1
  <2>4. /\ Len(f[k]) = Len(f[l]) + c /\ Len(f[k]) <= Len(f[m])
        /\ \A j \in 1..c : f[m][Len(f[l]) + j] = seqs[k][j]
    BY <1>11, <2>1, <2>2 DEF InTurn
  <2>5. \A j \in 1..c : seqs[k][j] = g[l][Sibling(Sorted(need[k])[j]) + 1]
    BY <1>4, <2>1, <2>2
  <2>6. Len(f[l]) + c <= Len(f[m])
    BY <2>4
  <2>7. Brought(g[l], NodesAt(S, l), f[m], Len(f[l]))
    BY <2>2, <2>3, <2>4, <2>5, <2>6 DEF Brought
  <2>8. QED
    BY <2>1, <2>2, <2>3, <2>4, <2>7
<1>13. Along(g, S, h, W, f)
  BY <1>1, <1>10, <1>12 DEF Along, InARow
<1>14. QED
  BY <1>1, <1>5, <1>10, <1>13 DEF SiblingsEnd

\* All of a sequence, and what is behind it.
LEMMA WholeRest ==
  ASSUME NEW V, NEW s \in Seq(V)
  PROVE  SubSeq(s, 0 + 1, Len(s)) = s /\ SubSeq(s, Len(s) + 1, Len(s)) = <<>>
<1>1. PICK n \in Nat, z \in Nat : n = Len(s) /\ z = 0
  OBVIOUS
<1>2. z \in 0..n /\ n \in 0..n /\ n \in 0..Len(s)
  BY <1>1
<1>3. PICK r, e : r = SubSeq(s, z + 1, n) /\ e = SubSeq(s, n + 1, n)
  OBVIOUS
<1>4. r \in Seq(V) /\ Len(r) = n - z /\ \A x \in 1..n - z : r[x] = s[z + x]
  BY <1>2, <1>3, Rest
<1>5. e \in Seq(V) /\ Len(e) = n - n
  BY <1>2, <1>3, Rest
<1>6. e = <<>>
  BY <1>1, <1>5, EmptySeq
<1>7. Len(r) = n /\ \A x \in 1..n : r[x] = s[x]
  BY <1>1, <1>4
<1>8. r = s
  BY <1>1, <1>4, <1>7, SeqEqual
<1>9. QED
  BY <1>1, <1>3, <1>6, <1>8

\* What a replay begins with.
Begun(leaves, S, h, f, n, base, s) ==
  /\ n = Len(leaves) /\ s = [l \in 1..h |-> l]
  /\ base = [cur |-> NodesOf(S, leaves), sibs |-> f[h], short |-> FALSE]

\* The accumulators of a replay.
LEMMA TreeAccumulates ==
  ASSUME NEW leaves, NEW key, NEW g, NEW S, NEW h, InTree(leaves, key, g, S, h),
         NEW W, NEW f, Along(g, S, h, W, f),
         NEW n, NEW base, NEW s, Begun(leaves, S, h, f, n, base, s),
         NEW st, st = [l \in 0..h |-> Halfway(g[l], NodesAt(S, l), f[h], Len(f[l]))]
  PROVE  Accumulated("levels", 0, n, key, base, s, st)
<1> n = Len(leaves) /\ s = [l \in 1..h |-> l]
  BY DEF Begun
<1> base = [cur |-> NodesOf(S, leaves), sibs |-> f[h], short |-> FALSE]
  BY DEF Begun
<1>1. h \in Nat /\ n \in Nat \ {0} /\ g[0] = leaves
  BY DEF InTree, Layered
<1>2. PICK whole : whole = f[h] /\ whole \in Seq(W)
  BY <1>1 DEF Along
<1>3. \A l \in 0..h : st[l] = Halfway(g[l], NodesAt(S, l), whole, Len(f[l]))
  BY <1>2
<1>4. st[0] = base
  <2>1. NodesAt(S, 0) = S
    <3>1. Pow2[0] = 1 /\ \A i \in S : i \div 1 = i
      <4>1. \A i \in S : i \in Nat
        BY DEF InTree
      <4>2. QED
        BY <4>1, PowIs
    <3>2. QED
      BY <3>1 DEF NodesAt
  <2>2. Len(f[0]) = 0
    BY EmptySeq DEF Along
  <2>3. SubSeq(whole, 0 + 1, Len(whole)) = whole
    BY <1>2, WholeRest
  <2>4. 0 \in 0..h
    BY <1>1
  <2>5. st[0] = Halfway(leaves, S, whole, 0)
    BY <1>1, <1>3, <2>1, <2>2, <2>4
  <2>6. QED
    BY <1>2, <2>3, <2>5 DEF Halfway
<1>5. ASSUME NEW l \in Nat, l < h
      PROVE  st[l + 1] = FoldStep("levels", 0, n, key, st[l], s[l + 1])
  <2>1. PICK k : k = l + 1 /\ k \in 1..h /\ k \in 0..h /\ l \in 0..h /\ k - 1 = l /\ l \in 0..h - 1
    BY <1>1, <1>5
  <2>2. PICK prev, next, len, C, q :
          /\ prev = g[l] /\ next = g[k] /\ len = Len(g[l]) /\ C = NodesAt(S, l) /\ q = Len(f[l])
    OBVIOUS
  <2>3. len \in Nat /\ C \subseteq 0..len - 1
    BY <2>1, <2>2, NeedingIs
  <2>4. Paired(prev, key, next)
    <3>1. Paired(g[k - 1], key, g[k])
      BY <2>1 DEF InTree, Layered
    <3>2. QED
      BY <2>1, <2>2, <3>1
  <2>5. q \in Nat
    <3>1. f[l] \in Seq(W)
      BY <2>1 DEF Along
    <3>2. QED
      BY <2>2, <3>1
  <2>6. Brought(prev, C, whole, q) /\ Len(f[k]) = q + Cardinality(Needing(C, len))
    <3>1. \A x \in 0..h - 1 :
            /\ Len(f[x + 1]) = Len(f[x]) + Cardinality(Needing(NodesAt(S, x), Len(g[x])))
            /\ Brought(g[x], NodesAt(S, x), f[h], Len(f[x]))
      BY DEF Along
    <3>2. QED
      BY <1>2, <2>1, <2>2, <3>1
  <2>7. LevelDone(prev, key, next, len, C, whole, q)
    <3>1. Level(prev, key, next, len, C, W, whole, q)
      BY <1>2, <2>2, <2>3, <2>4, <2>5, <2>6 DEF Level
    <3>2. QED
      BY <3>1, LevelReplayed
  <2>8. ReplayLevel(st[l], len, key) = st[k]
    <3>1. Parents(C) = NodesAt(S, k)
      <4>1. S \subseteq Nat
        <5>1. S \subseteq 0..n - 1 /\ 0..n - 1 \subseteq Nat
          BY <1>1 DEF InTree
        <5>2. QED
          BY <5>1
      <4>2. QED
        BY <2>1, <2>2, <4>1, NodesUp
    <3>2. st[l] = Halfway(prev, C, whole, q)
      BY <1>3, <2>1, <2>2
    <3>3. st[k] = Halfway(next, Parents(C), whole, q + Cardinality(Needing(C, len)))
      BY <1>3, <2>1, <2>2, <2>6, <3>1
    <3>4. QED
      BY <2>7, <3>2, <3>3 DEF LevelDone
  <2>9. len = CeilDiv(n, Pow2[l])
    <3>1. Spread(len, l, n)
      BY <2>1, <2>2 DEF InTree, Layered
    <3>2. QED
      BY <1>1, <3>1, SpreadIs
  <2>10. FoldStep("levels", 0, n, key, st[l], k) = ReplayLevel(st[l], len, key)
    <3>1. st[l].short = FALSE
      BY <1>3, <2>1 DEF Halfway
    <3>2. QED
      BY <2>1, <2>9, <3>1 DEF FoldStep
  <2>11. s[k] = k
    BY <2>1
  <2>12. QED
    BY <2>1, <2>8, <2>10, <2>11
<1>6. Len(s) = h
  <2>1. s = [l \in 1..h |-> s[l]]
    OBVIOUS
  <2>2. QED
    BY <1>1, <2>1, ListIs
<1>7. QED
  BY <1>1, <1>4, <1>5, <1>6 DEF Accumulated

\* A replay that has reached a root.
Finished(done, root) == done.short = FALSE /\ done.sibs = <<>> /\ done.cur[0] = root

\* What a replay ends with: the root of the tree, and no sibling left.
LEMMA TreeReplayed ==
  ASSUME NEW leaves, NEW key, NEW g, NEW S, NEW h, InTree(leaves, key, g, S, h), S # {},
         NEW W, NEW f, Along(g, S, h, W, f),
         NEW n, NEW base, NEW s, Begun(leaves, S, h, f, n, base, s)
  PROVE  Finished(LevelsFold(n, key, base, s), g[h][1])
<1>1. h \in Nat /\ n \in Nat \ {0} /\ h = Height(n) /\ S \subseteq 0..n - 1
  BY DEF InTree, Begun
<1>2. PICK st : st = [l \in 0..h |-> Halfway(g[l], NodesAt(S, l), f[h], Len(f[l]))]
  OBVIOUS
<1>3. Accumulated("levels", 0, n, key, base, s, st)
  BY <1>2, TreeAccumulates
<1>4. IsList(s) /\ Len(s) = h
  <2>1. PICK V : V = 1..h
    OBVIOUS
  <2>2. s \in [1..h -> V]
    BY <2>1 DEF Begun
  <2>3. s \in Seq(V) /\ Len(s) = h
    BY <1>1, <2>2, FunctionIsSeq
  <2>4. QED
    BY <2>3 DEF IsList
<1>5. LevelsFold(n, key, base, s) = st[h]
  BY <1>3, <1>4, TreeFold
<1>6. st[h] = Halfway(g[h], NodesAt(S, h), f[h], Len(f[h]))
  BY <1>1, <1>2
<1>7. NodesAt(S, h) = {0}
  <2>1. PICK M \in Nat \ {0} : M = Pow2[h] /\ M >= n
    BY <1>1, PowIs, HeightIs
  <2>2. \A i \in S : i \div M = 0
    <3>1. ASSUME NEW i \in S PROVE i \div M = 0
      <4>1. i \in 0..M - 1
        BY <1>1, <2>1
      <4>2. QED
        BY <4>1
    <3>2. QED
      BY <3>1
  <2>3. QED
    BY <2>1, <2>2 DEF NodesAt
<1>8. SubSeq(f[h], Len(f[h]) + 1, Len(f[h])) = <<>>
  <2>1. f[h] \in Seq(W)
    BY <1>1 DEF Along
  <2>2. QED
    BY <2>1, WholeRest
<1>9. PICK done : done = LevelsFold(n, key, base, s)
  OBVIOUS
<1>10. done = [cur |-> NodesOf({0}, g[h]), sibs |-> <<>>, short |-> FALSE]
  BY <1>5, <1>6, <1>7, <1>8, <1>9 DEF Halfway
<1>11. NodesOf({0}, g[h])[0] = g[h][1]
  BY DEF NodesOf
<1>12. QED
  BY <1>9, <1>10, <1>11 DEF Finished

\* A chunk that is whole is sent as it is.
LEMMA WholeChunk ==
  ASSUME NEW V, NEW x \in Seq(V), Len(x) = ChunkLen
  PROVE  pad_to_chunk(x) = x
<1>1. PICK C \in Nat \ {0} : C = ChunkLen
  BY MerkleAssumption
<1>2. CeilDiv(C, C) = 1
  <2>1. PICK m \in Nat : m = CeilDiv(C, C) /\ \A c \in Nat : c < m <=> c * C < C
    BY CeilIs
  <2>2. PICK z \in Nat, o \in Nat : z = 0 /\ o = 1 /\ z * C = 0 /\ o * C = C
    OBVIOUS
  <2>3. z < m /\ ~(o < m)
    BY <2>1, <2>2
  <2>4. m = 1
    BY <2>2, <2>3
  <2>5. QED
    BY <2>1, <2>4
<1>3. PICK o \in Nat : o = 1 * C - C /\ o = 0
  OBVIOUS
<1>4. pad_to_chunk(x) = x \o Zeros(o)
  BY <1>1, <1>2, <1>3 DEF pad_to_chunk
<1>5. Zeros(o) = <<>>
  BY <1>3 DEF Zeros
<1>6. x \o <<>> = x
  OBVIOUS
<1>7. QED
  BY <1>4, <1>5, <1>6

\* A matrix of whole chunks and some of its leaves.
ProvenLeaves(V, data, key, S, leaves, n) ==
  /\ data \in Seq(V) /\ n \in Nat \ {0} /\ Len(data) = n * ChunkLen
  /\ S \subseteq 0..n - 1
  /\ leaves = leaf_cvs(data, key)

LEMMA ChunksAre ==
  ASSUME NEW V, NEW data, NEW key, NEW S, NEW leaves, NEW n,
         ProvenLeaves(V, data, key, S, leaves, n)
  PROVE  CeilDiv(Len(data), ChunkLen) = n
<1>1. PICK C \in Nat \ {0} : C = ChunkLen
  BY MerkleAssumption
<1>2. data \in Seq(V) /\ n \in Nat \ {0} /\ Len(data) = n * C
  BY <1>1 DEF ProvenLeaves
<1>3. Len(data) \in Nat
  BY <1>2
<1>4. PICK m \in Nat : m = CeilDiv(Len(data), C) /\ \A c \in Nat : c < m <=> c * C < Len(data)
  BY <1>3, CeilIs
<1>5. \A c \in Nat : c < m <=> c * C < n * C
  BY <1>2, <1>4
<1>6. ~(n < m)
  BY <1>2, <1>5
<1>7. ~(m < n)
  <2>1. ASSUME m < n PROVE FALSE
    <3>1. C * m + C <= C * n
      BY <1>2, <1>4, <2>1, Products
    <3>2. PICK a \in Nat, b \in Nat : a = m * C /\ b = n * C /\ a = C * m /\ b = C * n
      BY <1>2, <1>4
    <3>3. a < b
      BY <1>1, <3>1, <3>2
    <3>4. QED
      BY <1>4, <1>5, <3>2, <3>3
  <2>2. QED
    BY <2>1
<1>8. QED
  BY <1>1, <1>2, <1>4, <1>6, <1>7

\* The chaining value of a leaf a proof brings is the tree's.
LeafBrought(data, key, S, leaves, i, j) ==
  chunk_cv(pad_to_chunk(Piece(data, Sorted(S)[j], ChunkLen)), i, key, FALSE) = leaves[i + 1]

LEMMA LeavesReplayed ==
  ASSUME NEW V, NEW data, NEW key, NEW S, NEW leaves, NEW n,
         ProvenLeaves(V, data, key, S, leaves, n), NEW i \in S,
         NEW j \in 1..Cardinality(S), Sorted(S)[j] = i
  PROVE  LeafBrought(data, key, S, leaves, i, j)
<1>1. PICK C \in Nat \ {0} : C = ChunkLen
  BY MerkleAssumption
<1>2. /\ data \in Seq(V) /\ n \in Nat \ {0} /\ Len(data) = n * C /\ S \subseteq 0..n - 1
      /\ leaves = leaf_cvs(data, key)
  BY <1>1 DEF ProvenLeaves
<1>3. i \in 0..n - 1
  BY <1>2
<1>4. Len(data) \in Nat
  BY <1>2
<1>5. CeilDiv(Len(data), ChunkLen) = n
  BY ChunksAre
<1>6. leaves[i + 1] = chunk_cv(Piece(data, i, ChunkLen), i, key, FALSE)
  <2>1. \A x \in 0..n - 1 : leaf_cvs(data, key)[x + 1] = chunk_cv(Piece(data, x, ChunkLen), x, key, FALSE)
    BY <1>4, <1>5, LeavesAre
  <2>2. QED
    BY <1>2, <1>3, <2>1
<1>7. PieceOf(data, i, C, V, Piece(data, i, C))
  <2>1. (i + 1) * C <= Len(data)
    <3>1. PICK k \in Nat : k = i + 1 /\ k <= n
      BY <1>2, <1>3
    <3>2. k * C <= n * C
      BY <1>2, <3>1
    <3>3. QED
      BY <1>2, <3>1, <3>2
  <2>2. i \in Nat
    BY <1>3
  <2>3. QED
    BY <1>2, <2>1, <2>2, PieceIs
<1>8. pad_to_chunk(Piece(data, i, ChunkLen)) = Piece(data, i, ChunkLen)
  <2>1. Piece(data, i, C) \in Seq(V) /\ Len(Piece(data, i, C)) = C
    BY <1>7 DEF PieceOf
  <2>2. QED
    BY <1>1, <2>1, WholeChunk
<1>9. QED
  BY <1>6, <1>8 DEF LeafBrought

\* A replay in its two parts: the leaves it begins with and the levels.
LeafCvs(p, key) ==
  [i \in ToSet(p.leaf_indices) |->
     LET j == CHOOSE j \in 1..Len(p.leaf_indices) : p.leaf_indices[j] = i
     IN chunk_cv(p.leaf_data[j], i, key, FALSE)]

ReplayOf(p, key) ==
  LevelsFold(p.total_leaves, key, [cur |-> LeafCvs(p, key), sibs |-> p.siblings, short |-> FALSE],
             [l \in 1..Height(p.total_leaves) |-> l])

LEMMA ReplaySplit ==
  ASSUME NEW p, NEW key
  PROVE  Replay(p, key) = [root |-> IF ReplayOf(p, key).short THEN <<>> ELSE ReplayOf(p, key).cur[0],
                           left |-> ReplayOf(p, key).sibs]
  BY DEF Replay, ReplayOf, LeafCvs, LevelsFold

\* What a replay comes to.
LEMMA ReplayIs ==
  ASSUME NEW V, NEW data, NEW key, NEW S, NEW leaves, NEW n,
         ProvenLeaves(V, data, key, S, leaves, n), n > 1, S # {},
         NEW t, TreeOf(leaves, key, t), NEW p, p = get_multileaf_proof(t, data, S)
  PROVE  Replay(p, key).root = Root(t) /\ Replay(p, key).left = <<>> /\ p.root = Root(t)
<1>1. n \in Nat \ {0} /\ data \in Seq(V) /\ S \subseteq 0..n - 1 /\ leaves = leaf_cvs(data, key)
  BY DEF ProvenLeaves
<1>2. IsList(leaves) /\ Len(leaves) = n
  <2>1. Len(data) \in Nat
    BY <1>1
  <2>2. CeilDiv(Len(data), ChunkLen) = n
    BY ChunksAre
  <2>3. QED
    BY <1>1, <2>1, <2>2, LeavesAre
<1>3. PICK h \in Nat : h = Height(n) /\ h # 0 /\ Pow2[h] >= n
  <2>1. Height(n) \in Nat /\ Pow2[Height(n)] >= n
    BY <1>1, HeightIs
  <2>2. Height(n) # 0
    BY <1>1, <2>1, PowIs
  <2>3. QED
    BY <2>1, <2>2
<1>4. PICK g : Layered(leaves, key, g) /\ t = [l \in 1..h + 1 |-> g[l - 1]]
  BY <1>2, <1>3 DEF TreeOf
<1>5. InTree(leaves, key, g, S, h)
  BY <1>1, <1>2, <1>3, <1>4 DEF InTree
<1>6. PICK W, f : Along(g, S, h, W, f) /\ Siblings(t, S) = f[h]
  <2>1. h # 0 /\ t = [l \in 1..h + 1 |-> g[l - 1]]
    BY <1>3, <1>4
  <2>2. SiblingsEnd(g, S, h, t)
    BY <1>5, <2>1, SiblingsAlong
  <2>3. QED
    BY <2>2 DEF SiblingsEnd
<1>7. Len(t[1]) = n /\ Root(t) = g[h][1]
  <2>1. t = [l \in 1..h + 1 |-> t[l]]
    BY <1>4
  <2>2. h + 1 \in Nat /\ h + 1 \in 1..h + 1 /\ 1 \in 1..h + 1 /\ (h + 1) - 1 = h /\ 1 - 1 = 0
    BY <1>3
  <2>3. Len(t) = h + 1
    BY <2>1, <2>2, ListIs
  <2>4. t[h + 1] = g[h] /\ t[1] = g[0]
    BY <1>4, <2>2
  <2>5. g[0] = leaves
    BY <1>4 DEF Layered
  <2>6. QED
    BY <1>2, <2>3, <2>4, <2>5 DEF Root, Last
<1>8. PICK order : order = Sorted(S) /\ InOrder(S, order)
  <2>1. S \subseteq Nat /\ IsFiniteSet(S)
    BY <1>1, FewBelow
  <2>2. QED
    BY <2>1, SortedIs
<1>9. PICK m \in Nat : m = Cardinality(S) /\ Len(order) = m /\ order \in Seq(S)
  BY <1>8 DEF InOrder
<1>10. ASSUME NEW i \in S PROVE \E j \in 1..m : order[j] = i
  <2>1. S \subseteq Nat /\ IsFiniteSet(S)
    BY <1>1, FewBelow
  <2>2. Place(S, i) + 1 \in 1..Cardinality(S) /\ Sorted(S)[Place(S, i) + 1] = i
    BY <2>1, OrderedAt
  <2>3. QED
    BY <1>8, <1>9, <2>2
<1>11. ToSet(order) = S
  <2>1. \A j \in DOMAIN order : order[j] \in S
    BY <1>9
  <2>2. DOMAIN order = 1..m
    BY <1>9
  <2>3. QED
    BY <1>10, <2>1, <2>2 DEF ToSet
<1>12. /\ p.leaf_indices = order /\ p.total_leaves = n /\ p.root = Root(t) /\ p.siblings = f[h]
       /\ \A j \in 1..m : p.leaf_data[j] = pad_to_chunk(Piece(data, order[j], ChunkLen))
  BY <1>6, <1>7, <1>8, <1>9 DEF get_multileaf_proof
<1>13. PICK cvs : cvs = [i \in S |-> LET j == CHOOSE j \in 1..m : order[j] = i
                                     IN chunk_cv(p.leaf_data[j], i, key, FALSE)]
  OBVIOUS
<1>14. cvs = NodesOf(S, leaves)
  <2>1. ASSUME NEW i \in S PROVE cvs[i] = leaves[i + 1]
    <3>1. PICK j : j = (CHOOSE x \in 1..m : order[x] = i) /\ j \in 1..m /\ order[j] = i
      BY <1>10
    <3>2. cvs[i] = chunk_cv(pad_to_chunk(Piece(data, Sorted(S)[j], ChunkLen)), i, key, FALSE)
      BY <1>8, <1>12, <1>13, <3>1
    <3>3. Sorted(S)[j] = i /\ j \in 1..Cardinality(S)
      BY <1>8, <1>9, <3>1
    <3>4. LeafBrought(data, key, S, leaves, i, j)
      BY <3>3, LeavesReplayed
    <3>5. QED
      BY <3>2, <3>4 DEF LeafBrought
  <2>2. cvs = [i \in S |-> cvs[i]]
    BY <1>13
  <2>3. QED
    BY <2>1, <2>2 DEF NodesOf
<1>15. PICK base, s : base = [cur |-> cvs, sibs |-> f[h], short |-> FALSE] /\ s = [l \in 1..h |-> l]
  OBVIOUS
<1>16. Begun(leaves, S, h, f, n, base, s)
  BY <1>2, <1>14, <1>15 DEF Begun
<1>17. PICK done : done = LevelsFold(n, key, base, s)
  OBVIOUS
<1>18. Finished(done, g[h][1])
  BY <1>5, <1>6, <1>16, <1>17, TreeReplayed
<1>19. Replay(p, key) = [root |-> IF done.short THEN <<>> ELSE done.cur[0], left |-> done.sibs]
  <2>1. LeafCvs(p, key) = cvs
    <3>1. p.leaf_indices = order
      BY <1>12
    <3>2. LeafCvs(p, key)
            = [i \in ToSet(order) |-> LET j == CHOOSE j \in 1..Len(order) : order[j] = i
                                      IN chunk_cv(p.leaf_data[j], i, key, FALSE)]
      BY <3>1 DEF LeafCvs
    <3>3. Len(order) = m
      BY <1>9
    <3>4. QED
      BY <1>11, <1>13, <3>2, <3>3
  <2>2. ReplayOf(p, key) = done
    BY <1>3, <1>12, <1>15, <1>17, <2>1 DEF ReplayOf
  <2>3. Replay(p, key) = [root |-> IF ReplayOf(p, key).short THEN <<>> ELSE ReplayOf(p, key).cur[0],
                          left |-> ReplayOf(p, key).sibs]
    BY ReplaySplit
  <2>4. QED
    BY <2>2, <2>3
<1>20. QED
  BY <1>7, <1>12, <1>18, <1>19 DEF Finished

-----------------------------------------------------------------------------
(***************************************************************************)
(* The share at the pool.                                                  *)
(***************************************************************************)

\* The leaves of some rows are leaves of the tree, and there is one.
LEMMA LeavesInTree ==
  ASSUME NEW rows \in Nat, NEW k \in Nat \ {0}, NEW n \in Nat, rows * k = n * ChunkLen,
         NEW indices, RowsWithin(rows, indices), ToSet(indices) # {}
  PROVE  /\ compute_leaf_indices_from_rows(ToSet(indices), k) \subseteq 0..n - 1
         /\ compute_leaf_indices_from_rows(ToSet(indices), k) # {}
<1>1. PICK C \in Nat \ {0} : C = ChunkLen
  BY MerkleAssumption
<1>2. PICK S, R : S = compute_leaf_indices_from_rows(R, k) /\ R = ToSet(indices)
  OBVIOUS
<1>3. R \subseteq 0..rows - 1 /\ R # {}
  BY <1>2 DEF RowsWithin
<1>4. ASSUME NEW c \in S PROVE c \in 0..n - 1
  <2>1. c \in Nat /\ c * ChunkLen < rows * k
    BY <1>2, <1>3, LeavesWithin
  <2>2. c * C < n * C
    BY <1>1, <2>1
  <2>3. ~(n <= c)
    <3>1. ASSUME n <= c PROVE FALSE
      <4>1. n * C <= c * C
        BY <2>1, <3>1
      <4>2. PICK a \in Nat, b \in Nat : a = n * C /\ b = c * C
        BY <2>1
      <4>3. QED
        BY <2>2, <4>1, <4>2
    <3>2. QED
      BY <3>1
  <2>4. QED
    BY <2>1, <2>3
<1>5. S # {}
  <2>1. PICK r \in R : r \in Nat
    <3>1. PICK r : r \in R
      BY <1>3
    <3>2. r \in 0..rows - 1
      BY <1>3, <3>1
    <3>3. r \in Nat
      BY <3>2
    <3>4. QED
      BY <3>1, <3>3
  <2>2. PICK a \in Nat, b \in Nat : a = r * k /\ b = (r + 1) * k - 1 /\ a <= b
    <3>1. (r + 1) * k = r * k + k
      BY <2>1
    <3>2. PICK p \in Nat : p = r * k
      BY <2>1
    <3>3. p <= (r + 1) * k - 1 /\ (r + 1) * k - 1 \in Nat
      BY <3>1, <3>2
    <3>4. QED
      BY <3>2, <3>3
  <2>3. a \div C \in Nat /\ b \div C \in Nat /\ a \div C <= b \div C
    BY <2>2
  <2>4. a \div C \in (r * k) \div ChunkLen .. ((r + 1) * k - 1) \div ChunkLen
    BY <1>1, <2>2, <2>3
  <2>5. a \div C \in S
    BY <1>2, <2>1, <2>4 DEF compute_leaf_indices_from_rows
  <2>6. QED
    BY <2>5
<1>6. QED
  BY <1>2, <1>4, <1>5

\* A matrix proof is one the pool takes.
Accepted(i, indices) == ReachesRoot(MatrixProof(i, indices), merkle_root_keyed(Bytes(i), JobKey))

LEMMA SideAccepted ==
  ASSUME ConfigInv, MatricesInv, TreesInv, phase \in FromHashed, NEW i \in 1..2,
         NEW rows, rows = <<shape.m, shape.n>>[i], WholeChunks(rows),
         NEW indices, RowsWithin(rows, indices), ToSet(indices) # {}
  PROVE  Accepted(i, indices)
<1>1. phase \in FromDerived
  BY DEF FromDerived, FromHashed
<1>2. PICK V, k, key, data :
        /\ rows \in Nat \ {0} /\ k \in Nat \ {0} /\ k = mc.common_dim /\ key = JobKey
        /\ data = Bytes(i) /\ data \in Seq(V) /\ Len(data) = rows * k
  BY <1>1, JobBytes
<1>3. LayersOf(i)
  BY LayersAre DEF KeyedTree
<1>4. PICK t : /\ t = layers[i] /\ t = build_merkle_tree(data, key)
               /\ Root(t) = merkle_root_keyed(data, key)
  BY <1>2, <1>3 DEF LayersOf
<1>5. PICK C \in Nat \ {0}, z \in Nat : C = ChunkLen /\ z = rows * k /\ z % C = 0 /\ z > C
  <2>1. PICK C \in Nat \ {0} : C = ChunkLen
    BY MerkleAssumption
  <2>2. PICK z \in Nat : z = rows * k
    BY <1>2
  <2>3. z % C = 0 /\ z > C
    BY <1>2, <2>1, <2>2 DEF WholeChunks
  <2>4. QED
    BY <2>1, <2>2, <2>3
<1>6. PICK n \in Nat \ {0} : z = n * C /\ n > 1
  <2>1. PICK n, r : n = z \div C /\ r = z % C
    OBVIOUS
  <2>2. n \in Nat /\ z = C * n + r /\ r = 0
    <3>1. z \div C \in Nat /\ z = C * (z \div C) + (z % C)
      BY Division
    <3>2. QED
      BY <1>5, <2>1, <3>1
  <2>3. z = n * C
    BY <2>2
  <2>4. n # 0 /\ n # 1
    BY <1>5, <2>3
  <2>5. QED
    BY <2>2, <2>3, <2>4
<1>7. PICK S : S = compute_leaf_indices_from_rows(ToSet(indices), k)
  OBVIOUS
<1>8. S \subseteq 0..n - 1 /\ S # {}
  <2>1. rows * k = n * ChunkLen /\ rows \in Nat /\ n \in Nat
    BY <1>2, <1>5, <1>6
  <2>2. QED
    BY <1>2, <1>7, <2>1, LeavesInTree
<1>9. PICK leaves : leaves = leaf_cvs(data, key)
  OBVIOUS
<1>10. Len(data) \in Nat /\ Len(data) > ChunkLen /\ Len(data) = n * ChunkLen
  BY <1>2, <1>5, <1>6
<1>11. TreeOf(leaves, key, t)
  BY <1>4, <1>9, <1>10, BuiltOver
<1>12. ProvenLeaves(V, data, key, S, leaves, n)
  BY <1>2, <1>8, <1>9, <1>10 DEF ProvenLeaves
<1>13. PICK p : p = get_multileaf_proof(t, data, S)
  OBVIOUS
<1>14. Replay(p, key).root = Root(t) /\ Replay(p, key).left = <<>> /\ p.root = Root(t)
  BY <1>6, <1>8, <1>11, <1>12, <1>13, ReplayIs
<1>15. MatrixProof(i, indices).proof = p
  BY <1>2, <1>4, <1>7, <1>13 DEF MatrixProof
<1>16. QED
  BY <1>2, <1>4, <1>14, <1>15 DEF Accepted, ReachesRoot

\* A pattern has an index.
LEMMA IndicesExist ==
  ASSUME NEW p, NEW s, NEW dims, Shaped(p, s, dims), NEW o
  PROVE  ToSet(indices_with_offset(s, o)) # {}
<1>1. Rising(p) /\ to_list(s) = p
  BY DEF Shaped
<1>2. PICK n \in Nat \ {0} : n = Len(p)
  BY <1>1, RisingIs
<1>3. PICK f : f = [i \in 1..n |-> p[i] + o]
  OBVIOUS
<1>4. indices_with_offset(s, o) = f
  BY <1>1, <1>2, <1>3 DEF indices_with_offset
<1>5. 1 \in DOMAIN f
  BY <1>2, <1>3
<1>6. QED
  BY <1>4, <1>5 DEF ToSet

\* The proof the miner builds from matrices of whole chunks is accepted.
LEMMA ProofTaken ==
  ASSUME ConfigInv, MatricesInv, TreesInv, FoundInv, phase = "proved",
         WholeChunks(shape.m), WholeChunks(shape.n)
  PROVE  Accepts(build_plain_proof)
<1>1. PICK o, p : /\ o \in ToSet(enumerate_valid_offsets(mc.rows_pattern, shape.m))
                  /\ p \in ToSet(enumerate_valid_offsets(mc.cols_pattern, shape.n))
                  /\ found.cpu.hit = <<o, p>>
  BY HitIs
<1>2. PICK d, e : Shaped(lists[1], mc.rows_pattern, d) /\ Shaped(lists[2], mc.cols_pattern, e)
  BY PatternsAre DEF FromConfigured
<1>3. PICK m, n : m \in Nat /\ n \in Nat /\ m = shape.m /\ n = shape.n
  BY AssemblyAssumption DEF MatricesInv, FromDerived
<1>4. PICK a, b : a = a_rows_indices /\ b = b_cols_indices
  OBVIOUS
<1>5. a = indices_with_offset(mc.rows_pattern, o) /\ b = indices_with_offset(mc.cols_pattern, p)
  BY <1>1, <1>4 DEF a_rows_indices, b_cols_indices
<1>6. RowsWithin(m, a) /\ RowsWithin(n, b)
  BY <1>1, <1>2, <1>3, <1>5, IndicesWithin
<1>7. ToSet(a) # {} /\ ToSet(b) # {}
  BY <1>2, <1>5, IndicesExist
<1>8. phase \in FromHashed /\ m = <<shape.m, shape.n>>[1] /\ n = <<shape.m, shape.n>>[2]
  BY <1>3 DEF FromHashed
<1>9. Accepted(1, a) /\ Accepted(2, b)
  <2>1. Accepted(1, a)
    BY <1>3, <1>6, <1>7, <1>8, SideAccepted
  <2>2. Accepted(2, b)
    BY <1>3, <1>6, <1>7, <1>8, SideAccepted
  <2>3. QED
    BY <2>1, <2>2
<1>10. mc.rank = Rank
  BY DEF ConfigInv, FromConfigured
<1>11. PICK p1, p2 : p1 = MatrixProof(1, a) /\ p2 = MatrixProof(2, b)
  OBVIOUS
<1>12. p1.row_indices = a /\ p2.row_indices = b
  BY <1>11 DEF MatrixProof
<1>13. PICK pp : pp = build_plain_proof
  OBVIOUS
<1>14. /\ pp.m = shape.m /\ pp.n = shape.n /\ pp.k = mc.common_dim /\ pp.noise_rank = mc.rank
       /\ pp.a = p1 /\ pp.bt = p2
  BY <1>4, <1>11, <1>13 DEF build_plain_proof
<1>15. QED
  BY <1>4, <1>9, <1>10, <1>11, <1>12, <1>13, <1>14 DEF Accepts, Accepted

\* Of every share of matrices of whole chunks, the pool takes the proof it
\* reads: its leaves reach the roots both commitments are made with, with no
\* sibling missing and none left over.
THEOREM ProofAlwaysAccepted == Spec => []ProofAccepted
<1>1. ASSUME AssemblyInv, phase = "proved", WholeChunks(shape.m), WholeChunks(shape.n)
      PROVE  Accepts(Decode(wire).vals)
  <2>1. Decode(wire).vals = build_plain_proof
    BY <1>1, ShareReadsBack DEF ReadBack
  <2>2. Accepts(build_plain_proof)
    BY <1>1, ProofTaken DEF AssemblyInv
  <2>3. QED
    BY <2>1, <2>2
<1>2. AssemblyInv => ProofAccepted
  BY <1>1 DEF ProofAccepted
<1>3. QED
  BY <1>2, AssemblyHolds, PTL
=============================================================================
