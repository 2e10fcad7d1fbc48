------------------------ MODULE CoopmatPipelineProofs ------------------------
(***************************************************************************)
(* Proofs about CoopmatPipeline, for every finite set of submit threads,   *)
(* every max_return and every queue capacity.                              *)
(*                                                                         *)
(* Conservation is not inductive: that a queue cell holds an undecided     *)
(* candidate nobody else holds depends on where the producer is, on what   *)
(* the threads hold and on the fate of candidates not yielded yet.  IndInv *)
(* says all of it together; each part below names one of these relations.  *)
(***************************************************************************)
EXTENDS CoopmatPipeline, FunctionTheorems, FiniteSetTheorems, TLAPS

InHand(c) == c = yielded /\ ppc = "put"

\* A candidate in the queue is undecided, unsent, and nowhere else.
QueueOK ==
  \A i \in 1..Len(q) : q[i] # None =>
    /\ q[i] <= yielded /\ ~InHand(q[i])
    /\ outcome[q[i]] = "open" /\ attempts[q[i]] = 0
    /\ \A w \in Workers : item[w] # q[i]
    /\ \A j \in 1..Len(q) : q[j] = q[i] => j = i

\* A candidate a thread holds is undecided, its own, and sent only if the
\* thread has passed the pacing gate.
HeldOK ==
  \A w \in Workers :
    /\ wpc[w] \in Holding <=> item[w] # None
    /\ item[w] # None =>
         /\ item[w] <= yielded /\ ~InHand(item[w])
         /\ outcome[item[w]] = "open"
         /\ wpc[w] \in {"check", "pace"} => attempts[item[w]] = 0
         /\ \A v \in Workers : item[v] = item[w] => v = w

\* Nothing has happened yet to a candidate that was not put on the queue.
FreshOK ==
  \A c \in Candidates : c > yielded \/ InHand(c) =>
    outcome[c] = "open" /\ attempts[c] = 0

\* A yielded candidate without an outcome is somewhere.
NotLost ==
  \A c \in 1..yielded : outcome[c] = "open" =>
    InHand(c) \/ InQueue(c) \/ \E w \in Workers : item[w] = c

\* While the producer takes candidates the queue holds no sentinel and no
\* thread has finished; afterwards only sentinels follow a sentinel, and once
\* a thread has finished only sentinels are left.
Searching == ppc \in {"next", "put", "check"}

ClosingOK ==
  /\ \A i \in 1..Len(q) : q[i] = None =>
       ~Searching /\ \A j \in i..Len(q) : q[j] = None
  /\ \A w \in Workers : wpc[w] = "done" =>
       ~Searching /\ \A j \in 1..Len(q) : q[j] = None
  /\ ppc \in ProducerEnded => unposted = {} /\ \A w \in Workers : wpc[w] = "done"
  /\ ppc = "join" => unposted = {}
  /\ ppc = "put" => yielded >= 1

\* A thread that began a submission after the stop request is past the gate,
\* and will read the predicate before it begins another one.
StopOK ==
  stop => \A w \in Workers :
    late[w] <= 1 /\ (wpc[w] = "pace" => late[w] = 0)

\* The producer reads err between two puts.
FailureOK ==
  /\ ppc \in {"next", "put"} => latePuts = 0
  /\ latePuts <= 1
  /\ latePuts = 1 => err # None

\* err and n_submitted tell which outcomes there have been.
ResultOK ==
  /\ (\E c \in Candidates : outcome[c] = "failed") => err # None
  /\ nSubmitted # 0 <=> \E c \in Candidates : outcome[c] = "submitted"

IndInv ==
  /\ TypeOK /\ QueueOK /\ HeldOK /\ FreshOK /\ NotLost /\ SentAtMostOnce
  /\ ClosingOK /\ StopOK /\ FailureOK /\ ResultOK

-----------------------------------------------------------------------------
(***************************************************************************)
(* Facts about the queue operations.                                       *)
(***************************************************************************)

\* What q.put leaves in the queue.
LEMMA AppendCells ==
  ASSUME NEW S, NEW s \in Seq(S), NEW e \in S
  PROVE  /\ Append(s, e) \in Seq(S)
         /\ Len(Append(s, e)) = Len(s) + 1
         /\ \A i \in 1..Len(s) : Append(s, e)[i] = s[i]
         /\ Append(s, e)[Len(s) + 1] = e
  OBVIOUS

\* What q.get leaves in the queue.
LEMMA TailCells ==
  ASSUME NEW S, NEW s \in Seq(S), s # <<>>
  PROVE  /\ Tail(s) \in Seq(S) /\ Head(s) \in S /\ Head(s) = s[1]
         /\ Len(s) \in Nat \ {0} /\ Len(Tail(s)) = Len(s) - 1
         /\ \A i \in 1..Len(Tail(s)) : Tail(s)[i] = s[i + 1]
  OBVIOUS

-----------------------------------------------------------------------------
(***************************************************************************)
(* Type correctness.                                                       *)
(***************************************************************************)

\* A step of the calling thread keeps every type.
LEMMA ProducerType == TypeOK /\ Producer => TypeOK'
<1> SUFFICES ASSUME TypeOK, Producer PROVE TypeOK'
  OBVIOUS
<1> USE PipelineAssumption DEF TypeOK, consumer, Candidates, None,
      ProducerRunning, ProducerEnded, Holding
<1>1. CASE Yield
  BY <1>1 DEF Yield
<1>2. CASE StreamEnds
  BY <1>2 DEF StreamEnds
<1>3. CASE StreamRaises
  BY <1>3 DEF StreamRaises
<1>4. CASE Put
  <2>1. PICK S : S = {None} \cup Candidates
    OBVIOUS
  <2>2. q \in Seq(S) /\ (yielded \in S \/ yielded = 0)
    BY <2>1, <1>4 DEF Put
  <2>3. yielded \in S
    BY <2>1, <2>2
  <2>4. q' \in Seq(S) /\ Len(q') <= QMax
    BY <1>4, <2>2, <2>3, AppendCells DEF Put
  <2>5. QED
    BY <1>4, <2>1, <2>4 DEF Put
<1>5. CASE CheckErr
  BY <1>5 DEF CheckErr
<1>6. CASE PutSentinel
  <2>1. q' \in Seq({None} \cup Candidates) /\ Len(q') <= QMax
    BY <1>6, AppendCells DEF PutSentinel
  <2>2. unposted' \subseteq Workers
    BY <1>6 DEF PutSentinel
  <2>3. QED
    BY <1>6, <2>1, <2>2 DEF PutSentinel
<1>7. CASE SentinelsPosted
  BY <1>7 DEF SentinelsPosted
<1>8. CASE Join
  BY <1>8 DEF Join, RoundResult
<1>9. QED
  BY <1>1, <1>2, <1>3, <1>4, <1>5, <1>6, <1>7, <1>8 DEF Producer

\* A step of a submit thread keeps every type.
LEMMA ConsumerType ==
  ASSUME NEW w \in Workers
  PROVE  TypeOK /\ Consumer(w) => TypeOK'
<1> SUFFICES ASSUME TypeOK, Consumer(w) PROVE TypeOK'
  OBVIOUS
<1> USE DEF TypeOK, producer, Candidates, None, Holding
<1>0. wpc[w] \in Holding \cup {"get", "done"} /\ item[w] \in {None} \cup Candidates
  OBVIOUS
<1>1. CASE Get(w)
  <2>1. /\ q' \in Seq({None} \cup Candidates) /\ Len(q') <= QMax
        /\ Head(q) \in {None} \cup Candidates
    BY <1>1, TailCells, PipelineAssumption DEF Get
  <2>2. QED
    BY <1>1, <2>1 DEF Get
<1>2. CASE CheckStop(w)
  BY <1>2 DEF CheckStop
<1>3. CASE SubmitStart(w)
  <2>1. attempts' \in [Candidates -> Nat]
    <3>1. CASE item[w] \in Candidates
      <4>1. attempts[item[w]] + 1 \in Nat
        BY <3>1
      <4>2. QED
        BY <1>3, <3>1, <4>1 DEF SubmitStart
    <3>2. CASE item[w] \notin Candidates
      <4>1. attempts' = attempts
        BY <1>3, <3>2 DEF SubmitStart
      <4>2. QED
        BY <4>1
    <3>3. QED
      BY <3>1, <3>2
  <2>2. late' \in [Workers -> Nat] /\ wpc' \in [Workers -> Holding \cup {"get", "done"}]
    BY <1>3 DEF SubmitStart
  <2>3. QED
    BY <1>3, <2>1, <2>2 DEF SubmitStart
<1>4. CASE SubmitAborts(w)
  BY <1>4 DEF SubmitAborts
<1>5. CASE SubmitAnswered(w)
  BY <1>5 DEF SubmitAnswered
<1>6. CASE SubmitRaises(w)
  BY <1>6 DEF SubmitRaises
<1>7. CASE Count(w)
  <2>1. nSubmitted' \in Nat /\ wpc' \in [Workers -> Holding \cup {"get", "done"}]
    BY <1>7 DEF Count
  <2>2. /\ outcome' \in [Candidates -> {"open", "submitted", "failed", "dropped"}]
        /\ item' \in [Workers -> {None} \cup Candidates]
    BY <1>7 DEF Count
  <2>3. QED
    BY <1>7, <2>1, <2>2 DEF Count
<1>8. CASE RecordErr(w)
  <2>1. err' \in {None} \cup Candidates
    BY <1>0, <1>8 DEF RecordErr
  <2>2. wpc' \in [Workers -> Holding \cup {"get", "done"}]
    BY <1>8 DEF RecordErr
  <2>3. /\ outcome' \in [Candidates -> {"open", "submitted", "failed", "dropped"}]
        /\ item' \in [Workers -> {None} \cup Candidates]
    BY <1>8 DEF RecordErr
  <2>4. QED
    BY <1>8, <2>1, <2>2, <2>3 DEF RecordErr
<1>9. QED
  BY <1>1, <1>2, <1>3, <1>4, <1>5, <1>6, <1>7, <1>8 DEF Consumer

\* Every step keeps every type.
LEMMA NextType == TypeOK /\ [Next]_vars => TypeOK'
<1> SUFFICES ASSUME TypeOK, [Next]_vars PROVE TypeOK'
  OBVIOUS
<1>1. CASE Producer
  BY <1>1, ProducerType
<1>2. ASSUME NEW w \in Workers, Consumer(w) PROVE TypeOK'
  BY <1>2, ConsumerType
<1>3. CASE StopRequested
  <2>1. late' \in [Workers -> Nat]
    BY <1>3 DEF StopRequested
  <2>2. QED
    BY <1>3, <2>1 DEF TypeOK, StopRequested, producer, consumer
<1>4. CASE StopWithdrawn
  BY <1>4 DEF TypeOK, StopWithdrawn, producer, consumer
<1>5. CASE Ended \/ UNCHANGED vars
  BY <1>5 DEF TypeOK, Ended, vars
<1>6. QED
  BY <1>1, <1>2, <1>3, <1>4, <1>5 DEF Next

\* The round starts well typed: an empty queue and idle threads.
LEMMA InitType == Init => TypeOK
<1> SUFFICES ASSUME Init PROVE TypeOK
  OBVIOUS
<1>1. q \in Seq({None} \cup Candidates) /\ Len(q) <= QMax
  BY PipelineAssumption DEF Init
<1>2. /\ wpc \in [Workers -> Holding \cup {"get", "done"}]
      /\ item \in [Workers -> {None} \cup Candidates]
      /\ late \in [Workers -> Nat]
  BY DEF Init
<1>3. /\ outcome \in [Candidates -> {"open", "submitted", "failed", "dropped"}]
      /\ attempts \in [Candidates -> Nat]
  BY DEF Init
<1>4. yielded \in 0..MaxReturn /\ err \in {None} \cup Candidates
  BY PipelineAssumption DEF Init
<1>5. ppc \in ProducerRunning
  BY DEF Init, ProducerRunning
<1>6. QED
  BY <1>1, <1>2, <1>3, <1>4, <1>5 DEF Init, TypeOK

\* Every variable keeps its type (the hand-over in miner.py 443-536).
THEOREM TypeCorrect == Spec => []TypeOK
  BY InitType, NextType, PTL DEF Spec, Safety

-----------------------------------------------------------------------------
(***************************************************************************)
(* The inductive invariant: one lemma per part, one step per action.       *)
(***************************************************************************)

\* The round starts in the invariant: nothing has been yielded yet.
LEMMA InitIndInv == Init => IndInv
<1> SUFFICES ASSUME Init PROVE IndInv
  OBVIOUS
<1> USE DEF Init
<1>1. TypeOK
  BY InitType
<1>2. QueueOK
  BY DEF QueueOK
<1>3. HeldOK
  BY DEF HeldOK, Holding
<1>4. FreshOK /\ SentAtMostOnce
  BY DEF FreshOK, SentAtMostOnce
<1>5. NotLost
  BY DEF NotLost
<1>6. ClosingOK
  BY DEF ClosingOK, ProducerEnded
<1>7. StopOK /\ FailureOK /\ ResultOK
  BY DEF StopOK, FailureOK, ResultOK
<1>8. QED
  BY <1>1, <1>2, <1>3, <1>4, <1>5, <1>6, <1>7 DEF IndInv

\* What the search has yielded so far are candidates.
LEMMA YieldedAreCandidates ==
  TypeOK => yielded \in Nat /\ 1..yielded \subseteq Candidates
  BY PipelineAssumption DEF TypeOK, Candidates

\* The join is followed by the end of the call, whichever it is.
LEMMA JoinEnds == Join => ppc' \in ProducerEnded
  BY DEF Join, RoundResult, ProducerEnded

\* The look at the stop predicate drops the candidate in hand or nothing.
LEMMA CheckStopDecides ==
  ASSUME NEW w \in Workers, TypeOK, CheckStop(w)
  PROVE  \A c \in Candidates :
           /\ outcome'[c] = outcome[c] \/ (c = item[w] /\ outcome'[c] = "dropped")
           /\ outcome'[c] = "open" => outcome[c] = "open" /\ (c # item[w] \/ item' = item)
<1>1. outcome \in [Candidates -> {"open", "submitted", "failed", "dropped"}]
  BY DEF TypeOK
<1>2. \/ item' = item /\ outcome' = outcome
      \/ outcome' = [outcome EXCEPT ![item[w]] = "dropped"]
  BY DEF CheckStop
<1>3. CASE item' = item /\ outcome' = outcome
  BY <1>3
<1>4. CASE outcome' = [outcome EXCEPT ![item[w]] = "dropped"]
  <2>1. \A c \in Candidates : outcome'[c] = IF c = item[w] THEN "dropped" ELSE outcome[c]
    BY <1>1, <1>4
  <2>2. QED
    BY <2>1
<1>5. QED
  BY <1>2, <1>3, <1>4

\* QueueOK is preserved: only Put and PutSentinel add a cell, and only the
\* candidate in the producer's hand enters one (miner.py 523, 528).
LEMMA QueueStep == IndInv /\ [Next]_vars => QueueOK'
<1> SUFFICES ASSUME IndInv, [Next]_vars PROVE QueueOK'
  OBVIOUS
<1> USE DEF IndInv, TypeOK, QueueOK, InHand, None, Candidates, Holding
<1>1. CASE Yield
  BY <1>1 DEF Yield, consumer
<1>2. CASE StreamEnds
  BY <1>2 DEF StreamEnds, consumer
<1>3. CASE StreamRaises
  BY <1>3 DEF StreamRaises, consumer
<1>4. CASE Put
  <2>1. /\ Len(q') = Len(q) + 1 /\ q'[Len(q) + 1] = yielded
        /\ \A i \in 1..Len(q) : q'[i] = q[i]
    BY <1>4, AppendCells DEF Put
  <2>2. /\ ppc = "put" /\ ppc' = "check" /\ yielded' = yielded /\ item' = item
        /\ outcome' = outcome /\ attempts' = attempts
    BY <1>4 DEF Put, consumer
  <2>3. yielded \in Candidates /\ yielded # None
    BY <2>2 DEF ClosingOK
  <2>4. /\ outcome[yielded] = "open" /\ attempts[yielded] = 0
        /\ \A w \in Workers : item[w] # yielded
    BY <2>2, <2>3 DEF FreshOK, HeldOK
  <2>5. ASSUME NEW i \in 1..Len(q'), q'[i] # None
        PROVE  /\ q'[i] <= yielded' /\ ~(q'[i] = yielded' /\ ppc' = "put")
               /\ outcome'[q'[i]] = "open" /\ attempts'[q'[i]] = 0
               /\ \A w \in Workers : item'[w] # q'[i]
    <3>1. CASE i = Len(q) + 1
      BY <2>1, <2>2, <2>3, <2>4, <3>1
    <3>2. CASE i \in 1..Len(q)
      BY <2>1, <2>2, <2>5, <3>2
    <3>3. QED
      BY <2>1, <3>1, <3>2
  <2>6. ASSUME NEW i \in 1..Len(q'), NEW j \in 1..Len(q'), q'[i] # None, q'[j] = q'[i]
        PROVE  j = i
    <3>1. \A l \in 1..Len(q) : q[l] # yielded
      BY <2>2, <2>3
    <3>2. Len(q) \in Nat
      OBVIOUS
    <3>3. CASE i \in 1..Len(q) /\ j \in 1..Len(q)
      BY <2>1, <2>6, <3>3
    <3>4. CASE ~(i \in 1..Len(q) /\ j \in 1..Len(q))
      <4>1. \A l \in 1..Len(q') : l \in 1..Len(q) \/ l = Len(q) + 1
        BY <2>1, <3>2
      <4>2. QED
        BY <2>1, <2>6, <3>1, <3>4, <4>1
    <3>5. QED
      BY <3>3, <3>4
  <2> HIDE DEF IndInv, TypeOK
  <2>7. QED
    BY <2>5, <2>6 DEF QueueOK
<1>5. CASE CheckErr
  BY <1>5 DEF CheckErr, consumer
<1>6. CASE PutSentinel
  BY <1>6 DEF PutSentinel, consumer
<1>7. CASE SentinelsPosted
  BY <1>7 DEF SentinelsPosted, consumer
<1>8. CASE Join
  <2>1. ppc' \in ProducerEnded
    BY <1>8, JoinEnds
  <2>2. UNCHANGED <<yielded, q, unposted, genErr, consumer, stop, late, latePuts>>
    BY <1>8 DEF Join
  <2>3. \A w \in Workers : wpc[w] = "done"
    BY <1>8 DEF Join
  <2>4. ppc = "join"
    BY <1>8 DEF Join
  <2>5. QED
    BY <2>1, <2>2, <2>3, <2>4 DEF consumer, ProducerEnded
<1>9. ASSUME NEW w \in Workers, Get(w) PROVE QueueOK'
  BY <1>9 DEF Get, producer
<1>10. ASSUME NEW w \in Workers, CheckStop(w) PROVE QueueOK'
  <2>1. UNCHANGED <<ppc, yielded, q, attempts>>
    BY <1>10 DEF CheckStop, producer
  <2>2. item[w] # None
    BY <1>10 DEF CheckStop, HeldOK
  <2>3. \A c \in Candidates : c # item[w] => outcome'[c] = outcome[c]
    <3> HIDE DEF TypeOK, Candidates
    <3>1. TypeOK
      OBVIOUS
    <3> HIDE DEF IndInv
    <3>2. QED
      BY <1>10, <3>1, CheckStopDecides
  <2>4. \A v \in Workers : item'[v] \in {item[v], None}
    BY <1>10 DEF CheckStop
  <2>5. QED
    BY <2>1, <2>2, <2>3, <2>4
<1>11. ASSUME NEW w \in Workers, SubmitStart(w) PROVE QueueOK'
  BY <1>11 DEF SubmitStart, producer
<1>12. ASSUME NEW w \in Workers, SubmitAborts(w) PROVE QueueOK'
  BY <1>12 DEF SubmitAborts, producer
<1>13. ASSUME NEW w \in Workers, SubmitAnswered(w) PROVE QueueOK'
  BY <1>13 DEF SubmitAnswered, producer
<1>14. ASSUME NEW w \in Workers, SubmitRaises(w) PROVE QueueOK'
  BY <1>14 DEF SubmitRaises, producer
<1>15. ASSUME NEW w \in Workers, Count(w) PROVE QueueOK'
  BY <1>15 DEF Count, producer
<1>16. ASSUME NEW w \in Workers, RecordErr(w) PROVE QueueOK'
  BY <1>16 DEF RecordErr, producer
<1>17. CASE StopRequested
  BY <1>17 DEF StopRequested, producer, consumer
<1>18. CASE StopWithdrawn
  BY <1>18 DEF StopWithdrawn, producer, consumer
<1>19. CASE Ended \/ UNCHANGED vars
  <2>1. UNCHANGED vars
    BY <1>19 DEF Ended
  <2>2. /\ ppc' = ppc /\ yielded' = yielded /\ q' = q /\ item' = item
        /\ wpc' = wpc /\ outcome' = outcome /\ attempts' = attempts
    BY <2>1 DEF vars
  <2>3. QED
    BY <2>2
<1>20. QED
  BY <1>1, <1>2, <1>3, <1>4, <1>5, <1>6, <1>7, <1>8, <1>9, <1>10,
     <1>11, <1>12, <1>13, <1>14, <1>15, <1>16, <1>17, <1>18, <1>19 DEF Next, Producer, Consumer

\* HeldOK is preserved: Get moves the head cell to one thread (miner.py 494-499).
LEMMA HeldStep == IndInv /\ [Next]_vars => HeldOK'
<1> SUFFICES ASSUME IndInv, [Next]_vars PROVE HeldOK'
  OBVIOUS
<1> USE DEF IndInv, TypeOK, HeldOK, InHand, None, Candidates, Holding
<1>1. CASE Yield
  BY <1>1 DEF Yield, consumer
<1>2. CASE StreamEnds
  BY <1>2 DEF StreamEnds, consumer
<1>3. CASE StreamRaises
  BY <1>3 DEF StreamRaises, consumer
<1>4. CASE Put
  BY <1>4 DEF Put, consumer
<1>5. CASE CheckErr
  BY <1>5 DEF CheckErr, consumer
<1>6. CASE PutSentinel
  BY <1>6 DEF PutSentinel, consumer
<1>7. CASE SentinelsPosted
  BY <1>7 DEF SentinelsPosted, consumer
<1>8. CASE Join
  <2>1. ppc' \in ProducerEnded
    BY <1>8, JoinEnds
  <2>2. UNCHANGED <<yielded, q, unposted, genErr, consumer, stop, late, latePuts>>
    BY <1>8 DEF Join
  <2>3. \A w \in Workers : wpc[w] = "done"
    BY <1>8 DEF Join
  <2>4. ppc = "join"
    BY <1>8 DEF Join
  <2>5. QED
    BY <2>1, <2>2, <2>3, <2>4 DEF consumer, ProducerEnded
<1>9. ASSUME NEW w \in Workers, Get(w) PROVE HeldOK'
  <2>1. /\ wpc[w] = "get" /\ item' = [item EXCEPT ![w] = Head(q)]
        /\ wpc' = [wpc EXCEPT ![w] = IF Head(q) = None THEN "done" ELSE "check"]
        /\ UNCHANGED <<ppc, yielded, outcome, attempts>>
    BY <1>9 DEF Get, producer
  <2>2. Head(q) = q[1] /\ 1 \in 1..Len(q) /\ Head(q) \in {None} \cup Candidates
    BY <1>9, TailCells DEF Get
  <2>3. CASE Head(q) = None
    BY <2>1, <2>3
  <2>4. CASE Head(q) # None
    <3>1. /\ Head(q) <= yielded /\ ~InHand(Head(q)) /\ outcome[Head(q)] = "open"
          /\ attempts[Head(q)] = 0 /\ \A v \in Workers : item[v] # Head(q)
      BY <2>2, <2>4 DEF QueueOK
    <3>2. /\ item'[w] = Head(q) /\ wpc'[w] = "check"
          /\ \A v \in Workers : v # w => item'[v] = item[v] /\ wpc'[v] = wpc[v]
      BY <2>1, <2>4
    <3>3. QED
      BY <2>1, <2>4, <3>1, <3>2
  <2>5. QED
    BY <2>3, <2>4
<1>10. ASSUME NEW w \in Workers, CheckStop(w) PROVE HeldOK'
  <2>1. UNCHANGED <<ppc, yielded, attempts>>
    BY <1>10 DEF CheckStop, producer
  <2>2. CASE stop
    <3>1. /\ wpc' = [wpc EXCEPT ![w] = "get"] /\ item' = [item EXCEPT ![w] = None]
          /\ outcome' = [outcome EXCEPT ![item[w]] = "dropped"]
      BY <1>10, <2>2 DEF CheckStop
    <3>2. QED
      BY <2>1, <3>1
  <2>3. CASE ~stop
    <3>1. /\ wpc[w] = "check" /\ wpc' = [wpc EXCEPT ![w] = "pace"]
          /\ UNCHANGED <<item, outcome>>
      BY <1>10, <2>3 DEF CheckStop
    <3>2. QED
      BY <2>1, <3>1
  <2>4. QED
    BY <2>2, <2>3
<1>11. ASSUME NEW w \in Workers, SubmitStart(w) PROVE HeldOK'
  BY <1>11 DEF SubmitStart, producer
<1>12. ASSUME NEW w \in Workers, SubmitAborts(w) PROVE HeldOK'
  BY <1>12 DEF SubmitAborts, producer
<1>13. ASSUME NEW w \in Workers, SubmitAnswered(w) PROVE HeldOK'
  BY <1>13 DEF SubmitAnswered, producer
<1>14. ASSUME NEW w \in Workers, SubmitRaises(w) PROVE HeldOK'
  BY <1>14 DEF SubmitRaises, producer
<1>15. ASSUME NEW w \in Workers, Count(w) PROVE HeldOK'
  BY <1>15 DEF Count, producer
<1>16. ASSUME NEW w \in Workers, RecordErr(w) PROVE HeldOK'
  BY <1>16 DEF RecordErr, producer
<1>17. CASE StopRequested
  BY <1>17 DEF StopRequested, producer, consumer
<1>18. CASE StopWithdrawn
  BY <1>18 DEF StopWithdrawn, producer, consumer
<1>19. CASE Ended \/ UNCHANGED vars
  <2>1. UNCHANGED vars
    BY <1>19 DEF Ended
  <2>2. /\ ppc' = ppc /\ yielded' = yielded /\ q' = q /\ item' = item
        /\ wpc' = wpc /\ outcome' = outcome /\ attempts' = attempts
    BY <2>1 DEF vars
  <2>3. QED
    BY <2>2
<1>20. QED
  BY <1>1, <1>2, <1>3, <1>4, <1>5, <1>6, <1>7, <1>8, <1>9, <1>10,
     <1>11, <1>12, <1>13, <1>14, <1>15, <1>16, <1>17, <1>18, <1>19 DEF Next, Producer, Consumer

\* FreshOK is preserved: a thread only decides the candidate it holds, which was
\* put on the queue before.
LEMMA FreshStep == IndInv /\ [Next]_vars => FreshOK'
<1> SUFFICES ASSUME IndInv, [Next]_vars PROVE FreshOK'
  OBVIOUS
<1> USE DEF IndInv, TypeOK, FreshOK, InHand, None, Candidates, Holding, HeldOK
<1>1. CASE Yield
  BY <1>1 DEF Yield, consumer
<1>2. CASE StreamEnds
  BY <1>2 DEF StreamEnds, consumer
<1>3. CASE StreamRaises
  BY <1>3 DEF StreamRaises, consumer
<1>4. CASE Put
  BY <1>4 DEF Put, consumer
<1>5. CASE CheckErr
  BY <1>5 DEF CheckErr, consumer
<1>6. CASE PutSentinel
  BY <1>6 DEF PutSentinel, consumer
<1>7. CASE SentinelsPosted
  BY <1>7 DEF SentinelsPosted, consumer
<1>8. CASE Join
  <2>1. ppc' \in ProducerEnded
    BY <1>8, JoinEnds
  <2>2. UNCHANGED <<yielded, q, unposted, genErr, consumer, stop, late, latePuts>>
    BY <1>8 DEF Join
  <2>3. \A w \in Workers : wpc[w] = "done"
    BY <1>8 DEF Join
  <2>4. ppc = "join"
    BY <1>8 DEF Join
  <2>5. QED
    BY <2>1, <2>2, <2>3, <2>4 DEF consumer, ProducerEnded
<1>9. ASSUME NEW w \in Workers, Get(w) PROVE FreshOK'
  BY <1>9 DEF Get, producer
<1>10. ASSUME NEW w \in Workers, CheckStop(w) PROVE FreshOK'
  <2>1. UNCHANGED <<ppc, yielded, attempts>>
    BY <1>10 DEF CheckStop, producer
  <2>2. item[w] # None
    BY <1>10 DEF CheckStop
  <2>3. \A c \in Candidates : c # item[w] => outcome'[c] = outcome[c]
    <3> HIDE DEF TypeOK, Candidates
    <3>1. TypeOK
      OBVIOUS
    <3> HIDE DEF IndInv
    <3>2. QED
      BY <1>10, <3>1, CheckStopDecides
  <2>4. QED
    BY <2>1, <2>2, <2>3
<1>11. ASSUME NEW w \in Workers, SubmitStart(w) PROVE FreshOK'
  BY <1>11 DEF SubmitStart, producer
<1>12. ASSUME NEW w \in Workers, SubmitAborts(w) PROVE FreshOK'
  BY <1>12 DEF SubmitAborts, producer
<1>13. ASSUME NEW w \in Workers, SubmitAnswered(w) PROVE FreshOK'
  BY <1>13 DEF SubmitAnswered, producer
<1>14. ASSUME NEW w \in Workers, SubmitRaises(w) PROVE FreshOK'
  BY <1>14 DEF SubmitRaises, producer
<1>15. ASSUME NEW w \in Workers, Count(w) PROVE FreshOK'
  BY <1>15 DEF Count, producer
<1>16. ASSUME NEW w \in Workers, RecordErr(w) PROVE FreshOK'
  BY <1>16 DEF RecordErr, producer
<1>17. CASE StopRequested
  BY <1>17 DEF StopRequested, producer, consumer
<1>18. CASE StopWithdrawn
  BY <1>18 DEF StopWithdrawn, producer, consumer
<1>19. CASE Ended \/ UNCHANGED vars
  <2>1. UNCHANGED <<ppc, yielded, outcome, attempts>>
    BY <1>19 DEF Ended, vars, producer
  <2> HIDE DEF IndInv, TypeOK, HeldOK
  <2>2. FreshOK
    BY DEF IndInv
  <2>3. QED
    BY <2>1, <2>2
<1>20. QED
  BY <1>1, <1>2, <1>3, <1>4, <1>5, <1>6, <1>7, <1>8, <1>9, <1>10,
     <1>11, <1>12, <1>13, <1>14, <1>15, <1>16, <1>17, <1>18, <1>19 DEF Next, Producer, Consumer

\* NotLost is preserved: each candidate that leaves a place enters the next one
\* or gets its outcome in the same step.
LEMMA NotLostStep == IndInv /\ [Next]_vars => NotLost'
<1> SUFFICES ASSUME IndInv, [Next]_vars PROVE NotLost'
  OBVIOUS
<1> USE DEF IndInv, TypeOK, NotLost, InHand, None, Candidates, Holding, InQueue
<1>1. CASE Yield
  <2>1. ppc = "next" /\ ppc' = "put" /\ yielded' = yielded + 1
    BY <1>1 DEF Yield
  <2>2. UNCHANGED <<q, item, outcome>>
    BY <1>1 DEF Yield, consumer
  <2> SUFFICES ASSUME NEW c \in 1..yielded', outcome'[c] = "open"
              PROVE  InHand(c)' \/ InQueue(c)' \/ \E v \in Workers : item'[v] = c
    OBVIOUS
  <2>3. CASE c = yielded'
    BY <2>1, <2>3
  <2>4. CASE c # yielded'
    <3>1. c \in 1..yielded /\ outcome[c] = "open"
      BY <2>1, <2>2, <2>4
    <3>2. InQueue(c) \/ \E v \in Workers : item[v] = c
      BY <3>1, <2>1
    <3>3. QED
      BY <2>2, <3>2
  <2>5. QED
    BY <2>3, <2>4
<1>2. CASE StreamEnds
  BY <1>2 DEF StreamEnds, consumer
<1>3. CASE StreamRaises
  BY <1>3 DEF StreamRaises, consumer
<1>4. CASE Put
  <2>1. /\ Len(q') = Len(q) + 1 /\ q'[Len(q) + 1] = yielded
        /\ \A i \in 1..Len(q) : q'[i] = q[i]
    BY <1>4, AppendCells DEF Put
  <2>2. UNCHANGED <<yielded, item, outcome>>
    BY <1>4 DEF Put, consumer
  <2>3. \A c : InHand(c) \/ InQueue(c) => InQueue(c)'
    <3>1. Len(q) \in Nat /\ Len(q) + 1 \in 1..Len(q') /\ 1..Len(q) \subseteq 1..Len(q')
      BY <2>1
    <3>2. \A c : InQueue(c) => InQueue(c)'
      BY <2>1, <3>1
    <3>3. \A c : InHand(c) => InQueue(c)'
      BY <2>1, <3>1
    <3>4. QED
      BY <3>2, <3>3
  <2> HIDE DEF InHand, InQueue
  <2>4. QED
    BY <2>2, <2>3
<1>5. CASE CheckErr
  BY <1>5 DEF CheckErr, consumer
<1>6. CASE PutSentinel
  BY <1>6 DEF PutSentinel, consumer
<1>7. CASE SentinelsPosted
  BY <1>7 DEF SentinelsPosted, consumer
<1>8. CASE Join
  <2>1. ppc' \in ProducerEnded
    BY <1>8, JoinEnds
  <2>2. UNCHANGED <<yielded, q, unposted, genErr, consumer, stop, late, latePuts>>
    BY <1>8 DEF Join
  <2>3. \A w \in Workers : wpc[w] = "done"
    BY <1>8 DEF Join
  <2>4. ppc = "join"
    BY <1>8 DEF Join
  <2>5. QED
    BY <2>1, <2>2, <2>3, <2>4 DEF consumer, ProducerEnded
<1>9. ASSUME NEW w \in Workers, Get(w) PROVE NotLost'
  <2>1. UNCHANGED <<ppc, yielded, outcome>> /\ wpc[w] = "get"
    BY <1>9 DEF Get, producer
  <2>2. \A c \in Candidates : InQueue(c) => c = Head(q) \/ InQueue(c)'
    <3>1. /\ Len(q) \in Nat \ {0} /\ Len(q') = Len(q) - 1 /\ Head(q) = q[1]
          /\ \A i \in 1..Len(q') : q'[i] = q[i + 1]
      BY <1>9, TailCells DEF Get
    <3>2. ASSUME NEW c \in Candidates, NEW i \in 1..Len(q), q[i] = c, c # q[1]
          PROVE  i - 1 \in 1..Len(q') /\ q'[i - 1] = c
      BY <3>1, <3>2
    <3>3. QED
      BY <3>1, <3>2
  <2>3. item[w] = None
    BY <2>1 DEF HeldOK
  <2>4. item'[w] = Head(q) /\ \A v \in Workers : v # w => item'[v] = item[v]
    BY <1>9 DEF Get
  <2>5. \A c \in Candidates : (\E v \in Workers : item[v] = c) => \E v \in Workers : item'[v] = c
    BY <2>3, <2>4
  <2> SUFFICES ASSUME NEW c \in 1..yielded', outcome'[c] = "open"
              PROVE  InHand(c)' \/ InQueue(c)' \/ \E v \in Workers : item'[v] = c
    OBVIOUS
  <2>6. c \in Candidates /\ c # None /\ c \in 1..yielded /\ outcome[c] = "open"
    BY <2>1
  <2>7. InHand(c) \/ InQueue(c) \/ \E v \in Workers : item[v] = c
    BY <2>6
  <2>8. InHand(c) => InHand(c)'
    BY <2>1
  <2> HIDE DEF InHand, InQueue
  <2>9. QED
    BY <2>2, <2>4, <2>5, <2>6, <2>7, <2>8
<1>10. ASSUME NEW w \in Workers, CheckStop(w) PROVE NotLost'
  <2>1. UNCHANGED <<ppc, yielded, q>>
    BY <1>10 DEF CheckStop, producer
  <2>2. \A c \in Candidates : outcome'[c] = "open" => outcome[c] = "open" /\ (c # item[w] \/ item' = item)
    <3> HIDE DEF TypeOK, Candidates
    <3>1. TypeOK
      OBVIOUS
    <3> HIDE DEF IndInv
    <3>2. QED
      BY <1>10, <3>1, CheckStopDecides
  <2>3. \A v \in Workers : v # w => item'[v] = item[v]
    BY <1>10 DEF CheckStop
  <2> SUFFICES ASSUME NEW c \in 1..yielded', outcome'[c] = "open"
              PROVE  InHand(c)' \/ InQueue(c)' \/ \E v \in Workers : item'[v] = c
    OBVIOUS
  <2>9. c \in Candidates /\ c \in 1..yielded
    BY <2>1, YieldedAreCandidates
  <2>4. c \in Candidates /\ c \in 1..yielded /\ outcome[c] = "open"
    BY <2>9, <2>2
  <2>5. InHand(c) \/ InQueue(c) \/ \E v \in Workers : item[v] = c
    BY <2>4
  <2>6. (InHand(c) => InHand(c)') /\ (InQueue(c) => InQueue(c)')
    BY <2>1
  <2> HIDE DEF InHand, InQueue
  <2>7. QED
    BY <2>2, <2>3, <2>4, <2>5, <2>6
<1>11. ASSUME NEW w \in Workers, SubmitStart(w) PROVE NotLost'
  BY <1>11 DEF SubmitStart, producer
<1>12. ASSUME NEW w \in Workers, SubmitAborts(w) PROVE NotLost'
  BY <1>12 DEF SubmitAborts, producer
<1>13. ASSUME NEW w \in Workers, SubmitAnswered(w) PROVE NotLost'
  BY <1>13 DEF SubmitAnswered, producer
<1>14. ASSUME NEW w \in Workers, SubmitRaises(w) PROVE NotLost'
  BY <1>14 DEF SubmitRaises, producer
<1>15. ASSUME NEW w \in Workers, Count(w) PROVE NotLost'
  <2>1. UNCHANGED <<ppc, yielded, q>>
    BY <1>15 DEF Count, producer
  <2>2. \A c \in Candidates : outcome'[c] = "open" => outcome[c] = "open" /\ (c # item[w] \/ item' = item)
    BY <1>15 DEF Count
  <2>3. \A v \in Workers : v # w => item'[v] = item[v]
    BY <1>15 DEF Count
  <2> SUFFICES ASSUME NEW c \in 1..yielded', outcome'[c] = "open"
              PROVE  InHand(c)' \/ InQueue(c)' \/ \E v \in Workers : item'[v] = c
    OBVIOUS
  <2>9. c \in Candidates /\ c \in 1..yielded
    BY <2>1, YieldedAreCandidates
  <2>4. c \in Candidates /\ c \in 1..yielded /\ outcome[c] = "open"
    BY <2>9, <2>2
  <2>5. InHand(c) \/ InQueue(c) \/ \E v \in Workers : item[v] = c
    BY <2>4
  <2>6. (InHand(c) => InHand(c)') /\ (InQueue(c) => InQueue(c)')
    BY <2>1
  <2> HIDE DEF InHand, InQueue
  <2>7. QED
    BY <2>2, <2>3, <2>4, <2>5, <2>6
<1>16. ASSUME NEW w \in Workers, RecordErr(w) PROVE NotLost'
  <2>1. UNCHANGED <<ppc, yielded, q>>
    BY <1>16 DEF RecordErr, producer
  <2>2. \A c \in Candidates : outcome'[c] = "open" => outcome[c] = "open" /\ (c # item[w] \/ item' = item)
    BY <1>16 DEF RecordErr
  <2>3. \A v \in Workers : v # w => item'[v] = item[v]
    BY <1>16 DEF RecordErr
  <2> SUFFICES ASSUME NEW c \in 1..yielded', outcome'[c] = "open"
              PROVE  InHand(c)' \/ InQueue(c)' \/ \E v \in Workers : item'[v] = c
    OBVIOUS
  <2>9. c \in Candidates /\ c \in 1..yielded
    BY <2>1, YieldedAreCandidates
  <2>4. c \in Candidates /\ c \in 1..yielded /\ outcome[c] = "open"
    BY <2>9, <2>2
  <2>5. InHand(c) \/ InQueue(c) \/ \E v \in Workers : item[v] = c
    BY <2>4
  <2>6. (InHand(c) => InHand(c)') /\ (InQueue(c) => InQueue(c)')
    BY <2>1
  <2> HIDE DEF InHand, InQueue
  <2>7. QED
    BY <2>2, <2>3, <2>4, <2>5, <2>6
<1>17. CASE StopRequested
  BY <1>17 DEF StopRequested, producer, consumer
<1>18. CASE StopWithdrawn
  BY <1>18 DEF StopWithdrawn, producer, consumer
<1>19. CASE Ended \/ UNCHANGED vars
  BY <1>19 DEF Ended, vars
<1>20. QED
  BY <1>1, <1>2, <1>3, <1>4, <1>5, <1>6, <1>7, <1>8, <1>9, <1>10,
     <1>11, <1>12, <1>13, <1>14, <1>15, <1>16, <1>17, <1>18, <1>19 DEF Next, Producer, Consumer

\* No step sends a candidate twice: the thread that sends it holds it unsent.
LEMMA SentStep == IndInv /\ [Next]_vars => SentAtMostOnce'
<1> SUFFICES ASSUME IndInv, [Next]_vars PROVE SentAtMostOnce'
  OBVIOUS
<1> USE DEF IndInv, TypeOK, SentAtMostOnce, InHand, None, Candidates, Holding, HeldOK
<1>1. CASE Yield
  BY <1>1 DEF Yield, consumer
<1>2. CASE StreamEnds
  BY <1>2 DEF StreamEnds, consumer
<1>3. CASE StreamRaises
  BY <1>3 DEF StreamRaises, consumer
<1>4. CASE Put
  BY <1>4 DEF Put, consumer
<1>5. CASE CheckErr
  BY <1>5 DEF CheckErr, consumer
<1>6. CASE PutSentinel
  BY <1>6 DEF PutSentinel, consumer
<1>7. CASE SentinelsPosted
  BY <1>7 DEF SentinelsPosted, consumer
<1>8. CASE Join
  BY <1>8 DEF Join, consumer
<1>9. ASSUME NEW w \in Workers, Get(w) PROVE SentAtMostOnce'
  BY <1>9 DEF Get, producer
<1>10. ASSUME NEW w \in Workers, CheckStop(w) PROVE SentAtMostOnce'
  BY <1>10 DEF CheckStop, producer
<1>11. ASSUME NEW w \in Workers, SubmitStart(w) PROVE SentAtMostOnce'
  BY <1>11 DEF SubmitStart, producer
<1>12. ASSUME NEW w \in Workers, SubmitAborts(w) PROVE SentAtMostOnce'
  BY <1>12 DEF SubmitAborts, producer
<1>13. ASSUME NEW w \in Workers, SubmitAnswered(w) PROVE SentAtMostOnce'
  BY <1>13 DEF SubmitAnswered, producer
<1>14. ASSUME NEW w \in Workers, SubmitRaises(w) PROVE SentAtMostOnce'
  BY <1>14 DEF SubmitRaises, producer
<1>15. ASSUME NEW w \in Workers, Count(w) PROVE SentAtMostOnce'
  BY <1>15 DEF Count, producer
<1>16. ASSUME NEW w \in Workers, RecordErr(w) PROVE SentAtMostOnce'
  BY <1>16 DEF RecordErr, producer
<1>17. CASE StopRequested
  BY <1>17 DEF StopRequested, producer, consumer
<1>18. CASE StopWithdrawn
  BY <1>18 DEF StopWithdrawn, producer, consumer
<1>19. CASE Ended \/ UNCHANGED vars
  BY <1>19 DEF Ended, vars
<1>20. QED
  BY <1>1, <1>2, <1>3, <1>4, <1>5, <1>6, <1>7, <1>8, <1>9, <1>10,
     <1>11, <1>12, <1>13, <1>14, <1>15, <1>16, <1>17, <1>18, <1>19 DEF Next, Producer, Consumer

\* ClosingOK is preserved: the sentinels go in after the last candidate, and the
\* join waits for every thread (miner.py 526-530).
LEMMA ClosingStep == IndInv /\ [Next]_vars => ClosingOK'
<1> SUFFICES ASSUME IndInv, [Next]_vars PROVE ClosingOK'
  OBVIOUS
<1> USE DEF IndInv, TypeOK, ClosingOK, InHand, None, Candidates, Holding, Searching, ProducerEnded, ProducerRunning
<1>1. CASE Yield
  BY <1>1 DEF Yield, consumer
<1>2. CASE StreamEnds
  BY <1>2 DEF StreamEnds, consumer
<1>3. CASE StreamRaises
  BY <1>3 DEF StreamRaises, consumer
<1>4. CASE Put
  <2>1. /\ Len(q') = Len(q) + 1 /\ q'[Len(q) + 1] = yielded
        /\ \A i \in 1..Len(q) : q'[i] = q[i]
    BY <1>4, AppendCells DEF Put
  <2>2. ppc = "put" /\ ppc' = "check" /\ UNCHANGED <<wpc, unposted>>
    BY <1>4 DEF Put, consumer
  <2>3. yielded # None /\ Len(q) \in Nat
    BY <2>2
  <2>4. \A i \in 1..Len(q') : q'[i] # None
    <3>1. \A i \in 1..Len(q') : i \in 1..Len(q) \/ i = Len(q) + 1
      BY <2>1, <2>3
    <3>2. \A i \in 1..Len(q) : q[i] # None
      BY <2>2
    <3>3. QED
      BY <2>1, <2>3, <3>1, <3>2
  <2>5. QED
    BY <2>2, <2>4
<1>5. CASE CheckErr
  BY <1>5 DEF CheckErr, consumer
<1>6. CASE PutSentinel
  BY <1>6 DEF PutSentinel, consumer
<1>7. CASE SentinelsPosted
  BY <1>7 DEF SentinelsPosted, consumer
<1>8. CASE Join
  <2>1. ppc' \in ProducerEnded
    BY <1>8, JoinEnds
  <2>2. UNCHANGED <<yielded, q, unposted, genErr, consumer, stop, late, latePuts>>
    BY <1>8 DEF Join
  <2>3. \A w \in Workers : wpc[w] = "done"
    BY <1>8 DEF Join
  <2>4. ppc = "join"
    BY <1>8 DEF Join
  <2>5. QED
    BY <2>1, <2>2, <2>3, <2>4 DEF consumer, ProducerEnded
<1>9. ASSUME NEW w \in Workers, Get(w) PROVE ClosingOK'
  BY <1>9 DEF Get, producer
<1>10. ASSUME NEW w \in Workers, CheckStop(w) PROVE ClosingOK'
  BY <1>10 DEF CheckStop, producer
<1>11. ASSUME NEW w \in Workers, SubmitStart(w) PROVE ClosingOK'
  BY <1>11 DEF SubmitStart, producer
<1>12. ASSUME NEW w \in Workers, SubmitAborts(w) PROVE ClosingOK'
  BY <1>12 DEF SubmitAborts, producer
<1>13. ASSUME NEW w \in Workers, SubmitAnswered(w) PROVE ClosingOK'
  BY <1>13 DEF SubmitAnswered, producer
<1>14. ASSUME NEW w \in Workers, SubmitRaises(w) PROVE ClosingOK'
  BY <1>14 DEF SubmitRaises, producer
<1>15. ASSUME NEW w \in Workers, Count(w) PROVE ClosingOK'
  BY <1>15 DEF Count, producer
<1>16. ASSUME NEW w \in Workers, RecordErr(w) PROVE ClosingOK'
  BY <1>16 DEF RecordErr, producer
<1>17. CASE StopRequested
  BY <1>17 DEF StopRequested, producer, consumer
<1>18. CASE StopWithdrawn
  BY <1>18 DEF StopWithdrawn, producer, consumer
<1>19. CASE Ended \/ UNCHANGED vars
  BY <1>19 DEF Ended, vars
<1>20. QED
  BY <1>1, <1>2, <1>3, <1>4, <1>5, <1>6, <1>7, <1>8, <1>9, <1>10,
     <1>11, <1>12, <1>13, <1>14, <1>15, <1>16, <1>17, <1>18, <1>19 DEF Next, Producer, Consumer

\* StopOK is preserved: a thread passes the gate only where it has just read the
\* stop predicate (miner.py 500-502).
LEMMA StopStep == IndInv /\ [Next]_vars => StopOK'
<1> SUFFICES ASSUME IndInv, [Next]_vars PROVE StopOK'
  OBVIOUS
<1> USE DEF IndInv, TypeOK, StopOK, InHand, None, Candidates, Holding
<1>1. CASE Yield
  BY <1>1 DEF Yield, consumer
<1>2. CASE StreamEnds
  BY <1>2 DEF StreamEnds, consumer
<1>3. CASE StreamRaises
  BY <1>3 DEF StreamRaises, consumer
<1>4. CASE Put
  BY <1>4 DEF Put, consumer
<1>5. CASE CheckErr
  BY <1>5 DEF CheckErr, consumer
<1>6. CASE PutSentinel
  BY <1>6 DEF PutSentinel, consumer
<1>7. CASE SentinelsPosted
  BY <1>7 DEF SentinelsPosted, consumer
<1>8. CASE Join
  BY <1>8 DEF Join, consumer
<1>9. ASSUME NEW w \in Workers, Get(w) PROVE StopOK'
  BY <1>9 DEF Get, producer
<1>10. ASSUME NEW w \in Workers, CheckStop(w) PROVE StopOK'
  BY <1>10 DEF CheckStop, producer
<1>11. ASSUME NEW w \in Workers, SubmitStart(w) PROVE StopOK'
  BY <1>11 DEF SubmitStart, producer
<1>12. ASSUME NEW w \in Workers, SubmitAborts(w) PROVE StopOK'
  BY <1>12 DEF SubmitAborts, producer
<1>13. ASSUME NEW w \in Workers, SubmitAnswered(w) PROVE StopOK'
  BY <1>13 DEF SubmitAnswered, producer
<1>14. ASSUME NEW w \in Workers, SubmitRaises(w) PROVE StopOK'
  BY <1>14 DEF SubmitRaises, producer
<1>15. ASSUME NEW w \in Workers, Count(w) PROVE StopOK'
  BY <1>15 DEF Count, producer
<1>16. ASSUME NEW w \in Workers, RecordErr(w) PROVE StopOK'
  BY <1>16 DEF RecordErr, producer
<1>17. CASE StopRequested
  BY <1>17 DEF StopRequested, producer, consumer
<1>18. CASE StopWithdrawn
  BY <1>18 DEF StopWithdrawn, producer, consumer
<1>19. CASE Ended \/ UNCHANGED vars
  BY <1>19 DEF Ended, vars
<1>20. QED
  BY <1>1, <1>2, <1>3, <1>4, <1>5, <1>6, <1>7, <1>8, <1>9, <1>10,
     <1>11, <1>12, <1>13, <1>14, <1>15, <1>16, <1>17, <1>18, <1>19 DEF Next, Producer, Consumer

\* FailureOK is preserved: the producer reads err after each put (miner.py
\* 522-525).
LEMMA FailureStep == IndInv /\ [Next]_vars => FailureOK'
<1> SUFFICES ASSUME IndInv, [Next]_vars PROVE FailureOK'
  OBVIOUS
<1> USE DEF IndInv, TypeOK, FailureOK, InHand, None, Candidates, Holding
<1>1. CASE Yield
  BY <1>1 DEF Yield, consumer
<1>2. CASE StreamEnds
  BY <1>2 DEF StreamEnds, consumer
<1>3. CASE StreamRaises
  BY <1>3 DEF StreamRaises, consumer
<1>4. CASE Put
  BY <1>4 DEF Put, consumer
<1>5. CASE CheckErr
  BY <1>5 DEF CheckErr, consumer
<1>6. CASE PutSentinel
  BY <1>6 DEF PutSentinel, consumer
<1>7. CASE SentinelsPosted
  BY <1>7 DEF SentinelsPosted, consumer
<1>8. CASE Join
  <2>1. ppc' \in ProducerEnded
    BY <1>8, JoinEnds
  <2>2. UNCHANGED <<yielded, q, unposted, genErr, consumer, stop, late, latePuts>>
    BY <1>8 DEF Join
  <2>3. \A w \in Workers : wpc[w] = "done"
    BY <1>8 DEF Join
  <2>4. ppc = "join"
    BY <1>8 DEF Join
  <2>5. QED
    BY <2>1, <2>2, <2>3, <2>4 DEF consumer, ProducerEnded
<1>9. ASSUME NEW w \in Workers, Get(w) PROVE FailureOK'
  BY <1>9 DEF Get, producer
<1>10. ASSUME NEW w \in Workers, CheckStop(w) PROVE FailureOK'
  BY <1>10 DEF CheckStop, producer
<1>11. ASSUME NEW w \in Workers, SubmitStart(w) PROVE FailureOK'
  BY <1>11 DEF SubmitStart, producer
<1>12. ASSUME NEW w \in Workers, SubmitAborts(w) PROVE FailureOK'
  BY <1>12 DEF SubmitAborts, producer
<1>13. ASSUME NEW w \in Workers, SubmitAnswered(w) PROVE FailureOK'
  BY <1>13 DEF SubmitAnswered, producer
<1>14. ASSUME NEW w \in Workers, SubmitRaises(w) PROVE FailureOK'
  BY <1>14 DEF SubmitRaises, producer
<1>15. ASSUME NEW w \in Workers, Count(w) PROVE FailureOK'
  BY <1>15 DEF Count, producer
<1>16. ASSUME NEW w \in Workers, RecordErr(w) PROVE FailureOK'
  BY <1>16 DEF RecordErr, producer
<1>17. CASE StopRequested
  BY <1>17 DEF StopRequested, producer, consumer
<1>18. CASE StopWithdrawn
  BY <1>18 DEF StopWithdrawn, producer, consumer
<1>19. CASE Ended \/ UNCHANGED vars
  BY <1>19 DEF Ended, vars
<1>20. QED
  BY <1>1, <1>2, <1>3, <1>4, <1>5, <1>6, <1>7, <1>8, <1>9, <1>10,
     <1>11, <1>12, <1>13, <1>14, <1>15, <1>16, <1>17, <1>18, <1>19 DEF Next, Producer, Consumer

\* ResultOK is preserved: err and n_submitted are written in the steps that
\* decide a candidate (miner.py 505-510).
LEMMA ResultStep == IndInv /\ [Next]_vars => ResultOK'
<1> SUFFICES ASSUME IndInv, [Next]_vars PROVE ResultOK'
  OBVIOUS
<1> USE DEF IndInv, TypeOK, ResultOK, InHand, None, Candidates, Holding, HeldOK
<1>1. CASE Yield
  BY <1>1 DEF Yield, consumer
<1>2. CASE StreamEnds
  BY <1>2 DEF StreamEnds, consumer
<1>3. CASE StreamRaises
  BY <1>3 DEF StreamRaises, consumer
<1>4. CASE Put
  BY <1>4 DEF Put, consumer
<1>5. CASE CheckErr
  BY <1>5 DEF CheckErr, consumer
<1>6. CASE PutSentinel
  BY <1>6 DEF PutSentinel, consumer
<1>7. CASE SentinelsPosted
  BY <1>7 DEF SentinelsPosted, consumer
<1>8. CASE Join
  <2>1. ppc' \in ProducerEnded
    BY <1>8, JoinEnds
  <2>2. UNCHANGED <<yielded, q, unposted, genErr, consumer, stop, late, latePuts>>
    BY <1>8 DEF Join
  <2>3. \A w \in Workers : wpc[w] = "done"
    BY <1>8 DEF Join
  <2>4. ppc = "join"
    BY <1>8 DEF Join
  <2>5. QED
    BY <2>1, <2>2, <2>3, <2>4 DEF consumer, ProducerEnded
<1>9. ASSUME NEW w \in Workers, Get(w) PROVE ResultOK'
  BY <1>9 DEF Get, producer
<1>10. ASSUME NEW w \in Workers, CheckStop(w) PROVE ResultOK'
  <2>1. UNCHANGED <<nSubmitted, err>>
    BY <1>10 DEF CheckStop
  <2>2. item[w] # None /\ (item[w] \in Candidates => outcome[item[w]] = "open")
    BY <1>10 DEF CheckStop
  <2>3. \A c \in Candidates : c # item[w] => outcome'[c] = outcome[c]
    <3> HIDE DEF TypeOK, Candidates
    <3>1. TypeOK
      OBVIOUS
    <3> HIDE DEF IndInv
    <3>2. QED
      BY <1>10, <3>1, CheckStopDecides
  <2>4. item[w] \in Candidates => outcome'[item[w]] \in {"open", "dropped"}
    <3> HIDE DEF TypeOK, Candidates
    <3>1. TypeOK
      OBVIOUS
    <3> HIDE DEF IndInv
    <3>2. QED
      BY <1>10, <2>2, <3>1, CheckStopDecides
  <2>5. \A c \in Candidates : outcome'[c] \in {"failed", "submitted"} \/ outcome[c] \in {"failed", "submitted"}
                            => outcome'[c] = outcome[c]
    BY <2>2, <2>3, <2>4
  <2> HIDE DEF IndInv, TypeOK, HeldOK
  <2>6. ResultOK
    BY DEF IndInv
  <2>7. QED
    BY <2>1, <2>5, <2>6 DEF ResultOK
<1>11. ASSUME NEW w \in Workers, SubmitStart(w) PROVE ResultOK'
  BY <1>11 DEF SubmitStart, producer
<1>12. ASSUME NEW w \in Workers, SubmitAborts(w) PROVE ResultOK'
  BY <1>12 DEF SubmitAborts, producer
<1>13. ASSUME NEW w \in Workers, SubmitAnswered(w) PROVE ResultOK'
  BY <1>13 DEF SubmitAnswered, producer
<1>14. ASSUME NEW w \in Workers, SubmitRaises(w) PROVE ResultOK'
  BY <1>14 DEF SubmitRaises, producer
<1>15. ASSUME NEW w \in Workers, Count(w) PROVE ResultOK'
  BY <1>15 DEF Count, producer
<1>16. ASSUME NEW w \in Workers, RecordErr(w) PROVE ResultOK'
  BY <1>16 DEF RecordErr, producer
<1>17. CASE StopRequested
  BY <1>17 DEF StopRequested, producer, consumer
<1>18. CASE StopWithdrawn
  BY <1>18 DEF StopWithdrawn, producer, consumer
<1>19. CASE Ended \/ UNCHANGED vars
  BY <1>19 DEF Ended, vars
<1>20. QED
  BY <1>1, <1>2, <1>3, <1>4, <1>5, <1>6, <1>7, <1>8, <1>9, <1>10,
     <1>11, <1>12, <1>13, <1>14, <1>15, <1>16, <1>17, <1>18, <1>19 DEF Next, Producer, Consumer

\* The inductive invariant holds in every state.
THEOREM Inductive == Spec => []IndInv
<1>1. IndInv /\ [Next]_vars => IndInv'
  BY NextType, QueueStep, HeldStep, FreshStep, NotLostStep, SentStep,
     ClosingStep, StopStep, FailureStep, ResultStep DEF IndInv
<1>2. QED
  BY InitIndInv, <1>1, PTL DEF Spec, Safety

-----------------------------------------------------------------------------
(***************************************************************************)
(* What follows from it.                                                   *)
(***************************************************************************)

\* No share is lost or duplicated between the search and the pool
\* (miner.py 494-525).
THEOREM ConservationHolds == Spec => []Conservation
<1>1. IndInv => Conservation
  <2> SUFFICES ASSUME IndInv, NEW c \in 1..yielded
               PROVE  IF outcome[c] = "open" THEN InOnePlace(c) ELSE Nowhere(c)
    BY DEF Conservation
  <2> USE DEF IndInv, InQueue, HeldBy, InHand, None
  <2>1. c \in Candidates /\ c # None
    BY YieldedAreCandidates
  <2>2. \A w \in Workers : item[w] = c => HeldBy(c, w)
    BY <2>1 DEF HeldOK
  <2>3. CASE outcome[c] = "open"
    <3>1. \/ c = yielded /\ ppc = "put"
          \/ InQueue(c)
          \/ \E w \in Workers : HeldBy(c, w)
      BY <2>2, <2>3 DEF NotLost
    <3>2. c = yielded /\ ppc = "put" =>
            ~InQueue(c) /\ \A w \in Workers : ~HeldBy(c, w)
      BY <2>1 DEF QueueOK, HeldOK
    <3>3. InQueue(c) => \A w \in Workers : ~HeldBy(c, w)
      BY <2>1 DEF QueueOK
    <3>4. \A i, j \in 1..Len(q) : q[i] = c /\ q[j] = c => i = j
      BY <2>1 DEF QueueOK
    <3>5. \A v, w \in Workers : HeldBy(c, v) /\ HeldBy(c, w) => v = w
      BY <2>1 DEF HeldOK
    <3>6. QED
      BY <2>3, <3>1, <3>2, <3>3, <3>4, <3>5 DEF InOnePlace
  <2>4. CASE outcome[c] # "open"
    BY <2>1, <2>4 DEF Nowhere, QueueOK, HeldOK
  <2>5. QED
    BY <2>3, <2>4
<1>2. QED
  BY Inductive, <1>1, PTL

\* Every share reaches the pool at most once.
THEOREM SentAtMostOnceHolds == Spec => []SentAtMostOnce
<1>1. IndInv => SentAtMostOnce
  BY DEF IndInv
<1>2. QED
  BY Inductive, <1>1, PTL

\* After a stop request a thread begins at most one more submission
\* (miner.py 500-502).
THEOREM StopBoundHolds == Spec => []StopBound
<1>1. IndInv => StopBound
  BY DEF IndInv, StopOK, StopBound
<1>2. QED
  BY Inductive, <1>1, PTL

\* After the first failed submission at most one more candidate is queued
\* (miner.py 522-525).
THEOREM FailureBoundHolds == Spec => []FailureBound
<1>1. IndInv => FailureBound
  BY DEF IndInv, FailureOK, FailureBound
<1>2. QED
  BY Inductive, <1>1, PTL

-----------------------------------------------------------------------------
(***************************************************************************)
(* The sentinels are counted by sets, so their cardinalities must follow   *)
(* what q.put and q.get do to the positions of the sentinels in the queue. *)
(***************************************************************************)

\* The three sets a sentinel is counted in are finite.
LEMMA SentinelsFinite ==
  ASSUME TypeOK
  PROVE  /\ IsFiniteSet(Sentinels) /\ IsFiniteSet(Finished) /\ IsFiniteSet(unposted)
         /\ Cardinality(Sentinels) \in Nat /\ Cardinality(Finished) \in Nat
         /\ Cardinality(unposted) \in Nat
<1>1. IsFiniteSet(1..Len(q)) /\ Sentinels \in SUBSET (1..Len(q))
  <2>1. Len(q) \in Int
    BY DEF TypeOK
  <2>2. QED
    BY <2>1, FS_Interval DEF Sentinels
<1>2. Finished \in SUBSET Workers /\ unposted \in SUBSET Workers
  BY DEF Finished, TypeOK
<1>3. IsFiniteSet(Sentinels) /\ IsFiniteSet(Finished) /\ IsFiniteSet(unposted)
  BY <1>1, <1>2, FS_Subset, PipelineAssumption
<1>4. QED
  BY <1>3, FS_CardinalityType

\* q.put(None) adds one sentinel.
LEMMA PutSentinelCounts ==
  ASSUME TypeOK, PutSentinel
  PROVE  /\ Cardinality(Sentinels') = Cardinality(Sentinels) + 1
         /\ Cardinality(unposted') = Cardinality(unposted) - 1
         /\ Finished' = Finished
<1>1. /\ Len(q') = Len(q) + 1 /\ q'[Len(q) + 1] = None
      /\ \A i \in 1..Len(q) : q'[i] = q[i]
      /\ Len(q) \in Nat
  BY AppendCells DEF PutSentinel, TypeOK
<1>2. Sentinels' = Sentinels \cup {Len(q) + 1} /\ Len(q) + 1 \notin Sentinels
  BY <1>1 DEF Sentinels, None
<1>3. Cardinality(Sentinels') = Cardinality(Sentinels) + 1
  BY <1>2, SentinelsFinite, FS_AddElement
<1>4. PICK w \in unposted : unposted' = unposted \ {w}
  BY DEF PutSentinel
<1>5. Cardinality(unposted') = Cardinality(unposted) - 1
  BY <1>4, SentinelsFinite, FS_RemoveElement
<1>6. Finished' = Finished
  BY DEF PutSentinel, consumer, Finished
<1>7. QED
  BY <1>3, <1>5, <1>6

\* q.get() shifts the remaining positions by one.
LEMMA GetCounts ==
  ASSUME TypeOK, NEW w \in Workers, Get(w)
  PROVE  Cardinality(Sentinels') =
           IF Head(q) = None THEN Cardinality(Sentinels) - 1
                             ELSE Cardinality(Sentinels)
<1>1. /\ Len(q) \in Nat \ {0} /\ Len(q') = Len(q) - 1 /\ Head(q) = q[1]
      /\ \A i \in 1..Len(q') : q'[i] = q[i + 1]
  BY TailCells DEF Get, TypeOK
<1> DEFINE Rest == Sentinels \ {1}
           shift == [i \in Sentinels' |-> i + 1]
<1>2. shift \in Bijection(Sentinels', Rest)
  <2>1. shift \in [Sentinels' -> Rest]
    BY <1>1 DEF Sentinels, None
  <2>2. \A a, b \in Sentinels' : shift[a] = shift[b] => a = b
    BY <1>1 DEF Sentinels
  <2>3. ASSUME NEW t \in Rest PROVE \E a \in Sentinels' : shift[a] = t
    <3>1. t - 1 \in Sentinels' /\ (t - 1) + 1 = t
      BY <1>1, <2>3 DEF Sentinels, None
    <3>2. QED
      BY <3>1
  <2>4. QED
    BY <2>1, <2>2, <2>3, Fun_IsBij
<1>3. IsFiniteSet(Sentinels')
  <2>1. TypeOK'
    BY ConsumerType DEF Consumer
  <2>2. Len(q') \in Int /\ Sentinels' \in SUBSET (1..Len(q'))
    BY <2>1 DEF TypeOK, Sentinels
  <2>3. IsFiniteSet(1..Len(q'))
    BY <2>2, FS_Interval
  <2>4. QED
    BY <2>2, <2>3, FS_Subset
<1>4. Cardinality(Rest) = Cardinality(Sentinels')
  BY <1>2, <1>3, FS_Bijection, Fun_ExistsBij
<1>5. 1 \in Sentinels <=> Head(q) = None
  BY <1>1 DEF Sentinels
<1>6. QED
  BY <1>4, <1>5, SentinelsFinite, FS_RemoveElement

\* The steps that touch neither a sentinel nor a finished thread.
LEMMA CountsUnchanged ==
  ASSUME Sentinels' = Sentinels, Finished' = Finished, unposted' = unposted,
         SentinelAccounting
  PROVE  SentinelAccounting'
  BY DEF SentinelAccounting

\* One sentinel per submit thread, wherever it is: the join neither waits
\* forever nor leaves a thread behind (miner.py 526-530).
THEOREM SentinelAccountingHolds == Spec => []SentinelAccounting
<1>1. Init => SentinelAccounting
  <2> SUFFICES ASSUME Init PROVE SentinelAccounting
    OBVIOUS
  <2>1. Sentinels = {} /\ Finished = {} /\ unposted = Workers
    BY DEF Init, Sentinels, Finished
  <2>2. Cardinality(Workers) \in Nat
    BY FS_CardinalityType, PipelineAssumption
  <2>3. QED
    BY <2>1, <2>2, FS_EmptySet DEF SentinelAccounting
<1>2. IndInv /\ SentinelAccounting /\ [Next]_vars => SentinelAccounting'
  <2> SUFFICES ASSUME IndInv, SentinelAccounting, [Next]_vars
               PROVE  SentinelAccounting'
    OBVIOUS
  <2>0. TypeOK
    BY DEF IndInv
  <2>1. CASE PutSentinel
    BY <2>0, <2>1, PutSentinelCounts, SentinelsFinite DEF SentinelAccounting
  <2>2. ASSUME NEW w \in Workers, Get(w) PROVE SentinelAccounting'
    <3>1. unposted' = unposted
      BY <2>2 DEF Get, producer
    <3>2. CASE Head(q) = None
      <4>1. Finished' = Finished \cup {w} /\ w \notin Finished
        BY <2>0, <2>2, <3>2 DEF Get, Finished, TypeOK
      <4>2. Cardinality(Finished') = Cardinality(Finished) + 1
        BY <2>0, <4>1, SentinelsFinite, FS_AddElement
      <4>3. Cardinality(Sentinels') = Cardinality(Sentinels) - 1
        BY <2>0, <2>2, <3>2, GetCounts
      <4>4. QED
        BY <2>0, <3>1, <4>2, <4>3, SentinelsFinite DEF SentinelAccounting
    <3>3. CASE Head(q) # None
      <4>1. Finished' = Finished
        BY <2>0, <2>2, <3>3 DEF Get, Finished, TypeOK
      <4>2. Cardinality(Sentinels') = Cardinality(Sentinels)
        BY <2>0, <2>2, <3>3, GetCounts
      <4>3. QED
        BY <3>1, <4>1, <4>2 DEF SentinelAccounting
    <3>4. QED
      BY <3>2, <3>3
  <2>3. CASE Put
    <3>1. /\ Len(q') = Len(q) + 1 /\ q'[Len(q) + 1] = yielded
          /\ \A i \in 1..Len(q) : q'[i] = q[i]
          /\ Len(q) \in Nat
      BY <2>0, <2>3, AppendCells DEF TypeOK, Put
    <3>2. yielded # None
      BY <2>3 DEF IndInv, ClosingOK, Put, None
    <3>3. Sentinels' = Sentinels
      BY <3>1, <3>2 DEF Sentinels, None
    <3>4. Finished' = Finished /\ unposted' = unposted
      BY <2>3 DEF Put, consumer, Finished
    <3>5. QED
      BY <3>3, <3>4, CountsUnchanged
  <2>4. CASE Yield \/ StreamEnds \/ StreamRaises \/ CheckErr \/ SentinelsPosted \/ Join
    <3>1. q' = q /\ wpc' = wpc /\ unposted' = unposted
      BY <2>4 DEF Yield, StreamEnds, StreamRaises, CheckErr, SentinelsPosted,
                  Join, consumer
    <3>2. QED
      BY <3>1, CountsUnchanged DEF Sentinels, Finished, None
  <2>5. ASSUME NEW w \in Workers,
               \/ CheckStop(w) \/ SubmitStart(w) \/ SubmitAborts(w)
               \/ SubmitAnswered(w) \/ SubmitRaises(w) \/ Count(w) \/ RecordErr(w)
        PROVE  SentinelAccounting'
    <3>1. q' = q /\ unposted' = unposted
      BY <2>5 DEF CheckStop, SubmitStart, SubmitAborts, SubmitAnswered,
                  SubmitRaises, Count, RecordErr, producer
    <3>2. PICK pc \in Holding \cup {"get"} : wpc' = [wpc EXCEPT ![w] = pc]
      BY <2>5 DEF CheckStop, SubmitStart, SubmitAborts, SubmitAnswered,
                  SubmitRaises, Count, RecordErr, Holding
    <3>3. wpc[w] # "done"
      BY <2>5 DEF CheckStop, SubmitStart, SubmitAborts, SubmitAnswered,
                  SubmitRaises, Count, RecordErr
    <3>4. Finished' = Finished
      BY <2>0, <3>2, <3>3 DEF Finished, TypeOK, Holding
    <3>5. QED
      BY <3>1, <3>4, CountsUnchanged DEF Sentinels, None
  <2>6. CASE StopRequested \/ StopWithdrawn \/ Ended \/ UNCHANGED vars
    <3>1. q' = q /\ wpc' = wpc /\ unposted' = unposted
      BY <2>6 DEF StopRequested, StopWithdrawn, Ended, vars, producer, consumer
    <3>2. QED
      BY <3>1, CountsUnchanged DEF Sentinels, Finished, None
  <2>7. QED
    BY <2>1, <2>2, <2>3, <2>4, <2>5, <2>6 DEF Next, Producer, Consumer
<1>3. QED
  BY <1>1, <1>2, Inductive, PTL DEF Spec, Safety

\* When the call ends no thread runs, the queue is empty and every share is
\* decided (miner.py 526-530).
THEOREM NothingLeftBehindHolds == Spec => []NothingLeftBehind
<1>1. IndInv /\ SentinelAccounting => NothingLeftBehind
  <2> SUFFICES ASSUME IndInv, SentinelAccounting, ppc \in ProducerEnded
               PROVE  /\ q = <<>>
                      /\ \A w \in Workers : wpc[w] = "done"
                      /\ \A c \in 1..yielded : outcome[c] # "open"
    BY DEF NothingLeftBehind
  <2>1. TypeOK /\ unposted = {} /\ \A w \in Workers : wpc[w] = "done"
    BY DEF IndInv, ClosingOK
  <2>2. Finished = Workers
    BY <2>1 DEF Finished
  <2>3. Cardinality(Sentinels) = 0
    BY <2>1, <2>2, SentinelsFinite, FS_EmptySet DEF SentinelAccounting
  <2>4. \A i \in 1..Len(q) : q[i] # None
    BY <2>1, <2>3, SentinelsFinite, FS_EmptySet DEF Sentinels
  <2>5. \A i \in 1..Len(q) : q[i] = None
    BY <2>1, PipelineAssumption DEF IndInv, ClosingOK
  <2>6. q = <<>>
    <3>1. q \in Seq({None} \cup Candidates) /\ Len(q) \in Nat
      BY <2>1 DEF TypeOK
    <3>2. 1 \notin 1..Len(q)
      BY <2>4, <2>5
    <3>3. Len(q) = 0
      BY <3>1, <3>2
    <3>4. QED
      BY <3>1, <3>3
  <2>7. ASSUME NEW c \in 1..yielded, outcome[c] = "open" PROVE FALSE
    <3>1. c # None
      BY <2>1, YieldedAreCandidates DEF None
    <3>2. \A w \in Workers : item[w] = None
      BY <2>1 DEF IndInv, HeldOK, Holding
    <3>3. ~InHand(c) /\ ~InQueue(c)
      BY <2>6 DEF InHand, InQueue, ProducerEnded
    <3>4. QED
      BY <2>7, <3>1, <3>2, <3>3 DEF IndInv, NotLost
  <2>8. QED
    BY <2>1, <2>6, <2>7
<1>2. QED
  BY <1>1, Inductive, SentinelAccountingHolds, PTL

-----------------------------------------------------------------------------
(***************************************************************************)
(* Refinement: the safety part of ShareRound.  (That the fairness of the   *)
(* threads gives the fairness of the round stays with TLC.)                *)
(***************************************************************************)

\* The step that decides a share.
LEMMA DecideImplements ==
  ASSUME IndInv, NEW w \in Workers,
         NEW fate \in {"submitted", "failed", "dropped"},
         wpc[w] \in Holding,
         outcome' = [outcome EXCEPT ![item[w]] = fate],
         ppc' = ppc, yielded' = yielded
  PROVE  Abstract!RoundNext
<1>1. /\ item[w] \in Candidates /\ item[w] <= yielded /\ outcome[item[w]] = "open"
  BY DEF IndInv, HeldOK, TypeOK, None
<1>2. ppc \notin ProducerEnded
  BY DEF IndInv, ClosingOK, Holding
<1>3. result = "running" /\ result' = result
  BY <1>2 DEF result
<1>4. Abstract!Resolve(item[w])
  BY <1>1, <1>3 DEF Abstract!Resolve, Abstract!Fates
<1>5. QED
  BY <1>1, <1>4 DEF Abstract!RoundNext, Abstract!Candidates, Candidates

\* The step that ends the call.
LEMMA JoinImplements == IndInv /\ Join => Abstract!RoundNext
<1> SUFFICES ASSUME IndInv, Join PROVE Abstract!RoundNext
  OBVIOUS
<1>1. ppc = "join" /\ ppc' = RoundResult /\ yielded' = yielded /\ outcome' = outcome
  BY DEF Join, consumer
<1>2. \A c \in 1..yielded : outcome[c] # "open"
  <2> SUFFICES ASSUME NEW c \in 1..yielded, outcome[c] = "open" PROVE FALSE
    OBVIOUS
  <2>1. TypeOK /\ c # None
    BY YieldedAreCandidates DEF IndInv, None
  <2>2. \A w \in Workers : wpc[w] = "done" /\ item[w] = None
    BY DEF Join, IndInv, HeldOK, Holding
  <2>3. \A i \in 1..Len(q) : q[i] = None
    BY <2>2, PipelineAssumption DEF IndInv, ClosingOK
  <2>4. QED
    BY <1>1, <2>1, <2>2, <2>3 DEF IndInv, NotLost, InHand, InQueue
<1>3. result = "running" /\ result' = RoundResult /\ RoundResult \in ProducerEnded
  BY <1>1, JoinEnds DEF result, ProducerEnded
<1>4. Abstract!Truthful(RoundResult)
  <2>1. (\E c \in Candidates : outcome[c] = "failed") => err # None
    BY DEF IndInv, ResultOK
  <2>2. nSubmitted # 0 <=> \E c \in Candidates : outcome[c] = "submitted"
    BY DEF IndInv, ResultOK
  <2>3. QED
    BY <2>1, <2>2 DEF Abstract!Truthful, Abstract!Candidates, Candidates, RoundResult
<1>5. Abstract!Finish
  BY <1>1, <1>2, <1>3, <1>4 DEF Abstract!Finish, Abstract!Results, ProducerEnded
<1>6. QED
  BY <1>5 DEF Abstract!RoundNext

\* Every step is a step of the abstract round or leaves its state alone.
LEMMA StepImplements ==
  IndInv /\ [Next]_vars => [Abstract!RoundNext]_Abstract!roundVars
<1> SUFFICES ASSUME IndInv, [Next]_vars
             PROVE  Abstract!RoundNext \/ UNCHANGED <<ppc, yielded, outcome>>
                    \/ (yielded' = yielded /\ outcome' = outcome /\ result' = result)
  BY DEF Abstract!roundVars, result
<1>1. CASE Yield
  <2>1. ppc = "next" /\ ppc' = "put" /\ yielded < MaxReturn /\ yielded' = yielded + 1
    BY <1>1 DEF Yield
  <2>2. outcome' = outcome
    BY <1>1 DEF Yield, consumer
  <2>3. result = "running" /\ result' = "running"
    BY <2>1 DEF result, ProducerEnded
  <2>4. QED
    BY <2>1, <2>2, <2>3 DEF Abstract!RoundNext, Abstract!Accept
<1>2. CASE StreamEnds \/ StreamRaises \/ CheckErr \/ SentinelsPosted \/ Put \/ PutSentinel
  <2>1. yielded' = yielded /\ outcome' = outcome
    BY <1>2 DEF StreamEnds, StreamRaises, CheckErr, SentinelsPosted, Put,
                PutSentinel, consumer
  <2>2. ppc \notin ProducerEnded /\ ppc' \notin ProducerEnded
    BY <1>2 DEF StreamEnds, StreamRaises, CheckErr, SentinelsPosted, Put,
                PutSentinel, ProducerEnded
  <2>3. QED
    BY <2>1, <2>2 DEF result
<1>3. CASE Join
  BY <1>3, JoinImplements
<1>4. ASSUME NEW w \in Workers, CheckStop(w)
      PROVE  Abstract!RoundNext \/ UNCHANGED <<ppc, yielded, outcome>>
  <2>1. UNCHANGED <<ppc, yielded>> /\ wpc[w] \in Holding
    BY <1>4 DEF CheckStop, producer, Holding
  <2>2. outcome' = outcome \/ outcome' = [outcome EXCEPT ![item[w]] = "dropped"]
    BY <1>4 DEF CheckStop
  <2>3. QED
    BY <2>1, <2>2, DecideImplements
<1>5. ASSUME NEW w \in Workers, Count(w) \/ RecordErr(w) PROVE Abstract!RoundNext
  <2>1. UNCHANGED <<ppc, yielded>> /\ wpc[w] \in Holding
    BY <1>5 DEF Count, RecordErr, producer, Holding
  <2>2. \/ outcome' = [outcome EXCEPT ![item[w]] = "submitted"]
        \/ outcome' = [outcome EXCEPT ![item[w]] = "failed"]
    BY <1>5 DEF Count, RecordErr
  <2>3. QED
    BY <2>1, <2>2, DecideImplements
<1>6. ASSUME NEW w \in Workers,
             \/ Get(w) \/ SubmitStart(w) \/ SubmitAborts(w)
             \/ SubmitAnswered(w) \/ SubmitRaises(w)
      PROVE  UNCHANGED <<ppc, yielded, outcome>>
  BY <1>6 DEF Get, SubmitStart, SubmitAborts, SubmitAnswered, SubmitRaises, producer
<1>7. CASE StopRequested \/ StopWithdrawn \/ Ended \/ UNCHANGED vars
  BY <1>7 DEF StopRequested, StopWithdrawn, Ended, vars, producer, consumer
<1>8. QED
  BY <1>1, <1>2, <1>3, <1>4, <1>5, <1>6, <1>7 DEF Next, Producer, Consumer

\* The pipeline of threads and queue implements the abstract round: one
\* outcome per accepted share, and a truthful result after the last of them.
THEOREM RoundSafetyHolds == Spec => Abstract!RoundSafety
<1>1. Init => Abstract!RoundInit
  BY DEF Init, Abstract!RoundInit, Abstract!Candidates, Candidates, result, ProducerEnded
<1>2. QED
  BY <1>1, Inductive, StepImplements, PTL DEF Spec, Safety, Abstract!RoundSafety
=============================================================================
