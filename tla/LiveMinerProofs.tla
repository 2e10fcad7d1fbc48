-------------------------- MODULE LiveMinerProofs --------------------------
(***************************************************************************)
(* Proofs about LiveMiner, for any jobs, shapes and patterns and for every *)
(* --max-hits.                                                             *)
(***************************************************************************)
EXTENDS LiveMiner, TLAPS

\* Work is in hand wherever it is read; the first wait is the script's, and so
\* is coopmat mining, with --coopmat only, and then it uses no other path.
PhaseOK ==
  /\ phase = "start" => caller = "script"
  /\ phase \in {"got", "enter", "mining", "matrices", "coopmat", "vk", "gpu",
                "search", "found"} => work \in Job
  /\ phase \in {"enter", "mining"} => caller = "script" /\ coopmat
  /\ phase \in {"matrices", "coopmat", "vk", "gpu", "search", "found"} =>
       ~(caller = "script" /\ coopmat)
  /\ phase \in {"coopmat", "vk", "gpu"} => ab = Shape[work]

\* An evaluator that was given up is forgotten, and those tried before the
\* next one were.
EvaluatorsOK ==
  /\ \A e \in Kinds : ~use[e] => ev[e] = None
  /\ phase \in {"vk", "gpu"} => ev["coopmat"] = None
  /\ phase = "gpu" => ev["vk"] = None

\* What a search would use is for the job of the MinerState.
Ready ==
  /\ state.job \in Job /\ state.ab = Shape[state.job]
  /\ Chosen # "cpu" => ev[Chosen].job = state.job /\ ev[Chosen].tile = Tile[state.job]

\* It is in a search, and between two of run().
ReadyOK ==
  /\ phase \in {"search", "found"} => /\ Ready /\ Key[state.job] = Key[work]
                                      /\ caller = "script" => state.job = work
  /\ /\ caller = "run" /\ phase \in {"loop", "wait", "got", "matrices"}
     /\ state.job # NoJob
     => Ready

\* The hit that reaches the limit also stops the loop.
LimitOK ==
  caller = "script" /\ ~coopmat =>
    \/ hits < MaxHits
    \/ stop /\ phase \in {"found", "loop", "ended", "crashed"}

IndInv == TypeOK /\ PhaseOK /\ EvaluatorsOK /\ ReadyOK /\ LimitOK /\ NoShareTooMany

-----------------------------------------------------------------------------
\* An evaluator's record is not mistaken for none.
LEMMA EvaluatorNotNone == \A e \in Evaluator : e # None
  BY LiveAssumption DEF Evaluator

\* Building or reusing an evaluator for a job gives one compiled for its tile.
LEMMA BuiltEvaluator ==
  ASSUME TypeOK, work \in Job, NEW kind \in Kinds
  PROVE  /\ Built(kind) \in Evaluator /\ Built(kind).tile = Tile[work]
         /\ [Built(kind) EXCEPT !.job = work] \in Evaluator
         /\ [Built(kind) EXCEPT !.job = work].job = work
         /\ [Built(kind) EXCEPT !.job = work].tile = Tile[work]
<1>1. Built(kind) \in Evaluator /\ Built(kind).tile = Tile[work]
  <2>1. CASE ev[kind] # None /\ ev[kind].tile = Tile[work]
    BY <2>1 DEF Built, TypeOK
  <2>2. CASE ~(ev[kind] # None /\ ev[kind].tile = Tile[work])
    BY <2>2 DEF Built, Evaluator
  <2>3. QED
    BY <2>1, <2>2
<1>2. QED
  BY <1>1 DEF Evaluator

\* An evaluator that takes the job, with none before it, makes a search ready.
LEMMA HoldsReady ==
  ASSUME TypeOK, EvaluatorsOK, work \in Job, ab = Shape[work],
         NEW kind \in Kinds, use[kind], Holds(kind),
         kind \in {"vk", "gpu"} => ev["coopmat"] = None,
         kind = "gpu" => ev["vk"] = None
  PROVE  /\ ev' \in [Kinds -> Evaluator \cup {None}]
         /\ state' \in [job : Job \cup {NoJob}, ab : Nat \X Nat]
         /\ EvaluatorsOK' /\ Ready' /\ state'.job = work
<1> DEFINE e == [Built(kind) EXCEPT !.job = work]
<1>1. e \in Evaluator /\ e.job = work /\ e.tile = Tile[work] /\ e # None
  BY BuiltEvaluator, EvaluatorNotNone
<1> HIDE DEF e
<1>2. ev' = [ev EXCEPT ![kind] = e] /\ state' = [job |-> work, ab |-> ab]
      /\ use' = use /\ phase' = "search"
  BY DEF Holds, Go, e
<1>3. ev'[kind] = e /\ \A x \in Kinds : x # kind => ev'[x] = ev[x]
  BY <1>2 DEF TypeOK
<1>4. Chosen' = kind
  BY <1>1, <1>3 DEF Chosen, Kinds
<1>5. Ready'
  BY <1>1, <1>2, <1>3, <1>4 DEF Ready
<1>6. EvaluatorsOK'
  BY <1>2, <1>3 DEF EvaluatorsOK
<1>7. QED
  BY <1>1, <1>2, <1>5, <1>6 DEF TypeOK

\* One that is given up leaves the others as they are.
LEMMA FallThroughOK ==
  ASSUME TypeOK, EvaluatorsOK, NEW kind \in Kinds, NEW next,
         FallThrough(kind, next)
  PROVE  /\ ev' \in [Kinds -> Evaluator \cup {None}] /\ use' \in [Kinds -> BOOLEAN]
         /\ ev'[kind] = None /\ \A x \in Kinds \ {kind} : ev'[x] = ev[x]
         /\ \A x \in Kinds : ~use'[x] => ev'[x] = None
  BY DEF TypeOK, EvaluatorsOK, FallThrough, Dropped

-----------------------------------------------------------------------------
\* The miner starts in the invariant.
LEMMA InitInv == Init => IndInv
<1> SUFFICES ASSUME Init PROVE IndInv
  OBVIOUS
<1> USE LiveAssumption DEF Init
<1>1. TypeOK
  BY DEF TypeOK, Kinds
<1>2. PhaseOK /\ EvaluatorsOK /\ ReadyOK
  BY DEF PhaseOK, EvaluatorsOK, ReadyOK
<1>3. LimitOK /\ NoShareTooMany
  BY DEF LimitOK, NoShareTooMany
<1>4. QED
  BY <1>1, <1>2, <1>3 DEF IndInv

\* What a step outside the preflight and the searches keeps: it leaves the
\* evaluators and the MinerState as they are.
LEMMA MinerUnchanged ==
  ASSUME UNCHANGED <<state, use, ev>>
  PROVE  Chosen' = Chosen /\ (Ready <=> Ready')
  BY DEF Chosen, Ready

\* The session, the signal handler and the timer.
LEMMA EnvironmentStep == IndInv /\ (Announce \/ Disconnect \/ SetStop) => IndInv'
<1> SUFFICES ASSUME IndInv, Announce \/ Disconnect \/ SetStop PROVE IndInv'
  OBVIOUS
<1> USE DEF IndInv
<1>1. /\ UNCHANGED <<phase, caller, coopmat, onDevice, work, ab, state, use, ev, hits,
                      submitted, fault>>
      /\ current' = current \/ current' \in Job
      /\ lost' = lost \/ lost' = TRUE
      /\ stop' = stop \/ stop' = TRUE
  BY DEF Announce, Disconnect, SetStop, config, session, miner, counts
<1>2. TypeOK'
  <2>1. lost' \in BOOLEAN /\ stop' \in BOOLEAN
    BY <1>1 DEF TypeOK
  <2>2. current' \in Job \cup {NoJob}
    BY <1>1 DEF TypeOK
  <2>3. QED
    BY <1>1, <2>1, <2>2 DEF TypeOK
<1>3. PhaseOK' /\ EvaluatorsOK'
  BY <1>1 DEF PhaseOK, EvaluatorsOK
<1>4. ReadyOK'
  BY <1>1, MinerUnchanged DEF ReadyOK
<1>5. LimitOK' /\ NoShareTooMany'
  BY <1>1 DEF LimitOK, NoShareTooMany
<1>6. QED
  BY <1>2, <1>3, <1>4, <1>5

\* The loop up to the job it takes.
LEMMA LoopStep == IndInv /\ (Loop \/ WaitForWork \/ TakeJob) => IndInv'
<1> SUFFICES ASSUME IndInv, Loop \/ WaitForWork \/ TakeJob PROVE IndInv'
  OBVIOUS
<1> USE DEF IndInv, Go, config, session, miner, counts
<1>1. UNCHANGED <<caller, coopmat, onDevice, current, lost, stop, ab, state, use, ev,
                  hits, submitted, fault>>
  BY DEF Loop, WaitForWork, TakeJob
<1>2. CASE Loop
  <2>1. phase = "loop" /\ phase' \in {"ended", "wait"} /\ work' = work
        /\ (phase' = "wait" => ~(caller = "script" /\ stop))
    BY <1>2 DEF Loop, Stopping
  <2>2. TypeOK' /\ PhaseOK' /\ EvaluatorsOK'
    BY <1>1, <2>1 DEF TypeOK, PhaseOK, EvaluatorsOK
  <2>3. ReadyOK'
    BY <1>1, <2>1, MinerUnchanged DEF ReadyOK
  <2>4. LimitOK' /\ NoShareTooMany'
    BY <1>1, <2>1 DEF LimitOK, NoShareTooMany
  <2>5. QED
    BY <2>2, <2>3, <2>4
<1>3. CASE WaitForWork
  <2>1. /\ phase \in {"start", "wait"} /\ phase' \in {"ended", "loop", "got"}
        /\ work' \in Job \cup {NoJob} /\ (phase' = "got" => work' \in Job)
        /\ (phase' = "got" => phase = "wait")
    BY <1>3 DEF WaitForWork, TypeOK
  <2>2. phase = "start" /\ phase' = "loop" => caller = "script"
    BY DEF PhaseOK
  <2>3. TypeOK' /\ PhaseOK' /\ EvaluatorsOK'
    BY <1>1, <2>1 DEF TypeOK, PhaseOK, EvaluatorsOK
  <2>4. ReadyOK'
    BY <1>1, <2>1, <2>2, MinerUnchanged DEF ReadyOK
  <2>5. LimitOK' /\ NoShareTooMany'
    BY <1>1, <2>1 DEF LimitOK, NoShareTooMany
  <2>6. QED
    BY <2>3, <2>4, <2>5
<1>4. CASE TakeJob
  <2>1. /\ phase = "got" /\ work' = work
        /\ phase' \in {"ended", "enter", "matrices", "search"}
        /\ phase' = "enter" => caller = "script" /\ coopmat
        /\ phase' \in {"matrices", "search"} => ~(caller = "script" /\ coopmat)
        /\ phase' = "search" => /\ caller = "run" /\ state.job # NoJob
                                /\ Key[work] = Key[state.job]
    BY <1>4 DEF TakeJob, TypeOK
  <2>2. TypeOK' /\ PhaseOK' /\ EvaluatorsOK'
    BY <1>1, <2>1 DEF TypeOK, PhaseOK, EvaluatorsOK
  <2>3. ReadyOK'
    BY <1>1, <2>1, MinerUnchanged DEF ReadyOK
  <2>4. LimitOK' /\ NoShareTooMany'
    BY <1>1, <2>1 DEF LimitOK, NoShareTooMany
  <2>5. QED
    BY <2>2, <2>3, <2>4
<1>5. QED
  BY <1>2, <1>3, <1>4

\* The preflight.
LEMMA PreflightStep ==
  IndInv /\ (Matrices \/ PreflightCoopmat \/ PreflightVk \/ PreflightGpu) => IndInv'
<1> SUFFICES ASSUME IndInv, Matrices \/ PreflightCoopmat \/ PreflightVk \/ PreflightGpu
             PROVE  IndInv'
  OBVIOUS
<1> USE DEF IndInv, config, session, miner, counts
<1>1. /\ UNCHANGED <<caller, coopmat, onDevice, current, lost, stop, work, hits, submitted>>
      /\ phase \in {"matrices", "coopmat", "vk", "gpu"} /\ work \in Job
      /\ ~(caller = "script" /\ coopmat)
  BY DEF Matrices, PreflightCoopmat, PreflightVk, PreflightGpu, PhaseOK
<1>2. phase' \in {"coopmat", "vk", "gpu", "search", "crashed"}
      /\ fault' \in {fault, "trees", "set_job"}
  BY DEF Matrices, PreflightCoopmat, PreflightVk, PreflightGpu, Go, Crash, Holds,
         FallThrough, Skip
<1>3. LimitOK' /\ NoShareTooMany'
  BY <1>1, <1>2 DEF LimitOK, NoShareTooMany
<1>4. CASE Matrices
  <2>1. /\ UNCHANGED <<state, use, ev>> /\ phase' \in {"coopmat", "crashed"}
        /\ ab' = IF ab[1] # Shape[work][1] \/ ab[2] # Shape[work][2] THEN Shape[work] ELSE ab
    BY <1>4 DEF Matrices, Go, Crash
  <2>2. ab' = Shape[work] /\ ab' \in Nat \X Nat
    BY <1>1, <2>1, LiveAssumption DEF TypeOK
  <2>3. TypeOK'
    BY <1>1, <1>2, <2>1, <2>2 DEF TypeOK
  <2>4. PhaseOK' /\ EvaluatorsOK' /\ ReadyOK'
    BY <1>1, <2>1, <2>2 DEF PhaseOK, EvaluatorsOK, ReadyOK
  <2>5. QED
    BY <1>3, <2>3, <2>4
<1>5. CASE phase # "matrices"
  <2>0. ab = Shape[work] /\ ab' = ab
    BY <1>1, <1>5 DEF PhaseOK, PreflightCoopmat, PreflightVk, PreflightGpu, Matrices
  <2>1. SUFFICES /\ ev' \in [Kinds -> Evaluator \cup {None}]
                 /\ use' \in [Kinds -> BOOLEAN]
                 /\ state' \in [job : Job \cup {NoJob}, ab : Nat \X Nat]
                 /\ EvaluatorsOK'
                 /\ phase' = "search" => Ready' /\ state'.job = work
    <3>1. TypeOK'
      BY <1>1, <1>2, <2>0 DEF TypeOK
    <3>2. PhaseOK'
      BY <1>1, <1>2, <2>0 DEF PhaseOK
    <3>3. ReadyOK'
      BY <1>1, <1>2 DEF ReadyOK
    <3>4. QED
      BY <1>3, <3>1, <3>2, <3>3
  <2>2. ASSUME NEW kind \in Kinds, use[kind], Holds(kind),
               kind \in {"vk", "gpu"} => ev["coopmat"] = None,
               kind = "gpu" => ev["vk"] = None
        PROVE  /\ ev' \in [Kinds -> Evaluator \cup {None}]
               /\ use' \in [Kinds -> BOOLEAN]
               /\ state' \in [job : Job \cup {NoJob}, ab : Nat \X Nat]
               /\ EvaluatorsOK' /\ Ready' /\ state'.job = work
    <3>1. use' = use
      BY <2>2 DEF Holds
    <3>2. QED
      BY <1>1, <2>0, <2>2, <3>1, HoldsReady DEF TypeOK
  <2>3. CASE PreflightCoopmat
    <3>1. CASE Skip("coopmat", "vk")
      BY <2>3, <3>1 DEF Skip, Go, TypeOK, EvaluatorsOK, Kinds
    <3>2. CASE use["coopmat"] /\ Holds("coopmat")
      BY <2>2, <3>2 DEF Kinds
    <3>3. CASE FallThrough("coopmat", "vk")
      <4>1. phase' = "vk" /\ state' = state
        BY <3>3 DEF FallThrough, Go
      <4>2. QED
        BY <3>3, <4>1, FallThroughOK DEF TypeOK, EvaluatorsOK, Kinds
    <3>4. QED
      BY <2>3, <3>1, <3>2, <3>3 DEF PreflightCoopmat
  <2>4. CASE PreflightVk
    <3>0. phase = "vk" /\ ev["coopmat"] = None
      BY <2>4 DEF PreflightVk, EvaluatorsOK
    <3>1. CASE Skip("vk", "gpu")
      BY <3>0, <3>1 DEF Skip, Go, TypeOK, EvaluatorsOK, Kinds
    <3>2. CASE use["vk"] /\ Holds("vk")
      BY <2>2, <3>0, <3>2 DEF Kinds
    <3>3. CASE FallThrough("vk", "gpu")
      <4>1. phase' = "gpu" /\ state' = state
        BY <3>3 DEF FallThrough, Go
      <4>2. QED
        BY <3>0, <3>3, <4>1, FallThroughOK DEF TypeOK, EvaluatorsOK, Kinds
    <3>4. CASE /\ use["vk"] /\ Crash("set_job") /\ ev' = [ev EXCEPT !["vk"] = Built("vk")]
               /\ UNCHANGED <<use, state>>
      <4>1. Built("vk") \in Evaluator
        BY <1>1, BuiltEvaluator DEF Kinds
      <4>2. QED
        BY <3>4, <4>1 DEF Crash, TypeOK, EvaluatorsOK
    <3>5. QED
      BY <2>4, <3>1, <3>2, <3>3, <3>4 DEF PreflightVk
  <2>5. CASE PreflightGpu
    <3>0. phase = "gpu" /\ ev["coopmat"] = None /\ ev["vk"] = None
      BY <2>5 DEF PreflightGpu, EvaluatorsOK
    <3>1. CASE use["gpu"] /\ Holds("gpu")
      BY <2>2, <3>0, <3>1 DEF Kinds
    <3>2. CASE /\ use["gpu"] /\ Crash("set_job")
               /\ ev' \in {ev, [ev EXCEPT !["gpu"] = Built("gpu")]}
               /\ UNCHANGED <<use, state>>
      <4>1. Built("gpu") \in Evaluator
        BY <1>1, BuiltEvaluator DEF Kinds
      <4>2. QED
        BY <3>2, <4>1 DEF Crash, TypeOK, EvaluatorsOK
    <3>3. CASE /\ ~use["gpu"] /\ Go("search") /\ state' = [job |-> work, ab |-> ab]
               /\ UNCHANGED <<use, ev>>
      <4>1. ev["gpu"] = None
        BY <3>3 DEF EvaluatorsOK, Kinds
      <4>2. Chosen' = "cpu"
        BY <3>0, <3>3, <4>1 DEF Chosen
      <4>3. Ready' /\ state'.job = work
        BY <1>1, <2>0, <3>3, <4>2 DEF Ready
      <4>4. QED
        BY <1>1, <3>3, <4>3 DEF Go, TypeOK, EvaluatorsOK
    <3>4. QED
      BY <2>5, <3>1, <3>2, <3>3 DEF PreflightGpu
  <2>6. QED
    BY <1>5, <2>3, <2>4, <2>5 DEF Matrices
<1>6. QED
  BY <1>4, <1>5 DEF PreflightCoopmat, PreflightVk, PreflightGpu

\* A search and the submission of its hit: the only steps that move the two
\* counters without coopmat.
LEMMA SearchStep == IndInv /\ (Search \/ SubmitHit) => IndInv'
<1> SUFFICES ASSUME IndInv, Search \/ SubmitHit PROVE IndInv'
  OBVIOUS
<1> USE DEF IndInv, config, session, miner, counts
<1>1. /\ UNCHANGED <<caller, coopmat, onDevice, current, lost, work, ab, state, use, ev>>
      /\ phase \in {"search", "found"} /\ ~(caller = "script" /\ coopmat)
      /\ fault' \in {fault, "search", "submit"}
  BY DEF Search, SubmitHit, PhaseOK, Go, Crash
<1>2. CASE Search
  <2>1. /\ phase = "search" /\ phase' \in {"loop", "found", "crashed"}
        /\ submitted' = submitted
        /\ phase' # "found" => UNCHANGED <<stop, hits>>
        /\ phase' = "found" => hits' = IF caller = "script" THEN hits + 1 ELSE hits
        /\ phase' = "found" => stop' = (stop \/ (caller = "script" /\ Reached(hits')))
    BY <1>2 DEF Search, Go, Crash, Count
  <2>2. /\ hits' \in Nat /\ stop' \in BOOLEAN
        /\ caller = "script" /\ phase' = "found" /\ Reached(hits') => stop'
    <3>1. hits' \in Nat
      BY <2>1 DEF TypeOK
    <3>2. stop' \in BOOLEAN
      BY <2>1 DEF TypeOK
    <3>3. QED
      BY <2>1, <3>1, <3>2
  <2>3. TypeOK' /\ PhaseOK' /\ EvaluatorsOK'
    BY <1>1, <2>1, <2>2 DEF TypeOK, PhaseOK, EvaluatorsOK
  <2>4. ReadyOK'
    BY <1>1, <2>1, MinerUnchanged DEF ReadyOK
  <2>5. LimitOK' /\ NoShareTooMany'
    <3>1. MaxHits \in Nat /\ hits \in Nat /\ submitted \in Nat
      BY LiveAssumption DEF TypeOK
    <3>2. Reached(hits') <=> hits' >= MaxHits
      BY DEF Reached
    <3>3. caller = "script" /\ ~coopmat => hits < MaxHits /\ hits - submitted = 0
      BY <2>1 DEF LimitOK, NoShareTooMany
    <3>4. CASE phase' = "found" /\ caller = "script"
      <4>1. hits' = hits + 1
        BY <2>1, <3>4
      <4>2. hits' >= MaxHits => stop'
        BY <2>2, <3>2, <3>4
      <4>3. QED
        BY <1>1, <2>1, <3>1, <3>3, <3>4, <4>1, <4>2 DEF LimitOK, NoShareTooMany
    <3>5. CASE phase' # "found" \/ caller # "script"
      BY <1>1, <2>1, <3>1, <3>3, <3>5 DEF LimitOK, NoShareTooMany
    <3>6. QED
      BY <3>4, <3>5
  <2>6. QED
    BY <2>3, <2>4, <2>5
<1>3. CASE SubmitHit
  <2>1. /\ phase = "found" /\ phase' \in {"loop", "crashed"} /\ UNCHANGED <<stop, hits>>
        /\ submitted' = IF caller = "script" THEN submitted + 1 ELSE submitted
    BY <1>3 DEF SubmitHit, Go, Crash
  <2>2. TypeOK' /\ PhaseOK' /\ EvaluatorsOK'
    BY <1>1, <2>1 DEF TypeOK, PhaseOK, EvaluatorsOK
  <2>3. ReadyOK'
    BY <1>1, <2>1, MinerUnchanged DEF ReadyOK
  <2>4. LimitOK' /\ NoShareTooMany'
    BY <1>1, <2>1, LiveAssumption DEF LimitOK, NoShareTooMany, TypeOK
  <2>5. QED
    BY <2>2, <2>3, <2>4
<1>4. QED
  BY <1>2, <1>3

\* Coopmat mining concerns the types and the evaluator it builds only.
LEMMA MiningStep ==
  IndInv /\ (EnterCoopmat \/ MiningHit \/ MiningFails \/ MiningReturns) => IndInv'
<1> SUFFICES ASSUME IndInv, EnterCoopmat \/ MiningHit \/ MiningFails \/ MiningReturns
             PROVE  IndInv'
  OBVIOUS
<1> USE DEF IndInv, Go, Crash, config, session, miner, counts
<1>1. /\ UNCHANGED <<caller, coopmat, onDevice, current, lost, work, ab>>
      /\ phase \in {"enter", "mining"} /\ caller = "script" /\ coopmat /\ work \in Job
      /\ phase' \in {"mining", "loop", "ended", "crashed"}
      /\ fault' \in {fault, "no_evaluator", "set_job", "submit", "round"}
  BY DEF EnterCoopmat, MiningHit, MiningFails, MiningReturns, PhaseOK
<1>2. PhaseOK' /\ ReadyOK' /\ LimitOK' /\ NoShareTooMany'
  BY <1>1 DEF PhaseOK, ReadyOK, LimitOK, NoShareTooMany
<1>3. CASE EnterCoopmat
  <2> DEFINE e == IF ev["coopmat"] # None THEN ev["coopmat"]
                  ELSE [tile |-> Tile[work], job |-> NoJob]
  <2>1. e \in Evaluator /\ [e EXCEPT !.job = work] \in Evaluator
    <3>1. e \in Evaluator
      BY <1>1 DEF TypeOK, Evaluator, Kinds
    <3>2. QED
      BY <1>1, <3>1 DEF Evaluator
  <2>2. [job |-> work, ab |-> Shape[work]] \in [job : Job \cup {NoJob}, ab : Nat \X Nat]
    BY <1>1, LiveAssumption
  <2>3. \/ /\ ev["coopmat"] = None /\ use' = [use EXCEPT !["coopmat"] = FALSE]
           /\ UNCHANGED <<ev, state>>
        \/ /\ use["coopmat"] /\ ev' = [ev EXCEPT !["coopmat"] = e]
           /\ UNCHANGED <<use, state>>
        \/ /\ use["coopmat"]
           /\ ev' = [ev EXCEPT !["coopmat"] = [e EXCEPT !.job = work]]
           /\ state' = [job |-> work, ab |-> Shape[work]] /\ UNCHANGED use
    BY <1>3 DEF EnterCoopmat
  <2> HIDE DEF e
  <2>4. UNCHANGED <<stop, hits, submitted>> /\ "coopmat" \in Kinds
    BY <1>3 DEF EnterCoopmat, Kinds
  <2>5. /\ use' \in [Kinds -> BOOLEAN] /\ ev' \in [Kinds -> Evaluator \cup {None}]
        /\ state' \in [job : Job \cup {NoJob}, ab : Nat \X Nat]
    <3>1. use' \in [Kinds -> BOOLEAN]
      BY <2>3 DEF TypeOK
    <3>2. ev' \in [Kinds -> Evaluator \cup {None}]
      BY <2>1, <2>3 DEF TypeOK
    <3>3. state' \in [job : Job \cup {NoJob}, ab : Nat \X Nat]
      BY <2>2, <2>3 DEF TypeOK
    <3>4. QED
      BY <3>1, <3>2, <3>3
  <2>6. TypeOK'
    BY <1>1, <2>4, <2>5 DEF TypeOK
  <2>7. EvaluatorsOK'
    <3>1. ASSUME NEW x \in Kinds, ~use'[x] PROVE ev'[x] = None
      BY <2>3, <2>4, <3>1 DEF TypeOK, EvaluatorsOK
    <3>2. QED
      BY <1>1, <3>1 DEF EvaluatorsOK
  <2>8. QED
    BY <1>2, <2>6, <2>7
<1>4. CASE MiningHit \/ MiningFails \/ MiningReturns
  <2>1. /\ UNCHANGED <<state, use, ev>>
        /\ hits' \in {hits, hits + 1} /\ submitted' \in {submitted, submitted + 1}
    BY <1>1, <1>4 DEF MiningHit, MiningFails, MiningReturns, Count
  <2>2. stop' \in BOOLEAN
    BY <1>4 DEF MiningHit, MiningFails, MiningReturns, Count, TypeOK
  <2>3. TypeOK'
    BY <1>1, <2>1, <2>2 DEF TypeOK
  <2>4. EvaluatorsOK'
    BY <1>1, <2>1 DEF EvaluatorsOK
  <2>5. QED
    BY <1>2, <2>3, <2>4
<1>5. QED
  BY <1>3, <1>4

\* Nothing happens.
LEMMA StutterStep == IndInv /\ UNCHANGED vars => IndInv'
<1> SUFFICES ASSUME IndInv, UNCHANGED vars PROVE IndInv'
  OBVIOUS
<1> USE DEF IndInv, vars, config, session, miner, counts
<1>1. TypeOK' /\ PhaseOK' /\ EvaluatorsOK'
  BY DEF TypeOK, PhaseOK, EvaluatorsOK
<1>2. ReadyOK' /\ LimitOK' /\ NoShareTooMany'
  BY MinerUnchanged DEF ReadyOK, LimitOK, NoShareTooMany
<1>3. QED
  BY <1>1, <1>2

\* The inductive invariant holds in every state.
THEOREM Inductive == Spec => []IndInv
<1>1. IndInv /\ [Next]_vars => IndInv'
  BY EnvironmentStep, LoopStep, PreflightStep, SearchStep, MiningStep, StutterStep
     DEF Next, Main
<1>2. QED
  BY <1>1, InitInv, PTL DEF Spec

-----------------------------------------------------------------------------
\* Type correctness, for any jobs and evaluators.
THEOREM TypeCorrect == Spec => []TypeOK
  BY Inductive, PTL DEF IndInv

\* Whatever evaluators failed and whatever jobs came and went, a search uses
\* one that holds the job it was given (miner.py 220-276, 281-394, 396-441).
THEOREM EvaluatorHoldsJobHolds == Spec => []EvaluatorHoldsJob
<1>1. IndInv => EvaluatorHoldsJob
  BY DEF IndInv, ReadyOK, Ready, EvaluatorHoldsJob
<1>2. QED
  BY <1>1, Inductive, PTL

\* The script never hands over more shares than --max-hits, for every limit
\* (35_run_miner_live.py 124-154, 218-312).
THEOREM NoShareTooManyHolds == Spec => []NoShareTooMany
  BY Inductive, PTL DEF IndInv
=============================================================================
