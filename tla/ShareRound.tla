----------------------------- MODULE ShareRound -----------------------------
(***************************************************************************)
(* What one coopmat round promises its caller, with the threads and the    *)
(* queue abstracted away: the round accepts candidate shares one after the *)
(* other, gives each accepted share exactly one final outcome, and ends    *)
(* only when no accepted share is open, with a result that tells the       *)
(* caller the truth about the outcomes (PearlMiner._search_coopmat_        *)
(* pipelined, src/src/pearl_amd/miner.py).                                 *)
(***************************************************************************)
EXTENDS Naturals

CONSTANT MaxReturn     \* coopmat_shares_per_round: most shares of one round

VARIABLES
  accepted,    \* how many candidates the round has taken from the search
  outcome,     \* the fate of each candidate, numbered in the order accepted
  result       \* "running", or how the call returned

roundVars == <<accepted, outcome, result>>

Candidates == 1..MaxReturn
Fates      == {"submitted", "failed", "dropped"}
Results    == {"returned", "exhausted", "raised"}

RoundInit ==
  /\ accepted = 0
  /\ outcome = [c \in Candidates |-> "open"]
  /\ result = "running"

Accept ==
  /\ result = "running"
  /\ accepted < MaxReturn
  /\ accepted' = accepted + 1
  /\ UNCHANGED <<outcome, result>>

\* An open share is decided, once and for all.
Resolve(c) ==
  /\ result = "running"
  /\ c <= accepted
  /\ outcome[c] = "open"
  /\ \E fate \in Fates : outcome' = [outcome EXCEPT ![c] = fate]
  /\ UNCHANGED <<accepted, result>>

\* The result is truthful: a failed share makes the round raise; a normal
\* return with shares means one was submitted; "exhausted" means none was.
\* (A search error also raises, whatever the outcomes are.)
Truthful(r) ==
  /\ (\E c \in Candidates : outcome[c] = "failed") => r = "raised"
  /\ r = "returned"  => \E c \in Candidates : outcome[c] = "submitted"
  /\ r = "exhausted" => \A c \in Candidates : outcome[c] # "submitted"

Finish ==
  /\ result = "running"
  /\ \A c \in 1..accepted : outcome[c] # "open"
  /\ \E r \in Results : Truthful(r) /\ result' = r
  /\ UNCHANGED <<accepted, outcome>>

RoundNext ==
  \/ Accept
  \/ \E c \in Candidates : Resolve(c)
  \/ Finish

RoundSafety == RoundInit /\ [][RoundNext]_roundVars

\* Every open share is decided and the round ends.
RoundSpec ==
  /\ RoundSafety
  /\ WF_roundVars(\E c \in Candidates : Resolve(c))
  /\ WF_roundVars(Finish)
=============================================================================
