---------------------------- MODULE SessionRunner ----------------------------
(***************************************************************************)
(* run_session_with_reconnect (src/src/pearl_amd/stratum_session.py): one  *)
(* session after another until `stop' is set, with a pause after a failed  *)
(* one.  A session is reduced to its start (modelled in StratumSession),   *)
(* its connection and its end.  Time is reduced to the pauses' lengths.    *)
(***************************************************************************)
EXTENDS Naturals

CONSTANTS
  BackoffInitial,  \* backoff_initial_sec
  BackoffMax,      \* backoff_max_sec
  MaxAbandoned     \* bound of the model: abandoned connections open at once

ASSUME RunnerAssumption ==
  /\ BackoffInitial \in Nat \ {0} /\ BackoffMax \in Nat
  /\ BackoffInitial <= BackoffMax /\ MaxAbandoned \in Nat

VARIABLES
  pc,         \* where the runner is
  stop,       \* the stop event
  backoff,    \* the length of the next pause
  conn,       \* the connection of the session in the `with' block
  abandoned,  \* connections of sessions whose start() raised after connecting
  slept,      \* history: the pause before this attempt, 0 after a success
  owed        \* history: the pause due after the connections abandoned in a row

history    == <<slept, owed>>
runnerVars == <<pc, stop, backoff, conn, abandoned, history>>

RunnerInit ==
  /\ pc = "test" /\ stop = FALSE /\ backoff = BackoffInitial
  /\ conn = "none" /\ abandoned = 0 /\ slept = 0 /\ owed = 0

Smaller(a, b) == IF a <= b THEN a ELSE b

\* Fault: `while True'.
TestAlways ==
  /\ pc = "test"
  /\ pc' = "start"
  /\ UNCHANGED <<stop, backoff, conn, abandoned, history>>

\* `while not stop.is_set()'
Test ==
  /\ pc = "test"
  /\ pc' = IF stop THEN "ended" ELSE "start"
  /\ UNCHANGED <<stop, backoff, conn, abandoned, history>>

\* Fault: the pause starts over before on_session_start has returned.
StartResets ==
  /\ pc = "start"
  /\ pc' = "entered" /\ conn' = "open"
  /\ backoff' = BackoffInitial
  /\ UNCHANGED <<stop, abandoned, history>>

\* start() returned: the `with' block is entered.
Start ==
  /\ pc = "start"
  /\ pc' = "entered" /\ conn' = "open"
  /\ UNCHANGED <<stop, backoff, abandoned, history>>

\* start() raised before there was a connection, or in the handshake.  As
\* __enter__ raises, __exit__ is not called: the connection stays.
StartRaises ==
  /\ pc = "start"
  /\ pc' = "failed"
  /\ \/ UNCHANGED <<abandoned, owed>>
     \/ /\ abandoned < MaxAbandoned
        /\ abandoned' = abandoned + 1
        /\ owed' = IF owed = 0 THEN BackoffInitial ELSE Smaller(owed * 2, BackoffMax)
  /\ UNCHANGED <<stop, backoff, conn, slept>>

\* on_session_start(sess) returns and the pause starts over, or it raises and
\* __exit__ closes the connection.
SessionStarted ==
  /\ pc = "entered"
  /\ \/ /\ pc' = "connected" /\ backoff' = BackoffInitial /\ conn' = conn
        /\ slept' = 0 /\ owed' = 0
     \/ pc' = "failed" /\ conn' = "none" /\ UNCHANGED <<backoff, history>>
  /\ UNCHANGED <<stop, abandoned>>

\* wait_until_disconnected() has no timeout and does not look at stop; then
\* __exit__ and the next iteration, at once.
Leave ==
  /\ pc = "connected" /\ conn = "dropped"
  /\ pc' = "test" /\ conn' = "none"
  /\ UNCHANGED <<stop, backoff, abandoned, history>>

\* `except Exception': stop.wait(backoff) ends early, and with it the loop, when
\* stop is set; otherwise the next pause is twice as long, up to the maximum.
Pause ==
  /\ pc = "failed"
  /\ IF stop THEN pc' = "ended" /\ UNCHANGED <<backoff, slept>>
     ELSE /\ pc' = "test"
          /\ slept' = backoff
          /\ backoff' = Smaller(backoff * 2, BackoffMax)
  /\ UNCHANGED <<stop, conn, abandoned, owed>>

\* The pool, or the network, drops a connection.
Drop ==
  /\ \/ conn = "open" /\ conn' = "dropped" /\ UNCHANGED abandoned
     \/ abandoned > 0 /\ abandoned' = abandoned - 1 /\ UNCHANGED conn
  /\ UNCHANGED <<pc, stop, backoff, history>>

StopSet ==
  /\ ~stop /\ stop' = TRUE
  /\ UNCHANGED <<pc, backoff, conn, abandoned, history>>

Ended == pc = "ended" /\ UNCHANGED runnerVars

Runner == Test \/ Start \/ StartRaises \/ SessionStarted \/ Leave \/ Pause

RunnerNext == Runner \/ Drop \/ StopSet \/ Ended

\* Neither start() nor wait_until_disconnected() need return: start() writes to a
\* socket without a timeout (CallEnds of StratumRpc) and may wait for the challenge
\* solver (Solved of ChallengeSolver).  Every other call returns by itself.
RunnerSafety == RunnerInit /\ [][RunnerNext]_runnerVars
RunnerSpec == RunnerSafety /\ WF_runnerVars(Test \/ SessionStarted \/ Leave \/ Pause)

-----------------------------------------------------------------------------
(***************************************************************************)
(* Properties.                                                             *)
(***************************************************************************)
RunnerTypeOK ==
  /\ pc \in {"test", "start", "entered", "connected", "failed", "ended"}
  /\ stop \in BOOLEAN
  /\ backoff \in BackoffInitial..BackoffMax
  /\ slept \in {0} \cup BackoffInitial..BackoffMax
  /\ owed \in {0} \cup BackoffInitial..BackoffMax
  /\ conn \in {"none", "open", "dropped"}
  /\ abandoned \in 0..MaxAbandoned

\* Nothing on this side closes a connection whose start() raised, so that how
\* fast they pile up is all that bounds them: in a row of failures the pause before
\* an attempt doubles with every connection abandoned so far, up to
\* backoff_max_sec, also when attempts between them enter the session and
\* on_session_start raises (394-407).
LeaksPaced == pc = "start" => slept >= owed

\* Pauses in a row grow until they have reached backoff_max_sec, and a session
\* that was entered is what ends the row (394, 400, 405-407).
PausesGrow ==
  [][/\ pc = "failed" /\ pc' = "test" => slept' > slept \/ slept' = BackoffMax
     /\ slept' < slept => pc' = "connected"]_runnerVars

\* After stop is set the runner ends, unless the pool keeps the connection of the
\* current session up for ever or start() does not return: stop is read between
\* sessions only (395, 406).
StopHonoured ==
  [](stop => <>\/ pc = "ended"
               \/ []\/ pc = "connected" /\ conn = "open"
                    \/ pc = "start")
=============================================================================
