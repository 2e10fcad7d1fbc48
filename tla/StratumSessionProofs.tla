------------------------ MODULE StratumSessionProofs ------------------------
(***************************************************************************)
(* Proofs about StratumSession, for any number of announcements, and about *)
(* SessionRunner, at the end.                                              *)
(*                                                                         *)
(* WorkCurrent is inductive by itself: whoever changes an announcement has *)
(* an assembly ahead.  The other properties need to know which thread can  *)
(* be where (PhaseOK), how the stored ages are ordered (AgesOK), and what  *)
(* each point of an emit owes to the Work stored before it (ToldOK,        *)
(* EventOK).                                                               *)
(***************************************************************************)
EXTENDS StratumSession, SessionRunner, Integers, TLAPS

BeforeDeclare ==
  {"connect", "install", "detect", "solve", "authorize", "declare", "failed"}

InSession ==
  {"declare", "declared", "wait", "check", "read", "mine", "again", "lost"}

\* The main thread assembles only while it declares the shape, in a session
\* whose dialect is settled and whose client is set.
PhaseOK ==
  /\ emit["main"] # "no" => mpc = "declared"
  /\ mpc \in {"declare", "declared"} => dialect = "client"
  /\ emit["reader"] # "no" => rpc = "running"
  /\ mpc \in {"connect", "install", "detect"} => dialect = "auto"
  /\ dialect = "auto" => mpc \in {"connect", "install", "detect", "failed"}
  /\ mpc \in InSession => client

\* The bound on announcements leaves room for the declared shape.
ClockOK ==
  mpc \in {"connect", "install", "detect", "solve", "authorize", "declare"}
    => clock <= MaxUpdates

\* What is stored is not newer than the counter, the Work not newer than it.
AgesOK ==
  /\ notify.at <= clock /\ params.at <= clock /\ diff.at <= clock
  /\ work.notify <= notify.at /\ work.params <= params.at /\ work.diff <= diff.at

\* With one assembling thread the callback is at most one Work behind.
ToldOK ==
  dialect # "client" =>
    /\ emit["reader"] \in {"no", "assemble"} => told = work
    /\ emit["reader"] \in {"set", "call"} => own["reader"] = work

\* The event is set after a Work was stored, and seen before one is read.
EventOK ==
  /\ ready \/ mpc \in {"check", "read"} => work # NoWork
  /\ \A t \in Threads : emit[t] \in {"set", "call"} => work # NoWork

\* A connection that was lost when the call began is still lost at its check.
LostOK ==
  /\ lostAtCall /\ mpc \in {"wait", "check"} => Disconnected
  /\ mpc \in {"read", "mine"} => ~lostAtCall
  /\ mpc = "connect" => rpc = "off"

IndInv ==
  /\ TypeOK /\ PhaseOK /\ ClockOK /\ AgesOK /\ WorkCurrent /\ ToldOK
  /\ EventOK /\ LostOK

-----------------------------------------------------------------------------
\* A Work that is assembled is well typed, is not NoWork, and is as old as what
\* is stored.
LEMMA AssembledWork ==
  ASSUME TypeOK, Complete
  PROVE  /\ Assembled \in Works /\ Assembled # NoWork
         /\ Assembled.notify = notify.at /\ Assembled.params = params.at
         /\ Assembled.diff = diff.at
<1>1. Source \in {"set_difficulty", "notify", "diff1"}
  BY DEF Source
<1>2. /\ notify.at \in 0..(MaxUpdates + 1) /\ params.at \in 0..(MaxUpdates + 1)
      /\ diff.at \in 0..(MaxUpdates + 1)
  BY SessionAssumption DEF TypeOK, Entry, Nothing
<1>3. QED
  BY <1>1, <1>2 DEF Assembled, Works, NoWork

\* What Stamp makes is an entry.
LEMMA StampEntry ==
  ASSUME TypeOK, clock <= MaxUpdates, NEW C, NEW c \in C
  PROVE  /\ Stamp(c) \in Entry(C) /\ Stamp(c).at = clock + 1
         /\ clock + 1 \in 0..(MaxUpdates + 1)
  BY SessionAssumption DEF TypeOK, Entry, Stamp

\* Every step keeps the types (the assembled Work by AssembledWork, a stored
\* announcement by StampEntry).
LEMMA TypeStep == IndInv /\ [Next]_vars => TypeOK'
<1> SUFFICES ASSUME IndInv, [Next]_vars PROVE TypeOK'
  OBVIOUS
<1> USE DEF IndInv, TypeOK, Threads
<1>1. ASSUME NEW t \in Threads, Assemble(t) PROVE TypeOK'
  BY <1>1, AssembledWork DEF Assemble, login, latest, feed, taken
<1>2. ASSUME NEW t \in Threads, EmitReturns(t) PROVE TypeOK'
  BY <1>2 DEF EmitReturns, login, latest, feed, taken
<1>3. ASSUME NEW t \in Threads, EmitRaises(t) PROVE TypeOK'
  BY <1>3 DEF EmitRaises, login, latest, feed, taken
<1>4. ASSUME NEW t \in Threads, SetReady(t) PROVE TypeOK'
  BY <1>4 DEF SetReady, login, latest, feed, taken
<1>5. ASSUME NEW t \in Threads, Tell(t) PROVE TypeOK'
  BY <1>5 DEF Tell, login, latest, feed, taken
<1>6. CASE Store
  <2>1. clock + 1 \in 0..(MaxUpdates + 1) /\ clock <= MaxUpdates
    BY <1>6, SessionAssumption DEF Store
  <2>2. /\ \A c \in NotifyClasses : Stamp(c) \in Entry(NotifyClasses)
        /\ \A c \in ParamsClasses : Stamp(c) \in Entry(ParamsClasses)
        /\ \A c \in DiffClasses : Stamp(c) \in Entry(DiffClasses)
    BY <2>1, StampEntry
  <2>3. notify' \in Entry(NotifyClasses) /\ params' \in Entry(ParamsClasses) /\ diff' \in Entry(DiffClasses)
    BY <1>6, <2>2 DEF Store
  <2>4. QED
    BY <1>6, <2>1, <2>3 DEF Store, login, latest, feed, taken
<1>7. CASE Challenge
  BY <1>7 DEF Challenge, login, latest, feed, taken
<1>8. CASE Reply
  BY <1>8 DEF Reply, login, latest, feed, taken
<1>9. CASE ReaderEnds
  BY <1>9 DEF ReaderEnds, login, latest, feed, taken
<1>10. CASE Connect
  BY <1>10 DEF Connect, login, latest, feed, taken
<1>11. CASE Install
  BY <1>11 DEF Install, login, latest, feed, taken
<1>12. CASE Detect
  BY <1>12 DEF Detect, login, latest, feed, taken
<1>13. CASE Solve
  BY <1>13 DEF Solve, login, latest, feed, taken
<1>14. CASE Authorized
  BY <1>14 DEF Authorized, login, latest, feed, taken
<1>15. CASE LoginFails
  BY <1>15 DEF LoginFails, login, latest, feed, taken
<1>16. CASE Declare
  <2>1. clock <= MaxUpdates
    BY <1>16 DEF Declare, ClockOK
  <2>2. Stamp("good") \in Entry(ParamsClasses) /\ clock + 1 \in 0..(MaxUpdates + 1)
    BY <2>1, StampEntry DEF ParamsClasses
  <2>3. QED
    BY <1>16, <2>2 DEF Declare, login, latest, feed, taken
<1>17. CASE Started
  <2>1. lostAtCall' \in BOOLEAN
    BY <1>17 DEF Started, Disconnected
  <2>2. QED
    BY <1>17, <2>1 DEF Started, login, latest, feed, taken
<1>18. CASE WaitOver
  BY <1>18 DEF WaitOver, login, latest, feed, taken
<1>19. CASE TimesOut
  BY <1>19 DEF TimesOut, login, latest, feed, taken
<1>20. CASE CheckConnection
  BY <1>20 DEF CheckConnection, login, latest, feed, taken
<1>21. CASE TakeWork
  BY <1>21 DEF TakeWork, login, latest, feed, taken
<1>22. CASE MiningEnds
  BY <1>22 DEF MiningEnds, login, latest, feed, taken
<1>23. CASE Again
  <2>1. mpc' \in {"lost", "wait"} /\ lostAtCall' \in BOOLEAN
    BY <1>23 DEF Again, Disconnected
  <2>2. QED
    BY <1>23, <2>1 DEF Again, login, latest, feed, taken
<1>24. CASE Stop
  BY <1>24 DEF Stop, login, latest, feed, taken
<1>25. CASE Over \/ UNCHANGED vars
  BY <1>25 DEF Over, vars, login, latest, feed, taken
<1>26. QED
  BY <1>1, <1>2, <1>3, <1>4, <1>5, <1>6, <1>7, <1>8, <1>9, <1>10, <1>11,
     <1>12, <1>13, <1>14, <1>15, <1>16, <1>17, <1>18, <1>19, <1>20, <1>21, <1>22,
     <1>23, <1>24, <1>25 DEF Next, MainStep, Emit

\* PhaseOK is preserved: start() runs top to bottom.
LEMMA PhaseStep == IndInv /\ [Next]_vars => PhaseOK'
<1> SUFFICES ASSUME IndInv, [Next]_vars PROVE PhaseOK'
  OBVIOUS
<1> USE DEF IndInv, TypeOK, PhaseOK, InSession, Threads
<1>1. ASSUME NEW t \in Threads, Assemble(t) PROVE PhaseOK'
  BY <1>1 DEF Assemble, login, latest, feed, taken
<1>2. ASSUME NEW t \in Threads, EmitReturns(t) PROVE PhaseOK'
  BY <1>2 DEF EmitReturns, login, latest, feed, taken
<1>3. ASSUME NEW t \in Threads, EmitRaises(t) PROVE PhaseOK'
  BY <1>3 DEF EmitRaises, login, latest, feed, taken
<1>4. ASSUME NEW t \in Threads, SetReady(t) PROVE PhaseOK'
  BY <1>4 DEF SetReady, login, latest, feed, taken
<1>5. ASSUME NEW t \in Threads, Tell(t) PROVE PhaseOK'
  BY <1>5 DEF Tell, login, latest, feed, taken
<1>6. CASE Store
  BY <1>6 DEF Store, login, latest, feed, taken, Reading
<1>7. CASE Challenge
  BY <1>7 DEF Challenge, login, latest, feed, taken
<1>8. CASE Reply
  BY <1>8 DEF Reply, login, latest, feed, taken
<1>9. CASE ReaderEnds
  BY <1>9 DEF ReaderEnds, login, latest, feed, taken, Reading
<1>10. CASE Connect
  BY <1>10 DEF Connect, login, latest, feed, taken
<1>11. CASE Install
  BY <1>11 DEF Install, login, latest, feed, taken
<1>12. CASE Detect
  BY <1>12 DEF Detect, login, latest, feed, taken
<1>13. CASE Solve
  BY <1>13 DEF Solve, login, latest, feed, taken
<1>14. CASE Authorized
  BY <1>14 DEF Authorized, login, latest, feed, taken
<1>15. CASE LoginFails
  BY <1>15 DEF LoginFails, login, latest, feed, taken
<1>16. CASE Declare
  BY <1>16 DEF Declare, login, latest, feed, taken
<1>17. CASE Started
  BY <1>17 DEF Started, login, latest, feed, taken
<1>18. CASE WaitOver
  BY <1>18 DEF WaitOver, login, latest, feed, taken
<1>19. CASE TimesOut
  BY <1>19 DEF TimesOut, login, latest, feed, taken
<1>20. CASE CheckConnection
  BY <1>20 DEF CheckConnection, login, latest, feed, taken
<1>21. CASE TakeWork
  BY <1>21 DEF TakeWork, login, latest, feed, taken
<1>22. CASE MiningEnds
  BY <1>22 DEF MiningEnds, login, latest, feed, taken
<1>23. CASE Again
  BY <1>23 DEF Again, login, latest, feed, taken
<1>24. CASE Stop
  BY <1>24 DEF Stop, login, latest, feed, taken
<1>25. CASE Over \/ UNCHANGED vars
  BY <1>25 DEF Over, vars, login, latest, feed, taken
<1>26. QED
  BY <1>1, <1>2, <1>3, <1>4, <1>5, <1>6, <1>7, <1>8, <1>9, <1>10, <1>11,
     <1>12, <1>13, <1>14, <1>15, <1>16, <1>17, <1>18, <1>19, <1>20, <1>21, <1>22,
     <1>23, <1>24, <1>25 DEF Next, MainStep, Emit

\* ClockOK is preserved: the reader stops at the bound, the main thread declares
\* once.
LEMMA ClockStep == IndInv /\ [Next]_vars => ClockOK'
<1> SUFFICES ASSUME IndInv, [Next]_vars PROVE ClockOK'
  OBVIOUS
<1> USE DEF IndInv, TypeOK, PhaseOK, ClockOK, Threads
<1>1. ASSUME NEW t \in Threads, Assemble(t) PROVE ClockOK'
  BY <1>1 DEF Assemble, login, latest, feed, taken
<1>2. ASSUME NEW t \in Threads, EmitReturns(t) PROVE ClockOK'
  BY <1>2 DEF EmitReturns, login, latest, feed, taken
<1>3. ASSUME NEW t \in Threads, EmitRaises(t) PROVE ClockOK'
  BY <1>3 DEF EmitRaises, login, latest, feed, taken
<1>4. ASSUME NEW t \in Threads, SetReady(t) PROVE ClockOK'
  BY <1>4 DEF SetReady, login, latest, feed, taken
<1>5. ASSUME NEW t \in Threads, Tell(t) PROVE ClockOK'
  BY <1>5 DEF Tell, login, latest, feed, taken
<1>6. CASE Store
  BY <1>6, SessionAssumption DEF Store, login, latest, feed, taken
<1>7. CASE Challenge
  BY <1>7 DEF Challenge, login, latest, feed, taken
<1>8. CASE Reply
  BY <1>8 DEF Reply, login, latest, feed, taken
<1>9. CASE ReaderEnds
  BY <1>9 DEF ReaderEnds, login, latest, feed, taken
<1>10. CASE Connect
  BY <1>10 DEF Connect, login, latest, feed, taken
<1>11. CASE Install
  BY <1>11 DEF Install, login, latest, feed, taken
<1>12. CASE Detect
  BY <1>12 DEF Detect, login, latest, feed, taken
<1>13. CASE Solve
  BY <1>13 DEF Solve, login, latest, feed, taken
<1>14. CASE Authorized
  BY <1>14 DEF Authorized, login, latest, feed, taken
<1>15. CASE LoginFails
  BY <1>15 DEF LoginFails, login, latest, feed, taken
<1>16. CASE Declare
  BY <1>16, SessionAssumption DEF Declare, login, latest, feed, taken
<1>17. CASE Started
  BY <1>17 DEF Started, login, latest, feed, taken
<1>18. CASE WaitOver
  BY <1>18 DEF WaitOver, login, latest, feed, taken
<1>19. CASE TimesOut
  BY <1>19 DEF TimesOut, login, latest, feed, taken
<1>20. CASE CheckConnection
  BY <1>20 DEF CheckConnection, login, latest, feed, taken
<1>21. CASE TakeWork
  BY <1>21 DEF TakeWork, login, latest, feed, taken
<1>22. CASE MiningEnds
  BY <1>22 DEF MiningEnds, login, latest, feed, taken
<1>23. CASE Again
  BY <1>23 DEF Again, login, latest, feed, taken
<1>24. CASE Stop
  BY <1>24 DEF Stop, login, latest, feed, taken
<1>25. CASE Over \/ UNCHANGED vars
  BY <1>25 DEF Over, vars, login, latest, feed, taken
<1>26. QED
  BY <1>1, <1>2, <1>3, <1>4, <1>5, <1>6, <1>7, <1>8, <1>9, <1>10, <1>11,
     <1>12, <1>13, <1>14, <1>15, <1>16, <1>17, <1>18, <1>19, <1>20, <1>21, <1>22,
     <1>23, <1>24, <1>25 DEF Next, MainStep, Emit

\* AgesOK is preserved: a stored announcement is the newest, and a Work is made of
\* what is stored.
LEMMA AgesStep == IndInv /\ [Next]_vars => AgesOK'
<1> SUFFICES ASSUME IndInv, [Next]_vars PROVE AgesOK'
  OBVIOUS
<1> USE DEF IndInv, TypeOK, AgesOK, Threads
<1>1. ASSUME NEW t \in Threads, Assemble(t) PROVE AgesOK'
  <2>1. notify.at \in Int /\ params.at \in Int /\ diff.at \in Int
    BY SessionAssumption DEF Entry, Nothing
  <2>2. QED
    BY <1>1, <2>1, AssembledWork DEF Assemble, login, latest, feed, taken
<1>2. ASSUME NEW t \in Threads, EmitReturns(t) PROVE AgesOK'
  BY <1>2 DEF EmitReturns, login, latest, feed, taken
<1>3. ASSUME NEW t \in Threads, EmitRaises(t) PROVE AgesOK'
  BY <1>3 DEF EmitRaises, login, latest, feed, taken
<1>4. ASSUME NEW t \in Threads, SetReady(t) PROVE AgesOK'
  BY <1>4 DEF SetReady, login, latest, feed, taken
<1>5. ASSUME NEW t \in Threads, Tell(t) PROVE AgesOK'
  BY <1>5 DEF Tell, login, latest, feed, taken
<1>6. CASE Store
  <2>1. clock <= MaxUpdates /\ clock \in Int
    BY <1>6, SessionAssumption DEF Store
  <2>2. \A c : Stamp(c).at = clock + 1
    BY DEF Stamp
  <2>3. work \in Works /\ notify \in Entry(NotifyClasses) /\ params \in Entry(ParamsClasses) /\ diff \in Entry(DiffClasses)
    OBVIOUS
  <2>4. /\ work.notify \in Int /\ work.params \in Int /\ work.diff \in Int
        /\ notify.at \in Int /\ params.at \in Int /\ diff.at \in Int
    BY <2>3, SessionAssumption DEF Works, Entry, Nothing
  <2>5. QED
    BY <1>6, <2>1, <2>2, <2>4 DEF Store, login, latest, feed, taken
<1>7. CASE Challenge
  BY <1>7 DEF Challenge, login, latest, feed, taken
<1>8. CASE Reply
  BY <1>8 DEF Reply, login, latest, feed, taken
<1>9. CASE ReaderEnds
  BY <1>9 DEF ReaderEnds, login, latest, feed, taken
<1>10. CASE Connect
  BY <1>10 DEF Connect, login, latest, feed, taken
<1>11. CASE Install
  BY <1>11 DEF Install, login, latest, feed, taken
<1>12. CASE Detect
  BY <1>12 DEF Detect, login, latest, feed, taken
<1>13. CASE Solve
  BY <1>13 DEF Solve, login, latest, feed, taken
<1>14. CASE Authorized
  BY <1>14 DEF Authorized, login, latest, feed, taken
<1>15. CASE LoginFails
  BY <1>15 DEF LoginFails, login, latest, feed, taken
<1>16. CASE Declare
  <2>1. Stamp("good").at = clock + 1 /\ clock \in Int
    BY SessionAssumption DEF Stamp
  <2>2. params.at \in Int /\ work.params \in Int /\ notify.at \in Int /\ diff.at \in Int
    BY SessionAssumption DEF Works, Entry, Nothing
  <2>3. QED
    BY <1>16, <2>1, <2>2 DEF Declare, login, latest, feed, taken
<1>17. CASE Started
  BY <1>17 DEF Started, login, latest, feed, taken
<1>18. CASE WaitOver
  BY <1>18 DEF WaitOver, login, latest, feed, taken
<1>19. CASE TimesOut
  BY <1>19 DEF TimesOut, login, latest, feed, taken
<1>20. CASE CheckConnection
  BY <1>20 DEF CheckConnection, login, latest, feed, taken
<1>21. CASE TakeWork
  BY <1>21 DEF TakeWork, login, latest, feed, taken
<1>22. CASE MiningEnds
  BY <1>22 DEF MiningEnds, login, latest, feed, taken
<1>23. CASE Again
  BY <1>23 DEF Again, login, latest, feed, taken
<1>24. CASE Stop
  BY <1>24 DEF Stop, login, latest, feed, taken
<1>25. CASE Over \/ UNCHANGED vars
  BY <1>25 DEF Over, vars, login, latest, feed, taken
<1>26. QED
  BY <1>1, <1>2, <1>3, <1>4, <1>5, <1>6, <1>7, <1>8, <1>9, <1>10, <1>11,
     <1>12, <1>13, <1>14, <1>15, <1>16, <1>17, <1>18, <1>19, <1>20, <1>21, <1>22,
     <1>23, <1>24, <1>25 DEF Next, MainStep, Emit

\* WorkCurrent is preserved: Store and Declare leave an assembly ahead, and an emit
\* that returns or raises found nothing to assemble.
LEMMA CurrentStep == IndInv /\ [Next]_vars => WorkCurrent'
<1> SUFFICES ASSUME IndInv, [Next]_vars PROVE WorkCurrent'
  OBVIOUS
<1> USE DEF IndInv, TypeOK, Threads, WorkCurrent, Complete, Underivable, Assembled, Source
<1>1. ASSUME NEW t \in Threads, Assemble(t) PROVE WorkCurrent'
  BY <1>1 DEF Assemble, login, latest, feed, taken
<1>2. ASSUME NEW t \in Threads, EmitReturns(t) PROVE WorkCurrent'
  BY <1>2 DEF EmitReturns, login, latest, feed, taken
<1>3. ASSUME NEW t \in Threads, EmitRaises(t) PROVE WorkCurrent'
  BY <1>3 DEF EmitRaises, login, latest, feed, taken
<1>4. ASSUME NEW t \in Threads, SetReady(t) PROVE WorkCurrent'
  BY <1>4 DEF SetReady, login, latest, feed, taken
<1>5. ASSUME NEW t \in Threads, Tell(t) PROVE WorkCurrent'
  BY <1>5 DEF Tell, login, latest, feed, taken
<1>6. CASE Store
  BY <1>6 DEF Store, login, latest, feed, taken
<1>7. CASE Challenge
  BY <1>7 DEF Challenge, login, latest, feed, taken
<1>8. CASE Reply
  BY <1>8 DEF Reply, login, latest, feed, taken
<1>9. CASE ReaderEnds
  BY <1>9 DEF ReaderEnds, login, latest, feed, taken
<1>10. CASE Connect
  BY <1>10 DEF Connect, login, latest, feed, taken
<1>11. CASE Install
  BY <1>11 DEF Install, login, latest, feed, taken
<1>12. CASE Detect
  BY <1>12 DEF Detect, login, latest, feed, taken
<1>13. CASE Solve
  BY <1>13 DEF Solve, login, latest, feed, taken
<1>14. CASE Authorized
  BY <1>14 DEF Authorized, login, latest, feed, taken
<1>15. CASE LoginFails
  BY <1>15 DEF LoginFails, login, latest, feed, taken
<1>16. CASE Declare
  BY <1>16 DEF Declare, login, latest, feed, taken
<1>17. CASE Started
  BY <1>17 DEF Started, login, latest, feed, taken
<1>18. CASE WaitOver
  BY <1>18 DEF WaitOver, login, latest, feed, taken
<1>19. CASE TimesOut
  BY <1>19 DEF TimesOut, login, latest, feed, taken
<1>20. CASE CheckConnection
  BY <1>20 DEF CheckConnection, login, latest, feed, taken
<1>21. CASE TakeWork
  BY <1>21 DEF TakeWork, login, latest, feed, taken
<1>22. CASE MiningEnds
  BY <1>22 DEF MiningEnds, login, latest, feed, taken
<1>23. CASE Again
  BY <1>23 DEF Again, login, latest, feed, taken
<1>24. CASE Stop
  BY <1>24 DEF Stop, login, latest, feed, taken
<1>25. CASE Over \/ UNCHANGED vars
  BY <1>25 DEF Over, vars, login, latest, feed, taken
<1>26. QED
  BY <1>1, <1>2, <1>3, <1>4, <1>5, <1>6, <1>7, <1>8, <1>9, <1>10, <1>11,
     <1>12, <1>13, <1>14, <1>15, <1>16, <1>17, <1>18, <1>19, <1>20, <1>21, <1>22,
     <1>23, <1>24, <1>25 DEF Next, MainStep, Emit

\* ToldOK is preserved: without a declared shape only the reader emits.
LEMMA ToldStep == IndInv /\ [Next]_vars => ToldOK'
<1> SUFFICES ASSUME IndInv, [Next]_vars PROVE ToldOK'
  OBVIOUS
<1> USE DEF IndInv, TypeOK, PhaseOK, ToldOK, Threads
<1>1. ASSUME NEW t \in Threads, Assemble(t) PROVE ToldOK'
  BY <1>1 DEF Assemble, login, latest, feed, taken
<1>2. ASSUME NEW t \in Threads, EmitReturns(t) PROVE ToldOK'
  BY <1>2 DEF EmitReturns, login, latest, feed, taken
<1>3. ASSUME NEW t \in Threads, EmitRaises(t) PROVE ToldOK'
  BY <1>3 DEF EmitRaises, login, latest, feed, taken
<1>4. ASSUME NEW t \in Threads, SetReady(t) PROVE ToldOK'
  BY <1>4 DEF SetReady, login, latest, feed, taken
<1>5. ASSUME NEW t \in Threads, Tell(t) PROVE ToldOK'
  BY <1>5 DEF Tell, login, latest, feed, taken
<1>6. CASE Store
  BY <1>6 DEF Store, login, latest, feed, taken, Reading
<1>7. CASE Challenge
  BY <1>7 DEF Challenge, login, latest, feed, taken
<1>8. CASE Reply
  BY <1>8 DEF Reply, login, latest, feed, taken
<1>9. CASE ReaderEnds
  BY <1>9 DEF ReaderEnds, login, latest, feed, taken
<1>10. CASE Connect
  BY <1>10 DEF Connect, login, latest, feed, taken
<1>11. CASE Install
  BY <1>11 DEF Install, login, latest, feed, taken
<1>12. CASE Detect
  BY <1>12 DEF Detect, login, latest, feed, taken
<1>13. CASE Solve
  BY <1>13 DEF Solve, login, latest, feed, taken
<1>14. CASE Authorized
  BY <1>14 DEF Authorized, login, latest, feed, taken
<1>15. CASE LoginFails
  BY <1>15 DEF LoginFails, login, latest, feed, taken
<1>16. CASE Declare
  BY <1>16 DEF Declare, login, latest, feed, taken
<1>17. CASE Started
  BY <1>17 DEF Started, login, latest, feed, taken
<1>18. CASE WaitOver
  BY <1>18 DEF WaitOver, login, latest, feed, taken
<1>19. CASE TimesOut
  BY <1>19 DEF TimesOut, login, latest, feed, taken
<1>20. CASE CheckConnection
  BY <1>20 DEF CheckConnection, login, latest, feed, taken
<1>21. CASE TakeWork
  BY <1>21 DEF TakeWork, login, latest, feed, taken
<1>22. CASE MiningEnds
  BY <1>22 DEF MiningEnds, login, latest, feed, taken
<1>23. CASE Again
  BY <1>23 DEF Again, login, latest, feed, taken
<1>24. CASE Stop
  BY <1>24 DEF Stop, login, latest, feed, taken
<1>25. CASE Over \/ UNCHANGED vars
  BY <1>25 DEF Over, vars, login, latest, feed, taken
<1>26. QED
  BY <1>1, <1>2, <1>3, <1>4, <1>5, <1>6, <1>7, <1>8, <1>9, <1>10, <1>11,
     <1>12, <1>13, <1>14, <1>15, <1>16, <1>17, <1>18, <1>19, <1>20, <1>21, <1>22,
     <1>23, <1>24, <1>25 DEF Next, MainStep, Emit

\* EventOK is preserved: an emit only gets to the event with a Work stored.
LEMMA EventStep == IndInv /\ [Next]_vars => EventOK'
<1> SUFFICES ASSUME IndInv, [Next]_vars PROVE EventOK'
  OBVIOUS
<1> USE DEF IndInv, TypeOK, EventOK, Threads
<1>1. ASSUME NEW t \in Threads, Assemble(t) PROVE EventOK'
  BY <1>1, AssembledWork DEF Assemble, login, latest, feed, taken
<1>2. ASSUME NEW t \in Threads, EmitReturns(t) PROVE EventOK'
  BY <1>2 DEF EmitReturns, login, latest, feed, taken
<1>3. ASSUME NEW t \in Threads, EmitRaises(t) PROVE EventOK'
  BY <1>3 DEF EmitRaises, login, latest, feed, taken
<1>4. ASSUME NEW t \in Threads, SetReady(t) PROVE EventOK'
  BY <1>4 DEF SetReady, login, latest, feed, taken
<1>5. ASSUME NEW t \in Threads, Tell(t) PROVE EventOK'
  BY <1>5 DEF Tell, login, latest, feed, taken
<1>6. CASE Store
  BY <1>6 DEF Store, login, latest, feed, taken
<1>7. CASE Challenge
  BY <1>7 DEF Challenge, login, latest, feed, taken
<1>8. CASE Reply
  BY <1>8 DEF Reply, login, latest, feed, taken
<1>9. CASE ReaderEnds
  BY <1>9 DEF ReaderEnds, login, latest, feed, taken
<1>10. CASE Connect
  BY <1>10 DEF Connect, login, latest, feed, taken
<1>11. CASE Install
  BY <1>11 DEF Install, login, latest, feed, taken
<1>12. CASE Detect
  BY <1>12 DEF Detect, login, latest, feed, taken
<1>13. CASE Solve
  BY <1>13 DEF Solve, login, latest, feed, taken
<1>14. CASE Authorized
  BY <1>14 DEF Authorized, login, latest, feed, taken
<1>15. CASE LoginFails
  BY <1>15 DEF LoginFails, login, latest, feed, taken
<1>16. CASE Declare
  BY <1>16 DEF Declare, login, latest, feed, taken
<1>17. CASE Started
  BY <1>17 DEF Started, login, latest, feed, taken
<1>18. CASE WaitOver
  BY <1>18 DEF WaitOver, login, latest, feed, taken
<1>19. CASE TimesOut
  BY <1>19 DEF TimesOut, login, latest, feed, taken
<1>20. CASE CheckConnection
  BY <1>20 DEF CheckConnection, login, latest, feed, taken
<1>21. CASE TakeWork
  BY <1>21 DEF TakeWork, login, latest, feed, taken
<1>22. CASE MiningEnds
  BY <1>22 DEF MiningEnds, login, latest, feed, taken
<1>23. CASE Again
  BY <1>23 DEF Again, login, latest, feed, taken
<1>24. CASE Stop
  BY <1>24 DEF Stop, login, latest, feed, taken
<1>25. CASE Over \/ UNCHANGED vars
  BY <1>25 DEF Over, vars, login, latest, feed, taken
<1>26. QED
  BY <1>1, <1>2, <1>3, <1>4, <1>5, <1>6, <1>7, <1>8, <1>9, <1>10, <1>11,
     <1>12, <1>13, <1>14, <1>15, <1>16, <1>17, <1>18, <1>19, <1>20, <1>21, <1>22,
     <1>23, <1>24, <1>25 DEF Next, MainStep, Emit

\* LostOK is preserved: an ended reader stays ended, and a session keeps its
\* client.
LEMMA LostStep == IndInv /\ [Next]_vars => LostOK'
<1> SUFFICES ASSUME IndInv, [Next]_vars PROVE LostOK'
  OBVIOUS
<1> USE DEF IndInv, TypeOK, PhaseOK, LostOK, InSession, Disconnected, Threads
<1>1. ASSUME NEW t \in Threads, Assemble(t) PROVE LostOK'
  BY <1>1 DEF Assemble, login, latest, feed, taken
<1>2. ASSUME NEW t \in Threads, EmitReturns(t) PROVE LostOK'
  BY <1>2 DEF EmitReturns, login, latest, feed, taken
<1>3. ASSUME NEW t \in Threads, EmitRaises(t) PROVE LostOK'
  BY <1>3 DEF EmitRaises, login, latest, feed, taken
<1>4. ASSUME NEW t \in Threads, SetReady(t) PROVE LostOK'
  BY <1>4 DEF SetReady, login, latest, feed, taken
<1>5. ASSUME NEW t \in Threads, Tell(t) PROVE LostOK'
  BY <1>5 DEF Tell, login, latest, feed, taken
<1>6. CASE Store
  BY <1>6 DEF Store, login, latest, feed, taken, Reading
<1>7. CASE Challenge
  BY <1>7 DEF Challenge, login, latest, feed, taken
<1>8. CASE Reply
  BY <1>8 DEF Reply, login, latest, feed, taken
<1>9. CASE ReaderEnds
  BY <1>9 DEF ReaderEnds, login, latest, feed, taken, Reading
<1>10. CASE Connect
  BY <1>10 DEF Connect, login, latest, feed, taken
<1>11. CASE Install
  BY <1>11 DEF Install, login, latest, feed, taken
<1>12. CASE Detect
  BY <1>12 DEF Detect, login, latest, feed, taken
<1>13. CASE Solve
  BY <1>13 DEF Solve, login, latest, feed, taken
<1>14. CASE Authorized
  BY <1>14 DEF Authorized, login, latest, feed, taken
<1>15. CASE LoginFails
  BY <1>15 DEF LoginFails, login, latest, feed, taken
<1>16. CASE Declare
  BY <1>16 DEF Declare, login, latest, feed, taken
<1>17. CASE Started
  BY <1>17 DEF Started, login, latest, feed, taken
<1>18. CASE WaitOver
  BY <1>18 DEF WaitOver, login, latest, feed, taken
<1>19. CASE TimesOut
  BY <1>19 DEF TimesOut, login, latest, feed, taken
<1>20. CASE CheckConnection
  BY <1>20 DEF CheckConnection, login, latest, feed, taken
<1>21. CASE TakeWork
  BY <1>21 DEF TakeWork, login, latest, feed, taken
<1>22. CASE MiningEnds
  BY <1>22 DEF MiningEnds, login, latest, feed, taken
<1>23. CASE Again
  BY <1>23 DEF Again, login, latest, feed, taken
<1>24. CASE Stop
  BY <1>24 DEF Stop, login, latest, feed, taken
<1>25. CASE Over \/ UNCHANGED vars
  BY <1>25 DEF Over, vars, login, latest, feed, taken
<1>26. QED
  BY <1>1, <1>2, <1>3, <1>4, <1>5, <1>6, <1>7, <1>8, <1>9, <1>10, <1>11,
     <1>12, <1>13, <1>14, <1>15, <1>16, <1>17, <1>18, <1>19, <1>20, <1>21, <1>22,
     <1>23, <1>24, <1>25 DEF Next, MainStep, Emit

-----------------------------------------------------------------------------
\* The session starts in the invariant: nothing stored, nothing to emit.
LEMMA InitInv == Init => IndInv
<1> SUFFICES ASSUME Init PROVE IndInv
  OBVIOUS
<1> USE SessionAssumption DEF Init, Threads, Nothing, NoWork
<1>1. TypeOK
  <2>1. NoWork \in Works /\ 0 \in 0..(MaxUpdates + 1)
    BY DEF Works
  <2>2. /\ emit \in [Threads -> {"no", "assemble", "set", "call"}]
        /\ own \in [Threads -> Works]
    BY <2>1
  <2>3. QED
    BY <2>1, <2>2 DEF TypeOK, Entry
<1>2. PhaseOK /\ ClockOK /\ AgesOK
  BY DEF PhaseOK, ClockOK, AgesOK, InSession
<1>3. WorkCurrent /\ ToldOK /\ EventOK /\ LostOK
  BY DEF WorkCurrent, Complete, ToldOK, EventOK, LostOK
<1>4. QED
  BY <1>1, <1>2, <1>3 DEF IndInv

\* The inductive invariant holds in every state.
THEOREM Inductive == Spec => []IndInv
<1>1. IndInv /\ [Next]_vars => IndInv'
  BY TypeStep, PhaseStep, ClockStep, AgesStep, CurrentStep, ToldStep, EventStep,
     LostStep DEF IndInv
<1>2. QED
  BY InitInv, <1>1, PTL DEF Spec, Safety

\* Every variable keeps its type.
THEOREM TypeCorrect == Spec => []TypeOK
  BY Inductive, PTL DEF IndInv

\* No update is lost between the two threads that assemble a Work
\* (stratum_session.py 232-313).
THEOREM WorkCurrentHolds == Spec => []WorkCurrent
  BY Inductive, PTL DEF IndInv

\* With one assembling thread the callback was last told of the current Work
\* (315-319).
THEOREM ToldLastHolds == Spec => []ToldLast
<1>1. IndInv => ToldLast
  BY DEF IndInv, ToldOK, ToldLast, Threads
<1>2. QED
  BY <1>1, Inductive, PTL

\* wait_for_work never meets its assertion without a Work (326-334).
THEOREM WorkBehindEventHolds == Spec => []WorkBehindEvent
<1>1. IndInv => WorkBehindEvent
  BY DEF IndInv, EventOK, WorkBehindEvent
<1>2. QED
  BY <1>1, Inductive, PTL

\* A call that began on a lost connection returns no Work (330-331).
THEOREM NoWorkOnceLostHolds == Spec => []NoWorkOnceLost
<1>1. IndInv => NoWorkOnceLost
  BY DEF IndInv, LostOK, NoWorkOnceLost
<1>2. QED
  BY <1>1, Inductive, PTL

\* The Work a miner polls never goes back to anything older.
THEOREM WorkNeverOlderHolds == Spec => WorkNeverOlder
<1> DEFINE Forward == NotOlder(work, work')
<1>1. IndInv /\ [Next]_vars => Forward
  <2> SUFFICES ASSUME IndInv, [Next]_vars PROVE Forward
    OBVIOUS
  <2>1. work.notify <= work.notify /\ work.params <= work.params /\ work.diff <= work.diff
    BY SessionAssumption DEF IndInv, TypeOK, Works
  <2>2. ASSUME NEW t \in Threads, Assemble(t) PROVE Forward
    <3>1. Complete /\ work' = Assembled
      BY <2>2 DEF Assemble
    <3>2. QED
      BY <3>1, AssembledWork DEF IndInv, AgesOK, NotOlder
  <2>3. CASE UNCHANGED work
    BY <2>1, <2>3 DEF NotOlder
  <2>4. UNCHANGED work \/ \E t \in Threads : Assemble(t)
    BY DEF Next, MainStep, Emit, EmitReturns, EmitRaises, SetReady, Tell, Store,
           Challenge, Reply, ReaderEnds, Connect, Install, Detect, Solve, Authorized,
           LoginFails, Declare, Started, WaitOver, TimesOut, CheckConnection,
           TakeWork, MiningEnds, Again, Stop, Over, vars, feed
  <2>5. QED
    BY <2>2, <2>3, <2>4
<1>2. QED
  BY <1>1, Inductive, PTL DEF Spec, Safety, WorkNeverOlder

-----------------------------------------------------------------------------
(***************************************************************************)
(* SessionRunner, which starts one session after another, for every pair   *)
(* of pause lengths.                                                       *)
(***************************************************************************)

\* The next pause is the double of the last one, up to the maximum; after a
\* session that was entered the row starts over.
BackoffOK ==
  /\ slept # 0 => backoff = Smaller(slept * 2, BackoffMax)
  /\ pc = "connected" => slept = 0

\* The pause due for the connections abandoned in a row is the next one, or the
\* one before the attempt under way.
OwedOK ==
  /\ pc = "failed" => owed <= backoff
  /\ pc \in {"test", "start", "entered"} => owed <= slept
  /\ pc = "connected" => owed = 0

RunnerInv == RunnerTypeOK /\ BackoffOK /\ OwedOK

\* The runner starts in the invariant.
LEMMA RunnerStarts == RunnerInit => RunnerInv
<1> SUFFICES ASSUME RunnerInit PROVE RunnerInv
  OBVIOUS
<1>1. BackoffInitial \in BackoffInitial..BackoffMax /\ 0 \in 0..MaxAbandoned
  BY RunnerAssumption
<1>2. RunnerTypeOK
  BY <1>1 DEF RunnerInit, RunnerTypeOK
<1>3. BackoffOK
  BY DEF RunnerInit, BackoffOK
<1>4. OwedOK
  BY DEF RunnerInit, OwedOK
<1>5. QED
  BY <1>2, <1>3, <1>4 DEF RunnerInv

\* Every step of the runner and of its surroundings keeps the invariant.
LEMMA RunnerSteps == RunnerInv /\ [RunnerNext]_runnerVars => RunnerInv'
<1> SUFFICES ASSUME RunnerInv, [RunnerNext]_runnerVars PROVE RunnerInv'
  OBVIOUS
<1> USE RunnerAssumption DEF RunnerInv, RunnerTypeOK, BackoffOK, OwedOK, history
<1>1. CASE Test
  BY <1>1 DEF Test
<1>2. CASE Start
  BY <1>2 DEF Start
<1>3. CASE StartRaises
  BY <1>3 DEF StartRaises, Smaller
<1>4. CASE SessionStarted
  BY <1>4 DEF SessionStarted, Smaller
<1>5. CASE Leave
  BY <1>5 DEF Leave
<1>6. CASE Pause
  <2>1. CASE stop
    BY <1>6, <2>1 DEF Pause
  <2>2. CASE ~stop
    <3>1. slept' = backoff /\ backoff' = Smaller(backoff * 2, BackoffMax) /\ pc' = "test"
      BY <1>6, <2>2 DEF Pause
    <3>2. backoff' \in BackoffInitial..BackoffMax
      BY <3>1 DEF Smaller
    <3>3. QED
      BY <1>6, <3>1, <3>2 DEF Pause
  <2>3. QED
    BY <2>1, <2>2
<1>7. CASE Drop
  BY <1>7 DEF Drop
<1>8. CASE StopSet
  BY <1>8 DEF StopSet
<1>9. CASE Ended \/ UNCHANGED runnerVars
  BY <1>9 DEF Ended, runnerVars
<1>10. QED
  BY <1>1, <1>2, <1>3, <1>4, <1>5, <1>6, <1>7, <1>8, <1>9 DEF RunnerNext, Runner

\* The runner's inductive invariant holds in every state.
THEOREM RunnerInductive == RunnerSpec => []RunnerInv
  BY RunnerStarts, RunnerSteps, PTL DEF RunnerSpec, RunnerSafety

\* Whatever the two lengths are, an attempt follows a pause that has doubled with
\* every connection abandoned since the last session that was entered
\* (stratum_session.py 394-407).
THEOREM LeaksPacedHolds == RunnerSpec => []LeaksPaced
<1>1. RunnerInv => LeaksPaced
  BY DEF RunnerInv, RunnerTypeOK, OwedOK, LeaksPaced
<1>2. QED
  BY <1>1, RunnerInductive, PTL

\* Pauses in a row grow up to the maximum, whatever the two lengths are
\* (394, 400, 405-407).
THEOREM PausesGrowHolds == RunnerSpec => PausesGrow
<1> DEFINE Grows ==
      /\ pc = "failed" /\ pc' = "test" => slept' > slept \/ slept' = BackoffMax
      /\ slept' < slept => pc' = "connected"
<1>1. RunnerInv /\ [RunnerNext]_runnerVars => Grows \/ UNCHANGED runnerVars
  <2> SUFFICES ASSUME RunnerInv, RunnerNext PROVE Grows
    OBVIOUS
  <2> USE RunnerAssumption DEF RunnerInv, RunnerTypeOK, BackoffOK
  <2>1. CASE Pause
    BY <2>1 DEF Pause, Smaller
  <2>2. CASE SessionStarted
    BY <2>2 DEF SessionStarted, history
  <2>3. CASE StartRaises
    BY <2>3 DEF StartRaises
  <2>4. CASE Test \/ Start \/ Leave
    BY <2>4 DEF Test, Start, Leave, history
  <2>5. CASE Drop \/ StopSet \/ Ended
    BY <2>5 DEF Drop, StopSet, Ended, runnerVars, history
  <2>6. QED
    BY <2>1, <2>2, <2>3, <2>4, <2>5 DEF RunnerNext, Runner
<1>2. QED
  BY <1>1, RunnerInductive, PTL DEF RunnerSpec, RunnerSafety, PausesGrow
=============================================================================
