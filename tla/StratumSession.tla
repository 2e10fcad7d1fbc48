--------------------------- MODULE StratumSession ---------------------------
(***************************************************************************)
(* One StratumSession and the handshake of its StratumClient               *)
(* (src/src/pearl_amd/stratum_session.py, stratum_client.py).              *)
(*                                                                         *)
(* The main thread connects, tells the two dialects apart, logs in and then *)
(* waits for work.  The reader thread, which connect() has started, stores *)
(* what the pool announces.  Both assemble a Work from the newest notify,   *)
(* parameters and difficulty: the reader after every announcement, the main *)
(* thread once, after declaring the shape a client-first pool expects.      *)
(*                                                                         *)
(* An announcement is abstracted to its age (`at', the value of a counter   *)
(* of stored announcements) and to what becomes of it (`class').  The pool  *)
(* is not constrained: it may send anything in any order.  challenged, own, *)
(* told, got and lostAtCall are history variables.                         *)
(***************************************************************************)
EXTENDS Naturals

CONSTANT MaxUpdates   \* bound of the model: announcements stored in a session

ASSUME SessionAssumption == MaxUpdates \in Nat

VARIABLES
  mpc,        \* where the main thread is
  rpc,        \* the reader thread: not started, running, ended
  emit,       \* how far each thread is in _maybe_emit_work
  capturing,  \* handshake has replaced _on_challenge by _capture
  seen,       \* challenge_seen
  dialect,    \* client.dialect
  ack,        \* the reply to mining.authorize
  client,     \* session._client is not None
  closed,     \* client.close() was called
  notify, params, diff,   \* _latest_notify, _latest_params, _latest_diff
  work,       \* _latest_work
  ready,      \* _work_ready
  clock,      \* counter of stored announcements
  challenged, \* history: a pearl.challenge was dispatched before the login
  own,        \* history: the last Work each thread assembled
  told,       \* history: the last Work given to on_work_update
  got,        \* history: the last Work wait_for_work returned
  lostAtCall  \* history: that call began on a lost connection

latest == <<notify, params, diff, clock>>
login  == <<capturing, dialect, ack, client, closed>>
feed   == <<work, ready, own, told>>
taken  == <<got, lostAtCall>>
vars   == <<mpc, rpc, emit, login, seen, challenged, latest, feed, taken>>

Threads == {"reader", "main"}

Nothing == [at |-> 0, class |-> "none"]
NoWork  == [notify |-> 0, params |-> 0, diff |-> 0, source |-> "none"]

\* A notify carries a target or not; parameters give a mining configuration, do
\* not, or give one but lack m or n; a difficulty D has int(D) >= 1, is not
\* positive (NaN included), or is one that 0xFFFF<<208 // int(D) fails on.
NotifyClasses == {"plain", "target"}
ParamsClasses == {"good", "bad", "shapeless"}
DiffClasses   == {"positive", "none_positive", "undividable"}

Disconnected == ~client \/ rpc = "ended"

Init ==
  /\ mpc = "connect" /\ rpc = "off"
  /\ emit = [t \in Threads |-> "no"]
  /\ capturing = FALSE /\ seen = FALSE /\ dialect = "auto" /\ ack = "none"
  /\ client = FALSE /\ closed = FALSE /\ challenged = FALSE
  /\ notify = Nothing /\ params = Nothing /\ diff = Nothing /\ clock = 0
  /\ work = NoWork /\ ready = FALSE
  /\ own = [t \in Threads |-> NoWork] /\ told = NoWork
  /\ got = NoWork /\ lostAtCall = FALSE

-----------------------------------------------------------------------------
(***************************************************************************)
(* _maybe_emit_work, in either thread: the Work is assembled and stored    *)
(* under the lock; the event is set and the callback runs outside it.      *)
(***************************************************************************)
Complete ==
  /\ notify # Nothing /\ params # Nothing
  /\ diff # Nothing \/ notify.class = "target"

\* No mining configuration, or a division by zero or of infinity: the emit ends
\* with a log line and the old Work stays.
Underivable == params.class = "bad" \/ diff.class = "undividable"

Source == CASE diff.class = "positive" -> "set_difficulty"
            [] diff.class # "positive" /\ notify.class = "target" -> "notify"
            [] diff.class # "positive" /\ notify.class # "target" -> "diff1"

Assembled == [notify |-> notify.at, params |-> params.at, diff |-> diff.at,
              source |-> Source]

\* Fault: only the first Work is assembled.
AssembleOnce(t) ==
  /\ emit[t] = "assemble"
  /\ Complete /\ ~Underivable /\ params.class # "shapeless"
  /\ work' = IF work = NoWork THEN Assembled ELSE work
  /\ own' = [own EXCEPT ![t] = Assembled]
  /\ emit' = [emit EXCEPT ![t] = "set"]
  /\ UNCHANGED <<mpc, rpc, login, seen, challenged, latest, ready, told, taken>>

Assemble(t) ==
  /\ emit[t] = "assemble"
  /\ Complete /\ ~Underivable /\ params.class # "shapeless"
  /\ work' = Assembled
  /\ own' = [own EXCEPT ![t] = Assembled]
  /\ emit' = [emit EXCEPT ![t] = "set"]
  /\ UNCHANGED <<mpc, rpc, login, seen, challenged, latest, ready, told, taken>>

\* Fault: the event is set although no Work was assembled.
ReturnsSettingReady(t) ==
  /\ emit[t] = "assemble"
  /\ ~Complete \/ Underivable
  /\ ready' = TRUE
  /\ emit' = [emit EXCEPT ![t] = "no"]
  /\ UNCHANGED <<mpc, rpc, login, seen, challenged, latest, work, own, told, taken>>

EmitReturns(t) ==
  /\ emit[t] = "assemble"
  /\ ~Complete \/ Underivable
  /\ emit' = [emit EXCEPT ![t] = "no"]
  /\ UNCHANGED <<mpc, rpc, login, seen, challenged, latest, feed, taken>>

\* int(params["m"]) raises outside the try blocks: it ends the reader thread, or
\* leaves start() in the main thread.
EmitRaises(t) ==
  /\ emit[t] = "assemble"
  /\ Complete /\ ~Underivable /\ params.class = "shapeless"
  /\ emit' = [emit EXCEPT ![t] = "no"]
  /\ IF t = "reader" THEN rpc' = "ended" /\ mpc' = mpc
                     ELSE mpc' = "failed" /\ rpc' = rpc
  /\ UNCHANGED <<login, seen, challenged, latest, feed, taken>>

\* Fault: the Work is stored outside the lock.
SetReadyAndStore(t) ==
  /\ emit[t] = "set"
  /\ ready' = TRUE
  /\ work' = own[t]
  /\ emit' = [emit EXCEPT ![t] = "call"]
  /\ UNCHANGED <<mpc, rpc, login, seen, challenged, latest, own, told, taken>>

\* self._work_ready.set()
SetReady(t) ==
  /\ emit[t] = "set"
  /\ ready' = TRUE
  /\ emit' = [emit EXCEPT ![t] = "call"]
  /\ UNCHANGED <<mpc, rpc, login, seen, challenged, latest, work, own, told, taken>>

\* Fault: the callback is only told of the first Work.
TellOnce(t) ==
  /\ emit[t] = "call"
  /\ told' = IF told = NoWork THEN own[t] ELSE told
  /\ emit' = [emit EXCEPT ![t] = "no"]
  /\ UNCHANGED <<mpc, rpc, login, seen, challenged, latest, work, ready, own, taken>>

\* on_work_update(work); what it raises is caught.
Tell(t) ==
  /\ emit[t] = "call"
  /\ told' = own[t]
  /\ emit' = [emit EXCEPT ![t] = "no"]
  /\ UNCHANGED <<mpc, rpc, login, seen, challenged, latest, work, ready, own, taken>>

Emit(t) ==
  Assemble(t) \/ EmitReturns(t) \/ EmitRaises(t) \/ SetReady(t) \/ Tell(t)

-----------------------------------------------------------------------------
(***************************************************************************)
(* The reader thread.                                                      *)
(***************************************************************************)
Reading == rpc = "running" /\ emit["reader"] = "no"

Stamp(c) == [at |-> clock + 1, class |-> c]

\* Fault: a notify that cannot be parsed is stored.
StoreUnparsed ==
  /\ Reading /\ clock < MaxUpdates
  /\ notify' = Stamp("unparsed")
  /\ clock' = clock + 1
  /\ emit' = [emit EXCEPT !["reader"] = "assemble"]
  /\ UNCHANGED <<mpc, rpc, login, seen, challenged, params, diff, feed, taken>>

\* An announcement is stored under the lock, then a Work is assembled.
Store ==
  /\ Reading /\ clock < MaxUpdates
  /\ \/ \E c \in NotifyClasses : notify' = Stamp(c) /\ UNCHANGED <<params, diff>>
     \/ \E c \in ParamsClasses : params' = Stamp(c) /\ UNCHANGED <<notify, diff>>
     \/ \E c \in DiffClasses   : diff'   = Stamp(c) /\ UNCHANGED <<notify, params>>
  /\ clock' = clock + 1
  /\ emit' = [emit EXCEPT !["reader"] = "assemble"]
  /\ UNCHANGED <<mpc, rpc, login, seen, challenged, feed, taken>>

\* pearl.challenge: nobody listens before the capture is installed; _capture
\* keeps the first one.
Challenge ==
  /\ Reading
  /\ seen' = (seen \/ capturing)
  /\ challenged' = (challenged \/ dialect = "auto")
  /\ UNCHANGED <<mpc, rpc, emit, login, latest, feed, taken>>

\* The reply to mining.authorize (its delivery to the call is in StratumRpc).
Reply ==
  /\ Reading /\ mpc = "authorize" /\ ack = "none"
  /\ \E a \in {"ok", "rejected"} : ack' = a
  /\ UNCHANGED <<mpc, rpc, emit, capturing, dialect, client, closed, seen,
                 challenged, latest, feed, taken>>

\* The connection ends, or _dispatch raises on a message it cannot read.  After
\* close() the thread ends as soon as it has dispatched what it had received.
ReaderEnds ==
  /\ Reading
  /\ rpc' = "ended"
  /\ UNCHANGED <<mpc, emit, login, seen, challenged, latest, feed, taken>>

-----------------------------------------------------------------------------
(***************************************************************************)
(* The main thread: start().                                               *)
(***************************************************************************)

\* create_connection and, with TLS, the wrapping; then the reader is started.
Connect ==
  /\ mpc = "connect"
  /\ \/ mpc' = "install" /\ rpc' = "running"
     \/ mpc' = "failed"  /\ rpc' = rpc
  /\ UNCHANGED <<emit, login, seen, challenged, latest, feed, taken>>

Install ==
  /\ mpc = "install"
  /\ mpc' = "detect"
  /\ capturing' = TRUE
  /\ UNCHANGED <<rpc, emit, dialect, ack, client, closed, seen, challenged,
                 latest, feed, taken>>

\* challenge_seen.wait(challenge_wait_sec): a challenge, or silence.
Detect ==
  /\ mpc = "detect"
  /\ \/ seen  /\ dialect' = "challenge" /\ mpc' = "solve"
     \/ ~seen /\ dialect' = "client"    /\ mpc' = "authorize"
  /\ UNCHANGED <<rpc, emit, capturing, ack, client, closed, seen, challenged,
                 latest, feed, taken>>

\* configure, subscribe, solve the challenge, send the response; each may raise.
Solve ==
  /\ mpc = "solve"
  /\ mpc' \in {"authorize", "failed"}
  /\ UNCHANGED <<rpc, emit, login, seen, challenged, latest, feed, taken>>

\* The reply is positive: start() keeps the client and, unless a shape is to be
\* declared, returns to its caller, which waits for work.
Authorized ==
  /\ mpc = "authorize" /\ ack = "ok"
  /\ mpc' = IF dialect = "client" THEN "declare" ELSE "wait"
  /\ client' = TRUE
  /\ lostAtCall' = (rpc = "ended")
  /\ UNCHANGED <<rpc, emit, capturing, dialect, ack, closed, seen, challenged,
                 latest, feed, got>>

\* The reply is negative, or there is none: the call times out or finds the
\* connection lost, or its frame cannot be written.  start() raises; nobody
\* closes the client.
LoginFails ==
  /\ mpc = "authorize" /\ ack # "ok"
  /\ mpc' = "failed"
  /\ UNCHANGED <<rpc, emit, login, seen, challenged, latest, feed, taken>>

\* _inject_declared_shape: store ...
Declare ==
  /\ mpc = "declare"
  /\ mpc' = "declared"
  /\ params' = Stamp("good")
  /\ clock' = clock + 1
  /\ emit' = [emit EXCEPT !["main"] = "assemble"]
  /\ UNCHANGED <<rpc, login, seen, challenged, notify, diff, feed, taken>>

\* ... emit, and return.
Started ==
  /\ mpc = "declared" /\ emit["main"] = "no"
  /\ mpc' = "wait"
  /\ lostAtCall' = Disconnected
  /\ UNCHANGED <<rpc, emit, login, seen, challenged, latest, feed, got>>

-----------------------------------------------------------------------------
(***************************************************************************)
(* The main thread: wait_for_work and its caller's loop (PearlMiner.run,   *)
(* 35_run_miner_live.py).  Disconnected is read where the code calls       *)
(* is_disconnected().                                                      *)
(***************************************************************************)
WaitOver ==
  /\ mpc = "wait" /\ ready
  /\ mpc' = "check"
  /\ UNCHANGED <<rpc, emit, login, seen, challenged, latest, feed, taken>>

\* Fault: the wait is repeated without a look at the connection.
TimesOutRetried ==
  /\ mpc = "wait" /\ ~ready
  /\ mpc' = "wait"
  /\ UNCHANGED <<rpc, emit, login, seen, challenged, latest, feed, taken>>

\* The timeout: ConnectionError, or TimeoutError and the caller tries again.
TimesOut ==
  /\ mpc = "wait" /\ ~ready
  /\ mpc' = IF Disconnected THEN "lost" ELSE "again"
  /\ UNCHANGED <<rpc, emit, login, seen, challenged, latest, feed, taken>>

CheckConnection ==
  /\ mpc = "check"
  /\ mpc' = IF Disconnected THEN "lost" ELSE "read"
  /\ UNCHANGED <<rpc, emit, login, seen, challenged, latest, feed, taken>>

\* The lock is taken again: what is returned is the Work of this moment.
TakeWork ==
  /\ mpc = "read"
  /\ got' = work
  /\ mpc' = "mine"
  /\ UNCHANGED <<rpc, emit, login, seen, challenged, latest, feed, lostAtCall>>

\* Mining goes on until the connection is lost or current_work() has another job
\* key.  The key is a hash of the header and the configuration: a difficulty
\* does not change it, a new notify or new parameters may.
MiningEnds ==
  /\ mpc = "mine"
  /\ Disconnected \/ work.notify # got.notify \/ work.params # got.params
  /\ mpc' = "again"
  /\ UNCHANGED <<rpc, emit, login, seen, challenged, latest, feed, taken>>

\* `while not is_disconnected()': the call that follows may find it lost.
Again ==
  /\ mpc = "again"
  /\ IF Disconnected THEN mpc' = "lost" /\ UNCHANGED lostAtCall
     ELSE mpc' = "wait" /\ lostAtCall' = FALSE
  /\ UNCHANGED <<rpc, emit, login, seen, challenged, latest, feed, got>>

\* The caller leaves its `with' block, on a lost connection or because it was
\* stopped: client.close().
Stop ==
  /\ mpc \in {"mine", "again", "lost"}
  /\ mpc' = "stopped"
  /\ client' = FALSE /\ closed' = TRUE
  /\ UNCHANGED <<rpc, emit, capturing, dialect, ack, seen, challenged, latest,
                 feed, taken>>

MainStep ==
  \/ Connect \/ Install \/ Detect \/ Solve \/ Authorized \/ LoginFails
  \/ Declare \/ Started
  \/ WaitOver \/ TimesOut \/ CheckConnection \/ TakeWork \/ Again
  \/ Disconnected /\ MiningEnds
  \/ mpc = "lost" /\ Stop

\* Both threads are done.
Over ==
  /\ mpc \in {"failed", "stopped"} /\ rpc \in {"off", "ended"}
  /\ UNCHANGED vars

Next ==
  \/ \E t \in Threads : Emit(t)
  \/ Store \/ Challenge \/ Reply \/ ReaderEnds
  \/ MainStep \/ MiningEnds \/ Stop
  \/ Over

\* Both threads run on; every wait of the main thread for a message has a timeout,
\* its writes return (the pool reads, or the socket is down: CallEnds of
\* StratumRpc), the challenge solver returns, and mining ends when the connection is
\* lost (shown for the coopmat loop in CoopmatRounds); a closed socket ends the
\* reader.  Nothing else is assumed of the pool.
Fairness ==
  /\ \A t \in Threads : WF_vars(Emit(t))
  /\ WF_vars(MainStep)
  /\ WF_vars(closed /\ ReaderEnds)

Safety == Init /\ [][Next]_vars
Spec   == Safety /\ Fairness

-----------------------------------------------------------------------------
(***************************************************************************)
(* Properties.                                                             *)
(***************************************************************************)
Entry(C) == [at : 1..(MaxUpdates + 1), class : C] \cup {Nothing}
Works    == [notify : 0..(MaxUpdates + 1), params : 0..(MaxUpdates + 1),
             diff : 0..(MaxUpdates + 1),
             source : {"none", "set_difficulty", "notify", "diff1"}]

TypeOK ==
  /\ mpc \in {"connect", "install", "detect", "solve", "authorize", "declare",
              "declared", "wait", "check", "read", "mine", "again", "lost",
              "failed", "stopped"}
  /\ rpc \in {"off", "running", "ended"}
  /\ emit \in [Threads -> {"no", "assemble", "set", "call"}]
  /\ capturing \in BOOLEAN /\ seen \in BOOLEAN /\ challenged \in BOOLEAN
  /\ dialect \in {"auto", "challenge", "client"}
  /\ ack \in {"none", "ok", "rejected"}
  /\ client \in BOOLEAN /\ closed \in BOOLEAN /\ ready \in BOOLEAN
  /\ notify \in Entry(NotifyClasses) /\ params \in Entry(ParamsClasses)
  /\ diff \in Entry(DiffClasses) /\ clock \in 0..(MaxUpdates + 1)
  /\ work \in Works /\ told \in Works /\ got \in Works
  /\ own \in [Threads -> Works] /\ lostAtCall \in BOOLEAN

\* No update is lost between the two threads that assemble: when neither has an
\* assembly ahead, the current Work is made of the newest notify, parameters
\* and difficulty, whenever these make one (stratum_session.py 232-313).
WorkCurrent ==
  /\ emit["reader"] # "assemble" /\ emit["main"] # "assemble"
  /\ Complete /\ ~Underivable /\ params.class # "shapeless"
  => work = Assembled

\* The Work a miner polls never goes back to an older notify, older parameters
\* or an older difficulty, whichever thread assembled it.
NotOlder(v, w) ==
  v.notify <= w.notify /\ v.params <= w.params /\ v.diff <= w.diff

WorkNeverOlder == [][NotOlder(work, work')]_vars

\* The callback runs outside the lock, and yet what on_work_update is told last
\* is the current Work as long as one thread assembles; only where the main
\* thread declares the shape may the two callbacks come in the wrong order
\* (315-319).
ToldLast ==
  dialect # "client" /\ (\A t \in Threads : emit[t] = "no") => told = work

\* The assertion of wait_for_work (333): it is only reached with a Work.
WorkBehindEvent == ready \/ mpc = "read" => work # NoWork

\* wait_for_work returns no Work to a call that began on a lost connection,
\* though one is there (330-331).
NoWorkOnceLost == mpc = "mine" => ~lostAtCall

\* A pool that speaks first is recognised: a challenge that arrives before the
\* dialect is decided is captured (comment, stratum_client.py 376-377).
ChallengeNotRaced == challenged => seen

\* The session's user always learns of a lost connection: no wait of start()
\* or wait_for_work outlives it.
LossNoticed ==
  rpc = "ended" ~> mpc \in {"lost", "failed", "stopped"}

=============================================================================
