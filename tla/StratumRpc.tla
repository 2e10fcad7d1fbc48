----------------------------- MODULE StratumRpc -----------------------------
(***************************************************************************)
(* The JSON-RPC calls of StratumClient (src/src/pearl_amd/                 *)
(* stratum_client.py): several threads call _call on one socket, one       *)
(* reader thread dispatches the pool's replies to them, and a call waits   *)
(* for its reply with a timeout.                                           *)
(*                                                                         *)
(* A call is a process of its own.  Two calls of one thread follow each    *)
(* other, which is one of the interleavings of two calls.  Notifications   *)
(* of the pool and the contents of replies are left out; a reply carries   *)
(* the call whose request it answers.                                      *)
(***************************************************************************)
EXTENDS Naturals

CONSTANTS
  Calls,         \* the _call invocations of one connection
  Unawaited      \* "call" of the configure and subscribe frames of handshake

ASSUME RpcAssumption == Unawaited \notin Calls

VARIABLES
  nextId,        \* _next_id, counted from 0
  configured,    \* configure and subscribe frames sent (0 or 2)
  pc,            \* where each call is, or how it ended
  id,            \* rid of each call
  evt,           \* ev: the Event each call waits for
  got,           \* resp of each call
  pending,       \* _pending, a set of pairs id, call
  responses,     \* _responses, a set of pairs id, call answered
  asked,         \* requests the pool has and has not answered
  inbox,         \* replies on their way to the reader
  conn,          \* the socket: "up", or "down" (dropped by the pool, or closed)
  reading,       \* FALSE: the pool has stopped reading and every buffer is full
  reader,        \* where the reader thread is
  waking,        \* the call whose event _dispatch is about to set, if any
  disconnected   \* _disconnected

table == <<pending, responses>>
pool  == <<asked, inbox, conn, reading>>
rd    == <<reader, waking, disconnected>>
vars  == <<nextId, configured, pc, id, evt, got, table, pool, rd>>

NoReply == "none"

Answerable == Calls \cup {Unawaited}
Entry      == [id : Nat, call : Answerable]

\* d[i] = c and d.pop(i, None) on a dictionary of entries.
Drop(d, i)   == {e \in d : e.id # i}
Put(d, i, c) == Drop(d, i) \cup {[id |-> i, call |-> c]}
Lookup(d, i) == {e.call : e \in {f \in d : f.id = i}}

Ended == {"answered", "lost", "timeout", "unsent"}

\* _send_lock is held by the call that is writing its frame.
SendLockFree == \A c \in Calls : pc[c] # "sending"

\* sendall has no timeout: it blocks while the connection is up and the pool
\* does not read, and returns, or raises, in every other case.
Stalled == conn = "up" /\ ~reading

Init ==
  /\ nextId = 0 /\ configured = 0
  /\ pc = [c \in Calls |-> "new"]
  /\ id = [c \in Calls |-> 0]
  /\ evt = [c \in Calls |-> FALSE]
  /\ got = [c \in Calls |-> NoReply]
  /\ pending = {} /\ responses = {}
  /\ asked = {} /\ inbox = {} /\ conn = "up" /\ reading = TRUE
  /\ reader = "recv" /\ waking = {} /\ disconnected = FALSE

-----------------------------------------------------------------------------
(***************************************************************************)
(* The calls.                                                              *)
(***************************************************************************)

\* handshake, challenge-first: mining.configure and mining.subscribe are sent
\* before any call and nobody waits for their replies.
SendUnawaited ==
  /\ configured < 2
  /\ nextId = configured
  /\ ~Stalled
  /\ nextId' = nextId + 1
  /\ configured' = configured + 1
  /\ asked' = IF conn = "up" THEN asked \cup {[id |-> nextId', call |-> Unawaited]}
                               ELSE asked
  /\ UNCHANGED <<pc, id, evt, got, table, inbox, conn, reading, rd>>

\* Fault: `self._next_id += 1' without the lock loses an update.
NextRequestIdRacy(c) ==
  /\ pc[c] = "new"
  /\ configured \in {0, 2}
  /\ nextId' \in {nextId, nextId + 1}
  /\ id' = [id EXCEPT ![c] = nextId + 1]
  /\ pc' = [pc EXCEPT ![c] = "register"]
  /\ UNCHANGED <<configured, evt, got, table, pool, rd>>

\* rid = self._next_request_id(), atomic under the lock.
NextRequestId(c) ==
  /\ pc[c] = "new"
  /\ configured \in {0, 2}
  /\ nextId' = nextId + 1
  /\ id' = [id EXCEPT ![c] = nextId + 1]
  /\ pc' = [pc EXCEPT ![c] = "register"]
  /\ UNCHANGED <<configured, evt, got, table, pool, rd>>

\* with self._lock: self._pending[rid] = ev
Register(c) ==
  /\ pc[c] = "register"
  /\ pending' = Put(pending, id[c], c)
  /\ pc' = [pc EXCEPT ![c] = "send"]
  /\ UNCHANGED <<nextId, configured, id, evt, got, responses, pool, rd>>

\* self._send: with self._send_lock ...
TakeSendLock(c) ==
  /\ pc[c] = "send"
  /\ SendLockFree
  /\ pc' = [pc EXCEPT ![c] = "sending"]
  /\ UNCHANGED <<nextId, configured, id, evt, got, table, pool, rd>>

\* ... self._sock.sendall(line) returns and the lock is released.  The frame
\* reaches the pool only while the socket is up; a write to a socket the pool
\* has dropped may still succeed locally.
Send(c) ==
  /\ pc[c] = "sending"
  /\ ~Stalled
  /\ pc' = [pc EXCEPT ![c] = "wait"]
  /\ asked' = IF conn = "up" THEN asked \cup {[id |-> id[c], call |-> c]} ELSE asked
  /\ UNCHANGED <<nextId, configured, id, evt, got, table, inbox, conn, reading, rd>>

\* ... or it raises: OSError out of sendall, which releases the lock, or the
\* assert before the lock when close() has reset _sock.  The call leaves its
\* event in _pending.
SendRaises(c) ==
  /\ pc[c] \in {"send", "sending"}
  /\ conn = "down"
  /\ pc' = [pc EXCEPT ![c] = "unsent"]
  /\ UNCHANGED <<nextId, configured, id, evt, got, table, pool, rd>>

\* ev.wait(timeout) returns True ...
Woken(c) ==
  /\ pc[c] = "wait"
  /\ evt[c]
  /\ pc' = [pc EXCEPT ![c] = "woken"]
  /\ UNCHANGED <<nextId, configured, id, evt, got, table, pool, rd>>

\* Fault: wait() without a timeout.
ExpireNever(c) == pc[c] = "no timeout" /\ UNCHANGED vars

\* ... or False.
Expire(c) ==
  /\ pc[c] = "wait"
  /\ ~evt[c]
  /\ pc' = [pc EXCEPT ![c] = "expired"]
  /\ UNCHANGED <<nextId, configured, id, evt, got, table, pool, rd>>

\* Fault: a call that timed out stays in _pending.
GiveUpKeepsPending(c) ==
  /\ pc[c] = "expired"
  /\ pc' = [pc EXCEPT ![c] = "timeout"]
  /\ UNCHANGED <<nextId, configured, id, evt, got, table, pool, rd>>

\* with self._lock: self._pending.pop(rid, None), then TimeoutError.
GiveUp(c) ==
  /\ pc[c] = "expired"
  /\ pending' = Drop(pending, id[c])
  /\ pc' = [pc EXCEPT ![c] = "timeout"]
  /\ UNCHANGED <<nextId, configured, id, evt, got, responses, pool, rd>>

\* resp = self._responses.pop(rid, None): the reply, or ConnectionError.
TakeResponse(c) ==
  /\ pc[c] = "woken"
  /\ responses' = Drop(responses, id[c])
  /\ \/ /\ Lookup(responses, id[c]) = {}
        /\ pc' = [pc EXCEPT ![c] = "lost"]
        /\ UNCHANGED got
     \/ \E o \in Lookup(responses, id[c]) :
          /\ pc' = [pc EXCEPT ![c] = "answered"]
          /\ got' = [got EXCEPT ![c] = o]
  /\ UNCHANGED <<nextId, configured, id, evt, pending, pool, rd>>

\* A call under way; starting one is up to the callers.
Proceed(c) ==
  \/ Register(c) \/ TakeSendLock(c) \/ Send(c) \/ SendRaises(c)
  \/ Woken(c) \/ Expire(c) \/ GiveUp(c) \/ TakeResponse(c)

-----------------------------------------------------------------------------
(***************************************************************************)
(* The reader thread: _reader_loop and the reply path of _dispatch.        *)
(***************************************************************************)

\* Under the lock the reply is stored and the call's event is popped.
Dispatch ==
  /\ reader = "recv"
  /\ \E m \in inbox :
       /\ inbox' = inbox \ {m}
       /\ responses' = Put(responses, m.id, m.call)
       /\ waking' = Lookup(pending, m.id)
       /\ pending' = Drop(pending, m.id)
  /\ reader' = "set"
  /\ UNCHANGED <<nextId, configured, pc, id, evt, got, asked, conn, reading, disconnected>>

\* if ev is not None: ev.set(), after the lock is released.
SetEvent ==
  /\ reader = "set"
  /\ evt' = [c \in Calls |-> evt[c] \/ c \in waking]
  /\ waking' = {}
  /\ reader' = "recv"
  /\ UNCHANGED <<nextId, configured, pc, id, got, table, pool, disconnected>>

\* The loop ends: recv fails or returns nothing (whatever else was in flight is
\* lost), or _dispatch raises on a message it cannot handle, with the socket
\* still up.  First statement of the `finally'.
ReaderEnds ==
  /\ reader = "recv"
  /\ disconnected' = TRUE
  /\ reader' = "finally"
  /\ UNCHANGED <<nextId, configured, pc, id, evt, got, table, pool, waking>>

\* Fault: the reader ends without waking anybody.
WakePendingSkipped ==
  /\ reader = "finally"
  /\ reader' = "dead"
  /\ UNCHANGED <<nextId, configured, pc, id, evt, got, table, pool, waking, disconnected>>

\* with self._lock: for ev in self._pending.values(): ev.set()
WakePending ==
  /\ reader = "finally"
  /\ evt' = [c \in Calls |-> evt[c] \/ \E e \in pending : e.call = c]
  /\ reader' = "dead"
  /\ UNCHANGED <<nextId, configured, pc, id, got, table, pool, waking, disconnected>>

Reader == Dispatch \/ SetEvent \/ WakePending

-----------------------------------------------------------------------------
(***************************************************************************)
(* The pool answers requests in any order, late or never; it may stop      *)
(* reading; the connection goes down.                                      *)
(***************************************************************************)
Reply ==
  /\ conn = "up"
  /\ \E m \in asked : asked' = asked \ {m} /\ inbox' = inbox \cup {m}
  /\ UNCHANGED <<nextId, configured, pc, id, evt, got, table, conn, reading, rd>>

\* For good: a pause in the pool's reading only delays a write.
StopReading ==
  /\ conn = "up"
  /\ reading
  /\ reading' = FALSE
  /\ UNCHANGED <<nextId, configured, pc, id, evt, got, table, asked, inbox, conn, rd>>

GoDown ==
  /\ conn = "up"
  /\ conn' = "down"
  /\ UNCHANGED <<nextId, configured, pc, id, evt, got, table, asked, inbox, reading, rd>>

\* The connection is over; that the calls end too is CallEnds.
Over ==
  /\ reader = "dead"
  /\ UNCHANGED vars

Next ==
  \/ SendUnawaited
  \/ \E c \in Calls : NextRequestId(c) \/ Proceed(c)
  \/ Reader \/ ReaderEnds
  \/ Reply \/ StopReading \/ GoDown \/ Over

\* The threads run, the timers expire, and sendall returns unless it is stalled:
\* the pool owes nothing, neither an answer nor to read on.  Each call takes
\* _send_lock once, so that weak fairness is enough for the lock.
Fairness ==
  /\ \A c \in Calls : WF_vars(Proceed(c))
  /\ WF_vars(Reader)

Safety == Init /\ [][Next]_vars
Spec   == Safety /\ Fairness

-----------------------------------------------------------------------------
(***************************************************************************)
(* Properties.                                                             *)
(***************************************************************************)
TypeOK ==
  /\ nextId \in Nat /\ configured \in 0..2
  /\ pc \in [Calls -> {"new", "register", "send", "sending", "wait", "woken", "expired"}
                        \cup Ended]
  /\ id \in [Calls -> 0..nextId]
  /\ evt \in [Calls -> BOOLEAN]
  /\ got \in [Calls -> Answerable \cup {NoReply}]
  /\ pending \subseteq [id : 1..nextId, call : Calls]
  /\ responses \subseteq [id : 1..nextId, call : Answerable]
  /\ asked \subseteq [id : 1..nextId, call : Answerable]
  /\ inbox \subseteq [id : 1..nextId, call : Answerable]
  /\ conn \in {"up", "down"} /\ reading \in BOOLEAN
  /\ reader \in {"recv", "set", "finally", "dead"}
  /\ waking \subseteq Calls /\ disconnected \in BOOLEAN

\* A call returns the reply to its own request, although all calls and the
\* handshake share one counter, one socket and one reader
\* (stratum_client.py 245-248, 307-311, 338-353).
OwnReply == \A c \in Calls : pc[c] = "answered" => got[c] = c

\* A call raises ConnectionError only when the reader has seen the connection
\* end: while it runs, a woken call finds its reply
\* (stratum_client.py 308-311, 348-352).
LostMeansDisconnected == \A c \in Calls : pc[c] = "lost" => disconnected

\* The tables hold nothing of a call that is over, except the late reply of
\* one that timed out, and the event of one that was never sent or whose
\* connection is gone (stratum_client.py 308-309, 345-349).
TablesClean ==
  /\ \A e \in responses : e.call # Unawaited =>
       pc[e.call] \in {"wait", "woken", "expired", "timeout"}
  /\ \A e \in pending :
       pc[e.call] \in {"send", "sending", "wait", "expired", "unsent"} \/ disconnected

\* When the reader ends, no call that is waiting by then is left waiting for
\* the rest of its timeout (stratum_client.py 275-281).
WaitersWoken ==
  [][reader = "finally" /\ reader' = "dead" =>
       \A c \in Calls : pc[c] = "wait" => evt'[c]]_vars

\* Every call ends, with a reply or an exception, unless it never gets its
\* request out: the socket has no timeout (stratum_client.py 220), so that a pool
\* that keeps the connection up and stops reading holds the writing call in
\* sendall, and every other behind it at _send_lock (242-243), before the timed
\* wait (344).  A call that has sent ends whatever the pool does.
CallEnds ==
  \A c \in Calls :
    pc[c] = "register" ~>
      pc[c] \in Ended \/ [](pc[c] \in {"send", "sending"} /\ Stalled)

\* What the comments promise of a connection that is gone: everything waiting
\* is woken (stratum_client.py 277-278), so that a submission ends in the
\* ConnectionError the live script handles (35_run_miner_live.py 292-294).
NobodyWaitsForTheDead ==
  reader = "dead" => \A c \in Calls : pc[c] = "wait" => evt[c]
=============================================================================
