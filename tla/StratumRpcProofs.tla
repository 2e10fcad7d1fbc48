-------------------------- MODULE StratumRpcProofs --------------------------
(***************************************************************************)
(* Proofs about StratumRpc, for every set of calls.                        *)
(*                                                                         *)
(* That a call gets its own reply needs that no two requests share an id   *)
(* and that everything in flight or in a table still belongs to the id it  *)
(* was sent with; that a woken call finds a reply needs that the event is  *)
(* only set after the reply is stored.  IndInv has one part for each.      *)
(***************************************************************************)
EXTENDS StratumRpc, TLAPS

Mine(c) == [id |-> id[c], call |-> c]

\* Each call has an id of its own; the handshake has the ones below.
IdsOK ==
  /\ configured <= nextId
  /\ \A c \in Calls : IF pc[c] = "new" THEN id[c] = 0 ELSE id[c] > configured
  /\ \A c, d \in Calls : id[c] = id[d] /\ c # d => id[c] = 0

\* An entry of a table or a message in flight carries its call's id.
Owned(m) ==
  IF m.call = Unawaited THEN m.id <= configured ELSE m.id = id[m.call]

MessagesOK ==
  \A m \in asked \cup inbox \cup responses \cup pending : Owned(m)

\* A set event means a stored reply, or the end of the connection.
Promised(c) == pc[c] \in Ended \/ Mine(c) \in responses

EventsOK ==
  /\ \A c \in Calls : evt[c] => pc[c] # "new" /\ (disconnected \/ Promised(c))
  /\ \A c \in waking : pc[c] # "new" /\ Promised(c)
  /\ \A c \in Calls : pc[c] = "woken" => evt[c]

\* The reader has something to wake only after a dispatch.
ReaderOK ==
  /\ waking # {} => reader = "set"
  /\ disconnected <=> reader \in {"finally", "dead"}

\* While the reader runs, a request is with the pool, or its reply in flight,
\* or the reply stored, and never two of these.
InFlightOK ==
  ~disconnected =>
    /\ \A m \in asked \cup inbox :
         /\ m \notin responses
         /\ m.call # Unawaited => pc[m.call] \in {"wait", "expired", "timeout"}
    /\ asked \cap inbox = {}
    /\ pending \cap responses = {}

\* A call without a set event is registered, or about to be woken.
WaitOK ==
  \A c \in Calls : pc[c] \in {"send", "sending", "wait"} =>
    evt[c] \/ c \in waking \/ Mine(c) \in pending

IndInv ==
  /\ TypeOK /\ IdsOK /\ MessagesOK /\ EventsOK /\ ReaderOK /\ InFlightOK
  /\ WaitOK /\ OwnReply /\ LostMeansDisconnected /\ TablesClean

-----------------------------------------------------------------------------
\* SendUnawaited preserves the invariant.
LEMMA SendUnawaitedStep ==
  ASSUME IndInv, SendUnawaited PROVE IndInv'
<1> USE RpcAssumption DEF IndInv, table, pool, rd
<1>1. TypeOK'
  BY DEF TypeOK, Answerable, NoReply, Ended, SendUnawaited
<1>2. IdsOK'
  BY DEF IdsOK, TypeOK, SendUnawaited
<1>3. MessagesOK'
  BY DEF MessagesOK, Owned, TypeOK, IdsOK, Answerable, SendUnawaited
<1>4. EventsOK'
  BY DEF EventsOK, Promised, Mine, Ended, TypeOK, IdsOK, SendUnawaited
<1>5. ReaderOK'
  BY DEF ReaderOK, TypeOK, SendUnawaited
<1>6. InFlightOK'
  BY DEF InFlightOK, TypeOK, Answerable, SendUnawaited
<1>7. WaitOK'
  BY DEF WaitOK, Mine, TypeOK, SendUnawaited
<1>8. OwnReply'
  BY DEF OwnReply, TypeOK, SendUnawaited
<1>9. LostMeansDisconnected'
  BY DEF LostMeansDisconnected, TypeOK, SendUnawaited
<1>10. TablesClean'
  BY DEF TablesClean, TypeOK, Answerable, SendUnawaited
<1>11. QED
  BY <1>1, <1>2, <1>3, <1>4, <1>5, <1>6, <1>7, <1>8, <1>9, <1>10

\* NextRequestId preserves the invariant.
LEMMA NextRequestIdStep ==
  ASSUME IndInv, NEW c \in Calls, NextRequestId(c) PROVE IndInv'
<1> USE RpcAssumption DEF IndInv, table, pool, rd
<1>1. TypeOK'
  BY DEF TypeOK, Answerable, NoReply, Ended, NextRequestId
<1>2. IdsOK'
  BY DEF IdsOK, TypeOK, NextRequestId
<1>3. MessagesOK'
  BY DEF MessagesOK, Owned, TypeOK, IdsOK, Answerable, NextRequestId
<1>4. EventsOK'
  BY DEF EventsOK, Promised, Mine, Ended, TypeOK, IdsOK, NextRequestId
<1>5. ReaderOK'
  BY DEF ReaderOK, TypeOK, NextRequestId
<1>6. InFlightOK'
  BY DEF InFlightOK, TypeOK, Answerable, NextRequestId
<1>7. WaitOK'
  BY DEF WaitOK, Mine, TypeOK, NextRequestId
<1>8. OwnReply'
  BY DEF OwnReply, TypeOK, NextRequestId
<1>9. LostMeansDisconnected'
  BY DEF LostMeansDisconnected, TypeOK, NextRequestId
<1>10. TablesClean'
  BY DEF TablesClean, TypeOK, Answerable, NextRequestId
<1>11. QED
  BY <1>1, <1>2, <1>3, <1>4, <1>5, <1>6, <1>7, <1>8, <1>9, <1>10

\* Register preserves the invariant.
LEMMA RegisterStep ==
  ASSUME IndInv, NEW c \in Calls, Register(c) PROVE IndInv'
<1> USE RpcAssumption DEF IndInv, table, pool, rd
<1>1. TypeOK'
  <2>1. id[c] \in 1..nextId
    BY DEF TypeOK, IdsOK, Register
  <2>2. pending' \subseteq [id : 1..nextId, call : Calls]
    BY <2>1 DEF TypeOK, Register, Put, Drop
  <2>3. QED
    BY <2>2 DEF TypeOK, Ended, Register
<1>2. IdsOK'
  BY DEF IdsOK, TypeOK, Register, Put, Drop
<1>3. MessagesOK'
  BY DEF MessagesOK, Owned, TypeOK, IdsOK, Answerable, Register, Put, Drop
<1>4. EventsOK'
  BY DEF EventsOK, Promised, Mine, Ended, TypeOK, IdsOK, Register, Put, Drop
<1>5. ReaderOK'
  BY DEF ReaderOK, TypeOK, Register, Put, Drop
<1>6. InFlightOK'
  <2>1. Mine(c) \notin responses
    BY DEF TablesClean, Mine, Register, Ended
  <2>2. pending' \subseteq pending \cup {Mine(c)}
    BY DEF Register, Put, Drop, Mine
  <2>3. \A m \in asked \cup inbox : ~disconnected => m.call # c
    BY DEF InFlightOK, Register
  <2>4. QED
    BY <2>1, <2>2, <2>3 DEF InFlightOK, TypeOK, Answerable, Register
<1>7. WaitOK'
  <2>1. \A d \in Calls : d # c => id[d] # id[c]
    BY DEF IdsOK, TypeOK, Register
  <2>2. \A d \in Calls : d # c /\ Mine(d) \in pending => Mine(d) \in pending'
    BY <2>1 DEF Register, Put, Drop, Mine
  <2>3. Mine(c) \in pending'
    BY DEF Register, Put, Mine
  <2>4. \A d \in Calls : Mine(d)' = Mine(d)
    BY DEF Register, Mine
  <2>5. QED
    BY <2>2, <2>3, <2>4 DEF WaitOK, TypeOK, Register
<1>8. OwnReply'
  BY DEF OwnReply, TypeOK, Register, Put, Drop
<1>9. LostMeansDisconnected'
  BY DEF LostMeansDisconnected, TypeOK, Register, Put, Drop
<1>10. TablesClean'
  BY DEF TablesClean, TypeOK, Answerable, Register, Put, Drop
<1>11. QED
  BY <1>1, <1>2, <1>3, <1>4, <1>5, <1>6, <1>7, <1>8, <1>9, <1>10

\* TakeSendLock preserves the invariant.
LEMMA TakeSendLockStep ==
  ASSUME IndInv, NEW c \in Calls, TakeSendLock(c) PROVE IndInv'
<1> USE RpcAssumption DEF IndInv, table, pool, rd
<1>1. TypeOK'
  BY DEF TypeOK, Answerable, NoReply, Ended, TakeSendLock
<1>2. IdsOK'
  BY DEF IdsOK, TypeOK, TakeSendLock
<1>3. MessagesOK'
  BY DEF MessagesOK, Owned, TypeOK, IdsOK, Answerable, TakeSendLock
<1>4. EventsOK'
  BY DEF EventsOK, Promised, Mine, Ended, TypeOK, IdsOK, TakeSendLock
<1>5. ReaderOK'
  BY DEF ReaderOK, TypeOK, TakeSendLock
<1>6. InFlightOK'
  BY DEF InFlightOK, TypeOK, Answerable, TakeSendLock
<1>7. WaitOK'
  BY DEF WaitOK, Mine, TypeOK, TakeSendLock
<1>8. OwnReply'
  BY DEF OwnReply, TypeOK, TakeSendLock
<1>9. LostMeansDisconnected'
  BY DEF LostMeansDisconnected, TypeOK, TakeSendLock
<1>10. TablesClean'
  BY DEF TablesClean, TypeOK, Answerable, TakeSendLock
<1>11. QED
  BY <1>1, <1>2, <1>3, <1>4, <1>5, <1>6, <1>7, <1>8, <1>9, <1>10

\* Send preserves the invariant.
LEMMA SendStep ==
  ASSUME IndInv, NEW c \in Calls, Send(c) PROVE IndInv'
<1> USE RpcAssumption DEF IndInv, table, pool, rd
<1>1. TypeOK'
  <2>1. id[c] \in 1..nextId
    BY DEF TypeOK, IdsOK, Send
  <2>2. asked' \subseteq [id : 1..nextId, call : Answerable]
    BY <2>1 DEF TypeOK, Send, Answerable
  <2>3. QED
    BY <2>2 DEF TypeOK, Ended, Send
<1>2. IdsOK'
  BY DEF IdsOK, TypeOK, Send
<1>3. MessagesOK'
  BY DEF MessagesOK, Owned, TypeOK, IdsOK, Answerable, Send
<1>4. EventsOK'
  BY DEF EventsOK, Promised, Mine, Ended, TypeOK, IdsOK, Send
<1>5. ReaderOK'
  BY DEF ReaderOK, TypeOK, Send
<1>6. InFlightOK'
  <2> SUFFICES ASSUME ~disconnected
               PROVE  /\ \A m \in asked' \cup inbox :
                           /\ m \notin responses
                           /\ m.call # Unawaited =>
                                pc'[m.call] \in {"wait", "expired", "timeout"}
                      /\ asked' \cap inbox = {}
    BY DEF InFlightOK, Send
  <2>1. asked' \subseteq asked \cup {Mine(c)} /\ Mine(c).call = c
    BY DEF Send, Mine
  <2>2. Mine(c) \notin responses /\ Mine(c) \notin inbox
    BY DEF TablesClean, InFlightOK, Mine, Send, Ended
  <2>3. pc[c] = "sending" /\ pc' = [pc EXCEPT ![c] = "wait"]
    BY DEF Send
  <2>4. \A m \in asked \cup inbox :
          /\ m \notin responses
          /\ m.call # Unawaited => m.call \in Calls /\ m.call # c
                                   /\ pc[m.call] \in {"wait", "expired", "timeout"}
    BY <2>3 DEF InFlightOK, TypeOK, Answerable
  <2>5. \A m \in asked' \cup inbox : m \notin responses
    BY <2>1, <2>2, <2>4
  <2>6. \A m \in asked' \cup inbox : m.call # Unawaited =>
          pc'[m.call] \in {"wait", "expired", "timeout"}
    BY <2>1, <2>3, <2>4 DEF TypeOK
  <2>7. asked' \cap inbox = {}
    BY <2>1, <2>2 DEF InFlightOK
  <2>8. QED
    BY <2>5, <2>6, <2>7
<1>7. WaitOK'
  BY DEF WaitOK, Mine, TypeOK, Send
<1>8. OwnReply'
  BY DEF OwnReply, TypeOK, Send
<1>9. LostMeansDisconnected'
  BY DEF LostMeansDisconnected, TypeOK, Send
<1>10. TablesClean'
  BY DEF TablesClean, TypeOK, Answerable, Send
<1>11. QED
  BY <1>1, <1>2, <1>3, <1>4, <1>5, <1>6, <1>7, <1>8, <1>9, <1>10

\* SendRaises preserves the invariant.
LEMMA SendRaisesStep ==
  ASSUME IndInv, NEW c \in Calls, SendRaises(c) PROVE IndInv'
<1> USE RpcAssumption DEF IndInv, table, pool, rd
<1>1. TypeOK'
  BY DEF TypeOK, Answerable, NoReply, Ended, SendRaises
<1>2. IdsOK'
  BY DEF IdsOK, TypeOK, SendRaises
<1>3. MessagesOK'
  BY DEF MessagesOK, Owned, TypeOK, IdsOK, Answerable, SendRaises
<1>4. EventsOK'
  BY DEF EventsOK, Promised, Mine, Ended, TypeOK, IdsOK, SendRaises
<1>5. ReaderOK'
  BY DEF ReaderOK, TypeOK, SendRaises
<1>6. InFlightOK'
  BY DEF InFlightOK, TypeOK, Answerable, SendRaises
<1>7. WaitOK'
  BY DEF WaitOK, Mine, TypeOK, SendRaises
<1>8. OwnReply'
  BY DEF OwnReply, TypeOK, SendRaises
<1>9. LostMeansDisconnected'
  BY DEF LostMeansDisconnected, TypeOK, SendRaises
<1>10. TablesClean'
  BY DEF TablesClean, TypeOK, Answerable, SendRaises
<1>11. QED
  BY <1>1, <1>2, <1>3, <1>4, <1>5, <1>6, <1>7, <1>8, <1>9, <1>10

\* Woken preserves the invariant.
LEMMA WokenStep ==
  ASSUME IndInv, NEW c \in Calls, Woken(c) PROVE IndInv'
<1> USE RpcAssumption DEF IndInv, table, pool, rd
<1>1. TypeOK'
  BY DEF TypeOK, Answerable, NoReply, Ended, Woken
<1>2. IdsOK'
  BY DEF IdsOK, TypeOK, Woken
<1>3. MessagesOK'
  BY DEF MessagesOK, Owned, TypeOK, IdsOK, Answerable, Woken
<1>4. EventsOK'
  BY DEF EventsOK, Promised, Mine, Ended, TypeOK, IdsOK, Woken
<1>5. ReaderOK'
  BY DEF ReaderOK, TypeOK, Woken
<1>6. InFlightOK'
  <2>1. ~disconnected => Mine(c) \in responses
    BY DEF EventsOK, Promised, Woken, Ended
  <2>2. \A m \in asked \cup inbox : ~disconnected => m.call # c
    <3> SUFFICES ASSUME NEW m \in asked \cup inbox, ~disconnected, m.call = c
                 PROVE  FALSE
      OBVIOUS
    <3>1. m = Mine(c)
      BY DEF MessagesOK, Owned, Mine, TypeOK
    <3>2. QED
      BY <2>1, <3>1 DEF InFlightOK
  <2>3. QED
    BY <2>2 DEF InFlightOK, TypeOK, Answerable, Woken
<1>7. WaitOK'
  BY DEF WaitOK, Mine, TypeOK, Woken
<1>8. OwnReply'
  BY DEF OwnReply, TypeOK, Woken
<1>9. LostMeansDisconnected'
  BY DEF LostMeansDisconnected, TypeOK, Woken
<1>10. TablesClean'
  <2>1. ~disconnected => Mine(c) \in responses
    BY DEF EventsOK, Promised, Woken, Ended
  <2>2. \A e \in pending : ~disconnected => e.call # c
    <3> SUFFICES ASSUME NEW e \in pending, ~disconnected, e.call = c
                 PROVE  FALSE
      OBVIOUS
    <3>1. e = Mine(c)
      BY DEF MessagesOK, Owned, Mine, TypeOK
    <3>2. QED
      BY <2>1, <3>1 DEF InFlightOK
  <2>3. QED
    BY <2>2 DEF TablesClean, TypeOK, Answerable, Woken
<1>11. QED
  BY <1>1, <1>2, <1>3, <1>4, <1>5, <1>6, <1>7, <1>8, <1>9, <1>10

\* Expire preserves the invariant.
LEMMA ExpireStep ==
  ASSUME IndInv, NEW c \in Calls, Expire(c) PROVE IndInv'
<1> USE RpcAssumption DEF IndInv, table, pool, rd
<1>1. TypeOK'
  BY DEF TypeOK, Answerable, NoReply, Ended, Expire
<1>2. IdsOK'
  BY DEF IdsOK, TypeOK, Expire
<1>3. MessagesOK'
  BY DEF MessagesOK, Owned, TypeOK, IdsOK, Answerable, Expire
<1>4. EventsOK'
  BY DEF EventsOK, Promised, Mine, Ended, TypeOK, IdsOK, Expire
<1>5. ReaderOK'
  BY DEF ReaderOK, TypeOK, Expire
<1>6. InFlightOK'
  BY DEF InFlightOK, TypeOK, Answerable, Expire
<1>7. WaitOK'
  BY DEF WaitOK, Mine, TypeOK, Expire
<1>8. OwnReply'
  BY DEF OwnReply, TypeOK, Expire
<1>9. LostMeansDisconnected'
  BY DEF LostMeansDisconnected, TypeOK, Expire
<1>10. TablesClean'
  BY DEF TablesClean, TypeOK, Answerable, Expire
<1>11. QED
  BY <1>1, <1>2, <1>3, <1>4, <1>5, <1>6, <1>7, <1>8, <1>9, <1>10

\* GiveUp preserves the invariant.
LEMMA GiveUpStep ==
  ASSUME IndInv, NEW c \in Calls, GiveUp(c) PROVE IndInv'
<1> USE RpcAssumption DEF IndInv, table, pool, rd
<1>1. TypeOK'
  BY DEF TypeOK, Answerable, NoReply, Ended, GiveUp, Drop
<1>2. IdsOK'
  BY DEF IdsOK, TypeOK, GiveUp, Drop
<1>3. MessagesOK'
  BY DEF MessagesOK, Owned, TypeOK, IdsOK, Answerable, GiveUp, Drop
<1>4. EventsOK'
  BY DEF EventsOK, Promised, Mine, Ended, TypeOK, IdsOK, GiveUp, Drop
<1>5. ReaderOK'
  BY DEF ReaderOK, TypeOK, GiveUp, Drop
<1>6. InFlightOK'
  BY DEF InFlightOK, TypeOK, Answerable, GiveUp, Drop
<1>7. WaitOK'
  <2>1. \A d \in Calls : d # c => id[d] # id[c]
    BY DEF IdsOK, TypeOK, GiveUp
  <2>2. \A d \in Calls : d # c /\ Mine(d) \in pending => Mine(d) \in pending'
    BY <2>1 DEF GiveUp, Drop, Mine
  <2>3. \A d \in Calls : Mine(d)' = Mine(d)
    BY DEF GiveUp, Mine
  <2>4. QED
    BY <2>2, <2>3 DEF WaitOK, TypeOK, GiveUp
<1>8. OwnReply'
  BY DEF OwnReply, TypeOK, GiveUp, Drop
<1>9. LostMeansDisconnected'
  BY DEF LostMeansDisconnected, TypeOK, GiveUp, Drop
<1>10. TablesClean'
  <2>1. \A e \in pending' : e \in pending /\ e.call # c
    BY DEF GiveUp, Drop, MessagesOK, Owned, TypeOK
  <2>2. QED
    BY <2>1 DEF TablesClean, TypeOK, Answerable, GiveUp
<1>11. QED
  BY <1>1, <1>2, <1>3, <1>4, <1>5, <1>6, <1>7, <1>8, <1>9, <1>10

\* TakeResponse preserves the invariant.
LEMMA TakeResponseStep ==
  ASSUME IndInv, NEW c \in Calls, TakeResponse(c) PROVE IndInv'
<1> USE RpcAssumption DEF IndInv, table, pool, rd
<1>1. TypeOK'
  BY DEF TypeOK, Answerable, NoReply, Ended, TakeResponse, Drop, Lookup
<1>2. IdsOK'
  BY DEF IdsOK, TypeOK, TakeResponse, Drop, Lookup
<1>3. MessagesOK'
  BY DEF MessagesOK, Owned, TypeOK, IdsOK, Answerable, TakeResponse, Drop, Lookup
<1>4. EventsOK'
  BY DEF EventsOK, Promised, Mine, Ended, TypeOK, IdsOK, TakeResponse, Drop, Lookup
<1>5. ReaderOK'
  BY DEF ReaderOK, TypeOK, TakeResponse, Drop, Lookup
<1>6. InFlightOK'
  BY DEF InFlightOK, TypeOK, Answerable, TakeResponse, Drop, Lookup
<1>7. WaitOK'
  BY DEF WaitOK, Mine, TypeOK, TakeResponse, Drop, Lookup
<1>8. OwnReply'
  <2>1. \A o \in Lookup(responses, id[c]) : o = c
    <3> SUFFICES ASSUME NEW e \in responses, e.id = id[c] PROVE e.call = c
      BY DEF Lookup
    <3>1. id[c] > configured /\ id[c] # 0
      BY DEF TakeResponse, IdsOK, TypeOK
    <3>2. e.call # Unawaited
      BY <3>1 DEF MessagesOK, Owned, TypeOK
    <3>3. e.call \in Calls /\ id[e.call] = id[c]
      BY <3>2 DEF MessagesOK, Owned, TypeOK, Answerable
    <3>4. QED
      BY <3>1, <3>3 DEF IdsOK
  <2>2. QED
    BY <2>1 DEF OwnReply, TypeOK, TakeResponse
<1>9. LostMeansDisconnected'
  <2>1. ~disconnected => Mine(c) \in responses
    BY DEF EventsOK, Promised, TakeResponse, Ended
  <2>2. Mine(c) \in responses => Lookup(responses, id[c]) # {}
    BY DEF Lookup, Mine
  <2>3. QED
    BY <2>1, <2>2 DEF LostMeansDisconnected, TypeOK, TakeResponse
<1>10. TablesClean'
  <2>1. \A e \in responses' : e \in responses /\ e.id # id[c]
    BY DEF TakeResponse, Drop
  <2>2. \A e \in responses' : e.call # c
    BY <2>1 DEF MessagesOK, Owned
  <2>3. \A e \in pending : ~disconnected => e.call # c
    BY DEF TakeResponse, TablesClean
  <2>4. QED
    BY <2>1, <2>2, <2>3 DEF TablesClean, TypeOK, Answerable, TakeResponse
<1>11. QED
  BY <1>1, <1>2, <1>3, <1>4, <1>5, <1>6, <1>7, <1>8, <1>9, <1>10

\* Dispatch preserves the invariant.
LEMMA DispatchStep ==
  ASSUME IndInv, Dispatch PROVE IndInv'
<1> USE RpcAssumption DEF IndInv, table, pool, rd
<1>1. TypeOK'
  BY DEF TypeOK, Answerable, NoReply, Ended, Dispatch, Put, Drop, Lookup
<1>2. IdsOK'
  BY DEF IdsOK, TypeOK, Dispatch, Put, Drop, Lookup
<1>3. MessagesOK'
  BY DEF MessagesOK, Owned, TypeOK, IdsOK, Answerable, Dispatch, Put, Drop, Lookup
<1>4. EventsOK'
  <2>1. PICK m \in inbox :
          /\ responses' = Put(responses, m.id, m.call)
          /\ waking' = Lookup(pending, m.id)
          /\ pending' = Drop(pending, m.id)
    BY DEF Dispatch
  <2>2. UNCHANGED <<pc, id, evt, disconnected>>
    BY DEF Dispatch
  <2>3. \A c \in Calls : pc[c] # "new" /\ id[c] = m.id => m = Mine(c)
    <3> SUFFICES ASSUME NEW c \in Calls, pc[c] # "new", id[c] = m.id
                 PROVE  m = Mine(c)
      OBVIOUS
    <3>1. Owned(m) /\ m \in [id : 1..nextId, call : Answerable]
      BY DEF MessagesOK, TypeOK
    <3>2. id[c] > configured
      BY DEF IdsOK
    <3>3. m.call \in Calls /\ id[m.call] = id[c]
      BY <3>1, <3>2 DEF Owned, Answerable, TypeOK
    <3>4. m.call = c
      BY <3>2, <3>3 DEF IdsOK, TypeOK
    <3>5. QED
      BY <3>1, <3>4 DEF Mine
  <2>4. \A c \in Calls : pc[c] # "new" /\ Mine(c) \in responses => Mine(c) \in responses'
    BY <2>1, <2>3 DEF Put, Drop, Mine
  <2>5. \A c \in waking' : pc[c] # "new" /\ id[c] = m.id /\ c \in Calls
    <3> SUFFICES ASSUME NEW e \in pending, e.id = m.id
                 PROVE  pc[e.call] # "new" /\ id[e.call] = m.id /\ e.call \in Calls
      BY <2>1 DEF Lookup
    <3>1. e.call \in Calls /\ e.id \in 1..nextId /\ e.id = id[e.call]
      BY DEF MessagesOK, Owned, TypeOK
    <3>2. QED
      BY <3>1 DEF IdsOK
  <2>6. \A c \in waking' : Mine(c) \in responses'
    BY <2>1, <2>3, <2>5 DEF Put, Mine
  <2>7. \A c \in Calls : Mine(c)' = Mine(c)
    BY <2>2 DEF Mine
  <2>8. QED
    BY <2>2, <2>4, <2>5, <2>6, <2>7 DEF EventsOK, Promised
<1>5. ReaderOK'
  BY DEF ReaderOK, TypeOK, Dispatch, Put, Drop, Lookup
<1>6. InFlightOK'
  BY DEF InFlightOK, TypeOK, Answerable, Dispatch, Put, Drop, Lookup
<1>7. WaitOK'
  <2>1. PICK m \in inbox :
          /\ responses' = Put(responses, m.id, m.call)
          /\ waking' = Lookup(pending, m.id)
          /\ pending' = Drop(pending, m.id)
    BY DEF Dispatch
  <2>2. UNCHANGED <<pc, id, evt>> /\ waking = {}
    BY DEF Dispatch, ReaderOK
  <2>3. \A c \in Calls : Mine(c) \in pending => c \in waking' \/ Mine(c) \in pending'
    BY <2>1 DEF Lookup, Drop, Mine
  <2>4. \A c \in Calls : Mine(c)' = Mine(c)
    BY <2>2 DEF Mine
  <2>5. QED
    BY <2>2, <2>3, <2>4 DEF WaitOK
<1>8. OwnReply'
  BY DEF OwnReply, TypeOK, Dispatch, Put, Drop, Lookup
<1>9. LostMeansDisconnected'
  BY DEF LostMeansDisconnected, TypeOK, Dispatch, Put, Drop, Lookup
<1>10. TablesClean'
  <2>1. PICK m \in inbox :
          /\ responses' = Put(responses, m.id, m.call)
          /\ waking' = Lookup(pending, m.id)
          /\ pending' = Drop(pending, m.id)
    BY DEF Dispatch
  <2>2. UNCHANGED <<pc, disconnected>> /\ ~disconnected
    BY DEF Dispatch, ReaderOK
  <2>3. m \in [id : 1..nextId, call : Answerable]
    BY DEF TypeOK
  <2>4. \A e \in responses' : e \in responses \/ e = m
    BY <2>1, <2>3 DEF Put, Drop
  <2>5. m.call # Unawaited => pc[m.call] \in {"wait", "woken", "expired", "timeout"}
    BY <2>2 DEF InFlightOK
  <2>6. pending' \subseteq pending
    BY <2>1 DEF Drop
  <2>7. QED
    BY <2>2, <2>4, <2>5, <2>6 DEF TablesClean
<1>11. QED
  BY <1>1, <1>2, <1>3, <1>4, <1>5, <1>6, <1>7, <1>8, <1>9, <1>10

\* SetEvent preserves the invariant.
LEMMA SetEventStep ==
  ASSUME IndInv, SetEvent PROVE IndInv'
<1> USE RpcAssumption DEF IndInv, table, pool, rd
<1>1. TypeOK'
  BY DEF TypeOK, Answerable, NoReply, Ended, SetEvent
<1>2. IdsOK'
  BY DEF IdsOK, TypeOK, SetEvent
<1>3. MessagesOK'
  BY DEF MessagesOK, Owned, TypeOK, IdsOK, Answerable, SetEvent
<1>4. EventsOK'
  BY DEF EventsOK, Promised, Mine, Ended, TypeOK, IdsOK, SetEvent
<1>5. ReaderOK'
  BY DEF ReaderOK, TypeOK, SetEvent
<1>6. InFlightOK'
  BY DEF InFlightOK, TypeOK, Answerable, SetEvent
<1>7. WaitOK'
  BY DEF WaitOK, Mine, TypeOK, SetEvent
<1>8. OwnReply'
  BY DEF OwnReply, TypeOK, SetEvent
<1>9. LostMeansDisconnected'
  BY DEF LostMeansDisconnected, TypeOK, SetEvent
<1>10. TablesClean'
  BY DEF TablesClean, TypeOK, Answerable, SetEvent
<1>11. QED
  BY <1>1, <1>2, <1>3, <1>4, <1>5, <1>6, <1>7, <1>8, <1>9, <1>10

\* ReaderEnds preserves the invariant.
LEMMA ReaderEndsStep ==
  ASSUME IndInv, ReaderEnds PROVE IndInv'
<1> USE RpcAssumption DEF IndInv, table, pool, rd
<1>1. TypeOK'
  BY DEF TypeOK, Answerable, NoReply, Ended, ReaderEnds
<1>2. IdsOK'
  BY DEF IdsOK, TypeOK, ReaderEnds
<1>3. MessagesOK'
  BY DEF MessagesOK, Owned, TypeOK, IdsOK, Answerable, ReaderEnds
<1>4. EventsOK'
  BY DEF EventsOK, Promised, Mine, Ended, TypeOK, IdsOK, ReaderEnds
<1>5. ReaderOK'
  BY DEF ReaderOK, TypeOK, ReaderEnds
<1>6. InFlightOK'
  BY DEF InFlightOK, TypeOK, Answerable, ReaderEnds
<1>7. WaitOK'
  BY DEF WaitOK, Mine, TypeOK, ReaderEnds
<1>8. OwnReply'
  BY DEF OwnReply, TypeOK, ReaderEnds
<1>9. LostMeansDisconnected'
  BY DEF LostMeansDisconnected, TypeOK, ReaderEnds
<1>10. TablesClean'
  BY DEF TablesClean, TypeOK, Answerable, ReaderEnds
<1>11. QED
  BY <1>1, <1>2, <1>3, <1>4, <1>5, <1>6, <1>7, <1>8, <1>9, <1>10

\* WakePending preserves the invariant.
LEMMA WakePendingStep ==
  ASSUME IndInv, WakePending PROVE IndInv'
<1> USE RpcAssumption DEF IndInv, table, pool, rd
<1>1. TypeOK'
  BY DEF TypeOK, Answerable, NoReply, Ended, WakePending
<1>2. IdsOK'
  BY DEF IdsOK, TypeOK, WakePending
<1>3. MessagesOK'
  BY DEF MessagesOK, Owned, TypeOK, IdsOK, Answerable, WakePending
<1>4. EventsOK'
  <2>1. disconnected /\ disconnected' /\ UNCHANGED <<pc, id, responses, waking>>
    BY DEF WakePending, ReaderOK
  <2>2. \A e \in pending : e.call \in Calls /\ pc[e.call] # "new"
    BY DEF MessagesOK, Owned, TypeOK, IdsOK
  <2>3. \A c \in Calls : evt'[c] => pc[c] # "new"
    BY <2>2 DEF WakePending, EventsOK
  <2>4. \A c \in Calls : pc[c] = "woken" => evt'[c]
    BY DEF WakePending, EventsOK
  <2>5. \A c \in waking : pc[c] # "new" /\ Promised(c)'
    BY <2>1 DEF EventsOK, Promised, Mine
  <2>6. QED
    BY <2>1, <2>3, <2>4, <2>5 DEF EventsOK
<1>5. ReaderOK'
  BY DEF ReaderOK, TypeOK, WakePending
<1>6. InFlightOK'
  BY DEF InFlightOK, TypeOK, Answerable, WakePending
<1>7. WaitOK'
  BY DEF WaitOK, Mine, TypeOK, WakePending
<1>8. OwnReply'
  BY DEF OwnReply, TypeOK, WakePending
<1>9. LostMeansDisconnected'
  BY DEF LostMeansDisconnected, TypeOK, WakePending
<1>10. TablesClean'
  BY DEF TablesClean, TypeOK, Answerable, WakePending
<1>11. QED
  BY <1>1, <1>2, <1>3, <1>4, <1>5, <1>6, <1>7, <1>8, <1>9, <1>10

\* Reply preserves the invariant.
LEMMA ReplyStep ==
  ASSUME IndInv, Reply PROVE IndInv'
<1> USE RpcAssumption DEF IndInv, table, pool, rd
<1>1. TypeOK'
  BY DEF TypeOK, Answerable, NoReply, Ended, Reply
<1>2. IdsOK'
  BY DEF IdsOK, TypeOK, Reply
<1>3. MessagesOK'
  BY DEF MessagesOK, Owned, TypeOK, IdsOK, Answerable, Reply
<1>4. EventsOK'
  BY DEF EventsOK, Promised, Mine, Ended, TypeOK, IdsOK, Reply
<1>5. ReaderOK'
  BY DEF ReaderOK, TypeOK, Reply
<1>6. InFlightOK'
  BY DEF InFlightOK, TypeOK, Answerable, Reply
<1>7. WaitOK'
  BY DEF WaitOK, Mine, TypeOK, Reply
<1>8. OwnReply'
  BY DEF OwnReply, TypeOK, Reply
<1>9. LostMeansDisconnected'
  BY DEF LostMeansDisconnected, TypeOK, Reply
<1>10. TablesClean'
  BY DEF TablesClean, TypeOK, Answerable, Reply
<1>11. QED
  BY <1>1, <1>2, <1>3, <1>4, <1>5, <1>6, <1>7, <1>8, <1>9, <1>10

\* StopReading preserves the invariant.
LEMMA StopReadingStep ==
  ASSUME IndInv, StopReading PROVE IndInv'
<1> USE RpcAssumption DEF IndInv, table, pool, rd
<1>1. TypeOK'
  BY DEF TypeOK, Answerable, NoReply, Ended, StopReading
<1>2. IdsOK'
  BY DEF IdsOK, TypeOK, StopReading
<1>3. MessagesOK'
  BY DEF MessagesOK, Owned, TypeOK, IdsOK, Answerable, StopReading
<1>4. EventsOK'
  BY DEF EventsOK, Promised, Mine, Ended, TypeOK, IdsOK, StopReading
<1>5. ReaderOK'
  BY DEF ReaderOK, TypeOK, StopReading
<1>6. InFlightOK'
  BY DEF InFlightOK, TypeOK, Answerable, StopReading
<1>7. WaitOK'
  BY DEF WaitOK, Mine, TypeOK, StopReading
<1>8. OwnReply'
  BY DEF OwnReply, TypeOK, StopReading
<1>9. LostMeansDisconnected'
  BY DEF LostMeansDisconnected, TypeOK, StopReading
<1>10. TablesClean'
  BY DEF TablesClean, TypeOK, Answerable, StopReading
<1>11. QED
  BY <1>1, <1>2, <1>3, <1>4, <1>5, <1>6, <1>7, <1>8, <1>9, <1>10

\* GoDown preserves the invariant.
LEMMA GoDownStep ==
  ASSUME IndInv, GoDown PROVE IndInv'
<1> USE RpcAssumption DEF IndInv, table, pool, rd
<1>1. TypeOK'
  BY DEF TypeOK, Answerable, NoReply, Ended, GoDown
<1>2. IdsOK'
  BY DEF IdsOK, TypeOK, GoDown
<1>3. MessagesOK'
  BY DEF MessagesOK, Owned, TypeOK, IdsOK, Answerable, GoDown
<1>4. EventsOK'
  BY DEF EventsOK, Promised, Mine, Ended, TypeOK, IdsOK, GoDown
<1>5. ReaderOK'
  BY DEF ReaderOK, TypeOK, GoDown
<1>6. InFlightOK'
  BY DEF InFlightOK, TypeOK, Answerable, GoDown
<1>7. WaitOK'
  BY DEF WaitOK, Mine, TypeOK, GoDown
<1>8. OwnReply'
  BY DEF OwnReply, TypeOK, GoDown
<1>9. LostMeansDisconnected'
  BY DEF LostMeansDisconnected, TypeOK, GoDown
<1>10. TablesClean'
  BY DEF TablesClean, TypeOK, Answerable, GoDown
<1>11. QED
  BY <1>1, <1>2, <1>3, <1>4, <1>5, <1>6, <1>7, <1>8, <1>9, <1>10
-----------------------------------------------------------------------------
\* No step leaves the invariant.
LEMMA StepKeepsInv == IndInv /\ [Next]_vars => IndInv'
<1> SUFFICES ASSUME IndInv, [Next]_vars PROVE IndInv'
  OBVIOUS
<1>1. CASE SendUnawaited
  BY <1>1, SendUnawaitedStep
<1>2. ASSUME NEW c \in Calls, NextRequestId(c) \/ Proceed(c) PROVE IndInv'
  BY <1>2, NextRequestIdStep, RegisterStep, TakeSendLockStep, SendStep, SendRaisesStep,
     WokenStep, ExpireStep, GiveUpStep, TakeResponseStep DEF Proceed
<1>3. CASE Reader \/ ReaderEnds
  BY <1>3, DispatchStep, SetEventStep, WakePendingStep, ReaderEndsStep DEF Reader
<1>4. CASE Reply \/ StopReading \/ GoDown
  BY <1>4, ReplyStep, StopReadingStep, GoDownStep
<1>5. CASE Over \/ UNCHANGED vars
  <2>1. UNCHANGED vars
    BY <1>5 DEF Over
  <2>2. TypeOK' /\ IdsOK' /\ MessagesOK' /\ ReaderOK'
    BY <2>1 DEF IndInv, vars, table, pool, rd, TypeOK, IdsOK, MessagesOK, Owned, ReaderOK
  <2>3. EventsOK' /\ InFlightOK' /\ WaitOK'
    BY <2>1 DEF IndInv, vars, table, pool, rd, EventsOK, Promised, Mine, InFlightOK, WaitOK
  <2>4. OwnReply' /\ LostMeansDisconnected' /\ TablesClean'
    BY <2>1 DEF IndInv, vars, table, pool, rd, OwnReply, LostMeansDisconnected, TablesClean
  <2>5. QED
    BY <2>2, <2>3, <2>4 DEF IndInv
<1>6. QED
  BY <1>1, <1>2, <1>3, <1>4, <1>5 DEF Next

\* Every reachable state satisfies the invariant.
THEOREM Inductive == Spec => []IndInv
<1>1. Init => IndInv
  <2> SUFFICES ASSUME Init PROVE IndInv
    OBVIOUS
  <2> USE DEF Init
  <2>1. TypeOK
    <3>1. nextId \in Nat /\ configured \in 0..2 /\ 0 \in 0..nextId
      OBVIOUS
    <3>2. /\ pc \in [Calls -> {"new", "register", "send", "sending", "wait", "woken",
                                "expired"} \cup Ended]
          /\ id \in [Calls -> 0..nextId]
          /\ evt \in [Calls -> BOOLEAN]
          /\ got \in [Calls -> Answerable \cup {NoReply}]
      BY <3>1
    <3>3. QED
      BY <3>1, <3>2 DEF TypeOK
  <2>2. IdsOK /\ MessagesOK /\ EventsOK /\ ReaderOK /\ InFlightOK /\ WaitOK
    BY DEF IdsOK, MessagesOK, EventsOK, ReaderOK, InFlightOK, WaitOK
  <2>3. OwnReply /\ LostMeansDisconnected /\ TablesClean
    BY DEF OwnReply, LostMeansDisconnected, TablesClean
  <2>4. QED
    BY <2>1, <2>2, <2>3 DEF IndInv
<1>2. QED
  BY <1>1, StepKeepsInv, PTL DEF Spec, Safety

\* The state of the client keeps its types, and a call's id never exceeds the
\* counter it was drawn from.
THEOREM TypeCorrect == Spec => []TypeOK
BY Inductive, PTL DEF IndInv

\* A call that returns has the pool's reply to its own request.
THEOREM OwnReplyHolds == Spec => []OwnReply
BY Inductive, PTL DEF IndInv

\* ConnectionError is only raised once the reader has ended.
THEOREM LostMeansDisconnectedHolds == Spec => []LostMeansDisconnected
BY Inductive, PTL DEF IndInv

\* Nothing of a finished call stays in the tables of a live connection but the
\* late reply of one that timed out.
THEOREM TablesCleanHolds == Spec => []TablesClean
BY Inductive, PTL DEF IndInv

\* The last step of the reader leaves no waiting call without its event.
THEOREM WaitersWokenHolds == Spec => WaitersWoken
<1> DEFINE Woke == reader = "finally" /\ reader' = "dead" =>
                     \A c \in Calls : pc[c] = "wait" => evt'[c]
<1>1. IndInv /\ [Next]_vars => Woke \/ UNCHANGED vars
  <2> SUFFICES ASSUME IndInv, [Next]_vars, reader = "finally", reader' = "dead",
                      NEW c \in Calls, pc[c] = "wait"
               PROVE  evt'[c]
    OBVIOUS
  <2>1. WakePending
    BY DEF Next, Proceed, Reader, SendUnawaited, NextRequestId, Register, TakeSendLock, Send,
           SendRaises, Woken, Expire, GiveUp, TakeResponse, Dispatch, SetEvent,
           ReaderEnds, Reply, StopReading, GoDown, Over, vars, pool, rd
  <2>2. waking = {}
    BY DEF IndInv, ReaderOK
  <2>3. evt[c] \/ Mine(c) \in pending
    BY <2>2 DEF IndInv, WaitOK
  <2>4. QED
    BY <2>1, <2>3 DEF WakePending, Mine
<1>2. QED
  BY <1>1, Inductive, PTL DEF Spec, Safety, WaitersWoken
=============================================================================
