-------------------------- MODULE EpollServer_proofs --------------------------
(***************************************************************************)
(* The safety invariants of EpollServer hold for any number of peers and   *)
(* descriptors, any limit, timeout and buffer sizes. The argument is the   *)
(* invariant IInv of EpollServer: its conjuncts need each other, so they   *)
(* are proved together, one lemma for each action of the specification.    *)
(***************************************************************************)
EXTENDS EpollServer, FiniteSetTheorems, TLAPS

USE ConstantsAssumption DEF peerVars, fdVars, loopVars

-----------------------------------------------------------------------------
(* What IInv says of the event being dispatched and of the handler's fd.   *)

LEMMA EventIsOpen ==
    ASSUME IInv, NEW e \in batch
    PROVE  /\ e.fd \in clients
           /\ e.fd \in Fd
           /\ e.fd # NoFd
           /\ owner[e.fd] \in Peer
BY DEF IInv, TypeOK, TableAgrees, NoStaleEvent, Event

LEMMA HandlerIsOpen ==
    ASSUME IInv, pc \in {"recv", "process", "send", "close"}
    PROVE  /\ cur \in clients
           /\ cur \in Fd
           /\ cur # NoFd
           /\ owner[cur] \in Peer
           /\ conn[cur] \in Connection
BY DEF IInv, TypeOK, TableAgrees, HandlerRuns

LEMMA FreshIsConnection == Fresh \in Connection
BY DEF Fresh, Connection, ClientState

-----------------------------------------------------------------------------
(* The peers and the clock.                                                *)

LEMMA PeerConnectStep ==
    ASSUME IInv, NEW p \in Peer, PeerConnect(p)
    PROVE  IInv'
<1> USE DEF IInv, PeerConnect
<1>1. TypeOK'
  BY DEF TypeOK, Phase
<1>2. TableAgrees' /\ HandlerRuns' /\ ConnectionLimit'
  <2>1. TableAgrees'
    BY DEF TypeOK, TableAgrees
  <2>2. HandlerRuns'
    BY DEF TypeOK, HandlerRuns, Ended
  <2>3. ConnectionLimit'
    BY DEF ConnectionLimit
  <2>. QED  BY <2>1, <2>2, <2>3
<1>3. NoStaleEvent' /\ EdgeNotLost'
  BY DEF NoStaleEvent, EdgeNotLost, Revents, HasReset, Readable, Writable
<1>4. RequestIntact' /\ BacklogIntact'
  BY DEF TypeOK, RequestIntact, BacklogIntact
<1>5. RightDirection'
  BY DEF RightDirection, HandlerRuns
<1>. QED BY <1>1, <1>2, <1>3, <1>4, <1>5

LEMMA PeerSendStep ==
    ASSUME IInv, NEW p \in Peer, PeerSend(p)
    PROVE  IInv'
<1> USE DEF IInv, PeerSend
<1>1. TypeOK'
  <2>1. todo[p] \in 1..ReqLen /\ inbox[p] \in 0..ReqLen /\ todo[p] + inbox[p] <= ReqLen
    BY DEF TypeOK, BacklogIntact
  <2>. QED  BY <2>1 DEF TypeOK, Woken, FdsOf
<1>2. TableAgrees' /\ HandlerRuns' /\ ConnectionLimit'
  <2>1. TableAgrees'
    BY DEF TypeOK, TableAgrees, Woken, FdsOf
  <2>2. HandlerRuns'
    BY DEF TypeOK, HandlerRuns, Ended
  <2>3. ConnectionLimit'
    BY DEF ConnectionLimit
  <2>. QED  BY <2>1, <2>2, <2>3
<1>3. NoStaleEvent'
  BY DEF NoStaleEvent
<1>4. EdgeNotLost'
  BY DEF TypeOK, EdgeNotLost, TableAgrees, Revents, HasReset, Readable, Writable, Woken, FdsOf
<1>5. RequestIntact' /\ BacklogIntact'
  <2>1. todo[p] \in 1..ReqLen /\ inbox[p] \in 0..ReqLen
    BY DEF TypeOK
  <2>2. todo'[p] + inbox'[p] = todo[p] + inbox[p]
    BY <2>1 DEF TypeOK
  <2>. QED  BY <2>2 DEF TypeOK, RequestIntact, BacklogIntact
<1>6. RightDirection'
  BY DEF RightDirection, HandlerRuns
<1>. QED BY <1>1, <1>2, <1>3, <1>4, <1>5, <1>6

LEMMA PeerRecvStep ==
    ASSUME IInv, NEW p \in Peer, PeerRecv(p)
    PROVE  IInv'
<1> USE DEF IInv, PeerRecv
<1>1. TypeOK'
  BY DEF TypeOK, Woken, FdsOf
<1>2. TableAgrees' /\ HandlerRuns' /\ ConnectionLimit'
  BY DEF TypeOK, TableAgrees, HandlerRuns, Ended, ConnectionLimit, Woken, FdsOf
<1>3. NoStaleEvent'
  BY DEF NoStaleEvent
<1>4. EdgeNotLost'
  BY DEF TypeOK, EdgeNotLost, TableAgrees, Revents, HasReset, Readable, Writable, Woken, FdsOf
<1>5. RequestIntact' /\ BacklogIntact'
  BY DEF RequestIntact, BacklogIntact
<1>6. RightDirection'
  BY DEF RightDirection, HandlerRuns
<1>. QED BY <1>1, <1>2, <1>3, <1>4, <1>5, <1>6

LEMMA PeerFinStep ==
    ASSUME IInv, NEW p \in Peer, PeerFin(p)
    PROVE  IInv'
<1> USE DEF IInv, PeerFin
<1>1. TypeOK'
  BY DEF TypeOK, Departure, Woken, FdsOf
<1>2. TableAgrees' /\ HandlerRuns' /\ ConnectionLimit'
  <2>1. TableAgrees'
    BY DEF TypeOK, TableAgrees, Woken, FdsOf
  <2>2. HandlerRuns'
    BY DEF TypeOK, HandlerRuns, Ended
  <2>3. ConnectionLimit'
    BY DEF ConnectionLimit
  <2>. QED  BY <2>1, <2>2, <2>3
<1>3. NoStaleEvent'
  BY DEF NoStaleEvent
<1>4. EdgeNotLost'
  BY DEF TypeOK, EdgeNotLost, TableAgrees, Revents, HasReset, Readable, Writable, Woken, FdsOf
<1>5. RequestIntact' /\ BacklogIntact'
  BY DEF RequestIntact, BacklogIntact
<1>6. RightDirection'
  BY DEF RightDirection, HandlerRuns
<1>. QED BY <1>1, <1>2, <1>3, <1>4, <1>5, <1>6

LEMMA PeerResetStep ==
    ASSUME IInv, NEW p \in Peer, PeerReset(p)
    PROVE  IInv'
<1> USE DEF IInv, PeerReset
<1>1. TypeOK'
  BY DEF TypeOK, Departure, Woken, FdsOf
<1>2. TableAgrees' /\ HandlerRuns' /\ ConnectionLimit'
  BY DEF TypeOK, TableAgrees, HandlerRuns, Ended, ConnectionLimit, Woken, FdsOf
<1>3. NoStaleEvent'
  BY DEF NoStaleEvent
<1>4. EdgeNotLost'
  <2> SUFFICES ASSUME NEW fd \in clients, Revents(fd)' # "none"
               PROVE  fd \in ready' \/ fd = cur \/ \E e \in batch : e.fd = fd
    BY DEF EdgeNotLost
  <2>1. CASE owner[fd] = p
    BY <2>1 DEF TypeOK, TableAgrees, Woken, FdsOf, Interest
  <2>2. CASE owner[fd] # p
    <3>1. Revents(fd)' = Revents(fd)
      BY <2>2 DEF TypeOK, Revents, HasReset, Readable, Writable
    <3>. QED  BY <3>1 DEF EdgeNotLost
  <2>. QED  BY <2>1, <2>2
<1>5. RequestIntact' /\ BacklogIntact'
  BY DEF RequestIntact, BacklogIntact
<1>6. RightDirection'
  BY DEF RightDirection, HandlerRuns
<1>. QED BY <1>1, <1>2, <1>3, <1>4, <1>5, <1>6

LEMMA TickStep ==
    ASSUME IInv, Tick
    PROVE  IInv'
<1> USE DEF IInv, Tick
<1>1. TypeOK'
  BY DEF TypeOK, Connection
<1>2. \A fd \in Fd : conn'[fd].got = conn[fd].got /\ conn'[fd].state = conn[fd].state
  BY DEF TypeOK, Connection
<1>3. TableAgrees' /\ ConnectionLimit' /\ HandlerRuns'
  <2>1. pc = "process" => cur \in Fd
    BY HandlerIsOpen
  <2>2. TableAgrees'
    BY <1>2, <2>1 DEF TableAgrees
  <2>3. ConnectionLimit'
    BY DEF ConnectionLimit
  <2>4. HandlerRuns'
    BY <1>2, <2>1 DEF HandlerRuns, Ended
  <2>. QED  BY <2>2, <2>3, <2>4
<1>4. NoStaleEvent' /\ EdgeNotLost'
  BY DEF NoStaleEvent, EdgeNotLost, Revents, HasReset, Readable, Writable
<1>5. RequestIntact' /\ BacklogIntact'
  BY <1>2 DEF TypeOK, RequestIntact, BacklogIntact
<1>6. RightDirection'
  BY DEF RightDirection, HandlerRuns
<1>. QED BY <1>1, <1>3, <1>4, <1>5, <1>6

-----------------------------------------------------------------------------
(* Waiting and dispatching.                                                *)

LEMMA EpollWaitStep ==
    ASSUME IInv, EpollWait
    PROVE  IInv'
<1> USE DEF IInv, EpollWait
<1>1. TypeOK'
  <2>1. \A fd \in ready : Revents(fd) # "none" =>
           Revents(fd) \in {"hup", "in", "out"} /\ owner[fd] \in Peer
    BY DEF TypeOK, TableAgrees, Revents
  <2>. QED  BY <2>1 DEF TypeOK, Event, Label
<1>2. TableAgrees' /\ HandlerRuns' /\ ConnectionLimit'
  BY DEF TypeOK, TableAgrees, HandlerRuns, Ended, ConnectionLimit
<1>3. NoStaleEvent'
  BY DEF TypeOK, NoStaleEvent, HandlerRuns
<1>4. EdgeNotLost'
  <2> SUFFICES ASSUME NEW fd \in clients, Revents(fd) # "none"
               PROVE  \E e \in batch' : e.fd = fd
    BY DEF EdgeNotLost, Revents, HasReset, Readable, Writable
  <2>1. fd \in ready
    BY DEF EdgeNotLost, TypeOK, HandlerRuns
  <2>2. [fd |-> fd, kind |-> Revents(fd), who |-> owner[fd]] \in batch'
    BY <2>1
  <2>. QED  BY <2>2
<1>5. RequestIntact' /\ BacklogIntact'
  BY DEF RequestIntact, BacklogIntact
<1>6. RightDirection'
  BY DEF RightDirection, HandlerRuns, Revents
<1>. QED BY <1>1, <1>2, <1>3, <1>4, <1>5, <1>6

LEMMA HandleListenerStep ==
    ASSUME IInv, HandleListener
    PROVE  IInv'
<1> USE DEF IInv, HandleListener
<1>1. TypeOK'
  BY DEF TypeOK, Label
<1>2. TableAgrees' /\ HandlerRuns' /\ ConnectionLimit'
  BY DEF TableAgrees, HandlerRuns, Ended, ConnectionLimit
<1>3. NoStaleEvent' /\ EdgeNotLost'
  BY DEF NoStaleEvent, EdgeNotLost, Revents, HasReset, Readable, Writable
<1>4. RequestIntact' /\ BacklogIntact'
  BY DEF RequestIntact, BacklogIntact
<1>5. RightDirection'
  BY DEF RightDirection, HandlerRuns
<1>. QED BY <1>1, <1>2, <1>3, <1>4, <1>5

LEMMA HandleHangupStep ==
    ASSUME IInv, NEW e \in batch, HandleHangup(e)
    PROVE  IInv'
<1> USE DEF IInv, HandleHangup
<1>1. e.fd \in clients /\ e.fd \in Fd /\ e.fd # NoFd
  BY EventIsOpen
<1>2. TypeOK'
  BY <1>1 DEF TypeOK, Label
<1>3. TableAgrees' /\ HandlerRuns' /\ ConnectionLimit'
  <2>1. TableAgrees'
    BY <1>1 DEF TableAgrees
  <2>2. HandlerRuns'
    BY <1>1 DEF HandlerRuns, Ended
  <2>3. ConnectionLimit'
    BY DEF ConnectionLimit
  <2>. QED  BY <2>1, <2>2, <2>3
<1>4. NoStaleEvent'
  BY DEF NoStaleEvent
<1>5. EdgeNotLost'
  BY DEF EdgeNotLost, HandlerRuns, Revents, HasReset, Readable, Writable, TypeOK
<1>6. RequestIntact' /\ BacklogIntact'
  BY DEF RequestIntact, BacklogIntact
<1>7. RightDirection'
  BY <1>1 DEF RightDirection, HandlerRuns
<1>. QED BY <1>2, <1>3, <1>4, <1>5, <1>6, <1>7

(* handleRead and handleWrite are entered in the same way.                 *)
LEMMA HandleStep ==
    ASSUME IInv, NEW e \in batch, NEW kind, NEW firstCall, Handle(e, kind, firstCall),
           \/ kind = "in" /\ firstCall = "recv"
           \/ kind = "out" /\ firstCall = "send"
    PROVE  IInv'
<1> USE DEF IInv, Handle
<1>1. e.fd \in clients /\ e.fd \in Fd /\ e.fd # NoFd
  BY EventIsOpen
<1>2. /\ pc' = firstCall
      /\ conn' = [conn EXCEPT ![e.fd].idle = 0]
  BY <1>1
<1>3. \A fd \in Fd : /\ conn'[fd] \in Connection
                     /\ conn'[fd].got = conn[fd].got
                     /\ conn'[fd].state = conn[fd].state
  BY <1>1, <1>2 DEF TypeOK, Connection
<1>4. TypeOK'
  BY <1>1, <1>2, <1>3 DEF TypeOK, Label
<1>5. TableAgrees' /\ HandlerRuns' /\ ConnectionLimit'
  <2>1. TableAgrees'
    BY <1>1, <1>2 DEF TableAgrees
  <2>2. HandlerRuns'
    BY <1>1, <1>2 DEF HandlerRuns, Ended
  <2>3. ConnectionLimit'
    BY DEF ConnectionLimit
  <2>. QED  BY <2>1, <2>2, <2>3
<1>6. NoStaleEvent'
  BY DEF NoStaleEvent
<1>7. EdgeNotLost'
  BY DEF EdgeNotLost, HandlerRuns, Revents, HasReset, Readable, Writable, TypeOK
<1>8. RequestIntact' /\ BacklogIntact'
  BY <1>3 DEF TypeOK, RequestIntact, BacklogIntact
<1>9. RightDirection'
  BY <1>1, <1>2 DEF RightDirection, HandlerRuns
<1>. QED BY <1>4, <1>5, <1>6, <1>7, <1>8, <1>9

LEMMA EndBatchStep ==
    ASSUME IInv, EndBatch
    PROVE  IInv'
<1> USE DEF IInv, EndBatch
<1>1. TypeOK'
  BY DEF TypeOK, Label
<1>2. TableAgrees' /\ HandlerRuns' /\ ConnectionLimit'
  BY DEF TableAgrees, HandlerRuns, Ended, BatchDone, ConnectionLimit
<1>3. NoStaleEvent' /\ EdgeNotLost'
  BY DEF NoStaleEvent, EdgeNotLost, Revents, HasReset, Readable, Writable
<1>4. RequestIntact' /\ BacklogIntact'
  BY DEF RequestIntact, BacklogIntact
<1>5. RightDirection'
  BY DEF RightDirection, HandlerRuns
<1>. QED BY <1>1, <1>2, <1>3, <1>4, <1>5

-----------------------------------------------------------------------------
(* acceptNewConnection.                                                    *)

(* One more client is within the limit when the check has let it pass.     *)
LEMMA OneMoreClient ==
    ASSUME IInv, NEW fd \in Fd, ~AtLimit
    PROVE  Cardinality(clients \cup {fd}) <= MaxConnections
<1>1. IsFiniteSet(clients) /\ Cardinality(clients) \in Nat
  BY FS_Subset, FS_CardinalityType DEF IInv, TypeOK
<1>2. Cardinality(clients) < MaxConnections
  BY <1>1 DEF AtLimit
<1>3. Cardinality(clients \cup {fd}) \in {Cardinality(clients), Cardinality(clients) + 1}
  BY <1>1, FS_AddElement
<1>. QED  BY <1>1, <1>2, <1>3

LEMMA AcceptClientStep ==
    ASSUME IInv, NEW p \in Peer, NEW fd \in Fd, AcceptClient(p, fd)
    PROVE  IInv'
<1> USE DEF IInv, AcceptClient
<1>1. phase[p] = "queued" /\ owner[fd] = NoPeer /\ fd \notin clients
  BY DEF Queued, FreeFds, TableAgrees
<1>2. \A g \in Fd : owner[g] # p
  BY <1>1 DEF TableAgrees
<1>3. TypeOK'
  BY FreshIsConnection DEF TypeOK, Phase, Interest
<1>4. ConnectionLimit'
  BY OneMoreClient DEF ConnectionLimit
<1>5. TableAgrees'
  <2>1. clients' = {g \in Fd : owner'[g] # NoPeer}
    BY DEF TypeOK, TableAgrees
  <2>2. clients' = {g \in Fd : interest'[g] # "none"}
    BY DEF TypeOK, TableAgrees
  <2>3. ready' \subseteq clients' /\ (cur' # NoFd => cur' \in clients')
    BY DEF TableAgrees
  <2>4. \A g, h \in clients' : owner'[g] = owner'[h] => g = h
    BY <1>2 DEF TypeOK, TableAgrees
  <2>5. \A q \in Peer : phase'[q] = "open" <=> \E g \in Fd : owner'[g] = q
    BY <1>1, <1>2 DEF TypeOK, TableAgrees
  <2>. QED  BY <2>1, <2>2, <2>3, <2>4, <2>5 DEF TableAgrees
<1>6. HandlerRuns'
  BY DEF HandlerRuns, Ended
<1>7. NoStaleEvent'
  <2>1. \A e \in batch : e.fd # fd
    BY <1>1, EventIsOpen
  <2>. QED  BY <2>1 DEF TypeOK, NoStaleEvent, Event
<1>8. EdgeNotLost'
  <2> SUFFICES ASSUME NEW g \in clients', Revents(g)' # "none"
               PROVE  g \in ready' \/ g = cur \/ \E e \in batch : e.fd = g
    BY DEF EdgeNotLost
  <2>1. CASE g = fd
    BY <2>1 DEF TypeOK, Revents, HasReset, Readable, Departure
  <2>2. CASE g # fd
    <3>1. g \in clients /\ Revents(g)' = Revents(g)
      BY <2>2 DEF TypeOK, Revents, HasReset, Readable, Writable
    <3>. QED  BY <3>1 DEF EdgeNotLost
  <2>. QED  BY <2>1, <2>2
<1>9. RequestIntact'
  <2> SUFFICES ASSUME NEW g \in clients'
               PROVE  /\ todo[owner'[g]] + inbox[owner'[g]] + conn'[g].got = ReqLen
                      /\ conn'[g].state = "WRITING_RESPONSE" => conn'[g].got = ReqLen
    BY DEF RequestIntact
  <2>1. CASE g = fd
    <3>1. owner'[g] = p /\ conn'[g] = Fresh
      BY <2>1 DEF TypeOK
    <3>2. todo[p] + inbox[p] = ReqLen /\ todo[p] + inbox[p] \in Nat
      BY <1>1 DEF BacklogIntact, TypeOK
    <3>. QED  BY <3>1, <3>2 DEF Fresh
  <2>2. CASE g # fd
    BY <2>2 DEF TypeOK, RequestIntact
  <2>. QED  BY <2>1, <2>2
<1>10. BacklogIntact'
  BY DEF TypeOK, BacklogIntact
<1>11. RightDirection'
  BY <1>1, EventIsOpen, HandlerIsOpen DEF RightDirection, TypeOK, Event
<1>. QED BY <1>3, <1>4, <1>5, <1>6, <1>7, <1>8, <1>9, <1>10, <1>11

LEMMA AcceptRefuseStep ==
    ASSUME IInv, NEW p \in Peer, AcceptRefuse(p)
    PROVE  IInv'
<1> USE DEF IInv, AcceptRefuse
<1>1. phase[p] = "queued" /\ \A fd \in Fd : owner[fd] # p
  BY DEF Queued, TableAgrees
<1>2. TypeOK'
  BY DEF TypeOK, Phase
<1>3. TableAgrees' /\ HandlerRuns' /\ ConnectionLimit'
  <2>1. TableAgrees'
    BY <1>1 DEF TypeOK, TableAgrees
  <2>2. HandlerRuns'
    BY <1>1 DEF TypeOK, HandlerRuns, Ended
  <2>3. ConnectionLimit'
    BY DEF ConnectionLimit
  <2>. QED  BY <2>1, <2>2, <2>3
<1>4. NoStaleEvent'
  BY DEF NoStaleEvent
<1>5. \A fd \in clients : owner[fd] \in Peer \ {p}
  BY <1>1 DEF TypeOK, TableAgrees
<1>6. EdgeNotLost'
  BY <1>5 DEF TypeOK, EdgeNotLost, Revents, HasReset, Readable, Writable
<1>7. RequestIntact' /\ BacklogIntact'
  BY <1>5 DEF TypeOK, RequestIntact, BacklogIntact
<1>8. RightDirection'
  BY DEF RightDirection, HandlerRuns
<1>. QED BY <1>2, <1>3, <1>4, <1>6, <1>7, <1>8

LEMMA AcceptNothingStep ==
    ASSUME IInv, AcceptNothing
    PROVE  IInv'
<1> USE DEF IInv, AcceptNothing
<1>1. TypeOK'
  BY DEF TypeOK, Label
<1>2. TableAgrees' /\ HandlerRuns' /\ ConnectionLimit'
  BY DEF TableAgrees, HandlerRuns, Ended, ConnectionLimit
<1>3. NoStaleEvent' /\ EdgeNotLost'
  BY DEF NoStaleEvent, EdgeNotLost, Revents, HasReset, Readable, Writable
<1>4. RequestIntact' /\ BacklogIntact'
  BY DEF RequestIntact, BacklogIntact
<1>5. RightDirection'
  BY DEF RightDirection, HandlerRuns
<1>. QED BY <1>1, <1>2, <1>3, <1>4, <1>5

-----------------------------------------------------------------------------
(* handleRead.                                                             *)

LEMMA RecvDataStep ==
    ASSUME IInv, NEW n \in 1..ReqLen, RecvData(n)
    PROVE  IInv'
<1> USE DEF IInv, RecvData
<1>1. cur \in clients /\ cur \in Fd /\ cur # NoFd /\ owner[cur] \in Peer /\ conn[cur] \in Connection
  BY HandlerIsOpen
<1>2. PICK p \in Peer : p = owner[cur]
  BY <1>1
<1>3. /\ conn[cur].got \in Nat /\ inbox[p] \in Nat /\ todo[p] \in Nat
      /\ todo[p] + inbox[p] + conn[cur].got = ReqLen
      /\ n <= inbox[p]
  BY <1>1, <1>2 DEF TypeOK, RequestIntact, Connection
<1>4. /\ \A q \in Peer : inbox'[q] = IF q = p THEN inbox[p] - n ELSE inbox[q]
      /\ \A fd \in Fd : /\ conn'[fd].got = IF fd = cur THEN conn[cur].got + n ELSE conn[fd].got
                        /\ conn'[fd].state = conn[fd].state
  BY <1>1, <1>2 DEF TypeOK, Connection
<1>5. conn[cur].got + n \in 0..ReqLen /\ inbox[p] - n \in 0..ReqLen
  BY <1>3
<1>6. pc' = (IF conn[cur].got + n = ReqLen THEN "process" ELSE "recv") /\ cur' = cur
  BY <1>5 DEF AfterRecv, RequestComplete
<1>7. TypeOK'
  <2>1. inbox' \in [Peer -> 0..ReqLen]
    BY <1>2, <1>5 DEF TypeOK
  <2>2. conn' \in [Fd -> Connection]
    BY <1>1, <1>5 DEF TypeOK, Connection
  <2>. QED  BY <1>6, <2>1, <2>2 DEF TypeOK, Label
<1>8. TableAgrees' /\ ConnectionLimit'
  BY <1>6 DEF TableAgrees, ConnectionLimit
<1>9. HandlerRuns'
  BY <1>1, <1>4, <1>6 DEF HandlerRuns, Ended
<1>10. NoStaleEvent' /\ EdgeNotLost'
  <2>1. \A fd \in clients \ {cur} : owner[fd] # p /\ owner[fd] \in Peer
    BY <1>1, <1>2 DEF TypeOK, TableAgrees
  <2>2. \A fd \in clients \ {cur} : Revents(fd)' = Revents(fd)
    BY <1>4, <2>1 DEF TypeOK, Revents, HasReset, Readable, Writable
  <2>. QED  BY <1>6, <2>2 DEF NoStaleEvent, EdgeNotLost
<1>11. RequestIntact'
  <2>1. \A fd \in clients \ {cur} : owner[fd] # p /\ owner[fd] \in Peer
    BY <1>1, <1>2 DEF TypeOK, TableAgrees
  <2>2. \A fd \in clients \ {cur} :
           /\ todo'[owner'[fd]] + inbox'[owner'[fd]] + conn'[fd].got = ReqLen
           /\ conn'[fd].state = "WRITING_RESPONSE" => conn'[fd].got = ReqLen
    BY <1>4, <2>1 DEF TypeOK, RequestIntact
  <2>3. todo'[p] + inbox'[p] + conn'[cur].got = ReqLen
    BY <1>1, <1>3, <1>4
  <2>4. conn[cur].state # "WRITING_RESPONSE"
    BY <1>1, <1>3 DEF RequestIntact
  <2>. QED  BY <1>1, <1>2, <1>4, <2>2, <2>3, <2>4 DEF RequestIntact
<1>12. BacklogIntact'
  <2>1. phase[p] = "open"
    BY <1>1, <1>2 DEF TableAgrees
  <2>2. \A q \in Peer \ {p} : inbox'[q] = inbox[q]
    BY <1>4
  <2>3. todo[p] + inbox'[p] <= ReqLen
    BY <1>3, <1>4
  <2>. QED  BY <2>1, <2>2, <2>3 DEF BacklogIntact
<1>13. RightDirection'
  BY <1>6 DEF RightDirection, HandlerRuns
<1>. QED BY <1>7, <1>8, <1>9, <1>10, <1>11, <1>12, <1>13

LEMMA RecvWouldBlockStep ==
    ASSUME IInv, RecvWouldBlock
    PROVE  IInv'
<1> USE DEF IInv, RecvWouldBlock
<1>1. cur \in clients /\ owner[cur] \in Peer
  BY HandlerIsOpen
<1>2. TypeOK'
  BY DEF TypeOK, Label
<1>3. TableAgrees' /\ HandlerRuns' /\ ConnectionLimit'
  <2>1. TableAgrees'
    BY DEF TableAgrees
  <2>2. HandlerRuns'
    BY DEF HandlerRuns, Ended
  <2>3. ConnectionLimit'
    BY DEF ConnectionLimit
  <2>. QED  BY <2>1, <2>2, <2>3
<1>4. NoStaleEvent'
  BY DEF TypeOK, NoStaleEvent, Event
<1>5. EdgeNotLost'
  <2>1. Revents(cur) = "none"
    BY <1>1 DEF Revents, HasReset, Readable, Writable, RightDirection
  <2>. QED  BY <2>1 DEF EdgeNotLost, Revents, HasReset, Readable, Writable
<1>6. RequestIntact' /\ BacklogIntact'
  BY DEF RequestIntact, BacklogIntact
<1>7. RightDirection'
  BY DEF RightDirection, HandlerRuns
<1>. QED BY <1>2, <1>3, <1>4, <1>5, <1>6, <1>7

LEMMA RecvEndStep ==
    ASSUME IInv, RecvEnd
    PROVE  IInv'
<1> USE DEF IInv, RecvEnd
<1>1. TypeOK'
  BY DEF TypeOK, Label
<1>2. TableAgrees' /\ HandlerRuns' /\ ConnectionLimit'
  BY DEF TableAgrees, HandlerRuns, Ended, ConnectionLimit
<1>3. NoStaleEvent' /\ EdgeNotLost'
  BY DEF NoStaleEvent, EdgeNotLost, Revents, HasReset, Readable, Writable
<1>4. RequestIntact' /\ BacklogIntact'
  BY DEF RequestIntact, BacklogIntact
<1>5. RightDirection'
  BY DEF RightDirection, HandlerRuns
<1>. QED BY <1>1, <1>2, <1>3, <1>4, <1>5

-----------------------------------------------------------------------------
(* processCompleteRequest and handleWrite.                                 *)

LEMMA ProcessStep ==
    ASSUME IInv, NEW len \in 1..RespLen, Process(len)
    PROVE  IInv'
<1> USE DEF IInv, Process
<1>1. cur \in clients /\ cur \in Fd /\ cur # NoFd /\ owner[cur] \in Peer /\ conn[cur] \in Connection
  BY HandlerIsOpen
<1>2. \A fd \in Fd : /\ conn'[fd].got = conn[fd].got
                     /\ fd # cur => conn'[fd] = conn[fd]
  BY <1>1 DEF TypeOK, Connection
<1>3. TypeOK'
  <2>1. conn'[cur] \in Connection
    <3>1. /\ conn'[cur].state = "WRITING_RESPONSE" /\ conn'[cur].left = len
          /\ conn'[cur].got = conn[cur].got /\ conn'[cur].idle \in {0, conn[cur].idle}
          /\ conn'[cur] = [state |-> conn'[cur].state, got |-> conn'[cur].got,
                           left |-> conn'[cur].left, idle |-> conn'[cur].idle]
      BY <1>1 DEF TypeOK, Connection
    <3>. QED  BY <1>1, <3>1 DEF Connection, ClientState
  <2>2. conn' \in [Fd -> Connection]
    BY <1>1, <1>2, <2>1 DEF TypeOK
  <2>. QED  BY <1>1, <2>2 DEF TypeOK, Interest, Label
<1>4. TableAgrees' /\ ConnectionLimit'
  <2>1. clients = {fd \in Fd : interest'[fd] # "none"}
    BY <1>1 DEF TypeOK, TableAgrees
  <2>2. TableAgrees'
    BY <1>1, <2>1 DEF TableAgrees
  <2>3. ConnectionLimit'
    BY DEF ConnectionLimit
  <2>. QED  BY <2>2, <2>3
<1>5. HandlerRuns'
  BY DEF HandlerRuns, Ended
<1>6. NoStaleEvent' /\ EdgeNotLost'
  BY DEF TypeOK, NoStaleEvent, EdgeNotLost, Revents, HasReset, Readable, Writable
<1>7. RequestIntact' /\ BacklogIntact'
  BY <1>2 DEF TypeOK, HandlerRuns, RequestIntact, BacklogIntact
<1>8. RightDirection'
  BY <1>1 DEF RightDirection, HandlerRuns, TypeOK, NoStaleEvent, Event
<1>. QED BY <1>3, <1>4, <1>5, <1>6, <1>7, <1>8

LEMMA ProcessFailsStep ==
    ASSUME IInv, NEW len \in 1..RespLen, ProcessFails(len)
    PROVE  IInv'
<1> USE DEF IInv, ProcessFails
<1>1. cur \in clients /\ cur \in Fd /\ cur # NoFd /\ owner[cur] \in Peer /\ conn[cur] \in Connection
  BY HandlerIsOpen
<1>2. \A fd \in Fd : /\ conn'[fd].got = conn[fd].got
                     /\ fd # cur => conn'[fd] = conn[fd]
  BY <1>1 DEF TypeOK, Connection
<1>3. TypeOK'
  <2>1. conn'[cur] \in Connection
    <3>1. /\ conn'[cur].state = "WRITING_RESPONSE" /\ conn'[cur].left = len
          /\ conn'[cur].got = conn[cur].got /\ conn'[cur].idle \in {0, conn[cur].idle}
          /\ conn'[cur] = [state |-> conn'[cur].state, got |-> conn'[cur].got,
                           left |-> conn'[cur].left, idle |-> conn'[cur].idle]
      BY <1>1 DEF TypeOK, Connection
    <3>. QED  BY <1>1, <3>1 DEF Connection, ClientState
  <2>2. conn' \in [Fd -> Connection]
    BY <1>1, <1>2, <2>1 DEF TypeOK
  <2>. QED  BY <2>2 DEF TypeOK, Label
<1>4. TableAgrees' /\ ConnectionLimit' /\ HandlerRuns'
  BY DEF TableAgrees, ConnectionLimit, HandlerRuns, Ended
<1>5. NoStaleEvent' /\ EdgeNotLost'
  BY DEF NoStaleEvent, EdgeNotLost, Revents, HasReset, Readable, Writable
<1>6. RequestIntact' /\ BacklogIntact'
  BY <1>2 DEF TypeOK, HandlerRuns, RequestIntact, BacklogIntact
<1>7. RightDirection'
  BY DEF RightDirection, HandlerRuns
<1>. QED BY <1>3, <1>4, <1>5, <1>6, <1>7

LEMMA SendSomeStep ==
    ASSUME IInv, NEW n \in 1..SndBuf, SendSome(n)
    PROVE  IInv'
<1> USE DEF IInv, SendSome
<1>1. cur \in clients /\ cur \in Fd /\ cur # NoFd /\ owner[cur] \in Peer /\ conn[cur] \in Connection
  BY HandlerIsOpen
<1>2. \A fd \in Fd : conn'[fd].got = conn[fd].got /\ conn'[fd].state = conn[fd].state
  BY <1>1 DEF TypeOK, Connection
<1>3. TypeOK'
  <2>1. conn[cur].left - n \in 0..RespLen
    BY <1>1 DEF Connection
  <2>2. conn' \in [Fd -> Connection]
    BY <1>1, <2>1 DEF TypeOK, Connection, LeftAfterSend
  <2>3. outbox[owner[cur]] + n \in 0..SndBuf
    BY <1>1 DEF TypeOK
  <2>4. outbox' \in [Peer -> 0..SndBuf]
    BY <1>1, <2>3 DEF TypeOK
  <2>. QED  BY <2>2, <2>4 DEF TypeOK
<1>4. TableAgrees' /\ ConnectionLimit' /\ HandlerRuns'
  <2>1. TableAgrees'
    BY <1>1, <1>2 DEF TableAgrees
  <2>2. ConnectionLimit'
    BY DEF ConnectionLimit
  <2>3. HandlerRuns'
    BY <1>1, <1>2 DEF HandlerRuns, Ended
  <2>. QED  BY <2>1, <2>2, <2>3
<1>5. NoStaleEvent' /\ EdgeNotLost'
  <2>1. \A fd \in clients \ {cur} : owner[fd] # owner[cur]
    BY <1>1 DEF TableAgrees
  <2>2. \A fd \in clients \ {cur} : Revents(fd)' = Revents(fd)
    BY <2>1 DEF TypeOK, Revents, HasReset, Readable, Writable
  <2>. QED  BY <2>2 DEF NoStaleEvent, EdgeNotLost
<1>6. RequestIntact' /\ BacklogIntact'
  BY <1>2 DEF TypeOK, RequestIntact, BacklogIntact
<1>7. RightDirection'
  BY DEF RightDirection, HandlerRuns
<1>. QED BY <1>3, <1>4, <1>5, <1>6, <1>7

LEMMA SendWouldBlockStep ==
    ASSUME IInv, SendWouldBlock
    PROVE  IInv'
<1> USE DEF IInv, SendWouldBlock
<1>1. cur \in clients /\ owner[cur] \in Peer
  BY HandlerIsOpen
<1>2. TypeOK'
  BY DEF TypeOK, Label
<1>3. TableAgrees' /\ HandlerRuns' /\ ConnectionLimit'
  BY DEF TableAgrees, HandlerRuns, Ended, ConnectionLimit
<1>4. NoStaleEvent'
  BY DEF TypeOK, NoStaleEvent, Event
<1>5. EdgeNotLost'
  <2>1. Revents(cur) = "none"
    BY <1>1 DEF Revents, HasReset, Readable, Writable, RightDirection
  <2>. QED  BY <2>1 DEF EdgeNotLost, Revents, HasReset, Readable, Writable
<1>6. RequestIntact' /\ BacklogIntact'
  BY DEF RequestIntact, BacklogIntact
<1>7. RightDirection'
  BY DEF RightDirection, HandlerRuns
<1>. QED BY <1>2, <1>3, <1>4, <1>5, <1>6, <1>7

LEMMA SendFailsStep ==
    ASSUME IInv, SendFails
    PROVE  IInv'
<1> USE DEF IInv, SendFails
<1>1. TypeOK'
  BY DEF TypeOK, Label
<1>2. TableAgrees' /\ HandlerRuns' /\ ConnectionLimit'
  BY DEF TableAgrees, HandlerRuns, Ended, ConnectionLimit
<1>3. NoStaleEvent' /\ EdgeNotLost'
  BY DEF NoStaleEvent, EdgeNotLost, Revents, HasReset, Readable, Writable
<1>4. RequestIntact' /\ BacklogIntact'
  BY DEF RequestIntact, BacklogIntact
<1>5. RightDirection'
  BY DEF RightDirection, HandlerRuns
<1>. QED BY <1>1, <1>2, <1>3, <1>4, <1>5

LEMMA SendDoneStep ==
    ASSUME IInv, SendDone
    PROVE  IInv'
<1> USE DEF IInv, SendDone
<1>1. TypeOK'
  BY DEF TypeOK, Label
<1>2. TableAgrees' /\ HandlerRuns' /\ ConnectionLimit'
  BY DEF TableAgrees, HandlerRuns, Ended, ConnectionLimit
<1>3. NoStaleEvent' /\ EdgeNotLost'
  BY DEF NoStaleEvent, EdgeNotLost, Revents, HasReset, Readable, Writable
<1>4. RequestIntact' /\ BacklogIntact'
  BY DEF RequestIntact, BacklogIntact
<1>5. RightDirection'
  BY DEF RightDirection, HandlerRuns
<1>. QED BY <1>1, <1>2, <1>3, <1>4, <1>5

-----------------------------------------------------------------------------
(* Closing descriptors.                                                    *)

(* Whatever set of descriptors is closed, by whichever of the callers, the *)
(* map, the descriptors and epoll keep in step, provided that the events   *)
(* left in the batch and the handler left running are not about them.      *)
LEMMA ReleaseStep ==
    ASSUME IInv, NEW S \in SUBSET Fd, Release(S),
           UNCHANGED <<todo, leaving>>,
           cur' \in {cur, NoFd}, cur' \notin S, cur \notin S => cur' = cur,
           batch' \subseteq batch,
           \A e \in batch' : e.fd \notin S,
           \A e \in batch : e.fd \notin S => e \in batch',
           phase' \in [Peer -> Phase],
           \A p \in Peer : phase'[p] = "open" <=> phase[p] = "open" /\ p \notin OwnersIn(S),
           \A p \in Peer : phase'[p] \in {"away", "queued"} => phase'[p] = phase[p],
           sinceCleanup' \in 0..CleanupPeriod, listening' \in BOOLEAN, pc' \in Label
    PROVE  /\ TypeOK'
           /\ ConnectionLimit'
           /\ TableAgrees'
           /\ NoStaleEvent'
           /\ EdgeNotLost'
           /\ RequestIntact'
           /\ BacklogIntact'
           /\ \A fd \in Fd \ S : interest'[fd] = interest[fd]
<1> USE DEF IInv
<1>1. /\ clients' = clients \ S
      /\ \A fd \in Fd : owner'[fd] = IF fd \in S THEN NoPeer ELSE owner[fd]
      /\ \A fd \in Fd : interest'[fd] = IF fd \in S THEN "none" ELSE interest[fd]
      /\ \A fd \in Fd \ S : conn'[fd] = conn[fd]
      /\ \A p \in Peer : inbox'[p] \in {0, inbox[p]}
      /\ \A p \in Peer \ OwnersIn(S) : inbox'[p] = inbox[p] /\ outbox'[p] = outbox[p]
      /\ ready' = ready \ S
  BY DEF Release, KeysAfterClose, TypeOK
<1>2. \A fd \in clients' : /\ fd \in clients /\ fd \in Fd \ S
                           /\ owner'[fd] = owner[fd]
                           /\ owner[fd] \in Peer \ OwnersIn(S)
  BY <1>1 DEF TypeOK, TableAgrees, OwnersIn
<1>3. TypeOK'
  <2>1. /\ inbox' \in [Peer -> 0..ReqLen]
        /\ outbox' \in [Peer -> 0..SndBuf]
        /\ owner' \in [Fd -> Peer \cup {NoPeer}]
        /\ interest' \in [Fd -> Interest]
    BY DEF Release, TypeOK, Interest
  <2>2. conn' \in [Fd -> Connection]
    BY FreshIsConnection DEF Release, TypeOK
  <2>. QED  BY <1>1, <2>1, <2>2 DEF TypeOK
<1>4. ConnectionLimit'
  <2>1. /\ IsFiniteSet(clients)
        /\ Cardinality(clients') <= Cardinality(clients)
        /\ Cardinality(clients) \in Nat /\ Cardinality(clients') \in Nat
    BY <1>1, FS_Subset, FS_CardinalityType DEF TypeOK
  <2>. QED  BY <2>1 DEF ConnectionLimit
<1>5. TableAgrees'
  <2>1. clients' = {fd \in Fd : owner'[fd] # NoPeer}
    BY <1>1 DEF TableAgrees
  <2>2. clients' = {fd \in Fd : interest'[fd] # "none"}
    BY <1>1 DEF TableAgrees
  <2>3. ready' \subseteq clients' /\ (cur' # NoFd => cur' \in clients')
    BY <1>1 DEF TableAgrees
  <2>4. \A fd, g \in clients' : owner'[fd] = owner'[g] => fd = g
    BY <1>2 DEF TableAgrees
  <2>5. \A p \in Peer : phase'[p] = "open" <=> \E fd \in Fd : owner'[fd] = p
    <3> TAKE p \in Peer
    <3>1. (\E fd \in Fd : owner'[fd] = p) <=> (\E fd \in Fd \ S : owner[fd] = p)
      BY <1>1
    <3>2. p \in OwnersIn(S) <=> \E fd \in S : owner[fd] = p
      BY DEF OwnersIn
    <3>3. \A fd, g \in Fd : owner[fd] = p /\ owner[g] = p => fd = g
      BY DEF TableAgrees
    <3>. QED  BY <3>1, <3>2, <3>3 DEF TableAgrees
  <2>. QED  BY <2>1, <2>2, <2>3, <2>4, <2>5 DEF TableAgrees
<1>6. NoStaleEvent'
  <2>1. \A e \in batch' : e.fd \in Fd \ S /\ e.fd # NoFd /\ e.fd # cur
    BY EventIsOpen DEF NoStaleEvent
  <2>. QED  BY <1>1, <2>1 DEF NoStaleEvent
<1>7. EdgeNotLost'
  <2> SUFFICES ASSUME NEW fd \in clients', Revents(fd)' # "none"
               PROVE  fd \in ready' \/ fd = cur' \/ \E e \in batch' : e.fd = fd
    BY DEF EdgeNotLost
  <2>1. Revents(fd)' = Revents(fd)
    BY <1>1, <1>2 DEF Revents, HasReset, Readable, Writable
  <2>2. fd \in ready \/ fd = cur \/ \E e \in batch : e.fd = fd
    BY <1>2, <2>1 DEF EdgeNotLost
  <2>. QED  BY <1>1, <1>2, <2>2
<1>8. RequestIntact'
  BY <1>1, <1>2 DEF RequestIntact
<1>9. BacklogIntact'
  <2> SUFFICES ASSUME NEW p \in Peer
               PROVE  /\ todo[p] + inbox'[p] <= ReqLen
                      /\ phase'[p] \in {"away", "queued"} => todo[p] + inbox'[p] = ReqLen
    BY DEF BacklogIntact
  <2>1. todo[p] + inbox'[p] <= ReqLen
    BY <1>1 DEF TypeOK, BacklogIntact
  <2>2. ASSUME phase'[p] \in {"away", "queued"} PROVE todo[p] + inbox'[p] = ReqLen
    <3>1. phase[p] \in {"away", "queued"}
      BY <2>2
    <3>2. p \notin OwnersIn(S)
      BY <3>1 DEF TableAgrees, OwnersIn
    <3>. QED  BY <1>1, <3>1, <3>2 DEF BacklogIntact
  <2>. QED  BY <2>1, <2>2
<1>. QED BY <1>1, <1>3, <1>4, <1>5, <1>6, <1>7, <1>8, <1>9

(* What a close makes of the peers' phases.                                *)
LEMMA PhaseAfterCloseFacts ==
    ASSUME IInv, NEW S \in SUBSET Fd
    PROVE  /\ PhaseAfterClose(S) \in [Peer -> Phase]
           /\ \A p \in Peer : PhaseAfterClose(S)[p] = "open"
                                 <=> phase[p] = "open" /\ p \notin OwnersIn(S)
           /\ \A p \in Peer : PhaseAfterClose(S)[p] \in {"away", "queued"}
                                 => PhaseAfterClose(S)[p] = phase[p]
<1>1. \A p \in Peer : p \in OwnersIn({fd \in S : Delivered(fd)}) => p \in OwnersIn(S)
  BY DEF OwnersIn
<1>2. \A p \in Peer : PhaseAfterClose(S)[p] \in
         (IF p \in OwnersIn(S) THEN {"answered", "dropped"} ELSE {phase[p]})
  BY <1>1 DEF PhaseAfterClose
<1>3. PhaseAfterClose(S) \in [Peer -> Phase]
  BY DEF PhaseAfterClose, IInv, TypeOK, Phase
<1>. QED  BY <1>2, <1>3

LEMMA CloseConnectionStep ==
    ASSUME IInv, CloseConnection
    PROVE  IInv'
<1> USE DEF CloseConnection
<1>1. cur \in Fd /\ cur # NoFd
  BY HandlerIsOpen
<1>2. \A e \in batch : e.fd # cur
  BY DEF IInv, NoStaleEvent
<1>3. /\ TypeOK' /\ ConnectionLimit' /\ TableAgrees' /\ NoStaleEvent'
      /\ EdgeNotLost' /\ RequestIntact' /\ BacklogIntact'
      /\ \A fd \in Fd \ {cur} : interest'[fd] = interest[fd]
  <2>1. /\ sinceCleanup' \in 0..CleanupPeriod
        /\ listening' \in BOOLEAN
        /\ pc' \in Label
    BY DEF IInv, TypeOK, Label
  <2>2. /\ {cur} \in SUBSET Fd
        /\ cur' \in {cur, NoFd} /\ cur' \notin {cur} /\ cur \in {cur}
        /\ batch' = batch /\ \A e \in batch : e.fd \notin {cur}
    BY <1>1, <1>2
  <2>3. /\ phase' \in [Peer -> Phase]
        /\ \A p \in Peer : phase'[p] = "open" <=> phase[p] = "open" /\ p \notin OwnersIn({cur})
        /\ \A p \in Peer : phase'[p] \in {"away", "queued"} => phase'[p] = phase[p]
    BY <2>2, PhaseAfterCloseFacts
  <2>4. Release({cur}) /\ UNCHANGED <<todo, leaving>>
    OBVIOUS
  <2> HIDE DEF CloseConnection
  <2>. QED  BY <2>1, <2>2, <2>3, <2>4, ReleaseStep
<1>4. HandlerRuns'
  BY DEF HandlerRuns, Ended
<1>5. RightDirection'
  BY <1>2, <1>3, EventIsOpen DEF IInv, RightDirection
<1>. QED  BY <1>3, <1>4, <1>5 DEF IInv

LEMMA CleanupStep ==
    ASSUME IInv, Cleanup
    PROVE  IInv'
<1> DEFINE S == IF sinceCleanup >= CleanupPeriod THEN ExpiredFds ELSE {}
<1>1. /\ Release(S)
      /\ phase' = PhaseAfterClose(S)
      /\ sinceCleanup' \in {0, sinceCleanup}
      /\ UNCHANGED <<todo, leaving, batch, listening, cur>>
      /\ pc = "clean" /\ pc' = "wait"
  BY DEF Cleanup, SinceAfterCleanup
<1>2. S \in SUBSET Fd
  BY DEF ExpiredFds, IInv, TypeOK
<1>3. cur = NoFd /\ batch = {}
  BY <1>1 DEF IInv, HandlerRuns
<1> HIDE DEF S
<1>4. /\ TypeOK' /\ ConnectionLimit' /\ TableAgrees' /\ NoStaleEvent'
      /\ EdgeNotLost' /\ RequestIntact' /\ BacklogIntact'
  <2>1. /\ sinceCleanup' \in 0..CleanupPeriod
        /\ listening' \in BOOLEAN
        /\ pc' \in Label
    BY <1>1 DEF IInv, TypeOK, Label
  <2>2. cur' \notin S /\ batch' \subseteq batch
    BY <1>1, <1>2, <1>3
  <2>. QED  BY <1>1, <1>2, <1>3, <2>1, <2>2, ReleaseStep, PhaseAfterCloseFacts
<1>5. HandlerRuns' /\ RightDirection'
  BY <1>1, <1>3 DEF HandlerRuns, RightDirection, Ended
<1>. QED  BY <1>4, <1>5 DEF IInv

LEMMA EndInStep ==
    ASSUME IInv, NEW label \in {"stopped", "crashed", "killed"}, EndIn(label)
    PROVE  IInv'
<1> USE DEF EndIn
<1>1. /\ phase' \in [Peer -> Phase]
      /\ \A p \in Peer : phase'[p] = "open" <=> phase[p] = "open" /\ p \notin OwnersIn(Fd)
      /\ \A p \in Peer : phase'[p] \in {"away", "queued"} => phase'[p] = phase[p]
  <2>1. \A p \in Peer : phase'[p] = IF phase[p] = "queued" THEN "refused"
                                    ELSE PhaseAfterClose(Fd)[p]
    OBVIOUS
  <2>2. \A p \in Peer : PhaseAfterClose(Fd)[p] \in Phase
    BY PhaseAfterCloseFacts
  <2>3. phase' \in [Peer -> Phase]
    BY <2>2 DEF Phase
  <2>. QED  BY <2>1, <2>3, PhaseAfterCloseFacts
<1>2. /\ TypeOK' /\ ConnectionLimit' /\ TableAgrees' /\ NoStaleEvent'
      /\ EdgeNotLost' /\ RequestIntact' /\ BacklogIntact'
  <2>1. /\ sinceCleanup' \in 0..CleanupPeriod
        /\ listening' \in BOOLEAN
        /\ pc' \in Label
    BY DEF IInv, TypeOK, Label
  <2>2. /\ \A e \in batch : e.fd \in Fd
        /\ cur \in Fd \cup {NoFd} /\ cur' \notin Fd
    BY EventIsOpen DEF IInv, TypeOK
  <2>. QED  BY <1>1, <2>1, <2>2, ReleaseStep
<1>3. HandlerRuns' /\ RightDirection'
  BY DEF HandlerRuns, RightDirection, Ended
<1>. QED  BY <1>2, <1>3 DEF IInv

-----------------------------------------------------------------------------
(* The theorems.                                                           *)

LEMMA InitIInv == Init => IInv
<1> SUFFICES ASSUME Init PROVE IInv
  OBVIOUS
<1> USE DEF Init
<1>1. TypeOK
  <2>1. conn \in [Fd -> Connection]
    BY FreshIsConnection
  <2>2. /\ phase \in [Peer -> Phase] /\ leaving \in [Peer -> Departure]
        /\ owner \in [Fd -> Peer \cup {NoPeer}] /\ interest \in [Fd -> Interest]
        /\ pc \in Label
    BY DEF Phase, Departure, Interest, Label
  <2>3. /\ todo \in [Peer -> 0..ReqLen] /\ inbox \in [Peer -> 0..ReqLen]
        /\ outbox \in [Peer -> 0..SndBuf] /\ sinceCleanup \in 0..CleanupPeriod
    OBVIOUS
  <2>. QED  BY <2>1, <2>2, <2>3 DEF TypeOK
<1>2. ConnectionLimit
  BY FS_EmptySet DEF ConnectionLimit
<1>3. TableAgrees /\ NoStaleEvent /\ EdgeNotLost
  BY DEF TableAgrees, NoStaleEvent, EdgeNotLost
<1>4. RequestIntact /\ BacklogIntact
  BY DEF RequestIntact, BacklogIntact
<1>5. HandlerRuns /\ RightDirection
  BY DEF HandlerRuns, RightDirection, Ended
<1>. QED  BY <1>1, <1>2, <1>3, <1>4, <1>5 DEF IInv

LEMMA NextIInv == IInv /\ [Next]_vars => IInv'
<1> SUFFICES ASSUME IInv, [Next]_vars PROVE IInv'
  OBVIOUS
<1>1. CASE EpollWait
  BY <1>1, EpollWaitStep
<1>2. CASE Accept
  BY <1>2, AcceptClientStep, AcceptRefuseStep, AcceptNothingStep DEF Accept
<1>3. CASE Dispatch
  BY <1>3, HandleListenerStep, HandleHangupStep, HandleStep, EndBatchStep
     DEF Dispatch, HandleRead, HandleWrite
<1>4. CASE Read
  BY <1>4, RecvDataStep, RecvWouldBlockStep, RecvEndStep DEF Read
<1>5. CASE Write
  <2>1. CASE SendKilled
    BY <2>1, EndInStep DEF SendKilled
  <2>. QED
    BY <1>5, <2>1, ProcessStep, ProcessFailsStep, SendSomeStep, SendWouldBlockStep,
       SendFailsStep, SendDoneStep DEF Write
<1>6. CASE CloseConnection
  BY <1>6, CloseConnectionStep
<1>7. CASE Cleanup
  BY <1>7, CleanupStep
<1>8. CASE Environment
  BY <1>8, PeerConnectStep, PeerSendStep, PeerRecvStep, PeerFinStep, PeerResetStep,
     TickStep DEF Environment
<1>9. CASE Stop
  BY <1>9, EndInStep DEF Stop
<1>10. CASE UNCHANGED vars
  <2> USE <1>10 DEF vars, IInv
  <2>1. TypeOK' /\ ConnectionLimit' /\ TableAgrees'
    <3>1. TypeOK'
      BY DEF TypeOK
    <3>2. ConnectionLimit'
      BY DEF ConnectionLimit
    <3>3. TableAgrees'
      BY DEF TypeOK, TableAgrees
    <3>. QED  BY <3>1, <3>2, <3>3
  <2>2. NoStaleEvent' /\ EdgeNotLost'
    BY DEF NoStaleEvent, EdgeNotLost, Revents, HasReset, Readable, Writable
  <2>3. RequestIntact' /\ BacklogIntact' /\ HandlerRuns' /\ RightDirection'
    BY DEF RequestIntact, BacklogIntact, HandlerRuns, RightDirection, Ended
  <2>. QED  BY <2>1, <2>2, <2>3
<1>. QED
  BY <1>1, <1>2, <1>3, <1>4, <1>5, <1>6, <1>7, <1>8, <1>9, <1>10 DEF Next, Loop

(* The inductive invariant holds in every state of every instance.         *)
THEOREM Invariant == Spec => []IInv
BY InitIInv, NextIInv, PTL DEF Spec

(* The event loop's variables keep their types.                            *)
THEOREM TypeCorrect == Spec => []TypeOK
<1>1. IInv => TypeOK
  BY DEF IInv
<1>. QED  BY <1>1, Invariant, PTL

(* clients never outgrows maxConnections (server_epoll.cpp:218), however   *)
(* many peers connect and in whatever order the loop handles them.         *)
THEOREM LimitKept == Spec => []ConnectionLimit
<1>1. IInv => ConnectionLimit
  BY DEF IInv
<1>. QED  BY <1>1, Invariant, PTL

(* The map, the open descriptors and epoll's registrations never differ:   *)
(* closeConnection and cleanupTimeoutConnections leak nothing and close    *)
(* nothing twice.                                                          *)
THEOREM TableKept == Spec => []TableAgrees
<1>1. IInv => TableAgrees
  BY DEF IInv
<1>. QED  BY <1>1, Invariant, PTL

(* No event of a batch is ever handled on behalf of another connection,    *)
(* though descriptors are reused within the batch (159-191, 239, 368).     *)
THEOREM EventsStayFresh == Spec => []NoStaleEvent
<1>1. IInv => NoStaleEvent
  BY DEF IInv
<1>. QED  BY <1>1, Invariant, PTL

(* The edge-triggered loops of handleRead and handleWrite leave no         *)
(* readiness behind that no later event reports.                           *)
THEOREM NoEdgeLost == Spec => []EdgeNotLost
<1>1. IInv => EdgeNotLost
  BY DEF IInv
<1>. QED  BY <1>1, Invariant, PTL

(* A response is begun only for a request that was read to its end, and no *)
(* segment of a request is lost or read twice.                             *)
THEOREM RequestsIntact == Spec => []RequestIntact
<1>1. IInv => RequestIntact
  BY DEF IInv
<1>. QED  BY <1>1, Invariant, PTL

===============================================================================
