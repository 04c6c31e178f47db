------------------------- MODULE EpollContract_proofs -------------------------
(***************************************************************************)
(* EpollServer keeps the contract of IServer, ConnectionContract, for any  *)
(* number of peers and descriptors. ClosedForReason is proved first, from  *)
(* the invariant IInv of EpollServer_proofs: it knows why a connection is  *)
(* closed at the time it is closed. Then every step of the server is shown *)
(* to be one of the contract or to change nothing that it sees.            *)
(***************************************************************************)
EXTENDS EpollServer_proofs

USE ConstantsAssumption DEF peerVars, fdVars, loopVars

-----------------------------------------------------------------------------
(* Closing for a reason.                                                   *)

(* Nobody takes back that he has left.                                     *)
StillGone == \A p \in Peer : /\ leaving[p] # "stay" => leaving'[p] # "stay"
                             /\ HasReset(p) => leaving'[p] \in {"reset", "finreset"}

LEMMA NobodyReturns == ASSUME IInv, Environment PROVE StillGone
BY DEF IInv, TypeOK, Environment, PeerConnect, PeerSend, PeerRecv, PeerFin, PeerReset, Tick,
       StillGone, HasReset

LEMMA ReasonOutside ==
    ASSUME IInv, ClosedForReason, StillGone,
           UNCHANGED <<owner, interest, clients, batch, pc, cur>>,
           \A fd \in Fd : conn'[fd].state = conn[fd].state /\ conn'[fd].left = conn[fd].left
    PROVE  ClosedForReason'
<1>1. \A fd \in clients : fd \in Fd
  BY DEF IInv, TypeOK
<1>2. \A e \in batch : e.who \in Peer
  BY DEF IInv, TypeOK, Event
<1>3. ASSUME NEW fd \in clients
      PROVE  /\ interest'[fd] = "OUT" => conn'[fd].state = "WRITING_RESPONSE"
             /\ conn'[fd].state = "WRITING_RESPONSE" /\ conn'[fd].left = 0 =>
                    fd = cur' /\ pc' \in {"send", "close"} /\ interest'[fd] = "OUT"
             /\ conn'[fd].state = "WRITING_RESPONSE" /\ interest'[fd] = "IN" =>
                    fd = cur' /\ pc' = "close"
  BY <1>1, <1>3 DEF ClosedForReason, Delivered
<1>4. ASSUME NEW e \in batch, e.kind = "hup"
      PROVE  HasReset(e.who)'
  BY <1>2, <1>4 DEF ClosedForReason, StillGone, HasReset
<1>5. ASSUME pc = "close"
      PROVE  (\/ Delivered(cur)
              \/ leaving[owner[cur]] # "stay"
              \/ owner[cur] \in Undeliverable)'
  <2>1. cur \in Fd /\ owner[cur] \in Peer
    BY <1>5, HandlerIsOpen
  <2>2. CASE Delivered(cur)
    BY <2>1, <2>2 DEF Delivered
  <2>3. CASE leaving[owner[cur]] # "stay"
    BY <2>1, <2>3 DEF StillGone
  <2>4. CASE owner[cur] \in Undeliverable
    BY <2>1, <2>4 DEF Undeliverable
  <2>. QED  BY <1>5, <2>2, <2>3, <2>4 DEF ClosedForReason
<1>. QED  BY <1>3, <1>4, <1>5 DEF ClosedForReason, Delivered

LEMMA ReasonEnvironment ==
    ASSUME IInv, ClosedForReason, Environment
    PROVE  ClosedForReason'
<1>1. UNCHANGED <<owner, interest, clients, batch, pc, cur>>
  BY DEF Environment, PeerConnect, PeerSend, PeerRecv, PeerFin, PeerReset, Tick
<1>2. \A fd \in Fd : conn'[fd].state = conn[fd].state /\ conn'[fd].left = conn[fd].left
  <2>1. CASE Tick
    BY <2>1 DEF Tick, IInv, TypeOK, Connection
  <2>. QED  BY <2>1 DEF Environment, PeerConnect, PeerSend, PeerRecv, PeerFin, PeerReset
<1>. QED  BY <1>1, <1>2, NobodyReturns, ReasonOutside

(* Outside the handlers no answer is complete, and none is stuck.          *)
LEMMA NoneDone ==
    ASSUME ClosedForReason, pc \notin {"send", "close"}
    PROVE  \A fd \in clients :
              /\ interest[fd] = "OUT" => conn[fd].state = "WRITING_RESPONSE"
              /\ ~Delivered(fd)
              /\ ~(conn[fd].state = "WRITING_RESPONSE" /\ interest[fd] = "IN")
BY DEF ClosedForReason

LEMMA ReasonWait ==
    ASSUME IInv, ClosedForReason, EpollWait
    PROVE  ClosedForReason'
<1> USE DEF EpollWait
<1>1. \A fd \in ready : fd \in clients /\ owner[fd] \in Peer
  BY DEF IInv, TypeOK, TableAgrees
<1>2. ASSUME NEW e \in batch', e.kind = "hup"
      PROVE  HasReset(e.who)'
  BY <1>1, <1>2 DEF Revents, HasReset
<1>. QED  BY <1>2, NoneDone DEF ClosedForReason, Delivered

LEMMA ReasonDispatch ==
    ASSUME IInv, ClosedForReason, Dispatch
    PROVE  ClosedForReason'
<1>1. CASE HandleListener \/ EndBatch
  BY <1>1, NoneDone DEF HandleListener, EndBatch, ClosedForReason, Delivered, HasReset
<1>2. ASSUME NEW e \in batch, HandleHangup(e)
      PROVE  ClosedForReason'
  <2>1. owner[e.fd] = e.who /\ HasReset(e.who)
    BY <1>2 DEF HandleHangup, IInv, NoStaleEvent, ClosedForReason
  <2>. QED  BY <1>2, <2>1, NoneDone DEF HandleHangup, ClosedForReason, Delivered, HasReset
<1>3. ASSUME NEW e \in batch, NEW kind \in {"in", "out"}, NEW call \in {"recv", "send"},
             Handle(e, kind, call)
      PROVE  ClosedForReason'
  <2> USE <1>3 DEF Handle
  <2>1. e.fd \in clients /\ e.fd \in Fd
    BY EventIsOpen
  <2>2. \A fd \in Fd : conn'[fd].state = conn[fd].state /\ conn'[fd].left = conn[fd].left
    BY <2>1 DEF IInv, TypeOK, Connection
  <2>3. \A fd \in clients : fd \in Fd
    BY DEF IInv, TypeOK
  <2>. QED  BY <2>1, <2>2, <2>3, NoneDone DEF ClosedForReason, Delivered, HasReset
<1>. QED  BY <1>1, <1>2, <1>3 DEF Dispatch, HandleRead, HandleWrite

LEMMA ReasonAccept ==
    ASSUME IInv, ClosedForReason, Accept
    PROVE  ClosedForReason'
<1>1. CASE AcceptNothing
  BY <1>1, NoneDone DEF AcceptNothing, ClosedForReason, Delivered, HasReset
<1>2. ASSUME NEW p \in Peer, AcceptRefuse(p)
      PROVE  ClosedForReason'
  BY <1>2, NoneDone DEF AcceptRefuse, ClosedForReason, Delivered, HasReset
<1>3. ASSUME NEW p \in Peer, NEW fd \in Fd, AcceptClient(p, fd)
      PROVE  ClosedForReason'
  <2> USE <1>3 DEF AcceptClient
  <2>1. ASSUME NEW g \in clients'
        PROVE  /\ interest'[g] = "OUT" => conn'[g].state = "WRITING_RESPONSE"
               /\ conn'[g].state = "WRITING_RESPONSE" => g # fd /\ conn'[g].left # 0 /\ interest'[g] # "IN"
    <3>1. CASE g = fd
      BY <3>1 DEF IInv, TypeOK, Fresh
    <3>2. CASE g # fd
      <4>1. g \in clients /\ g \in Fd /\ conn'[g] = conn[g] /\ interest'[g] = interest[g]
        BY <3>2 DEF IInv, TypeOK
      <4>. QED  BY <3>2, <4>1, NoneDone DEF Delivered
    <3>. QED  BY <3>1, <3>2
  <2>. QED  BY <2>1 DEF ClosedForReason, Delivered, HasReset
<1>. QED  BY <1>1, <1>2, <1>3 DEF Accept

LEMMA ReasonRead ==
    ASSUME IInv, ClosedForReason, Read
    PROVE  ClosedForReason'
<1>1. CASE RecvWouldBlock
  BY <1>1, NoneDone DEF RecvWouldBlock, ClosedForReason, Delivered, HasReset
<1>2. CASE RecvEnd
  BY <1>2, NoneDone DEF RecvEnd, ClosedForReason, Delivered, HasReset
<1>3. ASSUME NEW n \in 1..ReqLen, RecvData(n)
      PROVE  ClosedForReason'
  <2> USE <1>3 DEF RecvData, AfterRecv
  <2>1. cur \in Fd /\ \A fd \in clients : fd \in Fd
    BY HandlerIsOpen DEF IInv, TypeOK
  <2>2. \A fd \in Fd : conn'[fd].state = conn[fd].state /\ conn'[fd].left = conn[fd].left
    BY <2>1 DEF IInv, TypeOK, Connection
  <2>3. pc' \in {"process", "recv"}
    OBVIOUS
  <2>. QED  BY <2>1, <2>2, <2>3, NoneDone DEF ClosedForReason, Delivered, HasReset
<1>. QED  BY <1>1, <1>2, <1>3 DEF Read

(* Where the handler writes it knows its connection by its registration.   *)
LEMMA WritesResponse ==
    ASSUME IInv, ClosedForReason, pc = "send"
    PROVE  /\ cur \in Fd /\ cur \in clients
           /\ interest[cur] = "OUT" /\ conn[cur].state = "WRITING_RESPONSE"
BY HandlerIsOpen DEF IInv, RightDirection, ClosedForReason

LEMMA ReasonWrite ==
    ASSUME IInv, ClosedForReason, Write, ~SendKilled
    PROVE  ClosedForReason'
<1>0. \A fd \in clients : fd \in Fd
  BY DEF IInv, TypeOK
<1>1. ASSUME NEW len \in 1..RespLen, Process(len)
      PROVE  ClosedForReason'
  <2> USE <1>1 DEF Process
  <2>1. cur \in Fd /\ cur \in clients
    BY HandlerIsOpen
  <2>2. \A fd \in clients : fd # cur => conn'[fd] = conn[fd] /\ interest'[fd] = interest[fd]
    BY <1>0 DEF IInv, TypeOK
  <2>3. /\ interest'[cur] = "OUT"
        /\ conn'[cur].state = "WRITING_RESPONSE" /\ conn'[cur].left = len
    BY <2>1 DEF IInv, TypeOK, Connection
  <2>. QED  BY <2>1, <2>2, <2>3, NoneDone DEF ClosedForReason, Delivered, HasReset
<1>2. ASSUME NEW len \in 1..RespLen, ProcessFails(len)
      PROVE  ClosedForReason'
  <2> USE <1>2 DEF ProcessFails
  <2>1. cur \in Fd /\ cur \in clients /\ owner[cur] \in Peer /\ interest[cur] = "IN"
    BY HandlerIsOpen DEF IInv, RightDirection
  <2>2. \A fd \in clients : fd # cur => conn'[fd] = conn[fd]
    BY <1>0 DEF IInv, TypeOK
  <2>3. conn'[cur].state = "WRITING_RESPONSE" /\ conn'[cur].left = len /\ len # 0
    BY <2>1 DEF IInv, TypeOK, Connection
  <2>4. owner'[cur] \in Undeliverable'
    BY <2>1, <2>3 DEF Undeliverable
  <2>. QED  BY <2>1, <2>2, <2>3, <2>4, NoneDone DEF ClosedForReason, Delivered, HasReset
<1>3. ASSUME NEW n \in 1..SndBuf, SendSome(n)
      PROVE  ClosedForReason'
  <2> USE <1>3 DEF SendSome
  <2>1. /\ cur \in Fd /\ cur \in clients
        /\ interest[cur] = "OUT" /\ conn[cur].state = "WRITING_RESPONSE"
    BY WritesResponse
  <2>2. \A fd \in clients : fd # cur => conn'[fd] = conn[fd]
    BY <1>0 DEF IInv, TypeOK
  <2>3. conn'[cur].state = "WRITING_RESPONSE"
    BY <2>1 DEF IInv, TypeOK, Connection
  <2>. QED  BY <2>1, <2>2, <2>3 DEF ClosedForReason, Delivered, HasReset
<1>4. CASE SendWouldBlock
  <2>1. ~Delivered(cur) /\ interest[cur] = "OUT" /\ cur \in clients
    BY <1>4, WritesResponse DEF SendWouldBlock, Delivered
  <2>2. \A fd \in clients : ~Delivered(fd) /\ (conn[fd].state = "WRITING_RESPONSE" => interest[fd] # "IN")
    BY <1>4, <2>1 DEF SendWouldBlock, ClosedForReason
  <2>. QED  BY <1>4, <2>1, <2>2 DEF SendWouldBlock, ClosedForReason, Delivered, HasReset
<1>5. CASE SendFails
  BY <1>5 DEF SendFails, ClosedForReason, Delivered, HasReset
<1>6. CASE SendDone
  <2>1. Delivered(cur)
    BY <1>6, WritesResponse DEF SendDone, AllWritten, Delivered
  <2>. QED  BY <1>6, <2>1 DEF SendDone, ClosedForReason, Delivered, HasReset
<1>. QED  BY <1>1, <1>2, <1>3, <1>4, <1>5, <1>6 DEF Write

(* After a close nothing is left that was done or stuck.                   *)
LEMMA ReasonRelease ==
    ASSUME IInv, ClosedForReason, NEW S \in SUBSET Fd, Release(S),
           pc \notin {"send", "close"} \/ cur \in S,
           batch' \subseteq batch, UNCHANGED leaving, pc' # "close"
    PROVE  ClosedForReason'
<1>1. ASSUME NEW fd \in clients'
      PROVE  /\ fd \in clients /\ fd \notin S
             /\ conn'[fd] = conn[fd] /\ interest'[fd] = interest[fd]
  BY DEF Release, KeysAfterClose, IInv, TypeOK
<1>2. ASSUME NEW fd \in clients, fd \notin S
      PROVE  /\ interest[fd] = "OUT" => conn[fd].state = "WRITING_RESPONSE"
             /\ ~Delivered(fd)
             /\ ~(conn[fd].state = "WRITING_RESPONSE" /\ interest[fd] = "IN")
  BY <1>2, NoneDone DEF ClosedForReason
<1>. QED  BY <1>1, <1>2 DEF ClosedForReason, Delivered, HasReset

LEMMA ReasonClose ==
    ASSUME IInv, ClosedForReason, CloseConnection \/ Cleanup
    PROVE  ClosedForReason'
<1>1. CASE CloseConnection
  BY <1>1, HandlerIsOpen, ReasonRelease DEF CloseConnection
<1>2. CASE Cleanup
  <2>1. PICK S \in SUBSET Fd : Release(S)
    <3>1. ExpiredFds \in SUBSET Fd
      BY DEF ExpiredFds, IInv, TypeOK
    <3>. QED  BY <1>2, <3>1 DEF Cleanup
  <2>. QED  BY <1>2, <2>1, ReasonRelease DEF Cleanup
<1>. QED  BY <1>1, <1>2

LEMMA ReasonEnd ==
    ASSUME IInv, ClosedForReason, NEW label \in {"stopped", "crashed", "killed"}, EndIn(label)
    PROVE  ClosedForReason'
<1>1. cur \in Fd \/ pc \notin {"send", "close"}
  BY HandlerIsOpen
<1>. QED  BY <1>1, ReasonRelease DEF EndIn

LEMMA ReasonNext ==
    ASSUME IInv, ClosedForReason, [Next]_vars
    PROVE  ClosedForReason'
<1>1. CASE Loop
  <2>1. CASE SendKilled
    BY <2>1, ReasonEnd DEF SendKilled
  <2>. QED  BY <1>1, <2>1, ReasonWait, ReasonAccept, ReasonDispatch, ReasonRead, ReasonWrite,
               ReasonClose DEF Loop
<1>2. CASE Stop
  BY <1>2, ReasonEnd DEF Stop
<1>3. CASE UNCHANGED vars
  <2>1. StillGone
    BY <1>3 DEF vars, StillGone, HasReset
  <2>. QED  BY <1>3, <2>1, ReasonOutside DEF vars
<1>. QED  BY <1>1, <1>2, <1>3, ReasonEnvironment DEF Next

(* Whenever the event loop closes a connection, the answer is delivered,   *)
(* the peer has left, or its response could not be registered for sending  *)
(* (server_epoll.cpp:172-190, 360).                                        *)
THEOREM ReasonsKept == Spec => []ClosedForReason
<1>1. Init => ClosedForReason
  BY DEF Init, ClosedForReason
<1>. QED  BY <1>1, ReasonNext, Invariant, PTL DEF Spec

-----------------------------------------------------------------------------
(* What the contract sees of the table.                                    *)

LEMMA SameCardinality == ASSUME NEW S PROVE Contract!Cardinality(S) = Cardinality(S)
BY Zenon DEF Contract!Cardinality, Cardinality

(* A peer is seen through the one descriptor of its connection.            *)
LEMMA SeenThroughFd ==
    ASSUME IInv, NEW fd \in clients
    PROVE  /\ fd \in Fd /\ owner[fd] \in Peer /\ phase[owner[fd]] = "open"
           /\ owner[fd] \in Answering <=> conn[fd].state = "WRITING_RESPONSE"
           /\ owner[fd] \in Silent <=> conn[fd].idle > ConnectionTimeout
           /\ owner[fd] \in Undeliverable
                 <=> conn[fd].state = "WRITING_RESPONSE" /\ interest[fd] = "IN"
<1>1. fd \in Fd /\ owner[fd] \in Peer
  BY DEF IInv, TypeOK, TableAgrees
<1>2. \A g \in Fd : owner[g] = owner[fd] => g = fd
  BY <1>1 DEF IInv, TypeOK, TableAgrees
<1>. QED  BY <1>1, <1>2 DEF Answering, Silent, Undeliverable, IInv, TableAgrees

LEMMA SeenThroughFdNext ==
    ASSUME IInv', NEW fd \in clients'
    PROVE  /\ fd \in Fd /\ owner'[fd] \in Peer /\ phase'[owner'[fd]] = "open"
           /\ owner'[fd] \in Answering' <=> conn'[fd].state = "WRITING_RESPONSE"
           /\ owner'[fd] \in Silent' <=> conn'[fd].idle > ConnectionTimeout
           /\ owner'[fd] \in Undeliverable'
                 <=> conn'[fd].state = "WRITING_RESPONSE" /\ interest'[fd] = "IN"
<1>1. fd \in Fd /\ owner'[fd] \in Peer
  BY DEF IInv, TypeOK, TableAgrees
<1>2. \A g \in Fd : owner'[g] = owner'[fd] => g = fd
  BY <1>1 DEF IInv, TypeOK, TableAgrees
<1>. QED  BY <1>1, <1>2 DEF Answering, Silent, Undeliverable, IInv, TableAgrees

LEMMA WhoHasFd ==
    ASSUME IInv, NEW p \in Peer
    PROVE  /\ phase[p] = "open" => \E fd \in clients : owner[fd] = p
           /\ phase[p] # "open" => /\ \A fd \in Fd : owner[fd] # p
                                   /\ p \notin Answering \cup Silent \cup Undeliverable
BY DEF IInv, TypeOK, TableAgrees, Answering, Silent, Undeliverable

LEMMA WhoHasFdNext ==
    ASSUME IInv', NEW p \in Peer
    PROVE  /\ phase'[p] = "open" => \E fd \in clients' : owner'[fd] = p
           /\ phase'[p] # "open" => /\ \A fd \in Fd : owner'[fd] # p
                                    /\ p \notin Answering' \cup Silent' \cup Undeliverable'
BY DEF IInv, TypeOK, TableAgrees, Answering, Silent, Undeliverable

LEMMA ServedAreOpen ==
    ASSUME TypeOK
    PROVE  Contract!Served = {p \in Peer : phase[p] = "open"}
BY DEF TypeOK, Phase, Contract!Served, ContractStatus

(* There are as many of them as keys in the map.                           *)
LEMMA ServedAreCounted ==
    ASSUME IInv
    PROVE  Cardinality(Contract!Served) = Cardinality(clients)
<1> DEFINE f == [fd \in clients |-> owner[fd]]
<1>1. IsFiniteSet(clients)
  BY FS_Subset DEF IInv, TypeOK
<1>2. f \in [clients -> Contract!Served]
  BY SeenThroughFd, ServedAreOpen DEF IInv
<1>3. \A g, h \in clients : f[g] = f[h] => g = h
  BY DEF IInv, TableAgrees
<1>4. \A p \in Contract!Served : \E fd \in clients : f[fd] = p
  BY WhoHasFd, ServedAreOpen DEF IInv
<1>5. f \in Bijection(clients, Contract!Served)
  BY <1>2, <1>3, <1>4 DEF Bijection, Injection, Surjection, IsInjective
<1>6. ExistsBijection(clients, Contract!Served)
  BY <1>5 DEF ExistsBijection
<1>. QED  BY <1>1, <1>6, FS_Bijection

LEMMA NothingSeen ==
    ASSUME UNCHANGED <<phase, todo, leaving, Answering, Silent, Undeliverable>>,
           Ended' = Ended
    PROVE  UNCHANGED Contract!vars
BY DEF Contract!vars, ContractStatus

LEMMA LooksTheSame ==
    ASSUME UNCHANGED <<owner, interest>>,
           \A fd \in Fd : /\ conn'[fd].state = conn[fd].state
                          /\ conn'[fd].idle = conn[fd].idle
    PROVE  UNCHANGED <<Answering, Silent, Undeliverable>>
BY DEF Answering, Silent, Undeliverable

LEMMA ContractInit == ASSUME Init PROVE Contract!Init
BY DEF Init, Contract!Init, ContractStatus, Answering, Silent, Undeliverable, Ended, Fresh

-----------------------------------------------------------------------------
(* The steps.                                                              *)

LEMMA EnvironmentContract ==
    ASSUME IInv, IInv', Environment
    PROVE  Contract!Next \/ UNCHANGED Contract!vars
<1> USE DEF IInv, TypeOK
<1>0. Ended' = Ended
  BY DEF Environment, PeerConnect, PeerSend, PeerRecv, PeerFin, PeerReset, Tick, Ended
<1>1. ASSUME NEW p \in Peer, PeerConnect(p)
      PROVE  Contract!Next
  <2> USE <1>1 DEF PeerConnect
  <2>1. UNCHANGED <<Answering, Silent, Undeliverable>>
    BY LooksTheSame
  <2>2. ContractStatus' = [ContractStatus EXCEPT ![p] = "queued"] /\ ContractStatus[p] = "away"
    BY <2>1 DEF ContractStatus
  <2>3. Contract!Connect(p)
    BY <1>0, <2>1, <2>2 DEF Contract!Connect
  <2>. QED  BY <2>3 DEF Contract!Next
<1>2. ASSUME NEW p \in Peer, PeerSend(p)
      PROVE  Contract!Next \/ UNCHANGED Contract!vars
  <2> USE <1>2 DEF PeerSend
  <2>1. UNCHANGED <<Answering, Silent, Undeliverable>>
    BY LooksTheSame
  <2>2. ContractStatus' = ContractStatus
    BY <2>1 DEF ContractStatus
  <2>3. CASE todo[p] = 1
    <3>1. {q \in Peer : todo'[q] = 0} = {q \in Peer : todo[q] = 0} \cup {p}
      BY <2>3
    <3>2. Contract!Ask(p)
      BY <1>0, <2>1, <2>2, <3>1 DEF Contract!Ask
    <3>. QED  BY <3>2 DEF Contract!Next
  <2>4. CASE todo[p] # 1
    <3>1. {q \in Peer : todo'[q] = 0} = {q \in Peer : todo[q] = 0}
      BY <2>4
    <3>. QED  BY <1>0, <2>1, <2>2, <3>1 DEF Contract!vars
  <2>. QED  BY <2>3, <2>4
<1>3. ASSUME NEW p \in Peer, PeerRecv(p)
      PROVE  UNCHANGED Contract!vars
  BY <1>0, <1>3, LooksTheSame, NothingSeen DEF PeerRecv
<1>4. ASSUME NEW p \in Peer, PeerFin(p) \/ PeerReset(p)
      PROVE  Contract!Next
  <2> USE <1>4 DEF PeerFin, PeerReset
  <2>1. UNCHANGED <<Answering, Silent, Undeliverable>>
    BY LooksTheSame
  <2>2. ContractStatus' = ContractStatus
    BY <2>1 DEF ContractStatus
  <2>3. {q \in Peer : leaving'[q] # "stay"} = {q \in Peer : leaving[q] # "stay"} \cup {p}
    OBVIOUS
  <2>4. Contract!Leave(p)
    BY <1>0, <2>1, <2>2, <2>3 DEF Contract!Leave
  <2>. QED  BY <2>4 DEF Contract!Next
<1>5. CASE Tick
  <2> USE <1>5 DEF Tick
  <2>1. \A fd \in Fd : /\ conn'[fd].state = conn[fd].state
                       /\ conn[fd].idle > ConnectionTimeout => conn'[fd].idle > ConnectionTimeout
    BY DEF Connection
  <2>2. UNCHANGED <<Answering, Undeliverable>> /\ Silent \subseteq Silent'
    BY <2>1 DEF Answering, Undeliverable, Silent
  <2>3. ContractStatus' = ContractStatus
    BY <2>2 DEF ContractStatus
  <2>4. Silent' \subseteq Contract!Served
    BY WhoHasFdNext, ServedAreOpen DEF Silent
  <2>5. Contract!Age(Silent')
    BY <1>0, <2>2, <2>3, <2>4 DEF Contract!Age
  <2>6. Silent' \in SUBSET Peer
    BY DEF Silent
  <2>. QED  BY <2>5, <2>6 DEF Contract!Next
<1>. QED  BY <1>1, <1>2, <1>3, <1>4, <1>5 DEF Environment

(* The calls that only lead to the next one.                               *)
LEMMA QuietContract ==
    ASSUME IInv,
           \/ EpollWait \/ HandleListener \/ EndBatch \/ AcceptNothing
           \/ RecvWouldBlock \/ RecvEnd \/ SendWouldBlock \/ SendFails \/ SendDone
           \/ \E e \in batch : HandleHangup(e)
    PROVE  UNCHANGED Contract!vars
<1>1. UNCHANGED <<phase, todo, leaving, owner, interest, conn>> /\ Ended' = Ended
  BY DEF EpollWait, HandleListener, EndBatch, AcceptNothing, RecvWouldBlock, RecvEnd,
         SendWouldBlock, SendFails, SendDone, HandleHangup, Ended
<1>. QED  BY <1>1, LooksTheSame, NothingSeen

(* Reading, and writing what has been written before, is not seen either.  *)
LEMMA TransferContract ==
    ASSUME IInv, (\E n \in 1..ReqLen : RecvData(n)) \/ (\E n \in 1..SndBuf : SendSome(n))
    PROVE  UNCHANGED Contract!vars
<1>1. cur \in Fd
  BY HandlerIsOpen DEF RecvData, SendSome
<1>2. UNCHANGED <<phase, todo, leaving, owner, interest>> /\ Ended' = Ended
  BY DEF RecvData, SendSome, AfterRecv, Ended
<1>3. \A fd \in Fd : conn'[fd].state = conn[fd].state /\ conn'[fd].idle = conn[fd].idle
  BY <1>1 DEF RecvData, SendSome, IInv, TypeOK, Connection
<1>. QED  BY <1>2, <1>3, LooksTheSame, NothingSeen

(* The first call of a handler marks the activity of its connection.       *)
LEMMA HandleContract ==
    ASSUME IInv, IInv', NEW e \in batch, NEW kind \in {"in", "out"},
           NEW call \in {"recv", "send"}, Handle(e, kind, call)
    PROVE  Contract!Next
<1> DEFINE p == owner[e.fd]
<1> USE DEF Handle
<1>1. e.fd \in clients /\ e.fd \in Fd /\ p \in Peer /\ phase[p] = "open"
  BY EventIsOpen, SeenThroughFd
<1>2. UNCHANGED <<phase, todo, leaving, owner, interest, clients>> /\ ~Ended /\ ~Ended'
  BY <1>1 DEF Ended
<1>3. /\ \A fd \in Fd : conn'[fd].state = conn[fd].state
      /\ \A fd \in Fd : fd # e.fd => conn'[fd].idle = conn[fd].idle
      /\ conn'[e.fd].idle = 0
  BY <1>1 DEF IInv, TypeOK, Connection
<1>4. UNCHANGED <<Answering, Undeliverable>>
  BY <1>2, <1>3 DEF Answering, Undeliverable
<1>5. ContractStatus' = ContractStatus
  BY <1>2, <1>4 DEF ContractStatus
<1>6. Silent' = Silent \ {p}
  <2>1. \A fd \in Fd : owner[fd] = p <=> fd = e.fd
    BY <1>1 DEF IInv, TypeOK, TableAgrees
  <2>2. ~(conn'[e.fd].idle > ConnectionTimeout)
    BY <1>3
  <2>. QED  BY <1>2, <1>3, <2>1, <2>2 DEF Silent
<1>7. Contract!Touch(p)
  BY <1>1, <1>2, <1>4, <1>5, <1>6, ServedAreOpen DEF Contract!Touch, IInv
<1>. QED  BY <1>1, <1>7 DEF Contract!Next

LEMMA AcceptContract ==
    ASSUME IInv, IInv', Accept, ~AcceptNothing
    PROVE  Contract!Next
<1>0. ~Ended /\ ~Ended'
  BY DEF Accept, AcceptClient, AcceptRefuse, Ended
<1>1. ASSUME NEW p \in Peer, NEW fd \in Fd, AcceptClient(p, fd)
      PROVE  Contract!Next
  <2> USE <1>1 DEF AcceptClient, IInv, TypeOK
  <2>1. \A g \in Fd : /\ g # fd => owner'[g] = owner[g] /\ conn'[g] = conn[g]
                                   /\ interest'[g] = interest[g]
                      /\ g = fd => owner[g] = NoPeer /\ owner'[g] = p
                                   /\ conn'[g].state = "READING_REQUEST" /\ conn'[g].idle = 0
    BY DEF FreeFds, Fresh
  <2>2. ~(0 > ConnectionTimeout)
    OBVIOUS
  <2>3. UNCHANGED <<Answering, Silent, Undeliverable>>
    BY <2>1, <2>2 DEF Answering, Silent, Undeliverable
  <2>4. phase[p] = "queued" /\ p \notin Answering
    BY WhoHasFd DEF Queued
  <2>5. ContractStatus' = [ContractStatus EXCEPT ![p] = "reading"] /\ ContractStatus[p] = "queued"
    <3>1. phase' = [phase EXCEPT ![p] = "open"] /\ phase \in [Peer -> Phase]
      OBVIOUS
    <3> HIDE DEF AcceptClient, IInv, TypeOK
    <3>. QED  BY <2>3, <2>4, <3>1 DEF ContractStatus
  <2>6. Cardinality(Contract!Served) < MaxConnections
    <3>1. IsFiniteSet(clients)
      BY FS_Subset
    <3>. QED  BY <3>1, ServedAreCounted, FS_CardinalityType DEF AtLimit
  <2>7. Contract!Admit(p)
    BY <1>0, <2>3, <2>5, <2>6, SameCardinality DEF Contract!Admit
  <2>. QED  BY <2>7 DEF Contract!Next
<1>2. ASSUME NEW p \in Peer, AcceptRefuse(p)
      PROVE  Contract!Next
  <2> USE <1>2 DEF AcceptRefuse, IInv, TypeOK
  <2>1. UNCHANGED <<Answering, Silent, Undeliverable>>
    BY LooksTheSame
  <2>2. ContractStatus' = [ContractStatus EXCEPT ![p] = "refused"] /\ ContractStatus[p] = "queued"
    BY <2>1 DEF ContractStatus, Queued
  <2>3. Cardinality(Contract!Served) >= MaxConnections \/ Faults
    BY ServedAreCounted DEF AtLimit
  <2>4. Contract!Refuse(p)
    BY <1>0, <2>1, <2>2, <2>3, SameCardinality DEF Contract!Refuse
  <2>. QED  BY <2>4 DEF Contract!Next
<1>. QED  BY <1>1, <1>2 DEF Accept

(* The request is complete, so its peer has nothing left to send.          *)
LEMMA ProcessContract ==
    ASSUME IInv, IInv', ClosedForReason, NEW len \in 1..RespLen,
           Process(len) \/ ProcessFails(len)
    PROVE  Contract!Next
<1> DEFINE p == owner[cur]
<1> USE DEF Process, ProcessFails
<1>1. /\ cur \in clients /\ cur \in Fd /\ p \in Peer /\ phase[p] = "open"
      /\ pc = "process" /\ ~Ended /\ ~Ended'
  BY HandlerIsOpen, SeenThroughFd DEF Ended
<1>2. todo[p] = 0
  <2>1. todo[p] + inbox[p] + conn[cur].got = ReqLen /\ conn[cur].got = ReqLen
    BY <1>1 DEF IInv, RequestIntact, HandlerRuns
  <2>2. todo[p] \in Nat /\ inbox[p] \in Nat
    BY <1>1 DEF IInv, TypeOK
  <2>. QED  BY <2>1, <2>2
<1>3. conn[cur].state # "WRITING_RESPONSE"
  BY <1>1 DEF ClosedForReason, IInv, RightDirection
<1>4. UNCHANGED <<phase, todo, leaving, owner, clients>>
  OBVIOUS
<1>5. /\ \A fd \in Fd : fd # cur => conn'[fd] = conn[fd] /\ interest'[fd] = interest[fd]
      /\ conn'[cur].state = "WRITING_RESPONSE"
      /\ conn'[cur].idle \in {0, conn[cur].idle}
  <2>1. CASE Process(len)
    BY <1>1, <2>1 DEF IInv, TypeOK, Connection
  <2>2. CASE ProcessFails(len)
    BY <1>1, <2>2 DEF IInv, TypeOK, Connection
  <2>. QED  BY <2>1, <2>2
<1>6. \A fd \in Fd : owner[fd] = p <=> fd = cur
  BY <1>1 DEF IInv, TypeOK, TableAgrees
<1>7. Answering' = Answering \cup {p} /\ p \notin Answering
  BY <1>1, <1>3, <1>4, <1>5, <1>6 DEF Answering
<1>8. ContractStatus[p] = "reading" /\ ContractStatus' = [ContractStatus EXCEPT ![p] = "answering"]
  BY <1>1, <1>4, <1>7 DEF ContractStatus
<1>9. Silent' \in {Silent, Silent \ {p}}
  <2>1. CASE conn'[cur].idle = 0
    <3>1. ~(conn'[cur].idle > ConnectionTimeout)
      BY <2>1
    <3>2. Silent' = Silent \ {p}
      BY <1>4, <1>5, <1>6, <3>1 DEF Silent
    <3>. QED  BY <3>2
  <2>2. CASE conn'[cur].idle = conn[cur].idle
    <3>1. Silent' = Silent
      BY <1>4, <1>5, <2>2 DEF Silent
    <3>. QED  BY <3>1
  <2>. QED  BY <1>5, <2>1, <2>2
<1>10. Undeliverable' = Undeliverable \/ (Faults /\ Undeliverable' = Undeliverable \cup {p})
  <2>1. p \notin Undeliverable
    BY <1>7 DEF Undeliverable, Answering
  <2>2. CASE interest'[cur] = "IN" /\ Faults
    <3>1. Undeliverable' = Undeliverable \cup {p}
      BY <1>1, <1>4, <1>5, <1>6, <2>2 DEF Undeliverable
    <3>. QED  BY <2>2, <3>1
  <2>3. CASE interest'[cur] = "OUT"
    <3>1. Undeliverable' = Undeliverable
      BY <1>4, <1>5, <1>6, <2>1, <2>3 DEF Undeliverable
    <3>. QED  BY <3>1
  <2>4. interest'[cur] = "OUT" \/ (interest'[cur] = "IN" /\ Faults)
    BY <1>1 DEF IInv, TypeOK, RightDirection
  <2>. QED  BY <2>2, <2>3, <2>4
<1>11. Contract!Process(p)
  BY <1>1, <1>2, <1>4, <1>8, <1>9, <1>10 DEF Contract!Process
<1>. QED  BY <1>1, <1>11 DEF Contract!Next

(* Closing descriptors takes their owners out of sight.                    *)
LEMMA ReleaseSeen ==
    ASSUME IInv, NEW S \in SUBSET Fd, Release(S)
    PROVE  /\ Answering' = Answering \ OwnersIn(S)
           /\ Silent' = Silent \ OwnersIn(S)
           /\ Undeliverable' = Undeliverable \ OwnersIn(S)
<1>1. \A fd \in Fd : IF fd \in S THEN owner'[fd] = NoPeer
                     ELSE /\ owner'[fd] = owner[fd] /\ conn'[fd] = conn[fd]
                          /\ interest'[fd] = interest[fd]
  BY DEF Release
<1>2. \A p \in Peer : p \in OwnersIn(S) <=> \E fd \in S : owner[fd] = p
  BY DEF OwnersIn
<1>3. \A p \in Peer : \A fd, g \in Fd : owner[fd] = p /\ owner[g] = p => fd = g
  BY DEF IInv, TypeOK, TableAgrees
<1>4. \A p \in Peer : \A fd \in Fd :
          owner'[fd] = p <=> owner[fd] = p /\ p \notin OwnersIn(S)
  BY <1>1, <1>2, <1>3
<1>. QED  BY <1>1, <1>4 DEF Answering, Silent, Undeliverable

LEMMA OwnersAreServed ==
    ASSUME IInv, NEW S \in SUBSET Fd
    PROVE  /\ OwnersIn(S) \subseteq Contract!Served
           /\ OwnersIn(S) \in SUBSET Peer
BY ServedAreOpen DEF IInv, TypeOK, TableAgrees, OwnersIn

LEMMA CloseContract ==
    ASSUME IInv, ClosedForReason, CloseConnection
    PROVE  Contract!Next
<1> DEFINE p == owner[cur]
<1> USE DEF CloseConnection
<1>1. /\ cur \in clients /\ cur \in Fd /\ p \in Peer /\ phase[p] = "open"
      /\ p \in Answering <=> conn[cur].state = "WRITING_RESPONSE"
      /\ p \in Undeliverable <=> conn[cur].state = "WRITING_RESPONSE" /\ interest[cur] = "IN"
      /\ pc = "close" /\ ~Ended /\ ~Ended'
  BY HandlerIsOpen, SeenThroughFd DEF Ended
<1>2. OwnersIn({cur}) = {p}
  BY <1>1 DEF OwnersIn
<1>3. /\ Answering' = Answering \ {p}
      /\ Silent' = Silent \ {p}
      /\ Undeliverable' = Undeliverable \ {p}
  BY <1>1, <1>2, ReleaseSeen
<1>4. CASE Delivered(cur)
  <2>1. phase' = [phase EXCEPT ![p] = "answered"]
    <3>1. {fd \in {cur} : Delivered(fd)} = {cur}
      BY <1>4
    <3>. QED  BY <1>1, <1>2, <3>1 DEF PhaseAfterClose, IInv, TypeOK
  <2>2. p \in Answering /\ p \notin Undeliverable
    BY <1>1, <1>4 DEF Delivered, ClosedForReason
  <2>3. ContractStatus[p] = "answering" /\ ContractStatus' = [ContractStatus EXCEPT ![p] = "answered"]
    <3>1. phase \in [Peer -> Phase]
      BY DEF IInv, TypeOK
    <3>2. p \notin Answering'
      BY <1>3
    <3>3. \A q \in Peer \ {p} : q \in Answering' <=> q \in Answering
      BY <1>3
    <3> HIDE DEF CloseConnection, p
    <3>4. ContractStatus[p] = "answering"
      BY <1>1, <2>2 DEF ContractStatus
    <3>5. ContractStatus' = [ContractStatus EXCEPT ![p] = "answered"]
      BY <1>1, <2>1, <3>1, <3>2, <3>3 DEF ContractStatus
    <3>. QED  BY <3>4, <3>5
  <2>4. Contract!Answer(p)
    BY <1>1, <1>3, <2>2, <2>3 DEF Contract!Answer
  <2>. QED  BY <1>1, <2>4 DEF Contract!Next
<1>5. CASE ~Delivered(cur)
  <2>1. phase' = [phase EXCEPT ![p] = "dropped"]
    <3>1. {fd \in {cur} : Delivered(fd)} = {}
      BY <1>5
    <3>2. OwnersIn({}) = {}
      BY DEF OwnersIn
    <3>. QED  BY <1>1, <1>2, <3>1, <3>2 DEF PhaseAfterClose, IInv, TypeOK
  <2>2. leaving[p] # "stay" \/ p \in Undeliverable
    BY <1>1, <1>5 DEF ClosedForReason
  <2>3. ContractStatus' = [q \in Peer |-> IF q \in {p} THEN "dropped" ELSE ContractStatus[q]]
    BY <1>1, <1>3, <2>1 DEF ContractStatus, IInv, TypeOK
  <2>4. {p} \subseteq Contract!Served
    BY <1>1, ServedAreOpen DEF IInv
  <2>5. Contract!Drop({p})
    BY <1>1, <1>3, <2>2, <2>3, <2>4 DEF Contract!Drop
  <2>. QED  BY <1>1, <2>5 DEF Contract!Next
<1>. QED  BY <1>4, <1>5

LEMMA CleanupContract ==
    ASSUME IInv, ClosedForReason, Cleanup
    PROVE  Contract!Next
<1> DEFINE S == IF sinceCleanup >= CleanupPeriod THEN ExpiredFds ELSE {}
<1>1. /\ Release(S) /\ phase' = PhaseAfterClose(S)
      /\ UNCHANGED <<todo, leaving>>
      /\ pc = "clean" /\ ~Ended /\ ~Ended'
  BY DEF Cleanup, Ended
<1>2. S \in SUBSET Fd /\ S \subseteq clients
  BY DEF ExpiredFds, IInv, TypeOK
<1>3. \A fd \in S : ~Delivered(fd) /\ owner[fd] \in Silent
  BY <1>1, <1>2, NoneDone, SeenThroughFd DEF ExpiredFds, Expired
<1> HIDE DEF S
<1>4. {fd \in S : Delivered(fd)} = {} /\ OwnersIn({}) = {}
  BY <1>3 DEF OwnersIn
<1>5. \A p \in Peer : phase'[p] = IF p \in OwnersIn(S) THEN "dropped" ELSE phase[p]
  BY <1>1, <1>4 DEF PhaseAfterClose
<1>6. /\ Answering' = Answering \ OwnersIn(S)
      /\ Silent' = Silent \ OwnersIn(S)
      /\ Undeliverable' = Undeliverable \ OwnersIn(S)
  BY <1>1, <1>2, ReleaseSeen
<1>7. ContractStatus' = [p \in Peer |-> IF p \in OwnersIn(S) THEN "dropped" ELSE ContractStatus[p]]
  BY <1>5, <1>6 DEF ContractStatus
<1>8. OwnersIn(S) \subseteq Silent
  BY <1>3 DEF OwnersIn
<1>9. Contract!Drop(OwnersIn(S))
  BY <1>1, <1>2, <1>6, <1>7, <1>8, OwnersAreServed DEF Contract!Drop
<1>. QED  BY <1>2, <1>9, OwnersAreServed DEF Contract!Next

LEMMA EndContract ==
    ASSUME IInv, ~Ended, NEW label \in {"stopped", "crashed", "killed"}, EndIn(label)
    PROVE  Contract!Next
<1> DEFINE D == {fd \in Fd : Delivered(fd)}
           Done == OwnersIn(D)
<1> USE DEF EndIn
<1>1. Ended'
  BY DEF Ended
<1>2. D \in SUBSET Fd
  OBVIOUS
<1>3. OwnersIn(Fd) = Contract!Served
  BY ServedAreOpen, OwnersAreServed DEF IInv, TypeOK, TableAgrees, OwnersIn
<1>4. Done \in SUBSET Peer /\ Done \subseteq Contract!Served
  BY <1>2, OwnersAreServed
<1>5. Done \subseteq Answering
  BY <1>4 DEF OwnersIn, Answering, Delivered
<1>6. Done \subseteq {p \in Peer : ContractStatus[p] = "answering"}
  BY <1>4, <1>5, ServedAreOpen DEF ContractStatus, IInv
<1>7. Answering' = {} /\ Silent' = {} /\ Undeliverable' = {}
  <2>1. Answering \cup Silent \cup Undeliverable \subseteq OwnersIn(Fd)
    BY DEF Answering, Silent, Undeliverable, OwnersIn
  <2>. QED  BY <2>1, ReleaseSeen
<1>8. \A p \in Peer : phase'[p] = IF phase[p] = "queued" THEN "refused"
                                  ELSE IF p \in Done THEN "answered"
                                  ELSE IF p \in OwnersIn(Fd) THEN "dropped"
                                  ELSE phase[p]
  BY DEF PhaseAfterClose
<1> HIDE DEF EndIn, D
<1>9. ContractStatus' = [p \in Peer |->
                            IF p \in Done THEN "answered"
                            ELSE IF p \in Contract!Served THEN "dropped"
                            ELSE IF ContractStatus[p] = "queued" THEN "refused"
                            ELSE ContractStatus[p]]
  <2>1. \A p \in Peer : p \in Contract!Served <=> phase[p] = "open"
    BY ServedAreOpen DEF IInv
  <2>2. \A p \in Peer : phase'[p] # "open"
    BY <1>3, <1>8, <2>1
  <2>. QED  BY <1>3, <1>4, <1>8, <2>1, <2>2 DEF ContractStatus
<1>10. Contract!End(Done)
  BY <1>1, <1>6, <1>7, <1>9 DEF Contract!End, EndIn
<1>. QED  BY <1>4, <1>10 DEF Contract!Next

-----------------------------------------------------------------------------
LEMMA LoopContract ==
    ASSUME IInv, IInv', ClosedForReason, Loop
    PROVE  Contract!Next \/ UNCHANGED Contract!vars
<1>1. CASE EpollWait \/ Dispatch
  BY <1>1, QuietContract, HandleContract DEF Dispatch, HandleRead, HandleWrite
<1>2. CASE Accept
  BY <1>2, QuietContract, AcceptContract
<1>3. CASE Read
  BY <1>3, QuietContract, TransferContract DEF Read
<1>4. CASE SendKilled
  BY <1>4, EndContract DEF SendKilled, Ended
<1>5. CASE Write /\ ~SendKilled
  BY <1>5, QuietContract, TransferContract, ProcessContract DEF Write
<1>. QED  BY <1>1, <1>2, <1>3, <1>4, <1>5, CloseContract, CleanupContract DEF Loop

(* EpollServer keeps the contract of IServer for any number of peers and   *)
(* descriptors: a peer is admitted under the limit and refused at it,      *)
(* answered only after its whole request, and dropped only if it left, was *)
(* silent for longer than the timeout, or a call on its connection failed, *)
(* unless the server ends.                                                 *)
THEOREM EpollKeepsContract == Spec => KeepsContract
<1>1. Init => Contract!Init
  BY ContractInit
<1>2. IInv /\ IInv' /\ ClosedForReason /\ [Next]_vars => [Contract!Next]_(Contract!vars)
  <2> SUFFICES ASSUME IInv, IInv', ClosedForReason, [Next]_vars
               PROVE  Contract!Next \/ UNCHANGED Contract!vars
    OBVIOUS
  <2>1. CASE UNCHANGED vars
    BY <2>1, LooksTheSame, NothingSeen DEF vars, Ended
  <2>2. CASE Stop
    BY <2>2, EndContract DEF Stop
  <2>. QED  BY <2>1, <2>2, LoopContract, EnvironmentContract DEF Next
<1>. QED  BY <1>1, <1>2, Invariant, ReasonsKept, PTL DEF Spec, KeepsContract, Contract!Spec

===============================================================================
