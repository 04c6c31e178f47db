------------------------ MODULE ThreadedServer_proofs -------------------------
(***************************************************************************)
(* The counter, the joins of stop() and the contract of ThreadedServer,    *)
(* for any number of clients and any limit. The invariant IInv is proved   *)
(* by one lemma for each kind of step, and every step is then shown to be  *)
(* one of ConnectionContract or to change nothing that it sees.            *)
(***************************************************************************)
EXTENDS ThreadedServer, FiniteSetTheorems, TLAPS

USE ThreadedAssumption DEF peerVars, stopVars

-----------------------------------------------------------------------------
(* The counter and the set it counts.                                      *)

LEMMA InsideFinite == IsFiniteSet(Inside) /\ Cardinality(Inside) \in Nat
<1>1. Inside \subseteq Peer
  BY DEF Inside
<1>. QED  BY <1>1, FS_Subset, FS_CardinalityType

(* Steps that leave the counted set as it is.                              *)
LEMMA StillCounted ==
    ASSUME LimitKept, Inside' = Inside, current' = current, Up' => Up
    PROVE  LimitKept'
BY DEF LimitKept

LEMMA OneMore ==
    ASSUME NEW p \in Peer \ Inside, Inside' = Inside \cup {p}
    PROVE  Cardinality(Inside') = Cardinality(Inside) + 1
BY InsideFinite, FS_AddElement

LEMMA OneLess ==
    ASSUME NEW p \in Inside, Inside' = Inside \ {p}
    PROVE  Cardinality(Inside') = Cardinality(Inside) - 1
BY InsideFinite, FS_RemoveElement

-----------------------------------------------------------------------------
LEMMA InitInvariant == ASSUME Init PROVE IInv
<1> USE DEF Init
<1>1. TypeOK /\ HoldsOne /\ StopSoFar /\ StopIsClean /\ HeardFirst
  BY DEF TypeOK, Place, HoldsOne, StopSoFar, StopIsClean, HeardFirst, Queued, Inside
<1>2. Inside = {}
  BY DEF Inside
<1>3. LimitKept
  BY <1>2, FS_EmptySet DEF LimitKept
<1>. QED  BY <1>1, <1>2, <1>3 DEF IInv

(* The peers change neither the counted set nor what the threads hold.     *)
LEMMA PeerStep ==
    ASSUME IInv, NEW p \in Peer, PeerConnect(p) \/ PeerAsk(p) \/ PeerLeave(p)
    PROVE  IInv'
<1> USE DEF IInv, PeerConnect, PeerAsk, PeerLeave
<1>1. TypeOK'
  BY DEF TypeOK, Place
<1>2. Inside' = Inside
  BY DEF TypeOK, Inside
<1>3. LimitKept' /\ (Up' => Inside' \subseteq threads')
  BY <1>2, StillCounted DEF Up
<1>4. HoldsOne' /\ StopIsClean'
  BY <1>2 DEF TypeOK, HoldsOne, StopIsClean, Up
<1>5. StopSoFar'
  BY <1>2 DEF TypeOK, StopSoFar, Queued, Up, Listening
<1>6. HeardFirst'
  BY DEF TypeOK, HeardFirst
<1>. QED  BY <1>1, <1>2, <1>3, <1>4, <1>5, <1>6

LEMMA AcceptLoopStep ==
    ASSUME IInv, AcceptLoop
    PROVE  IInv'
<1> USE DEF IInv, Moves
<1>0. stopper # "dead"
  BY DEF AcceptLoop, TestRunning, CallAccept, AcceptFails, WithinLimit, Accept, Refuse, Spawn,
         StopSoFar
<1>1. CASE TestRunning \/ CallAccept \/ WithinLimit
  <2> USE DEF TestRunning, CallAccept, WithinLimit
  <2>1. TypeOK'
    BY <1>1 DEF TypeOK
  <2>2. Inside' = Inside /\ Queued' = Queued
    BY <1>1 DEF Inside, Queued
  <2>3. LimitKept'
    BY <1>1, <2>2, StillCounted DEF Up
  <2>4. HoldsOne'
    <3>1. CASE WithinLimit
      <4>1. current < MaxConnections
        BY <3>1 DEF TypeOK, AtLimit
      <4>. QED  BY <3>1, <4>1 DEF HoldsOne
    <3>2. CASE TestRunning \/ CallAccept
      BY <3>2 DEF HoldsOne
    <3>. QED  BY <1>1, <3>1, <3>2
  <2>5. StopIsClean' /\ StopSoFar'
    BY <1>0, <1>1, <2>2 DEF TypeOK, StopIsClean, StopSoFar
  <2>. QED  BY <1>1, <2>1, <2>2, <2>3, <2>4, <2>5 DEF Up, HeardFirst
<1>2. ASSUME NEW p \in Peer, Accept(p) \/ Refuse(p)
      PROVE  IInv'
  <2> USE <1>2 DEF Accept, Refuse
  <2>1. TypeOK'
    BY DEF TypeOK, Place, TurnedAway
  <2>2. Inside' = Inside
    BY DEF TypeOK, Inside, Queued, TurnedAway
  <2>3. LimitKept'
    BY <2>2, StillCounted DEF Up
  <2>4. HoldsOne'
    <3>1. CASE Accept(p)
      <4>1. \A q \in Peer : client'[q] = "accepted" <=> q = p
        BY <3>1 DEF TypeOK, HoldsOne, TurnedAway
      <4>. QED  BY <3>1, <4>1 DEF HoldsOne
    <3>2. CASE Refuse(p)
      <4>1. \A q \in Peer : client'[q] # "accepted"
        BY <3>2 DEF TypeOK, HoldsOne
      <4>. QED  BY <3>2, <4>1 DEF HoldsOne
    <3>. QED  BY <3>1, <3>2
  <2>5. StopIsClean'
    BY DEF StopIsClean
  <2>6. closed => Queued' = {}
    <3>1. CASE Accept(p)
      BY <3>1 DEF TypeOK, Queued, TurnedAway
    <3>2. CASE Refuse(p)
      <4>1. Queued' = Queued
        BY <3>2 DEF TypeOK, Queued
      <4>. QED  BY <3>2, <4>1 DEF StopSoFar
    <3>. QED  BY <3>1, <3>2
  <2>7. StopSoFar'
    BY <1>0, <2>6 DEF StopSoFar
  <2>8. HeardFirst'
    BY DEF TypeOK, HeardFirst, TurnedAway, Queued
  <2>. QED  BY <2>1, <2>2, <2>3, <2>4, <2>5, <2>7, <2>8 DEF Up
<1>3. ASSUME NEW p \in Peer, Spawn(p)
      PROVE  IInv'
  <2> USE <1>3 DEF Spawn
  <2>1. TypeOK'
    BY DEF TypeOK, Place
  <2>2. Inside' = Inside \cup {p} /\ p \notin Inside
    BY DEF TypeOK, Inside
  <2>3. Up /\ Up'
    BY <1>0 DEF Up, StopIsClean
  <2>4. LimitKept'
    <3>1. Cardinality(Inside') = Cardinality(Inside) + 1
      BY <2>2, OneMore
    <3>. QED  BY <2>3, <3>1 DEF TypeOK, LimitKept, HoldsOne
  <2>5. HoldsOne'
    <3>1. \A q \in Peer : client'[q] # "accepted"
      BY DEF TypeOK, HoldsOne
    <3>. QED  BY <3>1 DEF HoldsOne
  <2>6. StopIsClean' /\ StopSoFar'
    BY <1>0 DEF TypeOK, StopIsClean, StopSoFar, Queued
  <2>7. HeardFirst'
    BY DEF TypeOK, HeardFirst
  <2>. QED  BY <2>1, <2>2, <2>3, <2>4, <2>5, <2>6, <2>7
<1>4. CASE AcceptFails
  <2> USE <1>4 DEF AcceptFails
  <2>1. TypeOK'
    BY DEF TypeOK, Place, TurnedAway
  <2>2. Inside' = Inside
    BY DEF TypeOK, Inside, Queued, TurnedAway
  <2>3. LimitKept'
    BY <2>2, StillCounted DEF Up
  <2>4. HoldsOne'
    <3>1. \A q \in Peer : client'[q] # "accepted"
      BY DEF TypeOK, HoldsOne, TurnedAway
    <3>. QED  BY <3>1 DEF HoldsOne
  <2>5. StopIsClean'
    BY DEF StopIsClean
  <2>6. closed => Queued' = {}
    BY DEF TypeOK, Queued, TurnedAway
  <2>7. StopSoFar'
    BY <1>0, <2>6 DEF StopSoFar
  <2>8. HeardFirst'
    BY DEF TypeOK, HeardFirst, TurnedAway, Queued
  <2>. QED  BY <2>1, <2>2, <2>3, <2>4, <2>5, <2>7, <2>8 DEF Up
<1>. QED  BY <1>1, <1>2, <1>3, <1>4 DEF AcceptLoop

LEMMA HandleClientStep ==
    ASSUME IInv, NEW p \in Peer, HandleClient(p)
    PROVE  IInv'
<1> USE DEF IInv, Steps
<1>1. p \in Inside /\ client' = [client EXCEPT ![p] = client'[p]]
  BY DEF TypeOK, HandleClient, Recv, RecvEnds, Process, Send, Decrement, Inside
<1>2. client'[p] \in {"process", "send", "leaving", "dropping", "answered", "dropped"}
  BY DEF TypeOK, HandleClient, Recv, RecvEnds, Process, Send, Decrement
<1>3. UNCHANGED <<asked, gone, threads, acceptor, running, closed, stopper>>
  BY DEF HandleClient, Recv, RecvEnds, Process, Send, Decrement
<1>4. Up /\ Up'
  BY <1>1, <1>3 DEF Up, StopIsClean, StopSoFar
<1>5. /\ Cardinality(Inside) = current
      /\ current > 0
  <2>1. Cardinality(Inside) # 0
    BY <1>1, InsideFinite, FS_EmptySet
  <2>. QED  BY <1>4, <2>1, InsideFinite DEF LimitKept
<1>6. Inside' \subseteq Inside /\ LimitKept' /\ current' \in Nat /\ current' <= current
  <2>1. CASE Decrement(p)
    <3>1. Inside' = Inside \ {p}
      BY <2>1 DEF Decrement, TypeOK, Inside
    <3>2. Cardinality(Inside') = current - 1
      BY <1>1, <1>5, <3>1, OneLess
    <3>3. current' = current - 1 /\ current \in Nat
      BY <2>1 DEF Decrement, AfterClient, TypeOK
    <3>. QED  BY <1>4, <1>5, <3>1, <3>2, <3>3 DEF LimitKept
  <2>2. CASE Recv(p) \/ RecvEnds(p) \/ Process(p) \/ Send(p)
    <3>1. Inside' = Inside /\ current' = current
      BY <2>2 DEF Recv, RecvEnds, Process, Send, TypeOK, Inside
    <3>. QED  BY <1>4, <3>1, StillCounted DEF TypeOK
  <2>. QED  BY <2>1, <2>2 DEF HandleClient
<1>7. TypeOK'
  BY <1>1, <1>2, <1>3, <1>6 DEF TypeOK, Place
<1>8. HoldsOne' /\ Queued' = Queued
  BY <1>1, <1>2, <1>3, <1>6 DEF TypeOK, HoldsOne, Queued, Inside
<1>9. StopIsClean' /\ StopSoFar'
  BY <1>1, <1>3, <1>4, <1>8 DEF StopIsClean, StopSoFar, Up
<1>10. HeardFirst'
  BY DEF TypeOK, HeardFirst, HandleClient, Recv, RecvEnds, EndOfStream, Process, Send, Decrement
<1>. QED  BY <1>3, <1>4, <1>6, <1>7, <1>8, <1>9, <1>10

LEMMA StopStep ==
    ASSUME IInv, Stop \/ Stopping
    PROVE  IInv'
<1> USE DEF IInv, Stop, Stopping, CloseListener, JoinAcceptor, JoinClients
<1>0. Up
  BY DEF Up
<1>1. TypeOK'
  BY DEF TypeOK, Place, TurnedAway
<1>2. Inside' = Inside
  BY DEF TypeOK, Inside, Queued, TurnedAway
<1>3. LimitKept'
  BY <1>0, <1>2, StillCounted
<1>4. \A p \in Peer : client'[p] = "accepted" <=> client[p] = "accepted"
  BY DEF TypeOK, Queued, TurnedAway
<1>5. HoldsOne'
  BY <1>4 DEF HoldsOne
<1>6. StopIsClean' /\ (Up' => Inside' \subseteq threads')
  BY <1>0, <1>2, <1>4 DEF StopIsClean, HoldsOne, Up, AcceptorJoined
<1>7. Queued' \subseteq Queued
  BY DEF TypeOK, Queued, TurnedAway
<1>8. StopSoFar'
  <2>1. CASE CloseListener
    <3>1. acceptor # "accept" => Queued' = {}
      BY <2>1 DEF TypeOK, Queued, TurnedAway
    <3>. QED  BY <2>1, <3>1 DEF StopSoFar
  <2>2. CASE Stop \/ JoinAcceptor \/ JoinClients
    BY <1>7, <2>2 DEF TypeOK, StopSoFar, AcceptorJoined
  <2>. QED  BY <2>1, <2>2
<1>9. HeardFirst'
  BY DEF TypeOK, HeardFirst, TurnedAway, Queued
<1>. QED  BY <1>1, <1>3, <1>5, <1>6, <1>8, <1>9

LEMMA DieStep ==
    ASSUME IInv, Die
    PROVE  IInv'
<1> USE DEF IInv, Die
<1>1. \A p \in Peer : client'[p] \in {"away", "answered", "dropped", "refused"}
  BY DEF TypeOK, Place, Fate, Inside
<1>2. TypeOK'
  BY <1>1 DEF TypeOK, Place
<1>3. Inside' = {} /\ Queued' = {} /\ ~Up'
  BY <1>1 DEF Inside, Queued, Up
<1>4. HoldsOne' /\ StopIsClean' /\ StopSoFar' /\ LimitKept' /\ HeardFirst'
  BY <1>1, <1>3 DEF TypeOK, HoldsOne, StopIsClean, StopSoFar, LimitKept, HeardFirst
<1>. QED  BY <1>2, <1>3, <1>4

LEMMA StutterStep ==
    ASSUME IInv, UNCHANGED vars
    PROVE  IInv'
BY DEF vars, IInv, TypeOK, LimitKept, StopIsClean, HoldsOne, StopSoFar, HeardFirst, Up, Inside, Queued

-----------------------------------------------------------------------------
(* The inductive invariant of threaded_server.cpp.                         *)
THEOREM ThreadedInvariant == Spec => []IInv
<1>1. Init => IInv
  BY InitInvariant
<1>2. IInv /\ [Next]_vars => IInv'
  BY PeerStep, AcceptLoopStep, HandleClientStep, StopStep, DieStep, StutterStep DEF Next
<1>. QED  BY <1>1, <1>2, PTL DEF Spec

(* The variables keep their types; the counter never becomes negative.     *)
THEOREM ThreadedTypeCorrect == Spec => []TypeOK
<1>1. IInv => TypeOK
  BY DEF IInv
<1>. QED  BY <1>1, ThreadedInvariant, PTL

(* currentConnections is the number of clients being served and never      *)
(* exceeds the limit, though it is tested and incremented in two steps.    *)
THEOREM CounterKept == Spec => []LimitKept
<1>1. IInv => LimitKept
  BY DEF IInv
<1>. QED  BY <1>1, ThreadedInvariant, PTL

(* stop() returns only after the last thread, and nobody changes           *)
(* clientThreads while it is joining its elements.                         *)
THEOREM StopsCleanly == Spec => []StopIsClean
<1>1. IInv => StopIsClean
  BY DEF IInv
<1>. QED  BY <1>1, ThreadedInvariant, PTL

-----------------------------------------------------------------------------
(* The contract of IServer.                                                *)

LEMMA ServedIsInside == ASSUME TypeOK PROVE Contract!Served = Inside
BY DEF TypeOK, Place, Contract!Served, ContractStatus, Inside

LEMMA SameCardinality == ASSUME NEW S PROVE Contract!Cardinality(S) = Cardinality(S)
BY Zenon DEF Contract!Cardinality, Cardinality

LEMMA NothingSeen ==
    ASSUME ContractStatus' = ContractStatus, UNCHANGED peerVars,
           Up' = Up, Listening' = Listening
    PROVE  UNCHANGED Contract!vars
BY DEF Contract!vars

LEMMA ContractInit == ASSUME Init PROVE Contract!Init
BY DEF Init, Contract!Init, ContractStatus, Up, Listening

LEMMA PeerContract ==
    ASSUME IInv, NEW p \in Peer, PeerConnect(p) \/ PeerAsk(p) \/ PeerLeave(p)
    PROVE  Contract!Next
<1> USE DEF IInv, TypeOK
<1>1. CASE PeerConnect(p)
  <2>1. Contract!Connect(p)
    BY <1>1 DEF PeerConnect, Contract!Connect, ContractStatus, Up, Listening
  <2>. QED  BY <2>1 DEF Contract!Next
<1>2. CASE PeerAsk(p)
  <2>1. Contract!Ask(p)
    BY <1>2 DEF PeerAsk, Contract!Ask, ContractStatus, Up, Listening
  <2>. QED  BY <2>1 DEF Contract!Next
<1>3. CASE PeerLeave(p)
  <2>1. Contract!Leave(p)
    BY <1>3 DEF PeerLeave, Contract!Leave, ContractStatus, Up, Listening
  <2>. QED  BY <2>1 DEF Contract!Next
<1>. QED  BY <1>1, <1>2, <1>3

(* While a thread of the server runs, stop() has not returned.             *)
LEMMA StillUp == ASSUME IInv, acceptor # "ended" \/ Inside # {} PROVE Up
BY DEF IInv, StopIsClean, StopSoFar, Up

LEMMA AcceptLoopContract ==
    ASSUME IInv, AcceptLoop
    PROVE  Contract!Next \/ UNCHANGED Contract!vars
<1> USE DEF IInv, TypeOK, Moves
<1>0. Up /\ Up'
  <2>1. acceptor # "ended" /\ stopper' = stopper
    BY DEF AcceptLoop, TestRunning, CallAccept, AcceptFails, WithinLimit, Accept, Refuse, Spawn
  <2>. QED  BY <2>1, StillUp DEF Up
<1>1. CASE TestRunning \/ CallAccept \/ WithinLimit
  <2> USE <1>1 DEF TestRunning, CallAccept, WithinLimit
  <2>1. ContractStatus' = ContractStatus /\ UNCHANGED peerVars
    BY DEF ContractStatus
  <2>2. Listening' = Listening
    BY DEF Listening
  <2>. QED  BY <1>0, <2>1, <2>2, NothingSeen
<1>2. ASSUME NEW p \in Peer, Accept(p), ~closed
      PROVE  UNCHANGED Contract!vars
  <2> USE <1>2 DEF Accept
  <2>1. ContractStatus' = ContractStatus /\ UNCHANGED peerVars
    BY DEF ContractStatus, TurnedAway, Queued
  <2>2. Listening' = Listening
    BY DEF Listening
  <2>. QED  BY <1>0, <2>1, <2>2, NothingSeen
<1>3. ASSUME NEW p \in Peer, Accept(p), closed
      PROVE  Contract!Next
  <2> USE <1>3 DEF Accept
  <2>1. Queued \ {p} \in SUBSET Peer
    BY DEF Queued
  <2>2. ContractStatus' = [q \in Peer |-> IF q \in Queued \ {p} /\ ContractStatus[q] = "queued"
                                          THEN "refused" ELSE ContractStatus[q]]
    BY DEF ContractStatus, TurnedAway, Queued
  <2>3. Contract!Close(Queued \ {p})
    BY <1>0, <2>2 DEF Contract!Close, Listening
  <2>. QED  BY <2>1, <2>3 DEF Contract!Next
<1>4. ASSUME NEW p \in Peer, Refuse(p)
      PROVE  Contract!Next
  <2> USE <1>4 DEF Refuse
  <2>1. Cardinality(Contract!Served) >= MaxConnections
    BY <1>0, ServedIsInside DEF LimitKept, TurnsAway, AtLimit
  <2>2. Contract!Refuse(p)
    <3>1. ContractStatus' = [ContractStatus EXCEPT ![p] = "refused"] /\ ContractStatus[p] = "queued"
      BY DEF ContractStatus
    <3>2. Listening' = Listening
      BY DEF Listening
    <3>. QED  BY <1>0, <2>1, <3>1, <3>2, SameCardinality DEF Contract!Refuse
  <2>. QED  BY <2>2 DEF Contract!Next
<1>5. ASSUME NEW p \in Peer, Spawn(p)
      PROVE  Contract!Next
  <2> USE <1>5 DEF Spawn
  <2>1. Cardinality(Contract!Served) < MaxConnections
    BY <1>0, ServedIsInside DEF LimitKept, HoldsOne
  <2>2. Contract!Admit(p)
    <3>1. ContractStatus' = [ContractStatus EXCEPT ![p] = "reading"] /\ ContractStatus[p] = "queued"
      BY DEF ContractStatus
    <3>2. Listening' = Listening
      BY DEF Listening
    <3>. QED  BY <1>0, <2>1, <3>1, <3>2, SameCardinality DEF Contract!Admit
  <2>. QED  BY <2>2 DEF Contract!Next
<1>6. ASSUME AcceptFails, ~closed
      PROVE  UNCHANGED Contract!vars
  <2> USE <1>6 DEF AcceptFails
  <2>1. ContractStatus' = ContractStatus /\ UNCHANGED peerVars
    BY DEF ContractStatus, TurnedAway, Queued
  <2>2. Listening' = Listening
    BY DEF Listening
  <2>. QED  BY <1>0, <2>1, <2>2, NothingSeen
<1>7. ASSUME AcceptFails, closed
      PROVE  Contract!Next
  <2> USE <1>7 DEF AcceptFails
  <2>1. Queued \in SUBSET Peer
    BY DEF Queued
  <2>2. ContractStatus' = [q \in Peer |-> IF q \in Queued /\ ContractStatus[q] = "queued"
                                          THEN "refused" ELSE ContractStatus[q]]
    BY DEF ContractStatus, TurnedAway, Queued
  <2>3. Contract!Close(Queued)
    BY <1>0, <2>2 DEF Contract!Close, Listening
  <2>. QED  BY <2>1, <2>3 DEF Contract!Next
<1>. QED  BY <1>1, <1>2, <1>3, <1>4, <1>5, <1>6, <1>7 DEF AcceptLoop

LEMMA HandleClientContract ==
    ASSUME IInv, NEW p \in Peer, HandleClient(p)
    PROVE  Contract!Next \/ UNCHANGED Contract!vars
<1> USE DEF IInv, TypeOK, Steps
<1>0. /\ Up /\ Up'
      /\ Listening' = Listening
      /\ UNCHANGED peerVars
  <2>1. p \in Inside
    BY DEF HandleClient, Recv, RecvEnds, Process, Send, Decrement, Inside
  <2>2. UNCHANGED <<asked, gone, acceptor, closed, stopper>>
    BY DEF HandleClient, Recv, RecvEnds, Process, Send, Decrement
  <2>. QED  BY <2>1, <2>2, StillUp DEF Up, Listening
<1>1. CASE Recv(p) \/ RecvEnds(p) \/ Send(p)
  <2>1. ContractStatus' = ContractStatus
    BY <1>1 DEF Recv, RecvEnds, Send, ContractStatus
  <2>. QED  BY <1>0, <2>1, NothingSeen
<1>2. CASE Process(p)
  <2>1. Contract!Process(p)
    BY <1>0, <1>2 DEF Process, HeardFirst, Contract!Process, ContractStatus
  <2>. QED  BY <2>1 DEF Contract!Next
<1>3. CASE client[p] = "leaving" /\ Decrement(p)
  <2>1. Contract!Answer(p)
    BY <1>0, <1>3 DEF Decrement, Contract!Answer, ContractStatus
  <2>. QED  BY <2>1 DEF Contract!Next
<1>4. CASE client[p] = "dropping" /\ Decrement(p)
  <2>1. {p} \subseteq Contract!Served /\ p \in gone
    BY <1>4, ServedIsInside DEF Inside, HeardFirst
  <2>2. ContractStatus' = [q \in Peer |-> IF q \in {p} THEN "dropped" ELSE ContractStatus[q]]
    BY <1>4 DEF Decrement, ContractStatus
  <2>3. Contract!Drop({p})
    BY <1>0, <2>1, <2>2 DEF Contract!Drop
  <2>. QED  BY <2>3 DEF Contract!Next
<1>. QED  BY <1>1, <1>2, <1>3, <1>4 DEF HandleClient, Decrement

LEMMA StopContract ==
    ASSUME IInv, Stop \/ Stopping
    PROVE  Contract!Next \/ UNCHANGED Contract!vars
<1> USE DEF IInv, TypeOK
<1>0. Up /\ UNCHANGED peerVars
  BY DEF Up, Stop, Stopping, CloseListener, JoinAcceptor, JoinClients
<1>1. CASE Stop \/ JoinAcceptor \/ (CloseListener /\ acceptor = "accept")
  <2> USE <1>1 DEF Stop, JoinAcceptor, CloseListener
  <2>1. ContractStatus' = ContractStatus
    BY DEF ContractStatus, TurnedAway
  <2>2. Up' = Up /\ Listening' = Listening
    BY <1>0 DEF Up, Listening
  <2>. QED  BY <1>0, <2>1, <2>2, NothingSeen
<1>2. CASE CloseListener /\ acceptor # "accept"
  <2> USE <1>2 DEF CloseListener
  <2>1. ContractStatus' = [q \in Peer |-> IF q \in Queued /\ ContractStatus[q] = "queued"
                                          THEN "refused" ELSE ContractStatus[q]]
    BY DEF ContractStatus, TurnedAway, Queued
  <2>2. Up' /\ ~Listening'
    BY DEF Up, Listening
  <2>3. Contract!Close(Queued)
    BY <1>0, <2>1, <2>2 DEF Contract!Close
  <2>4. Queued \in SUBSET Peer
    BY DEF Queued
  <2>. QED  BY <2>3, <2>4 DEF Contract!Next
<1>3. CASE JoinClients
  <2> USE <1>3 DEF JoinClients
  <2>1. Inside = {} /\ Queued = {} /\ \A p \in Peer : client[p] # "accepted"
    <3>1. acceptor = "ended" /\ closed
      BY DEF StopIsClean, StopSoFar
    <3>2. Inside \subseteq threads
      BY <1>0
    <3>. QED  BY <3>1, <3>2 DEF StopSoFar, HoldsOne
  <2>2. ContractStatus' = ContractStatus /\ \A p \in Peer : ContractStatus[p] # "queued"
    BY <2>1 DEF ContractStatus, Queued
  <2>3. Contract!Served = {}
    BY <2>1, ServedIsInside
  <2>4. ~Up'
    BY DEF Up
  <2>5. Contract!End({})
    BY <1>0, <2>2, <2>3, <2>4 DEF Contract!End, ContractStatus
  <2>. QED  BY <2>5 DEF Contract!Next
<1>. QED  BY <1>1, <1>2, <1>3 DEF Stopping

LEMMA DieContract == ASSUME IInv, Die PROVE Contract!Next
<1> DEFINE Done == {p \in Peer : client[p] = "leaving"}
<1> USE DEF IInv, TypeOK, Die
<1>1. Up
  BY StillUp DEF Inside
<1>2. ~Up'
  BY DEF Up
<1>3. Done \in SUBSET Peer /\ Done \subseteq {p \in Peer : ContractStatus[p] = "answering"}
  BY DEF ContractStatus
<1>4. ContractStatus' = [p \in Peer |->
                           IF p \in Done THEN "answered"
                           ELSE IF p \in Contract!Served THEN "dropped"
                           ELSE IF ContractStatus[p] = "queued" THEN "refused"
                           ELSE ContractStatus[p]]
  BY ServedIsInside DEF ContractStatus, Fate, Inside, Place
<1>5. Contract!End(Done)
  BY <1>1, <1>2, <1>3, <1>4 DEF Contract!End
<1>. QED  BY <1>3, <1>5 DEF Contract!Next

(* ThreadedServer keeps the contract of IServer for any number of clients: *)
(* a peer is admitted under the limit and refused only at it or after the  *)
(* listener has gone, answered only when it has asked, and dropped only if *)
(* it left or the process ended.                                           *)
THEOREM ThreadedKeepsContract == Spec => KeepsContract
<1>1. Init => Contract!Init
  BY ContractInit
<1>2. IInv /\ [Next]_vars => [Contract!Next]_(Contract!vars)
  <2> SUFFICES ASSUME IInv, [Next]_vars
               PROVE  Contract!Next \/ UNCHANGED Contract!vars
    OBVIOUS
  <2>1. CASE UNCHANGED vars
    BY <2>1, NothingSeen DEF vars, ContractStatus, Up, Listening
  <2>2. CASE Next
    BY <2>2, PeerContract, AcceptLoopContract, HandleClientContract, StopContract, DieContract
    DEF Next
  <2>. QED  BY <2>1, <2>2
<1>. QED  BY <1>1, <1>2, ThreadedInvariant, PTL DEF Spec, KeepsContract, Contract!Spec

===============================================================================
