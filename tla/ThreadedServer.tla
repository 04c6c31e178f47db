---------------------------- MODULE ThreadedServer ----------------------------
(***************************************************************************)
(* The other server of the DISP process, src/disp/threaded_server.cpp: a   *)
(* thread that accepts, one thread for each client, and stop(), called by  *)
(* signalHandler on the main thread.                                       *)
(*                                                                         *)
(* A step of a thread is a system call or an access to what the threads    *)
(* share. acceptor is the next step of acceptLoop, client[p] tells where   *)
(* the connection of p is, or where handleClient is with it:               *)
(*                                                                         *)
(*   queued    in the listener's backlog                                   *)
(*   accepted  clientSocket of acceptLoop                                  *)
(*   recv, process, send    the next step of handleClient                  *)
(*   leaving, dropping      closed, after send or without it, and not yet  *)
(*                          taken off currentConnections                   *)
(*   answered, dropped      its thread has ended                           *)
(*   refused   closed without a thread                                     *)
(***************************************************************************)
EXTENDS Integers, FiniteSets

CONSTANTS
    Peer,           \* the clients; each of them connects once
    MaxConnections, \* maxConnections
    Faults          \* TRUE: accept may fail, a thread may not be created, send
                    \* may raise SIGPIPE

ASSUME ThreadedAssumption ==
    /\ IsFiniteSet(Peer)
    /\ MaxConnections \in Nat
    /\ Faults \in BOOLEAN

VARIABLES
    client,
    asked,          \* peers of which something has arrived that recv returns
    gone,           \* peers that ended or reset their side
    current,        \* currentConnections
    threads,        \* peers with an element in clientThreads
    acceptor,
    running,
    closed,         \* stop() has closed serverSocket
    stopper         \* the next step of stop()

peerVars == <<asked, gone>>
stopVars == <<running, closed, stopper>>
vars == <<client, peerVars, current, threads, acceptor, stopVars>>

Place == {"away", "queued", "accepted", "recv", "process", "send", "leaving",
          "dropping", "answered", "dropped", "refused"}
Inside == {p \in Peer : client[p] \in {"recv", "process", "send", "leaving", "dropping"}}
Queued == {p \in Peer : client[p] = "queued"}

(* A thread blocked in accept keeps the socket alive that stop() closes:   *)
(* Linux does not wake it.                                                 *)
Listening == ~closed \/ acceptor = "accept"

Up == stopper \notin {"returned", "dead"}

TypeOK ==
    /\ client \in [Peer -> Place]
    /\ asked \subseteq Peer
    /\ gone \subseteq Peer
    /\ current \in Nat
    /\ threads \subseteq Peer
    /\ acceptor \in {"test", "call", "accept", "check", "spawn", "ended"}
    /\ running \in BOOLEAN
    /\ closed \in BOOLEAN
    /\ stopper \in {"idle", "close", "joinAcceptor", "joinClients", "returned", "dead"}

(* start() has returned true.                                              *)
Init ==
    /\ client = [p \in Peer |-> "away"]
    /\ asked = {}
    /\ gone = {}
    /\ current = 0
    /\ threads = {}
    /\ acceptor = "test"
    /\ running = TRUE
    /\ closed = FALSE
    /\ stopper = "idle"

-----------------------------------------------------------------------------
(* The peers.                                                              *)

PeerConnect(p) ==
    /\ Up /\ Listening
    /\ client[p] = "away"
    /\ client' = [client EXCEPT ![p] = "queued"]
    /\ UNCHANGED <<peerVars, current, threads, acceptor, stopVars>>

Connected(p) == client[p] \in {"queued", "accepted", "recv", "process", "send"}

PeerAsk(p) ==
    /\ Connected(p)
    /\ p \notin asked \cup gone
    /\ asked' = asked \cup {p}
    /\ UNCHANGED <<client, gone, current, threads, acceptor, stopVars>>

PeerLeave(p) ==
    /\ Connected(p)
    /\ p \notin gone
    /\ gone' = gone \cup {p}
    /\ UNCHANGED <<client, asked, current, threads, acceptor, stopVars>>

-----------------------------------------------------------------------------
(* acceptLoop.                                                             *)

Moves(from, to) == acceptor = from /\ acceptor' = to

TestRunning ==
    /\ Moves("test", IF running THEN "call" ELSE "ended")
    /\ UNCHANGED <<client, peerVars, current, threads, stopVars>>

(* accept fails at once on the descriptor that stop() has closed or on the *)
(* -1 it leaves there, whichever of the two the unlocked read returns.     *)
CallAccept ==
    /\ Moves("call", IF closed THEN "test" ELSE "accept")
    /\ UNCHANGED <<client, peerVars, current, threads, stopVars>>

(* When the last reference to the listener goes, its backlog is reset.     *)
TurnedAway(S) == [p \in Peer |-> IF p \in S THEN "refused" ELSE client[p]]

Accept(p) ==
    /\ Moves("accept", "check")
    /\ p \in Queued
    /\ client' = [TurnedAway(IF closed THEN Queued ELSE {}) EXCEPT ![p] = "accepted"]
    /\ UNCHANGED <<peerVars, current, threads, stopVars>>

(* The loop goes on, whatever the error (lines 125-130).                   *)
AcceptFails ==
    /\ Faults
    /\ Moves("accept", "test")
    /\ client' = TurnedAway(IF closed THEN Queued ELSE {})
    /\ UNCHANGED <<peerVars, current, threads, stopVars>>

AtLimit_OffByOne == current > MaxConnections
AtLimit == current >= MaxConnections

TurnsAway_Waits == FALSE  \* waiting for a place instead
TurnsAway == AtLimit

Refuse(p) ==
    /\ Moves("check", "test")
    /\ client[p] = "accepted"
    /\ TurnsAway
    /\ client' = [client EXCEPT ![p] = "refused"]
    /\ UNCHANGED <<peerVars, current, threads, stopVars>>

WithinLimit ==
    /\ Moves("check", "spawn")
    /\ ~AtLimit
    /\ UNCHANGED <<client, peerVars, current, threads, stopVars>>

Spawn(p) ==
    /\ Moves("spawn", "test")
    /\ client[p] = "accepted"
    /\ client' = [client EXCEPT ![p] = "recv"]
    /\ current' = current + 1
    /\ threads' = threads \cup {p}
    /\ UNCHANGED <<peerVars, stopVars>>

-----------------------------------------------------------------------------
(* handleClient and the decrement after it.                                *)

Steps(p, from, to) ==
    /\ client[p] = from
    /\ client' = [client EXCEPT ![p] = to]
    /\ UNCHANGED <<peerVars, threads, acceptor, stopVars>>

(* One recv without a timeout; what it returns is taken for the request.   *)
Recv(p) == p \in asked /\ Steps(p, "recv", "process") /\ UNCHANGED current

EndOfStream_Ignored(p) == FALSE  \* recv's 0 taken for "nothing yet"
EndOfStream(p) == p \in gone \ asked

RecvEnds(p) == EndOfStream(p) /\ Steps(p, "recv", "dropping") /\ UNCHANGED current

(* The route handler. Its exceptions become a response as well.            *)
Process(p) == Steps(p, "process", "send") /\ UNCHANGED current

(* A response is at most the 4095 bytes that forwardToAp receives and a    *)
(* header: send does not block. Its result is ignored.                     *)
Send(p) == Steps(p, "send", "leaving") /\ UNCHANGED current

AfterClient_EarlyReturn(p) ==  \* the decrement inside handleClient, after send
    IF client[p] = "leaving" THEN current - 1 ELSE current
AfterClient_Twice(p) == current - 2  \* in handleClient and in the lambda
AfterClient(p) == current - 1

Decrement(p) ==
    /\ \/ Steps(p, "leaving", "answered")
       \/ Steps(p, "dropping", "dropped")
    /\ current' = AfterClient(p)

-----------------------------------------------------------------------------
(* stop(). A second signal finds running FALSE and returns at once.        *)

Stop ==
    /\ running
    /\ stopper = "idle"
    /\ running' = FALSE
    /\ stopper' = "close"
    /\ UNCHANGED <<client, peerVars, current, threads, acceptor, closed>>

CloseListener ==
    /\ stopper = "close"
    /\ closed' = TRUE
    /\ stopper' = "joinAcceptor"
    /\ client' = TurnedAway(IF acceptor = "accept" THEN {} ELSE Queued)
    /\ UNCHANGED <<peerVars, current, threads, acceptor, running>>

AcceptorJoined_Detached == TRUE  \* acceptThread detached, not joined
AcceptorJoined == acceptor = "ended"

JoinAcceptor ==
    /\ stopper = "joinAcceptor"
    /\ AcceptorJoined
    /\ stopper' = "joinClients"
    /\ UNCHANGED <<client, peerVars, current, threads, acceptor, running, closed>>

JoinClients ==
    /\ stopper = "joinClients"
    /\ threads \cap Inside = {}
    /\ threads' = {}
    /\ stopper' = "returned"
    /\ UNCHANGED <<client, peerVars, current, acceptor, running, closed>>

(* The process dies: std::thread throws out of acceptLoop, or send meets a *)
(* connection that was reset and SIGPIPE is not ignored.                   *)
Fate(p) ==
    IF client[p] \in {"queued", "accepted"} THEN "refused"
    ELSE IF client[p] = "leaving" THEN "answered"
    ELSE IF p \in Inside THEN "dropped"
    ELSE client[p]

Die ==
    /\ Faults
    /\ acceptor = "spawn" \/ \E p \in gone : client[p] = "send"
    /\ client' = [p \in Peer |-> Fate(p)]
    /\ acceptor' = "ended"
    /\ running' = FALSE
    /\ stopper' = "dead"
    /\ UNCHANGED <<peerVars, current, threads, closed>>

-----------------------------------------------------------------------------
AcceptLoop ==
    \/ TestRunning \/ CallAccept \/ AcceptFails \/ WithinLimit
    \/ \E p \in Peer : Accept(p) \/ Refuse(p) \/ Spawn(p)

HandleClient(p) == Recv(p) \/ RecvEnds(p) \/ Process(p) \/ Send(p) \/ Decrement(p)

Stopping == CloseListener \/ JoinAcceptor \/ JoinClients

Next ==
    \/ AcceptLoop
    \/ \E p \in Peer : HandleClient(p)
    \/ Stop \/ Stopping \/ Die
    \/ \E p \in Peer : PeerConnect(p) \/ PeerAsk(p) \/ PeerLeave(p)

Spec == Init /\ [][Next]_vars

(* Every thread is scheduled; the peers and the signal are not fair. An    *)
(* accept that is called again and again does not fail for ever while      *)
(* somebody is waiting.                                                    *)
LiveSpec ==
    /\ Spec
    /\ WF_vars(AcceptLoop)
    /\ SF_vars(\E p \in Peer : Accept(p))
    /\ WF_vars(Stopping)
    /\ \A p \in Peer : WF_vars(HandleClient(p))

-----------------------------------------------------------------------------
(***************************************************************************)
(* Properties.                                                             *)
(***************************************************************************)

(* The counter, tested in one step and incremented in another while other  *)
(* threads decrement it, is the number of clients that are served, and     *)
(* never more than setMaxConnections allows (line 133).                    *)
LimitKept ==
    Up => /\ current = Cardinality(Inside)
          /\ current <= MaxConnections

(* When stop() returns, and ~ThreadedServer frees what the threads use, no *)
(* thread is left, the one included that a blocked accept starts after     *)
(* stop() was called; while it goes through clientThreads nobody adds to   *)
(* the vector (lines 83-95).                                               *)
StopIsClean ==
    /\ stopper \in {"joinClients", "returned"} => acceptor = "ended"
    /\ stopper = "returned" => Inside = {} /\ \A p \in Peer : client[p] # "accepted"

(* The server keeps the contract of ConnectionContract. What it waits for  *)
(* is the first part of a request, not the whole: sent is asked here. And  *)
(* a peer holds its place until its thread has decremented the counter,    *)
(* which is a little after the peer has its answer.                        *)
ContractStatus ==
    [p \in Peer |->
        CASE client[p] = "accepted" -> "queued"
          [] client[p] \in {"recv", "process", "dropping"} -> "reading"
          [] client[p] \in {"send", "leaving"} -> "answering"
          [] OTHER -> client[p]]

Contract == INSTANCE ConnectionContract WITH
    status <- ContractStatus, sent <- asked, expired <- {}, broken <- {},
    open <- Up /\ Listening, up <- Up, Faults <- FALSE

KeepsContract == Contract!Spec

(* Whoever connects and asks is answered or turned away, however many      *)
(* other clients hold their threads in a recv that has no timeout.         *)
Answered ==
    \A p \in Peer :
        []<>(p \in asked => client[p] \in {"answered", "dropped", "refused"})

(* What stop() can be held up by, for ever: an accept that no connection   *)
(* ends (line 79), or a client that neither sends nor leaves (line 152).   *)
HeldUp ==
    \/ acceptor = "accept" /\ Queued = {}
    \/ \E p \in Peer : client[p] = "recv" /\ p \notin asked \cup gone

(* stop() returns, unless for ever nobody connects or a client is silent.  *)
StopReturns == []<>(stopper = "idle" \/ ~Up) \/ <>[]HeldUp

-----------------------------------------------------------------------------
(* The inductive invariant behind LimitKept, StopIsClean and KeepsContract. *)

(* acceptLoop holds one accepted connection from accept to the end of the  *)
(* round, and a place is still free for it when it comes to take one.      *)
HoldsOne ==
    /\ acceptor \in {"check", "spawn"} <=> \E p \in Peer : client[p] = "accepted"
    /\ \A p, q \in Peer : client[p] = "accepted" /\ client[q] = "accepted" => p = q
    /\ acceptor = "spawn" => current < MaxConnections

(* How far stop() is, and what it has made true by then.                   *)
StopSoFar ==
    /\ running <=> stopper = "idle"
    /\ stopper \in {"idle", "close"} => ~closed
    /\ stopper \in {"joinAcceptor", "joinClients", "returned"} => closed
    /\ acceptor = "ended" => ~running
    /\ closed /\ acceptor # "accept" => Queued = {}
    /\ stopper = "dead" => acceptor = "ended" /\ Queued = {} /\ Inside = {}

(* A handler goes on only with a request, and gives up only a peer that    *)
(* has left.                                                               *)
HeardFirst ==
    \A p \in Peer :
        /\ client[p] = "process" => p \in asked
        /\ client[p] = "dropping" => p \in gone

IInv ==
    /\ TypeOK
    /\ LimitKept
    /\ StopIsClean
    /\ HoldsOne
    /\ StopSoFar
    /\ HeardFirst
    /\ Up => Inside \subseteq threads

===============================================================================
