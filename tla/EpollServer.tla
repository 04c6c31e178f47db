----------------------------- MODULE EpollServer -----------------------------
(***************************************************************************)
(* The single-threaded server of the DISP process,                         *)
(* src/disp/server_epoll.cpp: one event loop that accepts connections,     *)
(* collects requests, runs the route handlers and writes responses over    *)
(* edge-triggered, non-blocking sockets.                                   *)
(*                                                                         *)
(* The thread is modelled one system call at a time, because its peers and *)
(* the clock move between any two of them. pc says which call is next:     *)
(*                                                                         *)
(*   wait      epoll_wait                   (eventLoop, 148)               *)
(*   dispatch  the next event of the batch  (eventLoop, 159)               *)
(*   accept    accept                       (acceptNewConnection, 207)     *)
(*   recv      recv on cur                  (handleRead, 263)              *)
(*   process   the route handler for cur    (processCompleteRequest, 352)  *)
(*   send      send on cur                  (handleWrite, 302)             *)
(*   close     closeConnection(cur)         (eventLoop, 188)               *)
(*   clean     the periodic cleanup         (eventLoop, 194)               *)
(*   stopped   eventLoop has returned                                      *)
(*   crashed   the process died of stop() running inside a handler         *)
(*   killed    the process died of SIGPIPE                                 *)
(*                                                                         *)
(* Sockets and epoll are the kernel's; they are modelled from the calls    *)
(* the server makes. A request and a response are counted in segments.     *)
(* A peer connects once; the server does not tell two connections of one   *)
(* host from those of two.                                                 *)
(***************************************************************************)
EXTENDS Naturals, FiniteSets

CONSTANTS
    Peer,               \* the clients
    Fd,                 \* descriptors left for client sockets
    NoPeer,             \* owner of a closed descriptor
    NoFd,               \* cur outside a handler
    MaxConnections,     \* maxConnections
    ConnectionTimeout,  \* connectionTimeout, in ticks of the clock
    CleanupPeriod,      \* the 10 s of line 195, in ticks of the clock
    ReqLen,             \* segments of a request
    RespLen,            \* most segments of a response
    SndBuf,             \* segments a socket's send buffer holds
    Faults              \* TRUE: accept, fcntl and epoll_ctl may fail

ASSUME ConstantsAssumption ==
    /\ NoPeer \notin Peer
    /\ NoFd \notin Fd
    /\ IsFiniteSet(Fd)
    /\ MaxConnections \in Nat
    /\ ConnectionTimeout \in Nat
    /\ CleanupPeriod \in Nat
    /\ ReqLen \in Nat \ {0}
    /\ RespLen \in Nat \ {0}
    /\ SndBuf \in Nat \ {0}
    /\ Faults \in BOOLEAN

VARIABLES
    (* the peers and the kernel *)
    phase,      \* [Peer -> Phase], what became of the peer's connection
    todo,       \* [Peer -> 0..ReqLen], segments the peer has yet to send
    inbox,      \* [Peer -> 0..ReqLen], segments waiting in the receive buffer
    outbox,     \* [Peer -> 0..SndBuf], segments waiting in the send buffer
    leaving,    \* [Peer -> Departure], how the peer has ended its side
    owner,      \* [Fd -> Peer \cup {NoPeer}], whose connection it is
    interest,   \* [Fd -> Interest], the events registered with epoll
    ready,      \* descriptors on epoll's ready list
    (* EpollServer and the locals of eventLoop *)
    clients,    \* the keys of the map clients
    conn,       \* [Fd -> Connection], the ClientConnection behind a key
    sinceCleanup, \* now - lastCleanup, up to CleanupPeriod
    batch,      \* the client events of events[] not yet handled
    listening,  \* the listener's event of events[] is not yet handled
    pc,
    cur         \* clientFd of the running handler

peerVars == <<phase, todo, inbox, outbox, leaving>>
fdVars == <<owner, interest, ready, clients, conn>>
loopVars == <<sinceCleanup, batch, listening, pc, cur>>
vars == <<peerVars, fdVars, loopVars>>

Phase == {"away", "queued", "open", "answered", "dropped", "refused"}

(* reset after fin is told apart: the kernel then fails a send with EPIPE  *)
(* and SIGPIPE, where a reset alone gives ECONNRESET.                      *)
Departure == {"stay", "fin", "reset", "finreset"}
HasReset(p) == leaving[p] \in {"reset", "finreset"}

Interest == {"none", "IN", "OUT"}

ClientState == {"READING_REQUEST", "WRITING_RESPONSE"}

(* got: segments in readBuffer; left: segments of writeBuffer at and after *)
(* writePos; idle: now - lastActivity, up to one tick past the timeout.    *)
Connection == [state : ClientState, got : 0..ReqLen, left : 0..RespLen,
               idle : 0..(ConnectionTimeout + 1)]

Fresh == [state |-> "READING_REQUEST", got |-> 0, left |-> 0, idle |-> 0]

(* An element of events[]; who records the peer the event was raised for.  *)
Event == [fd : Fd, kind : {"hup", "in", "out"}, who : Peer]

Label == {"wait", "dispatch", "accept", "recv", "process", "send", "close",
          "clean", "stopped", "crashed", "killed"}

Ended == pc \in {"stopped", "crashed", "killed"}

TypeOK ==
    /\ phase \in [Peer -> Phase]
    /\ todo \in [Peer -> 0..ReqLen]
    /\ inbox \in [Peer -> 0..ReqLen]
    /\ outbox \in [Peer -> 0..SndBuf]
    /\ leaving \in [Peer -> Departure]
    /\ owner \in [Fd -> Peer \cup {NoPeer}]
    /\ interest \in [Fd -> Interest]
    /\ ready \subseteq Fd
    /\ clients \subseteq Fd
    /\ conn \in [Fd -> Connection]
    /\ sinceCleanup \in 0..CleanupPeriod
    /\ batch \subseteq Event
    /\ listening \in BOOLEAN
    /\ pc \in Label
    /\ cur \in Fd \cup {NoFd}

Init ==
    /\ phase = [p \in Peer |-> "away"]
    /\ todo = [p \in Peer |-> ReqLen]
    /\ inbox = [p \in Peer |-> 0]
    /\ outbox = [p \in Peer |-> 0]
    /\ leaving = [p \in Peer |-> "stay"]
    /\ owner = [fd \in Fd |-> NoPeer]
    /\ interest = [fd \in Fd |-> "none"]
    /\ ready = {}
    /\ clients = {}
    /\ conn = [fd \in Fd |-> Fresh]
    /\ sinceCleanup = 0
    /\ batch = {}
    /\ listening = FALSE
    /\ pc = "wait"
    /\ cur = NoFd

-----------------------------------------------------------------------------
(* The kernel: what epoll reports, and what a peer can do to a socket.     *)

FdsOf(p) == {fd \in Fd : owner[fd] = p}

Readable(p) == inbox[p] > 0 \/ leaving[p] # "stay"
Writable(p) == outbox[p] < SndBuf

(* The branch of lines 172-185 that the event mask of fd selects.          *)
Revents(fd) ==
    IF interest[fd] = "none" THEN "none"
    ELSE IF HasReset(owner[fd]) THEN "hup"
    ELSE IF interest[fd] = "IN" /\ Readable(owner[fd]) THEN "in"
    ELSE IF interest[fd] = "OUT" /\ Writable(owner[fd]) THEN "out"
    ELSE "none"

Queued == {p \in Peer : phase[p] = "queued"}
Connected(p) == phase[p] \in {"queued", "open"}

(* The descriptors of p that are registered for the given events.          *)
Woken(p, events) == {fd \in FdsOf(p) : interest[fd] \in events}

PeerConnect(p) ==
    /\ ~Ended
    /\ phase[p] = "away"
    /\ phase' = [phase EXCEPT ![p] = "queued"]
    /\ UNCHANGED <<todo, inbox, outbox, leaving, fdVars, loopVars>>

PeerSend(p) ==
    /\ Connected(p)
    /\ leaving[p] = "stay"
    /\ todo[p] > 0
    /\ todo' = [todo EXCEPT ![p] = @ - 1]
    /\ inbox' = [inbox EXCEPT ![p] = @ + 1]
    /\ ready' = ready \cup Woken(p, {"IN"})
    /\ UNCHANGED <<phase, outbox, leaving, owner, interest, clients, conn, loopVars>>

(* Room in a send buffer is an event only if the buffer was full.          *)
PeerRecv(p) ==
    /\ phase[p] = "open"
    /\ ~HasReset(p)
    /\ outbox[p] > 0
    /\ outbox' = [outbox EXCEPT ![p] = @ - 1]
    /\ ready' = IF outbox[p] = SndBuf THEN ready \cup Woken(p, {"OUT"}) ELSE ready
    /\ UNCHANGED <<phase, todo, inbox, leaving, owner, interest, clients, conn, loopVars>>

(* The end of the stream and a reset wake epoll whatever is registered.    *)
PeerFin(p) ==
    /\ Connected(p)
    /\ leaving[p] = "stay"
    /\ leaving' = [leaving EXCEPT ![p] = "fin"]
    /\ ready' = ready \cup Woken(p, {"IN", "OUT"})
    /\ UNCHANGED <<phase, todo, inbox, outbox, owner, interest, clients, conn, loopVars>>

PeerReset(p) ==
    /\ Connected(p)
    /\ ~HasReset(p)
    /\ leaving' = [leaving EXCEPT ![p] = IF @ = "fin" THEN "finreset" ELSE "reset"]
    /\ ready' = ready \cup Woken(p, {"IN", "OUT"})
    /\ UNCHANGED <<phase, todo, inbox, outbox, owner, interest, clients, conn, loopVars>>

(* One tick of time(nullptr), while the loop waits or is busy alike.       *)
Tick ==
    /\ ~Ended
    /\ conn' = [fd \in Fd |->
         IF fd \in clients /\ conn[fd].idle <= ConnectionTimeout
         THEN [conn[fd] EXCEPT !.idle = @ + 1] ELSE conn[fd]]
    /\ sinceCleanup' = IF sinceCleanup < CleanupPeriod
                       THEN sinceCleanup + 1 ELSE sinceCleanup
    /\ UNCHANGED <<peerVars, owner, interest, ready, clients, batch, listening, pc, cur>>

-----------------------------------------------------------------------------
(* Closing descriptors.                                                    *)

OwnersIn(S) == {owner[fd] : fd \in S} \ {NoPeer}

(* The response of fd has been handed to the kernel to its last segment.   *)
Delivered(fd) == conn[fd].state = "WRITING_RESPONSE" /\ conn[fd].left = 0

(* The keys left in the map after closing S.                               *)
KeysAfterClose_NotErased(S) == clients  \* close() without clients.erase()
KeysAfterClose(S) == clients \ S

(* removeFromEpoll, close and clients.erase for each fd of S.              *)
Release(S) ==
    /\ owner' = [fd \in Fd |-> IF fd \in S THEN NoPeer ELSE owner[fd]]
    /\ interest' = [fd \in Fd |-> IF fd \in S THEN "none" ELSE interest[fd]]
    /\ ready' = ready \ S
    /\ clients' = KeysAfterClose(S)
    /\ conn' = [fd \in Fd |-> IF fd \in S THEN Fresh ELSE conn[fd]]
    /\ inbox' = [p \in Peer |-> IF p \in OwnersIn(S) THEN 0 ELSE inbox[p]]
    /\ outbox' = [p \in Peer |-> IF p \in OwnersIn(S) THEN 0 ELSE outbox[p]]

PhaseAfterClose(S) ==
    [p \in Peer |->
        IF p \in OwnersIn({fd \in S : Delivered(fd)}) THEN "answered"
        ELSE IF p \in OwnersIn(S) THEN "dropped"
        ELSE phase[p]]

-----------------------------------------------------------------------------
(* eventLoop: one wait, the events it returned in any order, the cleanup.  *)

(* The ready list is emptied; what is no longer true is not reported, and  *)
(* an empty batch is the 1 s timeout. The listener is level-triggered.     *)
EpollWait ==
    /\ pc = "wait"
    /\ batch' = {[fd |-> fd, kind |-> Revents(fd), who |-> owner[fd]] :
                    fd \in {f \in ready : Revents(f) # "none"}}
    /\ listening' = (Queued # {})
    /\ ready' = {}
    /\ pc' = "dispatch"
    /\ UNCHANGED <<peerVars, owner, interest, clients, conn, sinceCleanup, cur>>

HandleListener ==
    /\ pc = "dispatch"
    /\ listening
    /\ listening' = FALSE
    /\ pc' = "accept"
    /\ UNCHANGED <<peerVars, fdVars, sinceCleanup, batch, cur>>

HandleHangup(e) ==
    /\ pc = "dispatch"
    /\ e.kind = "hup"
    /\ batch' = batch \ {e}
    /\ cur' = e.fd
    /\ pc' = "close"
    /\ UNCHANGED <<peerVars, fdVars, sinceCleanup, listening>>

(* Entry of handleRead and of handleWrite, to their first system call.     *)
Handle(e, kind, firstCall) ==
    /\ pc = "dispatch"
    /\ e.kind = kind
    /\ batch' = batch \ {e}
    /\ cur' = e.fd
    /\ pc' = IF e.fd \in clients THEN firstCall ELSE "close"
    /\ conn' = IF e.fd \in clients THEN [conn EXCEPT ![e.fd].idle = 0] ELSE conn
    /\ UNCHANGED <<peerVars, owner, interest, ready, clients, sinceCleanup, listening>>

HandleRead(e) == Handle(e, "in", "recv")
HandleWrite(e) == Handle(e, "out", "send")

(* The cleanup comes after the whole batch, never between two events.      *)
BatchDone_AnyTime == TRUE  \* the cleanup moved into the loop over events
BatchDone == batch = {} /\ ~listening
EndBatch ==
    /\ pc = "dispatch"
    /\ BatchDone
    /\ pc' = "clean"
    /\ UNCHANGED <<peerVars, fdVars, sinceCleanup, batch, listening, cur>>

Expired(fd) == conn[fd].idle > ConnectionTimeout

ExpiredFds_Reading == {fd \in clients : Expired(fd) /\ conn[fd].state = "READING_REQUEST"}
ExpiredFds_Early == {fd \in clients : conn[fd].idle >= ConnectionTimeout}
ExpiredFds == {fd \in clients : Expired(fd)}

SinceAfterCleanup_Always(due) == 0  \* lastCleanup = now on every iteration
SinceAfterCleanup(due) == IF due THEN 0 ELSE sinceCleanup

(* The check of line 195 and, when it is due, cleanupTimeoutConnections.   *)
Cleanup ==
    /\ pc = "clean"
    /\ LET due == sinceCleanup >= CleanupPeriod
           S == IF due THEN ExpiredFds ELSE {}
       IN  /\ Release(S)
           /\ phase' = PhaseAfterClose(S)
           /\ sinceCleanup' = SinceAfterCleanup(due)
    /\ pc' = "wait"
    /\ UNCHANGED <<todo, leaving, batch, listening, cur>>

CloseConnection ==
    /\ pc = "close"
    /\ Release({cur})
    /\ phase' = PhaseAfterClose({cur})
    /\ cur' = NoFd
    /\ pc' = "dispatch"
    /\ UNCHANGED <<todo, leaving, sinceCleanup, batch, listening>>

-----------------------------------------------------------------------------
(* acceptNewConnection: accept until there is nothing left to accept.      *)

FreeFds == {fd \in Fd : owner[fd] = NoPeer}

AtLimit_OffByOne == Cardinality(clients) > MaxConnections
AtLimit == Cardinality(clients) >= MaxConnections

(* addToEpoll reports at once what has already arrived. Which descriptor   *)
(* the kernel gives is left open; a descriptor just closed may come back.  *)
AcceptClient(p, fd) ==
    /\ pc = "accept"
    /\ p \in Queued
    /\ fd \in FreeFds
    /\ ~AtLimit
    /\ phase' = [phase EXCEPT ![p] = "open"]
    /\ owner' = [owner EXCEPT ![fd] = p]
    /\ interest' = [interest EXCEPT ![fd] = "IN"]
    /\ ready' = IF Readable(p) THEN ready \cup {fd} ELSE ready
    /\ clients' = clients \cup {fd}
    /\ conn' = [conn EXCEPT ![fd] = Fresh]
    /\ UNCHANGED <<todo, inbox, outbox, leaving, loopVars>>

AcceptRefuse_Leaks(p) ==  \* continue without close(clientFd)
    /\ pc = "accept"
    /\ p \in Queued
    /\ AtLimit \/ Faults
    /\ \E fd \in FreeFds : owner' = [owner EXCEPT ![fd] = p]
    /\ UNCHANGED <<peerVars, interest, ready, clients, conn, loopVars>>

(* close(clientFd) and continue: at the limit, or when setNonBlocking or   *)
(* addToEpoll fails.                                                       *)
AcceptRefuse(p) ==
    /\ pc = "accept"
    /\ p \in Queued
    /\ FreeFds # {}
    /\ AtLimit \/ Faults
    /\ phase' = [phase EXCEPT ![p] = "refused"]
    /\ inbox' = [inbox EXCEPT ![p] = 0]
    /\ UNCHANGED <<todo, outbox, leaving, fdVars, loopVars>>

(* EAGAIN, EMFILE while every descriptor is taken, or another error: back  *)
(* to the batch.                                                           *)
AcceptNothing ==
    /\ pc = "accept"
    /\ Queued = {} \/ FreeFds = {} \/ Faults
    /\ pc' = "dispatch"
    /\ UNCHANGED <<peerVars, fdVars, sinceCleanup, batch, listening, cur>>

-----------------------------------------------------------------------------
(* handleRead, after its entry.                                            *)

(* isRequestComplete, for a request of which got segments have been read.  *)
RequestComplete_Early(got) == got >= 1
RequestComplete(got) == got >= ReqLen

(* After a recv that returned data: hand the request over, or recv again.  *)
AfterRecv_OneRead(got) == IF RequestComplete(got) THEN "process" ELSE "dispatch"
AfterRecv(got) == IF RequestComplete(got) THEN "process" ELSE "recv"

RecvData(n) ==
    /\ pc = "recv"
    /\ n <= inbox[owner[cur]]
    /\ inbox' = [inbox EXCEPT ![owner[cur]] = @ - n]
    /\ conn' = [conn EXCEPT ![cur].got = @ + n]
    /\ pc' = AfterRecv(conn[cur].got + n)
    /\ cur' = IF pc' = "dispatch" THEN NoFd ELSE cur
    /\ UNCHANGED <<phase, todo, outbox, leaving, owner, interest, ready, clients,
                   sinceCleanup, batch, listening>>

RecvWouldBlock ==
    /\ pc = "recv"
    /\ inbox[owner[cur]] = 0
    /\ leaving[owner[cur]] = "stay"
    /\ cur' = NoFd
    /\ pc' = "dispatch"
    /\ UNCHANGED <<peerVars, fdVars, sinceCleanup, batch, listening>>

(* recv returns 0 at the end of the stream, -1 after a reset.              *)
RecvEnd ==
    /\ pc = "recv"
    /\ inbox[owner[cur]] = 0
    /\ leaving[owner[cur]] # "stay"
    /\ pc' = "close"
    /\ UNCHANGED <<peerVars, fdVars, sinceCleanup, batch, listening, cur>>

-----------------------------------------------------------------------------
(* processCompleteRequest and handleWrite.                                 *)

(* The handler returns a response of len segments. EPOLL_CTL_MOD re-arms   *)
(* the edge, and handleWrite, called at the end, marks the activity.       *)
Process(len) ==
    /\ pc = "process"
    /\ conn' = [conn EXCEPT ![cur] =
                  [@ EXCEPT !.state = "WRITING_RESPONSE", !.left = len, !.idle = 0]]
    /\ interest' = [interest EXCEPT ![cur] = "OUT"]
    /\ ready' = IF Writable(owner[cur]) \/ HasReset(owner[cur])
                THEN ready \cup {cur} ELSE ready
    /\ pc' = "send"
    /\ UNCHANGED <<peerVars, owner, clients, sinceCleanup, batch, listening, cur>>

(* modifyEpoll fails: the response is in writeBuffer and never sent.       *)
ProcessFails(len) ==
    /\ pc = "process"
    /\ Faults
    /\ conn' = [conn EXCEPT ![cur] =
                  [@ EXCEPT !.state = "WRITING_RESPONSE", !.left = len]]
    /\ pc' = "close"
    /\ UNCHANGED <<peerVars, owner, interest, ready, clients, sinceCleanup, batch,
                   listening, cur>>

LeftAfterSend_OffByOne(left, n) == left - (n + 1)
LeftAfterSend(left, n) == left - n

AllWritten_AfterOneSend(left) == left < RespLen  \* a partial send taken for the whole
AllWritten(left) == left = 0

SendSome(n) ==
    /\ pc = "send"
    /\ ~HasReset(owner[cur])
    /\ n <= conn[cur].left
    /\ n <= SndBuf - outbox[owner[cur]]
    /\ outbox' = [outbox EXCEPT ![owner[cur]] = @ + n]
    /\ conn' = [conn EXCEPT ![cur].left = LeftAfterSend(@, n)]
    /\ UNCHANGED <<phase, todo, inbox, leaving, owner, interest, ready, clients, loopVars>>

SendWouldBlock ==
    /\ pc = "send"
    /\ ~HasReset(owner[cur])
    /\ conn[cur].left > 0
    /\ ~Writable(owner[cur])
    /\ cur' = NoFd
    /\ pc' = "dispatch"
    /\ UNCHANGED <<peerVars, fdVars, sinceCleanup, batch, listening>>

(* send returns -1 with ECONNRESET.                                        *)
SendFails ==
    /\ pc = "send"
    /\ conn[cur].left > 0
    /\ leaving[owner[cur]] = "reset"
    /\ pc' = "close"
    /\ UNCHANGED <<peerVars, fdVars, sinceCleanup, batch, listening, cur>>

(* Everything written. keepAlive is false from the constructor on.         *)
SendDone ==
    /\ pc = "send"
    /\ AllWritten(conn[cur].left)
    /\ pc' = "close"
    /\ UNCHANGED <<peerVars, fdVars, sinceCleanup, batch, listening, cur>>

-----------------------------------------------------------------------------
(* The end of the process. Whoever still waits in the backlog is refused.  *)

EndIn(label) ==
    /\ Release(Fd)
    /\ phase' = [p \in Peer |->
                   IF phase[p] = "queued" THEN "refused" ELSE PhaseAfterClose(Fd)[p]]
    /\ batch' = {}
    /\ listening' = FALSE
    /\ cur' = NoFd
    /\ pc' = label
    /\ UNCHANGED <<todo, leaving, sinceCleanup>>

(* SIGINT or SIGTERM: signalHandler (disp/main.cpp) calls stop() on the    *)
(* thread that runs eventLoop. In epoll_wait that ends the loop. Anywhere  *)
(* else stop() frees the map, its connections and the descriptors under    *)
(* the running handler: the process may get to the end of its loop, or die *)
(* of the freed memory it goes on using.                                   *)
Stop ==
    /\ ~Ended
    /\ \/ EndIn("stopped")
       \/ pc # "wait" /\ EndIn("crashed")

(* send on a socket that was reset after the peer's end of stream raises   *)
(* SIGPIPE; no source file of the server ignores or handles it.            *)
SendKilled ==
    /\ pc = "send"
    /\ conn[cur].left > 0
    /\ leaving[owner[cur]] = "finreset"
    /\ EndIn("killed")

-----------------------------------------------------------------------------
Accept ==
    \/ \E p \in Peer, fd \in Fd : AcceptClient(p, fd)
    \/ \E p \in Peer : AcceptRefuse(p)
    \/ AcceptNothing

Dispatch ==
    \/ HandleListener
    \/ \E e \in batch : HandleHangup(e) \/ HandleRead(e) \/ HandleWrite(e)
    \/ EndBatch

Read ==
    \/ \E n \in 1..ReqLen : RecvData(n)
    \/ RecvWouldBlock
    \/ RecvEnd

Write ==
    \/ \E len \in 1..RespLen : Process(len) \/ ProcessFails(len)
    \/ \E n \in 1..SndBuf : SendSome(n)
    \/ SendWouldBlock
    \/ SendFails
    \/ SendKilled
    \/ SendDone

Loop == EpollWait \/ Accept \/ Dispatch \/ Read \/ Write \/ CloseConnection \/ Cleanup

Environment ==
    \/ \E p \in Peer : PeerConnect(p) \/ PeerSend(p) \/ PeerRecv(p)
    \/ \E p \in Peer : PeerFin(p) \/ PeerReset(p)
    \/ Tick

Next == Loop \/ Environment \/ Stop

Spec == Init /\ [][Next]_vars

(* The thread keeps running, and a peer reads what it is sent. The clock   *)
(* need not advance: no answer may depend on the idle timeout.             *)
LiveSpec ==
    /\ Spec
    /\ WF_vars(Loop)
    /\ \A p \in Peer : WF_vars(PeerRecv(p))

(* The thread keeps running and the clock advances; a peer may do nothing. *)
IdleSpec == Spec /\ WF_vars(Loop) /\ WF_vars(Tick)

-----------------------------------------------------------------------------
(***************************************************************************)
(* Safety.                                                                 *)
(***************************************************************************)

(* No more clients than setMaxConnections allows, whatever the order of    *)
(* accepts, closes and cleanups (line 218).                                *)
ConnectionLimit == Cardinality(clients) <= MaxConnections

(* The map, the open descriptors and epoll's registrations name the same   *)
(* connections: none is leaked, closed twice, or served under the number   *)
(* of another. The handler's clientFd is one of them.                      *)
TableAgrees ==
    /\ clients = {fd \in Fd : owner[fd] # NoPeer}
    /\ clients = {fd \in Fd : interest[fd] # "none"}
    /\ ready \subseteq clients
    /\ cur # NoFd => cur \in clients
    /\ \A fd, g \in clients : owner[fd] = owner[g] => fd = g
    /\ \A p \in Peer : phase[p] = "open" <=> \E fd \in Fd : owner[fd] = p

(* events[] is a snapshot: an event still to be handled is about the       *)
(* connection it was raised for, though descriptors are closed and given   *)
(* out again while the batch is worked off; and it is the only one for its *)
(* descriptor, so handling one never closes the connection of another.     *)
NoStaleEvent ==
    \A e \in batch :
        /\ owner[e.fd] = e.who
        /\ e.fd # cur
        /\ \A f \in batch : f.fd = e.fd => f = e

(* With EPOLLET a readiness is reported once. A connection with something  *)
(* to do is on the ready list, in the batch or in its handler: a handler   *)
(* never leaves with data unread or room unused that no event will report. *)
EdgeNotLost ==
    \A fd \in clients :
        Revents(fd) # "none" =>
            fd \in ready \/ fd = cur \/ \E e \in batch : e.fd = fd

(* What a peer sends is in its hands, in the kernel or in readBuffer, and  *)
(* a response exists only for a request that was read to its end.          *)
RequestIntact ==
    \A fd \in clients :
        /\ todo[owner[fd]] + inbox[owner[fd]] + conn[fd].got = ReqLen
        /\ conn[fd].state = "WRITING_RESPONSE" => conn[fd].got = ReqLen

(* A client in the backlog has lost nothing; whoever is gone owes at most  *)
(* what it had not sent.                                                   *)
BacklogIntact ==
    \A p \in Peer :
        /\ todo[p] + inbox[p] <= ReqLen
        /\ phase[p] \in {"away", "queued"} => todo[p] + inbox[p] = ReqLen

(* A handler runs exactly while the thread is between its first system     *)
(* call and its return; the request it processes is complete; outside the  *)
(* for loop over events[] no event is left.                                *)
HandlerRuns ==
    /\ cur # NoFd <=> pc \in {"recv", "process", "send", "close"}
    /\ pc = "process" => conn[cur].got = ReqLen
    /\ pc \in {"wait", "clean"} \/ Ended => batch = {}

(* handleRead runs on a connection registered for EPOLLIN, handleWrite on  *)
(* one registered for EPOLLOUT.                                            *)
RightDirection ==
    /\ \A e \in batch : /\ e.kind = "in" => interest[e.fd] = "IN"
                        /\ e.kind = "out" => interest[e.fd] = "OUT"
    /\ pc \in {"recv", "process"} => interest[cur] = "IN"
    /\ pc = "send" => interest[cur] = "OUT"

(* The inductive invariant behind the safety properties.                   *)
IInv ==
    /\ TypeOK
    /\ ConnectionLimit
    /\ TableAgrees
    /\ NoStaleEvent
    /\ EdgeNotLost
    /\ RequestIntact
    /\ BacklogIntact
    /\ HandlerRuns
    /\ RightDirection

(***************************************************************************)
(* The server keeps the contract of ConnectionContract.                    *)
(***************************************************************************)
Answering ==
    {p \in Peer : \E fd \in Fd : owner[fd] = p /\ conn[fd].state = "WRITING_RESPONSE"}

Silent == {p \in Peer : \E fd \in Fd : owner[fd] = p /\ conn[fd].idle > ConnectionTimeout}

(* Peers whose response EPOLL_CTL_MOD failed to have sent.                 *)
Undeliverable ==
    {p \in Peer : \E fd \in Fd :
        owner[fd] = p /\ conn[fd].state = "WRITING_RESPONSE" /\ interest[fd] = "IN"}

(* A connection is closed for a reason: its answer is delivered, its peer  *)
(* has left, or its response cannot be sent. Between two events no         *)
(* connection is in the first or the last of these states. This is what    *)
(* KeepsContract rests on besides IInv.                                    *)
ClosedForReason ==
    /\ \A fd \in clients :
           /\ interest[fd] = "OUT" => conn[fd].state = "WRITING_RESPONSE"
           /\ Delivered(fd) =>
                  fd = cur /\ pc \in {"send", "close"} /\ interest[fd] = "OUT"
           /\ conn[fd].state = "WRITING_RESPONSE" /\ interest[fd] = "IN" =>
                  fd = cur /\ pc = "close"
    /\ \A e \in batch : e.kind = "hup" => HasReset(e.who)
    /\ pc = "close" =>
           \/ Delivered(cur)
           \/ leaving[owner[cur]] # "stay"
           \/ owner[cur] \in Undeliverable

ContractStatus ==
    [p \in Peer |-> IF phase[p] # "open" THEN phase[p]
                    ELSE IF p \in Answering THEN "answering" ELSE "reading"]

Contract == INSTANCE ConnectionContract WITH
    status <- ContractStatus,
    sent <- {p \in Peer : todo[p] = 0},
    gone <- {p \in Peer : leaving[p] # "stay"},
    expired <- Silent,
    broken <- Undeliverable,
    open <- ~Ended,
    up <- ~Ended

(* Every step of the loop is one the contract allows: a peer is admitted   *)
(* under the limit, refused at it, answered after its whole request, and   *)
(* dropped only if it left, was silent too long, or the process ended.     *)
KeepsContract == Contract!Spec

(***************************************************************************)
(* Liveness.                                                               *)
(***************************************************************************)

(* A peer that has sent its whole request is not left waiting (LiveSpec):  *)
(* the edge-triggered loop neither forgets an arrival nor a full buffer.   *)
Answered == \A p \in Peer : (phase[p] = "open" /\ todo[p] = 0) ~> phase[p] # "open"

(* A peer that stops half-way through its request, or does not read its    *)
(* answer, does not keep its connection (IdleSpec, lines 193-198).         *)
IdleClosed == \A p \in Peer : phase[p] = "open" ~> phase[p] # "open"

(* Nobody waits in the backlog for ever, even while all descriptors are in *)
(* use (IdleSpec): the level-triggered listener keeps being reported.      *)
Admitted == \A p \in Peer : phase[p] = "queued" ~> phase[p] # "queued"

(***************************************************************************)
(* What the sources and the tutorial say and the code does not keep.       *)
(***************************************************************************)

(* A failed send closes that one connection (server_epoll.cpp:316): it     *)
(* does not end the process.                                               *)
SurvivesFailedSend == pc # "killed"

===============================================================================
