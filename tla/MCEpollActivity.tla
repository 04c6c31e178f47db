--------------------------- MODULE MCEpollActivity ---------------------------
(***************************************************************************)
(* EpollServer with a clock of its own for each peer, to tell what the     *)
(* peer did from what the server has noticed. Time passes here only where  *)
(* the thread can really spend it: in epoll_wait while nothing is ready,   *)
(* and in a route handler, where forwardToAp (request_handler.cpp:230)     *)
(* waits seconds for the AP.                                               *)
(***************************************************************************)
EXTENDS MCEpollServer

VARIABLE silent     \* [Peer -> ticks since the peer last sent something];
                    \* past the timeout it stays there

MCInit == Init /\ silent = [p \in Peer |-> 0]

ThreadWaits ==
    \/ pc = "process"
    \/ pc = "wait" /\ Queued = {} /\ \A fd \in ready : Revents(fd) = "none"

Aged(p) == IF silent[p] <= ConnectionTimeout THEN silent[p] + 1 ELSE silent[p]

TickAll ==
    /\ ThreadWaits
    /\ Tick
    /\ silent' = [p \in Peer |-> IF phase[p] = "open" THEN Aged(p) ELSE 0]

Hear(p) ==
    /\ PeerSend(p)
    /\ silent' = [silent EXCEPT ![p] = IF @ <= ConnectionTimeout THEN 0 ELSE @]

Others ==
    /\ \/ Loop
       \/ \E p \in Peer : PeerConnect(p) \/ PeerRecv(p) \/ PeerFin(p) \/ PeerReset(p)
    /\ UNCHANGED silent

MCNext == TickAll \/ Others \/ \E p \in Peer : Hear(p)

MCSpec == MCInit /\ [][MCNext]_<<vars, silent>>

(* lastActivity is "the time of the last activity" (server_epoll.h:27) and *)
(* the cleanup of line 376 is for connections that were without it for     *)
(* longer than connectionTimeout: a peer that was never silent for longer  *)
(* than the timeout keeps its connection through the cleanup.              *)
SparesActive ==
    [][\A p \in Peer :
          pc = "clean" /\ pc' = "wait" /\ phase[p] = "open"
             /\ silent[p] <= ConnectionTimeout
          => phase'[p] = "open"]_<<vars, silent>>

===============================================================================
