-------------------------- MODULE ConnectionContract --------------------------
(***************************************************************************)
(* What a server of IServer (include/disp/iserver.h) promises the peers    *)
(* that connect to it, whatever its threads, buffers and descriptors:      *)
(*                                                                         *)
(*   - it serves at most MaxConnections of them at a time, and turns one   *)
(*     away only while it serves that many or once its door is closed;     *)
(*   - it answers only a peer that has sent what it waits for (sent);      *)
(*   - it abandons a peer it admitted for a reason: the peer left, the     *)
(*     peer was silent for too long, a system call failed, or the server   *)
(*     itself came to its end.                                             *)
(***************************************************************************)
EXTENDS Naturals, FiniteSets

CONSTANTS
    Peer,               \* the clients; each of them connects once
    MaxConnections,     \* setMaxConnections
    Faults              \* TRUE when system calls on a connection may fail

VARIABLES
    status,     \* [Peer -> Status], how far the server is with the peer
    sent,       \* peers that have sent what the server waits for
    gone,       \* peers that closed or reset their connection
    expired,    \* peers without activity for longer than the timeout
    broken,     \* peers whose connection a failed system call made useless
    open,       \* TRUE while a peer may connect
    up          \* FALSE once the server has come to its end

vars == <<status, sent, gone, expired, broken, open, up>>

Status == {"away", "queued", "reading", "answering",
           "answered", "dropped", "refused"}

Served == {p \in Peer : status[p] \in {"reading", "answering"}}

TypeOK ==
    /\ status \in [Peer -> Status]
    /\ sent \subseteq Peer
    /\ gone \subseteq Peer
    /\ expired \subseteq Peer
    /\ broken \subseteq Peer
    /\ open \in BOOLEAN
    /\ up \in BOOLEAN

Init ==
    /\ status = [p \in Peer |-> "away"]
    /\ sent = {}
    /\ gone = {}
    /\ expired = {}
    /\ broken = {}
    /\ open = TRUE
    /\ up = TRUE

(***************************************************************************)
(* What the peers and the clock do.                                        *)
(***************************************************************************)
Connect(p) ==
    /\ open
    /\ status[p] = "away"
    /\ status' = [status EXCEPT ![p] = "queued"]
    /\ UNCHANGED <<sent, gone, expired, broken, open, up>>

Ask(p) ==
    /\ sent' = sent \cup {p}
    /\ UNCHANGED <<status, gone, expired, broken, open, up>>

Leave(p) ==
    /\ gone' = gone \cup {p}
    /\ UNCHANGED <<status, sent, expired, broken, open, up>>

Age(S) ==
    /\ S \subseteq Served
    /\ expired' = expired \cup S
    /\ UNCHANGED <<status, sent, gone, broken, open, up>>

(***************************************************************************)
(* What the server does. Any activity on a connection, and the end of it,  *)
(* may take its peer out of expired.                                       *)
(***************************************************************************)
Admit(p) ==
    /\ up
    /\ status[p] = "queued"
    /\ Cardinality(Served) < MaxConnections
    /\ status' = [status EXCEPT ![p] = "reading"]
    /\ UNCHANGED <<sent, gone, expired, broken, open, up>>

Refuse(p) ==
    /\ up
    /\ status[p] = "queued"
    /\ Cardinality(Served) >= MaxConnections \/ Faults \/ ~open
    /\ status' = [status EXCEPT ![p] = "refused"]
    /\ UNCHANGED <<sent, gone, expired, broken, open, up>>

Touch(p) ==
    /\ up
    /\ p \in Served
    /\ expired' = expired \ {p}
    /\ UNCHANGED <<status, sent, gone, broken, open, up>>

Process(p) ==
    /\ up
    /\ status[p] = "reading"
    /\ p \in sent
    /\ status' = [status EXCEPT ![p] = "answering"]
    /\ expired' \in {expired, expired \ {p}}
    /\ \/ broken' = broken
       \/ Faults /\ broken' = broken \cup {p}
    /\ UNCHANGED <<sent, gone, open, up>>

Answer(p) ==
    /\ up
    /\ status[p] = "answering"
    /\ status' = [status EXCEPT ![p] = "answered"]
    /\ p \notin broken
    /\ expired' = expired \ {p}
    /\ UNCHANGED <<sent, gone, broken, open, up>>

Drop(S) ==
    /\ up
    /\ S \subseteq Served
    /\ \A p \in S : p \in gone \/ p \in expired \/ p \in broken
    /\ status' = [p \in Peer |-> IF p \in S THEN "dropped" ELSE status[p]]
    /\ expired' = expired \ S
    /\ broken' = broken \ S
    /\ UNCHANGED <<sent, gone, open, up>>

(* No more peers: those that nobody has taken up yet are turned away.      *)
Close(S) ==
    /\ up
    /\ open' = FALSE
    /\ status' = [p \in Peer |-> IF p \in S /\ status[p] = "queued"
                                THEN "refused" ELSE status[p]]
    /\ UNCHANGED <<sent, gone, expired, broken, up>>

(* The end of the process, ordered or not: whoever waits is turned away.   *)
(* A peer whose last bytes were already handed to the kernel is answered.  *)
End(done) ==
    /\ up
    /\ up' = FALSE
    /\ open' = FALSE
    /\ done \subseteq {p \in Peer : status[p] = "answering"}
    /\ status' = [p \in Peer |->
                    IF p \in done THEN "answered"
                    ELSE IF p \in Served THEN "dropped"
                    ELSE IF status[p] = "queued" THEN "refused"
                    ELSE status[p]]
    /\ expired' = {}
    /\ broken' = {}
    /\ UNCHANGED <<sent, gone>>

Next ==
    \/ \E p \in Peer : Connect(p) \/ Ask(p) \/ Leave(p)
    \/ \E p \in Peer : Admit(p) \/ Refuse(p) \/ Touch(p)
    \/ \E p \in Peer : Process(p) \/ Answer(p)
    \/ \E S \in SUBSET Peer : Age(S) \/ Drop(S) \/ Close(S) \/ End(S)

Spec == Init /\ [][Next]_vars

===============================================================================
