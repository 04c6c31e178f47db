----------------------------- MODULE ForwardPath ------------------------------
(***************************************************************************)
(* The way of a request through the two processes: forwardToAp in DISP     *)
(* (disp/request_handler.cpp), serviceLoop and processRequest in AP        *)
(* (ap/processor.cpp), executeQuery (ap/db_manager.cpp) and MySQL.         *)
(*                                                                         *)
(* Every request here asks for one change of the database (the handlers    *)
(* that write run exactly one statement each) and is forwarded once, over  *)
(* a TCP connection of its own:                                            *)
(*                                                                         *)
(*   DISP   connect, send, one recv that waits at most 5 s, close          *)
(*   AP     accept, one recv without a limit, the handler, send, close,    *)
(*          one connection after the other                                 *)
(*                                                                         *)
(* forward[r] says where DISP is with r and, in the end, what the client   *)
(* was told. ap is the next call of AP's service thread, which works for   *)
(* the request serving. Both processes may come to their end at any time.  *)
(***************************************************************************)
EXTENDS Naturals, Sequences, FiniteSets

CONSTANTS
    Request,        \* changes the clients ask for
    NoRequest,      \* serving, between two connections
    Workers,        \* DISP threads that may be inside forwardToAp at once
    Backlog         \* connections AP's kernel keeps for accept

ASSUME ForwardAssumption ==
    /\ NoRequest \notin Request
    /\ IsFiniteSet(Request)
    /\ Workers \in Nat \ {0}
    /\ Backlog \in Nat \ {0}

VARIABLES
    (* DISP *)
    forward,    \* [Request -> Step]
    (* the connections *)
    backlog,    \* Seq(Request), established and not yet accepted
    inbox,      \* requests waiting in AP's receive buffers
    answer,     \* [Request -> Answer], what waits in DISP's receive buffers
    hungup,     \* requests whose connection AP has closed or lost
    (* AP *)
    ap,
    serving,
    response,   \* Answer, the local of serviceLoop
    running,    \* Processor::running
    connected,  \* DBManager::connected
    (* MySQL *)
    executing,  \* statements received and not finished
    applied,    \* Seq(Request), the changes made
    (* history *)
    order,      \* Seq(Request), in the order their connections were made
    orphaned    \* requests whose statement was left alone with MySQL

netVars == <<backlog, inbox, answer, hungup>>
apVars == <<ap, serving, response, running, connected>>
dbVars == <<executing, applied>>
vars == <<forward, netVars, apVars, dbVars, order, orphaned>>

Step == {"new", "connect", "send", "recv", "ok", "failed"}
Answer == {"none", "ok", "error"}
Label == {"accept", "recv", "handle", "query", "send", "ended", "down"}

Forwarding == {r \in Request : forward[r] \in {"connect", "send", "recv"}}
Applied == {applied[i] : i \in DOMAIN applied}
InBacklog == {backlog[i] : i \in DOMAIN backlog}

(* The listening socket is closed when serviceLoop returns (line 789).     *)
Listening == ap \notin {"ended", "down"}

TypeOK ==
    /\ forward \in [Request -> Step]
    /\ backlog \in Seq(Request) /\ Len(backlog) <= Backlog
    /\ inbox \subseteq Request
    /\ answer \in [Request -> Answer]
    /\ hungup \subseteq Request
    /\ ap \in Label
    /\ serving \in Request \cup {NoRequest}
    /\ response \in Answer
    /\ running \in BOOLEAN
    /\ connected \in BOOLEAN
    /\ executing \subseteq Request
    /\ applied \in Seq(Request)
    /\ order \in Seq(Request)
    /\ orphaned \subseteq Request

(* AP has been started: connected to MySQL, listening, in its first accept. *)
Init ==
    /\ forward = [r \in Request |-> "new"]
    /\ backlog = <<>>
    /\ inbox = {}
    /\ answer = [r \in Request |-> "none"]
    /\ hungup = {}
    /\ ap = "accept"
    /\ serving = NoRequest
    /\ response = "none"
    /\ running = TRUE
    /\ connected = TRUE
    /\ executing = {}
    /\ applied = <<>>
    /\ order = <<>>
    /\ orphaned = {}

-----------------------------------------------------------------------------
(* DISP: forwardToAp, called by a route handler.                           *)

Begin(r) ==
    /\ forward[r] = "new"
    /\ Cardinality(Forwarding) < Workers
    /\ forward' = [forward EXCEPT ![r] = "connect"]
    /\ UNCHANGED <<netVars, apVars, dbVars, order, orphaned>>

(* listen(serverSocket, 10).                                               *)
HasRoom_OffByOne == Len(backlog) <= Backlog
HasRoom == Len(backlog) < Backlog

Connect(r) ==
    /\ forward[r] = "connect"
    /\ Listening
    /\ HasRoom
    /\ forward' = [forward EXCEPT ![r] = "send"]
    /\ backlog' = Append(backlog, r)
    /\ order' = Append(order, r)
    /\ UNCHANGED <<inbox, answer, hungup, apVars, dbVars, orphaned>>

(* Refused, or no room in the backlog for the 5 s of SO_SNDTIMEO.          *)
ConnectFails(r) ==
    /\ forward[r] = "connect"
    /\ ~Listening \/ ~HasRoom
    /\ forward' = [forward EXCEPT ![r] = "failed"]
    /\ UNCHANGED <<netVars, apVars, dbVars, order, orphaned>>

(* What is sent to a connection that AP has lost arrives nowhere.          *)
Send(r) ==
    /\ forward[r] = "send"
    /\ forward' = [forward EXCEPT ![r] = "recv"]
    /\ inbox' = IF r \in hungup THEN inbox ELSE inbox \cup {r}
    /\ UNCHANGED <<backlog, answer, hungup, apVars, dbVars, order, orphaned>>

SendFails(r) ==
    /\ forward[r] = "send"
    /\ r \in hungup
    /\ forward' = [forward EXCEPT ![r] = "failed"]
    /\ UNCHANGED <<netVars, apVars, dbVars, order, orphaned>>

(* AP's answer is passed on to the client word for word.                   *)
Recv(r) ==
    /\ forward[r] = "recv"
    /\ answer[r] # "none"
    /\ forward' = [forward EXCEPT ![r] = IF answer[r] = "ok" THEN "ok" ELSE "failed"]
    /\ answer' = [answer EXCEPT ![r] = "none"]
    /\ UNCHANGED <<backlog, inbox, hungup, apVars, dbVars, order, orphaned>>

(* recv returns 0 or -1: AP closed, the connection broke, or SO_RCVTIMEO   *)
(* ran out, which it may do at any time, AP's delays having no bound.      *)
RecvGivesUp_NoTimeout(r) == r \in hungup  \* without the setsockopt of line 230
RecvGivesUp(r) == TRUE

RecvFails(r) ==
    /\ forward[r] = "recv"
    /\ answer[r] = "none"
    /\ RecvGivesUp(r)
    /\ forward' = [forward EXCEPT ![r] = "failed"]
    /\ UNCHANGED <<netVars, apVars, dbVars, order, orphaned>>

(* DISP comes to its end in the middle of its work and is started again:   *)
(* its clients lose their connections, AP keeps what it has received.      *)
DispDies ==
    /\ Forwarding # {}
    /\ forward' = [r \in Request |-> IF r \in Forwarding THEN "failed" ELSE forward[r]]
    /\ answer' = [r \in Request |-> "none"]
    /\ UNCHANGED <<backlog, inbox, hungup, apVars, dbVars, order, orphaned>>

-----------------------------------------------------------------------------
(* AP: serviceLoop.                                                        *)

(* close(clientSocket) and back to the test of running; once that fails,   *)
(* close(serverSocket) resets the connections of the backlog.              *)
EndRound ==
    /\ serving' = NoRequest
    /\ response' = "none"
    /\ ap' = IF running THEN "accept" ELSE "ended"
    /\ backlog' = IF running THEN backlog ELSE <<>>
    /\ inbox' = IF running THEN inbox ELSE {}
    /\ hungup' = hungup \cup {serving} \cup (IF running THEN {} ELSE InBacklog)

(* The connection accept returns: the one that has waited longest.         *)
Accepted_Newest ==  \* a stack of connections
    [next |-> backlog[Len(backlog)], rest |-> SubSeq(backlog, 1, Len(backlog) - 1)]
Accepted == [next |-> Head(backlog), rest |-> Tail(backlog)]

ApAccept ==
    /\ ap = "accept"
    /\ backlog # <<>>
    /\ serving' = Accepted.next
    /\ backlog' = Accepted.rest
    /\ ap' = "recv"
    /\ UNCHANGED <<forward, inbox, answer, hungup, response, running, connected,
                   dbVars, order, orphaned>>

ApRecv ==
    /\ ap = "recv"
    /\ serving \in inbox
    /\ inbox' = inbox \ {serving}
    /\ ap' = "handle"
    /\ UNCHANGED <<forward, backlog, answer, hungup, serving, response, running,
                   connected, dbVars, order, orphaned>>

(* bytesRead <= 0: DISP was gone before it had sent the request.           *)
EndOfStream_Ignored(r) == FALSE  \* recv's 0 taken for "nothing yet"
EndOfStream(r) == r \notin inbox /\ forward[r] \in {"ok", "failed"}

ApRecvEnds ==
    /\ ap = "recv"
    /\ EndOfStream(serving)
    /\ EndRound
    /\ UNCHANGED <<forward, answer, running, connected, dbVars, order, orphaned>>

(* An error before any statement: JSON, type, fields, no database.         *)
ApRejects ==
    /\ ap = "handle"
    /\ response' = "error"
    /\ ap' = "send"
    /\ UNCHANGED <<forward, netVars, serving, running, connected, dbVars, order, orphaned>>

(* executeQuery: mysql_query sends the statement.                          *)
ApQueries ==
    /\ ap = "handle"
    /\ connected
    /\ executing' = executing \cup {serving}
    /\ ap' = "query"
    /\ UNCHANGED <<forward, netVars, serving, response, running, connected,
                   applied, order, orphaned>>

(* mysql_query returned 0.                                                 *)
QuerySucceeded_Unchecked(r) == r \notin executing  \* result not looked at
QuerySucceeded(r) == r \in Applied

ApQueryDone ==
    /\ ap = "query"
    /\ QuerySucceeded(serving)
    /\ response' = "ok"
    /\ ap' = "send"
    /\ UNCHANGED <<forward, netVars, serving, running, connected, dbVars, order, orphaned>>

(* MySQL refused the statement, or its connection was lost before the      *)
(* answer came: then the statement may or may not take effect, even later. *)
(* Or it took effect, and getAffectedRows comes after main's disconnect.   *)
ApQueryFails ==
    /\ ap = "query"
    /\ response' = "error"
    /\ ap' = "send"
    /\ orphaned' = orphaned \cup (executing \cap {serving})
    /\ UNCHANGED <<forward, netVars, serving, running, connected, dbVars, order>>

(* send and close. The answer of a request DISP has given up is lost.      *)
ApReplies ==
    /\ ap = "send"
    /\ answer' = IF forward[serving] = "recv"
                 THEN [answer EXCEPT ![serving] = response] ELSE answer
    /\ EndRound
    /\ UNCHANGED <<forward, running, connected, dbVars, order, orphaned>>

-----------------------------------------------------------------------------
(* AP: the process.                                                        *)

(* SIGTERM. A thread blocked in accept stays there until a connection comes. *)
StopService ==
    /\ running
    /\ running' = FALSE
    /\ UNCHANGED <<forward, netVars, ap, serving, response, connected,
                   dbVars, order, orphaned>>

(* main sees running fall and closes the database under the service thread. *)
Disconnect ==
    /\ ap # "down"
    /\ ~running
    /\ connected
    /\ connected' = FALSE
    /\ UNCHANGED <<forward, netVars, ap, serving, response, running,
                   dbVars, order, orphaned>>

(* The kernel closes what the process had open.                            *)
ApEnds ==
    /\ ap' = "down"
    /\ serving' = NoRequest
    /\ response' = "none"
    /\ running' = FALSE
    /\ connected' = FALSE
    /\ backlog' = <<>>
    /\ inbox' = {}
    /\ hungup' = hungup \cup InBacklog \cup ({serving} \cap Request)
    /\ orphaned' = orphaned \cup (executing \cap {serving})
    /\ UNCHANGED <<forward, answer, dbVars, order>>

(* main returns, wherever the detached service thread is.                  *)
ApExits ==
    /\ ap # "down"
    /\ ~running
    /\ ~connected
    /\ ApEnds

(* A type or request_id that is no string: an exception serviceLoop does   *)
(* not catch. A key product.create misses after its INSERT: an assertion   *)
(* of the json library. A mysql_close under mysql_query: anything.         *)
ApAborts ==
    /\ \/ ap = "handle"
       \/ ap = "query" /\ serving \in Applied
       \/ ap = "query" /\ ~connected
    /\ ApEnds

ApStart ==
    /\ ap = "down"
    /\ ap' = "accept"
    /\ running' = TRUE
    /\ connected' = TRUE
    /\ UNCHANGED <<forward, netVars, serving, response, dbVars, order, orphaned>>

-----------------------------------------------------------------------------
(* MySQL finishes a statement, with or without effect, its client there or *)
(* gone.                                                                   *)
DbApply(r) ==
    /\ r \in executing
    /\ executing' = executing \ {r}
    /\ applied' = Append(applied, r)
    /\ UNCHANGED <<forward, netVars, apVars, order, orphaned>>

DbRefuse(r) ==
    /\ r \in executing
    /\ executing' = executing \ {r}
    /\ UNCHANGED <<forward, netVars, apVars, applied, order, orphaned>>

-----------------------------------------------------------------------------
Disp(r) ==
    \/ Connect(r) \/ ConnectFails(r)
    \/ Send(r) \/ SendFails(r)
    \/ Recv(r) \/ RecvFails(r)

ServiceLoop ==
    \/ ApAccept
    \/ ApRecv \/ ApRecvEnds
    \/ ApRejects \/ ApQueries
    \/ ApQueryDone \/ ApQueryFails
    \/ ApReplies

ApProcess == StopService \/ Disconnect \/ ApExits \/ ApAborts \/ ApStart

Next ==
    \/ \E r \in Request : Begin(r) \/ Disp(r)
    \/ DispDies
    \/ ServiceLoop
    \/ ApProcess
    \/ \E r \in Request : DbApply(r) \/ DbRefuse(r)

Spec == Init /\ [][Next]_vars

(* DISP's threads run and their timeouts run out; AP may do nothing.       *)
DispSpec == Spec /\ \A r \in Request : WF_vars(Disp(r))

(* AP's service thread and main thread run, and MySQL answers or its       *)
(* connection breaks: mysql_query itself would wait for ever.              *)
ApRuns == WF_vars(ServiceLoop) /\ WF_vars(Disconnect) /\ WF_vars(ApExits)

-----------------------------------------------------------------------------
(***************************************************************************)
(* Properties.                                                             *)
(***************************************************************************)

(* The two processes together implement OrderStore: a client is told "ok"  *)
(* only for a change MySQL has made, and no change is made twice, whatever *)
(* times out, dies, restarts or loses its connection in between.           *)
Told ==
    [r \in Request |->
        IF forward[r] = "new" THEN "nothing"
        ELSE IF r \in Forwarding THEN "waiting" ELSE forward[r]]

Store == INSTANCE OrderStore WITH told <- Told

KeepsStore == Store!Spec

(* Changes are made in the order their connections to AP were made, those  *)
(* included that DISP had given up: a late one never overtakes an earlier  *)
(* one. Only a statement left alone with MySQL may come at any time.       *)
Before == {pair \in Request \X Request :
             \E i, j \in DOMAIN order : i < j /\ pair = <<order[i], order[j]>>}

InOrder ==
    \A i, j \in DOMAIN applied :
        i < j /\ {applied[i], applied[j]} \cap orphaned = {}
            => <<applied[i], applied[j]>> \in Before

(* No forward goes on for ever: each ends with an answer to the client     *)
(* within the timeouts, whatever AP and MySQL do or fail to do (DispSpec). *)
Replied == \A r \in Request : []<>(r \notin Forwarding)

(* No connection waits in AP's backlog for ever if AP runs, although its   *)
(* recv has no timeout: each is taken up or reset, even when DISP dies     *)
(* between connect and send (processor.cpp:736).                           *)
Drained == ApRuns => \A r \in Request : []<>(r \notin InBacklog)

-----------------------------------------------------------------------------
(* The inductive invariant behind KeepsStore and InOrder.                  *)

(* AP serves a request from accept to close, and only then.                *)
ServingWhileBusy == serving # NoRequest <=> ap \in {"recv", "handle", "query", "send"}

(* A request that has not been connected has left no trace, and one that   *)
(* AP has not come to, or whose statement it has not sent, no effect.      *)
NotYetConnected(r) == forward[r] \in {"new", "connect"}
NotYetQueried(r) == r \in InBacklog \/ (r = serving /\ ap \in {"recv", "handle"})

OneStage ==
    /\ \A r \in Request : NotYetConnected(r) =>
           r \notin InBacklog \cup {serving} \cup executing \cup Applied
    /\ \A r \in Request : NotYetQueried(r) => r \notin executing \cup Applied
    /\ serving \notin InBacklog
    /\ \A i, j \in DOMAIN backlog : backlog[i] = backlog[j] => i = j
    /\ executing \cap Applied = {}

(* Whoever says "ok" - serviceLoop's local, the answer on its way, DISP -  *)
(* says it of a change that has been made.                                 *)
Truthful ==
    /\ response = "ok" => serving \in Applied
    /\ \A r \in Request : answer[r] = "ok" \/ forward[r] = "ok" => r \in Applied

(* Whoever has a connection comes after those connected before it: the     *)
(* changes made, the request being served, the backlog from head to tail.  *)
Ordered == {order[i] : i \in DOMAIN order}
Served == {serving} \cap Request
Settled == Applied \ (orphaned \cup Served)

Queueing ==
    /\ InBacklog \cup Served \cup executing \cup Applied \subseteq Ordered
    /\ \A i, j \in DOMAIN backlog : i < j => <<backlog[i], backlog[j]>> \in Before
    /\ Settled \X (Served \cup InBacklog) \subseteq Before
    /\ Served \X InBacklog \subseteq Before
    /\ \A r \in executing : r \in orphaned \/ (r = serving /\ ap = "query")

IInv == TypeOK /\ ServingWhileBusy /\ OneStage /\ Truthful /\ Queueing /\ InOrder

===============================================================================
