------------------------------ MODULE Api_proofs ------------------------------
(***************************************************************************)
(* What a request may write, for any set of requests, bodies and ids: only *)
(* the table that its path names. This rests on one fact: a statement that *)
(* changes a table is sent only for a message whose type has a handler of  *)
(* processor.cpp. And which requests AP does not outlive: only those that  *)
(* keep something back.                                                    *)
(***************************************************************************)
EXTENDS Api, TLAPS

-----------------------------------------------------------------------------
(* The inductive invariant: what has come as far as a statement has passed *)
(* the dispatch of processRequest, and the tables keep their names.        *)
Dispatched ==
    /\ step = "query" => Handled
    /\ DOMAIN rows = Table

LEMMA UserIsATable == Table = {"user", "product", "order"}
BY DEF Table

(* Only a statement changes a table, and only the table of its message.    *)
LEMMA EffectOnTable ==
    ASSUME Dispatched, Effect
    PROVE  /\ DOMAIN rows' = Table
           /\ \A t \in Table : t # table => rows'[t] = rows[t]
<1>1. CASE \E i \in Id : Insert(i)
  BY <1>1 DEF Insert, Dispatched
<1>2. CASE UpdateRow
  BY <1>2 DEF UpdateRow, Dispatched
<1>3. CASE DeleteRow
  BY <1>3 DEF DeleteRow, Dispatched
<1>. QED  BY <1>1, <1>2, <1>3 DEF Effect

(* The message is a function of the request.                               *)
LEMMA SameMessage ==
    ASSUME UNCHANGED request
    PROVE  msg' = msg /\ (Handled' <=> Handled)
BY DEF msg, Handled

LEMMA WhoWrites ==
    ASSUME Next
    PROVE  rows' = rows \/ (step = "query" /\ Effect)
BY DEF Next, Ask, Preflight, NotFound, HandleLocally, Forward, InDisp, Abort, Dies, Reject,
       Decide, Get, List, SelectFails, Query, QueryFails, CreateSucceeds, ChangeSucceeds, Done,
       AbortAfterInsert, Disconnect, Exit, ApStart, NextSecond, tableVars

LEMMA ToQuery ==
    ASSUME Next, step' = "query"
    PROVE  UNCHANGED request /\ (Decide \/ step = "query")
BY DEF Next, Ask, Preflight, NotFound, HandleLocally, Forward, InDisp, Abort, Dies, Reject,
       Decide, Get, List, SelectFails, Query, QueryFails, CreateSucceeds, ChangeSucceeds, Done,
       AbortAfterInsert, Disconnect, Exit, ApStart, NextSecond, tableVars, Reply, Found

LEMMA DispatchedInductive == ASSUME Dispatched, [Next]_vars PROVE Dispatched'
<1>1. CASE UNCHANGED vars
  BY <1>1, SameMessage DEF Dispatched, vars, tableVars
<1>2. CASE Next
  <2>1. DOMAIN rows' = Table
    BY <1>2, WhoWrites, EffectOnTable DEF Dispatched
  <2>2. ASSUME step' = "query" PROVE Handled'
    <3>1. UNCHANGED request /\ (Decide \/ step = "query")
      BY <1>2, <2>2, ToQuery
    <3>2. Handled
      BY <3>1 DEF Decide, Rejected, Dispatched
    <3>. QED  BY <3>1, <3>2, SameMessage
  <2>. QED  BY <2>1, <2>2 DEF Dispatched
<1>. QED  BY <1>1, <1>2

(* An operation that has a handler and reaches a statement is not one on   *)
(* the users.                                                              *)
LEMMA HandledNotUser ==
    ASSUME Handled, Effect
    PROVE  /\ table \in {"product", "order"}
           /\ operation \in {"create", "update", "updateStatus", "delete"}
<1>1. operation \in {"create", "update", "updateStatus", "delete"}
  BY DEF Effect
<1>2. msg.type = <<table, operation>> /\ table \in Table
  BY UserIsATable DEF Handled, Registered, table, operation
<1>3. table # "user"
  BY <1>1, <1>2 DEF Handled, Registered, Overridden
<1>. QED  BY <1>1, <1>2, <1>3, UserIsATable

-----------------------------------------------------------------------------
(* Whatever comes to a statement has a handler of processor.cpp:601-617    *)
(* that main.cpp has not replaced.                                         *)
THEOREM OnlyHandledReachTables == Spec => []Dispatched
<1>1. Init => Dispatched
  BY DEF Init, Dispatched
<1>. QED  BY <1>1, DispatchedInductive, PTL DEF Spec

(* The type of a message whose body brings none is the one its method and  *)
(* path ask for.                                                           *)
LEMMA TypeOfRequest ==
    ASSUME "type" \notin DOMAIN request.body
    PROVE  msg.type = RequestType(request.method, request.path)
BY DEF msg, Message

(* A body without a type of its own changes rows only of the table that    *)
(* its path names, and only by a method that is meant to.                  *)
THEOREM WritesConfined == Spec => Confined
<1>1. ASSUME Dispatched, [Next]_vars, rows' # rows, "type" \notin DOMAIN request.body
      PROVE  /\ request.method \in {"POST", "PUT", "PATCH", "DELETE"}
             /\ \A t \in Table : rows'[t] # rows[t] => t = Head(request.path)
  <2>1. step = "query" /\ Effect
    BY <1>1, WhoWrites DEF vars, tableVars
  <2>2. operation \in {"create", "update", "updateStatus", "delete"}
    BY <2>1 DEF Effect
  <2>3. /\ table = Head(request.path)
        /\ operation \notin {"get", "list", "unknown"}
    BY <1>1, <2>2, TypeOfRequest DEF table, RequestType
  <2>4. request.method \in {"POST", "PUT", "PATCH", "DELETE"}
    BY <1>1, <2>2, TypeOfRequest DEF operation, RequestType
  <2>. QED  BY <1>1, <2>1, <2>3, <2>4, EffectOnTable
<1>. QED  BY <1>1, OnlyHandledReachTables, PTL DEF Spec, Confined

-----------------------------------------------------------------------------
(* What ends AP.                                                           *)

(* Only a request whose path is that of a table comes as far as AP.        *)
Reached ==
    /\ request \in Request
    /\ step \in {"ap", "query", "result"} => \E t \in Table : request.path = <<t>>

LEMMA ReachedInductive == ASSUME Reached, [Next]_vars PROVE Reached'
<1>1. CASE \E r \in Request : Ask(r)
  BY <1>1 DEF Ask, Reached
<1>2. CASE Forward
  BY <1>2 DEF Forward, InDisp, Reply, Routed, Routes, Local, Table, Reached
<1>3. CASE UNCHANGED <<request, step>>
  BY <1>3 DEF Reached
<1>4. CASE request' = request /\ step' = "replied"
  BY <1>4 DEF Reached
<1>5. CASE request' = request /\ step \in {"ap", "query", "result"}
  BY <1>5 DEF Reached
<1>. QED
  BY <1>1, <1>2, <1>3, <1>4, <1>5
     DEF Next, Preflight, NotFound, HandleLocally, InDisp, Abort, Dies, Reject, Decide, Get, List,
         SelectFails, Found, Query, QueryFails, CreateSucceeds, ChangeSucceeds, Done,
         AbortAfterInsert, Disconnect, Exit, ApStart, NextSecond, Reply, vars

LEMMA EchoedAreColumns ==
    ASSUME NEW t \in Table
    PROVE  Creates[t].echoed \subseteq Columns(t)
<1>1. CASE t = "user"
  BY <1>1 DEF Creates, UserCreate, Columns
<1>2. CASE t = "product"
  BY <1>2 DEF Creates, ProductCreate, ProductEchoed, Columns
<1>3. CASE t = "order"
  BY <1>3 DEF Creates, OrderCreate, Columns
<1>. QED  BY <1>1, <1>2, <1>3, UserIsATable

(* A handler finds every key it takes for granted in a complete request.   *)
LEMMA CompleteIsSafe ==
    ASSUME Reached, step \in {"ap", "result"}, Complete(request)
    PROVE  ~Aborts /\ Creates[table].echoed \subseteq DOMAIN msg
<1>1. PICK t \in Table : request.path = <<t>>
  BY DEF Reached
<1>2. /\ {"id"} \cup Columns(t) \subseteq DOMAIN request.body
      /\ {"type", "request_id"} \cap DOMAIN request.body = {}
  BY <1>1 DEF Complete
<1>3. /\ msg.type = RequestType(request.method, request.path)
      /\ msg.request_id = "REQ"
      /\ {"id"} \cup Columns(t) \subseteq DOMAIN msg
  BY <1>1, <1>2 DEF msg, Message
<1>4. table = t
  BY <1>1, <1>3 DEF table, RequestType
<1>5. ~Aborts
  BY <1>3, NumberAssumption DEF Aborts, Reached
<1>6. Creates[t].echoed \subseteq Columns(t)
  BY EchoedAreColumns
<1>. QED  BY <1>3, <1>4, <1>5, <1>6

LEMMA WhatEndsAp ==
    ASSUME [Next]_vars, up, ~up'
    PROVE  Abort \/ AbortAfterInsert \/ Exit
BY DEF Next, Ask, Preflight, NotFound, HandleLocally, Forward, InDisp, Reject, Decide, Get, List,
       SelectFails, Query, QueryFails, CreateSucceeds, ChangeSucceeds, Done, Disconnect, ApStart,
       NextSecond, vars, tableVars, apVars

(* While main has not begun to leave, AP ends only in a request that keeps *)
(* something back: the id, a column, a text where a text belongs, or that  *)
(* brings a type of its own (processor.cpp:305, 499; the json library's    *)
(* assertion).                                                             *)
THEOREM CompleteRequestsSurvived == Spec => Survives
<1>1. Init => Reached
  BY DEF Init, Reached
<1>2. ASSUME Reached, [Next]_vars, up, connected, ~up' PROVE ~Complete(request)
  BY <1>2, WhatEndsAp, CompleteIsSafe DEF Abort, AbortAfterInsert, Exit
<1>. QED  BY <1>1, <1>2, ReachedInductive, PTL DEF Spec, Survives

===============================================================================
