---------------------------- MODULE ApiTruth_proofs ----------------------------
(***************************************************************************)
(* A client is told the truth about the tables (Truthful), for any set of  *)
(* requests, bodies and ids. What the reply says is decided by the result  *)
(* of the statement, so the invariant has to follow the statement from the *)
(* moment it takes effect to the reply. The second part is about what the  *)
(* reply cannot say: MissingMeans, the reasons why a client is told that   *)
(* an object which is there does not exist.                                *)
(***************************************************************************)
EXTENDS Api_proofs

-----------------------------------------------------------------------------
(* The inductive invariant.                                                *)

(* The tables part of TypeOK; no row is under an id that was never given.  *)
RowsTyped ==
    /\ DOMAIN rows = Table
    /\ \A t \in Table : DOMAIN rows[t] = Id
    /\ \A t \in Table : \A i \in Id : rows[t][i] \in [Columns(t) -> Text[t]] \cup {NoRow}
    /\ used \in [Table -> SUBSET Id]
    /\ \A t \in Table : \A i \in Id \ used[t] : rows[t][i] = NoRow

(* Up to its statement a request has changed nothing; only one without an  *)
(* id in its path gets as far as AP, and only a sound one to a statement.  *)
Underway ==
    /\ request \in Request
    /\ step # "replied" => reply.kind = "none"
    /\ step \in {"disp", "ap", "query"} => rows = before
    /\ step \in {"ap", "query", "result"} => Len(request.path) = 1
    /\ step \in {"query", "result"} => Handled /\ ~Aborts /\ ~Rejected

(* After its statement the tables differ from before by what it did, and   *)
(* last tells whether it did anything.                                     *)
DidCreate ==
    step = "result" /\ operation = "create" =>
        \E i \in Id : /\ last.id = i
                      /\ OnlyThis(table, i)
                      /\ before[table][i] = NoRow
                      /\ rows[table][i] = NewRow

DidDelete ==
    step = "result" /\ operation = "delete" /\ last.affected =>
        Deleted(table, request.body.id)

DidChange ==
    step = "result" /\ operation \in {"update", "updateStatus"} /\ last.affected =>
        Changed(table, request.body.id, request.body)

Statement == step = "result" => Writes

Last == [ok : BOOLEAN, id : Id \cup {"0"}, affected : BOOLEAN]

TInv ==
    /\ TypeOK /\ RowsTyped /\ last \in Last
    /\ Underway
    /\ Statement /\ DidCreate /\ DidDelete /\ DidChange
    /\ Truthful

-----------------------------------------------------------------------------
(* The message and the body.                                               *)

LEMMA ColumnsOf ==
    /\ Columns("user") = {"name", "email", "phone", "role", "status", "password"}
    /\ Columns("product") = {"name", "category", "description", "price", "stock", "status"}
    /\ Columns("order") = {"customer_name", "product_name", "quantity", "total_amount",
                           "status", "user_id"}
BY DEF Columns, Creates, UserCreate, ProductCreate, OrderCreate

LEMMA UpdateColumns ==
    /\ Updates["product"].columns = {"name", "category", "description", "price", "stock", "status"}
    /\ Updates["order"].columns = {"customer_name", "product_name", "quantity", "total_amount",
                                   "status"}
BY DEF Updates, UserUpdate, ProductUpdate, OrderUpdate

LEMMA DefaultsAreTexts ==
    ASSUME NEW t \in Table, NEW k \in Columns(t)
    PROVE  Creates[t].default[k] \in Text[t]
BY DEF Text

LEMMA ColumnsAreOwn ==
    ASSUME NEW t \in Table, NEW k \in Columns(t)
    PROVE  k \notin {"type", "request_id", "id"}
BY ColumnsOf DEF Table

(* For a column, AP's message says what the client's body says.            *)
LEMMA MessageIsBody ==
    ASSUME NEW t \in Table, NEW k \in Columns(t)
    PROVE  /\ k \in DOMAIN msg <=> k \in DOMAIN request.body
           /\ k \in DOMAIN msg => msg[k] = request.body[k]
BY ColumnsAreOwn DEF msg, Message

LEMMA MessageTexts ==
    ASSUME request \in Request, NEW t \in Table, NEW k \in Columns(t), k \in DOMAIN msg,
           msg[k] # Number
    PROVE  msg[k] \in Text[t]
<1>1. k \in DOMAIN request.body /\ msg[k] = request.body[k]
  BY MessageIsBody
<1>2. request.body[k] \in SentBy(request, t)
  BY <1>1 DEF SentBy
<1>3. request.body[k] \in Sent(t)
  BY <1>2 DEF Sent
<1>. QED  BY <1>1, <1>3 DEF Text

LEMMA IdOfBody ==
    ASSUME Len(request.path) = 1, Handled, ~Aborts, NamesRow
    PROVE  msg.id = request.body.id
<1>1. "id" \in DOMAIN msg
  BY DEF Aborts
<1>. QED  BY <1>1 DEF msg, Message

LEMMA SameWords ==
    ASSUME UNCHANGED request
    PROVE  /\ msg' = msg /\ table' = table /\ operation' = operation
           /\ (Handled' <=> Handled) /\ (Aborts' <=> Aborts) /\ (Rejected' <=> Rejected)
           /\ (Writes' <=> Writes) /\ NewRow' = NewRow
<1>1. msg' = msg /\ table' = table /\ operation' = operation /\ (Handled' <=> Handled)
  BY SameMessage DEF table, operation
<1>2. Aborts' <=> Aborts
  BY <1>1 DEF Aborts, NamesRow
<1>3. Rejected' <=> Rejected
  BY <1>1 DEF Rejected, NamesRow, CreateRejected, IllTyped, UpdateRejected, Assigned, Value
<1>4. (Writes' <=> Writes) /\ NewRow' = NewRow
  BY <1>1 DEF Writes, NewRow, Value
<1>. QED  BY <1>1, <1>2, <1>3, <1>4

-----------------------------------------------------------------------------
(* The statement.                                                          *)

(* What a row becomes is again a row of its table.                         *)
LEMMA NewRowTyped ==
    ASSUME request \in Request, Handled, ~Rejected, operation = "create", table \in Table
    PROVE  NewRow \in [Columns(table) -> Text[table]]
<1>1. ~IllTyped(Columns(table))
  BY DEF Rejected, CreateRejected
<1>2. ASSUME NEW k \in Columns(table) PROVE Value(k) \in Text[table]
  <2>1. CASE k \in DOMAIN msg
    <3>1. msg[k] # Number
      BY <1>1, <2>1 DEF IllTyped
    <3>. QED  BY <2>1, <3>1, MessageTexts DEF Value
  <2>2. CASE k \notin DOMAIN msg
    BY <2>2, DefaultsAreTexts DEF Value
  <2>. QED  BY <2>1, <2>2
<1>. QED  BY <1>2 DEF NewRow

LEMMA AssignedColumns ==
    ASSUME Handled, ~Rejected, operation \in {"update", "updateStatus"},
           table \in {"product", "order"}
    PROVE  /\ Assigned \subseteq Columns(table) \cap DOMAIN msg
           /\ \A k \in Assigned : msg[k] # Number
<1>1. CASE operation = "updateStatus"
  <2>1. table = "order"
    BY <1>1 DEF Handled, Registered, table, operation
  <2>2. "status" \in DOMAIN msg /\ msg["status"] # Number
    BY <1>1 DEF Rejected, UpdateRejected
  <2>. QED  BY <1>1, <2>1, <2>2, ColumnsOf DEF Assigned
<1>2. CASE operation = "update"
  <2>1. Assigned \subseteq Updates[table].columns \cap DOMAIN msg
    BY <1>2 DEF Assigned
  <2>2. ~IllTyped(Updates[table].columns)
    BY <1>2 DEF Rejected, UpdateRejected
  <2>3. Updates[table].columns \subseteq Columns(table)
    BY ColumnsOf, UpdateColumns
  <2>. QED  BY <2>1, <2>2, <2>3 DEF IllTyped
<1>. QED  BY <1>1, <1>2

LEMMA UpdatedTyped ==
    ASSUME request \in Request, Handled, ~Rejected, operation \in {"update", "updateStatus"},
           table \in {"product", "order"}, NEW row \in [Columns(table) -> Text[table]]
    PROVE  Updated(row) \in [Columns(table) -> Text[table]]
<1>1. \A k \in Assigned : k \in Columns(table) /\ k \in DOMAIN msg /\ msg[k] # Number
  BY AssignedColumns
<1>2. \A k \in Assigned : msg[k] \in Text[table]
  BY <1>1, MessageTexts, UserIsATable
<1>. QED  BY <1>2 DEF Updated

(* Effect changes one row of one table, and only to a row of that table.   *)
LEMMA EffectTyped ==
    ASSUME RowsTyped, request \in Request, Handled, ~Rejected, Effect
    PROVE  RowsTyped'
<1>1. table \in {"product", "order"} /\ table \in Table
  BY HandledNotUser, UserIsATable
<1>2. CASE operation = "create" /\ \E i \in Id : Insert(i)
  <2>1. PICK i \in Id : Insert(i)
    BY <1>2
  <2>2. NewRow \in [Columns(table) -> Text[table]]
    BY <1>1, <1>2, NewRowTyped
  <2>. QED  BY <1>1, <2>1, <2>2 DEF Insert, RowsTyped
<1>3. CASE operation \in {"update", "updateStatus"} /\ UpdateRow
  <2>1. CASE ThisRow = NoRow
    BY <1>3, <2>1 DEF UpdateRow, RowsTyped
  <2>2. CASE ThisRow # NoRow
    <3>1. msg.id \in Id /\ ThisRow = rows[table][msg.id] /\ ThisRow \in [Columns(table) -> Text[table]]
      BY <1>1, <2>2 DEF ThisRow, RowsTyped
    <3>2. Updated(ThisRow) \in [Columns(table) -> Text[table]]
      BY <1>1, <1>3, <3>1, UpdatedTyped
    <3>3. rows' = [rows EXCEPT ![table][msg.id] = Updated(ThisRow)] /\ used' = used
      BY <1>3, <2>2 DEF UpdateRow
    <3>4. msg.id \in used[table]
      BY <1>1, <2>2, <3>1 DEF RowsTyped
    <3>. QED  BY <1>1, <3>1, <3>2, <3>3, <3>4 DEF RowsTyped
  <2>. QED  BY <2>1, <2>2
<1>4. CASE operation = "delete" /\ DeleteRow
  <2>1. CASE ThisRow = NoRow
    BY <1>4, <2>1 DEF DeleteRow, RowsTyped
  <2>2. CASE ThisRow # NoRow
    <3>1. msg.id \in Id
      BY <2>2 DEF ThisRow
    <3>2. rows' = [rows EXCEPT ![table][msg.id] = NoRow] /\ used' = used
      BY <1>4, <2>2 DEF DeleteRow
    <3>. QED  BY <1>1, <3>1, <3>2 DEF RowsTyped
  <2>. QED  BY <2>1, <2>2
<1>. QED  BY <1>2, <1>3, <1>4 DEF Effect

(* What a statement leaves behind, seen from before.                       *)
LEMMA CreateEffect ==
    ASSUME RowsTyped, rows = before, UNCHANGED <<request, before>>, operation = "create",
           table \in Table, NEW i \in Id, Insert(i)
    PROVE  DidCreate'
<1>1. /\ rows[table][i] = NoRow
      /\ rows' = [rows EXCEPT ![table][i] = NewRow]
      /\ last'.id = i
  BY DEF Insert, RowsTyped
<1>2. rows'[table][i] = NewRow
  BY <1>1 DEF RowsTyped
<1>3. \A u \in Table : \A j \in Id : rows'[u][j] = rows[u][j] \/ <<u, j>> = <<table, i>>
  BY <1>1 DEF RowsTyped
<1>. QED  BY <1>1, <1>2, <1>3, SameWords DEF DidCreate, OnlyThis, Same

LEMMA DeleteEffect ==
    ASSUME RowsTyped, rows = before, UNCHANGED <<request, before>>, operation = "delete",
           table \in Table, msg.id = request.body.id, DeleteRow
    PROVE  DidDelete'
<1>1. CASE ThisRow = NoRow
  BY <1>1 DEF DeleteRow, DidDelete
<1>2. CASE ThisRow # NoRow
  <2> DEFINE i == request.body.id
  <2>1. i \in Id /\ rows[table][i] # NoRow /\ rows' = [rows EXCEPT ![table][i] = NoRow]
    BY <1>2 DEF ThisRow, DeleteRow
  <2>2. rows'[table][i] = NoRow
    BY <2>1 DEF RowsTyped
  <2>3. \A u \in Table : \A j \in Id : rows'[u][j] = rows[u][j] \/ <<u, j>> = <<table, i>>
    BY <2>1 DEF RowsTyped
  <2>. QED  BY <2>1, <2>2, <2>3, SameWords DEF DidDelete, Deleted, OnlyThis, Same
<1>. QED  BY <1>1, <1>2

LEMMA UpdateEffect ==
    ASSUME RowsTyped, rows = before, UNCHANGED <<request, before>>, request \in Request,
           operation \in {"update", "updateStatus"}, Handled, ~Rejected,
           table \in {"product", "order"}, msg.id = request.body.id, UpdateRow
    PROVE  DidChange'
<1>1. CASE ThisRow = NoRow
  BY <1>1 DEF UpdateRow, DidChange
<1>2. CASE ThisRow # NoRow
  <2> DEFINE i == request.body.id
             b == request.body
             row == rows[table][i]
  <2>1. /\ table \in Table /\ i \in Id /\ row # NoRow /\ ThisRow = row
        /\ rows' = [rows EXCEPT ![table][i] = Updated(row)]
    BY <1>2, UserIsATable DEF ThisRow, UpdateRow
  <2>2. rows'[table][i] = Updated(row)
    BY <2>1 DEF RowsTyped
  <2>3. \A u \in Table : \A j \in Id : rows'[u][j] = rows[u][j] \/ <<u, j>> = <<table, i>>
    BY <2>1 DEF RowsTyped
  <2>4. Updated(row) # NoRow
    <3>1. row \in [Columns(table) -> Text[table]]
      BY <2>1 DEF RowsTyped
    <3>. QED  BY <2>1, <3>1, UpdatedTyped, RowAssumption
  <2>5. ASSUME NEW k \in Columns(table)
        PROVE  Updated(row)[k] = IF Sets(b, k) THEN b[k] ELSE row[k]
    <3>1. Updated(row)[k] = IF k \in Assigned THEN msg[k] ELSE row[k]
      BY DEF Updated
    <3>2. /\ k \in DOMAIN msg <=> k \in DOMAIN b
          /\ k \in DOMAIN msg => msg[k] = b[k]
      BY <2>1, MessageIsBody
    <3>3. CASE operation = "update"
      <4>1. k \in Updates[table].columns <=> k # "user_id"
        BY ColumnsOf, UpdateColumns
      <4>2. k \in Updates[table].clears <=> k \in {"phone", "description"}
        BY ColumnsOf DEF Updates, ProductUpdate, OrderUpdate
      <4>3. k \in Assigned <=> Sets(b, k)
        BY <3>2, <3>3, <4>1, <4>2 DEF Assigned, Sets
      <4>. QED  BY <3>1, <3>2, <4>3 DEF Sets
    <3>4. CASE operation = "updateStatus"
      <4>1. /\ Assigned = {"status"}
            /\ "status" \in DOMAIN msg /\ msg["status"] # ""
        BY <3>4 DEF Assigned, Rejected, UpdateRejected
      <4>2. k \in Assigned <=> Sets(b, k)
        BY <3>2, <3>4, <4>1 DEF Sets
      <4>. QED  BY <3>1, <3>2, <4>2 DEF Sets
    <3>. QED  BY <3>3, <3>4
  <2>6. \A u \in Table : \A j \in Id : rows'[u][j] = before'[u][j] \/ <<u, j>> = <<table, i>>
    BY <2>3
  <2>7. NoRow \notin {before'[table][i], rows'[table][i]}
    BY <2>1, <2>2, <2>4
  <2>8. \A k \in Columns(table) :
            rows'[table][i][k] = IF Sets(b, k) THEN b[k] ELSE before'[table][i][k]
    BY <2>2, <2>5
  <2> HIDE DEF row
  <2>9. request' = request /\ table' = table /\ operation' = operation
    BY SameWords
  <2>10. Changed(table, request.body.id, request.body)'
    BY <2>6, <2>7, <2>8, <2>9, ZenonT(40) DEF Changed, Sets, OnlyThis, Same
  <2>. QED  BY <2>10 DEF DidChange
<1>. QED  BY <1>1, <1>2

-----------------------------------------------------------------------------
(* The steps.                                                              *)

LEMMA SameRows ==
    ASSUME RowsTyped, UNCHANGED <<rows, used>>
    PROVE  RowsTyped'
BY DEF RowsTyped

LEMMA NoResult ==
    ASSUME step' # "result"
    PROVE  Statement' /\ DidCreate' /\ DidDelete' /\ DidChange'
BY DEF Statement, DidCreate, DidDelete, DidChange

LEMMA SameChange ==
    ASSUME UNCHANGED <<request, rows, before>>
    PROVE  Changed(table, request.body.id, request.body)' <=>
               Changed(table, request.body.id, request.body)
<1>1. /\ request' = request /\ rows' = rows /\ before' = before
      /\ table' = table /\ operation' = operation
  BY SameWords
<1>2. \A k : Sets(request.body, k)' <=> Sets(request.body, k)
  BY <1>1 DEF Sets
<1>3. OnlyThis(table, request.body.id)' <=> OnlyThis(table, request.body.id)
  BY <1>1 DEF OnlyThis, Same
<1>. QED  BY <1>1, <1>2, <1>3 DEF Changed

LEMMA SameResult ==
    ASSUME Statement, DidCreate, DidDelete, DidChange,
           UNCHANGED <<step, request, last, rows, before>>
    PROVE  Statement' /\ DidCreate' /\ DidDelete' /\ DidChange'
<1>1. Statement' /\ DidCreate'
  BY SameWords DEF Statement, DidCreate, OnlyThis, Same
<1>2. DidDelete'
  BY SameWords DEF DidDelete, Deleted, OnlyThis, Same
<1>3. DidChange'
  BY SameWords, SameChange DEF DidChange
<1>. QED  BY <1>1, <1>2, <1>3

LEMMA SameTruth ==
    ASSUME Truthful, UNCHANGED <<request, reply, rows, before>>
    PROVE  Truthful'
<1>1. /\ request' = request /\ reply' = reply /\ rows' = rows /\ before' = before
      /\ table' = table /\ operation' = operation
  BY SameWords
<1>2. (reply.kind = "ok" /\ operation = "create" => Created(table, request.body))'
  BY <1>1 DEF Truthful, Created, OnlyThis, Same
<1>3. (reply.kind = "ok" /\ operation = "delete" => Deleted(table, request.body.id))'
  BY <1>1 DEF Truthful, Deleted, OnlyThis, Same
<1>4. (reply.kind = "ok" /\ operation \notin {"create", "delete"} =>
           Changed(table, request.body.id, request.body))'
  BY <1>1, SameChange DEF Truthful
<1>5. (/\ reply.kind \in ChangesNothing => rows = before
       /\ reply.kind = "row" => reply.data = rows[table][request.body.id])'
  BY <1>1 DEF Truthful, ChangesNothing
<1>. QED  BY <1>2, <1>3, <1>4, <1>5 DEF Truthful

(* Replies that promise nothing, and those that say nothing has changed.   *)
LEMMA NoPromise ==
    ASSUME reply'.kind \in {"none", "noAnswer", "failed", "missing"}
    PROVE  Truthful'
BY DEF Truthful, ChangesNothing

LEMMA NothingChanged ==
    ASSUME reply'.kind \in ChangesNothing \ {"row"}, rows' = before'
    PROVE  Truthful'
BY DEF Truthful, ChangesNothing

LEMMA AskStep == ASSUME TInv, NEW r \in Request, Ask(r) PROVE TInv'
<1> USE DEF TInv, Ask
<1>1. TypeOK'
  BY DEF TypeOK, Kind, tableVars, apVars
<1>2. last' \in Last
  BY DEF Last
<1>3. Underway'
  BY DEF Underway, tableVars
<1>. QED  BY <1>1, <1>2, <1>3, SameRows, NoResult, NoPromise DEF tableVars

LEMMA InDispStep ==
    ASSUME TInv, Preflight \/ NotFound \/ HandleLocally \/ Forward
    PROVE  TInv'
<1> USE DEF TInv, Preflight, NotFound, HandleLocally, Forward, InDisp, Reply, tableVars, apVars
<1>1. TypeOK'
  BY DEF TypeOK, Kind
<1>2. step' # "result" /\ rows' = before'
  BY DEF Underway
<1>3. Underway'
  <2>1. CASE step' = "ap"
    <3>1. Len(request.path) = 1
      BY <2>1 DEF Routed, Routes, Local
    <3>. QED  BY <2>1, <3>1 DEF Underway
  <2>2. CASE step' # "ap"
    BY <2>2 DEF Underway
  <2>. QED  BY <2>1, <2>2
<1>4. Truthful'
  <2>1. reply'.kind \in (ChangesNothing \ {"row"}) \cup {"none"}
    BY DEF ChangesNothing, Underway
  <2>. QED  BY <1>2, <2>1, NoPromise, NothingChanged
<1>. QED  BY <1>1, <1>2, <1>3, <1>4, SameRows, NoResult

LEMMA DiesStep == ASSUME TInv, Dies PROVE TInv'
<1> USE DEF TInv, Dies, Reply, tableVars
<1>1. TypeOK'
  <2>1. step' \in {"replied", step} /\ reply'.kind \in Kind
    BY DEF TypeOK, Kind
  <2>. QED  BY <2>1 DEF TypeOK
<1>2. Underway'
  BY SameWords DEF Underway
<1>3. CASE step \in {"ap", "query", "result"}
  <2>1. step' # "result" /\ reply'.kind = "noAnswer"
    BY <1>3
  <2>. QED  BY <1>1, <1>2, <2>1, SameRows, NoResult, NoPromise
<1>4. CASE step \notin {"ap", "query", "result"}
  BY <1>1, <1>2, <1>4, SameRows, SameResult, SameTruth
<1>. QED  BY <1>3, <1>4

LEMMA RejectStep == ASSUME TInv, Reject PROVE TInv'
<1> USE DEF TInv, Reject, Reply, tableVars, apVars
<1>1. TypeOK'
  BY DEF TypeOK, Kind
<1>2. Underway'
  BY DEF Underway
<1>3. reply'.kind \in ChangesNothing \ {"row"} /\ rows' = before' /\ step' # "result"
  BY DEF Underway, ChangesNothing
<1>. QED  BY <1>1, <1>2, <1>3, SameRows, NoResult, NothingChanged

LEMMA DecideStep == ASSUME TInv, Decide PROVE TInv'
<1> USE DEF TInv, Decide, tableVars, apVars
<1>1. TypeOK'
  BY DEF TypeOK
<1>2. Underway'
  <2>1. Handled
    BY DEF Rejected
  <2>. QED  BY <2>1, SameWords DEF Underway
<1>3. step' # "result"
  OBVIOUS
<1>. QED  BY <1>1, <1>2, <1>3, SameRows, NoResult, SameTruth

LEMMA SelectStep == ASSUME TInv, Get \/ List \/ SelectFails PROVE TInv'
<1> USE DEF TInv, Get, List, SelectFails, Found, Reply, tableVars, apVars
<1>1. step' # "result" /\ step = "query" /\ rows' = before' /\ UNCHANGED <<request, rows, used>>
  BY DEF Underway
<1>2. last' \in Last
  BY DEF Last
<1>3. TypeOK'
  BY <1>2 DEF TypeOK, Kind, Last
<1>4. Underway'
  BY DEF Underway
<1>5. Truthful'
  <2>1. CASE reply'.kind \in {"missing", "list"}
    BY <1>1, <2>1, NoPromise, NothingChanged DEF ChangesNothing
  <2>2. CASE reply'.kind = "row"
    <3>1. /\ operation = "get" /\ Len(request.path) = 1 /\ Handled /\ ~Aborts
          /\ reply'.data = rows[table][msg.id]
      BY <2>2 DEF Underway
    <3>2. msg.id = request.body.id
      BY <3>1, IdOfBody DEF NamesRow
    <3>. QED  BY <1>1, <2>2, <3>1, <3>2, SameWords DEF Truthful, ChangesNothing
  <2>. QED  BY <2>1, <2>2
<1>. QED  BY <1>1, <1>2, <1>3, <1>4, <1>5, SameRows, NoResult

LEMMA EffectOthers ==
    ASSUME TInv, Handled, Effect
    PROVE  fresh' \subseteq Table \X Id /\ last' \in Last
<1> USE DEF TInv, TypeOK, Last
<1>1. table \in Table
  BY HandledNotUser, UserIsATable
<1>2. CASE \E i \in Id : Insert(i)
  BY <1>2 DEF Insert
<1>3. CASE UpdateRow
  <2>1. CASE ThisRow = NoRow
    <3>1. fresh' = fresh /\ last' = [ok |-> TRUE, id |-> "0", affected |-> FALSE]
      BY <1>3, <2>1 DEF UpdateRow
    <3>. QED  BY <3>1
  <2>2. CASE ThisRow # NoRow
    <3> DEFINE differs == Updated(ThisRow) # ThisRow \/ <<table, msg.id>> \notin fresh
    <3>1. <<table, msg.id>> \in Table \X Id
      BY <1>1, <2>2 DEF ThisRow
    <3>2. fresh' = fresh \cup {<<table, msg.id>>}
      BY <1>3, <2>2 DEF UpdateRow
    <3>3. last' = [ok |-> TRUE, id |-> "0", affected |-> differs]
      BY <1>3, <2>2 DEF UpdateRow
    <3>4. differs \in BOOLEAN
      OBVIOUS
    <3> HIDE DEF differs
    <3>5. last' \in Last
      BY <3>3, <3>4
    <3>. QED  BY <3>1, <3>2, <3>5
  <2>. QED  BY <2>1, <2>2
<1>4. CASE DeleteRow
  BY <1>4 DEF DeleteRow
<1>. QED  BY <1>2, <1>3, <1>4 DEF Effect

LEMMA QueryStep == ASSUME TInv, Query PROVE TInv'
<1> USE DEF TInv, Query, apVars
<1>1. /\ step = "query" /\ request \in Request /\ rows = before /\ reply.kind = "none"
      /\ Len(request.path) = 1 /\ Handled /\ ~Aborts /\ ~Rejected
  BY DEF Underway
<1>2. table \in {"product", "order"} /\ table \in Table /\ Writes
  BY <1>1, HandledNotUser, UserIsATable DEF Writes
<1>3. RowsTyped' /\ fresh' \subseteq Table \X Id /\ last' \in Last
  BY <1>1, EffectTyped, EffectOthers
<1>4. TypeOK'
  BY <1>3 DEF TypeOK, RowsTyped, Last
<1>5. Underway' /\ Statement'
  BY <1>1, <1>2, SameWords DEF Underway, Statement
<1>6. Truthful'
  BY <1>1, NoPromise
<1>7. CASE operation = "create" /\ \E i \in Id : Insert(i)
  <2>1. DidCreate'
    BY <1>1, <1>2, <1>7, CreateEffect
  <2>2. DidDelete' /\ DidChange'
    BY <1>7, SameWords DEF DidDelete, DidChange
  <2>. QED  BY <1>3, <1>4, <1>5, <1>6, <2>1, <2>2
<1>8. CASE operation = "delete" /\ DeleteRow
  <2>1. msg.id = request.body.id
    BY <1>1, <1>8, IdOfBody DEF NamesRow
  <2>2. DidDelete'
    BY <1>1, <1>2, <1>8, <2>1, DeleteEffect
  <2>3. DidCreate' /\ DidChange'
    BY <1>8, SameWords DEF DidCreate, DidChange
  <2>. QED  BY <1>3, <1>4, <1>5, <1>6, <2>2, <2>3
<1>9. CASE operation \in {"update", "updateStatus"} /\ UpdateRow
  <2>1. msg.id = request.body.id
    BY <1>1, <1>9, IdOfBody DEF NamesRow
  <2>2. DidChange'
    BY <1>1, <1>2, <1>9, <2>1, UpdateEffect
  <2>3. DidCreate' /\ DidDelete'
    BY <1>9, SameWords DEF DidCreate, DidDelete
  <2>. QED  BY <1>3, <1>4, <1>5, <1>6, <2>2, <2>3
<1>. QED  BY <1>7, <1>8, <1>9 DEF Effect

LEMMA QueryFailsStep == ASSUME TInv, QueryFails PROVE TInv'
<1> USE DEF TInv, QueryFails, Reply, apVars
<1>1. request \in Request /\ Handled /\ ~Rejected
  BY DEF Underway
<1>2. RowsTyped' /\ fresh' \subseteq Table \X Id /\ last' \in Last
  <2>1. CASE UNCHANGED <<tableVars, last>>
    BY <2>1, SameRows DEF tableVars, TypeOK
  <2>2. CASE Effect
    BY <1>1, <2>2, EffectTyped, EffectOthers
  <2>. QED  BY <2>1, <2>2
<1>3. TypeOK'
  BY <1>2 DEF TypeOK, RowsTyped, Last, Kind
<1>4. Underway' /\ step' # "result" /\ reply'.kind = "failed"
  BY DEF Underway
<1>. QED  BY <1>2, <1>3, <1>4, NoResult, NoPromise

LEMMA CreateSucceedsStep == ASSUME TInv, CreateSucceeds PROVE TInv'
<1> USE DEF TInv, CreateSucceeds, Reply, Done, tableVars, apVars
<1>1. TypeOK'
  BY DEF TypeOK, Kind
<1>2. Underway' /\ step' # "result" /\ reply'.kind = "ok"
  BY DEF Underway
<1>3. Truthful'
  <2>1. PICK i \in Id : /\ last.id = i
                        /\ OnlyThis(table, i)
                        /\ before[table][i] = NoRow
                        /\ rows[table][i] = NewRow
    BY DEF DidCreate
  <2>2. table \in Table
    BY UserIsATable DEF Underway, Handled, Registered, table
  <2>3. NewRow = [k \in Columns(table) |->
                     IF k \in DOMAIN request.body THEN request.body[k]
                     ELSE Creates[table].default[k]]
    BY <2>2, MessageIsBody DEF NewRow, Value
  <2>4. reply'.data \in {i, "0"}
    BY <2>1
  <2>5. Created(table, request.body)'
    BY <2>1, <2>3, <2>4, SameWords DEF Created, OnlyThis, Same
  <2>. QED  BY <1>2, <2>5, SameWords DEF Truthful, ChangesNothing
<1>. QED  BY <1>1, <1>2, <1>3, SameRows, NoResult

LEMMA ChangeSucceedsStep == ASSUME TInv, ChangeSucceeds PROVE TInv'
<1> USE DEF TInv, ChangeSucceeds, Reply, Done, tableVars, apVars
<1>1. TypeOK'
  BY DEF TypeOK, Kind
<1>2. Underway' /\ step' # "result"
  BY DEF Underway
<1>3. CASE ~Affected
  <2>1. reply'.kind = "missing"
    BY <1>3
  <2>. QED  BY <1>1, <1>2, <2>1, SameRows, NoResult, NoPromise
<1>4. CASE Affected
  <2>1. reply'.kind = "ok" /\ last.affected /\ operation # "create" /\ Writes
    BY <1>4 DEF Affected, Statement
  <2>2. CASE operation = "delete"
    <3>1. Deleted(table, request.body.id)
      BY <2>1, <2>2 DEF DidDelete
    <3>2. Deleted(table, request.body.id)'
      BY <3>1, SameWords DEF Deleted, OnlyThis, Same
    <3>. QED
      BY <1>1, <1>2, <2>1, <2>2, <3>2, SameWords, SameRows, NoResult DEF Truthful, ChangesNothing
  <2>3. CASE operation # "delete"
    <3>1. Changed(table, request.body.id, request.body)
      BY <2>1, <2>3 DEF DidChange, Writes
    <3>2. Changed(table, request.body.id, request.body)'
      BY <3>1, SameChange
    <3>. QED
      BY <1>1, <1>2, <2>1, <2>3, <3>2, SameWords, SameRows, NoResult DEF Truthful, ChangesNothing
  <2>. QED  BY <2>2, <2>3
<1>. QED  BY <1>3, <1>4

(* The process, the clock, and steps that change nothing.                  *)
LEMMA AroundStep ==
    ASSUME TInv, Disconnect \/ ApStart \/ NextSecond \/ UNCHANGED vars
    PROVE  TInv'
<1> USE DEF TInv, Disconnect, ApStart, NextSecond, vars, tableVars, apVars
<1>1. TypeOK'
  BY DEF TypeOK
<1>2. Underway'
  BY SameWords DEF Underway
<1>. QED  BY <1>1, <1>2, SameRows, SameResult, SameTruth

LEMMA TInvInit == ASSUME Init PROVE TInv
<1> USE DEF Init
<1>1. UserCreate.default \in [Columns("user") -> Text["user"]]
  <2>1. Creates["user"].default = UserCreate.default /\ "user" \in Table
    BY DEF Creates, Table
  <2>2. \A k \in Columns("user") : UserCreate.default[k] \in Text["user"]
    BY <2>1, DefaultsAreTexts
  <2>. QED  BY <2>1, <2>2 DEF Columns, UserCreate
<1>2. RowsTyped
  BY <1>1 DEF RowsTyped, Table
<1>3. TypeOK /\ last \in Last
  BY <1>2 DEF TypeOK, RowsTyped, Last, Kind
<1>4. Underway /\ Statement /\ DidCreate /\ DidDelete /\ DidChange
  BY DEF Underway, Statement, DidCreate, DidDelete, DidChange
<1>5. Truthful
  BY DEF Truthful, ChangesNothing
<1>. QED  BY <1>2, <1>3, <1>4, <1>5 DEF TInv

LEMMA TInvNext == ASSUME TInv, [Next]_vars PROVE TInv'
<1>1. CASE \E r \in Request : Ask(r)
  BY <1>1, AskStep
<1>2. CASE Preflight \/ NotFound \/ HandleLocally \/ Forward
  BY <1>2, InDispStep
<1>3. CASE Abort \/ AbortAfterInsert \/ Exit
  BY <1>3, DiesStep DEF Abort, AbortAfterInsert, Exit
<1>4. CASE Reject \/ Decide
  BY <1>4, RejectStep, DecideStep
<1>5. CASE Get \/ List \/ SelectFails
  BY <1>5, SelectStep
<1>6. CASE Query \/ QueryFails
  BY <1>6, QueryStep, QueryFailsStep
<1>7. CASE CreateSucceeds \/ ChangeSucceeds
  BY <1>7, CreateSucceedsStep, ChangeSucceedsStep
<1>8. CASE Disconnect \/ ApStart \/ NextSecond \/ UNCHANGED vars
  BY <1>8, AroundStep
<1>. QED  BY <1>1, <1>2, <1>3, <1>4, <1>5, <1>6, <1>7, <1>8 DEF Next

(* What the tables, the statement and the reply say of each other, from    *)
(* the arrival of a request to its answer.                                 *)
THEOREM ApiInvariant == Spec => []TInv
BY TInvInit, TInvNext, PTL DEF Spec

(* Every table holds, under each id, no row or one with all its columns,   *)
(* and each column is its default or a text that some client sent.         *)
THEOREM ApiTypeCorrect == Spec => []TypeOK
<1>1. TInv => TypeOK
  BY DEF TInv
<1>. QED  BY <1>1, ApiInvariant, PTL

(* Whoever is told "ok" finds exactly the row created, changed or deleted  *)
(* that it asked for; whoever is told of an error before the statement, or *)
(* shown rows, has changed nothing, and the row shown is the row there is. *)
THEOREM RepliesAreTrue == Spec => []Truthful
<1>1. TInv => Truthful
  BY DEF TInv
<1>. QED  BY <1>1, ApiInvariant, PTL

-----------------------------------------------------------------------------
(***************************************************************************)
(* When "it does not exist" is untrue (MissingMeans). The reply is chosen  *)
(* by last, so the invariant says what last means before the statement and *)
(* why a statement that was executed may have affected nothing.            *)
(***************************************************************************)

Unasked == step \in {"disp", "ap", "query"} => ~last.ok

(* The row was not there, or it held already what the update assigns.      *)
NotThere == msg.id \notin Id \/ before[table][msg.id] = NoRow

Repeats == Assigned # {} /\ ThisRow # NoRow /\ Updated(ThisRow) = ThisRow /\ rows = before

Unaffected ==
    step = "result" /\ ~last.affected =>
        operation # "create" /\ (NotThere \/ Repeats)

(* An update that assigns to a row what it holds leaves equal tables.      *)
AreTables == rows = [t \in Table |-> [i \in Id |-> rows[t][i]]]

MInv == AreTables /\ Unasked /\ Unaffected

LEMMA OneRowChanges ==
    ASSUME AreTables, NEW t \in Table, NEW i \in Id, NEW v, rows' = [rows EXCEPT ![t][i] = v]
    PROVE  AreTables'
<1> DEFINE new == [u \in Table |-> [j \in Id |-> IF u = t /\ j = i THEN v ELSE rows[u][j]]]
<1>1. rows' = new
  BY DEF AreTables
<1>2. new = [u \in Table |-> [j \in Id |-> new[u][j]]]
  OBVIOUS
<1>. QED  BY <1>1, <1>2 DEF AreTables

LEMMA StillTables == ASSUME TInv, AreTables, [Next]_vars PROVE AreTables'
<1>1. CASE rows' = rows
  BY <1>1 DEF AreTables
<1>2. CASE step = "query" /\ Effect
  <2>1. table \in Table
    BY <1>2, HandledNotUser, UserIsATable DEF TInv, Underway
  <2>2. CASE \E i \in Id : Insert(i)
    BY <2>1, <2>2, OneRowChanges DEF Insert
  <2>3. CASE UpdateRow
    BY <1>1, <2>1, <2>3, OneRowChanges DEF UpdateRow, ThisRow
  <2>4. CASE DeleteRow
    BY <1>1, <2>1, <2>4, OneRowChanges DEF DeleteRow, ThisRow
  <2>. QED  BY <1>2, <2>2, <2>3, <2>4 DEF Effect
<1>. QED  BY <1>1, <1>2, WhoWrites DEF vars, tableVars

(* What a statement that affects nothing has found.                        *)
LEMMA SomethingAssigned ==
    ASSUME Handled, ~Rejected, operation \in {"update", "updateStatus"}
    PROVE  Assigned # {}
BY DEF Rejected, UpdateRejected, Assigned

LEMMA UnaffectedByUpdate ==
    ASSUME AreTables, rows = before, table \in Table, Handled, ~Rejected,
           operation \in {"update", "updateStatus"}, UpdateRow, ~last'.affected
    PROVE  NotThere \/ (Repeats /\ rows' = rows)
<1>1. CASE ThisRow = NoRow
  BY <1>1 DEF ThisRow, NotThere
<1>2. CASE ThisRow # NoRow
  <2>1. msg.id \in Id /\ ThisRow = rows[table][msg.id]
    BY <1>2 DEF ThisRow
  <2>2. Updated(ThisRow) = ThisRow
    <3>1. last'.affected = (Updated(ThisRow) # ThisRow \/ <<table, msg.id>> \notin fresh)
      BY <1>2 DEF UpdateRow
    <3>. QED  BY <3>1
  <2>3. rows' = [rows EXCEPT ![table][msg.id] = ThisRow]
    BY <1>2, <2>2 DEF UpdateRow
  <2>4. rows' = rows
    BY <2>1, <2>3 DEF AreTables
  <2>. QED  BY <1>2, <2>2, <2>4, SomethingAssigned DEF Repeats
<1>. QED  BY <1>1, <1>2

LEMMA SameCause ==
    ASSUME UNCHANGED <<request, rows, before>>
    PROVE  (NotThere' <=> NotThere) /\ (Repeats' <=> Repeats)
<1>1. msg' = msg /\ table' = table /\ operation' = operation
  BY SameWords
<1>2. Assigned' = Assigned /\ ThisRow' = ThisRow
  BY <1>1 DEF Assigned, ThisRow
<1>3. Updated(ThisRow)' = Updated(ThisRow)
  BY <1>1, <1>2 DEF Updated
<1>. QED  BY <1>1, <1>2, <1>3 DEF NotThere, Repeats

LEMMA UnaffectedQuery == ASSUME TInv, AreTables, Query PROVE Unaffected'
<1>1. /\ RowsTyped /\ rows = before /\ table \in Table /\ Handled /\ ~Rejected
      /\ Effect /\ UNCHANGED <<request, before>>
  BY HandledNotUser, UserIsATable DEF TInv, Underway, Query
<1>2. CASE operation = "create" /\ \E i \in Id : Insert(i)
  BY <1>2 DEF Insert, Unaffected
<1>3. CASE operation \in {"update", "updateStatus"} /\ UpdateRow
  <2>1. ASSUME ~last'.affected PROVE (NotThere \/ Repeats)'
    <3>1. NotThere \/ (Repeats /\ rows' = rows)
      BY <1>1, <1>3, <2>1, UnaffectedByUpdate
    <3>2. NotThere => NotThere'
      BY <1>1, SameWords DEF NotThere
    <3>. QED  BY <1>1, <3>1, <3>2, SameCause
  <2>. QED  BY <1>1, <1>3, <2>1, SameWords DEF Unaffected
<1>4. CASE operation = "delete" /\ DeleteRow
  <2>1. ASSUME ~last'.affected PROVE NotThere'
    BY <1>1, <1>4, <2>1, SameWords DEF DeleteRow, ThisRow, NotThere
  <2>. QED  BY <1>1, <1>4, <2>1, SameWords DEF Unaffected
<1>. QED  BY <1>1, <1>2, <1>3, <1>4 DEF Effect

(* The steps.                                                              *)
LEMMA WhereItGoes ==
    ASSUME Next
    PROVE  \/ step' = "disp" /\ ~last'.ok
           \/ step' = "replied"
           \/ step \in {"disp", "ap"} /\ step' \in {"ap", "query"} /\ UNCHANGED last
           \/ Query /\ step' = "result"
           \/ UNCHANGED <<step, request, rows, last, before>>
BY DEF Next, Ask, Preflight, NotFound, HandleLocally, Forward, InDisp, Abort, Dies, Reject,
       Decide, Get, List, SelectFails, Found, Query, QueryFails, CreateSucceeds, ChangeSucceeds,
       AbortAfterInsert, Disconnect, Exit, ApStart, NextSecond, Reply, Done, tableVars

LEMMA MInvNext == ASSUME TInv, MInv, [Next]_vars PROVE MInv'
<1> USE DEF MInv
<1>. AreTables'
  BY StillTables
<1>1. CASE step' = "disp" /\ ~last'.ok
  BY <1>1 DEF Unasked, Unaffected
<1>2. CASE step' = "replied"
  BY <1>2 DEF Unasked, Unaffected
<1>3. CASE step \in {"disp", "ap"} /\ step' \in {"ap", "query"} /\ UNCHANGED last
  BY <1>3 DEF Unasked, Unaffected
<1>4. CASE Query /\ step' = "result"
  BY <1>4, UnaffectedQuery DEF Unasked
<1>5. CASE UNCHANGED <<step, request, rows, last, before>>
  BY <1>5, SameWords, SameCause DEF Unasked, Unaffected
<1>6. CASE UNCHANGED vars
  BY <1>5, <1>6 DEF vars, tableVars
<1>. QED  BY <1>1, <1>2, <1>3, <1>4, <1>5, <1>6, WhereItGoes

(* No select has succeeded before a request's own statement, so a failed   *)
(* one is told from an empty one; a statement that affected nothing found  *)
(* no row, or an update found what it was to assign.                       *)
THEOREM EmptyResultsExplained == Spec => []MInv
<1>1. Init => MInv
  BY DEF Init, MInv, AreTables, Unasked, Unaffected
<1>. QED  BY <1>1, ApiInvariant, MInvNext, PTL DEF Spec

(* Only these say that an object is missing.                               *)
LEMMA WhoSaysMissing ==
    ASSUME Next, reply'.kind = "missing", reply' # reply
    PROVE  /\ Get \/ SelectFails \/ ChangeSucceeds
           /\ UNCHANGED <<request, rows, before, last, connected>> \/ Get
BY DEF Next, Ask, Preflight, NotFound, HandleLocally, Forward, InDisp, Abort, Dies, Reject,
       Decide, Get, List, SelectFails, Found, Query, QueryFails, CreateSucceeds, ChangeSucceeds,
       AbortAfterInsert, Disconnect, Exit, ApStart, NextSecond, Reply, Done, tableVars, apVars

(* "It does not exist" is told of an object that does only if the select   *)
(* failed, main has disconnected, or an update assigned what the row held. *)
THEOREM MissingExplained == Spec => MissingMeans
<1>1. ASSUME TInv, MInv, [Next]_vars, reply'.kind = "missing", reply # reply'
      PROVE  msg.id \notin Id \/ before[table][msg.id] = NoRow \/ Pretends'
  <2>1. Get \/ SelectFails \/ ChangeSucceeds
    BY <1>1, WhoSaysMissing DEF vars
  <2>2. CASE Get
    <3>1. rows = before
      BY <1>1, <2>2 DEF TInv, Underway, Get
    <3>2. msg.id \notin Id \/ rows[table][msg.id] = NoRow
      BY <1>1, <2>2 DEF Get, Found, Reply
    <3>. QED  BY <3>1, <3>2
  <2>3. CASE SelectFails
    <3>1. operation = "get" /\ UNCHANGED <<request, last>>
      BY <1>1, <2>3 DEF SelectFails, Reply
    <3>2. operation' = "get" /\ ~last'.ok
      BY <1>1, <2>3, <3>1, SameWords DEF SelectFails, MInv, Unasked
    <3>. QED  BY <3>2 DEF Pretends
  <2>4. CASE ChangeSucceeds
    <3>1. ~Affected /\ UNCHANGED <<request, rows, before, last, connected>>
      BY <1>1, <2>4 DEF ChangeSucceeds, Done, Reply, tableVars, apVars
    <3>2. CASE ~connected
      BY <3>1, <3>2 DEF Pretends
    <3>3. CASE ~last.affected
      <4>1. NotThere \/ Repeats
        BY <1>1, <2>4, <3>3 DEF ChangeSucceeds, MInv, Unaffected
      <4>2. Repeats => Pretends'
        BY <3>1, SameCause DEF Repeats, Pretends
      <4>. QED  BY <4>1, <4>2 DEF NotThere
    <3>. QED  BY <3>1, <3>2, <3>3 DEF Affected
  <2>. QED  BY <2>1, <2>2, <2>3, <2>4
<1>. QED
  BY <1>1, ApiInvariant, EmptyResultsExplained, PTL DEF Spec, MissingMeans

===============================================================================
