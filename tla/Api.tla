--------------------------------- MODULE Api ---------------------------------
(***************************************************************************)
(* What a request to /api does to the tables and what its client is told:  *)
(* routes and request types of DISP (disp/main.cpp, server_epoll.cpp,      *)
(* request_handler.cpp), the handlers of AP (ap/processor.cpp, ap/main.cpp)*)
(* and the calls of DBManager they make (ap/db_manager.cpp).               *)
(*                                                                         *)
(* AP serves one request at a time (ForwardPath), so there is one here.    *)
(* step is the place it has come to:                                       *)
(*                                                                         *)
(*   disp     in the server of DISP     ap       in Processor of AP        *)
(*   query    before mysql_query        result   mysql_query returned 0    *)
(*   replied  the client has its reply                                     *)
(*                                                                         *)
(* A request is a record of method, path (the segments after /api) and     *)
(* body (the keys of the JSON object; none if it does not parse). A JSON   *)
(* value is a text or Number, which stands for all that are no texts. An   *)
(* id is the text of one number, nothing else. Columns hold texts.         *)
(***************************************************************************)
EXTENDS Naturals, Sequences

CONSTANTS
    Request,    \* what clients send
    Number,     \* any JSON value that is no string
    BadPrice,   \* texts that stod refuses or finds below zero
    Id,         \* the ids AUTO_INCREMENT can give
    NoRow

ASSUME ApiAssumption == {Number, NoRow, "0", ""} \cap Id = {}

VARIABLES
    step,
    request,
    reply,      \* [kind, data]
    rows,       \* the tables
    used,       \* the ids AUTO_INCREMENT has given
    fresh,      \* rows whose updated_at is the current second
    last,       \* the last statement: [ok, id, affected], for mysql_insert_id
                \* and mysql_affected_rows
    up,         \* AP runs
    connected,  \* DBManager::connected
    before      \* history: rows when the client asked

tableVars == <<rows, used, fresh>>
apVars == <<up, connected>>
vars == <<step, request, reply, tableVars, last, apVars, before>>

-----------------------------------------------------------------------------
(* The handlers that write: the value of a key the body has not, the keys  *)
(* that may not be empty, and those operator[] reads after the INSERT; the *)
(* columns an UPDATE may set, and those of them it sets to "".             *)

UserCreate ==
    [default |-> [name |-> "", email |-> "", phone |-> "", role |-> "employee",
                  status |-> "active", password |-> "default123"],
     required |-> {"name", "email"},
     echoed |-> {"name", "email", "phone", "role", "status"}]

ProductEchoed_AlsoTime ==  \* created_at read back as well
    {"name", "category", "description", "status", "created_at"}
ProductEchoed == {"name", "category", "description", "status"}

ProductCreate ==
    [default |-> [name |-> "", category |-> "electronics", description |-> "",
                  price |-> "0.0", stock |-> "0", status |-> "active"],
     required |-> {"name", "price"},
     echoed |-> ProductEchoed]

OrderCreate ==
    [default |-> [customer_name |-> "", product_name |-> "", quantity |-> "1",
                  total_amount |-> "0.0", status |-> "pending", user_id |-> "1"],
     required |-> {"customer_name", "product_name", "quantity", "total_amount"},
     echoed |-> {"customer_name", "product_name"}]

Creates == [user |-> UserCreate, product |-> ProductCreate, order |-> OrderCreate]

UserUpdate == [columns |-> {"name", "email", "phone", "role", "status"},
               clears |-> {"phone"}]
ProductUpdate == [columns |-> {"name", "category", "description", "price", "stock", "status"},
                  clears |-> {"description"}]
OrderUpdate == [columns |-> {"customer_name", "product_name", "quantity", "total_amount", "status"},
                clears |-> {}]

Updates == [user |-> UserUpdate, product |-> ProductUpdate, order |-> OrderUpdate]

Table == {"user", "product", "order"}
Columns(t) == DOMAIN Creates[t].default

(* The texts a column may come to hold: its default, what clients send.    *)
SentBy(r, t) == {r.body[k] : k \in Columns(t) \cap DOMAIN r.body}
Sent(t) == UNION {SentBy(r, t) : r \in Request}
Text == [t \in Table |-> {Creates[t].default[k] : k \in Columns(t)} \cup (Sent(t) \ {Number})]

ASSUME RowAssumption == \A t \in Table : NoRow \notin [Columns(t) -> Text[t]]

(* The handlers main registers for the second time take a std::string. The *)
(* conversion from the JSON object throws, and processRequest answers.     *)
Overridden == {<<"user", "create">>, <<"user", "update">>, <<"user", "delete">>}

Registered ==
    Table \X {"get", "list", "create", "update", "delete"}
        \cup {<<"order", "updateStatus">>}

-----------------------------------------------------------------------------
(* DISP.                                                                   *)

Local == {<<"health">>, <<"version">>}
Routes == Local \cup {<<"user">>, <<"order">>, <<"product">>}

(* determineUserRequestType and its siblings.                              *)
RequestType_Pasted(method, path) ==  \* a product's PUT copied from the orders
    <<IF method = "PUT" THEN "order" ELSE Head(path),
      CASE method = "GET" -> "list"
        [] method = "POST" -> "create"
        [] method \in {"PUT", "PATCH"} -> "update"
        [] method = "DELETE" -> "delete"
        [] OTHER -> "unknown">>
RequestType(method, path) ==
    <<Head(path),
      CASE method = "GET" -> IF Len(path) = 2 THEN "get" ELSE "list"
        [] method = "POST" -> "create"
        [] method = "PUT" -> "update"
        [] method = "PATCH" /\ Head(path) = "order" ->
               IF Len(path) = 3 THEN "updateStatus" ELSE "update"
        [] method = "DELETE" -> "delete"
        [] OTHER -> "unknown">>

(* What DISP writes under type and request_id are texts.                   *)
ASSUME NumberAssumption ==
    \A r \in Request : Number \notin {"REQ", RequestType(r.method, r.path)}

(* The keys of the body overwrite those of DISP, the id of the path both.  *)
Message(r) ==
    LET fromPath == IF Len(r.path) > 1 THEN {"id"} ELSE {} IN
    [k \in {"type", "request_id"} \cup DOMAIN r.body \cup fromPath |->
        IF k \in fromPath THEN Number
        ELSE IF k \in DOMAIN r.body THEN r.body[k]
        ELSE IF k = "type" THEN RequestType(r.method, r.path) ELSE "REQ"]

msg == Message(request)
table == msg.type[1]
operation == msg.type[2]

-----------------------------------------------------------------------------
(* What AP's handlers require of a message.                                *)

NamesRow == operation \in {"get", "update", "updateStatus", "delete"}

IllTyped_Never(keys) == FALSE  \* value.dump() instead of a conversion
IllTyped(keys) == \E k \in keys \cap DOMAIN msg : msg[k] = Number

Value(k) == IF k \in DOMAIN msg THEN msg[k] ELSE Creates[table].default[k]

CreateRejected ==
    \/ IllTyped(Columns(table))
    \/ \E k \in Creates[table].required : Value(k) = ""
    \/ table = "product" /\ Value("price") \in BadPrice

(* The columns an UPDATE sets.                                             *)
Assigned ==
    IF operation = "updateStatus" THEN {"status"}
    ELSE IF operation # "update" THEN {}
    ELSE {k \in Updates[table].columns \cap DOMAIN msg :
            msg[k] # "" \/ k \in Updates[table].clears}

UpdateRejected ==
    IF operation = "updateStatus"
    THEN "status" \notin DOMAIN msg \/ msg["status"] \in {Number, ""}
    ELSE IllTyped(Updates[table].columns) \/ Assigned = {}

Handled == msg.type \in Registered \ Overridden

Rejected ==
    Handled => \/ NamesRow /\ msg.id \in {Number, ""}
               \/ operation = "create" /\ CreateRejected
               \/ operation \in {"update", "updateStatus"} /\ UpdateRejected

(* Exceptions serviceLoop does not catch, and a missing key under a const  *)
(* operator[], where the json library's assertion ends the process.        *)
Aborts ==
    \/ msg.type = Number \/ msg.request_id = Number
    \/ Handled /\ NamesRow /\ "id" \notin DOMAIN msg

-----------------------------------------------------------------------------
Kind == {"none", "options", "notFound", "local", "unreachable", "noAnswer",
         "error", "failed", "missing", "row", "list", "ok"}

TypeOK ==
    /\ step \in {"replied", "disp", "ap", "query", "result"}
    /\ request \in Request
    /\ reply.kind \in Kind
    /\ \A t \in Table : \A i \in Id :
           rows[t][i] \in [Columns(t) -> Text[t]] \cup {NoRow}
    /\ used \in [Table -> SUBSET Id]
    /\ fresh \subseteq Table \X Id
    /\ last.ok \in BOOLEAN /\ last.affected \in BOOLEAN
    /\ up \in BOOLEAN
    /\ connected \in BOOLEAN

(* The first users were not created through the API.                       *)
Init ==
    /\ step = "replied"
    /\ request \in Request
    /\ reply = [kind |-> "none", data |-> NoRow]
    /\ rows = [t \in Table |-> [i \in Id |->
                  IF t = "user" THEN UserCreate.default ELSE NoRow]]
    /\ used = [t \in Table |-> IF t = "user" THEN Id ELSE {}]
    /\ fresh = {}
    /\ last = [ok |-> FALSE, id |-> "0", affected |-> FALSE]
    /\ up = TRUE
    /\ connected = TRUE
    /\ before = rows

Reply(kind, data) == step' = "replied" /\ reply' = [kind |-> kind, data |-> data]

Ask(r) ==
    /\ step = "replied"
    /\ step' = "disp"
    /\ request' = r
    /\ reply' = [kind |-> "none", data |-> NoRow]
    /\ last' = [ok |-> FALSE, id |-> "0", affected |-> FALSE]
    /\ before' = rows
    /\ UNCHANGED <<tableVars, apVars>>

-----------------------------------------------------------------------------
(* DISP: processRequest of the server, handleRequest, forwardToAp.         *)

InDisp == step = "disp" /\ UNCHANGED <<request, tableVars, last, apVars, before>>

Preflight == InDisp /\ request.method = "OPTIONS" /\ Reply("options", NoRow)

Routed == request.method # "OPTIONS" /\ request.path \in Routes

NotFound ==
    /\ InDisp
    /\ request.method # "OPTIONS" /\ ~Routed
    /\ Reply("notFound", NoRow)

HandleLocally == InDisp /\ Routed /\ request.path \in Local /\ Reply("local", NoRow)

Forward ==
    /\ InDisp
    /\ Routed /\ request.path \notin Local
    /\ IF up THEN step' = "ap" /\ UNCHANGED reply ELSE Reply("unreachable", NoRow)

-----------------------------------------------------------------------------
(* AP: serviceLoop, processRequest and the handler.                        *)

Dies ==
    /\ up' = FALSE
    /\ connected' = FALSE
    /\ IF step \in {"ap", "query", "result"} THEN Reply("noAnswer", NoRow)
                                             ELSE UNCHANGED <<step, reply>>
    /\ UNCHANGED <<request, tableVars, last, before>>

Abort == step = "ap" /\ Aborts /\ Dies

Reject ==
    /\ step = "ap"
    /\ ~Aborts /\ Rejected
    /\ Reply("error", NoRow)
    /\ UNCHANGED <<request, tableVars, last, apVars, before>>

Decide ==
    /\ step = "ap"
    /\ ~Aborts /\ ~Rejected
    /\ step' = "query"
    /\ UNCHANGED <<request, reply, tableVars, last, apVars, before>>

(* executeSelect. An empty result is what a failed query returns as well.  *)
Found(row) == IF row = NoRow THEN Reply("missing", NoRow) ELSE Reply("row", row)

Get ==
    /\ step = "query" /\ connected
    /\ operation = "get"
    /\ Found(IF msg.id \in Id THEN rows[table][msg.id] ELSE NoRow)
    /\ last' = [last EXCEPT !.ok = TRUE]
    /\ UNCHANGED <<request, tableVars, apVars, before>>

List ==
    /\ step = "query" /\ connected
    /\ operation = "list"
    /\ Reply("list", rows[table])
    /\ last' = [last EXCEPT !.ok = TRUE]
    /\ UNCHANGED <<request, tableVars, apVars, before>>

SelectFails ==
    /\ step = "query"
    /\ \/ operation = "get" /\ Found(NoRow)
       \/ operation = "list" /\ Reply("list", [i \in Id |-> NoRow])
    /\ UNCHANGED <<request, tableVars, last, apVars, before>>

(* executeQuery: the statement takes effect, and last tells what mysql_    *)
(* insert_id and mysql_affected_rows will return. A row to which an UPDATE *)
(* assigns what it holds, updated_at included, is not affected.            *)
NewRow == [k \in Columns(table) |-> Value(k)]

Insert(i) ==
    /\ i \in Id \ used[table]
    /\ rows' = [rows EXCEPT ![table][i] = NewRow]
    /\ used' = [used EXCEPT ![table] = @ \cup {i}]
    /\ last' = [ok |-> TRUE, id |-> i, affected |-> TRUE]
    /\ UNCHANGED fresh

Updated(row) == [k \in Columns(table) |-> IF k \in Assigned THEN msg[k] ELSE row[k]]

ThisRow == IF msg.id \in Id THEN rows[table][msg.id] ELSE NoRow

UpdateRow ==
    /\ UNCHANGED used
    /\ IF ThisRow = NoRow
       THEN /\ last' = [ok |-> TRUE, id |-> "0", affected |-> FALSE]
            /\ UNCHANGED <<rows, fresh>>
       ELSE /\ rows' = [rows EXCEPT ![table][msg.id] = Updated(ThisRow)]
            /\ fresh' = fresh \cup {<<table, msg.id>>}
            /\ last' = [ok |-> TRUE, id |-> "0",
                        affected |-> Updated(ThisRow) # ThisRow \/ <<table, msg.id>> \notin fresh]

DeleteRow ==
    /\ UNCHANGED used
    /\ last' = [ok |-> TRUE, id |-> "0", affected |-> ThisRow # NoRow]
    /\ IF ThisRow = NoRow
       THEN UNCHANGED <<rows, fresh>>
       ELSE /\ rows' = [rows EXCEPT ![table][msg.id] = NoRow]
            /\ fresh' = fresh \ {<<table, msg.id>>}

Effect ==
    \/ operation = "create" /\ \E i \in Id : Insert(i)
    \/ operation \in {"update", "updateStatus"} /\ UpdateRow
    \/ operation = "delete" /\ DeleteRow

Writes == operation \in {"create", "update", "updateStatus", "delete"}

Query ==
    /\ step = "query" /\ connected
    /\ Effect
    /\ step' = "result"
    /\ UNCHANGED <<request, reply, apVars, before>>

(* executeQuery returns false: not connected, the statement was refused,   *)
(* or the connection broke before or after it took effect.                 *)
QueryFails ==
    /\ step = "query" /\ Writes
    /\ \/ UNCHANGED <<tableVars, last>>
       \/ connected /\ Effect
    /\ Reply("failed", NoRow)
    /\ UNCHANGED <<request, apVars, before>>

(* getLastInsertId and getAffectedRows return 0 once main has disconnected. *)
Affected_Unchecked == TRUE  \* success without a look at getAffectedRows
Affected_MoreThanOne == FALSE  \* > 1
Affected == connected /\ last.affected

Done == UNCHANGED <<request, tableVars, last, apVars, before>>

CreateSucceeds ==
    /\ step = "result"
    /\ operation = "create"
    /\ Creates[table].echoed \subseteq DOMAIN msg
    /\ Reply("ok", IF connected THEN last.id ELSE "0")
    /\ Done

ChangeSucceeds ==
    /\ step = "result"
    /\ operation # "create"
    /\ IF Affected THEN Reply("ok", msg.id) ELSE Reply("missing", NoRow)
    /\ Done

AbortAfterInsert ==
    /\ step = "result"
    /\ operation = "create"
    /\ ~(Creates[table].echoed \subseteq DOMAIN msg)
    /\ Dies

-----------------------------------------------------------------------------
(* AP's main thread after SIGTERM, its end and start, and the clock.       *)

Disconnect ==
    /\ up /\ connected
    /\ connected' = FALSE
    /\ UNCHANGED <<step, request, reply, tableVars, last, up, before>>

Exit == up /\ ~connected /\ Dies

ApStart ==
    /\ ~up
    /\ up' = TRUE
    /\ connected' = TRUE
    /\ UNCHANGED <<step, request, reply, tableVars, last, before>>

NextSecond ==
    /\ fresh # {}
    /\ fresh' = {}
    /\ UNCHANGED <<step, request, reply, rows, used, last, apVars, before>>

Next ==
    \/ \E r \in Request : Ask(r)
    \/ Preflight \/ NotFound \/ HandleLocally \/ Forward
    \/ Abort \/ Reject \/ Decide
    \/ Get \/ List \/ SelectFails \/ Query \/ QueryFails
    \/ CreateSucceeds \/ ChangeSucceeds \/ AbortAfterInsert
    \/ Disconnect \/ Exit \/ ApStart \/ NextSecond

Spec == Init /\ [][Next]_vars

-----------------------------------------------------------------------------
(***************************************************************************)
(* Properties.                                                             *)
(***************************************************************************)

(* What the client asked for, in words of the API: the row before and now. *)
Same(t, i) == rows[t][i] = before[t][i]
OnlyThis(t, i) == \A u \in Table : \A j \in Id : Same(u, j) \/ <<u, j>> = <<t, i>>

Created(t, b) == \E i \in Id :
    /\ OnlyThis(t, i)
    /\ before[t][i] = NoRow
    /\ reply.data \in {i, "0"}
    /\ rows[t][i] = [k \in Columns(t) |->
           IF k \in DOMAIN b THEN b[k] ELSE Creates[t].default[k]]

(* An empty text clears a phone or a description and leaves the rest; an   *)
(* order stays its user's.                                                 *)
Sets(b, k) ==
    /\ k \in DOMAIN b \ {"user_id"}
    /\ operation = "update" \/ k = "status"
    /\ b[k] # "" \/ k \in {"phone", "description"}

Changed(t, i, b) ==
    /\ OnlyThis(t, i)
    /\ NoRow \notin {before[t][i], rows[t][i]}
    /\ \A k \in Columns(t) : rows[t][i][k] = IF Sets(b, k) THEN b[k] ELSE before[t][i][k]

Deleted(t, i) == OnlyThis(t, i) /\ before[t][i] # NoRow /\ rows[t][i] = NoRow

(* The reply is true. Told "ok", the client finds exactly the one row      *)
(* created, changed or deleted that it named, with its values; told of an  *)
(* error before the statement, or shown rows, it has changed nothing, and  *)
(* the row it is shown is the row there is. "failed", "missing" and no     *)
(* answer promise nothing.                                                 *)
ChangesNothing == {"options", "notFound", "local", "unreachable", "error", "row", "list"}

Truthful ==
    /\ reply.kind \in ChangesNothing => rows = before
    /\ reply.kind = "row" => reply.data = rows[table][request.body.id]
    /\ reply.kind = "ok" =>
           /\ operation = "create" => Created(table, request.body)
           /\ operation = "delete" => Deleted(table, request.body.id)
           /\ operation \notin {"create", "delete"} =>
                  Changed(table, request.body.id, request.body)

(* "It does not exist" (reply missing) is told of an existing row only if  *)
(* the select failed, main has disconnected the database, or an update     *)
(* assigned what the row held: a client that repeats its update within the *)
(* second is told that its row is not there.                               *)
Pretends ==
    \/ operation = "get" /\ ~last.ok
    \/ ~connected
    \/ Assigned # {} /\ ThisRow # NoRow /\ Updated(ThisRow) = ThisRow /\ rows = before

MissingMeans ==
    [][reply'.kind = "missing" /\ reply # reply' =>
          \/ msg.id \notin Id \/ before[table][msg.id] = NoRow
          \/ Pretends']_vars

(* A request whose body brings no type of its own changes rows only of the *)
(* table its path names, and none if its method is GET.                    *)
Confined ==
    [][rows' # rows /\ "type" \notin DOMAIN request.body =>
          /\ request.method \in {"POST", "PUT", "PATCH", "DELETE"}
          /\ \A t \in Table : rows'[t] # rows[t] => t = Head(request.path)]_vars

(* AP survives every request that gives the id and all columns as texts,   *)
(* even one sent to an object that is not there. An id left out, or a      *)
(* category, description or status left out of a new product, ends it.     *)
Complete(r) ==
    /\ {"type", "request_id"} \cap DOMAIN r.body = {}
    /\ \A t \in Table : <<t>> = r.path => {"id"} \cup Columns(t) \subseteq DOMAIN r.body
    /\ \A k \in DOMAIN r.body : r.body[k] # Number

Survives == [][up /\ connected /\ ~up' => ~Complete(request)]_vars

(* Each request that README.md:101-120 documents has a route.               *)
Documented(method, path) ==
    /\ Head(path) \in Table
    /\ \/ method = "GET" /\ Len(path) <= 2
       \/ method \in {"POST", "PUT", "DELETE"} /\ Len(path) = 1
       \/ method = "PATCH" /\ Head(path) = "order" /\ Len(path) = 3

DocumentedIsRouted ==
    reply.kind = "notFound" => ~Documented(request.method, request.path)

(* README.md:103-105: users are created, updated and deleted by POST, PUT  *)
(* and DELETE. A request for it that names its user and has all columns,   *)
(* none of them empty, is not turned down before it comes to a statement.  *)
UsersManaged ==
    /\ reply.kind = "error"
    /\ request.method \in {"POST", "PUT", "DELETE"} /\ request.path = <<"user">>
    => ~(Complete(request) /\ \A k \in DOMAIN request.body : request.body[k] # "")

===============================================================================
