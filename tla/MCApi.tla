-------------------------------- MODULE MCApi --------------------------------
(***************************************************************************)
(* Requests for TLC: methods and paths with no body, and bodies for        *)
(* products, orders and users that are complete, lack a key, hold an empty *)
(* text, a number or a bad price, or bring a type of their own.            *)
(***************************************************************************)
EXTENDS Api, TLC

Sends(methods, path, bodies) == [method : methods, path : {path}, body : bodies]

None == {<< >>}

Bare ==
    Sends({"GET", "POST", "PUT", "PATCH", "OPTIONS"}, <<"order">>, None)
    \cup Sends({"GET", "PATCH"}, <<"product">>, None)
    \cup Sends({"GET", "PATCH"}, <<"order", "1", "status">>, None)
    \cup UNION {Sends({"GET"}, p, None) : p \in {<<"health">>, <<"order", "1">>, <<"nothing">>}}

Tea == [name |-> "tea", category |-> "food", description |-> "green", price |-> "2",
        stock |-> "1", status |-> "active"]
Ann == [UserCreate.default EXCEPT !.name = "ann", !.email = "mail", !.phone = "1"]
Sale == [customer_name |-> "ann", product_name |-> "tea", quantity |-> "1",
         total_amount |-> "2", status |-> "pending", user_id |-> "1"]

Without(f, k) == [x \in DOMAIN f \ {k} |-> f[x]]
At(i, f) == "id" :> i @@ f

Products ==
    Sends({"POST"}, <<"product">>,
          {At("", Tea), Without(Tea, "status"), [Tea EXCEPT !.price = "-1"],
           [Tea EXCEPT !.name = ""], [Tea EXCEPT !.stock = Number]})
    \cup Sends({"PUT"}, <<"product">>,
          {At(i, [price |-> "-1", name |-> "", description |-> ""]) : i \in Id} \cup {At(i, Tea) : i \in Id}
            \cup {At(Number, Tea)})
    \cup Sends({"DELETE"}, <<"product">>, {At(i, << >>) : i \in Id})
    \cup Sends({"GET"}, <<"product">>, {At(i, [type |-> <<"product", "get">>]) : i \in Id})

Orders ==
    Sends({"POST"}, <<"order">>,
          {Sale, [Sale EXCEPT !.customer_name = ""], [Sale EXCEPT !.quantity = Number]})
    \cup Sends({"PATCH"}, <<"order">>, {At(i, [status |-> "paid", user_id |-> "2"]) : i \in Id})
    \cup Sends({"DELETE"}, <<"order">>, {At(i, << >>) : i \in Id} \cup {At("", << >>)})
    \cup Sends({"PUT"}, <<"order">>,
          {At(i, [status |-> "paid", quantity |-> "9", type |-> <<"order", "updateStatus">>]) : i \in Id}
            \cup {[type |-> Number], [request_id |-> Number]})

Users ==
    UNION {Sends({"POST", "PUT", "DELETE"}, <<"user">>, {At(i, Ann)})
             \cup Sends({"GET"}, <<"user">>, {At(i, [type |-> <<"user", "get">>])}) : i \in Id}

MCRequest == Bare \cup Products \cup Orders \cup Users

MCBadPrice == {"-1", "cheap"}

IdsAlike == Permutations(Id)

===============================================================================
