------------------------------ MODULE OrderStore ------------------------------
(***************************************************************************)
(* What a client of /api/user, /api/order or /api/product may rely on when *)
(* it asks for a change of the database: it is told "ok" only for a change *)
(* that has been made, no change is made twice, and none is made that was  *)
(* not asked for. Being told "failed" promises nothing: the change may     *)
(* have been made, or may still be made later.                             *)
(***************************************************************************)
EXTENDS Naturals, Sequences

CONSTANTS Request       \* changes asked for; a retry is a request of its own

VARIABLES
    told,       \* [Request -> {"nothing", "waiting", "ok", "failed"}]
    applied     \* the changes made, in order

vars == <<told, applied>>

Applied == {applied[i] : i \in DOMAIN applied}

Init ==
    /\ told = [r \in Request |-> "nothing"]
    /\ applied = <<>>

Ask(r) ==
    /\ told[r] = "nothing"
    /\ told' = [told EXCEPT ![r] = "waiting"]
    /\ UNCHANGED applied

Apply(r) ==
    /\ told[r] # "nothing"
    /\ r \notin Applied
    /\ applied' = Append(applied, r)
    /\ UNCHANGED told

Succeed(r) ==
    /\ told[r] = "waiting"
    /\ r \in Applied
    /\ told' = [told EXCEPT ![r] = "ok"]
    /\ UNCHANGED applied

(* Several may fail at once: all that wait on a process that dies.         *)
Fail(S) ==
    /\ \A r \in S : told[r] = "waiting"
    /\ told' = [r \in Request |-> IF r \in S THEN "failed" ELSE told[r]]
    /\ UNCHANGED applied

Next ==
    \/ \E r \in Request : Ask(r) \/ Apply(r) \/ Succeed(r)
    \/ \E S \in SUBSET Request : Fail(S)

Spec == Init /\ [][Next]_vars

===============================================================================
