---------------------------- MODULE MCForwardPath -----------------------------
(***************************************************************************)
(* Instances of ForwardPath for TLC. Three changes, two DISP threads and   *)
(* room for two in AP's backlog let one request be served, one wait and    *)
(* one be turned away, while answers already given up are still worked on. *)
(***************************************************************************)
EXTENDS ForwardPath

CONSTANTS r1, r2, r3

===============================================================================
