------------------------------- MODULE MCLogger -------------------------------
(***************************************************************************)
(* The logger with two threads and a signal handler.                       *)
(***************************************************************************)
EXTENDS EnhancedLogger

===============================================================================
