--------------------------- MODULE MCThreadedServer ---------------------------
(* A small instance of ThreadedServer for TLC: three clients, two places.  *)
EXTENDS ThreadedServer, TLC

CONSTANTS p1, p2, p3

ThreePeers == {p1, p2, p3}

===============================================================================
