---------------------------- MODULE MCEpollServer ----------------------------
(* Small instances of EpollServer for TLC: how many peers come, and how    *)
(* many descriptors the process has left for them.                         *)
EXTENDS EpollFraming, TLC

CONSTANTS p1, p2, p3, f1, f2, f3

TwoPeers == {p1, p2}
ThreePeers == {p1, p2, p3}
OneFd == {f1}
TwoFds == {f1, f2}
ThreeFds == {f1, f2, f3}

(* Neither peers nor descriptors are ordered or named in the specification. *)
Interchangeable == Permutations(Peer) \cup Permutations(Fd)

===============================================================================
