----------------------------- MODULE MCTcpServer -----------------------------
(* Instances of TcpServer for TLC. *)
EXTENDS TcpServer, TLC

CONSTANTS b1, b2, b3, id1, id2

TwoBevs == {b1, b2}
ThreeBevs == {b1, b2, b3}
OneId == {id1}
TwoIds == {id1, id2}
TwoFds == {7, 8}
ThreeFds == {7, 8, 9}

\* Addresses and identifiers are only compared for equality.
Symmetry3 == Permutations(ThreeBevs) \cup Permutations(TwoIds)
=============================================================================
