------------------------------ MODULE MCRelay ------------------------------
(* Instances of Relay for TLC: a login package and a byte of data, or login   *)
(* packages alone, which once a pair is bound are data like any other.        *)
EXTENDS Relay

CONSTANTS login, x

OneByte == {login, x}
LoginsOnly == {login}
ThreeAndTwo == <<3, 2>>
TwoEach == <<2, 2>>
=============================================================================
