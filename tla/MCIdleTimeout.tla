---------------------------- MODULE MCIdleTimeout ----------------------------
(* Instances of IdleTimeout for TLC: two connections, one identifier; time in *)
(* units of ten seconds.                                                      *)
EXTENDS IdleTimeout

CONSTANTS b1, b2, id1

TwoBevs == {b1, b2}
OneBev == {b1}
OneId == {id1}
=============================================================================
