------------------------------ MODULE MCStartup ------------------------------
(* An instance of Startup for TLC: a number that is its own port, one that is *)
(* 2^16 too high, and a text that is no number.                               *)
EXTENDS Startup

MCText == {"50", "65617", "junk"}
MCAtoi == [t \in MCText |->
             CASE t = "50" -> 50 [] t = "65617" -> 65617 [] t = "junk" -> 0]
MCDefault == [k \in Key |-> "50"]
=============================================================================
