--------------------------- MODULE MCLoginPackage ---------------------------
(* An instance of LoginPackage for TLC: three bytes, 1 and 2 also being the   *)
(* types, and a Sync whose start repeats itself.                              *)
EXTENDS LoginPackage

MCSync == <<2, 2, 1>>
=============================================================================
