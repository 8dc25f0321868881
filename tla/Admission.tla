------------------------------ MODULE Admission ------------------------------
(***************************************************************************)
(* What a raw session promises of the data it reads.  It is asked with one *)
(* read after the other, each is answered as a whole and forgotten, and    *)
(* the first that bears a card logs the session in with that card, unless  *)
(* memory runs out over it.                                                *)
(***************************************************************************)
CONSTANTS
  Data,       \* what one read can return
  Nothing,    \* no data
  CardOf(_),  \* the card that the data of a read bears, NULL if it bears none
  NULL

VARIABLES
  asked,   \* the read that is waiting for its answer, or Nothing
  card,    \* the card the session has logged in with
  failed   \* memory has run out over the read that is waiting

admissionVars == <<asked, card, failed>>

Init == asked = Nothing /\ card = NULL /\ failed = FALSE

Ask ==
  /\ asked = Nothing /\ card = NULL
  /\ asked' \in Data
  /\ UNCHANGED <<card, failed>>

Bears == asked # Nothing /\ CardOf(asked) # NULL

Admit ==
  /\ Bears /\ ~failed
  /\ card' = CardOf(asked)
  /\ asked' = Nothing
  /\ UNCHANGED failed

RunOut ==
  /\ Bears /\ ~failed
  /\ failed' = TRUE
  /\ UNCHANGED <<asked, card>>

Refuse ==
  /\ asked # Nothing
  /\ CardOf(asked) = NULL \/ failed
  /\ asked' = Nothing /\ failed' = FALSE
  /\ UNCHANGED card

Next == Ask \/ Admit \/ RunOut \/ Refuse

Spec == Init /\ [][Next]_admissionVars
=============================================================================
