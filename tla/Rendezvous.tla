----------------------------- MODULE Rendezvous -----------------------------
(***************************************************************************)
(* What the relay promises to those who connect to it, without             *)
(* bufferevents, descriptors, maps or timers.  Everyone who arrives is     *)
(* anonymous until he shows a card; a card holder is coupled at once with  *)
(* someone of the opposite type who waits with the same id, or waits       *)
(* himself; a couple speaks only to each other and leaves together.        *)
(***************************************************************************)
CONSTANTS
  Guest,   \* those who may arrive, each at most once
  Id,
  NULL

Type == {1, 2}
GuestCard == [type : Type, id : Id]

VARIABLES
  status,  \* where each guest is in his visit
  card,    \* the card each guest has shown, NULL before he does and afterwards
  mate,    \* whom each guest is coupled with, NULL if nobody
  heard    \* those whose words each guest has been passed

guestVars == <<status, card, mate, heard>>

Status == {"absent", "anonymous", "waiting", "coupled", "left"}

Complementary(c, d) == c.id = d.id /\ c.type # d.type

Wanted(c) == {g \in Guest : status[g] = "waiting" /\ Complementary(c, card[g])}

Init ==
  /\ status = [g \in Guest |-> "absent"]
  /\ card = [g \in Guest |-> NULL]
  /\ mate = [g \in Guest |-> NULL]
  /\ heard = [g \in Guest |-> {}]

Arrive(g) ==
  /\ status[g] = "absent"
  /\ status' = [status EXCEPT ![g] = "anonymous"]
  /\ UNCHANGED <<card, mate, heard>>

\* Nobody waits for a holder of this card yet.
Wait(g, c) ==
  /\ status[g] = "anonymous"
  /\ Wanted(c) = {}
  /\ status' = [status EXCEPT ![g] = "waiting"]
  /\ card' = [card EXCEPT ![g] = c]
  /\ UNCHANGED <<mate, heard>>

Couple(g, h, c) ==
  /\ status[g] = "anonymous"
  /\ h \in Wanted(c)
  /\ status' = [status EXCEPT ![g] = "coupled", ![h] = "coupled"]
  /\ card' = [card EXCEPT ![g] = c]
  /\ mate' = [mate EXCEPT ![g] = h, ![h] = g]
  /\ UNCHANGED heard

Speak(g) ==
  /\ status[g] = "coupled"
  /\ heard' = [heard EXCEPT ![mate[g]] = @ \cup {g}]
  /\ UNCHANGED <<status, card, mate>>

Leave(g) ==
  LET leaving == {g, mate[g]} \ {NULL}
  IN
  /\ status[g] \notin {"absent", "left"}
  /\ status' = [h \in Guest |-> IF h \in leaving THEN "left" ELSE status[h]]
  /\ card' = [h \in Guest |-> IF h \in leaving THEN NULL ELSE card[h]]
  /\ mate' = [h \in Guest |-> IF h \in leaving THEN NULL ELSE mate[h]]
  /\ heard' = [h \in Guest |-> IF h \in leaving THEN {} ELSE heard[h]]

Next ==
  \E g \in Guest :
    \/ Arrive(g)
    \/ \E c \in GuestCard : Wait(g, c) \/ \E h \in Guest : Couple(g, h, c)
    \/ Speak(g)
    \/ Leave(g)

Spec == Init /\ [][Next]_guestVars
=============================================================================
