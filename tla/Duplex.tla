------------------------------- MODULE Duplex -------------------------------
(***************************************************************************)
(* What a device and a client with the same id are promised about the      *)
(* conversation they have through the relay, without buffers, reads or     *)
(* sockets.  Nobody listens until both have introduced themselves.  From   *)
(* then on nothing that is said is skipped, repeated or reordered, although*)
(* the conversation may be cut at any moment and its end go unheard.  Only *)
(* a shortage of memory makes a gap, in one place and of a limited length, *)
(* or keeps an end from being told.                                        *)
(***************************************************************************)
EXTENDS Integers, Sequences

CONSTANTS
  Byte,          \* what can be said
  Most,          \* the most that a shortage takes away
  MaxShortages   \* bound: shortages

End == {1, 2}
Peer(e) == 3 - e

VARIABLES
  said,      \* all that each end has said, except for what was taken away
  missed,    \* how much of it, from the start, was said to nobody
  coupled,   \* the two are coupled
  told,      \* whether each end knows that it is coupled: "yes", "no" or "never"
  heard,     \* what each end has heard of the other
  shortages  \* how often memory has been short

duplexVars == <<said, missed, coupled, told, heard, shortages>>

Init ==
  /\ said = [e \in End |-> <<>>]
  /\ missed = [e \in End |-> 0]
  /\ coupled = FALSE
  /\ told = [e \in End |-> "no"]
  /\ heard = [e \in End |-> <<>>]
  /\ shortages \in {0, 1}

Shortage == shortages < MaxShortages /\ shortages' = shortages + 1

Say(e, x) ==
  /\ said' = [said EXCEPT ![e] = Append(@, x)]
  /\ UNCHANGED <<missed, coupled, told, heard, shortages>>

\* Words said before the two are coupled: an introduction, after which they may
\* be, or anything else.  In a shortage an end may never be told.
Miss(e) ==
  /\ ~coupled
  /\ \E n \in missed[e] .. Len(said[e]) : missed' = [missed EXCEPT ![e] = n]
  /\ \/ UNCHANGED <<coupled, told, shortages>>
     \/ /\ coupled' = TRUE
        /\ \A f \in End : missed'[f] > 0
        /\ \/ UNCHANGED <<told, shortages>>
           \/ Shortage /\ told' \in [End -> {"no", "never"}]
  /\ UNCHANGED <<said, heard>>

Tell(e) ==
  /\ coupled
  /\ told[e] = "no"
  /\ told' = [told EXCEPT ![e] = "yes"]
  /\ UNCHANGED <<said, missed, coupled, heard, shortages>>

\* e, unless it is still to be told, hears the next word of its peer.
Hear(e) ==
  LET next == missed[Peer(e)] + Len(heard[e]) + 1
  IN
  /\ coupled /\ told[e] # "no"
  /\ next <= Len(said[Peer(e)])
  /\ heard' = [heard EXCEPT ![e] = Append(@, said[Peer(e)][next])]
  /\ UNCHANGED <<said, missed, coupled, told, shortages>>

\* In a shortage a piece of what e has said is taken away before it is heard.
Lose(e) ==
  /\ coupled
  /\ Shortage
  /\ \E i \in missed[e] + Len(heard[Peer(e)]) .. Len(said[e]) :
       \E j \in i .. Len(said[e]) :
         /\ j - i <= Most
         /\ said' = [said EXCEPT ![e] = SubSeq(@, 1, i) \o SubSeq(@, j + 1, Len(@))]
  /\ UNCHANGED <<missed, coupled, told, heard>>

Next ==
  \E e \in End : (\E x \in Byte : Say(e, x)) \/ Miss(e) \/ Tell(e) \/ Hear(e) \/ Lose(e)

Spec == Init /\ [][Next]_duplexVars
=============================================================================
