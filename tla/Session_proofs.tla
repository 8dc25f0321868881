--------------------------- MODULE Session_proofs ---------------------------
(***************************************************************************)
(* What the record operators of Session return, for the proofs about the   *)
(* modules that keep sessions.                                             *)
(***************************************************************************)
EXTENDS Session, TLAPS

\* A new or a destroyed session, and what login, match_done, inactive and
\* business make of a session, are records of the declared type.
LEMMA SessionTypes ==
  /\ \A bev \in Bev \cup {NULL} : NewSession(bev) \in SessionRecord
  /\ Destroyed \in SessionRecord
  /\ \A se \in SessionRecord :
       /\ \A card \in Card \cup {NULL} : LoggedIn(se, card) \in SessionRecord
       /\ \A bev \in Bev \cup {NULL}, card \in Card \cup {NULL} :
            MatchDone(se, bev, card) \in SessionRecord
       /\ \A interval \in Int : Idled(se, interval) \in SessionRecord
       /\ Touched(se) \in SessionRecord
<1>1. /\ {"Raw", "Login", "Bind", "Die"} \subseteq SessionState
      /\ LoginTimeout \in Int /\ MatchTimeout \in Int /\ ActiveTimeout \in Int
      /\ 0 \in Int
  BY SessionAssumption DEF SessionState
<1>2. /\ \A bev \in Bev \cup {NULL} : NewSession(bev) \in SessionRecord
      /\ Destroyed \in SessionRecord
  BY <1>1 DEF SessionRecord, NewSession, Destroyed
<1>3. ASSUME NEW se \in SessionRecord
      PROVE  /\ \A card \in Card \cup {NULL} : LoggedIn(se, card) \in SessionRecord
             /\ \A bev \in Bev \cup {NULL}, card \in Card \cup {NULL} :
                  MatchDone(se, bev, card) \in SessionRecord
             /\ \A interval \in Int : Idled(se, interval) \in SessionRecord
             /\ Touched(se) \in SessionRecord
  <2>1. "Login" \in SessionState /\ "Bind" \in SessionState
    BY <1>1
  <2>2. \A card \in Card \cup {NULL} : LoggedIn(se, card) \in SessionRecord
    BY <1>1, <2>1, Zenon DEF SessionRecord, LoggedIn
  <2>3. \A bev \in Bev \cup {NULL}, card \in Card \cup {NULL} :
          MatchDone(se, bev, card) \in SessionRecord
    BY <1>1, <2>1, Zenon DEF SessionRecord, MatchDone
  <2>4. ASSUME NEW interval \in Int
        PROVE  Idled(se, interval) \in SessionRecord
    <3>1. se.inactive + interval \in Int
      BY DEF SessionRecord
    <3> QED
      BY <3>1 DEF SessionRecord, Idled
  <2>5. Touched(se) \in SessionRecord
    BY <1>1 DEF SessionRecord, Touched
  <2> QED
    BY <2>2, <2>3, <2>4, <2>5
<1> QED
  BY <1>2, <1>3

\* The fields of a new session and of a destroyed one.
LEMMA NewFields ==
  ASSUME NEW bev
  PROVE  /\ NewSession(bev).state = "Raw" /\ NewSession(bev).inactive = 0
         /\ NewSession(bev).timeouts = LoginTimeout
         /\ NewSession(bev).myBev = bev /\ NewSession(bev).myCard = NULL
         /\ NewSession(bev).peerBev = NULL
         /\ Destroyed.state = "Die"
  BY DEF NewSession, Destroyed

\* The fields login sets, and those it keeps.
LEMMA LoggedInFields ==
  ASSUME NEW se \in SessionRecord, NEW card
  PROVE  /\ LoggedIn(se, card).state = "Login" /\ LoggedIn(se, card).myCard = card
         /\ LoggedIn(se, card).inactive = 0
         /\ LoggedIn(se, card).timeouts = MatchTimeout
         /\ LoggedIn(se, card).myBev = se.myBev
         /\ LoggedIn(se, card).peerBev = se.peerBev
  BY DEF LoggedIn, SessionRecord

\* The fields match_done sets, and those it keeps.
LEMMA MatchDoneFields ==
  ASSUME NEW se \in SessionRecord, NEW bev, NEW card
  PROVE  /\ MatchDone(se, bev, card).state = "Bind"
         /\ MatchDone(se, bev, card).peerBev = bev
         /\ MatchDone(se, bev, card).peerCard = card
         /\ MatchDone(se, bev, card).inactive = 0
         /\ MatchDone(se, bev, card).timeouts = ActiveTimeout
         /\ MatchDone(se, bev, card).myBev = se.myBev
         /\ MatchDone(se, bev, card).myCard = se.myCard
  BY DEF MatchDone, SessionRecord

\* Neither inactive nor business touches anything but m_inactive.
LEMMA IdledFields ==
  ASSUME NEW se \in SessionRecord, NEW interval
  PROVE  /\ Idled(se, interval).inactive = se.inactive + interval
         /\ Idled(se, interval).state = se.state
         /\ Idled(se, interval).timeouts = se.timeouts
         /\ Idled(se, interval).myBev = se.myBev
         /\ Idled(se, interval).myCard = se.myCard
         /\ Idled(se, interval).peerBev = se.peerBev
         /\ Touched(se).inactive = 0
         /\ Touched(se).state = se.state
         /\ Touched(se).timeouts = se.timeouts
         /\ Touched(se).myBev = se.myBev
         /\ Touched(se).myCard = se.myCard
         /\ Touched(se).peerBev = se.peerBev
<1>1. /\ Idled(se, interval).inactive = se.inactive + interval
      /\ Idled(se, interval).state = se.state
      /\ Idled(se, interval).timeouts = se.timeouts
      /\ Idled(se, interval).myBev = se.myBev
      /\ Idled(se, interval).myCard = se.myCard
      /\ Idled(se, interval).peerBev = se.peerBev
  BY DEF Idled, SessionRecord
<1>2. /\ Touched(se).inactive = 0
      /\ Touched(se).state = se.state
      /\ Touched(se).timeouts = se.timeouts
      /\ Touched(se).myBev = se.myBev
      /\ Touched(se).myCard = se.myCard
      /\ Touched(se).peerBev = se.peerBev
  BY DEF Touched, SessionRecord
<1> QED
  BY <1>1, <1>2
=============================================================================
