------------------------- MODULE IdleTimeout_proofs -------------------------
(***************************************************************************)
(* Proofs about the idle timeouts of IdleTimeout, for every number of      *)
(* connections, every interval and every value of the three timeouts.      *)
(***************************************************************************)
EXTENDS IdleTimeout, Session_proofs

-----------------------------------------------------------------------------
(* Types. *)

\* A write leaves every write timer alone or starts one that did not run.
LEMMA WriteEffect ==
  ASSUME TypeOK, NEW ends \in SUBSET Bev, Write(ends)
  PROVE  /\ writeDue' \in [Bev -> {Never} \cup 0 .. Interval]
         /\ \A c \in Bev : \/ writeDue'[c] = writeDue[c]
                           \/ writeDue[c] = Never /\ writeDue'[c] = Interval
<1>1. PICK stuck \in SUBSET ends :
        writeDue' = [b \in Bev |-> IF b \in stuck /\ writeDue[b] = Never
                                   THEN Interval ELSE writeDue[b]]
  BY DEF Write
<1>2. Interval \in 0 .. Interval
  BY IdleAssumption
<1> QED
  BY <1>1, <1>2 DEF TypeOK

\* Who hears starts his read timer and his idle time afresh.
LEMMA HearTypes ==
  ASSUME TypeOK, NEW b \in Bev, NEW ends, Hear(b, ends)
  PROVE  readDue' \in [Bev -> 0 .. Interval] /\ idle' \in [Bev -> Nat]
<1>1. Interval \in 0 .. Interval
  BY IdleAssumption
<1> QED
  BY <1>1 DEF TypeOK, Hear

\* Restarting a count keeps the type of the history variable.
LEMMA RestartTypes ==
  ASSUME TypeOK, NEW ends, Restart(ends)
  PROVE  since' \in [Bev -> Nat]
BY DEF TypeOK, Restart

\* A removal keeps the types.
LEMMA RemoveTypes ==
  ASSUME TypeOK, NEW b \in Bev, Remove(b)
  PROVE  TypeOK'
<1>1. Destroyed \in SessionRecord /\ Interval \in 0 .. Interval
  BY SessionTypes, IdleAssumption
<1> QED
  BY <1>1, RestartTypes DEF TypeOK, Remove

\* TypeOK holds initially.
LEMMA InitTypeOK == Init => TypeOK
<1>1. Destroyed \in SessionRecord /\ Interval \in 0 .. Interval
  BY SessionTypes, IdleAssumption
<1> QED
  BY <1>1 DEF Init, TypeOK

\* The records a login produces are session records.
LEMMA LoginTypes ==
  ASSUME TypeOK, NEW b \in Bev, NEW card \in Card
  PROVE  /\ LoggedIn(session[b], card) \in SessionRecord
         /\ \A c \in Bev :
              /\ session[c] \in SessionRecord
              /\ MatchDone(session[c], b, card) \in SessionRecord
              /\ MatchDone(LoggedIn(session[b], card), c, session[c].myCard)
                   \in SessionRecord
<1>1. \A c \in Bev : session[c] \in SessionRecord
  BY DEF TypeOK
<1>2. LoggedIn(session[b], card) \in SessionRecord
  BY <1>1, SessionTypes
<1>3. \A c \in Bev : session[c].myCard \in Card \cup {NULL}
  BY <1>1 DEF SessionRecord
<1> QED
  BY <1>1, <1>2, <1>3, SessionTypes

\* Every step keeps TypeOK.
LEMMA NextTypeOK == TypeOK /\ [Next]_vars => TypeOK'
<1> SUFFICES ASSUME TypeOK, [Next]_vars PROVE TypeOK'
  OBVIOUS
<1>1. Interval \in Nat /\ Interval \in 0 .. Interval
  BY IdleAssumption
<1>2. ASSUME NEW b \in Bev, Accept(b) PROVE TypeOK'
  <2>1. NewSession(b) \in SessionRecord
    BY SessionTypes
  <2> QED
    BY <1>1, <1>2, <2>1 DEF Accept, TypeOK
<1>3. ASSUME NEW b \in Bev, NEW card \in Card, Login(b, card) PROVE TypeOK'
  <2> DEFINE in == LoggedIn(session[b], card)
  <2>1. ASSUME session' = [session EXCEPT ![b] = in], Hear(b, {b}), Restart({b}),
               UNCHANGED writeDue
        PROVE  TypeOK'
    BY <2>1, HearTypes, RestartTypes, LoginTypes DEF TypeOK
  <2>2. ASSUME NEW c \in Bev,
               session' = [session EXCEPT
                 ![b] = MatchDone(in, c, session[c].myCard),
                 ![c] = MatchDone(session[c], b, card)],
               Hear(b, {b, c}), Restart({b, c}), Write({b, c})
        PROVE  TypeOK'
    <3>1. session' \in [Bev -> SessionRecord]
      BY <2>2, LoginTypes DEF TypeOK
    <3> QED
      BY <2>2, <3>1, HearTypes, RestartTypes, WriteEffect DEF TypeOK
  <2> QED
    BY <1>3, <2>1, <2>2 DEF Login
<1>4. ASSUME NEW b \in Bev, Discard(b) PROVE TypeOK'
  BY <1>4, HearTypes DEF Discard, TypeOK
<1>5. ASSUME NEW b \in Bev, Business(b) PROVE TypeOK'
  <2>1. session[b] \in SessionRecord /\ Touched(session[b]) \in SessionRecord
    BY SessionTypes DEF TypeOK
  <2>2. PICK stuck \in SUBSET {session[b].peerBev} :
          writeDue' = [c \in Bev |-> IF c \in stuck /\ writeDue[c] = Never
                                     THEN Interval ELSE writeDue[c]]
    BY <1>5 DEF Business, Write
  <2> QED
    BY <1>1, <1>5, <2>1, <2>2, HearTypes, RestartTypes DEF Business, TypeOK
<1>6. ASSUME NEW b \in Bev, WriteProgress(b) PROVE TypeOK'
  BY <1>1, <1>6 DEF WriteProgress, TypeOK
<1>7. ASSUME NEW b \in Bev, Hangup(b) PROVE TypeOK'
  BY <1>7, RemoveTypes DEF Hangup
<1>8. ASSUME NEW b \in Bev, Timeout(b) PROVE TypeOK'
  <2>1. CASE Remove(b)
    BY <2>1, RemoveTypes
  <2>2. CASE /\ session' = [session EXCEPT ![b] = Idled(session[b], Interval)]
             /\ readDue' = [readDue EXCEPT ![b] = Interval]
             /\ \E due \in {Never, Interval} :
                  writeDue' = [writeDue EXCEPT ![b] = due]
             /\ UNCHANGED <<idle, since>>
    <3>1. session[b] \in SessionRecord /\ Interval \in Int
      BY <1>1 DEF TypeOK
    <3>2. Idled(session[b], Interval) \in SessionRecord
      BY <3>1, SessionTypes, Zenon
    <3> QED
      BY <1>1, <2>2, <3>2 DEF TypeOK
  <2> QED
    BY <1>8, <2>1, <2>2 DEF Timeout, Overdue
<1>9. CASE Pass
  <2>1. ASSUME NEW b \in Open
        PROVE  /\ readDue[b] - 1 \in 0 .. Interval
               /\ writeDue[b] # Never => writeDue[b] - 1 \in 0 .. Interval
    <3>1. /\ b \in Bev /\ readDue[b] # 0 /\ writeDue[b] # 0
          /\ readDue[b] \in 0 .. Interval
          /\ writeDue[b] \in {Never} \cup 0 .. Interval
      BY <1>9 DEF Pass, Due, Open, TypeOK
    <3> QED
      BY <1>1, <3>1
  <2> QED
    BY <1>9, <2>1 DEF Pass, TypeOK
<1>10. CASE UNCHANGED vars
  BY <1>10 DEF vars, TypeOK
<1> QED
  BY <1>2, <1>3, <1>4, <1>5, <1>6, <1>7, <1>8, <1>9, <1>10 DEF Next

\* Every variable keeps the type its declaration in the source gives it.
THEOREM TypeCorrect == Spec => []TypeOK
  BY InitTypeOK, NextTypeOK, PTL DEF Spec

-----------------------------------------------------------------------------
(* The inductive invariant: what a step does to one connection. *)

\* The facts about one open connection that the invariants give.
LEMMA OpenFacts ==
  ASSUME IInv, NEW b \in Open
  PROVE  /\ b \in Bev /\ b # NULL /\ session[b] \in SessionRecord
         /\ session[b].inactive \in Int /\ session[b].timeouts \in Int
         /\ session[b].inactive >= 0
         /\ session[b].myBev = b
         /\ readDue[b] \in 0 .. Interval /\ idle[b] \in Nat
         /\ writeDue[b] \in {Never} \cup 0 .. Interval
         /\ idle[b] <= session[b].inactive + Interval - readDue[b]
         /\ since[b] \in Nat /\ Ahead(b) \in Nat /\ Ahead(b) <= Interval
         /\ session[b].timeouts = Allowed(session[b].state)
         /\ session[b].inactive + Ahead(b) <= since[b] + readDue[b]
         /\ writeDue[b] # Never => session[b].inactive + Ahead(b) <= since[b] + writeDue[b]
<1>1. b \in Bev
  BY DEF Open
<1>2. session[b] \in SessionRecord
  BY <1>1 DEF IInv, TypeOK
<1>3. session[b].inactive \in Int /\ session[b].timeouts \in Int
  BY <1>2 DEF SessionRecord
<1>4. Ahead(b) \in Nat /\ Ahead(b) <= Interval
  BY IdleAssumption DEF Ahead
<1> QED
  BY <1>1, <1>2, <1>3, <1>4, SessionAssumption
  DEF IInv, TypeOK, Pairs, Accounted, Scheduled, NotOvercounted

\* The facts about one connection that NotOvercounted and Scheduled ask for.
InBounds(c) ==
  /\ session[c].timeouts = Allowed(session[c].state)
  /\ session[c].inactive + Ahead(c) <= since[c] + readDue[c]
  /\ writeDue[c] # Never => session[c].inactive + Ahead(c) <= since[c] + writeDue[c]

\* A connection whose count goes on and whose timers keep running, or start anew.
LEMMA LaterIsInBounds ==
  ASSUME IInv, NEW c \in Open, session'[c] = session[c], since'[c] = since[c],
         readDue'[c] \in {readDue[c], Interval},
         \/ writeDue'[c] = writeDue[c]
         \/ writeDue[c] = Never /\ writeDue'[c] = Interval
  PROVE  InBounds(c)'
<1>1. /\ session[c].timeouts = Allowed(session[c].state)
      /\ session[c].inactive + Ahead(c) <= since[c] + readDue[c]
      /\ writeDue[c] # Never => session[c].inactive + Ahead(c) <= since[c] + writeDue[c]
      /\ readDue[c] <= Interval /\ readDue[c] \in Int /\ since[c] \in Int
      /\ session[c].inactive \in Int /\ Ahead(c) \in Int
  BY OpenFacts
<1>2. Interval \in Nat
  BY IdleAssumption
<1>3. Ahead(c)' = Ahead(c) /\ (session[c].state)' = session[c].state
      /\ (session[c].inactive)' = session[c].inactive /\ (session[c].timeouts)' = session[c].timeouts
  BY DEF Ahead
<1>4. session[c].inactive + Ahead(c) <= since[c] + Interval
  BY <1>1, <1>2
<1> QED
  BY <1>1, <1>2, <1>3, <1>4 DEF InBounds, Allowed

\* A connection whose count has just started, as bound or waiting.
LEMMA FreshIsInBounds ==
  ASSUME TypeOK', NEW c \in Bev, session'[c].state # "Raw", session'[c].inactive = 0,
         session'[c].timeouts = Allowed(session'[c].state), since'[c] = 0
  PROVE  InBounds(c)'
<1>1. Ahead(c)' = 0
  BY DEF Ahead
<1>2. PICK r \in 0 .. Interval : readDue'[c] = r
  BY DEF TypeOK
<1>3. PICK w \in {Never} \cup 0 .. Interval : writeDue'[c] = w
  BY DEF TypeOK
<1>4. 0 + 0 <= 0 + r /\ (w # Never => 0 + 0 <= 0 + w)
  BY <1>2, <1>3
<1>5. Allowed(session[c].state)' = Allowed(session'[c].state)
  BY DEF Allowed
<1> QED
  BY <1>1, <1>2, <1>3, <1>4, <1>5 DEF InBounds

\* The peer of a bound connection.
LEMMA PeerFacts ==
  ASSUME IInv, NEW b \in Open, session[b].state = "Bind"
  PROVE  /\ session[b].peerBev \in Open \ {b}
         /\ session[session[b].peerBev].peerBev = b
         /\ session[session[b].peerBev].state = "Bind"
<1>1. /\ session[b].peerBev \in Open \ {b}
      /\ session[session[b].peerBev].peerBev = b
  BY DEF IInv, Pairs
<1>2. b # NULL
  BY OpenFacts
<1> QED
  BY <1>1, <1>2 DEF IInv, Pairs

\* A removal takes the pair, and those who stay keep their own peer.
LEMMA RemoveKeeps ==
  ASSUME IInv, TypeOK', NEW b \in Open, Remove(b)
  PROVE  IInv'
<1> DEFINE gone == {b, session[b].peerBev}
<1>1. Open' = Open \ gone
  BY NewFields DEF Open, Remove
<1>2. ASSUME NEW c \in Open \ gone
      PROVE  /\ session'[c] = session[c] /\ readDue'[c] = readDue[c]
             /\ writeDue'[c] = writeDue[c] /\ idle'[c] = idle[c]
             /\ since'[c] = since[c]
  BY DEF Remove, Restart, Open, IInv, TypeOK
<1>3. ASSUME NEW c \in Open \ gone, session[c].state = "Bind"
      PROVE  session[c].peerBev \in Open \ gone
  <2>1. /\ session[c].peerBev \in Open /\ session[session[c].peerBev].peerBev = c
    BY <1>3, PeerFacts
  <2>2. CASE session[c].peerBev = b
    BY <2>1, <2>2, <1>3
  <2>3. CASE session[c].peerBev = session[b].peerBev /\ session[c].peerBev # b
    <3>1. session[b].peerBev # NULL
      BY <2>1, <2>3, OpenFacts
    <3>2. session[session[b].peerBev].peerBev = b
      BY <3>1 DEF IInv, Pairs
    <3> QED
      BY <1>3, <2>1, <2>3, <3>2
  <2> QED
    BY <2>1, <2>2, <2>3
<1>4. Pairs'
  BY <1>1, <1>2, <1>3 DEF IInv, Pairs
<1>5. ASSUME NEW c \in Open' PROVE InBounds(c)'
  BY <1>1, <1>2, LaterIsInBounds
<1>7. Accounted'
  BY <1>1, <1>2 DEF IInv, Accounted
<1>6. NobodyOverdue'
  BY <1>1, <1>2, <1>3 DEF IInv, NobodyOverdue, Patient
<1> QED
  BY <1>4, <1>5, <1>6, <1>7 DEF IInv, InBounds, Scheduled, NotOvercounted

\* A new connection.
LEMMA AcceptKeeps ==
  ASSUME IInv, TypeOK', NEW b \in Bev, Accept(b)
  PROVE  IInv'
<1>1. /\ Interval \in Nat
      /\ session' = [session EXCEPT ![b] = NewSession(b)]
      /\ session \in [Bev -> SessionRecord]
      /\ readDue' = [readDue EXCEPT ![b] = Interval]
      /\ idle' = [idle EXCEPT ![b] = 0]
      /\ since' = [since EXCEPT ![b] = 0]
      /\ readDue \in [Bev -> 0 .. Interval] /\ idle \in [Bev -> Nat]
      /\ since \in [Bev -> Nat]
      /\ b \notin Open
  BY IdleAssumption DEF Accept, IInv, TypeOK
<1>2. /\ session'[b].state = "Raw" /\ session'[b].inactive = 0
      /\ session'[b].myBev = b /\ session'[b].myCard = NULL
      /\ session'[b].peerBev = NULL /\ session'[b].timeouts = LoginTimeout
      /\ readDue'[b] = Interval /\ idle'[b] = 0 /\ since'[b] = 0
  BY <1>1, NewFields
<1>3. Open' = Open \cup {b}
  BY <1>1, <1>2 DEF Open
<1>4. ASSUME NEW c \in Open
      PROVE  /\ session'[c] = session[c] /\ readDue'[c] = readDue[c]
             /\ idle'[c] = idle[c] /\ since'[c] = since[c] /\ c # b /\ c \in Bev
  BY <1>1 DEF Open
<1>5. PICK due \in {Never, Interval} : writeDue' = [writeDue EXCEPT ![b] = due]
  BY DEF Accept
<1>6. Pairs'
  BY <1>2, <1>3, <1>4 DEF IInv, Pairs
<1>7. Accounted'
  <2>1. 0 >= 0 /\ 0 <= 0 + Interval - Interval
    BY <1>1
  <2> QED
    BY <1>2, <1>3, <1>4, <2>1 DEF IInv, Accounted
<1>8. ASSUME NEW c \in Open' PROVE InBounds(c)'
  <2>1. CASE c = b
    <3>1. Ahead(b)' = Interval /\ Allowed(session[b].state)' = LoginTimeout
      BY <1>2 DEF Ahead, Allowed
    <3>2. writeDue'[b] = due
      BY <1>5 DEF IInv, TypeOK
    <3> QED
      BY <1>1, <1>2, <2>1, <3>1, <3>2 DEF InBounds
  <2>2. CASE c # b
    <3>1. writeDue'[c] = writeDue[c] /\ c \in Open
      BY <1>3, <1>4, <1>5, <2>2 DEF IInv, TypeOK, Open
    <3> QED
      BY <1>4, <3>1, LaterIsInBounds
  <2> QED
    BY <2>1, <2>2
<1>9. NobodyOverdue'
  <2>1. Patient(b)'
    BY <1>2 DEF Patient
  <2> QED
    BY <1>2, <1>3, <1>4, <2>1, PeerFacts DEF IInv, NobodyOverdue, Patient
<1> QED
  BY <1>6, <1>7, <1>8, <1>9 DEF IInv, InBounds, Scheduled, NotOvercounted

\* Data that binds nobody: dropped, relayed, or a login that finds no match.
\* se is the session of b afterwards.
LEMMA HearKeeps ==
  ASSUME IInv, TypeOK', NEW b \in Open, NEW se \in SessionRecord,
         se.state # "Die", se.myBev = b,
         se.peerBev = session[b].peerBev,
         se.state = "Bind" <=> session[b].state = "Bind",
         se.state # "Raw" => se.myCard # NULL,
         \/ /\ se.state # "Raw" /\ se.inactive = 0 /\ se.timeouts = Allowed(se.state)
            /\ Restart({b})
         \/ se = session[b] /\ since' = since,
         session' = [session EXCEPT ![b] = se],
         Hear(b, {b}),
         \A c \in Bev : \/ writeDue'[c] = writeDue[c]
                        \/ writeDue[c] = Never /\ writeDue'[c] = Interval
  PROVE  IInv'
<1>1. /\ Interval \in Nat
      /\ session \in [Bev -> SessionRecord]
      /\ readDue' = [readDue EXCEPT ![b] = Interval]
      /\ readDue \in [Bev -> 0 .. Interval] /\ idle \in [Bev -> Nat]
      /\ idle' = [c \in Bev |-> IF c = b THEN 0 ELSE idle[c]]
      /\ b \in Bev /\ since \in [Bev -> Nat]
      /\ \A c \in Bev \ {b} : since'[c] = since[c]
  BY IdleAssumption, OpenFacts DEF Hear, Restart, IInv, TypeOK
<1>2. /\ session'[b] = se /\ readDue'[b] = Interval /\ idle'[b] = 0
      /\ se.inactive \in Int /\ se.inactive >= 0
  BY <1>1, OpenFacts DEF SessionRecord
<1>3. ASSUME NEW c \in Open \ {b}
      PROVE  /\ session'[c] = session[c] /\ readDue'[c] = readDue[c]
             /\ idle'[c] = idle[c] /\ c \in Bev
  BY <1>1 DEF Open
<1>4. Open' = Open
  BY <1>1, <1>2, <1>3 DEF Open
<1>5. Pairs'
  <2>1. ASSUME NEW c \in Open
        PROVE  /\ session'[c].peerBev = session[c].peerBev
               /\ session'[c].myBev = c
               /\ session'[c].state = "Bind" <=> session[c].state = "Bind"
               /\ session'[c].state # "Raw" => session'[c].myCard # NULL
    BY <1>2, <1>3 DEF IInv, Pairs
  <2> QED
    BY <1>4, <2>1 DEF IInv, Pairs
<1>6. Accounted'
  <2>1. 0 <= se.inactive + Interval - Interval
    BY <1>1, <1>2
  <2> QED
    BY <1>2, <1>3, <1>4, <2>1 DEF IInv, Accounted
<1>7. ASSUME NEW c \in Open PROVE InBounds(c)'
  <2>1. CASE c = b /\ se.state # "Raw" /\ se.inactive = 0
             /\ se.timeouts = Allowed(se.state) /\ Restart({b})
    <3>1. since'[b] = 0
      BY <1>1, <2>1 DEF Restart
    <3> QED
      BY <1>1, <1>2, <2>1, <3>1, FreshIsInBounds
  <2>2. CASE c = b /\ se = session[b] /\ since' = since
    BY <1>1, <1>2, <2>2, LaterIsInBounds
  <2>3. CASE c # b
    BY <1>1, <1>3, <2>3, LaterIsInBounds
  <2> QED
    BY <2>1, <2>2, <2>3
<1>8. NobodyOverdue'
  <2>1. ASSUME NEW c \in Open, Patient(c) PROVE Patient(c)'
    BY <1>2, <1>3, <2>1 DEF Patient
  <2>2. ASSUME NEW c \in Open
        PROVE  /\ session'[c].state = "Bind" <=> session[c].state = "Bind"
               /\ session'[c].peerBev = session[c].peerBev
    BY <1>2, <1>3
  <2>3. ASSUME NEW c \in Open
        PROVE  \/ Patient(c)'
               \/ session[c].state = "Bind" /\ Patient(session[c].peerBev)'
    BY <2>1, PeerFacts DEF IInv, NobodyOverdue
  <2> QED
    BY <1>4, <2>2, <2>3 DEF NobodyOverdue, Patient
<1> QED
  BY <1>4, <1>5, <1>6, <1>7, <1>8 DEF IInv, InBounds, Scheduled, NotOvercounted

\* A login that binds two connections.
LEMMA BindKeeps ==
  ASSUME IInv, TypeOK', NEW b \in Open, NEW c \in Open \ {b}, NEW card \in Card,
         session[b].state = "Raw", session[c].state = "Login",
         session' = [session EXCEPT
           ![b] = MatchDone(LoggedIn(session[b], card), c, session[c].myCard),
           ![c] = MatchDone(session[c], b, card)],
         Hear(b, {b, c}), Restart({b, c}),
         \A d \in Bev : \/ writeDue'[d] = writeDue[d]
                        \/ writeDue[d] = Never /\ writeDue'[d] = Interval
  PROVE  IInv'
<1>1. /\ Interval \in Nat
      /\ session \in [Bev -> SessionRecord]
      /\ readDue' = [readDue EXCEPT ![b] = Interval]
      /\ readDue \in [Bev -> 0 .. Interval] /\ idle \in [Bev -> Nat]
      /\ idle' = [d \in Bev |-> IF d \in {b, c} THEN 0 ELSE idle[d]]
      /\ b \in Bev /\ c \in Bev /\ b # NULL /\ c # NULL
      /\ since' = [d \in Bev |-> IF d \in {b, c} THEN 0 ELSE since[d]]
  BY IdleAssumption, OpenFacts DEF Hear, Restart, IInv, TypeOK
<1>2. /\ LoggedIn(session[b], card) \in SessionRecord
      /\ session[b] \in SessionRecord /\ session[c] \in SessionRecord
  BY <1>1, SessionTypes
<1>3. /\ session'[b] = MatchDone(LoggedIn(session[b], card), c, session[c].myCard)
      /\ session'[c] = MatchDone(session[c], b, card)
  BY <1>1
<1>4. /\ session'[b].state = "Bind" /\ session'[b].peerBev = c
      /\ session'[b].myBev = b /\ session'[b].myCard = card
      /\ session'[b].inactive = 0 /\ session'[b].timeouts = ActiveTimeout
  BY <1>2, <1>3, LoggedInFields, MatchDoneFields, OpenFacts
<1>5. /\ session'[c].state = "Bind" /\ session'[c].peerBev = b
      /\ session'[c].myBev = c /\ session'[c].myCard = session[c].myCard
      /\ session'[c].inactive = 0 /\ session'[c].timeouts = ActiveTimeout
  BY <1>2, <1>3, MatchDoneFields, OpenFacts
<1>6. ASSUME NEW d \in Open \ {b, c}
      PROVE  /\ session'[d] = session[d] /\ readDue'[d] = readDue[d]
             /\ idle'[d] = idle[d] /\ d \in Bev
             /\ session[d].state = "Bind" => session[d].peerBev \in Open \ {b, c, d}
  <2>1. /\ session'[d] = session[d] /\ readDue'[d] = readDue[d]
        /\ idle'[d] = idle[d] /\ d \in Bev
    BY <1>1 DEF Open
  <2>2. session[d].state = "Bind" => session[d].peerBev \in Open \ {b, c, d}
    BY PeerFacts
  <2> QED
    BY <2>1, <2>2
<1>7. Open' = Open
  BY <1>1, <1>4, <1>5, <1>6 DEF Open
<1>8. /\ readDue'[b] = Interval /\ idle'[b] = 0 /\ idle'[c] = 0
      /\ readDue'[c] = readDue[c] /\ readDue[c] \in 0 .. Interval
  BY <1>1
<1>9. Pairs'
  <2>1. card # NULL /\ session[c].myCard # NULL
    BY SessionAssumption DEF IInv, Pairs
  <2>2. ASSUME NEW d \in Open
        PROVE  /\ session'[d].myBev = d
               /\ session'[d].state = "Bind" <=> session'[d].peerBev # NULL
               /\ session'[d].state # "Raw" => session'[d].myCard # NULL
               /\ session'[d].state = "Bind" =>
                    /\ session'[d].peerBev \in Open \ {d}
                    /\ session'[session'[d].peerBev].peerBev = d
    <3>1. CASE d = b
      BY <1>1, <1>4, <1>5, <2>1, <3>1
    <3>2. CASE d = c
      BY <1>1, <1>4, <1>5, <2>1, <3>2
    <3>3. CASE d \notin {b, c}
      <4>1. /\ session[d].myBev = d
            /\ session[d].state = "Bind" <=> session[d].peerBev # NULL
            /\ session[d].state # "Raw" => session[d].myCard # NULL
        BY DEF IInv, Pairs
      <4>2. session[d].state = "Bind" => session[session[d].peerBev].peerBev = d
        BY PeerFacts
      <4>3. session'[d] = session[d] /\ session[d].state = "Bind" =>
              session'[session[d].peerBev] = session[session[d].peerBev]
        BY <1>6, <3>3
      <4>4. /\ session'[d] = session[d]
            /\ session[d].state = "Bind" => session[d].peerBev \in Open \ {d}
        BY <1>6, <3>3
      <4> QED
        BY <4>1, <4>2, <4>3, <4>4
    <3> QED
      BY <3>1, <3>2, <3>3
  <2> QED
    BY <1>7, <2>2 DEF Pairs
<1>10. Accounted'
  <2>1. ASSUME NEW d \in {b, c}
        PROVE  session'[d].inactive >= 0
               /\ idle'[d] <= session'[d].inactive + Interval - readDue'[d]
    BY <1>1, <1>4, <1>5, <1>8
  <2> QED
    BY <1>6, <1>7, <2>1 DEF IInv, Accounted
<1>11. ASSUME NEW d \in Open PROVE InBounds(d)'
  <2>1. CASE d \in {b, c}
    <3>1. /\ session'[d].state = "Bind" /\ session'[d].inactive = 0
          /\ session'[d].timeouts = Allowed("Bind") /\ since'[d] = 0 /\ d \in Bev
      BY <1>1, <1>4, <1>5, <2>1 DEF Allowed
    <3> QED
      BY <3>1, FreshIsInBounds
  <2>2. CASE d \notin {b, c}
    <3>1. since'[d] = since[d]
      BY <1>1, <1>6, <2>2
    <3> QED
      BY <1>1, <1>6, <2>2, <3>1, LaterIsInBounds
  <2> QED
    BY <2>1, <2>2
<1>12. NobodyOverdue'
  <2>1. ASSUME NEW d \in {b, c}
        PROVE  session'[d].inactive < session'[d].timeouts \/ session'[d].inactive = 0
    BY <1>4, <1>5
  <2>2. ASSUME NEW d \in Open \ {b, c}
        PROVE  \/ Patient(d)'
               \/ session'[d].state = "Bind" /\ Patient(session[d].peerBev)'
    <3>1. session'[d] = session[d]
      BY <1>6
    <3>2. CASE Patient(d)
      BY <3>1, <3>2 DEF Patient
    <3>3. CASE session[d].state = "Bind" /\ Patient(session[d].peerBev)
      <4>1. session'[session[d].peerBev] = session[session[d].peerBev]
        BY <1>6, <3>3
      <4> QED
        BY <3>1, <3>3, <4>1 DEF Patient
    <3> QED
      BY <3>2, <3>3 DEF IInv, NobodyOverdue
  <2>3. ASSUME NEW d \in Open \ {b, c} PROVE session'[d].peerBev = session[d].peerBev
    BY <1>6
  <2> QED
    BY <1>7, <2>1, <2>2, <2>3 DEF NobodyOverdue, Patient
<1> QED
  BY <1>7, <1>9, <1>10, <1>11, <1>12 DEF IInv, InBounds, Scheduled, NotOvercounted

\* When a timer goes off no more has been counted than has passed.
LEMMA DueIsCounted ==
  ASSUME IInv, NEW b \in Open, Due(b)
  PROVE  session[b].inactive + Ahead(b) <= since[b]
<1>1. /\ session[b].inactive + Ahead(b) <= since[b] + readDue[b]
      /\ writeDue[b] # Never => session[b].inactive + Ahead(b) <= since[b] + writeDue[b]
      /\ session[b].inactive \in Int /\ since[b] \in Nat /\ Ahead(b) \in Nat
  BY OpenFacts
<1>2. readDue[b] = 0 \/ writeDue[b] = 0
  BY DEF Due
<1> QED BY <1>1, <1>2 DEF Never

\* A timer that goes off without closing the connection.
LEMMA TickKeeps ==
  ASSUME IInv, TypeOK', NEW b \in Open, Due(b),
         ~ (/\ Expired(Idled(session[b], Interval))
            /\ session[b].peerBev # NULL => Expired(session[session[b].peerBev])),
         session' = [session EXCEPT ![b] = Idled(session[b], Interval)],
         readDue' = [readDue EXCEPT ![b] = Interval],
         NEW due \in {Never, Interval}, writeDue' = [writeDue EXCEPT ![b] = due],
         UNCHANGED <<idle, since>>
  PROVE  IInv'
<1>1. /\ Interval \in Nat \ {0}
      /\ session \in [Bev -> SessionRecord]
      /\ readDue \in [Bev -> 0 .. Interval] /\ idle \in [Bev -> Nat]
      /\ writeDue \in [Bev -> {Never} \cup 0 .. Interval]
      /\ b \in Bev /\ session[b] \in SessionRecord
  BY IdleAssumption, OpenFacts DEF IInv, TypeOK
<1>2. /\ session'[b].inactive = session[b].inactive + Interval
      /\ session'[b].state = session[b].state
      /\ session'[b].timeouts = session[b].timeouts
      /\ session'[b].myBev = session[b].myBev
      /\ session'[b].myCard = session[b].myCard
      /\ session'[b].peerBev = session[b].peerBev
      /\ readDue'[b] = Interval /\ writeDue'[b] \in {Never, Interval}
  BY <1>1, IdledFields
<1>3. ASSUME NEW c \in Open \ {b}
      PROVE  /\ session'[c] = session[c] /\ readDue'[c] = readDue[c]
             /\ writeDue'[c] = writeDue[c] /\ c \in Bev
  BY <1>1 DEF Open
<1>4. Open' = Open
  BY <1>1, <1>2, <1>3 DEF Open
<1>5. Pairs'
  <2>1. ASSUME NEW c \in Open
        PROVE  /\ session'[c].peerBev = session[c].peerBev
               /\ session'[c].myBev = session[c].myBev
               /\ session'[c].state = session[c].state
               /\ session'[c].myCard = session[c].myCard
    BY <1>2, <1>3
  <2> QED
    BY <1>4, <2>1 DEF IInv, Pairs
<1>6. Accounted'
  <2>1. /\ session'[b].inactive >= 0
        /\ idle[b] <= session'[b].inactive + Interval - Interval
    BY <1>1, <1>2, OpenFacts
  <2> QED
    BY <1>2, <1>3, <1>4, <2>1 DEF IInv, Accounted
<1>7. ASSUME NEW c \in Open PROVE InBounds(c)'
  <2>1. CASE c = b
    <3>1. session[b].inactive + Ahead(b) <= since[b]
      BY DueIsCounted
    <3>2. Ahead(b)' = Ahead(b) /\ Allowed(session[b].state)' = Allowed(session[b].state)
      BY <1>2 DEF Ahead, Allowed
    <3>3. PICK w \in {Never, Interval} : writeDue'[b] = w
      BY <1>1
    <3>4. /\ session[b].inactive \in Int /\ since[b] \in Nat /\ Ahead(b) \in Nat
          /\ session[b].timeouts = Allowed(session[b].state)
      BY OpenFacts
    <3>5. session[b].inactive + Interval + Ahead(b) <= since[b] + Interval
      BY <1>1, <3>1, <3>4
    <3> QED
      BY <1>1, <1>2, <2>1, <3>2, <3>3, <3>4, <3>5 DEF InBounds
  <2>2. CASE c # b
    BY <1>3, <2>2, LaterIsInBounds
  <2> QED
    BY <2>1, <2>2
<1>8. NobodyOverdue'
  <2>1. ASSUME NEW c \in Open \ {b}, Patient(c) PROVE Patient(c)'
    BY <1>3, <2>1 DEF Patient
  <2>2. ASSUME NEW c \in Open
        PROVE  /\ session'[c].state = session[c].state
               /\ session'[c].peerBev = session[c].peerBev
    BY <1>2, <1>3
  <2>3. \/ Patient(b)'
        \/ session[b].state = "Bind" /\ Patient(session[b].peerBev)'
    <3>1. CASE ~Expired(Idled(session[b], Interval))
      <4>1. ~ (session'[b].inactive >= session'[b].timeouts)
        BY <1>1, <3>1 DEF Expired
      <4>2. session'[b].inactive < session'[b].timeouts
        <5>1. session'[b].inactive \in Int /\ session'[b].timeouts \in Int
          BY <1>1, <1>2, OpenFacts
        <5> QED
          BY <4>1, <5>1
      <4> QED
        BY <4>2 DEF Patient
    <3>2. CASE session[b].peerBev # NULL /\ ~Expired(session[session[b].peerBev])
      <4>1. session[b].state = "Bind" /\ session[b].peerBev \in Open \ {b}
        BY <3>2 DEF IInv, Pairs
      <4>2. session[session[b].peerBev].inactive < session[session[b].peerBev].timeouts
        BY <3>2, <4>1, OpenFacts DEF Expired
      <4>3. Patient(session[b].peerBev)
        BY <4>2 DEF Patient
      <4>4. session'[b].peerBev = session[b].peerBev
        BY <2>2
      <4> QED
        BY <1>3, <4>1, <4>3, <4>4 DEF Patient
    <3> QED
      BY <3>1, <3>2
  <2>4. ASSUME NEW c \in Open \ {b}
        PROVE  \/ Patient(c)'
               \/ session[c].state = "Bind" /\ Patient(session[c].peerBev)'
    <3>1. CASE session[c].state = "Bind" /\ session[c].peerBev = b
      <4>1. session[b].peerBev = c
        BY <3>1, PeerFacts
      <4>2. session'[b].peerBev = c /\ session'[c].peerBev = b
        BY <2>2, <3>1, <4>1
      <4> QED
        BY <2>3, <3>1, <4>1, <4>2 DEF Patient
    <3>2. CASE ~ (session[c].state = "Bind" /\ session[c].peerBev = b)
      <4>1. session'[c].peerBev = session[c].peerBev
        BY <2>2
      <4>2. session[c].state = "Bind" => session[c].peerBev \in Open \ {b}
        BY <3>2, PeerFacts
      <4> QED
        BY <1>3, <4>1, <4>2 DEF IInv, NobodyOverdue, Patient
    <3> QED
      BY <3>1, <3>2
  <2> QED
    BY <1>4, <2>2, <2>3, <2>4 DEF NobodyOverdue, Patient
<1> QED
  BY <1>4, <1>5, <1>6, <1>7, <1>8 DEF IInv, InBounds, Scheduled, NotOvercounted

\* The socket takes some of what was pending.
LEMMA ProgressKeeps ==
  ASSUME IInv, TypeOK', NEW b \in Open, WriteProgress(b)
  PROVE  IInv'
<1>1. /\ UNCHANGED <<session, readDue, idle, since>> /\ Open' = Open
      /\ \A c \in Bev : writeDue'[c] \in {Never, Interval, writeDue[c]}
      /\ writeDue[b] # Never /\ \A c \in Bev \ {b} : writeDue'[c] = writeDue[c]
  BY DEF WriteProgress, Open, IInv, TypeOK
<1>2. ASSUME NEW c \in Open PROVE InBounds(c)'
  <2>1. /\ session[c].timeouts = Allowed(session[c].state)
        /\ session[c].inactive + Ahead(c) <= since[c] + readDue[c]
        /\ writeDue[c] # Never => session[c].inactive + Ahead(c) <= since[c] + writeDue[c]
        /\ readDue[c] \in 0 .. Interval /\ since[c] \in Nat /\ c \in Bev
        /\ session[c].inactive \in Int /\ Ahead(c) \in Nat
    BY OpenFacts
  <2>2. Interval \in Nat
    BY IdleAssumption
  <2>3. session[c].inactive + Ahead(c) <= since[c] + Interval
    BY <2>1, <2>2
  <2>4. Ahead(c)' = Ahead(c) /\ Allowed(session[c].state)' = Allowed(session[c].state)
    BY <1>1 DEF Ahead, Allowed
  <2>5. PICK w \in {Never, Interval, writeDue[c]} : writeDue'[c] = w
    BY <1>1, <2>1
  <2> QED
    BY <1>1, <2>1, <2>3, <2>4, <2>5 DEF InBounds
<1> QED
  BY <1>1, <1>2
  DEF IInv, Pairs, Accounted, NobodyOverdue, Patient, InBounds, Scheduled, NotOvercounted

\* Time passes.
LEMMA PassKeeps ==
  ASSUME IInv, TypeOK', Pass
  PROVE  IInv'
<1>1. session' = session /\ Open' = Open
  BY DEF Pass, Open
<1>2. ASSUME NEW c \in Open
      PROVE  /\ readDue'[c] = readDue[c] - 1 /\ idle'[c] = idle[c] + 1
             /\ writeDue'[c] = IF writeDue[c] # Never THEN writeDue[c] - 1
                                                      ELSE writeDue[c]
             /\ readDue[c] \in Int /\ idle[c] \in Int
             /\ since'[c] = since[c] + 1 /\ since[c] \in Int
             /\ session[c].inactive \in Int
             /\ writeDue[c] # Never => writeDue[c] \in Int
  <2>1. /\ readDue'[c] = readDue[c] - 1 /\ idle'[c] = idle[c] + 1
        /\ since'[c] = since[c] + 1
        /\ writeDue'[c] = IF writeDue[c] # Never THEN writeDue[c] - 1
                                                 ELSE writeDue[c]
    BY OpenFacts DEF Pass
  <2>2. /\ readDue[c] \in 0 .. Interval /\ idle[c] \in Nat /\ since[c] \in Nat
        /\ writeDue[c] \in {Never} \cup 0 .. Interval
        /\ session[c].inactive \in Int
    BY OpenFacts
  <2> QED
    BY <2>1, <2>2
<1>3. Accounted'
  <2>1. ASSUME NEW c \in Open
        PROVE  idle[c] + 1 <= session[c].inactive + Interval - (readDue[c] - 1)
    <3>1. Interval \in Nat
      BY IdleAssumption
    <3> QED
      BY <1>2, <3>1 DEF IInv, Accounted
  <2> QED
    BY <1>1, <1>2, <2>1 DEF IInv, Accounted
<1>4. ASSUME NEW c \in Open PROVE InBounds(c)'
  <2>1. /\ session[c].timeouts = Allowed(session[c].state)
        /\ session[c].inactive + Ahead(c) <= since[c] + readDue[c]
        /\ writeDue[c] # Never => session[c].inactive + Ahead(c) <= since[c] + writeDue[c]
        /\ Ahead(c) \in Nat
    BY OpenFacts
  <2>2. Ahead(c)' = Ahead(c) /\ Allowed(session[c].state)' = Allowed(session[c].state)
    BY <1>1 DEF Ahead, Allowed
  <2>3. /\ session[c].inactive + Ahead(c) <= (since[c] + 1) + (readDue[c] - 1)
        /\ writeDue[c] # Never =>
             session[c].inactive + Ahead(c) <= (since[c] + 1) + (writeDue[c] - 1)
    BY <1>2, <2>1
  <2> QED
    BY <1>1, <1>2, <2>1, <2>2, <2>3 DEF InBounds
<1> QED
  BY <1>1, <1>3, <1>4
  DEF IInv, Pairs, NobodyOverdue, Patient, InBounds, Scheduled, NotOvercounted

-----------------------------------------------------------------------------
(* The inductive invariant and what follows from it. *)

\* The inductive invariant holds initially: nothing is open.
LEMMA InitIInv == Init => IInv
<1> SUFFICES ASSUME Init PROVE IInv
  OBVIOUS
<1>1. Open = {}
  BY NewFields DEF Init, Open
<1> QED
  BY <1>1, InitTypeOK DEF IInv, Pairs, Scheduled, Accounted, NotOvercounted, NobodyOverdue

\* Every step keeps the inductive invariant.
LEMMA NextIInv == IInv /\ [Next]_vars => IInv'
<1> SUFFICES ASSUME IInv, [Next]_vars PROVE IInv'
  OBVIOUS
<1>1. TypeOK /\ TypeOK'
  BY NextTypeOK DEF IInv
<1>2. ASSUME NEW b \in Bev, session[b].state # "Die"
      PROVE  b \in Open /\ session[b] \in SessionRecord /\ session[b].myBev = b
  <2>1. b \in Open
    BY <1>2 DEF Open
  <2> QED
    BY <2>1, OpenFacts
<1>3. ASSUME NEW b \in Bev, Accept(b) PROVE IInv'
  BY <1>1, <1>3, AcceptKeeps
<1>4. ASSUME NEW b \in Bev, NEW card \in Card, Login(b, card) PROVE IInv'
  <2> DEFINE in == LoggedIn(session[b], card)
  <2>1. b \in Open /\ session[b].state = "Raw"
    BY <1>2, <1>4 DEF Login
  <2>2. /\ in \in SessionRecord /\ in.state = "Login" /\ in.myCard = card
        /\ in.inactive = 0 /\ in.myBev = b /\ in.peerBev = session[b].peerBev
        /\ in.timeouts = MatchTimeout
    BY <1>1, <1>2, <2>1, LoginTypes, LoggedInFields
  <2>3. ASSUME session' = [session EXCEPT ![b] = in], Hear(b, {b}), Restart({b}),
               UNCHANGED writeDue
        PROVE  IInv'
    <3> HIDE DEF in
    <3>1. /\ in.state # "Die" /\ in.myBev = b /\ in.peerBev = session[b].peerBev
          /\ in.state = "Bind" <=> session[b].state = "Bind"
          /\ in.state # "Raw" => in.myCard # NULL
          /\ in.state # "Raw" /\ in.inactive = 0 /\ in.timeouts = Allowed(in.state)
      BY <2>1, <2>2, SessionAssumption DEF Allowed
    <3> QED
      BY <1>1, <2>1, <2>2, <2>3, <3>1, HearKeeps, Zenon
  <2>4. ASSUME NEW c \in Bev \ {b}, CanMatch(in, session[c]),
               session' = [session EXCEPT
                 ![b] = MatchDone(in, c, session[c].myCard),
                 ![c] = MatchDone(session[c], b, card)],
               Hear(b, {b, c}), Restart({b, c}), Write({b, c})
        PROVE  IInv'
    <3>1. session[c].state = "Login" /\ c \in Open
      BY <1>2, <2>4 DEF CanMatch
    <3>2. \A d \in Bev : \/ writeDue'[d] = writeDue[d]
                         \/ writeDue[d] = Never /\ writeDue'[d] = Interval
      BY <1>1, <2>4, WriteEffect
    <3> QED
      BY <1>1, <2>1, <2>4, <3>1, <3>2, BindKeeps
  <2> QED
    BY <1>4, <2>3, <2>4 DEF Login
<1>5. ASSUME NEW b \in Bev, Discard(b) PROVE IInv'
  <2>1. /\ b \in Open /\ session[b] \in SessionRecord /\ session[b].myBev = b
        /\ session[b].state \in {"Raw", "Login"} /\ Hear(b, {b})
        /\ UNCHANGED <<session, writeDue, since>>
    BY <1>2, <1>5 DEF Discard
  <2>2. /\ session[b].state # "Raw" => session[b].myCard # NULL
        /\ session' = [session EXCEPT ![b] = session[b]]
    BY <1>1, <2>1 DEF IInv, Pairs, Accounted, TypeOK
  <2> QED
    BY <1>1, <2>1, <2>2, HearKeeps
<1>6. ASSUME NEW b \in Bev, Business(b) PROVE IInv'
  <2>1. /\ b \in Open /\ session[b] \in SessionRecord /\ session[b].myBev = b
        /\ session[b].state = "Bind" /\ Hear(b, {b}) /\ Restart({b})
        /\ session' = [session EXCEPT ![b] = Touched(session[b])]
        /\ Write({session[b].peerBev})
    BY <1>2, <1>6 DEF Business
  <2>2. Touched(session[b]) \in SessionRecord
    BY <2>1, SessionTypes
  <2>3. session[b].peerBev \in Bev
    BY <2>1, PeerFacts DEF Open
  <2>4. \A c \in Bev : \/ writeDue'[c] = writeDue[c]
                       \/ writeDue[c] = Never /\ writeDue'[c] = Interval
    BY <1>1, <2>1, <2>3, WriteEffect
  <2>5. session[b].myCard # NULL /\ session[b].timeouts = Allowed("Bind")
    BY <2>1 DEF IInv, Pairs, Scheduled
  <2>6. /\ Touched(session[b]).state = "Bind" /\ Touched(session[b]).inactive = 0
        /\ Touched(session[b]).timeouts = Allowed(Touched(session[b]).state)
        /\ Touched(session[b]).myBev = b
        /\ Touched(session[b]).myCard # NULL
        /\ Touched(session[b]).peerBev = session[b].peerBev
    BY <2>1, <2>5, IdledFields
  <2>7. /\ Touched(session[b]).state # "Die"
        /\ Touched(session[b]).state = "Bind" <=> session[b].state = "Bind"
        /\ Touched(session[b]).state # "Raw"
    BY <2>1, <2>6
  <2> QED
    BY <1>1, <2>1, <2>2, <2>4, <2>6, <2>7, HearKeeps, Zenon
<1>7. ASSUME NEW b \in Bev, WriteProgress(b) PROVE IInv'
  BY <1>1, <1>7, ProgressKeeps DEF WriteProgress
<1>8. ASSUME NEW b \in Bev, Hangup(b) PROVE IInv'
  BY <1>1, <1>8, RemoveKeeps DEF Hangup
<1>9. ASSUME NEW b \in Bev, Timeout(b) PROVE IInv'
  <2>1. b \in Open /\ Due(b)
    BY <1>9 DEF Timeout, Overdue, Due
  <2>2. CASE Remove(b)
    BY <1>1, <2>1, <2>2, RemoveKeeps
  <2>3. CASE ~Remove(b)
    BY <1>1, <1>9, <2>1, <2>3, TickKeeps DEF Timeout, Overdue
  <2> QED
    BY <2>2, <2>3
<1>10. CASE Pass
  BY <1>1, <1>10, PassKeeps
<1>11. CASE UNCHANGED vars
  BY <1>11 DEF vars, IInv, TypeOK, Pairs, Scheduled, Allowed, Accounted, NotOvercounted,
               Ahead, NobodyOverdue, Patient, Open
<1> QED
  BY <1>3, <1>4, <1>5, <1>6, <1>7, <1>8, <1>9, <1>10, <1>11 DEF Next

\* The idle counts of the sessions and the timers add up to the idle time.
THEOREM Invariance == Spec => []IInv
  BY InitIInv, NextIInv, PTL DEF Spec

\* No connection without a peer stays idle for its timeout and one interval
\* more, and no pair does with both ends idle.
THEOREM EveryoneReapedInTime == Spec => []ReapedInTime
<1>1. IInv => ReapedInTime
  <2> SUFFICES ASSUME IInv PROVE ReapedInTime
    OBVIOUS
  <2>1. ASSUME NEW b \in Open, Patient(b) PROVE InTime(b)
    <3>1. /\ session[b].inactive \in Int /\ session[b].timeouts \in Int
          /\ readDue[b] \in 0 .. Interval /\ idle[b] \in Nat
          /\ idle[b] <= session[b].inactive + Interval - readDue[b]
      BY OpenFacts
    <3>2. Interval \in Nat
      BY IdleAssumption
    <3>3. idle[b] <= session[b].inactive + Interval
      BY <3>1, <3>2
    <3> QED
      BY <2>1, <3>1, <3>2, <3>3 DEF Patient, InTime
  <2> QED
    BY <2>1, PeerFacts DEF IInv, NobodyOverdue, ReapedInTime
<1> QED
  BY <1>1, Invariance, PTL

\* A timer removes a connection when m_inactive has reached m_timeouts, on both
\* ends of a pair.
LEMMA TimeoutCause ==
  ASSUME IInv, NEW b \in Open, Timeout(b), b \notin Open'
  PROVE  /\ session[b].inactive + Interval >= Allowed(session[b].state)
         /\ session[b].state = "Bind" =>
              session[session[b].peerBev].inactive >= ActiveTimeout
<1>1. /\ session \in [Bev -> SessionRecord] /\ b \in Bev /\ session[b] \in SessionRecord
      /\ session[b].state # "Die"
  BY OpenFacts DEF IInv, TypeOK, Open
<1>2. /\ Expired(Idled(session[b], Interval))
      /\ session[b].peerBev # NULL => Expired(session[session[b].peerBev])
  <2>1. CASE session' = [session EXCEPT ![b] = Idled(session[b], Interval)]
    <3>1. session'[b].state = session[b].state
      BY <1>1, <2>1, IdledFields
    <3> QED
      BY <1>1, <3>1 DEF Open
  <2> QED
    BY <2>1 DEF Timeout, Overdue
<1>3. session[b].timeouts = Allowed(session[b].state)
  BY OpenFacts
<1>4. session[b].inactive + Interval >= Allowed(session[b].state)
  BY <1>1, <1>2, <1>3, IdledFields DEF Expired
<1>5. ASSUME session[b].state = "Bind"
      PROVE  session[session[b].peerBev].inactive >= ActiveTimeout
  <2> DEFINE p == session[b].peerBev
  <2>1. p \in Open /\ session[p].state = "Bind" /\ p # NULL
    BY <1>5, PeerFacts, OpenFacts
  <2>2. session[p].timeouts = ActiveTimeout
    BY <2>1, OpenFacts DEF Allowed
  <2> QED
    BY <1>2, <2>1, <2>2 DEF Expired
<1> QED
  BY <1>4, <1>5

\* Nobody is cut off by a timer before his time: a raw connection has had all of
\* the login timeout, and the others lack one interval at most.
THEOREM NobodyCutOffEarly == Spec => NoEarlyClose
<1>1. ASSUME IInv, NEW b \in Open, Timeout(b), b \notin Open'
      PROVE  /\ session[b].state = "Raw" => since[b] >= LoginTimeout
             /\ session[b].state = "Login" => since[b] >= MatchTimeout - Interval
             /\ session[b].state = "Bind" =>
                  \A end \in {b, session[b].peerBev} : since[end] >= ActiveTimeout - Interval
  <2>1. /\ Interval \in Nat
        /\ LoginTimeout \in Int /\ MatchTimeout \in Int /\ ActiveTimeout \in Int
        /\ session[b].inactive \in Int /\ since[b] \in Nat /\ Ahead(b) \in Nat
    BY <1>1, IdleAssumption, SessionAssumption, OpenFacts
  <2>2. session[b].inactive + Ahead(b) <= since[b]
    BY <1>1, DueIsCounted DEF Timeout, Overdue
  <2>3. session[b].inactive + Interval >= Allowed(session[b].state)
    BY <1>1, TimeoutCause
  <2>4. ASSUME session[b].state = "Raw" PROVE since[b] >= LoginTimeout
    BY <2>1, <2>2, <2>3, <2>4 DEF Ahead, Allowed
  <2>5. ASSUME session[b].state = "Login" PROVE since[b] >= MatchTimeout - Interval
    BY <2>1, <2>2, <2>3, <2>5 DEF Allowed
  <2>6. ASSUME session[b].state = "Bind"
        PROVE  \A end \in {b, session[b].peerBev} : since[end] >= ActiveTimeout - Interval
    <3> DEFINE p == session[b].peerBev
    <3>1. since[b] >= ActiveTimeout - Interval
      BY <2>1, <2>2, <2>3, <2>6 DEF Allowed
    <3>2. since[p] >= ActiveTimeout - Interval
      <4>1. p \in Open /\ session[p].inactive >= ActiveTimeout
        BY <1>1, <2>6, PeerFacts, TimeoutCause
      <4>2. /\ session[p].inactive + Ahead(p) <= since[p] + readDue[p]
            /\ readDue[p] \in 0 .. Interval /\ since[p] \in Nat /\ Ahead(p) \in Nat
            /\ session[p].inactive \in Int
        BY <1>1, <4>1, OpenFacts
      <4> QED
        BY <2>1, <4>1, <4>2
    <3> QED
      BY <3>1, <3>2
  <2> QED
    BY <2>4, <2>5, <2>6
<1>2. IInv =>
        \A b \in Open :
          Timeout(b) /\ b \notin Open' =>
            /\ session[b].state = "Raw" => since[b] >= LoginTimeout
            /\ session[b].state = "Login" => since[b] >= MatchTimeout - Interval
            /\ session[b].state = "Bind" =>
                 \A end \in {b, session[b].peerBev} : since[end] >= ActiveTimeout - Interval
  BY <1>1
<1> QED
  BY <1>2, Invariance, PTL DEF Spec, NoEarlyClose
=============================================================================
