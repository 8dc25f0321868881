------------------------ MODULE TcpServer_refinement ------------------------
(***************************************************************************)
(* Proof that the relay server implements the rendezvous service, for      *)
(* every value of the constants.  Each lemma takes one kind of server step *)
(* to the step of the service it amounts to; the rest are stuttering       *)
(* steps.                                                                  *)
(***************************************************************************)
EXTENDS TcpServer_proofs

-----------------------------------------------------------------------------
(* The refinement mapping, read off the sessions. *)

\* The status of a guest is the state of his session.
LEMMA StatusOf ==
  ASSUME IInv, NEW s \in Sid
  PROVE  /\ s \in LiveSid =>
              /\ session[s].state = "Raw" => GuestStatus(s) = "anonymous"
              /\ session[s].state = "Login" => GuestStatus(s) = "waiting"
              /\ session[s].state = "Bind" => GuestStatus(s) = "coupled"
              /\ session[s].state \in {"Raw", "Login", "Bind"}
         /\ s \notin LiveSid =>
              GuestStatus(s) = IF s < sidCount THEN "left" ELSE "absent"
<1>1. sidCount \in Int /\ s \in Int
  BY ContainerAssumption DEF IInv, TypeOK, Sid
<1>2. session[s].state \in SessionState
  BY DEF IInv, TypeOK, SessionRecord
<1>3. CASE s \in LiveSid
  BY <1>1, <1>2, <1>3 DEF GuestStatus, StatusName, LiveSid, SessionState
<1>4. CASE s \notin LiveSid
  <2>1. session[s].state = "Die"
    BY <1>4 DEF IInv, CleanSlate, Destroyed
  <2> QED
    BY <1>1, <1>4, <2>1 DEF GuestStatus, StatusName
<1> QED
  BY <1>3, <1>4

\* A session that is not live has no card, no mate, and has heard nobody.
LEMMA DeadHoldNothing ==
  ASSUME IInv, NEW s \in Sid, s \notin LiveSid
  PROVE  session[s].myCard = NULL /\ getPeer(s) = NULL /\ HasHeard(s) = {}
  BY DEF IInv, CleanSlate, Destroyed, getPeer, HasHeard

\* The mate of a session is a session, and NULL exactly if it is not bound.
LEMMA MateOf ==
  ASSUME IInv, NEW s \in LiveSid
  PROVE  /\ session[s].state = "Bind" => getPeer(s) \in LiveSid \ {s}
                                         /\ getPeer(getPeer(s)) = s
         /\ session[s].state # "Bind" => getPeer(s) = NULL
<1>1. CASE session[s].state = "Bind"
  <2>1. session[s].peerBev # NULL
    BY <1>1 DEF IInv, PairsAreMutual
  <2>2. /\ getPeer(s) \in LiveSid \ {s}
        /\ session[getPeer(s)].peerBev = session[s].myBev
    BY <2>1, PeerIsLive
  <2>3. session[s].myBev # NULL /\ bsMap[session[s].myBev] = s
    BY SessionAssumption DEF IInv, HeapConsistent, LiveBev
  <2> QED
    BY <1>1, <2>2, <2>3 DEF getPeer
<1>2. CASE session[s].state # "Bind"
  BY <1>2 DEF IInv, PairsAreMutual, getPeer
<1> QED
  BY <1>1, <1>2

\* Who has been heard depends only on the output buffer of a live session.
LEMMA HeardKept ==
  ASSUME NEW s \in Sid, s \in LiveSid, s \in LiveSid',
         output'[session'[s].myBev] = output[session[s].myBev]
  PROVE  HasHeard(s)' = HasHeard(s)
  BY DEF HasHeard

\* The server starts where the service starts.
LEMMA RefinesInit == Init => Service!Init
<1> SUFFICES ASSUME Init PROVE Service!Init
  OBVIOUS
<1>1. IInv /\ LiveSid = {}
  BY InitIInv DEF Init, InitContainer, LiveSid, Destroyed
<1>2. ASSUME NEW s \in Sid
      PROVE  /\ GuestStatus(s) = "absent" /\ session[s].myCard = NULL
             /\ getPeer(s) = NULL /\ HasHeard(s) = {}
  <2>1. ~ (s < sidCount)
    BY ContainerAssumption DEF Init, InitContainer, Sid
  <2> QED
    BY <1>1, <2>1, StatusOf, DeadHoldNothing
<1> QED
  BY <1>2 DEF Service!Init

-----------------------------------------------------------------------------
(* Steps that the service does not see. *)

\* A step that changes no state, card, mate or output is a stuttering step.
LEMMA RefinesStutter ==
  ASSUME IInv, IInv', LiveSid' = LiveSid, sidCount' = sidCount,
         \A u \in Sid : /\ session'[u].state = session[u].state
                        /\ session'[u].myCard = session[u].myCard
                        /\ session'[u].myBev = session[u].myBev
                        /\ getPeer(u)' = getPeer(u),
         UNCHANGED output
  PROVE  UNCHANGED Service!guestVars
<1>1. ASSUME NEW u \in Sid
      PROVE  /\ GuestStatus(u)' = GuestStatus(u)
             /\ HasHeard(u)' = HasHeard(u)
  BY DEF GuestStatus, HasHeard
<1> QED
  BY <1>1 DEF Service!guestVars

\* A new connection is a guest who arrives.
LEMMA RefinesArrive ==
  ASSUME IInv, IInv', NEW b \in Bev, NEW fd \in Fd, listener_cb(b, fd)
  PROVE  Service!Next
<1>0. PICK new \in Sid : new = sidCount
  BY ArrivalEffect
<1>1. /\ new \notin LiveSid
      /\ LiveSid' = LiveSid \cup {new}
      /\ session'[new] = NewSession(b)
      /\ \A u \in Sid \ {new} : session'[u] = session[u]
      /\ output'[b] = <<Host>>
      /\ sidCount' = sidCount + 1
  BY <1>0, ArrivalEffect DEF listener_cb
<1>2. NewSession(b).state = "Raw" /\ NewSession(b).myBev = b
      /\ NewSession(b).myCard = NULL /\ NewSession(b).peerBev = NULL
  BY DEF NewSession
<1>3. /\ GuestStatus(new) = "absent" /\ GuestStatus(new)' = "anonymous"
      /\ session'[new].myCard = session[new].myCard
      /\ getPeer(new)' = getPeer(new)
      /\ HasHeard(new)' = HasHeard(new)
  <2>1. GuestStatus(new) = "absent"
    <3>1. ~ (new < sidCount)
      BY <1>0, <1>1, ContainerAssumption DEF Sid
    <3> QED
      BY <1>1, <3>1, StatusOf
  <2>2. GuestStatus(new)' = "anonymous"
    <3>1. new < sidCount'
      BY <1>0, <1>1, ContainerAssumption DEF Sid
    <3> QED
      BY <1>1, <1>2, <3>1 DEF GuestStatus, StatusName
  <2>3. getPeer(new)' = NULL
    BY <1>1, <1>2 DEF getPeer
  <2>4. HasHeard(new)' = {}
    <3> DEFINE out == output'[session'[new].myBev]
    <3>1. out = <<Host>>
      BY <1>1, <1>2
    <3>2. HasHeard(new)' = {out[i].from : i \in 1 .. Len(out)} \ {NULL}
      BY <1>1 DEF HasHeard
    <3>3. \A i \in 1 .. Len(<<Host>>) : <<Host>>[i].from = NULL
      BY DEF Host
    <3> QED
      BY <3>1, <3>2, <3>3
  <2> QED
    BY <1>1, <1>2, <2>1, <2>2, <2>3, <2>4, DeadHoldNothing
<1>4. ASSUME NEW u \in Sid, u # new
      PROVE  /\ GuestStatus(u)' = GuestStatus(u)
             /\ session'[u].myCard = session[u].myCard
             /\ getPeer(u)' = getPeer(u)
             /\ HasHeard(u)' = HasHeard(u)
  <2>1. session'[u] = session[u]
    BY <1>1, <1>4
  <2>2. GuestStatus(u)' = GuestStatus(u)
    <3>1. u < sidCount' <=> u < sidCount
      BY <1>0, <1>1, <1>4, ContainerAssumption DEF Sid
    <3> QED
      BY <2>1, <3>1 DEF GuestStatus
  <2>3. CASE u \in LiveSid
    BY <1>1, <2>1, <2>2, <2>3, ResidentsKeep, HeardKept
  <2>4. CASE u \notin LiveSid
    <3>1. u \notin LiveSid'
      BY <1>1, <1>4, <2>4
    <3>2. getPeer(u)' = NULL /\ HasHeard(u)' = {}
      BY <2>1, <2>4, <3>1, DeadHoldNothing DEF IInv, CleanSlate, Destroyed,
         getPeer, HasHeard
    <3> QED
      BY <2>1, <2>2, <2>4, <3>2, DeadHoldNothing
  <2> QED
    BY <2>3, <2>4
<1>5. Service!Arrive(new)
  <2>1. [u \in Sid |-> GuestStatus(u)]'
          = [[u \in Sid |-> GuestStatus(u)] EXCEPT ![new] = "anonymous"]
    BY <1>1, <1>3, <1>4
  <2>2. UNCHANGED <<[u \in Sid |-> session[u].myCard],
                    [u \in Sid |-> getPeer(u)],
                    [u \in Sid |-> HasHeard(u)]>>
    BY <1>1, <1>3, <1>4
  <2> QED
    BY <1>1, <1>3, <2>1, <2>2 DEF Service!Arrive
<1> QED
  BY <1>1, <1>5 DEF Service!Next

-----------------------------------------------------------------------------
(* Logins. *)

\* A card of the server is a card of the service, and the sessions that match
\* finds for a card are the guests that the service would couple its holder
\* with.
LEMMA MatchingIsWanted ==
  ASSUME IInv, NEW s \in LiveSid, NEW card \in Card, session[s].state = "Raw"
  PROVE  /\ card \in Service!GuestCard
         /\ Matching(AfterLogin(s, card), s) = Service!Wanted(card)
<1>1. card \in Service!GuestCard
  BY DEF Card, Device, Client, Service!GuestCard, Service!Type
<1>2. s \in Sid /\ session \in [Sid -> SessionRecord] /\ card \in Card \cup {NULL}
  BY DEF LiveSid, IInv, TypeOK
<1>3. /\ AfterLogin(s, card)[s].state = "Login"
      /\ AfterLogin(s, card)[s].myCard = card
      /\ \A t \in Sid \ {s} : AfterLogin(s, card)[t] = session[t]
  BY <1>2, LoginFields DEF AfterLogin
<1>4. card.type \in {Device, Client} /\ Device # Client
  BY DEF Card, Device, Client
<1>5. ASSUME NEW t \in Sid
      PROVE  t \in Matching(AfterLogin(s, card), s)
               <=> /\ GuestStatus(t) = "waiting"
                   /\ card.id = session[t].myCard.id
                   /\ card.type # session[t].myCard.type
  <2>1. (\E b \in Bev : bsMap[b] = t) <=> t \in LiveSid
    <3>1. ASSUME NEW b \in Bev, bsMap[b] = t PROVE t \in LiveSid
      BY <3>1, ContainerAssumption DEF IInv, HeapConsistent, LiveBev
    <3>2. ASSUME t \in LiveSid PROVE \E b \in Bev : bsMap[b] = t
      BY <3>2 DEF IInv, HeapConsistent, LiveBev
    <3> QED
      BY <3>1, <3>2
  <2>2. GuestStatus(t) = "waiting" <=> t \in LiveSid /\ session[t].state = "Login"
    BY StatusOf
  <2>3. CASE t = s
    <3>1. ~ CanMatch(AfterLogin(s, card)[s], AfterLogin(s, card)[s])
      BY <1>3, <1>4 DEF CanMatch
    <3> QED
      BY <2>2, <2>3, <3>1 DEF Matching
  <2>4. CASE t # s /\ t \in LiveSid /\ session[t].state = "Login"
    <3>1. session[t].myCard \in Card
      BY <1>2, <2>4 DEF IInv, CleanSlate, SessionRecord
    <3>2. session[t].myCard.type \in {Device, Client}
      BY <3>1 DEF Card
    <3>3. CanMatch(AfterLogin(s, card)[s], AfterLogin(s, card)[t])
            <=> /\ card.id = session[t].myCard.id
                /\ card.type # session[t].myCard.type
      BY <1>3, <1>4, <2>4, <3>2 DEF CanMatch
    <3> QED
      BY <2>1, <2>2, <2>4, <3>3 DEF Matching
  <2>5. CASE t # s /\ ~ (t \in LiveSid /\ session[t].state = "Login")
    BY <1>3, <2>1, <2>2, <2>5 DEF Matching, CanMatch
  <2> QED
    BY <2>3, <2>4, <2>5
<1>6. Matching(AfterLogin(s, card), s) \subseteq Sid
  BY DEF Matching
<1>7. Service!Wanted(card)
        = {t \in Sid : /\ GuestStatus(t) = "waiting"
                       /\ card.id = session[t].myCard.id
                       /\ card.type # session[t].myCard.type}
  BY DEF Service!Wanted, Service!Complementary
<1> QED
  BY <1>1, <1>5, <1>6, <1>7

\* A login without a match is a guest who shows a card and waits.
LEMMA RefinesWait ==
  ASSUME IInv, IInv', NEW s \in LiveSid, NEW card \in Card,
         session[s].state = "Raw",
         Matching(AfterLogin(s, card), s) = {},
         session' = AfterLogin(s, card),
         UNCHANGED <<sidCount, bsMap, fsMap, bevFd, output>>
  PROVE  Service!Next
<1>1. s \in Sid /\ session \in [Sid -> SessionRecord] /\ card \in Card \cup {NULL}
  BY DEF LiveSid, IInv, TypeOK
<1>2. /\ session'[s].state = "Login" /\ session'[s].myCard = card
      /\ session'[s].myBev = session[s].myBev
      /\ session'[s].peerBev = session[s].peerBev
      /\ \A t \in Sid \ {s} : session'[t] = session[t]
  BY <1>1, LoginFields DEF AfterLogin
<1>3. GuestStatus(s) = "anonymous" /\ GuestStatus(s)' = "waiting"
  <2>1. s < sidCount'
    BY DEF LiveSid
  <2> QED
    BY <1>1, <1>2, <2>1, StatusOf DEF GuestStatus, StatusName
<1>4. \A u \in Sid \ {s} : GuestStatus(u)' = GuestStatus(u)
  BY <1>2 DEF GuestStatus
<1>5. \A u \in Sid : getPeer(u)' = getPeer(u)
  BY <1>2 DEF getPeer
<1>6. \A u \in Sid : HasHeard(u)' = HasHeard(u)
  <2>1. \A u \in Sid : u \in LiveSid' <=> u \in LiveSid
    BY <1>2 DEF LiveSid
  <2>2. \A u \in Sid : session'[u].myBev = session[u].myBev
    BY <1>2
  <2>3. ASSUME NEW u \in LiveSid PROVE HasHeard(u)' = HasHeard(u)
    BY <2>1, <2>2, HeardKept DEF LiveSid
  <2>4. ASSUME NEW u \in Sid \ LiveSid PROVE HasHeard(u)' = HasHeard(u)
    BY <2>1 DEF HasHeard
  <2> QED
    BY <2>3, <2>4
<1>7. /\ card \in Service!GuestCard /\ Service!Wanted(card) = {}
  BY MatchingIsWanted
<1>8. Service!Wait(s, card)
  <2>1. [u \in Sid |-> GuestStatus(u)]'
          = [[u \in Sid |-> GuestStatus(u)] EXCEPT ![s] = "waiting"]
    BY <1>1, <1>3, <1>4
  <2>2. [u \in Sid |-> session[u].myCard]'
          = [[u \in Sid |-> session[u].myCard] EXCEPT ![s] = card]
    BY <1>1, <1>2
  <2>3. UNCHANGED <<[u \in Sid |-> getPeer(u)], [u \in Sid |-> HasHeard(u)]>>
    BY <1>5, <1>6
  <2> QED
    BY <1>1, <1>3, <1>7, <2>1, <2>2, <2>3 DEF Service!Wait
<1> QED
  BY <1>1, <1>7, <1>8 DEF Service!Next

\* A login with a match is a guest who shows a card and is coupled.
LEMMA RefinesCouple ==
  ASSUME IInv, IInv', NEW s \in LiveSid, NEW card \in Card,
         session[s].state = "Raw",
         NEW t \in Matching(AfterLogin(s, card), s),
         session' = Matched(AfterLogin(s, card), s, t),
         output' = [c \in Bev |-> IF c \in {session'[s].myBev, session'[s].peerBev}
                                  THEN Append(output[c], TelnetOk)
                                  ELSE output[c]],
         UNCHANGED <<sidCount, bsMap, fsMap, bevFd>>
  PROVE  Service!Next
<1>1. /\ t \in LiveSid \ {s} /\ session[t].state = "Login"
      /\ session'[s].state = "Bind" /\ session'[t].state = "Bind"
      /\ session'[s].myBev = session[s].myBev
      /\ session'[t].myBev = session[t].myBev
      /\ session'[s].peerBev = session[t].myBev
      /\ session'[t].peerBev = session[s].myBev
      /\ session'[s].myCard = card
      /\ session'[t].myCard = session[t].myCard
      /\ \A u \in Sid \ {s, t} : session'[u] = session[u]
  BY BindEffect
<1>2. \A u \in LiveSid : /\ u \in Sid /\ u < sidCount
                         /\ session[u].myBev \in Bev /\ session[u].myBev # NULL
                         /\ bsMap[session[u].myBev] = u
  BY SessionAssumption DEF IInv, HeapConsistent, LiveBev, LiveSid
<1>3. /\ GuestStatus(s) = "anonymous" /\ GuestStatus(s)' = "coupled"
      /\ GuestStatus(t)' = "coupled"
      /\ \A u \in Sid \ {s, t} : GuestStatus(u)' = GuestStatus(u)
  BY <1>1, <1>2, StatusOf DEF GuestStatus, StatusName
<1>4. /\ getPeer(s)' = t /\ getPeer(t)' = s
      /\ \A u \in Sid \ {s, t} : getPeer(u)' = getPeer(u)
  BY <1>1, <1>2 DEF getPeer
<1>5. \A u \in Sid : u \in LiveSid' <=> u \in LiveSid
  BY <1>1 DEF LiveSid
<1>6. ASSUME NEW u \in Sid
      PROVE  HasHeard(u)' = HasHeard(u)
  <2>1. CASE u \in {s, t}
    <3>1. output[session[u].myBev] = <<Host>>
      BY <1>1, <2>1 DEF IInv, StreamShape
    <3>2. session[u].myBev \in {session'[s].myBev, session'[s].peerBev}
      BY <1>1, <2>1
    <3>3. output'[session'[u].myBev] = Append(<<Host>>, TelnetOk)
      <4>1. output'[session[u].myBev] = Append(output[session[u].myBev], TelnetOk)
        BY <1>1, <1>2, <2>1, <3>2
      <4> QED
        BY <1>1, <2>1, <3>1, <4>1
    <3>4. HasHeard(u) = {}
      <4>1. \A i \in 1 .. Len(<<Host>>) : <<Host>>[i].from = NULL
        BY DEF Host
      <4> QED
        BY <1>1, <2>1, <3>1, <4>1 DEF HasHeard
    <3>5. HasHeard(u)' = {}
      <4>1. \A i \in 1 .. Len(Append(<<Host>>, TelnetOk)) :
              Append(<<Host>>, TelnetOk)[i].from = NULL
        BY DEF Host, TelnetOk
      <4> DEFINE out == output'[session'[u].myBev]
      <4>2. HasHeard(u)' = {out[i].from : i \in 1 .. Len(out)} \ {NULL}
        BY <1>1, <1>5, <2>1 DEF HasHeard
      <4>3. \A i \in 1 .. Len(out) : out[i].from = NULL
        BY <3>3, <4>1
      <4> QED
        BY <4>2, <4>3
    <3> QED
      BY <3>4, <3>5
  <2>2. CASE u \in LiveSid \ {s, t}
    <3>1. session[u].myBev \notin {session'[s].myBev, session'[s].peerBev}
      BY <1>1, <1>2, <2>2
    <3>2. output'[session'[u].myBev] = output[session[u].myBev]
      BY <1>1, <1>2, <2>2, <3>1
    <3> QED
      BY <1>5, <2>2, <3>2, HeardKept
  <2>3. CASE u \notin LiveSid
    BY <1>5, <2>3 DEF HasHeard
  <2> QED
    BY <2>1, <2>2, <2>3
<1>7. card \in Service!GuestCard /\ t \in Service!Wanted(card)
  BY MatchingIsWanted
<1>8. Service!Couple(s, t, card)
  <2>1. [u \in Sid |-> GuestStatus(u)]'
          = [[u \in Sid |-> GuestStatus(u)] EXCEPT ![s] = "coupled",
                                                   ![t] = "coupled"]
    BY <1>1, <1>2, <1>3
  <2>2. [u \in Sid |-> session[u].myCard]'
          = [[u \in Sid |-> session[u].myCard] EXCEPT ![s] = card]
    BY <1>1, <1>2
  <2>3. [u \in Sid |-> getPeer(u)]'
          = [[u \in Sid |-> getPeer(u)] EXCEPT ![s] = t, ![t] = s]
    BY <1>1, <1>2, <1>4
  <2>4. UNCHANGED [u \in Sid |-> HasHeard(u)]
    BY <1>6
  <2> QED
    BY <1>1, <1>2, <1>3, <1>7, <2>1, <2>2, <2>3, <2>4 DEF Service!Couple
<1> QED
  BY <1>1, <1>2, <1>7, <1>8 DEF Service!Next

-----------------------------------------------------------------------------
(* Relayed data and departures. *)

\* Whose words a buffer holds once a chunk has been appended to it.
LEMMA HeardOneMore ==
  ASSUME NEW out \in Seq(Output), NEW s \in Sid
  PROVE  LET after == Append(out, Chunk(s))
         IN  {after[i].from : i \in 1 .. Len(after)} \ {NULL}
               = ({out[i].from : i \in 1 .. Len(out)} \ {NULL}) \cup {s}
<1> DEFINE after == Append(out, Chunk(s))
<1>1. /\ Len(out) \in Nat /\ Len(after) = Len(out) + 1
      /\ \A i \in 1 .. Len(out) : after[i] = out[i]
      /\ after[Len(out) + 1] = Chunk(s)
  BY OutputTypes
<1>2. Chunk(s).from = s /\ s # NULL
  BY ContainerAssumption DEF Chunk
<1> HIDE DEF after
<1>3. ASSUME NEW i \in 1 .. Len(after)
      PROVE  after[i].from \in {out[j].from : j \in 1 .. Len(out)} \cup {s}
  BY <1>1, <1>2
<1>4. ASSUME NEW i \in 1 .. Len(out)
      PROVE  out[i].from \in {after[j].from : j \in 1 .. Len(after)}
  BY <1>1
<1>5. s \in {after[j].from : j \in 1 .. Len(after)}
  <2>1. Len(out) + 1 \in 1 .. Len(after)
    BY <1>1
  <2> QED
    BY <1>1, <1>2, <2>1
<1>6. {after[i].from : i \in 1 .. Len(after)} \ {NULL}
        = ({out[i].from : i \in 1 .. Len(out)} \ {NULL}) \cup {s}
  BY <1>2, <1>3, <1>4, <1>5
<1> QED
  BY <1>6 DEF after

\* Relayed data is a guest who speaks to his mate.
LEMMA RefinesSpeak ==
  ASSUME IInv, IInv', NEW b \in Bev, NEW s \in Sid, Business(b, s)
  PROVE  Service!Next
<1>1. PICK p \in Sid : p = getPeer(s)
  BY FoundIsLive DEF Business, Readable, IInv, PairsAreMutual, LiveSid
<1>2. /\ s \in LiveSid /\ session[s].state = "Bind"
      /\ session' = [session EXCEPT ![s] = Touched(@)]
      /\ output' = [output EXCEPT ![session[s].peerBev] = Append(@, Chunk(s))]
      /\ UNCHANGED <<sidCount, bsMap, fsMap, bevFd>>
  BY FoundIsLive DEF Business, Readable
<1>3. session \in [Sid -> SessionRecord] /\ output \in [Bev -> Seq(Output)]
  BY DEF IInv, TypeOK
<1>4. /\ session[s].peerBev \in Bev
      /\ p \in LiveSid /\ session[p].myBev = session[s].peerBev
  <2>1. session[s].peerBev # NULL
    BY <1>2 DEF IInv, PairsAreMutual
  <2> QED
    BY <1>1, <1>2, <2>1, PeerIsLive DEF LiveBev
<1>5. \A u \in Sid : /\ session'[u].state = session[u].state
                     /\ session'[u].myBev = session[u].myBev
                     /\ session'[u].myCard = session[u].myCard
                     /\ session'[u].peerBev = session[u].peerBev
  BY <1>2, <1>3 DEF Touched, SessionRecord
<1>6. \A u \in Sid : /\ u \in LiveSid' <=> u \in LiveSid
                     /\ GuestStatus(u)' = GuestStatus(u)
                     /\ getPeer(u)' = getPeer(u)
  BY <1>2, <1>5 DEF LiveSid, GuestStatus, getPeer
<1>7. HasHeard(p)' = HasHeard(p) \cup {s}
  <2> DEFINE out == output[session[p].myBev]
             after == Append(out, Chunk(s))
  <2>1. output'[session'[p].myBev] = after
    BY <1>2, <1>3, <1>4, <1>5
  <2>2. out \in Seq(Output)
    BY <1>3, <1>4
  <2>3. HasHeard(p) = {out[i].from : i \in 1 .. Len(out)} \ {NULL}
    BY <1>4 DEF HasHeard
  <2>4. HasHeard(p)' = {after[i].from : i \in 1 .. Len(after)} \ {NULL}
    <3> HIDE DEF after
    <3> QED
      BY <1>4, <1>6, <2>1 DEF HasHeard
  <2>5. {after[i].from : i \in 1 .. Len(after)} \ {NULL}
          = ({out[i].from : i \in 1 .. Len(out)} \ {NULL}) \cup {s}
    BY <2>2, HeardOneMore
  <2> QED
    BY <2>3, <2>4, <2>5
<1>8. ASSUME NEW u \in Sid, u # p
      PROVE  HasHeard(u)' = HasHeard(u)
  <2>1. CASE u \in LiveSid
    <3>1. session[u].myBev \in Bev /\ session[u].myBev # session[s].peerBev
      BY <1>4, <1>8, <2>1 DEF IInv, HeapConsistent, LiveBev
    <3>2. output'[session'[u].myBev] = output[session[u].myBev]
      BY <1>2, <1>3, <1>5, <3>1
    <3> QED
      BY <1>6, <2>1, <3>2, HeardKept
  <2>2. CASE u \notin LiveSid
    BY <1>6, <2>2 DEF HasHeard
  <2> QED
    BY <2>1, <2>2
<1>9. Service!Speak(s)
  <2>1. [u \in Sid |-> HasHeard(u)]'
          = [[u \in Sid |-> HasHeard(u)] EXCEPT ![p] = @ \cup {s}]
    BY <1>7, <1>8
  <2>2. UNCHANGED <<[u \in Sid |-> GuestStatus(u)],
                    [u \in Sid |-> session[u].myCard],
                    [u \in Sid |-> getPeer(u)]>>
    BY <1>5, <1>6
  <2>3. GuestStatus(s) = "coupled"
    BY <1>2, StatusOf
  <2> QED
    BY <1>1, <2>1, <2>2, <2>3 DEF Service!Speak
<1> QED
  BY <1>9 DEF Service!Next

\* A removal is a guest who leaves together with his mate.
LEMMA RefinesLeave ==
  ASSUME IInv, IInv', NEW b \in LiveBev, removeSession(b)
  PROVE  Service!Next
<1>1. PICK s \in LiveSid : s = bsMap[b]
  BY GoneIsLive
<1>2. s \in Sid /\ s < sidCount /\ s # NULL
  BY ContainerAssumption DEF LiveSid
<1>3. Dead(b) = {s, getPeer(s)} \ {NULL}
  <2>1. CASE session[s].peerBev = NULL
    <3>1. Gone(b) = {b}
      BY <1>1, <2>1, GoneIsLive DEF Gone
    <3> QED
      BY <1>1, <1>2, <2>1, <3>1 DEF Dead, getPeer
  <2>2. CASE session[s].peerBev # NULL
    <3>1. Gone(b) = {b, session[s].peerBev}
      BY <1>1, <2>2, GoneIsLive DEF Gone
    <3>2. bsMap[session[s].peerBev] = getPeer(s) /\ getPeer(s) # NULL
      BY <2>2, PeerIsLive, ContainerAssumption DEF LiveSid
    <3> QED
      BY <1>1, <1>2, <3>1, <3>2 DEF Dead
  <2> QED
    BY <2>1, <2>2
<1>4. /\ LiveSid' = LiveSid \ Dead(b) /\ sidCount' = sidCount
      /\ Dead(b) \subseteq LiveSid
      /\ session' = [u \in Sid |-> IF u \in Dead(b) THEN Destroyed ELSE session[u]]
  BY RemovalEffect, GoneIsLive
<1>5. ASSUME NEW u \in Sid, u \in Dead(b)
      PROVE  /\ GuestStatus(u)' = "left" /\ session'[u].myCard = NULL
             /\ getPeer(u)' = NULL /\ HasHeard(u)' = {}
  <2>1. session'[u] = Destroyed /\ u \notin LiveSid' /\ u < sidCount'
    BY <1>4, <1>5 DEF LiveSid
  <2>2. /\ Destroyed.state = "Die" /\ Destroyed.myCard = NULL
        /\ Destroyed.peerBev = NULL
    BY DEF Destroyed
  <2> QED
    BY <2>1, <2>2 DEF GuestStatus, StatusName, getPeer, HasHeard
<1>6. ASSUME NEW u \in Sid, u \notin Dead(b)
      PROVE  /\ GuestStatus(u)' = GuestStatus(u)
             /\ session'[u].myCard = session[u].myCard
             /\ getPeer(u)' = getPeer(u) /\ HasHeard(u)' = HasHeard(u)
  <2>1. session'[u] = session[u]
    BY <1>4, <1>6
  <2>2. GuestStatus(u)' = GuestStatus(u)
    BY <1>4, <2>1 DEF GuestStatus
  <2>3. CASE u \in LiveSid
    <3>1. u \in LiveSid'
      BY <1>4, <1>6, <2>3
    <3>2. getPeer(u)' = getPeer(u)
          /\ output'[session[u].myBev] = output[session[u].myBev]
      BY <3>1, SurvivorsKeep
    <3>3. HasHeard(u)' = HasHeard(u)
      BY <2>1, <2>3, <3>1, <3>2, HeardKept
    <3> QED
      BY <2>1, <2>2, <3>2, <3>3
  <2>4. CASE u \notin LiveSid
    <3>1. u \notin LiveSid' /\ session[u].peerBev = NULL
      BY <1>4, <2>4 DEF IInv, CleanSlate, Destroyed
    <3> QED
      BY <2>1, <2>2, <2>4, <3>1 DEF getPeer, HasHeard
  <2> QED
    BY <2>3, <2>4
<1>7. Service!Leave(s)
  <2>1. [u \in Sid |-> GuestStatus(u)]'
          = [u \in Sid |-> IF u \in Dead(b) THEN "left" ELSE GuestStatus(u)]
    BY <1>5, <1>6
  <2>2. [u \in Sid |-> session[u].myCard]'
          = [u \in Sid |-> IF u \in Dead(b) THEN NULL ELSE session[u].myCard]
    BY <1>5, <1>6
  <2>3. [u \in Sid |-> getPeer(u)]'
          = [u \in Sid |-> IF u \in Dead(b) THEN NULL ELSE getPeer(u)]
    BY <1>5, <1>6
  <2>4. [u \in Sid |-> HasHeard(u)]'
          = [u \in Sid |-> IF u \in Dead(b) THEN {} ELSE HasHeard(u)]
    BY <1>5, <1>6
  <2>5. GuestStatus(s) \notin {"absent", "left"}
    BY <1>2, StatusOf
  <2> QED
    BY <1>2, <1>3, <2>1, <2>2, <2>3, <2>4, <2>5 DEF Service!Leave
<1> QED
  BY <1>2, <1>7 DEF Service!Next

-----------------------------------------------------------------------------
\* Every step of the server is a step of the service or a stuttering step.
LEMMA RefinesNext ==
  IInv /\ IInv' /\ [Next]_vars => [Service!Next]_(Service!guestVars)
<1> SUFFICES ASSUME IInv, IInv', [Next]_vars
             PROVE  Service!Next \/ UNCHANGED Service!guestVars
  OBVIOUS
<1>1. ASSUME UNCHANGED <<session, sidCount, bsMap, fsMap, bevFd, output>>
      PROVE  UNCHANGED Service!guestVars
  BY <1>1, RefinesStutter DEF LiveSid, getPeer
<1>2. ASSUME NEW s \in Sid, RemoteCloses(s) \/ RemoteFallsSilent(s)
      PROVE  UNCHANGED Service!guestVars
  BY <1>1, <1>2 DEF RemoteCloses, RemoteFallsSilent
<1>3. ASSUME NEW b \in Bev, NEW fd \in Fd, listener_cb(b, fd)
      PROVE  Service!Next
  BY <1>3, RefinesArrive
<1>4. CASE listener_cb_fails
  BY <1>1, <1>4 DEF listener_cb_fails
<1>5. ASSUME NEW b \in Bev, NEW s \in Sid, NEW card \in Card, Login(b, s, card)
      PROVE  Service!Next
  <2>1. /\ s \in LiveSid /\ session[s].state = "Raw"
        /\ UNCHANGED <<sidCount, bsMap, fsMap, bevFd>>
    BY <1>5, FoundIsLive DEF Login, Readable
  <2>2. CASE /\ Matching(AfterLogin(s, card), s) = {}
             /\ session' = AfterLogin(s, card)
             /\ UNCHANGED output
    BY <2>1, <2>2, RefinesWait
  <2>3. ASSUME NEW t \in Matching(AfterLogin(s, card), s),
               session' = Matched(AfterLogin(s, card), s, t),
               output' = [c \in Bev |->
                            IF c \in {session'[s].myBev, session'[s].peerBev}
                            THEN Append(output[c], TelnetOk)
                            ELSE output[c]]
        PROVE  Service!Next
    BY <2>1, <2>3, RefinesCouple
  <2> QED
    BY <1>5, <2>2, <2>3 DEF Login, AfterLogin
<1>6. ASSUME NEW b \in Bev, NEW s \in Sid, Discard(b, s)
      PROVE  UNCHANGED Service!guestVars
  BY <1>1, <1>6 DEF Discard, vars
<1>7. ASSUME NEW b \in Bev, NEW s \in Sid, Business(b, s)
      PROVE  Service!Next
  BY <1>7, RefinesSpeak
<1>8. ASSUME NEW b \in Bev, NEW s \in Sid, Hangup(b, s)
      PROVE  Service!Next
  BY <1>8, FoundIsLive, RefinesLeave DEF Hangup
<1>9. ASSUME NEW b \in Bev, NEW s \in Sid, Timeout(b, s)
      PROVE  Service!Next \/ UNCHANGED Service!guestVars
  <2>1. b \in LiveBev /\ s \in LiveSid
    BY <1>9, FoundIsLive DEF Timeout
  <2>2. CASE removeSession(b)
    BY <2>1, <2>2, RefinesLeave
  <2>3. CASE /\ session' = [session EXCEPT ![s] = Idled(session[s], Interval)]
             /\ UNCHANGED <<sidCount, bsMap, fsMap, bevFd, output>>
    <3>1. \A u \in Sid : /\ session'[u].state = session[u].state
                         /\ session'[u].myCard = session[u].myCard
                         /\ session'[u].myBev = session[u].myBev
                         /\ session'[u].peerBev = session[u].peerBev
      BY <2>3 DEF Idled, IInv, TypeOK, SessionRecord
    <3>2. LiveSid' = LiveSid /\ \A u \in Sid : getPeer(u)' = getPeer(u)
      BY <2>3, <3>1 DEF LiveSid, getPeer
    <3> QED
      BY <2>3, <3>1, <3>2, RefinesStutter
  <2> QED
    BY <1>9, <2>2, <2>3 DEF Timeout
<1>10. CASE UNCHANGED vars
  BY <1>1, <1>10 DEF vars
<1> QED
  BY <1>2, <1>3, <1>4, <1>5, <1>6, <1>7, <1>8, <1>9, <1>10 DEF Next

\* The relay server implements the rendezvous service: whatever callbacks run
\* in whatever order, those who connect see a behaviour the service allows.
THEOREM Refinement == Spec => ServiceSpec
  BY RefinesInit, RefinesNext, Invariance, PTL DEF Spec, ServiceSpec, Service!Spec
=============================================================================
