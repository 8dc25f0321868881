-------------------------- MODULE TcpServer_proofs --------------------------
(***************************************************************************)
(* Proofs about the relay server of TcpServer, for every set of addresses, *)
(* identifiers and descriptors and every value of the timeouts and bounds. *)
(***************************************************************************)
EXTENDS TcpServer, Session_proofs

-----------------------------------------------------------------------------
\* What the server writes is typed.
LEMMA OutputTypes ==
  Host \in Output /\ TelnetOk \in Output /\ \A s \in Sid : Chunk(s) \in Output
  BY DEF Output

\* A write keeps the output buffers typed, whatever it is addressed to.
LEMMA WriteTypes ==
  ASSUME NEW o \in [Bev -> Seq(Output)], NEW b, NEW x \in Output
  PROVE  [o EXCEPT ![b] = Append(@, x)] \in [Bev -> Seq(Output)]
<1>1. \A c \in Bev : Append(o[c], x) \in Seq(Output)
  OBVIOUS
<1> QED
  BY <1>1

\* A removal keeps every variable of the container typed.
LEMMA RemovalTypes ==
  ASSUME TypeOK, NEW b \in Bev, removeSession(b)
  PROVE  /\ session' \in [Sid -> SessionRecord]
         /\ sidCount' \in 1 .. MaxSid + 1
         /\ bsMap' \in [Bev -> Sid \cup {NULL}]
         /\ fsMap' \in [Fd -> Sid \cup {NULL}]
         /\ bevFd' \in [Bev -> Fd \cup {NULL}]
         /\ output' \in [Bev -> Seq(Output)]
<1>1. Destroyed \in SessionRecord
  BY SessionTypes
<1>2. <<>> \in Seq(Output)
  OBVIOUS
<1> QED
  BY <1>1, <1>2 DEF TypeOK, removeSession

-----------------------------------------------------------------------------
(* Type correctness. *)

\* TypeOK holds initially.
LEMMA InitTypeOK == Init => TypeOK
<1> SUFFICES ASSUME Init PROVE TypeOK
  OBVIOUS
<1>1. Destroyed \in SessionRecord
  BY SessionTypes
<1>2. 1 \in 1 .. MaxSid + 1
  BY ContainerAssumption
<1>3. <<>> \in Seq(Output)
  OBVIOUS
<1> QED
  BY <1>1, <1>2, <1>3 DEF Init, InitContainer, TypeOK, Remote

\* Every step keeps TypeOK.
LEMMA NextTypeOK == TypeOK /\ [Next]_vars => TypeOK'
<1> SUFFICES ASSUME TypeOK, [Next]_vars PROVE TypeOK'
  OBVIOUS
<1> USE DEF TypeOK
<1>1. ASSUME NEW s \in Sid, RemoteCloses(s) \/ RemoteFallsSilent(s)
      PROVE  TypeOK'
  BY <1>1 DEF RemoteCloses, RemoteFallsSilent, Remote
<1>2. ASSUME NEW b \in Bev, NEW fd \in Fd, listener_cb(b, fd)
      PROVE  TypeOK'
  <2>1. NewSession(b) \in SessionRecord
    BY SessionAssumption DEF SessionRecord, SessionState, NewSession
  <2>2. sidCount' \in 1 .. MaxSid + 1
    BY <1>2, ContainerAssumption DEF listener_cb, Sid
  <2>3. output' \in [Bev -> Seq(Output)]
    BY <1>2, OutputTypes DEF listener_cb
  <2> QED
    BY <1>2, <2>1, <2>2, <2>3 DEF listener_cb, insert
<1>3. CASE listener_cb_fails
  BY <1>3 DEF listener_cb_fails
<1>4. ASSUME NEW b \in Bev, NEW s \in Sid, NEW card \in Card, Login(b, s, card)
      PROVE  TypeOK'
  <2> DEFINE sessions == [session EXCEPT ![s] = LoggedIn(@, card)]
  <2>1. sessions \in [Sid -> SessionRecord]
    BY SessionTypes
  <2>2. CASE session' = sessions /\ UNCHANGED output
    BY <1>4, <2>1, <2>2 DEF Login
  <2>3. ASSUME NEW t \in Matching(sessions, s),
               session' = Matched(sessions, s, t),
               NEW ends,
               output' = [c \in Bev |-> IF c \in ends
                                        THEN Append(output[c], TelnetOk)
                                        ELSE output[c]]
        PROVE  TypeOK'
    <3>1. t \in Sid
      BY DEF Matching
    <3>2. /\ sessions[t].myBev \in Bev \cup {NULL}
          /\ sessions[t].myCard \in Card \cup {NULL}
          /\ sessions[s].myBev \in Bev \cup {NULL}
          /\ sessions[s].myCard \in Card \cup {NULL}
      BY <2>1, <3>1 DEF SessionRecord
    <3>3. session' \in [Sid -> SessionRecord]
      BY <2>1, <2>3, <3>1, <3>2, SessionTypes DEF Matched
    <3>4. output' \in [Bev -> Seq(Output)]
      <4>1. \A c \in Bev : Append(output[c], TelnetOk) \in Seq(Output)
        BY OutputTypes
      <4> QED
        BY <2>3, <4>1
    <3> QED
      BY <1>4, <3>3, <3>4 DEF Login
  <2> QED
    BY <1>4, <2>2, <2>3 DEF Login
<1>5. ASSUME NEW b \in Bev, NEW s \in Sid, Discard(b, s)
      PROVE  TypeOK'
  BY <1>5 DEF Discard, vars
<1>6. ASSUME NEW b \in Bev, NEW s \in Sid, Business(b, s)
      PROVE  TypeOK'
  <2>1. session' \in [Sid -> SessionRecord]
    BY <1>6, SessionTypes DEF Business
  <2>2. output' \in [Bev -> Seq(Output)]
    <3>1. Chunk(s) \in Output
      BY OutputTypes
    <3>2. output' = [output EXCEPT ![session[s].peerBev] = Append(@, Chunk(s))]
      BY <1>6 DEF Business
    <3> QED
      BY <3>1, <3>2, WriteTypes
  <2> QED
    BY <1>6, <2>1, <2>2 DEF Business
<1>7. ASSUME NEW b \in Bev, NEW s \in Sid, Hangup(b, s)
      PROVE  TypeOK'
  <2>1. removeSession(b) /\ ForgetRemoved /\ UNCHANGED dispatching
    BY <1>7 DEF Hangup
  <2> QED
    BY <2>1, RemovalTypes DEF ForgetRemoved, Remote
<1>8. ASSUME NEW b \in Bev, NEW s \in Sid, Timeout(b, s)
      PROVE  TypeOK'
  <2>1. CASE removeSession(b) /\ ForgetRemoved /\ UNCHANGED dispatching
    BY <2>1, RemovalTypes DEF ForgetRemoved, Remote
  <2>2. CASE /\ session' = [session EXCEPT ![s] = Idled(session[s], Interval)]
             /\ UNCHANGED <<sidCount, bsMap, fsMap, bevFd, output, remote,
                            dispatching>>
    <3>1. session[s] \in SessionRecord /\ Interval \in Int
      BY DEF Interval
    <3>2. Idled(session[s], Interval) \in SessionRecord
      BY <3>1, SessionTypes, Zenon
    <3> QED
      BY <2>2, <3>2
  <2> QED
    BY <1>8, <2>1, <2>2 DEF Timeout
<1>9. CASE UNCHANGED vars
  BY <1>9 DEF vars
<1> QED
  BY <1>1, <1>2, <1>3, <1>4, <1>5, <1>6, <1>7, <1>8, <1>9 DEF Next

\* Every variable keeps the type its declaration in the source gives it.
THEOREM TypeCorrect == Spec => []TypeOK
  BY InitTypeOK, NextTypeOK, PTL DEF Spec

-----------------------------------------------------------------------------
(* What removeSession(b) removes from under a live b: the bufferevents      *)
(* Gone(b) and the sessions Dead(b) mapped to them.                         *)

Gone(b) == {b, session[bsMap[b]].peerBev} \ {NULL}
Dead(b) == {bsMap[c] : c \in Gone(b)}

\* The peer pointer of a bound session is a live bufferevent, whose session is
\* the one getPeer returns.
LEMMA PeerIsLive ==
  ASSUME IInv, NEW s \in LiveSid, session[s].peerBev # NULL
  PROVE  /\ session[s].state = "Bind"
         /\ session[s].peerBev \in LiveBev
         /\ bsMap[session[s].peerBev] = getPeer(s)
         /\ getPeer(s) \in LiveSid \ {s}
         /\ session[getPeer(s)].state = "Bind"
         /\ session[getPeer(s)].myBev = session[s].peerBev
         /\ session[getPeer(s)].peerBev = session[s].myBev
<1> USE DEF IInv
<1>1. s \in Sid
  BY DEF LiveSid
<1>2. /\ session[s].state = "Bind"
      /\ getPeer(s) \in LiveSid \ {s}
      /\ session[getPeer(s)].state = "Bind"
      /\ session[getPeer(s)].peerBev = session[s].myBev
  BY DEF PairsAreMutual
<1>3. bsMap[session[s].peerBev] = getPeer(s)
  BY DEF getPeer
<1>4. session[s].peerBev \in Bev
  BY <1>1 DEF TypeOK, SessionRecord
<1>5. getPeer(s) # NULL
  BY <1>2, ContainerAssumption DEF LiveSid
<1>6. session[s].peerBev \in LiveBev
  BY <1>3, <1>4, <1>5 DEF HeapConsistent, LiveBev
<1> QED
  BY <1>2, <1>3, <1>6 DEF HeapConsistent

\* A live bufferevent and the peer of its session are distinct live
\* bufferevents, and so are the sessions mapped to them.
LEMMA GoneIsLive ==
  ASSUME IInv, NEW b \in LiveBev
  PROVE  /\ bsMap[b] \in LiveSid
         /\ b \in Gone(b)
         /\ Gone(b) \subseteq LiveBev
         /\ Dead(b) \subseteq LiveSid
         /\ \A u \in LiveSid : u \in Dead(b) <=> session[u].myBev \in Gone(b)
         /\ \A u \in LiveSid \ Dead(b) : session[u].peerBev \notin Gone(b)
<1> DEFINE s == bsMap[b]
<1>1. s \in LiveSid /\ session[s].myBev = b /\ b # NULL
  BY SessionAssumption DEF IInv, HeapConsistent, LiveBev
<1>2. Gone(b) \subseteq LiveBev
  BY <1>1, PeerIsLive DEF Gone
<1>3. Dead(b) \subseteq LiveSid
  BY <1>2 DEF Dead, IInv, HeapConsistent
<1>4. ASSUME NEW u \in LiveSid
      PROVE  u \in Dead(b) <=> session[u].myBev \in Gone(b)
  <2>1. session[u].myBev \in LiveBev /\ bsMap[session[u].myBev] = u
    BY DEF IInv, HeapConsistent
  <2>2. \A c \in Gone(b) : session[bsMap[c]].myBev = c
    BY <1>2 DEF IInv, HeapConsistent
  <2> QED
    BY <2>1, <2>2 DEF Dead
<1>5. ASSUME NEW u \in LiveSid \ Dead(b), session[u].peerBev \in Gone(b)
      PROVE  FALSE
  <2>1. session[u].peerBev # NULL
    BY <1>5 DEF Gone
  <2> DEFINE p == getPeer(u)
  <2>2. /\ p \in LiveSid /\ session[p].peerBev = session[u].myBev
        /\ session[p].myBev = session[u].peerBev
        /\ bsMap[session[u].peerBev] = p
    BY <2>1, PeerIsLive
  <2>3. session[u].myBev \notin Gone(b)
    BY <1>4
  <2>4. session[u].myBev # NULL
    BY SessionAssumption DEF IInv, HeapConsistent, LiveBev
  <2>5. CASE session[u].peerBev = b
    BY <2>2, <2>3, <2>4, <2>5 DEF Gone
  <2>6. CASE session[u].peerBev = session[s].peerBev
    <3>1. session[s].peerBev # NULL
      BY <2>1, <2>6
    <3>2. bsMap[session[s].peerBev] = getPeer(s)
          /\ session[getPeer(s)].peerBev = b
      BY <1>1, <3>1, PeerIsLive
    <3>3. session[u].myBev = b
      BY <2>2, <2>6, <3>2
    <3> QED
      BY <1>1, <2>3, <2>4, <3>3 DEF Gone
  <2> QED
    BY <1>5, <2>5, <2>6 DEF Gone
<1> QED
  BY <1>1, <1>2, <1>3, <1>4, <1>5 DEF Gone

\* removeSession(b) on a live bufferevent deletes exactly the sessions Dead(b)
\* and frees exactly the bufferevents Gone(b).
LEMMA RemovalEffect ==
  ASSUME IInv, NEW b \in LiveBev, removeSession(b)
  PROVE  /\ session' = [s \in Sid |-> IF s \in Dead(b) THEN Destroyed
                                                       ELSE session[s]]
         /\ bsMap' = [c \in Bev |-> IF c \in Gone(b) THEN NULL ELSE bsMap[c]]
         /\ fsMap' = [f \in Fd |-> IF f \in {bevFd[c] : c \in Gone(b)}
                                   THEN NULL ELSE fsMap[f]]
         /\ bevFd' = [c \in Bev |-> IF c \in Gone(b) THEN NULL ELSE bevFd[c]]
         /\ output' = [c \in Bev |-> IF c \in Gone(b) THEN <<>> ELSE output[c]]
         /\ sidCount' = sidCount
         /\ LiveSid' = LiveSid \ Dead(b)
         /\ LiveBev' = LiveBev \ Gone(b)
<1> DEFINE gone  == PairOf(b)
           dead  == SessionsOf(gone)
           freed == {session[s].myBev : s \in dead}
                      \cup {c \in gone : bsMap[c] = NULL}
<1>1. bsMap[b] \in LiveSid /\ bsMap[b] # NULL
  BY GoneIsLive, ContainerAssumption DEF LiveSid
<1>2. gone = Gone(b)
  BY <1>1 DEF Gone, PairOf
<1>3. /\ Gone(b) \subseteq LiveBev
      /\ Dead(b) \subseteq LiveSid
  BY GoneIsLive
<1>4. \A c \in Gone(b) : /\ bsMap[c] # NULL /\ bevFd[c] \in Nat \ {0}
                         /\ bevFd[c] \in Fd
                         /\ session[bsMap[c]].myBev = c
  BY <1>3, ContainerAssumption DEF IInv, HeapConsistent, LiveBev, TypeOK
<1>5. dead = Dead(b)
  BY <1>2, <1>4 DEF Dead, SessionsOf
<1>6. freed = Gone(b)
  <2>1. {c \in gone : bsMap[c] = NULL} = {}
    BY <1>2, <1>4
  <2>2. {session[s].myBev : s \in Dead(b)} = Gone(b)
    BY <1>4 DEF Dead
  <2> QED
    BY <1>5, <2>1, <2>2
<1>7. FdsOf(gone) = {bevFd[c] : c \in Gone(b)}
  BY <1>2, <1>4 DEF FdsOf
<1>8. /\ session' = [s \in Sid |-> IF s \in dead THEN Destroyed ELSE session[s]]
      /\ bsMap' = [c \in Bev |-> IF c \in gone THEN NULL ELSE bsMap[c]]
      /\ fsMap' = [f \in Fd |-> IF f \in FdsOf(gone) THEN NULL ELSE fsMap[f]]
      /\ bevFd' = [c \in Bev |-> IF c \in freed THEN NULL ELSE bevFd[c]]
      /\ output' = [c \in Bev |-> IF c \in freed THEN <<>> ELSE output[c]]
      /\ sidCount' = sidCount
  BY DEF removeSession
<1> HIDE DEF dead, gone, freed
<1>9. /\ session' = [s \in Sid |-> IF s \in Dead(b) THEN Destroyed
                                                    ELSE session[s]]
      /\ bsMap' = [c \in Bev |-> IF c \in Gone(b) THEN NULL ELSE bsMap[c]]
      /\ fsMap' = [f \in Fd |-> IF f \in {bevFd[c] : c \in Gone(b)}
                                THEN NULL ELSE fsMap[f]]
      /\ bevFd' = [c \in Bev |-> IF c \in Gone(b) THEN NULL ELSE bevFd[c]]
      /\ output' = [c \in Bev |-> IF c \in Gone(b) THEN <<>> ELSE output[c]]
      /\ sidCount' = sidCount
  BY <1>2, <1>5, <1>6, <1>7, <1>8
<1>10. LiveSid' = LiveSid \ Dead(b)
  <2>1. Destroyed.state = "Die"
    BY DEF Destroyed
  <2> QED
    BY <1>9, <2>1 DEF LiveSid
<1>11. LiveBev' = LiveBev \ Gone(b)
  BY <1>9 DEF LiveBev
<1> QED
  BY <1>9, <1>10, <1>11

\* What is left after a removal is as it was before.
LEMMA SurvivorsKeep ==
  ASSUME IInv, NEW b \in LiveBev, removeSession(b), NEW u \in LiveSid'
  PROVE  /\ u \in LiveSid /\ u \notin Dead(b)
         /\ session'[u] = session[u]
         /\ session[u].myBev \notin Gone(b)
         /\ bsMap'[session[u].myBev] = u
         /\ bevFd'[session[u].myBev] = bevFd[session[u].myBev]
         /\ output'[session[u].myBev] = output[session[u].myBev]
         /\ getPeer(u)' = getPeer(u)
<1>1. /\ u \in LiveSid /\ u \notin Dead(b)
      /\ session'[u] = session[u]
  BY RemovalEffect DEF LiveSid
<1>2. session[u].myBev \notin Gone(b) /\ session[u].peerBev \notin Gone(b)
  BY <1>1, GoneIsLive
<1>3. session[u].myBev \in LiveBev /\ bsMap[session[u].myBev] = u
  BY <1>1 DEF IInv, HeapConsistent
<1>4. session[u].myBev \in Bev
  BY <1>3 DEF LiveBev
<1>5. /\ bsMap'[session[u].myBev] = u
      /\ bevFd'[session[u].myBev] = bevFd[session[u].myBev]
      /\ output'[session[u].myBev] = output[session[u].myBev]
  BY <1>2, <1>3, <1>4, RemovalEffect
<1>6. getPeer(u)' = getPeer(u)
  <2>1. CASE session[u].peerBev = NULL
    BY <1>1, <2>1 DEF getPeer
  <2>2. CASE session[u].peerBev # NULL
    <3>1. session[u].peerBev \in Bev
      BY <1>1, <2>2, PeerIsLive DEF LiveBev
    <3>2. bsMap'[session[u].peerBev] = bsMap[session[u].peerBev]
      BY <1>2, <3>1, RemovalEffect
    <3> QED
      BY <1>1, <2>2, <3>2 DEF getPeer
  <2> QED
    BY <2>1, <2>2
<1> QED
  BY <1>1, <1>2, <1>5, <1>6

\* A removal keeps the inductive invariant.
LEMMA RemovalKeeps ==
  ASSUME IInv, TypeOK', NEW b \in LiveBev, removeSession(b)
  PROVE  IInv'
<1>1. HeapConsistent'
  <2>1. ASSUME NEW c \in Bev PROVE bsMap'[c] # NULL <=> bevFd'[c] # NULL
    BY RemovalEffect DEF IInv, HeapConsistent
  <2>2. ASSUME NEW c \in LiveBev'
        PROVE  bsMap'[c] \in LiveSid' /\ session'[bsMap'[c]].myBev = c
    <3>1. c \in Bev /\ c \in LiveBev /\ c \notin Gone(b) /\ bsMap'[c] = bsMap[c]
      BY RemovalEffect DEF LiveBev
    <3>2. bsMap[c] \in LiveSid /\ session[bsMap[c]].myBev = c
      BY <3>1 DEF IInv, HeapConsistent
    <3>3. bsMap[c] \notin Dead(b)
      BY <3>1, <3>2, GoneIsLive
    <3>4. bsMap[c] \in LiveSid'
      BY <3>2, <3>3, RemovalEffect
    <3> QED
      BY <3>1, <3>2, <3>4, SurvivorsKeep
  <2>3. ASSUME NEW u \in LiveSid'
        PROVE  session'[u].myBev \in LiveBev' /\ bsMap'[session'[u].myBev] = u
    <3>1. session[u].myBev \in LiveBev
      BY SurvivorsKeep DEF IInv, HeapConsistent
    <3> QED
      BY <3>1, SurvivorsKeep, RemovalEffect
  <2> QED
    BY <2>1, <2>2, <2>3 DEF HeapConsistent
<1>2. FdIndex'
  <2> SUFFICES ASSUME NEW fd \in Fd, NEW u \in Sid
               PROVE  fsMap'[fd] = u
                        <=> u \in LiveSid' /\ bevFd'[session'[u].myBev] = fd
    BY DEF FdIndex
  <2>1. fsMap[fd] = u <=> u \in LiveSid /\ bevFd[session[u].myBev] = fd
    BY DEF IInv, FdIndex
  <2>2. u # NULL
    BY ContainerAssumption
  <2>3. CASE u \in LiveSid'
    <3>1. fd = bevFd[session[u].myBev]
             => fd \notin {bevFd[c] : c \in Gone(b)}
      <4> SUFFICES ASSUME NEW c \in Gone(b),
                          fd = bevFd[session[u].myBev], fd = bevFd[c]
                   PROVE  FALSE
        OBVIOUS
      <4>1. bsMap[c] \in LiveSid /\ session[bsMap[c]].myBev = c
        BY GoneIsLive DEF IInv, HeapConsistent
      <4>2. bsMap[c] = u
        BY <2>1, <2>3, <4>1, SurvivorsKeep DEF IInv, FdIndex, LiveSid
      <4> QED
        BY <2>3, <4>1, <4>2, SurvivorsKeep
    <3> QED
      BY <2>1, <2>2, <2>3, <3>1, SurvivorsKeep, RemovalEffect
  <2>4. CASE u \notin LiveSid'
    <3>1. ASSUME u \in LiveSid, bevFd[session[u].myBev] = fd
          PROVE  fd \in {bevFd[c] : c \in Gone(b)}
      <4>1. u \in Dead(b)
        BY <2>4, <3>1, RemovalEffect
      <4>2. session[u].myBev \in Gone(b)
        BY <3>1, <4>1, GoneIsLive
      <4> QED
        BY <3>1, <4>2
    <3> QED
      BY <2>1, <2>2, <2>4, <3>1, RemovalEffect
  <2> QED
    BY <2>3, <2>4
<1>3. PairsAreMutual'
  <2> SUFFICES ASSUME NEW u \in LiveSid'
               PROVE  /\ session'[u].state = "Bind" <=> session'[u].peerBev # NULL
                      /\ session'[u].state = "Bind" =>
                           LET p == getPeer(u)'
                           IN  /\ p \in LiveSid' \ {u}
                               /\ session'[p].state = "Bind"
                               /\ session'[p].peerBev = session'[u].myBev
                               /\ session'[p].myCard = session'[u].peerCard
                               /\ session'[p].myCard.id = session'[u].myCard.id
                               /\ session'[p].myCard.type # session'[u].myCard.type
    BY DEF PairsAreMutual
  <2>1. u \in LiveSid /\ session'[u] = session[u] /\ getPeer(u)' = getPeer(u)
    BY SurvivorsKeep
  <2>2. CASE session[u].state = "Bind"
    <3> DEFINE p == getPeer(u)
    <3>1. /\ session[u].peerBev # NULL
          /\ p \in LiveSid \ {u}
          /\ session[p].state = "Bind"
          /\ session[p].peerBev = session[u].myBev
          /\ session[p].myCard = session[u].peerCard
          /\ session[p].myCard.id = session[u].myCard.id
          /\ session[p].myCard.type # session[u].myCard.type
      BY <2>1, <2>2 DEF IInv, PairsAreMutual
    <3>2. p \notin Dead(b)
      <4>1. session[p].myBev = session[u].peerBev
        BY <2>1, <3>1, PeerIsLive
      <4>2. session[u].peerBev \notin Gone(b)
        BY <2>1, SurvivorsKeep, GoneIsLive
      <4> QED
        BY <3>1, <4>1, <4>2, GoneIsLive
    <3>3. p \in LiveSid'
      BY <3>1, <3>2, RemovalEffect
    <3>4. session'[p] = session[p]
      BY <3>3, SurvivorsKeep
    <3> QED
      BY <2>1, <2>2, <3>1, <3>3, <3>4
  <2>3. CASE session[u].state # "Bind"
    BY <2>1, <2>3 DEF IInv, PairsAreMutual
  <2> QED
    BY <2>2, <2>3
<1>4. NoMissedMatch'
  <2>1. \A u \in LiveSid' : u \in LiveSid /\ session'[u] = session[u]
    BY SurvivorsKeep
  <2> QED
    BY <2>1 DEF IInv, NoMissedMatch
<1>5. StreamShape'
  <2> SUFFICES ASSUME NEW u \in LiveSid'
               PROVE  LET out == output'[session'[u].myBev]
                      IN  IF session'[u].state = "Bind"
                          THEN /\ Len(out) >= 2
                               /\ out[1] = Host /\ out[2] = TelnetOk
                               /\ \A i \in 3 .. Len(out) :
                                    out[i] = Chunk(getPeer(u)')
                          ELSE out = <<Host>>
    BY DEF StreamShape, Chunk
  <2>1. /\ u \in LiveSid /\ session'[u] = session[u]
        /\ getPeer(u)' = getPeer(u)
        /\ output'[session[u].myBev] = output[session[u].myBev]
    BY SurvivorsKeep
  <2> QED
    BY <2>1 DEF IInv, StreamShape
<1>6. CleanSlate'
  <2>1. ASSUME NEW u \in LiveSid'
        PROVE  session'[u].state = "Raw" <=> session'[u].myCard = NULL
    BY SurvivorsKeep DEF IInv, CleanSlate
  <2>2. ASSUME NEW u \in Sid \ LiveSid' PROVE session'[u] = Destroyed
    BY RemovalEffect DEF IInv, CleanSlate
  <2>3. ASSUME NEW c \in Bev \ LiveBev' PROVE output'[c] = <<>>
    BY RemovalEffect DEF IInv, CleanSlate
  <2> QED
    BY <2>1, <2>2, <2>3 DEF CleanSlate
<1> QED
  BY <1>1, <1>2, <1>3, <1>4, <1>5, <1>6 DEF IInv

-----------------------------------------------------------------------------
(* A new connection. *)

\* listener_cb adds one session and one bufferevent under fresh keys and
\* touches nothing else.
LEMMA ArrivalEffect ==
  ASSUME IInv, NEW b \in Bev, NEW fd \in Fd, listener_cb(b, fd)
  PROVE  /\ sidCount \in Sid /\ sidCount \notin LiveSid
         /\ b \notin LiveBev /\ bsMap[b] = NULL
         /\ \A c \in LiveBev : bevFd[c] # fd
         /\ \A u \in Sid : fsMap[fd] # u
         /\ session' = [s \in Sid |-> IF s = sidCount THEN NewSession(b)
                                                    ELSE session[s]]
         /\ bsMap' = [c \in Bev |-> IF c = b THEN sidCount ELSE bsMap[c]]
         /\ fsMap' = [f \in Fd |-> IF f = fd THEN sidCount ELSE fsMap[f]]
         /\ bevFd' = [c \in Bev |-> IF c = b THEN fd ELSE bevFd[c]]
         /\ output' = [c \in Bev |-> IF c = b THEN <<Host>> ELSE output[c]]
         /\ LiveSid' = LiveSid \cup {sidCount}
         /\ LiveBev' = LiveBev \cup {b}
<1>1. /\ sidCount \in Sid /\ sidCount \notin LiveSid
      /\ b \notin LiveBev /\ bsMap[b] = NULL
  <2>1. sidCount \in Sid /\ bevFd[b] = NULL
    BY DEF listener_cb
  <2>2. ~ (sidCount < sidCount)
    BY <2>1, ContainerAssumption DEF Sid
  <2> QED
    BY <2>1, <2>2 DEF LiveSid, LiveBev, IInv, HeapConsistent
<1>2. \A c \in LiveBev : bevFd[c] # fd
  BY DEF listener_cb, FreeFd, LiveBev
<1>3. \A u \in Sid : fsMap[fd] # u
  BY <1>2 DEF IInv, FdIndex, HeapConsistent
<1>4. fsMap[fd] = NULL
  BY <1>3 DEF IInv, TypeOK
<1>5. output[b] = <<>>
  BY <1>1 DEF IInv, CleanSlate
<1>6. Append(output[b], Host) = <<Host>>
  BY <1>5
<1>7. /\ session' = [s \in Sid |-> IF s = sidCount THEN NewSession(b)
                                                 ELSE session[s]]
      /\ bsMap' = [c \in Bev |-> IF c = b THEN sidCount ELSE bsMap[c]]
      /\ fsMap' = [f \in Fd |-> IF f = fd THEN sidCount ELSE fsMap[f]]
      /\ bevFd' = [c \in Bev |-> IF c = b THEN fd ELSE bevFd[c]]
      /\ output' = [c \in Bev |-> IF c = b THEN <<Host>> ELSE output[c]]
      /\ sidCount' = sidCount + 1
  BY <1>1, <1>4, <1>6 DEF listener_cb, insert, IInv, TypeOK
<1>8. LiveBev' = LiveBev \cup {b}
  BY <1>7, ContainerAssumption DEF LiveBev, IInv, TypeOK
<1>9. LiveSid' = LiveSid \cup {sidCount}
  <2>1. NewSession(b).state = "Raw"
    BY DEF NewSession
  <2> QED
    BY <1>1, <1>7, <2>1, ContainerAssumption DEF LiveSid, IInv, TypeOK, Sid
<1> QED
  BY <1>1, <1>2, <1>3, <1>7, <1>8, <1>9

\* Those who were connected before an arrival are as they were.
LEMMA ResidentsKeep ==
  ASSUME IInv, NEW b \in Bev, NEW fd \in Fd, listener_cb(b, fd), NEW u \in LiveSid
  PROVE  /\ u # sidCount
         /\ session'[u] = session[u]
         /\ session[u].myBev \in LiveBev
         /\ session[u].myBev # b
         /\ bsMap'[session[u].myBev] = u
         /\ bevFd'[session[u].myBev] = bevFd[session[u].myBev]
         /\ output'[session[u].myBev] = output[session[u].myBev]
         /\ getPeer(u)' = getPeer(u)
<1>1. u \in Sid /\ u # sidCount
  BY ArrivalEffect DEF LiveSid
<1>2. session'[u] = session[u]
  BY <1>1, ArrivalEffect
<1>3. /\ session[u].myBev \in LiveBev
      /\ session[u].myBev \in Bev
      /\ session[u].myBev # b
      /\ bsMap[session[u].myBev] = u
  BY ArrivalEffect DEF IInv, HeapConsistent, LiveBev
<1>4. /\ bsMap'[session[u].myBev] = u
      /\ bevFd'[session[u].myBev] = bevFd[session[u].myBev]
      /\ output'[session[u].myBev] = output[session[u].myBev]
  BY <1>3, ArrivalEffect
<1>5. getPeer(u)' = getPeer(u)
  <2>1. CASE session[u].peerBev = NULL
    BY <1>2, <2>1 DEF getPeer
  <2>2. CASE session[u].peerBev # NULL
    <3>1. session[u].peerBev \in Bev /\ session[u].peerBev # b
      BY <2>2, PeerIsLive, ArrivalEffect DEF LiveBev
    <3>2. bsMap'[session[u].peerBev] = bsMap[session[u].peerBev]
      BY <3>1, ArrivalEffect
    <3> QED
      BY <1>2, <2>2, <3>2 DEF getPeer
  <2> QED
    BY <2>1, <2>2
<1> QED
  BY <1>1, <1>2, <1>3, <1>4, <1>5

\* An arrival keeps the inductive invariant.
LEMMA ArrivalKeeps ==
  ASSUME IInv, TypeOK', NEW b \in Bev, NEW fd \in Fd, listener_cb(b, fd)
  PROVE  IInv'
<1> DEFINE new == sidCount
<1>1. /\ new \in Sid /\ new \notin LiveSid
      /\ session'[new] = NewSession(b)
      /\ NewSession(b).myBev = b /\ NewSession(b).state = "Raw"
      /\ NewSession(b).peerBev = NULL /\ NewSession(b).myCard = NULL
      /\ output'[b] = <<Host>>
      /\ bsMap'[b] = new /\ bevFd'[b] = fd
  BY ArrivalEffect DEF NewSession, IInv, TypeOK
<1>2. LiveSid' = LiveSid \cup {new} /\ LiveBev' = LiveBev \cup {b}
  BY ArrivalEffect
<1>3. HeapConsistent'
  <2>1. ASSUME NEW c \in Bev PROVE bsMap'[c] # NULL <=> bevFd'[c] # NULL
    BY <1>1, ArrivalEffect, ContainerAssumption DEF IInv, HeapConsistent
  <2>2. ASSUME NEW c \in LiveBev'
        PROVE  bsMap'[c] \in LiveSid' /\ session'[bsMap'[c]].myBev = c
    <3>1. CASE c = b
      BY <1>1, <1>2, <3>1
    <3>2. CASE c # b
      <4>1. c \in LiveBev /\ bsMap'[c] = bsMap[c]
        BY <1>2, <3>2, ArrivalEffect DEF LiveBev
      <4>2. bsMap[c] \in LiveSid /\ session[bsMap[c]].myBev = c
        BY <4>1 DEF IInv, HeapConsistent
      <4> QED
        BY <1>2, <4>1, <4>2, ResidentsKeep
    <3> QED
      BY <3>1, <3>2
  <2>3. ASSUME NEW u \in LiveSid'
        PROVE  session'[u].myBev \in LiveBev' /\ bsMap'[session'[u].myBev] = u
    BY <1>1, <1>2, ResidentsKeep
  <2> QED
    BY <2>1, <2>2, <2>3 DEF HeapConsistent
<1>4. FdIndex'
  <2> SUFFICES ASSUME NEW f \in Fd, NEW u \in Sid
               PROVE  fsMap'[f] = u
                        <=> u \in LiveSid' /\ bevFd'[session'[u].myBev] = f
    BY DEF FdIndex
  <2>1. fsMap[f] = u <=> u \in LiveSid /\ bevFd[session[u].myBev] = f
    BY DEF IInv, FdIndex
  <2>2. fsMap'[f] = IF f = fd THEN new ELSE fsMap[f]
    BY ArrivalEffect DEF IInv, TypeOK
  <2>3. CASE u = new
    BY <1>1, <1>2, <2>1, <2>2, <2>3
  <2>4. CASE u # new /\ u \in LiveSid
    <3>1. bevFd[session[u].myBev] # fd
      BY <2>4, ResidentsKeep, ArrivalEffect
    <3> QED
      BY <1>2, <2>1, <2>2, <2>4, <3>1, ResidentsKeep
  <2>5. CASE u # new /\ u \notin LiveSid
    BY <1>2, <2>1, <2>2, <2>5
  <2> QED
    BY <2>3, <2>4, <2>5
<1>5. PairsAreMutual'
  <2> SUFFICES ASSUME NEW u \in LiveSid'
               PROVE  /\ session'[u].state = "Bind" <=> session'[u].peerBev # NULL
                      /\ session'[u].state = "Bind" =>
                           LET p == getPeer(u)'
                           IN  /\ p \in LiveSid' \ {u}
                               /\ session'[p].state = "Bind"
                               /\ session'[p].peerBev = session'[u].myBev
                               /\ session'[p].myCard = session'[u].peerCard
                               /\ session'[p].myCard.id = session'[u].myCard.id
                               /\ session'[p].myCard.type # session'[u].myCard.type
    BY DEF PairsAreMutual
  <2>1. CASE u = new
    BY <1>1, <2>1
  <2>2. CASE u \in LiveSid
    <3>1. session'[u] = session[u] /\ getPeer(u)' = getPeer(u)
      BY <2>2, ResidentsKeep
    <3>2. session[u].state = "Bind" => session'[getPeer(u)] = session[getPeer(u)]
      BY <2>2, ResidentsKeep DEF IInv, PairsAreMutual
    <3> QED
      BY <1>2, <2>2, <3>1, <3>2 DEF IInv, PairsAreMutual
  <2> QED
    BY <1>2, <2>1, <2>2
<1>6. NoMissedMatch'
  BY <1>1, <1>2, ResidentsKeep DEF IInv, NoMissedMatch
<1>7. StreamShape'
  <2> SUFFICES ASSUME NEW u \in LiveSid'
               PROVE  LET out == output'[session'[u].myBev]
                      IN  IF session'[u].state = "Bind"
                          THEN /\ Len(out) >= 2
                               /\ out[1] = Host /\ out[2] = TelnetOk
                               /\ \A i \in 3 .. Len(out) :
                                    out[i] = Chunk(getPeer(u)')
                          ELSE out = <<Host>>
    BY DEF StreamShape, Chunk
  <2>1. CASE u = new
    BY <1>1, <2>1
  <2>2. CASE u \in LiveSid
    BY <2>2, ResidentsKeep DEF IInv, StreamShape
  <2> QED
    BY <1>2, <2>1, <2>2
<1>8. CleanSlate'
  <2>1. ASSUME NEW u \in LiveSid'
        PROVE  session'[u].state = "Raw" <=> session'[u].myCard = NULL
    BY <1>1, <1>2, ResidentsKeep DEF IInv, CleanSlate
  <2>2. ASSUME NEW u \in Sid \ LiveSid' PROVE session'[u] = Destroyed
    BY <1>2, ArrivalEffect DEF IInv, CleanSlate
  <2>3. ASSUME NEW c \in Bev \ LiveBev' PROVE output'[c] = <<>>
    BY <1>2, ArrivalEffect DEF IInv, CleanSlate
  <2> QED
    BY <2>1, <2>2, <2>3 DEF CleanSlate
<1> QED
  BY <1>3, <1>4, <1>5, <1>6, <1>7, <1>8 DEF IInv

-----------------------------------------------------------------------------
(* Steps that leave the maps alone: a login, a binding, relayed data and an *)
(* idle period only change sessions and output.                             *)

\* The fields that a login and a binding set, and those they keep.
LEMMA LoginFields ==
  ASSUME NEW se \in SessionRecord, NEW card \in Card \cup {NULL},
         NEW bev \in Bev \cup {NULL}
  PROVE  /\ LoggedIn(se, card).state = "Login"
         /\ LoggedIn(se, card).myCard = card
         /\ LoggedIn(se, card).myBev = se.myBev
         /\ LoggedIn(se, card).peerBev = se.peerBev
         /\ LoggedIn(se, card).peerCard = se.peerCard
         /\ MatchDone(se, bev, card).state = "Bind"
         /\ MatchDone(se, bev, card).myCard = se.myCard
         /\ MatchDone(se, bev, card).myBev = se.myBev
         /\ MatchDone(se, bev, card).peerBev = bev
         /\ MatchDone(se, bev, card).peerCard = card
<1>1. /\ LoggedIn(se, card).state = "Login"
      /\ LoggedIn(se, card).myCard = card
      /\ LoggedIn(se, card).myBev = se.myBev
      /\ LoggedIn(se, card).peerBev = se.peerBev
      /\ LoggedIn(se, card).peerCard = se.peerCard
  BY DEF LoggedIn, SessionRecord
<1>2. /\ MatchDone(se, bev, card).state = "Bind"
      /\ MatchDone(se, bev, card).myCard = se.myCard
      /\ MatchDone(se, bev, card).myBev = se.myBev
      /\ MatchDone(se, bev, card).peerBev = bev
      /\ MatchDone(se, bev, card).peerCard = card
  BY DEF MatchDone, SessionRecord
<1> QED
  BY <1>1, <1>2

\* If the maps stay and every session keeps its bufferevent and stays alive or
\* dead, then the maps stay consistent.
LEMMA MapsKept ==
  ASSUME IInv, UNCHANGED <<sidCount, bsMap, fsMap, bevFd>>,
         \A u \in Sid : /\ session'[u].myBev = session[u].myBev
                        /\ session'[u].state = "Die" <=> session[u].state = "Die"
  PROVE  /\ LiveSid' = LiveSid /\ LiveBev' = LiveBev
         /\ HeapConsistent' /\ FdIndex'
<1>1. LiveSid' = LiveSid /\ LiveBev' = LiveBev
  BY DEF LiveSid, LiveBev
<1>2. HeapConsistent'
  BY <1>1 DEF IInv, HeapConsistent, LiveSid
<1>3. FdIndex'
  BY <1>1 DEF IInv, FdIndex
<1> QED
  BY <1>1, <1>2, <1>3

\* A session that a callback finds is live.
LEMMA FoundIsLive ==
  ASSUME IInv, NEW b \in Bev, NEW s \in Sid, bevFd[b] # NULL, s = find(b)
  PROVE  s \in LiveSid /\ b \in LiveBev /\ session[s].myBev = b
  BY DEF IInv, HeapConsistent, LiveBev, find

\* A login that finds nobody to match keeps the inductive invariant.
LEMMA WaitKeeps ==
  ASSUME IInv, TypeOK', NEW s \in LiveSid, NEW card \in Card,
         session[s].state = "Raw",
         session' = [session EXCEPT ![s] = LoggedIn(@, card)],
         Matching(session', s) = {},
         UNCHANGED <<sidCount, bsMap, fsMap, bevFd, output>>
  PROVE  IInv'
<1>1. s \in Sid /\ session \in [Sid -> SessionRecord]
  BY DEF LiveSid, IInv, TypeOK
<1>2. /\ session'[s].state = "Login" /\ session'[s].myCard = card
      /\ session'[s].myBev = session[s].myBev
      /\ session'[s].peerBev = session[s].peerBev
      /\ session'[s].peerCard = session[s].peerCard
  BY <1>1, LoginFields
<1>3. \A u \in Sid : u # s => session'[u] = session[u]
  BY <1>1
<1>4. /\ LiveSid' = LiveSid /\ LiveBev' = LiveBev
      /\ HeapConsistent' /\ FdIndex'
  BY <1>2, <1>3, MapsKept
<1>5. \A u \in LiveSid : getPeer(u)' = getPeer(u)
  BY <1>2, <1>3 DEF getPeer, LiveSid
<1>6. session[s].peerBev = NULL
  BY DEF IInv, PairsAreMutual
<1>7. PairsAreMutual'
  <2> SUFFICES ASSUME NEW u \in LiveSid
               PROVE  /\ session'[u].state = "Bind" <=> session'[u].peerBev # NULL
                      /\ session'[u].state = "Bind" =>
                           LET p == getPeer(u)'
                           IN  /\ p \in LiveSid' \ {u}
                               /\ session'[p].state = "Bind"
                               /\ session'[p].peerBev = session'[u].myBev
                               /\ session'[p].myCard = session'[u].peerCard
                               /\ session'[p].myCard.id = session'[u].myCard.id
                               /\ session'[p].myCard.type # session'[u].myCard.type
    BY <1>4 DEF PairsAreMutual
  <2>1. CASE u = s
    BY <1>2, <1>6, <2>1
  <2>2. CASE u # s
    <3>1. session'[u] = session[u] /\ getPeer(u)' = getPeer(u)
      BY <1>3, <1>5, <2>2 DEF LiveSid
    <3>2. CASE session[u].state = "Bind"
      <4>1. getPeer(u) \in LiveSid /\ session[getPeer(u)].state = "Bind"
        BY <3>2 DEF IInv, PairsAreMutual
      <4>2. session'[getPeer(u)] = session[getPeer(u)]
        BY <1>3, <4>1 DEF LiveSid
      <4> QED
        BY <1>4, <3>1, <3>2, <4>2 DEF IInv, PairsAreMutual
    <3>3. CASE session[u].state # "Bind"
      BY <3>1, <3>3 DEF IInv, PairsAreMutual
    <3> QED
      BY <3>2, <3>3
  <2> QED
    BY <2>1, <2>2
<1>8. NoMissedMatch'
  <2>1. ASSUME NEW u \in LiveSid, session'[u].state = "Login",
               session'[u].myCard.id = card.id
        PROVE  session'[u].myCard.type = card.type
    <3>1. CASE u = s
      BY <1>2, <3>1
    <3>2. CASE u # s
      <4>1. session[u].myBev \in Bev /\ bsMap[session[u].myBev] = u /\ u \in Sid
        BY DEF IInv, HeapConsistent, LiveBev, LiveSid
      <4>2. ~ CanMatch(session'[s], session'[u])
        BY <4>1 DEF Matching
      <4>3. /\ session'[u] = session[u]
            /\ session[u].myCard \in Card
        BY <1>3, <2>1, <3>2, <4>1 DEF IInv, CleanSlate, TypeOK, SessionRecord
      <4> QED
        BY <1>2, <2>1, <4>2, <4>3 DEF CanMatch, Card, Device, Client
    <3> QED
      BY <3>1, <3>2
  <2> SUFFICES ASSUME NEW u \in LiveSid, NEW v \in LiveSid,
                      session'[u].state = "Login", session'[v].state = "Login",
                      session'[u].myCard.id = session'[v].myCard.id
               PROVE  session'[u].myCard.type = session'[v].myCard.type
    BY <1>4 DEF NoMissedMatch
  <2>2. CASE u = s \/ v = s
    BY <1>2, <2>1, <2>2
  <2>3. CASE u # s /\ v # s
    BY <1>3, <2>3 DEF IInv, NoMissedMatch, LiveSid
  <2> QED
    BY <2>2, <2>3
<1>9. StreamShape'
  <2> SUFFICES ASSUME NEW u \in LiveSid
               PROVE  LET out == output[session'[u].myBev]
                      IN  IF session'[u].state = "Bind"
                          THEN /\ Len(out) >= 2
                               /\ out[1] = Host /\ out[2] = TelnetOk
                               /\ \A i \in 3 .. Len(out) :
                                    out[i] = Chunk(getPeer(u)')
                          ELSE out = <<Host>>
    BY <1>4 DEF StreamShape, Chunk
  <2>1. CASE u = s
    BY <1>2, <2>1 DEF IInv, StreamShape
  <2>2. CASE u # s
    BY <1>3, <1>5, <2>2 DEF IInv, StreamShape, LiveSid
  <2> QED
    BY <2>1, <2>2
<1>10. CleanSlate'
  <2>1. card # NULL
    BY SessionAssumption
  <2>2. ASSUME NEW u \in LiveSid
        PROVE  session'[u].state = "Raw" <=> session'[u].myCard = NULL
    BY <1>2, <1>3, <2>1 DEF IInv, CleanSlate, LiveSid
  <2>3. ASSUME NEW u \in Sid \ LiveSid PROVE session'[u] = Destroyed
    BY <1>3 DEF IInv, CleanSlate
  <2>4. ASSUME NEW c \in Bev \ LiveBev PROVE output'[c] = <<>>
    BY DEF IInv, CleanSlate
  <2> QED
    BY <1>4, <2>2, <2>3, <2>4 DEF CleanSlate
<1> QED
  BY <1>4, <1>7, <1>8, <1>9, <1>10 DEF IInv

\* The heap once login has succeeded on s, before match is called.
AfterLogin(s, card) == [session EXCEPT ![s] = LoggedIn(@, card)]

\* Whoever match finds for a session that just logged in is another waiting
\* session, with the complementary type and the same id; the two then hold
\* each other, and nobody else changes.
LEMMA BindEffect ==
  ASSUME IInv, NEW s \in LiveSid, NEW card \in Card, session[s].state = "Raw",
         NEW t \in Matching(AfterLogin(s, card), s),
         session' = Matched(AfterLogin(s, card), s, t)
  PROVE  /\ t \in LiveSid \ {s} /\ session[t].state = "Login"
         /\ session[t].myCard \in Card
         /\ session[t].myCard.id = card.id
         /\ session[t].myCard.type # card.type
         /\ session'[s].state = "Bind" /\ session'[t].state = "Bind"
         /\ session'[s].myBev = session[s].myBev
         /\ session'[t].myBev = session[t].myBev
         /\ session'[s].peerBev = session[t].myBev
         /\ session'[t].peerBev = session[s].myBev
         /\ session'[s].myCard = card /\ session'[s].peerCard = session[t].myCard
         /\ session'[t].myCard = session[t].myCard /\ session'[t].peerCard = card
         /\ \A u \in Sid \ {s, t} : session'[u] = session[u]
<1> DEFINE sessions == AfterLogin(s, card)
<1>1. s \in Sid /\ session \in [Sid -> SessionRecord] /\ card \in Card \cup {NULL}
  BY DEF LiveSid, IInv, TypeOK
<1>2. /\ sessions \in [Sid -> SessionRecord]
      /\ sessions[s].state = "Login" /\ sessions[s].myCard = card
      /\ sessions[s].myBev = session[s].myBev
      /\ \A u \in Sid \ {s} : sessions[u] = session[u]
  <2>1. LoggedIn(session[s], card) \in SessionRecord
    BY <1>1, SessionTypes
  <2>2. /\ LoggedIn(session[s], card).state = "Login"
        /\ LoggedIn(session[s], card).myCard = card
        /\ LoggedIn(session[s], card).myBev = session[s].myBev
    BY <1>1, LoginFields
  <2> QED
    BY <1>1, <2>1, <2>2 DEF AfterLogin
<1> HIDE DEF sessions
<1>3. t \in Sid /\ CanMatch(sessions[s], sessions[t])
      /\ \E b \in Bev : bsMap[b] = t
  BY DEF Matching, sessions
<1>4. card.type \in {Device, Client} /\ Device # Client
  BY DEF Card, Device, Client
<1>5. t # s
  BY <1>2, <1>3, <1>4 DEF CanMatch
<1>6. sessions[t] = session[t]
  BY <1>2, <1>3, <1>5
<1>7. t \in LiveSid
  <2>1. PICK b \in Bev : bsMap[b] = t
    BY <1>3
  <2>2. b \in LiveBev
    BY <1>3, <2>1, ContainerAssumption DEF IInv, HeapConsistent, LiveBev
  <2> QED
    BY <2>1, <2>2 DEF IInv, HeapConsistent
<1>8. session[t].state = "Login" /\ session[t].myCard.id = card.id
  BY <1>2, <1>3, <1>6 DEF CanMatch
<1>9. session[t].myCard \in Card
  BY <1>1, <1>3, <1>7, <1>8 DEF IInv, CleanSlate, SessionRecord
<1>10. session[t].myCard.type # card.type
  BY <1>2, <1>3, <1>4, <1>6, <1>9 DEF CanMatch, Card
<1>11. /\ session'[s] = MatchDone(sessions[s], session[t].myBev, session[t].myCard)
       /\ session'[t] = MatchDone(session[t], session[s].myBev, card)
       /\ \A u \in Sid \ {s, t} : session'[u] = session[u]
  BY <1>1, <1>2, <1>3, <1>5, <1>6 DEF Matched, sessions
<1>12. /\ sessions[s] \in SessionRecord /\ session[t] \in SessionRecord
       /\ session[t].myBev \in Bev \cup {NULL}
       /\ session[s].myBev \in Bev \cup {NULL}
       /\ session[t].myCard \in Card \cup {NULL}
  BY <1>1, <1>2, <1>3, <1>9 DEF SessionRecord
<1>13. /\ session'[s].state = "Bind" /\ session'[t].state = "Bind"
       /\ session'[s].myBev = session[s].myBev
       /\ session'[t].myBev = session[t].myBev
       /\ session'[s].peerBev = session[t].myBev
       /\ session'[t].peerBev = session[s].myBev
       /\ session'[s].myCard = card /\ session'[s].peerCard = session[t].myCard
       /\ session'[t].myCard = session[t].myCard /\ session'[t].peerCard = card
  <2>1. /\ session'[s].state = "Bind" /\ session'[s].myCard = card
        /\ session'[s].myBev = session[s].myBev
        /\ session'[s].peerBev = session[t].myBev
        /\ session'[s].peerCard = session[t].myCard
    BY <1>2, <1>11, <1>12, LoginFields
  <2>2. /\ session'[t].state = "Bind" /\ session'[t].myCard = session[t].myCard
        /\ session'[t].myBev = session[t].myBev
        /\ session'[t].peerBev = session[s].myBev
        /\ session'[t].peerCard = card
    BY <1>1, <1>11, <1>12, LoginFields
  <2> QED
    BY <2>1, <2>2
<1> QED
  BY <1>5, <1>7, <1>8, <1>9, <1>10, <1>11, <1>13

\* What a second write makes of a buffer that was written once.
LEMMA TwoWrites ==
  ASSUME NEW out, out = Append(<<Host>>, TelnetOk), NEW p
  PROVE  /\ Len(out) >= 2
         /\ out[1] = Host /\ out[2] = TelnetOk
         /\ \A i \in 3 .. Len(out) : out[i] = Chunk(p)
<1>1. ASSUME NEW x, NEW y
      PROVE  LET o == Append(<<x>>, y)
             IN  Len(o) = 2 /\ o[1] = x /\ o[2] = y
  OBVIOUS
<1>2. Len(out) = 2 /\ out[1] = Host /\ out[2] = TelnetOk
  BY <1>1, Zenon
<1> QED
  BY <1>2

\* A login that finds a match keeps the inductive invariant.
LEMMA BindKeeps ==
  ASSUME IInv, TypeOK', NEW s \in LiveSid, NEW card \in Card,
         session[s].state = "Raw",
         NEW t \in Matching(AfterLogin(s, card), s),
         session' = Matched(AfterLogin(s, card), s, t),
         output' = [c \in Bev |-> IF c \in {session'[s].myBev, session'[s].peerBev}
                                  THEN Append(output[c], TelnetOk)
                                  ELSE output[c]],
         UNCHANGED <<sidCount, bsMap, fsMap, bevFd>>
  PROVE  IInv'
<1>1. /\ t \in LiveSid \ {s} /\ session[t].state = "Login"
      /\ session[t].myCard \in Card
      /\ session[t].myCard.id = card.id
      /\ session[t].myCard.type # card.type
      /\ session'[s].state = "Bind" /\ session'[t].state = "Bind"
      /\ session'[s].myBev = session[s].myBev
      /\ session'[t].myBev = session[t].myBev
      /\ session'[s].peerBev = session[t].myBev
      /\ session'[t].peerBev = session[s].myBev
      /\ session'[s].myCard = card /\ session'[s].peerCard = session[t].myCard
      /\ session'[t].myCard = session[t].myCard /\ session'[t].peerCard = card
      /\ \A u \in Sid \ {s, t} : session'[u] = session[u]
  BY BindEffect
<1>2. /\ LiveSid' = LiveSid /\ LiveBev' = LiveBev
      /\ HeapConsistent' /\ FdIndex'
  BY <1>1, MapsKept DEF LiveSid
<1>3. \A u \in LiveSid : /\ u \in Sid
                         /\ session[u].myBev \in LiveBev
                         /\ session[u].myBev \in Bev /\ session[u].myBev # NULL
                         /\ bsMap[session[u].myBev] = u
  BY SessionAssumption DEF IInv, HeapConsistent, LiveBev, LiveSid
<1>4. getPeer(s)' = t /\ getPeer(t)' = s
  BY <1>1, <1>3 DEF getPeer
<1>5. \A u \in LiveSid \ {s, t} :
        /\ session'[u] = session[u] /\ getPeer(u)' = getPeer(u)
        /\ output'[session[u].myBev] = output[session[u].myBev]
  <2> SUFFICES ASSUME NEW u \in LiveSid \ {s, t}
               PROVE  /\ session'[u] = session[u] /\ getPeer(u)' = getPeer(u)
                      /\ output'[session[u].myBev] = output[session[u].myBev]
    OBVIOUS
  <2>1. session'[u] = session[u]
    BY <1>1, <1>3
  <2>2. getPeer(u)' = getPeer(u)
    BY <2>1 DEF getPeer
  <2>3. session[u].myBev # session[s].myBev /\ session[u].myBev # session[t].myBev
    BY <1>1, <1>3
  <2>4. session[u].myBev \notin {session'[s].myBev, session'[s].peerBev}
    BY <1>1, <2>3
  <2> QED
    BY <1>3, <2>1, <2>2, <2>4
<1>6. PairsAreMutual'
  <2> SUFFICES ASSUME NEW u \in LiveSid
               PROVE  /\ session'[u].state = "Bind" <=> session'[u].peerBev # NULL
                      /\ session'[u].state = "Bind" =>
                           LET p == getPeer(u)'
                           IN  /\ p \in LiveSid \ {u}
                               /\ session'[p].state = "Bind"
                               /\ session'[p].peerBev = session'[u].myBev
                               /\ session'[p].myCard = session'[u].peerCard
                               /\ session'[p].myCard.id = session'[u].myCard.id
                               /\ session'[p].myCard.type # session'[u].myCard.type
    BY <1>2 DEF PairsAreMutual
  <2>1. CASE u = s
    BY <1>1, <1>3, <1>4, <2>1
  <2>2. CASE u = t
    BY <1>1, <1>3, <1>4, <2>2
  <2>3. CASE u \notin {s, t}
    <3>1. session'[u] = session[u] /\ getPeer(u)' = getPeer(u)
      BY <1>5, <2>3
    <3>2. CASE session[u].state = "Bind"
      <4>1. getPeer(u) \in LiveSid /\ session[getPeer(u)].state = "Bind"
        BY <3>2 DEF IInv, PairsAreMutual
      <4>2. getPeer(u) \notin {s, t}
        BY <1>1, <4>1
      <4>3. session'[getPeer(u)] = session[getPeer(u)]
        BY <1>5, <4>1, <4>2
      <4> QED
        BY <3>1, <3>2, <4>3 DEF IInv, PairsAreMutual
    <3>3. CASE session[u].state # "Bind"
      BY <3>1, <3>3 DEF IInv, PairsAreMutual
    <3> QED
      BY <3>2, <3>3
  <2> QED
    BY <2>1, <2>2, <2>3
<1>7. NoMissedMatch'
  <2>1. \A u \in LiveSid' : session'[u].state = "Login"
                             => u \in LiveSid /\ session'[u] = session[u]
    BY <1>1, <1>2, <1>5
  <2> QED
    BY <2>1 DEF IInv, NoMissedMatch
<1>8. StreamShape'
  <2> SUFFICES ASSUME NEW u \in LiveSid
               PROVE  LET out == output'[session'[u].myBev]
                      IN  IF session'[u].state = "Bind"
                          THEN /\ Len(out) >= 2
                               /\ out[1] = Host /\ out[2] = TelnetOk
                               /\ \A i \in 3 .. Len(out) :
                                    out[i] = Chunk(getPeer(u)')
                          ELSE out = <<Host>>
    BY <1>2 DEF StreamShape, Chunk
  <2>1. CASE u \in {s, t}
    <3>1. output[session[u].myBev] = <<Host>>
      BY <1>1, <2>1 DEF IInv, StreamShape
    <3>2. session[u].myBev \in {session'[s].myBev, session'[s].peerBev}
      BY <1>1, <2>1
    <3>3. output'[session[u].myBev] = Append(output[session[u].myBev], TelnetOk)
      BY <1>3, <3>2
    <3>4. output'[session'[u].myBev] = Append(<<Host>>, TelnetOk)
      BY <1>1, <2>1, <3>1, <3>3
    <3>5. session'[u].state = "Bind"
      BY <1>1, <2>1
    <3> QED
      BY <3>4, <3>5, TwoWrites, Zenon
  <2>2. CASE u \notin {s, t}
    <3>1. /\ session'[u] = session[u] /\ getPeer(u)' = getPeer(u)
          /\ output'[session[u].myBev] = output[session[u].myBev]
      BY <1>5, <2>2
    <3> QED
      BY <3>1 DEF IInv, StreamShape
  <2> QED
    BY <2>1, <2>2
<1>9. CleanSlate'
  <2>1. ASSUME NEW u \in LiveSid
        PROVE  session'[u].state = "Raw" <=> session'[u].myCard = NULL
    <3>1. card # NULL /\ session[t].myCard # NULL
      BY <1>1, SessionAssumption
    <3>2. CASE u \in {s, t}
      BY <1>1, <3>1, <3>2
    <3>3. CASE u \notin {s, t}
      BY <1>5, <3>3 DEF IInv, CleanSlate
    <3> QED
      BY <3>2, <3>3
  <2>2. ASSUME NEW u \in Sid \ LiveSid PROVE session'[u] = Destroyed
    BY <1>1 DEF IInv, CleanSlate
  <2>3. ASSUME NEW c \in Bev \ LiveBev PROVE output'[c] = <<>>
    BY <1>1, <1>3 DEF IInv, CleanSlate
  <2> QED
    BY <1>2, <2>1, <2>2, <2>3 DEF CleanSlate
<1> QED
  BY <1>2, <1>6, <1>7, <1>8, <1>9 DEF IInv

\* A step that at most changes idle times keeps all of the inductive invariant
\* that does not speak of output.
LEMMA IdleTimesDontMatter ==
  ASSUME IInv, UNCHANGED <<sidCount, bsMap, fsMap, bevFd>>,
         \A u \in Sid : /\ session'[u].state = session[u].state
                        /\ session'[u].myBev = session[u].myBev
                        /\ session'[u].myCard = session[u].myCard
                        /\ session'[u].peerBev = session[u].peerBev
                        /\ session'[u].peerCard = session[u].peerCard,
         \A u \in Sid \ LiveSid : session'[u] = session[u]
  PROVE  /\ LiveSid' = LiveSid /\ LiveBev' = LiveBev
         /\ \A u \in LiveSid : getPeer(u)' = getPeer(u)
         /\ HeapConsistent' /\ FdIndex' /\ PairsAreMutual' /\ NoMissedMatch'
         /\ \A u \in LiveSid' :
              session'[u].state = "Raw" <=> session'[u].myCard = NULL
         /\ \A u \in Sid \ LiveSid' : session'[u] = Destroyed
<1>1. /\ LiveSid' = LiveSid /\ LiveBev' = LiveBev
      /\ HeapConsistent' /\ FdIndex'
  BY MapsKept
<1>2. \A u \in LiveSid : u \in Sid /\ getPeer(u)' = getPeer(u)
  BY DEF getPeer, LiveSid
<1>3. PairsAreMutual'
  <2> SUFFICES ASSUME NEW u \in LiveSid
               PROVE  /\ session'[u].state = "Bind" <=> session'[u].peerBev # NULL
                      /\ session'[u].state = "Bind" =>
                           LET p == getPeer(u)'
                           IN  /\ p \in LiveSid \ {u}
                               /\ session'[p].state = "Bind"
                               /\ session'[p].peerBev = session'[u].myBev
                               /\ session'[p].myCard = session'[u].peerCard
                               /\ session'[p].myCard.id = session'[u].myCard.id
                               /\ session'[p].myCard.type # session'[u].myCard.type
    BY <1>1 DEF PairsAreMutual
  <2>1. session[u].state = "Bind" => getPeer(u) \in Sid
    BY DEF IInv, PairsAreMutual, LiveSid
  <2> QED
    BY <1>2, <2>1 DEF IInv, PairsAreMutual
<1>4. NoMissedMatch'
  BY <1>1, <1>2 DEF IInv, NoMissedMatch
<1>5. \A u \in LiveSid :
        session'[u].state = "Raw" <=> session'[u].myCard = NULL
  BY <1>2 DEF IInv, CleanSlate
<1>6. \A u \in Sid \ LiveSid : session'[u] = Destroyed
  BY DEF IInv, CleanSlate
<1> QED
  BY <1>1, <1>2, <1>3, <1>4, <1>5, <1>6

\* Relayed data keeps the inductive invariant.
LEMMA RelayKeeps ==
  ASSUME IInv, TypeOK', NEW b \in Bev, NEW s \in Sid, Business(b, s)
  PROVE  IInv'
<1> DEFINE p == getPeer(s)
<1>1. /\ s \in LiveSid /\ session[s].state = "Bind"
      /\ session' = [session EXCEPT ![s] = Touched(@)]
      /\ output' = [output EXCEPT ![session[s].peerBev] = Append(@, Chunk(s))]
      /\ UNCHANGED <<sidCount, bsMap, fsMap, bevFd>>
  BY FoundIsLive DEF Business, Readable
<1>2. session \in [Sid -> SessionRecord] /\ output \in [Bev -> Seq(Output)]
  BY DEF IInv, TypeOK
<1>3. /\ session[s].peerBev # NULL
      /\ session[s].peerBev \in LiveBev /\ session[s].peerBev \in Bev
      /\ p \in LiveSid /\ session[p].myBev = session[s].peerBev
      /\ session[p].peerBev = session[s].myBev
      /\ session[p].state = "Bind"
      /\ bsMap[session[s].peerBev] = p
  <2>1. session[s].peerBev # NULL
    BY <1>1 DEF IInv, PairsAreMutual
  <2> QED
    BY <1>1, <2>1, PeerIsLive DEF LiveBev
<1>4. getPeer(p) = s
  <2>1. session[s].myBev # NULL /\ bsMap[session[s].myBev] = s
    BY <1>1, SessionAssumption DEF IInv, HeapConsistent, LiveBev
  <2> QED
    BY <1>3, <2>1 DEF getPeer
<1>5. /\ \A u \in Sid : /\ session'[u].state = session[u].state
                        /\ session'[u].myBev = session[u].myBev
                        /\ session'[u].myCard = session[u].myCard
                        /\ session'[u].peerBev = session[u].peerBev
                        /\ session'[u].peerCard = session[u].peerCard
      /\ \A u \in Sid \ LiveSid : session'[u] = session[u]
  BY <1>1, <1>2 DEF Touched, SessionRecord
<1>6. /\ LiveSid' = LiveSid /\ LiveBev' = LiveBev
      /\ \A u \in LiveSid : getPeer(u)' = getPeer(u)
      /\ HeapConsistent' /\ FdIndex' /\ PairsAreMutual' /\ NoMissedMatch'
      /\ \A u \in LiveSid' :
           session'[u].state = "Raw" <=> session'[u].myCard = NULL
      /\ \A u \in Sid \ LiveSid' : session'[u] = Destroyed
  BY <1>1, <1>5, IdleTimesDontMatter
<1>7. StreamShape'
  <2> SUFFICES ASSUME NEW u \in LiveSid
               PROVE  LET out == output'[session'[u].myBev]
                      IN  IF session'[u].state = "Bind"
                          THEN /\ Len(out) >= 2
                               /\ out[1] = Host /\ out[2] = TelnetOk
                               /\ \A i \in 3 .. Len(out) :
                                    out[i] = Chunk(getPeer(u)')
                          ELSE out = <<Host>>
    BY <1>6 DEF StreamShape, Chunk
  <2>1. /\ u \in Sid /\ session'[u].state = session[u].state
        /\ session'[u].myBev = session[u].myBev
        /\ getPeer(u)' = getPeer(u)
    BY <1>5, <1>6 DEF LiveSid
  <2>2. CASE u = p
    <3> DEFINE before == output[session[p].myBev]
               after  == Append(before, Chunk(s))
    <3>1. output'[session'[u].myBev] = after
      BY <1>1, <1>2, <1>3, <2>1, <2>2
    <3>2. /\ before \in Seq(Output) /\ Chunk(s) \in Output
          /\ Len(before) >= 2 /\ before[1] = Host /\ before[2] = TelnetOk
          /\ \A i \in 3 .. Len(before) : before[i] = Chunk(s)
      BY <1>2, <1>3, <1>4, OutputTypes DEF IInv, StreamShape
    <3>3. /\ Len(after) >= 2 /\ after[1] = Host /\ after[2] = TelnetOk
          /\ \A i \in 3 .. Len(after) : after[i] = Chunk(s)
      <4> HIDE DEF before
      <4> QED
        BY <3>2
    <3> QED
      BY <1>3, <1>4, <2>1, <2>2, <3>1, <3>3
  <2>3. CASE u # p
    <3>1. session[u].myBev # session[s].peerBev
      BY <1>3, <2>3 DEF IInv, HeapConsistent
    <3>2. output'[session[u].myBev] = output[session[u].myBev]
      <4>1. session[u].myBev \in Bev
        BY DEF IInv, HeapConsistent, LiveBev
      <4> QED
        BY <1>1, <1>2, <3>1, <4>1
    <3> QED
      BY <2>1, <3>2 DEF IInv, StreamShape
  <2> QED
    BY <2>2, <2>3
<1>8. CleanSlate'
  <2>1. ASSUME NEW c \in Bev \ LiveBev PROVE output'[c] = <<>>
    BY <1>1, <1>2, <1>3 DEF IInv, CleanSlate
  <2> QED
    BY <1>6, <2>1 DEF CleanSlate
<1> QED
  BY <1>6, <1>7, <1>8 DEF IInv

\* An idle period that does not yet close the connection keeps the invariant.
LEMMA IdleKeeps ==
  ASSUME IInv, TypeOK', NEW s \in LiveSid,
         session' = [session EXCEPT ![s] = Idled(session[s], Interval)],
         UNCHANGED <<sidCount, bsMap, fsMap, bevFd, output>>
  PROVE  IInv'
<1>1. s \in Sid /\ session \in [Sid -> SessionRecord]
  BY DEF LiveSid, IInv, TypeOK
<1>2. /\ \A u \in Sid : /\ session'[u].state = session[u].state
                        /\ session'[u].myBev = session[u].myBev
                        /\ session'[u].myCard = session[u].myCard
                        /\ session'[u].peerBev = session[u].peerBev
                        /\ session'[u].peerCard = session[u].peerCard
      /\ \A u \in Sid \ LiveSid : session'[u] = session[u]
  BY <1>1 DEF Idled, SessionRecord
<1>3. /\ LiveSid' = LiveSid /\ LiveBev' = LiveBev
      /\ \A u \in LiveSid : getPeer(u)' = getPeer(u)
      /\ HeapConsistent' /\ FdIndex' /\ PairsAreMutual' /\ NoMissedMatch'
      /\ \A u \in LiveSid' :
           session'[u].state = "Raw" <=> session'[u].myCard = NULL
      /\ \A u \in Sid \ LiveSid' : session'[u] = Destroyed
  BY <1>2, IdleTimesDontMatter
<1>4. StreamShape'
  <2>1. \A u \in LiveSid : u \in Sid
    BY DEF LiveSid
  <2> QED
    BY <1>2, <1>3, <2>1 DEF IInv, StreamShape, Chunk
<1>5. CleanSlate'
  BY <1>3 DEF IInv, CleanSlate
<1> QED
  BY <1>3, <1>4, <1>5 DEF IInv

-----------------------------------------------------------------------------
(* The inductive invariant and what follows from it. *)

\* The inductive invariant holds initially.
LEMMA InitIInv == Init => IInv
<1> SUFFICES ASSUME Init PROVE IInv
  OBVIOUS
<1>1. TypeOK
  BY InitTypeOK
<1>2. LiveSid = {} /\ LiveBev = {}
  BY DEF Init, InitContainer, LiveSid, LiveBev, Destroyed
<1>3. HeapConsistent /\ PairsAreMutual /\ NoMissedMatch /\ StreamShape
  BY <1>2
     DEF Init, InitContainer, HeapConsistent, PairsAreMutual, NoMissedMatch,
         StreamShape
<1>4. FdIndex
  BY <1>2, ContainerAssumption DEF Init, InitContainer, FdIndex
<1>5. CleanSlate
  BY <1>2 DEF Init, InitContainer, CleanSlate
<1> QED
  BY <1>1, <1>3, <1>4, <1>5 DEF IInv

\* Every step keeps the inductive invariant.
LEMMA NextIInv == IInv /\ [Next]_vars => IInv'
<1> SUFFICES ASSUME IInv, [Next]_vars PROVE IInv'
  OBVIOUS
<1>1. TypeOK'
  BY NextTypeOK DEF IInv
<1>2. ASSUME UNCHANGED <<session, sidCount, bsMap, fsMap, bevFd, output>>
      PROVE  IInv'
  <2>1. LiveSid' = LiveSid /\ LiveBev' = LiveBev
    BY <1>2 DEF LiveSid, LiveBev
  <2>2. \A u \in Sid : getPeer(u)' = getPeer(u)
    BY <1>2 DEF getPeer
  <2>3. HeapConsistent' /\ FdIndex' /\ NoMissedMatch' /\ CleanSlate'
    BY <1>2, <2>1 DEF IInv, HeapConsistent, FdIndex, NoMissedMatch, CleanSlate
  <2>4. PairsAreMutual' /\ StreamShape'
    BY <1>2, <2>1, <2>2 DEF IInv, PairsAreMutual, StreamShape, LiveSid, Chunk
  <2> QED
    BY <1>1, <2>3, <2>4 DEF IInv
<1>3. ASSUME NEW s \in Sid, RemoteCloses(s) \/ RemoteFallsSilent(s)
      PROVE  IInv'
  BY <1>2, <1>3 DEF RemoteCloses, RemoteFallsSilent
<1>4. ASSUME NEW b \in Bev, NEW fd \in Fd, listener_cb(b, fd)
      PROVE  IInv'
  BY <1>1, <1>4, ArrivalKeeps
<1>5. CASE listener_cb_fails
  BY <1>2, <1>5 DEF listener_cb_fails
<1>6. ASSUME NEW b \in Bev, NEW s \in Sid, NEW card \in Card, Login(b, s, card)
      PROVE  IInv'
  <2>1. s \in LiveSid /\ session[s].state = "Raw"
    BY <1>6, FoundIsLive DEF Login, Readable
  <2>2. UNCHANGED <<sidCount, bsMap, fsMap, bevFd>>
    BY <1>6 DEF Login
  <2>3. CASE /\ Matching(AfterLogin(s, card), s) = {}
             /\ session' = AfterLogin(s, card)
             /\ UNCHANGED output
    BY <1>1, <2>1, <2>2, <2>3, WaitKeeps DEF AfterLogin
  <2>4. ASSUME NEW t \in Matching(AfterLogin(s, card), s),
               session' = Matched(AfterLogin(s, card), s, t),
               output' = [c \in Bev |->
                            IF c \in {session'[s].myBev, session'[s].peerBev}
                            THEN Append(output[c], TelnetOk)
                            ELSE output[c]]
        PROVE  IInv'
    BY <1>1, <2>1, <2>2, <2>4, BindKeeps
  <2> QED
    BY <1>6, <2>3, <2>4 DEF Login, AfterLogin
<1>7. ASSUME NEW b \in Bev, NEW s \in Sid, Discard(b, s)
      PROVE  IInv'
  BY <1>2, <1>7 DEF Discard, vars
<1>8. ASSUME NEW b \in Bev, NEW s \in Sid, Business(b, s)
      PROVE  IInv'
  BY <1>1, <1>8, RelayKeeps
<1>9. ASSUME NEW b \in Bev, NEW s \in Sid, Hangup(b, s)
      PROVE  IInv'
  <2>1. b \in LiveBev /\ removeSession(b)
    BY <1>9, FoundIsLive DEF Hangup
  <2> QED
    BY <1>1, <2>1, RemovalKeeps
<1>10. ASSUME NEW b \in Bev, NEW s \in Sid, Timeout(b, s)
       PROVE  IInv'
  <2>1. b \in LiveBev /\ s \in LiveSid
    BY <1>10, FoundIsLive DEF Timeout
  <2>2. CASE removeSession(b)
    BY <1>1, <2>1, <2>2, RemovalKeeps
  <2>3. CASE /\ session' = [session EXCEPT ![s] = Idled(session[s], Interval)]
             /\ UNCHANGED <<sidCount, bsMap, fsMap, bevFd, output>>
    BY <1>1, <2>1, <2>3, IdleKeeps
  <2> QED
    BY <1>10, <2>2, <2>3 DEF Timeout
<1>11. CASE UNCHANGED vars
  BY <1>2, <1>11 DEF vars
<1> QED
  BY <1>3, <1>4, <1>5, <1>6, <1>7, <1>8, <1>9, <1>10, <1>11 DEF Next

\* The conjunction of all the invariants holds in every reachable state.
THEOREM Invariance == Spec => []IInv
  BY InitIInv, NextIInv, PTL DEF Spec

\* No callback ever meets a dangling pointer, and nothing is leaked: the keys
\* of m_bsMap are the live bufferevents, mapped to the live sessions.
THEOREM NoDanglingPointers == Spec => []HeapConsistent
<1>1. IInv => HeapConsistent
  BY DEF IInv
<1> QED
  BY <1>1, Invariance, PTL

\* m_fsMap never holds a descriptor for longer than its session lives.
THEOREM FdIndexCorrect == Spec => []FdIndex
<1>1. IInv => FdIndex
  BY DEF IInv
<1> QED
  BY <1>1, Invariance, PTL

\* Bound sessions always come in pairs that hold each other.
THEOREM MutualPairs == Spec => []PairsAreMutual
<1>1. IInv => PairsAreMutual
  BY DEF IInv
<1> QED
  BY <1>1, Invariance, PTL

\* A device and a client with the same id never wait side by side.
THEOREM NobodyMissed == Spec => []NoMissedMatch
<1>1. IInv => NoMissedMatch
  BY DEF IInv
<1> QED
  BY <1>1, Invariance, PTL

\* A remote end only ever receives the greeting, the confirmation and what its
\* own peer sent.
THEOREM Isolation == Spec => []StreamShape
<1>1. IInv => StreamShape
  BY DEF IInv
<1> QED
  BY <1>1, Invariance, PTL

\* A session has a card exactly when it has logged in, and neither a deleted
\* session nor a freed bufferevent passes anything on to whoever reuses it.
THEOREM NothingLeftBehind == Spec => []CleanSlate
<1>1. IInv => CleanSlate
  BY DEF IInv
<1> QED
  BY <1>1, Invariance, PTL

-----------------------------------------------------------------------------
(* A binding is for life. *)

\* A removal takes both ends of a pair or neither.
LEMMA PairsFallTogether ==
  ASSUME IInv, NEW b \in LiveBev, NEW s \in LiveSid, session[s].state = "Bind"
  PROVE  s \in Dead(b) <=> getPeer(s) \in Dead(b)
<1> DEFINE p == getPeer(s)
<1>1. /\ session[s].peerBev # NULL
      /\ p \in LiveSid /\ session[p].myBev = session[s].peerBev
      /\ session[p].peerBev = session[s].myBev
  <2>1. session[s].peerBev # NULL
    BY DEF IInv, PairsAreMutual
  <2> QED
    BY <2>1, PeerIsLive
<1>2. s \notin Dead(b) => p \notin Dead(b)
  BY <1>1, GoneIsLive
<1>3. p \notin Dead(b) => s \notin Dead(b)
  BY <1>1, GoneIsLive
<1> QED
  BY <1>2, <1>3

\* A bound session stays bound to the same peer until both are destroyed in
\* the same step.
THEOREM BindingIsForLife == Spec => PairForLife
<1>1. ASSUME IInv, IInv', [Next]_vars, NEW s \in LiveSid,
             session[s].state = "Bind"
      PROVE  LET p == getPeer(s)
             IN  \/ s \notin LiveSid' /\ p \notin LiveSid'
                 \/ /\ {s, p} \subseteq LiveSid'
                    /\ session'[s].state = "Bind"
                    /\ getPeer(s)' = p
  <2> DEFINE p == getPeer(s)
             Kept == /\ {s, p} \subseteq LiveSid'
                     /\ session'[s].state = "Bind"
                     /\ getPeer(s)' = p
  <2>1. /\ s \in Sid /\ p \in LiveSid /\ p \in Sid
        /\ session[p].state = "Bind"
    BY <1>1 DEF IInv, PairsAreMutual, LiveSid
  <2>2. ASSUME UNCHANGED <<sidCount, bsMap>>,
               \A u \in {s, p} : /\ session'[u].state = session[u].state
                                 /\ session'[u].peerBev = session[u].peerBev
        PROVE  Kept
    BY <1>1, <2>1, <2>2 DEF LiveSid, getPeer
  <2>3. ASSUME NEW b \in Bev, b \in LiveBev, removeSession(b)
        PROVE  Kept \/ (s \notin LiveSid' /\ p \notin LiveSid')
    <3>1. LiveSid' = LiveSid \ Dead(b)
      BY <1>1, <2>3, RemovalEffect
    <3>2. s \in Dead(b) <=> p \in Dead(b)
      BY <1>1, <2>3, PairsFallTogether
    <3>3. CASE s \in LiveSid'
      BY <1>1, <2>1, <2>3, <3>1, <3>2, <3>3, SurvivorsKeep
    <3>4. CASE s \notin LiveSid'
      BY <1>1, <2>1, <3>1, <3>2, <3>4
    <3> QED
      BY <3>3, <3>4
  <2>4. ASSUME NEW u \in Sid, RemoteCloses(u) \/ RemoteFallsSilent(u)
        PROVE  Kept
    BY <2>2, <2>4 DEF RemoteCloses, RemoteFallsSilent
  <2>5. ASSUME NEW b \in Bev, NEW fd \in Fd, listener_cb(b, fd)
        PROVE  Kept
    <3>1. LiveSid' = LiveSid \cup {sidCount}
      BY <1>1, <2>5, ArrivalEffect
    <3>2. session'[s] = session[s] /\ getPeer(s)' = p
      BY <1>1, <2>5, ResidentsKeep
    <3> QED
      BY <1>1, <2>1, <3>1, <3>2
  <2>6. CASE listener_cb_fails
    BY <2>2, <2>6 DEF listener_cb_fails
  <2>7. ASSUME NEW b \in Bev, NEW u \in Sid, NEW card \in Card, Login(b, u, card)
        PROVE  Kept
    <3>1. u \in LiveSid /\ session[u].state = "Raw" /\ UNCHANGED <<sidCount, bsMap>>
      BY <1>1, <2>7, FoundIsLive DEF Login, Readable
    <3>2. u \notin {s, p}
      BY <1>1, <2>1, <3>1
    <3>3. CASE session' = AfterLogin(u, card)
      BY <1>1, <2>1, <2>2, <3>1, <3>2, <3>3 DEF AfterLogin, IInv, TypeOK
    <3>4. ASSUME NEW t \in Matching(AfterLogin(u, card), u),
                 session' = Matched(AfterLogin(u, card), u, t)
          PROVE  Kept
      <4>1. session[t].state = "Login"
            /\ \A v \in Sid \ {u, t} : session'[v] = session[v]
        BY <1>1, <3>1, <3>4, BindEffect
      <4> QED
        BY <1>1, <2>1, <2>2, <3>1, <3>2, <4>1
    <3> QED
      BY <2>7, <3>3, <3>4 DEF Login, AfterLogin
  <2>8. ASSUME NEW b \in Bev, NEW u \in Sid, Discard(b, u)
        PROVE  Kept
    BY <2>2, <2>8 DEF Discard, vars
  <2>9. ASSUME NEW b \in Bev, NEW u \in Sid, Business(b, u)
        PROVE  Kept
    <3>1. session' = [session EXCEPT ![u] = Touched(@)]
          /\ UNCHANGED <<sidCount, bsMap>>
      BY <2>9 DEF Business
    <3>2. \A v \in {s, p} : /\ session'[v].state = session[v].state
                            /\ session'[v].peerBev = session[v].peerBev
      BY <1>1, <2>1, <3>1 DEF Touched, IInv, TypeOK, SessionRecord
    <3> QED
      BY <2>2, <3>1, <3>2
  <2>10. ASSUME NEW b \in Bev, NEW u \in Sid, Hangup(b, u)
         PROVE  Kept \/ (s \notin LiveSid' /\ p \notin LiveSid')
    BY <1>1, <2>3, <2>10, FoundIsLive DEF Hangup
  <2>11. ASSUME NEW b \in Bev, NEW u \in Sid, Timeout(b, u)
         PROVE  Kept \/ (s \notin LiveSid' /\ p \notin LiveSid')
    <3>1. b \in LiveBev
      BY <1>1, <2>11, FoundIsLive DEF Timeout
    <3>2. CASE removeSession(b)
      BY <2>3, <3>1, <3>2
    <3>3. CASE /\ session' = [session EXCEPT ![u] = Idled(session[u], Interval)]
               /\ UNCHANGED <<sidCount, bsMap>>
      <4>1. \A v \in {s, p} : /\ session'[v].state = session[v].state
                              /\ session'[v].peerBev = session[v].peerBev
        BY <1>1, <2>1, <3>3 DEF Idled, IInv, TypeOK, SessionRecord
      <4> QED
        BY <2>2, <3>3, <4>1
    <3> QED
      BY <2>11, <3>2, <3>3 DEF Timeout
  <2>12. CASE UNCHANGED vars
    BY <2>2, <2>12 DEF vars
  <2> QED
    BY <1>1, <2>4, <2>5, <2>6, <2>7, <2>8, <2>9, <2>10, <2>11, <2>12 DEF Next
<1>2. IInv /\ IInv' /\ [Next]_vars =>
        [\A s \in LiveSid :
           session[s].state = "Bind" =>
             LET p == getPeer(s)
             IN  \/ s \notin LiveSid' /\ p \notin LiveSid'
                 \/ /\ {s, p} \subseteq LiveSid'
                    /\ session'[s].state = "Bind"
                    /\ getPeer(s)' = p]_vars
  BY <1>1
<1> QED
  BY <1>2, Invariance, PTL DEF Spec, PairForLife
=============================================================================
