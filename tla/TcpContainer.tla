---------------------------- MODULE TcpContainer ----------------------------
(***************************************************************************)
(* The class TcpContainer of container.h / container.cpp: the maps from    *)
(* bufferevents and from socket descriptors to sessions, and the heap they *)
(* point into.                                                             *)
(*                                                                         *)
(* Pointers are modelled as addresses.  A bufferevent is an address in Bev *)
(* that malloc hands out again once it has been freed, so a pointer kept   *)
(* for too long may come to name another connection's bufferevent.  A      *)
(* Session object is named by its m_sid, which the constructor never gives *)
(* out twice.  The server is single-threaded (one libevent loop), so m_mut *)
(* is never contended and each operation below is one atomic step.         *)
(***************************************************************************)
EXTENDS Session, Sequences

CONSTANTS
  Fd,      \* socket descriptors the kernel can return from accept
  MaxSid   \* bound: how many connections are accepted in a behaviour

Sid == 1 .. MaxSid

\* Descriptor 0 is never a connection: stdin or, when the process starts with
\* stdin closed, the event base made before any connection occupies it.
ASSUME ContainerAssumption ==
  /\ MaxSid \in Nat
  /\ Fd \subseteq Nat \ {0}
  /\ NULL \notin Sid
  /\ NULL \notin Fd

VARIABLES
  session,    \* session[s]: the Session object whose m_sid is s
  sidCount,   \* Session::m_sidCount, the m_sid of the next session
  bsMap,      \* m_bsMap: bufferevent -> session, NULL where there is no key
  fsMap,      \* m_fsMap: descriptor -> session, NULL where there is no key
  bevFd,      \* the descriptor of each live bufferevent, NULL if not allocated
  output      \* all that bufferevent_write has been given for a bufferevent

containerVars == <<session, sidCount, bsMap, fsMap, bevFd, output>>

LiveBev == {b \in Bev : bevFd[b] # NULL}
LiveSid == {s \in Sid : s < sidCount /\ session[s].state # "Die"}

\* What the server writes: the configured host name on accept, TELPROXY_OK to
\* both ends of a new pair, and the chunks it relays, named by their sender.
Host == [kind |-> "host", from |-> NULL]
TelnetOk == [kind |-> "ok", from |-> NULL]
Chunk(s) == [kind |-> "data", from |-> s]
Output == {Host, TelnetOk} \cup {Chunk(s) : s \in Sid}

InitContainer ==
  /\ session = [s \in Sid |-> Destroyed]
  /\ sidCount = 1
  /\ bsMap = [b \in Bev |-> NULL]
  /\ fsMap = [f \in Fd |-> NULL]
  /\ bevFd = [b \in Bev |-> NULL]
  /\ output = [b \in Bev |-> <<>>]

find(bev) == bsMap[bev]

\* getPeer(se): the session of se's peer, NULL while it has none.
getPeer(s) ==
  IF session[s].peerBev = NULL THEN NULL ELSE bsMap[session[s].peerBev]

\* insert(bev, se).  std::map::insert leaves an existing key alone.
insert(bev, fd, s) ==
  /\ bsMap' = [bsMap EXCEPT ![bev] = IF @ = NULL THEN s ELSE @]
  /\ fsMap' = [fsMap EXCEPT ![fd] = IF @ = NULL THEN s ELSE @]

\* match(se) walks m_bsMap in address order and stops at the first session
\* that binds; any order of addresses is possible, so any match may be taken.
\* sessions is the heap after login() has updated s.
Matching(sessions, s) ==
  {t \in Sid : /\ \E b \in Bev : bsMap[b] = t
               /\ CanMatch(sessions[s], sessions[t])}

Matched(sessions, s, t) ==
  [sessions EXCEPT
     ![s] = MatchDone(@, sessions[t].myBev, sessions[t].myCard),
     ![t] = MatchDone(@, sessions[s].myBev, sessions[s].myCard)]

\* Mutants of PairOf: a removal that forgets the peer, and one that skips
\* connections without a peer.
PairOfForgetsPeer(bev) == {bev}
PairOfBoundOnly(bev) ==
  IF getPeer(bsMap[bev]) = NULL
  THEN {} ELSE {bev, session[bsMap[bev]].peerBev}

\* The bufferevents that removeSession(bev) takes down: bev and, if its session
\* has one, the peer.
PairOf(bev) ==
  {bev, IF bsMap[bev] = NULL THEN NULL ELSE session[bsMap[bev]].peerBev} \ {NULL}

\* Mutant of SessionsOf: delete is forgotten.
SessionsOfNone(gone) == {}

\* The sessions it deletes.
SessionsOf(gone) == {bsMap[b] : b \in gone} \ {NULL}

\* Mutant of FdsOf: the descriptors stay in m_fsMap.
FdsOfNone(gone) == {}

\* The keys it erases from m_fsMap.
FdsOf(gone) == {fd \in {bevFd[b] : b \in gone} : fd > 0}

\* removeSession(bev): the session of bev and the session of its peer are
\* deleted, each freeing its own bufferevent, and unmapped; a bufferevent that
\* has no session is freed itself.
removeSession(bev) ==
  LET gone  == PairOf(bev)
      dead  == SessionsOf(gone)
      freed == {session[s].myBev : s \in dead} \cup {b \in gone : bsMap[b] = NULL}
  IN  /\ session' = [s \in Sid |-> IF s \in dead THEN Destroyed ELSE session[s]]
      /\ bsMap' = [b \in Bev |-> IF b \in gone THEN NULL ELSE bsMap[b]]
      /\ fsMap' = [f \in Fd |-> IF f \in FdsOf(gone) THEN NULL ELSE fsMap[f]]
      /\ bevFd' = [b \in Bev |-> IF b \in freed THEN NULL ELSE bevFd[b]]
      /\ output' = [b \in Bev |-> IF b \in freed THEN <<>> ELSE output[b]]
      /\ UNCHANGED sidCount
=============================================================================
