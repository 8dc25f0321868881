------------------------------ MODULE TcpServer ------------------------------
(***************************************************************************)
(* The relay server as a whole: the libevent callbacks of tcpserver.cpp    *)
(* and the message handler of tcpmsghandler.cpp, working on the maps and   *)
(* sessions of TcpContainer, and the remote ends of the connections.       *)
(*                                                                         *)
(* libevent runs one callback at a time, in an order that depends on the   *)
(* sockets: an action is one whole callback.  Time is abstracted: a read   *)
(* or write timer may go off whenever the connection is open.  The request *)
(* counters that TcpServer::processMessage keeps, and the 10 ms sleep they *)
(* cause, neither read nor write what is modelled here.                    *)
(***************************************************************************)
EXTENDS TcpContainer

CONSTANTS
  MaxInactive,  \* bound: m_inactive is not driven beyond this
  MaxOutput     \* bound: writes to one connection before it takes no more data

VARIABLES
  dispatching,  \* event_base_dispatch is running
  remote        \* the far end of each connection

vars == <<session, sidCount, bsMap, fsMap, bevFd, output, dispatching, remote>>

\* A remote end talks until it closes (FIN or RST) or falls silent for good
\* without closing, as after a power failure.
Remote == {"talking", "silent", "closed"}

\* The far end of a connection that has been removed is no longer tracked.
ForgetRemoved ==
  remote' = [s \in Sid |-> IF session'[s].state = "Die" THEN "talking" ELSE remote[s]]

Interval == 40  \* tv.tv_sec of listener_cb, and the argument of inactive()

Init ==
  /\ InitContainer
  /\ dispatching = TRUE
  /\ remote = [s \in Sid |-> "talking"]

-----------------------------------------------------------------------------
(* The remote ends. *)

RemoteCloses(s) ==
  /\ s \in LiveSid
  /\ remote[s] # "closed"
  /\ remote' = [remote EXCEPT ![s] = "closed"]
  /\ UNCHANGED <<session, sidCount, bsMap, fsMap, bevFd, output, dispatching>>

RemoteFallsSilent(s) ==
  /\ s \in LiveSid
  /\ remote[s] = "talking"
  /\ remote' = [remote EXCEPT ![s] = "silent"]
  /\ UNCHANGED <<session, sidCount, bsMap, fsMap, bevFd, output, dispatching>>

-----------------------------------------------------------------------------
(* listener_cb: a new connection.  accept returns the lowest descriptor that *)
(* is free.                                                                  *)

FreeFd == Fd \ {bevFd[b] : b \in Bev}

listener_cb(b, fd) ==
  /\ dispatching
  /\ sidCount \in Sid
  /\ bevFd[b] = NULL
  /\ fd \in FreeFd /\ \A f \in FreeFd : fd <= f
  /\ bevFd' = [bevFd EXCEPT ![b] = fd]
  /\ session' = [session EXCEPT ![sidCount] = NewSession(b)]
  /\ sidCount' = sidCount + 1
  /\ insert(b, fd, sidCount)
  /\ output' = [output EXCEPT ![b] = Append(@, Host)]
  /\ UNCHANGED <<dispatching, remote>>

\* bufferevent_socket_new found no memory: event_base_loopbreak.
listener_cb_fails ==
  /\ dispatching
  /\ sidCount \in Sid
  /\ dispatching' = FALSE
  /\ UNCHANGED <<session, sidCount, bsMap, fsMap, bevFd, output, remote>>

-----------------------------------------------------------------------------
(* conn_readcb, TcpServer::processMessage and                              *)
(* TcpServerMsgHandler::processMessage: data has arrived on bufferevent b, *)
(* whose session is s.  libevent only calls conn_readcb with a non-empty   *)
(* input buffer and b is always a key of m_bsMap (see HeapConsistent), so  *)
(* the early returns for no data and for no session are not taken.         *)

Readable(b, s) ==
  /\ dispatching
  /\ bevFd[b] # NULL
  /\ s = find(b) /\ s # NULL
  /\ remote[s] # "silent"

\* SStateRaw, and the data holds a valid login package: login, then match.
Login(b, s, card) ==
  LET sessions == [session EXCEPT ![s] = LoggedIn(@, card)]
  IN
  /\ Readable(b, s)
  /\ session[s].state = "Raw"
  /\ \/ /\ Matching(sessions, s) = {}
        /\ session' = sessions
        /\ UNCHANGED output
     \/ \E t \in Matching(sessions, s) :
          LET bound == Matched(sessions, s, t)
              ends  == {bound[s].myBev, bound[s].peerBev}
          IN  /\ session' = bound
              /\ output' = [c \in Bev |-> IF c \in ends
                                          THEN Append(output[c], TelnetOk)
                                          ELSE output[c]]
  /\ UNCHANGED <<sidCount, bsMap, fsMap, bevFd, dispatching, remote>>

\* Mutant of Discard: login() enters SStateLogin before it has parsed the data.
DiscardAfterLogin(b, s) ==
  /\ Readable(b, s)
  /\ session[s].state = "Raw"
  /\ session' = [session EXCEPT ![s].state = "Login"]
  /\ UNCHANGED <<sidCount, bsMap, fsMap, bevFd, output, dispatching, remote>>

\* SStateRaw without a valid login package, or SStateLogin: the data is
\* dropped.  m_inactive stays as it is.
Discard(b, s) ==
  /\ Readable(b, s)
  /\ session[s].state \in {"Raw", "Login"}
  /\ UNCHANGED vars

\* Mutant of Business: the data goes to m_meetee[0], back to its sender.
BusinessEcho(b, s) ==
  /\ Readable(b, s)
  /\ session[s].state = "Bind"
  /\ Len(output[b]) < MaxOutput
  /\ session' = [session EXCEPT ![s] = Touched(@)]
  /\ output' = [output EXCEPT ![b] = Append(@, Chunk(s))]
  /\ UNCHANGED <<sidCount, bsMap, fsMap, bevFd, dispatching, remote>>

\* SStateBind: the data is relayed to the peer.
Business(b, s) ==
  /\ Readable(b, s)
  /\ session[s].state = "Bind"
  /\ Len(output[session[s].peerBev]) < MaxOutput
  /\ session' = [session EXCEPT ![s] = Touched(@)]
  /\ output' = [output EXCEPT ![session[s].peerBev] = Append(@, Chunk(s))]
  /\ UNCHANGED <<sidCount, bsMap, fsMap, bevFd, dispatching, remote>>

-----------------------------------------------------------------------------
(* conn_eventcb on bufferevent b, whose session is s. *)

\* BEV_EVENT_EOF or BEV_EVENT_ERROR: the far end has closed, or does not
\* acknowledge what is sent to it.
Hangup(b, s) ==
  /\ dispatching
  /\ bevFd[b] # NULL
  /\ s = find(b) /\ s # NULL
  /\ remote[s] # "talking"
  /\ removeSession(b)
  /\ ForgetRemoved
  /\ UNCHANGED dispatching

\* BEV_EVENT_TIMEOUT: neither data nor, when a write is pending, room to write
\* for 40 s.  The timers are re-armed unless the connection is closed.
Timeout(b, s) ==
  LET peer  == getPeer(s)
      idled == Idled(session[s], Interval)
      close == /\ Expired(idled)
               /\ peer # NULL => Expired(session[peer])
  IN
  /\ dispatching
  /\ bevFd[b] # NULL
  /\ s = find(b) /\ s # NULL
  /\ idled.inactive <= MaxInactive
  /\ \/ /\ close
        /\ removeSession(b)
        /\ ForgetRemoved
     \/ /\ ~close
        /\ session' = [session EXCEPT ![s] = idled]
        /\ UNCHANGED <<sidCount, bsMap, fsMap, bevFd, output, remote>>
  /\ UNCHANGED dispatching

-----------------------------------------------------------------------------
Next ==
  \/ \E s \in Sid : RemoteCloses(s) \/ RemoteFallsSilent(s)
  \/ \E b \in Bev, fd \in Fd : listener_cb(b, fd)
  \/ listener_cb_fails
  \/ \E b \in Bev, s \in Sid :
       \/ \E card \in Card : Login(b, s, card)
       \/ Discard(b, s)
       \/ Business(b, s)
       \/ Hangup(b, s)
       \/ Timeout(b, s)

Spec == Init /\ [][Next]_vars

\* The loop reports what the kernel reports: a connection that was closed is
\* hung up, and the timers of one on which nothing arrives any more go off.
\* Nothing is assumed of remote ends or of accepting connections.
Fairness ==
  \A b \in Bev, s \in Sid :
    /\ WF_vars(remote[s] = "closed" /\ Hangup(b, s))
    /\ WF_vars(remote[s] = "silent" /\ Timeout(b, s))

FairSpec == Spec /\ Fairness

-----------------------------------------------------------------------------
(* Properties *)

\* Every variable holds values of the kind its declaration in the source says.
TypeOK ==
  /\ session \in [Sid -> SessionRecord]
  /\ sidCount \in 1 .. MaxSid + 1
  /\ bsMap \in [Bev -> Sid \cup {NULL}]
  /\ fsMap \in [Fd -> Sid \cup {NULL}]
  /\ bevFd \in [Bev -> Fd \cup {NULL}]
  /\ output \in [Bev -> Seq(Output)]
  /\ dispatching \in BOOLEAN
  /\ remote \in [Sid -> Remote]

\* No callback meets a dangling pointer and nothing leaks: the keys of m_bsMap
\* are exactly the live bufferevents, each maps to a live session that names
\* it, and every live session is reached this way.  In particular the "can't
\* find session" branches of conn_readcb and conn_eventcb are never taken.
HeapConsistent ==
  /\ \A b \in Bev : bsMap[b] # NULL <=> bevFd[b] # NULL
  /\ \A b \in LiveBev : bsMap[b] \in LiveSid /\ session[bsMap[b]].myBev = b
  /\ \A s \in LiveSid : session[s].myBev \in LiveBev /\ bsMap[session[s].myBev] = s

\* m_fsMap indexes the same sessions by descriptor: no entry outlives its
\* session, although descriptors are reused as soon as they are closed.
FdIndex ==
  \A fd \in Fd, s \in Sid :
    fsMap[fd] = s <=> s \in LiveSid /\ bevFd[session[s].myBev] = fd

\* Two bound sessions hold each other: the peer pointer of a bound session
\* leads to a live bound session of the other type and the same id, whose own
\* peer pointer leads back.  No session is left bound to a peer that is gone,
\* or to a newcomer whose bufferevent has the address of a freed one.
PairsAreMutual ==
  \A s \in LiveSid :
    /\ session[s].state = "Bind" <=> session[s].peerBev # NULL
    /\ session[s].state = "Bind" =>
         LET p == getPeer(s)
         IN  /\ p \in LiveSid \ {s}
             /\ session[p].state = "Bind"
             /\ session[p].peerBev = session[s].myBev
             /\ session[p].myCard = session[s].peerCard
             /\ session[p].myCard.id = session[s].myCard.id
             /\ session[p].myCard.type # session[s].myCard.type

\* A device and a client with the same id never both wait: match is tried once
\* per login and nothing retries it, so a pair missed then is missed for good.
NoMissedMatch ==
  \A s, t \in LiveSid :
    /\ session[s].state = "Login" /\ session[t].state = "Login"
    /\ session[s].myCard.id = session[t].myCard.id
    => session[s].myCard.type = session[t].myCard.type

\* What a remote end is sent: the host name, then TELPROXY_OK once it is
\* bound, then only what its own peer said, never another connection's data.
StreamShape ==
  \A s \in LiveSid :
    LET out == output[session[s].myBev]
    IN  IF session[s].state = "Bind"
        THEN /\ Len(out) >= 2
             /\ out[1] = Host /\ out[2] = TelnetOk
             /\ \A i \in 3 .. Len(out) : out[i] = Chunk(getPeer(s))
        ELSE out = <<Host>>

\* The facts that the invariants above rest on from one step to the next: a
\* card is what tells a logged-in session from a raw one, and neither a deleted
\* session nor a freed bufferevent keeps anything of its last use.
CleanSlate ==
  /\ \A s \in LiveSid : session[s].state = "Raw" <=> session[s].myCard = NULL
  /\ \A s \in Sid \ LiveSid : session[s] = Destroyed
  /\ \A b \in Bev \ LiveBev : output[b] = <<>>

\* The inductive invariant.
IInv ==
  /\ TypeOK
  /\ HeapConsistent
  /\ FdIndex
  /\ PairsAreMutual
  /\ NoMissedMatch
  /\ StreamShape
  /\ CleanSlate

\* A binding is for life: from one step to the next a bound session keeps its
\* peer, or both are destroyed in that step.
PairForLife ==
  [][\A s \in LiveSid :
       session[s].state = "Bind" =>
         LET p == getPeer(s)
         IN  \/ s \notin LiveSid' /\ p \notin LiveSid'
             \/ /\ {s, p} \subseteq LiveSid'
                /\ session'[s].state = "Bind"
                /\ getPeer(s)' = p]_vars

\* While the loop runs, a connection that its remote end closed is removed,
\* whatever its session is doing and whoever it is bound to.
ClosedIsRemoved ==
  \A s \in Sid :
    (s \in LiveSid /\ remote[s] = "closed") ~> (s \notin LiveSid \/ ~dispatching)

\* While the loop runs, a connection that fell silent without closing does not
\* stay for ever, unless it is bound to a peer that still talks.
Abandoned(s) ==
  /\ s \in LiveSid
  /\ remote[s] = "silent"
  /\ getPeer(s) # NULL => remote[getPeer(s)] # "talking"

SilentIsReaped ==
  \A s \in Sid : Abandoned(s) ~> (~Abandoned(s) \/ ~dispatching)

-----------------------------------------------------------------------------
(* The server implements the rendezvous service: a guest is a session, his  *)
(* mate is the session his peer pointer leads to, and he has heard those    *)
(* whose chunks were written to his bufferevent.                            *)

StatusName ==
  [Raw |-> "anonymous", Login |-> "waiting", Bind |-> "coupled", Die |-> "left"]

GuestStatus(s) ==
  IF s < sidCount THEN StatusName[session[s].state] ELSE "absent"

HasHeard(s) ==
  IF s \in LiveSid
  THEN LET out == output[session[s].myBev]
       IN  {out[i].from : i \in 1 .. Len(out)} \ {NULL}
  ELSE {}

Service == INSTANCE Rendezvous WITH
  Guest  <- Sid,
  status <- [s \in Sid |-> GuestStatus(s)],
  card   <- [s \in Sid |-> session[s].myCard],
  mate   <- [s \in Sid |-> getPeer(s)],
  heard  <- [s \in Sid |-> HasHeard(s)]

\* Every behaviour of the server is one the service allows.
ServiceSpec == Service!Spec
=============================================================================
