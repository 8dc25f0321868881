----------------------------- MODULE IdleTimeout -----------------------------
(***************************************************************************)
(* How long a connection may stay idle.  TcpServer lets a timer go off at  *)
(* any moment; here time passes, and the sessions of session.cpp are run   *)
(* against the read and write timers that listener_cb sets on every        *)
(* bufferevent and conn_eventcb re-arms.  Only what the timers depend on   *)
(* is kept: a session is named by its bufferevent, and the maps, the       *)
(* descriptors and the data are left to TcpServer.                         *)
(*                                                                         *)
(* The timers are libevent's: an event that is re-armed before its timeout *)
(* callback has run is taken off the active queue, so of two timers that   *)
(* are due together only the first one is reported.                        *)
(***************************************************************************)
EXTENDS Session

CONSTANTS
  Interval,  \* tv.tv_sec of listener_cb, and the argument of inactive(): 40 s
  MaxSince   \* bound: time stops when no m_inactive was reset for this long

ASSUME IdleAssumption == Interval \in Nat \ {0} /\ MaxSince \in Nat

VARIABLES
  session,   \* session[b]: the session of bufferevent b, Destroyed if none
  readDue,   \* time left on b's read timer
  writeDue,  \* time left on b's write timer, Never if no write is pending
  idle,      \* history: time since b was accepted, sent data or was bound
  since      \* history: time since b's m_inactive was last set to 0

vars == <<session, readDue, writeDue, idle, since>>

Never == -1

Open == {b \in Bev : session[b].state # "Die"}

Init ==
  /\ session = [b \in Bev |-> Destroyed]
  /\ readDue = [b \in Bev |-> Interval]
  /\ writeDue = [b \in Bev |-> Never]
  /\ idle = [b \in Bev |-> 0]
  /\ since = [b \in Bev |-> 0]

\* bufferevent_write on those in ends: the socket takes all of it, or a write
\* is pending from now on, if none was.
Write(ends) ==
  \E stuck \in SUBSET ends :
    writeDue' = [b \in Bev |-> IF b \in stuck /\ writeDue[b] = Never
                               THEN Interval ELSE writeDue[b]]

\* listener_cb: the host name is the first write.
Accept(b) ==
  /\ b \notin Open
  /\ session' = [session EXCEPT ![b] = NewSession(b)]
  /\ readDue' = [readDue EXCEPT ![b] = Interval]
  /\ idle' = [idle EXCEPT ![b] = 0]
  /\ since' = [since EXCEPT ![b] = 0]
  /\ \E due \in {Never, Interval} : writeDue' = [writeDue EXCEPT ![b] = due]

\* Data arrives on b, which re-arms its read timer; ends is b and, when the
\* data makes b the mate of another connection, that one.
Hear(b, ends) ==
  /\ readDue' = [readDue EXCEPT ![b] = Interval]
  /\ idle' = [c \in Bev |-> IF c \in ends THEN 0 ELSE idle[c]]

\* m_inactive of those in ends starts from 0.
Restart(ends) == since' = [c \in Bev |-> IF c \in ends THEN 0 ELSE since[c]]

\* A login package on a raw connection.
Login(b, card) ==
  LET in == LoggedIn(session[b], card)
      matching == {c \in Bev \ {b} : CanMatch(in, session[c])}
  IN
  /\ session[b].state = "Raw"
  /\ \/ /\ matching = {}
        /\ session' = [session EXCEPT ![b] = in]
        /\ Hear(b, {b}) /\ Restart({b})
        /\ UNCHANGED writeDue
     \/ \E c \in matching :
          /\ session' = [session EXCEPT
               ![b] = MatchDone(in, c, session[c].myCard),
               ![c] = MatchDone(session[c], b, card)]
          /\ Hear(b, {b, c}) /\ Restart({b, c})
          /\ Write({b, c})

\* Other data on a raw or waiting connection: dropped, m_inactive is kept.
Discard(b) ==
  /\ session[b].state \in {"Raw", "Login"}
  /\ Hear(b, {b})
  /\ UNCHANGED <<session, writeDue, since>>

\* Data on a bound connection.
Business(b) ==
  /\ session[b].state = "Bind"
  /\ session' = [session EXCEPT ![b] = Touched(@)]
  /\ Hear(b, {b}) /\ Restart({b})
  /\ Write({session[b].peerBev})

\* The socket takes some or all of what was pending.
WriteProgress(b) ==
  /\ b \in Open /\ writeDue[b] # Never
  /\ \E due \in {Never, Interval} : writeDue' = [writeDue EXCEPT ![b] = due]
  /\ UNCHANGED <<session, readDue, idle, since>>

\* removeSession
Remove(b) ==
  LET gone == {b, session[b].peerBev}
  IN  /\ session' = [c \in Bev |-> IF c \in gone THEN Destroyed ELSE session[c]]
      /\ readDue' = [c \in Bev |-> IF c \in gone THEN Interval ELSE readDue[c]]
      /\ writeDue' = [c \in Bev |-> IF c \in gone THEN Never ELSE writeDue[c]]
      /\ idle' = [c \in Bev |-> IF c \in gone THEN 0 ELSE idle[c]]
      /\ Restart(gone)

\* conn_eventcb with BEV_EVENT_EOF or BEV_EVENT_ERROR.
Hangup(b) == b \in Open /\ Remove(b)

Due(b) == b \in Open /\ (readDue[b] = 0 \/ writeDue[b] = 0)

\* Mutant of Overdue: the peer is not asked whether it is idle as well.
OverdueAlone(b) == Expired(Idled(session[b], Interval))

\* se->inactive(40) and, if there is a peer, peer_se->inactive(0).
Overdue(b) ==
  LET peer == session[b].peerBev
  IN  Expired(Idled(session[b], Interval)) /\ (peer # NULL => Expired(session[peer]))

\* conn_eventcb with BEV_EVENT_TIMEOUT.  READING and WRITING are tested with |
\* instead of &, so both directions are enabled and both timers re-armed,
\* whichever went off; the write timer stops at once if the socket has room.
Timeout(b) ==
  /\ Due(b)
  /\ \/ Overdue(b) /\ Remove(b)
     \/ /\ ~Overdue(b)
        /\ session' = [session EXCEPT ![b] = Idled(@, Interval)]
        /\ readDue' = [readDue EXCEPT ![b] = Interval]
        /\ \E due \in {Never, Interval} : writeDue' = [writeDue EXCEPT ![b] = due]
        /\ UNCHANGED <<idle, since>>

\* Time passes, but not while a timer that is due waits for its callback.
Pass ==
  /\ \A b \in Open : ~Due(b) /\ since[b] < MaxSince
  /\ readDue' = [b \in Bev |-> IF b \in Open THEN readDue[b] - 1 ELSE readDue[b]]
  /\ writeDue' = [b \in Bev |-> IF b \in Open /\ writeDue[b] # Never
                                THEN writeDue[b] - 1 ELSE writeDue[b]]
  /\ idle' = [b \in Bev |-> IF b \in Open THEN idle[b] + 1 ELSE idle[b]]
  /\ since' = [b \in Bev |-> IF b \in Open THEN since[b] + 1 ELSE since[b]]
  /\ UNCHANGED session

Next ==
  \/ \E b \in Bev :
       \/ Accept(b)
       \/ \E card \in Card : Login(b, card)
       \/ Discard(b)
       \/ Business(b)
       \/ WriteProgress(b)
       \/ Hangup(b)
       \/ Timeout(b)
  \/ Pass

Spec == Init /\ [][Next]_vars

-----------------------------------------------------------------------------
(* Properties *)

TypeOK ==
  /\ session \in [Bev -> SessionRecord]
  /\ readDue \in [Bev -> 0 .. Interval]
  /\ writeDue \in [Bev -> {Never} \cup 0 .. Interval]
  /\ idle \in [Bev -> Nat] /\ since \in [Bev -> Nat]

\* A connection without a peer is gone before it has been idle for its timeout
\* and one interval more (its very first interval it is always given); of two
\* bound connections this holds for the one that spoke last.
InTime(b) ==
  \/ idle[b] < session[b].timeouts + Interval
  \/ idle[b] <= Interval

ReapedInTime ==
  \A b \in Open : InTime(b) \/ (session[b].state = "Bind" /\ InTime(session[b].peerBev))

\* No timer closes a connection early.  A raw one has been given all of the login
\* timeout; one that waits for its match, and both ends of a pair, all of theirs
\* but one interval at most: a write timer armed before the count started still
\* adds 40 s to it.
NoEarlyClose ==
  [][\A b \in Open :
       Timeout(b) /\ b \notin Open' =>
         /\ session[b].state = "Raw" => since[b] >= LoginTimeout
         /\ session[b].state = "Login" => since[b] >= MatchTimeout - Interval
         /\ session[b].state = "Bind" =>
              \A end \in {b, session[b].peerBev} : since[end] >= ActiveTimeout - Interval]_vars

\* configure.h calls SERVER_LOGIN_TIMEOUT "30s": a connection that sends nothing
\* does not stay anonymous for longer.  Time is counted in units of ten seconds.
AnonymousFor30s == \A b \in Open : session[b].state = "Raw" => idle[b] <= 3

-----------------------------------------------------------------------------
(* The inductive invariant. *)

\* The peer pointers, as in TcpServer!PairsAreMutual.
Pairs ==
  \A b \in Open :
    /\ session[b].myBev = b
    /\ session[b].state = "Bind" <=> session[b].peerBev # NULL
    /\ session[b].state # "Raw" => session[b].myCard # NULL
    /\ session[b].state = "Bind" =>
         LET p == session[b].peerBev
         IN  p \in Open \ {b} /\ session[p].peerBev = b

\* The idle time that m_inactive has not counted yet is on the read timer.
Accounted ==
  \A b \in Open :
    /\ session[b].inactive >= 0
    /\ idle[b] <= session[b].inactive + Interval - readDue[b]

\* Every session waits for what its state gives it.
Allowed(state) ==
  IF state = "Raw" THEN LoginTimeout ELSE IF state = "Login" THEN MatchTimeout ELSE ActiveTimeout

Scheduled == \A b \in Open : session[b].timeouts = Allowed(session[b].state)

\* The timers of a raw connection were armed no earlier than its count started.
Ahead(b) == IF session[b].state = "Raw" THEN Interval ELSE 0

\* m_inactive counts nothing but time that has passed since it was 0, except for
\* what is left on the timers.
NotOvercounted ==
  \A b \in Open :
    /\ session[b].inactive + Ahead(b) <= since[b] + readDue[b]
    /\ writeDue[b] # Never => session[b].inactive + Ahead(b) <= since[b] + writeDue[b]

\* Whoever has counted his timeout is gone, unless his peer has not.
Patient(b) ==
  session[b].inactive < session[b].timeouts \/ session[b].inactive = 0

NobodyOverdue ==
  \A b \in Open :
    Patient(b) \/ (session[b].state = "Bind" /\ Patient(session[b].peerBev))

IInv == TypeOK /\ Pairs /\ Scheduled /\ Accounted /\ NotOvercounted /\ NobodyOverdue
=============================================================================
