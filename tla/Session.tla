------------------------------- MODULE Session -------------------------------
(***************************************************************************)
(* The class Session of session.h / session.cpp: the server's record of    *)
(* one TCP connection.  m_meetee[0] holds the connection's own             *)
(* bufferevent and login card, m_meetee[1] those of the peer it has been   *)
(* matched with.                                                           *)
(*                                                                         *)
(* A Session only changes through its methods, so the methods are          *)
(* operators from the record before to the record after the call; which    *)
(* session they are called on is the business of TcpContainer and          *)
(* TcpServer.  The wire format of a login package, and the ways in which   *)
(* parsing it fails, are abstracted here to a card or no card.             *)
(***************************************************************************)
EXTENDS Integers

CONSTANTS
  Bev,            \* addresses malloc can return for a bufferevent
  Id,             \* device identifiers found in login packages
  LoginTimeout,   \* Configure::m_loginTimeout, seconds
  MatchTimeout,   \* Configure::m_matchTimeout, seconds
  ActiveTimeout,  \* Configure::m_activeTimeout, seconds
  NULL            \* the null pointer

Device == 1       \* TELPROXY_TYPE_DEVICE
Client == 2       \* TELPROXY_TYPE_CLINET

\* UCard: what a connection declared about itself when it logged in.
Card == [type : {Device, Client}, id : Id]

ASSUME SessionAssumption ==
  /\ NULL \notin Bev
  /\ NULL \notin Card
  /\ LoginTimeout \in Int /\ MatchTimeout \in Int /\ ActiveTimeout \in Int

SessionState == {"Raw", "Login", "Bind", "Die"}

SessionRecord ==
  [state    : SessionState,          \* m_state
   inactive : Int,                   \* m_inactive, seconds
   timeouts : Int,                   \* m_timeouts, seconds
   myBev    : Bev \cup {NULL},       \* m_meetee[0].bev
   myCard   : Card \cup {NULL},      \* m_meetee[0].userData
   peerBev  : Bev \cup {NULL},       \* m_meetee[1].bev
   peerCard : Card \cup {NULL}]      \* m_meetee[1].userData

\* The constructor followed by setBev(0, bev), as listener_cb uses it.
NewSession(bev) ==
  [state |-> "Raw", inactive |-> 0, timeouts |-> LoginTimeout,
   myBev |-> bev, myCard |-> NULL, peerBev |-> NULL, peerCard |-> NULL]

\* What the destructor leaves behind; it also frees myBev (see TcpContainer).
Destroyed ==
  [state |-> "Die", inactive |-> 0, timeouts |-> 0,
   myBev |-> NULL, myCard |-> NULL, peerBev |-> NULL, peerCard |-> NULL]

\* login() on a package that carries a valid card.  Any other input leaves
\* the session as it was.
LoggedIn(se, card) ==
  [se EXCEPT !.state = "Login", !.myCard = card,
             !.inactive = 0, !.timeouts = MatchTimeout]

\* Mutants of CanMatch: the ids are not compared; only a device looks for a
\* client, never a client for a device.
CanMatchAnyId(se, other) ==
  /\ se.state = "Login" /\ other.state = "Login"
  /\ se.myCard.type # other.myCard.type
CanMatchFromDevice(se, other) ==
  /\ CanMatchAnyId(se, other)
  /\ se.myCard.type = Device
  /\ se.myCard.id = other.myCard.id

\* The conditions under which se.match(other) binds the two sessions.
CanMatch(se, other) ==
  /\ se.state = "Login" /\ other.state = "Login"
  /\ se.myCard.type = Device => other.myCard.type = Client
  /\ se.myCard.type = Client => other.myCard.type = Device
  /\ se.myCard.id = other.myCard.id

\* Mutant of MatchDone: setUserData takes a void*, and is given the bufferevent.
MatchDoneBevTwice(se, bev, card) ==
  [se EXCEPT !.state = "Bind", !.peerBev = bev, !.peerCard = bev,
             !.inactive = 0, !.timeouts = ActiveTimeout]

\* match_done(bev, card)
MatchDone(se, bev, card) ==
  [se EXCEPT !.state = "Bind", !.peerBev = bev, !.peerCard = card,
             !.inactive = 0, !.timeouts = ActiveTimeout]

\* Mutant of Idled: the interval replaces the count instead of adding to it.
IdledRestarts(se, interval) == [se EXCEPT !.inactive = interval]

\* inactive(interval): the session after the call, and what the call returns.
Idled(se, interval) == [se EXCEPT !.inactive = @ + interval]

\* Mutant of Expired: an off-by-one.
ExpiredLate(se) == se.inactive > se.timeouts

Expired(se) == se.inactive >= se.timeouts

\* business() on a bound session, but for the write to the peer.
Touched(se) == [se EXCEPT !.inactive = 0]
=============================================================================
