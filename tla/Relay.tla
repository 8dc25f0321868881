------------------------------- MODULE Relay -------------------------------
(***************************************************************************)
(* The bytes between a device and a client with the same id, from one far  *)
(* end through the server to the other: how libevent cuts the stream into  *)
(* reads, what TcpServerMsgHandler::processMessage and Session::business   *)
(* do with each read, how the output buffers drain, and what becomes of    *)
(* everything on the way when a connection ends.  A bufferevent_write fails *)
(* when there is no memory for a larger buffer: it then writes nothing, and *)
(* the server goes on.                                                     *)
(*                                                                         *)
(* Sessions, maps and lifetimes are TcpServer's subject, the clock is      *)
(* IdleTimeout's and the bytes of a login package are LoginPackage's: here *)
(* a login package is one unit of the stream.                              *)
(***************************************************************************)
EXTENDS Integers, Sequences

CONSTANTS
  Byte,      \* the units a far end may send
  Login,     \* the unit that is a login package
  Host, Ok,  \* the server's own two writes, m_host and TELPROXY_OK
  MaxRead,   \* the most that libevent reads into an input buffer per event
  BufSize,   \* the size of processMessage's data[]
  Window,    \* what the kernel and the network hold on the way to a far end
  Fate,      \* what may become of a far end that receives
  MaxSent,   \* bound: how much each far end sends
  MaxShortages  \* bound: callbacks in which a write fails

\* libevent 2.1.11 reads no more than 4096 bytes at a time, the size of data[].
ASSUME RelayAssumption ==
  /\ Login \in Byte /\ Host # Ok
  /\ MaxRead \in Nat \ {0} /\ BufSize \in Nat \ {0} /\ MaxRead <= BufSize
  /\ Window \in Nat \ {0}
  /\ Fate \subseteq {"stalled", "closed", "reset"}
  /\ MaxSent \in [{1, 2} -> Nat] /\ MaxShortages \in Nat

\* The device is 1 and the client 2, as in their login packages.
End == {1, 2}
Peer(e) == 3 - e

Unit == Byte \cup {Host, Ok}

VARIABLES
  state,     \* m_state of each end's session, kept when it is removed
  open,      \* the session exists
  wire,      \* sent by the far end, not yet read by libevent
  input,     \* the input buffer of the bufferevent
  output,    \* the output buffer of the bufferevent
  flight,    \* taken by the kernel, not yet received by the far end
  far,       \* what the far end does
  sent,      \* history: all that the far end sent
  received,  \* history: all that the far end received
  dropped,   \* history: how much of sent was read before the match
  greeting,  \* history: what the server has written to each end of its own
  kept,      \* history: sent without the reads whose write has failed
  shortages  \* history: in how many callbacks a write has failed

history == <<greeting, kept, shortages>>
vars == <<state, open, wire, input, output, flight, far, sent, received, dropped, history>>

\* A far end receives or has stopped to; it has closed in order or with a reset.
Far == {"receiving"} \cup Fate

\* The writes to those in short fail in this callback.
Shortage(short) ==
  /\ short # {} => shortages < MaxShortages
  /\ shortages' = IF short = {} THEN shortages ELSE shortages + 1

\* Both have been accepted, and the host name was the first write, if it did not
\* fail.
Init ==
  /\ state = [e \in End |-> "Raw"]
  /\ open = [e \in End |-> TRUE]
  /\ wire = [e \in End |-> <<>>]
  /\ input = [e \in End |-> <<>>]
  /\ \E short \in SUBSET End :
       /\ short # {} => 0 < MaxShortages
       /\ shortages = IF short = {} THEN 0 ELSE 1
       /\ greeting = [e \in End |-> IF e \in short THEN <<>> ELSE <<Host>>]
  /\ output = greeting
  /\ flight = [e \in End |-> <<>>]
  /\ far = [e \in End |-> "receiving"]
  /\ sent = [e \in End |-> <<>>] /\ kept = [e \in End |-> <<>>]
  /\ received = [e \in End |-> <<>>]
  /\ dropped = [e \in End |-> 0]

Lesser(m, n) == IF m <= n THEN m ELSE n
Front(s, n) == SubSeq(s, 1, n)
Rest(s, n) == SubSeq(s, n + 1, Len(s))

-----------------------------------------------------------------------------
(* The far ends and the network. *)

Send(e, x) ==
  /\ open[e] /\ far[e] \in {"receiving", "stalled"}
  /\ Len(sent[e]) < MaxSent[e]
  /\ sent' = [sent EXCEPT ![e] = Append(@, x)]
  /\ kept' = [kept EXCEPT ![e] = Append(@, x)]
  /\ wire' = [wire EXCEPT ![e] = Append(@, x)]
  /\ UNCHANGED <<state, open, input, output, flight, far, received, dropped, greeting, shortages>>

Receive(e) ==
  /\ far[e] = "receiving"
  /\ flight[e] # <<>>
  /\ received' = [received EXCEPT ![e] = Append(@, Head(flight[e]))]
  /\ flight' = [flight EXCEPT ![e] = Tail(@)]
  /\ UNCHANGED <<state, open, wire, input, output, far, sent, dropped, history>>

\* A far end stops receiving, or closes, or its connection breaks.  Once the
\* server has closed the connection that makes no difference to it.
Fail(e, f) ==
  /\ open[e] /\ far[e] \in {"receiving", "stalled"}
  /\ far' = [far EXCEPT ![e] = f]
  /\ UNCHANGED <<state, open, wire, input, output, flight, sent, received, dropped, history>>

-----------------------------------------------------------------------------
(* A read event: libevent moves n units into the input buffer and calls     *)
(* conn_readcb, and processMessage takes what fits into data[].             *)

\* Mutant of Taken: one byte of data[] is kept for a '\0'.
TakenBelow(e, n) ==
  LET in == input[e] \o Front(wire[e], n) IN Front(in, Lesser(Len(in), BufSize - 1))

\* bufferevent_read(bev, data, sizeof(data))
Taken(e, n) ==
  LET in == input[e] \o Front(wire[e], n) IN Front(in, Lesser(Len(in), BufSize))

\* Mutant of Remaining: the data is copied out of the buffer but not drained.
RemainingAll(e, n) == input[e] \o Front(wire[e], n)

Remaining(e, n) == Rest(input[e] \o Front(wire[e], n), Len(Taken(e, n)))

ReadInto(e, n) ==
  /\ open[e]
  /\ n \in 1 .. Lesser(Len(wire[e]), MaxRead)
  /\ wire' = [wire EXCEPT ![e] = Rest(@, n)]
  /\ input' = [input EXCEPT ![e] = Remaining(e, n)]
  /\ UNCHANGED <<open, flight, far, sent, received>>

\* The peer has logged in before.
Awaited(e) == open[Peer(e)] /\ state[Peer(e)] = "Login"

\* Mutant of LoggedIn: match leaves the peer in SStateLogin.
LoggedInAlone(e) == [state EXCEPT ![e] = IF Awaited(e) THEN "Bind" ELSE "Login"]

\* The states after login, and match if the peer is waiting.
LoggedIn(e) == IF Awaited(e) THEN [f \in End |-> "Bind"] ELSE [state EXCEPT ![e] = "Login"]

\* Mutant of Told: TELPROXY_OK answers every login, matched or not.
ToldAtOnce(e, short) == [f \in End |-> IF f = e /\ f \notin short THEN <<Ok>> ELSE <<>>]

\* TELPROXY_OK is written to both when they have been matched; either write may
\* fail, whatever becomes of the other.
Told(e, short) ==
  [f \in End |-> IF Awaited(e) /\ f \notin short THEN <<Ok>> ELSE <<>>]

\* SStateRaw, and there is a login package in what was read.  The rest of it is
\* lost.
ReadLogin(e, n) ==
  LET data == Taken(e, n)
  IN
  /\ ReadInto(e, n)
  /\ state[e] = "Raw"
  /\ \E i \in 1 .. Len(data) : data[i] = Login
  /\ state' = LoggedIn(e)
  /\ \E short \in SUBSET (IF Awaited(e) THEN End ELSE {}) :
       /\ Shortage(short)
       /\ output' = [f \in End |-> output[f] \o Told(e, short)[f]]
       /\ greeting' = [f \in End |-> greeting[f] \o Told(e, short)[f]]
  /\ dropped' = [dropped EXCEPT ![e] = @ + Len(data)]
  /\ UNCHANGED kept

\* SStateRaw without a login package, or SStateLogin: what was read is lost.
ReadAndDrop(e, n) ==
  LET data == Taken(e, n)
  IN
  /\ ReadInto(e, n)
  /\ \/ state[e] = "Login"
     \/ state[e] = "Raw" /\ \A i \in 1 .. Len(data) : data[i] # Login
  /\ dropped' = [dropped EXCEPT ![e] = @ + Len(data)]
  /\ UNCHANGED <<state, output, history>>

\* Mutant of Queued: nothing is written while a write is still pending.
QueuedIfIdle(e, data) == IF output[e] = <<>> THEN data ELSE output[e]

\* A bufferevent_write that succeeds appends to the output buffer, which has no
\* limit but memory.
Queued(e, data) == output[e] \o data

\* What is kept of e's bytes when data, the first of those that were unread, is
\* lost.
Without(e, data) ==
  LET k == Len(kept[e]) - Len(input[e] \o wire[e])
  IN  Front(kept[e], k) \o Rest(kept[e], k + Len(data))

\* SStateBind: business writes what was read to the peer.  If that fails what was
\* read is lost, which the log tells and nobody else: processMessage ignores it.
ReadAndRelay(e, n) ==
  LET data == Taken(e, n)
  IN
  /\ ReadInto(e, n)
  /\ state[e] = "Bind"
  /\ \/ /\ output' = [output EXCEPT ![Peer(e)] = Queued(Peer(e), data)]
        /\ UNCHANGED <<kept, shortages>>
     \/ /\ Shortage({Peer(e)})
        /\ kept' = [kept EXCEPT ![e] = Without(e, data)]
        /\ UNCHANGED output
  /\ UNCHANGED <<state, dropped, greeting>>

\* A write event: the kernel takes as much of the output as it has room for.
Flush(e, n) ==
  /\ open[e]
  /\ n \in 1 .. Lesser(Len(output[e]), Window - Len(flight[e]))
  /\ flight' = [flight EXCEPT ![e] = @ \o Front(output[e], n)]
  /\ output' = [output EXCEPT ![e] = Rest(@, n)]
  /\ UNCHANGED <<state, open, wire, input, far, sent, received, dropped, history>>

-----------------------------------------------------------------------------
(* conn_eventcb and removeSession. *)

PairOf(e) == IF state[e] = "Bind" THEN End ELSE {e}

\* removeSession frees the bufferevents with all that their buffers hold.  What
\* the kernel has taken still goes out, unless it answers data that nobody has
\* read with a reset, which may overtake it.
Remove(gone) ==
  /\ open' = [e \in End |-> open[e] /\ e \notin gone]
  /\ wire' = [e \in End |-> IF e \in gone THEN <<>> ELSE wire[e]]
  /\ input' = [e \in End |-> IF e \in gone THEN <<>> ELSE input[e]]
  /\ output' = [e \in End |-> IF e \in gone THEN <<>> ELSE output[e]]
  /\ \E cut \in SUBSET {e \in gone : wire[e] # <<>>} :
       flight' = [e \in End |-> IF e \in cut THEN <<>> ELSE flight[e]]
  /\ UNCHANGED <<state, far, sent, received, dropped, history>>

\* BEV_EVENT_EOF comes after all that was sent, BEV_EVENT_ERROR at any moment.
Hangup(e) ==
  /\ open[e]
  /\ far[e] = "reset" \/ (far[e] = "closed" /\ wire[e] = <<>>)
  /\ Remove(PairOf(e))

\* BEV_EVENT_TIMEOUT, which without a clock may come at any moment.
Timeout(e) == open[e] /\ Remove(PairOf(e))

-----------------------------------------------------------------------------
Next ==
  \E e \in End :
    \/ \E x \in Byte : Send(e, x)
    \/ Receive(e)
    \/ \E f \in Fate : Fail(e, f)
    \/ \E n \in 1 .. MaxRead : ReadLogin(e, n) \/ ReadAndDrop(e, n) \/ ReadAndRelay(e, n)
    \/ \E n \in 1 .. Window : Flush(e, n)
    \/ Hangup(e)
    \/ Timeout(e)

Spec == Init /\ [][Next]_vars

\* The event loop reads what there is and writes what it can, the network
\* delivers to a far end that receives, and an end in order is reported.
Fairness ==
  \A e \in End :
    /\ WF_vars(\E n \in 1 .. MaxRead :
                 ReadLogin(e, n) \/ ReadAndDrop(e, n) \/ ReadAndRelay(e, n))
    /\ WF_vars(\E n \in 1 .. Window : Flush(e, n))
    /\ WF_vars(Receive(e))
    /\ WF_vars(Hangup(e))

FairSpec == Spec /\ Fairness

-----------------------------------------------------------------------------
(* Properties *)

TypeOK ==
  /\ state \in [End -> {"Raw", "Login", "Bind"}]
  /\ open \in [End -> BOOLEAN]
  /\ wire \in [End -> Seq(Byte)] /\ input \in [End -> Seq(Byte)]
  /\ output \in [End -> Seq(Unit)] /\ flight \in [End -> Seq(Unit)]
  /\ far \in [End -> Far]
  /\ sent \in [End -> Seq(Byte)] /\ received \in [End -> Seq(Unit)]
  /\ kept \in [End -> Seq(Byte)] /\ shortages \in Nat
  /\ greeting \in [End -> {<<>>, <<Host>>, <<Ok>>, <<Host, Ok>>}]
  /\ dropped \in [End -> Nat] /\ \A e \in End : dropped[e] <= Len(kept[e])

\* Between two callbacks nothing is left in an input buffer.  libevent reports
\* new data only, so what a callback leaves behind would wait until the far end
\* happens to send more.
NothingStranded == \A e \in End : input[e] = <<>>

\* A far end that has heard TELPROXY_OK is a full partner: whatever it sends
\* from then on, no byte of it is taken for part of the login and dropped.
Welcomed(e) == greeting[e] \in {<<Ok>>, <<Host, Ok>>}
Heard(e) == Welcomed(e) /\ Len(received[e]) >= Len(greeting[e])

NothingDroppedOnceTold ==
  [][\A e \in End : Heard(e) => dropped'[e] = dropped[e]]_vars

Prefix(s, t) == Len(s) <= Len(t) /\ Front(t, Len(s)) = s

\* s is t with some of it left out.
Thins(s, t) ==
  \E f \in [1 .. Len(s) -> 1 .. Len(t)] :
    /\ \A i, j \in 1 .. Len(s) : i < j => f[i] < f[j]
    /\ \A i \in 1 .. Len(s) : s[i] = t[f[i]]

\* What has been written to an end: received, on its way, or still in the server.
Pipe(e) == received[e] \o flight[e] \o output[e]

\* What the peer of e is to receive as long as its connection lasts.
Whole(e) == greeting[Peer(e)] \o Rest(kept[e], dropped[e])

\* Each end receives the host name, TELPROXY_OK and then its peer's bytes from
\* the first one that was not dropped, in order and none twice, however the
\* stream was cut into reads and writes and whoever has left since.  The only
\* gaps are those of the writes that fail, each of a single read.
InOrder ==
  \A e \in End :
    /\ Prefix(received[e], Whole(Peer(e)))
    /\ Thins(kept[e], sent[e])
    /\ Len(sent[e]) <= Len(kept[e]) + shortages * BufSize

\* As long as a pair lives every byte is accounted for: what one end has sent
\* since the match, but for the reads whose write has failed, is what the other
\* has received, what is on its way there, what its output buffer holds however
\* long it grows, and what is not read yet.
NothingLost ==
  \A e \in End :
    state[e] = "Bind" /\ open[e] => Pipe(Peer(e)) \o input[e] \o wire[e] = Whole(e)

\* What e has heard of its peer.
HeardOf(e) == Rest(received[e], Len(greeting[e]))

\* The relay implements the conversation of Duplex.
Matching == \A e \in End : state[e] = "Bind"

Knows(e) ==
  IF ~Matching THEN "no" ELSE IF ~Welcomed(e) THEN "never" ELSE IF Heard(e) THEN "yes" ELSE "no"

Conversation == INSTANCE Duplex WITH
  Most    <- BufSize,
  said    <- kept,
  missed  <- dropped,
  coupled <- Matching,
  told    <- [e \in End |-> Knows(e)],
  heard   <- [e \in End |-> HeardOf(e)]

ConversationSpec == Conversation!Spec

\* Every byte that is not dropped before the match arrives, unless the write that
\* passes it on fails, the pair is removed, or its receiver does not receive.
Arrived(e, n) == Len(received[Peer(e)]) >= n

Delivered ==
  \A e \in End : \A n \in 1 .. 2 + MaxSent[e] :
    (state[e] = "Bind" /\ open[e] /\ n <= Len(Whole(e)))
      ~> (Arrived(e, n) \/ n > Len(Whole(e)) \/ ~open[e] \/ far[Peer(e)] # "receiving")

\* tcpmsghandler.cpp logs "send message to peer,ret=0" of every byte that
\* business has accepted: such a byte arrives, unless its receiver does not
\* receive, a connection breaks, or the pair has timed out.
RelayedArrives ==
  \A e \in End : \A n \in 1 .. 2 + MaxSent[e] :
    (state[e] = "Bind" /\ open[e] /\ n <= Len(Whole(e)) - Len(wire[e]))
      ~> \/ Arrived(e, n) \/ far[Peer(e)] # "receiving"
         \/ far[e] = "reset" \/ (~open[e] /\ far[e] # "closed")

-----------------------------------------------------------------------------
(* The inductive invariant. *)

BoundTogether == state[1] = "Bind" <=> state[2] = "Bind"

\* Whoever has logged in has sent a login package.
Introduced == \A e \in End : state[e] # "Raw" => dropped[e] > 0

\* Before the match an end is sent nothing but the host name, and what it has
\* sent has been dropped or is still on the wire.
Unmatched ==
  \A e \in End :
    state[e] # "Bind" =>
      /\ greeting[e] \in {<<>>, <<Host>>} /\ Prefix(Pipe(e), greeting[e])
      /\ open[e] => Pipe(e) = greeting[e] /\ wire[e] = Rest(kept[e], dropped[e])

\* After it nothing gets lost between one far end and the other but what a failing
\* write loses, until the pair is removed: then the tail does.
Matched ==
  \A e \in End :
    state[e] = "Bind" =>
      IF open[e] THEN /\ Pipe(Peer(e)) \o wire[e] = Whole(e)
                      /\ dropped[e] + Len(wire[e]) <= Len(kept[e])
                 ELSE Prefix(Pipe(Peer(e)), Whole(e))

\* A write that fails loses what was read at once, and nothing else.
Thinned ==
  \A e \in End :
    Thins(kept[e], sent[e]) /\ Len(sent[e]) <= Len(kept[e]) + shortages * BufSize

IInv ==
  /\ TypeOK /\ NothingStranded
  /\ BoundTogether /\ Introduced /\ Unmatched /\ Matched /\ Thinned
=============================================================================
