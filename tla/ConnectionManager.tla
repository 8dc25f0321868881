------------------------- MODULE ConnectionManager -------------------------
(***************************************************************************)
(* How TcpServer::processMessage slows its clients down: the counters of   *)
(* ConnectionManager, the limits max_qps and max_connect, and the sleep of *)
(* 10 ms in which the one thread of the server does nothing else.          *)
(*                                                                         *)
(* Time comes in slots of 10 ms.  The server only knows time(NULL), a      *)
(* clock of whole seconds that may be set, back as well as forth.  The     *)
(* counts are unsigned and are compared as int.                            *)
(***************************************************************************)
EXTENDS Integers

CONSTANTS
  MaxQps,      \* m_maxQps: -1 for no limit
  MaxConnect,  \* m_maxConnect: -1 for no limit
  Slots,       \* slots in a second: 100
  MaxTime,     \* bound: the last second of the clock
  MaxOpen,     \* bound: open connections
  Half,        \* half of what an unsigned int can count: 2^31
  MaxRecent,   \* bound: requests in one second
  MaxSets      \* bound: how often the clock is set

ASSUME ThrottleAssumption ==
  /\ Half \in Nat \ {0}
  /\ MaxQps \in -Half .. Half - 1 /\ MaxConnect \in -Half .. Half - 1
  /\ Slots \in Nat \ {0} /\ MaxTime \in Nat
  /\ MaxOpen \in Nat /\ MaxRecent \in Nat /\ MaxSets \in Nat

VARIABLES
  pc,           \* the thread waits for an event, or sleeps in processMessage
  curTime,      \* _cur_time, or NoManager before getInstance is called
  requests,     \* _request_per_second
  connections,  \* _connections
  open,         \* the connections there are
  wall,         \* what time(NULL) returns
  slot,         \* how far the second has gone
  recent,       \* history: requests since the clock last showed another second
  shown,        \* history: slots since then
  elapsed,      \* history: slots since the count was last reset
  behind,       \* history: set back, the clock has not yet passed _cur_time
  sets          \* how often the clock has been set

vars ==
  <<pc, curTime, requests, connections, open, wall, slot, recent, shown, elapsed, behind, sets>>

NoManager == -1   \* earlier than any time(NULL)

\* getInstance creates the manager at the first request, with the time of that
\* request and a count of 0.
Init ==
  /\ pc = "idle"
  /\ curTime = NoManager /\ requests = 0 /\ connections = 0 /\ open = 0
  /\ wall = 0 /\ slot = 0
  /\ recent = 0 /\ shown = 0 /\ elapsed = 0 /\ behind = FALSE /\ sets = 0

\* listener_cb and removeSession: neither calls connectionInc.
Accept ==
  /\ pc = "idle" /\ open < MaxOpen
  /\ open' = open + 1
  /\ UNCHANGED <<pc, curTime, requests, connections, wall, slot, recent, shown, elapsed,
                 behind, sets>>

Close ==
  /\ pc = "idle" /\ open > 0
  /\ open' = open - 1
  /\ UNCHANGED <<pc, curTime, requests, connections, wall, slot, recent, shown, elapsed,
                 behind, sets>>

\* _request_per_second++ on an unsigned int.
Incremented(n) == IF n = 2 * Half - 1 THEN 0 ELSE n + 1

\* An unsigned int converted to int.
AsInt(n) == IF n < Half THEN n ELSE n - 2 * Half

\* Mutants of updateRequestsPerSecond: the count is reset every other second;
\* _cur_time is the second in which to count anew.
UpdateRarely ==
  LET anew == curTime = NoManager \/ wall > curTime + 1
  IN
  /\ requests' = IF anew THEN 1 ELSE Incremented(requests)
  /\ curTime' = IF anew THEN wall ELSE curTime
  /\ elapsed' = IF anew THEN 0 ELSE elapsed
  /\ behind' = (behind /\ ~anew)
UpdateAhead ==
  LET anew == wall >= curTime
  IN
  /\ requests' = IF anew THEN 1 ELSE Incremented(requests)
  /\ curTime' = IF anew THEN wall + 1 ELSE curTime
  /\ elapsed' = IF anew THEN 0 ELSE elapsed
  /\ behind' = (behind /\ ~anew)

\* time(NULL) counts only when it is later than ever before.
updateRequestsPerSecond ==
  LET anew == wall > curTime
  IN
  /\ requests' = IF anew THEN 1 ELSE Incremented(requests)
  /\ curTime' = IF anew THEN wall ELSE curTime
  /\ elapsed' = IF anew THEN 0 ELSE elapsed
  /\ behind' = (behind /\ ~anew)

\* Mutants of Busy: the limit itself is still allowed; both limits must be met.
BusyAbove(conn, qps) ==
  \/ MaxConnect # -1 /\ conn > MaxConnect
  \/ MaxQps # -1 /\ qps > MaxQps
BusyBoth(conn, qps) ==
  /\ MaxConnect # -1 /\ conn >= MaxConnect
  /\ MaxQps # -1 /\ qps >= MaxQps

Busy(conn, qps) ==
  \/ MaxConnect # -1 /\ conn >= MaxConnect
  \/ MaxQps # -1 /\ qps >= MaxQps

\* processMessage: the message is handled at once or after a sleep.
Request ==
  /\ pc = "idle" /\ open > 0 /\ recent < MaxRecent
  /\ updateRequestsPerSecond
  /\ pc' = IF Busy(AsInt(connections), AsInt(requests')) THEN "sleeping" ELSE "idle"
  /\ recent' = recent + 1
  /\ UNCHANGED <<connections, open, wall, slot, shown, sets>>

\* 10 ms pass, after which usleep(10000) returns or, on a busy machine, not yet.
Tick ==
  /\ slot + 1 < Slots \/ wall < MaxTime
  /\ pc' \in {pc, "idle"}
  /\ \/ /\ slot + 1 < Slots
        /\ slot' = slot + 1 /\ shown' = shown + 1
        /\ UNCHANGED <<wall, recent>>
     \/ /\ slot + 1 = Slots
        /\ slot' = 0 /\ wall' = wall + 1
        /\ recent' = 0 /\ shown' = 0
  /\ elapsed' = elapsed + 1
  /\ UNCHANGED <<curTime, requests, connections, open, behind, sets>>

\* The clock is set, to another second or within this one, which then lasts longer
\* or not as long.
SetClock ==
  /\ sets < MaxSets
  /\ \E t \in 0 .. MaxTime, s \in 0 .. Slots - 1 :
       /\ <<t, s>> # <<wall, slot>>
       /\ wall' = t /\ slot' = s
       /\ recent' = (IF t = wall THEN recent ELSE 0) /\ shown' = (IF t = wall THEN shown ELSE 0)
       /\ behind' = (behind \/ t < wall)
  /\ sets' = sets + 1
  /\ UNCHANGED <<pc, curTime, requests, connections, open, elapsed>>

Next == Accept \/ Close \/ Request \/ Tick \/ SetClock

Spec == Init /\ [][Next]_vars

-----------------------------------------------------------------------------
(* Properties *)

TypeOK ==
  /\ pc \in {"idle", "sleeping"}
  /\ curTime \in {NoManager} \cup 0 .. MaxTime /\ wall \in 0 .. MaxTime
  /\ requests \in 0 .. 2 * Half - 1 /\ recent \in Nat /\ shown \in Nat /\ elapsed \in Nat
  /\ connections \in 0 .. 2 * Half - 1 /\ open \in 0 .. MaxOpen
  /\ slot \in 0 .. Slots - 1
  /\ behind \in BOOLEAN /\ sets \in 0 .. MaxSets

\* What a second lets through without delay.
Free == IF MaxQps > 0 THEN MaxQps - 1 ELSE 0

\* The request that is being delayed.
Delayed == IF pc = "sleeping" THEN 1 ELSE 0

\* The count is not mistaken for a negative one, which would switch the throttle
\* off, before as many slots as an int can count have passed without a reset: on
\* a clock set back by 248 days.
NoEarlyOverflow == MaxQps # -1 /\ AsInt(requests) < 0 => Half <= Free + elapsed + 1

\* Until then, however the clock is set, the requests while it shows one second are
\* those that are not delayed and one for each 10 ms of the time that it does so.
RateBounded ==
  MaxQps # -1 /\ Free + elapsed + 1 < Half => recent <= Free + shown + Delayed

\* configure.h says "sleep 200ms, then busy" of sleep_mill: a request beyond the
\* limit holds the server for a fifth of a second before another is served.
SleepsThenBusy ==
  MaxQps # -1 /\ Free + elapsed + 1 < Half => recent <= Free + (5 * shown) \div Slots + Delayed

\* A request is delayed because this second has had max_qps requests already,
\* and for no other reason, unless max_connect asks for it or the clock was set
\* back and has not yet caught up.
DelayedForCause ==
  [][(pc = "idle" /\ pc' = "sleeping")
     => \/ MaxQps # -1 /\ recent' >= MaxQps
        \/ MaxConnect # -1 /\ MaxConnect <= 0
        \/ behind']_vars

-----------------------------------------------------------------------------
(* The inductive invariant. *)

\* Between two resets a request is free, or takes a slot of its own.
Paced ==
  MaxQps # -1 =>
    IF AsInt(requests) < 0 THEN Half <= Free + elapsed + 1
                           ELSE requests <= Free + elapsed + Delayed

\* The count is of this second and maybe of others, never less unless it wraps,
\* and never more unless the clock is behind.
Counted ==
  /\ connections = 0
  /\ MaxQps # -1 /\ Free + elapsed + 1 < Half => recent <= requests
  /\ wall > curTime => recent = 0
  /\ ~behind => curTime <= wall
  /\ ~behind /\ curTime = wall => requests <= recent

IInv == TypeOK /\ RateBounded /\ Paced /\ Counted
=============================================================================
