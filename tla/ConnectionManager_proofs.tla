---------------------- MODULE ConnectionManager_proofs ----------------------
(***************************************************************************)
(* Proofs about ConnectionManager, for every limit, any number of slots in *)
(* a second and any width of the integers: how many requests a second can  *)
(* have, how long the count takes to overflow, and that no request is      *)
(* delayed without a cause.                                                *)
(***************************************************************************)
EXTENDS ConnectionManager, TLAPS

LEMMA FreeIsNat == Free \in Nat
BY ThrottleAssumption DEF Free

\* What incrementing an unsigned count and reading it as an int yield.
LEMMA Unsigned ==
  ASSUME NEW n \in 0 .. 2 * Half - 1
  PROVE  /\ Incremented(n) \in 0 .. 2 * Half - 1
         /\ Incremented(n) <= n + 1
         /\ n < Half => Incremented(n) = n + 1
         /\ AsInt(n) \in Int /\ AsInt(n) <= n
         /\ AsInt(n) < 0 <=> Half <= n
         /\ AsInt(n) >= 0 => AsInt(n) = n
         /\ AsInt(n) \in -Half .. Half - 1
BY ThrottleAssumption DEF Incremented, AsInt

LEMMA InitEstablishes == Init => IInv
<1> SUFFICES ASSUME Init PROVE IInv
  OBVIOUS
<1>1. /\ 0 \in 0 .. MaxTime /\ 0 \in 0 .. 2 * Half - 1 /\ 0 \in 0 .. MaxOpen
      /\ 0 \in 0 .. MaxSets /\ 0 \in 0 .. Slots - 1 /\ 0 \in Nat
  BY ThrottleAssumption
<1>2. TypeOK
  BY <1>1, Zenon DEF Init, TypeOK
<1>3. RateBounded /\ Counted
  BY FreeIsNat DEF Init, RateBounded, Delayed, Counted, NoManager
<1>4. Paced
  BY <1>1, FreeIsNat, ThrottleAssumption DEF Init, Paced, Delayed, AsInt
<1> QED BY <1>2, <1>3, <1>4 DEF IInv

\* The facts of the invariant that a request rests on.
LEMMA Facts ==
  ASSUME IInv
  PROVE  /\ recent \in Nat /\ shown \in Nat /\ elapsed \in Nat /\ requests \in 0 .. 2 * Half - 1
         /\ curTime \in {NoManager} \cup 0 .. MaxTime /\ curTime \in Int
         /\ wall \in 0 .. MaxTime /\ slot \in 0 .. Slots - 1 /\ behind \in BOOLEAN
         /\ sets \in 0 .. MaxSets /\ pc \in {"idle", "sleeping"} /\ open \in 0 .. MaxOpen
         /\ connections = 0
         /\ Half \in Nat \ {0} /\ Slots \in Nat \ {0} /\ MaxTime \in Nat /\ MaxSets \in Nat
         /\ MaxOpen \in Nat /\ MaxQps \in Int /\ Free \in Nat
<1>1. curTime \in Int
  BY ThrottleAssumption DEF IInv, TypeOK, NoManager
<1> QED BY <1>1, FreeIsNat, ThrottleAssumption DEF IInv, TypeOK, Counted

\* What a request does to the counts, and when it is not delayed.
LEMMA RequestCounts ==
  ASSUME IInv, Request
  PROVE  /\ requests' \in 0 .. 2 * Half - 1 /\ elapsed' \in Nat
         /\ curTime' \in {NoManager} \cup 0 .. MaxTime
         /\ recent' = recent + 1 /\ wall <= curTime' /\ behind' \in BOOLEAN
         /\ ~behind' => curTime' = wall /\ requests' <= recent'
         /\ \/ requests' = 1 /\ elapsed' = 0 /\ recent' = 1
            \/ /\ requests' = Incremented(requests) /\ elapsed' = elapsed
               /\ behind' = behind
         /\ connections' = 0 /\ wall' = wall /\ slot' = slot /\ shown' = shown /\ open' = open /\ sets' = sets
         /\ pc = "idle" /\ pc' = IF Busy(0, AsInt(requests')) THEN "sleeping" ELSE "idle"
<1>1. /\ recent \in Nat /\ shown \in Nat /\ elapsed \in Nat /\ requests \in 0 .. 2 * Half - 1
      /\ curTime \in {NoManager} \cup 0 .. MaxTime /\ curTime \in Int
      /\ wall \in 0 .. MaxTime /\ behind \in BOOLEAN
      /\ Half \in Nat \ {0} /\ MaxTime \in Nat
      /\ wall > curTime => recent = 0
      /\ ~behind => curTime <= wall
      /\ ~behind /\ curTime = wall => requests <= recent
  BY Facts DEF IInv, Counted
<1>2. /\ connections' = 0 /\ wall' = wall /\ slot' = slot /\ shown' = shown /\ open' = open /\ sets' = sets
      /\ recent' = recent + 1
      /\ pc = "idle" /\ pc' = IF Busy(0, AsInt(requests')) THEN "sleeping" ELSE "idle"
  <2>1. connections = 0 /\ AsInt(0) = 0
    BY Facts, ThrottleAssumption DEF AsInt
  <2> QED BY <2>1 DEF Request
<1>3. CASE wall > curTime
  <2>1. requests' = 1 /\ curTime' = wall /\ elapsed' = 0 /\ behind' = FALSE
    BY <1>1, <1>3 DEF Request, updateRequestsPerSecond
  <2>2. recent' = 1
    BY <1>1, <1>2, <1>3
  <2>3. requests' \in 0 .. 2 * Half - 1 /\ elapsed' \in Nat /\ wall <= curTime'
    BY <1>1, <2>1
  <2>4. curTime' \in {NoManager} \cup 0 .. MaxTime /\ behind' \in BOOLEAN
    BY <1>1, <2>1
  <2> QED BY <1>2, <2>1, <2>2, <2>3, <2>4
<1>4. CASE wall <= curTime
  <2>1. requests' = Incremented(requests) /\ curTime' = curTime /\ elapsed' = elapsed
    BY <1>1, <1>4 DEF Request, updateRequestsPerSecond
  <2>2. behind' = behind
    <3>1. ~(wall > curTime)
      BY <1>1, <1>4
    <3>2. behind' = (behind /\ TRUE)
      BY <3>1, Zenon DEF Request, updateRequestsPerSecond
    <3> QED BY <1>1, <3>2
  <2>3. requests' \in 0 .. 2 * Half - 1 /\ requests' <= requests + 1
    BY <1>1, <2>1, Unsigned
  <2>4. ~behind' => curTime' = wall /\ requests' <= recent'
    BY <1>1, <1>2, <1>4, <2>1, <2>2, <2>3
  <2> QED BY <1>1, <1>2, <1>4, <2>1, <2>2, <2>3, <2>4
<1> QED BY <1>1, <1>3, <1>4

\* A request that is not delayed finds the count below the limit.
LEMMA NotDelayed ==
  ASSUME NEW n \in 0 .. 2 * Half - 1, MaxQps # -1, ~Busy(0, AsInt(n))
  PROVE  AsInt(n) < 0 \/ n <= Free
<1>1. AsInt(n) < MaxQps
  BY Unsigned, ThrottleAssumption DEF Busy
<1> QED BY <1>1, Unsigned, ThrottleAssumption DEF Free

LEMMA RequestKeeps ==
  ASSUME IInv, Request
  PROVE  IInv'
<1>1. /\ requests' \in 0 .. 2 * Half - 1 /\ elapsed' \in Nat
      /\ curTime' \in {NoManager} \cup 0 .. MaxTime
      /\ recent' = recent + 1 /\ wall <= curTime' /\ behind' \in BOOLEAN
      /\ ~behind' => curTime' = wall /\ requests' <= recent'
      /\ \/ requests' = 1 /\ elapsed' = 0 /\ recent' = 1
         \/ /\ requests' = Incremented(requests) /\ elapsed' = elapsed
            /\ behind' = behind
      /\ connections' = 0 /\ wall' = wall /\ slot' = slot /\ shown' = shown /\ open' = open /\ sets' = sets
      /\ pc = "idle" /\ pc' = IF Busy(0, AsInt(requests')) THEN "sleeping" ELSE "idle"
  BY RequestCounts
<1>2. /\ recent \in Nat /\ shown \in Nat /\ elapsed \in Nat /\ requests \in 0 .. 2 * Half - 1
      /\ slot \in 0 .. Slots - 1 /\ wall \in 0 .. MaxTime
      /\ Slots \in Nat \ {0} /\ Half \in Nat \ {0} /\ MaxTime \in Nat /\ Free \in Nat
  BY Facts
<1>3. TypeOK'
  <2>1. recent' \in Nat /\ shown' \in Nat /\ connections' \in 0 .. 2 * Half - 1
    BY <1>1, <1>2
  <2>2. pc' \in {"idle", "sleeping"}
    BY <1>1
  <2> QED BY <1>1, <2>1, <2>2, Zenon DEF IInv, TypeOK
<1>4. pc' = "idle" /\ MaxQps # -1 => AsInt(requests') < 0 \/ requests' <= Free
  BY <1>1, NotDelayed
<1>5. Delayed' = IF pc' = "sleeping" THEN 1 ELSE 0
  BY DEF Delayed
<1>6. pc' = "idle" \/ pc' = "sleeping"
  BY <1>1
<1>7. Paced /\ (MaxQps # -1 => IF AsInt(requests) < 0 THEN Half <= Free + elapsed + 1
                                                     ELSE requests <= Free + elapsed)
  BY <1>1, <1>2 DEF IInv, Paced, Delayed
<1>8. Paced'
  <2> SUFFICES ASSUME MaxQps # -1
               PROVE  IF AsInt(requests') < 0 THEN Half <= Free + elapsed' + 1
                                              ELSE requests' <= Free + elapsed' + Delayed'
    BY DEF Paced
  <2>1. AsInt(requests') < 0 <=> Half <= requests'
    BY <1>1, Unsigned
  <2>2. AsInt(requests) < 0 <=> Half <= requests
    BY <1>2, Unsigned
  <2>3. CASE requests' = 1 /\ elapsed' = 0 /\ recent' = 1
    BY <1>2, <1>4, <1>5, <1>6, <2>1, <2>3
  <2>4. CASE requests' = Incremented(requests) /\ elapsed' = elapsed
    <3>1. CASE requests < Half
      <4>1. requests' = requests + 1 /\ requests <= Free + elapsed
        BY <1>2, <1>7, <2>2, <2>4, <3>1, Unsigned
      <4> QED BY <1>2, <1>4, <1>5, <1>6, <2>1, <2>4, <4>1
    <3>2. CASE Half <= requests
      <4>1. Half <= Free + elapsed + 1
        BY <1>7, <2>2, <3>2
      <4>2. Half <= requests' \/ requests' = 0
        BY <1>2, <2>4, <3>2 DEF Incremented
      <4> QED BY <1>2, <1>5, <2>1, <2>4, <4>1, <4>2
    <3> QED BY <1>2, <3>1, <3>2
  <2> QED BY <1>1, <2>3, <2>4
<1>9. MaxQps # -1 /\ Free + elapsed' + 1 < Half => recent' <= requests' /\ requests' < Half
  <2> SUFFICES ASSUME MaxQps # -1, Free + elapsed' + 1 < Half
               PROVE  recent' <= requests' /\ requests' < Half
    OBVIOUS
  <2>1. requests' < Half
    <3>1. AsInt(requests') < 0 <=> Half <= requests'
      BY <1>1, Unsigned
    <3>2. IF AsInt(requests') < 0 THEN Half <= Free + elapsed' + 1
                                  ELSE requests' <= Free + elapsed' + Delayed'
      BY <1>8 DEF Paced
    <3>3. PICK e \in Int, n \in Int : elapsed' = e /\ requests' = n
      BY <1>1, <1>2
    <3>4. ~(Half <= Free + elapsed' + 1)
      BY <1>2, <3>3
    <3>5. ~(Half <= requests')
      BY <3>1, <3>2, <3>4
    <3> QED BY <1>2, <3>3, <3>5
  <2>2. CASE requests' = 1 /\ elapsed' = 0 /\ recent' = 1
    BY <2>1, <2>2
  <2>3. CASE requests' = Incremented(requests) /\ elapsed' = elapsed
    <3>1. recent <= requests
      BY <2>3 DEF IInv, Counted
    <3>2. requests < Half
      BY <1>2, <1>7, <2>3, Unsigned
    <3> QED BY <1>1, <1>2, <2>1, <2>3, <3>1, <3>2, Unsigned
  <2> QED BY <1>1, <2>2, <2>3
<1>10. Counted'
  <2>1. ~behind' => curTime' <= wall'
    BY <1>1, <1>2
  <2>2. wall' > curTime' => recent' = 0
    <3>1. curTime' \in Int
      BY <1>1, <1>2 DEF NoManager
    <3> QED BY <1>1, <1>2, <3>1
  <2> QED BY <1>1, <1>9, <2>1, <2>2 DEF Counted
<1>11. RateBounded'
  <2> SUFFICES ASSUME MaxQps # -1, Free + elapsed' + 1 < Half
               PROVE  recent' <= Free + shown' + Delayed'
    BY DEF RateBounded
  <2>1. CASE pc' = "sleeping"
    <3>1. Free + elapsed + 1 < Half \/ recent' = 1
      BY <1>1
    <3>2. recent <= Free + shown \/ recent' = 1
      BY <1>1, <1>2, <3>1 DEF IInv, RateBounded, Delayed
    <3> QED BY <1>1, <1>2, <1>5, <2>1, <3>2
  <2>2. CASE pc' = "idle"
    <3>1. requests' <= Free
      BY <1>1, <1>2, <1>4, <1>9, <2>2, Unsigned
    <3> QED BY <1>1, <1>2, <1>5, <1>9, <2>2, <3>1
  <2> QED BY <1>6, <2>1, <2>2
<1> QED BY <1>3, <1>8, <1>10, <1>11 DEF IInv

LEMMA TickKeeps ==
  ASSUME IInv, Tick
  PROVE  IInv'
<1>1. /\ recent \in Nat /\ shown \in Nat /\ elapsed \in Nat /\ requests \in 0 .. 2 * Half - 1
      /\ slot \in 0 .. Slots - 1 /\ wall \in 0 .. MaxTime /\ curTime \in Int
      /\ Slots \in Nat \ {0} /\ MaxTime \in Nat /\ Half \in Nat \ {0} /\ Free \in Nat
  BY Facts
<1>2. /\ UNCHANGED <<curTime, requests, connections, open, behind, sets>>
      /\ elapsed' = elapsed + 1
      /\ pc' \in {"idle", "sleeping"} /\ (pc' = "sleeping" => pc = "sleeping")
  BY DEF IInv, TypeOK, Tick
<1>3. Delayed' \in {0, 1} /\ Delayed \in {0, 1} /\ Delayed' <= Delayed
  BY <1>2 DEF Delayed
<1>4. Paced'
  <2>1. requests' = requests
    BY <1>2
  <2> QED BY <1>1, <1>2, <1>3, <2>1 DEF IInv, Paced, AsInt, Free
<1>5. CASE /\ slot + 1 < Slots /\ slot' = slot + 1 /\ shown' = shown + 1
           /\ wall' = wall /\ recent' = recent
  <2>1. TypeOK'
    <3>1. slot' \in 0 .. Slots - 1 /\ shown' \in Nat /\ elapsed' \in Nat
      BY <1>1, <1>2, <1>5
    <3> QED BY <1>2, <1>5, <3>1 DEF IInv, TypeOK
  <2>2. Counted'
    BY <1>1, <1>2, <1>5 DEF IInv, Counted
  <2>3. RateBounded'
    BY <1>1, <1>2, <1>3, <1>5 DEF IInv, RateBounded, Free
  <2> QED BY <1>4, <2>1, <2>2, <2>3 DEF IInv
<1>6. CASE slot + 1 = Slots /\ slot' = 0 /\ wall' = wall + 1 /\ recent' = 0 /\ shown' = 0
  <2>1. wall < MaxTime
    BY <1>1, <1>6 DEF Tick
  <2>2. TypeOK'
    <3>1. /\ slot' \in 0 .. Slots - 1 /\ shown' \in Nat /\ elapsed' \in Nat
          /\ wall' \in 0 .. MaxTime /\ recent' \in Nat
      BY <1>1, <1>2, <1>6, <2>1
    <3> QED BY <1>2, <3>1 DEF IInv, TypeOK
  <2>3. Counted'
    BY <1>1, <1>2, <1>6 DEF IInv, Counted
  <2>4. RateBounded'
    <3>1. PICK d \in {0, 1} : Delayed' = d
      BY <1>3
    <3>2. 0 <= Free + 0 + Delayed'
      BY <1>1, <3>1
    <3> QED BY <1>6, <3>2 DEF RateBounded
  <2> QED BY <1>4, <2>2, <2>3, <2>4 DEF IInv
<1> QED BY <1>5, <1>6 DEF Tick

LEMMA SetClockKeeps ==
  ASSUME IInv, SetClock
  PROVE  IInv'
<1>1. PICK t \in 0 .. MaxTime, s \in 0 .. Slots - 1 :
        /\ <<t, s>> # <<wall, slot>>
        /\ wall' = t /\ slot' = s
        /\ recent' = (IF t = wall THEN recent ELSE 0) /\ shown' = (IF t = wall THEN shown ELSE 0)
        /\ behind' = (behind \/ t < wall)
  BY DEF SetClock
<1>2. /\ slot \in 0 .. Slots - 1 /\ wall \in 0 .. MaxTime /\ curTime \in Int
      /\ requests \in 0 .. 2 * Half - 1 /\ elapsed \in Nat /\ sets \in 0 .. MaxSets
      /\ recent \in Nat /\ shown \in Nat
      /\ Slots \in Nat \ {0} /\ MaxTime \in Nat /\ MaxSets \in Nat /\ Free \in Nat
      /\ connections = 0
  BY Facts
<1>3. /\ UNCHANGED <<pc, curTime, requests, connections, open, elapsed>>
      /\ sets' = sets + 1 /\ sets < MaxSets
  BY DEF SetClock
<1>4. TypeOK'
  <2>1. behind' \in BOOLEAN
    BY <1>1 DEF IInv, TypeOK
  <2>2. /\ wall' \in 0 .. MaxTime /\ slot' \in 0 .. Slots - 1 /\ sets' \in 0 .. MaxSets
        /\ recent' \in Nat /\ shown' \in Nat
    BY <1>1, <1>2, <1>3
  <2> QED BY <1>3, <2>1, <2>2 DEF IInv, TypeOK
<1>5. Delayed' = Delayed /\ Delayed \in {0, 1}
  BY <1>3 DEF Delayed
<1>6. Paced'
  BY <1>2, <1>3, <1>5 DEF Paced, IInv, AsInt
<1>7. CASE t = wall
  <2>1. recent' = recent /\ shown' = shown /\ wall' = wall /\ behind' = behind
    <3>1. ~(t < wall)
      BY <1>2, <1>7
    <3>2. behind' = (behind \/ FALSE) /\ behind \in BOOLEAN
      BY <1>1, <3>1, Zenon DEF IInv, TypeOK
    <3>3. behind' = behind
      BY <3>2
    <3> QED BY <1>1, <1>7, <3>3
  <2>2. Counted' /\ RateBounded'
    BY <1>3, <1>5, <2>1 DEF IInv, Counted, RateBounded
  <2> QED BY <1>4, <1>6, <2>2 DEF IInv
<1>8. CASE t # wall
  <2>1. recent' = 0 /\ shown' = 0
    BY <1>1, <1>8
  <2>2. ~behind' => ~behind /\ wall < wall'
    <3>1. ~behind' => ~behind /\ ~(t < wall)
      BY <1>1, Zenon
    <3>2. ~(t < wall) => wall < wall'
      BY <1>1, <1>2, <1>8
    <3> QED BY <3>1, <3>2
  <2>3. ~behind => curTime <= wall
    BY DEF IInv, Counted
  <2>4. wall' \in 0 .. MaxTime
    BY <1>1
  <2>5. ~behind' => curTime' < wall'
    BY <1>2, <1>3, <2>2, <2>3, <2>4
  <2>6. ~behind' => curTime' <= wall' /\ curTime' # wall'
    BY <1>2, <1>3, <2>4, <2>5
  <2>7. connections' = 0 /\ recent' <= requests' /\ recent' = 0
    BY <1>2, <1>3, <2>1
  <2>8. Counted'
    BY <2>6, <2>7 DEF Counted
  <2>9. RateBounded'
    BY <1>2, <1>5, <2>1 DEF RateBounded
  <2> QED BY <1>4, <1>6, <2>8, <2>9 DEF IInv
<1> QED BY <1>7, <1>8

LEMMA StepKeeps == IInv /\ [Next]_vars => IInv'
<1> SUFFICES ASSUME IInv, [Next]_vars PROVE IInv'
  OBVIOUS
<1>1. CASE UNCHANGED vars
  BY <1>1 DEF vars, IInv, TypeOK, RateBounded, Paced, Delayed, AsInt, Counted
<1>2. CASE Accept \/ Close
  BY <1>2, ThrottleAssumption
  DEF Accept, Close, IInv, TypeOK, RateBounded, Paced, Delayed, AsInt, Counted
<1>3. CASE Request
  BY <1>3, RequestKeeps
<1>4. CASE Tick
  BY <1>4, TickKeeps
<1>5. CASE SetClock
  BY <1>5, SetClockKeeps
<1> QED BY <1>1, <1>2, <1>3, <1>4, <1>5 DEF Next

\* The counters and the clock agree in every reachable state.
THEOREM Invariance == Spec => []IInv
BY InitEstablishes, StepKeeps, PTL DEF Spec

\* The variables keep their types.
THEOREM TypeCorrect == Spec => []TypeOK
<1>1. IInv => TypeOK
  BY DEF IInv
<1> QED BY <1>1, Invariance, PTL

\* However the clock is set, the server takes no more requests while it shows one
\* second than max_qps less one and one for each 10 ms of the time that it does
\* so, as long as the count has not had the time to overflow.
THEOREM RateIsBounded == Spec => []RateBounded
<1>1. IInv => RateBounded
  BY DEF IInv
<1> QED BY <1>1, Invariance, PTL

\* The count overflows only after as many slots without a reset as an int can
\* count, less those requests that are free.
THEOREM OverflowTakesLong == Spec => []NoEarlyOverflow
<1>1. IInv => NoEarlyOverflow
  BY DEF IInv, Paced, NoEarlyOverflow
<1> QED BY <1>1, Invariance, PTL

LEMMA StepHasCause ==
  ASSUME IInv, [Next]_vars, pc = "idle", pc' = "sleeping"
  PROVE  \/ MaxQps # -1 /\ recent' >= MaxQps
         \/ MaxConnect # -1 /\ MaxConnect <= 0
         \/ behind'
<1>1. Request
  BY DEF Next, Accept, Close, Tick, SetClock, vars
<1>2. /\ Busy(0, AsInt(requests')) /\ (~behind' => requests' <= recent')
      /\ requests' \in 0 .. 2 * Half - 1 /\ recent' \in Nat
  BY <1>1, RequestCounts, Facts
<1>3. AsInt(requests') \in Int /\ AsInt(requests') <= requests'
  BY <1>2, Unsigned
<1> QED BY <1>2, <1>3, ThrottleAssumption DEF Busy

\* No request is delayed but by a limit, or by a clock that was set back.
THEOREM NoDelayWithoutCause == Spec => DelayedForCause
<1>1. IInv /\ [Next]_vars =>
        [(pc = "idle" /\ pc' = "sleeping")
         => \/ MaxQps # -1 /\ recent' >= MaxQps
            \/ MaxConnect # -1 /\ MaxConnect <= 0
            \/ behind']_vars
  BY StepHasCause
<1> QED BY <1>1, Invariance, PTL DEF Spec, DelayedForCause
=============================================================================
