------------------------- MODULE LoginPackage_proofs -------------------------
(***************************************************************************)
(* Proofs about LoginPackage, for every TELPROXY_SYN and reads of any      *)
(* length: what strnstr's loop has passed by, that nothing outside the     *)
(* read is looked at, and that a session is logged in with the package at  *)
(* the first sync and is refused only if there is none.                    *)
(***************************************************************************)
EXTENDS LoginPackage, SequenceTheorems, TLAPS

LEMMA Lengths ==
  /\ Len(Sync) \in Nat \ {0} /\ Size = Len(Sync) + 3 /\ Size \in Nat \ {0}
  /\ Len(<<>>) = 0
  /\ \A d \in Data : Len(d) \in Nat \ {0} /\ d \in Seq(Byte)
  /\ <<>> \notin Data
<1>1. Len(Sync) \in Nat \ {0}
  BY LoginAssumption, LenProperties, EmptySeq
<1>2. ASSUME NEW d \in Data
      PROVE  Len(d) \in Nat \ {0} /\ d \in Seq(Byte)
  <2>1. PICK n \in 1 .. MaxLen : d \in [1 .. n -> Byte]
    BY DEF Data
  <2>2. n \in Nat \ {0}
    BY <2>1, LoginAssumption
  <2>3. d \in Seq(Byte) /\ Len(d) = n
    BY <2>1, <2>2
  <2> QED BY <2>2, <2>3
<1>3. Len(<<>>) = 0
  OBVIOUS
<1>4. <<>> \notin Data
  BY <1>2, <1>3
<1> QED BY <1>1, <1>2, <1>3, <1>4 DEF Size

LEMMA AtInByte ==
  ASSUME NEW d \in Data, NEW i
  PROVE  At(d, i) \in Byte
<1>1. d \in Seq(Byte)
  BY Lengths
<1> QED BY <1>1, ElementOfSeq, LoginAssumption DEF At

LEMMA WelcomeIsCard ==
  ASSUME NEW d \in Data, NEW i, Welcome(Fields(d, i))
  PROVE  Fields(d, i) \in [type : CardType, id : Byte \ {NUL}]
<1>1. At(d, i + Len(Sync) + 2) \in Byte
  BY AtInByte
<1> QED BY <1>1 DEF Fields, Welcome

LEMMA LaterIsLater ==
  ASSUME touched \in Nat, NEW i \in Nat
  PROVE  /\ Later(i) \in Nat
         /\ \A n \in Nat : touched <= n /\ i <= n => Later(i) <= n
BY DEF Later

LEMMA InitEstablishes == Init => IInv
<1> SUFFICES ASSUME Init PROVE IInv
  OBVIOUS
<1>1. TypeOK /\ ReadsInside
  <2>1. TypeOK
    <3>1. data = <<>>
      BY DEF Init
    <3>2. data \in Data \cup {<<>>}
      BY <3>1, Zenon
    <3>3. p \in Nat \ {0} /\ touched \in Nat
      BY DEF Init
    <3> QED BY <3>2, <3>3, Zenon DEF Init, TypeOK
  <2>2. touched = 0 /\ data = <<>> /\ Len(<<>>) = 0
    BY Lengths DEF Init
  <2>3. touched <= Len(data)
    BY <2>2
  <2> QED BY <2>1, <2>3 DEF ReadsInside
<1>2. Decided /\ Passed
  BY DEF Init, Decided, Passed
<1> QED BY <1>1, <1>2 DEF IInv

LEMMA ReadKeeps ==
  ASSUME IInv, NEW d \in Data, Read(d)
  PROVE  IInv'
<1>1. /\ pc = "raw" /\ data' = d /\ p' = 1 /\ touched' = 1 /\ card' = card
      /\ starved' = starved /\ card = NULL
      /\ pc' = IF Len(d) < Size \/ d[1] = NUL THEN "refused" ELSE "strnstr"
  BY DEF Read, IInv, Decided
<1>2. Len(d) \in Nat \ {0} /\ Size \in Nat \ {0}
  BY Lengths
<1>3. TypeOK' /\ ReadsInside'
  BY <1>1, <1>2 DEF IInv, TypeOK, ReadsInside
<1>4. CASE pc' = "refused"
  <2>1. ASSUME Len(d) < Size, NEW i \in 1 .. Len(d) PROVE ~PackageAt(d, i)
    BY <1>2, <2>1 DEF PackageAt
  <2>2. d[1] = NUL \/ \A i \in 1 .. Len(d) : FirstSync(d, i) => ~PackageAt(d, i)
    BY <1>1, <1>4, <2>1
  <2>3. Decided'
    BY <1>1, <1>4, <2>2 DEF Decided
  <2>4. Passed'
    BY <1>4 DEF Passed
  <2> QED BY <1>3, <2>3, <2>4 DEF IInv
<1>5. CASE pc' = "strnstr"
  <2>1. Decided'
    BY <1>1, <1>5 DEF Decided
  <2>2. Size <= Len(d) /\ 1 <= Len(d)
    BY <1>1, <1>2, <1>5
  <2>3. Passed'
    BY <1>1, <1>2, <1>5, <2>2 DEF Passed
  <2> QED BY <1>3, <2>1, <2>3 DEF IInv
<1> QED BY <1>1, <1>4, <1>5

LEMMA StrnstrKeeps ==
  ASSUME IInv, Strnstr
  PROVE  IInv'
<1> DEFINE pend == Len(data) - Len(Sync) + 1
<1>1. /\ pc = "strnstr" /\ data' = data /\ card' = card /\ starved' = starved /\ card = NULL
      /\ data \in Data /\ Size <= Len(data) /\ p <= Len(data) /\ p \in Nat \ {0}
      /\ touched \in Nat /\ touched <= Len(data)
      /\ \A j \in 1 .. p - 1 : ~StandsAt(data, j)
  BY DEF Strnstr, Pend, Onward, IInv, TypeOK, ReadsInside, Decided, Passed
<1>2. /\ Len(Sync) \in Nat \ {0} /\ Size = Len(Sync) + 3 /\ Len(data) \in Nat \ {0}
      /\ pend \in Int
  BY <1>1, Lengths
<1>3. CASE p < pend /\ SyncAt(data, p)
  <2>1. pc' = "check" /\ p' = p /\ touched' = Later(p + Len(Sync) - 1)
    BY <1>3, <1>2, <1>1 DEF Strnstr, Pend, Onward
  <2>2. p + Len(Sync) - 1 \in Nat /\ p + Len(Sync) - 1 <= Len(data)
    BY <1>1, <1>2, <1>3
  <2>3. touched' \in Nat /\ touched' <= Len(data)
    BY <1>1, <1>2, <2>1, <2>2, LaterIsLater
  <2>4. TypeOK' /\ ReadsInside'
    BY <1>1, <2>1, <2>3 DEF IInv, TypeOK, ReadsInside
  <2>5. StandsAt(data, p)
    BY <1>3, <2>2 DEF StandsAt
  <2>6. Decided' /\ Passed'
    BY <1>1, <2>1, <2>5 DEF Decided, Passed
  <2> QED BY <2>4, <2>6 DEF IInv
<1>4. CASE p < pend /\ ~SyncAt(data, p)
  <2>1. /\ pc' = pc /\ p' = p + 1
        /\ touched' = Later(IF data[p] = Sync[1] THEN p + Len(Sync) - 1 ELSE p)
    BY <1>1, <1>2, <1>4 DEF Strnstr, Pend, Onward
  <2>2. /\ p + Len(Sync) - 1 \in Nat /\ p + Len(Sync) - 1 <= Len(data)
        /\ p' \in Nat \ {0} /\ p' <= Len(data)
    BY <1>1, <1>2, <1>4, <2>1
  <2>3. touched' \in Nat /\ touched' <= Len(data)
    <3> DEFINE i == IF data[p] = Sync[1] THEN p + Len(Sync) - 1 ELSE p
    <3>1. i \in Nat /\ i <= Len(data)
      BY <1>1, <2>2
    <3> HIDE DEF i
    <3>2. Later(i) \in Nat /\ Later(i) <= Len(data)
      BY <1>1, <1>2, <3>1, LaterIsLater
    <3> QED BY <2>1, <3>2 DEF i
  <2>4. TypeOK' /\ ReadsInside'
    BY <1>1, <2>1, <2>2, <2>3 DEF IInv, TypeOK, ReadsInside
  <2>5. \A j \in 1 .. p' - 1 : ~StandsAt(data, j)
    <3>1. ~StandsAt(data, p)
      BY <1>4 DEF StandsAt
    <3>2. \A j \in 1 .. p' - 1 : j \in 1 .. p - 1 \/ j = p
      BY <1>1, <2>1
    <3> QED BY <1>1, <3>1, <3>2
  <2>6. Decided' /\ Passed'
    BY <1>1, <2>1, <2>2, <2>5 DEF Decided, Passed
  <2> QED BY <2>4, <2>6 DEF IInv
<1>5. CASE p >= pend
  <2>1. pc' = "refused" /\ p' = p /\ touched' = touched
    BY <1>1, <1>2, <1>5 DEF Strnstr, Pend, Onward
  <2>2. TypeOK' /\ ReadsInside'
    BY <1>1, <2>1 DEF IInv, TypeOK, ReadsInside
  <2>3. ASSUME NEW i \in 1 .. Len(data), PackageAt(data, i) PROVE FALSE
    <3>1. i + Size - 1 <= Len(data) /\ StandsAt(data, i)
      BY <2>3 DEF PackageAt
    <3>2. i \in 1 .. p - 1
      BY <1>1, <1>2, <1>5, <3>1
    <3> QED BY <1>1, <3>1, <3>2
  <2>4. Decided' /\ Passed'
    BY <1>1, <2>1, <2>3 DEF Decided, Passed
  <2> QED BY <2>2, <2>4 DEF IInv
<1>6. p < pend \/ p >= pend
  BY <1>1, <1>2
<1> QED BY <1>3, <1>4, <1>5, <1>6

LEMMA CheckKeeps ==
  ASSUME IInv, Check
  PROVE  IInv'
<1> DEFINE whole == Len(data) - (p - 1) >= Size
<1>1. /\ pc = "check" /\ data' = data /\ p' = p /\ card' = card /\ starved' = starved
      /\ card = NULL /\ data \in Data /\ Size <= Len(data) /\ p <= Len(data) /\ p \in Nat \ {0}
      /\ touched \in Nat /\ touched <= Len(data)
      /\ StandsAt(data, p) /\ \A j \in 1 .. p - 1 : ~StandsAt(data, j)
      /\ pc' = IF whole /\ Welcome(Fields(data, p)) THEN "store" ELSE "refused"
      /\ touched' = IF whole THEN Later(p + Size - 1) ELSE touched
  BY DEF Check, Enough, IInv, TypeOK, ReadsInside, Decided, Passed
<1>2. Size \in Nat \ {0} /\ Len(data) \in Nat \ {0}
  BY <1>1, Lengths
<1>3. touched' \in Nat /\ touched' <= Len(data)
  <2>1. CASE whole
    <3>1. p + Size - 1 \in Nat /\ p + Size - 1 <= Len(data)
      BY <1>1, <1>2, <2>1
    <3>2. Later(p + Size - 1) \in Nat /\ Later(p + Size - 1) <= Len(data)
      BY <1>1, <1>2, <3>1, LaterIsLater
    <3> QED BY <1>1, <2>1, <3>2
  <2>2. CASE ~whole
    BY <1>1, <2>2
  <2> QED BY <2>1, <2>2
<1>4. TypeOK' /\ ReadsInside'
  BY <1>1, <1>3 DEF IInv, TypeOK, ReadsInside
<1>5. CASE whole /\ Welcome(Fields(data, p))
  <2>1. PackageAt(data, p)
    BY <1>1, <1>2, <1>5 DEF PackageAt
  <2>2. Decided' /\ Passed'
    BY <1>1, <1>5, <2>1 DEF Decided, Passed
  <2> QED BY <1>4, <2>2 DEF IInv
<1>6. CASE ~(whole /\ Welcome(Fields(data, p)))
  <2>1. ASSUME NEW i \in 1 .. Len(data), FirstSync(data, i) PROVE ~PackageAt(data, i)
    <3>1. StandsAt(data, i) /\ \A j \in 1 .. i - 1 : ~StandsAt(data, j)
      BY <2>1 DEF FirstSync
    <3>2. i = p
      <4>1. i \notin 1 .. p - 1 /\ p \notin 1 .. i - 1
        BY <1>1, <3>1
      <4> QED BY <1>1, <1>2, <4>1
    <3> QED BY <1>1, <1>2, <1>6, <3>2 DEF PackageAt
  <2>2. Decided' /\ Passed'
    BY <1>1, <1>6, <2>1 DEF Decided, Passed
  <2> QED BY <1>4, <2>2 DEF IInv
<1> QED BY <1>5, <1>6

LEMMA StoreKeeps ==
  ASSUME IInv, Store
  PROVE  IInv'
<1>1. /\ pc = "store" /\ data' = data /\ p' = p /\ touched' = touched
      /\ data \in Data /\ Size <= Len(data) /\ p <= Len(data) /\ p \in Nat \ {0}
      /\ StandsAt(data, p) /\ PackageAt(data, p) /\ \A j \in 1 .. p - 1 : ~StandsAt(data, j)
  BY DEF Store, IInv, TypeOK, Passed
<1>2. ReadsInside'
  BY <1>1 DEF IInv, ReadsInside
<1>3. CASE pc' = "login" /\ card' = Fields(data, p) /\ starved' = FALSE
  <2>1. card' \in [type : CardType, id : Byte \ {NUL}]
    BY <1>1, <1>3, WelcomeIsCard DEF PackageAt
  <2>2. TypeOK'
    BY <1>1, <1>3, <2>1 DEF IInv, TypeOK
  <2>3. p \in 1 .. Len(data) /\ FirstSync(data, p)
    BY <1>1, Lengths DEF FirstSync
  <2>4. Decided' /\ Passed'
    BY <1>1, <1>3, <2>3 DEF Decided, Passed
  <2> QED BY <1>2, <2>2, <2>4 DEF IInv
<1>4. CASE pc' = "refused" /\ card' = NULL /\ starved' = TRUE
  <2>1. TypeOK'
    BY <1>1, <1>4 DEF IInv, TypeOK
  <2>2. Decided' /\ Passed'
    BY <1>4 DEF Decided, Passed
  <2> QED BY <1>2, <2>1, <2>2 DEF IInv
<1> QED BY <1>3, <1>4 DEF Store

LEMMA ReturnKeeps ==
  ASSUME IInv, Return
  PROVE  IInv'
<1>1. TypeOK' /\ ReadsInside'
  <2>1. TypeOK'
    <3>1. data' = <<>>
      BY DEF Return
    <3>2. data' \in Data \cup {<<>>}
      BY <3>1, Zenon
    <3>3. p' \in Nat \ {0} /\ touched' \in Nat
      BY DEF Return
    <3> QED BY <3>2, <3>3, Zenon DEF Return, IInv, TypeOK
  <2>2. touched' = 0 /\ data' = <<>> /\ Len(<<>>) = 0
    BY Lengths DEF Return
  <2>3. touched' <= Len(data')
    BY <2>2
  <2> QED BY <2>1, <2>3 DEF ReadsInside
<1>2. Decided' /\ Passed'
  BY DEF Return, IInv, Decided, Passed
<1> QED BY <1>1, <1>2 DEF IInv

LEMMA StepKeeps == IInv /\ [Next]_vars => IInv'
<1> SUFFICES ASSUME IInv, [Next]_vars PROVE IInv'
  OBVIOUS
<1>1. CASE UNCHANGED vars
  BY <1>1 DEF vars, IInv, TypeOK, ReadsInside, Decided, Passed
<1>2. CASE Next
  BY <1>2, ReadKeeps, StrnstrKeeps, CheckKeeps, StoreKeeps, ReturnKeeps DEF Next
<1> QED BY <1>1, <1>2

\* The loop invariant of strnstr and what login makes of its result hold always.
THEOREM Invariance == Spec => []IInv
BY InitEstablishes, StepKeeps, PTL DEF Spec

\* The variables keep their types; a card that is set has a type and an id.
THEOREM TypeCorrect == Spec => []TypeOK
<1>1. IInv => TypeOK
  BY DEF IInv
<1> QED BY <1>1, Invariance, PTL

\* No byte that was not received is looked at, however short the read is and
\* wherever in it the sync stands.
THEOREM InsideTheRead == Spec => []ReadsInside
<1>1. IInv => ReadsInside
  BY DEF IInv
<1> QED BY <1>1, Invariance, PTL

\* Stopping one place early, strnstr still finds every package that login could
\* accept, and never any but the first.
THEOREM FirstPackageDecides == Spec => []Decided
<1>1. IInv => Decided
  BY DEF IInv
<1> QED BY <1>1, Invariance, PTL

-----------------------------------------------------------------------------
(* LoginPackage implements Admission. *)

LEMMA NextKeepsKept == IInv /\ Kept /\ [Next]_vars => Kept'
<1> SUFFICES ASSUME IInv, Kept, [Next]_vars PROVE Kept'
  OBVIOUS
<1>1. CASE UNCHANGED vars
  BY <1>1 DEF vars, Kept
<1>2. ASSUME NEW d \in Data, Read(d) PROVE Kept'
  BY <1>2 DEF Read, Kept
<1>3. CASE Strnstr
  <2>1. pc = "strnstr" /\ pc' \in {"strnstr", "check", "refused"}
        /\ data' = data /\ starved' = starved
    BY <1>3 DEF Strnstr, Pend, Onward
  <2> QED BY <2>1 DEF Kept
<1>4. CASE Check
  <2>1. pc = "check" /\ pc' \in {"store", "refused"} /\ data' = data /\ starved' = starved
    BY <1>4 DEF Check, Enough
  <2> QED BY <2>1 DEF Kept
<1>5. CASE Store
  <2>1. pc = "store" /\ pc' \in {"login", "refused"} /\ data' = data
    BY <1>5 DEF Store
  <2> QED BY <2>1 DEF Kept
<1>6. CASE Return
  BY <1>6 DEF Return, Kept
<1> QED BY <1>1, <1>2, <1>3, <1>4, <1>5, <1>6 DEF Next

LEMMA KeptAlways == Spec => []Kept
<1>1. Init => Kept
  BY DEF Init, Kept
<1> QED BY <1>1, NextKeepsKept, Invariance, PTL DEF Spec

\* There is one first Sync, so a package there is the package of the read.
LEMMA CardOfPackage ==
  ASSUME NEW d \in Data, d[1] # NUL, NEW i \in 1 .. Len(d), FirstSync(d, i), PackageAt(d, i)
  PROVE  CardOf(d) = Fields(d, i) /\ CardOf(d) # NULL
<1>1. Len(d) \in Nat
  BY Lengths
<1>2. ASSUME NEW j \in 1 .. Len(d), FirstSync(d, j) PROVE j = i
  <2>1. i \notin 1 .. j - 1 /\ j \notin 1 .. i - 1
    BY <1>2 DEF FirstSync
  <2> QED BY <1>1, <2>1
<1>3. (CHOOSE j \in 1 .. Len(d) : FirstSync(d, j)) = i
  BY <1>2
<1>4. Bears(d)
  BY DEF Bears
<1>5. Fields(d, i) # NULL
  <2>1. Fields(d, i) \in [type : CardType, id : Byte]
    BY WelcomeIsCard DEF PackageAt
  <2> QED BY <2>1, LoginAssumption
<1> QED BY <1>3, <1>4, <1>5 DEF CardOf

AdmissionNext == [Admission!Next]_Admission!admissionVars

LEMMA AdmissionStarts == Init => Admission!Init
BY DEF Init, Admission!Init

\* Read asks, Store admits or runs out of memory, Return refuses, and the turns
\* of the search are nobody's business.
LEMMA AdmissionStep == IInv /\ Kept /\ [Next]_vars => AdmissionNext
<1> SUFFICES ASSUME IInv, Kept, [Next]_vars PROVE AdmissionNext
  OBVIOUS
<1> USE DEF AdmissionNext
<1>0. <<>> \notin Data
  BY Lengths
<1>1. CASE UNCHANGED vars
  BY <1>1 DEF vars, Admission!admissionVars
<1>2. ASSUME NEW d \in Data, Read(d) PROVE AdmissionNext
  <2>1. /\ pc = "raw" /\ pc' # "login" /\ data' = d /\ data = <<>>
        /\ card' = card /\ card = NULL /\ starved' = starved
    BY <1>2 DEF Read, Kept, IInv, Decided
  <2>2. Admission!Ask
    BY <2>1 DEF Admission!Ask
  <2> QED BY <2>2 DEF Admission!Next
<1>3. CASE Strnstr \/ Check
  <2>1. /\ pc # "login" /\ pc' # "login"
        /\ data' = data /\ card' = card /\ starved' = starved
    BY <1>3 DEF Strnstr, Check
  <2> QED BY <2>1 DEF Admission!admissionVars
<1>4. CASE Store
  <2>1. /\ pc = "store" /\ data' = data /\ data \in Data /\ data[1] # NUL /\ ~starved
        /\ p \in 1 .. Len(data) /\ FirstSync(data, p) /\ PackageAt(data, p)
    <3>1. /\ pc = "store" /\ data' = data /\ data \in Data /\ data[1] # NUL /\ ~starved
          /\ p \in Nat \ {0} /\ p <= Len(data) /\ PackageAt(data, p) /\ StandsAt(data, p)
          /\ \A j \in 1 .. p - 1 : ~StandsAt(data, j)
      BY <1>4 DEF Store, Kept, IInv, TypeOK, Passed
    <3> QED BY <3>1, Lengths DEF FirstSync
  <2>2. CardOf(data) = Fields(data, p) /\ CardOf(data) # NULL
    BY <2>1, CardOfPackage
  <2>3. data # <<>>
    BY <1>0, <2>1
  <2>4. starved = FALSE /\ card = NULL
    BY <2>1 DEF IInv, TypeOK, Decided
  <2>5. CASE pc' = "login" /\ card' = Fields(data, p) /\ starved' = FALSE
    <3>1. Admission!Admit
      BY <2>1, <2>2, <2>3, <2>4, <2>5 DEF Admission!Admit, Admission!Bears
    <3> QED BY <3>1 DEF Admission!Next
  <2>6. CASE pc' = "refused" /\ card' = NULL /\ starved' = TRUE
    <3>1. Admission!RunOut
      BY <2>1, <2>2, <2>3, <2>4, <2>6 DEF Admission!RunOut, Admission!Bears
    <3> QED BY <3>1 DEF Admission!Next
  <2> QED BY <1>4, <2>5, <2>6 DEF Store
<1>5. CASE Return
  <2>1. /\ pc = "refused" /\ pc' = "raw" /\ data \in Data /\ data' = <<>>
        /\ starved' = FALSE /\ card' = card
    BY <1>5 DEF Return, Kept
  <2>2. starved \/ CardOf(data) = NULL
    BY <2>1 DEF IInv, Decided, CardOf, Bears
  <2>3. Admission!Refuse
    BY <1>0, <2>1, <2>2 DEF Admission!Refuse
  <2> QED BY <2>3 DEF Admission!Next
<1> QED BY <1>1, <1>2, <1>3, <1>4, <1>5 DEF Next

\* The search through data[] with all that can go wrong in it is, seen from
\* outside, one answer to one read: the card it bears, or none.
THEOREM Admitting == Spec => AdmissionSpec
BY AdmissionStarts, AdmissionStep, Invariance, KeptAlways, PTL
   DEF Spec, AdmissionSpec, Admission!Spec, AdmissionNext
=============================================================================
