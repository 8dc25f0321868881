---------------------------- MODULE LoginPackage ----------------------------
(***************************************************************************)
(* How a raw session tells a login package from anything else a connection *)
(* may send: Session::login and the strnstr of session.h, run on the bytes *)
(* of one read at a time.  Nothing is kept from one read to the next, so a *)
(* package counts only if all of it is in the same read.                   *)
(*                                                                         *)
(* A package is TELPROXY_SYN and three fields: len, which nobody looks at, *)
(* type and id.  A field is one unit here, an id is told by its first byte.*)
(***************************************************************************)
EXTENDS Integers, Sequences

CONSTANTS
  Byte,     \* the bytes and fields there may be
  Sync,     \* TELPROXY_SYN
  NUL,      \* the byte 0
  CardType, \* the two types of UCard, a device's and a client's
  MaxLen,   \* bound: the most that is read at once, at least a package
  NULL

Size == Len(Sync) + 3   \* sizeof(TelProxyLogin)

ASSUME LoginAssumption ==
  /\ NUL \in Byte /\ CardType \subseteq Byte
  /\ Sync \in Seq(Byte \ {NUL}) /\ Sync # <<>>
  /\ MaxLen \in Nat /\ NULL \notin [type : CardType, id : Byte]

\* What one read can return; the rest of data[4096] is zero.
Data == UNION {[1 .. n -> Byte] : n \in 1 .. MaxLen}
At(d, i) == IF i \in 1 .. Len(d) THEN d[i] ELSE NUL

VARIABLES
  pc,       \* how far processMessage has come: see TypeOK
  data,     \* what it has read
  p,        \* the pointer p of strnstr, then sync; 1 is the first byte
  card,     \* m_meetee[0].userData
  touched,  \* history: the last place in data that has been looked at
  starved   \* history: calloc has failed for this read

vars == <<pc, data, p, card, touched, starved>>

Init ==
  /\ pc = "raw" /\ data = <<>> /\ p = 1 /\ card = NULL
  /\ touched = 0 /\ starved = FALSE

\* Sync stands at i, as memcmp sees it.
SyncAt(d, i) == \A j \in 1 .. Len(Sync) : At(d, i + j - 1) = Sync[j]

Later(i) == IF touched < i THEN i ELSE touched

\* bufferevent_read, and the early returns of login and strnstr: less than a
\* package, or a NUL in front.
Read(d) ==
  /\ pc = "raw"
  /\ data' = d
  /\ pc' = IF Len(d) < Size \/ d[1] = NUL THEN "refused" ELSE "strnstr"
  /\ p' = 1
  /\ touched' = 1
  /\ UNCHANGED <<card, starved>>

\* Mutant of Pend: no further than a whole package may start, with the same p < pend.
PendForPackage == Len(data) - Size + 1

\* pend of strnstr, the last place at which Sync could stand.
Pend == Len(data) - Len(Sync) + 1

\* Mutant of Onward: p is not moved when the first byte alone is right.
OnwardStays == IF data[p] = Sync[1] THEN p ELSE p + 1

Onward == p + 1

\* One turn of strnstr's loop.  It stops at p < pend, one place early.
Strnstr ==
  /\ pc = "strnstr"
  /\ \/ /\ p < Pend /\ SyncAt(data, p)
        /\ pc' = "check" /\ p' = p
        /\ touched' = Later(p + Len(Sync) - 1)
     \/ /\ p < Pend /\ ~SyncAt(data, p)
        /\ pc' = pc /\ p' = Onward
        /\ touched' = Later(IF data[p] = Sync[1] THEN p + Len(Sync) - 1 ELSE p)
     \/ /\ p >= Pend
        /\ pc' = "refused"
        /\ UNCHANGED <<p, touched>>
  /\ UNCHANGED <<data, card, starved>>

\* The fields of a package at i.
Fields(d, i) == [type |-> At(d, i + Len(Sync) + 1), id |-> At(d, i + Len(Sync) + 2)]
Welcome(fields) == fields.type \in CardType /\ fields.id # NUL

\* Mutant of Enough: what follows sync is not measured.
EnoughAssumed == TRUE

\* len - (sync - data) < sizeof(package) is not the case.
Enough == Len(data) - (p - 1) >= Size

\* Mutant of Check: the type is not checked.
CheckAnyType ==
  /\ pc = "check"
  /\ pc' = IF Enough /\ Fields(data, p).id # NUL THEN "store" ELSE "refused"
  /\ touched' = IF Enough THEN Later(p + Size - 1) ELSE touched
  /\ UNCHANGED <<data, p, card, starved>>

\* The checks of login on the first sync in the data, whatever follows it.
Check ==
  /\ pc = "check"
  /\ pc' = IF Enough /\ Welcome(Fields(data, p)) THEN "store" ELSE "refused"
  /\ touched' = IF Enough THEN Later(p + Size - 1) ELSE touched
  /\ UNCHANGED <<data, p, card, starved>>

\* setUserData, whose calloc may fail, and SStateLogin.
Store ==
  /\ pc = "store"
  /\ \/ pc' = "login" /\ card' = Fields(data, p) /\ starved' = FALSE
     \/ pc' = "refused" /\ card' = NULL /\ starved' = TRUE
  /\ UNCHANGED <<data, p, touched>>

\* processMessage returns, and its data[] is gone.
Return ==
  /\ pc = "refused"
  /\ pc' = "raw" /\ data' = <<>> /\ p' = 1 /\ touched' = 0 /\ starved' = FALSE
  /\ UNCHANGED card

\* After "login" the session is TcpServer's.
Next == (\E d \in Data : Read(d)) \/ Strnstr \/ Check \/ Store \/ Return

Spec == Init /\ [][Next]_vars

\* The one thread of the server runs the callback to its end.
FairSpec == Spec /\ WF_vars(Strnstr \/ Check \/ Store \/ Return)

-----------------------------------------------------------------------------
(* Properties *)

TypeOK ==
  /\ pc \in {"raw", "strnstr", "check", "store", "refused", "login"}
  /\ data \in Data \cup {<<>>}
  /\ p \in Nat \ {0}
  /\ card \in [type : CardType, id : Byte \ {NUL}] \cup {NULL}
  /\ touched \in Nat
  /\ starved \in BOOLEAN

\* Neither memcmp nor memcpy looks at a byte that was not received.
ReadsInside == touched <= Len(data)

\* Where a reader of the protocol would look for the package: at the first Sync
\* in the data.
StandsAt(d, i) == i + Len(Sync) - 1 <= Len(d) /\ SyncAt(d, i)
FirstSync(d, i) == StandsAt(d, i) /\ \A j \in 1 .. i - 1 : ~StandsAt(d, j)
PackageAt(d, i) == i + Size - 1 <= Len(d) /\ StandsAt(d, i) /\ Welcome(Fields(d, i))

\* A session is logged in exactly with the package at the first Sync of a single
\* read, and is refused only if there is none, or a NUL is in front, or memory
\* has run out.
Decided ==
  /\ pc = "login" =>
       \E i \in 1 .. Len(data) :
         FirstSync(data, i) /\ PackageAt(data, i) /\ card = Fields(data, i)
  /\ pc = "refused" =>
       \/ starved \/ data[1] = NUL
       \/ \A i \in 1 .. Len(data) : FirstSync(data, i) => ~PackageAt(data, i)
  /\ pc # "login" => card = NULL

\* The card that a read bears: that of the package at its first Sync.
Bears(d) == d[1] # NUL /\ \E i \in 1 .. Len(d) : FirstSync(d, i) /\ PackageAt(d, i)
CardOf(d) ==
  IF Bears(d) THEN Fields(d, CHOOSE i \in 1 .. Len(d) : FirstSync(d, i)) ELSE NULL

\* However many turns strnstr takes, and whatever was read and refused before,
\* every read is answered at once and on its own merits.
Admission == INSTANCE Admission WITH
  Nothing <- <<>>,
  asked   <- IF pc = "login" THEN <<>> ELSE data,
  failed  <- starved

AdmissionSpec == Admission!Spec

\* Every read is decided upon: strnstr ends.
Answered == pc = "strnstr" ~> pc \in {"refused", "login"}

-----------------------------------------------------------------------------
(* The inductive invariant. *)

\* No Sync that has room for the rest of a package stands before p.
Passed ==
  /\ pc \in {"strnstr", "check", "store", "login"} =>
       /\ data \in Data /\ Size <= Len(data) /\ p <= Len(data)
       /\ \A j \in 1 .. p - 1 : ~StandsAt(data, j)
  /\ pc \in {"check", "store", "login"} => StandsAt(data, p)
  /\ pc \in {"store", "login"} => PackageAt(data, p)
  /\ pc = "login" => card = Fields(data, p)

IInv == TypeOK /\ ReadsInside /\ Decided /\ Passed

\* A read is kept until it is answered, and nothing of it afterwards.
Kept ==
  /\ pc = "raw" => data = <<>> /\ ~starved
  /\ pc \in {"strnstr", "check", "store"} => data \in Data /\ data[1] # NUL /\ ~starved
  /\ pc = "refused" => data \in Data
=============================================================================
