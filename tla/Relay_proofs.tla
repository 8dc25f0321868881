---------------------------- MODULE Relay_proofs ----------------------------
(***************************************************************************)
(* Proofs about Relay, for every alphabet, every size of reads and writes  *)
(* and any amount of data: the inductive invariant, the order in which     *)
(* bytes arrive, and the refinement of Duplex.                             *)
(***************************************************************************)
EXTENDS Relay, SequenceTheorems, TLAPS

-----------------------------------------------------------------------------
(* Sequences: fronts, rests and prefixes. *)

LEMMA FrontAndRest ==
  ASSUME NEW S, NEW s \in Seq(S), NEW n \in 0 .. Len(s)
  PROVE  /\ Front(s, n) \in Seq(S) /\ Len(Front(s, n)) = n
         /\ Rest(s, n) \in Seq(S) /\ Len(Rest(s, n)) = Len(s) - n
         /\ \A i \in 1 .. n : Front(s, n)[i] = s[i]
         /\ \A i \in 1 .. Len(s) - n : Rest(s, n)[i] = s[n + i]
         /\ Front(s, n) \o Rest(s, n) = s
<1>0. Len(s) \in Nat /\ n \in Nat /\ n <= Len(s) /\ \A i \in 1 .. Len(s) : s[i] \in S
  BY LenProperties, ElementOfSeq
<1>1. /\ Front(s, n) \in Seq(S) /\ Len(Front(s, n)) = n
      /\ \A i \in 1 .. n : Front(s, n)[i] = s[i]
  <2>1. \A i \in 1 .. n : s[i] \in S
    BY <1>0
  <2>2. /\ SubSeq(s, 1, n) \in Seq(S)
        /\ Len(SubSeq(s, 1, n)) = IF 1 <= n THEN n - 1 + 1 ELSE 0
        /\ \A i \in 1 .. n - 1 + 1 : SubSeq(s, 1, n)[i] = s[1 + i - 1]
    BY <1>0, <2>1, SubSeqProperties
  <2> QED BY <1>0, <2>2 DEF Front
<1>2. /\ Rest(s, n) \in Seq(S) /\ Len(Rest(s, n)) = Len(s) - n
      /\ \A i \in 1 .. Len(s) - n : Rest(s, n)[i] = s[n + i]
  <2>1. \A i \in n + 1 .. Len(s) : s[i] \in S
    BY <1>0
  <2>2. /\ SubSeq(s, n + 1, Len(s)) \in Seq(S)
        /\ Len(SubSeq(s, n + 1, Len(s))) =
             IF n + 1 <= Len(s) THEN Len(s) - (n + 1) + 1 ELSE 0
        /\ \A i \in 1 .. Len(s) - (n + 1) + 1 :
             SubSeq(s, n + 1, Len(s))[i] = s[n + 1 + i - 1]
    BY <1>0, <2>1, SubSeqProperties
  <2> QED BY <1>0, <2>2 DEF Rest
<1>3. Front(s, n) \o Rest(s, n) = s
  <2>0. 1 \in 1 .. Len(s) + 1 /\ n \in 1 - 1 .. Len(s) /\ Len(s) \in n .. Len(s)
    BY <1>0
  <2>1. SubSeq(s, 1, n) \o SubSeq(s, n + 1, Len(s)) = SubSeq(s, 1, Len(s))
    BY ONLY <2>0, s \in Seq(S), ConcatAdjacentSubSeq, Zenon
  <2> QED BY <2>1, SubSeqFull DEF Front, Rest
<1> QED BY <1>1, <1>2, <1>3

LEMMA RestOfRest ==
  ASSUME NEW S, NEW s \in Seq(S), NEW m \in 0 .. Len(s), NEW n \in 0 .. Len(s) - m
  PROVE  Rest(Rest(s, m), n) = Rest(s, m + n)
<1>0. Len(s) \in Nat /\ m \in Nat /\ n \in Nat /\ m + n \in 0 .. Len(s)
  BY LenProperties
<1>1. /\ Rest(s, m) \in Seq(S) /\ Len(Rest(s, m)) = Len(s) - m
      /\ \A i \in 1 .. Len(s) - m : Rest(s, m)[i] = s[m + i]
  BY FrontAndRest
<1>2. /\ Rest(s, m + n) \in Seq(S) /\ Len(Rest(s, m + n)) = Len(s) - (m + n)
      /\ \A i \in 1 .. Len(s) - (m + n) : Rest(s, m + n)[i] = s[m + n + i]
  BY <1>0, FrontAndRest
<1>3. n \in 0 .. Len(Rest(s, m))
  BY <1>0, <1>1
<1>4. /\ Rest(Rest(s, m), n) \in Seq(S)
      /\ Len(Rest(Rest(s, m), n)) = Len(Rest(s, m)) - n
      /\ \A i \in 1 .. Len(Rest(s, m)) - n : Rest(Rest(s, m), n)[i] = Rest(s, m)[n + i]
  BY <1>1, <1>3, FrontAndRest
<1>5. ASSUME NEW i \in 1 .. Len(s) - (m + n)
      PROVE  Rest(Rest(s, m), n)[i] = Rest(s, m + n)[i]
  <2>1. i \in 1 .. (Len(s) - m) - n /\ n + i \in 1 .. Len(s) - m /\ m + (n + i) = m + n + i
    BY <1>0
  <2>2. Rest(Rest(s, m), n)[i] = Rest(s, m)[n + i]
    BY <1>1, <1>4, <2>1
  <2>3. Rest(s, m)[n + i] = s[m + (n + i)]
    BY <1>1, <2>1
  <2> QED BY <1>2, <2>1, <2>2, <2>3
<1> QED BY <1>0, <1>1, <1>2, <1>4, <1>5, SeqEqual

LEMMA RestOfAppend ==
  ASSUME NEW S, NEW s \in Seq(S), NEW n \in 0 .. Len(s), NEW x \in S
  PROVE  Rest(Append(s, x), n) = Append(Rest(s, n), x)
<1>0. Len(s) \in Nat /\ n \in Nat /\ n <= Len(s)
  BY LenProperties
<1>1. Append(s, x) \in Seq(S) /\ Len(Append(s, x)) = Len(s) + 1
      /\ \A i \in 1 .. Len(s) + 1 : Append(s, x)[i] = IF i <= Len(s) THEN s[i] ELSE x
  BY AppendProperties
<1>2. /\ Rest(s, n) \in Seq(S) /\ Len(Rest(s, n)) = Len(s) - n
      /\ \A i \in 1 .. Len(s) - n : Rest(s, n)[i] = s[n + i]
  BY FrontAndRest
<1>3. /\ Append(Rest(s, n), x) \in Seq(S)
      /\ Len(Append(Rest(s, n), x)) = Len(s) - n + 1
      /\ \A i \in 1 .. Len(s) - n + 1 :
           Append(Rest(s, n), x)[i] = IF i <= Len(s) - n THEN Rest(s, n)[i] ELSE x
  <2> DEFINE r == Rest(s, n)
  <2>1. r \in Seq(S) /\ Len(r) = Len(s) - n /\ Len(r) \in Nat
    BY <1>0, <1>2
  <2>2. /\ Append(r, x) \in Seq(S)
        /\ Len(Append(r, x)) = Len(r) + 1
        /\ \A i \in 1 .. Len(r) : Append(r, x)[i] = r[i]
        /\ Append(r, x)[Len(r) + 1] = x
    BY <2>1, AppendProperties
  <2> HIDE DEF r
  <2>3. ASSUME NEW i \in 1 .. Len(r) + 1
        PROVE  Append(r, x)[i] = IF i <= Len(r) THEN r[i] ELSE x
    <3> DEFINE a == Append(r, x)
    <3>1. /\ \A j \in 1 .. Len(r) : a[j] = r[j]
          /\ a[Len(r) + 1] = x
      BY <2>2
    <3> HIDE DEF a
    <3>2. a[i] = IF i <= Len(r) THEN r[i] ELSE x
      BY <2>1, <3>1
    <3> QED BY <3>2 DEF a
  <2>4. /\ Append(r, x) \in Seq(S)
        /\ Len(Append(r, x)) = Len(s) - n + 1
        /\ \A i \in 1 .. Len(s) - n + 1 :
             Append(r, x)[i] = IF i <= Len(s) - n THEN r[i] ELSE x
    BY <2>1, <2>2, <2>3
  <2> QED BY <2>4 DEF r
<1>4. n \in 0 .. Len(Append(s, x))
  BY <1>0, <1>1
<1>5. /\ Rest(Append(s, x), n) \in Seq(S)
      /\ Len(Rest(Append(s, x), n)) = Len(Append(s, x)) - n
      /\ \A i \in 1 .. Len(Append(s, x)) - n : Rest(Append(s, x), n)[i] = Append(s, x)[n + i]
  BY <1>1, <1>4, FrontAndRest
<1>6. \A i \in 1 .. Len(s) - n + 1 : Rest(Append(s, x), n)[i] = Append(Rest(s, n), x)[i]
  BY <1>0, <1>1, <1>2, <1>3, <1>5
<1> QED BY <1>0, <1>1, <1>3, <1>5, <1>6, SeqEqual

LEMMA ConcatAppend ==
  ASSUME NEW S, NEW s \in Seq(S), NEW t \in Seq(S), NEW x \in S
  PROVE  s \o Append(t, x) = Append(s \o t, x)
<1>1. /\ <<x>> \in Seq(S)
      /\ Append(t, x) = t \o <<x>>
      /\ s \o t \in Seq(S)
      /\ Append(s \o t, x) = (s \o t) \o <<x>>
  BY AppendIsConcat, ConcatProperties
<1> QED BY <1>1, ConcatAssociative

LEMMA PrefixOfConcat ==
  ASSUME NEW S, NEW s \in Seq(S), NEW t \in Seq(S)
  PROVE  Prefix(s, s \o t)
<1>0. Len(s) \in Nat /\ Len(t) \in Nat
  BY LenProperties
<1>1. /\ s \o t \in Seq(S) /\ Len(s \o t) = Len(s) + Len(t)
      /\ \A i \in 1 .. Len(s) + Len(t) :
           (s \o t)[i] = IF i <= Len(s) THEN s[i] ELSE t[i - Len(s)]
  BY ConcatProperties
<1>2. Len(s) \in 0 .. Len(s \o t)
  BY <1>0, <1>1
<1>3. /\ Front(s \o t, Len(s)) \in Seq(S) /\ Len(Front(s \o t, Len(s))) = Len(s)
      /\ \A i \in 1 .. Len(s) : Front(s \o t, Len(s))[i] = (s \o t)[i]
  BY <1>1, <1>2, FrontAndRest
<1>4. \A i \in 1 .. Len(s) : Front(s \o t, Len(s))[i] = s[i]
  BY <1>0, <1>1, <1>3
<1>5. Front(s \o t, Len(s)) = s
  BY <1>3, <1>4, SeqEqual
<1> QED BY <1>0, <1>1, <1>5 DEF Prefix

LEMMA PrefixElements ==
  ASSUME NEW S, NEW s \in Seq(S), NEW t \in Seq(S), Prefix(s, t)
  PROVE  Len(s) <= Len(t) /\ \A i \in 1 .. Len(s) : s[i] = t[i]
<1>0. Len(s) \in 0 .. Len(t)
  BY LenProperties DEF Prefix
<1>1. \A i \in 1 .. Len(s) : Front(t, Len(s))[i] = t[i]
  BY <1>0, FrontAndRest
<1> QED BY <1>1 DEF Prefix

LEMMA ElementsPrefix ==
  ASSUME NEW S, NEW s \in Seq(S), NEW t \in Seq(S), Len(s) <= Len(t),
         \A i \in 1 .. Len(s) : s[i] = t[i]
  PROVE  Prefix(s, t)
<1>0. Len(s) \in 0 .. Len(t)
  BY LenProperties
<1>1. /\ Front(t, Len(s)) \in Seq(S) /\ Len(Front(t, Len(s))) = Len(s)
      /\ \A i \in 1 .. Len(s) : Front(t, Len(s))[i] = t[i]
  BY <1>0, FrontAndRest
<1>2. \A i \in 1 .. Len(s) : Front(t, Len(s))[i] = s[i]
  BY <1>1
<1>3. Front(t, Len(s)) = s
  BY <1>1, <1>2, SeqEqual
<1> QED BY <1>3 DEF Prefix

LEMMA PrefixReflexive ==
  ASSUME NEW S, NEW s \in Seq(S)
  PROVE  Prefix(s, s)
BY ElementsPrefix, LenProperties

LEMMA PrefixTransitive ==
  ASSUME NEW S, NEW s \in Seq(S), NEW t \in Seq(S), NEW u \in Seq(S),
         Prefix(s, t), Prefix(t, u)
  PROVE  Prefix(s, u)
<1>1. Len(s) <= Len(t) /\ \A i \in 1 .. Len(s) : s[i] = t[i]
  BY PrefixElements
<1>2. Len(t) <= Len(u) /\ \A i \in 1 .. Len(t) : t[i] = u[i]
  BY PrefixElements
<1>3. Len(s) \in Nat /\ Len(t) \in Nat /\ Len(u) \in Nat
  BY LenProperties
<1>4. Len(s) <= Len(u) /\ \A i \in 1 .. Len(s) : s[i] = u[i]
  BY <1>1, <1>2, <1>3
<1> QED BY <1>4, ElementsPrefix

\* Moving the first elements of t behind s does not change their concatenation.
LEMMA Shift ==
  ASSUME NEW S, NEW s \in Seq(S), NEW t \in Seq(S), NEW n \in 0 .. Len(t)
  PROVE  (s \o Front(t, n)) \o Rest(t, n) = s \o t
<1>1. Front(t, n) \in Seq(S) /\ Rest(t, n) \in Seq(S) /\ Front(t, n) \o Rest(t, n) = t
  BY FrontAndRest
<1> DEFINE a == Front(t, n)
           b == Rest(t, n)
<1>2. a \in Seq(S) /\ b \in Seq(S)
  BY <1>1
<1>3. a \o b = t
  BY <1>1
<1> HIDE DEF a, b
<1>4. (s \o a) \o b = s \o (a \o b)
  BY <1>2, ConcatAssociative
<1>5. (s \o a) \o b = s \o t
  BY <1>3, <1>4, Zenon
<1> QED BY <1>5 DEF a, b

LEMMA ShiftOne ==
  ASSUME NEW S, NEW s \in Seq(S), NEW t \in Seq(S), t # <<>>
  PROVE  Append(s, Head(t)) \o Tail(t) = s \o t
<1>1. Head(t) \in S /\ Tail(t) \in Seq(S) /\ <<Head(t)>> \in Seq(S)
  BY HeadTailProperties
<1>2. t = <<Head(t)>> \o Tail(t)
  <2>1. Len(t) \in Nat \ {0}
    BY EmptySeq
  <2>2. 1 \in 1 .. Len(t) /\ Len(t) \in 1 .. Len(t)
    BY <2>1
  <2>3. SubSeq(t, 1, Len(t)) = <<t[1]>> \o SubSeq(t, 1 + 1, Len(t))
    BY ONLY <2>2, t \in Seq(S), SubSeqRecursiveFirst, Zenon
  <2>4. SubSeq(t, 1, Len(t)) = t
    BY SubSeqFull
  <2>5. Tail(t) = SubSeq(t, 2, Len(t))
    BY TailIsSubSeq
  <2>6. Head(t) = t[1]
    BY <2>1
  <2> QED BY <2>3, <2>4, <2>5, <2>6
<1>3. Append(s, Head(t)) = s \o <<Head(t)>>
  BY <1>1, AppendIsConcat
<1>4. (s \o <<Head(t)>>) \o Tail(t) = s \o (<<Head(t)>> \o Tail(t))
  BY <1>1, ConcatAssociative
<1> QED BY <1>2, <1>3, <1>4

LEMMA AppendToOne ==
  ASSUME NEW S, NEW x \in S, NEW y \in S
  PROVE  Append(<<x>>, y) = <<x, y>>
<1>1. /\ Append(<<x>>, y) \in Seq(S) /\ Len(Append(<<x>>, y)) = 2
      /\ Append(<<x>>, y)[1] = x /\ Append(<<x>>, y)[2] = y
  OBVIOUS
<1>2. <<x, y>> \in Seq(S) /\ Len(<<x, y>>) = 2 /\ <<x, y>>[1] = x /\ <<x, y>>[2] = y
  OBVIOUS
<1> DEFINE a == Append(<<x>>, y)
           b == <<x, y>>
<1>3. a \in Seq(S) /\ b \in Seq(S) /\ Len(a) = 2 /\ Len(b) = 2 /\ a[1] = b[1] /\ a[2] = b[2]
  BY <1>1, <1>2, Zenon
<1> HIDE DEF a, b
<1>4. \A i \in 1 .. Len(a) : a[i] = b[i]
  BY <1>3
<1>5. a = b
  BY <1>3, <1>4, SeqEqual
<1> QED BY <1>5 DEF a, b

LEMMA RestLength ==
  ASSUME NEW S, NEW s \in Seq(S), NEW n \in 0 .. Len(s)
  PROVE  Len(Rest(s, n)) = Len(s) - n
BY FrontAndRest

LEMMA RestBeyond ==
  ASSUME NEW S, NEW s \in Seq(S), NEW n \in Nat, Len(s) <= n
  PROVE  Rest(s, n) = <<>>
<1>1. Len(s) \in Nat
  BY LenProperties
<1>2. \A i \in n + 1 .. Len(s) : s[i] \in S
  BY <1>1
<1>3. ~(n + 1 <= Len(s)) /\ n + 1 \in Int /\ Len(s) \in Int
  BY <1>1
<1>4. SubSeq(s, n + 1, Len(s)) \in Seq(S) /\ Len(SubSeq(s, n + 1, Len(s))) = 0
  BY <1>1, <1>2, <1>3, SubSeqProperties
<1> QED BY <1>4, EmptySeq DEF Rest

\* Cutting n elements out of a sequence behind its first k.
LEMMA CutElements ==
  ASSUME NEW S, NEW s \in Seq(S), NEW k \in Nat, NEW n \in Nat, k + n <= Len(s)
  PROVE  /\ Front(s, k) \o Rest(s, k + n) \in Seq(S)
         /\ Len(Front(s, k) \o Rest(s, k + n)) = Len(s) - n
         /\ \A i \in 1 .. k : (Front(s, k) \o Rest(s, k + n))[i] = s[i]
         /\ \A i \in k + 1 .. Len(s) - n : (Front(s, k) \o Rest(s, k + n))[i] = s[i + n]
<1> DEFINE a == Front(s, k)
           b == Rest(s, k + n)
           l == Len(s)
<1>0. l \in Nat /\ k \in 0 .. l /\ k + n \in 0 .. l
  BY LenProperties
<1>1. a \in Seq(S) /\ Len(a) = k /\ \A i \in 1 .. k : a[i] = s[i]
  BY <1>0, FrontAndRest
<1>2. b \in Seq(S) /\ Len(b) = l - (k + n) /\ \A i \in 1 .. l - (k + n) : b[i] = s[k + n + i]
  BY <1>0, FrontAndRest
<1> HIDE DEF a, b, l
<1>s. a \in Seq(S) /\ b \in Seq(S)
  BY <1>1, <1>2
<1>3. /\ a \o b \in Seq(S) /\ Len(a \o b) = Len(a) + Len(b)
      /\ \A i \in 1 .. Len(a) + Len(b) : (a \o b)[i] = IF i <= Len(a) THEN a[i] ELSE b[i - Len(a)]
  BY <1>s, ConcatProperties
<1>4. Len(a \o b) = l - n /\ Len(a) + Len(b) = l - n
  BY <1>0, <1>1, <1>2, <1>3
<1>5. ASSUME NEW i \in 1 .. l - n
      PROVE  (a \o b)[i] = IF i <= k THEN s[i] ELSE s[i + n]
  <2>1. (a \o b)[i] = IF i <= k THEN a[i] ELSE b[i - k]
    BY <1>1, <1>3, <1>4
  <2>2. CASE i <= k
    <3>1. i \in 1 .. k
      BY <1>0, <2>2
    <3> QED BY <1>1, <2>1, <2>2, <3>1
  <2>3. CASE ~(i <= k)
    <3>1. i - k \in 1 .. l - (k + n) /\ k + n + (i - k) = i + n
      BY <1>0, <2>3
    <3>2. b[i - k] = s[k + n + (i - k)]
      BY <1>2, <3>1
    <3> QED BY <2>1, <2>3, <3>1, <3>2
  <2> QED BY <2>2, <2>3
<1>6. ASSUME NEW i \in 1 .. k PROVE (a \o b)[i] = s[i]
  <2>1. i \in 1 .. l - n /\ i <= k
    BY <1>0
  <2> QED BY <1>5, <2>1
<1>7. ASSUME NEW i \in k + 1 .. l - n PROVE (a \o b)[i] = s[i + n]
  <2>1. i \in 1 .. l - n /\ ~(i <= k)
    BY <1>0
  <2> QED BY <1>5, <2>1
<1> QED BY <1>3, <1>4, <1>6, <1>7 DEF a, b, l

LEMMA CutLength ==
  ASSUME NEW S, NEW s \in Seq(S), NEW k \in Nat, NEW n \in Nat, k + n <= Len(s)
  PROVE  /\ Front(s, k) \o Rest(s, k + n) \in Seq(S)
         /\ Len(Front(s, k) \o Rest(s, k + n)) = Len(s) - n
BY CutElements

\* Two ways to write the same sequence.
Same(s, t, u, v) == s \o t = u \o v

\* If w is the end of t, but for its first d elements, then what is lost of w is
\* lost of t, and of nothing else.
LEMMA CutTail ==
  ASSUME NEW S, NEW a \in Seq(S), NEW w \in Seq(S), NEW g \in Seq(S), NEW t \in Seq(S),
         NEW d \in 0 .. Len(t), NEW n \in 0 .. Len(w), NEW k \in Nat, d <= k,
         k = Len(t) - Len(w),
         Same(a, w, g, Rest(t, d))
  PROVE  Same(a, Rest(w, n), g, Rest(Front(t, k) \o Rest(t, k + n), d))
<1> DEFINE u == Rest(t, d)
           v == Rest(w, n)
           c == Front(t, k) \o Rest(t, k + n)
           z == Rest(c, d)
<1>0. /\ Len(a) \in Nat /\ Len(w) \in Nat /\ Len(g) \in Nat /\ Len(t) \in Nat
      /\ d \in Nat /\ n \in Nat /\ k \in Nat /\ d <= k /\ n <= Len(w) /\ k + n <= Len(t)
  BY LenProperties
<1>1. u \in Seq(S) /\ Len(u) = Len(t) - d /\ \A i \in 1 .. Len(t) - d : u[i] = t[d + i]
  BY FrontAndRest
<1>2. v \in Seq(S) /\ Len(v) = Len(w) - n /\ \A i \in 1 .. Len(w) - n : v[i] = w[n + i]
  BY FrontAndRest
<1>3. /\ c \in Seq(S) /\ Len(c) = Len(t) - n
      /\ \A i \in 1 .. k : c[i] = t[i]
      /\ \A i \in k + 1 .. Len(t) - n : c[i] = t[i + n]
  <2>1. k + n <= Len(t) /\ k \in Nat /\ n \in Nat
    BY <1>0
  <2>2. /\ Front(t, k) \o Rest(t, k + n) \in Seq(S)
        /\ Len(Front(t, k) \o Rest(t, k + n)) = Len(t) - n
        /\ \A i \in 1 .. k : (Front(t, k) \o Rest(t, k + n))[i] = t[i]
        /\ \A i \in k + 1 .. Len(t) - n : (Front(t, k) \o Rest(t, k + n))[i] = t[i + n]
    BY ONLY t \in Seq(S), <2>1, CutElements, Zenon
  <2> QED BY <2>2
<1>4. z \in Seq(S) /\ Len(z) = Len(t) - n - d /\ \A i \in 1 .. Len(t) - n - d : z[i] = c[d + i]
  <2>1. d \in 0 .. Len(c)
    BY <1>0, <1>3
  <2> HIDE DEF c
  <2>2. z \in Seq(S) /\ Len(z) = Len(c) - d /\ \A i \in 1 .. Len(c) - d : z[i] = c[d + i]
    BY <1>3, <2>1, FrontAndRest
  <2>3. Len(c) - d = Len(t) - n - d
    BY <1>3
  <2> QED BY <2>2, <2>3
<1>5. a \o w = g \o u
  BY DEF Same
<1> HIDE DEF u, v, c, z
<1>s. u \in Seq(S) /\ v \in Seq(S) /\ z \in Seq(S)
  BY <1>1, <1>2, <1>4
<1>6. /\ Len(a \o w) = Len(a) + Len(w)
      /\ \A i \in 1 .. Len(a) + Len(w) : (a \o w)[i] = IF i <= Len(a) THEN a[i] ELSE w[i - Len(a)]
  BY ConcatProperties
<1>7. /\ Len(g \o u) = Len(g) + Len(u)
      /\ \A i \in 1 .. Len(g) + Len(u) : (g \o u)[i] = IF i <= Len(g) THEN g[i] ELSE u[i - Len(g)]
  BY <1>s, ConcatProperties
<1>8. /\ a \o v \in Seq(S) /\ Len(a \o v) = Len(a) + Len(v)
      /\ \A i \in 1 .. Len(a) + Len(v) : (a \o v)[i] = IF i <= Len(a) THEN a[i] ELSE v[i - Len(a)]
  BY <1>s, ConcatProperties
<1>9. /\ g \o z \in Seq(S) /\ Len(g \o z) = Len(g) + Len(z)
      /\ \A i \in 1 .. Len(g) + Len(z) : (g \o z)[i] = IF i <= Len(g) THEN g[i] ELSE z[i - Len(g)]
  BY <1>s, ConcatProperties
<1>10. Len(a) = Len(g) + (k - d)
  <2>1. Len(a) + Len(w) = Len(g) + Len(u) /\ Len(u) = Len(t) - d
    BY <1>1, <1>5, <1>6, <1>7
  <2> QED BY <1>0, <2>1
<1>11. Len(a \o v) = Len(g \o z)
  BY <1>0, <1>2, <1>4, <1>8, <1>9, <1>10
<1>12. ASSUME NEW i \in 1 .. Len(a \o v)
       PROVE  (a \o v)[i] = (g \o z)[i]
  <2>0. i \in 1 .. Len(a) + Len(v) /\ i \in 1 .. Len(g) + Len(z)
    BY <1>8, <1>9, <1>11
  <2>1. CASE i <= Len(g)
    <3>1. i <= Len(a) /\ i \in 1 .. Len(a) + Len(w) /\ i \in 1 .. Len(g) + Len(u)
      BY <1>0, <1>1, <1>10, <2>0, <2>1
    <3>2. (a \o v)[i] = a[i] /\ (g \o z)[i] = g[i]
      BY <1>8, <1>9, <2>0, <2>1, <3>1
    <3>3. (a \o w)[i] = a[i] /\ (g \o u)[i] = g[i]
      BY <1>6, <1>7, <2>1, <3>1
    <3> QED BY <1>5, <3>2, <3>3
  <2>2. CASE ~(i <= Len(g)) /\ i <= Len(a)
    <3>1. /\ i \in 1 .. Len(a) + Len(w) /\ i \in 1 .. Len(g) + Len(u)
          /\ i - Len(g) \in 1 .. Len(t) - d /\ i - Len(g) \in 1 .. Len(t) - n - d
          /\ d + (i - Len(g)) \in 1 .. k
      BY <1>0, <1>1, <1>10, <2>0, <2>2
    <3>2. (a \o v)[i] = a[i] /\ (g \o z)[i] = z[i - Len(g)]
      BY <1>8, <1>9, <2>0, <2>2
    <3>3. (a \o w)[i] = a[i] /\ (g \o u)[i] = u[i - Len(g)]
      BY <1>6, <1>7, <2>2, <3>1
    <3>4. u[i - Len(g)] = t[d + (i - Len(g))]
      BY <1>1, <3>1
    <3>5. z[i - Len(g)] = c[d + (i - Len(g))]
      BY <1>4, <3>1
    <3>6. c[d + (i - Len(g))] = t[d + (i - Len(g))]
      BY <1>3, <3>1
    <3> QED BY <1>5, <3>2, <3>3, <3>4, <3>5, <3>6
  <2>3. CASE ~(i <= Len(a))
    <3> DEFINE j == i - Len(a)
               m == d + (i - Len(g))
    <3>0. j \in Int /\ m \in Int /\ i = j + Len(a) /\ m = k + j
      BY <1>0, <1>10, <2>0
    <3>1. /\ ~(i <= Len(g)) /\ j \in 1 .. Len(w) - n
          /\ i + n \in 1 .. Len(a) + Len(w) /\ i + n \in 1 .. Len(g) + Len(u)
          /\ ~(i + n <= Len(a)) /\ ~(i + n <= Len(g))
          /\ i + n - Len(g) \in 1 .. Len(t) - d /\ i - Len(g) \in 1 .. Len(t) - n - d
          /\ m \in k + 1 .. Len(t) - n
          /\ i + n - Len(a) = n + j /\ d + (i + n - Len(g)) = m + n
      <4>1. /\ Len(u) = Len(t) - d /\ Len(v) = Len(w) - n
            /\ i \in Nat /\ i <= Len(a) + Len(v) /\ i > Len(a)
        <5>1. Len(u) = Len(t) - d /\ Len(v) = Len(w) - n
          BY <1>1, <1>2
        <5>2. i \in Nat /\ i <= Len(a) + Len(v)
          BY <1>0, <2>0, <5>1
        <5> QED BY <1>0, <2>3, <5>1, <5>2
      <4> DEFINE la == Len(a)
                 lw == Len(w)
                 lg == Len(g)
                 lt == Len(t)
                 lu == Len(u)
                 lv == Len(v)
      <4>2. /\ la \in Nat /\ lw \in Nat /\ lg \in Nat /\ lt \in Nat
            /\ lu = lt - d /\ lv = lw - n /\ i <= la + lv /\ i > la /\ k = lt - lw
            /\ la = lg + (k - d) /\ i = j + la /\ m = k + j
        BY <1>0, <1>10, <3>0, <4>1
      <4> HIDE DEF la, lw, lg, lt, lu, lv, j, m
      <4>3. /\ ~(i <= lg) /\ j \in 1 .. lw - n
            /\ i + n \in 1 .. la + lw /\ i + n \in 1 .. lg + lu
            /\ ~(i + n <= la) /\ ~(i + n <= lg)
            /\ i + n - lg \in 1 .. lt - d /\ i - lg \in 1 .. lt - n - d
            /\ m \in k + 1 .. lt - n
            /\ i + n - la = n + j /\ d + (i + n - lg) = m + n
        <5>1. j \in Int /\ m \in Int /\ i \in Nat /\ n \in Nat /\ d \in Nat /\ k \in Nat /\ d <= k
          BY <1>0, <3>0, <4>1
        <5> QED BY ONLY <4>2, <5>1, <1>0, SMT
      <4> QED BY <4>3 DEF la, lw, lg, lt, lu
    <3>2. (a \o v)[i] = v[j] /\ (g \o z)[i] = z[i - Len(g)]
      BY <1>8, <1>9, <2>0, <2>3, <3>1
    <3>3. (a \o w)[i + n] = w[i + n - Len(a)] /\ (g \o u)[i + n] = u[i + n - Len(g)]
      BY <1>6, <1>7, <3>1
    <3>4. v[j] = w[n + j]
      BY <1>2, <3>1
    <3>5. u[i + n - Len(g)] = t[d + (i + n - Len(g))]
      BY <1>1, <3>1
    <3>6. z[i - Len(g)] = c[m]
      BY <1>4, <3>1
    <3>7. c[m] = t[m + n]
      <4>1. m \in k + 1 .. Len(t) - n
        BY <3>1
      <4> HIDE DEF m
      <4> QED BY <1>3, <4>1
    <3> HIDE DEF j, m
    <3> QED BY <1>5, <3>1, <3>2, <3>3, <3>4, <3>5, <3>6, <3>7
  <2> QED BY <1>0, <1>10, <2>0, <2>1, <2>2, <2>3
<1> HIDE DEF u, v, c, z
<1>13. a \o v = g \o z
  BY <1>8, <1>9, <1>11, <1>12, SeqEqual
<1> QED BY <1>13 DEF u, v, c, z, Same

LEMMA ThinsNothing == Thins(<<>>, <<>>)
<1> DEFINE f == [i \in 1 .. Len(<<>>) |-> i]
<1>1. Len(<<>>) = 0
  BY EmptySeq
<1>2. /\ f \in [1 .. Len(<<>>) -> 1 .. Len(<<>>)]
      /\ \A i, j \in 1 .. Len(<<>>) : i < j => f[i] < f[j]
      /\ \A i \in 1 .. Len(<<>>) : <<>>[i] = <<>>[f[i]]
  BY <1>1
<1> QED BY <1>2 DEF Thins

LEMMA ThinsAppend ==
  ASSUME NEW S, NEW s \in Seq(S), NEW t \in Seq(S), NEW x \in S, Thins(s, t)
  PROVE  Thins(Append(s, x), Append(t, x))
<1> DEFINE s2 == Append(s, x)
           t2 == Append(t, x)
           m == Len(s)
           n == Len(t)
<1>1. m \in Nat /\ n \in Nat
  BY LenProperties
<1>2. Len(s2) = m + 1 /\ \A i \in 1 .. m + 1 : s2[i] = IF i <= m THEN s[i] ELSE x
  BY AppendProperties, <1>1
<1>3. Len(t2) = n + 1 /\ \A i \in 1 .. n + 1 : t2[i] = IF i <= n THEN t[i] ELSE x
  BY AppendProperties, <1>1
<1>4. PICK f \in [1 .. m -> 1 .. n] :
        /\ \A i, j \in 1 .. m : i < j => f[i] < f[j]
        /\ \A i \in 1 .. m : s[i] = t[f[i]]
  BY DEF Thins
<1> HIDE DEF s2, t2, m, n
<1> DEFINE h == [i \in 1 .. m + 1 |-> IF i <= m THEN f[i] ELSE n + 1]
<1>5. \A i \in 1 .. m : i \in 1 .. m + 1 /\ h[i] = f[i] /\ f[i] \in 1 .. n
  BY <1>1, <1>4
<1>6. m + 1 \in 1 .. m + 1 /\ h[m + 1] = n + 1
  BY <1>1
<1>7. h \in [1 .. m + 1 -> 1 .. n + 1]
  BY <1>1, <1>4
<1> HIDE DEF h
<1>8. ASSUME NEW i \in 1 .. m + 1, NEW j \in 1 .. m + 1, i < j PROVE h[i] < h[j]
  <2>1. i \in 1 .. m /\ (j \in 1 .. m \/ j = m + 1)
    BY <1>1, <1>8
  <2>2. CASE j \in 1 .. m
    BY <1>4, <1>5, <1>8, <2>1, <2>2
  <2>3. CASE j = m + 1
    <3>1. f[i] \in 1 .. n /\ h[i] = f[i] /\ h[j] = n + 1
      BY <1>5, <1>6, <2>1, <2>3
    <3> QED BY <1>1, <3>1
  <2> QED BY <2>1, <2>2, <2>3
<1>9. \A i \in 1 .. m + 1 : s2[i] = t2[h[i]]
  <2> SUFFICES ASSUME NEW i \in 1 .. m + 1 PROVE s2[i] = t2[h[i]]
    OBVIOUS
  <2>1. CASE i \in 1 .. m
    <3>1. f[i] \in 1 .. n + 1 /\ f[i] <= n /\ i <= m
      BY <1>1, <1>5, <2>1
    <3> QED BY <1>2, <1>3, <1>4, <1>5, <2>1, <3>1
  <2>2. CASE i = m + 1
    BY <1>1, <1>2, <1>3, <1>6, <2>2
  <2> QED BY <1>1, <2>1, <2>2
<1>10. \E q \in [1 .. m + 1 -> 1 .. n + 1] :
         /\ \A i, j \in 1 .. m + 1 : i < j => q[i] < q[j]
         /\ \A i \in 1 .. m + 1 : s2[i] = t2[q[i]]
  BY <1>7, <1>8, <1>9
<1>11. Len(s2) = m + 1 /\ Len(t2) = n + 1
  BY <1>2, <1>3
<1>12. Thins(s2, t2)
  BY <1>10, <1>11, Zenon DEF Thins
<1> QED BY <1>12 DEF s2, t2

LEMMA ThinsCut ==
  ASSUME NEW S, NEW s \in Seq(S), NEW t \in Seq(S), Thins(s, t),
         NEW k \in Nat, NEW n \in Nat, k + n <= Len(s)
  PROVE  Thins(Front(s, k) \o Rest(s, k + n), t)
<1> DEFINE c == Front(s, k) \o Rest(s, k + n)
           l == Len(s)
           m == l - n
<1>1. l \in Nat /\ m \in Nat /\ k + n <= l /\ m = l - n /\ m + n = l
  BY LenProperties
<1>2. /\ Len(c) = m /\ \A i \in 1 .. k : c[i] = s[i]
      /\ \A i \in k + 1 .. m : c[i] = s[i + n]
  BY CutElements, Zenon
<1>3. PICK f \in [1 .. l -> 1 .. Len(t)] :
        /\ \A i, j \in 1 .. l : i < j => f[i] < f[j]
        /\ \A i \in 1 .. l : s[i] = t[f[i]]
  BY DEF Thins
<1> HIDE DEF c, l, m
<1> DEFINE h == [i \in 1 .. m |-> IF i <= k THEN f[i] ELSE f[i + n]]
<1>4. \A i \in 1 .. m : i \in 1 .. l /\ i + n \in 1 .. l
  BY <1>1
<1>5. h \in [1 .. m -> 1 .. Len(t)]
  BY <1>3, <1>4
<1>6. \A i \in 1 .. m : h[i] = IF i <= k THEN f[i] ELSE f[i + n]
  OBVIOUS
<1> HIDE DEF h
<1>7. ASSUME NEW i \in 1 .. m, NEW j \in 1 .. m, i < j PROVE h[i] < h[j]
  <2> DEFINE a == IF i <= k THEN i ELSE i + n
             b == IF j <= k THEN j ELSE j + n
  <2>1. a \in 1 .. l /\ b \in 1 .. l /\ a < b
    BY <1>1, <1>4, <1>7
  <2>2. h[i] = f[a] /\ h[j] = f[b]
    BY <1>6
  <2> HIDE DEF a, b
  <2> QED BY <1>3, <2>1, <2>2
<1>8. ASSUME NEW i \in 1 .. m PROVE c[i] = t[h[i]]
  <2>1. CASE i <= k
    <3>1. i \in 1 .. k /\ c[i] = s[i] /\ h[i] = f[i]
      BY <1>2, <1>6, <2>1
    <3> QED BY <1>3, <1>4, <3>1
  <2>2. CASE ~(i <= k)
    <3>1. i \in k + 1 .. m
      BY <1>1, <2>2
    <3>2. c[i] = s[i + n] /\ h[i] = f[i + n]
      BY <1>2, <1>6, <2>2, <3>1
    <3> QED BY <1>3, <1>4, <3>2
  <2> QED BY <2>1, <2>2
<1>9. \E q \in [1 .. m -> 1 .. Len(t)] :
        /\ \A i, j \in 1 .. m : i < j => q[i] < q[j]
        /\ \A i \in 1 .. m : c[i] = t[q[i]]
  BY <1>5, <1>7, <1>8
<1>10. Thins(c, t)
  BY <1>2, <1>9, Zenon DEF Thins
<1> QED BY <1>10 DEF c

LEMMA OneMore ==
  ASSUME NEW m \in Nat, NEW n \in Nat
  PROVE  m * n \in Nat /\ (m + 1) * n = m * n + n
OBVIOUS

-----------------------------------------------------------------------------
(* Ends, pipes and reads. *)

LEMMA Ends ==
  ASSUME NEW e \in End
  PROVE  /\ Peer(e) \in End /\ Peer(e) # e /\ Peer(Peer(e)) = e
         /\ \A f \in End : f = e \/ f = Peer(e)
BY DEF End, Peer

LEMMA GreetingTypes ==
  /\ <<>> \in Seq(Unit) /\ <<Host>> \in Seq(Unit) /\ <<Ok>> \in Seq(Unit) /\ <<Host, Ok>> \in Seq(Unit)
  /\ \A g \in {<<>>, <<Host>>, <<Ok>>, <<Host, Ok>>} : g \in Seq(Unit)
  /\ \A g \in {<<>>, <<Host>>} : g \o <<>> = g /\ g \o <<Ok>> \in {<<Ok>>, <<Host, Ok>>}
                                 /\ g \notin {<<Ok>>, <<Host, Ok>>}
<1>1. /\ <<>> \in Seq(Unit) /\ <<Host>> \in Seq(Unit) /\ <<Ok>> \in Seq(Unit)
      /\ <<Host, Ok>> \in Seq(Unit)
  BY DEF Unit
<1>2. \A g \in {<<>>, <<Host>>, <<Ok>>, <<Host, Ok>>} : g \in Seq(Unit)
  BY <1>1
<1>3. <<>> \o <<>> = <<>> /\ <<Host>> \o <<>> = <<Host>> /\ <<>> \o <<Ok>> = <<Ok>>
  BY <1>1, ConcatEmptySeq
<1>4. <<Host>> \o <<Ok>> = <<Host, Ok>>
  <2>1. Host \in Unit /\ Ok \in Unit
    BY DEF Unit
  <2>2. Append(<<Host>>, Ok) = <<Host>> \o <<Ok>>
    BY <1>1, <2>1, AppendIsConcat
  <2>3. Append(<<Host>>, Ok) = <<Host, Ok>>
    BY <2>1, AppendToOne, Zenon
  <2> QED BY <2>2, <2>3
<1>5. <<>> \notin {<<Ok>>, <<Host, Ok>>} /\ <<Host>> \notin {<<Ok>>, <<Host, Ok>>}
  <2>1. Host # Ok
    BY RelayAssumption
  <2> QED BY <2>1
<1>6. ASSUME NEW g \in {<<>>, <<Host>>}
      PROVE  g \o <<>> = g /\ g \o <<Ok>> \in {<<Ok>>, <<Host, Ok>>} /\ g \notin {<<Ok>>, <<Host, Ok>>}
  BY <1>3, <1>4, <1>5, Zenon
<1> QED BY <1>1, <1>2, <1>6, Zenon

LEMMA StreamTypes ==
  ASSUME TypeOK, NEW e \in End
  PROVE  /\ Pipe(e) \in Seq(Unit) /\ Whole(e) \in Seq(Unit) /\ greeting[e] \in Seq(Unit)
         /\ wire[e] \in Seq(Unit) /\ wire[e] \in Seq(Byte)
         /\ received[e] \in Seq(Unit) /\ flight[e] \in Seq(Unit) /\ output[e] \in Seq(Unit)
         /\ sent[e] \in Seq(Byte) /\ kept[e] \in Seq(Byte) /\ kept[e] \in Seq(Unit)
         /\ Rest(kept[e], dropped[e]) \in Seq(Byte) /\ Rest(kept[e], dropped[e]) \in Seq(Unit)
         /\ dropped[e] \in 0 .. Len(kept[e])
<1>0. /\ wire[e] \in Seq(Byte) /\ sent[e] \in Seq(Byte) /\ kept[e] \in Seq(Byte)
      /\ received[e] \in Seq(Unit) /\ flight[e] \in Seq(Unit) /\ output[e] \in Seq(Unit)
      /\ dropped[e] \in Nat /\ dropped[e] <= Len(kept[e])
  BY DEF TypeOK
<1>1. Byte \subseteq Unit
  BY DEF Unit
<1>2. wire[e] \in Seq(Unit) /\ kept[e] \in Seq(Unit)
  BY <1>0, <1>1, SeqMonotonic
<1>3. \A f \in End : greeting[f] \in Seq(Unit)
  BY GreetingTypes, Zenon DEF TypeOK
<1>4. dropped[e] \in 0 .. Len(kept[e])
  BY <1>0, LenProperties
<1>5. Rest(kept[e], dropped[e]) \in Seq(Byte) /\ Rest(kept[e], dropped[e]) \in Seq(Unit)
  BY <1>0, <1>1, <1>4, FrontAndRest, SeqMonotonic
<1>6. Pipe(e) \in Seq(Unit)
  <2>1. received[e] \o flight[e] \in Seq(Unit)
    BY <1>0, ConcatProperties
  <2> QED BY <1>0, <2>1, ConcatProperties DEF Pipe
<1>7. Whole(e) \in Seq(Unit)
  <2>1. greeting[Peer(e)] \in Seq(Unit)
    BY <1>3, Ends
  <2> QED BY <1>5, <2>1, ConcatProperties DEF Whole
<1> QED BY <1>0, <1>2, <1>3, <1>4, <1>5, <1>6, <1>7

LEMMA ReceivedBeforeRest ==
  ASSUME TypeOK, NEW e \in End
  PROVE  Prefix(received[e], Pipe(e))
<1> DEFINE r == received[e]
           rf == r \o flight[e]
<1>1. r \in Seq(Unit) /\ flight[e] \in Seq(Unit) /\ output[e] \in Seq(Unit)
  BY StreamTypes
<1>2. rf \in Seq(Unit)
  BY <1>1, ConcatProperties
<1>3. Prefix(r, rf)
  BY <1>1, PrefixOfConcat
<1> HIDE DEF r, rf
<1>4. Prefix(rf, rf \o output[e]) /\ rf \o output[e] \in Seq(Unit)
  BY <1>1, <1>2, PrefixOfConcat, ConcatProperties
<1>5. Prefix(r, rf \o output[e])
  BY <1>1, <1>2, <1>3, <1>4, PrefixTransitive
<1> QED BY <1>5 DEF r, rf, Pipe

\* Since libevent never reads more than data[] holds, a read event leaves
\* nothing behind and takes exactly what was read.
LEMMA ReadTakesAll ==
  ASSUME TypeOK, NothingStranded, NEW e \in End, NEW n, ReadInto(e, n)
  PROVE  /\ n \in 1 .. Len(wire[e])
         /\ Taken(e, n) = Front(wire[e], n)
         /\ Taken(e, n) \in Seq(Byte) /\ Len(Taken(e, n)) = n
         /\ wire' = [f \in End |-> IF f = e THEN Rest(wire[e], n) ELSE wire[f]]
         /\ wire' \in [End -> Seq(Byte)]
         /\ input' = input
<1>0. /\ wire \in [End -> Seq(Byte)] /\ input \in [End -> Seq(Byte)] /\ input[e] = <<>>
      /\ MaxRead \in Nat /\ BufSize \in Nat /\ MaxRead <= BufSize
  BY RelayAssumption DEF TypeOK, NothingStranded
<1>1. Len(wire[e]) \in Nat
  BY <1>0, LenProperties
<1>2. n \in 1 .. Len(wire[e]) /\ n <= MaxRead /\ n \in 0 .. Len(wire[e])
  BY <1>0, <1>1 DEF ReadInto, Lesser
<1>3. Front(wire[e], n) \in Seq(Byte) /\ Len(Front(wire[e], n)) = n
      /\ Rest(wire[e], n) \in Seq(Byte)
  BY <1>0, <1>2, FrontAndRest
<1>4. input[e] \o Front(wire[e], n) = Front(wire[e], n)
  BY <1>0, <1>3, ConcatEmptySeq
<1>5. Lesser(n, BufSize) = n
  BY <1>0, <1>2 DEF Lesser
<1>6. Front(Front(wire[e], n), n) = Front(wire[e], n)
  BY <1>3, SubSeqFull DEF Front
<1>7. Taken(e, n) = Front(wire[e], n)
  BY <1>3, <1>4, <1>5, <1>6 DEF Taken
<1>8. Rest(Front(wire[e], n), n) = <<>>
  <2>1. n + 1 \in Int /\ n \in Int /\ n < n + 1
    BY <1>1, <1>2
  <2> QED BY <1>3, <2>1, SubSeqEmpty DEF Rest
<1>9. input' = input
  <2>1. input' = [input EXCEPT ![e] = Rest(input[e] \o Front(wire[e], n), Len(Taken(e, n)))]
    BY DEF ReadInto, Remaining
  <2>2. Rest(input[e] \o Front(wire[e], n), Len(Taken(e, n))) = input[e]
    BY <1>0, <1>3, <1>4, <1>7, <1>8
  <2> QED BY <1>0, <2>1, <2>2
<1>10. wire' = [f \in End |-> IF f = e THEN Rest(wire[e], n) ELSE wire[f]]
  BY <1>0 DEF ReadInto, Remaining
<1> QED BY <1>0, <1>2, <1>3, <1>7, <1>9, <1>10

-----------------------------------------------------------------------------
(* The inductive invariant. *)

\* A step that changes neither the sessions nor what was sent, read or written,
\* and moves along the pipes or not at all.
LEMMA PipeKeeps ==
  ASSUME IInv, TypeOK', input' = input, state' = state, open' = open, wire' = wire,
         sent' = sent, dropped' = dropped, UNCHANGED history,
         \A e \in End : Pipe(e)' = Pipe(e)
  PROVE  IInv'
<1>0. greeting' = greeting /\ kept' = kept /\ shortages' = shortages
  BY DEF history
<1>1. NothingStranded' /\ BoundTogether' /\ Introduced'
  BY DEF IInv, NothingStranded, BoundTogether, Introduced
<1>2. Unmatched'
  BY <1>0 DEF IInv, Unmatched
<1>3. Matched'
  <2>1. \A e \in End : Whole(e)' = Whole(e)
    BY <1>0 DEF Whole
  <2>2. \A e \in End : Pipe(Peer(e))' = Pipe(Peer(e))
    BY Ends
  <2> QED BY <1>0, <2>1, <2>2 DEF IInv, Matched
<1>4. Thinned'
  BY <1>0 DEF IInv, Thinned, Thins
<1> QED BY <1>1, <1>2, <1>3, <1>4 DEF IInv

\* A write that fails makes at most one shortage more.
LEMMA ShortageCounts ==
  ASSUME TypeOK, NEW short, Shortage(short)
  PROVE  /\ shortages' \in Nat /\ (shortages' = shortages \/ shortages' = shortages + 1)
         /\ short # {} => shortages < MaxShortages /\ shortages' = shortages + 1
         /\ shortages * BufSize \in Nat /\ shortages' * BufSize \in Nat
         /\ shortages' * BufSize >= shortages * BufSize
         /\ short # {} => shortages' * BufSize = shortages * BufSize + BufSize
<1>1. shortages \in Nat /\ BufSize \in Nat
  BY RelayAssumption DEF TypeOK
<1>2. /\ shortages' \in Nat /\ (shortages' = shortages \/ shortages' = shortages + 1)
      /\ short # {} => shortages < MaxShortages /\ shortages' = shortages + 1
  BY <1>1 DEF Shortage
<1>3. shortages * BufSize \in Nat /\ (shortages + 1) * BufSize = shortages * BufSize + BufSize
  BY <1>1, OneMore
<1>4. /\ shortages' * BufSize = shortages * BufSize \/ shortages' * BufSize = shortages * BufSize + BufSize
      /\ short # {} => shortages' * BufSize = shortages * BufSize + BufSize
  BY <1>2, <1>3, Zenon
<1> DEFINE old == shortages * BufSize
           new == shortages' * BufSize
<1>5. /\ old \in Nat /\ (new = old \/ new = old + BufSize)
      /\ short # {} => new = old + BufSize
  BY <1>3, <1>4
<1> HIDE DEF old, new
<1>6. old \in Nat /\ new \in Nat /\ new >= old
  BY <1>1, <1>5
<1> QED BY <1>2, <1>5, <1>6, Zenon DEF old, new

LEMMA SendKeeps ==
  ASSUME IInv, NEW e \in End, NEW x \in Byte, Send(e, x)
  PROVE  IInv'
<1>0. TypeOK /\ x \in Unit /\ state' = state /\ open' = open /\ dropped' = dropped
      /\ greeting' = greeting /\ shortages' = shortages
  BY DEF IInv, Send, Unit
<1>1. /\ sent' = [f \in End |-> IF f = e THEN Append(sent[e], x) ELSE sent[f]]
      /\ kept' = [f \in End |-> IF f = e THEN Append(kept[e], x) ELSE kept[f]]
      /\ wire' = [f \in End |-> IF f = e THEN Append(wire[e], x) ELSE wire[f]]
  BY <1>0 DEF Send, TypeOK
<1>2. /\ Append(sent[e], x) \in Seq(Byte) /\ Append(kept[e], x) \in Seq(Byte)
      /\ Append(wire[e], x) \in Seq(Byte)
      /\ Len(Append(sent[e], x)) = Len(sent[e]) + 1
      /\ Len(Append(kept[e], x)) = Len(kept[e]) + 1
      /\ Len(Append(wire[e], x)) = Len(wire[e]) + 1
  BY <1>0, StreamTypes, AppendProperties
<1>3. TypeOK'
  <2>1. sent' \in [End -> Seq(Byte)] /\ kept' \in [End -> Seq(Byte)] /\ wire' \in [End -> Seq(Byte)]
    BY <1>0, <1>1, <1>2 DEF TypeOK
  <2>2. \A f \in End : dropped'[f] <= Len(kept'[f])
    <3>1. \A f \in End : dropped[f] \in Nat /\ dropped[f] <= Len(kept[f]) /\ Len(kept[f]) \in Nat
      BY <1>0, StreamTypes, LenProperties DEF TypeOK
    <3> QED BY <1>0, <1>1, <1>2, <3>1
  <2> QED BY <1>0, <2>1, <2>2 DEF TypeOK, Send
<1>4. NothingStranded' /\ BoundTogether' /\ Introduced'
  BY <1>0 DEF IInv, NothingStranded, BoundTogether, Introduced, Send
<1>5. /\ Rest(kept[e], dropped[e])' = Append(Rest(kept[e], dropped[e]), x)
      /\ \A f \in End \ {e} : Rest(kept[f], dropped[f])' = Rest(kept[f], dropped[f])
  <2>1. Rest(Append(kept[e], x), dropped[e]) = Append(Rest(kept[e], dropped[e]), x)
    BY <1>0, StreamTypes, RestOfAppend
  <2> QED BY <1>0, <1>1, <2>1
<1>6. \A f \in End : Pipe(f)' = Pipe(f)
  BY DEF Pipe, Send
<1>7. Unmatched'
  <2> SUFFICES ASSUME NEW f \in End, state[f] # "Bind"
               PROVE  /\ greeting'[f] \in {<<>>, <<Host>>} /\ Prefix(Pipe(f)', greeting'[f])
                      /\ open'[f] => Pipe(f)' = greeting'[f] /\ wire'[f] = Rest(kept[f], dropped[f])'
    BY <1>0 DEF Unmatched
  <2>1. /\ greeting[f] \in {<<>>, <<Host>>} /\ Prefix(Pipe(f), greeting[f])
        /\ open[f] => Pipe(f) = greeting[f] /\ wire[f] = Rest(kept[f], dropped[f])
    BY DEF IInv, Unmatched
  <2>2. open[f] => wire'[f] = Rest(kept[f], dropped[f])'
    <3>1. CASE f = e
      BY <1>1, <1>5, <2>1, <3>1
    <3>2. CASE f # e
      BY <1>1, <1>5, <2>1, <3>2
    <3> QED BY <3>1, <3>2
  <2> QED BY <1>0, <1>6, <2>1, <2>2
<1>8. Matched'
  <2> SUFFICES ASSUME NEW f \in End, state[f] = "Bind"
               PROVE  IF open'[f] THEN /\ Pipe(Peer(f))' \o wire'[f] = Whole(f)'
                                       /\ dropped'[f] + Len(wire'[f]) <= Len(kept'[f])
                                  ELSE Prefix(Pipe(Peer(f))', Whole(f)')
    BY <1>0 DEF Matched
  <2>1. IF open[f] THEN /\ Pipe(Peer(f)) \o wire[f] = Whole(f)
                        /\ dropped[f] + Len(wire[f]) <= Len(kept[f])
                   ELSE Prefix(Pipe(Peer(f)), Whole(f))
    BY DEF IInv, Matched
  <2>2. Pipe(Peer(f))' = Pipe(Peer(f))
    BY <1>6, Ends
  <2>3. CASE f = e
    <3>1. open[e]
      BY DEF Send
    <3>2. Pipe(Peer(e)) \o Append(wire[e], x) = Append(Pipe(Peer(e)) \o wire[e], x)
      <4>1. Pipe(Peer(e)) \in Seq(Unit) /\ wire[e] \in Seq(Unit) /\ x \in Unit
        BY <1>0, Ends, StreamTypes
      <4> DEFINE s == Pipe(Peer(e))
      <4>2. s \in Seq(Unit)
        BY <4>1
      <4> HIDE DEF s
      <4>3. s \o Append(wire[e], x) = Append(s \o wire[e], x)
        BY <4>1, <4>2, ConcatAppend
      <4> QED BY <4>3 DEF s
    <3>3. greeting[Peer(e)] \o Append(Rest(kept[e], dropped[e]), x) = Append(Whole(e), x)
      <4> DEFINE s == greeting[Peer(e)]
                 t == Rest(kept[e], dropped[e])
      <4>1. s \in Seq(Unit) /\ t \in Seq(Unit)
        BY <1>0, StreamTypes, Ends
      <4> HIDE DEF s, t
      <4>2. s \o Append(t, x) = Append(s \o t, x)
        BY <1>0, <4>1, ConcatAppend
      <4> QED BY <4>2 DEF s, t, Whole
    <3>4. Whole(e)' = Append(Whole(e), x)
      BY <1>0, <1>5, <3>3 DEF Whole
    <3>5. dropped[e] + Len(Append(wire[e], x)) <= Len(Append(kept[e], x))
      <4>1. dropped[e] \in Nat /\ Len(wire[e]) \in Nat /\ Len(kept[e]) \in Nat
        BY <1>0, StreamTypes, LenProperties
      <4> QED BY <1>2, <2>1, <2>3, <3>1, <4>1
    <3> QED BY <1>0, <1>1, <2>1, <2>2, <2>3, <3>1, <3>2, <3>4, <3>5
  <2>4. CASE f # e
    <3>1. Whole(f)' = Whole(f)
      BY <1>0, <1>5, <2>4 DEF Whole
    <3>2. wire'[f] = wire[f] /\ kept'[f] = kept[f] /\ open'[f] = open[f] /\ dropped'[f] = dropped[f]
      BY <1>0, <1>1, <2>4
    <3> QED BY <2>1, <2>2, <3>1, <3>2
  <2> QED BY <2>3, <2>4
<1>9. Thinned'
  <2> SUFFICES ASSUME NEW f \in End
               PROVE  /\ Thins(kept'[f], sent'[f])
                      /\ Len(sent'[f]) <= Len(kept'[f]) + shortages' * BufSize
    BY DEF Thinned
  <2>1. Thins(kept[f], sent[f]) /\ Len(sent[f]) <= Len(kept[f]) + shortages * BufSize
    BY DEF IInv, Thinned
  <2>2. CASE f = e
    <3>1. Thins(Append(kept[e], x), Append(sent[e], x))
      BY <1>0, <2>1, <2>2, StreamTypes, ThinsAppend
    <3>2. Len(sent[e]) + 1 <= Len(kept[e]) + 1 + shortages * BufSize
      <4> DEFINE most == shortages * BufSize
      <4>1. Len(sent[e]) \in Nat /\ Len(kept[e]) \in Nat
        BY <1>0, StreamTypes, LenProperties
      <4>2. most \in Nat
        BY <1>0, RelayAssumption, OneMore DEF TypeOK
      <4>3. Len(sent[e]) <= Len(kept[e]) + most
        BY <2>1, <2>2
      <4> HIDE DEF most
      <4>4. Len(sent[e]) + 1 <= Len(kept[e]) + 1 + most
        BY <4>1, <4>2, <4>3
      <4> QED BY <4>4 DEF most
    <3> QED BY <1>0, <1>1, <1>2, <2>2, <3>1, <3>2
  <2>3. CASE f # e
    BY <1>0, <1>1, <2>1, <2>3
  <2> QED BY <2>2, <2>3
<1> QED BY <1>3, <1>4, <1>7, <1>8, <1>9 DEF IInv

\* A read event before the match: what was read is dropped, and the rest of
\* what was sent is still on the wire.
LEMMA DropEffect ==
  ASSUME IInv, NEW e \in End, NEW n, ReadInto(e, n), state[e] # "Bind", kept' = kept,
         dropped' = [dropped EXCEPT ![e] = @ + Len(Taken(e, n))]
  PROVE  /\ input' = input /\ open' = open /\ sent' = sent /\ open[e]
         /\ wire' \in [End -> Seq(Byte)]
         /\ dropped' = [f \in End |-> IF f = e THEN dropped[e] + n ELSE dropped[f]]
         /\ dropped' \in [End -> Nat] /\ \A f \in End : dropped'[f] <= Len(kept'[f])
         /\ dropped'[e] > 0 /\ dropped'[e] >= dropped[e]
         /\ \A f \in End : state[f] # "Bind" /\ open[f] =>
              wire'[f] = Rest(kept'[f], dropped'[f])
<1>0. TypeOK /\ NothingStranded
  BY DEF IInv
<1>1. /\ n \in 1 .. Len(wire[e]) /\ Len(Taken(e, n)) = n
      /\ wire' = [f \in End |-> IF f = e THEN Rest(wire[e], n) ELSE wire[f]]
      /\ wire' \in [End -> Seq(Byte)] /\ input' = input
  BY <1>0, ReadTakesAll
<1>2. open' = open /\ sent' = sent /\ open[e]
  BY DEF ReadInto
<1>3. \A f \in End : dropped[f] \in Nat /\ dropped[f] <= Len(kept[f]) /\ Len(kept[f]) \in Nat
                     /\ kept[f] \in Seq(Byte)
  BY <1>0, LenProperties DEF TypeOK
<1>4. dropped' = [f \in End |-> IF f = e THEN dropped[e] + n ELSE dropped[f]]
  BY <1>0, <1>1 DEF TypeOK
<1>5. \A f \in End : state[f] # "Bind" /\ open[f] => wire[f] = Rest(kept[f], dropped[f])
  BY DEF IInv, Unmatched
<1>6. Len(wire[e]) = Len(kept[e]) - dropped[e]
  <2>1. wire[e] = Rest(kept[e], dropped[e]) /\ dropped[e] \in 0 .. Len(kept[e])
    BY <1>2, <1>3, <1>5
  <2>2. kept[e] \in Seq(Byte)
    BY <1>3
  <2>3. Len(Rest(kept[e], dropped[e])) = Len(kept[e]) - dropped[e]
    BY <2>1, <2>2, RestLength
  <2> QED BY <2>1, <2>3
<1>7. n \in 0 .. Len(kept[e]) - dropped[e] /\ n > 0
  BY <1>1, <1>3, <1>6
<1>8. /\ dropped' \in [End -> Nat] /\ \A f \in End : dropped'[f] <= Len(kept'[f])
      /\ dropped'[e] > 0 /\ dropped'[e] >= dropped[e]
  <2>1. dropped[e] \in Nat /\ Len(kept[e]) \in Nat /\ n \in Nat /\ dropped[e] + n <= Len(kept[e])
    BY <1>3, <1>7
  <2>2. dropped'[e] = dropped[e] + n
    BY <1>4
  <2>3. dropped' \in [End -> Nat]
    <3>1. \A f \in End : dropped[f] \in Nat
      BY <1>3
    <3>2. dropped[e] + n \in Nat
      BY <2>1
    <3>3. \A f \in End : (IF f = e THEN dropped[e] + n ELSE dropped[f]) \in Nat
      BY <3>1, <3>2
    <3> QED BY <1>4, <3>3
  <2>4. ASSUME NEW f \in End PROVE dropped'[f] <= Len(kept'[f])
    BY <1>3, <1>4, <2>1
  <2> QED BY <1>7, <2>1, <2>2, <2>3, <2>4
<1>9. ASSUME NEW f \in End, state[f] # "Bind", open[f]
      PROVE  wire'[f] = Rest(kept'[f], dropped'[f])
  <2>1. CASE f = e
    <3>1. dropped[e] \in 0 .. Len(kept[e])
      BY <1>3
    <3>2. Rest(Rest(kept[e], dropped[e]), n) = Rest(kept[e], dropped[e] + n)
      BY <1>3, <1>7, <3>1, RestOfRest
    <3> QED BY <1>1, <1>2, <1>4, <1>5, <2>1, <3>2
  <2>2. CASE f # e
    BY <1>1, <1>2, <1>4, <1>5, <1>9, <2>2
  <2> QED BY <2>1, <2>2
<1> QED BY <1>1, <1>2, <1>4, <1>8, <1>9

LEMMA ReadAndDropKeeps ==
  ASSUME IInv, NEW e \in End, NEW n, ReadAndDrop(e, n)
  PROVE  IInv'
<1>0. TypeOK /\ state[e] # "Bind" /\ state' = state /\ output' = output
      /\ flight' = flight /\ received' = received /\ far' = far
      /\ greeting' = greeting /\ kept' = kept /\ shortages' = shortages
  BY DEF IInv, ReadAndDrop, ReadInto, history
<1>1. /\ input' = input /\ open' = open /\ sent' = sent /\ open[e]
      /\ wire' \in [End -> Seq(Byte)]
      /\ dropped' = [f \in End |-> IF f = e THEN dropped[e] + n ELSE dropped[f]]
      /\ dropped' \in [End -> Nat] /\ \A f \in End : dropped'[f] <= Len(kept'[f])
      /\ dropped'[e] > 0
      /\ \A f \in End : state[f] # "Bind" /\ open[f] => wire'[f] = Rest(kept'[f], dropped'[f])
  BY <1>0, DropEffect DEF ReadAndDrop
<1>2. TypeOK'
  BY <1>0, <1>1 DEF TypeOK
<1>3. \A f \in End : state[f] # "Bind"
  BY <1>0 DEF IInv, BoundTogether, End
<1>4. NothingStranded' /\ BoundTogether' /\ Introduced'
  BY <1>0, <1>1 DEF IInv, NothingStranded, BoundTogether, Introduced
<1>5. \A f \in End : Pipe(f)' = Pipe(f)
  BY <1>0 DEF Pipe
<1>6. Unmatched'
  BY <1>0, <1>1, <1>5 DEF IInv, Unmatched
<1>7. Matched' /\ Thinned'
  BY <1>0, <1>1, <1>3 DEF Matched, IInv, Thinned
<1> QED BY <1>2, <1>4, <1>6, <1>7 DEF IInv

\* What a write adds to an end's output is added to all that is written to it.
LEMMA WriteExtendsPipe ==
  ASSUME TypeOK, NEW e \in End, NEW data \in Seq(Unit),
         received'[e] = received[e], flight'[e] = flight[e], output'[e] = output[e] \o data
  PROVE  Pipe(e)' = Pipe(e) \o data
<1>1. Pipe(e)' = (received[e] \o flight[e]) \o (output[e] \o data)
  BY DEF Pipe
<1>2. received[e] \o flight[e] \in Seq(Unit) /\ output[e] \in Seq(Unit)
  BY StreamTypes, ConcatProperties
<1> DEFINE r == received[e] \o flight[e]
           o == output[e]
<1>3. r \in Seq(Unit) /\ o \in Seq(Unit)
  BY <1>2
<1> HIDE DEF r, o
<1>4. (r \o o) \o data = r \o (o \o data)
  BY <1>3, ConcatAssociative
<1> QED BY <1>1, <1>4 DEF r, o, Pipe

\* A login: nothing more than TELPROXY_OK is written, and that to those who have
\* been matched unless the write fails.
LEMMA LoginEffect ==
  ASSUME IInv, NEW e \in End, NEW short \in SUBSET (IF Awaited(e) THEN End ELSE {}),
         state[e] = "Raw", received' = received, flight' = flight,
         output' = [f \in End |-> output[f] \o Told(e, short)[f]],
         greeting' = [f \in End |-> greeting[f] \o Told(e, short)[f]]
  PROVE  /\ \A f \in End : state[f] # "Bind"
         /\ output' \in [End -> Seq(Unit)]
         /\ greeting' \in [End -> {<<>>, <<Host>>, <<Ok>>, <<Host, Ok>>}]
         /\ ~Awaited(e) => \A f \in End : greeting'[f] = greeting[f] /\ Pipe(f)' = Pipe(f)
         /\ \A f \in End : open[f] => Pipe(f)' = greeting'[f]
         /\ \A f \in End : Awaited(e) /\ f \notin short => greeting'[f] = greeting[f] \o <<Ok>>
         /\ \A f \in End : ~Awaited(e) \/ f \in short => greeting'[f] = greeting[f]
<1> DEFINE t == Told(e, short)
<1>0. TypeOK
  BY DEF IInv
<1>1. \A f \in End : state[f] # "Bind"
  BY DEF IInv, BoundTogether, End
<1>2. \A f \in End : greeting[f] \in {<<>>, <<Host>>} /\ (open[f] => Pipe(f) = greeting[f])
  BY <1>1 DEF IInv, Unmatched
<1>3. \A f \in End : t[f] = IF Awaited(e) /\ f \notin short THEN <<Ok>> ELSE <<>>
  BY DEF Told
<1> HIDE DEF t
<1>4. \A f \in End : t[f] \in Seq(Unit)
  BY <1>3, GreetingTypes, Zenon
<1>5. /\ output' = [f \in End |-> output[f] \o t[f]]
      /\ greeting' = [f \in End |-> greeting[f] \o t[f]]
  BY DEF t
<1>6. output' \in [End -> Seq(Unit)]
  <2>1. \A f \in End : output[f] \o t[f] \in Seq(Unit)
    <3> TAKE f \in End
    <3> DEFINE a == output[f]
               b == t[f]
    <3>1. a \in Seq(Unit) /\ b \in Seq(Unit)
      BY <1>0, <1>4, StreamTypes
    <3> HIDE DEF a, b
    <3>2. a \o b \in Seq(Unit)
      BY <3>1, ConcatProperties
    <3> QED BY <3>2 DEF a, b
  <2> QED BY <1>5, <2>1
<1>7. ASSUME NEW f \in End
      PROVE  /\ greeting'[f] \in {<<>>, <<Host>>, <<Ok>>, <<Host, Ok>>}
             /\ Awaited(e) /\ f \notin short => greeting'[f] = greeting[f] \o <<Ok>>
             /\ ~Awaited(e) \/ f \in short => greeting'[f] = greeting[f]
  <2>1. greeting'[f] = greeting[f] \o t[f]
    BY <1>5
  <2>2. CASE Awaited(e) /\ f \notin short
    <3>1. greeting'[f] = greeting[f] \o <<Ok>>
      BY <1>3, <2>1, <2>2
    <3>2. greeting[f] \o <<Ok>> \in {<<Ok>>, <<Host, Ok>>}
      BY <1>2, GreetingTypes, Zenon
    <3>3. greeting'[f] \in {<<>>, <<Host>>, <<Ok>>, <<Host, Ok>>}
      BY <3>1, <3>2, Zenon
    <3> QED BY <2>2, <3>1, <3>3, Zenon
  <2>3. CASE ~(Awaited(e) /\ f \notin short)
    <3>1. greeting'[f] = greeting[f] \o <<>>
      BY <1>3, <2>1, <2>3
    <3>2. greeting[f] \o <<>> = greeting[f]
      BY <1>2, GreetingTypes, Zenon
    <3>3. greeting'[f] \in {<<>>, <<Host>>, <<Ok>>, <<Host, Ok>>}
      BY <1>2, <3>1, <3>2, Zenon
    <3> QED BY <2>3, <3>1, <3>2, <3>3, Zenon
  <2> QED BY <2>2, <2>3, Zenon
<1>8. greeting' \in [End -> {<<>>, <<Host>>, <<Ok>>, <<Host, Ok>>}]
  <2>1. \A f \in End : greeting[f] \o t[f] \in {<<>>, <<Host>>, <<Ok>>, <<Host, Ok>>}
    BY <1>5, <1>7
  <2> QED BY <1>5, <2>1, Zenon
<1>9. ASSUME NEW f \in End PROVE Pipe(f)' = Pipe(f) \o t[f]
  <2> DEFINE data == t[f]
  <2>1. data \in Seq(Unit)
    BY <1>4
  <2>2. received'[f] = received[f] /\ flight'[f] = flight[f] /\ output'[f] = output[f] \o data
    BY <1>5
  <2> HIDE DEF data
  <2>3. Pipe(f)' = Pipe(f) \o data
    BY <1>0, <2>1, <2>2, WriteExtendsPipe
  <2> QED BY <2>3 DEF data
<1>10. ASSUME NEW f \in End, open[f] PROVE Pipe(f)' = greeting'[f]
  BY <1>2, <1>5, <1>9, <1>10
<1>11. ASSUME ~Awaited(e), NEW f \in End PROVE Pipe(f)' = Pipe(f)
  <2>1. Pipe(f)' = Pipe(f) \o <<>>
    BY <1>3, <1>9, <1>11
  <2>2. Pipe(f) \in Seq(Unit)
    BY <1>0, StreamTypes
  <2> QED BY <2>1, <2>2, ConcatEmptySeq
<1> QED BY <1>1, <1>6, <1>7, <1>8, <1>10, <1>11, Zenon

LEMMA ReadLoginKeeps ==
  ASSUME IInv, NEW e \in End, NEW n, ReadLogin(e, n)
  PROVE  IInv'
<1>0. TypeOK /\ state[e] = "Raw" /\ flight' = flight /\ received' = received /\ far' = far
      /\ kept' = kept
  BY DEF IInv, ReadLogin, ReadInto
<1>1. /\ input' = input /\ open' = open /\ sent' = sent /\ open[e]
      /\ wire' \in [End -> Seq(Byte)]
      /\ dropped' = [f \in End |-> IF f = e THEN dropped[e] + n ELSE dropped[f]]
      /\ dropped' \in [End -> Nat] /\ \A f \in End : dropped'[f] <= Len(kept'[f])
      /\ dropped'[e] > 0 /\ dropped'[e] >= dropped[e]
      /\ \A f \in End : state[f] # "Bind" /\ open[f] => wire'[f] = Rest(kept'[f], dropped'[f])
  BY <1>0, DropEffect DEF ReadLogin
<1>2. PICK short \in SUBSET (IF Awaited(e) THEN End ELSE {}) :
        /\ Shortage(short)
        /\ output' = [f \in End |-> output[f] \o Told(e, short)[f]]
        /\ greeting' = [f \in End |-> greeting[f] \o Told(e, short)[f]]
  BY DEF ReadLogin
<1>3. /\ \A f \in End : state[f] # "Bind"
      /\ output' \in [End -> Seq(Unit)]
      /\ greeting' \in [End -> {<<>>, <<Host>>, <<Ok>>, <<Host, Ok>>}]
      /\ ~Awaited(e) => \A f \in End : greeting'[f] = greeting[f] /\ Pipe(f)' = Pipe(f)
      /\ \A f \in End : open[f] => Pipe(f)' = greeting'[f]
  BY <1>0, <1>2, LoginEffect
<1>4. /\ shortages' \in Nat /\ shortages * BufSize \in Nat /\ shortages' * BufSize \in Nat
      /\ shortages' * BufSize >= shortages * BufSize
  BY <1>0, <1>2, ShortageCounts
<1>5. state' = LoggedIn(e)
  BY DEF ReadLogin
<1>6. TypeOK'
  <2>1. state' \in [End -> {"Raw", "Login", "Bind"}]
    BY <1>0, <1>5 DEF LoggedIn, TypeOK
  <2> QED BY <1>0, <1>1, <1>3, <1>4, <2>1 DEF TypeOK
<1>7. NothingStranded'
  BY <1>1 DEF IInv, NothingStranded
<1>8. Thinned'
  <2> SUFFICES ASSUME NEW f \in End
               PROVE  /\ Thins(kept[f], sent[f])
                      /\ Len(sent[f]) <= Len(kept[f]) + shortages' * BufSize
    BY <1>0, <1>1 DEF Thinned
  <2>1. Thins(kept[f], sent[f]) /\ Len(sent[f]) <= Len(kept[f]) + shortages * BufSize
    BY DEF IInv, Thinned
  <2> DEFINE old == shortages * BufSize
             new == shortages' * BufSize
  <2>2. /\ old \in Nat /\ new \in Nat /\ new >= old /\ Len(sent[f]) <= Len(kept[f]) + old
        /\ Len(sent[f]) \in Nat /\ Len(kept[f]) \in Nat
    BY <1>0, <1>4, <2>1, StreamTypes, LenProperties
  <2> HIDE DEF old, new
  <2>3. Len(sent[f]) <= Len(kept[f]) + new
    BY <2>2
  <2> QED BY <2>1, <2>3 DEF new
<1>9. CASE ~Awaited(e)
  <2>1. state' = [f \in End |-> IF f = e THEN "Login" ELSE state[f]]
    BY <1>0, <1>5, <1>9 DEF LoggedIn, TypeOK
  <2>2. \A f \in End : state'[f] # "Bind"
    BY <1>3, <2>1
  <2>3. BoundTogether'
    BY <2>2 DEF BoundTogether, End
  <2>4. Introduced'
    BY <1>1, <2>1 DEF IInv, Introduced
  <2>5. Unmatched'
    <3>1. \A f \in End : greeting'[f] = greeting[f] /\ Pipe(f)' = Pipe(f)
      BY <1>3, <1>9
    <3> QED BY <1>1, <1>3, <3>1 DEF IInv, Unmatched
  <2>6. Matched'
    BY <2>2 DEF Matched
  <2> QED BY <1>6, <1>7, <1>8, <2>3, <2>4, <2>5, <2>6 DEF IInv
<1>10. CASE Awaited(e)
  <2>1. state' = [f \in End |-> "Bind"]
    BY <1>5, <1>10 DEF LoggedIn
  <2>2. \A f \in End : open[f]
    BY <1>1, <1>10, Ends DEF Awaited
  <2>3. BoundTogether' /\ Unmatched'
    BY <2>1 DEF BoundTogether, Unmatched, End
  <2>4. Introduced'
    <3>1. dropped'[Peer(e)] > 0
      BY <1>1, <1>10, Ends DEF IInv, Introduced, Awaited
    <3>2. \A f \in End : dropped'[f] > 0
      BY <1>1, <3>1, Ends
    <3> QED BY <3>2 DEF Introduced
  <2>5. Matched'
    <3> SUFFICES ASSUME NEW f \in End
                 PROVE  /\ Pipe(Peer(f))' \o wire'[f] = Whole(f)'
                        /\ dropped'[f] + Len(wire'[f]) <= Len(kept'[f])
      BY <1>1, <2>2 DEF Matched
    <3>1. Pipe(Peer(f))' = greeting'[Peer(f)]
      BY <1>3, <2>2, Ends
    <3>2. wire'[f] = Rest(kept'[f], dropped'[f])
      BY <1>1, <1>3, <2>2
    <3>3. Pipe(Peer(f))' \o wire'[f] = Whole(f)'
      BY <3>1, <3>2 DEF Whole
    <3>4. Len(wire'[f]) = Len(kept'[f]) - dropped'[f] /\ dropped'[f] \in Nat /\ Len(kept'[f]) \in Nat
      <4>1. dropped'[f] \in Nat /\ dropped'[f] <= Len(kept[f]) /\ kept[f] \in Seq(Byte)
        BY <1>0, <1>1, StreamTypes
      <4>2. Len(kept[f]) \in Nat
        BY <4>1, LenProperties
      <4>3. PICK d \in Nat : d = dropped'[f]
        BY <4>1
      <4>4. d \in 0 .. Len(kept[f])
        BY <4>1, <4>2, <4>3
      <4>5. Len(Rest(kept[f], d)) = Len(kept[f]) - d
        BY <4>1, <4>4, RestLength
      <4> QED BY <1>0, <3>2, <4>1, <4>2, <4>3, <4>5
    <3>5. dropped'[f] + Len(wire'[f]) <= Len(kept'[f])
      <4>1. PICK d \in Nat : d = dropped'[f]
        BY <3>4
      <4>2. PICK k \in Nat : k = Len(kept'[f])
        BY <3>4
      <4>3. Len(wire'[f]) = k - d
        BY <3>4, <4>1, <4>2
      <4>4. d + (k - d) <= k
        BY <4>1, <4>2
      <4> QED BY <4>1, <4>2, <4>3, <4>4
    <3> QED BY <3>3, <3>5
  <2> QED BY <1>6, <1>7, <1>8, <2>3, <2>4, <2>5 DEF IInv
<1> QED BY <1>9, <1>10

\* A read event after the match whose write succeeds moves what was read to the
\* peer's pipe.
LEMMA RelayedKeeps ==
  ASSUME IInv, NEW e \in End, NEW n, ReadInto(e, n), state[e] = "Bind",
         output' = [output EXCEPT ![Peer(e)] = Queued(Peer(e), Taken(e, n))],
         UNCHANGED <<state, dropped, greeting, kept, shortages>>
  PROVE  IInv'
<1> DEFINE p == Peer(e)
           data == Front(wire[e], n)
<1>0. /\ TypeOK /\ NothingStranded /\ state' = state /\ dropped' = dropped
      /\ greeting' = greeting /\ kept' = kept /\ shortages' = shortages
      /\ flight' = flight /\ received' = received /\ far' = far /\ sent' = sent
      /\ open' = open /\ open[e] /\ p \in End /\ p # e /\ Peer(p) = e
  BY Ends DEF IInv, ReadInto
<1>1. /\ n \in 0 .. Len(wire[e]) /\ data \in Seq(Byte) /\ data = Taken(e, n) /\ Len(data) = n
      /\ Len(Rest(wire[e], n)) = Len(wire[e]) - n
      /\ wire' = [f \in End |-> IF f = e THEN Rest(wire[e], n) ELSE wire[f]]
      /\ wire' \in [End -> Seq(Byte)] /\ input' = input
  <2>1. /\ n \in 1 .. Len(wire[e]) /\ Taken(e, n) = data /\ Taken(e, n) \in Seq(Byte)
        /\ Len(Taken(e, n)) = n
        /\ wire' = [f \in End |-> IF f = e THEN Rest(wire[e], n) ELSE wire[f]]
        /\ wire' \in [End -> Seq(Byte)] /\ input' = input
    BY <1>0, ReadTakesAll
  <2>2. wire[e] \in Seq(Byte) /\ n \in 0 .. Len(wire[e])
    BY <1>0, <2>1, StreamTypes
  <2>3. Len(Rest(wire[e], n)) = Len(wire[e]) - n
    BY <2>2, RestLength
  <2> QED BY <2>1, <2>2, <2>3
<1>2. output' = [f \in End |-> IF f = p THEN output[p] \o data ELSE output[f]]
  BY <1>0, <1>1 DEF Queued, TypeOK
<1>3. data \in Seq(Unit) /\ Rest(wire[e], n) \in Seq(Unit) /\ wire[e] \in Seq(Unit)
  <2>1. Byte \subseteq Unit
    BY DEF Unit
  <2>2. wire[e] \in Seq(Byte) /\ Rest(wire[e], n) \in Seq(Byte)
    BY <1>0, <1>1, StreamTypes, FrontAndRest
  <2> QED BY <1>1, <2>1, <2>2, SeqMonotonic
<1> HIDE DEF data, p
<1>4. output[p] \o data \in Seq(Unit)
  BY <1>0, <1>3, StreamTypes, ConcatProperties
<1>5. TypeOK'
  <2>1. \A f \in End : output[f] \in Seq(Unit)
    BY <1>0, StreamTypes
  <2>2. \A f \in End : (IF f = p THEN output[p] \o data ELSE output[f]) \in Seq(Unit)
    BY <1>4, <2>1
  <2>3. output' \in [End -> Seq(Unit)]
    BY <1>2, <2>2
  <2> QED BY <1>0, <1>1, <2>3 DEF TypeOK
<1>6. NothingStranded' /\ BoundTogether' /\ Introduced' /\ Thinned'
  BY <1>0, <1>1 DEF IInv, NothingStranded, BoundTogether, Introduced, Thinned
<1>7. Unmatched'
  <2>1. \A f \in End : state[f] = "Bind"
    BY <1>0 DEF IInv, BoundTogether, End
  <2> QED BY <1>0, <2>1 DEF Unmatched
<1>8. Pipe(e)' = Pipe(e)
  BY <1>0, <1>2 DEF Pipe
<1>9. Pipe(p)' = Pipe(p) \o data
  BY <1>0, <1>2, <1>3, WriteExtendsPipe
<1>10. Matched'
  <2> SUFFICES ASSUME NEW f \in End
               PROVE  IF open'[f] THEN /\ Pipe(Peer(f))' \o wire'[f] = Whole(f)'
                                       /\ dropped'[f] + Len(wire'[f]) <= Len(kept'[f])
                                  ELSE Prefix(Pipe(Peer(f))', Whole(f)')
    BY DEF Matched
  <2>1. state[f] = "Bind"
    BY <1>0 DEF IInv, BoundTogether, End
  <2>2. IF open[f] THEN /\ Pipe(Peer(f)) \o wire[f] = Whole(f)
                        /\ dropped[f] + Len(wire[f]) <= Len(kept[f])
                   ELSE Prefix(Pipe(Peer(f)), Whole(f))
    BY <2>1 DEF IInv, Matched
  <2>3. Whole(f)' = Whole(f)
    BY <1>0 DEF Whole
  <2>4. CASE f = e
    <3>1. Pipe(p) \o wire[e] = Whole(e) /\ dropped[e] + Len(wire[e]) <= Len(kept[e])
      BY <1>0, <2>2, <2>4 DEF p
    <3>2. Pipe(p) \in Seq(Unit)
      BY <1>0, StreamTypes
    <3> DEFINE s == Pipe(p)
    <3>3. s \in Seq(Unit)
      BY <3>2
    <3> HIDE DEF s
    <3>4. (s \o Front(wire[e], n)) \o Rest(wire[e], n) = s \o wire[e]
      BY <1>1, <1>3, <3>3, Shift
    <3>5. Pipe(p)' \o wire'[e] = Whole(e)
      BY <1>1, <1>9, <3>1, <3>4 DEF s, data
    <3>6. dropped[e] + (Len(wire[e]) - n) <= Len(kept[e])
      <4>1. Len(wire[e]) \in Nat /\ dropped[e] \in Nat /\ Len(kept[e]) \in Nat
        BY <1>0, StreamTypes, LenProperties
      <4> QED BY <1>1, <3>1, <4>1
    <3>7. dropped'[e] + Len(wire'[e]) <= Len(kept'[e])
      BY <1>0, <1>1, <3>6
    <3> QED BY <1>0, <2>3, <2>4, <3>5, <3>7 DEF p
  <2>5. CASE f = p
    <3>1. /\ Pipe(Peer(f))' = Pipe(Peer(f)) /\ wire'[f] = wire[f] /\ open'[f] = open[f]
          /\ dropped'[f] = dropped[f] /\ kept'[f] = kept[f]
      BY <1>0, <1>1, <1>8, <2>5
    <3> QED BY <2>2, <2>3, <3>1
  <2> QED BY <2>4, <2>5, Ends DEF p
<1> QED BY <1>5, <1>6, <1>7, <1>10 DEF IInv

\* A read event after the match whose write fails: what was read is cut out of
\* what is kept, right behind what has been written to the peer.
LEMMA LossEffect ==
  ASSUME IInv, NEW e \in End, NEW n, ReadInto(e, n), state[e] = "Bind",
         kept' = [kept EXCEPT ![e] = Without(e, Taken(e, n))],
         NEW k, k = Len(kept[e]) - Len(wire[e])
  PROVE  /\ input' = input /\ open[e]
         /\ wire' = [f \in End |-> IF f = e THEN Rest(wire[e], n) ELSE wire[f]]
         /\ wire' \in [End -> Seq(Byte)]
         /\ n \in 1 .. Len(wire[e]) /\ n <= BufSize /\ n \in Nat /\ k \in Nat
         /\ dropped[e] <= k /\ k + n <= Len(kept[e])
         /\ kept' = [f \in End |-> IF f = e THEN Front(kept[e], k) \o Rest(kept[e], k + n) ELSE kept[f]]
         /\ Front(kept[e], k) \o Rest(kept[e], k + n) \in Seq(Byte)
         /\ Len(Front(kept[e], k) \o Rest(kept[e], k + n)) = Len(kept[e]) - n
<1>0. TypeOK /\ NothingStranded /\ open[e] /\ kept[e] \in Seq(Byte) /\ wire[e] \in Seq(Byte)
      /\ kept \in [End -> Seq(Byte)]
  BY DEF IInv, ReadInto, TypeOK
<1>1. /\ n \in 1 .. Len(wire[e]) /\ Len(Taken(e, n)) = n
      /\ wire' = [f \in End |-> IF f = e THEN Rest(wire[e], n) ELSE wire[f]]
      /\ wire' \in [End -> Seq(Byte)] /\ input' = input
  BY <1>0, ReadTakesAll
<1>2. n <= BufSize
  <2>1. n \in 1 .. Lesser(Len(wire[e]), MaxRead)
    BY DEF ReadInto
  <2>2. Len(wire[e]) \in Nat /\ MaxRead \in Nat /\ BufSize \in Nat /\ MaxRead <= BufSize
    BY <1>0, LenProperties, RelayAssumption
  <2>3. n \in Nat /\ n <= MaxRead
    BY <1>1, <2>1, <2>2 DEF Lesser
  <2> QED BY <2>2, <2>3
<1>3. /\ Len(wire[e]) \in Nat /\ Len(kept[e]) \in Nat /\ dropped[e] \in Nat /\ n \in Nat
      /\ dropped[e] + Len(wire[e]) <= Len(kept[e]) /\ n <= Len(wire[e])
  BY <1>0, <1>1, StreamTypes, LenProperties DEF IInv, Matched
<1>4. k \in Nat /\ dropped[e] <= k /\ k + n <= Len(kept[e])
  <2> DEFINE lw == Len(wire[e])
             lk == Len(kept[e])
             d == dropped[e]
  <2>1. /\ lw \in Nat /\ lk \in Nat /\ d \in Nat /\ n \in Nat /\ d + lw <= lk /\ n <= lw
        /\ k = lk - lw
    BY <1>3
  <2> HIDE DEF lw, lk, d
  <2>2. k \in Nat /\ d <= k /\ k + n <= lk
    BY <2>1
  <2> QED BY <2>2 DEF lk, d
<1>5. input[e] \o wire[e] = wire[e]
  BY <1>0, ConcatEmptySeq DEF NothingStranded
<1>6. Without(e, Taken(e, n)) = Front(kept[e], k) \o Rest(kept[e], k + n)
  BY <1>1, <1>5 DEF Without
<1>7. kept' = [f \in End |-> IF f = e THEN Front(kept[e], k) \o Rest(kept[e], k + n) ELSE kept[f]]
  BY <1>0, <1>6
<1>8. /\ Front(kept[e], k) \o Rest(kept[e], k + n) \in Seq(Byte)
      /\ Len(Front(kept[e], k) \o Rest(kept[e], k + n)) = Len(kept[e]) - n
  <2>1. kept[e] \in Seq(Byte) /\ k \in Nat /\ n \in Nat /\ k + n <= Len(kept[e])
    BY <1>0, <1>3, <1>4
  <2> QED BY ONLY <2>1, CutLength, Zenon
<1> QED BY <1>0, <1>1, <1>2, <1>3, <1>4, <1>7, <1>8

LEMMA LostKeeps ==
  ASSUME IInv, NEW e \in End, NEW n, ReadInto(e, n), state[e] = "Bind",
         Shortage({Peer(e)}), kept' = [kept EXCEPT ![e] = Without(e, Taken(e, n))],
         UNCHANGED <<state, dropped, greeting, output>>
  PROVE  IInv'
<1> DEFINE k == Len(kept[e]) - Len(wire[e])
           cut == Front(kept[e], k) \o Rest(kept[e], k + n)
<1>0. /\ TypeOK /\ state' = state /\ dropped' = dropped /\ greeting' = greeting /\ output' = output
      /\ flight' = flight /\ received' = received /\ far' = far /\ sent' = sent /\ open' = open
  BY DEF IInv, ReadInto
<1>1. /\ input' = input /\ open[e]
      /\ wire' = [f \in End |-> IF f = e THEN Rest(wire[e], n) ELSE wire[f]]
      /\ wire' \in [End -> Seq(Byte)]
      /\ n \in 1 .. Len(wire[e]) /\ n <= BufSize /\ n \in Nat /\ k \in Nat
      /\ dropped[e] <= k /\ k + n <= Len(kept[e])
      /\ kept' = [f \in End |-> IF f = e THEN cut ELSE kept[f]]
      /\ cut \in Seq(Byte) /\ Len(cut) = Len(kept[e]) - n
  BY LossEffect
<1>2. k = Len(kept[e]) - Len(wire[e])
  OBVIOUS
<1> HIDE DEF k
<1>3. /\ shortages' \in Nat /\ shortages * BufSize \in Nat
      /\ shortages' * BufSize = shortages * BufSize + BufSize
  <2>1. {Peer(e)} # {}
    OBVIOUS
  <2> QED BY <1>0, <2>1, ShortageCounts
<1>4. \A f \in End : /\ dropped[f] \in Nat /\ Len(kept[f]) \in Nat /\ dropped[f] <= Len(kept[f])
                     /\ Len(wire[f]) \in Nat /\ Len(sent[f]) \in Nat
                     /\ kept[f] \in Seq(Byte) /\ kept[f] \in Seq(Unit) /\ wire[f] \in Seq(Unit)
                     /\ sent[f] \in Seq(Byte)
  BY <1>0, StreamTypes, LenProperties
<1>5. TypeOK'
  <2>1. kept' \in [End -> Seq(Byte)]
    BY <1>0, <1>1 DEF TypeOK
  <2>2. dropped[e] <= Len(cut)
    BY <1>1, <1>4
  <2>3. \A f \in End : dropped'[f] <= Len(kept'[f])
    BY <1>0, <1>1, <1>4, <2>2
  <2> QED BY <1>0, <1>1, <1>3, <2>1, <2>3 DEF TypeOK
<1>6. NothingStranded' /\ BoundTogether' /\ Introduced'
  BY <1>0, <1>1 DEF IInv, NothingStranded, BoundTogether, Introduced
<1>7. \A f \in End : state[f] = "Bind" /\ Pipe(f)' = Pipe(f)
  BY <1>0 DEF IInv, BoundTogether, End, Pipe
<1>8. Unmatched'
  BY <1>0, <1>7 DEF Unmatched
<1>9. Matched'
  <2> SUFFICES ASSUME NEW f \in End
               PROVE  IF open'[f] THEN /\ Pipe(Peer(f))' \o wire'[f] = Whole(f)'
                                       /\ dropped'[f] + Len(wire'[f]) <= Len(kept'[f])
                                  ELSE Prefix(Pipe(Peer(f))', Whole(f)')
    BY DEF Matched
  <2>1. IF open[f] THEN /\ Pipe(Peer(f)) \o wire[f] = Whole(f)
                        /\ dropped[f] + Len(wire[f]) <= Len(kept[f])
                   ELSE Prefix(Pipe(Peer(f)), Whole(f))
    BY <1>7 DEF IInv, Matched
  <2>2. Pipe(Peer(f))' = Pipe(Peer(f))
    BY <1>7, Ends
  <2>3. CASE f = e
    <3> DEFINE a == Pipe(Peer(e))
               w == wire[e]
               g == greeting[Peer(e)]
               t == kept[e]
               d == dropped[e]
    <3>1. a \in Seq(Unit) /\ w \in Seq(Unit) /\ g \in Seq(Unit) /\ t \in Seq(Unit)
      BY <1>0, <1>4, StreamTypes, Ends
    <3>2. Same(a, w, g, Rest(t, d)) /\ d + Len(w) <= Len(t)
      BY <1>1, <2>1, <2>3 DEF Whole, Same
    <3>3. /\ d \in 0 .. Len(t) /\ n \in 0 .. Len(w) /\ k \in Nat /\ d <= k
          /\ k = Len(t) - Len(w)
      BY <1>1, <1>2, <1>4
    <3>4. Len(Rest(w, n)) = Len(w) - n
      <4>1. w \in Seq(Unit) /\ n \in 0 .. Len(w)
        BY <3>1, <3>3
      <4> QED BY <4>1, RestLength
    <3> HIDE DEF a, w, g, t, d
    <3>5. Same(a, Rest(w, n), g, Rest(Front(t, k) \o Rest(t, k + n), d))
      BY ONLY <3>1, <3>2, <3>3, CutTail
    <3>6. Pipe(Peer(f))' \o wire'[f] = a \o Rest(w, n)
      BY <1>1, <2>2, <2>3 DEF a, w
    <3>7. Whole(f)' = g \o Rest(Front(t, k) \o Rest(t, k + n), d)
      BY <1>0, <1>1, <2>3 DEF g, t, d, Whole
    <3>8. d + (Len(w) - n) <= Len(t) - n
      BY <1>1, <1>4, <3>2, <3>3 DEF d, w, t
    <3>9. dropped'[f] + Len(wire'[f]) <= Len(kept'[f])
      BY <1>0, <1>1, <2>3, <3>4, <3>8 DEF d, w, t
    <3>10. Pipe(Peer(f))' \o wire'[f] = Whole(f)'
      BY <3>5, <3>6, <3>7 DEF Same
    <3> QED BY <1>0, <1>1, <2>3, <3>9, <3>10
  <2>4. CASE f # e
    <3>1. /\ wire'[f] = wire[f] /\ kept'[f] = kept[f] /\ open'[f] = open[f]
          /\ dropped'[f] = dropped[f] /\ Whole(f)' = Whole(f)
      BY <1>0, <1>1, <2>4 DEF Whole
    <3> QED BY <2>1, <2>2, <3>1
  <2> QED BY <2>3, <2>4
<1>10. Thinned'
  <2> SUFFICES ASSUME NEW f \in End
               PROVE  /\ Thins(kept'[f], sent[f])
                      /\ Len(sent[f]) <= Len(kept'[f]) + shortages' * BufSize
    BY <1>0 DEF Thinned
  <2>1. Thins(kept[f], sent[f]) /\ Len(sent[f]) <= Len(kept[f]) + shortages * BufSize
    BY DEF IInv, Thinned
  <2> DEFINE old == shortages * BufSize
             new == shortages' * BufSize
  <2>2. /\ old \in Nat /\ new = old + BufSize /\ BufSize \in Nat
        /\ Len(sent[f]) <= Len(kept[f]) + old /\ Len(sent[f]) \in Nat /\ Len(kept[f]) \in Nat
    BY <1>3, <1>4, <2>1, RelayAssumption
  <2> HIDE DEF old, new
  <2> DEFINE ls == Len(sent[f])
             lk == Len(kept[f])
  <2>3. /\ ls \in Nat /\ lk \in Nat /\ old \in Nat /\ new = old + BufSize /\ BufSize \in Nat
        /\ ls <= lk + old /\ n \in Nat /\ n <= BufSize
    BY <1>1, <2>2
  <2> HIDE DEF ls, lk
  <2>4. ls <= lk + new /\ ls <= (lk - n) + new
    BY <2>3
  <2>5. CASE f = e
    <3>1. Thins(cut, sent[e])
      <4>1. /\ kept[e] \in Seq(Byte) /\ sent[e] \in Seq(Byte) /\ Thins(kept[e], sent[e])
            /\ k \in Nat /\ n \in Nat /\ k + n <= Len(kept[e])
        BY <1>1, <1>4, <2>1, <2>5
      <4> QED BY ONLY <4>1, ThinsCut, Zenon
    <3> QED BY <1>1, <2>4, <2>5, <3>1 DEF new, ls, lk
  <2>6. CASE f # e
    BY <1>1, <2>1, <2>4, <2>6 DEF new, ls, lk
  <2> QED BY <2>5, <2>6
<1> QED BY <1>5, <1>6, <1>8, <1>9, <1>10 DEF IInv

LEMMA ReadAndRelayKeeps ==
  ASSUME IInv, NEW e \in End, NEW n, ReadAndRelay(e, n)
  PROVE  IInv'
<1>1. ReadInto(e, n) /\ state[e] = "Bind" /\ UNCHANGED <<state, dropped, greeting>>
  BY DEF ReadAndRelay
<1>2. CASE /\ output' = [output EXCEPT ![Peer(e)] = Queued(Peer(e), Taken(e, n))]
           /\ UNCHANGED <<kept, shortages>>
  BY <1>1, <1>2, RelayedKeeps
<1>3. CASE /\ Shortage({Peer(e)})
           /\ kept' = [kept EXCEPT ![e] = Without(e, Taken(e, n))]
           /\ UNCHANGED output
  BY <1>1, <1>3, LostKeeps
<1> QED BY <1>2, <1>3 DEF ReadAndRelay

LEMMA ReceiveKeeps ==
  ASSUME IInv, NEW e \in End, Receive(e)
  PROVE  IInv'
<1>0. TypeOK /\ flight[e] # <<>> /\ received[e] \in Seq(Unit) /\ flight[e] \in Seq(Unit)
      /\ output[e] \in Seq(Unit)
  BY DEF IInv, TypeOK, Receive
<1>1. /\ received' = [f \in End |-> IF f = e THEN Append(received[e], Head(flight[e])) ELSE received[f]]
      /\ flight' = [f \in End |-> IF f = e THEN Tail(flight[e]) ELSE flight[f]]
  BY <1>0 DEF Receive, TypeOK
<1>2. Append(received[e], Head(flight[e])) \in Seq(Unit) /\ Tail(flight[e]) \in Seq(Unit)
  BY <1>0, HeadTailProperties, AppendProperties
<1>3. TypeOK'
  <2>1. received' \in [End -> Seq(Unit)] /\ flight' \in [End -> Seq(Unit)]
    BY <1>0, <1>1, <1>2 DEF TypeOK
  <2> QED BY <1>0, <2>1 DEF Receive, TypeOK, history
<1>4. Append(received[e], Head(flight[e])) \o Tail(flight[e]) = received[e] \o flight[e]
  BY <1>0, ShiftOne
<1>5. ASSUME NEW f \in End PROVE Pipe(f)' = Pipe(f)
  <2>1. received'[f] \o flight'[f] = received[f] \o flight[f]
    BY <1>1, <1>4
  <2> QED BY <2>1 DEF Pipe, Receive
<1> QED BY <1>3, <1>5, PipeKeeps DEF Receive

LEMMA FlushKeeps ==
  ASSUME IInv, NEW e \in End, NEW n, Flush(e, n)
  PROVE  IInv'
<1>0. TypeOK /\ received[e] \in Seq(Unit) /\ flight[e] \in Seq(Unit) /\ output[e] \in Seq(Unit)
  BY DEF IInv, TypeOK
<1>1. n \in 0 .. Len(output[e])
  <2>1. Len(output[e]) \in Nat /\ Len(flight[e]) \in Nat /\ Window \in Nat
    BY <1>0, LenProperties, RelayAssumption
  <2> DEFINE k == Len(output[e])
             w == Window - Len(flight[e])
  <2>2. n \in 1 .. Lesser(k, w)
    BY DEF Flush
  <2>3. k \in Nat /\ w \in Int
    BY <2>1
  <2> HIDE DEF k, w
  <2>4. n \in 0 .. k
    BY <2>2, <2>3 DEF Lesser
  <2> QED BY <2>4 DEF k
<1> DEFINE a == Front(output[e], n)
           b == Rest(output[e], n)
<1>2. a \in Seq(Unit) /\ b \in Seq(Unit)
  BY <1>0, <1>1, FrontAndRest
<1>3. a \o b = output[e]
  BY <1>0, <1>1, FrontAndRest
<1>4. /\ flight' = [f \in End |-> IF f = e THEN flight[e] \o a ELSE flight[f]]
      /\ output' = [f \in End |-> IF f = e THEN b ELSE output[f]]
  BY <1>0 DEF Flush, TypeOK
<1> HIDE DEF a, b
<1>5. TypeOK'
  <2>1. flight[e] \o a \in Seq(Unit)
    BY <1>0, <1>2, ConcatProperties
  <2>2. flight' \in [End -> Seq(Unit)] /\ output' \in [End -> Seq(Unit)]
    BY <1>0, <1>2, <1>4, <2>1 DEF TypeOK
  <2> QED BY <1>0, <2>2 DEF Flush, TypeOK, history
<1>6. (received[e] \o (flight[e] \o a)) \o b = (received[e] \o flight[e]) \o output[e]
  <2> DEFINE rf == received[e] \o flight[e]
  <2>1. rf \in Seq(Unit)
    BY <1>0, ConcatProperties
  <2> DEFINE r == received[e]
             l == flight[e]
  <2>2. r \in Seq(Unit) /\ l \in Seq(Unit) /\ a \in Seq(Unit)
    BY <1>0, <1>2
  <2> HIDE DEF r, l
  <2>3. r \o (l \o a) = (r \o l) \o a
    BY <2>2, ConcatAssociative
  <2>4. received[e] \o (flight[e] \o a) = rf \o a
    BY <2>3 DEF r, l
  <2> HIDE DEF rf
  <2>5. (rf \o a) \o b = rf \o (a \o b)
    BY <1>2, <2>1, ConcatAssociative
  <2>6. (received[e] \o (flight[e] \o a)) \o b = rf \o output[e]
    BY <1>3, <2>4, <2>5, Zenon
  <2> QED BY <2>6 DEF rf
<1>7. ASSUME NEW f \in End PROVE Pipe(f)' = Pipe(f)
  <2>1. received' = received
    BY DEF Flush
  <2>2. CASE f = e
    BY <1>4, <1>6, <2>1, <2>2 DEF Pipe
  <2>3. CASE f # e
    BY <1>4, <2>1, <2>3 DEF Pipe
  <2> QED BY <2>2, <2>3
<1> QED BY <1>5, <1>7, PipeKeeps DEF Flush

\* removeSession loses the tails of the pipes of those it removes, and ends
\* nobody else's.
LEMMA RemoveKeeps ==
  ASSUME IInv, NEW e \in End, Remove(PairOf(e))
  PROVE  IInv'
<1> DEFINE gone == PairOf(e)
<1>0. /\ TypeOK /\ gone \subseteq End /\ e \in gone
      /\ state' = state /\ far' = far /\ sent' = sent /\ received' = received /\ dropped' = dropped
      /\ greeting' = greeting /\ kept' = kept /\ shortages' = shortages
  BY DEF IInv, PairOf, Remove, history
<1>1. /\ open' = [f \in End |-> open[f] /\ f \notin gone]
      /\ wire' = [f \in End |-> IF f \in gone THEN <<>> ELSE wire[f]]
      /\ input' = [f \in End |-> IF f \in gone THEN <<>> ELSE input[f]]
      /\ output' = [f \in End |-> IF f \in gone THEN <<>> ELSE output[f]]
  BY DEF Remove
<1>2. PICK cut \in SUBSET {f \in gone : wire[f] # <<>>} :
        flight' = [f \in End |-> IF f \in cut THEN <<>> ELSE flight[f]]
  BY DEF Remove
<1>3. \A f \in gone : state[f] = "Bind" => gone = End
  BY DEF PairOf
<1>4. \A f \in End : state[f] = "Bind" => gone = End
  BY <1>0, <1>3 DEF IInv, BoundTogether, End, PairOf
<1> HIDE DEF gone
<1>5. TypeOK'
  <2>1. <<>> \in Seq(Byte) /\ <<>> \in Seq(Unit)
    BY EmptySeq
  <2>2. open' \in [End -> BOOLEAN]
    BY <1>0, <1>1 DEF TypeOK
  <2>3. wire' \in [End -> Seq(Byte)] /\ input' \in [End -> Seq(Byte)]
    BY <1>0, <1>1, <2>1 DEF TypeOK
  <2>4. output' \in [End -> Seq(Unit)] /\ flight' \in [End -> Seq(Unit)]
    BY <1>0, <1>1, <1>2, <2>1 DEF TypeOK
  <2> QED BY <1>0, <2>2, <2>3, <2>4 DEF TypeOK
<1>6. NothingStranded' /\ BoundTogether' /\ Introduced'
  BY <1>0, <1>1 DEF IInv, NothingStranded, BoundTogether, Introduced
<1>7. ASSUME NEW f \in End
      PROVE  /\ f \notin gone => Pipe(f)' = Pipe(f)
             /\ Pipe(f)' \in Seq(Unit) /\ Prefix(Pipe(f)', Pipe(f))
  <2>1. received[f] \in Seq(Unit) /\ flight[f] \in Seq(Unit) /\ output[f] \in Seq(Unit)
        /\ <<>> \in Seq(Unit)
    BY <1>0, StreamTypes, EmptySeq
  <2> DEFINE rf == received[f] \o flight[f]
  <2>2. rf \in Seq(Unit)
    BY <2>1, ConcatProperties
  <2>3. received[f] \o <<>> = received[f]
    BY <2>1, ConcatEmptySeq
  <2>4. Prefix(received[f], rf)
    BY <2>1, PrefixOfConcat
  <2>5. f \notin gone => Pipe(f)' = Pipe(f)
    BY <1>0, <1>1, <1>2 DEF Pipe
  <2>6. f \in gone => Pipe(f)' = rf \o <<>> \/ Pipe(f)' = received[f] \o <<>>
    <3>1. f \in cut => Pipe(f)' = (received[f] \o <<>>) \o <<>>
      BY <1>0, <1>1, <1>2 DEF Pipe
    <3>2. f \in gone /\ f \notin cut => Pipe(f)' = rf \o <<>>
      BY <1>0, <1>1, <1>2 DEF Pipe
    <3> QED BY <2>3, <3>1, <3>2
  <2> HIDE DEF rf
  <2>7. rf \o <<>> = rf
    BY <2>2, ConcatEmptySeq
  <2>8. Prefix(rf, rf \o output[f]) /\ rf \o output[f] \in Seq(Unit)
    BY <2>1, <2>2, PrefixOfConcat, ConcatProperties
  <2>9. Prefix(received[f], rf \o output[f])
    BY <2>1, <2>2, <2>4, <2>8, PrefixTransitive
  <2>10. Pipe(f) = rf \o output[f]
    BY DEF Pipe, rf
  <2>11. Prefix(Pipe(f), Pipe(f)) /\ Pipe(f) \in Seq(Unit)
    BY <2>8, <2>10, PrefixReflexive
  <2> QED BY <2>1, <2>2, <2>3, <2>5, <2>6, <2>7, <2>8, <2>9, <2>10, <2>11
<1>8. Unmatched'
  <2> SUFFICES ASSUME NEW f \in End, state[f] # "Bind"
               PROVE  /\ greeting[f] \in {<<>>, <<Host>>} /\ Prefix(Pipe(f)', greeting[f])
                      /\ open'[f] => Pipe(f)' = greeting[f] /\ wire'[f] = Rest(kept[f], dropped[f])'
    BY <1>0 DEF Unmatched
  <2>1. /\ greeting[f] \in {<<>>, <<Host>>} /\ Prefix(Pipe(f), greeting[f])
        /\ open[f] => Pipe(f) = greeting[f] /\ wire[f] = Rest(kept[f], dropped[f])
    BY DEF IInv, Unmatched
  <2>2. Prefix(Pipe(f)', greeting[f])
    BY <1>0, <1>7, <2>1, StreamTypes, PrefixTransitive
  <2> QED BY <1>0, <1>1, <1>7, <2>1, <2>2
<1>9. Matched'
  <2> SUFFICES ASSUME NEW f \in End, state[f] = "Bind"
               PROVE  IF open'[f] THEN /\ Pipe(Peer(f))' \o wire'[f] = Whole(f)'
                                       /\ dropped'[f] + Len(wire'[f]) <= Len(kept'[f])
                                  ELSE Prefix(Pipe(Peer(f))', Whole(f)')
    BY <1>0 DEF Matched
  <2>1. ~open'[f]
    BY <1>1, <1>4
  <2>2. Whole(f)' = Whole(f) /\ Whole(f) \in Seq(Unit)
    BY <1>0, StreamTypes DEF Whole
  <2>3. Prefix(Pipe(Peer(f)), Whole(f))
    <3>1. IF open[f] THEN Pipe(Peer(f)) \o wire[f] = Whole(f)
                     ELSE Prefix(Pipe(Peer(f)), Whole(f))
      BY DEF IInv, Matched
    <3>2. Prefix(Pipe(Peer(f)), Pipe(Peer(f)) \o wire[f])
      BY <1>0, Ends, StreamTypes, PrefixOfConcat
    <3> QED BY <3>1, <3>2
  <2>4. /\ Prefix(Pipe(Peer(f))', Pipe(Peer(f))) /\ Pipe(Peer(f))' \in Seq(Unit)
        /\ Pipe(Peer(f)) \in Seq(Unit)
    BY <1>0, <1>7, Ends, StreamTypes
  <2>5. Prefix(Pipe(Peer(f))', Whole(f))
    BY <2>2, <2>3, <2>4, PrefixTransitive
  <2> QED BY <2>1, <2>2, <2>5
<1>10. Thinned'
  BY <1>0 DEF IInv, Thinned
<1> QED BY <1>5, <1>6, <1>8, <1>9, <1>10 DEF IInv

-----------------------------------------------------------------------------
(* The invariant. *)

LEMMA InitEstablishes == Init => IInv
<1> SUFFICES ASSUME Init PROVE IInv
  OBVIOUS
<1>1. /\ <<>> \in Seq(Byte) /\ <<>> \in Seq(Unit) /\ <<Host>> \in Seq(Unit) /\ Len(<<>>) = 0
  BY EmptySeq DEF Unit
<1>2. PICK short \in SUBSET End :
        /\ shortages = IF short = {} THEN 0 ELSE 1
        /\ greeting = [e \in End |-> IF e \in short THEN <<>> ELSE <<Host>>]
  BY DEF Init
<1>3. \A e \in End : greeting[e] \in {<<>>, <<Host>>} /\ greeting[e] \in Seq(Unit)
  <2>1. \A e \in End : greeting[e] \in {<<>>, <<Host>>}
    BY <1>2, Zenon
  <2> QED BY <1>1, <2>1
<1>4. shortages \in Nat /\ shortages * BufSize \in Nat
  <2>1. shortages \in Nat /\ BufSize \in Nat
    BY <1>2, RelayAssumption
  <2> QED BY <2>1, OneMore
<1>5. greeting \in [End -> {<<>>, <<Host>>, <<Ok>>, <<Host, Ok>>}] /\ output \in [End -> Seq(Unit)]
  <2>1. \A e \in End : (IF e \in short THEN <<>> ELSE <<Host>>) \in {<<>>, <<Host>>, <<Ok>>, <<Host, Ok>>}
    BY Zenon
  <2>2. \A e \in End : (IF e \in short THEN <<>> ELSE <<Host>>) \in Seq(Unit)
    BY <1>1
  <2>3. greeting \in [End -> {<<>>, <<Host>>, <<Ok>>, <<Host, Ok>>}]
    BY <1>2, <2>1, Zenon
  <2>4. output = [e \in End |-> IF e \in short THEN <<>> ELSE <<Host>>]
    BY <1>2 DEF Init
  <2> QED BY <2>2, <2>3, <2>4
<1>6. TypeOK
  BY <1>1, <1>4, <1>5 DEF Init, TypeOK, Far
<1>7. NothingStranded /\ BoundTogether /\ Introduced /\ Matched
  BY DEF Init, NothingStranded, BoundTogether, Introduced, Matched, End
<1>8. ASSUME NEW e \in End PROVE Pipe(e) = greeting[e] /\ wire[e] = Rest(kept[e], dropped[e])
  <2>1. Pipe(e) = (<<>> \o <<>>) \o greeting[e]
    BY DEF Init, Pipe
  <2>2. (<<>> \o <<>>) \o greeting[e] = greeting[e]
    BY <1>1, <1>3, ConcatEmptySeq
  <2> DEFINE s == <<>>
  <2>3. s \in Seq(Byte) /\ 0 \in 0 .. Len(s) /\ Len(s) - 0 = 0
    BY <1>1
  <2> HIDE DEF s
  <2>4. Len(Rest(s, 0)) = Len(s) - 0 /\ Rest(s, 0) \in Seq(Byte)
    BY <2>3, FrontAndRest
  <2>5. Rest(s, 0) = <<>>
    BY <2>3, <2>4, EmptySeq
  <2>6. Rest(<<>>, 0) = <<>>
    BY <2>5 DEF s
  <2> QED BY <2>1, <2>2, <2>6 DEF Init
<1>9. Unmatched
  <2>1. \A e \in End : Prefix(greeting[e], greeting[e])
    BY <1>3, PrefixReflexive
  <2> QED BY <1>3, <1>8, <2>1 DEF Unmatched
<1>10. Thinned
  <2> SUFFICES ASSUME NEW e \in End
               PROVE  Thins(kept[e], sent[e]) /\ Len(sent[e]) <= Len(kept[e]) + shortages * BufSize
    BY DEF Thinned
  <2>1. kept[e] = <<>> /\ sent[e] = <<>>
    BY DEF Init
  <2> DEFINE most == shortages * BufSize
  <2>2. most \in Nat
    BY <1>4
  <2> HIDE DEF most
  <2>3. 0 <= 0 + most
    BY <2>2
  <2> QED BY <1>1, <2>1, <2>3, ThinsNothing DEF most
<1> QED BY <1>6, <1>7, <1>9, <1>10 DEF IInv

LEMMA StepKeeps == IInv /\ [Next]_vars => IInv'
<1> SUFFICES ASSUME IInv, [Next]_vars PROVE IInv'
  OBVIOUS
<1>1. CASE UNCHANGED vars
  BY <1>1 DEF vars, history, IInv, TypeOK, NothingStranded, BoundTogether, Introduced, Unmatched,
              Matched, Thinned, Pipe, Whole
<1>2. CASE Next
  <2> PICK e \in End :
        \/ \E x \in Byte : Send(e, x)
        \/ Receive(e)
        \/ \E f \in Fate : Fail(e, f)
        \/ \E n \in 1 .. MaxRead : ReadLogin(e, n) \/ ReadAndDrop(e, n) \/ ReadAndRelay(e, n)
        \/ \E n \in 1 .. Window : Flush(e, n)
        \/ Hangup(e)
        \/ Timeout(e)
    BY <1>2 DEF Next
  <2>1. CASE \E x \in Byte : Send(e, x)
    BY <2>1, SendKeeps
  <2>2. CASE Receive(e)
    BY <2>2, ReceiveKeeps
  <2>3. ASSUME NEW f \in Fate, Fail(e, f) PROVE IInv'
    <3>1. TypeOK'
      BY <2>3 DEF IInv, TypeOK, Fail, Far, history
    <3>2. \A d \in End : Pipe(d)' = Pipe(d)
      BY <2>3 DEF Fail, Pipe
    <3> QED BY <2>3, <3>1, <3>2, PipeKeeps DEF Fail
  <2>4. CASE \E n \in 1 .. MaxRead : ReadLogin(e, n) \/ ReadAndDrop(e, n) \/ ReadAndRelay(e, n)
    BY <2>4, ReadLoginKeeps, ReadAndDropKeeps, ReadAndRelayKeeps
  <2>5. CASE \E n \in 1 .. Window : Flush(e, n)
    BY <2>5, FlushKeeps
  <2>6. CASE Hangup(e)
    BY <2>6, RemoveKeeps DEF Hangup
  <2>7. CASE Timeout(e)
    BY <2>7, RemoveKeeps DEF Timeout
  <2> QED BY <2>1, <2>2, <2>3, <2>4, <2>5, <2>6, <2>7
<1> QED BY <1>1, <1>2

\* Every reachable state satisfies the invariant: what has been written to an
\* end and what is still on its peer's wire are together all that is kept of
\* what the peer sent since the match, and what is not kept was read at once by
\* one of the reads whose write has failed.
THEOREM Invariance == Spec => []IInv
<1>1. Init => IInv
  BY InitEstablishes
<1>2. IInv /\ [Next]_vars => IInv'
  BY StepKeeps
<1> QED BY <1>1, <1>2, PTL DEF Spec

\* The variables keep their types.
THEOREM TypeCorrect == Spec => []TypeOK
<1>1. IInv => TypeOK
  BY DEF IInv
<1> QED BY <1>1, Invariance, PTL

\* One bufferevent_read per callback is enough: data[] is as large as libevent's
\* largest read, so no callback leaves anything in an input buffer.
THEOREM NeverStranded == Spec => []NothingStranded
<1>1. IInv => NothingStranded
  BY DEF IInv
<1> QED BY <1>1, Invariance, PTL

\* Between the match and the end of the pair every byte is where it belongs.
LEMMA InvariantLosesNothing == IInv => NothingLost
<1> SUFFICES ASSUME IInv, NEW e \in End, state[e] = "Bind", open[e]
             PROVE  Pipe(Peer(e)) \o input[e] \o wire[e] = Whole(e)
  BY DEF NothingLost
<1>1. input[e] = <<>>
  BY DEF IInv, NothingStranded
<1>2. Pipe(Peer(e)) \in Seq(Unit)
  BY StreamTypes, Ends DEF IInv
<1>3. Pipe(Peer(e)) \o input[e] = Pipe(Peer(e))
  BY <1>1, <1>2, ConcatEmptySeq
<1>4. Pipe(Peer(e)) \o wire[e] = Whole(e)
  BY DEF IInv, Matched
<1> QED BY <1>3, <1>4

\* As long as a pair lives, what is not received yet is on its way or in a buffer,
\* but for the reads whose write has failed.
THEOREM LosesNothing == Spec => []NothingLost
BY Invariance, InvariantLosesNothing, PTL

-----------------------------------------------------------------------------
(* The order in which bytes arrive. *)

LEMMA UnmatchedReceive ==
  ASSUME IInv, NEW e \in End, state[e] # "Bind"
  PROVE  Prefix(received[e], greeting[e]) /\ Len(received[e]) <= Len(greeting[e])
<1>1. TypeOK /\ Prefix(Pipe(e), greeting[e])
  BY DEF IInv, Unmatched
<1>2. received[e] \in Seq(Unit) /\ Pipe(e) \in Seq(Unit) /\ greeting[e] \in Seq(Unit)
  BY <1>1, StreamTypes
<1>3. Prefix(received[e], greeting[e])
  BY <1>1, <1>2, ReceivedBeforeRest, PrefixTransitive
<1> QED BY <1>3 DEF Prefix

LEMMA ReceivedPrefix ==
  ASSUME IInv, NEW e \in End
  PROVE  Prefix(received[e], Whole(Peer(e)))
<1> DEFINE p == Peer(e)
<1>0. TypeOK /\ p \in End /\ Peer(p) = e
  BY Ends DEF IInv
<1>1. /\ received[e] \in Seq(Unit) /\ Pipe(e) \in Seq(Unit) /\ Whole(p) \in Seq(Unit)
      /\ wire[p] \in Seq(Unit) /\ greeting[e] \in Seq(Unit)
      /\ Rest(kept[p], dropped[p]) \in Seq(Unit)
  BY <1>0, StreamTypes
<1>2. CASE state[e] = "Bind"
  <2>1. state[p] = "Bind"
    BY <1>0, <1>2 DEF IInv, BoundTogether, End
  <2>2. Pipe(e) \o wire[p] = Whole(p) \/ Prefix(Pipe(e), Whole(p))
    BY <1>0, <2>1 DEF IInv, Matched
  <2>3. Prefix(Pipe(e), Pipe(e) \o wire[p])
    BY <1>1, PrefixOfConcat
  <2>4. Prefix(Pipe(e), Whole(p))
    BY <2>2, <2>3
  <2>5. Prefix(received[e], Whole(p))
    BY <1>0, <1>1, <2>4, ReceivedBeforeRest, PrefixTransitive
  <2> QED BY <2>5
<1>3. CASE state[e] # "Bind"
  <2>1. Prefix(received[e], greeting[e])
    BY <1>3, UnmatchedReceive
  <2>2. Prefix(greeting[e], greeting[e] \o Rest(kept[p], dropped[p]))
    BY <1>1, PrefixOfConcat
  <2>3. Whole(p) = greeting[e] \o Rest(kept[p], dropped[p])
    BY <1>0 DEF Whole
  <2>4. Prefix(greeting[e], Whole(p))
    BY <2>2, <2>3
  <2>5. Prefix(received[e], Whole(p))
    BY <1>1, <2>1, <2>4, PrefixTransitive
  <2> QED BY <2>5
<1> QED BY <1>2, <1>3

LEMMA InvariantOrders == IInv => InOrder
<1> SUFFICES ASSUME IInv, NEW e \in End
             PROVE  /\ Prefix(received[e], Whole(Peer(e)))
                    /\ Thins(kept[e], sent[e])
                    /\ Len(sent[e]) <= Len(kept[e]) + shortages * BufSize
  BY DEF InOrder
<1> QED BY ReceivedPrefix DEF IInv, Thinned

\* However the stream is cut into reads and writes, each end receives the host
\* name, TELPROXY_OK and then the bytes that its peer sent since the match, in
\* order and none twice, and no gap is wider than the one read whose write failed.
THEOREM Ordered == Spec => []InOrder
BY Invariance, InvariantOrders, PTL

LEMMA HeardIsBound ==
  ASSUME IInv, NEW e \in End, Welcomed(e)
  PROVE  state[e] = "Bind" /\ state[Peer(e)] = "Bind"
<1>1. state[e] = "Bind"
  <2> SUFFICES ASSUME state[e] # "Bind" PROVE FALSE
    OBVIOUS
  <2>1. greeting[e] \in {<<>>, <<Host>>}
    BY DEF IInv, Unmatched
  <2> QED BY <2>1, GreetingTypes, Zenon DEF Welcomed
<1> QED BY <1>1 DEF IInv, BoundTogether, End, Peer

LEMMA BoundKeepsAll ==
  ASSUME IInv, [Next]_vars, NEW e \in End, state[e] = "Bind"
  PROVE  dropped'[e] = dropped[e]
<1>1. CASE UNCHANGED vars
  BY <1>1 DEF vars
<1>2. CASE Next
  <2>1. \A f \in End : state[f] = "Bind"
    BY DEF IInv, BoundTogether, End
  <2> QED BY <1>2, <2>1 DEF Next, Send, Receive, Fail, ReadLogin, ReadAndDrop, ReadAndRelay, Flush,
                            Hangup, Timeout, Remove
<1> QED BY <1>1, <1>2

\* No byte of an end that has heard TELPROXY_OK is dropped.
THEOREM NoneDroppedOnceTold == Spec => NothingDroppedOnceTold
<1>1. IInv /\ [Next]_vars => [\A e \in End : Heard(e) => dropped'[e] = dropped[e]]_vars
  BY HeardIsBound, BoundKeepsAll DEF Heard
<1> QED BY <1>1, Invariance, PTL DEF Spec, NothingDroppedOnceTold

-----------------------------------------------------------------------------
(* The relay implements the conversation of Duplex. *)

ConversationNext == [Conversation!Next]_Conversation!duplexVars

\* An end that has not been sent the whole greeting has heard nothing of its peer,
\* and after that what it receives it hears.
LEMMA HeardOfLength ==
  ASSUME TypeOK, NEW e \in End
  PROVE  /\ Len(received[e]) <= Len(greeting[e]) => HeardOf(e) = <<>>
         /\ Len(received[e]) >= Len(greeting[e]) =>
              Len(HeardOf(e)) = Len(received[e]) - Len(greeting[e])
<1>1. received[e] \in Seq(Unit) /\ greeting[e] \in Seq(Unit)
  BY StreamTypes
<1>2. Len(received[e]) \in Nat /\ Len(greeting[e]) \in Nat
  BY <1>1, LenProperties
<1>3. ASSUME Len(received[e]) <= Len(greeting[e]) PROVE HeardOf(e) = <<>>
  BY <1>1, <1>2, <1>3, RestBeyond DEF HeardOf
<1>4. ASSUME Len(received[e]) >= Len(greeting[e])
      PROVE  Len(HeardOf(e)) = Len(received[e]) - Len(greeting[e])
  <2>1. Len(greeting[e]) \in 0 .. Len(received[e])
    BY <1>2, <1>4
  <2> QED BY <1>1, <2>1, RestLength DEF HeardOf
<1> QED BY <1>3, <1>4

LEMMA ConversationStarts == Init => Conversation!Init
<1> SUFFICES ASSUME Init PROVE Conversation!Init
  OBVIOUS
<1>0. TypeOK
  BY InitEstablishes DEF IInv
<1>1. Matching = FALSE
  BY DEF Init, Matching, End
<1>2. \A e \in End : HeardOf(e) = <<>>
  <2> TAKE e \in End
  <2>1. received[e] = <<>> /\ Len(<<>>) = 0 /\ Len(greeting[e]) \in Nat
    BY <1>0, StreamTypes, LenProperties, EmptySeq DEF Init
  <2>2. Len(received[e]) <= Len(greeting[e])
    BY <2>1
  <2> QED BY <1>0, <2>2, HeardOfLength
<1>3. \A e \in End : Knows(e) = "no"
  BY <1>1 DEF Knows
<1>4. /\ [e \in End |-> Knows(e)] = [e \in End |-> "no"]
      /\ [e \in End |-> HeardOf(e)] = [e \in End |-> <<>>]
  BY <1>2, <1>3, Zenon
<1>5. /\ kept = [e \in End |-> <<>>] /\ dropped = [e \in End |-> 0]
      /\ shortages \in {0, 1} /\ Conversation!End = End
  BY DEF Init, Conversation!End, End
<1> QED BY <1>1, <1>4, <1>5 DEF Conversation!Init

\* A step that changes none of what Duplex sees.
LEMMA ConversationStutters ==
  ASSUME UNCHANGED history, dropped' = dropped, state' = state, received' = received
  PROVE  UNCHANGED Conversation!duplexVars
BY DEF Conversation!duplexVars, history, Matching, Knows, Heard, Welcomed, HeardOf

\* Sending is saying.
LEMMA SendIsSaid ==
  ASSUME NEW e \in End, NEW x \in Byte, Send(e, x)
  PROVE  Conversation!Say(e, x)
<1>1. /\ kept' = [kept EXCEPT ![e] = Append(@, x)] /\ dropped' = dropped /\ shortages' = shortages
      /\ state' = state /\ received' = received /\ greeting' = greeting
  BY DEF Send
<1>2. /\ Matching' = Matching
      /\ [f \in End |-> Knows(f)]' = [f \in End |-> Knows(f)]
      /\ [f \in End |-> HeardOf(f)]' = [f \in End |-> HeardOf(f)]
  BY <1>1 DEF Matching, Knows, Heard, Welcomed, HeardOf
<1> QED BY <1>1, <1>2 DEF Conversation!Say

\* Before the match nobody knows of it, and nobody has heard anything.
LEMMA UnmatchedKnowNothing ==
  ASSUME IInv, ~Matching
  PROVE  \A f \in End : Knows(f) = "no" /\ HeardOf(f) = <<>>
<1> SUFFICES ASSUME NEW f \in End PROVE Knows(f) = "no" /\ HeardOf(f) = <<>>
  OBVIOUS
<1>1. TypeOK /\ state[f] # "Bind"
  BY DEF IInv, BoundTogether, Matching, End
<1> QED BY <1>1, UnmatchedReceive, HeardOfLength DEF Knows

\* Reading before the match without coupling the two: the words are missed.
LEMMA DropIsMissed ==
  ASSUME IInv, IInv', NEW e \in End, ~Matching, ~Matching', UNCHANGED <<kept, shortages>>,
         dropped' = [dropped EXCEPT ![e] = dropped'[e]], dropped'[e] >= dropped[e]
  PROVE  Conversation!Miss(e)
<1>1. dropped'[e] \in dropped[e] .. Len(kept[e])
  <2>1. dropped[e] \in Nat /\ dropped'[e] \in Nat /\ dropped'[e] <= Len(kept[e]) /\ Len(kept[e]) \in Nat
    BY LenProperties DEF IInv, TypeOK
  <2> QED BY <2>1
<1>2. \A f \in End : Knows(f)' = "no" /\ HeardOf(f)' = <<>>
  <2>1. IInv /\ ~Matching => \A f \in End : Knows(f) = "no" /\ HeardOf(f) = <<>>
    BY UnmatchedKnowNothing
  <2>2. (IInv /\ ~Matching => \A f \in End : Knows(f) = "no" /\ HeardOf(f) = <<>>)'
    BY UnmatchedKnowNothing, PTL
  <2> QED BY <2>2
<1>3. /\ Matching' = Matching
      /\ [f \in End |-> Knows(f)]' = [f \in End |-> Knows(f)]
      /\ [f \in End |-> HeardOf(f)]' = [f \in End |-> HeardOf(f)]
  BY <1>2, UnmatchedKnowNothing DEF Matching
<1> QED BY <1>1, <1>3 DEF Conversation!Miss, Conversation!End, End

\* A login is missed as well, and may couple the two.  Whoever is not sent
\* TELPROXY_OK then will never be told.
LEMMA LoginIsMissed ==
  ASSUME IInv, IInv', NEW e \in End, NEW n, ReadLogin(e, n)
  PROVE  Conversation!Miss(e)
<1>0. TypeOK /\ TypeOK' /\ state[e] = "Raw" /\ received' = received /\ flight' = flight /\ kept' = kept
      /\ ~Matching
  BY DEF IInv, ReadLogin, ReadInto, Matching
<1>1. /\ dropped'[e] >= dropped[e] /\ dropped' \in [End -> Nat]
      /\ dropped' = [dropped EXCEPT ![e] = dropped'[e]]
  <2>1. /\ dropped' = [f \in End |-> IF f = e THEN dropped[e] + n ELSE dropped[f]]
        /\ dropped'[e] >= dropped[e] /\ dropped' \in [End -> Nat]
    BY <1>0, DropEffect DEF ReadLogin
  <2> QED BY <1>0, <2>1 DEF TypeOK
<1>2. PICK short \in SUBSET (IF Awaited(e) THEN End ELSE {}) :
        /\ Shortage(short)
        /\ output' = [f \in End |-> output[f] \o Told(e, short)[f]]
        /\ greeting' = [f \in End |-> greeting[f] \o Told(e, short)[f]]
  BY DEF ReadLogin
<1>3. /\ \A f \in End : Awaited(e) /\ f \notin short => greeting'[f] = greeting[f] \o <<Ok>>
      /\ \A f \in End : ~Awaited(e) \/ f \in short => greeting'[f] = greeting[f]
  BY <1>0, <1>2, LoginEffect
<1>4. short = {} => shortages' = shortages
  BY <1>2 DEF Shortage
<1>5. CASE ~Awaited(e)
  <2>1. short = {}
    BY <1>2, <1>5
  <2>2. state'[e] = "Login"
    BY <1>0, <1>5 DEF ReadLogin, LoggedIn, TypeOK
  <2>3. ~Matching'
    BY <2>2 DEF Matching
  <2> QED BY <1>0, <1>1, <1>4, <2>1, <2>3, DropIsMissed
<1>6. CASE Awaited(e)
  <2>1. Matching' = TRUE
    BY <1>6 DEF ReadLogin, LoggedIn, Matching
  <2>2. \A f \in End : dropped'[f] > 0
    BY <2>1 DEF IInv, Introduced, Matching
  <2>3. dropped'[e] \in dropped[e] .. Len(kept[e])
    <3>1. /\ dropped[e] \in Nat /\ dropped'[e] \in Nat /\ dropped'[e] <= Len(kept[e])
          /\ Len(kept[e]) \in Nat
      BY <1>0, LenProperties DEF TypeOK
    <3> QED BY <1>1, <3>1
  <2>4. ASSUME NEW f \in End
        PROVE  /\ HeardOf(f)' = HeardOf(f) /\ Knows(f) = "no"
               /\ Knows(f)' = IF f \in short THEN "never" ELSE "no"
    <3>1. /\ greeting[f] \in {<<>>, <<Host>>} /\ Len(received[f]) <= Len(greeting[f])
          /\ HeardOf(f) = <<>> /\ Knows(f) = "no"
      <4>1. state[f] # "Bind"
        BY <1>0 DEF IInv, BoundTogether, End
      <4> QED BY <1>0, <4>1, UnmatchedReceive, UnmatchedKnowNothing DEF IInv, Unmatched
    <3>2. /\ received[f] \in Seq(Unit) /\ greeting[f] \in Seq(Unit)
          /\ Len(received[f]) \in Nat /\ Len(greeting[f]) \in Nat
      BY <1>0, StreamTypes, LenProperties
    <3>3. CASE f \notin short
      <4>1. greeting'[f] = greeting[f] \o <<Ok>>
        BY <1>3, <1>6, <3>3
      <4>2. Len(greeting[f] \o <<Ok>>) = Len(greeting[f]) + 1
        <5>1. <<Ok>> \in Seq(Unit) /\ Len(<<Ok>>) = 1
          BY DEF Unit
        <5> QED BY <3>2, <5>1, ConcatProperties
      <4>3. PICK m \in Nat : m = Len(greeting'[f])
        BY <3>2, <4>1, <4>2
      <4>4. m = Len(greeting[f]) + 1 /\ Len(received[f]) <= m /\ ~(Len(received[f]) >= m)
        BY <3>1, <3>2, <4>1, <4>2, <4>3
      <4>5. Rest(received[f], m) = <<>>
        BY <3>2, <4>4, RestBeyond
      <4>6. HeardOf(f)' = <<>>
        BY <1>0, <4>3, <4>5 DEF HeardOf
      <4>7. Welcomed(f)'
        <5>1. greeting[f] \o <<Ok>> \in {<<Ok>>, <<Host, Ok>>}
          BY <3>1, GreetingTypes, Zenon
        <5> QED BY <4>1, <5>1 DEF Welcomed
      <4>8. ~Heard(f)'
        BY <1>0, <4>3, <4>4 DEF Heard
      <4> QED BY <2>1, <3>1, <3>3, <4>6, <4>7, <4>8 DEF Knows
    <3>4. CASE f \in short
      <4>1. greeting'[f] = greeting[f]
        BY <1>3, <3>4
      <4>2. HeardOf(f)' = HeardOf(f)
        BY <1>0, <4>1 DEF HeardOf
      <4>3. ~Welcomed(f)'
        <5>1. greeting[f] \notin {<<Ok>>, <<Host, Ok>>}
          BY <3>1, GreetingTypes, Zenon
        <5> QED BY <4>1, <5>1 DEF Welcomed
      <4> QED BY <2>1, <3>1, <3>4, <4>2, <4>3 DEF Knows
    <3> QED BY <3>3, <3>4
  <2>5. [f \in End |-> HeardOf(f)]' = [f \in End |-> HeardOf(f)]
    BY <2>4
  <2>6. CASE short = {}
    <3>1. [f \in End |-> Knows(f)]' = [f \in End |-> Knows(f)]
      BY <2>4, <2>6
    <3>2. shortages' = shortages
      BY <1>4, <2>6
    <3> QED BY <1>0, <1>1, <2>1, <2>2, <2>3, <2>5, <3>1, <3>2
            DEF Conversation!Miss, Conversation!End, End
  <2>7. CASE short # {}
    <3>1. Conversation!Shortage
      BY <1>0, <1>2, <2>7, ShortageCounts DEF Conversation!Shortage
    <3>2. [f \in End |-> Knows(f)]' \in [End -> {"no", "never"}]
      BY <2>4
    <3> QED BY <1>0, <1>1, <2>1, <2>2, <2>3, <2>5, <3>1, <3>2
            DEF Conversation!Miss, Conversation!End, End
  <2> QED BY <2>6, <2>7
<1> QED BY <1>5, <1>6

\* What a failing write loses has not been heard.
LEMMA LossIsLost ==
  ASSUME IInv, NEW e \in End, NEW n, ReadInto(e, n), state[e] = "Bind",
         Shortage({Peer(e)}), kept' = [kept EXCEPT ![e] = Without(e, Taken(e, n))],
         UNCHANGED <<state, dropped, greeting>>
  PROVE  Conversation!Lose(e)
<1> DEFINE k == Len(kept[e]) - Len(wire[e])
           cut == Front(kept[e], k) \o Rest(kept[e], k + n)
<1>1. /\ input' = input /\ open[e]
      /\ wire' = [f \in End |-> IF f = e THEN Rest(wire[e], n) ELSE wire[f]]
      /\ wire' \in [End -> Seq(Byte)]
      /\ n \in 1 .. Len(wire[e]) /\ n <= BufSize /\ n \in Nat /\ k \in Nat
      /\ dropped[e] <= k /\ k + n <= Len(kept[e])
      /\ kept' = [f \in End |-> IF f = e THEN cut ELSE kept[f]]
      /\ cut \in Seq(Byte) /\ Len(cut) = Len(kept[e]) - n
  BY LossEffect
<1> DEFINE p == Peer(e)
           d == dropped[e]
           h == Len(HeardOf(p))
<1>0. TypeOK /\ p \in End /\ received' = received
  BY Ends DEF IInv, ReadInto
<1>2. Matching
  BY DEF IInv, BoundTogether, Matching, End
<1>3. Conversation!Shortage
  <2>1. {Peer(e)} # {}
    OBVIOUS
  <2> QED BY <1>0, <2>1, ShortageCounts DEF Conversation!Shortage
<1>4. d + h \in Nat /\ d + h <= k
  <2> DEFINE r == Len(received[p])
             q == Len(Pipe(p))
             g == Len(greeting[p])
             w == Len(wire[e])
             t == Len(kept[e])
  <2>1. q + w = g + (t - d)
    <3>1. /\ Pipe(p) \in Seq(Unit) /\ wire[e] \in Seq(Unit) /\ greeting[p] \in Seq(Unit)
          /\ Rest(kept[e], d) \in Seq(Unit)
          /\ Len(Rest(kept[e], d)) = t - d
      BY <1>0, StreamTypes, RestLength
    <3>2. Pipe(p) \o wire[e] = greeting[p] \o Rest(kept[e], d)
      BY <1>1 DEF IInv, Matched, Whole
    <3>3. Len(Pipe(p) \o wire[e]) = q + w
      BY <3>1, ConcatProperties
    <3>4. Len(greeting[p] \o Rest(kept[e], d)) = g + Len(Rest(kept[e], d))
      <4> DEFINE a == greeting[p]
                 b == Rest(kept[e], d)
      <4>1. a \in Seq(Unit) /\ b \in Seq(Unit)
        BY <3>1
      <4> HIDE DEF a, b
      <4>2. Len(a \o b) = Len(a) + Len(b)
        BY <4>1, ConcatProperties
      <4> QED BY <4>2 DEF a, b
    <3> QED BY <3>1, <3>2, <3>3, <3>4
  <2>2. r <= q
    BY <1>0, ReceivedBeforeRest DEF Prefix
  <2>3. /\ r \in Nat /\ q \in Nat /\ g \in Nat /\ w \in Nat /\ t \in Nat /\ d \in Nat
        /\ k = t - w
    BY <1>0, StreamTypes, LenProperties DEF TypeOK
  <2>4. (r <= g => h = 0) /\ (r >= g => h = r - g)
    <3>1. /\ r <= g => HeardOf(p) = <<>>
          /\ r >= g => Len(HeardOf(p)) = r - g
      BY <1>0, HeardOfLength
    <3>2. Len(<<>>) = 0
      BY EmptySeq
    <3> QED BY <3>1, <3>2
  <2> HIDE DEF r, q, g, w, t, k, d, h
  <2>5. d <= k
    BY <1>1 DEF k, d
  <2>6. CASE r <= g
    <3>1. h = 0
      BY <2>4, <2>6
    <3> QED BY <2>3, <2>5, <3>1
  <2>7. CASE r >= g
    <3>1. h = r - g
      BY <2>4, <2>7
    <3> QED BY <2>1, <2>2, <2>3, <2>7, <3>1
  <2> QED BY <2>3, <2>6, <2>7
<1> HIDE DEF k, h
<1>5. /\ k \in d + h .. Len(kept[e]) /\ k + n \in k .. Len(kept[e]) /\ (k + n) - k <= BufSize
  <2>1. Len(kept[e]) \in Nat /\ d \in Nat
    BY <1>0, StreamTypes, LenProperties DEF TypeOK
  <2> HIDE DEF d
  <2> QED BY <1>1, <1>4, <2>1
<1>6. kept' = [kept EXCEPT ![e] = SubSeq(@, 1, k) \o SubSeq(@, (k + n) + 1, Len(@))]
  BY <1>0, <1>1 DEF Front, Rest, TypeOK
<1>7. /\ Matching' = Matching /\ dropped' = dropped
      /\ [f \in End |-> Knows(f)]' = [f \in End |-> Knows(f)]
      /\ [f \in End |-> HeardOf(f)]' = [f \in End |-> HeardOf(f)]
  BY <1>0 DEF Matching, Knows, Heard, Welcomed, HeardOf
<1>8. [f \in End |-> HeardOf(f)][p] = HeardOf(p) /\ Conversation!Peer(e) = p
  BY <1>0 DEF Conversation!Peer, Peer
<1>9. \E i \in dropped[e] + Len([f \in End |-> HeardOf(f)][Conversation!Peer(e)]) .. Len(kept[e]) :
        \E j \in i .. Len(kept[e]) :
          /\ j - i <= BufSize
          /\ kept' = [kept EXCEPT ![e] = SubSeq(@, 1, i) \o SubSeq(@, j + 1, Len(@))]
  <2>1. d + h = dropped[e] + Len([f \in End |-> HeardOf(f)][Conversation!Peer(e)])
    BY <1>8 DEF h
  <2> QED BY <1>5, <1>6, <2>1
<1> QED BY <1>2, <1>3, <1>7, <1>9 DEF Conversation!Lose


\* The types of the streams and what an end receives before the match, as facts
\* that hold in the next state as well.
LEMMA StreamsTyped ==
  TypeOK => \A f \in End :
    /\ received[f] \in Seq(Unit) /\ greeting[f] \in Seq(Unit) /\ Whole(f) \in Seq(Unit)
    /\ kept[f] \in Seq(Byte) /\ dropped[f] \in 0 .. Len(kept[f])
    /\ Rest(kept[f], dropped[f]) \in Seq(Unit)
BY StreamTypes

LEMMA UnmatchedReceiveNoMore ==
  IInv => \A f \in End : state[f] # "Bind" => Len(received[f]) <= Len(greeting[f])
BY UnmatchedReceive

\* What a far end receives beyond the greeting is its peer's next byte.
LEMMA NextHeard ==
  ASSUME IInv', NEW e \in End, NEW m \in Nat, NEW g \in Nat,
         Len(received'[e]) = m + 1, g = Len(greeting'[e]), m >= g
  PROVE  \E i \in Nat : /\ i = dropped'[Peer(e)] + (m - g) + 1
                        /\ i <= Len(kept'[Peer(e)])
                        /\ received'[e][m + 1] = kept'[Peer(e)][i]
<1> DEFINE p == Peer(e)
           x == received'[e][m + 1]
<1>0. /\ TypeOK' /\ p \in End /\ Peer(p) = e
  BY Ends DEF IInv
<1>1. /\ received'[e] \in Seq(Unit) /\ greeting'[e] \in Seq(Unit) /\ Whole(p)' \in Seq(Unit)
      /\ kept'[p] \in Seq(Byte) /\ dropped'[p] \in 0 .. Len(kept'[p])
      /\ Rest(kept'[p], dropped'[p]) \in Seq(Unit)
  <2>1. (TypeOK => \A f \in End :
          /\ received[f] \in Seq(Unit) /\ greeting[f] \in Seq(Unit) /\ Whole(f) \in Seq(Unit)
          /\ kept[f] \in Seq(Byte) /\ dropped[f] \in 0 .. Len(kept[f])
          /\ Rest(kept[f], dropped[f]) \in Seq(Unit))'
    BY StreamsTyped, PTL
  <2> QED BY <1>0, <2>1
<1>2. Prefix(received'[e], Whole(p)')
  <2>1. InOrder'
    BY InvariantOrders, PTL
  <2> QED BY <2>1 DEF InOrder
<1> DEFINE d == dropped'[p]
           t == kept'[p]
           rest == Rest(t, d)
           w == Whole(p)'
           l == Len(t)
<1>3. w = greeting'[e] \o rest
  BY <1>0 DEF Whole
<1>4. /\ rest \in Seq(Byte) /\ Len(rest) = l - d
      /\ \A i \in 1 .. l - d : rest[i] = t[d + i]
  <2>1. t \in Seq(Byte) /\ d \in 0 .. Len(t)
    BY <1>1
  <2> HIDE DEF t, d
  <2> QED BY <2>1, FrontAndRest
<1>5. rest \in Seq(Unit)
  BY <1>1
<1>6. /\ Len(greeting'[e] \o rest) = g + (l - d)
      /\ \A i \in 1 .. g + (l - d) : (greeting'[e] \o rest)[i] = IF i <= g THEN greeting'[e][i] ELSE rest[i - g]
  <2> DEFINE a == greeting'[e]
             b == rest
  <2>1. a \in Seq(Unit) /\ b \in Seq(Unit) /\ Len(a) = g /\ Len(b) = l - d
    BY <1>1, <1>4, <1>5
  <2> HIDE DEF a, b, l, d
  <2>2. /\ Len(a \o b) = Len(a) + Len(b)
        /\ \A i \in 1 .. Len(a) + Len(b) : (a \o b)[i] = IF i <= Len(a) THEN a[i] ELSE b[i - Len(a)]
    BY <2>1, ConcatProperties
  <2> QED BY <2>1, <2>2 DEF a, b
<1>7. m + 1 <= Len(w) /\ w[m + 1] = x
  <2>1. /\ Len(received'[e]) <= Len(w)
        /\ \A i \in 1 .. Len(received'[e]) : received'[e][i] = w[i]
    <3> HIDE DEF w
    <3> QED BY <1>1, <1>2, PrefixElements DEF w
  <2>2. m + 1 \in 1 .. m + 1
    OBVIOUS
  <2> QED BY <2>1, <2>2
<1>8. d \in Nat /\ l \in Nat /\ d <= l
  BY <1>1, LenProperties
<1> HIDE DEF d, l, t, rest, w, x
<1>9. m + 1 <= g + (l - d) /\ m + 1 \in 1 .. g + (l - d) /\ ~(m + 1 <= g)
  <2>1. m + 1 <= g + (l - d)
    BY <1>3, <1>6, <1>7
  <2> QED BY <1>8, <2>1
<1>10. x = rest[(m + 1) - g]
  BY <1>3, <1>6, <1>7, <1>9
<1>11. (m + 1) - g \in 1 .. l - d /\ d + ((m + 1) - g) = d + (m - g) + 1
       /\ d + (m - g) + 1 \in Nat /\ d + (m - g) + 1 <= l
  BY <1>8, <1>9
<1>12. x = t[d + ((m + 1) - g)]
  BY <1>4, <1>10, <1>11
<1> QED BY <1>11, <1>12 DEF d, l, t, x

\* The greeting is told when its last part arrives, and after it the peer is heard.
LEMMA ReceiveIsHeard ==
  ASSUME IInv, IInv', NEW e \in End, Receive(e)
  PROVE  Conversation!Tell(e) \/ Conversation!Hear(e) \/ UNCHANGED Conversation!duplexVars
<1> DEFINE r == received[e]
           x == Head(flight[e])
           p == Peer(e)
<1>0. /\ TypeOK /\ p \in End /\ dropped' = dropped /\ state' = state
      /\ kept' = kept /\ greeting' = greeting /\ shortages' = shortages
      /\ r \in Seq(Unit) /\ x \in Unit /\ greeting[e] \in Seq(Unit)
  <2>1. TypeOK /\ flight[e] \in Seq(Unit) /\ flight[e] # <<>> /\ p \in End
    BY Ends DEF IInv, TypeOK, Receive
  <2>2. x \in Unit
    BY <2>1, HeadTailProperties
  <2> QED BY <2>1, <2>2, StreamTypes DEF Receive, history
<1>1. received' = [f \in End |-> IF f = e THEN Append(r, x) ELSE received[f]]
  BY <1>0 DEF Receive, TypeOK
<1>2. PICK m \in Nat : m = Len(r)
  BY <1>0, LenProperties
<1>3. PICK g \in Nat : g = Len(greeting[e])
  BY <1>0, LenProperties
<1>4. /\ Len(Append(r, x)) = m + 1 /\ Append(r, x) \in Seq(Unit) /\ Append(r, x)[m + 1] = x
  <2> HIDE DEF r, x
  <2> QED BY <1>0, <1>2, AppendProperties
<1>5. /\ Matching' = Matching /\ Welcomed(e)' = Welcomed(e)
      /\ \A f \in End : f # e => Knows(f)' = Knows(f) /\ HeardOf(f)' = HeardOf(f)
  BY <1>0, <1>1 DEF Matching, Knows, Heard, Welcomed, HeardOf
<1>6. /\ HeardOf(e) = Rest(r, g) /\ HeardOf(e)' = Rest(Append(r, x), g)
      /\ Heard(e) <=> Welcomed(e) /\ m >= g
      /\ Heard(e)' <=> Welcomed(e) /\ m + 1 >= g
  BY <1>0, <1>1, <1>2, <1>3, <1>4, <1>5 DEF HeardOf, Heard
<1>7. ASSUME m + 1 <= g
      PROVE  HeardOf(e)' = HeardOf(e)
  <2>1. Len(r) <= g /\ Len(Append(r, x)) <= g
    BY <1>2, <1>4, <1>7
  <2> HIDE DEF r, x
  <2>2. Rest(r, g) = <<>> /\ Rest(Append(r, x), g) = <<>>
    BY <1>0, <1>4, <2>1, RestBeyond
  <2> QED BY <1>6, <2>2 DEF r, x
<1>8. ASSUME HeardOf(e)' = HeardOf(e), Knows(e)' = Knows(e)
      PROVE  UNCHANGED Conversation!duplexVars
  <2>1. /\ [f \in End |-> Knows(f)]' = [f \in End |-> Knows(f)]
        /\ [f \in End |-> HeardOf(f)]' = [f \in End |-> HeardOf(f)]
    BY <1>5, <1>8
  <2> QED BY <1>0, <1>5, <2>1 DEF Conversation!duplexVars
<1>9. CASE ~Matching
  <2>1. m + 1 <= g
    <3>1. state'[e] # "Bind"
      BY <1>0, <1>9 DEF IInv, BoundTogether, Matching, End
    <3>3. (IInv => \A f \in End : state[f] # "Bind" => Len(received[f]) <= Len(greeting[f]))'
      BY UnmatchedReceiveNoMore, PTL
    <3> QED BY <1>0, <1>1, <1>3, <1>4, <3>1, <3>3
  <2>2. Knows(e)' = Knows(e)
    BY <1>5, <1>9 DEF Knows
  <2> QED BY <1>7, <1>8, <2>1, <2>2
<1>10. CASE Matching /\ m + 1 <= g /\ (~Welcomed(e) \/ m + 1 < g)
  <2>1. Knows(e)' = Knows(e)
    <3>1. ~(m >= g) /\ (m + 1 < g => ~(m + 1 >= g))
      BY <1>10
    <3> QED BY <1>5, <1>6, <1>10, <3>1 DEF Knows
  <2> QED BY <1>7, <1>8, <1>10, <2>1
<1>11. CASE Matching /\ m + 1 = g /\ Welcomed(e)
  <2>1. ~(m >= g) /\ m + 1 >= g /\ m + 1 <= g
    BY <1>11
  <2>2. Knows(e) = "no" /\ Knows(e)' = "yes" /\ HeardOf(e)' = HeardOf(e)
    BY <1>5, <1>6, <1>7, <1>11, <2>1 DEF Knows
  <2>3. /\ [f \in End |-> Knows(f)]' = [[f \in End |-> Knows(f)] EXCEPT ![e] = "yes"]
        /\ [f \in End |-> HeardOf(f)]' = [f \in End |-> HeardOf(f)]
        /\ [f \in End |-> Knows(f)][e] = "no"
    BY <1>5, <2>2
  <2> QED BY <1>0, <1>5, <1>11, <2>3 DEF Conversation!Tell, Conversation!End, End
<1>12. CASE Matching /\ m >= g
  <2>1. /\ HeardOf(e)' = Append(HeardOf(e), x) /\ Len(HeardOf(e)) = m - g
    <3>1. g \in 0 .. Len(r)
      BY <1>2, <1>12
    <3> HIDE DEF r, x
    <3>2. Rest(Append(r, x), g) = Append(Rest(r, g), x) /\ Len(Rest(r, g)) = Len(r) - g
      BY <1>0, <3>1, RestOfAppend, RestLength
    <3> QED BY <1>2, <1>6, <3>2 DEF r, x
  <2>2. Knows(e)' = Knows(e) /\ Knows(e) # "no"
    <3>1. m + 1 >= g
      BY <1>12
    <3> QED BY <1>5, <1>6, <1>12, <3>1 DEF Knows
  <2>3. /\ dropped[p] + (m - g) + 1 <= Len(kept[p])
        /\ x = kept[p][dropped[p] + (m - g) + 1]
    <3>1. received'[e] = Append(r, x)
      BY <1>1
    <3>2. /\ Len(received'[e]) = m + 1 /\ received'[e][m + 1] = x
          /\ g = Len(greeting'[e]) /\ m >= g
      BY <1>0, <1>3, <1>4, <1>12, <3>1, Zenon
    <3>3. PICK i \in Nat : /\ i = dropped'[Peer(e)] + (m - g) + 1
                           /\ i <= Len(kept'[Peer(e)])
                           /\ received'[e][m + 1] = kept'[Peer(e)][i]
      BY <3>2, NextHeard
    <3> HIDE DEF x
    <3>4. /\ dropped[p] + (m - g) + 1 <= Len(kept[p])
          /\ x = kept[p][dropped[p] + (m - g) + 1]
      BY <1>0, <3>2, <3>3
    <3> QED BY <3>4
  <2> DEFINE next == dropped[p] + Len(HeardOf(e)) + 1
  <2>4. next <= Len(kept[p]) /\ x = kept[p][next]
    <3>1. next = dropped[p] + (m - g) + 1
      BY <2>1
    <3> QED BY <2>3, <3>1
  <2>5. /\ [f \in End |-> Knows(f)]' = [f \in End |-> Knows(f)]
        /\ [f \in End |-> Knows(f)][e] # "no" /\ [f \in End |-> HeardOf(f)][e] = HeardOf(e)
        /\ [f \in End |-> HeardOf(f)]'
             = [[f \in End |-> HeardOf(f)] EXCEPT ![e] = Append(@, x)]
    <3> HIDE DEF x
    <3> QED BY <1>5, <2>1, <2>2
  <2>6. Conversation!Peer(e) = p
    BY DEF Conversation!Peer, Peer
  <2> HIDE DEF x, p
  <2>7. next = dropped[Conversation!Peer(e)] + Len([f \in End |-> HeardOf(f)][e]) + 1
    BY <2>5, <2>6
  <2>8. /\ next <= Len(kept[Conversation!Peer(e)])
        /\ [f \in End |-> HeardOf(f)]'
             = [[f \in End |-> HeardOf(f)] EXCEPT ![e] = Append(@, kept[Conversation!Peer(e)][next])]
    BY <2>4, <2>5, <2>6
  <2> HIDE DEF next
  <2> QED BY <1>0, <1>5, <1>12, <2>5, <2>7, <2>8 DEF Conversation!Hear
<1>13. m + 1 <= g \/ m >= g
  OBVIOUS
<1>14. m + 1 <= g => m + 1 < g \/ m + 1 = g
  OBVIOUS
<1> QED BY <1>9, <1>10, <1>11, <1>12, <1>13, <1>14, Zenon

LEMMA ConversationStep == IInv /\ IInv' /\ [Next]_vars => ConversationNext
<1> SUFFICES ASSUME IInv, IInv', [Next]_vars PROVE ConversationNext
  OBVIOUS
<1> USE DEF ConversationNext
<1>1. CASE UNCHANGED vars
  BY <1>1, ConversationStutters DEF vars
<1>2. CASE Next
  <2> PICK e \in End :
        \/ \E x \in Byte : Send(e, x)
        \/ Receive(e)
        \/ \E f \in Fate : Fail(e, f)
        \/ \E n \in 1 .. MaxRead : ReadLogin(e, n) \/ ReadAndDrop(e, n) \/ ReadAndRelay(e, n)
        \/ \E n \in 1 .. Window : Flush(e, n)
        \/ Hangup(e)
        \/ Timeout(e)
    BY <1>2 DEF Next
  <2>0. e \in Conversation!End
    BY DEF Conversation!End, End
  <2>1. ASSUME NEW x \in Byte, Send(e, x) PROVE Conversation!Next
    BY <2>0, <2>1, SendIsSaid DEF Conversation!Next
  <2>2. CASE Receive(e)
    BY <2>0, <2>2, ReceiveIsHeard DEF Conversation!Next
  <2>3. ASSUME NEW n, ReadLogin(e, n) PROVE Conversation!Next
    BY <2>0, <2>3, LoginIsMissed DEF Conversation!Next
  <2>4. ASSUME NEW n, ReadAndDrop(e, n) PROVE Conversation!Next
    <3>1. /\ ReadInto(e, n) /\ state[e] # "Bind" /\ state' = state /\ kept' = kept
          /\ shortages' = shortages
          /\ dropped' = [dropped EXCEPT ![e] = @ + Len(Taken(e, n))]
      BY <2>4 DEF ReadAndDrop, history
    <3>2. dropped'[e] >= dropped[e] /\ dropped \in [End -> Nat]
      BY <3>1, DropEffect DEF IInv, TypeOK
    <3>3. dropped' = [dropped EXCEPT ![e] = dropped'[e]]
      BY <3>1, <3>2
    <3>4. ~Matching /\ ~Matching'
      BY <3>1 DEF Matching
    <3>5. Conversation!Miss(e)
      BY <3>1, <3>2, <3>3, <3>4, DropIsMissed
    <3> QED BY <2>0, <3>5 DEF Conversation!Next
  <2>5. ASSUME NEW n, ReadAndRelay(e, n)
        PROVE  Conversation!Next \/ UNCHANGED Conversation!duplexVars
    <3>1. /\ ReadInto(e, n) /\ state[e] = "Bind" /\ received' = received
          /\ state' = state /\ dropped' = dropped /\ greeting' = greeting
      BY <2>5 DEF ReadAndRelay, ReadInto
    <3>2. CASE UNCHANGED <<kept, shortages>>
      BY <3>1, <3>2, ConversationStutters DEF history
    <3>3. CASE /\ Shortage({Peer(e)})
               /\ kept' = [kept EXCEPT ![e] = Without(e, Taken(e, n))]
      <4>1. Conversation!Lose(e)
        BY <3>1, <3>3, LossIsLost
      <4> QED BY <2>0, <4>1 DEF Conversation!Next
    <3> QED BY <2>5, <3>2, <3>3 DEF ReadAndRelay
  <2>6. ASSUME NEW n, Flush(e, n) PROVE UNCHANGED Conversation!duplexVars
    BY <2>6, ConversationStutters DEF Flush
  <2>7. ASSUME NEW f, Fail(e, f) PROVE UNCHANGED Conversation!duplexVars
    BY <2>7, ConversationStutters DEF Fail
  <2>8. CASE Hangup(e) \/ Timeout(e)
    BY <2>8, ConversationStutters DEF Hangup, Timeout, Remove
  <2> QED BY <2>1, <2>2, <2>3, <2>4, <2>5, <2>6, <2>7, <2>8
<1> QED BY <1>1, <1>2

\* The relay keeps the promise of the conversation: nobody is heard before both
\* have logged in, and from then on nothing is repeated or reordered, and nothing
\* skipped but what a write that fails has lost, at most one read each time.
THEOREM Conversing == Spec => ConversationSpec
<1>1. Init => Conversation!Init
  BY ConversationStarts
<1>2. IInv /\ IInv' /\ [Next]_vars => [Conversation!Next]_Conversation!duplexVars
  BY ConversationStep DEF ConversationNext
<1> QED BY <1>1, <1>2, Invariance, PTL DEF Spec, ConversationSpec, Conversation!Spec
=============================================================================
