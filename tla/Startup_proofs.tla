--------------------------- MODULE Startup_proofs ---------------------------
(***************************************************************************)
(* Proofs about Startup, for every configuration file of any length: what  *)
(* the line by line reading of the file amounts to, and that the server    *)
(* and all its sessions live by the file as it was found.                  *)
(***************************************************************************)
EXTENDS Startup, TLAPS

-----------------------------------------------------------------------------
(* Reading a file. *)

LEMMA ReadableLines ==
  ASSUME NEW f \in Readable
  PROVE  /\ Len(f) \in 0 .. MaxLines
         /\ \A m \in 1 .. Len(f) : f[m] \in Line
<1>1. PICK n \in 0 .. MaxLines : f \in [1 .. n -> Line]
  BY DEF Readable
<1>2. n \in Nat
  BY <1>1, StartupAssumption
<1>3. Len(f) = n
  BY <1>1, <1>2
<1> QED BY <1>1, <1>3

LEMMA LineForms ==
  ASSUME NEW l \in Line
  PROVE  /\ l.key \in Key /\ l.form \in {"setting", "bare", "indented"}
         /\ l.form = "setting" => l.value \in Text
BY DEF Line

LEMMA GreatestIs ==
  ASSUME NEW S, S \subseteq Int, NEW m \in S, \A l \in S : l <= m
  PROVE  Greatest(S) = m
<1> DEFINE P(x) == \A l \in S : l <= x
<1>1. \A x \in S : P(x) => x = m
  BY DEF P
<1>2. P(m)
  OBVIOUS
<1>3. (CHOOSE x \in S : P(x)) = m
  <2> HIDE DEF P
  <2> QED BY <1>1, <1>2
<1> QED BY <1>3 DEF Greatest

LEMMA NothingRead ==
  ASSUME NEW f, NEW k
  PROVE  TextAfter(f, 0, k) = Default[k]
<1>1. Setting(f, 0, k) = {}
  BY DEF Setting
<1> QED BY <1>1 DEF TextAfter

\* A line that sets k is the last one for k, any other changes nothing for k.
LEMMA OneMoreLine ==
  ASSUME NEW f \in Readable, NEW n \in Nat, n < Len(f), NEW k \in Key
  PROVE  TextAfter(f, n + 1, k) =
           IF f[n + 1].key = k /\ f[n + 1].form # "indented"
           THEN IF f[n + 1].form = "bare" THEN Junk ELSE f[n + 1].value
           ELSE TextAfter(f, n, k)
<1> DEFINE before == Setting(f, n, k)
           after == Setting(f, n + 1, k)
           l == f[n + 1]
<1>1. \A m : m \in 1 .. n + 1 <=> m \in 1 .. n \/ m = n + 1
  OBVIOUS
<1>2. CASE l.key = k /\ l.form # "indented"
  <2>1. n + 1 \in after /\ after \subseteq Int /\ \A m \in after : m <= n + 1
    BY <1>2 DEF Setting
  <2>2. Greatest(after) = n + 1
    <3> HIDE DEF after
    <3> QED BY <2>1, GreatestIs
  <2>3. after # {}
    BY <2>1
  <2>4. TextAfter(f, n + 1, k) = IF l.form = "bare" THEN Junk ELSE l.value
    BY <2>2, <2>3 DEF TextAfter
  <2> QED BY <1>2, <2>4
<1>3. CASE ~(l.key = k /\ l.form # "indented")
  <2>1. after = before
    BY <1>1, <1>3 DEF Setting
  <2>2. TextAfter(f, n + 1, k) = TextAfter(f, n, k)
    BY <2>1 DEF TextAfter
  <2> QED BY <1>3, <2>2
<1> QED BY <1>2, <1>3

\* readCommonConfig reads one more line as a reader of the file would.
LEMMA LineIsRead ==
  ASSUME NEW f \in Readable, NEW n \in Nat, n < Len(f), NEW i \in [Key -> Text],
         \A k \in Key : i[k] = TextAfter(f, n, k)
  PROVE  /\ readCommonConfig(i, f[n + 1]) \in [Key -> Text]
         /\ \A k \in Key : readCommonConfig(i, f[n + 1])[k] = TextAfter(f, n + 1, k)
<1> DEFINE l == f[n + 1]
           j == readCommonConfig(i, l)
<1>1. l \in Line
  <2>1. Len(f) \in Nat /\ n + 1 \in 1 .. Len(f)
    BY ReadableLines, StartupAssumption
  <2> QED BY <2>1, ReadableLines
<1>2. /\ l.key \in Key /\ l.form \in {"setting", "bare", "indented"}
      /\ l.form = "setting" => l.value \in Text
  BY <1>1, LineForms
<1>3. j \in [Key -> Text]
      /\ \A k \in Key : j[k] = IF l.key = k /\ l.form # "indented"
                               THEN IF l.form = "bare" THEN Junk ELSE l.value
                               ELSE i[k]
  <2> HIDE DEF l
  <2>1. CASE l.form = "setting"
    BY <1>2, <2>1 DEF readCommonConfig
  <2>2. CASE l.form = "bare"
    BY <1>2, <2>2, StartupAssumption DEF readCommonConfig
  <2>3. CASE l.form = "indented"
    BY <1>2, <2>3 DEF readCommonConfig
  <2> QED BY <1>2, <2>1, <2>2, <2>3
<1> QED BY <1>3, OneMoreLine

LEMMA MembersAreInts ==
  ASSUME NEW i \in [Key -> Text]
  PROVE  initMember(i) \in [Key -> Int]
<1>1. \A t \in Text : Atoi[t] \in Int /\ Atoi[t] % 65536 \in Int
  BY StartupAssumption
<1> QED BY <1>1 DEF initMember, ToShort, ToInt

LEMMA MembersAsConfigured ==
  ASSUME NEW f, NEW i, \A k \in Key : i[k] = TextAfter(f, Len(f), k)
  PROVE  \A k \in Key : initMember(i)[k] = Configured(f, k)
BY DEF initMember, ToShort, ToInt, Configured

-----------------------------------------------------------------------------
(* The invariant. *)

LEMMA InitEstablishes == Init => IInv
<1> SUFFICES ASSUME Init PROVE IInv
  OBVIOUS
<1>1. 0 \in 0 .. MaxLines /\ NULL \in File
  BY StartupAssumption DEF File
<1>2. TypeOK
  BY <1>1 DEF Init, TypeOK
<1>3. ReadSoFar
  BY DEF Init, ReadSoFar
<1> QED BY <1>2, <1>3 DEF IInv

LEMMA OpenKeeps ==
  ASSUME IInv, OpenConfigFile
  PROVE  IInv'
<1>1. /\ pc = "load" /\ info' = Default /\ loaded' = file /\ file' = file /\ line' = line
      /\ line = 0 /\ confFilePath' = FALSE /\ listener' = FALSE /\ granted' = {}
      /\ file \in File /\ Default \in [Key -> Text]
  BY StartupAssumption DEF OpenConfigFile, IInv, TypeOK, ReadSoFar
<1>2. 0 \in 0 .. MaxLines
  BY StartupAssumption
<1>3. CASE file = NULL /\ pc' = "listen" /\ member' = initMember(Default)
  <2>1. TypeOK'
    <3>1. member' \in [Key -> Int] /\ member' # NULL
      BY <1>1, <1>3, MembersAreInts, StartupAssumption
    <3> QED BY <1>1, <1>2, <1>3, <3>1 DEF TypeOK
  <2>2. ReadSoFar'
    BY <1>1, <1>3 DEF ReadSoFar
  <2> QED BY <2>1, <2>2 DEF IInv
<1>4. CASE file # NULL /\ pc' = "reading" /\ member' = member
  <2>1. TypeOK'
    BY <1>1, <1>2, <1>4 DEF IInv, TypeOK
  <2>2. ASSUME loaded' \in Readable
        PROVE  0 <= Len(loaded') /\ \A k \in Key : info'[k] = TextAfter(loaded', 0, k)
    BY <1>1, <2>2, ReadableLines, NothingRead, StartupAssumption
  <2>3. ReadSoFar'
    BY <1>1, <1>4, <2>2 DEF ReadSoFar
  <2> QED BY <2>1, <2>3 DEF IInv
<1> QED BY <1>3, <1>4 DEF OpenConfigFile

LEMMA ReadLineKeeps ==
  ASSUME IInv, ReadLine
  PROVE  IInv'
<1>1. /\ pc = "reading" /\ pc' = pc /\ loaded \in File /\ loaded # NULL
      /\ UNCHANGED <<file, member, confFilePath, listener, loaded, granted>>
      /\ info \in [Key -> Text] /\ line \in 0 .. MaxLines /\ MaxLines \in Nat
  BY StartupAssumption DEF ReadLine, IInv, TypeOK, ReadSoFar
<1>2. CASE loaded = Unreadable /\ UNCHANGED <<line, info>>
  BY <1>1, <1>2 DEF IInv, TypeOK, ReadSoFar
<1>3. CASE /\ loaded # Unreadable /\ line < Len(loaded) /\ line' = line + 1
           /\ info' = readCommonConfig(info, loaded[line + 1])
  <2>1. loaded \in Readable
    BY <1>1, <1>3 DEF File
  <2>2. \A k \in Key : info[k] = TextAfter(loaded, line, k)
    BY <1>1, <2>1 DEF IInv, ReadSoFar
  <2>3. info' \in [Key -> Text] /\ \A k \in Key : info'[k] = TextAfter(loaded, line + 1, k)
    BY <1>1, <1>3, <2>1, <2>2, LineIsRead
  <2>4. Len(loaded) \in 0 .. MaxLines
    BY <2>1, ReadableLines
  <2>5. line' \in 0 .. MaxLines /\ line' <= Len(loaded')
    BY <1>1, <1>3, <2>4
  <2>6. TypeOK'
    BY <1>1, <2>3, <2>5 DEF IInv, TypeOK
  <2>7. \A k \in Key : info'[k] = TextAfter(loaded', line', k)
    BY <1>1, <1>3, <2>3
  <2>8. ReadSoFar'
    BY <1>1, <2>3, <2>5, <2>7 DEF IInv, ReadSoFar
  <2> QED BY <2>6, <2>8 DEF IInv
<1> QED BY <1>2, <1>3 DEF ReadLine

LEMMA CloseKeeps ==
  ASSUME IInv, CloseConfigFile
  PROVE  IInv'
<1>1. /\ pc = "reading" /\ pc' = "listen" /\ loaded \in File /\ loaded # NULL
      /\ loaded # Unreadable /\ line = Len(loaded)
      /\ UNCHANGED <<file, line, info, listener, loaded, granted>>
      /\ info \in [Key -> Text] /\ member' = initMember(info) /\ confFilePath' = TRUE
      /\ ~listener /\ granted = {}
  BY DEF CloseConfigFile, IInv, TypeOK, ReadSoFar
<1>2. loaded \in Readable
  BY <1>1 DEF File
<1>3. \A k \in Key : info[k] = TextAfter(loaded, Len(loaded), k)
  BY <1>1, <1>2 DEF IInv, ReadSoFar
<1>4. \A k \in Key : member'[k] = Configured(loaded, k)
  BY <1>1, <1>3, MembersAsConfigured
<1>5. member' \in [Key -> Int] /\ member' # NULL
  BY <1>1, MembersAreInts, StartupAssumption
<1>6. TypeOK'
  BY <1>1, <1>5 DEF IInv, TypeOK
<1>7. \A k \in Key : member'[k] = Configured(loaded', k)
  BY <1>1, <1>4
<1>8. ReadSoFar'
  BY <1>1, <1>2, <1>7 DEF ReadSoFar
<1> QED BY <1>6, <1>8 DEF IInv

LEMMA AcceptKeeps ==
  ASSUME IInv, Accept
  PROVE  IInv'
<1>1. /\ pc = "serving" /\ member # NULL /\ confFilePath
      /\ granted' = granted \cup {member["login_timeout"]}
      /\ UNCHANGED <<pc, file, line, info, member, confFilePath, listener, loaded>>
  BY DEF Accept, CachedMember, IInv, TypeOK, ReadSoFar
<1>2. member["login_timeout"] \in Int
  BY <1>1 DEF IInv, TypeOK, Key
<1>3. TypeOK'
  BY <1>1, <1>2 DEF IInv, TypeOK
<1>4. ReadSoFar'
  BY <1>1 DEF IInv, ReadSoFar
<1> QED BY <1>3, <1>4 DEF IInv

LEMMA OthersKeep ==
  ASSUME IInv, ReadRunArg \/ Listen \/ Dispatch \/ Loopbreak \/ EditFile \/ UNCHANGED vars
  PROVE  IInv'
<1>1. CASE ReadRunArg
  BY <1>1 DEF ReadRunArg, IInv, TypeOK, ReadSoFar
<1>2. CASE Listen
  <2>1. confFilePath \in BOOLEAN
    BY DEF IInv, TypeOK
  <2>2. listener' = confFilePath \/ (confFilePath /\ listener' = FALSE)
    BY <1>2 DEF Listen
  <2>3. listener' \in BOOLEAN /\ (listener' => confFilePath)
    <3>1. CASE listener' = confFilePath
      BY <2>1, <3>1
    <3>2. CASE listener' = FALSE
      BY <3>2
    <3> QED BY <2>2, <3>1, <3>2
  <2> QED BY <1>2, <2>3 DEF Listen, IInv, TypeOK, ReadSoFar
<1>3. CASE Dispatch
  BY <1>3 DEF Dispatch, IInv, TypeOK, ReadSoFar
<1>4. CASE Loopbreak
  BY <1>4 DEF Loopbreak, IInv, TypeOK, ReadSoFar
<1>5. CASE EditFile
  BY <1>5 DEF EditFile, IInv, TypeOK, ReadSoFar
<1>6. CASE UNCHANGED vars
  BY <1>6 DEF vars, IInv, TypeOK, ReadSoFar
<1> QED BY <1>1, <1>2, <1>3, <1>4, <1>5, <1>6

LEMMA StepKeeps == IInv /\ [Next]_vars => IInv'
BY OpenKeeps, ReadLineKeeps, CloseKeeps, AcceptKeeps, OthersKeep DEF Next

\* The table is at every line what a reader of the file up to there expects.
THEOREM Invariance == Spec => []IInv
BY InitEstablishes, StepKeeps, PTL DEF Spec

\* The variables keep their types; whoever reads a setting finds one.
THEOREM TypeCorrect == Spec => []TypeOK
<1>1. IInv => TypeOK
  BY DEF IInv
<1> QED BY <1>1, Invariance, PTL

\* A server that serves does so with the port and the timeouts of its file.
THEOREM ServedAsConfigured == Spec => []ServesAsConfigured
<1>1. IInv => ServesAsConfigured
  BY DEF IInv, ReadSoFar, ServesAsConfigured
<1> QED BY <1>1, Invariance, PTL

\* No session gets a timeout from a later edit of the file, or a default.
THEOREM OneConfigurationForAll == Spec => []OneConfiguration
<1>1. IInv => OneConfiguration
  BY DEF IInv, ReadSoFar, OneConfiguration, Key
<1> QED BY <1>1, Invariance, PTL
=============================================================================
