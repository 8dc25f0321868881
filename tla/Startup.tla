------------------------------- MODULE Startup -------------------------------
(***************************************************************************)
(* How the process comes to serve: main, TcpContainer::loadConfigFile and  *)
(* loop, Server::run, TcpServer::listen, and the class Configure they all  *)
(* read.  Everything runs in one thread; only the configuration file may   *)
(* be edited, created or deleted by others at any time.                    *)
(***************************************************************************)
EXTENDS Integers, Sequences

CONSTANTS
  Text,      \* what may stand after a key
  Atoi,      \* Atoi[t]: the number atoi reads from t
  Junk,      \* a text that is no number, such as the name of a key
  Default,   \* Default[k]: the text the constructor of Configure stores for k
  MaxLines,  \* bound: lines of a configuration file
  NULL,
  Unreadable \* what can be opened but not read, such as a directory

\* static_port stands for itself, login_timeout for the settings that are ints.
Key == {"static_port", "login_timeout"}

\* A line sets a key, holds a key and nothing else, or starts with a blank.
Line == [form : {"setting"}, key : Key, value : Text]
        \cup [form : {"bare", "indented"}, key : Key]

\* The files that can be read, and all that the path may lead to; NULL is a
\* file that cannot be opened.
Readable == UNION {[1 .. n -> Line] : n \in 0 .. MaxLines}
File == Readable \cup {NULL, Unreadable}

ASSUME StartupAssumption ==
  /\ Junk \in Text
  /\ Atoi \in [Text -> Int] /\ Atoi[Junk] = 0
  /\ Default \in [Key -> Text]
  /\ MaxLines \in Nat
  /\ NULL \notin Readable /\ Unreadable \notin Readable /\ NULL # Unreadable
  /\ NULL \notin [Key -> Text] /\ NULL \notin [Key -> Int]

VARIABLES
  pc,            \* how far the process has come
  file,          \* the configuration file
  line,          \* how many of its lines have been read
  info,          \* m_cfg->m_info, NULL while m_cfg is NULL
  member,        \* the members of *m_cfg that initMember sets
  confFilePath,  \* m_confFilePath is not empty
  listener,      \* TcpServer::listener is not NULL
  loaded,        \* the file as readConfigFile opened it
  granted        \* history: the login timeouts that new sessions were given

vars == <<pc, file, line, info, member, confFilePath, listener, loaded, granted>>

ToInt(text) == Atoi[text]
ToShort(text) == Atoi[text] % 65536   \* unsigned short

initMember(i) ==
  [k \in Key |-> IF k = "static_port" THEN ToShort(i[k]) ELSE ToInt(i[k])]

\* What a reader of the first n lines of f expects: the last line for a key
\* counts, and a key that no line sets has its default.
Setting(f, n, k) == {m \in 1 .. n : f[m].key = k /\ f[m].form # "indented"}
Greatest(S) == CHOOSE m \in S : \A l \in S : l <= m
TextAfter(f, n, k) ==
  LET last == f[Greatest(Setting(f, n, k))]
  IN  IF Setting(f, n, k) = {} THEN Default[k]
      ELSE IF last.form = "bare" THEN Junk ELSE last.value

\* A port is a number of 16 bits.
Configured(f, k) ==
  LET text == TextAfter(f, Len(f), k)
  IN  IF k = "static_port" THEN Atoi[text] % 65536 ELSE Atoi[text]

\* Mutant of readCommonConfig: the first line for a key wins.
FirstWins(i, l) ==
  IF l.form = "setting" /\ i[l.key] = Default[l.key]
  THEN [i EXCEPT ![l.key] = l.value] ELSE i

\* The key ends at the first blank.  Without one, find_first_of returns npos and
\* substr(npos + 1) is the whole line again; with one in front, the key is "".
readCommonConfig(i, l) ==
  CASE l.form = "setting"  -> [i EXCEPT ![l.key] = l.value]
    [] l.form = "bare"     -> [i EXCEPT ![l.key] = Junk]
    [] l.form = "indented" -> i

\* Mutant of CachedMember: the file is read anew whenever it is asked for.
RereadMember ==
  IF file \in Readable THEN [k \in Key |-> Configured(file, k)] ELSE member

\* readConfigFile(m_confFilePath) when m_cfg exists: what was read once stays.
CachedMember == member

Init ==
  /\ pc = "main"
  /\ file \in File
  /\ line = 0
  /\ info = NULL /\ member = NULL
  /\ confFilePath = FALSE /\ listener = FALSE
  /\ loaded = NULL /\ granted = {}

\* readRunArg, which wants -c.
ReadRunArg ==
  /\ pc = "main"
  /\ pc' \in {"load", "exited"}
  /\ UNCHANGED <<file, line, info, member, confFilePath, listener, loaded, granted>>

\* Mutant of OpenConfigFile: no initMember before the early return.
OpenSkipsMembers ==
  /\ pc = "load"
  /\ info' = Default
  /\ loaded' = file
  /\ pc' = IF file = NULL THEN "listen" ELSE "reading"
  /\ UNCHANGED <<file, line, member, confFilePath, listener, granted>>

\* loadConfigFile and readConfigFile(path), which makes *m_cfg and opens the
\* file.  If that fails m_cfg is returned all the same, with the defaults, so the
\* NULL that loadConfigFile exits upon never comes; but the path is forgotten.
OpenConfigFile ==
  /\ pc = "load"
  /\ info' = Default
  /\ loaded' = file
  /\ \/ file = NULL /\ pc' = "listen" /\ member' = initMember(Default)
     \/ file # NULL /\ pc' = "reading" /\ UNCHANGED member
  /\ UNCHANGED <<file, line, confFilePath, listener, granted>>

\* One turn of the loop that ends at eof(): of what cannot be read, getline
\* returns empty lines for ever and never reaches the end.
ReadLine ==
  /\ pc = "reading"
  /\ \/ loaded = Unreadable /\ UNCHANGED <<line, info>>
     \/ /\ loaded # Unreadable /\ line < Len(loaded)
        /\ line' = line + 1
        /\ info' = readCommonConfig(info, loaded[line + 1])
  /\ UNCHANGED <<pc, file, member, confFilePath, listener, loaded, granted>>

\* Mutant of CloseConfigFile: the path is not remembered.
CloseForgetsPath ==
  /\ pc = "reading" /\ loaded # Unreadable /\ line = Len(loaded)
  /\ pc' = "listen"
  /\ member' = initMember(info)
  /\ UNCHANGED <<file, line, info, confFilePath, listener, loaded, granted>>

\* After the last line: initMember, and the path is remembered.
CloseConfigFile ==
  /\ pc = "reading" /\ loaded # Unreadable /\ line = Len(loaded)
  /\ pc' = "listen"
  /\ member' = initMember(info)
  /\ confFilePath' = TRUE
  /\ UNCHANGED <<file, line, info, listener, loaded, granted>>

\* startServers and TcpServer::listen, whose result run() drops.  Without a
\* remembered path readConfigFile() is NULL; otherwise the port may be taken,
\* unless it is 0, which stands for any free one.
Listen ==
  /\ pc = "listen"
  /\ pc' = "dispatch"
  /\ \/ listener' = confFilePath
     \/ confFilePath /\ CachedMember["static_port"] # 0 /\ listener' = FALSE
  /\ UNCHANGED <<file, line, info, member, confFilePath, loaded, granted>>

\* event_base_dispatch runs while there are events, and without a listener there
\* are none.
Dispatch ==
  /\ pc = "dispatch"
  /\ pc' = IF listener THEN "serving" ELSE "spinning"
  /\ UNCHANGED <<file, line, info, member, confFilePath, listener, loaded, granted>>

\* listener_cb and the constructor of Session.
Accept ==
  /\ pc = "serving"
  /\ granted' = granted \cup {CachedMember["login_timeout"]}
  /\ UNCHANGED <<pc, file, line, info, member, confFilePath, listener, loaded>>

\* listener_cb without memory: event_base_loopbreak.
Loopbreak ==
  /\ pc = "serving"
  /\ pc' = "spinning"
  /\ UNCHANGED <<file, line, info, member, confFilePath, listener, loaded, granted>>

\* Somebody changes or deletes the file.
EditFile ==
  /\ file' \in File
  /\ UNCHANGED <<pc, line, info, member, confFilePath, listener, loaded, granted>>

\* "exited" and "spinning", the while (1) that main ends with, are final.
Next ==
  \/ ReadRunArg \/ OpenConfigFile \/ ReadLine \/ CloseConfigFile \/ Listen \/ Dispatch
  \/ Accept \/ Loopbreak \/ EditFile

Spec == Init /\ [][Next]_vars

\* The one thread goes on.
FairSpec ==
  /\ Spec
  /\ WF_vars(ReadRunArg)
  /\ WF_vars(OpenConfigFile) /\ WF_vars(ReadLine) /\ WF_vars(CloseConfigFile)
  /\ WF_vars(Listen) /\ WF_vars(Dispatch)

-----------------------------------------------------------------------------
(* Properties *)

TypeOK ==
  /\ pc \in {"main", "load", "reading", "listen", "dispatch", "serving", "spinning", "exited"}
  /\ file \in File /\ loaded \in File /\ line \in 0 .. MaxLines
  /\ info \in [Key -> Text] \cup {NULL}
  /\ member \in [Key -> Int] \cup {NULL}
  /\ pc \in {"listen", "dispatch", "serving", "spinning"} => member # NULL
  /\ confFilePath \in BOOLEAN /\ listener \in BOOLEAN
  /\ granted \subseteq Int

\* The server serves only on a file it has read and with what the file says,
\* never on built-in defaults because the file was missing.
ServesAsConfigured ==
  pc = "serving" =>
    /\ loaded \in Readable
    /\ \A k \in Key : member[k] = Configured(loaded, k)

\* All connections of one run live by the same configuration: the one found at
\* the start, whatever becomes of the file.
OneConfiguration ==
  \A t \in granted : loaded \in Readable /\ t = Configured(loaded, "login_timeout")

\* With a readable file and a port that cannot be taken the server comes up.
StartsServing ==
  (pc = "reading" /\ loaded \in Readable /\ Configured(loaded, "static_port") = 0)
    ~> pc = "serving"

\* container.cpp: "load Config File failed, exit".
MissingFileExits ==
  (pc = "listen" /\ loaded = NULL) ~> pc = "exited"

-----------------------------------------------------------------------------
(* The inductive invariant. *)

\* While it is being read info holds what the lines so far say, and afterwards
\* the members what all of them say.
ReadSoFar ==
  /\ pc = "reading" =>
       /\ loaded # NULL
       /\ info \in [Key -> Text]
       /\ loaded \in Readable =>
            line <= Len(loaded) /\ \A k \in Key : info[k] = TextAfter(loaded, line, k)
  /\ pc \in {"main", "load", "exited"} => loaded = NULL
  /\ pc \in {"main", "load", "reading", "exited"} =>
       ~confFilePath /\ ~listener /\ granted = {}
  /\ pc \in {"main", "load", "exited"} => line = 0
  /\ confFilePath =>
       loaded \in Readable /\ \A k \in Key : member[k] = Configured(loaded, k)
  /\ listener => confFilePath
  /\ pc = "serving" => listener
  /\ \A t \in granted : confFilePath /\ t = member["login_timeout"]

IInv == TypeOK /\ ReadSoFar
=============================================================================
