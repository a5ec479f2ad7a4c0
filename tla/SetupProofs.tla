---------------------------- MODULE SetupProofs ----------------------------
(***************************************************************************)
(* The backend in use is the configured one, and /setup locks itself, for  *)
(* any number of concurrent setups, registrations and remote databases.    *)
(***************************************************************************)
EXTENDS Setup, TLAPS

\* The start-up and the requests exclude each other, and a coroutine that has
\* not saved yet has no thread.
StartUpIsAlone ==
  /\ up => th[Main] = "none"
  /\ \A s \in Post : /\ ~up => h[s] = "idle" /\ th[s] = "none"
                     /\ h[s] \in {"check", "queued", "stuck", "form"} => th[s] = "none"

\* A thread that tries a remote database has a URL.
RemoteHasUrl ==
  \A t \in Thread : th[t] \in {"replica", "http"}
                      => args[t]["VORTEX_SYNC_URL"] \in Remote

\* Unless there is an excuse, file and memory agree, and a thread that has read
\* the URL has read the present one.
ReadIsCurrent ==
  ~excused =>
    /\ mem = disk
    /\ \A t \in Thread : th[t] \in {"token", "lock", "replica", "http"}
         => args[t]["VORTEX_SYNC_URL"] = Get(mem, "VORTEX_SYNC_URL")

\* BackendIsExplained from the moment of the selection on, also at start-up.
SelectionIsExplained ==
  (/\ ~excused /\ \A t \in Thread : th[t] \notin Selecting
   /\ up \/ th[Main] = "schema")
    => LET url == Get(disk, "VORTEX_SYNC_URL")
       IN  backend.db = IF fell_back \/ url = Blank THEN Local ELSE url

IInv == TypeOK /\ StartUpIsAlone /\ RemoteHasUrl /\ ReadIsCurrent
          /\ SelectionIsExplained

\* Before the first start nothing is selected.
LEMMA InitIInv == Init => IInv
<1> SUFFICES ASSUME Init PROVE IInv
  OBVIOUS
<1> USE SetupAssumption DEF Init
<1>1. Unset \in Conf
  BY DEF Unset, Conf
<1>2. TypeOK
  BY <1>1 DEF TypeOK, Sqlite, Selecting, Thread
<1>3. StartUpIsAlone /\ RemoteHasUrl /\ ReadIsCurrent /\ SelectionIsExplained
  BY DEF StartUpIsAlone, RemoteHasUrl, ReadIsCurrent, SelectionIsExplained, Thread
<1>4. QED
  BY <1>2, <1>3 DEF IInv

\* What Config.get returns is a URL, a token or nothing.
LEMMA GetType ==
  ASSUME TypeOK, NEW c \in Conf, NEW k \in Key PROVE Get(c, k) \in Remote \cup {Blank}
BY SetupAssumption DEF TypeOK, Get, Conf

\* What set_many leaves in memory and in the file is a configuration.
LEMMA SaveType ==
  ASSUME TypeOK, NEW v \in Form, NEW ok \in BOOLEAN, Save(v, ok)
  PROVE  mem' \in Conf /\ disk' \in Conf
<1>1. \A k \in DOMAIN v : v[k] \in Remote \cup {Blank}
  BY DEF Form
<1>2. SetMany(mem, v) \in Conf
  BY <1>1 DEF SetMany, Conf, TypeOK
<1>3. QED
  BY <1>2 DEF Save, TypeOK

\* A selection gives a backend that this host can run, and a replica that shows
\* what its primary holds.
LEMMA SelectType ==
  ASSUME TypeOK, NEW b, Select(b), UNCHANGED <<wheel, accounts>>,
         \/ b = Sqlite
         \/ b \in [kind : {"replica", "http"}, db : Remote],
         b.kind = "replica" => wheel
  PROVE  /\ backend' = Sqlite \/ backend' \in [kind : {"replica", "http"}, db : Remote]
         /\ backend'.kind = "replica" => wheel'
         /\ replica' \in BOOLEAN
         /\ replica' => backend'.kind = "replica" /\ backend'.db \in accounts'
         /\ busy' \subseteq {"now", "old"} /\ "now" \notin busy'
         /\ h' \in [Post -> {"idle", "check", "queued", "stuck", "form", "wait"}]
         /\ \A s \in Post : /\ h'[s] # "queued"
                            /\ h'[s] = "stuck" => "old" \in busy'
<1>1. \A s \in Post : h[s] = "queued" => busy # {}
  BY DEF TypeOK
<1>2. \A s \in Post : h[s] = "stuck" => busy # {}
  BY DEF TypeOK
<1>3. QED
  BY <1>1, <1>2 DEF Select, TypeOK

\* A selection moves nobody but those who wait for a replica's lock.
LEMMA SelectMoves ==
  ASSUME TypeOK, StartUpIsAlone, NEW b, Select(b), UNCHANGED up,
         NEW t \in Thread, NEW l, Step(t, l), th[t] # "none"
  PROVE  StartUpIsAlone'
<1>1. t = Main => ~up
  BY DEF StartUpIsAlone
<1>2. t \in Post => up /\ h[t] \notin {"check", "queued", "stuck", "form"}
  BY DEF StartUpIsAlone
<1>3. \A s \in Post : h'[s] = IF h[s] = "queued" THEN "stuck" ELSE h[s]
  BY Zenon DEF Select
<1>4. \A s \in Thread : s # t => th'[s] = th[s]
  BY DEF Step, TypeOK
<1>5. QED
  BY <1>1, <1>2, <1>3, <1>4, SetupAssumption DEF StartUpIsAlone, Thread

\* A thread reads the URL: it is the present one.
LEMMA ReadUrlStep ==
  ASSUME IInv, NEW t \in Thread, ReadUrl(t)
  PROVE  IInv'
<1> USE DEF IInv, hostVars, confVars, dbVars, ReadUrl, Step
<1>1. TypeOK'
  BY GetType DEF TypeOK, Selecting, Conf, Key
<1>2. RemoteHasUrl'
  BY SetupAssumption DEF TypeOK, RemoteHasUrl
<1>3. StartUpIsAlone'
  BY SetupAssumption DEF TypeOK, StartUpIsAlone, Thread
<1>4. ReadIsCurrent'
  BY SetupAssumption DEF TypeOK, ReadIsCurrent, Conf, Key, Get
<1>5. SelectionIsExplained'
  BY SetupAssumption DEF TypeOK, SelectionIsExplained, Selecting, Get
<1>6. QED
  BY <1>1, <1>2, <1>3, <1>4, <1>5

\* It reads the token.
LEMMA ReadTokenStep ==
  ASSUME IInv, NEW t \in Thread, ReadToken(t)
  PROVE  IInv'
<1> USE DEF IInv, hostVars, confVars, dbVars, ReadToken, Step
<1>1. TypeOK'
  BY GetType DEF TypeOK, Selecting, Conf, Key
<1>2. RemoteHasUrl'
  BY SetupAssumption DEF TypeOK, RemoteHasUrl
<1>3. StartUpIsAlone'
  BY SetupAssumption DEF TypeOK, StartUpIsAlone, Thread
<1>4. ReadIsCurrent'
  BY SetupAssumption DEF TypeOK, ReadIsCurrent, Conf, Key, Get
<1>5. SelectionIsExplained'
  BY SetupAssumption DEF TypeOK, SelectionIsExplained, Selecting, Get
<1>6. QED
  BY <1>1, <1>2, <1>3, <1>4, <1>5

\* It gets _init_lock; without a URL it selects SQLite at once.
LEMMA AcquireStep ==
  ASSUME IInv, NEW t \in Thread, Acquire(t)
  PROVE  IInv'
<1> USE DEF IInv, hostVars, confVars, dbVars, Acquire, Step
<1>1. TypeOK'
  <2>1. CASE args[t]["VORTEX_SYNC_URL"] = Blank
    <3>1. Sqlite.kind # "replica"
      BY DEF Sqlite
    <3>2. QED
      BY ZenonT(40), <2>1, <3>1, SetupAssumption, SelectType DEF TypeOK, Selecting
  <2>2. CASE args[t]["VORTEX_SYNC_URL"] # Blank
    BY ZenonT(40), <2>2, SetupAssumption DEF TypeOK, Selecting
  <2>3. QED
    BY <2>1, <2>2
<1>2. StartUpIsAlone'
  <2>1. CASE args[t]["VORTEX_SYNC_URL"] = Blank
    BY <2>1, SelectMoves
  <2>2. CASE args[t]["VORTEX_SYNC_URL"] # Blank
    BY <2>2, SetupAssumption DEF TypeOK, StartUpIsAlone, Thread
  <2>3. QED
    BY <2>1, <2>2
<1>3. RemoteHasUrl'
  BY SetupAssumption DEF TypeOK, RemoteHasUrl, Conf, Key
<1>4. ReadIsCurrent'
  BY SetupAssumption DEF TypeOK, ReadIsCurrent, Get
<1>5. SelectionIsExplained'
  BY SetupAssumption DEF TypeOK, SelectionIsExplained, ReadIsCurrent,
     StartUpIsAlone, Select, Sqlite, Selecting, Thread, Get
<1>6. QED
  BY <1>1, <1>2, <1>3, <1>4, <1>5

\* The embedded replica is selected, or given up.
LEMMA TryReplicaStep ==
  ASSUME IInv, NEW t \in Thread, TryReplica(t)
  PROVE  IInv'
<1> USE DEF IInv, hostVars, confVars, dbVars, TryReplica, Step
<1>1. TypeOK'
  <2> DEFINE b == [kind |-> "replica", db |-> args[t]["VORTEX_SYNC_URL"]]
  <2>1. b \in [kind : {"replica", "http"}, db : Remote] /\ b.kind = "replica"
    BY DEF RemoteHasUrl
  <2>2. CASE Select(b) /\ fell_back' = FALSE /\ Step(t, "schema") /\ wheel
    BY ZenonT(40), <2>1, <2>2, SelectType DEF TypeOK, Selecting
  <2>3. CASE Step(t, "http") /\ UNCHANGED <<dbVars, h>>
    BY <2>3 DEF TypeOK, Selecting
  <2>4. QED
    BY <2>2, <2>3
<1>2. RemoteHasUrl'
  BY SetupAssumption DEF TypeOK, RemoteHasUrl
<1>3. StartUpIsAlone'
  <2>1. CASE \E b : Select(b) /\ Step(t, "schema")
    BY <2>1, SelectMoves
  <2>2. CASE Step(t, "http") /\ UNCHANGED <<dbVars, h>>
    BY <2>2, SetupAssumption DEF TypeOK, StartUpIsAlone, Thread
  <2>3. QED
    BY <2>1, <2>2
<1>4. ReadIsCurrent'
  BY SetupAssumption DEF TypeOK, ReadIsCurrent, Get
<1>5. SelectionIsExplained'
  BY SetupAssumption DEF TypeOK, SelectionIsExplained, ReadIsCurrent,
     RemoteHasUrl, StartUpIsAlone, Select, Selecting, Thread, Get
<1>6. QED
  BY <1>1, <1>2, <1>3, <1>4, <1>5

\* HTTP is selected, or SQLite instead of it.
LEMMA TryHttpStep ==
  ASSUME IInv, NEW t \in Thread, TryHttp(t)
  PROVE  IInv'
<1> USE DEF IInv, hostVars, confVars, dbVars, TryHttp, Step
<1>1. TypeOK'
  <2> DEFINE b == [kind |-> "http", db |-> args[t]["VORTEX_SYNC_URL"]]
  <2>1. b \in [kind : {"replica", "http"}, db : Remote] /\ b.kind = "http"
    BY DEF RemoteHasUrl
  <2>2. CASE Select(b) /\ fell_back' = FALSE /\ Step(t, "schema")
    BY ZenonT(40), <2>1, <2>2, SelectType DEF TypeOK, Selecting
  <2>3. CASE Select(Sqlite) /\ fell_back' = TRUE /\ Step(t, "schema")
    <3>1. Sqlite.kind # "replica"
      BY DEF Sqlite
    <3>2. QED
      BY ZenonT(40), <2>3, <3>1, SelectType DEF TypeOK, Selecting
  <2>4. QED
    BY <2>2, <2>3
<1>2. RemoteHasUrl'
  BY SetupAssumption DEF TypeOK, RemoteHasUrl
<1>3. StartUpIsAlone'
  <2>1. \E b : Select(b)
    OBVIOUS
  <2>2. QED
    BY <2>1, SelectMoves
<1>4. ReadIsCurrent'
  BY SetupAssumption DEF TypeOK, ReadIsCurrent, Get
<1>5. SelectionIsExplained'
  BY SetupAssumption DEF TypeOK, SelectionIsExplained, ReadIsCurrent,
     RemoteHasUrl, StartUpIsAlone, Select, Sqlite, Selecting, Thread, Get
<1>6. QED
  BY <1>1, <1>2, <1>3, <1>4, <1>5

\* The selection is over, and at start-up the hub begins to serve.
LEMMA SchemaStep ==
  ASSUME IInv, NEW t \in Thread, Schema(t)
  PROVE  IInv'
<1> USE DEF IInv, hostVars, confVars, dbVars, Schema, Step
<1>1. TypeOK'
  <2>1. /\ th' \in [Thread -> Selecting \cup {"none", "schema"}]
        /\ init_lock' \in Thread \cup {Nobody}
        /\ \A t_1 \in Thread :
             th'[t_1] \in {"replica", "http", "schema"} <=> init_lock' = t_1
    BY SetupAssumption DEF TypeOK, Selecting, Thread
  <2>2. args' \in [Thread -> Conf]
    <3>1. Unset \in Conf
      BY DEF Conf, Unset
    <3>2. QED
      BY <3>1 DEF TypeOK
  <2>3. CASE up' = TRUE
    BY <2>1, <2>2, <2>3 DEF TypeOK
  <2>4. CASE up' = up
    BY <2>1, <2>2, <2>4 DEF TypeOK
  <2>5. QED
    BY <2>3, <2>4
<1>2. RemoteHasUrl'
  BY SetupAssumption DEF TypeOK, RemoteHasUrl
<1>3. StartUpIsAlone'
  BY SetupAssumption DEF TypeOK, StartUpIsAlone, Thread
<1>4. ReadIsCurrent'
  BY SetupAssumption DEF TypeOK, ReadIsCurrent, Get
<1>5. SelectionIsExplained'
  BY SetupAssumption DEF TypeOK, SelectionIsExplained, StartUpIsAlone,
     Selecting, Thread, Get
<1>6. QED
  BY <1>1, <1>2, <1>3, <1>4, <1>5

\* A setup is saved: the threads that had read the old configuration are its
\* excuse, and its own has not read yet.
LEMMA SetupSaveStep ==
  ASSUME IInv, NEW s \in Post, SetupSave(s)
  PROVE  IInv'
<1> USE DEF IInv, hostVars, confVars, dbVars, SetupSave, Goto, Step
<1>1. TypeOK'
  BY SetupAssumption, SaveType DEF TypeOK, StartUpIsAlone, Selecting, Thread
<1>2. RemoteHasUrl'
  BY SetupAssumption DEF TypeOK, RemoteHasUrl
<1>3. StartUpIsAlone'
  BY SetupAssumption DEF TypeOK, StartUpIsAlone, Thread
<1>4. ReadIsCurrent'
  BY SetupAssumption DEF TypeOK, ReadIsCurrent, Overtaken, Save, Get, Thread
<1>5. SelectionIsExplained'
  BY SetupAssumption DEF TypeOK, SelectionIsExplained, Selecting, Thread
<1>6. QED
  BY <1>1, <1>2, <1>3, <1>4, <1>5

\* A setup cannot be saved.
LEMMA SetupSaveFailsStep ==
  ASSUME IInv, NEW s \in Post, SetupSaveFails(s)
  PROVE  IInv'
<1> USE DEF IInv, hostVars, confVars, dbVars, SetupSaveFails, Goto
<1>1. TypeOK'
  BY ZenonT(40), SaveType DEF TypeOK
<1>2. StartUpIsAlone' /\ RemoteHasUrl' /\ ReadIsCurrent'
  BY SetupAssumption DEF TypeOK, StartUpIsAlone, RemoteHasUrl, ReadIsCurrent
<1>3. SelectionIsExplained'
  BY SetupAssumption DEF TypeOK, SelectionIsExplained
<1>4. QED
  BY <1>1, <1>2, <1>3

\* An admin saves the settings.
LEMMA SettingsSaveStep ==
  ASSUME IInv, SettingsSave
  PROVE  IInv'
<1> USE DEF IInv, hostVars, confVars, dbVars, SettingsSave
<1>1. TypeOK'
  BY ZenonT(40), SaveType DEF TypeOK
<1>2. StartUpIsAlone' /\ RemoteHasUrl' /\ ReadIsCurrent'
  BY SetupAssumption DEF TypeOK, StartUpIsAlone, RemoteHasUrl, ReadIsCurrent
<1>3. SelectionIsExplained'
  BY SetupAssumption DEF TypeOK, SelectionIsExplained
<1>4. QED
  BY <1>1, <1>2, <1>3

\* The process starts: nothing else runs, and the file is read.
LEMMA BootStep ==
  ASSUME IInv, Boot
  PROVE  IInv'
<1> USE DEF IInv, hostVars, confVars, dbVars, Boot, Step
<1>1. TypeOK'
  BY SetupAssumption DEF TypeOK, Selecting, Thread, Conf
<1>2. RemoteHasUrl'
  BY SetupAssumption DEF TypeOK, RemoteHasUrl
<1>3. StartUpIsAlone'
  BY SetupAssumption DEF TypeOK, StartUpIsAlone, Thread
<1>4. ReadIsCurrent'
  BY SetupAssumption DEF TypeOK, ReadIsCurrent, StartUpIsAlone, Thread
<1>5. SelectionIsExplained'
  BY SetupAssumption DEF TypeOK, SelectionIsExplained, Selecting, Thread
<1>6. QED
  BY <1>1, <1>2, <1>3, <1>4, <1>5

\* The process is killed.
LEMMA CrashStep ==
  ASSUME IInv, Crash
  PROVE  IInv'
<1> USE DEF IInv, hostVars, confVars, dbVars, Crash
<1>1. TypeOK'
  BY SetupAssumption DEF TypeOK, Selecting, Thread, Conf, Unset
<1>2. RemoteHasUrl'
  BY SetupAssumption DEF TypeOK, RemoteHasUrl
<1>3. StartUpIsAlone'
  BY SetupAssumption DEF TypeOK, StartUpIsAlone, Thread
<1>4. ReadIsCurrent'
  BY SetupAssumption DEF TypeOK, ReadIsCurrent, Get
<1>5. SelectionIsExplained'
  BY SetupAssumption DEF TypeOK, SelectionIsExplained, Thread
<1>6. QED
  BY <1>1, <1>2, <1>3, <1>4, <1>5

\* What the requests do that neither save nor select, here or elsewhere: they
\* leave the configuration, the backend and the threads alone.
LEMMA BystanderStep ==
  ASSUME IInv, UNCHANGED <<hostVars, up, confVars, backend, fell_back, th, args,
                           init_lock, excused>>,
         \/ \E s \in Post : \/ SetupPost(s) \/ SetupOpen(s) \/ SetupQueues(s)
                           \/ SetupUnreachable(s) \/ Answer(s)
         \/ \E q \in Reg : RegisterCount(q) \/ RegisterInsert(q)
         \/ \E d \in Remote : OtherNode(d)
         \/ CallPrimary \/ PrimaryAnswers \/ OldPrimaryAnswers
         \/ SettingsPost \/ UNCHANGED vars
  PROVE  IInv'
<1> USE DEF IInv, hostVars, confVars, dbVars, vars
<1>1. ASSUME NEW s \in Post, \/ SetupPost(s) \/ SetupOpen(s) \/ SetupQueues(s)
                               \/ SetupUnreachable(s) \/ Answer(s)
      PROVE  TypeOK' /\ StartUpIsAlone'
  BY <1>1 DEF SetupPost, SetupOpen, SetupQueues, SetupUnreachable, Answer, Goto, Free,
              TypeOK, StartUpIsAlone
<1>2. ASSUME NEW q \in Reg, RegisterCount(q) PROVE TypeOK' /\ StartUpIsAlone'
  BY <1>2 DEF RegisterCount, TypeOK, StartUpIsAlone
<1>3. ASSUME NEW q \in Reg, RegisterInsert(q) PROVE TypeOK' /\ StartUpIsAlone'
  BY <1>3 DEF RegisterInsert, TypeOK, StartUpIsAlone, Sqlite
<1>4. ASSUME NEW d \in Remote, OtherNode(d) PROVE TypeOK' /\ StartUpIsAlone'
  BY <1>4 DEF OtherNode, TypeOK, StartUpIsAlone
<1>5. ASSUME CallPrimary \/ PrimaryAnswers \/ OldPrimaryAnswers
      PROVE  TypeOK' /\ StartUpIsAlone'
  <2>1. CASE CallPrimary
    BY <2>1 DEF CallPrimary, TypeOK, StartUpIsAlone
  <2>2. CASE PrimaryAnswers
    BY <2>2 DEF PrimaryAnswers, TypeOK, StartUpIsAlone
  <2>3. CASE OldPrimaryAnswers
    BY <2>3 DEF OldPrimaryAnswers, TypeOK, StartUpIsAlone
  <2>4. QED
    BY <1>5, <2>1, <2>2, <2>3
<1>6. ASSUME SettingsPost \/ UNCHANGED vars PROVE TypeOK' /\ StartUpIsAlone'
  <2>1. CASE SettingsPost
    BY <2>1 DEF SettingsPost, TypeOK, StartUpIsAlone
  <2>2. CASE UNCHANGED vars
    BY <2>2 DEF TypeOK, StartUpIsAlone
  <2>3. QED
    BY <1>6, <2>1, <2>2
<1>7. RemoteHasUrl' /\ ReadIsCurrent' /\ SelectionIsExplained'
  BY DEF RemoteHasUrl, ReadIsCurrent, SelectionIsExplained, Get
<1>8. QED
  BY <1>1, <1>2, <1>3, <1>4, <1>5, <1>6, <1>7

\* Every step keeps the invariant.
LEMMA IInvStep == IInv /\ [Next]_vars => IInv'
<1> SUFFICES ASSUME IInv, [Next]_vars PROVE IInv'
  OBVIOUS
<1>1. ASSUME NEW t \in Thread, Apply(t) PROVE IInv'
  BY <1>1, ReadUrlStep, ReadTokenStep, AcquireStep, TryReplicaStep, TryHttpStep,
     SchemaStep
     DEF Apply
<1>2. ASSUME NEW s \in Post, Handle(s) PROVE IInv'
  <2>1. CASE SetupSave(s) \/ SetupSaveFails(s)
    BY <2>1, SetupSaveStep, SetupSaveFailsStep
  <2>2. CASE \/ SetupPost(s) \/ SetupOpen(s) \/ SetupQueues(s) \/ SetupUnreachable(s)
             \/ Answer(s)
    BY <2>2, BystanderStep
       DEF SetupPost, SetupOpen, SetupQueues, SetupUnreachable, Answer, hostVars,
           confVars, dbVars
  <2>3. QED
    BY <1>2, <2>1, <2>2 DEF Handle
<1>3. ASSUME NEW q \in Reg, RegisterCount(q) \/ RegisterInsert(q) PROVE IInv'
  BY <1>3, BystanderStep
     DEF RegisterCount, RegisterInsert, hostVars, confVars, dbVars
<1>4. ASSUME NEW d \in Remote, OtherNode(d) PROVE IInv'
  BY <1>4, BystanderStep DEF OtherNode, hostVars, confVars, dbVars
<1>5. CASE SettingsPost \/ UNCHANGED vars
  BY <1>5, BystanderStep DEF SettingsPost, vars, hostVars, confVars, dbVars
<1>6. CASE CallPrimary \/ PrimaryAnswers \/ OldPrimaryAnswers
  BY <1>6, BystanderStep
     DEF CallPrimary, PrimaryAnswers, OldPrimaryAnswers, hostVars, confVars, dbVars
<1>7. QED
  BY <1>1, <1>2, <1>3, <1>4, <1>5, <1>6, BootStep, CrashStep, SettingsSaveStep DEF Next

\* The invariant holds throughout.
LEMMA Inductive == Spec => []IInv
BY InitIInv, IInvStep, PTL DEF Spec

\* Files, backends and the threads that apply a configuration stay in their types.
THEOREM SetupTypes == Spec => []TypeOK
<1>1. IInv => TypeOK
  BY DEF IInv
<1>2. QED
  BY <1>1, Inductive, PTL

\* However many setups overlap, time out and overtake each other, the backend in
\* use is the one that the stored configuration asks for, or its fall-back, with
\* the three exceptions that BackendIsExplained names.
THEOREM BackendIsRight == Spec => []BackendIsExplained
<1>1. IInv => BackendIsExplained
  BY DEF IInv, SelectionIsExplained, BackendIsExplained
<1>2. QED
  BY <1>1, Inductive, PTL

\* Once an account is visible and the setups under way are through, no step but
\* a restart or a database that cannot be asked opens /setup again.
THEOREM SetupLocksItself == Spec => SelfLocks
<1>1. IInv /\ [Next]_vars
        => [Locked => Locked' \/ Crash \/ \E s \in Post : SetupUnreachable(s)]_vars
  <2> SUFFICES ASSUME IInv, Locked, Next, ~Crash,
                      \A s \in Post : ~SetupUnreachable(s)
               PROVE  Locked'
    OBVIOUS
  <2> USE DEF Locked, Visible, hostVars, confVars, dbVars
  <2>1. \A t \in Thread : th[t] \notin Selecting
    BY DEF IInv, StartUpIsAlone, Thread, Selecting
  <2>2. ASSUME NEW t \in Thread, Apply(t) PROVE Locked'
    <3>1. Schema(t)
      BY <2>1, <2>2 DEF Apply, ReadUrl, ReadToken, Acquire, TryReplica, TryHttp,
                        Selecting
    <3>2. QED
      BY <3>1 DEF Schema, Step, IInv, TypeOK, Selecting, Thread
  <2>3. ASSUME NEW s \in Post, Handle(s) PROVE Locked'
    BY <2>3 DEF Handle, SetupPost, SetupOpen, SetupQueues, SetupSave, SetupSaveFails,
                Answer, Goto, IInv, TypeOK
  <2>4. ASSUME NEW q \in Reg, RegisterCount(q) \/ RegisterInsert(q) PROVE Locked'
    BY <2>4 DEF RegisterCount, RegisterInsert, IInv, TypeOK
  <2>5. ASSUME NEW d \in Remote, OtherNode(d) PROVE Locked'
    BY <2>5 DEF OtherNode
  <2>6. CASE CallPrimary \/ PrimaryAnswers \/ OldPrimaryAnswers
    <3>1. CASE CallPrimary
      BY <3>1 DEF CallPrimary
    <3>2. CASE PrimaryAnswers
      BY <3>2 DEF PrimaryAnswers, IInv, TypeOK
    <3>3. CASE OldPrimaryAnswers
      BY <3>3 DEF OldPrimaryAnswers, IInv, TypeOK
    <3>4. QED
      BY <2>6, <3>1, <3>2, <3>3
  <2>7. CASE SettingsPost \/ SettingsSave
    <3>1. UNCHANGED <<up, dbVars, accounts, h, th>>
      BY <2>7 DEF SettingsPost, SettingsSave
    <3>2. QED
      BY <3>1
  <2>8. ~Boot
    BY DEF Boot
  <2>9. QED
    BY <2>2, <2>3, <2>4, <2>5, <2>6, <2>7, <2>8 DEF Next
<1>2. QED
  BY <1>1, Inductive, PTL DEF Spec, SelfLocks

=============================================================================
