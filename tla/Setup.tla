------------------------------- MODULE Setup --------------------------------
(***************************************************************************)
(* The configuration of one hub node and the database it makes the node    *)
(* use: config.json and its copy in memory (hub/config.py), the choice of  *)
(* a backend (db.init), the login-free /setup page that stays open while   *)
(* no account is visible, and the admin's Settings tab (hub/app.py).       *)
(*                                                                         *)
(* A POST to /setup is a coroutine h on the event loop and a thread th     *)
(* that re-selects the backend, which outlives the coroutine if that stops *)
(* waiting for it.  At start-up the thread Main does the same selection.   *)
(* Only the two keys that choose the remote database are kept; the third,  *)
(* VORTEX_HUB_DB, names the local file and is taken not to change.         *)
(***************************************************************************)
EXTENDS Naturals

CONSTANTS
  Post,     \* POSTs to /setup under way at one time
  Main,     \* the start-up of the process
  Reg,      \* bootstrap registrations at this node
  Remote,   \* remote databases: each is its own URL and its own token
  Local,    \* the local SQLite file
  Blank,    \* the empty string
  Env,      \* what the environment may say: a set of configurations
  Nobody

Key == {"VORTEX_SYNC_URL", "VORTEX_SYNC_TOKEN"}
Secret == {"VORTEX_SYNC_TOKEN"}
Conf == [Key -> Remote \cup {Blank}]
Thread == Post \cup {Main}

ASSUME SetupAssumption ==
  /\ Main \notin Post /\ Nobody \notin Thread
  /\ Local \notin Remote /\ Blank \notin Remote
  /\ Env \subseteq Conf

VARIABLES
  env,       \* os.environ, after load_env_files
  wheel,     \* libsql_experimental can be imported on this host
  up,        \* the hub serves requests
  mem, disk, \* Config._file, config.json
  backend,   \* _backend: its kind, and the database behind it
  replica,   \* the embedded replica shows an account
  busy,      \* the replicas whose _lock is held over a call to the primary:
             \* the one in use ("now"), one that was in use before ("old")
  accounts,  \* the databases that hold an account
  h, th,     \* where coroutine and thread of each POST are
  args,      \* what the thread has read from the configuration
  init_lock, \* the owner of _init_lock
  reg,       \* "insert": a registration has counted no users
  adm,       \* an admin's POST to /settings waits for its form
  fell_back, \* history: the latest selection fell back to SQLite
  excused    \* history: since start-up an admin has saved, a save has failed,
             \* or a setup has been overtaken

hostVars == <<env, wheel>>
confVars == <<mem, disk>>
dbVars == <<backend, replica, busy, fell_back>>
vars == <<hostVars, up, confVars, dbVars, accounts, h, th, args, init_lock,
          reg, adm, excused>>

Sqlite == [kind |-> "sqlite", db |-> Local]
Unset == [k \in Key |-> Blank]

Init ==
  /\ env \in Env /\ wheel \in BOOLEAN
  /\ up = FALSE
  /\ mem = Unset /\ disk = Unset
  /\ backend = Sqlite /\ replica = FALSE /\ busy = {}
  /\ accounts \in SUBSET Remote
  /\ h = [s \in Post |-> "idle"]
  /\ th = [t \in Thread |-> "none"]
  /\ args = [t \in Thread |-> Unset]
  /\ init_lock = Nobody
  /\ reg = [q \in Reg |-> "idle"] /\ adm = FALSE
  /\ fell_back = FALSE /\ excused = FALSE

-----------------------------------------------------------------------------
(* The configuration store *)

\* Config.get: the environment over config.json over the default.
Get(c, k) == IF env[k] # Blank THEN env[k] ELSE c[k]
Effective(c) == [k \in Key |-> Get(c, k)]

\* What the page submits: the fields that the environment overrides are
\* disabled, and a disabled field is not sent.
Form == [{k \in Key : env[k] = Blank} -> Remote \cup {Blank}]

\* set_many: blank clears a key, but keeps a secret.
SetMany(c, v) ==
  [k \in Key |-> IF k \notin DOMAIN v \/ (k \in Secret /\ v[k] = Blank)
                 THEN c[k] ELSE v[k]]

\* The file is written beside config.json and renamed over it, on the event
\* loop and under Config._lock: a crash leaves the old file or the new one.
\* If the write fails, only the copy in memory has changed.
Save(v, ok) ==
  /\ mem' = SetMany(mem, v)
  /\ disk' = IF ok THEN mem' ELSE disk

-----------------------------------------------------------------------------
(* The database *)

\* user_count() > 0 on the backend as it is now
Visible ==
  IF backend.kind = "replica" THEN replica ELSE backend.db \in accounts

\* Every statement on the embedded replica takes its _lock, and none of the
\* calls to the primary under it has a timeout.
Free == "now" \notin busy

\* Every statement over HTTP may raise.
MayRaise == backend.kind = "http"

Step(t, l) == th' = [th EXCEPT ![t] = l]

\* _init_db_from_config reads the two keys one after the other.
ReadUrl(t) ==
  /\ th[t] = "url"
  /\ args' = [args EXCEPT ![t]["VORTEX_SYNC_URL"] = Get(mem, "VORTEX_SYNC_URL")]
  /\ Step(t, "token")
  /\ UNCHANGED <<hostVars, up, confVars, dbVars, accounts, h, init_lock, reg,
                 adm, excused>>

ReadToken(t) ==
  /\ th[t] = "token"
  /\ args' = [args EXCEPT
                ![t]["VORTEX_SYNC_TOKEN"] = Get(mem, "VORTEX_SYNC_TOKEN")]
  /\ Step(t, "lock")
  /\ UNCHANGED <<hostVars, up, confVars, dbVars, accounts, h, init_lock, reg,
                 adm, excused>>

\* A replica that is replaced is not closed: a call that holds its _lock goes
\* on, and so does the wait of the POSTs behind it.
Select(b) ==
  /\ backend' = b
  /\ replica' = (b.kind = "replica" /\ b.db \in accounts)
  /\ busy' = IF busy = {} THEN {} ELSE {"old"}
  /\ h' = [s \in Post |-> IF h[s] = "queued" THEN "stuck" ELSE h[s]]

\* db.init takes _init_lock; without a URL it selects the SQLite file.
Acquire(t) ==
  /\ th[t] = "lock" /\ init_lock = Nobody
  /\ init_lock' = t
  /\ IF args[t]["VORTEX_SYNC_URL"] = Blank
     THEN Select(Sqlite) /\ fell_back' = FALSE /\ Step(t, "schema")
     ELSE Step(t, "replica") /\ UNCHANGED <<dbVars, h>>
  /\ UNCHANGED <<hostVars, up, confVars, accounts, args, reg, adm, excused>>

\* The remote takes the URL with its own token only.
Accepts(t) == args[t]["VORTEX_SYNC_TOKEN"] = args[t]["VORTEX_SYNC_URL"]

\* Mutant of TryReplica: the wheel is taken for granted.
TryReplicaAnywhere(t) ==
  /\ th[t] = "replica"
  /\ \/ /\ Accepts(t)
        /\ Select([kind |-> "replica", db |-> args[t]["VORTEX_SYNC_URL"]])
        /\ fell_back' = FALSE /\ Step(t, "schema")
     \/ Step(t, "http") /\ UNCHANGED <<dbVars, h>>
  /\ UNCHANGED <<hostVars, up, confVars, accounts, args, init_lock, reg, adm,
                 excused>>

\* _LibsqlBackend: it connects and pulls, or the import, the connection or
\* the pull raises.  Nothing bounds the time it takes.
TryReplica(t) ==
  /\ th[t] = "replica"
  /\ \/ /\ wheel /\ Accepts(t)
        /\ Select([kind |-> "replica", db |-> args[t]["VORTEX_SYNC_URL"]])
        /\ fell_back' = FALSE /\ Step(t, "schema")
     \/ Step(t, "http") /\ UNCHANGED <<dbVars, h>>
  /\ UNCHANGED <<hostVars, up, confVars, accounts, args, init_lock, reg, adm,
                 excused>>

\* _TursoHttpBackend probes with SELECT 1; if that raises too, SQLite it is.
TryHttp(t) ==
  /\ th[t] = "http"
  /\ \/ /\ Accepts(t)
        /\ Select([kind |-> "http", db |-> args[t]["VORTEX_SYNC_URL"]])
        /\ fell_back' = FALSE
     \/ Select(Sqlite) /\ fell_back' = TRUE
  /\ Step(t, "schema")
  /\ UNCHANGED <<hostVars, up, confVars, accounts, args, init_lock, reg, adm,
                 excused>>

\* executescript(_SCHEMA) and _migrate, the end of db.init, and user_count()
\* for the answer to the browser; each may raise.  At start-up the hub begins
\* to serve, or the import of hub.app fails and the process ends.
Schema(t) ==
  /\ th[t] = "schema" /\ Free
  /\ init_lock' = Nobody
  /\ args' = [args EXCEPT ![t] = Unset]
  /\ Step(t, "none")
  /\ \/ up' = TRUE
     \/ MayRaise /\ UNCHANGED up
  /\ UNCHANGED <<hostVars, confVars, dbVars, accounts, h, reg, adm, excused>>

\* db.sync pulls, every ten seconds, or another request's write goes to the
\* primary; meanwhile the replica's _lock is held.
CallPrimary ==
  /\ up /\ backend.kind = "replica" /\ Free
  /\ busy' = busy \cup {"now"}
  /\ UNCHANGED <<hostVars, up, confVars, backend, replica, fell_back, accounts,
                 h, th, args, init_lock, reg, adm, excused>>

\* The call is over: the replica shows what its primary holds, unless the pull
\* has failed.  The POSTs that wait for the lock try again.
PrimaryAnswers ==
  /\ "now" \in busy /\ busy' = busy \ {"now"}
  /\ replica' \in {replica, backend.db \in accounts}
  /\ h' = [s \in Post |-> IF h[s] = "queued" THEN "check" ELSE h[s]]
  /\ UNCHANGED <<hostVars, up, confVars, backend, fell_back, accounts, th, args,
                 init_lock, reg, adm, excused>>

\* The call on a replica that is no longer in use is over; who waited there
\* is told what that one shows.
OldPrimaryAnswers ==
  /\ "old" \in busy /\ busy' = busy \ {"old"}
  /\ \E told \in [Post -> {"idle", "form"}] :
       h' = [s \in Post |-> IF h[s] = "stuck" THEN told[s] ELSE h[s]]
  /\ UNCHANGED <<hostVars, up, confVars, backend, replica, fell_back, accounts,
                 th, args, init_lock, reg, adm, excused>>

\* A registration at another node that uses the remote database
OtherNode(d) ==
  /\ accounts' = accounts \cup {d}
  /\ UNCHANGED <<hostVars, up, confVars, dbVars, h, th, args, init_lock, reg,
                 adm, excused>>

-----------------------------------------------------------------------------
(* Requests *)

Goto(s, l) == h' = [h EXCEPT ![s] = l]

SetupPost(s) ==
  /\ up /\ h[s] = "idle" /\ th[s] = "none"
  /\ Goto(s, "check")
  /\ UNCHANGED <<hostVars, up, confVars, dbVars, accounts, th, args,
                 init_lock, reg, adm, excused>>

\* Mutant of SetupOpen: the page trusts that it is only linked when open.
SetupOpenAlways(s) ==
  /\ h[s] = "check"
  /\ Goto(s, "form")
  /\ UNCHANGED <<hostVars, up, confVars, dbVars, accounts, th, args,
                 init_lock, reg, adm, excused>>

\* _setup_open, in a thread: 403 if an account is visible.
SetupOpen(s) ==
  /\ h[s] = "check" /\ Free
  /\ Goto(s, IF Visible THEN "idle" ELSE "form")
  /\ UNCHANGED <<hostVars, up, confVars, dbVars, accounts, th, args,
                 init_lock, reg, adm, excused>>

\* _setup_open again: it has to wait for the replica's _lock.
SetupQueues(s) ==
  /\ h[s] = "check" /\ ~Free
  /\ Goto(s, "queued")
  /\ UNCHANGED <<hostVars, up, confVars, dbVars, accounts, th, args,
                 init_lock, reg, adm, excused>>

\* _setup_open again: a database that cannot be asked counts as unconfigured.
SetupUnreachable(s) ==
  /\ h[s] = "check" /\ MayRaise
  /\ Goto(s, "form")
  /\ UNCHANGED <<hostVars, up, confVars, dbVars, accounts, th, args,
                 init_lock, reg, adm, excused>>

\* Another thread has begun to read the configuration that is replaced now,
\* and has not selected its backend yet.
Overtaken == \E t \in Thread : th[t] \in {"token", "lock", "replica", "http"}

\* Mutant of SetupSave: the backend is left for the next restart.
SetupSaveOnly(s) ==
  /\ h[s] = "form"
  /\ \E v \in Form : Save(v, TRUE)
  /\ Goto(s, "idle")
  /\ UNCHANGED <<hostVars, up, dbVars, accounts, th, args, init_lock, reg, adm,
                 excused>>

\* The form has arrived: it is saved, and the thread is started.
SetupSave(s) ==
  /\ h[s] = "form"
  /\ \E v \in Form : Save(v, TRUE)
  /\ Goto(s, "wait") /\ Step(s, "url")
  /\ excused' = (excused \/ Overtaken)
  /\ UNCHANGED <<hostVars, up, dbVars, accounts, args, init_lock, reg, adm>>

\* set_many raises: 500, and no thread.
SetupSaveFails(s) ==
  /\ h[s] = "form"
  /\ \E v \in Form : Save(v, FALSE)
  /\ Goto(s, "idle")
  /\ excused' = TRUE
  /\ UNCHANGED <<hostVars, up, dbVars, accounts, th, args, init_lock, reg, adm>>

\* Mutant of Answer: the thread is awaited without wait_for.
AnswerUntimed(s) ==
  /\ h[s] = "wait" /\ th[s] = "none"
  /\ Goto(s, "idle")
  /\ UNCHANGED <<hostVars, up, confVars, dbVars, accounts, th, args, init_lock,
                 reg, adm, excused>>

\* wait_for: a redirect, or the page that says "restart the hub", once the
\* thread is over or after 35 s, while the thread goes on.
Answer(s) ==
  /\ h[s] = "wait"
  /\ Goto(s, "idle")
  /\ UNCHANGED <<hostVars, up, confVars, dbVars, accounts, th, args, init_lock,
                 reg, adm, excused>>

\* settings_save: require_admin, then the form, then set_many.  A change of
\* the database waits for the next restart.
SettingsPost ==
  /\ up /\ ~adm /\ Free /\ Visible
  /\ adm' = TRUE
  /\ UNCHANGED <<hostVars, up, confVars, dbVars, accounts, h, th, args,
                 init_lock, reg, excused>>

SettingsSave ==
  /\ adm /\ adm' = FALSE
  /\ \E v \in Form, ok \in BOOLEAN : Save(v, ok)
  /\ excused' = TRUE
  /\ UNCHANGED <<hostVars, up, dbVars, accounts, h, th, args, init_lock, reg>>

\* register_post at this node: is_bootstrap, and later the INSERT, each on
\* the backend of its own moment.
RegisterCount(q) ==
  /\ up /\ reg[q] = "idle" /\ Free /\ ~Visible
  /\ reg' = [reg EXCEPT ![q] = "insert"]
  /\ UNCHANGED <<hostVars, up, confVars, dbVars, accounts, h, th, args,
                 init_lock, adm, excused>>

RegisterInsert(q) ==
  /\ reg[q] = "insert" /\ Free
  /\ reg' = [reg EXCEPT ![q] = "idle"]
  /\ \/ /\ accounts' = accounts \cup {backend.db}
        /\ replica' = (replica \/ backend.kind = "replica")
     \/ backend.kind # "sqlite" /\ UNCHANGED <<accounts, replica>>
  /\ UNCHANGED <<hostVars, up, confVars, backend, busy, fell_back, h, th, args,
                 init_lock, adm, excused>>

-----------------------------------------------------------------------------
(* The process *)

\* Config.boot reads config.json, and Main selects the backend.
Boot ==
  /\ ~up /\ th[Main] = "none"
  /\ mem' = disk /\ excused' = FALSE
  /\ Step(Main, "url")
  /\ UNCHANGED <<hostVars, up, disk, dbVars, accounts, h, args, init_lock, reg,
                 adm>>

\* The process is killed, at start-up or with its requests and threads.
Crash ==
  /\ up \/ th[Main] # "none"
  /\ up' = FALSE
  /\ h' = [s \in Post |-> "idle"] /\ th' = [t \in Thread |-> "none"]
  /\ args' = [t \in Thread |-> Unset] /\ init_lock' = Nobody
  /\ reg' = [q \in Reg |-> "idle"] /\ adm' = FALSE
  /\ busy' = {}
  /\ UNCHANGED <<hostVars, confVars, backend, replica, fell_back, accounts,
                 excused>>

Apply(t) ==
  \/ ReadUrl(t) \/ ReadToken(t) \/ Acquire(t) \/ TryReplica(t) \/ TryHttp(t)
  \/ Schema(t)

Handle(s) ==
  \/ SetupPost(s) \/ SetupOpen(s) \/ SetupQueues(s) \/ SetupUnreachable(s)
  \/ SetupSave(s) \/ SetupSaveFails(s) \/ Answer(s)

Next ==
  \/ Boot \/ Crash \/ SettingsPost \/ SettingsSave
  \/ CallPrimary \/ PrimaryAnswers \/ OldPrimaryAnswers
  \/ \E t \in Thread : Apply(t)
  \/ \E s \in Post : Handle(s)
  \/ \E q \in Reg : RegisterCount(q) \/ RegisterInsert(q)
  \/ \E d \in Remote : OtherNode(d)

Spec == Init /\ [][Next]_vars

\* A check gets the replica's _lock if that is free again and again (between
\* two pulls _db_sync_loop sleeps for ten seconds), the browser sends its form,
\* and the timer of wait_for fires.  Nothing is assumed of a call to the
\* primary, nor of the selection of a backend: either may hang in the network,
\* with the replica's _lock or _init_lock held.
FairSpec ==
  /\ Spec
  /\ \A s \in Post :
       /\ SF_vars(SetupOpen(s)) /\ WF_vars(SetupQueues(s))
       /\ WF_vars(SetupSave(s))
       /\ WF_vars(Answer(s))

-----------------------------------------------------------------------------
(* Properties *)

Selecting == {"url", "token", "lock", "replica", "http"}

\* The type invariant, with what ties the backend to the host and the
\* databases: an embedded replica needs the wheel and shows no account that
\* its primary has not, and _init_lock is held by a thread that selects.
TypeOK ==
  /\ env \in Env /\ wheel \in BOOLEAN /\ up \in BOOLEAN
  /\ mem \in Conf /\ disk \in Conf
  /\ \/ backend = Sqlite
     \/ backend \in [kind : {"replica", "http"}, db : Remote]
  /\ backend.kind = "replica" => wheel
  /\ replica \in BOOLEAN
  /\ replica => backend.kind = "replica" /\ backend.db \in accounts
  /\ accounts \subseteq Remote \cup {Local}
  /\ busy \subseteq {"now", "old"}
  /\ "now" \in busy => up /\ backend.kind = "replica"
  /\ h \in [Post -> {"idle", "check", "queued", "stuck", "form", "wait"}]
  /\ \A s \in Post : /\ h[s] = "queued" => "now" \in busy
                     /\ h[s] = "stuck" => "old" \in busy
  /\ th \in [Thread -> Selecting \cup {"none", "schema"}]
  /\ args \in [Thread -> Conf]
  /\ init_lock \in Thread \cup {Nobody}
  /\ \A t \in Thread : th[t] \in {"replica", "http", "schema"} <=> init_lock = t
  /\ reg \in [Reg -> {"idle", "insert"}] /\ adm \in BOOLEAN
  /\ fell_back \in BOOLEAN
  /\ excused \in BOOLEAN

\* While the hub serves and no thread is selecting, the backend is the one
\* that config.json and the environment ask for, so that a restart would
\* select it again, or the SQLite file because the remote failed.  The only
\* exceptions are an admin's change that waits for the restart, a file that
\* could not be written, and a setup that was saved while a slower one was
\* selecting its backend.
BackendIsExplained ==
  (up /\ ~excused /\ \A t \in Thread : th[t] \notin Selecting)
    => LET url == Get(disk, "VORTEX_SYNC_URL")
       IN  backend.db = IF fell_back \/ url = Blank THEN Local ELSE url

\* Nobody is past the check of /setup, and an account is visible.
Locked ==
  /\ up /\ Visible
  /\ \A s \in Post : h[s] \in {"idle", "check", "queued"} /\ th[s] \notin Selecting

\* /setup self-locks: once an account is visible and the setups that began
\* before are through, the node cannot come to a state where a setup writes
\* the configuration or another database is used, except through a restart
\* or a database that cannot be asked whether it has accounts.
SelfLocks ==
  [][ Locked => Locked' \/ Crash \/ \E s \in Post : SetupUnreachable(s) ]_vars

\* Every POST to /setup is answered, even if the selection of the backend
\* hangs in the network, or behind another one that does: the only POST that
\* waits for ever is one whose check is behind a call to the primary that
\* never ends, since that wait has no timeout.
SetupAnswers ==
  \A s \in Post : <>[](h[s] # "idle") => <>[](h[s] \in {"queued", "stuck"})

=============================================================================
