# A TLA+ model of Vortex Hub

Vortex Hub lets the owner of several devices control them from a browser.  One
or more *hub* processes (FastAPI, `src/hub/`) share a database and show the same
dashboard.  Every device runs an *agent* (`src/agent/`) or the Android *driver*
(`src/driver/`), which dials any hub and keeps one WebSocket open; the hubs
multiplex everything the browser asks for on that socket.

These modules model the parts of that program where order, failure and
concurrency decide whether it is right.  `PROJECT.json` maps every definition to
the lines it models, and lists the runs, the mutants that show that each property
can fail, the hazards and the findings.

Paths below are relative to `src/`.

## Inventory

| Component | State | Operations | Interacts with | What makes it correct |
|---|---|---|---|---|
| Agent connection (`hub/ws_router.py`, `agent/agent.py`) | tables of pending futures and queues, the request the next binary frame belongs to, the agent's tasks and send lock | `request`, `stream`, `upload`, `handle_incoming(_binary)`, `close_pending`; `Session.send_text`, `send_chunk`, `_serve_ws`, `_handle_request` | every handler that touches a device | answers and chunks reach their own call, complete and in order; nobody waits for an answer that cannot come any more; nothing leaks |
| Registry and presence (`ws_router.Registry`, `ws_agent`, `db.device_presence`, `_node_heartbeat_loop`, `_cross_node_relay`) | connection per device and node, registry lock, one presence row per device | connect, authenticate, register/supersede, serve, unregister, heartbeat, relay, unpair, crash | agent connection, database | the live connection is the registered one; every node can find it; an unpaired device is gone |
| Upload (`device_upload`, `op_write_file`) | frames in flight, receive queues, `.part` file, final file | PUT, chunks, end, write, rename, fail | agent connection | only a whole file is installed; temporary files and tasks end |
| Registration and invites (`register_post`, `api_session_register`) | `users`, `invites` | count, look up, check invite, insert, consume, log in | database | one account per success, one account per invite, admins only at the bootstrap |
| Pairing and enrolment (`api_pair`, `api_enroll`, `consume_pairing_code`, `agent/pairing.py`) | `pairing_codes`, account tokens, `devices`, the agent's `config.json` | issue, consume, create device, self-register, unpair, load and save the file | database, agent connection loop | a code makes at most one device |
| Login, sessions, rate limit (`hub/auth.py`, `login_post`) | failure log and block table per address, signed session cookie | check, record, clear | every page | an address has a bounded number of guesses |
| Configuration and set-up (`hub/config.py`, `db.init`, `setup_post`, `settings_save`) | environment, file and its copy in memory, the backend in use, `_init_lock` | get, set, select a backend, first-run window, restart | everything | the backend is the one that is configured; set-up locks itself; a POST is answered unless the primary hangs |
| Theft mode (`_theft_loop`, `theft_*`) | armed rows with `last_run`, media rows and files | arm, disarm, periodic capture, retention | registry, agent connection | a disarmed device falls silent; captures do not come in bursts; rows have their files |
| Agent connection loop (`run_forever`, `_connect_once`) | candidate hubs, back-off, saved node list | dial, fail over, give up | presence, enrolment | reaches a living hub; stops only after `auth_fail` |
| Live view (screen and camera page of `hub/templates.py`, the live and input handlers of `hub/app.py`, the agent's direct server, capture ops and bridges) | the page's socket, streams, decoders and geometry; capture tasks; relays | dial, start, stop, pick a display, frame, input, snapshot | agent connection | a click hits what is shown; captures and commands end |
| Peer protocol of the driver (`DirectServer.kt`, `PeerClient.kt`, `PeerRegistry.kt`) | tickets, peer sockets | announce, issue, redeem, request | driver, hub | a ticket is used once |
| Driver hub client and ops (`HubClient.kt`, `OpDispatcher.kt`, `Ops.kt`, `StreamSink.kt`) | socket, back-off, running ops | connect, dispatch, stream | hub | as the Python agent |
| Driver command queue (`CommandQueue.kt`) | `device_commands` rows | claim, run, answer | database | each command runs once |
| Driver service and engines (`DriverService.kt`, `CameraEngine.kt`, `ScreenEngine.kt`, `StreamServer.kt`) | owner counts of the camera and the screen | acquire, release, reconfigure | ops, local clients | an engine runs while somebody uses it |
| Database backends (`hub/db.py`) | SQLite file, embedded replica, or remote over HTTP | statements in autocommit, selection with two fall-backs | everything | see set-up |
| Other web pages, media codecs, Android screens, launchers, version 1 server | | | | presentation, platform I/O, legacy |

What is hard in this program, and hard to test:

* a chunk is a text header and an *anonymous* binary frame, on a socket shared by
  all calls; only the sender's lock keeps them together;
* a socket can be gone for one side and not for the other, and can be superseded
  while calls are in progress; clean-up code of an old connection runs after its
  successor is up;
* hubs die without running their `finally` clauses, and leave rows behind;
* no transaction spans two statements, and the handlers run in threads on several
  hubs;
* the agent reads frames while the task they are meant for has not started;
* several waits have a timeout, one (the body of a stream) has none, and what was
  waited for goes on after a timeout: a thread, a capture, a command;
* a hub may read an embedded replica, a file that is pulled every ten seconds, while
  it writes to the primary: what it counts or looks up may be out of date;
* the database can be replaced under running handlers, and a hub that cannot reach
  it starts on an empty one;
* a page's state is filled in by answers that arrive in any order, and no message
  cancels a stream.

`hazards` in `PROJECT.json` lists them by line.

## Modules

| Module | Models | Checked by | Proved in |
|---|---|---|---|
| `WsRouter` | one agent connection, hub and agent side, and its socket | `MCWsRouter` | `WsRouterProofs` |
| `Presence` | connections of one device to several hubs, the registries and the presence row | `MCPresence` with its two cfgs | `PresenceProofs` |
| `Upload` | uploads over one connection into the device's file system | `MCUpload` with its two cfgs | `UploadProofs` |
| `Registration` | account creation over `users` and `invites` | through `Accounts` | `PortalProofs` |
| `Accounts` | `Registration` together with the login of one address and its limiter | `MCAccounts` | `PortalProofs` |
| `Setup` | configuration, choice of the database, `/setup`, settings, restarts of one node | `MCSetup` | `SetupProofs` |
| `Enrolment` | codes, tokens, devices, the agent's file and its connection loop over several nodes | `MCEnrolment` | `EnrolmentProofs` |
| `PairingLedger` | what enrolment promises, without nodes, requests and agents | as a property of `MCEnrolment` | `EnrolmentProofs` |
| `LiveView` | the screen and camera page, the hub's relays and the agent's captures | `MCLiveView` | `PortalProofs` |
| `TheftStore` | captures on their way into files and `theft_media` rows, retention, deletion | `MCTheftStore` | `TheftStoreProofs` |
| `TheftLoop` | arming, disarming, the wake lock and `_theft_loop` | `MCTheftLoop` with its two cfgs | `TheftLoopProofs` |

Definitions named `…` after *Mutant of X* in a comment are plausible bugs of `X`;
no specification uses them.

### WsRouter

`caller[r]` is where a call of `request` or `stream` stands, `pending_unary` and
`pending_stream` are the keys of the two tables, `fut` and `queue` what they hold;
`pending_binary_for_rid` is the pairing register, `op[r]` the agent's task,
`send_lock` the holder of `Session.send_lock` between the two frames of a chunk.
`link`, `reading`, `superseded`, `closed` and `unregistered` follow the end of a
connection: either side loses the socket (`Drop`) or a newer connection supersedes
it (`Supersede`, `CloseSuperseded`), the receive loop ends, `Unregister` runs.

Each `await` that can suspend separates two actions.  `close_pending` is one step:
its `q.put` on an unbounded queue never suspends.  A send on a dead socket either
raises or is silently lost; both are allowed.  When the socket dies any suffix of
the frames in flight is lost.  Calls may start on a connection that is closed
already, since handlers keep the object across awaits and `_closed` is never read.

Left out: the base64 `stream_chunk` frame of old agents (superseded by the two
frames) and `direct_info`, which only stores an address.  Ops that block the
agent's event loop are just slow here.

### Presence

One device, several nodes.  `phase[c]` follows `ws_agent` through a connection:
*connecting* (before the auth frame), *registering* (waiting for the registry
lock), *superseding* (holding the lock across `old.ws.close()`), *acking*,
*serving*, *ending* (about to unregister).  A finished slot is reused, so runs are
unboundedly long.  `row` and `age` are the presence row.  A node whose public URL
is unknown publishes nothing (`known`).  `sock` tells a half-open connection from
one that is closed.

Time is in heartbeat periods of 30 s.  A `Tick` requires that each node's
heartbeat has run in the period and that the hubs have finished what they can do
on their own: each of their waits is bounded by 10 s (the auth frame) or by the
close of a socket.  A half-open socket survives at most `DetectTicks` periods
(pings every 20 s, 20 s for the answer).  Rows older than an hour are purged by
the code; they are long past `max_age`, which is all that the readers see.
`ForeignKeys` is TRUE for SQLite, which enforces the reference from
`device_presence` to `devices`, and FALSE where a remote database does not.

`quiet` and `heldAgo` are history variables: whole periods without an outside
event, and periods since each node held the connection.  No action of the program
reads them.

### Upload

The agent's `_serve_ws` reads frames (`AgentReceive`) while the task of each
upload (`task`) runs at its own pace, so chunks that arrive before
`TaskStart` find no queue.  `tmp[p]` and `final[p]` name the file at
`<path>.part` and `<path>`; a file is identified by the upload that created it, so
two uploads that open one `.part` share the file and a rename takes the other
writer's file along, as on the real file system.  A chunk is one unit and a write
reaches the file at once.  After a lost connection the tasks of the old session
live on until their queue times out.  The agent may end at any moment (`AgentExit`:
`run_forever` leaves after `auth_fail`, or the process is killed): its tasks are gone
without the `except Exception` that removes the file, and `left` is the history of the
paths at which that happened.

### Registration

One step per SQL statement, since every statement commits by itself.  A node in
`Replica` reads `pulled[n]`, the content of its local file, which `Sync` brings up to
date from time to time; INSERT and UPDATE go to the primary, whose UNIQUE name and
`used_by IS NULL` decide.  `form[r]` holds the node a request came to, what it
submitted and the route it takes.  `Submit` is
`user_count()` with the registration mode, then come the look-up of the name, of
the invite, the INSERT (which fails on a duplicate name), the guarded UPDATE of
the invite, and the login.  The registration mode is read by each node from its
own configuration and may change at any moment, so it is chosen afresh by each
request.  Between any two statements the process may die.  The web form and the
JSON endpoint run the same statements in the same order.

### Accounts

Extends `Registration` by the login of one client address.  `login_post` runs in the
thread pool: `RateCheck`, then a slow password check, then `LoginFails` or
`LoginSucceeds` with its report to the limiter; other threads run in between.  Time is
kept as ages (`fail_log` is the deque of the failures' ages, the oldest first;
`block_until` the ticks left), so the behaviours are unboundedly long.  A login can succeed once an account is registered,
which is where the two halves meet.  `wrong` is history: the guesses of the last window
that were answered.

### Setup

`mem` and `disk` are `Config._file` and `config.json`; `Get` puts the environment above
them.  A POST to `/setup` is a coroutine `h[s]` (*check*, *form*, *wait*) and a thread
`th[s]` that selects a backend as `_init_db_from_config` and `db.init` do: read the URL,
read the token, take `_init_lock`, try the embedded replica, then HTTP, then fall back
to SQLite, then the schema.  The coroutine stops waiting after 35 s (`Answer`) and the
thread goes on.  `Boot` does the same selection in `Main`.  The remote may fail, refuse
or hang at each step; an account may appear in it through another node; a replica shows
it only after a pull.  `busy` says whose `_lock` is held over a call to the primary
(`sync()`, or a statement): a check on that replica waits behind it (*queued*), and one
whose replica has been replaced meanwhile waits behind the old one (*stuck*).
`fell_back` and `excused` are history: the latest selection fell back, and a reason why
the stored configuration and the backend may differ.

### Enrolment and PairingLedger

`consume_pairing_code` is two steps (`Select`, `Update`), `create_device` a third, and
the answer reaches the agent and its file in a fourth (`Enrolled`).  The UPDATE marks
whatever row has the digits by then.  Making a code is two statements as well
(`PurgeCodes`, then `InsertCode`, which may fail).  Whether a code has expired and
whether an account token is valid is left open each time it is asked, so neither expiry
nor the purge waits for anybody.  The enrolment routes
call the database on the event loop without awaiting, so only handlers of different
nodes interleave (`LoopFree`); the pages run in threads and come anywhere.  An agent goes
through a round of the nodes it knows (`todo`), serves at one (`at`), merges the node
list it is given into its configuration and saves it.  Nodes stop and start.  A node
without replica that starts without its database (`Isolated`) runs on a local one that
knows no device, and a node in `Replica` knows the devices of its last pull
(`pulled`): both answer "invalid credentials" to a device that exists, which is fatal to
the agent.  That a replica's file may also still show a redeemed code or a purged one is
in `Select`.

`PairingLedger` has two variables: how many codes were given out, and the code each
device joined with, in order.  A code is redeemed at most once and entries are never
struck.  `Enrolment` implements it under `Ledger == INSTANCE PairingLedger WITH
given <- issues, ledger <- ...` (the device rows in the order of their creation, deleted
ones included): `CodesAreRedeemedOnce == Ledger!Spec`.

### LiveView

`page` is the page's JavaScript state: its direct socket, the direct stream `rid` and the
registered handlers `reg`, the `<img>` on the hub's route, what is `shown`, the decoders,
and the geometry (`monitor` chosen, `size`, `off`, `known`) with the requests that will
fill it in.  `task[v]` is the agent's capture of view `v`, `hub[v]` the relay of the live
route.  A direct socket is dialled once per page.  Stopping a direct view closes that
socket; a relayed one is just dropped.  One input command is followed from `postInput`
over the direct socket, its timer, the hub's route and the agent.  Codecs, pictures and
coordinates are reduced to the display and the view that they belong to.  `ToPhoneCoords`
gives a click a scale and an origin: the size the page knows, or without one what the
code falls back to (the natural width of the frame, 1080x2400 on a canvas), which need
not be the size of any display.

### TheftStore

`cap[t]` is a capture under way in task `t` of a node: waiting for the device's
stream, then *written* (file without row), *inserted*, *selected* (the pruning has
read the rows to drop, `old`, with the limit that its node is set to at that moment, and
deletes them one by one; `paths` are the files of those it has deleted), idle again after
the files are unlinked.  The
coroutine does not suspend after the stream, so two captures of one node never
overlap there (`Free`), but other nodes, the threads of `theft_media_delete`, a
crash or a refused statement come between any two steps.  `files` holds pairs of a
node and a name: the media stores are local, the rows are shared.  `created_at` is
whatever the node's clock shows.  `dirty` and `limit` are history: devices of which a
capture ended between its INSERT and its last DELETE, so that the next capture has to
prune for it, and how many rows the last SELECT was to keep.  The media directory is
taken to stay where it is.

### TheftLoop

A pass of `_theft_loop` reads the clock (`now`) and the armed devices (`list`)
once and then works through the list; `todo` counts the answers (wake lock,
captures) that the current round still waits for.  A keepawake request is on its
way (`asks`) until the device does it or it is lost; the hub waits for ten seconds
only, so it may take effect long after the handler or the loop has gone on.  `held`,
`late` and `begun` are history: what may keep a wake lock after a disarming,
rounds begun since, and how long ago the last three rounds began (at most `Interval`,
which stands for longer ago or never).  The interval is one
constant; unpairing is left out here (`armed_devices` joins `devices`, so it has
the effect of a disarming).  The loop's time unit is the sleep between passes;
time does not pass while a node works without waiting.

## Runs

| Run | Shows | Instance |
|---|---|---|
| `router` | `StreamIntegrity`: a consumer sees its own chunks, in order, none missing or repeated.  `EndedStreamIsComplete`: a normal end means all of them.  `AnswersAreOwn`, `NoLeakedEntry`.  `NoStrandedStream`: who waits without a timeout has a last message on its way, or an agent that is still producing | one unary call and two streams of at most two chunks, two of the three at a time; loss and supersession at every point |
| `presence` | `LiveIsRegistered`, `FreshRowIsRecent`, `ControlFromAnyNode` | two nodes, three connections, no foreign keys |
| `presence_unpair` | *violation*: `UnpairedIsBooted` | two nodes, two connections |
| `accounts` | `AdmissionsAreSound`: a success owns its account and its invite, a spent invite has an account.  `NoLateAdmin`.  `GuessBudget`: at most `RATE_MAX + 2(n - 1)` wrong guesses in a window with `n` requests under way | three requests, three names, one invite, two nodes of which one reads a replica; two threads, at most two failures in a window of one tick, a block of two |
| `setup` | `BackendIsExplained`: the backend is what a restart would select.  `SelfLocks`: no set-up once an account is visible.  `SetupAnswers`: a POST that is never answered waits, before its selection, behind a call to the primary that never ends | two POSTs, one registration, one admin, one remote, configured by the environment or not |
| `upload` | `InstalledAsTold`: what is installed is a suffix of the upload, and all of it if a size was known and the answer was a plain success.  `NothingLeftBehind`: no queue outlives its task, and no `.part` file does, but for what an agent that ended leaves until the next upload to that path.  `UploadSettles` | two uploads (two chunks of known size, one of unknown size), one or two paths, two ends of a connection or of the agent |
| `upload_half` | *violation*: `FinalIsWhole` | the same, with one |
| `enrolment` | `CodesAreRedeemedOnce`: the refinement of `PairingLedger`.  `FatalExitIsExplained`: the step by which an agent gives up for good is taken only when its device is gone or a node it knows does not show it.  `FailoverWorks`: a living node that it knows is reached again and again | two nodes, one that reads a replica and one that may be isolated; two agents that pair, one of which is followed further; one code issued twice; two devices |
| `live_view` | `ClicksHitTheShownDisplay`: a click is moved by the origin of the display that is shown and, once a size is known, scaled by its size.  `DecodersAreCurrent`, and under fairness `DirectStopReleases` and `InputSettles` | two views, two displays, a desktop or a phone, screen or camera page |
| `theft_store` | `RowHasFile`: files come before their rows and go after them.  `RetentionHolds`: once the captures are through, at most the rows that the last pruning was to keep | two nodes, one capture each, one device, limits of 1 and 2 that change at any time, three files, clocks that disagree |
| `theft_loop` | `AwakeIsExplained`, `DisarmSettles`, `NoBurst` | one node, two devices, two keepawake requests on their way, interval 2, five turns |
| `theft_interval` | *violation*: `IntervalIsKept` | the same |

Every passing run has its type invariant once per module.

Bounds and why they are enough:

* Two streams are needed to mix up frames, and two chunks (`MaxChunks`) to mix up the
  order within one; any two of the three calls run (`MaxCalls`), so a stream meets the
  other one as well as a unary call.  For any number of calls and chunks the proofs take
  over.
* Three connections are an old one that is ending, a half-open one and a live one;
  two nodes are "here" and "elsewhere".  `MaxAge = 1` and `DetectTicks = 1` keep the
  order of the real values (a row is fresh for longer than a period, pings take
  longer than a heartbeat).  `MaxQuiet = DetectTicks + 2` is the time
  `ControlFromAnyNode` allows the nodes to settle, and it is tight: with
  `DetectTicks + 1` the property fails.
* Three registrations are the bootstrap and two that race, for a name or for the one
  invite; with three names both can have inserted an account when they do.  Two nodes are
  one that reads the shared table and one that reads a replica, whose file may lag by any
  number of statements.  Two login threads are one that is ahead of a block and one that
  is behind it; the bound of `GuessBudget` is reached with them.
* Two POSTs to `/setup` are one that hangs or comes late and one that overtakes it.  One
  remote is enough to tell local, remote and fallen back apart, and a token is right or
  wrong.
* One code issued twice (`MaxIssues`, `Code`) is the case in which a request that has
  read the first row meets the second; two devices (`MaxDevices`) are two redemptions.
  `Loop` limits which agents are followed beyond pairing, `Isolated` which nodes may lose
  the database and `Replica` which read a local copy: failing over needs a node that
  serves and one that does not, and a lagging answer needs one replica.  One page request
  under way (`MaxPages`) is enough to come between the two statements of a redemption.
  `Beside` names the nodes on an agent's own machine, where it registers itself.
* Two views (`MaxViews`) are one that ends and the next one; two `Monitors` are the
  primary and another.
* Two ends of the connection or of the agent (`MaxDrops`): the first separates an upload
  from its retry, which then meets the stale task or the `.part` file of an agent that was
  killed, and the second hits the retry.
* Captures of one node never store at the same time, so two nodes with one capture
  each show every overlap; three files are two that compete and one to prune.  Limits of
  1 and 2 (`Retention`) let two prunings work to different limits, one of them for two rows.
* Two devices let one wait, with a stale clock, while the other is captured; two
  requests are a release and an earlier arming that overtakes it.  `MaxTime = 6` is
  the first time at which a device can have a third round, and the bound of two
  rounds per interval in `NoBurst` is reached: the loop does *not* keep the interval
  between two rounds, because `last_run` is the time at which the pass began; that is
  the finding `theft_interval`, and `NoBurst` is what remains true.  With
  several nodes there is no such bound (two of them may run one device's round from
  lists read before either stamp), so `NoBurst` is about one node.

`CHECK_DEADLOCK FALSE` is used where the work simply ends (all requests answered,
all uploads over, a node that is down); `WsRouter` ends in an explicit `Terminated`, `Presence` never
ends.

Fairness.  Only four runs check liveness; all other properties are of safety and need no
fairness.  `WsRouter` has none: after `stream_start` the hub's `q.get()` has no timeout,
and `op_screen_stream` and `op_camera_stream` loop until their link drops, so that a
stream ends is nobody's promise.  `NoStrandedStream` says instead, as an invariant, what
such a caller may be waiting for.  `Presence` has none either: its time bound rests on
what a `Tick` requires of the heartbeats and of the hub's bounded waits.

In `Upload` the agent's loop runs its tasks and the timeouts on both sides fire, while a
browser may stall in the middle of a body.  In `Setup` a check gets the replica's `_lock`
if that is free again and again (strong fairness of `SetupOpen`: between two pulls
`_db_sync_loop` sleeps for ten seconds), the browser sends its form, and the timer of
`wait_for` fires.  Nothing is assumed of a call to the primary, which may hold `_lock` for
ever, nor of the selection of a backend; so a POST may wait for ever, *queued* or *stuck*,
and `SetupAnswers` says that only such a one does.  The
set-ups that hang are taken to be fewer than the threads of the executor, so that
the check of the next one still runs.  In `Enrolment` a running agent goes on: its
connects time out and its sleeps end; nodes, operators and the database owe nothing.  In
`LiveView` the close of a socket completes, a capture sends its next frame (and meets
the dead socket), and the timers of a command fire; no answer is assumed.

## Proofs

`WsRouterProofs`, for any sets of calls and any `MaxChunks`, from the two
assumptions of `WsRouter` (unary and stream ids differ, `NoRid` is neither;
`MaxChunks` is a natural number; the code draws ids from `uuid4`):

* `TypeCorrect`: `Spec => []TypeOK`.
* `Inductive`: `Inv` is inductive relative to `TypeOK`.  `StreamIntegrity` alone is
  not inductive: whether the next chunk is right depends on the frames still in the
  queue and on the wire, and on the register that pairs them.  `Inv` therefore says
  that each binary frame follows its own header on the wire or in the register, and
  that whoever holds the send lock owes the frame for the last header (`Pairing`);
  that the chunks of a stream are numbered without gaps through delivered, queue
  and wire (`InOrder`, `UpTo`) and that `stream_end` is behind the last one
  (`EndIsLast`, `EndIsFinal`); that answers in flight are those of the agent
  (`AnswersInFlight`); that requests reach the agent once (`RequestsOnce`); and what
  `unregister` leaves behind (`WokenOrUntouched`).  The facts about FIFOs are lemmas
  of their own (`AppendChunk`, `TakeChunk`, `KeepPrefix`, ...), then there is one
  lemma per action or family of actions.
* `StreamsAreSound` (`StreamIntegrity`), `StreamsEndComplete`
  (`EndedStreamIsComplete`), `AnswersReachTheirCall` (`AnswersAreOwn`) and
  `TablesAreClean` (`NoLeakedEntry`) are parts of `Inv`.
* `NoneStranded`: `NoStrandedStream`.

`PresenceProofs`, for any nodes, connections, `DetectTicks` and `MaxAge > 0`, with and
without foreign keys (`PresenceTypes` is the type invariant):

* `RegistryIsRight`: `LiveIsRegistered`.  It is not inductive: that a new connection is
  the only one served rests on what `register` has done before it.  The invariant adds
  that a superseder holds its node's lock, which is held for nothing else
  (`SupersederHasLock`, `LockIsForClosing`), and that everything served there is closed
  meanwhile (`SupersededIsClosed`), that a registered connection is of that node and past its
  registration (`RegisteredIsHere`), and what a free slot looks like (`SlotsAreClean`).
* `RowIsTrue`: `FreshRowIsRecent`.
* `RelaySettles`: `ControlFromAnyNode`, a property about *time*: after the quiet time
  every node finds the device.  It needs a stage for each thing that must happen first: a
  half-open socket has been half-open at least as long as it is quiet, and at most
  `DetectTicks` (`HalfIsBounded`), so that later than that only the agent's connection is left
  (`QuietSettles`), and then the next heartbeat puts its node in the row and nothing takes
  it away (`RowFollows`).

`UploadProofs`, for any uploads, sizes and paths and any number of lost connections and
ends of the agent
(`UploadTypes` is the type invariant):

* `PartFilesAreRemoved`: `NothingLeftBehind`, from `QueueIsOpen` (a task that writes has
  its queue and nobody else has one) and `PartIsWritten`: a `.part` file is being written,
  or an agent that ended has left it.
* `UploadIsAsTold`: `InstalledAsTold`.  On its own this is far from inductive: what
  will be installed is spread over the file, the queue, the wire and the hub.  `Contiguous` says
  of each upload that for some `g` the chunks up to `g` have reached the agent, that the
  queue holds the last of them and the file those before (`InQueue`, `InFile`), and that
  the chunks after `g` are on the wire, in order, without a gap and all of them before
  the end (`InFlight`).  With the pairing of binary frames and headers
  (`BytesFollowHeader`), the request first and the end last (`RequestIsFirst`,
  `EndIsLast`), and files that belong to their path (`FilesAreOfThePath`), it follows
  that what the task renames is the *end* of the body (`InstalledIsEnd`).  Where it
  begins is open, and that gap is the finding `upload_half`; a known size
  closes it, because `written` is compared before `"ok"` is said.

`SetupProofs`, for any number of overlapping POSTs, registrations and remotes
(`SetupTypes` is the type invariant):

* `BackendIsRight`: `BackendIsExplained`.  The invariant says that, without one of the
  three excuses, file and memory agree and a thread that has read the URL has read the
  present one (`ReadIsCurrent`), although the thread works from its copy; that one which
  tries a remote has a URL (`RemoteHasUrl`); and that start-up and requests exclude each
  other (`StartUpIsAlone`).  `SelectionIsExplained` extends the property to the start-up.
* `SetupLocksItself`: the action property `SelfLocks`.

`EnrolmentProofs`, for any nodes, agents, codes, `MaxIssues` and `MaxDevices`
(`EnrolmentTypes` is the type invariant):

* `GivingUpIsExplained`: `FatalExitIsExplained`, an action property about the step that
  gives up, with the parts of the invariant about agents: a configuration lists its own
  node (`ConfigIsOwn`), and a round tries nodes that the agent knows (`RoundIsKnown`).
* `LedgerIsKept`: `Spec => CodesAreRedeemedOnce`, the refinement of `PairingLedger`; the
  steps that insert a device append an entry (`InsertAppends`), all others stutter
  (`NoInsertNoEntry`).  The hard case is a code that expires, is purged and issued again
  between the SELECT and the UPDATE of a request: the UPDATE then marks the row that is
  there by now, and nothing of the code stops it.  It redeems the new issue, once.  The
  invariant: rows carry different issues
  (`RowsDiffer`), an unused row's issue has made nothing and no request is about to make
  it do so (`UnusedIsUnspent`), and therefore no two requests insert for one issue
  (`InsertsOnce`).  Ids are given in order (`DevicesInOrder`), which makes the table a
  sequence; `AgentIsWhere` and `RequestIsWhole` tie requests to their agents.

`PortalProofs`, what the hub shows to browsers.  Registration, for any number of
requests, names and codes, from the assumption that the two null values are no names and
no requests:

* `RegistrationTypes`, and `RegistrationSafe`: `AdmissionsAreSound` (the conjunction of
  `SuccessOwnsAccount`, `AdmittedByInvite` and `SpentInviteHasAccount`), by the invariant
  that a request past its INSERT owns its account and one past `consume_invite` owns its
  invite.  The argument rests on the two guarded statements: the UNIQUE name and
  `used_by IS NULL`.
* `AdminsAreFromBootstrap`: `NoLateAdmin`.  A node that reads a replica counts the users
  of its last pull, so the property begins when *every node shows* an account and the
  requests that counted none are over; until then a second admin may be made.
* `LoginsLeaveRegistration`: `AccountsSpec => Spec`, so that all of this holds of the
  composition with logins, which is what `accounts` checks.

The login limiter, for any finite number of threads and any limits with a block that is
longer than the window (the code has 300 s and 60 s):

* `GuessesAreBounded`: `GuessBudget`.  The bound is not inductive, since the limiter
  forgets guesses that the history remembers.  `LogIsTail` says that what it remembers are
  the last guesses: the two sequences age and lose their entries together, and the loop
  that pops them stops at the same guess in both (`TailTick`).  `FewForgotten` bounds what it has
  forgotten while there is no block.  `BlockDrains` says why that is enough: who came
  through before a block can guess once more, so the guesses made since the block began
  and the threads still through are together no more than the other threads; and when
  a block ends, every guess left in the window is one of those, since the block lasts
  longer than the window.  That the loop stops at a first entry is the least-element
  principle of the library, without an induction (`ExpiredExists`).

The page of a live view, for any number of views and displays:

* `ViewTypes`: `ViewTypeOK`.  Its bound on the requests for the screen size needs
  `Counted`: views start in order, and each asks once.
* `ClicksAreRight` (`ClicksHitTheShownDisplay`: the origin always, the scale once a size
  is known) and `DecodersAreRight` (`DecodersAreCurrent`).  Neither is inductive: a frame that arrives paints whatever view
  has handlers on the socket.  `Staged` says that this is the view the page has: an open
  socket has handlers for the direct view and for no other, a socket that is not yet open
  for none, an `<img>` and a direct view exclude each other, and without streaming nothing
  is on the stage.  `Fits` says that the geometry is of the chosen display, that the
  primary one is chosen while the displays are unknown, and that all views on the stage are
  of the chosen one.  Lemmas about `stopStream`, `startStream`, `loadScreenSize`,
  `applyMonitorGeometry` and the end handlers carry both through the steps.

`TheftStoreProofs`, for any nodes, devices, captures and clocks and any limits of at
least one, which each pruning reads anew (`StoreTypes` is the type invariant):

* `StoreSafe`: `RowHasFile`.  It is not inductive: an unlink
  is harmless only because of what was selected or deleted earlier.  The invariant
  adds that names are never reused (`Fresh`), that a file which is written and has no
  row yet belongs to its capture alone (`WrittenIsOwn`), that what a pruning has selected
  is of no other row and no capture (`OldIsOwn`), and that whatever it
  or `theft_media_delete` is about to unlink has lost its row (`PathsAreGone`,
  `DeletedIsGone`).
* `RetentionIsKept`: `RetentionHolds`.  The invariant counts the rows that no pruning
  under way has selected: once every INSERT was followed by a SELECT there are at most
  `limit[d]` of them, the limit of the last SELECT (`KeptIsBounded`).  That one SELECT leaves so few is a pigeonhole
  argument: each row that stays has its own rank below the limit in the order of the
  SELECT (`ExcessLeavesEnough`), and for that ids must differ (`IdsDiffer`), since
  clocks may not.

`TheftLoopProofs`, for any nodes, devices, interval and time (`LoopTypes` is the type
invariant):

* `WakeLockIsExplained` (`AwakeIsExplained`) and `LoopSafe` (`DisarmSettles`).  The
  invariant says that not only a lock that is held but also one that a request or a pass
  is going to take is explained (`TakingIsExplained`), and that a device is on a list
  once and, after its disarming, only while that pass has not begun its round
  (`ListIsUnspent`).
* `RoundsArePaced`: `NoBurst`.  A round is stamped with the time at which its pass began,
  which may be long before the round.  `Paced` says how wrong the stamp can be: the last
  round is stamped no earlier than the round before it began, and what a pass has on its list
  is the present stamp.  So a third round comes an interval after the first.

Each inductive invariant was checked with TLC on the instances of the runs before it was
proved.  The assumptions on constants are the `ASSUME`s of the modules: null values are
no members of their sets, numbers are natural, and a few are positive.

Only model-checked are the liveness properties (`UploadSettles`, `SetupAnswers`,
`FailoverWorks`, `DirectStopReleases`, `InputSettles`), since TLAPS does
not reason about fairness here.  Every invariant, action property and refinement that a
passing run checks is a theorem.

## Findings

1. `presence_unpair`: unpairing on a node that does not hold the connection leaves
   the device connected and served (`hub/app.py:1003`; its comment promises to boot
   *any* active connection).
2. `upload_half`: chunks that arrive before `op_write_file` listens are dropped and
   the rest is installed (`agent/agent.py:1173`; the comment at 830 excludes
   half-uploaded files).  With a known size the browser gets a warning, with an unknown
   size it gets a plain success.
3. `theft_interval`: a device may be captured twice within its interval.  `_theft_loop`
   stamps `last_run` with the time at which the *pass* began (`hub/app.py:2158`), which is
   old by then if the devices before it in the list were slow, so the next round comes that
   much too soon.  The docstring at `hub/app.py:2140` has the interval "enforced via
   last_run", and the comment at 2157 says that "a slow cycle can't double-fire".

What the models also show, without a run of its own:

* a registration that loses the race for its invite is refused, yet its account stays
  and can log in; the comment at `hub/app.py:529` announces a rollback that is not
  there.  `AdmissionsAreSound` says what remains true;
* a registration that counted no users may insert its admin into a database that a
  set-up has selected meanwhile (`Setup`: `RegisterCount`, `SetupSave`, ...,
  `RegisterInsert`); the comment at `hub/app.py:83` argues that nothing is in flight;
* `setup_post` checks once and then awaits the form: `SelfLocks` therefore speaks of the
  time after the set-ups that were under way;
* a command whose direct answer is late runs twice, and a view that the hub relayed is
  captured on until the agent's link drops (`LiveView`);
* a POST to `/setup` may wait without bound before its selection: the comment at
  `hub/app.py:1668-1675` has every blocking database call "bounded by a timeout", while
  `_setup_open` at 1676 has none and takes the lock that `sync()` holds over a pull;
* a node whose replica has not pulled yet answers "invalid credentials" to a device
  that was enrolled at another one, which ends the agent; the docstring at
  `hub/app.py:724-725` says that a just-enrolled agent can always connect back to whoever
  it reached.  Whether a replica shows its own writes at once is left open;
* registering at such a node may make a second admin for as long as it shows no account;
* before the size of a display is known, a click is scaled to the frame or to 1080x2400;
  the comment at `hub/templates.py:2627` calls that "approximately correct" because ratios
  match, but the coordinates sent are absolute;
* a running agent that saves its node list overwrites the credentials which
  self-registration has just put in the file (`Enrolment`).

## Not modelled

In `Enrolment`: the `HUB_URL` override, the order of candidates, the length of the
back-off, the publication to `device_peers`, renaming, a node with a replica that starts
without its primary, and whose account a device joins.  In `Setup`: keys other than the
two that choose the remote database (`VORTEX_HUB_DB` moves the local file), the connection
tests, and that the SQLite fall-back may
open the file an embedded replica has left.  In `LiveView`: the microphone and the
audio-only mode.  In `Accounts`: sessions and their expiry, and the pruning of the limiter's
tables when very many addresses are tracked.  In `WsRouter`: the legacy base64 frames.

Not at all: the HTML and the file browser's script (presentation), the driver in Kotlin
(planned), media encoders and decoders (the data is the point, and it belongs to the
platform), the audit log (written, never read by the program), device locks (no caller),
the version 1 server, launchers.

## Plan

In this order:

1. `CommandQueue` and the tickets of the driver's `DirectServer`; the ownership of the
   engines in `DriverService`; `HubClient` and `OpDispatcher` as a second implementation
   of the agent's side of `WsRouter`.
2. An abstract specification of a connection (a set of calls, each answered at most
   once by its own result) that `WsRouter` implements.
