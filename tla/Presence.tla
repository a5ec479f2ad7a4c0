------------------------------ MODULE Presence ------------------------------
(***************************************************************************)
(* Several hub nodes share one database; one device's agent connects to    *)
(* one of them at a time.  Modelled: the life of a connection in ws_agent  *)
(* (hub/app.py) with Registry.register/unregister (hub/ws_router.py), the  *)
(* device_presence row (hub/db.py), the heartbeat that refreshes it, the   *)
(* relay middleware that reads it, unpairing, and node crashes.            *)
(*                                                                         *)
(* One Tick is one heartbeat period (30 s).  Everything a hub does by      *)
(* itself takes less than that; a peer that vanished without closing its   *)
(* socket is noticed by WebSocket pings within DetectTicks periods.        *)
(***************************************************************************)
EXTENDS Naturals

CONSTANTS
  Node,         \* hub processes
  Conn,         \* connection slots; a finished one is used again
  NoNode, NoConn,
  MaxAge,       \* get_device_presence's max_age, in periods
  DetectTicks,  \* WebSocket ping timeout, in periods
  ForeignKeys   \* does the shared database enforce device_presence's reference?

ASSUME PresenceAssumption ==
  /\ NoNode \notin Node /\ NoConn \notin Conn
  /\ MaxAge \in Nat \ {0} /\ DetectTicks \in Nat
  /\ ForeignKeys \in BOOLEAN

VARIABLES
  paired,    \* the devices row exists
  row, age,  \* device_presence: node_url (NoNode: no row), periods since last_seen
  conns,     \* Registry._conns of each node, for this device
  lock,      \* Registry._lock of each node, where it is held across an await
  known,     \* _resolve_public_url() of each node is not empty
  beat,      \* _node_heartbeat_loop has run in this period
  phase,     \* where ws_agent is for each connection
  at,        \* the node of each connection
  published, \* ws_agent's _node_url is not empty and its finally will clear it
  sock,      \* "up"; "half": the agent is gone, the hub has not noticed; "down"
  halfFor,   \* periods a connection has been half open
  agentConn, \* the connection the agent is using
  gaveUp,    \* run_forever has returned: the agent gave up cleanly
  quiet,     \* history: whole periods without an event from outside
  heldAgo    \* history: periods since each node last held the connection

dbVars == <<paired, row, age>>
nodeVars == <<conns, lock, known, beat>>
connVars == <<phase, at, published, sock, halfFor>>
agentVars == <<agentConn, gaveUp>>
vars == <<dbVars, nodeVars, connVars, agentVars, quiet, heldAgo>>

Phase == {"free", "connecting", "registering", "superseding", "acking", "serving", "ending"}
MaxQuiet == DetectTicks + 2
Capped(k, top) == IF k < top THEN k + 1 ELSE top

Init ==
  /\ paired = TRUE /\ row = NoNode /\ age = 0
  /\ conns = [n \in Node |-> NoConn]
  /\ lock = [n \in Node |-> NoConn]
  /\ known \in [Node -> BOOLEAN]
  /\ beat = [n \in Node |-> FALSE]
  /\ phase = [c \in Conn |-> "free"]
  /\ at = [c \in Conn |-> NoNode]
  /\ published = [c \in Conn |-> FALSE]
  /\ sock = [c \in Conn |-> "down"]
  /\ halfFor = [c \in Conn |-> 0]
  /\ agentConn = NoConn /\ gaveUp = FALSE
  /\ quiet = 0
  /\ heldAgo = [n \in Node |-> MaxAge + 1]

\* Mutant of Publish: the peer's address is written instead of the node's URL.
PublishPeer(n) ==
  IF known[n] /\ (paired \/ ~ForeignKeys)
  THEN row' = conns[n] /\ age' = 0
  ELSE UNCHANGED <<row, age>>

\* publish_device_presence; the caller swallows a failed INSERT.
Publish(n) ==
  IF known[n] /\ (paired \/ ~ForeignKeys)
  THEN row' = n /\ age' = 0
  ELSE UNCHANGED <<row, age>>

\* DELETE FROM device_presence, where node_url is one of these.
ClearRow(nodes) ==
  IF row \in nodes
  THEN row' = NoNode /\ age' = 0
  ELSE UNCHANGED <<row, age>>

-----------------------------------------------------------------------------
(* ws_agent *)

\* The agent opens a socket to n and sends its auth frame.
Connect(c, n) ==
  /\ agentConn = NoConn /\ ~gaveUp /\ phase[c] = "free"
  /\ phase' = [phase EXCEPT ![c] = "connecting"]
  /\ at' = [at EXCEPT ![c] = n]
  /\ sock' = [sock EXCEPT ![c] = "up"]
  /\ agentConn' = c
  /\ quiet' = 0
  /\ UNCHANGED <<dbVars, nodeVars, published, halfFor, gaveUp, heldAgo>>

\* The tail of register and, with no await between, the presence row.
Registered(c) ==
  LET n == at[c] IN
  /\ conns' = [conns EXCEPT ![n] = c]
  /\ lock' = [lock EXCEPT ![n] = NoConn]
  /\ heldAgo' = [heldAgo EXCEPT ![n] = 0]
  /\ published' = [published EXCEPT ![c] = known[n]]
  /\ Publish(n)
  /\ phase' = [phase EXCEPT ![c] = "acking"]

\* Registry.register with the lock.  An older connection is closed first
\* (code 1000, after which its agent reconnects) and the lock held meanwhile.
EnterRegister(c) ==
  LET old == conns[at[c]] IN
  /\ lock[at[c]] = NoConn
  /\ \/ /\ old = NoConn
        /\ Registered(c)
        /\ UNCHANGED <<sock, agentConn, quiet>>
     \/ /\ old # NoConn
        /\ lock' = [lock EXCEPT ![at[c]] = c]
        /\ phase' = [phase EXCEPT ![c] = "superseding"]
        /\ sock' = [sock EXCEPT ![old] = "down"]
        /\ agentConn' = IF agentConn = old THEN NoConn ELSE agentConn
        /\ quiet' = IF agentConn = old THEN 0 ELSE quiet
        /\ UNCHANGED <<row, age, conns, published, heldAgo>>
  /\ UNCHANGED <<paired, known, beat, at, halfFor, gaveUp>>

\* The connection's slot is free again.
Forget(c) ==
  /\ phase' = [phase EXCEPT ![c] = "free"]
  /\ at' = [at EXCEPT ![c] = NoNode]
  /\ published' = [published EXCEPT ![c] = FALSE]
  /\ sock' = [sock EXCEPT ![c] = "down"]
  /\ halfFor' = [halfFor EXCEPT ![c] = 0]

\* authenticate_device succeeds: straight into register, or wait for its lock.
Authenticate(c) ==
  /\ phase[c] = "connecting" /\ paired
  /\ \/ EnterRegister(c)
     \/ /\ lock[at[c]] # NoConn
        /\ phase' = [phase EXCEPT ![c] = "registering"]
        /\ UNCHANGED <<dbVars, nodeVars, at, published, sock, halfFor, agentVars,
                       quiet, heldAgo>>

\* auth_fail: the agent, if it still listens, gives up.
AuthFails(c) ==
  /\ phase[c] = "connecting" /\ ~paired
  /\ Forget(c)
  /\ IF agentConn = c
     THEN agentConn' = NoConn /\ gaveUp' = TRUE
     ELSE UNCHANGED agentVars
  /\ UNCHANGED <<dbVars, nodeVars, quiet, heldAgo>>

\* No first frame within 10 s, or a disconnect instead of it.
FirstFrameLost(c) ==
  /\ phase[c] = "connecting" /\ sock[c] # "up"
  /\ Forget(c)
  /\ UNCHANGED <<dbVars, nodeVars, agentVars, quiet, heldAgo>>

Register(c) ==
  /\ phase[c] = "registering"
  /\ EnterRegister(c)

RegisterAfterClose(c) ==
  /\ phase[c] = "superseding"
  /\ Registered(c)
  /\ UNCHANGED <<paired, known, beat, at, sock, halfFor, agentVars, quiet>>

\* auth_ok goes out, or is lost without an error on a socket that is gone.
Ack(c) ==
  /\ phase[c] = "acking"
  /\ phase' = [phase EXCEPT ![c] = "serving"]
  /\ UNCHANGED <<dbVars, nodeVars, at, published, sock, halfFor, agentVars, quiet, heldAgo>>

\* list_node_endpoints or send_json raises: ws_agent unregisters and returns, which
\* closes a socket that is still open; the finally clause that clears the presence
\* row is never entered.
AckFails(c) ==
  /\ phase[c] = "acking"
  /\ phase' = [phase EXCEPT ![c] = "ending"]
  /\ published' = [published EXCEPT ![c] = FALSE]
  /\ quiet' = IF sock[c] = "up" THEN 0 ELSE quiet
  /\ UNCHANGED <<dbVars, nodeVars, at, sock, halfFor, agentVars, heldAgo>>

\* The receive loop ends: a close arrived, or the pings went unanswered.
NoticeDisconnect(c) ==
  /\ phase[c] = "serving" /\ sock[c] # "up"
  /\ phase' = [phase EXCEPT ![c] = "ending"]
  /\ sock' = [sock EXCEPT ![c] = "down"]
  /\ UNCHANGED <<dbVars, nodeVars, at, published, halfFor, agentVars, quiet, heldAgo>>

\* Mutant of Unregister: `if cur is conn` forgotten.
UnregisterAnyone(c) ==
  LET n == at[c] IN
  /\ phase[c] = "ending" /\ lock[n] = NoConn
  /\ conns' = [conns EXCEPT ![n] = NoConn]
  /\ IF published[c] THEN ClearRow({n}) ELSE UNCHANGED <<row, age>>
  /\ Forget(c)
  /\ agentConn' = IF agentConn = c THEN NoConn ELSE agentConn
  /\ UNCHANGED <<paired, lock, known, beat, gaveUp, quiet, heldAgo>>

\* Registry.unregister, then clear_device_presence (WHERE node_url is ours).
Unregister(c) ==
  LET n == at[c] IN
  /\ phase[c] = "ending" /\ lock[n] = NoConn
  /\ conns' = [conns EXCEPT ![n] = IF @ = c THEN NoConn ELSE @]
  /\ IF published[c] THEN ClearRow({n}) ELSE UNCHANGED <<row, age>>
  /\ Forget(c)
  /\ agentConn' = IF agentConn = c THEN NoConn ELSE agentConn
  /\ UNCHANGED <<paired, lock, known, beat, gaveUp, quiet, heldAgo>>

-----------------------------------------------------------------------------
(* The world outside *)

\* The agent loses its connection; the hub hears of it or does not.  It will
\* reconnect, to this node or another (run_forever).
AgentDrops ==
  /\ agentConn # NoConn
  /\ \E s \in {"half", "down"} :
       sock' = [sock EXCEPT ![agentConn] = IF @ = "up" THEN s ELSE @]
  /\ agentConn' = NoConn
  /\ quiet' = 0
  /\ UNCHANGED <<dbVars, nodeVars, phase, at, published, halfFor, gaveUp, heldAgo>>

\* The node's process dies and is started again: its memory is gone, no
\* finally clause has run, and its URL may not be known yet.
Crash(n) ==
  LET mine == {c \in Conn : at[c] = n} IN
  /\ mine # {}
  /\ conns' = [conns EXCEPT ![n] = NoConn]
  /\ lock' = [lock EXCEPT ![n] = NoConn]
  /\ \E b \in BOOLEAN : known' = [known EXCEPT ![n] = b]
  /\ phase' = [c \in Conn |-> IF c \in mine THEN "free" ELSE phase[c]]
  /\ at' = [c \in Conn |-> IF c \in mine THEN NoNode ELSE at[c]]
  /\ published' = [c \in Conn |-> published[c] /\ c \notin mine]
  /\ sock' = [c \in Conn |-> IF c \in mine THEN "down" ELSE sock[c]]
  /\ halfFor' = [c \in Conn |-> IF c \in mine THEN 0 ELSE halfFor[c]]
  /\ agentConn' = IF agentConn \in mine THEN NoConn ELSE agentConn
  /\ quiet' = 0
  /\ UNCHANGED <<dbVars, beat, gaveUp, heldAgo>>

\* A request or the launcher's file tells the node its public URL.
LearnUrl(n) ==
  /\ ~known[n]
  /\ known' = [known EXCEPT ![n] = TRUE]
  /\ quiet' = 0
  /\ UNCHANGED <<dbVars, conns, lock, beat, connVars, agentVars, heldAgo>>

\* device_delete on node n: the row goes (and its references with it), then the
\* connection in this node's registry is closed with 4001, which ends the agent.
DeviceDelete(n) ==
  /\ paired
  /\ paired' = FALSE
  /\ IF ForeignKeys THEN ClearRow(Node) ELSE UNCHANGED <<row, age>>
  /\ sock' = [c \in Conn |-> IF c = conns[n] THEN "down" ELSE sock[c]]
  /\ IF agentConn # NoConn /\ agentConn = conns[n]
     THEN gaveUp' = TRUE /\ agentConn' = NoConn
     ELSE UNCHANGED agentVars
  /\ quiet' = 0
  /\ UNCHANGED <<nodeVars, phase, at, published, halfFor, heldAgo>>

-----------------------------------------------------------------------------
(* Time *)

\* Mutant of Heartbeat: it refreshes the row that names this node, held or not.
HeartbeatRow(n) ==
  /\ ~beat[n]
  /\ beat' = [beat EXCEPT ![n] = TRUE]
  /\ IF row = n \/ conns[n] # NoConn THEN Publish(n) ELSE UNCHANGED <<row, age>>
  /\ UNCHANGED <<paired, conns, lock, known, connVars, agentVars, quiet, heldAgo>>

\* Mutant of Heartbeat: the node endpoint only.
HeartbeatEndpointOnly(n) ==
  /\ ~beat[n]
  /\ beat' = [beat EXCEPT ![n] = TRUE]
  /\ UNCHANGED <<dbVars, conns, lock, known, connVars, agentVars, quiet, heldAgo>>

Heartbeat(n) ==
  /\ ~beat[n]
  /\ beat' = [beat EXCEPT ![n] = TRUE]
  /\ IF conns[n] # NoConn THEN Publish(n) ELSE UNCHANGED <<row, age>>
  /\ UNCHANGED <<paired, conns, lock, known, connVars, agentVars, quiet, heldAgo>>

\* A period ends: each heartbeat has run and no hub has work of its own left.
Tick ==
  /\ \A n \in Node : beat[n]
  /\ \A c \in Conn : \/ phase[c] = "free"
                     \/ phase[c] = "serving" /\ sock[c] = "up"
                     \/ phase[c] = "serving" /\ sock[c] = "half" /\ halfFor[c] < DetectTicks
  /\ beat' = [n \in Node |-> FALSE]
  /\ age' = IF row = NoNode THEN 0 ELSE Capped(age, MaxAge + 1)
  /\ halfFor' = [c \in Conn |-> IF sock[c] = "half" THEN halfFor[c] + 1 ELSE 0]
  /\ quiet' = Capped(quiet, MaxQuiet)
  /\ heldAgo' = [n \in Node |-> IF conns[n] # NoConn THEN 0
                                ELSE Capped(heldAgo[n], MaxAge + 1)]
  /\ UNCHANGED <<paired, row, conns, lock, known, phase, at, published, sock, agentVars>>

-----------------------------------------------------------------------------

HubStep(c) ==
  \/ Authenticate(c) \/ AuthFails(c) \/ FirstFrameLost(c)
  \/ Register(c) \/ RegisterAfterClose(c)
  \/ Ack(c) \/ AckFails(c) \/ Unregister(c)

Next ==
  \/ \E c \in Conn : HubStep(c) \/ NoticeDisconnect(c)
  \/ \E c \in Conn, n \in Node : Connect(c, n)
  \/ \E n \in Node : Heartbeat(n) \/ LearnUrl(n) \/ Crash(n) \/ DeviceDelete(n)
  \/ AgentDrops
  \/ Tick

Spec == Init /\ [][Next]_vars

-----------------------------------------------------------------------------
(* The relay middleware *)

\* get_device_presence
FreshRow == IF row # NoNode /\ age <= MaxAge THEN row ELSE NoNode

\* _cross_node_relay: the node that handles a request arriving at n.  The hop
\* guard makes the second node answer for itself.
Route(n) ==
  IF conns[n] # NoConn \/ FreshRow \in {NoNode, n} THEN n ELSE FreshRow

-----------------------------------------------------------------------------
(* Properties *)

\* The type invariant of the nodes' registries, the presence row and the connections.
TypeOK ==
  /\ paired \in BOOLEAN /\ row \in Node \cup {NoNode} /\ age \in 0..(MaxAge + 1)
  /\ conns \in [Node -> Conn \cup {NoConn}]
  /\ lock \in [Node -> Conn \cup {NoConn}]
  /\ known \in [Node -> BOOLEAN] /\ beat \in [Node -> BOOLEAN]
  /\ phase \in [Conn -> Phase] /\ at \in [Conn -> Node \cup {NoNode}]
  /\ published \in [Conn -> BOOLEAN]
  /\ sock \in [Conn -> {"up", "half", "down"}]
  /\ halfFor \in [Conn -> Nat]
  /\ agentConn \in Conn \cup {NoConn} /\ gaveUp \in BOOLEAN
  /\ quiet \in 0..MaxQuiet
  /\ heldAgo \in [Node -> 0..(MaxAge + 1)]

\* A connection that ws_agent is serving on a socket nobody closed is the one
\* Registry.get returns: the clean-up of the connection it replaced, which runs
\* later, does not take it out of the registry.
LiveIsRegistered ==
  \A c \in Conn : phase[c] \in {"acking", "serving"} /\ sock[c] # "down"
                    => conns[at[c]] = c

\* The presence row never outlives its truth: a row of some age names a node
\* that held the device's connection at most that long ago.  A fresh row, the
\* only kind the relay follows, is never more than max_age behind, whatever
\* crashed, was superseded, or failed before its clean-up.
FreshRowIsRecent ==
  row # NoNode => heldAgo[row] <= age

\* Once the agent has stayed connected to a node with a known URL for long
\* enough for stale half-open connections elsewhere to be noticed and for one
\* heartbeat, a request that arrives at any node reaches that connection,
\* although older connections fought over the row and cleared it on their way out.
ControlFromAnyNode ==
  agentConn # NoConn /\ paired /\ known[at[agentConn]] /\ quiet = MaxQuiet
    => \A n \in Node : conns[Route(n)] = agentConn

\* "Boot any active connection so the agent gives up cleanly" (device_delete).
UnpairedIsBooted ==
  ~paired => \A c \in Conn : phase[c] = "serving" => sock[c] # "up"

=============================================================================
