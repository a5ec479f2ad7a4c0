----------------------------- MODULE Enrolment -----------------------------
(***************************************************************************)
(* How a device joins an account and finds a node to serve from: pairing   *)
(* codes and account tokens (src/hub/db.py), the enrolment routes and the  *)
(* authentication of /ws/agent (src/hub/app.py), the agent's credential    *)
(* file (src/agent/pairing.py) and its connection loop (src/agent/agent.py).*)
(*                                                                         *)
(* Nodes share one database.  Some read it through an embedded replica:    *)
(* they write to the primary and read a local file, which db.sync() brings *)
(* up to date from time to time; whether the file shows what the node      *)
(* itself wrote before the next pull is left open.  A node without replica *)
(* that starts while the database is out of reach runs on a local one that *)
(* knows no device, and refuses everyone.  (A replica that starts then     *)
(* would run on its file as a database of its own: left out.)              *)
(* The enrolment routes run on a node's event loop and call the database   *)
(* without awaiting, so two of them interleave only on different nodes;    *)
(* the routes of the browser run in threads and interleave with everything.*)
(* Every SQL statement commits by itself.                                  *)
(*                                                                         *)
(* Left open: whether a code has expired, each time a node compares its    *)
(* own clock with the row, so that nothing depends on ten minutes being    *)
(* long; whether an account token is still valid; and the order in which a *)
(* round tries the nodes the agent knows.                                  *)
(***************************************************************************)
EXTENDS Naturals, FiniteSets

CONSTANTS
  Node, Agent, User,
  Replica,              \* the nodes that read an embedded replica
  Code,                 \* the six-digit codes
  MaxIssues,            \* bound: codes issued
  MaxPages,             \* bound: requests for a code of one user under way
  MaxDevices,           \* bound: devices created
  Loop,                 \* bound: the agents followed beyond their pairing
  Beside,               \* bound: the nodes that run on an agent's machine
  Isolated,             \* bound: the nodes that may start without the database
  NoRow, NoCfg, NoNode

Device == 1..MaxDevices
Issue == 1..MaxIssues

\* A row of pairing_codes, and what config.json says.
Row == [user : User, issue : Issue, used : BOOLEAN]
Cfg == [dev : Device, hub : Node, nodes : SUBSET Node]

ASSUME EnrolmentAssumption ==
  /\ MaxIssues \in Nat /\ MaxDevices \in Nat /\ MaxPages \in Nat
  /\ NoNode \notin Node /\ Loop \subseteq Agent
  /\ Beside \subseteq Node /\ Replica \subseteq Node /\ Isolated \subseteq Node \ Replica
  /\ NoRow \notin Code /\ NoRow \notin Row /\ NoCfg \notin Cfg

VARIABLES
  node,    \* node[n]: "shared" database, local "fallback", or "down"
  pulled,  \* pulled[n]: the devices that the file of the replica n shows
  dev,     \* dev[d]: the device row
  by,      \* by[d]: the issue of the code that made it, 0 for no code
  code,    \* code[c]: the row of pairing_codes
  issues,  \* codes issued so far
  issued,  \* the codes that have ever been in the table
  pages,   \* pages[u]: requests of u for a code, between their two statements
  req,     \* req[g]: the enrolment request of agent g, at its node
  pc,      \* pc[g]: where the agent is
  file,    \* file[g]: its config.json
  mem,     \* mem[g]: the configuration it runs with
  todo,    \* todo[g]: the nodes still to try in this round
  at       \* at[g]: the node it serves

codeVars == <<code, issues, issued, pages>>
hubVars == <<node, pulled, dev, by, codeVars>>
agentVars == <<req, pc, file, mem, todo, at>>
vars == <<hubVars, agentVars>>

Paired == {d \in Device : dev[d] = "live"}

\* The devices that a SELECT finds on node n.
Shown(n) == IF n \in Replica THEN pulled[n] ELSE Paired

\* The code may be found unused on node n: a file may still show one that was
\* redeemed or purged at the primary.
Found(c, n) ==
  \/ code[c] # NoRow /\ ~code[c].used
  \/ n \in Replica /\ c \in issued

NoReq == [pc |-> "none", node |-> NoNode, code |-> NoRow, issue |-> 0, dev |-> 0]
Running == {"round", "serve", "sleep"}

Init ==
  /\ node = [n \in Node |-> "shared"]
  /\ dev = [d \in Device |-> "free"]
  /\ by = [d \in Device |-> 0]
  /\ code = [c \in Code |-> NoRow]
  /\ issues = 0 /\ issued = {}
  /\ pages = [u \in User |-> 0]
  /\ pulled = [n \in Replica |-> Paired]
  /\ req = [g \in Agent |-> NoReq]
  /\ pc = [g \in Agent |-> "off"]
  /\ file = [g \in Agent |-> NoCfg]
  /\ mem = [g \in Agent |-> NoCfg]
  /\ todo = [g \in Agent |-> {}]
  /\ at = [g \in Agent |-> NoNode]

---------------------------------------------------------------------------
(* The account's pages: codes and devices.                                 *)

\* create_pairing_code, the DELETE: expired rows and the user's unused ones go.
PurgeCodes(u) ==
  /\ pages[u] < MaxPages /\ issues < MaxIssues
  /\ pages' = [pages EXCEPT ![u] = @ + 1]
  /\ \E expired \in SUBSET Code :
       code' = [c \in Code |->
                 IF code[c] # NoRow
                    /\ (c \in expired \/ (code[c].user = u /\ ~code[c].used))
                 THEN NoRow ELSE code[c]]
  /\ UNCHANGED <<node, pulled, dev, by, issues, issued, agentVars>>

\* ... and the INSERT of a code that is not in the table.
InsertCode(u, c) ==
  /\ pages[u] > 0 /\ issues < MaxIssues /\ code[c] = NoRow
  /\ pages' = [pages EXCEPT ![u] = @ - 1]
  /\ issues' = issues + 1
  /\ issued' = issued \cup {c}
  /\ code' = [code EXCEPT ![c] = [user |-> u, issue |-> issues', used |-> FALSE]]
  /\ UNCHANGED <<node, pulled, dev, by, agentVars>>

\* The INSERT fails (the code is in the table, the primary does not answer), or
\* the node stops before it.
InsertCodeFails(u) ==
  /\ pages[u] > 0
  /\ pages' = [pages EXCEPT ![u] = @ - 1]
  /\ UNCHANGED <<node, pulled, dev, by, code, issues, issued, agentVars>>

\* create_device under the next id (uuid4: never one that was used).
NewDevice(d) == dev[d] = "free" /\ \A e \in 1..(d - 1) : dev[e] # "free"

Insert(d, issue) ==
  /\ NewDevice(d)
  /\ dev' = [dev EXCEPT ![d] = "live"]
  /\ by' = [by EXCEPT ![d] = issue]

Config(d, n, nodes) == [dev |-> d, hub |-> n, nodes |-> nodes]

\* self_register_post on the node that shares the agent's machine: a new
\* device each time, and its credentials over whatever the file held.
SelfRegister(n, g) ==
  /\ node[n] = "shared" /\ n \in Beside
  /\ \E d \in Device :
       /\ Insert(d, 0)
       /\ file' = [file EXCEPT ![g] = Config(d, n, {})]
  /\ UNCHANGED <<node, pulled, codeVars, req, pc, mem, todo, at>>

\* device_delete on node n: it closes the connection only if it holds it.
DeleteDevice(d, n) ==
  /\ dev[d] = "live" /\ node[n] = "shared"
  /\ dev' = [dev EXCEPT ![d] = "deleted"]
  /\ LET booted == {g \in Agent : at[g] = n /\ mem[g].dev = d}
     IN  /\ pc' = [g \in Agent |-> IF g \in booted THEN "exit" ELSE pc[g]]
         /\ at' = [g \in Agent |-> IF g \in booted THEN NoNode ELSE at[g]]
         /\ mem' = [g \in Agent |-> IF g \in booted THEN NoCfg ELSE mem[g]]
         /\ todo' = [g \in Agent |-> IF g \in booted THEN {} ELSE todo[g]]
  /\ UNCHANGED <<node, pulled, by, codeVars, req, file>>

---------------------------------------------------------------------------
(* The agent asks to be enrolled.                                          *)

Enrolling(g) == pc[g] = "off" /\ file[g] = NoCfg

\* pair_now with a code the operator typed, right or wrong.
PairNow(g, n, c) ==
  /\ Enrolling(g)
  /\ pc' = [pc EXCEPT ![g] = "post"]
  /\ req' = [req EXCEPT ![g] = [NoReq EXCEPT !.pc = "select", !.node = n,
                                             !.code = c]]
  /\ UNCHANGED <<hubVars, file, mem, todo, at>>

\* enroll_now with the account token.
EnrollNow(g, n) ==
  /\ Enrolling(g)
  /\ pc' = [pc EXCEPT ![g] = "post"]
  /\ req' = [req EXCEPT ![g] = [NoReq EXCEPT !.pc = "token", !.node = n]]
  /\ UNCHANGED <<hubVars, file, mem, todo, at>>

\* wait_for_config: until the browser's self-registration drops the file.
WaitForConfig(g) ==
  /\ Enrolling(g)
  /\ pc' = [pc EXCEPT ![g] = "wait"]
  /\ UNCHANGED <<hubVars, req, file, mem, todo, at>>

\* The request ends without a configuration: the process ends.
Refuse(g) ==
  /\ req' = [req EXCEPT ![g] = NoReq]
  /\ pc' = [pc EXCEPT ![g] = "off"]

\* The node of the request does not answer, a statement of it raises, or the
\* answer is lost.
RequestLost(g) ==
  /\ req[g].pc # "none"
  /\ Refuse(g)
  /\ UNCHANGED <<hubVars, file, mem, todo, at>>

\* A handler that has begun holds its node's event loop.
LoopFree(g) ==
  /\ node[req[g].node] # "down"
  /\ \A h \in Agent \ {g} :
       req[h].node = req[g].node => req[h].pc \notin {"update", "insert"}

\* consume_pairing_code, the SELECT: an unused code that has not expired.  A
\* fallback database has no codes.
Select(g) ==
  LET n == req[g].node
  IN  /\ req[g].pc = "select" /\ LoopFree(g)
      /\ \/ /\ node[n] = "shared" /\ Found(req[g].code, n)
            /\ req' = [req EXCEPT ![g].pc = "update"]
            /\ pc' = pc
         \/ Refuse(g)
      /\ UNCHANGED <<hubVars, file, mem, todo, at>>

\* The row of the code is marked.
Mark(g) ==
  LET row == code[req[g].code]
  IN  /\ code' = [code EXCEPT ![req[g].code].used = TRUE]
      /\ req' = [req EXCEPT ![g].pc = "insert", ![g].issue = row.issue]
      /\ pc' = pc

\* Mutant: the UPDATE marks a row whether it is used or not.
UpdateUnchecked(g) ==
  /\ req[g].pc = "update"
  /\ \/ code[req[g].code] # NoRow /\ Mark(g)
     \/ code[req[g].code] = NoRow /\ code' = code /\ Refuse(g)
  /\ UNCHANGED <<node, pulled, dev, by, issues, issued, pages, file, mem, todo, at>>

\* ... and the UPDATE, which must change an unused row: the one that the table
\* holds now, which may have expired, or have been issued since the SELECT.
Update(g) ==
  LET row == code[req[g].code]
      hit == row # NoRow /\ ~row.used
  IN  /\ req[g].pc = "update"
      /\ (hit /\ Mark(g)) \/ (~hit /\ code' = code /\ Refuse(g))
      /\ UNCHANGED <<node, pulled, dev, by, issues, issued, pages, file, mem, todo, at>>

\* account_token_user of api_enroll.  A fallback database has no tokens.
CheckToken(g) ==
  /\ req[g].pc = "token" /\ LoopFree(g)
  /\ \/ /\ node[req[g].node] = "shared"
        /\ req' = [req EXCEPT ![g].pc = "insert"]
        /\ pc' = pc
     \/ Refuse(g)
  /\ UNCHANGED <<hubVars, file, mem, todo, at>>

\* create_device, and the answer.
CreateDevice(g) ==
  /\ req[g].pc = "insert"
  /\ \E d \in Device :
       /\ Insert(d, req[g].issue)
       /\ req' = [req EXCEPT ![g].pc = "reply", ![g].dev = d]
  /\ UNCHANGED <<node, pulled, codeVars, pc, file, mem, todo, at>>

\* _live_node_urls: the nodes with a heartbeat in the last three minutes.  One
\* that has stopped may still be listed; one that has just started, or has no
\* address to publish, is not.
LiveNodes == SUBSET Node

\* Mutant: only the node of the last session is tried.
CandidatesLastOnly(cfg) == {cfg.hub}

\* _candidate_urls.
Candidates(cfg) == {cfg.hub} \cup cfg.nodes

\* The agent has a configuration and enters run_forever.
Run(g, cfg) ==
  /\ mem' = [mem EXCEPT ![g] = cfg]
  /\ todo' = [todo EXCEPT ![g] = Candidates(cfg)]
  /\ pc' = [pc EXCEPT ![g] = "round"]

\* The answer arrives: the file is written before anything else.  A pairing
\* code names one node; an account token brings a list of nodes.
Enrolled(g) ==
  LET r == req[g]
  IN  /\ r.pc = "reply"
      /\ \E nodes \in IF r.code = NoRow THEN {{r.node} \cup l : l \in LiveNodes}
                                        ELSE {{}} :
           LET cfg == Config(r.dev, r.node, nodes)
           IN  file' = [file EXCEPT ![g] = cfg] /\ Run(g, cfg)
      /\ req' = [req EXCEPT ![g] = NoReq]
      /\ UNCHANGED <<hubVars, at>>

---------------------------------------------------------------------------
(* The agent's process.                                                    *)

\* Mutant: the loop starts without the file having been read.
LoadNothing(g) ==
  /\ pc[g] \in {"off", "wait"} /\ file[g] # NoCfg
  /\ pc' = [pc EXCEPT ![g] = "round"]
  /\ UNCHANGED <<hubVars, req, file, mem, todo, at>>

\* ensure_paired with a file, at start or while waiting for one.
LoadConfig(g) ==
  /\ pc[g] \in {"off", "wait"} /\ file[g] # NoCfg
  /\ Run(g, file[g])
  /\ UNCHANGED <<hubVars, req, file, at>>

\* _connect_once: the node is out of reach, and the round goes on.
Unreachable(g, n) ==
  /\ pc[g] = "round" /\ n \in todo[g] /\ node[n] = "down"
  /\ todo' = [todo EXCEPT ![g] = @ \ {n}]
  /\ UNCHANGED <<hubVars, req, pc, file, mem, at>>

\* auth_ok: the node and the nodes it lists are merged, and saved if new.
AuthOk(g, n) ==
  /\ pc[g] = "round" /\ n \in todo[g]
  /\ node[n] = "shared" /\ mem[g].dev \in Shown(n)
  /\ \E listed \in LiveNodes :
       LET cfg == [mem[g] EXCEPT !.hub = n, !.nodes = {n} \cup listed \cup @]
       IN  /\ mem' = [mem EXCEPT ![g] = cfg]
           /\ file' = [file EXCEPT ![g] = IF cfg # mem[g] THEN cfg ELSE @]
  /\ pc' = [pc EXCEPT ![g] = "serve"]
  /\ at' = [at EXCEPT ![g] = n]
  /\ todo' = [todo EXCEPT ![g] = @ \ {n}]
  /\ UNCHANGED <<hubVars, req>>

\* run_forever returns, and the process ends; the file stays.
GiveUp(g) ==
  /\ pc' = [pc EXCEPT ![g] = "exit"]
  /\ mem' = [mem EXCEPT ![g] = NoCfg]
  /\ todo' = [todo EXCEPT ![g] = {}]
  /\ at' = [at EXCEPT ![g] = NoNode]
  /\ UNCHANGED <<hubVars, req, file>>

\* "invalid credentials".
AuthFatal(g, n) ==
  /\ pc[g] = "round" /\ n \in todo[g]
  /\ \/ node[n] = "shared" /\ mem[g].dev \notin Shown(n)
     \/ node[n] = "fallback"
  /\ GiveUp(g)

\* Mutant: an orderly close is taken for a refusal.
CloseIsFatal(g) == pc[g] = "serve" /\ GiveUp(g)

\* The node closes the connection in order: a new round begins.
ServeEnds(g) ==
  /\ pc[g] = "serve"
  /\ Run(g, mem[g])
  /\ at' = [at EXCEPT ![g] = NoNode]
  /\ UNCHANGED <<hubVars, req, file>>

\* The connection breaks: the round goes on where it was.
ServeBreaks(g) ==
  /\ pc[g] = "serve"
  /\ pc' = [pc EXCEPT ![g] = "round"]
  /\ at' = [at EXCEPT ![g] = NoNode]
  /\ UNCHANGED <<hubVars, req, file, mem, todo>>

\* All candidates failed: sleep, then a new round.
Backoff(g) ==
  /\ pc[g] = "round" /\ todo[g] = {}
  /\ pc' = [pc EXCEPT ![g] = "sleep"]
  /\ UNCHANGED <<hubVars, req, file, mem, todo, at>>

Wake(g) ==
  /\ pc[g] = "sleep"
  /\ Run(g, mem[g])
  /\ UNCHANGED <<hubVars, req, file, at>>

\* The process is stopped, or has exited; with VORTEX_RESET the next start
\* begins without the file.
Stop(g, reset) ==
  /\ pc[g] \in Running \cup {"wait", "exit"}
  /\ pc' = [pc EXCEPT ![g] = "off"]
  /\ mem' = [mem EXCEPT ![g] = NoCfg]
  /\ todo' = [todo EXCEPT ![g] = {}]
  /\ at' = [at EXCEPT ![g] = NoNode]
  /\ file' = [file EXCEPT ![g] = IF reset THEN NoCfg ELSE @]
  /\ UNCHANGED <<hubVars, req>>

---------------------------------------------------------------------------
(* Nodes stop, with their handlers and connections, and start again.       *)

NodeStops(n) ==
  LET lost == {g \in Agent : req[g].pc # "none" /\ req[g].node = n}
      cut == {g \in Agent : at[g] = n}
  IN  /\ node[n] # "down"
      /\ node' = [node EXCEPT ![n] = "down"]
      /\ req' = [g \in Agent |-> IF g \in lost THEN NoReq ELSE req[g]]
      /\ pc' = [g \in Agent |-> CASE g \in lost -> "off"
                                  [] g \in cut -> "round"
                                  [] OTHER -> pc[g]]
      /\ at' = [g \in Agent |-> IF g \in cut THEN NoNode ELSE at[g]]
      /\ UNCHANGED <<pulled, dev, by, codeVars, file, mem, todo>>

\* db.init: the shared database, or the local one if it cannot be reached.  A
\* replica pulls first.
NodeStarts(n) ==
  /\ node[n] = "down"
  /\ \E mode \in {"shared"} \cup (IF n \in Isolated THEN {"fallback"} ELSE {}) :
       node' = [node EXCEPT ![n] = mode]
  /\ pulled' = [r \in Replica |-> IF r = n THEN Paired ELSE pulled[r]]
  /\ UNCHANGED <<dev, by, codeVars, agentVars>>

\* db.sync() of _db_sync_loop.
Sync(n) ==
  /\ n \in Replica /\ node[n] # "down"
  /\ pulled' = [pulled EXCEPT ![n] = Paired]
  /\ UNCHANGED <<node, dev, by, codeVars, agentVars>>

---------------------------------------------------------------------------
Next ==
  \/ \E u \in User : \/ PurgeCodes(u) \/ InsertCodeFails(u)
                    \/ \E c \in Code : InsertCode(u, c)
  \/ \E d \in Device, n \in Node : DeleteDevice(d, n)
  \/ \E n \in Node : NodeStops(n) \/ NodeStarts(n) \/ Sync(n)
  \/ \E g \in Agent :
       \/ \E n \in Node, c \in Code : PairNow(g, n, c)
       \/ RequestLost(g) \/ Select(g) \/ Update(g) \/ CreateDevice(g) \/ Enrolled(g)
  \/ \E g \in Loop :
       \/ \E n \in Node : Unreachable(g, n) \/ AuthOk(g, n) \/ AuthFatal(g, n)
                            \/ SelfRegister(n, g) \/ EnrollNow(g, n)
       \/ CheckToken(g) \/ WaitForConfig(g) \/ LoadConfig(g)
       \/ ServeEnds(g) \/ ServeBreaks(g) \/ Backoff(g) \/ Wake(g)
       \/ \E reset \in BOOLEAN : Stop(g, reset)

Spec == Init /\ [][Next]_vars

\* A running agent keeps trying: connects time out, and its sleeps end.
FairSpec ==
  /\ Spec
  /\ \A g \in Loop :
       WF_vars(\/ \E n \in Node : Unreachable(g, n) \/ AuthOk(g, n) \/ AuthFatal(g, n)
               \/ Backoff(g) \/ Wake(g))

---------------------------------------------------------------------------
(* Properties.                                                             *)

\* Every piece of state stays within its type, and an agent in its loop has
\* a configuration.
TypeOK ==
  /\ pulled \in [Replica -> SUBSET Device]
  /\ node \in [Node -> {"shared", "fallback", "down"}]
  /\ dev \in [Device -> {"free", "live", "deleted"}]
  /\ by \in [Device -> 0..MaxIssues]
  /\ code \in [Code -> Row \cup {NoRow}]
  /\ issues \in 0..MaxIssues
  /\ issued \subseteq Code
  /\ pages \in [User -> 0..MaxPages]
  /\ req \in [Agent -> [pc : {"none", "select", "update", "token", "insert", "reply"},
                        node : Node \cup {NoNode}, code : Code \cup {NoRow},
                        issue : 0..MaxIssues, dev : 0..MaxDevices]]
  /\ pc \in [Agent -> Running \cup {"off", "post", "wait", "exit"}]
  /\ file \in [Agent -> Cfg \cup {NoCfg}]
  /\ mem \in [Agent -> Cfg \cup {NoCfg}]
  /\ todo \in [Agent -> SUBSET Node]
  /\ at \in [Agent -> Node \cup {NoNode}]
  /\ \A g \in Agent : pc[g] \in Running => mem[g] # NoCfg

\* The nodes an agent knows, whatever its loop makes of them.
Known(g) == {mem[g].hub} \cup mem[g].nodes

\* The devices in the order they were created, with the issue of their code.
Joined == {d \in Device : dev[d] # "free"}
Ledger == INSTANCE PairingLedger WITH
            given <- issues,
            ledger <- [d \in 1..Cardinality(Joined) |-> by[d]]

\* Enrolment implements the ledger: a code that was issued makes at most one
\* device, though two agents may present it at two nodes at once, one of them
\* with a file that still shows it unused, and though it may expire, be purged
\* and its digits be issued again between the two statements of
\* consume_pairing_code (the device is then entered with the issue that the
\* UPDATE marks, not with the one that was read).  Deleting a device, failing
\* statements, crashes and lost answers redeem nothing twice.
CodesAreRedeemedOnce == Ledger!Spec

\* The device of agent g is unpaired, or a node that g knows does not show it:
\* the node runs on its own local database, or its replica was last pulled
\* before the device joined.
MayGiveUp(g) ==
  \/ dev'[mem[g].dev] # "live"
  \/ \E n \in Known(g) :
       node[n] = "fallback" \/ (n \in Replica /\ mem[g].dev \notin pulled[n])

\* An agent gives up for good only then: no order of stops, restarts, refused
\* codes, lost connections and newly learnt nodes does it (run_forever, ws_agent).
FatalExitIsExplained ==
  [][\A g \in Agent : pc[g] # "exit" /\ pc'[g] = "exit" => MayGiveUp(g)]_vars

\* If a node the agent knows stays up on the shared database for ever while
\* the agent runs, the agent serves again and again: no other node, down or
\* restarting, keeps it from getting there (run_forever).
FailoverWorks ==
  \A g \in Loop, n \in Node :
    <>[](pc[g] \in Running /\ n \in Known(g) /\ node[n] = "shared")
      => []<>(pc[g] = "serve")
=============================================================================
