-------------------------- MODULE EnrolmentProofs --------------------------
(***************************************************************************)
(* Enrolment implements PairingLedger, and an agent gives up only for a    *)
(* known reason, for any number of nodes, agents, users, codes and devices.*)
(***************************************************************************)
EXTENDS Enrolment, TLAPS, FiniteSetTheorems, SequenceTheorems

\* A request is under way while its agent waits for the answer, and an agent
\* has a node while it serves.
AgentIsWhere ==
  \A g \in Agent :
    /\ pc[g] = "post" <=> req[g].pc # "none"
    /\ pc[g] = "serve" <=> at[g] \in Node

\* A request has its node; it presents a code or the token, and has an issue
\* once it has marked the row; the answer names a device.
RequestIsWhole ==
  \A g \in Agent :
    /\ req[g].pc # "none" => req[g].node \in Node
    /\ req[g].pc \in {"select", "update"} => req[g].code \in Code
    /\ req[g].pc \in {"select", "update", "token"} => req[g].issue = 0
    /\ req[g].issue \in 0..issues
    /\ req[g].pc = "reply" => req[g].dev \in Device

Own(cfg) == cfg.nodes = {} \/ cfg.hub \in cfg.nodes

\* A configuration lists its own node as soon as it lists any.
ConfigIsOwn ==
  \A g \in Agent : /\ file[g] # NoCfg => Own(file[g])
                   /\ mem[g] # NoCfg => Own(mem[g])

\* A round tries nodes that the agent knows.
RoundIsKnown ==
  \A g \in Agent : pc[g] \in Running => todo[g] \subseteq Known(g)

\* Devices are made in the order of their ids, with codes that were issued.
DevicesInOrder ==
  \A d \in Device :
    /\ by[d] \in 0..issues
    /\ dev[d] = "free" => by[d] = 0
    /\ dev[d] # "free" => \A e \in 1..(d - 1) : dev[e] # "free"

\* A row carries an issue that was given, and no other row does.
RowsDiffer ==
  /\ \A c \in Code : code[c] # NoRow => code[c].issue \in 1..issues
  /\ \A b, c \in Code :
       code[b] # NoRow /\ code[c] # NoRow /\ code[b].issue = code[c].issue => b = c

\* The issue i has made a device, or is about to.
Spent(i) == (\E d \in Device : by[d] = i)
              \/ (\E g \in Agent : req[g].pc = "insert" /\ req[g].issue = i)

\* A row that can be redeemed is of an issue that was not.
UnusedIsUnspent == \A c \in Code : code[c] # NoRow /\ ~code[c].used => ~Spent(code[c].issue)

\* Two requests never redeem one issue, and none redeems what made a device.
InsertsOnce ==
  \A g \in Agent : req[g].pc = "insert" /\ req[g].issue > 0 =>
    /\ \A h \in Agent : req[h].pc = "insert" /\ req[h].issue = req[g].issue => g = h
    /\ \A d \in Device : by[d] # req[g].issue

IInv == TypeOK /\ AgentIsWhere /\ RequestIsWhole /\ ConfigIsOwn /\ RoundIsKnown
          /\ DevicesInOrder /\ RowsDiffer /\ UnusedIsUnspent /\ InsertsOnce

\* In the beginning there are no codes, no devices and no configurations.
LEMMA InitIInv == Init => IInv
<1> SUFFICES ASSUME Init PROVE IInv
  OBVIOUS
<1> USE EnrolmentAssumption DEF Init
<1>1. TypeOK
  BY DEF TypeOK, NoReq, Running, Device, Paired
<1>2. AgentIsWhere /\ RequestIsWhole /\ ConfigIsOwn /\ RoundIsKnown
  BY DEF AgentIsWhere, RequestIsWhole, ConfigIsOwn, RoundIsKnown, NoReq, Running
<1>3. DevicesInOrder /\ RowsDiffer /\ UnusedIsUnspent /\ InsertsOnce
  BY DEF DevicesInOrder, RowsDiffer, UnusedIsUnspent, InsertsOnce, NoReq
<1>4. QED
  BY <1>1, <1>2, <1>3 DEF IInv

\* The ledger's part of the invariant is about the database and the requests.
LEMMA LedgerUnchanged ==
  ASSUME IInv, UNCHANGED <<dev, by, code, issues, req>>
  PROVE  /\ RequestIsWhole' /\ DevicesInOrder' /\ RowsDiffer'
         /\ UnusedIsUnspent' /\ InsertsOnce'
BY DEF IInv, RequestIsWhole, DevicesInOrder, RowsDiffer, UnusedIsUnspent, InsertsOnce, Spent

\* An agent waits for a file.
LEMMA WaitForConfigStep ==
  ASSUME IInv, NEW g \in Agent, WaitForConfig(g)
  PROVE  IInv'
<1> USE DEF IInv, hubVars, codeVars, agentVars, WaitForConfig, Enrolling
<1>1. TypeOK'
  BY EnrolmentAssumption DEF TypeOK, Row, Cfg, Running, Device, Issue
<1>2. AgentIsWhere'
  BY EnrolmentAssumption DEF TypeOK, AgentIsWhere, Running
<1>3. ConfigIsOwn'
  BY EnrolmentAssumption DEF TypeOK, ConfigIsOwn, Own, Running, Cfg
<1>4. RoundIsKnown'
  BY EnrolmentAssumption DEF TypeOK, RoundIsKnown, Running, Cfg, Known
<1>5. QED
  BY LedgerUnchanged, <1>1, <1>2, <1>3, <1>4

\* An agent starts with its file.
LEMMA LoadConfigStep ==
  ASSUME IInv, NEW g \in Agent, LoadConfig(g)
  PROVE  IInv'
<1> USE DEF IInv, hubVars, codeVars, agentVars, LoadConfig, Run, Candidates
<1>1. TypeOK'
  BY EnrolmentAssumption, SMTT(60) DEF TypeOK, Row, Cfg, Running, Device, Issue
<1>2. AgentIsWhere'
  BY EnrolmentAssumption DEF TypeOK, AgentIsWhere, Running
<1>3. ConfigIsOwn'
  BY EnrolmentAssumption DEF TypeOK, ConfigIsOwn, Own, Running, Cfg
<1>4. RoundIsKnown'
  BY EnrolmentAssumption DEF TypeOK, RoundIsKnown, Running, Cfg, Known
<1>5. QED
  BY LedgerUnchanged, <1>1, <1>2, <1>3, <1>4

\* A node does not answer.
LEMMA UnreachableStep ==
  ASSUME IInv, NEW g \in Agent, NEW n \in Node, Unreachable(g, n)
  PROVE  IInv'
<1> USE DEF IInv, hubVars, codeVars, agentVars, Unreachable
<1>1. TypeOK'
  BY EnrolmentAssumption DEF TypeOK, Row, Cfg, Running, Device, Issue
<1>2. AgentIsWhere'
  BY EnrolmentAssumption DEF TypeOK, AgentIsWhere, Running
<1>3. ConfigIsOwn'
  BY EnrolmentAssumption DEF TypeOK, ConfigIsOwn, Own, Running, Cfg
<1>4. RoundIsKnown'
  BY EnrolmentAssumption DEF TypeOK, RoundIsKnown, Running, Cfg, Known
<1>5. QED
  BY LedgerUnchanged, <1>1, <1>2, <1>3, <1>4

\* A node refuses the agent, and its process ends.
LEMMA AuthFatalStep ==
  ASSUME IInv, NEW g \in Agent, NEW n \in Node, AuthFatal(g, n)
  PROVE  IInv'
<1> USE DEF IInv, hubVars, codeVars, agentVars, AuthFatal, GiveUp
<1>1. TypeOK'
  BY EnrolmentAssumption DEF TypeOK, Row, Cfg, Running, Device, Issue
<1>2. AgentIsWhere'
  BY EnrolmentAssumption DEF TypeOK, AgentIsWhere, Running
<1>3. ConfigIsOwn'
  BY EnrolmentAssumption DEF TypeOK, ConfigIsOwn, Own, Running, Cfg
<1>4. RoundIsKnown'
  BY EnrolmentAssumption DEF TypeOK, RoundIsKnown, Running, Cfg, Known
<1>5. QED
  BY LedgerUnchanged, <1>1, <1>2, <1>3, <1>4

\* The connection is closed in order.
LEMMA ServeEndsStep ==
  ASSUME IInv, NEW g \in Agent, ServeEnds(g)
  PROVE  IInv'
<1> USE DEF IInv, hubVars, codeVars, agentVars, ServeEnds, Run, Candidates
<1>1. TypeOK'
  BY EnrolmentAssumption DEF TypeOK, Row, Cfg, Running, Device, Issue
<1>2. AgentIsWhere'
  BY EnrolmentAssumption DEF TypeOK, AgentIsWhere, Running
<1>3. ConfigIsOwn'
  BY EnrolmentAssumption DEF TypeOK, ConfigIsOwn, Own, Running, Cfg
<1>4. RoundIsKnown'
  BY EnrolmentAssumption DEF TypeOK, RoundIsKnown, Running, Cfg, Known
<1>5. QED
  BY LedgerUnchanged, <1>1, <1>2, <1>3, <1>4

\* The connection breaks.
LEMMA ServeBreaksStep ==
  ASSUME IInv, NEW g \in Agent, ServeBreaks(g)
  PROVE  IInv'
<1> USE DEF IInv, hubVars, codeVars, agentVars, ServeBreaks
<1>1. TypeOK'
  BY EnrolmentAssumption DEF TypeOK, Row, Cfg, Running, Device, Issue
<1>2. AgentIsWhere'
  BY EnrolmentAssumption DEF TypeOK, AgentIsWhere, Running
<1>3. ConfigIsOwn'
  BY EnrolmentAssumption DEF TypeOK, ConfigIsOwn, Own, Running, Cfg
<1>4. RoundIsKnown'
  BY EnrolmentAssumption DEF TypeOK, RoundIsKnown, Running, Cfg, Known
<1>5. QED
  BY LedgerUnchanged, <1>1, <1>2, <1>3, <1>4

\* The round is over.
LEMMA BackoffStep ==
  ASSUME IInv, NEW g \in Agent, Backoff(g)
  PROVE  IInv'
<1> USE DEF IInv, hubVars, codeVars, agentVars, Backoff
<1>1. TypeOK'
  BY EnrolmentAssumption DEF TypeOK, Row, Cfg, Running, Device, Issue
<1>2. AgentIsWhere'
  BY EnrolmentAssumption DEF TypeOK, AgentIsWhere, Running
<1>3. ConfigIsOwn'
  BY EnrolmentAssumption DEF TypeOK, ConfigIsOwn, Own, Running, Cfg
<1>4. RoundIsKnown'
  BY EnrolmentAssumption DEF TypeOK, RoundIsKnown, Running, Cfg, Known
<1>5. QED
  BY LedgerUnchanged, <1>1, <1>2, <1>3, <1>4

\* A new round begins.
LEMMA WakeStep ==
  ASSUME IInv, NEW g \in Agent, Wake(g)
  PROVE  IInv'
<1> USE DEF IInv, hubVars, codeVars, agentVars, Wake, Run, Candidates
<1>1. TypeOK'
  BY EnrolmentAssumption DEF TypeOK, Row, Cfg, Running, Device, Issue
<1>2. AgentIsWhere'
  BY EnrolmentAssumption DEF TypeOK, AgentIsWhere, Running
<1>3. ConfigIsOwn'
  BY EnrolmentAssumption DEF TypeOK, ConfigIsOwn, Own, Running, Cfg
<1>4. RoundIsKnown'
  BY EnrolmentAssumption DEF TypeOK, RoundIsKnown, Running, Cfg, Known
<1>5. QED
  BY LedgerUnchanged, <1>1, <1>2, <1>3, <1>4

\* The process is stopped.
LEMMA StopStep ==
  ASSUME IInv, NEW g \in Agent, NEW reset \in BOOLEAN, Stop(g, reset)
  PROVE  IInv'
<1> USE DEF IInv, hubVars, codeVars, agentVars, Stop
<1>1. TypeOK'
  BY EnrolmentAssumption DEF TypeOK, Row, Cfg, Running, Device, Issue
<1>2. AgentIsWhere'
  BY EnrolmentAssumption DEF TypeOK, AgentIsWhere, Running
<1>3. ConfigIsOwn'
  BY EnrolmentAssumption DEF TypeOK, ConfigIsOwn, Own, Running, Cfg
<1>4. RoundIsKnown'
  BY EnrolmentAssumption DEF TypeOK, RoundIsKnown, Running, Cfg, Known
<1>5. QED
  BY LedgerUnchanged, <1>1, <1>2, <1>3, <1>4

\* A node starts, on one database or the other.
LEMMA NodeStartsStep ==
  ASSUME IInv, NEW n \in Node, NodeStarts(n)
  PROVE  IInv'
<1> USE DEF IInv, hubVars, codeVars, agentVars, NodeStarts, Paired
<1>1. TypeOK'
  BY EnrolmentAssumption DEF TypeOK, Row, Cfg, Running, Device, Issue
<1>2. AgentIsWhere'
  BY EnrolmentAssumption DEF TypeOK, AgentIsWhere, Running
<1>3. ConfigIsOwn'
  BY EnrolmentAssumption DEF TypeOK, ConfigIsOwn, Own, Running, Cfg
<1>4. RoundIsKnown'
  BY EnrolmentAssumption DEF TypeOK, RoundIsKnown, Running, Cfg, Known
<1>5. QED
  BY LedgerUnchanged, <1>1, <1>2, <1>3, <1>4

\* A replica is brought up to date.
LEMMA SyncStep ==
  ASSUME IInv, NEW n \in Node, Sync(n)
  PROVE  IInv'
<1> USE DEF IInv, hubVars, codeVars, agentVars, Sync, Paired
<1>1. TypeOK'
  BY EnrolmentAssumption DEF TypeOK, Row, Cfg, Running, Device, Issue
<1>2. AgentIsWhere'
  BY EnrolmentAssumption DEF TypeOK, AgentIsWhere, Running
<1>3. ConfigIsOwn'
  BY EnrolmentAssumption DEF TypeOK, ConfigIsOwn, Own, Running, Cfg
<1>4. RoundIsKnown'
  BY EnrolmentAssumption DEF TypeOK, RoundIsKnown, Running, Cfg, Known
<1>5. QED
  BY LedgerUnchanged, <1>1, <1>2, <1>3, <1>4

\* The INSERT of a code fails.
LEMMA InsertCodeFailsStep ==
  ASSUME IInv, NEW u \in User, InsertCodeFails(u)
  PROVE  IInv'
<1> USE DEF IInv, hubVars, codeVars, agentVars, InsertCodeFails
<1>1. TypeOK'
  BY EnrolmentAssumption DEF TypeOK, Row, Cfg, Running, Device, Issue
<1>2. AgentIsWhere'
  BY EnrolmentAssumption DEF TypeOK, AgentIsWhere, Running
<1>3. ConfigIsOwn'
  BY EnrolmentAssumption DEF TypeOK, ConfigIsOwn, Own, Running, Cfg
<1>4. RoundIsKnown'
  BY EnrolmentAssumption DEF TypeOK, RoundIsKnown, Running, Cfg, Known
<1>5. QED
  BY LedgerUnchanged, <1>1, <1>2, <1>3, <1>4

\* A node accepts the agent, which learns more nodes.
LEMMA AuthOkStep ==
  ASSUME IInv, NEW g \in Agent, NEW n \in Node, AuthOk(g, n)
  PROVE  IInv'
<1> USE DEF IInv, hubVars, codeVars
<1> PICK listed \in LiveNodes :
      LET cfg == [mem[g] EXCEPT !.hub = n, !.nodes = {n} \cup listed \cup @]
      IN  /\ mem' = [mem EXCEPT ![g] = cfg]
          /\ file' = [file EXCEPT ![g] = IF cfg # mem[g] THEN cfg ELSE @]
  BY DEF AuthOk
<1> DEFINE cfg == [mem[g] EXCEPT !.hub = n, !.nodes = {n} \cup listed \cup @]
<1>1. /\ pc[g] = "round" /\ n \in todo[g] /\ mem[g] \in Cfg
      /\ pc' = [pc EXCEPT ![g] = "serve"] /\ at' = [at EXCEPT ![g] = n]
      /\ todo' = [todo EXCEPT ![g] = @ \ {n}] /\ UNCHANGED <<hubVars, req>>
      /\ pc[g] \in Running
  BY DEF AuthOk, TypeOK, Running
<1>2. /\ cfg \in Cfg /\ cfg.dev = mem[g].dev /\ cfg.hub = n
      /\ cfg.nodes = {n} \cup listed \cup mem[g].nodes
  BY <1>1 DEF Cfg, LiveNodes
<1>3. mem' = [mem EXCEPT ![g] = cfg] /\ (file' = [file EXCEPT ![g] = cfg] \/ file' = file)
  BY DEF TypeOK
<1> HIDE DEF cfg
<1>4. TypeOK'
  BY <1>1, <1>2, <1>3, EnrolmentAssumption DEF TypeOK, Running
<1>5. AgentIsWhere'
  BY <1>1, <1>3, EnrolmentAssumption DEF TypeOK, AgentIsWhere
<1>6. ConfigIsOwn'
  BY <1>1, <1>2, <1>3, EnrolmentAssumption DEF TypeOK, ConfigIsOwn, Own
<1>7. RoundIsKnown'
  <2>1. mem[g].nodes = {} \/ mem[g].hub \in mem[g].nodes
    BY <1>1, EnrolmentAssumption DEF ConfigIsOwn, Own
  <2>2. todo[g] \subseteq {mem[g].hub} \cup mem[g].nodes
    BY <1>1 DEF RoundIsKnown, Known
  <2>3. todo'[g] \subseteq Known(g)'
    BY <1>1, <1>2, <1>3, <2>1, <2>2 DEF TypeOK, Known
  <2>4. \A x \in Agent \ {g} : mem'[x] = mem[x] /\ todo'[x] = todo[x] /\ pc'[x] = pc[x]
    BY <1>1, <1>3 DEF TypeOK
  <2>5. QED
    BY <2>3, <2>4 DEF RoundIsKnown, Known
<1>8. QED
  BY <1>1, <1>4, <1>5, <1>6, <1>7, LedgerUnchanged DEF codeVars

\* The records a request may be.
Req == [pc : {"none", "select", "update", "token", "insert", "reply"},
        node : Node \cup {NoNode}, code : Code \cup {NoRow},
        issue : 0..MaxIssues, dev : 0..MaxDevices]

\* A step that neither redeems an issue nor makes a device.
NoRedemption ==
  /\ UNCHANGED <<dev, by, code, issues>>
  /\ req' \in [Agent -> Req]
  /\ \A g \in Agent :
       req'[g] # req[g] =>
         /\ req'[g].pc \in {"none", "select", "update", "token"} /\ req'[g].issue = 0
         /\ req'[g].pc \in {"select", "update"} => req'[g].code \in Code
         /\ req'[g].pc # "none" => req'[g].node \in Node

\* A request that begins, reads the row or ends redeems nothing.
LEMMA NoRedemptionStep ==
  ASSUME IInv, NoRedemption
  PROVE  /\ RequestIsWhole' /\ DevicesInOrder' /\ RowsDiffer'
         /\ UnusedIsUnspent' /\ InsertsOnce'
<1> USE DEF IInv, NoRedemption
<1>1. RequestIsWhole'
  BY DEF RequestIsWhole, TypeOK
<1>2. DevicesInOrder' /\ RowsDiffer'
  BY DEF DevicesInOrder, RowsDiffer
<1>3. \A i : Spent(i)' => Spent(i)
  BY DEF Spent
<1>4. UnusedIsUnspent'
  BY <1>3 DEF UnusedIsUnspent
<1>5. InsertsOnce'
  BY DEF InsertsOnce
<1>6. QED
  BY <1>1, <1>2, <1>4, <1>5

\* No request is a request.
LEMMA NoReqType == NoReq \in Req /\ NoReq.pc = "none" /\ NoReq.issue = 0
BY EnrolmentAssumption DEF NoReq, Req

\* An agent presents a code, or the account token.
LEMMA AskStep ==
  ASSUME IInv, NEW g \in Agent, Enrolling(g), NEW r \in Req,
         r.pc \in {"select", "token"}, r.node \in Node, r.issue = 0,
         r.pc = "select" => r.code \in Code,
         pc' = [pc EXCEPT ![g] = "post"], req' = [req EXCEPT ![g] = r],
         UNCHANGED <<hubVars, file, mem, todo, at>>
  PROVE  IInv'
<1> USE DEF IInv, hubVars, codeVars, Enrolling
<1>1. req \in [Agent -> Req] /\ req' \in [Agent -> Req]
  BY DEF TypeOK, Req
<1>2. TypeOK'
  BY <1>1 DEF TypeOK, Running, Req
<1>3. AgentIsWhere'
  BY <1>1 DEF TypeOK, AgentIsWhere
<1>4. ConfigIsOwn' /\ RoundIsKnown'
  BY DEF TypeOK, ConfigIsOwn, Own, RoundIsKnown, Known, Running
<1>5. NoRedemption
  BY <1>1 DEF NoRedemption
<1>6. QED
  BY <1>2, <1>3, <1>4, <1>5, NoRedemptionStep

\* An agent presents a code.
LEMMA PairNowStep ==
  ASSUME IInv, NEW g \in Agent, NEW n \in Node, NEW c \in Code, PairNow(g, n, c)
  PROVE  IInv'
<1> DEFINE r == [NoReq EXCEPT !.pc = "select", !.node = n, !.code = c]
<1>1. r \in Req /\ r.pc = "select" /\ r.node = n /\ r.code = c /\ r.issue = 0
  BY NoReqType DEF Req
<1> HIDE DEF r
<1>2. QED
  BY <1>1, AskStep DEF PairNow, r

\* An agent presents the account token.
LEMMA EnrollNowStep ==
  ASSUME IInv, NEW g \in Agent, NEW n \in Node, EnrollNow(g, n)
  PROVE  IInv'
<1> DEFINE r == [NoReq EXCEPT !.pc = "token", !.node = n]
<1>1. r \in Req /\ r.pc = "token" /\ r.node = n /\ r.issue = 0
  BY NoReqType DEF Req
<1> HIDE DEF r
<1>2. QED
  BY <1>1, AskStep DEF EnrollNow, r

\* A request ends without a configuration, refused or lost.
LEMMA RefuseStep ==
  ASSUME IInv, NEW g \in Agent, req[g].pc # "none", Refuse(g),
         UNCHANGED <<hubVars, file, mem, todo, at>>
  PROVE  IInv'
<1> USE NoReqType DEF IInv, hubVars, codeVars, Refuse
<1>1. req \in [Agent -> Req] /\ req' \in [Agent -> Req] /\ pc[g] = "post"
  BY DEF TypeOK, Req, AgentIsWhere
<1>2. TypeOK'
  BY <1>1 DEF TypeOK, Running, Req
<1>3. AgentIsWhere'
  BY <1>1 DEF TypeOK, AgentIsWhere
<1>4. ConfigIsOwn' /\ RoundIsKnown'
  BY DEF TypeOK, ConfigIsOwn, Own, RoundIsKnown, Known, Running
<1>5. NoRedemption
  BY <1>1 DEF NoRedemption
<1>6. QED
  BY <1>2, <1>3, <1>4, <1>5, NoRedemptionStep

\* A node stops, with its requests and connections.
LEMMA NodeStopsStep ==
  ASSUME IInv, NEW n \in Node, NodeStops(n)
  PROVE  IInv'
<1> USE NoReqType DEF IInv, NodeStops, codeVars
<1>1. req \in [Agent -> Req] /\ req' \in [Agent -> Req]
  BY DEF TypeOK, Req
<1>2. \A g \in Agent :
        \/ req'[g] = NoReq /\ req[g].pc # "none" /\ pc[g] = "post" /\ pc'[g] = "off"
        \/ req'[g] = req[g] /\ at[g] = n /\ pc[g] = "serve" /\ pc'[g] = "round"
        \/ req'[g] = req[g] /\ at[g] # n /\ pc'[g] = pc[g]
  BY DEF AgentIsWhere
<1>3. \A g \in Agent : at'[g] = IF at[g] = n THEN NoNode ELSE at[g]
  OBVIOUS
<1>4. TypeOK'
  <2>1. pc' \in [Agent -> Running \cup {"off", "post", "wait", "exit"}]
    BY DEF TypeOK, Running
  <2>2. \A g \in Agent : pc'[g] \in Running => mem[g] # NoCfg
    BY <1>2 DEF TypeOK, Running
  <2>3. at' \in [Agent -> Node \cup {NoNode}] /\ node' \in [Node -> {"shared", "fallback", "down"}]
    BY DEF TypeOK
  <2>4. QED
    BY <1>1, <2>1, <2>2, <2>3 DEF TypeOK, Req
<1>5. AgentIsWhere'
  BY <1>2, <1>3, EnrolmentAssumption DEF AgentIsWhere
<1>6. ConfigIsOwn' /\ RoundIsKnown'
  BY <1>2 DEF ConfigIsOwn, Own, RoundIsKnown, Known, Running
<1>7. NoRedemption
  BY <1>1, <1>2 DEF NoRedemption
<1>8. QED
  BY <1>4, <1>5, <1>6, <1>7, NoRedemptionStep

\* The answer arrives, and the agent has its configuration.
LEMMA EnrolledStep ==
  ASSUME IInv, NEW g \in Agent, Enrolled(g)
  PROVE  IInv'
<1> USE NoReqType DEF IInv, hubVars, codeVars
<1>1. /\ req[g].pc = "reply" /\ req' = [req EXCEPT ![g] = NoReq] /\ pc[g] = "post"
      /\ UNCHANGED <<hubVars, at>>
      /\ req[g].node \in Node /\ req[g].dev \in Device
  BY DEF Enrolled, AgentIsWhere, RequestIsWhole
<1> PICK nodes \in IF req[g].code = NoRow THEN {{req[g].node} \cup l : l \in LiveNodes}
                                         ELSE {{}} :
      LET cfg == Config(req[g].dev, req[g].node, nodes)
      IN  file' = [file EXCEPT ![g] = cfg] /\ Run(g, cfg)
  BY DEF Enrolled
<1> DEFINE cfg == Config(req[g].dev, req[g].node, nodes)
<1>2. cfg \in Cfg /\ Own(cfg) /\ Candidates(cfg) = {cfg.hub} \cup cfg.nodes
  <2>1. nodes \subseteq Node /\ (nodes = {} \/ req[g].node \in nodes)
    BY <1>1 DEF LiveNodes
  <2>2. QED
    BY <1>1, <2>1 DEF Config, Cfg, Own, Candidates
<1>3. /\ file' = [file EXCEPT ![g] = cfg] /\ mem' = [mem EXCEPT ![g] = cfg]
      /\ todo' = [todo EXCEPT ![g] = Candidates(cfg)] /\ pc' = [pc EXCEPT ![g] = "round"]
  BY DEF Run
<1> HIDE DEF cfg
<1>4. req \in [Agent -> Req] /\ req' \in [Agent -> Req]
  BY <1>1 DEF TypeOK, Req
<1>5. TypeOK'
  <2>1. Candidates(cfg) \in SUBSET Node
    BY <1>2 DEF Cfg
  <2>2. QED
    BY <1>1, <1>2, <1>3, <1>4, <2>1, EnrolmentAssumption DEF TypeOK, Running, Req
<1>6. AgentIsWhere'
  BY <1>1, <1>3, <1>4 DEF TypeOK, AgentIsWhere
<1>7. ConfigIsOwn'
  BY <1>1, <1>2, <1>3 DEF TypeOK, ConfigIsOwn, Own
<1>8. RoundIsKnown'
  BY <1>1, <1>2, <1>3 DEF TypeOK, RoundIsKnown, Known
<1>9. NoRedemption
  BY <1>1, <1>4 DEF NoRedemption
<1>10. QED
  BY <1>5, <1>6, <1>7, <1>8, <1>9, NoRedemptionStep

\* A request goes on: the agent does not notice.
LEMMA RequestMoves ==
  ASSUME IInv, NEW g \in Agent, req' \in [Agent -> Req],
         \A h \in Agent \ {g} : req'[h] = req[h],
         req[g].pc # "none", req'[g].pc # "none",
         UNCHANGED <<node, pulled, issues, issued, pages, pc, file, mem, todo, at>>,
         dev' \in [Device -> {"free", "live", "deleted"}],
         by' \in [Device -> 0..MaxIssues], code' \in [Code -> Row \cup {NoRow}]
  PROVE  TypeOK' /\ AgentIsWhere' /\ ConfigIsOwn' /\ RoundIsKnown'
<1> USE DEF IInv
<1>1. TypeOK'
  BY DEF TypeOK, Req
<1>2. AgentIsWhere'
  BY DEF AgentIsWhere
<1>3. ConfigIsOwn' /\ RoundIsKnown'
  BY DEF ConfigIsOwn, Own, RoundIsKnown, Known
<1>4. QED
  BY <1>1, <1>2, <1>3

\* The row is read, and nothing is redeemed yet.
LEMMA SelectStep ==
  ASSUME IInv, NEW g \in Agent, Select(g)
  PROVE  IInv'
<1> USE DEF IInv, hubVars, codeVars
<1>1. CASE Refuse(g)
  BY <1>1, RefuseStep DEF Select
<1>2. CASE req' = [req EXCEPT ![g].pc = "update"] /\ pc' = pc
  <2>1. /\ req \in [Agent -> Req] /\ req[g].pc = "select" /\ req[g].code \in Code
        /\ req[g].issue = 0 /\ req[g].node \in Node
        /\ UNCHANGED <<hubVars, file, mem, todo, at>>
    BY DEF Select, TypeOK, RequestIsWhole, Req
  <2>2. /\ req' \in [Agent -> Req] /\ req'[g].pc = "update" /\ req'[g].issue = 0
        /\ req'[g].code = req[g].code /\ req'[g].node = req[g].node
        /\ \A h \in Agent \ {g} : req'[h] = req[h]
    BY <1>2, <2>1 DEF Req
  <2>3. TypeOK' /\ AgentIsWhere' /\ ConfigIsOwn' /\ RoundIsKnown'
    BY <1>2, <2>1, <2>2, RequestMoves DEF TypeOK
  <2>4. NoRedemption
    BY <2>1, <2>2 DEF NoRedemption
  <2>5. QED
    BY <2>3, <2>4, NoRedemptionStep
<1>3. QED
  BY <1>1, <1>2 DEF Select

\* The row is marked: it was unused, so its issue is spent by this request alone,
\* whatever row was read before.
LEMMA UpdateStep ==
  ASSUME IInv, NEW g \in Agent, Update(g)
  PROVE  IInv'
<1> USE DEF IInv, hubVars, codeVars
<1> DEFINE c == req[g].code
           row == code[c]
<1>1. CASE Refuse(g) /\ code' = code
  BY <1>1, RefuseStep DEF Update
<1>2. CASE row # NoRow /\ ~row.used /\ Mark(g)
  <2>1. /\ req \in [Agent -> Req] /\ req[g].pc = "update" /\ c \in Code
        /\ req[g].node \in Node
        /\ UNCHANGED <<node, pulled, dev, by, issues, issued, pages, file, mem, todo, at>>
    BY DEF Update, TypeOK, RequestIsWhole, Req
  <2>2. /\ code' = [code EXCEPT ![c].used = TRUE] /\ pc' = pc
        /\ req' = [req EXCEPT ![g].pc = "insert", ![g].issue = row.issue]
    BY <1>2 DEF Mark
  <2>3. row \in Row /\ row.issue \in 1..issues /\ row.issue \in 0..MaxIssues
    BY <1>2, <2>1, EnrolmentAssumption DEF TypeOK, RowsDiffer, Row, Issue
  <2> HIDE DEF c
  <2>4. /\ req' \in [Agent -> Req] /\ req'[g].pc = "insert"
        /\ req'[g].issue = row.issue
        /\ req'[g].code = c /\ req'[g].node = req[g].node
        /\ \A h \in Agent \ {g} : req'[h] = req[h]
    <3> DEFINE q == [req EXCEPT ![g].pc = "insert"]
    <3>1. /\ q \in [Agent -> Req] /\ q[g].pc = "insert" /\ q[g].code = c
          /\ q[g].node = req[g].node /\ \A h \in Agent \ {g} : q[h] = req[h]
      BY <2>1 DEF Req, c
    <3>2. req' = [q EXCEPT ![g].issue = row.issue]
      BY <2>2
    <3> HIDE DEF q, row
    <3>3. QED
      BY <2>3, <3>1, <3>2 DEF Req
  <2>5. /\ code' \in [Code -> Row \cup {NoRow}] /\ code'[c] \in Row /\ code'[c].used
        /\ code'[c].issue = row.issue
        /\ \A b \in Code \ {c} : code'[b] = code[b]
    <3> DEFINE m == [row EXCEPT !.used = TRUE]
    <3>1. m \in Row /\ m.used /\ m.issue = row.issue
      BY <2>3 DEF Row
    <3>2. code' = [code EXCEPT ![c] = m]
      BY <2>2
    <3> HIDE DEF m
    <3>3. QED
      BY <2>1, <3>1, <3>2 DEF TypeOK
  <2>6. TypeOK' /\ AgentIsWhere' /\ ConfigIsOwn' /\ RoundIsKnown'
    BY <2>1, <2>2, <2>4, <2>5, RequestMoves DEF TypeOK
  <2>7. RequestIsWhole' /\ DevicesInOrder'
    BY <2>1, <2>3, <2>4 DEF RequestIsWhole, DevicesInOrder
  <2>8. RowsDiffer'
    BY <1>2, <2>1, <2>5 DEF RowsDiffer
  <2>9. ~Spent(row.issue)
    BY <1>2, <2>1 DEF UnusedIsUnspent
  <2>10. \A i : Spent(i)' <=> Spent(i) \/ i = row.issue
    BY <2>1, <2>4 DEF Spent
  <2>11. UnusedIsUnspent'
    BY <1>2, <2>1, <2>5, <2>10 DEF UnusedIsUnspent, RowsDiffer
  <2>12. InsertsOnce'
    BY <2>1, <2>4, <2>9 DEF InsertsOnce, Spent
  <2>13. QED
    BY <2>6, <2>7, <2>8, <2>11, <2>12
<1>3. QED
  BY <1>1, <1>2 DEF Update

\* The account token is checked.
LEMMA CheckTokenStep ==
  ASSUME IInv, NEW g \in Agent, CheckToken(g)
  PROVE  IInv'
<1> USE DEF IInv, hubVars, codeVars
<1>1. CASE Refuse(g)
  BY <1>1, RefuseStep DEF CheckToken
<1>2. CASE req' = [req EXCEPT ![g].pc = "insert"] /\ pc' = pc
  <2>1. /\ req \in [Agent -> Req] /\ req[g].pc = "token" /\ req[g].issue = 0
        /\ UNCHANGED <<hubVars, file, mem, todo, at>>
    BY DEF CheckToken, TypeOK, RequestIsWhole, Req
  <2>2. /\ req' \in [Agent -> Req] /\ req'[g].pc = "insert" /\ req'[g].issue = 0
        /\ req'[g].code = req[g].code /\ req'[g].node = req[g].node
        /\ \A h \in Agent \ {g} : req'[h] = req[h]
    BY <1>2, <2>1 DEF Req
  <2>3. TypeOK' /\ AgentIsWhere' /\ ConfigIsOwn' /\ RoundIsKnown'
    BY <1>2, <2>1, <2>2, RequestMoves DEF TypeOK
  <2>4. RequestIsWhole' /\ DevicesInOrder' /\ RowsDiffer'
    BY <2>1, <2>2 DEF RequestIsWhole, DevicesInOrder, RowsDiffer
  <2>5. \A c \in Code : code[c] # NoRow => code[c].issue # 0
    BY DEF RowsDiffer, TypeOK
  <2>6. \A i : Spent(i)' /\ i # 0 => Spent(i)
    BY <2>1, <2>2 DEF Spent
  <2>7. UnusedIsUnspent'
    BY <2>1, <2>5, <2>6 DEF UnusedIsUnspent
  <2>8. InsertsOnce'
    BY <2>1, <2>2 DEF InsertsOnce
  <2>9. QED
    BY <2>3, <2>4, <2>7, <2>8
<1>3. QED
  BY <1>1, <1>2 DEF CheckToken

\* What a new device changes: it has a configuration of its own, or will have.
LEMMA DeviceIsNew ==
  ASSUME IInv, NEW d \in Device, NEW i \in 0..issues, Insert(d, i), issues' = issues
  PROVE  /\ dev[d] = "free" /\ dev'[d] = "live" /\ by'[d] = i /\ by[d] = 0
         /\ \A e \in Device \ {d} : dev'[e] = dev[e] /\ by'[e] = by[e]
         /\ dev' \in [Device -> {"free", "live", "deleted"}]
         /\ by' \in [Device -> 0..MaxIssues]
         /\ DevicesInOrder'
<1> USE DEF IInv, Insert, NewDevice
<1>1. /\ dev[d] = "free" /\ dev'[d] = "live" /\ by'[d] = i /\ by[d] = 0
      /\ \A e \in Device \ {d} : dev'[e] = dev[e] /\ by'[e] = by[e]
      /\ dev' \in [Device -> {"free", "live", "deleted"}]
  BY DEF TypeOK, DevicesInOrder
<1>2. by' \in [Device -> 0..MaxIssues]
  BY EnrolmentAssumption DEF TypeOK
<1>3. DevicesInOrder'
  <2> SUFFICES ASSUME NEW x \in Device
               PROVE  /\ by'[x] \in 0..issues
                      /\ dev'[x] = "free" => by'[x] = 0
                      /\ dev'[x] # "free" => \A e \in 1..(x - 1) : dev'[e] # "free"
    BY DEF DevicesInOrder
  <2>1. by'[x] \in 0..issues /\ (dev'[x] = "free" => by'[x] = 0)
    BY <1>1 DEF DevicesInOrder
  <2>2. ASSUME dev'[x] # "free", NEW e \in 1..(x - 1) PROVE dev'[e] # "free"
    <3>1. e \in Device
      BY EnrolmentAssumption DEF Device
    <3>2. dev[e] # "free"
      BY <1>1, <2>2 DEF DevicesInOrder
    <3>3. QED
      BY <1>1, <3>1, <3>2
  <2>3. QED
    BY <2>1, <2>2
<1>4. QED
  BY <1>1, <1>2, <1>3

\* The device is inserted: what was about to be spent is spent.
LEMMA CreateDeviceStep ==
  ASSUME IInv, NEW g \in Agent, CreateDevice(g)
  PROVE  IInv'
<1> USE DEF IInv, codeVars
<1>0. PICK d \in Device : /\ Insert(d, req[g].issue)
                          /\ req' = [req EXCEPT ![g].pc = "reply", ![g].dev = d]
  BY DEF CreateDevice
<1> DEFINE i == req[g].issue
<1>1. /\ req \in [Agent -> Req] /\ req[g].pc = "insert" /\ i \in 0..issues
      /\ UNCHANGED <<node, pulled, codeVars, pc, file, mem, todo, at>>
  BY DEF CreateDevice, TypeOK, RequestIsWhole, Req
<1>2. /\ req' \in [Agent -> Req] /\ req'[g].pc = "reply" /\ req'[g].issue = i
      /\ req'[g].code = req[g].code /\ req'[g].node = req[g].node /\ req'[g].dev = d
      /\ \A h \in Agent \ {g} : req'[h] = req[h]
  <2> DEFINE q == [req EXCEPT ![g].pc = "reply"]
  <2>1. /\ q \in [Agent -> Req] /\ q[g].pc = "reply" /\ q[g].code = req[g].code
        /\ q[g].issue = i
        /\ q[g].node = req[g].node /\ \A h \in Agent \ {g} : q[h] = req[h]
    BY <1>1 DEF Req
  <2>2. req' = [q EXCEPT ![g].dev = d]
    BY <1>0
  <2> HIDE DEF q, i
  <2>3. d \in 0..MaxDevices
    BY EnrolmentAssumption DEF Device
  <2>4. req' \in [Agent -> Req]
    BY <2>1, <2>2, <2>3 DEF Req
  <2>5. req'[g].pc = "reply" /\ req'[g].issue = i /\ req'[g].dev = d
    BY <2>1, <2>2 DEF Req
  <2>6. req'[g].code = req[g].code /\ req'[g].node = req[g].node
    BY <2>1, <2>2 DEF Req
  <2>7. QED
    BY <2>1, <2>2, <2>4, <2>5, <2>6
<1>3. /\ dev[d] = "free" /\ dev'[d] = "live" /\ by'[d] = i /\ by[d] = 0
      /\ \A e \in Device \ {d} : dev'[e] = dev[e] /\ by'[e] = by[e]
      /\ dev' \in [Device -> {"free", "live", "deleted"}]
      /\ by' \in [Device -> 0..MaxIssues]
      /\ DevicesInOrder'
  BY <1>0, <1>1, DeviceIsNew
<1> HIDE DEF i
<1>4. TypeOK' /\ AgentIsWhere' /\ ConfigIsOwn' /\ RoundIsKnown'
  BY <1>1, <1>2, <1>3, RequestMoves DEF TypeOK
<1>5. RequestIsWhole'
  BY <1>1, <1>2, <1>3 DEF RequestIsWhole
<1>6. RowsDiffer'
  BY <1>1 DEF RowsDiffer
<1>7. \A k : Spent(k)' => Spent(k)
  BY <1>1, <1>2, <1>3 DEF Spent, i
<1>8. UnusedIsUnspent'
  BY <1>1, <1>7 DEF UnusedIsUnspent
<1>9. InsertsOnce'
  BY <1>1, <1>2, <1>3 DEF InsertsOnce, i
<1>10. QED
  BY <1>3, <1>4, <1>5, <1>6, <1>8, <1>9

\* A device is inserted without a code.
LEMMA SelfRegisterStep ==
  ASSUME IInv, NEW n \in Node, NEW g \in Agent, SelfRegister(n, g)
  PROVE  IInv'
<1> USE DEF IInv, codeVars
<1> PICK d \in Device : /\ Insert(d, 0)
                        /\ file' = [file EXCEPT ![g] = Config(d, n, {})]
  BY DEF SelfRegister
<1>1. UNCHANGED <<node, pulled, codeVars, req, pc, mem, todo, at>>
  BY DEF SelfRegister
<1>2. /\ dev[d] = "free" /\ dev'[d] = "live" /\ by'[d] = 0 /\ by[d] = 0
      /\ \A e \in Device \ {d} : dev'[e] = dev[e] /\ by'[e] = by[e]
      /\ dev' \in [Device -> {"free", "live", "deleted"}]
      /\ by' \in [Device -> 0..MaxIssues]
      /\ DevicesInOrder'
  <2>1. 0 \in 0..issues
    BY DEF TypeOK
  <2>2. QED
    BY <1>1, <2>1, DeviceIsNew
<1>3. Config(d, n, {}) \in Cfg /\ Config(d, n, {}).dev = d /\ Config(d, n, {}).nodes = {}
  BY DEF Config, Cfg
<1>4. by' = by
  BY <1>2 DEF TypeOK
<1>5. TypeOK'
  BY <1>1, <1>2, <1>3 DEF TypeOK
<1>6. AgentIsWhere' /\ RoundIsKnown'
  BY <1>1 DEF AgentIsWhere, RoundIsKnown, Known
<1>7. ConfigIsOwn'
  BY <1>1, <1>3 DEF TypeOK, ConfigIsOwn, Own
<1>8. RequestIsWhole'
  BY <1>1 DEF RequestIsWhole
<1>9. RowsDiffer' /\ UnusedIsUnspent' /\ InsertsOnce'
  BY <1>1, <1>4 DEF RowsDiffer, UnusedIsUnspent, InsertsOnce, Spent
<1>10. QED
  BY <1>2, <1>5, <1>6, <1>7, <1>8, <1>9

\* A device is deleted: the agent that is cut off lost its device.
LEMMA DeleteDeviceStep ==
  ASSUME IInv, NEW d \in Device, NEW n \in Node, DeleteDevice(d, n)
  PROVE  IInv'
<1> USE DEF IInv, DeleteDevice, codeVars
<1>1. /\ dev'[d] = "deleted" /\ dev[d] = "live"
      /\ \A e \in Device \ {d} : dev'[e] = dev[e]
      /\ dev' \in [Device -> {"free", "live", "deleted"}]
  BY DEF TypeOK
<1>2. \A g \in Agent :
        \/ /\ pc[g] = "serve" /\ pc'[g] = "exit" /\ at[g] = n /\ at'[g] = NoNode
           /\ mem'[g] = NoCfg /\ todo'[g] = {}
        \/ pc'[g] = pc[g] /\ at'[g] = at[g] /\ mem'[g] = mem[g] /\ todo'[g] = todo[g]
  BY DEF AgentIsWhere
<1>3. TypeOK'
  <2>1. /\ pc' \in [Agent -> Running \cup {"off", "post", "wait", "exit"}]
        /\ at' \in [Agent -> Node \cup {NoNode}] /\ todo' \in [Agent -> SUBSET Node]
        /\ mem' \in [Agent -> Cfg \cup {NoCfg}]
    BY DEF TypeOK
  <2>2. \A g \in Agent : pc'[g] \in Running => mem'[g] # NoCfg
    BY <1>2 DEF TypeOK, Running
  <2>3. QED
    BY <1>1, <2>1, <2>2 DEF TypeOK
<1>4. AgentIsWhere'
  BY <1>2, EnrolmentAssumption DEF AgentIsWhere
<1>5. ConfigIsOwn' /\ RoundIsKnown'
  BY <1>2 DEF ConfigIsOwn, Own, RoundIsKnown, Known, Running
<1>6. RequestIsWhole' /\ DevicesInOrder'
  BY <1>1, EnrolmentAssumption DEF RequestIsWhole, DevicesInOrder, Device
<1>7. RowsDiffer' /\ UnusedIsUnspent' /\ InsertsOnce'
  BY DEF RowsDiffer, UnusedIsUnspent, InsertsOnce, Spent
<1>8. QED
  BY <1>3, <1>4, <1>5, <1>6, <1>7

\* Rows are deleted: those that stay are what they were.
LEMMA PurgeCodesStep ==
  ASSUME IInv, NEW u \in User, PurgeCodes(u)
  PROVE  IInv'
<1> USE DEF IInv, agentVars
<1>1. /\ UNCHANGED <<node, pulled, dev, by, issues, issued, agentVars>>
      /\ pages' \in [User -> 0..MaxPages]
  BY EnrolmentAssumption DEF PurgeCodes, TypeOK
<1>2. /\ code' \in [Code -> Row \cup {NoRow}]
      /\ \A c \in Code : code'[c] = NoRow \/ code'[c] = code[c]
  BY DEF PurgeCodes, TypeOK
<1>3. TypeOK'
  BY <1>1, <1>2 DEF TypeOK
<1>4. AgentIsWhere' /\ ConfigIsOwn' /\ RoundIsKnown' /\ RequestIsWhole' /\ DevicesInOrder'
  BY <1>1 DEF AgentIsWhere, ConfigIsOwn, Own, RoundIsKnown, Known, RequestIsWhole,
              DevicesInOrder
<1>5. RowsDiffer'
  BY <1>1, <1>2 DEF RowsDiffer
<1>6. UnusedIsUnspent' /\ InsertsOnce'
  BY <1>1, <1>2 DEF UnusedIsUnspent, InsertsOnce, Spent
<1>7. QED
  BY <1>3, <1>4, <1>5, <1>6

\* A code is issued: its issue is new.
LEMMA InsertCodeStep ==
  ASSUME IInv, NEW u \in User, NEW c \in Code, InsertCode(u, c)
  PROVE  IInv'
<1> USE DEF IInv, agentVars
<1> DEFINE new == [user |-> u, issue |-> issues + 1, used |-> FALSE]
<1>1. /\ UNCHANGED <<node, pulled, dev, by, agentVars>> /\ issued' \subseteq Code
      /\ issues' = issues + 1 /\ issues \in 0..MaxIssues /\ issues' \in 0..MaxIssues
      /\ pages' \in [User -> 0..MaxPages]
      /\ code[c] = NoRow /\ code' = [code EXCEPT ![c] = new]
  BY EnrolmentAssumption DEF InsertCode, TypeOK
<1>2. new \in Row /\ new # NoRow /\ new.issue = issues + 1
  <2>1. issues + 1 \in Issue
    BY <1>1, EnrolmentAssumption DEF Issue
  <2>2. new \in Row
    BY <2>1 DEF Row
  <2>3. QED
    BY <2>2, EnrolmentAssumption
<1> HIDE DEF new
<1>3. /\ code' \in [Code -> Row \cup {NoRow}] /\ code'[c] = new
      /\ \A k \in Code \ {c} : code'[k] = code[k]
  BY <1>1, <1>2 DEF TypeOK
<1>4. TypeOK'
  BY <1>1, <1>3 DEF TypeOK
<1>5. AgentIsWhere' /\ ConfigIsOwn' /\ RoundIsKnown'
  BY <1>1 DEF AgentIsWhere, ConfigIsOwn, Own, RoundIsKnown, Known
<1>6. RequestIsWhole' /\ DevicesInOrder'
  BY <1>1 DEF RequestIsWhole, DevicesInOrder
<1>7. RowsDiffer'
  BY <1>1, <1>2, <1>3 DEF RowsDiffer
<1>8. ~Spent(issues + 1)
  BY <1>1 DEF Spent, DevicesInOrder, RequestIsWhole
<1>9. \A k : Spent(k)' <=> Spent(k)
  BY <1>1 DEF Spent
<1>10. UnusedIsUnspent'
  BY <1>2, <1>3, <1>8, <1>9 DEF UnusedIsUnspent
<1>11. InsertsOnce'
  BY <1>1 DEF InsertsOnce
<1>12. QED
  BY <1>4, <1>5, <1>6, <1>7, <1>10, <1>11

\* Every step keeps the invariant.
LEMMA IInvStep == IInv /\ [Next]_vars => IInv'
<1> SUFFICES ASSUME IInv, [Next]_vars PROVE IInv'
  OBVIOUS
<1>1. ASSUME NEW u \in User,
             \/ PurgeCodes(u) \/ InsertCodeFails(u)
             \/ \E c \in Code : InsertCode(u, c)
      PROVE  IInv'
  BY <1>1, PurgeCodesStep, InsertCodeFailsStep, InsertCodeStep
<1>2. ASSUME NEW d \in Device, NEW n \in Node, DeleteDevice(d, n) PROVE IInv'
  BY <1>2, DeleteDeviceStep
<1>3. ASSUME NEW n \in Node, NodeStops(n) \/ NodeStarts(n) \/ Sync(n) PROVE IInv'
  BY <1>3, NodeStopsStep, NodeStartsStep, SyncStep
<1>4. ASSUME NEW g \in Agent,
             \/ \E n \in Node, c \in Code : PairNow(g, n, c)
             \/ RequestLost(g) \/ Select(g) \/ Update(g) \/ CreateDevice(g) \/ Enrolled(g)
      PROVE  IInv'
  <2>1. CASE RequestLost(g)
    BY <2>1, RefuseStep DEF RequestLost
  <2>2. QED
    BY <1>4, <2>1, PairNowStep, SelectStep, UpdateStep, CreateDeviceStep, EnrolledStep
<1>5. ASSUME NEW g \in Agent, NEW n \in Node,
             Unreachable(g, n) \/ AuthOk(g, n) \/ AuthFatal(g, n)
               \/ SelfRegister(n, g) \/ EnrollNow(g, n)
      PROVE  IInv'
  BY <1>5, UnreachableStep, AuthOkStep, AuthFatalStep, SelfRegisterStep, EnrollNowStep
<1>6. ASSUME NEW g \in Agent,
             \/ CheckToken(g) \/ WaitForConfig(g) \/ LoadConfig(g)
             \/ ServeEnds(g) \/ ServeBreaks(g) \/ Backoff(g) \/ Wake(g)
             \/ \E reset \in BOOLEAN : Stop(g, reset)
      PROVE  IInv'
  BY <1>6, CheckTokenStep, WaitForConfigStep, LoadConfigStep, ServeEndsStep,
     ServeBreaksStep, BackoffStep, WakeStep, StopStep
<1>7. CASE UNCHANGED vars
  <2>1. UNCHANGED <<dev, by, code, issues, req>>
    BY <1>7 DEF vars, hubVars, codeVars, agentVars
  <2>2. TypeOK' /\ AgentIsWhere' /\ ConfigIsOwn' /\ RoundIsKnown'
    BY <1>7 DEF vars, hubVars, codeVars, agentVars, IInv, TypeOK, AgentIsWhere, ConfigIsOwn,
                Own, RoundIsKnown, Known
  <2>3. QED
    BY <2>1, <2>2, LedgerUnchanged DEF IInv
<1>8. Loop \subseteq Agent
  BY EnrolmentAssumption
<1>9. QED
  BY <1>1, <1>2, <1>3, <1>4, <1>5, <1>6, <1>7, <1>8 DEF Next

\* The invariant holds throughout.
LEMMA Inductive == Spec => []IInv
BY InitIInv, IInvStep, PTL DEF Spec

\* The state of hub and agents stays within its type, and a running agent has
\* its configuration, through every stop, restart and lost answer.
THEOREM EnrolmentTypes == Spec => []TypeOK
BY Inductive, PTL DEF IInv

\* Every step that makes an agent give up is a refusal by a node that it knows,
\* or the deletion of its device.
LEMMA GivingUpStep ==
  ASSUME IInv, [Next]_vars, NEW g \in Agent, pc[g] # "exit", pc'[g] = "exit"
  PROVE  MayGiveUp(g)
<1> USE EnrolmentAssumption DEF IInv
<1>1. ASSUME NEW n \in Node, AuthFatal(g, n) PROVE MayGiveUp(g)
  <2>1. /\ pc[g] = "round" /\ n \in todo[g] /\ dev' = dev
        /\ node[n] = "fallback" \/ mem[g].dev \notin Shown(n)
    BY <1>1 DEF AuthFatal, GiveUp, hubVars
  <2>2. n \in Known(g) /\ mem[g].dev \in Device
    BY <2>1 DEF RoundIsKnown, TypeOK, Running, Cfg
  <2>3. CASE n \in Replica
    BY <2>1, <2>2, <2>3, Zenon DEF MayGiveUp, Shown
  <2>4. CASE n \notin Replica
    BY <2>1, <2>2, <2>4 DEF MayGiveUp, Shown, Paired
  <2>5. QED
    BY <2>3, <2>4
<1>2. ASSUME NEW d \in Device, NEW n \in Node, DeleteDevice(d, n) PROVE MayGiveUp(g)
  BY <1>2 DEF DeleteDevice, MayGiveUp, TypeOK
<1>3. ASSUME NEW h \in Agent, NEW n \in Node, AuthFatal(h, n), h # g PROVE FALSE
  BY <1>3 DEF AuthFatal, GiveUp, TypeOK
<1>4. ASSUME NEW n \in Node, NodeStops(n) PROVE FALSE
  BY <1>4 DEF NodeStops
<1>5. ASSUME \/ \E u \in User : \/ PurgeCodes(u) \/ InsertCodeFails(u)
                               \/ \E c \in Code : InsertCode(u, c)
             \/ \E n \in Node : NodeStarts(n) \/ Sync(n)
             \/ UNCHANGED vars
      PROVE  FALSE
  BY <1>5 DEF PurgeCodes, InsertCodeFails, InsertCode, NodeStarts, Sync, vars, agentVars
<1>6. ASSUME NEW h \in Agent,
             \/ \E n \in Node, c \in Code : PairNow(h, n, c)
             \/ RequestLost(h) \/ Select(h) \/ Update(h) \/ CreateDevice(h) \/ Enrolled(h)
      PROVE  FALSE
  BY <1>6 DEF PairNow, RequestLost, Refuse, Select, Update, Mark, CreateDevice, Enrolled,
              Run, TypeOK
<1>7. ASSUME NEW h \in Agent, NEW n \in Node,
             Unreachable(h, n) \/ AuthOk(h, n) \/ SelfRegister(n, h) \/ EnrollNow(h, n)
      PROVE  FALSE
  BY <1>7 DEF Unreachable, AuthOk, SelfRegister, EnrollNow, TypeOK
<1>8. ASSUME NEW h \in Agent,
             \/ CheckToken(h) \/ WaitForConfig(h) \/ LoadConfig(h)
             \/ ServeEnds(h) \/ ServeBreaks(h) \/ Backoff(h) \/ Wake(h)
             \/ \E reset \in BOOLEAN : Stop(h, reset)
      PROVE  FALSE
  BY <1>8 DEF CheckToken, Refuse, WaitForConfig, LoadConfig, Run, ServeEnds, ServeBreaks,
              Backoff, Wake, Stop, TypeOK
<1>9. QED
  BY <1>1, <1>2, <1>3, <1>4, <1>5, <1>6, <1>7, <1>8 DEF Next

\* An agent gives up for good (run_forever returns on a fatal refusal) only when
\* its device is unpaired, or some node that it knows does not show the device:
\* the node runs on its own database, or its replica is behind.
THEOREM GivingUpIsExplained == Spec => FatalExitIsExplained
<1>1. IInv /\ [Next]_vars =>
        [\A g \in Agent : pc[g] # "exit" /\ pc'[g] = "exit" => MayGiveUp(g)]_vars
  BY GivingUpStep
<1>2. QED
  BY <1>1, Inductive, PTL DEF Spec, FatalExitIsExplained

---------------------------------------------------------------------------
(* Enrolment implements PairingLedger.                                     *)

\* The ledger's entries: which issue made each device, in the order of the rows.
Entries == [d \in 1..Cardinality(Joined) |-> by[d]]

\* The next device is entered at the end of the ledger.
LEMMA InsertAppends ==
  ASSUME IInv, NEW d \in Device, NEW i \in 0..issues, Insert(d, i), issues' = issues
  PROVE  /\ Entries' = Append(Entries, i)
         /\ \A x \in DOMAIN Entries : x \in Device /\ Entries[x] = by[x]
<1> USE EnrolmentAssumption DEF IInv
<1>1. /\ dev[d] = "free" /\ dev'[d] = "live" /\ by'[d] = i
      /\ \A e \in Device \ {d} : dev'[e] = dev[e] /\ by'[e] = by[e]
  BY DeviceIsNew
<1>2. Joined = 1..(d - 1)
  <2>1. \A e \in 1..(d - 1) : e \in Device /\ dev[e] # "free"
    BY DEF Insert, NewDevice, Device
  <2>2. \A e \in Device : dev[e] # "free" => e < d
    BY <1>1 DEF DevicesInOrder, Device
  <2>3. QED
    BY <2>1, <2>2 DEF Joined, Device
<1>3. Joined' = 1..d
  BY <1>1, <1>2 DEF Joined, Device
<1>4. Cardinality(Joined) = d - 1 /\ Cardinality(Joined') = d /\ d \in Nat \ {0}
  <2>1. d \in Nat \ {0}
    BY DEF Device
  <2>2. Cardinality(1..(d - 1)) = d - 1 /\ Cardinality(1..d) = d
    BY <2>1, FS_Interval
  <2>3. QED
    BY <1>2, <1>3, <2>1, <2>2
<1>5. Entries = [x \in 1..(d - 1) |-> by[x]] /\ Entries' = [x \in 1..d |-> by'[x]]
  BY <1>4 DEF Entries
<1>6. \A x \in 1..d : x \in Device /\ by[x] \in Nat /\ by'[x] \in Nat
  BY <1>1 DEF DevicesInOrder, Device
<1>7. /\ Entries \in Seq(Nat) /\ Len(Entries) = d - 1
      /\ Entries' \in Seq(Nat) /\ Len(Entries') = d
  BY <1>4, <1>5, <1>6, LenProperties
<1>8. Entries' = Append(Entries, i)
  <2>1. /\ Append(Entries, i) \in Seq(Nat) /\ Len(Append(Entries, i)) = d
        /\ \A x \in 1..(d - 1) : Append(Entries, i)[x] = Entries[x]
        /\ Append(Entries, i)[d] = i
    BY <1>4, <1>7, AppendProperties
  <2>2. \A x \in 1..d : Entries'[x] = Append(Entries, i)[x]
    BY <1>1, <1>4, <1>5, <1>6, <2>1
  <2>3. QED
    BY <1>7, <2>1, <2>2, SeqEqual
<1>9. \A x \in DOMAIN Entries : x \in Device /\ Entries[x] = by[x]
  BY <1>2, <1>5 DEF Joined
<1>10. QED
  BY <1>8, <1>9

\* Whatever inserts no device leaves the ledger alone.
LEMMA NoInsertNoEntry ==
  ASSUME IInv, by' = by, \A d \in Device : dev[d] = "free" <=> dev'[d] = "free"
  PROVE  Entries' = Entries
BY DEF Entries, Joined

\* A code that was issued makes at most one device, whatever agents present it
\* at whatever nodes, and whatever expires, stops or is lost: Enrolment
\* implements the ledger.
THEOREM LedgerIsKept == Spec => CodesAreRedeemedOnce
<1>1. Init => Ledger!Init
  <2> SUFFICES ASSUME Init PROVE issues = 0 /\ Entries = << >>
    BY DEF Ledger!Init, Entries
  <2>1. Joined = {}
    BY DEF Init, Joined
  <2>2. Cardinality(Joined) = 0
    BY <2>1, FS_EmptySet
  <2>3. Entries \in Seq(Nat) /\ Len(Entries) = 0
    BY <2>2, LenProperties DEF Entries
  <2>4. QED
    BY <2>3, EmptySeq DEF Init
<1>2. IInv /\ [Next]_vars => [Ledger!Next]_<<issues, Entries>>
  <2> SUFFICES ASSUME IInv, [Next]_vars PROVE Ledger!Next \/ UNCHANGED <<issues, Entries>>
    OBVIOUS
  <2>1. ASSUME NEW g \in Agent, CreateDevice(g) PROVE Ledger!Next
    <3>1. req[g].pc = "insert" /\ issues' = issues
      BY <2>1 DEF CreateDevice, codeVars
    <3>2. req[g].issue \in 0..issues
      BY <3>1 DEF IInv, RequestIsWhole, TypeOK
    <3>3. PICK d \in Device : Insert(d, req[g].issue)
      BY <2>1 DEF CreateDevice
    <3>4. /\ Entries' = Append(Entries, req[g].issue)
          /\ \A x \in DOMAIN Entries : x \in Device /\ Entries[x] = by[x]
      BY <3>1, <3>2, <3>3, InsertAppends
    <3>5. CASE req[g].issue = 0
      BY <3>1, <3>4, <3>5 DEF Ledger!Next, Ledger!JoinWithoutCode, Entries
    <3>6. CASE req[g].issue # 0
      <4>1. \A e \in Device : by[e] # req[g].issue
        BY <3>1, <3>2, <3>6 DEF IInv, InsertsOnce, TypeOK
      <4>2. req[g].issue \in (1..issues) \ Ledger!Redeemed
        BY <3>2, <3>4, <3>6, <4>1 DEF Ledger!Redeemed, Entries, IInv, TypeOK
      <4>3. QED
        BY <3>1, <3>4, <4>2 DEF Ledger!Next, Ledger!Redeem, Entries
    <3>7. QED
      BY <3>5, <3>6
  <2>2. ASSUME NEW n \in Node, NEW g \in Agent, SelfRegister(n, g) PROVE Ledger!Next
    <3>1. PICK d \in Device : Insert(d, 0)
      BY <2>2 DEF SelfRegister
    <3>2. issues' = issues /\ 0 \in 0..issues
      BY <2>2 DEF SelfRegister, codeVars, IInv, TypeOK
    <3>3. Entries' = Append(Entries, 0)
      BY <3>1, <3>2, InsertAppends
    <3>4. QED
      BY <3>2, <3>3 DEF Ledger!Next, Ledger!JoinWithoutCode, Entries
  <2>3. ASSUME NEW u \in User, NEW c \in Code, InsertCode(u, c) PROVE Ledger!Next
    <3>1. issues' = issues + 1 /\ Entries' = Entries
      BY <2>3, NoInsertNoEntry DEF InsertCode
    <3>2. QED
      BY <3>1 DEF Ledger!Next, Ledger!GiveCode, Entries
  <2>4. ASSUME NEW d \in Device, NEW n \in Node, DeleteDevice(d, n)
        PROVE  UNCHANGED <<issues, Entries>>
    BY <2>4, NoInsertNoEntry DEF DeleteDevice, codeVars, IInv, TypeOK
  <2>5. ASSUME UNCHANGED <<dev, by, issues>> PROVE UNCHANGED <<issues, Entries>>
    BY <2>5, NoInsertNoEntry
  <2>6. ASSUME NEW n \in Node, NodeStops(n) \/ NodeStarts(n) \/ Sync(n)
        PROVE  UNCHANGED <<dev, by, issues>>
    BY <2>6 DEF NodeStops, NodeStarts, Sync, codeVars
  <2>7. ASSUME NEW g \in Agent,
               \/ \E n \in Node, c \in Code : PairNow(g, n, c)
               \/ RequestLost(g) \/ Select(g) \/ Update(g) \/ Enrolled(g)
        PROVE  UNCHANGED <<dev, by, issues>>
    BY <2>7 DEF PairNow, RequestLost, Select, Update, Enrolled, hubVars, codeVars
  <2>8. ASSUME NEW g \in Agent, NEW n \in Node,
               Unreachable(g, n) \/ AuthOk(g, n) \/ AuthFatal(g, n) \/ EnrollNow(g, n)
        PROVE  UNCHANGED <<dev, by, issues>>
    BY <2>8 DEF Unreachable, AuthOk, AuthFatal, GiveUp, EnrollNow, hubVars, codeVars
  <2>9. ASSUME NEW g \in Agent,
               \/ CheckToken(g) \/ WaitForConfig(g) \/ LoadConfig(g)
               \/ ServeEnds(g) \/ ServeBreaks(g) \/ Backoff(g) \/ Wake(g)
               \/ \E reset \in BOOLEAN : Stop(g, reset)
        PROVE  UNCHANGED <<dev, by, issues>>
    BY <2>9 DEF CheckToken, WaitForConfig, LoadConfig, ServeEnds, ServeBreaks, Backoff,
                Wake, Stop, hubVars, codeVars
  <2>10. ASSUME (\E u \in User : PurgeCodes(u) \/ InsertCodeFails(u)) \/ UNCHANGED vars
         PROVE  UNCHANGED <<dev, by, issues>>
    BY <2>10 DEF PurgeCodes, InsertCodeFails, vars, hubVars, codeVars
  <2>11. Loop \subseteq Agent
    BY EnrolmentAssumption
  <2>12. QED
    BY <2>1, <2>2, <2>3, <2>4, <2>5, <2>6, <2>7, <2>8, <2>9, <2>10, <2>11 DEF Next
<1>3. QED
  BY <1>1, <1>2, Inductive, PTL DEF Spec, CodesAreRedeemedOnce, Ledger!Spec, Entries

=============================================================================
