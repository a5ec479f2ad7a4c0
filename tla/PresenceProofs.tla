--------------------------- MODULE PresenceProofs ---------------------------
(***************************************************************************)
(* The registry and the presence row are right for any number of nodes and *)
(* connections, any max_age and any time that the pings take.              *)
(***************************************************************************)
EXTENDS Presence, TLAPS

\* A slot in use has its node; a free one is as Forget leaves it.
SlotsAreClean ==
  \A c \in Conn :
    /\ phase[c] # "free" => at[c] \in Node
    /\ phase[c] = "free" => /\ at[c] = NoNode /\ sock[c] = "down"
                            /\ ~published[c] /\ halfFor[c] = 0

\* A connection that supersedes holds its node's lock.
SupersederHasLock ==
  \A c \in Conn : phase[c] = "superseding" => lock[at[c]] = c

\* While it does, whatever was serving at that node is closed.
SupersededIsClosed ==
  \A c, d \in Conn :
    phase[c] = "superseding" /\ at[d] = at[c] /\ phase[d] \in {"acking", "serving"}
      => sock[d] = "down"

\* The registry of a node holds a connection of that node, which it has held
\* in this period.
RegisteredIsHere ==
  \A n \in Node : conns[n] # NoConn =>
    /\ at[conns[n]] = n /\ heldAgo[n] = 0
    /\ phase[conns[n]] \in {"acking", "serving", "ending"}

\* The only socket with an agent at its other end is the agent's, and the hub
\* ends that connection only when auth_ok fails, with no quiet time since.
AgentIsUp ==
  \A c \in Conn :
    /\ sock[c] = "up" <=> agentConn = c
    /\ phase[c] = "ending" /\ sock[c] = "up" => quiet = 0

\* A half-open socket is older than the quiet time and younger than the limit
\* of the pings.
HalfIsBounded ==
  \A c \in Conn :
    /\ halfFor[c] <= DetectTicks
    /\ sock[c] = "half" => halfFor[c] >= quiet

\* One period after the last event no connection is being set up, and two
\* after the pings' limit only the agent's is left.
QuietSettles ==
  \A c \in Conn :
    /\ quiet > 0 => \/ phase[c] \in {"free", "ending"}
                    \/ phase[c] = "serving" /\ sock[c] # "down"
    /\ quiet > DetectTicks => phase[c] = "free" \/ agentConn = c

\* From then on a heartbeat brings the row to the agent's node, and nothing
\* takes it away.
RowFollows ==
  agentConn # NoConn /\ paired /\ known[at[agentConn]] /\ quiet > DetectTicks
    => /\ beat[at[agentConn]] => row = at[agentConn] /\ age = 0
       /\ quiet > DetectTicks + 1 => row = at[agentConn] /\ age <= 1

\* The lock is held across old.ws.close() only.
LockIsForClosing ==
  \A n \in Node : lock[n] # NoConn =>
    at[lock[n]] = n /\ phase[lock[n]] = "superseding"

Wiring == SlotsAreClean /\ SupersederHasLock /\ SupersededIsClosed
            /\ RegisteredIsHere /\ LockIsForClosing /\ LiveIsRegistered
Settling == AgentIsUp /\ HalfIsBounded /\ QuietSettles /\ RowFollows
IInv == TypeOK /\ Wiring /\ FreshRowIsRecent /\ Settling

\* In the first states nothing is connected.
LEMMA InitIInv == Init => IInv
<1> SUFFICES ASSUME Init PROVE IInv
  OBVIOUS
<1> USE PresenceAssumption DEF Init
<1>1. TypeOK
  <2>1. /\ MaxAge + 1 \in 0..(MaxAge + 1) /\ 0 \in 0..(MaxAge + 1)
        /\ 0 \in 0..MaxQuiet /\ 0 \in Nat
    BY DEF MaxQuiet
  <2>2. QED
    BY <2>1 DEF TypeOK, Phase
<1>2. Wiring
  BY DEF Wiring, SlotsAreClean, SupersederHasLock, SupersededIsClosed,
         RegisteredIsHere, LockIsForClosing, LiveIsRegistered
<1>3. FreshRowIsRecent /\ Settling
  BY DEF FreshRowIsRecent, Settling, AgentIsUp, HalfIsBounded, QuietSettles,
         RowFollows
<1>4. QED
  BY <1>1, <1>2, <1>3 DEF IInv

\* A free slot is taken, and the quiet time begins again.
LEMMA ConnectStep ==
  ASSUME IInv, NEW c \in Conn, NEW n \in Node, Connect(c, n)
  PROVE  IInv'
<1> USE DEF IInv, Wiring, Settling, dbVars, nodeVars, connVars,
        agentVars, Connect
<1>1. TypeOK'
  BY PresenceAssumption DEF TypeOK, Phase, MaxQuiet
<1>2. Wiring'
  BY PresenceAssumption DEF TypeOK, SlotsAreClean, SupersederHasLock,
     SupersededIsClosed, RegisteredIsHere, LockIsForClosing, LiveIsRegistered
<1>3. FreshRowIsRecent'
  BY PresenceAssumption DEF TypeOK, FreshRowIsRecent
<1>4. Settling'
  BY PresenceAssumption DEF TypeOK, AgentIsUp, HalfIsBounded, QuietSettles,
     RowFollows
<1>5. QED
  BY <1>1, <1>2, <1>3, <1>4

\* The tail of register: the registry of the node gets the connection.  Either
\* nothing was registered, or what was has been closed under the lock.
LEMMA RegisteredStep ==
  ASSUME IInv, NEW c \in Conn, Registered(c),
         UNCHANGED <<paired, known, beat, at, sock, halfFor, agentVars, quiet>>,
         \/ /\ phase[c] \in {"connecting", "registering"}
            /\ lock[at[c]] = NoConn /\ conns[at[c]] = NoConn
         \/ phase[c] = "superseding"
  PROVE  IInv'
<1> USE DEF IInv, Wiring, Settling, dbVars, nodeVars, connVars,
        agentVars, Registered, Publish
<1>1. TypeOK'
  BY PresenceAssumption DEF TypeOK, Phase, SlotsAreClean
<1>2. /\ SlotsAreClean' /\ SupersederHasLock' /\ RegisteredIsHere'
      /\ LockIsForClosing'
  BY PresenceAssumption DEF TypeOK, SlotsAreClean, SupersederHasLock,
     RegisteredIsHere, LockIsForClosing
<1>3. SupersededIsClosed'
  BY PresenceAssumption DEF TypeOK, SupersededIsClosed, SupersederHasLock
<1>4. LiveIsRegistered'
  BY PresenceAssumption DEF TypeOK, LiveIsRegistered, SlotsAreClean,
     SupersededIsClosed
<1>5. FreshRowIsRecent'
  BY PresenceAssumption DEF TypeOK, FreshRowIsRecent
<1>6. AgentIsUp' /\ HalfIsBounded' /\ QuietSettles'
  BY PresenceAssumption DEF TypeOK, AgentIsUp, HalfIsBounded, QuietSettles
<1>7. RowFollows'
  BY PresenceAssumption DEF TypeOK, RowFollows, QuietSettles
<1>8. QED
  BY <1>1, <1>2, <1>3, <1>4, <1>5, <1>6, <1>7

\* The older connection is closed, with the lock held.
LEMMA SupersedeStep ==
  ASSUME IInv, NEW c \in Conn, phase[c] \in {"connecting", "registering"},
         lock[at[c]] = NoConn, conns[at[c]] # NoConn, EnterRegister(c)
  PROVE  IInv'
<1> USE DEF IInv, Wiring, Settling, dbVars, nodeVars, connVars,
        agentVars, EnterRegister, Registered
<1>1. TypeOK'
  BY PresenceAssumption DEF TypeOK, Phase, SlotsAreClean, MaxQuiet
<1>2. /\ SlotsAreClean' /\ RegisteredIsHere' /\ LockIsForClosing'
      /\ LiveIsRegistered'
  BY PresenceAssumption DEF TypeOK, SlotsAreClean, RegisteredIsHere,
     LockIsForClosing, LiveIsRegistered
<1>3. SupersederHasLock'
  BY PresenceAssumption DEF TypeOK, SupersederHasLock, SlotsAreClean
<1>4. SupersededIsClosed'
  BY PresenceAssumption DEF TypeOK, SupersededIsClosed, LiveIsRegistered
<1>5. FreshRowIsRecent'
  BY PresenceAssumption DEF TypeOK, FreshRowIsRecent
<1>6. Settling'
  BY PresenceAssumption DEF TypeOK, AgentIsUp, HalfIsBounded, QuietSettles,
     RowFollows
<1>7. QED
  BY <1>1, <1>2, <1>3, <1>4, <1>5, <1>6

\* Another connection holds the lock: ws_agent waits.
LEMMA WaitForLockStep ==
  ASSUME IInv, NEW c \in Conn, phase[c] = "connecting", phase' = [phase EXCEPT ![c] = "registering"],
         UNCHANGED <<dbVars, nodeVars, at, published, sock, halfFor, agentVars,
                     quiet, heldAgo>>
  PROVE  IInv'
<1> USE DEF IInv, Wiring, Settling, dbVars, nodeVars, connVars, agentVars
<1>1. TypeOK'
  BY PresenceAssumption DEF TypeOK, Phase
<1>2. Wiring'
  BY PresenceAssumption DEF TypeOK, SlotsAreClean, SupersederHasLock,
     SupersededIsClosed, RegisteredIsHere, LockIsForClosing, LiveIsRegistered
<1>3. FreshRowIsRecent'
  BY PresenceAssumption DEF TypeOK, FreshRowIsRecent
<1>4. Settling'
  BY PresenceAssumption DEF TypeOK, AgentIsUp, HalfIsBounded, QuietSettles,
     RowFollows
<1>5. QED
  BY <1>1, <1>2, <1>3, <1>4

\* A device that is not paired is refused.
LEMMA AuthFailsStep ==
  ASSUME IInv, NEW c \in Conn, AuthFails(c)
  PROVE  IInv'
<1> USE DEF IInv, Wiring, Settling, dbVars, nodeVars, connVars,
        agentVars, AuthFails, Forget
<1>1. TypeOK'
  BY PresenceAssumption DEF TypeOK, Phase
<1>2. Wiring'
  BY PresenceAssumption DEF TypeOK, SlotsAreClean, SupersederHasLock,
     SupersededIsClosed, RegisteredIsHere, LockIsForClosing, LiveIsRegistered
<1>3. FreshRowIsRecent'
  BY PresenceAssumption DEF TypeOK, FreshRowIsRecent
<1>4. Settling'
  BY PresenceAssumption DEF TypeOK, AgentIsUp, HalfIsBounded, QuietSettles,
     RowFollows
<1>5. QED
  BY <1>1, <1>2, <1>3, <1>4

\* A connection that never authenticates goes.
LEMMA FirstFrameLostStep ==
  ASSUME IInv, NEW c \in Conn, FirstFrameLost(c)
  PROVE  IInv'
<1> USE DEF IInv, Wiring, Settling, dbVars, nodeVars, connVars,
        agentVars, FirstFrameLost, Forget
<1>1. TypeOK'
  BY PresenceAssumption DEF TypeOK, Phase
<1>2. Wiring'
  BY PresenceAssumption DEF TypeOK, SlotsAreClean, SupersederHasLock,
     SupersededIsClosed, RegisteredIsHere, LockIsForClosing, LiveIsRegistered
<1>3. FreshRowIsRecent'
  BY PresenceAssumption DEF TypeOK, FreshRowIsRecent
<1>4. AgentIsUp' /\ HalfIsBounded' /\ QuietSettles'
  BY PresenceAssumption DEF TypeOK, AgentIsUp, HalfIsBounded, QuietSettles
<1>5. RowFollows'
  BY PresenceAssumption DEF TypeOK, RowFollows, AgentIsUp
<1>6. QED
  BY <1>1, <1>2, <1>3, <1>4, <1>5

\* auth_ok is sent.
LEMMA AckStep ==
  ASSUME IInv, NEW c \in Conn, Ack(c)
  PROVE  IInv'
<1> USE DEF IInv, Wiring, Settling, dbVars, nodeVars, connVars,
        agentVars, Ack
<1>1. TypeOK'
  BY PresenceAssumption DEF TypeOK, Phase
<1>2. Wiring'
  BY PresenceAssumption DEF TypeOK, SlotsAreClean, SupersederHasLock,
     SupersededIsClosed, RegisteredIsHere, LockIsForClosing, LiveIsRegistered
<1>3. FreshRowIsRecent'
  BY PresenceAssumption DEF TypeOK, FreshRowIsRecent
<1>4. Settling'
  BY PresenceAssumption DEF TypeOK, AgentIsUp, HalfIsBounded, QuietSettles,
     RowFollows
<1>5. QED
  BY <1>1, <1>2, <1>3, <1>4

\* auth_ok cannot be sent.
LEMMA AckFailsStep ==
  ASSUME IInv, NEW c \in Conn, AckFails(c)
  PROVE  IInv'
<1> USE DEF IInv, Wiring, Settling, dbVars, nodeVars, connVars,
        agentVars, AckFails
<1>1. TypeOK'
  BY PresenceAssumption DEF TypeOK, Phase, MaxQuiet
<1>2. Wiring'
  BY PresenceAssumption DEF TypeOK, SlotsAreClean, SupersederHasLock,
     SupersededIsClosed, RegisteredIsHere, LockIsForClosing, LiveIsRegistered
<1>3. FreshRowIsRecent'
  BY PresenceAssumption DEF TypeOK, FreshRowIsRecent
<1>4. Settling'
  BY PresenceAssumption DEF TypeOK, AgentIsUp, HalfIsBounded, QuietSettles,
     RowFollows
<1>5. QED
  BY <1>1, <1>2, <1>3, <1>4

\* The receive loop ends.
LEMMA NoticeDisconnectStep ==
  ASSUME IInv, NEW c \in Conn, NoticeDisconnect(c)
  PROVE  IInv'
<1> USE DEF IInv, Wiring, Settling, dbVars, nodeVars, connVars,
        agentVars, NoticeDisconnect
<1>1. TypeOK'
  BY PresenceAssumption DEF TypeOK, Phase
<1>2. Wiring'
  BY PresenceAssumption DEF TypeOK, SlotsAreClean, SupersederHasLock,
     SupersededIsClosed, RegisteredIsHere, LockIsForClosing, LiveIsRegistered
<1>3. FreshRowIsRecent'
  BY PresenceAssumption DEF TypeOK, FreshRowIsRecent
<1>4. Settling'
  BY PresenceAssumption DEF TypeOK, AgentIsUp, HalfIsBounded, QuietSettles,
     RowFollows
<1>5. QED
  BY <1>1, <1>2, <1>3, <1>4

\* The clean-up removes the connection from the registry if it is still there,
\* and the row of its node; when it is quiet nobody is cleaning up any more.
LEMMA UnregisterStep ==
  ASSUME IInv, NEW c \in Conn, Unregister(c)
  PROVE  IInv'
<1> USE DEF IInv, Wiring, Settling, dbVars, nodeVars, connVars,
        agentVars, Unregister, Forget, ClearRow
<1>1. TypeOK'
  BY PresenceAssumption DEF TypeOK, Phase, SlotsAreClean
<1>2. Wiring'
  BY PresenceAssumption DEF TypeOK, SlotsAreClean, SupersederHasLock,
     SupersededIsClosed, RegisteredIsHere, LockIsForClosing, LiveIsRegistered
<1>3. FreshRowIsRecent'
  BY PresenceAssumption DEF TypeOK, FreshRowIsRecent
<1>4. AgentIsUp' /\ HalfIsBounded' /\ QuietSettles'
  BY PresenceAssumption DEF TypeOK, AgentIsUp, HalfIsBounded, QuietSettles
<1>5. RowFollows'
  BY PresenceAssumption DEF TypeOK, RowFollows, AgentIsUp, QuietSettles
<1>6. QED
  BY <1>1, <1>2, <1>3, <1>4, <1>5

\* A heartbeat publishes what the node holds, and so did hold just now.
LEMMA HeartbeatStep ==
  ASSUME IInv, NEW n \in Node, Heartbeat(n)
  PROVE  IInv'
<1> USE DEF IInv, Wiring, Settling, dbVars, nodeVars, connVars,
        agentVars, Heartbeat, Publish
<1>1. TypeOK'
  BY PresenceAssumption DEF TypeOK, Phase
<1>2. Wiring'
  BY PresenceAssumption DEF TypeOK, SlotsAreClean, SupersederHasLock,
     SupersededIsClosed, RegisteredIsHere, LockIsForClosing, LiveIsRegistered
<1>3. FreshRowIsRecent'
  BY PresenceAssumption DEF TypeOK, FreshRowIsRecent, RegisteredIsHere
<1>4. AgentIsUp' /\ HalfIsBounded' /\ QuietSettles'
  BY PresenceAssumption DEF TypeOK, AgentIsUp, HalfIsBounded, QuietSettles
<1>5. RowFollows'
  BY PresenceAssumption DEF TypeOK, RowFollows, SlotsAreClean,
     RegisteredIsHere, LiveIsRegistered, AgentIsUp, QuietSettles
<1>6. QED
  BY <1>1, <1>2, <1>3, <1>4, <1>5

\* A node learns its URL.
LEMMA LearnUrlStep ==
  ASSUME IInv, NEW n \in Node, LearnUrl(n)
  PROVE  IInv'
<1> USE DEF IInv, Wiring, Settling, dbVars, nodeVars, connVars,
        agentVars, LearnUrl
<1>1. TypeOK'
  BY PresenceAssumption DEF TypeOK, Phase, MaxQuiet
<1>2. Wiring'
  BY PresenceAssumption DEF TypeOK, SlotsAreClean, SupersederHasLock,
     SupersededIsClosed, RegisteredIsHere, LockIsForClosing, LiveIsRegistered
<1>3. FreshRowIsRecent'
  BY PresenceAssumption DEF TypeOK, FreshRowIsRecent
<1>4. Settling'
  BY PresenceAssumption DEF TypeOK, AgentIsUp, HalfIsBounded, QuietSettles,
     RowFollows
<1>5. QED
  BY <1>1, <1>2, <1>3, <1>4

\* A node loses its memory.
LEMMA CrashStep ==
  ASSUME IInv, NEW n \in Node, Crash(n)
  PROVE  IInv'
<1> USE DEF IInv, Wiring, Settling, dbVars, nodeVars, connVars,
        agentVars, Crash
<1>1. TypeOK'
  BY PresenceAssumption DEF TypeOK, Phase, MaxQuiet
<1>2. /\ SupersederHasLock' /\ SupersededIsClosed' /\ RegisteredIsHere'
      /\ LockIsForClosing' /\ LiveIsRegistered'
  BY PresenceAssumption DEF TypeOK, SupersederHasLock, SupersededIsClosed,
     RegisteredIsHere, LockIsForClosing, LiveIsRegistered
<1>3. SlotsAreClean'
  BY PresenceAssumption DEF TypeOK, SlotsAreClean
<1>4. FreshRowIsRecent'
  BY PresenceAssumption DEF TypeOK, FreshRowIsRecent
<1>5. Settling'
  BY PresenceAssumption DEF TypeOK, AgentIsUp, HalfIsBounded, QuietSettles,
     RowFollows
<1>6. QED
  BY <1>1, <1>2, <1>3, <1>4, <1>5

\* The device is unpaired.
LEMMA DeviceDeleteStep ==
  ASSUME IInv, NEW n \in Node, DeviceDelete(n)
  PROVE  IInv'
<1> USE DEF IInv, Wiring, Settling, dbVars, nodeVars, connVars,
        agentVars, DeviceDelete, ClearRow
<1>1. TypeOK'
  <2>1. row' \in Node \cup {NoNode} /\ age' \in 0..(MaxAge + 1) /\ quiet' \in 0..MaxQuiet
    BY PresenceAssumption DEF TypeOK, MaxQuiet
  <2>2. sock' \in [Conn -> {"up", "half", "down"}]
    BY DEF TypeOK
  <2>3. agentConn' \in Conn \cup {NoConn} /\ gaveUp' \in BOOLEAN
    BY DEF TypeOK
  <2>4. QED
    BY <2>1, <2>2, <2>3 DEF TypeOK
<1>2. Wiring'
  BY PresenceAssumption DEF TypeOK, SlotsAreClean, SupersederHasLock,
     SupersededIsClosed, RegisteredIsHere, LockIsForClosing, LiveIsRegistered
<1>3. FreshRowIsRecent'
  BY PresenceAssumption DEF TypeOK, FreshRowIsRecent
<1>4. Settling'
  BY PresenceAssumption DEF TypeOK, AgentIsUp, HalfIsBounded, QuietSettles,
     RowFollows
<1>5. QED
  BY <1>1, <1>2, <1>3, <1>4

\* The agent loses its connection.
LEMMA AgentDropsStep ==
  ASSUME IInv, AgentDrops
  PROVE  IInv'
<1> USE DEF IInv, Wiring, Settling, dbVars, nodeVars, connVars,
        agentVars, AgentDrops
<1>1. TypeOK'
  BY PresenceAssumption DEF TypeOK, Phase, MaxQuiet
<1>2. Wiring'
  BY PresenceAssumption DEF TypeOK, SlotsAreClean, SupersederHasLock,
     SupersededIsClosed, RegisteredIsHere, LockIsForClosing, LiveIsRegistered
<1>3. FreshRowIsRecent'
  BY PresenceAssumption DEF TypeOK, FreshRowIsRecent
<1>4. Settling'
  BY PresenceAssumption DEF TypeOK, AgentIsUp, HalfIsBounded, QuietSettles,
     RowFollows
<1>5. QED
  BY <1>1, <1>2, <1>3, <1>4

\* A period ends.  Half-open sockets grow older and, being as old as the quiet
\* time, are gone when that exceeds the pings' limit; the row is one period old.
LEMMA TickStep ==
  ASSUME IInv, Tick
  PROVE  IInv'
<1> USE DEF IInv, Wiring, Settling, dbVars, nodeVars, connVars,
        agentVars, Tick, Capped, MaxQuiet
<1>1. TypeOK'
  BY PresenceAssumption DEF TypeOK, Phase
<1>2. Wiring'
  BY PresenceAssumption DEF TypeOK, SlotsAreClean, SupersederHasLock,
     SupersededIsClosed, RegisteredIsHere, LockIsForClosing, LiveIsRegistered
<1>3. FreshRowIsRecent'
  BY PresenceAssumption DEF TypeOK, FreshRowIsRecent
<1>4. AgentIsUp'
  BY PresenceAssumption DEF TypeOK, AgentIsUp
<1>5. HalfIsBounded'
  BY PresenceAssumption DEF TypeOK, HalfIsBounded, SlotsAreClean
<1>6. QuietSettles'
  BY PresenceAssumption DEF TypeOK, QuietSettles, AgentIsUp, HalfIsBounded
<1>7. RowFollows'
  BY PresenceAssumption DEF TypeOK, RowFollows, SlotsAreClean, AgentIsUp
<1>8. QED
  BY <1>1, <1>2, <1>3, <1>4, <1>5, <1>6, <1>7

\* Every step keeps the invariant.
LEMMA IInvStep == IInv /\ [Next]_vars => IInv'
<1> SUFFICES ASSUME IInv, [Next]_vars PROVE IInv'
  OBVIOUS
<1>1. ASSUME NEW c \in Conn, phase[c] \in {"connecting", "registering"}, EnterRegister(c)
      PROVE  IInv'
  <2>1. CASE conns[at[c]] = NoConn
    BY <1>1, <2>1, RegisteredStep DEF EnterRegister, agentVars
  <2>2. CASE conns[at[c]] # NoConn
    BY <1>1, <2>2, SupersedeStep DEF EnterRegister
  <2>3. QED
    BY <2>1, <2>2
<1>2. ASSUME NEW c \in Conn, Authenticate(c) PROVE IInv'
  BY <1>1, <1>2, WaitForLockStep DEF Authenticate
<1>3. ASSUME NEW c \in Conn, Register(c) PROVE IInv'
  BY <1>1, <1>3 DEF Register
<1>4. ASSUME NEW c \in Conn, RegisterAfterClose(c) PROVE IInv'
  BY <1>4, RegisteredStep DEF RegisterAfterClose
<1>5. ASSUME NEW c \in Conn, HubStep(c) PROVE IInv'
  BY <1>2, <1>3, <1>4, <1>5, AuthFailsStep, FirstFrameLostStep, AckStep,
     AckFailsStep, UnregisterStep
     DEF HubStep
<1>6. CASE UNCHANGED vars
  BY <1>6 DEF vars, dbVars, nodeVars, connVars, agentVars, IInv, Wiring, Settling,
              TypeOK, SlotsAreClean, SupersederHasLock, SupersededIsClosed,
              RegisteredIsHere, LockIsForClosing, LiveIsRegistered, FreshRowIsRecent,
              AgentIsUp, HalfIsBounded, QuietSettles, RowFollows
<1>7. CASE Next
  BY <1>5, <1>7, NoticeDisconnectStep, ConnectStep, HeartbeatStep, LearnUrlStep,
     CrashStep, DeviceDeleteStep, AgentDropsStep, TickStep
     DEF Next
<1>8. QED
  BY <1>6, <1>7

\* The invariant holds throughout.
LEMMA Inductive == Spec => []IInv
BY InitIInv, IInvStep, PTL DEF Spec

\* Sockets, locks, connections and rows stay in their types.
THEOREM PresenceTypes == Spec => []TypeOK
<1>1. IInv => TypeOK
  BY DEF IInv
<1>2. QED
  BY <1>1, Inductive, PTL

\* The connection that ws_agent serves on an open socket is the one Registry.get
\* returns, whatever older connections clean up after it.
THEOREM RegistryIsRight == Spec => []LiveIsRegistered
<1>1. IInv => LiveIsRegistered
  BY DEF IInv, Wiring
<1>2. QED
  BY <1>1, Inductive, PTL

\* A presence row of some age names a node that held the device's connection at
\* most that long ago (publish_device_presence, the heartbeat, and clean-ups that
\* never ran).
THEOREM RowIsTrue == Spec => []FreshRowIsRecent
<1>1. IInv => FreshRowIsRecent
  BY DEF IInv
<1>2. QED
  BY <1>1, Inductive, PTL

\* Once it has been quiet for two periods more than the pings take, the relay
\* leads from every node to the agent's connection.
THEOREM RelaySettles == Spec => []ControlFromAnyNode
<1>1. IInv => ControlFromAnyNode
  <2> SUFFICES ASSUME IInv, agentConn # NoConn, paired, known[at[agentConn]],
                      quiet = MaxQuiet, NEW n \in Node
               PROVE  conns[Route(n)] = agentConn
    BY DEF ControlFromAnyNode
  <2> DEFINE m == at[agentConn]
  <2>1. agentConn \in Conn /\ quiet > 0 /\ quiet > DetectTicks + 1 /\ quiet > DetectTicks
    BY PresenceAssumption DEF IInv, TypeOK, MaxQuiet
  <2>2. phase[agentConn] = "serving" /\ sock[agentConn] = "up"
    BY <2>1 DEF IInv, Wiring, Settling, SlotsAreClean, AgentIsUp, QuietSettles
  <2>3. m \in Node /\ conns[m] = agentConn
    BY <2>1, <2>2 DEF IInv, Wiring, SlotsAreClean, LiveIsRegistered
  <2>4. row = m /\ age <= 1
    BY <2>1 DEF IInv, Settling, RowFollows
  <2>5. FreshRow = m
    BY <2>3, <2>4, PresenceAssumption DEF FreshRow, IInv, TypeOK
  <2>6. ASSUME n # m PROVE conns[n] = NoConn
    BY <2>1, <2>3, <2>6 DEF IInv, Wiring, Settling, TypeOK, RegisteredIsHere, QuietSettles
  <2>7. Route(n) = m
    BY <2>3, <2>5, <2>6, PresenceAssumption DEF Route
  <2>8. QED
    BY <2>3, <2>7
<1>2. QED
  BY <1>1, Inductive, PTL

=============================================================================
