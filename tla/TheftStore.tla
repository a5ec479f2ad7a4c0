----------------------------- MODULE TheftStore -----------------------------
(***************************************************************************)
(* The store of theft mode's captures: a file on the hub node that made    *)
(* the capture and a theft_media row in the database all nodes share       *)
(* (_capture_to_store, theft_capture and theft_media_delete of hub/app.py, *)
(* add_theft_media, prune_theft_media and delete_theft_media of            *)
(* hub/db.py).  When captures are made is in module TheftLoop.             *)
(*                                                                         *)
(* A capture waits for the device's stream.  What follows (write the file, *)
(* insert the row, prune, unlink) never suspends the node's event loop,    *)
(* but it is several statements and system calls: other nodes, threads of  *)
(* the same node and crashes come between.                                 *)
(***************************************************************************)
EXTENDS Naturals, FiniteSets

CONSTANTS
  Node, Dev,         \* hub processes, devices
  Slot,              \* captures a node can have under way: its loop's, requests'
  NoNode, NoDev,
  Clock,             \* times the nodes' clocks show; they need not agree
  Retention,         \* the values VORTEX_THEFT_RETENTION takes on the nodes
  ForeignKeys,       \* does the shared database enforce references?
  MaxFiles           \* bound on the captures

ASSUME StoreAssumption ==
  /\ NoNode \notin Node /\ NoDev \notin Dev /\ Clock \subseteq Nat
  /\ Retention \subseteq Nat \ {0} /\ ForeignKeys \in BOOLEAN /\ MaxFiles \in Nat

VARIABLES
  paired,           \* the devices table
  at,               \* the node that holds each device's connection
  rows, nextRow,    \* theft_media and its AUTOINCREMENT
  files, nextFile,  \* the media stores of all nodes, and names not used yet
  cap,              \* captures under way
  del,              \* file that theft_media_delete has still to unlink (0: none)
  dirty,            \* history: a capture of the device ended between INSERT and DELETE
  limit             \* history: what its last pruning was to keep

vars == <<paired, at, rows, nextRow, files, nextFile, cap, del, dirty, limit>>

Row == [id: Nat, dev: Dev, created: Clock, node: Node, file: Nat]
Task == Node \X Slot
Storing == {"written", "inserted", "selected"}

\* old: the selected rows that are not deleted yet; paths: the files of the others.
Capture == [stage: {"idle", "streaming"} \cup Storing, dev: Dev \cup {NoDev},
            live: BOOLEAN, file: Nat, old: SUBSET Row, paths: SUBSET Nat]
Idle == [stage |-> "idle", dev |-> NoDev, live |-> FALSE, file |-> 0,
         old |-> {}, paths |-> {}]

RowsOf(d) == {r \in rows : r.dev = d}

\* Between two awaits a coroutine has the node's event loop to itself.
Free(n) == \A t \in Task : t[1] = n => cap[t].stage \notin Storing

Init ==
  /\ paired = Dev
  /\ at \in [Dev -> Node \cup {NoNode}]
  /\ rows = {} /\ nextRow = 1
  /\ files = {} /\ nextFile = 1
  /\ cap = [t \in Task |-> Idle]
  /\ del = [n \in Node |-> 0]
  /\ dirty = {}
  /\ limit = [d \in Dev |-> 0]

-----------------------------------------------------------------------------
(* _capture_to_store *)

\* theft_capture on the node that holds the connection (requests are relayed to
\* it), or a kind of a round of that node's loop: conn.stream.
StartCapture(t, d) ==
  /\ d \in paired /\ at[d] = t[1] /\ Free(t[1]) /\ cap[t].stage = "idle"
  /\ cap' = [cap EXCEPT ![t] = [Idle EXCEPT !.stage = "streaming", !.dev = d, !.live = TRUE]]
  /\ UNCHANGED <<paired, at, rows, nextRow, files, nextFile, del, dirty, limit>>

\* An error of the agent, a timeout, a lost connection, a full disk.
CaptureFails(t) ==
  /\ cap[t].stage = "streaming" /\ Free(t[1])
  /\ cap' = [cap EXCEPT ![t] = Idle]
  /\ UNCHANGED <<paired, at, rows, nextRow, files, nextFile, del, dirty, limit>>

\* The whole stream is here: the file gets a name of its own and is written.
WriteFile(t) ==
  /\ cap[t].stage = "streaming" /\ cap[t].live /\ Free(t[1]) /\ nextFile <= MaxFiles
  /\ files' = files \cup {<<t[1], nextFile>>}
  /\ nextFile' = nextFile + 1
  /\ cap' = [cap EXCEPT ![t].stage = "written", ![t].file = nextFile]
  /\ UNCHANGED <<paired, at, rows, nextRow, del, dirty, limit>>

\* Mutant of InsertRow: the row names the device, not the node.
InsertRowUntyped(t) ==
  /\ cap[t].stage = "written"
  /\ IF cap[t].dev \in paired \/ ~ForeignKeys
     THEN /\ \E ts \in Clock :
               rows' = rows \cup {[id |-> nextRow, dev |-> cap[t].dev, created |-> ts,
                                  node |-> cap[t].dev, file |-> cap[t].file]}
          /\ nextRow' = nextRow + 1
          /\ cap' = [cap EXCEPT ![t].stage = "inserted"]
     ELSE /\ cap' = [cap EXCEPT ![t] = Idle]
          /\ UNCHANGED <<rows, nextRow>>
  /\ UNCHANGED <<paired, at, files, nextFile, del, dirty, limit>>

\* add_theft_media; for a device that is gone the INSERT raises.
InsertRow(t) ==
  /\ cap[t].stage = "written"
  /\ IF cap[t].dev \in paired \/ ~ForeignKeys
     THEN /\ \E ts \in Clock :
               rows' = rows \cup {[id |-> nextRow, dev |-> cap[t].dev, created |-> ts,
                                  node |-> t[1], file |-> cap[t].file]}
          /\ nextRow' = nextRow + 1
          /\ cap' = [cap EXCEPT ![t].stage = "inserted"]
     ELSE /\ cap' = [cap EXCEPT ![t] = Idle]
          /\ UNCHANGED <<rows, nextRow>>
  /\ UNCHANGED <<paired, at, files, nextFile, del, dirty, limit>>

\* ORDER BY created_at DESC, id DESC
Newer(q, r) == q.created > r.created \/ (q.created = r.created /\ q.id > r.id)

\* Mutant of Excess: off by one.
ExcessOffByOne(d, keep) ==
  {r \in RowsOf(d) : Cardinality({q \in RowsOf(d) : Newer(q, r)}) > keep}

\* LIMIT -1 OFFSET keep
Excess(d, keep) ==
  {r \in RowsOf(d) : Cardinality({q \in RowsOf(d) : Newer(q, r)}) >= keep}

\* prune_theft_media: SELECT, with the limit this node is set to now ...
PruneSelect(t) ==
  /\ cap[t].stage = "inserted"
  /\ \E keep \in Retention :
       /\ cap' = [cap EXCEPT ![t].stage = "selected", ![t].old = Excess(cap[t].dev, keep)]
       /\ limit' = [limit EXCEPT ![cap[t].dev] = keep]
  /\ dirty' = dirty \ {cap[t].dev}
  /\ UNCHANGED <<paired, at, rows, nextRow, files, nextFile, del>>

\* ... and DELETE by id, a statement for each row in the order selected.
PruneDelete(t) ==
  /\ cap[t].stage = "selected"
  /\ \E r \in cap[t].old :
       /\ \A q \in cap[t].old : ~Newer(q, r)
       /\ rows' = rows \ {r}
       /\ cap' = [cap EXCEPT ![t].old = @ \ {r}, ![t].paths = @ \cup {r.file}]
  /\ UNCHANGED <<paired, at, nextRow, files, nextFile, del, dirty, limit>>

\* When all are deleted their files go, as far as they are in this node's store.
Unlink(t) ==
  /\ cap[t].stage = "selected" /\ cap[t].old = {}
  /\ files' = files \ {<<t[1], f>> : f \in cap[t].paths}
  /\ cap' = [cap EXCEPT ![t] = Idle]
  /\ UNCHANGED <<paired, at, rows, nextRow, nextFile, del, dirty, limit>>

Unpruned(t) == cap[t].stage = "inserted" \/ (cap[t].stage = "selected" /\ cap[t].old # {})

\* A statement fails at a remote database and the exception ends the capture, or
\* the unlinking does: rows deleted by then leave their files behind.
StoreFails(t) ==
  /\ cap[t].stage \in Storing
  /\ dirty' = dirty \cup (IF Unpruned(t) THEN {cap[t].dev} ELSE {})
  /\ cap' = [cap EXCEPT ![t] = Idle]
  /\ UNCHANGED <<paired, at, rows, nextRow, files, nextFile, del, limit>>

-----------------------------------------------------------------------------
(* theft_media_delete, in a thread of node n *)

\* Mutant of MediaDelete: the file is unlinked while its row is still there.
MediaDeleteFileFirst(n) ==
  /\ del[n] = 0
  /\ \E r \in rows : del' = [del EXCEPT ![n] = r.file]
  /\ UNCHANGED <<paired, at, rows, nextRow, files, nextFile, cap, dirty, limit>>

MediaDelete(n) ==
  /\ del[n] = 0
  /\ \E r \in rows : /\ r.dev \in paired
                     /\ rows' = rows \ {r}
                     /\ del' = [del EXCEPT ![n] = r.file]
  /\ UNCHANGED <<paired, at, nextRow, files, nextFile, cap, dirty, limit>>

MediaUnlink(n) ==
  /\ del[n] # 0
  /\ files' = files \ {<<n, del[n]>>}
  /\ del' = [del EXCEPT ![n] = 0]
  /\ UNCHANGED <<paired, at, rows, nextRow, nextFile, cap, dirty, limit>>

-----------------------------------------------------------------------------
(* The world outside *)

\* The device's connection ends, and it may have a new one, here or elsewhere.
DeviceMoves(d, n) ==
  /\ at[d] # NoNode \/ n # NoNode
  /\ at' = [at EXCEPT ![d] = n]
  /\ cap' = [t \in Task |-> [cap[t] EXCEPT !.live = @ /\ cap[t].dev # d]]
  /\ UNCHANGED <<paired, rows, nextRow, files, nextFile, del, dirty, limit>>

\* Unpairing: where references are enforced the rows go, without their files.
DeviceDelete(d) ==
  /\ d \in paired
  /\ paired' = paired \ {d}
  /\ rows' = IF ForeignKeys THEN rows \ RowsOf(d) ELSE rows
  /\ UNCHANGED <<at, nextRow, files, nextFile, cap, del, dirty, limit>>

Crash(n) ==
  /\ dirty' = dirty \cup {cap[t].dev : t \in {u \in Task : u[1] = n /\ Unpruned(u)}}
  /\ cap' = [t \in Task |-> IF t[1] = n THEN Idle ELSE cap[t]]
  /\ del' = [del EXCEPT ![n] = 0]
  /\ at' = [d \in Dev |-> IF at[d] = n THEN NoNode ELSE at[d]]
  /\ UNCHANGED <<paired, rows, nextRow, files, nextFile, limit>>

-----------------------------------------------------------------------------

CaptureToStore(t) ==
  \/ CaptureFails(t) \/ WriteFile(t) \/ InsertRow(t)
  \/ PruneSelect(t) \/ PruneDelete(t) \/ Unlink(t) \/ StoreFails(t)

Next ==
  \/ \E t \in Task : CaptureToStore(t)
  \/ \E t \in Task, d \in Dev : StartCapture(t, d)
  \/ \E n \in Node : MediaDelete(n) \/ MediaUnlink(n) \/ Crash(n)
  \/ \E d \in Dev, n \in Node \cup {NoNode} : DeviceMoves(d, n)
  \/ \E d \in Dev : DeviceDelete(d)

Spec == Init /\ [][Next]_vars

-----------------------------------------------------------------------------
(* Properties *)

\* The type invariant of theft_media, the media stores and the captures.
TypeOK ==
  /\ paired \subseteq Dev /\ at \in [Dev -> Node \cup {NoNode}]
  /\ rows \subseteq Row /\ nextRow \in Nat
  /\ files \subseteq Node \X Nat /\ nextFile \in Nat \ {0}
  /\ cap \in [Task -> Capture]
  /\ \A t \in Task : cap[t].stage # "idle" => cap[t].dev \in Dev
  /\ del \in [Node -> Nat] /\ dirty \subseteq Dev /\ limit \in [Dev -> Nat]

\* Every theft_media row has its file in the store of the node that made the
\* capture, whatever is pruned and deleted meanwhile on that node or another,
\* and wherever a node dies: files come before their rows and go after them.
RowHasFile ==
  \A r \in rows : <<r.node, r.file>> \in files

\* Retention: when no capture of a device is between its INSERT and the end of
\* its pruning, and none ended there, the device has at most the rows that its
\* last pruning was to keep, although nodes prune concurrently, from selections
\* that are out of date and with limits of their own.
RetentionHolds ==
  \A d \in Dev : d \notin dirty /\ (\A t \in Task : cap[t].dev = d => ~Unpruned(t))
    => Cardinality(RowsOf(d)) <= limit[d]

=============================================================================
