------------------------------- MODULE Upload -------------------------------
(***************************************************************************)
(* A browser's PUT travels through the hub into a file on the device:      *)
(* device_upload (hub/app.py), AgentConnection.upload (hub/ws_router.py),  *)
(* the agent's _serve_ws, Session and op_write_file (agent/agent.py).      *)
(* The agent starts op_write_file as a task and goes on reading frames, so *)
(* chunks may arrive before the task has opened its queue.  The ".part"    *)
(* file belongs to the path, not to the upload.                            *)
(*                                                                         *)
(* A chunk is one unit of the file; f.write reaches the file at once.      *)
(***************************************************************************)
EXTENDS Naturals, Sequences

CONSTANTS
  Up,         \* uploads (request ids)
  Path,       \* target files
  NoUp,
  Sized,      \* uploads whose Content-Length is known
  Size,       \* chunks in the body of each upload
  MaxDrops    \* bound on connection losses and ends of the agent

ASSUME UploadAssumption ==
  NoUp \notin Up /\ Sized \subseteq Up /\ Size \in [Up -> Nat] /\ MaxDrops \in Nat

VARIABLES
  path,       \* the target of each upload
  hub,        \* where upload() is, or what the browser was told
  nsent,      \* chunks the hub has sent
  ended,      \* the hub has sent stream_end
  fut,        \* the agent's answer, on its way or arrived
  wire,       \* frames to the agent, in flight or buffered by its socket
  pending_binary_for_rid,
  recv_queue, \* Session._recv_queues; meaningful for the uploads in opened
  opened,
  task,       \* op_write_file of each upload
  handle,     \* the file it writes: a file is named by the upload that created it
  written,
  content,    \* what each file holds
  tmp, final, \* the file at <path>.part and at <path>
  left,       \* history: the paths whose last write an end of the agent cut off
  drops

hubVars == <<hub, nsent, ended>>
sessionVars == <<pending_binary_for_rid, recv_queue, opened>>
fileVars == <<handle, written, content, tmp, final, left>>
vars == <<path, hubVars, fut, wire, sessionVars, task, fileVars, drops>>

Frame == [type: {"request", "header", "binary", "end"}, id: Up \cup {NoUp},
          src: Up \cup {NoUp}, n: Nat]
Text(t, u) == [type |-> t, id |-> u, src |-> NoUp, n |-> 0]
Binary(u, k) == [type |-> "binary", id |-> NoUp, src |-> u, n |-> k]

Active == {"sending", "waiting"}
Told == {"ok", "warning", "error", "timeout", "aborted"}
Cell == Up \X Nat
Hole == <<NoUp, 0>>

\* What the browser wants at the path.
Body(u) == [k \in 1..Size[u] |-> <<u, k>>]

Init ==
  /\ path \in [Up -> Path]
  /\ hub = [u \in Up |-> "idle"]
  /\ nsent = [u \in Up |-> 0]
  /\ ended = [u \in Up |-> FALSE]
  /\ fut = [u \in Up |-> "pending"]
  /\ wire = <<>>
  /\ pending_binary_for_rid = NoUp
  /\ recv_queue = [u \in Up |-> <<>>]
  /\ opened = {}
  /\ task = [u \in Up |-> "none"]
  /\ handle = [u \in Up |-> NoUp]
  /\ written = [u \in Up |-> 0]
  /\ content = [u \in Up |-> <<>>]
  /\ tmp = [p \in Path |-> NoUp]
  /\ final = [p \in Path |-> NoUp]
  /\ left = {}
  /\ drops = 0

-----------------------------------------------------------------------------
(* The hub: device_upload and AgentConnection.upload *)

SendRequest(u) ==
  /\ hub[u] = "idle"
  /\ hub' = [hub EXCEPT ![u] = "sending"]
  /\ wire' = Append(wire, Text("request", u))
  /\ UNCHANGED <<path, nsent, ended, fut, sessionVars, task, fileVars, drops>>

\* The header and the bytes go out under one hold of _send_lock.
SendChunk(u) ==
  /\ hub[u] = "sending" /\ nsent[u] < Size[u]
  /\ nsent' = [nsent EXCEPT ![u] = @ + 1]
  /\ wire' = wire \o <<Text("header", u), Binary(u, nsent[u] + 1)>>
  /\ UNCHANGED <<path, hub, ended, fut, sessionVars, task, fileVars, drops>>

SendEnd(u) ==
  /\ hub[u] = "sending" /\ nsent[u] = Size[u]
  /\ hub' = [hub EXCEPT ![u] = "waiting"]
  /\ ended' = [ended EXCEPT ![u] = TRUE]
  /\ wire' = Append(wire, Text("end", u))
  /\ UNCHANGED <<path, nsent, fut, sessionVars, task, fileVars, drops>>

\* The browser goes away in the middle of the body: request.stream() raises,
\* upload() unwinds, and the agent is told nothing.
ClientGone(u) ==
  /\ hub[u] = "sending" /\ nsent[u] < Size[u]
  /\ hub' = [hub EXCEPT ![u] = "aborted"]
  /\ UNCHANGED <<path, nsent, ended, fut, wire, sessionVars, task, fileVars, drops>>

UploadReturn(u) ==
  /\ hub[u] = "waiting" /\ fut[u] # "pending"
  /\ hub' = [hub EXCEPT ![u] = fut[u]]
  /\ UNCHANGED <<path, nsent, ended, fut, wire, sessionVars, task, fileVars, drops>>

\* wait_for(fut, 600 s)
UploadTimeout(u) ==
  /\ hub[u] = "waiting" /\ fut[u] = "pending"
  /\ hub' = [hub EXCEPT ![u] = "timeout"]
  /\ UNCHANGED <<path, nsent, ended, fut, wire, sessionVars, task, fileVars, drops>>

\* The connection is lost and the agent makes a new one.  Frames and answers
\* on their way are lost and every caller fails; the tasks of the old session
\* are not cancelled.
Drop ==
  /\ drops < MaxDrops /\ \E u \in Up : hub[u] \in Active
  /\ drops' = drops + 1
  /\ wire' = <<>>
  /\ pending_binary_for_rid' = NoUp
  /\ hub' = [u \in Up |-> IF hub[u] \in Active THEN "error" ELSE hub[u]]
  /\ UNCHANGED <<path, nsent, ended, fut, recv_queue, opened, task, fileVars>>

-----------------------------------------------------------------------------
(* The agent: _serve_ws and Session *)

\* create_task(_handle_request): the task runs some time later.
RouteRequest(msg) ==
  /\ msg.type = "request"
  /\ task' = [task EXCEPT ![msg.id] = "created"]
  /\ UNCHANGED sessionVars

RouteHeader(msg) ==
  /\ msg.type = "header"
  /\ pending_binary_for_rid' = msg.id
  /\ UNCHANGED <<recv_queue, opened, task>>

\* A frame for which no queue is open is dropped.
Put(u, msg) ==
  recv_queue' = [v \in Up |-> IF v = u /\ v \in opened
                              THEN Append(recv_queue[v], msg) ELSE recv_queue[v]]

\* Mutant of RouteBinary: the first open queue gets the bytes.
RouteBinaryAnywhere(msg) ==
  /\ msg.type = "binary"
  /\ \E u \in Up : Put(u, msg)
  /\ pending_binary_for_rid' = NoUp
  /\ UNCHANGED <<opened, task>>

\* route_binary_frame
RouteBinary(msg) ==
  /\ msg.type = "binary"
  /\ Put(pending_binary_for_rid, msg)
  /\ pending_binary_for_rid' = NoUp
  /\ UNCHANGED <<opened, task>>

RouteEnd(msg) ==
  /\ msg.type = "end"
  /\ Put(msg.id, msg)
  /\ UNCHANGED <<pending_binary_for_rid, opened, task>>

AgentReceive ==
  /\ wire # <<>>
  /\ LET msg == Head(wire) IN
     RouteRequest(msg) \/ RouteHeader(msg) \/ RouteBinary(msg) \/ RouteEnd(msg)
  /\ wire' = Tail(wire)
  /\ UNCHANGED <<path, hubVars, fut, fileVars, drops>>

-----------------------------------------------------------------------------
(* The agent: op_write_file *)

\* The task ends: close_recv, and the response is sent.
Respond(u, state, answer) ==
  /\ task' = [task EXCEPT ![u] = state]
  /\ fut' = [fut EXCEPT ![u] = answer]
  /\ opened' = opened \ {u}
  /\ recv_queue' = [recv_queue EXCEPT ![u] = <<>>]

\* open_recv, then tmp.open("wb"), which truncates a file that is there already.
TaskStart(u) ==
  LET p == path[u]
      f == IF tmp[p] = NoUp THEN u ELSE tmp[p] IN
  /\ task[u] = "created"
  /\ task' = [task EXCEPT ![u] = "writing"]
  /\ opened' = opened \cup {u}
  /\ handle' = [handle EXCEPT ![u] = f]
  /\ content' = [content EXCEPT ![f] = <<>>]
  /\ tmp' = [tmp EXCEPT ![p] = f]
  /\ left' = left \ {p}
  /\ UNCHANGED <<path, hubVars, fut, wire, pending_binary_for_rid, recv_queue,
                 written, final, drops>>

\* _safe_resolve refuses the path, it is a directory, or mkdir fails.
TaskReject(u) ==
  /\ task[u] = "created"
  /\ Respond(u, "failed", "error")
  /\ UNCHANGED <<path, hubVars, wire, pending_binary_for_rid, fileVars, drops>>

\* Write x as the k-th unit; a file truncated meanwhile gets a hole.
WriteAt(s, k, x) ==
  [i \in 1..(IF Len(s) < k THEN k ELSE Len(s)) |->
     IF i = k THEN x ELSE IF i <= Len(s) THEN s[i] ELSE Hole]

TaskChunk(u) ==
  /\ task[u] = "writing" /\ recv_queue[u] # <<>>
  /\ LET evt == Head(recv_queue[u]) IN
     /\ evt.type = "binary"
     /\ content' = [content EXCEPT ![handle[u]] =
                      WriteAt(@, written[u] + 1, <<evt.src, evt.n>>)]
  /\ written' = [written EXCEPT ![u] = @ + 1]
  /\ recv_queue' = [recv_queue EXCEPT ![u] = Tail(@)]
  /\ UNCHANGED <<path, hubVars, fut, wire, pending_binary_for_rid, opened, task,
                 handle, tmp, final, left, drops>>

\* Mutant of Verdict: an answer that upload() does not know.
VerdictMismatch(u) == IF u \in Sized /\ written[u] # Size[u] THEN "mismatch" ELSE "ok"

\* The size check comes after the rename and only adds a warning.
Verdict(u) == IF u \in Sized /\ written[u] # Size[u] THEN "warning" ELSE "ok"

\* stream_end: os.replace(tmp, p), which fails when .part is gone.
TaskFinish(u) ==
  LET p == path[u] IN
  /\ task[u] = "writing" /\ recv_queue[u] # <<>>
  /\ Head(recv_queue[u]).type = "end"
  /\ IF tmp[p] = NoUp
     THEN /\ Respond(u, "failed", "error")
          /\ UNCHANGED <<tmp, final>>
     ELSE /\ Respond(u, "done", Verdict(u))
          /\ final' = [final EXCEPT ![p] = tmp[p]]
          /\ tmp' = [tmp EXCEPT ![p] = NoUp]
  /\ UNCHANGED <<path, hubVars, wire, pending_binary_for_rid, handle, written,
                 content, left, drops>>

\* Mutant of TaskFail: the .part file is left.
TaskFailKeepsPart(u) ==
  /\ task[u] = "writing"
  /\ Respond(u, "failed", "error")
  /\ UNCHANGED <<path, hubVars, wire, pending_binary_for_rid, fileVars, drops>>

\* Mutant of TaskFail: queue.get() without a timeout.
TaskFailOnWriteOnly(u) ==
  /\ task[u] = "writing"
  /\ recv_queue[u] # <<>>
  /\ Respond(u, "failed", "error")
  /\ tmp' = [tmp EXCEPT ![path[u]] = NoUp]
  /\ UNCHANGED <<path, hubVars, wire, pending_binary_for_rid, handle, written,
                 content, final, left, drops>>

\* No event for 120 s, or opening, writing or renaming the file fails: whatever
\* is at .part is removed.
TaskFail(u) ==
  /\ task[u] = "writing"
  /\ Respond(u, "failed", "error")
  /\ tmp' = [tmp EXCEPT ![path[u]] = NoUp]
  /\ UNCHANGED <<path, hubVars, wire, pending_binary_for_rid, handle, written,
                 content, final, left, drops>>

Running == {"created", "writing"}

\* The agent's process ends and another one connects later: it is killed, or
\* run_forever returns and asyncio.run cancels the tasks.  A cancellation is
\* no Exception, so neither way removes a .part file, and nobody answers.
AgentExit ==
  /\ drops < MaxDrops /\ \E u \in Up : hub[u] \in Active \/ task[u] \in Running
  /\ drops' = drops + 1
  /\ wire' = <<>>
  /\ pending_binary_for_rid' = NoUp
  /\ hub' = [u \in Up |-> IF hub[u] \in Active THEN "error" ELSE hub[u]]
  /\ task' = [u \in Up |-> IF task[u] \in Running THEN "killed" ELSE task[u]]
  /\ opened' = {}
  /\ recv_queue' = [u \in Up |-> <<>>]
  /\ left' = left \cup {path[u] : u \in {v \in Up : task[v] = "writing"}}
  /\ UNCHANGED <<path, nsent, ended, fut, handle, written, content, tmp, final>>

-----------------------------------------------------------------------------

Task(u) == TaskStart(u) \/ TaskReject(u) \/ TaskChunk(u) \/ TaskFinish(u) \/ TaskFail(u)
Return(u) == UploadReturn(u) \/ UploadTimeout(u)

Next ==
  \/ \E u \in Up : \/ SendRequest(u) \/ SendChunk(u) \/ SendEnd(u) \/ ClientGone(u)
                   \/ Return(u) \/ Task(u)
  \/ AgentReceive
  \/ Drop
  \/ AgentExit

Spec == Init /\ [][Next]_vars

\* The agent's loop runs its tasks and fires their timeouts, the hub's fires
\* its own.  The browser may stall for ever in the middle of a body.
FairSpec ==
  /\ Spec
  /\ WF_vars(AgentReceive)
  /\ \A u \in Up : WF_vars(Task(u)) /\ WF_vars(Return(u))

-----------------------------------------------------------------------------
(* Properties *)

\* The type invariant of upload(), the agent's Session and the files it writes.
TypeOK ==
  /\ path \in [Up -> Path]
  /\ hub \in [Up -> {"idle"} \cup Active \cup Told]
  /\ nsent \in [Up -> Nat] /\ ended \in [Up -> BOOLEAN]
  /\ fut \in [Up -> {"pending", "ok", "warning", "error"}]
  /\ wire \in Seq(Frame)
  /\ pending_binary_for_rid \in Up \cup {NoUp}
  /\ recv_queue \in [Up -> Seq(Frame)] /\ opened \subseteq Up
  /\ task \in [Up -> {"none", "created", "writing", "done", "failed", "killed"}]
  /\ handle \in [Up -> Up \cup {NoUp}] /\ written \in [Up -> Nat]
  /\ content \in [Up -> Seq(Cell \cup {Hole})]
  /\ tmp \in [Path -> Up \cup {NoUp}] /\ final \in [Path -> Up \cup {NoUp}]
  /\ left \subseteq Path
  /\ drops \in 0..MaxDrops

Alone(u) == \A v \in Up \ {u} : path[v] # path[u]

\* An upload that has its path to itself is installed only after the hub sent
\* the whole body, and then what is installed is the body's end: chunks lost
\* before the task opened its queue leave a gap in front, never a gap in the
\* middle, a repetition, or a chunk of another upload on the same socket.
\* When moreover the browser is told "ok" without a warning about an upload of
\* known size, exactly the body is at the path.
InstalledAsTold ==
  \A u \in Up : Alone(u) =>
    /\ final[path[u]] = u =>
         /\ ended[u]
         /\ content[u] = SubSeq(Body(u), Size[u] - Len(content[u]) + 1, Size[u])
    /\ hub[u] = "ok" /\ u \in Sized =>
         final[path[u]] = u /\ content[u] = Body(u)

\* A .part file exists only while a task writes to that path, although the
\* tasks of several uploads share it, or from an end of the agent that cut such
\* a write off to the next upload to the path, whose task takes the file over.
\* And the queue of a task that is over is gone, so that frames that still
\* arrive for it are not kept.
NothingLeftBehind ==
  /\ \A p \in Path : tmp[p] # NoUp =>
       p \in left \/ \E u \in Up : path[u] = p /\ task[u] = "writing"
  /\ \A u \in Up : recv_queue[u] # <<>> => task[u] = "writing"

\* A write task always ends and gives up its queue, also when its connection
\* is gone or stream_end was lost before it listened.
UploadSettles ==
  \A u \in Up : task[u] = "created" ~> task[u] \in {"done", "failed", "killed"}

\* "a half-uploaded file never appears at the final path" (op_write_file).
FinalIsWhole ==
  \A p \in Path : final[p] # NoUp => \E u \in Up : path[u] = p /\ content[final[p]] = Body(u)

=============================================================================
