------------------------------ MODULE WsRouter ------------------------------
(***************************************************************************)
(* One agent connection: hub/ws_router.py's AgentConnection on the hub     *)
(* side, agent/agent.py's Session and _handle_request on the device side,  *)
(* and the WebSocket between them.  Many calls (unary requests and         *)
(* streams) are multiplexed on the one socket.  A chunk travels as two     *)
(* frames, a text header that names the request and a binary frame that    *)
(* names nothing, so the hub relies on the agent's send lock to pair them. *)
(*                                                                         *)
(* A connection lives once: a reconnecting agent is a new AgentConnection. *)
(* Uploads (hub to agent) are in module Upload.                            *)
(***************************************************************************)
EXTENDS Naturals, Sequences, FiniteSets

CONSTANTS
  Unary,      \* request ids used by AgentConnection.request
  Stream,     \* request ids used by AgentConnection.stream
  NoRid,      \* Python's None where a request id is expected
  MaxCalls,   \* bound on the calls made on one connection
  MaxChunks   \* bound on the chunks they produce together

ASSUME RidAssumption ==
  /\ Unary \cap Stream = {}
  /\ NoRid \notin Unary \cup Stream

ASSUME BoundAssumption == MaxCalls \in Nat /\ MaxChunks \in Nat

VARIABLES
  caller,                  \* where each call of request()/stream() is, or how it ended
  pending_unary,           \* keys of AgentConnection._pending_unary
  fut,                     \* the future of each unary call
  pending_stream,          \* keys of AgentConnection._pending_stream
  queue,                   \* the asyncio.Queue of each stream
  started,                 \* stream(): has stream_start been seen
  delivered,               \* chunks stream() has yielded to its consumer
  pending_binary_for_rid,  \* which request the next binary frame belongs to
  link,                    \* "up" until either side closes or loses the socket
  reading,                 \* the receive loop of ws_agent is still running
  superseded,              \* Registry.register replaced this connection
  closed,                  \* AgentConnection._closed
  unregistered,            \* Registry.unregister has run
  toAgent, toHub,          \* frames in flight, oldest first
  received,                \* history: chunks of each stream the hub has taken off toHub
  op,                      \* the agent task that serves each request
  sent,                    \* chunks the agent has put on the wire
  send_lock                \* Session.send_lock: the stream inside send_chunk

callVars == <<caller, pending_unary, fut, pending_stream, queue, started, delivered>>
connVars == <<pending_binary_for_rid, link, reading, superseded, closed, unregistered>>
wireVars == <<toAgent, toHub, received>>
agentVars == <<op, sent, send_lock>>
vars == <<callVars, connVars, wireVars, agentVars>>

Rid == Unary \cup Stream

Active == {"sending", "waiting"}
Working == {"running", "streaming", "failing"}
Outcome == {"ok", "error", "timeout", "disconnected", "ended", "abandoned", "unsent"}

FrameType == {"response_ok", "response_err", "stream_start",
              "stream_chunk_header", "binary", "stream_end", "None"}

(***************************************************************************)
(* A text frame carries a type and a request id.  A binary frame carries   *)
(* only bytes; src and n say whose bytes they are (the n-th chunk of src)  *)
(* and are read by no handler.                                             *)
(***************************************************************************)
Frame == [type: FrameType, id: Rid \cup {NoRid}, src: Rid \cup {NoRid}, n: Nat]
Chunk == (Rid \cup {NoRid}) \X Nat
Text(t, r) == [type |-> t, id |-> r, src |-> NoRid, n |-> 0]
Binary(r, k) == [type |-> "binary", id |-> NoRid, src |-> r, n |-> k]

\* The None that close_pending puts into every stream queue.
Sentinel == Text("None", NoRid)

Init ==
  /\ caller = [r \in Rid |-> "idle"]
  /\ pending_unary = {}
  /\ fut = [r \in Rid |-> "none"]
  /\ pending_stream = {}
  /\ queue = [r \in Rid |-> <<>>]
  /\ started = [r \in Rid |-> FALSE]
  /\ delivered = [r \in Rid |-> <<>>]
  /\ pending_binary_for_rid = NoRid
  /\ link = "up"
  /\ reading = TRUE
  /\ superseded = FALSE
  /\ closed = FALSE
  /\ unregistered = FALSE
  /\ toAgent = <<>>
  /\ toHub = <<>>
  /\ received = [r \in Rid |-> 0]
  /\ op = [r \in Rid |-> "none"]
  /\ sent = [r \in Rid |-> 0]
  /\ send_lock = NoRid

-----------------------------------------------------------------------------
(* The hub's callers: request() and stream() *)

\* Mutant of Finish: a timeout leaves the entry behind.
FinishKeepsTimedOut(r, outcome) ==
  /\ caller' = [caller EXCEPT ![r] = outcome]
  /\ pending_unary' = IF outcome = "timeout" THEN pending_unary ELSE pending_unary \ {r}
  /\ pending_stream' = pending_stream \ {r}
  /\ queue' = [queue EXCEPT ![r] = <<>>]

\* The finally clause of request() and stream(): the table entry goes, and
\* the future or queue with it.
Finish(r, outcome) ==
  /\ caller' = [caller EXCEPT ![r] = outcome]
  /\ pending_unary' = pending_unary \ {r}
  /\ pending_stream' = pending_stream \ {r}
  /\ queue' = [queue EXCEPT ![r] = <<>>]

Called == {r \in Rid : caller[r] # "idle"}

\* Mutant of Call: stream() registers itself in the table of futures.
CallInOneTable(r) ==
  /\ caller[r] = "idle" /\ Cardinality(Called) < MaxCalls
  /\ caller' = [caller EXCEPT ![r] = "sending"]
  /\ pending_unary' = pending_unary \cup {r}
  /\ fut' = [fut EXCEPT ![r] = "pending"]
  /\ UNCHANGED <<pending_stream, queue, started, delivered, connVars, wireVars, agentVars>>

\* A handler may hold a connection it looked up before the connection
\* closed (_closed is never read), so a call can start at any time.
Call(r) ==
  /\ caller[r] = "idle" /\ Cardinality(Called) < MaxCalls
  /\ caller' = [caller EXCEPT ![r] = "sending"]
  /\ IF r \in Unary
     THEN /\ pending_unary' = pending_unary \cup {r}
          /\ fut' = [fut EXCEPT ![r] = "pending"]
          /\ UNCHANGED pending_stream
     ELSE /\ pending_stream' = pending_stream \cup {r}
          /\ UNCHANGED <<pending_unary, fut>>
  /\ UNCHANGED <<queue, started, delivered, connVars, wireVars, agentVars>>

SendRequest(r) ==
  /\ caller[r] = "sending"
  /\ link = "up"
  /\ toAgent' = Append(toAgent, r)
  /\ caller' = [caller EXCEPT ![r] = "waiting"]
  /\ UNCHANGED <<pending_unary, fut, pending_stream, queue, started, delivered,
                 connVars, toHub, received, agentVars>>

\* On a socket that is gone the server either raises from send_json or
\* drops the frame, depending on how far the close has got.
SendRequestOnDeadSocket(r) ==
  /\ caller[r] = "sending"
  /\ link = "down"
  /\ \/ Finish(r, "unsent")
     \/ /\ caller' = [caller EXCEPT ![r] = "waiting"]
        /\ UNCHANGED <<pending_unary, pending_stream, queue>>
  /\ UNCHANGED <<fut, started, delivered, connVars, wireVars, agentVars>>

UnaryReturn(r) ==
  /\ r \in Unary /\ caller[r] = "waiting"
  /\ \/ fut[r] = "result_ok" /\ Finish(r, "ok")
     \/ fut[r] = "result_err" /\ Finish(r, "error")
     \/ fut[r] = "exception" /\ Finish(r, "disconnected")
  /\ UNCHANGED <<fut, started, delivered, connVars, wireVars, agentVars>>

UnaryTimeout(r) ==
  /\ r \in Unary /\ caller[r] = "waiting"
  /\ fut[r] = "pending"
  /\ Finish(r, "timeout")
  /\ UNCHANGED <<fut, started, delivered, connVars, wireVars, agentVars>>

\* One turn of stream()'s loop that takes a message from the queue.
StreamNext(r) ==
  /\ r \in Stream /\ caller[r] = "waiting"
  /\ queue[r] # <<>>
  /\ LET msg == Head(queue[r]) IN
     \/ /\ msg.type = "None"
        /\ Finish(r, "disconnected")
        /\ UNCHANGED <<started, delivered>>
     \/ /\ msg.type = "response_err"
        /\ Finish(r, "error")
        /\ UNCHANGED <<started, delivered>>
     \/ /\ msg.type = "stream_end"
        /\ Finish(r, "ended")
        /\ UNCHANGED <<started, delivered>>
     \/ /\ msg.type = "stream_start"
        /\ started' = [started EXCEPT ![r] = TRUE]
        /\ queue' = [queue EXCEPT ![r] = Tail(@)]
        /\ UNCHANGED <<caller, pending_unary, pending_stream, delivered>>
     \/ /\ msg.type = "binary"
        /\ delivered' = [delivered EXCEPT ![r] = Append(@, <<msg.src, msg.n>>)]
        /\ queue' = [queue EXCEPT ![r] = Tail(@)]
        /\ UNCHANGED <<caller, pending_unary, pending_stream, started>>
  /\ UNCHANGED <<fut, connVars, wireVars, agentVars>>

\* Only the wait for stream_start has a timeout; afterwards q.get() is bare.
StreamStartTimeout(r) ==
  /\ r \in Stream /\ caller[r] = "waiting"
  /\ ~started[r] /\ queue[r] = <<>>
  /\ Finish(r, "timeout")
  /\ UNCHANGED <<fut, started, delivered, connVars, wireVars, agentVars>>

\* The consumer stops iterating (the browser went away).
StreamAbandon(r) ==
  /\ r \in Stream /\ caller[r] = "waiting"
  /\ Finish(r, "abandoned")
  /\ UNCHANGED <<fut, started, delivered, connVars, wireVars, agentVars>>

-----------------------------------------------------------------------------
(* The hub's receive loop: handle_incoming, handle_incoming_binary *)

\* Mutant of Put: a bounded queue that drops what does not fit.
PutBounded(r, msg) ==
  queue' = [q \in Rid |-> IF q = r /\ q \in pending_stream /\ queue[q] = <<>>
                          THEN Append(queue[q], msg) ELSE queue[q]]

\* q.put on the queue registered for r; a frame for nobody is dropped.
Put(r, msg) ==
  queue' = [q \in Rid |-> IF q = r /\ q \in pending_stream
                          THEN Append(queue[q], msg) ELSE queue[q]]

\* Mutant of HandleResponse: any response resolves the future as a success.
HandleResponseAsOk(msg) ==
  /\ msg.type \in {"response_ok", "response_err"}
  /\ IF msg.id \in pending_unary /\ fut[msg.id] = "pending"
     THEN /\ fut' = [fut EXCEPT ![msg.id] = "result_ok"]
          /\ UNCHANGED queue
     ELSE /\ Put(msg.id, msg)
          /\ UNCHANGED fut
  /\ UNCHANGED <<pending_binary_for_rid, received>>

HandleResponse(msg) ==
  /\ msg.type \in {"response_ok", "response_err"}
  /\ IF msg.id \in pending_unary /\ fut[msg.id] = "pending"
     THEN /\ fut' = [fut EXCEPT ![msg.id] = IF msg.type = "response_ok"
                                            THEN "result_ok" ELSE "result_err"]
          /\ UNCHANGED queue
     ELSE /\ Put(msg.id, msg)
          /\ UNCHANGED fut
  /\ UNCHANGED <<pending_binary_for_rid, received>>

HandleChunkHeader(msg) ==
  /\ msg.type = "stream_chunk_header"
  /\ pending_binary_for_rid' = msg.id
  /\ UNCHANGED <<fut, queue, received>>

HandleStreamFrame(msg) ==
  /\ msg.type \in {"stream_start", "stream_end"}
  /\ Put(msg.id, msg)
  /\ UNCHANGED <<fut, pending_binary_for_rid, received>>

\* handle_incoming_binary: Put ignores NoRid and finished requests.
HandleBinary(msg) ==
  /\ msg.type = "binary"
  /\ Put(pending_binary_for_rid, msg)
  /\ pending_binary_for_rid' = NoRid
  /\ received' = [received EXCEPT ![msg.src] = @ + 1]
  /\ UNCHANGED fut

HubReceive ==
  /\ reading /\ toHub # <<>>
  /\ LET msg == Head(toHub) IN
     \/ HandleResponse(msg)
     \/ HandleChunkHeader(msg)
     \/ HandleStreamFrame(msg)
     \/ HandleBinary(msg)
  /\ toHub' = Tail(toHub)
  /\ UNCHANGED <<caller, pending_unary, pending_stream, started, delivered, toAgent,
                 link, reading, superseded, closed, unregistered, agentVars>>

-----------------------------------------------------------------------------
(* The connection ends *)

\* Mutant of ClosePending: the futures fail, the streams are forgotten.
ClosePendingFuturesOnly ==
  /\ closed' = TRUE
  /\ fut' = [r \in Rid |-> IF r \in pending_unary /\ fut[r] = "pending"
                           THEN "exception" ELSE fut[r]]
  /\ UNCHANGED queue

\* close_pending: fail every future, wake every stream with None.  Nothing
\* in it suspends (the queues are unbounded), so it is one step.
ClosePending ==
  /\ closed' = TRUE
  /\ fut' = [r \in Rid |-> IF r \in pending_unary /\ fut[r] = "pending"
                           THEN "exception" ELSE fut[r]]
  /\ queue' = [r \in Rid |-> IF r \in pending_stream
                             THEN Append(queue[r], Sentinel) ELSE queue[r]]

\* The socket dies.  Frames the hub has received may still be read; the
\* others are lost, possibly between a header and its binary frame.  An agent
\* task still at work can send nothing any more: its next send raises
\* ConnectionClosed, which is not one of OP_ERRORS, and ends it.
LoseSocket ==
  /\ link' = "down"
  /\ toAgent' = <<>>
  /\ \E kept \in 0..Len(toHub) : toHub' = SubSeq(toHub, 1, kept)
  /\ op' = [r \in Rid |-> IF op[r] \in Working THEN "died" ELSE op[r]]
  /\ send_lock' = NoRid
  /\ UNCHANGED <<sent, received>>

Drop ==
  /\ link = "up"
  /\ LoseSocket
  /\ UNCHANGED <<callVars, pending_binary_for_rid, reading, superseded, closed,
                 unregistered>>

\* Registry.register for a newer connection of the same device: ws.close ...
Supersede ==
  /\ ~superseded /\ ~unregistered
  /\ superseded' = TRUE
  /\ LoseSocket
  /\ UNCHANGED <<callVars, pending_binary_for_rid, reading, closed, unregistered>>

\* ... and then close_pending.
CloseSuperseded ==
  /\ superseded /\ ~closed
  /\ ClosePending
  /\ UNCHANGED <<caller, pending_unary, pending_stream, started, delivered,
                 pending_binary_for_rid, link, reading, superseded, unregistered,
                 wireVars, agentVars>>

\* ws_agent's loop sees the disconnect and leaves.
ReceiveLoopEnds ==
  /\ reading /\ link = "down"
  /\ reading' = FALSE
  /\ UNCHANGED <<callVars, pending_binary_for_rid, link, superseded, closed,
                 unregistered, wireVars, agentVars>>

\* ws_agent's finally: Registry.unregister, which ends in close_pending.
Unregister ==
  /\ ~reading /\ ~unregistered
  /\ unregistered' = TRUE
  /\ ClosePending
  /\ UNCHANGED <<caller, pending_unary, pending_stream, started, delivered,
                 pending_binary_for_rid, link, reading, superseded,
                 wireVars, agentVars>>

-----------------------------------------------------------------------------
(* The agent: _serve_ws starts one task per request *)

AgentReceive ==
  /\ toAgent # <<>>
  /\ op' = [op EXCEPT ![Head(toAgent)] = "running"]
  /\ toAgent' = Tail(toAgent)
  /\ UNCHANGED <<callVars, connVars, toHub, received, sent, send_lock>>

\* Session.send_text: waits for the lock, then puts one frame on the wire.
SendText(msg) ==
  /\ link = "up" /\ send_lock = NoRid
  /\ toHub' = Append(toHub, msg)

AgentRespond(r) ==
  /\ r \in Unary /\ op[r] = "running"
  /\ \/ SendText(Text("response_ok", r)) /\ op' = [op EXCEPT ![r] = "ok"]
     \/ SendText(Text("response_err", r)) /\ op' = [op EXCEPT ![r] = "err"]
  /\ UNCHANGED <<callVars, connVars, toAgent, received, sent, send_lock>>

AgentStreamStart(r) ==
  /\ r \in Stream /\ op[r] = "running"
  /\ SendText(Text("stream_start", r))
  /\ op' = [op EXCEPT ![r] = "streaming"]
  /\ UNCHANGED <<callVars, connVars, toAgent, received, sent, send_lock>>

Produced == {c \in Stream \X (1..MaxChunks) : c[2] <= sent[c[1]]}

\* Session.send_chunk: the header and the binary frame are two sends under
\* one hold of the lock.
AgentSendHeader(r) ==
  /\ r \in Stream /\ op[r] = "streaming" /\ Cardinality(Produced) < MaxChunks
  /\ SendText(Text("stream_chunk_header", r))
  /\ send_lock' = r
  /\ UNCHANGED <<callVars, connVars, toAgent, received, op, sent>>

\* Mutant of AgentSendBinary: the lock covers single frames only, so that a
\* binary frame follows any header.
AgentSendBinaryUnlocked(r) ==
  /\ link = "up" /\ send_lock # NoRid /\ op[r] = "streaming"
  /\ Cardinality(Produced) < MaxChunks
  /\ toHub' = Append(toHub, Binary(r, sent[r] + 1))
  /\ sent' = [sent EXCEPT ![r] = @ + 1]
  /\ send_lock' = NoRid
  /\ UNCHANGED <<callVars, connVars, toAgent, received, op>>

AgentSendBinary(r) ==
  /\ link = "up" /\ send_lock = r
  /\ toHub' = Append(toHub, Binary(r, sent[r] + 1))
  /\ sent' = [sent EXCEPT ![r] = @ + 1]
  /\ send_lock' = NoRid
  /\ UNCHANGED <<callVars, connVars, toAgent, received, op>>

\* The end of a stream.  A live stream (screen, camera) that fails sends its
\* stream_end from a finally clause and the error afterwards.
AgentStreamEnd(r) ==
  /\ r \in Stream /\ op[r] = "streaming"
  /\ SendText(Text("stream_end", r))
  /\ op' \in {[op EXCEPT ![r] = "ok"], [op EXCEPT ![r] = "failing"]}
  /\ UNCHANGED <<callVars, connVars, toAgent, received, sent, send_lock>>

\* An op error becomes {ok: false}: before stream_start, in the middle of a
\* file, or after a live stream's stream_end.
AgentStreamError(r) ==
  /\ r \in Stream /\ op[r] \in Working
  /\ SendText(Text("response_err", r))
  /\ op' = [op EXCEPT ![r] = "err"]
  /\ UNCHANGED <<callVars, connVars, toAgent, received, sent, send_lock>>

\* The task ends without an answer: an exception outside OP_ERRORS (such as
\* subprocess.TimeoutExpired) before anything was sent.
AgentDie(r) ==
  /\ op[r] = "running"
  /\ op' = [op EXCEPT ![r] = "died"]
  /\ UNCHANGED <<callVars, connVars, wireVars, sent, send_lock>>

-----------------------------------------------------------------------------

\* Every call has returned and the socket is gone.
Terminated ==
  /\ unregistered /\ \A r \in Rid : caller[r] \notin Active
  /\ UNCHANGED vars

HubStep(r) ==
  \/ SendRequest(r) \/ SendRequestOnDeadSocket(r)
  \/ UnaryReturn(r) \/ UnaryTimeout(r)
  \/ StreamNext(r) \/ StreamStartTimeout(r)

AgentStep(r) ==
  \/ AgentRespond(r) \/ AgentStreamStart(r)
  \/ AgentSendHeader(r) \/ AgentSendBinary(r)
  \/ AgentStreamEnd(r) \/ AgentStreamError(r)

Next ==
  \/ \E r \in Rid : \/ Call(r) \/ HubStep(r) \/ StreamAbandon(r)
                    \/ AgentStep(r) \/ AgentDie(r)
  \/ HubReceive \/ AgentReceive
  \/ Drop \/ Supersede \/ CloseSuperseded \/ ReceiveLoopEnds \/ Unregister
  \/ Terminated

Spec == Init /\ [][Next]_vars

-----------------------------------------------------------------------------
(* Properties *)

\* The type invariant of AgentConnection's tables, the agent's Session and the wires.
TypeOK ==
  /\ caller \in [Rid -> {"idle"} \cup Active \cup Outcome]
  /\ pending_unary \subseteq Unary
  /\ fut \in [Rid -> {"none", "pending", "result_ok", "result_err", "exception"}]
  /\ pending_stream \subseteq Stream
  /\ queue \in [Rid -> Seq(Frame)]
  /\ started \in [Rid -> BOOLEAN]
  /\ delivered \in [Rid -> Seq(Chunk)]
  /\ pending_binary_for_rid \in Rid \cup {NoRid}
  /\ link \in {"up", "down"}
  /\ reading \in BOOLEAN /\ superseded \in BOOLEAN
  /\ closed \in BOOLEAN /\ unregistered \in BOOLEAN
  /\ toAgent \in Seq(Rid)
  /\ toHub \in Seq(Frame)
  /\ received \in [Rid -> Nat]
  /\ op \in [Rid -> {"none", "ok", "err", "died"} \cup Working]
  /\ sent \in [Rid -> Nat]
  /\ send_lock \in Rid \cup {NoRid}

\* What a stream's consumer sees is exactly that stream's own chunks, from
\* the first one on, with none lost, repeated, reordered or taken from
\* another stream on the socket, although binary frames name no stream.
StreamIntegrity ==
  \A r \in Stream : \A i \in 1..Len(delivered[r]) : delivered[r][i] = <<r, i>>

\* A stream that ends with stream_end, rather than with an error, a timeout
\* or a disconnect, has handed over every chunk the agent sent.
EndedStreamIsComplete ==
  \A r \in Stream : caller[r] = "ended" => Len(delivered[r]) = sent[r]

\* A call returns a result or an agent error only if the agent's task for
\* that same call answered so; a late answer to a timed-out call goes nowhere.
AnswersAreOwn ==
  \A r \in Rid : /\ caller[r] = "ok" => op[r] = "ok"
                 /\ caller[r] = "error" => op[r] = "err"

\* The tables hold exactly the calls in progress: every way out of request()
\* and stream() removes its entry, so nothing accumulates on a connection
\* that stays up for days.
NoLeakedEntry ==
  /\ pending_unary = {r \in Unary : caller[r] \in Active}
  /\ pending_stream = {r \in Stream : caller[r] \in Active}

\* What makes stream() return when it is taken from the queue.
Final == {"stream_end", "response_err", "None"}

\* Whoever waits for ever waits for the agent.  After stream_start q.get() has no
\* timeout, so something must still wake it: a last message is in its queue or on
\* its way to a hub that reads, or the socket is gone and unregister, with its
\* None, has yet to run.  Otherwise the agent is still producing the stream, as
\* op_screen_stream and op_camera_stream do until their link drops.
NoStrandedStream ==
  \A r \in Stream : caller[r] = "waiting" /\ started[r] =>
    \/ \E i \in 1..Len(queue[r]) : queue[r][i].type \in Final
    \/ reading /\ \E i \in 1..Len(toHub) : toHub[i].id = r /\ toHub[i].type \in Final
    \/ link = "down" /\ ~unregistered
    \/ link = "up" /\ op[r] = "streaming"

=============================================================================
