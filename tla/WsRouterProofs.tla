--------------------------- MODULE WsRouterProofs ---------------------------
(***************************************************************************)
(* Proofs about WsRouter, for any number of calls and any MaxChunks.       *)
(***************************************************************************)
EXTENDS WsRouter, SequenceTheorems, TLAPS

(***************************************************************************)
(* The inductive invariant behind the safety properties, by parts.         *)
(***************************************************************************)

Over == {"ok", "failing", "err", "died"}

\* A call that has not sent its request has left no trace at the agent, and
\* a request is on its way to the agent, or being served, only once.
RequestsOnce ==
  /\ \A r \in Rid : caller[r] \in {"idle", "sending"} => op[r] = "none"
  /\ \A r \in Rid : op[r] \in {"none", "running"} => sent[r] = 0
  /\ \A i \in 1..Len(toAgent) : /\ caller[toAgent[i]] \notin {"idle", "sending"}
                                /\ op[toAgent[i]] = "none"
  /\ \A i, j \in 1..Len(toAgent) : toAgent[i] = toAgent[j] => i = j

FreshCalls ==
  \A r \in Rid : caller[r] = "idle" => /\ received[r] = 0
                                       /\ delivered[r] = <<>>
                                       /\ queue[r] = <<>>
                                       /\ ~started[r]

\* A binary frame follows its own header, on the wire or, when it is next,
\* in pending_binary_for_rid; the holder of the lock owes the next frame.
Pairing ==
  /\ \A i \in 1..Len(toHub) :
       toHub[i].type = "binary" =>
         /\ toHub[i].src \in Stream
         /\ i = 1 => pending_binary_for_rid = toHub[i].src
         /\ i > 1 => toHub[i-1] = Text("stream_chunk_header", toHub[i].src)
  /\ \A i \in 1..Len(toHub) :
       toHub[i].type = "stream_chunk_header" => toHub[i].id \in Stream
  /\ send_lock # NoRid =>
       /\ link = "up" /\ send_lock \in Stream /\ op[send_lock] = "streaming"
       /\ toHub = <<>> => pending_binary_for_rid = send_lock
       /\ toHub # <<>> => toHub[Len(toHub)] = Text("stream_chunk_header", send_lock)

IsChunkOf(f, r) == f.type = "binary" /\ f.src = r
IsEndOf(f, r) == f.type = "stream_end" /\ f.id = r

\* The chunks of r in s are numbered lo+1, lo+2, ... in order, up to hi at most.
InOrder(s, r, lo, hi) ==
  /\ lo <= hi
  /\ \A i \in 1..Len(s) : IsChunkOf(s[i], r) =>
       /\ lo < s[i].n /\ s[i].n <= hi
       /\ lo + 1 < s[i].n =>
            \E j \in 1..(i-1) : IsChunkOf(s[j], r) /\ s[j].n = s[i].n - 1
       /\ \A j \in 1..(i-1) : IsChunkOf(s[j], r) => s[j].n # s[i].n

\* The last of them has number hi, so none is missing.
UpTo(s, r, lo, hi) ==
  lo < hi => \E j \in 1..Len(s) : IsChunkOf(s[j], r) /\ s[j].n = hi

\* stream_end has chunk hi before it and no chunk after it.
EndIsLast(s, r, lo, hi) ==
  \A i \in 1..Len(s) : IsEndOf(s[i], r) =>
    /\ \A j \in (i+1)..Len(s) : ~IsChunkOf(s[j], r)
    /\ lo < hi => \E j \in 1..(i-1) : IsChunkOf(s[j], r) /\ s[j].n = hi

Wire(r) ==
  /\ InOrder(toHub, r, received[r], sent[r])
  /\ link = "up" => UpTo(toHub, r, received[r], sent[r])
  /\ EndIsLast(toHub, r, received[r], sent[r])

Queue(r) ==
  /\ InOrder(queue[r], r, Len(delivered[r]), received[r])
  /\ UpTo(queue[r], r, Len(delivered[r]), received[r])
  /\ EndIsLast(queue[r], r, Len(delivered[r]), sent[r])
  /\ \A i \in 1..Len(queue[r]) :
       /\ queue[r][i].type = "binary" => queue[r][i].src = r
       /\ queue[r][i].type = "stream_end" => queue[r][i].id = r

\* Nothing is sent for a stream after its stream_end.
EndIsFinal ==
  /\ \A r \in Stream : \A i \in 1..Len(toHub) : IsEndOf(toHub[i], r) => op[r] \in Over
  /\ \A r \in Stream : \A i \in 1..Len(queue[r]) : IsEndOf(queue[r][i], r) => op[r] \in Over
  /\ \A r \in Stream : caller[r] = "ended" => op[r] \in Over

\* Answers on the wire, in futures and in queues are the agent's.
AnswersInFlight ==
  /\ \A i \in 1..Len(toHub) :
       /\ toHub[i].type = "response_ok" => toHub[i].id \in Unary /\ op[toHub[i].id] = "ok"
       /\ toHub[i].type = "response_err" => toHub[i].id \in Rid /\ op[toHub[i].id] = "err"
       /\ toHub[i].type # "None"
  /\ \A r \in Rid : /\ fut[r] = "result_ok" => op[r] = "ok"
                    /\ fut[r] = "result_err" => op[r] = "err"
  /\ \A r \in Stream : \A i \in 1..Len(queue[r]) :
       queue[r][i].type = "response_err" => op[r] = "err"

\* After unregistration a stream in progress has its None, or nothing at all.
WokenOrUntouched ==
  unregistered =>
    /\ ~reading
    /\ \A r \in Stream : caller[r] \in Active =>
         \/ \E i \in 1..Len(queue[r]) : queue[r][i] = Sentinel
         \/ queue[r] = <<>> /\ ~started[r]

Inv ==
  /\ RequestsOnce /\ FreshCalls /\ Pairing
  /\ \A r \in Stream : Wire(r)
  /\ \A r \in pending_stream : Queue(r)
  /\ EndIsFinal /\ AnswersInFlight /\ WokenOrUntouched
  /\ NoLeakedEntry /\ StreamIntegrity /\ EndedStreamIsComplete /\ AnswersAreOwn

-----------------------------------------------------------------------------

\* What the agent puts on the wire (send_text, send_chunk) is a frame.
LEMMA FrameTypes ==
  ASSUME NEW r \in Rid \cup {NoRid}, NEW k \in Nat, NEW t \in FrameType
  PROVE  Text(t, r) \in Frame /\ Binary(r, k) \in Frame
  BY DEF Text, Binary, Frame, FrameType

\* The None of close_pending is a frame, so it may sit in a stream's queue.
LEMMA SentinelType == Sentinel \in Frame
  BY FrameTypes DEF Sentinel, FrameType, Text, Frame

\* The sequence operators the wires and queues are built with keep their types.
LEMMA SeqTypes ==
  ASSUME NEW S
  PROVE  /\ <<>> \in Seq(S)
         /\ \A s \in Seq(S), e \in S : Append(s, e) \in Seq(S)
         /\ \A s \in Seq(S) : s # <<>> => Head(s) \in S /\ Tail(s) \in Seq(S)
         /\ \A s \in Seq(S), k \in Nat : k <= Len(s) => SubSeq(s, 1, k) \in Seq(S)
<1>1. <<>> \in Seq(S)
  OBVIOUS
<1>2. ASSUME NEW s \in Seq(S), NEW e \in S PROVE Append(s, e) \in Seq(S)
  OBVIOUS
<1>3. ASSUME NEW s \in Seq(S), s # <<>> PROVE Head(s) \in S /\ Tail(s) \in Seq(S)
  BY <1>3
<1>4. ASSUME NEW s \in Seq(S), NEW k \in Nat, k <= Len(s)
      PROVE  SubSeq(s, 1, k) \in Seq(S)
  BY <1>4, SubSeqProperties
<1>5. QED
  BY <1>1, <1>2, <1>3, <1>4

\* SeqTypes for the wires and queues of frames.
LEMMA FrameSeq ==
  /\ <<>> \in Seq(Frame)
  /\ \A s \in Seq(Frame), e \in Frame : Append(s, e) \in Seq(Frame)
  /\ \A s \in Seq(Frame) : s # <<>> => Head(s) \in Frame /\ Tail(s) \in Seq(Frame)
  /\ \A s \in Seq(Frame), k \in Nat : k <= Len(s) => SubSeq(s, 1, k) \in Seq(Frame)
  BY SeqTypes

\* SeqTypes for the requests on their way to the agent.
LEMMA RidSeq ==
  /\ <<>> \in Seq(Rid)
  /\ \A s \in Seq(Rid), e \in Rid : Append(s, e) \in Seq(Rid)
  /\ \A s \in Seq(Rid) : s # <<>> => Head(s) \in Rid /\ Tail(s) \in Seq(Rid)
  BY SeqTypes

\* SeqTypes for the chunks stream() has yielded.
LEMMA DeliveredSeq ==
  /\ <<>> \in Seq(Chunk)
  /\ \A s \in Seq(Chunk), e \in Chunk : Append(s, e) \in Seq(Chunk)
  BY SeqTypes

\* Every way out of a call goes through Finish.
LEMMA FinishTypeOK ==
  ASSUME TypeOK, NEW r \in Rid, NEW o \in Outcome, Finish(r, o),
         UNCHANGED <<fut, started, delivered, connVars, wireVars, agentVars>>
  PROVE  TypeOK'
  BY FrameSeq DEF TypeOK, Finish, connVars, wireVars, agentVars

\* TypeOK is an invariant: every handler keeps the tables, futures, queues
\* and wires of ws_router.py and agent.py in their types.
THEOREM TypeCorrect == Spec => []TypeOK
<1>1. Init => TypeOK
  <2> SUFFICES ASSUME Init PROVE TypeOK
    OBVIOUS
  <2>1. /\ queue \in [Rid -> Seq(Frame)] /\ delivered \in [Rid -> Seq(Chunk)]
        /\ toAgent \in Seq(Rid) /\ toHub \in Seq(Frame)
    BY FrameSeq, RidSeq, DeliveredSeq DEF Init
  <2>2. QED
    BY <2>1 DEF Init, TypeOK, Active, Outcome, Working
<1>2. TypeOK /\ [Next]_vars => TypeOK'
  <2> SUFFICES ASSUME TypeOK, [Next]_vars PROVE TypeOK'
    OBVIOUS
  <2> USE DEF callVars, connVars, wireVars, agentVars
  <2>1. ASSUME NEW r \in Rid, Call(r) PROVE TypeOK'
    BY <2>1, Zenon DEF TypeOK, Call, Rid, Active
  <2>2. ASSUME NEW r \in Rid, SendRequest(r) PROVE TypeOK'
    BY <2>2, RidSeq DEF TypeOK, SendRequest, Active
  <2>3. ASSUME NEW r \in Rid, SendRequestOnDeadSocket(r) PROVE TypeOK'
    <3>1. CASE Finish(r, "unsent")
      BY <2>3, <3>1, FinishTypeOK DEF SendRequestOnDeadSocket, Outcome
    <3>2. CASE ~Finish(r, "unsent")
      BY <2>3, <3>2 DEF TypeOK, SendRequestOnDeadSocket, Active
    <3>3. QED
      BY <3>1, <3>2
  <2>4. ASSUME NEW r \in Rid, UnaryReturn(r) PROVE TypeOK'
    <3>1. PICK o \in Outcome : Finish(r, o)
      BY <2>4 DEF UnaryReturn, Outcome
    <3>2. QED
      BY <2>4, <3>1, FinishTypeOK DEF UnaryReturn
  <2>5. ASSUME NEW r \in Rid, UnaryTimeout(r) PROVE TypeOK'
    BY <2>5, FinishTypeOK DEF UnaryTimeout, Outcome
  <2>6. ASSUME NEW r \in Rid, StreamNext(r) PROVE TypeOK'
    <3> DEFINE msg == Head(queue[r])
    <3>1. msg \in Frame /\ Tail(queue[r]) \in Seq(Frame)
      BY <2>6, FrameSeq DEF TypeOK, StreamNext
    <3>2. CASE msg.type \in {"None", "response_err", "stream_end"}
      <4>1. PICK o \in Outcome : Finish(r, o)
        BY <2>6, <3>2 DEF StreamNext, Outcome
      <4>2. UNCHANGED <<fut, started, delivered, connVars, wireVars, agentVars>>
        BY <2>6, <3>2 DEF StreamNext
      <4>3. QED
        BY <4>1, <4>2, FinishTypeOK
    <3>3. CASE msg.type = "stream_start"
      BY <2>6, <3>1, <3>3 DEF TypeOK, StreamNext
    <3>4. CASE msg.type = "binary"
      <4>1. <<msg.src, msg.n>> \in Chunk
        BY <3>1 DEF Frame, Chunk
      <4>2. delivered' \in [Rid -> Seq(Chunk)]
        <5>1. delivered' = [delivered EXCEPT ![r] = Append(@, <<msg.src, msg.n>>)]
          BY <2>6, <3>4 DEF StreamNext
        <5>2. Append(delivered[r], <<msg.src, msg.n>>) \in Seq(Chunk)
          BY <4>1, DeliveredSeq DEF TypeOK
        <5>3. QED
          BY <5>1, <5>2 DEF TypeOK
      <4>3. /\ queue' = [queue EXCEPT ![r] = Tail(@)]
            /\ UNCHANGED <<caller, pending_unary, pending_stream, started>>
        BY <2>6, <3>4 DEF StreamNext
      <4>4. QED
        BY <2>6, <3>1, <3>4, <4>2, <4>3 DEF TypeOK, StreamNext
    <3>5. QED
      BY <2>6, <3>2, <3>3, <3>4 DEF StreamNext
  <2>7. ASSUME NEW r \in Rid, StreamStartTimeout(r) PROVE TypeOK'
    BY <2>7, FinishTypeOK DEF StreamStartTimeout, Outcome
  <2>8. ASSUME NEW r \in Rid, StreamAbandon(r) PROVE TypeOK'
    BY <2>8, FinishTypeOK DEF StreamAbandon, Outcome
  <2>9. ASSUME NEW r \in Rid, AgentRespond(r) PROVE TypeOK'
    <3>1. CASE SendText(Text("response_ok", r)) /\ op' = [op EXCEPT ![r] = "ok"]
      BY <2>9, <3>1, FrameTypes, FrameSeq DEF TypeOK, AgentRespond, SendText, FrameType
    <3>2. CASE SendText(Text("response_err", r)) /\ op' = [op EXCEPT ![r] = "err"]
      BY <2>9, <3>2, FrameTypes, FrameSeq DEF TypeOK, AgentRespond, SendText, FrameType
    <3>3. QED
      BY <2>9, <3>1, <3>2 DEF AgentRespond
  <2>10. ASSUME NEW r \in Rid, AgentStreamStart(r) PROVE TypeOK'
    BY <2>10, FrameTypes, FrameSeq
       DEF TypeOK, AgentStreamStart, SendText, FrameType, Working
  <2>11. ASSUME NEW r \in Rid, AgentSendHeader(r) PROVE TypeOK'
    BY <2>11, FrameTypes, FrameSeq DEF TypeOK, AgentSendHeader, SendText, FrameType
  <2>12. ASSUME NEW r \in Rid, AgentSendBinary(r) PROVE TypeOK'
    BY <2>12, FrameTypes, FrameSeq, SMTT(30) DEF TypeOK, AgentSendBinary, FrameType
  <2>13. ASSUME NEW r \in Rid, AgentStreamEnd(r) PROVE TypeOK'
    BY <2>13, FrameTypes, FrameSeq
       DEF TypeOK, AgentStreamEnd, SendText, FrameType, Working
  <2>14. ASSUME NEW r \in Rid, AgentStreamError(r) PROVE TypeOK'
    BY <2>14, FrameTypes, FrameSeq DEF TypeOK, AgentStreamError, SendText, FrameType
  <2>15. ASSUME NEW r \in Rid, AgentDie(r) PROVE TypeOK'
    BY <2>15 DEF TypeOK, AgentDie
  <2>16. CASE HubReceive
    <3> DEFINE msg == Head(toHub)
    <3>1. msg \in Frame /\ toHub' \in Seq(Frame)
      BY <2>16, FrameSeq DEF TypeOK, HubReceive
    <3>2. msg.id \in Rid \cup {NoRid} /\ msg.src \in Rid \cup {NoRid}
      BY <3>1 DEF Frame
    <3>3. ASSUME NEW r, Put(r, msg) PROVE queue' \in [Rid -> Seq(Frame)]
      BY <3>1, <3>3, FrameSeq DEF TypeOK, Put
    <3>4. CASE HandleResponse(msg)
      <4>1. queue' \in [Rid -> Seq(Frame)]
        BY <3>3, <3>4 DEF TypeOK, HandleResponse
      <4>2. QED
        BY <2>16, <3>1, <3>2, <3>4, <4>1 DEF TypeOK, HubReceive, HandleResponse
    <3>5. CASE HandleChunkHeader(msg)
      BY <2>16, <3>1, <3>2, <3>5 DEF TypeOK, HubReceive, HandleChunkHeader
    <3>6. CASE HandleStreamFrame(msg)
      BY <2>16, <3>1, <3>3, <3>6 DEF TypeOK, HubReceive, HandleStreamFrame
    <3>7. CASE HandleBinary(msg)
      <4>1. received' \in [Rid -> Nat]
        <5>1. received' = [received EXCEPT ![msg.src] = received[msg.src] + 1]
          BY <3>7 DEF HandleBinary
        <5>2. CASE msg.src \in Rid
          BY <5>1, <5>2, SMTT(30) DEF TypeOK
        <5>3. CASE msg.src \notin Rid
          BY <5>1, <5>3 DEF TypeOK
        <5>4. QED
          BY <5>2, <5>3
      <4>2. queue' \in [Rid -> Seq(Frame)]
        BY <3>3, <3>7 DEF HandleBinary
      <4>3. QED
        BY <2>16, <3>1, <3>7, <4>1, <4>2 DEF TypeOK, HubReceive, HandleBinary
    <3>8. QED
      BY <2>16, <3>4, <3>5, <3>6, <3>7 DEF HubReceive
  <2>17. CASE AgentReceive
    BY <2>17, RidSeq DEF TypeOK, AgentReceive, Working
  <2>18. CASE Drop
    BY <2>18, FrameSeq, RidSeq DEF TypeOK, Drop, LoseSocket, Working
  <2>19. CASE Supersede
    BY <2>19, FrameSeq, RidSeq, SMTT(30) DEF TypeOK, Supersede, LoseSocket, Working
  <2>20. CASE CloseSuperseded
    BY <2>20, SentinelType, FrameSeq DEF TypeOK, CloseSuperseded, ClosePending
  <2>21. CASE ReceiveLoopEnds
    BY <2>21 DEF TypeOK, ReceiveLoopEnds
  <2>22. CASE Unregister
    BY <2>22, SentinelType, FrameSeq DEF TypeOK, Unregister, ClosePending
  <2>23. CASE UNCHANGED vars
    BY <2>23 DEF TypeOK, vars
  <2>24. QED
    BY <2>1, <2>2, <2>3, <2>4, <2>5, <2>6, <2>7, <2>8, <2>9, <2>10, <2>11, <2>12,
       <2>13, <2>14, <2>15, <2>16, <2>17, <2>18, <2>19, <2>20, <2>21, <2>22, <2>23
       DEF Next, HubStep, AgentStep, Terminated
<1>3. QED
  BY <1>1, <1>2, PTL DEF Spec

-----------------------------------------------------------------------------
(* Chunks in a FIFO *)

\* The elements of a FIFO after an append, a take and a cut.
LEMMA SeqFacts ==
  ASSUME NEW S, NEW s \in Seq(S)
  PROVE  /\ Len(s) \in Nat
         /\ \A i \in 1..Len(s) : s[i] \in S
         /\ \A e \in S : /\ Len(Append(s, e)) = Len(s) + 1
                         /\ \A i \in 1..Len(s) : Append(s, e)[i] = s[i]
                         /\ Append(s, e)[Len(s) + 1] = e
         /\ s # <<>> => /\ Len(s) >= 1 /\ Head(s) = s[1]
                        /\ Len(Tail(s)) = Len(s) - 1
                        /\ \A i \in 1..(Len(s) - 1) : Tail(s)[i] = s[i+1]
         /\ \A k \in 0..Len(s) : /\ Len(SubSeq(s, 1, k)) = k
                                 /\ \A i \in 1..k : SubSeq(s, 1, k)[i] = s[i]
<1>1. /\ Len(s) \in Nat
      /\ \A i \in 1..Len(s) : s[i] \in S
  OBVIOUS
<1>2. ASSUME NEW e \in S
      PROVE  /\ Len(Append(s, e)) = Len(s) + 1
             /\ \A i \in 1..Len(s) : Append(s, e)[i] = s[i]
             /\ Append(s, e)[Len(s) + 1] = e
  OBVIOUS
<1>3. ASSUME s # <<>>
      PROVE  /\ Len(s) >= 1 /\ Head(s) = s[1]
             /\ Len(Tail(s)) = Len(s) - 1
             /\ \A i \in 1..(Len(s) - 1) : Tail(s)[i] = s[i+1]
  BY <1>3
<1>4. ASSUME NEW k \in 0..Len(s)
      PROVE  /\ Len(SubSeq(s, 1, k)) = k
             /\ \A i \in 1..k : SubSeq(s, 1, k)[i] = s[i]
  BY SubSeqProperties
<1>5. QED
  BY <1>1, <1>2, <1>3, <1>4

\* The frames of a FIFO have chunk numbers in Nat.
LEMMA ChunkNumbers ==
  ASSUME NEW s \in Seq(Frame) PROVE \A i \in 1..Len(s) : s[i].n \in Nat
<1>1. \A i \in 1..Len(s) : s[i] \in Frame
  BY SeqFacts
<1>2. QED
  BY <1>1 DEF Frame

\* Appending something that is no chunk of r.
LEMMA AppendOther ==
  ASSUME NEW s \in Seq(Frame), NEW e \in Frame, NEW r, NEW lo \in Nat, NEW hi \in Nat,
         ~IsChunkOf(e, r)
  PROVE  /\ InOrder(s, r, lo, hi) => InOrder(Append(s, e), r, lo, hi)
         /\ UpTo(s, r, lo, hi) => UpTo(Append(s, e), r, lo, hi)
         /\ EndIsLast(s, r, lo, hi) /\ ~IsEndOf(e, r) => EndIsLast(Append(s, e), r, lo, hi)
         /\ EndIsLast(s, r, lo, hi) /\ UpTo(s, r, lo, hi) => EndIsLast(Append(s, e), r, lo, hi)
<1> DEFINE t == Append(s, e)
<1>1. /\ Len(s) \in Nat /\ Len(t) = Len(s) + 1
      /\ \A i \in 1..Len(s) : t[i] = s[i]
      /\ t[Len(s) + 1] = e
  BY SeqFacts
<1> HIDE DEF t
<1>2. InOrder(s, r, lo, hi) => InOrder(t, r, lo, hi)
  BY <1>1, SMTT(30) DEF InOrder
<1>3. UpTo(s, r, lo, hi) => UpTo(t, r, lo, hi)
  BY <1>1 DEF UpTo
<1>4. EndIsLast(s, r, lo, hi) /\ ~IsEndOf(e, r) => EndIsLast(t, r, lo, hi)
  BY <1>1 DEF EndIsLast
<1>5. EndIsLast(s, r, lo, hi) /\ UpTo(s, r, lo, hi) => EndIsLast(t, r, lo, hi)
  BY <1>1 DEF EndIsLast, UpTo
<1>6. QED
  BY <1>2, <1>3, <1>4, <1>5 DEF t

\* Appending the next chunk of r.
LEMMA AppendChunk ==
  ASSUME NEW s \in Seq(Frame), NEW e \in Frame, NEW r, NEW lo \in Nat, NEW hi \in Nat,
         IsChunkOf(e, r), e.n = hi + 1,
         InOrder(s, r, lo, hi), UpTo(s, r, lo, hi)
  PROVE  /\ InOrder(Append(s, e), r, lo, hi + 1)
         /\ UpTo(Append(s, e), r, lo, hi + 1)
<1> DEFINE t == Append(s, e)
<1>1. /\ Len(s) \in Nat /\ Len(t) = Len(s) + 1
      /\ \A i \in 1..Len(s) : t[i] = s[i]
      /\ t[Len(s) + 1] = e
  BY SeqFacts
<1>0. \A i \in 1..Len(s) : s[i].n \in Nat
  BY ChunkNumbers
<1> HIDE DEF t
<1>2. UpTo(t, r, lo, hi + 1)
  BY <1>1 DEF UpTo
<1>3. InOrder(t, r, lo, hi + 1)
  <2> SUFFICES ASSUME NEW i \in 1..Len(t), IsChunkOf(t[i], r)
               PROVE  /\ lo < t[i].n /\ t[i].n <= hi + 1
                      /\ lo + 1 < t[i].n =>
                           \E j \in 1..(i-1) : IsChunkOf(t[j], r) /\ t[j].n = t[i].n - 1
                      /\ \A j \in 1..(i-1) : IsChunkOf(t[j], r) => t[j].n # t[i].n
    BY DEF InOrder
  <2>1. CASE i \in 1..Len(s)
    <3>1. t[i] = s[i] /\ \A j \in 1..(i-1) : t[j] = s[j]
      BY <1>1, <2>1
    <3>2. /\ lo < s[i].n /\ s[i].n <= hi
          /\ lo + 1 < s[i].n =>
               \E j \in 1..(i-1) : IsChunkOf(s[j], r) /\ s[j].n = s[i].n - 1
          /\ \A j \in 1..(i-1) : IsChunkOf(s[j], r) => s[j].n # s[i].n
      BY <2>1, <3>1 DEF InOrder
    <3>3. s[i].n <= hi + 1
      BY <1>0, <2>1, <3>2
    <3>4. QED
      BY <3>1, <3>2, <3>3
  <2>2. CASE i = Len(s) + 1
    <3>1. t[i] = e /\ 1..(i-1) = 1..Len(s)
      BY <1>1, <2>2
    <3>2. lo < t[i].n /\ t[i].n <= hi + 1
      BY <3>1 DEF InOrder
    <3>3. lo + 1 < t[i].n =>
            \E j \in 1..(i-1) : IsChunkOf(t[j], r) /\ t[j].n = t[i].n - 1
      <4>1. t[i].n - 1 = hi /\ (lo + 1 < t[i].n => lo < hi)
        BY <3>1
      <4>2. lo < hi => \E j \in 1..Len(s) : IsChunkOf(t[j], r) /\ t[j].n = hi
        BY <1>1 DEF UpTo
      <4>3. QED
        BY <3>1, <4>1, <4>2
    <3>4. \A j \in 1..(i-1) : IsChunkOf(t[j], r) => t[j].n # t[i].n
      BY <1>0, <1>1, <3>1 DEF InOrder
    <3>5. QED
      BY <3>2, <3>3, <3>4
  <2>3. QED
    BY <1>1, <2>1, <2>2
<1>4. QED
  BY <1>2, <1>3 DEF t

\* Taking something that is no chunk of r.
LEMMA TakeOther ==
  ASSUME NEW s \in Seq(Frame), s # <<>>, NEW r, NEW lo \in Nat, NEW hi \in Nat,
         ~IsChunkOf(Head(s), r)
  PROVE  /\ InOrder(s, r, lo, hi) => InOrder(Tail(s), r, lo, hi)
         /\ UpTo(s, r, lo, hi) => UpTo(Tail(s), r, lo, hi)
         /\ EndIsLast(s, r, lo, hi) => EndIsLast(Tail(s), r, lo, hi)
<1> DEFINE t == Tail(s)
<1>1. /\ Len(s) \in Nat /\ Len(s) >= 1 /\ Len(t) = Len(s) - 1
      /\ \A i \in 1..(Len(s) - 1) : t[i] = s[i+1]
      /\ ~IsChunkOf(s[1], r)
  BY SeqFacts
<1>0. \A i \in 1..Len(s) : s[i].n \in Nat
  BY ChunkNumbers
<1> HIDE DEF t
<1>2. \A i \in 1..Len(t) : \A j \in 1..((i+1)-1) :
        IsChunkOf(s[j], r) => j - 1 \in 1..(i-1) /\ t[j-1] = s[j]
  BY <1>1
<1>3. InOrder(s, r, lo, hi) => InOrder(t, r, lo, hi)
  <2> SUFFICES ASSUME InOrder(s, r, lo, hi), NEW i \in 1..Len(t), IsChunkOf(t[i], r)
               PROVE  /\ lo < t[i].n /\ t[i].n <= hi
                      /\ lo + 1 < t[i].n =>
                           \E j \in 1..(i-1) : IsChunkOf(t[j], r) /\ t[j].n = t[i].n - 1
                      /\ \A j \in 1..(i-1) : IsChunkOf(t[j], r) => t[j].n # t[i].n
    BY DEF InOrder
  <2>1. i + 1 \in 1..Len(s) /\ t[i] = s[i+1]
    BY <1>1
  <2>2. /\ lo < t[i].n /\ t[i].n <= hi
        /\ lo + 1 < t[i].n =>
             \E j \in 1..((i+1)-1) : IsChunkOf(s[j], r) /\ s[j].n = t[i].n - 1
        /\ \A j \in 1..((i+1)-1) : IsChunkOf(s[j], r) => s[j].n # t[i].n
    <3>1. IsChunkOf(s[i+1], r)
      BY <2>1
    <3>2. \A k \in 1..Len(s) : IsChunkOf(s[k], r) =>
            /\ lo < s[k].n /\ s[k].n <= hi
            /\ lo + 1 < s[k].n =>
                 \E j \in 1..(k-1) : IsChunkOf(s[j], r) /\ s[j].n = s[k].n - 1
            /\ \A j \in 1..(k-1) : IsChunkOf(s[j], r) => s[j].n # s[k].n
      BY Zenon DEF InOrder
    <3>3. /\ lo < s[i+1].n /\ s[i+1].n <= hi
          /\ lo + 1 < s[i+1].n =>
               \E j \in 1..((i+1)-1) : IsChunkOf(s[j], r) /\ s[j].n = s[i+1].n - 1
          /\ \A j \in 1..((i+1)-1) : IsChunkOf(s[j], r) => s[j].n # s[i+1].n
      BY <2>1, <3>1, <3>2, Zenon
    <3>4. QED
      BY <2>1, <3>3, Zenon
  <2>3. \A j \in 1..(i-1) : j + 1 \in 1..((i+1)-1) /\ t[j] = s[j+1]
    BY <1>1, <2>1
  <2>4. QED
    BY <1>2, <2>2, <2>3
<1>4. UpTo(s, r, lo, hi) => UpTo(t, r, lo, hi)
  <2> SUFFICES ASSUME UpTo(s, r, lo, hi), lo < hi
               PROVE  \E j \in 1..Len(t) : IsChunkOf(t[j], r) /\ t[j].n = hi
    BY DEF UpTo
  <2>1. PICK j \in 1..Len(s) : IsChunkOf(s[j], r) /\ s[j].n = hi
    BY DEF UpTo
  <2>2. j - 1 \in 1..Len(t) /\ t[j-1] = s[j]
    BY <1>1, <2>1
  <2>3. QED
    BY <2>1, <2>2
<1>5. EndIsLast(s, r, lo, hi) => EndIsLast(t, r, lo, hi)
  <2> SUFFICES ASSUME EndIsLast(s, r, lo, hi), NEW i \in 1..Len(t), IsEndOf(t[i], r)
               PROVE  /\ \A j \in (i+1)..Len(t) : ~IsChunkOf(t[j], r)
                      /\ lo < hi => \E j \in 1..(i-1) : IsChunkOf(t[j], r) /\ t[j].n = hi
    BY DEF EndIsLast
  <2>1. i + 1 \in 1..Len(s) /\ IsEndOf(s[i+1], r)
    BY <1>1
  <2>2. /\ \A j \in ((i+1)+1)..Len(s) : ~IsChunkOf(s[j], r)
        /\ lo < hi => \E j \in 1..((i+1)-1) : IsChunkOf(s[j], r) /\ s[j].n = hi
    BY <2>1 DEF EndIsLast
  <2>3. \A j \in (i+1)..Len(t) : j + 1 \in ((i+1)+1)..Len(s) /\ t[j] = s[j+1]
    BY <1>1
  <2>4. QED
    BY <1>2, <2>2, <2>3
<1>6. QED
  BY <1>3, <1>4, <1>5 DEF t

\* Taking a chunk of r: it is the next one.
LEMMA TakeChunk ==
  ASSUME NEW s \in Seq(Frame), s # <<>>, NEW r, NEW lo \in Nat, NEW hi \in Nat,
         IsChunkOf(Head(s), r), InOrder(s, r, lo, hi)
  PROVE  /\ Head(s).n = lo + 1
         /\ InOrder(Tail(s), r, lo + 1, hi)
         /\ UpTo(s, r, lo, hi) => UpTo(Tail(s), r, lo + 1, hi)
         /\ \A top \in Nat : EndIsLast(s, r, lo, top) => EndIsLast(Tail(s), r, lo + 1, top)
<1> DEFINE t == Tail(s)
<1>1. /\ Len(s) \in Nat /\ Len(s) >= 1 /\ Len(t) = Len(s) - 1
      /\ \A i \in 1..(Len(s) - 1) : t[i] = s[i+1]
      /\ Head(s) = s[1] /\ IsChunkOf(s[1], r)
  BY SeqFacts
<1>0. \A i \in 1..Len(s) : s[i].n \in Nat
  BY ChunkNumbers
<1> HIDE DEF t
<1>2. s[1].n = lo + 1 /\ lo + 1 <= hi
  <2>1. /\ lo < s[1].n /\ s[1].n <= hi
        /\ lo + 1 < s[1].n =>
             \E j \in 1..(1-1) : IsChunkOf(s[j], r) /\ s[j].n = s[1].n - 1
    BY <1>1 DEF InOrder
  <2>2. QED
    BY <1>0, <1>1, <2>1
<1>3. \A i \in 1..Len(t) : \A j \in 1..((i+1)-1) :
        j # 1 => j - 1 \in 1..(i-1) /\ t[j-1] = s[j]
  BY <1>1
<1>4. InOrder(t, r, lo + 1, hi)
  <2> SUFFICES ASSUME NEW i \in 1..Len(t), IsChunkOf(t[i], r)
               PROVE  /\ lo + 1 < t[i].n /\ t[i].n <= hi
                      /\ (lo + 1) + 1 < t[i].n =>
                           \E j \in 1..(i-1) : IsChunkOf(t[j], r) /\ t[j].n = t[i].n - 1
                      /\ \A j \in 1..(i-1) : IsChunkOf(t[j], r) => t[j].n # t[i].n
    BY <1>2 DEF InOrder
  <2>1. i + 1 \in 1..Len(s) /\ t[i] = s[i+1] /\ 1 \in 1..((i+1)-1)
    BY <1>1
  <2>2. /\ lo < t[i].n /\ t[i].n <= hi
        /\ lo + 1 < t[i].n =>
             \E j \in 1..((i+1)-1) : IsChunkOf(s[j], r) /\ s[j].n = t[i].n - 1
        /\ \A j \in 1..((i+1)-1) : IsChunkOf(s[j], r) => s[j].n # t[i].n
    BY <1>0, <2>1, SMTT(30) DEF InOrder
  <2>3. t[i].n \in Nat /\ t[i].n # lo + 1
    BY <1>0, <1>1, <1>2, <2>1, <2>2
  <2>4. \A j \in 1..(i-1) : j + 1 \in 1..((i+1)-1) /\ t[j] = s[j+1]
    BY <1>1, <2>1
  <2>5. ASSUME (lo + 1) + 1 < t[i].n
        PROVE  \E j \in 1..(i-1) : IsChunkOf(t[j], r) /\ t[j].n = t[i].n - 1
    <3>1. PICK j \in 1..((i+1)-1) : IsChunkOf(s[j], r) /\ s[j].n = t[i].n - 1
      BY <2>2, <2>3, <2>5
    <3>2. j # 1
      BY <1>2, <2>3, <2>5, <3>1
    <3>3. QED
      BY <1>3, <3>1, <3>2
  <2>6. lo + 1 < t[i].n /\ t[i].n <= hi
    BY <2>2, <2>3
  <2>7. \A j \in 1..(i-1) : IsChunkOf(t[j], r) => t[j].n # t[i].n
    BY <2>2, <2>4
  <2>8. QED
    BY <2>5, <2>6, <2>7
<1>5. UpTo(s, r, lo, hi) => UpTo(t, r, lo + 1, hi)
  <2> SUFFICES ASSUME UpTo(s, r, lo, hi), lo + 1 < hi
               PROVE  \E j \in 1..Len(t) : IsChunkOf(t[j], r) /\ t[j].n = hi
    BY DEF UpTo
  <2>1. PICK j \in 1..Len(s) : IsChunkOf(s[j], r) /\ s[j].n = hi
    BY DEF UpTo
  <2>2. j - 1 \in 1..Len(t) /\ t[j-1] = s[j]
    BY <1>1, <1>2, <2>1
  <2>3. QED
    BY <2>1, <2>2
<1>6. ASSUME NEW top \in Nat, EndIsLast(s, r, lo, top)
      PROVE  EndIsLast(t, r, lo + 1, top)
  <2> SUFFICES ASSUME NEW i \in 1..Len(t), IsEndOf(t[i], r)
               PROVE  /\ \A j \in (i+1)..Len(t) : ~IsChunkOf(t[j], r)
                      /\ lo + 1 < top =>
                           \E j \in 1..(i-1) : IsChunkOf(t[j], r) /\ t[j].n = top
    BY DEF EndIsLast
  <2>1. i + 1 \in 1..Len(s) /\ IsEndOf(s[i+1], r)
    BY <1>1
  <2>2. /\ \A j \in ((i+1)+1)..Len(s) : ~IsChunkOf(s[j], r)
        /\ lo < top => \E j \in 1..((i+1)-1) : IsChunkOf(s[j], r) /\ s[j].n = top
    BY <1>6, <2>1 DEF EndIsLast
  <2>3. \A j \in (i+1)..Len(t) : j + 1 \in ((i+1)+1)..Len(s) /\ t[j] = s[j+1]
    BY <1>1
  <2>4. ASSUME lo + 1 < top
        PROVE  \E j \in 1..(i-1) : IsChunkOf(t[j], r) /\ t[j].n = top
    <3>1. PICK j \in 1..((i+1)-1) : IsChunkOf(s[j], r) /\ s[j].n = top
      BY <2>2, <2>4
    <3>2. j # 1
      BY <1>2, <2>4, <3>1
    <3>3. QED
      BY <1>3, <3>1, <3>2
  <2>5. QED
    BY <2>2, <2>3, <2>4
<1>7. QED
  BY <1>1, <1>2, <1>4, <1>5, <1>6 DEF t

\* Keeping a prefix, as when the socket dies.
LEMMA KeepPrefix ==
  ASSUME NEW s \in Seq(Frame), NEW k \in 0..Len(s), NEW r, NEW lo \in Nat, NEW hi \in Nat
  PROVE  /\ InOrder(s, r, lo, hi) => InOrder(SubSeq(s, 1, k), r, lo, hi)
         /\ EndIsLast(s, r, lo, hi) => EndIsLast(SubSeq(s, 1, k), r, lo, hi)
<1> DEFINE t == SubSeq(s, 1, k)
<1>1. /\ Len(s) \in Nat /\ Len(t) = k
      /\ \A i \in 1..k : t[i] = s[i]
  BY SeqFacts
<1> HIDE DEF t
<1>2. \A i \in 1..k : i \in 1..Len(s) /\ \A j \in 1..(i-1) : t[j] = s[j]
  BY <1>1
<1>3. InOrder(s, r, lo, hi) => InOrder(t, r, lo, hi)
  BY <1>1, <1>2 DEF InOrder
<1>4. EndIsLast(s, r, lo, hi) => EndIsLast(t, r, lo, hi)
  <2> SUFFICES ASSUME EndIsLast(s, r, lo, hi), NEW i \in 1..Len(t), IsEndOf(t[i], r)
               PROVE  /\ \A j \in (i+1)..Len(t) : ~IsChunkOf(t[j], r)
                      /\ lo < hi => \E j \in 1..(i-1) : IsChunkOf(t[j], r) /\ t[j].n = hi
    BY DEF EndIsLast
  <2>1. i \in 1..Len(s) /\ IsEndOf(s[i], r)
    BY <1>1, <1>2
  <2>2. \A j \in (i+1)..Len(t) : j \in (i+1)..Len(s) /\ t[j] = s[j]
    BY <1>1
  <2>3. /\ \A j \in (i+1)..Len(s) : ~IsChunkOf(s[j], r)
        /\ lo < hi => \E j \in 1..(i-1) : IsChunkOf(s[j], r) /\ s[j].n = hi
    BY <2>1 DEF EndIsLast
  <2>4. \A j \in 1..(i-1) : t[j] = s[j]
    BY <1>1, <1>2
  <2>5. QED
    BY <2>2, <2>3, <2>4
<1>5. QED
  BY <1>3, <1>4 DEF t

\* A queue emptied by Finish holds nobody's chunks.
LEMMA EmptyFifo ==
  ASSUME NEW r, NEW m \in Nat, NEW k \in Nat
  PROVE  InOrder(<<>>, r, m, m) /\ UpTo(<<>>, r, m, m) /\ EndIsLast(<<>>, r, m, k)
  BY DEF InOrder, UpTo, EndIsLast

-----------------------------------------------------------------------------
(* What an action does to the parts of the invariant *)

\* A text frame has the given type and id, and is nobody's chunk.
LEMMA TextFacts ==
  ASSUME NEW r \in Rid \cup {NoRid}, NEW t \in FrameType
  PROVE  /\ Text(t, r) \in Frame
         /\ Text(t, r).type = t /\ Text(t, r).id = r /\ Text(t, r).src = NoRid
  BY FrameTypes DEF Text

\* send_text appends one text frame to the wire while nobody holds the lock.
LEMMA SendTextFacts ==
  ASSUME TypeOK, NEW e \in Frame, SendText(e)
  PROVE  /\ link = "up" /\ send_lock = NoRid
         /\ Len(toHub) \in Nat /\ Len(toHub') = Len(toHub) + 1
         /\ \A i \in 1..Len(toHub) : toHub'[i] = toHub[i]
         /\ toHub'[Len(toHub) + 1] = e
         /\ toHub' # <<>>
<1>1. toHub \in Seq(Frame) /\ toHub' = Append(toHub, e)
  BY DEF TypeOK, SendText
<1>2. /\ Len(toHub) \in Nat /\ Len(toHub') = Len(toHub) + 1
      /\ \A i \in 1..Len(toHub) : toHub'[i] = toHub[i]
      /\ toHub'[Len(toHub) + 1] = e
  BY <1>1, SeqFacts
<1>3. toHub' # <<>>
  BY <1>1
<1>4. QED
  BY <1>2, <1>3 DEF SendText

\* A text frame appended to the wire disturbs no stream's chunks.
LEMMA SendTextKeepsWire ==
  ASSUME TypeOK, Inv, NEW e \in Frame, SendText(e), e.type # "binary",
         UNCHANGED <<link, received, sent>>
  PROVE  (\A s \in Stream : Wire(s))'
<1> SUFFICES ASSUME NEW s \in Stream PROVE Wire(s)'
  OBVIOUS
<1>1. /\ link = "up" /\ toHub \in Seq(Frame) /\ toHub' = Append(toHub, e)
      /\ received[s] \in Nat /\ sent[s] \in Nat /\ ~IsChunkOf(e, s)
  BY DEF TypeOK, SendText, Rid, IsChunkOf
<1>2. Wire(s)
  BY DEF Inv
<1>3. QED
  BY <1>1, <1>2, AppendOther DEF Wire

\* The finally clause of a call keeps the invariant, if the outcome is honest.
LEMMA FinishInv ==
  ASSUME TypeOK, Inv, NEW r \in Rid, NEW o \in Outcome, caller[r] \in Active,
         Finish(r, o),
         o = "ok" => op[r] = "ok",
         o = "error" => op[r] = "err",
         o = "ended" /\ r \in Stream => op[r] \in Over /\ Len(delivered[r]) = sent[r],
         UNCHANGED <<fut, started, delivered, connVars, wireVars, agentVars>>
  PROVE  Inv'
<1> USE DEF TypeOK, Inv, Finish, connVars, wireVars, agentVars, Active, Outcome
<1>1. RequestsOnce'
  <2>1. \A q \in Rid : caller'[q] \in {"idle", "sending"} =>
                         caller[q] \in {"idle", "sending"}
    OBVIOUS
  <2>2. \A i \in 1..Len(toAgent) : toAgent[i] \in Rid
    BY SeqFacts
  <2>3. QED
    <3>1. RequestsOnce /\ UNCHANGED <<op, sent, toAgent>>
      OBVIOUS
    <3>2. QED
      BY ONLY <2>1, <2>2, <3>1 DEF RequestsOnce
<1>2. FreshCalls'
  BY DEF FreshCalls
<1>3. Pairing' /\ (\A s \in Stream : Wire(s))'
  BY DEF Pairing, Wire
<1>4. (\A s \in pending_stream : Queue(s))'
  <2>1. \A s \in pending_stream' : s \in pending_stream /\ s # r /\ s \in Rid
    BY DEF Rid
  <2>2. \A s \in pending_stream' : queue'[s] = queue[s]
    BY <2>1
  <2>3. QED
    BY <2>1, <2>2 DEF Queue
<1>5. EndIsFinal'
  BY RidAssumption, SMTT(30) DEF EndIsFinal, IsEndOf, Rid
<1>6. AnswersInFlight'
  BY SMTT(30) DEF AnswersInFlight, Rid
<1>7. WokenOrUntouched'
  BY DEF WokenOrUntouched, Rid
<1>8. NoLeakedEntry'
  BY DEF NoLeakedEntry, Rid
<1>9. StreamIntegrity' /\ EndedStreamIsComplete' /\ AnswersAreOwn'
  BY SMTT(30) DEF StreamIntegrity, EndedStreamIsComplete, AnswersAreOwn
<1>10. QED
  BY <1>1, <1>2, <1>3, <1>4, <1>5, <1>6, <1>7, <1>8, <1>9

\* A lost or superseded socket keeps the invariant: what is cut off the wire is
\* its tail, and the agent's tasks are over.
LEMMA LoseSocketInv ==
  ASSUME TypeOK, Inv, LoseSocket,
         UNCHANGED <<callVars, pending_binary_for_rid, reading, unregistered>>
  PROVE  Inv'
<1> USE DEF TypeOK, Inv, LoseSocket, callVars
<1>1. PICK k \in 0..Len(toHub) : toHub' = SubSeq(toHub, 1, k)
  OBVIOUS
<1>2. Len(toHub') = k /\ \A i \in 1..k : i \in 1..Len(toHub) /\ toHub'[i] = toHub[i]
  BY <1>1, SeqFacts
<1>3. RequestsOnce' /\ FreshCalls'
  BY SMTT(30) DEF RequestsOnce, FreshCalls, Working
<1>4. Pairing'
  BY <1>2 DEF Pairing
<1>5. (\A s \in Stream : Wire(s))'
  BY <1>1, KeepPrefix DEF Wire, Rid
<1>6. (\A s \in pending_stream : Queue(s))'
  BY DEF Queue
<1>7. EndIsFinal'
  BY <1>2 DEF EndIsFinal, Over, Working, Rid
<1>8. AnswersInFlight'
  <2>1. \A r \in Rid : /\ op[r] = "ok" => op'[r] = "ok"
                       /\ op[r] = "err" => op'[r] = "err"
    BY DEF Working
  <2>2. QED
    <3>1. /\ \A i \in 1..Len(toHub') :
               /\ toHub'[i].type = "response_ok" =>
                    toHub'[i].id \in Unary /\ op'[toHub'[i].id] = "ok"
               /\ toHub'[i].type = "response_err" =>
                    toHub'[i].id \in Rid /\ op'[toHub'[i].id] = "err"
               /\ toHub'[i].type # "None"
      <4>1. AnswersInFlight
        OBVIOUS
      <4>2. QED
        BY ONLY <1>2, <2>1, <4>1 DEF AnswersInFlight, Rid
    <3>2. QED
      BY <2>1, <3>1 DEF AnswersInFlight, Rid
<1>9. WokenOrUntouched' /\ NoLeakedEntry' /\ StreamIntegrity' /\ EndedStreamIsComplete'
  BY DEF WokenOrUntouched, NoLeakedEntry, StreamIntegrity, EndedStreamIsComplete
<1>10. AnswersAreOwn'
  BY DEF AnswersAreOwn, Working
<1>11. QED
  BY <1>3, <1>4, <1>5, <1>6, <1>7, <1>8, <1>9, <1>10

\* close_pending keeps the invariant, also when it runs a second time.
LEMMA ClosePendingInv ==
  ASSUME TypeOK, Inv, ClosePending,
         UNCHANGED <<caller, pending_unary, pending_stream, started, delivered,
                     pending_binary_for_rid, link, reading, wireVars, agentVars>>,
         unregistered' => ~reading
  PROVE  Inv'
<1> USE DEF TypeOK, Inv, ClosePending, wireVars, agentVars
<1>1. \A s \in pending_stream : /\ s \in Rid /\ queue'[s] = Append(queue[s], Sentinel)
                                /\ queue[s] \in Seq(Frame)
  BY DEF Rid
<1>2. \A s \in Rid : s \notin pending_stream => queue'[s] = queue[s]
  OBVIOUS
<1>3. /\ Sentinel \in Frame /\ Sentinel.type = "None" /\ Sentinel = Sentinel'
      /\ \A s : ~IsChunkOf(Sentinel, s) /\ ~IsEndOf(Sentinel, s)
  BY SentinelType DEF Sentinel, Text, IsChunkOf, IsEndOf
<1>4. \A s \in pending_stream :
        /\ Len(queue[s]) \in Nat /\ Len(queue'[s]) = Len(queue[s]) + 1
        /\ \A i \in 1..Len(queue[s]) : queue'[s][i] = queue[s][i]
        /\ queue'[s][Len(queue[s]) + 1] = Sentinel
  <2> SUFFICES ASSUME NEW s \in pending_stream
               PROVE  /\ Len(queue[s]) \in Nat /\ Len(queue'[s]) = Len(queue[s]) + 1
                      /\ \A i \in 1..Len(queue[s]) : queue'[s][i] = queue[s][i]
                      /\ queue'[s][Len(queue[s]) + 1] = Sentinel
    OBVIOUS
  <2>1. /\ queue[s] \in Seq(Frame) /\ Sentinel \in Frame
        /\ queue'[s] = Append(queue[s], Sentinel)
    BY <1>1, <1>3
  <2>2. QED
    BY ONLY <2>1, SeqFacts
<1>5. RequestsOnce' /\ Pairing' /\ (\A s \in Stream : Wire(s))'
  BY DEF RequestsOnce, Pairing, Wire
<1>6. FreshCalls'
  <2>1. \A r \in Rid : caller[r] = "idle" => r \notin pending_stream
    BY DEF NoLeakedEntry, Active
  <2>2. QED
    BY <1>2, <2>1 DEF FreshCalls
<1>7. (\A s \in pending_stream : Queue(s))'
  <2> SUFFICES ASSUME NEW s \in pending_stream PROVE Queue(s)'
    OBVIOUS
  <2>1. /\ Queue(s) /\ received[s] \in Nat /\ sent[s] \in Nat /\ Len(delivered[s]) \in Nat
    <3>1. s \in Rid /\ delivered[s] \in Seq(Chunk)
      BY <1>1
    <3>2. QED
      BY <3>1, SeqFacts
  <2>2. /\ InOrder(queue'[s], s, Len(delivered[s]), received[s])
        /\ UpTo(queue'[s], s, Len(delivered[s]), received[s])
        /\ EndIsLast(queue'[s], s, Len(delivered[s]), sent[s])
    BY <1>1, <1>3, <2>1, AppendOther DEF Queue
  <2>3. \A i \in 1..Len(queue'[s]) :
          /\ queue'[s][i].type = "binary" => queue'[s][i].src = s
          /\ queue'[s][i].type = "stream_end" => queue'[s][i].id = s
    <3>1. ASSUME NEW i \in 1..Len(queue'[s])
          PROVE  queue'[s][i] = Sentinel \/ (i \in 1..Len(queue[s]) /\ queue'[s][i] = queue[s][i])
      <4>1. Len(queue[s]) \in Nat /\ Len(queue'[s]) = Len(queue[s]) + 1
        BY ONLY <1>4, s \in pending_stream
      <4>2. i \in 1..Len(queue[s]) \/ i = Len(queue[s]) + 1
        BY ONLY <4>1, i \in 1..Len(queue'[s])
      <4>3. QED
        BY ONLY <1>4, <4>2, s \in pending_stream
    <3>2. QED
      BY ONLY <1>3, <2>1, <3>1 DEF Queue
  <2>4. QED
    BY <2>2, <2>3 DEF Queue
<1>8. EndIsFinal'
  <2>1. \A s \in Stream : \A i \in 1..Len(queue'[s]) :
          IsEndOf(queue'[s][i], s) => op[s] \in Over
    BY <1>2, <1>3, <1>4, SMTT(30) DEF EndIsFinal, Rid
  <2>2. QED
    BY <2>1 DEF EndIsFinal
<1>9. AnswersInFlight'
  <2>1. \A s \in Stream : \A i \in 1..Len(queue'[s]) :
          queue'[s][i].type = "response_err" => op[s] = "err"
    BY <1>2, <1>3, <1>4, SMTT(30) DEF AnswersInFlight, Rid
  <2>2. \A r \in Rid : fut'[r] \in {fut[r], "exception"}
    OBVIOUS
  <2>3. QED
    BY <2>1, <2>2 DEF AnswersInFlight
<1>10. WokenOrUntouched'
  <2>1. \A s \in Stream : caller[s] \in Active =>
          \E i \in 1..Len(queue'[s]) : queue'[s][i] = Sentinel
    <3>1. \A s \in Stream : caller[s] \in Active => s \in pending_stream
      BY DEF NoLeakedEntry
    <3>2. \A s \in pending_stream : Len(queue[s]) + 1 \in 1..Len(queue'[s])
      BY ONLY <1>4
    <3>3. QED
      BY ONLY <1>4, <3>1, <3>2
  <2>2. QED
    BY <1>3, <2>1 DEF WokenOrUntouched
<1>11. NoLeakedEntry' /\ StreamIntegrity' /\ EndedStreamIsComplete' /\ AnswersAreOwn'
  BY DEF NoLeakedEntry, StreamIntegrity, EndedStreamIsComplete, AnswersAreOwn
<1>12. QED
  BY <1>5, <1>6, <1>7, <1>8, <1>9, <1>10, <1>11

\* A new call, on a connection that may be closed already, keeps the invariant.
LEMMA CallInv ==
  ASSUME TypeOK, Inv, NEW r \in Rid, Call(r) PROVE Inv'
<1>1. /\ caller[r] = "idle" /\ caller'[r] = "sending"
      /\ \A q \in Rid : q # r => caller'[q] = caller[q]
      /\ \A q \in Rid : fut'[q] \in {fut[q], "pending"}
  BY DEF TypeOK, Call
<1>2. /\ r \in Unary => pending_unary' = pending_unary \cup {r} /\ UNCHANGED pending_stream
      /\ r \notin Unary => pending_stream' = pending_stream \cup {r} /\ UNCHANGED pending_unary
  BY DEF Call
<1>3. UNCHANGED <<queue, started, delivered, pending_binary_for_rid, link, reading,
                  unregistered, toAgent, toHub, received, op, sent, send_lock>>
  BY DEF Call, connVars, wireVars, agentVars
<1>4. /\ RequestsOnce /\ FreshCalls /\ Pairing /\ (\A s \in Stream : Wire(s))
      /\ (\A s \in pending_stream : Queue(s)) /\ EndIsFinal /\ AnswersInFlight
      /\ WokenOrUntouched /\ NoLeakedEntry /\ StreamIntegrity
      /\ EndedStreamIsComplete /\ AnswersAreOwn
  BY DEF Inv
<1>5. RequestsOnce'
  <2>1. \A i \in 1..Len(toAgent) : toAgent[i] \in Rid
    BY SeqFacts DEF TypeOK
  <2>2. QED
    BY ONLY <1>1, <1>3, <1>4, <2>1, r \in Rid DEF RequestsOnce
<1>6. FreshCalls' /\ Pairing' /\ (\A s \in Stream : Wire(s))'
  BY ONLY <1>1, <1>3, <1>4 DEF FreshCalls, Pairing, Wire
<1>7. (\A s \in pending_stream : Queue(s))'
  <2> SUFFICES ASSUME NEW s \in pending_stream' PROVE Queue(s)'
    OBVIOUS
  <2>1. CASE s \in pending_stream
    BY ONLY <1>3, <1>4, <2>1 DEF Queue
  <2>2. CASE s \notin pending_stream
    <3>1. s = r /\ queue[s] = <<>> /\ delivered[s] = <<>> /\ received[s] = 0
      BY <1>1, <1>2, <1>4, <2>2 DEF FreshCalls
    <3>2. /\ queue'[s] = <<>> /\ Len(delivered'[s]) = 0 /\ received'[s] = 0
          /\ sent'[s] \in Nat
      BY <1>3, <3>1 DEF TypeOK
    <3>3. QED
      BY ONLY <3>2, EmptyFifo DEF Queue
  <2>3. QED
    BY <2>1, <2>2
<1>8. EndIsFinal'
  BY ONLY <1>1, <1>3, <1>4 DEF EndIsFinal, Rid
<1>9. AnswersInFlight'
  BY ONLY <1>1, <1>3, <1>4 DEF AnswersInFlight, Rid
<1>10. WokenOrUntouched'
  <2>1. queue[r] = <<>> /\ ~started[r]
    BY <1>1, <1>4 DEF FreshCalls
  <2>2. Sentinel' = Sentinel
    BY DEF Sentinel, Text
  <2>3. QED
    BY ONLY <1>1, <1>3, <1>4, <2>1, <2>2 DEF WokenOrUntouched, Rid
<1>11. NoLeakedEntry'
  BY ONLY <1>1, <1>2, <1>4, r \in Rid, RidAssumption DEF NoLeakedEntry, Rid, Active
<1>12. StreamIntegrity' /\ EndedStreamIsComplete' /\ AnswersAreOwn'
  BY ONLY <1>1, <1>3, <1>4
     DEF StreamIntegrity, EndedStreamIsComplete, AnswersAreOwn, Rid
<1>13. QED
  BY <1>5, <1>6, <1>7, <1>8, <1>9, <1>10, <1>11, <1>12 DEF Inv

\* The request is on its way, or lost on a dead socket.
LEMMA WaitingInv ==
  ASSUME TypeOK, Inv, NEW r \in Rid, caller[r] = "sending",
         caller' = [caller EXCEPT ![r] = "waiting"],
         toAgent' = toAgent \/ toAgent' = Append(toAgent, r),
         UNCHANGED <<pending_unary, fut, pending_stream, queue, started, delivered,
                     connVars, toHub, received, agentVars>>
  PROVE  Inv'
<1> USE DEF TypeOK, Inv, connVars, agentVars
<1>1. RequestsOnce'
  <2>1. /\ \A q \in Rid : caller'[q] \in {"idle", "sending"} <=>
                            caller[q] \in {"idle", "sending"} /\ q # r
        /\ op[r] = "none"
        /\ RequestsOnce /\ UNCHANGED <<op, sent>>
    BY DEF RequestsOnce
  <2>2. \A i \in 1..Len(toAgent) : toAgent[i] \in Rid /\ toAgent[i] # r
    <3>1. \A i \in 1..Len(toAgent) : toAgent[i] \in Rid
      BY SeqFacts
    <3>2. QED
      BY ONLY <2>1, <3>1, caller[r] = "sending" DEF RequestsOnce
  <2>3. CASE toAgent' = toAgent
    BY ONLY <2>1, <2>2, <2>3 DEF RequestsOnce
  <2>4. CASE toAgent' = Append(toAgent, r)
    <3>1. /\ Len(toAgent) \in Nat /\ Len(toAgent') = Len(toAgent) + 1
          /\ \A i \in 1..Len(toAgent) : toAgent'[i] = toAgent[i]
          /\ toAgent'[Len(toAgent) + 1] = r
      BY <2>4, SeqFacts
    <3>2. QED
      BY ONLY <2>1, <2>2, <3>1, r \in Rid DEF RequestsOnce
  <2>5. QED
    BY <2>3, <2>4
<1>2. FreshCalls' /\ Pairing' /\ (\A s \in Stream : Wire(s))'
  BY DEF FreshCalls, Pairing, Wire
<1>3. (\A s \in pending_stream : Queue(s))' /\ EndIsFinal' /\ AnswersInFlight'
  BY SMTT(30) DEF Queue, EndIsFinal, AnswersInFlight
<1>4. WokenOrUntouched' /\ NoLeakedEntry'
  BY DEF WokenOrUntouched, NoLeakedEntry, Active, Rid
<1>5. StreamIntegrity' /\ EndedStreamIsComplete' /\ AnswersAreOwn'
  BY SMTT(30) DEF StreamIntegrity, EndedStreamIsComplete, AnswersAreOwn
<1>6. QED
  BY <1>1, <1>2, <1>3, <1>4, <1>5

\* One turn of stream()'s loop that does not end the stream.
LEMMA StreamTail ==
  ASSUME TypeOK, Inv, NEW r \in Stream, caller[r] = "waiting", r \in pending_stream,
         NEW t \in Seq(Frame),
         Len(queue[r]) \in Nat, Len(queue[r]) >= 1,
         queue[r][1].type # "None",
         Len(t) = Len(queue[r]) - 1,
         \A i \in 1..Len(t) : i + 1 \in 1..Len(queue[r]) /\ t[i] = queue[r][i+1],
         queue' = [queue EXCEPT ![r] = t],
         InOrder(t, r, Len(delivered'[r]), received[r]),
         UpTo(t, r, Len(delivered'[r]), received[r]),
         EndIsLast(t, r, Len(delivered'[r]), sent[r]),
         \A s \in Rid : s # r => delivered'[s] = delivered[s] /\ started'[s] = started[s],
         StreamIntegrity',
         UNCHANGED <<caller, pending_unary, pending_stream, fut, connVars, wireVars,
                     agentVars>>
  PROVE  Inv'
<1>1. queue'[r] = t /\ (\A s \in Rid : s # r => queue'[s] = queue[s]) /\ r \in Rid
  BY DEF TypeOK, Rid
<1>2. UNCHANGED <<caller, pending_unary, pending_stream, fut, pending_binary_for_rid,
                  link, reading, unregistered, toAgent, toHub, received, op, sent, send_lock>>
  BY DEF connVars, wireVars, agentVars
<1>3. RequestsOnce' /\ Pairing' /\ NoLeakedEntry' /\ AnswersAreOwn'
  <2>1. RequestsOnce /\ Pairing /\ NoLeakedEntry /\ AnswersAreOwn
    BY DEF Inv
  <2>2. QED
    BY ONLY <1>2, <2>1 DEF RequestsOnce, Pairing, NoLeakedEntry, AnswersAreOwn
<1>4. FreshCalls'
  <2>1. FreshCalls
    BY DEF Inv
  <2>2. QED
    BY <1>1, <1>2, <2>1 DEF FreshCalls
<1>5. (\A s \in Stream : Wire(s))'
  <2>1. \A s \in Stream : Wire(s)
    BY DEF Inv
  <2>2. QED
    BY ONLY <1>2, <2>1 DEF Wire
<1>6. (\A s \in pending_stream : Queue(s))'
  <2> SUFFICES ASSUME NEW s \in pending_stream PROVE Queue(s)'
    BY <1>2
  <2>1. Queue(s) /\ s \in Rid
    BY DEF Inv, TypeOK, Rid
  <2>2. CASE s # r
    BY ONLY <1>1, <1>2, <2>1, <2>2,
            \A q \in Rid : q # r => delivered'[q] = delivered[q] DEF Queue
  <2>3. CASE s = r
    <3>1. \A i \in 1..Len(queue'[r]) :
            /\ queue'[r][i].type = "binary" => queue'[r][i].src = r
            /\ queue'[r][i].type = "stream_end" => queue'[r][i].id = r
      BY <1>1, <2>1, <2>3, SMTT(30) DEF Queue
    <3>2. QED
      BY ONLY <1>1, <1>2, <2>3, <3>1,
         InOrder(t, r, Len(delivered'[r]), received[r]),
         UpTo(t, r, Len(delivered'[r]), received[r]),
         EndIsLast(t, r, Len(delivered'[r]), sent[r]) DEF Queue
  <2>4. QED
    BY <2>2, <2>3
<1>7. EndIsFinal'
  <2>1. EndIsFinal
    BY DEF Inv
  <2>2. \A i \in 1..Len(queue'[r]) : IsEndOf(queue'[r][i], r) => op[r] \in Over
    BY <1>1, <2>1 DEF EndIsFinal
  <2>3. QED
    BY ONLY <1>1, <1>2, <2>1, <2>2 DEF EndIsFinal, Rid
<1>8. AnswersInFlight'
  <2>1. AnswersInFlight
    BY DEF Inv
  <2>2. \A i \in 1..Len(queue'[r]) : queue'[r][i].type = "response_err" => op[r] = "err"
    <3>1. \A i \in 1..Len(queue[r]) : queue[r][i].type = "response_err" => op[r] = "err"
      BY <2>1 DEF AnswersInFlight
    <3>2. QED
      BY <1>1, <3>1, SMTT(30)
  <2>3. QED
    BY ONLY <1>1, <1>2, <2>1, <2>2 DEF AnswersInFlight, Rid
<1>9. WokenOrUntouched'
  <2>1. WokenOrUntouched /\ queue[r] # <<>> /\ Sentinel.type = "None"
    BY DEF Inv, Sentinel, Text
  <2>2. ASSUME unregistered
        PROVE  \E i \in 1..Len(queue'[r]) : queue'[r][i] = Sentinel
    <3>1. PICK i \in 1..Len(queue[r]) : queue[r][i] = Sentinel
      BY <2>1, <2>2 DEF WokenOrUntouched, Active
    <3>2. i # 1
      BY <2>1, <3>1
    <3>3. i - 1 \in 1..Len(t) /\ t[i-1] = queue[r][i]
      BY <3>2
    <3>4. QED
      BY <1>1, <3>1, <3>3
  <2>3. Sentinel' = Sentinel
    BY DEF Sentinel, Text
  <2>4. \A s \in Stream : s # r =>
          /\ queue'[s] = queue[s] /\ started'[s] = started[s]
    BY <1>1 DEF Rid
  <2>5. QED
    BY ONLY <1>2, <2>1, <2>2, <2>3, <2>4 DEF WokenOrUntouched
<1>10. EndedStreamIsComplete'
  <2>1. EndedStreamIsComplete
    BY DEF Inv
  <2>2. \A s \in Stream : caller[s] = "ended" => s # r /\ s \in Rid
    BY DEF Rid
  <2>3. QED
    BY <1>2, <2>1, <2>2 DEF EndedStreamIsComplete
<1>11. QED
  BY <1>3, <1>4, <1>5, <1>6, <1>7, <1>8, <1>9, <1>10 DEF Inv

\* Each turn of stream()'s loop keeps the invariant.
LEMMA StreamNextInv ==
  ASSUME TypeOK, Inv, NEW r \in Rid, StreamNext(r) PROVE Inv'
<1> DEFINE msg == Head(queue[r])
           t == Tail(queue[r])
<1>1. /\ r \in Stream /\ caller[r] = "waiting" /\ r \in pending_stream
      /\ queue[r] \in Seq(Frame) /\ queue[r] # <<>>
      /\ delivered[r] \in Seq(Chunk) /\ Len(delivered[r]) \in Nat
      /\ received[r] \in Nat /\ sent[r] \in Nat
  BY SeqFacts DEF TypeOK, Inv, StreamNext, NoLeakedEntry, Active, Rid
<1>2. /\ msg \in Frame /\ t \in Seq(Frame)
      /\ Len(queue[r]) \in Nat /\ Len(queue[r]) >= 1 /\ msg = queue[r][1]
      /\ Len(t) = Len(queue[r]) - 1
      /\ \A i \in 1..Len(t) : i + 1 \in 1..Len(queue[r]) /\ t[i] = queue[r][i+1]
  BY <1>1, FrameSeq, SeqFacts
<1>3. Queue(r)
  BY <1>1 DEF Inv
<1> HIDE DEF msg, t
<1>4. CASE msg.type \in {"None", "response_err", "stream_end"}
  <2>1. PICK o \in Outcome : /\ Finish(r, o)
                             /\ \/ o = "disconnected" /\ msg.type = "None"
                                \/ o = "error" /\ msg.type = "response_err"
                                \/ o = "ended" /\ msg.type = "stream_end"
    <3>1. \/ msg.type = "None" /\ Finish(r, "disconnected")
          \/ msg.type = "response_err" /\ Finish(r, "error")
          \/ msg.type = "stream_end" /\ Finish(r, "ended")
      BY <1>4 DEF StreamNext, msg
    <3>2. {"disconnected", "error", "ended"} \subseteq Outcome
      BY DEF Outcome
    <3>3. QED
      BY ONLY <3>1, <3>2
  <2>2. UNCHANGED <<fut, started, delivered, connVars, wireVars, agentVars>>
    BY <1>4 DEF StreamNext, msg
  <2>3. msg.type = "response_err" => op[r] = "err"
    BY <1>1, <1>2 DEF Inv, AnswersInFlight
  <2>4. msg.type = "stream_end" => op[r] \in Over /\ Len(delivered[r]) = sent[r]
    <3> SUFFICES ASSUME msg.type = "stream_end"
                 PROVE  op[r] \in Over /\ Len(delivered[r]) = sent[r]
      OBVIOUS
    <3>1. 1 \in 1..Len(queue[r]) /\ IsEndOf(queue[r][1], r)
      BY <1>2, <1>3 DEF Queue, IsEndOf
    <3>2. ~(Len(delivered[r]) < sent[r])
      BY <1>3, <3>1 DEF Queue, EndIsLast
    <3>3. Len(delivered[r]) <= received[r] /\ received[r] <= sent[r]
      BY <1>1, <1>3 DEF Inv, Wire, Queue, InOrder
    <3>4. op[r] \in Over
      BY <1>1, <3>1 DEF Inv, EndIsFinal
    <3>5. QED
      BY <1>1, <3>2, <3>3, <3>4
  <2>5. QED
    BY <1>1, <2>1, <2>2, <2>3, <2>4, FinishInv DEF Active
<1>5. CASE msg.type \in {"stream_start", "binary"}
  <2>1. /\ queue' = [queue EXCEPT ![r] = t]
        /\ UNCHANGED <<caller, pending_unary, pending_stream, fut, connVars, wireVars,
                       agentVars>>
    BY <1>5 DEF StreamNext, msg, t
  <2>3. CASE msg.type = "stream_start"
    <3>1. /\ started' = [started EXCEPT ![r] = TRUE]
          /\ UNCHANGED delivered
      BY <2>3 DEF StreamNext, msg
    <3>2. ~IsChunkOf(msg, r)
      BY <2>3 DEF IsChunkOf
    <3>3. /\ InOrder(t, r, Len(delivered[r]), received[r])
          /\ UpTo(t, r, Len(delivered[r]), received[r])
          /\ EndIsLast(t, r, Len(delivered[r]), sent[r])
      BY <1>1, <1>3, <3>2, TakeOther DEF Queue, msg, t
    <3>4. StreamIntegrity'
      BY <3>1 DEF Inv, StreamIntegrity
    <3>5. \A s \in Rid : s # r => delivered'[s] = delivered[s] /\ started'[s] = started[s]
      BY <3>1 DEF TypeOK
    <3>6. delivered'[r] = delivered[r] /\ queue[r][1].type # "None"
      BY <1>2, <2>3, <3>1
    <3>7. QED
      BY <1>1, <1>2, <2>1, <3>3, <3>4, <3>5, <3>6, StreamTail
  <2>4. CASE msg.type = "binary"
    <3>1. /\ delivered' = [delivered EXCEPT ![r] = Append(@, <<msg.src, msg.n>>)]
          /\ UNCHANGED started
      BY <2>4 DEF StreamNext, msg
    <3>2. IsChunkOf(msg, r)
      BY <1>2, <1>3, <2>4 DEF Queue, IsChunkOf
    <3>3. /\ msg.n = Len(delivered[r]) + 1
          /\ InOrder(t, r, Len(delivered[r]) + 1, received[r])
          /\ UpTo(t, r, Len(delivered[r]) + 1, received[r])
          /\ EndIsLast(t, r, Len(delivered[r]) + 1, sent[r])
      BY <1>1, <1>3, <3>2, TakeChunk DEF Queue, msg, t
    <3>4. msg.src = r /\ <<msg.src, msg.n>> \in Chunk
      BY <1>2, <3>2 DEF IsChunkOf, Frame, Chunk
    <3>5. /\ Len(delivered'[r]) = Len(delivered[r]) + 1
          /\ \A i \in 1..Len(delivered[r]) : delivered'[r][i] = delivered[r][i]
          /\ delivered'[r][Len(delivered[r]) + 1] = <<r, msg.n>>
      <4>1. delivered'[r] = Append(delivered[r], <<msg.src, msg.n>>)
        BY <1>1, <3>1 DEF TypeOK, Rid
      <4>2. QED
        BY ONLY <1>1, <3>4, <4>1, SeqFacts
    <3>6. \A s \in Rid : s # r => delivered'[s] = delivered[s] /\ started'[s] = started[s]
      BY <3>1 DEF TypeOK
    <3>7. StreamIntegrity'
      <4>1. StreamIntegrity
        BY DEF Inv
      <4>2. \A i \in 1..Len(delivered'[r]) : delivered'[r][i] = <<r, i>>
        BY ONLY <1>1, <3>3, <3>5, <4>1 DEF StreamIntegrity
      <4>3. QED
        BY ONLY <3>6, <4>1, <4>2 DEF StreamIntegrity, Rid
    <3>8. queue[r][1].type # "None"
      BY <1>2, <2>4
    <3>9. QED
      BY <1>1, <1>2, <2>1, <3>3, <3>5, <3>6, <3>7, <3>8, StreamTail
  <2>5. QED
    BY <1>5, <2>3, <2>4
<1>6. QED
  BY <1>4, <1>5 DEF StreamNext, msg

\* What the agent sends with send_text, and the header half of send_chunk.
LEMMA AgentTextInv ==
  ASSUME TypeOK, Inv, NEW r \in Rid, NEW t \in FrameType \ {"binary", "None"},
         NEW new \in {"ok", "err", "streaming", "failing"},
         op[r] \in Working,
         SendText(Text(t, r)),
         op' = [op EXCEPT ![r] = new],
         send_lock' = IF t = "stream_chunk_header" THEN r ELSE NoRid,
         t = "response_ok" => r \in Unary /\ new = "ok",
         t = "response_err" => new = "err",
         t = "stream_chunk_header" => r \in Stream /\ new = "streaming",
         t = "stream_end" => new \in Over,
         op[r] = "failing" => new = "err",
         UNCHANGED <<callVars, connVars, toAgent, received, sent>>
  PROVE  Inv'
<1> DEFINE e == Text(t, r)
<1>1. /\ e \in Frame /\ e.type = t /\ e.id = r /\ e.src = NoRid
      /\ e.type # "binary" /\ e.type # "None"
  BY TextFacts
<1>2. /\ link = "up" /\ send_lock = NoRid
      /\ Len(toHub) \in Nat /\ Len(toHub') = Len(toHub) + 1
      /\ \A i \in 1..Len(toHub) : toHub'[i] = toHub[i]
      /\ toHub'[Len(toHub) + 1] = e
      /\ toHub' # <<>>
  BY <1>1, SendTextFacts
<1> HIDE DEF e
<1>3. UNCHANGED <<caller, pending_unary, fut, pending_stream, queue, started, delivered,
                  pending_binary_for_rid, link, reading, unregistered, toAgent,
                  received, sent>>
  BY DEF callVars, connVars
<1>4. /\ RequestsOnce /\ FreshCalls /\ Pairing /\ (\A s \in Stream : Wire(s))
      /\ (\A s \in pending_stream : Queue(s)) /\ EndIsFinal /\ AnswersInFlight
      /\ WokenOrUntouched /\ NoLeakedEntry /\ StreamIntegrity
      /\ EndedStreamIsComplete /\ AnswersAreOwn
  BY DEF Inv
<1>5. /\ op'[r] = new /\ \A q \in Rid : q # r => op'[q] = op[q]
      /\ op[r] \notin {"none", "ok", "err", "died"}
      /\ \A q \in Rid : /\ op[q] = "ok" => op'[q] = "ok"
                        /\ op[q] = "err" => op'[q] = "err"
                        /\ op[q] \in Over => op'[q] \in Over
  BY DEF TypeOK, Working, Over
<1>6. RequestsOnce'
  <2>1. \A i \in 1..Len(toAgent) : toAgent[i] \in Rid /\ toAgent[i] # r
    <3>1. \A i \in 1..Len(toAgent) : toAgent[i] \in Rid
      BY SeqFacts DEF TypeOK
    <3>2. QED
      BY ONLY <1>4, <1>5, <3>1 DEF RequestsOnce
  <2>2. QED
    BY ONLY <1>3, <1>4, <1>5, <2>1, new \in {"ok", "err", "streaming", "failing"}
       DEF RequestsOnce
<1>7. FreshCalls' /\ (\A s \in pending_stream : Queue(s))' /\ NoLeakedEntry'
      /\ StreamIntegrity' /\ EndedStreamIsComplete'
  BY ONLY <1>3, <1>4
     DEF FreshCalls, Queue, NoLeakedEntry, StreamIntegrity, EndedStreamIsComplete
<1>8. WokenOrUntouched'
  <2>1. Sentinel' = Sentinel
    BY DEF Sentinel, Text
  <2>2. QED
    BY ONLY <1>3, <1>4, <2>1 DEF WokenOrUntouched
<1>9. Pairing'
  <2>1. ASSUME NEW i \in 1..Len(toHub'), toHub'[i].type = "binary"
        PROVE  i \in 1..Len(toHub) /\ toHub'[i] = toHub[i]
    BY <1>1, <1>2, <2>1
  <2>2. ASSUME NEW i \in 1..Len(toHub'), toHub'[i].type = "binary"
        PROVE  /\ toHub'[i].src \in Stream
               /\ i = 1 => pending_binary_for_rid' = toHub'[i].src
               /\ i > 1 => toHub'[i-1] = Text("stream_chunk_header", toHub'[i].src)
    <3>1. i \in 1..Len(toHub) /\ toHub'[i] = toHub[i] /\ (i > 1 => toHub'[i-1] = toHub[i-1])
      <4>1. i \in 1..Len(toHub)
        BY <2>1, <2>2
      <4>2. i > 1 => i - 1 \in 1..Len(toHub)
        BY ONLY <1>2, <4>1
      <4>3. QED
        BY ONLY <1>2, <4>1, <4>2
    <3>2. QED
      BY ONLY <1>3, <1>4, <2>2, <3>1 DEF Pairing
  <2>3. ASSUME NEW i \in 1..Len(toHub'), toHub'[i].type = "stream_chunk_header"
        PROVE  toHub'[i].id \in Stream
    <3>1. i = Len(toHub) + 1 \/ i \in 1..Len(toHub)
      BY ONLY <1>2, i \in 1..Len(toHub')
    <3>2. QED
      BY <1>1, <1>2, <1>4, <2>3, <3>1 DEF Pairing
  <2>4. ASSUME send_lock' # NoRid
        PROVE  /\ link' = "up" /\ send_lock' \in Stream /\ op'[send_lock'] = "streaming"
               /\ toHub' = <<>> => pending_binary_for_rid' = send_lock'
               /\ toHub' # <<>> => toHub'[Len(toHub')] = Text("stream_chunk_header", send_lock')
    <3>1. t = "stream_chunk_header" /\ send_lock' = r
      BY <2>4
    <3>2. QED
      BY <1>1, <1>2, <1>3, <1>5, <3>1 DEF e
  <2>5. QED
    BY <2>2, <2>3, <2>4 DEF Pairing, Text
<1>10. (\A s \in Stream : Wire(s))'
  BY <1>1, <1>3, SendTextKeepsWire DEF e
<1>11. EndIsFinal'
  <2>1. ASSUME NEW s \in Stream, NEW i \in 1..Len(toHub'), IsEndOf(toHub'[i], s)
        PROVE  op'[s] \in Over
    <3>1. CASE i \in 1..Len(toHub)
      BY <1>2, <1>4, <1>5, <2>1, <3>1 DEF EndIsFinal, Rid
    <3>2. CASE i = Len(toHub) + 1
      BY <1>1, <1>2, <1>5, <2>1, <3>2 DEF IsEndOf
    <3>3. QED
      BY <1>2, <3>1, <3>2
  <2>2. Over' = Over /\ Stream \subseteq Rid
    BY DEF Over, Rid
  <2>3. QED
    BY ONLY <1>3, <1>4, <1>5, <2>1, <2>2 DEF EndIsFinal, IsEndOf
<1>12. AnswersInFlight'
  <2>1. ASSUME NEW i \in 1..Len(toHub')
        PROVE  /\ toHub'[i].type = "response_ok" =>
                    toHub'[i].id \in Unary /\ op'[toHub'[i].id] = "ok"
               /\ toHub'[i].type = "response_err" =>
                    toHub'[i].id \in Rid /\ op'[toHub'[i].id] = "err"
               /\ toHub'[i].type # "None"
    <3>1. CASE i \in 1..Len(toHub)
      <4>1. Unary \subseteq Rid
        BY DEF Rid
      <4>2. QED
        BY ONLY <1>2, <1>4, <1>5, <3>1, <4>1 DEF AnswersInFlight
    <3>2. CASE i = Len(toHub) + 1
      BY <1>1, <1>2, <1>5, <3>2
    <3>3. QED
      BY <1>2, <3>1, <3>2
  <2>2. QED
    BY ONLY <1>3, <1>4, <1>5, <2>1 DEF AnswersInFlight, Rid
<1>13. AnswersAreOwn'
  BY ONLY <1>3, <1>4, <1>5 DEF AnswersAreOwn
<1>14. QED
  BY <1>6, <1>7, <1>8, <1>9, <1>10, <1>11, <1>12, <1>13 DEF Inv

\* The binary half of send_chunk: its stream is neither over nor ended.
LEMMA AgentSendBinaryInv ==
  ASSUME TypeOK, Inv, NEW r \in Rid, AgentSendBinary(r) PROVE Inv'
<1> DEFINE e == Binary(r, sent[r] + 1)
<1>1. /\ link = "up" /\ send_lock = r /\ send_lock' = NoRid
      /\ toHub' = Append(toHub, e)
      /\ sent' = [sent EXCEPT ![r] = sent[r] + 1]
      /\ UNCHANGED <<caller, pending_unary, fut, pending_stream, queue, started, delivered,
                     pending_binary_for_rid, link, reading, unregistered, toAgent,
                     received, op>>
  BY DEF AgentSendBinary, callVars, connVars
<1>2. /\ RequestsOnce /\ FreshCalls /\ Pairing /\ (\A s \in Stream : Wire(s))
      /\ (\A s \in pending_stream : Queue(s)) /\ EndIsFinal /\ AnswersInFlight
      /\ WokenOrUntouched /\ NoLeakedEntry /\ StreamIntegrity
      /\ EndedStreamIsComplete /\ AnswersAreOwn
  BY DEF Inv
<1>3. /\ r \in Stream /\ r # NoRid /\ op[r] = "streaming" /\ op[r] \notin Over
      /\ toHub = <<>> => pending_binary_for_rid = r
      /\ toHub # <<>> => toHub[Len(toHub)] = Text("stream_chunk_header", r)
  <2>1. r # NoRid
    BY RidAssumption DEF Rid
  <2>2. QED
    BY <1>1, <1>2, <2>1 DEF Pairing, Over
<1>4. /\ sent[r] \in Nat /\ sent'[r] = sent[r] + 1 /\ \A q \in Rid : q # r => sent'[q] = sent[q]
  BY <1>1 DEF TypeOK
<1>5. /\ e \in Frame /\ e.type = "binary" /\ e.src = r /\ e.n = sent[r] + 1 /\ e.id = NoRid
  <2>1. "binary" \in FrameType /\ r \in Rid \cup {NoRid} /\ sent[r] + 1 \in Nat
    BY <1>4 DEF FrameType
  <2>2. QED
    BY <2>1, FrameTypes DEF Binary
<1> HIDE DEF e
<1>6. /\ Len(toHub) \in Nat /\ Len(toHub') = Len(toHub) + 1 /\ toHub \in Seq(Frame)
      /\ \A i \in 1..Len(toHub) : toHub'[i] = toHub[i]
      /\ toHub'[Len(toHub) + 1] = e
      /\ toHub' # <<>>
      /\ toHub # <<>> => Len(toHub) >= 1
  <2>1. toHub \in Seq(Frame)
    BY DEF TypeOK
  <2>2. toHub' # <<>>
    BY <1>1, <2>1
  <2>3. QED
    BY ONLY <1>1, <1>5, <2>1, <2>2, SeqFacts
<1>7. RequestsOnce'
  BY ONLY <1>1, <1>2, <1>3, <1>4 DEF RequestsOnce
<1>8. FreshCalls' /\ NoLeakedEntry' /\ StreamIntegrity' /\ AnswersAreOwn'
  BY ONLY <1>1, <1>2 DEF FreshCalls, NoLeakedEntry, StreamIntegrity, AnswersAreOwn
<1>9. WokenOrUntouched'
  <2>1. Sentinel' = Sentinel
    BY DEF Sentinel, Text
  <2>2. QED
    BY ONLY <1>1, <1>2, <2>1 DEF WokenOrUntouched
<1>10. EndedStreamIsComplete'
  <2>1. \A s \in Stream : caller[s] = "ended" => s # r /\ s \in Rid
    BY <1>2, <1>3 DEF EndIsFinal, Rid
  <2>2. QED
    BY ONLY <1>1, <1>2, <1>4, <2>1 DEF EndedStreamIsComplete
<1>11. Pairing'
  <2>1. ASSUME NEW i \in 1..Len(toHub'), toHub'[i].type = "binary"
        PROVE  /\ toHub'[i].src \in Stream
               /\ i = 1 => pending_binary_for_rid' = toHub'[i].src
               /\ i > 1 => toHub'[i-1] = Text("stream_chunk_header", toHub'[i].src)
    <3>1. CASE i \in 1..Len(toHub)
      <4>1. toHub'[i] = toHub[i] /\ (i > 1 => toHub'[i-1] = toHub[i-1])
        <5>1. i > 1 => i - 1 \in 1..Len(toHub)
          BY ONLY <1>6, <3>1
        <5>2. QED
          BY ONLY <1>6, <3>1, <5>1
      <4>2. QED
        BY ONLY <1>1, <1>2, <2>1, <3>1, <4>1 DEF Pairing
    <3>2. CASE i = Len(toHub) + 1
      <4>1. toHub'[i] = e
        BY <1>6, <3>2
      <4>2. CASE toHub = <<>>
        BY <1>1, <1>3, <1>5, <3>2, <4>1, <4>2
      <4>3. CASE toHub # <<>>
        <5>1. Len(toHub) >= 1 /\ i > 1 /\ i - 1 = Len(toHub) /\ Len(toHub) \in 1..Len(toHub)
          BY <1>6, <3>2, <4>3
        <5>2. QED
          BY <1>3, <1>5, <1>6, <4>1, <4>3, <5>1
      <4>4. QED
        BY <4>2, <4>3
    <3>3. QED
      BY <1>6, <3>1, <3>2
  <2>2. ASSUME NEW i \in 1..Len(toHub'), toHub'[i].type = "stream_chunk_header"
        PROVE  toHub'[i].id \in Stream
    <3>1. i = Len(toHub) + 1 \/ i \in 1..Len(toHub)
      BY ONLY <1>6, i \in 1..Len(toHub')
    <3>2. QED
      BY <1>2, <1>5, <1>6, <2>2, <3>1 DEF Pairing
  <2>3. QED
    BY <1>1, <2>1, <2>2 DEF Pairing, Text
<1>12. (\A s \in Stream : Wire(s))'
  <2> SUFFICES ASSUME NEW s \in Stream PROVE Wire(s)'
    OBVIOUS
  <2>1. /\ received[s] \in Nat /\ sent[s] \in Nat /\ Wire(s) /\ s \in Rid
    BY <1>2 DEF TypeOK, Rid
  <2>2. ~IsEndOf(e, s)
    BY <1>5 DEF IsEndOf
  <2>3. CASE s = r
    <3>1. IsChunkOf(e, r) /\ e.n = sent[r] + 1
      BY <1>5 DEF IsChunkOf
    <3>2. InOrder(toHub, r, received[r], sent[r]) /\ UpTo(toHub, r, received[r], sent[r])
      BY <1>1, <2>1, <2>3 DEF Wire
    <3>3. /\ InOrder(toHub', r, received[r], sent[r] + 1)
          /\ UpTo(toHub', r, received[r], sent[r] + 1)
      BY <1>1, <1>4, <1>5, <1>6, <2>1, <2>3, <3>1, <3>2, AppendChunk
    <3>4. \A i \in 1..Len(toHub') : ~IsEndOf(toHub'[i], r)
      <4>1. \A i \in 1..Len(toHub) : ~IsEndOf(toHub[i], r)
        BY <1>2, <1>3 DEF EndIsFinal
      <4>2. \A i \in 1..Len(toHub') : i = Len(toHub) + 1 \/ i \in 1..Len(toHub)
        BY ONLY <1>6
      <4>3. QED
        BY <1>6, <2>2, <2>3, <4>1, <4>2
    <3>5. EndIsLast(toHub', r, received[r], sent[r] + 1)
      BY <3>4 DEF EndIsLast
    <3>6. QED
      BY <1>1, <1>4, <2>3, <3>3, <3>5 DEF Wire
  <2>4. CASE s # r
    <3>1. ~IsChunkOf(e, s)
      BY <1>5, <2>4 DEF IsChunkOf
    <3>2. /\ InOrder(toHub', s, received[s], sent[s])
          /\ UpTo(toHub', s, received[s], sent[s])
          /\ EndIsLast(toHub', s, received[s], sent[s])
      BY <1>1, <1>5, <1>6, <2>1, <2>2, <3>1, AppendOther DEF Wire
    <3>3. sent'[s] = sent[s]
      BY <1>4, <2>1, <2>4
    <3>4. QED
      BY <1>1, <3>2, <3>3 DEF Wire
  <2>5. QED
    BY <2>3, <2>4
<1>13. (\A s \in pending_stream : Queue(s))'
  <2> SUFFICES ASSUME NEW s \in pending_stream PROVE Queue(s)'
    BY <1>1
  <2>1. Queue(s) /\ s \in Rid
    BY <1>2 DEF TypeOK, Rid
  <2>2. CASE s # r
    <3>1. sent'[s] = sent[s]
      BY <1>4, <2>1, <2>2
    <3>2. QED
      BY ONLY <1>1, <2>1, <3>1 DEF Queue
  <2>3. CASE s = r
    <3>1. \A i \in 1..Len(queue[s]) : ~IsEndOf(queue[s][i], s)
      BY <1>2, <1>3, <2>3 DEF EndIsFinal
    <3>2. EndIsLast(queue'[s], s, Len(delivered'[s]), sent'[s])
      BY <1>1, <3>1 DEF EndIsLast
    <3>3. QED
      BY ONLY <1>1, <2>1, <3>2 DEF Queue
  <2>4. QED
    BY <2>2, <2>3
<1>14. EndIsFinal'
  <2>1. ASSUME NEW s \in Stream, NEW i \in 1..Len(toHub'), IsEndOf(toHub'[i], s)
        PROVE  op[s] \in Over
    <3>1. i = Len(toHub) + 1 \/ i \in 1..Len(toHub)
      BY ONLY <1>6, i \in 1..Len(toHub')
    <3>2. QED
      BY <1>2, <1>5, <1>6, <2>1, <3>1 DEF EndIsFinal, IsEndOf
  <2>2. QED
    BY ONLY <1>1, <1>2, <2>1 DEF EndIsFinal
<1>15. AnswersInFlight'
  <2>1. ASSUME NEW i \in 1..Len(toHub')
        PROVE  /\ toHub'[i].type = "response_ok" =>
                    toHub'[i].id \in Unary /\ op[toHub'[i].id] = "ok"
               /\ toHub'[i].type = "response_err" =>
                    toHub'[i].id \in Rid /\ op[toHub'[i].id] = "err"
               /\ toHub'[i].type # "None"
    <3>1. i = Len(toHub) + 1 \/ i \in 1..Len(toHub)
      BY ONLY <1>6, i \in 1..Len(toHub')
    <3>2. QED
      BY ONLY <1>2, <1>5, <1>6, <3>1 DEF AnswersInFlight
  <2>2. QED
    BY ONLY <1>1, <1>2, <2>1 DEF AnswersInFlight
<1>16. QED
  BY <1>7, <1>8, <1>9, <1>10, <1>11, <1>12, <1>13, <1>14, <1>15 DEF Inv

\* _serve_ws starts the task of a request, which has none yet.
LEMMA AgentReceiveInv ==
  ASSUME TypeOK, Inv, AgentReceive PROVE Inv'
<1> DEFINE h == Head(toAgent)
<1>1. /\ toAgent # <<>> /\ op' = [op EXCEPT ![h] = "running"] /\ toAgent' = Tail(toAgent)
      /\ UNCHANGED <<caller, pending_unary, fut, pending_stream, queue, started, delivered,
                     pending_binary_for_rid, link, reading, unregistered, toHub,
                     received, sent, send_lock>>
  BY DEF AgentReceive, callVars, connVars
<1>2. /\ RequestsOnce /\ FreshCalls /\ Pairing /\ (\A s \in Stream : Wire(s))
      /\ (\A s \in pending_stream : Queue(s)) /\ EndIsFinal /\ AnswersInFlight
      /\ WokenOrUntouched /\ NoLeakedEntry /\ StreamIntegrity
      /\ EndedStreamIsComplete /\ AnswersAreOwn
  BY DEF Inv
<1>3. /\ Len(toAgent) \in Nat /\ Len(toAgent) >= 1 /\ h = toAgent[1] /\ h \in Rid
      /\ Len(toAgent') = Len(toAgent) - 1
      /\ \A i \in 1..Len(toAgent') : /\ toAgent'[i] = toAgent[i+1] /\ toAgent[i+1] \in Rid
                                     /\ i + 1 \in 1..Len(toAgent)
  BY <1>1, SeqFacts DEF TypeOK
<1> HIDE DEF h
<1>4. op[h] = "none" /\ caller[h] \notin {"idle", "sending"} /\ sent[h] = 0
  <2>1. 1 \in 1..Len(toAgent)
    BY <1>3
  <2>2. op[h] = "none" /\ caller[h] \notin {"idle", "sending"}
    BY ONLY <1>2, <1>3, <2>1 DEF RequestsOnce
  <2>3. QED
    BY ONLY <1>2, <1>3, <2>2 DEF RequestsOnce
<1>5. /\ op'[h] = "running" /\ \A q \in Rid : q # h => op'[q] = op[q]
      /\ \A q \in Rid : /\ op[q] = "ok" => op'[q] = "ok"
                        /\ op[q] = "err" => op'[q] = "err"
                        /\ op[q] = "streaming" => op'[q] = "streaming"
                        /\ op[q] \in Over => op'[q] \in Over
  BY <1>1, <1>3, <1>4 DEF TypeOK, Over
<1>6. RequestsOnce'
  <2>1. \A i \in 1..Len(toAgent') : toAgent'[i] # h
    <3>1. \A i \in 1..Len(toAgent) : toAgent[i] = toAgent[1] => i = 1
      BY <1>2, <1>3 DEF RequestsOnce
    <3>2. QED
      BY ONLY <1>3, <3>1
  <2>2. \A i, j \in 1..Len(toAgent') : toAgent'[i] = toAgent'[j] => i = j
    BY ONLY <1>2, <1>3 DEF RequestsOnce
  <2>3. \A i \in 1..Len(toAgent') : /\ caller'[toAgent'[i]] \notin {"idle", "sending"}
                                    /\ op'[toAgent'[i]] = "none"
    BY ONLY <1>1, <1>2, <1>3, <1>5, <2>1 DEF RequestsOnce
  <2>4. QED
    BY ONLY <1>1, <1>2, <1>4, <1>5, <2>2, <2>3 DEF RequestsOnce
<1>7. FreshCalls' /\ NoLeakedEntry' /\ StreamIntegrity' /\ EndedStreamIsComplete'
  BY ONLY <1>1, <1>2 DEF FreshCalls, NoLeakedEntry, StreamIntegrity, EndedStreamIsComplete
<1>8. (\A s \in Stream : Wire(s))' /\ (\A s \in pending_stream : Queue(s))'
  BY ONLY <1>1, <1>2 DEF Wire, Queue
<1>9. WokenOrUntouched' /\ Pairing'
  <2>1. Sentinel' = Sentinel
    BY DEF Sentinel, Text
  <2>2. WokenOrUntouched'
    BY ONLY <1>1, <1>2, <2>1 DEF WokenOrUntouched
  <2>3. Pairing'
    BY ONLY <1>1, <1>2, <1>5 DEF Pairing, Rid, Text
  <2>4. QED
    BY <2>2, <2>3
<1>10. EndIsFinal'
  <2>1. Over' = Over /\ Stream \subseteq Rid
    BY DEF Over, Rid
  <2>2. QED
    BY ONLY <1>1, <1>2, <1>5, <2>1 DEF EndIsFinal, IsEndOf
<1>11. AnswersInFlight'
  BY ONLY <1>1, <1>2, <1>5 DEF AnswersInFlight, Rid
<1>12. AnswersAreOwn'
  BY ONLY <1>1, <1>2, <1>5 DEF AnswersAreOwn
<1>13. QED
  BY <1>6, <1>7, <1>8, <1>9, <1>10, <1>11, <1>12 DEF Inv

\* What one turn of ws_agent's receive loop does, whichever handler it takes:
\* the frame goes to the future or the queue of the call it belongs to.
Routed(msg) ==
  /\ toHub' = Tail(toHub)
  /\ msg.type = "stream_chunk_header" => pending_binary_for_rid' = msg.id
  /\ \A s \in Rid : received'[s] = IF IsChunkOf(msg, s) THEN received[s] + 1 ELSE received[s]
  /\ \A s \in Rid : \/ queue'[s] = queue[s]
                    \/ /\ s \in pending_stream /\ queue'[s] = Append(queue[s], msg)
                       /\ msg.type = "binary" => msg.src = s
                       /\ msg.type \in {"stream_end", "response_err"} => msg.id = s
  /\ \A s \in pending_stream : IsChunkOf(msg, s) => queue'[s] = Append(queue[s], msg)
  /\ \A q \in Rid : \/ fut'[q] = fut[q]
                    \/ q = msg.id /\ fut'[q] = "result_ok" /\ msg.type = "response_ok"
                    \/ q = msg.id /\ fut'[q] = "result_err" /\ msg.type = "response_err"

\* What handle_incoming and handle_incoming_binary do with the frame they take.
LEMMA HubReceiveRoutes ==
  ASSUME TypeOK, Pairing, HubReceive PROVE Routed(Head(toHub))
<1> DEFINE msg == Head(toHub)
<1>1. /\ toHub \in Seq(Frame) /\ toHub # <<>> /\ toHub' = Tail(toHub)
      /\ received \in [Rid -> Nat] /\ queue \in [Rid -> Seq(Frame)] /\ pending_stream \subseteq Rid
      /\ DOMAIN fut = Rid
  BY DEF TypeOK, HubReceive, Rid
<1>2. msg = toHub[1] /\ 1 \in 1..Len(toHub) /\ msg \in Frame
  BY <1>1, SeqFacts
<1>3. /\ \/ HandleResponse(msg) \/ HandleChunkHeader(msg)
         \/ HandleStreamFrame(msg) \/ HandleBinary(msg)
      /\ UNCHANGED pending_stream
  BY DEF HubReceive
<1> HIDE DEF msg
<1>4. CASE HandleResponse(msg)
  <2>1. /\ msg.type \in {"response_ok", "response_err"}
        /\ UNCHANGED <<pending_binary_for_rid, received>>
        /\ UNCHANGED queue \/ Put(msg.id, msg)
        /\ fut' \in {fut, [fut EXCEPT ![msg.id] = IF msg.type = "response_ok"
                                                  THEN "result_ok" ELSE "result_err"]}
    BY <1>4 DEF HandleResponse
  <2>2. QED
    BY ONLY <1>1, <2>1 DEF Routed, Put, IsChunkOf, msg
<1>5. CASE HandleChunkHeader(msg)
  BY ONLY <1>1, <1>5 DEF Routed, HandleChunkHeader, IsChunkOf, msg
<1>6. CASE HandleStreamFrame(msg)
  BY ONLY <1>1, <1>6 DEF Routed, HandleStreamFrame, Put, IsChunkOf, msg
<1>7. CASE HandleBinary(msg)
  <2>1. /\ msg.type = "binary" /\ Put(pending_binary_for_rid, msg) /\ UNCHANGED fut
        /\ received' = [received EXCEPT ![msg.src] = received[msg.src] + 1]
    BY <1>7 DEF HandleBinary
  <2>2. pending_binary_for_rid = msg.src
    BY <1>2, <2>1 DEF Pairing
  <2>3. \A s \in Rid : received'[s] = IF IsChunkOf(msg, s) THEN received[s] + 1 ELSE received[s]
    BY ONLY <1>1, <2>1 DEF IsChunkOf
  <2>4. /\ \A s \in Rid : \/ queue'[s] = queue[s]
                          \/ s \in pending_stream /\ queue'[s] = Append(queue[s], msg) /\ msg.src = s
        /\ \A s \in pending_stream : IsChunkOf(msg, s) => queue'[s] = Append(queue[s], msg)
    BY ONLY <1>1, <2>1, <2>2 DEF Put, IsChunkOf
  <2>5. QED
    BY ONLY <1>1, <2>1, <2>3, <2>4 DEF Routed, msg
<1>8. QED
  BY <1>3, <1>4, <1>5, <1>6, <1>7 DEF msg

\* Each frame the hub receives keeps the invariant: the binary frame that
\* follows a header is a chunk of the stream the header named.
LEMMA HubReceiveInv ==
  ASSUME TypeOK, Inv, HubReceive PROVE Inv'
<1> DEFINE msg == Head(toHub)
           t == Tail(toHub)
<1>1. /\ reading
      /\ UNCHANGED <<caller, pending_unary, pending_stream, started, delivered, toAgent,
                     link, reading, unregistered, op, sent, send_lock>>
  BY DEF HubReceive, agentVars
<1>2. /\ RequestsOnce /\ FreshCalls /\ Pairing /\ (\A s \in Stream : Wire(s))
      /\ (\A s \in pending_stream : Queue(s)) /\ EndIsFinal /\ AnswersInFlight
      /\ WokenOrUntouched /\ NoLeakedEntry /\ StreamIntegrity
      /\ EndedStreamIsComplete /\ AnswersAreOwn
  BY DEF Inv
<1>3. Routed(msg)
  BY <1>2, HubReceiveRoutes
<1>4. /\ toHub \in Seq(Frame) /\ toHub # <<>> /\ msg \in Frame /\ t \in Seq(Frame)
      /\ Len(toHub) \in Nat /\ Len(toHub) >= 1 /\ msg = toHub[1] /\ 1 \in 1..Len(toHub)
      /\ Len(t) = Len(toHub) - 1 /\ toHub' = t
      /\ \A i \in 1..Len(t) : i + 1 \in 1..Len(toHub) /\ t[i] = toHub[i+1]
  <2>1. toHub \in Seq(Frame) /\ toHub # <<>>
    BY DEF TypeOK, HubReceive
  <2>2. QED
    BY <1>3, <2>1, FrameSeq, SeqFacts DEF Routed
<1>5. \A s \in Stream : s \in Rid /\ received[s] \in Nat /\ sent[s] \in Nat
  BY DEF TypeOK, Rid
<1> HIDE DEF msg, t
<1>6. RequestsOnce' /\ NoLeakedEntry' /\ StreamIntegrity' /\ EndedStreamIsComplete'
      /\ AnswersAreOwn'
  BY ONLY <1>1, <1>2 DEF RequestsOnce, NoLeakedEntry, StreamIntegrity,
                         EndedStreamIsComplete, AnswersAreOwn
<1>7. WokenOrUntouched'
  BY ONLY <1>1, <1>2 DEF WokenOrUntouched
\* A chunk at the head of the wire is the next one of its stream.
<1>8. ASSUME NEW s \in Stream, IsChunkOf(msg, s)
      PROVE  /\ msg.n = received[s] + 1 /\ received[s] + 1 <= sent[s]
             /\ InOrder(t, s, received[s] + 1, sent[s])
             /\ UpTo(toHub, s, received[s], sent[s]) => UpTo(t, s, received[s] + 1, sent[s])
             /\ EndIsLast(t, s, received[s] + 1, sent[s])
  <2>1. InOrder(toHub, s, received[s], sent[s]) /\ EndIsLast(toHub, s, received[s], sent[s])
    BY <1>2 DEF Wire
  <2>2. /\ msg.n = received[s] + 1
        /\ InOrder(t, s, received[s] + 1, sent[s])
        /\ UpTo(toHub, s, received[s], sent[s]) => UpTo(t, s, received[s] + 1, sent[s])
        /\ EndIsLast(t, s, received[s] + 1, sent[s])
    BY <1>4, <1>5, <1>8, <2>1, TakeChunk DEF msg, t
  <2>3. received[s] + 1 <= sent[s]
    BY <2>2 DEF InOrder
  <2>4. QED
    BY <2>2, <2>3
\* A stream_end at the head of the wire comes after every chunk.
<1>9. ASSUME NEW s \in Stream, IsEndOf(msg, s) PROVE received[s] = sent[s]
  <2>1. received[s] <= sent[s] /\ ~(received[s] < sent[s])
    BY <1>2, <1>4, <1>9 DEF Wire, InOrder, EndIsLast
  <2>2. QED
    BY <1>5, <2>1
<1>10. FreshCalls'
  <2> SUFFICES ASSUME NEW r \in Rid, caller[r] = "idle"
               PROVE  /\ received'[r] = 0 /\ delivered'[r] = <<>>
                      /\ queue'[r] = <<>> /\ ~started'[r]
    BY <1>1 DEF FreshCalls
  <2>1. received[r] = 0 /\ delivered[r] = <<>> /\ queue[r] = <<>> /\ ~started[r]
    BY <1>2 DEF FreshCalls
  <2>2. sent[r] = 0
    BY <1>2 DEF RequestsOnce
  <2>3. ~IsChunkOf(msg, r)
    <3>1. IsChunkOf(msg, r) => r \in Stream
      BY <1>2, <1>4 DEF Pairing, IsChunkOf
    <3>2. QED
      BY <1>5, <1>8, <2>1, <2>2, <3>1
  <2>4. r \notin pending_stream
    BY <1>2 DEF NoLeakedEntry, Active
  <2>5. QED
    BY ONLY <1>1, <1>3, <2>1, <2>3, <2>4, r \in Rid DEF Routed
<1>11. Pairing'
  <2>1. ASSUME NEW i \in 1..Len(toHub'), toHub'[i].type = "binary"
        PROVE  /\ toHub'[i].src \in Stream
               /\ i = 1 => pending_binary_for_rid' = toHub'[i].src
               /\ i > 1 => toHub'[i-1] = Text("stream_chunk_header", toHub'[i].src)
    <3>1. i + 1 \in 1..Len(toHub) /\ toHub'[i] = toHub[i+1] /\ i + 1 > 1 /\ (i + 1) - 1 = i
      BY ONLY <1>4, i \in 1..Len(toHub')
    <3>2. toHub'[i].src \in Stream /\ toHub[i] = Text("stream_chunk_header", toHub'[i].src)
      BY ONLY <1>2, <2>1, <3>1 DEF Pairing
    <3>3. i = 1 => pending_binary_for_rid' = toHub'[i].src
      <4>1. i = 1 => msg.type = "stream_chunk_header" /\ msg.id = toHub'[i].src
        BY ONLY <1>4, <3>2 DEF Text
      <4>2. QED
        BY ONLY <1>3, <4>1 DEF Routed
    <3>4. i > 1 => toHub'[i-1] = toHub[i]
      <4>1. i > 1 => i - 1 \in 1..Len(t) /\ (i - 1) + 1 = i
        BY ONLY <1>4, i \in 1..Len(toHub')
      <4>2. QED
        BY ONLY <1>4, <4>1
    <3>5. QED
      BY <3>2, <3>3, <3>4
  <2>2. ASSUME NEW i \in 1..Len(toHub'), toHub'[i].type = "stream_chunk_header"
        PROVE  toHub'[i].id \in Stream
    BY ONLY <1>2, <1>4, <2>2 DEF Pairing
  <2>3. ASSUME send_lock # NoRid
        PROVE  /\ link = "up" /\ send_lock \in Stream /\ op[send_lock] = "streaming"
               /\ toHub' = <<>> => pending_binary_for_rid' = send_lock
               /\ toHub' # <<>> => toHub'[Len(toHub')] = Text("stream_chunk_header", send_lock)
    <3>1. /\ link = "up" /\ send_lock \in Stream /\ op[send_lock] = "streaming"
          /\ toHub[Len(toHub)] = Text("stream_chunk_header", send_lock)
      BY ONLY <1>2, <1>4, <2>3 DEF Pairing
    <3>2. ASSUME toHub' = <<>> PROVE pending_binary_for_rid' = send_lock
      <4>1. Len(toHub) = 1
        BY <1>4, <3>2
      <4>2. msg.type = "stream_chunk_header" /\ msg.id = send_lock
        BY ONLY <1>4, <3>1, <4>1 DEF Text
      <4>3. QED
        BY ONLY <1>3, <4>2 DEF Routed
    <3>3. ASSUME toHub' # <<>> PROVE toHub'[Len(toHub')] = toHub[Len(toHub)]
      <4>1. Len(t) >= 1
        BY <1>4, <3>3, SeqFacts
      <4>2. QED
        BY ONLY <1>4, <4>1
    <3>4. QED
      BY <3>1, <3>2, <3>3
  <2>4. QED
    BY <1>1, <2>1, <2>2, <2>3 DEF Pairing, Text
<1>12. (\A s \in Stream : Wire(s))'
  <2> SUFFICES ASSUME NEW s \in Stream PROVE Wire(s)'
    OBVIOUS
  <2>1. Wire(s) /\ s \in Rid /\ received[s] \in Nat /\ sent[s] \in Nat
    BY <1>2, <1>5
  <2>2. CASE IsChunkOf(msg, s)
    <3>1. received'[s] = received[s] + 1
      BY ONLY <1>3, <2>1, <2>2 DEF Routed
    <3>2. QED
      BY <1>1, <1>4, <1>8, <2>1, <2>2, <3>1 DEF Wire
  <2>3. CASE ~IsChunkOf(msg, s)
    <3>1. received'[s] = received[s]
      BY ONLY <1>3, <2>1, <2>3 DEF Routed
    <3>2. /\ InOrder(t, s, received[s], sent[s])
          /\ link = "up" => UpTo(t, s, received[s], sent[s])
          /\ EndIsLast(t, s, received[s], sent[s])
      BY <1>4, <2>1, <2>3, TakeOther DEF Wire, msg, t
    <3>3. QED
      BY <1>1, <1>4, <3>1, <3>2 DEF Wire
  <2>4. QED
    BY <2>2, <2>3
<1>13. (\A s \in pending_stream : Queue(s))'
  <2> SUFFICES ASSUME NEW s \in pending_stream PROVE Queue(s)'
    BY <1>1
  <2> DEFINE len == Len(delivered[s])
             q == queue[s]
  <2>1. /\ Queue(s) /\ s \in Stream /\ s \in Rid /\ q \in Seq(Frame)
        /\ received[s] \in Nat /\ sent[s] \in Nat /\ len \in Nat
    <3>1. Queue(s) /\ s \in Stream /\ s \in Rid /\ q \in Seq(Frame) /\ delivered[s] \in Seq(Chunk)
      BY <1>2 DEF TypeOK, Rid
    <3>2. QED
      BY <1>5, <3>1, SeqFacts
  <2>2. /\ InOrder(q, s, len, received[s]) /\ UpTo(q, s, len, received[s])
        /\ EndIsLast(q, s, len, sent[s])
        /\ \A i \in 1..Len(q) : /\ q[i].type = "binary" => q[i].src = s
                                /\ q[i].type = "stream_end" => q[i].id = s
    BY <2>1 DEF Queue
  <2> HIDE DEF q, len
  <2>3. CASE queue'[s] = q
    <3>1. ~IsChunkOf(msg, s)
      <4>1. Append(q, msg) # q
        <5>1. Len(Append(q, msg)) = Len(q) + 1 /\ Len(q) \in Nat
          BY <1>4, <2>1, SeqFacts
        <5>2. QED
          BY <5>1
      <4>2. QED
        BY ONLY <1>3, <2>3, <4>1, s \in pending_stream DEF Routed, q
    <3>2. received'[s] = received[s]
      BY ONLY <1>3, <2>1, <3>1 DEF Routed
    <3>3. Len(delivered'[s]) = len /\ sent'[s] = sent[s]
      BY ONLY <1>1 DEF len
    <3>4. QED
      BY ONLY <2>2, <2>3, <3>2, <3>3 DEF Queue
  <2>4. CASE queue'[s] # q
    <3>1. /\ queue'[s] = Append(q, msg)
          /\ msg.type = "binary" => msg.src = s
          /\ msg.type = "stream_end" => msg.id = s
      BY ONLY <1>3, <2>1, <2>4 DEF Routed, q
    <3>2. \A i \in 1..Len(queue'[s]) :
            /\ queue'[s][i].type = "binary" => queue'[s][i].src = s
            /\ queue'[s][i].type = "stream_end" => queue'[s][i].id = s
      <4>1. /\ Len(q) \in Nat /\ Len(queue'[s]) = Len(q) + 1
            /\ \A i \in 1..Len(q) : queue'[s][i] = q[i]
            /\ queue'[s][Len(q) + 1] = msg
        BY ONLY <1>4, <2>1, <3>1, SeqFacts
      <4>2. \A i \in 1..Len(queue'[s]) : i \in 1..Len(q) \/ i = Len(q) + 1
        BY ONLY <4>1
      <4>3. ASSUME NEW i \in 1..Len(q)
            PROVE  /\ queue'[s][i].type = "binary" => queue'[s][i].src = s
                   /\ queue'[s][i].type = "stream_end" => queue'[s][i].id = s
        BY ONLY <2>2, <4>1, <4>3
      <4>4. QED
        BY ONLY <3>1, <4>1, <4>2, <4>3
    <3>3. CASE IsChunkOf(msg, s)
      <4>1. msg.n = received[s] + 1 /\ received[s] + 1 <= sent[s]
        BY <1>8, <2>1, <3>3
      <4>2. received'[s] = received[s] + 1
        BY ONLY <1>3, <2>1, <3>3 DEF Routed
      <4>3. /\ InOrder(queue'[s], s, len, received[s] + 1)
            /\ UpTo(queue'[s], s, len, received[s] + 1)
        BY <1>4, <2>1, <2>2, <3>1, <3>3, <4>1, AppendChunk
      <4>4. \A i \in 1..Len(q) : ~IsEndOf(q[i], s)
        <5> SUFFICES ASSUME NEW i \in 1..Len(q), IsEndOf(q[i], s) PROVE FALSE
          OBVIOUS
        <5>1. len < sent[s]
          BY <2>1, <2>2, <4>1 DEF InOrder
        <5>2. PICK j \in 1..(i-1) : IsChunkOf(q[j], s) /\ q[j].n = sent[s]
          BY <2>2, <5>1 DEF EndIsLast
        <5>3. j \in 1..Len(q)
          <6>1. Len(q) \in Nat
            BY <2>1, SeqFacts
          <6>2. QED
            BY <6>1
        <5>4. sent[s] <= received[s]
          BY <2>2, <5>2, <5>3 DEF InOrder
        <5>5. QED
          BY <2>1, <4>1, <5>4
      <4>5. EndIsLast(queue'[s], s, len, sent[s])
        <5>1. /\ Len(q) \in Nat /\ Len(queue'[s]) = Len(q) + 1
              /\ \A i \in 1..Len(q) : queue'[s][i] = q[i]
              /\ queue'[s][Len(q) + 1] = msg
          BY ONLY <1>4, <2>1, <3>1, SeqFacts
        <5>2. \A i \in 1..Len(queue'[s]) : i \in 1..Len(q) \/ i = Len(q) + 1
          BY ONLY <5>1
        <5>3. ~IsEndOf(msg, s)
          BY <3>3 DEF IsChunkOf, IsEndOf
        <5>4. \A i \in 1..Len(queue'[s]) : ~IsEndOf(queue'[s][i], s)
          BY <4>4, <5>1, <5>2, <5>3
        <5>5. QED
          BY ONLY <5>4 DEF EndIsLast
      <4>6. QED
        BY ONLY <1>1, <3>2, <4>2, <4>3, <4>5 DEF Queue, len
    <3>4. CASE ~IsChunkOf(msg, s)
      <4>1. received'[s] = received[s]
        BY ONLY <1>3, <2>1, <3>4 DEF Routed
      <4>2. /\ InOrder(queue'[s], s, len, received[s])
            /\ UpTo(queue'[s], s, len, received[s])
        BY <1>4, <2>1, <2>2, <3>1, <3>4, AppendOther
      <4>3. EndIsLast(queue'[s], s, len, sent[s])
        <5>1. CASE IsEndOf(msg, s)
          <6>1. UpTo(q, s, len, sent[s])
            BY <1>9, <2>1, <2>2, <5>1
          <6>2. QED
            BY <1>4, <2>1, <2>2, <3>1, <3>4, <6>1, AppendOther
        <5>2. CASE ~IsEndOf(msg, s)
          BY <1>4, <2>1, <2>2, <3>1, <3>4, <5>2, AppendOther
        <5>3. QED
          BY <5>1, <5>2
      <4>4. QED
        BY ONLY <1>1, <3>2, <4>1, <4>2, <4>3 DEF Queue, len
    <3>5. QED
      BY <3>3, <3>4
  <2>5. QED
    BY <2>3, <2>4
\* A frame that a queue gains is the one at the head of the wire.
<1>14. ASSUME NEW s \in Stream, NEW i \in 1..Len(queue'[s])
       PROVE  \/ i \in 1..Len(queue[s]) /\ queue'[s][i] = queue[s][i]
              \/ /\ queue'[s][i] = msg
                 /\ msg.type \in {"stream_end", "response_err"} => msg.id = s
  <2>1. s \in Rid /\ queue[s] \in Seq(Frame)
    BY DEF TypeOK, Rid
  <2>2. CASE queue'[s] = queue[s]
    BY <2>2
  <2>3. CASE queue'[s] # queue[s]
    <3>1. /\ queue'[s] = Append(queue[s], msg)
          /\ msg.type \in {"stream_end", "response_err"} => msg.id = s
      BY ONLY <1>3, <2>1, <2>3 DEF Routed
    <3>2. /\ Len(queue[s]) \in Nat /\ Len(queue'[s]) = Len(queue[s]) + 1
          /\ \A j \in 1..Len(queue[s]) : queue'[s][j] = queue[s][j]
          /\ queue'[s][Len(queue[s]) + 1] = msg
      BY ONLY <1>4, <2>1, <3>1, SeqFacts
    <3>3. i \in 1..Len(queue[s]) \/ i = Len(queue[s]) + 1
      BY ONLY <3>2, i \in 1..Len(queue'[s])
    <3>4. QED
      BY ONLY <3>1, <3>2, <3>3
  <2>4. QED
    BY <2>2, <2>3
<1>15. EndIsFinal'
  <2>1. ASSUME NEW s \in Stream, NEW i \in 1..Len(toHub'), IsEndOf(toHub'[i], s)
        PROVE  op[s] \in Over
    BY ONLY <1>2, <1>4, <2>1 DEF EndIsFinal
  <2>2. ASSUME NEW s \in Stream, NEW i \in 1..Len(queue'[s]), IsEndOf(queue'[s][i], s)
        PROVE  op[s] \in Over
    BY ONLY <1>2, <1>4, <1>14, <2>2 DEF EndIsFinal
  <2>3. QED
    BY ONLY <1>1, <1>2, <2>1, <2>2 DEF EndIsFinal
<1>16. AnswersInFlight'
  <2>1. ASSUME NEW i \in 1..Len(toHub')
        PROVE  /\ toHub'[i].type = "response_ok" =>
                    toHub'[i].id \in Unary /\ op[toHub'[i].id] = "ok"
               /\ toHub'[i].type = "response_err" =>
                    toHub'[i].id \in Rid /\ op[toHub'[i].id] = "err"
               /\ toHub'[i].type # "None"
    BY ONLY <1>2, <1>4, <2>1 DEF AnswersInFlight
  <2>2. /\ msg.type = "response_ok" => op[msg.id] = "ok"
        /\ msg.type = "response_err" => op[msg.id] = "err"
    BY ONLY <1>2, <1>4 DEF AnswersInFlight
  <2>3. ASSUME NEW q \in Rid
        PROVE  /\ fut'[q] = "result_ok" => op[q] = "ok"
               /\ fut'[q] = "result_err" => op[q] = "err"
    <3>1. /\ fut[q] = "result_ok" => op[q] = "ok"
          /\ fut[q] = "result_err" => op[q] = "err"
      BY <1>2 DEF AnswersInFlight
    <3>2. \/ fut'[q] = fut[q]
          \/ q = msg.id /\ fut'[q] = "result_ok" /\ msg.type = "response_ok"
          \/ q = msg.id /\ fut'[q] = "result_err" /\ msg.type = "response_err"
      BY ONLY <1>3, q \in Rid DEF Routed
    <3>3. QED
      BY ONLY <2>2, <3>1, <3>2
  <2>4. ASSUME NEW s \in Stream, NEW i \in 1..Len(queue'[s]),
               queue'[s][i].type = "response_err"
        PROVE  op[s] = "err"
    <3>1. \A j \in 1..Len(queue[s]) : queue[s][j].type = "response_err" => op[s] = "err"
      BY <1>2 DEF AnswersInFlight
    <3>2. QED
      BY <1>14, <2>2, <2>4, <3>1
  <2>5. QED
    BY ONLY <1>1, <2>1, <2>3, <2>4 DEF AnswersInFlight
<1>17. QED
  BY <1>6, <1>7, <1>10, <1>11, <1>12, <1>13, <1>15, <1>16 DEF Inv

-----------------------------------------------------------------------------

\* A new connection satisfies the invariant.
LEMMA InitInv == Init => Inv
<1> SUFFICES ASSUME Init PROVE Inv
  OBVIOUS
<1>1. /\ \A r \in Rid : /\ caller[r] = "idle" /\ fut[r] = "none" /\ queue[r] = <<>>
                        /\ ~started[r] /\ delivered[r] = <<>> /\ received[r] = 0
                        /\ op[r] = "none" /\ sent[r] = 0
      /\ pending_unary = {} /\ pending_stream = {} /\ send_lock = NoRid
      /\ toAgent = <<>> /\ toHub = <<>> /\ unregistered = FALSE
  BY DEF Init
<1>2. \A r \in Stream : Wire(r)
  BY <1>1, EmptyFifo DEF Wire, Rid
<1>3. RequestsOnce /\ FreshCalls /\ Pairing /\ EndIsFinal /\ AnswersInFlight
  BY ONLY <1>1 DEF RequestsOnce, FreshCalls, Pairing, EndIsFinal, AnswersInFlight, Rid
<1>4. WokenOrUntouched /\ NoLeakedEntry /\ StreamIntegrity /\ EndedStreamIsComplete
      /\ AnswersAreOwn
  BY ONLY <1>1 DEF WokenOrUntouched, NoLeakedEntry, StreamIntegrity,
                   EndedStreamIsComplete, AnswersAreOwn, Rid, Active
<1>5. QED
  BY <1>1, <1>2, <1>3, <1>4 DEF Inv

\* A task that dies, and a receive loop that ends, disturb nothing.
LEMMA QuietInv ==
  ASSUME TypeOK, Inv, ReceiveLoopEnds \/ \E r \in Rid : AgentDie(r) PROVE Inv'
<1>1. /\ UNCHANGED <<caller, pending_unary, fut, pending_stream, queue, started, delivered,
                     pending_binary_for_rid, link, unregistered, toAgent, toHub,
                     received, sent, send_lock>>
      /\ reading' \in {reading, FALSE}
  BY DEF ReceiveLoopEnds, AgentDie, callVars, connVars, wireVars, agentVars
<1>2. /\ RequestsOnce /\ FreshCalls /\ Pairing /\ (\A s \in Stream : Wire(s))
      /\ (\A s \in pending_stream : Queue(s)) /\ EndIsFinal /\ AnswersInFlight
      /\ WokenOrUntouched /\ NoLeakedEntry /\ StreamIntegrity
      /\ EndedStreamIsComplete /\ AnswersAreOwn
  BY DEF Inv
<1>3. \A q \in Rid : \/ op'[q] = op[q]
                     \/ op[q] = "running" /\ op'[q] = "died"
  <2>1. CASE ReceiveLoopEnds
    BY <2>1 DEF ReceiveLoopEnds, agentVars
  <2>2. ASSUME NEW r \in Rid, AgentDie(r)
        PROVE  \A q \in Rid : \/ op'[q] = op[q]
                              \/ op[q] = "running" /\ op'[q] = "died"
    BY <2>2 DEF TypeOK, AgentDie
  <2>3. QED
    BY <2>1, <2>2
<1>4. RequestsOnce'
  <2>1. \A i \in 1..Len(toAgent) : toAgent[i] \in Rid
    BY SeqFacts DEF TypeOK
  <2>2. QED
    BY ONLY <1>1, <1>2, <1>3, <2>1 DEF RequestsOnce
<1>5. FreshCalls' /\ NoLeakedEntry' /\ StreamIntegrity' /\ EndedStreamIsComplete'
  BY ONLY <1>1, <1>2 DEF FreshCalls, NoLeakedEntry, StreamIntegrity, EndedStreamIsComplete
<1>6. (\A s \in Stream : Wire(s))' /\ (\A s \in pending_stream : Queue(s))'
  BY ONLY <1>1, <1>2 DEF Wire, Queue
<1>7. Pairing'
  BY ONLY <1>1, <1>2, <1>3 DEF Pairing, Rid, Text
<1>8. WokenOrUntouched'
  <2>1. Sentinel' = Sentinel
    BY DEF Sentinel, Text
  <2>2. QED
    BY ONLY <1>1, <1>2, <2>1 DEF WokenOrUntouched
<1>9. EndIsFinal'
  BY ONLY <1>1, <1>2, <1>3 DEF EndIsFinal, Over, Rid
<1>10. AnswersInFlight' /\ AnswersAreOwn'
  <2>1. \A q \in Rid : /\ op[q] = "ok" => op'[q] = "ok"
                       /\ op[q] = "err" => op'[q] = "err"
    BY ONLY <1>3
  <2>2. AnswersInFlight'
    BY ONLY <1>1, <1>2, <2>1 DEF AnswersInFlight, Rid
  <2>3. AnswersAreOwn'
    BY ONLY <1>1, <1>2, <2>1 DEF AnswersAreOwn
  <2>4. QED
    BY <2>2, <2>3
<1>11. QED
  BY <1>4, <1>5, <1>6, <1>7, <1>8, <1>9, <1>10 DEF Inv

\* Inv is inductive: every handler of the hub and of the agent keeps it.
THEOREM Inductive == TypeOK /\ Inv /\ [Next]_vars => Inv'
<1> SUFFICES ASSUME TypeOK, Inv, [Next]_vars PROVE Inv'
  OBVIOUS
<1>1. ASSUME NEW r \in Rid, Call(r) PROVE Inv'
  BY <1>1, CallInv
<1>2. ASSUME NEW r \in Rid, SendRequest(r) PROVE Inv'
  BY <1>2, WaitingInv DEF SendRequest
<1>3. ASSUME NEW r \in Rid, SendRequestOnDeadSocket(r) PROVE Inv'
  <2>1. CASE Finish(r, "unsent")
    BY <1>3, <2>1, FinishInv DEF SendRequestOnDeadSocket, Outcome, Active
  <2>2. CASE ~Finish(r, "unsent")
    <3>1. /\ caller[r] = "sending" /\ caller' = [caller EXCEPT ![r] = "waiting"]
          /\ UNCHANGED <<pending_unary, fut, pending_stream, queue, started, delivered,
                         connVars, toAgent, toHub, received, agentVars>>
      BY <1>3, <2>2 DEF SendRequestOnDeadSocket, wireVars
    <3>2. QED
      BY <3>1, WaitingInv
  <2>3. QED
    BY <2>1, <2>2
<1>4. ASSUME NEW r \in Rid, UnaryReturn(r) PROVE Inv'
  <2>1. /\ r \in Unary /\ caller[r] \in Active
        /\ fut[r] = "result_ok" => op[r] = "ok"
        /\ fut[r] = "result_err" => op[r] = "err"
        /\ UNCHANGED <<fut, started, delivered, connVars, wireVars, agentVars>>
    BY <1>4 DEF UnaryReturn, Active, Inv, AnswersInFlight
  <2>2. \/ fut[r] = "result_ok" /\ Finish(r, "ok")
        \/ fut[r] = "result_err" /\ Finish(r, "error")
        \/ fut[r] = "exception" /\ Finish(r, "disconnected")
    BY <1>4 DEF UnaryReturn
  <2>3. CASE fut[r] = "result_ok" /\ Finish(r, "ok")
    BY <2>1, <2>3, FinishInv DEF Outcome
  <2>4. CASE fut[r] = "result_err" /\ Finish(r, "error")
    BY <2>1, <2>4, FinishInv DEF Outcome
  <2>5. CASE fut[r] = "exception" /\ Finish(r, "disconnected")
    BY <2>1, <2>5, FinishInv DEF Outcome
  <2>6. QED
    BY <2>2, <2>3, <2>4, <2>5
<1>5. ASSUME NEW r \in Rid, UnaryTimeout(r) PROVE Inv'
  BY <1>5, FinishInv DEF UnaryTimeout, Outcome, Active
<1>6. ASSUME NEW r \in Rid, StreamNext(r) PROVE Inv'
  BY <1>6, StreamNextInv
<1>7. ASSUME NEW r \in Rid, StreamStartTimeout(r) PROVE Inv'
  BY <1>7, FinishInv DEF StreamStartTimeout, Outcome, Active
<1>8. ASSUME NEW r \in Rid, StreamAbandon(r) PROVE Inv'
  BY <1>8, FinishInv DEF StreamAbandon, Outcome, Active
<1>9. ASSUME NEW r \in Rid, AgentRespond(r) PROVE Inv'
  <2>1. /\ r \in Unary /\ op[r] \in Working /\ op[r] # "failing"
        /\ UNCHANGED <<callVars, connVars, toAgent, received, sent, send_lock>>
    BY <1>9 DEF AgentRespond, Working
  <2>2. CASE SendText(Text("response_ok", r)) /\ op' = [op EXCEPT ![r] = "ok"]
    <3>1. send_lock' = NoRid /\ "response_ok" \in FrameType \ {"binary", "None"}
      BY <2>1, <2>2 DEF SendText, FrameType
    <3>2. QED
      BY <2>1, <2>2, <3>1, AgentTextInv
  <2>3. CASE SendText(Text("response_err", r)) /\ op' = [op EXCEPT ![r] = "err"]
    <3>1. send_lock' = NoRid /\ "response_err" \in FrameType \ {"binary", "None"}
      BY <2>1, <2>3 DEF SendText, FrameType
    <3>2. QED
      BY <2>1, <2>3, <3>1, AgentTextInv
  <2>4. QED
    BY <1>9, <2>2, <2>3 DEF AgentRespond
<1>10. ASSUME NEW r \in Rid, AgentStreamStart(r) PROVE Inv'
  <2>1. send_lock' = NoRid /\ "stream_start" \in FrameType \ {"binary", "None"}
    BY <1>10 DEF AgentStreamStart, SendText, FrameType
  <2>2. QED
    BY <1>10, <2>1, AgentTextInv DEF AgentStreamStart, Working
<1>11. ASSUME NEW r \in Rid, AgentSendHeader(r) PROVE Inv'
  <2>1. "stream_chunk_header" \in FrameType \ {"binary", "None"}
    BY DEF FrameType
  <2>2. op' = [op EXCEPT ![r] = "streaming"] /\ op[r] = "streaming"
    BY <1>11 DEF AgentSendHeader, TypeOK
  <2>3. QED
    BY <1>11, <2>1, <2>2, AgentTextInv DEF AgentSendHeader, Working
<1>12. ASSUME NEW r \in Rid, AgentSendBinary(r) PROVE Inv'
  BY <1>12, AgentSendBinaryInv
<1>13. ASSUME NEW r \in Rid, AgentStreamEnd(r) PROVE Inv'
  <2>1. /\ send_lock' = NoRid /\ "stream_end" \in FrameType \ {"binary", "None"}
        /\ op[r] = "streaming"
    BY <1>13 DEF AgentStreamEnd, SendText, FrameType
  <2>2. PICK new \in {"ok", "failing"} : op' = [op EXCEPT ![r] = new]
    BY <1>13 DEF AgentStreamEnd
  <2>3. new \in Over /\ new \in {"ok", "err", "streaming", "failing"}
    BY DEF Over
  <2>4. QED
    BY <1>13, <2>1, <2>2, <2>3, AgentTextInv DEF AgentStreamEnd, Working
<1>14. ASSUME NEW r \in Rid, AgentStreamError(r) PROVE Inv'
  <2>1. send_lock' = NoRid /\ "response_err" \in FrameType \ {"binary", "None"}
    BY <1>14 DEF AgentStreamError, SendText, FrameType
  <2>2. QED
    BY <1>14, <2>1, AgentTextInv DEF AgentStreamError
<1>15. ASSUME NEW r \in Rid, AgentDie(r) PROVE Inv'
  BY <1>15, QuietInv
<1>16. CASE HubReceive
  BY <1>16, HubReceiveInv
<1>17. CASE AgentReceive
  BY <1>17, AgentReceiveInv
<1>18. CASE Drop \/ Supersede
  BY <1>18, LoseSocketInv DEF Drop, Supersede
<1>19. CASE CloseSuperseded
  BY <1>19, ClosePendingInv DEF CloseSuperseded, Inv, WokenOrUntouched
<1>20. CASE Unregister
  BY <1>20, ClosePendingInv DEF Unregister
<1>21. CASE ReceiveLoopEnds
  BY <1>21, QuietInv
<1>22. CASE UNCHANGED vars
  <2>1. UNCHANGED <<caller, pending_unary, fut, pending_stream, queue, started, delivered,
                    pending_binary_for_rid, link, reading, unregistered, toAgent, toHub,
                    received, op, sent, send_lock>>
    BY <1>22 DEF vars, callVars, connVars, wireVars, agentVars
  <2>2. Inv
    OBVIOUS
  <2>3. QED
    BY ONLY <2>1, <2>2
       DEF Inv, RequestsOnce, FreshCalls, Pairing, Wire, Queue, EndIsFinal, AnswersInFlight,
           WokenOrUntouched, NoLeakedEntry, StreamIntegrity, EndedStreamIsComplete,
           AnswersAreOwn
<1>23. QED
  BY <1>1, <1>2, <1>3, <1>4, <1>5, <1>6, <1>7, <1>8, <1>9, <1>10, <1>11, <1>12, <1>13,
     <1>14, <1>15, <1>16, <1>17, <1>18, <1>19, <1>20, <1>21, <1>22
     DEF Next, HubStep, AgentStep, Terminated

\* The invariant holds in every state of every connection.
LEMMA AlwaysInv == Spec => []Inv
BY TypeCorrect, InitInv, Inductive, PTL DEF Spec

\* Whatever is multiplexed on the socket and whenever it dies, a stream's
\* consumer sees that stream's chunks, in order and without a gap.
THEOREM StreamsAreSound == Spec => []StreamIntegrity
<1>1. Inv => StreamIntegrity
  BY DEF Inv
<1>2. QED
  BY <1>1, AlwaysInv, PTL

\* A stream that ends normally (stream_end, not an error or a dead socket) has
\* delivered everything the agent sent.
THEOREM StreamsEndComplete == Spec => []EndedStreamIsComplete
<1>1. Inv => EndedStreamIsComplete
  BY DEF Inv
<1>2. QED
  BY <1>1, AlwaysInv, PTL

\* An answer that arrives late, twice or after an abort is never another call's.
THEOREM AnswersReachTheirCall == Spec => []AnswersAreOwn
<1>1. Inv => AnswersAreOwn
  BY DEF Inv
<1>2. QED
  BY <1>1, AlwaysInv, PTL

\* The pending tables hold the calls in progress and no others, whichever way a
\* call ended.
THEOREM TablesAreClean == Spec => []NoLeakedEntry
<1>1. Inv => NoLeakedEntry
  BY DEF Inv
<1>2. QED
  BY <1>1, AlwaysInv, PTL

-----------------------------------------------------------------------------
(* Who wakes a stream that waits without a timeout *)

AnyId == Rid \cup {NoRid}
Has(s, I, T) == \E i \in 1..Len(s) : s[i].id \in I /\ s[i].type \in T

\* A stream_start seen, queued or under way is the agent's, which was not cut off
\* while the socket is up.
Begun(r) ==
  started[r] \/ Has(queue[r], AnyId, {"stream_start"}) \/ Has(toHub, {r}, {"stream_start"})
    => op[r] \notin {"none", "running"} /\ (link = "up" => op[r] # "died")

\* Once the agent is through with a stream, what ends it is queued or under way.
Answered(r) ==
  link = "up" /\ op[r] \in {"ok", "failing", "err"} /\ caller[r] = "waiting"
    => Has(queue[r], AnyId, Final) \/ Has(toHub, {r}, Final)

Waking ==
  /\ reading \/ link = "down"
  /\ \A r \in Stream : Begun(r) /\ Answered(r)

\* Append adds its element to what a FIFO holds, and takes nothing away.
LEMMA HasAppend ==
  ASSUME NEW s \in Seq(Frame), NEW e \in Frame, NEW I, NEW T
  PROVE  Has(Append(s, e), I, T) <=> Has(s, I, T) \/ (e.id \in I /\ e.type \in T)
<1>1. /\ Len(s) \in Nat /\ Len(Append(s, e)) = Len(s) + 1
      /\ \A i \in 1..Len(s) : Append(s, e)[i] = s[i]
      /\ Append(s, e)[Len(s) + 1] = e
  BY SeqFacts
<1>2. QED
  BY <1>1 DEF Has

\* Taking the head of a FIFO takes nothing else.
LEMMA HasTail ==
  ASSUME NEW s \in Seq(Frame), s # <<>>, NEW I, NEW T
  PROVE  Has(s, I, T) <=> Has(Tail(s), I, T) \/ (Head(s).id \in I /\ Head(s).type \in T)
<1>1. /\ Len(s) \in Nat /\ Len(s) >= 1 /\ Head(s) = s[1] /\ Len(Tail(s)) = Len(s) - 1
      /\ \A i \in 1..(Len(s) - 1) : Tail(s)[i] = s[i+1]
  BY SeqFacts
<1>2. ASSUME Has(s, I, T) PROVE Has(Tail(s), I, T) \/ (Head(s).id \in I /\ Head(s).type \in T)
  <2>1. PICK i \in 1..Len(s) : s[i].id \in I /\ s[i].type \in T
    BY <1>2 DEF Has
  <2>2. CASE i = 1
    BY <1>1, <2>1, <2>2
  <2>3. CASE i > 1
    <3>1. i - 1 \in 1..(Len(s) - 1) /\ Tail(s)[i-1] = s[i]
      BY <1>1, <2>3
    <3>2. QED
      BY <1>1, <2>1, <3>1 DEF Has
  <2>4. QED
    BY <2>2, <2>3
<1>3. ASSUME Has(Tail(s), I, T) PROVE Has(s, I, T)
  <2>1. PICK i \in 1..Len(Tail(s)) : Tail(s)[i].id \in I /\ Tail(s)[i].type \in T
    BY <1>3 DEF Has
  <2>2. i + 1 \in 1..Len(s) /\ s[i+1] = Tail(s)[i]
    BY <1>1
  <2>3. QED
    BY <2>1, <2>2 DEF Has
<1>4. ASSUME Head(s).id \in I, Head(s).type \in T PROVE Has(s, I, T)
  BY <1>1, <1>4 DEF Has
<1>5. QED
  BY <1>2, <1>3, <1>4

\* The frames that survive a lost socket were on the wire.
LEMMA HasPrefix ==
  ASSUME NEW s \in Seq(Frame), NEW k \in 0..Len(s), NEW I, NEW T, Has(SubSeq(s, 1, k), I, T)
  PROVE  Has(s, I, T)
<1>1. Len(s) \in Nat /\ Len(SubSeq(s, 1, k)) = k /\ \A i \in 1..k : SubSeq(s, 1, k)[i] = s[i]
  BY SeqFacts
<1>2. QED
  BY <1>1 DEF Has

\* A finished call has an empty queue and waits no longer; the others are untouched.
LEMMA FinishWaking ==
  ASSUME TypeOK, Waking, NEW r \in Rid, NEW o \in Outcome, Finish(r, o),
         UNCHANGED <<started, connVars, wireVars, agentVars>>
  PROVE  Waking'
<1>1. /\ UNCHANGED <<started, link, reading, toHub, op>>
      /\ queue' = [queue EXCEPT ![r] = <<>>] /\ caller' = [caller EXCEPT ![r] = o]
      /\ queue \in [Rid -> Seq(Frame)] /\ caller \in [Rid -> {"idle"} \cup Active \cup Outcome]
  BY DEF Finish, connVars, wireVars, agentVars, TypeOK
<1>2. o # "waiting"
  BY DEF Outcome
<1>3. ASSUME NEW s \in Stream PROVE (Begun(s) /\ Answered(s))'
  <2>1. s \in Rid
    BY DEF Rid
  <2>2. CASE s = r
    <3>1. queue'[s] = <<>> /\ caller'[s] = o
      BY <1>1, <2>1, <2>2
    <3>2. ~Has(queue'[s], AnyId, {"stream_start"})
      BY <3>1 DEF Has
    <3>3. QED
      BY <1>1, <1>2, <1>3, <3>1, <3>2 DEF Waking, Begun, Answered, Has
  <2>3. CASE s # r
    <3>1. queue'[s] = queue[s] /\ caller'[s] = caller[s]
      BY <1>1, <2>1, <2>3
    <3>2. QED
      BY <1>1, <1>3, <3>1 DEF Waking, Begun, Answered, Has, AnyId
  <2>4. QED
    BY <2>2, <2>3
<1>4. QED
  BY <1>1, <1>3 DEF Waking

\* A frame the agent sends for r starts r only, and ends it when its task is through.
LEMMA SendWaking ==
  ASSUME TypeOK, Waking, NEW r \in Rid, NEW e \in Frame, NEW o,
         toHub' = Append(toHub, e), op' = [op EXCEPT ![r] = o],
         UNCHANGED <<callVars, connVars>>,
         e.type = "stream_start" => e.id = r, o \notin {"none", "running", "died"},
         o \in {"ok", "failing", "err"} => r \in Unary \/ (e.id = r /\ e.type \in Final)
  PROVE  Waking'
<1>1. /\ UNCHANGED <<caller, queue, started, link, reading>>
      /\ toHub \in Seq(Frame) /\ op \in [Rid -> {"none", "ok", "err", "died"} \cup Working]
  BY DEF callVars, connVars, TypeOK
<1>2. ASSUME NEW s \in Stream PROVE (Begun(s) /\ Answered(s))'
  <2>1. s \in Rid /\ Begun(s) /\ Answered(s)
    BY DEF Rid, Waking
  <2>2. /\ Has(toHub', {s}, {"stream_start"}) <=>
             Has(toHub, {s}, {"stream_start"}) \/ (e.id = s /\ e.type = "stream_start")
        /\ Has(toHub', {s}, Final) <=> Has(toHub, {s}, Final) \/ (e.id = s /\ e.type \in Final)
    BY <1>1, HasAppend
  <2>3. /\ Has(queue'[s], AnyId, Final) <=> Has(queue[s], AnyId, Final)
        /\ Has(queue'[s], AnyId, {"stream_start"}) <=> Has(queue[s], AnyId, {"stream_start"})
    BY <1>1
  <2>4. CASE s = r
    BY <1>1, <2>1, <2>2, <2>3, <2>4, RidAssumption DEF Begun, Answered
  <2>5. CASE s # r
    BY <1>1, <2>1, <2>2, <2>3, <2>5 DEF Begun, Answered
  <2>6. QED
    BY <2>4, <2>5
<1>3. QED
  BY <1>1, <1>2 DEF Waking

\* A frame for a stream that waits goes from the wire to its queue.
LEMMA HubReceiveWaking ==
  ASSUME TypeOK, Inv, Waking, HubReceive PROVE Waking'
<1> DEFINE msg == Head(toHub)
<1>1. /\ toHub \in Seq(Frame) /\ toHub # <<>> /\ toHub' = Tail(toHub)
      /\ queue \in [Rid -> Seq(Frame)] /\ pending_unary \subseteq Unary
      /\ UNCHANGED <<caller, pending_stream, started, link, reading, op>>
  BY DEF TypeOK, HubReceive, agentVars
<1>2. msg = toHub[1] /\ 1 \in 1..Len(toHub) /\ msg \in Frame
  BY <1>1, SeqFacts
<1>3. Routed(msg)
  BY HubReceiveRoutes DEF Inv
<1>4. \/ HandleResponse(msg) \/ HandleChunkHeader(msg)
      \/ HandleStreamFrame(msg) \/ HandleBinary(msg)
  BY DEF HubReceive
<1> HIDE DEF msg
<1>5. ASSUME NEW s \in Stream
      PROVE  /\ queue'[s] = queue[s] \/ queue'[s] = Append(queue[s], msg)
             /\ msg.type = "stream_start" /\ msg.id # s => queue'[s] = queue[s]
             /\ msg.type \in Final /\ msg.id = s /\ s \in pending_stream
                  => queue'[s] = Append(queue[s], msg)
  <2>1. s \in Rid /\ s \notin pending_unary
    BY <1>1, RidAssumption DEF Rid
  <2>2. queue'[s] = queue[s] \/ queue'[s] = Append(queue[s], msg)
    BY <1>3, <2>1 DEF Routed
  <2>3. msg.type # "None"
    BY <1>2 DEF Inv, AnswersInFlight
  <2>4. CASE HandleResponse(msg)
    BY <1>1, <2>1, <2>2, <2>4 DEF HandleResponse, Put, Final
  <2>5. CASE HandleStreamFrame(msg)
    BY <1>1, <2>1, <2>2, <2>5 DEF HandleStreamFrame, Put, Final
  <2>6. CASE HandleChunkHeader(msg) \/ HandleBinary(msg)
    BY <2>2, <2>3, <2>6 DEF HandleChunkHeader, HandleBinary, Final
  <2>7. QED
    BY <1>4, <2>4, <2>5, <2>6
<1>6. ASSUME NEW s \in Stream PROVE (Begun(s) /\ Answered(s))'
  <2>1. s \in Rid /\ Begun(s) /\ Answered(s) /\ queue[s] \in Seq(Frame)
    BY <1>1 DEF Rid, Waking
  <2>2. /\ Has(toHub, {s}, {"stream_start"}) <=>
             Has(toHub', {s}, {"stream_start"}) \/ (msg.id = s /\ msg.type = "stream_start")
        /\ Has(toHub, {s}, Final) <=> Has(toHub', {s}, Final) \/ (msg.id = s /\ msg.type \in Final)
    BY <1>1, HasTail DEF msg
  <2>3. msg.id \in AnyId
    BY <1>2 DEF Frame, AnyId
  <2>4. /\ Has(Append(queue[s], msg), AnyId, Final)
             <=> Has(queue[s], AnyId, Final) \/ msg.type \in Final
        /\ Has(Append(queue[s], msg), AnyId, {"stream_start"})
             <=> Has(queue[s], AnyId, {"stream_start"}) \/ msg.type = "stream_start"
    BY <1>2, <2>1, <2>3, HasAppend
  <2>5. Begun(s)'
    BY <1>1, <1>5, <2>1, <2>2, <2>4 DEF Begun
  <2>6. caller[s] = "waiting" => s \in pending_stream
    BY DEF Inv, NoLeakedEntry, Active
  <2>7. Answered(s)'
    BY <1>1, <1>5, <2>1, <2>2, <2>4, <2>6 DEF Answered
  <2>8. QED
    BY <2>5, <2>7
<1>7. QED
  BY <1>1, <1>6 DEF Waking

\* One message of stream()'s loop: it ends the call, or it is no message that does.
LEMMA StreamNextWaking ==
  ASSUME TypeOK, Waking, NEW r \in Rid, StreamNext(r) PROVE Waking'
<1>1. /\ queue \in [Rid -> Seq(Frame)] /\ queue[r] \in Seq(Frame) /\ queue[r] # <<>>
      /\ started \in [Rid -> BOOLEAN] /\ UNCHANGED <<connVars, wireVars, agentVars>>
  BY DEF TypeOK, StreamNext
<1>2. CASE \E o \in Outcome : Finish(r, o) /\ UNCHANGED started
  BY <1>1, <1>2, FinishWaking
<1>3. CASE /\ queue' = [queue EXCEPT ![r] = Tail(queue[r])] /\ UNCHANGED caller
           /\ \/ /\ Head(queue[r]).type = "stream_start"
                 /\ started' = [started EXCEPT ![r] = TRUE]
              \/ Head(queue[r]).type = "binary" /\ UNCHANGED started
  <2>1. ASSUME NEW s \in Stream PROVE (Begun(s) /\ Answered(s))'
    <3>1. s \in Rid /\ Begun(s) /\ Answered(s) /\ UNCHANGED <<toHub, link, op>>
      BY <1>1 DEF Rid, Waking, connVars, wireVars, agentVars
    <3>2. CASE s = r
      <4>1. queue'[s] = Tail(queue[s]) /\ queue[s] \in Seq(Frame) /\ queue[s] # <<>>
        BY <1>1, <1>3, <3>1, <3>2
      <4>2. Head(queue[s]).id \in AnyId
        <5>1. Head(queue[s]) \in Frame
          BY <4>1, SeqTypes
        <5>2. QED
          BY <5>1 DEF Frame, AnyId
      <4>3. /\ Has(queue[s], AnyId, Final) <=> Has(queue'[s], AnyId, Final) \/ Head(queue[s]).type \in Final
            /\ Has(queue[s], AnyId, {"stream_start"})
                 <=> Has(queue'[s], AnyId, {"stream_start"}) \/ Head(queue[s]).type = "stream_start"
        BY <4>1, <4>2, HasTail
      <4>4. Head(queue[s]).type \notin Final
        BY <1>3, <3>2 DEF Final
      <4>5. started'[s] => started[s] \/ Head(queue[s]).type = "stream_start"
        BY <1>3, <3>2
      <4>6. Begun(s)'
        BY <3>1, <4>3, <4>5 DEF Begun
      <4>7. Answered(s)'
        BY <1>3, <3>1, <4>3, <4>4 DEF Answered
      <4>8. QED
        BY <4>6, <4>7
    <3>3. CASE s # r
      <4>1. queue'[s] = queue[s] /\ started'[s] = started[s]
        BY <1>1, <1>3, <3>1, <3>3
      <4>2. QED
        BY <1>3, <3>1, <4>1 DEF Begun, Answered
    <3>4. QED
      BY <3>2, <3>3
  <2>2. QED
    BY <1>1, <2>1 DEF Waking, connVars
<1>4. QED
  BY <1>1, <1>2, <1>3 DEF StreamNext, Outcome

\* Every step keeps it.
THEOREM WakingInductive == TypeOK /\ Inv /\ Waking /\ [Next]_vars => Waking'
<1> SUFFICES ASSUME TypeOK, Inv, Waking, [Next]_vars PROVE Waking'
  OBVIOUS
<1>0. /\ caller \in [Rid -> {"idle"} \cup Active \cup Outcome] /\ queue \in [Rid -> Seq(Frame)]
      /\ op \in [Rid -> {"none", "ok", "err", "died"} \cup Working] /\ toHub \in Seq(Frame)
      /\ \A r \in Stream : r \in Rid
  BY DEF TypeOK, Rid
<1>1. ASSUME NEW r \in Rid, Call(r) PROVE Waking'
  BY <1>0, <1>1 DEF Call, Waking, Begun, Answered, connVars, wireVars, agentVars
<1>2. ASSUME NEW r \in Rid, SendRequest(r) PROVE Waking'
  <2>1. op[r] = "none"
    BY <1>2 DEF SendRequest, Inv, RequestsOnce
  <2>2. QED
    BY <1>0, <1>2, <2>1 DEF SendRequest, Waking, Begun, Answered, connVars, agentVars
<1>3. ASSUME NEW r \in Rid, SendRequestOnDeadSocket(r) PROVE Waking'
  <2>1. CASE Finish(r, "unsent")
    BY <1>3, <2>1, FinishWaking DEF SendRequestOnDeadSocket, Outcome
  <2>2. CASE ~Finish(r, "unsent")
    BY <1>0, <1>3, <2>2
       DEF SendRequestOnDeadSocket, Waking, Begun, Answered, connVars, wireVars, agentVars
  <2>3. QED
    BY <2>1, <2>2
<1>4. ASSUME NEW r \in Rid, UnaryReturn(r) PROVE Waking'
  BY <1>4, FinishWaking DEF UnaryReturn, Outcome
<1>5. ASSUME NEW r \in Rid, UnaryTimeout(r) PROVE Waking'
  BY <1>5, FinishWaking DEF UnaryTimeout, Outcome
<1>6. ASSUME NEW r \in Rid, StreamNext(r) PROVE Waking'
  BY <1>6, StreamNextWaking
<1>7. ASSUME NEW r \in Rid, StreamStartTimeout(r) PROVE Waking'
  BY <1>7, FinishWaking DEF StreamStartTimeout, Outcome
<1>8. ASSUME NEW r \in Rid, StreamAbandon(r) PROVE Waking'
  BY <1>8, FinishWaking DEF StreamAbandon, Outcome
<1>9. CASE HubReceive
  BY <1>9, HubReceiveWaking
<1>10. CASE Drop \/ Supersede
  <2>1. /\ link' = "down" /\ UNCHANGED <<started, queue>>
        /\ \A s \in Rid : op'[s] = IF op[s] \in Working THEN "died" ELSE op[s]
    BY <1>0, <1>10 DEF Drop, Supersede, LoseSocket, callVars
  <2>2. PICK kept \in 0..Len(toHub) : toHub' = SubSeq(toHub, 1, kept)
    BY <1>10 DEF Drop, Supersede, LoseSocket
  <2>3. ASSUME NEW s \in Stream PROVE (Begun(s) /\ Answered(s))'
    <3>1. Has(toHub', {s}, {"stream_start"}) => Has(toHub, {s}, {"stream_start"})
      BY <1>0, <2>2, HasPrefix
    <3>2. QED
      BY <1>0, <2>1, <3>1 DEF Waking, Begun, Answered
  <2>4. QED
    BY <2>1, <2>3 DEF Waking
<1>11. CASE CloseSuperseded \/ Unregister
  <2>1. /\ UNCHANGED <<caller, started, link, reading, toHub, op>>
        /\ \A s \in Rid : queue'[s] = queue[s] \/ queue'[s] = Append(queue[s], Sentinel)
    BY <1>0, <1>11 DEF CloseSuperseded, Unregister, ClosePending, wireVars, agentVars
  <2>2. Sentinel.id \in AnyId /\ Sentinel.type # "stream_start" /\ Sentinel.type \in Final
    BY DEF Sentinel, Text, AnyId, Final
  <2>3. ASSUME NEW s \in Stream PROVE (Begun(s) /\ Answered(s))'
    <3>1. s \in Rid /\ queue[s] \in Seq(Frame)
      BY <1>0
    <3>2. /\ Has(queue'[s], AnyId, {"stream_start"}) => Has(queue[s], AnyId, {"stream_start"})
          /\ Has(queue[s], AnyId, Final) => Has(queue'[s], AnyId, Final)
      BY <2>1, <2>2, <3>1, HasAppend, SentinelType
    <3>3. QED
      BY <2>1, <3>2 DEF Waking, Begun, Answered
  <2>4. QED
    BY <2>1, <2>3 DEF Waking
<1>12. CASE ReceiveLoopEnds
  BY <1>12 DEF ReceiveLoopEnds, Waking, Begun, Answered, callVars, wireVars, agentVars
<1>13. CASE AgentReceive
  <2>1. /\ op[Head(toAgent)] = "none" /\ op' = [op EXCEPT ![Head(toAgent)] = "running"]
        /\ UNCHANGED <<callVars, connVars, toHub>>
    <3>1. toAgent \in Seq(Rid) /\ toAgent # <<>>
      BY <1>13 DEF AgentReceive, TypeOK
    <3>2. Head(toAgent) = toAgent[1] /\ 1 \in 1..Len(toAgent)
      BY <3>1, SeqFacts
    <3>3. QED
      BY <1>13, <3>2 DEF AgentReceive, Inv, RequestsOnce
  <2>2. QED
    BY <1>0, <2>1 DEF Waking, Begun, Answered, callVars, connVars
<1>14. ASSUME NEW r \in Rid, AgentRespond(r) PROVE Waking'
  <2>1. ASSUME NEW t \in {"response_ok", "response_err"} PROVE Text(t, r) \in Frame /\ Text(t, r).type = t
    BY <2>1, TextFacts DEF FrameType
  <2>2. QED
    BY <1>14, <2>1, SendWaking DEF AgentRespond, SendText
<1>15. ASSUME NEW r \in Rid, AgentStreamStart(r) PROVE Waking'
  <2>1. Text("stream_start", r) \in Frame /\ Text("stream_start", r).id = r
    BY TextFacts DEF FrameType
  <2>2. QED
    BY <1>15, <2>1, SendWaking DEF AgentStreamStart, SendText
<1>16. ASSUME NEW r \in Rid, AgentSendHeader(r) PROVE Waking'
  <2>1. Text("stream_chunk_header", r) \in Frame /\ Text("stream_chunk_header", r).type # "stream_start"
    BY TextFacts DEF FrameType
  <2>2. op' = [op EXCEPT ![r] = "streaming"]
    BY <1>0, <1>16 DEF AgentSendHeader
  <2>3. QED
    BY <1>16, <2>1, <2>2, SendWaking DEF AgentSendHeader, SendText
<1>17. ASSUME NEW r \in Rid, AgentSendBinary(r) PROVE Waking'
  <2>1. Binary(r, sent[r] + 1) \in Frame /\ Binary(r, sent[r] + 1).type # "stream_start"
    BY FrameTypes DEF FrameType, Binary, TypeOK
  <2>2. op' = [op EXCEPT ![r] = "streaming"]
    BY <1>0, <1>17, RidAssumption DEF AgentSendBinary, Inv, Pairing, Rid
  <2>3. QED
    BY <1>17, <2>1, <2>2, SendWaking DEF AgentSendBinary
<1>18. ASSUME NEW r \in Rid, AgentStreamEnd(r) PROVE Waking'
  <2>1. /\ Text("stream_end", r) \in Frame
        /\ Text("stream_end", r).type = "stream_end" /\ Text("stream_end", r).id = r
    BY TextFacts DEF FrameType
  <2>2. QED
    BY <1>18, <2>1, SendWaking DEF AgentStreamEnd, SendText, Final
<1>19. ASSUME NEW r \in Rid, AgentStreamError(r) PROVE Waking'
  <2>1. /\ Text("response_err", r) \in Frame
        /\ Text("response_err", r).type = "response_err" /\ Text("response_err", r).id = r
    BY TextFacts DEF FrameType
  <2>2. QED
    BY <1>19, <2>1, SendWaking DEF AgentStreamError, SendText, Final
<1>20. ASSUME NEW r \in Rid, AgentDie(r) PROVE Waking'
  BY <1>0, <1>20 DEF AgentDie, Waking, Begun, Answered, callVars, connVars, wireVars
<1>21. CASE UNCHANGED vars
  BY <1>21 DEF vars, callVars, connVars, wireVars, agentVars, Waking, Begun, Answered
<1>22. QED
  BY <1>1, <1>2, <1>3, <1>4, <1>5, <1>6, <1>7, <1>8, <1>9, <1>10, <1>11, <1>12, <1>13, <1>14,
     <1>15, <1>16, <1>17, <1>18, <1>19, <1>20, <1>21 DEF Next, HubStep, AgentStep, Terminated

\* A stream that may wait for ever has its last message queued or under way, its
\* connection still to be unregistered, or an agent that is producing it.
THEOREM NoneStranded == Spec => []NoStrandedStream
<1>1. Init => Waking
  BY RidAssumption DEF Init, Waking, Begun, Answered, Has, Rid
<1>2. Spec => []Waking
  BY <1>1, TypeCorrect, AlwaysInv, WakingInductive, PTL DEF Spec
<1>3. ASSUME TypeOK, Inv, Waking PROVE NoStrandedStream
  <2> SUFFICES ASSUME NEW r \in Stream, caller[r] = "waiting", started[r]
               PROVE  \/ \E i \in 1..Len(queue[r]) : queue[r][i].type \in Final
                      \/ reading /\ \E i \in 1..Len(toHub) : toHub[i].id = r /\ toHub[i].type \in Final
                      \/ link = "down" /\ ~unregistered
                      \/ link = "up" /\ op[r] = "streaming"
    BY DEF NoStrandedStream
  <2>1. Begun(r) /\ Answered(r) /\ (reading \/ link = "down") /\ link \in {"up", "down"}
    BY <1>3 DEF Waking, TypeOK
  <2>2. CASE unregistered
    BY <1>3, <2>2 DEF Inv, WokenOrUntouched, Active, Sentinel, Text, Final
  <2>3. CASE link = "up"
    <3>1. op[r] \in {"none", "ok", "err", "died"} \cup Working
      BY <1>3 DEF TypeOK, Rid
    <3>2. op[r] = "streaming" \/ op[r] \in {"ok", "failing", "err"}
      BY <2>1, <2>3, <3>1 DEF Begun, Working
    <3>3. QED
      BY <2>1, <2>3, <3>2 DEF Answered, Has
  <2>4. QED
    BY <2>1, <2>2, <2>3
<1>4. QED
  BY <1>2, <1>3, TypeCorrect, AlwaysInv, PTL

=============================================================================
