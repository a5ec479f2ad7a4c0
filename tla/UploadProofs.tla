---------------------------- MODULE UploadProofs ----------------------------
(***************************************************************************)
(* What is installed at a path is what the browser was told, and no .part  *)
(* file or queue is left behind but where the agent ended while it wrote,  *)
(* for any number of uploads, of any sizes, on one connection that may be  *)
(* lost, and an agent that may end, any number of times.                   *)
(***************************************************************************)
EXTENDS Upload, SequenceTheorems, TLAPS

\* The frame f belongs to upload u.
Of(u, f) == f.id = u \/ f.src = u
IsChunk(f, u) == f.type = "binary" /\ f.src = u
IsText(f, t, u) == f.type = t /\ f.id = u

\* Of the frames w on the wire: there is none of u, there is a t of u.
NoneOf(w, u) == \A i \in 1..Len(w) : ~Of(u, w[i])
Has(w, t, u) == \E i \in 1..Len(w) : IsText(w[i], t, u)

\* There is one request of u, and nothing of u behind its end.
OneRequest(w, u) ==
  \A i, j \in 1..Len(w) : IsText(w[i], "request", u) /\ IsText(w[j], "request", u) => i = j
EndLast(w, u) ==
  \A i, j \in 1..Len(w) : IsText(w[i], "end", u) /\ Of(u, w[j]) => j <= i

\* The chunks of u are numbers lo+1, lo+2, ... up to at most hi, in this order.
InOrder(w, u, lo, hi) ==
  \A i \in 1..Len(w) : IsChunk(w[i], u) =>
    /\ w[i].n \in (lo + 1)..hi
    /\ \A k \in (lo + 1)..(w[i].n - 1) : \E j \in 1..(i - 1) : w[j] = Binary(u, k)
    /\ \A j \in 1..(i - 1) : IsChunk(w[j], u) => w[j].n < w[i].n

\* They are all there up to hi; and they all are before the end.
UpTo(w, u, lo, hi) ==
  \A k \in (lo + 1)..hi : \E j \in 1..Len(w) : w[j] = Binary(u, k)
UpToEnd(w, u, lo, hi) ==
  \A i \in 1..Len(w) : IsText(w[i], "end", u) =>
    \A k \in (lo + 1)..hi : \E j \in 1..(i - 1) : w[j] = Binary(u, k)

\* Bytes follow their header at once, also when the header (rid) was read already.
Paired(w, rid) ==
  \A i \in 1..Len(w) :
    /\ w[i].type = "header" => i < Len(w) /\ w[i + 1].type = "binary"
    /\ w[i].type = "binary" =>
         /\ w[i].id = NoUp /\ w[i].src \in Up
         /\ IF i = 1 THEN rid = w[1].src
                     ELSE w[i - 1].type = "header" /\ w[i - 1].id = w[i].src
    /\ w[i].type # "binary" => w[i].src = NoUp /\ w[i].id \in Up

BytesFollowHeader == Paired(wire, pending_binary_for_rid)

\* The request goes out first, and once.
RequestIsFirst ==
  \A u \in Up :
    /\ hub[u] = "idle" => task[u] = "none" /\ nsent[u] = 0 /\ NoneOf(wire, u)
    /\ Has(wire, "request", u) => task[u] = "none"
    /\ OneRequest(wire, u)

\* After the end of the body nothing of the upload is sent, or is still to come
\* when its queue holds the end.
EndIsLast ==
  \A u \in Up :
    /\ nsent[u] <= Size[u]
    /\ ended[u] => hub[u] \notin {"idle", "sending"} /\ nsent[u] = Size[u]
    /\ Has(wire, "end", u) => ended[u]
    /\ EndLast(wire, u)
    /\ \A i \in 1..Len(recv_queue[u]) : recv_queue[u][i].type = "end" =>
         i = Len(recv_queue[u]) /\ ended[u] /\ NoneOf(wire, u)

\* The write task has its queue, and nobody else has one.
QueueIsOpen ==
  \A u \in Up :
    /\ u \in opened <=> task[u] = "writing"
    /\ recv_queue[u] # <<>> => task[u] = "writing"
    /\ task[u] \in {"none", "created"} => written[u] = 0
    /\ fut[u] # "pending" => task[u] \in {"done", "failed"}
    /\ fut[u] \in {"ok", "warning"} => task[u] = "done"
    /\ hub[u] = "ok" => fut[u] = "ok"

\* A file is of an upload to its path, and one who is alone there writes his own.
FilesAreOfThePath ==
  /\ \A p \in Path : /\ tmp[p] # NoUp => path[tmp[p]] = p
                     /\ final[p] # NoUp => path[final[p]] = p
  /\ \A u \in Up : /\ handle[u] # NoUp => path[handle[u]] = path[u]
                   /\ task[u] = "writing" => handle[u] # NoUp
  /\ \A u \in Up : Alone(u) =>
       /\ task[u] = "writing" => tmp[path[u]] = u
       /\ tmp[path[u]] = u => task[u] \in {"writing", "killed"}
       /\ final[path[u]] = u <=> task[u] = "done"

PartIsWritten ==
  \A p \in Path : tmp[p] # NoUp =>
    p \in left \/ \E u \in Up : path[u] = p /\ task[u] = "writing"

\* The chunks in the queue.
Chunks(u) ==
  IF recv_queue[u] # <<>> /\ recv_queue[u][Len(recv_queue[u])].type = "end"
  THEN Len(recv_queue[u]) - 1 ELSE Len(recv_queue[u])

\* The m chunks of u that follow the k-th.
Slice(u, k, m) == [j \in 1..m |-> <<u, k + j>>]

\* The chunks of u up to g have reached the agent.  Those that its task has in its
\* queue, and before them those that it has written, are the last of them.
InQueue(u, g) ==
  task[u] = "writing" =>
    /\ written[u] + Chunks(u) <= g
    /\ \A i \in 1..Chunks(u) : recv_queue[u][i] = Binary(u, g - Chunks(u) + i)
InFile(u, g) ==
  task[u] = "writing" /\ Alone(u) =>
    content[u] = Slice(u, g - Chunks(u) - written[u], written[u])

\* Those after g come in order and without a gap, and all of them before the end.
\* While the hub sends, all it sent is on the wire: a connection that is lost takes
\* chunks with it, and then the hub stops and the end of the body will not come.
InFlight(u, g) ==
  /\ InOrder(wire, u, g, nsent[u])
  /\ UpToEnd(wire, u, g, Size[u])
  /\ hub[u] = "sending" => UpTo(wire, u, g, nsent[u])

EndIsReached(u, g) == Chunks(u) < Len(recv_queue[u]) => g = Size[u]

Reached(u, g) == InQueue(u, g) /\ InFile(u, g) /\ EndIsReached(u, g) /\ InFlight(u, g)

Contiguous == \A u \in Up : \E g \in 0..nsent[u] : Reached(u, g)

\* What an upload that has its path to itself has installed is the end of its body;
\* its size is checked before the answer.
InstalledIsEnd ==
  \A u \in Up : Alone(u) /\ task[u] = "done" =>
    /\ ended[u] /\ written[u] <= Size[u]
    /\ content[u] = Slice(u, Size[u] - written[u], written[u])
    /\ fut[u] = "ok" /\ u \in Sized => written[u] = Size[u]

IInv == TypeOK /\ BytesFollowHeader /\ RequestIsFirst /\ EndIsLast /\ QueueIsOpen
          /\ FilesAreOfThePath /\ PartIsWritten /\ Contiguous /\ InstalledIsEnd

---------------------------------------------------------------------------
\* What the hub puts on the wire is a frame.
LEMMA FrameTypes ==
  ASSUME NEW u \in Up, NEW k \in Nat
  PROVE  /\ \A t \in {"request", "header", "end"} :
              /\ Text(t, u) \in Frame /\ Text(t, u).type = t
              /\ Text(t, u).id = u /\ Text(t, u).src = NoUp
         /\ Binary(u, k) \in Frame /\ Binary(u, k).type = "binary"
         /\ Binary(u, k).id = NoUp /\ Binary(u, k).src = u /\ Binary(u, k).n = k
BY DEF Text, Binary, Frame

\* A frame is sent behind all others.
LEMMA AppendFacts ==
  ASSUME NEW s \in Seq(Frame), NEW f \in Frame
  PROVE  /\ Append(s, f) \in Seq(Frame) /\ Len(Append(s, f)) = Len(s) + 1
         /\ \A i \in 1..Len(s) : Append(s, f)[i] = s[i]
         /\ Append(s, f)[Len(s) + 1] = f /\ Len(s) \in Nat
         /\ \A i \in 1..Len(s) : s[i] \in Frame
BY AppendProperties, LenProperties

\* A frame is taken from the front.
LEMMA TailFacts ==
  ASSUME NEW s \in Seq(Frame), s # <<>>
  PROVE  /\ Tail(s) \in Seq(Frame) /\ Len(Tail(s)) = Len(s) - 1
         /\ \A i \in 1..(Len(s) - 1) : Tail(s)[i] = s[i + 1]
         /\ Head(s) = s[1] /\ s[1] \in Frame /\ Len(s) \in Nat \ {0}
<1>1. /\ Tail(s) \in Seq(Frame) /\ Len(Tail(s)) = Len(s) - 1
      /\ \A i \in 1..Len(Tail(s)) : Tail(s)[i] = s[i + 1]
  BY HeadTailProperties
<1>2. Head(s) = s[1] /\ s[1] \in Frame /\ Len(s) \in Nat \ {0}
  BY EmptySeq, LenProperties
<1>3. QED
  BY <1>1, <1>2

\* What a frame that is sent leaves alone.
LEMMA AppendKeeps ==
  ASSUME NEW w \in Seq(Frame), NEW f \in Frame, NEW u \in Up, NEW lo \in Nat, NEW hi \in Nat
  PROVE  LET x == Append(w, f) IN
         /\ ~Of(u, f) => /\ NoneOf(w, u) => NoneOf(x, u)
                         /\ EndLast(w, u) => EndLast(x, u)
         /\ \A t : ~IsText(f, t, u) => (Has(x, t, u) => Has(w, t, u))
         /\ ~IsText(f, "request", u) /\ OneRequest(w, u) => OneRequest(x, u)
         /\ ~Has(w, "end", u) => EndLast(x, u)
         /\ NoneOf(w, u) => OneRequest(x, u)
         /\ ~IsChunk(f, u) /\ InOrder(w, u, lo, hi) => InOrder(x, u, lo, hi)
         /\ ~IsText(f, "end", u) \/ UpTo(w, u, lo, hi)
              => (UpToEnd(w, u, lo, hi) => UpToEnd(x, u, lo, hi))
         /\ UpTo(w, u, lo, hi) => UpTo(x, u, lo, hi)
<1> DEFINE x == Append(w, f)
<1>1. /\ Len(x) = Len(w) + 1 /\ Len(w) \in Nat /\ x[Len(w) + 1] = f
      /\ \A i \in 1..Len(w) : x[i] = w[i]
  BY AppendFacts
<1> HIDE DEF x
<1>2. ~Of(u, f) => (NoneOf(w, u) => NoneOf(x, u)) /\ (EndLast(w, u) => EndLast(x, u))
  BY <1>1 DEF NoneOf, EndLast, Of, IsText
<1>3. \A t : ~IsText(f, t, u) => (Has(x, t, u) => Has(w, t, u))
  BY <1>1 DEF Has
<1>4. ~IsText(f, "request", u) /\ OneRequest(w, u) => OneRequest(x, u)
  BY <1>1 DEF OneRequest
<1>5. ~Has(w, "end", u) => EndLast(x, u)
  BY <1>1 DEF Has, EndLast
<1>6. NoneOf(w, u) => OneRequest(x, u)
  BY <1>1 DEF NoneOf, OneRequest, IsText, Of
<1>7. ASSUME ~IsChunk(f, u), InOrder(w, u, lo, hi) PROVE InOrder(x, u, lo, hi)
  <2> SUFFICES ASSUME NEW i \in 1..Len(x), IsChunk(x[i], u)
               PROVE  /\ x[i].n \in (lo + 1)..hi
                      /\ \A k \in (lo + 1)..(x[i].n - 1) :
                           \E j \in 1..(i - 1) : x[j] = Binary(u, k)
                      /\ \A j \in 1..(i - 1) : IsChunk(x[j], u) => x[j].n < x[i].n
    BY DEF InOrder
  <2>1. i \in 1..Len(w)
    BY <1>1, <1>7
  <2>2. x[i] = w[i] /\ \A j \in 1..(i - 1) : x[j] = w[j]
    BY <1>1, <2>1
  <2>3. /\ w[i].n \in (lo + 1)..hi
        /\ \A k \in (lo + 1)..(w[i].n - 1) : \E j \in 1..(i - 1) : w[j] = Binary(u, k)
        /\ \A j \in 1..(i - 1) : IsChunk(w[j], u) => w[j].n < w[i].n
    BY <1>7, <2>1, <2>2 DEF InOrder
  <2>4. QED
    BY <2>2, <2>3, Zenon
<1>8. ASSUME UpTo(w, u, lo, hi), UpToEnd(w, u, lo, hi) PROVE UpToEnd(x, u, lo, hi)
  <2> SUFFICES ASSUME NEW i \in 1..Len(x), IsText(x[i], "end", u), NEW k \in (lo + 1)..hi
               PROVE  \E j \in 1..(i - 1) : x[j] = Binary(u, k)
    BY DEF UpToEnd
  <2>1. CASE i \in 1..Len(w)
    <3>1. PICK j \in 1..(i - 1) : w[j] = Binary(u, k)
      BY <1>1, <1>8, <2>1 DEF UpToEnd
    <3>2. QED
      BY <1>1, <2>1, <3>1
  <2>2. CASE i = Len(w) + 1
    <3>1. PICK j \in 1..Len(w) : w[j] = Binary(u, k)
      BY <1>8 DEF UpTo
    <3>2. QED
      BY <1>1, <2>2, <3>1
  <2>3. QED
    BY <1>1, <2>1, <2>2
<1>9. ASSUME ~IsText(f, "end", u), UpToEnd(w, u, lo, hi) PROVE UpToEnd(x, u, lo, hi)
  BY <1>1, <1>9 DEF UpToEnd
<1>10. UpTo(w, u, lo, hi) => UpTo(x, u, lo, hi)
  BY <1>1 DEF UpTo
<1>11. QED
  BY <1>2, <1>3, <1>4, <1>5, <1>6, <1>7, <1>8, <1>9, <1>10 DEF x

\* The next chunk is sent when all before it are there.
LEMMA AppendChunk ==
  ASSUME NEW w \in Seq(Frame), NEW u \in Up, NEW lo \in Nat, NEW hi \in Nat, lo <= hi,
         InOrder(w, u, lo, hi), UpTo(w, u, lo, hi)
  PROVE  /\ InOrder(Append(w, Binary(u, hi + 1)), u, lo, hi + 1)
         /\ UpTo(Append(w, Binary(u, hi + 1)), u, lo, hi + 1)
<1> DEFINE f == Binary(u, hi + 1)
           x == Append(w, f)
<1>1. f \in Frame /\ f.type = "binary" /\ f.src = u /\ f.n = hi + 1
  BY FrameTypes
<1>2. /\ Len(x) = Len(w) + 1 /\ Len(w) \in Nat /\ x[Len(w) + 1] = f
      /\ \A i \in 1..Len(w) : x[i] = w[i]
  BY <1>1, AppendFacts
<1> HIDE DEF x
<1>3. UpTo(x, u, lo, hi + 1)
  <2> SUFFICES ASSUME NEW k \in (lo + 1)..(hi + 1)
               PROVE  \E j \in 1..Len(x) : x[j] = Binary(u, k)
    BY DEF UpTo
  <2>1. CASE k = hi + 1
    BY <1>2, <2>1
  <2>2. CASE k \in (lo + 1)..hi
    BY <1>2, <2>2 DEF UpTo
  <2>3. QED
    BY <2>1, <2>2
<1> HIDE DEF f
<1>4. InOrder(x, u, lo, hi + 1)
  <2> SUFFICES ASSUME NEW i \in 1..Len(x), IsChunk(x[i], u)
               PROVE  /\ x[i].n \in (lo + 1)..(hi + 1)
                      /\ \A k \in (lo + 1)..(x[i].n - 1) :
                           \E j \in 1..(i - 1) : x[j] = Binary(u, k)
                      /\ \A j \in 1..(i - 1) : IsChunk(x[j], u) => x[j].n < x[i].n
    BY DEF InOrder
  <2>1. CASE i \in 1..Len(w)
    <3>1. /\ w[i].n \in (lo + 1)..hi
          /\ \A k \in (lo + 1)..(w[i].n - 1) : \E j \in 1..(i - 1) : w[j] = Binary(u, k)
          /\ \A j \in 1..(i - 1) : IsChunk(w[j], u) => w[j].n < w[i].n
      BY <1>2, <2>1 DEF InOrder
    <3>2. x[i] = w[i] /\ \A j \in 1..(i - 1) : x[j] = w[j]
      BY <1>2, <2>1
    <3>3. x[i].n \in (lo + 1)..(hi + 1)
      BY <3>1, <3>2
    <3>4. QED
      BY <3>1, <3>2, <3>3, Zenon
  <2>2. CASE i = Len(w) + 1
    <3>1. x[i].n = hi + 1
      BY <1>1, <1>2, <2>2
    <3>2. \A j \in 1..(i - 1) : x[j] = w[j] /\ (IsChunk(w[j], u) => w[j].n \in (lo + 1)..hi)
      BY <1>2, <2>2 DEF InOrder
    <3>3. \A k \in (lo + 1)..hi : \E j \in 1..(i - 1) : x[j] = Binary(u, k)
      BY <1>2, <2>2, SMTT(30) DEF UpTo
    <3>4. QED
      BY <3>1, <3>2, <3>3
  <2>3. QED
    BY <1>2, <2>1, <2>2
<1>5. QED
  BY <1>3, <1>4 DEF x, f

\* An upload's parts of the state are in their types.
LEMMA Types ==
  ASSUME TypeOK, NEW u \in Up
  PROVE  /\ recv_queue[u] \in Seq(Frame) /\ nsent[u] \in Nat /\ written[u] \in Nat
         /\ wire \in Seq(Frame) /\ Size[u] \in Nat /\ NoUp \notin Up
         /\ Len(recv_queue[u]) \in Nat /\ Len(wire) \in Nat /\ path[u] \in Path
         /\ Chunks(u) \in Nat /\ Chunks(u) <= Len(recv_queue[u])
         /\ \A i \in 1..Len(wire) : wire[i] \in Frame
         /\ \A i \in 1..Len(recv_queue[u]) : recv_queue[u][i] \in Frame
<1>1. /\ recv_queue[u] \in Seq(Frame) /\ nsent[u] \in Nat /\ written[u] \in Nat
      /\ wire \in Seq(Frame) /\ Size[u] \in Nat /\ NoUp \notin Up /\ path[u] \in Path
  BY UploadAssumption DEF TypeOK
<1>2. Len(recv_queue[u]) \in Nat /\ Len(wire) \in Nat
  BY <1>1, LenProperties
<1>3. recv_queue[u] # <<>> => Len(recv_queue[u]) > 0
  BY <1>1, EmptySeq
<1>4. /\ \A i \in 1..Len(wire) : wire[i] \in Frame
      /\ \A i \in 1..Len(recv_queue[u]) : recv_queue[u][i] \in Frame
  BY <1>1, LenProperties
<1>5. QED
  BY <1>1, <1>2, <1>3, <1>4 DEF Chunks

\* Nothing was sent or written yet.
LEMMA InitIInv == Init => IInv
<1> SUFFICES ASSUME Init PROVE IInv
  OBVIOUS
<1> USE UploadAssumption DEF Init
<1>1. TypeOK
  BY DEF TypeOK, Active, Told
<1>2. BytesFollowHeader /\ RequestIsFirst /\ EndIsLast /\ QueueIsOpen
  BY DEF BytesFollowHeader, Paired, RequestIsFirst, NoneOf, Has, OneRequest, EndIsLast,
         EndLast, QueueIsOpen
<1>3. FilesAreOfThePath /\ PartIsWritten /\ InstalledIsEnd
  BY DEF FilesAreOfThePath, PartIsWritten, InstalledIsEnd
<1>4. \A u \in Up : Reached(u, 0)
  <2>1. Len(wire) = 0 /\ \A u \in Up : Chunks(u) = 0 /\ Len(recv_queue[u]) = 0
    BY DEF Chunks
  <2>2. \A u \in Up : task[u] = "none" /\ hub[u] = "idle"
    OBVIOUS
  <2> HIDE DEF Init
  <2>3. QED
    <3> SUFFICES ASSUME NEW u \in Up PROVE Reached(u, 0)
      OBVIOUS
    <3>1. InQueue(u, 0) /\ InFile(u, 0)
      BY <2>2 DEF InQueue, InFile
    <3>2. EndIsReached(u, 0)
      BY <2>1 DEF EndIsReached
    <3>3. InFlight(u, 0)
      BY <2>1, <2>2 DEF InFlight, InOrder, UpToEnd
    <3>4. QED
      BY <3>1, <3>2, <3>3 DEF Reached
<1>5. QED
  BY <1>1, <1>2, <1>3, <1>4 DEF IInv, Contiguous

\* The files are the agent's business.
LEMMA FilesUnchanged ==
  ASSUME IInv, UNCHANGED <<path, task, fut, fileVars>>, \A u \in Up : ended[u] => ended'[u]
  PROVE  FilesAreOfThePath' /\ PartIsWritten' /\ InstalledIsEnd'
BY DEF IInv, fileVars, FilesAreOfThePath, PartIsWritten, InstalledIsEnd, Alone

\* What the task has does not depend on what the hub sends.
LEMMA AgentUnchanged ==
  ASSUME IInv, UNCHANGED <<path, task, written, content, recv_queue>>,
         NEW u \in Up, NEW g, Reached(u, g)
  PROVE  InQueue(u, g)' /\ InFile(u, g)' /\ EndIsReached(u, g)'
BY DEF Reached, InQueue, InFile, EndIsReached, Chunks, Alone

\* A caller leaves upload(): with the answer, without it, or with its browser.
LEMMA LeaveStep ==
  ASSUME IInv, NEW u \in Up, hub[u] \in Active, NEW h \in Told,
         h = "ok" => fut[u] = "ok", hub' = [hub EXCEPT ![u] = h],
         UNCHANGED <<path, nsent, ended, fut, wire, sessionVars, task, fileVars, drops>>
  PROVE  IInv'
<1> USE DEF IInv, sessionVars
<1>1. TypeOK'
  BY DEF TypeOK, fileVars
<1>2. BytesFollowHeader' /\ RequestIsFirst' /\ EndIsLast' /\ QueueIsOpen'
  BY DEF TypeOK, BytesFollowHeader, RequestIsFirst, EndIsLast, QueueIsOpen, Told,
         fileVars
<1>3. FilesAreOfThePath' /\ PartIsWritten' /\ InstalledIsEnd'
  BY FilesUnchanged
<1>4. Contiguous'
  <2> SUFFICES ASSUME NEW v \in Up, NEW g \in 0..nsent[v], Reached(v, g)
               PROVE  Reached(v, g)'
    BY DEF Contiguous
  <2>1. InQueue(v, g)' /\ InFile(v, g)' /\ EndIsReached(v, g)'
    BY AgentUnchanged DEF fileVars
  <2>2. hub'[v] = "sending" => hub[v] = "sending"
    BY DEF TypeOK, Told
  <2>3. QED
    BY <2>1, <2>2 DEF Reached, InFlight
<1>5. QED
  BY <1>1, <1>2, <1>3, <1>4

\* The connection is lost: nothing is on the wire, and nobody sends.
LEMMA DropStep ==
  ASSUME IInv, Drop
  PROVE  IInv'
<1> USE DEF IInv, Drop
<1>1. TypeOK'
  BY UploadAssumption, SMTT(30) DEF TypeOK, fileVars, Active, Told
<1>2. \A u \in Up : hub'[u] # "sending" /\ (hub'[u] \in {"idle", "ok"} => hub'[u] = hub[u])
  BY DEF Active
<1>3. Len(wire') = 0
  BY EmptySeq
<1>4. BytesFollowHeader' /\ RequestIsFirst' /\ EndIsLast' /\ QueueIsOpen'
  BY <1>2, <1>3 DEF BytesFollowHeader, Paired, RequestIsFirst, NoneOf, Has, OneRequest,
                    EndIsLast, EndLast, QueueIsOpen, fileVars
<1>5. FilesAreOfThePath' /\ PartIsWritten' /\ InstalledIsEnd'
  BY FilesUnchanged
<1>6. Contiguous'
  BY <1>2, <1>3, AgentUnchanged, SMTT(30)
     DEF Contiguous, Reached, InFlight, InOrder, UpToEnd, fileVars
<1>7. QED
  BY <1>1, <1>4, <1>5, <1>6

\* The agent's process ends: nothing is on the wire, nobody sends, and no task
\* is left; its .part files are.
LEMMA AgentExitStep ==
  ASSUME IInv, AgentExit
  PROVE  IInv'
<1> USE DEF IInv, AgentExit
<1>1. /\ \A u \in Up : recv_queue'[u] = <<>>
      /\ task' \in [Up -> {"none", "created", "writing", "done", "failed", "killed"}]
      /\ hub' \in [Up -> {"idle"} \cup Active \cup Told]
      /\ recv_queue' \in [Up -> Seq(Frame)]
      /\ left' \subseteq Path
  BY SMTT(30) DEF TypeOK, Active, Told
<1>2. TypeOK'
  BY <1>1, UploadAssumption, SMTT(30) DEF TypeOK
<1>3. \A u \in Up :
        /\ hub'[u] # "sending" /\ (hub'[u] \in {"idle", "ok"} => hub'[u] = hub[u])
        /\ task'[u] \notin {"created", "writing"}
        /\ \/ task'[u] = task[u]
           \/ task'[u] = "killed" /\ task[u] \in {"created", "writing"}
  <2>1. \A u \in Up : hub'[u] = IF hub[u] \in Active THEN "error" ELSE hub[u]
    OBVIOUS
  <2>2. \A u \in Up : task'[u] = IF task[u] \in Running THEN "killed" ELSE task[u]
    OBVIOUS
  <2>3. QED
    BY <2>1, <2>2 DEF Active, Running
<1>4. Len(wire') = 0
  BY EmptySeq
<1>5. BytesFollowHeader' /\ EndIsLast'
  BY <1>1, <1>3, <1>4 DEF BytesFollowHeader, Paired, NoneOf, Has, EndIsLast, EndLast
<1>6. RequestIsFirst'
  BY <1>3, <1>4 DEF RequestIsFirst, NoneOf, Has, OneRequest
<1>7. QueueIsOpen'
  BY <1>1, <1>3 DEF QueueIsOpen
<1>8. FilesAreOfThePath'
  BY <1>3 DEF FilesAreOfThePath, Alone
<1>9. PartIsWritten'
  BY <1>3 DEF PartIsWritten
<1>10. InstalledIsEnd'
  BY <1>3 DEF InstalledIsEnd, Alone
<1>11. Contiguous'
  <2> SUFFICES ASSUME NEW u \in Up, NEW g \in 0..nsent[u], Reached(u, g)
               PROVE  Reached(u, g)'
    BY DEF Contiguous
  <2>1. InQueue(u, g)' /\ InFile(u, g)'
    BY <1>3 DEF InQueue, InFile
  <2>2. EndIsReached(u, g)'
    BY <1>1 DEF EndIsReached, Chunks
  <2>3. InFlight(u, g)'
    BY <1>3, <1>4, SMTT(30) DEF InFlight, InOrder, UpToEnd
  <2>4. QED
    BY <2>1, <2>2, <2>3 DEF Reached
<1>12. QED
  BY <1>2, <1>5, <1>6, <1>7, <1>8, <1>9, <1>10, <1>11

\* A frame that is not half of a pair keeps the pairs.
LEMMA AppendText ==
  ASSUME NEW w \in Seq(Frame), NEW rid, NEW u \in Up, NEW t \in {"request", "end"},
         Paired(w, rid)
  PROVE  Paired(Append(w, Text(t, u)), rid)
<1> DEFINE f == Text(t, u)
           x == Append(w, f)
<1>1. f \in Frame /\ f.type = t /\ f.id = u /\ f.src = NoUp
  BY FrameTypes
<1> HIDE DEF f
<1>2. /\ Len(x) = Len(w) + 1 /\ Len(w) \in Nat /\ x[Len(w) + 1] = f
      /\ \A i \in 1..Len(w) : x[i] = w[i]
  BY <1>1, AppendFacts
<1> HIDE DEF x
<1>3. Paired(x, rid)
  <2> SUFFICES ASSUME NEW i \in 1..Len(x)
               PROVE  /\ x[i].type = "header" => i < Len(x) /\ x[i + 1].type = "binary"
                      /\ x[i].type = "binary" =>
                           /\ x[i].id = NoUp /\ x[i].src \in Up
                           /\ IF i = 1 THEN rid = x[1].src
                              ELSE x[i - 1].type = "header" /\ x[i - 1].id = x[i].src
                      /\ x[i].type # "binary" => x[i].src = NoUp /\ x[i].id \in Up
    BY DEF Paired
  <2>1. CASE i \in 1..Len(w)
    <3>1. x[i] = w[i] /\ (i > 1 => x[i - 1] = w[i - 1])
      BY <1>2, <2>1
    <3>2. i < Len(w) => x[i + 1] = w[i + 1]
      BY <1>2, <2>1
    <3>3. QED
      BY <1>2, <2>1, <3>1, <3>2 DEF Paired
  <2>2. CASE i = Len(w) + 1
    BY <1>1, <1>2, <2>2
  <2>3. QED
    BY <1>2, <2>1, <2>2
<1>4. QED
  BY <1>3 DEF x, f

\* A header and its bytes are sent in one go.
LEMMA AppendPair ==
  ASSUME NEW w \in Seq(Frame), NEW rid, NEW u \in Up, NEW k \in Nat, Paired(w, rid)
  PROVE  /\ w \o <<Text("header", u), Binary(u, k)>>
              = Append(Append(w, Text("header", u)), Binary(u, k))
         /\ Paired(w \o <<Text("header", u), Binary(u, k)>>, rid)
<1> DEFINE f == Text("header", u)
           b == Binary(u, k)
           t == <<f, b>>
           x == w \o t
           y == Append(Append(w, f), b)
<1>1. /\ f \in Frame /\ f.type = "header" /\ f.id = u /\ f.src = NoUp
      /\ b \in Frame /\ b.type = "binary" /\ b.id = NoUp /\ b.src = u
  BY FrameTypes
<1> HIDE DEF f, b
<1>2. t \in Seq(Frame) /\ Len(t) = 2 /\ t[1] = f /\ t[2] = b
  BY <1>1
<1>3. Len(w) \in Nat
  BY LenProperties
<1> HIDE DEF t
<1>4. /\ x \in Seq(Frame) /\ Len(x) = Len(w) + 2
      /\ x[Len(w) + 1] = f /\ x[Len(w) + 2] = b /\ \A i \in 1..Len(w) : x[i] = w[i]
  <2>1. /\ x \in Seq(Frame) /\ Len(x) = Len(w) + Len(t)
        /\ \A i \in 1..(Len(w) + Len(t)) : x[i] = IF i <= Len(w) THEN w[i] ELSE t[i - Len(w)]
    BY <1>2, ConcatProperties
  <2> HIDE DEF x
  <2>2. x[Len(w) + 1] = t[1] /\ x[Len(w) + 2] = t[2]
    BY <1>2, <1>3, <2>1
  <2>3. QED
    BY <1>2, <1>3, <2>1, <2>2
<1>5. /\ y \in Seq(Frame) /\ Len(y) = Len(w) + 2
      /\ y[Len(w) + 1] = f /\ y[Len(w) + 2] = b /\ \A i \in 1..Len(w) : y[i] = w[i]
  <2> DEFINE z == Append(w, f)
  <2>1. /\ z \in Seq(Frame) /\ Len(z) = Len(w) + 1 /\ z[Len(w) + 1] = f
        /\ \A i \in 1..Len(w) : z[i] = w[i]
    BY <1>1, AppendFacts
  <2> HIDE DEF z
  <2>2. /\ Append(z, b) \in Seq(Frame) /\ Len(Append(z, b)) = Len(z) + 1
        /\ Append(z, b)[Len(z) + 1] = b
        /\ \A i \in 1..Len(z) : Append(z, b)[i] = z[i]
    BY <1>1, <2>1, AppendFacts
  <2>3. QED
    BY <1>3, <2>1, <2>2 DEF z
<1> HIDE DEF x, y
<1>6. x = y
  <2>1. \A i \in 1..Len(x) : i \in 1..Len(w) \/ i = Len(w) + 1 \/ i = Len(w) + 2
    BY <1>3, <1>4
  <2>2. QED
    BY <1>4, <1>5, <2>1, SeqEqual
<1>7. Paired(x, rid)
  <2> SUFFICES ASSUME NEW i \in 1..Len(x)
               PROVE  /\ x[i].type = "header" => i < Len(x) /\ x[i + 1].type = "binary"
                      /\ x[i].type = "binary" =>
                           /\ x[i].id = NoUp /\ x[i].src \in Up
                           /\ IF i = 1 THEN rid = x[1].src
                              ELSE x[i - 1].type = "header" /\ x[i - 1].id = x[i].src
                      /\ x[i].type # "binary" => x[i].src = NoUp /\ x[i].id \in Up
    BY DEF Paired
  <2>1. CASE i \in 1..Len(w)
    <3>1. x[i] = w[i] /\ (i > 1 => x[i - 1] = w[i - 1])
      BY <1>3, <1>4, <2>1
    <3>2. i < Len(w) => x[i + 1] = w[i + 1]
      BY <1>3, <1>4, <2>1
    <3>3. QED
      BY <1>3, <1>4, <2>1, <3>1, <3>2 DEF Paired
  <2>2. CASE i = Len(w) + 1
    BY <1>1, <1>3, <1>4, <2>2
  <2>3. CASE i = Len(w) + 2
    BY <1>1, <1>3, <1>4, <2>3
  <2>4. QED
    BY <1>3, <1>4, <2>1, <2>2, <2>3
<1>8. QED
  BY <1>6, <1>7 DEF x, y, t, f, b

\* The request goes out.
LEMMA SendRequestStep ==
  ASSUME IInv, NEW u \in Up, SendRequest(u)
  PROVE  IInv'
<1> USE DEF IInv, sessionVars, fileVars
<1> DEFINE f == Text("request", u)
<1>1. /\ hub[u] = "idle" /\ hub'[u] = "sending" /\ \A v \in Up \ {u} : hub'[v] = hub[v]
      /\ UNCHANGED <<path, nsent, ended, fut, sessionVars, task, fileVars, drops>>
  BY DEF SendRequest, TypeOK
<1>2. /\ f \in Frame /\ f.type = "request" /\ f.id = u /\ f.src = NoUp /\ NoUp \notin Up
      /\ wire \in Seq(Frame) /\ wire' = Append(wire, f)
  BY FrameTypes, UploadAssumption DEF SendRequest, TypeOK
<1>3. TypeOK'
  <2>1. wire' \in Seq(Frame)
    BY <1>2, AppendFacts
  <2>2. QED
    BY <1>1, <2>1 DEF SendRequest, TypeOK, Active
<1>4. BytesFollowHeader'
  BY <1>1, <1>2, AppendText DEF BytesFollowHeader
<1> HIDE DEF f
<1>5. \A v \in Up \ {u} : ~Of(v, f) /\ \A t : ~IsText(f, t, v)
  BY <1>2 DEF Of, IsText
<1>6. ~IsText(f, "end", u) /\ \A v \in Up : ~IsChunk(f, v)
  BY <1>2 DEF IsText, IsChunk
<1>7. RequestIsFirst'
  <2>1. \A v \in Up \ {u} : /\ NoneOf(wire, v) => NoneOf(wire', v)
                            /\ Has(wire', "request", v) => Has(wire, "request", v)
                            /\ OneRequest(wire, v) => OneRequest(wire', v)
    BY <1>2, <1>5, AppendKeeps
  <2>2. NoneOf(wire, u) /\ OneRequest(wire', u) /\ task[u] = "none"
    BY <1>1, <1>2, AppendKeeps DEF RequestIsFirst
  <2>3. QED
    BY <1>1, <2>1, <2>2 DEF RequestIsFirst
<1>8. EndIsLast'
  <2>1. \A v \in Up \ {u} : /\ NoneOf(wire, v) => NoneOf(wire', v)
                            /\ Has(wire', "end", v) => Has(wire, "end", v)
                            /\ EndLast(wire, v) => EndLast(wire', v)
    BY <1>2, <1>5, AppendKeeps
  <2>2. ~ended[u] /\ ~Has(wire, "end", u)
    BY <1>1 DEF EndIsLast
  <2>3. EndLast(wire', u) /\ ~Has(wire', "end", u)
    BY <1>2, <1>6, <2>2, AppendKeeps
  <2>4. QED
    BY <1>1, <2>1, <2>2, <2>3 DEF EndIsLast
<1>9. QueueIsOpen'
  BY <1>1 DEF QueueIsOpen
<1>10. FilesAreOfThePath' /\ PartIsWritten' /\ InstalledIsEnd'
  BY <1>1, FilesUnchanged
<1>11. Contiguous'
  <2> SUFFICES ASSUME NEW v \in Up, NEW g \in 0..nsent[v], Reached(v, g)
               PROVE  Reached(v, g)'
    BY <1>1 DEF Contiguous
  <2>1. InQueue(v, g)' /\ InFile(v, g)' /\ EndIsReached(v, g)'
    BY <1>1, AgentUnchanged
  <2>2. g \in Nat /\ nsent[v] \in Nat /\ Size[v] \in Nat
    BY Types
  <2>3. InOrder(wire', v, g, nsent[v]) /\ UpToEnd(wire', v, g, Size[v])
    BY <1>2, <1>5, <1>6, <2>2, AppendKeeps DEF Reached, InFlight
  <2>4. hub'[v] = "sending" => UpTo(wire', v, g, nsent[v])
    <3>1. CASE v = u
      BY <1>1, <3>1 DEF UpTo, RequestIsFirst
    <3>2. CASE v # u
      BY <1>1, <1>2, <2>2, <3>2, AppendKeeps DEF Reached, InFlight
    <3>3. QED
      BY <3>1, <3>2
  <2>5. QED
    BY <1>1, <2>1, <2>3, <2>4 DEF Reached, InFlight
<1>12. QED
  BY <1>3, <1>4, <1>7, <1>8, <1>9, <1>10, <1>11

\* The end of the body goes out, behind all its chunks.
LEMMA SendEndStep ==
  ASSUME IInv, NEW u \in Up, SendEnd(u)
  PROVE  IInv'
<1> USE DEF IInv, sessionVars, fileVars
<1> DEFINE f == Text("end", u)
<1>1. /\ hub[u] = "sending" /\ hub'[u] = "waiting" /\ nsent[u] = Size[u] /\ ended'[u]
      /\ \A v \in Up \ {u} : hub'[v] = hub[v] /\ ended'[v] = ended[v]
      /\ UNCHANGED <<path, nsent, fut, sessionVars, task, fileVars, drops>>
  BY DEF SendEnd, TypeOK
<1>2. /\ f \in Frame /\ f.type = "end" /\ f.id = u /\ f.src = NoUp /\ NoUp \notin Up
      /\ wire \in Seq(Frame) /\ wire' = Append(wire, f)
  BY FrameTypes, UploadAssumption DEF SendEnd, TypeOK
<1>3. TypeOK'
  <2>1. wire' \in Seq(Frame)
    BY <1>2, AppendFacts
  <2>2. QED
    BY <1>1, <2>1 DEF SendEnd, TypeOK, Active
<1>4. BytesFollowHeader'
  BY <1>1, <1>2, AppendText DEF BytesFollowHeader
<1> HIDE DEF f
<1>5. \A v \in Up \ {u} : ~Of(v, f) /\ \A t : ~IsText(f, t, v)
  BY <1>2 DEF Of, IsText
<1>6. ~IsText(f, "request", u) /\ \A v \in Up : ~IsChunk(f, v)
  BY <1>2 DEF IsText, IsChunk
<1>7. RequestIsFirst'
  <2>1. \A v \in Up \ {u} : NoneOf(wire, v) => NoneOf(wire', v)
    BY <1>2, <1>5, AppendKeeps
  <2>2. \A v \in Up : /\ Has(wire', "request", v) => Has(wire, "request", v)
                      /\ OneRequest(wire, v) => OneRequest(wire', v)
    BY <1>2, <1>5, <1>6, AppendKeeps
  <2>3. QED
    BY <1>1, <2>1, <2>2 DEF RequestIsFirst
<1>8. EndIsLast'
  <2>1. \A v \in Up \ {u} : /\ NoneOf(wire, v) => NoneOf(wire', v)
                            /\ Has(wire', "end", v) => Has(wire, "end", v)
                            /\ EndLast(wire, v) => EndLast(wire', v)
    BY <1>2, <1>5, AppendKeeps
  <2>2. ~ended[u] /\ ~Has(wire, "end", u)
    BY <1>1 DEF EndIsLast
  <2>3. EndLast(wire', u)
    BY <1>2, <2>2, AppendKeeps
  <2>4. QED
    BY <1>1, <2>1, <2>2, <2>3 DEF EndIsLast
<1>9. QueueIsOpen'
  BY <1>1 DEF QueueIsOpen
<1>10. FilesAreOfThePath' /\ PartIsWritten' /\ InstalledIsEnd'
  BY <1>1, FilesUnchanged
<1>11. Contiguous'
  <2> SUFFICES ASSUME NEW v \in Up, NEW g \in 0..nsent[v], Reached(v, g)
               PROVE  Reached(v, g)'
    BY <1>1 DEF Contiguous
  <2>1. InQueue(v, g)' /\ InFile(v, g)' /\ EndIsReached(v, g)'
    BY <1>1, AgentUnchanged
  <2>2. g \in Nat /\ nsent[v] \in Nat /\ Size[v] \in Nat
    BY Types
  <2>3. InOrder(wire', v, g, nsent[v])
    BY <1>2, <1>6, <2>2, AppendKeeps DEF Reached, InFlight
  <2>4. UpToEnd(wire', v, g, Size[v])
    <3>1. UpTo(wire, v, g, Size[v]) \/ ~IsText(f, "end", v)
      BY <1>1, <1>5 DEF Reached, InFlight
    <3>2. QED
      BY <1>2, <2>2, <3>1, AppendKeeps DEF Reached, InFlight
  <2>5. hub'[v] = "sending" => UpTo(wire', v, g, nsent[v])
    BY <1>1, <1>2, <2>2, AppendKeeps DEF Reached, InFlight
  <2>6. QED
    BY <1>1, <2>1, <2>3, <2>4, <2>5 DEF Reached, InFlight
<1>12. QED
  BY <1>3, <1>4, <1>7, <1>8, <1>9, <1>10, <1>11

\* A chunk goes out behind its header, and is the next.
LEMMA SendChunkStep ==
  ASSUME IInv, NEW u \in Up, SendChunk(u)
  PROVE  IInv'
<1> USE DEF IInv, sessionVars, fileVars
<1> DEFINE f == Text("header", u)
           b == Binary(u, nsent[u] + 1)
           w == Append(wire, f)
<1>1. /\ hub[u] = "sending" /\ nsent[u] < Size[u] /\ nsent[u] \in Nat /\ Size[u] \in Nat
      /\ nsent'[u] = nsent[u] + 1 /\ \A v \in Up \ {u} : nsent'[v] = nsent[v]
      /\ UNCHANGED <<path, hub, ended, fut, sessionVars, task, fileVars, drops>>
  BY Types DEF SendChunk, TypeOK
<1>2. /\ f \in Frame /\ f.type = "header" /\ f.id = u /\ f.src = NoUp /\ NoUp \notin Up
      /\ b \in Frame /\ b.type = "binary" /\ b.id = NoUp /\ b.src = u
  BY <1>1, FrameTypes, UploadAssumption, SMTT(30)
<1>3. wire \in Seq(Frame) /\ w \in Seq(Frame)
  BY <1>2, AppendFacts DEF TypeOK
<1>4. wire' = Append(w, b) /\ BytesFollowHeader'
  <2>1. wire' = wire \o <<f, b>> /\ Paired(wire, pending_binary_for_rid)
    BY DEF SendChunk, BytesFollowHeader
  <2>2. QED
    BY <1>1, <1>3, <2>1, AppendPair DEF BytesFollowHeader
<1>5. TypeOK'
  <2>1. wire' \in Seq(Frame)
    BY <1>2, <1>3, <1>4, AppendFacts
  <2>2. QED
    BY <1>1, <2>1, SMTT(30) DEF SendChunk, TypeOK
<1> HIDE DEF f, w
<1>6. \A v \in Up \ {u} : ~Of(v, f) /\ ~Of(v, b) /\ ~IsChunk(b, v)
  BY <1>2 DEF Of, IsChunk
<1>7. \A v \in Up : /\ ~IsChunk(f, v)
                    /\ \A t \in {"request", "end"} : ~IsText(f, t, v) /\ ~IsText(b, t, v)
  BY <1>2 DEF IsText, IsChunk
<1>8. \A v \in Up \ {u} : /\ NoneOf(wire, v) => NoneOf(wire', v)
                          /\ EndLast(wire, v) => EndLast(wire', v)
  <2> HIDE DEF b
  <2>1. \A v \in Up \ {u} : /\ NoneOf(wire, v) => NoneOf(w, v)
                            /\ EndLast(wire, v) => EndLast(w, v)
    BY <1>2, <1>3, <1>6, AppendKeeps DEF w
  <2>2. QED
    BY <1>2, <1>3, <1>4, <1>6, <2>1, AppendKeeps
<1>9. \A v \in Up : /\ Has(wire', "request", v) => Has(wire, "request", v)
                    /\ Has(wire', "end", v) => Has(wire, "end", v)
                    /\ OneRequest(wire, v) => OneRequest(wire', v)
                    /\ ~Has(wire, "end", v) => EndLast(wire', v)
  <2> HIDE DEF b
  <2>1. \A v \in Up : /\ Has(w, "request", v) => Has(wire, "request", v)
                      /\ Has(w, "end", v) => Has(wire, "end", v)
                      /\ OneRequest(wire, v) => OneRequest(w, v)
    BY <1>2, <1>3, <1>7, AppendKeeps DEF w
  <2>2. QED
    BY <1>2, <1>3, <1>4, <1>7, <2>1, AppendKeeps
<1>10. RequestIsFirst'
  BY <1>1, <1>8, <1>9 DEF RequestIsFirst
<1>11. EndIsLast'
  <2>1. ~ended[u] /\ ~Has(wire, "end", u)
    BY <1>1 DEF EndIsLast
  <2>2. QED
    BY <1>1, <1>8, <1>9, <2>1 DEF EndIsLast
<1>12. QueueIsOpen'
  BY <1>1 DEF QueueIsOpen
<1>13. FilesAreOfThePath' /\ PartIsWritten' /\ InstalledIsEnd'
  BY <1>1, FilesUnchanged
<1>14. Contiguous'
  <2> SUFFICES ASSUME NEW v \in Up, NEW g \in 0..nsent[v], Reached(v, g)
               PROVE  g \in 0..nsent'[v] /\ Reached(v, g)'
    BY DEF Contiguous
  <2>1. InQueue(v, g)' /\ InFile(v, g)' /\ EndIsReached(v, g)'
    BY <1>1, AgentUnchanged
  <2>2. g \in Nat /\ nsent[v] \in Nat /\ Size[v] \in Nat /\ g <= nsent[v]
    BY Types
  <2>3. g \in 0..nsent'[v]
    BY <1>1, <2>2
  <2>4. InOrder(w, v, g, nsent[v]) /\ UpToEnd(w, v, g, Size[v])
    BY <1>2, <1>3, <1>7, <2>2, AppendKeeps DEF Reached, InFlight, w
  <2>5. hub[v] = "sending" => UpTo(w, v, g, nsent[v])
    BY <1>2, <1>3, <2>2, AppendKeeps DEF Reached, InFlight, w
  <2>6. UpToEnd(wire', v, g, Size[v])
    BY <1>2, <1>3, <1>4, <1>7, <2>2, <2>4, AppendKeeps
  <2>7. /\ InOrder(wire', v, g, nsent'[v])
        /\ hub[v] = "sending" => UpTo(wire', v, g, nsent'[v])
    <3>1. CASE v = u
      BY <1>1, <1>3, <1>4, <2>2, <2>4, <2>5, <3>1, AppendChunk
    <3>2. CASE v # u
      <4> HIDE DEF b
      <4>1. QED
        BY <1>1, <1>2, <1>3, <1>4, <1>6, <2>2, <2>4, <2>5, <3>2, AppendKeeps
    <3>3. QED
      BY <3>1, <3>2
  <2>8. QED
    BY <1>1, <2>1, <2>3, <2>6, <2>7 DEF Reached, InFlight
<1>15. QED
  BY <1>4, <1>5, <1>10, <1>11, <1>12, <1>13, <1>14

\* What a frame that is read leaves behind.
LEMMA TailKeeps ==
  ASSUME NEW w \in Seq(Frame), w # <<>>, NEW u \in Up, NEW lo \in Nat, NEW hi \in Nat
  PROVE  /\ NoneOf(w, u) => NoneOf(Tail(w), u)
         /\ \A t : Has(Tail(w), t, u) => Has(w, t, u)
         /\ OneRequest(w, u) => OneRequest(Tail(w), u)
         /\ EndLast(w, u) => EndLast(Tail(w), u)
         /\ OneRequest(w, u) /\ IsText(w[1], "request", u) => ~Has(Tail(w), "request", u)
         /\ EndLast(w, u) /\ IsText(w[1], "end", u) => NoneOf(Tail(w), u)
         /\ UpToEnd(w, u, lo, hi) /\ IsText(w[1], "end", u) => hi <= lo
         /\ ~IsChunk(w[1], u) =>
              /\ InOrder(w, u, lo, hi) => InOrder(Tail(w), u, lo, hi)
              /\ UpToEnd(w, u, lo, hi) => UpToEnd(Tail(w), u, lo, hi)
              /\ UpTo(w, u, lo, hi) => UpTo(Tail(w), u, lo, hi)
<1> DEFINE x == Tail(w)
<1>1. /\ Len(w) \in Nat \ {0} /\ Len(x) = Len(w) - 1
      /\ \A i \in 1..(Len(w) - 1) : x[i] = w[i + 1]
  BY TailFacts
<1> HIDE DEF x
<1>2. \A i \in 1..Len(x) : i + 1 \in 1..Len(w) /\ x[i] = w[i + 1]
  BY <1>1
<1>3. NoneOf(w, u) => NoneOf(x, u)
  BY <1>2 DEF NoneOf
<1>4. \A t : Has(x, t, u) => Has(w, t, u)
  BY <1>2 DEF Has
<1>5. OneRequest(w, u) => OneRequest(x, u)
  BY <1>2 DEF OneRequest
<1>6. EndLast(w, u) => EndLast(x, u)
  BY <1>2 DEF EndLast
<1>7. OneRequest(w, u) /\ IsText(w[1], "request", u) => ~Has(x, "request", u)
  BY <1>1, <1>2 DEF OneRequest, Has
<1>8. EndLast(w, u) /\ IsText(w[1], "end", u) => NoneOf(x, u)
  BY <1>1, <1>2 DEF EndLast, NoneOf
<1>9. UpToEnd(w, u, lo, hi) /\ IsText(w[1], "end", u) => hi <= lo
  <2> SUFFICES ASSUME UpToEnd(w, u, lo, hi), IsText(w[1], "end", u), lo + 1 <= hi
               PROVE  FALSE
    OBVIOUS
  <2>1. 1 \in 1..Len(w) /\ hi \in (lo + 1)..hi
    BY <1>1
  <2>2. \E j \in 1..(1 - 1) : w[j] = Binary(u, hi)
    BY <2>1 DEF UpToEnd
  <2>3. QED
    BY <2>2
<1>10. ASSUME ~IsChunk(w[1], u) PROVE \A k \in Nat : w[1] # Binary(u, k)
  BY <1>10, FrameTypes DEF IsChunk
<1>11. ASSUME ~IsChunk(w[1], u), InOrder(w, u, lo, hi) PROVE InOrder(x, u, lo, hi)
  <2> SUFFICES ASSUME NEW i \in 1..Len(x), IsChunk(x[i], u)
               PROVE  /\ x[i].n \in (lo + 1)..hi
                      /\ \A k \in (lo + 1)..(x[i].n - 1) :
                           \E j \in 1..(i - 1) : x[j] = Binary(u, k)
                      /\ \A j \in 1..(i - 1) : IsChunk(x[j], u) => x[j].n < x[i].n
    BY DEF InOrder
  <2>1. i + 1 \in 1..Len(w) /\ x[i] = w[i + 1] /\ (i + 1) - 1 = i
    BY <1>2
  <2>2. /\ x[i].n \in (lo + 1)..hi
        /\ \A k \in (lo + 1)..(x[i].n - 1) : \E j \in 1..i : w[j] = Binary(u, k)
        /\ \A j \in 1..i : IsChunk(w[j], u) => w[j].n < x[i].n
    BY <1>11, <2>1 DEF InOrder
  <2>3. ASSUME NEW k \in (lo + 1)..(x[i].n - 1)
        PROVE  \E j \in 1..(i - 1) : x[j] = Binary(u, k)
    <3>1. PICK j \in 1..i : w[j] = Binary(u, k)
      BY <2>2
    <3>2. j # 1
      BY <1>10, <1>11, <3>1, <2>2
    <3>3. j - 1 \in 1..(i - 1) /\ x[j - 1] = w[j]
      BY <1>1, <3>2
    <3>4. QED
      BY <3>1, <3>3
  <2>4. ASSUME NEW j \in 1..(i - 1), IsChunk(x[j], u) PROVE x[j].n < x[i].n
    <3>1. j + 1 \in 1..i /\ x[j] = w[j + 1]
      BY <1>1
    <3>2. QED
      BY <2>2, <2>4, <3>1
  <2>5. QED
    BY <2>2, <2>3, <2>4
<1>12. ASSUME ~IsChunk(w[1], u), UpToEnd(w, u, lo, hi) PROVE UpToEnd(x, u, lo, hi)
  <2> SUFFICES ASSUME NEW i \in 1..Len(x), IsText(x[i], "end", u), NEW k \in (lo + 1)..hi
               PROVE  \E j \in 1..(i - 1) : x[j] = Binary(u, k)
    BY DEF UpToEnd
  <2>1. i + 1 \in 1..Len(w) /\ x[i] = w[i + 1] /\ (i + 1) - 1 = i
    BY <1>2
  <2>2. PICK j \in 1..i : w[j] = Binary(u, k)
    BY <1>12, <2>1 DEF UpToEnd
  <2>3. j # 1
    BY <1>10, <1>12, <2>2
  <2>4. j - 1 \in 1..(i - 1) /\ x[j - 1] = w[j]
    BY <1>1, <2>3
  <2>5. QED
    BY <2>2, <2>4
<1>13. ASSUME ~IsChunk(w[1], u), UpTo(w, u, lo, hi) PROVE UpTo(x, u, lo, hi)
  <2> SUFFICES ASSUME NEW k \in (lo + 1)..hi
               PROVE  \E j \in 1..Len(x) : x[j] = Binary(u, k)
    BY DEF UpTo
  <2>1. PICK j \in 1..Len(w) : w[j] = Binary(u, k)
    BY <1>13 DEF UpTo
  <2>2. j # 1
    BY <1>10, <1>13, <2>1
  <2>3. j - 1 \in 1..Len(x) /\ x[j - 1] = w[j]
    BY <1>1, <2>2
  <2>4. QED
    BY <2>1, <2>3
<1>14. QED
  BY <1>3, <1>4, <1>5, <1>6, <1>7, <1>8, <1>9, <1>11, <1>12, <1>13 DEF x

\* A chunk that is read is the next one.
LEMMA TailChunk ==
  ASSUME NEW w \in Seq(Frame), w # <<>>, NEW u \in Up, NEW lo \in Nat, NEW hi \in Nat,
         IsChunk(w[1], u), InOrder(w, u, lo, hi)
  PROVE  /\ w[1].n = lo + 1 /\ lo + 1 <= hi
         /\ InOrder(Tail(w), u, lo + 1, hi)
         /\ \A m \in Nat : UpToEnd(w, u, lo, m) => UpToEnd(Tail(w), u, lo + 1, m)
         /\ UpTo(w, u, lo, hi) => UpTo(Tail(w), u, lo + 1, hi)
<1> DEFINE x == Tail(w)
<1>1. /\ Len(w) \in Nat \ {0} /\ Len(x) = Len(w) - 1 /\ w[1] \in Frame
      /\ \A i \in 1..(Len(w) - 1) : x[i] = w[i + 1]
  BY TailFacts
<1> HIDE DEF x
<1>2. \A i \in 1..Len(x) : i + 1 \in 1..Len(w) /\ x[i] = w[i + 1]
  BY <1>1
<1>3. w[1].n = lo + 1 /\ lo + 1 <= hi
  <2>1. /\ 1 \in 1..Len(w) /\ w[1].n \in (lo + 1)..hi
        /\ \A k \in (lo + 1)..(w[1].n - 1) : \E j \in 1..(1 - 1) : w[j] = Binary(u, k)
    BY <1>1 DEF InOrder
  <2>2. ~(lo + 1 <= w[1].n - 1)
    <3>1. lo + 1 <= w[1].n - 1 => lo + 1 \in (lo + 1)..(w[1].n - 1)
      BY <2>1
    <3>2. 1..(1 - 1) = {}
      OBVIOUS
    <3>3. QED
      BY <2>1, <3>1, <3>2
  <2>3. QED
    BY <2>1, <2>2
<1>4. \A k \in Nat : w[1] = Binary(u, k) => k = lo + 1
  BY <1>3, FrameTypes
<1>5. InOrder(x, u, lo + 1, hi)
  <2> SUFFICES ASSUME NEW i \in 1..Len(x), IsChunk(x[i], u)
               PROVE  /\ x[i].n \in (lo + 1 + 1)..hi
                      /\ \A k \in (lo + 1 + 1)..(x[i].n - 1) :
                           \E j \in 1..(i - 1) : x[j] = Binary(u, k)
                      /\ \A j \in 1..(i - 1) : IsChunk(x[j], u) => x[j].n < x[i].n
    BY DEF InOrder
  <2>1. i + 1 \in 1..Len(w) /\ x[i] = w[i + 1] /\ (i + 1) - 1 = i
    BY <1>2
  <2>2. /\ x[i].n \in (lo + 1)..hi
        /\ \A k \in (lo + 1)..(x[i].n - 1) : \E j \in 1..i : w[j] = Binary(u, k)
        /\ \A j \in 1..i : IsChunk(w[j], u) => w[j].n < x[i].n
    BY <2>1 DEF InOrder
  <2>3. x[i].n \in (lo + 1 + 1)..hi
    <3>1. w[1].n < x[i].n
      BY <2>2
    <3>2. QED
      BY <1>3, <2>2, <3>1
  <2>4. ASSUME NEW k \in (lo + 1 + 1)..(x[i].n - 1)
        PROVE  \E j \in 1..(i - 1) : x[j] = Binary(u, k)
    <3>1. k \in (lo + 1)..(x[i].n - 1) /\ k \in Nat /\ k # lo + 1
      BY <2>2
    <3>2. PICK j \in 1..i : w[j] = Binary(u, k)
      BY <2>2, <3>1
    <3>3. j # 1
      BY <1>4, <3>1, <3>2
    <3>4. j - 1 \in 1..(i - 1) /\ x[j - 1] = w[j]
      BY <1>1, <3>3
    <3>5. QED
      BY <3>2, <3>4
  <2>5. ASSUME NEW j \in 1..(i - 1), IsChunk(x[j], u) PROVE x[j].n < x[i].n
    <3>1. j + 1 \in 1..i /\ x[j] = w[j + 1]
      BY <1>1
    <3>2. QED
      BY <2>2, <2>5, <3>1
  <2>6. QED
    BY <2>3, <2>4, <2>5
<1>6. ASSUME NEW m \in Nat, UpToEnd(w, u, lo, m) PROVE UpToEnd(x, u, lo + 1, m)
  <2> SUFFICES ASSUME NEW i \in 1..Len(x), IsText(x[i], "end", u),
                      NEW k \in (lo + 1 + 1)..m
               PROVE  \E j \in 1..(i - 1) : x[j] = Binary(u, k)
    BY DEF UpToEnd
  <2>1. i + 1 \in 1..Len(w) /\ x[i] = w[i + 1] /\ (i + 1) - 1 = i
    BY <1>2
  <2>2. k \in (lo + 1)..m /\ k \in Nat /\ k # lo + 1
    OBVIOUS
  <2>3. PICK j \in 1..i : w[j] = Binary(u, k)
    BY <1>6, <2>1, <2>2 DEF UpToEnd
  <2>4. j # 1
    BY <1>4, <2>2, <2>3
  <2>5. j - 1 \in 1..(i - 1) /\ x[j - 1] = w[j]
    BY <1>1, <2>4
  <2>6. QED
    BY <2>3, <2>5
<1>7. ASSUME UpTo(w, u, lo, hi) PROVE UpTo(x, u, lo + 1, hi)
  <2> SUFFICES ASSUME NEW k \in (lo + 1 + 1)..hi
               PROVE  \E j \in 1..Len(x) : x[j] = Binary(u, k)
    BY DEF UpTo
  <2>1. k \in (lo + 1)..hi /\ k \in Nat /\ k # lo + 1
    OBVIOUS
  <2>2. PICK j \in 1..Len(w) : w[j] = Binary(u, k)
    BY <1>7, <2>1 DEF UpTo
  <2>3. j # 1
    BY <1>4, <2>1, <2>2
  <2>4. j - 1 \in 1..Len(x) /\ x[j - 1] = w[j]
    BY <1>1, <2>3
  <2>5. QED
    BY <2>2, <2>4
<1>8. QED
  BY <1>3, <1>5, <1>6, <1>7 DEF x

\* Reading a header, its bytes, or anything else keeps the pairs.
LEMMA TailPaired ==
  ASSUME NEW w \in Seq(Frame), w # <<>>, NEW rid, NEW r, Paired(w, rid),
         w[1].type = "header" => r = w[1].id
  PROVE  Paired(Tail(w), r)
<1> DEFINE x == Tail(w)
<1>1. /\ Len(w) \in Nat \ {0} /\ Len(x) = Len(w) - 1
      /\ \A i \in 1..(Len(w) - 1) : x[i] = w[i + 1]
  BY TailFacts
<1> HIDE DEF x
<1>2. Paired(x, r)
  <2> SUFFICES ASSUME NEW i \in 1..Len(x)
               PROVE  /\ x[i].type = "header" => i < Len(x) /\ x[i + 1].type = "binary"
                      /\ x[i].type = "binary" =>
                           /\ x[i].id = NoUp /\ x[i].src \in Up
                           /\ IF i = 1 THEN r = x[1].src
                              ELSE x[i - 1].type = "header" /\ x[i - 1].id = x[i].src
                      /\ x[i].type # "binary" => x[i].src = NoUp /\ x[i].id \in Up
    BY DEF Paired
  <2>1. i + 1 \in 1..Len(w) /\ x[i] = w[i + 1] /\ (i + 1) - 1 = i /\ i + 1 # 1
    BY <1>1
  <2>2. /\ x[i].type = "header" => i + 1 < Len(w) /\ w[(i + 1) + 1].type = "binary"
        /\ x[i].type = "binary" => /\ x[i].id = NoUp /\ x[i].src \in Up
                                   /\ w[i].type = "header" /\ w[i].id = x[i].src
        /\ x[i].type # "binary" => x[i].src = NoUp /\ x[i].id \in Up
    BY <2>1 DEF Paired
  <2>3. i + 1 < Len(w) => i < Len(x) /\ x[i + 1] = w[(i + 1) + 1]
    BY <1>1
  <2>4. i > 1 => x[i - 1] = w[i]
    BY <1>1
  <2>5. QED
    BY <2>2, <2>3, <2>4
<1>3. QED
  BY <1>2 DEF x

\* What every frame that the agent reads has in common.
LEMMA ReceiveFacts ==
  ASSUME IInv, AgentReceive
  PROVE  /\ wire \in Seq(Frame) /\ wire # <<>> /\ wire' = Tail(wire) /\ wire' \in Seq(Frame)
         /\ wire[1] \in Frame /\ Head(wire) = wire[1] /\ 1 \in 1..Len(wire) /\ NoUp \notin Up
         /\ wire[1].type = "binary" => /\ wire[1].id = NoUp /\ wire[1].src \in Up
                                       /\ pending_binary_for_rid = wire[1].src
         /\ wire[1].type # "binary" => wire[1].src = NoUp /\ wire[1].id \in Up
         /\ UNCHANGED <<path, hubVars, fut, fileVars, drops>>
         /\ \A v \in Up : /\ NoneOf(wire, v) => NoneOf(wire', v)
                          /\ \A t : Has(wire', t, v) => Has(wire, t, v)
                          /\ OneRequest(wire', v) /\ EndLast(wire', v)
<1> USE DEF IInv
<1>1. /\ wire \in Seq(Frame) /\ wire # <<>> /\ wire' = Tail(wire) /\ NoUp \notin Up
      /\ UNCHANGED <<path, hubVars, fut, fileVars, drops>>
  BY UploadAssumption DEF AgentReceive, TypeOK
<1>2. /\ wire' \in Seq(Frame) /\ wire[1] \in Frame /\ Head(wire) = wire[1]
      /\ 1 \in 1..Len(wire)
  BY <1>1, TailFacts
<1>3. /\ wire[1].type = "binary" => /\ wire[1].id = NoUp /\ wire[1].src \in Up
                                    /\ pending_binary_for_rid = wire[1].src
      /\ wire[1].type # "binary" => wire[1].src = NoUp /\ wire[1].id \in Up
  BY <1>2 DEF BytesFollowHeader, Paired
<1>4. ASSUME NEW v \in Up
      PROVE  /\ NoneOf(wire, v) => NoneOf(wire', v)
             /\ \A t : Has(wire', t, v) => Has(wire, t, v)
             /\ OneRequest(wire', v) /\ EndLast(wire', v)
  <2>1. OneRequest(wire, v) /\ EndLast(wire, v) /\ 0 \in Nat
    BY DEF RequestIsFirst, EndIsLast
  <2>2. QED
    BY <1>1, <2>1, TailKeeps
<1>5. QED
  BY <1>1, <1>2, <1>3, <1>4

\* A frame that is no chunk of an upload leaves its chunks on the wire.
LEMMA ReceiveOther ==
  ASSUME IInv, AgentReceive, NEW v \in Up, NEW g \in 0..nsent[v], Reached(v, g),
         ~IsChunk(wire[1], v)
  PROVE  InFlight(v, g)'
<1>1. g \in Nat /\ nsent[v] \in Nat /\ Size[v] \in Nat
  BY Types DEF IInv
<1>2. /\ wire \in Seq(Frame) /\ wire # <<>> /\ wire' = Tail(wire)
      /\ hub' = hub /\ nsent' = nsent
  BY ReceiveFacts DEF hubVars
<1>3. /\ InOrder(wire, v, g, nsent[v]) => InOrder(wire', v, g, nsent[v])
      /\ UpToEnd(wire, v, g, Size[v]) => UpToEnd(wire', v, g, Size[v])
      /\ UpTo(wire, v, g, nsent[v]) => UpTo(wire', v, g, nsent[v])
  BY <1>1, <1>2, TailKeeps
<1>4. QED
  BY <1>2, <1>3 DEF Reached, InFlight

\* A frame that goes into a queue without an end is the last there.
LEMMA PutFacts ==
  ASSUME TypeOK, NEW u \in Up, NEW f \in Frame, recv_queue'[u] = Append(recv_queue[u], f),
         \A i \in 1..Len(recv_queue[u]) : recv_queue[u][i].type # "end"
  PROVE  /\ Chunks(u) = Len(recv_queue[u])
         /\ recv_queue'[u] \in Seq(Frame) /\ Len(recv_queue'[u]) = Len(recv_queue[u]) + 1
         /\ recv_queue'[u][Len(recv_queue[u]) + 1] = f
         /\ \A i \in 1..Len(recv_queue[u]) : recv_queue'[u][i] = recv_queue[u][i]
         /\ f.type = "end" => Chunks(u)' = Len(recv_queue[u])
         /\ f.type # "end" => Chunks(u)' = Len(recv_queue[u]) + 1
<1> DEFINE q == recv_queue[u]
           r == recv_queue'[u]
<1>1. q \in Seq(Frame) /\ Len(q) \in Nat
  BY Types
<1>2. q # <<>> => Len(q) \in 1..Len(q)
  BY <1>1, EmptySeq
<1>3. Chunks(u) = Len(q)
  BY <1>2 DEF Chunks
<1>4. /\ r \in Seq(Frame) /\ Len(r) = Len(q) + 1 /\ r[Len(q) + 1] = f
      /\ \A i \in 1..Len(q) : r[i] = q[i]
  BY <1>1, AppendFacts
<1> HIDE DEF q, r
<1>5. r # <<>> /\ r[Len(r)] = f
  <2>1. Len(r) # 0
    BY <1>1, <1>4
  <2>2. QED
    BY <1>4, <2>1
<1>6. Chunks(u)' = IF f.type = "end" THEN Len(r) - 1 ELSE Len(r)
  BY <1>5 DEF Chunks, r
<1>7. QED
  BY <1>1, <1>3, <1>4, <1>6 DEF q, r

\* The request arrives and its task is made.
LEMMA RouteRequestStep ==
  ASSUME IInv, AgentReceive, RouteRequest(Head(wire))
  PROVE  IInv'
<1> USE DEF IInv, sessionVars, fileVars, hubVars
<1> DEFINE u == wire[1].id
<1>1. /\ wire[1].type = "request" /\ u \in Up /\ wire[1].src = NoUp /\ 1 \in 1..Len(wire)
      /\ wire \in Seq(Frame) /\ wire # <<>> /\ wire' = Tail(wire) /\ wire' \in Seq(Frame)
      /\ task' = [task EXCEPT ![u] = "created"] /\ NoUp \notin Up
      /\ UNCHANGED <<path, hubVars, fut, fileVars, sessionVars, drops>>
  BY ReceiveFacts DEF RouteRequest
<1> HIDE DEF u
<1>2. IsText(wire[1], "request", u) /\ Of(u, wire[1]) /\ \A v \in Up : ~IsChunk(wire[1], v)
  BY <1>1 DEF IsText, Of, IsChunk, u
<1>3. task[u] = "none" /\ hub[u] # "idle"
  BY <1>1, <1>2 DEF RequestIsFirst, Has, NoneOf
<1>4. task'[u] = "created" /\ \A v \in Up \ {u} : task'[v] = task[v]
  BY <1>1 DEF TypeOK
<1>5. TypeOK'
  BY <1>1 DEF TypeOK
<1>6. BytesFollowHeader'
  BY <1>1, TailPaired DEF BytesFollowHeader
<1>7. \A v \in Up : /\ NoneOf(wire, v) => NoneOf(wire', v)
                    /\ \A t : Has(wire', t, v) => Has(wire, t, v)
                    /\ OneRequest(wire', v) /\ EndLast(wire', v)
  BY ReceiveFacts
<1>8. ~Has(wire', "request", u)
  <2>1. OneRequest(wire, u) /\ 0 \in Nat
    BY <1>1 DEF RequestIsFirst
  <2>2. QED
    BY <1>1, <1>2, <2>1, TailKeeps
<1>9. RequestIsFirst'
  BY <1>1, <1>3, <1>4, <1>7, <1>8 DEF RequestIsFirst
<1>10. EndIsLast'
  BY <1>1, <1>7 DEF EndIsLast
<1>11. QueueIsOpen'
  BY <1>1, <1>3, <1>4 DEF QueueIsOpen
<1>12. \A v \in Up : /\ task'[v] = "writing" <=> task[v] = "writing"
                     /\ task'[v] = "done" <=> task[v] = "done"
                     /\ task'[v] = "killed" <=> task[v] = "killed"
  BY <1>3, <1>4
<1>13. FilesAreOfThePath' /\ PartIsWritten' /\ InstalledIsEnd'
  <2>1. FilesAreOfThePath'
    BY <1>1, <1>12 DEF FilesAreOfThePath, Alone
  <2>2. PartIsWritten'
    BY <1>1, <1>12 DEF PartIsWritten
  <2>3. InstalledIsEnd'
    BY <1>1, <1>12 DEF InstalledIsEnd, Alone
  <2>4. QED
    BY <2>1, <2>2, <2>3
<1>14. Contiguous'
  <2> SUFFICES ASSUME NEW v \in Up, NEW g \in 0..nsent[v], Reached(v, g)
               PROVE  Reached(v, g)'
    BY <1>1 DEF Contiguous
  <2>1. InFlight(v, g)'
    BY <1>2, ReceiveOther
  <2>2. InQueue(v, g)' /\ InFile(v, g)' /\ EndIsReached(v, g)'
    BY <1>1, <1>12 DEF Reached, InQueue, InFile, EndIsReached, Chunks, Alone
  <2>3. QED
    BY <2>1, <2>2 DEF Reached
<1>15. QED
  BY <1>5, <1>6, <1>9, <1>10, <1>11, <1>13, <1>14

\* A header arrives: the next bytes are its upload's.
LEMMA RouteHeaderStep ==
  ASSUME IInv, AgentReceive, RouteHeader(Head(wire))
  PROVE  IInv'
<1> USE DEF IInv, sessionVars, fileVars, hubVars
<1>1. /\ wire[1].type = "header" /\ wire[1].id \in Up /\ wire[1].src = NoUp
      /\ wire \in Seq(Frame) /\ wire # <<>> /\ wire' = Tail(wire) /\ wire' \in Seq(Frame)
      /\ pending_binary_for_rid' = wire[1].id /\ NoUp \notin Up
      /\ UNCHANGED <<path, hubVars, fut, fileVars, recv_queue, opened, task, drops>>
  BY ReceiveFacts DEF RouteHeader
<1>2. \A v \in Up : ~IsChunk(wire[1], v)
  BY <1>1 DEF IsChunk
<1>3. TypeOK'
  BY <1>1 DEF TypeOK
<1>4. BytesFollowHeader'
  BY <1>1, TailPaired DEF BytesFollowHeader
<1>5. \A v \in Up : /\ NoneOf(wire, v) => NoneOf(wire', v)
                    /\ \A t : Has(wire', t, v) => Has(wire, t, v)
                    /\ OneRequest(wire', v) /\ EndLast(wire', v)
  BY ReceiveFacts
<1>6. RequestIsFirst' /\ EndIsLast' /\ QueueIsOpen'
  BY <1>1, <1>5 DEF RequestIsFirst, EndIsLast, QueueIsOpen
<1>7. FilesAreOfThePath' /\ PartIsWritten' /\ InstalledIsEnd'
  BY <1>1, FilesUnchanged
<1>8. Contiguous'
  <2> SUFFICES ASSUME NEW v \in Up, NEW g \in 0..nsent[v], Reached(v, g)
               PROVE  Reached(v, g)'
    BY <1>1 DEF Contiguous
  <2>1. InFlight(v, g)'
    BY <1>2, ReceiveOther
  <2>2. QED
    BY <1>1, <2>1, AgentUnchanged DEF Reached
<1>9. QED
  BY <1>3, <1>4, <1>6, <1>7, <1>8

\* An upload whose queue a frame does not reach keeps what it has.
LEMMA QueueUnchanged ==
  ASSUME IInv, UNCHANGED <<path, task, written, content>>,
         NEW v \in Up, NEW g, Reached(v, g), recv_queue'[v] = recv_queue[v]
  PROVE  InQueue(v, g)' /\ InFile(v, g)' /\ EndIsReached(v, g)'
<1>1. Chunks(v)' = Chunks(v)
  BY DEF Chunks
<1>2. QED
  BY <1>1 DEF Reached, InQueue, InFile, EndIsReached, Alone

\* Where a frame for u goes.
LEMMA PutQueues ==
  ASSUME IInv, NEW u \in Up, NEW f \in Frame, Put(u, f)
  PROVE  /\ recv_queue' \in [Up -> Seq(Frame)]
         /\ \A v \in Up \ {u} : recv_queue'[v] = recv_queue[v]
         /\ u \in opened => recv_queue'[u] = Append(recv_queue[u], f)
         /\ u \notin opened => recv_queue'[u] = recv_queue[u]
<1>1. \A v \in Up : recv_queue[v] \in Seq(Frame) /\ Append(recv_queue[v], f) \in Seq(Frame)
  BY AppendFacts DEF IInv, TypeOK
<1>2. QED
  BY <1>1 DEF Put

\* The end arrives: all chunks of the body have arrived before it.
LEMMA RouteEndStep ==
  ASSUME IInv, AgentReceive, RouteEnd(Head(wire))
  PROVE  IInv'
<1> USE DEF IInv, sessionVars, fileVars, hubVars
<1>0. PICK f \in Frame, u \in Up : f = wire[1] /\ u = f.id
  BY ReceiveFacts DEF RouteEnd
<1>1. /\ f.type = "end" /\ u \in Up /\ f.src = NoUp /\ f \in Frame /\ 1 \in 1..Len(wire)
      /\ wire \in Seq(Frame) /\ wire # <<>> /\ wire' = Tail(wire) /\ wire' \in Seq(Frame)
      /\ Put(u, f) /\ NoUp \notin Up
      /\ UNCHANGED <<path, hubVars, fut, fileVars, pending_binary_for_rid, opened, task,
                     drops>>
  BY <1>0, ReceiveFacts DEF RouteEnd
<1>2. IsText(f, "end", u) /\ Of(u, f) /\ \A v \in Up : ~IsChunk(f, v)
  BY <1>0, <1>1 DEF IsText, Of, IsChunk
<1>3. BytesFollowHeader'
  BY <1>0, <1>1, TailPaired DEF BytesFollowHeader
<1>4. \A v \in Up : /\ NoneOf(wire, v) => NoneOf(wire', v)
                    /\ \A t : Has(wire', t, v) => Has(wire, t, v)
                    /\ OneRequest(wire', v) /\ EndLast(wire', v)
  BY ReceiveFacts
<1>5. ended[u] /\ EndLast(wire, u) /\ ~NoneOf(wire, u)
  BY <1>0, <1>1, <1>2 DEF EndIsLast, Has, NoneOf
<1>6. NoneOf(wire', u)
  <2>1. 0 \in Nat
    OBVIOUS
  <2>2. QED
    BY <1>0, <1>1, <1>2, <1>5, <2>1, TailKeeps
<1>7. \A i \in 1..Len(recv_queue[u]) : recv_queue[u][i].type # "end"
  BY <1>1, <1>5 DEF EndIsLast
<1>8. /\ recv_queue' \in [Up -> Seq(Frame)]
      /\ \A v \in Up \ {u} : recv_queue'[v] = recv_queue[v]
      /\ u \in opened => recv_queue'[u] = Append(recv_queue[u], f)
      /\ u \notin opened => recv_queue'[u] = recv_queue[u]
  BY <1>1, PutQueues
<1>9. TypeOK'
  BY <1>1, <1>8 DEF TypeOK
<1>10. RequestIsFirst'
  BY <1>1, <1>4 DEF RequestIsFirst
<1>11. ASSUME u \in opened
       PROVE  /\ Chunks(u) = Len(recv_queue[u]) /\ Chunks(u)' = Len(recv_queue[u])
              /\ Len(recv_queue'[u]) = Len(recv_queue[u]) + 1 /\ Len(recv_queue[u]) \in Nat
              /\ \A i \in 1..Len(recv_queue[u]) : recv_queue'[u][i] = recv_queue[u][i]
  <2>1. recv_queue'[u] = Append(recv_queue[u], f)
    BY <1>8, <1>11
  <2>2. Len(recv_queue[u]) \in Nat
    BY <1>1, Types
  <2>3. QED
    BY <1>1, <1>7, <2>1, <2>2, PutFacts
<1>12. EndIsLast'
  <2> SUFFICES ASSUME NEW v \in Up, NEW i \in 1..Len(recv_queue'[v]),
                      recv_queue'[v][i].type = "end"
               PROVE  i = Len(recv_queue'[v]) /\ ended[v] /\ NoneOf(wire', v)
    BY <1>1, <1>4 DEF EndIsLast
  <2>1. CASE v = u /\ u \in opened
    <3>1. i = Len(recv_queue[u]) + 1
      BY <1>7, <1>11, <2>1
    <3>2. QED
      BY <1>5, <1>6, <1>11, <2>1, <3>1
  <2>2. CASE ~(v = u /\ u \in opened)
    <3>1. recv_queue'[v] = recv_queue[v]
      BY <1>8, <2>2
    <3>2. QED
      BY <1>4, <3>1 DEF EndIsLast
  <2>3. QED
    BY <2>1, <2>2
<1>13. QueueIsOpen'
  BY <1>1, <1>8 DEF QueueIsOpen
<1>14. FilesAreOfThePath' /\ PartIsWritten' /\ InstalledIsEnd'
  BY <1>1, FilesUnchanged
<1>15. Contiguous'
  <2> SUFFICES ASSUME NEW v \in Up, NEW g \in 0..nsent[v], Reached(v, g)
               PROVE  Reached(v, g)'
    BY <1>1 DEF Contiguous
  <2>1. InFlight(v, g)'
    BY <1>0, <1>2, ReceiveOther
  <2>2. CASE v = u /\ u \in opened
    <3>1. g = Size[u]
      <4>1. /\ g \in Nat /\ nsent[u] \in Nat /\ Size[u] \in Nat
            /\ g <= nsent[u] /\ nsent[u] <= Size[u]
        BY <1>1, <2>2, Types DEF EndIsLast
      <4>2. UpToEnd(wire, u, g, Size[u])
        BY <2>2 DEF Reached, InFlight
      <4>3. Size[u] <= g
        BY <1>0, <1>1, <1>2, <4>1, <4>2, TailKeeps
      <4>4. QED
        BY <4>1, <4>3
    <3>2. EndIsReached(u, g)'
      BY <3>1 DEF EndIsReached
    <3>3. InQueue(u, g)'
      BY <1>1, <1>11, <2>2 DEF Reached, InQueue
    <3>4. InFile(u, g)'
      BY <1>1, <1>11, <2>2 DEF Reached, InFile, Alone
    <3>5. QED
      BY <2>1, <2>2, <3>2, <3>3, <3>4 DEF Reached
  <2>3. CASE ~(v = u /\ u \in opened)
    <3>1. recv_queue'[v] = recv_queue[v]
      BY <1>8, <2>3
    <3>2. QED
      BY <1>1, <2>1, <3>1, QueueUnchanged DEF Reached
  <2>4. QED
    BY <2>2, <2>3
<1>16. QED
  BY <1>3, <1>9, <1>10, <1>12, <1>13, <1>14, <1>15

\* Bytes arrive: they are the next chunk of the upload whose header was read.
LEMMA RouteBinaryStep ==
  ASSUME IInv, AgentReceive, RouteBinary(Head(wire))
  PROVE  IInv'
<1> USE DEF IInv, sessionVars, fileVars, hubVars
<1>0. PICK f \in Frame, u \in Up : f = wire[1] /\ u = f.src
  BY ReceiveFacts DEF RouteBinary
<1>1. /\ f.type = "binary" /\ u \in Up /\ f.id = NoUp /\ f \in Frame /\ 1 \in 1..Len(wire)
      /\ wire \in Seq(Frame) /\ wire # <<>> /\ wire' = Tail(wire) /\ wire' \in Seq(Frame)
      /\ Put(u, f) /\ NoUp \notin Up /\ pending_binary_for_rid' = NoUp
      /\ UNCHANGED <<path, hubVars, fut, fileVars, opened, task, drops>>
  BY <1>0, ReceiveFacts DEF RouteBinary
<1>2. IsChunk(f, u) /\ Of(u, f) /\ \A v \in Up \ {u} : ~IsChunk(f, v)
  BY <1>0, <1>1 DEF Of, IsChunk
<1>3. BytesFollowHeader'
  BY <1>0, <1>1, TailPaired DEF BytesFollowHeader
<1>4. \A v \in Up : /\ NoneOf(wire, v) => NoneOf(wire', v)
                    /\ \A t : Has(wire', t, v) => Has(wire, t, v)
                    /\ OneRequest(wire', v) /\ EndLast(wire', v)
  BY ReceiveFacts
<1>5. ~NoneOf(wire, u)
  BY <1>0, <1>1, <1>2 DEF NoneOf
<1>6. \A i \in 1..Len(recv_queue[u]) : recv_queue[u][i].type # "end"
  BY <1>1, <1>5 DEF EndIsLast
<1>7. /\ recv_queue' \in [Up -> Seq(Frame)]
      /\ \A v \in Up \ {u} : recv_queue'[v] = recv_queue[v]
      /\ u \in opened => recv_queue'[u] = Append(recv_queue[u], f)
      /\ u \notin opened => recv_queue'[u] = recv_queue[u]
  BY <1>1, PutQueues
<1>8. TypeOK'
  BY <1>1, <1>7 DEF TypeOK
<1>9. RequestIsFirst'
  BY <1>1, <1>4 DEF RequestIsFirst
<1>10. ASSUME u \in opened
       PROVE  /\ Chunks(u) = Len(recv_queue[u]) /\ Chunks(u)' = Len(recv_queue[u]) + 1
              /\ Len(recv_queue'[u]) = Len(recv_queue[u]) + 1 /\ Len(recv_queue[u]) \in Nat
              /\ \A i \in 1..Len(recv_queue[u]) : recv_queue'[u][i] = recv_queue[u][i]
              /\ recv_queue'[u][Len(recv_queue[u]) + 1] = f
  <2>1. recv_queue'[u] = Append(recv_queue[u], f)
    BY <1>7, <1>10
  <2>2. Len(recv_queue[u]) \in Nat /\ f.type # "end"
    BY <1>1, Types
  <2>3. QED
    BY <1>1, <1>6, <2>1, <2>2, PutFacts
<1>11. EndIsLast'
  <2> SUFFICES ASSUME NEW v \in Up, NEW i \in 1..Len(recv_queue'[v]),
                      recv_queue'[v][i].type = "end"
               PROVE  i = Len(recv_queue'[v]) /\ ended[v] /\ NoneOf(wire', v)
    BY <1>1, <1>4 DEF EndIsLast
  <2>1. CASE v = u /\ u \in opened
    <3>1. i \in 1..Len(recv_queue[u]) \/ i = Len(recv_queue[u]) + 1
      BY <1>10, <2>1
    <3>2. recv_queue'[u][i].type # "end"
      BY <1>1, <1>6, <1>10, <2>1, <3>1
    <3>3. QED
      BY <2>1, <3>2
  <2>2. CASE ~(v = u /\ u \in opened)
    <3>1. recv_queue'[v] = recv_queue[v]
      BY <1>7, <2>2
    <3>2. QED
      BY <1>4, <3>1 DEF EndIsLast
  <2>3. QED
    BY <2>1, <2>2
<1>12. QueueIsOpen'
  BY <1>1, <1>7 DEF QueueIsOpen
<1>13. FilesAreOfThePath' /\ PartIsWritten' /\ InstalledIsEnd'
  BY <1>1, FilesUnchanged
<1>14. Contiguous'
  <2> SUFFICES ASSUME NEW v \in Up, NEW g \in 0..nsent[v], Reached(v, g)
               PROVE  \E h \in 0..nsent[v] : Reached(v, h)'
    BY <1>1 DEF Contiguous
  <2>1. CASE v # u
    <3>1. InFlight(v, g)'
      BY <1>0, <1>2, <2>1, ReceiveOther
    <3>2. recv_queue'[v] = recv_queue[v]
      BY <1>7, <2>1
    <3>3. QED
      BY <1>1, <3>1, <3>2, QueueUnchanged DEF Reached
  <2>2. CASE v = u
    <3>0. PICK h : h = g + 1
      OBVIOUS
    <3>1. g \in Nat /\ nsent[u] \in Nat /\ Size[u] \in Nat /\ h \in Nat
      BY <1>1, <2>2, <3>0, Types
    <3>2. InOrder(wire, u, g, nsent[u]) /\ UpToEnd(wire, u, g, Size[u])
      BY <2>2 DEF Reached, InFlight
    <3>3. /\ f.n = h /\ h <= nsent[u] /\ InOrder(wire', u, h, nsent[u])
          /\ UpToEnd(wire', u, h, Size[u])
          /\ UpTo(wire, u, g, nsent[u]) => UpTo(wire', u, h, nsent[u])
      BY <1>0, <1>1, <1>2, <3>0, <3>1, <3>2, TailChunk
    <3>4. h \in 0..nsent[u]
      BY <3>1, <3>3
    <3>5. InFlight(u, h)'
      BY <1>1, <2>2, <3>3 DEF Reached, InFlight
    <3>6. f = Binary(u, h)
      BY <1>0, <1>1, <3>3 DEF Frame, Binary
    <3>7. EndIsReached(u, h)'
      <4>1. ~(Chunks(u)' < Len(recv_queue'[u]))
        <5>1. CASE u \in opened
          BY <1>10, <5>1
        <5>2. CASE u \notin opened
          <6>1. recv_queue[u] = <<>> /\ recv_queue'[u] = <<>>
            BY <1>1, <1>7, <5>2 DEF QueueIsOpen
          <6>2. QED
            BY <6>1 DEF Chunks
        <5>3. QED
          BY <5>1, <5>2
      <4>2. QED
        BY <4>1 DEF EndIsReached
    <3>8. InQueue(u, h)' /\ InFile(u, h)'
      <4>1. CASE u \in opened
        <5>1. /\ written[u] + Chunks(u) <= g /\ task[u] = "writing" /\ written[u] \in Nat
              /\ \A i \in 1..Chunks(u) : recv_queue[u][i] = Binary(u, g - Chunks(u) + i)
          BY <1>1, <2>2, <4>1, Types DEF Reached, InQueue, QueueIsOpen
        <5>2. /\ written[u] + Chunks(u)' <= h /\ Chunks(u)' = Chunks(u) + 1
              /\ Chunks(u) \in Nat
          BY <1>10, <3>0, <3>1, <4>1, <5>1, SMTT(30)
        <5>3. ASSUME NEW i \in 1..Chunks(u)'
              PROVE  recv_queue'[u][i] = Binary(u, h - Chunks(u)' + i)
          <6>1. h - Chunks(u)' + i = g - Chunks(u) + i
            BY <3>0, <3>1, <5>2
          <6>2. CASE i = Chunks(u) + 1
            <7>1. g - Chunks(u) + i = h
              BY <3>0, <3>1, <5>2, <6>2
            <7>2. QED
              BY <1>10, <3>6, <4>1, <6>1, <6>2, <7>1
          <6>3. CASE i \in 1..Chunks(u)
            BY <1>10, <4>1, <5>1, <6>1, <6>3
          <6>4. QED
            BY <5>2, <6>2, <6>3
        <5>4. h - Chunks(u)' - written[u] = g - Chunks(u) - written[u]
          BY <3>0, <3>1, <5>1, <5>2
        <5>5. InFile(u, h)'
          <6>1. task[u] = "writing" /\ Alone(u) =>
                  content[u] = Slice(u, g - Chunks(u) - written[u], written[u])
            BY <2>2 DEF Reached, InFile
          <6>2. h - Chunks(u)' - written'[u] = g - Chunks(u) - written[u]
            BY <1>1, <5>4
          <6>3. task[u] = "writing" /\ Alone(u) =>
                  content'[u] = Slice(u, h - Chunks(u)' - written'[u], written'[u])
            BY <1>1, <6>1, <6>2
          <6>4. (task[u] = "writing" /\ Alone(u))' => task[u] = "writing" /\ Alone(u)
            BY <1>1 DEF Alone
          <6>5. QED
            BY <6>3, <6>4 DEF InFile
        <5>6. QED
          BY <1>1, <5>2, <5>3, <5>5 DEF InQueue
      <4>2. CASE u \notin opened
        BY <1>1, <4>2 DEF QueueIsOpen, InQueue, InFile
      <4>3. QED
        BY <4>1, <4>2
    <3>9. Reached(u, h)'
      BY <3>5, <3>7, <3>8 DEF Reached
    <3>10. QED
      BY <2>2, <3>4, <3>9
  <2>3. QED
    BY <2>1, <2>2
<1>15. QED
  BY <1>3, <1>8, <1>9, <1>11, <1>12, <1>13, <1>14

\* The agent reads a frame.
LEMMA AgentReceiveStep ==
  ASSUME IInv, AgentReceive
  PROVE  IInv'
BY RouteRequestStep, RouteHeaderStep, RouteBinaryStep, RouteEndStep DEF AgentReceive

\* A step of the agent's tasks leaves the wire and the hub alone.
LEMMA WireUnchanged ==
  ASSUME IInv, UNCHANGED <<hubVars, wire, pending_binary_for_rid>>
  PROVE  /\ BytesFollowHeader'
         /\ \A v \in Up : \A g : Reached(v, g) => InFlight(v, g)'
BY DEF IInv, hubVars, BytesFollowHeader, Reached, InFlight

\* The task answers: its queue is gone, and others do not see it.
LEMMA RespondStep ==
  ASSUME IInv, NEW u \in Up, task[u] \in {"created", "writing"},
         NEW st \in {"done", "failed"}, NEW a \in {"ok", "warning", "error"},
         st = "failed" => a = "error", Respond(u, st, a),
         UNCHANGED <<path, hubVars, wire, pending_binary_for_rid, handle, written, content,
                     left, drops>>,
         tmp' \in [Path -> Up \cup {NoUp}], final' \in [Path -> Up \cup {NoUp}]
  PROVE  /\ TypeOK' /\ BytesFollowHeader' /\ RequestIsFirst' /\ EndIsLast' /\ QueueIsOpen'
         /\ Contiguous'
         /\ task'[u] = st /\ fut'[u] = a
         /\ \A v \in Up \ {u} : task'[v] = task[v] /\ fut'[v] = fut[v]
<1> USE DEF IInv, hubVars
<1>1. /\ task'[u] = st /\ fut'[u] = a /\ opened' = opened \ {u} /\ recv_queue'[u] = <<>>
      /\ \A v \in Up \ {u} : /\ task'[v] = task[v] /\ fut'[v] = fut[v]
                             /\ recv_queue'[v] = recv_queue[v]
  BY DEF Respond, TypeOK
<1>2. TypeOK'
  <2>1. <<>> \in Seq(Frame)
    OBVIOUS
  <2>2. /\ task' \in [Up -> {"none", "created", "writing", "done", "failed", "killed"}]
        /\ fut' \in [Up -> {"pending", "ok", "warning", "error"}]
        /\ recv_queue' \in [Up -> Seq(Frame)] /\ opened' \subseteq Up
    BY <2>1 DEF Respond, TypeOK
  <2>3. QED
    BY <2>2 DEF TypeOK
<1>3. hub[u] # "idle" /\ ~Has(wire, "request", u) /\ fut[u] = "pending" /\ hub[u] # "ok"
  BY DEF RequestIsFirst, QueueIsOpen
<1>4. RequestIsFirst'
  BY <1>1, <1>3 DEF RequestIsFirst
<1>5. EndIsLast'
  BY <1>1 DEF EndIsLast
<1>6. QueueIsOpen'
  BY <1>1, <1>3 DEF QueueIsOpen
<1>7. Contiguous'
  <2> SUFFICES ASSUME NEW v \in Up, NEW g \in 0..nsent[v], Reached(v, g)
               PROVE  InQueue(v, g)' /\ InFile(v, g)' /\ EndIsReached(v, g)'
    BY WireUnchanged DEF Contiguous, Reached
  <2>1. CASE v = u
    <3>1. ~(Chunks(u)' < Len(recv_queue'[u]))
      BY <1>1 DEF Chunks
    <3>2. QED
      BY <1>1, <2>1, <3>1 DEF InQueue, InFile, EndIsReached
  <2>2. CASE v # u
    <3>1. Chunks(v)' = Chunks(v)
      BY <1>1, <2>2 DEF Chunks
    <3>2. QED
      BY <1>1, <2>2, <3>1 DEF Reached, InQueue, InFile, EndIsReached, Alone
  <2>3. QED
    BY <2>1, <2>2
<1>8. QED
  BY <1>1, <1>2, <1>4, <1>5, <1>6, <1>7, WireUnchanged

\* The path is refused: no file is touched.
LEMMA TaskRejectStep ==
  ASSUME IInv, NEW u \in Up, TaskReject(u)
  PROVE  IInv'
<1> USE DEF IInv, fileVars
<1>1. /\ task[u] = "created" /\ Respond(u, "failed", "error")
      /\ UNCHANGED <<path, hubVars, wire, pending_binary_for_rid, fileVars, drops>>
      /\ tmp' \in [Path -> Up \cup {NoUp}] /\ final' \in [Path -> Up \cup {NoUp}]
  BY DEF TaskReject, TypeOK
<1>2. /\ TypeOK' /\ BytesFollowHeader' /\ RequestIsFirst' /\ EndIsLast' /\ QueueIsOpen'
      /\ Contiguous'
      /\ task'[u] = "failed" /\ fut'[u] = "error"
      /\ \A v \in Up \ {u} : task'[v] = task[v] /\ fut'[v] = fut[v]
  BY <1>1, RespondStep
<1>3. \A v \in Up : /\ task'[v] = "writing" <=> task[v] = "writing"
                    /\ task'[v] = "done" <=> task[v] = "done"
                    /\ task'[v] = "killed" <=> task[v] = "killed"
  BY <1>1, <1>2
<1>4. FilesAreOfThePath'
  BY <1>1, <1>3 DEF FilesAreOfThePath, Alone
<1>5. PartIsWritten'
  BY <1>1, <1>3 DEF PartIsWritten
<1>6. InstalledIsEnd'
  BY <1>1, <1>2, <1>3 DEF InstalledIsEnd, Alone, hubVars
<1>7. QED
  BY <1>2, <1>4, <1>5, <1>6

\* The task gives up and removes what is at .part.
LEMMA TaskFailStep ==
  ASSUME IInv, NEW u \in Up, TaskFail(u)
  PROVE  IInv'
<1> USE DEF IInv
<1> DEFINE p == path[u]
<1>1. /\ task[u] = "writing" /\ Respond(u, "failed", "error") /\ p \in Path
      /\ UNCHANGED <<path, hubVars, wire, pending_binary_for_rid, handle, written, content,
                     final, left, drops>>
      /\ tmp' \in [Path -> Up \cup {NoUp}] /\ final' \in [Path -> Up \cup {NoUp}]
      /\ tmp'[p] = NoUp /\ \A q \in Path \ {p} : tmp'[q] = tmp[q]
  BY DEF TaskFail, TypeOK
<1>2. /\ TypeOK' /\ BytesFollowHeader' /\ RequestIsFirst' /\ EndIsLast' /\ QueueIsOpen'
      /\ Contiguous'
      /\ task'[u] = "failed" /\ fut'[u] = "error"
      /\ \A v \in Up \ {u} : task'[v] = task[v] /\ fut'[v] = fut[v]
  BY <1>1, RespondStep
<1>3. /\ \A v \in Up : Alone(v)' <=> Alone(v)
      /\ \A v \in Up \ {u} : Alone(v) => path[v] \in Path \ {p}
      /\ NoUp \notin Up
  BY <1>1, UploadAssumption DEF Alone, TypeOK
<1>4. FilesAreOfThePath'
  <2>1. \A q \in Path : /\ tmp'[q] # NoUp => path'[tmp'[q]] = q
                        /\ final'[q] # NoUp => path'[final'[q]] = q
    BY <1>1 DEF FilesAreOfThePath
  <2>2. \A v \in Up : /\ handle'[v] # NoUp => path'[handle'[v]] = path'[v]
                      /\ task'[v] = "writing" => handle'[v] # NoUp
    BY <1>1, <1>2 DEF FilesAreOfThePath
  <2>3. ASSUME NEW v \in Up, Alone(v)
        PROVE  /\ task'[v] = "writing" => tmp'[path[v]] = v
               /\ tmp'[path[v]] = v => task'[v] \in {"writing", "killed"}
               /\ final'[path[v]] = v <=> task'[v] = "done"
    <3>1. CASE v = u
      BY <1>1, <1>2, <1>3, <2>3, <3>1 DEF FilesAreOfThePath
    <3>2. CASE v # u
      BY <1>1, <1>2, <1>3, <2>3, <3>2 DEF FilesAreOfThePath
    <3>3. QED
      BY <3>1, <3>2
  <2>4. QED
    BY <1>1, <1>3, <2>1, <2>2, <2>3 DEF FilesAreOfThePath
<1>5. PartIsWritten'
  <2> SUFFICES ASSUME NEW q \in Path, tmp'[q] # NoUp, q \notin left
               PROVE  \E v \in Up : path[v] = q /\ task'[v] = "writing"
    BY <1>1 DEF PartIsWritten
  <2>1. q # p /\ tmp[q] # NoUp
    BY <1>1
  <2>2. PICK v \in Up : path[v] = q /\ task[v] = "writing"
    BY <2>1 DEF PartIsWritten
  <2>3. QED
    BY <1>2, <2>1, <2>2
<1>6. InstalledIsEnd'
  BY <1>1, <1>2, <1>3 DEF InstalledIsEnd, hubVars
<1>7. QED
  BY <1>2, <1>4, <1>5, <1>6

\* When the end is at the head of the queue, all chunks are in the file.
LEMMA EndAtHead ==
  ASSUME IInv, NEW u \in Up, task[u] = "writing", recv_queue[u] # <<>>,
         Head(recv_queue[u]).type = "end"
  PROVE  /\ ended[u] /\ written[u] <= Size[u]
         /\ Alone(u) => content[u] = Slice(u, Size[u] - written[u], written[u])
<1> USE DEF IInv
<1> DEFINE q == recv_queue[u]
<1>1. /\ q \in Seq(Frame) /\ Len(q) \in Nat \ {0} /\ Head(q) = q[1]
      /\ written[u] \in Nat /\ Size[u] \in Nat
  BY Types, TailFacts
<1>2. 1 = Len(q) /\ ended[u]
  <2>1. 1 \in 1..Len(q) /\ q[1].type = "end"
    BY <1>1
  <2>2. QED
    BY <2>1 DEF EndIsLast
<1>3. Chunks(u) = 0
  BY <1>1, <1>2 DEF Chunks
<1>4. PICK g \in 0..nsent[u] : Reached(u, g)
  BY DEF Contiguous
<1>5. g = Size[u]
  BY <1>2, <1>3, <1>4 DEF Reached, EndIsReached
<1>6. written[u] <= Size[u]
  BY <1>1, <1>3, <1>4, <1>5 DEF Reached, InQueue
<1>7. Alone(u) => content[u] = Slice(u, Size[u] - written[u], written[u])
  <2>1. Alone(u) => content[u] = Slice(u, g - Chunks(u) - written[u], written[u])
    BY <1>4 DEF Reached, InFile
  <2>2. g - Chunks(u) - written[u] = Size[u] - written[u]
    BY <1>1, <1>3, <1>5
  <2>3. QED
    BY <2>1, <2>2
<1>8. QED
  BY <1>2, <1>6, <1>7

\* The end is read: .part is renamed, or it is gone.
LEMMA TaskFinishStep ==
  ASSUME IInv, NEW u \in Up, TaskFinish(u)
  PROVE  IInv'
<1> USE DEF IInv
<1> DEFINE p == path[u]
<1>1. /\ task[u] = "writing" /\ p \in Path /\ NoUp \notin Up
      /\ UNCHANGED <<path, hubVars, wire, pending_binary_for_rid, handle, written, content,
                     left, drops>>
      /\ \A v \in Up : Alone(v)' <=> Alone(v)
      /\ \A v \in Up \ {u} : Alone(v) => path[v] \in Path \ {p}
  BY UploadAssumption DEF TaskFinish, TypeOK, Alone
<1>2. CASE tmp[p] = NoUp
  <2>1. /\ Respond(u, "failed", "error") /\ UNCHANGED <<tmp, final>>
        /\ tmp' \in [Path -> Up \cup {NoUp}] /\ final' \in [Path -> Up \cup {NoUp}]
    BY <1>2 DEF TaskFinish, TypeOK
  <2>2. /\ TypeOK' /\ BytesFollowHeader' /\ RequestIsFirst' /\ EndIsLast' /\ QueueIsOpen'
        /\ Contiguous'
        /\ task'[u] = "failed" /\ fut'[u] = "error"
        /\ \A v \in Up \ {u} : task'[v] = task[v] /\ fut'[v] = fut[v]
    BY <1>1, <2>1, RespondStep
  <2>3. ~Alone(u)
    BY <1>1, <1>2 DEF FilesAreOfThePath
  <2>4. \A v \in Up : Alone(v) => task'[v] = task[v] /\ fut'[v] = fut[v]
    BY <2>2, <2>3
  <2>5. FilesAreOfThePath'
    BY <1>1, <2>1, <2>2, <2>4 DEF FilesAreOfThePath
  <2>6. PartIsWritten'
    <3> SUFFICES ASSUME NEW q \in Path, tmp[q] # NoUp, q \notin left
                 PROVE  \E v \in Up : path[v] = q /\ task'[v] = "writing"
      BY <1>1, <2>1 DEF PartIsWritten
    <3>1. PICK v \in Up : path[v] = q /\ task[v] = "writing"
      BY DEF PartIsWritten
    <3>2. QED
      BY <1>2, <2>2, <3>1
  <2>7. InstalledIsEnd'
    BY <1>1, <2>1, <2>4 DEF InstalledIsEnd, hubVars
  <2>8. QED
    BY <2>2, <2>5, <2>6, <2>7
<1>3. CASE tmp[p] # NoUp
  <2>1. /\ Respond(u, "done", Verdict(u)) /\ Verdict(u) \in {"ok", "warning", "error"}
        /\ tmp' \in [Path -> Up \cup {NoUp}] /\ final' \in [Path -> Up \cup {NoUp}]
        /\ final'[p] = tmp[p] /\ tmp'[p] = NoUp
        /\ \A q \in Path \ {p} : final'[q] = final[q] /\ tmp'[q] = tmp[q]
    BY <1>1, <1>3 DEF TaskFinish, TypeOK, Verdict
  <2>2. /\ TypeOK' /\ BytesFollowHeader' /\ RequestIsFirst' /\ EndIsLast' /\ QueueIsOpen'
        /\ Contiguous'
        /\ task'[u] = "done" /\ fut'[u] = Verdict(u)
        /\ \A v \in Up \ {u} : task'[v] = task[v] /\ fut'[v] = fut[v]
    BY <1>1, <2>1, RespondStep
  <2>3. FilesAreOfThePath'
    <3>1. \A q \in Path : /\ tmp'[q] # NoUp => path'[tmp'[q]] = q
                          /\ final'[q] # NoUp => path'[final'[q]] = q
      BY <1>1, <1>3, <2>1 DEF FilesAreOfThePath
    <3>2. \A v \in Up : /\ handle'[v] # NoUp => path'[handle'[v]] = path'[v]
                        /\ task'[v] = "writing" => handle'[v] # NoUp
      BY <1>1, <2>2 DEF FilesAreOfThePath
    <3>3. ASSUME NEW v \in Up, Alone(v)
          PROVE  /\ task'[v] = "writing" => tmp'[path[v]] = v
                 /\ tmp'[path[v]] = v => task'[v] \in {"writing", "killed"}
                 /\ final'[path[v]] = v <=> task'[v] = "done"
      <4>1. CASE v = u
        BY <1>1, <2>1, <2>2, <3>3, <4>1 DEF FilesAreOfThePath
      <4>2. CASE v # u
        BY <1>1, <2>1, <2>2, <3>3, <4>2 DEF FilesAreOfThePath
      <4>3. QED
        BY <4>1, <4>2
    <3>4. QED
      BY <1>1, <3>1, <3>2, <3>3 DEF FilesAreOfThePath
  <2>4. PartIsWritten'
    <3> SUFFICES ASSUME NEW q \in Path, tmp'[q] # NoUp, q \notin left
                 PROVE  \E v \in Up : path[v] = q /\ task'[v] = "writing"
      BY <1>1 DEF PartIsWritten
    <3>1. q # p /\ tmp[q] # NoUp
      BY <2>1
    <3>2. PICK v \in Up : path[v] = q /\ task[v] = "writing"
      BY <3>1 DEF PartIsWritten
    <3>3. QED
      BY <2>2, <3>1, <3>2
  <2>5. InstalledIsEnd'
    <3> SUFFICES ASSUME NEW v \in Up, Alone(v), task'[v] = "done"
                 PROVE  /\ ended[v] /\ written[v] <= Size[v]
                        /\ content[v] = Slice(v, Size[v] - written[v], written[v])
                        /\ fut'[v] = "ok" /\ v \in Sized => written[v] = Size[v]
      BY <1>1 DEF InstalledIsEnd, hubVars
    <3>1. CASE v = u
      <4>1. recv_queue[u] # <<>> /\ Head(recv_queue[u]).type = "end"
        BY DEF TaskFinish
      <4>2. Verdict(u) = "ok" /\ u \in Sized => written[u] = Size[u]
        BY DEF Verdict
      <4>3. QED
        BY <1>1, <2>2, <3>1, <4>1, <4>2, EndAtHead
    <3>2. CASE v # u
      BY <2>2, <3>2 DEF InstalledIsEnd
    <3>3. QED
      BY <3>1, <3>2
  <2>6. QED
    BY <2>2, <2>3, <2>4, <2>5
<1>4. QED
  BY <1>2, <1>3

\* A task opens its queue and its .part file, which is its own when it is alone.
LEMMA TaskStartStep ==
  ASSUME IInv, NEW u \in Up, TaskStart(u)
  PROVE  IInv'
<1> USE DEF IInv, hubVars
<1>1. PICK p \in Path, f \in Up : /\ p = path[u] /\ path[f] = p
                                  /\ f = IF tmp[p] = NoUp THEN u ELSE tmp[p]
  BY DEF TypeOK, FilesAreOfThePath
<1>2. /\ task[u] = "created" /\ task'[u] = "writing" /\ opened' = opened \cup {u}
      /\ handle'[u] = f /\ content'[f] = <<>> /\ tmp'[p] = f /\ NoUp \notin Up
      /\ \A v \in Up \ {u} : task'[v] = task[v] /\ handle'[v] = handle[v]
      /\ \A v \in Up \ {f} : content'[v] = content[v]
      /\ \A q \in Path \ {p} : tmp'[q] = tmp[q]
      /\ left' = left \ {p}
      /\ UNCHANGED <<path, hubVars, fut, wire, pending_binary_for_rid, recv_queue, written,
                     final, drops>>
  BY <1>1, UploadAssumption DEF TaskStart, TypeOK
<1>3. TypeOK'
  <2>1. /\ task' = [task EXCEPT ![u] = "writing"] /\ handle' = [handle EXCEPT ![u] = f]
        /\ content' = [content EXCEPT ![f] = <<>>] /\ tmp' = [tmp EXCEPT ![p] = f]
    BY <1>1 DEF TaskStart
  <2>2. QED
    BY <1>1, <1>2, <2>1, SMTT(30) DEF TypeOK
<1>4. /\ \A v \in Up : Alone(v)' <=> Alone(v)
      /\ \A v \in Up \ {u} : Alone(v) => path[v] \in Path \ {p} /\ f # v
      /\ Alone(u) => f = u
  <2>1. \A v \in Up : Alone(v)' <=> Alone(v)
    BY <1>2 DEF Alone
  <2>2. \A v \in Up \ {u} : Alone(v) => path[v] \in Path \ {p} /\ f # v
    BY <1>1 DEF Alone, TypeOK
  <2>3. Alone(u) => f = u
    BY <1>1 DEF Alone
  <2>4. QED
    BY <2>1, <2>2, <2>3
<1>5. hub[u] # "idle" /\ ~Has(wire, "request", u) /\ recv_queue[u] = <<>> /\ written[u] = 0
  BY <1>2 DEF RequestIsFirst, QueueIsOpen
<1>6. RequestIsFirst'
  BY <1>2, <1>5 DEF RequestIsFirst
<1>7. EndIsLast'
  BY <1>2 DEF EndIsLast
<1>8. QueueIsOpen'
  BY <1>2 DEF QueueIsOpen
<1>9. FilesAreOfThePath'
  <2>1. \A q \in Path : /\ tmp'[q] # NoUp => path'[tmp'[q]] = q
                        /\ final'[q] # NoUp => path'[final'[q]] = q
    BY <1>1, <1>2 DEF FilesAreOfThePath
  <2>2. \A v \in Up : /\ handle'[v] # NoUp => path'[handle'[v]] = path'[v]
                      /\ task'[v] = "writing" => handle'[v] # NoUp
    BY <1>1, <1>2 DEF FilesAreOfThePath
  <2>3. ASSUME NEW v \in Up, Alone(v)
        PROVE  /\ task'[v] = "writing" => tmp'[path[v]] = v
               /\ tmp'[path[v]] = v => task'[v] \in {"writing", "killed"}
               /\ final'[path[v]] = v <=> task'[v] = "done"
    <3>1. CASE v = u
      BY <1>1, <1>2, <1>4, <2>3, <3>1 DEF FilesAreOfThePath
    <3>2. CASE v # u
      BY <1>1, <1>2, <1>4, <2>3, <3>2 DEF FilesAreOfThePath
    <3>3. QED
      BY <3>1, <3>2
  <2>4. QED
    BY <1>2, <1>4, <2>1, <2>2, <2>3 DEF FilesAreOfThePath
<1>10. PartIsWritten'
  <2> SUFFICES ASSUME NEW q \in Path, tmp'[q] # NoUp, q \notin left'
               PROVE  \E v \in Up : path[v] = q /\ task'[v] = "writing"
    BY <1>2 DEF PartIsWritten
  <2>1. CASE q = p
    BY <1>1, <1>2, <2>1
  <2>2. CASE q # p
    <3>1. PICK v \in Up : path[v] = q /\ task[v] = "writing"
      BY <1>2, <2>2 DEF PartIsWritten
    <3>2. QED
      BY <1>2, <3>1
  <2>3. QED
    BY <2>1, <2>2
<1>11. InstalledIsEnd'
  <2> SUFFICES ASSUME NEW v \in Up, Alone(v), task'[v] = "done"
               PROVE  /\ ended[v] /\ written[v] <= Size[v]
                      /\ content'[v] = Slice(v, Size[v] - written[v], written[v])
                      /\ fut[v] = "ok" /\ v \in Sized => written[v] = Size[v]
    BY <1>2, <1>4 DEF InstalledIsEnd
  <2>1. v # u
    BY <1>2
  <2>2. QED
    BY <1>2, <1>4, <2>1 DEF InstalledIsEnd
<1>12. Contiguous'
  <2> SUFFICES ASSUME NEW v \in Up, NEW g \in 0..nsent[v], Reached(v, g)
               PROVE  InQueue(v, g)' /\ InFile(v, g)' /\ EndIsReached(v, g)'
    BY <1>2, WireUnchanged DEF Contiguous, Reached
  <2>1. Chunks(v)' = Chunks(v)
    BY <1>2 DEF Chunks
  <2>2. CASE v = u
    <3>1. Chunks(u) = 0
      BY <1>5 DEF Chunks
    <3>2. \A k : Slice(u, k, 0) = <<>>
      BY DEF Slice
    <3>3. InQueue(u, g)'
      BY <1>2, <1>5, <2>1, <2>2, <3>1 DEF InQueue
    <3>4. InFile(u, g)'
      BY <1>2, <1>4, <1>5, <3>2 DEF InFile
    <3>5. QED
      BY <1>2, <2>1, <2>2, <3>3, <3>4 DEF Reached, EndIsReached
  <2>3. CASE v # u
    <3>1. task'[v] = task[v] /\ recv_queue'[v] = recv_queue[v] /\ written'[v] = written[v]
      BY <1>2, <2>3
    <3>2. InQueue(v, g)' /\ EndIsReached(v, g)'
      BY <2>1, <3>1 DEF Reached, InQueue, EndIsReached
    <3>3. Alone(v) => content'[v] = content[v]
      BY <1>2, <1>4, <2>3
    <3>4. InFile(v, g)'
      BY <1>4, <2>1, <3>1, <3>3 DEF Reached, InFile
    <3>5. QED
      BY <3>2, <3>4
  <2>4. QED
    BY <2>2, <2>3
<1>13. QED
  BY <1>2, <1>3, <1>6, <1>7, <1>8, <1>9, <1>10, <1>11, <1>12, WireUnchanged

\* A chunk written behind the others prolongs the slice.
LEMMA WriteNext ==
  ASSUME NEW u \in Up, NEW k \in Int, NEW m \in Nat
  PROVE  WriteAt(Slice(u, k, m), m + 1, <<u, k + m + 1>>) = Slice(u, k, m + 1)
<1> DEFINE s == Slice(u, k, m)
           x == <<u, k + m + 1>>
<1>1. Len(s) = m /\ \A i \in 1..m : s[i] = <<u, k + i>>
  BY DEF Slice
<1>2. \A i \in 1..(m + 1) : i = m + 1 \/ (i \in 1..m /\ i <= m /\ i # m + 1)
  OBVIOUS
<1> HIDE DEF s
<1>3. WriteAt(s, m + 1, x) = [i \in 1..(m + 1) |-> IF i = m + 1 THEN x
                                                   ELSE IF i <= m THEN s[i] ELSE Hole]
  BY <1>1 DEF WriteAt
<1>4. \A i \in 1..(m + 1) : (IF i = m + 1 THEN x ELSE IF i <= m THEN s[i] ELSE Hole)
                              = <<u, k + i>>
  BY <1>1, <1>2
<1>5. QED
  BY <1>3, <1>4 DEF Slice, s

\* Whatever is written, and wherever, leaves a file.
LEMMA WriteType ==
  ASSUME NEW s \in Seq(Cell \cup {Hole}), NEW k \in Nat \ {0}, NEW x \in Cell
  PROVE  WriteAt(s, k, x) \in Seq(Cell \cup {Hole})
<1>1. PICK m \in Nat : m = IF Len(s) < k THEN k ELSE Len(s)
  BY LenProperties
<1>2. \A i \in 1..Len(s) : s[i] \in Cell \cup {Hole}
  BY LenProperties
<1>3. Len(s) \in Nat
  BY LenProperties
<1>4. \A i \in 1..m : (IF i = k THEN x ELSE IF i <= Len(s) THEN s[i] ELSE Hole)
                         \in Cell \cup {Hole}
  BY <1>2, <1>3
<1>5. WriteAt(s, k, x)
        = [i \in 1..m |-> IF i = k THEN x ELSE IF i <= Len(s) THEN s[i] ELSE Hole]
  BY <1>1 DEF WriteAt
<1>6. QED
  BY <1>4, <1>5

\* The chunk at the head of the queue is the next after those written.
LEMMA ChunkAtHead ==
  ASSUME IInv, NEW u \in Up, task[u] = "writing", recv_queue[u] # <<>>,
         Head(recv_queue[u]).type = "binary", recv_queue'[u] = Tail(recv_queue[u]),
         NEW g \in 0..nsent[u], Reached(u, g)
  PROVE  /\ Chunks(u) \in Nat /\ Chunks(u) > 0 /\ Chunks(u)' = Chunks(u) - 1
         /\ written[u] + Chunks(u) <= g /\ g \in Nat /\ written[u] \in Nat
         /\ Head(recv_queue[u]) = Binary(u, g - Chunks(u) + 1)
         /\ \A i \in 1..(Chunks(u) - 1) : recv_queue'[u][i] = Binary(u, g - Chunks(u) + 1 + i)
         /\ Len(recv_queue'[u]) = Len(recv_queue[u]) - 1
<1> DEFINE q == recv_queue[u]
           r == recv_queue'[u]
<1>1. /\ q \in Seq(Frame) /\ q # <<>> /\ r = Tail(q) /\ written[u] \in Nat
      /\ nsent[u] \in Nat /\ g \in Nat /\ q[1].type = "binary"
  BY Types, TailFacts DEF IInv
<1>2. /\ r \in Seq(Frame) /\ Len(r) = Len(q) - 1 /\ Len(q) \in Nat \ {0}
      /\ \A i \in 1..(Len(q) - 1) : r[i] = q[i + 1] /\ Head(q) = q[1]
  BY <1>1, TailFacts
<1>3. r = <<>> <=> Len(r) = 0
  BY <1>2, EmptySeq
<1>4. /\ Chunks(u) = IF q[Len(q)].type = "end" THEN Len(q) - 1 ELSE Len(q)
      /\ Chunks(u)' = IF r # <<>> /\ r[Len(r)].type = "end" THEN Len(r) - 1 ELSE Len(r)
  BY <1>1 DEF Chunks
<1>5. /\ written[u] + Chunks(u) <= g
      /\ \A i \in 1..Chunks(u) : q[i] = Binary(u, g - Chunks(u) + i)
  BY DEF Reached, InQueue
<1> HIDE DEF q, r
<1>6. Len(q) > 1 => r[Len(r)] = q[Len(q)]
  BY <1>2
<1>7. /\ Chunks(u) \in Nat /\ Chunks(u) > 0 /\ Chunks(u) <= Len(q)
      /\ Chunks(u)' = Chunks(u) - 1
  BY <1>1, <1>2, <1>3, <1>4, <1>6
<1>8. Head(q) = Binary(u, g - Chunks(u) + 1)
  <2>1. 1 \in 1..Chunks(u)
    BY <1>7
  <2>2. Head(q) = q[1]
    BY <1>1, TailFacts
  <2>3. QED
    BY <1>5, <2>1, <2>2
<1>9. ASSUME NEW i \in 1..(Chunks(u) - 1)
      PROVE  r[i] = Binary(u, g - Chunks(u) + 1 + i)
  <2>1. /\ r[i] = q[i + 1] /\ i + 1 \in 1..Chunks(u)
        /\ g - Chunks(u) + (i + 1) = g - Chunks(u) + 1 + i
    BY <1>1, <1>2, <1>7
  <2>2. QED
    BY <1>5, <2>1
<1>10. QED
  BY <1>1, <1>2, <1>5, <1>7, <1>8, <1>9 DEF q, r

\* The task writes the chunk at the head of its queue.
LEMMA TaskChunkStep ==
  ASSUME IInv, NEW u \in Up, TaskChunk(u)
  PROVE  IInv'
<1> USE DEF IInv, hubVars
<1>1. PICK h : h = handle[u]
  OBVIOUS
<1>2. PICK g \in 0..nsent[u] : Reached(u, g)
  BY DEF Contiguous
<1>3. /\ task[u] = "writing" /\ recv_queue[u] # <<>> /\ Head(recv_queue[u]).type = "binary"
      /\ recv_queue' = [recv_queue EXCEPT ![u] = Tail(@)] /\ recv_queue'[u] = Tail(recv_queue[u])
      /\ \A v \in Up \ {u} : recv_queue'[v] = recv_queue[v] /\ written'[v] = written[v]
      /\ written'[u] = written[u] + 1 /\ written' \in [Up -> Nat]
      /\ UNCHANGED <<path, hubVars, fut, wire, pending_binary_for_rid, opened, task, handle,
                     tmp, final, left, drops>>
  BY DEF TaskChunk, TypeOK
<1>4. /\ Chunks(u) \in Nat /\ Chunks(u) > 0 /\ Chunks(u)' = Chunks(u) - 1
      /\ written[u] + Chunks(u) <= g /\ g \in Nat /\ written[u] \in Nat
      /\ Head(recv_queue[u]) = Binary(u, g - Chunks(u) + 1)
      /\ \A i \in 1..(Chunks(u) - 1) : recv_queue'[u][i] = Binary(u, g - Chunks(u) + 1 + i)
      /\ Len(recv_queue'[u]) = Len(recv_queue[u]) - 1
  BY <1>2, <1>3, ChunkAtHead
<1>5. PICK x \in Cell : x = <<u, g - Chunks(u) + 1>>
  <2>1. g - Chunks(u) + 1 \in Nat
    BY <1>4
  <2>2. QED
    BY <2>1 DEF Cell
<1>6. /\ h \in Up /\ path[h] = path[u] /\ NoUp \notin Up
      /\ \A v \in Up \ {u} : Alone(v) => h # v
      /\ Alone(u) => h = u
  BY <1>1, <1>3, UploadAssumption, SMTT(30) DEF FilesAreOfThePath, TypeOK, Alone
<1>7. /\ content' = [content EXCEPT ![h] = WriteAt(@, written[u] + 1, x)]
      /\ content'[h] = WriteAt(content[h], written[u] + 1, x)
      /\ \A v \in Up \ {h} : content'[v] = content[v]
  <2>1. Head(recv_queue[u]).src = u /\ Head(recv_queue[u]).n = g - Chunks(u) + 1
    BY <1>4 DEF Binary
  <2>2. content' = [content EXCEPT ![h] = WriteAt(@, written[u] + 1, x)]
    BY <1>1, <1>5, <2>1 DEF TaskChunk
  <2>3. QED
    BY <1>6, <2>2 DEF TypeOK
<1>8. TypeOK'
  <2>1. content[h] \in Seq(Cell \cup {Hole}) /\ written[u] + 1 \in Nat \ {0}
    <3>1. content \in [Up -> Seq(Cell \cup {Hole})]
      BY DEF TypeOK
    <3>2. content[h] \in Seq(Cell \cup {Hole})
      BY <1>6, <3>1
    <3>3. written[u] + 1 \in Nat \ {0}
      BY <1>4
    <3>4. QED
      BY <3>2, <3>3
  <2>2. WriteAt(content[h], written[u] + 1, x) \in Seq(Cell \cup {Hole})
    BY <2>1, WriteType
  <2>3. content' \in [Up -> Seq(Cell \cup {Hole})]
    BY <1>7, <2>2 DEF TypeOK
  <2>4. Tail(recv_queue[u]) \in Seq(Frame)
    BY <1>3, Types, TailFacts
  <2>5. recv_queue' \in [Up -> Seq(Frame)]
    BY <1>3, <2>4 DEF TypeOK
  <2>6. QED
    BY <1>3, <2>3, <2>5 DEF TypeOK
<1>9. \A v \in Up : Alone(v)' <=> Alone(v)
  BY <1>3 DEF Alone
<1>10. RequestIsFirst'
  BY <1>3 DEF RequestIsFirst
<1>11. EndIsLast'
  <2> SUFFICES ASSUME NEW v \in Up, NEW i \in 1..Len(recv_queue'[v]),
                      recv_queue'[v][i].type = "end"
               PROVE  i = Len(recv_queue'[v]) /\ ended[v] /\ NoneOf(wire, v)
    BY <1>3 DEF EndIsLast
  <2>1. CASE v = u
    <3>1. Len(recv_queue[u]) \in Nat
      BY Types
    <3>2. recv_queue'[u][i] = recv_queue[u][i + 1] /\ i + 1 \in 1..Len(recv_queue[u])
      BY <1>3, <1>4, <2>1, <3>1, Types, TailFacts
    <3>3. i + 1 = Len(recv_queue[u]) /\ ended[u] /\ NoneOf(wire, u)
      BY <2>1, <3>2 DEF EndIsLast
    <3>4. QED
      BY <1>4, <2>1, <3>1, <3>3
  <2>2. CASE v # u
    BY <1>3, <2>2 DEF EndIsLast
  <2>3. QED
    BY <2>1, <2>2
<1>12. QueueIsOpen'
  BY <1>3 DEF QueueIsOpen
<1>13. FilesAreOfThePath'
  BY <1>3, <1>9 DEF FilesAreOfThePath
<1>14. PartIsWritten'
  BY <1>3 DEF PartIsWritten
<1>15. InstalledIsEnd'
  <2> SUFFICES ASSUME NEW v \in Up, Alone(v), task[v] = "done"
               PROVE  /\ ended[v] /\ written'[v] <= Size[v]
                      /\ content'[v] = Slice(v, Size[v] - written'[v], written'[v])
                      /\ fut[v] = "ok" /\ v \in Sized => written'[v] = Size[v]
    BY <1>3, <1>9 DEF InstalledIsEnd
  <2>1. v # u
    BY <1>3
  <2>2. content'[v] = content[v] /\ written'[v] = written[v]
    BY <1>3, <1>6, <1>7, <2>1
  <2>3. QED
    BY <2>2 DEF InstalledIsEnd
<1>16. Reached(u, g)'
  <2>1. InFlight(u, g)'
    BY <1>2, <1>3, WireUnchanged
  <2>2. InQueue(u, g)'
    <3>1. written'[u] + Chunks(u)' <= g
      BY <1>3, <1>4
    <3>2. ASSUME NEW i \in 1..Chunks(u)'
          PROVE  recv_queue'[u][i] = Binary(u, g - Chunks(u)' + i)
      <4>1. i \in 1..(Chunks(u) - 1) /\ g - Chunks(u)' + i = g - Chunks(u) + 1 + i
        BY <1>4
      <4>2. QED
        BY <1>4, <4>1
    <3>3. QED
      BY <3>1, <3>2 DEF InQueue
  <2>3. EndIsReached(u, g)'
    <3>1. Len(recv_queue[u]) \in Nat
      BY Types
    <3>2. Chunks(u)' < Len(recv_queue'[u]) => Chunks(u) < Len(recv_queue[u])
      BY <1>4, <3>1
    <3>3. QED
      BY <1>2, <3>2 DEF Reached, EndIsReached
  <2>4. InFile(u, g)'
    <3> SUFFICES ASSUME Alone(u)
                 PROVE  content'[u] = Slice(u, g - Chunks(u)' - written'[u], written'[u])
      BY <1>9 DEF InFile
    <3>1. PICK k \in Int : k = g - Chunks(u) - written[u]
      BY <1>4
    <3>2. content[u] = Slice(u, k, written[u])
      BY <1>2, <1>3, <3>1 DEF Reached, InFile
    <3>3. x = <<u, k + written[u] + 1>>
      <4>1. k + written[u] + 1 = g - Chunks(u) + 1
        BY <1>4, <3>1
      <4>2. QED
        BY <1>5, <4>1
    <3>4. content'[u] = WriteAt(Slice(u, k, written[u]), written[u] + 1, x)
      BY <1>6, <1>7, <3>2
    <3>5. content'[u] = Slice(u, k, written[u] + 1)
      BY <1>4, <3>3, <3>4, WriteNext
    <3>6. g - Chunks(u)' - written'[u] = k
      BY <1>3, <1>4, <3>1
    <3>7. QED
      BY <1>3, <3>5, <3>6
  <2>5. QED
    BY <2>1, <2>2, <2>3, <2>4 DEF Reached
<1>17. Contiguous'
  <2> SUFFICES ASSUME NEW v \in Up, v # u, NEW c \in 0..nsent[v], Reached(v, c)
               PROVE  Reached(v, c)'
    BY <1>3, <1>16 DEF Contiguous
  <2>1. Chunks(v)' = Chunks(v)
    BY <1>3 DEF Chunks
  <2>2. task'[v] = task[v] /\ recv_queue'[v] = recv_queue[v] /\ written'[v] = written[v]
    BY <1>3
  <2>3. InQueue(v, c)' /\ EndIsReached(v, c)'
    BY <2>1, <2>2 DEF Reached, InQueue, EndIsReached
  <2>4. Alone(v) => content'[v] = content[v]
    BY <1>6, <1>7
  <2>5. InFile(v, c)'
    BY <1>9, <2>1, <2>2, <2>4 DEF Reached, InFile
  <2>6. QED
    BY <1>3, <2>3, <2>5, WireUnchanged DEF Reached
<1>18. QED
  BY <1>3, <1>8, <1>10, <1>11, <1>12, <1>13, <1>14, <1>15, <1>17, WireUnchanged

\* A caller that returns, times out or loses its browser only leaves.
LEMMA HubLeaves ==
  ASSUME IInv, NEW u \in Up, ClientGone(u) \/ Return(u)
  PROVE  IInv'
<1>1. CASE ClientGone(u)
  <2>1. hub[u] \in Active /\ "aborted" \in Told
    BY <1>1 DEF ClientGone, Active, Told
  <2>2. QED
    BY <1>1, <2>1, LeaveStep DEF ClientGone
<1>2. CASE UploadReturn(u)
  <2>1. hub[u] \in Active /\ fut[u] \in Told
    BY <1>2 DEF UploadReturn, Active, Told, IInv, TypeOK
  <2>2. PICK h \in Told : h = fut[u]
    BY <2>1
  <2>3. QED
    BY <1>2, <2>1, <2>2, LeaveStep DEF UploadReturn
<1>3. CASE UploadTimeout(u)
  <2>1. hub[u] \in Active /\ "timeout" \in Told
    BY <1>3 DEF UploadTimeout, Active, Told
  <2>2. QED
    BY <1>3, <2>1, LeaveStep DEF UploadTimeout
<1>4. QED
  BY <1>1, <1>2, <1>3 DEF Return

\* Every step of the hub and of the agent keeps the invariant.
LEMMA IInvStep == IInv /\ [Next]_vars => IInv'
<1> SUFFICES ASSUME IInv, [Next]_vars PROVE IInv'
  OBVIOUS
<1>1. ASSUME NEW u \in Up, Task(u) PROVE IInv'
  BY <1>1, TaskStartStep, TaskRejectStep, TaskChunkStep, TaskFinishStep, TaskFailStep DEF Task
<1>2. ASSUME NEW u \in Up,
             SendRequest(u) \/ SendChunk(u) \/ SendEnd(u) \/ ClientGone(u) \/ Return(u)
      PROVE  IInv'
  BY <1>2, SendRequestStep, SendChunkStep, SendEndStep, HubLeaves
<1>3. CASE UNCHANGED vars
  <2>1. /\ TypeOK' /\ RequestIsFirst' /\ EndIsLast' /\ QueueIsOpen' /\ BytesFollowHeader'
    BY <1>3 DEF IInv, vars, hubVars, sessionVars, fileVars, TypeOK, RequestIsFirst, EndIsLast,
                QueueIsOpen, BytesFollowHeader
  <2>2. FilesAreOfThePath' /\ PartIsWritten' /\ InstalledIsEnd'
    BY <1>3, FilesUnchanged DEF vars, hubVars
  <2>3. Contiguous'
    <3> SUFFICES ASSUME NEW v \in Up, NEW g \in 0..nsent[v], Reached(v, g)
                 PROVE  Reached(v, g)'
      BY <1>3 DEF Contiguous, IInv, vars, hubVars
    <3>1. InQueue(v, g)' /\ InFile(v, g)' /\ EndIsReached(v, g)'
      BY <1>3, AgentUnchanged DEF vars, sessionVars, fileVars
    <3>2. InFlight(v, g)'
      BY <1>3, WireUnchanged DEF vars, sessionVars
    <3>3. QED
      BY <3>1, <3>2 DEF Reached
  <2>4. QED
    BY <2>1, <2>2, <2>3 DEF IInv
<1>4. QED
  BY <1>1, <1>2, <1>3, AgentReceiveStep, DropStep, AgentExitStep DEF Next

\* The invariant holds in every state of every behaviour.
LEMMA Inductive == Spec => []IInv
BY InitIInv, IInvStep, PTL DEF Spec

\* The parts of upload(), of the agent's Session and of the files stay in their types.
THEOREM UploadTypes == Spec => []TypeOK
<1>1. IInv => TypeOK
  BY DEF IInv
<1>2. QED
  BY <1>1, Inductive, PTL

\* No .part file outlives the tasks that write to its path, unless the agent itself
\* ends, and then it stays until the next upload there; and no queue outlives its task.
THEOREM PartFilesAreRemoved == Spec => []NothingLeftBehind
<1>1. IInv => NothingLeftBehind
  BY DEF IInv, PartIsWritten, QueueIsOpen, NothingLeftBehind
<1>2. QED
  BY <1>1, Inductive, PTL

\* A slice is the end of the body from its length on; of full length, it is the body.
LEMMA SliceIsEnd ==
  ASSUME NEW u \in Up, NEW m \in Nat, m <= Size[u]
  PROVE  /\ Len(Slice(u, Size[u] - m, m)) = m
         /\ Slice(u, Size[u] - m, m) = SubSeq(Body(u), Size[u] - m + 1, Size[u])
         /\ m = Size[u] => Slice(u, Size[u] - m, m) = Body(u)
<1> DEFINE s == Size[u]
           t == SubSeq(Body(u), s - m + 1, s)
<1>1. s \in Nat /\ s - (s - m + 1) + 1 = m
  BY UploadAssumption
<1>2. Len(Slice(u, s - m, m)) = m
  BY DEF Slice
<1>3. t = [i \in 1..(s - (s - m + 1) + 1) |-> Body(u)[s - m + 1 + i - 1]]
  BY <1>1 DEF SubSeq
<1>4. ASSUME NEW i \in 1..m PROVE Body(u)[s - m + 1 + i - 1] = <<u, s - m + i>>
  <2>1. s - m + 1 + i - 1 = s - m + i /\ s - m + i \in 1..s
    BY <1>1
  <2>2. QED
    BY <2>1 DEF Body
<1>5. t = Slice(u, s - m, m)
  BY <1>1, <1>3, <1>4 DEF Slice
<1>6. ASSUME m = s PROVE Slice(u, s - m, m) = Body(u)
  <2>1. \A i \in 1..m : s - m + i = i
    BY <1>1, <1>6
  <2>2. QED
    BY <1>6, <2>1 DEF Slice, Body
<1>7. QED
  BY <1>2, <1>5, <1>6

\* What is installed at a path that one upload has to itself is the end of its body, and
\* all of it when the browser was told "ok" for a size that the hub knew.
THEOREM UploadIsAsTold == Spec => []InstalledAsTold
<1>1. ASSUME IInv PROVE InstalledAsTold
  <2> SUFFICES ASSUME NEW u \in Up, Alone(u)
               PROVE  /\ final[path[u]] = u =>
                           /\ ended[u]
                           /\ content[u] = SubSeq(Body(u), Size[u] - Len(content[u]) + 1,
                                                  Size[u])
                      /\ hub[u] = "ok" /\ u \in Sized =>
                           final[path[u]] = u /\ content[u] = Body(u)
    BY DEF InstalledAsTold
  <2>1. final[path[u]] = u <=> task[u] = "done"
    BY <1>1 DEF IInv, FilesAreOfThePath
  <2>2. ASSUME task[u] = "done"
        PROVE  /\ ended[u]
               /\ content[u] = SubSeq(Body(u), Size[u] - Len(content[u]) + 1, Size[u])
               /\ fut[u] = "ok" /\ u \in Sized => content[u] = Body(u)
    <3>1. /\ ended[u] /\ written[u] <= Size[u] /\ written[u] \in Nat
          /\ content[u] = Slice(u, Size[u] - written[u], written[u])
          /\ fut[u] = "ok" /\ u \in Sized => written[u] = Size[u]
      BY <1>1, <2>2 DEF IInv, InstalledIsEnd, TypeOK
    <3>2. /\ Len(content[u]) = written[u]
          /\ content[u] = SubSeq(Body(u), Size[u] - written[u] + 1, Size[u])
          /\ written[u] = Size[u] => content[u] = Body(u)
      BY <3>1, SliceIsEnd
    <3>3. QED
      BY <3>1, <3>2
  <2>3. hub[u] = "ok" => task[u] = "done" /\ fut[u] = "ok"
    BY <1>1 DEF IInv, QueueIsOpen
  <2>4. QED
    BY <2>1, <2>2, <2>3
<1>2. QED
  BY <1>1, Inductive, PTL

=============================================================================
