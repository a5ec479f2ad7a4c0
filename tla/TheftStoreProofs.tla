-------------------------- MODULE TheftStoreProofs --------------------------
(***************************************************************************)
(* The media store keeps a file for every row, and no more rows than it    *)
(* should, for any number of nodes, devices and captures under way.        *)
(***************************************************************************)
EXTENDS TheftStore, FiniteSetTheorems, TLAPS

Written(t) == cap[t].stage = "written"

\* Names of files are never used twice.
Fresh ==
  /\ \A p \in files : p[2] < nextFile
  /\ \A r \in rows : r.file < nextFile
  /\ \A r, q \in rows : r.file = q.file => r = q

\* A file that is written and has no row yet is there, and nobody else's.
WrittenIsOwn ==
  \A t \in Task : Written(t) =>
    /\ <<t[1], cap[t].file>> \in files
    /\ cap[t].file < nextFile
    /\ \A r \in rows : r.file # cap[t].file
    /\ \A u \in Task : Written(u) /\ u # t => cap[u].file # cap[t].file

\* What a pruning has selected belongs to no capture and to no other row than the
\* selected one; what it is about to unlink belongs to no row at all.
OldIsOwn(t) ==
  \A o \in cap[t].old :
    /\ o.file < nextFile
    /\ \A u \in Task : Written(u) => cap[u].file # o.file
    /\ \A r \in rows : r.file = o.file => r = o

PathsAreGone(t) ==
  \A f \in cap[t].paths :
    /\ f < nextFile
    /\ \A u \in Task : Written(u) => cap[u].file # f
    /\ \A r \in rows : r.file # f

PrunedIsGone ==
  \A t \in Task : OldIsOwn(t) /\ PathsAreGone(t)

\* Nor does the file that theft_media_delete is about to unlink.
DeletedIsGone ==
  \A n \in Node : del[n] # 0 =>
    /\ del[n] < nextFile
    /\ \A r \in rows : r.file # del[n]
    /\ \A u \in Task : Written(u) => cap[u].file # del[n]

\* A capture that is not under way is a capture record.
LEMMA IdleType == Idle \in Capture /\ Idle.stage = "idle"
  BY DEF Idle, Capture, Row

\* A capture that goes on to another record of its device.
LEMMA CapStep ==
  ASSUME TypeOK, NEW t \in Task, NEW c \in Capture, c.dev \in Dev, cap' = [cap EXCEPT ![t] = c]
  PROVE  /\ cap' \in [Task -> Capture]
         /\ \A u \in Task : cap'[u].stage # "idle" => cap'[u].dev \in Dev
  BY DEF TypeOK

\* Every step keeps the types.
LEMMA TypeStep == TypeOK /\ [Next]_vars => TypeOK'
<1> SUFFICES ASSUME TypeOK, [Next]_vars PROVE TypeOK'
  OBVIOUS
<1> USE StoreAssumption, IdleType DEF TypeOK
<1>0. \A t \in Task : t[1] \in Node
  BY DEF Task
<1>1. ASSUME NEW t \in Task, NEW d \in Dev, StartCapture(t, d) PROVE TypeOK'
  <2>1. [Idle EXCEPT !.stage = "streaming", !.dev = d, !.live = TRUE] \in Capture
    BY DEF Idle, Capture, Row
  <2>2. QED
    BY <1>1, <2>1 DEF StartCapture
<1>2. ASSUME NEW t \in Task, CaptureToStore(t) PROVE TypeOK'
  <2>1. CASE CaptureFails(t)
    BY <2>1 DEF CaptureFails
  <2>2. CASE WriteFile(t)
    <3> DEFINE c == [[cap[t] EXCEPT !.stage = "written"] EXCEPT !.file = nextFile]
    <3>1. c \in Capture /\ c.dev = cap[t].dev
      BY DEF Capture, Storing
    <3>2. cap' = [cap EXCEPT ![t] = c]
      BY <2>2 DEF WriteFile
    <3>3. cap[t].stage = "streaming" /\ cap[t].dev \in Dev
      BY <2>2 DEF WriteFile
    <3> HIDE DEF c
    <3>4. /\ cap' \in [Task -> Capture]
          /\ \A u \in Task : cap'[u].stage # "idle" => cap'[u].dev \in Dev
      BY <3>1, <3>2, <3>3
    <3>5. files' \subseteq Node \X Nat /\ nextFile' \in Nat \ {0}
      BY <1>0, <2>2 DEF WriteFile
    <3>6. QED
      BY <2>2, <3>4, <3>5 DEF WriteFile
  <2>3. CASE InsertRow(t)
    <3>1. CASE cap[t].dev \in paired \/ ~ForeignKeys
      <4>1. cap[t].dev \in Dev /\ cap[t].file \in Nat
        BY <2>3 DEF InsertRow, Capture
      <4>2. \A ts \in Clock : [id |-> nextRow, dev |-> cap[t].dev, created |-> ts,
                               node |-> t[1], file |-> cap[t].file] \in Row
        BY <1>0, <4>1 DEF Row
      <4>3. rows' \subseteq Row /\ nextRow' \in Nat
        BY <2>3, <3>1, <4>2 DEF InsertRow
      <4> DEFINE c == [cap[t] EXCEPT !.stage = "inserted"]
      <4>4. c \in Capture /\ c.dev = cap[t].dev
        BY DEF Capture, Storing
      <4>5. cap' = [cap EXCEPT ![t] = c]
        BY <2>3, <3>1 DEF InsertRow
      <4> HIDE DEF c
      <4>6. /\ cap' \in [Task -> Capture]
            /\ \A u \in Task : cap'[u].stage # "idle" => cap'[u].dev \in Dev
        BY <4>1, <4>4, <4>5, CapStep
      <4>7. QED
        BY <2>3, <4>3, <4>6 DEF InsertRow
    <3>2. CASE ~(cap[t].dev \in paired \/ ~ForeignKeys)
      BY <2>3, <3>2 DEF InsertRow
    <3>3. QED
      BY <3>1, <3>2
  <2>4. CASE PruneSelect(t)
    <3>1. PICK keep \in Retention :
            /\ cap' = [cap EXCEPT ![t].stage = "selected",
                                 ![t].old = Excess(cap[t].dev, keep)]
            /\ limit' = [limit EXCEPT ![cap[t].dev] = keep]
      BY <2>4 DEF PruneSelect
    <3>2. Excess(cap[t].dev, keep) \subseteq Row
      BY DEF Excess, RowsOf
    <3>3. limit' \in [Dev -> Nat]
      BY <3>1
    <3> DEFINE c == [cap[t] EXCEPT !.stage = "selected", !.old = Excess(cap[t].dev, keep)]
    <3>4. c \in Capture /\ c.dev = cap[t].dev /\ cap[t].dev \in Dev
      BY <2>4, <3>2 DEF PruneSelect, Capture, Storing
    <3>5. cap' = [cap EXCEPT ![t] = c]
      BY <3>1
    <3> HIDE DEF c
    <3>6. /\ cap' \in [Task -> Capture]
          /\ \A u \in Task : cap'[u].stage # "idle" => cap'[u].dev \in Dev
      BY <3>4, <3>5, CapStep
    <3>7. QED
      BY <2>4, <3>3, <3>6 DEF PruneSelect
  <2>5. CASE PruneDelete(t)
    <3>1. PICK r \in cap[t].old :
            /\ rows' = rows \ {r}
            /\ cap' = [cap EXCEPT ![t].old = @ \ {r}, ![t].paths = @ \cup {r.file}]
      BY <2>5 DEF PruneDelete
    <3>2. r.file \in Nat
      BY DEF Capture, Row
    <3> DEFINE c == [cap[t] EXCEPT !.old = @ \ {r}, !.paths = @ \cup {r.file}]
    <3>3. c \in Capture /\ c.dev = cap[t].dev /\ cap[t].dev \in Dev
      BY <2>5, <3>2 DEF PruneDelete, Capture
    <3>4. cap' = [cap EXCEPT ![t] = c]
      BY <3>1
    <3> HIDE DEF c
    <3>5. /\ cap' \in [Task -> Capture]
          /\ \A u \in Task : cap'[u].stage # "idle" => cap'[u].dev \in Dev
      BY <3>3, <3>4, CapStep
    <3>6. QED
      BY <2>5, <3>1, <3>5 DEF PruneDelete
  <2>6. CASE Unlink(t)
    BY <2>6 DEF Unlink
  <2>7. CASE StoreFails(t)
    BY <2>7 DEF StoreFails, Unpruned
  <2>8. QED
    BY <1>2, <2>1, <2>2, <2>3, <2>4, <2>5, <2>6, <2>7 DEF CaptureToStore
<1>3. ASSUME NEW n \in Node, MediaDelete(n) PROVE TypeOK'
  BY <1>3 DEF MediaDelete, Row
<1>4. ASSUME NEW n \in Node, MediaUnlink(n) PROVE TypeOK'
  BY <1>4 DEF MediaUnlink
<1>5. ASSUME NEW n \in Node, Crash(n) PROVE TypeOK'
  BY <1>5 DEF Crash, Unpruned
<1>6. ASSUME NEW d \in Dev, NEW n \in Node \cup {NoNode}, DeviceMoves(d, n) PROVE TypeOK'
  BY <1>6 DEF DeviceMoves, Capture
<1>7. ASSUME NEW d \in Dev, DeviceDelete(d) PROVE TypeOK'
  BY <1>7 DEF DeviceDelete, RowsOf
<1>8. CASE UNCHANGED vars
  BY <1>8 DEF vars
<1>9. QED
  BY <1>1, <1>2, <1>3, <1>4, <1>5, <1>6, <1>7, <1>8 DEF Next

Own == Fresh /\ WrittenIsOwn /\ PrunedIsGone /\ DeletedIsGone /\ RowHasFile

\* A step that writes no file, adds no row and selects none keeps everything, if the files it unlinks are in no row and are
\* not just written, and what it makes theft_media_delete unlink is no row's.
LEMMA Shrink ==
  ASSUME TypeOK, Own,
         rows' \subseteq rows, files' \subseteq files, nextFile' = nextFile,
         \A u \in Task : /\ Written(u)' => Written(u) /\ cap'[u].file = cap[u].file
                         /\ cap'[u].old \subseteq cap[u].old
                         /\ cap'[u].paths \subseteq cap[u].paths,
         \A r \in rows' : <<r.node, r.file>> \in files',
         \A u \in Task : Written(u) /\ Written(u)'
                           => <<u[1], cap[u].file>> \in files',
         \A n \in Node : del'[n] # 0 /\ del'[n] # del[n] =>
           /\ del'[n] < nextFile
           /\ \A r \in rows' : r.file # del'[n]
           /\ \A u \in Task : Written(u) => cap[u].file # del'[n]
  PROVE  Own'
<1>1. Fresh'
  BY DEF Own, Fresh
<1>2. WrittenIsOwn'
  BY DEF Own, WrittenIsOwn
<1>3. PrunedIsGone'
  BY DEF Own, PrunedIsGone, OldIsOwn, PathsAreGone
<1>4. DeletedIsGone'
  BY DEF Own, DeletedIsGone
<1>5. RowHasFile'
  BY DEF RowHasFile
<1>6. QED
  BY <1>1, <1>2, <1>3, <1>4, <1>5 DEF Own

\* Captures end, connections come and go and nodes die without touching what is
\* stored.
LEMMA QuietStep ==
  ASSUME TypeOK, Own,
         \/ \E t \in Task, d \in Dev : StartCapture(t, d)
         \/ \E t \in Task : CaptureFails(t) \/ StoreFails(t)
         \/ \E n \in Node : Crash(n)
         \/ \E d \in Dev, n \in Node \cup {NoNode} : DeviceMoves(d, n)
         \/ \E d \in Dev : DeviceDelete(d)
         \/ UNCHANGED vars
  PROVE  Own'
<1>1. /\ rows' \subseteq rows /\ files' = files /\ nextFile' = nextFile
      /\ \A n \in Node : del'[n] \in {0, del[n]}
  BY DEF TypeOK, StartCapture, CaptureFails, StoreFails, Crash, DeviceMoves,
         DeviceDelete, vars
<1>2. \A u \in Task : /\ Written(u)' => Written(u) /\ cap'[u].file = cap[u].file
                      /\ cap'[u].old \subseteq cap[u].old
                      /\ cap'[u].paths \subseteq cap[u].paths
  <2> DEFINE Same(u) == /\ cap'[u].stage = cap[u].stage /\ cap'[u].file = cap[u].file
                        /\ cap'[u].old = cap[u].old /\ cap'[u].paths = cap[u].paths
             Blank(u) == /\ cap'[u].stage # "written"
                         /\ cap'[u].old = {} /\ cap'[u].paths = {}
             Goal == \A u \in Task : Same(u) \/ Blank(u)
  <2>0. cap' = cap => Goal
    OBVIOUS
  <2>1. ASSUME NEW t \in Task, NEW d \in Dev, StartCapture(t, d) PROVE Goal
    <3>1. Blank(t) /\ \A u \in Task : u # t => cap'[u] = cap[u]
      BY <2>1 DEF StartCapture, TypeOK, Idle
    <3>2. QED
      BY <3>1
  <2>2. ASSUME NEW t \in Task, CaptureFails(t) \/ StoreFails(t) PROVE Goal
    <3>1. Blank(t) /\ \A u \in Task : u # t => cap'[u] = cap[u]
      BY <2>2 DEF CaptureFails, StoreFails, TypeOK, Idle
    <3>2. QED
      BY <3>1
  <2>3. ASSUME NEW n \in Node, Crash(n) PROVE Goal
    <3>1. \A u \in Task : Blank(u) \/ cap'[u] = cap[u]
      BY <2>3 DEF Crash, Idle
    <3>2. QED
      BY <3>1
  <2>4. ASSUME NEW d \in Dev, NEW n \in Node \cup {NoNode}, DeviceMoves(d, n) PROVE Goal
    <3>1. SUFFICES ASSUME NEW u \in Task PROVE Same(u)
      OBVIOUS
    <3>2. cap[u] \in Capture /\ cap'[u] = [cap[u] EXCEPT !.live = cap[u].live /\ cap[u].dev # d]
      BY <2>4 DEF DeviceMoves, TypeOK
    <3>3. QED
      BY <3>2 DEF Capture
  <2>5. ASSUME NEW d \in Dev, DeviceDelete(d) PROVE Goal
    BY <2>0, <2>5 DEF DeviceDelete
  <2>6. ASSUME UNCHANGED vars PROVE Goal
    BY <2>0, <2>6 DEF vars
  <2> HIDE DEF Same, Blank, Goal
  <2>7. Goal
    BY <2>1, <2>2, <2>3, <2>4, <2>5, <2>6
  <2>8. QED
    BY <2>7 DEF Written, Goal, Same, Blank
<1>3. \A r \in rows' : <<r.node, r.file>> \in files'
  BY <1>1 DEF Own, RowHasFile
<1>4. \A u \in Task : Written(u) => <<u[1], cap[u].file>> \in files'
  BY <1>1 DEF Own, WrittenIsOwn
<1>5. QED
  BY <1>1, <1>2, <1>3, <1>4, Shrink

\* A new file has a new name.
LEMMA WriteFileStep ==
  ASSUME TypeOK, Own, NEW t \in Task, WriteFile(t) PROVE Own'
<1>1. /\ nextFile \in Nat /\ nextFile' = nextFile + 1 /\ rows' = rows /\ del' = del
      /\ files' = files \cup {<<t[1], nextFile>>}
      /\ cap'[t].stage = "written" /\ cap'[t].file = nextFile
      /\ cap'[t].old = cap[t].old /\ cap'[t].paths = cap[t].paths
      /\ \A u \in Task : u # t => cap'[u] = cap[u]
  BY DEF WriteFile, TypeOK, Capture
<1>0. /\ \A u \in Task : /\ cap[u].file \in Nat /\ cap[u].old \subseteq Row
                         /\ cap[u].paths \subseteq Nat
      /\ \A n \in Node : del[n] \in Nat
      /\ \A r \in Row : r.file \in Nat
      /\ \A p \in files : p[2] \in Nat
      /\ rows \subseteq Row
  BY DEF TypeOK, Capture, Row
<1>2. Fresh'
  BY <1>0, <1>1 DEF Own, Fresh
<1>3. WrittenIsOwn'
  <2>1. \A u \in Task : Written(u)' /\ u # t => Written(u) /\ cap'[u].file = cap[u].file
    BY <1>1 DEF Written
  <2>2. \A r \in rows : r.file # nextFile
    BY <1>0, <1>1 DEF Own, Fresh
  <2>3. \A u \in Task : Written(u) => cap[u].file < nextFile /\ <<u[1], cap[u].file>> \in files
    BY DEF Own, WrittenIsOwn
  <2>4. ASSUME NEW u \in Task, Written(u)'
        PROVE  /\ <<u[1], cap'[u].file>> \in files'
               /\ cap'[u].file < nextFile'
               /\ \A r \in rows' : r.file # cap'[u].file
               /\ \A w \in Task : Written(w)' /\ w # u => cap'[w].file # cap'[u].file
    <3>1. CASE u = t
      <4>1. /\ cap'[u].file = nextFile /\ <<u[1], nextFile>> \in files'
            /\ nextFile < nextFile' /\ \A r \in rows' : r.file # nextFile
        BY <1>1, <2>2, <3>1
      <4>2. ASSUME NEW w \in Task, Written(w)', w # u PROVE cap'[w].file # nextFile
        <5>1. cap'[w].file = cap[w].file /\ cap[w].file \in Nat /\ cap[w].file < nextFile
          BY <1>0, <2>1, <2>3, <3>1, <4>2
        <5>2. QED
          BY <1>1, <5>1
      <4>3. QED
        BY <4>1, <4>2
    <3>2. CASE u # t
      <4>1. Written(u) /\ cap'[u].file = cap[u].file
        BY <2>1, <2>4, <3>2
      <4>2. \A r \in rows : r.file # cap[u].file
        BY <4>1 DEF Own, WrittenIsOwn
      <4>3. \A w \in Task : Written(w) /\ w # u => cap[w].file # cap[u].file
        BY <4>1 DEF Own, WrittenIsOwn
      <4>4. /\ <<u[1], cap[u].file>> \in files /\ cap[u].file < nextFile
            /\ cap[u].file \in Nat
        BY <1>0, <2>3, <4>1
      <4>5. \A w \in Task : Written(w)' /\ w # u => cap'[w].file # cap'[u].file
        BY <1>1, <2>1, <4>1, <4>3, <4>4
      <4>6. QED
        BY <1>1, <4>1, <4>2, <4>4, <4>5
    <3>3. QED
      BY <3>1, <3>2
  <2>5. QED
    BY <2>4 DEF WrittenIsOwn
<1>4. PrunedIsGone'
  <2>1. ASSUME NEW u \in Task PROVE OldIsOwn(u)' /\ PathsAreGone(u)'
    <3>1. cap'[u].old = cap[u].old /\ cap'[u].paths = cap[u].paths
      BY <1>1
    <3>2. OldIsOwn(u) /\ PathsAreGone(u)
      BY DEF Own, PrunedIsGone
    <3>3. OldIsOwn(u)'
      BY <1>0, <1>1, <3>1, <3>2 DEF OldIsOwn, Written
    <3>4. PathsAreGone(u)'
      BY <1>0, <1>1, <3>1, <3>2 DEF PathsAreGone, Written
    <3>5. QED
      BY <3>3, <3>4
  <2>2. QED
    BY <2>1 DEF PrunedIsGone
<1>5. DeletedIsGone'
  BY <1>0, <1>1 DEF Own, DeletedIsGone, Written
<1>6. RowHasFile'
  BY <1>1 DEF Own, RowHasFile
<1>7. QED
  BY <1>2, <1>3, <1>4, <1>5, <1>6 DEF Own

\* A row is inserted for a file that is there and that only this capture knows.
LEMMA InsertRowStep ==
  ASSUME TypeOK, Own, NEW t \in Task, InsertRow(t) PROVE Own'
<1>1. CASE cap[t].dev \in paired \/ ~ForeignKeys
  <2>0. PICK ts \in Clock :
          rows' = rows \cup {[id |-> nextRow, dev |-> cap[t].dev, created |-> ts,
                             node |-> t[1], file |-> cap[t].file]}
    BY <1>1 DEF InsertRow
  <2> DEFINE new == [id |-> nextRow, dev |-> cap[t].dev, created |-> ts,
                     node |-> t[1], file |-> cap[t].file]
  <2>1. /\ Written(t) /\ rows' = rows \cup {new} /\ files' = files
        /\ nextFile' = nextFile /\ del' = del
        /\ cap'[t].stage = "inserted"
        /\ cap'[t].old = cap[t].old /\ cap'[t].paths = cap[t].paths
        /\ \A u \in Task : u # t => cap'[u] = cap[u]
    BY <1>1, <2>0 DEF InsertRow, TypeOK, Capture, Written
  <2>2. new.file = cap[t].file /\ new.node = t[1]
    OBVIOUS
  <2>3. /\ <<t[1], new.file>> \in files /\ new.file < nextFile
        /\ \A r \in rows : r.file # new.file
        /\ \A u \in Task : Written(u) /\ u # t => cap[u].file # new.file
    BY <2>1, <2>2 DEF Own, WrittenIsOwn
  <2> HIDE DEF new
  <2>4. \A u \in Task : Written(u)' => u # t /\ Written(u) /\ cap'[u] = cap[u]
    BY <2>1 DEF Written
  <2>5. Fresh'
    BY <2>1, <2>3 DEF Own, Fresh
  <2>6. WrittenIsOwn'
    BY <2>1, <2>3, <2>4 DEF Own, WrittenIsOwn
  <2>7. PrunedIsGone'
    <3>1. ASSUME NEW u \in Task PROVE OldIsOwn(u)' /\ PathsAreGone(u)'
      <4>1. OldIsOwn(u) /\ PathsAreGone(u)
        BY DEF Own, PrunedIsGone
      <4>2. OldIsOwn(u)'
        BY <2>1, <2>2, <2>4, <4>1 DEF OldIsOwn
      <4>3. PathsAreGone(u)'
        BY <2>1, <2>2, <2>4, <4>1 DEF PathsAreGone
      <4>4. QED
        BY <4>2, <4>3
    <3>2. QED
      BY <3>1 DEF PrunedIsGone
  <2>8. DeletedIsGone'
    BY <2>1, <2>2, <2>4 DEF Own, DeletedIsGone
  <2>9. RowHasFile'
    BY <2>1, <2>2, <2>3 DEF Own, RowHasFile
  <2>10. QED
    BY <2>5, <2>6, <2>7, <2>8, <2>9 DEF Own
<1>2. CASE ~(cap[t].dev \in paired \/ ~ForeignKeys)
  <2>1. /\ rows' = rows /\ files' = files /\ nextFile' = nextFile /\ del' = del
        /\ cap'[t] = Idle /\ \A u \in Task : u # t => cap'[u] = cap[u]
    BY <1>2 DEF InsertRow, TypeOK
  <2>2. \A r \in rows' : <<r.node, r.file>> \in files'
    BY <2>1 DEF Own, RowHasFile
  <2>3. \A u \in Task : Written(u) => <<u[1], cap[u].file>> \in files'
    BY <2>1 DEF Own, WrittenIsOwn
  <2>4. \A u \in Task : /\ Written(u)' => Written(u) /\ cap'[u].file = cap[u].file
                        /\ cap'[u].old \subseteq cap[u].old
                        /\ cap'[u].paths \subseteq cap[u].paths
    BY <2>1 DEF Idle, Written
  <2>5. QED
    BY <2>1, <2>2, <2>3, <2>4, Shrink
<1>3. QED
  BY <1>1, <1>2

\* The statements of prune_theft_media and the unlinking that follows.
LEMMA PruneStep ==
  ASSUME TypeOK, Own, NEW t \in Task, PruneSelect(t) \/ PruneDelete(t) \/ Unlink(t)
  PROVE  Own'
<1>0. /\ nextFile' = nextFile /\ del' = del /\ rows' \subseteq rows /\ files' \subseteq files
      /\ \A u \in Task : u # t => cap'[u] = cap[u]
      /\ ~Written(t)' /\ ~Written(t)
  <2>1. cap \in [Task -> Capture] /\ cap[t] \in Capture
    BY DEF TypeOK
  <2>2. ASSUME NEW o \in cap[t].old, cap[t].stage = "selected",
               cap' = [cap EXCEPT ![t].old = @ \ {o}, ![t].paths = @ \cup {o.file}]
        PROVE  cap'[t].stage = "selected" /\ \A u \in Task : u # t => cap'[u] = cap[u]
    BY <2>1, <2>2 DEF Capture
  <2>3. ASSUME NEW keep \in Retention, cap[t].stage = "inserted",
               cap' = [cap EXCEPT ![t].stage = "selected",
                                 ![t].old = Excess(cap[t].dev, keep)]
        PROVE  cap'[t].stage = "selected" /\ \A u \in Task : u # t => cap'[u] = cap[u]
    BY <2>1, <2>3 DEF Capture
  <2>4. CASE PruneSelect(t)
    BY <2>3, <2>4 DEF PruneSelect, Written
  <2>5. CASE PruneDelete(t)
    BY <2>2, <2>5 DEF PruneDelete, Written
  <2>6. CASE Unlink(t)
    BY <2>1, <2>6 DEF Unlink, Written, Idle
  <2>7. QED
    BY <2>4, <2>5, <2>6
<1>1. \A u \in Task : Written(u)' => Written(u) /\ cap'[u] = cap[u]
  BY <1>0 DEF Written
<1>2. CASE PruneSelect(t)
  <2>1. /\ rows' = rows /\ files' = files
        /\ cap'[t].old \subseteq rows /\ cap'[t].paths = cap[t].paths
    <3>1. PICK keep \in Retention :
            cap' = [cap EXCEPT ![t].stage = "selected", ![t].old = Excess(cap[t].dev, keep)]
      BY <1>2 DEF PruneSelect
    <3>2. cap[t] \in Capture /\ cap \in [Task -> Capture]
      BY DEF TypeOK
    <3>3. cap'[t] = [cap[t] EXCEPT !.stage = "selected", !.old = Excess(cap[t].dev, keep)]
      BY <3>1, <3>2
    <3>4. cap'[t].old = Excess(cap[t].dev, keep) /\ cap'[t].paths = cap[t].paths
      BY <3>2, <3>3 DEF Capture
    <3>5. QED
      BY <1>2, <3>4 DEF PruneSelect, Excess, RowsOf
  <2>2. Fresh' /\ WrittenIsOwn' /\ DeletedIsGone' /\ RowHasFile'
    BY <1>0, <1>1, <2>1 DEF Own, Fresh, WrittenIsOwn, DeletedIsGone, RowHasFile
  <2>3. ASSUME NEW u \in Task PROVE OldIsOwn(u)' /\ PathsAreGone(u)'
    <3>1. PathsAreGone(u)'
      BY <1>0, <1>1, <2>1 DEF Own, PrunedIsGone, PathsAreGone
    <3>2. CASE u = t
      <4>1. \A o \in rows : /\ o.file < nextFile
                            /\ \A w \in Task : Written(w) => cap[w].file # o.file
                            /\ \A r \in rows : r.file = o.file => r = o
        BY DEF Own, Fresh, WrittenIsOwn
      <4>2. OldIsOwn(t)'
        BY <1>0, <1>1, <2>1, <4>1 DEF OldIsOwn
      <4>3. QED
        BY <3>1, <3>2, <4>2
    <3>3. CASE u # t
      BY <1>0, <1>1, <2>1, <3>1, <3>3 DEF Own, PrunedIsGone, OldIsOwn
    <3>4. QED
      BY <3>2, <3>3
  <2>4. QED
    BY <2>2, <2>3 DEF Own, PrunedIsGone
<1>3. CASE PruneDelete(t)
  <2>1. PICK o \in cap[t].old :
          /\ rows' = rows \ {o}
          /\ cap' = [cap EXCEPT ![t].old = @ \ {o}, ![t].paths = @ \cup {o.file}]
    BY <1>3 DEF PruneDelete
  <2>2. /\ files' = files
        /\ cap'[t].old = cap[t].old \ {o} /\ cap'[t].paths = cap[t].paths \cup {o.file}
    <3>1. cap[t] \in Capture /\ cap \in [Task -> Capture]
      BY DEF TypeOK
    <3>2. cap'[t] = [cap[t] EXCEPT !.old = cap[t].old \ {o},
                                   !.paths = cap[t].paths \cup {o.file}]
      BY <2>1, <3>1
    <3>3. QED
      BY <1>3, <3>1, <3>2 DEF PruneDelete, Capture
  <2>3. Fresh' /\ WrittenIsOwn' /\ DeletedIsGone' /\ RowHasFile'
    BY <1>0, <1>1, <2>2 DEF Own, Fresh, WrittenIsOwn, DeletedIsGone, RowHasFile
  <2>4. /\ o.file < nextFile
        /\ \A u \in Task : Written(u) => cap[u].file # o.file
        /\ \A r \in rows' : r.file # o.file
    BY <2>1 DEF Own, PrunedIsGone, OldIsOwn
  <2>5. ASSUME NEW u \in Task PROVE OldIsOwn(u)' /\ PathsAreGone(u)'
    <3>1. OldIsOwn(u) /\ PathsAreGone(u)
      BY DEF Own, PrunedIsGone
    <3>2. cap'[u].old \subseteq cap[u].old /\ cap'[u].paths \subseteq cap[u].paths \cup {o.file}
      BY <1>0, <2>2
    <3>3. OldIsOwn(u)'
      BY <1>0, <1>1, <3>1, <3>2 DEF OldIsOwn
    <3>4. PathsAreGone(u)'
      BY <1>0, <1>1, <2>4, <3>1, <3>2 DEF PathsAreGone
    <3>5. QED
      BY <3>3, <3>4
  <2>6. QED
    BY <2>3, <2>5 DEF Own, PrunedIsGone
<1>4. CASE Unlink(t)
  <2>1. /\ files' = files \ {<<t[1], f>> : f \in cap[t].paths}
        /\ rows' = rows /\ cap'[t] = Idle
    BY <1>4 DEF Unlink, TypeOK
  <2>2. /\ \A f \in cap[t].paths, r \in rows : r.file # f
        /\ \A f \in cap[t].paths, u \in Task : Written(u) => cap[u].file # f
    BY DEF Own, PrunedIsGone, PathsAreGone
  <2>3. \A r \in rows' : <<r.node, r.file>> \in files'
    BY <2>1, <2>2 DEF Own, RowHasFile
  <2>4. \A u \in Task : Written(u) => <<u[1], cap[u].file>> \in files'
    BY <2>1, <2>2 DEF Own, WrittenIsOwn
  <2>5. \A u \in Task : /\ cap'[u].old \subseteq cap[u].old
                        /\ cap'[u].paths \subseteq cap[u].paths
    BY <1>0, <2>1 DEF Idle
  <2>6. QED
    BY <1>0, <1>1, <2>3, <2>4, <2>5, Shrink
<1>5. QED
  BY <1>2, <1>3, <1>4

\* theft_media_delete: the row first, then its file.
LEMMA MediaStep ==
  ASSUME TypeOK, Own, NEW n \in Node, MediaDelete(n) \/ MediaUnlink(n)
  PROVE  Own'
<1>1. CASE MediaDelete(n)
  <2>1. PICK r \in rows : rows' = rows \ {r} /\ del' = [del EXCEPT ![n] = r.file]
    BY <1>1 DEF MediaDelete
  <2>2. /\ cap' = cap /\ files' = files /\ nextFile' = nextFile
        /\ \A u \in Task : Written(u)' <=> Written(u)
    BY <1>1 DEF MediaDelete, Written
  <2>3. /\ r.file < nextFile
        /\ \A q \in rows' : q.file # r.file
        /\ \A u \in Task : Written(u) => cap[u].file # r.file
    BY <2>1 DEF Own, Fresh, WrittenIsOwn
  <2>4. \A m \in Node : del'[m] \in {del[m], r.file}
    BY <2>1 DEF TypeOK
  <2>5. \A q \in rows' : <<q.node, q.file>> \in files'
    BY <2>1, <2>2 DEF Own, RowHasFile
  <2>6. \A u \in Task : Written(u) => <<u[1], cap[u].file>> \in files'
    BY <2>2 DEF Own, WrittenIsOwn
  <2>7. QED
    BY <2>1, <2>2, <2>3, <2>4, <2>5, <2>6, Shrink
<1>2. CASE MediaUnlink(n)
  <2>1. /\ files' = files \ {<<n, del[n]>>} /\ del[n] # 0
        /\ rows' = rows /\ cap' = cap /\ nextFile' = nextFile
        /\ \A m \in Node : del'[m] \in {0, del[m]}
        /\ \A u \in Task : Written(u)' <=> Written(u)
    BY <1>2 DEF MediaUnlink, TypeOK, Written
  <2>2. \A q \in rows' : <<q.node, q.file>> \in files'
    BY <2>1 DEF Own, RowHasFile, DeletedIsGone
  <2>3. \A u \in Task : Written(u) => <<u[1], cap[u].file>> \in files'
    BY <2>1 DEF Own, WrittenIsOwn, DeletedIsGone
  <2>4. QED
    BY <2>1, <2>2, <2>3, Shrink
<1>3. QED
  BY <1>1, <1>2

\* The initial states satisfy the invariant: nothing is stored.
LEMMA InitIInv == Init => TypeOK /\ Own
<1> SUFFICES ASSUME Init PROVE TypeOK /\ Own
  OBVIOUS
<1>1. TypeOK
  BY IdleType, StoreAssumption DEF Init, TypeOK
<1>2. \A t \in Task : cap[t].stage = "idle" /\ cap[t].old = {} /\ cap[t].paths = {}
  BY DEF Init, Idle
<1>3. Own
  BY <1>2 DEF Init, Own, Fresh, WrittenIsOwn, PrunedIsGone, OldIsOwn,
                PathsAreGone, DeletedIsGone, RowHasFile, Written
<1>4. QED
  BY <1>1, <1>3

\* The invariant holds whatever is captured, pruned, deleted or killed.
LEMMA AlwaysOwn == Spec => [](TypeOK /\ Own)
<1>1. TypeOK /\ Own /\ [Next]_vars => TypeOK' /\ Own'
  <2> SUFFICES ASSUME TypeOK, Own, [Next]_vars PROVE Own'
    BY TypeStep
  <2>1. ASSUME NEW t \in Task, CaptureToStore(t) PROVE Own'
    BY <2>1, QuietStep, WriteFileStep, InsertRowStep, PruneStep DEF CaptureToStore
  <2>2. ASSUME NEW n \in Node, MediaDelete(n) \/ MediaUnlink(n) PROVE Own'
    BY <2>2, MediaStep
  <2>3. CASE \/ \E t \in Task, d \in Dev : StartCapture(t, d)
             \/ \E n \in Node : Crash(n)
             \/ \E d \in Dev, n \in Node \cup {NoNode} : DeviceMoves(d, n)
             \/ \E d \in Dev : DeviceDelete(d)
             \/ UNCHANGED vars
    BY <2>3, QuietStep
  <2>4. QED
    BY <2>1, <2>2, <2>3 DEF Next
<1>2. QED
  BY <1>1, InitIInv, PTL DEF Spec

\* Captures, files and rows stay in their types.
THEOREM StoreTypes == Spec => []TypeOK
BY AlwaysOwn, PTL

\* However many nodes capture, prune and delete at once and wherever they die,
\* every theft_media row has its file where the capture was made.
THEOREM StoreSafe == Spec => []RowHasFile
<1>1. Own => RowHasFile
  BY DEF Own
<1>2. QED
  BY <1>1, AlwaysOwn, PTL

---------------------------------------------------------------------------
(* Retention                                                               *)

\* theft_media's ids are never used twice.
IdsDiffer ==
  /\ \A r \in rows : r.id < nextRow
  /\ \A r, q \in rows : r.id = q.id => r = q

\* The rows of a device that no pruning under way has selected.
Kept(d) ==
  {r \in RowsOf(d) :
     \A t \in Task : cap[t].dev = d /\ cap[t].stage = "selected" => r \notin cap[t].old}

\* Every INSERT for the device was followed by a SELECT.
Selected(d) == d \notin dirty /\ \A t \in Task : cap[t].dev = d => cap[t].stage # "inserted"

KeptIsBounded ==
  /\ IsFiniteSet(rows)
  /\ \A d \in Dev : Selected(d) => Cardinality(Kept(d)) <= limit[d]

\* What is not in excess is not too much: each row that stays has its own rank
\* below the limit in the order of the SELECT.
LEMMA ExcessLeavesEnough ==
  ASSUME TypeOK, IdsDiffer, IsFiniteSet(rows), NEW d \in Dev, NEW keep \in Nat \ {0}
  PROVE  Cardinality(RowsOf(d) \ Excess(d, keep)) <= keep
<1> DEFINE R == RowsOf(d)
           K == R \ Excess(d, keep)
           N(r) == {q \in R : Newer(q, r)}
           f == [r \in K |-> Cardinality(N(r))]
           T == 0..(keep - 1)
<1>1. IsFiniteSet(R) /\ IsFiniteSet(K) /\ R \subseteq Row
  BY FS_Subset DEF RowsOf, TypeOK
<1>2. \A r \in R : IsFiniteSet(N(r)) /\ Cardinality(N(r)) \in Nat
  BY <1>1, FS_Subset, FS_CardinalityType
<1>3. \A r \in K : Cardinality(N(r)) < keep
  BY <1>2 DEF Excess
<1>4. f \in [K -> T]
  BY <1>2, <1>3
<1>5. IsFiniteSet(T) /\ Cardinality(T) = keep /\ Cardinality(K) \in Nat
  <2>1. 0 \in Int /\ keep - 1 \in Int /\ ~(0 > keep - 1)
        /\ (keep - 1) - 0 + 1 = keep
    OBVIOUS
  <2>2. IsFiniteSet(T) /\ Cardinality(T) = keep
    BY <2>1, FS_Interval
  <2>3. Cardinality(K) \in Nat
    <3> HIDE DEF K
    <3>1. QED
      BY <1>1, FS_CardinalityType
  <2>4. QED
    BY <2>2, <2>3
<1>6. \A r \in R : r.created \in Nat /\ r.id \in Nat
  BY <1>1, StoreAssumption DEF Row
<1>7. ASSUME NEW r \in R, NEW q \in R, Newer(q, r)
      PROVE  Cardinality(N(q)) < Cardinality(N(r))
  <2>1. N(q) \subseteq N(r) /\ q \in N(r) /\ q \notin N(q)
    BY <1>6, <1>7 DEF Newer
  <2>2. Cardinality(N(q)) <= Cardinality(N(r)) /\ Cardinality(N(q)) # Cardinality(N(r))
    <3> HIDE DEF N
    <3>1. N(q) \in SUBSET N(r) /\ N(r) # N(q)
      BY <2>1
    <3>2. QED
      BY <1>2, <3>1, FS_Subset
  <2> HIDE DEF N
  <2>3. QED
    BY <1>2, <2>2
<1>8. \A r, q \in R : r # q => Newer(q, r) \/ Newer(r, q)
  BY <1>6 DEF Newer, IdsDiffer, RowsOf
<1>9. ASSUME NEW r \in K, NEW q \in K, r # q PROVE f[r] # f[q]
  <2>1. f[r] = Cardinality(N(r)) /\ f[q] = Cardinality(N(q))
    OBVIOUS
  <2> HIDE DEF f, N
  <2>2. QED
    BY <1>2, <1>7, <1>8, <1>9, <2>1
<1> HIDE DEF f, K, T
<1>10. ~(Cardinality(T) < Cardinality(K))
  BY <1>1, <1>4, <1>5, <1>9, FS_PigeonHole
<1>11. QED
  BY <1>5, <1>10 DEF K

\* A step that keeps no more of the device's rows keeps the bound.
LEMMA KeepsLess ==
  ASSUME TypeOK, KeptIsBounded, NEW d \in Dev, Selected(d), Kept(d)' \subseteq Kept(d),
         limit'[d] = limit[d]
  PROVE  Cardinality(Kept(d)') <= limit'[d]
<1>1. IsFiniteSet(Kept(d))
  BY FS_Subset DEF KeptIsBounded, Kept, RowsOf
<1>2. /\ IsFiniteSet(Kept(d)') /\ Cardinality(Kept(d)') <= Cardinality(Kept(d))
      /\ Cardinality(Kept(d)') \in Nat /\ Cardinality(Kept(d)) \in Nat
  BY <1>1, FS_Subset, FS_CardinalityType
<1>3. limit[d] \in Nat /\ Cardinality(Kept(d)) <= limit[d]
  BY DEF KeptIsBounded, TypeOK
<1>4. QED
  BY <1>2, <1>3

\* A step of the captures that adds no row and selects none.
LEMMA QuietKeeps ==
  ASSUME TypeOK, IdsDiffer, KeptIsBounded, rows' \subseteq rows, nextRow' = nextRow,
         limit' = limit, \A d \in Dev : Selected(d)' => Selected(d) /\ Kept(d)' \subseteq Kept(d)
  PROVE  IdsDiffer' /\ KeptIsBounded'
<1>1. IdsDiffer'
  BY DEF IdsDiffer
<1>2. IsFiniteSet(rows')
  BY FS_Subset DEF KeptIsBounded
<1>3. \A d \in Dev : Selected(d)' => Cardinality(Kept(d)') <= limit'[d]
  BY KeepsLess
<1>4. QED
  BY <1>1, <1>2, <1>3 DEF KeptIsBounded

\* A step of captures that are not between INSERT and DELETE, before or after, or
\* that die there and leave their device dirty, selects nothing and forgets nothing.
LEMMA StageKeeps ==
  ASSUME TypeOK, IdsDiffer, KeptIsBounded, rows' \subseteq rows, nextRow' = nextRow,
         limit' = limit, \A d \in Dev : d \notin dirty' => d \notin dirty,
         \A u \in Task, d \in Dev : cap[u].dev = d /\ Unpruned(u) =>
            \/ d \in dirty'
            \/ cap'[u].dev = d /\ cap'[u].stage = cap[u].stage /\ cap'[u].old = cap[u].old
  PROVE  IdsDiffer' /\ KeptIsBounded'
<1> SUFFICES ASSUME NEW d \in Dev, Selected(d)'
             PROVE  Selected(d) /\ Kept(d)' \subseteq Kept(d)
  BY QuietKeeps
<1>1. d \notin dirty' /\ d \notin dirty
  BY DEF Selected
<1>2. \A u \in Task : cap[u].dev = d /\ Unpruned(u) =>
        cap'[u].dev = d /\ cap'[u].stage = cap[u].stage /\ cap'[u].old = cap[u].old
  BY <1>1
<1>3. Selected(d)
  BY <1>1, <1>2 DEF Selected, Unpruned
<1>4. Kept(d)' \subseteq Kept(d)
  BY <1>2 DEF Kept, RowsOf, Unpruned
<1>5. QED
  BY <1>3, <1>4

\* The row is inserted: until its capture has selected, nothing is promised for
\* its device, and the rows of others are the same.
LEMMA InsertKeeps ==
  ASSUME TypeOK, IdsDiffer, KeptIsBounded, NEW t \in Task, InsertRow(t)
  PROVE  IdsDiffer' /\ KeptIsBounded'
<1>1. CASE cap[t].dev \in paired \/ ~ForeignKeys
  <2>1. PICK ts \in Clock :
          rows' = rows \cup {[id |-> nextRow, dev |-> cap[t].dev, created |-> ts,
                              node |-> t[1], file |-> cap[t].file]}
    BY <1>1 DEF InsertRow
  <2>2. PICK r : rows' = rows \cup {r} /\ r.id = nextRow /\ r.dev = cap[t].dev
    <3> DEFINE q == [id |-> nextRow, dev |-> cap[t].dev, created |-> ts,
                     node |-> t[1], file |-> cap[t].file]
    <3>1. rows' = rows \cup {q} /\ q.id = nextRow /\ q.dev = cap[t].dev
      BY <2>1
    <3> HIDE DEF q
    <3>2. QED
      BY <3>1
  <2>3. /\ nextRow' = nextRow + 1 /\ nextRow \in Nat /\ dirty' = dirty /\ limit' = limit
        /\ cap'[t].stage = "inserted" /\ cap'[t].dev = cap[t].dev
        /\ cap[t].stage = "written"
        /\ \A u \in Task \ {t} : cap'[u] = cap[u]
    BY <1>1 DEF InsertRow, TypeOK, Capture
  <2>4. IdsDiffer'
    <3>1. \A q \in rows : q.id \in Nat /\ q.id < nextRow
      BY DEF IdsDiffer, TypeOK, Row
    <3>2. QED
      BY <2>2, <2>3, <3>1 DEF IdsDiffer
  <2>5. IsFiniteSet(rows')
    BY <2>2, FS_AddElement DEF KeptIsBounded
  <2>6. ASSUME NEW d \in Dev, Selected(d)' PROVE Cardinality(Kept(d)') <= limit'[d]
    <3>1. d # cap[t].dev
      BY <2>3, <2>6 DEF Selected
    <3>2. Selected(d)
      BY <2>3, <2>6, <3>1 DEF Selected
    <3>3. Kept(d)' \subseteq Kept(d)
      BY <2>2, <2>3, <3>1 DEF Kept, RowsOf
    <3>4. QED
      BY <2>3, <3>2, <3>3, KeepsLess
  <2>7. QED
    BY <2>4, <2>5, <2>6 DEF KeptIsBounded
<1>2. CASE ~(cap[t].dev \in paired \/ ~ForeignKeys)
  <2>1. /\ rows' = rows /\ nextRow' = nextRow /\ dirty' = dirty /\ limit' = limit
        /\ cap[t].stage = "written" /\ \A u \in Task \ {t} : cap'[u] = cap[u]
    BY <1>2 DEF InsertRow, TypeOK
  <2>2. QED
    BY <2>1, StageKeeps DEF Unpruned
<1>3. QED
  BY <1>1, <1>2

\* The SELECT: what it does not take is not too much, whatever else is selected.
LEMMA SelectKeeps ==
  ASSUME TypeOK, IdsDiffer, KeptIsBounded, NEW t \in Task, PruneSelect(t)
  PROVE  IdsDiffer' /\ KeptIsBounded'
<1>0. PICK keep \in Retention :
        /\ cap' = [cap EXCEPT ![t].stage = "selected", ![t].old = Excess(cap[t].dev, keep)]
        /\ limit' = [limit EXCEPT ![cap[t].dev] = keep]
  BY DEF PruneSelect
<1>1. /\ rows' = rows /\ nextRow' = nextRow /\ dirty' = dirty \ {cap[t].dev}
      /\ cap[t].stage = "inserted"
      /\ cap'[t].stage = "selected" /\ cap'[t].dev = cap[t].dev
      /\ cap'[t].old = Excess(cap[t].dev, keep)
      /\ \A u \in Task \ {t} : cap'[u] = cap[u]
  BY <1>0 DEF PruneSelect, TypeOK, Capture
<1>5. \A d \in Dev : limit'[d] = IF d = cap[t].dev THEN keep ELSE limit[d]
  BY <1>0 DEF TypeOK
<1>2. IdsDiffer' /\ IsFiniteSet(rows) /\ IsFiniteSet(rows')
  BY <1>1 DEF IdsDiffer, KeptIsBounded
<1>3. ASSUME NEW d \in Dev, Selected(d)' PROVE Cardinality(Kept(d)') <= limit'[d]
  <2>1. CASE d = cap[t].dev
    <3>1. Kept(d)' \subseteq RowsOf(d) \ Excess(d, keep)
      BY <1>1, <2>1 DEF Kept, RowsOf
    <3>2. IsFiniteSet(RowsOf(d) \ Excess(d, keep))
      BY <1>2, FS_Subset DEF RowsOf
    <3>3. /\ Cardinality(Kept(d)') <= Cardinality(RowsOf(d) \ Excess(d, keep))
          /\ Cardinality(Kept(d)') \in Nat /\ Cardinality(RowsOf(d) \ Excess(d, keep)) \in Nat
      BY <3>1, <3>2, FS_Subset, FS_CardinalityType
    <3>4. Cardinality(RowsOf(d) \ Excess(d, keep)) <= keep /\ keep \in Nat
      BY <1>2, ExcessLeavesEnough, StoreAssumption
    <3>5. QED
      BY <1>5, <2>1, <3>3, <3>4
  <2>2. CASE d # cap[t].dev
    <3>1. Selected(d)
      BY <1>1, <1>3, <2>2 DEF Selected
    <3>2. Kept(d)' \subseteq Kept(d)
      BY <1>1, <2>2 DEF Kept, RowsOf
    <3>3. limit'[d] = limit[d]
      BY <1>5, <2>2
    <3>4. QED
      BY <3>1, <3>2, <3>3, KeepsLess
  <2>3. QED
    BY <2>1, <2>2
<1>4. QED
  BY <1>2, <1>3 DEF KeptIsBounded

\* A DELETE takes a selected row, wherever else it is selected.
LEMMA DeleteKeeps ==
  ASSUME TypeOK, IdsDiffer, KeptIsBounded, NEW t \in Task, PruneDelete(t)
  PROVE  IdsDiffer' /\ KeptIsBounded'
<1>0. PICK r \in cap[t].old :
        /\ rows' = rows \ {r}
        /\ cap' = [cap EXCEPT ![t].old = @ \ {r}, ![t].paths = @ \cup {r.file}]
  BY DEF PruneDelete
<1>1. /\ nextRow' = nextRow /\ dirty' = dirty /\ limit' = limit
      /\ cap'[t].stage = cap[t].stage /\ cap'[t].dev = cap[t].dev
      /\ cap'[t].old = cap[t].old \ {r}
      /\ \A u \in Task \ {t} : cap'[u] = cap[u]
  BY <1>0 DEF PruneDelete, TypeOK, Capture
<1>2. ASSUME NEW d \in Dev, Selected(d)'
      PROVE  Selected(d) /\ Kept(d)' \subseteq Kept(d)
  <2>1. Selected(d)
    BY <1>1, <1>2 DEF Selected
  <2>2. Kept(d)' \subseteq Kept(d)
    <3>1. ASSUME NEW q \in rows', NEW u \in Task, q \in cap[u].old PROVE q \in cap'[u].old
      BY <1>0, <1>1, <3>1
    <3>2. \A u \in Task : cap'[u].stage = cap[u].stage /\ cap'[u].dev = cap[u].dev
      BY <1>1
    <3>3. QED
      BY <1>0, <3>1, <3>2 DEF Kept, RowsOf
  <2>3. QED
    BY <2>1, <2>2
<1>3. QED
  BY <1>0, <1>1, <1>2, QuietKeeps

\* Every step of every node keeps the bound.
LEMMA KeptStep == TypeOK /\ IdsDiffer /\ KeptIsBounded /\ [Next]_vars
                    => IdsDiffer' /\ KeptIsBounded'
<1> SUFFICES ASSUME TypeOK, IdsDiffer, KeptIsBounded, [Next]_vars
             PROVE  IdsDiffer' /\ KeptIsBounded'
  OBVIOUS
<1>1. ASSUME NEW t \in Task, CaptureToStore(t) PROVE IdsDiffer' /\ KeptIsBounded'
  <2>1. CASE CaptureFails(t) \/ Unlink(t)
    <3>1. /\ rows' = rows /\ nextRow' = nextRow /\ dirty' = dirty /\ limit' = limit
          /\ ~Unpruned(t)
          /\ \A u \in Task \ {t} : cap'[u] = cap[u]
      BY <2>1 DEF CaptureFails, Unlink, TypeOK, Unpruned
    <3>2. QED
      BY <3>1, StageKeeps
  <2>2. CASE WriteFile(t)
    <3>1. /\ rows' = rows /\ nextRow' = nextRow /\ dirty' = dirty /\ limit' = limit
          /\ cap[t].stage = "streaming" /\ \A u \in Task \ {t} : cap'[u] = cap[u]
      BY <2>2 DEF WriteFile, TypeOK
    <3>2. QED
      BY <3>1, StageKeeps DEF Unpruned
  <2>3. CASE StoreFails(t)
    <3>1. /\ rows' = rows /\ nextRow' = nextRow /\ dirty \subseteq dirty' /\ limit' = limit
          /\ Unpruned(t) => cap[t].dev \in dirty'
          /\ \A u \in Task \ {t} : cap'[u] = cap[u]
      BY <2>3 DEF StoreFails, TypeOK, Unpruned
    <3>2. QED
      BY <3>1, StageKeeps
  <2>4. QED
    BY <1>1, <2>1, <2>2, <2>3, InsertKeeps, SelectKeeps, DeleteKeeps DEF CaptureToStore
<1>2. ASSUME NEW t \in Task, NEW d \in Dev, StartCapture(t, d)
      PROVE  IdsDiffer' /\ KeptIsBounded'
  <2>1. /\ rows' = rows /\ nextRow' = nextRow /\ dirty' = dirty /\ limit' = limit
        /\ cap[t].stage = "idle" /\ \A u \in Task \ {t} : cap'[u] = cap[u]
    BY <1>2 DEF StartCapture, TypeOK
  <2>2. QED
    BY <2>1, StageKeeps DEF Unpruned
<1>3. ASSUME NEW n \in Node, MediaDelete(n) \/ MediaUnlink(n)
      PROVE  IdsDiffer' /\ KeptIsBounded'
  <2>1. rows' \subseteq rows /\ nextRow' = nextRow /\ dirty' = dirty /\ limit' = limit /\ cap' = cap
    BY <1>3 DEF MediaDelete, MediaUnlink
  <2>2. QED
    BY <2>1, StageKeeps
<1>4. ASSUME NEW n \in Node, Crash(n) PROVE IdsDiffer' /\ KeptIsBounded'
  <2>1. /\ rows' = rows /\ nextRow' = nextRow /\ dirty \subseteq dirty' /\ limit' = limit
        /\ \A u \in Task : u[1] = n /\ Unpruned(u) => cap[u].dev \in dirty'
        /\ \A u \in Task : u[1] # n => cap'[u] = cap[u]
    BY <1>4 DEF Crash, Unpruned
  <2>2. QED
    BY <2>1, StageKeeps
<1>5. ASSUME NEW d \in Dev, NEW n \in Node \cup {NoNode}, DeviceMoves(d, n)
      PROVE  IdsDiffer' /\ KeptIsBounded'
  <2>1. /\ rows' = rows /\ nextRow' = nextRow /\ dirty' = dirty /\ limit' = limit
        /\ \A u \in Task : /\ cap'[u].dev = cap[u].dev /\ cap'[u].stage = cap[u].stage
                           /\ cap'[u].old = cap[u].old
    BY <1>5 DEF DeviceMoves, TypeOK, Capture
  <2>2. QED
    BY <2>1, StageKeeps
<1>6. ASSUME NEW d \in Dev, DeviceDelete(d) PROVE IdsDiffer' /\ KeptIsBounded'
  <2>1. rows' \subseteq rows /\ nextRow' = nextRow /\ dirty' = dirty /\ limit' = limit /\ cap' = cap
    BY <1>6 DEF DeviceDelete
  <2>2. QED
    BY <2>1, StageKeeps
<1>7. CASE UNCHANGED vars
  BY <1>7, StageKeeps DEF vars
<1>8. QED
  BY <1>1, <1>2, <1>3, <1>4, <1>5, <1>6, <1>7 DEF Next

\* When every capture of a device has pruned, it has at most the rows its last
\* pruning was to keep, though nodes prune at the same time, from selections that
\* are out of date and with limits of their own.
THEOREM RetentionIsKept == Spec => []RetentionHolds
<1>1. Init => IdsDiffer /\ KeptIsBounded
  <2> SUFFICES ASSUME Init PROVE IdsDiffer /\ KeptIsBounded
    OBVIOUS
  <2>1. rows = {} /\ \A d : Kept(d) = {}
    BY DEF Init, Kept, RowsOf
  <2>2. QED
    BY <2>1, FS_EmptySet DEF IdsDiffer, KeptIsBounded, Init
<1>2. KeptIsBounded => RetentionHolds
  <2> SUFFICES ASSUME KeptIsBounded, NEW d \in Dev, d \notin dirty,
                      \A t \in Task : cap[t].dev = d => ~Unpruned(t)
               PROVE  Cardinality(RowsOf(d)) <= limit[d]
    BY DEF RetentionHolds
  <2>1. Selected(d) /\ Kept(d) = RowsOf(d)
    BY DEF Selected, Kept, Unpruned
  <2>2. QED
    BY <2>1 DEF KeptIsBounded
<1>3. QED
  BY <1>1, <1>2, KeptStep, StoreTypes, PTL DEF Spec

=============================================================================
