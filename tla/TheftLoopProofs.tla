--------------------------- MODULE TheftLoopProofs ---------------------------
(***************************************************************************)
(* Disarming: what it leaves behind, for any number of nodes and devices,  *)
(* any interval and any time.                                              *)
(***************************************************************************)
EXTENDS TheftLoop, TLAPS

Excused(d) == d \in armed \/ d \in held \/ \E q \in asks : q.dev = d /\ ~q.on

\* A lock is taken, and is going to be taken, only of a device that is armed,
\* that was disarmed under it, or whose release is on its way.
TakingIsExplained ==
  /\ \A q \in asks : q.on => Excused(q.dev)
  /\ \A n \in Node : \A e \in list[n] :
       e.opts.keepawake /\ e.dev \in Lockable => Excused(e.dev)
  /\ \A d \in awake : Excused(d)

\* A device is on a list once, and while it is on it after a disarm the pass has
\* not started its round.
ListIsUnspent ==
  \A n \in Node :
    /\ \A e, f \in list[n] : e.dev = f.dev => e = f
    /\ \A e \in list[n] : late[n][e.dev] = 0
    /\ \A d \in armed : late[n][d] = 0

IInv == TypeOK /\ TakingIsExplained /\ ListIsUnspent /\ DisarmSettles

\* What a step does to the counts of late rounds.
LEMMA SettleKept ==
  ASSUME late \in [Node -> [Dev -> Nat]], late' \in [Node -> [Dev -> Nat]],
         DisarmSettles,
         \A n \in Node, d \in Dev :
           late'[n][d] = 0 \/ late'[n][d] = 1 \/ late'[n][d] = late[n][d]
  PROVE  DisarmSettles'
  BY DEF DisarmSettles

\* The first state satisfies the invariant.
LEMMA InitIInv == Init => IInv
<1> SUFFICES ASSUME Init PROVE IInv
  OBVIOUS
<1>1. TypeOK
  BY LoopAssumption DEF Init, TypeOK, NoOpts, Opts
<1>2. QED
  BY <1>1 DEF Init, IInv, TakingIsExplained, ListIsUnspent, DisarmSettles

\* Sending a request for a wake lock.
LEMMA KeepAwakeStep ==
  ASSUME asks \subseteq Ask, NEW n \in Node, NEW d \in Dev, NEW on \in BOOLEAN,
         KeepAwake(n, d, on)
  PROVE  /\ asks' \subseteq Ask /\ asks \subseteq asks'
         /\ \A q \in asks' : q \in asks \/ (q.dev = d /\ q.on = on /\ Reaches(n, d))
         /\ Reaches(n, d) => \E q \in asks' : q.dev = d /\ q.on = on
<1>1. CASE Reaches(n, d)
  <2>1. PICK r \in Req : asks' = asks \cup {[req |-> r, dev |-> d, on |-> on]}
    BY <1>1 DEF KeepAwake
  <2>2. [req |-> r, dev |-> d, on |-> on] \in Ask
    BY DEF Ask
  <2>3. QED
    BY <1>1, <2>1, <2>2
<1>2. CASE ~Reaches(n, d)
  BY <1>2 DEF KeepAwake
<1>3. QED
  BY <1>1, <1>2

\* Arming.
LEMMA ArmStep ==
  ASSUME IInv, NEW n \in Node, NEW d \in Dev, Arm(n, d) PROVE IInv'
<1>0. /\ TypeOK /\ TakingIsExplained /\ ListIsUnspent /\ DisarmSettles
      /\ asks \subseteq Ask /\ armed \subseteq Dev /\ list \in [Node -> SUBSET Entry]
  BY DEF IInv, TypeOK
<1>1. /\ armed' = armed \cup {d} /\ held' = held /\ awake' = awake /\ list' = list
  BY DEF Arm, loopVars
<1>2. /\ late' \in [Node -> [Dev -> Nat]]
      /\ \A m \in Node, c \in Dev : late'[m][c] = 0 \/ late'[m][c] = late[m][c]
      /\ \A m \in Node : late'[m][d] = 0
  BY DEF Arm, IInv, TypeOK
<1>3. /\ asks' \subseteq Ask /\ asks \subseteq asks'
      /\ \A q \in asks' : q \in asks \/ q.dev = d
  BY <1>0, KeepAwakeStep DEF Arm
<1>4. TypeOK'
  BY <1>0, <1>1, <1>2, <1>3 DEF Arm, TypeOK, loopVars
<1>5. \A c : Excused(c) \/ c = d => Excused(c)'
  BY <1>1, <1>3 DEF Excused
<1>6. TakingIsExplained'
  BY <1>0, <1>1, <1>3, <1>5 DEF TakingIsExplained
<1>7. ListIsUnspent'
  BY <1>0, <1>1, <1>2 DEF ListIsUnspent, Entry
<1>8. DisarmSettles'
  BY <1>0, <1>2, SettleKept DEF TypeOK
<1>9. QED
  BY <1>4, <1>6, <1>7, <1>8 DEF IInv

\* Disarming: what may keep the lock is noted, or its release is on its way.
LEMMA DisarmStep ==
  ASSUME IInv, NEW n \in Node, NEW d \in Dev, Disarm(n, d) PROVE IInv'
<1>0. /\ TypeOK /\ TakingIsExplained /\ ListIsUnspent /\ DisarmSettles
      /\ asks \subseteq Ask /\ armed \subseteq Dev /\ list \in [Node -> SUBSET Entry]
  BY DEF IInv, TypeOK
<1>1. armed' = armed \ {d} /\ awake' = awake /\ list' = list
  BY DEF Disarm, loopVars
<1>2. /\ late' \in [Node -> [Dev -> Nat]]
      /\ \A m \in Node, c \in Dev : late'[m][c] = 0 \/ late'[m][c] = late[m][c]
      /\ \A m \in Node : late'[m][d] = 0
  BY DEF Disarm, IInv, TypeOK
<1>3. /\ asks' \subseteq Ask /\ asks \subseteq asks'
      /\ \A q \in asks' : q \in asks \/ (q.dev = d /\ ~q.on /\ Reaches(n, d))
      /\ Reaches(n, d) => \E q \in asks' : q.dev = d /\ ~q.on
  BY <1>0, KeepAwakeStep DEF Disarm
<1>4. /\ held' \subseteq held \cup {d} /\ held \subseteq held' \cup {d}
      /\ ~Reaches(n, d) /\ (d \in awake \/ Pending(d)) => d \in held'
  BY DEF Disarm, Settle
<1>5. TypeOK'
  <2>1. opts' \in [Dev -> Opts]
    BY <1>0, LoopAssumption DEF Disarm, NoOpts, Opts, TypeOK
  <2>2. QED
    BY <1>0, <1>1, <1>2, <1>3, <1>4, <2>1 DEF Disarm, TypeOK, loopVars
<1>6. \A c : Excused(c) /\ c # d => Excused(c)'
  BY <1>1, <1>3, <1>4 DEF Excused
<1>7. d \in awake \/ Pending(d) => Excused(d)'
  BY <1>3, <1>4 DEF Excused
<1>8. TakingIsExplained'
  <2>1. \A q \in asks' : q.on => Excused(q.dev)'
    BY <1>0, <1>3, <1>6, <1>7 DEF TakingIsExplained, Pending
  <2>2. \A m \in Node : \A e \in list[m] :
          e.opts.keepawake /\ e.dev \in Lockable => Excused(e.dev)'
    BY <1>0, <1>6, <1>7 DEF TakingIsExplained, Pending
  <2>3. \A c \in awake : Excused(c)'
    BY <1>0, <1>6, <1>7 DEF TakingIsExplained
  <2>4. QED
    BY <1>1, <2>1, <2>2, <2>3 DEF TakingIsExplained
<1>9. ListIsUnspent'
  BY <1>0, <1>1, <1>2 DEF ListIsUnspent, Entry
<1>10. DisarmSettles'
  BY <1>0, <1>2, SettleKept DEF TypeOK
<1>11. QED
  BY <1>5, <1>8, <1>9, <1>10 DEF IInv

\* A request ends: a release that failed, or that something will undo, is noted.
LEMMA KeepAwakeDoneStep ==
  ASSUME IInv, NEW q \in asks, KeepAwakeDone(q) PROVE IInv'
<1> DEFINE d == q.dev
<1>0. /\ TypeOK /\ TakingIsExplained /\ ListIsUnspent /\ DisarmSettles
      /\ asks \subseteq Ask /\ d \in Dev
  BY DEF IInv, TypeOK, Ask
<1>1. /\ asks' = asks \ {q} /\ armed' = armed /\ list' = list /\ late' = late
      /\ awake' \subseteq awake \cup {d}
      /\ ~q.on => awake' \subseteq awake
  BY DEF KeepAwakeDone, stateVars, loopVars
<1>2. /\ held' \subseteq held \cup {d} /\ held \subseteq held' \cup {d}
      /\ q.on => held' = held
      /\ ~q.on /\ (d \in awake' \/ Pending(d)) => d \in held'
  BY DEF KeepAwakeDone, Settle
<1>3. TypeOK'
  BY <1>0, <1>1, <1>2 DEF KeepAwakeDone, TypeOK, stateVars, loopVars
<1> HIDE DEF d
<1>4. ASSUME NEW c, Excused(c), c # d \/ q.on PROVE Excused(c)'
  BY <1>1, <1>2, <1>4 DEF Excused, d
<1>5. ~q.on /\ (d \in awake' \/ Pending(d)) => Excused(d)'
  BY <1>2 DEF Excused
<1>6. TakingIsExplained'
  <2>1. ASSUME NEW p \in asks', p.on PROVE Excused(p.dev)'
    <3>1. p \in asks /\ Excused(p.dev)
      BY <1>0, <1>1, <2>1 DEF TakingIsExplained
    <3>2. p.dev = d => Pending(d)
      BY <2>1, <3>1 DEF Pending
    <3>3. QED
      BY <1>4, <1>5, <3>1, <3>2
  <2>2. ASSUME NEW m \in Node, NEW e \in list[m], e.opts.keepawake, e.dev \in Lockable
        PROVE  Excused(e.dev)'
    <3>1. Excused(e.dev)
      BY <1>0, <2>2 DEF TakingIsExplained
    <3>2. e.dev = d => Pending(d)
      BY <2>2 DEF Pending
    <3>3. QED
      BY <1>4, <1>5, <3>1, <3>2
  <2>3. ASSUME NEW c \in awake' PROVE Excused(c)'
    <3>1. Excused(c)
      BY <1>0, <1>1 DEF TakingIsExplained, d
    <3>2. QED
      BY <1>4, <1>5, <3>1
  <2>4. QED
    BY <1>1, <2>1, <2>2, <2>3 DEF TakingIsExplained
<1>7. QED
  BY <1>0, <1>1, <1>3, <1>6 DEF IInv, ListIsUnspent, DisarmSettles

\* A pass begins with the armed devices.
LEMMA LoopStartStep ==
  ASSUME IInv, NEW n \in Node, LoopStart(n) PROVE IInv'
<1>0. TypeOK /\ TakingIsExplained /\ ListIsUnspent /\ DisarmSettles
  BY DEF IInv
<1> DEFINE new == {[dev |-> d, opts |-> opts[d], last |-> last_run[d]] : d \in armed}
<1>1. /\ new \in SUBSET Entry /\ \A e \in new : e.dev \in armed
      /\ \A e, f \in new : e.dev = f.dev => e = f
  BY <1>0 DEF Entry, TypeOK
<1> HIDE DEF new
<1>2. /\ list' = [list EXCEPT ![n] = new] /\ list \in [Node -> SUBSET Entry]
      /\ UNCHANGED <<armed, held, late, asks, awake>>
  BY <1>0 DEF LoopStart, TypeOK, new, stateVars, history
<1>3. TypeOK'
  BY <1>0, <1>1, <1>2 DEF LoopStart, TypeOK, stateVars, history
<1>4. \A c : Excused(c)' <=> Excused(c)
  BY <1>2 DEF Excused
<1>5. \A c \in armed : Excused(c)
  BY DEF Excused
<1>6. TakingIsExplained'
  BY <1>0, <1>1, <1>2, <1>4, <1>5 DEF TakingIsExplained
<1>7. ListIsUnspent'
  BY <1>0, <1>1, <1>2 DEF ListIsUnspent
<1>8. QED
  BY <1>0, <1>2, <1>3, <1>6, <1>7 DEF IInv, DisarmSettles

\* A round begins: its entry is gone, and with it the only one of its device.
LEMMA LoopRoundStep ==
  ASSUME IInv, NEW n \in Node, LoopRound(n) PROVE IInv'
<1>0. TypeOK /\ TakingIsExplained /\ ListIsUnspent /\ DisarmSettles
  BY DEF IInv
<1>1. PICK e \in list[n] :
        /\ list' = [list EXCEPT ![n] = @ \ {e}]
        /\ UpdateLastRun(n, e.dev)
        /\ todo' = [todo EXCEPT ![n] = e.opts.kinds + IF e.opts.keepawake THEN 1 ELSE 0]
        /\ loop' = [loop EXCEPT ![n] = IF todo'[n] = 0 THEN "next" ELSE "waiting"]
        /\ IF e.opts.keepawake THEN KeepAwake(n, e.dev, TRUE) ELSE UNCHANGED asks
        /\ late' = [late EXCEPT ![n][e.dev] = IF e.dev \in armed THEN 0 ELSE @ + 1]
        /\ begun' = [begun EXCEPT ![e.dev] = <<0, @[1], @[2]>>]
  BY DEF LoopRound
<1>2. e.dev \in Dev /\ e.opts.kinds \in Nat /\ late[n][e.dev] = 0
  BY <1>0, LoopAssumption DEF TypeOK, Entry, Opts, ListIsUnspent
<1>3. UNCHANGED <<time, at, armed, opts, slept, now, awake, held>>
  BY DEF LoopRound
<1>4. /\ late' \in [Node -> [Dev -> Nat]]
      /\ late'[n][e.dev] = IF e.dev \in armed THEN 0 ELSE 1
      /\ \A m \in Node, c \in Dev : m # n \/ c # e.dev => late'[m][c] = late[m][c]
  BY <1>0, <1>1, <1>2 DEF TypeOK
<1>5. /\ asks' \subseteq Ask /\ asks \subseteq asks'
      /\ \A q \in asks' : q \in asks \/ (q.dev = e.dev /\ e.opts.keepawake /\ e.dev \in Lockable)
  <2>1. CASE e.opts.keepawake
    <3>1. KeepAwake(n, e.dev, TRUE) /\ asks \subseteq Ask
      BY <1>0, <1>1, <2>1 DEF TypeOK
    <3>2. /\ asks' \subseteq Ask /\ asks \subseteq asks'
          /\ \A q \in asks' : q \in asks \/ (q.dev = e.dev /\ Reaches(n, e.dev))
      BY <1>2, <3>1, KeepAwakeStep
    <3>3. QED
      BY <2>1, <3>2 DEF Reaches
  <2>2. CASE ~e.opts.keepawake
    BY <1>0, <1>1, <2>2 DEF TypeOK
  <2>3. QED
    BY <2>1, <2>2
<1>6. TypeOK'
  <2>1. begun' \in [Dev -> [1..3 -> 0..Interval]]
    <3>1. begun \in [Dev -> [1..3 -> 0..Interval]] /\ 0 \in 0..Interval
      BY <1>0, LoopAssumption DEF TypeOK
    <3>2. <<0, begun[e.dev][1], begun[e.dev][2]>> \in [1..3 -> 0..Interval]
      BY <1>2, <3>1
    <3>3. QED
      BY <1>1, <1>2, <3>1, <3>2
  <2>2. last_run' \in [Dev -> Nat]
    BY <1>0, <1>1, <1>2 DEF TypeOK, UpdateLastRun
  <2>3. list' \in [Node -> SUBSET Entry]
    BY <1>0, <1>1 DEF TypeOK
  <2>4. /\ todo' \in [Node -> Nat]
        /\ loop' \in [Node -> {"sleeping", "next", "waiting"}]
        /\ \A m \in Node : loop'[m] = "waiting" => todo'[m] > 0
    BY <1>0, <1>1, <1>2 DEF TypeOK
  <2>5. QED
    BY <1>0, <1>3, <1>4, <1>5, <2>1, <2>2, <2>3, <2>4 DEF TypeOK
<1>7. TakingIsExplained'
  <2>1. \A c : Excused(c) => Excused(c)'
    BY <1>3, <1>5 DEF Excused
  <2>2. \A m \in Node : list'[m] \subseteq list[m]
    BY <1>0, <1>1 DEF TypeOK
  <2>3. e.opts.keepawake /\ e.dev \in Lockable => Excused(e.dev)
    BY <1>0 DEF TakingIsExplained
  <2>4. QED
    BY <1>0, <1>3, <1>5, <2>1, <2>2, <2>3 DEF TakingIsExplained
<1>8. ListIsUnspent'
  <2>1. ASSUME NEW m \in Node PROVE \A f \in list'[m] : f \in list[m] /\ late'[m][f.dev] = 0
    BY <1>0, <1>1, <1>4 DEF TypeOK, ListIsUnspent, Entry
  <2>2. ASSUME NEW m \in Node, NEW c \in armed PROVE late'[m][c] = 0
    <3>1. c \in Dev /\ late[m][c] = 0
      BY <1>0 DEF TypeOK, ListIsUnspent
    <3>2. QED
      BY <1>4, <3>1
  <2>3. QED
    BY <1>0, <1>3, <2>1, <2>2 DEF ListIsUnspent
<1>9. DisarmSettles'
  <2>1. \A m \in Node, c \in Dev :
          late'[m][c] = 0 \/ late'[m][c] = 1 \/ late'[m][c] = late[m][c]
    BY <1>4
  <2>2. QED
    BY <1>0, <1>4, <2>1, SettleKept DEF TypeOK
<1>10. QED
  BY <1>6, <1>7, <1>8, <1>9 DEF IInv

\* The other steps shorten lists, and leave what was armed, locked and noted.
LEMMA OtherStep ==
  ASSUME IInv,
         \/ \E n \in Node : LoopSkip(n) \/ LoopAnswer(n) \/ LoopPassEnds(n) \/ Crash(n)
         \/ \E d \in Dev, n \in Node \cup {NoNode} : DeviceMoves(d, n)
         \/ Tick \/ UNCHANGED vars
  PROVE  IInv'
<1>0. TypeOK /\ TakingIsExplained /\ ListIsUnspent /\ DisarmSettles
  BY DEF IInv
<1>1. /\ UNCHANGED <<armed, held, late, asks, awake>>
      /\ \A m \in Node : list'[m] \subseteq list[m]
  <2> DEFINE Less == /\ UNCHANGED <<armed, held, late, asks, awake>>
                     /\ \A m \in Node : list'[m] \subseteq list[m]
  <2>1. ASSUME NEW n \in Node, LoopSkip(n) PROVE Less
    BY <1>0, <2>1 DEF TypeOK, LoopSkip, stateVars, history
  <2>2. ASSUME NEW n \in Node, LoopAnswer(n) PROVE Less
    BY <1>0, <2>2 DEF TypeOK, LoopAnswer, stateVars, history
  <2>3. ASSUME NEW n \in Node, LoopPassEnds(n) PROVE Less
    BY <1>0, <2>3 DEF TypeOK, LoopPassEnds, stateVars, history
  <2>4. ASSUME NEW n \in Node, Crash(n) PROVE Less
    BY <1>0, <2>4 DEF TypeOK, Crash, stateVars, history
  <2>5. ASSUME NEW d \in Dev, NEW n \in Node \cup {NoNode}, DeviceMoves(d, n) PROVE Less
    BY <2>5 DEF DeviceMoves, stateVars, loopVars, history
  <2>6. ASSUME Tick PROVE Less
    BY <2>6 DEF Tick, stateVars, loopVars, history
  <2>7. ASSUME UNCHANGED vars PROVE Less
    BY <2>7 DEF vars, stateVars, loopVars, history
  <2> HIDE DEF Less
  <2>8. Less
    BY <2>1, <2>2, <2>3, <2>4, <2>5, <2>6, <2>7
  <2>9. QED
    BY <2>8 DEF Less
<1>2. TypeOK'
  <2> USE <1>0 DEF TypeOK
  <2>1. ASSUME NEW n \in Node, LoopSkip(n) PROVE TypeOK'
    BY <2>1 DEF LoopSkip, stateVars, history
  <2>2. ASSUME NEW n \in Node, LoopAnswer(n) PROVE TypeOK'
    BY <2>2 DEF LoopAnswer, stateVars, history
  <2>3. ASSUME NEW n \in Node, LoopPassEnds(n) PROVE TypeOK'
    BY <2>3 DEF LoopPassEnds, stateVars, history
  <2>4. ASSUME NEW n \in Node, Crash(n) PROVE TypeOK'
    BY <2>4 DEF Crash, stateVars, history
  <2>5. ASSUME NEW d \in Dev, NEW n \in Node \cup {NoNode}, DeviceMoves(d, n) PROVE TypeOK'
    BY <2>5 DEF DeviceMoves, stateVars, loopVars, history
  <2>6. CASE Tick
    <3>1. begun' \in [Dev -> [1..3 -> 0..Interval]]
      BY <2>6, LoopAssumption DEF Tick, Older
    <3>2. QED
      BY <2>6, <3>1 DEF Tick, stateVars
  <2>7. CASE UNCHANGED vars
    BY <2>7 DEF vars, stateVars, loopVars, history
  <2>8. QED
    BY <2>1, <2>2, <2>3, <2>4, <2>5, <2>6, <2>7
<1>3. \A c : Excused(c)' <=> Excused(c)
  BY <1>1 DEF Excused
<1>4. TakingIsExplained'
  BY <1>0, <1>1, <1>3 DEF TakingIsExplained
<1>5. ListIsUnspent'
  BY <1>0, <1>1 DEF ListIsUnspent
<1>6. QED
  BY <1>0, <1>1, <1>2, <1>4, <1>5 DEF IInv, DisarmSettles

\* The invariant holds whatever the nodes' loops and requests do.
LEMMA AlwaysIInv == Spec => []IInv
<1>1. IInv /\ [Next]_vars => IInv'
  BY ArmStep, DisarmStep, KeepAwakeDoneStep, LoopStartStep, LoopRoundStep, OtherStep
  DEF Next, Loop
<1>2. QED
  BY InitIInv, <1>1, PTL DEF Spec

\* Requests, loops and devices stay in their types.
THEOREM LoopTypes == Spec => []TypeOK
<1>1. IInv => TypeOK
  BY DEF IInv
<1>2. QED
  BY <1>1, AlwaysIInv, PTL

\* A wake lock that a disarmed device keeps is explained by a release that failed
\* or was not sent, or by a request or a pass of _theft_loop that was still going
\* to take the lock when the release was over.
THEOREM WakeLockIsExplained == Spec => []AwakeIsExplained
<1>1. IInv => AwakeIsExplained
  BY DEF IInv, TakingIsExplained, Excused, AwakeIsExplained
<1>2. QED
  BY <1>1, AlwaysIInv, PTL

\* Disarming a device (theft_disarm) settles: on every hub node at most one more
\* round of captures begins for it.
THEOREM LoopSafe == Spec => []DisarmSettles
<1>1. IInv => DisarmSettles
  BY DEF IInv
<1>2. QED
  BY <1>1, AlwaysIInv, PTL

---------------------------------------------------------------------------
(* The pace of one node's loop.                                            *)

\* The stamp of a device's last round is not older than the round before it, and a
\* pass that has the device on its list has read that stamp, after the last round.
Paced ==
  \A n \in Node : Node = {n} =>
    /\ now[n] <= time
    /\ \A d \in Dev : /\ begun[d][2] < Interval => last_run[d] + begun[d][2] >= time
                      /\ begun[d][3] = Interval
    /\ \A e \in list[n] :
         /\ e.last = last_run[e.dev]
         /\ begun[e.dev][1] < Interval => now[n] + begun[e.dev][1] >= time

\* What a step that begins no round, and lets no time pass, does to the pace.
LEMMA PaceKept ==
  ASSUME Paced, UNCHANGED <<time, begun, last_run>>,
         \A n \in Node : list'[n] \subseteq list[n] /\ (now'[n] = now[n] \/ list'[n] = {}),
         \A n \in Node : now'[n] <= time \/ now'[n] = now[n]
  PROVE  Paced'
BY DEF Paced

\* A round begins.  Its device was due by a stamp that is not older than the round
\* before the last one, which is therefore an interval ago.
LEMMA PacedRound ==
  ASSUME IInv, Paced, NEW n \in Node, LoopRound(n) PROVE Paced'
<1> SUFFICES ASSUME Node = {n} PROVE Paced'
  BY DEF Paced
<1>1. PICK e \in list[n] :
        /\ Due(n, e)
        /\ list' = [list EXCEPT ![n] = @ \ {e}]
        /\ UpdateLastRun(n, e.dev)
        /\ begun' = [begun EXCEPT ![e.dev] = <<0, @[1], @[2]>>]
  BY DEF LoopRound
<1>2. /\ UNCHANGED <<time, now>>
      /\ Interval \in Nat \ {0} /\ time \in Nat /\ now[n] \in Nat
      /\ e.dev \in Dev /\ e.last \in Nat /\ last_run[e.dev] \in Nat
      /\ begun[e.dev][1] \in 0..Interval /\ begun[e.dev][2] \in 0..Interval
  BY LoopAssumption DEF LoopRound, IInv, TypeOK, Entry
<1>3. /\ begun'[e.dev][1] = 0
      /\ begun'[e.dev][2] = begun[e.dev][1]
      /\ begun'[e.dev][3] = begun[e.dev][2]
      /\ last_run'[e.dev] = now[n]
  BY <1>1, <1>2 DEF IInv, TypeOK, UpdateLastRun
<1>4. \A d \in Dev \ {e.dev} : begun'[d] = begun[d] /\ last_run'[d] = last_run[d]
  BY <1>1, <1>2 DEF IInv, TypeOK, UpdateLastRun
<1>5. \A f \in list'[n] : f \in list[n] /\ f.dev \in Dev \ {e.dev}
  BY <1>1 DEF IInv, TypeOK, ListIsUnspent, Entry
<1>6. /\ now[n] <= time /\ e.last = last_run[e.dev]
      /\ begun[e.dev][1] < Interval => now[n] + begun[e.dev][1] >= time
      /\ begun[e.dev][2] < Interval => last_run[e.dev] + begun[e.dev][2] >= time
  BY <1>2 DEF Paced
<1>7. begun[e.dev][2] = Interval
  BY <1>1, <1>2, <1>6 DEF Due
<1>8. ASSUME NEW d \in Dev
      PROVE  /\ begun'[d][2] < Interval => last_run'[d] + begun'[d][2] >= time
             /\ begun'[d][3] = Interval
  <2>1. CASE d = e.dev
    BY <1>2, <1>3, <1>6, <1>7, <2>1
  <2>2. CASE d # e.dev
    BY <1>4, <2>2 DEF Paced
  <2>3. QED
    BY <2>1, <2>2
<1>9. ASSUME NEW f \in list'[n]
      PROVE  /\ f.last = last_run'[f.dev]
             /\ begun'[f.dev][1] < Interval => now[n] + begun'[f.dev][1] >= time
  BY <1>4, <1>5 DEF Paced
<1>10. QED
  BY <1>2, <1>6, <1>8, <1>9 DEF Paced

\* Time passes for the clock and for the rounds alike.
LEMMA PacedTick ==
  ASSUME IInv, Paced, Tick PROVE Paced'
<1> SUFFICES ASSUME NEW n \in Node, Node = {n} PROVE Paced'
  BY DEF Paced
<1>1. /\ time' = time + 1 /\ time \in Nat /\ Interval \in Nat \ {0} /\ now[n] \in Nat
      /\ UNCHANGED <<last_run, now, list>> /\ now[n] <= time
  BY LoopAssumption DEF Tick, IInv, TypeOK, stateVars, Paced
<1>2. ASSUME NEW d \in Dev, NEW i \in 1..3
      PROVE  /\ begun[d][i] \in 0..Interval /\ begun'[d][i] \in 0..Interval
             /\ begun[d][i] = Interval => begun'[d][i] = Interval
             /\ begun'[d][i] < Interval =>
                  begun[d][i] < Interval /\ begun'[d][i] = begun[d][i] + 1
  <2>1. begun[d][i] \in 0..Interval /\ begun'[d][i] = Older(begun[d][i])
    BY DEF Tick, IInv, TypeOK
  <2>2. QED
    BY <1>1, <2>1 DEF Older
<1>3. ASSUME NEW d \in Dev
      PROVE  /\ begun'[d][2] < Interval => last_run[d] + begun'[d][2] >= time'
             /\ begun'[d][3] = Interval
  <2>1. last_run[d] \in Nat
    BY DEF IInv, TypeOK
  <2>2. /\ begun[d][2] < Interval => last_run[d] + begun[d][2] >= time
        /\ begun[d][3] = Interval
    BY DEF Paced
  <2>3. QED
    BY <1>1, <1>2, <2>1, <2>2
<1>4. ASSUME NEW e \in list[n]
      PROVE  /\ e.last = last_run[e.dev]
             /\ begun'[e.dev][1] < Interval => now[n] + begun'[e.dev][1] >= time'
  <2>1. e.dev \in Dev
    BY DEF IInv, TypeOK, Entry
  <2>2. /\ e.last = last_run[e.dev]
        /\ begun[e.dev][1] < Interval => now[n] + begun[e.dev][1] >= time
    BY DEF Paced
  <2>3. QED
    BY <1>1, <1>2, <2>1, <2>2
<1>5. QED
  BY <1>1, <1>3, <1>4 DEF Paced

\* A pass begins after every round that was stamped, and reads the stamps.
LEMMA PacedStart ==
  ASSUME IInv, Paced, NEW n \in Node, LoopStart(n) PROVE Paced'
<1> SUFFICES ASSUME Node = {n} PROVE Paced'
  BY DEF Paced
<1>1. /\ UNCHANGED <<time, last_run, begun>> /\ now'[n] = time /\ time \in Nat
      /\ list'[n] = {[dev |-> d, opts |-> opts[d], last |-> last_run[d]] : d \in armed}
  BY DEF LoopStart, IInv, TypeOK, stateVars, history
<1>2. \A e \in list'[n] : e.dev \in Dev /\ e.last = last_run[e.dev]
  BY <1>1 DEF IInv, TypeOK
<1>3. \A d \in Dev : begun[d][1] \in Nat
  BY LoopAssumption DEF IInv, TypeOK
<1>4. QED
  BY <1>1, <1>2, <1>3 DEF Paced

\* The pace is kept whatever else happens.
LEMMA PacedStep == IInv /\ Paced /\ [Next]_vars => Paced'
<1> SUFFICES ASSUME IInv, Paced, [Next]_vars PROVE Paced'
  OBVIOUS
<1>1. ASSUME NEW n \in Node, LoopSkip(n) \/ LoopAnswer(n) \/ LoopPassEnds(n) \/ Crash(n)
      PROVE  Paced'
  <2>1. /\ UNCHANGED <<time, begun, last_run>> /\ time \in Nat
        /\ \A m \in Node : /\ list'[m] \subseteq list[m]
                           /\ now'[m] = now[m] \/ (now'[m] = 0 /\ list'[m] = {})
    <3>0. list \in [Node -> SUBSET Entry] /\ now \in [Node -> Nat] /\ time \in Nat
      BY DEF IInv, TypeOK
    <3> USE <3>0 DEF stateVars, history
    <3>1. CASE LoopSkip(n)
      BY <3>1 DEF LoopSkip
    <3>2. CASE LoopAnswer(n)
      BY <3>2 DEF LoopAnswer
    <3>3. CASE LoopPassEnds(n)
      BY <3>3 DEF LoopPassEnds
    <3>4. CASE Crash(n)
      BY <3>4 DEF Crash
    <3>5. QED
      BY <1>1, <3>1, <3>2, <3>3, <3>4
  <2>2. QED
    BY <2>1, PaceKept
<1>2. ASSUME \/ \E n \in Node, d \in Dev : Arm(n, d) \/ Disarm(n, d)
             \/ \E q \in asks : KeepAwakeDone(q)
             \/ \E d \in Dev, n \in Node \cup {NoNode} : DeviceMoves(d, n)
             \/ UNCHANGED vars
      PROVE  Paced'
  <2>1. UNCHANGED <<time, begun, last_run, list, now>>
    BY <1>2 DEF Arm, Disarm, KeepAwakeDone, DeviceMoves, stateVars, loopVars, history, vars
  <2>2. QED
    BY <2>1, PaceKept
<1>3. QED
  BY <1>1, <1>2, PacedStart, PacedRound, PacedTick DEF Next, Loop

\* Of the rounds of _theft_loop on a hub that runs alone no three begin within one
\* interval, although update_theft_last_run stamps the time at which the pass began.
THEOREM RoundsArePaced == Spec => []NoBurst
<1>1. Init => Paced
  BY LoopAssumption DEF Init, Paced
<1>2. Paced => NoBurst
  BY DEF Paced, NoBurst
<1>3. QED
  BY <1>1, <1>2, PacedStep, AlwaysIInv, PTL DEF Spec

=============================================================================
