----------------------------- MODULE TheftLoop -----------------------------
(***************************************************************************)
(* When theft mode captures: arming and disarming (theft_arm, theft_disarm *)
(* and their -all forms), and the loop every hub node runs over the armed  *)
(* devices (_theft_loop), with the wake lock both of them ask for          *)
(* (hub/app.py, hub/db.py).  What becomes of a capture is in TheftStore.   *)
(*                                                                         *)
(* A pass reads the clock and the armed devices once, and then works       *)
(* through the list; each capture takes as long as the device takes.       *)
(***************************************************************************)
EXTENDS Naturals

CONSTANTS
  Node, Dev,       \* hub processes, devices
  NoNode,
  Lockable,        \* devices that can take a wake lock (Termux)
  Req,             \* keepawake requests that can be on their way at once
  Interval,        \* interval_s, in turns of the loop
  MaxKinds,        \* kinds of capture one can ask for
  MaxTime          \* bound on the clock

ASSUME LoopAssumption ==
  /\ NoNode \notin Node /\ Lockable \subseteq Dev
  /\ Interval \in Nat \ {0} /\ MaxKinds \in Nat \ {0} /\ MaxTime \in Nat

VARIABLES
  time,
  at,              \* the node that holds each device's connection
  armed, opts, last_run,   \* theft_state
  loop,            \* where _theft_loop of each node is
  slept,           \* its sleep is over
  now, list,       \* its clock and its armed_devices(), as read for this pass
  todo,            \* answers of a device that its round has still to wait for
  asks,            \* keepawake requests on their way
  awake,           \* devices whose wake lock is held
  held,            \* history: what may have kept the lock since the last disarm
  late,            \* history: rounds each node started since the device was disarmed
  begun            \* history: how many turns ago the last three rounds of each
                   \* device began, the last one first; Interval stands for longer

stateVars == <<armed, opts, last_run>>
loopVars == <<loop, slept, now, list, todo>>
history == <<held, late, begun>>
vars == <<time, at, stateVars, loopVars, asks, awake, history>>

\* The form's choices: keep-awake, and how many of the three kinds.
Opts == [keepawake: BOOLEAN, kinds: 0..MaxKinds]
NoOpts == [keepawake |-> FALSE, kinds |-> 0]
Entry == [dev: Dev, opts: Opts, last: Nat]
Ask == [req: Req, dev: Dev, on: BOOLEAN]

\* The clock starts late enough for a device that was never captured (last_run
\* NULL, read as 0) to be due.
Init ==
  /\ time = Interval
  /\ at \in [Dev -> Node \cup {NoNode}]
  /\ armed = {} /\ opts = [d \in Dev |-> NoOpts] /\ last_run = [d \in Dev |-> 0]
  /\ loop = [n \in Node |-> "sleeping"] /\ slept = [n \in Node |-> TRUE]
  /\ now = [n \in Node |-> 0] /\ list = [n \in Node |-> {}]
  /\ todo = [n \in Node |-> 0]
  /\ asks = {} /\ awake = {}
  /\ held = {} /\ late = [n \in Node |-> [d \in Dev |-> 0]]
  /\ begun = [d \in Dev |-> <<Interval, Interval, Interval>>]

-----------------------------------------------------------------------------
(* Arming and disarming *)

Reaches(n, d) == at[d] = n /\ d \in Lockable

\* _theft_keepawake: only a connection of this node is asked, and only some
\* devices can do it.  The caller waits for at most ten seconds; what the device
\* does may come later, or never.
KeepAwake(n, d, on) ==
  IF Reaches(n, d)
  THEN \E r \in Req : /\ \A q \in asks : q.req # r
                      /\ asks' = asks \cup {[req |-> r, dev |-> d, on |-> on]}
  ELSE UNCHANGED asks

\* theft_arm, and one device of theft_arm_all.  last_run stays as it is.
Arm(n, d) ==
  /\ \E o \in Opts :
       /\ o.kinds > 0
       /\ opts' = [opts EXCEPT ![d] = o]
       /\ IF o.keepawake THEN KeepAwake(n, d, TRUE) ELSE UNCHANGED asks
  /\ armed' = armed \cup {d}
  /\ late' = [m \in Node |-> [late[m] EXCEPT ![d] = 0]]
  /\ UNCHANGED <<time, at, last_run, loopVars, awake, held, begun>>

\* Is d's wake lock still going to be taken, by a request or by a pass?
Pending(d) ==
  \/ \E q \in asks : q.dev = d /\ q.on
  \/ d \in Lockable /\ \E n \in Node : \E e \in list[n] : e.dev = d /\ e.opts.keepawake

\* The release of d's lock is over, or there is none: what may keep it?
Settle(d, lock) ==
  held' = IF d \in lock \/ Pending(d) THEN held \cup {d} ELSE held \ {d}

\* Mutant of Disarm: opts is stored as an object without its fields.
DisarmEmptyOpts(n, d) ==
  /\ armed' = armed \ {d}
  /\ opts' = [opts EXCEPT ![d] = [kinds |-> 0]]
  /\ KeepAwake(n, d, FALSE)
  /\ IF Reaches(n, d) THEN UNCHANGED held ELSE Settle(d, awake)
  /\ late' = [m \in Node |-> [late[m] EXCEPT ![d] = 0]]
  /\ UNCHANGED <<time, at, last_run, loopVars, awake, begun>>

\* Mutant of Disarm: the wake lock is left alone.
DisarmOnly(n, d) ==
  /\ armed' = armed \ {d}
  /\ opts' = [opts EXCEPT ![d] = NoOpts]
  /\ IF Reaches(n, d) THEN UNCHANGED held ELSE Settle(d, awake)
  /\ late' = [m \in Node |-> [late[m] EXCEPT ![d] = 0]]
  /\ UNCHANGED <<time, at, last_run, loopVars, asks, awake, begun>>

\* theft_disarm, and one device of theft_disarm_all.
Disarm(n, d) ==
  /\ armed' = armed \ {d}
  /\ opts' = [opts EXCEPT ![d] = NoOpts]
  /\ KeepAwake(n, d, FALSE)
  /\ IF Reaches(n, d) THEN UNCHANGED held ELSE Settle(d, awake)
  /\ late' = [m \in Node |-> [late[m] EXCEPT ![d] = 0]]
  /\ UNCHANGED <<time, at, last_run, loopVars, awake, begun>>

\* op_keepawake on the device, or the request is lost or fails.
KeepAwakeDone(q) ==
  /\ asks' = asks \ {q}
  /\ \/ awake' = IF q.on THEN awake \cup {q.dev} ELSE awake \ {q.dev}
     \/ UNCHANGED awake
  /\ IF q.on THEN UNCHANGED held ELSE Settle(q.dev, awake')
  /\ UNCHANGED <<time, at, stateVars, loopVars, late, begun>>

-----------------------------------------------------------------------------
(* _theft_loop *)

Due(n, e) == e.last + Interval <= now[n]

\* Mutant of LoopStart: a cached list, with every device that was ever armed.
LoopStartCached(n) ==
  /\ loop[n] = "sleeping" /\ slept[n]
  /\ loop' = [loop EXCEPT ![n] = "next"]
  /\ now' = [now EXCEPT ![n] = time]
  /\ list' = [list EXCEPT ![n] = {[dev |-> d, opts |-> opts[d], last |-> last_run[d]] :
                                    d \in Dev}]
  /\ UNCHANGED <<time, at, stateVars, slept, todo, asks, awake, history>>

\* A pass begins: time.time() and armed_devices() are read once.
LoopStart(n) ==
  /\ loop[n] = "sleeping" /\ slept[n]
  /\ loop' = [loop EXCEPT ![n] = "next"]
  /\ now' = [now EXCEPT ![n] = time]
  /\ list' = [list EXCEPT ![n] = {[dev |-> d, opts |-> opts[d], last |-> last_run[d]] :
                                    d \in armed}]
  /\ UNCHANGED <<time, at, stateVars, slept, todo, asks, awake, history>>

\* Not due yet, or not connected here.
LoopSkip(n) ==
  /\ loop[n] = "next"
  /\ \E e \in list[n] : /\ ~Due(n, e) \/ at[e.dev] # n
                        /\ list' = [list EXCEPT ![n] = @ \ {e}]
  /\ UNCHANGED <<time, at, stateVars, loop, slept, now, todo, asks, awake, history>>

\* Mutant of UpdateLastRun: the stamp is forgotten.
UpdateLastRunNever(n, d) == UNCHANGED last_run

\* update_theft_last_run, with the time at which the pass began.
UpdateLastRun(n, d) == last_run' = [last_run EXCEPT ![d] = now[n]]

\* A device's round begins, with the options of the list.
LoopRound(n) ==
  /\ loop[n] = "next"
  /\ \E e \in list[n] :
       /\ Due(n, e) /\ at[e.dev] = n
       /\ list' = [list EXCEPT ![n] = @ \ {e}]
       /\ UpdateLastRun(n, e.dev)
       /\ todo' = [todo EXCEPT ![n] = e.opts.kinds + IF e.opts.keepawake THEN 1 ELSE 0]
       /\ loop' = [loop EXCEPT ![n] = IF todo'[n] = 0 THEN "next" ELSE "waiting"]
       /\ IF e.opts.keepawake THEN KeepAwake(n, e.dev, TRUE) ELSE UNCHANGED asks
       /\ late' = [late EXCEPT ![n][e.dev] = IF e.dev \in armed THEN 0 ELSE @ + 1]
       /\ begun' = [begun EXCEPT ![e.dev] = <<0, @[1], @[2]>>]
  /\ UNCHANGED <<time, at, armed, opts, slept, now, awake, held>>

\* _theft_keepawake or _capture_to_store returns; what they raise is swallowed.
\* After the last capture the pass goes on to the next device.
LoopAnswer(n) ==
  /\ loop[n] = "waiting"
  /\ todo' = [todo EXCEPT ![n] = @ - 1]
  /\ loop' = [loop EXCEPT ![n] = IF todo[n] = 1 THEN "next" ELSE "waiting"]
  /\ UNCHANGED <<time, at, stateVars, slept, now, list, asks, awake, history>>

\* The pass is over, or a statement of the database failed and the rest of the
\* list is dropped; asyncio.sleep(15) begins.
LoopPassEnds(n) ==
  /\ loop[n] = "next"
  /\ loop' = [loop EXCEPT ![n] = "sleeping"]
  /\ slept' = [slept EXCEPT ![n] = FALSE]
  /\ now' = [now EXCEPT ![n] = 0]
  /\ list' = [list EXCEPT ![n] = {}]
  /\ UNCHANGED <<time, at, stateVars, todo, asks, awake, history>>

-----------------------------------------------------------------------------
(* The world outside *)

DeviceMoves(d, n) ==
  /\ at[d] # n
  /\ at' = [at EXCEPT ![d] = n]
  /\ UNCHANGED <<time, stateVars, loopVars, asks, awake, history>>

\* The node dies and starts again, its loop at once.
Crash(n) ==
  /\ loop' = [loop EXCEPT ![n] = "sleeping"]
  /\ slept' = [slept EXCEPT ![n] = TRUE]
  /\ now' = [now EXCEPT ![n] = 0]
  /\ list' = [list EXCEPT ![n] = {}]
  /\ todo' = [todo EXCEPT ![n] = 0]
  /\ at' = [d \in Dev |-> IF at[d] = n THEN NoNode ELSE at[d]]
  /\ UNCHANGED <<time, stateVars, asks, awake, history>>

Older(age) == IF age < Interval THEN age + 1 ELSE Interval

\* Time passes while loops sleep or wait for a device; the rest takes none.
Tick ==
  /\ time < MaxTime
  /\ \A n \in Node : loop[n] # "next"
  /\ time' = time + 1
  /\ slept' = [n \in Node |-> TRUE]
  /\ begun' = [d \in Dev |-> [i \in 1..3 |-> Older(begun[d][i])]]
  /\ UNCHANGED <<at, stateVars, loop, now, list, todo, asks, awake, held, late>>

-----------------------------------------------------------------------------

Loop(n) ==
  \/ LoopStart(n) \/ LoopSkip(n) \/ LoopRound(n) \/ LoopAnswer(n) \/ LoopPassEnds(n)

Next ==
  \/ \E n \in Node : Loop(n) \/ Crash(n)
  \/ \E n \in Node, d \in Dev : Arm(n, d) \/ Disarm(n, d)
  \/ \E q \in asks : KeepAwakeDone(q)
  \/ \E d \in Dev, n \in Node \cup {NoNode} : DeviceMoves(d, n)
  \/ Tick

Spec == Init /\ [][Next]_vars

-----------------------------------------------------------------------------
(* Properties *)

\* The type invariant of theft_state and of the loops that read it.
TypeOK ==
  /\ time \in Nat /\ at \in [Dev -> Node \cup {NoNode}]
  /\ armed \subseteq Dev /\ opts \in [Dev -> Opts] /\ last_run \in [Dev -> Nat]
  /\ loop \in [Node -> {"sleeping", "next", "waiting"}]
  /\ slept \in [Node -> BOOLEAN] /\ now \in [Node -> Nat]
  /\ list \in [Node -> SUBSET Entry]
  /\ todo \in [Node -> Nat] /\ \A n \in Node : loop[n] = "waiting" => todo[n] > 0
  /\ asks \subseteq Ask /\ awake \subseteq Dev /\ held \subseteq Dev
  /\ late \in [Node -> [Dev -> Nat]] /\ begun \in [Dev -> [1..3 -> 0..Interval]]

\* A wake lock outlives its disarming for one of two reasons only: the release
\* could not be sent or failed, or, when the release was over, an earlier request
\* or a pass of the loop was still going to take the lock.
AwakeIsExplained ==
  \A d \in awake \ armed : d \in held \/ \E q \in asks : q.dev = d /\ ~q.on

\* After a device is disarmed each node starts at most one more round of
\* captures for it: that of the pass which has it on its list.
DisarmSettles ==
  \A n \in Node, d \in Dev : late[n][d] <= 1

\* With one hub node, the stale time in last_run costs one round at most: a
\* device's round may follow the last one too soon, but no more than two of them
\* begin within any interval, crashes and restarts included.
NoBurst ==
  (\E n \in Node : Node = {n}) =>
    \A d \in Dev : begun[d][3] = Interval

\* "per-device interval enforced via last_run" (_theft_loop): a device's round
\* begins no sooner than one interval after the round before it.
IntervalIsKept ==
  \A d \in Dev : begun[d][2] = Interval

=============================================================================
