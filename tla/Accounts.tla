------------------------------ MODULE Accounts ------------------------------
(***************************************************************************)
(* Getting into an account: registration, and the login of one client      *)
(* address that the limiter of hub/auth.py watches.  login_post runs in    *)
(* the thread pool: a thread asks rate_check, verifies the password, which *)
(* takes long, and then reports to the limiter, each a critical section of *)
(* _rate_lock; others run in between.                                      *)
(*                                                                         *)
(* Time is kept as ages: an entry of the log is so many ticks old, and a   *)
(* block has so many ticks left.  Entries that have left the window are    *)
(* popped when they do; rate_record_fail pops them when it next looks.     *)
(***************************************************************************)
EXTENDS Registration, Naturals, Sequences, FiniteSets

CONSTANTS
  Thread,        \* login requests the address may have under way at one time
  RATE_WINDOW, RATE_MAX, RATE_BLOCK,
  NoBlock

ASSUME LimiterAssumption ==
  /\ IsFiniteSet(Thread) /\ Thread # {}
  /\ RATE_WINDOW \in Nat /\ RATE_MAX \in Nat \ {0}
  /\ RATE_BLOCK \in Nat /\ RATE_BLOCK > RATE_WINDOW
  /\ NoBlock \notin Nat

VARIABLES
  fail_log,     \* the ages of the recorded failures, the oldest first
  block_until,  \* ticks left of the block, 0 once it has run out
  passed,       \* the threads between rate_check and their report
  wrong         \* history: the ages of the guesses in the window that were
                \* answered since the last success

loginVars == <<fail_log, block_until, passed, wrong>>
accountVars == <<vars, loginVars>>

Age == 0..RATE_WINDOW

AccountsInit ==
  /\ Init
  /\ fail_log = <<>> /\ block_until = NoBlock
  /\ passed = {} /\ wrong = <<>>

\* rate_check: a block that has run out goes, and the log with it.
RateCheck(t) ==
  /\ t \notin passed
  /\ block_until \in {NoBlock, 0}      \* otherwise: 429
  /\ block_until' = NoBlock
  /\ fail_log' = IF block_until = 0 THEN <<>> ELSE fail_log
  /\ passed' = passed \cup {t}
  /\ UNCHANGED <<vars, wrong>>

\* Mutant of RateRecordFail: > instead of >=.
RateRecordFailOneMore ==
  LET log == Append(fail_log, 0)
      full == Len(log) > RATE_MAX
  IN  /\ fail_log' = IF full THEN <<>> ELSE log
      /\ block_until' = IF full THEN RATE_BLOCK ELSE block_until

\* rate_record_fail
RateRecordFail ==
  LET log == Append(fail_log, 0)
      full == Len(log) >= RATE_MAX
  IN  /\ fail_log' = IF full THEN <<>> ELSE log
      /\ block_until' = IF full THEN RATE_BLOCK ELSE block_until

\* rate_clear
RateClear == fail_log' = <<>> /\ block_until' = NoBlock

\* login_post with the wrong name or password.
LoginFails(t) ==
  /\ t \in passed
  /\ RateRecordFail
  /\ passed' = passed \ {t}
  /\ wrong' = Append(wrong, 0)
  /\ UNCHANGED vars

\* login_post with the right ones, of an account that the node's database shows.
LoginSucceeds(t) ==
  /\ t \in passed /\ \E n \in Node : Shown(n).accounts # {}
  /\ RateClear
  /\ passed' = passed \ {t}
  /\ wrong' = <<>>
  /\ UNCHANGED vars

\* while log and log[0] < cutoff: how many entries leave the window next.
Expired(log) ==
  CHOOSE k \in 0..Len(log) : /\ \A i \in 1..k : log[i] = RATE_WINDOW
                             /\ k < Len(log) => log[k + 1] < RATE_WINDOW

\* time.monotonic: the log after one more tick.
Older(log) ==
  LET k == Expired(log) IN [i \in 1..(Len(log) - k) |-> log[i + k] + 1]

Tick ==
  /\ fail_log' = Older(fail_log)
  /\ wrong' = Older(wrong)
  /\ block_until' = IF block_until \in {NoBlock, 0} THEN block_until
                    ELSE block_until - 1
  /\ UNCHANGED <<vars, passed>>

AccountsNext ==
  \/ Next /\ UNCHANGED loginVars
  \/ \E t \in Thread : RateCheck(t) \/ LoginFails(t) \/ LoginSucceeds(t)
  \/ Tick

AccountsSpec == AccountsInit /\ [][AccountsNext]_accountVars

-----------------------------------------------------------------------------
(* Properties *)

\* Between two successes, and however its requests overlap, an address is
\* told "Invalid credentials" in one window at most RATE_MAX times, and
\* twice more for each further request that it keeps under way: such a
\* request may have been let through before a block and be counted after
\* it, and may be forgotten when the block's end empties the log.
GuessBudget ==
  Len(wrong) <= RATE_MAX + 2 * (Cardinality(Thread) - 1)

=============================================================================
