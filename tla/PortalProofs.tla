---------------------------- MODULE PortalProofs ----------------------------
(***************************************************************************)
(* The portal's side towards the browser.  Registration is safe for any    *)
(* number of requests, names and invites, and whoever logs in meanwhile;   *)
(* the limiter bounds the guesses for any number of threads and any limit; *)
(* and the page of a live view is right for any number of views and        *)
(* displays.                                                               *)
(***************************************************************************)
EXTENDS Accounts, LiveView, TLAPS, FiniteSetTheorems, WellFoundedInduction

---------------------------------------------------------------------------
(* Registration.                                                           *)

\* Past its INSERT, a request owns the account of its name.
PastInsert ==
  \A r \in Req : pc[r] \in {"consume", "login", "ok"}
                   => creator[form[r].name] = r /\ users[form[r].name] # "none"

\* Past consume_invite, its invite is spent on that account.
PastConsume ==
  \A r \in Req : pc[r] \in {"login", "ok"} /\ form[r].route = "invite"
                   => used_by[form[r].code] = form[r].name

IInv == TypeOK /\ PastInsert /\ PastConsume /\ SpentInviteHasAccount

\* The initial states satisfy the invariant: no request has started.
LEMMA InitIInv == Init => IInv
BY RegistrationAssumption
   DEF Init, IInv, TypeOK, PastInsert, PastConsume, SpentInviteHasAccount,
       Account, InFlight, Answer, Content, Snapshot

\* Every step keeps the types.
LEMMA TypeStep == TypeOK /\ [Next]_vars => TypeOK'
<1> SUFFICES ASSUME TypeOK, [Next]_vars PROVE TypeOK' OBVIOUS
<1> USE DEF TypeOK, InFlight, Answer, Goto, Refuse, tableVars, reqVars
<1>1. ASSUME NEW r \in Req, Submit(r) PROVE TypeOK' BY <1>1 DEF Submit
<1>2. ASSUME NEW r \in Req, CheckName(r) PROVE TypeOK' BY <1>2 DEF CheckName
<1>3. ASSUME NEW r \in Req, CheckInvite(r) PROVE TypeOK' BY <1>3 DEF CheckInvite
<1>4. ASSUME NEW r \in Req, CreateUser(r) PROVE TypeOK' BY <1>4 DEF CreateUser, Form
<1>5. ASSUME NEW r \in Req, ConsumeInvite(r) PROVE TypeOK' BY <1>5 DEF ConsumeInvite, Form
<1>6. ASSUME NEW r \in Req, Login(r) PROVE TypeOK' BY <1>6 DEF Login
<1>7. ASSUME NEW r \in Req, Fail(r) PROVE TypeOK' BY <1>7 DEF Fail
<1>8. ASSUME NEW n \in Node, NEW i \in Code, CreateInvite(n, i) PROVE TypeOK'
  BY <1>8 DEF CreateInvite
<1>9. ASSUME NEW n \in Node, Sync(n) PROVE TypeOK'
  BY <1>9 DEF Sync, Content, Snapshot, Account
<1>10. CASE UNCHANGED vars BY <1>10 DEF vars
<1>q. QED
  BY <1>1, <1>2, <1>3, <1>4, <1>5, <1>6, <1>7, <1>8, <1>9, <1>10 DEF Next, Handle

\* Every step keeps the invariant.  The statements that matter are the two
\* guarded ones, CreateUser and ConsumeInvite: neither overwrites what another
\* request wrote.
LEMMA IInvStep == IInv /\ [Next]_vars => IInv'
<1> SUFFICES ASSUME IInv, [Next]_vars PROVE IInv' OBVIOUS
<1>0. TypeOK /\ TypeOK' BY TypeStep DEF IInv
<1> DEFINE Rest == PastInsert /\ PastConsume /\ SpentInviteHasAccount
<1>r. Rest BY DEF IInv
<1> USE <1>0, <1>r, RegistrationAssumption
        DEF PastInsert, PastConsume, SpentInviteHasAccount, Account, TypeOK,
            InFlight, Answer, Goto, Refuse, Form, tableVars, reqVars
<1>1. ASSUME NEW r \in Req, Submit(r) PROVE Rest' BY <1>1 DEF Submit
<1>2. ASSUME NEW r \in Req, CheckName(r) PROVE Rest' BY <1>2 DEF CheckName
<1>3. ASSUME NEW r \in Req, CheckInvite(r) PROVE Rest' BY <1>3 DEF CheckInvite
<1>4. ASSUME NEW r \in Req, CreateUser(r) PROVE Rest'
  <2>1. PastInsert' BY <1>4 DEF CreateUser
  <2>2. PastConsume' BY <1>4 DEF CreateUser
  <2>3. SpentInviteHasAccount' BY <1>4 DEF CreateUser
  <2>q. QED BY <2>1, <2>2, <2>3
<1>5. ASSUME NEW r \in Req, ConsumeInvite(r) PROVE Rest'
  <2>1. PastInsert' BY <1>5 DEF ConsumeInvite
  <2>2. PastConsume' BY <1>5 DEF ConsumeInvite
  <2>3. SpentInviteHasAccount' BY <1>5 DEF ConsumeInvite
  <2>q. QED BY <2>1, <2>2, <2>3
<1>6. ASSUME NEW r \in Req, Login(r) PROVE Rest' BY <1>6 DEF Login
<1>7. ASSUME NEW r \in Req, Fail(r) PROVE Rest' BY <1>7 DEF Fail
<1>8. ASSUME NEW n \in Node, NEW i \in Code, CreateInvite(n, i) PROVE Rest'
  BY <1>8 DEF CreateInvite
<1>9. ASSUME NEW n \in Node, Sync(n) PROVE Rest' BY <1>9 DEF Sync
<1>10. ASSUME UNCHANGED vars PROVE Rest' BY <1>10 DEF vars
<1> HIDE DEF Rest
<1>11. Rest'
  BY <1>1, <1>2, <1>3, <1>4, <1>5, <1>6, <1>7, <1>8, <1>9, <1>10 DEF Next, Handle
<1>q. QED BY <1>11 DEF IInv, Rest

\* The invariant holds however the requests race.
LEMMA AlwaysIInv == Spec => []IInv
BY InitIInv, IInvStep, PTL DEF Spec

\* Every request is at a step of register and the tables hold what they may.
THEOREM RegistrationTypes == Spec => []TypeOK
<1>1. IInv => TypeOK
  BY DEF IInv
<1>2. QED
  BY <1>1, AlwaysIInv, PTL

\* However many requests race, each success owns its account and its invite,
\* and no invite is spent without an account.
THEOREM RegistrationSafe == Spec => []AdmissionsAreSound
<1>1. IInv => AdmissionsAreSound
  BY DEF IInv, PastInsert, PastConsume, AdmissionsAreSound, SuccessOwnsAccount,
         AdmittedByInvite
<1>2. QED
  BY <1>1, AlwaysIInv, PTL

\* Once every node shows an account, replicas included, and the requests that
\* counted zero users are over, nobody becomes admin by registering.
THEOREM AdminsAreFromBootstrap == Spec => NoLateAdmin
<1> DEFINE Late == /\ \A n \in Node : Shown(n).accounts # {}
                   /\ \A r \in Req : pc[r] \in InFlight => form[r].route # "bootstrap"
<1>1. TypeOK /\ [Next]_vars => [Late => Admin' \subseteq Admin]_vars
  <2> SUFFICES ASSUME TypeOK, [Next]_vars, Late PROVE Admin' \subseteq Admin OBVIOUS
  <2>1. CASE users' = users BY <2>1 DEF Admin
  <2>2. ASSUME NEW r \in Req, CreateUser(r), users' # users
        PROVE  Admin' \subseteq Admin
    <3>1. form[r].route # "bootstrap" BY <2>2 DEF CreateUser, InFlight
    <3>q. QED BY <2>2, <3>1 DEF CreateUser, Admin, TypeOK, Goto
  <2>q. QED
    BY <2>1, <2>2 DEF Next, Handle, vars, tableVars, Submit, CheckName, CheckInvite,
                      ConsumeInvite, Login, Fail, CreateInvite, Sync
<1>2. Spec => []IInv BY InitIInv, IInvStep, PTL DEF Spec
<1>3. IInv => TypeOK BY DEF IInv
<1>q. QED BY <1>1, <1>2, <1>3, PTL DEF Spec, NoLateAdmin

\* Logins, and the limiter that lets them through, leave registration alone: with
\* them the hub still is the Registration that the theorems above are about.
THEOREM LoginsLeaveRegistration == AccountsSpec => Spec
<1>1. AccountsInit => Init
  BY DEF AccountsInit
<1>2. [AccountsNext]_accountVars => [Next]_vars
  BY DEF AccountsNext, accountVars, RateCheck, LoginFails, LoginSucceeds, Tick
<1>3. QED
  BY <1>1, <1>2, PTL DEF AccountsSpec, Spec

---------------------------------------------------------------------------
(* The guesses of one address.                                             *)

\* The log and the history hold ages, and only threads of the address are through.
LoginTypes ==
  /\ fail_log \in Seq(Age) /\ wrong \in Seq(Age)
  /\ block_until \in (0..RATE_BLOCK) \cup {NoBlock}
  /\ passed \subseteq Thread

\* The guesses are in order, and those in the log are the last of them.
LogIsTail ==
  /\ \A i, j \in 1..Len(wrong) : i <= j => wrong[i] >= wrong[j]
  /\ Len(fail_log) <= Len(wrong)
  /\ \A i \in 1..Len(fail_log) : fail_log[i] = wrong[Len(wrong) - Len(fail_log) + i]
  /\ Len(fail_log) < RATE_MAX

Others == Cardinality(Thread) - 1

\* Without a block, the limiter has forgotten a guess for each further thread at
\* most: those that came while the last block lasted.
FewForgotten == block_until = NoBlock => Len(wrong) - Len(fail_log) <= Others

\* During a block nobody comes through, and who has come through can guess once
\* more.  Guesses made after the tick in which the block began are of those threads.
BlockDrains ==
  block_until # NoBlock =>
    /\ Cardinality(passed) <= Others
    /\ Len(wrong) + Cardinality(passed) <= RATE_MAX + 2 * Others
    /\ \A i \in 1..Len(wrong) : wrong[i] + block_until < RATE_BLOCK
         => Len(wrong) - i + 1 + Cardinality(passed) <= Others

LimiterInv == LoginTypes /\ LogIsTail /\ FewForgotten /\ BlockDrains

\* The loop that pops the log stops: at the first entry that stays in the window.
LEMMA ExpiredExists ==
  ASSUME NEW log \in Seq(Age)
  PROVE  /\ Expired(log) \in 0..Len(log)
         /\ \A i \in 1..Expired(log) : log[i] = RATE_WINDOW
         /\ Expired(log) < Len(log) => log[Expired(log) + 1] < RATE_WINDOW
<1> DEFINE Stops(k) == /\ \A i \in 1..k : log[i] = RATE_WINDOW
                       /\ k < Len(log) => log[k + 1] < RATE_WINDOW
           T == {k \in 0..Len(log) : k < Len(log) => log[k + 1] # RATE_WINDOW}
<1>1. Len(log) \in Nat /\ (\A i \in 1..Len(log) : log[i] \in Age) /\ RATE_WINDOW \in Nat
  BY LimiterAssumption
<1>2. T \subseteq Nat /\ Len(log) \in T
  BY <1>1
<1> HIDE DEF T
<1>3. \E k \in T : \A j \in T : ~(<<j, k>> \in OpToRel(<, Nat))
  <2>1. T # {}
    BY <1>2
  <2>2. QED
    BY <1>2, <2>1, NatLessThanWellFounded, WFMin
<1>4. PICK k \in T : \A j \in T : ~(j < k)
  <2>1. \A j, k \in T : j < k => <<j, k>> \in OpToRel(<, Nat)
    BY <1>2 DEF OpToRel
  <2>2. QED
    BY <1>3, <2>1
<1>5. k \in 0..Len(log) /\ Stops(k)
  <2>1. k \in 0..Len(log) /\ (k < Len(log) => log[k + 1] # RATE_WINDOW)
    BY <1>4 DEF T
  <2>2. ASSUME NEW i \in 1..k PROVE log[i] = RATE_WINDOW
    <3>1. i - 1 \in 0..Len(log) /\ i - 1 < k /\ i - 1 < Len(log) /\ (i - 1) + 1 = i
      BY <1>1, <2>1
    <3>2. i - 1 \notin T
      BY <1>4, <3>1
    <3>3. QED
      BY <3>1, <3>2 DEF T
  <2>3. k < Len(log) => log[k + 1] < RATE_WINDOW
    BY <1>1, <2>1 DEF Age
  <2>4. QED
    BY <2>1, <2>2, <2>3
<1>6. Expired(log) = CHOOSE j \in 0..Len(log) : Stops(j)
  BY DEF Expired
<1> HIDE DEF Stops
<1>7. Expired(log) \in 0..Len(log) /\ Stops(Expired(log))
  BY <1>5, <1>6
<1>8. QED
  BY <1>7 DEF Stops


\* What one tick leaves of a log: its entries that stay, each a tick older.
LEMMA OlderFacts ==
  ASSUME NEW log \in Seq(Age),
         \A i, j \in 1..Len(log) : i <= j => log[i] >= log[j]
  PROVE  /\ Older(log) \in Seq(Age)
         /\ Expired(log) \in 0..Len(log)
         /\ Len(Older(log)) = Len(log) - Expired(log)
         /\ \A i \in 1..Len(Older(log)) : Older(log)[i] = log[i + Expired(log)] + 1
         /\ \A i \in 1..Expired(log) : log[i] = RATE_WINDOW
         /\ \A i \in (Expired(log) + 1)..Len(log) : log[i] < RATE_WINDOW
<1> DEFINE k == Expired(log)
           n == Len(log)
           new == [i \in 1..(n - k) |-> log[i + k] + 1]
<1>1. /\ n \in Nat /\ RATE_WINDOW \in Nat
      /\ \A i \in 1..n : log[i] \in 0..RATE_WINDOW
  BY LimiterAssumption DEF Age
<1>2. /\ k \in 0..n
      /\ \A i \in 1..k : log[i] = RATE_WINDOW
      /\ k < n => log[k + 1] < RATE_WINDOW
  BY ExpiredExists
<1>3. Older(log) = new
  BY DEF Older
<1> HIDE DEF k
<1>4. ASSUME NEW i \in (k + 1)..n PROVE log[i] < RATE_WINDOW
  <2>1. k + 1 \in 1..n /\ i \in 1..n /\ k + 1 <= i /\ k < n
    BY <1>1, <1>2
  <2>2. log[k + 1] >= log[i] /\ log[k + 1] < RATE_WINDOW
    BY <1>2, <2>1
  <2>3. QED
    BY <1>1, <2>1, <2>2
<1>5. n - k \in Nat
  BY <1>1, <1>2
<1>6. ASSUME NEW i \in 1..(n - k) PROVE log[i + k] + 1 \in Age
  <2>1. i + k \in (k + 1)..n /\ i + k \in 1..n
    BY <1>1, <1>2
  <2>2. QED
    BY <1>1, <1>4, <2>1 DEF Age
<1>7. new \in Seq(Age) /\ Len(new) = n - k
  BY <1>5, <1>6
<1>8. QED
  BY <1>2, <1>3, <1>4, <1>7 DEF k

\* The clock moves the log and the history alike, so the log stays the tail of the
\* guesses, and a guess that it has forgotten leaves the window no later than others.
LEMMA TailTick ==
  ASSUME LoginTypes, LogIsTail, Tick
  PROVE  /\ LogIsTail'
         /\ fail_log' \in Seq(Age) /\ wrong' \in Seq(Age)
         /\ Len(wrong)' - Len(fail_log)' <= Len(wrong) - Len(fail_log)
<1> DEFINE k == Expired(wrong)
           j == Expired(fail_log)
           n == Len(wrong)
           m == Len(fail_log)
<1>1. /\ n \in Nat /\ m \in Nat /\ m <= n /\ RATE_WINDOW \in Nat /\ RATE_MAX \in Nat
      /\ \A i \in 1..n : wrong[i] \in 0..RATE_WINDOW
      /\ \A i \in 1..m : fail_log[i] = wrong[(n - m) + i]
      /\ \A a, b \in 1..n : a <= b => wrong[a] >= wrong[b]
      /\ m < RATE_MAX
  BY LimiterAssumption DEF LoginTypes, LogIsTail, Age
<1>2. ASSUME NEW a \in 1..m, NEW b \in 1..m, a <= b PROVE fail_log[a] >= fail_log[b]
  <2>1. /\ (n - m) + a \in 1..n /\ (n - m) + b \in 1..n /\ (n - m) + a <= (n - m) + b
    BY <1>1, <1>2
  <2>2. QED
    BY <1>1, <2>1
<1>3. /\ wrong' \in Seq(Age) /\ k \in 0..n /\ Len(wrong') = n - k
      /\ \A i \in 1..Len(wrong') : wrong'[i] = wrong[i + k] + 1
      /\ \A i \in 1..k : wrong[i] = RATE_WINDOW
      /\ \A i \in (k + 1)..n : wrong[i] < RATE_WINDOW
  BY <1>1, OlderFacts DEF Tick, LoginTypes
<1>4. /\ fail_log' \in Seq(Age) /\ j \in 0..m /\ Len(fail_log') = m - j
      /\ \A i \in 1..Len(fail_log') : fail_log'[i] = fail_log[i + j] + 1
      /\ \A i \in 1..j : fail_log[i] = RATE_WINDOW
      /\ \A i \in (j + 1)..m : fail_log[i] < RATE_WINDOW
  BY <1>2, OlderFacts DEF Tick, LoginTypes
<1> HIDE DEF k, j
\* The loops stop at the same guess, unless the log begins after it.
<1>5. k <= n - m => j = 0
  <2> SUFFICES ASSUME k <= n - m, j # 0 PROVE FALSE
    OBVIOUS
  <2>1. 1 \in 1..j /\ 1 \in 1..m /\ (n - m) + 1 \in (k + 1)..n
    BY <1>1, <1>3, <1>4
  <2>2. fail_log[1] = RATE_WINDOW /\ fail_log[1] = wrong[(n - m) + 1]
    BY <1>1, <1>4, <2>1
  <2>3. wrong[(n - m) + 1] < RATE_WINDOW
    BY <1>3, <2>1
  <2>4. QED
    BY <1>1, <2>2, <2>3
<1>6. k > n - m => j = k - (n - m)
  <2> SUFFICES ASSUME k > n - m, j # k - (n - m) PROVE FALSE
    OBVIOUS
  <2>1. CASE j < k - (n - m)
    <3>1. j + 1 \in (j + 1)..m /\ j + 1 \in 1..m /\ (n - m) + (j + 1) \in 1..k
      BY <1>1, <1>3, <1>4, <2>1
    <3>2. fail_log[j + 1] < RATE_WINDOW /\ fail_log[j + 1] = wrong[(n - m) + (j + 1)]
      BY <1>1, <1>4, <3>1
    <3>3. wrong[(n - m) + (j + 1)] = RATE_WINDOW
      BY <1>3, <3>1
    <3>4. QED
      BY <1>1, <3>2, <3>3
  <2>2. CASE j > k - (n - m)
    <3>1. j \in 1..j /\ j \in 1..m /\ (n - m) + j \in (k + 1)..n
      BY <1>1, <1>3, <1>4, <2>2
    <3>2. fail_log[j] = RATE_WINDOW /\ fail_log[j] = wrong[(n - m) + j]
      BY <1>1, <1>4, <3>1
    <3>3. wrong[(n - m) + j] < RATE_WINDOW
      BY <1>3, <3>1
    <3>4. QED
      BY <1>1, <3>2, <3>3
  <2>3. j \in Int /\ k - (n - m) \in Int
    BY <1>1, <1>3, <1>4
  <2>4. QED
    BY <2>1, <2>2, <2>3
<1>7. /\ Len(fail_log') <= Len(wrong') /\ Len(fail_log') < RATE_MAX
      /\ Len(wrong') - Len(fail_log') <= n - m
      /\ (Len(wrong') - Len(fail_log')) + k = (n - m) + j
  BY <1>1, <1>3, <1>4, <1>5, <1>6
<1>8. ASSUME NEW a \in 1..Len(wrong'), NEW b \in 1..Len(wrong'), a <= b
      PROVE  wrong'[a] >= wrong'[b]
  <2>1. a + k \in 1..n /\ b + k \in 1..n /\ a + k <= b + k
    BY <1>1, <1>3, <1>8
  <2>2. wrong[a + k] >= wrong[b + k]
    BY <1>1, <2>1
  <2>3. QED
    BY <1>1, <1>3, <2>1, <2>2
<1>9. ASSUME NEW i \in 1..Len(fail_log')
      PROVE  fail_log'[i] = wrong'[Len(wrong') - Len(fail_log') + i]
  <2> DEFINE f == Len(wrong') - Len(fail_log')
  <2>1. i + j \in 1..m /\ f + i \in 1..Len(wrong') /\ (n - m) + (i + j) = (f + i) + k
    BY <1>1, <1>3, <1>4, <1>7
  <2>2. fail_log'[i] = wrong[(n - m) + (i + j)] + 1
    BY <1>1, <1>4, <2>1
  <2>3. wrong'[f + i] = wrong[(f + i) + k] + 1
    BY <1>3, <2>1
  <2>4. QED
    BY <2>1, <2>2, <2>3
<1>10. LogIsTail'
  BY <1>7, <1>8, <1>9 DEF LogIsTail
<1>11. QED
  BY <1>3, <1>4, <1>7, <1>10

\* At most every thread is through, and a thread that reports is one fewer.
LEMMA PassedFacts ==
  ASSUME LoginTypes
  PROVE  /\ Others \in Nat /\ Cardinality(passed) \in 0..(Others + 1)
         /\ \A t \in passed : Cardinality(passed \ {t}) = Cardinality(passed) - 1
<1>1. IsFiniteSet(Thread) /\ Thread # {} /\ passed \subseteq Thread
  BY LimiterAssumption DEF LoginTypes
<1>2. Cardinality(Thread) \in Nat /\ Cardinality(Thread) # 0
  BY <1>1, FS_CardinalityType, FS_EmptySet
<1>3. IsFiniteSet(passed) /\ Cardinality(passed) \in Nat
      /\ Cardinality(passed) <= Cardinality(Thread)
  BY <1>1, FS_Subset, FS_CardinalityType
<1>4. \A t \in passed : Cardinality(passed \ {t}) = Cardinality(passed) - 1
  BY <1>3, FS_RemoveElement
<1>5. QED
  BY <1>2, <1>3, <1>4 DEF Others

\* The limiter starts with an empty log, and nobody is through.
LEMMA LimiterStart == AccountsInit => LimiterInv
<1> SUFFICES ASSUME AccountsInit PROVE LimiterInv
  OBVIOUS
<1>1. LoginTypes
  BY DEF AccountsInit, LoginTypes
<1>2. Len(wrong) = 0 /\ Len(fail_log) = 0 /\ block_until = NoBlock
  BY DEF AccountsInit
<1>3. QED
  BY <1>1, <1>2, PassedFacts, LimiterAssumption
     DEF LimiterInv, LogIsTail, FewForgotten, BlockDrains

\* A thread comes through.  When it ends a block, every guess still in the window
\* was made during it, so forgetting the log forgets only those.
LEMMA LimiterCheck ==
  ASSUME LimiterInv, NEW t \in Thread, RateCheck(t)
  PROVE  LimiterInv'
<1>1. /\ LoginTypes /\ LogIsTail /\ Others \in Nat
      /\ RATE_MAX \in Nat \ {0} /\ RATE_WINDOW \in Nat /\ RATE_BLOCK \in Nat
      /\ RATE_BLOCK > RATE_WINDOW /\ NoBlock \notin Nat
      /\ wrong \in Seq(Age) /\ fail_log \in Seq(Age)
  BY PassedFacts, LimiterAssumption DEF LimiterInv, LoginTypes
<1>2. wrong' = wrong /\ block_until' = NoBlock /\ passed' = passed \cup {t}
  BY DEF RateCheck
<1>3. CASE block_until = NoBlock
  <2>1. fail_log' = fail_log
    BY <1>1, <1>3 DEF RateCheck
  <2>2. QED
    BY <1>1, <1>2, <1>3, <2>1
       DEF LimiterInv, LoginTypes, LogIsTail, FewForgotten, BlockDrains
<1>4. CASE block_until = 0
  <2>1. fail_log' = <<>>
    BY <1>4 DEF RateCheck
  <2>2. Len(wrong) <= Others
    <3>1. CASE Len(wrong) = 0
      BY <1>1, <3>1
    <3>2. CASE Len(wrong) # 0
      <4>1. 1 \in 1..Len(wrong) /\ wrong[1] \in Age /\ Len(wrong) \in Nat
        BY <1>1, <3>2
      <4>2. wrong[1] + block_until < RATE_BLOCK
        BY <1>1, <1>4, <4>1 DEF Age
      <4>3. Len(wrong) - 1 + 1 + Cardinality(passed) <= Others
        BY <1>1, <1>4, <4>1, <4>2 DEF LimiterInv, BlockDrains
      <4>4. QED
        BY <1>1, <4>1, <4>3, PassedFacts
    <3>3. QED
      BY <3>1, <3>2
  <2>3. LoginTypes'
    BY <1>1, <1>2, <2>1 DEF LoginTypes
  <2>4. LogIsTail'
    BY <1>1, <1>2, <2>1 DEF LogIsTail
  <2>5. FewForgotten' /\ BlockDrains'
    BY <1>1, <1>2, <2>1, <2>2 DEF FewForgotten, BlockDrains, Others
  <2>6. QED
    BY <2>3, <2>4, <2>5 DEF LimiterInv
<1>5. QED
  BY <1>3, <1>4 DEF RateCheck

\* A wrong guess is recorded, or fills the log and starts a block: then all other
\* threads may be through, and all of the log is forgotten.
LEMMA LimiterFail ==
  ASSUME LimiterInv, NEW t \in Thread, LoginFails(t)
  PROVE  LimiterInv'
<1> DEFINE n == Len(wrong)
           m == Len(fail_log)
           c == Cardinality(passed)
<1>1. /\ LoginTypes /\ LogIsTail /\ Others \in Nat /\ c \in 0..(Others + 1)
      /\ RATE_MAX \in Nat \ {0} /\ RATE_WINDOW \in Nat /\ RATE_BLOCK \in Nat
      /\ NoBlock \notin Nat
      /\ wrong \in Seq(Age) /\ fail_log \in Seq(Age)
      /\ n \in Nat /\ m \in Nat /\ m <= n /\ m < RATE_MAX
      /\ 0 \in Age /\ \A i \in 1..n : wrong[i] \in 0..RATE_WINDOW
      /\ block_until \in (0..RATE_BLOCK) \cup {NoBlock}
  BY PassedFacts, LimiterAssumption DEF LimiterInv, LoginTypes, LogIsTail, Age
<1>2. /\ wrong' = Append(wrong, 0) /\ passed' = passed \ {t} /\ t \in passed
      /\ Cardinality(passed') = c - 1
  BY <1>1, PassedFacts DEF LoginFails
<1>3. /\ wrong' \in Seq(Age) /\ Len(wrong') = n + 1 /\ wrong'[n + 1] = 0
      /\ \A i \in 1..n : wrong'[i] = wrong[i]
  BY <1>1, <1>2
<1>4. \A i, j \in 1..Len(wrong') : i <= j => wrong'[i] >= wrong'[j]
  BY <1>1, <1>3 DEF LogIsTail
<1>5. Others' = Others
  BY DEF Others
<1>6. Len(Append(fail_log, 0)) = m + 1
  BY <1>1
<1>7. CASE m + 1 < RATE_MAX
  <2>1. fail_log' = Append(fail_log, 0) /\ block_until' = block_until
    BY <1>1, <1>6, <1>7 DEF LoginFails, RateRecordFail
  <2>2. /\ fail_log' \in Seq(Age) /\ Len(fail_log') = m + 1 /\ fail_log'[m + 1] = 0
        /\ \A i \in 1..m : fail_log'[i] = fail_log[i]
    BY <1>1, <2>1
  <2>3. LoginTypes'
    BY <1>1, <1>2, <1>3, <2>1, <2>2 DEF LoginTypes
  <2>4. ASSUME NEW i \in 1..Len(fail_log')
        PROVE  fail_log'[i] = wrong'[Len(wrong') - Len(fail_log') + i]
    <3>1. Len(wrong') - Len(fail_log') + i = (n - m) + i
      BY <1>1, <1>3, <2>2
    <3>2. CASE i = m + 1
      BY <1>1, <1>3, <2>2, <3>1, <3>2
    <3>3. CASE i \in 1..m
      <4>1. (n - m) + i \in 1..n /\ fail_log[i] = wrong[(n - m) + i]
        BY <1>1, <3>3 DEF LogIsTail
      <4>2. QED
        BY <1>3, <2>2, <3>1, <3>3, <4>1
    <3>4. QED
      BY <1>1, <2>2, <3>2, <3>3
  <2>5. LogIsTail'
    BY <1>1, <1>3, <1>4, <1>7, <2>2, <2>4 DEF LogIsTail
  <2>6. FewForgotten'
    BY <1>1, <1>3, <1>5, <2>1, <2>2 DEF LimiterInv, FewForgotten
  <2>7. BlockDrains'
    <3> SUFFICES ASSUME block_until # NoBlock PROVE BlockDrains'
      BY <2>1 DEF BlockDrains
    <3>1. /\ c <= Others /\ n + c <= RATE_MAX + 2 * Others
          /\ \A i \in 1..n : wrong[i] + block_until < RATE_BLOCK => n - i + 1 + c <= Others
      BY DEF LimiterInv, BlockDrains
    <3>2. ASSUME NEW i \in 1..Len(wrong'), wrong'[i] + block_until' < RATE_BLOCK
          PROVE  Len(wrong') - i + 1 + Cardinality(passed') <= Others
      <4>1. CASE i = n + 1
        BY <1>1, <1>2, <1>3, <3>1, <4>1
      <4>2. CASE i \in 1..n
        <5>1. n - i + 1 + c <= Others
          BY <1>3, <2>1, <3>1, <3>2, <4>2
        <5>2. QED
          BY <1>1, <1>2, <1>3, <4>2, <5>1
      <4>3. QED
        BY <1>1, <1>3, <4>1, <4>2
    <3>3. Cardinality(passed') <= Others
          /\ Len(wrong') + Cardinality(passed') <= RATE_MAX + 2 * Others
      BY <1>1, <1>2, <1>3, <3>1
    <3>4. QED
      BY <1>5, <3>2, <3>3 DEF BlockDrains
  <2>8. QED
    BY <2>3, <2>5, <2>6, <2>7 DEF LimiterInv
<1>8. CASE m + 1 >= RATE_MAX
  <2>1. fail_log' = <<>> /\ block_until' = RATE_BLOCK
    BY <1>1, <1>6, <1>8 DEF LoginFails, RateRecordFail
  <2>2. LoginTypes'
    BY <1>1, <1>2, <1>3, <2>1 DEF LoginTypes
  <2>3. LogIsTail'
    BY <1>1, <1>3, <1>4, <2>1 DEF LogIsTail
  <2>4. FewForgotten'
    BY <1>1, <2>1 DEF FewForgotten
  <2>5. n + 1 + (c - 1) <= RATE_MAX + 2 * Others
    <3>1. CASE block_until = NoBlock
      <4>1. n - m <= Others
        BY <3>1 DEF LimiterInv, FewForgotten
      <4>2. QED
        BY <1>1, <4>1
    <3>2. CASE block_until # NoBlock
      <4>1. n + c <= RATE_MAX + 2 * Others
        BY <3>2 DEF LimiterInv, BlockDrains
      <4>2. QED
        BY <1>1, <4>1
    <3>3. QED
      BY <3>1, <3>2
  <2>6. ASSUME NEW i \in 1..Len(wrong') PROVE ~(wrong'[i] + RATE_BLOCK < RATE_BLOCK)
    <3>1. wrong'[i] \in Age
      BY <1>3
    <3>2. QED
      BY <1>1, <3>1 DEF Age
  <2>7. /\ Cardinality(passed') <= Others
        /\ Len(wrong') + Cardinality(passed') <= RATE_MAX + 2 * Others
    BY <1>1, <1>2, <1>3, <2>5
  <2>8. BlockDrains'
    BY <1>5, <2>1, <2>6, <2>7 DEF BlockDrains
  <2>9. QED
    BY <2>2, <2>3, <2>4, <2>8 DEF LimiterInv
<1>9. QED
  BY <1>1, <1>7, <1>8

\* A success starts over: the limiter and the history both forget.
LEMMA LimiterSuccess ==
  ASSUME LimiterInv, NEW t \in Thread, LoginSucceeds(t)
  PROVE  LimiterInv'
<1>1. /\ fail_log' = <<>> /\ wrong' = <<>> /\ block_until' = NoBlock
      /\ passed' \subseteq Thread
  BY DEF LoginSucceeds, RateClear, LimiterInv, LoginTypes
<1>2. Others \in Nat /\ RATE_MAX \in Nat \ {0}
  BY PassedFacts, LimiterAssumption DEF LimiterInv
<1>3. LoginTypes'
  BY <1>1 DEF LoginTypes
<1>4. LogIsTail'
  BY <1>1, <1>2 DEF LogIsTail
<1>5. FewForgotten' /\ BlockDrains'
  BY <1>1, <1>2 DEF FewForgotten, BlockDrains, Others
<1>6. QED
  BY <1>3, <1>4, <1>5 DEF LimiterInv

\* A tick ages the guesses by what it takes from the block, so which of them were
\* made during the block does not change.
LEMMA LimiterTick ==
  ASSUME LimiterInv, Tick
  PROVE  LimiterInv'
<1> DEFINE k == Expired(wrong)
           n == Len(wrong)
           c == Cardinality(passed)
<1>1. /\ LoginTypes /\ LogIsTail /\ Others \in Nat /\ c \in 0..(Others + 1)
      /\ RATE_MAX \in Nat \ {0} /\ RATE_WINDOW \in Nat /\ RATE_BLOCK \in Nat
      /\ RATE_BLOCK > RATE_WINDOW /\ NoBlock \notin Nat
      /\ n \in Nat /\ Len(fail_log) \in Nat
      /\ \A i \in 1..n : wrong[i] \in 0..RATE_WINDOW
      /\ block_until \in (0..RATE_BLOCK) \cup {NoBlock}
  BY PassedFacts, LimiterAssumption DEF LimiterInv, LoginTypes, LogIsTail, Age
<1>2. /\ LogIsTail' /\ fail_log' \in Seq(Age) /\ wrong' \in Seq(Age)
      /\ Len(wrong') - Len(fail_log') <= n - Len(fail_log)
  BY <1>1, TailTick
<1>3. /\ k \in 0..n /\ Len(wrong') = n - k
      /\ \A i \in 1..Len(wrong') : wrong'[i] = wrong[i + k] + 1
  BY <1>1, OlderFacts DEF Tick, LoginTypes, LogIsTail
<1>4. Others' = Others /\ passed' = passed
  BY DEF Others, Tick
<1> HIDE DEF k
<1>5. LoginTypes'
  BY <1>1, <1>2, <1>4 DEF LoginTypes, Tick
<1>6. FewForgotten'
  <2> SUFFICES ASSUME block_until' = NoBlock
               PROVE  Len(wrong') - Len(fail_log') <= Others
    BY <1>4 DEF FewForgotten
  <2>1. block_until = NoBlock
    BY <1>1 DEF Tick
  <2>2. n - Len(fail_log) <= Others
    BY <2>1 DEF LimiterInv, FewForgotten
  <2>3. Len(wrong') \in Nat /\ Len(fail_log') \in Nat
    BY <1>2
  <2>4. QED
    BY <1>1, <1>2, <2>2, <2>3
<1>7. BlockDrains'
  <2> SUFFICES ASSUME block_until' # NoBlock PROVE BlockDrains'
    BY DEF BlockDrains
  <2>1. block_until \in 0..RATE_BLOCK
    BY <1>1 DEF Tick
  <2>2. /\ c <= Others /\ n + c <= RATE_MAX + 2 * Others
        /\ \A i \in 1..n : wrong[i] + block_until < RATE_BLOCK => n - i + 1 + c <= Others
    BY <1>1, <2>1 DEF LimiterInv, BlockDrains
  <2>3. ASSUME NEW i \in 1..Len(wrong'), wrong'[i] + block_until' < RATE_BLOCK
        PROVE  Len(wrong') - i + 1 + c <= Others
    <3>1. i + k \in 1..n /\ wrong'[i] = wrong[i + k] + 1
      BY <1>1, <1>3
    <3>2. wrong[i + k] + block_until < RATE_BLOCK
      <4>1. CASE block_until = 0
        BY <1>1, <3>1, <4>1
      <4>2. CASE block_until # 0
        <5>1. block_until' = block_until - 1
          BY <1>1, <2>1, <4>2 DEF Tick
        <5>2. QED
          BY <1>1, <2>1, <2>3, <3>1, <5>1
      <4>3. QED
        BY <4>1, <4>2
    <3>3. n - (i + k) + 1 + c <= Others
      BY <2>2, <3>1, <3>2
    <3>4. QED
      BY <1>1, <1>3, <3>1, <3>3
  <2>4. Len(wrong') + c <= RATE_MAX + 2 * Others
    BY <1>1, <1>3, <2>2
  <2>5. QED
    BY <1>4, <2>2, <2>3, <2>4 DEF BlockDrains
<1>8. QED
  BY <1>2, <1>5, <1>6, <1>7 DEF LimiterInv

\* Every step keeps the invariant; a registration does not touch the limiter.
LEMMA LimiterStep == LimiterInv /\ [AccountsNext]_accountVars => LimiterInv'
<1> SUFFICES ASSUME LimiterInv, [AccountsNext]_accountVars PROVE LimiterInv'
  OBVIOUS
<1>1. CASE UNCHANGED loginVars
  BY <1>1 DEF LimiterInv, LoginTypes, LogIsTail, FewForgotten, BlockDrains, Others,
              loginVars
<1>2. QED
  BY <1>1, LimiterCheck, LimiterFail, LimiterSuccess, LimiterTick
     DEF AccountsNext, accountVars

\* However many requests an address keeps under way, and whatever the limits are, it
\* has at most RATE_MAX wrong guesses in a window, and two more per further request.
THEOREM GuessesAreBounded == AccountsSpec => []GuessBudget
<1>1. LimiterInv => GuessBudget
  <2> SUFFICES ASSUME LimiterInv PROVE GuessBudget
    OBVIOUS
  <2>1. /\ Others \in Nat /\ Cardinality(passed) \in Nat /\ RATE_MAX \in Nat
        /\ Len(wrong) \in Nat /\ Len(fail_log) \in Nat /\ Len(fail_log) < RATE_MAX
    BY PassedFacts, LimiterAssumption DEF LimiterInv, LoginTypes, LogIsTail
  <2>2. Len(wrong) <= RATE_MAX + 2 * Others
    BY <2>1 DEF LimiterInv, FewForgotten, BlockDrains
  <2>3. QED
    BY <2>2 DEF GuessBudget, Others
<1>2. QED
  BY <1>1, LimiterStart, LimiterStep, PTL DEF AccountsSpec

---------------------------------------------------------------------------
(* The page of a live view.                                                *)

\* Views are started in their order, and each asks for the screen size once at most.
Counted ==
  \E n \in 0..MaxViews : /\ \A v \in View : via[v] # "none" <=> v <= n
                         /\ page.sizeReq <= n + 1

\* What is on the stage of page p.  A direct view has an open socket and its handlers
\* there, and no other view has, nor has a socket that is not yet open any; an <img> and a direct view exclude each other; both,
\* and a picture of either, are there while the page says that it streams.
Staged(p) ==
  /\ p.rid # NoView => p.streaming /\ p.ws = "open" /\ p.rid \in p.reg
  /\ p.img # NoView => p.streaming /\ p.rid = NoView
  /\ p.shown \in View => p.streaming
  /\ p.ws = "open" => p.reg \subseteq {p.rid}
  /\ p.reg # {} => p.ws \in {"open", "closing"}
  /\ p.dec \in {NoView, p.rid}

\* The geometry of the screen page p is that of the chosen display, as far as it is
\* known, and every view that p has or shows is of that display.
Fits(p, shows) ==
  p.kind = "screen" =>
    /\ p.off = p.monitor /\ p.size \in {NoMon, p.monitor}
    /\ ~p.known => p.monitor = Primary
    /\ \A v \in View : v \in {p.rid, p.img, p.shown} => shows[v] = p.monitor

Sound(p, shows) == p \in Pages /\ Staged(p) /\ Fits(p, shows)

\* The types of what is not in the page.
Elsewhere ==
  /\ peer \in {"desktop", "phone"}
  /\ task \in [View -> {"none", "asked", "live", "cut", "gone"}]
  /\ via \in [View -> {"none", "direct", "hub"}]
  /\ mon \in [View -> Monitors \cup {NoMon}]
  /\ hub \in [View -> {"none", "ask", "start", "relay", "over"}]
  /\ link \in BOOLEAN
  /\ inp \in [st : {"idle", "direct", "hub", "ok", "error", "left"},
              dir : {"none", "sent", "done"}, relay : {"none", "sent", "done"}]

ViewInv == Elsewhere /\ Counted /\ Sound(page, mon)

\* What stopStream assigns and what it leaves.
LEMMA StopFields ==
  ASSUME NEW p \in Pages
  PROVE  LET q == StopStream(p)
         IN  /\ q \in Pages /\ ~q.streaming /\ q.sizeReq = p.sizeReq /\ q.kind = p.kind
             /\ q.monitor = p.monitor /\ q.off = p.off /\ q.size = p.size
             /\ q.known = p.known /\ q.rid = NoView /\ q.img = NoView /\ q.shown = NoView
             /\ q.dec = NoView /\ q.reg = p.reg
             /\ q.ws = IF p.rid # NoView /\ p.ws = "open" THEN "closing" ELSE p.ws
<1> DEFINE q == StopStream(p)
<1>1. q \in Pages
  <2> DEFINE w == IF p.rid # NoView /\ p.ws = "open" THEN "closing" ELSE p.ws
             d == CloseDecoders(p)
  <2>1. w \in {"asking", "dialing", "open", "closing", "none"}
    BY DEF Pages
  <2>2. d \in Pages /\ d.ws = p.ws
    BY DEF Pages, CloseDecoders
  <2> HIDE DEF d
  <2>3. q = [d EXCEPT !.streaming = FALSE, !.ws = w, !.rid = NoView, !.img = NoView,
                      !.shown = NoView, !.canvas = FALSE]
    BY <2>2 DEF StopStream, d
  <2> HIDE DEF w, q
  <2>4. QED
    BY <2>1, <2>2, <2>3, ZenonT(30) DEF Pages
<1>2. /\ ~q.streaming /\ q.rid = NoView /\ q.img = NoView /\ q.shown = NoView
      /\ q.dec = NoView
  BY DEF Pages, StopStream, CloseDecoders
<1>3. /\ q.sizeReq = p.sizeReq /\ q.kind = p.kind /\ q.monitor = p.monitor
      /\ q.off = p.off /\ q.size = p.size /\ q.known = p.known /\ q.reg = p.reg
  BY DEF Pages, StopStream, CloseDecoders
<1>4. q.ws = IF p.rid # NoView /\ p.ws = "open" THEN "closing" ELSE p.ws
  BY DEF Pages, StopStream, CloseDecoders
<1>5. QED
  BY <1>1, <1>2, <1>3, <1>4

\* stopStream: nothing is on the stage any more.
LEMMA StopSound ==
  ASSUME NEW p, NEW shows, Sound(p, shows)
  PROVE  Sound(StopStream(p), shows) /\ StopStream(p).sizeReq = p.sizeReq
<1> DEFINE q == StopStream(p)
<1>1. p \in Pages /\ Staged(p) /\ Fits(p, shows)
  BY DEF Sound
<1>2. /\ q \in Pages /\ ~q.streaming /\ q.sizeReq = p.sizeReq /\ q.kind = p.kind
      /\ q.monitor = p.monitor /\ q.off = p.off /\ q.size = p.size
      /\ q.known = p.known /\ q.rid = NoView /\ q.img = NoView /\ q.shown = NoView
      /\ q.dec = NoView /\ q.reg = p.reg
      /\ q.ws = IF p.rid # NoView /\ p.ws = "open" THEN "closing" ELSE p.ws
  BY <1>1, StopFields
<1> HIDE DEF q
<1>3. Staged(q)
  BY <1>1, <1>2, LiveViewAssumption DEF Staged, View
<1>4. Fits(q, shows)
  BY <1>1, <1>2, LiveViewAssumption DEF Fits, View
<1>5. QED
  BY <1>2, <1>3, <1>4 DEF Sound, q

\* startStream: the new view is alone on the stage.
LEMMA StartSound ==
  ASSUME NEW p, NEW shows, Sound(p, shows), ~p.streaming, p.sizeReq <= MaxViews,
         NEW v \in View, NEW now, now[v] = p.monitor
  PROVE  /\ Sound(StartStream(p, v), now)
         /\ StartStream(p, v).sizeReq = p.sizeReq + 1
         /\ StartStream(p, v).kind = p.kind /\ StartStream(p, v).monitor = p.monitor
<1> DEFINE q == StartStream(p, v)
<1>1. p \in Pages /\ Staged(p) /\ Fits(p, shows)
  BY DEF Sound
<1>2. /\ q \in Pages /\ q.sizeReq = p.sizeReq + 1 /\ q.kind = p.kind
      /\ q.monitor = p.monitor
  <2>1. p.sizeReq + 1 \in 0..(MaxViews + 1)
    BY <1>1, LiveViewAssumption DEF Pages
  <2> DEFINE r == [p EXCEPT !.streaming = TRUE, !.sizeReq = @ + 1]
  <2>2. q \in Pages
    <3>1. r \in Pages
      BY <1>1, <2>1 DEF Pages
    <3>2. q = IF DirectUp(p) THEN [r EXCEPT !.rid = v, !.reg = @ \cup {v}]
                             ELSE [r EXCEPT !.img = v]
      BY DEF StartStream
    <3> HIDE DEF r, q
    <3>3. QED
      BY <3>1, <3>2 DEF Pages
  <2>3. q.sizeReq = p.sizeReq + 1 /\ q.kind = p.kind /\ q.monitor = p.monitor
    BY <1>1 DEF Pages, StartStream, DirectUp
  <2>4. QED
    BY <2>2, <2>3
<1>3. /\ p.rid = NoView /\ p.img = NoView /\ p.shown \notin View /\ p.dec = NoView
      /\ NoView \notin View /\ (p.ws = "open" => p.reg \subseteq {NoView})
  BY <1>1, LiveViewAssumption DEF Staged, View
<1>4. /\ q.streaming /\ q.dec = p.dec /\ q.shown = p.shown /\ q.ws = p.ws
      /\ q.off = p.off /\ q.size = p.size /\ q.known = p.known
  BY <1>1 DEF Pages, StartStream, DirectUp
<1>5. CASE p.ws = "open"
  <2>1. q.rid = v /\ q.img = p.img /\ q.reg = p.reg \cup {v}
    BY <1>1, <1>5 DEF Pages, StartStream, DirectUp
  <2>2. p.reg = {}
    BY <1>1, <1>3, <1>5 DEF Pages
  <2>3. Staged(q)
    BY <1>3, <1>4, <1>5, <2>1, <2>2 DEF Staged
  <2>4. Fits(q, now)
    BY <1>1, <1>2, <1>3, <1>4, <2>1 DEF Fits
  <2>5. QED
    BY <1>2, <2>3, <2>4 DEF Sound
<1>6. CASE p.ws # "open"
  <2>1. q.rid = p.rid /\ q.img = v /\ q.reg = p.reg
    BY <1>1, <1>6 DEF Pages, StartStream, DirectUp
  <2>2. Staged(q)
    BY <1>1, <1>3, <1>4, <1>6, <2>1 DEF Staged
  <2>3. Fits(q, now)
    BY <1>1, <1>2, <1>3, <1>4, <2>1 DEF Fits
  <2>4. QED
    BY <1>2, <2>2, <2>3 DEF Sound
<1>7. QED
  BY <1>2, <1>5, <1>6

\* The same for the camera page, which has no geometry.
LEMMA CamStartSound ==
  ASSUME NEW p, NEW shows, Sound(p, shows), ~p.streaming, p.kind = "camera",
         NEW v \in View, NEW now
  PROVE  /\ Sound(CamStartStream(p, v), now)
         /\ CamStartStream(p, v).sizeReq = p.sizeReq
<1> DEFINE q == CamStartStream(p, v)
<1>1. p \in Pages /\ Staged(p)
  BY DEF Sound
<1>2. q \in Pages /\ q.sizeReq = p.sizeReq /\ q.kind = "camera"
  <2> DEFINE r == [p EXCEPT !.streaming = TRUE, !.poll = FALSE]
  <2>1. r \in Pages /\ r.sizeReq = p.sizeReq /\ r.kind = "camera"
    BY <1>1 DEF Pages
  <2>2. q = IF DirectUp(p) THEN [r EXCEPT !.rid = v, !.reg = @ \cup {v}]
                           ELSE [r EXCEPT !.img = v]
    BY DEF CamStartStream
  <2> HIDE DEF r, q
  <2>3. QED
    BY <2>1, <2>2 DEF Pages
<1>3. /\ p.rid = NoView /\ p.img = NoView /\ p.shown \notin View /\ p.dec = NoView
      /\ NoView \notin View /\ (p.ws = "open" => p.reg \subseteq {NoView})
  BY <1>1, LiveViewAssumption DEF Staged, View
<1>4. /\ q.streaming /\ q.dec = p.dec /\ q.shown = p.shown /\ q.ws = p.ws
  BY <1>1 DEF Pages, CamStartStream, DirectUp
<1>5. CASE p.ws = "open"
  <2>1. q.rid = v /\ q.img = p.img /\ q.reg = p.reg \cup {v}
    BY <1>1, <1>5 DEF Pages, CamStartStream, DirectUp
  <2>2. p.reg = {}
    BY <1>1, <1>3, <1>5 DEF Pages
  <2>3. Staged(q)
    BY <1>3, <1>4, <1>5, <2>1, <2>2 DEF Staged
  <2>4. QED
    BY <1>2, <2>3 DEF Sound, Fits
<1>6. CASE p.ws # "open"
  <2>1. q.rid = p.rid /\ q.img = v /\ q.reg = p.reg
    BY <1>1, <1>6 DEF Pages, CamStartStream, DirectUp
  <2>2. Staged(q)
    BY <1>1, <1>3, <1>4, <1>6, <2>1 DEF Staged
  <2>3. QED
    BY <1>2, <2>2 DEF Sound, Fits
<1>7. QED
  BY <1>5, <1>6

\* applyMonitorGeometry gives a page its geometry and nothing else.
LEMMA ApplyPage ==
  ASSUME NEW r \in Pages
  PROVE  /\ ApplyMonitorGeometry(r) \in Pages
         /\ ApplyMonitorGeometry(r).sizeReq = r.sizeReq
<1>1. r.monitor \in Monitors
  BY DEF Pages
<1>2. /\ [r EXCEPT !.size = r.monitor, !.off = r.monitor] \in Pages
      /\ [r EXCEPT !.size = r.monitor, !.off = r.monitor].sizeReq = r.sizeReq
  BY <1>1 DEF Pages
<1>3. QED
  BY <1>2 DEF ApplyMonitorGeometry

\* loadScreenSize: an answer never takes the geometry away from a chosen display.
LEMMA SizeSound ==
  ASSUME NEW p, NEW shows, Sound(p, shows)
  PROVE  Sound(TakeScreenSize(p), shows) /\ TakeScreenSize(p).sizeReq = p.sizeReq
<1> DEFINE q == TakeScreenSize(p)
<1>1. p \in Pages /\ Staged(p) /\ Fits(p, shows)
  BY DEF Sound
<1>2. q \in Pages /\ q.sizeReq = p.sizeReq
  <2> DEFINE r == [p EXCEPT !.size = Primary]
  <2>1. r \in Pages /\ r.sizeReq = p.sizeReq
    BY <1>1, LiveViewAssumption DEF Pages
  <2>2. q = r \/ q = ApplyMonitorGeometry(r)
    BY DEF TakeScreenSize
  <2> HIDE DEF r, q
  <2>3. QED
    BY <2>1, <2>2, ApplyPage
<1>3. Staged(q)
  BY <1>1 DEF Staged, Pages, TakeScreenSize, ApplyMonitorGeometry
<1>4. Fits(q, shows)
  BY <1>1, LiveViewAssumption DEF Fits, Pages, TakeScreenSize, ApplyMonitorGeometry
<1>5. QED
  BY <1>2, <1>3, <1>4 DEF Sound

\* The list of displays: the geometry of the display already chosen is applied.
LEMMA DisplaysSound ==
  ASSUME NEW p, NEW shows, Sound(p, shows)
  PROVE  /\ Sound(ApplyMonitorGeometry([p EXCEPT !.known = TRUE]), shows)
         /\ ApplyMonitorGeometry([p EXCEPT !.known = TRUE]).sizeReq = p.sizeReq
<1> DEFINE q == ApplyMonitorGeometry([p EXCEPT !.known = TRUE])
<1>1. p \in Pages /\ Staged(p) /\ Fits(p, shows)
  BY DEF Sound
<1>2. q \in Pages /\ q.sizeReq = p.sizeReq
  <2> DEFINE r == [p EXCEPT !.known = TRUE]
  <2>1. r \in Pages /\ r.sizeReq = p.sizeReq
    BY <1>1 DEF Pages
  <2> HIDE DEF r
  <2>2. QED
    BY <2>1, ApplyPage DEF r
<1>3. Staged(q)
  BY <1>1 DEF Staged, Pages, ApplyMonitorGeometry
<1>4. Fits(q, shows)
  BY <1>1 DEF Fits, Pages, ApplyMonitorGeometry
<1>5. QED
  BY <1>2, <1>3, <1>4 DEF Sound

\* A failed <img> leaves the page without a view.
LEMMA ErrorSound ==
  ASSUME NEW p, NEW shows, Sound(p, shows), p.img \in View
  PROVE  Sound(ImgError(p), shows) /\ ImgError(p).sizeReq = p.sizeReq
<1> DEFINE q == ImgError(p)
<1>1. p \in Pages /\ Staged(p) /\ Fits(p, shows) /\ p.img # NoView
  BY LiveViewAssumption DEF Sound, View
<1>2. q \in Pages /\ q.sizeReq = p.sizeReq
  BY <1>1 DEF Pages, ImgError
<1>3. Staged(q)
  BY <1>1, LiveViewAssumption DEF Staged, Pages, View, ImgError
<1>4. Fits(q, shows)
  BY <1>1, LiveViewAssumption DEF Fits, Pages, View, ImgError
<1>5. QED
  BY <1>2, <1>3, <1>4 DEF Sound

\* The end of a direct view, whose handlers are gone from the socket then.
LEMMA EndSound ==
  ASSUME NEW p, NEW shows, Sound(p, shows), NEW q \in Pages, NEW w,
         q = [EndHandler(p) EXCEPT !.ws = w, !.reg = {}]
  PROVE  Sound(q, shows) /\ q.sizeReq = p.sizeReq
<1>1. p \in Pages /\ Staged(p) /\ Fits(p, shows)
  BY DEF Sound
<1>2. q.sizeReq = p.sizeReq
  BY <1>1 DEF Pages, EndHandler, CloseDecoders
<1>3. Staged(q)
  BY <1>1, LiveViewAssumption DEF Staged, Pages, View, EndHandler, CloseDecoders
<1>4. Fits(q, shows)
  BY <1>1, LiveViewAssumption DEF Fits, Pages, View, EndHandler, CloseDecoders
<1>5. QED
  BY <1>2, <1>3, <1>4 DEF Sound

\* The same while the socket stays: the view's handlers go, and no other has any.
LEMMA EndedSound ==
  ASSUME ViewInv, NEW v \in View
  PROVE  Sound(Ended(v), mon) /\ Ended(v).sizeReq = page.sizeReq
<1> DEFINE q == [EndHandler(page) EXCEPT !.reg = @ \ {v}]
<1>1. page \in Pages /\ Staged(page) /\ Fits(page, mon)
  BY DEF ViewInv, Sound
<1>2. CASE Heard(v)
  <2>1. Ended(v) = q
    BY <1>2 DEF Ended, CamEndHandler
  <2>2. q \in Pages /\ q.sizeReq = page.sizeReq
    BY <1>1 DEF Pages, EndHandler, CloseDecoders
  <2>3. page.reg = {v}
    BY <1>1, <1>2 DEF Heard, Staged
  <2>4. Staged(q)
    BY <1>1, <2>3, LiveViewAssumption
       DEF Staged, Pages, View, EndHandler, CloseDecoders
  <2>5. Fits(q, mon)
    BY <1>1, LiveViewAssumption DEF Fits, Pages, View, EndHandler, CloseDecoders
  <2>6. QED
    BY <2>1, <2>2, <2>4, <2>5 DEF Sound
<1>3. CASE ~Heard(v)
  BY <1>1, <1>3 DEF Ended, Sound
<1>4. QED
  BY <1>2, <1>3

\* A request that fails before its headers ends the view that shows it, if any.
LEMMA FailedSound ==
  ASSUME ViewInv, NEW v \in View
  PROVE  Sound(Failed(v), mon) /\ Failed(v).sizeReq = page.sizeReq
BY ErrorSound DEF ViewInv, Failed

\* A page that has just loaded, or has been left.
LEMMA FreshPage ==
  ASSUME NEW kind \in {"screen", "camera", "left"}, NEW shows
  PROVE  /\ Sound(Page(kind), shows) /\ Page(kind).sizeReq <= 1
         /\ kind = "left" => Page(kind).sizeReq = 0
<1>1. Page(kind) \in Pages
  <2>1. (IF kind = "screen" THEN 1 ELSE 0) \in 0..(MaxViews + 1)
    BY LiveViewAssumption
  <2>2. (kind = "screen") \in BOOLEAN
    OBVIOUS
  <2>3. QED
    BY <2>1, <2>2, LiveViewAssumption DEF Page, Pages
<1>2. Staged(Page(kind)) /\ Fits(Page(kind), shows)
  BY LiveViewAssumption DEF Staged, Fits, Page, View
<1>3. QED
  BY <1>1, <1>2 DEF Sound, Page

\* A step that starts no view keeps the invariant if the page stays sound.
LEMMA QuietStep ==
  ASSUME ViewInv, Elsewhere', via' = via, mon' = mon,
         Sound(page', mon), page'.sizeReq <= page.sizeReq
  PROVE  ViewInv'
<1>1. PICK n \in 0..MaxViews : /\ \A v \in View : via[v] # "none" <=> v <= n
                               /\ page.sizeReq <= n + 1
  BY DEF ViewInv, Counted
<1>2. page.sizeReq \in Int /\ page'.sizeReq \in Int /\ n \in Int
  BY LiveViewAssumption DEF ViewInv, Sound, Pages
<1>3. page'.sizeReq <= n + 1
  BY <1>1, <1>2
<1>4. Counted'
  BY <1>1, <1>3 DEF Counted, View
<1>5. Fits(page', mon') /\ Staged(page') /\ page' \in Pages
  BY DEF Sound
<1>6. QED
  BY <1>4, <1>5 DEF ViewInv, Sound, Fits, Staged, Pages, View

\* A step that asks for the next view keeps it too.
LEMMA AskStep ==
  ASSUME ViewInv, NEW v \in View, Fresh(v), NEW p, Ask(p, v),
         UNCHANGED <<peer, link, inp>>,
         Sound(p, mon'), p.sizeReq <= page.sizeReq + 1
  PROVE  ViewInv'
<1>1. PICK n \in 0..MaxViews : /\ \A w \in View : via[w] # "none" <=> w <= n
                               /\ page.sizeReq <= n + 1
  BY DEF ViewInv, Counted
<1>2. v = n + 1
  <2>1. v > n
    BY <1>1, LiveViewAssumption DEF Fresh, View
  <2>2. CASE v = 1
    BY <2>1, <2>2, LiveViewAssumption
  <2>3. CASE v # 1
    <3>1. v - 1 \in View /\ v - 1 \in 1..(v - 1)
      BY <2>3, LiveViewAssumption DEF View
    <3>2. v - 1 <= n
      BY <1>1, <3>1 DEF Fresh
    <3>3. QED
      BY <2>1, <3>2, LiveViewAssumption DEF View
  <2>4. QED
    BY <2>2, <2>3
<1>3. Elsewhere'
  BY DEF ViewInv, Elsewhere, Ask, Sound, Pages
<1>4. Counted'
  <2>1. \A w \in View : via'[w] # "none" <=> w <= n + 1
    <3> SUFFICES ASSUME NEW w \in View PROVE via'[w] # "none" <=> w <= n + 1
      OBVIOUS
    <3>1. CASE w = v
      BY <1>2, <3>1, LiveViewAssumption DEF Ask, ViewInv, Elsewhere, View
    <3>2. CASE w # v
      <4>1. via'[w] = via[w]
        BY <3>2 DEF Ask, ViewInv, Elsewhere
      <4>2. QED
        BY <1>1, <1>2, <3>2, <4>1, LiveViewAssumption DEF View
    <3>3. QED
      BY <3>1, <3>2
  <2>2. page'.sizeReq <= (n + 1) + 1 /\ n + 1 \in 0..MaxViews
    <3>1. page' = p /\ p.sizeReq \in Int /\ page.sizeReq \in Int
      BY LiveViewAssumption DEF Ask, ViewInv, Sound, Pages
    <3>2. QED
      BY <1>1, <1>2, <3>1, LiveViewAssumption DEF View
  <2>3. QED
    BY <2>1, <2>2 DEF Counted, View
<1>5. Sound(page', mon')
  BY DEF Ask
<1>6. QED
  BY <1>3, <1>4, <1>5 DEF ViewInv, Sound, Fits, Staged, Pages, View

\* The steps of the input commands, of the hub's handlers and of the agent that the
\* page does not notice.
LEMMA UnseenStep ==
  ASSUME ViewInv,
         \/ \E v \in View : LiveAbandoned(v) \/ TaskDies(v)
         \/ LinkUp \/ Gesture \/ KeyDown \/ DirectInput \/ DirectInputTimeout
         \/ HubInput \/ HubInputTimeout \/ UNCHANGED viewVars
  PROVE  ViewInv'
<1> DEFINE Unseen == Elsewhere' /\ page' = page /\ via' = via /\ mon' = mon
<1>0. Elsewhere
  BY DEF ViewInv
<1>1. ASSUME NEW v \in View, LiveAbandoned(v) PROVE Unseen
  BY <1>0, <1>1 DEF LiveAbandoned, Elsewhere
<1>2. ASSUME NEW v \in View, TaskDies(v) PROVE Unseen
  BY <1>0, <1>2 DEF TaskDies, Elsewhere
<1>3. ASSUME LinkUp PROVE Unseen
  BY <1>0, <1>3 DEF LinkUp, Elsewhere
<1>4. ASSUME Gesture PROVE Unseen
  BY <1>0, <1>4 DEF Gesture, PostInput, HubPost, Elsewhere
<1>5. ASSUME KeyDown PROVE Unseen
  BY <1>4, <1>5 DEF KeyDown
<1>6. ASSUME DirectInput PROVE Unseen
  BY <1>0, <1>6 DEF DirectInput, Verdict, Elsewhere
<1>7. ASSUME DirectInputTimeout PROVE Unseen
  BY <1>0, <1>7 DEF DirectInputTimeout, HubPost, Elsewhere
<1>8. ASSUME HubInput PROVE Unseen
  BY <1>0, <1>8 DEF HubInput, Verdict, Elsewhere
<1>9. ASSUME HubInputTimeout PROVE Unseen
  BY <1>0, <1>9 DEF HubInputTimeout, Elsewhere
<1>10. ASSUME UNCHANGED viewVars PROVE Unseen
  BY <1>0, <1>10 DEF viewVars, Elsewhere
<1> HIDE DEF Unseen
<1>11. Unseen
  BY <1>1, <1>2, <1>3, <1>4, <1>5, <1>6, <1>7, <1>8, <1>9, <1>10
<1>12. Sound(page', mon) /\ page'.sizeReq <= page.sizeReq
  <2>1. page.sizeReq \in Int
    BY LiveViewAssumption DEF ViewInv, Sound, Pages
  <2>2. QED
    BY <1>11, <2>1 DEF Unseen, ViewInv
<1>13. QED
  BY <1>11, <1>12, QuietStep DEF Unseen

\* Starting a view, on either page.
LEMMA StartStep ==
  ASSUME ViewInv, NEW v \in View, ScreenStart(v) \/ CameraStart(v)
  PROVE  ViewInv'
<1>1. Sound(page, mon) /\ page \in Pages /\ mon \in [View -> Monitors \cup {NoMon}]
  BY DEF ViewInv, Sound, Elsewhere
<1>2. page.sizeReq \in Int /\ page.sizeReq <= MaxViews
  <2>1. PICK n \in 0..MaxViews : /\ \A w \in View : via[w] # "none" <=> w <= n
                                 /\ page.sizeReq <= n + 1
    BY DEF ViewInv, Counted
  <2>2. n < v /\ via[v] = "none"
    BY <2>1, LiveViewAssumption DEF ScreenStart, CameraStart, Fresh, View
  <2>3. QED
    BY <1>1, <2>1, <2>2, LiveViewAssumption DEF View, Pages
<1>3. CASE ScreenStart(v)
  <2> DEFINE p == StartStream(page, v)
  <2>1. Ask(p, v) /\ Fresh(v) /\ ~page.streaming /\ page.kind = "screen"
        /\ UNCHANGED <<peer, link, inp>>
    BY <1>3 DEF ScreenStart
  <2>2. p.kind = page.kind /\ p.monitor = page.monitor
    BY <1>1 DEF Pages, StartStream, DirectUp
  <2>3. mon'[v] = page.monitor
    BY <1>1, <2>1, <2>2 DEF Ask
  <2>4. Sound(p, mon') /\ p.sizeReq = page.sizeReq + 1
    BY <1>1, <1>2, <2>1, <2>3, StartSound
  <2> HIDE DEF p
  <2>5. p.sizeReq <= page.sizeReq + 1
    BY <1>2, <2>4
  <2>6. QED
    BY <2>1, <2>4, <2>5, AskStep
<1>4. CASE CameraStart(v)
  <2> DEFINE p == CamStartStream(page, v)
  <2>1. Ask(p, v) /\ Fresh(v) /\ ~page.streaming /\ page.kind = "camera"
        /\ UNCHANGED <<peer, link, inp>>
    BY <1>4 DEF CameraStart
  <2>2. Sound(p, mon') /\ p.sizeReq = page.sizeReq
    BY <1>1, <2>1, CamStartSound
  <2> HIDE DEF p
  <2>3. p.sizeReq <= page.sizeReq + 1
    BY <1>2, <2>2
  <2>4. QED
    BY <2>1, <2>2, <2>3, AskStep
<1>5. QED
  BY <1>3, <1>4

\* Choosing a display: the geometry moves to it, and a view of the old one goes.
LEMMA PickStep ==
  ASSUME ViewInv, NEW m \in Monitors, PickMonitor(m)
  PROVE  ViewInv'
<1> DEFINE p == ApplyMonitorGeometry([page EXCEPT !.monitor = m])
           q == StopStream(p)
<1>1. /\ Sound(page, mon) /\ page \in Pages /\ Staged(page) /\ Fits(page, mon)
      /\ mon \in [View -> Monitors \cup {NoMon}]
  BY DEF ViewInv, Sound, Elsewhere
<1>2. page.kind = "screen" /\ page.known /\ UNCHANGED <<peer, link, inp>>
  BY DEF PickMonitor
<1>3. /\ p \in Pages /\ p.sizeReq = page.sizeReq /\ p.kind = "screen" /\ p.known
      /\ p.monitor = m /\ p.off = m /\ p.size = m /\ p.streaming = page.streaming
      /\ p.rid = page.rid /\ p.img = page.img /\ p.shown = page.shown
      /\ p.reg = page.reg /\ p.ws = page.ws /\ p.dec = page.dec
  BY <1>1, <1>2 DEF ApplyMonitorGeometry, Pages
<1>4. Staged(p)
  BY <1>1, <1>3 DEF Staged
<1>5. page.sizeReq \in Int
  BY <1>1, LiveViewAssumption DEF Pages
<1>6. CASE ~page.streaming
  <2>1. page' = p /\ UNCHANGED <<task, via, mon, hub>>
    BY <1>6 DEF PickMonitor
  <2>2. p.rid \notin View /\ p.img \notin View /\ p.shown \notin View
    BY <1>3, <1>4, <1>6, LiveViewAssumption DEF Staged, View
  <2>3. Fits(p, mon)
    BY <1>3, <2>2 DEF Fits
  <2>4. Elsewhere'
    BY <1>2, <2>1 DEF ViewInv, Elsewhere
  <2> HIDE DEF p
  <2>5. Sound(page', mon) /\ page'.sizeReq <= page.sizeReq
    BY <1>3, <1>4, <1>5, <2>1, <2>3 DEF Sound
  <2>6. QED
    BY <2>1, <2>4, <2>5, QuietStep
<1>7. CASE page.streaming
  <2>1. PICK v \in View : Fresh(v) /\ Ask(StartStream(q, v), v)
    BY <1>7 DEF PickMonitor
  \* No picture of the old display survives stopStream, so every view fits.
  <2>2. q \in Pages /\ Staged(q) /\ ~q.streaming /\ q.sizeReq = page.sizeReq
        /\ q.kind = "screen" /\ q.monitor = m /\ Fits(q, mon)
    <3> HIDE DEF p
    <3>1. /\ q \in Pages /\ ~q.streaming /\ q.sizeReq = p.sizeReq /\ q.kind = p.kind
          /\ q.monitor = p.monitor /\ q.off = p.off /\ q.size = p.size
          /\ q.known = p.known /\ q.rid = NoView /\ q.img = NoView /\ q.shown = NoView
          /\ q.dec = NoView /\ q.reg = p.reg
          /\ q.ws = IF p.rid # NoView /\ p.ws = "open" THEN "closing" ELSE p.ws
      BY <1>3, StopFields
    <3> HIDE DEF q
    <3>2. Staged(q)
      BY <1>4, <3>1, LiveViewAssumption DEF Staged, View
    <3>3. Fits(q, mon)
      BY <1>3, <3>1, LiveViewAssumption DEF Fits, View
    <3>4. QED
      BY <1>3, <3>1, <3>2, <3>3
  <2>3. page.sizeReq <= MaxViews
    <3>1. PICK n \in 0..MaxViews : /\ \A w \in View : via[w] # "none" <=> w <= n
                                   /\ page.sizeReq <= n + 1
      BY DEF ViewInv, Counted
    <3>2. n < v /\ via[v] = "none"
      BY <2>1, <3>1, LiveViewAssumption DEF Fresh, View
    <3>3. QED
      BY <1>5, <3>1, <3>2, LiveViewAssumption DEF View
  <2> HIDE DEF p, q
  <2> DEFINE s == StartStream(q, v)
  <2>4. s.kind = "screen" /\ s.monitor = m
    BY <2>2 DEF Pages, StartStream, DirectUp
  <2>5. mon'[v] = q.monitor
    BY <1>1, <2>1, <2>2, <2>4 DEF Ask
  <2>6. Sound(s, mon') /\ s.sizeReq = q.sizeReq + 1
    BY <2>2, <2>3, <2>5, StartSound DEF Sound
  <2> HIDE DEF s
  <2>7. s.sizeReq <= page.sizeReq + 1
    BY <1>5, <2>2, <2>6
  <2>8. QED
    BY <1>2, <2>1, <2>6, <2>7, AskStep DEF s
<1>8. QED
  BY <1>6, <1>7

\* Stopping a view, on either page.
LEMMA StopStep ==
  ASSUME ViewInv, ScreenStop \/ CameraStop
  PROVE  ViewInv'
<1>1. /\ page' = StopStream(page) /\ via' = via /\ mon' = mon
      /\ UNCHANGED <<peer, task, hub, link, inp>>
  BY DEF ScreenStop, CameraStop, CamStopStream
<1>2. Elsewhere'
  BY <1>1 DEF ViewInv, Elsewhere
<1>3. Sound(page', mon) /\ page'.sizeReq = page.sizeReq
  BY <1>1, StopSound DEF ViewInv
<1>4. page.sizeReq \in Int
  BY LiveViewAssumption DEF ViewInv, Sound, Pages
<1>5. QED
  BY <1>1, <1>2, <1>3, <1>4, QuietStep

\* The socket is dialled, and there or not.
LEMMA DialStep ==
  ASSUME ViewInv, AskDirect \/ DirectHello
  PROVE  ViewInv'
<1>1. PICK w \in {"dialing", "open", "none"} :
        /\ page' = [page EXCEPT !.ws = w] /\ via' = via /\ mon' = mon
        /\ UNCHANGED <<peer, task, hub, link, inp>>
        /\ page.ws \in {"asking", "dialing"}
  BY DEF AskDirect, DirectInfo, DirectHello, DirectServer
<1>2. page \in Pages /\ Staged(page) /\ Fits(page, mon)
  BY DEF ViewInv, Sound
<1>3. Elsewhere'
  BY <1>1 DEF ViewInv, Elsewhere
<1>4. page' \in Pages /\ page'.sizeReq = page.sizeReq /\ page.sizeReq \in Int
  BY <1>1, <1>2, LiveViewAssumption DEF Pages
<1>5. Staged(page')
  BY <1>1, <1>2, LiveViewAssumption DEF Staged, Pages, View
<1>6. Fits(page', mon)
  BY <1>1, <1>2 DEF Fits, Pages
<1>7. QED
  BY <1>1, <1>3, <1>4, <1>5, <1>6, QuietStep DEF Sound

\* The socket is gone, by its close or by the network.
LEMMA CloseStep ==
  ASSUME ViewInv, CloseCompletes \/ DirectDrops
  PROVE  ViewInv'
<1> DEFINE q == [page EXCEPT !.ws = "none", !.reg = {}]
           e == [EndHandler(page) EXCEPT !.ws = "none", !.reg = {}]
<1>1. /\ page' = IF page.reg = {} THEN q ELSE e
      /\ task' = Cut("direct") /\ via' = via /\ mon' = mon
      /\ UNCHANGED <<peer, hub, link, inp>>
  BY DEF CloseCompletes, DirectDrops, SocketClosed
<1>2. Sound(page, mon) /\ page \in Pages /\ Staged(page) /\ Fits(page, mon)
  BY DEF ViewInv, Sound
<1>3. Elsewhere'
  BY <1>1 DEF ViewInv, Elsewhere, Cut
<1>4. page.reg = {} => Sound(q, mon) /\ q.sizeReq = page.sizeReq
  <2> SUFFICES ASSUME page.reg = {} PROVE Sound(q, mon) /\ q.sizeReq = page.sizeReq
    OBVIOUS
  <2>1. q \in Pages /\ q.sizeReq = page.sizeReq
    BY <1>2 DEF Pages
  <2>2. Staged(q)
    BY <1>2, LiveViewAssumption DEF Staged, Pages, View
  <2>3. Fits(q, mon)
    BY <1>2 DEF Fits, Pages
  <2>4. QED
    BY <2>1, <2>2, <2>3 DEF Sound
<1>5. Sound(e, mon) /\ e.sizeReq = page.sizeReq
  <2>1. e \in Pages
    BY <1>2 DEF Pages, EndHandler, CloseDecoders
  <2>2. QED
    BY <1>2, <2>1, EndSound
<1>6. page.sizeReq \in Int
  BY <1>2, LiveViewAssumption DEF Pages
<1> HIDE DEF q, e
<1>7. Sound(page', mon) /\ page'.sizeReq <= page.sizeReq
  BY <1>1, <1>4, <1>5, <1>6
<1>8. QED
  BY <1>1, <1>3, <1>7, QuietStep

\* Leaving the page.
LEMMA LeaveStep ==
  ASSUME ViewInv, LeavePage
  PROVE  ViewInv'
<1> DEFINE p == Page("left")
           q == [p EXCEPT !.ws = "none"]
<1>1. /\ page' = q /\ task' = Cut("direct") /\ via' = via /\ mon' = mon
      /\ inp' = [inp EXCEPT !.st = IF @ \in {"direct", "hub"} THEN "left" ELSE @]
      /\ UNCHANGED <<peer, hub, link>>
  BY DEF LeavePage
<1>2. p \in Pages /\ Staged(p) /\ p.sizeReq = 0 /\ p.kind = "left" /\ p.reg = {}
      /\ p.rid = NoView
  BY FreshPage DEF Sound, Page
<1> HIDE DEF p
<1>3. Elsewhere'
  BY <1>1 DEF ViewInv, Elsewhere, Cut
<1>4. q \in Pages /\ q.sizeReq = 0 /\ q.kind = "left"
  BY <1>2 DEF Pages
<1>5. Staged(q)
  BY <1>2 DEF Staged, Pages
<1>6. page.sizeReq \in Nat
  BY LiveViewAssumption DEF ViewInv, Sound, Pages
<1>7. Sound(page', mon) /\ page'.sizeReq <= page.sizeReq
  BY <1>1, <1>4, <1>5, <1>6 DEF Sound, Fits
<1>8. QED
  BY <1>1, <1>3, <1>7, QuietStep

\* The hub's handler sends its request or gives up on it.
LEMMA LiveStep ==
  ASSUME ViewInv, NEW v \in View, ScreenLive(v) \/ CameraLive(v) \/ LiveTimeout(v)
  PROVE  ViewInv'
<1>1. via' = via /\ mon' = mon /\ page' \in {page, Failed(v)} /\ Elsewhere'
  <2>1. CASE Live(v)
    BY <2>1 DEF Live, ViewInv, Elsewhere
  <2>2. CASE LiveTimeout(v)
    BY <2>2 DEF LiveTimeout, ViewInv, Elsewhere
  <2>3. QED
    BY <2>1, <2>2 DEF ScreenLive, CameraLive
<1>2. page.sizeReq \in Int
  BY LiveViewAssumption DEF ViewInv, Sound, Pages
<1>3. Sound(page', mon) /\ page'.sizeReq <= page.sizeReq
  BY <1>1, <1>2, FailedSound DEF ViewInv
<1>4. QED
  BY <1>1, <1>3, QuietStep

\* A capture starts: the page opens decoders for the view that it shows.
LEMMA OpenStep ==
  ASSUME ViewInv, NEW v \in View, TaskOpens(v)
  PROVE  ViewInv'
<1>1. page \in Pages /\ Staged(page) /\ Fits(page, mon)
  BY DEF ViewInv, Sound
<1>2. via' = via /\ mon' = mon /\ Elsewhere'
  BY DEF TaskOpens, ViewInv, Elsewhere
<1>3. page.sizeReq \in Int
  BY <1>1, LiveViewAssumption DEF Pages
<1>4. Sound(page', mon) /\ page'.sizeReq = page.sizeReq
  <2>1. CASE ~Heard(v)
    BY <1>1, <2>1 DEF TaskOpens, Sound
  <2>2. CASE Heard(v)
    <3>1. page.rid = v
      BY <1>1, <2>2 DEF Heard, Staged
    <3>2. PICK codec \in {"mjpeg", "h264", "unsupported"} :
            page' = StartHandler(page, v, codec)
      BY <2>2 DEF TaskOpens, Codecs, CamStartHandler
    <3>3. \/ page' = page
          \/ page' = [page EXCEPT !.canvas = TRUE]
          \/ page' = [[page EXCEPT !.canvas = TRUE] EXCEPT !.dec = v]
      BY <3>2 DEF StartHandler, OpenDecoders
    <3>4. CASE page' = page
      BY <1>1, <3>4 DEF Sound
    <3>5. CASE page' = [page EXCEPT !.canvas = TRUE]
      <4>1. page' \in Pages /\ page'.sizeReq = page.sizeReq
        BY <1>1, <3>5 DEF Pages
      <4>2. Staged(page') /\ Fits(page', mon)
        BY <1>1, <3>5 DEF Staged, Fits, Pages
      <4>3. QED
        BY <4>1, <4>2 DEF Sound
    <3>6. CASE page' = [[page EXCEPT !.canvas = TRUE] EXCEPT !.dec = v]
      <4>1. page' \in Pages /\ page'.sizeReq = page.sizeReq
        BY <1>1, <3>6 DEF Pages
      <4>2. Staged(page')
        BY <1>1, <3>1, <3>6 DEF Staged, Pages
      <4>3. Fits(page', mon)
        BY <1>1, <3>6 DEF Fits, Pages
      <4>4. QED
        BY <4>1, <4>2, <4>3 DEF Sound
    <3>7. QED
      BY <3>3, <3>4, <3>5, <3>6
  <2>3. QED
    BY <2>1, <2>2
<1>5. QED
  BY <1>2, <1>3, <1>4, QuietStep

\* A capture is refused, or ends.
LEMMA EndStep ==
  ASSUME ViewInv, NEW v \in View, ScreenRefuses(v) \/ CameraRefuses(v) \/ TaskEnds(v)
  PROVE  ViewInv'
<1>1. via' = via /\ mon' = mon /\ page' \in {Failed(v), Ended(v)} /\ Elsewhere'
  <2>1. CASE TaskRefuses(v)
    BY <2>1 DEF TaskRefuses, ViewInv, Elsewhere
  <2>2. CASE TaskEnds(v)
    BY <2>2 DEF TaskEnds, ViewInv, Elsewhere
  <2>3. QED
    BY <2>1, <2>2 DEF ScreenRefuses, CameraRefuses
<1>2. page.sizeReq \in Int
  BY LiveViewAssumption DEF ViewInv, Sound, Pages
<1>3. Sound(page', mon) /\ page'.sizeReq <= page.sizeReq
  BY <1>1, <1>2, FailedSound, EndedSound
<1>4. QED
  BY <1>1, <1>3, QuietStep

\* A picture: it is of the view that the page has.
LEMMA FrameStep ==
  ASSUME ViewInv, NEW v \in View, ScreenFrame(v) \/ CameraFrame(v)
  PROVE  ViewInv'
<1>1. page \in Pages /\ Staged(page) /\ Fits(page, mon)
  BY DEF ViewInv, Sound
<1>2. /\ page' = [page EXCEPT !.shown = v] /\ via' = via /\ mon' = mon
      /\ UNCHANGED <<peer, task, hub, link, inp>>
      /\ Heard(v) \/ page.img = v
  BY DEF ScreenFrame, CameraFrame, Frame
<1>3. Elsewhere'
  BY <1>2 DEF ViewInv, Elsewhere
<1>4. page.streaming /\ (page.rid = v \/ page.img = v)
  BY <1>1, <1>2, LiveViewAssumption DEF Heard, Staged, View
<1>5. page' \in Pages /\ page'.sizeReq = page.sizeReq /\ page.sizeReq \in Int
  BY <1>1, <1>2, LiveViewAssumption DEF Pages
<1>6. Staged(page')
  BY <1>1, <1>2, <1>4 DEF Staged, Pages
<1>7. Fits(page', mon)
  BY <1>1, <1>2, <1>4 DEF Fits, Pages
<1>8. QED
  BY <1>2, <1>3, <1>5, <1>6, <1>7, QuietStep DEF Sound

\* The agent's link to the hub drops: an <img> that waits fails.
LEMMA LinkDownStep ==
  ASSUME ViewInv, LinkDown
  PROVE  ViewInv'
<1>1. via' = via /\ mon' = mon /\ Elsewhere'
  BY DEF LinkDown, ViewInv, Elsewhere, Cut
<1>2. page' = page \/ (page' = ImgError(page) /\ page.img \in View)
  BY DEF LinkDown
<1>3. page.sizeReq \in Int
  BY LiveViewAssumption DEF ViewInv, Sound, Pages
<1>4. Sound(page', mon) /\ page'.sizeReq <= page.sizeReq
  BY <1>2, <1>3, ErrorSound DEF ViewInv
<1>5. QED
  BY <1>1, <1>4, QuietStep

\* An answer to a request for the geometry.
LEMMA GeometryStep ==
  ASSUME ViewInv, ScreenSizeReply \/ LoadMonitors
  PROVE  ViewInv'
<1>1. page \in Pages /\ Staged(page) /\ Fits(page, mon)
  BY DEF ViewInv, Sound
<1>2. via' = via /\ mon' = mon /\ UNCHANGED <<peer, task, hub, link, inp>>
  BY DEF ScreenSizeReply, LoadMonitors
<1>3. Elsewhere'
  BY <1>2 DEF ViewInv, Elsewhere
<1>4. page.sizeReq \in 0..(MaxViews + 1) /\ MaxViews \in Nat
  BY <1>1, LiveViewAssumption DEF Pages
<1>5. CASE ScreenSizeReply
  <2> DEFINE p == [page EXCEPT !.sizeReq = @ - 1]
  <2>1. page' = TakeScreenSize(p) \/ page' = p
    BY <1>5 DEF ScreenSizeReply
  <2>2. p \in Pages /\ p.sizeReq = page.sizeReq - 1
    <3>1. page.sizeReq - 1 \in 0..(MaxViews + 1)
      BY <1>4, <1>5 DEF ScreenSizeReply
    <3>2. QED
      BY <1>1, <3>1 DEF Pages
  <2>3. Staged(p) /\ Fits(p, mon)
    BY <1>1 DEF Staged, Fits, Pages
  <2> HIDE DEF p
  <2>4. Sound(page', mon) /\ page'.sizeReq = p.sizeReq
    BY <2>1, <2>2, <2>3, SizeSound DEF Sound
  <2>5. page'.sizeReq <= page.sizeReq
    BY <1>4, <2>2, <2>4
  <2>6. QED
    BY <1>2, <1>3, <2>4, <2>5, QuietStep
<1>6. CASE LoadMonitors
  <2> DEFINE p == [page EXCEPT !.monReq = FALSE]
  <2>1. page' = ApplyMonitorGeometry([p EXCEPT !.known = TRUE]) \/ page' = p
    BY <1>6 DEF LoadMonitors
  <2>2. p \in Pages /\ p.sizeReq = page.sizeReq
    BY <1>1 DEF Pages
  <2>3. Staged(p) /\ Fits(p, mon)
    BY <1>1 DEF Staged, Fits, Pages
  <2> HIDE DEF p
  <2>4. Sound(page', mon) /\ page'.sizeReq = p.sizeReq
    BY <2>1, <2>2, <2>3, DisplaysSound DEF Sound
  <2>5. page'.sizeReq <= page.sizeReq
    BY <1>4, <2>2, <2>4
  <2>6. QED
    BY <1>2, <1>3, <2>4, <2>5, QuietStep
<1>7. QED
  BY <1>5, <1>6

\* What a page has on its stage, and its geometry.
Offstage(p, q) ==
  /\ q.kind = p.kind /\ q.ws = p.ws /\ q.reg = p.reg /\ q.streaming = p.streaming
  /\ q.rid = p.rid /\ q.img = p.img /\ q.shown = p.shown /\ q.dec = p.dec
  /\ q.monitor = p.monitor /\ q.size = p.size /\ q.off = p.off /\ q.known = p.known
  /\ q.sizeReq = p.sizeReq

\* What a snapshot goes through does not touch the stage until its photo is shown.
LEMMA OffstageStep ==
  ASSUME ViewInv, via' = via, mon' = mon, Elsewhere', page' \in Pages,
         Offstage(page, page')
  PROVE  ViewInv'
<1>1. page \in Pages /\ Staged(page) /\ Fits(page, mon)
  BY DEF ViewInv, Sound
<1>2. Staged(page') /\ Fits(page', mon)
  BY <1>1 DEF Staged, Fits, Offstage
<1>3. page'.sizeReq <= page.sizeReq
  BY <1>1, LiveViewAssumption DEF Pages, Offstage
<1>4. QED
  BY <1>2, <1>3, QuietStep DEF Sound

\* The snapshots of the camera page.  A photo takes the stage from an <img>, and
\* leaves a direct view to paint over it.
LEMMA PhotoStep ==
  ASSUME ViewInv, Capture \/ Poll \/ CameraCapture \/ TakePhoto \/ CaptureReply
  PROVE  ViewInv'
<1>1. page \in Pages /\ Staged(page) /\ Fits(page, mon)
  BY DEF ViewInv, Sound
<1>2. via' = via /\ mon' = mon /\ UNCHANGED <<peer, task, hub, link, inp>>
  BY DEF Capture, Poll, CameraCapture, TakePhoto, CaptureReply
<1>3. Elsewhere'
  BY <1>2 DEF ViewInv, Elsewhere
<1>4. page.sizeReq \in Int
  BY <1>1, LiveViewAssumption DEF Pages
<1>5. CASE Capture \/ CameraCapture \/ TakePhoto
  <2>1. PICK s \in {"idle", "asked", "taking", "photo", "failed"} :
          page' = [page EXCEPT !.snap = s]
    BY <1>5 DEF Capture, CameraCapture, TakePhoto
  <2>2. page' \in Pages /\ Offstage(page, page')
    BY <1>1, <2>1 DEF Pages, Offstage
  <2>3. QED
    BY <1>2, <1>3, <2>2, OffstageStep
<1>6. CASE Poll
  <2>1. page' \in Pages
    <3>1. page.poll \in BOOLEAN
          /\ page.snap \in {"idle", "asked", "taking", "photo", "failed"}
      BY <1>1 DEF Pages
    <3>2. PICK s \in {"idle", "asked", "taking", "photo", "failed"}, b \in BOOLEAN :
            page' = [page EXCEPT !.poll = b, !.snap = s]
      BY <1>6, <3>1 DEF Poll
    <3>3. CASE page' = [page EXCEPT !.poll = TRUE, !.snap = s]
      BY <1>1, <3>3 DEF Pages
    <3>4. CASE page' = [page EXCEPT !.poll = FALSE, !.snap = s]
      BY <1>1, <3>4 DEF Pages
    <3>5. b = TRUE \/ b = FALSE
      OBVIOUS
    <3>6. QED
      BY <3>2, <3>3, <3>4, <3>5, Zenon
  <2>2. Offstage(page, page')
    BY <1>1, <1>6 DEF Poll, Pages, Offstage
  <2>3. QED
    BY <1>2, <1>3, <2>1, <2>2, OffstageStep
<1>7. CASE page' = [page EXCEPT !.snap = "idle", !.poll = FALSE]
  <2>1. page' \in Pages
    BY <1>1, <1>7 DEF Pages
  <2>2. Offstage(page, page')
    BY <1>1, <1>7 DEF Pages, Offstage
  <2>3. QED
    BY <1>2, <1>3, <2>1, <2>2, OffstageStep
<1>8. CASE page' = [ShowImage(page) EXCEPT !.snap = "idle"]
  <2> DEFINE q == ShowImage(page)
  <2>1. q \in Pages /\ q.sizeReq = page.sizeReq
    BY <1>1 DEF Pages, ShowImage
  <2>2. Staged(q) /\ Fits(q, mon)
    BY <1>1, LiveViewAssumption DEF Staged, Fits, Pages, View, ShowImage
  <2> HIDE DEF q
  <2>3. page' = [q EXCEPT !.snap = "idle"]
    BY <1>8 DEF q
  <2>4. page' \in Pages /\ page'.sizeReq = page.sizeReq
    BY <2>1, <2>3 DEF Pages
  <2>5. Staged(page') /\ Fits(page', mon)
    BY <2>1, <2>2, <2>3 DEF Staged, Fits, Pages
  <2>6. QED
    BY <1>2, <1>3, <1>4, <2>4, <2>5, QuietStep DEF Sound
<1>9. QED
  BY <1>5, <1>6, <1>7, <1>8 DEF CaptureReply

\* A page that has loaded is sound, and no view has started.
LEMMA ViewStart == ViewInit => ViewInv
<1> SUFFICES ASSUME ViewInit PROVE ViewInv
  OBVIOUS
<1>1. PICK kind \in {"screen", "camera"} : page = Page(kind)
  BY DEF ViewInit
<1>2. Sound(page, mon) /\ page.sizeReq <= 1
  BY <1>1, FreshPage
<1>3. Elsewhere
  BY DEF ViewInit, Elsewhere
<1>4. Counted
  <2>1. 0 \in 0..MaxViews /\ \A v \in View : via[v] = "none" /\ ~(v <= 0)
    BY LiveViewAssumption DEF ViewInit, View
  <2>2. QED
    BY <1>2, <2>1 DEF Counted
<1>5. QED
  BY <1>2, <1>3, <1>4 DEF ViewInv

\* Every step keeps the invariant.
LEMMA ViewStep == ViewInv /\ [ViewNext]_viewVars => ViewInv'
<1> SUFFICES ASSUME ViewInv, [ViewNext]_viewVars PROVE ViewInv'
  OBVIOUS
<1>1. ASSUME NEW v \in View,
             \/ ScreenStart(v) \/ CameraStart(v) \/ ScreenLive(v) \/ CameraLive(v)
             \/ LiveTimeout(v) \/ LiveAbandoned(v) \/ TaskOpens(v)
             \/ ScreenRefuses(v) \/ CameraRefuses(v)
             \/ ScreenFrame(v) \/ CameraFrame(v) \/ TaskEnds(v) \/ TaskDies(v)
      PROVE  ViewInv'
  BY <1>1, StartStep, LiveStep, OpenStep, EndStep, FrameStep, UnseenStep
<1>2. ASSUME NEW m \in Monitors, PickMonitor(m) PROVE ViewInv'
  BY <1>2, PickStep
<1>3. CASE \/ ScreenStop \/ CameraStop \/ AskDirect \/ DirectHello
           \/ CloseCompletes \/ DirectDrops \/ LeavePage \/ LinkDown
           \/ ScreenSizeReply \/ LoadMonitors
  BY <1>3, StopStep, DialStep, CloseStep, LeaveStep, LinkDownStep, GeometryStep
<1>4. CASE \/ LinkUp \/ Gesture \/ KeyDown \/ DirectInput \/ DirectInputTimeout
           \/ HubInput \/ HubInputTimeout \/ UNCHANGED viewVars
  BY <1>4, UnseenStep
<1>5. CASE Capture \/ Poll \/ CameraCapture \/ TakePhoto \/ CaptureReply
  BY <1>5, PhotoStep
<1>6. QED
  BY <1>1, <1>2, <1>3, <1>4, <1>5 DEF ViewNext

\* The invariant holds in every order of answers, frames, clicks and drops.
LEMMA AlwaysViewInv == ViewSpec => []ViewInv
BY ViewStart, ViewStep, PTL DEF ViewSpec

\* The page, its views and its commands keep their types.
THEOREM ViewTypes == ViewSpec => []ViewTypeOK
<1>1. ViewInv => ViewTypeOK
  BY DEF ViewInv, Elsewhere, Sound, ViewTypeOK
<1>2. QED
  BY <1>1, AlwaysViewInv, PTL

\* A click is moved by the origin of the display on the stage, and scaled by its
\* size as soon as the page knows a size, for any number of displays, views and
\* requests for the geometry.
THEOREM ClicksAreRight == ViewSpec => []ClicksHitTheShownDisplay
<1>1. ViewInv => ClicksHitTheShownDisplay
  BY DEF ViewInv, Sound, Fits, ClicksHitTheShownDisplay, ToPhoneCoords
<1>2. QED
  BY <1>1, AlwaysViewInv, PTL

\* Decoders are open for the direct view that the page shows, and for no other.
THEOREM DecodersAreRight == ViewSpec => []DecodersAreCurrent
<1>1. ViewInv => DecodersAreCurrent
  BY DEF ViewInv, Sound, Staged, DecodersAreCurrent
<1>2. QED
  BY <1>1, AlwaysViewInv, PTL
=============================================================================
