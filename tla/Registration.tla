---------------------------- MODULE Registration ----------------------------
(***************************************************************************)
(* Account creation: register_post and api_session_register (hub/app.py)   *)
(* over the users and invites tables (hub/db.py).  The handlers run in a   *)
(* thread pool, and on every hub node that shares the database, without a  *)
(* transaction around their statements: every SQL statement commits by     *)
(* itself, so each is a step of its own here.                              *)
(*                                                                         *)
(* A node may reach the database through an embedded replica: it writes to *)
(* the primary and reads a local file, which db.sync() brings up to date   *)
(* from time to time.                                                      *)
(***************************************************************************)
CONSTANTS
  Node,     \* hub nodes
  Replica,  \* those that read an embedded replica
  Req,      \* registration requests
  Name,     \* user names
  Code,     \* invite codes
  NoName, NoReq, NoForm

ASSUME RegistrationAssumption ==
  /\ Replica \subseteq Node
  /\ NoName \notin Name /\ NoReq \notin Req

VARIABLES
  users,    \* the users table: "none", "member" or "admin"
  creator,  \* history: the request whose INSERT made the row
  issued,   \* invites.code
  used_by,  \* invites.used_by
  pulled,   \* what the file of each replica shows
  pc,       \* the next statement of each request, or its answer
  form      \* what a request has submitted, its node and its route

tableVars == <<users, creator, issued, used_by>>
reqVars == <<pc, form>>
vars == <<tableVars, pulled, reqVars>>

Account == {n \in Name : users[n] # "none"}
Admin == {n \in Name : users[n] = "admin"}

\* What a SELECT can find: the accounts, and the invites that are still valid.
Content == [accounts |-> Account, invites |-> {i \in issued : used_by[i] = NoName}]
Snapshot == [accounts: SUBSET Name, invites: SUBSET Code]

\* What one finds on node n.
Shown(n) == IF n \in Replica THEN pulled[n] ELSE Content

InFlight == {"lookup", "invite", "insert", "consume", "login"}

\* Refused: any answer but the one with a session, or none at all.
Answer == {"ok", "refused"}

\* route is is_bootstrap and mode, as the request saw them.
Form == [at: Node, name: Name, code: Code, route: {"bootstrap", "open", "invite"}]

Init ==
  /\ users = [n \in Name |-> "none"]
  /\ creator = [n \in Name |-> NoReq]
  /\ issued = {}
  /\ used_by = [i \in Code |-> NoName]
  /\ pulled = [n \in Replica |-> Content]
  /\ pc = [r \in Req |-> "idle"]
  /\ form = [r \in Req |-> NoForm]

Goto(r, l) == pc' = [pc EXCEPT ![r] = l] /\ UNCHANGED form
Refuse(r) == pc' = [pc EXCEPT ![r] = "refused"] /\ form' = [form EXCEPT ![r] = NoForm]

\* The modes a request on node n may find: user_count() decides about the bootstrap,
\* otherwise registration_mode() of the node's own configuration does, which an
\* admin may change at any time.
Routes(n) == IF Shown(n).accounts = {} THEN {"bootstrap"} ELSE {"open", "invite"}

Submit(r) ==
  /\ pc[r] = "idle"
  /\ \/ /\ \E f \in Form : f.route \in Routes(f.at) /\ form' = [form EXCEPT ![r] = f]
        /\ pc' = [pc EXCEPT ![r] = "lookup"]
     \/ (\E n \in Node : Shown(n).accounts # {}) /\ Refuse(r)
  /\ UNCHANGED <<tableVars, pulled>>

\* get_user_by_username
CheckName(r) ==
  /\ pc[r] = "lookup"
  /\ IF form[r].name \in Shown(form[r].at).accounts
     THEN Refuse(r)
     ELSE Goto(r, IF form[r].route = "invite" THEN "invite" ELSE "insert")
  /\ UNCHANGED <<tableVars, pulled>>

\* invite_is_valid
CheckInvite(r) ==
  /\ pc[r] = "invite"
  /\ IF form[r].code \in Shown(form[r].at).invites THEN Goto(r, "insert") ELSE Refuse(r)
  /\ UNCHANGED <<tableVars, pulled>>

\* Mutant of CreateUser: is_admin gets the route instead of a flag.
CreateUserWithRoute(r) ==
  /\ pc[r] = "insert"
  /\ IF form[r].name \in Account
     THEN Refuse(r) /\ UNCHANGED <<users, creator>>
     ELSE /\ users' = [users EXCEPT ![form[r].name] = form[r].route]
          /\ creator' = [creator EXCEPT ![form[r].name] = r]
          /\ Goto(r, IF form[r].route = "invite" THEN "consume" ELSE "login")
  /\ UNCHANGED <<issued, used_by, pulled>>

\* Mutant of CreateUser: whoever needs no invite becomes admin.
CreateUserOpenAdmin(r) ==
  /\ pc[r] = "insert"
  /\ IF form[r].name \in Account
     THEN Refuse(r) /\ UNCHANGED <<users, creator>>
     ELSE /\ users' = [users EXCEPT ![form[r].name] =
                         IF form[r].route # "invite" THEN "admin" ELSE "member"]
          /\ creator' = [creator EXCEPT ![form[r].name] = r]
          /\ Goto(r, IF form[r].route = "invite" THEN "consume" ELSE "login")
  /\ UNCHANGED <<issued, used_by, pulled>>

\* create_user: username is UNIQUE, so a second INSERT raises.
CreateUser(r) ==
  /\ pc[r] = "insert"
  /\ IF form[r].name \in Account
     THEN Refuse(r) /\ UNCHANGED <<users, creator>>
     ELSE /\ users' = [users EXCEPT ![form[r].name] =
                         IF form[r].route = "bootstrap" THEN "admin" ELSE "member"]
          /\ creator' = [creator EXCEPT ![form[r].name] = r]
          /\ Goto(r, IF form[r].route = "invite" THEN "consume" ELSE "login")
  /\ UNCHANGED <<issued, used_by, pulled>>

\* Mutant of ConsumeInvite: WHERE code = ? without used_by IS NULL.
ConsumeInviteAgain(r) ==
  /\ pc[r] = "consume"
  /\ used_by' = [used_by EXCEPT ![form[r].code] = form[r].name]
  /\ Goto(r, "login")
  /\ UNCHANGED <<users, creator, issued, pulled>>

\* consume_invite: one guarded UPDATE.  If another request was faster the
\* handler answers with an error; the account it has just made stays.
ConsumeInvite(r) ==
  /\ pc[r] = "consume"
  /\ IF used_by[form[r].code] = NoName
     THEN used_by' = [used_by EXCEPT ![form[r].code] = form[r].name] /\ Goto(r, "login")
     ELSE Refuse(r) /\ UNCHANGED used_by
  /\ UNCHANGED <<users, creator, issued, pulled>>

\* auth.login: the answer carries a session cookie.
Login(r) ==
  /\ pc[r] = "login"
  /\ Goto(r, "ok")
  /\ UNCHANGED <<tableVars, pulled>>

\* The process dies, or a statement fails at a remote database, between two
\* statements.
Fail(r) ==
  /\ pc[r] \in InFlight
  /\ Refuse(r)
  /\ UNCHANGED <<tableVars, pulled>>

\* admin_invites_create, by an admin whom the node's database shows.
CreateInvite(n, i) ==
  /\ Admin \cap Shown(n).accounts # {} /\ i \notin issued
  /\ issued' = issued \cup {i}
  /\ UNCHANGED <<users, creator, used_by, pulled, reqVars>>

\* db.sync() of _db_sync_loop; the pull at a start of the node does the same.
Sync(n) ==
  /\ n \in Replica
  /\ pulled' = [pulled EXCEPT ![n] = Content]
  /\ UNCHANGED <<tableVars, reqVars>>

Handle(r) ==
  \/ Submit(r) \/ CheckName(r) \/ CheckInvite(r) \/ CreateUser(r)
  \/ ConsumeInvite(r) \/ Login(r) \/ Fail(r)

Next ==
  \/ \E r \in Req : Handle(r)
  \/ \E n \in Node : Sync(n) \/ \E i \in Code : CreateInvite(n, i)

Spec == Init /\ [][Next]_vars

-----------------------------------------------------------------------------
(* Properties *)

\* The type invariant of the two tables and of the requests that use them.
TypeOK ==
  /\ users \in [Name -> {"none", "member", "admin"}]
  /\ creator \in [Name -> Req \cup {NoReq}]
  /\ issued \subseteq Code
  /\ used_by \in [Code -> Name \cup {NoName}]
  /\ pulled \in [Replica -> Snapshot]
  /\ pc \in [Req -> {"idle"} \cup InFlight \cup Answer]
  /\ form \in [Req -> Form \cup {NoForm}]
  /\ \A r \in Req : pc[r] \in InFlight \cup {"ok"} => form[r] \in Form

\* A registration that is answered with a session made the account itself:
\* of the requests racing for one name, at most one is told it succeeded.
SuccessOwnsAccount ==
  \A r \in Req : pc[r] = "ok" => creator[form[r].name] = r

\* In invite mode, success means the invite is spent on this very account, so
\* a code that several requests found valid still admits one of them only.
AdmittedByInvite ==
  \A r \in Req : pc[r] = "ok" /\ form[r].route = "invite" => used_by[form[r].code] = form[r].name

\* A spent invite names an account that exists: no failure between the
\* statements, and no lost race for the user name, burns an invite.
SpentInviteHasAccount ==
  \A i \in Code : used_by[i] # NoName => used_by[i] \in Account

\* Who is admitted, and on what: each success has its own account and, in
\* invite mode, its own invite, and no invite is spent on nobody.
AdmissionsAreSound ==
  SuccessOwnsAccount /\ AdmittedByInvite /\ SpentInviteHasAccount

\* Once the database of every node shows an account, replicas included, and no
\* request that counted zero users is still under way, nobody becomes admin by
\* registering.  Until then a node that lags behind may still make one.
NoLateAdmin ==
  [][ (/\ \A n \in Node : Shown(n).accounts # {}
       /\ \A r \in Req : pc[r] \in InFlight => form[r].route # "bootstrap")
        => Admin' \subseteq Admin ]_vars

=============================================================================
