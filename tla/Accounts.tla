------------------------------ MODULE Accounts ------------------------------
(***************************************************************************)
(* User accounts: roles, activation, passwords, reset links, and the audit *)
(* trail that signals write around every save.                             *)
(*                                                                         *)
(* A request authenticates, reads the account it is about (task[r].row is  *)
(* the copy, already changed as asked), and saves some columns of it or    *)
(* all.  Around a save the audit reads the row as it was (prior) and       *)
(* appends an entry afterwards, each in a transaction of its own.          *)
(***************************************************************************)
EXTENDS Integers, FiniteSets

CONSTANTS
  Workers,       \* the workers that handle requests, each one at a time
  Usernames, Links,   \* identifiers of accounts and of mailed reset links
  None,          \* no user, no link
  MaxPasswords,  \* bound on the passwords ever set
  MaxLogins,     \* bound on last_login, counted in logins
  Channels,      \* how requests authenticate: "cookie", "bearer"
  Workloads,     \* the sets of operations requested, one per behaviour
  Meetings,      \* the sets {op1, op2} that may be in progress on two accounts
  Sharing,       \* the sets {op1, op2} that may be in progress on one account
  MayDie         \* the stages in which a worker may die

OwnerOps == {"update", "update self", "activate", "deactivate", "destroy", "set password"}
OwnOps == {"login", "profile", "password"}
AllOps == OwnerOps \cup OwnOps \cup {"create", "bridge", "link", "reset"}
Stages == {"read", "snapped", "saved"}

ASSUME AccountsAssumption ==
  /\ Usernames # {}
  /\ None \notin Usernames \cup Links
  /\ MaxPasswords \in Nat /\ MaxLogins \in Nat
  /\ Channels \subseteq {"cookie", "bearer"} /\ MayDie \subseteq Stages
  /\ \A ops \in Workloads : ops \subseteq AllOps
  /\ \A pair \in Meetings \cup Sharing : pair \subseteq AllOps

VARIABLES
  user,       \* rows of accounts
  link,       \* what the mailed links were made from
  minted,     \* the number of passwords set so far
  trail,      \* the newest audit entry on each account
  task,       \* what each worker holds of the request it handles
  workload    \* the operations requested in this behaviour

accountsVars == <<user, link, minted, trail, task, workload>>
-----------------------------------------------------------------------------
AccountRoles == {"OWNER", "ACCOUNTANT"}
Columns == {"state", "role", "active", "password", "login"}
Row == [state : {"ABSENT", "THERE", "DELETED"}, role : AccountRoles, active : BOOLEAN,
        password : 0..MaxPasswords, login : 0..MaxLogins]
NoRow(why) == [state |-> why, role |-> "ACCOUNTANT", active |-> FALSE, password |-> 0, login |-> 0]
NewRow(role, active) ==
  [state |-> "THERE", role |-> role, active |-> active, password |-> 0, login |-> 0]
Exists(u) == user[u].state = "THERE"

NoLink == [user |-> None, password |-> 0, login |-> 0, uses |-> 0]
Link == [user : Usernames \cup {None}, password : 0..MaxPasswords, login : 0..MaxLogins,
         uses : Nat]

(* Password hash and last_login are left out of audit entries. *)
NoValues == <<>>
Values == (AccountRoles \X BOOLEAN) \cup {NoValues}
Audited(row) == IF row.state = "THERE" THEN <<row.role, row.active>> ELSE NoValues
Entry == [old : Values, new : Values]

NoTask == [op |-> "idle", stage |-> "idle", id |-> None, link |-> None,
         row |-> NoRow("ABSENT"), prior |-> NoValues]
Task == [op : AllOps \cup {"idle"}, stage : Stages \cup {"idle"}, id : Usernames \cup {None},
        link : Links \cup {None}, row : Row, prior : Values]

(* Which requests meet is the environment's choice. *)
MayMeet(op, u) ==
  /\ op \in workload
  /\ \A s \in Workers :
       \/ task[s] = NoTask
       \/ {op, task[s].op} \in IF task[s].id = u THEN Sharing ELSE Meetings

Finish(r) == task' = [task EXCEPT ![r] = NoTask]
-----------------------------------------------------------------------------
(* A cookie or a session is honoured while the account is active; a token  *)
(* in the header as long as it has not expired.                            *)
MayAct(u) == Exists(u) /\ (user[u].active \/ "bearer" \in Channels)
ActsAsOwner(u) == MayAct(u) /\ user[u].role = "OWNER"

(* deactivate and destroy refuse one's own account. *)
Anybody(op, by, u) == TRUE
Permitted(op, by, u) ==
  /\ op \in {"deactivate", "destroy", "update"} => by # u
  /\ op = "update self" => by = u

Fresh == minted + 1
Changed(op, row) ==
  IF op \in {"update", "update self"}
    THEN {[row EXCEPT !.role = x[1], !.active = x[2]] : x \in AccountRoles \X BOOLEAN}
  ELSE IF op = "activate" THEN {[row EXCEPT !.active = TRUE]}
  ELSE IF op = "deactivate" THEN {[row EXCEPT !.active = FALSE]}
  ELSE IF op = "login" THEN {[row EXCEPT !.login = n] : n \in {row.login + 1} \cap (0..MaxLogins)}
  ELSE IF op \in {"password", "set password", "reset"}
    THEN {[row EXCEPT !.password = n] : n \in {Fresh} \cap (0..MaxPasswords)}
  ELSE {row}

Begin(r, op, u, row, l) ==
  /\ task[r] = NoTask /\ MayMeet(op, u)
  /\ task' = [task EXCEPT ![r] = [NoTask EXCEPT !.op = op, !.stage = "read", !.id = u,
                                            !.row = row, !.link = l]]
  /\ minted' = IF row.password > minted THEN row.password ELSE minted
  /\ UNCHANGED <<user, link, trail, workload>>

(* UserViewSet: an owner about some account. *)
Manage(r, by, op, u) ==
  /\ op \in OwnerOps /\ ActsAsOwner(by) /\ Exists(u)
  /\ Permitted(op, by, u)
  /\ \E row \in Changed(op, user[u]) : Begin(r, op, u, row, None)

Create(r, by, u) ==
  /\ ActsAsOwner(by) /\ user[u].state = "ABSENT"
  /\ \E role \in AccountRoles, active \in BOOLEAN :
       Begin(r, "create", u, NewRow(role, active), None)

(* Login, profile and change of password: users about themselves. *)
ActForOneself(r, op, u) ==
  /\ op \in OwnOps /\ Exists(u)
  /\ IF op = "login" THEN user[u].active ELSE MayAct(u)
  /\ \E row \in Changed(op, user[u]) : Begin(r, op, u, row, None)

(* The first request of a dashboard administrator makes an owner.          *)
Bridge(u) ==
  /\ MayMeet("bridge", u)
  /\ user[u].state = "ABSENT"
  /\ user' = [user EXCEPT ![u] = NewRow("OWNER", TRUE)]
  /\ trail' = [trail EXCEPT ![u] = [old |-> NoValues, new |-> Audited(NewRow("OWNER", TRUE))]]
  /\ UNCHANGED <<link, minted, task, workload>>

(* The token of a link is a hash of the password, of last_login and of     *)
(* what never changes here.                                                *)
MailLink(u, l) ==
  /\ MayMeet("link", u)
  /\ Exists(u) /\ user[u].active
  /\ link[l] = NoLink
  /\ link' = [link EXCEPT ![l] = [user |-> u, password |-> user[u].password,
                                  login |-> user[u].login, uses |-> 0]]
  /\ UNCHANGED <<user, minted, trail, task, workload>>

SameLogin(l, u) == link[l].login = user[u].login
TokenFits(l, u) == link[l].password = user[u].password /\ link[l].login = user[u].login
FollowLink(r, l) ==
  LET u == link[l].user IN
  /\ link[l] # NoLink
  /\ Exists(u) /\ user[u].active /\ TokenFits(l, u)
  /\ \E row \in Changed("reset", user[u]) : Begin(r, "reset", u, row, l)
-----------------------------------------------------------------------------
(* Saving, with the audit around it. *)

(* update_fields, where the view gives it. *)
Written(op) ==
  IF op \in {"activate", "deactivate"} THEN {"active"}
  ELSE IF op = "login" THEN {"login"}
  ELSE IF op \in {"password", "set password", "reset"} THEN {"password"} ELSE Columns

Snapshot(r) ==
  /\ task[r].stage = "read" /\ task[r].op # "destroy"
  /\ task' = [task EXCEPT ![r].stage = "snapped", ![r].prior = Audited(user[task[r].id])]
  /\ UNCHANGED <<user, link, minted, trail, workload>>

(* Some columns of a row that is gone cannot be saved.  A whole row can,   *)
(* and is a new one to the audit; a name that is taken is refused.         *)
Save(r) ==
  LET u == task[r].id
      columns == Written(task[r].op)
  IN  /\ task[r].stage = "snapped"
      /\ Exists(u) \/ columns = Columns
      /\ task[r].op = "create" => user[u].state = "ABSENT"
      /\ user' = [user EXCEPT ![u] = [c \in Columns |-> IF c \in columns THEN task[r].row[c]
                                                        ELSE user[u][c]]]
      /\ link' = IF task[r].op = "reset" THEN [link EXCEPT ![task[r].link].uses = @ + 1] ELSE link
      /\ task' = [task EXCEPT ![r].stage = "saved",
                              ![r].prior = IF Exists(u) THEN @ ELSE NoValues]
      /\ UNCHANGED <<minted, trail, workload>>

RoleOnly(old, new) == old = NoValues \/ old[1] # new[1]
Differs(old, new) == old # new
Audit(r) ==
  LET new == Audited(task[r].row) IN
  /\ task[r].stage = "saved"
  /\ trail' = IF Differs(task[r].prior, new)
              THEN [trail EXCEPT ![task[r].id] = [old |-> task[r].prior, new |-> new]] ELSE trail
  /\ Finish(r)
  /\ UNCHANGED <<user, link, minted, workload>>

(* A delete and its audit entry are one transaction. *)
Destroy(r) ==
  LET u == task[r].id IN
  /\ task[r].op = "destroy"
  /\ user' = [user EXCEPT ![u] = NoRow("DELETED")]
  /\ trail' = [trail EXCEPT ![u] = [old |-> Audited(user[u]), new |-> NoValues]]
  /\ Finish(r)
  /\ UNCHANGED <<link, minted, workload>>

(* A request is refused, fails, or its worker dies. *)
Abandon(r) ==
  /\ task[r].stage \in MayDie
  /\ Finish(r)
  /\ UNCHANGED <<user, link, minted, trail, workload>>
-----------------------------------------------------------------------------
AccountsInit ==
  /\ \E o \in Usernames :
       user = [u \in Usernames |-> IF u = o THEN NewRow("OWNER", TRUE) ELSE NoRow("ABSENT")]
  /\ link = [l \in Links |-> NoLink]
  /\ minted = 0
  /\ trail = [u \in Usernames |-> [old |-> NoValues, new |-> Audited(user[u])]]
  /\ task = [r \in Workers |-> NoTask]
  /\ workload \in Workloads

Request(r) ==
  \/ \E by, u \in Usernames, op \in workload : Manage(r, by, op, u) \/ ActForOneself(r, op, u)
  \/ \E by, u \in Usernames : Create(r, by, u)
  \/ \E l \in Links : FollowLink(r, l)

AccountsNext ==
  \/ \E r \in Workers :
       Request(r) \/ Snapshot(r) \/ Save(r) \/ Audit(r) \/ Destroy(r) \/ Abandon(r)
  \/ \E u \in Usernames : Bridge(u)
  \/ \E u \in Usernames, l \in Links : MailLink(u, l)

AccountsSpec == AccountsInit /\ [][AccountsNext]_accountsVars
-----------------------------------------------------------------------------
(* What the properties below need of the environment.                      *)

(* No worker dies after a save and before its audit entry.                 *)
DeathsAreEarly == MayDie \subseteq {"read", "snapped"}

(* A request that changes what the audit shows has its account to itself:  *)
(* others would save or report the role and the flag they have read.       *)
Removing == {"update", "deactivate", "destroy"}
Changes == Removing \cup {"create", "bridge", "update self", "activate"}
ChangesTakeTurns == \A op1 \in Changes, op2 \in AllOps : {op1, op2} \notin Sharing

(* A reset meets neither another one of the same account nor a save of the *)
(* account's whole row, which puts back the password it has read.          *)
LinksTakeTurns ==
  \A op \in {"update", "update self", "profile", "reset"} : {op, "reset"} \notin Sharing

(* Requests are authenticated by cookie; owners do not take their own role *)
(* away, and what takes an owner away is requested one at a time.          *)
OwnersTakeTurns ==
  /\ ChangesTakeTurns
  /\ Channels \subseteq {"cookie"}
  /\ \A ops \in Workloads : "update self" \notin ops
  /\ \A op1, op2 \in Removing : {op1, op2} \notin Meetings
-----------------------------------------------------------------------------
(* Every variable holds a value of its kind. *)
AccountsTypeOK ==
  /\ user \in [Usernames -> Row]
  /\ link \in [Links -> Link]
  /\ minted \in 0..MaxPasswords
  /\ trail \in [Usernames -> Entry]
  /\ task \in [Workers -> Task]
  /\ workload \in Workloads

(* Somebody can always manage accounts: no sequence of owners promoting,   *)
(* demoting, deactivating and deleting each other leaves none              *)
(* (users/views.py, "You cannot deactivate your own account").             *)
OwnerRemains ==
  \E u \in Usernames : Exists(u) /\ user[u].active /\ user[u].role = "OWNER"

(* A reset link sets a password once: nothing that happens later to the    *)
(* account makes a spent link fit again (users/tokens.py, "single-use").   *)
LinkWorksOnce == \A l \in Links : link[l].uses <= 1

(* The newest audit entry of an account nobody is working on shows the     *)
(* account as it is: no change escapes the trail and none is invented.     *)
TrailTellsRow ==
  \A u \in Usernames :
    (\A r \in Workers : task[r].id # u) => trail[u].new = Audited(user[u])
=============================================================================
