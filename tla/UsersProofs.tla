----------------------------- MODULE UsersProofs ------------------------------
(***************************************************************************)
(* Proofs about Accounts and about Alerts, for any users, requests, links  *)
(* and runs; the two components share no variable.                         *)
(*                                                                         *)
(* Accounts: the types; that the audit trail tells what became of a row,   *)
(* that a link sets one password, and that an owner remains. They rest on  *)
(* what a request holds at any time (Base), and the trail and the owners   *)
(* on what its copy of the row shows where changes take turns (Sound);     *)
(* then on an invariant each (Told, LinkInv, OwnerInv). Each but the types *)
(* has a premise on which requests meet or where workers die.              *)
(*                                                                         *)
(* Alerts: the types, and that one run at a time never duplicates an       *)
(* unread notification, which rests on what a run knows between looking    *)
(* and creating: nobody else creates notifications (LookedUp).             *)
(***************************************************************************)
EXTENDS Accounts, Alerts, TLAPS

(* The columns a request means to change. *)
Touched(op) ==
  IF op \in {"update", "update self"} THEN {"role", "active"}
  ELSE IF op = "create" THEN Columns
  ELSE IF Written(op) = Columns THEN {} ELSE Written(op)

Working(r) == task[r].stage # "idle"
Pending(r) == task[r].stage \in {"read", "snapped"}

(* The operations that set a new password, and those that write the one    *)
(* they have read.                                                         *)
Setting == {"password", "set password", "reset"}
WholeRow == {"create", "update", "update self", "profile"}

(* Whoever works is about an account, and holds a row that is there.       *)
Busy ==
  /\ \A r \in Workers : Working(r) =>
       /\ task[r].op \notin {"idle", "bridge", "link"}
       /\ task[r].id \in Usernames /\ task[r].row.state = "THERE"
       /\ task[r].op = "destroy" => task[r].stage = "read"
  /\ \A r \in Workers : ~Working(r) => task[r] = NoTask

(* A reset holds a link to its account.                                    *)
LinksMade ==
  /\ \A l \in Links : link[l] = NoLink \/ link[l].user \in Usernames
  /\ \A r \in Workers :
       task[r].op = "reset" => task[r].link \in Links /\ link[task[r].link].user = task[r].id

Base == AccountsTypeOK /\ Busy /\ LinksMade

(* The columns that audit entries show, and that permissions go by.        *)
Seen == {"state", "role", "active"}

(* Of those a copy differs from the row in what its request means to       *)
(* change, and in nothing once it is saved.                                *)
CopyFits(j, now) ==
  /\ j.stage \in {"read", "snapped"} =>
       /\ j.op = "create" => now.state = "ABSENT"
       /\ j.op # "create" =>
            now.state = "THERE" /\ \A c \in Seen \ Touched(j.op) : j.row[c] = now[c]
  /\ j.stage = "saved" => \A c \in Seen : j.row[c] = now[c]
Copies == \A r \in Workers : CopyFits(task[r], user[task[r].id])

(* Who shares an account changes nothing that is seen.                     *)
Apart ==
  \A r, s \in Workers :
    Working(r) /\ Working(s) /\ task[r].id = task[s].id /\ r # s => task[r].op \notin Changes
Sound == Apart /\ Copies
-----------------------------------------------------------------------------
LEMMA RowKinds ==
  /\ \A why \in {"ABSENT", "DELETED"} : NoRow(why) \in Row
  /\ \A given \in AccountRoles, active \in BOOLEAN : NewRow(given, active) \in Row
  BY AccountsAssumption DEF NoRow, NewRow, Row, AccountRoles

LEMMA RowFields ==
  ASSUME NEW row \in Row
  PROVE  /\ row.state \in {"ABSENT", "THERE", "DELETED"} /\ row.role \in AccountRoles
         /\ row.active \in BOOLEAN /\ row.password \in 0..MaxPasswords /\ row.login \in 0..MaxLogins
  BY DEF Row

LEMMA TaskFields ==
  ASSUME NEW j \in Task
  PROVE  /\ j.op \in AllOps \cup {"idle"} /\ j.stage \in Stages \cup {"idle"}
         /\ j.id \in Usernames \cup {None} /\ j.link \in Links \cup {None}
         /\ j.row \in Row /\ j.prior \in Values
  BY DEF Task

LEMMA NoTaskTyped ==
  NoTask \in Task /\ NoTask.stage = "idle" /\ NoTask.op = "idle" /\ NoTask.id = None
  BY AccountsAssumption, RowKinds DEF NoTask, Task, Values, NoValues

LEMMA AuditedTyped == \A row \in Row : Audited(row) \in Values
  BY RowFields DEF Audited, Values, NoValues

(* A row of which some columns were saved. *)
LEMMA MergedRow ==
  ASSUME NEW old \in Row, NEW new \in Row, NEW columns \in SUBSET Columns,
         NEW merged, merged = [c \in Columns |-> IF c \in columns THEN new[c] ELSE old[c]]
  PROVE  merged \in Row /\ \A c \in Columns : merged[c] = IF c \in columns THEN new[c] ELSE old[c]
  BY DEF Row, Columns

(* What is audited is what is seen. *)
LEMMA SameAudit ==
  ASSUME NEW a \in Row, NEW b \in Row, \A c \in Seen : a[c] = b[c]
  PROVE  Audited(a) = Audited(b)
<1>1. a["state"] = b["state"] /\ a["role"] = b["role"] /\ a["active"] = b["active"]
  BY DEF Seen
<1>2. QED
  BY <1>1 DEF Audited

LEMMA WhatIsWritten ==
  ASSUME NEW op \in AllOps
  PROVE  /\ Touched(op) \subseteq Written(op) /\ Written(op) \in SUBSET Columns
         /\ op = "create" => Written(op) = Columns
         /\ op # "create" => "state" \notin Touched(op)
         /\ op \notin Changes => Touched(op) \cap Seen = {}
         /\ op \notin Setting \cup {"create"} => "password" \notin Touched(op)
         /\ op \notin Setting \cup WholeRow \cup {"destroy", "bridge", "link"} =>
              "password" \notin Written(op) /\ Written(op) # Columns
         /\ op \in Setting => Written(op) = {"password"} /\ Written(op) # Columns
<1>1. op \in {"update", "update self", "activate", "deactivate", "destroy", "set password", "login",
              "profile", "password", "create", "bridge", "link", "reset"}
  BY DEF AllOps, OwnerOps, OwnOps
<1>2. op = "create" => Written(op) = Columns
  BY DEF Written
<1>3. op # "create" => "state" \notin Touched(op)
  <2>1. "state" \in Written(op) => Written(op) = Columns
    BY DEF Written
  <2>2. QED
    BY <2>1 DEF Touched
<1>4. Touched(op) \subseteq Written(op)
  BY <1>1 DEF Touched, Written, Columns
<1>5. Written(op) \in SUBSET Columns
  BY DEF Written, Columns
<1>a. {"password"} # Columns /\ {"active"} # Columns /\ {"login"} # Columns
  BY DEF Columns
<1>6. op \in Setting => Written(op) = {"password"} /\ Written(op) # Columns
  BY <1>a DEF Written, Setting
<1>7. op \notin Setting \cup WholeRow \cup {"destroy", "bridge", "link"} =>
        "password" \notin Written(op) /\ Written(op) # Columns
  <2> SUFFICES ASSUME op \notin Setting \cup WholeRow \cup {"destroy", "bridge", "link"}
               PROVE  "password" \notin Written(op) /\ Written(op) # Columns
    OBVIOUS
  <2>1. op \in {"activate", "deactivate", "login"}
    BY <1>1 DEF Setting, WholeRow
  <2>2. Written(op) = {"active"} \/ Written(op) = {"login"}
    BY <2>1 DEF Written
  <2>3. QED
    BY <1>a, <2>2
<1>8. op \notin Setting \cup {"create"} => "password" \notin Touched(op)
  <2>1. "password" \in Written(op) => op \in Setting \/ Written(op) = Columns
    BY DEF Written, Setting
  <2>2. QED
    BY <2>1 DEF Touched
<1>9. op \notin Changes => Touched(op) \cap Seen = {}
  <2> SUFFICES ASSUME op \notin Changes PROVE Touched(op) \cap Seen = {}
    OBVIOUS
  <2>1. op \in {"set password", "login", "profile", "password", "link", "reset"}
    BY <1>1 DEF Changes, Removing
  <2>2. Touched(op) \subseteq {"login", "password"}
    BY <2>1 DEF Touched, Written
  <2>3. QED
    BY <2>2 DEF Seen
<1>10. QED
  BY <1>2, <1>3, <1>4, <1>5, <1>6, <1>7, <1>8, <1>9

(* What an operation makes of a row. *)
MadeFrom(old, op, row) ==
  /\ row \in Row /\ row.password \in {old.password, Fresh}
  /\ \A c \in Columns \ Touched(op) : row[c] = old[c]
  /\ op = "activate" => row.active = TRUE
  /\ op \in Setting => row.password = Fresh

LEMMA ChangedRow ==
  ASSUME AccountsTypeOK, NEW old \in Row, NEW op \in AllOps \ {"create"}, NEW row \in Changed(op, old)
  PROVE  MadeFrom(old, op, row)
<1> USE DEF MadeFrom, Setting
<1>0. op \in {"update", "update self", "activate", "deactivate", "destroy", "set password", "login",
              "profile", "password", "bridge", "link", "reset"}
  BY DEF AllOps, OwnerOps, OwnOps
<1>1. CASE op \in {"update", "update self"}
  <2>1. row \in {[old EXCEPT !.role = x[1], !.active = x[2]] : x \in AccountRoles \X BOOLEAN}
    BY <1>1 DEF Changed
  <2>2. PICK x \in AccountRoles, y \in BOOLEAN : row = [old EXCEPT !.role = x, !.active = y]
    BY <2>1
  <2>3. Touched(op) = {"role", "active"} /\ op \notin Setting \cup {"activate"}
    BY <1>1 DEF Touched
  <2>4. QED
    BY <2>2, <2>3 DEF Row, Columns
<1>2. CASE op \in {"activate", "deactivate"}
  <2>1. \E b \in BOOLEAN : row = [old EXCEPT !.active = b] /\ (op = "activate" => b = TRUE)
    <3>1. CASE op = "activate"
      <4>1. row \in {[old EXCEPT !.active = TRUE]}
        BY <3>1 DEF Changed
      <4>2. QED
        BY <4>1
    <3>2. CASE op = "deactivate"
      <4>1. row \in {[old EXCEPT !.active = FALSE]}
        BY <3>2 DEF Changed
      <4>2. QED
        BY <3>2, <4>1
    <3>3. QED
      BY <1>2, <3>1, <3>2
  <2>2. Touched(op) = {"active"} /\ op \notin Setting
    <3>a. Written(op) = {"active"}
      BY <1>2 DEF Written
    <3>b. {"active"} # Columns
      BY DEF Columns
    <3>c. QED
      BY <1>2, <3>a, <3>b DEF Touched
  <2>3. QED
    BY <2>1, <2>2 DEF Row, Columns
<1>3. CASE op = "login"
  <2>1. row \in {[old EXCEPT !.login = n] : n \in {old.login + 1} \cap (0..MaxLogins)}
    BY <1>3 DEF Changed
  <2>2. PICK n \in 0..MaxLogins : row = [old EXCEPT !.login = n]
    BY <2>1
  <2>3. Touched(op) = {"login"}
    <3>a. Written(op) = {"login"}
      BY <1>3 DEF Written
    <3>b. {"login"} # Columns
      BY DEF Columns
    <3>c. QED
      BY <1>3, <3>a, <3>b DEF Touched
  <2>4. QED
    BY <1>3, <2>2, <2>3 DEF Row, Columns
<1>4. CASE op \in {"password", "set password", "reset"}
  <2>1. row \in {[old EXCEPT !.password = n] : n \in {Fresh} \cap (0..MaxPasswords)}
    BY <1>4 DEF Changed
  <2>2. Fresh \in 0..MaxPasswords /\ row = [old EXCEPT !.password = Fresh]
    BY <2>1
  <2>3. Touched(op) = {"password"}
    <3>a. Written(op) = {"password"}
      BY <1>4 DEF Written
    <3>b. {"password"} # Columns
      BY DEF Columns
    <3>c. QED
      BY <1>4, <3>a, <3>b DEF Touched
  <2>4. QED
    BY <1>4, <2>2, <2>3 DEF Row, Columns
<1>5. CASE op \in {"destroy", "profile", "bridge", "link"}
  <2>1. row \in {old}
    BY <1>5 DEF Changed
  <2>2. QED
    BY <1>5, <2>1
<1>6. QED
  BY <1>0, <1>1, <1>2, <1>3, <1>4, <1>5
-----------------------------------------------------------------------------
(* How a request begins, whichever it is. *)

Starts(r, op, u, row, l) ==
  /\ op \in AllOps \ {"bridge", "link"} /\ u \in Usernames /\ l \in Links \cup {None}
  /\ row \in Row /\ row.state = "THERE"
  /\ op = "create" => user[u].state = "ABSENT" /\ row.password = 0
  /\ op # "create" => Exists(u) /\ MadeFrom(user[u], op, row)
  /\ op \in Removing => \E by \in Usernames \ {u} : ActsAsOwner(by)
  /\ op = "reset" => l \in Links /\ link[l] # NoLink /\ link[l].user = u /\ TokenFits(l, u)
  /\ Begin(r, op, u, row, l)

LEMMA Started ==
  ASSUME Base, NEW r \in Workers, Request(r)
  PROVE  \E op, u, row, l : Starts(r, op, u, row, l)
<1> USE AccountsAssumption
<1>0. user \in [Usernames -> Row] /\ minted \in 0..MaxPasswords /\ link \in [Links -> Link] /\ AccountsTypeOK
  BY DEF Base, AccountsTypeOK
(* Of an account that is there. *)
<1>a. ASSUME NEW op \in AllOps \ {"create"}, NEW u \in Usernames, Exists(u),
             NEW row \in Changed(op, user[u])
      PROVE  MadeFrom(user[u], op, row) /\ row.state = "THERE"
  <2>1. user[u] \in Row
    BY <1>0
  <2>2. MadeFrom(user[u], op, row)
    BY <1>0, <2>1, ChangedRow
  <2>3. "state" \in Columns \ Touched(op)
    BY WhatIsWritten DEF Columns
  <2>4. row["state"] = user[u]["state"]
    BY <2>2, <2>3 DEF MadeFrom
  <2>5. QED
    BY <1>a, <2>2, <2>4 DEF Exists
<1>1. ASSUME NEW by \in Usernames, NEW u \in Usernames, NEW op, Manage(r, by, op, u)
      PROVE  \E row : Starts(r, op, u, row, None)
  <2>1. /\ op \in OwnerOps /\ ActsAsOwner(by) /\ Exists(u) /\ Permitted(op, by, u)
        /\ \E row \in Changed(op, user[u]) : Begin(r, op, u, row, None)
    BY <1>1 DEF Manage
  <2>2. PICK row \in Changed(op, user[u]) : Begin(r, op, u, row, None)
    BY <2>1
  <2>3. op \in AllOps \ {"bridge", "link"} /\ op \notin {"create", "reset"}
    BY <2>1 DEF OwnerOps, AllOps
  <2>4. op \in Removing => \E v \in Usernames \ {u} : ActsAsOwner(v)
    BY <2>1 DEF Permitted, Removing
  <2>5. MadeFrom(user[u], op, row) /\ row.state = "THERE"
    BY <1>a, <2>1, <2>2, <2>3
  <2>6. row \in Row
    BY <2>5 DEF MadeFrom
  <2>7. Starts(r, op, u, row, None)
    BY <2>1, <2>2, <2>3, <2>4, <2>5, <2>6 DEF Starts
  <2>8. QED
    BY <2>7
<1>2. ASSUME NEW u \in Usernames, NEW op, ActForOneself(r, op, u)
      PROVE  \E row : Starts(r, op, u, row, None)
  <2>1. op \in OwnOps /\ Exists(u) /\ \E row \in Changed(op, user[u]) : Begin(r, op, u, row, None)
    BY <1>2 DEF ActForOneself
  <2>2. PICK row \in Changed(op, user[u]) : Begin(r, op, u, row, None)
    BY <2>1
  <2>3. op \in AllOps \ {"bridge", "link"} /\ op \notin {"create", "reset"} /\ op \notin Removing
    BY <2>1 DEF OwnOps, AllOps, Removing
  <2>4. MadeFrom(user[u], op, row) /\ row.state = "THERE"
    BY <1>a, <2>1, <2>2, <2>3
  <2>5. row \in Row
    BY <2>4 DEF MadeFrom
  <2>6. Starts(r, op, u, row, None)
    BY <2>1, <2>2, <2>3, <2>4, <2>5 DEF Starts
  <2>7. QED
    BY <2>6
<1>3. ASSUME NEW by \in Usernames, NEW u \in Usernames, Create(r, by, u)
      PROVE  \E row : Starts(r, "create", u, row, None)
  <2>1. /\ user[u].state = "ABSENT"
        /\ \E given \in AccountRoles, active \in BOOLEAN :
             Begin(r, "create", u, NewRow(given, active), None)
    BY <1>3 DEF Create
  <2>2. PICK given \in AccountRoles, active \in BOOLEAN :
          Begin(r, "create", u, NewRow(given, active), None)
    BY <2>1
  <2>3. /\ NewRow(given, active) \in Row /\ NewRow(given, active).state = "THERE"
        /\ NewRow(given, active).password = 0
    BY RowKinds DEF NewRow
  <2>4. "create" \in AllOps /\ "create" \notin Removing
    BY DEF AllOps, Removing
  <2>5. Starts(r, "create", u, NewRow(given, active), None)
    BY <2>1, <2>2, <2>3, <2>4 DEF Starts
  <2>6. QED
    BY <2>5
<1>4. ASSUME NEW l \in Links, FollowLink(r, l)
      PROVE  \E row : Starts(r, "reset", link[l].user, row, l)
  <2> DEFINE u == link[l].user
  <2>1. /\ link[l] # NoLink /\ Exists(u) /\ TokenFits(l, u)
        /\ \E row \in Changed("reset", user[u]) : Begin(r, "reset", u, row, l)
    BY <1>4 DEF FollowLink
  <2>2. PICK row \in Changed("reset", user[u]) : Begin(r, "reset", u, row, l)
    BY <2>1
  <2>3. u \in Usernames
    BY <2>1 DEF Base, LinksMade
  <2>4. "reset" \in AllOps /\ "reset" \notin Removing
    BY DEF AllOps, Removing
  <2>5. MadeFrom(user[u], "reset", row) /\ row.state = "THERE"
    BY <1>a, <2>1, <2>2, <2>3, <2>4
  <2>6. row \in Row
    BY <2>5 DEF MadeFrom
  <2> HIDE DEF u
  <2>7. link[l].user = u
    BY DEF u
  <2>8. Starts(r, "reset", u, row, l)
    BY <2>1, <2>2, <2>3, <2>4, <2>5, <2>6, <2>7 DEF Starts
  <2>9. QED
    BY <2>8 DEF u
<1>5. QED
  BY <1>1, <1>2, <1>3, <1>4 DEF Request
-----------------------------------------------------------------------------
(* What the steps do. *)

(* r has begun, and those about the account may share it. *)
Begun(r, op, u, row, l) ==
  /\ task[r] = NoTask /\ task' \in [Workers -> Task]
  /\ task'[r].op = op /\ task'[r].stage = "read" /\ task'[r].id = u
  /\ task'[r].row = row /\ task'[r].link = l
  /\ \A s \in Workers \ {r} : task'[s] = task[s]
  /\ \A s \in Workers : task[s] = NoTask \/ task[s].id # u \/ {op, task[s].op} \in Sharing
  /\ minted' \in 0..MaxPasswords /\ minted' >= minted /\ minted' >= row.password
  /\ UNCHANGED <<user, link, trail, workload>>

LEMMA BeginEffect ==
  ASSUME Base, NEW r \in Workers, NEW op, NEW u, NEW row, NEW l, Starts(r, op, u, row, l)
  PROVE  Begun(r, op, u, row, l)
<1> DEFINE begun == [NoTask EXCEPT !.op = op, !.stage = "read", !.id = u, !.row = row, !.link = l]
<1>1. op \in AllOps /\ u \in Usernames /\ row \in Row /\ l \in Links \cup {None} /\ Begin(r, op, u, row, l)
  BY DEF Starts
<1>2. /\ begun \in Task /\ begun.op = op /\ begun.stage = "read" /\ begun.id = u
      /\ begun.row = row /\ begun.link = l
  BY <1>1, NoTaskTyped DEF Task, NoTask, Stages
<1>3. task[r] = NoTask /\ MayMeet(op, u) /\ task' = [task EXCEPT ![r] = begun]
  BY <1>1 DEF Begin
<1> HIDE DEF begun
<1>4. task \in [Workers -> Task] /\ minted \in 0..MaxPasswords
  BY DEF Base, AccountsTypeOK
<1>5. \A s \in Workers : task[s] = NoTask \/ task[s].id # u \/ {op, task[s].op} \in Sharing
  BY <1>3 DEF MayMeet
<1>6. minted' \in 0..MaxPasswords /\ minted' >= minted /\ minted' >= row.password
  BY <1>1, <1>4, RowFields, AccountsAssumption DEF Begin
<1>7. UNCHANGED <<user, link, trail, workload>>
  BY <1>1 DEF Begin
<1>8. /\ task' \in [Workers -> Task]
      /\ task'[r] = begun /\ \A s \in Workers \ {r} : task'[s] = task[s]
  BY <1>2, <1>3, <1>4
<1>9. QED
  BY <1>2, <1>3, <1>5, <1>6, <1>7, <1>8 DEF Begun

LEMMA SnapshotEffect ==
  ASSUME Base, NEW r \in Workers, Snapshot(r)
  PROVE  /\ task[r].stage = "read" /\ task'[r].stage = "snapped" /\ task[r].op # "destroy"
         /\ task'[r].prior = Audited(user[task[r].id])
         /\ task'[r].op = task[r].op /\ task'[r].id = task[r].id
         /\ task'[r].row = task[r].row /\ task'[r].link = task[r].link
         /\ \A s \in Workers \ {r} : task'[s] = task[s]
         /\ task' \in [Workers -> Task] /\ task[r].id \in Usernames
         /\ UNCHANGED <<user, link, minted, trail, workload>>
<1>1. /\ task \in [Workers -> Task] /\ user \in [Usernames -> Row]
      /\ task[r].stage = "read" /\ task[r].op # "destroy" /\ task[r].id \in Usernames
  BY DEF Base, AccountsTypeOK, Busy, Working, Snapshot
<1>2. Audited(user[task[r].id]) \in Values
  BY <1>1, AuditedTyped
<1> DEFINE snapped == [task[r] EXCEPT !.stage = "snapped", !.prior = Audited(user[task[r].id])]
<1>3. /\ snapped \in Task /\ snapped.stage = "snapped" /\ snapped.prior = Audited(user[task[r].id])
      /\ snapped.op = task[r].op /\ snapped.id = task[r].id
      /\ snapped.row = task[r].row /\ snapped.link = task[r].link
  BY <1>1, <1>2 DEF Task, Stages
<1>4. task' = [task EXCEPT ![r] = snapped] /\ UNCHANGED <<user, link, minted, trail, workload>>
  BY DEF Snapshot
<1> HIDE DEF snapped
<1>5. /\ task' \in [Workers -> Task]
      /\ task'[r] = snapped /\ \A s \in Workers \ {r} : task'[s] = task[s]
  BY <1>1, <1>3, <1>4
<1>6. QED
  BY <1>1, <1>3, <1>4, <1>5

LEMMA SaveEffect ==
  ASSUME Base, NEW r \in Workers, Save(r)
  PROVE  LET u == task[r].id
             op == task[r].op
         IN
         /\ task[r].stage = "snapped" /\ task'[r].stage = "saved" /\ u \in Usernames
         /\ task'[r].op = op /\ task'[r].id = u
         /\ task'[r].row = task[r].row /\ task'[r].link = task[r].link
         /\ task'[r].prior = IF Exists(u) THEN task[r].prior ELSE NoValues
         /\ \A s \in Workers \ {r} : task'[s] = task[s]
         /\ task' \in [Workers -> Task]
         /\ op \in AllOps \ {"destroy", "bridge", "link"}
         /\ task[r].row \in Row /\ task[r].row.state = "THERE"
         /\ Exists(u) \/ Written(op) = Columns
         /\ op = "create" => user[u].state = "ABSENT"
         /\ user' \in [Usernames -> Row]
         /\ \A c \in Columns : user'[u][c] = IF c \in Written(op) THEN task[r].row[c] ELSE user[u][c]
         /\ \A v \in Usernames \ {u} : user'[v] = user[v]
         /\ link' = IF op = "reset" THEN [link EXCEPT ![task[r].link].uses = @ + 1] ELSE link
         /\ UNCHANGED <<minted, trail, workload>>
<1> DEFINE u == task[r].id
           op == task[r].op
           merged == [c \in Columns |-> IF c \in Written(op) THEN task[r].row[c] ELSE user[u][c]]
<1>1. task \in [Workers -> Task] /\ user \in [Usernames -> Row] /\ task[r].stage = "snapped"
      /\ u \in Usernames /\ op \notin {"idle", "destroy", "bridge", "link"} /\ task[r].row.state = "THERE"
  BY DEF Base, AccountsTypeOK, Busy, Working, Save
<1>2. op \in AllOps \ {"destroy", "bridge", "link"} /\ task[r].row \in Row
      /\ task[r].prior \in Values /\ NoValues \in Values
  BY <1>1, TaskFields DEF Values
<1>3. Written(op) \in SUBSET Columns
  BY <1>2, WhatIsWritten
<1>4. merged \in Row
      /\ \A c \in Columns : merged[c] = IF c \in Written(op) THEN task[r].row[c] ELSE user[u][c]
  BY <1>1, <1>2, <1>3, MergedRow, SMTT(30)
<1>5. /\ user' = [user EXCEPT ![u] = merged]
      /\ Exists(u) \/ Written(op) = Columns
      /\ op = "create" => user[u].state = "ABSENT"
  BY DEF Save
<1> HIDE DEF merged
<1>6. /\ user' \in [Usernames -> Row] /\ user'[u] = merged
      /\ \A v \in Usernames \ {u} : user'[v] = user[v]
  BY <1>1, <1>4, <1>5
<1> DEFINE prior == IF Exists(u) THEN task[r].prior ELSE NoValues
           saved == [task[r] EXCEPT !.stage = "saved", !.prior = prior]
<1>7. prior \in Values
  BY <1>2
<1>8. task' = [task EXCEPT ![r] = saved]
  BY <1>1 DEF Save, Task
<1> HIDE DEF prior
<1>9. /\ saved \in Task /\ saved.stage = "saved" /\ saved.prior = prior
      /\ saved.op = op /\ saved.id = u /\ saved.row = task[r].row /\ saved.link = task[r].link
  BY <1>1, <1>7 DEF Task, Stages
<1> HIDE DEF saved
<1>10. task' \in [Workers -> Task] /\ task'[r] = saved /\ \A s \in Workers \ {r} : task'[s] = task[s]
  BY <1>1, <1>8, <1>9
<1>11. /\ link' = IF op = "reset" THEN [link EXCEPT ![task[r].link].uses = @ + 1] ELSE link
       /\ UNCHANGED <<minted, trail, workload>>
  BY DEF Save
<1>12. \A c \in Columns : user'[u][c] = IF c \in Written(op) THEN task[r].row[c] ELSE user[u][c]
  BY <1>4, <1>6
<1>13. QED
  BY <1>1, <1>2, <1>5, <1>6, <1>9, <1>10, <1>11, <1>12 DEF prior

LEMMA FinishEffect ==
  ASSUME Base, NEW r \in Workers, Finish(r)
  PROVE  /\ task' \in [Workers -> Task] /\ task'[r] = NoTask
         /\ \A s \in Workers \ {r} : task'[s] = task[s]
  BY NoTaskTyped DEF Base, AccountsTypeOK, Finish

LEMMA AuditEffect ==
  ASSUME Base, NEW r \in Workers, Audit(r)
  PROVE  LET u == task[r].id IN
         /\ task[r].stage = "saved" /\ u \in Usernames /\ Finish(r)
         /\ trail' \in [Usernames -> Entry]
         /\ task[r].prior = Audited(task[r].row) => trail' = trail
         /\ task[r].prior # Audited(task[r].row) => trail'[u].new = Audited(task[r].row)
         /\ \A v \in Usernames \ {u} : trail'[v] = trail[v]
         /\ UNCHANGED <<user, link, minted, workload>>
<1> DEFINE u == task[r].id
           new == Audited(task[r].row)
<1>1. /\ task \in [Workers -> Task] /\ trail \in [Usernames -> Entry] /\ task[r].stage = "saved"
      /\ u \in Usernames
  BY DEF Base, AccountsTypeOK, Busy, Working, Audit
<1>2. task[r].prior \in Values /\ new \in Values
  BY <1>1, TaskFields, AuditedTyped
<1>3. [old |-> task[r].prior, new |-> new] \in Entry
  BY <1>2 DEF Entry
<1>4. trail' = IF task[r].prior # new
               THEN [trail EXCEPT ![u] = [old |-> task[r].prior, new |-> new]] ELSE trail
  BY DEF Audit, Differs
<1>5. Finish(r) /\ UNCHANGED <<user, link, minted, workload>>
  BY DEF Audit
<1> HIDE DEF new
<1>6. /\ trail' \in [Usernames -> Entry]
      /\ task[r].prior = new => trail' = trail
      /\ task[r].prior # new => trail'[u].new = new
      /\ \A v \in Usernames \ {u} : trail'[v] = trail[v]
  BY <1>1, <1>3, <1>4
<1>7. QED
  BY <1>1, <1>5, <1>6 DEF new

LEMMA DestroyEffect ==
  ASSUME Base, NEW r \in Workers, Destroy(r)
  PROVE  LET u == task[r].id IN
         /\ task[r].op = "destroy" /\ u \in Usernames /\ Finish(r)
         /\ user' \in [Usernames -> Row] /\ user'[u] = NoRow("DELETED")
         /\ \A v \in Usernames \ {u} : user'[v] = user[v]
         /\ trail' \in [Usernames -> Entry] /\ trail'[u].new = NoValues
         /\ \A v \in Usernames \ {u} : trail'[v] = trail[v]
         /\ UNCHANGED <<link, minted, workload>>
<1> DEFINE u == task[r].id
<1>1. /\ user \in [Usernames -> Row] /\ trail \in [Usernames -> Entry]
      /\ task[r].op = "destroy" /\ Working(r) /\ u \in Usernames
  BY NoTaskTyped DEF Base, AccountsTypeOK, Busy, Destroy
<1>2. NoValues \in Values /\ Audited(user[u]) \in Values
  BY <1>1, AuditedTyped DEF Values
<1>3. [old |-> Audited(user[u]), new |-> NoValues] \in Entry
  BY <1>2 DEF Entry
<1>4. QED
  BY <1>1, <1>3, RowKinds DEF Destroy

LEMMA BridgeEffect ==
  ASSUME Base, NEW u \in Usernames, Bridge(u)
  PROVE  /\ user[u].state = "ABSENT"
         /\ \A s \in Workers : task[s] = NoTask \/ task[s].id # u \/ {"bridge", task[s].op} \in Sharing
         /\ user' \in [Usernames -> Row] /\ user'[u] = NewRow("OWNER", TRUE)
         /\ \A v \in Usernames \ {u} : user'[v] = user[v]
         /\ trail' \in [Usernames -> Entry] /\ trail'[u].new = Audited(user'[u])
         /\ \A v \in Usernames \ {u} : trail'[v] = trail[v]
         /\ UNCHANGED <<link, minted, task, workload>>
<1>1. user \in [Usernames -> Row] /\ trail \in [Usernames -> Entry]
  BY DEF Base, AccountsTypeOK
<1>2. NewRow("OWNER", TRUE) \in Row
  BY RowKinds DEF AccountRoles
<1>3. [old |-> NoValues, new |-> Audited(NewRow("OWNER", TRUE))] \in Entry
  BY <1>2, AuditedTyped DEF Entry, Values
<1>4. \A s \in Workers : task[s] = NoTask \/ task[s].id # u \/ {"bridge", task[s].op} \in Sharing
  BY DEF Bridge, MayMeet
<1>5. QED
  BY <1>1, <1>2, <1>3, <1>4 DEF Bridge

LEMMA MailEffect ==
  ASSUME Base, NEW u \in Usernames, NEW l \in Links, MailLink(u, l)
  PROVE  /\ Exists(u) /\ link[l] = NoLink
         /\ link' \in [Links -> Link]
         /\ link'[l].user = u /\ link'[l].password = user[u].password /\ link'[l].uses = 0
         /\ \A k \in Links \ {l} : link'[k] = link[k]
         /\ UNCHANGED <<user, minted, trail, task, workload>>
<1>1. user \in [Usernames -> Row] /\ link \in [Links -> Link]
  BY DEF Base, AccountsTypeOK
<1>2. [user |-> u, password |-> user[u].password, login |-> user[u].login, uses |-> 0] \in Link
  BY <1>1, RowFields DEF Link
<1>3. QED
  BY <1>1, <1>2 DEF MailLink
-----------------------------------------------------------------------------
(* The types, and what requests hold. *)

LEMMA RequestKeepsBase ==
  ASSUME Base, NEW r \in Workers, Request(r)
  PROVE  Base'
<1>1. PICK op, u, row, l : Starts(r, op, u, row, l)
  BY Started
<1>2. /\ Begun(r, op, u, row, l)
      /\ op \in AllOps \ {"bridge", "link"} /\ u \in Usernames /\ row.state = "THERE"
  BY <1>1, BeginEffect DEF Starts
<1>3. AccountsTypeOK'
  BY <1>2 DEF Base, AccountsTypeOK, Begun
<1>4. LinksMade'
  <2>1. op = "reset" => l \in Links /\ link[l].user = u
    BY <1>1 DEF Starts
  <2>2. QED
    BY <1>2, <2>1 DEF Base, LinksMade, Begun
<1>5. Busy'
  <2>1. op # "idle"
    BY <1>2 DEF AllOps, OwnerOps, OwnOps
  <2>2. QED
    BY <1>2, <2>1 DEF Base, Busy, Begun, Working
<1>6. QED
  BY <1>3, <1>4, <1>5 DEF Base

LEMMA SnapshotKeepsBase ==
  ASSUME Base, NEW r \in Workers, Snapshot(r)
  PROVE  Base'
<1>1. /\ task[r].stage = "read" /\ task'[r].stage = "snapped" /\ task[r].op # "destroy"
      /\ task'[r].op = task[r].op /\ task'[r].id = task[r].id /\ task'[r].row = task[r].row
      /\ \A s \in Workers \ {r} : task'[s] = task[s]
      /\ task' \in [Workers -> Task] /\ UNCHANGED <<user, link, minted, trail, workload>>
  BY SnapshotEffect
<1>2. AccountsTypeOK'
  BY <1>1 DEF Base, AccountsTypeOK
<1>3. LinksMade'
  BY <1>1, SnapshotEffect DEF Base, LinksMade
<1>4. Busy'
  BY <1>1 DEF Base, Busy, Working
<1>5. QED
  BY <1>2, <1>3, <1>4 DEF Base

(* Counting a use leaves a link what it was. *)
LEMMA UseCounted ==
  ASSUME link \in [Links -> Link], NEW l \in Links \cup {None},
         link' = [link EXCEPT ![l].uses = @ + 1]
  PROVE  /\ link' \in [Links -> Link]
         /\ \A k \in Links : link'[k].user = link[k].user /\ link'[k].password = link[k].password
         /\ \A k \in Links : link'[k].uses = IF k = l THEN link[k].uses + 1 ELSE link[k].uses
<1>1. CASE l \in Links
  BY <1>1 DEF Link
<1>2. CASE l \notin Links
  <2>1. link' = link
    BY <1>2
  <2>2. QED
    BY <1>2, <2>1
<1>3. QED
  BY <1>1, <1>2

LEMMA SavedLinks ==
  ASSUME Base, NEW r \in Workers, Save(r)
  PROVE  link' \in [Links -> Link] /\ \A k \in Links : link'[k].user = link[k].user
<1>1. link \in [Links -> Link] /\ task[r].link \in Links \cup {None}
  BY TaskFields DEF Base, AccountsTypeOK
<1>2. link' = IF task[r].op = "reset" THEN [link EXCEPT ![task[r].link].uses = @ + 1] ELSE link
  BY SaveEffect
<1>3. QED
  BY <1>1, <1>2, UseCounted

LEMMA SaveKeepsBase ==
  ASSUME Base, NEW r \in Workers, Save(r)
  PROVE  Base'
<1>1. /\ task[r].stage = "snapped" /\ task'[r].stage = "saved" /\ task[r].op # "destroy"
      /\ task[r].id \in Usernames
      /\ task'[r].op = task[r].op /\ task'[r].id = task[r].id /\ task'[r].row = task[r].row
      /\ \A s \in Workers \ {r} : task'[s] = task[s]
      /\ task' \in [Workers -> Task] /\ user' \in [Usernames -> Row]
      /\ UNCHANGED <<minted, trail, workload>>
  BY SaveEffect
<1>2. link' \in [Links -> Link] /\ \A k \in Links : link'[k].user = link[k].user
  BY SavedLinks
<1>3. AccountsTypeOK'
  BY <1>1, <1>2 DEF Base, AccountsTypeOK
<1>4. Busy'
  BY <1>1 DEF Base, Busy, Working
<1>5. LinksMade'
  <2>1. \A k \in Links : link[k] # NoLink => link'[k].user \in Usernames
    BY <1>2 DEF Base, LinksMade
  <2>2. \A k \in Links : link[k] = NoLink => link'[k] = NoLink
    <3>1. CASE task[r].op = "reset"
      <4>1. task[r].link \in Links /\ link[task[r].link] # NoLink
        BY <1>1, <3>1, AccountsAssumption DEF Base, LinksMade, NoLink
      <4>2. link' = [link EXCEPT ![task[r].link].uses = @ + 1] /\ link \in [Links -> Link]
        BY <3>1, SaveEffect DEF Base, AccountsTypeOK
      <4>3. QED
        BY <4>1, <4>2
    <3>2. CASE task[r].op # "reset"
      BY <3>2, SaveEffect
    <3>3. QED
      BY <3>1, <3>2
  <2>3. \A s \in Workers : task'[s].op = "reset" =>
          task'[s].link \in Links /\ link'[task'[s].link].user = task'[s].id
    <3>1. \A s \in Workers :
            task'[s].op = task[s].op /\ task'[s].id = task[s].id /\ task'[s].link = task[s].link
      BY <1>1, SaveEffect
    <3>2. QED
      BY <1>2, <3>1 DEF Base, LinksMade
  <2>4. QED
    BY <2>1, <2>2, <2>3 DEF LinksMade
<1>6. QED
  BY <1>3, <1>4, <1>5 DEF Base

LEMMA FinishedKeeps ==
  ASSUME Base, NEW r \in Workers, Finish(r), link' = link
  PROVE  Busy' /\ LinksMade'
<1>1. task' \in [Workers -> Task] /\ task'[r] = NoTask /\ \A s \in Workers \ {r} : task'[s] = task[s]
  BY FinishEffect
<1>2. Busy'
  BY <1>1, NoTaskTyped DEF Base, Busy, Working
<1>3. LinksMade'
  BY <1>1, NoTaskTyped DEF Base, LinksMade
<1>4. QED
  BY <1>2, <1>3

LEMMA AuditKeepsBase ==
  ASSUME Base, NEW r \in Workers, Audit(r)
  PROVE  Base'
<1>1. /\ Finish(r) /\ trail' \in [Usernames -> Entry]
      /\ UNCHANGED <<user, link, minted, workload>>
  BY AuditEffect
<1>2. AccountsTypeOK'
  BY <1>1, FinishEffect DEF Base, AccountsTypeOK
<1>3. QED
  BY <1>1, <1>2, FinishedKeeps DEF Base

LEMMA DestroyKeepsBase ==
  ASSUME Base, NEW r \in Workers, Destroy(r)
  PROVE  Base'
<1>1. /\ Finish(r) /\ user' \in [Usernames -> Row] /\ trail' \in [Usernames -> Entry]
      /\ UNCHANGED <<link, minted, workload>>
  BY DestroyEffect
<1>2. AccountsTypeOK'
  BY <1>1, FinishEffect DEF Base, AccountsTypeOK
<1>3. QED
  BY <1>1, <1>2, FinishedKeeps DEF Base

LEMMA AbandonKeepsBase ==
  ASSUME Base, NEW r \in Workers, Abandon(r)
  PROVE  Base'
<1>1. Finish(r) /\ UNCHANGED <<user, link, minted, trail, workload>>
  BY DEF Abandon
<1>2. AccountsTypeOK'
  BY <1>1, FinishEffect DEF Base, AccountsTypeOK
<1>3. QED
  BY <1>1, <1>2, FinishedKeeps DEF Base

LEMMA BridgeKeepsBase ==
  ASSUME Base, NEW u \in Usernames, Bridge(u)
  PROVE  Base'
<1>1. /\ user' \in [Usernames -> Row] /\ trail' \in [Usernames -> Entry]
      /\ UNCHANGED <<link, minted, task, workload>>
  BY BridgeEffect
<1>2. QED
  BY <1>1 DEF Base, AccountsTypeOK, LinksMade, Busy, Working

LEMMA MailKeepsBase ==
  ASSUME Base, NEW u \in Usernames, NEW l \in Links, MailLink(u, l)
  PROVE  Base'
<1>1. /\ link' \in [Links -> Link] /\ link'[l].user = u
      /\ \A k \in Links \ {l} : link'[k] = link[k]
      /\ link[l] = NoLink /\ UNCHANGED <<user, minted, trail, task, workload>>
  BY MailEffect
<1>2. AccountsTypeOK' /\ Busy'
  BY <1>1 DEF Base, AccountsTypeOK, Busy, Working
<1>3. \A r \in Workers : task[r].op = "reset" => task[r].link # l
  <2> SUFFICES ASSUME NEW r \in Workers, task[r].op = "reset", task[r].link = l PROVE FALSE
    OBVIOUS
  <2>1. link[l].user = task[r].id
    BY DEF Base, LinksMade
  <2>2. task[r].id \in Usernames
    BY NoTaskTyped DEF Base, Busy
  <2>3. QED
    BY <1>1, <2>1, <2>2, AccountsAssumption DEF NoLink
<1>4. LinksMade'
  BY <1>1, <1>3 DEF Base, LinksMade
<1>5. QED
  BY <1>2, <1>4 DEF Base

LEMMA BaseAtFirst == AccountsInit => Base
<1> SUFFICES ASSUME AccountsInit PROVE Base
  OBVIOUS
<1> USE AccountsAssumption
<1>1. \A r \in Workers : task[r] = NoTask
  BY DEF AccountsInit
<1>2. user \in [Usernames -> Row]
  <2>1. NewRow("OWNER", TRUE) \in Row /\ NoRow("ABSENT") \in Row
    BY RowKinds DEF AccountRoles
  <2>2. QED
    BY <2>1 DEF AccountsInit
<1>3. trail \in [Usernames -> Entry]
  <2>1. \A u \in Usernames : [old |-> NoValues, new |-> Audited(user[u])] \in Entry
    BY <1>2, AuditedTyped DEF Entry, Values
  <2>2. QED
    BY <2>1 DEF AccountsInit
<1>4. AccountsTypeOK
  <2>1. NoLink \in Link
    BY DEF NoLink, Link
  <2>2. /\ link \in [Links -> Link] /\ minted \in 0..MaxPasswords
        /\ task \in [Workers -> Task] /\ workload \in Workloads
    BY <2>1, NoTaskTyped DEF AccountsInit
  <2>3. QED
    BY <1>2, <1>3, <2>2 DEF AccountsTypeOK
<1>5. Busy
  BY <1>1, NoTaskTyped DEF Busy, Working
<1>6. LinksMade
  BY <1>1, NoTaskTyped DEF LinksMade, AccountsInit
<1>7. QED
  BY <1>4, <1>5, <1>6 DEF Base

LEMMA BaseStays == Base /\ UNCHANGED accountsVars => Base'
  BY DEF Base, AccountsTypeOK, Busy, Working, LinksMade, accountsVars

LEMMA BaseKept == Base /\ [AccountsNext]_accountsVars => Base'
  BY RequestKeepsBase, SnapshotKeepsBase, SaveKeepsBase, AuditKeepsBase, DestroyKeepsBase,
     AbandonKeepsBase, BridgeKeepsBase, MailKeepsBase, BaseStays DEF AccountsNext

(* The types of the accounts, for any number of accounts, links and        *)
(* requests.                                                               *)
THEOREM AccountsTypeCorrect == AccountsSpec => []AccountsTypeOK
<1>1. Base => AccountsTypeOK
  BY DEF Base
<1>2. QED
  BY <1>1, BaseAtFirst, BaseKept, PTL DEF AccountsSpec
-----------------------------------------------------------------------------
(* Where changes take turns, what requests hold of the columns that are    *)
(* seen is what the row shows.                                             *)

(* A change meets nobody at its account. *)
LEMMA ChangeMeetsNobody ==
  ASSUME ChangesTakeTurns, NEW op \in AllOps, NEW other \in AllOps, {op, other} \in Sharing
  PROVE  op \notin Changes /\ other \notin Changes
<1>1. {other, op} \in Sharing
  <2>1. {other, op} = {op, other}
    OBVIOUS
  <2>2. QED
    BY <2>1
<1>2. QED
  BY <1>1 DEF ChangesTakeTurns

LEMMA WorksWhenNamed ==
  ASSUME Base, NEW s \in Workers
  PROVE  /\ task[s].id \in Usernames => Working(s)
         /\ Working(s) => task[s].op \in AllOps /\ task[s].id \in Usernames /\ task[s] # NoTask
<1>1. task[s] = NoTask => ~Working(s) /\ task[s].id = None
  BY NoTaskTyped DEF Working
<1>2. ~Working(s) => task[s] = NoTask
  BY DEF Base, Busy
<1>3. Working(s) => task[s].op \in AllOps /\ task[s].id \in Usernames
  BY TaskFields DEF Base, Busy, AccountsTypeOK
<1>4. QED
  BY <1>1, <1>2, <1>3, AccountsAssumption

LEMMA FitsAlike ==
  ASSUME NEW j, NEW now, NEW later, CopyFits(j, now), \A c \in Seen : later[c] = now[c]
  PROVE  CopyFits(j, later)
<1>1. later.state = now.state
  BY DEF Seen
<1>2. QED
  BY <1>1 DEF CopyFits

(* What a save leaves to be seen. *)
LEMMA SavedSeen ==
  ASSUME Base, Sound, NEW r \in Workers, Save(r)
  PROVE  LET u == task[r].id IN
         /\ \A c \in Seen : user'[u][c] = task[r].row[c]
         /\ task[r].op \notin Changes => \A c \in Seen : user'[u][c] = user[u][c]
<1> DEFINE u == task[r].id
           op == task[r].op
<1>1. /\ task[r].stage = "snapped" /\ op \in AllOps /\ u \in Usernames
      /\ \A c \in Columns : user'[u][c] = IF c \in Written(op) THEN task[r].row[c] ELSE user[u][c]
  BY SaveEffect
<1>2. op # "create" => \A c \in Seen \ Touched(op) : task[r].row[c] = user[u][c]
  BY <1>1 DEF Sound, Copies, CopyFits
<1>3. Seen \subseteq Columns
  BY DEF Seen, Columns
<1>4. ASSUME NEW c \in Seen PROVE user'[u][c] = task[r].row[c]
  <2>1. CASE c \in Written(op)
    BY <1>1, <1>3, <2>1
  <2>2. CASE c \notin Written(op)
    <3>1. op # "create" /\ c \notin Touched(op)
      BY <1>1, <1>3, <2>2, WhatIsWritten
    <3>2. QED
      BY <1>1, <1>2, <1>3, <2>2, <3>1
  <2>3. QED
    BY <2>1, <2>2
<1>5. op \notin Changes => op # "create" /\ Seen \cap Touched(op) = {}
  BY <1>1, WhatIsWritten DEF Changes
<1>6. op \notin Changes => \A c \in Seen : user'[u][c] = user[u][c]
  BY <1>2, <1>4, <1>5
<1>7. QED
  BY <1>4, <1>6

LEMMA NoTaskFits == \A now : CopyFits(NoTask, now)
  BY NoTaskTyped DEF CopyFits

LEMMA RequestIsSound ==
  ASSUME ChangesTakeTurns, Base, Sound, NEW r \in Workers, Request(r)
  PROVE  Sound'
<1>1. PICK op, u, row, l : Starts(r, op, u, row, l)
  BY Started
<1>2. /\ Begun(r, op, u, row, l) /\ op \in AllOps /\ u \in Usernames
  BY <1>1, BeginEffect DEF Starts
<1>3. /\ task'[r].op = op /\ task'[r].stage = "read" /\ task'[r].id = u /\ task'[r].row = row
      /\ \A s \in Workers \ {r} : task'[s] = task[s]
      /\ user' = user
  BY <1>2 DEF Begun
<1>4. \A s \in Workers : Working(s) /\ task[s].id = u => op \notin Changes /\ task[s].op \notin Changes
  <2> SUFFICES ASSUME NEW s \in Workers, Working(s), task[s].id = u
               PROVE  op \notin Changes /\ task[s].op \notin Changes
    OBVIOUS
  <2>1. task[s].op \in AllOps /\ task[s] # NoTask
    BY WorksWhenNamed
  <2>2. {op, task[s].op} \in Sharing
    BY <1>2, <2>1 DEF Begun
  <2>3. QED
    BY <1>2, <2>1, <2>2, ChangeMeetsNobody
<1>5. Apart'
  <2> SUFFICES ASSUME NEW p \in Workers, NEW q \in Workers, Working(p)', Working(q)',
                      task'[p].id = task'[q].id, p # q
               PROVE  task'[p].op \notin Changes
    BY DEF Apart
  <2>1. CASE p = r
    <3>1. task'[q] = task[q]
      BY <1>3, <2>1
    <3>2. QED
      BY <1>3, <1>4, <2>1, <3>1 DEF Working
  <2>2. CASE q = r
    <3>1. task'[p] = task[p]
      BY <1>3, <2>2
    <3>2. QED
      BY <1>3, <1>4, <2>2, <3>1 DEF Working
  <2>3. CASE p # r /\ q # r
    BY <1>3, <2>3 DEF Sound, Apart, Working
  <2>4. QED
    BY <2>1, <2>2, <2>3
<1>6. Copies'
  <2>1. CopyFits(task'[r], user'[task'[r].id])
    <3>1. op = "create" => user[u].state = "ABSENT"
      BY <1>1 DEF Starts
    <3>2. op # "create" => user[u].state = "THERE" /\ \A c \in Seen \ Touched(op) : row[c] = user[u][c]
      BY <1>1 DEF Starts, MadeFrom, Exists, Seen, Columns
    <3>3. QED
      BY <1>3, <3>1, <3>2 DEF CopyFits
  <2>2. \A s \in Workers \ {r} : CopyFits(task'[s], user'[task'[s].id])
    BY <1>3 DEF Sound, Copies
  <2>3. QED
    BY <2>1, <2>2 DEF Copies
<1>7. QED
  BY <1>5, <1>6 DEF Sound

LEMMA SnapshotIsSound ==
  ASSUME Base, Sound, NEW r \in Workers, Snapshot(r)
  PROVE  Sound'
<1>1. /\ task[r].stage = "read" /\ task'[r].stage = "snapped"
      /\ task'[r].op = task[r].op /\ task'[r].id = task[r].id /\ task'[r].row = task[r].row
      /\ \A s \in Workers \ {r} : task'[s] = task[s]
      /\ user' = user
  BY SnapshotEffect
<1>2. Apart'
  BY <1>1 DEF Sound, Apart, Working
<1>3. Copies'
  <2>1. CopyFits(task'[r], user'[task'[r].id])
    BY <1>1 DEF CopyFits, Sound, Copies
  <2>2. \A s \in Workers \ {r} : CopyFits(task'[s], user'[task'[s].id])
    BY <1>1 DEF Sound, Copies
  <2>3. QED
    BY <2>1, <2>2 DEF Copies
<1>4. QED
  BY <1>2, <1>3 DEF Sound

LEMMA SaveIsSound ==
  ASSUME Base, Sound, NEW r \in Workers, Save(r)
  PROVE  Sound'
<1> DEFINE u == task[r].id
<1>1. /\ task[r].stage = "snapped" /\ task'[r].stage = "saved" /\ u \in Usernames
      /\ task'[r].op = task[r].op /\ task'[r].id = u /\ task'[r].row = task[r].row
      /\ \A s \in Workers \ {r} : task'[s] = task[s]
      /\ \A v \in Usernames \ {u} : user'[v] = user[v]
  BY SaveEffect
<1>2. Apart'
  BY <1>1 DEF Sound, Apart, Working
<1>3. CopyFits(task'[r], user'[task'[r].id])
  BY <1>1, SavedSeen DEF CopyFits
<1>4. ASSUME NEW s \in Workers \ {r} PROVE CopyFits(task'[s], user'[task'[s].id])
  <2>1. CASE ~Working(s)
    BY <1>1, <2>1, NoTaskFits DEF Base, Busy
  <2>2. CASE Working(s) /\ task[s].id # u
    <3>1. task[s].id \in Usernames \ {u}
      BY <2>2, WorksWhenNamed
    <3>2. QED
      BY <1>1, <3>1 DEF Sound, Copies
  <2>3. CASE Working(s) /\ task[s].id = u
    <3>1. task[r].op \notin Changes
      BY <1>1, <2>3 DEF Sound, Apart, Working
    <3>2. \A c \in Seen : user'[u][c] = user[u][c]
      BY <3>1, SavedSeen
    <3>3. CopyFits(task[s], user[u])
      BY <2>3 DEF Sound, Copies
    <3>4. CopyFits(task[s], user'[u])
      BY <3>2, <3>3, FitsAlike
    <3>5. QED
      BY <1>1, <2>3, <3>4
  <2>4. QED
    BY <2>1, <2>2, <2>3
<1>5. QED
  BY <1>2, <1>3, <1>4 DEF Sound, Copies

(* When nothing but the account of a finished request has changed.         *)
LEMMA FinishIsSound ==
  ASSUME Base, Sound, NEW r \in Workers, Finish(r), Working(r),
         \A v \in Usernames \ {task[r].id} : user'[v] = user[v],
         user' = user \/ task[r].op \in Changes
  PROVE  Sound'
<1>1. task'[r] = NoTask /\ \A s \in Workers \ {r} : task'[s] = task[s]
  BY FinishEffect
<1>2. ~Working(r)'
  BY <1>1, NoTaskTyped DEF Working
<1>3. Apart'
  <2> SUFFICES ASSUME NEW p \in Workers, NEW q \in Workers, Working(p)', Working(q)',
                      task'[p].id = task'[q].id, p # q
               PROVE  task'[p].op \notin Changes
    BY DEF Apart
  <2>1. task'[p] = task[p] /\ task'[q] = task[q]
    BY <1>1, <1>2
  <2>2. QED
    BY <2>1 DEF Sound, Apart, Working
<1>4. ASSUME NEW s \in Workers PROVE CopyFits(task'[s], user'[task'[s].id])
  <2>1. CASE s = r
    BY <1>1, <2>1, NoTaskFits
  <2>2. CASE s # r /\ ~Working(s)
    <3>1. task'[s] = NoTask
      BY <1>1, <2>2 DEF Base, Busy
    <3>2. QED
      BY <3>1, NoTaskFits
  <2>3. CASE s # r /\ Working(s)
    <3>1. user'[task[s].id] = user[task[s].id]
      <4>1. CASE user' = user
        BY <4>1
      <4>2. CASE task[r].op \in Changes
        <5>1. task[s].id \in Usernames \ {task[r].id}
          BY <2>3, <4>2, WorksWhenNamed DEF Sound, Apart
        <5>2. QED
          BY <5>1
      <4>3. QED
        BY <4>1, <4>2
    <3>2. QED
      BY <1>1, <2>3, <3>1 DEF Sound, Copies
  <2>4. QED
    BY <2>1, <2>2, <2>3
<1>5. QED
  BY <1>3, <1>4 DEF Sound, Copies

(* Nobody is about an account that is being bridged. *)
LEMMA BridgeMeetsNobody ==
  ASSUME ChangesTakeTurns, Base, NEW u \in Usernames, Bridge(u), NEW s \in Workers
  PROVE  task[s].id # u
<1> SUFFICES ASSUME task[s].id = u PROVE FALSE
  OBVIOUS
<1>1. task[s].op \in AllOps /\ task[s] # NoTask
  BY WorksWhenNamed
<1>2. {"bridge", task[s].op} \in Sharing
  BY <1>1, BridgeEffect
<1>3. QED
  BY <1>1, <1>2 DEF ChangesTakeTurns, Changes

LEMMA SoundKept ==
  ASSUME ChangesTakeTurns, Base, Sound, [AccountsNext]_accountsVars
  PROVE  Sound'
<1>1. ASSUME NEW r \in Workers, Audit(r) \/ Abandon(r) PROVE Sound'
  <2>1. Finish(r) /\ user' = user
    BY <1>1 DEF Audit, Abandon
  <2>2. Working(r)
    BY <1>1, AccountsAssumption DEF Audit, Abandon, Working, Stages
  <2>3. QED
    BY <2>1, <2>2, FinishIsSound
<1>2. ASSUME NEW r \in Workers, Destroy(r) PROVE Sound'
  <2>1. /\ task[r].op \in Changes /\ Finish(r) /\ task[r].id \in Usernames
        /\ \A v \in Usernames \ {task[r].id} : user'[v] = user[v]
    BY <1>2, DestroyEffect DEF Changes, Removing
  <2>2. Working(r)
    BY <2>1, WorksWhenNamed
  <2>3. QED
    BY <2>1, <2>2, FinishIsSound
<1>3. ASSUME NEW u \in Usernames, Bridge(u) PROVE Sound'
  <2>1. (\A v \in Usernames \ {u} : user'[v] = user[v]) /\ task' = task
    BY <1>3, BridgeEffect
  <2>2. \A s \in Workers : task[s].id # u
    BY <1>3, BridgeMeetsNobody
  <2>3. ASSUME NEW s \in Workers PROVE CopyFits(task'[s], user'[task'[s].id])
    <3>1. CASE Working(s)
      BY <2>1, <2>2, <3>1, WorksWhenNamed DEF Sound, Copies
    <3>2. CASE ~Working(s)
      BY <2>1, <3>2, NoTaskFits DEF Base, Busy
    <3>3. QED
      BY <3>1, <3>2
  <2>4. QED
    BY <2>1, <2>3 DEF Sound, Copies, Apart, Working
<1>4. ASSUME user' = user, task' = task PROVE Sound'
  BY <1>4 DEF Sound, Copies, Apart, Working
<1>5. QED
  BY <1>1, <1>2, <1>3, <1>4, RequestIsSound, SnapshotIsSound, SaveIsSound, MailEffect
     DEF AccountsNext, accountsVars

LEMMA SoundAtFirst == AccountsInit => Sound
<1> SUFFICES ASSUME AccountsInit PROVE Sound
  OBVIOUS
<1>1. \A r \in Workers : task[r] = NoTask
  BY DEF AccountsInit
<1>2. QED
  BY <1>1, NoTaskTyped, NoTaskFits DEF Sound, Apart, Copies, Working
-----------------------------------------------------------------------------
(* The audit trail. *)

(* A change of u that is saved and not yet in the trail.                   *)
Unlogged(j, u) == j.id = u /\ j.stage = "saved" /\ j.op \in Changes

(* What a request knows of the trail of its account.                       *)
TellsOf(j, now, entry) ==
  /\ j.stage = "snapped" => j.prior = Audited(now)
  /\ j.stage = "saved" => j.prior = entry.new
Told ==
  /\ \A u \in Usernames :
       trail[u].new = Audited(user[u]) \/ \E r \in Workers : Unlogged(task[r], u)
  /\ \A r \in Workers : TellsOf(task[r], user[task[r].id], trail[task[r].id])

LEMMA NotWorking == \A now, entry, u : TellsOf(NoTask, now, entry) /\ ~Unlogged(NoTask, u)
  BY NoTaskTyped DEF TellsOf, Unlogged

(* With another one at the account, it has logged what it shows.           *)
LEMMA LoggedUnlessAlone ==
  ASSUME Base, Sound, Told, NEW r \in Workers, Working(r), ~Unlogged(task[r], task[r].id)
  PROVE  trail[task[r].id].new = Audited(user[task[r].id])
<1>1. task[r].id \in Usernames
  BY WorksWhenNamed
<1>2. \A s \in Workers \ {r} : ~Unlogged(task[s], task[r].id)
  BY DEF Sound, Apart, Unlogged, Working
<1>3. QED
  BY <1>1, <1>2 DEF Told

(* A step of r that leaves other accounts alone, and others at its account *)
(* with what they know.                                                    *)
LEMMA OthersTold ==
  ASSUME Base, Told, NEW r \in Workers, NEW u \in Usernames,
         \A s \in Workers \ {r} : task'[s] = task[s],
         \A v \in Usernames \ {u} : user'[v] = user[v] /\ trail'[v] = trail[v],
         task[r].id \in {u, None}, task'[r].id \in {u, None},
         \A s \in Workers \ {r} : task[s].id = u =>
           Audited(user'[u]) = Audited(user[u]) /\ trail'[u].new = trail[u].new,
         TellsOf(task'[r], user'[task'[r].id], trail'[task'[r].id]),
         trail'[u].new = Audited(user'[u]) \/ Unlogged(task'[r], u)
  PROVE  Told'
<1>1. ASSUME NEW s \in Workers \ {r}
      PROVE  TellsOf(task'[s], user'[task'[s].id], trail'[task'[s].id])
  <2>1. CASE ~Working(s)
    <3>1. task'[s] = NoTask
      BY <2>1 DEF Base, Busy
    <3>2. QED
      BY <3>1, NotWorking
  <2>2. CASE Working(s) /\ task[s].id # u
    <3>1. task[s].id \in Usernames \ {u}
      BY <2>2, WorksWhenNamed
    <3>2. QED
      BY <3>1 DEF Told
  <2>3. CASE task[s].id = u
    <3>1. TellsOf(task[s], user[u], trail[u])
      BY <2>3 DEF Told
    <3>2. TellsOf(task[s], user'[u], trail'[u])
      BY <2>3, <3>1 DEF TellsOf
    <3>3. QED
      BY <2>3, <3>2
  <2>4. QED
    BY <2>1, <2>2, <2>3
<1>2. ASSUME NEW v \in Usernames
      PROVE  trail'[v].new = Audited(user'[v]) \/ \E s \in Workers : Unlogged(task'[s], v)
  <2>1. CASE v = u
    BY <2>1
  <2>2. CASE v # u
    <3>1. ~Unlogged(task[r], v)
      BY <2>2, AccountsAssumption DEF Unlogged
    <3>2. trail[v].new = Audited(user[v]) \/ \E s \in Workers \ {r} : Unlogged(task[s], v)
      BY <3>1 DEF Told
    <3>3. QED
      BY <2>2, <3>2
  <2>3. QED
    BY <2>1, <2>2
<1>3. (\A v \in Usernames :
         trail[v].new = Audited(user[v]) \/ \E s \in Workers : Unlogged(task[s], v))'
  BY <1>2 DEF Audited
<1>4. QED
  BY <1>1, <1>3 DEF Told

LEMMA SaveTells ==
  ASSUME Base, Sound, Told, NEW r \in Workers, Save(r)
  PROVE  Told'
<1> DEFINE u == task[r].id
<1>1. /\ task[r].stage = "snapped" /\ task'[r].stage = "saved" /\ u \in Usernames
      /\ task'[r].prior = IF Exists(u) THEN task[r].prior ELSE NoValues
      /\ task'[r].op = task[r].op /\ task'[r].id = u
      /\ \A s \in Workers \ {r} : task'[s] = task[s]
      /\ \A v \in Usernames \ {u} : user'[v] = user[v]
      /\ user' \in [Usernames -> Row] /\ trail' = trail
  BY SaveEffect
<1>2. user[u] \in Row /\ user'[u] \in Row
  BY <1>1 DEF Base, AccountsTypeOK
<1>3. trail[u].new = Audited(user[u])
  BY <1>1, LoggedUnlessAlone DEF Working, Unlogged
<1>4. TellsOf(task'[r], user'[task'[r].id], trail'[task'[r].id])
  <2>1. Exists(u) => task[r].prior = Audited(user[u])
    BY <1>1 DEF Told, TellsOf
  <2>2. ~Exists(u) => Audited(user[u]) = NoValues
    BY DEF Audited, Exists
  <2>3. task'[r].prior = trail[u].new
    BY <1>1, <1>3, <2>1, <2>2
  <2>4. QED
    BY <1>1, <2>3 DEF TellsOf
<1>5. task[r].op \notin Changes => Audited(user'[u]) = Audited(user[u])
  <2> SUFFICES ASSUME task[r].op \notin Changes PROVE Audited(user'[u]) = Audited(user[u])
    OBVIOUS
  <2>1. \A c \in Seen : user'[u][c] = user[u][c]
    BY SavedSeen
  <2>2. QED
    BY <1>2, <2>1, SameAudit
<1>6. \A s \in Workers \ {r} : task[s].id = u => task[r].op \notin Changes
  BY <1>1, WorksWhenNamed DEF Sound, Apart, Working
<1>7. trail'[u].new = Audited(user'[u]) \/ Unlogged(task'[r], u)
  BY <1>1, <1>3, <1>5 DEF Unlogged
<1> HIDE DEF u
<1>8. QED
  BY <1>1, <1>4, <1>5, <1>6, <1>7, OthersTold DEF u

LEMMA AuditTells ==
  ASSUME Base, Sound, Told, NEW r \in Workers, Audit(r)
  PROVE  Told'
<1> DEFINE u == task[r].id
<1>1. /\ task[r].stage = "saved" /\ u \in Usernames /\ Finish(r)
      /\ task[r].prior = Audited(task[r].row) => trail' = trail
      /\ task[r].prior # Audited(task[r].row) => trail'[u].new = Audited(task[r].row)
      /\ \A v \in Usernames \ {u} : trail'[v] = trail[v]
      /\ user' = user
  BY AuditEffect
<1>2. task[r].row \in Row /\ user[u] \in Row
  BY <1>1, TaskFields DEF Base, AccountsTypeOK
<1>3. Audited(task[r].row) = Audited(user[u])
  <2>1. \A c \in Seen : task[r].row[c] = user[u][c]
    BY <1>1 DEF Sound, Copies, CopyFits
  <2>2. QED
    BY <1>2, <2>1, SameAudit
<1>4. task[r].prior = trail[u].new
  BY <1>1 DEF Told, TellsOf
<1>5. trail'[u].new = Audited(user'[u])
  BY <1>1, <1>3, <1>4
<1>6. ASSUME NEW s \in Workers \ {r}, task[s].id = u PROVE trail'[u].new = trail[u].new
  <2>1. Working(s) /\ Working(r)
    BY <1>1, <1>6, WorksWhenNamed
  <2>2. task[r].op \notin Changes
    BY <1>6, <2>1 DEF Sound, Apart
  <2>3. trail[u].new = Audited(user[u])
    BY <2>1, <2>2, LoggedUnlessAlone DEF Unlogged
  <2>4. QED
    BY <1>1, <1>5, <2>3
<1>7. task'[r] = NoTask /\ \A s \in Workers \ {r} : task'[s] = task[s]
  BY <1>1, FinishEffect
<1>8. TellsOf(task'[r], user'[task'[r].id], trail'[task'[r].id]) /\ task'[r].id = None
  BY <1>7, NotWorking, NoTaskTyped
<1> HIDE DEF u
<1>9. QED
  BY <1>1, <1>5, <1>6, <1>7, <1>8, OthersTold DEF u

LEMMA DestroyTells ==
  ASSUME Base, Sound, Told, NEW r \in Workers, Destroy(r)
  PROVE  Told'
<1> DEFINE u == task[r].id
<1>1. /\ task[r].op = "destroy" /\ u \in Usernames /\ Finish(r)
      /\ user'[u] = NoRow("DELETED") /\ trail'[u].new = NoValues
      /\ \A v \in Usernames \ {u} : user'[v] = user[v] /\ trail'[v] = trail[v]
  BY DestroyEffect
<1>2. trail'[u].new = Audited(user'[u])
  BY <1>1 DEF Audited, NoRow
<1>3. \A s \in Workers \ {r} : task[s].id # u
  BY <1>1, WorksWhenNamed DEF Sound, Apart, Changes, Removing
<1>4. task'[r] = NoTask /\ \A s \in Workers \ {r} : task'[s] = task[s]
  BY <1>1, FinishEffect
<1>5. TellsOf(task'[r], user'[task'[r].id], trail'[task'[r].id]) /\ task'[r].id = None
  BY <1>4, NotWorking, NoTaskTyped
<1> HIDE DEF u
<1>6. QED
  BY <1>1, <1>2, <1>3, <1>4, <1>5, OthersTold DEF u

LEMMA ToldKept ==
  ASSUME DeathsAreEarly, ChangesTakeTurns, Base, Sound, Told, [AccountsNext]_accountsVars
  PROVE  Told'
<1>1. ASSUME NEW r \in Workers, Request(r) PROVE Told'
  <2>1. PICK op, u, row, l : Starts(r, op, u, row, l)
    BY <1>1, Started
  <2>2. Begun(r, op, u, row, l)
    BY <2>1, BeginEffect
  <2>3. /\ task[r] = NoTask /\ task'[r].stage = "read"
        /\ \A s \in Workers \ {r} : task'[s] = task[s]
        /\ user' = user /\ trail' = trail
    BY <2>2 DEF Begun
  <2>4. TellsOf(task'[r], user'[task'[r].id], trail'[task'[r].id])
    BY <2>3 DEF TellsOf
  <2>5. \A s \in Workers, v \in Usernames : Unlogged(task[s], v) => Unlogged(task'[s], v)
    BY <2>3, NotWorking
  <2>6. QED
    BY <2>3, <2>4, <2>5 DEF Told, Unlogged
<1>2. ASSUME NEW r \in Workers, Snapshot(r) PROVE Told'
  <2>1. /\ task[r].stage = "read" /\ task'[r].stage = "snapped"
        /\ task'[r].prior = Audited(user[task[r].id]) /\ task'[r].id = task[r].id
        /\ \A s \in Workers \ {r} : task'[s] = task[s]
        /\ user' = user /\ trail' = trail
    BY <1>2, SnapshotEffect
  <2>2. TellsOf(task'[r], user'[task'[r].id], trail'[task'[r].id])
    BY <2>1 DEF TellsOf
  <2>3. \A s \in Workers, v \in Usernames : Unlogged(task[s], v) => Unlogged(task'[s], v)
    BY <2>1 DEF Unlogged
  <2>4. QED
    BY <2>1, <2>2, <2>3 DEF Told, Unlogged
<1>3. ASSUME NEW r \in Workers, Abandon(r) PROVE Told'
  <2>1. /\ task[r].stage # "saved" /\ Finish(r) /\ user' = user /\ trail' = trail
    BY <1>3 DEF Abandon, DeathsAreEarly
  <2>2. task'[r] = NoTask /\ \A s \in Workers \ {r} : task'[s] = task[s]
    BY <2>1, FinishEffect
  <2>3. TellsOf(task'[r], user'[task'[r].id], trail'[task'[r].id])
    BY <2>2, NotWorking
  <2>4. \A s \in Workers, v \in Usernames : Unlogged(task[s], v) => Unlogged(task'[s], v)
    BY <2>1, <2>2 DEF Unlogged
  <2>5. QED
    BY <2>1, <2>2, <2>3, <2>4 DEF Told, Unlogged
<1>4. ASSUME NEW u \in Usernames, Bridge(u) PROVE Told'
  <2>1. /\ \A v \in Usernames \ {u} : user'[v] = user[v] /\ trail'[v] = trail[v]
        /\ trail'[u].new = Audited(user'[u]) /\ task' = task
    BY <1>4, BridgeEffect
  <2>2. \A s \in Workers : task[s].id # u
    BY <1>4, BridgeMeetsNobody
  <2>3. ASSUME NEW s \in Workers PROVE TellsOf(task'[s], user'[task'[s].id], trail'[task'[s].id])
    <3>1. CASE Working(s)
      BY <2>1, <2>2, <3>1, WorksWhenNamed DEF Told
    <3>2. CASE ~Working(s)
      BY <2>1, <3>2, NotWorking DEF Base, Busy
    <3>3. QED
      BY <3>1, <3>2
  <2>4. ASSUME NEW v \in Usernames
        PROVE  trail'[v].new = Audited(user'[v]) \/ \E s \in Workers : Unlogged(task'[s], v)
    BY <2>1 DEF Told
  <2>5. (\A v \in Usernames :
           trail[v].new = Audited(user[v]) \/ \E s \in Workers : Unlogged(task[s], v))'
    BY <2>4 DEF Audited
  <2>6. QED
    BY <2>3, <2>5 DEF Told
<1>5. ASSUME user' = user, trail' = trail, task' = task PROVE Told'
  BY <1>5 DEF Told, Unlogged
<1>6. QED
  BY <1>1, <1>2, <1>3, <1>4, <1>5, SaveTells, AuditTells, DestroyTells, MailEffect
     DEF AccountsNext, accountsVars

(* Unless a worker dies between a save and its audit entry, and where      *)
(* requests that change what the audit shows have their account to         *)
(* themselves, the newest entry of an account nobody is working on tells   *)
(* what the account is.                                                    *)
THEOREM TrailIsTrue == DeathsAreEarly /\ ChangesTakeTurns => (AccountsSpec => []TrailTellsRow)
<1> SUFFICES ASSUME DeathsAreEarly, ChangesTakeTurns PROVE AccountsSpec => []TrailTellsRow
  OBVIOUS
<1>1. AccountsInit => Told
  <2> SUFFICES ASSUME AccountsInit PROVE Told
    OBVIOUS
  <2>1. \A r \in Workers : task[r] = NoTask
    BY DEF AccountsInit
  <2>2. \A u \in Usernames : trail[u].new = Audited(user[u])
    BY DEF AccountsInit
  <2>3. QED
    BY <2>1, <2>2, NotWorking DEF Told
<1>2. Base /\ Sound /\ Told /\ [AccountsNext]_accountsVars => Told'
  BY ToldKept
<1>3. Base /\ Sound /\ [AccountsNext]_accountsVars => Sound'
  BY SoundKept
<1>4. Told => TrailTellsRow
  BY DEF Told, TrailTellsRow, Unlogged
<1>5. QED
  BY <1>1, <1>2, <1>3, <1>4, SoundAtFirst, BaseAtFirst, BaseKept, PTL DEF AccountsSpec
-----------------------------------------------------------------------------
(* Reset links. *)

(* The operations that write the password they have read.                  *)
Keeping == WholeRow \ {"create"}

PasswordsMinted ==
  /\ \A u \in Usernames : user[u].password <= minted
  /\ \A l \in Links : link[l].password <= minted
  /\ \A r \in Workers : Pending(r) => task[r].row.password <= minted

(* A password that is about to be set is nobody's yet.                     *)
PasswordsFresh ==
  \A r \in Workers : Pending(r) /\ task[r].op \in Setting =>
    /\ task[r].row.password > 0
    /\ \A u \in Usernames : user[u].password # task[r].row.password
    /\ \A l \in Links : link[l].password # task[r].row.password
    /\ \A s \in Workers \ {r} : Pending(s) => task[s].row.password # task[r].row.password

(* A spent link fits neither its account nor a row about to be saved.      *)
FitsNot(k) ==
  /\ Exists(k.user) => user[k.user].password # k.password
  /\ \A r \in Workers :
       Pending(r) /\ task[r].op \in Keeping /\ task[r].id = k.user => task[r].row.password # k.password
LinksSpent ==
  \A l \in Links :
    /\ link[l].uses <= 1
    /\ link[l] # NoLink => user[link[l].user].state # "ABSENT"
    /\ link[l].uses > 0 => FitsNot(link[l])

(* A reset comes with an unspent link, and meets no other and no save that *)
(* would undo it.                                                          *)
ResetsAlone ==
  \A r \in Workers : Pending(r) /\ task[r].op = "reset" =>
    /\ link[task[r].link].uses = 0
    /\ \A s \in Workers \ {r} :
         Pending(s) /\ task[s].id = task[r].id => task[s].op \notin Keeping \cup {"reset"}

LinkInv == PasswordsMinted /\ PasswordsFresh /\ LinksSpent /\ ResetsAlone

LEMMA PasswordsAreNumbers ==
  ASSUME Base
  PROVE  /\ minted \in Nat
         /\ \A u \in Usernames : user[u].password \in Nat
         /\ \A l \in Links : link[l].password \in Nat /\ link[l].uses \in Nat
         /\ \A r \in Workers : task[r].row.password \in Nat
<1>1. \A u \in Usernames : user[u] \in Row
  BY DEF Base, AccountsTypeOK
<1>2. \A r \in Workers : task[r].row \in Row
  BY TaskFields DEF Base, AccountsTypeOK
<1>3. \A row \in Row : row.password \in Nat
  BY RowFields, AccountsAssumption
<1>4. minted \in Nat /\ \A l \in Links : link[l].password \in Nat /\ link[l].uses \in Nat
  BY AccountsAssumption DEF Base, AccountsTypeOK, Link
<1>5. QED
  BY <1>1, <1>2, <1>3, <1>4

LEMMA NobodyPending == NoTask.stage \notin {"read", "snapped"}
  BY NoTaskTyped

(* A made link names an account. *)
LEMMA LinkNamed ==
  ASSUME Base, NEW l \in Links
  PROVE  link[l].uses > 0 \/ link[l] # NoLink => link[l].user \in Usernames
<1>1. link[l] = NoLink => link[l].uses = 0
  BY DEF NoLink
<1>2. link[l] # NoLink => link[l].user \in Usernames
  BY DEF Base, LinksMade
<1>3. QED
  BY <1>1, <1>2

(* A step that neither saves nor begins.                                   *)
LEMMA NothingSpent ==
  ASSUME LinkInv, NEW r \in Workers,
         UNCHANGED <<user, link, minted>>, \A s \in Workers \ {r} : task'[s] = task[s],
         \/ task'[r] = NoTask
         \/ /\ Pending(r) /\ task'[r].row = task[r].row
            /\ task'[r].op = task[r].op /\ task'[r].id = task[r].id /\ task'[r].link = task[r].link
  PROVE  LinkInv'
<1> DEFINE Same(s) == /\ task'[s].row = task[s].row /\ task'[s].op = task[s].op
                      /\ task'[s].id = task[s].id /\ task'[s].link = task[s].link
<1>1. \A s \in Workers : Pending(s)' => Pending(s) /\ Same(s)
  BY NobodyPending DEF Pending
<1>2. PasswordsMinted'
  BY <1>1 DEF LinkInv, PasswordsMinted
<1>3. PasswordsFresh'
  BY <1>1 DEF LinkInv, PasswordsFresh
<1>4. LinksSpent'
  <2>1. \A l \in Links : FitsNot(link[l]) => FitsNot(link[l])'
    BY <1>1 DEF FitsNot, Exists
  <2>2. QED
    BY <2>1 DEF LinkInv, LinksSpent
<1>5. ResetsAlone'
  BY <1>1 DEF LinkInv, ResetsAlone
<1>6. QED
  BY <1>2, <1>3, <1>4, <1>5 DEF LinkInv

LEMMA RequestSpendsNothing ==
  ASSUME LinksTakeTurns, Base, LinkInv, NEW r \in Workers, Request(r)
  PROVE  LinkInv'
<1>1. PICK op, u, row, l : Starts(r, op, u, row, l)
  BY Started
<1>2. Begun(r, op, u, row, l) /\ op \in AllOps /\ u \in Usernames /\ row \in Row
  BY <1>1, BeginEffect DEF Starts
<1>3. /\ task'[r].op = op /\ task'[r].id = u /\ task'[r].row = row /\ task'[r].link = l
      /\ \A s \in Workers \ {r} : task'[s] = task[s] /\ (Pending(s)' <=> Pending(s))
      /\ minted' \in Nat /\ minted' >= minted /\ minted' >= row.password
      /\ user' = user /\ link' = link
  BY <1>2, AccountsAssumption DEF Begun, Pending
<1>4. /\ minted \in Nat
      /\ \A v \in Usernames : user[v].password \in Nat /\ user[v].password <= minted
      /\ \A k \in Links : link[k].password \in Nat /\ link[k].password <= minted /\ link[k].uses \in Nat
      /\ \A s \in Workers :
           task[s].row.password \in Nat /\ (Pending(s) => task[s].row.password <= minted)
  BY PasswordsAreNumbers DEF LinkInv, PasswordsMinted
<1>5. row.password \in Nat
  BY <1>2, RowFields, AccountsAssumption
(* A password that is set is new, one that is kept is the account's. *)
<1>6. op \in Setting => row.password = minted + 1
  BY <1>1 DEF Starts, MadeFrom, Fresh, Setting
<1>7. op \notin Setting =>
        \/ op = "create" /\ row.password = 0
        \/ user[u].state = "THERE" /\ row.password = user[u].password
  <2> SUFFICES ASSUME op \notin Setting, op # "create"
               PROVE  user[u].state = "THERE" /\ row.password = user[u].password
    BY <1>1 DEF Starts
  <2>1. "password" \in Columns \ Touched(op)
    BY <1>2, WhatIsWritten DEF Columns
  <2>2. user[u].state = "THERE" /\ row["password"] = user[u]["password"]
    BY <1>1, <2>1 DEF Starts, MadeFrom, Exists
  <2>3. QED
    BY <2>2
<1>8. PasswordsMinted'
  <2>1. \A v \in Usernames : user'[v].password <= minted'
    BY <1>3, <1>4
  <2>2. \A k \in Links : link'[k].password <= minted'
    BY <1>3, <1>4
  <2>3. \A s \in Workers : Pending(s)' => task'[s].row.password <= minted'
    BY <1>3, <1>4
  <2>4. QED
    BY <2>1, <2>2, <2>3 DEF PasswordsMinted
<1>9. PasswordsFresh'
  <2> SUFFICES ASSUME NEW s \in Workers, Pending(s)', task'[s].op \in Setting
               PROVE  /\ task'[s].row.password > 0
                      /\ \A v \in Usernames : user[v].password # task'[s].row.password
                      /\ \A k \in Links : link[k].password # task'[s].row.password
                      /\ \A q \in Workers \ {s} :
                           Pending(q)' => task'[q].row.password # task'[s].row.password
    BY <1>3 DEF PasswordsFresh
  <2>1. CASE s = r
    <3>1. task'[s].row.password = minted + 1
      BY <1>3, <1>6, <2>1
    <3>2. \A q \in Workers \ {s} : Pending(q)' => task'[q].row.password <= minted /\ task'[q].row.password \in Nat
      BY <1>3, <1>4, <2>1
    <3>3. QED
      BY <1>4, <3>1, <3>2
  <2>2. CASE s # r
    <3>1. /\ Pending(s) /\ task[s].op \in Setting /\ task'[s] = task[s]
      BY <1>3, <2>2
    <3>2. /\ task[s].row.password > 0
          /\ \A v \in Usernames : user[v].password # task[s].row.password
          /\ \A k \in Links : link[k].password # task[s].row.password
          /\ \A q \in Workers \ {s} : Pending(q) => task[q].row.password # task[s].row.password
      BY <3>1 DEF LinkInv, PasswordsFresh
    <3>3. row.password # task[s].row.password
      <4>1. task[s].row.password \in Nat /\ task[s].row.password <= minted
        BY <1>4, <3>1
      <4>2. QED
        BY <1>2, <1>4, <1>5, <1>6, <1>7, <3>2, <4>1
    <3>4. \A q \in Workers \ {s} : Pending(q)' => task'[q].row.password # task[s].row.password
      BY <1>3, <3>2, <3>3
    <3>5. QED
      BY <3>1, <3>2, <3>4
  <2>3. QED
    BY <2>1, <2>2
<1>10. ASSUME NEW k \in Links, link[k].uses > 0 PROVE FitsNot(link[k])'
  <2>1. FitsNot(link[k]) /\ link[k].user \in Usernames
    BY <1>10, LinkNamed DEF LinkInv, LinksSpent
  <2>2. op \in Keeping /\ u = link[k].user => row.password # link[k].password
    <3>1. op \in Keeping => op \notin Setting /\ op # "create"
      BY DEF Keeping, WholeRow, Setting
    <3>2. QED
      BY <1>7, <2>1, <3>1 DEF FitsNot, Exists
  <2>3. (\A s \in Workers :
           Pending(s) /\ task[s].op \in Keeping /\ task[s].id = link[k].user =>
             task[s].row.password # link[k].password)'
    BY <1>3, <2>1, <2>2 DEF FitsNot
  <2>4. QED
    BY <1>3, <2>1, <2>3 DEF FitsNot, Exists
<1>11. LinksSpent'
  BY <1>3, <1>10 DEF LinkInv, LinksSpent
<1>12. ResetsAlone'
  <2>1. op = "reset" => link[l].uses = 0
    <3> SUFFICES ASSUME op = "reset" PROVE link[l].uses = 0
      OBVIOUS
    <3>1. l \in Links /\ link[l].user = u /\ link[l].password = user[u].password /\ Exists(u)
      BY <1>1 DEF Starts, TokenFits
    <3>2. ~(link[l].uses > 0)
      BY <3>1 DEF LinkInv, LinksSpent, FitsNot
    <3>3. QED
      BY <1>4, <3>1, <3>2
  <2>2. \A s \in Workers \ {r} : Pending(s) /\ task[s].id = u => {op, task[s].op} \in Sharing
    BY <1>2, NobodyPending DEF Begun, Pending
  <2>3. \A o \in Keeping \cup {"reset"} : {o, "reset"} \notin Sharing
    BY DEF LinksTakeTurns, Keeping, WholeRow
  <2>4. \A s \in Workers \ {r} : Pending(s) /\ task[s].id = u =>
          /\ op = "reset" => task[s].op \notin (Keeping \cup {"reset"})
          /\ task[s].op = "reset" => op \notin (Keeping \cup {"reset"})
    <3>1. \A o : {"reset", o} = {o, "reset"}
      OBVIOUS
    <3>2. QED
      BY <2>2, <2>3, <3>1
  <2> SUFFICES ASSUME NEW s \in Workers, Pending(s)', task'[s].op = "reset"
               PROVE  /\ link[task'[s].link].uses = 0
                      /\ \A q \in Workers \ {s} : Pending(q)' /\ task'[q].id = task'[s].id =>
                           task'[q].op \notin Keeping \cup {"reset"}
    BY <1>3 DEF ResetsAlone
  <2>5. CASE s = r
    BY <1>3, <2>1, <2>4, <2>5
  <2>6. CASE s # r
    <3>1. Pending(s) /\ task'[s] = task[s] /\ task[s].op = "reset"
      BY <1>3, <2>6
    <3>2. /\ link[task[s].link].uses = 0
          /\ \A q \in Workers \ {s} : Pending(q) /\ task[q].id = task[s].id =>
               task[q].op \notin Keeping \cup {"reset"}
      BY <3>1 DEF LinkInv, ResetsAlone
    <3>3. u = task[s].id => op \notin Keeping \cup {"reset"}
      BY <2>4, <2>6, <3>1
    <3>4. QED
      BY <1>3, <3>1, <3>2, <3>3
  <2>7. QED
    BY <2>5, <2>6
<1>13. QED
  BY <1>8, <1>9, <1>11, <1>12 DEF LinkInv

LEMMA SaveSpendsOnce ==
  ASSUME Base, LinkInv, NEW r \in Workers, Save(r)
  PROVE  LinkInv'
<1> DEFINE u == task[r].id
           op == task[r].op
           row == task[r].row
<1>1. /\ task[r].stage = "snapped" /\ task'[r].stage = "saved" /\ u \in Usernames
      /\ task'[r].op = op /\ task'[r].id = u /\ task'[r].row = row /\ task'[r].link = task[r].link
      /\ \A s \in Workers \ {r} : task'[s] = task[s]
      /\ op \in AllOps \ {"destroy", "bridge", "link"} /\ row.state = "THERE"
      /\ Exists(u) \/ Written(op) = Columns
      /\ op = "create" => user[u].state = "ABSENT"
      /\ \A c \in Columns : user'[u][c] = IF c \in Written(op) THEN row[c] ELSE user[u][c]
      /\ \A v \in Usernames \ {u} : user'[v] = user[v]
      /\ minted' = minted
  BY SaveEffect
<1>2. Pending(r) /\ ~Pending(r)' /\ \A s \in Workers \ {r} : (Pending(s)' <=> Pending(s))
  BY <1>1 DEF Pending
<1>3. /\ user'[u].password = IF "password" \in Written(op) THEN row.password ELSE user[u].password
      /\ user'[u].state = IF "state" \in Written(op) THEN "THERE" ELSE user[u].state
  <2>1. /\ user'[u]["password"] = IF "password" \in Written(op) THEN row["password"] ELSE user[u]["password"]
        /\ user'[u]["state"] = IF "state" \in Written(op) THEN row["state"] ELSE user[u]["state"]
    BY <1>1 DEF Columns
  <2>2. QED
    BY <1>1, <2>1
<1>4. task[r].op = "reset" => task[r].link \in Links /\ link[task[r].link].user = u
  BY DEF Base, LinksMade
<1>5. /\ \A k \in Links : link'[k].user = link[k].user /\ link'[k].password = link[k].password
      /\ \A k \in Links : link'[k].uses = IF op = "reset" /\ k = task[r].link
                                           THEN link[k].uses + 1 ELSE link[k].uses
  <2>1. link \in [Links -> Link] /\ task[r].link \in Links \cup {None}
    BY TaskFields DEF Base, AccountsTypeOK
  <2>2. link' = IF task[r].op = "reset" THEN [link EXCEPT ![task[r].link].uses = @ + 1] ELSE link
    BY SaveEffect
  <2>3. QED
    BY <2>1, <2>2, UseCounted
<1>6. op = "reset" => link[task[r].link].uses = 0
  BY <1>2 DEF LinkInv, ResetsAlone
<1>7. PasswordsMinted'
  <2>1. row.password <= minted
    BY <1>2 DEF LinkInv, PasswordsMinted
  <2>2. \A v \in Usernames : user'[v].password <= minted'
    BY <1>1, <1>3, <2>1 DEF LinkInv, PasswordsMinted
  <2>3. QED
    BY <1>1, <1>2, <1>5, <2>2 DEF LinkInv, PasswordsMinted
<1>8. PasswordsFresh'
  <2> SUFFICES ASSUME NEW s \in Workers, Pending(s)', task'[s].op \in Setting
               PROVE  /\ task'[s].row.password > 0
                      /\ \A v \in Usernames : user'[v].password # task'[s].row.password
                      /\ \A k \in Links : link'[k].password # task'[s].row.password
                      /\ \A q \in Workers \ {s} :
                           Pending(q)' => task'[q].row.password # task'[s].row.password
    BY DEF PasswordsFresh
  <2>1. s # r /\ Pending(s) /\ task'[s] = task[s] /\ task[s].op \in Setting
    BY <1>1, <1>2
  <2>2. /\ task[s].row.password > 0
        /\ \A v \in Usernames : user[v].password # task[s].row.password
        /\ \A k \in Links : link[k].password # task[s].row.password
        /\ \A q \in Workers \ {s} : Pending(q) => task[q].row.password # task[s].row.password
    BY <2>1 DEF LinkInv, PasswordsFresh
  <2>3. row.password # task[s].row.password
    BY <1>2, <2>1, <2>2
  <2>4. \A v \in Usernames : user'[v].password # task[s].row.password
    BY <1>1, <1>3, <2>2, <2>3
  <2>5. \A q \in Workers \ {s} : Pending(q)' => task'[q].row.password # task[s].row.password
    BY <1>1, <1>2, <2>2
  <2>6. QED
    BY <1>5, <2>1, <2>2, <2>4, <2>5
(* A link that is spent, now or before, does not fit what is saved. *)
<1>9. ASSUME NEW k \in Links, link'[k].uses > 0 PROVE FitsNot(link[k])'
  <2>1. \/ link[k].uses > 0 /\ FitsNot(link[k])
        \/ op = "reset" /\ k = task[r].link
    <3>1. (op = "reset" /\ k = task[r].link) \/ link[k].uses > 0
      BY <1>5, <1>9
    <3>2. QED
      BY <3>1 DEF LinkInv, LinksSpent
  <2>2. link[k].user \in Usernames /\ link[k] # NoLink
    <3>1. link[k].user \in Usernames
      BY <1>1, <1>4, <2>1, LinkNamed
    <3>2. QED
      BY <3>1, AccountsAssumption DEF NoLink
  <2>3. link[k].user = u => user'[u].password # link[k].password
    <3> SUFFICES ASSUME link[k].user = u PROVE user'[u].password # link[k].password
      OBVIOUS
    <3>1. op # "create"
      BY <1>1, <2>2 DEF LinkInv, LinksSpent
    <3>2. CASE op \in Setting
      <4>1. row.password # link[k].password
        BY <1>2, <3>2 DEF LinkInv, PasswordsFresh
      <4>2. "password" \in Written(op)
        BY <1>1, <3>2, WhatIsWritten
      <4>3. QED
        BY <1>3, <4>1, <4>2
    <3>3. CASE op \in Keeping
      <4>1. FitsNot(link[k])
        BY <2>1, <3>3 DEF Keeping, WholeRow
      <4>2. row.password # link[k].password
        BY <1>2, <3>3, <4>1 DEF FitsNot
      <4>3. "password" \in Written(op)
        BY <3>3 DEF Keeping, WholeRow, Written, Columns
      <4>4. QED
        BY <1>3, <4>2, <4>3
    <3>4. CASE op \notin Setting \cup Keeping
      <4>1. op \notin Setting \cup WholeRow \cup {"destroy", "bridge", "link"}
        BY <1>1, <3>1, <3>4 DEF Keeping
      <4>2. "password" \notin Written(op) /\ Exists(u)
        BY <1>1, <4>1, WhatIsWritten
      <4>3. FitsNot(link[k])
        BY <2>1, <3>4 DEF Setting
      <4>4. QED
        BY <1>3, <4>2, <4>3 DEF FitsNot
    <3>5. QED
      BY <3>2, <3>3, <3>4
  <2>4. Exists(link[k].user)' => user'[link'[k].user].password # link'[k].password
    <3>1. CASE link[k].user = u
      BY <1>5, <2>3, <3>1
    <3>2. CASE link[k].user # u
      <4>1. op = "reset" => k # task[r].link
        BY <1>4, <3>2
      <4>2. FitsNot(link[k])
        BY <2>1, <4>1
      <4>3. user'[link[k].user] = user[link[k].user]
        BY <1>1, <2>2, <3>2
      <4>4. QED
        BY <1>5, <4>2, <4>3 DEF FitsNot, Exists
    <3>3. QED
      BY <3>1, <3>2
  <2>5. ASSUME NEW s \in Workers, Pending(s)', task'[s].op \in Keeping, task'[s].id = link'[k].user
        PROVE  task'[s].row.password # link'[k].password
    <3>1. s # r /\ Pending(s) /\ task'[s] = task[s]
      BY <1>1, <1>2, <2>5
    <3>2. op = "reset" => k # task[r].link
      <4> SUFFICES ASSUME op = "reset", k = task[r].link PROVE FALSE
        OBVIOUS
      <4>1. task[s].id = u
        BY <1>4, <1>5, <2>5, <3>1
      <4>2. QED
        BY <1>2, <2>5, <3>1, <4>1 DEF LinkInv, ResetsAlone
    <3>3. FitsNot(link[k])
      BY <2>1, <3>2
    <3>4. QED
      BY <1>5, <2>5, <3>1, <3>3 DEF FitsNot
  <2>6. QED
    BY <1>5, <2>4, <2>5 DEF FitsNot, Exists
<1>10. LinksSpent'
  <2>1. ASSUME NEW k \in Links PROVE link'[k].uses <= 1
    BY <1>5, <1>6, PasswordsAreNumbers DEF LinkInv, LinksSpent
  <2>2. ASSUME NEW k \in Links, link'[k] # NoLink PROVE user'[link'[k].user].state # "ABSENT"
    <3>1. link[k].user \in Usernames /\ link[k] # NoLink
      <4>1. link'[k].user \in Usernames
        BY <2>2, SaveKeepsBase DEF Base, LinksMade
      <4>2. QED
        BY <1>5, <4>1, AccountsAssumption DEF NoLink
    <3>2. user[link[k].user].state # "ABSENT"
      BY <3>1 DEF LinkInv, LinksSpent
    <3>3. QED
      BY <1>1, <1>3, <1>5, <3>1, <3>2
  <2>3. QED
    BY <1>9, <2>1, <2>2 DEF LinksSpent
<1>11. ResetsAlone'
  <2> SUFFICES ASSUME NEW s \in Workers, Pending(s)', task'[s].op = "reset"
               PROVE  /\ link'[task'[s].link].uses = 0
                      /\ \A q \in Workers \ {s} : Pending(q)' /\ task'[q].id = task'[s].id =>
                           task'[q].op \notin Keeping \cup {"reset"}
    BY DEF ResetsAlone
  <2>1. s # r /\ Pending(s) /\ task'[s] = task[s] /\ task[s].op = "reset"
    BY <1>1, <1>2
  <2>2. /\ link[task[s].link].uses = 0
        /\ \A q \in Workers \ {s} : Pending(q) /\ task[q].id = task[s].id =>
             task[q].op \notin Keeping \cup {"reset"}
    BY <2>1 DEF LinkInv, ResetsAlone
  <2>3. task[s].link \in Links /\ link[task[s].link].user = task[s].id
    BY <2>1 DEF Base, LinksMade
  <2>4. op = "reset" => task[s].link # task[r].link
    BY <1>2, <1>4, <2>1, <2>2, <2>3
  <2>5. QED
    BY <1>1, <1>2, <1>5, <2>1, <2>2, <2>3, <2>4
<1>12. QED
  BY <1>7, <1>8, <1>10, <1>11 DEF LinkInv

(* An account goes, or comes, and links and requests stay as they are.     *)
LEMMA RowGoesOrComes ==
  ASSUME Base, LinkInv, NEW u \in Usernames,
         \A v \in Usernames \ {u} : user'[v] = user[v],
         user'[u].password = 0, user'[u].state # "ABSENT",
         user'[u].state = "DELETED" \/ user[u].state = "ABSENT",
         link' = link, minted' = minted,
         \A s \in Workers : Pending(s)' => task'[s] = task[s]
  PROVE  LinkInv'
<1>1. \A s \in Workers : Pending(s)' => Pending(s) /\ task'[s] = task[s]
  BY DEF Pending
<1>2. PasswordsMinted'
  <2>1. \A v \in Usernames : user'[v].password <= minted'
    BY PasswordsAreNumbers DEF LinkInv, PasswordsMinted
  <2>2. QED
    BY <1>1, <2>1 DEF LinkInv, PasswordsMinted
<1>3. PasswordsFresh'
  <2> SUFFICES ASSUME NEW s \in Workers, Pending(s)', task'[s].op \in Setting
               PROVE  /\ task'[s].row.password > 0
                      /\ \A v \in Usernames : user'[v].password # task'[s].row.password
                      /\ \A k \in Links : link'[k].password # task'[s].row.password
                      /\ \A q \in Workers \ {s} :
                           Pending(q)' => task'[q].row.password # task'[s].row.password
    BY DEF PasswordsFresh
  <2>1. Pending(s) /\ task'[s] = task[s] /\ task[s].op \in Setting
    BY <1>1
  <2>2. /\ task[s].row.password > 0
        /\ \A v \in Usernames : user[v].password # task[s].row.password
        /\ \A k \in Links : link[k].password # task[s].row.password
        /\ \A q \in Workers \ {s} : Pending(q) => task[q].row.password # task[s].row.password
    BY <2>1 DEF LinkInv, PasswordsFresh
  <2>3. \A v \in Usernames : user'[v].password # task[s].row.password
    BY <2>2, PasswordsAreNumbers
  <2>4. QED
    BY <1>1, <2>1, <2>2, <2>3
<1>4. LinksSpent'
  <2>1. \A k \in Links : link[k].user = u /\ link[k] # NoLink => ~Exists(u)'
    BY DEF LinkInv, LinksSpent, Exists
  <2>2. ASSUME NEW k \in Links, link[k].uses > 0 PROVE FitsNot(link[k])'
    <3>1. FitsNot(link[k]) /\ link[k].user \in Usernames /\ link[k] # NoLink
      BY <2>2, LinkNamed DEF LinkInv, LinksSpent, NoLink
    <3>2. Exists(link[k].user)' => user'[link[k].user].password # link[k].password
      BY <2>1, <3>1 DEF FitsNot, Exists
    <3>3. (\A s \in Workers :
             Pending(s) /\ task[s].op \in Keeping /\ task[s].id = link[k].user =>
               task[s].row.password # link[k].password)'
      BY <1>1, <3>1 DEF FitsNot
    <3>4. QED
      BY <3>2, <3>3 DEF FitsNot, Exists
  <2>3. \A k \in Links : link[k] # NoLink => user'[link[k].user].state # "ABSENT"
    BY LinkNamed DEF LinkInv, LinksSpent
  <2>4. QED
    BY <2>2, <2>3 DEF LinkInv, LinksSpent
<1>5. ResetsAlone'
  BY <1>1 DEF LinkInv, ResetsAlone
<1>6. QED
  BY <1>2, <1>3, <1>4, <1>5 DEF LinkInv

LEMMA DestroySpendsNothing ==
  ASSUME Base, LinkInv, NEW r \in Workers, Destroy(r)
  PROVE  LinkInv'
<1> DEFINE u == task[r].id
<1>1. /\ u \in Usernames /\ Finish(r) /\ user'[u] = NoRow("DELETED")
      /\ \A v \in Usernames \ {u} : user'[v] = user[v]
      /\ link' = link /\ minted' = minted
  BY DestroyEffect
<1>2. task'[r] = NoTask /\ \A s \in Workers \ {r} : task'[s] = task[s]
  BY <1>1, FinishEffect
<1>3. \A s \in Workers : Pending(s)' => task'[s] = task[s]
  BY <1>2, NobodyPending DEF Pending
<1>4. user'[u].password = 0 /\ user'[u].state = "DELETED"
  BY <1>1 DEF NoRow
<1> HIDE DEF u
<1>5. QED
  BY <1>1, <1>3, <1>4, RowGoesOrComes

LEMMA BridgeSpendsNothing ==
  ASSUME Base, LinkInv, NEW u \in Usernames, Bridge(u)
  PROVE  LinkInv'
<1>1. /\ user[u].state = "ABSENT"
      /\ user'[u] = NewRow("OWNER", TRUE) /\ \A v \in Usernames \ {u} : user'[v] = user[v]
      /\ link' = link /\ minted' = minted /\ task' = task
  BY BridgeEffect
<1>2. user'[u].password = 0 /\ user'[u].state = "THERE"
  BY <1>1 DEF NewRow
<1>3. QED
  BY <1>1, <1>2, RowGoesOrComes

LEMMA MailSpendsNothing ==
  ASSUME Base, LinkInv, NEW u \in Usernames, NEW l \in Links, MailLink(u, l)
  PROVE  LinkInv'
<1>1. /\ Exists(u) /\ link[l] = NoLink
      /\ link'[l].user = u /\ link'[l].password = user[u].password /\ link'[l].uses = 0
      /\ \A k \in Links \ {l} : link'[k] = link[k]
      /\ user' = user /\ minted' = minted /\ task' = task
  BY MailEffect
<1>2. PasswordsMinted'
  BY <1>1 DEF LinkInv, PasswordsMinted, Pending
<1>3. PasswordsFresh'
  <2> SUFFICES ASSUME NEW s \in Workers, Pending(s), task[s].op \in Setting
               PROVE  /\ task[s].row.password > 0
                      /\ \A v \in Usernames : user[v].password # task[s].row.password
                      /\ \A k \in Links : link'[k].password # task[s].row.password
                      /\ \A q \in Workers \ {s} : Pending(q) => task[q].row.password # task[s].row.password
    BY <1>1 DEF PasswordsFresh, Pending
  <2>1. QED
    BY <1>1 DEF LinkInv, PasswordsFresh
<1>4. LinksSpent'
  <2>1. ASSUME NEW k \in Links \ {l}, link[k].uses > 0 PROVE FitsNot(link[k])'
    BY <1>1, <2>1 DEF LinkInv, LinksSpent, FitsNot, Exists, Pending
  <2>2. QED
    BY <1>1, <2>1 DEF LinkInv, LinksSpent, Exists
<1>5. ResetsAlone'
  <2>1. \A r \in Workers : task[r].op = "reset" => task[r].link \in Links \ {l}
    <3> SUFFICES ASSUME NEW r \in Workers, task[r].op = "reset", task[r].link = l PROVE FALSE
      BY DEF Base, LinksMade
    <3>1. link[l].user = task[r].id
      BY DEF Base, LinksMade
    <3>2. task[r].id \in Usernames
      BY NoTaskTyped DEF Base, Busy
    <3>3. QED
      BY <1>1, <3>1, <3>2, AccountsAssumption DEF NoLink
  <2>2. QED
    BY <1>1, <2>1 DEF LinkInv, ResetsAlone, Pending
<1>6. QED
  BY <1>2, <1>3, <1>4, <1>5 DEF LinkInv

LEMMA LinksKept ==
  ASSUME LinksTakeTurns, Base, LinkInv, [AccountsNext]_accountsVars
  PROVE  LinkInv'
<1>1. ASSUME NEW r \in Workers, Snapshot(r) PROVE LinkInv'
  <2>1. Pending(r)
    BY <1>1, SnapshotEffect DEF Pending
  <2>2. QED
    BY <1>1, <2>1, SnapshotEffect, NothingSpent
<1>2. ASSUME NEW r \in Workers, Audit(r) PROVE LinkInv'
  <2>1. Finish(r) /\ UNCHANGED <<user, link, minted>>
    BY <1>2, AuditEffect
  <2>2. QED
    BY <2>1, FinishEffect, NothingSpent
<1>3. ASSUME NEW r \in Workers, Abandon(r) PROVE LinkInv'
  <2>1. Finish(r) /\ UNCHANGED <<user, link, minted>>
    BY <1>3 DEF Abandon
  <2>2. QED
    BY <2>1, FinishEffect, NothingSpent
<1>4. CASE UNCHANGED accountsVars
  <2>1. UNCHANGED <<user, link, minted, task>>
    BY <1>4 DEF accountsVars
  <2>2. (\A l \in Links : FitsNot(link[l]) => FitsNot(link[l])')
    BY <2>1 DEF FitsNot, Exists, Pending
  <2>3. LinksSpent'
    BY <2>1, <2>2 DEF LinkInv, LinksSpent
  <2>4. QED
    BY <2>1, <2>3 DEF LinkInv, PasswordsMinted, PasswordsFresh, ResetsAlone, Pending
<1>5. QED
  BY <1>1, <1>2, <1>3, <1>4, RequestSpendsNothing, SaveSpendsOnce, DestroySpendsNothing,
     BridgeSpendsNothing, MailSpendsNothing DEF AccountsNext

(* A link sets a password at most once, whatever happens to the account    *)
(* before and after and wherever workers die, as long as its use meets     *)
(* neither another reset of the account nor a save of the whole row.       *)
THEOREM LinksWorkOnce == LinksTakeTurns => (AccountsSpec => []LinkWorksOnce)
<1> SUFFICES ASSUME LinksTakeTurns PROVE AccountsSpec => []LinkWorksOnce
  OBVIOUS
<1>1. AccountsInit => LinkInv
  <2> SUFFICES ASSUME AccountsInit PROVE LinkInv
    OBVIOUS
  <2>1. \A r \in Workers : ~Pending(r)
    BY NobodyPending DEF AccountsInit, Pending
  <2>2. \A u \in Usernames : user[u].password = 0
    BY DEF AccountsInit, NewRow, NoRow
  <2>3. \A l \in Links : link[l] = NoLink /\ link[l].password = 0 /\ link[l].uses = 0
    BY DEF AccountsInit, NoLink
  <2>4. minted = 0
    BY DEF AccountsInit
  <2>5. QED
    BY <2>1, <2>2, <2>3, <2>4
       DEF LinkInv, PasswordsMinted, PasswordsFresh, LinksSpent, ResetsAlone
<1>2. Base /\ LinkInv /\ [AccountsNext]_accountsVars => LinkInv'
  BY LinksKept
<1>3. LinkInv => LinkWorksOnce
  BY DEF LinkInv, LinksSpent, LinkWorksOnce
<1>4. QED
  BY <1>1, <1>2, <1>3, BaseAtFirst, BaseKept, PTL DEF AccountsSpec
-----------------------------------------------------------------------------
(* Owners. *)

IsOwner(u) == Exists(u) /\ user[u].active = TRUE /\ user[u].role = "OWNER"

(* Whoever may take an owner away leaves another.                          *)
LeavesOne(r) == task[r].op \in Removing => \E v \in Usernames \ {task[r].id} : IsOwner(v)
OwnerInv ==
  /\ \E u \in Usernames : IsOwner(u)
  /\ \A r \in Workers : LeavesOne(r) /\ task[r].op # "update self"
  /\ \A r \in Workers : task[r].op = "activate" => task[r].row.active = TRUE
  /\ \A r, s \in Workers : task[r].op \in Removing /\ task[s].op \in Removing => r = s

LEMMA NoTaskRemoves ==
  NoTask.op \notin Removing /\ NoTask.op \notin {"update self", "activate"}
  BY NoTaskTyped DEF Removing

(* Owners stay, and so does what requests hold of them.                    *)
LEMMA OwnersStay ==
  ASSUME OwnerInv, \A v \in Usernames : IsOwner(v) => IsOwner(v)',
         \A r \in Workers : task'[r] = NoTask \/
           (task'[r].op = task[r].op /\ task'[r].id = task[r].id /\ task'[r].row = task[r].row)
  PROVE  OwnerInv'
<1>1. \E u \in Usernames : IsOwner(u)'
  BY DEF OwnerInv
<1>2. ASSUME NEW r \in Workers PROVE LeavesOne(r)' /\ task'[r].op # "update self"
  <2>1. CASE task'[r] = NoTask
    BY <2>1, NoTaskRemoves DEF LeavesOne
  <2>2. CASE task'[r].op = task[r].op /\ task'[r].id = task[r].id
    BY <2>2 DEF OwnerInv, LeavesOne
  <2>3. QED
    BY <2>1, <2>2
<1>3. \A r \in Workers : task'[r].op = "activate" => task'[r].row.active = TRUE
  BY NoTaskRemoves DEF OwnerInv
<1>4. \A r, s \in Workers : task'[r].op \in Removing /\ task'[s].op \in Removing => r = s
  BY NoTaskRemoves DEF OwnerInv
<1>5. QED
  BY <1>1, <1>2, <1>3, <1>4 DEF OwnerInv

(* r is the one that may take an owner away: it does so now.               *)
LEMMA OneIsLeft ==
  ASSUME OwnerInv, NEW r \in Workers, task[r].op \in Removing,
         \A v \in Usernames \ {task[r].id} : user'[v] = user[v],
         task'[r] = NoTask \/
           (task'[r].op = task[r].op /\ task'[r].id = task[r].id /\ task'[r].row = task[r].row),
         \A s \in Workers \ {r} : task'[s] = task[s]
  PROVE  OwnerInv'
<1>1. PICK v \in Usernames \ {task[r].id} : IsOwner(v)
  BY DEF OwnerInv, LeavesOne
<1>2. IsOwner(v)'
  BY <1>1 DEF IsOwner, Exists
<1>3. \A s \in Workers \ {r} : task'[s].op \notin Removing
  BY DEF OwnerInv
<1>4. ASSUME NEW s \in Workers PROVE LeavesOne(s)' /\ task'[s].op # "update self"
  <2>1. task'[s].op \in Removing => task'[s].id = task[r].id
    BY <1>3, NoTaskRemoves
  <2>2. LeavesOne(s)'
    BY <1>1, <1>2, <2>1 DEF LeavesOne
  <2>3. task'[s].op # "update self"
    BY NoTaskRemoves, ZenonT(30) DEF OwnerInv
  <2>4. QED
    BY <2>2, <2>3
<1>5. \A s \in Workers : task'[s].op = "activate" => task'[s].row.active = TRUE
  BY NoTaskRemoves, ZenonT(30) DEF OwnerInv
<1>6. \A p, q \in Workers : task'[p].op \in Removing /\ task'[q].op \in Removing => p = q
  BY <1>3
<1>7. QED
  BY <1>1, <1>2, <1>4, <1>5, <1>6 DEF OwnerInv

LEMMA RequestLeavesOne ==
  ASSUME OwnersTakeTurns, Base, OwnerInv, NEW r \in Workers, Request(r)
  PROVE  OwnerInv'
<1>1. PICK op, u, row, l : Starts(r, op, u, row, l)
  BY Started
<1>2. Begun(r, op, u, row, l) /\ MayMeet(op, u)
  BY <1>1, BeginEffect DEF Starts, Begin
<1>3. /\ task'[r].op = op /\ task'[r].id = u /\ task'[r].row = row /\ user' = user
      /\ \A s \in Workers \ {r} : task'[s] = task[s]
  BY <1>2 DEF Begun
<1>4. op # "update self"
  BY <1>2 DEF OwnersTakeTurns, MayMeet, Base, AccountsTypeOK
<1>5. op \in Removing => \A s \in Workers : task[s].op \notin Removing
  <2> SUFFICES ASSUME op \in Removing, NEW s \in Workers, task[s].op \in Removing PROVE FALSE
    OBVIOUS
  <2>1. task[s] # NoTask /\ task[s].op \in AllOps /\ op \in Changes
    BY NoTaskRemoves DEF Removing, Changes, AllOps, OwnerOps
  <2>2. {op, task[s].op} \notin Sharing /\ {op, task[s].op} \notin Meetings
    BY <2>1 DEF OwnersTakeTurns, ChangesTakeTurns
  <2>3. QED
    BY <1>2, <2>1, <2>2 DEF MayMeet
<1>6. \A v \in Usernames : ActsAsOwner(v) => IsOwner(v)
  <2>1. "bearer" \notin Channels
    BY DEF OwnersTakeTurns
  <2>2. \A v \in Usernames : user[v].active \in BOOLEAN
    BY RowFields DEF Base, AccountsTypeOK
  <2>3. QED
    BY <2>1, <2>2 DEF ActsAsOwner, MayAct, IsOwner, Exists
<1>7. op \in Removing => \E v \in Usernames \ {u} : IsOwner(v)
  BY <1>1, <1>6 DEF Starts
<1>8. op = "activate" => row.active = TRUE
  BY <1>1 DEF Starts, MadeFrom
<1>9. \A v \in Usernames : IsOwner(v)' <=> IsOwner(v)
  BY <1>3 DEF IsOwner, Exists
<1>10. ASSUME NEW s \in Workers PROVE LeavesOne(s)' /\ task'[s].op # "update self"
  <2>1. CASE s = r
    BY <1>3, <1>4, <1>7, <1>9, <2>1 DEF LeavesOne
  <2>2. CASE s # r
    BY <1>3, <1>9, <2>2 DEF OwnerInv, LeavesOne
  <2>3. QED
    BY <2>1, <2>2
<1>11. \A s \in Workers : task'[s].op = "activate" => task'[s].row.active = TRUE
  BY <1>3, <1>8 DEF OwnerInv
<1>12. \A p, q \in Workers : task'[p].op \in Removing /\ task'[q].op \in Removing => p = q
  BY <1>3, <1>5 DEF OwnerInv
<1>13. \E v \in Usernames : IsOwner(v)'
  BY <1>9 DEF OwnerInv
<1>14. QED
  BY <1>10, <1>11, <1>12, <1>13 DEF OwnerInv

LEMMA SaveLeavesOne ==
  ASSUME Base, Sound, OwnerInv, NEW r \in Workers, Save(r)
  PROVE  OwnerInv'
<1> DEFINE u == task[r].id
<1>1. /\ task[r].stage = "snapped" /\ u \in Usernames
      /\ task'[r].op = task[r].op /\ task'[r].id = u /\ task'[r].row = task[r].row
      /\ \A s \in Workers \ {r} : task'[s] = task[s]
      /\ \A v \in Usernames \ {u} : user'[v] = user[v]
      /\ \A c \in Seen : user'[u][c] = task[r].row[c]
  BY SaveEffect, SavedSeen
<1>2. CASE task[r].op \in Removing
  BY <1>1, <1>2, OneIsLeft
<1>3. CASE task[r].op \notin Removing
  <2>1. CopyFits(task[r], user[u]) /\ task[r].op \in AllOps \ {"update self"}
    <3>1. task[r].op \in AllOps
      BY SaveEffect
    <3>2. QED
      BY <3>1 DEF Sound, Copies, OwnerInv
  <2>2. IsOwner(u) => IsOwner(u)'
    <3> SUFFICES ASSUME IsOwner(u) PROVE IsOwner(u)'
      OBVIOUS
    <3>1. task[r].op # "create" /\ \A c \in Seen \ Touched(task[r].op) : task[r].row[c] = user[u][c]
      BY <1>1, <2>1 DEF CopyFits, IsOwner, Exists
    <3>2. /\ "state" \in Seen \ Touched(task[r].op) /\ "role" \in Seen \ Touched(task[r].op)
          /\ task[r].op # "activate" => "active" \in Seen \ Touched(task[r].op)
      <4>1. task[r].op \in {"destroy", "set password", "login", "profile", "password", "activate",
                            "bridge", "link", "reset"}
        BY <1>3, <2>1, <3>1 DEF AllOps, OwnerOps, OwnOps, Removing
      <4>2. QED
        BY <4>1 DEF Touched, Written, Columns, Seen
    <3>3. task[r].row["state"] = "THERE" /\ task[r].row["role"] = "OWNER" /\ task[r].row["active"] = TRUE
      <4>1. user[u]["state"] = "THERE" /\ user[u]["role"] = "OWNER" /\ user[u]["active"] = TRUE
        BY DEF IsOwner, Exists
      <4>2. task[r].op = "activate" => task[r].row["active"] = TRUE
        BY DEF OwnerInv
      <4>3. task[r].row["state"] = user[u]["state"] /\ task[r].row["role"] = user[u]["role"]
        BY <3>1, <3>2
      <4>4. task[r].op # "activate" => task[r].row["active"] = user[u]["active"]
        BY <3>1, <3>2
      <4>5. task[r].row["active"] = TRUE
        BY <4>1, <4>2, <4>4
      <4>6. QED
        BY <4>1, <4>3, <4>5
    <3>4. user'[u]["state"] = "THERE" /\ user'[u]["role"] = "OWNER" /\ user'[u]["active"] = TRUE
      BY <1>1, <3>3 DEF Seen
    <3>5. QED
      BY <1>1, <3>4 DEF IsOwner, Exists
  <2>3. \A v \in Usernames : IsOwner(v) => IsOwner(v)'
    BY <1>1, <2>2 DEF IsOwner, Exists
  <2>4. QED
    BY <1>1, <2>3, OwnersStay
<1>4. QED
  BY <1>2, <1>3

LEMMA OwnerInvKept ==
  ASSUME OwnersTakeTurns, Base, Sound, OwnerInv, [AccountsNext]_accountsVars
  PROVE  OwnerInv'
<1>a. ASSUME user' = user PROVE \A v \in Usernames : IsOwner(v) => IsOwner(v)'
  BY <1>a DEF IsOwner, Exists
<1>1. ASSUME NEW r \in Workers, Snapshot(r) PROVE OwnerInv'
  <2>1. /\ user' = user /\ \A s \in Workers : task'[s].op = task[s].op /\ task'[s].id = task[s].id
                                               /\ task'[s].row = task[s].row
    BY <1>1, SnapshotEffect
  <2>2. QED
    BY <1>a, <2>1, OwnersStay
<1>2. ASSUME NEW r \in Workers, Audit(r) \/ Abandon(r) PROVE OwnerInv'
  <2>1. user' = user /\ Finish(r)
    BY <1>2 DEF Audit, Abandon
  <2>2. QED
    BY <1>a, <2>1, FinishEffect, OwnersStay
<1>3. ASSUME NEW r \in Workers, Destroy(r) PROVE OwnerInv'
  <2>1. /\ task[r].op \in Removing /\ Finish(r)
        /\ \A v \in Usernames \ {task[r].id} : user'[v] = user[v]
    BY <1>3, DestroyEffect DEF Removing
  <2>2. task'[r] = NoTask /\ \A s \in Workers \ {r} : task'[s] = task[s]
    BY <2>1, FinishEffect
  <2>3. QED
    BY <2>1, <2>2, OneIsLeft
<1>4. ASSUME NEW u \in Usernames, Bridge(u) PROVE OwnerInv'
  <2>1. /\ user[u].state = "ABSENT" /\ \A v \in Usernames \ {u} : user'[v] = user[v]
        /\ task' = task
    BY <1>4, BridgeEffect
  <2>2. \A v \in Usernames : IsOwner(v) => IsOwner(v)'
    BY <2>1 DEF IsOwner, Exists
  <2>3. QED
    BY <2>1, <2>2, OwnersStay
<1>5. ASSUME user' = user, task' = task PROVE OwnerInv'
  BY <1>a, <1>5, OwnersStay
<1>6. QED
  BY <1>1, <1>2, <1>3, <1>4, <1>5, RequestLeavesOne, SaveLeavesOne, MailEffect
     DEF AccountsNext, accountsVars

(* Where requests carry cookies, no owner takes their own role away,       *)
(* removals do not meet and changes have their account to themselves, an   *)
(* active owner always remains, however owners promote, demote, switch off *)
(* and delete each other.                                                  *)
THEOREM OwnerAlwaysRemains == OwnersTakeTurns => (AccountsSpec => []OwnerRemains)
<1> SUFFICES ASSUME OwnersTakeTurns PROVE AccountsSpec => []OwnerRemains
  OBVIOUS
<1>1. AccountsInit => OwnerInv
  <2> SUFFICES ASSUME AccountsInit PROVE OwnerInv
    OBVIOUS
  <2>1. \A r \in Workers : task[r] = NoTask
    BY DEF AccountsInit
  <2>2. PICK o \in Usernames :
          user = [u \in Usernames |-> IF u = o THEN NewRow("OWNER", TRUE) ELSE NoRow("ABSENT")]
    BY DEF AccountsInit
  <2>3. IsOwner(o)
    BY <2>2 DEF IsOwner, Exists, NewRow
  <2>4. QED
    BY <2>1, <2>3, NoTaskRemoves DEF OwnerInv, LeavesOne
<1>2. Base /\ Sound /\ OwnerInv /\ [AccountsNext]_accountsVars => OwnerInv'
  BY OwnerInvKept
<1>3. Base /\ Sound /\ [AccountsNext]_accountsVars => Sound'
  BY SoundKept DEF OwnersTakeTurns
<1>4. OwnerInv => OwnerRemains
  BY DEF OwnerInv, OwnerRemains, IsOwner
<1>5. QED
  BY <1>1, <1>2, <1>3, <1>4, SoundAtFirst, BaseAtFirst, BaseKept, PTL DEF AccountsSpec
-----------------------------------------------------------------------------
(* Alerts. *)

(* What a run found nobody notified of, nobody has been notified of since. *)
LookedUp == \A r \in Runs : \A cell \in job[r].missing : unread[cell] = 0

LEMMA IdleIsAJob == Idle \in Job
  BY DEF Idle, Job, AlertTypes

LEMMA RowsAreTyped == NoPref \in Pref /\ Created \in Pref
  BY DEF NoPref, Created, Pref

(* Job, field by field. *)
LEMMA JobFields ==
  ASSUME NEW j \in Job
  PROVE  /\ j.op \in {"idle", "run", "prefs"} /\ j.next \in 1..(Len(AlertTypes) + 1)
         /\ j.stage \in {"enabled", "rows", "generate"}
         /\ j.todo \in SUBSET Cells /\ j.missing \in SUBSET Cells /\ j.keys \in SUBSET Types
  BY DEF Job

LEMMA SomeTypes == Len(AlertTypes) = 6 /\ \A n \in 1..6 : AlertTypes[n] \in Types
  BY DEF AlertTypes, Types

(* What a run holds when it has asked, and when it goes on to the next     *)
(* type.                                                                   *)
LEMMA StageReplaced ==
  ASSUME NEW j \in Job, NEW stage \in {"enabled", "rows", "generate"}
  PROVE  [j EXCEPT !.stage = stage] \in Job
  BY DEF Job

LEMMA TypePassed ==
  ASSUME NEW j \in Job, NEW cells \in SUBSET Cells, NEW n \in 1..(Len(AlertTypes) + 1)
  PROVE  [j EXCEPT !.stage = "enabled", !.next = n, !.todo = cells] \in Job
  BY DEF Job

LEMMA CellTaken ==
  ASSUME NEW j \in Job, NEW cells \in SUBSET Cells, NEW found \in SUBSET Cells
  PROVE  [j EXCEPT !.todo = cells, !.missing = found] \in Job
  BY DEF Job

LEMMA KeysReplaced ==
  ASSUME NEW j \in Job, NEW keys \in SUBSET Types
  PROVE  [j EXCEPT !.keys = keys] \in Job
  BY DEF Job

Asking(r) == AskEnabled(r) \/ SkipType(r) \/ NoRowOfType(r) \/ Generate(r)

LEMMA TypesKept == TypeOK /\ [Next]_vars => TypeOK'
<1> SUFFICES ASSUME TypeOK, [Next]_vars PROVE TypeOK'
  OBVIOUS
<1> USE AlertsAssumption DEF TypeOK
<1>1. ASSUME NEW r \in Runs, StartRun(r) PROVE TypeOK'
  <2>1. [job[r] EXCEPT !.op = "run"] \in Job
    BY DEF Job
  <2>2. QED
    BY <1>1, <2>1 DEF StartRun
<1>2. ASSUME NEW r \in Runs, Asking(r) PROVE TypeOK'
  <2>1. job[r] \in Job /\ UNCHANGED <<today, role, subject, unread, pref, deaths>>
    BY <1>2 DEF Asking, AskEnabled, SkipType, NoRowOfType, Generate
  <2> SUFFICES job' \in [Runs \cup Requests -> Job]
    BY <2>1
  <2>2. CASE AskEnabled(r) \/ NoRowOfType(r)
    <3>1. PICK stage \in {"enabled", "rows", "generate"} : job' = [job EXCEPT ![r].stage = stage]
      BY <2>2 DEF AskEnabled, NoRowOfType
    <3>2. QED
      BY <2>1, <3>1, StageReplaced
  <2>3. CASE SkipType(r) \/ Generate(r)
    <3>1. job[r].next \in 1..6
      BY <2>1, <2>3, JobFields, SomeTypes DEF SkipType, Generate, AtType
    <3>2. PICK cells \in SUBSET Cells : job' = [job EXCEPT ![r] =
                                     [job[r] EXCEPT !.stage = "enabled", !.next = job[r].next + 1,
                                                    !.todo = cells]]
      <4>1. CASE SkipType(r)
        <5>1. job[r].todo \in SUBSET Cells
          BY <2>1, JobFields
        <5>2. [job[r] EXCEPT !.stage = "enabled", !.next = job[r].next + 1, !.todo = job[r].todo]
                = [job[r] EXCEPT !.stage = "enabled", !.next = job[r].next + 1]
          BY <2>1 DEF Job
        <5>3. job' = [job EXCEPT ![r] = [job[r] EXCEPT !.stage = "enabled", !.next = job[r].next + 1]]
          BY <4>1 DEF SkipType
        <5>4. QED
          BY <5>1, <5>2, <5>3
      <4>2. CASE Generate(r)
        <5> DEFINE t == AlertTypes[job[r].next]
        <5>1. Recipients(t) \X {t} \X Flagged(t) \in SUBSET Cells
          BY <3>1, SomeTypes DEF Recipients, Flagged, Cells
        <5>2. job' = [job EXCEPT ![r] = [job[r] EXCEPT !.stage = "enabled", !.next = job[r].next + 1,
                                                       !.todo = Recipients(t) \X {t} \X Flagged(t)]]
          BY <4>2 DEF Generate
        <5>3. QED
          BY <5>1, <5>2
      <4>3. QED
        BY <2>3, <4>1, <4>2
    <3>3. job[r].next + 1 \in 1..(Len(AlertTypes) + 1)
      BY <3>1, SomeTypes
    <3>4. [job[r] EXCEPT !.stage = "enabled", !.next = job[r].next + 1, !.todo = cells] \in Job
      BY <2>1, <3>3, TypePassed
    <3>5. QED
      BY <3>2, <3>4
  <2>4. QED
    BY <1>2, <2>2, <2>3 DEF Asking
<1>3. ASSUME NEW r \in Runs, LookUp(r) PROVE TypeOK'
  <2>1. PICK cell \in job[r].todo :
          job' = [job EXCEPT ![r].todo = @ \ {cell},
                             ![r].missing = IF AlreadyPending(cell) THEN {} ELSE {cell}]
    BY <1>3 DEF LookUp
  <2>2. job[r] \in Job /\ job[r].todo \in SUBSET Cells
    BY JobFields
  <2>3. job[r].todo \ {cell} \in SUBSET Cells
        /\ (IF AlreadyPending(cell) THEN {} ELSE {cell}) \in SUBSET Cells
    BY <2>2
  <2>4. [job[r] EXCEPT !.todo = job[r].todo \ {cell},
                       !.missing = IF AlreadyPending(cell) THEN {} ELSE {cell}] \in Job
    BY <2>2, <2>3, CellTaken
  <2>5. job' \in [Runs \cup Requests -> Job]
    BY <2>1, <2>4
  <2>6. QED
    BY <1>3, <2>5 DEF LookUp
<1>4. ASSUME NEW r \in Runs, Notify(r) PROVE TypeOK'
  <2>1. job[r] \in Job /\ [job[r] EXCEPT !.missing = {}] \in Job
    BY DEF Job
  <2>2. job' \in [Runs \cup Requests -> Job]
    BY <1>4, <2>1 DEF Notify
  <2>3. PICK cell \in job[r].missing : unread' = [unread EXCEPT ![cell] = IF @ < 2 THEN @ + 1 ELSE @]
    BY <1>4 DEF Notify
  <2>4. unread[cell] \in 0..2
    BY <2>1, JobFields
  <2>5. (IF unread[cell] < 2 THEN unread[cell] + 1 ELSE unread[cell]) \in 0..2
    BY <2>4
  <2>6. unread' \in [Cells -> 0..2]
    BY <2>3, <2>5
  <2>7. QED
    BY <1>4, <2>2, <2>6 DEF Notify
<1>5. ASSUME NEW r \in Runs, EndRun(r) PROVE TypeOK'
  BY <1>5, IdleIsAJob DEF EndRun
<1>6. ASSUME NEW r \in Requests, PatchPrefs(r) PROVE TypeOK'
  <2>1. \A keys \in SUBSET Relevant : [Idle EXCEPT !.op = "prefs", !.keys = keys] \in Job
    BY IdleIsAJob DEF Job, Idle, Relevant
  <2>2. job' \in [Runs \cup Requests -> Job]
    <3>1. PICK keys \in SUBSET Relevant :
            job' = [job EXCEPT ![r] = [Idle EXCEPT !.op = "prefs", !.keys = keys]]
      BY <1>6 DEF PatchPrefs
    <3>2. QED
      BY <2>1, <3>1
  <2>3. pref' \in [Types -> Pref]
    BY <1>6, RowsAreTyped DEF PatchPrefs, AllRows
  <2>4. QED
    BY <1>6, <2>2, <2>3 DEF PatchPrefs
<1>7. ASSUME NEW r \in Requests, SavePref(r) PROVE TypeOK'
  <2>1. PICK t \in job[r].keys : \E enabled \in BOOLEAN, window \in Windows(t) :
          /\ pref' = [pref EXCEPT ![t] = [there |-> TRUE, enabled |-> enabled, window |-> window]]
          /\ job' = [job EXCEPT ![r] = IF job[r].keys = {t} THEN Idle
                                       ELSE [job[r] EXCEPT !.keys = job[r].keys \ {t}]]
    BY <1>7 DEF SavePref
  <2>2. job[r] \in Job /\ job[r].keys \in SUBSET Types
    BY JobFields
  <2>3. [job[r] EXCEPT !.keys = job[r].keys \ {t}] \in Job
    BY <2>2, KeysReplaced
  <2>4. job' \in [Runs \cup Requests -> Job]
    BY <2>1, <2>3, IdleIsAJob
  <2>5. \A enabled \in BOOLEAN, window \in Windows(t) :
          [there |-> TRUE, enabled |-> enabled, window |-> window] \in Pref
    BY DEF Windows, Pref, Days, NULL
  <2>6. pref' \in [Types -> Pref]
    <3>1. PICK enabled \in BOOLEAN, window \in Windows(t) :
            pref' = [pref EXCEPT ![t] = [there |-> TRUE, enabled |-> enabled, window |-> window]]
      BY <2>1
    <3>2. QED
      BY <2>5, <3>1
  <2>7. QED
    BY <1>7, <2>4, <2>6 DEF SavePref
<1>8. ASSUME NEW r \in Runs \cup Requests, Die(r) PROVE TypeOK'
  BY <1>8, IdleIsAJob DEF Die
<1>9. ASSUME NEW cell \in Cells, MarkRead(cell) PROVE TypeOK'
  BY <1>9 DEF MarkRead
<1>10. ASSUME NEW u \in Users, MarkAllRead(u) PROVE TypeOK'
  BY <1>10 DEF MarkAllRead
<1>11. ASSUME NEW u \in Users, UserChanges(u) PROVE TypeOK'
  BY <1>11 DEF UserChanges
<1>12. ASSUME NEW s \in Subjects, SubjectChanges(s) PROVE TypeOK'
  <2>1. PICK open \in BOOLEAN, over \in BOOLEAN :
          subject' = [subject EXCEPT ![s].open = open,
                                     ![s].over = over /\ subject[s].kind = "project"]
    BY <1>12 DEF SubjectChanges
  <2>2. \A b \in BOOLEAN : [subject[s] EXCEPT !.open = open, !.over = b] \in Subject
    BY DEF Subject
  <2>3. (over /\ subject[s].kind = "project") \in BOOLEAN
    OBVIOUS
  <2>4. [subject[s] EXCEPT !.open = open, !.over = over /\ subject[s].kind = "project"] \in Subject
    BY <2>2, <2>3
  <2>5. subject' \in [Subjects -> Subject]
    BY <2>1, <2>4
  <2>6. QED
    BY <1>12, <2>5 DEF SubjectChanges
<1>13. CASE ShowPrefs
  BY <1>13, RowsAreTyped DEF ShowPrefs, AllRows
<1>14. CASE NewDay
  BY <1>14 DEF NewDay, Days
<1>15. CASE UNCHANGED vars
  BY <1>15 DEF vars
<1>16. QED
  BY <1>1, <1>2, <1>3, <1>4, <1>5, <1>6, <1>7, <1>8, <1>9, <1>10, <1>11, <1>12, <1>13, <1>14,
     <1>15 DEF Next, Run, Asking

LEMMA InitTyped == Init => TypeOK
  BY AlertsAssumption, IdleIsAJob, RowsAreTyped DEF Init, TypeOK, Days, Roles

(* The types, for any users, subjects and bounds. *)
THEOREM TypeCorrect == Spec => []TypeOK
<1>1. QED
  BY InitTyped, TypesKept, PTL DEF Spec
-----------------------------------------------------------------------------
(* One run at a time. *)

NotSeenTwice == TypeOK /\ LookedUp /\ NoDuplicatePending

LEMMA NotSeenTwiceKept == OneRunAtATime /\ NotSeenTwice /\ [Next]_vars => LookedUp' /\ NoDuplicatePending'
<1> SUFFICES ASSUME OneRunAtATime, NotSeenTwice, [Next]_vars
             PROVE  LookedUp' /\ NoDuplicatePending'
  OBVIOUS
<1> USE AlertsAssumption
<1>0. /\ TypeOK /\ LookedUp /\ NoDuplicatePending
      /\ unread \in [Cells -> 0..2] /\ job \in [Runs \cup Requests -> Job]
  BY DEF NotSeenTwice, TypeOK
(* A step that creates nothing and looks nothing up. *)
<1>a. ASSUME UNCHANGED unread,
             \A r \in Runs : job'[r].missing = job[r].missing \/ job'[r].missing = {}
      PROVE  LookedUp' /\ NoDuplicatePending'
  BY <1>0, <1>a DEF LookedUp, NoDuplicatePending
<1>1. ASSUME NEW r \in Runs, StartRun(r) PROVE LookedUp' /\ NoDuplicatePending'
  BY <1>0, <1>1, <1>a DEF StartRun, Job
<1>2. ASSUME NEW r \in Runs, Asking(r) PROVE LookedUp' /\ NoDuplicatePending'
  <2>1. unread' = unread
    BY <1>2 DEF Asking, AskEnabled, SkipType, NoRowOfType, Generate
  <2>2. \A q \in Runs : job'[q].missing = job[q].missing
    BY <1>0, <1>2, SMTT(30) DEF Asking, AskEnabled, SkipType, NoRowOfType, Generate, Job
  <2>3. QED
    BY <1>a, <2>1, <2>2
<1>3. ASSUME NEW r \in Runs, LookUp(r) PROVE LookedUp' /\ NoDuplicatePending'
  <2>1. PICK cell \in job[r].todo :
          job' = [job EXCEPT ![r].todo = @ \ {cell},
                             ![r].missing = IF AlreadyPending(cell) THEN {} ELSE {cell}]
    BY <1>3 DEF LookUp
  <2>2. cell \in Cells
    BY <1>0, JobFields
  <2>3. job'[r].missing = IF AlreadyPending(cell) THEN {} ELSE {cell}
    BY <1>0, <2>1 DEF Job
  <2>4. \A q \in Runs : q = r
    BY DEF OneRunAtATime
  <2>5. AlreadyPending(cell) \/ unread[cell] = 0
    BY <1>0, <2>2 DEF AlreadyPending
  <2>6. unread' = unread
    BY <1>3 DEF LookUp
  <2>7. QED
    BY <1>0, <2>3, <2>4, <2>5, <2>6 DEF LookedUp, NoDuplicatePending
<1>4. ASSUME NEW r \in Runs, Notify(r) PROVE LookedUp' /\ NoDuplicatePending'
  <2>1. PICK cell \in job[r].missing :
          unread' = [unread EXCEPT ![cell] = IF @ < 2 THEN @ + 1 ELSE @]
    BY <1>4 DEF Notify
  <2>2. cell \in Cells /\ unread[cell] = 0
    BY <1>0, <2>1, JobFields DEF LookedUp
  <2>3. unread'[cell] = 1 /\ \A x \in Cells \ {cell} : unread'[x] = unread[x]
    BY <1>0, <2>1, <2>2
  <2>4. job'[r].missing = {} /\ \A q \in Runs : q = r
    BY <1>0, <1>4 DEF Notify, Job, OneRunAtATime
  <2>5. QED
    BY <1>0, <2>3, <2>4 DEF LookedUp, NoDuplicatePending
<1>5. ASSUME NEW r \in Runs, EndRun(r) PROVE LookedUp' /\ NoDuplicatePending'
  BY <1>0, <1>5, <1>a DEF EndRun, Idle
<1>6. ASSUME NEW r \in Requests, PatchPrefs(r) PROVE LookedUp' /\ NoDuplicatePending'
  BY <1>0, <1>6, <1>a DEF PatchPrefs
<1>7. ASSUME NEW r \in Requests, SavePref(r) PROVE LookedUp' /\ NoDuplicatePending'
  BY <1>0, <1>7, <1>a DEF SavePref
<1>8. ASSUME NEW r \in Runs \cup Requests, Die(r) PROVE LookedUp' /\ NoDuplicatePending'
  BY <1>0, <1>8, <1>a DEF Die, Idle
<1>9. ASSUME NEW cell \in Cells, MarkRead(cell) PROVE LookedUp' /\ NoDuplicatePending'
  <2>1. /\ unread[cell] \in 1..2 /\ unread'[cell] = unread[cell] - 1
        /\ \A x \in Cells \ {cell} : unread'[x] = unread[x]
    BY <1>0, <1>9 DEF MarkRead
  <2>2. \A q \in Runs : cell \notin job[q].missing /\ job[q].missing \in SUBSET Cells
    BY <1>0, <2>1, JobFields DEF LookedUp
  <2>3. job' = job
    BY <1>9 DEF MarkRead
  <2>4. QED
    BY <1>0, <2>1, <2>2, <2>3 DEF LookedUp, NoDuplicatePending
<1>10. ASSUME NEW u \in Users, MarkAllRead(u) PROVE LookedUp' /\ NoDuplicatePending'
  <2>1. \A x \in Cells : unread'[x] = 0 \/ unread'[x] = unread[x]
    BY <1>10 DEF MarkAllRead
  <2>2. \A q \in Runs : job[q].missing \in SUBSET Cells
    BY <1>0, JobFields
  <2>3. job' = job
    BY <1>10 DEF MarkAllRead
  <2>4. QED
    BY <1>0, <2>1, <2>2, <2>3 DEF LookedUp, NoDuplicatePending
<1>11. ASSUME NEW u \in Users, UserChanges(u) PROVE LookedUp' /\ NoDuplicatePending'
  BY <1>0, <1>11, <1>a DEF UserChanges
<1>12. ASSUME NEW s \in Subjects, SubjectChanges(s) PROVE LookedUp' /\ NoDuplicatePending'
  BY <1>0, <1>12, <1>a DEF SubjectChanges
<1>13. CASE ShowPrefs
  BY <1>0, <1>13, <1>a DEF ShowPrefs
<1>14. CASE NewDay
  BY <1>0, <1>14, <1>a DEF NewDay
<1>15. CASE UNCHANGED vars
  BY <1>0, <1>15, <1>a DEF vars
<1>16. QED
  BY <1>1, <1>2, <1>3, <1>4, <1>5, <1>6, <1>7, <1>8, <1>9, <1>10, <1>11, <1>12, <1>13, <1>14,
     <1>15 DEF Next, Run, Asking

(* When the command is never run twice at the same time, nobody has two    *)
(* unread notifications about the same thing.                              *)
THEOREM NeverTwice == OneRunAtATime => (Spec => []NoDuplicatePending)
<1> SUFFICES ASSUME OneRunAtATime PROVE Spec => []NoDuplicatePending
  OBVIOUS
<1>1. Init => NotSeenTwice
  BY InitTyped DEF Init, NotSeenTwice, LookedUp, NoDuplicatePending, Idle
<1>2. NotSeenTwice /\ [Next]_vars => NotSeenTwice'
  BY TypesKept, NotSeenTwiceKept DEF NotSeenTwice
<1>3. NotSeenTwice => NoDuplicatePending
  BY DEF NotSeenTwice
<1>4. QED
  BY <1>1, <1>2, <1>3, PTL DEF Spec
=============================================================================
