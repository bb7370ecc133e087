---------------------------- MODULE ChangeOrders ----------------------------
(***************************************************************************)
(* Change orders and the contract value of their projects.                 *)
(*                                                                         *)
(* A request reads a row and decides on that copy.  Approving and          *)
(* cancelling write the status column and, in the same transaction, let    *)
(* the database add the amount to the contract value or take it off again. *)
(* A PATCH, of a change order or of a project, writes every column of the  *)
(* row it read.                                                            *)
(***************************************************************************)
EXTENDS Integers, FiniteSets, Sums

CONSTANTS
  Requests,  \* the requests that can be in progress at the same time
  Sent,      \* the operations each of them is sent, with the row (to create: <<order, project>>)
  Projects,
  Orders,    \* identifiers of change orders
  Numbers,   \* their numbers, which users choose
  Amounts,   \* what a change order may add or, below zero, take off
  Values,    \* contract values that users enter
  None       \* SQL's NULL

ASSUME ChangeOrdersAssumption ==
  /\ IsFiniteSet(Orders)
  /\ Amounts \subseteq Int /\ Values \subseteq Int
  /\ None \notin Projects \cup Orders

VARIABLES
  value,  \* Project.contract_value
  order,  \* the row of each change order
  base,   \* history: the contract value without any change order, as users entered it
  job     \* what the worker of each request holds

vars == <<value, order, base, job>>
-----------------------------------------------------------------------------
Statuses == {"PENDING", "APPROVED", "REJECTED", "CANCELLED"}
Row == [project : Projects, number : Numbers, amount : Amounts, status : Statuses]
NoRow == [project |-> None, number |-> None, amount |-> 0, status |-> "ABSENT"]

DecideOps == {"approve", "reject", "cancel"}
(* reword leaves the amount and the project as they are; amend need not. *)
PatchOps == {"reword", "amend"}

(* row: a change order as it was read, or as it is about to be written. *)
Idle == [op |-> "idle", phase |-> "idle", order |-> None, row |-> NoRow,
         project |-> None, value |-> 0]
Job == [op : DecideOps \cup PatchOps \cup {"create", "patch", "idle"},
        phase : {"idle", "read", "valid"},
        order : Orders \cup {None}, row : Row \cup {NoRow},
        project : Projects \cup {None}, value : Int]

Starts(r, op, x) == job[r].phase = "idle" /\ <<op, x>> \in Sent[r]
HasRead(r, op) == job[r].phase = "read" /\ job[r].op = op
Finish(r) == job' = [job EXCEPT ![r] = Idle]
Hold(r, j) == job' = [job EXCEPT ![r] = j]
-----------------------------------------------------------------------------
(* Creating and editing: the number is validated, then the row is saved. *)

NumberTakenByOthers(c, p, n) ==
  \E d \in Orders \ {c} : order[d].project = p /\ order[d].number = n
CheckedOnCreateOnly(c, p, n) == order[c] = NoRow /\ NumberTakenByOthers(c, p, n)
NumberTaken(c, p, n) == NumberTakenByOthers(c, p, n)

Created(c) == order[c] # NoRow \/ \E r \in Requests : job[r].op = "create" /\ job[r].order = c

ValidateNew(r, c, p, n, a) ==
  /\ Starts(r, "create", <<c, p>>)
  /\ ~Created(c) /\ ~NumberTaken(c, p, n)
  /\ Hold(r, [Idle EXCEPT !.op = "create", !.phase = "valid", !.order = c,
                !.row = [project |-> p, number |-> n, amount |-> a, status |-> "PENDING"]])
  /\ UNCHANGED <<value, order, base>>

FetchOrder(r, op, c) ==
  /\ Starts(r, op, c) /\ order[c] # NoRow
  /\ Hold(r, [Idle EXCEPT !.op = op, !.phase = "read", !.order = c, !.row = order[c]])
  /\ UNCHANGED <<value, order, base>>

ValidatePatch(r, p, n, a) ==
  LET row == job[r].row
  IN  /\ job[r].phase = "read" /\ job[r].op \in PatchOps
      /\ job[r].op = "reword" => p = row.project /\ a = row.amount
      /\ ~NumberTaken(job[r].order, p, n)
      /\ Hold(r, [job[r] EXCEPT !.phase = "valid",
                    !.row = [project |-> p, number |-> n, amount |-> a, status |-> row.status]])
      /\ UNCHANGED <<value, order, base>>

SaveOrder(r) ==
  /\ job[r].phase = "valid"
  /\ order' = [order EXCEPT ![job[r].order] = job[r].row]
  /\ Finish(r)
  /\ UNCHANGED <<value, base>>
-----------------------------------------------------------------------------
(* Decisions.  The amount and the project are those that were read.        *)

Raised(p, a) == [value EXCEPT ![p] = @ + a]

Decide(r, status) ==
  /\ order' = [order EXCEPT ![job[r].order].status = status]
  /\ Finish(r)
  /\ UNCHANGED base

Approve(r) ==
  LET row == job[r].row
  IN  /\ HasRead(r, "approve") /\ row.status = "PENDING"
      /\ value' = Raised(row.project, row.amount)
      /\ Decide(r, "APPROVED")

Reject(r) ==
  /\ HasRead(r, "reject") /\ job[r].row.status = "PENDING"
  /\ Decide(r, "REJECTED")
  /\ UNCHANGED value

AnyStatus == Statuses
CancellableFrom == {"PENDING", "APPROVED"}
AskedAfterCancelling(r) ==
  /\ HasRead(r, "cancel") /\ job[r].row.status \in CancellableFrom
  /\ Decide(r, "CANCELLED")
  /\ UNCHANGED value
Cancel(r) ==
  LET row == job[r].row
  IN  /\ HasRead(r, "cancel") /\ row.status \in CancellableFrom
      /\ value' = IF row.status = "APPROVED" THEN Raised(row.project, -row.amount) ELSE value
      /\ Decide(r, "CANCELLED")
-----------------------------------------------------------------------------
(* A PATCH of the project, with a new contract value or without one. *)

FetchProject(r, p) ==
  /\ Starts(r, "patch", p)
  /\ Hold(r, [Idle EXCEPT !.op = "patch", !.phase = "read", !.project = p, !.value = value[p]])
  /\ UNCHANGED <<value, order, base>>

Counts(c, p) == order[c].project = p /\ order[c].status = "APPROVED"
Above(a) == IF a > 0 THEN a ELSE 0
Added(c, p) == IF Counts(c, p) THEN Above(order[c].amount) ELSE 0
Deducted(c, p) == IF Counts(c, p) THEN Above(-order[c].amount) ELSE 0
Approved(p) == SumOf([c \in Orders |-> Added(c, p)]) - SumOf([c \in Orders |-> Deducted(c, p)])

PatchProject(r) ==
  /\ HasRead(r, "patch")
  /\ value' = [value EXCEPT ![job[r].project] = job[r].value]
  /\ Finish(r)
  /\ UNCHANGED <<order, base>>

EnterValue(r, v) ==
  LET p == job[r].project
  IN  /\ HasRead(r, "patch")
      /\ value' = [value EXCEPT ![p] = v]
      /\ base' = [base EXCEPT ![p] = v - Approved(p)]
      /\ Finish(r)
      /\ UNCHANGED order

(* A 400, or a worker that dies before it commits. *)
Abandon(r) ==
  /\ job[r].phase # "idle"
  /\ Finish(r)
  /\ UNCHANGED <<value, order, base>>
-----------------------------------------------------------------------------
Init ==
  /\ value \in [Projects -> Values]
  /\ order = [c \in Orders |-> NoRow]
  /\ base = value
  /\ job = [r \in Requests |-> Idle]

Next ==
  \E r \in Requests :
    \/ \E c \in Orders, p \in Projects, n \in Numbers, a \in Amounts : ValidateNew(r, c, p, n, a)
    \/ \E op \in DecideOps \cup PatchOps, c \in Orders : FetchOrder(r, op, c)
    \/ \E p \in Projects, n \in Numbers, a \in Amounts : ValidatePatch(r, p, n, a)
    \/ SaveOrder(r)
    \/ Approve(r) \/ Reject(r) \/ Cancel(r)
    \/ \E p \in Projects : FetchProject(r, p)
    \/ PatchProject(r)
    \/ \E v \in Values : EnterValue(r, v)
    \/ Abandon(r)

Spec == Init /\ [][Next]_vars
-----------------------------------------------------------------------------
(* One desk per change order: nobody changes an amount or a project after  *)
(* the fact, only one request handles an order, and a project is edited    *)
(* only by the one that handles all of its orders.                         *)
HandleOps == DecideOps \cup PatchOps
Handles(r, c) == \E op \in HandleOps : <<op, c>> \in Sent[r]
SeparateDesks ==
  /\ \A r \in Requests, c \in Orders : <<"amend", c>> \notin Sent[r]
  /\ \A r, q \in Requests, c \in Orders : Handles(r, c) /\ Handles(q, c) => r = q
  /\ \A r, q \in Requests, p \in Projects :
       <<"patch", p>> \in Sent[r] /\ <<"patch", p>> \in Sent[q] => r = q
  /\ \A r, q, s \in Requests, c \in Orders, p \in Projects :
       <<"patch", p>> \in Sent[r] /\ Handles(q, c) /\ <<"create", <<c, p>>>> \in Sent[s] => r = q

(* One request at a time creates or edits change orders; any number of     *)
(* others decide on them, and may be sent the same ones.                   *)
GivesNumbers(r) ==
  \/ \E op \in PatchOps, c \in Orders : <<op, c>> \in Sent[r]
  \/ \E c \in Orders, p \in Projects : <<"create", <<c, p>>>> \in Sent[r]
OneEditor == \A r, q \in Requests : GivesNumbers(r) /\ GivesNumbers(q) => r = q
-----------------------------------------------------------------------------
(* Contract values stay whole numbers of some unit, and every change order *)
(* has a project, a number and a status.  (projects/models.py.)            *)
TypeOK ==
  /\ value \in [Projects -> Int]
  /\ order \in [Orders -> Row \cup {NoRow}]
  /\ base \in [Projects -> Int]
  /\ job \in [Requests -> Job]

(* A contract is worth what users entered and the change orders that are   *)
(* approved now: decisions on several orders of one project at once lose   *)
(* none, and a cancellation takes off what the approval added.             *)
(* (apply_change_order_to_contract, reverse_change_order_from_contract.)   *)
ContractAgrees == \A p \in Projects : value[p] = base[p] + Approved(p)

(* No two change orders of a project have the same number.                 *)
(* (ChangeOrderSerializer.validate; the table has no such constraint.)     *)
NumbersUnique ==
  \A c, d \in Orders :
    c # d /\ order[c] # NoRow /\ order[c].project = order[d].project
    => order[c].number # order[d].number

(* A status only moves along the transitions the model lists; no edit      *)
(* brings one back.  (ChangeOrder.ALLOWED_TRANSITIONS, ChangeOrderViewSet: *)
(* PATCH never changes status.)                                            *)
AllowedTransitions ==
  {<<"ABSENT", "PENDING">>, <<"PENDING", "APPROVED">>, <<"PENDING", "REJECTED">>,
   <<"PENDING", "CANCELLED">>, <<"APPROVED", "CANCELLED">>}
DecisionsStick ==
  [][\A c \in Orders : order'[c].status # order[c].status =>
       <<order[c].status, order'[c].status>> \in AllowedTransitions]_vars
=============================================================================
