------------------------------ MODULE Planning ------------------------------
(***************************************************************************)
(* Budgets with their items, the phases of a project and their order, and  *)
(* the status and the archive flag of projects.                            *)
(*                                                                         *)
(* A request reads a row, validates on the copy (task[r].row), and saves   *)
(* every column of the copy later.  A reorder saves one column of several  *)
(* rows in one transaction and keeps each row locked until it commits.     *)
(***************************************************************************)
EXTENDS Integers, FiniteSets, Sequences, Sums

CONSTANTS
  Requests,   \* the requests that can be in progress at the same time
  Projects, Phases, Budgets, Items,   \* identifiers of rows
  None,       \* SQL's NULL
  MinValue,   \* bound on the totals of budgets below: a new one may be negative
  MaxValue,   \* bound on the totals of budgets and the amounts of items
  Places,     \* the sequence numbers clients ask for
  MaxList,    \* bound on the length of the list of a reorder
  Workloads,  \* the sets of operations clients request, one per behaviour
  Meetings    \* the sets {op1, op2} that may be in progress side by side

Plans == Projects \cup Phases \cup Budgets
AllOps == {"new project", "new phase", "new budget", "patch", "retotal", "archive", "reorder",
           "item", "edit item", "drop item", "drop budget", "drop phase"}

ASSUME PlanningAssumption ==
  /\ IsFiniteSet(Items) /\ IsFiniteSet(Phases)
  /\ Projects \cap Phases = {} /\ Projects \cap Budgets = {} /\ Phases \cap Budgets = {}
  /\ None \notin Requests \cup Plans \cup Items \cup Places
  /\ MinValue \in Int /\ MinValue <= 0 /\ MaxValue \in Nat \ {0}
  /\ Places \subseteq Int /\ MaxList \in Nat \ {0}
  /\ \A ops \in Workloads : ops \subseteq AllOps
  /\ \A pair \in Meetings : pair \subseteq AllOps

VARIABLES
  plan,       \* rows of projects, phases and budgets
  item,       \* rows of budget items
  task,       \* what the worker of each request holds
  workload    \* the operations requested in this behaviour

planningVars == <<plan, item, task, workload>>
-----------------------------------------------------------------------------
ProjectStatuses == {"PLANNING", "ACTIVE", "ON_HOLD", "COMPLETED", "CANCELLED"}
PhaseStatuses == {"NOT_STARTED", "IN_PROGRESS", "ON_HOLD", "COMPLETED"}
BudgetStatuses == {"DRAFT", "APPROVED", "REVISED", "CLOSED"}
Missing == {"ABSENT", "DELETED"}

StatusesOf(d) ==
  IF d \in Projects THEN ProjectStatuses
  ELSE IF d \in Phases THEN PhaseStatuses ELSE BudgetStatuses

ProjectTransitions ==
  {<<"PLANNING", "ACTIVE">>, <<"PLANNING", "CANCELLED">>, <<"ACTIVE", "ON_HOLD">>,
   <<"ACTIVE", "COMPLETED">>, <<"ACTIVE", "CANCELLED">>, <<"ON_HOLD", "ACTIVE">>,
   <<"ON_HOLD", "CANCELLED">>}
PhaseTransitions ==
  {<<"NOT_STARTED", "IN_PROGRESS">>, <<"IN_PROGRESS", "ON_HOLD">>,
   <<"IN_PROGRESS", "COMPLETED">>, <<"ON_HOLD", "IN_PROGRESS">>}
BudgetTransitions ==
  {<<"DRAFT", "APPROVED">>, <<"APPROVED", "REVISED">>, <<"APPROVED", "CLOSED">>,
   <<"REVISED", "APPROVED">>, <<"REVISED", "CLOSED">>}

AllowedTransitions(d) ==
  IF d \in Projects THEN ProjectTransitions
  ELSE IF d \in Phases THEN PhaseTransitions ELSE BudgetTransitions

(* value: the total of a budget, the sequence number of a phase, or 1 when *)
(* a project is archived.                                                  *)
Plan == [status : ProjectStatuses \cup PhaseStatuses \cup BudgetStatuses \cup Missing,
        value : Int]
NoPlan(why) == [status |-> why, value |-> 0]
Exists(d) == plan[d].status \notin Missing

NoItem == [budget |-> None, amount |-> 0]
Item == [budget : Budgets, amount : 0..MaxValue] \cup {NoItem}

(* list: the places the client asks for; wrote: those that the transaction *)
(* of a reorder has written and nobody else sees.                          *)
Wish == [phase : Phases, place : Places]
NoTask == [op |-> "idle", stage |-> "idle", id |-> None, row |-> NoPlan("ABSENT"),
           line |-> NoItem, list |-> <<>>, done |-> 0, wrote |-> [p \in Phases |-> None]]
Task == [op : AllOps \cup {"idle"}, stage : {"idle", "read", "valid"},
         id : Plans \cup Items \cup {None}, row : Plan, line : Item,
         list : Seq(Wish), done : Nat, wrote : [Phases -> Places \cup {None}]]

Allocated(b, but) ==
  SumOf([i \in {x \in Items \ but : item[x].budget = b} |-> item[i].amount])
Unallocated(b) == plan[b].value - Allocated(b, {})

(* Which requests meet is the environment's choice. *)
MayMeet(op) ==
  /\ op \in workload
  /\ \A s \in Requests : task[s] = NoTask \/ {op, task[s].op} \in Meetings

Has(r, op, stage) == task[r].op = op /\ task[r].stage = stage
Start(r, op, fields) ==
  /\ task[r] = NoTask /\ MayMeet(op)
  /\ task' = [task EXCEPT ![r] = fields]
Finish(r) == task' = [task EXCEPT ![r] = NoTask]

(* The rows a transaction wrote stay locked until it ends. *)
Locked(r) == {p \in Phases : task[r].wrote[p] # None}
FreeFor(r, d) == \A s \in Requests \ {r} : d \notin Locked(s)
Free(d) == \A s \in Requests : d \notin Locked(s)
-----------------------------------------------------------------------------
(* A new row has any status its kind knows; nothing looks at the place of  *)
(* a phase or the total of a budget when it is created.                    *)
NewValues(d) ==
  IF d \in Projects THEN {0} ELSE IF d \in Phases THEN Places ELSE MinValue..MaxValue
NewOp(d) ==
  IF d \in Projects THEN "new project" ELSE IF d \in Phases THEN "new phase" ELSE "new budget"
Create(d) ==
  /\ MayMeet(NewOp(d))
  /\ plan[d].status = "ABSENT"
  /\ \E s \in StatusesOf(d), v \in NewValues(d) :
       plan' = [plan EXCEPT ![d] = [status |-> s, value |-> v]]
  /\ UNCHANGED <<item, task, workload>>

Read(r, d, op) ==
  /\ op = "retotal" => d \in Budgets
  /\ op = "archive" => d \in Projects
  /\ op \in {"patch", "retotal", "archive"} /\ Exists(d)
  /\ Start(r, op, [NoTask EXCEPT !.op = op, !.stage = "read", !.id = d, !.row = plan[d]])
  /\ UNCHANGED <<plan, item, workload>>

AnyTransition(d, from) == StatusesOf(d)
NextStatuses(d, from) == {from} \cup {s \in StatusesOf(d) : <<from, s>> \in AllowedTransitions(d)}

(* A PATCH of a phase may name any place for it. *)
Wishes(d) ==
  {<<>>} \cup {<<wish>> : wish \in {w \in Wish : w.phase = d}}

Validate(r) ==
  LET d == task[r].id
      row == task[r].row
  IN  /\ task[r].op \in {"patch", "retotal"} /\ task[r].stage = "read"
      /\ \E s \in NextStatuses(d, row.status), asked \in Wishes(d) :
           task' = [task EXCEPT
             ![r].stage = "valid", ![r].list = asked,
             ![r].row = [status |-> s,
                         value |-> IF asked = <<>> THEN row.value ELSE asked[1].place]]
      /\ UNCHANGED <<plan, item, workload>>

(* PhaseViewSet.complete is the same request with one status. *)
SavePlan(r) ==
  LET d == task[r].id IN
  /\ Has(r, "patch", "valid")
  /\ Free(d)
  /\ plan' = [plan EXCEPT ![d] = task[r].row]
  /\ Finish(r)
  /\ UNCHANGED <<item, workload>>

(* A total may not go below what the items have been allocated. *)
Covers(b, v) == v >= Allocated(b, {})
ChangeTotal(r) ==
  LET b == task[r].id IN
  /\ Has(r, "retotal", "valid")
  /\ \E v \in MinValue..MaxValue :
       /\ Covers(b, v)
       /\ plan' = [plan EXCEPT ![b] = [task[r].row EXCEPT !.value = v]]
  /\ Finish(r)
  /\ UNCHANGED <<item, workload>>

(* update_fields: the archive flag alone is written. *)
FlagOnly(now, copy) == [now EXCEPT !.value = 1 - copy.value]
Archive(r) ==
  LET d == task[r].id IN
  /\ Has(r, "archive", "read")
  /\ plan' = [plan EXCEPT ![d] = FlagOnly(plan[d], task[r].row)]
  /\ Finish(r)
  /\ UNCHANGED <<item, workload>>

(* Items go with their budget. *)
DropBudget(b) ==
  /\ MayMeet("drop budget")
  /\ Exists(b)
  /\ plan' = [plan EXCEPT ![b] = NoPlan("DELETED")]
  /\ item' = [i \in Items |-> IF item[i].budget = b THEN NoItem ELSE item[i]]
  /\ UNCHANGED <<task, workload>>

DropPhase(p) ==
  /\ MayMeet("drop phase")
  /\ Exists(p) /\ Free(p)
  /\ plan' = [plan EXCEPT ![p] = NoPlan("DELETED")]
  /\ UNCHANGED <<item, task, workload>>
-----------------------------------------------------------------------------
(* Budget items.  Validation sums the other items of the budget.           *)

FitsAlone(b, i, a) == Allocated(b, Items \ {i}) + a <= plan[b].value
Fits(b, i, a) == Allocated(b, {i}) + a <= plan[b].value

CheckItem(r, i, b) ==
  /\ item[i] = NoItem
  /\ Exists(b) /\ plan[b].status \in {"DRAFT", "REVISED"}
  /\ \E a \in 0..MaxValue :
       /\ Fits(b, i, a)
       /\ Start(r, "item", [NoTask EXCEPT !.op = "item", !.stage = "valid", !.id = i,
                                        !.line = [budget |-> b, amount |-> a]])
  /\ UNCHANGED <<plan, item, workload>>

(* An item may change its amount and its budget; the status of the budget  *)
(* is asked of new items only.                                             *)
CheckEdit(r, i, b) ==
  /\ item[i] # NoItem /\ Exists(b)
  /\ \E a \in 0..MaxValue :
       /\ Fits(b, i, a)
       /\ Start(r, "edit item", [NoTask EXCEPT !.op = "edit item", !.stage = "valid", !.id = i,
                                             !.line = [budget |-> b, amount |-> a]])
  /\ UNCHANGED <<plan, item, workload>>

SaveItem(r) ==
  /\ task[r].op \in {"item", "edit item"}
  /\ Exists(task[r].line.budget)
  /\ item' = [item EXCEPT ![task[r].id] = task[r].line]
  /\ Finish(r)
  /\ UNCHANGED <<plan, workload>>

DropItem(i) ==
  /\ MayMeet("drop item")
  /\ item' = [item EXCEPT ![i] = NoItem]
  /\ UNCHANGED <<plan, task, workload>>
-----------------------------------------------------------------------------
(* Reordering: the list may name any phases, some of them twice, and any   *)
(* places.  Each entry is written in turn, in one transaction.             *)

BeginReorder(r) ==
  /\ \E n \in 1..MaxList : \E list \in [1..n -> Wish] :
       /\ \A k \in 1..n : Exists(list[k].phase)
       /\ Start(r, "reorder", [NoTask EXCEPT !.op = "reorder", !.stage = "read", !.list = list])
  /\ UNCHANGED <<plan, item, workload>>

NextWish(r) == task[r].list[task[r].done + 1]

LockPhase(r) ==
  /\ Has(r, "reorder", "read")
  /\ task[r].done < Len(task[r].list)
  /\ FreeFor(r, NextWish(r).phase) /\ Exists(NextWish(r).phase)
  /\ task' = [task EXCEPT ![r].done = @ + 1, ![r].wrote[NextWish(r).phase] = NextWish(r).place]
  /\ UNCHANGED <<plan, item, workload>>

Written(r) ==
  [d \in Plans |-> IF d \in Locked(r) THEN [plan[d] EXCEPT !.value = task[r].wrote[d]]
                                      ELSE plan[d]]
CommitOrder(r) ==
  /\ Has(r, "reorder", "read")
  /\ task[r].done = Len(task[r].list)
  /\ plan' = Written(r)
  /\ Finish(r)
  /\ UNCHANGED <<item, workload>>

(* A transaction that fails leaves nothing. *)
KeepsWhatItWrote(r) == Written(r)
Undone(r) == plan

(* A phase that was listed is gone: save(update_fields) finds no row.      *)
MissPhase(r) ==
  /\ Has(r, "reorder", "read")
  /\ task[r].done < Len(task[r].list)
  /\ ~Exists(NextWish(r).phase)
  /\ plan' = Undone(r)
  /\ Finish(r)
  /\ UNCHANGED <<item, workload>>

(* PostgreSQL finds requests that wait for each other and makes one fail.  *)
WaitsFor(r, s) ==
  /\ r # s /\ task[r].done < Len(task[r].list)
  /\ NextWish(r).phase \in Locked(s)
NobodyNotices(r) == FALSE
Deadlocked(r) ==
  \E ring \in SUBSET Requests :
    /\ r \in ring
    /\ \A s \in ring : (\E t \in ring : WaitsFor(s, t)) /\ (\E t \in ring : WaitsFor(t, s))
BreakDeadlock(r) ==
  /\ Deadlocked(r)
  /\ plan' = Undone(r)
  /\ Finish(r)
  /\ UNCHANGED <<item, workload>>

(* A request ends without effect: refused, rolled back, or its worker dies. *)
Abandon(r) ==
  /\ task[r] # NoTask
  /\ plan' = Undone(r)
  /\ Finish(r)
  /\ UNCHANGED <<item, workload>>
-----------------------------------------------------------------------------
PlanningInit ==
  /\ plan = [d \in Plans |-> NoPlan("ABSENT")]
  /\ item = [i \in Items |-> NoItem]
  /\ task = [r \in Requests |-> NoTask]
  /\ workload \in Workloads

Request(r) ==
  \/ \E d \in Plans, op \in workload : Read(r, d, op)
  \/ \E i \in Items, b \in Budgets : CheckItem(r, i, b) \/ CheckEdit(r, i, b)
  \/ BeginReorder(r)

Reordering(r) == LockPhase(r) \/ MissPhase(r) \/ CommitOrder(r) \/ BreakDeadlock(r)
GoOn(r) ==
  \/ Validate(r) \/ SavePlan(r) \/ ChangeTotal(r) \/ Archive(r) \/ SaveItem(r)
  \/ Reordering(r)

PlanningNext ==
  \/ \E r \in Requests : Request(r) \/ GoOn(r) \/ Abandon(r)
  \/ \E d \in Plans : Create(d)
  \/ \E b \in Budgets : DropBudget(b)
  \/ \E p \in Phases : DropPhase(p)
  \/ \E i \in Items : DropItem(i)

(* A transaction that puts phases in order goes on, the database looks for *)
(* deadlocks every second, and those who wait for a row lock get it in     *)
(* turn.                                                                   *)
PlanningFairness ==
  \A r \in Requests : WF_planningVars(Reordering(r)) /\ SF_planningVars(LockPhase(r))
PlanningSpec == PlanningInit /\ [][PlanningNext]_planningVars /\ PlanningFairness
-----------------------------------------------------------------------------
(* What the properties below need of the environment.                      *)

(* Statuses follow their tables when the requests that write a status they *)
(* have read take turns.                                                   *)
StatusOps == {"patch", "retotal"}
SaversTakeTurns == \A a, b \in StatusOps : {a, b} \notin Meetings

(* Phases stay where clients put them when no full-row save of a phase     *)
(* meets what may move the phase meanwhile: it would put back the place it *)
(* has read.                                                               *)
PlacesTakeTurns == {"patch"} \notin Meetings /\ {"patch", "reorder"} \notin Meetings

(* The items of a budget fit its total when no validation of an item is    *)
(* overtaken by another one or by a change of the total, and no full-row   *)
(* save of the budget by a change of the total.                            *)
ItemOps == {"item", "edit item"}
BudgetsTakeTurns ==
  /\ \A a \in ItemOps, o \in ItemOps \cup {"retotal"} : {a, o} \notin Meetings
  /\ {"patch", "retotal"} \notin Meetings
-----------------------------------------------------------------------------
(* Every variable holds a value of its kind, and a row a status of its own *)
(* table.                                                                  *)
PlanningTypeOK ==
  /\ plan \in [Plans -> Plan]
  /\ \A d \in Plans : plan[d].status \in StatusesOf(d) \cup Missing
  /\ item \in [Items -> Item]
  /\ task \in [Requests -> Task]
  /\ workload \in Workloads

(* The items of a budget never add up to more than its total, so the       *)
(* unallocated amount of the summary of a budget with items is not         *)
(* negative (projects/serializers.py, BudgetItemSerializer.validate).  An  *)
(* empty one may have been created with a negative total.                  *)
Used(b) == \E i \in Items : item[i].budget = b
WithinTotal == \A b \in Budgets : Exists(b) /\ Used(b) => Unallocated(b) >= 0

(* Statuses move along the tables of the models, and what is final stays.  *)
StatusesFollowTables ==
  [][\A d \in Plans :
       Exists(d) /\ Exists(d)' /\ plan'[d].status # plan[d].status =>
         <<plan[d].status, plan'[d].status>> \in AllowedTransitions(d)]_planningVars

(* A phase moves only where a client asked for, and what one client asked  *)
(* for happens whole or not at all: no deadlock, vanished phase or stale   *)
(* save leaves part of a list behind (PhaseViewSet.reorder).               *)
Wanted(r) == {task[r].list[n] : n \in DOMAIN task[r].list}
PlacesAsAsked ==
  [][\A p \in Phases :
       Exists(p) /\ Exists(p)' /\ plan'[p].value # plan[p].value =>
         \E r \in Requests :
           /\ [phase |-> p, place |-> plan'[p].value] \in Wanted(r)
           /\ \A wish \in Wanted(r) :
                [phase |-> wish.phase, place |-> plan'[wish.phase].value] \in Wanted(r)
    ]_planningVars

(* Every reorder ends, even when two list the phases in opposite orders.   *)
ReordersEnd == \A r \in Requests : task[r].op = "reorder" ~> task[r] = NoTask
=============================================================================
