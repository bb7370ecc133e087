---------------------------- MODULE ProjectsProofs ----------------------------
(***************************************************************************)
(* Proofs about Planning and about Documents, for any number of rows and   *)
(* requests; the two components share no variable.                         *)
(*                                                                         *)
(* Planning: the types, that statuses follow their tables, that phases     *)
(* move as clients ask, and that the items of a budget fit its total.      *)
(* Each of the last three says what may not be in progress side by side    *)
(* (SaversTakeTurns, PlacesTakeTurns, BudgetsTakeTurns) and rests on what  *)
(* a request still knows of the rows it has read: a copy one legal move    *)
(* ahead of its row (StatusInv), the place of a phase and those a reorder  *)
(* has written (PlaceInv), the one total a budget may have (TotalInv).     *)
(*                                                                         *)
(* Documents: the types, that a file in the bucket stays until somebody    *)
(* asks to delete its document, and that nothing is orphaned unless        *)
(* something fails.  The second rests on a key naming its document (Keys)  *)
(* and on a removal holding a document somebody asked to delete (Holds).   *)
(* The third rests on every stored file having an owner that no removal    *)
(* has reached yet (Owned): on disk a name can be taken again while an     *)
(* older removal of it is still under way.                                 *)
(***************************************************************************)
EXTENDS Planning, Documents, SumsProofs, TLAPS

RowOps == {"patch", "retotal", "archive"}

(* What a request holds fits its operation; the flag of a project is 0 or 1. *)
TaskFits(j) ==
  /\ j.op \in RowOps => j.id \in Plans /\ j.row.status \in StatusesOf(j.id)
                        /\ (j.id \in Projects => j.row.value \in 0..1)
  /\ j.op = "retotal" => j.id \in Budgets
  /\ j.op = "archive" => j.id \in Projects
  /\ j.op \in ItemOps => j.id \in Items /\ j.line.budget \in Budgets /\ j.line.amount \in 0..MaxValue

PlanShape ==
  /\ PlanningTypeOK
  /\ \A r \in Requests : TaskFits(task[r])
  /\ \A d \in Projects : plan[d].value \in 0..1
-----------------------------------------------------------------------------
LEMMA StatusKinds ==
  ASSUME NEW d
  PROVE  /\ StatusesOf(d) \subseteq ProjectStatuses \cup PhaseStatuses \cup BudgetStatuses
         /\ StatusesOf(d) \cap Missing = {}
  BY DEF StatusesOf, Missing, ProjectStatuses, PhaseStatuses, BudgetStatuses

LEMMA PlanRows ==
  /\ \A d, s, v : s \in StatusesOf(d) /\ v \in Int => [status |-> s, value |-> v] \in Plan
  /\ NoPlan("ABSENT") \in Plan /\ NoPlan("DELETED") \in Plan
  BY StatusKinds DEF Plan, NoPlan, Missing

LEMMA NoTaskFits ==
  /\ NoTask \in Task /\ TaskFits(NoTask)
  /\ NoTask.op = "idle" /\ NoTask.stage = "idle" /\ NoTask.done = 0
  /\ \A p \in Phases : NoTask.wrote[p] = None
<1>1. NoItem \in Item /\ NoPlan("ABSENT") \in Plan /\ <<>> \in Seq(Wish)
  BY PlanRows DEF Item
<1>2. NoTask \in Task /\ NoTask.op = "idle" /\ NoTask.stage = "idle" /\ NoTask.done = 0
  BY <1>1 DEF NoTask, Task
<1>3. TaskFits(NoTask)
  BY <1>2 DEF TaskFits, RowOps, ItemOps
<1>4. QED
  BY <1>2, <1>3 DEF NoTask

LEMMA TaskFields ==
  ASSUME NEW j \in Task
  PROVE  /\ j.op \in AllOps \cup {"idle"} /\ j.stage \in {"idle", "read", "valid"}
         /\ j.row \in Plan /\ j.line \in Item /\ j.list \in Seq(Wish) /\ j.done \in Nat
         /\ j.wrote \in [Phases -> Places \cup {None}]
  BY DEF Task

LEMMA Started ==
  ASSUME NEW r \in Requests, NEW op, NEW fields, task \in [Requests -> Task], fields \in Task,
         Start(r, op, fields)
  PROVE  /\ task[r] = NoTask /\ task' \in [Requests -> Task] /\ task'[r] = fields
         /\ \A s \in Requests \ {r} : task'[s] = task[s]
         /\ op \in workload
         /\ \A s \in Requests : task[s] = NoTask \/ {op, task[s].op} \in Meetings
  BY DEF Start, MayMeet

LEMMA Finished ==
  ASSUME NEW r \in Requests, task \in [Requests -> Task], Finish(r)
  PROVE  /\ task' \in [Requests -> Task] /\ task'[r] = NoTask
         /\ \A s \in Requests \ {r} : task'[s] = task[s]
  BY NoTaskFits DEF Finish

(* What remains to be shown of a step of one request.                      *)
LEMMA PlanShapeOf ==
  ASSUME PlanShape, NEW r \in Requests, task' \in [Requests -> Task], TaskFits(task'[r]),
         \A s \in Requests \ {r} : task'[s] = task[s],
         plan' \in [Plans -> Plan], \A d \in Plans : plan'[d].status \in StatusesOf(d) \cup Missing,
         \A d \in Projects : plan'[d].value \in 0..1,
         item' \in [Items -> Item], workload' = workload
  PROVE  PlanShape'
<1>1. PlanningTypeOK'
  BY DEF PlanShape, PlanningTypeOK, StatusesOf, Missing
<1>2. \A s \in Requests : TaskFits(task'[s])
  BY DEF PlanShape
<1>3. QED
  BY <1>1, <1>2 DEF PlanShape, TaskFits, RowOps, ItemOps, StatusesOf
-----------------------------------------------------------------------------
(* Beginning. *)

LEMMA PlansTyped ==
  ASSUME PlanShape
  PROVE  /\ task \in [Requests -> Task] /\ plan \in [Plans -> Plan] /\ item \in [Items -> Item]
         /\ \A d \in Plans : plan[d].status \in StatusesOf(d) \cup Missing
         /\ \A d \in Plans : Exists(d) => plan[d].status \in StatusesOf(d)
         /\ \A d \in Plans : plan[d].value \in Int
         /\ \A d \in Projects : plan[d].value \in 0..1
         /\ \A r \in Requests : task[r] \in Task /\ TaskFits(task[r])
  BY DEF PlanShape, PlanningTypeOK, Exists, Plan

LEMMA ReadKeepsShape ==
  ASSUME PlanShape, NEW r \in Requests, NEW d \in Plans, NEW op, Read(r, d, op)
  PROVE  /\ PlanShape' /\ op \in RowOps /\ (op = "retotal" => d \in Budgets) /\ Exists(d)
         /\ task'[r].op = op /\ task'[r].stage = "read" /\ task'[r].id = d /\ task'[r].row = plan[d]
         /\ \A s \in Requests \ {r} : task'[s] = task[s]
         /\ \A s \in Requests : task[s] = NoTask \/ {op, task[s].op} \in Meetings
         /\ UNCHANGED <<plan, item>>
<1> DEFINE fields == [NoTask EXCEPT !.op = op, !.stage = "read", !.id = d, !.row = plan[d]]
<1>1. /\ op \in RowOps /\ Exists(d) /\ (op = "retotal" => d \in Budgets) /\ (op = "archive" => d \in Projects)
      /\ Start(r, op, fields) /\ UNCHANGED <<plan, item, workload>>
  BY DEF Read, RowOps
<1>2. fields \in Task
  BY <1>1, PlansTyped, NoTaskFits DEF Task, RowOps, AllOps
<1>3. /\ fields.op = op /\ fields.id = d /\ fields.row = plan[d]
      /\ fields.stage = "read"
  BY NoTaskFits DEF NoTask
<1> HIDE DEF fields
<1>4. TaskFits(fields)
  BY <1>1, <1>3, PlansTyped DEF TaskFits, RowOps, ItemOps
<1>5. /\ task'[r] = fields /\ task' \in [Requests -> Task] /\ \A s \in Requests \ {r} : task'[s] = task[s]
      /\ \A s \in Requests : task[s] = NoTask \/ {op, task[s].op} \in Meetings
  BY <1>1, <1>2, PlansTyped, Started
<1>6. PlanShape'
  BY <1>1, <1>4, <1>5, PlansTyped, PlanShapeOf
<1>7. QED
  BY <1>1, <1>3, <1>5, <1>6

LEMMA CheckedLine ==
  ASSUME NEW b \in Budgets, NEW a \in 0..MaxValue
  PROVE  [budget |-> b, amount |-> a] \in Item
  BY DEF Item

LEMMA CheckKeepsShape ==
  ASSUME PlanShape, NEW r \in Requests, NEW i \in Items, NEW b \in Budgets,
         CheckItem(r, i, b) \/ CheckEdit(r, i, b)
  PROVE  /\ PlanShape' /\ Exists(b) /\ task'[r].op \in ItemOps
         /\ task'[r].id = i /\ task'[r].line.budget = b /\ task'[r].line.amount \in 0..MaxValue
         /\ Fits(b, i, task'[r].line.amount)
         /\ \A s \in Requests \ {r} : task'[s] = task[s]
         /\ \A s \in Requests : task[s] = NoTask \/ {task'[r].op, task[s].op} \in Meetings
         /\ UNCHANGED <<plan, item>>
<1>1. PICK op \in ItemOps, a \in 0..MaxValue : Fits(b, i, a) /\
        Start(r, op, [NoTask EXCEPT !.op = op, !.stage = "valid", !.id = i,
                                    !.line = [budget |-> b, amount |-> a]])
  BY DEF CheckItem, CheckEdit, ItemOps
<1>2. Exists(b) /\ UNCHANGED <<plan, item, workload>>
  BY DEF CheckItem, CheckEdit
<1> DEFINE fields == [NoTask EXCEPT !.op = op, !.stage = "valid", !.id = i,
                                    !.line = [budget |-> b, amount |-> a]]
<1>3. fields \in Task
  BY CheckedLine, NoTaskFits DEF Task, ItemOps, AllOps
<1>4. /\ fields.op = op /\ fields.id = i /\ fields.line = [budget |-> b, amount |-> a]
      /\ fields.line.budget = b /\ fields.line.amount = a
  BY NoTaskFits DEF NoTask
<1> HIDE DEF fields
<1>5. TaskFits(fields)
  <2>1. fields.op \notin RowOps /\ fields.op # "retotal" /\ fields.op # "archive"
    BY <1>4 DEF RowOps, ItemOps
  <2>2. QED
    BY <1>4, <2>1 DEF TaskFits
<1>6. /\ task'[r] = fields /\ task' \in [Requests -> Task] /\ \A s \in Requests \ {r} : task'[s] = task[s]
      /\ \A s \in Requests : task[s] = NoTask \/ {op, task[s].op} \in Meetings
  <2>1. Start(r, op, fields)
    BY <1>1 DEF fields
  <2>2. QED
    BY <1>3, <2>1, PlansTyped, Started
<1>7. PlanShape'
  BY <1>2, <1>5, <1>6, PlansTyped, PlanShapeOf
<1>8. QED
  BY <1>1, <1>2, <1>4, <1>6, <1>7

(* What a request asks for, and what a reorder has written of it.          *)
Asks(j) == {j.list[n] : n \in DOMAIN j.list}
WroteAsked(j) ==
  /\ \A p \in Phases : j.wrote[p] # None => [phase |-> p, place |-> j.wrote[p]] \in Asks(j)
  /\ \A n \in 1..j.done : j.wrote[j.list[n].phase] # None

LEMMA ReorderKeepsShape ==
  ASSUME PlanShape, NEW r \in Requests, BeginReorder(r)
  PROVE  /\ PlanShape'
         /\ task'[r].op = "reorder" /\ task'[r].stage = "read" /\ WroteAsked(task'[r])
         /\ \A s \in Requests \ {r} : task'[s] = task[s]
         /\ \A s \in Requests : task[s] = NoTask \/ {"reorder", task[s].op} \in Meetings
         /\ UNCHANGED <<plan, item>>
<1>0. PICK m \in 1..MaxList : \E entries \in [1..m -> Wish] :
        Start(r, "reorder", [NoTask EXCEPT !.op = "reorder", !.stage = "read", !.list = entries])
  BY DEF BeginReorder
<1>1. PICK list \in [1..m -> Wish] :
        Start(r, "reorder", [NoTask EXCEPT !.op = "reorder", !.stage = "read", !.list = list])
  BY <1>0
<1>2. UNCHANGED <<plan, item, workload>>
  BY DEF BeginReorder
<1>3. list \in Seq(Wish)
  BY PlanningAssumption
<1> DEFINE fields == [NoTask EXCEPT !.op = "reorder", !.stage = "read", !.list = list]
<1>4. fields \in Task
  BY <1>3, NoTaskFits DEF Task, AllOps
<1>5. /\ fields.op = "reorder" /\ fields.stage = "read" /\ fields.done = 0
      /\ \A p \in Phases : fields.wrote[p] = None
  BY NoTaskFits DEF NoTask
<1>6. Start(r, "reorder", fields)
  BY <1>1
<1> HIDE DEF fields
<1>7. TaskFits(fields) /\ WroteAsked(fields)
  BY <1>5 DEF TaskFits, RowOps, ItemOps, WroteAsked
<1>8. /\ task'[r] = fields /\ task' \in [Requests -> Task] /\ \A s \in Requests \ {r} : task'[s] = task[s]
      /\ \A s \in Requests : task[s] = NoTask \/ {"reorder", task[s].op} \in Meetings
  BY <1>4, <1>6, PlansTyped, Started
<1>9. PlanShape'
  BY <1>2, <1>7, <1>8, PlansTyped, PlanShapeOf
<1>10. QED
  BY <1>2, <1>5, <1>7, <1>8, <1>9
-----------------------------------------------------------------------------
(* Going on. *)

LEMMA WishesTyped ==
  ASSUME NEW d, NEW wanted \in Wishes(d)
  PROVE  /\ wanted \in Seq(Wish)
         /\ wanted # <<>> => /\ d \in Phases /\ wanted[1].place \in Int
                            /\ {wanted[n] : n \in DOMAIN wanted} = {[phase |-> d, place |-> wanted[1].place]}
<1>1. CASE wanted = <<>>
  BY <1>1
<1>2. ASSUME NEW wish \in Wish, wish.phase = d, wanted = <<wish>>
      PROVE  /\ wanted \in Seq(Wish) /\ d \in Phases /\ wanted[1].place \in Int
             /\ {wanted[n] : n \in DOMAIN wanted} = {[phase |-> d, place |-> wanted[1].place]}
  <2>1. wanted[1] = wish /\ DOMAIN wanted = {1} /\ wanted \in Seq(Wish)
    BY <1>2
  <2>2. wish = [phase |-> d, place |-> wish.place] /\ d \in Phases /\ wish.place \in Int
    BY <1>2, PlanningAssumption DEF Wish
  <2>3. QED
    BY <2>1, <2>2
<1>3. QED
  BY <1>1, <1>2 DEF Wishes

LEMMA ValidateKeepsShape ==
  ASSUME PlanShape, NEW r \in Requests, Validate(r)
  PROVE  /\ PlanShape'
         /\ task[r].op \in {"patch", "retotal"} /\ task[r].stage = "read"
         /\ task'[r].stage = "valid" /\ task'[r].op = task[r].op /\ task'[r].id = task[r].id
         /\ task'[r].row.status \in NextStatuses(task[r].id, task[r].row.status)
         /\ \/ task'[r].row.value = task[r].row.value
            \/ /\ task[r].id \in Phases
               /\ Asks(task'[r]) = {[phase |-> task[r].id, place |-> task'[r].row.value]}
         /\ \A s \in Requests \ {r} : task'[s] = task[s]
         /\ UNCHANGED <<plan, item>>
<1> DEFINE d == task[r].id
<1>1. PICK st \in NextStatuses(d, task[r].row.status), wanted \in Wishes(d) :
        task' = [task EXCEPT
          ![r].stage = "valid", ![r].list = wanted,
          ![r].row = [status |-> st,
                      value |-> IF wanted = <<>> THEN task[r].row.value ELSE wanted[1].place]]
  BY DEF Validate
<1>2. task[r].op \in {"patch", "retotal"} /\ task[r].stage = "read" /\ UNCHANGED <<plan, item, workload>>
  BY DEF Validate
<1>3. task \in [Requests -> Task] /\ task[r] \in Task /\ TaskFits(task[r]) /\ task[r].row \in Plan
  BY PlansTyped, TaskFields
<1>4. st \in StatusesOf(d)
  BY <1>2, <1>3 DEF TaskFits, RowOps, NextStatuses
<1> DEFINE v == IF wanted = <<>> THEN task[r].row.value ELSE wanted[1].place
           written == [status |-> st, value |-> v]
           valid == [task[r] EXCEPT !.stage = "valid", !.list = wanted, !.row = written]
<1>5. /\ wanted \in Seq(Wish) /\ v \in Int
      /\ v = task[r].row.value \/ (d \in Phases /\ {wanted[n] : n \in DOMAIN wanted} = {[phase |-> d, place |-> v]})
  BY <1>3, WishesTyped DEF Plan
<1>6. task' = [task EXCEPT ![r] = valid]
  BY <1>1, <1>3 DEF Task
<1> HIDE DEF v
<1>7. written \in Plan /\ written.status = st /\ written.value = v
  BY <1>4, <1>5, PlanRows
<1> HIDE DEF written
<1>8. /\ valid \in Task /\ valid.stage = "valid" /\ valid.op = task[r].op /\ valid.id = d
      /\ valid.row = written /\ valid.line = task[r].line /\ valid.list = wanted
  BY <1>3, <1>5, <1>7 DEF Task
<1> HIDE DEF valid
<1>9. d \in Projects => d \notin Phases
  BY PlanningAssumption
<1>10. TaskFits(valid)
  BY <1>3, <1>4, <1>5, <1>7, <1>8, <1>9 DEF TaskFits
<1>11. task'[r] = valid /\ task' \in [Requests -> Task] /\ \A s \in Requests \ {r} : task'[s] = task[s]
  BY <1>3, <1>6, <1>8
<1>12. PlanShape'
  BY <1>2, <1>10, <1>11, PlansTyped, PlanShapeOf
<1>13. Asks(valid) = {wanted[n] : n \in DOMAIN wanted}
  BY <1>8 DEF Asks
<1>14. QED
  BY <1>1, <1>2, <1>5, <1>7, <1>8, <1>11, <1>12, <1>13

(* A request that ends, having written what fits. *)
LEMMA FinishKeepsShape ==
  ASSUME PlanShape, NEW r \in Requests, Finish(r),
         plan' \in [Plans -> Plan], \A d \in Plans : plan'[d].status \in StatusesOf(d) \cup Missing,
         \A d \in Projects : plan'[d].value \in 0..1,
         item' \in [Items -> Item], workload' = workload
  PROVE  PlanShape'
  BY PlansTyped, Finished, NoTaskFits, PlanShapeOf

LEMMA PlanWritten ==
  ASSUME PlanShape, NEW d \in Plans, NEW written \in Plan, plan' = [plan EXCEPT ![d] = written],
         written.status \in StatusesOf(d) \cup Missing, d \in Projects => written.value \in 0..1
  PROVE  /\ plan' \in [Plans -> Plan] /\ \A x \in Plans : plan'[x].status \in StatusesOf(x) \cup Missing
         /\ \A x \in Projects : plan'[x].value \in 0..1
         /\ plan'[d] = written /\ \A x \in Plans \ {d} : plan'[x] = plan[x]
<1>1. plan' \in [Plans -> Plan] /\ plan'[d] = written /\ \A x \in Plans \ {d} : plan'[x] = plan[x]
  BY PlansTyped
<1>2. \A x \in Projects : plan'[x].value \in 0..1
  BY <1>1, PlansTyped DEF Plans
<1>3. QED
  BY <1>1, <1>2, PlansTyped

LEMMA SavedPlan ==
  ASSUME PlanShape, NEW r \in Requests, SavePlan(r)
  PROVE  /\ PlanShape' /\ task[r].op = "patch" /\ task[r].stage = "valid" /\ task[r].id \in Plans
         /\ plan'[task[r].id] = task[r].row
         /\ \A x \in Plans \ {task[r].id} : plan'[x] = plan[x]
         /\ Finish(r) /\ item' = item
<1>1. /\ task[r].op = "patch" /\ task[r].stage = "valid" /\ Finish(r) /\ UNCHANGED <<item, workload>>
      /\ plan' = [plan EXCEPT ![task[r].id] = task[r].row]
  BY DEF SavePlan, Has
<1>2. /\ task[r].row \in Plan /\ task[r].id \in Plans
      /\ task[r].row.status \in StatusesOf(task[r].id) \cup Missing
      /\ task[r].id \in Projects => task[r].row.value \in 0..1
  BY <1>1, PlansTyped, TaskFields DEF TaskFits, RowOps
<1>3. /\ plan' \in [Plans -> Plan] /\ \A x \in Plans : plan'[x].status \in StatusesOf(x) \cup Missing
      /\ \A x \in Projects : plan'[x].value \in 0..1
      /\ plan'[task[r].id] = task[r].row /\ \A x \in Plans \ {task[r].id} : plan'[x] = plan[x]
  BY <1>1, <1>2, PlanWritten
<1>4. PlanShape'
  BY <1>1, <1>3, PlansTyped, FinishKeepsShape
<1>5. QED
  BY <1>1, <1>2, <1>3, <1>4

LEMMA ChangedTotal ==
  ASSUME PlanShape, NEW r \in Requests, ChangeTotal(r)
  PROVE  /\ PlanShape' /\ task[r].op = "retotal" /\ task[r].stage = "valid" /\ task[r].id \in Budgets
         /\ plan'[task[r].id].status = task[r].row.status
         /\ plan'[task[r].id].value \in Int /\ Covers(task[r].id, plan'[task[r].id].value)
         /\ \A x \in Plans \ {task[r].id} : plan'[x] = plan[x]
         /\ Finish(r) /\ item' = item
<1>1. PICK v \in MinValue..MaxValue :
        Covers(task[r].id, v) /\ plan' = [plan EXCEPT ![task[r].id] = [task[r].row EXCEPT !.value = v]]
  BY DEF ChangeTotal
<1>2. task[r].op = "retotal" /\ task[r].stage = "valid" /\ Finish(r) /\ UNCHANGED <<item, workload>>
  BY DEF ChangeTotal, Has
<1> DEFINE written == [task[r].row EXCEPT !.value = v]
<1>3. /\ task[r].row \in Plan /\ task[r].id \in Plans /\ task[r].id \in Budgets
      /\ task[r].row.status \in StatusesOf(task[r].id) \cup Missing /\ v \in Int
  BY <1>2, PlansTyped, TaskFields, PlanningAssumption DEF TaskFits, RowOps
<1>4. written \in Plan /\ written.status = task[r].row.status /\ written.value = v
  BY <1>3 DEF Plan
<1>5. task[r].id \notin Projects
  BY <1>3, PlanningAssumption
<1>6. plan' = [plan EXCEPT ![task[r].id] = written]
  BY <1>1
<1> HIDE DEF written
<1>7. /\ plan' \in [Plans -> Plan] /\ \A x \in Plans : plan'[x].status \in StatusesOf(x) \cup Missing
      /\ \A x \in Projects : plan'[x].value \in 0..1
      /\ plan'[task[r].id] = written /\ \A x \in Plans \ {task[r].id} : plan'[x] = plan[x]
  BY <1>3, <1>4, <1>5, <1>6, PlanWritten
<1>8. PlanShape'
  BY <1>2, <1>7, PlansTyped, FinishKeepsShape
<1>9. QED
  BY <1>1, <1>2, <1>3, <1>4, <1>7, <1>8

LEMMA Archived ==
  ASSUME PlanShape, NEW r \in Requests, Archive(r)
  PROVE  /\ PlanShape' /\ task[r].id \in Projects
         /\ plan'[task[r].id].status = plan[task[r].id].status
         /\ \A x \in Plans \ {task[r].id} : plan'[x] = plan[x]
         /\ Finish(r) /\ item' = item
<1> DEFINE d == task[r].id
           written == FlagOnly(plan[d], task[r].row)
<1>1. /\ task[r].op = "archive" /\ Finish(r) /\ UNCHANGED <<item, workload>>
      /\ plan' = [plan EXCEPT ![d] = written]
  BY DEF Archive, Has
<1>2. d \in Projects /\ d \in Plans /\ task[r].row.value \in 0..1 /\ plan[d] \in Plan
  BY <1>1, PlansTyped DEF TaskFits, RowOps, Plans
<1>3. written \in Plan /\ written.status = plan[d].status /\ written.value \in 0..1
  BY <1>2 DEF FlagOnly, Plan
<1> HIDE DEF written
<1>4. /\ plan' \in [Plans -> Plan] /\ \A x \in Plans : plan'[x].status \in StatusesOf(x) \cup Missing
      /\ \A x \in Projects : plan'[x].value \in 0..1
      /\ plan'[d] = written /\ \A x \in Plans \ {d} : plan'[x] = plan[x]
  BY <1>1, <1>2, <1>3, PlansTyped, PlanWritten
<1>5. PlanShape'
  BY <1>1, <1>4, PlansTyped, FinishKeepsShape
<1>6. QED
  BY <1>1, <1>2, <1>3, <1>4, <1>5

LEMMA SavedItem ==
  ASSUME PlanShape, NEW r \in Requests, SaveItem(r)
  PROVE  /\ PlanShape' /\ task[r].op \in ItemOps /\ task[r].id \in Items
         /\ task[r].line.budget \in Budgets /\ task[r].line.amount \in 0..MaxValue
         /\ Exists(task[r].line.budget)
         /\ item'[task[r].id] = task[r].line
         /\ \A x \in Items \ {task[r].id} : item'[x] = item[x]
         /\ Finish(r) /\ plan' = plan
<1>1. /\ task[r].op \in ItemOps /\ Finish(r) /\ UNCHANGED <<plan, workload>>
      /\ Exists(task[r].line.budget) /\ item' = [item EXCEPT ![task[r].id] = task[r].line]
  BY DEF SaveItem, ItemOps
<1>2. /\ task[r].line \in Item /\ task[r].id \in Items
      /\ task[r].line.budget \in Budgets /\ task[r].line.amount \in 0..MaxValue
  BY <1>1, PlansTyped, TaskFields DEF TaskFits
<1>3. /\ item' \in [Items -> Item] /\ item'[task[r].id] = task[r].line
      /\ \A x \in Items \ {task[r].id} : item'[x] = item[x]
  BY <1>1, <1>2, PlansTyped
<1>4. PlanShape'
  BY <1>1, <1>3, PlansTyped, FinishKeepsShape
<1>5. QED
  BY <1>1, <1>2, <1>3, <1>4

LEMMA LockedOne ==
  ASSUME PlanShape, NEW r \in Requests, LockPhase(r)
  PROVE  /\ PlanShape' /\ task[r].op = "reorder" /\ task'[r].op = "reorder"
         /\ WroteAsked(task[r]) => WroteAsked(task'[r])
         /\ \A s \in Requests \ {r} : task'[s] = task[s]
         /\ UNCHANGED <<plan, item>>
<1> DEFINE j == task[r]
           p == NextWish(r).phase
           n == NextWish(r).place
<1>1. /\ j.op = "reorder" /\ j.done < Len(j.list)
      /\ task' = [task EXCEPT ![r].done = @ + 1, ![r].wrote[p] = n] /\ UNCHANGED <<plan, item, workload>>
  BY DEF LockPhase, Has
<1>2. task \in [Requests -> Task] /\ j \in Task /\ TaskFits(j)
      /\ j.list \in Seq(Wish) /\ j.done \in Nat /\ j.wrote \in [Phases -> Places \cup {None}]
  BY PlansTyped, TaskFields
<1>3. /\ j.done + 1 \in 1..Len(j.list) /\ NextWish(r) = j.list[j.done + 1]
      /\ NextWish(r) = [phase |-> p, place |-> n] /\ p \in Phases /\ n \in Places
  <2>1. Len(j.list) \in Nat
    BY <1>2
  <2>2. j.done + 1 \in 1..Len(j.list) /\ NextWish(r) = j.list[j.done + 1]
    BY <1>1, <1>2, <2>1 DEF NextWish
  <2>3. NextWish(r) \in Wish
    BY <1>2, <2>2
  <2>4. QED
    BY <2>2, <2>3 DEF Wish
<1> HIDE DEF p, n
<1> DEFINE wrote == [j.wrote EXCEPT ![p] = n]
           locked == [j EXCEPT !.done = j.done + 1, !.wrote = wrote]
<1>4. /\ wrote \in [Phases -> Places \cup {None}] /\ wrote[p] = n
      /\ \A q \in Phases \ {p} : wrote[q] = j.wrote[q]
  BY <1>2, <1>3
<1>5. task' = [task EXCEPT ![r] = locked]
  BY <1>1, <1>2 DEF Task
<1> HIDE DEF wrote
<1>6. /\ locked \in Task /\ locked.op = j.op
      /\ locked.id = j.id /\ locked.row = j.row /\ locked.line = j.line
      /\ locked.list = j.list /\ locked.done = j.done + 1 /\ locked.wrote = wrote
  <2>1. /\ j.op \in AllOps \cup {"idle"} /\ j.stage \in {"idle", "read", "valid"}
        /\ j.id \in Plans \cup Items \cup {None} /\ j.row \in Plan /\ j.line \in Item
    BY <1>2 DEF Task
  <2>2. j.done + 1 \in Nat
    BY <1>2
  <2>3. QED
    BY <1>2, <1>4, <2>1, <2>2 DEF Task
<1> HIDE DEF locked
<1>7. TaskFits(locked)
  BY <1>2, <1>6 DEF TaskFits
<1>8. task'[r] = locked /\ task' \in [Requests -> Task] /\ \A s \in Requests \ {r} : task'[s] = task[s]
  BY <1>2, <1>5, <1>6
<1>9. PlanShape'
  BY <1>1, <1>7, <1>8, PlansTyped, PlanShapeOf
<1>10. ASSUME WroteAsked(j) PROVE WroteAsked(locked)
  <2>0. j.list[j.done + 1] = [phase |-> p, place |-> n]
    BY <1>3
  <2>1. Asks(locked) = Asks(j) /\ [phase |-> p, place |-> n] \in Asks(j)
    <3>1. j.done + 1 \in DOMAIN j.list
      BY <1>2, <1>3
    <3>2. QED
      BY <1>6, <2>0, <3>1 DEF Asks
  <2>2. \A q \in Phases : wrote[q] # None => [phase |-> q, place |-> wrote[q]] \in Asks(j)
    BY <1>4, <1>10, <2>1 DEF WroteAsked
  <2>3. \A k \in 1..(j.done + 1) : wrote[j.list[k].phase] # None
    <3>1. n # None
      BY <1>3, PlanningAssumption
    <3>2. TAKE k \in 1..(j.done + 1)
    <3>3. CASE k = j.done + 1
      <4>1. j.list[k].phase = p
        BY <2>0, <3>3
      <4>2. QED
        BY <1>4, <3>1, <4>1
    <3>4. CASE k # j.done + 1
      <4>1. k \in 1..j.done /\ k \in 1..Len(j.list)
        BY <1>2, <1>3, <3>4
      <4>5. j.list[k] \in Wish
        BY <1>2, <4>1
      <4>2. j.list[k].phase \in Phases
        BY <4>5 DEF Wish
      <4>3. j.wrote[j.list[k].phase] # None
        BY <1>10, <4>1 DEF WroteAsked
      <4>4. QED
        BY <1>4, <3>1, <4>2, <4>3
    <3>5. QED
      BY <3>3, <3>4
  <2>4. QED
    BY <1>6, <2>1, <2>2, <2>3 DEF WroteAsked
<1>11. QED
  BY <1>1, <1>6, <1>8, <1>9, <1>10

LEMMA Committed ==
  ASSUME PlanShape, NEW r \in Requests, CommitOrder(r)
  PROVE  /\ PlanShape' /\ task[r].op = "reorder" /\ task[r].done = Len(task[r].list)
         /\ \A d \in Plans : plan'[d].status = plan[d].status
         /\ \A d \in Plans \ Locked(r) : plan'[d] = plan[d]
         /\ \A d \in Locked(r) : plan'[d].value = task[r].wrote[d]
         /\ Finish(r) /\ item' = item
<1>1. /\ task[r].op = "reorder" /\ task[r].done = Len(task[r].list)
      /\ Finish(r) /\ UNCHANGED <<item, workload>>
      /\ plan' = [d \in Plans |-> IF d \in Locked(r) THEN [plan[d] EXCEPT !.value = task[r].wrote[d]]
                                 ELSE plan[d]]
  BY DEF CommitOrder, Has, Written
<1>2. ASSUME NEW d \in Locked(r)
      PROVE  /\ plan'[d] \in Plan /\ plan'[d].value = task[r].wrote[d] /\ plan'[d].status = plan[d].status
             /\ d \in Plans \ Projects
  <2>1. d \in Plans \ Projects /\ d \in Phases /\ task[r].wrote[d] # None
    BY PlanningAssumption DEF Plans, Locked
  <2>0. task[r].wrote \in [Phases -> Places \cup {None}]
    BY PlansTyped, TaskFields
  <2>2. task[r].wrote[d] \in Int
    BY <2>0, <2>1, PlanningAssumption
  <2>3. plan'[d] = [plan[d] EXCEPT !.value = task[r].wrote[d]] /\ plan[d] \in Plan
    BY <1>1, <2>1, PlansTyped
  <2>4. QED
    BY <2>1, <2>2, <2>3 DEF Plan
<1>3. \A d \in Plans \ Locked(r) : plan'[d] = plan[d]
  BY <1>1
<1>4. /\ plan' \in [Plans -> Plan]
      /\ \A d \in Plans : plan'[d].status = plan[d].status
      /\ \A d \in Projects : plan'[d].value \in 0..1
  <2>1. plan' = [d \in Plans |-> plan'[d]]
    BY <1>1
  <2>2. \A d \in Plans : plan'[d] \in Plan /\ plan'[d].status = plan[d].status
    BY <1>2, <1>3, PlansTyped
  <2>3. \A d \in Projects : plan'[d] = plan[d]
    BY <1>2, <1>3 DEF Plans
  <2>4. QED
    BY <2>1, <2>2, <2>3, PlansTyped
<1>5. PlanShape'
  BY <1>1, <1>4, PlansTyped, FinishKeepsShape
<1>6. QED
  BY <1>1, <1>2, <1>3, <1>4, <1>5

LEMMA EndedWithout ==
  ASSUME PlanShape, NEW r \in Requests, MissPhase(r) \/ BreakDeadlock(r) \/ Abandon(r)
  PROVE  PlanShape' /\ Finish(r) /\ UNCHANGED <<plan, item>>
<1>1. Finish(r) /\ UNCHANGED <<plan, item, workload>>
  BY DEF MissPhase, BreakDeadlock, Abandon, Undone
<1>2. QED
  BY <1>1, PlansTyped, FinishKeepsShape
-----------------------------------------------------------------------------
(* Steps of no request. *)

LEMMA PlanShapeOfRows ==
  ASSUME PlanShape, task' = task, workload' = workload,
         plan' \in [Plans -> Plan], \A d \in Plans : plan'[d].status \in StatusesOf(d) \cup Missing,
         \A d \in Projects : plan'[d].value \in 0..1,
         item' \in [Items -> Item]
  PROVE  PlanShape'
  BY DEF PlanShape, PlanningTypeOK, StatusesOf, Missing, TaskFits, RowOps, ItemOps

LEMMA CreatedRow ==
  ASSUME PlanShape, NEW d \in Plans, Create(d)
  PROVE  /\ PlanShape' /\ plan[d].status = "ABSENT" /\ plan'[d].value \in NewValues(d)
         /\ plan'[d].status \in StatusesOf(d) /\ plan'[d].value \in Int
         /\ \A x \in Plans \ {d} : plan'[x] = plan[x]
         /\ MayMeet(NewOp(d)) /\ UNCHANGED <<item, task>>
<1>1. PICK st \in StatusesOf(d), v \in NewValues(d) : plan' = [plan EXCEPT ![d] = [status |-> st, value |-> v]]
  BY DEF Create
<1>2. plan[d].status = "ABSENT" /\ MayMeet(NewOp(d)) /\ UNCHANGED <<item, task, workload>>
  BY DEF Create
<1>3. v \in Int /\ (d \in Projects => v \in 0..1)
  BY PlanningAssumption DEF NewValues
<1> DEFINE written == [status |-> st, value |-> v]
<1>4. written \in Plan /\ written.status = st /\ written.value = v
  BY <1>3, PlanRows
<1>5. plan' = [plan EXCEPT ![d] = written]
  BY <1>1
<1> HIDE DEF written
<1>6. /\ plan' \in [Plans -> Plan] /\ \A x \in Plans : plan'[x].status \in StatusesOf(x) \cup Missing
      /\ \A x \in Projects : plan'[x].value \in 0..1
      /\ plan'[d] = written /\ \A x \in Plans \ {d} : plan'[x] = plan[x]
  <2>1. written.status \in StatusesOf(d) \cup Missing /\ (d \in Projects => written.value \in 0..1)
    BY <1>3, <1>4
  <2>2. written \in Plan
    BY <1>4
  <2>3. QED
    BY <1>5, <2>1, <2>2, PlanWritten
<1>7. PlanShape'
  BY <1>2, <1>6, PlansTyped, PlanShapeOfRows
<1>8. QED
  BY <1>2, <1>3, <1>4, <1>6, <1>7

LEMMA DeletedRow ==
  ASSUME PlanShape, NEW d \in Plans, plan' = [plan EXCEPT ![d] = NoPlan("DELETED")]
  PROVE  /\ plan' \in [Plans -> Plan] /\ \A x \in Plans : plan'[x].status \in StatusesOf(x) \cup Missing
         /\ \A x \in Projects : plan'[x].value \in 0..1
         /\ plan'[d].status = "DELETED" /\ ~Exists(d)' /\ \A x \in Plans \ {d} : plan'[x] = plan[x]
<1> DEFINE written == NoPlan("DELETED")
<1>1. written \in Plan /\ written.status = "DELETED" /\ written.status \in Missing /\ written.value = 0
  BY PlanRows DEF NoPlan, Missing
<1> HIDE DEF written
<1>2. plan' = [plan EXCEPT ![d] = written]
  BY DEF written
<1>3. /\ plan' \in [Plans -> Plan] /\ \A x \in Plans : plan'[x].status \in StatusesOf(x) \cup Missing
      /\ \A x \in Projects : plan'[x].value \in 0..1
      /\ plan'[d] = written /\ \A x \in Plans \ {d} : plan'[x] = plan[x]
  <2>1. /\ written.status \in StatusesOf(d) \cup Missing /\ written \in Plan
        /\ d \in Projects => written.value \in 0..1
    BY <1>1
  <2>2. QED
    BY <1>2, <2>1, PlanWritten
<1>4. QED
  BY <1>1, <1>3 DEF Exists

LEMMA DroppedBudget ==
  ASSUME PlanShape, NEW b \in Budgets, DropBudget(b)
  PROVE  /\ PlanShape' /\ ~Exists(b)' /\ plan'[b].status = "DELETED"
         /\ \A x \in Plans \ {b} : plan'[x] = plan[x]
         /\ \A i \in Items : item'[i] = IF item[i].budget = b THEN NoItem ELSE item[i]
         /\ task' = task
<1>1. /\ plan' = [plan EXCEPT ![b] = NoPlan("DELETED")] /\ UNCHANGED <<task, workload>>
      /\ item' = [i \in Items |-> IF item[i].budget = b THEN NoItem ELSE item[i]]
  BY DEF DropBudget
<1>2. item' \in [Items -> Item]
  BY <1>1, PlansTyped DEF Item
<1>3. b \in Plans
  BY DEF Plans
<1>4. QED
  BY <1>1, <1>2, <1>3, DeletedRow, PlanShapeOfRows

LEMMA DroppedPhase ==
  ASSUME PlanShape, NEW p \in Phases, DropPhase(p)
  PROVE  /\ PlanShape' /\ ~Exists(p)' /\ plan'[p].status = "DELETED"
         /\ \A x \in Plans \ {p} : plan'[x] = plan[x]
         /\ Free(p) /\ MayMeet("drop phase") /\ UNCHANGED <<item, task>>
<1>1. /\ plan' = [plan EXCEPT ![p] = NoPlan("DELETED")] /\ UNCHANGED <<item, task, workload>>
      /\ Free(p) /\ MayMeet("drop phase")
  BY DEF DropPhase
<1>2. p \in Plans
  BY DEF Plans
<1>3. QED
  BY <1>1, <1>2, PlansTyped, DeletedRow, PlanShapeOfRows

LEMMA DroppedItem ==
  ASSUME PlanShape, NEW i \in Items, DropItem(i)
  PROVE  /\ PlanShape' /\ item'[i] = NoItem /\ \A x \in Items \ {i} : item'[x] = item[x]
         /\ UNCHANGED <<plan, task>>
<1>1. item' = [item EXCEPT ![i] = NoItem] /\ UNCHANGED <<plan, task, workload>>
  BY DEF DropItem
<1>2. item' \in [Items -> Item]
  BY <1>1, PlansTyped DEF Item
<1>3. QED
  BY <1>1, <1>2, PlansTyped, PlanShapeOfRows

LEMMA PlanShapeAtFirst == PlanningInit => PlanShape
<1> SUFFICES ASSUME PlanningInit PROVE PlanShape
  OBVIOUS
<1>1. NoPlan("ABSENT") \in Plan /\ NoPlan("ABSENT").status = "ABSENT" /\ NoPlan("ABSENT").value = 0
  BY PlanRows DEF NoPlan
<1>2. /\ plan \in [Plans -> Plan] /\ \A d \in Plans : plan[d].status \in StatusesOf(d) \cup Missing
      /\ \A d \in Projects : plan[d].value \in 0..1
  BY <1>1 DEF PlanningInit, Missing, Plans
<1>3. item \in [Items -> Item] /\ workload \in Workloads
  BY DEF PlanningInit, Item
<1>4. task \in [Requests -> Task] /\ \A r \in Requests : TaskFits(task[r])
  BY NoTaskFits DEF PlanningInit
<1>5. QED
  BY <1>2, <1>3, <1>4 DEF PlanShape, PlanningTypeOK

LEMMA PlanShapeKept == PlanShape /\ [PlanningNext]_planningVars => PlanShape'
<1> SUFFICES ASSUME PlanShape, [PlanningNext]_planningVars PROVE PlanShape'
  OBVIOUS
<1>1. ASSUME NEW r \in Requests, Request(r) PROVE PlanShape'
  BY <1>1, ReadKeepsShape, CheckKeepsShape, ReorderKeepsShape DEF Request
<1>2. ASSUME NEW r \in Requests, GoOn(r) \/ Abandon(r) PROVE PlanShape'
  BY <1>2, ValidateKeepsShape, SavedPlan, ChangedTotal, Archived, SavedItem, LockedOne, Committed,
     EndedWithout DEF GoOn, Reordering
<1>3. ASSUME NEW d \in Plans, Create(d) PROVE PlanShape'
  BY <1>3, CreatedRow
<1>4. ASSUME NEW b \in Budgets, DropBudget(b) PROVE PlanShape'
  BY <1>4, DroppedBudget
<1>5. ASSUME NEW p \in Phases, DropPhase(p) PROVE PlanShape'
  BY <1>5, DroppedPhase
<1>6. ASSUME NEW i \in Items, DropItem(i) PROVE PlanShape'
  BY <1>6, DroppedItem
<1>7. CASE UNCHANGED planningVars
  BY <1>7, PlansTyped, PlanShapeOfRows DEF planningVars
<1>8. QED
  BY <1>1, <1>2, <1>3, <1>4, <1>5, <1>6, <1>7 DEF PlanningNext

(* The types of the rows and of what requests hold, and that every row has *)
(* a status of its own table, for any number of rows and requests.         *)
THEOREM PlanningTypeCorrect == PlanningSpec => []PlanningTypeOK
<1>1. PlanShape => PlanningTypeOK
  BY DEF PlanShape
<1>2. QED
  BY <1>1, PlanShapeAtFirst, PlanShapeKept, PTL DEF PlanningSpec
-----------------------------------------------------------------------------
(* What one row may become.                                                *)

There(rows, d) == rows[d].status \notin Missing

(* Rows come to be once, and are deleted; no status changes otherwise.     *)
StatusesStay ==
  \A d \in Plans : \/ plan'[d].status = plan[d].status \/ plan'[d].status = "DELETED"
                   \/ plan[d].status = "ABSENT" /\ plan'[d].status \in StatusesOf(d)

NobodyElse(r) == \A s \in Requests \ {r} : task'[s] = task[s]

(* Some request is at one of these operations. *)
InProgress(t, ops) == \E s \in Requests : t[s].op \in ops

LEMMA StayInRequest ==
  ASSUME PlanShape, NEW r \in Requests, Request(r) \/ Abandon(r) \/ Archive(r) \/ SaveItem(r)
         \/ LockPhase(r) \/ MissPhase(r) \/ CommitOrder(r) \/ BreakDeadlock(r) \/ Validate(r)
  PROVE  StatusesStay
<1>1. CASE Request(r)
  BY <1>1, ReadKeepsShape, CheckKeepsShape, ReorderKeepsShape DEF Request, StatusesStay
<1>2. CASE Abandon(r) \/ MissPhase(r) \/ BreakDeadlock(r)
  BY <1>2, EndedWithout DEF StatusesStay
<1>3. CASE Archive(r)
  BY <1>3, Archived DEF StatusesStay
<1>4. CASE SaveItem(r) \/ LockPhase(r) \/ Validate(r)
  BY <1>4, SavedItem, LockedOne, ValidateKeepsShape DEF StatusesStay
<1>5. CASE CommitOrder(r)
  BY <1>5, Committed DEF StatusesStay
<1>6. QED
  BY <1>1, <1>2, <1>3, <1>4, <1>5

LEMMA StayElsewhere ==
  ASSUME PlanShape,
         \/ \E d \in Plans : Create(d)
         \/ \E b \in Budgets : DropBudget(b)
         \/ \E p \in Phases : DropPhase(p)
         \/ \E i \in Items : DropItem(i)
  PROVE  StatusesStay /\ task' = task
<1>1. ASSUME NEW d \in Plans, Create(d) PROVE StatusesStay /\ task' = task
  BY <1>1, CreatedRow DEF StatusesStay
<1>2. ASSUME NEW b \in Budgets, DropBudget(b) PROVE StatusesStay /\ task' = task
  BY <1>2, DroppedBudget DEF StatusesStay
<1>3. ASSUME NEW p \in Phases, DropPhase(p) PROVE StatusesStay /\ task' = task
  BY <1>3, DroppedPhase DEF StatusesStay
<1>4. ASSUME NEW i \in Items, DropItem(i) PROVE StatusesStay /\ task' = task
  BY <1>4, DroppedItem DEF StatusesStay
<1>5. QED
  BY <1>1, <1>2, <1>3, <1>4
-----------------------------------------------------------------------------
(* Statuses. *)

(* The copy is as fresh as the row, or one legal move ahead of it.         *)
Fresh(rows, j) ==
  /\ rows[j.id].status # "ABSENT"
  /\ There(rows, j.id) /\ j.stage = "read" => j.row.status = rows[j.id].status
  /\ There(rows, j.id) /\ j.stage = "valid" => j.row.status \in NextStatuses(j.id, rows[j.id].status)

OneSaver(t) ==
  \A r, s \in Requests : t[r].op \in StatusOps /\ t[s].op \in StatusOps => r = s

StatusInv ==
  /\ PlanShape
  /\ OneSaver(task)
  /\ \A r \in Requests : task[r].op \in StatusOps => Fresh(plan, task[r])

LEMMA SaverStays ==
  ASSUME StatusInv, StatusesStay, NEW r \in Requests, task[r].op \in StatusOps
  PROVE  Fresh(plan', task[r])
<1>1. task[r].id \in Plans /\ Fresh(plan, task[r])
  BY PlansTyped DEF StatusInv, StatusOps, RowOps, TaskFits
<1>2. plan'[task[r].id].status # "ABSENT"
  BY <1>1, StatusKinds DEF Fresh, StatusesStay, Missing
<1>3. There(plan', task[r].id) => plan'[task[r].id].status = plan[task[r].id].status
  BY <1>1, <1>2, SMTT(30) DEF Fresh, StatusesStay, There, Missing
<1>4. QED
  BY <1>1, <1>2, <1>3 DEF Fresh, There

(* A step of one request that writes no status it has read.                *)
LEMMA SaversAfter ==
  ASSUME StatusInv, PlanShape', StatusesStay, NEW r \in Requests, NobodyElse(r),
         task'[r].op \in StatusOps =>
           /\ Fresh(plan', task'[r])
           /\ task[r].op \in StatusOps \/ ~InProgress(task, StatusOps)
  PROVE  StatusInv'
<1>1. OneSaver(task')
  BY DEF StatusInv, OneSaver, NobodyElse, InProgress
<1>2. \A s \in Requests : task'[s].op \in StatusOps => Fresh(plan', task'[s])
  BY SaverStays DEF NobodyElse
<1>3. QED
  BY <1>1, <1>2 DEF StatusInv, OneSaver, Fresh, There, StatusOps, NextStatuses, AllowedTransitions, StatusesOf

(* The saver writes: nobody else holds a copy.                             *)
LEMMA SaversGone ==
  ASSUME StatusInv, PlanShape', NEW r \in Requests, Finish(r), task[r].op \in StatusOps
  PROVE  StatusInv'
<1>1. task'[r] = NoTask /\ NobodyElse(r)
  BY PlansTyped, Finished DEF StatusInv, NobodyElse
<1>2. \A s \in Requests : task'[s].op \notin StatusOps
  BY <1>1, NoTaskFits DEF StatusInv, OneSaver, NobodyElse, StatusOps
<1>3. QED
  BY <1>2 DEF StatusInv, OneSaver, StatusOps

LegalStep ==
  \A d \in Plans :
    There(plan, d) /\ There(plan', d) /\ plan'[d].status # plan[d].status =>
      <<plan[d].status, plan'[d].status>> \in AllowedTransitions(d)

LEMMA StayingIsLegal == StatusesStay => LegalStep
  BY DEF StatusesStay, LegalStep, There, Missing

LEMMA RequestStatuses ==
  ASSUME SaversTakeTurns, StatusInv, NEW r \in Requests, Request(r)
  PROVE  StatusInv' /\ LegalStep
<1>0. PlanShape /\ LegalStep /\ StatusesStay
  BY StayInRequest, StayingIsLegal DEF StatusInv
<1>1. ASSUME NEW d \in Plans, NEW op \in workload, Read(r, d, op) PROVE StatusInv'
  <2>1. /\ PlanShape' /\ op \in RowOps /\ Exists(d)
        /\ task'[r].op = op /\ task'[r].stage = "read" /\ task'[r].id = d /\ task'[r].row = plan[d]
        /\ \A s \in Requests \ {r} : task'[s] = task[s]
        /\ \A s \in Requests : task[s] = NoTask \/ {op, task[s].op} \in Meetings
        /\ plan' = plan
    BY <1>0, <1>1, ReadKeepsShape
  <2>2. Fresh(plan', task'[r])
    BY <2>1 DEF Fresh, Exists, There, Missing
  <2>3. op \in StatusOps => ~InProgress(task, StatusOps)
    BY <2>1, NoTaskFits DEF InProgress, SaversTakeTurns, StatusOps
  <2>4. QED
    BY <1>0, <2>1, <2>2, <2>3, SaversAfter DEF NobodyElse
<1>2. ASSUME NEW i \in Items, NEW b \in Budgets, CheckItem(r, i, b) \/ CheckEdit(r, i, b) PROVE StatusInv'
  <2>1. PlanShape' /\ task'[r].op \in ItemOps /\ NobodyElse(r)
    BY <1>0, <1>2, CheckKeepsShape DEF NobodyElse
  <2>2. QED
    BY <1>0, <2>1, SaversAfter DEF ItemOps, StatusOps
<1>3. ASSUME BeginReorder(r) PROVE StatusInv'
  <2>1. PlanShape' /\ task'[r].op = "reorder" /\ NobodyElse(r)
    BY <1>0, <1>3, ReorderKeepsShape DEF NobodyElse
  <2>2. QED
    BY <1>0, <2>1, SaversAfter DEF StatusOps
<1>4. QED
  BY <1>0, <1>1, <1>2, <1>3 DEF Request

LEMMA EndKeepsStatuses ==
  ASSUME StatusInv, PlanShape', StatusesStay, NEW r \in Requests, Finish(r)
  PROVE  StatusInv'
<1>1. task'[r] = NoTask /\ NobodyElse(r)
  BY PlansTyped, Finished DEF StatusInv, NobodyElse
<1>2. task'[r].op \notin StatusOps
  BY <1>1, NoTaskFits DEF StatusOps
<1>3. QED
  BY <1>1, <1>2, SaversAfter

LEMMA GoOnStatuses ==
  ASSUME StatusInv, NEW r \in Requests, GoOn(r) \/ Abandon(r)
  PROVE  StatusInv' /\ LegalStep
<1>0. PlanShape
  BY DEF StatusInv
<1>1. CASE Archive(r) \/ SaveItem(r) \/ MissPhase(r) \/ CommitOrder(r) \/ BreakDeadlock(r) \/ Abandon(r)
  <2>1. PlanShape' /\ Finish(r)
    BY <1>0, <1>1, Archived, SavedItem, Committed, EndedWithout
  <2>2. QED
    BY <1>0, <1>1, <2>1, EndKeepsStatuses, StayInRequest, StayingIsLegal
<1>2. CASE LockPhase(r)
  <2>1. PlanShape' /\ task'[r].op = "reorder" /\ NobodyElse(r)
    BY <1>0, <1>2, LockedOne DEF NobodyElse
  <2>2. QED
    BY <1>0, <1>2, <2>1, SaversAfter, StayInRequest, StayingIsLegal DEF StatusOps
<1>3. CASE Validate(r)
  <2>1. /\ PlanShape' /\ task[r].op \in StatusOps /\ task[r].stage = "read"
        /\ task'[r].stage = "valid" /\ task'[r].op = task[r].op /\ task'[r].id = task[r].id
        /\ task'[r].row.status \in NextStatuses(task[r].id, task[r].row.status)
        /\ NobodyElse(r) /\ plan' = plan
    BY <1>0, <1>3, ValidateKeepsShape DEF StatusOps, NobodyElse
  <2>2. Fresh(plan, task[r])
    BY <2>1 DEF StatusInv
  <2>3. Fresh(plan', task'[r])
    BY <2>1, <2>2 DEF Fresh
  <2>4. QED
    BY <1>0, <1>3, <2>1, <2>3, SaversAfter, StayInRequest, StayingIsLegal
<1>4. CASE SavePlan(r)
  <2>1. /\ PlanShape' /\ Finish(r) /\ task[r].op \in StatusOps /\ task[r].stage = "valid"
        /\ plan'[task[r].id] = task[r].row /\ \A x \in Plans \ {task[r].id} : plan'[x] = plan[x]
    BY <1>0, <1>4, SavedPlan DEF StatusOps
  <2>2. LegalStep
    BY <2>1 DEF StatusInv, Fresh, LegalStep, NextStatuses
  <2>3. QED
    BY <2>1, <2>2, SaversGone
<1>5. CASE ChangeTotal(r)
  <2>1. /\ PlanShape' /\ Finish(r) /\ task[r].op \in StatusOps /\ task[r].stage = "valid"
        /\ plan'[task[r].id].status = task[r].row.status
        /\ \A x \in Plans \ {task[r].id} : plan'[x] = plan[x]
    BY <1>0, <1>5, ChangedTotal DEF StatusOps
  <2>2. LegalStep
    BY <2>1 DEF StatusInv, Fresh, LegalStep, NextStatuses, There
  <2>3. QED
    BY <2>1, <2>2, SaversGone
<1>6. QED
  BY <1>1, <1>2, <1>3, <1>4, <1>5 DEF GoOn, Reordering

LEMMA RowsKeepStatuses ==
  ASSUME StatusInv, PlanShape', StatusesStay, task' = task
  PROVE  StatusInv'
<1>1. \A s \in Requests : task'[s].op \in StatusOps => Fresh(plan', task'[s])
  BY SaverStays
<1>2. QED
  BY <1>1 DEF StatusInv, OneSaver, Fresh, There, StatusOps, NextStatuses, AllowedTransitions, StatusesOf

LEMMA StatusStep ==
  ASSUME SaversTakeTurns, StatusInv, [PlanningNext]_planningVars
  PROVE  StatusInv' /\ LegalStep
<1>1. ASSUME NEW r \in Requests, Request(r) \/ GoOn(r) \/ Abandon(r) PROVE StatusInv' /\ LegalStep
  BY <1>1, RequestStatuses, GoOnStatuses
<1>2. CASE \/ \E d \in Plans : Create(d)
           \/ \E b \in Budgets : DropBudget(b)
           \/ \E p \in Phases : DropPhase(p)
           \/ \E i \in Items : DropItem(i)
  <2>1. PlanShape /\ StatusesStay /\ task' = task
    BY <1>2, StayElsewhere DEF StatusInv
  <2>2. PlanShape'
    BY <2>1, PlanShapeKept
  <2>3. QED
    BY <2>1, <2>2, RowsKeepStatuses, StayingIsLegal
<1>3. CASE UNCHANGED planningVars
  <2>1. PlanShape' /\ StatusesStay /\ task' = task
    BY <1>3, PlanShapeKept DEF StatusInv, StatusesStay, planningVars
  <2>2. QED
    BY <2>1, RowsKeepStatuses, StayingIsLegal
<1>4. QED
  BY <1>1, <1>2, <1>3 DEF PlanningNext

LEMMA StatusInvAtFirst == PlanningInit => StatusInv
<1> SUFFICES ASSUME PlanningInit PROVE StatusInv
  OBVIOUS
<1>1. \A r \in Requests : task[r].op \notin StatusOps
  BY NoTaskFits DEF PlanningInit, StatusOps
<1>2. QED
  BY <1>1, PlanShapeAtFirst DEF StatusInv, OneSaver

(* A project, a phase or a budget goes from status to status as the tables *)
(* of its model allow, for any number of rows and requests, if two full-   *)
(* row saves (serializer.save after validate) are never in progress        *)
(* together: archiving, deleting and reordering may meet them.             *)
THEOREM StatusesMoveLegally == SaversTakeTurns => (PlanningSpec => StatusesFollowTables)
<1> SUFFICES ASSUME SaversTakeTurns PROVE PlanningSpec => StatusesFollowTables
  OBVIOUS
<1>1. StatusInv /\ [PlanningNext]_planningVars => StatusInv'
  BY StatusStep
<1>2. StatusInv /\ [PlanningNext]_planningVars =>
        [\A d \in Plans :
           Exists(d) /\ Exists(d)' /\ plan'[d].status # plan[d].status =>
             <<plan[d].status, plan'[d].status>> \in AllowedTransitions(d)]_planningVars
  BY StatusStep DEF LegalStep, Exists, There
<1>3. QED
  BY <1>1, <1>2, StatusInvAtFirst, PTL DEF PlanningSpec, StatusesFollowTables
-----------------------------------------------------------------------------
(* Places of phases. *)

Place(p, v) == [phase |-> p, place |-> v]

(* A copy of a phase has the place the phase has, or the one asked for.    *)
CopyPlaced(rows, j) ==
  j.id \in Phases =>
    /\ rows[j.id].status # "ABSENT"
    /\ \/ j.stage = "valid" /\ Asks(j) = {Place(j.id, j.row.value)}
       \/ There(rows, j.id) => j.row.value = rows[j.id].value

PatchAlone(t) ==
  \A r, s \in Requests : t[r].op = "patch" /\ t[s].op \in {"patch", "reorder"} => r = s

PlaceInv ==
  /\ PlanShape
  /\ PatchAlone(task)
  /\ \A r \in Requests : /\ task[r].op = "patch" => CopyPlaced(plan, task[r])
                         /\ task[r].op = "reorder" => WroteAsked(task[r])

(* Phases stay where they are, or are created or deleted. *)
PlacesStay ==
  \A p \in Phases :
    /\ plan'[p].status = "ABSENT" => plan[p].status = "ABSENT"
    /\ There(plan', p) => plan[p].status = "ABSENT" \/ (There(plan, p) /\ plan'[p].value = plan[p].value)

(* Phases move as a request asks. *)
MovesAsAsked ==
  \A p \in Phases :
    There(plan, p) /\ There(plan', p) /\ plan'[p].value # plan[p].value =>
      \E r \in Requests :
        /\ Place(p, plan'[p].value) \in Asks(task[r])
        /\ \A wish \in Asks(task[r]) : Place(wish.phase, plan'[wish.phase].value) \in Asks(task[r])

LEMMA StayingIsAsked == PlacesStay => MovesAsAsked
  BY DEF PlacesStay, MovesAsAsked, There, Missing

LEMMA PlaceInvPrimed ==
  ASSUME PlanShape', PatchAlone(task'),
         \A r \in Requests : /\ task'[r].op = "patch" => CopyPlaced(plan', task'[r])
                             /\ task'[r].op = "reorder" => WroteAsked(task'[r])
  PROVE  PlaceInv'
  BY DEF PlaceInv, PatchAlone, CopyPlaced, WroteAsked, Asks, Place, There, Missing

LEMMA CopyStays ==
  ASSUME PlacesStay, NEW j, CopyPlaced(plan, j)
  PROVE  CopyPlaced(plan', j)
  BY DEF PlacesStay, CopyPlaced

(* A step of one request.                                                  *)
LEMMA PlacesAfter ==
  ASSUME PlaceInv, PlanShape', NEW r \in Requests, NobodyElse(r),
         PlacesStay \/ \A s \in Requests \ {r} : task[s].op # "patch",
         task'[r].op = "patch" =>
           /\ CopyPlaced(plan', task'[r])
           /\ task[r].op = "patch" \/ ~InProgress(task, {"patch", "reorder"}),
         task'[r].op = "reorder" =>
           /\ WroteAsked(task'[r])
           /\ task[r].op = "reorder" \/ ~InProgress(task, {"patch"})
  PROVE  PlaceInv'
<1>1. PatchAlone(task')
  BY DEF PlaceInv, PatchAlone, NobodyElse, InProgress
<1>2. ASSUME NEW s \in Requests, task'[s].op = "patch" PROVE CopyPlaced(plan', task'[s])
  <2>1. CASE s = r
    BY <1>2, <2>1
  <2>2. CASE s # r
    <3>1. task'[s] = task[s]
      BY <2>2 DEF NobodyElse
    <3>2. PlacesStay /\ CopyPlaced(plan, task[s])
      BY <1>2, <2>2, <3>1 DEF PlaceInv
    <3>3. QED
      BY <3>1, <3>2, CopyStays
  <2>3. QED
    BY <2>1, <2>2
<1>3. ASSUME NEW s \in Requests, task'[s].op = "reorder" PROVE WroteAsked(task'[s])
  BY <1>3 DEF PlaceInv, NobodyElse
<1>4. QED
  BY <1>1, <1>2, <1>3, PlaceInvPrimed

(* The same of a request that ends. *)
LEMMA PlacesAtEnd ==
  ASSUME PlaceInv, PlanShape', NEW r \in Requests, Finish(r),
         PlacesStay \/ \A s \in Requests \ {r} : task[s].op # "patch"
  PROVE  PlaceInv'
<1>1. task'[r] = NoTask /\ NobodyElse(r)
  BY PlansTyped, Finished DEF PlaceInv, NobodyElse
<1>2. task'[r].op = "idle"
  BY <1>1, NoTaskFits
<1>3. QED
  BY <1>1, <1>2, PlacesAfter

LEMMA SamePlaces ==
  ASSUME plan' = plan
  PROVE  PlacesStay
  BY DEF PlacesStay, There, Missing

LEMMA PlacesUntouched ==
  ASSUME NEW d \in Plans \ Phases, \A x \in Plans \ {d} : plan'[x] = plan[x]
  PROVE  PlacesStay
  BY DEF PlacesStay, There, Missing, Plans

LEMMA RequestPlaces ==
  ASSUME PlacesTakeTurns, PlaceInv, NEW r \in Requests, Request(r)
  PROVE  PlaceInv' /\ PlacesStay
<1>0. PlanShape
  BY DEF PlaceInv
<1>1. ASSUME NEW d \in Plans, NEW op \in workload, Read(r, d, op) PROVE PlaceInv' /\ PlacesStay
  <2>1. /\ PlanShape' /\ op \in RowOps /\ Exists(d)
        /\ task'[r].op = op /\ task'[r].id = d /\ task'[r].row = plan[d] /\ NobodyElse(r)
        /\ \A s \in Requests : task[s] = NoTask \/ {op, task[s].op} \in Meetings
        /\ plan' = plan
    BY <1>0, <1>1, ReadKeepsShape DEF NobodyElse
  <2>2. CopyPlaced(plan', task'[r])
    BY <2>1 DEF CopyPlaced, Exists, There, Missing
  <2>3. op = "patch" => ~InProgress(task, {"patch", "reorder"})
    BY <2>1, NoTaskFits DEF InProgress, PlacesTakeTurns
  <2>4. task'[r].op # "reorder"
    BY <2>1 DEF RowOps
  <2>5. QED
    BY <2>1, <2>2, <2>3, <2>4, SamePlaces, PlacesAfter
<1>2. ASSUME NEW i \in Items, NEW b \in Budgets, CheckItem(r, i, b) \/ CheckEdit(r, i, b)
      PROVE  PlaceInv' /\ PlacesStay
  <2>1. PlanShape' /\ task'[r].op \in ItemOps /\ NobodyElse(r) /\ plan' = plan
    BY <1>0, <1>2, CheckKeepsShape DEF NobodyElse
  <2>2. QED
    BY <2>1, SamePlaces, PlacesAfter DEF ItemOps
<1>3. ASSUME BeginReorder(r) PROVE PlaceInv' /\ PlacesStay
  <2>1. /\ PlanShape' /\ task'[r].op = "reorder" /\ NobodyElse(r) /\ plan' = plan
        /\ WroteAsked(task'[r])
        /\ \A s \in Requests : task[s] = NoTask \/ {"reorder", task[s].op} \in Meetings
    BY <1>0, <1>3, ReorderKeepsShape DEF NobodyElse
  <2>2. ~InProgress(task, {"patch"})
    BY <2>1, NoTaskFits DEF InProgress, PlacesTakeTurns
  <2>3. QED
    BY <2>1, <2>2, SamePlaces, PlacesAfter
<1>4. QED
  BY <1>1, <1>2, <1>3 DEF Request

LEMMA CommitPlaces ==
  ASSUME PlaceInv, NEW r \in Requests, CommitOrder(r)
  PROVE  PlaceInv' /\ MovesAsAsked
<1> DEFINE j == task[r]
<1>1. /\ PlanShape' /\ j.op = "reorder" /\ j.done = Len(j.list) /\ Finish(r)
      /\ \A d \in Plans \ Locked(r) : plan'[d] = plan[d]
      /\ \A d \in Locked(r) : plan'[d].value = j.wrote[d]
  BY Committed DEF PlaceInv
<1>2. WroteAsked(j) /\ j.list \in Seq(Wish)
  BY <1>1, PlansTyped, TaskFields DEF PlaceInv
<1>3. \A s \in Requests \ {r} : task[s].op # "patch"
  BY <1>1 DEF PlaceInv, PatchAlone
<1>4. PlaceInv'
  BY <1>1, <1>3, PlacesAtEnd
<1>5. \A p \in Locked(r) : Place(p, plan'[p].value) \in Asks(j)
  BY <1>1, <1>2 DEF WroteAsked, Place, Locked
<1>6. \A wish \in Asks(j) : wish.phase \in Locked(r)
  <2>1. TAKE wish \in Asks(j)
  <2>2. PICK n \in 1..Len(j.list) : wish = j.list[n]
    BY <1>2 DEF Asks
  <2>5. wish \in Wish
    BY <1>2, <2>2
  <2>3. wish.phase \in Phases /\ n \in 1..j.done
    BY <1>1, <2>5 DEF Wish
  <2>4. QED
    BY <1>2, <2>2, <2>3 DEF WroteAsked, Locked
<1>7. MovesAsAsked
  <2>1. SUFFICES ASSUME NEW p \in Phases, plan'[p].value # plan[p].value
                 PROVE  /\ Place(p, plan'[p].value) \in Asks(j)
                        /\ \A wish \in Asks(j) : Place(wish.phase, plan'[wish.phase].value) \in Asks(j)
    BY DEF MovesAsAsked
  <2>2. p \in Locked(r)
    BY <1>1, <2>1 DEF Plans
  <2>3. QED
    BY <1>5, <1>6, <2>2
<1>8. QED
  BY <1>4, <1>7

LEMMA SavePlaces ==
  ASSUME PlaceInv, NEW r \in Requests, SavePlan(r)
  PROVE  PlaceInv' /\ MovesAsAsked
<1> DEFINE j == task[r]
<1>1. /\ PlanShape' /\ Finish(r) /\ j.op = "patch" /\ j.id \in Plans
      /\ plan'[j.id] = j.row /\ \A x \in Plans \ {j.id} : plan'[x] = plan[x]
  BY SavedPlan DEF PlaceInv
<1>2. \A s \in Requests \ {r} : task[s].op # "patch"
  BY <1>1 DEF PlaceInv, PatchAlone
<1>3. PlaceInv'
  BY <1>1, <1>2, PlacesAtEnd
<1>4. SUFFICES ASSUME NEW p \in Phases, There(plan, p), plan'[p].value # plan[p].value
               PROVE  /\ Place(p, plan'[p].value) \in Asks(j)
                      /\ \A wish \in Asks(j) : Place(wish.phase, plan'[wish.phase].value) \in Asks(j)
  BY <1>3 DEF MovesAsAsked
<1>5. p = j.id /\ plan'[p].value = j.row.value
  BY <1>1, <1>4 DEF Plans
<1>6. Asks(j) = {Place(p, plan'[p].value)}
  BY <1>1, <1>4, <1>5 DEF PlaceInv, CopyPlaced
<1>7. Place(p, plan'[p].value).phase = p
  BY DEF Place
<1>8. QED
  BY <1>6, <1>7

LEMMA GoOnPlaces ==
  ASSUME PlaceInv, NEW r \in Requests, GoOn(r) \/ Abandon(r)
  PROVE  PlaceInv' /\ MovesAsAsked
<1>0. PlanShape
  BY DEF PlaceInv
<1>1. CASE SaveItem(r) \/ MissPhase(r) \/ BreakDeadlock(r) \/ Abandon(r)
  <2>1. PlanShape' /\ Finish(r) /\ plan' = plan
    BY <1>0, <1>1, SavedItem, EndedWithout
  <2>2. QED
    BY <2>1, SamePlaces, PlacesAtEnd, StayingIsAsked
<1>2. CASE Archive(r)
  <2>1. /\ PlanShape' /\ Finish(r) /\ task[r].id \in Projects
        /\ \A x \in Plans \ {task[r].id} : plan'[x] = plan[x]
    BY <1>0, <1>2, Archived
  <2>2. task[r].id \in Plans \ Phases
    BY <2>1, PlanningAssumption DEF Plans
  <2>3. QED
    BY <2>1, <2>2, PlacesUntouched, PlacesAtEnd, StayingIsAsked
<1>3. CASE ChangeTotal(r)
  <2>1. /\ PlanShape' /\ Finish(r) /\ task[r].id \in Budgets
        /\ \A x \in Plans \ {task[r].id} : plan'[x] = plan[x]
    BY <1>0, <1>3, ChangedTotal
  <2>2. task[r].id \in Plans \ Phases
    BY <2>1, PlanningAssumption DEF Plans
  <2>3. QED
    BY <2>1, <2>2, PlacesUntouched, PlacesAtEnd, StayingIsAsked
<1>4. CASE Validate(r)
  <2>1. /\ PlanShape' /\ task[r].op \in {"patch", "retotal"}
        /\ task'[r].op = task[r].op /\ task'[r].id = task[r].id
        /\ \/ task'[r].row.value = task[r].row.value
           \/ Asks(task'[r]) = {Place(task[r].id, task'[r].row.value)}
        /\ NobodyElse(r) /\ plan' = plan /\ task[r].stage = "read" /\ task'[r].stage = "valid"
    BY <1>0, <1>4, ValidateKeepsShape DEF NobodyElse, Place
  <2>2. task[r].op = "patch" => CopyPlaced(plan', task'[r])
    BY <2>1 DEF PlaceInv, CopyPlaced
  <2>3. QED
    BY <2>1, <2>2, SamePlaces, PlacesAfter, StayingIsAsked
<1>5. CASE LockPhase(r)
  <2>1. /\ PlanShape' /\ task[r].op = "reorder" /\ task'[r].op = "reorder"
        /\ WroteAsked(task[r]) => WroteAsked(task'[r])
        /\ NobodyElse(r) /\ plan' = plan
    BY <1>0, <1>5, LockedOne DEF NobodyElse
  <2>2. WroteAsked(task'[r])
    BY <2>1 DEF PlaceInv
  <2>3. QED
    BY <2>1, <2>2, SamePlaces, PlacesAfter, StayingIsAsked
<1>6. QED
  BY <1>1, <1>2, <1>3, <1>4, <1>5, CommitPlaces, SavePlaces DEF GoOn, Reordering

(* Requests keep what they hold. *)
LEMMA PlacesOfRows ==
  ASSUME PlaceInv, PlanShape', PlacesStay, task' = task
  PROVE  PlaceInv' /\ MovesAsAsked
<1>1. PatchAlone(task')
  BY DEF PlaceInv
<1>2. \A s \in Requests : /\ task'[s].op = "patch" => CopyPlaced(plan', task'[s])
                          /\ task'[s].op = "reorder" => WroteAsked(task'[s])
  BY CopyStays DEF PlaceInv
<1>3. QED
  BY <1>1, <1>2, PlaceInvPrimed, StayingIsAsked

LEMMA PlaceStep ==
  ASSUME PlacesTakeTurns, PlaceInv, [PlanningNext]_planningVars
  PROVE  PlaceInv' /\ MovesAsAsked
<1>0. PlanShape /\ PlanShape'
  BY PlanShapeKept DEF PlaceInv
<1>1. ASSUME NEW r \in Requests, Request(r) \/ GoOn(r) \/ Abandon(r) PROVE PlaceInv' /\ MovesAsAsked
  BY <1>1, RequestPlaces, GoOnPlaces, StayingIsAsked
<1>2. ASSUME NEW d \in Plans, Create(d) PROVE PlaceInv' /\ MovesAsAsked
  <2>1. task' = task /\ plan[d].status = "ABSENT" /\ plan'[d].status \in StatusesOf(d)
        /\ \A x \in Plans \ {d} : plan'[x] = plan[x]
    BY <1>0, <1>2, CreatedRow
  <2>2. PlacesStay
    BY <2>1, StatusKinds DEF PlacesStay, There, Missing, Plans
  <2>3. QED
    BY <1>0, <2>1, <2>2, PlacesOfRows
<1>3. ASSUME NEW b \in Budgets, DropBudget(b) PROVE PlaceInv' /\ MovesAsAsked
  <2>1. b \in Plans \ Phases
    BY PlanningAssumption DEF Plans
  <2>2. task' = task /\ \A x \in Plans \ {b} : plan'[x] = plan[x]
    BY <1>0, <1>3, DroppedBudget
  <2>3. QED
    BY <1>0, <2>1, <2>2, PlacesUntouched, PlacesOfRows
<1>4. ASSUME NEW p \in Phases, DropPhase(p) PROVE PlaceInv' /\ MovesAsAsked
  <2>1. /\ task' = task /\ \A x \in Plans \ {p} : plan'[x] = plan[x]
        /\ plan'[p].status = "DELETED"
    BY <1>0, <1>4, DroppedPhase
  <2>2. PlacesStay
    BY <2>1 DEF PlacesStay, There, Missing, Plans
  <2>3. QED
    BY <1>0, <2>1, <2>2, PlacesOfRows
<1>5. ASSUME NEW i \in Items, DropItem(i) PROVE PlaceInv' /\ MovesAsAsked
  BY <1>0, <1>5, DroppedItem, SamePlaces, PlacesOfRows
<1>6. CASE UNCHANGED planningVars
  BY <1>0, <1>6, SamePlaces, PlacesOfRows DEF planningVars
<1>7. QED
  BY <1>1, <1>2, <1>3, <1>4, <1>5, <1>6 DEF PlanningNext

LEMMA PlaceInvAtFirst == PlanningInit => PlaceInv
<1> SUFFICES ASSUME PlanningInit PROVE PlaceInv
  OBVIOUS
<1>1. \A r \in Requests : task[r].op = "idle"
  BY NoTaskFits DEF PlanningInit
<1>2. QED
  BY <1>1, PlanShapeAtFirst DEF PlaceInv, PatchAlone

(* A phase moves only where a client asked for, and a list of phases is    *)
(* applied whole or not at all (PhaseViewSet.reorder), for any number of   *)
(* phases and requests, any lists and any number of reorders at once, if   *)
(* no save of a whole phase meets another one or a reorder.                *)
THEOREM PhasesMoveAsAsked == PlacesTakeTurns => (PlanningSpec => PlacesAsAsked)
<1> SUFFICES ASSUME PlacesTakeTurns PROVE PlanningSpec => PlacesAsAsked
  OBVIOUS
<1>1. PlaceInv /\ [PlanningNext]_planningVars => PlaceInv'
  BY PlaceStep
<1>2. PlaceInv /\ [PlanningNext]_planningVars =>
        [\A p \in Phases :
           Exists(p) /\ Exists(p)' /\ plan'[p].value # plan[p].value =>
             \E r \in Requests :
               /\ [phase |-> p, place |-> plan'[p].value] \in Wanted(r)
               /\ \A wish \in Wanted(r) :
                    [phase |-> wish.phase, place |-> plan'[wish.phase].value] \in Wanted(r)
        ]_planningVars
  BY PlaceStep DEF MovesAsAsked, Exists, There, Wanted, Asks, Place
<1>3. QED
  BY <1>1, <1>2, PlaceInvAtFirst, PTL DEF PlanningSpec, PlacesAsAsked
-----------------------------------------------------------------------------
(* What a budget's items have been allocated, as a sum over all items.     *)

AllocatedIn(lines, b, but) ==
  SumOf([i \in {x \in Items \ but : lines[x].budget = b} |-> lines[i].amount])
Share(lines, b, but) ==
  [i \in Items |-> IF i \notin but /\ lines[i].budget = b THEN lines[i].amount ELSE 0]

LEMMA AllocatedNow ==
  /\ \A b, but : Allocated(b, but) = AllocatedIn(item, b, but)
  /\ \A b, but : Allocated(b, but)' = AllocatedIn(item', b, but)
  BY DEF Allocated, AllocatedIn

LEMMA AmountsAreNatural ==
  ASSUME NEW lines \in [Items -> Item], NEW i \in Items
  PROVE  lines[i].amount \in Nat
  BY PlanningAssumption DEF Item, NoItem

LEMMA SharesAdded ==
  ASSUME NEW lines \in [Items -> Item], NEW b, NEW but
  PROVE  /\ Share(lines, b, but) \in [Items -> Nat]
         /\ AllocatedIn(lines, b, but) = SumOf(Share(lines, b, but))
         /\ AllocatedIn(lines, b, but) \in Nat
<1> DEFINE f == Share(lines, b, but)
           T == {x \in Items \ but : lines[x].budget = b}
<1>1. f \in [Items -> Nat]
  BY AmountsAreNatural DEF Share
<1>2. T \in SUBSET Items /\ \A x \in Items \ T : f[x] = 0
  BY DEF Share
<1>3. [x \in T |-> f[x]] = [x \in T |-> lines[x].amount]
  BY DEF Share
<1>4. SumOf([x \in T |-> f[x]]) = SumOf(f)
  <2> HIDE DEF f, T
  <2> QED
    BY <1>1, <1>2, SumOverPart
<1>5. IsFiniteSet(Items)
  BY PlanningAssumption
<1>6. QED
  BY <1>1, <1>3, <1>4, <1>5, SumIsNatural DEF AllocatedIn

LEMMA AllocatedLess ==
  ASSUME NEW lines \in [Items -> Item], NEW others \in [Items -> Item], NEW b, NEW but, NEW less,
         \A i \in Items : i \notin less /\ others[i].budget = b =>
           i \notin but /\ lines[i].budget = b /\ others[i].amount <= lines[i].amount
  PROVE  AllocatedIn(others, b, less) <= AllocatedIn(lines, b, but)
<1> DEFINE f == Share(lines, b, but)
           g == Share(others, b, less)
<1>1. f \in [Items -> Nat] /\ g \in [Items -> Nat]
  BY SharesAdded
<1>2. \A i \in Items : g[i] <= f[i]
  BY AmountsAreNatural DEF Share
<1>3. SumOf(g) <= SumOf(f)
  <2> HIDE DEF f, g
  <2> QED
    BY <1>1, <1>2, PlanningAssumption, SumIsMonotone
<1>4. QED
  BY <1>3, SharesAdded

(* An item written: the others, and its own amount.                        *)
LEMMA AllocatedWith ==
  ASSUME NEW lines \in [Items -> Item], NEW others \in [Items -> Item], NEW b, NEW i \in Items,
         others[i].budget = b, \A x \in Items \ {i} : others[x] = lines[x]
  PROVE  AllocatedIn(others, b, {}) = AllocatedIn(lines, b, {i}) + others[i].amount
<1> DEFINE f == Share(lines, b, {i})
           g == Share(others, b, {})
<1>1. f \in [Items -> Nat] /\ g \in [Items -> Nat]
  BY SharesAdded
<1>2. f[i] = 0 /\ g[i] = others[i].amount /\ others[i].amount \in Nat
  BY AmountsAreNatural DEF Share
<1>3. SameBut(i, f, g)
  BY <1>1 DEF SameBut, Share
<1>4. SumOf(g) = SumOf(f) + (g[i] - f[i])
  <2> HIDE DEF f, g
  <2> QED
    BY <1>1, <1>3, PlanningAssumption, SumAfterChange
<1>5. AllocatedIn(others, b, {}) = SumOf(g) /\ AllocatedIn(lines, b, {i}) = SumOf(f) /\ SumOf(f) \in Nat
  BY SharesAdded
<1>6. QED
  BY <1>2, <1>4, <1>5
-----------------------------------------------------------------------------
(* Budgets. *)

(* What the total of a budget is, or may become again: a request that      *)
(* saves the whole row brings the total it has read.                       *)
MayBe(rows, t, b, v) ==
  \/ There(rows, b) /\ v = rows[b].value
  \/ \E s \in Requests : t[s].op = "patch" /\ t[s].id = b /\ v = t[s].row.value

OneTotal(rows, t) == \A b \in Budgets : \A u, v \in Int : MayBe(rows, t, b, u) /\ MayBe(rows, t, b, v) => u = v
(* A budget without items may have been created with any total.            *)
InUse(lines, b) == \E i \in Items : lines[i].budget = b
AllFit(rows, t, lines) ==
  \A b \in Budgets : \A v \in Int :
    InUse(lines, b) /\ MayBe(rows, t, b, v) => AllocatedIn(lines, b, {}) <= v

(* The item a request is about to write still fits. *)
LineFits(rows, t, lines, j) ==
  \A v \in Int : MayBe(rows, t, j.line.budget, v) =>
    AllocatedIn(lines, j.line.budget, {j.id}) + j.line.amount <= v

ApartFromItems(t) ==
  \A r, s \in Requests : t[r].op \in ItemOps /\ t[s].op \in ItemOps \cup {"retotal"} => r = s
ApartFromTotals(t) == \A r, s \in Requests : t[r].op = "patch" => t[s].op # "retotal"

(* What items and requests refer to has been created. *)
Known(rows, t, lines) ==
  /\ \A i \in Items : lines[i].budget \in Budgets => rows[lines[i].budget].status # "ABSENT"
  /\ \A r \in Requests : t[r].op = "patch" => rows[t[r].id].status # "ABSENT"
  /\ \A r \in Requests : t[r].op \in ItemOps => rows[t[r].line.budget].status # "ABSENT"

TotalInv ==
  /\ PlanShape
  /\ ApartFromItems(task) /\ ApartFromTotals(task)
  /\ Known(plan, task, item)
  /\ OneTotal(plan, task) /\ AllFit(plan, task, item)
  /\ \A r \in Requests : task[r].op \in ItemOps => LineFits(plan, task, item, task[r])

LEMMA TotalInvPrimed ==
  ASSUME PlanShape', ApartFromItems(task'), ApartFromTotals(task'), Known(plan', task', item'),
         OneTotal(plan', task'), AllFit(plan', task', item'),
         \A r \in Requests : task'[r].op \in ItemOps => LineFits(plan', task', item', task'[r])
  PROVE  TotalInv'
  BY DEF TotalInv, ApartFromItems, ApartFromTotals, Known, OneTotal, AllFit, LineFits, MayBe,
         AllocatedIn, There, Missing, ItemOps

(* Nothing is born: what is there was there. *)
NoBirth(rows, next) == \A d \in Plans : rows[d].status # "ABSENT" => next[d].status # "ABSENT"

(* No new total, and nothing more allocated. *)
FewerTotals == \A b \in Budgets : \A v \in Int : MayBe(plan', task', b, v) => MayBe(plan, task, b, v)
NoMoreAllocated(lines, others) ==
  \A i \in Items : others[i] = lines[i] \/ others[i].budget \notin Budgets

LEMMA LessAllocated ==
  ASSUME NEW lines \in [Items -> Item], NEW others \in [Items -> Item], NoMoreAllocated(lines, others),
         NEW b \in Budgets, NEW but
  PROVE  AllocatedIn(others, b, but) <= AllocatedIn(lines, b, but)
<1>1. \A i \in Items : others[i].budget = b => others[i] = lines[i]
  BY DEF NoMoreAllocated
<1>2. \A i \in Items : others[i].amount \in Nat
  BY AmountsAreNatural
<1>3. QED
  BY <1>1, <1>2, AllocatedLess

(* What fits goes on fitting when nothing is added. *)
LEMMA FitsStay ==
  ASSUME TotalInv, FewerTotals, NoMoreAllocated(item, item'),
         item \in [Items -> Item], item' \in [Items -> Item]
  PROVE  /\ OneTotal(plan', task') /\ AllFit(plan', task', item')
         /\ \A s \in Requests :
              LineFits(plan, task, item, task'[s]) /\ task'[s].line.budget \in Budgets
                /\ task'[s].line.amount \in Nat => LineFits(plan', task', item', task'[s])
<1>1. OneTotal(plan', task')
  BY DEF TotalInv, OneTotal, FewerTotals
<1>2. AllFit(plan', task', item')
  <2>1. SUFFICES ASSUME NEW b \in Budgets, NEW v \in Int, InUse(item', b), MayBe(plan', task', b, v)
                 PROVE  AllocatedIn(item', b, {}) <= v
    BY DEF AllFit
  <2>0. InUse(item, b)
    BY <2>1 DEF InUse, NoMoreAllocated
  <2>2. AllocatedIn(item, b, {}) <= v
    BY <2>0, <2>1 DEF TotalInv, AllFit, FewerTotals
  <2>3. QED
    BY <2>2, LessAllocated, SharesAdded
<1>3. ASSUME NEW s \in Requests, LineFits(plan, task, item, task'[s]),
             task'[s].line.budget \in Budgets, task'[s].line.amount \in Nat
      PROVE  LineFits(plan', task', item', task'[s])
  <2> DEFINE b == task'[s].line.budget
             but == {task'[s].id}
  <2>1. SUFFICES ASSUME NEW v \in Int, MayBe(plan', task', b, v)
                 PROVE  AllocatedIn(item', b, but) + task'[s].line.amount <= v
    BY DEF LineFits
  <2>2. AllocatedIn(item, b, but) + task'[s].line.amount <= v
    BY <1>3, <2>1 DEF LineFits, FewerTotals
  <2>3. AllocatedIn(item', b, but) <= AllocatedIn(item, b, but)
    BY <1>3, LessAllocated
  <2>4. AllocatedIn(item', b, but) \in Nat /\ AllocatedIn(item, b, but) \in Nat
    BY SharesAdded
  <2> HIDE DEF b, but
  <2>5. QED
    BY <1>3, <2>2, <2>3, <2>4
<1>4. QED
  BY <1>1, <1>2, <1>3

(* A step of one request that makes no budget and no total new.            *)
LEMMA TotalsAfter ==
  ASSUME TotalInv, PlanShape', FewerTotals, NoBirth(plan, plan'), NoMoreAllocated(item, item'),
         NEW r \in Requests, NobodyElse(r),
         task'[r].op = "patch" =>
           /\ plan'[task'[r].id].status # "ABSENT"
           /\ task[r].op = "patch" \/ ~InProgress(task, {"retotal"}),
         task'[r].op \in ItemOps =>
           /\ plan'[task'[r].line.budget].status # "ABSENT"
           /\ ~InProgress(task, ItemOps \cup {"retotal"})
           /\ LineFits(plan, task, item, task'[r]),
         task'[r].op = "retotal" => task[r].op = "retotal" \/ ~InProgress(task, ItemOps \cup {"patch"})
  PROVE  TotalInv'
<1>1. /\ item \in [Items -> Item] /\ item' \in [Items -> Item] /\ PlanShape
      /\ \A s \in Requests : task[s] \in Task /\ TaskFits(task[s])
      /\ \A s \in Requests : task'[s] \in Task /\ TaskFits(task'[s])
  <2>1. item' \in [Items -> Item] /\ task' \in [Requests -> Task] /\ \A s \in Requests : TaskFits(task'[s])
    BY DEF PlanShape, PlanningTypeOK, TaskFits, RowOps, ItemOps, StatusesOf
  <2>2. QED
    BY <2>1, PlansTyped DEF TotalInv
<1>2. ApartFromItems(task')
  BY ZenonT(30) DEF TotalInv, ApartFromItems, NobodyElse, InProgress, ItemOps
<1>3. ApartFromTotals(task')
  BY DEF TotalInv, ApartFromTotals, NobodyElse, InProgress
<1>4. Known(plan', task', item')
  <2>1. \A i \in Items : item'[i].budget \in Budgets => plan'[item'[i].budget].status # "ABSENT"
    BY DEF TotalInv, Known, NoMoreAllocated, NoBirth, Plans
  <2>2. ASSUME NEW s \in Requests \ {r}
        PROVE  /\ task'[s].op = "patch" => plan'[task'[s].id].status # "ABSENT"
               /\ task'[s].op \in ItemOps => plan'[task'[s].line.budget].status # "ABSENT"
    <3>1. task'[s] = task[s] /\ TaskFits(task[s])
      BY <1>1 DEF NobodyElse
    <3>2. /\ task[s].op = "patch" => task[s].id \in Plans
          /\ task[s].op \in ItemOps => task[s].line.budget \in Plans
      BY <3>1 DEF TaskFits, RowOps, Plans
    <3>3. QED
      BY <3>1, <3>2 DEF TotalInv, Known, NoBirth
  <2>3. QED
    BY <2>1, <2>2 DEF Known
<1>5. /\ OneTotal(plan', task') /\ AllFit(plan', task', item')
      /\ \A s \in Requests :
           LineFits(plan, task, item, task'[s]) /\ task'[s].line.budget \in Budgets
             /\ task'[s].line.amount \in Nat => LineFits(plan', task', item', task'[s])
  BY <1>1, FitsStay
<1>6. ASSUME NEW s \in Requests, task'[s].op \in ItemOps PROVE LineFits(plan', task', item', task'[s])
  <2>1. LineFits(plan, task, item, task'[s])
    BY <1>6 DEF TotalInv, NobodyElse
  <2>2. task'[s].line.budget \in Budgets /\ task'[s].line.amount \in Nat
    BY <1>1, <1>6, PlanningAssumption DEF TaskFits
  <2>3. QED
    BY <1>5, <2>1, <2>2
<1>7. QED
  BY <1>2, <1>3, <1>4, <1>5, <1>6, TotalInvPrimed

(* Steps of no request. *)
LEMMA TotalsOfRows ==
  ASSUME TotalInv, PlanShape', task' = task, NoBirth(plan, plan'), NoMoreAllocated(item, item'),
         \A b \in Budgets : plan'[b] = plan[b] \/ ~There(plan', b)
  PROVE  TotalInv'
<1>1. /\ item \in [Items -> Item] /\ item' \in [Items -> Item]
      /\ \A s \in Requests : task[s] \in Task /\ TaskFits(task[s])
  <2>1. item' \in [Items -> Item]
    BY DEF PlanShape, PlanningTypeOK
  <2>2. QED
    BY <2>1, PlansTyped DEF TotalInv
<1>2. FewerTotals
  BY DEF FewerTotals, MayBe, There
<1>3. ApartFromItems(task') /\ ApartFromTotals(task')
  BY DEF TotalInv
<1>4. Known(plan', task', item')
  <2>1. \A i \in Items : item'[i].budget \in Budgets => plan'[item'[i].budget].status # "ABSENT"
    BY DEF TotalInv, Known, NoMoreAllocated, NoBirth, Plans
  <2>2. \A s \in Requests : /\ task[s].op = "patch" => task[s].id \in Plans
                            /\ task[s].op \in ItemOps => task[s].line.budget \in Plans
    BY <1>1 DEF TaskFits, RowOps, Plans
  <2>3. QED
    BY <2>1, <2>2 DEF TotalInv, Known, NoBirth
<1>5. /\ OneTotal(plan', task') /\ AllFit(plan', task', item')
      /\ \A s \in Requests :
           LineFits(plan, task, item, task'[s]) /\ task'[s].line.budget \in Budgets
             /\ task'[s].line.amount \in Nat => LineFits(plan', task', item', task'[s])
  BY <1>1, <1>2, FitsStay
<1>6. ASSUME NEW s \in Requests, task'[s].op \in ItemOps PROVE LineFits(plan', task', item', task'[s])
  <2>1. LineFits(plan, task, item, task'[s])
    BY <1>6 DEF TotalInv
  <2>2. task'[s].line.budget \in Budgets /\ task'[s].line.amount \in Nat
    BY <1>1, <1>6, PlanningAssumption DEF TaskFits
  <2>3. QED
    BY <1>5, <2>1, <2>2
<1>7. QED
  BY <1>3, <1>4, <1>5, <1>6, TotalInvPrimed

LEMMA StayIsNoBirth ==
  ASSUME PlanShape, StatusesStay
  PROVE  NoBirth(plan, plan')
  BY StatusKinds DEF StatusesStay, NoBirth, Missing

LEMMA FewerTotalsOf ==
  ASSUME NEW r \in Requests, NobodyElse(r),
         \A b \in Budgets : There(plan', b) => MayBe(plan, task, b, plan'[b].value),
         task'[r].op = "patch" /\ task'[r].id \in Budgets =>
           MayBe(plan, task, task'[r].id, task'[r].row.value)
  PROVE  FewerTotals
<1>1. SUFFICES ASSUME NEW b \in Budgets, NEW v \in Int, MayBe(plan', task', b, v)
               PROVE  MayBe(plan, task, b, v)
  BY DEF FewerTotals
<1>2. CASE There(plan', b) /\ v = plan'[b].value
  BY <1>2
<1>3. ASSUME NEW s \in Requests, task'[s].op = "patch", task'[s].id = b, v = task'[s].row.value
      PROVE  MayBe(plan, task, b, v)
  <2>1. CASE s = r
    BY <1>3, <2>1
  <2>2. CASE s # r
    <3>1. task'[s] = task[s]
      BY <2>2 DEF NobodyElse
    <3>2. QED
      BY <1>3, <3>1 DEF MayBe
  <2>3. QED
    BY <2>1, <2>2
<1>4. QED
  BY <1>1, <1>2, <1>3 DEF MayBe

LEMMA TotalsAtEnd ==
  ASSUME TotalInv, PlanShape', NoBirth(plan, plan'), NoMoreAllocated(item, item'),
         NEW r \in Requests, Finish(r),
         \A b \in Budgets : There(plan', b) => MayBe(plan, task, b, plan'[b].value)
  PROVE  TotalInv'
<1>1. task'[r] = NoTask /\ NobodyElse(r)
  BY PlansTyped, Finished DEF TotalInv, NobodyElse
<1>2. task'[r].op = "idle"
  BY <1>1, NoTaskFits
<1>3. FewerTotals
  BY <1>1, <1>2, FewerTotalsOf
<1>4. QED
  BY <1>1, <1>2, <1>3, TotalsAfter DEF ItemOps

LEMMA SameTotals ==
  ASSUME \A b \in Budgets : plan'[b] = plan[b]
  PROVE  \A b \in Budgets : There(plan', b) => MayBe(plan, task, b, plan'[b].value)
  BY DEF MayBe, There

LEMMA RequestTotals ==
  ASSUME BudgetsTakeTurns, TotalInv, NEW r \in Requests, Request(r)
  PROVE  TotalInv'
<1>0. PlanShape /\ NoBirth(plan, plan')
  BY StayInRequest, StayIsNoBirth DEF TotalInv
<1>1. ASSUME NEW d \in Plans, NEW op \in workload, Read(r, d, op) PROVE TotalInv'
  <2>1. /\ PlanShape' /\ op \in RowOps /\ Exists(d)
        /\ task'[r].op = op /\ task'[r].id = d /\ task'[r].row = plan[d] /\ NobodyElse(r)
        /\ \A s \in Requests : task[s] = NoTask \/ {op, task[s].op} \in Meetings
        /\ plan' = plan /\ item' = item
    BY <1>0, <1>1, ReadKeepsShape DEF NobodyElse
  <2>2. There(plan, d) /\ plan[d].status # "ABSENT"
    BY <2>1 DEF Exists, There, Missing
  <2>3. op = "patch" => ~InProgress(task, {"retotal"})
    BY <2>1, NoTaskFits DEF InProgress, BudgetsTakeTurns
  <2>4. op = "retotal" => ~InProgress(task, ItemOps \cup {"patch"})
    <3>1. \A a \in ItemOps \cup {"patch"} : {"retotal", a} \notin Meetings
      <4>1. \A a : {"retotal", a} = {a, "retotal"}
        OBVIOUS
      <4>2. QED
        BY <4>1 DEF BudgetsTakeTurns
    <3>2. QED
      BY <2>1, <3>1, NoTaskFits DEF InProgress, ItemOps
  <2>5. FewerTotals
    BY <2>1, <2>2, SameTotals, FewerTotalsOf DEF MayBe
  <2>6. op \notin ItemOps
    BY <2>1 DEF RowOps, ItemOps
  <2>7. NoMoreAllocated(item, item')
    BY <2>1 DEF NoMoreAllocated
  <2>8. QED
    BY <1>0, <2>1, <2>2, <2>3, <2>4, <2>5, <2>6, <2>7, TotalsAfter
<1>2. ASSUME NEW i \in Items, NEW b \in Budgets, CheckItem(r, i, b) \/ CheckEdit(r, i, b) PROVE TotalInv'
  <2>1. /\ PlanShape' /\ Exists(b) /\ task'[r].op \in ItemOps /\ NobodyElse(r)
        /\ task'[r].id = i /\ task'[r].line.budget = b /\ task'[r].line.amount \in 0..MaxValue
        /\ Fits(b, i, task'[r].line.amount)
        /\ \A s \in Requests : task[s] = NoTask \/ {task'[r].op, task[s].op} \in Meetings
        /\ plan' = plan /\ item' = item
    BY <1>0, <1>2, CheckKeepsShape DEF NobodyElse
  <2>2. There(plan, b) /\ plan[b].status # "ABSENT" /\ plan[b].value \in Int
    BY <1>0, <2>1, PlansTyped DEF Exists, There, Missing, Plans
  <2>3. ~InProgress(task, ItemOps \cup {"retotal"})
    BY <2>1, NoTaskFits DEF InProgress, BudgetsTakeTurns, ItemOps
  <2>4. task'[r].op # "patch" /\ task'[r].op # "retotal"
    BY <2>1 DEF ItemOps
  <2>5. FewerTotals
    BY <2>1, <2>4, SameTotals, FewerTotalsOf
  <2>6. AllocatedIn(item, b, {i}) + task'[r].line.amount <= plan[b].value
    BY <2>1, AllocatedNow DEF Fits
  <2>7. \A v \in Int : MayBe(plan, task, b, v) => v = plan[b].value
    BY <2>2 DEF TotalInv, OneTotal, MayBe
  <2>8. LineFits(plan, task, item, task'[r])
    BY <2>1, <2>6, <2>7 DEF LineFits
  <2>9. NoMoreAllocated(item, item')
    BY <2>1 DEF NoMoreAllocated
  <2>10. QED
    BY <1>0, <2>1, <2>2, <2>3, <2>4, <2>5, <2>8, <2>9, TotalsAfter
<1>3. ASSUME BeginReorder(r) PROVE TotalInv'
  <2>1. PlanShape' /\ task'[r].op = "reorder" /\ NobodyElse(r) /\ plan' = plan /\ item' = item
    BY <1>0, <1>3, ReorderKeepsShape DEF NobodyElse
  <2>2. FewerTotals /\ NoMoreAllocated(item, item')
    BY <2>1, SameTotals, FewerTotalsOf DEF NoMoreAllocated
  <2>3. QED
    BY <1>0, <2>1, <2>2, TotalsAfter DEF ItemOps
<1>4. QED
  BY <1>1, <1>2, <1>3 DEF Request

LEMMA SaveItemTotals ==
  ASSUME TotalInv, NEW r \in Requests, SaveItem(r)
  PROVE  TotalInv'
<1> DEFINE i == task[r].id
           b == task[r].line.budget
<1>0. /\ PlanShape /\ item \in [Items -> Item] /\ item' \in [Items -> Item]
  <2>1. PlanShape' /\ PlanShape
    BY SavedItem DEF TotalInv
  <2>2. QED
    BY <2>1 DEF PlanShape, PlanningTypeOK
<1>1. /\ PlanShape' /\ task[r].op \in ItemOps /\ i \in Items /\ b \in Budgets
      /\ item'[i] = task[r].line /\ \A x \in Items \ {i} : item'[x] = item[x]
      /\ Finish(r) /\ plan' = plan /\ Exists(b)
  BY <1>0, SavedItem
<1>2. task'[r] = NoTask /\ task'[r].op = "idle" /\ NobodyElse(r)
  BY <1>0, <1>1, PlansTyped, Finished, NoTaskFits DEF NobodyElse
<1>3. FewerTotals
  BY <1>1, <1>2, SameTotals, FewerTotalsOf
<1>4. \A s \in Requests : task'[s].op \notin ItemOps
  BY <1>1, <1>2 DEF TotalInv, ApartFromItems, NobodyElse, ItemOps
<1>5. ApartFromItems(task') /\ ApartFromTotals(task')
  BY <1>2, <1>4 DEF TotalInv, ApartFromItems, ApartFromTotals, NobodyElse
<1>6. Known(plan', task', item')
  BY <1>1, <1>2, <1>4 DEF TotalInv, Known, NobodyElse, Exists, Missing
<1>7. OneTotal(plan', task')
  BY <1>3 DEF TotalInv, OneTotal, FewerTotals
<1>8. AllFit(plan', task', item')
  <2>1. SUFFICES ASSUME NEW x \in Budgets, NEW v \in Int, InUse(item', x), MayBe(plan', task', x, v)
                 PROVE  AllocatedIn(item', x, {}) <= v
    BY DEF AllFit
  <2>2. MayBe(plan, task, x, v)
    BY <1>3, <2>1 DEF FewerTotals
  <2>3. CASE x = b
    <3>1. AllocatedIn(item', x, {}) = AllocatedIn(item, x, {i}) + item'[i].amount
      BY <1>0, <1>1, <2>3, AllocatedWith
    <3>2. AllocatedIn(item, b, {i}) + task[r].line.amount <= v
      BY <1>1, <2>2, <2>3 DEF TotalInv, LineFits
    <3>3. QED
      BY <1>1, <2>3, <3>1, <3>2
  <2>4. CASE x # b
    <3>1. \A y \in Items : item'[y].budget = x => item'[y] = item[y]
      BY <1>1, <2>4
    <3>2. AllocatedIn(item', x, {}) <= AllocatedIn(item, x, {})
      BY <1>0, <3>1, AmountsAreNatural, AllocatedLess
    <3>3. AllocatedIn(item, x, {}) <= v
      BY <2>1, <2>2, <3>1 DEF TotalInv, AllFit, InUse
    <3>4. QED
      BY <1>0, <3>2, <3>3, SharesAdded
  <2>5. QED
    BY <2>3, <2>4
<1>9. QED
  BY <1>1, <1>4, <1>5, <1>6, <1>7, <1>8, TotalInvPrimed

LEMMA ChangeTotals ==
  ASSUME TotalInv, NEW r \in Requests, ChangeTotal(r)
  PROVE  TotalInv'
<1> DEFINE b == task[r].id
<1>0. PlanShape
  BY DEF TotalInv
<1>1. /\ PlanShape' /\ task[r].op = "retotal" /\ b \in Budgets /\ b \in Plans
      /\ plan'[b].status = task[r].row.status /\ plan'[b].value \in Int
      /\ Covers(b, plan'[b].value)
      /\ \A x \in Plans \ {b} : plan'[x] = plan[x]
      /\ Finish(r) /\ item' = item
  BY <1>0, ChangedTotal DEF Plans
<1>2. plan'[b].status # "ABSENT"
  BY <1>0, <1>1, PlansTyped, StatusKinds DEF TaskFits, RowOps, Missing
<1>3. task'[r].op = "idle" /\ NobodyElse(r)
  BY <1>0, <1>1, PlansTyped, Finished, NoTaskFits DEF NobodyElse
<1>4. \A s \in Requests : task'[s].op \notin ItemOps /\ task'[s].op # "patch"
  <2>1. \A s \in Requests : task[s].op \in ItemOps => s = r
    BY <1>1 DEF TotalInv, ApartFromItems
  <2>2. QED
    BY <1>1, <1>3, <2>1 DEF TotalInv, ApartFromTotals, NobodyElse, ItemOps
<1>5. ApartFromItems(task') /\ ApartFromTotals(task')
  BY <1>4 DEF ApartFromItems, ApartFromTotals
<1>6. Known(plan', task', item')
  BY <1>1, <1>2, <1>4 DEF TotalInv, Known, Plans
<1>7. \A x \in Budgets : \A v \in Int : MayBe(plan', task', x, v) => v = plan'[x].value
  BY <1>4 DEF MayBe
<1>8. OneTotal(plan', task')
  BY <1>7 DEF OneTotal
<1>9. AllFit(plan', task', item')
  <2>1. SUFFICES ASSUME NEW x \in Budgets, NEW v \in Int, InUse(item, x), MayBe(plan', task', x, v)
                 PROVE  AllocatedIn(item, x, {}) <= v
    BY <1>1 DEF AllFit
  <2>2. CASE x = b
    <3>1. plan'[b].value >= AllocatedIn(item, b, {})
      BY <1>1, AllocatedNow DEF Covers
    <3>2. AllocatedIn(item, b, {}) \in Nat
      BY <1>0, PlansTyped, SharesAdded
    <3>3. QED
      BY <1>1, <1>7, <2>1, <2>2, <3>1, <3>2
  <2>3. CASE x # b
    <3>1. MayBe(plan, task, x, v)
      BY <1>1, <1>4, <2>1, <2>3 DEF MayBe, There, Plans
    <3>2. QED
      BY <2>1, <3>1 DEF TotalInv, AllFit
  <2>4. QED
    BY <2>2, <2>3
<1>10. QED
  BY <1>1, <1>4, <1>5, <1>6, <1>8, <1>9, TotalInvPrimed

LEMMA GoOnTotals ==
  ASSUME TotalInv, NEW r \in Requests, GoOn(r) \/ Abandon(r)
  PROVE  TotalInv'
<1>0. PlanShape
  BY DEF TotalInv
<1>1. CASE MissPhase(r) \/ BreakDeadlock(r) \/ Abandon(r)
  <2>1. PlanShape' /\ Finish(r) /\ plan' = plan /\ item' = item
    BY <1>0, <1>1, EndedWithout
  <2>2. NoBirth(plan, plan') /\ NoMoreAllocated(item, item')
    BY <2>1 DEF NoBirth, NoMoreAllocated
  <2>3. QED
    BY <2>1, <2>2, SameTotals, TotalsAtEnd
<1>2. CASE Archive(r)
  <2>1. /\ PlanShape' /\ Finish(r) /\ task[r].id \in Projects /\ item' = item
        /\ \A x \in Plans \ {task[r].id} : plan'[x] = plan[x]
    BY <1>0, <1>2, Archived
  <2>2. (\A b \in Budgets : plan'[b] = plan[b]) /\ NoMoreAllocated(item, item')
    BY <2>1, PlanningAssumption DEF Plans, NoMoreAllocated
  <2>3. NoBirth(plan, plan')
    BY <1>0, <1>2, StayInRequest, StayIsNoBirth
  <2>4. QED
    BY <2>1, <2>2, <2>3, SameTotals, TotalsAtEnd
<1>3. CASE CommitOrder(r)
  <2>1. /\ PlanShape' /\ Finish(r) /\ Locked(r) \in SUBSET Phases /\ item' = item
        /\ \A x \in Plans \ Locked(r) : plan'[x] = plan[x]
    BY <1>0, <1>3, Committed DEF Locked
  <2>2. (\A b \in Budgets : plan'[b] = plan[b]) /\ NoMoreAllocated(item, item')
    BY <2>1, PlanningAssumption DEF Plans, NoMoreAllocated
  <2>3. NoBirth(plan, plan')
    BY <1>0, <1>3, StayInRequest, StayIsNoBirth
  <2>4. QED
    BY <2>1, <2>2, <2>3, SameTotals, TotalsAtEnd
<1>4. CASE SavePlan(r)
  <2>1. /\ PlanShape' /\ Finish(r) /\ task[r].op = "patch" /\ task[r].id \in Plans /\ item' = item
        /\ plan'[task[r].id] = task[r].row /\ \A x \in Plans \ {task[r].id} : plan'[x] = plan[x]
    BY <1>0, <1>4, SavedPlan
  <2>2. NoBirth(plan, plan')
    BY <1>0, <2>1, PlansTyped, StatusKinds DEF TaskFits, RowOps, NoBirth, Missing
  <2>3. \A b \in Budgets : There(plan', b) => MayBe(plan, task, b, plan'[b].value)
    BY <2>1 DEF MayBe, There, Plans
  <2>4. QED
    BY <2>1, <2>2, <2>3, TotalsAtEnd DEF NoMoreAllocated
<1>5. CASE Validate(r)
  <2>1. /\ PlanShape' /\ task[r].op \in {"patch", "retotal"}
        /\ task'[r].op = task[r].op /\ task'[r].id = task[r].id
        /\ task[r].id \notin Phases => task'[r].row.value = task[r].row.value
        /\ NobodyElse(r) /\ plan' = plan /\ item' = item
    BY <1>0, <1>5, ValidateKeepsShape DEF NobodyElse
  <2>2. FewerTotals /\ NoMoreAllocated(item, item') /\ NoBirth(plan, plan')
    <3>1. task'[r].op = "patch" /\ task'[r].id \in Budgets =>
            MayBe(plan, task, task'[r].id, task'[r].row.value)
      BY <2>1, PlanningAssumption DEF MayBe
    <3>2. QED
      BY <2>1, <3>1, SameTotals, FewerTotalsOf DEF NoMoreAllocated, NoBirth
  <2>3. task'[r].op = "patch" => plan'[task'[r].id].status # "ABSENT"
    BY <2>1 DEF TotalInv, Known
  <2>4. QED
    BY <2>1, <2>2, <2>3, TotalsAfter DEF ItemOps
<1>6. CASE LockPhase(r)
  <2>1. /\ PlanShape' /\ task[r].op = "reorder" /\ task'[r].op = "reorder"
        /\ NobodyElse(r) /\ plan' = plan /\ item' = item
    BY <1>0, <1>6, LockedOne DEF NobodyElse
  <2>2. FewerTotals /\ NoMoreAllocated(item, item') /\ NoBirth(plan, plan')
    BY <2>1, SameTotals, FewerTotalsOf DEF NoMoreAllocated, NoBirth
  <2>3. QED
    BY <2>1, <2>2, TotalsAfter DEF ItemOps
<1>7. QED
  BY <1>1, <1>2, <1>3, <1>4, <1>5, <1>6, SaveItemTotals, ChangeTotals DEF GoOn, Reordering

LEMMA NewBudgetTotal ==
  ASSUME TotalInv, NEW b \in Budgets, Create(b)
  PROVE  TotalInv'
<1>0. PlanShape /\ b \in Plans
  BY DEF TotalInv, Plans
<1>1. /\ PlanShape' /\ plan[b].status = "ABSENT" /\ plan'[b].status \in StatusesOf(b) /\ plan'[b].value \in Int
      /\ \A x \in Plans \ {b} : plan'[x] = plan[x]
      /\ item' = item /\ task' = task
  BY <1>0, CreatedRow
<1>2. /\ \A i \in Items : item[i].budget # b
      /\ \A s \in Requests : task[s].op = "patch" => task[s].id # b
      /\ \A s \in Requests : task[s].op \in ItemOps => task[s].line.budget # b
  BY <1>1 DEF TotalInv, Known
<1>3. NoBirth(plan, plan')
  BY <1>1 DEF NoBirth
<1>4. \A s \in Requests : /\ task[s].op = "patch" => task[s].id \in Plans
                          /\ task[s].op \in ItemOps => task[s].line.budget \in Budgets
  BY <1>0, PlansTyped DEF TaskFits, RowOps
<1>5. Known(plan', task', item')
  BY <1>1, <1>2, <1>3, <1>4 DEF TotalInv, Known, NoBirth, Plans
<1>6. /\ \A v \in Int : MayBe(plan', task', b, v) => v = plan'[b].value
      /\ \A x \in Budgets \ {b} : \A v \in Int : MayBe(plan', task', x, v) => MayBe(plan, task, x, v)
  BY <1>1, <1>2 DEF MayBe, There, Plans
<1>7. OneTotal(plan', task')
  <2>1. SUFFICES ASSUME NEW x \in Budgets, NEW u \in Int, NEW v \in Int,
                        MayBe(plan', task', x, u), MayBe(plan', task', x, v)
                 PROVE  u = v
    BY DEF OneTotal
  <2>2. QED
    BY <1>6, <2>1 DEF TotalInv, OneTotal
<1>8. ~InUse(item, b)
  BY <1>2 DEF InUse
<1>9. AllFit(plan', task', item')
  BY <1>1, <1>6, <1>8 DEF TotalInv, AllFit
<1>10. \A s \in Requests : task'[s].op \in ItemOps => LineFits(plan', task', item', task'[s])
  BY <1>1, <1>2, <1>4, <1>6 DEF TotalInv, LineFits
<1>11. ApartFromItems(task') /\ ApartFromTotals(task')
  BY <1>1 DEF TotalInv
<1>12. QED
  BY <1>1, <1>5, <1>7, <1>9, <1>10, <1>11, TotalInvPrimed

LEMMA TotalStep ==
  ASSUME BudgetsTakeTurns, TotalInv, [PlanningNext]_planningVars
  PROVE  TotalInv'
<1>0. PlanShape /\ PlanShape'
  BY PlanShapeKept DEF TotalInv
<1>1. ASSUME NEW r \in Requests, Request(r) \/ GoOn(r) \/ Abandon(r) PROVE TotalInv'
  BY <1>1, RequestTotals, GoOnTotals
<1>2. ASSUME NEW d \in Plans, Create(d) PROVE TotalInv'
  <2>1. CASE d \in Budgets
    BY <1>2, <2>1, NewBudgetTotal
  <2>2. CASE d \notin Budgets
    <3>1. task' = task /\ item' = item /\ \A x \in Plans \ {d} : plan'[x] = plan[x]
      BY <1>0, <1>2, CreatedRow
    <3>2. NoBirth(plan, plan') /\ NoMoreAllocated(item, item')
      BY <1>0, <1>2, <3>1, StayElsewhere, StayIsNoBirth DEF NoMoreAllocated
    <3>3. \A b \in Budgets : plan'[b] = plan[b]
      BY <2>2, <3>1 DEF Plans
    <3>4. QED
      BY <1>0, <3>1, <3>2, <3>3, TotalsOfRows
  <2>3. QED
    BY <2>1, <2>2
<1>3. ASSUME NEW b \in Budgets, DropBudget(b) PROVE TotalInv'
  <2>1. /\ task' = task /\ plan'[b].status = "DELETED" /\ \A x \in Plans \ {b} : plan'[x] = plan[x]
        /\ \A i \in Items : item'[i] = IF item[i].budget = b THEN NoItem ELSE item[i]
    BY <1>0, <1>3, DroppedBudget
  <2>2. NoMoreAllocated(item, item')
    BY <2>1, PlanningAssumption DEF NoMoreAllocated, NoItem, Plans
  <2>3. \A x \in Budgets : plan'[x] = plan[x] \/ ~There(plan', x)
    BY <2>1 DEF There, Missing, Plans
  <2>4. NoBirth(plan, plan')
    BY <1>0, <1>3, StayElsewhere, StayIsNoBirth
  <2>5. QED
    BY <1>0, <2>1, <2>2, <2>3, <2>4, TotalsOfRows
<1>4. ASSUME NEW p \in Phases, DropPhase(p) PROVE TotalInv'
  <2>1. task' = task /\ item' = item /\ \A x \in Plans \ {p} : plan'[x] = plan[x]
    BY <1>0, <1>4, DroppedPhase
  <2>2. NoMoreAllocated(item, item') /\ \A x \in Budgets : plan'[x] = plan[x]
    BY <2>1, PlanningAssumption DEF NoMoreAllocated, Plans
  <2>3. NoBirth(plan, plan')
    BY <1>0, <1>4, StayElsewhere, StayIsNoBirth
  <2>4. QED
    BY <1>0, <2>1, <2>2, <2>3, TotalsOfRows
<1>5. ASSUME NEW i \in Items, DropItem(i) PROVE TotalInv'
  <2>1. /\ task' = task /\ plan' = plan
        /\ item'[i] = NoItem /\ \A x \in Items \ {i} : item'[x] = item[x]
    BY <1>0, <1>5, DroppedItem
  <2>2. NoMoreAllocated(item, item') /\ NoBirth(plan, plan')
    BY <2>1, PlanningAssumption DEF NoMoreAllocated, NoItem, Plans, NoBirth
  <2>3. QED
    BY <1>0, <2>1, <2>2, TotalsOfRows
<1>6. CASE UNCHANGED planningVars
  <2>1. task' = task /\ plan' = plan /\ NoMoreAllocated(item, item') /\ NoBirth(plan, plan')
    BY <1>6 DEF planningVars, NoMoreAllocated, NoBirth
  <2>2. QED
    BY <1>0, <2>1, TotalsOfRows
<1>7. QED
  BY <1>1, <1>2, <1>3, <1>4, <1>5, <1>6 DEF PlanningNext

LEMMA TotalInvAtFirst == PlanningInit => TotalInv
<1> SUFFICES ASSUME PlanningInit PROVE TotalInv
  OBVIOUS
<1>1. \A r \in Requests : task[r].op = "idle"
  BY NoTaskFits DEF PlanningInit
<1>2. \A b \in Budgets : ~There(plan, b)
  BY DEF PlanningInit, There, NoPlan, Missing, Plans
<1>3. \A b \in Budgets : \A v \in Int : ~MayBe(plan, task, b, v)
  BY <1>1, <1>2 DEF MayBe
<1>4. \A i \in Items : item[i].budget \notin Budgets
  BY PlanningAssumption DEF PlanningInit, NoItem, Plans
<1>5. QED
  BY <1>1, <1>3, <1>4, PlanShapeAtFirst
     DEF TotalInv, ApartFromItems, ApartFromTotals, Known, OneTotal, AllFit, ItemOps

(* The items of a budget fit its total (BudgetItemSerializer.validate),     *)
(* for any number of budgets, items and requests, if validations of items   *)
(* meet neither one another nor a change of the total, and a save of the    *)
(* whole budget meets no such change; deletions may meet anything.          *)
THEOREM ItemsFitTotal == BudgetsTakeTurns => (PlanningSpec => []WithinTotal)
<1> SUFFICES ASSUME BudgetsTakeTurns PROVE PlanningSpec => []WithinTotal
  OBVIOUS
<1>1. TotalInv /\ [PlanningNext]_planningVars => TotalInv'
  BY TotalStep
<1>2. TotalInv => WithinTotal
  <2>1. SUFFICES ASSUME TotalInv, NEW b \in Budgets, Exists(b), Used(b) PROVE Unallocated(b) >= 0
    BY DEF WithinTotal
  <2>2. plan[b].value \in Int /\ item \in [Items -> Item]
    BY <2>1, PlansTyped DEF TotalInv, Plans
  <2>3. AllocatedIn(item, b, {}) <= plan[b].value /\ AllocatedIn(item, b, {}) \in Nat
    BY <2>1, <2>2, SharesAdded DEF TotalInv, AllFit, InUse, Used, MayBe, Exists, There
  <2>4. QED
    BY <2>2, <2>3, AllocatedNow DEF Unallocated
<1>3. QED
  BY <1>1, <1>2, TotalInvAtFirst, PTL DEF PlanningSpec
-----------------------------------------------------------------------------
(* Documents. *)

Uploading == {"uploader", "bucket", "store", "save"}

JobsOK ==
  \A w \in Workers :
    /\ job[w].pc # "idle" => job[w].doc \in Docs
    /\ job[w].pc \in {"save", "remove", "drop", "patch"} => job[w].file \in File

RowsOK == \A d \in Docs : row[d].there => row[d].file \in File

Shape == TypeOK /\ JobsOK /\ RowsOK
-----------------------------------------------------------------------------
LEMMA Steps ==
  /\ Order[1] = "uploader" /\ After("uploader") = "bucket"
  /\ After("bucket") = "store" /\ After("store") = "save"
<1>1. Order[1] = "uploader" /\ Order[2] = "bucket" /\ Order[3] = "store" /\ Order[4] = "save"
  BY DEF Order
<1>2. (CHOOSE n \in 1..3 : Order[n] = "uploader") = 1
  BY <1>1
<1>3. (CHOOSE n \in 1..3 : Order[n] = "bucket") = 2
  BY <1>1
<1>4. (CHOOSE n \in 1..3 : Order[n] = "store") = 3
  BY <1>1
<1>5. QED
  BY <1>1, <1>2, <1>3, <1>4 DEF After

LEMMA Constants == Idle \in Job /\ NoRow \in Row /\ NoFile \notin File /\ Legacy(NoFile)
  BY DocumentsAssumption DEF Idle, Job, NoRow, Row, NoFile, File, Legacy

LEMMA JobFields ==
  ASSUME NEW j \in Job
  PROVE  /\ j.doc \in Docs \cup {"none"} /\ j.session \in Sessions \cup {"none"}
         /\ j.file \in File \cup {NoFile}
  BY DEF Job

LEMMA Moved ==
  ASSUME NEW j \in Job, NEW pc \in {"uploader", "bucket", "store", "save", "remove", "drop", "patch"}
  PROVE  [j EXCEPT !.pc = pc] \in Job
  BY DEF Job

LEMMA WithFile ==
  ASSUME NEW j \in Job, NEW pc \in {"save", "remove", "patch"}, NEW file \in File
  PROVE  [j EXCEPT !.pc = pc, !.file = file] \in Job
  BY DEF Job

(* A worker goes on to the next step of its request. *)
LEMMA WentOn ==
  ASSUME Shape, NEW w \in Workers,
         NEW pc \in {"uploader", "bucket", "store", "save", "remove", "drop", "patch"},
         Goto(w, pc)
  PROVE  /\ job' \in [Workers -> Job]
         /\ job'[w].pc = pc /\ job'[w].doc = job[w].doc /\ job'[w].file = job[w].file
         /\ \A v \in Workers \ {w} : job'[v] = job[v]
<1>1. job[w] \in Job
  BY DEF Shape, TypeOK
<1>2. [job[w] EXCEPT !.pc = pc] \in Job
  BY <1>1, Moved
<1>3. job' \in [Workers -> Job] /\ job'[w] = [job[w] EXCEPT !.pc = pc]
  BY <1>2 DEF Goto, Shape, TypeOK
<1>4. QED
  BY <1>1, <1>3 DEF Goto, Job, Shape, TypeOK

(* A worker holds a file, of a row it read or one it stored. *)
LEMMA TookFile ==
  ASSUME Shape, NEW w \in Workers, NEW pc \in {"save", "remove", "patch"}, NEW file \in File,
         job' = [job EXCEPT ![w].pc = pc, ![w].file = file]
  PROVE  /\ job' \in [Workers -> Job]
         /\ job'[w].pc = pc /\ job'[w].doc = job[w].doc /\ job'[w].file = file
         /\ \A v \in Workers \ {w} : job'[v] = job[v]
<1>1. job[w] \in Job
  BY DEF Shape, TypeOK
<1>2. [job[w] EXCEPT !.pc = pc, !.file = file] \in Job
  BY <1>1, WithFile
<1>3. job' \in [Workers -> Job] /\ job'[w] = [job[w] EXCEPT !.pc = pc, !.file = file]
  BY <1>2 DEF Shape, TypeOK
<1>4. QED
  BY <1>1, <1>3 DEF Job, Shape, TypeOK

LEMMA Ended ==
  ASSUME Shape, NEW w \in Workers, Done(w)
  PROVE  /\ job' \in [Workers -> Job]
         /\ job'[w] = Idle /\ job'[w].pc = "idle"
         /\ \A v \in Workers \ {w} : job'[v] = job[v]
  BY Constants DEF Done, Shape, TypeOK, Idle

LEMMA Counting ==
  ASSUME Shape, NEW answer \in Answers, Counted(answer)
  PROVE  /\ answer.effect \in BOOLEAN /\ answer.answered \in BOOLEAN
         /\ answer.answered => answer.effect
         /\ mishaps' \in 0..MaxMishaps
         /\ mishaps' = 0 => mishaps = 0 /\ answer.effect /\ answer.answered
<1>1. mishaps \in 0..MaxMishaps /\ MaxMishaps \in Nat
  BY DocumentsAssumption DEF Shape, TypeOK
<1>2. CASE answer = [effect |-> TRUE, answered |-> TRUE]
  BY <1>1, <1>2 DEF Counted
<1>3. CASE answer \in [effect : IF mishaps < MaxMishaps THEN BOOLEAN ELSE {}, answered : {FALSE}]
  <2>1. mishaps < MaxMishaps
    BY <1>3
  <2>2. answer \in [effect : BOOLEAN, answered : {FALSE}]
    BY <1>3, <2>1
  <2>3. answer.effect \in BOOLEAN /\ ~answer.answered /\ answer.answered \in BOOLEAN
    BY <2>2
  <2>4. mishaps' = mishaps + 1
    BY <2>3 DEF Counted
  <2>5. QED
    BY <1>1, <2>1, <2>3, <2>4
<1>4. QED
  BY <1>2, <1>3 DEF Answers

(* Requests that have read, or are about to save, a row. *)
LEMMA FetchedFile ==
  ASSUME Shape, NEW w \in Workers, NEW pc \in {"remove", "patch"}, Fetch(w, pc)
  PROVE  /\ job[w].pc = "idle"
         /\ \E d \in Docs :
              /\ row[d].there
              /\ job' \in [Workers -> Job]
              /\ job'[w].pc = pc /\ job'[w].doc = d /\ job'[w].file = row[d].file
              /\ asked' = IF pc = "remove" THEN asked \cup {d} ELSE asked
              /\ \A v \in Workers \ {w} : job'[v] = job[v]
<1>1. PICK d \in Docs :
        /\ row[d].there
        /\ job' = [job EXCEPT ![w].pc = pc, ![w].doc = d, ![w].file = row[d].file]
        /\ asked' = IF pc = "remove" THEN asked \cup {d} ELSE asked
  BY DEF Fetch
<1>2. row[d].file \in File
  BY <1>1 DEF Shape, RowsOK
<1>3. ASSUME NEW file \in File
      PROVE  [job[w] EXCEPT !.pc = pc, !.doc = d, !.file = file] \in Job
  BY DEF Shape, TypeOK, Job
<1>4. job[w] \in Job /\ job[w] = Idle
  BY DEF Shape, TypeOK, Fetch
<1>5. /\ job' \in [Workers -> Job]
      /\ job'[w] = [job[w] EXCEPT !.pc = pc, !.doc = d, !.file = row[d].file]
  BY <1>1, <1>2, <1>3 DEF Shape, TypeOK
<1>6. job'[w].pc = pc /\ job'[w].doc = d /\ job'[w].file = row[d].file
  BY <1>4, <1>5 DEF Job
<1>7. \A v \in Workers \ {w} : job'[v] = job[v]
  BY <1>1 DEF Shape, TypeOK
<1>8. job[w].pc = "idle"
  BY <1>4 DEF Idle
<1>9. QED
  <2>1. SUFFICES \E x \in Docs :
          /\ row[x].there
          /\ job' \in [Workers -> Job]
          /\ job'[w].pc = pc /\ job'[w].doc = x /\ job'[w].file = row[x].file
          /\ asked' = IF pc = "remove" THEN asked \cup {x} ELSE asked
          /\ \A v \in Workers \ {w} : job'[v] = job[v]
    BY <1>8
  <2>2. WITNESS d \in Docs
  <2>3. QED
    BY <1>1, <1>5, <1>6, <1>7

LEMMA Uploads ==
  ASSUME Shape, NEW w \in Workers, Upload(w)
  PROVE  /\ job[w].pc = "idle"
         /\ \E d \in Docs \ Held :
              /\ row[d].file = NoFile
              /\ job' \in [Workers -> Job]
              /\ job'[w].pc = "uploader" /\ job'[w].doc = d
              /\ \A v \in Workers \ {w} : job'[v] = job[v]
<1>1. PICK d \in Docs \ Held, session \in Sessions :
        /\ row[d].file = NoFile
        /\ job' = [job EXCEPT ![w].pc = Order[1], ![w].doc = d, ![w].session = session]
  BY DEF Upload
<1>2. job[w] = Idle /\ job[w] \in Job
  BY DEF Upload, Shape, TypeOK
<1>3. [job[w] EXCEPT !.pc = "uploader", !.doc = d, !.session = session] \in Job
  BY <1>2 DEF Job
<1>4. /\ job' \in [Workers -> Job]
      /\ job'[w] = [job[w] EXCEPT !.pc = "uploader", !.doc = d, !.session = session]
  BY <1>1, <1>3, Steps DEF Shape, TypeOK
<1>5. job'[w].pc = "uploader" /\ job'[w].doc = d
  BY <1>2, <1>4 DEF Job
<1>6. \A v \in Workers \ {w} : job'[v] = job[v]
  BY <1>1 DEF Shape, TypeOK
<1>7. QED
  BY <1>1, <1>2, <1>4, <1>5, <1>6 DEF Idle
-----------------------------------------------------------------------------
(* The shape of the state. *)

(* A row is written whole from what a worker holds. *)
LEMMA RowWritten ==
  ASSUME Shape, NEW w \in Workers, job[w].pc \in {"save", "patch"},
         row' = [row EXCEPT ![job[w].doc] = [there |-> TRUE, file |-> job[w].file]]
  PROVE  /\ job[w].doc \in Docs /\ job[w].file \in File
         /\ row' \in [Docs -> Row]
         /\ row'[job[w].doc].there /\ row'[job[w].doc].file = job[w].file
         /\ \A d \in Docs \ {job[w].doc} : row'[d] = row[d]
  BY DEF Shape, TypeOK, JobsOK, Row

LEMMA RowDropped ==
  ASSUME Shape, NEW w \in Workers, DropRow(w)
  PROVE  /\ job[w].doc \in Docs
         /\ row' \in [Docs -> Row]
         /\ ~row'[job[w].doc].there /\ row'[job[w].doc].file = row[job[w].doc].file
         /\ \A d \in Docs \ {job[w].doc} : row'[d] = row[d]
<1>1. job[w].doc \in Docs
  BY DEF DropRow, Shape, JobsOK
<1>2. row[job[w].doc] \in Row
  BY <1>1 DEF Shape, TypeOK
<1>3. row' = [row EXCEPT ![job[w].doc] = [row[job[w].doc] EXCEPT !.there = FALSE]]
  BY DEF DropRow
<1>4. [row[job[w].doc] EXCEPT !.there = FALSE] \in Row
  BY <1>2 DEF Row
<1>5. /\ ~[row[job[w].doc] EXCEPT !.there = FALSE].there
      /\ [row[job[w].doc] EXCEPT !.there = FALSE].file = row[job[w].doc].file
  BY <1>2 DEF Row
<1>6. QED
  BY <1>1, <1>3, <1>4, <1>5 DEF Shape, TypeOK

LEMMA DiskPathTyped ==
  ASSUME NEW d \in Docs, NEW name \in Names
  PROVE  DiskPath(d, name) \in File /\ Legacy(DiskPath(d, name))
  BY DEF DiskPath, File, Legacy

(* What a worker at the storage step leaves: an ended request, or a stored *)
(* file it holds.                                                          *)
LEMMA Stored ==
  ASSUME Shape, NEW w \in Workers, StoreObject(w) \/ StoreOnDisk(w)
  PROVE  /\ job[w].pc = "store" /\ job[w].doc \in Docs
         /\ job' \in [Workers -> Job] /\ stored' \subseteq File
         /\ \A v \in Workers \ {w} : job'[v] = job[v]
         /\ mishaps' \in 0..MaxMishaps /\ (mishaps' = 0 => mishaps = 0)
         /\ \E file \in File :
              /\ ~Legacy(file) => file = [store |-> "bucket", name |-> job[w].doc] /\ configured
              /\ stored' = stored \/ stored' = stored \cup {file}
              /\ \/ /\ job'[w].pc = "save" /\ job'[w].doc = job[w].doc
                    /\ job'[w].file = file /\ file \in stored'
                 \/ /\ job'[w] = Idle /\ job'[w].pc = "idle"
                    /\ mishaps' = 0 => stored' = stored
<1>1. job[w].pc = "store" /\ job[w].doc \in Docs
  BY DEF StoreObject, StoreOnDisk, Shape, JobsOK
<1>2. stored \subseteq File
  BY DEF Shape, TypeOK
<1>3. CASE StoreObject(w)
  <2> DEFINE file == [store |-> "bucket", name |-> job[w].doc]
  <2>1. file \in File /\ ~Legacy(file)
    BY <1>1 DEF File, Legacy
  <2>2. PICK answer \in Answers :
          /\ stored' = IF bucket /\ answer.effect THEN stored \cup {file} ELSE stored
          /\ Counted(answer)
          /\ IF Accepted(answer)
             THEN job' = [job EXCEPT ![w].pc = After("store"), ![w].file = file] ELSE Done(w)
    BY <1>3 DEF StoreObject
  <2>3. /\ answer.effect \in BOOLEAN /\ answer.answered \in BOOLEAN
        /\ mishaps' \in 0..MaxMishaps
        /\ mishaps' = 0 => mishaps = 0 /\ answer.effect /\ answer.answered
    BY <2>2, Counting
  <2>4. answer.answered => answer.effect
    BY <2>2, Counting
  <2>5. configured
    BY <1>3 DEF StoreObject
  <2> HIDE DEF file
  <2>6. CASE Accepted(answer)
    <3>1. bucket /\ answer.effect
      BY <2>3, <2>4, <2>6 DEF Accepted
    <3>2. stored' = stored \cup {file} /\ file \in stored'
      BY <2>2, <3>1
    <3>3. job' = [job EXCEPT ![w].pc = "save", ![w].file = file]
      BY <2>2, <2>6, Steps
    <3>4. /\ job' \in [Workers -> Job]
          /\ job'[w].pc = "save" /\ job'[w].doc = job[w].doc /\ job'[w].file = file
          /\ \A v \in Workers \ {w} : job'[v] = job[v]
      BY <2>1, <3>3, TookFile
    <3>5. QED
      BY <1>1, <1>2, <2>1, <2>3, <2>5, <3>2, <3>4 DEF file
  <2>7. CASE ~Accepted(answer)
    <3>1. /\ job' \in [Workers -> Job]
          /\ job'[w] = Idle /\ job'[w].pc = "idle"
          /\ \A v \in Workers \ {w} : job'[v] = job[v]
      BY <2>2, <2>7, Ended
    <3>2. stored' = stored \/ stored' = stored \cup {file}
      BY <2>2
    <3>3. mishaps' = 0 => stored' = stored
      BY <2>2, <2>3, <2>7 DEF Accepted
    <3>4. QED
      BY <1>1, <1>2, <2>1, <2>3, <2>5, <3>1, <3>2, <3>3 DEF file
  <2>8. QED
    BY <2>6, <2>7
<1>4. CASE StoreOnDisk(w)
  <2>1. PICK name \in Names :
          /\ stored' = stored \cup {DiskPath(job[w].doc, name)}
          /\ job' = [job EXCEPT ![w].pc = After("store"), ![w].file = DiskPath(job[w].doc, name)]
    BY <1>4 DEF StoreOnDisk
  <2> DEFINE file == DiskPath(job[w].doc, name)
  <2>2. file \in File /\ Legacy(file)
    BY <1>1, DiskPathTyped
  <2>3. stored' = stored \cup {file} /\ job' = [job EXCEPT ![w].pc = "save", ![w].file = file]
    BY <2>1, Steps
  <2> HIDE DEF file
  <2>4. /\ job' \in [Workers -> Job]
        /\ job'[w].pc = "save" /\ job'[w].doc = job[w].doc /\ job'[w].file = file
        /\ \A v \in Workers \ {w} : job'[v] = job[v]
    BY <2>2, <2>3, TookFile
  <2>5. mishaps' = mishaps /\ mishaps \in 0..MaxMishaps
    BY <1>4 DEF StoreOnDisk, Shape, TypeOK
  <2>6. QED
    BY <1>1, <1>2, <2>2, <2>3, <2>4, <2>5
<1>5. QED
  BY <1>3, <1>4

(* What a removal does to the file, and how much may have gone wrong.      *)
LEMMA Removed ==
  ASSUME Shape, NEW w \in Workers, RemoveObject(w) \/ RemoveFromDisk(w)
  PROVE  /\ job[w].pc = "remove" /\ job[w].doc \in Docs /\ job[w].file \in File
         /\ job' \in [Workers -> Job]
         /\ job'[w].pc = "drop" /\ job'[w].doc = job[w].doc /\ job'[w].file = job[w].file
         /\ \A v \in Workers \ {w} : job'[v] = job[v]
         /\ stored' = stored \/ stored' = stored \ {job[w].file}
         /\ mishaps' \in 0..MaxMishaps /\ (mishaps' = 0 => mishaps = 0)
         /\ mishaps' = 0 /\ (configured \/ Legacy(job[w].file)) => stored' = stored \ {job[w].file}
<1>1. job[w].pc = "remove" /\ job[w].doc \in Docs /\ job[w].file \in File
  BY DEF RemoveObject, RemoveFromDisk, Shape, JobsOK
<1>2. Goto(w, "drop")
  BY DEF RemoveObject, RemoveFromDisk
<1>3. /\ job' \in [Workers -> Job]
      /\ job'[w].pc = "drop" /\ job'[w].doc = job[w].doc /\ job'[w].file = job[w].file
      /\ \A v \in Workers \ {w} : job'[v] = job[v]
  BY <1>2, WentOn
<1>4. CASE RemoveObject(w)
  <2>1. PICK answer \in Answers :
          /\ stored' = IF answer.effect THEN stored \ {job[w].file} ELSE stored
          /\ Counted(answer)
    BY <1>4 DEF RemoveObject
  <2>2. /\ mishaps' \in 0..MaxMishaps
        /\ mishaps' = 0 => mishaps = 0 /\ answer.effect
    BY <2>1, Counting
  <2>3. QED
    BY <1>1, <1>3, <2>1, <2>2
<1>5. CASE RemoveFromDisk(w)
  <2>1. /\ stored' = IF Legacy(job[w].file) THEN stored \ {job[w].file} ELSE stored
        /\ mishaps' = mishaps /\ mishaps \in 0..MaxMishaps /\ (configured => Legacy(job[w].file))
    BY <1>5 DEF RemoveFromDisk, Shape, TypeOK
  <2>2. QED
    BY <1>1, <1>3, <2>1
<1>6. QED
  BY <1>4, <1>5

(* What a worker at the first two steps of an upload leaves.               *)
LEMMA Prepared ==
  ASSUME Shape, NEW w \in Workers,
         ResolveUploader(w) \/ TakeBucketForGranted(w) \/ CreateBucket(w)
  PROVE  /\ job[w].pc \in {"uploader", "bucket"} /\ job[w].doc \in Docs
         /\ job' \in [Workers -> Job]
         /\ \A v \in Workers \ {w} : job'[v] = job[v]
         /\ \/ job'[w] = Idle /\ job'[w].pc = "idle"
            \/ job'[w].pc \in {"bucket", "store"} /\ job'[w].doc = job[w].doc
         /\ UNCHANGED <<configured, stored, row, asked>>
         /\ mishaps' \in 0..MaxMishaps /\ (mishaps' = 0 => mishaps = 0)
<1>1. job[w].pc \in {"uploader", "bucket"} /\ job[w].doc \in Docs
  BY DEF ResolveUploader, TakeBucketForGranted, CreateBucket, Shape, JobsOK
<1>2. Done(w) \/ Goto(w, "bucket") \/ Goto(w, "store")
  BY Steps DEF ResolveUploader, TakeBucketForGranted, CreateBucket
<1>3. /\ job' \in [Workers -> Job]
      /\ \A v \in Workers \ {w} : job'[v] = job[v]
      /\ \/ job'[w] = Idle /\ job'[w].pc = "idle"
         \/ job'[w].pc \in {"bucket", "store"} /\ job'[w].doc = job[w].doc
  <2>1. CASE Done(w)
    BY <2>1, Ended
  <2>2. CASE Goto(w, "bucket")
    BY <2>2, WentOn
  <2>3. CASE Goto(w, "store")
    BY <2>3, WentOn
  <2>4. QED
    BY <1>2, <2>1, <2>2, <2>3
<1>4. UNCHANGED <<configured, stored, row, asked>>
  BY DEF ResolveUploader, TakeBucketForGranted, CreateBucket
<1>5. mishaps' \in 0..MaxMishaps /\ (mishaps' = 0 => mishaps = 0)
  <2>1. ASSUME UNCHANGED mishaps PROVE mishaps' \in 0..MaxMishaps /\ (mishaps' = 0 => mishaps = 0)
    BY <2>1 DEF Shape, TypeOK
  <2>2. ASSUME NEW answer \in Answers, Counted(answer)
        PROVE  mishaps' \in 0..MaxMishaps /\ (mishaps' = 0 => mishaps = 0)
    BY <2>2, Counting
  <2>3. QED
    BY <2>1, <2>2 DEF ResolveUploader, TakeBucketForGranted, CreateBucket
<1>6. QED
  BY <1>1, <1>3, <1>4, <1>5

LEMMA InitShape == Init => Shape
<1> SUFFICES ASSUME Init PROVE Shape
  OBVIOUS
<1>1. job \in [Workers -> Job] /\ row \in [Docs -> Row]
  BY Constants DEF Init
<1>2. TypeOK
  BY <1>1, DocumentsAssumption DEF Init, TypeOK
<1>3. JobsOK
  BY DEF Init, JobsOK, Idle
<1>4. RowsOK
  BY DEF Init, RowsOK, NoRow
<1>5. QED
  BY <1>2, <1>3, <1>4 DEF Shape

LEMMA ShapeKept == Shape /\ [Next]_vars => Shape'
<1> SUFFICES ASSUME Shape, [Next]_vars PROVE Shape'
  OBVIOUS
<1> USE DocumentsAssumption
<1>0. TypeOK /\ JobsOK /\ RowsOK
  BY DEF Shape
(* A step is typed if it changes job, row and stored as the lemmas say.    *)
<1>a. ASSUME NEW w \in Workers, job' \in [Workers -> Job],
             \A v \in Workers \ {w} : job'[v] = job[v],
             \/ job'[w].pc = "idle"
             \/ job'[w].doc \in Docs /\ job'[w].pc \notin {"save", "remove", "drop", "patch"}
             \/ job'[w].doc \in Docs /\ job'[w].file \in File
      PROVE  JobsOK'
  BY <1>0, <1>a DEF JobsOK
<1>1. ASSUME NEW w \in Workers, Upload(w) PROVE Shape'
  <2>1. job' \in [Workers -> Job] /\ JobsOK'
    BY <1>1, <1>a, Uploads
  <2>2. QED
    BY <1>0, <1>1, <2>1 DEF Upload, Shape, TypeOK, RowsOK
<1>2. ASSUME NEW w \in Workers, ResolveUploader(w) \/ TakeBucketForGranted(w) \/ CreateBucket(w)
      PROVE  Shape'
  <2>1. job' \in [Workers -> Job] /\ JobsOK'
    BY <1>2, <1>a, Prepared
  <2>2. /\ account' \in {"none", "active", "inactive"} /\ checked' \subseteq Workers
        /\ bucket' \in BOOLEAN
    <3>1. CASE ResolveUploader(w)
      BY <1>0, <3>1 DEF ResolveUploader, TypeOK
    <3>2. CASE TakeBucketForGranted(w)
      BY <1>0, <3>2 DEF TakeBucketForGranted, TypeOK
    <3>3. CASE CreateBucket(w)
      BY <1>0, <3>3 DEF CreateBucket, TypeOK
    <3>4. QED
      BY <1>2, <3>1, <3>2, <3>3
  <2>3. QED
    BY <1>0, <1>2, <2>1, <2>2, Prepared DEF Shape, TypeOK, RowsOK
<1>3. ASSUME NEW w \in Workers, StoreObject(w) \/ StoreOnDisk(w) PROVE Shape'
  <2>1. JobsOK'
    BY <1>3, <1>a, Stored
  <2>2. QED
    BY <1>0, <1>3, <2>1, Stored DEF StoreObject, StoreOnDisk, Shape, TypeOK, RowsOK
<1>4. ASSUME NEW w \in Workers, SaveRow(w) \/ Patch(w) PROVE Shape'
  <2>1. /\ job[w].pc \in {"save", "patch"}
        /\ row' = [row EXCEPT ![job[w].doc] = [there |-> TRUE, file |-> job[w].file]]
        /\ Done(w)
    BY <1>4 DEF SaveRow, Patch
  <2>2. job' \in [Workers -> Job] /\ JobsOK'
    BY <2>1, <1>a, Ended
  <2>3. row' \in [Docs -> Row] /\ RowsOK'
    BY <1>0, <2>1, RowWritten, ZenonT(30) DEF RowsOK
  <2>4. QED
    BY <1>0, <1>4, <2>2, <2>3 DEF SaveRow, Patch, Shape, TypeOK
<1>5. ASSUME NEW w \in Workers, NEW pc \in {"remove", "patch"}, Fetch(w, pc) PROVE Shape'
  <2>1. PICK d \in Docs :
          /\ row[d].there
          /\ job' \in [Workers -> Job]
          /\ job'[w].pc = pc /\ job'[w].doc = d /\ job'[w].file = row[d].file
          /\ asked' = IF pc = "remove" THEN asked \cup {d} ELSE asked
          /\ \A v \in Workers \ {w} : job'[v] = job[v]
    BY <1>5, FetchedFile
  <2>2. JobsOK'
    BY <1>0, <2>1, <1>a DEF RowsOK
  <2>3. asked' \subseteq Docs
    BY <1>0, <2>1 DEF TypeOK
  <2>4. QED
    BY <1>0, <1>5, <2>1, <2>2, <2>3 DEF Fetch, Shape, TypeOK, RowsOK
<1>6. ASSUME NEW w \in Workers, RemoveObject(w) \/ RemoveFromDisk(w) PROVE Shape'
  <2>1. JobsOK'
    BY <1>6, <1>a, Removed
  <2>2. stored' \subseteq File
    BY <1>0, <1>6, Removed DEF TypeOK
  <2>3. QED
    BY <1>0, <1>6, <2>1, <2>2, Removed DEF RemoveObject, RemoveFromDisk, Shape, TypeOK, RowsOK
<1>7. ASSUME NEW w \in Workers, DropRow(w) PROVE Shape'
  <2>1. job' \in [Workers -> Job] /\ JobsOK'
    BY <1>7, <1>a, Ended DEF DropRow
  <2>2. row' \in [Docs -> Row] /\ RowsOK'
    BY <1>0, <1>7, RowDropped DEF RowsOK
  <2>3. QED
    BY <1>0, <1>7, <2>1, <2>2 DEF DropRow, Shape, TypeOK
<1>8. ASSUME NEW w \in Workers, Die(w) PROVE Shape'
  <2>1. job' \in [Workers -> Job] /\ JobsOK'
    BY <1>8, <1>a, Ended DEF Die
  <2>2. QED
    BY <1>0, <1>8, <2>1 DEF Die, Shape, TypeOK, RowsOK
<1>9. CASE Restart
  <2>1. job' \in [Workers -> Job] /\ JobsOK'
    BY <1>9, Constants DEF Restart, JobsOK, Idle
  <2>2. QED
    BY <1>0, <1>9, <2>1 DEF Restart, Shape, TypeOK, RowsOK
<1>10. CASE SwitchAccount
  BY <1>0, <1>10 DEF SwitchAccount, Shape, TypeOK, JobsOK, RowsOK
<1>11. CASE UNCHANGED vars
  BY <1>0, <1>11 DEF vars, Shape, TypeOK, JobsOK, RowsOK
<1>12. QED
  BY <1>1, <1>2, <1>3, <1>4, <1>5, <1>6, <1>7, <1>8, <1>9, <1>10, <1>11 DEF Next, Step

(* The types, for any workers, documents, sessions and bounds. *)
THEOREM TypeCorrect == Spec => []TypeOK
<1>1. Shape => TypeOK
  BY DEF Shape
<1>2. QED
  BY <1>1, InitShape, ShapeKept, PTL DEF Spec
-----------------------------------------------------------------------------
(* Files in the bucket stay. *)

Apart ==
  \A w, v \in Workers :
    job[w].pc \in Uploading /\ job[v].pc \in Uploading /\ job[w].doc = job[v].doc => w = v

New ==
  \A w \in Workers :
    job[w].pc \in Uploading => row[job[w].doc].file = NoFile /\ job[w].doc \notin asked

Key(d) == [store |-> "bucket", name |-> d]
Keys == \A d \in Docs : ~Legacy(row[d].file) => row[d].file = Key(d)

Saved ==
  \A w \in Workers :
    job[w].pc = "save" /\ ~Legacy(job[w].file) =>
      job[w].file = Key(job[w].doc) /\ job[w].file \in stored

Holds ==
  \A w \in Workers :
    /\ job[w].pc \in {"remove", "drop", "patch"} => job[w].file = row[job[w].doc].file
    /\ job[w].pc \in {"remove", "drop"} => job[w].doc \in asked

AskedSeen == \A d \in asked : row[d].file # NoFile

Safe == \A d \in Docs \ asked : ~Legacy(row[d].file) => row[d].file \in stored

FilesInv == Shape /\ Apart /\ New /\ Keys /\ Saved /\ Holds /\ AskedSeen /\ Safe

LEMMA FilesInvInit == Init => FilesInv
<1> SUFFICES ASSUME Init PROVE FilesInv
  OBVIOUS
<1>1. \A w \in Workers : job[w].pc = "idle"
  BY DEF Init, Idle
<1>2. \A d \in Docs : Legacy(row[d].file)
  BY Constants DEF Init, NoRow
<1>3. asked = {}
  BY DEF Init
<1>4. QED
  BY <1>1, <1>2, <1>3, InitShape
     DEF FilesInv, Apart, New, Keys, Saved, Holds, AskedSeen, Safe, Uploading

LEMMA FilesInvKept == FilesInv /\ [Next]_vars => FilesInv'
<1> SUFFICES ASSUME FilesInv, [Next]_vars PROVE FilesInv'
  OBVIOUS
<1>0. Shape /\ Apart /\ New /\ Keys /\ Saved /\ Holds /\ AskedSeen /\ Safe
  BY DEF FilesInv
<1>s. Shape'
  BY <1>0, ShapeKept
<1>d. \A w \in Workers : job[w].pc # "idle" => job[w].doc \in Docs
  BY <1>0 DEF Shape, JobsOK
(* No request ends anywhere else than where it is, and no row changes its  *)
(* file.                                                                   *)
<1>a. ASSUME \A v \in Workers : job'[v] = job[v] \/ job'[v].pc = "idle",
             \A d \in Docs : row'[d].file = row[d].file,
             asked' = asked, stored' = stored
      PROVE  FilesInv'
  <2>1. Apart' /\ New'
    BY <1>0, <1>d, <1>a DEF Apart, New, Uploading
  <2>2. Keys' /\ AskedSeen' /\ Safe'
    BY <1>0, <1>a DEF Keys, AskedSeen, Safe, Shape, TypeOK
  <2>3. Saved' /\ Holds'
    BY <1>0, <1>d, <1>a DEF Saved, Holds
  <2>4. QED
    BY <1>s, <2>1, <2>2, <2>3 DEF FilesInv
<1>1. ASSUME NEW w \in Workers, Upload(w) PROVE FilesInv'
  <2>1. PICK d \in Docs \ Held :
          /\ row[d].file = NoFile
          /\ job'[w].pc = "uploader" /\ job'[w].doc = d
          /\ \A v \in Workers \ {w} : job'[v] = job[v]
    BY <1>0, <1>1, Uploads
  <2>2. UNCHANGED <<row, stored, asked>>
    BY <1>1 DEF Upload
  <2>3. d \notin asked /\ \A v \in Workers : job[v].doc # d
    BY <1>0, <2>1 DEF AskedSeen, Held
  <2>4. Apart' /\ New'
    BY <1>0, <2>1, <2>2, <2>3 DEF Apart, New
  <2>5. Saved' /\ Holds'
    BY <1>0, <2>1, <2>2 DEF Saved, Holds
  <2>6. QED
    BY <1>0, <1>s, <2>2, <2>4, <2>5 DEF FilesInv, Keys, AskedSeen, Safe
<1>2. ASSUME NEW w \in Workers, ResolveUploader(w) \/ TakeBucketForGranted(w) \/ CreateBucket(w)
      PROVE  FilesInv'
  <2>1. /\ job[w].pc \in {"uploader", "bucket"}
        /\ \A v \in Workers \ {w} : job'[v] = job[v]
        /\ \/ job'[w].pc = "idle"
           \/ job'[w].pc \in {"bucket", "store"} /\ job'[w].doc = job[w].doc
        /\ UNCHANGED <<stored, row, asked>>
    BY <1>0, <1>2, Prepared
  <2>2. Apart' /\ New'
    BY <1>0, <2>1 DEF Apart, New, Uploading
  <2>3. Saved' /\ Holds'
    BY <1>0, <2>1 DEF Saved, Holds
  <2>4. QED
    BY <1>0, <1>s, <2>1, <2>2, <2>3 DEF FilesInv, Keys, AskedSeen, Safe
<1>3. ASSUME NEW w \in Workers, StoreObject(w) \/ StoreOnDisk(w) PROVE FilesInv'
  <2>1. PICK file \in File :
          /\ ~Legacy(file) => file = [store |-> "bucket", name |-> job[w].doc]
          /\ stored' = stored \/ stored' = stored \cup {file}
          /\ \/ /\ job'[w].pc = "save" /\ job'[w].doc = job[w].doc
                /\ job'[w].file = file /\ file \in stored'
             \/ job'[w].pc = "idle"
    BY <1>0, <1>3, Stored
  <2>2. job[w].pc = "store" /\ \A v \in Workers \ {w} : job'[v] = job[v]
    BY <1>0, <1>3, Stored
  <2>3. UNCHANGED <<row, asked>>
    BY <1>3 DEF StoreObject, StoreOnDisk
  <2>4. \A f \in stored : f \in stored'
    BY <2>1
  <2>5. Apart' /\ New'
    BY <1>0, <2>1, <2>2, <2>3 DEF Apart, New, Uploading
  <2>6. Saved'
    BY <1>0, <2>1, <2>2, <2>4 DEF Saved, Key
  <2>7. Holds'
    BY <1>0, <2>1, <2>2, <2>3 DEF Holds
  <2>8. QED
    BY <1>0, <1>s, <2>3, <2>4, <2>5, <2>6, <2>7 DEF FilesInv, Keys, AskedSeen, Safe
<1>4. ASSUME NEW w \in Workers, SaveRow(w) PROVE FilesInv'
  <2> DEFINE d == job[w].doc
  <2>1. job[w].pc = "save" /\ Done(w) /\ UNCHANGED <<stored, asked>>
    BY <1>4 DEF SaveRow
  <2>2. /\ d \in Docs /\ job[w].file \in File /\ row'[d].file = job[w].file
        /\ \A e \in Docs \ {d} : row'[e] = row[e]
    BY <1>0, <1>4, <2>1, RowWritten DEF SaveRow
  <2>3. job'[w].pc = "idle" /\ \A v \in Workers \ {w} : job'[v] = job[v]
    BY <1>0, <2>1, Ended
  <2>4. row[d].file = NoFile /\ d \notin asked
    BY <1>0, <2>1 DEF New, Uploading
  <2>5. \A v \in Workers \ {w} : job[v].pc \in Uploading => job[v].doc # d
    BY <1>0, <2>1 DEF Apart, Uploading
  <2>6. \A v \in Workers : job[v].pc \in {"remove", "drop", "patch"} => job[v].doc # d
    BY <1>0, <2>4, Constants DEF Holds, Shape, JobsOK
  <2>7. ~Legacy(job[w].file) => job[w].file = Key(d) /\ job[w].file \in stored
    BY <1>0, <2>1 DEF Saved
  <2> HIDE DEF d
  <2>8. Apart' /\ New'
    BY <1>0, <1>d, <2>1, <2>2, <2>3, <2>5 DEF Apart, New, Uploading
  <2>9. Keys' /\ Safe'
    BY <1>0, <2>1, <2>2, <2>7 DEF Keys, Safe
  <2>10. Saved' /\ Holds'
    BY <1>0, <1>d, <2>1, <2>2, <2>3, <2>6 DEF Saved, Holds
  <2>11. AskedSeen'
    BY <1>0, <2>1, <2>2, <2>4 DEF AskedSeen, Shape, TypeOK
  <2>12. QED
    BY <1>s, <2>8, <2>9, <2>10, <2>11 DEF FilesInv
<1>5. ASSUME NEW w \in Workers, Patch(w) PROVE FilesInv'
  <2>1. job[w].pc = "patch" /\ Done(w) /\ UNCHANGED <<stored, asked>>
    BY <1>5 DEF Patch
  <2>2. \A e \in Docs : row'[e].file = row[e].file
    BY <1>0, <1>5, <2>1, RowWritten DEF Patch, Holds
  <2>3. \A v \in Workers : job'[v] = job[v] \/ job'[v].pc = "idle"
    BY <1>0, <2>1, Ended
  <2>4. QED
    BY <2>1, <2>2, <2>3, <1>a
<1>6. ASSUME NEW w \in Workers, NEW pc \in {"remove", "patch"}, Fetch(w, pc) PROVE FilesInv'
  <2>1. PICK d \in Docs :
          /\ row[d].there
          /\ job'[w].pc = pc /\ job'[w].doc = d /\ job'[w].file = row[d].file
          /\ asked' = IF pc = "remove" THEN asked \cup {d} ELSE asked
          /\ \A v \in Workers \ {w} : job'[v] = job[v]
    BY <1>0, <1>6, FetchedFile
  <2>2. UNCHANGED <<row, stored>>
    BY <1>6 DEF Fetch
  <2>3. row[d].file # NoFile
    BY <1>0, <2>1, Constants DEF Shape, RowsOK
  <2>4. Apart' /\ New'
    BY <1>0, <2>1, <2>2, <2>3 DEF Apart, New, Uploading
  <2>5. Saved'
    BY <1>0, <2>1, <2>2 DEF Saved
  <2>6. Holds'
    BY <1>0, <2>1, <2>2 DEF Holds
  <2>7. AskedSeen' /\ Safe'
    BY <1>0, <2>1, <2>2, <2>3 DEF AskedSeen, Safe
  <2>8. QED
    BY <1>0, <1>s, <2>2, <2>4, <2>5, <2>6, <2>7 DEF FilesInv, Keys
<1>7. ASSUME NEW w \in Workers, RemoveObject(w) \/ RemoveFromDisk(w) PROVE FilesInv'
  <2>1. /\ job[w].pc = "remove" /\ job[w].doc \in Docs
        /\ job'[w].pc = "drop" /\ job'[w].doc = job[w].doc /\ job'[w].file = job[w].file
        /\ \A v \in Workers \ {w} : job'[v] = job[v]
        /\ stored' = stored \/ stored' = stored \ {job[w].file}
    BY <1>0, <1>7, Removed
  <2>2. UNCHANGED <<row, asked>>
    BY <1>7 DEF RemoveObject, RemoveFromDisk
  <2>3. job[w].file = row[job[w].doc].file /\ job[w].doc \in asked
    BY <1>0, <2>1 DEF Holds
  (* Only the key of a document somebody asked to delete goes. *)
  <2>4. \A d \in Docs \ asked : Key(d) \in stored => Key(d) \in stored'
    <3>1. SUFFICES ASSUME NEW d \in Docs \ asked, Key(d) = job[w].file PROVE FALSE
      BY <2>1
    <3>2. ~Legacy(job[w].file)
      BY <3>1 DEF Key, Legacy
    <3>3. job[w].file = Key(job[w].doc)
      BY <1>0, <2>1, <2>3, <3>2 DEF Keys
    <3>4. QED
      BY <2>3, <3>1, <3>3 DEF Key
  <2>5. Apart' /\ New'
    BY <1>0, <2>1, <2>2 DEF Apart, New, Uploading
  <2>6. Saved'
    <3>1. \A v \in Workers : job[v].pc = "save" => job[v].doc \in Docs \ asked
      BY <1>0, <1>d DEF New, Uploading
    <3>2. QED
      BY <1>0, <2>1, <2>4, <3>1 DEF Saved
  <2>7. Holds'
    BY <1>0, <2>1, <2>2 DEF Holds
  <2>8. Safe'
    BY <1>0, <2>2, <2>4 DEF Safe, Keys
  <2>9. QED
    BY <1>0, <1>s, <2>2, <2>5, <2>6, <2>7, <2>8 DEF FilesInv, Keys, AskedSeen
<1>8. ASSUME NEW w \in Workers, DropRow(w) PROVE FilesInv'
  <2>1. Done(w) /\ UNCHANGED <<stored, asked>>
    BY <1>8 DEF DropRow
  <2>2. \A e \in Docs : row'[e].file = row[e].file
    BY <1>0, <1>8, RowDropped
  <2>3. \A v \in Workers : job'[v] = job[v] \/ job'[v].pc = "idle"
    BY <1>0, <2>1, Ended
  <2>4. QED
    BY <2>1, <2>2, <2>3, <1>a
<1>9. ASSUME NEW w \in Workers, Die(w) PROVE FilesInv'
  <2>1. \A v \in Workers : job'[v] = job[v] \/ job'[v].pc = "idle"
    BY <1>0, <1>9, Ended DEF Die
  <2>2. QED
    BY <1>9, <2>1, <1>a DEF Die
<1>10. CASE Restart
  <2>1. \A v \in Workers : job'[v].pc = "idle"
    BY <1>10 DEF Restart, Idle
  <2>2. QED
    BY <1>10, <2>1, <1>a DEF Restart
<1>11. CASE SwitchAccount
  BY <1>11, <1>a DEF SwitchAccount
<1>12. CASE UNCHANGED vars
  BY <1>12, <1>a DEF vars
<1>13. QED
  BY <1>1, <1>2, <1>3, <1>4, <1>5, <1>6, <1>7, <1>8, <1>9, <1>10, <1>11, <1>12 DEF Next, Step

(* Whatever fails and whoever meets, a document in the bucket that nobody  *)
(* asked to delete keeps its file.                                         *)
THEOREM FilesAlwaysStay == Spec => []FilesStay
<1>1. FilesInv => FilesStay
  BY DEF FilesInv, FilesStay, Safe
<1>2. QED
  BY <1>1, FilesInvInit, FilesInvKept, PTL DEF Spec
-----------------------------------------------------------------------------
(* Nothing is orphaned unless something fails. *)

Owned(f) ==
  \/ \E d \in Docs :
       /\ row[d].there /\ row[d].file = f
       /\ \A w \in Workers : job[w].pc = "drop" => job[w].doc # d
  \/ \E w \in Workers : job[w].pc = "save" /\ job[w].file = f

DiskOnly ==
  ~configured =>
    /\ \A d \in Docs : Legacy(row[d].file)
    /\ \A w \in Workers : job[w].pc = "save" => Legacy(job[w].file)

OwnersInv == mishaps = 0 => DiskOnly /\ \A f \in stored : Owned(f)

LEMMA OwnersKept == FilesInv /\ OwnersInv /\ [Next]_vars => OwnersInv'
<1> SUFFICES ASSUME FilesInv, OwnersInv, [Next]_vars, mishaps' = 0
             PROVE  DiskOnly' /\ \A f \in stored' : Owned(f)'
  BY DEF OwnersInv
<1>0. Shape /\ New /\ Holds
  BY DEF FilesInv
<1>f. stored \subseteq File /\ NoFile \notin File
  BY <1>0, Constants DEF Shape, TypeOK
(* A worker moves on, neither from saving a row nor to dropping one.       *)
<1>a. ASSUME mishaps = 0, NEW w \in Workers, job[w].pc # "save",
             job'[w].pc \notin {"save", "drop"},
             \A v \in Workers \ {w} : job'[v] = job[v],
             UNCHANGED <<configured, row>>, stored' = stored
      PROVE  DiskOnly' /\ \A f \in stored' : Owned(f)'
  <2>1. DiskOnly'
    BY <1>a DEF OwnersInv, DiskOnly
  <2>2. ASSUME NEW f \in stored PROVE Owned(f)'
    <3>1. Owned(f)
      BY <1>a DEF OwnersInv
    <3>2. ASSUME NEW d \in Docs, row[d].there, row[d].file = f,
                 \A v \in Workers : job[v].pc = "drop" => job[v].doc # d
          PROVE  Owned(f)'
      <4>1. \A v \in Workers : job'[v].pc = "drop" => job'[v].doc # d
        BY <1>a, <3>2
      <4>2. QED
        BY <1>a, <3>2, <4>1 DEF Owned
    <3>3. ASSUME NEW v \in Workers, job[v].pc = "save", job[v].file = f PROVE Owned(f)'
      BY <1>a, <3>3 DEF Owned
    <3>4. QED
      BY <3>1, <3>2, <3>3 DEF Owned
  <2>3. QED
    BY <1>a, <2>1, <2>2
<1>1. ASSUME NEW w \in Workers, Upload(w) PROVE DiskOnly' /\ \A f \in stored' : Owned(f)'
  <2>1. /\ job[w].pc = "idle" /\ job'[w].pc = "uploader"
        /\ \A v \in Workers \ {w} : job'[v] = job[v]
    BY <1>0, <1>1, Uploads
  <2>2. QED
    BY <1>1, <1>a, <2>1 DEF Upload
<1>2. ASSUME NEW w \in Workers, ResolveUploader(w) \/ TakeBucketForGranted(w) \/ CreateBucket(w)
      PROVE  DiskOnly' /\ \A f \in stored' : Owned(f)'
  <2>1. /\ job[w].pc # "save" /\ job'[w].pc \notin {"save", "drop"}
        /\ \A v \in Workers \ {w} : job'[v] = job[v]
        /\ UNCHANGED <<configured, stored, row>> /\ mishaps = 0
    BY <1>0, <1>2, Prepared
  <2>2. QED
    BY <1>a, <2>1
<1>3. ASSUME NEW w \in Workers, StoreObject(w) \/ StoreOnDisk(w)
      PROVE  DiskOnly' /\ \A f \in stored' : Owned(f)'
  <2>1. PICK file \in File :
          /\ ~Legacy(file) => configured
          /\ stored' = stored \/ stored' = stored \cup {file}
          /\ \/ job'[w].pc = "save" /\ job'[w].file = file
             \/ job'[w].pc = "idle" /\ (mishaps' = 0 => stored' = stored)
    BY <1>0, <1>3, Stored
  <2>2. /\ job[w].pc = "store" /\ \A v \in Workers \ {w} : job'[v] = job[v]
        /\ mishaps = 0
    BY <1>0, <1>3, Stored
  <2>3. UNCHANGED <<row, configured>>
    BY <1>3 DEF StoreObject, StoreOnDisk
  <2>4. CASE job'[w].pc = "idle"
    BY <1>a, <2>1, <2>2, <2>3, <2>4
  <2>5. CASE job'[w].pc = "save" /\ job'[w].file = file
    <3>1. DiskOnly'
      BY <2>1, <2>2, <2>3, <2>5 DEF OwnersInv, DiskOnly
    <3>2. ASSUME NEW f \in stored' PROVE Owned(f)'
      <4>1. CASE f = file
        BY <2>5, <4>1 DEF Owned
      <4>2. CASE f \in stored
        <5>1. Owned(f)
          BY <2>2, <4>2 DEF OwnersInv
        <5>2. ASSUME NEW d \in Docs, row[d].there, row[d].file = f,
                     \A v \in Workers : job[v].pc = "drop" => job[v].doc # d
              PROVE  Owned(f)'
          <6>1. \A v \in Workers : job'[v].pc = "drop" => job'[v].doc # d
            BY <2>2, <2>5, <5>2
          <6>2. QED
            BY <2>3, <5>2, <6>1 DEF Owned
        <5>3. ASSUME NEW v \in Workers, job[v].pc = "save", job[v].file = f PROVE Owned(f)'
          BY <2>2, <5>3 DEF Owned
        <5>4. QED
          BY <5>1, <5>2, <5>3 DEF Owned
      <4>3. QED
        BY <2>1, <4>1, <4>2
    <3>3. QED
      BY <3>1, <3>2
  <2>6. QED
    BY <2>1, <2>4, <2>5
<1>4. ASSUME NEW w \in Workers, SaveRow(w) PROVE DiskOnly' /\ \A f \in stored' : Owned(f)'
  <2> DEFINE d == job[w].doc
  <2>1. job[w].pc = "save" /\ Done(w) /\ UNCHANGED <<configured, stored, asked>> /\ mishaps = 0
    BY <1>4 DEF SaveRow
  <2>2. /\ d \in Docs /\ row'[d].there /\ row'[d].file = job[w].file
        /\ \A e \in Docs \ {d} : row'[e] = row[e]
    BY <1>0, <1>4, <2>1, RowWritten DEF SaveRow
  <2>3. job'[w].pc = "idle" /\ \A v \in Workers \ {w} : job'[v] = job[v]
    BY <1>0, <2>1, Ended
  <2>4. row[d].file = NoFile /\ \A v \in Workers : job'[v].pc = "drop" => job'[v].doc # d
    BY <1>0, <2>1, <2>3 DEF New, Holds, Uploading
  <2>5. DiskOnly'
    BY <2>1, <2>2, <2>3 DEF OwnersInv, DiskOnly
  <2>6. ASSUME NEW f \in stored PROVE Owned(f)'
    <3>1. Owned(f) /\ f # NoFile
      BY <1>f, <2>1 DEF OwnersInv
    <3>2. CASE f = job[w].file
      BY <2>2, <2>4, <3>2 DEF Owned
    <3>3. ASSUME NEW e \in Docs, row[e].there, row[e].file = f,
                 \A v \in Workers : job[v].pc = "drop" => job[v].doc # e
          PROVE  Owned(f)'
      <4>1. e # d
        BY <2>4, <3>1, <3>3
      <4>2. row'[e] = row[e] /\ \A v \in Workers : job'[v].pc = "drop" => job'[v].doc # e
        BY <2>2, <2>3, <3>3, <4>1
      <4>3. QED
        BY <3>3, <4>2 DEF Owned
    <3>4. ASSUME NEW v \in Workers \ {w}, job[v].pc = "save", job[v].file = f PROVE Owned(f)'
      BY <2>3, <3>4 DEF Owned
    <3>5. QED
      BY <3>1, <3>2, <3>3, <3>4 DEF Owned
  <2>7. QED
    BY <2>1, <2>5, <2>6
<1>5. ASSUME NEW w \in Workers, Patch(w) PROVE DiskOnly' /\ \A f \in stored' : Owned(f)'
  <2> DEFINE d == job[w].doc
  <2>1. job[w].pc = "patch" /\ Done(w) /\ UNCHANGED <<configured, stored>> /\ mishaps = 0
    BY <1>5 DEF Patch
  <2>2. /\ d \in Docs /\ row'[d].there /\ row'[d].file = job[w].file
        /\ \A e \in Docs \ {d} : row'[e] = row[e]
    BY <1>0, <1>5, <2>1, RowWritten DEF Patch
  <2>3. job'[w].pc = "idle" /\ \A v \in Workers \ {w} : job'[v] = job[v]
    BY <1>0, <2>1, Ended
  <2>4. \A e \in Docs : row'[e].file = row[e].file /\ (row[e].there => row'[e].there)
    BY <1>0, <2>1, <2>2 DEF Holds
  <2>5. DiskOnly'
    BY <2>1, <2>3, <2>4 DEF OwnersInv, DiskOnly
  <2>6. ASSUME NEW f \in stored PROVE Owned(f)'
    <3>1. Owned(f)
      BY <2>1 DEF OwnersInv
    <3>2. ASSUME NEW e \in Docs, row[e].there, row[e].file = f,
                 \A v \in Workers : job[v].pc = "drop" => job[v].doc # e
          PROVE  Owned(f)'
      <4>1. \A v \in Workers : job'[v].pc = "drop" => job'[v].doc # e
        BY <2>3, <3>2
      <4>2. QED
        BY <2>4, <3>2, <4>1 DEF Owned
    <3>3. ASSUME NEW v \in Workers, job[v].pc = "save", job[v].file = f PROVE Owned(f)'
      BY <2>1, <2>3, <3>3 DEF Owned
    <3>4. QED
      BY <3>1, <3>2, <3>3 DEF Owned
  <2>7. QED
    BY <2>1, <2>5, <2>6
<1>6. ASSUME NEW w \in Workers, NEW pc \in {"remove", "patch"}, Fetch(w, pc)
      PROVE  DiskOnly' /\ \A f \in stored' : Owned(f)'
  <2>1. /\ job[w].pc = "idle" /\ job'[w].pc = pc
        /\ \A v \in Workers \ {w} : job'[v] = job[v]
    BY <1>0, <1>6, FetchedFile
  <2>2. UNCHANGED <<configured, row, stored, mishaps>>
    BY <1>6 DEF Fetch
  <2>3. QED
    BY <1>a, <2>1, <2>2
<1>7. ASSUME NEW w \in Workers, RemoveObject(w) \/ RemoveFromDisk(w)
      PROVE  DiskOnly' /\ \A f \in stored' : Owned(f)'
  <2>1. /\ job[w].pc = "remove" /\ job'[w].pc = "drop" /\ job'[w].doc = job[w].doc
        /\ \A v \in Workers \ {w} : job'[v] = job[v]
        /\ job[w].doc \in Docs /\ mishaps = 0
        /\ configured \/ Legacy(job[w].file) => stored' = stored \ {job[w].file}
    BY <1>0, <1>7, Removed
  <2>2. UNCHANGED <<configured, row>>
    BY <1>7 DEF RemoveObject, RemoveFromDisk
  <2>3. job[w].file = row[job[w].doc].file
    BY <1>0, <2>1 DEF Holds
  <2>4. stored' = stored \ {job[w].file}
    BY <2>1, <2>3 DEF OwnersInv, DiskOnly
  <2>5. DiskOnly'
    BY <2>1, <2>2 DEF OwnersInv, DiskOnly
  <2>6. ASSUME NEW f \in stored, f # job[w].file PROVE Owned(f)'
    <3>1. Owned(f)
      BY <2>1 DEF OwnersInv
    <3>2. ASSUME NEW e \in Docs, row[e].there, row[e].file = f,
                 \A v \in Workers : job[v].pc = "drop" => job[v].doc # e
          PROVE  Owned(f)'
      <4>1. e # job[w].doc
        BY <2>3, <2>6, <3>2
      <4>2. \A v \in Workers : job'[v].pc = "drop" => job'[v].doc # e
        BY <2>1, <3>2, <4>1
      <4>3. QED
        BY <2>2, <3>2, <4>2 DEF Owned
    <3>3. ASSUME NEW v \in Workers, job[v].pc = "save", job[v].file = f PROVE Owned(f)'
      BY <2>1, <3>3 DEF Owned
    <3>4. QED
      BY <3>1, <3>2, <3>3 DEF Owned
  <2>7. QED
    BY <2>4, <2>5, <2>6
<1>8. ASSUME NEW w \in Workers, DropRow(w) PROVE DiskOnly' /\ \A f \in stored' : Owned(f)'
  <2> DEFINE d == job[w].doc
  <2>1. job[w].pc = "drop" /\ Done(w) /\ UNCHANGED <<configured, stored>> /\ mishaps = 0
    BY <1>8 DEF DropRow
  <2>2. /\ d \in Docs /\ row'[d].file = row[d].file
        /\ \A e \in Docs \ {d} : row'[e] = row[e]
    BY <1>0, <1>8, RowDropped
  <2>3. job'[w].pc = "idle" /\ \A v \in Workers \ {w} : job'[v] = job[v]
    BY <1>0, <2>1, Ended
  <2>4. DiskOnly'
    BY <2>1, <2>2, <2>3 DEF OwnersInv, DiskOnly
  <2>5. ASSUME NEW f \in stored PROVE Owned(f)'
    <3>1. Owned(f)
      BY <2>1 DEF OwnersInv
    <3>2. ASSUME NEW e \in Docs, row[e].there, row[e].file = f,
                 \A v \in Workers : job[v].pc = "drop" => job[v].doc # e
          PROVE  Owned(f)'
      <4>1. e # d
        BY <2>1, <3>2
      <4>2. row'[e] = row[e] /\ \A v \in Workers : job'[v].pc = "drop" => job'[v].doc # e
        BY <2>2, <2>3, <3>2, <4>1
      <4>3. QED
        BY <3>2, <4>2 DEF Owned
    <3>3. ASSUME NEW v \in Workers, job[v].pc = "save", job[v].file = f PROVE Owned(f)'
      BY <2>1, <2>3, <3>3 DEF Owned
    <3>4. QED
      BY <3>1, <3>2, <3>3 DEF Owned
  <2>6. QED
    BY <2>1, <2>4, <2>5
(* A death or a restart is something that failed.                          *)
<1>9. mishaps \in Nat
  BY <1>0, DocumentsAssumption DEF Shape, TypeOK
<1>10. ~Restart /\ \A w \in Workers : ~Die(w)
  BY <1>9 DEF Restart, Die
<1>11. CASE SwitchAccount \/ UNCHANGED vars
  <2>1. UNCHANGED <<configured, stored, row, job, mishaps>>
    BY <1>11 DEF SwitchAccount, vars
  <2>2. QED
    BY <2>1 DEF OwnersInv, DiskOnly, Owned
<1>12. QED
  BY <1>1, <1>2, <1>3, <1>4, <1>5, <1>6, <1>7, <1>8, <1>10, <1>11 DEF Next, Step

(* Unless an answer is lost or a worker stops, every stored file belongs   *)
(* to a row or to an upload under way.                                     *)
THEOREM NothingOrphaned == Spec => []NoOrphans
<1>1. Init => OwnersInv
  BY Constants DEF Init, OwnersInv, DiskOnly, NoRow, Idle
<1>2. OwnersInv => NoOrphans
  <2> SUFFICES ASSUME OwnersInv, mishaps = 0, NEW f \in stored
               PROVE  \/ \E d \in Docs : row[d].there /\ row[d].file = f
                      \/ \E w \in Workers : job[w].file = f
    BY DEF NoOrphans
  <2>1. Owned(f)
    BY DEF OwnersInv
  <2>2. QED
    BY <2>1 DEF Owned
<1>3. QED
  BY <1>1, <1>2, FilesInvInit, FilesInvKept, OwnersKept, PTL DEF Spec
===============================================================================
