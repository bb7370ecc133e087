------------------------- MODULE ChangeOrdersProofs -------------------------
(***************************************************************************)
(* Proofs about ChangeOrders, for any number of requests, projects and     *)
(* orders and any amounts: the types, and that contract values agree with  *)
(* the approved orders when no order is handled at two desks               *)
(* (SeparateDesks).  Two desks may still decide at the same time on        *)
(* different orders of one project: nothing serialises them but the        *)
(* addition the database makes.  And the numbers of a project's orders     *)
(* differ when one request at a time creates or edits them (OneEditor).    *)
(***************************************************************************)
EXTENDS ChangeOrders, SumsProofs

(* What the operation and the phase of a job imply for its fields. *)
JobOK(r) ==
  LET j == job[r]
  IN  /\ j.phase = "valid" => j.op \in PatchOps \cup {"create"}
      /\ j.op \in HandleOps => /\ j.order \in Orders /\ <<j.op, j.order>> \in Sent[r]
                               /\ j.row \in Row /\ order[j.order] # NoRow
      /\ j.op = "create" => /\ j.order \in Orders /\ j.row \in Row /\ j.row.status = "PENDING"
                            /\ <<"create", <<j.order, j.row.project>>>> \in Sent[r]
      /\ j.op = "patch" => j.project \in Projects /\ <<"patch", j.project>> \in Sent[r]

Shape == TypeOK /\ \A r \in Requests : JobOK(r)
-----------------------------------------------------------------------------
LEMMA NoRowIsDifferent == NoRow \notin Row /\ NoRow.status = "ABSENT" /\ NoRow.amount = 0
  BY DEF NoRow, Row, Statuses

LEMMA IdleIsAJob == Idle \in Job /\ Idle.phase = "idle" /\ Idle.op = "idle"
  BY DEF Idle, Job

(* No step removes a change order. *)
RowsStay == \A c \in Orders : order[c] # NoRow => order'[c] # NoRow

(* Giving a request another job keeps the shape. *)
LEMMA HeldJob ==
  ASSUME Shape, NEW r \in Requests, NEW j \in Job, Hold(r, j), RowsStay,
         j.phase = "valid" => j.op \in PatchOps \cup {"create"},
         j.op \in HandleOps => /\ j.order \in Orders /\ <<j.op, j.order>> \in Sent[r]
                              /\ j.row \in Row /\ order[j.order] # NoRow,
         j.op = "create" => /\ j.order \in Orders /\ j.row \in Row /\ j.row.status = "PENDING"
                            /\ <<"create", <<j.order, j.row.project>>>> \in Sent[r],
         j.op = "patch" => j.project \in Projects /\ <<"patch", j.project>> \in Sent[r]
  PROVE  /\ job' \in [Requests -> Job]
         /\ \A q \in Requests : JobOK(q)'
<1>1. job' \in [Requests -> Job]
  BY DEF Hold, Shape, TypeOK
<1>2. job'[r] = j /\ \A q \in Requests \ {r} : job'[q] = job[q]
  BY DEF Hold, Shape, TypeOK
<1>3. ASSUME NEW q \in Requests PROVE JobOK(q)'
  <2>1. CASE q = r
    BY <1>2, <2>1 DEF JobOK, RowsStay
  <2>2. CASE q # r
    <3>1. job'[q] = job[q] /\ JobOK(q)
      BY <1>2, <2>2 DEF Shape
    <3>2. QED
      BY <3>1 DEF JobOK, RowsStay
  <2>3. QED
    BY <2>1, <2>2
<1>4. QED
  BY <1>1, <1>3

LEMMA FinishedJob ==
  ASSUME Shape, NEW r \in Requests, Finish(r), RowsStay
  PROVE  job' \in [Requests -> Job] /\ \A q \in Requests : JobOK(q)'
<1>1. Hold(r, Idle)
  BY DEF Finish, Hold
<1>2. QED
  BY <1>1, IdleIsAJob, HeldJob DEF PatchOps, DecideOps, HandleOps

LEMMA RowAmount == \A x \in Row \cup {NoRow} : x.amount \in Int
<1>1. \A x \in Row : x.amount \in Amounts
  BY DEF Row
<1>2. NoRow.amount \in Int
  BY NoRowIsDifferent
<1>3. QED
  BY <1>1, <1>2, ChangeOrdersAssumption

LEMMA EffectsAreNatural ==
  ASSUME TypeOK, NEW c \in Orders, NEW p \in Projects
  PROVE  Added(c, p) \in Nat /\ Deducted(c, p) \in Nat
<1>1. order[c].amount \in Int
  BY RowAmount DEF TypeOK
<1>2. QED
  BY <1>1 DEF Added, Deducted, Above

LEMMA ApprovedIsAnInteger ==
  ASSUME TypeOK, NEW p \in Projects
  PROVE  Approved(p) \in Int
<1> DEFINE f == [c \in Orders |-> Added(c, p)]
           g == [c \in Orders |-> Deducted(c, p)]
<1>1. f \in [Orders -> Nat] /\ g \in [Orders -> Nat]
  BY EffectsAreNatural
<1> HIDE DEF f, g
<1>2. SumOf(f) \in Nat /\ SumOf(g) \in Nat
  BY <1>1, SumIsNatural, ChangeOrdersAssumption
<1>3. QED
  BY <1>2 DEF Approved, f, g

(* What one order adds to the approved total of a project, or takes off.   *)
Effect(c, p) == IF Counts(c, p) THEN order[c].amount ELSE 0

(* A step that writes one order moves the total by that order's effect.    *)
LEMMA ApprovedMoves ==
  ASSUME TypeOK, TypeOK', NEW c \in Orders, NEW p \in Projects,
         \A d \in Orders \ {c} : order'[d] = order[d]
  PROVE  Approved(p)' = Approved(p) + (Effect(c, p)' - Effect(c, p))
<1> DEFINE f == [d \in Orders |-> Added(d, p)]
           g == [d \in Orders |-> Deducted(d, p)]
<1>1. f \in [Orders -> Nat] /\ g \in [Orders -> Nat]
  BY EffectsAreNatural
<1>2. f' \in [Orders -> Nat] /\ g' \in [Orders -> Nat]
  <2>1. \A d \in Orders : order'[d].amount \in Int
    BY RowAmount DEF TypeOK
  <2>2. QED
    BY <2>1 DEF Added, Deducted, Above
<1>3. SameBut(c, f, f') /\ SameBut(c, g, g')
  BY DEF SameBut, Added, Deducted, Counts
<1>4. f[c] = Added(c, p) /\ f'[c] = Added(c, p)' /\ g[c] = Deducted(c, p) /\ g'[c] = Deducted(c, p)'
  OBVIOUS
<1>5. Approved(p) = SumOf(f) - SumOf(g) /\ Approved(p)' = SumOf(f') - SumOf(g')
  BY DEF Approved
<1>6. order[c].amount \in Int /\ order'[c].amount \in Int
  BY RowAmount DEF TypeOK
<1>7. /\ Effect(c, p) = Added(c, p) - Deducted(c, p)
      /\ Effect(c, p)' = Added(c, p)' - Deducted(c, p)'
      /\ {Added(c, p), Added(c, p)', Deducted(c, p), Deducted(c, p)'} \subseteq Nat
  BY <1>6 DEF Effect, Added, Deducted, Above
<1> HIDE DEF f, g
<1>8. SumOf(f') = SumOf(f) + (f'[c] - f[c]) /\ SumOf(g') = SumOf(g) + (g'[c] - g[c])
  BY <1>1, <1>2, <1>3, SumAfterChange, ChangeOrdersAssumption
<1>9. SumOf(f) \in Nat /\ SumOf(g) \in Nat
  BY <1>1, SumIsNatural, ChangeOrdersAssumption
<1>10. QED
  BY <1>4, <1>5, <1>7, <1>8, <1>9
-----------------------------------------------------------------------------
(* Shape is inductive. *)

LEMMA InitShape == Init => Shape
<1> SUFFICES ASSUME Init PROVE Shape
  OBVIOUS
<1>1. TypeOK
  BY IdleIsAJob, ChangeOrdersAssumption DEF Init, TypeOK
<1>2. \A r \in Requests : JobOK(r)
  BY IdleIsAJob DEF Init, JobOK, HandleOps, DecideOps, PatchOps
<1>3. QED
  BY <1>1, <1>2 DEF Shape

LEMMA ShapeKept == Shape /\ [Next]_vars => Shape'
<1> SUFFICES ASSUME Shape, [Next]_vars PROVE Shape'
  OBVIOUS
<1>1. ASSUME NEW r \in Requests, NEW c \in Orders, NEW p \in Projects, NEW n \in Numbers,
             NEW a \in Amounts, ValidateNew(r, c, p, n, a)
      PROVE  Shape'
  <2> DEFINE row == [project |-> p, number |-> n, amount |-> a, status |-> "PENDING"]
             j == [Idle EXCEPT !.op = "create", !.phase = "valid", !.order = c, !.row = row]
  <2>1. row \in Row /\ row.status = "PENDING" /\ row.project = p
    BY DEF Row, Statuses
  <2> HIDE DEF row
  <2>2. j \in Job /\ j.op = "create" /\ j.phase = "valid" /\ j.order = c /\ j.row = row
    BY <2>1, IdleIsAJob DEF Job
  <2>3. Hold(r, j) /\ <<"create", <<c, p>>>> \in Sent[r]
    BY <1>1 DEF ValidateNew, Starts, row
  <2>a. RowsStay
    BY <1>1 DEF ValidateNew, RowsStay
  <2> HIDE DEF j
  <2>4. job' \in [Requests -> Job] /\ \A q \in Requests : JobOK(q)'
    BY <2>1, <2>2, <2>3, <2>a, HeldJob DEF HandleOps, DecideOps, PatchOps
  <2>5. QED
    BY <1>1, <2>4 DEF ValidateNew, Shape, TypeOK
<1>2. ASSUME NEW r \in Requests, NEW op \in DecideOps \cup PatchOps, NEW c \in Orders,
             FetchOrder(r, op, c)
      PROVE  Shape'
  <2> DEFINE j == [Idle EXCEPT !.op = op, !.phase = "read", !.order = c, !.row = order[c]]
  <2>1. order[c] \in Row
    BY <1>2 DEF FetchOrder, Shape, TypeOK
  <2>2. j \in Job /\ j.op = op /\ j.phase = "read" /\ j.order = c /\ j.row = order[c]
    <3>1. \A x \in Row : LET h == [Idle EXCEPT !.op = op, !.phase = "read", !.order = c, !.row = x]
                         IN  h \in Job /\ h.op = op /\ h.phase = "read" /\ h.order = c /\ h.row = x
      BY IdleIsAJob DEF Job
    <3>2. QED
      BY <2>1, <3>1
  <2>3. Hold(r, j) /\ <<op, c>> \in Sent[r]
    BY <1>2 DEF FetchOrder, Starts
  <2>a. RowsStay /\ order[c] # NoRow
    BY <1>2 DEF FetchOrder, RowsStay
  <2>4. op \in HandleOps /\ op \notin {"create", "patch"}
    BY DEF HandleOps, DecideOps, PatchOps
  <2> HIDE DEF j
  <2>5. job' \in [Requests -> Job] /\ \A q \in Requests : JobOK(q)'
    BY <2>1, <2>2, <2>3, <2>4, <2>a, HeldJob
  <2>6. QED
    BY <1>2, <2>5 DEF FetchOrder, Shape, TypeOK
<1>3. ASSUME NEW r \in Requests, NEW p \in Projects, NEW n \in Numbers, NEW a \in Amounts,
             ValidatePatch(r, p, n, a)
      PROVE  Shape'
  <2> DEFINE row == [project |-> p, number |-> n, amount |-> a, status |-> job[r].row.status]
             j == [job[r] EXCEPT !.phase = "valid", !.row = row]
  <2>1. job[r] \in Job /\ JobOK(r) /\ job[r].op \in PatchOps
    BY <1>3 DEF ValidatePatch, Shape, TypeOK
  <2>2. /\ job[r].row \in Row /\ job[r].order \in Orders /\ <<job[r].op, job[r].order>> \in Sent[r]
        /\ order[job[r].order] # NoRow
    BY <2>1 DEF JobOK, HandleOps
  <2>3. row \in Row
    BY <2>2 DEF Row
  <2> HIDE DEF row
  <2>4. j \in Job /\ j.op = job[r].op /\ j.phase = "valid" /\ j.order = job[r].order /\ j.row = row
    <3>1. \A x \in Job : LET h == [x EXCEPT !.phase = "valid", !.row = row]
                         IN  h \in Job /\ h.op = x.op /\ h.phase = "valid" /\ h.order = x.order /\ h.row = row
      BY <2>3 DEF Job
    <3>2. QED
      BY <2>1, <3>1
  <2>5. Hold(r, j)
    BY <1>3 DEF ValidatePatch, row
  <2>a. RowsStay
    BY <1>3 DEF ValidatePatch, RowsStay
  <2>6. job[r].op \notin {"create", "patch"}
    BY <2>1 DEF PatchOps
  <2> HIDE DEF j
  <2>7. job' \in [Requests -> Job] /\ \A q \in Requests : JobOK(q)'
    BY <2>1, <2>2, <2>3, <2>4, <2>5, <2>6, <2>a, HeldJob
  <2>8. QED
    BY <1>3, <2>7 DEF ValidatePatch, Shape, TypeOK
<1>4. ASSUME NEW r \in Requests, NEW p \in Projects, FetchProject(r, p) PROVE Shape'
  <2> DEFINE j == [Idle EXCEPT !.op = "patch", !.phase = "read", !.project = p, !.value = value[p]]
  <2>1. value[p] \in Int
    BY DEF Shape, TypeOK
  <2>2. j \in Job /\ j.op = "patch" /\ j.phase = "read" /\ j.project = p
    <3>1. \A v \in Int : LET h == [Idle EXCEPT !.op = "patch", !.phase = "read", !.project = p, !.value = v]
                         IN  h \in Job /\ h.op = "patch" /\ h.phase = "read" /\ h.project = p
      BY IdleIsAJob DEF Job
    <3>2. QED
      BY <2>1, <3>1
  <2>3. Hold(r, j) /\ <<"patch", p>> \in Sent[r]
    BY <1>4 DEF FetchProject, Starts
  <2>a. RowsStay
    BY <1>4 DEF FetchProject, RowsStay
  <2> HIDE DEF j
  <2>4. job' \in [Requests -> Job] /\ \A q \in Requests : JobOK(q)'
    BY <2>2, <2>3, <2>a, HeldJob DEF HandleOps, DecideOps, PatchOps
  <2>5. QED
    BY <1>4, <2>4 DEF FetchProject, Shape, TypeOK
<1>5. ASSUME NEW r \in Requests, SaveOrder(r) PROVE Shape'
  <2>1. JobOK(r) /\ job[r].op \in PatchOps \cup {"create"}
    BY <1>5 DEF SaveOrder, Shape, JobOK
  <2>2. job[r].row \in Row
    BY <2>1 DEF JobOK, HandleOps
  <2>3. order' \in [Orders -> Row \cup {NoRow}] /\ RowsStay
    BY <1>5, <2>2, NoRowIsDifferent DEF SaveOrder, Shape, TypeOK, RowsStay
  <2>4. QED
    BY <1>5, <2>3, FinishedJob DEF SaveOrder, Shape, TypeOK
<1>6. ASSUME NEW r \in Requests, NEW op \in DecideOps, HasRead(r, op), NEW status \in Statuses,
             Decide(r, status), value' \in [Projects -> Int]
      PROVE  Shape'
  <2>1. job[r].order \in Orders /\ order[job[r].order] # NoRow
    <3>1. JobOK(r) /\ job[r].op \in HandleOps
      BY <1>6 DEF Shape, HasRead, HandleOps
    <3>2. QED
      BY <3>1 DEF JobOK
  <2>2. order[job[r].order] \in Row
    BY <2>1 DEF Shape, TypeOK
  <2>3. [order[job[r].order] EXCEPT !.status = status] \in Row
    <3>1. \A x \in Row : [x EXCEPT !.status = status] \in Row
      BY DEF Row
    <3>2. QED
      BY <2>2, <3>1
  <2>4. order' = [order EXCEPT ![job[r].order] = [order[job[r].order] EXCEPT !.status = status]]
    BY <1>6, <2>1 DEF Decide, Shape, TypeOK
  <2>5. order' \in [Orders -> Row \cup {NoRow}] /\ RowsStay
    BY <2>1, <2>3, <2>4, NoRowIsDifferent DEF Shape, TypeOK, RowsStay
  <2>6. Finish(r) /\ base' = base
    BY <1>6 DEF Decide
  <2>7. QED
    BY <1>6, <2>5, <2>6, FinishedJob DEF Shape, TypeOK
<1>7. ASSUME NEW p \in Projects, NEW a \in Int PROVE Raised(p, a) \in [Projects -> Int]
  BY DEF Raised, Shape, TypeOK
<1>8. ASSUME NEW r \in Requests, NEW op \in DecideOps, HasRead(r, op)
      PROVE  /\ job[r].row.project \in Projects
             /\ job[r].row.amount \in Int /\ -job[r].row.amount \in Int
  <2>1. job[r].row \in Row
    BY <1>8 DEF Shape, JobOK, HasRead, HandleOps
  <2>2. job[r].row.amount \in Int
    BY <2>1, RowAmount
  <2>3. QED
    BY <2>1, <2>2 DEF Row
<1>9. ASSUME NEW r \in Requests, Approve(r) PROVE Shape'
  <2>1. HasRead(r, "approve") /\ "approve" \in DecideOps /\ Decide(r, "APPROVED") /\ "APPROVED" \in Statuses
    BY <1>9 DEF Approve, DecideOps, Statuses
  <2>2. value' \in [Projects -> Int]
    BY <1>7, <1>8, <1>9, <2>1 DEF Approve
  <2>3. QED
    BY <1>6, <2>1, <2>2
<1>10. ASSUME NEW r \in Requests, Reject(r) PROVE Shape'
  <2>1. HasRead(r, "reject") /\ "reject" \in DecideOps /\ Decide(r, "REJECTED") /\ "REJECTED" \in Statuses
    BY <1>10 DEF Reject, DecideOps, Statuses
  <2>2. value' \in [Projects -> Int]
    BY <1>10 DEF Reject, Shape, TypeOK
  <2>3. QED
    BY <1>6, <2>1, <2>2
<1>11. ASSUME NEW r \in Requests, Cancel(r) PROVE Shape'
  <2>1. HasRead(r, "cancel") /\ "cancel" \in DecideOps /\ Decide(r, "CANCELLED") /\ "CANCELLED" \in Statuses
    BY <1>11 DEF Cancel, DecideOps, Statuses
  <2>2. value' \in [Projects -> Int]
    BY <1>7, <1>8, <1>11, <2>1 DEF Cancel, Shape, TypeOK
  <2>3. QED
    BY <1>6, <2>1, <2>2
<1>12. ASSUME NEW r \in Requests, HasRead(r, "patch"), Finish(r), UNCHANGED order,
              NEW v \in Int, value' = [value EXCEPT ![job[r].project] = v], base' \in [Projects -> Int]
       PROVE  Shape'
  <2>1. RowsStay
    BY <1>12 DEF RowsStay
  <2>2. QED
    BY <1>12, <2>1, FinishedJob DEF Shape, TypeOK
<1>13. ASSUME NEW r \in Requests, PatchProject(r) PROVE Shape'
  <2>1. job[r].value \in Int
    BY DEF Shape, TypeOK, Job
  <2>2. QED
    BY <1>12, <1>13, <2>1 DEF PatchProject, Shape, TypeOK
<1>14. ASSUME NEW r \in Requests, NEW v \in Values, EnterValue(r, v) PROVE Shape'
  <2>1. v \in Int
    BY ChangeOrdersAssumption
  <2>2. job[r].project \in Projects
    BY <1>14 DEF EnterValue, HasRead, Shape, JobOK
  <2>3. Approved(job[r].project) \in Int
    BY <2>2, ApprovedIsAnInteger DEF Shape
  <2>4. base' \in [Projects -> Int]
    <3> DEFINE w == v - Approved(job[r].project)
    <3>1. w \in Int
      BY <2>1, <2>3
    <3>2. base' = [base EXCEPT ![job[r].project] = w]
      BY <1>14 DEF EnterValue
    <3> HIDE DEF w
    <3>3. QED
      BY <3>1, <3>2 DEF Shape, TypeOK
  <2>5. QED
    BY <1>12, <1>14, <2>1, <2>4 DEF EnterValue
<1>15. ASSUME NEW r \in Requests, Abandon(r) PROVE Shape'
  <2>1. RowsStay
    BY <1>15 DEF Abandon, RowsStay
  <2>2. QED
    BY <1>15, <2>1, FinishedJob DEF Abandon, Shape, TypeOK
<1>16. CASE UNCHANGED vars
  BY <1>16 DEF vars, Shape, TypeOK, JobOK
<1>17. QED
  BY <1>1, <1>2, <1>3, <1>4, <1>5, <1>9, <1>10, <1>11, <1>13, <1>14, <1>15, <1>16 DEF Next

(* The variables of ChangeOrders keep their types. *)
THEOREM TypeCorrect == Spec => []TypeOK
<1>1. Spec => []Shape
  BY InitShape, ShapeKept, PTL DEF Spec
<1>2. Shape => TypeOK
  BY DEF Shape
<1>3. QED
  BY <1>1, <1>2, PTL
-----------------------------------------------------------------------------
(* Every order belongs to a project it may have been created for. *)
CreatedForProject ==
  \A c \in Orders : order[c] # NoRow =>
    \E s \in Requests : <<"create", <<c, order[c].project>>>> \in Sent[s]

(* What a request holds is still true. *)
CopyCurrent(r) ==
  LET j == job[r]
  IN  /\ j.op \in HandleOps => /\ j.row.project = order[j.order].project
                               /\ j.row.amount = order[j.order].amount
                               /\ j.row.status = order[j.order].status
      /\ j.op = "create" => order[j.order] = NoRow
      /\ j.op = "patch" => j.value = value[j.project]

CreatedOnce ==
  \A r, q \in Requests :
    r # q /\ job[r].op = "create" /\ job[q].op = "create" => job[r].order # job[q].order

DesksOK == CreatedForProject /\ CreatedOnce /\ \A r \in Requests : CopyCurrent(r)

(* A request takes up a job, and nothing is written. *)
LEMMA DesksAfterReading ==
  ASSUME Shape, DesksOK, NEW r \in Requests, NEW j, Hold(r, j), UNCHANGED <<value, order>>,
         j.op \in HandleOps => /\ j.row.project = order[j.order].project
                               /\ j.row.amount = order[j.order].amount
                               /\ j.row.status = order[j.order].status,
         j.op = "create" => order[j.order] = NoRow /\ ~Created(j.order),
         j.op = "patch" => j.value = value[j.project]
  PROVE  DesksOK'
<1>1. job'[r] = j /\ \A q \in Requests \ {r} : job'[q] = job[q]
  BY DEF Hold, Shape, TypeOK
<1>2. CreatedForProject'
  BY DEF DesksOK, CreatedForProject
<1>3. CreatedOnce'
  <2>1. ASSUME NEW q \in Requests, j.op = "create", job[q].op = "create" PROVE job[q].order # j.order
    BY <2>1 DEF Created
  <2>2. QED
    BY <1>1, <2>1 DEF DesksOK, CreatedOnce
<1>4. ASSUME NEW q \in Requests PROVE CopyCurrent(q)'
  <2>1. CASE q = r
    BY <1>1, <2>1 DEF CopyCurrent
  <2>2. CASE q # r
    BY <1>1, <2>2 DEF CopyCurrent, DesksOK
  <2>3. QED
    BY <2>1, <2>2
<1>5. QED
  BY <1>2, <1>3, <1>4 DEF DesksOK

(* A request writes one order, and perhaps the contract value of its       *)
(* project: no other request holds a copy of either.                       *)
LEMMA DesksAfterOrderWrite ==
  ASSUME SeparateDesks, Shape, DesksOK, NEW r \in Requests, Finish(r),
         job[r].op \in HandleOps \cup {"create"},
         \A d \in Orders \ {job[r].order} : order'[d] = order[d],
         order'[job[r].order].project = job[r].row.project,
         job[r].op = "create" => value' = value,
         \A p \in Projects \ {job[r].row.project} : value'[p] = value[p]
  PROVE  DesksOK'
<1> DEFINE c == job[r].order
<1>1. job'[r] = Idle /\ \A q \in Requests \ {r} : job'[q] = job[q]
  BY DEF Finish, Shape, TypeOK
<1>2. c \in Orders /\ JobOK(r) /\ CopyCurrent(r)
  BY DEF Shape, JobOK, DesksOK
<1>3. job[r].op \in HandleOps => Handles(r, c)
  BY <1>2 DEF JobOK, Handles
<1>4. \E s \in Requests : <<"create", <<c, job[r].row.project>>>> \in Sent[s]
  <2>1. CASE job[r].op = "create"
    BY <1>2, <2>1 DEF JobOK
  <2>2. CASE job[r].op \in HandleOps
    <3>1. order[c] # NoRow /\ order[c].project = job[r].row.project
      BY <1>2, <2>2 DEF JobOK, CopyCurrent
    <3>2. QED
      BY <1>2, <3>1 DEF DesksOK, CreatedForProject
  <2>3. QED
    BY <2>1, <2>2
<1>5. CreatedForProject'
  BY <1>2, <1>4 DEF DesksOK, CreatedForProject
<1>6. CreatedOnce'
  BY <1>1, IdleIsAJob DEF DesksOK, CreatedOnce
<1>7. ASSUME NEW q \in Requests \ {r} PROVE CopyCurrent(q)'
  <2> DEFINE d == job[q].order
  <2>1. JobOK(q) /\ CopyCurrent(q) /\ job'[q] = job[q]
    BY <1>1 DEF Shape, DesksOK
  <2>2. CASE job[q].op \in HandleOps
    <3>1. d \in Orders /\ Handles(q, d) /\ order[d] # NoRow
      BY <2>1, <2>2 DEF JobOK, Handles
    <3>2. d # c
      <4>1. CASE job[r].op \in HandleOps
        BY <1>2, <1>3, <3>1, <4>1 DEF SeparateDesks
      <4>2. CASE job[r].op = "create"
        BY <1>2, <3>1, <4>2 DEF CopyCurrent
      <4>3. QED
        BY <4>1, <4>2
    <3>3. order'[d] = order[d] /\ job[q].op # "create" /\ job[q].op # "patch"
      BY <2>2, <3>1, <3>2 DEF HandleOps, DecideOps, PatchOps
    <3>4. QED
      BY <2>1, <3>3 DEF CopyCurrent
  <2>3. CASE job[q].op = "create"
    <3>1. d \in Orders /\ order[d] = NoRow
      BY <2>1, <2>3 DEF JobOK, CopyCurrent
    <3>2. d # c
      <4>1. CASE job[r].op \in HandleOps
        BY <1>2, <3>1, <4>1 DEF JobOK
      <4>2. CASE job[r].op = "create"
        BY <2>3, <4>2 DEF DesksOK, CreatedOnce
      <4>3. QED
        BY <4>1, <4>2
    <3>3. order'[d] = order[d] /\ job[q].op \notin HandleOps /\ job[q].op # "patch"
      BY <2>3, <3>1, <3>2 DEF HandleOps, DecideOps, PatchOps
    <3>4. QED
      BY <2>1, <3>3 DEF CopyCurrent
  <2>4. CASE job[q].op = "patch"
    <3>1. job[q].project \in Projects /\ <<"patch", job[q].project>> \in Sent[q]
      BY <2>1, <2>4 DEF JobOK
    <3>2. value'[job[q].project] = value[job[q].project]
      <4>1. CASE job[r].op = "create"
        BY <4>1
      <4>2. CASE job[r].op \in HandleOps
        <5>1. job[q].project # job[r].row.project
          BY <1>2, <1>3, <1>4, <3>1, <4>2 DEF SeparateDesks
        <5>2. QED
          BY <3>1, <5>1
      <4>3. QED
        BY <4>1, <4>2
    <3>3. job[q].op \notin HandleOps /\ job[q].op # "create"
      BY <2>4 DEF HandleOps, DecideOps, PatchOps
    <3>4. QED
      BY <2>1, <3>2, <3>3 DEF CopyCurrent
  <2>5. CASE job[q].op \notin HandleOps \cup {"create", "patch"}
    BY <2>1, <2>5 DEF CopyCurrent
  <2>6. QED
    BY <2>2, <2>3, <2>4, <2>5
<1>8. CopyCurrent(r)'
  BY <1>1, IdleIsAJob DEF CopyCurrent, HandleOps, DecideOps, PatchOps
<1>9. QED
  BY <1>5, <1>6, <1>7, <1>8 DEF DesksOK

(* A request writes the contract value it has read, or a new one. *)
LEMMA DesksAfterProjectWrite ==
  ASSUME SeparateDesks, Shape, DesksOK, NEW r \in Requests, Finish(r), job[r].op = "patch",
         order' = order, \A p \in Projects \ {job[r].project} : value'[p] = value[p]
  PROVE  DesksOK'
<1>1. job'[r] = Idle /\ \A q \in Requests \ {r} : job'[q] = job[q]
  BY DEF Finish, Shape, TypeOK
<1>2. CreatedForProject' /\ CreatedOnce'
  BY <1>1, IdleIsAJob DEF DesksOK, CreatedForProject, CreatedOnce
<1>3. <<"patch", job[r].project>> \in Sent[r] /\ job[r].project \in Projects
  BY DEF Shape, JobOK
<1>4. ASSUME NEW q \in Requests \ {r} PROVE CopyCurrent(q)'
  <2>1. JobOK(q) /\ CopyCurrent(q) /\ job'[q] = job[q]
    BY <1>1 DEF Shape, DesksOK
  <2>2. job[q].op = "patch" => value'[job[q].project] = value[job[q].project]
    BY <1>3, <2>1 DEF JobOK, SeparateDesks
  <2>3. QED
    BY <2>1, <2>2 DEF CopyCurrent
<1>5. CopyCurrent(r)'
  BY <1>1, IdleIsAJob DEF CopyCurrent, HandleOps, DecideOps, PatchOps
<1>6. QED
  BY <1>2, <1>4, <1>5 DEF DesksOK
-----------------------------------------------------------------------------
IInv == Shape /\ DesksOK /\ ContractAgrees

LEMMA InitIInv == Init => IInv
<1> SUFFICES ASSUME Init PROVE IInv
  OBVIOUS
<1>1. Shape
  BY InitShape
<1>2. DesksOK
  BY IdleIsAJob DEF Init, DesksOK, CreatedForProject, CreatedOnce, CopyCurrent, HandleOps,
     DecideOps, PatchOps
<1>3. ASSUME NEW p \in Projects PROVE Approved(p) = 0
  <2> DEFINE f == [c \in Orders |-> Added(c, p)]
             g == [c \in Orders |-> Deducted(c, p)]
  <2>1. \A c \in Orders : ~Counts(c, p)
    BY NoRowIsDifferent DEF Init, Counts
  <2>2. f = g
    BY <2>1 DEF Added, Deducted
  <2>3. f \in [Orders -> Nat]
    BY <2>1 DEF Added
  <2> HIDE DEF f, g
  <2>4. SumOf(f) \in Nat
    BY <2>3, SumIsNatural, ChangeOrdersAssumption
  <2>5. QED
    BY <2>2, <2>4 DEF Approved, f, g
<1>4. ContractAgrees
  BY <1>1, <1>3 DEF ContractAgrees, Init, Shape, TypeOK
<1>5. QED
  BY <1>1, <1>2, <1>4 DEF IInv

(* A step that leaves the orders and the contract values alone. *)
LEMMA NothingMoves ==
  ASSUME ContractAgrees, UNCHANGED <<value, order, base>>
  PROVE  ContractAgrees'
  BY DEF ContractAgrees, Approved, Added, Deducted, Counts, Above

(* A step that writes one order and moves each contract value by what the  *)
(* order's effect on it changes.                                           *)
LEMMA ValueFollowsOrder ==
  ASSUME Shape, Shape', ContractAgrees, NEW c \in Orders, base' = base,
         \A d \in Orders \ {c} : order'[d] = order[d],
         \A p \in Projects : value'[p] = value[p] + (Effect(c, p)' - Effect(c, p))
  PROVE  ContractAgrees'
<1>1. ASSUME NEW p \in Projects PROVE value'[p] = base'[p] + Approved(p)'
  <2>1. Approved(p)' = Approved(p) + (Effect(c, p)' - Effect(c, p))
    BY ApprovedMoves DEF Shape
  <2>2. value[p] = base[p] + Approved(p)
    BY DEF ContractAgrees
  <2>3. Approved(p) \in Int /\ base[p] \in Int
    BY ApprovedIsAnInteger DEF Shape, TypeOK
  <2>4. Effect(c, p) \in Int /\ Effect(c, p)' \in Int
    BY RowAmount DEF Effect, Shape, TypeOK
  <2>5. QED
    BY <2>1, <2>2, <2>3, <2>4
<1>2. QED
  BY <1>1 DEF ContractAgrees

LEMMA Reading ==
  ASSUME IInv, NEW r \in Requests,
         \/ \E c \in Orders, p \in Projects, n \in Numbers, a \in Amounts : ValidateNew(r, c, p, n, a)
         \/ \E op \in DecideOps \cup PatchOps, c \in Orders : FetchOrder(r, op, c)
         \/ \E p \in Projects : FetchProject(r, p)
         \/ Abandon(r)
  PROVE  DesksOK' /\ ContractAgrees'
<1> USE DEF IInv
<1>1. ASSUME NEW c \in Orders, NEW p \in Projects, NEW n \in Numbers, NEW a \in Amounts,
             ValidateNew(r, c, p, n, a)
      PROVE  DesksOK' /\ ContractAgrees'
  <2> DEFINE j == [Idle EXCEPT !.op = "create", !.phase = "valid", !.order = c,
                     !.row = [project |-> p, number |-> n, amount |-> a, status |-> "PENDING"]]
  <2>1. j.op = "create" /\ j.order = c /\ "create" \notin HandleOps
    BY DEF Idle, HandleOps, DecideOps, PatchOps
  <2>2. Hold(r, j) /\ UNCHANGED <<value, order, base>> /\ ~Created(c) /\ order[c] = NoRow
    BY <1>1 DEF ValidateNew, Created
  <2> HIDE DEF j
  <2>3. QED
    BY <2>1, <2>2, DesksAfterReading, NothingMoves
<1>2. ASSUME NEW op \in DecideOps \cup PatchOps, NEW c \in Orders, FetchOrder(r, op, c)
      PROVE  DesksOK' /\ ContractAgrees'
  <2> DEFINE j == [Idle EXCEPT !.op = op, !.phase = "read", !.order = c, !.row = order[c]]
  <2>1. j.op = op /\ j.order = c /\ j.row = order[c] /\ op # "create" /\ op # "patch"
    BY DEF Idle, DecideOps, PatchOps
  <2>2. Hold(r, j) /\ UNCHANGED <<value, order, base>>
    BY <1>2 DEF FetchOrder
  <2> HIDE DEF j
  <2>3. QED
    BY <2>1, <2>2, DesksAfterReading, NothingMoves
<1>3. ASSUME NEW p \in Projects, FetchProject(r, p) PROVE DesksOK' /\ ContractAgrees'
  <2> DEFINE j == [Idle EXCEPT !.op = "patch", !.phase = "read", !.project = p, !.value = value[p]]
  <2>1. /\ j.op = "patch" /\ j.project = p /\ j.value = value[p]
        /\ "patch" \notin HandleOps /\ "patch" # "create"
    BY DEF Idle, HandleOps, DecideOps, PatchOps
  <2>2. Hold(r, j) /\ UNCHANGED <<value, order, base>>
    BY <1>3 DEF FetchProject
  <2> HIDE DEF j
  <2>3. QED
    BY <2>1, <2>2, DesksAfterReading, NothingMoves
<1>4. ASSUME Abandon(r) PROVE DesksOK' /\ ContractAgrees'
  <2>1. Hold(r, Idle) /\ UNCHANGED <<value, order, base>>
    BY <1>4 DEF Abandon, Finish, Hold
  <2>2. Idle.op \notin HandleOps \cup {"create", "patch"}
    BY IdleIsAJob DEF HandleOps, DecideOps, PatchOps
  <2>3. QED
    BY <2>1, <2>2, DesksAfterReading, NothingMoves
<1>5. QED
  BY <1>1, <1>2, <1>3, <1>4

LEMMA Validating ==
  ASSUME SeparateDesks, IInv, NEW r \in Requests, NEW p \in Projects, NEW n \in Numbers,
         NEW a \in Amounts, ValidatePatch(r, p, n, a)
  PROVE  DesksOK' /\ ContractAgrees'
<1> DEFINE row == [project |-> p, number |-> n, amount |-> a, status |-> job[r].row.status]
           j == [job[r] EXCEPT !.phase = "valid", !.row = row]
<1>1. /\ Hold(r, j) /\ UNCHANGED <<value, order, base>> /\ job[r].op \in PatchOps
      /\ job[r].op = "reword" => p = job[r].row.project /\ a = job[r].row.amount
  BY DEF ValidatePatch
<1>2. job[r] \in Job /\ JobOK(r) /\ CopyCurrent(r)
  BY DEF IInv, Shape, TypeOK, DesksOK
<1>3. job[r].op = "reword" /\ "reword" \in HandleOps
  BY <1>1, <1>2 DEF JobOK, SeparateDesks, PatchOps, HandleOps
<1>4. j.op = job[r].op /\ j.order = job[r].order /\ j.row = row
  <2> HIDE DEF row
  <2>1. QED
    BY <1>2 DEF Job
<1>5. row.project = p /\ row.amount = a /\ row.status = job[r].row.status
  OBVIOUS
<1> HIDE DEF j, row
<1>6. /\ j.row.project = order[j.order].project
      /\ j.row.amount = order[j.order].amount
      /\ j.row.status = order[j.order].status
  BY <1>1, <1>2, <1>3, <1>4, <1>5 DEF CopyCurrent
<1>7. j.op # "create" /\ j.op # "patch"
  BY <1>3, <1>4
<1>8. QED
  BY <1>1, <1>6, <1>7, DesksAfterReading, NothingMoves DEF IInv

(* The row of a job that holds an order, and what it is in the table. *)
LEMMA HeldRow ==
  ASSUME IInv, NEW r \in Requests, job[r].op \in HandleOps
  PROVE  LET c == job[r].order
             row == job[r].row
         IN  /\ c \in Orders /\ order[c] \in Row /\ row \in Row
             /\ row.project = order[c].project /\ row.project \in Projects
             /\ row.amount = order[c].amount /\ row.amount \in Int
             /\ row.status = order[c].status
<1>1. JobOK(r) /\ CopyCurrent(r) /\ TypeOK
  BY DEF IInv, Shape, DesksOK
<1>2. job[r].order \in Orders /\ order[job[r].order] \in Row /\ job[r].row \in Row
  BY <1>1 DEF JobOK, TypeOK
<1>3. job[r].row.project \in Projects /\ job[r].row.amount \in Int
  BY <1>2, RowAmount DEF Row
<1>4. QED
  BY <1>1, <1>2, <1>3 DEF CopyCurrent

LEMMA Saving ==
  ASSUME SeparateDesks, IInv, NEW r \in Requests, SaveOrder(r), Shape'
  PROVE  DesksOK' /\ ContractAgrees'
<1>1. job[r].op \in HandleOps \cup {"create"} /\ job[r].order \in Orders
  BY DEF SaveOrder, IInv, Shape, JobOK, HandleOps
<1>2. PICK c \in Orders : c = job[r].order
  BY <1>1
<1>3. PICK row : row = job[r].row
  OBVIOUS
<1>4. /\ order'[c] = row /\ \A d \in Orders \ {c} : order'[d] = order[d]
      /\ value' = value /\ base' = base /\ Finish(r)
  BY <1>2, <1>3 DEF SaveOrder, IInv, Shape, TypeOK
<1>5. DesksOK'
  BY <1>1, <1>2, <1>3, <1>4, DesksAfterOrderWrite DEF IInv
<1>6. ASSUME NEW p \in Projects PROVE Effect(c, p)' = Effect(c, p)
  <2>1. CASE job[r].op \in HandleOps
    BY <1>2, <1>3, <1>4, <2>1, HeldRow DEF Effect, Counts
  <2>2. CASE job[r].op = "create"
    <3>1. order[c] = NoRow /\ row.status = "PENDING"
      BY <1>2, <1>3, <2>2 DEF IInv, DesksOK, CopyCurrent, Shape, JobOK
    <3>2. QED
      BY <1>4, <3>1, NoRowIsDifferent DEF Effect, Counts
  <2>3. QED
    BY <1>1, <2>1, <2>2
<1>7. \A p \in Projects : value'[p] = value[p] + (Effect(c, p)' - Effect(c, p))
  <2>1. \A p \in Projects : Effect(c, p) \in Int /\ value[p] \in Int
    BY RowAmount DEF Effect, IInv, Shape, TypeOK
  <2>2. QED
    BY <1>4, <1>6, <2>1
<1>8. ContractAgrees'
  BY <1>4, <1>7, ValueFollowsOrder DEF IInv
<1>9. QED
  BY <1>5, <1>8

(* A decision: the contract value of the order's project moves by delta,   *)
(* which is what the change of the status adds.                            *)
LEMMA Deciding ==
  ASSUME SeparateDesks, IInv, Shape', NEW r \in Requests, NEW status \in Statuses, NEW delta \in Int,
         job[r].op \in HandleOps, Decide(r, status),
         \A p \in Projects : value'[p] = IF p = job[r].row.project THEN value[p] + delta ELSE value[p],
         delta = (IF status = "APPROVED" THEN job[r].row.amount ELSE 0)
                 - (IF job[r].row.status = "APPROVED" THEN job[r].row.amount ELSE 0)
  PROVE  DesksOK' /\ ContractAgrees'
<1>1. PICK c \in Orders, row \in Row : c = job[r].order /\ row = job[r].row
  BY HeldRow
<1>2. /\ order[c] \in Row /\ row.project = order[c].project
      /\ row.project \in Projects /\ row.amount = order[c].amount /\ row.amount \in Int
      /\ row.status = order[c].status
  BY <1>1, HeldRow
<1>3. order'[c] = [order[c] EXCEPT !.status = status] /\ \A d \in Orders \ {c} : order'[d] = order[d]
  BY <1>1 DEF Decide, IInv, Shape, TypeOK
<1>4. /\ order'[c].project = order[c].project /\ order'[c].amount = order[c].amount
      /\ order'[c].status = status
  <2>1. \A x \in Row : LET y == [x EXCEPT !.status = status]
                       IN  y.project = x.project /\ y.amount = x.amount /\ y.status = status
    BY DEF Row
  <2>2. QED
    BY <1>2, <1>3, <2>1
<1>5. Finish(r) /\ base' = base /\ job[r].op # "create"
  BY SMTT(30) DEF Decide, HandleOps, DecideOps, PatchOps
<1>6. DesksOK'
  BY <1>1, <1>2, <1>3, <1>4, <1>5, DesksAfterOrderWrite DEF IInv
<1>7. ASSUME NEW p \in Projects PROVE value'[p] = value[p] + (Effect(c, p)' - Effect(c, p))
  <2>1. value[p] \in Int
    BY DEF IInv, Shape, TypeOK
  <2>2. CASE p = row.project
    <3>1. Effect(c, p) = IF row.status = "APPROVED" THEN row.amount ELSE 0
      BY <1>2, <2>2 DEF Effect, Counts
    <3>2. Effect(c, p)' = IF status = "APPROVED" THEN row.amount ELSE 0
      BY <1>2, <1>4, <2>2 DEF Effect, Counts
    <3>3. value'[p] = value[p] + delta
      BY <1>1, <2>2
    <3>4. delta = Effect(c, p)' - Effect(c, p)
      BY <1>1, <3>1, <3>2
    <3>5. QED
      BY <3>3, <3>4
  <2>3. CASE p # row.project
    <3>1. Effect(c, p) = 0 /\ Effect(c, p)' = 0
      BY <1>2, <1>4, <2>3 DEF Effect, Counts
    <3>2. value'[p] = value[p]
      BY <1>1, <2>3
    <3>3. QED
      BY <2>1, <3>1, <3>2
  <2>4. QED
    BY <2>2, <2>3
<1>8. ContractAgrees'
  BY <1>3, <1>5, <1>7, ValueFollowsOrder DEF IInv
<1>9. QED
  BY <1>6, <1>8

LEMMA Approving ==
  ASSUME SeparateDesks, IInv, Shape', NEW r \in Requests, Approve(r)
  PROVE  DesksOK' /\ ContractAgrees'
<1>1. job[r].op \in HandleOps /\ job[r].row.status = "PENDING" /\ Decide(r, "APPROVED")
  BY DEF Approve, HasRead, HandleOps, DecideOps
<1>2. job[r].row.amount \in Int /\ job[r].row.project \in Projects
  BY <1>1, HeldRow
<1>3. \A p \in Projects : value'[p] = IF p = job[r].row.project THEN value[p] + job[r].row.amount ELSE value[p]
  BY <1>2 DEF Approve, Raised, IInv, Shape, TypeOK
<1>4. QED
  BY <1>1, <1>2, <1>3, Deciding DEF Statuses

LEMMA Rejecting ==
  ASSUME SeparateDesks, IInv, Shape', NEW r \in Requests, Reject(r)
  PROVE  DesksOK' /\ ContractAgrees'
<1>1. /\ job[r].op \in HandleOps /\ job[r].row.status = "PENDING" /\ Decide(r, "REJECTED")
      /\ value' = value
  BY DEF Reject, HasRead, HandleOps, DecideOps
<1>2. \A p \in Projects : value'[p] = IF p = job[r].row.project THEN value[p] + 0 ELSE value[p]
  BY <1>1 DEF IInv, Shape, TypeOK
<1>3. QED
  BY <1>1, <1>2, Deciding DEF Statuses

LEMMA Cancelling ==
  ASSUME SeparateDesks, IInv, Shape', NEW r \in Requests, Cancel(r)
  PROVE  DesksOK' /\ ContractAgrees'
<1>1. job[r].op \in HandleOps /\ Decide(r, "CANCELLED")
  BY DEF Cancel, HasRead, HandleOps, DecideOps
<1>2. job[r].row.amount \in Int /\ -job[r].row.amount \in Int /\ job[r].row.project \in Projects
  BY <1>1, HeldRow
<1>3. CASE job[r].row.status = "APPROVED"
  <2>1. \A p \in Projects :
          value'[p] = IF p = job[r].row.project THEN value[p] + (-job[r].row.amount) ELSE value[p]
    BY <1>2, <1>3 DEF Cancel, Raised, IInv, Shape, TypeOK
  <2>2. QED
    BY <1>1, <1>2, <1>3, <2>1, Deciding DEF Statuses
<1>4. CASE job[r].row.status # "APPROVED"
  <2>1. \A p \in Projects : value'[p] = IF p = job[r].row.project THEN value[p] + 0 ELSE value[p]
    BY <1>4 DEF Cancel, IInv, Shape, TypeOK
  <2>2. QED
    BY <1>1, <1>4, <2>1, Deciding DEF Statuses
<1>5. QED
  BY <1>3, <1>4

LEMMA Patching ==
  ASSUME SeparateDesks, IInv, NEW r \in Requests, PatchProject(r)
  PROVE  DesksOK' /\ ContractAgrees'
<1>1. job[r].op = "patch" /\ job[r].project \in Projects /\ job[r].value = value[job[r].project]
  BY DEF PatchProject, HasRead, IInv, Shape, DesksOK, JobOK, CopyCurrent
<1>2. value' = value /\ order' = order /\ base' = base /\ Finish(r)
  BY <1>1 DEF PatchProject, IInv, Shape, TypeOK
<1>3. QED
  BY <1>1, <1>2, DesksAfterProjectWrite, NothingMoves DEF IInv

LEMMA Entering ==
  ASSUME SeparateDesks, IInv, NEW r \in Requests, NEW v \in Values, EnterValue(r, v)
  PROVE  DesksOK' /\ ContractAgrees'
<1>1. PICK q \in Projects : q = job[r].project
  BY DEF EnterValue, HasRead, IInv, Shape, JobOK
<1>2. job[r].op = "patch" /\ order' = order /\ Finish(r)
  BY DEF EnterValue, HasRead
<1>3. v \in Int /\ \A p \in Projects : Approved(p) \in Int /\ base[p] \in Int /\ value[p] \in Int
  BY ApprovedIsAnInteger, ChangeOrdersAssumption DEF IInv, Shape, TypeOK
<1>4. value'[q] = v /\ \A p \in Projects \ {q} : value'[p] = value[p]
  BY <1>1 DEF EnterValue, IInv, Shape, TypeOK
<1>5. base'[q] = v - Approved(q) /\ \A p \in Projects \ {q} : base'[p] = base[p]
  <2>1. PICK w : w = v - Approved(q)
    OBVIOUS
  <2>2. base' = [base EXCEPT ![q] = w]
    BY <1>1, <2>1 DEF EnterValue
  <2>3. QED
    BY <2>1, <2>2 DEF IInv, Shape, TypeOK
<1>6. \A p \in Projects : Approved(p)' = Approved(p)
  BY <1>2 DEF Approved, Added, Deducted, Counts, Above
<1>7. ContractAgrees'
  <2>1. ASSUME NEW p \in Projects PROVE value'[p] = base'[p] + Approved(p)'
    <3>1. CASE p = q
      BY <1>3, <1>4, <1>5, <1>6, <3>1
    <3>2. CASE p # q
      BY <1>4, <1>5, <1>6, <3>2 DEF IInv, ContractAgrees
    <3>3. QED
      BY <3>1, <3>2
  <2>2. QED
    BY <2>1 DEF ContractAgrees
<1>8. DesksOK'
  BY <1>1, <1>2, <1>4, DesksAfterProjectWrite DEF IInv
<1>9. QED
  BY <1>7, <1>8

LEMMA IInvKept == SeparateDesks /\ IInv /\ [Next]_vars => IInv'
<1> SUFFICES ASSUME SeparateDesks, IInv, [Next]_vars PROVE IInv'
  OBVIOUS
<1>1. Shape'
  BY ShapeKept DEF IInv
<1>2. CASE UNCHANGED vars
  <2>1. DesksOK'
    BY <1>2 DEF vars, IInv, DesksOK, CreatedForProject, CreatedOnce, CopyCurrent
  <2>2. QED
    BY <1>1, <1>2, <2>1, NothingMoves DEF vars, IInv
<1>3. CASE Next
  <2>1. DesksOK' /\ ContractAgrees'
    BY <1>1, <1>3, Reading, Validating, Saving, Approving, Rejecting, Cancelling, Patching, Entering
       DEF Next
  <2>2. QED
    BY <1>1, <2>1 DEF IInv
<1>4. QED
  BY <1>2, <1>3

(* With separate desks, contract values agree with the orders approved,    *)
(* whatever decisions run side by side.                                    *)
THEOREM ContractAlwaysAgrees == SeparateDesks => (Spec => []ContractAgrees)
<1>1. SeparateDesks /\ IInv /\ [Next]_vars => IInv'
  BY IInvKept
<1>2. IInv => ContractAgrees
  BY DEF IInv
<1>3. ASSUME SeparateDesks PROVE Spec => []ContractAgrees
  <2>1. IInv /\ [Next]_vars => IInv'
    BY <1>1, <1>3, SMTT(30)
  <2>2. QED
    BY <1>2, <2>1, InitIInv, PTL DEF Spec
<1>4. QED
  BY <1>3

StatusStep ==
  \A c \in Orders : order'[c].status # order[c].status =>
    <<order[c].status, order'[c].status>> \in AllowedTransitions

LEMMA StatusSteps == SeparateDesks /\ IInv /\ [Next]_vars => StatusStep
<1> SUFFICES ASSUME SeparateDesks, IInv, [Next]_vars, NEW c \in Orders,
                    order'[c].status # order[c].status
             PROVE  <<order[c].status, order'[c].status>> \in AllowedTransitions
  BY DEF StatusStep
<1>1. ASSUME NEW r \in Requests, SaveOrder(r)
      PROVE  <<order[c].status, order'[c].status>> \in AllowedTransitions
  <2>1. c = job[r].order /\ order'[c] = job[r].row
    BY <1>1 DEF SaveOrder, IInv, Shape, TypeOK
  <2>2. job[r].op \in HandleOps \cup {"create"}
    BY <1>1 DEF SaveOrder, IInv, Shape, JobOK, HandleOps
  <2>3. CASE job[r].op \in HandleOps
    BY <2>1, <2>3, HeldRow
  <2>4. CASE job[r].op = "create"
    <3>1. order[c] = NoRow /\ job[r].row.status = "PENDING"
      BY <2>1, <2>4 DEF IInv, DesksOK, CopyCurrent, Shape, JobOK
    <3>2. QED
      BY <2>1, <3>1, NoRowIsDifferent DEF AllowedTransitions
  <2>5. QED
    BY <2>2, <2>3, <2>4
<1>2. ASSUME NEW r \in Requests, NEW op \in DecideOps, HasRead(r, op), NEW status, Decide(r, status)
      PROVE  order[c].status = job[r].row.status /\ order'[c].status = status
  <2>1. job[r].op \in HandleOps
    BY <1>2 DEF HasRead, HandleOps
  <2>2. c = job[r].order
    BY <1>2 DEF Decide, IInv, Shape, TypeOK
  <2>3. order[c] \in Row /\ order[c].status = job[r].row.status
    BY <2>1, <2>2, HeldRow
  <2>4. order'[c] = [order[c] EXCEPT !.status = status]
    BY <1>2, <2>2 DEF Decide, IInv, Shape, TypeOK
  <2>5. \A x \in Row : [x EXCEPT !.status = status].status = status
    BY DEF Row
  <2>6. QED
    BY <2>3, <2>4, <2>5
<1>3. ASSUME NEW r \in Requests, Approve(r) \/ Reject(r) \/ Cancel(r)
      PROVE  <<order[c].status, order'[c].status>> \in AllowedTransitions
  BY <1>2, <1>3 DEF Approve, Reject, Cancel, DecideOps, CancellableFrom, AllowedTransitions
<1>4. CASE order' = order
  BY <1>4
<1>5. QED
  BY <1>1, <1>3, <1>4, ZenonT(30) DEF Next, vars, ValidateNew, FetchOrder, ValidatePatch, FetchProject,
     PatchProject, EnterValue, Abandon

(* With separate desks, the status of a change order only ever moves along *)
(* the transitions that the model allows.                                  *)
THEOREM DecisionsAlwaysStick == SeparateDesks => (Spec => DecisionsStick)
<1>1. ASSUME SeparateDesks PROVE Spec => DecisionsStick
  <2>1. IInv /\ [Next]_vars => IInv'
    BY <1>1, IInvKept
  <2>2. IInv /\ [Next]_vars => [StatusStep]_vars
    BY <1>1, StatusSteps
  <2>3. Spec => [][StatusStep]_vars
    BY <2>1, <2>2, InitIInv, PTL DEF Spec
  <2>4. QED
    BY <2>3 DEF StatusStep, DecisionsStick
<1>2. QED
  BY <1>1
-----------------------------------------------------------------------------
(* Numbers.  They are looked up when a request is validated and written    *)
(* when it is saved; no constraint of the table stands behind that.        *)

(* A number found free stays free until it is saved.                       *)
NumberFree(r) ==
  job[r].phase = "valid" =>
    ~NumberTakenByOthers(job[r].order, job[r].row.project, job[r].row.number)

NumbersInv == Shape /\ NumbersUnique /\ \A r \in Requests : NumberFree(r)

LEMMA EditorsAreOne ==
  ASSUME OneEditor, Shape, NEW r \in Requests, NEW q \in Requests,
         job[r].phase = "valid", job[q].phase = "valid"
  PROVE  r = q
<1>1. ASSUME NEW s \in Requests, job[s].phase = "valid" PROVE GivesNumbers(s)
  <2>1. JobOK(s) /\ job[s].op \in PatchOps \cup {"create"}
    BY <1>1 DEF Shape, JobOK
  <2>2. CASE job[s].op \in PatchOps
    <3>1. job[s].order \in Orders /\ <<job[s].op, job[s].order>> \in Sent[s]
      BY <2>1, <2>2 DEF JobOK, HandleOps
    <3>2. QED
      BY <2>2, <3>1 DEF GivesNumbers
  <2>3. CASE job[s].op = "create"
    <3>1. /\ job[s].order \in Orders /\ job[s].row.project \in Projects
          /\ <<"create", <<job[s].order, job[s].row.project>>>> \in Sent[s]
      BY <2>1, <2>3 DEF JobOK, Row
    <3>2. QED
      BY <3>1 DEF GivesNumbers
  <2>4. QED
    BY <2>1, <2>2, <2>3
<1>2. QED
  BY <1>1 DEF OneEditor

(* A step that leaves projects and numbers alone, and validates nothing    *)
(* that is taken.                                                          *)
LEMMA NumbersStand ==
  ASSUME NumbersInv, Shape', NEW r \in Requests,
         \A c \in Orders : /\ order'[c].project = order[c].project
                           /\ order'[c].number = order[c].number
                           /\ order[c] = NoRow => order'[c] = NoRow,
         \A q \in Requests \ {r} : job'[q] = job[q], NumberFree(r)'
  PROVE  NumbersInv'
<1>1. ASSUME NEW q \in Requests PROVE NumberFree(q)'
  <2>1. CASE q = r
    BY <2>1
  <2>2. CASE q # r
    <3>1. job'[q] = job[q] /\ NumberFree(q)
      BY <2>2 DEF NumbersInv
    <3>2. QED
      BY <3>1 DEF NumberFree, NumberTakenByOthers
  <2>3. QED
    BY <2>1, <2>2
<1>2. NumbersUnique'
  BY DEF NumbersInv, NumbersUnique
<1>3. QED
  BY <1>1, <1>2 DEF NumbersInv

LEMMA NumbersSaved ==
  ASSUME OneEditor, NumbersInv, Shape', NEW r \in Requests, SaveOrder(r)
  PROVE  NumbersInv'
<1> DEFINE c == job[r].order
           row == job[r].row
<1>1. Shape /\ job[r].phase = "valid" /\ order' = [order EXCEPT ![c] = row]
  BY DEF SaveOrder, NumbersInv
<1>2. c \in Orders /\ row \in Row
  <2>1. JobOK(r) /\ job[r].op \in PatchOps \cup {"create"}
    BY <1>1 DEF Shape, JobOK
  <2>2. QED
    BY <2>1 DEF JobOK, HandleOps
<1>3. job'[r] = Idle /\ \A q \in Requests \ {r} : job'[q] = job[q]
  BY <1>1 DEF SaveOrder, Finish, Shape, TypeOK
<1>4. order'[c] = row /\ \A d \in Orders \ {c} : order'[d] = order[d]
  BY <1>1, <1>2 DEF Shape, TypeOK
<1>5. \A d \in Orders \ {c} : ~(order[d].project = row.project /\ order[d].number = row.number)
  BY <1>1 DEF NumbersInv, NumberFree, NumberTakenByOthers
<1>6. NumbersUnique'
  <2> SUFFICES ASSUME NEW a \in Orders, NEW b \in Orders, a # b, order'[a] # NoRow,
                      order'[a].project = order'[b].project
               PROVE  order'[a].number # order'[b].number
    BY DEF NumbersUnique
  <2> HIDE DEF c, row
  <2>1. CASE a = c
    BY <1>4, <1>5, <2>1
  <2>2. CASE b = c
    BY <1>4, <1>5, <2>2
  <2>3. CASE a # c /\ b # c
    BY <1>4, <2>3 DEF NumbersInv, NumbersUnique
  <2>4. QED
    BY <2>1, <2>2, <2>3
<1>7. ASSUME NEW q \in Requests PROVE NumberFree(q)'
  <2>1. job'[q].phase # "valid"
    BY <1>1, <1>3, EditorsAreOne, IdleIsAJob
  <2>2. QED
    BY <2>1 DEF NumberFree
<1>8. QED
  BY <1>6, <1>7 DEF NumbersInv

LEMMA NumbersKept == OneEditor /\ NumbersInv /\ [Next]_vars => NumbersInv'
<1> SUFFICES ASSUME OneEditor, NumbersInv, [Next]_vars PROVE NumbersInv'
  OBVIOUS
<1>0. Shape /\ Shape'
  BY ShapeKept DEF NumbersInv
<1>1. ASSUME NEW r \in Requests, NEW j, Hold(r, j), order' = order, NumberFree(r)'
      PROVE  NumbersInv'
  <2>1. \A q \in Requests \ {r} : job'[q] = job[q]
    BY <1>0, <1>1 DEF Hold, Shape, TypeOK
  <2>2. QED
    BY <1>0, <1>1, <2>1, NumbersStand
<1>2. ASSUME NEW r \in Requests, Finish(r), order' = order PROVE NumbersInv'
  <2>1. Hold(r, Idle)
    BY <1>2 DEF Finish, Hold
  <2>2. job'[r].phase = "idle"
    BY <1>0, <1>2, IdleIsAJob DEF Finish, Shape, TypeOK
  <2>3. NumberFree(r)'
    BY <2>2 DEF NumberFree
  <2>4. QED
    BY <1>1, <1>2, <2>1, <2>3
<1>3. ASSUME NEW r \in Requests, NEW c \in Orders, NEW p \in Projects, NEW n \in Numbers,
             NEW a \in Amounts, ValidateNew(r, c, p, n, a)
      PROVE  NumbersInv'
  <2> DEFINE row == [project |-> p, number |-> n, amount |-> a, status |-> "PENDING"]
             j == [Idle EXCEPT !.op = "create", !.phase = "valid", !.order = c, !.row = row]
  <2>1. Hold(r, j) /\ order' = order /\ ~NumberTakenByOthers(c, p, n)
    BY <1>3 DEF ValidateNew, NumberTaken
  <2>2. j.order = c /\ j.row.project = p /\ j.row.number = n
    BY DEF Idle
  <2> HIDE DEF j
  <2>3. job'[r] = j
    BY <1>0, <2>1 DEF Hold, Shape, TypeOK
  <2>4. NumberFree(r)'
    BY <2>1, <2>2, <2>3 DEF NumberFree, NumberTakenByOthers
  <2>5. QED
    BY <1>1, <2>1, <2>4
<1>4. ASSUME NEW r \in Requests, NEW p \in Projects, NEW n \in Numbers, NEW a \in Amounts,
             ValidatePatch(r, p, n, a)
      PROVE  NumbersInv'
  <2> DEFINE row == [project |-> p, number |-> n, amount |-> a, status |-> job[r].row.status]
             j == [job[r] EXCEPT !.phase = "valid", !.row = row]
  <2>1. Hold(r, j) /\ order' = order /\ ~NumberTakenByOthers(job[r].order, p, n)
    BY <1>4 DEF ValidatePatch, NumberTaken
  <2>2. j.order = job[r].order /\ j.row.project = p /\ j.row.number = n
    <3>1. job[r] \in Job /\ row.project = p /\ row.number = n
      BY <1>0 DEF Shape, TypeOK
    <3> HIDE DEF row
    <3>2. j.order = job[r].order /\ j.row = row
      BY <3>1 DEF Job
    <3>3. QED
      BY <3>1, <3>2
  <2> HIDE DEF j
  <2>3. job'[r] = j
    BY <1>0, <2>1 DEF Hold, Shape, TypeOK
  <2>4. NumberFree(r)'
    BY <2>1, <2>2, <2>3 DEF NumberFree, NumberTakenByOthers
  <2>5. QED
    BY <1>1, <2>1, <2>4
<1>5. ASSUME NEW r \in Requests, NEW j, Hold(r, j), j.phase = "read", order' = order
      PROVE  NumbersInv'
  <2>1. job'[r] = j
    BY <1>0, <1>5 DEF Hold, Shape, TypeOK
  <2>2. NumberFree(r)'
    BY <1>5, <2>1 DEF NumberFree
  <2>3. QED
    BY <1>1, <1>5, <2>2
<1>6. ASSUME NEW r \in Requests, NEW op, NEW c \in Orders, FetchOrder(r, op, c) PROVE NumbersInv'
  <2> DEFINE j == [Idle EXCEPT !.op = op, !.phase = "read", !.order = c, !.row = order[c]]
  <2>1. j.phase = "read" /\ Hold(r, j) /\ order' = order
    BY <1>6 DEF FetchOrder, Idle
  <2> HIDE DEF j
  <2>2. QED
    BY <1>5, <2>1
<1>7. ASSUME NEW r \in Requests, NEW p \in Projects, FetchProject(r, p) PROVE NumbersInv'
  <2> DEFINE j == [Idle EXCEPT !.op = "patch", !.phase = "read", !.project = p, !.value = value[p]]
  <2>1. j.phase = "read" /\ Hold(r, j) /\ order' = order
    BY <1>7 DEF FetchProject, Idle
  <2> HIDE DEF j
  <2>2. QED
    BY <1>5, <2>1
(* A decision writes nothing but the status.                               *)
<1>8. ASSUME NEW r \in Requests, NEW op \in DecideOps, HasRead(r, op), NEW status, Decide(r, status)
      PROVE  NumbersInv'
  <2>1. job[r].order \in Orders /\ order[job[r].order] \in Row
    <3>1. JobOK(r) /\ job[r].op \in HandleOps
      BY <1>0, <1>8 DEF Shape, HasRead, HandleOps
    <3>2. QED
      BY <1>0, <3>1 DEF JobOK, Shape, TypeOK
  <2>2. order' = [order EXCEPT ![job[r].order] = [order[job[r].order] EXCEPT !.status = status]]
    BY <1>0, <1>8 DEF Decide, Shape, TypeOK
  <2>3. \A x \in Row : LET y == [x EXCEPT !.status = status]
                       IN  y.project = x.project /\ y.number = x.number
    BY DEF Row
  <2>4. ASSUME NEW c \in Orders
        PROVE  /\ order'[c].project = order[c].project /\ order'[c].number = order[c].number
               /\ order[c] = NoRow => order'[c] = NoRow
    BY <1>0, <2>1, <2>2, <2>3, <2>4, NoRowIsDifferent DEF Shape, TypeOK
  <2>5. job'[r] = Idle /\ \A q \in Requests \ {r} : job'[q] = job[q]
    BY <1>0, <1>8 DEF Decide, Finish, Shape, TypeOK
  <2>6. NumberFree(r)'
    BY <2>5, IdleIsAJob DEF NumberFree
  <2>7. QED
    BY <1>0, <2>4, <2>5, <2>6, NumbersStand
<1>9. ASSUME NEW r \in Requests, Approve(r) \/ Reject(r) \/ Cancel(r) PROVE NumbersInv'
  BY <1>8, <1>9 DEF Approve, Reject, Cancel, DecideOps
<1>10. ASSUME NEW r \in Requests, PatchProject(r) \/ Abandon(r) PROVE NumbersInv'
  BY <1>2, <1>10 DEF PatchProject, Abandon
<1>11. ASSUME NEW r \in Requests, NEW v \in Values, EnterValue(r, v) PROVE NumbersInv'
  BY <1>2, <1>11 DEF EnterValue
<1>12. CASE UNCHANGED vars
  BY <1>0, <1>12 DEF vars, NumbersInv, NumbersUnique, NumberFree, NumberTakenByOthers
<1>13. ASSUME NEW r \in Requests, SaveOrder(r) PROVE NumbersInv'
  BY <1>0, <1>13, NumbersSaved
<1>14. QED
  BY <1>3, <1>4, <1>6, <1>7, <1>9, <1>10, <1>11, <1>12, <1>13 DEF Next

(* When one request at a time creates or edits change orders, no two of a  *)
(* project get the same number, whoever decides on them meanwhile.         *)
THEOREM NumbersAlwaysUnique == OneEditor => (Spec => []NumbersUnique)
<1> SUFFICES ASSUME OneEditor PROVE Spec => []NumbersUnique
  OBVIOUS
<1>1. Init => NumbersInv
  <2>1. Init => NumbersUnique /\ \A r \in Requests : NumberFree(r)
    BY IdleIsAJob DEF Init, NumbersUnique, NumberFree
  <2>2. QED
    BY <2>1, InitShape DEF NumbersInv
<1>2. NumbersInv /\ [Next]_vars => NumbersInv'
  BY NumbersKept
<1>3. NumbersInv => NumbersUnique
  BY DEF NumbersInv
<1>4. QED
  BY <1>1, <1>2, <1>3, PTL DEF Spec
=============================================================================
