------------------------- MODULE SettlementProofs -------------------------
(***************************************************************************)
(* The invariants of Settlement for any number of requests, invoices,      *)
(* payments and parties, and any set of operations.                        *)
(***************************************************************************)
EXTENDS Settlement, SumsProofs, TLAPS

(* What a request in progress refers to. *)
JobsOK ==
  \A r \in Requests :
    /\ job[r].phase \in {"routed", "fetched"} => job[r].inv \in Invoices
    /\ job[r].op = "pay" => job[r].pay \in Payments
    /\ job[r].phase \in {"payment", "locked"} => job[r].op = "allocate"
    /\ job[r].op = "allocate" => /\ job[r].phase \in {"payment", "locked"}
                                 /\ job[r].inv \in Invoices
                                 /\ job[r].pay \in Payments
                                 /\ Recorded(job[r].pay)

(* The row locks exclude each other. *)
LocksExclude ==
  \A r, s \in Requests :
    /\ job[r].op = "allocate" /\ job[s].op = "allocate" /\ job[r].pay = job[s].pay => r = s
    /\ job[r].phase = "locked" /\ job[s].phase = "locked" /\ job[r].inv = job[s].inv => r = s

Shape == TypeOK /\ JobsOK

(* Sums of allocations. *)
LEMMA SumsAreNatural ==
  ASSUME TypeOK
  PROVE  /\ \A p \in Payments : Spent(p) \in Nat
         /\ \A i \in Invoices : Settled(i) \in Nat
<1>1. ASSUME NEW p \in Payments PROVE Spent(p) \in Nat
  BY SumIsNatural, SettlementAssumption DEF TypeOK, Spent
<1>2. ASSUME NEW i \in Invoices PROVE Settled(i) \in Nat
  <2>1. [p \in Payments |-> allocated[p][i]] \in [Payments -> Nat]
    BY DEF TypeOK
  <2>2. QED
    BY <2>1, SumIsNatural, SettlementAssumption DEF Settled
<1>3. QED
  BY <1>1, <1>2

(* A request that is not in progress is well typed. *)
LEMMA IdleIsAJob == Idle \in Job
BY SettlementAssumption DEF Idle, Job, Row, NoRow, Missing, Statuses, AllOps

(* Ending a request leaves the others as they are. *)
LEMMA FinishKeepsJobs ==
  ASSUME Shape, NEW r \in Requests, Finish(r)
  PROVE  job' \in [Requests -> Job]
BY IdleIsAJob DEF Shape, TypeOK, Finish

(* The initial states have the right shape. *)
LEMMA InitShape == Init => Shape
<1> SUFFICES ASSUME Init PROVE Shape
  OBVIOUS
<1>1. invoices \in [Invoices -> Row]
  BY SettlementAssumption DEF Init, Row, NoRow, Missing, Statuses
<1>2. payments \in [Payments -> Payment]
  BY SettlementAssumption DEF Init, Payment, NoPayment
<1>3. live \in [Invoices \cup Payments -> Seq(Nat)]
  BY DEF Init
<1>4. job \in [Requests -> Job]
  BY IdleIsAJob DEF Init
<1>5. JobsOK
  BY DEF Init, JobsOK, Idle
<1>6. allocated \in [Payments -> [Invoices -> Nat]] /\ receipts \in SUBSET Payments
      /\ today \in 1..MaxDay
  BY SettlementAssumption DEF Init
<1>7. QED
  BY <1>1, <1>2, <1>3, <1>4, <1>5, <1>6 DEF Shape, TypeOK

(* Every step keeps types, and what requests refer to: one step per action. *)
LEMMA ShapeKept == Shape /\ [Next]_vars => Shape'
<1> SUFFICES ASSUME Shape, [Next]_vars PROVE Shape'
  OBVIOUS
<1> USE SettlementAssumption
<1>s. SyncOverdue => invoices' \in [Invoices -> Row]
  <2>1. \A row \in Row : [row EXCEPT !.status = "OVERDUE"] \in Row
    BY DEF Row, Statuses
  <2>2. QED
    BY <2>1 DEF SyncOverdue, Shape, TypeOK
<1>f. ASSUME NEW r \in Requests, Finish(r) PROVE job' \in [Requests -> Job]
  BY <1>f, FinishKeepsJobs
<1>j. ASSUME NEW r \in Requests, Finish(r), payments' = payments PROVE JobsOK'
  BY <1>j DEF Shape, TypeOK, JobsOK, Finish, Idle, Recorded
<1>v. \A q \in Seq(Nat) : VoidEntry(q) \in Seq(Nat)
  BY DEF VoidEntry
<1>a. \A q \in Seq(Nat), n \in Nat : PostEntry(q, n) \in Seq(Nat)
  BY DEF PostEntry
<1>1. ASSUME NEW r \in Requests, NEW i \in Invoices, NEW op \in Ops, Route(r, op, i)
      PROVE  Shape'
  <2>1. job'[r] \in Job
    BY <1>1, IdleIsAJob, ZenonT(30) DEF Route, Shape, TypeOK, Job, Idle
  <2>2. job' \in [Requests -> Job]
    BY <1>1, <2>1 DEF Route, Shape, TypeOK
  <2>3. JobsOK'
    BY <1>1 DEF Route, Shape, TypeOK, JobsOK, Idle, Recorded
  <2>4. QED
    BY <1>1, <1>s, <2>2, <2>3 DEF Route, Shape, TypeOK
<1>2. ASSUME NEW r \in Requests, NEW i \in Invoices, FetchParent(r, i)
      PROVE  Shape'
  <2>1. job'[r] \in Job
    BY <1>2, IdleIsAJob, ZenonT(30) DEF FetchParent, Shape, TypeOK, Job, Idle, AllOps
  <2>2. job' \in [Requests -> Job]
    BY <1>2, <2>1 DEF FetchParent, Shape, TypeOK
  <2>3. JobsOK'
    BY <1>2 DEF FetchParent, Shape, TypeOK, JobsOK, Idle, Recorded
  <2>4. QED
    BY <1>2, <2>2, <2>3 DEF FetchParent, Shape, TypeOK
<1>3. ASSUME NEW r \in Requests, NEW p \in Payments, NEW q \in Parties,
             NEW a \in 1..MaxAmount, RecordPayment(r, p, q, a)
      PROVE  Shape'
  <2>1. job'[r] \in Job
    BY <1>3, IdleIsAJob, ZenonT(30) DEF RecordPayment, Shape, TypeOK, Job, Idle, AllOps
  <2>2. job' \in [Requests -> Job]
    BY <1>3, <2>1 DEF RecordPayment, Shape, TypeOK
  <2>3. payments' \in [Payments -> Payment]
    BY <1>3 DEF RecordPayment, Shape, TypeOK, Payment
  <2>4. payments'[p] # NoPayment
    BY <1>3 DEF RecordPayment, Shape, TypeOK, NoPayment
  <2>5. JobsOK'
    BY <1>3, <2>4 DEF RecordPayment, Shape, TypeOK, JobsOK, Idle, Recorded
  <2>6. QED
    BY <1>3, <2>2, <2>3, <2>5 DEF RecordPayment, Shape, TypeOK
<1>4. ASSUME NEW r \in Requests, NEW p \in Payments, NEW i \in Invoices,
             NEW a \in 1..MaxAmount, LockPayment(r, p, i, a)
      PROVE  Shape'
  <2>1. job'[r] \in Job
    <3>1. job'[r] = [op |-> "allocate", phase |-> "payment", inv |-> i, pay |-> p,
                     amount |-> a, row |-> NoRow("ABSENT"), onPayment |-> 0, onInvoice |-> 0]
      BY <1>4 DEF LockPayment, Shape, TypeOK, Idle
    <3>2. NoRow("ABSENT") \in Row
      BY DEF NoRow, Row, Missing
    <3>3. QED
      BY <3>1, <3>2 DEF Job, AllOps
  <2>2. job' \in [Requests -> Job]
    BY <1>4, <2>1 DEF LockPayment, Shape, TypeOK
  <2>3. JobsOK'
    BY <1>4 DEF LockPayment, Shape, TypeOK, JobsOK, Idle, Recorded
  <2>4. QED
    BY <1>4, <2>2, <2>3 DEF LockPayment, Shape, TypeOK
<1>5. ASSUME NEW r \in Requests, Fetch(r) PROVE Shape'
  <2>1. job[r].inv \in Invoices /\ invoices[job[r].inv] \in Row
    BY <1>5 DEF Fetch, Shape, TypeOK, JobsOK
  <2>2. job' \in [Requests -> Job]
    <3>1. \A j \in Job, row \in Row : [j EXCEPT !.phase = "fetched", !.row = row] \in Job
      BY DEF Job
    <3>2. job[r] \in Job
      BY DEF Shape, TypeOK
    <3>3. [job[r] EXCEPT !.phase = "fetched", !.row = invoices[job[r].inv]] \in Job
      BY <2>1, <3>1, <3>2
    <3>4. QED
      BY <1>5, <3>3 DEF Fetch, Shape, TypeOK
  <2>3. JobsOK'
    BY <1>5, <2>1 DEF Fetch, Shape, TypeOK, JobsOK, Recorded, Job
  <2>4. QED
    BY <1>5, <2>2, <2>3 DEF Fetch, Shape, TypeOK
<1>6. ASSUME NEW r \in Requests, MarkSent(r) PROVE Shape'
  <2>1. job[r].row.total > 0 => job[r].row.total \in Nat
    BY DEF Shape, TypeOK, Job, Row
  <2>2. live' \in [Invoices \cup Payments -> Seq(Nat)]
    BY <1>6, <1>a, <2>1 DEF MarkSent, Shape, TypeOK
  <2>3. invoices' \in [Invoices -> Row]
    <3>1. \A row \in Row : [row EXCEPT !.status = "SENT"] \in Row
      BY DEF Row, Statuses
    <3>2. invoices' = [invoices EXCEPT ![job[r].inv].status = "SENT"]
      BY <1>6 DEF MarkSent
    <3>3. QED
      BY <3>1, <3>2 DEF Shape, TypeOK
  <2>4. QED
    BY <1>6, <1>f, <1>j, <2>2, <2>3 DEF MarkSent, Shape, TypeOK
<1>7. ASSUME NEW r \in Requests, Cancel(r) PROVE Shape'
  <2>1. live' \in [Invoices \cup Payments -> Seq(Nat)]
    BY <1>7, <1>v DEF Cancel, Shape, TypeOK
  <2>2. invoices' \in [Invoices -> Row]
    <3>1. \A row \in Row : [row EXCEPT !.status = "CANCELLED"] \in Row
      BY DEF Row, Statuses
    <3>2. invoices' = [invoices EXCEPT ![job[r].inv].status = "CANCELLED"]
      BY <1>7 DEF Cancel
    <3>3. QED
      BY <3>1, <3>2 DEF Shape, TypeOK
  <2>3. QED
    BY <1>7, <1>f, <1>j, <2>1, <2>2 DEF Cancel, Shape, TypeOK
<1>8. ASSUME NEW r \in Requests, PatchHeader(r) PROVE Shape'
  <2>1. PICK q \in Parties, d \in 1..MaxDay :
          invoices' = [invoices EXCEPT ![job[r].inv] =
                         [job[r].row EXCEPT !.party = q, !.due = d]]
    BY <1>8 DEF PatchHeader, Billable
  <2>2. [job[r].row EXCEPT !.party = q, !.due = d] \in Row
    <3>1. job[r].row \in Row
      BY DEF Shape, TypeOK, Job
    <3>2. QED
      BY <3>1 DEF Row
  <2>3. invoices' \in [Invoices -> Row]
    BY <2>1, <2>2 DEF Shape, TypeOK
  <2>4. QED
    BY <1>8, <1>f, <1>j, <2>3 DEF PatchHeader, Shape, TypeOK
<1>9. ASSUME NEW r \in Requests, DeleteDraft(r) PROVE Shape'
  <2>1. NoRow("DELETED") \in Row
    BY DEF NoRow, Row, Missing
  <2>2. invoices' \in [Invoices -> Row]
    BY <1>9, <2>1 DEF DeleteDraft, Shape, TypeOK
  <2>3. allocated' \in [Payments -> [Invoices -> Nat]]
    BY <1>9 DEF DeleteDraft, Shape, TypeOK
  <2>4. QED
    BY <1>9, <1>f, <1>j, <2>2, <2>3 DEF DeleteDraft, Shape, TypeOK
<1>10. ASSUME NEW r \in Requests, EditItems(r) PROVE Shape'
  <2>1. \A row \in Row, total \in MinTotal..MaxAmount : [row EXCEPT !.total = total] \in Row
    BY DEF Row
  <2>2. invoices' \in [Invoices -> Row]
    <3>1. PICK total \in MinTotal..MaxAmount :
            invoices' = [invoices EXCEPT ![job[r].inv].total = total]
      BY <1>10 DEF EditItems
    <3>2. job[r].inv \in Invoices
      BY <1>10 DEF EditItems, HasFetched, Shape, JobsOK
    <3>3. QED
      BY <2>1, <3>1, <3>2 DEF Shape, TypeOK
  <2>3. QED
    BY <1>10, <1>f, <1>j, <2>2 DEF EditItems, Shape, TypeOK
<1>11. ASSUME NEW r \in Requests, IssueReceipt(r) PROVE Shape'
  <2>1. receipts' \in SUBSET Payments
    BY <1>11 DEF IssueReceipt, Shape, TypeOK, JobsOK
  <2>2. QED
    BY <1>11, <1>f, <1>j, <2>1 DEF IssueReceipt, Shape, TypeOK
<1>12. ASSUME NEW r \in Requests, LockInvoice(r) PROVE Shape'
  <2>1. job[r].inv \in Invoices /\ job[r].pay \in Payments
    BY <1>12 DEF LockInvoice, Shape, JobsOK
  <2>2. invoices[job[r].inv] \in Row /\ invoices[job[r].inv].total \in Int
        /\ payments[job[r].pay].amount \in Int
    BY <2>1 DEF Shape, TypeOK, Row, Payment
  <2>3. Spent(job[r].pay) \in Int /\ Settled(job[r].inv) \in Int
    BY <2>1, SumsAreNatural DEF Shape
  <2>4. job' \in [Requests -> Job]
    <3>1. \A j \in Job, row \in Row, m \in Int, n \in Int :
            [j EXCEPT !.phase = "locked", !.row = row, !.onPayment = m, !.onInvoice = n] \in Job
      BY ZenonT(30) DEF Job
    <3> DEFINE i == job[r].inv
               p == job[r].pay
               m == payments[p].amount - Spent(p)
               n == invoices[i].total - Settled(i)
    <3>2. m \in Int /\ n \in Int
      BY <2>2, <2>3
    <3>3. job' = [job EXCEPT ![r] = [job[r] EXCEPT !.phase = "locked", !.row = invoices[i],
                                                  !.onPayment = m, !.onInvoice = n]]
      BY <1>12 DEF LockInvoice, Shape, TypeOK
    <3> HIDE DEF m, n
    <3>4. [job[r] EXCEPT !.phase = "locked", !.row = invoices[i],
                         !.onPayment = m, !.onInvoice = n] \in Job
      BY <2>2, <3>1, <3>2, ZenonT(30) DEF Shape, TypeOK
    <3>5. QED
      BY <3>3, <3>4 DEF Shape, TypeOK
  <2>5. JobsOK'
    <3>1. /\ job'[r].op = job[r].op /\ job'[r].inv = job[r].inv /\ job'[r].pay = job[r].pay
          /\ job'[r].phase = "locked" /\ job[r].phase = "payment"
      BY <1>12 DEF LockInvoice, Shape, TypeOK, Job
    <3>2. payments' = payments /\ \A s \in Requests \ {r} : job'[s] = job[s]
      BY <1>12 DEF LockInvoice, Shape, TypeOK
    <3>3. QED
      BY <3>1, <3>2 DEF Shape, JobsOK, Recorded
  <2>6. QED
    BY <1>12, <2>4, <2>5 DEF LockInvoice, Shape, TypeOK
<1>13. ASSUME NEW r \in Requests, Allocate(r) PROVE Shape'
  <2>1. job[r].inv \in Invoices /\ job[r].pay \in Payments /\ job[r].amount \in Nat
    BY <1>13 DEF Allocate, Shape, TypeOK, JobsOK, Job
  <2>2. allocated' \in [Payments -> [Invoices -> Nat]]
    BY <1>13, <2>1 DEF Allocate, Shape, TypeOK
  <2>3. \A b : StatusFor(b) \in Statuses
    BY DEF StatusFor, Statuses
  <2>4. invoices' \in [Invoices -> Row]
    <3>1. \A row \in Row, s \in Statuses : [row EXCEPT !.status = s] \in Row
      BY DEF Row
    <3>2. PICK b : invoices' = [invoices EXCEPT ![job[r].inv].status = StatusFor(b)]
      BY <1>13 DEF Allocate
    <3>3. QED
      BY <2>1, <2>3, <3>1, <3>2 DEF Shape, TypeOK
  <2>5. Spent(job[r].pay) + job[r].amount \in Nat
    BY <2>1, SumsAreNatural DEF Shape
  <2>6. Rebooked(live[job[r].pay], Spent(job[r].pay), job[r].amount) \in Seq(Nat)
    BY <1>v, <1>a, <2>1, <2>5 DEF Rebooked, Shape, TypeOK
  <2>7. live' \in [Invoices \cup Payments -> Seq(Nat)]
    BY <1>13, <2>6 DEF Allocate, Shape, TypeOK
  <2>8. QED
    BY <1>13, <1>f, <1>j, <2>2, <2>4, <2>7 DEF Allocate, Shape, TypeOK
<1>14. ASSUME NEW r \in Requests, Refuse(r) \/ Abandon(r) PROVE Shape'
  BY <1>14, <1>f, <1>j DEF Refuse, Abandon, Shape, TypeOK
<1>15. ASSUME NEW i \in Invoices, CreateInvoice(i) PROVE Shape'
  <2>1. invoices' \in [Invoices -> Row]
    BY <1>15 DEF CreateInvoice, Billable, Shape, TypeOK, Row, Statuses
  <2>2. QED
    BY <1>15, <2>1 DEF CreateInvoice, Shape, TypeOK, JobsOK, Recorded
<1>16. ASSUME NEW p \in Payments, CreateReceipt(p) PROVE Shape'
  BY <1>16 DEF CreateReceipt, Shape, TypeOK, JobsOK, Recorded
<1>17. ASSUME NEW s \in Invoices \cup Payments, ManualVoid(s) PROVE Shape'
  <2>1. live' \in [Invoices \cup Payments -> Seq(Nat)]
    BY <1>17, <1>v DEF ManualVoid, Shape, TypeOK
  <2>2. QED
    BY <1>17, <2>1 DEF ManualVoid, Shape, TypeOK, JobsOK, Recorded
<1>18. CASE PageView
  BY <1>18, <1>s DEF PageView, Shape, TypeOK, JobsOK, Recorded
<1>19. CASE NewDay
  BY <1>19 DEF NewDay, Shape, TypeOK, JobsOK, Recorded
<1>20. CASE UNCHANGED vars
  BY <1>20 DEF vars, Shape, TypeOK, JobsOK, Recorded
<1>21. QED
  BY <1>1, <1>2, <1>3, <1>4, <1>5, <1>6, <1>7, <1>8, <1>9, <1>10, <1>11, <1>12,
     <1>13, <1>14, <1>15, <1>16, <1>17, <1>18, <1>19, <1>20 DEF Next, Request, Step

(* Every reachable state is well typed. *)
THEOREM TypeCorrect == Spec => []TypeOK
<1>1. Spec => []Shape
  BY InitShape, ShapeKept, PTL DEF Spec
<1>2. Shape => TypeOK
  BY DEF Shape
<1>3. QED
  BY <1>1, <1>2, PTL
-----------------------------------------------------------------------------
(* Voiding an only entry leaves none. *)
LEMMA VoidShortens ==
  ASSUME NEW q \in Seq(Nat), Len(q) <= 1
  PROVE  VoidEntry(q) = <<>>
BY DEF VoidEntry

(* A step posts an entry only where none is live, or voids before it posts. *)
LEMMA OneLiveEntryKept ==
  Shape /\ AtMostOneLiveEntry /\ [Next]_vars => AtMostOneLiveEntry'
<1> SUFFICES ASSUME Shape, AtMostOneLiveEntry, [Next]_vars
             PROVE  AtMostOneLiveEntry'
  OBVIOUS
<1> DEFINE Sources == Invoices \cup Payments
<1>1. live \in [Sources -> Seq(Nat)] /\ \A s \in Sources : Len(live[s]) <= 1
  BY DEF Shape, TypeOK, AtMostOneLiveEntry
<1>2. \A s \in Sources : VoidEntry(live[s]) = <<>>
  BY <1>1, VoidShortens
<1>3. ASSUME NEW s \in Sources, live' = [live EXCEPT ![s] = VoidEntry(live[s])]
      PROVE  AtMostOneLiveEntry'
  BY <1>1, <1>2, <1>3 DEF AtMostOneLiveEntry
<1>4. ASSUME live' = live PROVE AtMostOneLiveEntry'
  BY <1>4 DEF AtMostOneLiveEntry
<1>5. ASSUME NEW r \in Requests, MarkSent(r) PROVE AtMostOneLiveEntry'
  <2>1. job[r].inv \in Sources /\ job[r].row.total \in Int
    BY <1>5 DEF MarkSent, HasFetched, Shape, TypeOK, JobsOK, Job, Row
  <2>2. CASE job[r].row.total > 0
    <3>1. live[job[r].inv] = <<>>
      BY <1>5, <2>2 DEF MarkSent, Unbooked
    <3>2. live' = [live EXCEPT ![job[r].inv] = <<job[r].row.total>>]
      BY <1>5, <2>2, <3>1 DEF MarkSent, PostEntry
    <3>3. QED
      BY <1>1, <2>1, <3>2 DEF AtMostOneLiveEntry
  <2>3. CASE ~(job[r].row.total > 0)
    BY <1>4, <1>5, <2>3 DEF MarkSent
  <2>4. QED
    BY <2>2, <2>3
<1>6. ASSUME NEW r \in Requests, Cancel(r) PROVE AtMostOneLiveEntry'
  <2>1. job[r].inv \in Sources
    BY <1>6 DEF Cancel, HasFetched, Shape, JobsOK
  <2>2. QED
    BY <1>3, <1>4, <1>6, <2>1 DEF Cancel
<1>7. ASSUME NEW r \in Requests, Allocate(r) PROVE AtMostOneLiveEntry'
  <2>1. job[r].pay \in Payments /\ job[r].amount \in Nat
    BY <1>7 DEF Allocate, Shape, TypeOK, JobsOK, Job
  <2>2. Rebooked(live[job[r].pay], Spent(job[r].pay), job[r].amount)
          = <<Spent(job[r].pay) + job[r].amount>>
    <3>1. VoidEntry(live[job[r].pay]) = <<>>
      BY <1>2, <2>1
    <3>2. Spent(job[r].pay) + job[r].amount \in Nat
      BY <2>1, SumsAreNatural DEF Shape
    <3>3. Append(<<>>, Spent(job[r].pay) + job[r].amount)
            = <<Spent(job[r].pay) + job[r].amount>>
      BY <3>2
    <3>4. QED
      BY <3>1, <3>3 DEF Rebooked, PostEntry
  <2>3. live' = [live EXCEPT ![job[r].pay] = <<Spent(job[r].pay) + job[r].amount>>]
    BY <1>7, <2>2 DEF Allocate
  <2>4. QED
    BY <1>1, <2>1, <2>3 DEF AtMostOneLiveEntry
<1>8. ASSUME NEW s \in Sources, ManualVoid(s) PROVE AtMostOneLiveEntry'
  BY <1>3, <1>8 DEF ManualVoid
<1>9. ASSUME NEW r \in Requests, Request(r) PROVE AtMostOneLiveEntry'
  BY <1>4, <1>9 DEF Request, Route, FetchParent, RecordPayment, LockPayment
<1>10. ASSUME NEW r \in Requests,
              Fetch(r) \/ PatchHeader(r) \/ DeleteDraft(r) \/ EditItems(r) \/ IssueReceipt(r)
                \/ LockInvoice(r) \/ Refuse(r) \/ Abandon(r)
       PROVE  AtMostOneLiveEntry'
  BY <1>4, <1>10 DEF Fetch, PatchHeader, DeleteDraft, EditItems, IssueReceipt,
                     LockInvoice, Refuse, Abandon
<1>11. ASSUME (\E i \in Invoices : CreateInvoice(i)) \/ (\E p \in Payments : CreateReceipt(p))
                \/ PageView \/ NewDay \/ UNCHANGED vars
       PROVE  AtMostOneLiveEntry'
  BY <1>4, <1>11 DEF CreateInvoice, CreateReceipt, PageView, NewDay, vars
<1>12. QED
  BY <1>5, <1>6, <1>7, <1>8, <1>9, <1>10, <1>11 DEF Next, Step

(* No source document ever has two live entries. *)
THEOREM OneLiveEntry == Spec => []AtMostOneLiveEntry
<1>1. Init => AtMostOneLiveEntry
  BY DEF Init, AtMostOneLiveEntry
<1>2. QED
  BY <1>1, InitShape, ShapeKept, OneLiveEntryKept, PTL DEF Spec
-----------------------------------------------------------------------------
(* Row locks. *)
(* Only LockPayment and LockInvoice take locks, and only free ones. *)
LEMMA LocksKept == Shape /\ LocksExclude /\ [Next]_vars => LocksExclude'
<1> SUFFICES ASSUME Shape, LocksExclude, [Next]_vars PROVE LocksExclude'
  OBVIOUS
<1>1. ASSUME NEW r \in Requests,
             \A s \in Requests \ {r} : job'[s] = job[s],
             job'[r].op # "allocate", job'[r].phase # "locked"
      PROVE  LocksExclude'
  BY <1>1 DEF LocksExclude
<1>2. ASSUME job' = job PROVE LocksExclude'
  BY <1>2 DEF LocksExclude
<1>3. ASSUME NEW r \in Requests, Finish(r) PROVE LocksExclude'
  BY <1>1, <1>3 DEF Finish, Idle, Shape, TypeOK
<1>4. ASSUME NEW r \in Requests,
             NEW p \in Payments, NEW i \in Invoices, NEW a \in 1..MaxAmount,
             LockPayment(r, p, i, a)
      PROVE  LocksExclude'
  <2>1. \A s \in Requests \ {r} : job'[s] = job[s]
    BY <1>4 DEF LockPayment, Shape, TypeOK
  <2>2. job'[r].pay = p /\ job'[r].phase = "payment"
    BY <1>4 DEF LockPayment, Shape, TypeOK, Idle
  <2>3. \A s \in Requests : ~(job[s].op = "allocate" /\ job[s].pay = p)
    BY <1>4 DEF LockPayment, PaymentRowFree
  <2>4. QED
    BY <2>1, <2>2, <2>3 DEF LocksExclude
<1>5. ASSUME NEW r \in Requests, LockInvoice(r) PROVE LocksExclude'
  <2>1. \A s \in Requests \ {r} : job'[s] = job[s]
    BY <1>5 DEF LockInvoice, Shape, TypeOK
  <2>2. job'[r].pay = job[r].pay /\ job'[r].inv = job[r].inv /\ job'[r].op = job[r].op
    BY <1>5 DEF LockInvoice, Shape, TypeOK, Job
  <2>3. \A s \in Requests : ~(job[s].phase = "locked" /\ job[s].inv = job[r].inv)
    BY <1>5 DEF LockInvoice, InvoiceRowFree
  <2>4. QED
    BY <2>1, <2>2, <2>3 DEF LocksExclude
<1>6. ASSUME NEW r \in Requests,
             (\E i \in Invoices, op \in Ops : Route(r, op, i))
               \/ (\E i \in Invoices : FetchParent(r, i))
               \/ (\E p \in Payments, q \in Parties, a \in 1..MaxAmount : RecordPayment(r, p, q, a))
      PROVE  LocksExclude'
  <2>1. ASSUME NEW i \in Invoices, NEW op \in Ops, Route(r, op, i) PROVE LocksExclude'
    BY <1>1, <2>1 DEF Route, Idle, Shape, TypeOK
  <2>2. ASSUME NEW i \in Invoices, FetchParent(r, i) PROVE LocksExclude'
    BY <1>1, <2>2 DEF FetchParent, Idle, Shape, TypeOK
  <2>3. ASSUME NEW p \in Payments, NEW q \in Parties, NEW a \in 1..MaxAmount,
               RecordPayment(r, p, q, a)
        PROVE  LocksExclude'
    BY <1>1, <2>3 DEF RecordPayment, Idle, Shape, TypeOK
  <2>4. QED
    BY <1>6, <2>1, <2>2, <2>3
<1>7. ASSUME NEW r \in Requests, Fetch(r) PROVE LocksExclude'
  <2>1. job[r].op # "allocate"
    BY <1>7 DEF Fetch, Shape, JobsOK
  <2>2. job'[r].op = job[r].op /\ job'[r].phase = "fetched"
    BY <1>7 DEF Fetch, Shape, TypeOK, Job
  <2>3. \A s \in Requests \ {r} : job'[s] = job[s]
    BY <1>7, SMTT(30) DEF Fetch, Shape, TypeOK
  <2>4. QED
    BY <1>1, <2>1, <2>2, <2>3
<1>8. ASSUME NEW r \in Requests,
             MarkSent(r) \/ Cancel(r) \/ PatchHeader(r) \/ DeleteDraft(r) \/ EditItems(r)
               \/ IssueReceipt(r) \/ Allocate(r) \/ Refuse(r) \/ Abandon(r)
      PROVE  LocksExclude'
  BY <1>3, <1>8 DEF MarkSent, Cancel, PatchHeader, DeleteDraft, EditItems, IssueReceipt,
                    Allocate, Refuse, Abandon
<1>9. ASSUME (\E i \in Invoices : CreateInvoice(i)) \/ (\E p \in Payments : CreateReceipt(p))
                \/ (\E s \in Invoices \cup Payments : ManualVoid(s))
                \/ PageView \/ NewDay \/ UNCHANGED vars
      PROVE  LocksExclude'
  BY <1>2, <1>9 DEF CreateInvoice, CreateReceipt, ManualVoid, PageView, NewDay, vars
<1>10. QED
  BY <1>4, <1>5, <1>6, <1>7, <1>8, <1>9 DEF Next, Request, Step
-----------------------------------------------------------------------------
(* The money. *)
MoneyOK == ReadIsCurrent /\ PaymentNeverOverspent /\ CashWithinPayment

(* The inductive invariant. *)
IInv == Shape /\ LocksExclude /\ AtMostOneLiveEntry /\ MoneyOK

LEMMA SumsStay ==
  ASSUME allocated' = allocated
  PROVE  /\ \A p \in Payments : Spent(p)' = Spent(p)
         /\ \A i \in Invoices : Settled(i)' = Settled(i)
BY DEF Spent, Settled

(* What an allocation adds to the two sums it checked. *)
LEMMA SumsAfterAllocation ==
  ASSUME TypeOK, NEW p \in Payments, NEW i \in Invoices, NEW a \in Nat,
         allocated' = [allocated EXCEPT ![p][i] = @ + a]
  PROVE  /\ Spent(p)' = Spent(p) + a
         /\ Settled(i)' = Settled(i) + a
         /\ \A q \in Payments \ {p} : Spent(q)' = Spent(q)
         /\ \A k \in Invoices \ {i} : Settled(k)' = Settled(k)
<1> USE SettlementAssumption
<1>1. allocated \in [Payments -> [Invoices -> Nat]]
  BY DEF TypeOK
<1>2. Spent(p)' = Spent(p) + a
  <2>1. allocated'[p] = [allocated[p] EXCEPT ![i] = allocated[p][i] + a]
    BY <1>1
  <2>2. allocated[p] \in [Invoices -> Nat]
    BY <1>1
  <2>3. SumOf(allocated'[p]) = SumOf(allocated[p]) + a
    BY <2>1, <2>2, SumAfterAdding
  <2>4. QED
    BY <2>3 DEF Spent
<1>3. Settled(i)' = Settled(i) + a
  <2> DEFINE column == [q \in Payments |-> allocated[q][i]]
             after == [q \in Payments |-> allocated'[q][i]]
  <2>1. column \in [Payments -> Nat]
    BY <1>1
  <2>2. after = [column EXCEPT ![p] = column[p] + a]
    BY <1>1
  <2> HIDE DEF column, after
  <2>3. SumOf(after) = SumOf(column) + a
    <3>1. IsFiniteSet(Payments) /\ p \in Payments /\ a \in Nat
      BY SettlementAssumption
    <3>2. SumOf([column EXCEPT ![p] = column[p] + a]) = SumOf(column) + a
      BY ONLY <2>1, <3>1, SumAfterAdding, ZenonT(30)
    <3>3. QED
      BY <2>2, <3>2
  <2>4. QED
    BY <2>3 DEF Settled, column, after
<1>4. ASSUME NEW q \in Payments \ {p} PROVE Spent(q)' = Spent(q)
  <2>1. allocated'[q] = allocated[q]
    BY <1>1
  <2>2. QED
    BY <2>1 DEF Spent
<1>5. ASSUME NEW k \in Invoices \ {i} PROVE Settled(k)' = Settled(k)
  <2>1. [q \in Payments |-> allocated'[q][k]] = [q \in Payments |-> allocated[q][k]]
    BY <1>1
  <2>2. QED
    BY <2>1 DEF Settled
<1>6. QED
  BY <1>2, <1>3, <1>4, <1>5

(* What a cascade removes. *)
LEMMA SumsAfterDelete ==
  ASSUME TypeOK, NEW i,
         allocated' = [p \in Payments |-> [allocated[p] EXCEPT ![i] = 0]]
  PROVE  /\ \A p \in Payments : Spent(p)' <= Spent(p)
         /\ \A k \in Invoices \ {i} : Settled(k)' = Settled(k)
<1>1. allocated \in [Payments -> [Invoices -> Nat]]
  BY DEF TypeOK
<1>2. ASSUME NEW p \in Payments PROVE Spent(p)' <= Spent(p)
  <2>1. allocated'[p] = [allocated[p] EXCEPT ![i] = 0]
    OBVIOUS
  <2>2. allocated[p] \in [Invoices -> Nat] /\ allocated'[p] \in [Invoices -> Nat]
    BY <1>1, <2>1
  <2>3. \A k \in Invoices : allocated'[p][k] <= allocated[p][k]
    BY <1>1, <2>1
  <2>4. SumOf(allocated'[p]) <= SumOf(allocated[p])
    BY <2>2, <2>3, SumIsMonotone, SettlementAssumption
  <2>5. QED
    BY <2>4 DEF Spent
<1>3. ASSUME NEW k \in Invoices \ {i} PROVE Settled(k)' = Settled(k)
  <2>1. [q \in Payments |-> allocated'[q][k]] = [q \in Payments |-> allocated[q][k]]
    BY <1>1
  <2>2. QED
    BY <2>1 DEF Settled
<1>4. QED
  BY <1>2, <1>3

(* Steps after which every lock holder finds what it read. *)
LEMMA ReadsSurvive ==
  ASSUME Shape, ReadIsCurrent,
         \A s \in Requests : job'[s].phase = "locked" => job'[s] = job[s],
         \A s \in Requests, p \in Payments, i \in Invoices :
           job'[s].phase = "locked" /\ job[s].pay = p /\ job[s].inv = i =>
             /\ invoices'[i] = invoices[i]
             /\ payments'[p] = payments[p]
             /\ Spent(p)' <= Spent(p)
             /\ Settled(i)' = Settled(i),
         \A p \in Payments : Spent(p)' \in Nat
  PROVE  ReadIsCurrent'
<1> SUFFICES ASSUME NEW s \in Requests, job'[s].phase = "locked",
                    NEW p, p = job'[s].pay, NEW i, i = job'[s].inv
             PROVE  /\ Exists(i)' /\ job'[s].row = invoices'[i]
                    /\ job'[s].onPayment <= payments'[p].amount - Spent(p)'
                    /\ job'[s].onInvoice = invoices'[i].total - Settled(i)'
  BY DEF ReadIsCurrent
<1>1. job'[s] = job[s] /\ job[s].phase = "locked" /\ p = job[s].pay /\ i = job[s].inv
  OBVIOUS
<1>2. p \in Payments /\ i \in Invoices
  BY <1>1 DEF Shape, JobsOK
<1>3. /\ job[s].onPayment \in Int /\ payments[p].amount \in Int
      /\ Spent(p) \in Int /\ Spent(p)' \in Int
  BY <1>2, SumsAreNatural, SMTT(30) DEF Shape, TypeOK, Job, Payment
<1>4. /\ Exists(i) /\ job[s].row = invoices[i]
      /\ job[s].onPayment <= payments[p].amount - Spent(p)
      /\ job[s].onInvoice = invoices[i].total - Settled(i)
  BY <1>1 DEF ReadIsCurrent
<1>5. /\ invoices'[i] = invoices[i]
      /\ payments'[p] = payments[p]
      /\ Spent(p)' <= Spent(p)
      /\ Settled(i)' = Settled(i)
  BY <1>1, <1>2
<1>6. Exists(i)'
  BY <1>4, <1>5 DEF Exists
<1>7. QED
  BY <1>1, <1>3, <1>4, <1>5, <1>6

(* Steps that touch no payment and no allocation. *)
LEMMA QuietStep ==
  ASSUME IInv, payments' = payments, allocated' = allocated,
         \A s \in Requests : job'[s].phase = "locked" =>
           job'[s] = job[s] /\ invoices'[job[s].inv] = invoices[job[s].inv],
         \A p \in Payments : live'[p] = live[p] \/ live'[p] = <<>>
  PROVE  MoneyOK'
<1>1. \A p \in Payments : Spent(p)' = Spent(p) /\ Spent(p) \in Nat
  BY SumsStay, SumsAreNatural DEF IInv, Shape
<1>2. ReadIsCurrent'
  <2>1. \A s \in Requests, p \in Payments, i \in Invoices :
           job'[s].phase = "locked" /\ job[s].pay = p /\ job[s].inv = i =>
             /\ invoices'[i] = invoices[i]
             /\ payments'[p] = payments[p]
             /\ Spent(p)' <= Spent(p)
             /\ Settled(i)' = Settled(i)
    BY <1>1, SumsStay
  <2>2. QED
    BY <1>1, <2>1, ReadsSurvive DEF IInv, MoneyOK
<1>3. PaymentNeverOverspent'
  BY <1>1 DEF PaymentNeverOverspent, IInv, MoneyOK
<1>4. CashWithinPayment'
  BY <1>1 DEF CashWithinPayment, IInv, MoneyOK
<1>5. QED
  BY <1>2, <1>3, <1>4 DEF MoneyOK

(* Every step keeps the money invariants: the steps that touch no money,    *)
(* then the four that do.                                                  *)
LEMMA MoneyKept == IInv /\ [Next]_vars => MoneyOK'
<1> SUFFICES ASSUME IInv, [Next]_vars PROVE MoneyOK'
  OBVIOUS
<1> USE SettlementAssumption
<1>t. TypeOK /\ JobsOK
  BY DEF IInv, Shape
<1>w. job \in [Requests -> Job]
  BY <1>t DEF TypeOK
<1>v. \A s \in Invoices \cup Payments : VoidEntry(live[s]) = <<>>
  <2>1. \A s \in Invoices \cup Payments : live[s] \in Seq(Nat) /\ Len(live[s]) <= 1
    BY <1>t DEF TypeOK, IInv, AtMostOneLiveEntry
  <2>2. QED
    BY <2>1, VoidShortens
<1>f. ASSUME NEW r \in Requests, Finish(r)
      PROVE  \A s \in Requests : job'[s].phase = "locked" => s # r /\ job'[s] = job[s]
  BY <1>f, <1>w DEF Finish, Idle
<1>i. ASSUME NEW i, InvoiceRowFree(i)
      PROVE  \A s \in Requests : job[s].phase = "locked" => job[s].inv # i
  BY <1>i DEF InvoiceRowFree
(* Steps that write one unlocked invoice row, or none. *)
<1>1. ASSUME NEW r \in Requests,
             MarkSent(r) \/ Cancel(r) \/ PatchHeader(r) \/ EditItems(r)
      PROVE  MoneyOK'
  <2>1. job[r].inv \in Invoices /\ Finish(r) /\ InvoiceRowFree(job[r].inv)
    BY <1>1, <1>t, ZenonT(30) DEF MarkSent, Cancel, PatchHeader, EditItems, HasFetched, JobsOK
  <2>2. \A i \in Invoices \ {job[r].inv} : invoices'[i] = invoices[i]
    BY <1>1, <1>t, ZenonT(30) DEF MarkSent, Cancel, PatchHeader, EditItems, TypeOK
  <2>3. \A s \in Requests : job'[s].phase = "locked" =>
          job'[s] = job[s] /\ invoices'[job[s].inv] = invoices[job[s].inv]
    BY <2>1, <2>2, <1>f, <1>i, <1>t DEF JobsOK
  <2>4. \A p \in Payments : live'[p] = live[p]
    BY <1>1, <1>t, <2>1, ZenonT(30) DEF MarkSent, Cancel, PatchHeader, EditItems, TypeOK
  <2>5. payments' = payments /\ allocated' = allocated
    BY <1>1 DEF MarkSent, Cancel, PatchHeader, EditItems
  <2>6. QED
    BY <2>3, <2>4, <2>5, QuietStep, SMTT(30)
<1>2. ASSUME NEW i \in Invoices, CreateInvoice(i) PROVE MoneyOK'
  <2>1. \A s \in Requests : job[s].phase = "locked" => job[s].inv # i /\ job[s].inv \in Invoices
    BY <1>2, <1>t DEF CreateInvoice, IInv, MoneyOK, ReadIsCurrent, Exists, Missing, JobsOK
  <2>2. \A k \in Invoices \ {i} : invoices'[k] = invoices[k]
    BY <1>2, <1>t DEF CreateInvoice, TypeOK
  <2>3. QED
    BY <1>2, <2>1, <2>2, QuietStep DEF CreateInvoice
<1>3. ASSUME SyncOverdue
      PROVE  \A s \in Requests : job[s].phase = "locked" =>
               invoices'[job[s].inv] = invoices[job[s].inv]
  <2>1. SUFFICES ASSUME NEW s \in Requests, job[s].phase = "locked"
                 PROVE  invoices'[job[s].inv] = invoices[job[s].inv]
    OBVIOUS
  <2>2. job[s].inv \in Invoices
    BY <2>1, <1>t DEF JobsOK
  <2>3. ~Late(invoices[job[s].inv])
    BY <2>1, <2>2, <1>3 DEF SyncOverdue, InvoiceRowFree
  <2>4. QED
    BY <2>2, <2>3, <1>3 DEF SyncOverdue
<1>4. ASSUME NEW r \in Requests, NEW i \in Invoices, NEW op \in Ops, Route(r, op, i)
      PROVE  MoneyOK'
  <2>1. \A s \in Requests : job'[s].phase = "locked" => job'[s] = job[s]
    BY <1>4, <1>w DEF Route, Idle
  <2>2. SyncOverdue /\ live' = live /\ payments' = payments /\ allocated' = allocated
    BY <1>4 DEF Route
  <2>3. QED
    BY <1>3, <2>1, <2>2, QuietStep
<1>5. CASE PageView
  <2>1. SyncOverdue /\ live' = live /\ payments' = payments /\ allocated' = allocated
        /\ job' = job
    BY <1>5 DEF PageView
  <2>2. QED
    BY <1>3, <2>1, QuietStep
(* Steps that write no row but receipts. *)
<1>6. ASSUME NEW r \in Requests,
             Fetch(r) \/ (\E i \in Invoices : FetchParent(r, i))
               \/ (\E p \in Payments, i \in Invoices, a \in 1..MaxAmount : LockPayment(r, p, i, a))
               \/ IssueReceipt(r) \/ Refuse(r) \/ Abandon(r)
      PROVE  MoneyOK'
  <2>1. invoices' = invoices /\ payments' = payments /\ allocated' = allocated /\ live' = live
    BY <1>6, ZenonT(30) DEF Fetch, FetchParent, LockPayment, IssueReceipt, Refuse, Abandon
  <2>2. \A s \in Requests \ {r} : job'[s] = job[s]
    BY <1>6, <1>w DEF Fetch, FetchParent, LockPayment, IssueReceipt, Refuse, Abandon, Finish
  <2>3. job'[r].phase # "locked"
    <3>1. CASE Fetch(r)
      BY <3>1, <1>w DEF Fetch, Job
    <3>2. CASE \E i \in Invoices : FetchParent(r, i)
      BY <3>2, <1>w DEF FetchParent, Idle
    <3>3. CASE \E p \in Payments, i \in Invoices, a \in 1..MaxAmount : LockPayment(r, p, i, a)
      BY <3>3, <1>w DEF LockPayment, Idle
    <3>4. CASE IssueReceipt(r) \/ Refuse(r) \/ Abandon(r)
      BY <3>4, <1>w DEF IssueReceipt, Refuse, Abandon, Finish, Idle
    <3>5. QED
      BY <1>6, <3>1, <3>2, <3>3, <3>4
  <2>4. \A s \in Requests : job'[s].phase = "locked" =>
          job'[s] = job[s] /\ invoices'[job[s].inv] = invoices[job[s].inv]
    BY <2>1, <2>2, <2>3
  <2>5. QED
    BY <2>1, <2>4, QuietStep, SMTT(30)
<1>7. ASSUME (\E p \in Payments : CreateReceipt(p)) \/ NewDay \/ UNCHANGED vars
      PROVE  MoneyOK'
  <2>1. invoices' = invoices /\ payments' = payments /\ allocated' = allocated
        /\ live' = live /\ job' = job
    BY <1>7 DEF CreateReceipt, NewDay, vars
  <2>2. QED
    BY <2>1, QuietStep
<1>8. ASSUME NEW s \in Invoices \cup Payments, ManualVoid(s) PROVE MoneyOK'
  <2>1. \A p \in Payments : live'[p] = live[p] \/ live'[p] = <<>>
    BY <1>8, <1>t, <1>v DEF ManualVoid, TypeOK
  <2>2. QED
    BY <1>8, <2>1, QuietStep DEF ManualVoid
(* Steps that move money. *)
<1>9. ASSUME NEW r \in Requests, NEW p \in Payments, NEW q \in Parties,
             NEW a \in 1..MaxAmount, RecordPayment(r, p, q, a)
      PROVE  MoneyOK'
  <2>1. \A s \in Requests : job'[s].phase = "locked" =>
          job'[s] = job[s] /\ job[s].pay # p
    BY <1>9, <1>t, <1>w DEF RecordPayment, Idle, JobsOK
  <2>2. \A x \in Payments \ {p} : payments'[x] = payments[x]
    BY <1>9, <1>t DEF RecordPayment, TypeOK
  <2>3. payments[p].amount = 0 /\ payments'[p].amount = a
    BY <1>9, <1>t DEF RecordPayment, TypeOK, Recorded, NoPayment
  <2>4. allocated' = allocated /\ live' = live /\ invoices' = invoices
    BY <1>9 DEF RecordPayment
  <2>5. \A x \in Payments : Spent(x)' = Spent(x) /\ Spent(x) \in Nat
    BY <2>4, <1>t, SumsStay, SumsAreNatural
  <2>6. ReadIsCurrent'
    BY <2>1, <2>2, <2>4, <2>5, <1>t, SumsStay, ReadsSurvive DEF IInv, MoneyOK
  <2>7. PaymentNeverOverspent'
    BY <2>2, <2>3, <2>5 DEF PaymentNeverOverspent, IInv, MoneyOK
  <2>8. CashWithinPayment'
    <3>1. ASSUME NEW x \in Payments, NEW k \in DOMAIN live[x]
          PROVE  live[x][k] \in Spent(x)..payments'[x].amount
      <4>1. live[x][k] \in Spent(x)..payments[x].amount
        BY DEF CashWithinPayment, IInv, MoneyOK
      <4>2. payments[x].amount \in Int /\ payments'[x].amount \in Int
            /\ payments[x].amount <= payments'[x].amount
        <5>1. payments'[x].amount = IF x = p THEN a ELSE payments[x].amount
          BY <2>2, <2>3
        <5>2. payments[x].amount \in Int
          BY <1>t DEF TypeOK, Payment
        <5>3. QED
          BY <5>1, <5>2, <2>3
      <4>3. QED
        BY <4>1, <4>2, <2>5
    <3>2. QED
      BY <3>1, <2>4, <2>5 DEF CashWithinPayment
  <2>9. QED
    BY <2>6, <2>7, <2>8 DEF MoneyOK
<1>10. ASSUME NEW r \in Requests, DeleteDraft(r) PROVE MoneyOK'
  <2> DEFINE d == job[r].inv
  <2>1. allocated' = [p \in Payments |-> [allocated[p] EXCEPT ![d] = 0]]
    BY <1>10 DEF DeleteDraft
  <2>2. /\ \A p \in Payments : Spent(p)' <= Spent(p)
        /\ \A k \in Invoices \ {d} : Settled(k)' = Settled(k)
    <3> HIDE DEF d
    <3>1. QED
      BY <2>1, <1>t, SumsAfterDelete
  <2>3. \A p \in Payments : Spent(p)' \in Nat /\ Spent(p) \in Nat
    <3>1. TypeOK'
      BY ShapeKept DEF IInv, Shape
    <3>2. (\A p \in Payments : Spent(p) \in Nat)'
      BY <3>1, SumsAreNatural, PTL
    <3>3. QED
      BY <3>2, <1>t, SumsAreNatural
  <2>4. payments' = payments /\ live' = live /\ InvoiceRowFree(d) /\ Finish(r)
    BY <1>10 DEF DeleteDraft
  <2>5. \A k \in Invoices \ {d} : invoices'[k] = invoices[k]
    BY <1>10, <1>t DEF DeleteDraft, TypeOK
  <2>6. \A s \in Requests : job'[s].phase = "locked" =>
          job'[s] = job[s] /\ job[s].inv # d
    BY <1>f, <1>i, <2>4
  <2>7. ReadIsCurrent'
    BY <2>2, <2>3, <2>4, <2>5, <2>6, ReadsSurvive DEF IInv, MoneyOK
  <2>8. \A p \in Payments : payments[p].amount \in Int
    BY <1>t DEF TypeOK, Payment
  <2>9. PaymentNeverOverspent'
    BY <2>2, <2>3, <2>4, <2>8 DEF PaymentNeverOverspent, IInv, MoneyOK
  <2>10. CashWithinPayment'
    <3>1. ASSUME NEW p \in Payments, NEW k \in DOMAIN live[p]
          PROVE  live[p][k] \in Spent(p)'..payments[p].amount
      BY <2>2, <2>3, <2>8 DEF CashWithinPayment, IInv, MoneyOK
    <3>2. QED
      BY <3>1, <2>4 DEF CashWithinPayment
  <2>11. QED
    BY <2>7, <2>9, <2>10 DEF MoneyOK
<1>11. ASSUME NEW r \in Requests, LockInvoice(r) PROVE MoneyOK'
  <2>1. /\ invoices' = invoices /\ payments' = payments
        /\ allocated' = allocated /\ live' = live
    BY <1>11 DEF LockInvoice
  <2>2. \A p \in Payments : Spent(p)' = Spent(p) /\ Spent(p) \in Nat
    BY <2>1, <1>t, SumsStay, SumsAreNatural
  <2>3. ReadIsCurrent'
    <3>1. SUFFICES ASSUME NEW s \in Requests, job'[s].phase = "locked",
                          NEW p, p = job'[s].pay, NEW i, i = job'[s].inv
                   PROVE  /\ Exists(i)' /\ job'[s].row = invoices'[i]
                          /\ job'[s].onPayment <= payments'[p].amount - Spent(p)'
                          /\ job'[s].onInvoice = invoices'[i].total - Settled(i)'
      BY DEF ReadIsCurrent
    <3>2. CASE s = r
      <4>1. p = job[r].pay /\ i = job[r].inv
        BY <3>1, <3>2, <1>11, <1>w DEF LockInvoice, Job
      <4>2. p \in Payments /\ i \in Invoices
        BY <4>1, <1>11, <1>t DEF LockInvoice, JobsOK
      <4>3. /\ Exists(i) /\ job'[s].row = invoices[i]
            /\ job'[s].onPayment = payments[p].amount - Spent(p)
            /\ job'[s].onInvoice = invoices[i].total - Settled(i)
        BY <3>2, <4>1, <1>11, <1>w DEF LockInvoice, Job
      <4>4. payments[p].amount - Spent(p) \in Int
        BY <4>2, <2>2, <1>t DEF TypeOK, Payment
      <4>5. QED
        BY <4>2, <4>3, <4>4, <2>1, <2>2, SumsStay DEF Exists
    <3>3. CASE s # r
      <4>1. job'[s] = job[s]
        BY <3>1, <3>3, <1>11, <1>w DEF LockInvoice
      <4>2. p \in Payments /\ i \in Invoices
        BY <3>1, <4>1, <1>t DEF JobsOK
      <4>3. QED
        BY <3>1, <4>1, <4>2, <2>1, <2>2, SumsStay DEF Exists, IInv, MoneyOK, ReadIsCurrent
    <3>4. QED
      BY <3>2, <3>3
  <2>4. PaymentNeverOverspent' /\ CashWithinPayment'
    BY <2>1, <2>2 DEF PaymentNeverOverspent, CashWithinPayment, IInv, MoneyOK
  <2>5. QED
    BY <2>3, <2>4 DEF MoneyOK
<1>12. ASSUME NEW r \in Requests, Allocate(r) PROVE MoneyOK'
  <2>1. PICK p \in Payments, i \in Invoices, a \in Nat :
          p = job[r].pay /\ i = job[r].inv /\ a = job[r].amount
    BY <1>12, <1>t DEF Allocate, JobsOK, TypeOK, Job
  <2>2. allocated' = [allocated EXCEPT ![p][i] = @ + a]
    BY <1>12, <2>1 DEF Allocate
  <2>3. /\ Spent(p)' = Spent(p) + a
        /\ \A q \in Payments \ {p} : Spent(q)' = Spent(q)
        /\ \A k \in Invoices \ {i} : Settled(k)' = Settled(k)
    BY <2>2, <1>t, SumsAfterAllocation
  <2>4. \A x \in Payments : Spent(x) \in Nat /\ payments[x].amount \in Int
    BY <1>t, SumsAreNatural DEF TypeOK, Payment
  <2>5. Spent(p) + a <= payments[p].amount
    <3>1. a <= job[r].onPayment /\ job[r].onPayment <= payments[p].amount - Spent(p)
      BY <1>12, <2>1 DEF Allocate, Acceptable, IInv, MoneyOK, ReadIsCurrent
    <3>2. job[r].onPayment \in Int
      BY <1>w DEF Job
    <3>3. QED
      BY <3>1, <3>2, <2>4
  <2>6. payments' = payments /\ Finish(r)
    BY <1>12 DEF Allocate
  <2>7. \A s \in Requests : job'[s].phase = "locked" =>
          /\ job'[s] = job[s] /\ job[s].pay # p /\ job[s].inv # i
          /\ job[s].pay \in Payments /\ job[s].inv \in Invoices
    <3>1. job[r].phase = "locked" /\ job[r].op = "allocate"
      BY <1>12, <1>t DEF Allocate, JobsOK
    <3>2. QED
      BY <3>1, <2>1, <2>6, <1>f, <1>t DEF IInv, LocksExclude, JobsOK
  <2>8. \A k \in Invoices \ {i} : invoices'[k] = invoices[k]
    BY <1>12, <2>1, <1>t DEF Allocate, TypeOK
  <2>9. ReadIsCurrent'
    <3>1. \A x \in Payments : Spent(x)' \in Nat
      BY <2>3, <2>4
    <3>2. QED
      BY <3>1, <2>3, <2>4, <2>6, <2>7, <2>8, ReadsSurvive DEF IInv, MoneyOK
  <2>10. PaymentNeverOverspent'
    BY <2>3, <2>5, <2>6 DEF PaymentNeverOverspent, IInv, MoneyOK
  <2>11. CashWithinPayment'
    <3>1. Rebooked(live[p], Spent(p), a) = <<Spent(p) + a>>
      <4>1. VoidEntry(live[p]) = <<>> /\ Spent(p) + a \in Nat
        BY <1>v, <2>4
      <4>2. Append(<<>>, Spent(p) + a) = <<Spent(p) + a>>
        BY <4>1
      <4>3. QED
        BY <4>1, <4>2 DEF Rebooked, PostEntry
    <3>2. live' = [live EXCEPT ![p] = <<Spent(p) + a>>]
      BY <1>12, <2>1, <3>1 DEF Allocate
    <3>3. live'[p] = <<Spent(p) + a>> /\ \A x \in Payments \ {p} : live'[x] = live[x]
      BY <3>2, <1>t DEF TypeOK
    <3>4. ASSUME NEW k \in DOMAIN live'[p]
          PROVE  live'[p][k] \in Spent(p)'..payments'[p].amount
      BY <3>3, <2>3, <2>4, <2>5, <2>6
    <3>5. ASSUME NEW x \in Payments \ {p}, NEW k \in DOMAIN live'[x]
          PROVE  live'[x][k] \in Spent(x)'..payments'[x].amount
      BY <3>3, <2>3, <2>6 DEF CashWithinPayment, IInv, MoneyOK
    <3>6. QED
      BY <3>4, <3>5 DEF CashWithinPayment
  <2>12. QED
    BY <2>9, <2>10, <2>11 DEF MoneyOK
<1>13. QED
  BY <1>1, <1>2, <1>4, <1>5, <1>6, <1>7, <1>8, <1>9, <1>10, <1>11, <1>12
     DEF Next, Request, Step

(* Nothing is spent, booked or locked at the start. *)
LEMMA InitIInv == Init => IInv
<1> SUFFICES ASSUME Init PROVE IInv
  OBVIOUS
<1>1. Shape
  BY InitShape
<1>2. LocksExclude /\ AtMostOneLiveEntry /\ ReadIsCurrent
  BY DEF Init, LocksExclude, AtMostOneLiveEntry, ReadIsCurrent, Idle
<1>3. ASSUME NEW p \in Payments PROVE Spent(p) = 0 /\ payments[p].amount = 0
  <2>1. allocated[p] = [i \in Invoices |-> 0] /\ payments[p].amount = 0
    BY DEF Init, NoPayment
  <2>2. UnitsOf(allocated[p]) = {}
    BY <2>1 DEF UnitsOf
  <2>3. QED
    BY <2>1, <2>2, FS_EmptySet DEF Spent, SumOf
<1>4. PaymentNeverOverspent
  BY <1>3 DEF PaymentNeverOverspent
<1>5. CashWithinPayment
  BY DEF Init, CashWithinPayment
<1>6. QED
  BY <1>1, <1>2, <1>4, <1>5 DEF IInv, MoneyOK

(* The inductive invariant holds in every reachable state. *)
LEMMA IInvAlways == Spec => []IInv
<1>1. IInv /\ [Next]_vars => IInv'
  BY ShapeKept, LocksKept, OneLiveEntryKept, MoneyKept DEF IInv
<1>2. QED
  BY <1>1, InitIInv, PTL DEF Spec

(* No interleaving applies a payment beyond its amount. *)
THEOREM NeverOverspent == Spec => []PaymentNeverOverspent
<1>1. IInv => PaymentNeverOverspent
  BY DEF IInv, MoneyOK
<1>2. QED
  BY <1>1, IInvAlways, PTL

(* The live entry of a payment covers what it has settled, and no more     *)
(* than its amount.                                                        *)
THEOREM CashCovered == Spec => []CashWithinPayment
<1>1. IInv => CashWithinPayment
  BY DEF IInv, MoneyOK
<1>2. QED
  BY <1>1, IInvAlways, PTL

(* What allocate_payment computed under its locks is true when it writes. *)
THEOREM ReadsCurrent == Spec => []ReadIsCurrent
<1>1. IInv => ReadIsCurrent
  BY DEF IInv, MoneyOK
<1>2. QED
  BY <1>1, IInvAlways, PTL

(* Money only reaches open invoices of the payment's party, within their   *)
(* totals, and leaves the right status behind.                             *)
THEOREM AllocationFits == Spec => AllocationFitsInvoice
<1> DEFINE Fits(p, i) ==
             /\ invoices[i].status \in {"SENT", "OVERDUE", "PARTIALLY_PAID"}
             /\ invoices[i].party = payments[p].party
             /\ Settled(i)' <= invoices[i].total
             /\ invoices'[i].status = IF Settled(i)' = invoices[i].total
                                      THEN "PAID" ELSE "PARTIALLY_PAID"
           Step1 == \A p \in Payments, i \in Invoices :
                      allocated'[p][i] > allocated[p][i] => Fits(p, i)
<1>1. ASSUME IInv, [Next]_vars PROVE [Step1]_vars
  <2>t. TypeOK /\ JobsOK
    BY <1>1 DEF IInv, Shape
  <2>1. ASSUME allocated' = allocated PROVE Step1
    BY <2>1, <2>t DEF TypeOK
  <2>2. ASSUME NEW r \in Requests, DeleteDraft(r) PROVE Step1
    <3>1. \A p \in Payments, i \in Invoices :
            allocated'[p][i] \in {0, allocated[p][i]} /\ allocated[p][i] \in Nat
      BY <2>2, <2>t DEF DeleteDraft, TypeOK
    <3>2. QED
      BY <3>1
  <2>3. ASSUME NEW r \in Requests, Allocate(r) PROVE Step1
    <3>1. PICK p \in Payments, i \in Invoices, a \in Nat :
            p = job[r].pay /\ i = job[r].inv /\ a = job[r].amount
      BY <2>3, <2>t DEF Allocate, JobsOK, TypeOK, Job
    <3>2. allocated' = [allocated EXCEPT ![p][i] = @ + a]
      BY <2>3, <3>1 DEF Allocate
    <3>3. Settled(i)' = Settled(i) + a /\ Settled(i) \in Nat
      BY <3>2, <2>t, SumsAfterAllocation, SumsAreNatural
    <3>4. \A q \in Payments, k \in Invoices :
            allocated'[q][k] > allocated[q][k] => q = p /\ k = i
      BY <3>2, <2>t DEF TypeOK
    <3>5. /\ job[r].row = invoices[i]
          /\ job[r].onInvoice = invoices[i].total - Settled(i)
      BY <1>1, <2>3, <3>1 DEF Allocate, IInv, MoneyOK, ReadIsCurrent
    <3>6. invoices[i].total \in Int
      BY <2>t DEF TypeOK, Row
    <3>7. a <= invoices[i].total - Settled(i)
      BY <2>3, <3>1, <3>5 DEF Allocate, Acceptable
    <3>8. /\ invoices[i].party = payments[p].party
          /\ invoices[i].status \in {"SENT", "OVERDUE", "PARTIALLY_PAID"}
      BY <2>3, <3>1, <3>5 DEF Allocate, Acceptable, OpenStatuses
    <3>9. invoices'[i].status = StatusFor(invoices[i].total - Settled(i) - a)
      BY <2>3, <2>t, <3>1, <3>5 DEF Allocate, TypeOK, Row
    <3>10. Settled(i)' <= invoices[i].total
      BY <3>3, <3>6, <3>7
    <3>11. invoices'[i].status = IF Settled(i)' = invoices[i].total
                                 THEN "PAID" ELSE "PARTIALLY_PAID"
      BY <3>3, <3>6, <3>7, <3>9, SMTT(30) DEF StatusFor
    <3>12. QED
      BY <3>4, <3>8, <3>10, <3>11
  <2>4. ASSUME NEW r \in Requests,
               Request(r) \/ Abandon(r) \/ Fetch(r) \/ MarkSent(r) \/ Cancel(r)
                 \/ PatchHeader(r) \/ EditItems(r) \/ IssueReceipt(r)
                 \/ LockInvoice(r) \/ Refuse(r)
        PROVE  allocated' = allocated
    BY <2>4 DEF Request, Route, FetchParent, RecordPayment, LockPayment, Abandon, Fetch,
                MarkSent, Cancel, PatchHeader, EditItems, IssueReceipt, LockInvoice, Refuse
  <2>5. ASSUME (\E i \in Invoices : CreateInvoice(i)) \/ (\E p \in Payments : CreateReceipt(p))
                 \/ (\E s \in Invoices \cup Payments : ManualVoid(s))
                 \/ PageView \/ NewDay \/ UNCHANGED vars
        PROVE  allocated' = allocated
    BY <2>5 DEF CreateInvoice, CreateReceipt, ManualVoid, PageView, NewDay, vars
  <2>6. QED
    BY <1>1, <2>1, <2>2, <2>3, <2>4, <2>5 DEF Next, Step
<1>2. QED
  BY <1>1, IInvAlways, PTL DEF Spec, AllocationFitsInvoice
-----------------------------------------------------------------------------
(* The journal implements the abstract ledger. *)
Documents == Invoices \cup Payments
Contribution == [s \in Invoices \cup Payments |-> Booked(s)]

(* With one live entry at most, a source contributes that entry's amount. *)
LEMMA OneEntryCounts ==
  ASSUME TypeOK, AtMostOneLiveEntry, NEW s \in Documents
  PROVE  /\ live[s] = <<>> => Booked(s) = 0
         /\ live[s] # <<>> => /\ live[s][1] \in Nat /\ live[s] = <<live[s][1]>>
                             /\ Booked(s) = live[s][1]
<1>1. live[s] \in Seq(Nat) /\ Len(live[s]) <= 1
  BY DEF TypeOK, AtMostOneLiveEntry, Documents
<1>2. live[s] = <<>> => Booked(s) = 0
  BY SumOfNone DEF Booked
<1>3. ASSUME live[s] # <<>>
      PROVE  live[s][1] \in Nat /\ live[s] = <<live[s][1]>>
  BY <1>1, <1>3
<1>4. ASSUME live[s] # <<>> PROVE Booked(s) = live[s][1]
  <2>1. PICK n \in Nat : n = live[s][1] /\ live[s] = <<n>>
    BY <1>3, <1>4
  <2>2. SumOf(<<n>>) = n
    BY SumOfOne
  <2>3. QED
    BY <2>1, <2>2 DEF Booked
<1>5. QED
  BY <1>2, <1>3, <1>4

(* Voiding one source's entry is a step of the ledger. *)
LEMMA VoidStep ==
  ASSUME IInv, IInv', NEW s \in Documents,
         live' = [live EXCEPT ![s] = VoidEntry(live[s])]
  PROVE  [Journal!Next]_Contribution
<1> DEFINE now(x) == Booked(x)
<1>1. TypeOK /\ AtMostOneLiveEntry /\ TypeOK' /\ AtMostOneLiveEntry'
  BY DEF IInv, Shape
<1>2. live'[s] = <<>> /\ \A x \in Documents \ {s} : live'[x] = live[x]
  BY <1>1, VoidShortens DEF TypeOK, AtMostOneLiveEntry, Documents
<1>3. Booked(s)' = 0 /\ \A x \in Documents \ {s} : Booked(x)' = Booked(x)
  BY <1>2, SumOfNone DEF Booked
<1>4. Contribution' = [Contribution EXCEPT ![s] = 0]
  BY <1>3 DEF Contribution, Documents
<1>5. CASE Contribution[s] = 0
  BY <1>4, <1>5 DEF Contribution, Documents
<1>6. CASE Contribution[s] # 0
  BY <1>4, <1>6 DEF Journal!Next, Journal!Void, Contribution, Documents
<1>7. QED
  BY <1>5, <1>6

(* Posting an entry where none is live is a step of the ledger. *)
LEMMA BookStep ==
  ASSUME IInv, IInv', NEW s \in Documents, NEW a \in 1..MaxAmount,
         live[s] = <<>>, live' = [live EXCEPT ![s] = <<a>>]
  PROVE  [Journal!Next]_Contribution
<1>1. TypeOK /\ AtMostOneLiveEntry /\ a \in Nat
  BY SettlementAssumption DEF IInv, Shape
<1>2. live'[s] = <<a>> /\ \A x \in Documents \ {s} : live'[x] = live[x]
  BY <1>1 DEF TypeOK, Documents
<1>3. Booked(s)' = a /\ \A x \in Documents \ {s} : Booked(x)' = Booked(x)
  <2>1. SumOf(<<a>>) = a
    BY <1>1, SumOfOne
  <2>2. QED
    BY <1>2, <2>1 DEF Booked
<1>4. Contribution' = [Contribution EXCEPT ![s] = a]
  BY <1>3 DEF Contribution, Documents
<1>5. Contribution[s] = 0
  BY <1>1, OneEntryCounts DEF Contribution, Documents
<1>6. QED
  BY <1>4, <1>5 DEF Journal!Next, Journal!Book, Contribution, Documents

(* Rebooking a payment is one step of the ledger: it restates the payment, *)
(* or books it, or clears it when nothing is left.                         *)
LEMMA RestateStep ==
  ASSUME IInv, IInv', NEW p \in Payments, NEW a \in 0..MaxAmount,
         live' = [live EXCEPT ![p] = <<a>>]
  PROVE  [Journal!Next]_Contribution
<1>1. TypeOK /\ AtMostOneLiveEntry /\ a \in Nat /\ p \in Documents
  BY SettlementAssumption DEF IInv, Shape, Documents
<1>2. live'[p] = <<a>> /\ \A x \in Documents \ {p} : live'[x] = live[x]
  BY <1>1 DEF TypeOK, Documents
<1>3. Booked(p)' = a /\ \A x \in Documents \ {p} : Booked(x)' = Booked(x)
  <2>1. SumOf(<<a>>) = a
    BY <1>1, SumOfOne
  <2>2. QED
    BY <1>2, <2>1 DEF Booked
<1>4. Contribution' = [Contribution EXCEPT ![p] = a]
  BY <1>3 DEF Contribution, Documents
<1>5. CASE a = 0 /\ Contribution[p] = 0
  BY <1>4, <1>5 DEF Contribution, Documents
<1>6. CASE a = 0 /\ Contribution[p] # 0
  BY <1>1, <1>4, <1>6 DEF Journal!Next, Journal!Void, Contribution, Documents
<1>7. CASE a # 0 /\ Contribution[p] = 0
  <2>1. a \in 1..MaxAmount
    BY <1>1, <1>7, SettlementAssumption
  <2>2. QED
    BY <1>1, <1>4, <1>7, <2>1 DEF Journal!Next, Journal!Book, Contribution, Documents
<1>8. CASE a # 0 /\ Contribution[p] # 0
  <2>1. a \in 1..MaxAmount
    BY <1>1, <1>8, SettlementAssumption
  <2>2. QED
    BY <1>1, <1>4, <1>8, <2>1 DEF Journal!Next, Journal!Restate, Contribution, Documents
<1>9. QED
  BY <1>5, <1>6, <1>7, <1>8

(* Every step of the system is a step of the ledger, or leaves it alone. *)
LEMMA StepsImplementLedger ==
  ASSUME IInv, IInv', [Next]_vars
  PROVE  [Journal!Next]_Contribution
<1>t. TypeOK /\ JobsOK /\ AtMostOneLiveEntry /\ CashWithinPayment /\ CashWithinPayment'
  BY DEF IInv, Shape, MoneyOK
<1>1. ASSUME live' = live PROVE [Journal!Next]_Contribution
  <2>1. Contribution' = Contribution
    BY <1>1 DEF Contribution, Booked
  <2>2. QED
    BY <2>1
<1>2. ASSUME NEW r \in Requests, MarkSent(r) PROVE [Journal!Next]_Contribution
  <2>1. PICK i \in Invoices, a \in MinTotal..MaxAmount : i = job[r].inv /\ a = job[r].row.total
    BY <1>2, <1>t DEF MarkSent, HasFetched, TypeOK, JobsOK, Job, Row
  <2>2. CASE a > 0
    <3>1. live[i] = <<>> /\ a \in 1..MaxAmount /\ i \in Documents
      BY <1>2, <2>1, <2>2, SettlementAssumption DEF MarkSent, Unbooked, Documents
    <3>2. live' = [live EXCEPT ![i] = <<a>>]
      <4>1. PostEntry(<<>>, a) = <<a>>
        BY <3>1 DEF PostEntry
      <4>2. QED
        BY <1>2, <2>1, <2>2, <3>1, <4>1 DEF MarkSent
    <3>3. QED
      BY <3>1, <3>2, BookStep
  <2>3. CASE ~(a > 0)
    BY <1>1, <1>2, <2>1, <2>3 DEF MarkSent
  <2>4. QED
    BY <2>2, <2>3
<1>3. ASSUME NEW r \in Requests, Cancel(r) PROVE [Journal!Next]_Contribution
  <2>1. job[r].inv \in Documents
    BY <1>3, <1>t DEF Cancel, HasFetched, JobsOK, Documents
  <2>2. QED
    BY <1>1, <1>3, <2>1, VoidStep DEF Cancel
<1>4. ASSUME NEW r \in Requests, Allocate(r) PROVE [Journal!Next]_Contribution
  <2>1. PICK p \in Payments, a \in Nat : p = job[r].pay /\ a = job[r].amount
    BY <1>4, <1>t DEF Allocate, JobsOK, TypeOK, Job
  <2>2. PICK n \in Nat : n = Spent(p) + a
    BY <2>1, <1>t, SumsAreNatural
  <2>3. Rebooked(live[p], Spent(p), a) = <<n>>
    <3>1. VoidEntry(live[p]) = <<>>
      BY <1>t, VoidShortens DEF TypeOK, AtMostOneLiveEntry
    <3>2. Append(<<>>, n) = <<n>>
      OBVIOUS
    <3>3. QED
      BY <3>1, <3>2, <2>2 DEF Rebooked, PostEntry
  <2>4. live' = [live EXCEPT ![p] = <<n>>]
    BY <1>4, <2>1, <2>3 DEF Allocate
  <2>5. n \in 0..MaxAmount
    <3>1. live'[p] = <<n>> /\ 1 \in DOMAIN live'[p] /\ live'[p][1] = n
      BY <2>4, <1>t DEF TypeOK
    <3>2. n <= payments'[p].amount
      <4>1. live'[p][1] \in Spent(p)'..payments'[p].amount
        BY <1>t, <3>1 DEF CashWithinPayment
      <4>2. QED
        BY <3>1, <4>1
    <3>3. payments'[p].amount \in 0..MaxAmount
      BY DEF IInv, Shape, TypeOK, Payment
    <3>4. QED
      BY <3>2, <3>3, SettlementAssumption
  <2>6. QED
    BY <2>4, <2>5, RestateStep
<1>5. ASSUME NEW s \in Documents, ManualVoid(s) PROVE [Journal!Next]_Contribution
  BY <1>5, VoidStep DEF ManualVoid
<1>6. ASSUME NEW r \in Requests, Request(r) PROVE [Journal!Next]_Contribution
  BY <1>1, <1>6, ZenonT(30) DEF Request, Route, FetchParent, RecordPayment, LockPayment
<1>7. ASSUME NEW r \in Requests,
             Fetch(r) \/ PatchHeader(r) \/ DeleteDraft(r) \/ EditItems(r) \/ IssueReceipt(r)
               \/ LockInvoice(r) \/ Refuse(r) \/ Abandon(r)
      PROVE  [Journal!Next]_Contribution
  BY <1>1, <1>7 DEF Fetch, PatchHeader, DeleteDraft, EditItems, IssueReceipt,
                    LockInvoice, Refuse, Abandon
<1>8. ASSUME (\E i \in Invoices : CreateInvoice(i)) \/ (\E p \in Payments : CreateReceipt(p))
               \/ PageView \/ NewDay \/ UNCHANGED vars
      PROVE  [Journal!Next]_Contribution
  BY <1>1, <1>8 DEF CreateInvoice, CreateReceipt, PageView, NewDay, vars
<1>9. QED
  BY <1>2, <1>3, <1>4, <1>5, <1>6, <1>7, <1>8 DEF Next, Step, Documents

(* Whatever meets, the journal of invoices and payments behaves as the     *)
(* abstract ledger (existing_source_entry, void_source_entry,              *)
(* _rebook_payment_journal).                                               *)
THEOREM JournalImplementsLedger == Spec => JournalIsLedger
<1>1. Init => Journal!Init
  <2>1. Init => \A s \in Documents : Booked(s) = 0
    BY SumOfNone DEF Init, Booked, Documents
  <2>2. QED
    BY <2>1 DEF Journal!Init, Documents
<1>2. IInv /\ IInv' /\ [Next]_vars
        => [Journal!Next]_([s \in Invoices \cup Payments |-> Booked(s)])
  BY StepsImplementLedger DEF Contribution
<1>3. QED
  BY <1>1, <1>2, IInvAlways, PTL DEF Spec, JournalIsLedger, Journal!Spec
-----------------------------------------------------------------------------
(* The ledger and the documents, when the environment is Careful. *)

AloneOK == \A r, s \in Requests : r # s /\ job[r].op \in Alone => job[s] = Idle

(* What a request is about. *)
Meant(j) ==
  /\ j.phase \in {"routed", "fetched"} => j.op \in Ops \cap (Copying \cup {"send"})
  /\ j.op = "allocate" => j.amount > 0
RequestsOK == AloneOK /\ \A r \in Requests : Meant(job[r])

(* What the row, the money settled on it, its live entries and the date    *)
(* have to do with one another.                                            *)
BooksOf == {"SENT", "PARTIALLY_PAID", "PAID", "OVERDUE"}
RowFits(i, row, paid, entries, day) ==
  /\ row.status \notin Missing => row.party \in Billable(i)
  /\ row.status \notin BooksOf => paid = 0
  /\ entries = IF row.status \in BooksOf /\ row.total > 0 THEN <<row.total>> ELSE <<>>
  /\ row.status = "SENT" => paid = 0
  /\ row.status = "PARTIALLY_PAID" => paid \in 1..(row.total - 1)
  /\ row.status = "PAID" => paid = row.total /\ row.total > 0
  /\ row.status = "OVERDUE" =>
       row.due < day /\ (paid < row.total \/ (paid = 0 /\ row.total <= 0))
RowsOK == \A i \in Invoices : RowFits(i, invoices[i], Settled(i), live[i], today)

(* A payment's live entry is what it settled, on invoices of its own kind. *)
PaymentFits(p) ==
  /\ live[p] = IF Spent(p) = 0 THEN <<>> ELSE <<Spent(p)>>
  /\ Recorded(p) => payments[p].party \in Parties
  /\ \A i \in Invoices : allocated[p][i] > 0 =>
       Recorded(p) /\ KindOf[payments[p].party] = KindOf[i]
PaymentsOK == \A p \in Payments : PaymentFits(p)

(* What the copy a request holds still says of the row. *)
CopyFits(j, row, paid) ==
  /\ row.status \notin Missing
  /\ j.op \in Copying /\ j.row.status = "DRAFT" => row = j.row
  /\ j.op = "cancel" /\ j.row.status = "SENT" => row.status \in {"SENT", "OVERDUE"} /\ paid = 0
  /\ j.op = "send" /\ j.row.status = "DRAFT" =>
       row.status # "CANCELLED" /\ row.total = j.row.total
CopiesOK ==
  \A r \in Requests : job[r].phase = "fetched" =>
    CopyFits(job[r], invoices[job[r].inv], Settled(job[r].inv))

Agree == RequestsOK /\ RowsOK /\ PaymentsOK /\ CopiesOK

LEMMA NotAlone == "idle" \notin Alone /\ "idle" \notin Ops
BY SettlementAssumption DEF AllOps

LEMMA IdleMeansNothing == Meant(Idle)
BY DEF Meant, Idle

(* Requests that must run alone do. *)
LEMMA RequestsKept == Shape /\ RequestsOK /\ [Next]_vars => RequestsOK'
<1> SUFFICES ASSUME Shape, RequestsOK, [Next]_vars PROVE RequestsOK'
  OBVIOUS
<1>t. job \in [Requests -> Job]
  BY DEF Shape, TypeOK
<1>1. ASSUME NEW r \in Requests, Finish(r) PROVE RequestsOK'
  BY <1>1, <1>t, NotAlone, IdleMeansNothing DEF RequestsOK, AloneOK, Finish, Idle
<1>2. ASSUME NEW r \in Requests, NEW j, job' = [job EXCEPT ![r] = j], j.op = job[r].op,
             job[r] # Idle, Meant(j)
      PROVE  RequestsOK'
  BY <1>2, <1>t DEF RequestsOK, AloneOK
<1>3. ASSUME NEW r \in Requests, NEW j, NEW op, job' = [job EXCEPT ![r] = j], j.op = op,
             job[r] = Idle, MayMeet(op), Meant(j)
      PROVE  RequestsOK'
  BY <1>3, <1>t DEF RequestsOK, AloneOK, MayMeet
<1>4. ASSUME NEW r \in Requests, Request(r) PROVE RequestsOK'
  <2>1. ASSUME NEW i \in Invoices, NEW op \in Ops, Route(r, op, i) PROVE RequestsOK'
    <3> DEFINE j == [Idle EXCEPT !.op = op, !.phase = "routed", !.inv = i]
    <3>1. j.op = op /\ job' = [job EXCEPT ![r] = j] /\ job[r] = Idle /\ MayMeet(op)
      BY <2>1 DEF Route, Idle
    <3>2. Meant(j)
      BY <2>1 DEF Route, Idle, Meant, Copying
    <3> HIDE DEF j
    <3>3. QED
      BY <1>3, <3>1, <3>2
  <2>2. ASSUME NEW i \in Invoices, FetchParent(r, i) PROVE RequestsOK'
    <3> DEFINE j == [Idle EXCEPT !.op = "items", !.phase = "fetched", !.inv = i,
                                 !.row = invoices[i]]
    <3>1. j.op = "items" /\ job' = [job EXCEPT ![r] = j] /\ job[r] = Idle /\ MayMeet("items")
      BY <2>2 DEF FetchParent, Idle
    <3>2. Meant(j)
      BY <2>2 DEF FetchParent, Idle, Meant, Copying
    <3> HIDE DEF j
    <3>3. QED
      BY <1>3, <3>1, <3>2
  <2>3. ASSUME NEW p \in Payments, NEW q \in Parties, NEW a \in 1..MaxAmount,
               RecordPayment(r, p, q, a)
        PROVE  RequestsOK'
    <3> DEFINE j == [Idle EXCEPT !.op = "pay", !.phase = "recorded", !.pay = p]
    <3>1. j.op = "pay" /\ job' = [job EXCEPT ![r] = j] /\ job[r] = Idle /\ MayMeet("pay")
      BY <2>3 DEF RecordPayment, Idle
    <3>2. Meant(j)
      BY DEF Idle, Meant
    <3> HIDE DEF j
    <3>3. QED
      BY <1>3, <3>1, <3>2
  <2>4. ASSUME NEW p \in Payments, NEW i \in Invoices, NEW a \in 1..MaxAmount,
               LockPayment(r, p, i, a)
        PROVE  RequestsOK'
    <3> DEFINE j == [Idle EXCEPT !.op = "allocate", !.phase = "payment",
                                 !.inv = i, !.pay = p, !.amount = a]
    <3>1. /\ j.op = "allocate" /\ job' = [job EXCEPT ![r] = j] /\ job[r] = Idle
          /\ MayMeet("allocate")
      BY <2>4 DEF LockPayment, Idle
    <3>2. Meant(j)
      BY SettlementAssumption DEF Idle, Meant
    <3> HIDE DEF j
    <3>3. QED
      BY <1>3, <3>1, <3>2
  <2>5. QED
    BY <1>4, <2>1, <2>2, <2>3, <2>4 DEF Request
<1>5. ASSUME NEW r \in Requests, Fetch(r) PROVE RequestsOK'
  <2> DEFINE j == [job[r] EXCEPT !.phase = "fetched", !.row = invoices[job[r].inv]]
  <2>1. job' = [job EXCEPT ![r] = j]
    BY <1>5, <1>t DEF Fetch
  <2>2. j.op = job[r].op /\ job[r] # Idle
    BY <1>5, <1>t DEF Fetch, Job, Idle
  <2>3. Meant(j)
    BY <1>5, <1>t DEF Fetch, Meant, RequestsOK, Job, Copying
  <2> HIDE DEF j
  <2>4. QED
    BY <1>2, <2>1, <2>2, <2>3
<1>6. ASSUME NEW r \in Requests, LockInvoice(r) PROVE RequestsOK'
  <2> DEFINE j == [job[r] EXCEPT !.phase = "locked", !.row = invoices[job[r].inv],
                     !.onPayment = payments[job[r].pay].amount - Spent(job[r].pay),
                     !.onInvoice = invoices[job[r].inv].total - Settled(job[r].inv)]
  <2>1. job' = [job EXCEPT ![r] = j]
    BY <1>6, <1>t DEF LockInvoice
  <2>2. j.op = job[r].op /\ job[r] # Idle
    BY <1>6, <1>t DEF LockInvoice, Job, Idle
  <2>3. Meant(j)
    BY <1>6, <1>t DEF LockInvoice, Meant, RequestsOK, Job
  <2> HIDE DEF j
  <2>4. QED
    BY <1>2, <2>1, <2>2, <2>3
<1>7. ASSUME UNCHANGED job PROVE RequestsOK'
  BY <1>7, SMTT(30) DEF RequestsOK, AloneOK
<1>8. ASSUME NEW r \in Requests,
             MarkSent(r) \/ Cancel(r) \/ PatchHeader(r) \/ DeleteDraft(r) \/ EditItems(r)
               \/ IssueReceipt(r) \/ Allocate(r) \/ Refuse(r) \/ Abandon(r)
      PROVE  RequestsOK'
  BY <1>1, <1>8 DEF MarkSent, Cancel, PatchHeader, DeleteDraft, EditItems, IssueReceipt,
                    Allocate, Refuse, Abandon
<1>9. ASSUME (\E i \in Invoices : CreateInvoice(i)) \/ (\E p \in Payments : CreateReceipt(p))
               \/ (\E s \in Invoices \cup Payments : ManualVoid(s))
               \/ PageView \/ NewDay \/ UNCHANGED vars
      PROVE  RequestsOK'
  BY <1>7, <1>9 DEF CreateInvoice, CreateReceipt, ManualVoid, PageView, NewDay, vars
<1>10. QED
  BY <1>4, <1>5, <1>6, <1>8, <1>9 DEF Next, Step

(* A request that decides on its copy of the row is the only one. *)
LEMMA CopierIsAlone ==
  ASSUME Careful, RequestsOK, NEW r \in Requests, job[r].phase = "fetched", job[r].op \in Copying
  PROVE  \A s \in Requests \ {r} : job[s] = Idle
BY DEF Careful, RequestsOK, AloneOK, Meant

(* Beside a request that may meet others, every fetched copy is to be sent. *)
LEMMA OthersSend ==
  ASSUME Careful, RequestsOK, NEW r \in Requests, job[r] # Idle,
         NEW s \in Requests \ {r}, job[s].phase = "fetched"
  PROVE  job[s].op = "send"
<1>1. job[s].op \notin Alone
  BY DEF RequestsOK, AloneOK
<1>2. job[s].op \in Ops \cap (Copying \cup {"send"})
  BY DEF RequestsOK, Meant
<1>3. QED
  BY <1>1, <1>2 DEF Careful

LEMMA LateRowFits ==
  ASSUME NEW i, NEW row \in Row, NEW paid \in Nat, NEW e, NEW day,
         RowFits(i, row, paid, e, day), row.status \in BilledStatuses, row.due < day
  PROVE  RowFits(i, [row EXCEPT !.status = "OVERDUE"], paid, e, day)
BY SettlementAssumption DEF RowFits, Row, BilledStatuses, BooksOf, Missing

(* Every step keeps rows, settled money and live entries together: first   *)
(* the ways in which steps change them, then the steps.                    *)
LEMMA RowsKept ==
  ASSUME Careful, IInv, Agree, [Next]_vars
  PROVE  RowsOK'
<1>t. /\ TypeOK /\ JobsOK /\ invoices \in [Invoices -> Row] /\ job \in [Requests -> Job]
      /\ live \in [Invoices \cup Payments -> Seq(Nat)]
  BY DEF IInv, Shape, TypeOK
<1>n. \A i \in Invoices : Settled(i) \in Nat /\ RowFits(i, invoices[i], Settled(i), live[i], today)
  BY <1>t, SumsAreNatural DEF Agree, RowsOK
<1>q. ASSUME invoices' = invoices, live' = live, allocated' = allocated, today' = today
      PROVE  RowsOK'
  BY <1>q, <1>n, SumsStay DEF RowsOK
<1>s. ASSUME SyncOverdue, live' = live, allocated' = allocated, today' = today
      PROVE  RowsOK'
  <2>1. ASSUME NEW i \in Invoices PROVE RowFits(i, invoices'[i], Settled(i), live[i], today)
    <3>1. CASE Late(invoices[i])
      <4>1. invoices'[i] = [invoices[i] EXCEPT !.status = "OVERDUE"]
        BY <1>s, <3>1 DEF SyncOverdue
      <4>2. QED
        BY <3>1, <4>1, <1>t, <1>n, LateRowFits DEF Late
    <3>2. CASE ~Late(invoices[i])
      BY <1>s, <3>2, <1>n DEF SyncOverdue
    <3>3. QED
      BY <3>1, <3>2
  <2>2. QED
    BY <1>s, <2>1, SumsStay DEF RowsOK
<1>o. ASSUME NEW i \in Invoices, today' = today,
             \A k \in Invoices \ {i} :
               invoices'[k] = invoices[k] /\ live'[k] = live[k] /\ Settled(k)' = Settled(k),
             RowFits(i, invoices'[i], Settled(i)', live'[i], today)
      PROVE  RowsOK'
  BY <1>o, <1>n DEF RowsOK
<1>c. ASSUME NEW r \in Requests, job[r].phase = "fetched"
      PROVE  /\ job[r].inv \in Invoices
             /\ CopyFits(job[r], invoices[job[r].inv], Settled(job[r].inv))
  BY <1>c, <1>t DEF Agree, CopiesOK, JobsOK
<1>1. ASSUME NEW r \in Requests, Request(r) \/ Abandon(r) PROVE RowsOK'
  <2>1. CASE \E i \in Invoices, op \in Ops : Route(r, op, i)
    BY <1>s, <2>1 DEF Route
  <2>2. CASE ~\E i \in Invoices, op \in Ops : Route(r, op, i)
    BY <1>q, <1>1, <2>2 DEF Request, FetchParent, RecordPayment, LockPayment, Abandon
  <2>3. QED
    BY <2>1, <2>2
<1>2. ASSUME NEW r \in Requests, Fetch(r) \/ IssueReceipt(r) \/ LockInvoice(r) \/ Refuse(r)
      PROVE  RowsOK'
  BY <1>q, <1>2 DEF Fetch, IssueReceipt, LockInvoice, Refuse
<1>3. ASSUME NEW r \in Requests, MarkSent(r) PROVE RowsOK'
  <2>1. PICK i \in Invoices : i = job[r].inv
    BY <1>3, <1>c DEF MarkSent, HasFetched
  <2>2. /\ job[r].op = "send" /\ job[r].row.status = "DRAFT"
        /\ CopyFits(job[r], invoices[i], Settled(i))
    BY <1>3, <1>c, <2>1 DEF MarkSent, HasFetched, AllowedTransitions
  <2>3. PICK total \in MinTotal..MaxAmount : total = job[r].row.total /\ total = invoices[i].total
    BY <2>2, <1>t DEF CopyFits, Job, Row
  <2>4. invoices[i].status \in BooksOf \cup {"DRAFT"}
    BY <2>2, <1>t DEF CopyFits, Row, BooksOf, Statuses, Missing
  <2>5. /\ invoices'[i] = [invoices[i] EXCEPT !.status = "SENT"]
        /\ \A k \in Invoices \ {i} : invoices'[k] = invoices[k]
        /\ allocated' = allocated /\ today' = today
    BY <1>3, <1>t, <2>1 DEF MarkSent
  <2>6. CASE total > 0
    <3>1. live[i] = <<>> /\ live' = [live EXCEPT ![i] = <<total>>]
      <4>1. live[i] = <<>> /\ live' = [live EXCEPT ![i] = PostEntry(live[i], total)]
        BY <1>3, <2>1, <2>3, <2>6 DEF MarkSent, Unbooked
      <4>2. PostEntry(<<>>, total) = <<total>>
        BY <2>6 DEF PostEntry
      <4>3. QED
        BY <4>1, <4>2
    <3>2. live'[i] = <<total>> /\ \A k \in Invoices \ {i} : live'[k] = live[k]
      BY <3>1, <1>t
    <3>3. invoices[i].status = "DRAFT" /\ Settled(i) = 0
      <4>1. RowFits(i, invoices[i], Settled(i), live[i], today)
        BY <1>n
      <4>2. invoices[i].status \notin BooksOf
        <5>1. <<total>> # <<>>
          OBVIOUS
        <5>2. QED
          BY <4>1, <5>1, <3>1, <2>3, <2>6 DEF RowFits
      <4>3. QED
        BY <4>1, <4>2, <2>4 DEF RowFits
    <3>4. RowFits(i, invoices'[i], Settled(i), live'[i], today)
      BY <3>2, <3>3, <2>3, <2>5, <2>6, <1>n, <1>t, SMTT(30) DEF RowFits, Row, BooksOf, Missing
    <3>5. QED
      BY <1>o, <2>5, <3>2, <3>4, SumsStay
  <2>7. CASE ~(total > 0)
    <3>1. live' = live
      BY <1>3, <2>3, <2>7 DEF MarkSent
    <3>2. Settled(i) = 0 /\ live[i] = <<>> /\ invoices[i].party \in Billable(i)
      <4>1. RowFits(i, invoices[i], Settled(i), live[i], today) /\ ~(invoices[i].total > 0)
        BY <2>3, <2>7, <1>n
      <4>2. live[i] = <<>> /\ invoices[i].party \in Billable(i)
        BY <4>1, <2>4 DEF RowFits, BooksOf, Missing
      <4>3. Settled(i) = 0
        <5>1. Settled(i) \in Nat /\ invoices[i].total \in Int
          BY <2>3, <1>n, SettlementAssumption
        <5>2. QED
          BY <4>1, <5>1, <2>4 DEF RowFits, BooksOf
      <4>4. QED
        BY <4>2, <4>3
    <3>3. /\ invoices'[i].status = "SENT" /\ ~(invoices'[i].total > 0)
          /\ invoices'[i].party = invoices[i].party
      BY <2>3, <2>5, <2>7, <1>t DEF Row
    <3>4. RowFits(i, invoices'[i], Settled(i), live'[i], today)
      BY <3>1, <3>2, <3>3 DEF RowFits, BooksOf, Missing
    <3>5. QED
      BY <1>o, <2>5, <3>1, <3>4, SumsStay
  <2>8. QED
    BY <2>6, <2>7
<1>4. ASSUME NEW r \in Requests, Cancel(r) PROVE RowsOK'
  <2>1. PICK i \in Invoices : i = job[r].inv
    BY <1>4, <1>c DEF Cancel, HasFetched
  <2>2. /\ job[r].op = "cancel" /\ job[r].row.status \in {"DRAFT", "SENT"}
        /\ CopyFits(job[r], invoices[i], Settled(i))
    BY <1>4, <1>c, <2>1 DEF Cancel, HasFetched, AllowedTransitions
  <2>3. /\ invoices'[i] = [invoices[i] EXCEPT !.status = "CANCELLED"]
        /\ \A k \in Invoices \ {i} : invoices'[k] = invoices[k]
        /\ allocated' = allocated /\ today' = today
    BY <1>4, <1>t, <2>1 DEF Cancel
  <2>4. Settled(i) = 0 /\ invoices[i].party \in Billable(i)
    BY <2>2, <1>n DEF CopyFits, RowFits, Copying, BooksOf
  <2>5. live'[i] = <<>> /\ \A k \in Invoices \ {i} : live'[k] = live[k]
    <3>1. CASE job[r].row.status = "DRAFT"
      <4>1. live' = live /\ invoices[i].status = "DRAFT"
        BY <1>4, <2>2, <3>1 DEF Cancel, CopyFits, Copying
      <4>2. QED
        BY <4>1, <1>n DEF RowFits, BooksOf
    <3>2. CASE job[r].row.status = "SENT"
      <4>1. live' = [live EXCEPT ![i] = VoidEntry(live[i])]
        BY <1>4, <2>1, <3>2 DEF Cancel
      <4>2. live[i] \in Seq(Nat) /\ Len(live[i]) <= 1
        BY <1>t DEF IInv, AtMostOneLiveEntry
      <4>3. QED
        BY <4>1, <4>2, <1>t, VoidShortens
    <3>3. QED
      BY <2>2, <3>1, <3>2
  <2>6. RowFits(i, invoices'[i], Settled(i), live'[i], today)
    BY <2>3, <2>4, <2>5, <1>t DEF RowFits, Row, BooksOf
  <2>7. QED
    BY <1>o, <2>3, <2>5, <2>6, SumsStay
<1>5. ASSUME NEW r \in Requests, PatchHeader(r) PROVE RowsOK'
  <2>1. PICK i \in Invoices : i = job[r].inv
    BY <1>5, <1>c DEF PatchHeader, HasFetched
  <2>2. job[r].row.status = "DRAFT" /\ invoices[i] = job[r].row
    BY <1>5, <1>c, <2>1 DEF PatchHeader, HasFetched, CopyFits, Copying
  <2>3. PICK q \in Billable(i), d \in 1..MaxDay :
          invoices' = [invoices EXCEPT ![i] = [invoices[i] EXCEPT !.party = q, !.due = d]]
    BY <1>5, <2>1, <2>2 DEF PatchHeader
  <2>4. /\ live' = live /\ allocated' = allocated /\ today' = today
        /\ \A k \in Invoices \ {i} : invoices'[k] = invoices[k]
    BY <1>5, <2>3, <1>t DEF PatchHeader
  <2>5. invoices'[i].status = "DRAFT" /\ invoices'[i].party = q
    BY <2>2, <2>3, <1>t DEF Row
  <2>6. RowFits(i, invoices'[i], Settled(i), live[i], today)
    BY <2>2, <2>5, <1>n DEF RowFits, BooksOf
  <2>7. QED
    BY <1>o, <2>4, <2>6, SumsStay
<1>6. ASSUME NEW r \in Requests, DeleteDraft(r) PROVE RowsOK'
  <2>1. PICK i \in Invoices : i = job[r].inv
    BY <1>6, <1>c DEF DeleteDraft, HasFetched
  <2>2. job[r].row.status = "DRAFT" /\ invoices[i] = job[r].row
    BY <1>6, <1>c, <2>1 DEF DeleteDraft, HasFetched, CopyFits, Copying
  <2>3. live[i] = <<>>
    BY <2>2, <1>n DEF RowFits, BooksOf
  <2>4. allocated' = [p \in Payments |-> [allocated[p] EXCEPT ![i] = 0]]
    BY <1>6, <2>1 DEF DeleteDraft
  <2>5. \A k \in Invoices \ {i} : Settled(k)' = Settled(k)
    BY <2>4, <1>t, SumsAfterDelete
  <2>6. Settled(i)' = 0
    <3> DEFINE column == [p \in Payments |-> allocated'[p][i]]
    <3>1. column \in [Payments -> Nat] /\ \A p \in Payments : column[p] = 0
      BY <2>4, <1>t DEF TypeOK
    <3> HIDE DEF column
    <3>2. SumOf(column) = 0
      BY <3>1, SumOfZeros
    <3>3. QED
      BY <3>2 DEF Settled, column
  <2>7. /\ invoices'[i] = NoRow("DELETED") /\ live' = live /\ today' = today
        /\ \A k \in Invoices \ {i} : invoices'[k] = invoices[k]
    BY <1>6, <2>1, <1>t DEF DeleteDraft
  <2>8. RowFits(i, invoices'[i], Settled(i)', live[i], today)
    BY <2>3, <2>6, <2>7 DEF RowFits, NoRow, BooksOf, Missing
  <2>9. QED
    BY <1>o, <2>5, <2>7, <2>8
<1>7. ASSUME NEW r \in Requests, EditItems(r) PROVE RowsOK'
  <2>1. PICK i \in Invoices : i = job[r].inv
    BY <1>7, <1>c DEF EditItems, HasFetched
  <2>2. job[r].row.status = "DRAFT" /\ invoices[i] = job[r].row
    BY <1>7, <1>c, <2>1 DEF EditItems, HasFetched, CopyFits, Copying
  <2>3. PICK total \in MinTotal..MaxAmount : invoices' = [invoices EXCEPT ![i].total = total]
    BY <1>7, <2>1 DEF EditItems
  <2>4. /\ live' = live /\ allocated' = allocated /\ today' = today
        /\ \A k \in Invoices \ {i} : invoices'[k] = invoices[k]
    BY <1>7, <2>3, <1>t DEF EditItems
  <2>5. invoices'[i].status = "DRAFT" /\ invoices'[i].party = invoices[i].party
    BY <2>2, <2>3, <1>t DEF Row
  <2>6. RowFits(i, invoices'[i], Settled(i), live[i], today)
    BY <2>2, <2>5, <1>n DEF RowFits, BooksOf
  <2>7. QED
    BY <1>o, <2>4, <2>6, SumsStay
<1>8. ASSUME NEW r \in Requests, Allocate(r) PROVE RowsOK'
  <2>1. PICK p \in Payments, i \in Invoices, a \in Nat :
          p = job[r].pay /\ i = job[r].inv /\ a = job[r].amount
    BY <1>8, <1>t DEF Allocate, JobsOK, Job
  <2>2. allocated' = [allocated EXCEPT ![p][i] = @ + a]
    BY <1>8, <2>1 DEF Allocate
  <2>3. Settled(i)' = Settled(i) + a /\ \A k \in Invoices \ {i} : Settled(k)' = Settled(k)
    BY <2>2, <1>t, SumsAfterAllocation
  <2>4. a > 0
    BY <1>8, <2>1, <1>t DEF Allocate, JobsOK, Agree, RequestsOK, Meant
  <2>5. /\ job[r].row = invoices[i] /\ job[r].onInvoice = invoices[i].total - Settled(i)
        /\ invoices[i].status \in {"SENT", "OVERDUE", "PARTIALLY_PAID"}
        /\ a <= invoices[i].total - Settled(i)
    BY <1>8, <2>1 DEF Allocate, Acceptable, OpenStatuses, IInv, MoneyOK, ReadIsCurrent
  <2>6. invoices[i].total \in Int
    BY <1>t, SettlementAssumption DEF Row
  <2>7. /\ invoices'[i] = [invoices[i] EXCEPT !.status = StatusFor(invoices[i].total - Settled(i) - a)]
        /\ \A k \in Invoices \ {i} : invoices'[k] = invoices[k]
        /\ today' = today
    BY <1>8, <1>t, <2>1, <2>5 DEF Allocate
  <2>8. \A k \in Invoices : live'[k] = live[k]
    BY <1>8, <1>t, <2>1, SettlementAssumption DEF Allocate
  <2>9. /\ invoices'[i].status = IF Settled(i) + a = invoices[i].total
                                 THEN "PAID" ELSE "PARTIALLY_PAID"
        /\ invoices'[i].total = invoices[i].total /\ invoices'[i].party = invoices[i].party
    <3>1. invoices[i].total - Settled(i) - a <= 0 <=> Settled(i) + a = invoices[i].total
      BY <2>5, <2>6, <1>n
    <3>2. QED
      BY <3>1, <2>7, <1>t DEF Row, StatusFor
  <2>10. RowFits(i, invoices[i], Settled(i), live[i], today) /\ Settled(i) \in Nat
    BY <1>n
  <2>11. RowFits(i, invoices'[i], Settled(i) + a, live[i], today)
    <3> DEFINE paid == Settled(i)
               total == invoices[i].total
               e == live[i]
    <3>1. /\ paid \in Nat /\ total \in Int /\ a <= total - paid /\ total > 0
          /\ invoices[i].party \in Billable(i)
          /\ e = <<total>>
      BY <2>4, <2>5, <2>6, <2>10 DEF RowFits, BooksOf, Missing
    <3>2. /\ invoices'[i].status = IF paid + a = total THEN "PAID" ELSE "PARTIALLY_PAID"
          /\ invoices'[i].total = total /\ invoices'[i].party = invoices[i].party
      BY <2>9
    <3> HIDE DEF paid, total, e
    <3>3. RowFits(i, invoices'[i], paid + a, e, today)
      BY <2>4, <3>1, <3>2 DEF RowFits, BooksOf, Missing
    <3>4. QED
      BY <3>3 DEF paid, e
  <2>12. QED
    BY <1>o, <2>3, <2>7, <2>8, <2>11
<1>9. ASSUME NEW i \in Invoices, CreateInvoice(i) PROVE RowsOK'
  <2>1. PICK q \in Billable(i), d \in 1..MaxDay :
          invoices' = [invoices EXCEPT ![i] = [status |-> "DRAFT", total |-> 0,
                                               due |-> d, party |-> q]]
    BY <1>9 DEF CreateInvoice
  <2>2. invoices'[i].status = "DRAFT" /\ invoices'[i].party = q
        /\ \A k \in Invoices \ {i} : invoices'[k] = invoices[k]
    BY <2>1, <1>t
  <2>3. invoices[i].status = "ABSENT" /\ live' = live /\ allocated' = allocated /\ today' = today
    BY <1>9 DEF CreateInvoice
  <2>4. RowFits(i, invoices'[i], Settled(i), live[i], today)
    BY <2>2, <2>3, <1>n DEF RowFits, BooksOf
  <2>5. QED
    BY <1>o, <2>2, <2>3, <2>4, SumsStay
<1>10. ASSUME NEW p \in Payments, CreateReceipt(p) PROVE RowsOK'
  BY <1>q, <1>10 DEF CreateReceipt
<1>11. ASSUME NEW s \in Invoices \cup Payments, ManualVoid(s) PROVE RowsOK'
  BY <1>11 DEF ManualVoid, Careful
<1>12. CASE PageView
  BY <1>s, <1>12 DEF PageView
<1>13. CASE NewDay
  <2>1. \A i \in Invoices : RowFits(i, invoices[i], Settled(i), live[i], today + 1)
    <3>1. TAKE i \in Invoices
    <3>2. invoices[i].due \in Int /\ today \in Int
      BY <1>t DEF TypeOK, Row
    <3>3. RowFits(i, invoices[i], Settled(i), live[i], today)
      BY <1>n
    <3>4. invoices[i].due < today => invoices[i].due < today + 1
      BY <3>2
    <3>5. QED
      BY <3>3, <3>4, Zenon DEF RowFits
  <2>2. QED
    BY <1>13, <2>1, SumsStay DEF NewDay, RowsOK
<1>14. CASE UNCHANGED vars
  BY <1>q, <1>14 DEF vars
<1>15. QED
  BY <1>1, <1>2, <1>3, <1>4, <1>5, <1>6, <1>7, <1>8, <1>9, <1>10, <1>11, <1>12, <1>13, <1>14
     DEF Next, Step

(* Nothing is allocated to an invoice with nothing settled on it. *)
LEMMA NothingAllocated ==
  ASSUME TypeOK, NEW i \in Invoices, Settled(i) = 0
  PROVE  \A p \in Payments : allocated[p][i] = 0
<1> DEFINE column == [p \in Payments |-> allocated[p][i]]
<1>1. column \in [Payments -> Nat] /\ \A p \in Payments : column[p] = allocated[p][i]
  BY DEF TypeOK
<1>2. SumOf(column) = 0
  BY DEF Settled
<1> HIDE DEF column
<1>3. QED
  BY <1>1, <1>2, ZerosOfSum, SettlementAssumption

(* Every step keeps payments and their entries together. *)
LEMMA PaymentsKept ==
  ASSUME Careful, IInv, Agree, [Next]_vars
  PROVE  PaymentsOK'
<1>t. /\ TypeOK /\ JobsOK /\ invoices \in [Invoices -> Row] /\ job \in [Requests -> Job]
      /\ live \in [Invoices \cup Payments -> Seq(Nat)]
      /\ payments \in [Payments -> Payment] /\ allocated \in [Payments -> [Invoices -> Nat]]
  BY DEF IInv, Shape, TypeOK
<1>n. \A p \in Payments : PaymentFits(p) /\ Spent(p) \in Nat
  BY <1>t, SumsAreNatural DEF Agree, PaymentsOK
<1>q. ASSUME payments' = payments, allocated' = allocated, \A p \in Payments : live'[p] = live[p]
      PROVE  PaymentsOK'
  BY <1>q, <1>n, SumsStay, SMTT(30) DEF PaymentsOK, PaymentFits, Recorded
<1>1. ASSUME NEW r \in Requests,
             Abandon(r) \/ Fetch(r) \/ IssueReceipt(r) \/ LockInvoice(r) \/ Refuse(r)
               \/ PatchHeader(r) \/ EditItems(r)
               \/ (\E i \in Invoices, op \in Ops : Route(r, op, i))
               \/ (\E i \in Invoices : FetchParent(r, i))
               \/ (\E p \in Payments, i \in Invoices, a \in 1..MaxAmount : LockPayment(r, p, i, a))
      PROVE  PaymentsOK'
  BY <1>q, <1>1 DEF Abandon, Fetch, IssueReceipt, LockInvoice, Refuse, PatchHeader, EditItems,
                    Route, FetchParent, LockPayment
<1>2. ASSUME NEW r \in Requests, MarkSent(r) \/ Cancel(r) PROVE PaymentsOK'
  <2>1. job[r].inv \in Invoices
    BY <1>2, <1>t DEF MarkSent, Cancel, HasFetched, JobsOK
  <2>2. \A p \in Payments : live'[p] = live[p]
    BY <1>2, <1>t, <2>1, SettlementAssumption DEF MarkSent, Cancel
  <2>3. QED
    BY <1>q, <1>2, <2>2 DEF MarkSent, Cancel
<1>3. ASSUME NEW r \in Requests, DeleteDraft(r) PROVE PaymentsOK'
  <2>1. PICK i \in Invoices : i = job[r].inv
    BY <1>3, <1>t DEF DeleteDraft, HasFetched, JobsOK
  <2>2. invoices[i].status = "DRAFT"
    BY <1>3, <2>1 DEF DeleteDraft, HasFetched, Agree, CopiesOK, CopyFits, Copying
  <2>3. Settled(i) = 0
    BY <2>2 DEF Agree, RowsOK, RowFits, BooksOf
  <2>4. \A p \in Payments : allocated[p][i] = 0
    BY <2>3, <1>t, NothingAllocated
  <2>5. allocated' = allocated
    <3>1. allocated' = [p \in Payments |-> [allocated[p] EXCEPT ![i] = 0]]
      BY <1>3, <2>1 DEF DeleteDraft
    <3>2. \A p \in Payments : [allocated[p] EXCEPT ![i] = 0] = allocated[p]
      BY <2>4, <1>t
    <3>3. QED
      BY <3>1, <3>2, <1>t
  <2>6. QED
    BY <1>q, <1>3, <2>5 DEF DeleteDraft
<1>4. ASSUME NEW r \in Requests, NEW p \in Payments, NEW q \in Parties, NEW a \in 1..MaxAmount,
             RecordPayment(r, p, q, a)
      PROVE  PaymentsOK'
  <2>1. /\ \A x \in Payments \ {p} : payments'[x] = payments[x]
        /\ payments'[p].party = q /\ ~Recorded(p)
        /\ allocated' = allocated /\ live' = live
    BY <1>4, <1>t DEF RecordPayment
  <2>2. \A x \in Payments : Spent(x)' = Spent(x)
    BY <2>1, SumsStay
  <2>3. PaymentFits(p)'
    <3>1. \A i \in Invoices : ~(allocated[p][i] > 0)
      BY <2>1, <1>n DEF PaymentFits
    <3>2. QED
      BY <2>1, <2>2, <3>1, <1>n DEF PaymentFits
  <2>4. ASSUME NEW x \in Payments \ {p} PROVE PaymentFits(x)'
    BY <2>1, <2>2, <2>4, <1>n DEF PaymentFits, Recorded
  <2>5. QED
    BY <2>3, <2>4 DEF PaymentsOK
<1>5. ASSUME NEW r \in Requests, Allocate(r) PROVE PaymentsOK'
  <2>1. PICK p \in Payments, i \in Invoices, a \in Nat :
          p = job[r].pay /\ i = job[r].inv /\ a = job[r].amount
    BY <1>5, <1>t DEF Allocate, JobsOK, Job
  <2>2. allocated' = [allocated EXCEPT ![p][i] = @ + a] /\ payments' = payments
    BY <1>5, <2>1 DEF Allocate
  <2>3. Spent(p)' = Spent(p) + a /\ \A x \in Payments \ {p} : Spent(x)' = Spent(x)
    BY <2>2, <1>t, SumsAfterAllocation
  <2>4. a > 0 /\ Recorded(p)
    BY <1>5, <2>1, <1>t DEF Allocate, JobsOK, Agree, RequestsOK, Meant
  <2>5. Exists(i) /\ payments[p].party = invoices[i].party
    BY <1>5, <2>1 DEF Allocate, Acceptable, IInv, MoneyOK, ReadIsCurrent
  <2>6. KindOf[payments[p].party] = KindOf[i]
    <3>1. invoices[i].party \in Billable(i)
      BY <2>5 DEF Agree, RowsOK, RowFits, Exists
    <3>2. QED
      BY <2>5, <3>1 DEF Billable
  <2>7. live' = [live EXCEPT ![p] = <<Spent(p) + a>>]
    <3>1. PICK n \in Nat : n = Spent(p) + a
      BY <1>n
    <3>2. VoidEntry(live[p]) = <<>>
      BY <1>t, VoidShortens DEF IInv, AtMostOneLiveEntry
    <3>3. Append(<<>>, n) = <<n>>
      OBVIOUS
    <3>4. Rebooked(live[p], Spent(p), a) = <<n>>
      BY <3>1, <3>2, <3>3 DEF Rebooked, PostEntry
    <3>5. QED
      BY <1>5, <2>1, <3>1, <3>4 DEF Allocate
  <2>8. ASSUME NEW x \in Payments \ {p} PROVE PaymentFits(x)'
    <3>1. live'[x] = live[x] /\ allocated'[x] = allocated[x]
      BY <2>2, <2>7, <1>t
    <3>2. QED
      BY <2>2, <2>3, <3>1, <1>n DEF PaymentFits, Recorded
  <2>9. PaymentFits(p)'
    <3>1. live'[p] = IF Spent(p)' = 0 THEN <<>> ELSE <<Spent(p)'>>
      <4>1. live'[p] = <<Spent(p) + a>>
        BY <2>7, <1>t
      <4>2. Spent(p)' # 0
        BY <2>3, <2>4, <1>n
      <4>3. QED
        BY <4>1, <4>2, <2>3
    <3>2. \A k \in Invoices : allocated'[p][k] > 0 => KindOf[payments[p].party] = KindOf[k]
      <4>1. ASSUME NEW k \in Invoices \ {i} PROVE allocated'[p][k] = allocated[p][k]
        BY <2>2, <1>t
      <4>2. QED
        BY <4>1, <2>6, <1>n DEF PaymentFits
    <3>3. Recorded(p)' /\ payments[p].party \in Parties
      BY <2>2, <2>4, <1>n DEF PaymentFits, Recorded
    <3>4. QED
      BY <2>2, <3>1, <3>2, <3>3 DEF PaymentFits
  <2>10. QED
    BY <2>8, <2>9 DEF PaymentsOK
<1>6. ASSUME NEW s \in Invoices \cup Payments, ManualVoid(s) PROVE PaymentsOK'
  BY <1>6 DEF ManualVoid, Careful
<1>7. ASSUME (\E i \in Invoices : CreateInvoice(i)) \/ (\E p \in Payments : CreateReceipt(p))
               \/ PageView \/ NewDay \/ UNCHANGED vars
      PROVE  PaymentsOK'
  BY <1>q, <1>7 DEF CreateInvoice, CreateReceipt, PageView, NewDay, vars
<1>8. QED
  BY <1>1, <1>2, <1>3, <1>4, <1>5, <1>6, <1>7 DEF Next, Request, Step

(* Every copy keeps saying what it must. *)
LEMMA CopiesKept ==
  ASSUME Careful, IInv, Agree, [Next]_vars
  PROVE  CopiesOK'
<1>t. /\ TypeOK /\ JobsOK /\ invoices \in [Invoices -> Row] /\ job \in [Requests -> Job]
      /\ allocated \in [Payments -> [Invoices -> Nat]]
  BY DEF IInv, Shape, TypeOK
<1>r. RequestsOK
  BY DEF Agree
<1>c. ASSUME NEW s \in Requests, job[s].phase = "fetched"
      PROVE  /\ job[s].inv \in Invoices
             /\ CopyFits(job[s], invoices[job[s].inv], Settled(job[s].inv))
  BY <1>c, <1>t DEF Agree, CopiesOK, JobsOK
(* It is enough to look at the requests that are not Idle afterwards. *)
<1>q. ASSUME invoices' = invoices, allocated' = allocated,
             \A s \in Requests : job'[s].phase = "fetched" => job'[s] = job[s]
      PROVE  CopiesOK'
  <2>1. \A s \in Requests : job[s].phase = "fetched" => job[s].inv \in Invoices
    BY <1>c
  <2>2. QED
    BY <1>q, <1>c, <2>1, SumsStay DEF CopiesOK
<1>f. ASSUME NEW r \in Requests, Finish(r)
      PROVE  \A s \in Requests : job'[s].phase = "fetched" => s # r /\ job'[s] = job[s]
  BY <1>f, <1>t DEF Finish, Idle
<1>s. ASSUME SyncOverdue, allocated' = allocated,
             \A s \in Requests : job'[s].phase = "fetched" => job'[s] = job[s]
      PROVE  CopiesOK'
  <2>1. SUFFICES ASSUME NEW s \in Requests, job'[s].phase = "fetched"
                 PROVE  CopyFits(job[s], invoices[job[s].inv], Settled(job[s].inv))'
    BY DEF CopiesOK
  <2>2. PICK i \in Invoices : i = job[s].inv /\ CopyFits(job[s], invoices[i], Settled(i))
    BY <1>c, <1>s, <2>1
  <2>3. job'[s] = job[s] /\ Settled(i)' = Settled(i)
    BY <1>s, <2>1, SumsStay
  <2>4. \/ invoices'[i] = invoices[i]
        \/ /\ invoices[i].status \in {"SENT", "PARTIALLY_PAID"}
           /\ invoices'[i] = [invoices[i] EXCEPT !.status = "OVERDUE"]
    BY <1>s DEF SyncOverdue, Late, BilledStatuses
  <2>5. CopyFits(job[s], invoices'[i], Settled(i))
    BY <2>2, <2>4, <1>t DEF CopyFits, Row, Missing
  <2>6. QED
    BY <2>2, <2>3, <2>5
(* A request that writes one row: the copies of others are to be sent. *)
<1>w. ASSUME NEW r \in Requests, Finish(r), job[r] # Idle,
             \A s \in Requests \ {r}, i \in Invoices :
               job[s].phase = "fetched" /\ job[s].inv = i =>
                 CopyFits(job[s], invoices'[i], Settled(i)')
      PROVE  CopiesOK'
  <2>1. SUFFICES ASSUME NEW s \in Requests, job'[s].phase = "fetched"
                 PROVE  CopyFits(job[s], invoices[job[s].inv], Settled(job[s].inv))'
    BY DEF CopiesOK
  <2>2. s # r /\ job'[s] = job[s]
    BY <1>f, <1>w, <2>1
  <2>3. PICK i \in Invoices : i = job[s].inv
    BY <1>c, <2>1, <2>2
  <2>4. CopyFits(job[s], invoices'[i], Settled(i)')
    BY <1>w, <2>1, <2>2, <2>3
  <2>5. QED
    BY <2>2, <2>3, <2>4
<1>1. ASSUME NEW r \in Requests, NEW i \in Invoices, NEW op \in Ops, Route(r, op, i)
      PROVE  CopiesOK'
  <2>1. \A s \in Requests : job'[s].phase = "fetched" => job'[s] = job[s]
    BY <1>1, <1>t DEF Route, Idle
  <2>2. QED
    BY <1>s, <1>1, <2>1 DEF Route
<1>2. ASSUME NEW r \in Requests, NEW j, job' = [job EXCEPT ![r] = j], j.inv \in Invoices,
             j.row = invoices[j.inv], Exists(j.inv), invoices' = invoices, allocated' = allocated
      PROVE  CopiesOK'
  <2>1. SUFFICES ASSUME NEW s \in Requests, job'[s].phase = "fetched"
                 PROVE  CopyFits(job[s], invoices[job[s].inv], Settled(job[s].inv))'
    BY DEF CopiesOK
  <2>2. CASE s = r
    <3>1. job'[s] = j
      BY <1>2, <2>2, <1>t
    <3>2. invoices[j.inv].status = "SENT" => Settled(j.inv) = 0
      BY <1>2 DEF Agree, RowsOK, RowFits
    <3>3. CopyFits(j, invoices[j.inv], Settled(j.inv))
      BY <1>2, <3>2 DEF CopyFits, Exists
    <3>4. QED
      BY <1>2, <3>1, <3>3, SumsStay
  <2>3. CASE s # r
    <3>1. job'[s] = job[s]
      BY <1>2, <2>3, <1>t
    <3>2. QED
      BY <1>2, <1>c, <2>1, <3>1, SumsStay
  <2>4. QED
    BY <2>2, <2>3
<1>3. ASSUME NEW r \in Requests, NEW i \in Invoices, FetchParent(r, i) PROVE CopiesOK'
  <2> DEFINE j == [Idle EXCEPT !.op = "items", !.phase = "fetched", !.inv = i, !.row = invoices[i]]
  <2>1. job' = [job EXCEPT ![r] = j] /\ Exists(i) /\ invoices' = invoices /\ allocated' = allocated
    BY <1>3 DEF FetchParent
  <2>2. j.inv = i /\ j.row = invoices[i]
    BY DEF Idle
  <2> HIDE DEF j
  <2>3. QED
    BY <1>2, <2>1, <2>2
<1>4. ASSUME NEW r \in Requests, Fetch(r) PROVE CopiesOK'
  <2> DEFINE j == [job[r] EXCEPT !.phase = "fetched", !.row = invoices[job[r].inv]]
  <2>1. /\ job[r].inv \in Invoices /\ Exists(job[r].inv)
        /\ invoices' = invoices /\ allocated' = allocated
    BY <1>4, <1>t DEF Fetch, JobsOK
  <2>2. job' = [job EXCEPT ![r] = j]
    BY <1>4, <1>t DEF Fetch
  <2>3. j.inv = job[r].inv /\ j.row = invoices[j.inv]
    BY <1>t DEF Job
  <2> HIDE DEF j
  <2>4. QED
    BY <1>2, <2>1, <2>2, <2>3
<1>5. ASSUME NEW r \in Requests,
             \/ LockInvoice(r) \/ IssueReceipt(r) \/ Refuse(r) \/ Abandon(r)
             \/ \E p \in Payments, q \in Parties, a \in 1..MaxAmount : RecordPayment(r, p, q, a)
             \/ \E p \in Payments, i \in Invoices, a \in 1..MaxAmount : LockPayment(r, p, i, a)
      PROVE  CopiesOK'
  <2>1. invoices' = invoices /\ allocated' = allocated
    BY <1>5 DEF LockInvoice, IssueReceipt, Refuse, Abandon, RecordPayment, LockPayment
  <2>2. CASE IssueReceipt(r) \/ Refuse(r) \/ Abandon(r)
    BY <1>f, <1>q, <2>1, <2>2 DEF IssueReceipt, Refuse, Abandon
  <2>3. CASE LockInvoice(r)
    <3>1. \A s \in Requests : job'[s].phase = "fetched" => job'[s] = job[s]
      BY <2>3, <1>t DEF LockInvoice, Job
    <3>2. QED
      BY <1>q, <2>1, <3>1
  <2>4. ASSUME NEW p \in Payments, NEW q \in Parties, NEW a \in 1..MaxAmount,
               RecordPayment(r, p, q, a)
        PROVE  CopiesOK'
    <3>1. \A s \in Requests : job'[s].phase = "fetched" => job'[s] = job[s]
      BY <2>4, <1>t DEF RecordPayment, Idle
    <3>2. QED
      BY <1>q, <2>1, <3>1
  <2>5. ASSUME NEW p \in Payments, NEW i \in Invoices, NEW a \in 1..MaxAmount,
               LockPayment(r, p, i, a)
        PROVE  CopiesOK'
    <3>1. \A s \in Requests : job'[s].phase = "fetched" => job'[s] = job[s]
      BY <2>5, <1>t DEF LockPayment, Idle
    <3>2. QED
      BY <1>q, <2>1, <3>1
  <2>6. QED
    BY <1>5, <2>2, <2>3, <2>4, <2>5
<1>6. ASSUME NEW r \in Requests, Cancel(r) \/ PatchHeader(r) \/ DeleteDraft(r) \/ EditItems(r)
      PROVE  CopiesOK'
  <2>1. Finish(r) /\ job[r].phase = "fetched" /\ job[r].op \in Copying
    BY <1>6 DEF Cancel, PatchHeader, DeleteDraft, EditItems, HasFetched, Copying
  <2>2. \A s \in Requests \ {r} : job[s] = Idle
    BY <2>1, <1>r, CopierIsAlone
  <2>3. job[r] # Idle /\ Idle.phase # "fetched"
    BY <2>1 DEF Idle
  <2>4. QED
    BY <1>w, <2>1, <2>2, <2>3, SMTT(30)
<1>7. ASSUME NEW r \in Requests, MarkSent(r) PROVE CopiesOK'
  <2>1. Finish(r) /\ job[r] # Idle /\ allocated' = allocated
    BY <1>7 DEF MarkSent, HasFetched, Idle
  <2>2. ASSUME NEW s \in Requests \ {r}, NEW i \in Invoices,
               job[s].phase = "fetched", job[s].inv = i
        PROVE  CopyFits(job[s], invoices'[i], Settled(i)')
    <3>1. job[s].op = "send" /\ CopyFits(job[s], invoices[i], Settled(i)) /\ Settled(i)' = Settled(i)
      BY <2>1, <2>2, <1>c, <1>r, OthersSend, SumsStay
    <3>2. invoices'[i] = invoices[i] \/ invoices'[i] = [invoices[i] EXCEPT !.status = "SENT"]
      BY <1>7, <1>t DEF MarkSent
    <3>3. QED
      BY <3>1, <3>2, <1>t DEF CopyFits, Row, Missing, Copying
  <2>3. QED
    BY <1>w, <2>1, <2>2
<1>8. ASSUME NEW r \in Requests, Allocate(r) PROVE CopiesOK'
  <2>1. Finish(r) /\ job[r] # Idle
    BY <1>8 DEF Allocate, Idle
  <2>2. ASSUME NEW s \in Requests \ {r}, NEW i \in Invoices,
               job[s].phase = "fetched", job[s].inv = i
        PROVE  CopyFits(job[s], invoices'[i], Settled(i)')
    <3>1. job[s].op = "send" /\ CopyFits(job[s], invoices[i], Settled(i))
      BY <2>1, <2>2, <1>c, <1>r, OthersSend
    <3>2. \/ invoices'[i] = invoices[i]
          \/ \E b \in {"PAID", "PARTIALLY_PAID"} : invoices'[i] = [invoices[i] EXCEPT !.status = b]
      BY <1>8, <1>t DEF Allocate, StatusFor
    <3>3. QED
      BY <3>1, <3>2, <1>t DEF CopyFits, Row, Missing, Copying
  <2>3. QED
    BY <1>w, <2>1, <2>2
<1>9. ASSUME NEW i \in Invoices, CreateInvoice(i) PROVE CopiesOK'
  <2>1. SUFFICES ASSUME NEW s \in Requests, job'[s].phase = "fetched"
                 PROVE  CopyFits(job[s], invoices[job[s].inv], Settled(job[s].inv))'
    BY DEF CopiesOK
  <2>2. job' = job /\ allocated' = allocated /\ invoices[i].status = "ABSENT"
    BY <1>9 DEF CreateInvoice
  <2>3. PICK k \in Invoices : k = job[s].inv /\ CopyFits(job[s], invoices[k], Settled(k))
    BY <1>c, <2>1, <2>2
  <2>4. k # i
    BY <2>2, <2>3 DEF CopyFits, Missing
  <2>5. invoices'[k] = invoices[k]
    BY <1>9, <2>4, <1>t DEF CreateInvoice
  <2>6. QED
    BY <2>2, <2>3, <2>5, SumsStay
<1>10. ASSUME (\E p \in Payments : CreateReceipt(p)) \/ (\E s \in Invoices \cup Payments : ManualVoid(s))
                \/ NewDay \/ UNCHANGED vars
       PROVE  CopiesOK'
  BY <1>q, <1>10 DEF CreateReceipt, ManualVoid, NewDay, vars
<1>11. CASE PageView
  BY <1>s, <1>11 DEF PageView
<1>12. QED
  BY <1>1, <1>3, <1>4, <1>5, <1>6, <1>7, <1>8, <1>9, <1>10, <1>11 DEF Next, Request, Step

LEMMA InitAgrees == Init => Agree
<1> SUFFICES ASSUME Init PROVE Agree
  OBVIOUS
<1>1. RequestsOK
  BY NotAlone, IdleMeansNothing DEF Init, RequestsOK, AloneOK
<1>2. CopiesOK
  BY DEF Init, CopiesOK, Idle
<1>3. \A i \in Invoices : Settled(i) = 0
  <2>1. TAKE i \in Invoices
  <2> DEFINE column == [p \in Payments |-> allocated[p][i]]
  <2>2. column \in [Payments -> Nat] /\ \A p \in Payments : column[p] = 0
    BY DEF Init
  <2> HIDE DEF column
  <2>3. SumOf(column) = 0
    BY <2>2, SumOfZeros
  <2>4. QED
    BY <2>3 DEF Settled, column
<1>4. \A p \in Payments : Spent(p) = 0
  <2>1. TAKE p \in Payments
  <2>2. allocated[p] \in [Invoices -> Nat] /\ \A i \in Invoices : allocated[p][i] = 0
    BY DEF Init
  <2>3. QED
    BY <2>2, SumOfZeros DEF Spent
<1>5. RowsOK
  <2>1. ASSUME NEW i \in Invoices
        PROVE  /\ invoices[i].status \in {"ABSENT", "DRAFT"}
               /\ Exists(i) => invoices[i].party \in Billable(i)
    BY DEF Init, NoRow
  <2>2. \A i \in Invoices : live[i] = <<>>
    BY DEF Init
  <2>3. QED
    BY <1>3, <2>1, <2>2 DEF RowsOK, RowFits, Exists, BooksOf
<1>6. PaymentsOK
  <2>1. \A p \in Payments : live[p] = <<>> /\ ~Recorded(p)
    BY DEF Init, Recorded
  <2>2. \A p \in Payments : \A i \in Invoices : allocated[p][i] = 0
    BY DEF Init
  <2>3. QED
    BY <1>4, <2>1, <2>2 DEF PaymentsOK, PaymentFits
<1>7. QED
  BY <1>1, <1>2, <1>5, <1>6 DEF Agree

(* The strengthened invariant holds in every reachable state. *)
LEMMA AgreeAlways == Careful => (Spec => [](IInv /\ Agree))
<1> SUFFICES ASSUME Careful PROVE Spec => [](IInv /\ Agree)
  OBVIOUS
<1>1. IInv /\ Agree /\ [Next]_vars => Agree'
  BY RequestsKept, RowsKept, PaymentsKept, CopiesKept DEF IInv, Agree
<1>2. Init => Agree
  BY InitAgrees
<1>3. Spec => []IInv
  BY IInvAlways
<1>4. QED
  BY <1>1, <1>2, <1>3, PTL DEF Spec

(* The live entry of a payment is exactly what it has settled. *)
THEOREM JournalMirrors == Careful => (Spec => []PaymentJournalMirrors)
<1>1. IInv /\ Agree => PaymentJournalMirrors
  BY DEF Agree, PaymentsOK, PaymentFits, PaymentJournalMirrors
<1>2. QED
  BY <1>1, AgreeAlways, PTL

(* Every billed invoice with a positive total is in the books. *)
THEOREM SentAlwaysBooked == Careful => (Spec => []SentIsBooked)
<1>1. IInv /\ Agree => SentIsBooked
  BY DEF Agree, RowsOK, RowFits, BooksOf, SentIsBooked, Billed
<1>2. QED
  BY <1>1, AgreeAlways, PTL

(* The status of an invoice tells how much of it is settled. *)
THEOREM StatusAlwaysTells == Careful => (Spec => []StatusTellsBalance)
<1>1. IInv /\ Agree => StatusTellsBalance
  BY DEF Agree, RowsOK, RowFits, BooksOf, StatusTellsBalance
<1>2. QED
  BY <1>1, AgreeAlways, PTL

(* A cancelled invoice carries no money and no entry. *)
THEOREM CancelledAlwaysClear == Careful => (Spec => []CancelledIsClear)
<1>1. IInv /\ Agree => CancelledIsClear
  BY DEF Agree, RowsOK, RowFits, BooksOf, CancelledIsClear
<1>2. QED
  BY <1>1, AgreeAlways, PTL
-----------------------------------------------------------------------------
(* The control accounts.  Invoices and payments of the given kinds, and the *)
(* invoices among them that are billed.                                    *)
BilledTo(kinds) == {i \in Invoices : KindOf[i] \in kinds}
PaidBy(kinds) == {p \in Payments : Recorded(p) /\ KindOf[payments[p].party] \in kinds}
OpenOf(kinds) == {i \in Invoices : Billed(i) /\ invoices[i].total > 0 /\ KindOf[i] \in kinds}

(* What is booked of the invoices is the totals of those that are billed.  *)
LEMMA BookedInvoices ==
  ASSUME IInv, Agree, NEW kinds
  PROVE  SumOf([i \in BilledTo(kinds) |-> Booked(i)])
           = SumOf([i \in OpenOf(kinds) |-> invoices[i].total])
<1> DEFINE I == BilledTo(kinds)
           open == OpenOf(kinds)
           f == [i \in I |-> Booked(i)]
<1>1. \A i \in I : Booked(i) = IF i \in open THEN invoices[i].total ELSE 0
  <2>1. TAKE i \in I
  <2>2. i \in Invoices /\ live[i] \in Seq(Nat) /\ invoices[i].total \in Int
    BY SettlementAssumption DEF BilledTo, IInv, Shape, TypeOK, Row
  <2>3. live[i] = IF Billed(i) /\ invoices[i].total > 0 THEN <<invoices[i].total>> ELSE <<>>
    <3>1. RowFits(i, invoices[i], Settled(i), live[i], today)
      BY <2>2 DEF Agree, RowsOK
    <3>2. Billed(i) <=> invoices[i].status \in BooksOf
      BY DEF Billed, BooksOf
    <3>3. QED
      BY <3>1, <3>2, Zenon DEF RowFits
  <2>4. CASE Billed(i) /\ invoices[i].total > 0
    <3>0. invoices[i].total \in Nat
      BY <2>2, <2>4
    <3>1. SumOf(<<invoices[i].total>>) = invoices[i].total
      BY <3>0, SumOfOne
    <3>2. QED
      BY <2>3, <2>4, <3>1 DEF Booked, BilledTo, OpenOf
  <2>5. CASE ~(Billed(i) /\ invoices[i].total > 0)
    <3>1. Booked(i) = 0
      BY <2>3, <2>5, SumOfNone DEF Booked
    <3>2. QED
      BY <2>2, <2>5, <3>1 DEF OpenOf
  <2>6. QED
    BY <2>4, <2>5
<1>2. \A i \in open : invoices[i].total \in Nat
  BY SettlementAssumption DEF OpenOf, IInv, Shape, TypeOK, Row
<1>3. open \subseteq I
  BY DEF BilledTo, OpenOf
<1>4. f \in [I -> Nat] /\ \A i \in I \ open : f[i] = 0
  BY <1>1, <1>2, <1>3
<1>5. [i \in open |-> f[i]] = [i \in open |-> invoices[i].total]
  BY <1>1, <1>3
<1> HIDE DEF f, I, open
<1>6. SumOf([i \in open |-> f[i]]) = SumOf(f)
  BY <1>3, <1>4, SumOverPart
<1>7. QED
  BY <1>5, <1>6 DEF f, I, open

(* What is booked of the payments is what they have settled.               *)
LEMMA BookedPayments ==
  ASSUME IInv, Agree, NEW kinds
  PROVE  [p \in PaidBy(kinds) |-> Booked(p)] = [p \in PaidBy(kinds) |-> Spent(p)]
<1>1. ASSUME NEW p \in Payments PROVE Booked(p) = Spent(p)
  <2>1. PICK n \in Nat : n = Spent(p)
    BY SumsAreNatural DEF IInv, Shape
  <2>2. live[p] = IF n = 0 THEN <<>> ELSE <<n>>
    BY <2>1 DEF Agree, PaymentsOK, PaymentFits
  <2>3. SumOf(<<n>>) = n
    BY SumOfOne
  <2>4. QED
    BY <2>1, <2>2, <2>3, SumOfNone DEF Booked
<1>2. QED
  BY <1>1 DEF PaidBy

(* Money of these kinds comes from payments of these kinds and goes to     *)
(* billed invoices of these kinds, so that both add up to the same.        *)
LEMMA PaidIsSettled ==
  ASSUME IInv, Agree, NEW kinds
  PROVE  SumOf([p \in PaidBy(kinds) |-> Spent(p)]) = SumOf([i \in OpenOf(kinds) |-> Settled(i)])
<1> DEFINE P == PaidBy(kinds)
           open == OpenOf(kinds)
           f == [p \in P |-> [i \in open |-> allocated[p][i]]]
<1>t. TypeOK /\ allocated \in [Payments -> [Invoices -> Nat]]
  BY DEF IInv, Shape, TypeOK
<1>1. P \subseteq Payments /\ open \subseteq Invoices /\ IsFiniteSet(P) /\ IsFiniteSet(open)
  <2>1. P \subseteq Payments /\ open \subseteq Invoices
    BY DEF PaidBy, OpenOf
  <2>2. QED
    BY <2>1, FS_Subset, SettlementAssumption
<1>2. \A p \in Payments, i \in Invoices : allocated[p][i] # 0 => (p \in P <=> i \in open)
  <2>1. SUFFICES ASSUME NEW p \in Payments, NEW i \in Invoices, allocated[p][i] # 0
                 PROVE  p \in P <=> i \in open
    OBVIOUS
  <2>2. Settled(i) # 0
    BY <2>1, <1>t, NothingAllocated
  <2>3. Billed(i) /\ invoices[i].total > 0
    <3>1. RowFits(i, invoices[i], Settled(i), live[i], today)
      BY DEF Agree, RowsOK
    <3>2. Settled(i) \in Nat /\ invoices[i].total \in Int
      BY <1>t, SumsAreNatural, SettlementAssumption DEF TypeOK, Row
    <3>3. QED
      BY <2>2, <3>1, <3>2 DEF RowFits, BooksOf, Billed
  <2>4. allocated[p][i] > 0
    BY <2>1, <1>t
  <2>5. Recorded(p) /\ KindOf[payments[p].party] = KindOf[i]
    BY <2>4 DEF Agree, PaymentsOK, PaymentFits
  <2>6. QED
    BY <2>3, <2>5 DEF PaidBy, OpenOf
<1>3. f \in [P -> [open -> Nat]]
  BY <1>1, <1>t
<1> HIDE DEF P, open
<1>4. ASSUME NEW p \in P PROVE SumOf(f[p]) = Spent(p)
  <2>1. f[p] = [i \in open |-> allocated[p][i]]
    OBVIOUS
  <2>2. allocated[p] \in [Invoices -> Nat] /\ \A i \in Invoices \ open : allocated[p][i] = 0
    BY <1>1, <1>2, <1>t
  <2>3. SumOf([i \in open |-> allocated[p][i]]) = SumOf(allocated[p])
    BY <1>1, <2>2, SumOverPart
  <2>4. QED
    BY <2>1, <2>3 DEF Spent
<1>5. ASSUME NEW i \in open PROVE SumOf([p \in P |-> f[p][i]]) = Settled(i)
  <2> DEFINE column == [p \in Payments |-> allocated[p][i]]
  <2>1. column \in [Payments -> Nat] /\ \A p \in Payments \ P : column[p] = 0
    BY <1>1, <1>2, <1>t
  <2>2. [p \in P |-> f[p][i]] = [p \in P |-> column[p]]
    BY <1>1
  <2>3. SumOf(column) = Settled(i)
    BY DEF Settled
  <2> HIDE DEF column
  <2>4. SumOf([p \in P |-> column[p]]) = SumOf(column)
    BY <1>1, <2>1, SumOverPart
  <2>5. QED
    BY <2>2, <2>3, <2>4
<1> HIDE DEF f
<1>6. SumOf([p \in P |-> SumOf(f[p])]) = SumOf([i \in open |-> SumOf([p \in P |-> f[p][i]])])
  BY <1>1, <1>3, RowsAndColumns
<1>7. [p \in P |-> SumOf(f[p])] = [p \in P |-> Spent(p)]
  BY <1>4
<1>8. [i \in open |-> SumOf([p \in P |-> f[p][i]])] = [i \in open |-> Settled(i)]
  BY <1>5
<1>9. QED
  BY <1>6, <1>7, <1>8 DEF P, open

(* Receivables and payables always equal what is outstanding.              *)
THEOREM LedgerAlwaysAgrees == Careful => (Spec => []LedgerAgrees)
<1>1. ASSUME IInv, Agree PROVE LedgerAgrees
  <2>1. ASSUME NEW kinds PROVE ControlAccount(kinds) = Outstanding(kinds)
    <3>1. ControlAccount(kinds) = SumOf([i \in BilledTo(kinds) |-> Booked(i)])
                                  - SumOf([p \in PaidBy(kinds) |-> Booked(p)])
      BY DEF ControlAccount, BilledTo, PaidBy
    <3>2. Outstanding(kinds) = SumOf([i \in OpenOf(kinds) |-> invoices[i].total])
                               - SumOf([i \in OpenOf(kinds) |-> Settled(i)])
      BY DEF Outstanding, OpenOf
    <3>3. QED
      BY <1>1, <3>1, <3>2, BookedInvoices, BookedPayments, PaidIsSettled
  <2>2. QED
    BY <2>1 DEF LedgerAgrees
<1>2. QED
  BY <1>1, AgreeAlways, PTL
=============================================================================
