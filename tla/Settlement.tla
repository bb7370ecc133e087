---------------------------- MODULE Settlement ----------------------------
(***************************************************************************)
(* Invoices, payments and the journal entries they cause, as the web       *)
(* workers of the application execute them concurrently.                   *)
(*                                                                         *)
(* Every HTTP request is handled by a worker that first reads the invoice  *)
(* row (in autocommit) and later writes it back in a transaction of its    *)
(* own; between the two, other workers commit.  job[r] is what the worker  *)
(* of request r holds in memory: the operation, how far it got, and the    *)
(* copy of the row it read.  Only allocate_payment takes row locks         *)
(* (SELECT ... FOR UPDATE), first the payment's, then the invoice's.       *)
(*                                                                         *)
(* The rows of payment_allocations are kept as the matrix allocated, the   *)
(* journal as the amounts of each source document's non-VOIDED entries     *)
(* (every entry is balanced when it is posted, see post_source_entry; its  *)
(* debit total is its amount).  Line items are abstracted to the total     *)
(* they are recalculated to; see InvoiceItems for how that is done.        *)
(***************************************************************************)
EXTENDS Integers, Sequences, FiniteSets, Sums

CONSTANTS
  Requests,   \* the requests that can be in progress at the same time
  Invoices,   \* identifiers of client, supplier and contractor invoices
  Payments,   \* identifiers of payments
  Parties,    \* clients, suppliers, contractors and employees
  KindOf,     \* the kind of each party, and of the party each invoice bills
  None,       \* SQL's NULL
  MaxAmount,  \* bound on totals and payments, in units
  MinTotal,   \* bound on totals below: a discount may exceed what is billed
  MaxDay,     \* bound on the calendar
  Ops,        \* the operations clients request in this instance
  Alone       \* those that run only while no other request is in progress

PartyKinds == {"CLIENT", "SUPPLIER", "CONTRACTOR", "EMPLOYEE"}
AllOps == {"send", "cancel", "patch", "delete", "items", "create",
           "pay", "receipt", "allocate", "void"}

ASSUME SettlementAssumption ==
  /\ IsFiniteSet(Invoices) /\ IsFiniteSet(Payments)
  /\ Invoices \cap Payments = {}
  /\ None \notin Invoices \cup Payments \cup Parties \cup Requests
  /\ MaxAmount \in Nat /\ MaxDay \in Nat \ {0}
  /\ MinTotal \in Int /\ MinTotal <= 0
  /\ KindOf \in [Invoices \cup Parties -> PartyKinds]
  /\ Ops \subseteq AllOps /\ Alone \subseteq Ops

VARIABLES
  invoices,   \* the invoice rows
  payments,   \* the payment rows
  allocated,  \* how much of each payment is allocated to each invoice
  receipts,   \* the payments that have a receipt
  live,       \* the amounts of the non-VOIDED journal entries of each source
  today,      \* the date
  job         \* what the worker of each request holds

vars == <<invoices, payments, allocated, receipts, live, today, job>>
-----------------------------------------------------------------------------
(* Rows. ABSENT: not created yet. DELETED: created and deleted again. *)

Statuses == {"DRAFT", "SENT", "PARTIALLY_PAID", "PAID", "OVERDUE", "CANCELLED"}
Missing == {"ABSENT", "DELETED"}
Row == [status : Statuses \cup Missing, total : MinTotal..MaxAmount,
        due : 1..MaxDay, party : Parties \cup {None}]
NoRow(why) == [status |-> why, total |-> 0, due |-> MaxDay, party |-> None]

Payment == [amount : 0..MaxAmount, party : Parties \cup {None}]
NoPayment == [amount |-> 0, party |-> None]
Direction(party) == IF KindOf[party] = "CLIENT" THEN "INCOMING" ELSE "OUTGOING"

Idle == [op |-> "idle", phase |-> "idle", inv |-> None, pay |-> None,
         amount |-> 0, row |-> NoRow("ABSENT"), onPayment |-> 0, onInvoice |-> 0]
Job == [op : AllOps \cup {"idle"},
        phase : {"idle", "routed", "fetched", "recorded", "payment", "locked"},
        inv : Invoices \cup {None}, pay : Payments \cup {None},
        amount : 0..MaxAmount, row : Row, onPayment : Int, onInvoice : Int]

Exists(i) == invoices[i].status \notin Missing
Recorded(p) == payments[p] # NoPayment
Billable(i) == {q \in Parties : KindOf[q] = KindOf[i]}

(* What the code computes with SUM(allocated_amount). *)
Spent(p) == SumOf(allocated[p])
Settled(i) == SumOf([p \in Payments |-> allocated[p][i]])

(* Which requests meet is the environment's choice. *)
MayMeet(op) ==
  /\ op \in Alone => \A s \in Requests : job[s] = Idle
  /\ \A s \in Requests : job[s].op \notin Alone

Finish(r) == job' = [job EXCEPT ![r] = Idle]
-----------------------------------------------------------------------------
(* The row locks of PostgreSQL, as allocate_payment acquires them.  A      *)
(* transaction that updates an invoice row waits for the row to be free    *)
(* and then commits in the same step.                                      *)

PaymentRowNeverLocked(p) == TRUE
PaymentRowFree(p) == \A r \in Requests : ~(job[r].op = "allocate" /\ job[r].pay = p)

InvoiceRowNeverLocked(i) == TRUE
InvoiceRowFree(i) == \A r \in Requests : ~(job[r].phase = "locked" /\ job[r].inv = i)
-----------------------------------------------------------------------------
(* The journal. *)

BookedAgain(s) == TRUE
Unbooked(s) == live[s] = <<>>

PostEntry(entries, amount) == Append(entries, amount)

NothingVoided(entries) == entries
VoidEntry(entries) == IF entries = <<>> THEN entries ELSE Tail(entries)

(* A client's void of any entry, whoever posted it. *)
ManualVoid(s) ==
  /\ "void" \in Ops
  /\ live[s] # <<>>
  /\ live' = [live EXCEPT ![s] = VoidEntry(live[s])]
  /\ UNCHANGED <<invoices, payments, allocated, receipts, today, job>>
-----------------------------------------------------------------------------
(* Overdue invoices. *)

BilledStatuses == {"SENT", "PARTIALLY_PAID"}
Late(row) == row.status \in BilledStatuses /\ row.due < today

SyncOverdue ==
  /\ \A i \in Invoices : Late(invoices[i]) => InvoiceRowFree(i)
  /\ invoices' = [i \in Invoices |-> IF Late(invoices[i])
                                     THEN [invoices[i] EXCEPT !.status = "OVERDUE"]
                                     ELSE invoices[i]]

PageView ==
  /\ SyncOverdue
  /\ UNCHANGED <<payments, allocated, receipts, live, today, job>>

NewDay ==
  /\ today < MaxDay
  /\ today' = today + 1
  /\ UNCHANGED <<invoices, payments, allocated, receipts, live, job>>
-----------------------------------------------------------------------------
(* The invoice header: create, edit, send, cancel, delete.  All but create *)
(* go through get_object: get_queryset first runs sync_overdue_statuses,   *)
(* then the row is read.                                                   *)

CreateInvoice(i) ==
  /\ "create" \in Ops /\ MayMeet("create")
  /\ invoices[i].status = "ABSENT"
  /\ \E q \in Billable(i), d \in 1..MaxDay :
       invoices' = [invoices EXCEPT ![i] = [status |-> "DRAFT", total |-> 0,
                                            due |-> d, party |-> q]]
  /\ UNCHANGED <<payments, allocated, receipts, live, today, job>>

Route(r, op, i) ==
  /\ job[r] = Idle
  /\ op \in Ops \cap {"send", "cancel", "patch", "delete"} /\ MayMeet(op)
  /\ SyncOverdue
  /\ job' = [job EXCEPT ![r] = [Idle EXCEPT !.op = op, !.phase = "routed", !.inv = i]]
  /\ UNCHANGED <<payments, allocated, receipts, live, today>>

Fetch(r) ==
  LET i == job[r].inv IN
  /\ job[r].phase = "routed"
  /\ Exists(i)
  /\ job' = [job EXCEPT ![r].phase = "fetched", ![r].row = invoices[i]]
  /\ UNCHANGED <<invoices, payments, allocated, receipts, live, today>>

HasFetched(r, op) == job[r].op = op /\ job[r].phase = "fetched"

CancelAnyBilled ==
  {<<"DRAFT", "SENT">>, <<"DRAFT", "CANCELLED">>, <<"SENT", "CANCELLED">>,
   <<"PARTIALLY_PAID", "CANCELLED">>}
AllowedTransitions ==
  {<<"DRAFT", "SENT">>, <<"DRAFT", "CANCELLED">>, <<"SENT", "CANCELLED">>}

MarkSent(r) ==
  LET i == job[r].inv
      row == job[r].row
  IN  /\ HasFetched(r, "send")
      /\ <<row.status, "SENT">> \in AllowedTransitions
      /\ InvoiceRowFree(i) /\ Exists(i)
      /\ row.total > 0 => Unbooked(i)
      /\ invoices' = [invoices EXCEPT ![i].status = "SENT"]
      /\ live' = IF row.total > 0
                 THEN [live EXCEPT ![i] = PostEntry(live[i], row.total)]
                 ELSE live
      /\ Finish(r)
      /\ UNCHANGED <<payments, allocated, receipts, today>>

Cancel(r) ==
  LET i == job[r].inv
      row == job[r].row
  IN  /\ HasFetched(r, "cancel")
      /\ <<row.status, "CANCELLED">> \in AllowedTransitions
      /\ InvoiceRowFree(i) /\ Exists(i)
      /\ invoices' = [invoices EXCEPT ![i].status = "CANCELLED"]
      /\ live' = IF row.status = "SENT"
                 THEN [live EXCEPT ![i] = VoidEntry(live[i])]
                 ELSE live
      /\ Finish(r)
      /\ UNCHANGED <<payments, allocated, receipts, today>>

(* serializer.save() writes every column of the row it read, and inserts   *)
(* the row again if it is gone.                                            *)
PatchHeader(r) ==
  LET i == job[r].inv
      row == job[r].row
  IN  /\ HasFetched(r, "patch")
      /\ row.status = "DRAFT"
      /\ InvoiceRowFree(i)
      /\ \E q \in Billable(i), d \in 1..MaxDay :
           invoices' = [invoices EXCEPT ![i] = [row EXCEPT !.party = q, !.due = d]]
      /\ Finish(r)
      /\ UNCHANGED <<payments, allocated, receipts, live, today>>

(* The delete cascades to the invoice's allocations. *)
DeleteDraft(r) ==
  LET i == job[r].inv
  IN  /\ HasFetched(r, "delete")
      /\ job[r].row.status = "DRAFT"
      /\ InvoiceRowFree(i)
      /\ invoices' = [invoices EXCEPT ![i] = NoRow("DELETED")]
      /\ allocated' = [p \in Payments |-> [allocated[p] EXCEPT ![i] = 0]]
      /\ Finish(r)
      /\ UNCHANGED <<payments, receipts, live, today>>

(* A line item is created, changed or removed: the item viewset reads the  *)
(* parent invoice without synchronising overdue statuses, and later writes *)
(* the recalculated total.                                                 *)
FetchParent(r, i) ==
  /\ job[r] = Idle
  /\ "items" \in Ops /\ MayMeet("items")
  /\ Exists(i)
  /\ job' = [job EXCEPT ![r] = [Idle EXCEPT !.op = "items", !.phase = "fetched",
                                            !.inv = i, !.row = invoices[i]]]
  /\ UNCHANGED <<invoices, payments, allocated, receipts, live, today>>

EditItems(r) ==
  LET i == job[r].inv
  IN  /\ HasFetched(r, "items")
      /\ job[r].row.status = "DRAFT"
      /\ InvoiceRowFree(i) /\ Exists(i)
      /\ \E total \in MinTotal..MaxAmount : invoices' = [invoices EXCEPT ![i].total = total]
      /\ Finish(r)
      /\ UNCHANGED <<payments, allocated, receipts, live, today>>
-----------------------------------------------------------------------------
(* Payments and receipts. The receipt is a second, separate transaction.   *)

RecordPayment(r, p, q, a) ==
  /\ job[r] = Idle
  /\ "pay" \in Ops /\ MayMeet("pay")
  /\ ~Recorded(p)
  /\ payments' = [payments EXCEPT ![p] = [amount |-> a, party |-> q]]
  /\ job' = [job EXCEPT ![r] = [Idle EXCEPT !.op = "pay", !.phase = "recorded", !.pay = p]]
  /\ UNCHANGED <<invoices, allocated, receipts, live, today>>

IssueReceipt(r) ==
  /\ job[r].op = "pay"
  /\ receipts' = receipts \cup {job[r].pay}
  /\ Finish(r)
  /\ UNCHANGED <<invoices, payments, allocated, live, today>>

CreateReceipt(p) ==
  /\ "receipt" \in Ops /\ MayMeet("receipt")
  /\ Recorded(p) /\ p \notin receipts
  /\ receipts' = receipts \cup {p}
  /\ UNCHANGED <<invoices, payments, allocated, live, today, job>>
-----------------------------------------------------------------------------
(* allocate_payment. *)

LockPayment(r, p, i, a) ==
  /\ job[r] = Idle
  /\ "allocate" \in Ops /\ MayMeet("allocate")
  /\ Recorded(p) /\ Exists(i)
  /\ KindOf[i] = "CLIENT" <=> Direction(payments[p].party) = "INCOMING"
  /\ PaymentRowFree(p)
  /\ job' = [job EXCEPT ![r] = [Idle EXCEPT !.op = "allocate", !.phase = "payment",
                                            !.inv = i, !.pay = p, !.amount = a]]
  /\ UNCHANGED <<invoices, payments, allocated, receipts, live, today>>

LockInvoice(r) ==
  LET i == job[r].inv
      p == job[r].pay
  IN  /\ job[r].phase = "payment"
      /\ InvoiceRowFree(i) /\ Exists(i)
      /\ job' = [job EXCEPT ![r].phase = "locked",
                            ![r].row = invoices[i],
                            ![r].onPayment = payments[p].amount - Spent(p),
                            ![r].onInvoice = invoices[i].total - Settled(i)]
      /\ UNCHANGED <<invoices, payments, allocated, receipts, live, today>>

OpenStatuses == {"SENT", "OVERDUE", "PARTIALLY_PAID"}

Acceptable(j) ==
  /\ payments[j.pay].party = j.row.party
  /\ j.row.status \in OpenStatuses
  /\ j.amount <= j.onPayment
  /\ j.amount <= j.onInvoice

PaidWhenOverpaid(balance) == IF balance < 0 THEN "PAID" ELSE "PARTIALLY_PAID"
StatusFor(balance) == IF balance <= 0 THEN "PAID" ELSE "PARTIALLY_PAID"

(* _rebook_payment_journal: void, then book the whole allocation set. *)
OnlyLastAllocation(entries, before, amount) == PostEntry(VoidEntry(entries), amount)
Rebooked(entries, before, amount) == PostEntry(VoidEntry(entries), before + amount)

Allocate(r) ==
  LET j == job[r]
      p == job[r].pay
      i == job[r].inv
  IN  /\ j.phase = "locked"
      /\ Acceptable(j)
      /\ allocated' = [allocated EXCEPT ![p][i] = @ + j.amount]
      /\ invoices' = [invoices EXCEPT ![i].status = StatusFor(j.onInvoice - j.amount)]
      /\ live' = [live EXCEPT ![p] = Rebooked(live[p], Spent(p), j.amount)]
      /\ Finish(r)
      /\ UNCHANGED <<payments, receipts, today>>

(* A rejected allocation rolls back, which releases both rows. *)
KeepsLocksWhenTooMuch(r) ==
  /\ job[r].phase = "locked" /\ ~Acceptable(job[r])
  /\ job[r].amount <= job[r].onInvoice
  /\ Finish(r)
  /\ UNCHANGED <<invoices, payments, allocated, receipts, live, today>>
Refuse(r) ==
  /\ \/ job[r].phase = "payment" /\ ~Exists(job[r].inv)
     \/ job[r].phase = "locked" /\ ~Acceptable(job[r])
  /\ Finish(r)
  /\ UNCHANGED <<invoices, payments, allocated, receipts, live, today>>

(* A request ends without (further) effect: the handler answers 403 or     *)
(* 404, a transaction fails and rolls back, or the worker dies.            *)
Abandon(r) ==
  /\ job[r] # Idle
  /\ Finish(r)
  /\ UNCHANGED <<invoices, payments, allocated, receipts, live, today>>
-----------------------------------------------------------------------------
(* A draft may hold items, hence any total, when the observation starts. *)
Init ==
  /\ invoices \in [Invoices -> {NoRow("ABSENT")} \cup
                     {row \in Row : row.status = "DRAFT" /\ row.party # None}]
  /\ \A i \in Invoices : Exists(i) => invoices[i].party \in Billable(i)
  /\ payments = [p \in Payments |-> NoPayment]
  /\ allocated = [p \in Payments |-> [i \in Invoices |-> 0]]
  /\ receipts = {}
  /\ live = [s \in Invoices \cup Payments |-> <<>>]
  /\ today = 1
  /\ job = [r \in Requests |-> Idle]

(* What a worker does next with a request it has begun. *)
Step(r) ==
  \/ Fetch(r) \/ MarkSent(r) \/ Cancel(r) \/ PatchHeader(r) \/ DeleteDraft(r)
  \/ EditItems(r) \/ IssueReceipt(r)
  \/ LockInvoice(r) \/ Allocate(r) \/ Refuse(r)

Request(r) ==
  \/ \E i \in Invoices, op \in Ops : Route(r, op, i)
  \/ \E i \in Invoices : FetchParent(r, i)
  \/ \E p \in Payments, q \in Parties, a \in 1..MaxAmount : RecordPayment(r, p, q, a)
  \/ \E p \in Payments, i \in Invoices, a \in 1..MaxAmount : LockPayment(r, p, i, a)

Next ==
  \/ \E r \in Requests : Request(r) \/ Step(r) \/ Abandon(r)
  \/ \E i \in Invoices : CreateInvoice(i)
  \/ \E p \in Payments : CreateReceipt(p)
  \/ \E s \in Invoices \cup Payments : ManualVoid(s)
  \/ PageView
  \/ NewDay

Spec == Init /\ [][Next]_vars

(* A worker that holds row locks keeps running; PostgreSQL grants a row    *)
(* lock in the order of the queue, so a waiter is not passed over forever. *)
Fairness ==
  \A r \in Requests : /\ SF_vars(LockInvoice(r))
                      /\ WF_vars(Allocate(r) \/ Refuse(r))
FairSpec == Spec /\ Fairness
-----------------------------------------------------------------------------
(* What relates the ledger to the documents needs of the environment: what *)
(* cancels, edits, deletes or fills an invoice decides on a copy of its    *)
(* row that nothing keeps current, so no other request is in progress      *)
(* meanwhile; and nobody voids the entry of a document by hand.            *)
Copying == {"cancel", "patch", "delete", "items"}
Careful == Ops \cap Copying \subseteq Alone /\ "void" \notin Ops
-----------------------------------------------------------------------------
(* Every variable holds a value of its kind. *)
TypeOK ==
  /\ invoices \in [Invoices -> Row]
  /\ payments \in [Payments -> Payment]
  /\ allocated \in [Payments -> [Invoices -> Nat]]
  /\ receipts \in SUBSET Payments
  /\ live \in [Invoices \cup Payments -> Seq(Nat)]
  /\ today \in 1..MaxDay
  /\ job \in [Requests -> Job]

(* However allocations, deletions and edits interleave, no payment is      *)
(* applied beyond its amount: the payment row is locked before its         *)
(* unallocated amount is computed (payments/services.py, allocate_payment).*)
PaymentNeverOverspent == \A p \in Payments : Spent(p) <= payments[p].amount

(* No document is recognised twice: two workers that both send a draft, or *)
(* a void followed by a second booking, never leave two live entries of    *)
(* one source (existing_source_entry and the partial unique constraint).   *)
AtMostOneLiveEntry == \A s \in Invoices \cup Payments : Len(live[s]) <= 1

(* The cash a payment's live entry moves covers all that the payment has   *)
(* settled, and is never more than was received or paid, even after a      *)
(* cascade removed some of its allocations (_rebook_payment_journal).      *)
CashWithinPayment ==
  \A p \in Payments : \A k \in DOMAIN live[p] :
    live[p][k] \in Spent(p)..payments[p].amount

(* What allocate_payment read and computed under its two locks is still    *)
(* true when it writes: nothing that commits in between changes the        *)
(* invoice's row or what is settled on it, or spends the payment.          *)
ReadIsCurrent ==
  \A r \in Requests : job[r].phase = "locked" =>
    LET p == job[r].pay
        i == job[r].inv
    IN  /\ Exists(i) /\ job[r].row = invoices[i]
        /\ job[r].onPayment <= payments[p].amount - Spent(p)
        /\ job[r].onInvoice = invoices[i].total - Settled(i)

(* Money only reaches an invoice that is open and bills the payment's      *)
(* party, never more than its total, and the status written with it tells  *)
(* whether anything is left (allocate_payment's checks under both locks).  *)
AllocationFitsInvoice ==
  [][\A p \in Payments, i \in Invoices :
       allocated'[p][i] > allocated[p][i] =>
         /\ invoices[i].status \in {"SENT", "OVERDUE", "PARTIALLY_PAID"}
         /\ invoices[i].party = payments[p].party
         /\ Settled(i)' <= invoices[i].total
         /\ invoices'[i].status = IF Settled(i)' = invoices[i].total
                                  THEN "PAID" ELSE "PARTIALLY_PAID"]_vars

(* An allocation that holds the payment's row ends, accepted or rejected:  *)
(* the two row locks are always taken in the same order, so allocations do *)
(* not wait for one another in a circle (payments/services.py:159-168).    *)
AllocationsFinish ==
  \A r \in Requests : job[r].op = "allocate" ~> job[r].op # "allocate"

(* The journal of invoices and payments is the abstract ledger: whatever   *)
(* meets, a source is booked while it is unbooked, an invoice's entry      *)
(* keeps its amount until it is voided, and a payment is restated without  *)
(* a moment in which its cash is missing (existing_source_entry,           *)
(* void_source_entry and _rebook_payment_journal).                         *)
Booked(s) == SumOf(live[s])
Journal == INSTANCE Ledger WITH
  Sources <- Invoices \cup Payments, Restated <- Payments, Amounts <- 1..MaxAmount,
  booked <- [s \in Invoices \cup Payments |-> Booked(s)]
JournalIsLedger == Journal!Spec
-----------------------------------------------------------------------------
(* The general ledger against the documents. *)

Billed(i) == invoices[i].status \in {"SENT", "PARTIALLY_PAID", "PAID", "OVERDUE"}

(* The balance of accounts receivable (1100) or payable (2000). *)
ControlAccount(kinds) ==
  SumOf([i \in {x \in Invoices : KindOf[x] \in kinds} |-> Booked(i)])
  - SumOf([p \in {x \in Payments : Recorded(x) /\ KindOf[payments[x].party] \in kinds}
             |-> Booked(p)])

Outstanding(kinds) ==
  LET open == {i \in Invoices : Billed(i) /\ invoices[i].total > 0 /\ KindOf[i] \in kinds}
  IN  SumOf([i \in open |-> invoices[i].total]) - SumOf([i \in open |-> Settled(i)])

(* The receivable and the payable account always equal what the billed     *)
(* invoices of positive total leave outstanding: booking, voiding,         *)
(* allocating and rebooking keep the ledger and the documents together.    *)
(* An invoice sent with a negative total is no part of it: its balance is  *)
(* negative, and nothing is booked for it (accounting/services/auto.py).   *)
LedgerAgrees ==
  \A kinds \in {{"CLIENT"}, {"SUPPLIER", "CONTRACTOR"}} :
    ControlAccount(kinds) = Outstanding(kinds)

(* A payment's live entry is exactly the money it has settled, and there   *)
(* is one as soon as there is such money (payments/services.py:24-28).     *)
PaymentJournalMirrors ==
  \A p \in Payments : live[p] = IF Spent(p) = 0 THEN <<>> ELSE <<Spent(p)>>

(* A billed invoice with a positive total has a live entry of that total   *)
(* (invoicing/services.py:24-31).                                          *)
SentIsBooked ==
  \A i \in Invoices : Billed(i) /\ invoices[i].total > 0 => live[i] = <<invoices[i].total>>

(* An invoice that is cancelled carries no money and no live entry: what   *)
(* was booked was voided, and money was never accepted                     *)
(* (payments/services.py:130-131, invoicing/services.py:28-30).            *)
CancelledIsClear ==
  \A i \in Invoices : invoices[i].status = "CANCELLED" => Settled(i) = 0 /\ live[i] = <<>>

(* The status of an invoice tells how much of it is settled, and no        *)
(* invoice is settled beyond its total; one that bills nothing, or less,   *)
(* is settled by nothing (payments/services.py:133-137).                   *)
StatusTellsBalance ==
  \A i \in Invoices :
    LET status == invoices[i].status
        total == invoices[i].total
    IN  /\ status \in {"DRAFT", "SENT", "CANCELLED"} => Settled(i) = 0
        /\ status = "PARTIALLY_PAID" => Settled(i) \in 1..(total - 1)
        /\ status = "PAID" => Settled(i) = total /\ total > 0
        /\ status = "OVERDUE" =>
             /\ invoices[i].due < today
             /\ Settled(i) < total \/ (Settled(i) = 0 /\ total <= 0)
=============================================================================
