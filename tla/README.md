# Verification of the construction management and accounting system

This directory models the parts of the Django application under `apps/` whose
correctness depends on the order in which things happen: web workers that read, decide
and write the database side by side, row locks, transactions that fail half way, a file
store and a database that fail apart, and jobs that run again. TLA+ modules describe the
behaviour, TLC checks small instances, and TLAPS proves the central properties for every
instance.

## 1. The system

A Django 5.2 / DRF application on PostgreSQL. Each HTTP request is served by a worker;
workers share nothing but the database. There is no `ATOMIC_REQUESTS`, so a view runs in
autocommit except where it opens `transaction.atomic()`, and the isolation level is
PostgreSQL's default, READ COMMITTED. The pattern that repeats in every app is:
`get_object()` reads a row without a lock, the code decides on that copy, a later
transaction writes. Only `payments.services.allocate_payment` and
`inventory.services.apply_stock_movement` take row locks (`SELECT ... FOR UPDATE`).

### Inventory of components

| Component | State | Operations | Interacts with | What makes it correct | Module |
|---|---|---|---|---|---|
| `invoicing` headers | status, total, due date, party of client, supplier and contractor invoices | create, PATCH, delete, `mark_sent`, `cancel`, `sync_overdue_statuses` on every view | books and voids entries; allocations move the status | the status follows the workflow; a sent invoice has its entry; a cancelled one is clear | `Settlement` |
| `invoicing` items | line items, derived totals | create, update (also to another parent), destroy; recalculation | header totals | totals equal the sum of the items; the items of a sent invoice stay | `InvoiceItems` |
| `invoicing`, `purchasing`, `taxes` amounts | quantities, prices, discounts, tax rates, rounded sums | save a line, recalculate a header, change or delete a rate, book | the lines of an invoice's entry | the header adds up; the entry says what the lines bill | `Pricing` |
| `payments` | payments, allocations, receipts | record (with receipt), issue receipt, `allocate_payment` | locks payment and invoice, sets the status, rebooks the entry | a payment is never overspent; an allocation fits the invoice; the entry mirrors the allocations | `Settlement` |
| `accounting`, automatic | entries by source document | `post_source_entry`, `void_source_entry`, `book_*` | called by invoicing, payments, expenses | at most one live entry per source; the control accounts agree with the documents | `Ledger`, `Settlement`, `Books` |
| `accounting`, manual | draft entries and lines | draft, line edits, moves, `post_entry`, `void` | may void automatic entries | a posted entry balances | `Books` |
| `accounting`, reports | none | `profit_loss`, balance sheet | read posted lines | the profit is what the balance sheet gained | `Books` |
| `expenses` | expense rows, the category's account | record, approve, `mark_paid`, reject, PATCH, delete | books an entry when paid | a paid expense is what its entry says | `Books` |
| `purchasing` | orders, items, goods receipts | submit, approve, cancel, PATCH, `receive_goods` | stock movements | never more received than ordered; the status tells what is received | `Receiving` |
| `inventory` | stock per warehouse and material, movements | movement, transfer | goods receipts | the stock is the sum of the movements; transfers conserve it | `Receiving` |
| `projects`, change orders | change orders, contract value | approve, reject, cancel, PATCH | contract value | contract value = base + approved orders | `ChangeOrders` |
| `projects`, planning | projects, phases, budgets and items | create, PATCH, archive, reorder, item create, edit and delete | each other's rows | items within the budget; phases move as asked, lists whole or not at all; statuses follow their tables; reorders end | `Planning` |
| `notifications` | notifications, preferences | alert run, mark read, preferences | reads invoices, stock, orders, projects | no second unread notification about one subject; what lasts is announced | `Alerts` |
| `documents` | rows, stored files, the bucket | upload, delete, PATCH | storage service or disk, users | rows and files correspond | `Documents` |
| `users` | accounts, passwords, reset links | create, PATCH, (de)activate, delete, log in, reset | sessions, the web accounts of pages | an active owner remains; a link works once | `Accounts` |
| `audit` | append-only log | signals around every save and delete | every model | the newest entry tells the row | `Accounts` |
| parties, company, PDF, pages, settings | records, settings; read-only views | plain create, read, update, delete | | nothing that interacts | |

What is hard here: decisions on rows read earlier and unlocked; full-row saves that
write back stale columns; a SELECT and a later UPDATE in one READ COMMITTED transaction;
row locks of several rows or tables; entries voided behind their document; a date change
and a page view in the middle of a request; several transactions of one request, a later
one of which can fail; files and rows that fail apart; signals that read before and
write after. `PROJECT.json` lists each hazard at its line, with the properties that
cover it.

## 2. Modules

| Module | What it is |
|---|---|
| `Sums`, `SumsProofs` | `SumOf`, the sum of a function with finitely many arguments, as a cardinality, so that it can be reasoned about without recursion; its algebra, and that of the community modules' `SumFunction` |
| `Ledger` | abstract: what the automatic journal promises, for any source documents |
| `Settlement`, `MCSettlement`, `SettlementProofs` | invoices, payments, allocations, receipts and the journal; implements `Ledger` |
| `Books`, `MCBooks`, `BooksProofs` | expenses and the journal by hand; implements `Ledger` |
| `InvoiceItems`, `MCInvoiceItems`, `InvoicingProofs` | items of drafts and the recalculation of totals, statement by statement |
| `Pricing`, `MCPricing`, `InvoicingProofs` | the amounts of lines and headers, and the lines of an invoice's entry |
| `Receiving`, `MCReceiving`, `ReceivingProofs` | purchase orders, goods receipts, stock movements and transfers |
| `ChangeOrders`, `MCChangeOrders`, `ChangeOrdersProofs` | change orders, and the contract value of their projects |
| `Planning`, `MCPlanning`, `ProjectsProofs` | budgets with their items, phases and their order, statuses and the archive flag of projects |
| `Accounts`, `MCAccounts`, `UsersProofs` | accounts, passwords, reset links and the audit trail |
| `Alerts`, `MCAlerts`, `UsersProofs` | alert runs, notifications and preferences |
| `Documents`, `MCDocuments`, `ProjectsProofs` | documents, their files, the bucket and the uploader |

Every module that models requests has the same shape. `job[r]` is what the worker of
request `r` (or worker `w`) holds in memory: its operation, how far it is, and the
copies of the rows it read. A step is what happens between two points at which another
worker may act: a statement in autocommit, a transaction where nothing in it waits or is
read unlocked, a statement of a transaction otherwise. `Abandon` (or `Die`) is any end
without further effect: a 403 or 404, a rollback, a worker that dies. `ABSENT` and
`DELETED` distinguish a row that never existed from one that is gone, because a full-row
save inserts the latter again.

**Which operations meet.** The code does not protect all operations from each other:
many decide on a copy that nothing keeps current. What a module models is the code as it
is, the unprotected steps included; which requests are under way together is a constant
of it. `Ops` and `Sent` say what clients request, `Alone` which operations run only
while no other request is in progress (`Settlement`, `InvoiceItems`, `Books`),
`Meetings` which pairs may overlap and `Workloads` which operations occur in one
behaviour (`Planning`, `Accounts`), `Sharing` which pairs may overlap at one and the same
account (`Accounts`). `MoveInto` (`Books`) is the status of entries that
lines are moved into, `MayDie` and `Channels` (`Accounts`) where workers die and how
requests authenticate. Each run makes a choice under which its properties hold, and
section 3 says what happens outside. After its specification each module states what its
properties need of these constants (`Careful`, `OthersAlone`, `BuyersAlone`,
`OwnersTakeTurns`, ...): these are the premises of the theorems of section 4, and the MC
modules assert them, so that every premise is met by a run.

### Settlement

`job[r]` is what the worker of request `r` holds in memory: operation, phase and the
copy of the row it read. A header request has three steps: `Route` (`get_queryset` runs
`sync_overdue_statuses`), `Fetch` (the row is read), and the handler (`MarkSent`,
`Cancel`, `PatchHeader`, `DeleteDraft`), which decides on the copy and commits.
`EditItems` is an item request as the header sees it: a new total, which no validator or
constraint keeps at or above zero (`MinTotal`). `LockPayment`,
`LockInvoice` and `Allocate` or `Refuse` are `allocate_payment`; the locks are the jobs
that hold them (`PaymentRowFree`, `InvoiceRowFree`), and every other write to an invoice
row waits for the row. `Abandon` is any end without effect: a 403 or 404, a rollback, a
worker that dies. `RecordPayment` and `IssueReceipt` are two steps because they are two
transactions. `ManualVoid` is the void endpoint. `NewDay` and `PageView` are the
calendar and any list view.

The three kinds of invoice share one code shape; `KindOf` tells the kind, which decides
the direction of the payment and the control account. Journal entries are kept as the
amounts of each source's non-VOIDED entries: every automatic entry balances when it is
posted, so its debit total is all that matters here. The partial unique index on the
source pair and `existing_source_entry` are together the guard `Unbooked`. A supplier's
or contractor's tax and discount, wording, numbers and permissions are left out.

### Ledger

The abstraction of the journal: each source document contributes at most one amount,
`booked[s]`. `Book` books it while there is none, `Void` takes it away, and `Restate`,
for a payment only, replaces it by another amount in one step, as `allocate_payment`
does when it voids the payment's entry and books a new one inside its transaction. No
other step may touch an amount. `Settlement` implements it with the sum of the live
entries of each invoice and payment (`Journal == INSTANCE Ledger WITH ...`,
`JournalIsLedger`), `Books` with the debit side of the posted entry of each expense. A
step of either module that created a second entry, changed the amount of a booked one,
or let the void and the rebooking of a payment be seen apart would not be a step of it.

### Books

`expense`, `entry` and `lines` are the rows; an amount is positive for a debit and
negative for a credit, and the lines of an entry sit in slots. `ReadExpense` reads an
expense and `Approve` and `Reject` decide on that copy. The paid lock (`CheckUnpaid`) is
one read, the row that `UpdateExpense` or `DestroyExpense` goes on with comes from a
later one (`ReadAgain`). `Pay` is `mark_paid` with `book_expense`: status,
`existing_source_entry` and the posted entry with its two lines in one transaction.
`DraftEntry`, `AddLine`, `AmendLine`, `MoveLine` and `DropLine` are the endpoints of
drafts with their checks of the copy; `post_entry` is two steps, `CheckBalance` and
`PostEntry`, because the check sums lines that nothing locks; `VoidEntry` voids any
posted entry, those of expenses included. `PointCategory` points the expense category to
another account, which the next payment uses.

### InvoiceItems

Here the recalculation is taken apart: `SelectItems` sums what the transaction sees,
`UpdateInvoice` waits for the invoice row and writes, `Commit` publishes. What a
transaction has written is in its job until it commits. `Plan` is the list of invoices a
request recalculates: twice the same one after a create or an update (serializer, then
view), the new and the old parent after a move, once after a removal. The second
recalculation is not redundant: it runs while the transaction already holds the invoice
row, and so sees whatever the transaction it waited for has committed.

### Pricing

One request at a time, amounts in cents, quantities in thousandths, rates in percent.
`ItemAmounts` is what saving a line derives, and `Totals` what the recalculation of the
four kinds of document (client, supplier and contractor invoice, purchase order) derives
from the lines, each rounded with `HalfUp` where the code quantizes. A line keeps the
tax it was saved with: `ChangeRate` and `DeleteRate` change the rate and nothing else,
until the line is saved again. `SendDocument` books: revenue and tax of a client invoice, cost
of the others, without the lines that are zero.

### Receiving

A request first reads its row, `FetchOrder` or `FetchLine` (a line comes with its order,
`select_related`), and decides on that copy: `Transition` is submit, approve and cancel;
`PatchOrder` and `WriteLine` write whole rows, so a row deleted in between is inserted
again; `AddLine`, `ChangeLine`, `MoveLine` (the PATCH that names another order),
`DropLine` and `DeleteOrder` are the item and order endpoints with their DRAFT check.
`line[l]` is `NoLine` when there is no such row.

`receive_goods` is taken apart, because its transaction is long and only one of its
reads is locked. `BeginReceipt` checks the status that was read, opens the transaction
and prefetches the lines. `ReceiveItem` compares one quantity with what remains of the
line (the committed sum and the transaction's own items), inserts the item and queues
its movement. `ApplyMovement` is `apply_stock_movement`: the movement is inserted, the
`Stock` row locked, read and written. `DeriveStatus` is
`_recalculate_po_receipt_status`, and `CommitReceipt` publishes everything at once.
`RecordMovement` and `Transfer` queue one and two movements of their own for the same
`ApplyMovement`, and end in `CommitMoves`. `Abandon` rolls back from any of these
places.

What a transaction has written is in `tx[r]` and `job[r].got` until it commits: `held`
are the `Stock` rows it has locked, `balance` what it wrote there, `put` the movements
it inserted, `todo` those still to apply. `stock`, `moved` and `received` are the
committed sums. Movement types only fix the sign of the quantity, so a movement here is
a shelf and a signed quantity. Prices, numbers and the material of a line (fixed by
`MaterialOf`) have no part in these properties. A `Stock` row that is created by the
first movement is a shelf with balance 0.

### ChangeOrders

`order[c]` is the row of a change order, `value[p]` the contract value of a project.
`FetchOrder` reads an order; `Approve`, `Reject` and `Cancel` decide on that copy and
commit: they write the status column and, in the same transaction, `UPDATE projects SET
contract_value = contract_value + amount`, which is one addition by the database
(`Raised`) with the amount and project that were read. `ValidateNew` and `ValidatePatch`
are the serializer's validation, with the uniqueness query of the number; `SaveOrder`
writes the row, every column of it after a PATCH. A PATCH that leaves amount and project
alone is `reword`, one that may change them `amend`; status is read-only to both.
`FetchProject` with `PatchProject` or `EnterValue` is a PATCH of the project, without or
with a new contract value. `Sent[r]` is what clients send to request `r`, and on which
row.

`base` is a history variable: what the contract value is without any change order. Only
users who enter a contract value change it; what they enter is meant to include the
orders approved at that moment. The archive flag, the status and the other fields of a
project, and the users named on an order, have no part in this.

### Planning

`plan` holds projects, phases and budgets: a status and one value (the total, the place,
the archive flag). `Read`, `Validate`, `SavePlan` are a PATCH: the serializer checks the
new status against the transition table of the copy, and the save writes the whole copy;
a PATCH of a phase may name any place for it (`Wishes`). `ChangeTotal` is the PATCH of a
budget's total, which validates it against its items; a new budget's total is not looked
at and may be negative (`NewValues`). `Archive` saves one column. An item is validated
against the remainder of its budget and saved later (`SaveItem`). A reorder
(`BeginReorder`) takes a list of phases and places that the code asks nothing more of
than that the phases exist: it may leave phases out, name one twice, and put several at
one place. It is taken apart: one transaction, `LockPhase` per entry in the order of the
list, each keeping its row lock; two requests can wait for each other, and
`BreakDeadlock` is PostgreSQL aborting one. `CommitOrder` publishes all places at once
(`Written`: the last one for a phase named twice), `MissPhase` rolls back when a phase of
the list is gone.

### Accounts

A request authenticates and reads the account it is about, changes its copy, and saves
it or some columns of it (`Request`, `Save`). The audit signal reads the row before the
save (`Snapshot`) and appends an entry after it (`Audit`), comparing the old row with
the copy; outside a transaction these are three steps. `Destroy` and `Bridge` (a web
account that logs in on the pages is given a row of the schema) do the same in one. A
reset link is made from the password hash and `last_login` of its user; passwords and
logins are numbered, so that a token fits as long as both are the same. `uses` is how
often a link has set a password (history). The code serialises nothing, not even
requests about one account; `Meetings` says which operations overlap on two accounts and
`Sharing` which on one. The token of a link is checked when a request begins
(`FollowLink`) and the password saved later, with nothing asked in between.

### Alerts

`StartRun` begins a run of `generate_notifications`. Whether a type is on takes the two
queries of `_pref_enabled`, each a step: `AskEnabled` (a row that is on?), then `SkipType`
or `NoRowOfType` (any row?). `Generate` evaluates the generator (what is flagged within
the window, who is told), `LookUp` asks for an unread notification, and the creation
(`Notify`) is a step of its own after it. Meanwhile `MarkRead`,
`MarkAllRead`, a PATCH of preferences (`PatchPrefs`, then `SavePref` row by row), users
whose role changes, subjects that come and go, and `NewDay`. `ShowPrefs` is the GET of
the preferences, which creates the missing rows. A run or a request may `Die` anywhere.
What makes a subject stand out (an unpaid invoice, stock below its minimum, an order
that waits, an overrun) is a flag of the subject; due dates and windows are kept. A
generator reads window, recipients and subjects at one moment here, by several queries in
the code. Neither property depends on it: the pairs of user and subject a run goes through
are looked up one by one, whichever they are, and what stays due is due in every query.

### Documents

An upload resolves the uploader, makes sure of the bucket, stores the file and saves the
row, in this order (`Order`); a deletion removes the file and then the row. Requests to
the storage service may fail with or without having had their effect, and a worker may
die between any two steps (`mishaps` counts both). On disk a name is the client's, and
made unique only against files that are there. `checked` is each worker's memory that
the bucket exists; `Restart` is a restart with or without storage configured;
`SwitchAccount` is an owner deactivating the bridged account of a legacy session.

## 3. Runs

| Run | Instance | Shows |
|---|---|---|
| `settlement` | 2 workers, 2 invoices of a client, 1 payment, totals from -1 to 2, 2 days; all operations but the void by hand; cancel, PATCH, delete and item edits alone | `PaymentNeverOverspent`, `LedgerAgrees`, `PaymentJournalMirrors`, `SentIsBooked`, `StatusTellsBalance`, `CancelledIsClear` |
| `settlement_race` | 2 workers, 1 supplier invoice, 2 payments, totals from -1 to 2; send, delete, pay, allocate, void, nothing alone; fairness | `AtMostOneLiveEntry`, `CashWithinPayment`, `ReadIsCurrent`, `AllocationFitsInvoice`, `JournalIsLedger`, `AllocationsFinish` |
| `items` | 2 workers, 2 invoices, 2 items, amounts up to 2; everything; move, destroy, send and PATCH alone | `TotalsFollowItems`, `SentItemsStay` |
| `pricing` | 2 lines, 1 tax rate; prices, quantities, discounts and charges with halves and negative quantities | `HeaderAddsUp`, `BillsAreBooked` |
| `books` | 2 workers, 1 expense, 2 entries of 2 slots, 2 accounts, amounts up to 2; everything; all but record, draft, pay, void and category alone; moves into drafts | `PostedBalances`, `PaidIsBooked`, `JournalIsLedger` |
| `receiving` | a purchasing and a warehouse clerk, 1 order, 2 lines of a material, 2 warehouses, quantities up to 2 | `StockMatchesLedger`, `NeverOverReceived`, `StatusTellsReceipts`, `ReceiptsReachStock`, `TransfersConserve`, `SubmittedLinesStay` |
| `change_orders` | 2 desks, 2 orders, 2 projects, amounts -1, 1, 2 | `ContractAgrees`, `NumbersUnique`, `DecisionsStick` |
| `planning` | 2 workers, 1 project, 2 phases, 2 budgets, 2 items, totals from -1 to 2, places 1 and 2, lists up to 2 long, in three workloads; fairness | `WithinTotal`, `PlacesAsAsked`, `StatusesFollowTables`, `ReordersEnd` |
| `accounts` | 2 requests, 2 users, 1 link, 2 passwords, 1 login, in two workloads; on one account what leaves role and flag alone, but no reset beside another or beside a save of the whole row | `OwnerRemains`, `LinkWorksOnce`, `TrailTellsRow` |
| `alerts` | 1 run, 1 request, 1 user, 1 subject of each kind in turn, 2 days, 1 death; fairness | `NoDuplicatePending`, `Reminded` |
| `documents` | 2 workers, 3 documents, 1 file name, 2 kinds of session, 2 mishaps | `FilesStay`, `NoOrphans` |
| `finding_line_into_posted` | 2 workers one at a time, 2 entries of 3 slots; draft, add, post, move, also into posted entries | `PostedBalances` violated |

The bounds. A race in this code is between a decision and one write that commits in
between, so two workers show each of them.

- `settlement`: two invoices let one payment be split, amounts up to 2 distinguish
  nothing, partly and fully paid, -1 is a total a discount has pushed below zero, and two
  days make an invoice overdue. Outside `Alone`
  are create, send, record, receipt and allocate, each of which may meet every other.
  `settlement_race` has the second payment, so that two allocations meet on one invoice
  and wait for its lock, and the operations that void.
- `items`: two invoices are what a move needs; two items let two transactions miss each
  other's item.
- `pricing`: prices 1 and 3 with quantities -0.5, 0.5 and 2 and a rate of 50 % produce
  the halves that are rounded; the second rate, 0, is an untaxed invoice. Two lines are
  needed for the difference between rounding sums and summing rounded amounts.
- `books`: an entry needs two lines to balance, and two entries a move or a second
  booking; both entries may be of the expense, one after the other. A revenue account
  adds nothing there that an expense account does not; the theorem has any chart.
- `receiving`: one request has the purchasing operations and the other the warehouse
  ones, because the two meet only on the shelves, where the row lock is. Two lines
  distinguish a partial receipt from a complete one and let one receipt name a line
  twice; two warehouses are what a transfer needs. `MaxBalance` only bounds the
  movements entered by hand: the code accepts any, and a balance may become negative.
- `change_orders`: each desk decides on its own order, both orders possibly of one
  project: their transactions meet on the contract value. The first desk also creates
  both orders, rewords its own and edits a project whose orders nobody else decides.
  Two numbers let a renumbering collide.
- `planning`: the workloads are separate behaviours because no operation touches two of
  projects, phases and budgets. Two phases listed in opposite orders are what a deadlock
  needs; two places let lists collide, and lists of two may name one phase, both, or one
  twice; two budgets are what the move of an item needs.
- `accounts`: two users are enough for a last owner; two passwords and a login make a
  token stale in each way; the theorem has any number of links. Staffing and passwords
  are separate behaviours, but for creation and deletion.
- `alerts`: one subject is of any kind, so all six generators run; a second user or
  subject is looked up independently. One death is enough for a run that stops between
  looking and creating and is started again.
- `documents`: the third document takes the name of a file that is being removed; two
  mishaps are a lost answer and a death, or a restart between two configurations.

`CHECK_DEADLOCK FALSE` stands where the bounded system stops: in `planning` and
`documents` when all identifiers are used up, in `pricing` when the document is sent and
its rates are deleted. Elsewhere TLC also shows that no state is without a successor.

Symmetry. Identifiers and workers are interchangeable where a cfg says `SYMMETRY`. Only
`planning` combines it with liveness, with permutations of phases, budgets and items:
`ReordersEnd` and the fairness it rests on name requests only, and every predicate and
action in them has the same value before and after such a permutation. Without the
permutations of phases the run says the same and takes half as long again.

### Where the code differs from what it says

`finding_line_into_posted`. `accounting/views.py:151-154` says that the lines of an
entry may only be changed while it is a draft. The check in `perform_update` (line 180)
asks the entry the line belongs to, and a PATCH can name another one, which is not
asked: the line lands in a posted entry, which no longer balances.

The models contain the following as well; no run is devoted to them, and the runs'
parameters keep them out of the properties they break. First, where the source says
otherwise:

| The source says | What the model's steps do, with the code |
|---|---|
| statuses "only ever change through transition_status" (`invoicing/services.py:11-13`) | a PATCH that read a draft saves every column after another worker sent the invoice, which is DRAFT again (`PatchHeader`); the same for orders (`PatchOrder`) |
| "the live journal always mirrors the money actually applied" (`payments/services.py:26-27`) | a delete that read a draft cascades to an allocation made in between; the entry stays (`DeleteDraft`, `invoicing/views.py:104`) |
| "void the linked journal entry ... when a SENT invoice is cancelled" (`invoicing/services.py:28-30`) | a cancel that read a draft and commits after a send leaves the entry live (`Cancel`) |
| PAID and OVERDUE "are set only by payments.services.allocate_payment" (`invoicing/services.py:13-14`) | `sync_overdue_statuses` sets OVERDUE, as the next paragraph of that comment says |
| "totals are derived from line items" (`invoicing/serializers.py:101-102`) | removing an item recalculates once, with a sum taken before the row lock was granted; a PATCH of the header writes back a stale total (`InvoiceItems`) |
| over-receiving is "never accepted without that check" (`purchasing/models.py:194-196`) | each of two receipts compares its quantity with the committed sum, which no lock protects; both pass (`ReceiveItem`) |
| "all blocked once the parent PO has left DRAFT status" (`purchasing/views.py:97-101`) | a line's PATCH is checked against the order it leaves, not the one it names (`MoveLine`) |
| cancel "reverses the contract_value effect", a PATCH "never changes status" (`projects/views.py:412-416`) | outside `SeparateDesks`: an amended order is taken off with another amount, or from another project, than was added; two approvals add twice; a PATCH of the project writes back an older contract value; a PATCH of the order brings back the PENDING it read |
| a reset link is "single-use" (`users/tokens.py:8`) | outside `LinksTakeTurns`: two posts of one link at once both pass `check_token` before either saves, and both set a password (`FollowLink`, `users/serializers.py:232`, `users/views.py:90-96`); a PATCH of the account read before a reset puts the old password back, and the spent link fits again (`Save`) |
| "an invoice is either SENT with its GL entry or it isn't sent at all" (`invoicing/services.py:30-31`; the exception made is "a zero-total invoice", `accounting/services/auto.py:292`) | an invoice whose total is negative is sent without an entry (`MarkSent`, `PostEntry`; `accounting/services/auto.py:291`, `326`, `354`), cannot be settled, and is OVERDUE when its date has passed; its negative total counts in the outstanding sums of `projects/financial.py`, which then differ from the control accounts |
| "A missing row means enabled" (`notifications/services.py:39`) | the first look at the preferences creates the rows, enabled, between the two queries of `_pref_enabled`: the first query finds none that is on, the second finds one, and the run passes over the type (`SkipType`) |
| "A paid expense is locked" (`expenses/views.py`, `_reject_if_paid`) | approve, reject and a PATCH save a copy read before the payment over PAID (`Approve`, `Reject`, `UpdateExpense`) |
| "POSTED/VOIDED are terminal" (`accounting/services/core.py:42`) | `post_transaction` saves POSTED over an entry voided after it was read (`PostEntry`) |
| "Every generator is deduplicating" (`notifications/services.py:12`) | two alert runs at the same moment both look, and both create (`LookUp`, `Notify`) |
| "raise a client-facing ValidationError instead of a 500" (`documents/views.py:38-40`) | a legacy session whose bridged account was deactivated meets the unique name and then `DoesNotExist`, a server error (`ResolveUploader`) |
| rates are "kept (never deleted)" (`taxes/models.py:44-46`) | the endpoint deletes them, and a line saved again is then priced untaxed (`DeleteRate`) |

Then, what nothing in the source excludes or promises, and the model has too:

- A PATCH moves an item into a sent invoice: only the old parent is asked
  (`InvoiceItems`, `invoicing/serializers.py:87`). A cancel that read SENT overwrites
  OVERDUE.
- A budget may be created with a negative total (`Create`, `projects/serializers.py:550`
  asks on updates only); it then takes no item.
- Two phases may have one place: a POST and a PATCH take any `sequence_number`, a reorder
  any list of phases that exist (`Create`, `Wishes`, `BeginReorder`). A PATCH of a phase read before a reorder
  puts the old place back (`SavePlan`, outside `PlacesTakeTurns`).
- Two items of a budget validated against one remainder exceed it together (`SaveItem`,
  `projects/serializers.py:470`), and two new change orders both pass the query for
  their number (`ValidateNew`, `projects/serializers.py:636`).
- A payment whose request ends between its two transactions has no receipt
  (`payments/views.py:86`), and a save whose worker ends before the audit signal ran has
  no audit entry (`audit/services.py:215`, `MayDie`).
- On the local disk two removals of one document can remove a later upload of the same
  name; a worker remembers the bucket as checked before its creation has succeeded
  (`documents/storage.py:77`), so a refused creation is not tried again until a restart.
- Two owners who deactivate or delete each other at the same moment both pass
  (`users/views.py:227`), and a PATCH of oneself may give up the role (`"update self"`).
  Bearer tokens and cookies differ in whether the account's active flag is asked
  (`Channels`).
- An invoice with a positive total whose tax or whose revenue share is negative cannot
  be sent: the journal refuses the line (`SendDocument`, `accounting/services/auto.py:279`).

### Fairness

`settlement_race`: a worker that holds both row locks goes on (weak fairness of
`Allocate(r) \/ Refuse(r)`): nothing blocks it, and if it dies its transaction rolls
back (`Abandon`). A worker that waits for the invoice row gets it (strong fairness of
`LockInvoice(r)`): PostgreSQL queues the waiters of a row. `planning` assumes the same
of the phases of a reorder, and that the transaction of a reorder goes on and the database
looks for deadlocks (weak fairness of `Reordering(r)`). `alerts` assumes that the command is run
again and again and that its process goes on (`WF_vars(StartRun(r) \/ Run(r))`); deaths
are bounded by `MaxDeaths`. Clients are not required to do anything, in any run.

## 4. Proofs

`SumsProofs` proves the algebra of sums from the library's theorems on cardinalities:
bounds, one changed argument, monotonicity, a part of a family and the family with zeros
around it, a family dealt out to two others, and tables: a table summed by its rows is
the table summed by its columns (`RowsAndColumns`), by a bijection between its units.
For families of integers, which have no units to count, it proves facts about
`SumFunction` of the community modules: it is an integer, the sum of two families is the
family of the sums, a factor can be taken out, bounds on the terms bound the sum, and a
sum with one term is that term. `SumFunction` recurses over a finite set; the facts are
proved by induction over the subsets of its domain with a set, not an operator, as the
induction hypothesis (`SubsetInduction`, from the library's theorem that removing
members from finite sets is well founded), after `PartialsExist` has shown that the
recursion defines a function at all.

Where two components share a proof module, they share no variable; only what is not
about either of them is used by both.

`SettlementProofs` proves, from `SettlementAssumption` alone (finite sets of invoices
and payments, disjoint identifiers, a bound on totals above zero and one at or below it):

| Theorem | Statement |
|---|---|
| `TypeCorrect` | `Spec => []TypeOK` |
| `OneLiveEntry` | `Spec => []AtMostOneLiveEntry` |
| `NeverOverspent` | `Spec => []PaymentNeverOverspent` |
| `CashCovered` | `Spec => []CashWithinPayment` |
| `ReadsCurrent` | `Spec => []ReadIsCurrent` |
| `AllocationFits` | `Spec => AllocationFitsInvoice` |
| `JournalImplementsLedger` | `Spec => JournalIsLedger` |

The inductive invariant `IInv` has four parts. `Shape`: types, and what each phase of a
job implies for its fields. `LocksExclude`: two workers never hold the same row.
`AtMostOneLiveEntry`. `MoneyOK`: payments are within their amount, the live entry of a
payment lies between what it has settled and its amount, and what a locked job read is
current. The parts need each other: `Allocate` keeps the payment within its amount
because the job's reading is current; the reading stays current because every write to
the invoice's row waits for it and every allocation of the payment needs its lock; the
entry's bound survives a cascade because it was an equality when booked and a cascade
only lowers what is settled. Nothing bounds the number of workers, and no operation is
excluded.

What relates the ledger to the documents needs a premise, `Careful`: operations that
decide on a copy of the whole invoice row (`Copying`: cancel, edit, delete, items) are in
progress only while nobody else is, and nobody voids the entry of a document by hand. It
is what the run `settlement` assumes; sending, allocating, recording payments, deleting
them and the sweep meet freely. Under it:

| Theorem | Statement |
|---|---|
| `JournalMirrors` | `Spec => []PaymentJournalMirrors` |
| `SentAlwaysBooked` | `Spec => []SentIsBooked` |
| `StatusAlwaysTells` | `Spec => []StatusTellsBalance` |
| `CancelledAlwaysClear` | `Spec => []CancelledIsClear` |
| `LedgerAlwaysAgrees` | `Spec => []LedgerAgrees` |

The invariant `Agree` is proved beside `IInv`. `RowsOK` and `PaymentsOK` say what the
first four theorems say, and that only existing, billed invoices hold allocations.
`RequestsOK` says which requests are alone, and `CopiesOK` how much of its copy a request
that is not may still rely on: a sender's draft may have been sent by another, but its
total is the row's and it was not cancelled. `LedgerAgrees` follows from `Agree` without
another step of induction. The live entries of the payments are what each has settled;
what each has settled is a row of the table of allocations, and what is settled on each
invoice a column, so both sums are the sum of the table. An invoice with a total of zero or less is in
neither: it has no entry and nothing is ever settled on it (`RowsOK`). `LedgerAgrees` is
about the billed invoices of positive total; `StatusTellsBalance` says of the others that
they are never paid in part or in full.

The refinement adds nothing to the invariant: `AtMostOneLiveEntry` makes the mapped
amount that of one entry, and each action that touches `live` is a `Book`, a `Void` or,
for `allocate_payment`, a `Restate`.

`InvoicingProofs` proves `TypeCorrect` of `InvoiceItems` without premise.

`TotalsAlwaysFollow == OthersAlone => (Spec => []TotalsFollowItems)`, where `OthersAlone`
says that everything but create, update and send runs on its own, as in the run `items`.
The invariant is a disjunction. While requests are side by side (`Together`), each
transaction recalculates its own invoice twice or has yet to (`JobsOK`), a row has one
writer (`OneWriter`), and a sum taken while holding the row is what the items add up to
at the commit (`SumsCurrent`). While one request is on its own (`LoneJob`), it has
written, or has still to write, the totals of both invoices of its item, each the sum of
the items it sees. `StartsAlone` and `LoneKept` are the ways in and out.

`SentItemsAlwaysStay == SendAndMoveAlone => (Spec => SentItemsStay)`: only sending and
moving must meet nothing. The draft check is made on a header read before the
transaction; `ReadsHold` says that the status it read and the invoice of the item it
read are still so until the request ends, and `ItemsShared` that requests on one item
found it on the same invoice.

About `Pricing` it proves, from `PricingAssumption` alone (finitely many lines, entered
amounts whole, rates natural) and without any premise, `PricingTypeCorrect`,
`HeadersAlwaysAddUp == PricingSpec => []HeaderAddsUp` and `BillsAreAlwaysBooked ==
PricingSpec => []BillsAreBooked`. The invariant `PricingInv` says that each line has
the amounts derived when it was saved, at whatever rate (`LineDerived`), that the header
is the sum of the lines as they are, and that an entry is what the header books. The tax
of a line cannot be derived again from its rate, which may have changed or be gone; what
remains true is that the tax is not negative where the net is not, and that is what
`Balanced` needs. For the header, `RoundedLines` compares the rounded products of the
lines with the sum of the products: each line errs by half a cent at most
(`RoundingIsClose`), the sum of the errors by half a cent a line, and rounding the sum
adds one half. `ColumnOfOne` sums the columns of an entry, in which one posting moves an
account.

`ReceivingProofs` proves `TypeCorrect == Spec => []TypeOK` and `StockAlwaysMatches ==
Spec => []StockMatchesLedger` from `ReceivingAssumption`, for any number of requests and
any operations sent to each, unprotected ones included. The balance of a shelf is kept
by a write of a value computed earlier, so the invariant must say what is in flight: a
shelf is locked by one transaction at a time (`LocksApart`), and while it is, the
balance its holder has written is the committed balance plus the holder's own movements;
of a shelf it does not hold it has no movements (`BuffersAgree`). A commit then moves
`stock` and `moved` by the same amount, and leaves every other holder's buffer true
because the shelves they hold are not the ones it writes.

`ReceiptsAlwaysReachStock` and `TransfersAlwaysConserve` are proved without premise too.
They are about one step, the commit, but what it writes was put together over several:
`WorkFits` follows it, per request. The movements of a receipt under way are those of the
lines it has done, at its warehouse (`DeliveryFits`); those of a transfer are none, one
leg or both (`TransferFits`); a request without a transaction has none (`KindFits`).

`NeverTooMuch` has the premise `BuyersAlone`: no two requests do what buyers do (orders,
their lines, receipts); any number do movements and transfers beside. It is the run's
assignment of operations, for any number of orders, lines, materials and warehouses. The
invariant `OrdersInv` adds that lines belong to orders that exist and have not received
too much (`LinesFit`) and that a request's copies are the rows (`CopiesFit`).
`LinesAlwaysStay` and `StatusAlwaysTells` need `LinesStayPut` besides: there is one
order, or no line is moved to another. A line that is moved is checked against the order
it comes from only.

`ChangeOrdersProofs` proves `TypeCorrect` from `ChangeOrdersAssumption`, and under
`SeparateDesks` that `Spec => []ContractAgrees` (`ContractAlwaysAgrees`) and `Spec =>
DecisionsStick` (`DecisionsAlwaysStick`), for any number of desks, orders and projects
and any amounts. `SeparateDesks` says that each order is decided at one desk, no amount
is amended, and a project is edited only at the desk that decides on all of its orders;
decisions on different orders of one project may run side by side. The invariant adds to
the agreement what makes decisions on copies safe: the copy a desk holds has the
project, amount and status of the row (`CopyCurrent`), an order is created once
(`CreatedOnce`) and for a project it may be created for (`CreatedForProject`).
`ApprovedMoves` then says that a step that writes one order moves the approved total by
that order's effect, positive or negative, and no other project's.
`NumbersAlwaysUnique == OneEditor => (Spec => []NumbersUnique)` allows decisions without
any restriction, and one request at a time that creates or edits: the number it found
free stays free until it saves (`NumberFree`); the table has no constraint behind it.

`UsersProofs` proves, about `Accounts`, `AccountsTypeCorrect` and, for any number of
users, links and requests side by side:

| Theorem | Statement |
|---|---|
| `TrailIsTrue` | `DeathsAreEarly /\ ChangesTakeTurns => (AccountsSpec => []TrailTellsRow)` |
| `LinksWorkOnce` | `LinksTakeTurns => (AccountsSpec => []LinkWorksOnce)` |
| `OwnerAlwaysRemains` | `OwnersTakeTurns => (AccountsSpec => []OwnerRemains)` |

All rest on `Base`, which says what a request at each stage holds; the trail and the
owners also on `Sound`, what its copy tells of the row while nobody else at the account
writes role or flag (`ChangesTakeTurns`). The trail needs `Told`: the snapshot a request
took is what the newest entry says, until a change is saved and not yet logged. Its other
premise is that no worker dies between a save and its audit entry, the one place where
the code leaves a row without one. The links need `LinksTakeTurns`: a reset meets neither
another one of its account nor a save of the account's whole row. Logins, changes of
password, other links and whatever concerns other accounts may meet it. `LinkInv` says
that passwords about to be set are nobody's yet (`PasswordsFresh`), that a spent link
fits neither its account nor a row somebody is about to save (`LinksSpent`), and that a
reset under way holds an unspent link and meets nothing that would undo it
(`ResetsAlone`). Owners need `OwnersTakeTurns`: besides `ChangesTakeTurns`, requests come
with a cookie, nobody changes the own role, and no two requests that take an owner away
overlap. `OwnerInv` says that whoever may take an owner
away leaves another one (`LeavesOne`), because the user who asks is an active owner, is
not the account asked about, and stays.

About `Alerts` it proves `TypeCorrect` and that `OneRunAtATime => (Spec =>
[]NoDuplicatePending)` (`NeverTwice`), for any users, subjects, windows and deaths.
`NoDuplicatePending` is not inductive: a run creates what it looked up earlier.
`LookedUp` says that what a run found missing is still missing, which holds because only
runs create, and there is one.

`ProjectsProofs` proves, about `Planning`, `PlanningTypeCorrect` and, for any number of
projects, phases, budgets, items and requests:

| Theorem | Statement |
|---|---|
| `StatusesMoveLegally` | `SaversTakeTurns => (PlanningSpec => StatusesFollowTables)` |
| `PhasesMoveAsAsked` | `PlacesTakeTurns => (PlanningSpec => PlacesAsAsked)` |
| `ItemsFitTotal` | `BudgetsTakeTurns => (PlanningSpec => []WithinTotal)` |

Each premise names only the pairs of operations that must not overlap for that property;
the run excludes more. `SaversTakeTurns`: two saves of whole rows. The copy a request
holds is then the row, or one legal move ahead of it (`StatusInv`). `PlacesTakeTurns`: a
save of a whole phase meets neither another one nor a reorder, whose places it would
undo; reorders meet each other, new phases and removals freely. `PlaceInv` says that the
copy a PATCH holds has the place the phase has, or the one asked for, and that a reorder
has written every phase its list names so far, each at a place the list gives it.
`BudgetsTakeTurns`: an item that was checked is not overtaken by another one or by a
change of the total, nor a save of the whole budget by the latter. `TotalInv` is about
every total a budget has or may become again when a stale copy is saved (`MayBe`): there
is one (`OneTotal`), and the items fit it, with the item that is about to be saved. An
empty budget may have any total; the first item it takes has been checked against it.

About `Documents` it proves `TypeCorrect`, `Spec => []FilesStay` (`FilesAlwaysStay`) and
`Spec => []NoOrphans` (`NothingOrphaned`), for any number of workers, documents and
mishaps. For the first, a key in the bucket names its document (`Keys`), and a removal
holds only documents somebody asked to delete (`Holds`). For the second, every stored
file has an owner, a row or a job, that no removal under way has reached (`Owned`); it
cannot be weakened to "some row names it", because on disk the name of a removed file
can be taken by a new upload while the older request goes on.

`BooksProofs` proves `TypeCorrect` without premise, and the rest under `Protected == Ops
\ FreeOps \subseteq Alone /\ "POSTED" \notin MoveInto`: payments, voids, drafts, new
expenses and changes of the category meet freely, everything else runs alone, and lines
are moved into drafts only. For any expenses, entries, slots, accounts and amounts it
proves `PaidAlwaysBooked` (`PaidIsBooked`), `BooksAlwaysBalance` (`PostedBalances`) and
`JournalImplementsLedger` (`JournalIsLedger`). The invariant `IInv` has four parts.
`Shape`: types, jobs, and that rows that exist have their values. `AloneOK`: beside an
operation that runs alone nobody is at work. `KnowledgeOK`: the copy such an operation
holds is the row, a balance that was checked still holds, and a payment knows the
expense's total. `RowsAgree`: entries of expenses are posted or voided, an expense has
one live entry, posted entries balance, and paid expenses have theirs. The copies need
`AloneOK`; `Pay` needs none, because `existing_source_entry` and the booking are in one
transaction and the total of an expense changes only by an `update`, which runs alone.
That the report agrees with the balance sheet is the balance of each entry summed over
all of them: by rows (`SumByRows`), then dealt out to the buckets.

Every safety property of every passing run is thus stated by a theorem. Checked by TLC
only: the liveness properties `AllocationsFinish`, `ReordersEnd` and `Reminded`, which
need fairness and ENABLED and are outside the prover's reach, and the violation of
`finding_line_into_posted`, which is a counterexample.

## 5. Not modelled

- Document numbers, their generation and retry loops: data here. A writer that loses
  three times gets an error and changes no row.
- Permissions in detail, throttling, cookies, token formats; `Accounts` has what decides
  whether a request is let in as an owner.
- Rendering: PDF, pages, summaries, list filters, the pages of the Django admin. They
  read only.
- Parties, the company row, staff assigned to projects, the catalogue of materials and
  the chart of accounts: plain records that the models use as identifiers or constants.
- Audit entries of models other than accounts: the signals are the same code.
- Opposite item moves that wait for each other's invoice rows: PostgreSQL aborts one,
  which is `Rollback` of `InvoiceItems`.

Reasons per component are in `PROJECT.json`.
