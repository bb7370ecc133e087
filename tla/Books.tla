------------------------------- MODULE Books -------------------------------
(***************************************************************************)
(* Expenses and the journal: entries written by hand, line by line, and    *)
(* the entry booked when an expense is paid.                               *)
(*                                                                         *)
(* A request reads a row, decides on the copy (job[r].row), and writes     *)
(* later.  An entry's lines are kept in slots; an amount is positive for a *)
(* debit and negative for a credit, as a line has one of the two.          *)
(***************************************************************************)
EXTENDS Integers, FiniteSets, Sums

CONSTANTS
  Requests,   \* the requests that can be in progress at the same time
  Expenses,   \* identifiers of expenses
  Entries,    \* identifiers of journal entries
  Slots,      \* places for the lines of an entry
  Accounts,   \* account codes
  Cash,       \* account 1000
  BucketOf,   \* "revenue", "expense" or "other", by the type of the account
  None,       \* SQL's NULL
  MaxAmount,  \* bound on the amount of an expense and of a line, in units
  Entered,    \* the lines written by hand in this instance
  MoveInto,   \* the status of entries clients move lines into in this instance
  Ops,        \* the operations clients request in this instance
  Alone       \* those that run only while no other request is in progress

ExpenseOps == {"record", "approve", "pay", "reject", "update", "destroy"}
EntryOps == {"draft", "edit", "delete", "post", "void"}
LineOps == {"add", "amend", "move", "drop"}
AllOps == ExpenseOps \cup EntryOps \cup LineOps \cup {"category"}

LineAmounts == (-MaxAmount..MaxAmount) \ {0}

ASSUME BooksAssumption ==
  /\ IsFiniteSet(Slots) /\ IsFiniteSet(Entries) /\ IsFiniteSet(Expenses)
  /\ \E m, n \in Slots : m # n
  /\ Cash \in Accounts
  /\ BucketOf \in [Accounts -> {"revenue", "expense", "other"}]
  /\ None \notin Requests \cup Expenses \cup Entries \cup Slots \cup Accounts
  /\ Expenses \cap Entries = {}
  /\ MaxAmount \in Nat \ {0} /\ Entered \subseteq [account : Accounts, amount : LineAmounts]
  /\ MoveInto \subseteq {"DRAFT", "POSTED", "VOIDED"}
  /\ Ops \subseteq AllOps /\ Alone \subseteq Ops

VARIABLES
  expense,    \* the expense rows
  entry,      \* the headers of journal entries
  lines,      \* their lines
  category,   \* the account of the expense category, if it has one
  job         \* what the worker of each request holds

vars == <<expense, entry, lines, category, job>>
-----------------------------------------------------------------------------
ExpenseStatuses == {"PENDING", "APPROVED", "PAID", "REJECTED"}
EntryStatuses == {"DRAFT", "POSTED", "VOIDED"}
Missing == {"ABSENT", "DELETED"}
ExpenseRow == [status : ExpenseStatuses \cup Missing, total : 0..MaxAmount]
EntryRow == [status : EntryStatuses \cup Missing, source : Expenses \cup {None}]
NoExpense(why) == [status |-> why, total |-> 0]
NoEntry(why) == [status |-> why, source |-> None]

NoLine == [account |-> None, amount |-> 0]
Line == [account : Accounts, amount : LineAmounts] \cup {NoLine}
NoLines == [n \in Slots |-> NoLine]

(* row: the copy of the expense or the header; account: the category's     *)
(* account, which is read along with an expense.                           *)
Idle == [op |-> "idle", phase |-> "idle", id |-> None, slot |-> None,
         row |-> NoEntry("ABSENT"), account |-> None]
Job == [op : AllOps \cup {"idle"}, phase : {"idle", "checked", "read", "balanced"},
        id : Expenses \cup Entries \cup {None}, slot : Slots \cup {None},
        row : ExpenseRow \cup EntryRow, account : Accounts \cup {None}]

Recorded(e) == expense[e].status \notin Missing
Exists(k) == entry[k].status \notin Missing

Positive(a) == IF a > 0 THEN a ELSE 0
Debit(k) == SumOf([n \in Slots |-> Positive(lines[k][n].amount)])
Credit(k) == SumOf([n \in Slots |-> Positive(-lines[k][n].amount)])

(* Which requests meet is the environment's choice. *)
MayMeet(op) ==
  /\ op \in Ops
  /\ op \in Alone => \A s \in Requests : job[s] = Idle
  /\ \A s \in Requests : job[s].op \notin Alone

HasRead(r, op) == job[r].op = op /\ job[r].phase = "read"
Finish(r) == job' = [job EXCEPT ![r] = Idle]
-----------------------------------------------------------------------------
(* The account of the expense category; a category of an account that is   *)
(* deleted is left without.                                                *)
PointCategory ==
  /\ MayMeet("category")
  /\ category' \in Accounts \cup {None}
  /\ UNCHANGED <<expense, entry, lines, job>>
-----------------------------------------------------------------------------
(* Expenses. *)

RecordExpense(e) ==
  /\ MayMeet("record")
  /\ expense[e].status = "ABSENT"
  /\ \E t \in 1..MaxAmount : expense' = [expense EXCEPT ![e] = [status |-> "PENDING", total |-> t]]
  /\ UNCHANGED <<entry, lines, category, job>>

ReadExpense(r, e, op) ==
  /\ job[r] = Idle /\ MayMeet(op)
  /\ op \in {"approve", "pay", "reject"}
  /\ Recorded(e)
  /\ job' = [job EXCEPT ![r] = [Idle EXCEPT !.op = op, !.phase = "read", !.id = e,
                                            !.row = expense[e], !.account = category]]
  /\ UNCHANGED <<expense, entry, lines, category>>

AllowedTransitions ==
  {<<"PENDING", "APPROVED">>, <<"PENDING", "REJECTED">>,
   <<"APPROVED", "PAID">>, <<"APPROVED", "REJECTED">>}

ChangeStatus(r, op, target) ==
  LET e == job[r].id IN
  /\ HasRead(r, op)
  /\ <<job[r].row.status, target>> \in AllowedTransitions
  /\ Recorded(e)
  /\ expense' = [expense EXCEPT ![e].status = target]
  /\ Finish(r)
  /\ UNCHANGED <<entry, lines, category>>
Approve(r) == ChangeStatus(r, "approve", "APPROVED")
Reject(r) == ChangeStatus(r, "reject", "REJECTED")

EntriesOf(e) == {k \in Entries : entry[k].source = e}
Live(e) == {k \in EntriesOf(e) : entry[k].status # "VOIDED"}
BookedAgain(e) == TRUE
Unbooked(e) == Live(e) = {}

(* book_expense: debit the category's account, credit cash. *)
Lopsided(n, m, account, total) ==
  [NoLines EXCEPT ![n] = [account |-> account, amount |-> total]]
SourceLines(n, m, account, total) ==
  [NoLines EXCEPT ![n] = [account |-> account, amount |-> total],
                  ![m] = [account |-> Cash, amount |-> -total]]

(* mark_paid: the status, the entry and its lines commit together. *)
Pay(r) ==
  LET e == job[r].id
      row == job[r].row
  IN  /\ HasRead(r, "pay")
      /\ <<row.status, "PAID">> \in AllowedTransitions
      /\ Recorded(e)
      /\ job[r].account # None
      /\ Unbooked(e)
      /\ \E k \in Entries, n, m \in Slots :
           /\ entry[k].status = "ABSENT" /\ n # m
           /\ entry' = [entry EXCEPT ![k] = [status |-> "POSTED", source |-> e]]
           /\ lines' = [lines EXCEPT ![k] = SourceLines(n, m, job[r].account, row.total)]
      /\ expense' = [expense EXCEPT ![e].status = "PAID"]
      /\ Finish(r)
      /\ UNCHANGED category

(* PATCH, PUT and DELETE look at the row twice: once to reject a paid      *)
(* expense, and again for the row they write or delete.                    *)
NeverRejected(e) == TRUE
RejectIfPaid(e) == expense[e].status # "PAID"

CheckUnpaid(r, e, op) ==
  /\ job[r] = Idle /\ MayMeet(op)
  /\ op \in {"update", "destroy"}
  /\ Recorded(e) /\ RejectIfPaid(e)
  /\ job' = [job EXCEPT ![r] = [Idle EXCEPT !.op = op, !.phase = "checked", !.id = e]]
  /\ UNCHANGED <<expense, entry, lines, category>>

ReadAgain(r) ==
  LET e == job[r].id IN
  /\ job[r].phase = "checked"
  /\ Recorded(e)
  /\ job' = [job EXCEPT ![r].phase = "read", ![r].row = expense[e]]
  /\ UNCHANGED <<expense, entry, lines, category>>

(* serializer.save() writes every column, and inserts a row that is gone. *)
UpdateExpense(r) ==
  /\ HasRead(r, "update")
  /\ \E t \in 1..MaxAmount :
       expense' = [expense EXCEPT ![job[r].id] = [job[r].row EXCEPT !.total = t]]
  /\ Finish(r)
  /\ UNCHANGED <<entry, lines, category>>

DestroyExpense(r) ==
  /\ HasRead(r, "destroy")
  /\ expense' = [expense EXCEPT ![job[r].id] = NoExpense("DELETED")]
  /\ Finish(r)
  /\ UNCHANGED <<entry, lines, category>>
-----------------------------------------------------------------------------
(* Journal entries by hand. *)

DraftEntry(k) ==
  /\ MayMeet("draft")
  /\ entry[k].status = "ABSENT"
  /\ entry' = [entry EXCEPT ![k] = [status |-> "DRAFT", source |-> None]]
  /\ UNCHANGED <<expense, lines, category, job>>

(* A new line names its entry; the other requests name the entry itself.   *)
ReadEntry(r, k, op) ==
  /\ job[r] = Idle /\ MayMeet(op)
  /\ op \in {"edit", "delete", "post", "void", "add"}
  /\ Exists(k)
  /\ job' = [job EXCEPT ![r] = [Idle EXCEPT !.op = op, !.phase = "read", !.id = k,
                                            !.row = entry[k]]]
  /\ UNCHANGED <<expense, entry, lines, category>>

NoDraftCheck(row) == TRUE
RequireDraft(row) == row.status = "DRAFT"

EditEntry(r) ==
  /\ HasRead(r, "edit") /\ RequireDraft(job[r].row)
  /\ entry' = [entry EXCEPT ![job[r].id] = job[r].row]
  /\ Finish(r)
  /\ UNCHANGED <<expense, lines, category>>

DeleteEntry(r) ==
  LET k == job[r].id IN
  /\ HasRead(r, "delete") /\ RequireDraft(job[r].row)
  /\ entry' = [entry EXCEPT ![k] = NoEntry("DELETED")]
  /\ lines' = [lines EXCEPT ![k] = NoLines]
  /\ Finish(r)
  /\ UNCHANGED <<expense, category>>

(* post_transaction asks for lines and a balance, then saves the status. *)
Postable(k) == lines[k] # NoLines /\ Debit(k) = Credit(k)
CheckBalance(r) ==
  /\ HasRead(r, "post") /\ RequireDraft(job[r].row)
  /\ Postable(job[r].id)
  /\ job' = [job EXCEPT ![r].phase = "balanced"]
  /\ UNCHANGED <<expense, entry, lines, category>>

PostEntry(r) ==
  LET k == job[r].id IN
  /\ job[r].phase = "balanced"
  /\ Exists(k)
  /\ entry' = [entry EXCEPT ![k].status = "POSTED"]
  /\ Finish(r)
  /\ UNCHANGED <<expense, lines, category>>

VoidEntry(r) ==
  LET k == job[r].id IN
  /\ HasRead(r, "void") /\ job[r].row.status # "VOIDED"
  /\ Exists(k)
  /\ entry' = [entry EXCEPT ![k].status = "VOIDED"]
  /\ Finish(r)
  /\ UNCHANGED <<expense, lines, category>>
-----------------------------------------------------------------------------
(* The lines of a draft. *)

AddLine(r) ==
  LET k == job[r].id IN
  /\ HasRead(r, "add") /\ RequireDraft(job[r].row)
  /\ Exists(k)
  /\ \E n \in Slots, line \in Entered :
       /\ lines[k][n] = NoLine
       /\ lines' = [lines EXCEPT ![k][n] = line]
  /\ Finish(r)
  /\ UNCHANGED <<expense, entry, category>>

ReadLine(r, k, n, op) ==
  /\ job[r] = Idle /\ MayMeet(op)
  /\ op \in {"amend", "move", "drop"}
  /\ lines[k][n] # NoLine
  /\ job' = [job EXCEPT ![r] = [Idle EXCEPT !.op = op, !.phase = "read", !.id = k,
                                            !.slot = n, !.row = entry[k]]]
  /\ UNCHANGED <<expense, entry, lines, category>>

AmendLine(r) ==
  LET k == job[r].id IN
  /\ HasRead(r, "amend") /\ RequireDraft(job[r].row)
  /\ Exists(k)
  /\ \E line \in Entered : lines' = [lines EXCEPT ![k][job[r].slot] = line]
  /\ Finish(r)
  /\ UNCHANGED <<expense, entry, category>>

(* The entry a line belongs to is one of the columns a PATCH may change;   *)
(* only the entry it leaves must be a draft.                               *)
MoveLine(r) ==
  LET k == job[r].id
      n == job[r].slot
  IN  /\ HasRead(r, "move") /\ RequireDraft(job[r].row)
      /\ \E j \in Entries \ {k}, m \in Slots :
           /\ entry[j].status \in MoveInto /\ lines[j][m] = NoLine
           /\ lines' = [lines EXCEPT ![k][n] = NoLine, ![j][m] = lines[k][n]]
      /\ Finish(r)
      /\ UNCHANGED <<expense, entry, category>>

DropLine(r) ==
  /\ HasRead(r, "drop") /\ RequireDraft(job[r].row)
  /\ lines' = [lines EXCEPT ![job[r].id][job[r].slot] = NoLine]
  /\ Finish(r)
  /\ UNCHANGED <<expense, entry, category>>

(* A request ends without further effect: it is refused, its transaction   *)
(* fails, or the worker dies.                                              *)
Abandon(r) ==
  /\ job[r] # Idle
  /\ Finish(r)
  /\ UNCHANGED <<expense, entry, lines, category>>
-----------------------------------------------------------------------------
Init ==
  /\ expense = [e \in Expenses |-> NoExpense("ABSENT")]
  /\ entry = [k \in Entries |-> NoEntry("ABSENT")]
  /\ lines = [k \in Entries |-> NoLines]
  /\ category \in Accounts \cup {None}
  /\ job = [r \in Requests |-> Idle]

ExpenseStep(r) ==
  \/ Approve(r) \/ Reject(r) \/ Pay(r)
  \/ ReadAgain(r) \/ UpdateExpense(r) \/ DestroyExpense(r)

EntryStep(r) ==
  \/ EditEntry(r) \/ DeleteEntry(r) \/ CheckBalance(r) \/ PostEntry(r) \/ VoidEntry(r)
  \/ AddLine(r) \/ AmendLine(r) \/ MoveLine(r) \/ DropLine(r)

Request(r) ==
  \/ \E e \in Expenses, op \in Ops : ReadExpense(r, e, op) \/ CheckUnpaid(r, e, op)
  \/ \E k \in Entries, op \in Ops : ReadEntry(r, k, op)
  \/ \E k \in Entries, n \in Slots, op \in Ops : ReadLine(r, k, n, op)

Next ==
  \/ \E r \in Requests : Request(r) \/ ExpenseStep(r) \/ EntryStep(r) \/ Abandon(r)
  \/ \E e \in Expenses : RecordExpense(e)
  \/ \E k \in Entries : DraftEntry(k)
  \/ PointCategory

Spec == Init /\ [][Next]_vars
-----------------------------------------------------------------------------
(* What the properties below need: what decides on a copy runs alone, and    *)
(* nobody moves a line into a posted entry.                                *)
FreeOps == {"record", "draft", "pay", "void", "category"}
Protected == Ops \ FreeOps \subseteq Alone /\ "POSTED" \notin MoveInto
-----------------------------------------------------------------------------
(* Every variable holds a value of its kind. *)
TypeOK ==
  /\ expense \in [Expenses -> ExpenseRow]
  /\ entry \in [Entries -> EntryRow]
  /\ lines \in [Entries -> [Slots -> Line]]
  /\ category \in Accounts \cup {None}
  /\ job \in [Requests -> Job]

(* The reports: what profit_loss adds up over POSTED lines. *)
PostedOn(bucket, sign) ==
  SumOf([p \in Entries \X Slots |->
    LET line == lines[p[1]][p[2]] IN
    IF entry[p[1]].status = "POSTED" /\ line # NoLine /\ BucketOf[line.account] = bucket
    THEN Positive(sign * line.amount) ELSE 0])
NetDebit(bucket) == PostedOn(bucket, 1) - PostedOn(bucket, -1)
NetProfit == -NetDebit("revenue") - NetDebit("expense")

(* A posted entry balances, so the profit the report computes is what the  *)
(* balance sheet gained: nothing that changes lines reaches a posted entry *)
(* (accounting/services/core.py:5-9).                                      *)
PostedBalances ==
  /\ \A k \in Entries : entry[k].status = "POSTED" => Debit(k) = Credit(k) /\ lines[k] # NoLines
  /\ NetProfit = NetDebit("other")

(* An expense is paid exactly when it was booked, and the entry, unless    *)
(* somebody voided it, moved the total the expense still shows             *)
(* (expenses/services.py:11-15, the paid lock of expenses/views.py:29-34). *)
PaidIsBooked ==
  \A e \in Expenses :
    /\ Recorded(e) /\ expense[e].status = "PAID" =>
         \E k \in EntriesOf(e) : entry[k].status = "VOIDED" \/ Debit(k) = expense[e].total
    /\ Live(e) # {} => expense[e].status = "PAID"

(* The entries of expenses are an abstract ledger: one live entry per      *)
(* expense, of an amount that stays, however payments, voids and journal   *)
(* work meet (existing_source_entry, uniq_source_pair).                    *)
Booked(e) == SumOf([k \in Live(e) |-> Debit(k)])
Journal == INSTANCE Ledger WITH
  Sources <- Expenses, Restated <- {}, Amounts <- 1..MaxAmount,
  booked <- [e \in Expenses |-> Booked(e)]
JournalIsLedger == Journal!Spec
=============================================================================
