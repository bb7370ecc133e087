---------------------------- MODULE BooksProofs ----------------------------
(***************************************************************************)
(* Proofs about Books, for any requests, expenses, entries, slots and      *)
(* accounts: the types; and, when what decides on a copy runs alone and no *)
(* line is moved into a posted entry, that posted entries balance, that a  *)
(* paid expense is booked as it stands, and that the entries of expenses   *)
(* implement Ledger.                                                       *)
(***************************************************************************)
EXTENDS Books, SumsProofs

OnExpense == {"approve", "pay", "reject", "update", "destroy"}
OnLine == {"amend", "move", "drop"}
OnEntry == {"edit", "delete", "post", "void", "add"} \cup OnLine

(* A recorded expense is not for nothing. *)
RealExpense == [status : ExpenseStatuses, total : 1..MaxAmount]
RowsOK == \A e \in Expenses : Recorded(e) => expense[e] \in RealExpense

(* What the phase of a request says about the fields it uses.              *)
JobOK(j) ==
  /\ j.op = "idle" => j = Idle
  /\ j.op # "idle" => j.op \in Ops \cap (OnExpense \cup OnEntry)
  /\ j.op \in OnExpense =>
       /\ j.id \in Expenses /\ j.phase \in {"checked", "read"}
       /\ j.phase = "read" => j.row \in RealExpense
       /\ j.phase = "checked" => j.op \in {"update", "destroy"}
  /\ j.op \in OnEntry =>
       /\ j.id \in Entries /\ j.row \in EntryRow /\ j.phase \in {"read", "balanced"}
       /\ j.phase = "balanced" => j.op = "post"
       /\ j.op \in OnLine => j.slot \in Slots

JobsOK == \A r \in Requests : JobOK(job[r])
Shape == TypeOK /\ JobsOK /\ RowsOK
-----------------------------------------------------------------------------
(* Rows and jobs have the fields their types say. *)
LEMMA Constants ==
  /\ Idle \in Job /\ JobOK(Idle) /\ Idle.op = "idle" /\ Idle.phase = "idle"
  /\ \A why \in Missing : NoExpense(why) \in ExpenseRow /\ NoEntry(why) \in EntryRow
  /\ NoLine \in Line /\ NoLines \in [Slots -> Line]
<1>1. 0 \in 0..MaxAmount
  BY BooksAssumption
<1>2. \A why \in Missing : NoExpense(why) \in ExpenseRow /\ NoEntry(why) \in EntryRow
  BY <1>1 DEF NoExpense, NoEntry, ExpenseRow, EntryRow
<1>3. Idle \in Job
  BY <1>2 DEF Idle, Job, Missing
<1>4. JobOK(Idle) /\ Idle.op = "idle" /\ Idle.phase = "idle"
  BY DEF Idle, JobOK, OnExpense, OnEntry, OnLine
<1>5. QED
  BY <1>2, <1>3, <1>4 DEF NoLine, NoLines, Line

LEMMA RealRows == RealExpense \subseteq ExpenseRow
  BY DEF RealExpense, ExpenseRow

LEMMA StartedOnExpense ==
  ASSUME NEW op \in Ops \cap OnExpense, NEW e \in Expenses, NEW x \in RealExpense,
         NEW c \in Accounts \cup {None}
  PROVE  LET j == [Idle EXCEPT !.op = op, !.phase = "read", !.id = e, !.row = x, !.account = c]
         IN  /\ j \in Job /\ JobOK(j)
             /\ j.op = op /\ j.phase = "read" /\ j.id = e /\ j.row = x /\ j.account = c
  BY RealRows, BooksAssumption DEF Idle, Job, JobOK, OnExpense, OnEntry, OnLine

LEMMA StartedWithCheck ==
  ASSUME NEW op \in Ops \cap {"update", "destroy"}, NEW e \in Expenses
  PROVE  LET j == [Idle EXCEPT !.op = op, !.phase = "checked", !.id = e]
         IN  j \in Job /\ JobOK(j) /\ j.op = op /\ j.phase = "checked" /\ j.id = e
<1>1. NoEntry("ABSENT") \in EntryRow
  BY Constants DEF Missing
<1>2. QED
  BY <1>1, BooksAssumption DEF Idle, Job, JobOK, OnExpense, OnEntry, OnLine

LEMMA StartedOnEntry ==
  ASSUME NEW op \in Ops \cap {"edit", "delete", "post", "void", "add"}, NEW k \in Entries,
         NEW x \in EntryRow
  PROVE  LET j == [Idle EXCEPT !.op = op, !.phase = "read", !.id = k, !.row = x]
         IN  /\ j \in Job /\ JobOK(j)
             /\ j.op = op /\ j.phase = "read" /\ j.id = k /\ j.row = x
  BY BooksAssumption DEF Idle, Job, JobOK, OnExpense, OnEntry, OnLine

LEMMA StartedOnLine ==
  ASSUME NEW op \in Ops \cap OnLine, NEW k \in Entries, NEW n \in Slots, NEW x \in EntryRow
  PROVE  LET j == [Idle EXCEPT !.op = op, !.phase = "read", !.id = k, !.slot = n, !.row = x]
         IN  /\ j \in Job /\ JobOK(j)
             /\ j.op = op /\ j.phase = "read" /\ j.id = k /\ j.slot = n /\ j.row = x
  BY BooksAssumption DEF Idle, Job, JobOK, OnExpense, OnEntry, OnLine

LEMMA ReadIt ==
  ASSUME NEW j \in Job, JobOK(j), j.phase = "checked", NEW x \in RealExpense
  PROVE  LET i == [j EXCEPT !.phase = "read", !.row = x]
         IN  /\ i \in Job /\ JobOK(i) /\ i.op = j.op /\ j.op \in {"update", "destroy"}
             /\ i.phase = "read" /\ i.id = j.id /\ i.row = x
<1> DEFINE i == [j EXCEPT !.phase = "read", !.row = x]
<1>1. /\ i.op = j.op /\ i.phase = "read" /\ i.id = j.id /\ i.row = x /\ i.slot = j.slot
      /\ i \in Job
  BY RealRows DEF Job
<1>2. j.op \in {"update", "destroy"} /\ j.op \in Ops /\ j.id \in Expenses
  BY DEF JobOK, OnExpense, OnEntry, OnLine, Idle
<1>3. JobOK(i)
  <2> HIDE DEF i
  <2>1. QED
    BY <1>1, <1>2 DEF JobOK, OnExpense, OnEntry, OnLine
<1>4. QED
  BY <1>1, <1>2, <1>3

LEMMA FoundBalanced ==
  ASSUME NEW j \in Job, JobOK(j), j.op = "post", j.phase = "read"
  PROVE  LET i == [j EXCEPT !.phase = "balanced"]
         IN  /\ i \in Job /\ JobOK(i) /\ i.op = j.op
             /\ i.phase = "balanced" /\ i.id = j.id /\ i.row = j.row
  BY DEF Job, JobOK, OnExpense, OnEntry, OnLine, Idle

(* One job changes. *)
LEMMA OneJob ==
  ASSUME Shape, NEW r \in Requests, NEW j \in Job, JobOK(j), job' = [job EXCEPT ![r] = j]
  PROVE  /\ job' \in [Requests -> Job] /\ JobsOK'
         /\ job'[r] = j /\ \A s \in Requests \ {r} : job'[s] = job[s]
  BY DEF Shape, TypeOK, JobsOK

LEMMA Ended ==
  ASSUME Shape, NEW r \in Requests, Finish(r)
  PROVE  /\ job' \in [Requests -> Job] /\ JobsOK'
         /\ job'[r] = Idle /\ \A s \in Requests \ {r} : job'[s] = job[s]
  BY Constants, OneJob DEF Finish

(* What a request that has read its row holds. *)
LEMMA ReadJob ==
  ASSUME Shape, NEW r \in Requests, NEW op, HasRead(r, op)
  PROVE  /\ op \in OnExpense => job[r].id \in Expenses /\ job[r].row \in RealExpense
         /\ op \in OnEntry => job[r].id \in Entries /\ job[r].row \in EntryRow
         /\ op \in OnLine => job[r].slot \in Slots
         /\ job[r].account \in Accounts \cup {None}
  BY DEF Shape, TypeOK, JobsOK, JobOK, HasRead, Job, OnExpense, OnEntry, OnLine

(* The columns of a row, and one of them changed. *)
LEMMA RowFields ==
  /\ \A x \in RealExpense : x.status \in ExpenseStatuses /\ x.total \in 1..MaxAmount
  /\ \A x \in EntryRow : x.status \in EntryStatuses \cup Missing /\ x.source \in Expenses \cup {None}
  /\ \A x \in RealExpense, s \in ExpenseStatuses : [x EXCEPT !.status = s] \in RealExpense
  /\ \A x \in RealExpense, t \in 1..MaxAmount : [x EXCEPT !.total = t] \in RealExpense
  /\ \A x \in EntryRow, s \in EntryStatuses : [x EXCEPT !.status = s] \in EntryRow
  BY DEF RealExpense, EntryRow
-----------------------------------------------------------------------------
(* Rows of expenses: what a step that writes one leaves. *)
LEMMA OneExpense ==
  ASSUME Shape, NEW e \in Expenses, NEW x \in RealExpense \cup {NoExpense("DELETED")},
         expense' = [expense EXCEPT ![e] = x]
  PROVE  /\ expense' \in [Expenses -> ExpenseRow] /\ RowsOK'
         /\ expense'[e] = x /\ \A f \in Expenses \ {e} : expense'[f] = expense[f]
<1>1. x \in ExpenseRow
  BY RealRows, Constants DEF Missing
<1>2. x \notin RealExpense => x.status \in Missing
  BY DEF NoExpense, Missing
<1>3. QED
  BY <1>1, <1>2 DEF Shape, TypeOK, RowsOK, Recorded

LEMMA OneEntry ==
  ASSUME Shape, NEW k \in Entries, NEW x \in EntryRow, entry' = [entry EXCEPT ![k] = x]
  PROVE  /\ entry' \in [Entries -> EntryRow]
         /\ entry'[k] = x /\ \A j \in Entries \ {k} : entry'[j] = entry[j]
  BY DEF Shape, TypeOK

LEMMA OneSheet ==
  ASSUME Shape, NEW k \in Entries, NEW x \in [Slots -> Line], lines' = [lines EXCEPT ![k] = x]
  PROVE  /\ lines' \in [Entries -> [Slots -> Line]]
         /\ lines'[k] = x /\ \A j \in Entries \ {k} : lines'[j] = lines[j]
  BY DEF Shape, TypeOK

LEMMA EnteredLines == Entered \subseteq Line /\ NoLine \in Line
  BY BooksAssumption DEF Line

(* The entry of an expense has two lines, one the other's negative. *)
LEMMA SourceLinesTyped ==
  ASSUME NEW n \in Slots, NEW m \in Slots, n # m, NEW c \in Accounts, NEW t \in 1..MaxAmount
  PROVE  SourceLines(n, m, c, t) \in [Slots -> Line]
<1>1. [account |-> c, amount |-> t] \in Line /\ [account |-> Cash, amount |-> -t] \in Line
  BY BooksAssumption DEF Line, LineAmounts
<1>2. QED
  BY <1>1, Constants DEF SourceLines

LEMMA NoExpenseTouched ==
  ASSUME Shape, UNCHANGED expense
  PROVE  expense' \in [Expenses -> ExpenseRow] /\ RowsOK'
  BY DEF Shape, TypeOK, RowsOK, Recorded
-----------------------------------------------------------------------------
LEMMA ShapeKept == Shape /\ [Next]_vars => Shape'
<1> SUFFICES ASSUME Shape, [Next]_vars PROVE Shape'
  OBVIOUS
<1>j. \A r \in Requests : job[r] \in Job /\ JobOK(job[r])
  BY DEF Shape, TypeOK, JobsOK
<1>e. \A e \in Expenses : Recorded(e) => expense[e] \in RealExpense
  BY DEF Shape, RowsOK
<1>k. \A k \in Entries : entry[k] \in EntryRow /\ lines[k] \in [Slots -> Line]
  BY DEF Shape, TypeOK
<1>c. category \in Accounts \cup {None}
  BY DEF Shape, TypeOK
<1>1. CASE PointCategory
  BY <1>1, NoExpenseTouched DEF PointCategory, Shape, TypeOK, JobsOK
<1>2. ASSUME NEW e \in Expenses, RecordExpense(e) PROVE Shape'
  <2>1. PICK t \in 1..MaxAmount : expense' = [expense EXCEPT ![e] = [status |-> "PENDING", total |-> t]]
    BY <1>2 DEF RecordExpense
  <2>2. [status |-> "PENDING", total |-> t] \in RealExpense
    BY DEF RealExpense, ExpenseStatuses
  <2>3. QED
    BY <1>2, <2>1, <2>2, OneExpense DEF RecordExpense, Shape, TypeOK, JobsOK
<1>3. ASSUME NEW r \in Requests, NEW e \in Expenses, NEW op \in Ops, ReadExpense(r, e, op) PROVE Shape'
  <2> DEFINE j == [Idle EXCEPT !.op = op, !.phase = "read", !.id = e, !.row = expense[e],
                               !.account = category]
  <2>0. op \in Ops \cap OnExpense /\ expense[e] \in RealExpense
    BY <1>3, <1>e DEF ReadExpense, OnExpense
  <2>1. j \in Job /\ JobOK(j)
    <3>1. PICK x \in RealExpense, c \in Accounts \cup {None} : x = expense[e] /\ c = category
      BY <2>0, <1>c
    <3>2. j = [Idle EXCEPT !.op = op, !.phase = "read", !.id = e, !.row = x, !.account = c]
      BY <3>1
    <3> HIDE DEF j
    <3>3. QED
      BY <2>0, <3>2, StartedOnExpense, ZenonT(30)
  <2>2. job' = [job EXCEPT ![r] = j]
    BY <1>3 DEF ReadExpense
  <2> HIDE DEF j
  <2>3. QED
    BY <1>3, <2>1, <2>2, OneJob, NoExpenseTouched DEF ReadExpense, Shape, TypeOK
<1>4. ASSUME NEW r \in Requests, Approve(r) \/ Reject(r) PROVE Shape'
  <2>1. PICK op \in {"approve", "reject"}, s \in {"APPROVED", "REJECTED"} : ChangeStatus(r, op, s)
    BY <1>4 DEF Approve, Reject
  <2>2. job[r].id \in Expenses /\ expense[job[r].id] \in RealExpense
    BY <2>1, <1>e, ReadJob DEF ChangeStatus, OnExpense
  <2>3. [expense[job[r].id] EXCEPT !.status = s] \in RealExpense
    BY <2>2, RowFields DEF ExpenseStatuses
  <2>4. expense' = [expense EXCEPT ![job[r].id] = [expense[job[r].id] EXCEPT !.status = s]]
    BY <2>1 DEF ChangeStatus
  <2>5. QED
    BY <2>1, <2>2, <2>3, <2>4, OneExpense, Ended DEF ChangeStatus, Shape, TypeOK
<1>5. ASSUME NEW r \in Requests, Pay(r) PROVE Shape'
  <2> DEFINE e == job[r].id
  <2>1. e \in Expenses /\ expense[e] \in RealExpense /\ job[r].row \in RealExpense
        /\ job[r].account \in Accounts
    BY <1>5, <1>e, ReadJob DEF Pay, OnExpense
  <2>2. [expense[e] EXCEPT !.status = "PAID"] \in RealExpense /\ job[r].row.total \in 1..MaxAmount
    BY <2>1, RowFields DEF ExpenseStatuses
  <2>3. PICK k \in Entries, n \in Slots, m \in Slots :
          /\ n # m
          /\ entry' = [entry EXCEPT ![k] = [status |-> "POSTED", source |-> e]]
          /\ lines' = [lines EXCEPT ![k] = SourceLines(n, m, job[r].account, job[r].row.total)]
    BY <1>5 DEF Pay
  <2>4. [status |-> "POSTED", source |-> e] \in EntryRow
    BY <2>1 DEF EntryRow, EntryStatuses
  <2>5. expense' = [expense EXCEPT ![e] = [expense[e] EXCEPT !.status = "PAID"]]
    BY <1>5 DEF Pay
  <2> HIDE DEF e
  <2>6. lines' \in [Entries -> [Slots -> Line]]
    BY <2>1, <2>2, <2>3, SourceLinesTyped, OneSheet
  <2>7. entry' \in [Entries -> EntryRow]
    BY <2>3, <2>4, OneEntry
  <2>8. QED
    BY <1>5, <2>1, <2>2, <2>5, <2>6, <2>7, OneExpense, Ended, ZenonT(30) DEF Pay, Shape, TypeOK
<1>6. ASSUME NEW r \in Requests, NEW e \in Expenses, NEW op \in Ops, CheckUnpaid(r, e, op) PROVE Shape'
  <2> DEFINE j == [Idle EXCEPT !.op = op, !.phase = "checked", !.id = e]
  <2>1. j \in Job /\ JobOK(j)
    BY <1>6, StartedWithCheck DEF CheckUnpaid
  <2>2. job' = [job EXCEPT ![r] = j]
    BY <1>6 DEF CheckUnpaid
  <2> HIDE DEF j
  <2>3. QED
    BY <1>6, <2>1, <2>2, OneJob, NoExpenseTouched DEF CheckUnpaid, Shape, TypeOK
<1>7. ASSUME NEW r \in Requests, ReadAgain(r) PROVE Shape'
  <2> DEFINE j == [job[r] EXCEPT !.phase = "read", !.row = expense[job[r].id]]
  <2>1. job[r].id \in Expenses
    BY <1>7, <1>j DEF ReadAgain, JobOK, OnEntry, OnExpense, OnLine, Idle
  <2>2. j \in Job /\ JobOK(j)
    BY <1>7, <1>j, <1>e, <2>1, ReadIt DEF ReadAgain
  <2>3. job' = [job EXCEPT ![r] = j]
    BY <1>7 DEF ReadAgain
  <2> HIDE DEF j
  <2>4. QED
    BY <1>7, <2>2, <2>3, OneJob, NoExpenseTouched DEF ReadAgain, Shape, TypeOK
<1>8. ASSUME NEW r \in Requests, UpdateExpense(r) PROVE Shape'
  <2>1. job[r].id \in Expenses /\ job[r].row \in RealExpense
    BY <1>8, ReadJob DEF UpdateExpense, OnExpense
  <2>2. PICK t \in 1..MaxAmount : expense' = [expense EXCEPT ![job[r].id] = [job[r].row EXCEPT !.total = t]]
    BY <1>8 DEF UpdateExpense
  <2>3. [job[r].row EXCEPT !.total = t] \in RealExpense
    BY <2>1, RowFields
  <2>4. QED
    BY <1>8, <2>1, <2>2, <2>3, OneExpense, Ended DEF UpdateExpense, Shape, TypeOK
<1>9. ASSUME NEW r \in Requests, DestroyExpense(r) PROVE Shape'
  <2>1. job[r].id \in Expenses
    BY <1>9, ReadJob DEF DestroyExpense, OnExpense
  <2>2. QED
    BY <1>9, <2>1, OneExpense, Ended DEF DestroyExpense, Shape, TypeOK
<1>10. ASSUME NEW k \in Entries, DraftEntry(k) PROVE Shape'
  <2>1. [status |-> "DRAFT", source |-> None] \in EntryRow
    BY DEF EntryRow, EntryStatuses
  <2>2. QED
    BY <1>10, <2>1, OneEntry, NoExpenseTouched DEF DraftEntry, Shape, TypeOK, JobsOK
<1>11. ASSUME NEW r \in Requests, NEW k \in Entries, NEW op \in Ops, ReadEntry(r, k, op) PROVE Shape'
  <2> DEFINE j == [Idle EXCEPT !.op = op, !.phase = "read", !.id = k, !.row = entry[k]]
  <2>1. j \in Job /\ JobOK(j)
    BY <1>11, <1>k, StartedOnEntry DEF ReadEntry
  <2>2. job' = [job EXCEPT ![r] = j]
    BY <1>11 DEF ReadEntry
  <2> HIDE DEF j
  <2>3. QED
    BY <1>11, <2>1, <2>2, OneJob, NoExpenseTouched DEF ReadEntry, Shape, TypeOK
<1>12. ASSUME NEW r \in Requests, EditEntry(r) PROVE Shape'
  <2>1. job[r].id \in Entries /\ job[r].row \in EntryRow
    BY <1>12, ReadJob DEF EditEntry, OnEntry
  <2>2. QED
    BY <1>12, <2>1, OneEntry, Ended, NoExpenseTouched DEF EditEntry, Shape, TypeOK
<1>13. ASSUME NEW r \in Requests, DeleteEntry(r) PROVE Shape'
  <2>1. job[r].id \in Entries /\ NoEntry("DELETED") \in EntryRow /\ NoLines \in [Slots -> Line]
    BY <1>13, ReadJob, Constants DEF DeleteEntry, OnEntry, Missing
  <2>2. QED
    BY <1>13, <2>1, OneEntry, OneSheet, Ended, NoExpenseTouched DEF DeleteEntry, Shape, TypeOK
<1>14. ASSUME NEW r \in Requests, CheckBalance(r) PROVE Shape'
  <2> DEFINE j == [job[r] EXCEPT !.phase = "balanced"]
  <2>1. j \in Job /\ JobOK(j)
    BY <1>14, <1>j, FoundBalanced DEF CheckBalance, HasRead
  <2>2. job' = [job EXCEPT ![r] = j]
    BY <1>14 DEF CheckBalance
  <2> HIDE DEF j
  <2>3. QED
    BY <1>14, <2>1, <2>2, OneJob, NoExpenseTouched DEF CheckBalance, Shape, TypeOK
<1>15. ASSUME NEW r \in Requests, PostEntry(r) \/ VoidEntry(r) PROVE Shape'
  <2>1. job[r].id \in Entries
    BY <1>15, <1>j, ReadJob DEF PostEntry, VoidEntry, JobOK, OnEntry, OnExpense, OnLine, Idle
  <2>2. PICK s \in EntryStatuses : entry' = [entry EXCEPT ![job[r].id] = [entry[job[r].id] EXCEPT !.status = s]]
    BY <1>15 DEF PostEntry, VoidEntry, EntryStatuses
  <2>3. [entry[job[r].id] EXCEPT !.status = s] \in EntryRow
    BY <1>k, <2>1, RowFields
  <2>4. QED
    BY <1>15, <2>1, <2>2, <2>3, OneEntry, Ended, NoExpenseTouched DEF PostEntry, VoidEntry, Shape, TypeOK
<1>16. ASSUME NEW r \in Requests, AddLine(r) PROVE Shape'
  <2>1. job[r].id \in Entries
    BY <1>16, ReadJob DEF AddLine, OnEntry
  <2>2. lines' \in [Entries -> [Slots -> Line]]
    BY <1>16, <2>1, EnteredLines DEF AddLine, Shape, TypeOK
  <2>3. QED
    BY <1>16, <2>2, Ended, NoExpenseTouched DEF AddLine, Shape, TypeOK
<1>17. ASSUME NEW r \in Requests, NEW k \in Entries, NEW n \in Slots, NEW op \in Ops,
              ReadLine(r, k, n, op)
       PROVE  Shape'
  <2> DEFINE j == [Idle EXCEPT !.op = op, !.phase = "read", !.id = k, !.slot = n, !.row = entry[k]]
  <2>0. op \in Ops \cap OnLine /\ entry[k] \in EntryRow
    BY <1>17, <1>k DEF ReadLine, OnLine
  <2>1. j \in Job /\ JobOK(j)
    BY <2>0, StartedOnLine, ZenonT(30)
  <2>2. job' = [job EXCEPT ![r] = j]
    BY <1>17 DEF ReadLine
  <2> HIDE DEF j
  <2>3. QED
    BY <1>17, <2>1, <2>2, OneJob, NoExpenseTouched DEF ReadLine, Shape, TypeOK
<1>18. ASSUME NEW r \in Requests, AmendLine(r) \/ DropLine(r) PROVE Shape'
  <2>1. job[r].id \in Entries /\ job[r].slot \in Slots
    BY <1>18, ReadJob DEF AmendLine, DropLine, OnEntry, OnLine
  <2>2. PICK line \in Line : lines' = [lines EXCEPT ![job[r].id][job[r].slot] = line]
    <3>1. CASE AmendLine(r)
      BY <3>1, EnteredLines DEF AmendLine
    <3>2. CASE DropLine(r)
      BY <3>2, EnteredLines DEF DropLine
    <3>3. QED
      BY <1>18, <3>1, <3>2
  <2>4. [lines[job[r].id] EXCEPT ![job[r].slot] = line] \in [Slots -> Line]
    BY <1>k, <2>1
  <2>5. lines' \in [Entries -> [Slots -> Line]]
    BY <2>1, <2>2, <2>4, OneSheet
  <2>3. QED
    BY <1>18, <2>5, Ended, NoExpenseTouched DEF AmendLine, DropLine, Shape, TypeOK
<1>19. ASSUME NEW r \in Requests, MoveLine(r) PROVE Shape'
  <2>1. job[r].id \in Entries /\ job[r].slot \in Slots
    BY <1>19, ReadJob DEF MoveLine, OnEntry, OnLine
  <2>2. PICK j \in Entries \ {job[r].id}, m \in Slots :
          lines' = [lines EXCEPT ![job[r].id][job[r].slot] = NoLine,
                                 ![j][m] = lines[job[r].id][job[r].slot]]
    BY <1>19 DEF MoveLine
  <2>3. /\ [lines[job[r].id] EXCEPT ![job[r].slot] = NoLine] \in [Slots -> Line]
        /\ [lines[j] EXCEPT ![m] = lines[job[r].id][job[r].slot]] \in [Slots -> Line]
    BY <1>k, <2>1, EnteredLines
  <2>4. lines' = [lines EXCEPT ![job[r].id] = [lines[job[r].id] EXCEPT ![job[r].slot] = NoLine],
                               ![j] = [lines[j] EXCEPT ![m] = lines[job[r].id][job[r].slot]]]
    BY <2>1, <2>2 DEF Shape, TypeOK
  <2>5. lines' \in [Entries -> [Slots -> Line]]
    BY <2>1, <2>3, <2>4 DEF Shape, TypeOK
  <2>6. QED
    BY <1>19, <2>5, Ended, NoExpenseTouched DEF MoveLine, Shape, TypeOK
<1>20. ASSUME NEW r \in Requests, Abandon(r) PROVE Shape'
  BY <1>20, Ended, NoExpenseTouched DEF Abandon, Shape, TypeOK
<1>21. CASE UNCHANGED vars
  BY <1>21 DEF vars, Shape, TypeOK, JobsOK, RowsOK, Recorded
<1>22. QED
  BY <1>1, <1>2, <1>3, <1>4, <1>5, <1>6, <1>7, <1>8, <1>9, <1>10, <1>11, <1>12, <1>13, <1>14,
     <1>15, <1>16, <1>17, <1>18, <1>19, <1>20, <1>21
  DEF Next, Request, ExpenseStep, EntryStep
-----------------------------------------------------------------------------
AloneOK == \A r, s \in Requests : r # s /\ job[r].op \in Alone => job[s] = Idle

(* What a request that runs alone knows, and what a payment knows.         *)
KnowsAlone(r) ==
  job[r].op \in Alone =>
    /\ job[r].op \in OnExpense /\ job[r].phase = "read" => job[r].row = expense[job[r].id]
    /\ job[r].op \in OnEntry => job[r].row = entry[job[r].id]
    /\ job[r].op \in {"update", "destroy"} => expense[job[r].id].status # "PAID"
    /\ job[r].phase = "balanced" => job[r].row.status = "DRAFT" /\ Postable(job[r].id)
KnowsTotal(r) ==
  job[r].op = "pay" =>
    Recorded(job[r].id) /\ job[r].row.total = expense[job[r].id].total
KnowledgeOK == \A r \in Requests : KnowsAlone(r) /\ KnowsTotal(r)

SourcesOK == \A k \in Entries : entry[k].source # None => entry[k].status \in {"POSTED", "VOIDED"}
OneEach == \A e \in Expenses : \A j, k \in Live(e) : j = k
EachBalances ==
  \A k \in Entries : entry[k].status = "POSTED" => Debit(k) = Credit(k) /\ lines[k] # NoLines
AmountsOK ==
  \A k \in Entries :
    entry[k].status = "POSTED" /\ entry[k].source # None => Debit(k) \in 1..MaxAmount
RowsAgree == SourcesOK /\ OneEach /\ EachBalances /\ AmountsOK /\ PaidIsBooked

IInv == Shape /\ AloneOK /\ KnowledgeOK /\ RowsAgree
-----------------------------------------------------------------------------
LEMMA NotAlone == "idle" \notin Alone /\ "idle" \notin Ops
  BY BooksAssumption DEF AllOps, ExpenseOps, EntryOps, LineOps

(* Sums over the lines of an entry. *)
LEMMA SameLines ==
  ASSUME NEW k \in Entries, lines'[k] = lines[k]
  PROVE  Debit(k)' = Debit(k) /\ Credit(k)' = Credit(k)
  BY DEF Debit, Credit

LEMMA SourceSums ==
  ASSUME NEW k \in Entries, NEW n \in Slots, NEW m \in Slots, n # m, NEW c, NEW t \in 1..MaxAmount,
         lines'[k] = SourceLines(n, m, c, t)
  PROVE  Debit(k)' = t /\ Credit(k)' = t /\ lines'[k] # NoLines
<1> DEFINE f == [i \in Slots |-> Positive(lines'[k][i].amount)]
           g == [i \in Slots |-> Positive(-lines'[k][i].amount)]
<1>1. /\ lines'[k][n].amount = t /\ lines'[k][m].amount = -t
      /\ \A i \in Slots \ {n, m} : lines'[k][i].amount = 0
  BY DEF SourceLines, NoLines, NoLine
<1>2. t \in Nat /\ t > 0
  BY BooksAssumption
<1>3. f \in [Slots -> Nat] /\ f[n] = t /\ \A i \in Slots \ {n} : f[i] = 0
  BY <1>1, <1>2 DEF Positive
<1>4. g \in [Slots -> Nat] /\ g[m] = t /\ \A i \in Slots \ {m} : g[i] = 0
  BY <1>1, <1>2 DEF Positive
<1>5. SumOf(f) = t /\ SumOf(g) = t
  <2> HIDE DEF f, g
  <2>1. QED
    BY <1>3, <1>4, SumOfOneTerm, BooksAssumption
<1>6. lines'[k] # NoLines
  BY <1>1, <1>2 DEF NoLines, NoLine
<1>7. QED
  BY <1>5, <1>6 DEF Debit, Credit
-----------------------------------------------------------------------------
(* What steps do to the rows.  Quiet: no posted entry and no entry of an   *)
(* expense is touched.  Unpaid: one expense changes that is not paid.      *)
Quiet ==
  /\ UNCHANGED expense
  /\ \A k \in Entries :
       \/ entry'[k] = entry[k] /\ (lines'[k] = lines[k] \/ entry[k].status \in {"DRAFT", "VOIDED"})
       \/ /\ entry[k].source = None /\ entry[k].status # "POSTED"
          /\ entry'[k].source = None /\ entry'[k].status # "POSTED"
Unpaid(e) ==
  /\ UNCHANGED <<entry, lines>>
  /\ expense[e].status # "PAID" /\ expense'[e].status # "PAID"
  /\ \A f \in Expenses \ {e} : expense'[f] = expense[f]
Paid(k, e) ==
  /\ Unbooked(e) /\ entry[k].status = "ABSENT"
  /\ entry'[k].status = "POSTED" /\ entry'[k].source = e
  /\ \A j \in Entries \ {k} : entry'[j] = entry[j] /\ lines'[j] = lines[j]
  /\ Debit(k)' \in 1..MaxAmount /\ Credit(k)' = Debit(k)' /\ lines'[k] # NoLines
  /\ expense'[e].status = "PAID" /\ expense'[e].total = Debit(k)'
  /\ \A f \in Expenses \ {e} : expense'[f] = expense[f]
Posted(k) ==
  /\ UNCHANGED <<expense, lines>>
  /\ entry[k].status = "DRAFT" /\ Postable(k)
  /\ entry'[k].status = "POSTED" /\ entry'[k].source = entry[k].source
  /\ \A j \in Entries \ {k} : entry'[j] = entry[j]
Voided(k) ==
  /\ UNCHANGED <<expense, lines>>
  /\ Exists(k) /\ entry'[k].status = "VOIDED" /\ entry'[k].source = entry[k].source
  /\ \A j \in Entries \ {k} : entry'[j] = entry[j]

(* Whoever decides on a copy has the row as it is. *)
LEMMA Current ==
  ASSUME Protected, IInv, NEW r \in Requests, job[r].op \notin FreeOps, job[r].op # "idle"
  PROVE  /\ job[r].op \in Alone
         /\ job[r].op \in OnExpense /\ job[r].phase = "read" => job[r].row = expense[job[r].id]
         /\ job[r].op \in OnEntry => job[r].row = entry[job[r].id]
         /\ job[r].op \in {"update", "destroy"} => expense[job[r].id].status # "PAID"
         /\ job[r].phase = "balanced" => job[r].row.status = "DRAFT" /\ Postable(job[r].id)
<1>1. job[r].op \in Alone
  BY DEF Protected, IInv, Shape, JobsOK, JobOK
<1>2. KnowsAlone(r)
  BY DEF IInv, KnowledgeOK
<1>3. QED
  BY <1>1, <1>2 DEF KnowsAlone

LEMMA NothingTouched ==
  ASSUME UNCHANGED <<expense, entry, lines>>
  PROVE  Quiet
  BY DEF Quiet

(* A step that touches one sheet of lines or one header of a draft.        *)
LEMMA SheetTouched ==
  ASSUME Shape, NEW k \in Entries, entry[k].status \in {"DRAFT", "VOIDED"},
         UNCHANGED <<expense, entry>>, \A j \in Entries \ {k} : lines'[j] = lines[j]
  PROVE  Quiet
  BY DEF Quiet

LEMMA StepKinds ==
  ASSUME Protected, IInv, Next
  PROVE  \/ Quiet
         \/ \E e \in Expenses : Unpaid(e)
         \/ \E k \in Entries, e \in Expenses : Paid(k, e)
         \/ \E k \in Entries : Posted(k) \/ Voided(k)
<1>s. Shape /\ RowsAgree /\ SourcesOK
  BY DEF IInv, RowsAgree
<1>e. \A e \in Expenses : Recorded(e) => expense[e] \in RealExpense
  BY <1>s DEF Shape, RowsOK
<1>k. /\ \A k \in Entries : entry[k] \in EntryRow /\ lines[k] \in [Slots -> Line]
      /\ lines = [k \in Entries |-> lines[k]] /\ entry = [k \in Entries |-> entry[k]]
  BY <1>s DEF Shape, TypeOK
<1>1. CASE PointCategory
  BY <1>1, NothingTouched DEF PointCategory
<1>2. ASSUME NEW e \in Expenses, RecordExpense(e) PROVE Unpaid(e)
  <2>1. PICK t \in 1..MaxAmount : expense' = [expense EXCEPT ![e] = [status |-> "PENDING", total |-> t]]
    BY <1>2 DEF RecordExpense
  <2>2. QED
    BY <1>2, <1>s, <2>1 DEF RecordExpense, Unpaid, Shape, TypeOK
<1>3. ASSUME NEW r \in Requests, Request(r) \/ ReadAgain(r) \/ CheckBalance(r) \/ Abandon(r)
      PROVE  Quiet
  BY <1>3, NothingTouched
  DEF Request, ReadExpense, CheckUnpaid, ReadEntry, ReadLine, ReadAgain, CheckBalance, Abandon
<1>4. ASSUME NEW r \in Requests, Approve(r) \/ Reject(r) PROVE \E e \in Expenses : Unpaid(e)
  <2>1. PICK op \in {"approve", "reject"}, s \in {"APPROVED", "REJECTED"} : ChangeStatus(r, op, s)
    BY <1>4 DEF Approve, Reject
  <2>2. job[r].id \in Expenses /\ expense[job[r].id] \in RealExpense
    BY <1>s, <1>e, <2>1, ReadJob DEF ChangeStatus, OnExpense
  <2>3. job[r].row = expense[job[r].id]
    BY <2>1, Current DEF ChangeStatus, HasRead, OnExpense, FreeOps
  <2>4. expense[job[r].id].status # "PAID"
    BY <2>1, <2>3 DEF ChangeStatus, AllowedTransitions
  <2>5. [expense[job[r].id] EXCEPT !.status = s].status = s
    BY <2>2 DEF RealExpense
  <2>6. QED
    BY <1>s, <2>1, <2>2, <2>4, <2>5 DEF ChangeStatus, Unpaid, Shape, TypeOK
<1>5. ASSUME NEW r \in Requests, UpdateExpense(r) PROVE \E e \in Expenses : Unpaid(e)
  <2>1. job[r].id \in Expenses /\ job[r].row \in RealExpense
    BY <1>s, <1>5, ReadJob DEF UpdateExpense, OnExpense
  <2>2. job[r].row = expense[job[r].id] /\ expense[job[r].id].status # "PAID"
    BY <1>5, Current DEF UpdateExpense, HasRead, OnExpense, FreeOps
  <2>3. PICK t \in 1..MaxAmount : expense' = [expense EXCEPT ![job[r].id] = [job[r].row EXCEPT !.total = t]]
    BY <1>5 DEF UpdateExpense
  <2>4. [job[r].row EXCEPT !.total = t].status = job[r].row.status
    BY <2>1 DEF RealExpense
  <2>5. QED
    BY <1>s, <1>5, <2>1, <2>2, <2>3, <2>4 DEF UpdateExpense, Unpaid, Shape, TypeOK
<1>6. ASSUME NEW r \in Requests, DestroyExpense(r) PROVE \E e \in Expenses : Unpaid(e)
  <2>1. job[r].id \in Expenses
    BY <1>s, <1>6, ReadJob DEF DestroyExpense, OnExpense
  <2>2. expense[job[r].id].status # "PAID"
    BY <1>6, Current DEF DestroyExpense, HasRead, OnExpense, FreeOps
  <2>3. QED
    BY <1>s, <1>6, <2>1, <2>2 DEF DestroyExpense, Unpaid, NoExpense, Shape, TypeOK
<1>7. ASSUME NEW r \in Requests, Pay(r) PROVE \E k \in Entries, e \in Expenses : Paid(k, e)
  <2> DEFINE e == job[r].id
             t == job[r].row.total
  <2>1. e \in Expenses /\ expense[e] \in RealExpense /\ job[r].row \in RealExpense
    BY <1>s, <1>7, <1>e, ReadJob DEF Pay, OnExpense
  <2>2. t \in 1..MaxAmount /\ t = expense[e].total
    BY <1>7, <2>1, RowFields DEF Pay, HasRead, IInv, KnowledgeOK, KnowsTotal
  <2>3. PICK k \in Entries, n \in Slots, m \in Slots :
          /\ entry[k].status = "ABSENT" /\ n # m
          /\ entry' = [entry EXCEPT ![k] = [status |-> "POSTED", source |-> e]]
          /\ lines' = [lines EXCEPT ![k] = SourceLines(n, m, job[r].account, t)]
    BY <1>7 DEF Pay
  <2>4. expense' = [expense EXCEPT ![e] = [expense[e] EXCEPT !.status = "PAID"]] /\ Unbooked(e)
    BY <1>7 DEF Pay
  <2>5. [expense[e] EXCEPT !.status = "PAID"].status = "PAID"
        /\ [expense[e] EXCEPT !.status = "PAID"].total = expense[e].total
    BY <2>1 DEF RealExpense
  <2> HIDE DEF e, t
  <2>6. lines'[k] = SourceLines(n, m, job[r].account, t)
    BY <1>k, <2>3
  <2>7. Debit(k)' = t /\ Credit(k)' = t /\ lines'[k] # NoLines
    BY <2>2, <2>3, <2>6, SourceSums
  <2>8. /\ expense'[e].status = "PAID" /\ expense'[e].total = t
        /\ \A f \in Expenses \ {e} : expense'[f] = expense[f]
    BY <1>s, <2>1, <2>2, <2>4, <2>5 DEF Shape, TypeOK
  <2>9. /\ entry'[k].status = "POSTED" /\ entry'[k].source = e
        /\ \A j \in Entries \ {k} : entry'[j] = entry[j] /\ lines'[j] = lines[j]
    BY <1>k, <2>3
  <2>10. QED
    BY <2>1, <2>2, <2>3, <2>4, <2>7, <2>8, <2>9 DEF Paid
<1>8. ASSUME NEW k \in Entries, DraftEntry(k) PROVE Quiet
  <2>1. entry[k].source = None
    BY <1>8, <1>s DEF DraftEntry, SourcesOK
  <2>2. QED
    BY <1>8, <1>k, <2>1 DEF DraftEntry, Quiet
<1>9. ASSUME NEW r \in Requests, EditEntry(r) PROVE Quiet
  <2>1. job[r].id \in Entries /\ job[r].row = entry[job[r].id]
    BY <1>s, <1>9, ReadJob, Current DEF EditEntry, HasRead, OnEntry, FreeOps
  <2>2. entry' = entry
    BY <1>9, <1>k, <2>1 DEF EditEntry
  <2>3. QED
    BY <1>9, <2>2, NothingTouched DEF EditEntry
<1>10. ASSUME NEW r \in Requests, DeleteEntry(r) PROVE Quiet
  <2>1. job[r].id \in Entries /\ entry[job[r].id].status = "DRAFT"
    BY <1>s, <1>10, ReadJob, Current DEF DeleteEntry, HasRead, RequireDraft, OnEntry, FreeOps
  <2>2. entry[job[r].id].source = None
    BY <1>s, <2>1 DEF SourcesOK
  <2>3. QED
    BY <1>10, <1>k, <2>1, <2>2 DEF DeleteEntry, Quiet, NoEntry
<1>11. ASSUME NEW r \in Requests, PostEntry(r) PROVE \E k \in Entries : Posted(k)
  <2>1. job[r].op = "post" /\ job[r].id \in Entries
    BY <1>11, <1>s DEF PostEntry, Shape, JobsOK, JobOK, OnExpense, OnEntry, OnLine, Idle
  <2>2. entry[job[r].id].status = "DRAFT" /\ Postable(job[r].id)
    BY <1>11, <2>1, Current DEF PostEntry, OnEntry, FreeOps
  <2>3. /\ [entry[job[r].id] EXCEPT !.status = "POSTED"].status = "POSTED"
        /\ [entry[job[r].id] EXCEPT !.status = "POSTED"].source = entry[job[r].id].source
    BY <1>k, <2>1 DEF EntryRow
  <2>4. QED
    BY <1>11, <1>k, <2>1, <2>2, <2>3 DEF PostEntry, Posted
<1>12. ASSUME NEW r \in Requests, VoidEntry(r) PROVE \E k \in Entries : Voided(k)
  <2>1. job[r].id \in Entries
    BY <1>12, <1>s, ReadJob DEF VoidEntry, OnEntry
  <2>2. /\ [entry[job[r].id] EXCEPT !.status = "VOIDED"].status = "VOIDED"
        /\ [entry[job[r].id] EXCEPT !.status = "VOIDED"].source = entry[job[r].id].source
    BY <1>k, <2>1 DEF EntryRow
  <2>3. QED
    BY <1>12, <1>k, <2>1, <2>2 DEF VoidEntry, Voided
<1>13. ASSUME NEW r \in Requests, AddLine(r) \/ AmendLine(r) \/ DropLine(r) PROVE Quiet
  <2>1. PICK op \in {"add", "amend", "drop"} : HasRead(r, op) /\ RequireDraft(job[r].row)
    BY <1>13 DEF AddLine, AmendLine, DropLine
  <2>2. job[r].id \in Entries /\ entry[job[r].id].status = "DRAFT"
    BY <1>s, <2>1, ReadJob, Current, SMTT(30) DEF HasRead, RequireDraft, OnEntry, OnLine, FreeOps
  <2>3. \A j \in Entries \ {job[r].id} : lines'[j] = lines[j]
    BY <1>13, <1>k, <2>2 DEF AddLine, AmendLine, DropLine
  <2>4. QED
    BY <1>s, <1>13, <2>2, <2>3, SheetTouched DEF AddLine, AmendLine, DropLine
<1>14. ASSUME NEW r \in Requests, MoveLine(r) PROVE Quiet
  <2>1. job[r].id \in Entries /\ entry[job[r].id].status = "DRAFT"
    BY <1>s, <1>14, ReadJob, Current, SMTT(30) DEF MoveLine, HasRead, RequireDraft, OnEntry, OnLine, FreeOps
  <2>2. PICK j \in Entries, m \in Slots :
          /\ entry[j].status \in MoveInto
          /\ lines' = [lines EXCEPT ![job[r].id][job[r].slot] = NoLine,
                                    ![j][m] = lines[job[r].id][job[r].slot]]
    BY <1>14 DEF MoveLine
  <2>3. entry[j].status \in {"DRAFT", "VOIDED"}
    BY <2>2, BooksAssumption DEF Protected
  <2>4. \A k \in Entries \ {job[r].id, j} : lines'[k] = lines[k]
    BY <1>k, <2>1, <2>2
  <2>5. QED
    BY <1>14, <2>1, <2>3, <2>4 DEF MoveLine, Quiet
<1>15. QED
  BY <1>1, <1>2, <1>3, <1>4, <1>5, <1>6, <1>7, <1>8, <1>9, <1>10, <1>11, <1>12, <1>13, <1>14
  DEF Next, ExpenseStep, EntryStep
-----------------------------------------------------------------------------
(* The rows agree after every step. *)

LEMMA QuietAgrees == RowsAgree /\ Quiet => RowsAgree'
<1> SUFFICES ASSUME RowsAgree, Quiet PROVE RowsAgree'
  OBVIOUS
<1> USE DEF RowsAgree
<1>1. /\ \A k \in Entries : entry[k].source # None \/ entry[k].status = "POSTED" => entry'[k] = entry[k]
      /\ \A k \in Entries : entry'[k].source # None \/ entry'[k].status = "POSTED" => entry'[k] = entry[k]
      /\ \A k \in Entries : entry[k].status = "POSTED" => lines'[k] = lines[k]
  BY DEF Quiet
<1>2. \A k \in Entries :
        entry[k].status = "POSTED" =>
          Debit(k)' = Debit(k) /\ Credit(k)' = Credit(k) /\ lines'[k] = lines[k]
  BY <1>1, SameLines
<1>3. \A e \in Expenses : EntriesOf(e)' = EntriesOf(e) /\ Live(e)' = Live(e)
  BY <1>1, BooksAssumption DEF EntriesOf, Live
<1>4. SourcesOK'
  BY <1>1 DEF SourcesOK
<1>5. OneEach'
  BY <1>3 DEF OneEach
<1>6. EachBalances' /\ AmountsOK'
  BY <1>1, <1>2 DEF EachBalances, AmountsOK
<1>7. PaidIsBooked'
  <2>1. ASSUME NEW e \in Expenses, Recorded(e)', expense'[e].status = "PAID"
        PROVE  \E k \in EntriesOf(e)' : entry'[k].status = "VOIDED" \/ Debit(k)' = expense'[e].total
    <3>1. expense' = expense /\ Recorded(e) /\ expense[e].status = "PAID"
      BY <2>1 DEF Quiet, Recorded
    <3>2. PICK k \in EntriesOf(e) : entry[k].status = "VOIDED" \/ Debit(k) = expense[e].total
      BY <3>1 DEF PaidIsBooked
    <3>3. k \in Entries /\ entry[k].source # None /\ entry'[k] = entry[k]
      BY <1>1, <3>2, BooksAssumption DEF EntriesOf
    <3>4. entry[k].status \in {"POSTED", "VOIDED"}
      BY <3>3 DEF SourcesOK
    <3>5. QED
      BY <1>2, <1>3, <3>1, <3>2, <3>3, <3>4
  <2>2. ASSUME NEW e \in Expenses, Live(e)' # {} PROVE expense'[e].status = "PAID"
    BY <1>3, <2>2 DEF Quiet, PaidIsBooked
  <2>3. QED
    BY <2>1, <2>2 DEF PaidIsBooked
<1>8. QED
  BY <1>4, <1>5, <1>6, <1>7

LEMMA UnpaidAgrees == ASSUME RowsAgree, NEW e \in Expenses, Unpaid(e) PROVE RowsAgree'
<1>1. entry' = entry /\ lines' = lines
  BY DEF Unpaid
<1>2. /\ \A k \in Entries : Debit(k)' = Debit(k) /\ Credit(k)' = Credit(k)
      /\ \A f \in Expenses : EntriesOf(f)' = EntriesOf(f) /\ Live(f)' = Live(f)
  BY <1>1, SameLines DEF EntriesOf, Live
<1>3. SourcesOK' /\ OneEach' /\ EachBalances' /\ AmountsOK'
  BY <1>1, <1>2 DEF RowsAgree, SourcesOK, OneEach, EachBalances, AmountsOK
<1>4. PaidIsBooked'
  <2>1. ASSUME NEW f \in Expenses, Recorded(f)', expense'[f].status = "PAID"
        PROVE  \E k \in EntriesOf(f)' : entry'[k].status = "VOIDED" \/ Debit(k)' = expense'[f].total
    <3>1. f # e /\ expense'[f] = expense[f] /\ Recorded(f)
      BY <2>1 DEF Unpaid, Recorded
    <3>2. PICK k \in EntriesOf(f) : entry[k].status = "VOIDED" \/ Debit(k) = expense[f].total
      BY <2>1, <3>1 DEF RowsAgree, PaidIsBooked
    <3>3. k \in Entries
      BY <3>2 DEF EntriesOf
    <3>4. QED
      BY <1>1, <1>2, <3>1, <3>2, <3>3
  <2>2. ASSUME NEW f \in Expenses, Live(f)' # {} PROVE expense'[f].status = "PAID"
    BY <1>2, <2>2 DEF Unpaid, RowsAgree, PaidIsBooked
  <2>3. QED
    BY <2>1, <2>2 DEF PaidIsBooked
<1>5. QED
  BY <1>3, <1>4 DEF RowsAgree

LEMMA PaidAgrees ==
  ASSUME RowsAgree, NEW k \in Entries, NEW e \in Expenses, Paid(k, e)
  PROVE  RowsAgree'
<1>1. /\ entry[k].source = None /\ entry'[k].status = "POSTED" /\ entry'[k].source = e
      /\ e # None /\ Live(e) = {}
  BY BooksAssumption DEF RowsAgree, SourcesOK, Paid, Unbooked
<1>2. \A j \in Entries \ {k} : /\ entry'[j] = entry[j] /\ lines'[j] = lines[j]
                              /\ Debit(j)' = Debit(j) /\ Credit(j)' = Credit(j)
  BY SameLines DEF Paid
<1>3. /\ EntriesOf(e)' = EntriesOf(e) \cup {k} /\ Live(e)' = {k}
      /\ \A f \in Expenses \ {e} : EntriesOf(f)' = EntriesOf(f) /\ Live(f)' = Live(f)
  BY <1>1, <1>2, BooksAssumption DEF EntriesOf, Live
<1>4. SourcesOK' /\ OneEach'
  BY <1>1, <1>2, <1>3 DEF RowsAgree, SourcesOK, OneEach
<1>5. EachBalances' /\ AmountsOK'
  BY <1>1, <1>2 DEF RowsAgree, EachBalances, AmountsOK, Paid
<1>6. PaidIsBooked'
  <2>1. ASSUME NEW f \in Expenses, Recorded(f)', expense'[f].status = "PAID"
        PROVE  \E j \in EntriesOf(f)' : entry'[j].status = "VOIDED" \/ Debit(j)' = expense'[f].total
    <3>1. CASE f = e
      BY <1>3, <3>1 DEF Paid
    <3>2. CASE f # e
      <4>1. expense'[f] = expense[f] /\ Recorded(f)
        BY <2>1, <3>2 DEF Paid, Recorded
      <4>2. PICK j \in EntriesOf(f) : entry[j].status = "VOIDED" \/ Debit(j) = expense[f].total
        BY <2>1, <4>1 DEF RowsAgree, PaidIsBooked
      <4>3. j \in Entries /\ j # k
        BY <1>1, <4>2, BooksAssumption DEF EntriesOf
      <4>4. QED
        BY <1>2, <1>3, <3>2, <4>1, <4>2, <4>3
    <3>3. QED
      BY <3>1, <3>2
  <2>2. ASSUME NEW f \in Expenses, Live(f)' # {} PROVE expense'[f].status = "PAID"
    BY <1>3, <2>2 DEF Paid, RowsAgree, PaidIsBooked
  <2>3. QED
    BY <2>1, <2>2 DEF PaidIsBooked
<1>7. QED
  BY <1>4, <1>5, <1>6 DEF RowsAgree

LEMMA PostedAgrees ==
  ASSUME RowsAgree, NEW k \in Entries, Posted(k)
  PROVE  RowsAgree'
<1>1. entry[k].source = None /\ entry'[k].source = None /\ entry'[k].status = "POSTED"
  BY DEF RowsAgree, SourcesOK, Posted
<1>2. /\ \A j \in Entries : lines'[j] = lines[j] /\ Debit(j)' = Debit(j) /\ Credit(j)' = Credit(j)
      /\ \A j \in Entries \ {k} : entry'[j] = entry[j]
  BY SameLines DEF Posted
<1>3. \A e \in Expenses : EntriesOf(e)' = EntriesOf(e) /\ Live(e)' = Live(e)
  BY <1>1, <1>2, BooksAssumption DEF EntriesOf, Live
<1>4. SourcesOK' /\ OneEach'
  BY <1>1, <1>2, <1>3 DEF RowsAgree, SourcesOK, OneEach
<1>5. EachBalances' /\ AmountsOK'
  BY <1>1, <1>2 DEF RowsAgree, EachBalances, AmountsOK, Posted, Postable
<1>6. PaidIsBooked'
  <2>1. ASSUME NEW e \in Expenses, Recorded(e)', expense'[e].status = "PAID"
        PROVE  \E j \in EntriesOf(e)' : entry'[j].status = "VOIDED" \/ Debit(j)' = expense'[e].total
    <3>1. expense' = expense /\ Recorded(e) /\ expense[e].status = "PAID"
      BY <2>1 DEF Posted, Recorded
    <3>2. PICK j \in EntriesOf(e) : entry[j].status = "VOIDED" \/ Debit(j) = expense[e].total
      BY <3>1 DEF RowsAgree, PaidIsBooked
    <3>3. j \in Entries /\ j # k
      BY <1>1, <3>2, BooksAssumption DEF EntriesOf
    <3>4. QED
      BY <1>2, <1>3, <3>1, <3>2, <3>3
  <2>2. ASSUME NEW e \in Expenses, Live(e)' # {} PROVE expense'[e].status = "PAID"
    BY <1>3, <2>2 DEF Posted, RowsAgree, PaidIsBooked
  <2>3. QED
    BY <2>1, <2>2 DEF PaidIsBooked
<1>7. QED
  BY <1>4, <1>5, <1>6 DEF RowsAgree

LEMMA VoidedAgrees ==
  ASSUME RowsAgree, NEW k \in Entries, Voided(k)
  PROVE  RowsAgree'
<1>1. entry'[k].source = entry[k].source /\ entry'[k].status = "VOIDED"
  BY DEF Voided
<1>2. /\ \A j \in Entries : lines'[j] = lines[j] /\ Debit(j)' = Debit(j) /\ Credit(j)' = Credit(j)
      /\ \A j \in Entries \ {k} : entry'[j] = entry[j]
  BY SameLines DEF Voided
<1>3. \A e \in Expenses : EntriesOf(e)' = EntriesOf(e) /\ Live(e)' = Live(e) \ {k}
  BY <1>1, <1>2 DEF EntriesOf, Live
<1>4. SourcesOK' /\ OneEach'
  BY <1>1, <1>2, <1>3 DEF RowsAgree, SourcesOK, OneEach
<1>5. EachBalances' /\ AmountsOK'
  BY <1>1, <1>2 DEF RowsAgree, EachBalances, AmountsOK
<1>6. PaidIsBooked'
  <2>1. ASSUME NEW e \in Expenses, Recorded(e)', expense'[e].status = "PAID"
        PROVE  \E j \in EntriesOf(e)' : entry'[j].status = "VOIDED" \/ Debit(j)' = expense'[e].total
    <3>1. expense' = expense /\ Recorded(e) /\ expense[e].status = "PAID"
      BY <2>1 DEF Voided, Recorded
    <3>2. PICK j \in EntriesOf(e) : entry[j].status = "VOIDED" \/ Debit(j) = expense[e].total
      BY <3>1 DEF RowsAgree, PaidIsBooked
    <3>3. j \in Entries
      BY <3>2 DEF EntriesOf
    <3>4. QED
      BY <1>1, <1>2, <1>3, <3>1, <3>2, <3>3
  <2>2. ASSUME NEW e \in Expenses, Live(e)' # {} PROVE expense'[e].status = "PAID"
    BY <1>3, <2>2 DEF Voided, RowsAgree, PaidIsBooked
  <2>3. QED
    BY <2>1, <2>2 DEF PaidIsBooked
<1>7. QED
  BY <1>4, <1>5, <1>6 DEF RowsAgree
-----------------------------------------------------------------------------
(* What requests know stays true. *)

LEMMA IdleKnows == ASSUME NEW r \in Requests, job[r] = Idle PROVE KnowsAlone(r) /\ KnowsTotal(r)
  BY NotAlone, SMTT(30) DEF KnowsAlone, KnowsTotal, Idle

LEMMA AloneKept ==
  ASSUME Shape, AloneOK, [Next]_vars
  PROVE  AloneOK'
<1>t. job \in [Requests -> Job]
  BY DEF Shape, TypeOK
<1>1. ASSUME NEW r \in Requests, Finish(r) PROVE AloneOK'
  BY <1>1, <1>t, NotAlone DEF AloneOK, Finish, Idle
<1>2. ASSUME NEW r \in Requests, NEW j, job' = [job EXCEPT ![r] = j], j.op = job[r].op, job[r] # Idle
      PROVE  AloneOK'
  BY <1>2, <1>t DEF AloneOK
<1>3. ASSUME NEW r \in Requests, NEW j, NEW op, job' = [job EXCEPT ![r] = j], j.op = op,
             job[r] = Idle, MayMeet(op)
      PROVE  AloneOK'
  BY <1>3, <1>t DEF AloneOK, MayMeet
<1>4. ASSUME NEW r \in Requests, Request(r) PROVE AloneOK'
  <2>1. ASSUME NEW e \in Expenses, NEW op \in Ops, ReadExpense(r, e, op) PROVE AloneOK'
    <3> DEFINE j == [Idle EXCEPT !.op = op, !.phase = "read", !.id = e, !.row = expense[e],
                                 !.account = category]
    <3>1. j.op = op /\ job' = [job EXCEPT ![r] = j] /\ job[r] = Idle /\ MayMeet(op)
      BY <2>1 DEF ReadExpense, Idle
    <3> HIDE DEF j
    <3>2. QED
      BY <1>3, <3>1
  <2>2. ASSUME NEW e \in Expenses, NEW op \in Ops, CheckUnpaid(r, e, op) PROVE AloneOK'
    <3> DEFINE j == [Idle EXCEPT !.op = op, !.phase = "checked", !.id = e]
    <3>1. j.op = op /\ job' = [job EXCEPT ![r] = j] /\ job[r] = Idle /\ MayMeet(op)
      BY <2>2 DEF CheckUnpaid, Idle
    <3> HIDE DEF j
    <3>2. QED
      BY <1>3, <3>1
  <2>3. ASSUME NEW k \in Entries, NEW op \in Ops, ReadEntry(r, k, op) PROVE AloneOK'
    <3> DEFINE j == [Idle EXCEPT !.op = op, !.phase = "read", !.id = k, !.row = entry[k]]
    <3>1. j.op = op /\ job' = [job EXCEPT ![r] = j] /\ job[r] = Idle /\ MayMeet(op)
      BY <2>3 DEF ReadEntry, Idle
    <3> HIDE DEF j
    <3>2. QED
      BY <1>3, <3>1
  <2>4. ASSUME NEW k \in Entries, NEW n \in Slots, NEW op \in Ops, ReadLine(r, k, n, op) PROVE AloneOK'
    <3> DEFINE j == [Idle EXCEPT !.op = op, !.phase = "read", !.id = k, !.slot = n, !.row = entry[k]]
    <3>1. j.op = op /\ job' = [job EXCEPT ![r] = j] /\ job[r] = Idle /\ MayMeet(op)
      BY <2>4 DEF ReadLine, Idle
    <3> HIDE DEF j
    <3>2. QED
      BY <1>3, <3>1
  <2>5. QED
    BY <1>4, <2>1, <2>2, <2>3, <2>4 DEF Request
<1>5. ASSUME NEW r \in Requests, ReadAgain(r) \/ CheckBalance(r) PROVE AloneOK'
  <2>1. job[r] \in Job /\ job[r].phase # "idle" /\ job[r] # Idle
    BY <1>5, <1>t DEF ReadAgain, CheckBalance, HasRead, Idle
  <2>2. PICK j : job' = [job EXCEPT ![r] = j] /\ j.op = job[r].op
    BY <1>5, <2>1 DEF ReadAgain, CheckBalance, Job
  <2>3. QED
    BY <1>2, <2>1, <2>2
<1>6. CASE UNCHANGED job
  BY <1>6 DEF AloneOK
<1>7. QED
  BY <1>1, <1>4, <1>5, <1>6, ZenonT(30)
  DEF Next, ExpenseStep, EntryStep, PointCategory, RecordExpense, Approve, Reject, ChangeStatus, Pay,
      UpdateExpense, DestroyExpense, DraftEntry, EditEntry, DeleteEntry, PostEntry, VoidEntry,
      AddLine, AmendLine, MoveLine, DropLine, Abandon, vars

LEMMA KnowsSame ==
  ASSUME NEW s \in Requests, job'[s] = job[s], UNCHANGED <<expense, entry, lines>>,
         KnowsAlone(s) /\ KnowsTotal(s)
  PROVE  (KnowsAlone(s) /\ KnowsTotal(s))'
  BY DEF KnowsAlone, KnowsTotal, Postable, Debit, Credit, Recorded

(* A step of one request that writes no row.                               *)
LEMMA NothingWritten ==
  ASSUME KnowledgeOK, NEW r \in Requests, \A s \in Requests \ {r} : job'[s] = job[s],
         UNCHANGED <<expense, entry, lines>>, (KnowsAlone(r) /\ KnowsTotal(r))'
  PROVE  KnowledgeOK'
  BY KnowsSame DEF KnowledgeOK

(* After a write that ran alone nobody holds anything.                     *)
LEMMA NobodyLeft ==
  ASSUME Protected, IInv, NEW r \in Requests, job[r].op \notin FreeOps, job[r].op # "idle", Finish(r)
  PROVE  KnowledgeOK'
<1>1. job[r].op \in Alone
  BY Current
<1>2. \A s \in Requests : job'[s] = Idle
  BY <1>1, Ended DEF IInv, AloneOK
<1>3. \A s \in Requests : (KnowsAlone(s) /\ KnowsTotal(s))'
  BY <1>2, NotAlone DEF KnowsAlone, KnowsTotal, Idle
<1>4. QED
  BY <1>3 DEF KnowledgeOK

LEMMA KnowledgeKept ==
  ASSUME Protected, IInv, [Next]_vars
  PROVE  KnowledgeOK'
<1>s. Shape /\ AloneOK /\ KnowledgeOK /\ job \in [Requests -> Job]
  BY DEF IInv, Shape, TypeOK
<1>w. ASSUME NEW r \in Requests, NEW op, HasRead(r, op), op \notin FreeOps, Finish(r)
      PROVE  KnowledgeOK'
  <2>1. job[r].op # "idle"
    BY <1>s, <1>w DEF HasRead, Shape, JobsOK, JobOK, Idle
  <2>2. QED
    BY <1>w, <2>1, NobodyLeft DEF HasRead
<1>n. ASSUME \A s \in Requests : job'[s] = job[s] \/ job'[s] = Idle,
             \A s \in Requests : job'[s] = job[s] => job[s].op \notin Alone,
             \A e \in Expenses : Recorded(e) => Recorded(e)' /\ expense'[e].total = expense[e].total
      PROVE  KnowledgeOK'
  <2>1. ASSUME NEW s \in Requests PROVE (KnowsAlone(s) /\ KnowsTotal(s))'
    <3>1. CASE job'[s] = Idle
      BY <3>1, NotAlone DEF KnowsAlone, KnowsTotal, Idle
    <3>2. CASE job'[s] = job[s]
      <4>1. job[s].op = "pay" => job[s].id \in Expenses /\ KnowsTotal(s)
        BY <1>s DEF Shape, JobsOK, JobOK, OnExpense, KnowledgeOK
      <4>2. QED
        BY <1>n, <3>2, <4>1 DEF KnowsAlone, KnowsTotal
    <3>3. QED
      BY <1>n, <3>1, <3>2
  <2>2. QED
    BY <2>1 DEF KnowledgeOK
<1>1. ASSUME UNCHANGED <<expense, entry, lines, job>> PROVE KnowledgeOK'
  BY <1>1, <1>s, KnowsSame DEF KnowledgeOK
<1>2. ASSUME NEW e \in Expenses, RecordExpense(e) PROVE KnowledgeOK'
  <2>1. \A s \in Requests : job'[s] = job[s] /\ job[s].op \notin Alone
    BY <1>2 DEF RecordExpense, MayMeet
  <2>2. \A f \in Expenses : Recorded(f) => expense'[f] = expense[f]
    BY <1>2, <1>s DEF RecordExpense, Recorded, Missing, Shape, TypeOK
  <2>3. QED
    BY <1>n, <2>1, <2>2 DEF Recorded
<1>3. ASSUME NEW k \in Entries, DraftEntry(k) PROVE KnowledgeOK'
  <2>1. \A s \in Requests : job'[s] = job[s] /\ job[s].op \notin Alone
    BY <1>3 DEF DraftEntry, MayMeet
  <2>2. expense' = expense
    BY <1>3 DEF DraftEntry
  <2>3. QED
    BY <1>n, <2>1, <2>2 DEF Recorded
<1>4. ASSUME NEW r \in Requests, Request(r) PROVE KnowledgeOK'
  <2>1. ASSUME NEW e \in Expenses, NEW op \in Ops, ReadExpense(r, e, op) PROVE KnowledgeOK'
    <3>1. /\ job'[r].op = op /\ job'[r].id = e /\ job'[r].row = expense[e] /\ job'[r].phase = "read"
          /\ \A s \in Requests \ {r} : job'[s] = job[s]
      BY <1>s, <2>1 DEF ReadExpense, Idle
    <3>2. /\ op \in {"approve", "pay", "reject"} /\ Recorded(e)
          /\ UNCHANGED <<expense, entry, lines>>
      BY <2>1 DEF ReadExpense
    <3>3. (KnowsAlone(r) /\ KnowsTotal(r))'
      BY <3>1, <3>2 DEF KnowsAlone, KnowsTotal, OnExpense, OnEntry, OnLine, Recorded
    <3>4. QED
      BY <1>s, <3>1, <3>2, <3>3, NothingWritten
  <2>2. ASSUME NEW e \in Expenses, NEW op \in Ops, CheckUnpaid(r, e, op) PROVE KnowledgeOK'
    <3>1. /\ job'[r].op = op /\ job'[r].id = e /\ job'[r].phase = "checked"
          /\ \A s \in Requests \ {r} : job'[s] = job[s]
      BY <1>s, <2>2 DEF CheckUnpaid, Idle
    <3>2. /\ op \in {"update", "destroy"} /\ expense[e].status # "PAID"
          /\ UNCHANGED <<expense, entry, lines>>
      BY <2>2 DEF CheckUnpaid, RejectIfPaid
    <3>3. (KnowsAlone(r) /\ KnowsTotal(r))'
      BY <3>1, <3>2 DEF KnowsAlone, KnowsTotal, OnExpense, OnEntry, OnLine
    <3>4. QED
      BY <1>s, <3>1, <3>2, <3>3, NothingWritten
  <2>3. ASSUME NEW k \in Entries, NEW op \in Ops, ReadEntry(r, k, op) PROVE KnowledgeOK'
    <3>1. /\ job'[r].op = op /\ job'[r].id = k /\ job'[r].row = entry[k] /\ job'[r].phase = "read"
          /\ \A s \in Requests \ {r} : job'[s] = job[s]
      BY <1>s, <2>3 DEF ReadEntry, Idle
    <3>2. op \in OnEntry /\ UNCHANGED <<expense, entry, lines>>
      BY <2>3 DEF ReadEntry, OnEntry
    <3>3. (KnowsAlone(r) /\ KnowsTotal(r))'
      BY <3>1, <3>2 DEF KnowsAlone, KnowsTotal, OnExpense, OnEntry, OnLine
    <3>4. QED
      BY <1>s, <3>1, <3>2, <3>3, NothingWritten
  <2>4. ASSUME NEW k \in Entries, NEW n \in Slots, NEW op \in Ops, ReadLine(r, k, n, op)
        PROVE  KnowledgeOK'
    <3>1. /\ job'[r].op = op /\ job'[r].id = k /\ job'[r].row = entry[k] /\ job'[r].phase = "read"
          /\ \A s \in Requests \ {r} : job'[s] = job[s]
      BY <1>s, <2>4 DEF ReadLine, Idle
    <3>2. op \in OnEntry /\ UNCHANGED <<expense, entry, lines>>
      BY <2>4 DEF ReadLine, OnEntry, OnLine
    <3>3. (KnowsAlone(r) /\ KnowsTotal(r))'
      BY <3>1, <3>2 DEF KnowsAlone, KnowsTotal, OnExpense, OnEntry, OnLine
    <3>4. QED
      BY <1>s, <3>1, <3>2, <3>3, NothingWritten
  <2>5. QED
    BY <1>4, <2>1, <2>2, <2>3, <2>4 DEF Request
<1>5. ASSUME NEW r \in Requests, ReadAgain(r) PROVE KnowledgeOK'
  <2>1. /\ job[r].op \in {"update", "destroy"}
        /\ UNCHANGED <<expense, entry, lines>>
    BY <1>5, <1>s DEF ReadAgain, Shape, JobsOK, JobOK, OnExpense, OnEntry, OnLine, Idle
  <2>2. /\ job'[r].op = job[r].op /\ job'[r].id = job[r].id /\ job'[r].row = expense[job[r].id]
        /\ job'[r].phase = "read" /\ \A s \in Requests \ {r} : job'[s] = job[s]
    BY <1>5, <1>s DEF ReadAgain, Job
  <2>3. KnowsAlone(r)
    BY <1>s DEF KnowledgeOK
  <2>4. (KnowsAlone(r) /\ KnowsTotal(r))'
    BY <2>1, <2>2, <2>3 DEF KnowsAlone, KnowsTotal, OnExpense, OnEntry, OnLine
  <2>5. QED
    BY <1>s, <2>1, <2>2, <2>4, NothingWritten
<1>6. ASSUME NEW r \in Requests, CheckBalance(r) PROVE KnowledgeOK'
  <2>1. /\ job[r].op = "post" /\ job[r].row.status = "DRAFT" /\ Postable(job[r].id)
        /\ UNCHANGED <<expense, entry, lines>>
    BY <1>6 DEF CheckBalance, HasRead, RequireDraft
  <2>2. /\ job'[r].op = job[r].op /\ job'[r].id = job[r].id /\ job'[r].row = job[r].row
        /\ \A s \in Requests \ {r} : job'[s] = job[s]
    BY <1>6, <1>s DEF CheckBalance, Job
  <2>3. KnowsAlone(r) /\ Postable(job[r].id)'
    BY <1>s, <2>1, <2>2 DEF KnowledgeOK, Postable, Debit, Credit
  <2>4. (KnowsAlone(r) /\ KnowsTotal(r))'
    BY <2>1, <2>2, <2>3 DEF KnowsAlone, KnowsTotal, OnExpense, OnEntry, OnLine
  <2>5. QED
    BY <1>s, <2>1, <2>2, <2>4, NothingWritten
<1>7. ASSUME NEW r \in Requests, Approve(r) \/ Reject(r) \/ UpdateExpense(r) \/ DestroyExpense(r)
      PROVE  KnowledgeOK'
  BY <1>7, <1>w, SMTT(30) DEF Approve, Reject, ChangeStatus, UpdateExpense, DestroyExpense, FreeOps
<1>8. ASSUME NEW r \in Requests,
             EditEntry(r) \/ DeleteEntry(r) \/ AddLine(r) \/ AmendLine(r) \/ MoveLine(r) \/ DropLine(r)
      PROVE  KnowledgeOK'
  BY <1>8, <1>w DEF EditEntry, DeleteEntry, AddLine, AmendLine, MoveLine, DropLine, FreeOps
<1>9. ASSUME NEW r \in Requests, PostEntry(r) PROVE KnowledgeOK'
  <2>1. job[r].op = "post" /\ Finish(r)
    BY <1>9, <1>s DEF PostEntry, Shape, JobsOK, JobOK, OnExpense, OnEntry, OnLine, Idle
  <2>2. QED
    BY <2>1, NobodyLeft DEF FreeOps
<1>10. ASSUME NEW r \in Requests, NEW op \in {"pay", "void"}, HasRead(r, op), Finish(r),
              \A e \in Expenses : Recorded(e) => Recorded(e)' /\ expense'[e].total = expense[e].total
       PROVE  KnowledgeOK'
  <2>1. job'[r] = Idle /\ \A s \in Requests \ {r} : job'[s] = job[s]
    BY <1>10, <1>s, Ended
  <2>2. job[r] # Idle
    BY <1>10 DEF HasRead, Idle
  <2>3. \A s \in Requests \ {r} : job[s].op \notin Alone
    BY <1>s, <2>2 DEF AloneOK
  <2>4. job'[r] # job[r]
    BY <2>1, <2>2
  <2>5. QED
    BY <1>10, <1>n, <2>1, <2>3, <2>4
<1>11. ASSUME NEW r \in Requests, Pay(r) PROVE KnowledgeOK'
  <2>1. job[r].id \in Expenses /\ expense[job[r].id] \in RealExpense
    BY <1>11, <1>s, ReadJob DEF Pay, OnExpense, Shape, RowsOK
  <2>2. expense' = [expense EXCEPT ![job[r].id] = [expense[job[r].id] EXCEPT !.status = "PAID"]]
    BY <1>11 DEF Pay
  <2>3. /\ [expense[job[r].id] EXCEPT !.status = "PAID"].status = "PAID"
        /\ [expense[job[r].id] EXCEPT !.status = "PAID"].total = expense[job[r].id].total
    BY <2>1 DEF RealExpense
  <2>4. \A e \in Expenses : Recorded(e) => Recorded(e)' /\ expense'[e].total = expense[e].total
    BY <1>s, <2>1, <2>2, <2>3 DEF Recorded, Missing, Shape, TypeOK
  <2>5. QED
    BY <1>10, <1>11, <2>4 DEF Pay
<1>12. ASSUME NEW r \in Requests, VoidEntry(r) PROVE KnowledgeOK'
  <2>1. \A e \in Expenses : Recorded(e) => Recorded(e)' /\ expense'[e].total = expense[e].total
    BY <1>12 DEF VoidEntry, Recorded
  <2>2. QED
    BY <1>10, <1>12, <2>1 DEF VoidEntry
<1>13. ASSUME NEW r \in Requests, Abandon(r) PROVE KnowledgeOK'
  <2>1. job'[r] = Idle /\ \A s \in Requests \ {r} : job'[s] = job[s]
    BY <1>13, <1>s, Ended DEF Abandon
  <2>2. (KnowsAlone(r) /\ KnowsTotal(r))'
    BY <2>1, NotAlone DEF KnowsAlone, KnowsTotal, Idle
  <2>3. QED
    BY <1>13, <1>s, <2>1, <2>2, NothingWritten DEF Abandon
<1>14. CASE PointCategory \/ UNCHANGED vars
  BY <1>1, <1>14 DEF PointCategory, vars
<1>15. QED
  BY <1>2, <1>3, <1>4, <1>5, <1>6, <1>7, <1>8, <1>9, <1>11, <1>12, <1>13, <1>14
  DEF Next, ExpenseStep, EntryStep
-----------------------------------------------------------------------------
LEMMA InitShape == Init => Shape
<1> SUFFICES ASSUME Init PROVE Shape
  OBVIOUS
<1>1. /\ NoExpense("ABSENT") \in ExpenseRow /\ NoEntry("ABSENT") \in EntryRow
      /\ NoExpense("ABSENT").status \in Missing
  BY Constants DEF Missing, NoExpense
<1>2. QED
  BY <1>1, Constants DEF Init, Shape, TypeOK, JobsOK, RowsOK, Recorded

(* Every variable of Books keeps its type, whoever does what beside whom   *)
(* (accounting/models.py, expenses/models.py).                             *)
THEOREM TypeCorrect == Spec => []TypeOK
<1>1. Init => Shape
  BY InitShape
<1>2. Shape /\ [Next]_vars => Shape'
  BY ShapeKept
<1>3. Shape => TypeOK
  BY DEF Shape
<1>4. QED
  BY <1>1, <1>2, <1>3, PTL DEF Spec

LEMMA InitAgrees == Init => IInv
<1> SUFFICES ASSUME Init PROVE IInv
  OBVIOUS
<1>1. Shape
  BY InitShape
<1>2. AloneOK /\ KnowledgeOK
  BY IdleKnows, NotAlone DEF Init, AloneOK, KnowledgeOK
<1>3. /\ \A k \in Entries : entry[k].status = "ABSENT" /\ entry[k].source = None
      /\ \A e \in Expenses : expense[e].status = "ABSENT"
  BY DEF Init, NoEntry, NoExpense
<1>4. \A e \in Expenses : EntriesOf(e) = {} /\ Live(e) = {}
  BY <1>3, BooksAssumption DEF EntriesOf, Live
<1>5. RowsAgree
  BY <1>3, <1>4 DEF RowsAgree, SourcesOK, OneEach, EachBalances, AmountsOK, PaidIsBooked
<1>6. QED
  BY <1>1, <1>2, <1>5 DEF IInv

LEMMA AgreesKept == Protected => (IInv /\ [Next]_vars => IInv')
<1> SUFFICES ASSUME Protected, IInv, [Next]_vars PROVE IInv'
  OBVIOUS
<1>1. Shape' /\ AloneOK' /\ KnowledgeOK'
  BY ShapeKept, AloneKept, KnowledgeKept DEF IInv
<1>2. RowsAgree'
  <2>1. CASE UNCHANGED vars
    <3>1. Quiet
      BY <2>1, NothingTouched DEF vars
    <3>2. QED
      BY <3>1, QuietAgrees DEF IInv
  <2>2. CASE Next
    BY <2>2, StepKinds, QuietAgrees, UnpaidAgrees, PaidAgrees, PostedAgrees, VoidedAgrees DEF IInv
  <2>3. QED
    BY <2>1, <2>2
<1>3. QED
  BY <1>1, <1>2 DEF IInv

LEMMA IInvAlways == Protected => (Spec => []IInv)
<1> SUFFICES ASSUME Protected PROVE Spec => []IInv
  OBVIOUS
<1>1. Init => IInv
  BY InitAgrees
<1>2. IInv /\ [Next]_vars => IInv'
  BY AgreesKept
<1>3. QED
  BY <1>1, <1>2, PTL DEF Spec

(* A paid expense was booked at the total it shows, and nothing else of an *)
(* expense is in the ledger, however payments meet each other, voids and   *)
(* journal work (expenses/services.py, mark_paid).                         *)
THEOREM PaidAlwaysBooked == Protected => (Spec => []PaidIsBooked)
<1>1. IInv => PaidIsBooked
  BY DEF IInv, RowsAgree
<1>2. QED
  BY <1>1, IInvAlways, PTL
-----------------------------------------------------------------------------
(* The reports: what is posted, line by line. *)
PostedAmount(sign) ==
  [p \in Entries \X Slots |->
    IF entry[p[1]].status = "POSTED" THEN Positive(sign * lines[p[1]][p[2]].amount) ELSE 0]
PostedIn(buckets, sign) ==
  [p \in Entries \X Slots |->
    LET line == lines[p[1]][p[2]] IN
    IF entry[p[1]].status = "POSTED" /\ line # NoLine /\ BucketOf[line.account] \in buckets
    THEN Positive(sign * line.amount) ELSE 0]

LEMMA LineFields ==
  ASSUME TypeOK, NEW k \in Entries, NEW n \in Slots
  PROVE  /\ lines[k][n].amount \in Int
         /\ lines[k][n] = NoLine => lines[k][n].amount = 0
         /\ lines[k][n] # NoLine => BucketOf[lines[k][n].account] \in {"revenue", "expense", "other"}
<1>1. lines[k][n] \in Line
  BY DEF TypeOK
<1>2. QED
  BY <1>1, BooksAssumption DEF Line, LineAmounts, NoLine

LEMMA PostedTyped ==
  ASSUME TypeOK, NEW sign \in {1, -1}, NEW buckets
  PROVE  /\ PostedAmount(sign) \in [Entries \X Slots -> Nat]
         /\ PostedIn(buckets, sign) \in [Entries \X Slots -> Nat]
<1>1. \A p \in Entries \X Slots : lines[p[1]][p[2]].amount \in Int
  BY LineFields
<1>2. \A p \in Entries \X Slots : Positive(sign * lines[p[1]][p[2]].amount) \in Nat
  BY <1>1 DEF Positive
<1>3. QED
  BY <1>2 DEF PostedAmount, PostedIn

LEMMA PlacesFinite == IsFiniteSet(Entries \X Slots)
  BY BooksAssumption, FS_Product

(* Every posted amount is in one of the three buckets. *)
LEMMA BucketsCover ==
  ASSUME TypeOK, NEW sign \in {1, -1}
  PROVE  /\ PostedOn("revenue", sign) \in Nat /\ PostedOn("expense", sign) \in Nat
         /\ PostedOn("other", sign) \in Nat
         /\ SumOf(PostedAmount(sign)) =
               PostedOn("revenue", sign) + PostedOn("expense", sign) + PostedOn("other", sign)
<1> DEFINE rev == PostedIn({"revenue"}, sign)
           cost == PostedIn({"expense"}, sign)
           rest == PostedIn({"other"}, sign)
           both == PostedIn({"revenue", "expense"}, sign)
           all == PostedAmount(sign)
<1>1. /\ rev \in [Entries \X Slots -> Nat] /\ cost \in [Entries \X Slots -> Nat]
      /\ rest \in [Entries \X Slots -> Nat] /\ both \in [Entries \X Slots -> Nat]
      /\ all \in [Entries \X Slots -> Nat]
  BY PostedTyped
<1>2. /\ PostedOn("revenue", sign) = SumOf(rev) /\ PostedOn("expense", sign) = SumOf(cost)
      /\ PostedOn("other", sign) = SumOf(rest)
  BY DEF PostedOn, PostedIn
<1>3. \A p \in Entries \X Slots : (rev[p] = both[p] /\ cost[p] = 0) \/ (rev[p] = 0 /\ cost[p] = both[p])
  BY DEF PostedIn
<1>4. \A p \in Entries \X Slots : (both[p] = all[p] /\ rest[p] = 0) \/ (both[p] = 0 /\ rest[p] = all[p])
  <2>1. TAKE p \in Entries \X Slots
  <2>2. p[1] \in Entries /\ p[2] \in Slots
    OBVIOUS
  <2>3. CASE lines[p[1]][p[2]] = NoLine
    BY <2>2, <2>3, LineFields DEF PostedIn, PostedAmount, Positive
  <2>4. CASE lines[p[1]][p[2]] # NoLine
    BY <2>2, <2>4, LineFields DEF PostedIn, PostedAmount
  <2>5. QED
    BY <2>3, <2>4
<1> HIDE DEF rev, cost, rest, both, all
<1>5. SumOf(both) = SumOf(rev) + SumOf(cost) /\ SumOf(all) = SumOf(both) + SumOf(rest)
  BY <1>1, <1>3, <1>4, PlacesFinite, SumDealtOut, SMTT(30)
<1>6. SumOf(rev) \in Nat /\ SumOf(cost) \in Nat /\ SumOf(rest) \in Nat
  BY <1>1, PlacesFinite, SumIsNatural
<1>7. QED
  BY <1>2, <1>5, <1>6 DEF all

(* Debits and credits over all posted entries are the same. *)
LEMMA TrialBalance ==
  ASSUME TypeOK, EachBalances
  PROVE  SumOf(PostedAmount(1)) = SumOf(PostedAmount(-1))
<1>1. \A k \in Entries :
        SumOf(RowOf(PostedAmount(1), Slots, k)) = SumOf(RowOf(PostedAmount(-1), Slots, k))
  <2>1. TAKE k \in Entries
  <2>2. \A n \in Slots : lines[k][n].amount \in Int
    BY LineFields
  <2>3. CASE entry[k].status = "POSTED"
    <3>1. /\ RowOf(PostedAmount(1), Slots, k) = [n \in Slots |-> Positive(lines[k][n].amount)]
          /\ RowOf(PostedAmount(-1), Slots, k) = [n \in Slots |-> Positive(-lines[k][n].amount)]
      <4>1. /\ RowOf(PostedAmount(1), Slots, k) = [n \in Slots |-> Positive(1 * lines[k][n].amount)]
            /\ RowOf(PostedAmount(-1), Slots, k) = [n \in Slots |-> Positive((-1) * lines[k][n].amount)]
        BY <2>3 DEF RowOf, PostedAmount
      <4>2. \A n \in Slots : /\ 1 * lines[k][n].amount = lines[k][n].amount
                             /\ (-1) * lines[k][n].amount = -lines[k][n].amount
        BY <2>2
      <4>3. QED
        BY <4>1, <4>2
    <3>2. QED
      BY <2>3, <3>1 DEF EachBalances, Debit, Credit
  <2>4. CASE entry[k].status # "POSTED"
    BY <2>4 DEF RowOf, PostedAmount
  <2>5. QED
    BY <2>3, <2>4
<1>2. /\ PostedAmount(1) \in [Entries \X Slots -> Nat] /\ PostedAmount(-1) \in [Entries \X Slots -> Nat]
      /\ IsFiniteSet(Entries) /\ IsFiniteSet(Slots)
  BY PostedTyped, BooksAssumption
<1> DEFINE f == PostedAmount(1)
           g == PostedAmount(-1)
<1> HIDE DEF f, g
<1>3. SumOf(f) = SumOf(g)
  <2>1. \A k \in Entries : SumOf(RowOf(f, Slots, k)) = SumOf(RowOf(g, Slots, k))
    BY <1>1 DEF f, g
  <2>2. f \in [Entries \X Slots -> Nat] /\ g \in [Entries \X Slots -> Nat]
    BY <1>2 DEF f, g
  <2>3. IsFiniteSet(Entries) /\ IsFiniteSet(Slots)
    BY <1>2
  <2>4. QED
    BY ONLY <2>1, <2>2, <2>3, SumByRows, SMTT(30)
<1>4. QED
  BY <1>3 DEF f, g

LEMMA BooksBalance == TypeOK /\ EachBalances => PostedBalances
<1> SUFFICES ASSUME TypeOK, EachBalances PROVE PostedBalances
  OBVIOUS
<1>1. NetProfit = NetDebit("other")
  BY BucketsCover, TrialBalance DEF NetProfit, NetDebit
<1>2. QED
  BY <1>1 DEF PostedBalances, EachBalances

(* Every posted entry balances, by hand or of an expense, and the profit   *)
(* of the report is what the balance sheet gained, for any chart of        *)
(* accounts (accounting/services/core.py, post_transaction).               *)
THEOREM BooksAlwaysBalance == Protected => (Spec => []PostedBalances)
<1>1. IInv => PostedBalances
  BY BooksBalance DEF IInv, Shape, RowsAgree
<1>2. QED
  BY <1>1, IInvAlways, PTL
-----------------------------------------------------------------------------
(* The entries of expenses are the abstract ledger. *)
Contribution == [e \in Expenses |-> Booked(e)]

LEMMA BookedOf ==
  ASSUME IInv, NEW e \in Expenses
  PROVE  /\ Live(e) = {} => Booked(e) = 0
         /\ \A k \in Live(e) : Booked(e) = Debit(k) /\ Debit(k) \in 1..MaxAmount
<1>1. ASSUME Live(e) = {} PROVE Booked(e) = 0
  BY <1>1, SumOfZeros DEF Booked
<1>2. ASSUME NEW k \in Live(e) PROVE Booked(e) = Debit(k) /\ Debit(k) \in 1..MaxAmount
  <2>1. Live(e) = {k} /\ k \in Entries /\ entry[k].source = e /\ entry[k].status # "VOIDED"
    BY <1>2 DEF IInv, RowsAgree, OneEach, Live, EntriesOf
  <2>2. Debit(k) \in 1..MaxAmount
    BY <2>1, BooksAssumption DEF IInv, RowsAgree, SourcesOK, AmountsOK
  <2> DEFINE f == [j \in {k} |-> Debit(j)]
  <2>3. f \in [{k} -> Nat] /\ f[k] = Debit(k) /\ IsFiniteSet({k}) /\ k \in {k}
    BY <2>2, FS_Singleton
  <2>4. Booked(e) = SumOf(f)
    BY <2>1 DEF Booked
  <2> HIDE DEF f
  <2>5. SumOf(f) = f[k]
    BY <2>3, SumOfOneTerm
  <2>6. QED
    BY <2>2, <2>3, <2>4, <2>5
<1>3. QED
  BY <1>1, <1>2

(* What is live, and its amount, is all the ledger sees. *)
LEMMA LedgerSame ==
  ASSUME IInv, IInv', NEW e \in Expenses,
         Live(e)' = Live(e), \A k \in Live(e) : lines'[k] = lines[k]
  PROVE  Booked(e)' = Booked(e)
<1>1. CASE Live(e) = {}
  <2>1. Booked(e) = 0
    BY <1>1, BookedOf
  <2>2. Booked(e)' = 0
    BY <1>1, SumOfZeros DEF Booked
  <2>3. QED
    BY <2>1, <2>2
<1>2. CASE Live(e) # {}
  <2>1. \A k \in Live(e) : Debit(k)' = Debit(k)
    BY SameLines DEF Live, EntriesOf
  <2>2. QED
    BY <2>1 DEF Booked
<1>3. QED
  BY <1>1, <1>2

LEMMA StepsImplementLedger ==
  ASSUME Protected, IInv, IInv', [Next]_vars
  PROVE  [Journal!Next]_Contribution
<1>s. \A k \in Entries : entry[k].source # None => entry[k].status \in {"POSTED", "VOIDED"}
  BY DEF IInv, RowsAgree, SourcesOK
<1>q. ASSUME \A e \in Expenses : Booked(e)' = Booked(e) PROVE [Journal!Next]_Contribution
  BY <1>q DEF Contribution
<1>1. ASSUME Quiet PROVE [Journal!Next]_Contribution
  <2>1. \A e \in Expenses : Live(e)' = Live(e) /\ \A k \in Live(e) : lines'[k] = lines[k]
    BY <1>s, <1>1, BooksAssumption DEF Quiet, Live, EntriesOf
  <2>2. QED
    BY <2>1, LedgerSame, <1>q
<1>2. ASSUME NEW f \in Expenses, Unpaid(f) PROVE [Journal!Next]_Contribution
  <2>1. \A e \in Expenses : Live(e)' = Live(e) /\ \A k \in Live(e) : lines'[k] = lines[k]
    BY <1>2 DEF Unpaid, Live, EntriesOf
  <2>2. QED
    BY <2>1, LedgerSame, <1>q
<1>3. ASSUME NEW k \in Entries, Posted(k) PROVE [Journal!Next]_Contribution
  <2>1. \A e \in Expenses : Live(e)' = Live(e) /\ \A j \in Live(e) : lines'[j] = lines[j]
    BY <1>s, <1>3, BooksAssumption DEF Posted, Live, EntriesOf
  <2>2. QED
    BY <2>1, LedgerSame, <1>q
<1>4. ASSUME NEW k \in Entries, NEW e \in Expenses, Paid(k, e) PROVE [Journal!Next]_Contribution
  <2>1. /\ Live(e) = {} /\ Live(e)' = {k}
        /\ \A f \in Expenses \ {e} :
             Live(f)' = Live(f) /\ \A j \in Live(f) : lines'[j] = lines[j]
    BY <1>s, <1>4, BooksAssumption DEF Paid, Unbooked, Live, EntriesOf
  <2>2. /\ Booked(e) = 0 /\ Booked(e)' = Debit(k)'
        /\ \A f \in Expenses \ {e} : Booked(f)' = Booked(f)
    <3>1. Booked(e) = 0 /\ \A f \in Expenses \ {e} : Booked(f)' = Booked(f)
      BY <2>1, BookedOf, LedgerSame
    <3> DEFINE h == [j \in {k} |-> Debit(j)']
    <3>2. Booked(e)' = SumOf(h)
      BY <2>1 DEF Booked
    <3>3. h \in [{k} -> Nat] /\ h[k] = Debit(k)'
      BY <1>4 DEF Paid
    <3>4. IsFiniteSet({k})
      BY FS_Singleton
    <3> HIDE DEF h
    <3>5. SumOf(h) = h[k]
      BY <3>3, <3>4, SumOfOneTerm
    <3>6. QED
      BY <3>1, <3>2, <3>3, <3>5
  <2>3. Debit(k)' \in 1..MaxAmount
    BY <1>4 DEF Paid
  <2>4. Contribution' = [Contribution EXCEPT ![e] = Debit(k)'] /\ Contribution[e] = 0
    BY <2>2 DEF Contribution
  <2>5. QED
    BY <2>3, <2>4 DEF Journal!Next, Journal!Book, Contribution
<1>5. ASSUME NEW k \in Entries, Voided(k) PROVE [Journal!Next]_Contribution
  <2>1. \A e \in Expenses :
          k \notin Live(e) => Live(e)' = Live(e) /\ \A j \in Live(e) : lines'[j] = lines[j]
    BY <1>5 DEF Voided, Live, EntriesOf
  <2>2. CASE \A e \in Expenses : k \notin Live(e)
    BY <2>1, <2>2, LedgerSame, <1>q
  <2>3. ASSUME NEW e \in Expenses, k \in Live(e) PROVE [Journal!Next]_Contribution
    <3>1. Live(e) = {k} /\ Live(e)' = {} /\ \A f \in Expenses \ {e} : k \notin Live(f)
      BY <1>5, <2>3 DEF IInv, RowsAgree, OneEach, Voided, Live, EntriesOf
    <3>2. Booked(e)' = 0 /\ Booked(e) # 0 /\ \A f \in Expenses \ {e} : Booked(f)' = Booked(f)
      <4>1. Booked(e)' = 0
        BY <3>1, SumOfZeros DEF Booked
      <4>2. Booked(e) # 0
        BY <2>3, BookedOf
      <4>3. QED
        BY <2>1, <3>1, <4>1, <4>2, LedgerSame
    <3>3. Contribution' = [Contribution EXCEPT ![e] = 0] /\ Contribution[e] # 0
      <4>1. Contribution' = [f \in Expenses |-> IF f = e THEN 0 ELSE Booked(f)]
        BY <3>2 DEF Contribution
      <4>2. Contribution[e] = Booked(e)
        BY DEF Contribution
      <4>3. QED
        BY <3>2, <4>1, <4>2 DEF Contribution
    <3>4. QED
      BY <3>3 DEF Journal!Next, Journal!Void, Contribution
  <2>4. QED
    BY <2>2, <2>3
<1>6. CASE UNCHANGED vars
  BY <1>1, <1>6, NothingTouched DEF vars
<1>7. QED
  BY <1>1, <1>2, <1>3, <1>4, <1>5, <1>6, StepKinds

(* Payments, voids and journal work together do to the entries of expenses *)
(* what Ledger allows: booked once, voided, and booked again, never        *)
(* changed (existing_source_entry, book_expense).                          *)
THEOREM JournalImplementsLedger == Protected => (Spec => JournalIsLedger)
<1> SUFFICES ASSUME Protected PROVE Spec => JournalIsLedger
  OBVIOUS
<1>1. Init => Journal!Init
  <2>1. SUFFICES ASSUME Init PROVE \A e \in Expenses : Booked(e) = 0
    BY DEF Journal!Init
  <2>2. \A e \in Expenses : Live(e) = {}
    BY <2>1, BooksAssumption DEF Init, NoEntry, Live, EntriesOf
  <2>3. QED
    BY <2>2, InitAgrees, <2>1, BookedOf
<1>2. IInv /\ IInv' /\ [Next]_vars => [Journal!Next]_([e \in Expenses |-> Booked(e)])
  BY StepsImplementLedger DEF Contribution
<1>3. QED
  <2>1. Spec => []IInv
    BY IInvAlways
  <2>2. QED
    BY <1>1, <1>2, <2>1, PTL DEF Spec, JournalIsLedger, Journal!Spec
=============================================================================
