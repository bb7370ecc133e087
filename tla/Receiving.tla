----------------------------- MODULE Receiving -----------------------------
(***************************************************************************)
(* Purchase orders, the goods received against them, and the stock.        *)
(*                                                                         *)
(* A purchasing request reads the order (or a line with its order) and     *)
(* decides from what it read.  A goods receipt then opens a transaction:   *)
(* per item it compares the quantity with what remains of the line, and    *)
(* applies a stock movement; at the end it derives the order's status.     *)
(* Movements and transfers by warehouse clerks apply to the same balances. *)
(* Only the Stock row is locked; the sums of receipts are plain SELECTs at *)
(* READ COMMITTED.  An uncommitted write is part of the request's tx.      *)
(***************************************************************************)
EXTENDS Integers, Sequences, FiniteSets, Sums

CONSTANTS
  Requests,    \* the requests that can be in progress at the same time
  OpsOf,       \* the operations each of them is sent in this instance
  Orders,      \* identifiers of purchase orders
  Lines,       \* identifiers of purchase order items
  Materials, Warehouses,
  MaterialOf,  \* the material of each line
  None,        \* SQL's NULL
  MaxQuantity, \* bound on a line's quantity and on a movement's
  MaxBalance   \* bound on the balances clerks move by hand

OrderOps == {"submit", "approve", "cancel", "patch", "delete", "add", "receive"}
LineOps == {"change", "move", "drop"}
StockOps == {"movement", "transfer"}
AllOps == OrderOps \cup LineOps \cup StockOps

ASSUME ReceivingAssumption ==
  /\ IsFiniteSet(Lines)
  /\ MaterialOf \in [Lines -> Materials]
  /\ MaxQuantity \in Nat
  /\ None \notin Orders \cup Lines \cup Warehouses
  /\ OpsOf \in [Requests -> SUBSET AllOps]

VARIABLES
  status,     \* the status of each order
  line,       \* the order and the quantity of each line
  receipted,  \* the orders that have a goods receipt
  received,   \* SUM(quantity_received) of each line
  stock,      \* Stock.quantity, per warehouse and material
  moved,      \* SUM(quantity) of the stock movements, per warehouse and material
  job,        \* what the worker of each request holds
  tx          \* what its open transaction has done to the stock

orders == <<status, line, receipted, received>>
vars == <<status, line, receipted, received, stock, moved, job, tx>>
-----------------------------------------------------------------------------
Missing == {"ABSENT", "DELETED"}
Statuses == {"DRAFT", "SUBMITTED", "APPROVED", "PARTIALLY_RECEIVED", "RECEIVED", "CANCELLED"}
Line == [order : Orders, quantity : 1..MaxQuantity]
NoLine == [order |-> None, quantity |-> 0]
NoLines == [l \in Lines |-> NoLine]
LinesOf(o) == {l \in Lines : line[l].order = o}
Shelves == Warehouses \X Materials

(* read: the status the decision rests on; seen: the lines it was read     *)
(* with; got: the receipt items inserted so far; to: the derived status.   *)
Idle == [op |-> "idle", phase |-> "idle", order |-> None, line |-> None,
         warehouse |-> None, read |-> "ABSENT", to |-> "ABSENT",
         seen |-> NoLines, got |-> [l \in Lines |-> 0]]
Job == [op : AllOps \cup {"idle"},
        phase : {"idle", "fetched", "items", "status", "stock"},
        order : Orders \cup {None}, line : Lines \cup {None},
        warehouse : Warehouses \cup {None},
        read : Statuses \cup Missing, to : Statuses \cup Missing,
        seen : [Lines -> Line \cup {NoLine}], got : [Lines -> Nat]]

(* todo: the movements still to apply; held: the Stock rows it has locked; *)
(* put: the movements it has inserted; balance: what it wrote to Stock.    *)
Nothing == [s \in Shelves |-> 0]
NoTx == [todo |-> <<>>, held |-> {}, put |-> Nothing, balance |-> Nothing]
Move(s, d) == [shelf |-> s, delta |-> d]
Tx == [todo : Seq([shelf : Shelves, delta : Int]), held : SUBSET Shelves,
       put : [Shelves -> Int], balance : [Shelves -> Int]]

Exists(o) == status[o] \notin Missing
Starts(r, op) == job[r].phase = "idle" /\ op \in OpsOf[r]
HasRead(r, op) == job[r].phase = "fetched" /\ job[r].op = op
Finish(r) == job' = [job EXCEPT ![r] = Idle] /\ tx' = [tx EXCEPT ![r] = NoTx]
ReceiptOpen(o) == \E r \in Requests : job[r].phase \in {"items", "status"} /\ job[r].order = o
-----------------------------------------------------------------------------
(* Orders: reading one, and the requests that write one. *)

CreateOrder(o) ==
  /\ status[o] = "ABSENT"
  /\ status' = [status EXCEPT ![o] = "DRAFT"]
  /\ UNCHANGED <<line, receipted, received, stock, moved, job, tx>>

FetchOrder(r, op, o) ==
  /\ Starts(r, op) /\ Exists(o)
  /\ job' = [job EXCEPT ![r] = [Idle EXCEPT !.op = op, !.phase = "fetched",
                                            !.order = o, !.read = status[o]]]
  /\ UNCHANGED <<orders, stock, moved, tx>>

Target == [submit |-> "SUBMITTED", approve |-> "APPROVED", cancel |-> "CANCELLED"]
AllowedTransitions ==
  {<<"DRAFT", "SUBMITTED">>, <<"DRAFT", "CANCELLED">>, <<"SUBMITTED", "APPROVED">>,
   <<"SUBMITTED", "CANCELLED">>, <<"APPROVED", "CANCELLED">>}

Transition(r, op) ==
  LET o == job[r].order
  IN  /\ HasRead(r, op) /\ Exists(o)
      /\ <<job[r].read, Target[op]>> \in AllowedTransitions
      /\ status' = [status EXCEPT ![o] = Target[op]]
      /\ Finish(r)
      /\ UNCHANGED <<line, receipted, received, stock, moved>>

NoDraftCheck(r) == TRUE
RequireDraft(r) == job[r].read = "DRAFT"

(* The save writes every column, the status as read; a row that has been   *)
(* deleted in the meantime is inserted again.                              *)
PatchOrder(r) ==
  /\ HasRead(r, "patch") /\ RequireDraft(r)
  /\ status' = [status EXCEPT ![job[r].order] = job[r].read]
  /\ Finish(r)
  /\ UNCHANGED <<line, receipted, received, stock, moved>>

(* The lines go with the order, unless something was received for it. *)
DeleteOrder(r) ==
  LET o == job[r].order
  IN  /\ HasRead(r, "delete") /\ RequireDraft(r) /\ Exists(o)
      /\ o \notin receipted /\ ~ReceiptOpen(o)
      /\ \A l \in LinesOf(o) : received[l] = 0
      /\ status' = [status EXCEPT ![o] = "DELETED"]
      /\ line' = [l \in Lines |-> IF line[l].order = o THEN NoLine ELSE line[l]]
      /\ Finish(r)
      /\ UNCHANGED <<receipted, received, stock, moved>>
-----------------------------------------------------------------------------
(* Lines.  A new line's order was read when the request was validated; the *)
(* others are read together with their order.                              *)

AddLine(r, l, q) ==
  /\ HasRead(r, "add") /\ RequireDraft(r) /\ Exists(job[r].order)
  /\ line[l] = NoLine /\ \A s \in Requests : job[s].seen[l] = NoLine
  /\ line' = [line EXCEPT ![l] = [order |-> job[r].order, quantity |-> q]]
  /\ Finish(r)
  /\ UNCHANGED <<status, receipted, received, stock, moved>>

FetchLine(r, op, l) ==
  /\ Starts(r, op) /\ line[l] # NoLine
  /\ job' = [job EXCEPT ![r] =
       [Idle EXCEPT !.op = op, !.phase = "fetched", !.line = l, !.order = line[l].order,
                    !.read = status[line[l].order],
                    !.seen = [NoLines EXCEPT ![l] = line[l]]]]
  /\ UNCHANGED <<orders, stock, moved, tx>>

WriteLine(r, op, o, q) ==
  /\ HasRead(r, op) /\ RequireDraft(r) /\ Exists(o)
  /\ line' = [line EXCEPT ![job[r].line] = [order |-> o, quantity |-> q]]
  /\ Finish(r)
  /\ UNCHANGED <<status, receipted, received, stock, moved>>
ChangeLine(r, q) == WriteLine(r, "change", job[r].order, q)
(* A PATCH of the line's purchase_order: that order's status is not read. *)
MoveLine(r, o) == WriteLine(r, "move", o, job[r].seen[job[r].line].quantity)

DropLine(r) ==
  LET l == job[r].line
  IN  /\ HasRead(r, "drop") /\ RequireDraft(r)
      /\ received[l] = 0 /\ \A s \in Requests : job[s].got[l] = 0
      /\ line' = [line EXCEPT ![l] = NoLine]
      /\ Finish(r)
      /\ UNCHANGED <<status, receipted, received, stock, moved>>
-----------------------------------------------------------------------------
(* receive_goods *)

ReceivableStatuses == {"APPROVED", "PARTIALLY_RECEIVED"}

BeginReceipt(r, w) ==
  LET o == job[r].order
  IN  /\ HasRead(r, "receive") /\ Exists(o)
      /\ job[r].read \in ReceivableStatuses
      /\ job' = [job EXCEPT ![r].phase = "items", ![r].warehouse = w,
                   ![r].seen = [l \in Lines |-> IF line[l].order = o THEN line[l] ELSE NoLine]]
      /\ UNCHANGED <<orders, stock, moved, tx>>

(* What a transaction sees received of a line: its own items included. *)
ReceivedFor(r, l) == received[l] + job[r].got[l]
OwnItemsForgotten(r, l) == job[r].seen[l].quantity - received[l]
Remaining(r, l) == job[r].seen[l].quantity - ReceivedFor(r, l)
DeliveryOfOne(s, q) == <<Move(s, 1)>>
Delivery(s, q) == <<Move(s, q)>>

ReceiveItem(r, l, q) ==
  /\ job[r].phase = "items" /\ tx[r].todo = <<>>
  /\ job[r].seen[l] # NoLine /\ line[l] # NoLine
  /\ q > 0 /\ q <= Remaining(r, l)
  /\ job' = [job EXCEPT ![r].got[l] = @ + q]
  /\ tx' = [tx EXCEPT ![r].todo = Delivery(<<job[r].warehouse, MaterialOf[l]>>, q)]
  /\ UNCHANGED <<orders, stock, moved>>

(* apply_stock_movement: the movement is inserted, the Stock row is locked *)
(* until the end of the transaction, read, and written.                    *)
ShelfNeverLocked(r, s) == TRUE
ShelfFree(r, s) == \A other \in Requests \ {r} : s \notin tx[other].held

ApplyMovement(r) ==
  LET t == tx[r]
      s == Head(t.todo).shelf
      d == Head(t.todo).delta
      quantity == IF s \in t.held THEN t.balance[s] ELSE stock[s]
  IN  /\ t.todo # <<>> /\ ShelfFree(r, s)
      /\ tx' = [tx EXCEPT ![r] = [todo |-> Tail(t.todo), held |-> t.held \cup {s},
                                  put |-> [t.put EXCEPT ![s] = t.put[s] + d],
                                  balance |-> [t.balance EXCEPT ![s] = quantity + d]]]
      /\ UNCHANGED <<orders, stock, moved, job>>

StatusOfThisReceipt(r) ==
  IF \A l \in Lines : job[r].got[l] > 0 => ReceivedFor(r, l) >= line[l].quantity
  THEN "RECEIVED" ELSE "PARTIALLY_RECEIVED"
DerivedStatus(r) ==
  LET all == LinesOf(job[r].order)
  IN  IF \A l \in all : ReceivedFor(r, l) >= line[l].quantity THEN "RECEIVED"
      ELSE IF \E l \in all : ReceivedFor(r, l) > 0 THEN "PARTIALLY_RECEIVED"
      ELSE job[r].read

DeriveStatus(r) ==
  /\ job[r].phase = "items" /\ tx[r].todo = <<>>
  /\ \E l \in Lines : job[r].got[l] > 0
  /\ job' = [job EXCEPT ![r].phase = "status", ![r].to = DerivedStatus(r)]
  /\ UNCHANGED <<orders, stock, moved, tx>>

(* The end of a transaction that touched the stock. *)
Committed(r) == [s \in Shelves |-> IF s \in tx[r].held THEN tx[r].balance[s] ELSE stock[s]]
CommitStock(r) ==
  /\ stock' = Committed(r)
  /\ moved' = [s \in Shelves |-> moved[s] + tx[r].put[s]]
  /\ Finish(r)

CommitReceipt(r) ==
  LET o == job[r].order
  IN  /\ job[r].phase = "status"
      /\ status' = IF job[r].to = job[r].read THEN status ELSE [status EXCEPT ![o] = job[r].to]
      /\ receipted' = receipted \cup {o}
      /\ received' = [l \in Lines |-> ReceivedFor(r, l)]
      /\ CommitStock(r)
      /\ UNCHANGED line
-----------------------------------------------------------------------------
(* Movements entered by hand, and transfers: out of one warehouse, then    *)
(* into another, in one transaction.  Neither asks what is on the shelf;   *)
(* MaxBalance bounds what this instance explores.                          *)

Legs(m, from, to, q) == <<Move(<<from, m>>, -q), Move(<<to, m>>, q)>>
InBounds(moves) ==
  \A k \in DOMAIN moves :
    moved[moves[k].shelf] + moves[k].delta \in (-MaxBalance)..MaxBalance

StartMoves(r, op, moves) ==
  /\ Starts(r, op) /\ InBounds(moves)
  /\ job' = [job EXCEPT ![r] = [Idle EXCEPT !.op = op, !.phase = "stock"]]
  /\ tx' = [tx EXCEPT ![r].todo = moves]
  /\ UNCHANGED <<orders, stock, moved>>

RecordMovement(r, s, d) == d # 0 /\ StartMoves(r, "movement", <<Move(s, d)>>)
Transfer(r, m, from, to, q) ==
  from # to /\ q > 0 /\ StartMoves(r, "transfer", Legs(m, from, to, q))

CommitMoves(r) ==
  /\ job[r].phase = "stock" /\ tx[r].todo = <<>>
  /\ CommitStock(r)
  /\ UNCHANGED orders

KeepsFinishedLegs(r) ==
  /\ job[r].phase # "idle"
  /\ CommitStock(r)
  /\ UNCHANGED orders

(* A refusal (403, 400), an error of the database or the end of the        *)
(* worker: the transaction is rolled back and its locks are released.      *)
Abandon(r) ==
  /\ job[r].phase # "idle"
  /\ Finish(r)
  /\ UNCHANGED <<orders, stock, moved>>
-----------------------------------------------------------------------------
Init ==
  /\ status = [o \in Orders |-> "ABSENT"]
  /\ line = NoLines
  /\ receipted = {}
  /\ received = [l \in Lines |-> 0]
  /\ stock = Nothing
  /\ moved = Nothing
  /\ job = [r \in Requests |-> Idle]
  /\ tx = [r \in Requests |-> NoTx]

OrderStep(r) ==
  \/ \E op \in OrderOps, o \in Orders : FetchOrder(r, op, o)
  \/ \E op \in DOMAIN Target : Transition(r, op)
  \/ PatchOrder(r)
  \/ DeleteOrder(r)
LineStep(r) ==
  \/ \E op \in LineOps, l \in Lines : FetchLine(r, op, l)
  \/ \E l \in Lines, q \in 1..MaxQuantity : AddLine(r, l, q)
  \/ \E q \in 1..MaxQuantity : ChangeLine(r, q)
  \/ \E o \in Orders : MoveLine(r, o)
  \/ DropLine(r)
ReceiptStep(r) ==
  \/ \E w \in Warehouses : BeginReceipt(r, w)
  \/ \E l \in Lines, q \in 1..MaxQuantity : ReceiveItem(r, l, q)
  \/ DeriveStatus(r)
  \/ CommitReceipt(r)
StockStep(r) ==
  \/ \E s \in Shelves, d \in (-MaxQuantity)..MaxQuantity : RecordMovement(r, s, d)
  \/ \E m \in Materials, from, to \in Warehouses, q \in 1..MaxQuantity : Transfer(r, m, from, to, q)
  \/ ApplyMovement(r)
  \/ CommitMoves(r)

Next ==
  \/ \E o \in Orders : CreateOrder(o)
  \/ \E r \in Requests : OrderStep(r) \/ LineStep(r) \/ ReceiptStep(r) \/ StockStep(r) \/ Abandon(r)

Spec == Init /\ [][Next]_vars
-----------------------------------------------------------------------------
(* What the properties below need of the environment.                      *)

(* One request at a time does what buyers do: orders and their lines.      *)
Buying == OrderOps \cup LineOps
BuyersAlone ==
  \A r, q \in Requests : r # q => OpsOf[r] \cap Buying = {} \/ OpsOf[q] \cap Buying = {}

(* No line goes to another order. *)
LinesStayPut ==
  (\A o, p \in Orders : o = p) \/ \A r \in Requests : "move" \notin OpsOf[r]
-----------------------------------------------------------------------------
(* The variables keep their types; no line is left without its order and   *)
(* no quantity is received that a line cannot hold.  (models.py: CASCADE   *)
(* from the order, validate_quantity.)                                     *)
TypeOK ==
  /\ status \in [Orders -> Statuses \cup Missing]
  /\ line \in [Lines -> Line \cup {NoLine}]
  /\ receipted \in SUBSET Orders
  /\ received \in [Lines -> Nat]
  /\ stock \in [Shelves -> Int]
  /\ moved \in [Shelves -> Int]
  /\ job \in [Requests -> Job]
  /\ tx \in [Requests -> Tx]

(* BR 12.6: the balance of a shelf is the sum of its movements, however    *)
(* receipts, movements and transfers interleave on it.  (The row lock of   *)
(* apply_stock_movement.)                                                  *)
StockMatchesLedger == stock = moved

(* Nothing more is received against a line than was ordered with it, the   *)
(* same line twice on one receipt included.  (receive_goods.)              *)
NeverOverReceived ==
  \A l \in Lines : received[l] <= line[l].quantity

(* The status of an order tells what has been received of all its lines.   *)
(* (_recalculate_po_receipt_status, ALLOWED_TRANSITIONS.)                  *)
StatusTellsReceipts ==
  \A o \in Orders :
    LET all == LinesOf(o)
        complete == \A l \in all : received[l] = line[l].quantity
        started == \E l \in all : received[l] > 0
    IN  CASE status[o] = "RECEIVED" -> complete /\ started
          [] status[o] = "PARTIALLY_RECEIVED" -> started /\ ~complete
          [] OTHER -> ~started

(* A receipt lands on the shelves of one warehouse in the same step, with  *)
(* the quantities received, and nothing else moves with it.                *)
(* (receive_goods: a partially applied receipt cannot happen.)             *)
Delivered(m) ==
  SumOf([l \in Lines |-> IF MaterialOf[l] = m THEN received'[l] - received[l] ELSE 0])
ReceiptsReachStock ==
  [][received' # received =>
       \E w \in Warehouses : \A s \in Shelves :
         stock'[s] - stock[s] = IF s[1] = w THEN Delivered(s[2]) ELSE 0]_vars

(* A transfer ends with both legs applied or none.  (transfer: atomic.)    *)
Transferred ==
  \E m \in Materials, from, to \in Warehouses, q \in 1..MaxQuantity :
    /\ from # to
    /\ stock' = [stock EXCEPT ![<<from, m>>] = @ - q, ![<<to, m>>] = @ + q]
TransfersConserve ==
  [][\A r \in Requests :
       job[r].op = "transfer" /\ job'[r].phase = "idle" => stock' = stock \/ Transferred]_vars

(* The lines of an order stay as they were submitted: none is added,       *)
(* changed, moved or removed while the order is past DRAFT.                *)
(* (PurchaseOrderItemViewSet.)                                             *)
SubmittedLinesStay ==
  [][\A l \in Lines, o \in Orders :
       /\ o \in {line[l].order, line'[l].order}
       /\ status[o] \notin {"DRAFT"} \cup Missing
       => line'[l] = line[l]]_vars
=============================================================================
