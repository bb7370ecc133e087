-------------------------- MODULE ReceivingProofs --------------------------
(***************************************************************************)
(* Proofs about Receiving, for any number of requests, orders, lines and   *)
(* warehouses.                                                             *)
(*                                                                         *)
(* Whoever is sent which operations: the types; the balances equal the     *)
(* sums of the movements (BR 12.6); receipts and transfers reach the stock *)
(* whole.  The balances rest on the row lock: a shelf is held by one       *)
(* transaction at a time (LocksApart), so what the holder wrote is still   *)
(* the committed balance plus its own movements (BuffersAgree).  The rest  *)
(* follows what a transaction has put against what its request holds       *)
(* (WorkFits).                                                             *)
(*                                                                         *)
(* When one request at a time is about orders (BuyersAlone), as many       *)
(* clerks as there are beside it: what it read is still so when it writes  *)
(* (CopiesFit), so nothing is received beyond what was ordered; and, when  *)
(* no line changes its order (LinesStayPut), submitted lines stay and the  *)
(* status tells what is received.                                          *)
(***************************************************************************)
EXTENDS Receiving, SumsProofs, TLAPS

(* A request that has fetched names an order; a line request names a line  *)
(* it has read; a receipt in progress names a warehouse.                   *)
JobsOK ==
  \A r \in Requests :
    /\ job[r].phase \in {"fetched", "items", "status"} => job[r].order \in Orders
    /\ job[r].phase = "fetched" /\ job[r].op \in LineOps =>
         job[r].line \in Lines /\ job[r].seen[job[r].line] \in Line
    /\ job[r].phase = "items" => job[r].warehouse \in Warehouses

Shape == TypeOK /\ JobsOK

LocksApart ==
  \A r, q \in Requests : r # q => tx[r].held \cap tx[q].held = {}

BuffersAgree ==
  \A r \in Requests, s \in Shelves :
    IF s \in tx[r].held THEN tx[r].balance[s] = stock[s] + tx[r].put[s]
                        ELSE tx[r].put[s] = 0
-----------------------------------------------------------------------------
LEMMA IdleIsAJob == Idle \in Job
  BY DEF Idle, Job, Missing, NoLine, NoLines

LEMMA NoTxIsATx == NoTx \in Tx
  BY DEF NoTx, Tx, Nothing

(* The end of a request keeps the shape of what the workers hold. *)
LEMMA FinishKeepsJobs ==
  ASSUME Shape, NEW r \in Requests, Finish(r)
  PROVE  job' \in [Requests -> Job] /\ tx' \in [Requests -> Tx] /\ JobsOK'
<1>1. job' \in [Requests -> Job]
  BY IdleIsAJob DEF Finish, Shape, TypeOK
<1>2. tx' \in [Requests -> Tx]
  BY NoTxIsATx DEF Finish, Shape, TypeOK
<1>3. JobsOK'
  BY DEF Finish, Shape, TypeOK, JobsOK, Idle, LineOps
<1>4. QED
  BY <1>1, <1>2, <1>3

LEMMA InitShape == Init => Shape
<1> SUFFICES ASSUME Init PROVE Shape
  OBVIOUS
<1>1. job \in [Requests -> Job] /\ tx \in [Requests -> Tx]
  BY IdleIsAJob, NoTxIsATx DEF Init
<1>2. TypeOK
  BY <1>1 DEF Init, TypeOK, Missing, Nothing, NoLines
<1>3. JobsOK
  BY DEF Init, JobsOK, Idle
<1>4. QED
  BY <1>2, <1>3 DEF Shape

(* Tx, field by field. *)
LEMMA TxFields ==
  ASSUME NEW t \in Tx
  PROVE  /\ t.todo \in Seq([shelf : Shelves, delta : Int])
         /\ t.held \in SUBSET Shelves
         /\ t.put \in [Shelves -> Int]
         /\ t.balance \in [Shelves -> Int]
  BY DEF Tx

LEMMA TodoReplaced ==
  ASSUME NEW t \in Tx, NEW moves \in Seq([shelf : Shelves, delta : Int])
  PROVE  [t EXCEPT !.todo = moves] \in Tx
  BY DEF Tx
-----------------------------------------------------------------------------
(* Starting a request and moving it on. *)

LEMMA StartedJob ==
  ASSUME Shape, NEW r \in Requests, NEW j \in Job, job' = [job EXCEPT ![r] = j],
         j.phase \in {"fetched", "items", "status"} => j.order \in Orders,
         j.phase = "fetched" /\ j.op \in LineOps => j.line \in Lines /\ j.seen[j.line] \in Line,
         j.phase = "items" => j.warehouse \in Warehouses
  PROVE  job' \in [Requests -> Job] /\ JobsOK'
  BY DEF Shape, TypeOK, JobsOK

LEMMA OneIsASequence ==
  ASSUME NEW S, NEW x \in S
  PROVE  <<x>> \in Seq(S)
  OBVIOUS

LEMMA HeadAndTail ==
  ASSUME NEW S, NEW s \in Seq(S), s # <<>>
  PROVE  Head(s) \in S /\ Tail(s) \in Seq(S)
  OBVIOUS

LEMMA MovesAreTyped ==
  ASSUME NEW s \in Shelves, NEW d \in Int
  PROVE  Move(s, d) \in [shelf : Shelves, delta : Int]
  BY DEF Move

LEMMA ShapeKept == Shape /\ [Next]_vars => Shape'
<1> SUFFICES ASSUME Shape, [Next]_vars PROVE Shape'
  OBVIOUS
<1> USE ReceivingAssumption
<1>1. ASSUME NEW o \in Orders, CreateOrder(o) PROVE Shape'
  <2>1. status' \in [Orders -> Statuses \cup Missing]
    BY <1>1 DEF CreateOrder, Shape, TypeOK, Statuses
  <2>2. QED
    BY <1>1, <2>1 DEF CreateOrder, Shape, TypeOK, JobsOK
<1>2. ASSUME NEW r \in Requests, NEW op \in OrderOps, NEW o \in Orders, FetchOrder(r, op, o)
      PROVE  Shape'
  <2> DEFINE j == [Idle EXCEPT !.op = op, !.phase = "fetched", !.order = o, !.read = status[o]]
  <2>1. op \in AllOps /\ op \notin LineOps /\ status[o] \in Statuses \cup Missing
    BY DEF AllOps, OrderOps, LineOps, Shape, TypeOK
  <2>2. j \in Job /\ j.op = op /\ j.phase = "fetched" /\ j.order = o
    <3>1. \A x \in Job, st \in Statuses \cup Missing :
            LET next == [x EXCEPT !.op = op, !.phase = "fetched", !.order = o, !.read = st]
            IN  next \in Job /\ next.op = op /\ next.phase = "fetched" /\ next.order = o
      BY <2>1, ZenonT(30) DEF Job
    <3>2. QED
      BY <2>1, <3>1, IdleIsAJob, Zenon
  <2>3. j.op \notin LineOps /\ j.phase = "fetched" /\ j.order \in Orders
    BY <2>1, <2>2
  <2>4. job' = [job EXCEPT ![r] = j]
    BY <1>2 DEF FetchOrder
  <2> HIDE DEF j
  <2>5. job' \in [Requests -> Job] /\ JobsOK'
    BY <2>2, <2>3, <2>4, StartedJob
  <2>6. QED
    BY <1>2, <2>5 DEF FetchOrder, orders, Shape, TypeOK
<1>3. ASSUME NEW r \in Requests, NEW op \in DOMAIN Target, Transition(r, op) PROVE Shape'
  <2>1. Target[op] \in Statuses
    BY DEF Target, Statuses
  <2>2. status' \in [Orders -> Statuses \cup Missing]
    BY <1>3, <2>1 DEF Transition, Shape, TypeOK
  <2>3. QED
    BY <1>3, <2>2, FinishKeepsJobs DEF Transition, Shape, TypeOK
<1>4. ASSUME NEW r \in Requests, PatchOrder(r) PROVE Shape'
  <2>1. status' \in [Orders -> Statuses \cup Missing]
    BY <1>4 DEF PatchOrder, RequireDraft, Shape, TypeOK, Statuses
  <2>2. QED
    BY <1>4, <2>1, FinishKeepsJobs DEF PatchOrder, Shape, TypeOK
<1>5. ASSUME NEW r \in Requests, DeleteOrder(r) PROVE Shape'
  <2>1. status' \in [Orders -> Statuses \cup Missing]
    BY <1>5 DEF DeleteOrder, Shape, TypeOK, Missing
  <2>2. line' \in [Lines -> Line \cup {NoLine}]
    BY <1>5 DEF DeleteOrder, Shape, TypeOK
  <2>3. QED
    BY <1>5, <2>1, <2>2, FinishKeepsJobs DEF DeleteOrder, Shape, TypeOK
<1>6. ASSUME NEW r \in Requests, NEW l \in Lines, NEW q \in 1..MaxQuantity, AddLine(r, l, q)
      PROVE  Shape'
  <2>1. job[r].order \in Orders
    BY <1>6 DEF AddLine, HasRead, Shape, JobsOK
  <2>2. [order |-> job[r].order, quantity |-> q] \in Line
    BY <2>1 DEF Line
  <2>3. line' \in [Lines -> Line \cup {NoLine}]
    BY <1>6, <2>2 DEF AddLine, Shape, TypeOK
  <2>4. QED
    BY <1>6, <2>3, FinishKeepsJobs DEF AddLine, Shape, TypeOK
<1>7. ASSUME NEW r \in Requests, NEW op \in LineOps, NEW l \in Lines, FetchLine(r, op, l)
      PROVE  Shape'
  <2> DEFINE j == [Idle EXCEPT !.op = op, !.phase = "fetched", !.line = l,
                     !.order = line[l].order, !.read = status[line[l].order],
                     !.seen = [NoLines EXCEPT ![l] = line[l]]]
  <2>1. line[l] \in Line /\ line[l].order \in Orders
    BY <1>7 DEF FetchLine, Shape, TypeOK, Line
  <2>2. op \in AllOps /\ status[line[l].order] \in Statuses \cup Missing
    BY <2>1 DEF AllOps, Shape, TypeOK
  <2>3. [NoLines EXCEPT ![l] = line[l]] \in [Lines -> Line \cup {NoLine}]
        /\ [NoLines EXCEPT ![l] = line[l]][l] = line[l]
    BY <2>1 DEF NoLines
  <2>4. ASSUME NEW x \in Job, NEW o \in Orders, NEW st \in Statuses \cup Missing,
               NEW seen \in [Lines -> Line \cup {NoLine}]
        PROVE  [x EXCEPT !.op = op, !.phase = "fetched", !.line = l,
                         !.order = o, !.read = st, !.seen = seen] \in Job
    BY <2>2 DEF Job
  <2>5. j \in Job
    BY <2>1, <2>2, <2>3, <2>4, IdleIsAJob, Zenon
  <2>6. /\ j.phase = "fetched" /\ j.order = line[l].order /\ j.line = l
        /\ j.seen = [NoLines EXCEPT ![l] = line[l]]
    BY DEF Idle
  <2>7. job' = [job EXCEPT ![r] = j]
    BY <1>7 DEF FetchLine
  <2> HIDE DEF j
  <2>8. job' \in [Requests -> Job] /\ JobsOK'
    BY <2>1, <2>3, <2>5, <2>6, <2>7, StartedJob
  <2>9. QED
    BY <1>7, <2>8 DEF FetchLine, orders, Shape, TypeOK
<1>8. ASSUME NEW r \in Requests, NEW op \in LineOps, NEW o \in Orders,
             NEW q \in 1..MaxQuantity, WriteLine(r, op, o, q)
      PROVE  Shape'
  <2>1. [order |-> o, quantity |-> q] \in Line
    BY DEF Line
  <2>2. line' \in [Lines -> Line \cup {NoLine}]
    BY <1>8, <2>1 DEF WriteLine, Shape, TypeOK
  <2>3. QED
    BY <1>8, <2>2, FinishKeepsJobs DEF WriteLine, Shape, TypeOK
<1>9. ASSUME NEW r \in Requests, NEW q \in 1..MaxQuantity, ChangeLine(r, q) PROVE Shape'
  <2>1. job[r].order \in Orders
    BY <1>9 DEF ChangeLine, WriteLine, HasRead, Shape, JobsOK
  <2>2. QED
    BY <1>8, <1>9, <2>1 DEF ChangeLine, LineOps
<1>10. ASSUME NEW r \in Requests, NEW o \in Orders, MoveLine(r, o) PROVE Shape'
  <2>1. job[r].line \in Lines /\ job[r].seen[job[r].line] \in Line
    BY <1>10 DEF MoveLine, WriteLine, HasRead, Shape, JobsOK, LineOps
  <2>2. job[r].seen[job[r].line].quantity \in 1..MaxQuantity
    BY <2>1 DEF Line
  <2>3. QED
    BY <1>8, <1>10, <2>2 DEF MoveLine, LineOps
<1>11. ASSUME NEW r \in Requests, DropLine(r) PROVE Shape'
  <2>1. line' \in [Lines -> Line \cup {NoLine}]
    BY <1>11 DEF DropLine, Shape, TypeOK
  <2>2. QED
    BY <1>11, <2>1, FinishKeepsJobs DEF DropLine, Shape, TypeOK
<1>12. ASSUME NEW r \in Requests, NEW w \in Warehouses, BeginReceipt(r, w) PROVE Shape'
  <2> DEFINE read == [l \in Lines |-> IF line[l].order = job[r].order THEN line[l] ELSE NoLine]
             j == [job[r] EXCEPT !.phase = "items", !.warehouse = w, !.seen = read]
  <2>1. read \in [Lines -> Line \cup {NoLine}]
    BY DEF Shape, TypeOK
  <2>2. job[r] \in Job /\ job[r].order \in Orders
    BY <1>12 DEF BeginReceipt, HasRead, Shape, TypeOK, JobsOK
  <2>3. job' = [job EXCEPT ![r] = j]
    BY <1>12 DEF BeginReceipt, Shape, TypeOK, Job
  <2> HIDE DEF read
  <2>4. j \in Job /\ j.phase = "items" /\ j.order \in Orders /\ j.warehouse \in Warehouses
    BY <2>1, <2>2 DEF Job
  <2> HIDE DEF j
  <2>5. job' \in [Requests -> Job] /\ JobsOK'
    BY <2>3, <2>4, StartedJob
  <2>6. QED
    BY <1>12, <2>5 DEF BeginReceipt, orders, Shape, TypeOK
<1>13. ASSUME NEW r \in Requests, NEW l \in Lines, NEW q \in 1..MaxQuantity, ReceiveItem(r, l, q)
      PROVE  Shape'
  <2> DEFINE j == [job[r] EXCEPT !.got[l] = @ + q]
             moves == <<Move(<<job[r].warehouse, MaterialOf[l]>>, q)>>
             t == [tx[r] EXCEPT !.todo = moves]
  <2>1. job[r] \in Job /\ job[r].phase = "items" /\ job[r].order \in Orders
        /\ job[r].warehouse \in Warehouses
    BY <1>13 DEF ReceiveItem, Shape, TypeOK, JobsOK
  <2>2. [job[r].got EXCEPT ![l] = @ + q] \in [Lines -> Nat]
    BY <2>1 DEF Job
  <2>3. j \in Job /\ j.phase = "items" /\ j.order \in Orders /\ j.warehouse \in Warehouses
    BY <2>1, <2>2 DEF Job
  <2>4. job' = [job EXCEPT ![r] = j]
    BY <1>13 DEF ReceiveItem
  <2>5. <<job[r].warehouse, MaterialOf[l]>> \in Shelves
    BY <2>1 DEF Shelves
  <2>6. moves \in Seq([shelf : Shelves, delta : Int])
    <3>1. q \in Int
      OBVIOUS
    <3>2. Move(<<job[r].warehouse, MaterialOf[l]>>, q) \in [shelf : Shelves, delta : Int]
      BY <2>5, <3>1, MovesAreTyped, Zenon
    <3>3. QED
      BY <3>2, OneIsASequence, Zenon
  <2>7. tx' = [tx EXCEPT ![r] = t]
    BY <1>13 DEF ReceiveItem, Delivery
  <2>8. tx[r] \in Tx
    BY DEF Shape, TypeOK
  <2> HIDE DEF moves
  <2>9. t \in Tx
    BY <2>6, <2>8, TodoReplaced
  <2> HIDE DEF j, t
  <2>10. job' \in [Requests -> Job] /\ JobsOK'
    BY <2>3, <2>4, StartedJob
  <2>11. tx' \in [Requests -> Tx]
    BY <2>7, <2>9 DEF Shape, TypeOK
  <2>12. QED
    BY <1>13, <2>10, <2>11 DEF ReceiveItem, orders, Shape, TypeOK
<1>14. ASSUME NEW r \in Requests, DeriveStatus(r) PROVE Shape'
  <2> DEFINE j == [job[r] EXCEPT !.phase = "status", !.to = DerivedStatus(r)]
  <2>1. job[r] \in Job /\ job[r].order \in Orders
    BY <1>14 DEF DeriveStatus, Shape, TypeOK, JobsOK
  <2>2. DerivedStatus(r) \in Statuses \cup Missing
    BY <2>1 DEF DerivedStatus, Statuses, Job
  <2>3. job' = [job EXCEPT ![r] = j]
    BY <1>14 DEF DeriveStatus, Shape, TypeOK, Job
  <2>4. j \in Job /\ j.phase = "status" /\ j.order \in Orders
    BY <2>1, <2>2 DEF Job
  <2> HIDE DEF j
  <2>5. job' \in [Requests -> Job] /\ JobsOK'
    BY <2>3, <2>4, StartedJob
  <2>6. QED
    BY <1>14, <2>5 DEF DeriveStatus, orders, Shape, TypeOK
<1>15. ASSUME NEW r \in Requests, CommitStock(r)
      PROVE  /\ stock' \in [Shelves -> Int] /\ moved' \in [Shelves -> Int]
             /\ job' \in [Requests -> Job] /\ tx' \in [Requests -> Tx] /\ JobsOK'
  <2>1. tx[r].put \in [Shelves -> Int] /\ tx[r].balance \in [Shelves -> Int]
    BY TxFields DEF Shape, TypeOK
  <2>2. stock' \in [Shelves -> Int]
    BY <1>15, <2>1 DEF CommitStock, Committed, Shape, TypeOK
  <2>3. moved' \in [Shelves -> Int]
    BY <1>15, <2>1 DEF CommitStock, Shape, TypeOK
  <2>4. QED
    BY <1>15, <2>2, <2>3, FinishKeepsJobs DEF CommitStock
<1>16. ASSUME NEW r \in Requests, CommitReceipt(r) PROVE Shape'
  <2>1. job[r] \in Job /\ job[r].order \in Orders
    BY <1>16 DEF CommitReceipt, Shape, TypeOK, JobsOK
  <2>2. job[r].to \in Statuses \cup Missing /\ job[r].got \in [Lines -> Nat]
    BY <2>1 DEF Job
  <2>3. status' \in [Orders -> Statuses \cup Missing]
    BY <1>16, <2>2 DEF CommitReceipt, Shape, TypeOK
  <2>4. receipted' \in SUBSET Orders
    BY <1>16, <2>1 DEF CommitReceipt, Shape, TypeOK
  <2>5. received' \in [Lines -> Nat]
    BY <1>16, <2>2 DEF CommitReceipt, ReceivedFor, Shape, TypeOK
  <2>6. QED
    BY <1>15, <1>16, <2>3, <2>4, <2>5 DEF CommitReceipt, Shape, TypeOK
<1>17. ASSUME NEW r \in Requests, NEW op \in StockOps,
              NEW moves \in Seq([shelf : Shelves, delta : Int]), StartMoves(r, op, moves)
       PROVE  Shape'
  <2> DEFINE j == [Idle EXCEPT !.op = op, !.phase = "stock"]
             t == [tx[r] EXCEPT !.todo = moves]
  <2>1. j \in Job /\ j.phase = "stock"
    BY IdleIsAJob, ZenonT(30) DEF Job, AllOps
  <2>2. tx[r] \in Tx
    BY DEF Shape, TypeOK
  <2>3. t \in Tx
    BY <2>2, TodoReplaced
  <2>4. job' = [job EXCEPT ![r] = j] /\ tx' = [tx EXCEPT ![r] = t]
    BY <1>17 DEF StartMoves
  <2> HIDE DEF j, t
  <2>5. job' \in [Requests -> Job] /\ JobsOK'
    BY <2>1, <2>4, StartedJob
  <2>6. tx' \in [Requests -> Tx]
    BY <2>3, <2>4 DEF Shape, TypeOK
  <2>7. QED
    BY <1>17, <2>5, <2>6 DEF StartMoves, orders, Shape, TypeOK
<1>18. ASSUME NEW r \in Requests, NEW s \in Shelves, NEW d \in (-MaxQuantity)..MaxQuantity,
              RecordMovement(r, s, d)
       PROVE  Shape'
  <2>1. <<Move(s, d)>> \in Seq([shelf : Shelves, delta : Int])
    BY MovesAreTyped, OneIsASequence
  <2>2. QED
    BY <1>17, <1>18, <2>1 DEF RecordMovement, StockOps
<1>19. ASSUME NEW r \in Requests, NEW m \in Materials, NEW from \in Warehouses,
              NEW to \in Warehouses, NEW q \in 1..MaxQuantity, Transfer(r, m, from, to, q)
       PROVE  Shape'
  <2>1. <<from, m>> \in Shelves /\ <<to, m>> \in Shelves /\ -q \in Int /\ q \in Int
    BY DEF Shelves
  <2>2. Move(<<from, m>>, -q) \in [shelf : Shelves, delta : Int]
        /\ Move(<<to, m>>, q) \in [shelf : Shelves, delta : Int]
    BY <2>1, MovesAreTyped
  <2>3. Legs(m, from, to, q) \in Seq([shelf : Shelves, delta : Int])
    BY <2>2 DEF Legs
  <2>4. QED
    BY <1>17, <1>19, <2>3 DEF Transfer, StockOps
<1>20. ASSUME NEW r \in Requests, ApplyMovement(r) PROVE Shape'
  <2>1. PICK s \in Shelves, d \in Int, n \in Int :
          tx' = [tx EXCEPT ![r] = [todo |-> Tail(tx[r].todo), held |-> tx[r].held \cup {s},
                                   put |-> [tx[r].put EXCEPT ![s] = tx[r].put[s] + d],
                                   balance |-> [tx[r].balance EXCEPT ![s] = n]]]
    <3>1. tx[r].todo \in Seq([shelf : Shelves, delta : Int]) /\ tx[r].todo # <<>>
      BY <1>20, TxFields DEF ApplyMovement, Shape, TypeOK
    <3>2. Head(tx[r].todo) \in [shelf : Shelves, delta : Int]
      BY <3>1, HeadAndTail
    <3>3. Head(tx[r].todo).shelf \in Shelves /\ Head(tx[r].todo).delta \in Int
      BY <3>2
    <3>4. tx[r].balance \in [Shelves -> Int] /\ stock \in [Shelves -> Int]
      BY TxFields DEF Shape, TypeOK
    <3>5. stock[Head(tx[r].todo).shelf] + Head(tx[r].todo).delta \in Int
          /\ tx[r].balance[Head(tx[r].todo).shelf] + Head(tx[r].todo).delta \in Int
      BY <3>3, <3>4
    <3>6. QED
      BY <1>20, <3>3, <3>5 DEF ApplyMovement
  <2>2. /\ tx[r].todo \in Seq([shelf : Shelves, delta : Int]) /\ tx[r].todo # <<>>
        /\ tx[r].held \in SUBSET Shelves
        /\ tx[r].put \in [Shelves -> Int]
        /\ tx[r].balance \in [Shelves -> Int]
    BY <1>20, TxFields DEF ApplyMovement, Shape, TypeOK
  <2>3. Tail(tx[r].todo) \in Seq([shelf : Shelves, delta : Int])
    BY <2>2, HeadAndTail
  <2>4. [todo |-> Tail(tx[r].todo), held |-> tx[r].held \cup {s},
         put |-> [tx[r].put EXCEPT ![s] = tx[r].put[s] + d],
         balance |-> [tx[r].balance EXCEPT ![s] = n]] \in Tx
    BY <2>2, <2>3 DEF Tx
  <2>5. tx' \in [Requests -> Tx]
    <3> DEFINE t == [todo |-> Tail(tx[r].todo), held |-> tx[r].held \cup {s},
                     put |-> [tx[r].put EXCEPT ![s] = tx[r].put[s] + d],
                     balance |-> [tx[r].balance EXCEPT ![s] = n]]
    <3>1. tx' = [tx EXCEPT ![r] = t]
      BY <2>1
    <3>2. t \in Tx
      BY <2>4
    <3> HIDE DEF t
    <3>3. QED
      BY <3>1, <3>2 DEF Shape, TypeOK
  <2>6. QED
    <3>1. UNCHANGED <<status, line, receipted, received, stock, moved, job>>
      BY <1>20 DEF ApplyMovement, orders
    <3>2. TypeOK'
      BY <2>5, <3>1, Zenon DEF Shape, TypeOK
    <3>3. JobsOK'
      BY <3>1 DEF Shape, JobsOK
    <3>4. QED
      BY <3>2, <3>3 DEF Shape
<1>21. ASSUME NEW r \in Requests, CommitMoves(r) PROVE Shape'
  BY <1>15, <1>21 DEF CommitMoves, orders, Shape, TypeOK
<1>22. ASSUME NEW r \in Requests, Abandon(r) PROVE Shape'
  BY <1>22, FinishKeepsJobs DEF Abandon, orders, Shape, TypeOK
<1>23. CASE UNCHANGED vars
  BY <1>23 DEF vars, Shape, TypeOK, JobsOK
<1>24. QED
  BY <1>1, <1>2, <1>3, <1>4, <1>5, <1>6, <1>7, <1>9, <1>10, <1>11, <1>12, <1>13, <1>14,
     <1>16, <1>18, <1>19, <1>20, <1>21, <1>22, <1>23
     DEF Next, OrderStep, LineStep, ReceiptStep, StockStep

(* The variables of Receiving keep their types. *)
THEOREM TypeCorrect == Spec => []TypeOK
<1>1. Spec => []Shape
  BY InitShape, ShapeKept, PTL DEF Spec
<1>2. Shape => TypeOK
  BY DEF Shape
<1>3. QED
  BY <1>1, <1>2, PTL
-----------------------------------------------------------------------------
(* A step that leaves the balances alone and gives a transaction other     *)
(* work to do keeps the agreement of the buffers.                          *)
StockOK == LocksApart /\ BuffersAgree /\ StockMatchesLedger

LEMMA OtherWork ==
  ASSUME Shape, StockOK, NEW r \in Requests, NEW t, tx' = [tx EXCEPT ![r] = t],
         t.held = tx[r].held, t.put = tx[r].put, t.balance = tx[r].balance,
         stock' = stock, moved' = moved
  PROVE  StockOK'
<1>1. \A q \in Requests : /\ tx'[q].held = tx[q].held /\ tx'[q].put = tx[q].put
                          /\ tx'[q].balance = tx[q].balance
  BY DEF Shape, TypeOK
<1>2. QED
  BY <1>1 DEF StockOK, LocksApart, BuffersAgree, StockMatchesLedger

(* A transaction that ends without a commit leaves nothing behind. *)
LEMMA RolledBack ==
  ASSUME Shape, StockOK, NEW r \in Requests, Finish(r), stock' = stock, moved' = moved
  PROVE  StockOK'
<1>1. tx'[r] = NoTx /\ \A q \in Requests \ {r} : tx'[q] = tx[q]
  BY DEF Finish, Shape, TypeOK
<1>2. NoTx.held = {} /\ \A s \in Shelves : NoTx.put[s] = 0
  BY DEF NoTx, Nothing
<1>3. LocksApart'
  BY <1>1, <1>2 DEF StockOK, LocksApart
<1>4. BuffersAgree'
  BY <1>1, <1>2 DEF StockOK, BuffersAgree
<1>5. QED
  BY <1>3, <1>4 DEF StockOK, StockMatchesLedger

(* A commit adds to each balance what it adds to the ledger, and touches   *)
(* no row that another transaction holds.                                  *)
LEMMA CommittedTogether ==
  ASSUME Shape, StockOK, NEW r \in Requests, CommitStock(r)
  PROVE  StockOK'
<1>1. tx'[r] = NoTx /\ \A q \in Requests \ {r} : tx'[q] = tx[q]
  BY DEF CommitStock, Finish, Shape, TypeOK
<1>2. NoTx.held = {} /\ \A s \in Shelves : NoTx.put[s] = 0
  BY DEF NoTx, Nothing
<1>3. /\ stock \in [Shelves -> Int] /\ moved \in [Shelves -> Int]
      /\ tx[r].put \in [Shelves -> Int] /\ tx[r].balance \in [Shelves -> Int]
  BY TxFields DEF Shape, TypeOK
<1>4. \A s \in Shelves : stock'[s] = stock[s] + tx[r].put[s]
  BY <1>3 DEF CommitStock, Committed, StockOK, BuffersAgree
<1>5. stock' = moved'
  <2>1. stock' = [s \in Shelves |-> stock'[s]]
    BY DEF CommitStock, Committed
  <2>2. moved' = [s \in Shelves |-> moved[s] + tx[r].put[s]]
    BY DEF CommitStock
  <2>3. \A s \in Shelves : stock'[s] = moved[s] + tx[r].put[s]
    BY <1>4 DEF StockOK, StockMatchesLedger
  <2>4. QED
    BY <2>1, <2>2, <2>3
<1>6. LocksApart'
  BY <1>1, <1>2 DEF StockOK, LocksApart
<1>7. \A s \in Shelves : s \notin tx[r].held => stock'[s] = stock[s]
  BY DEF CommitStock, Committed
<1>8. BuffersAgree'
  <2> SUFFICES ASSUME NEW q \in Requests, NEW s \in Shelves
               PROVE  IF s \in tx'[q].held THEN tx'[q].balance[s] = stock'[s] + tx'[q].put[s]
                                           ELSE tx'[q].put[s] = 0
    BY DEF BuffersAgree
  <2>1. CASE q = r
    BY <1>1, <1>2, <2>1
  <2>2. CASE q # r
    <3>1. s \in tx[q].held => s \notin tx[r].held
      BY <2>2 DEF StockOK, LocksApart
    <3>2. QED
      BY <1>1, <1>7, <2>2, <3>1 DEF StockOK, BuffersAgree
  <2>3. QED
    BY <2>1, <2>2
<1>9. QED
  BY <1>5, <1>6, <1>8 DEF StockOK, StockMatchesLedger

(* Under the row lock, the balance read is the committed one, or what this *)
(* transaction made of it.                                                 *)
LEMMA AppliedUnderLock ==
  ASSUME Shape, StockOK, NEW r \in Requests, ApplyMovement(r)
  PROVE  StockOK'
<1> DEFINE x == Head(tx[r].todo).shelf
           d == Head(tx[r].todo).delta
           n == IF x \in tx[r].held THEN tx[r].balance[x] ELSE stock[x]
           t == [todo |-> Tail(tx[r].todo), held |-> tx[r].held \cup {x},
                 put |-> [tx[r].put EXCEPT ![x] = tx[r].put[x] + d],
                 balance |-> [tx[r].balance EXCEPT ![x] = n + d]]
<1>1. Head(tx[r].todo) \in [shelf : Shelves, delta : Int]
  BY TxFields, HeadAndTail DEF ApplyMovement, Shape, TypeOK
<1>2. x \in Shelves /\ d \in Int
  BY <1>1
<1>3. tx' = [tx EXCEPT ![r] = t]
  BY DEF ApplyMovement
<1>4. stock' = stock /\ moved' = moved /\ ShelfFree(r, x)
  BY DEF ApplyMovement
<1>5. /\ stock \in [Shelves -> Int]
      /\ tx[r].put \in [Shelves -> Int] /\ tx[r].balance \in [Shelves -> Int]
  BY TxFields DEF Shape, TypeOK
<1>6. n = stock[x] + tx[r].put[x]
  BY <1>2, <1>5 DEF StockOK, BuffersAgree
<1> HIDE DEF n
<1>7. /\ t.held = tx[r].held \cup {x}
      /\ \A s \in Shelves : t.put[s] = IF s = x THEN tx[r].put[s] + d ELSE tx[r].put[s]
      /\ \A s \in Shelves : t.balance[s] = IF s = x THEN n + d ELSE tx[r].balance[s]
  BY <1>2, <1>5
<1> HIDE DEF x, d, t
<1>8. tx'[r] = t /\ \A q \in Requests \ {r} : tx'[q] = tx[q]
  BY <1>3 DEF Shape, TypeOK
<1>9. LocksApart'
  <2>1. \A q \in Requests \ {r} : tx'[q].held \cap t.held = {}
    BY <1>4, <1>7, <1>8 DEF StockOK, LocksApart, ShelfFree
  <2>2. QED
    BY <1>8, <2>1 DEF StockOK, LocksApart
<1>10. BuffersAgree'
  <2> SUFFICES ASSUME NEW q \in Requests, NEW s \in Shelves
               PROVE  IF s \in tx'[q].held THEN tx'[q].balance[s] = stock'[s] + tx'[q].put[s]
                                           ELSE tx'[q].put[s] = 0
    BY DEF BuffersAgree
  <2>1. CASE q # r
    BY <1>4, <1>8, <2>1 DEF StockOK, BuffersAgree
  <2>2. CASE q = r /\ s # x
    BY <1>4, <1>7, <1>8, <2>2 DEF StockOK, BuffersAgree
  <2>3. CASE q = r /\ s = x
    <3>1. tx'[q].put[s] = tx[r].put[x] + d /\ tx'[q].balance[s] = n + d
      BY <1>7, <1>8, <2>3
    <3>2. stock[x] \in Int /\ tx[r].put[x] \in Int
      BY <1>2, <1>5
    <3>3. n + d = stock[x] + (tx[r].put[x] + d)
      BY <1>2, <1>6, <3>2
    <3>4. QED
      BY <1>4, <1>7, <1>8, <2>3, <3>1, <3>3
  <2>4. QED
    BY <2>1, <2>2, <2>3
<1>11. QED
  BY <1>4, <1>9, <1>10 DEF StockOK, StockMatchesLedger

LEMMA StockKept == Shape /\ StockOK /\ [Next]_vars => StockOK'
<1> SUFFICES ASSUME Shape, StockOK, [Next]_vars PROVE StockOK'
  OBVIOUS
<1>1. ASSUME UNCHANGED <<stock, moved, tx>> PROVE StockOK'
  BY <1>1 DEF StockOK, LocksApart, BuffersAgree, StockMatchesLedger
<1>2. ASSUME NEW o \in Orders, CreateOrder(o) PROVE StockOK'
  BY <1>1, <1>2 DEF CreateOrder
<1>3. ASSUME NEW r \in Requests, OrderStep(r) PROVE StockOK'
  BY <1>1, <1>3, RolledBack, ZenonT(30) DEF OrderStep, FetchOrder, Transition, PatchOrder, DeleteOrder
<1>4. ASSUME NEW r \in Requests, LineStep(r) PROVE StockOK'
  BY <1>1, <1>4, RolledBack
     DEF LineStep, FetchLine, AddLine, ChangeLine, MoveLine, WriteLine, DropLine
<1>5. ASSUME NEW r \in Requests, NEW l \in Lines, NEW q \in 1..MaxQuantity, ReceiveItem(r, l, q)
      PROVE  StockOK'
  <2>1. PICK moves : tx' = [tx EXCEPT ![r] = [tx[r] EXCEPT !.todo = moves]]
    BY <1>5 DEF ReceiveItem
  <2>2. tx[r] \in Tx
    BY DEF Shape, TypeOK
  <2> DEFINE t == [tx[r] EXCEPT !.todo = moves]
  <2>3. t.held = tx[r].held /\ t.put = tx[r].put /\ t.balance = tx[r].balance
    BY <2>2 DEF Tx
  <2> HIDE DEF t
  <2>4. tx' = [tx EXCEPT ![r] = t] /\ stock' = stock /\ moved' = moved
    BY <1>5, <2>1 DEF t, ReceiveItem
  <2>5. QED
    BY <2>3, <2>4, OtherWork
<1>6. ASSUME NEW r \in Requests, NEW op, NEW moves, StartMoves(r, op, moves) PROVE StockOK'
  <2>1. tx[r] \in Tx
    BY DEF Shape, TypeOK
  <2> DEFINE t == [tx[r] EXCEPT !.todo = moves]
  <2>2. t.held = tx[r].held /\ t.put = tx[r].put /\ t.balance = tx[r].balance
    BY <2>1 DEF Tx
  <2> HIDE DEF t
  <2>3. tx' = [tx EXCEPT ![r] = t] /\ stock' = stock /\ moved' = moved
    BY <1>6 DEF t, StartMoves
  <2>4. QED
    BY <2>2, <2>3, OtherWork
<1>7. ASSUME NEW r \in Requests, ReceiptStep(r) PROVE StockOK'
  <2>1. ASSUME NEW w \in Warehouses, BeginReceipt(r, w) PROVE StockOK'
    BY <1>1, <2>1 DEF BeginReceipt
  <2>2. ASSUME DeriveStatus(r) PROVE StockOK'
    BY <1>1, <2>2 DEF DeriveStatus
  <2>3. ASSUME CommitReceipt(r) PROVE StockOK'
    BY <2>3, CommittedTogether DEF CommitReceipt
  <2>4. QED
    BY <1>5, <1>7, <2>1, <2>2, <2>3 DEF ReceiptStep
<1>8. ASSUME NEW r \in Requests, StockStep(r) PROVE StockOK'
  <2>1. ASSUME NEW s \in Shelves, NEW d \in (-MaxQuantity)..MaxQuantity, RecordMovement(r, s, d)
        PROVE  StockOK'
    BY <1>6, <2>1 DEF RecordMovement
  <2>2. ASSUME NEW m \in Materials, NEW from \in Warehouses, NEW to \in Warehouses,
               NEW q \in 1..MaxQuantity, Transfer(r, m, from, to, q)
        PROVE  StockOK'
    BY <1>6, <2>2 DEF Transfer
  <2>3. ASSUME CommitMoves(r) PROVE StockOK'
    BY <2>3, CommittedTogether DEF CommitMoves
  <2>4. QED
    BY <1>8, <2>1, <2>2, <2>3, AppliedUnderLock DEF StockStep
<1>9. ASSUME NEW r \in Requests, Abandon(r) PROVE StockOK'
  BY <1>9, RolledBack DEF Abandon
<1>10. CASE UNCHANGED vars
  BY <1>1, <1>10 DEF vars
<1>11. QED
  BY <1>2, <1>3, <1>4, <1>7, <1>8, <1>9, <1>10 DEF Next

LEMMA InitStock == Init => StockOK
  BY DEF Init, StockOK, LocksApart, BuffersAgree, StockMatchesLedger, NoTx, Nothing

(* However many receipts, movements and transfers run side by side, every  *)
(* balance is the sum of its committed movements.                          *)
THEOREM StockAlwaysMatches == Spec => []StockMatchesLedger
<1>1. Init => Shape /\ StockOK
  BY InitShape, InitStock
<1>2. Shape /\ StockOK /\ [Next]_vars => (Shape /\ StockOK)'
  BY ShapeKept, StockKept
<1>3. Shape /\ StockOK => StockMatchesLedger
  BY DEF StockOK
<1>4. QED
  BY <1>1, <1>2, <1>3, PTL DEF Spec
-----------------------------------------------------------------------------
(* What the worker of a request holds goes with what its transaction has   *)
(* done: the put of a receipt, with the movement still to apply, is what   *)
(* the items received make due on each shelf; a transfer is at one of      *)
(* three points.                                                           *)
Delivering == {"items", "status"}

KindFits(r, j, t) ==
  /\ j.phase \in {"idle", "fetched"} => t = NoTx
  /\ j.phase = "idle" => j = Idle
  /\ j.phase # "idle" => j.op \in OpsOf[r]
  /\ j.phase = "fetched" => j.op \in Buying
  /\ j.phase \in Delivering => j.op = "receive" /\ j.warehouse \in Warehouses
  /\ j.phase = "stock" => j.op \in StockOps
  /\ j.phase \notin Delivering => \A l \in Lines : j.got[l] = 0

GotOf(j, m) == [l \in Lines |-> IF MaterialOf[l] = m THEN j.got[l] ELSE 0]
Due(j, s) == IF s[1] = j.warehouse THEN SumOf(GotOf(j, s[2])) ELSE 0
AllPut(j, t) == t.todo = <<>> /\ \A s \in Shelves : t.put[s] = Due(j, s)
OneToPut(j, t) ==
  \E x \in Shelves, q \in 1..MaxQuantity :
    /\ t.todo = <<Move(x, q)>>
    /\ \A s \in Shelves : t.put[s] + (IF s = x THEN q ELSE 0) = Due(j, s)
DeliveryFits(j, t) ==
  /\ j.phase = "items" => AllPut(j, t) \/ OneToPut(j, t)
  /\ j.phase = "status" => AllPut(j, t)

LegsAt(t, m, from, to, q) ==
  \/ t.todo = Legs(m, from, to, q) /\ t.put = Nothing
  \/ t.todo = <<Move(<<to, m>>, q)>> /\ t.put = [Nothing EXCEPT ![<<from, m>>] = -q]
  \/ t.todo = <<>> /\ t.put = [Nothing EXCEPT ![<<from, m>>] = -q, ![<<to, m>>] = q]
TransferFits(j, t) ==
  j.op = "transfer" =>
    \E m \in Materials, from \in Warehouses, to \in Warehouses, q \in 1..MaxQuantity :
      from # to /\ LegsAt(t, m, from, to, q)

Fits(r, j, t) == KindFits(r, j, t) /\ DeliveryFits(j, t) /\ TransferFits(j, t)
WorkFits == \A r \in Requests : Fits(r, job[r], tx[r])

OnOrder(r) == job[r].phase \in {"fetched", "items", "status"}

LinesFit ==
  \A l \in Lines :
    /\ line[l] # NoLine => Exists(line[l].order)
    /\ received[l] <= line[l].quantity
    /\ received[l] > 0 => status[line[l].order] # "DRAFT"

CopyFits(r) ==
  /\ OnOrder(r) => Exists(job[r].order) /\ job[r].read = status[job[r].order]
  /\ job[r].phase = "fetched" /\ job[r].op \in LineOps =>
       job[r].seen[job[r].line] = line[job[r].line] /\ line[job[r].line].order = job[r].order
  /\ job[r].phase \in Delivering =>
       /\ job[r].read \in ReceivableStatuses
       /\ \A l \in Lines : job[r].seen[l] = IF line[l].order = job[r].order THEN line[l] ELSE NoLine
       /\ \A l \in Lines : job[r].got[l] > 0 =>
            line[l].order = job[r].order /\ ReceivedFor(r, l) <= line[l].quantity
  /\ job[r].phase = "status" =>
       job[r].to = DerivedStatus(r) /\ \E l \in Lines : job[r].got[l] > 0
CopiesFit == \A r \in Requests : CopyFits(r)
-----------------------------------------------------------------------------
(* The work of every request fits, whoever is sent what. *)

LEMMA OneWorker ==
  ASSUME Shape, WorkFits, NEW r \in Requests,
         \A q \in Requests \ {r} : job'[q] = job[q] /\ tx'[q] = tx[q],
         Fits(r, job'[r], tx'[r])
  PROVE  WorkFits'
<1>1. ASSUME NEW q \in Requests PROVE Fits(q, job'[q], tx'[q])
  BY DEF WorkFits
<1>2. QED
  BY <1>1 DEF WorkFits

LEMMA IdleFits ==
  ASSUME NEW r \in Requests
  PROVE  Fits(r, Idle, NoTx)
  BY DEF Fits, KindFits, DeliveryFits, TransferFits, Idle, Delivering

LEMMA FinishedFits ==
  ASSUME Shape, WorkFits, NEW r \in Requests, Finish(r)
  PROVE  WorkFits'
<1>1. /\ job'[r] = Idle /\ tx'[r] = NoTx
      /\ \A q \in Requests \ {r} : job'[q] = job[q] /\ tx'[q] = tx[q]
  BY DEF Finish, Shape, TypeOK
<1>2. QED
  BY <1>1, IdleFits, OneWorker

(* A buyer's request begins by reading, with no transaction open. *)
LEMMA FetchedFits ==
  ASSUME Shape, WorkFits, NEW r \in Requests, NEW op \in OpsOf[r], op \in Buying,
         job[r].phase = "idle", NEW j, job' = [job EXCEPT ![r] = j], tx' = tx,
         j.op = op, j.phase = "fetched", \A l \in Lines : j.got[l] = 0
  PROVE  WorkFits'
<1>1. job'[r] = j /\ \A q \in Requests \ {r} : job'[q] = job[q]
  BY DEF Shape, TypeOK
<1>2. tx[r] = NoTx
  BY DEF WorkFits, Fits, KindFits
<1>3. op # "transfer"
  BY DEF Buying, OrderOps, LineOps
<1>4. Fits(r, j, NoTx)
  BY <1>3 DEF Fits, KindFits, DeliveryFits, TransferFits, Delivering
<1>5. QED
  BY <1>1, <1>2, <1>4, OneWorker

LEMMA NothingDue ==
  ASSUME Shape, NEW j, \A l \in Lines : j.got[l] = 0, NEW s \in Shelves
  PROVE  Due(j, s) = 0
<1>1. GotOf(j, s[2]) \in [Lines -> Nat] /\ \A l \in Lines : GotOf(j, s[2])[l] = 0
  BY DEF GotOf
<1>2. SumOf(GotOf(j, s[2])) = 0
  BY <1>1, SumOfZeros
<1>3. QED
  BY <1>2 DEF Due

LEMMA BegunFits ==
  ASSUME Shape, WorkFits, NEW r \in Requests, NEW w \in Warehouses, BeginReceipt(r, w)
  PROVE  WorkFits'
<1>1. job[r] \in Job /\ job[r].phase = "fetched" /\ job[r].op = "receive"
  BY DEF BeginReceipt, HasRead, Shape, TypeOK
<1>2. /\ job'[r].op = "receive" /\ job'[r].phase = "items"
      /\ job'[r].warehouse = w /\ job'[r].got = job[r].got
  BY <1>1 DEF BeginReceipt, Shape, TypeOK, Job
<1>3. \A q \in Requests \ {r} : job'[q] = job[q] /\ tx'[q] = tx[q]
  BY DEF BeginReceipt, Shape, TypeOK
<1>4. tx'[r] = NoTx
  BY <1>1 DEF BeginReceipt, WorkFits, Fits, KindFits
<1>5. "receive" \in OpsOf[r] /\ \A l \in Lines : job[r].got[l] = 0
  BY <1>1 DEF WorkFits, Fits, KindFits, Delivering
<1>6. AllPut(job'[r], NoTx)
  <2>1. \A s \in Shelves : Due(job'[r], s) = 0
    BY <1>2, <1>5, NothingDue
  <2>2. NoTx.todo = <<>> /\ \A s \in Shelves : NoTx.put[s] = 0
    BY DEF NoTx, Nothing
  <2>3. QED
    BY <2>1, <2>2 DEF AllPut
<1>7. Fits(r, job'[r], NoTx)
  BY <1>2, <1>5, <1>6 DEF Fits, KindFits, DeliveryFits, TransferFits, Delivering
<1>8. QED
  BY <1>3, <1>4, <1>7, OneWorker

(* An item received raises what is due of its material by its quantity. *)
LEMMA DueRaised ==
  ASSUME Shape, NEW r \in Requests, NEW l \in Lines, NEW q \in 1..MaxQuantity,
         NEW j, j.warehouse = job[r].warehouse, job[r].warehouse \in Warehouses,
         j.got = [job[r].got EXCEPT ![l] = @ + q], NEW s \in Shelves
  PROVE  Due(j, s) = Due(job[r], s)
                       + (IF s = <<job[r].warehouse, MaterialOf[l]>> THEN q ELSE 0)
<1> DEFINE f == GotOf(job[r], s[2])
           g == GotOf(j, s[2])
<1>1. job[r].got \in [Lines -> Nat] /\ q \in Nat
  BY ReceivingAssumption DEF Shape, TypeOK, Job
<1>2. f \in [Lines -> Nat] /\ g \in [Lines -> Nat] /\ IsFiniteSet(Lines)
  BY <1>1, ReceivingAssumption DEF GotOf
<1>3. /\ SameBut(l, f, g)
      /\ g[l] - f[l] = IF MaterialOf[l] = s[2] THEN q ELSE 0
  BY <1>1 DEF GotOf, SameBut
<1> HIDE DEF f, g
<1>4. SumOf(g) = SumOf(f) + (IF MaterialOf[l] = s[2] THEN q ELSE 0)
  BY <1>2, <1>3, SumAfterChange
<1>5. s = <<job[r].warehouse, MaterialOf[l]>> <=> s[1] = job[r].warehouse /\ s[2] = MaterialOf[l]
  BY DEF Shelves
<1>6. SumOf(f) \in Nat
  BY <1>2, SumIsNatural
<1>7. QED
  BY <1>4, <1>5, <1>6 DEF Due, f, g

LEMMA ReceivedFits ==
  ASSUME Shape, WorkFits, NEW r \in Requests, NEW l \in Lines, NEW q \in 1..MaxQuantity,
         ReceiveItem(r, l, q)
  PROVE  WorkFits'
<1> DEFINE x == <<job[r].warehouse, MaterialOf[l]>>
<1>1. /\ job[r] \in Job /\ tx[r] \in Tx /\ job[r].phase = "items" /\ tx[r].todo = <<>>
      /\ \A p \in Requests \ {r} : job'[p] = job[p] /\ tx'[p] = tx[p]
  BY DEF ReceiveItem, Shape, TypeOK
<1>2. /\ job'[r].op = job[r].op /\ job'[r].phase = "items"
      /\ job'[r].warehouse = job[r].warehouse
      /\ job'[r].got = [job[r].got EXCEPT ![l] = @ + q]
  BY <1>1 DEF ReceiveItem, Shape, TypeOK, Job
<1>3. tx'[r].todo = <<Move(x, q)>> /\ tx'[r].put = tx[r].put
  BY <1>1 DEF ReceiveItem, Delivery, Shape, TypeOK, Tx
<1>4. /\ job[r].op \in OpsOf[r] /\ job[r].op = "receive"
      /\ job[r].warehouse \in Warehouses
  BY <1>1 DEF WorkFits, Fits, KindFits, Delivering
<1>5. x \in Shelves
  BY <1>4, ReceivingAssumption DEF Shelves
<1>6. \A s \in Shelves : tx[r].put[s] = Due(job[r], s)
  <2>1. ~OneToPut(job[r], tx[r])
    BY <1>1 DEF OneToPut
  <2>2. QED
    BY <1>1, <2>1 DEF WorkFits, Fits, DeliveryFits, AllPut
<1>7. \A s \in Shelves : Due(job'[r], s) = Due(job[r], s) + (IF s = x THEN q ELSE 0)
  BY <1>2, <1>4, DueRaised
<1> HIDE DEF x
<1>8. OneToPut(job'[r], tx'[r])
  BY <1>3, <1>5, <1>6, <1>7 DEF OneToPut
<1>9. Fits(r, job'[r], tx'[r])
  BY <1>2, <1>4, <1>8 DEF Fits, KindFits, DeliveryFits, TransferFits, Delivering
<1>10. QED
  BY <1>1, <1>9, OneWorker

LEMMA DerivedFits ==
  ASSUME Shape, WorkFits, NEW r \in Requests, DeriveStatus(r)
  PROVE  WorkFits'
<1>1. /\ job[r] \in Job /\ job[r].phase = "items" /\ tx[r].todo = <<>> /\ tx' = tx
      /\ \A p \in Requests \ {r} : job'[p] = job[p]
  BY DEF DeriveStatus, Shape, TypeOK
<1>2. /\ job'[r].op = job[r].op /\ job'[r].phase = "status"
      /\ job'[r].warehouse = job[r].warehouse /\ job'[r].got = job[r].got
  BY <1>1 DEF DeriveStatus, Shape, TypeOK, Job
<1>3. /\ job[r].op \in OpsOf[r] /\ job[r].op = "receive"
      /\ job[r].warehouse \in Warehouses
  BY <1>1 DEF WorkFits, Fits, KindFits, Delivering
<1>4. AllPut(job[r], tx[r])
  BY <1>1 DEF WorkFits, Fits, DeliveryFits, OneToPut
<1>5. AllPut(job'[r], tx[r])
  BY <1>2, <1>4 DEF AllPut, Due, GotOf
<1>6. Fits(r, job'[r], tx[r])
  BY <1>2, <1>3, <1>5 DEF Fits, KindFits, DeliveryFits, TransferFits, Delivering
<1>7. QED
  BY <1>1, <1>6, OneWorker

(* Applying the one movement of a delivery leaves nothing to put. *)
LEMMA DeliveryApplied ==
  ASSUME Shape, NEW r \in Requests, ApplyMovement(r), OneToPut(job[r], tx[r])
  PROVE  AllPut(job[r], tx'[r])
<1>1. PICK x \in Shelves, q \in 1..MaxQuantity :
        /\ tx[r].todo = <<Move(x, q)>>
        /\ \A s \in Shelves : tx[r].put[s] + (IF s = x THEN q ELSE 0) = Due(job[r], s)
  BY DEF OneToPut
<1>2. Head(tx[r].todo).shelf = x /\ Head(tx[r].todo).delta = q /\ Tail(tx[r].todo) = <<>>
  BY <1>1 DEF Move
<1>3. tx[r].put \in [Shelves -> Int]
  BY TxFields DEF Shape, TypeOK
<1>4. /\ tx'[r].todo = <<>>
      /\ tx'[r].put = [tx[r].put EXCEPT ![x] = tx[r].put[x] + q]
  BY <1>2 DEF ApplyMovement, Shape, TypeOK
<1>5. \A s \in Shelves : tx'[r].put[s] = tx[r].put[s] + (IF s = x THEN q ELSE 0)
  BY <1>3, <1>4
<1>6. QED
  BY <1>1, <1>4, <1>5 DEF AllPut

(* Applying a leg of a transfer takes it from one point to the next. *)
LEMMA LegApplied ==
  ASSUME Shape, NEW r \in Requests, ApplyMovement(r),
         NEW m \in Materials, NEW from \in Warehouses, NEW to \in Warehouses,
         NEW q \in 1..MaxQuantity, from # to, LegsAt(tx[r], m, from, to, q)
  PROVE  LegsAt(tx'[r], m, from, to, q)
<1> DEFINE a == <<from, m>>
           b == <<to, m>>
<1>1. a \in Shelves /\ b \in Shelves /\ a # b
  BY DEF Shelves
<1>2. tx[r].todo # <<>>
  BY DEF ApplyMovement
<1>3. /\ tx'[r].todo = Tail(tx[r].todo)
      /\ tx'[r].put = [tx[r].put EXCEPT ![Head(tx[r].todo).shelf] =
                         tx[r].put[Head(tx[r].todo).shelf] + Head(tx[r].todo).delta]
  BY DEF ApplyMovement, Shape, TypeOK
<1>4. q \in Int /\ -q \in Int /\ 0 + (-q) = -q /\ 0 + q = q
  BY ReceivingAssumption
<1>5. CASE tx[r].todo = Legs(m, from, to, q) /\ tx[r].put = Nothing
  <2>1. tx[r].todo = <<Move(a, -q), Move(b, q)>>
    BY <1>5 DEF Legs
  <2>2. Head(tx[r].todo) = Move(a, -q) /\ Tail(tx[r].todo) = <<Move(b, q)>>
    BY <2>1
  <2>3. Head(tx[r].todo).shelf = a /\ Head(tx[r].todo).delta = -q
    BY <2>2 DEF Move
  <2>4. Nothing[a] = 0
    BY <1>1 DEF Nothing
  <2>5. tx'[r].put = [Nothing EXCEPT ![a] = -q]
    BY <1>3, <1>4, <1>5, <2>3, <2>4
  <2>6. QED
    BY <1>3, <2>2, <2>5 DEF LegsAt
<1>6. CASE tx[r].todo = <<Move(b, q)>> /\ tx[r].put = [Nothing EXCEPT ![a] = -q]
  <2>1. Head(tx[r].todo) = Move(b, q) /\ Tail(tx[r].todo) = <<>>
    BY <1>6
  <2>2. Head(tx[r].todo).shelf = b /\ Head(tx[r].todo).delta = q
    BY <2>1 DEF Move
  <2>3. tx[r].put[b] = 0
    BY <1>1, <1>6 DEF Nothing
  <2>4. tx'[r].put = [Nothing EXCEPT ![a] = -q, ![b] = q]
    BY <1>3, <1>4, <1>6, <2>2, <2>3
  <2>5. QED
    BY <1>3, <2>1, <2>4 DEF LegsAt
<1>7. QED
  BY <1>2, <1>5, <1>6 DEF LegsAt

LEMMA AppliedFits ==
  ASSUME Shape, WorkFits, NEW r \in Requests, ApplyMovement(r)
  PROVE  WorkFits'
<1>1. /\ tx[r].todo # <<>> /\ job' = job
      /\ \A p \in Requests \ {r} : tx'[p] = tx[p]
  BY DEF ApplyMovement, Shape, TypeOK
<1>2. Fits(r, job[r], tx[r])
  BY DEF WorkFits
<1>3. NoTx.todo = <<>>
  BY DEF NoTx
<1>4. KindFits(r, job[r], tx'[r])
  BY <1>1, <1>2, <1>3 DEF Fits, KindFits
<1>5. DeliveryFits(job[r], tx'[r])
  BY <1>1, <1>2, DeliveryApplied DEF Fits, DeliveryFits, AllPut
<1>6. TransferFits(job[r], tx'[r])
  <2> SUFFICES ASSUME job[r].op = "transfer"
               PROVE  \E m \in Materials, from \in Warehouses, to \in Warehouses, q \in 1..MaxQuantity :
                        from # to /\ LegsAt(tx'[r], m, from, to, q)
    BY DEF TransferFits
  <2>1. PICK m \in Materials, from \in Warehouses, to \in Warehouses, q \in 1..MaxQuantity :
          from # to /\ LegsAt(tx[r], m, from, to, q)
    BY <1>2 DEF Fits, TransferFits
  <2>2. LegsAt(tx'[r], m, from, to, q)
    BY <2>1, LegApplied
  <2>3. QED
    BY <2>1, <2>2
<1>7. QED
  BY <1>1, <1>4, <1>5, <1>6, OneWorker DEF Fits

(* A clerk's movements begin with the legs still to apply. *)
LEMMA StartedFits ==
  ASSUME Shape, WorkFits, NEW r \in Requests, NEW op \in StockOps, NEW moves,
         StartMoves(r, op, moves),
         op = "transfer" =>
           \E m \in Materials, from \in Warehouses, to \in Warehouses, q \in 1..MaxQuantity :
             from # to /\ moves = Legs(m, from, to, q)
  PROVE  WorkFits'
<1>1. /\ job[r].phase = "idle" /\ op \in OpsOf[r]
      /\ job'[r] = [Idle EXCEPT !.op = op, !.phase = "stock"]
      /\ tx'[r] = [tx[r] EXCEPT !.todo = moves]
      /\ \A p \in Requests \ {r} : job'[p] = job[p] /\ tx'[p] = tx[p]
  BY DEF StartMoves, Starts, Shape, TypeOK
<1>2. /\ job'[r].op = op /\ job'[r].phase = "stock"
      /\ \A l \in Lines : job'[r].got[l] = 0
  BY <1>1 DEF Idle
<1>3. tx[r] = NoTx
  BY <1>1 DEF WorkFits, Fits, KindFits
<1>4. tx'[r].todo = moves /\ tx'[r].put = Nothing
  BY <1>1, <1>3 DEF NoTx
<1>5. TransferFits(job'[r], tx'[r])
  BY <1>2, <1>4 DEF TransferFits, LegsAt
<1>6. Fits(r, job'[r], tx'[r])
  BY <1>1, <1>2, <1>5 DEF Fits, KindFits, DeliveryFits, Delivering
<1>7. QED
  BY <1>1, <1>6, OneWorker

LEMMA WorkKept == Shape /\ WorkFits /\ [Next]_vars => WorkFits'
<1> SUFFICES ASSUME Shape, WorkFits, [Next]_vars PROVE WorkFits'
  OBVIOUS
<1>1. ASSUME UNCHANGED <<job, tx>> PROVE WorkFits'
  BY <1>1 DEF WorkFits
<1>2. ASSUME NEW o \in Orders, CreateOrder(o) PROVE WorkFits'
  BY <1>1, <1>2 DEF CreateOrder
<1>3. ASSUME NEW r \in Requests, NEW op \in OrderOps, NEW o \in Orders, FetchOrder(r, op, o)
      PROVE  WorkFits'
  <2> DEFINE j == [Idle EXCEPT !.op = op, !.phase = "fetched", !.order = o, !.read = status[o]]
  <2>1. job[r].phase = "idle" /\ op \in OpsOf[r] /\ job' = [job EXCEPT ![r] = j] /\ tx' = tx
    BY <1>3 DEF FetchOrder, Starts
  <2>2. j.op = op /\ j.phase = "fetched" /\ \A l \in Lines : j.got[l] = 0
    BY DEF Idle
  <2> HIDE DEF j
  <2>3. QED
    BY <2>1, <2>2, FetchedFits, ZenonT(30) DEF Buying
<1>4. ASSUME NEW r \in Requests, NEW op \in LineOps, NEW l \in Lines, FetchLine(r, op, l)
      PROVE  WorkFits'
  <2> DEFINE j == [Idle EXCEPT !.op = op, !.phase = "fetched", !.line = l,
                     !.order = line[l].order, !.read = status[line[l].order],
                     !.seen = [NoLines EXCEPT ![l] = line[l]]]
  <2>1. job[r].phase = "idle" /\ op \in OpsOf[r] /\ job' = [job EXCEPT ![r] = j] /\ tx' = tx
    BY <1>4 DEF FetchLine, Starts
  <2>2. j.op = op /\ j.phase = "fetched" /\ \A x \in Lines : j.got[x] = 0
    BY DEF Idle
  <2> HIDE DEF j
  <2>3. QED
    BY <2>1, <2>2, FetchedFits, ZenonT(30) DEF Buying
<1>5. ASSUME NEW r \in Requests, OrderStep(r) PROVE WorkFits'
  BY <1>3, <1>5, FinishedFits DEF OrderStep, Transition, PatchOrder, DeleteOrder
<1>6. ASSUME NEW r \in Requests, LineStep(r) PROVE WorkFits'
  BY <1>4, <1>6, FinishedFits DEF LineStep, AddLine, ChangeLine, MoveLine, WriteLine, DropLine
<1>7. ASSUME NEW r \in Requests, ReceiptStep(r) PROVE WorkFits'
  BY <1>7, BegunFits, ReceivedFits, DerivedFits, FinishedFits
     DEF ReceiptStep, CommitReceipt, CommitStock
<1>8. ASSUME NEW r \in Requests, StockStep(r) PROVE WorkFits'
  <2>1. ASSUME NEW s \in Shelves, NEW d \in (-MaxQuantity)..MaxQuantity, RecordMovement(r, s, d)
        PROVE  WorkFits'
    BY <2>1, StartedFits DEF RecordMovement, StockOps
  <2>2. ASSUME NEW m \in Materials, NEW from \in Warehouses, NEW to \in Warehouses,
               NEW q \in 1..MaxQuantity, Transfer(r, m, from, to, q)
        PROVE  WorkFits'
    BY <2>2, StartedFits DEF Transfer, StockOps
  <2>3. QED
    BY <1>8, <2>1, <2>2, AppliedFits, FinishedFits DEF StockStep, CommitMoves, CommitStock
<1>9. ASSUME NEW r \in Requests, Abandon(r) PROVE WorkFits'
  BY <1>9, FinishedFits DEF Abandon
<1>10. QED
  BY <1>1, <1>2, <1>5, <1>6, <1>7, <1>8, <1>9 DEF Next, vars

LEMMA InitWork == Init => WorkFits
  BY IdleFits DEF Init, WorkFits

LEMMA WorkAlwaysFits == Spec => [](Shape /\ StockOK /\ WorkFits)
<1>1. Init => Shape /\ StockOK /\ WorkFits
  BY InitShape, InitStock, InitWork
<1>2. Shape /\ StockOK /\ WorkFits /\ [Next]_vars => (Shape /\ StockOK /\ WorkFits)'
  BY ShapeKept, StockKept, WorkKept
<1>3. QED
  BY <1>1, <1>2, PTL DEF Spec
-----------------------------------------------------------------------------
(* What reaches the shelves. *)

(* Only the end of a transaction writes balances or received quantities.   *)
LEMMA WrittenAtCommit ==
  ASSUME [Next]_vars
  PROVE  /\ stock' = stock \/ \E r \in Requests : CommitReceipt(r) \/ CommitMoves(r)
         /\ received' = received \/ \E r \in Requests : CommitReceipt(r)
<1>1. ASSUME NEW r \in Requests, OrderStep(r) \/ LineStep(r)
      PROVE  stock' = stock /\ received' = received
  BY <1>1 DEF OrderStep, FetchOrder, Transition, PatchOrder, DeleteOrder, orders,
              LineStep, FetchLine, AddLine, ChangeLine, MoveLine, WriteLine, DropLine
<1>2. ASSUME NEW r \in Requests, ReceiptStep(r)
      PROVE  (stock' = stock /\ received' = received) \/ CommitReceipt(r)
  BY <1>2, ZenonT(30) DEF ReceiptStep, BeginReceipt, ReceiveItem, DeriveStatus, orders
<1>3. ASSUME NEW r \in Requests, StockStep(r)
      PROVE  received' = received /\ (stock' = stock \/ CommitMoves(r))
  BY <1>3 DEF StockStep, RecordMovement, Transfer, StartMoves, ApplyMovement, CommitMoves, orders
<1>4. QED
  BY <1>1, <1>2, <1>3, SMTT(30) DEF Next, CreateOrder, Abandon, orders, vars

(* A commit adds to every balance what the transaction has put there.      *)
LEMMA CommitAdds ==
  ASSUME Shape, StockOK, NEW r \in Requests, CommitStock(r)
  PROVE  /\ stock' \in [Shelves -> Int]
         /\ \A s \in Shelves : stock'[s] = stock[s] + tx[r].put[s]
<1>1. /\ stock \in [Shelves -> Int]
      /\ tx[r].put \in [Shelves -> Int] /\ tx[r].balance \in [Shelves -> Int]
  BY TxFields DEF Shape, TypeOK
<1>2. QED
  BY <1>1 DEF CommitStock, Committed, StockOK, BuffersAgree

LEMMA ReceiptDelivers ==
  ASSUME Shape, StockOK, WorkFits, NEW r \in Requests, CommitReceipt(r)
  PROVE  \E w \in Warehouses : \A s \in Shelves :
           stock'[s] - stock[s] = IF s[1] = w THEN Delivered(s[2]) ELSE 0
<1>1. job[r].phase = "status" /\ CommitStock(r) /\ received' = [l \in Lines |-> ReceivedFor(r, l)]
  BY DEF CommitReceipt
<1>2. job[r].warehouse \in Warehouses /\ AllPut(job[r], tx[r])
  BY <1>1 DEF WorkFits, Fits, KindFits, DeliveryFits, Delivering
<1>3. ASSUME NEW m PROVE Delivered(m) = SumOf(GotOf(job[r], m))
  <2>1. job[r].got \in [Lines -> Nat] /\ received \in [Lines -> Nat]
    BY DEF Shape, TypeOK, Job
  <2>2. \A l \in Lines : received'[l] - received[l] = job[r].got[l]
    BY <1>1, <2>1 DEF ReceivedFor
  <2>3. [l \in Lines |-> IF MaterialOf[l] = m THEN received'[l] - received[l] ELSE 0]
          = GotOf(job[r], m)
    BY <2>2 DEF GotOf
  <2>4. QED
    BY <2>3 DEF Delivered
<1>4. ASSUME NEW s \in Shelves
      PROVE  stock'[s] - stock[s] = IF s[1] = job[r].warehouse THEN Delivered(s[2]) ELSE 0
  <2>1. stock'[s] = stock[s] + tx[r].put[s] /\ tx[r].put[s] = Due(job[r], s)
    BY <1>1, <1>2, CommitAdds DEF AllPut
  <2>2. stock[s] \in Int /\ tx[r].put[s] \in Int
    BY TxFields DEF Shape, TypeOK
  <2>3. QED
    BY <1>3, <2>1, <2>2 DEF Due
<1>5. QED
  BY <1>2, <1>4

(* However requests interleave, a receipt that is recorded has put all it  *)
(* received, and nothing else, on the shelves of one warehouse.            *)
THEOREM ReceiptsAlwaysReachStock == Spec => ReceiptsReachStock
<1> DEFINE Reaches == received' # received =>
                        \E w \in Warehouses : \A s \in Shelves :
                          stock'[s] - stock[s] = IF s[1] = w THEN Delivered(s[2]) ELSE 0
<1>1. Shape /\ StockOK /\ WorkFits /\ [Next]_vars => [Reaches]_vars
  BY WrittenAtCommit, ReceiptDelivers
<1>2. QED
  BY <1>1, WorkAlwaysFits, PTL DEF Spec, ReceiptsReachStock

LEMMA TransferEnds ==
  ASSUME Shape, StockOK, WorkFits, NEW r \in Requests, CommitMoves(r), job[r].op = "transfer"
  PROVE  Transferred
<1>1. CommitStock(r) /\ tx[r].todo = <<>>
  BY DEF CommitMoves
<1>2. PICK m \in Materials, from \in Warehouses, to \in Warehouses, q \in 1..MaxQuantity :
        from # to /\ LegsAt(tx[r], m, from, to, q)
  BY DEF WorkFits, Fits, TransferFits
<1> DEFINE a == <<from, m>>
           b == <<to, m>>
<1>3. a \in Shelves /\ b \in Shelves /\ a # b
  BY <1>2 DEF Shelves
<1>4. tx[r].put = [Nothing EXCEPT ![a] = -q, ![b] = q]
  BY <1>1, <1>2 DEF LegsAt, Legs
<1>5. /\ stock \in [Shelves -> Int] /\ stock' \in [Shelves -> Int]
      /\ \A s \in Shelves : stock'[s] = stock[s] + tx[r].put[s]
  BY <1>1, CommitAdds DEF Shape, TypeOK
<1>6. q \in Int /\ -q \in Int
  BY ReceivingAssumption
<1>7. \A s \in Shelves : tx[r].put[s] = IF s = a THEN -q ELSE IF s = b THEN q ELSE 0
  BY <1>3, <1>4 DEF Nothing
<1>8. stock' = [stock EXCEPT ![a] = @ - q, ![b] = @ + q]
  <2> DEFINE new == [stock EXCEPT ![a] = @ - q, ![b] = @ + q]
  <2>1. \A s \in Shelves : new[s] = IF s = a THEN stock[s] - q ELSE IF s = b THEN stock[s] + q ELSE stock[s]
    BY <1>3, <1>5
  <2>2. new = [s \in Shelves |-> new[s]] /\ stock' = [s \in Shelves |-> stock'[s]]
    BY <1>5
  <2> HIDE DEF new, a, b
  <2>3. \A s \in Shelves : stock'[s] = new[s]
    BY <1>5, <1>6, <1>7, <2>1
  <2>4. stock' = new
    BY <2>2, <2>3
  <2>5. QED
    BY <2>4 DEF new
<1>9. QED
  BY <1>2, <1>8 DEF Transferred

(* A transfer moves its quantity from one warehouse to the other, or does  *)
(* nothing, whatever else moves on the two shelves.                        *)
THEOREM TransfersAlwaysConserve == Spec => TransfersConserve
<1> DEFINE Conserves == \A r \in Requests :
             job[r].op = "transfer" /\ job'[r].phase = "idle" => stock' = stock \/ Transferred
<1>1. Shape /\ StockOK /\ WorkFits /\ [Next]_vars => [Conserves]_vars
  <2> SUFFICES ASSUME Shape, StockOK, WorkFits, [Next]_vars, NEW r \in Requests,
                      job[r].op = "transfer", job'[r].phase = "idle", stock' # stock
               PROVE  Transferred
    OBVIOUS
  <2>1. job[r].phase = "stock"
    <3>1. job[r].phase \in {"idle", "fetched", "items", "status", "stock"}
      BY DEF Shape, TypeOK, Job
    <3>2. KindFits(r, job[r], tx[r])
      BY DEF WorkFits, Fits
    <3>3. Idle.op = "idle" /\ "transfer" \notin Buying
      BY DEF Idle, Buying, OrderOps, LineOps
    <3>4. QED
      BY <3>1, <3>2, <3>3 DEF KindFits, Delivering
  <2>2. PICK q \in Requests : CommitReceipt(q) \/ CommitMoves(q)
    BY WrittenAtCommit
  <2>3. q = r
    <3>1. Finish(q)
      BY <2>2 DEF CommitReceipt, CommitMoves, CommitStock
    <3>2. q # r => job'[r] = job[r]
      BY <3>1 DEF Finish, Shape, TypeOK
    <3>3. QED
      BY <2>1, <3>2
  <2>4. CommitMoves(r)
    BY <2>1, <2>2, <2>3 DEF CommitReceipt
  <2>5. QED
    BY <2>4, TransferEnds
<1>2. QED
  BY <1>1, WorkAlwaysFits, PTL DEF Spec, TransfersConserve
-----------------------------------------------------------------------------
(* One buyer at a time: what a request read of an order is still so.  The  *)
(* decisions of the endpoints rest on such reads, and no row is locked.    *)
OrdersFit == LinesFit /\ CopiesFit

LEMMA OneOnOrders ==
  ASSUME WorkFits, BuyersAlone, NEW r \in Requests, NEW q \in Requests, OnOrder(r), OnOrder(q)
  PROVE  r = q
<1>1. "receive" \in Buying
  BY DEF Buying, OrderOps
<1>2. ASSUME NEW p \in Requests, OnOrder(p) PROVE OpsOf[p] \cap Buying # {}
  <2>1. job[p].op \in OpsOf[p] /\ job[p].op \in Buying
    BY <1>1, <1>2 DEF WorkFits, Fits, KindFits, OnOrder, Delivering
  <2>2. QED
    BY <2>1
<1>3. QED
  BY <1>2 DEF BuyersAlone

(* A copy is a matter of its own request and of the orders. *)
LEMMA SameCopy ==
  ASSUME NEW q \in Requests, CopyFits(q), job'[q] = job[q], UNCHANGED orders
  PROVE  CopyFits(q)'
<1>1. DerivedStatus(q)' = DerivedStatus(q)
  BY DEF DerivedStatus, LinesOf, ReceivedFor, orders
<1>2. QED
  BY <1>1 DEF CopyFits, OnOrder, Exists, ReceivedFor, orders

LEMMA NoCopy ==
  ASSUME NEW q \in Requests, job'[q].phase \in {"idle", "stock"}
  PROVE  CopyFits(q)'
  BY DEF CopyFits, OnOrder, Delivering

(* A step of one request that leaves the orders alone. *)
LEMMA OneCopy ==
  ASSUME Shape, OrdersFit, NEW r \in Requests, UNCHANGED orders,
         \A q \in Requests \ {r} : job'[q] = job[q], CopyFits(r)'
  PROVE  OrdersFit'
<1>1. ASSUME NEW q \in Requests PROVE CopyFits(q)'
  BY <1>1, SameCopy DEF OrdersFit, CopiesFit
<1>2. CopiesFit'
  BY <1>1 DEF CopiesFit
<1>3. LinesFit'
  BY DEF OrdersFit, LinesFit, Exists, orders
<1>4. QED
  BY <1>2, <1>3 DEF OrdersFit

(* The request that writes an order is the only one that holds a copy. *)
LEMMA LastCopy ==
  ASSUME Shape, WorkFits, BuyersAlone, NEW r \in Requests, OnOrder(r), Finish(r)
  PROVE  CopiesFit'
<1>1. job'[r] = Idle /\ \A q \in Requests \ {r} : job'[q] = job[q]
  BY DEF Finish, Shape, TypeOK
<1>2. ASSUME NEW q \in Requests PROVE job'[q].phase \in {"idle", "stock"}
  <2>1. Idle.phase = "idle"
    BY DEF Idle
  <2>2. q # r => ~OnOrder(q)
    BY OneOnOrders
  <2>3. job[q].phase \in {"idle", "fetched", "items", "status", "stock"}
    BY DEF Shape, TypeOK, Job
  <2>4. QED
    BY <1>1, <2>1, <2>2, <2>3 DEF OnOrder
<1>3. QED
  BY <1>2, NoCopy DEF CopiesFit

LEMMA FetchedCopies ==
  ASSUME Shape, OrdersFit, NEW r \in Requests
  PROVE  /\ \A op \in OrderOps, o \in Orders : FetchOrder(r, op, o) => OrdersFit'
         /\ \A op \in LineOps, l \in Lines : FetchLine(r, op, l) => OrdersFit'
<1>1. ASSUME NEW op \in OrderOps, NEW o \in Orders, FetchOrder(r, op, o) PROVE OrdersFit'
  <2>1. /\ job'[r] = [Idle EXCEPT !.op = op, !.phase = "fetched", !.order = o, !.read = status[o]]
        /\ \A q \in Requests \ {r} : job'[q] = job[q]
        /\ UNCHANGED orders /\ Exists(o)
    BY <1>1 DEF FetchOrder, Shape, TypeOK
  <2>2. /\ job'[r].op = op /\ job'[r].phase = "fetched"
        /\ job'[r].order = o /\ job'[r].read = status[o]
    BY <2>1 DEF Idle
  <2>3. op \notin LineOps
    BY DEF OrderOps, LineOps
  <2>4. CopyFits(r)'
    BY <2>1, <2>2, <2>3 DEF CopyFits, OnOrder, Exists, orders, Delivering
  <2>5. QED
    BY <2>1, <2>4, OneCopy
<1>2. ASSUME NEW op \in LineOps, NEW l \in Lines, FetchLine(r, op, l) PROVE OrdersFit'
  <2>1. /\ job'[r] = [Idle EXCEPT !.op = op, !.phase = "fetched", !.line = l,
                        !.order = line[l].order, !.read = status[line[l].order],
                        !.seen = [NoLines EXCEPT ![l] = line[l]]]
        /\ \A q \in Requests \ {r} : job'[q] = job[q]
        /\ UNCHANGED orders /\ line[l] # NoLine
    BY <1>2 DEF FetchLine, Shape, TypeOK
  <2>2. /\ job'[r].phase = "fetched" /\ job'[r].line = l
        /\ job'[r].order = line[l].order /\ job'[r].read = status[line[l].order]
        /\ job'[r].seen = [NoLines EXCEPT ![l] = line[l]]
    BY <2>1 DEF Idle
  <2>3. job'[r].seen[l] = line[l]
    BY <2>2 DEF NoLines
  <2>4. Exists(line[l].order)
    BY <2>1 DEF OrdersFit, LinesFit
  <2>5. CopyFits(r)'
    BY <2>1, <2>2, <2>3, <2>4 DEF CopyFits, OnOrder, Exists, orders, Delivering
  <2>6. QED
    BY <2>1, <2>5, OneCopy
<1>3. QED
  BY <1>1, <1>2

LEMMA BegunCopy ==
  ASSUME Shape, WorkFits, OrdersFit, NEW r \in Requests, NEW w \in Warehouses, BeginReceipt(r, w)
  PROVE  OrdersFit'
<1> DEFINE o == job[r].order
           read == [l \in Lines |-> IF line[l].order = o THEN line[l] ELSE NoLine]
<1>1. /\ job[r] \in Job /\ job[r].phase = "fetched" /\ job[r].read \in ReceivableStatuses
      /\ job'[r] = [job[r] EXCEPT !.phase = "items", !.warehouse = w, !.seen = read]
      /\ \A q \in Requests \ {r} : job'[q] = job[q]
      /\ UNCHANGED orders
  BY DEF BeginReceipt, HasRead, Shape, TypeOK, Job
<1>2. /\ job'[r].phase = "items" /\ job'[r].order = job[r].order /\ job'[r].read = job[r].read
      /\ job'[r].seen = read /\ job'[r].got = job[r].got
  BY <1>1 DEF Job
<1>3. \A l \in Lines : job[r].got[l] = 0
  BY <1>1 DEF WorkFits, Fits, KindFits, Delivering
<1>4. Exists(o) /\ job[r].read = status[o]
  BY <1>1 DEF OrdersFit, CopiesFit, CopyFits, OnOrder
<1>5. CopyFits(r)'
  BY <1>1, <1>2, <1>3, <1>4 DEF CopyFits, OnOrder, Exists, orders, Delivering
<1>6. QED
  BY <1>1, <1>5, OneCopy

(* An item never exceeds what remains of the line as it is now. *)
LEMMA ReceivedCopy ==
  ASSUME Shape, OrdersFit, NEW r \in Requests, NEW l \in Lines,
         NEW q \in 1..MaxQuantity, ReceiveItem(r, l, q)
  PROVE  OrdersFit'
<1>1. /\ job[r] \in Job /\ job[r].phase = "items"
      /\ job'[r] = [job[r] EXCEPT !.got[l] = @ + q]
      /\ \A p \in Requests \ {r} : job'[p] = job[p]
      /\ UNCHANGED orders
  BY DEF ReceiveItem, Shape, TypeOK
<1>2. /\ job'[r].phase = "items" /\ job'[r].order = job[r].order /\ job'[r].read = job[r].read
      /\ job'[r].seen = job[r].seen /\ job'[r].got = [job[r].got EXCEPT ![l] = @ + q]
  BY <1>1 DEF Job
<1>3. /\ job[r].got \in [Lines -> Nat] /\ received \in [Lines -> Nat]
      /\ line \in [Lines -> Line \cup {NoLine}]
  BY <1>1 DEF Shape, TypeOK, Job
<1>4. CopyFits(r)
  BY DEF OrdersFit, CopiesFit
<1>5. /\ job[r].seen[l] = line[l] /\ line[l].order = job[r].order
      /\ line[l].quantity \in Nat /\ q <= line[l].quantity - (received[l] + job[r].got[l])
  BY <1>1, <1>3, <1>4, ReceivingAssumption
     DEF CopyFits, Delivering, ReceiveItem, Remaining, ReceivedFor, Line
<1>6. ASSUME NEW x \in Lines, job'[r].got[x] > 0
      PROVE  line[x].order = job[r].order /\ received[x] + job'[r].got[x] <= line[x].quantity
  <2>1. CASE x = l
    BY <1>2, <1>3, <1>5, <2>1
  <2>2. CASE x # l
    BY <1>1, <1>2, <1>3, <1>4, <1>6, <2>2 DEF CopyFits, Delivering, ReceivedFor
  <2>3. QED
    BY <2>1, <2>2
<1>7. CopyFits(r)'
  BY <1>1, <1>2, <1>4, <1>6 DEF CopyFits, OnOrder, Exists, orders, Delivering, ReceivedFor
<1>8. QED
  BY <1>1, <1>7, OneCopy

LEMMA DerivedCopy ==
  ASSUME Shape, OrdersFit, NEW r \in Requests, DeriveStatus(r)
  PROVE  OrdersFit'
<1>1. /\ job[r] \in Job /\ job[r].phase = "items" /\ \E l \in Lines : job[r].got[l] > 0
      /\ job'[r] = [job[r] EXCEPT !.phase = "status", !.to = DerivedStatus(r)]
      /\ \A p \in Requests \ {r} : job'[p] = job[p]
      /\ UNCHANGED orders
  BY DEF DeriveStatus, Shape, TypeOK, Job
<1>2. /\ job'[r].phase = "status" /\ job'[r].order = job[r].order /\ job'[r].read = job[r].read
      /\ job'[r].seen = job[r].seen /\ job'[r].got = job[r].got /\ job'[r].to = DerivedStatus(r)
  BY <1>1 DEF Job
<1>3. DerivedStatus(r)' = DerivedStatus(r)
  BY <1>1, <1>2 DEF DerivedStatus, LinesOf, ReceivedFor, orders
<1>4. CopyFits(r)
  BY DEF OrdersFit, CopiesFit
<1>5. CopyFits(r)'
  BY <1>1, <1>2, <1>3, <1>4 DEF CopyFits, OnOrder, Exists, orders, Delivering, ReceivedFor
<1>6. QED
  BY <1>1, <1>5, OneCopy

(* What a request that writes knows of the order it has read. *)
LEMMA ReadIsCurrent ==
  ASSUME Shape, OrdersFit, NEW r \in Requests, job[r].phase = "fetched"
  PROVE  /\ job[r].order \in Orders /\ Exists(job[r].order)
         /\ job[r].read = status[job[r].order]
  BY DEF Shape, JobsOK, OrdersFit, CopiesFit, CopyFits, OnOrder

(* Nothing is received of the lines of an order in DRAFT. *)
LEMMA DraftNotStarted ==
  ASSUME Shape, OrdersFit, NEW l \in Lines, line[l] = NoLine \/ status[line[l].order] = "DRAFT"
  PROVE  received[l] = 0
<1>1. received[l] \in Nat /\ NoLine.quantity = 0
  BY DEF Shape, TypeOK, NoLine
<1>2. QED
  BY <1>1 DEF OrdersFit, LinesFit

LEMMA CreatedFits ==
  ASSUME Shape, OrdersFit, NEW o \in Orders, CreateOrder(o)
  PROVE  OrdersFit'
<1>1. /\ status[o] = "ABSENT" /\ status' = [status EXCEPT ![o] = "DRAFT"]
      /\ UNCHANGED <<line, received, job>>
  BY DEF CreateOrder
<1>2. ~Exists(o) /\ \A p \in Orders \ {o} : status'[p] = status[p]
  BY <1>1 DEF Exists, Missing, Shape, TypeOK
<1>3. ASSUME NEW r \in Requests PROVE CopyFits(r)'
  <2>1. CopyFits(r)
    BY DEF OrdersFit, CopiesFit
  <2>2. OnOrder(r) => job[r].order \in Orders
    BY DEF Shape, JobsOK, OnOrder
  <2>3. OnOrder(r) => job[r].order \in Orders \ {o}
    BY <1>2, <2>1, <2>2 DEF CopyFits
  <2>4. DerivedStatus(r)' = DerivedStatus(r)
    BY <1>1 DEF DerivedStatus, LinesOf, ReceivedFor
  <2>5. QED
    BY <1>1, <1>2, <2>1, <2>3, <2>4 DEF CopyFits, OnOrder, Exists, ReceivedFor
<1>4. ASSUME NEW l \in Lines
      PROVE  /\ line'[l] # NoLine => Exists(line[l].order)'
             /\ received'[l] <= line'[l].quantity
             /\ received'[l] > 0 => status'[line'[l].order] # "DRAFT"
  <2>1. line[l] = NoLine \/ line[l].order \in Orders
    BY DEF Shape, TypeOK, Line
  <2>2. line[l] # NoLine => line[l].order \in Orders \ {o}
    BY <1>2, <2>1 DEF OrdersFit, LinesFit
  <2>3. line[l] = NoLine => received[l] = 0
    BY DraftNotStarted
  <2>4. QED
    BY <1>1, <1>2, <2>2, <2>3 DEF OrdersFit, LinesFit, Exists
<1>5. LinesFit'
  BY <1>4 DEF LinesFit
<1>6. QED
  BY <1>3, <1>5 DEF OrdersFit, CopiesFit

LEMMA TransitionFits ==
  ASSUME Shape, WorkFits, OrdersFit, BuyersAlone,
         NEW r \in Requests, NEW op \in DOMAIN Target, Transition(r, op)
  PROVE  OrdersFit'
<1>1. /\ job[r].phase = "fetched" /\ Finish(r) /\ UNCHANGED <<line, received>>
      /\ status' = [status EXCEPT ![job[r].order] = Target[op]]
  BY DEF Transition, HasRead
<1>2. CopiesFit'
  BY <1>1, LastCopy DEF OnOrder
<1>3. Target[op] \notin {"DRAFT"} \cup Missing
  BY DEF Target, Missing
<1>4. job[r].order \in Orders
  BY <1>1, ReadIsCurrent
<1>5. \A p \in Orders : status'[p] = status[p] \/ status'[p] \notin {"DRAFT"} \cup Missing
  BY <1>1, <1>3 DEF Shape, TypeOK
<1>6. LinesFit'
  <2>1. \A l \in Lines : line[l] = NoLine \/ line[l].order \in Orders
    BY DEF Shape, TypeOK, Line
  <2>2. \A l \in Lines : line[l] = NoLine => received[l] = 0
    BY DraftNotStarted
  <2>3. QED
    BY <1>1, <1>5, <2>1, <2>2 DEF OrdersFit, LinesFit, Exists
<1>7. QED
  BY <1>2, <1>6 DEF OrdersFit

LEMMA PatchedFits ==
  ASSUME Shape, WorkFits, OrdersFit, BuyersAlone, NEW r \in Requests, PatchOrder(r)
  PROVE  OrdersFit' /\ status' = status
<1>1. /\ job[r].phase = "fetched" /\ Finish(r) /\ UNCHANGED <<line, received>>
      /\ status' = [status EXCEPT ![job[r].order] = job[r].read]
  BY DEF PatchOrder, HasRead
<1>2. CopiesFit'
  BY <1>1, LastCopy DEF OnOrder
<1>3. status' = status
  BY <1>1, ReadIsCurrent DEF Shape, TypeOK
<1>4. LinesFit'
  BY <1>1, <1>3 DEF OrdersFit, LinesFit, Exists
<1>5. QED
  BY <1>2, <1>3, <1>4 DEF OrdersFit

LEMMA DeletedFits ==
  ASSUME Shape, WorkFits, OrdersFit, BuyersAlone, NEW r \in Requests, DeleteOrder(r)
  PROVE  OrdersFit'
<1> DEFINE o == job[r].order
<1>1. /\ job[r].phase = "fetched" /\ Finish(r) /\ job[r].read = "DRAFT" /\ received' = received
      /\ status' = [status EXCEPT ![o] = "DELETED"]
      /\ line' = [l \in Lines |-> IF line[l].order = o THEN NoLine ELSE line[l]]
  BY DEF DeleteOrder, HasRead, RequireDraft
<1>2. CopiesFit'
  BY <1>1, LastCopy DEF OnOrder
<1>3. o \in Orders /\ status[o] = "DRAFT" /\ \A p \in Orders \ {o} : status'[p] = status[p]
  BY <1>1, ReadIsCurrent DEF Shape, TypeOK
<1>4. ASSUME NEW l \in Lines
      PROVE  /\ line'[l] # NoLine => Exists(line[l].order)'
             /\ received'[l] <= line'[l].quantity
             /\ received'[l] > 0 => status'[line'[l].order] # "DRAFT"
  <2>1. CASE line[l].order = o
    <3>1. line'[l] = NoLine /\ NoLine.quantity = 0 /\ received'[l] = 0
      BY <1>1, <1>3, <2>1, DraftNotStarted DEF NoLine
    <3>2. QED
      BY <3>1
  <2>2. CASE line[l] = NoLine
    <3>1. line'[l] = NoLine /\ NoLine.quantity = 0 /\ received'[l] = 0
      BY <1>1, <2>2, DraftNotStarted DEF NoLine
    <3>2. QED
      BY <3>1
  <2>3. CASE line[l].order # o /\ line[l] # NoLine
    <3>1. line[l].order \in Orders \ {o} /\ line'[l] = line[l]
      BY <1>1, <2>3 DEF Shape, TypeOK, Line
    <3>2. QED
      BY <1>1, <1>3, <3>1 DEF OrdersFit, LinesFit, Exists
  <2>4. QED
    BY <2>1, <2>2, <2>3
<1>5. LinesFit'
  BY <1>4 DEF LinesFit
<1>6. QED
  BY <1>2, <1>5 DEF OrdersFit

(* Replacing one line of which nothing is received. *)
LEMMA LineReplaced ==
  ASSUME Shape, WorkFits, OrdersFit, BuyersAlone, NEW r \in Requests, OnOrder(r), Finish(r),
         NEW l \in Lines, NEW new, line' = [line EXCEPT ![l] = new],
         UNCHANGED <<status, received>>, received[l] = 0,
         new = NoLine \/ (new \in Line /\ Exists(new.order))
  PROVE  OrdersFit'
<1>1. CopiesFit'
  BY LastCopy
<1>2. line'[l] = new /\ \A x \in Lines \ {l} : line'[x] = line[x]
  BY DEF Shape, TypeOK
<1>3. 0 <= new.quantity
  BY ReceivingAssumption DEF NoLine, Line
<1>4. LinesFit'
  BY <1>2, <1>3 DEF OrdersFit, LinesFit, Exists
<1>5. QED
  BY <1>1, <1>4 DEF OrdersFit

(* A line is written only while its order, the one it is in before the     *)
(* step, is a DRAFT.                                                       *)
LEMMA LineOfDraft ==
  ASSUME Shape, OrdersFit, NEW r \in Requests, job[r].phase = "fetched",
         job[r].op \in LineOps, RequireDraft(r)
  PROVE  /\ job[r].line \in Lines /\ received[job[r].line] = 0
         /\ line[job[r].line].order = job[r].order /\ line[job[r].line] \in Line
         /\ job[r].seen[job[r].line] = line[job[r].line]
         /\ status[job[r].order] = "DRAFT"
<1>1. job[r].line \in Lines /\ job[r].seen[job[r].line] \in Line
  BY DEF Shape, JobsOK
<1>2. /\ job[r].seen[job[r].line] = line[job[r].line]
      /\ line[job[r].line].order = job[r].order
  BY DEF OrdersFit, CopiesFit, CopyFits
<1>3. status[job[r].order] = "DRAFT"
  BY ReadIsCurrent DEF RequireDraft
<1>4. received[job[r].line] = 0
  BY <1>1, <1>2, <1>3, DraftNotStarted
<1>5. QED
  BY <1>1, <1>2, <1>3, <1>4

LEMMA LineStepFits ==
  ASSUME Shape, WorkFits, OrdersFit, BuyersAlone, NEW r \in Requests, LineStep(r)
  PROVE  OrdersFit'
<1> USE ReceivingAssumption
<1>1. ASSUME NEW op \in LineOps, NEW l \in Lines, FetchLine(r, op, l) PROVE OrdersFit'
  BY <1>1, FetchedCopies
<1>2. ASSUME NEW l \in Lines, NEW q \in 1..MaxQuantity, AddLine(r, l, q) PROVE OrdersFit'
  <2> DEFINE new == [order |-> job[r].order, quantity |-> q]
  <2>1. /\ OnOrder(r) /\ Finish(r) /\ line' = [line EXCEPT ![l] = new] /\ line[l] = NoLine
        /\ UNCHANGED <<status, received>>
    BY <1>2 DEF AddLine, HasRead, OnOrder
  <2>2. job[r].order \in Orders /\ Exists(job[r].order)
    BY <1>2, ReadIsCurrent DEF AddLine, HasRead
  <2>3. new \in Line /\ Exists(new.order)
    BY <2>2 DEF Line
  <2>4. received[l] = 0
    BY <2>1, DraftNotStarted
  <2> HIDE DEF new
  <2>5. QED
    BY <2>1, <2>3, <2>4, LineReplaced
<1>3. ASSUME NEW op \in LineOps, NEW o \in Orders, NEW q \in 1..MaxQuantity, WriteLine(r, op, o, q)
      PROVE  OrdersFit'
  <2> DEFINE new == [order |-> o, quantity |-> q]
  <2>1. /\ OnOrder(r) /\ Finish(r) /\ line' = [line EXCEPT ![job[r].line] = new]
        /\ UNCHANGED <<status, received>> /\ Exists(o)
        /\ job[r].phase = "fetched" /\ job[r].op \in LineOps /\ RequireDraft(r)
    BY <1>3 DEF WriteLine, HasRead, OnOrder
  <2>2. new \in Line /\ Exists(new.order)
    BY <2>1 DEF Line
  <2>3. job[r].line \in Lines /\ received[job[r].line] = 0
    BY <2>1, LineOfDraft
  <2> HIDE DEF new
  <2>4. QED
    BY <2>1, <2>2, <2>3, LineReplaced
<1>4. ASSUME NEW q \in 1..MaxQuantity, ChangeLine(r, q) PROVE OrdersFit'
  <2>1. job[r].order \in Orders
    BY <1>4, ReadIsCurrent DEF ChangeLine, WriteLine, HasRead
  <2>2. QED
    BY <1>3, <1>4, <2>1 DEF ChangeLine, LineOps
<1>5. ASSUME NEW o \in Orders, MoveLine(r, o) PROVE OrdersFit'
  <2>1. job[r].line \in Lines /\ job[r].seen[job[r].line] \in Line
    BY <1>5 DEF MoveLine, WriteLine, HasRead, Shape, JobsOK, LineOps
  <2>2. job[r].seen[job[r].line].quantity \in 1..MaxQuantity
    BY <2>1 DEF Line
  <2>3. QED
    BY <1>3, <1>5, <2>2 DEF MoveLine, LineOps
<1>6. ASSUME DropLine(r) PROVE OrdersFit'
  <2>1. /\ OnOrder(r) /\ Finish(r) /\ line' = [line EXCEPT ![job[r].line] = NoLine]
        /\ UNCHANGED <<status, received>>
        /\ job[r].phase = "fetched" /\ job[r].op \in LineOps /\ RequireDraft(r)
    BY <1>6 DEF DropLine, HasRead, OnOrder, LineOps
  <2>2. job[r].line \in Lines /\ received[job[r].line] = 0
    BY <2>1, LineOfDraft
  <2>3. QED
    BY <2>1, <2>2, LineReplaced
<1>7. QED
  BY <1>1, <1>2, <1>4, <1>5, <1>6 DEF LineStep

(* A receipt commits no more than what was ordered, to an order past DRAFT. *)
LEMMA ReceiptFacts ==
  ASSUME Shape, WorkFits, OrdersFit, NEW r \in Requests, CommitReceipt(r)
  PROVE  /\ OnOrder(r) /\ Finish(r) /\ line' = line
         /\ job[r].order \in Orders /\ status[job[r].order] \in ReceivableStatuses
         /\ job[r].to = DerivedStatus(r)
         /\ status' = [status EXCEPT ![job[r].order] = job[r].to]
         /\ \A l \in Lines : received'[l] = received[l] + job[r].got[l]
         /\ \A l \in Lines : received'[l] <= line[l].quantity
         /\ \A l \in Lines : job[r].got[l] > 0 => line[l].order = job[r].order
         /\ \E l \in Lines : job[r].got[l] > 0
<1>1. /\ job[r].phase = "status" /\ line' = line /\ CommitStock(r)
      /\ status' = IF job[r].to = job[r].read THEN status
                   ELSE [status EXCEPT ![job[r].order] = job[r].to]
      /\ received' = [l \in Lines |-> ReceivedFor(r, l)]
  BY DEF CommitReceipt
<1>2. CopyFits(r) /\ OnOrder(r)
  BY <1>1 DEF OrdersFit, CopiesFit, OnOrder
<1>3. /\ job[r].order \in Orders /\ job[r].read = status[job[r].order]
      /\ job[r].read \in ReceivableStatuses /\ job[r].to = DerivedStatus(r)
      /\ \E l \in Lines : job[r].got[l] > 0
      /\ \A l \in Lines : job[r].got[l] > 0 =>
            line[l].order = job[r].order /\ ReceivedFor(r, l) <= line[l].quantity
  BY <1>1, <1>2 DEF CopyFits, Delivering, Shape, JobsOK
<1>4. status' = [status EXCEPT ![job[r].order] = job[r].to]
  BY <1>1, <1>3 DEF Shape, TypeOK
<1>5. ASSUME NEW l \in Lines PROVE received'[l] <= line[l].quantity
  <2>1. received[l] \in Nat /\ job[r].got[l] \in Nat
    BY DEF Shape, TypeOK, Job
  <2>2. CASE job[r].got[l] > 0
    BY <1>1, <1>3, <2>2
  <2>3. CASE job[r].got[l] = 0
    <3>1. received'[l] = received[l]
      BY <1>1, <2>1, <2>3 DEF ReceivedFor
    <3>2. QED
      BY <3>1 DEF OrdersFit, LinesFit
  <2>4. QED
    BY <2>1, <2>2, <2>3
<1>6. QED
  BY <1>1, <1>2, <1>3, <1>4, <1>5 DEF ReceivedFor, CommitStock

LEMMA ReceiptFits ==
  ASSUME Shape, WorkFits, OrdersFit, BuyersAlone, NEW r \in Requests, CommitReceipt(r)
  PROVE  OrdersFit'
<1> DEFINE o == job[r].order
<1>1. /\ OnOrder(r) /\ Finish(r) /\ line' = line
      /\ o \in Orders /\ status[o] \in ReceivableStatuses
      /\ status' = [status EXCEPT ![o] = job[r].to]
      /\ \A l \in Lines : received'[l] = received[l] + job[r].got[l]
      /\ \A l \in Lines : received'[l] <= line[l].quantity
      /\ \A l \in Lines : job[r].got[l] > 0 => line[l].order = o
  BY ReceiptFacts
<1>2. CopiesFit'
  BY <1>1, LastCopy
<1>3. job[r].to \notin {"DRAFT"} \cup Missing
  <2>1. CopyFits(r) /\ job[r].to = DerivedStatus(r)
    BY ReceiptFacts DEF OrdersFit, CopiesFit
  <2>2. job[r].read = status[o]
    BY <1>1, <2>1 DEF CopyFits
  <2>3. QED
    BY <1>1, <2>1, <2>2 DEF DerivedStatus, ReceivableStatuses, Missing
<1>4. \A p \in Orders : status'[p] = IF p = o THEN job[r].to ELSE status[p]
  BY <1>1 DEF Shape, TypeOK
<1>5. ASSUME NEW l \in Lines
      PROVE  /\ line'[l] # NoLine => Exists(line[l].order)'
             /\ received'[l] > 0 => status'[line'[l].order] # "DRAFT"
  <2>1. line[l] = NoLine \/ line[l].order \in Orders
    BY DEF Shape, TypeOK, Line
  <2>2. received[l] \in Nat /\ job[r].got[l] \in Nat
    BY DEF Shape, TypeOK, Job
  <2>3. line[l] = NoLine => ~(received'[l] > 0)
    BY <1>1, <2>2 DEF NoLine
  <2>4. line[l].order = o \/ received'[l] = received[l]
    BY <1>1, <2>2
  <2>5. QED
    BY <1>1, <1>3, <1>4, <2>1, <2>3, <2>4 DEF OrdersFit, LinesFit, Exists
<1>6. LinesFit'
  BY <1>1, <1>5 DEF LinesFit
<1>7. QED
  BY <1>2, <1>6 DEF OrdersFit

LEMMA OrdersKept ==
  BuyersAlone /\ Shape /\ WorkFits /\ OrdersFit /\ [Next]_vars => OrdersFit'
<1> SUFFICES ASSUME BuyersAlone, Shape, WorkFits, OrdersFit, [Next]_vars PROVE OrdersFit'
  OBVIOUS
(* Ending a request, and what clerks do, touches no order.                 *)
<1>1. ASSUME NEW r \in Requests, Finish(r), UNCHANGED orders PROVE OrdersFit'
  <2>1. job'[r] = Idle /\ \A q \in Requests \ {r} : job'[q] = job[q]
    BY <1>1 DEF Finish, Shape, TypeOK
  <2>2. CopyFits(r)'
    BY <2>1, NoCopy DEF Idle
  <2>3. QED
    BY <1>1, <2>1, <2>2, OneCopy
<1>2. ASSUME NEW r \in Requests, NEW op, NEW moves, StartMoves(r, op, moves) PROVE OrdersFit'
  <2>1. /\ job'[r] = [Idle EXCEPT !.op = op, !.phase = "stock"] /\ UNCHANGED orders
        /\ \A q \in Requests \ {r} : job'[q] = job[q]
    BY <1>2 DEF StartMoves, Shape, TypeOK
  <2>2. CopyFits(r)'
    BY <2>1, NoCopy DEF Idle
  <2>3. QED
    BY <2>1, <2>2, OneCopy
<1>3. ASSUME UNCHANGED <<orders, job>> PROVE OrdersFit'
  <2>1. \A q \in Requests : CopyFits(q)'
    BY <1>3, SameCopy DEF OrdersFit, CopiesFit
  <2>2. LinesFit'
    BY <1>3 DEF OrdersFit, LinesFit, Exists, orders
  <2>3. QED
    BY <2>1, <2>2 DEF OrdersFit, CopiesFit
<1>4. ASSUME NEW r \in Requests, OrderStep(r) PROVE OrdersFit'
  BY <1>4, FetchedCopies, TransitionFits, PatchedFits, DeletedFits DEF OrderStep
<1>5. ASSUME NEW r \in Requests, ReceiptStep(r) PROVE OrdersFit'
  BY <1>5, BegunCopy, ReceivedCopy, DerivedCopy, ReceiptFits, SMTT(30) DEF ReceiptStep
<1>6. ASSUME NEW r \in Requests, StockStep(r) PROVE OrdersFit'
  BY <1>1, <1>2, <1>3, <1>6
     DEF StockStep, RecordMovement, Transfer, ApplyMovement, CommitMoves, CommitStock
<1>7. ASSUME NEW r \in Requests, Abandon(r) PROVE OrdersFit'
  BY <1>1, <1>7 DEF Abandon
<1>8. CASE UNCHANGED vars
  BY <1>3, <1>8 DEF vars, orders
<1>9. QED
  BY <1>4, <1>5, <1>6, <1>7, <1>8, CreatedFits, LineStepFits DEF Next

LEMMA InitOrders == Init => OrdersFit
<1> SUFFICES ASSUME Init PROVE OrdersFit
  OBVIOUS
<1>1. LinesFit
  BY DEF Init, LinesFit, NoLines, NoLine
<1>2. CopiesFit
  BY DEF Init, CopiesFit, CopyFits, OnOrder, Idle, Delivering
<1>3. QED
  BY <1>1, <1>2 DEF OrdersFit

OrdersInv == Shape /\ WorkFits /\ OrdersFit

LEMMA OrdersAlwaysFit == BuyersAlone => (Spec => []OrdersInv)
<1> SUFFICES ASSUME BuyersAlone PROVE Spec => []OrdersInv
  OBVIOUS
<1>1. Init => OrdersInv
  BY InitShape, InitWork, InitOrders DEF OrdersInv
<1>2. OrdersInv /\ [Next]_vars => OrdersInv'
  BY ShapeKept, WorkKept, OrdersKept DEF OrdersInv
<1>3. QED
  BY <1>1, <1>2, PTL DEF Spec

(* When one request at a time is about orders, no line ever receives more  *)
(* than was ordered, whatever clerks do on the shelves meanwhile.          *)
THEOREM NeverTooMuch == BuyersAlone => (Spec => []NeverOverReceived)
<1>1. OrdersInv => NeverOverReceived
  BY DEF OrdersInv, OrdersFit, LinesFit, NeverOverReceived
<1>2. QED
  BY <1>1, OrdersAlwaysFit, PTL
-----------------------------------------------------------------------------
(* Lines past DRAFT, and what the status tells. *)

PastDraft(o) == status[o] \notin {"DRAFT"} \cup Missing

(* Who writes a line, and where.                                           *)
LEMMA LineUnchanged ==
  ASSUME Shape, OrdersFit, LinesStayPut, WorkFits, [Next]_vars,
         NEW l \in Lines, NEW o \in Orders, o \in {line[l].order, line'[l].order}, PastDraft(o)
  PROVE  line'[l] = line[l]
<1>1. ASSUME NEW r \in Requests, LineStep(r) PROVE line'[l] = line[l]
  <2>1. ASSUME NEW op \in LineOps, NEW x \in Lines, FetchLine(r, op, x) PROVE line'[l] = line[l]
    BY <2>1 DEF FetchLine, orders
  <2>2. ASSUME NEW x \in Lines, NEW q \in 1..MaxQuantity, AddLine(r, x, q) PROVE line'[l] = line[l]
    <3>1. /\ line' = [line EXCEPT ![x] = [order |-> job[r].order, quantity |-> q]]
          /\ line[x] = NoLine /\ job[r].read = "DRAFT" /\ job[r].phase = "fetched"
      BY <2>2 DEF AddLine, RequireDraft, HasRead
    <3>2. status[job[r].order] = "DRAFT" /\ NoLine.order = None /\ None \notin Orders
      BY <3>1, ReadIsCurrent, ReceivingAssumption DEF NoLine
    <3>3. CASE x = l
      <4>1. line'[l].order = job[r].order /\ line[l].order = None
        BY <3>1, <3>2, <3>3 DEF Shape, TypeOK
      <4>2. QED
        BY <3>2, <4>1 DEF PastDraft
    <3>4. CASE x # l
      BY <3>1, <3>4 DEF Shape, TypeOK
    <3>5. QED
      BY <3>3, <3>4
  <2>3. ASSUME job[r].phase = "fetched", job[r].op \in LineOps, RequireDraft(r),
               NEW new, line' = [line EXCEPT ![job[r].line] = new],
               new = NoLine \/ new.order = job[r].order
        PROVE  line'[l] = line[l]
    <3>1. /\ job[r].line \in Lines /\ line[job[r].line].order = job[r].order
          /\ status[job[r].order] = "DRAFT"
      BY <2>3, LineOfDraft
    <3>2. NoLine.order = None /\ None \notin Orders
      BY ReceivingAssumption DEF NoLine
    <3>3. CASE l = job[r].line
      <4>1. line'[l].order \in {job[r].order, None}
        BY <2>3, <3>1, <3>2, <3>3 DEF Shape, TypeOK
      <4>2. QED
        BY <3>1, <3>2, <3>3, <4>1 DEF PastDraft
    <3>4. CASE l # job[r].line
      BY <2>3, <3>4 DEF Shape, TypeOK
    <3>5. QED
      BY <3>3, <3>4
  <2>4. ASSUME NEW q \in 1..MaxQuantity, ChangeLine(r, q) PROVE line'[l] = line[l]
    BY <2>3, <2>4 DEF ChangeLine, WriteLine, HasRead, LineOps
  <2>5. ASSUME NEW p \in Orders, MoveLine(r, p) PROVE line'[l] = line[l]
    <3>1. job[r].phase = "fetched" /\ job[r].op = "move" /\ RequireDraft(r)
      BY <2>5 DEF MoveLine, WriteLine, HasRead
    <3>2. "move" \in OpsOf[r] /\ job[r].order \in Orders
      BY <3>1, ReadIsCurrent DEF WorkFits, Fits, KindFits
    <3>3. p = job[r].order
      BY <3>2 DEF LinesStayPut
    <3>4. QED
      BY <2>3, <2>5, <3>1, <3>3 DEF MoveLine, WriteLine, LineOps
  <2>6. ASSUME DropLine(r) PROVE line'[l] = line[l]
    BY <2>3, <2>6 DEF DropLine, HasRead, LineOps
  <2>7. QED
    BY <1>1, <2>1, <2>2, <2>4, <2>5, <2>6 DEF LineStep
<1>2. ASSUME NEW r \in Requests, DeleteOrder(r) PROVE line'[l] = line[l]
  <2>1. /\ job[r].phase = "fetched" /\ job[r].read = "DRAFT"
        /\ line' = [x \in Lines |-> IF line[x].order = job[r].order THEN NoLine ELSE line[x]]
    BY <1>2 DEF DeleteOrder, HasRead, RequireDraft
  <2>2. status[job[r].order] = "DRAFT" /\ NoLine.order \notin Orders
    BY <2>1, ReadIsCurrent, ReceivingAssumption DEF NoLine
  <2>3. QED
    BY <2>1, <2>2 DEF PastDraft
<1>3. ASSUME NEW r \in Requests, OrderStep(r) PROVE line'[l] = line[l]
  BY <1>2, <1>3, ZenonT(30) DEF OrderStep, FetchOrder, Transition, PatchOrder, orders
<1>4. ASSUME NEW r \in Requests, ReceiptStep(r) PROVE line'[l] = line[l]
  BY <1>4, ZenonT(30) DEF ReceiptStep, BeginReceipt, ReceiveItem, DeriveStatus, CommitReceipt, orders
<1>5. ASSUME NEW r \in Requests, StockStep(r) PROVE line'[l] = line[l]
  BY <1>5 DEF StockStep, RecordMovement, Transfer, StartMoves, ApplyMovement, CommitMoves, orders
<1>6. QED
  BY <1>1, <1>3, <1>4, <1>5 DEF Next, CreateOrder, Abandon, orders, vars

(* When one request at a time is about orders, and no line changes its     *)
(* order, the lines of an order stay as they were submitted.               *)
THEOREM LinesAlwaysStay == BuyersAlone /\ LinesStayPut => (Spec => SubmittedLinesStay)
<1> DEFINE Stay == \A l \in Lines, o \in Orders :
                     /\ o \in {line[l].order, line'[l].order}
                     /\ status[o] \notin {"DRAFT"} \cup Missing
                     => line'[l] = line[l]
<1> SUFFICES ASSUME BuyersAlone, LinesStayPut PROVE Spec => SubmittedLinesStay
  OBVIOUS
<1>1. OrdersInv /\ [Next]_vars => [Stay]_vars
  BY LineUnchanged DEF OrdersInv, PastDraft
<1>2. QED
  BY <1>1, OrdersAlwaysFit, PTL DEF Spec, SubmittedLinesStay

(* The status of an order, told in three cases.                            *)
Complete(o) == \A l \in LinesOf(o) : received[l] = line[l].quantity
Started(o) == \E l \in LinesOf(o) : received[l] > 0
Tells(o) ==
  /\ status[o] = "RECEIVED" => Complete(o) /\ Started(o)
  /\ status[o] = "PARTIALLY_RECEIVED" => Started(o) /\ ~Complete(o)
  /\ status[o] \notin {"RECEIVED", "PARTIALLY_RECEIVED"} => ~Started(o)

LEMMA AllTell ==
  ASSUME \A o \in Orders : Tells(o)
  PROVE  StatusTellsReceipts
  BY DEF StatusTellsReceipts, Tells, Complete, Started

LEMMA UnstartedTells ==
  ASSUME LinesFit', NEW o \in Orders, ~PastDraft(o)'
  PROVE  Tells(o)'
<1>1. status'[o] \in {"DRAFT"} \cup Missing
  BY DEF PastDraft
<1>2. ASSUME NEW l \in Lines, line'[l].order = o PROVE ~(received'[l] > 0)
  <2>1. line'[l] # NoLine
    BY <1>2, ReceivingAssumption DEF NoLine
  <2>2. status'[o] = "DRAFT"
    BY <1>1, <1>2, <2>1 DEF LinesFit, Exists
  <2>3. QED
    BY <1>2, <2>2 DEF LinesFit
<1>3. ~Started(o)'
  BY <1>2 DEF Started, LinesOf
<1>4. QED
  BY <1>1, <1>3 DEF Tells, Missing

(* Who writes a status that is past DRAFT. *)
LEMMA StatusWritten ==
  ASSUME Shape, OrdersFit, [Next]_vars, NEW o \in Orders
  PROVE  \/ status'[o] = status[o] \/ ~PastDraft(o)'
         \/ \E r \in Requests, op \in DOMAIN Target : Transition(r, op) /\ job[r].order = o
         \/ \E r \in Requests : CommitReceipt(r)
<1>1. ASSUME NEW p \in Orders, CreateOrder(p) PROVE status'[o] = status[o] \/ ~PastDraft(o)'
  BY <1>1 DEF CreateOrder, PastDraft, Shape, TypeOK
<1>2. ASSUME NEW r \in Requests, OrderStep(r)
      PROVE  \/ status'[o] = status[o] \/ ~PastDraft(o)'
             \/ \E op \in DOMAIN Target : Transition(r, op) /\ job[r].order = o
  <2>1. ASSUME NEW op \in DOMAIN Target, Transition(r, op), job[r].order # o
        PROVE  status'[o] = status[o]
    BY <2>1 DEF Transition, Shape, TypeOK
  <2>2. ASSUME PatchOrder(r) PROVE status'[o] = status[o]
    BY <2>2, ReadIsCurrent DEF PatchOrder, HasRead, Shape, TypeOK
  <2>3. ASSUME DeleteOrder(r) PROVE status'[o] = status[o] \/ ~PastDraft(o)'
    BY <2>3 DEF DeleteOrder, PastDraft, Missing, Shape, TypeOK
  <2>4. ASSUME NEW op \in OrderOps, NEW p \in Orders, FetchOrder(r, op, p)
        PROVE  status'[o] = status[o]
    BY <2>4, SMTT(30) DEF FetchOrder, orders
  <2>5. QED
    BY <1>2, <2>1, <2>2, <2>3, <2>4 DEF OrderStep
<1>3. ASSUME NEW r \in Requests, LineStep(r) PROVE status' = status
  BY <1>3 DEF LineStep, FetchLine, AddLine, ChangeLine, MoveLine, WriteLine, DropLine, orders
<1>4. ASSUME NEW r \in Requests, ReceiptStep(r) PROVE status' = status \/ CommitReceipt(r)
  BY <1>4, ZenonT(30) DEF ReceiptStep, BeginReceipt, ReceiveItem, DeriveStatus, orders
<1>5. ASSUME NEW r \in Requests, StockStep(r) PROVE status' = status
  BY <1>5 DEF StockStep, RecordMovement, Transfer, StartMoves, ApplyMovement, CommitMoves, orders
<1>6. QED
  BY <1>1, <1>2, <1>3, <1>4, <1>5 DEF Next, Abandon, orders, vars

(* A receipt gives its own order the status of what is now received.       *)
LEMMA ReceiptTells ==
  ASSUME Shape, WorkFits, OrdersFit, NEW r \in Requests, CommitReceipt(r),
         NEW o \in Orders, Tells(o)
  PROVE  Tells(o)'
<1>1. /\ line' = line /\ job[r].order \in Orders /\ job[r].to = DerivedStatus(r)
      /\ status' = [status EXCEPT ![job[r].order] = job[r].to]
      /\ \A l \in Lines : received'[l] = received[l] + job[r].got[l]
      /\ \A l \in Lines : received'[l] <= line[l].quantity
      /\ \A l \in Lines : job[r].got[l] > 0 => line[l].order = job[r].order
      /\ \E l \in Lines : job[r].got[l] > 0
  BY ReceiptFacts
<1>2. \A l \in Lines : received[l] \in Nat /\ job[r].got[l] \in Nat /\ line[l].quantity \in Nat
  BY ReceivingAssumption DEF Shape, TypeOK, Job, Line, NoLine
<1>3. CASE o # job[r].order
  <2>1. \A l \in Lines : line[l].order = o => received'[l] = received[l]
    BY <1>1, <1>2, <1>3
  <2>2. (Complete(o)' <=> Complete(o)) /\ (Started(o)' <=> Started(o))
    BY <1>1, <2>1 DEF Complete, Started, LinesOf
  <2>3. status'[o] = status[o]
    BY <1>1, <1>3 DEF Shape, TypeOK
  <2>4. QED
    BY <2>2, <2>3 DEF Tells
<1>4. CASE o = job[r].order
  <2>1. Started(o)'
    BY <1>1, <1>2, <1>4 DEF Started, LinesOf
  <2>2. \A l \in Lines : ReceivedFor(r, l) = received'[l]
    BY <1>1 DEF ReceivedFor
  <2>3. \A l \in Lines : ReceivedFor(r, l) >= line[l].quantity <=> received'[l] = line'[l].quantity
    BY <1>1, <1>2, <2>2
  <2>4. (\A l \in LinesOf(o) : ReceivedFor(r, l) >= line[l].quantity) <=> Complete(o)'
    BY <1>1, <2>3 DEF Complete, LinesOf
  <2>5. \E l \in LinesOf(o) : ReceivedFor(r, l) > 0
    BY <1>1, <2>1, <2>2 DEF Started, LinesOf
  <2>6. status'[o] = IF Complete(o)' THEN "RECEIVED" ELSE "PARTIALLY_RECEIVED"
    BY <1>1, <1>4, <2>4, <2>5 DEF DerivedStatus, Shape, TypeOK
  <2>7. QED
    BY <2>1, <2>6 DEF Tells
<1>5. QED
  BY <1>3, <1>4

LEMMA TellsKept ==
  LinesStayPut /\ OrdersInv /\ OrdersInv' /\ [Next]_vars
    => \A o \in Orders : Tells(o) => Tells(o)'
<1> SUFFICES ASSUME LinesStayPut, OrdersInv, OrdersInv', [Next]_vars, NEW o \in Orders, Tells(o)
             PROVE  Tells(o)'
  OBVIOUS
<1>0. Shape /\ WorkFits /\ OrdersFit /\ LinesFit'
  BY DEF OrdersInv, OrdersFit
<1>1. CASE ~PastDraft(o)'
  BY <1>0, <1>1, UnstartedTells
<1>2. CASE \E r \in Requests : CommitReceipt(r)
  BY <1>0, <1>2, ReceiptTells
<1>3. ASSUME NEW r \in Requests, NEW op \in DOMAIN Target, Transition(r, op), job[r].order = o
      PROVE  Tells(o)'
  <2>1. /\ status[o] \notin {"RECEIVED", "PARTIALLY_RECEIVED"}
        /\ UNCHANGED <<line, received>> /\ status'[o] = Target[op]
    <3>1. status[o] = job[r].read
      BY <1>0, <1>3, ReadIsCurrent DEF Transition, HasRead
    <3>2. QED
      BY <1>0, <1>3, <3>1 DEF Transition, AllowedTransitions, Shape, TypeOK
  <2>2. ~Started(o)'
    BY <2>1 DEF Tells, Started, LinesOf
  <2>3. Target[op] \notin {"RECEIVED", "PARTIALLY_RECEIVED"}
    BY DEF Target
  <2>4. QED
    BY <2>1, <2>2, <2>3 DEF Tells
<1>4. CASE PastDraft(o)' /\ status'[o] = status[o] /\ received' = received
  <2>1. PastDraft(o)
    BY <1>4 DEF PastDraft
  <2>2. \A l \in Lines : o \in {line[l].order, line'[l].order} => line'[l] = line[l]
    BY <1>0, <2>1, LineUnchanged
  <2>3. LinesOf(o)' = LinesOf(o) /\ \A l \in LinesOf(o) : line'[l] = line[l]
    BY <2>2 DEF LinesOf
  <2>4. (Complete(o)' <=> Complete(o)) /\ (Started(o)' <=> Started(o))
    BY <1>4, <2>3 DEF Complete, Started
  <2>5. QED
    BY <1>4, <2>4 DEF Tells
<1>5. QED
  BY <1>0, <1>1, <1>2, <1>3, <1>4, StatusWritten, WrittenAtCommit

(* When one request at a time is about orders, and no line changes its     *)
(* order, the status of every order tells what has been received of it.    *)
THEOREM StatusAlwaysTells == BuyersAlone /\ LinesStayPut => (Spec => []StatusTellsReceipts)
<1> SUFFICES ASSUME BuyersAlone, LinesStayPut PROVE Spec => []StatusTellsReceipts
  OBVIOUS
<1> DEFINE Telling == \A o \in Orders : Tells(o)
<1>1. Init => Telling
  <2>1. Init => \A l \in Lines : received[l] = 0
    BY DEF Init
  <2>2. QED
    BY <2>1 DEF Init, Tells, Started, LinesOf
<1>2. Telling /\ OrdersInv /\ OrdersInv' /\ [Next]_vars => Telling'
  BY TellsKept
<1>3. Telling => StatusTellsReceipts
  BY AllTell
<1>4. QED
  BY <1>1, <1>2, <1>3, OrdersAlwaysFit, PTL DEF Spec
=============================================================================
