-------------------------- MODULE InvoicingProofs --------------------------
(***************************************************************************)
(* Proofs about InvoiceItems, for any requests, invoices, items, amounts   *)
(* and operations: the types; that no interleaving loses an amount from a  *)
(* total; and that the items of a sent invoice stay as they are.           *)
(*                                                                         *)
(* The second holds because each transaction that creates or changes an    *)
(* item recalculates a second time while it holds the invoice row          *)
(* (Together); a request that moves or removes an item or saves a header   *)
(* is on its own, and writes the totals of both invoices (LoneJob).  The   *)
(* third holds because what a request read about the status and the item   *)
(* stays true until it commits (StayInv).                                  *)
(*                                                                         *)
(* Then, about Pricing, for any lines, amounts and rates: the types; that  *)
(* every header adds up, exactly or within the rounding of its lines; and  *)
(* that entries balance and credit what the lines bill.  They hold because *)
(* each line keeps the amounts derived when it was saved, at whatever rate *)
(* (LineDerived), and the header is always the sum of the lines as they    *)
(* are (PricingInv).                                                       *)
(***************************************************************************)
EXTENDS InvoiceItems, Pricing, SumsProofs, TLAPS

(* What a request that creates or changes an item is about. *)
Working(r) == job[r].phase \in {"fetched", "select", "update"}

JobOK(r) ==
  LET i == job[r].after.inv
      x == job[r].item
  IN  /\ job[r].phase = "idle" => job[r] = Idle
      /\ job[r].phase # "header"
      /\ Working(r) => /\ x \in Items /\ i \in Invoices
                       /\ job[r].before.inv \in {None, i}
                       /\ items[x].inv \in {None, i}
      /\ job[r].phase = "fetched" => job[r].totals = Unwritten
      /\ job[r].phase = "update" => job[r].plan # <<>>
      /\ InTransaction(r) => /\ job[r].plan \in {<<i, i>>, <<i>>, <<>>}
                             /\ job[r].plan = <<i, i>> <=> job[r].totals[i] = None
      /\ \A k \in Invoices \ {i} : job[r].totals[k] = None
JobsOK == \A r \in Requests : JobOK(r)

(* Requests on the same item agree on its invoice; rows have one writer. *)
OneWriter ==
  \A r, s \in Requests :
    r # s =>
      /\ Working(r) /\ Working(s) /\ job[r].item = job[s].item =>
           job[r].after.inv = job[s].after.inv
      /\ ~(InTransaction(r) /\ InTransaction(s) /\ job[r].item = job[s].item)
      /\ \A i \in Invoices : job[r].totals[i] = None \/ job[s].totals[i] = None

(* Under the row lock, what was summed is what would be summed now. *)
SumsCurrent ==
  \A r \in Requests :
    LET i == job[r].after.inv IN
    /\ job[r].phase = "update" /\ job[r].plan = <<i>> => job[r].sum = TotalOf(Seen(r), i)
    /\ job[r].phase = "select" /\ job[r].plan = <<>> => job[r].totals[i] = TotalOf(Seen(r), i)

Together == TypeOK /\ JobsOK /\ OneWriter /\ SumsCurrent /\ TotalsFollowItems

(* What any number of requests may do at once. *)
SafeStep ==
  \/ UNCHANGED vars
  \/ \E r \in Requests, x \in Items, i \in Invoices, a \in 0..MaxAmount :
       FetchForCreate(r, x, i, a) \/ (FetchForUpdate(r, x, i, a) /\ items[x].inv = i)
  \/ \E r \in Requests, i \in Invoices : Send(r, i)
  \/ \E r \in Requests : Step(r) \/ Rollback(r)

(* A request is about an item, which it creates, changes or removes; a     *)
(* total to be written belongs to an invoice.                              *)
JobsShaped ==
  \A r \in Requests :
    /\ Working(r) => /\ job[r].item \in Items
                     /\ job[r].before # NoItem \/ job[r].after # NoItem
    /\ job[r].phase = "update" => job[r].plan # <<>>

(* Sums of items. *)
LEMMA TotalIsNatural ==
  ASSUME NEW rows \in [Items -> Item], NEW i
  PROVE  TotalOf(rows, i) \in Nat
<1> DEFINE f == [x \in Items |-> IF rows[x].inv = i THEN rows[x].amount ELSE 0]
<1>1. f \in [Items -> Nat]
  BY InvoiceItemsAssumption DEF Item, NoItem
<1>2. SumOf(f) \in Nat
  <2> HIDE DEF f
  <2>1. QED
    BY <1>1, SumIsNatural, InvoiceItemsAssumption
<1>3. QED
  BY <1>2 DEF TotalOf

(* An item of another invoice, before and after it is written, does not    *)
(* count.                                                                  *)
LEMMA OtherItemsDoNotCount ==
  ASSUME NEW rows, NEW changed, NEW y, NEW i,
         \A z \in Items \ {y} : changed[z] = rows[z],
         rows[y].inv # i, changed[y].inv # i
  PROVE  TotalOf(changed, i) = TotalOf(rows, i)
<1>1. [x \in Items |-> IF changed[x].inv = i THEN changed[x].amount ELSE 0]
      = [x \in Items |-> IF rows[x].inv = i THEN rows[x].amount ELSE 0]
  OBVIOUS
<1>2. QED
  BY <1>1 DEF TotalOf

(* Nothing is in progress at the start. *)
LEMMA InitTogether == Init => Together /\ JobsShaped
<1> SUFFICES ASSUME Init PROVE Together /\ JobsShaped
  OBVIOUS
<1> USE InvoiceItemsAssumption
<1>1. Idle \in Job
  BY DEF Idle, Job, Item, NewHeader, Header, Unwritten
<1>2. TypeOK
  BY <1>1 DEF Init, TypeOK, Item, Header, NewHeader
<1>3. JobsOK /\ OneWriter /\ SumsCurrent
  BY DEF Init, JobsOK, JobOK, OneWriter, SumsCurrent, Idle, Working, InTransaction, Unwritten, NoItem
<1>4. TotalsFollowItems
  <2>1. SUFFICES ASSUME NEW i \in Invoices PROVE TotalOf(items, i) = 0
    BY DEF Init, NewHeader, TotalsFollowItems
  <2> DEFINE f == [x \in Items |-> IF items[x].inv = i THEN items[x].amount ELSE 0]
  <2>2. f = [x \in Items |-> 0]
    BY DEF Init, NoItem
  <2>3. UnitsOf([x \in Items |-> 0]) = {}
    BY DEF UnitsOf
  <2>4. SumOf(f) = 0
    BY <2>2, <2>3, FS_EmptySet DEF SumOf
  <2>5. QED
    BY <2>4 DEF TotalOf
<1>5. JobsShaped
  BY DEF Init, JobsShaped, Idle, Working
<1>6. QED
  BY <1>2, <1>3, <1>4, <1>5 DEF Together

(* A transaction sees rows of the right kind. *)
LEMMA SeenIsTyped ==
  ASSUME TypeOK, NEW r \in Requests
  PROVE  Seen(r) \in [Items -> Item]
<1>1. job[r].after \in Item
  BY DEF TypeOK, Job
<1>2. QED
  BY <1>1 DEF TypeOK, Seen

(* Every step keeps types, whatever is requested. *)
LEMMA TypesKept == TypeOK /\ JobsShaped /\ [Next]_vars => TypeOK'
<1> SUFFICES ASSUME TypeOK, JobsShaped, [Next]_vars PROVE TypeOK'
  OBVIOUS
<1> USE InvoiceItemsAssumption
<1>t. items \in [Items -> Item] /\ invoices \in [Invoices -> Header] /\ job \in [Requests -> Job]
  BY DEF TypeOK
<1>i. Idle \in Job
  BY DEF Idle, Job, Item, NewHeader, Header, Unwritten
<1>1. ASSUME NEW r \in Requests, NEW j \in Job, job' = [job EXCEPT ![r] = j],
             items' = items, invoices' = invoices
      PROVE  TypeOK'
  BY <1>1, <1>t DEF TypeOK
<1>2. ASSUME NEW r \in Requests, NEW x \in Items, NEW i \in Invoices, NEW a \in 0..MaxAmount,
             FetchForCreate(r, x, i, a)
      PROVE  TypeOK'
  <2>1. [Idle EXCEPT !.phase = "fetched", !.item = x, !.inv = i, !.header = invoices[i],
                     !.after = [inv |-> i, amount |-> a]] \in Job
    <3>1. [inv |-> i, amount |-> a] \in Item /\ invoices[i] \in Header
      BY <1>t DEF Item
    <3>2. QED
      BY <1>i, <3>1 DEF Job
  <2>2. QED
    BY <1>1, <1>2, <2>1 DEF FetchForCreate
<1>3. ASSUME NEW r \in Requests, NEW x \in Items, NEW i \in Invoices, NEW a \in 0..MaxAmount,
             FetchForUpdate(r, x, i, a)
      PROVE  TypeOK'
  <2>1. items[x] \in Item /\ items[x].inv \in Invoices
    BY <1>3, <1>t DEF FetchForUpdate, Item
  <2>2. [Idle EXCEPT !.phase = "fetched", !.item = x, !.before = items[x],
                     !.inv = items[x].inv, !.header = invoices[items[x].inv],
                     !.after = [inv |-> i, amount |-> a]] \in Job
    <3>1. [inv |-> i, amount |-> a] \in Item /\ invoices[items[x].inv] \in Header
      BY <1>t, <2>1 DEF Item
    <3>2. QED
      BY <1>i, <2>1, <3>1 DEF Job
  <2>3. QED
    BY <1>1, <1>3, <2>2 DEF FetchForUpdate
<1>4. ASSUME NEW r \in Requests, Begin(r) PROVE TypeOK'
  <2>1. Plan(job[r].before, job[r].after) \in Seq(Invoices)
    <3>1. /\ job[r].before # NoItem \/ job[r].after # NoItem
          /\ job[r].before \in Item /\ job[r].after \in Item
      BY <1>4, <1>t DEF Begin, JobsShaped, Working, Job
    <3>2. /\ job[r].before # NoItem => job[r].before.inv \in Invoices
          /\ job[r].after # NoItem => job[r].after.inv \in Invoices
      BY <3>1 DEF Item
    <3>3. QED
      BY <3>1, <3>2 DEF Plan
  <2>2. \A j \in Job, q \in Seq(Invoices) : [j EXCEPT !.phase = "select", !.plan = q] \in Job
    BY DEF Job
  <2>3. QED
    BY <1>1, <1>4, <1>t, <2>1, <2>2, ZenonT(30) DEF Begin
<1>5. ASSUME NEW r \in Requests, SelectItems(r) PROVE TypeOK'
  <2> DEFINE n == TotalOf(Seen(r), Head(job[r].plan))
  <2>1. n \in Nat
    BY SeenIsTyped, TotalIsNatural
  <2>2. \A j \in Job, m \in Nat : [j EXCEPT !.phase = "update", !.sum = m] \in Job
    BY DEF Job
  <2>3. job' = [job EXCEPT ![r] = [job[r] EXCEPT !.phase = "update", !.sum = n]]
    BY <1>5, <1>t DEF SelectItems
  <2> HIDE DEF n
  <2>4. QED
    BY <1>1, <1>5, <1>t, <2>1, <2>2, <2>3 DEF SelectItems
<1>6. ASSUME NEW r \in Requests, UpdateInvoice(r) PROVE TypeOK'
  <2>1. job[r].plan \in Seq(Invoices) /\ job[r].plan # <<>> /\ job[r].sum \in Nat
        /\ job[r].totals \in [Invoices -> Nat \cup {None}]
    BY <1>6, <1>t DEF UpdateInvoice, JobsShaped, Job
  <2> DEFINE h == Head(job[r].plan)
             t == [job[r].totals EXCEPT ![h] = job[r].sum]
             q == Tail(job[r].plan)
  <2>2. t \in [Invoices -> Nat \cup {None}] /\ q \in Seq(Invoices)
    BY <2>1
  <2>3. job' = [job EXCEPT ![r] = [job[r] EXCEPT !.phase = "select", !.totals = t, !.plan = q]]
    BY <1>6, <1>t DEF UpdateInvoice, Job
  <2>4. \A j \in Job, tt \in [Invoices -> Nat \cup {None}], qq \in Seq(Invoices) :
          [j EXCEPT !.phase = "select", !.totals = tt, !.plan = qq] \in Job
    BY DEF Job
  <2> HIDE DEF t, q
  <2>5. QED
    BY <1>1, <1>6, <1>t, <2>2, <2>3, <2>4 DEF UpdateInvoice
<1>7. ASSUME NEW r \in Requests, Commit(r) PROVE TypeOK'
  <2>1. job' \in [Requests -> Job]
    BY <1>7, <1>t, <1>i DEF Commit
  <2>2. items' \in [Items -> Item]
    BY <1>7, SeenIsTyped DEF Commit
  <2>3. invoices' \in [Invoices -> Header]
    <3>1. ASSUME NEW i \in Invoices, job[r].totals[i] # None
          PROVE  [invoices[i] EXCEPT !.total = job[r].totals[i]] \in Header
      <4>1. job[r].totals[i] \in Nat
        BY <1>t, <3>1 DEF Job
      <4>2. QED
        BY <1>t, <4>1 DEF Header
    <3>2. QED
      BY <1>7, <1>t, <3>1 DEF Commit
  <2>4. QED
    BY <2>1, <2>2, <2>3 DEF TypeOK
<1>8. ASSUME NEW r \in Requests, Rollback(r) PROVE TypeOK'
  BY <1>1, <1>8, <1>i DEF Rollback
<1>9. ASSUME NEW r \in Requests, NEW i \in Invoices, Send(r, i) PROVE TypeOK'
  BY <1>9, <1>t DEF Send, TypeOK, Header
<1>10. ASSUME NEW r \in Requests, NEW x \in Items, FetchForDestroy(r, x) PROVE TypeOK'
  <2>1. items[x] \in Item /\ items[x].inv \in Invoices /\ invoices[items[x].inv] \in Header
    BY <1>10, <1>t DEF FetchForDestroy, Item
  <2>2. [Idle EXCEPT !.phase = "fetched", !.item = x, !.before = items[x],
                     !.inv = items[x].inv, !.header = invoices[items[x].inv]] \in Job
    BY <1>i, <2>1 DEF Job
  <2>3. QED
    BY <1>1, <1>10, <2>2 DEF FetchForDestroy
<1>11. ASSUME NEW r \in Requests, NEW i \in Invoices, FetchHeader(r, i) PROVE TypeOK'
  <2>1. [Idle EXCEPT !.phase = "header", !.inv = i, !.header = invoices[i]] \in Job
    BY <1>i, <1>t DEF Job
  <2>2. QED
    BY <1>1, <1>11, <2>1 DEF FetchHeader
<1>12. ASSUME NEW r \in Requests, PatchHeader(r) PROVE TypeOK'
  <2>1. job[r].header \in Header
    BY <1>t DEF Job
  <2>2. QED
    BY <1>12, <1>t, <1>i, <2>1 DEF PatchHeader, TypeOK
<1>13. CASE UNCHANGED vars
  BY <1>13 DEF vars, TypeOK
<1>14. QED
  BY <1>2, <1>3, <1>4, <1>5, <1>6, <1>7, <1>8, <1>9, <1>10, <1>11, <1>12, <1>13
     DEF Next, Request, Step

LEMMA ShapesKept == TypeOK /\ JobsShaped /\ [Next]_vars => JobsShaped'
<1> SUFFICES ASSUME TypeOK, JobsShaped, [Next]_vars PROVE JobsShaped'
  OBVIOUS
<1> USE InvoiceItemsAssumption
<1>t. items \in [Items -> Item] /\ invoices \in [Invoices -> Header] /\ job \in [Requests -> Job]
  BY DEF TypeOK
<1>1. ASSUME NEW r \in Requests, NEW j, job' = [job EXCEPT ![r] = j],
             j.phase \in {"fetched", "select", "update"} =>
               j.item \in Items /\ (j.before # NoItem \/ j.after # NoItem),
             j.phase = "update" => j.plan # <<>>
      PROVE  JobsShaped'
  <2>1. job'[r] = j /\ \A s \in Requests \ {r} : job'[s] = job[s]
    BY <1>1, <1>t
  <2>2. QED
    BY <1>1, <2>1 DEF JobsShaped, Working
<1>2. ASSUME NEW r \in Requests, job' = [job EXCEPT ![r] = Idle] PROVE JobsShaped'
  <2>1. Idle.phase = "idle"
    BY DEF Idle
  <2>2. QED
    BY <1>1, <1>2, <2>1
<1>3. ASSUME NEW r \in Requests, NEW x \in Items, NEW i \in Invoices, NEW a \in 0..MaxAmount,
             FetchForCreate(r, x, i, a)
      PROVE  JobsShaped'
  <2> DEFINE j == [Idle EXCEPT !.phase = "fetched", !.item = x, !.inv = i, !.header = invoices[i],
                     !.after = [inv |-> i, amount |-> a]]
  <2>1. j.phase = "fetched" /\ j.item = x /\ j.after # NoItem /\ job' = [job EXCEPT ![r] = j]
    BY <1>3 DEF FetchForCreate, Idle, NoItem
  <2> HIDE DEF j
  <2>2. QED
    BY <1>1, <2>1
<1>4. ASSUME NEW r \in Requests, NEW x \in Items, NEW i \in Invoices, NEW a \in 0..MaxAmount,
             FetchForUpdate(r, x, i, a)
      PROVE  JobsShaped'
  <2> DEFINE j == [Idle EXCEPT !.phase = "fetched", !.item = x, !.before = items[x],
                     !.inv = items[x].inv, !.header = invoices[items[x].inv],
                     !.after = [inv |-> i, amount |-> a]]
  <2>1. j.phase = "fetched" /\ j.item = x /\ j.after # NoItem /\ job' = [job EXCEPT ![r] = j]
    BY <1>4 DEF FetchForUpdate, Idle, NoItem
  <2> HIDE DEF j
  <2>2. QED
    BY <1>1, <2>1
<1>5. ASSUME NEW r \in Requests, NEW x \in Items, FetchForDestroy(r, x) PROVE JobsShaped'
  <2> DEFINE j == [Idle EXCEPT !.phase = "fetched", !.item = x, !.before = items[x],
                     !.inv = items[x].inv, !.header = invoices[items[x].inv]]
  <2>1. j.phase = "fetched" /\ j.item = x /\ j.before # NoItem /\ job' = [job EXCEPT ![r] = j]
    BY <1>5 DEF FetchForDestroy, Idle
  <2> HIDE DEF j
  <2>2. QED
    BY <1>1, <2>1
<1>6. ASSUME NEW r \in Requests, NEW i \in Invoices, FetchHeader(r, i) PROVE JobsShaped'
  <2> DEFINE j == [Idle EXCEPT !.phase = "header", !.inv = i, !.header = invoices[i]]
  <2>1. j.phase = "header" /\ job' = [job EXCEPT ![r] = j]
    BY <1>6 DEF FetchHeader, Idle
  <2> HIDE DEF j
  <2>2. QED
    BY <1>1, <2>1
<1>7. ASSUME NEW r \in Requests, Begin(r) \/ SelectItems(r) \/ UpdateInvoice(r) PROVE JobsShaped'
  <2>1. /\ \A s \in Requests \ {r} : job'[s] = job[s]
        /\ job'[r].item = job[r].item /\ job'[r].before = job[r].before
        /\ job'[r].after = job[r].after /\ Working(r)
        /\ job'[r].phase = "update" => job'[r].plan # <<>>
    BY <1>7, <1>t DEF Begin, SelectItems, UpdateInvoice, Job, Working
  <2>2. QED
    BY <2>1 DEF JobsShaped, Working
<1>8. ASSUME NEW r \in Requests, Commit(r) \/ Rollback(r) \/ PatchHeader(r) PROVE JobsShaped'
  BY <1>2, <1>8 DEF Commit, Rollback, PatchHeader
<1>9. ASSUME (\E r \in Requests, i \in Invoices : Send(r, i)) \/ UNCHANGED vars PROVE JobsShaped'
  BY <1>9 DEF Send, vars, JobsShaped, Working
<1>10. QED
  BY <1>3, <1>4, <1>5, <1>6, <1>7, <1>8, <1>9 DEF Next, Request, Step

(* Every step keeps the plans, the rows they are about and their writers.  *)
LEMMA JobsKept ==
  TypeOK /\ JobsOK /\ OneWriter /\ SafeStep => JobsOK' /\ OneWriter'
<1> SUFFICES ASSUME TypeOK, JobsOK, OneWriter, SafeStep
             PROVE  JobsOK' /\ OneWriter'
  OBVIOUS
<1> USE InvoiceItemsAssumption
<1>t. items \in [Items -> Item] /\ invoices \in [Invoices -> Header] /\ job \in [Requests -> Job]
  BY DEF TypeOK
<1>2. ASSUME NEW r \in Requests, NEW x \in Items, NEW i \in Invoices, NEW a \in 0..MaxAmount,
             FetchForCreate(r, x, i, a)
      PROVE  JobsOK' /\ OneWriter'
  <2>1. items' = items /\ \A s \in Requests \ {r} : job'[s] = job[s]
    BY <1>2, <1>t DEF FetchForCreate
  <2>2. /\ job'[r].phase = "fetched" /\ job'[r].item = x /\ job'[r].before = NoItem
        /\ job'[r].after = [inv |-> i, amount |-> a] /\ job'[r].totals = Unwritten
    BY <1>2, <1>t DEF FetchForCreate, Idle
  <2>3. items[x] = NoItem /\ \A s \in Requests : job[s].item # x
    BY <1>2 DEF FetchForCreate
  <2>4. JobsOK'
    BY <2>1, <2>2, <2>3 DEF JobsOK, JobOK, Working, InTransaction, NoItem, Unwritten
  <2>5. OneWriter'
    BY <2>1, <2>2, <2>3 DEF OneWriter, Working, InTransaction, Unwritten
  <2>6. QED
    BY <2>4, <2>5
<1>3. ASSUME NEW r \in Requests, NEW x \in Items, NEW i \in Invoices, NEW a \in 0..MaxAmount,
             FetchForUpdate(r, x, i, a), items[x].inv = i
      PROVE  JobsOK' /\ OneWriter'
  <2>1. items' = items /\ \A s \in Requests \ {r} : job'[s] = job[s]
    BY <1>3, <1>t DEF FetchForUpdate
  <2>2. /\ job'[r].phase = "fetched" /\ job'[r].item = x /\ job'[r].before = items[x]
        /\ job'[r].after = [inv |-> i, amount |-> a] /\ job'[r].totals = Unwritten
    BY <1>3, <1>t DEF FetchForUpdate, Idle
  <2>3. items[x].inv = i
    BY <1>3
  <2>4. \A s \in Requests : Working(s) /\ job[s].item = x => job[s].after.inv = i
    BY <2>3 DEF JobsOK, JobOK
  <2>5. JobsOK'
    BY <2>1, <2>2, <2>3 DEF JobsOK, JobOK, Working, InTransaction, Unwritten
  <2>6. OneWriter'
    BY <2>1, <2>2, <2>4 DEF OneWriter, Working, InTransaction, Unwritten
  <2>7. QED
    BY <2>5, <2>6
<1>4. ASSUME NEW r \in Requests, Begin(r) PROVE JobsOK' /\ OneWriter'
  <2>1. items' = items /\ \A s \in Requests \ {r} : job'[s] = job[s]
    BY <1>4, <1>t DEF Begin
  <2>2. /\ job[r].phase = "fetched" /\ job'[r].phase = "select"
        /\ job'[r].plan = Plan(job[r].before, job[r].after)
        /\ job'[r].item = job[r].item /\ job'[r].before = job[r].before
        /\ job'[r].after = job[r].after /\ job'[r].totals = job[r].totals
    BY <1>4, <1>t DEF Begin, Job
  <2>3. Plan(job[r].before, job[r].after) = <<job[r].after.inv, job[r].after.inv>>
    <3>1. job[r].after.inv \in Invoices /\ job[r].before.inv \in {None, job[r].after.inv}
          /\ job[r].before \in Item
      BY <2>2, <1>t DEF JobsOK, JobOK, Working, Job
    <3>2. job[r].before.inv = None => job[r].before = NoItem
      BY <3>1 DEF Item
    <3>3. job[r].after # NoItem
      BY <3>1 DEF NoItem
    <3>4. QED
      BY <3>1, <3>2, <3>3 DEF Plan
  <2>4. job[r].totals[job[r].after.inv] = None
    BY <2>2 DEF JobsOK, JobOK, Working, Unwritten
  <2>5. \A s \in Requests \ {r} : ~(InTransaction(s) /\ job[s].item = job[r].item)
    BY <1>4 DEF Begin, ItemFree
  <2>6. JobsOK'
    BY <2>1, <2>2, <2>3, <2>4, SMTT(30) DEF JobsOK, JobOK, Working, InTransaction
  <2>7. OneWriter'
    BY <2>1, <2>2, <2>5 DEF OneWriter, Working, InTransaction
  <2>8. QED
    BY <2>6, <2>7
<1>5. ASSUME NEW r \in Requests, SelectItems(r) PROVE JobsOK' /\ OneWriter'
  <2>1. items' = items /\ \A s \in Requests \ {r} : job'[s] = job[s]
    BY <1>5, <1>t DEF SelectItems
  <2>2. /\ job[r].phase = "select" /\ job'[r].phase = "update"
        /\ job'[r].plan = job[r].plan /\ job[r].plan # <<>>
        /\ job'[r].item = job[r].item /\ job'[r].before = job[r].before
        /\ job'[r].after = job[r].after /\ job'[r].totals = job[r].totals
    BY <1>5, <1>t DEF SelectItems, Job
  <2>3. JobsOK'
    BY <2>1, <2>2, SMTT(30) DEF JobsOK, JobOK, Working, InTransaction
  <2>4. OneWriter'
    BY <2>1, <2>2 DEF OneWriter, Working, InTransaction
  <2>5. QED
    BY <2>3, <2>4
<1>6. ASSUME NEW r \in Requests, UpdateInvoice(r) PROVE JobsOK' /\ OneWriter'
  <2> DEFINE i == job[r].after.inv
  <2>1. items' = items /\ \A s \in Requests \ {r} : job'[s] = job[s]
    BY <1>6, <1>t DEF UpdateInvoice
  <2>2. i \in Invoices /\ job[r].plan \in {<<i, i>>, <<i>>} /\ job[r].phase = "update"
    BY <1>6 DEF UpdateInvoice, JobsOK, JobOK, Working, InTransaction
  <2>3. Head(job[r].plan) = i /\ Tail(job[r].plan) \in {<<i>>, <<>>}
    <3> HIDE DEF i
    <3>1. Head(<<i, i>>) = i /\ Head(<<i>>) = i
      OBVIOUS
    <3>2. Tail(<<i, i>>) = <<i>>
      BY <2>2
    <3>3. Tail(<<i>>) = <<>>
      BY <2>2
    <3>4. QED
      BY <2>2, <3>1, <3>2, <3>3
  <2>4. /\ job'[r].phase = "select" /\ job'[r].plan = Tail(job[r].plan)
        /\ job'[r].item = job[r].item /\ job'[r].before = job[r].before
        /\ job'[r].after = job[r].after
        /\ job'[r].totals = [job[r].totals EXCEPT ![i] = job[r].sum]
    BY <1>6, <1>t, <2>3 DEF UpdateInvoice, Job
  <2>5. job[r].sum # None /\ job[r].totals \in [Invoices -> Nat \cup {None}]
    BY <1>t DEF Job
  <2>6. \A s \in Requests \ {r} : job[s].totals[i] = None
    BY <1>6, <2>3 DEF UpdateInvoice, InvoiceFree
  <2>7. JobsOK'
    <3>1. <<i>> # <<i, i>> /\ <<>> # <<i, i>>
      OBVIOUS
    <3>2. job'[r].totals[i] # None
          /\ \A k \in Invoices \ {i} : job'[r].totals[k] = job[r].totals[k]
      BY <2>2, <2>4, <2>5
    <3>3. ASSUME NEW s \in Requests \ {r} PROVE job'[s] = job[s] /\ items' = items
      BY <2>1
    <3>4. Working(r) /\ job'[r].phase = "select" /\ job'[r].plan # <<i, i>>
          /\ job'[r].plan \in {<<i>>, <<>>}
      BY <2>2, <2>3, <2>4, <3>1 DEF Working
    <3> HIDE DEF i
    <3>5. /\ job[r].item \in Items /\ job[r].before.inv \in {None, i}
          /\ items[job[r].item].inv \in {None, i}
          /\ \A k \in Invoices \ {i} : job[r].totals[k] = None
      BY <3>4 DEF JobsOK, JobOK, i
    <3>6. job'[r].after.inv = i
      BY <2>4 DEF i
    <3>7. JobOK(r)'
      BY <2>1, <2>2, <2>4, <3>2, <3>4, <3>5, <3>6 DEF JobOK, Working, InTransaction
    <3>8. \A q \in Requests \ {r} : JobOK(q)'
      BY <2>1 DEF JobsOK, JobOK, Working, InTransaction
    <3>9. QED
      BY <3>7, <3>8 DEF JobsOK, JobOK
  <2>8. OneWriter'
    <3>1. \A k \in Invoices \ {i} : job'[r].totals[k] = job[r].totals[k]
      BY <2>2, <2>4, <2>5
    <3> HIDE DEF i
    <3>2. ASSUME NEW s \in Requests \ {r}
          PROVE  \A k \in Invoices : job'[r].totals[k] = None \/ job[s].totals[k] = None
      BY <2>6, <3>1 DEF OneWriter
    <3>3. InTransaction(r) /\ Working(r)
      BY <2>2 DEF InTransaction, Working
    <3>4. \A s \in Requests : /\ (Working(s)' <=> Working(s))
                              /\ (InTransaction(s)' <=> InTransaction(s))
                              /\ job'[s].item = job[s].item
                              /\ job'[s].after = job[s].after
      BY <2>1, <2>4, <3>3 DEF Working, InTransaction
    <3>5. \A s, q \in Requests : s # q =>
            \A k \in Invoices : job'[s].totals[k] = None \/ job'[q].totals[k] = None
      BY <2>1, <3>2 DEF OneWriter
    <3>6. QED
      BY <3>4, <3>5 DEF OneWriter
  <2>9. QED
    BY <2>7, <2>8
<1>7. ASSUME NEW r \in Requests, Commit(r) \/ Rollback(r) PROVE JobsOK' /\ OneWriter'
  <2>1. job'[r] = Idle /\ \A s \in Requests \ {r} : job'[s] = job[s]
    BY <1>7, <1>t DEF Commit, Rollback
  <2>2. ASSUME NEW s \in Requests \ {r}, Working(s)
        PROVE  items'[job[s].item].inv \in {None, job[s].after.inv}
    <3>1. job[s].item \in Items /\ items[job[s].item].inv \in {None, job[s].after.inv}
      BY <2>2 DEF JobsOK, JobOK
    <3>2. CASE Rollback(r)
      BY <3>1, <3>2 DEF Rollback
    <3>3. CASE Commit(r)
      <4>1. items' = [items EXCEPT ![job[r].item] = job[r].after] /\ Working(r)
        BY <3>3 DEF Commit, Seen, Working
      <4>2. CASE job[s].item = job[r].item
        <5>1. job[s].after.inv = job[r].after.inv
          BY <2>2, <4>1, <4>2 DEF OneWriter
        <5>2. items'[job[s].item] = job[r].after
          BY <1>t, <3>1, <4>1, <4>2
        <5>3. QED
          BY <5>1, <5>2
      <4>3. CASE job[s].item # job[r].item
        BY <1>t, <3>1, <4>1, <4>3
      <4>4. QED
        BY <4>2, <4>3
    <3>4. QED
      BY <1>7, <3>2, <3>3
  <2>3. JobsOK'
    BY <2>1, <2>2 DEF JobsOK, JobOK, Working, InTransaction, Idle, Unwritten
  <2>4. OneWriter'
    BY <2>1 DEF OneWriter, Working, InTransaction, Idle, Unwritten
  <2>5. QED
    BY <2>3, <2>4
<1>8. ASSUME NEW r \in Requests, PatchHeader(r) PROVE FALSE
  BY <1>8 DEF PatchHeader, JobsOK, JobOK
<1>9. ASSUME (\E r \in Requests, i \in Invoices : Send(r, i)) \/ UNCHANGED vars
      PROVE  JobsOK' /\ OneWriter'
  <2>1. items' = items /\ job' = job
    BY <1>9 DEF Send, vars
  <2>2. QED
    BY <2>1 DEF JobsOK, JobOK, OneWriter, Working, InTransaction
<1>10. QED
  BY <1>2, <1>3, <1>4, <1>5, <1>6, <1>7, <1>8, <1>9 DEF SafeStep, Step

(* What a transaction summed under the row lock stays true, and a commit   *)
(* writes it: the totals follow the items.                                 *)
LEMMA TotalsKept == Together /\ SafeStep => SumsCurrent' /\ TotalsFollowItems'
<1> SUFFICES ASSUME Together, SafeStep
             PROVE  SumsCurrent' /\ TotalsFollowItems'
  OBVIOUS
<1> USE InvoiceItemsAssumption
<1>t. /\ items \in [Items -> Item] /\ invoices \in [Invoices -> Header]
      /\ job \in [Requests -> Job] /\ TypeOK /\ JobsOK /\ OneWriter
      /\ SumsCurrent /\ TotalsFollowItems
  BY DEF Together, TypeOK
(* A step of one request that commits nothing. *)
<1>1. ASSUME NEW r \in Requests, \A s \in Requests \ {r} : job'[s] = job[s],
             items' = items, \A i \in Invoices : invoices'[i].total = invoices[i].total,
             LET i == job'[r].after.inv IN
             /\ job'[r].phase = "update" /\ job'[r].plan = <<i>> =>
                  job'[r].sum = TotalOf(Seen(r)', i)
             /\ job'[r].phase = "select" /\ job'[r].plan = <<>> =>
                  job'[r].totals[i] = TotalOf(Seen(r)', i)
      PROVE  SumsCurrent' /\ TotalsFollowItems'
  <2>1. \A s \in Requests \ {r} : Seen(s)' = Seen(s)
    BY <1>1 DEF Seen
  <2>2. SumsCurrent'
    BY <1>1, <1>t, <2>1 DEF SumsCurrent, TotalOf
  <2>3. TotalsFollowItems'
    BY <1>1, <1>t DEF TotalsFollowItems, TotalOf
  <2>4. QED
    BY <2>2, <2>3
<1>2. ASSUME NEW r \in Requests,
             (\E x \in Items, i \in Invoices, a \in 0..MaxAmount :
                FetchForCreate(r, x, i, a) \/ FetchForUpdate(r, x, i, a)) \/ Rollback(r)
      PROVE  SumsCurrent' /\ TotalsFollowItems'
  <2>1. job'[r].phase \in {"fetched", "idle"}
    <3>1. ASSUME NEW x \in Items, NEW i \in Invoices, NEW a \in 0..MaxAmount,
                 FetchForCreate(r, x, i, a)
          PROVE  job'[r].phase = "fetched"
      BY <3>1, <1>t DEF FetchForCreate, Idle
    <3>2. ASSUME NEW x \in Items, NEW i \in Invoices, NEW a \in 0..MaxAmount,
                 FetchForUpdate(r, x, i, a)
          PROVE  job'[r].phase = "fetched"
      BY <3>2, <1>t DEF FetchForUpdate, Idle
    <3>3. ASSUME Rollback(r) PROVE job'[r].phase = "idle"
      BY <3>3, <1>t, SMTT(30) DEF Rollback, Idle
    <3>4. QED
      BY <1>2, <3>1, <3>2, <3>3
  <2>2. /\ \A s \in Requests \ {r} : job'[s] = job[s]
        /\ items' = items /\ invoices' = invoices
    BY <1>2, <1>t, ZenonT(30) DEF FetchForCreate, FetchForUpdate, Rollback
  <2>3. QED
    BY <1>1, <2>1, <2>2
<1>3. ASSUME NEW r \in Requests, Begin(r) PROVE SumsCurrent' /\ TotalsFollowItems'
  <2>1. job'[r].phase = "select" /\ job'[r].plan # <<>>
    <3>1. Plan(job[r].before, job[r].after) # <<>>
      BY DEF Plan
    <3>2. QED
      BY <1>3, <1>t, <3>1 DEF Begin, Job
  <2>2. /\ \A s \in Requests \ {r} : job'[s] = job[s]
        /\ items' = items /\ invoices' = invoices
    BY <1>3, <1>t DEF Begin
  <2>3. QED
    BY <1>1, <2>1, <2>2
<1>4. ASSUME NEW r \in Requests, SelectItems(r) PROVE SumsCurrent' /\ TotalsFollowItems'
  <2>1. /\ job'[r].phase = "update" /\ job'[r].plan = job[r].plan
        /\ job'[r].sum = TotalOf(Seen(r), Head(job[r].plan))
        /\ job'[r].after = job[r].after /\ job'[r].item = job[r].item
    BY <1>4, <1>t DEF SelectItems, Job
  <2>2. /\ \A s \in Requests \ {r} : job'[s] = job[s]
        /\ items' = items /\ invoices' = invoices
    BY <1>4, <1>t DEF SelectItems
  <2>3. Seen(r)' = Seen(r)
    BY <2>1, <2>2 DEF Seen
  <2>4. QED
    BY <1>1, <2>1, <2>2, <2>3
<1>5. ASSUME NEW r \in Requests, UpdateInvoice(r) PROVE SumsCurrent' /\ TotalsFollowItems'
  <2> DEFINE i == job[r].after.inv
  <2>1. i \in Invoices /\ job[r].plan \in {<<i, i>>, <<i>>}
    BY <1>5, <1>t DEF UpdateInvoice, JobsOK, JobOK, Working, InTransaction
  <2>2. /\ job'[r].phase = "select" /\ job'[r].plan = Tail(job[r].plan)
        /\ job'[r].totals = [job[r].totals EXCEPT ![Head(job[r].plan)] = job[r].sum]
        /\ job'[r].after = job[r].after /\ job'[r].item = job[r].item
        /\ job[r].phase = "update"
    BY <1>5, <1>t DEF UpdateInvoice, Job
  <2>3. /\ \A s \in Requests \ {r} : job'[s] = job[s]
        /\ items' = items /\ invoices' = invoices
    BY <1>5, <1>t DEF UpdateInvoice
  <2>4. Seen(r)' = Seen(r)
    BY <2>2, <2>3 DEF Seen
  <2>5. job'[r].plan = <<>> => job'[r].totals[i] = TotalOf(Seen(r), i)
    <3>1. CASE job[r].plan = <<i, i>>
      <4>1. Tail(job[r].plan) # <<>>
        BY <2>1, <3>1
      <4>2. QED
        BY <2>2, <4>1
    <3>2. CASE job[r].plan = <<i>>
      <4>1. Head(job[r].plan) = i
        BY <3>2
      <4>2. job[r].sum = TotalOf(Seen(r), i)
        BY <1>t, <2>2, <3>2 DEF SumsCurrent
      <4>3. job[r].totals \in [Invoices -> Nat \cup {None}]
        BY <1>t DEF Job
      <4>4. QED
        BY <2>1, <2>2, <4>1, <4>2, <4>3
    <3>3. QED
      BY <2>1, <3>1, <3>2
  <2>6. QED
    BY <1>1, <2>2, <2>3, <2>4, <2>5
<1>6. ASSUME NEW r \in Requests, Commit(r) PROVE SumsCurrent' /\ TotalsFollowItems'
  <2> DEFINE i == job[r].after.inv
             x == job[r].item
  <2>1. /\ x \in Items /\ i \in Invoices /\ items[x].inv \in {None, i}
        /\ job[r].totals[i] # None /\ \A k \in Invoices \ {i} : job[r].totals[k] = None
        /\ InTransaction(r)
    <3>1. <<>> # <<i, i>>
      OBVIOUS
    <3>2. QED
      BY <1>6, <1>t, <3>1 DEF Commit, JobsOK, JobOK, Working, InTransaction
  <2>2. job[r].totals[i] = TotalOf(Seen(r), i)
    BY <1>6, <1>t DEF Commit, SumsCurrent
  <2>3. items' = Seen(r) /\ items' = [items EXCEPT ![x] = job[r].after]
    BY <1>6 DEF Commit, Seen
  <2>4. /\ invoices'[i].total = job[r].totals[i]
        /\ \A k \in Invoices \ {i} : invoices'[k] = invoices[k]
    BY <1>6, <1>t, <2>1 DEF Commit, Header
  <2>5. \A k \in Invoices \ {i} : TotalOf(items', k) = TotalOf(items, k)
    <3>1. ASSUME NEW k \in Invoices \ {i}, NEW changed, changed = [items EXCEPT ![x] = job[r].after]
          PROVE  TotalOf(changed, k) = TotalOf(items, k)
      <4>1. items[x].inv # k /\ changed[x].inv # k
        BY <1>t, <2>1, <3>1
      <4>2. \A z \in Items \ {x} : changed[z] = items[z]
        BY <1>t, <3>1
      <4>3. QED
        BY <4>1, <4>2, OtherItemsDoNotCount
    <3>2. QED
      BY <2>3, <3>1
  <2>6. TotalsFollowItems'
    <3>1. invoices'[i].total = TotalOf(items', i)
      BY <2>2, <2>3, <2>4
    <3>2. \A k \in Invoices \ {i} : invoices'[k].total = TotalOf(items', k)
      BY <1>t, <2>4, <2>5 DEF TotalsFollowItems
    <3> HIDE DEF i
    <3>3. \A k \in Invoices : invoices'[k].total = TotalOf(items', k)
      BY <3>1, <3>2
    <3>4. QED
      BY <3>3 DEF TotalsFollowItems, TotalOf
  <2>7. SumsCurrent'
    <3>1. SUFFICES ASSUME NEW s \in Requests, NEW k, k = job'[s].after.inv
                   PROVE  /\ job'[s].phase = "update" /\ job'[s].plan = <<k>> =>
                               job'[s].sum = TotalOf(Seen(s)', k)
                          /\ job'[s].phase = "select" /\ job'[s].plan = <<>> =>
                               job'[s].totals[k] = TotalOf(Seen(s)', k)
      BY DEF SumsCurrent, TotalOf
    <3>2. CASE s = r
      BY <3>2, <1>6, <1>t DEF Commit, Idle
    <3>3. CASE s # r /\ job[s].phase \in {"update", "select"} /\ job[s].plan \in {<<k>>, <<>>}
      <4>1. job'[s] = job[s]
        BY <3>3, <1>6, <1>t DEF Commit
      <4>2. /\ k = job[s].after.inv /\ InTransaction(s) /\ k \in Invoices
            /\ job[s].item \in Items /\ items[job[s].item].inv \in {None, k}
        <5>1. k = job[s].after.inv /\ InTransaction(s)
          BY <3>1, <3>3, <4>1 DEF InTransaction
        <5>2. JobOK(s)
          BY <1>t DEF JobsOK
        <5>3. QED
          BY <5>1, <5>2 DEF JobOK, Working, InTransaction
      <4>3. job[s].totals[k] # None
        <5>1. <<k>> # <<k, k>> /\ <<>> # <<k, k>>
          OBVIOUS
        <5>2. QED
          BY <3>3, <4>2, <5>1, <1>t DEF JobsOK, JobOK
      <4>4. k # i /\ job[s].item # x
        BY <1>t, <2>1, <3>3, <4>2, <4>3 DEF OneWriter
      <4>5. Seen(s)' = [Seen(s) EXCEPT ![x] = job[r].after]
        <5>1. Seen(s)' = [[items EXCEPT ![x] = job[r].after] EXCEPT ![job[s].item] = job[s].after]
          BY <2>3, <4>1 DEF Seen
        <5>2. QED
          BY <1>t, <2>1, <4>2, <4>4, <5>1 DEF Seen
      <4>6. Seen(s) \in [Items -> Item] /\ Seen(s)[x].inv # k
        <5>1. Seen(s)[x] = items[x]
          BY <1>t, <2>1, <4>4 DEF Seen
        <5>2. items[x].inv # k
          BY <2>1, <4>2, <4>4
        <5>3. QED
          BY <1>t, <5>1, <5>2, SeenIsTyped
      <4>7. ASSUME NEW rows, NEW changed, rows = Seen(s), changed = Seen(s)'
            PROVE  TotalOf(changed, k) = TotalOf(rows, k)
        <5>1. rows[x].inv # k /\ changed[x].inv # k
          BY <2>1, <4>4, <4>5, <4>6, <4>7
        <5>2. \A z \in Items \ {x} : changed[z] = rows[z]
          BY <4>5, <4>6, <4>7
        <5> HIDE DEF x, i
        <5>3. QED
          BY <5>1, <5>2, OtherItemsDoNotCount
      <4>8. /\ job[s].phase = "update" /\ job[s].plan = <<k>> => job[s].sum = TotalOf(Seen(s), k)
            /\ job[s].phase = "select" /\ job[s].plan = <<>> => job[s].totals[k] = TotalOf(Seen(s), k)
        BY <1>t, <4>2 DEF SumsCurrent
      <4>9. QED
        BY <4>1, <4>7, <4>8
    <3>4. CASE s # r /\ ~(job[s].phase \in {"update", "select"} /\ job[s].plan \in {<<k>>, <<>>})
      <4>1. job'[s] = job[s]
        BY <3>4, <1>6, <1>t DEF Commit
      <4>2. QED
        BY <3>4, <4>1
    <3>5. QED
      BY <3>2, <3>3, <3>4
  <2>8. QED
    BY <2>6, <2>7
<1>7. ASSUME (\E r \in Requests, i \in Invoices : Send(r, i)) \/ UNCHANGED vars
      PROVE  SumsCurrent' /\ TotalsFollowItems'
  <2>1. items' = items /\ job' = job /\ \A i \in Invoices : invoices'[i].total = invoices[i].total
    BY <1>7, <1>t DEF Send, vars, Header
  <2>2. QED
    BY <1>t, <2>1 DEF SumsCurrent, TotalsFollowItems, TotalOf, Seen
<1>8. ASSUME NEW r \in Requests, PatchHeader(r) PROVE FALSE
  BY <1>8, <1>t DEF PatchHeader, JobsOK, JobOK
<1>9. QED
  BY <1>2, <1>3, <1>4, <1>5, <1>6, <1>7, <1>8 DEF SafeStep, Step

(* Every variable keeps its type, whatever clients request side by side.   *)
THEOREM TypeCorrect == Spec => []TypeOK
<1>1. Init => TypeOK /\ JobsShaped
  BY InitTogether DEF Together
<1>2. TypeOK /\ JobsShaped /\ [Next]_vars => (TypeOK /\ JobsShaped)'
  BY TypesKept, ShapesKept
<1>3. QED
  BY <1>1, <1>2, PTL DEF Spec
-----------------------------------------------------------------------------
(* A request that runs on its own moves or removes an item, or saves a     *)
(* header.  It has written, or has still to write, the totals of both      *)
(* invoices of its item.                                                   *)
LoneJob(r) ==
  LET a == job[r].after.inv
      b == job[r].before.inv
  IN  /\ \A s \in Requests \ {r} : job[s] = Idle
      /\ OpOf(job[r]) \in Alone
      /\ job[r].phase # "idle"
      /\ job[r].phase = "header" =>
           job[r].inv \in Invoices /\ job[r].header.total = invoices[job[r].inv].total
      /\ Working(r) =>
           /\ job[r].item \in Items /\ items[job[r].item] = job[r].before
           /\ job[r].before # NoItem /\ a # b
      /\ job[r].phase = "fetched" => job[r].totals = Unwritten
      /\ InTransaction(r) =>
           /\ job[r].plan \in {<<a, b>>, <<b>>, <<>>}
           /\ job[r].plan = <<>> => job[r].totals[b] # None
           /\ job[r].plan # <<a, b>> /\ a # None => job[r].totals[a] # None
           /\ \A i \in Invoices : job[r].totals[i] \in {None, TotalOf(Seen(r), i)}
      /\ job[r].phase = "update" => job[r].sum = TotalOf(Seen(r), Head(job[r].plan))

Quiet == \A r \in Requests : job[r] = Idle

(* Between requests there is nothing to be wrong but the totals.           *)
LEMMA QuietIsTogether == TypeOK /\ Quiet /\ TotalsFollowItems => Together
BY InvoiceItemsAssumption
   DEF Together, Quiet, JobsOK, JobOK, OneWriter, SumsCurrent, Idle, Working, InTransaction,
       Unwritten, NoItem

(* A step of many requests either is safe side by side, or starts a        *)
(* request that has the invoices to itself.                                *)
LEMMA StartsAlone ==
  OthersAlone /\ TypeOK /\ [Next]_vars => SafeStep \/ \E r \in Requests : LoneJob(r)'
<1> SUFFICES ASSUME OthersAlone, TypeOK, Next, ~SafeStep
             PROVE  \E r \in Requests : LoneJob(r)'
  BY DEF SafeStep
<1> USE InvoiceItemsAssumption
<1>t. items \in [Items -> Item] /\ invoices \in [Invoices -> Header] /\ job \in [Requests -> Job]
  BY DEF TypeOK
<1>1. ASSUME NEW r \in Requests, NEW x \in Items, NEW i \in Invoices, NEW a \in 0..MaxAmount,
             FetchForUpdate(r, x, i, a), items[x].inv # i
      PROVE  LoneJob(r)'
  <2>1. Quiet /\ "move" \in Alone
    BY <1>1 DEF FetchForUpdate, MayMeet, OthersAlone, SafeOps, Quiet
  <2>2. /\ job'[r].phase = "fetched" /\ job'[r].item = x /\ job'[r].before = items[x]
        /\ job'[r].after = [inv |-> i, amount |-> a] /\ job'[r].totals = Unwritten
        /\ \A s \in Requests \ {r} : job'[s] = Idle
        /\ items' = items
    BY <1>1, <1>t, <2>1 DEF FetchForUpdate, Idle, Quiet
  <2>3. items[x] # NoItem /\ [inv |-> i, amount |-> a] # NoItem
    BY <1>1 DEF FetchForUpdate, NoItem
  <2>4. OpOf(job'[r]) = "move"
    BY <1>1, <2>2, <2>3 DEF OpOf
  <2>5. QED
    BY <1>1, <2>1, <2>2, <2>3, <2>4 DEF LoneJob, Working, InTransaction, OpOf
<1>2. ASSUME NEW r \in Requests, NEW x \in Items, FetchForDestroy(r, x)
      PROVE  LoneJob(r)'
  <2>1. Quiet /\ "destroy" \in Alone
    BY <1>2 DEF FetchForDestroy, MayMeet, OthersAlone, SafeOps, Quiet
  <2>2. /\ job'[r].phase = "fetched" /\ job'[r].item = x /\ job'[r].before = items[x]
        /\ job'[r].after = NoItem /\ job'[r].totals = Unwritten
        /\ \A s \in Requests \ {r} : job'[s] = Idle
        /\ items' = items
    BY <1>2, <1>t, <2>1 DEF FetchForDestroy, Idle, Quiet
  <2>3. items[x] # NoItem /\ items[x].inv # NoItem.inv
    BY <1>2, <1>t DEF FetchForDestroy, NoItem, Item
  <2>4. OpOf(job'[r]) = "destroy"
    BY <2>2, <2>3 DEF OpOf
  <2>5. QED
    BY <2>1, <2>2, <2>3, <2>4 DEF LoneJob, Working, InTransaction, OpOf
<1>3. ASSUME NEW r \in Requests, NEW i \in Invoices, FetchHeader(r, i)
      PROVE  LoneJob(r)'
  <2>1. Quiet /\ "patch" \in Alone
    BY <1>3 DEF FetchHeader, MayMeet, OthersAlone, SafeOps, Quiet
  <2>2. /\ job'[r].phase = "header" /\ job'[r].inv = i /\ job'[r].header = invoices[i]
        /\ \A s \in Requests \ {r} : job'[s] = Idle
        /\ invoices' = invoices
    BY <1>3, <1>t, <2>1 DEF FetchHeader, Idle, Quiet
  <2>3. OpOf(job'[r]) = "patch"
    BY <2>2 DEF OpOf
  <2>4. QED
    BY <2>1, <2>2, <2>3 DEF LoneJob, Working, InTransaction, OpOf
<1>4. QED
  BY <1>1, <1>2, <1>3 DEF Next, Request, SafeStep

(* While a request runs on its own, only it takes steps.                   *)
LEMMA OnlyItSteps ==
  ASSUME TypeOK, NEW r \in Requests, LoneJob(r), Next
  PROVE  Step(r) \/ Rollback(r)
<1> USE InvoiceItemsAssumption
<1>1. ASSUME NEW s \in Requests, NEW op, MayMeet(op) PROVE FALSE
  BY <1>1, SMTT(30) DEF MayMeet, LoneJob
<1>2. \A s \in Requests : ~Request(s)
  BY <1>1, ZenonT(30) DEF Request, FetchForCreate, FetchForUpdate, FetchForDestroy, Send, FetchHeader
<1>3. ASSUME NEW s \in Requests \ {r} PROVE ~(Step(s) \/ Rollback(s))
  <2>1. job[s] = Idle
    BY DEF LoneJob
  <2>2. QED
    BY <2>1 DEF Step, Begin, SelectItems, UpdateInvoice, Commit, PatchHeader, Rollback, Idle
<1>4. QED
  BY <1>2, <1>3 DEF Next

(* It goes on, or it ends with the totals of the items as they now are.    *)
LEMMA LoneKept ==
  ASSUME TypeOK, JobsShaped, TotalsFollowItems, NEW r \in Requests, LoneJob(r), [Next]_vars
  PROVE  TotalsFollowItems' /\ (LoneJob(r)' \/ Quiet')
<1> USE InvoiceItemsAssumption
<1> DEFINE a == job[r].after.inv
           b == job[r].before.inv
<1>t. items \in [Items -> Item] /\ invoices \in [Invoices -> Header] /\ job \in [Requests -> Job]
  BY DEF TypeOK
<1>l. \A s \in Requests \ {r} : job[s] = Idle
  BY DEF LoneJob
<1>w. ASSUME Working(r)
      PROVE  /\ job[r].item \in Items /\ items[job[r].item] = job[r].before
             /\ job[r].before # NoItem /\ a # b /\ b \in Invoices
             /\ job[r].after \in Item /\ a \in Invoices \cup {None}
             /\ job[r].after = NoItem <=> a = None
  <2>1. /\ job[r].item \in Items /\ items[job[r].item] = job[r].before
        /\ job[r].before # NoItem /\ a # b
    BY <1>w DEF LoneJob
  <2>2. job[r].before \in Item /\ job[r].after \in Item
    BY <1>t DEF Job
  <2>3. QED
    BY <2>1, <2>2 DEF Item, NoItem
(* A step that goes on and writes no row. *)
<1>1. ASSUME NEW j, job' = [job EXCEPT ![r] = j], items' = items, invoices' = invoices,
             j.item = job[r].item, j.before = job[r].before, j.after = job[r].after,
             Working(r), j.phase \in {"select", "update"},
             j.plan \in {<<a, b>>, <<b>>, <<>>},
             j.plan = <<>> => j.totals[b] # None,
             j.plan # <<a, b>> /\ a # None => j.totals[a] # None,
             \A i \in Invoices : j.totals[i] \in {None, TotalOf(Seen(r), i)},
             j.phase = "update" => j.sum = TotalOf(Seen(r), Head(j.plan))
      PROVE  TotalsFollowItems' /\ LoneJob(r)'
  <2>1. job'[r] = j /\ \A s \in Requests \ {r} : job'[s] = job[s]
    BY <1>1, <1>t
  <2>2. OpOf(j) = OpOf(job[r])
    BY <1>1 DEF OpOf, Working
  <2>3. Seen(r)' = Seen(r)
    BY <1>1, <2>1 DEF Seen
  <2>4. TotalsFollowItems'
    BY <1>1 DEF TotalsFollowItems, TotalOf
  <2>5. OpOf(job'[r]) \in Alone /\ \A s \in Requests \ {r} : job'[s] = Idle
    BY <2>1, <2>2, <1>l DEF LoneJob
  <2>6. \A rows, i : TotalOf(rows, i)' = TotalOf(rows', i')
    BY DEF TotalOf
  <2>7. LoneJob(r)'
    <3> SUFFICES LET A == j.after.inv
                     B == j.before.inv
                 IN  /\ \A s \in Requests \ {r} : job'[s] = Idle
                     /\ OpOf(j) \in Alone
                     /\ j.phase \in {"select", "update"}
                     /\ j.item \in Items /\ items[j.item] = j.before
                     /\ j.before # NoItem /\ A # B
                     /\ j.plan \in {<<A, B>>, <<B>>, <<>>}
                     /\ j.plan = <<>> => j.totals[B] # None
                     /\ j.plan # <<A, B>> /\ A # None => j.totals[A] # None
                     /\ \A i \in Invoices : j.totals[i] \in {None, TotalOf(Seen(r)', i)}
                     /\ j.phase = "update" => j.sum = TotalOf(Seen(r)', Head(j.plan))
      BY <1>1, <2>1 DEF LoneJob, Working, InTransaction, OpOf, TotalOf
    <3>1. QED
      BY <1>1, <1>w, <2>1, <2>3, <2>5
  <2>8. QED
    BY <2>4, <2>7
<1>2. CASE Begin(r)
  <2>1. /\ job' = [job EXCEPT ![r] = [job[r] EXCEPT !.phase = "select",
                                        !.plan = Plan(job[r].before, job[r].after)]]
        /\ items' = items /\ invoices' = invoices /\ Working(r)
        /\ job[r].totals = Unwritten
    BY <1>2, <1>t DEF Begin, Working, LoneJob
  <2>2. /\ a = None => Plan(job[r].before, job[r].after) = <<b>>
        /\ a # None => Plan(job[r].before, job[r].after) = <<a, b>>
    BY <1>w, <2>1 DEF Plan
  <2>3. \A i \in Invoices : job[r].totals[i] = None
    BY <2>1 DEF Unwritten
  <2> DEFINE j == [job[r] EXCEPT !.phase = "select", !.plan = Plan(job[r].before, job[r].after)]
  <2>4. /\ j.item = job[r].item /\ j.before = job[r].before /\ j.after = job[r].after
        /\ j.phase = "select" /\ j.plan = Plan(job[r].before, job[r].after)
        /\ j.totals = job[r].totals
    BY <1>t DEF Job
  <2>5. <<b>> # <<>> /\ <<a, b>> # <<>>
    OBVIOUS
  <2> HIDE DEF j, a, b
  <2>6. j.plan \in {<<a, b>>, <<b>>} /\ (j.plan # <<a, b>> => a = None) /\ j.plan # <<>>
    BY <2>2, <2>4, <2>5
  <2>7. QED
    BY <1>1, <2>1, <2>3, <2>4, <2>6, ZenonT(30) DEF j
<1>3. CASE SelectItems(r)
  <2> DEFINE n == TotalOf(Seen(r), Head(job[r].plan))
             j == [job[r] EXCEPT !.phase = "update", !.sum = n]
  <2>1. /\ job' = [job EXCEPT ![r] = j]
        /\ items' = items /\ invoices' = invoices /\ Working(r) /\ InTransaction(r)
    BY <1>3, <1>t DEF SelectItems, Working, InTransaction
  <2>2. /\ j.item = job[r].item /\ j.before = job[r].before /\ j.after = job[r].after
        /\ j.phase = "update" /\ j.plan = job[r].plan /\ j.totals = job[r].totals
        /\ j.sum = TotalOf(Seen(r), Head(j.plan))
    BY <1>t DEF Job
  <2>3. /\ j.plan \in {<<a, b>>, <<b>>, <<>>}
        /\ j.plan = <<>> => j.totals[b] # None
        /\ j.plan # <<a, b>> /\ a # None => j.totals[a] # None
        /\ \A i \in Invoices : j.totals[i] \in {None, TotalOf(Seen(r), i)}
    BY <2>1, <2>2 DEF LoneJob
  <2> HIDE DEF j
  <2>4. QED
    BY <1>1, <2>1, <2>2, <2>3
<1>4. CASE UpdateInvoice(r)
  <2> DEFINE h == Head(job[r].plan)
             j == [job[r] EXCEPT !.phase = "select",
                     !.totals = [job[r].totals EXCEPT ![h] = job[r].sum],
                     !.plan = Tail(job[r].plan)]
  <2>1. /\ job' = [job EXCEPT ![r] = j]
        /\ items' = items /\ invoices' = invoices /\ Working(r) /\ InTransaction(r)
        /\ job[r].phase = "update" /\ job[r].plan # <<>>
    BY <1>4, <1>t DEF UpdateInvoice, Working, InTransaction, Job, JobsShaped
  <2>2. /\ j.item = job[r].item /\ j.before = job[r].before /\ j.after = job[r].after
        /\ j.phase = "select" /\ j.plan = Tail(job[r].plan)
        /\ j.totals = [job[r].totals EXCEPT ![h] = job[r].sum]
    BY <1>t DEF Job
  <2>3. /\ job[r].totals \in [Invoices -> Nat \cup {None}] /\ job[r].sum \in Nat
        /\ job[r].plan \in Seq(Invoices) /\ h \in Invoices
    BY <1>t, <2>1 DEF Job
  <2>4. /\ job[r].plan \in {<<a, b>>, <<b>>}
        /\ job[r].plan # <<a, b>> /\ a # None => job[r].totals[a] # None
        /\ \A i \in Invoices : job[r].totals[i] \in {None, TotalOf(Seen(r), i)}
        /\ job[r].sum = TotalOf(Seen(r), h)
    BY <2>1 DEF LoneJob
  <2>5. /\ j.totals[h] = job[r].sum /\ j.totals[h] # None
        /\ \A i \in Invoices \ {h} : j.totals[i] = job[r].totals[i]
    BY <2>2, <2>3
  <2> HIDE DEF j
  <2>6. \A i \in Invoices : j.totals[i] \in {None, TotalOf(Seen(r), i)}
    BY <2>4, <2>5
  <2>7. a # b /\ b \in Invoices /\ a \in Invoices \cup {None}
    BY <1>w, <2>1
  <2>8. CASE job[r].plan = <<a, b>>
    <3>1. h = a /\ j.plan = <<b>> /\ j.plan # <<>>
      BY <2>2, <2>8
    <3>2. j.totals[a] # None
      BY <2>5, <3>1
    <3>3. QED
      BY <1>1, <2>1, <2>2, <2>6, <3>1, <3>2
  <2>9. CASE job[r].plan = <<b>>
    <3>1. h = b /\ j.plan = <<>> /\ <<b>> # <<a, b>>
      BY <2>2, <2>9
    <3>2. j.totals[b] # None
      BY <2>5, <3>1
    <3>3. a # None => j.totals[a] # None
      BY <2>4, <2>5, <2>7, <2>9, <3>1
    <3>4. QED
      BY <1>1, <2>1, <2>2, <2>6, <3>1, <3>2, <3>3
  <2>10. QED
    BY <2>4, <2>8, <2>9
<1>5. CASE Commit(r)
  <2>1. /\ job'[r] = Idle /\ \A s \in Requests \ {r} : job'[s] = job[s]
        /\ Working(r) /\ InTransaction(r) /\ job[r].plan = <<>>
    BY <1>5, <1>t DEF Commit, Working, InTransaction
  <2>2. <<>> # <<a, b>>
    OBVIOUS
  <2>3. /\ job[r].totals[b] # None
        /\ a # None => job[r].totals[a] # None
        /\ \A i \in Invoices : job[r].totals[i] \in {None, TotalOf(Seen(r), i)}
    BY <2>1, <2>2 DEF LoneJob
  <2>4. ASSUME NEW i \in Invoices PROVE invoices'[i].total = TotalOf(Seen(r), i)
    <3>1. CASE job[r].totals[i] # None
      <4>1. invoices'[i].total = job[r].totals[i]
        BY <1>5, <1>t, <3>1 DEF Commit, Header
      <4>2. QED
        BY <2>3, <3>1, <4>1
    <3>2. CASE job[r].totals[i] = None
      <4>1. i # a /\ i # b
        BY <2>3, <3>2
      <4>2. Seen(r)[job[r].item] = job[r].after
            /\ \A z \in Items \ {job[r].item} : Seen(r)[z] = items[z]
        BY <1>t, <1>w, <2>1 DEF Seen
      <4>3. TotalOf(Seen(r), i) = TotalOf(items, i)
        <5> DEFINE changed == Seen(r)
        <5>1. items[job[r].item].inv # i /\ changed[job[r].item].inv # i
          BY <1>w, <2>1, <4>1, <4>2
        <5>2. \A z \in Items \ {job[r].item} : changed[z] = items[z]
          BY <4>2
        <5> HIDE DEF changed
        <5>3. TotalOf(changed, i) = TotalOf(items, i)
          BY <5>1, <5>2, OtherItemsDoNotCount
        <5>4. QED
          BY <5>3 DEF changed
      <4>4. invoices'[i] = invoices[i]
        BY <1>5, <3>2 DEF Commit
      <4>5. QED
        BY <4>3, <4>4 DEF TotalsFollowItems
    <3>3. QED
      BY <3>1, <3>2
  <2>5. items' = Seen(r)
    BY <1>5 DEF Commit
  <2>6. TotalsFollowItems'
    BY <2>4, <2>5 DEF TotalsFollowItems, TotalOf
  <2>7. Quiet'
    BY <1>l, <2>1 DEF Quiet
  <2>8. QED
    BY <2>6, <2>7
<1>6. CASE PatchHeader(r)
  <2>1. /\ job'[r] = Idle /\ \A s \in Requests \ {r} : job'[s] = job[s]
        /\ items' = items /\ job[r].inv \in Invoices
        /\ invoices' = [invoices EXCEPT ![job[r].inv] = job[r].header]
        /\ job[r].header.total = invoices[job[r].inv].total
    BY <1>6, <1>t DEF PatchHeader, LoneJob
  <2>2. \A i \in Invoices : invoices'[i].total = invoices[i].total
    BY <1>t, <2>1
  <2>3. QED
    BY <1>l, <2>1, <2>2 DEF Quiet, TotalsFollowItems, TotalOf
<1>7. CASE Rollback(r)
  <2>1. /\ job'[r] = Idle /\ \A s \in Requests \ {r} : job'[s] = job[s]
        /\ items' = items /\ invoices' = invoices
    BY <1>7, <1>t DEF Rollback
  <2>2. QED
    BY <1>l, <2>1 DEF Quiet, TotalsFollowItems, TotalOf
<1>8. CASE UNCHANGED vars
  <2>1. items' = items /\ invoices' = invoices /\ job' = job
    BY <1>8 DEF vars
  <2>2. QED
    BY <2>1 DEF TotalsFollowItems, TotalOf, LoneJob, Working, InTransaction, Seen, OpOf
<1>9. QED
  BY <1>2, <1>3, <1>4, <1>5, <1>6, <1>7, <1>8, OnlyItSteps DEF Step

(* In every committed state the stored total of every invoice is the sum   *)
(* of its items, when any number of requests create and change items and   *)
(* send invoices, whatever the order of their statements, and a request    *)
(* that moves or removes an item or saves a header meets no other          *)
(* (recalculate_invoice_totals, called with the row locked).               *)
THEOREM TotalsAlwaysFollow == OthersAlone => (Spec => []TotalsFollowItems)
<1> DEFINE Inv == /\ TypeOK /\ JobsShaped /\ TotalsFollowItems
                  /\ Together \/ \E r \in Requests : LoneJob(r)
<1> SUFFICES ASSUME OthersAlone PROVE Spec => []TotalsFollowItems
  OBVIOUS
<1>1. Init => Inv
  BY InitTogether DEF Together
<1>2. Inv /\ [Next]_vars => Inv'
  <2> SUFFICES ASSUME Inv, [Next]_vars PROVE Inv'
    OBVIOUS
  <2>1. TypeOK' /\ JobsShaped'
    BY TypesKept, ShapesKept
  <2>2. CASE Together
    <3>1. CASE SafeStep
      <4>1. JobsOK' /\ OneWriter' /\ SumsCurrent' /\ TotalsFollowItems'
        BY <2>2, <3>1, JobsKept, TotalsKept DEF Together
      <4>2. QED
        BY <2>1, <4>1 DEF Together
    <3>2. CASE ~SafeStep
      <4>1. \E r \in Requests : LoneJob(r)'
        BY <3>2, StartsAlone, SMTT(30)
      <4>2. TotalsFollowItems'
        <5>1. SUFFICES ASSUME Next, ~SafeStep PROVE items' = items /\ invoices' = invoices
          BY <3>2 DEF SafeStep, TotalsFollowItems, TotalOf
        <5>2. QED
          BY <5>1, ZenonT(30) DEF Next, Request, SafeStep, FetchForUpdate, FetchForCreate,
                      FetchForDestroy, FetchHeader
      <4>3. QED
        BY <2>1, <4>1, <4>2
    <3>3. QED
      BY <3>1, <3>2
  <2>3. ASSUME NEW r \in Requests, LoneJob(r) PROVE Inv'
    <3>1. TotalsFollowItems' /\ (LoneJob(r)' \/ Quiet')
      BY <2>3, LoneKept
    <3>2. (TypeOK /\ Quiet /\ TotalsFollowItems => Together)'
      BY QuietIsTogether, PTL
    <3>3. QED
      BY <2>1, <3>1, <3>2
  <2>4. QED
    BY <2>2, <2>3
<1>3. QED
  BY <1>1, <1>2, PTL DEF Spec
-----------------------------------------------------------------------------
(* The status a request read is the invoice's; the item it read, if it is  *)
(* still there, is still on that invoice.                                  *)
ReadHolds(r) ==
  /\ job[r].phase # "idle" =>
       job[r].inv \in Invoices /\ job[r].header.status = invoices[job[r].inv].status
  /\ InTransaction(r) => job[r].header.status = "DRAFT"
  /\ Working(r) =>
       /\ job[r].item \in Items
       /\ job[r].before = NoItem => items[job[r].item] = NoItem
       /\ job[r].before # NoItem =>
            job[r].before.inv = job[r].inv /\ items[job[r].item].inv \in {None, job[r].inv}
ReadsHold == \A r \in Requests : ReadHolds(r)

(* Requests on one item found it on the same invoice; a move is alone.     *)
Moving(r) == Working(r) /\ OpOf(job[r]) = "move"
ItemsShared ==
  \A r, s \in Requests :
    r # s =>
      /\ Working(r) /\ Working(s) /\ job[r].item = job[s].item =>
           job[r].before # NoItem /\ job[s].before # NoItem /\ job[r].inv = job[s].inv
      /\ Moving(r) => job[s] = Idle
MovesAreAlone == \A r \in Requests : Moving(r) => "move" \in Alone

StayInv == TypeOK /\ JobsShaped /\ ReadsHold /\ ItemsShared /\ MovesAreAlone

LEMMA InitStayInv == Init => StayInv
BY InitTogether, InvoiceItemsAssumption
   DEF StayInv, Together, Init, ReadsHold, ReadHolds, ItemsShared, MovesAreAlone, Moving,
       Working, InTransaction, Idle

(* A request reads. *)
LEMMA FetchKeepsReads ==
  ASSUME TypeOK, ReadsHold, ItemsShared, MovesAreAlone, SendAndMoveAlone,
         NEW r \in Requests, Request(r)
  PROVE  ReadsHold' /\ ItemsShared' /\ MovesAreAlone'
<1> USE InvoiceItemsAssumption
<1>t. items \in [Items -> Item] /\ invoices \in [Invoices -> Header] /\ job \in [Requests -> Job]
  BY DEF TypeOK
<1>1. ASSUME NEW op, MayMeet(op), NEW s \in Requests PROVE ~Moving(s)
  BY <1>1 DEF MayMeet, Moving, MovesAreAlone
<1>2. ASSUME NEW j, job' = [job EXCEPT ![r] = j], items' = items, invoices' = invoices,
             j.phase \in {"fetched", "header"}, j.inv \in Invoices,
             j.header = invoices[j.inv],
             j.phase = "fetched" =>
               /\ j.item \in Items /\ j.before = items[j.item]
               /\ j.before # NoItem => j.inv = j.before.inv
               /\ j.before = NoItem => \A s \in Requests : job[s].item # j.item
               /\ OpOf(j) = "move" => "move" \in Alone /\ \A s \in Requests : job[s] = Idle,
             \A s \in Requests : ~Moving(s)
      PROVE  ReadsHold' /\ ItemsShared' /\ MovesAreAlone'
  <2>1. job'[r] = j /\ \A s \in Requests \ {r} : job'[s] = job[s]
    BY <1>2, <1>t
  <2>2. ReadHolds(r)'
    BY <1>2, <2>1 DEF ReadHolds, Working, InTransaction
  <2>3. \A s \in Requests \ {r} : ReadHolds(s)'
    BY <1>2, <2>1 DEF ReadsHold, ReadHolds, Working, InTransaction
  <2>4. ASSUME NEW s \in Requests \ {r}, Working(s), j.phase = "fetched", job[s].item = j.item
        PROVE  job[s].before # NoItem /\ j.before # NoItem /\ job[s].inv = j.inv
    <3>1. j.before # NoItem /\ items[j.item] # NoItem
      BY <1>2, <2>4
    <3>2. /\ job[s].before = NoItem => items[j.item] = NoItem
          /\ job[s].before # NoItem => items[j.item].inv \in {None, job[s].inv}
      BY <2>4 DEF ReadsHold, ReadHolds
    <3>3. items[j.item].inv # None
      BY <1>2, <1>t, <2>4, <3>1 DEF Item
    <3>4. QED
      BY <1>2, <2>4, <3>1, <3>2, <3>3
  <2>5. \A s \in Requests \ {r} : (Working(s)' <=> Working(s)) /\ ~Moving(s)'
    BY <1>2, <2>1 DEF Working, Moving, OpOf
  <2>6. Working(r)' => j.phase = "fetched"
    BY <1>2, <2>1 DEF Working
  <2>7. Moving(r)' => "move" \in Alone /\ \A s \in Requests : job[s] = Idle
    BY <1>2, <2>1, <2>6 DEF Moving, OpOf
  <2>8. ItemsShared'
    BY <2>1, <2>4, <2>5, <2>6, <2>7 DEF ItemsShared
  <2>9. MovesAreAlone'
    BY <2>5, <2>7 DEF MovesAreAlone
  <2>10. QED
    BY <2>2, <2>3, <2>8, <2>9 DEF ReadsHold
<1>3. ASSUME NEW x \in Items, NEW i \in Invoices, NEW a \in 0..MaxAmount,
             FetchForCreate(r, x, i, a)
      PROVE  ReadsHold' /\ ItemsShared' /\ MovesAreAlone'
  <2> DEFINE j == [Idle EXCEPT !.phase = "fetched", !.item = x, !.inv = i, !.header = invoices[i],
                     !.after = [inv |-> i, amount |-> a]]
  <2>1. /\ j.phase = "fetched" /\ j.item = x /\ j.before = NoItem /\ j.after # NoItem
        /\ j.inv = i /\ j.header = invoices[i]
        /\ job' = [job EXCEPT ![r] = j] /\ items' = items /\ invoices' = invoices
    BY <1>3 DEF FetchForCreate, Idle, NoItem
  <2>2. items[x] = NoItem /\ \A s \in Requests : job[s].item # x
    BY <1>3 DEF FetchForCreate
  <2>3. \A s \in Requests : ~Moving(s)
    BY <1>1, <1>3 DEF FetchForCreate
  <2> HIDE DEF j
  <2>4. OpOf(j) = "create"
    BY <2>1 DEF OpOf
  <2>5. QED
    BY <1>2, <2>1, <2>2, <2>3, <2>4
<1>4. ASSUME NEW x \in Items, NEW i \in Invoices, NEW a \in 0..MaxAmount,
             FetchForUpdate(r, x, i, a)
      PROVE  ReadsHold' /\ ItemsShared' /\ MovesAreAlone'
  <2> DEFINE j == [Idle EXCEPT !.phase = "fetched", !.item = x, !.before = items[x],
                     !.inv = items[x].inv, !.header = invoices[items[x].inv],
                     !.after = [inv |-> i, amount |-> a]]
  <2>1. /\ j.phase = "fetched" /\ j.item = x /\ j.before = items[x]
        /\ j.inv = items[x].inv /\ j.header = invoices[items[x].inv]
        /\ j.after = [inv |-> i, amount |-> a]
        /\ job' = [job EXCEPT ![r] = j] /\ items' = items /\ invoices' = invoices
    BY <1>4 DEF FetchForUpdate, Idle
  <2>2. items[x] # NoItem /\ items[x].inv \in Invoices
    BY <1>4, <1>t DEF FetchForUpdate, Item
  <2>3. \A s \in Requests : ~Moving(s)
    BY <1>1, <1>4 DEF FetchForUpdate
  <2> HIDE DEF j
  <2>4. [inv |-> i, amount |-> a] # NoItem /\ [inv |-> i, amount |-> a].inv = i
    BY DEF NoItem
  <2>5. ASSUME OpOf(j) = "move"
        PROVE  "move" \in Alone /\ \A s \in Requests : job[s] = Idle
    <3>1. i # items[x].inv
      BY <2>1, <2>2, <2>4, <2>5 DEF OpOf
    <3>2. QED
      BY <1>4, <3>1 DEF FetchForUpdate, MayMeet, SendAndMoveAlone
  <2>6. QED
    BY <1>2, <2>1, <2>2, <2>3, <2>5
<1>5. ASSUME NEW x \in Items, FetchForDestroy(r, x)
      PROVE  ReadsHold' /\ ItemsShared' /\ MovesAreAlone'
  <2> DEFINE j == [Idle EXCEPT !.phase = "fetched", !.item = x, !.before = items[x],
                     !.inv = items[x].inv, !.header = invoices[items[x].inv]]
  <2>1. /\ j.phase = "fetched" /\ j.item = x /\ j.before = items[x]
        /\ j.inv = items[x].inv /\ j.header = invoices[items[x].inv] /\ j.after = NoItem
        /\ job' = [job EXCEPT ![r] = j] /\ items' = items /\ invoices' = invoices
    BY <1>5 DEF FetchForDestroy, Idle
  <2>2. items[x] # NoItem /\ items[x].inv \in Invoices
    BY <1>5, <1>t DEF FetchForDestroy, Item
  <2>3. \A s \in Requests : ~Moving(s)
    BY <1>1, <1>5 DEF FetchForDestroy
  <2> HIDE DEF j
  <2>4. OpOf(j) = "destroy"
    BY <2>1, <2>2 DEF OpOf
  <2>5. QED
    BY <1>2, <2>1, <2>2, <2>3, <2>4
<1>6. ASSUME NEW i \in Invoices, FetchHeader(r, i)
      PROVE  ReadsHold' /\ ItemsShared' /\ MovesAreAlone'
  <2> DEFINE j == [Idle EXCEPT !.phase = "header", !.inv = i, !.header = invoices[i]]
  <2>1. /\ j.phase = "header" /\ j.inv = i /\ j.header = invoices[i]
        /\ job' = [job EXCEPT ![r] = j] /\ items' = items /\ invoices' = invoices
    BY <1>6 DEF FetchHeader, Idle
  <2>2. \A s \in Requests : ~Moving(s)
    BY <1>1, <1>6 DEF FetchHeader
  <2> HIDE DEF j
  <2>3. QED
    BY <1>2, <2>1, <2>2
<1>7. ASSUME NEW i \in Invoices, Send(r, i)
      PROVE  ReadsHold' /\ ItemsShared' /\ MovesAreAlone'
  <2>1. \A s \in Requests : job[s] = Idle
    BY <1>7 DEF Send, MayMeet, SendAndMoveAlone
  <2>2. job' = job
    BY <1>7 DEF Send
  <2>3. QED
    BY <2>1, <2>2 DEF ReadsHold, ReadHolds, ItemsShared, MovesAreAlone, Moving, Working,
                      InTransaction, Idle
<1>8. QED
  BY <1>3, <1>4, <1>5, <1>6, <1>7 DEF Request

(* A request goes on, or ends. *)
LEMMA StepKeepsReads ==
  ASSUME TypeOK, ReadsHold, ItemsShared, MovesAreAlone, SendAndMoveAlone,
         NEW r \in Requests, Step(r) \/ Rollback(r)
  PROVE  ReadsHold' /\ ItemsShared' /\ MovesAreAlone'
<1> USE InvoiceItemsAssumption
<1>t. items \in [Items -> Item] /\ invoices \in [Invoices -> Header] /\ job \in [Requests -> Job]
  BY DEF TypeOK
<1>1. CASE Begin(r) \/ SelectItems(r) \/ UpdateInvoice(r)
  <2>1. /\ items' = items /\ invoices' = invoices
        /\ \A s \in Requests \ {r} : job'[s] = job[s]
        /\ job'[r].item = job[r].item /\ job'[r].before = job[r].before
        /\ job'[r].after = job[r].after /\ job'[r].inv = job[r].inv
        /\ job'[r].header = job[r].header /\ job'[r].phase \in {"select", "update"}
        /\ Working(r)
    BY <1>1, <1>t DEF Begin, SelectItems, UpdateInvoice, Job, Working
  <2>2. job[r].header.status = "DRAFT"
    BY <1>1 DEF Begin, RequireDraft, SelectItems, UpdateInvoice, ReadsHold, ReadHolds, InTransaction
  <2>3. \A s \in Requests :
          /\ Working(s)' <=> Working(s)
          /\ job'[s].item = job[s].item /\ job'[s].before = job[s].before
          /\ job'[s].after = job[s].after /\ job'[s].inv = job[s].inv
    BY <2>1 DEF Working
  <2>4. \A s \in Requests : Moving(s)' <=> Moving(s)
    <3>1. Working(r)' /\ OpOf(job'[r]) = OpOf(job[r])
      BY <2>1 DEF OpOf, Working
    <3>2. \A s \in Requests \ {r} : OpOf(job[s])' = OpOf(job[s])
      BY <2>1 DEF OpOf
    <3>3. OpOf(job[r])' = OpOf(job'[r])
      BY DEF OpOf
    <3>4. QED
      BY <2>1, <2>3, <3>1, <3>2, <3>3 DEF Moving
  <2>5. ReadHolds(r)'
    BY <2>1, <2>2 DEF ReadsHold, ReadHolds, Working, InTransaction
  <2>6. \A s \in Requests \ {r} : ReadHolds(s)'
    BY <2>1 DEF ReadsHold, ReadHolds, Working, InTransaction
  <2>7. \A s \in Requests \ {r} : ~Moving(s)
    BY <2>1 DEF ItemsShared, Working, Idle
  <2>8. ItemsShared'
    BY <2>1, <2>3, <2>4, <2>7 DEF ItemsShared
  <2>9. QED
    BY <2>4, <2>5, <2>6, <2>8 DEF ReadsHold, MovesAreAlone
<1>2. CASE Commit(r) \/ PatchHeader(r) \/ Rollback(r)
  <2>1. job'[r] = Idle /\ \A s \in Requests \ {r} : job'[s] = job[s]
    BY <1>2, <1>t DEF Commit, PatchHeader, Rollback
  <2>2. \A i \in Invoices : invoices'[i].status = invoices[i].status
    <3>1. CASE Commit(r)
      BY <1>t, <3>1 DEF Commit, Header
    <3>2. CASE PatchHeader(r)
      <4>1. job[r].header.status = invoices[job[r].inv].status
        BY <3>2 DEF PatchHeader, ReadsHold, ReadHolds
      <4>2. QED
        BY <1>t, <3>2, <4>1 DEF PatchHeader
    <3>3. CASE Rollback(r)
      BY <3>3 DEF Rollback
    <3>4. QED
      BY <1>2, <3>1, <3>2, <3>3
  <2>3. ASSUME NEW s \in Requests \ {r}, Working(s)
        PROVE  /\ job[s].before = NoItem => items'[job[s].item] = NoItem
               /\ job[s].before # NoItem => items'[job[s].item].inv \in {None, job[s].inv}
    <3>1. /\ job[s].item \in Items
          /\ job[s].before = NoItem => items[job[s].item] = NoItem
          /\ job[s].before # NoItem => items[job[s].item].inv \in {None, job[s].inv}
      BY <2>3 DEF ReadsHold, ReadHolds
    <3>2. CASE items'[job[s].item] = items[job[s].item]
      BY <3>1, <3>2
    <3>3. CASE items'[job[s].item] # items[job[s].item]
      <4>1. Commit(r)
        BY <1>2, <3>3 DEF PatchHeader, Rollback
      <4>2. items' = [items EXCEPT ![job[r].item] = job[r].after] /\ Working(r)
        BY <4>1 DEF Commit, Seen, Working
      <4>3. job[r].item = job[s].item /\ items'[job[s].item] = job[r].after
        BY <1>t, <3>1, <3>3, <4>2
      <4>4. job[r].before # NoItem /\ job[s].before # NoItem /\ job[r].inv = job[s].inv
        BY <2>3, <4>2, <4>3 DEF ItemsShared
      <4>5. job[r].before.inv = job[r].inv
        BY <4>2, <4>4 DEF ReadsHold, ReadHolds
      <4>6. ~Moving(r)
        BY <2>3 DEF ItemsShared, Working, Idle
      <4>7. job[r].after = NoItem \/ job[r].after.inv = job[r].before.inv
        BY <4>2, <4>4, <4>6 DEF Moving, OpOf, Working
      <4>8. QED
        BY <4>3, <4>4, <4>5, <4>7 DEF NoItem
    <3>4. QED
      BY <3>2, <3>3
  <2>4. ReadHolds(r)'
    BY <2>1 DEF ReadHolds, Idle, Working, InTransaction
  <2>5. \A s \in Requests \ {r} : ReadHolds(s)'
    BY <2>1, <2>2, <2>3 DEF ReadsHold, ReadHolds, Working, InTransaction
  <2>6. ItemsShared' /\ MovesAreAlone'
    <3>1. ~Working(r)' /\ ~Moving(r)'
      BY <2>1 DEF Working, Moving, Idle
    <3>2. \A s \in Requests \ {r} : (Working(s)' <=> Working(s)) /\ (Moving(s)' <=> Moving(s))
      BY <2>1 DEF Working, Moving, OpOf
    <3>3. QED
      BY <2>1, <3>1, <3>2 DEF ItemsShared, MovesAreAlone
  <2>7. QED
    BY <2>4, <2>5, <2>6 DEF ReadsHold
<1>3. QED
  BY <1>1, <1>2 DEF Step

(* An item of a sent invoice is neither changed, nor removed, nor moved:   *)
(* by the time a request's transaction commits, the status its check read  *)
(* is still the invoice's, though the check was made before the            *)
(* transaction, and the item is still on the invoice the check was about.  *)
THEOREM SentItemsAlwaysStay == SendAndMoveAlone => (Spec => SentItemsStay)
<1> SUFFICES ASSUME SendAndMoveAlone PROVE Spec => SentItemsStay
  OBVIOUS
<1> USE InvoiceItemsAssumption
<1>1. StayInv /\ [Next]_vars => StayInv'
  <2> SUFFICES ASSUME StayInv, [Next]_vars PROVE StayInv'
    OBVIOUS
  <2>1. TypeOK' /\ JobsShaped'
    BY TypesKept, ShapesKept DEF StayInv
  <2>2. CASE UNCHANGED vars
    BY <2>1, <2>2 DEF StayInv, vars, ReadsHold, ReadHolds, ItemsShared, MovesAreAlone, Moving,
                      Working, InTransaction, OpOf
  <2>3. CASE Next
    BY <2>1, <2>3, FetchKeepsReads, StepKeepsReads DEF Next, StayInv
  <2>4. QED
    BY <2>2, <2>3
<1>2. StayInv /\ [Next]_vars =>
        [\A x \in Items :
           items[x] # NoItem /\ invoices[items[x].inv].status = "SENT" => items'[x] = items[x]]_vars
  <2> SUFFICES ASSUME StayInv, Next, NEW x \in Items, items[x] # NoItem,
                      invoices[items[x].inv].status = "SENT", items'[x] # items[x]
               PROVE  FALSE
    OBVIOUS
  <2>t. items \in [Items -> Item]
    BY SMTT(30) DEF StayInv, TypeOK
  <2>1. PICK r \in Requests : Commit(r)
    <3>1. PICK s \in Requests : Request(s) \/ Step(s) \/ Rollback(s)
      BY DEF Next
    <3>2. Request(s) => items' = items
      BY DEF Request, FetchForCreate, FetchForUpdate, FetchForDestroy, Send, FetchHeader
    <3>3. Begin(s) \/ SelectItems(s) \/ UpdateInvoice(s) \/ PatchHeader(s) => items' = items
      BY DEF Begin, SelectItems, UpdateInvoice, PatchHeader
    <3>4. Rollback(s) => items' = items
      BY DEF Rollback
    <3>5. QED
      BY <3>1, <3>2, <3>3, <3>4 DEF Step
  <2>2. items' = [items EXCEPT ![job[r].item] = job[r].after] /\ Working(r) /\ InTransaction(r)
    BY <2>1 DEF Commit, Seen, Working, InTransaction
  <2>3. x = job[r].item
    BY <2>t, <2>2
  <2>4. items[x].inv \in Invoices
    BY <2>t DEF Item
  <2>5. /\ job[r].header.status = "DRAFT"
        /\ job[r].header.status = invoices[job[r].inv].status
        /\ items[x].inv = job[r].inv
    BY <2>2, <2>3, <2>4 DEF StayInv, ReadsHold, ReadHolds, InTransaction
  <2>6. QED
    BY <2>5
<1>3. QED
  BY <1>1, <1>2, InitStayInv, PTL DEF Spec, SentItemsStay
-----------------------------------------------------------------------------
(* Pricing. *)

(* Lines have the amounts their kind of document allows, derived where     *)
(* there is a quantity.                                                    *)
LineDerived(l) ==
  /\ l.tax \in Int /\ l.total \in Int
  /\ l.quantity = Null => kind \in {"SUPPLIER", "CONTRACTOR"}
  /\ kind \in {"SUPPLIER", "CONTRACTOR"} => l.discount = 0
  /\ l.quantity # Null =>
       /\ l.quantity \in Int /\ l.price \in Int
       /\ l.total = Gross(l) - l.discount + l.tax
       /\ Gross(l) - l.discount >= 0 => l.tax >= 0
PricingInv ==
  /\ PricingTypeOK
  /\ \A n \in Present : LineDerived(line[n])
  /\ header = Totals(line)
  /\ status = "DRAFT" => entry = {}
  /\ entry # {} => Booked /\ entry = Postings

(* Rounding to a thousandth of the unit errs by half a cent at most; what  *)
(* is not negative stays so.                                               *)
LEMMA RoundingIsClose ==
  ASSUME NEW n \in Int
  PROVE  /\ HalfUp(n, 1000) \in Int
         /\ -1000 <= 2 * (1000 * HalfUp(n, 1000) - n)
         /\ 2 * (1000 * HalfUp(n, 1000) - n) <= 1000
  BY DEF HalfUp

LEMMA PercentsAreRounded ==
  ASSUME NEW n \in Int
  PROVE  HalfUp(n, 100) \in Int /\ (n >= 0 => HalfUp(n, 100) >= 0)
  BY DEF HalfUp

(* Where a tax rate exists, it is a natural number. *)
LEMMA TaxesAreWhole ==
  ASSUME PricingTypeOK, NEW net \in Int, NEW t \in CurrentTaxes
  PROVE  TaxOn(net, t) \in Int /\ (net >= 0 => TaxOn(net, t) >= 0)
<1>1. CASE t = Null
  BY <1>1 DEF TaxOn
<1>2. CASE t # Null
  <2>1. t \in Taxes /\ rate[t] \in Nat
    BY <1>2, PricingAssumption DEF PricingTypeOK, CurrentTaxes
  <2> DEFINE x == rate[t]
             m == net * x
  <2>2. x \in Nat /\ TaxOn(net, t) = HalfUp(m, 100)
    BY <1>2, <2>1 DEF TaxOn
  <2> HIDE DEF x
  <2>3. m \in Int
    BY <2>2
  <2>4. net >= 0 => m >= 0
    BY <2>2
  <2> HIDE DEF m
  <2>5. HalfUp(m, 100) \in Int /\ (m >= 0 => HalfUp(m, 100) >= 0)
    BY <2>3, PercentsAreRounded
  <2>6. QED
    BY <2>2, <2>4, <2>5
<1>3. QED
  BY <1>1, <1>2

(* What may be saved in a line. *)
Savable(l) ==
  /\ l \in LineRecord /\ l # NoLine
  /\ l.quantity = Null => l.tax \in Int /\ l.total \in Int /\ kind \in {"SUPPLIER", "CONTRACTOR"}
  /\ kind \in {"SUPPLIER", "CONTRACTOR"} => l.discount = 0
  /\ l.quantity # Null => l.quantity \in Int /\ l.price \in Int

LEMMA InputsAreSavable ==
  ASSUME PricingTypeOK, NEW l \in Inputs
  PROVE  Savable(l)
<1>1. CASE l.quantity = Null
  <2>1. PICK a \in Charges, x \in Charges, t \in CurrentTaxes :
          l = FlatCharge(a, x, t) /\ kind \in {"SUPPLIER", "CONTRACTOR"}
    BY <1>1, PricingAssumption
       DEF Inputs, ClientInputs, OrderInputs, SupplierInputs, Measured, PricingTypeOK, Kinds
  <2>2. a \in Int /\ x \in Int /\ a # Null
    BY PricingAssumption
  <2>3. QED
    BY <2>1, <2>2 DEF Savable, LineRecord, NoLine, FlatCharge
<1>2. CASE l.quantity # Null
  <2>1. PICK q \in Quantities, p \in Prices, d \in Discounts \cup {0}, t \in CurrentTaxes :
          l = Measured(q, p, d, t) /\ (kind \in {"SUPPLIER", "CONTRACTOR"} => d = 0)
    <3>1. CASE kind = "CLIENT"
      BY <3>1 DEF Inputs, ClientInputs
    <3>2. CASE kind = "ORDER"
      BY <3>2 DEF Inputs, OrderInputs
    <3>3. CASE kind \notin {"CLIENT", "ORDER"}
      <4>1. \A b, x, t : FlatCharge(b, x, t).quantity = Null
        BY DEF FlatCharge
      <4>2. \E q \in Quantities, p \in Prices, t \in CurrentTaxes : l = Measured(q, p, 0, t)
        BY <1>2, <3>3, <4>1 DEF Inputs, SupplierInputs
      <4>3. QED
        BY <4>2
    <3>4. QED
      BY <3>1, <3>2, <3>3
  <2>2. q \in Int /\ p \in Int /\ d \in Int /\ q # Null
    BY PricingAssumption
  <2>3. QED
    BY <2>1, <2>2 DEF Savable, LineRecord, NoLine, FlatCharge, Measured
<1>3. QED
  BY <1>1, <1>2

LEMMA LinesAreSavable ==
  ASSUME PricingTypeOK, NEW n \in Present, LineDerived(line[n])
  PROVE  Savable(line[n])
  BY DEF PricingTypeOK, LineDerived, Savable, Present

LEMMA FlatLinesAreSavable ==
  ASSUME PricingTypeOK, NEW n \in Present, LineDerived(line[n]),
         kind \in {"SUPPLIER", "CONTRACTOR"}
  PROVE  Savable(MadeFlat(line[n]))
<1>1. line[n] \in LineRecord /\ line[n].total # Null
  BY PricingAssumption DEF PricingTypeOK, LineDerived, Present
<1>2. QED
  BY <1>1 DEF LineDerived, Savable, MadeFlat, FlatCharge, NoLine, LineRecord

(* Saving derives the amounts. *)
LEMMA SavingDerives ==
  ASSUME PricingTypeOK, NEW l, Savable(l)
  PROVE  /\ ItemAmounts(l) \in LineRecord /\ ItemAmounts(l) # NoLine
         /\ LineDerived(ItemAmounts(l))
<1>1. CASE l.quantity = Null
  BY <1>1 DEF ItemAmounts, Savable, LineDerived
<1>2. CASE l.quantity # Null
  <2> DEFINE g == Gross(l)
             net == g - l.discount
             x == TaxOn(net, l.taxed)
             saved == [l EXCEPT !.tax = x, !.total = net + x]
  <2>1. l \in LineRecord /\ l.quantity \in Int /\ l.price \in Int /\ l.discount \in Int
        /\ l.taxed \in CurrentTaxes
    BY <1>2 DEF Savable, LineRecord
  <2>2. g \in Int
    <3>1. l.quantity * l.price \in Int
      BY <2>1
    <3>2. QED
      BY <3>1, RoundingIsClose DEF Gross
  <2>3. net \in Int
    BY <2>1, <2>2
  <2>4. ItemAmounts(l) = saved
    BY <1>2 DEF ItemAmounts
  <2>5. Gross(saved) = g
    BY <2>1 DEF Gross, LineRecord
  <2> HIDE DEF g
  <2>6. x \in Int /\ (net >= 0 => x >= 0)
    <3> HIDE DEF net
    <3>1. QED
      BY <2>1, <2>3, TaxesAreWhole
  <2> HIDE DEF net, x
  <2>7. /\ saved \in LineRecord /\ saved # NoLine
        /\ saved.quantity = l.quantity /\ saved.price = l.price /\ saved.discount = l.discount
        /\ saved.tax = x /\ saved.total = net + x
    <3>1. net + x \in Int
      BY <2>3, <2>6
    <3>2. saved \in LineRecord /\ saved.quantity = l.quantity /\ saved.price = l.price
          /\ saved.discount = l.discount /\ saved.tax = x /\ saved.total = net + x
      BY <2>1, <2>6, <3>1 DEF LineRecord
    <3> HIDE DEF saved
    <3>3. saved # NoLine
      BY <1>2, <3>2 DEF NoLine, FlatCharge
    <3>4. QED
      BY <3>2, <3>3
  <2> HIDE DEF saved
  <2>8. LineDerived(saved)
    <3>1. saved.total = Gross(saved) - saved.discount + saved.tax
          /\ (Gross(saved) - saved.discount >= 0 => saved.tax >= 0)
      BY <2>1, <2>2, <2>3, <2>5, <2>6, <2>7 DEF net
    <3>2. QED
      BY <1>2, <2>1, <2>3, <2>6, <2>7, <3>1 DEF LineDerived, Savable
  <2>9. QED
    BY <2>4, <2>7, <2>8
<1>3. QED
  BY <1>1, <1>2

(* The sums of lines are whole. *)
LEMMA TotalsAreWhole ==
  ASSUME NEW lines, DOMAIN lines = Lines, kind \in Kinds,
         \A n \in There(lines) : lines[n] \in LineRecord /\ LineDerived(lines[n])
  PROVE  /\ Totals(lines) \in [subtotal : Int, discount : Int, tax : Int, total : Int]
         /\ SumWithoutTax(lines) \in Int
         /\ SumOfTotals(lines) = SumWithoutTax(lines) + SumOfTaxes(lines)
<1> DEFINE T == There(lines)
           total == [n \in T |-> lines[n].total]
           tax == [n \in T |-> lines[n].tax]
           discount == [n \in T |-> lines[n].discount]
           without == [n \in T |-> lines[n].total - lines[n].tax]
           product == [n \in T |-> lines[n].quantity * lines[n].price]
<1>1. IsFiniteSet(T)
  BY PricingAssumption, FS_Subset DEF There
<1>2. total \in [T -> Int] /\ tax \in [T -> Int] /\ discount \in [T -> Int] /\ without \in [T -> Int]
  BY DEF LineDerived, LineRecord
<1>3. kind \notin {"SUPPLIER", "CONTRACTOR"} => product \in [T -> Int]
  BY DEF LineDerived
<1>4. \A n \in T : total[n] = without[n] + tax[n]
  BY <1>2
<1>5. /\ SumOfTotals(lines) = SumFunction(total) /\ SumOfTaxes(lines) = SumFunction(tax)
      /\ SumOfDiscounts(lines) = SumFunction(discount)
      /\ SumWithoutTax(lines) = SumFunction(without)
      /\ SumOfProducts(lines) = SumFunction(product)
  BY DEF SumOfTotals, SumOfTaxes, SumOfDiscounts, SumWithoutTax, SumOfProducts
<1> HIDE DEF T, total, tax, discount, without, product
<1>6. /\ SumOfTotals(lines) \in Int /\ SumOfTaxes(lines) \in Int /\ SumOfDiscounts(lines) \in Int
      /\ SumWithoutTax(lines) \in Int
  BY <1>1, <1>2, <1>5, SumFunctionIsInteger
<1>7. SumOfTotals(lines) = SumWithoutTax(lines) + SumOfTaxes(lines)
  BY <1>1, <1>2, <1>4, <1>5, SumFunctionAdds
<1>8. Subtotal(lines) \in Int
  <2>1. CASE kind \in {"SUPPLIER", "CONTRACTOR"}
    BY <1>6, <2>1 DEF Subtotal, SupplierSubtotal
  <2>2. CASE kind \notin {"SUPPLIER", "CONTRACTOR"}
    <3>1. SumOfProducts(lines) \in Int
      BY <1>1, <1>3, <1>5, <2>2, SumFunctionIsInteger
    <3>2. QED
      BY <2>2, <3>1, RoundingIsClose DEF Subtotal, ClientSubtotal
  <2>3. QED
    BY <2>1, <2>2
<1>9. QED
  BY <1>6, <1>7, <1>8 DEF Totals

(* Only the amounts of lines matter to the sums. *)
LEMMA TotalsStay ==
  ASSUME NEW a, NEW b, There(a) = There(b),
         \A n \in There(a) :
           /\ b[n].total = a[n].total /\ b[n].tax = a[n].tax /\ b[n].discount = a[n].discount
           /\ b[n].quantity = a[n].quantity /\ b[n].price = a[n].price
  PROVE  Totals(b) = Totals(a)
<1> DEFINE T == There(a)
<1>1. /\ [n \in T |-> b[n].total] = [n \in T |-> a[n].total]
      /\ [n \in T |-> b[n].tax] = [n \in T |-> a[n].tax]
      /\ [n \in T |-> b[n].discount] = [n \in T |-> a[n].discount]
      /\ [n \in T |-> b[n].total - b[n].tax] = [n \in T |-> a[n].total - a[n].tax]
      /\ [n \in T |-> b[n].quantity * b[n].price] = [n \in T |-> a[n].quantity * a[n].price]
  OBVIOUS
<1>2. There(b) = T
  OBVIOUS
<1> HIDE DEF T
<1>3. /\ SumOfTotals(b) = SumOfTotals(a) /\ SumOfTaxes(b) = SumOfTaxes(a)
      /\ SumOfDiscounts(b) = SumOfDiscounts(a) /\ SumWithoutTax(b) = SumWithoutTax(a)
      /\ SumOfProducts(b) = SumOfProducts(a)
  BY <1>1, <1>2 DEF SumOfTotals, SumOfTaxes, SumOfDiscounts, SumWithoutTax, SumOfProducts, T
<1>4. QED
  BY <1>3 DEF Totals, Subtotal, SupplierSubtotal, ClientSubtotal

LEMMA PricingInitially == PricingInit => PricingInv
<1> SUFFICES ASSUME PricingInit PROVE PricingInv
  OBVIOUS
<1>1. There(line) = {} /\ Present = {} /\ DOMAIN line = Lines
  BY DEF PricingInit, There, Present
<1>2. /\ NoLine \in LineRecord /\ kind \in Kinds /\ rate \in [Taxes -> Rates \cup {Null}]
      /\ line \in [Lines -> LineRecord]
  BY DEF PricingInit, NoLine, FlatCharge, LineRecord, CurrentTaxes
<1>3. /\ SumOfTotals(line) = 0 /\ SumOfTaxes(line) = 0 /\ SumOfDiscounts(line) = 0
      /\ SumWithoutTax(line) = 0 /\ SumOfProducts(line) = 0
  <2>1. \A f : f \in [{} -> Int] => SumFunction(f) = 0
    BY SumFunctionOfZeros, FS_EmptySet
  <2>2. QED
    BY <1>1, <2>1 DEF SumOfTotals, SumOfTaxes, SumOfDiscounts, SumWithoutTax, SumOfProducts
<1>4. HalfUp(0, 1000) = 0
  BY DEF HalfUp
<1>5. Totals(line) = header
  BY <1>3, <1>4 DEF Totals, Subtotal, SupplierSubtotal, ClientSubtotal, PricingInit
<1>6. QED
  BY <1>1, <1>2, <1>5 DEF PricingInit, PricingInv, PricingTypeOK

(* A line saved or dropped, and the header summed anew. *)
LEMMA RecalculatingIsSound ==
  ASSUME PricingInv, NEW n \in Lines, NEW l, Recalculate([line EXCEPT ![n] = l]),
         l = NoLine \/ (l \in LineRecord /\ LineDerived(l)),
         status = "DRAFT", UNCHANGED <<kind, rate, status, entry>>
  PROVE  PricingInv'
<1> DEFINE lines == [line EXCEPT ![n] = l]
<1>1. line' = lines /\ header' = Totals(lines)
  BY DEF Recalculate
<1>2. NoLine \in LineRecord
  BY DEF NoLine, FlatCharge, LineRecord, CurrentTaxes
<1>3. lines \in [Lines -> LineRecord] /\ DOMAIN lines = Lines
  BY <1>2 DEF PricingInv, PricingTypeOK
<1>4. \A m \in There(lines) : lines[m] \in LineRecord /\ LineDerived(lines[m])
  <2>1. SUFFICES ASSUME NEW m \in There(lines) PROVE LineDerived(lines[m])
    BY <1>3 DEF There
  <2>2. CASE m = n
    BY <2>2, <1>3 DEF PricingInv, PricingTypeOK, There
  <2>3. CASE m # n
    BY <2>3, <1>3 DEF PricingInv, PricingTypeOK, There, Present
  <2>4. QED
    BY <2>2, <2>3
<1> HIDE DEF lines
<1>5. Totals(lines) \in [subtotal : Int, discount : Int, tax : Int, total : Int]
  BY <1>3, <1>4, TotalsAreWhole DEF PricingInv, PricingTypeOK
<1>6. header' = Totals(line)'
  BY <1>1 DEF Totals, Subtotal, SupplierSubtotal, ClientSubtotal, SumOfTotals, SumOfTaxes,
              SumOfDiscounts, SumWithoutTax, SumOfProducts, There, NoLine, FlatCharge
<1>7. (\A m \in Present : LineDerived(line[m]))'
  <2>1. \A m \in Lines : lines[m] # NoLine => LineDerived(lines[m])
    BY <1>3, <1>4 DEF There
  <2>2. QED
    BY <1>1, <2>1 DEF Present, LineDerived, Gross, HalfUp, NoLine, FlatCharge
<1>8. LineRecord' = LineRecord /\ status' = "DRAFT" /\ entry' = {}
  BY DEF LineRecord, CurrentTaxes, PricingInv
<1>9. PricingTypeOK'
  BY <1>1, <1>3, <1>5, <1>8 DEF PricingTypeOK, PricingInv
<1>10. QED
  BY <1>6, <1>7, <1>8, <1>9 DEF PricingInv

LEMMA LinesAreEdited ==
  ASSUME PricingInv, NEW n \in Lines, AddLine(n) \/ ChangeLine(n) \/ DropLine(n)
  PROVE  PricingInv'
<1>1. CASE AddLine(n)
  <2>1. PICK l \in Inputs : Recalculate([line EXCEPT ![n] = ItemAmounts(l)])
    BY <1>1 DEF AddLine
  <2>2. Savable(l)
    BY InputsAreSavable DEF PricingInv
  <2>3. ItemAmounts(l) \in LineRecord /\ LineDerived(ItemAmounts(l))
    BY <2>2, SavingDerives DEF PricingInv
  <2>4. QED
    BY <1>1, <2>1, <2>3, RecalculatingIsSound DEF AddLine
<1>2. CASE ChangeLine(n)
  <2>1. PICK l \in Inputs \cup {line[n]} \cup
              (IF kind \in {"SUPPLIER", "CONTRACTOR"} THEN {MadeFlat(line[n])} ELSE {}) :
          Recalculate([line EXCEPT ![n] = ItemAmounts(l)])
    BY <1>2 DEF ChangeLine
  <2>2. n \in Present /\ LineDerived(line[n]) /\ PricingTypeOK
    BY <1>2 DEF ChangeLine, Present, PricingInv
  <2>3. Savable(l)
    <3>1. CASE l \in Inputs
      BY <2>2, <3>1, InputsAreSavable
    <3>2. CASE l = line[n]
      BY <2>2, <3>2, LinesAreSavable
    <3>3. CASE l = MadeFlat(line[n]) /\ kind \in {"SUPPLIER", "CONTRACTOR"}
      BY <2>2, <3>3, FlatLinesAreSavable
    <3>4. QED
      BY <2>1, <3>1, <3>2, <3>3
  <2>4. ItemAmounts(l) \in LineRecord /\ LineDerived(ItemAmounts(l))
    BY <2>2, <2>3, SavingDerives
  <2>5. QED
    BY <1>2, <2>1, <2>4, RecalculatingIsSound DEF ChangeLine
<1>3. CASE DropLine(n)
  BY <1>3, RecalculatingIsSound DEF DropLine
<1>4. QED
  BY <1>1, <1>2, <1>3

(* Rates come and go; what was derived from them stays. *)
LEMMA RatesChange ==
  ASSUME PricingInv, NEW t \in Taxes, ChangeRate(t)
  PROVE  PricingInv'
<1>1. PICK x \in Rates : rate' = [rate EXCEPT ![t] = x]
  BY DEF ChangeRate
<1>2. x # Null /\ rate[t] # Null
  BY PricingAssumption DEF ChangeRate
<1>3. rate' \in [Taxes -> Rates \cup {Null}] /\ CurrentTaxes' = CurrentTaxes
  BY <1>1, <1>2 DEF PricingInv, PricingTypeOK, CurrentTaxes
<1>4. UNCHANGED <<kind, line, header, status, entry>>
  BY DEF ChangeRate
<1>5. LineRecord' = LineRecord
  BY <1>3 DEF LineRecord
<1>6. Totals(line)' = Totals(line)
  BY <1>4 DEF Totals, Subtotal, SupplierSubtotal, ClientSubtotal, SumOfTotals, SumOfTaxes,
              SumOfDiscounts, SumWithoutTax, SumOfProducts, There
<1>7. (Booked /\ entry = Postings)' <=> (Booked /\ entry = Postings)
  BY <1>4 DEF Booked, Postings, ClientPostings, CostPostings
<1>8. (\A m \in Present : LineDerived(line[m]))'
  BY <1>4 DEF PricingInv, Present, LineDerived, Gross, HalfUp
<1>9. PricingTypeOK'
  BY <1>3, <1>4, <1>5 DEF PricingTypeOK, PricingInv
<1>10. QED
  BY <1>4, <1>6, <1>7, <1>8, <1>9 DEF PricingInv

LEMMA RatesGo ==
  ASSUME PricingInv, NEW t \in Taxes, DeleteRate(t)
  PROVE  PricingInv'
<1>1. /\ rate' = [rate EXCEPT ![t] = Null]
      /\ line' = [n \in Lines |-> IF line[n].taxed = t THEN [line[n] EXCEPT !.taxed = Null]
                                  ELSE line[n]]
      /\ UNCHANGED <<kind, header, status, entry>>
  BY DEF DeleteRate
<1>2. t # Null /\ line \in [Lines -> LineRecord] /\ NoLine.taxed = Null
  BY PricingAssumption DEF PricingInv, PricingTypeOK, NoLine, FlatCharge
<1>3. rate' \in [Taxes -> Rates \cup {Null}] /\ CurrentTaxes' = CurrentTaxes \ {t}
  BY <1>1, <1>2 DEF PricingInv, PricingTypeOK, CurrentTaxes
<1>4. \A n \in Lines :
        /\ line'[n].quantity = line[n].quantity /\ line'[n].price = line[n].price
        /\ line'[n].discount = line[n].discount /\ line'[n].tax = line[n].tax
        /\ line'[n].total = line[n].total /\ line'[n] \in LineRecord'
        /\ line'[n] = NoLine <=> line[n] = NoLine
  <2>1. SUFFICES ASSUME NEW n \in Lines
                 PROVE  /\ line'[n].quantity = line[n].quantity /\ line'[n].price = line[n].price
                        /\ line'[n].discount = line[n].discount /\ line'[n].tax = line[n].tax
                        /\ line'[n].total = line[n].total /\ line'[n] \in LineRecord'
                        /\ line'[n] = NoLine <=> line[n] = NoLine
    OBVIOUS
  <2>2. line[n] \in LineRecord
    BY <1>2
  <2>3. CASE line[n].taxed = t
    <3>1. line'[n] = [line[n] EXCEPT !.taxed = Null] /\ line[n] # NoLine
      BY <1>1, <1>2, <2>3
    <3>2. line'[n] # NoLine
      <4>1. line[n].total \in Int
        BY <3>1 DEF PricingInv, Present, LineDerived
      <4>2. line'[n].total # Null
        BY <2>2, <3>1, <4>1, PricingAssumption DEF LineRecord
      <4>3. QED
        BY <4>2 DEF NoLine, FlatCharge
    <3>3. QED
      BY <1>2, <1>3, <2>2, <3>1, <3>2 DEF LineRecord, CurrentTaxes
  <2>4. CASE line[n].taxed # t
    BY <1>1, <1>3, <2>2, <2>4 DEF LineRecord
  <2>5. QED
    BY <2>3, <2>4
<1>5. NoLine' = NoLine /\ Present' = Present /\ There(line') = There(line)
  <2>1. DOMAIN line' = Lines /\ DOMAIN line = Lines
    BY <1>1, <1>2
  <2>2. QED
    BY <2>1, <1>4 DEF NoLine, FlatCharge, Present, There
<1>6. Totals(line') = Totals(line)
  <2>1. \A n \in There(line) : n \in Lines
    BY <1>2 DEF There
  <2>2. QED
    BY <1>4, <1>5, <2>1, TotalsStay
<1>7. Totals(line)' = Totals(line')
  BY <1>1 DEF Totals, Subtotal, SupplierSubtotal, ClientSubtotal, SumOfTotals, SumOfTaxes,
              SumOfDiscounts, SumWithoutTax, SumOfProducts, There, NoLine, FlatCharge
<1>8. (Booked /\ entry = Postings)' <=> (Booked /\ entry = Postings)
  BY <1>1 DEF Booked, Postings, ClientPostings, CostPostings
<1>9. (\A m \in Present : LineDerived(line[m]))'
  <2>1. \A m \in Present : m \in Lines /\ LineDerived(line[m])
    BY DEF PricingInv, Present
  <2>2. QED
    BY <1>1, <1>4, <1>5, <2>1 DEF LineDerived, Gross, HalfUp
<1>10. PricingTypeOK'
  <2>1. line' \in [Lines -> LineRecord']
    BY <1>1, <1>4
  <2>2. QED
    BY <1>1, <1>3, <2>1 DEF PricingTypeOK, PricingInv
<1>11. QED
  BY <1>1, <1>6, <1>7, <1>8, <1>9, <1>10 DEF PricingInv

LEMMA DocumentsAreSent ==
  ASSUME PricingInv, SendDocument
  PROVE  PricingInv'
<1>1. /\ status' = "SENT" /\ entry' = (IF Booked THEN Postings ELSE {})
      /\ UNCHANGED <<kind, rate, line, header>>
  BY DEF SendDocument
<1>2. Booked' = Booked /\ Postings' = Postings /\ LineRecord' = LineRecord
  BY <1>1 DEF Booked, Postings, ClientPostings, CostPostings, LineRecord, CurrentTaxes
<1>3. Totals(line)' = Totals(line)
  BY <1>1 DEF Totals, Subtotal, SupplierSubtotal, ClientSubtotal, SumOfTotals, SumOfTaxes,
              SumOfDiscounts, SumWithoutTax, SumOfProducts, There
<1>4. (\A m \in Present : LineDerived(line[m]))'
  BY <1>1 DEF PricingInv, Present, LineDerived, Gross, HalfUp
<1>5. \A p \in Postings : {p.debit, p.credit} \subseteq Int
  <2>1. header.total \in Int /\ header.tax \in Int
    BY DEF PricingInv, PricingTypeOK
  <2>2. header.total - header.tax \in Int
    BY <2>1
  <2>3. \A a, x, y : Posting(a, x, y).debit = x /\ Posting(a, x, y).credit = y
    BY DEF Posting
  <2>4. \A p \in Postings : \E a : \E x \in Int : \E y \in Int : p = Posting(a, x, y)
    <3>1. SUFFICES ASSUME NEW p \in Postings PROVE \E a : \E x \in Int : \E y \in Int : p = Posting(a, x, y)
      OBVIOUS
    <3>2. 0 \in Int
      OBVIOUS
    <3>3. CASE p \in CostPostings
      BY <2>1, <3>2, <3>3 DEF CostPostings
    <3>4. CASE p \in ClientPostings
      BY <2>1, <2>2, <3>2, <3>4 DEF ClientPostings, MovingMoney
    <3>5. QED
      BY <3>3, <3>4 DEF Postings
  <2>5. QED
    BY <2>3, <2>4
<1>6. PricingTypeOK'
  BY <1>1, <1>2, <1>5 DEF PricingTypeOK, PricingInv
<1>7. QED
  BY <1>1, <1>2, <1>3, <1>4, <1>6 DEF PricingInv

LEMMA PricingStays ==
  ASSUME PricingInv, [PricingNext]_pricingVars
  PROVE  PricingInv'
<1>1. CASE UNCHANGED pricingVars
  <2>1. Totals(line)' = Totals(line)
    BY <1>1 DEF pricingVars, Totals, Subtotal, SupplierSubtotal, ClientSubtotal, SumOfTotals,
                SumOfTaxes, SumOfDiscounts, SumWithoutTax, SumOfProducts, There
  <2>2. LineRecord' = LineRecord /\ (Booked /\ entry = Postings)' = (Booked /\ entry = Postings)
    BY <1>1 DEF pricingVars, LineRecord, CurrentTaxes, Booked, Postings, ClientPostings,
                CostPostings
  <2>3. (\A m \in Present : LineDerived(line[m]))'
    BY <1>1 DEF pricingVars, PricingInv, Present, LineDerived, Gross, HalfUp
  <2>4. PricingTypeOK'
    BY <1>1, <2>2 DEF pricingVars, PricingTypeOK, PricingInv
  <2>5. QED
    BY <1>1, <2>1, <2>2, <2>3, <2>4 DEF pricingVars, PricingInv
<1>2. CASE \E n \in Lines : AddLine(n) \/ ChangeLine(n) \/ DropLine(n)
  BY <1>2, LinesAreEdited
<1>3. CASE \E t \in Taxes : ChangeRate(t) \/ DeleteRate(t)
  BY <1>3, RatesChange, RatesGo
<1>4. CASE SendDocument
  BY <1>4, DocumentsAreSent
<1>5. QED
  BY <1>1, <1>2, <1>3, <1>4 DEF PricingNext

(* The amounts of lines, of the header and of the entry are whole; a line  *)
(* with a tax is at a rate that exists.                                    *)
THEOREM PricingTypeCorrect == PricingSpec => []PricingTypeOK
<1>1. PricingInv => PricingTypeOK
  BY DEF PricingInv
<1>2. QED
  BY <1>1, PricingInitially, PricingStays, PTL DEF PricingSpec

(* What the invariant says of the lines together. *)
LEMMA LinesTogether ==
  ASSUME PricingInv
  PROVE  /\ DOMAIN line = Lines /\ There(line) = Present /\ IsFiniteSet(Present)
         /\ \A n \in Present : line[n] \in LineRecord /\ LineDerived(line[n])
         /\ SumWithoutTax(line) \in Int
         /\ SumOfTotals(line) = SumWithoutTax(line) + SumOfTaxes(line)
<1>1. DOMAIN line = Lines /\ There(line) = Present
  BY DEF PricingInv, PricingTypeOK, There, Present
<1>2. \A n \in Present : line[n] \in LineRecord /\ LineDerived(line[n])
  BY DEF PricingInv, PricingTypeOK, Present
<1>3. IsFiniteSet(Present)
  BY PricingAssumption, FS_Subset DEF Present
<1>4. QED
  BY <1>1, <1>2, <1>3, TotalsAreWhole DEF PricingInv, PricingTypeOK

(* The products of measured lines, in thousandths of a cent, and the lines *)
(* rounded one by one are half a cent apart for each line.                 *)
LEMMA RoundedLines ==
  ASSUME PricingInv, kind \notin {"SUPPLIER", "CONTRACTOR"},
         NEW g, g = SumFunction([n \in Present |-> Gross(line[n])])
  PROVE  /\ g \in Int /\ SumOfProducts(line) \in Int
         /\ 2 * (1000 * g - SumOfProducts(line)) <= 1000 * Cardinality(Present)
         /\ 2 * (SumOfProducts(line) - 1000 * g) <= 1000 * Cardinality(Present)
<1> DEFINE T == Present
           product == [n \in T |-> line[n].quantity * line[n].price]
           gross == [n \in T |-> Gross(line[n])]
           less == [n \in T |-> (-2) * product[n]]
           more == [n \in T |-> 2000 * gross[n]]
           over == [n \in T |-> more[n] + less[n]]
           under == [n \in T |-> (-1) * over[n]]
<1>1. \A n \in T : /\ line[n].quantity * line[n].price \in Int /\ Gross(line[n]) \in Int
                   /\ -1000 <= 2 * (1000 * Gross(line[n]) - line[n].quantity * line[n].price)
                   /\ 2 * (1000 * Gross(line[n]) - line[n].quantity * line[n].price) <= 1000
  <2>1. SUFFICES ASSUME NEW n \in T
        PROVE  /\ line[n].quantity * line[n].price \in Int /\ Gross(line[n]) \in Int
               /\ -1000 <= 2 * (1000 * Gross(line[n]) - line[n].quantity * line[n].price)
               /\ 2 * (1000 * Gross(line[n]) - line[n].quantity * line[n].price) <= 1000
    OBVIOUS
  <2> DEFINE q == line[n].quantity * line[n].price
  <2>2. q \in Int
    BY LinesTogether DEF LineDerived
  <2>3. Gross(line[n]) = HalfUp(q, 1000)
    BY DEF Gross
  <2> HIDE DEF q
  <2>4. QED
    <3>1. /\ HalfUp(q, 1000) \in Int
          /\ -1000 <= 2 * (1000 * HalfUp(q, 1000) - q)
          /\ 2 * (1000 * HalfUp(q, 1000) - q) <= 1000
      BY <2>2, RoundingIsClose
    <3>2. QED
      BY <2>2, <2>3, <3>1 DEF q
<1>2. product \in [T -> Int] /\ gross \in [T -> Int]
  BY <1>1
<1>3. less \in [T -> Int] /\ more \in [T -> Int] /\ over \in [T -> Int] /\ under \in [T -> Int]
  BY <1>1
<1>4. /\ \A n \in T : less[n] = (-2) * product[n]
      /\ \A n \in T : more[n] = 2000 * gross[n]
      /\ \A n \in T : over[n] = more[n] + less[n]
      /\ \A n \in T : under[n] = (-1) * over[n]
  OBVIOUS
<1>5. \A n \in T : over[n] <= 1000 /\ under[n] <= 1000
  <2>1. SUFFICES ASSUME NEW n \in T PROVE over[n] <= 1000 /\ under[n] <= 1000
    OBVIOUS
  <2>2. over[n] = 2000 * Gross(line[n]) + (-2) * (line[n].quantity * line[n].price)
        /\ under[n] = (-1) * over[n]
    OBVIOUS
  <2> HIDE DEF over, under
  <2>3. QED
    BY <1>1, <2>2
<1>6. IsFiniteSet(T) /\ There(line) = T
  BY LinesTogether
<1>7. SumOfProducts(line) = SumFunction(product) /\ g = SumFunction(gross)
  BY <1>6 DEF SumOfProducts
<1> HIDE DEF T, product, gross, less, more, over, under
<1>8. SumFunction(product) \in Int /\ SumFunction(gross) \in Int
  BY <1>2, <1>6, SumFunctionIsInteger
<1>9. SumFunction(less) = (-2) * SumFunction(product) /\ SumFunction(more) = 2000 * SumFunction(gross)
  <2>1. SumFunction(less) = (-2) * SumFunction(product)
    <3>1. PICK k \in Int : k = -2
      OBVIOUS
    <3>2. \A n \in T : less[n] = k * product[n]
      BY <1>4, <3>1
    <3>3. SumFunction(less) = k * SumFunction(product)
      BY <1>2, <1>3, <1>6, <3>2, SumFunctionScaled
    <3>4. QED
      BY <3>1, <3>3
  <2>2. SumFunction(more) = 2000 * SumFunction(gross)
    <3>1. PICK k \in Int : k = 2000
      OBVIOUS
    <3>2. \A n \in T : more[n] = k * gross[n]
      BY <1>4, <3>1
    <3>3. SumFunction(more) = k * SumFunction(gross)
      BY <1>2, <1>3, <1>6, <3>2, SumFunctionScaled
    <3>4. QED
      BY <3>1, <3>3
  <2>3. QED
    BY <2>1, <2>2
<1>10. SumFunction(over) = SumFunction(more) + SumFunction(less)
  BY <1>3, <1>4, <1>6, SumFunctionAdds
<1>11. SumFunction(under) = (-1) * SumFunction(over)
  <2>1. -1 \in Int
    OBVIOUS
  <2>2. QED
    BY <1>3, <1>4, <1>6, <2>1, SumFunctionScaled
<1>12. SumFunction(over) <= 1000 * Cardinality(T) /\ SumFunction(under) <= 1000 * Cardinality(T)
  BY <1>3, <1>5, <1>6, SumFunctionWithin
<1>13. Cardinality(T) \in Nat
  BY <1>6, FS_CardinalityType
<1>14. QED
  BY <1>7, <1>8, <1>9, <1>10, <1>11, <1>12, <1>13 DEF T

(* Elsewhere the totals of the lines are their rounded products less the   *)
(* discounts, and the taxes.                                               *)
LEMMA TotalsOfMeasured ==
  ASSUME PricingInv, kind \notin {"SUPPLIER", "CONTRACTOR"},
         NEW g, g = SumFunction([n \in Present |-> Gross(line[n])])
  PROVE  SumWithoutTax(line) + SumOfDiscounts(line) = g
<1> DEFINE T == Present
           gross == [n \in T |-> Gross(line[n])]
           without == [n \in T |-> line[n].total - line[n].tax]
           discount == [n \in T |-> line[n].discount]
<1>1. IsFiniteSet(T) /\ There(line) = T
  BY LinesTogether
<1>2. \A n \in T : /\ line[n].total \in Int /\ line[n].tax \in Int /\ line[n].discount \in Int
                   /\ Gross(line[n]) \in Int
                   /\ line[n].total = Gross(line[n]) - line[n].discount + line[n].tax
  <2>1. SUFFICES ASSUME NEW n \in T
        PROVE  /\ line[n].total \in Int /\ line[n].tax \in Int /\ line[n].discount \in Int
               /\ Gross(line[n]) \in Int
               /\ line[n].total = Gross(line[n]) - line[n].discount + line[n].tax
    OBVIOUS
  <2>2. line[n] \in LineRecord /\ LineDerived(line[n]) /\ line[n].quantity # Null
    BY LinesTogether DEF LineDerived
  <2> DEFINE q == line[n].quantity * line[n].price
  <2>3. q \in Int /\ Gross(line[n]) = HalfUp(q, 1000)
    BY <2>2 DEF LineDerived, Gross
  <2>4. Gross(line[n]) \in Int
    <3> HIDE DEF q
    <3>1. QED
      BY <2>3, RoundingIsClose
  <2>5. QED
    BY <2>2, <2>4 DEF LineDerived, LineRecord
<1>3. gross \in [T -> Int] /\ without \in [T -> Int] /\ discount \in [T -> Int]
  BY <1>2
<1>4. \A n \in T : gross[n] = without[n] + discount[n]
  BY <1>2
<1>5. SumOfDiscounts(line) = SumFunction(discount) /\ SumWithoutTax(line) = SumFunction(without)
      /\ g = SumFunction(gross)
  BY <1>1 DEF SumOfDiscounts, SumWithoutTax
<1> HIDE DEF T, gross, without, discount
<1>6. QED
  BY <1>1, <1>3, <1>4, <1>5, SumFunctionAdds

LEMMA HeadersAddUp == PricingInv => HeaderAddsUp
<1> SUFFICES ASSUME PricingInv PROVE HeaderAddsUp
  OBVIOUS
<1> DEFINE H == Subtotal(line)
           D == SumOfDiscounts(line)
           X == SumOfTaxes(line)
           A == SumOfTotals(line)
           W == SumWithoutTax(line)
           c == Cardinality(Present)
<1>1. header.subtotal = H /\ header.discount = D /\ header.tax = X /\ header.total = A
  BY DEF PricingInv, Totals
<1>2. H \in Int /\ D \in Int /\ X \in Int /\ A \in Int
  BY <1>1 DEF PricingInv, PricingTypeOK
<1>3. W \in Int /\ A = W + X
  BY LinesTogether
<1>4. c \in Nat
  BY LinesTogether, FS_CardinalityType
<1>5. CASE kind \in {"SUPPLIER", "CONTRACTOR"}
  <2>1. H = W
    BY <1>5 DEF Subtotal, SupplierSubtotal
  <2>2. D = 0
    <3>1. \A n \in Present : line[n].discount = 0
      BY <1>5, LinesTogether DEF LineDerived
    <3>2. [n \in Present |-> line[n].discount] \in [Present -> Int]
      BY <3>1
    <3>3. D = SumFunction([n \in Present |-> line[n].discount])
      BY LinesTogether DEF SumOfDiscounts
    <3> DEFINE f == [n \in Present |-> line[n].discount]
    <3>4. f \in [Present -> Int] /\ (\A n \in Present : f[n] = 0) /\ D = SumFunction(f)
      BY <3>1, <3>2, <3>3
    <3> HIDE DEF f, D
    <3>5. QED
      BY <3>4, LinesTogether, SumFunctionOfZeros
  <2> HIDE DEF H, D, X, A, W, c
  <2>3. 2 * (H - D + X - A) = 0
    BY <1>2, <1>3, <2>1, <2>2
  <2>4. QED
    BY <1>1, <1>5, <2>3 DEF HeaderAddsUp
<1>6. CASE kind \notin {"SUPPLIER", "CONTRACTOR"}
  <2> DEFINE g == SumFunction([n \in Present |-> Gross(line[n])])
             P == SumOfProducts(line)
  <2>1. /\ g \in Int /\ P \in Int
        /\ 2 * (1000 * g - P) <= 1000 * c /\ 2 * (P - 1000 * g) <= 1000 * c
    BY <1>6, RoundedLines
  <2>2. W + D = g
    BY <1>6, TotalsOfMeasured
  <2>3. H = HalfUp(P, 1000)
    BY <1>6 DEF Subtotal, ClientSubtotal
  <2> HIDE DEF P, g
  <2>4. -1000 <= 2 * (1000 * H - P) /\ 2 * (1000 * H - P) <= 1000
    BY <2>1, <2>3, RoundingIsClose
  <2> HIDE DEF H, D, X, A, W
  <2>5. 2 * (H - D + X - A) <= c + 1 /\ -(c + 1) <= 2 * (H - D + X - A)
    <3>1. H - D + X - A = H - g
      BY <1>2, <1>3, <2>1, <2>2
    <3> HIDE DEF c
    <3>2. 2 * (1000 * H - 1000 * g) <= 1000 * c + 1000 /\ -(1000 * c + 1000) <= 2 * (1000 * H - 1000 * g)
      BY <1>2, <1>4, <2>1, <2>4
    <3>3. QED
      BY <1>2, <1>4, <2>1, <3>1, <3>2
  <2>6. 2 * (H - D + X - A) \in (-(c + 1))..(c + 1)
    <3> HIDE DEF c
    <3>1. QED
      BY <1>2, <1>4, <2>5
  <2>7. QED
    BY <1>1, <1>6, <2>6 DEF HeaderAddsUp
<1>7. QED
  BY <1>5, <1>6

(* For any lines, amounts, rates and order of requests, the header adds up *)
(* to the cent or within the rounding of its lines                         *)
(* (recalculate_client_invoice_totals, recalculate_po_totals).             *)
THEOREM HeadersAlwaysAddUp == PricingSpec => []HeaderAddsUp
  BY HeadersAddUp, PricingInitially, PricingStays, PTL DEF PricingSpec

(* A column of an entry in which one posting moves an amount, if any.      *)
LEMMA ColumnOfOne ==
  ASSUME NEW P, IsFiniteSet(P), NEW f \in [P -> Int], NEW q, NEW x \in Int,
         x # 0 => q \in P, q \in P => f[q] = x, \A p \in P \ {q} : f[p] = 0
  PROVE  SumFunction(f) = x
<1>1. CASE x # 0
  BY <1>1, SumFunctionOfOne
<1>2. CASE x = 0
  BY <1>2, SumFunctionOfZeros
<1>3. QED
  BY <1>1, <1>2

(* The entries are finite, and know their lines by their accounts. *)
LEMMA PostingsAreFinite ==
  IsFiniteSet(ClientPostings) /\ IsFiniteSet(CostPostings)
<1>1. \A a, b, c : IsFiniteSet({a, b, c}) /\ IsFiniteSet({a, b})
  <2>1. SUFFICES ASSUME NEW a, NEW b, NEW c PROVE IsFiniteSet({a, b, c}) /\ IsFiniteSet({a, b})
    OBVIOUS
  <2>2. IsFiniteSet({a}) /\ IsFiniteSet({b}) /\ IsFiniteSet({c})
    BY FS_Singleton
  <2>3. IsFiniteSet({a} \cup {b}) /\ {a} \cup {b} = {a, b}
    BY <2>2, FS_Union
  <2>4. IsFiniteSet({a, b} \cup {c}) /\ {a, b} \cup {c} = {a, b, c}
    BY <2>2, <2>3, FS_Union
  <2>5. QED
    BY <2>3, <2>4
<1>2. IsFiniteSet(CostPostings)
  BY <1>1 DEF CostPostings
<1> DEFINE all == {Posting("receivable", header.total, 0),
                   Posting("revenue", 0, header.total - header.tax),
                   Posting("tax payable", 0, header.tax)}
<1>3. IsFiniteSet(all)
  BY <1>1
<1>4. ClientPostings \subseteq all
  BY DEF ClientPostings, MovingMoney
<1> HIDE DEF all
<1>5. QED
  BY <1>2, <1>3, <1>4, FS_Subset

(* A client's entry credits the tax as tax and the rest as revenue, and    *)
(* debits the total.                                                       *)
LEMMA ClientCredits ==
  ASSUME header.total \in Int, header.tax \in Int
  PROVE  /\ Credits({p \in ClientPostings : p.account = "tax payable"}) = header.tax
         /\ Credits({p \in ClientPostings : p.account = "revenue"}) = header.total - header.tax
         /\ Debits(ClientPostings) = header.total
         /\ Credits(ClientPostings) = header.total
<1> DEFINE A == header.total
           X == header.tax
           W == header.total - header.tax
           P == ClientPostings
           r == Posting("receivable", A, 0)
           v == Posting("revenue", 0, W)
           t == Posting("tax payable", 0, X)
           PT == {p \in P : p.account = "tax payable"}
           PV == {p \in P : p.account = "revenue"}
<1>1. A \in Int /\ X \in Int /\ W \in Int /\ A = W + X
  OBVIOUS
<1>2. /\ r.account = "receivable" /\ r.debit = A /\ r.credit = 0
      /\ v.account = "revenue" /\ v.debit = 0 /\ v.credit = W
      /\ t.account = "tax payable" /\ t.debit = 0 /\ t.credit = X
  BY DEF Posting
<1>3. \A p : p \in P <=> p \in {r, v, t} /\ (p.debit # 0 \/ p.credit # 0)
  BY DEF ClientPostings, MovingMoney
<1>4. IsFiniteSet(P)
  BY PostingsAreFinite
<1> HIDE DEF r, v, t, A, X, W, P
<1>5. IsFiniteSet(PT) /\ IsFiniteSet(PV)
  BY <1>4, FS_Subset
<1>6. \A p \in P : p.debit \in Int /\ p.credit \in Int /\ p \in {r, v, t}
  <2>1. SUFFICES ASSUME NEW p \in P PROVE p.debit \in Int /\ p.credit \in Int /\ p \in {r, v, t}
    OBVIOUS
  <2>2. p = r \/ p = v \/ p = t
    BY <1>3
  <2> 0 \in Int
    OBVIOUS
  <2>3. CASE p = r
    BY <1>1, <1>2, <2>3, Zenon
  <2>4. CASE p = v
    BY <1>1, <1>2, <2>4, Zenon
  <2>5. CASE p = t
    BY <1>1, <1>2, <2>5, Zenon
  <2>6. QED
    BY <2>2, <2>3, <2>4, <2>5
<1>7. (A # 0 <=> r \in P) /\ (W # 0 <=> v \in P) /\ (X # 0 <=> t \in P)
  BY <1>1, <1>2, <1>3
<1>8. Credits(PT) = X
  <2> DEFINE f == [p \in PT |-> p.credit]
  <2>1. /\ f \in [PT -> Int] /\ (X # 0 => t \in PT) /\ (t \in PT => f[t] = X)
        /\ \A p \in PT \ {t} : f[p] = 0
    BY <1>2, <1>6, <1>7
  <2> HIDE DEF f, PT
  <2>2. SumFunction(f) = X
    BY <1>1, <1>5, <2>1, ColumnOfOne
  <2>3. QED
    BY <2>2 DEF Credits, f
<1>9. Credits(PV) = W
  <2> DEFINE f == [p \in PV |-> p.credit]
  <2>1. /\ f \in [PV -> Int] /\ (W # 0 => v \in PV) /\ (v \in PV => f[v] = W)
        /\ \A p \in PV \ {v} : f[p] = 0
    BY <1>2, <1>6, <1>7
  <2>2. W \in Int /\ IsFiniteSet(PV)
    BY <1>1, <1>5
  <2> HIDE DEF f, PV
  <2>3. SumFunction(f) = W
    BY <2>1, <2>2, ColumnOfOne
  <2>4. QED
    BY <2>3 DEF Credits, f
<1>10. Debits(P) = A
  <2> DEFINE f == [p \in P |-> p.debit]
  <2>1. /\ f \in [P -> Int] /\ (A # 0 => r \in P) /\ (r \in P => f[r] = A)
        /\ \A p \in P \ {r} : f[p] = 0
    BY <1>2, <1>6, <1>7
  <2> HIDE DEF f
  <2>2. SumFunction(f) = A
    BY <1>1, <1>4, <2>1, ColumnOfOne
  <2>3. QED
    BY <2>2 DEF Debits, f
<1>11. Credits(P) = A
  <2> DEFINE f == [p \in P |-> p.credit]
             g == [p \in P |-> IF p = v THEN p.credit ELSE 0]
             h == [p \in P |-> IF p = v THEN 0 ELSE p.credit]
  <2>1. f \in [P -> Int] /\ g \in [P -> Int] /\ h \in [P -> Int] /\ \A p \in P : f[p] = g[p] + h[p]
    BY <1>6
  <2>2. /\ W # 0 => v \in P
        /\ v \in P => g[v] = W
        /\ \A p \in P \ {v} : g[p] = 0
    BY <1>2, <1>7
  <2>3. /\ X # 0 => t \in P
        /\ t \in P => h[t] = X
        /\ \A p \in P \ {t} : h[p] = 0
    BY <1>2, <1>6, <1>7
  <2>4. Credits(P) = SumFunction(f)
    BY DEF Credits
  <2> HIDE DEF f, g, h
  <2>5. SumFunction(g) = W
    BY <1>1, <1>4, <2>1, <2>2, ColumnOfOne
  <2>6. SumFunction(h) = X
    BY <1>1, <1>4, <2>1, <2>3, ColumnOfOne
  <2>7. SumFunction(f) = SumFunction(g) + SumFunction(h)
    BY <1>4, <2>1, SumFunctionAdds
  <2>8. QED
    BY <1>1, <2>4, <2>5, <2>6, <2>7
<1>12. QED
  BY <1>8, <1>9, <1>10, <1>11 DEF A, X, W, P

LEMMA CostCredits ==
  ASSUME header.total \in Int
  PROVE  /\ Credits({p \in CostPostings : p.account = "payable"}) = header.total
         /\ Debits(CostPostings) = header.total
         /\ Credits(CostPostings) = header.total
<1> DEFINE A == header.total
           P == CostPostings
           c == Posting("cost", A, 0)
           y == Posting("payable", 0, A)
           PY == {p \in P : p.account = "payable"}
<1>1. /\ c.account = "cost" /\ c.debit = A /\ c.credit = 0
      /\ y.account = "payable" /\ y.debit = 0 /\ y.credit = A
  BY DEF Posting
<1>2. P = {c, y} /\ A \in Int
  BY DEF CostPostings
<1>3. IsFiniteSet(P)
  BY PostingsAreFinite
<1> HIDE DEF A, P, c, y
<1>4. PY = {y} /\ IsFiniteSet(PY)
  BY <1>1, <1>2, FS_Singleton
<1>5. Credits(PY) = A
  <2> DEFINE f == [p \in PY |-> p.credit]
  <2>1. f \in [PY -> Int] /\ y \in PY /\ f[y] = A /\ \A p \in PY \ {y} : f[p] = 0
    BY <1>1, <1>2, <1>4
  <2> HIDE DEF f, PY
  <2>2. SumFunction(f) = A
    BY <1>4, <2>1, SumFunctionOfOne
  <2>3. QED
    BY <2>2 DEF Credits, f
<1>6. Debits(P) = A
  <2> DEFINE f == [p \in P |-> p.debit]
  <2>1. f \in [P -> Int] /\ c \in P /\ f[c] = A /\ \A p \in P \ {c} : f[p] = 0
    BY <1>1, <1>2
  <2> HIDE DEF f
  <2>2. SumFunction(f) = A
    BY <1>3, <2>1, SumFunctionOfOne
  <2>3. QED
    BY <2>2 DEF Debits, f
<1>7. Credits(P) = A
  <2> DEFINE f == [p \in P |-> p.credit]
  <2>1. f \in [P -> Int] /\ y \in P /\ f[y] = A /\ \A p \in P \ {y} : f[p] = 0
    BY <1>1, <1>2
  <2> HIDE DEF f
  <2>2. SumFunction(f) = A
    BY <1>3, <2>1, SumFunctionOfOne
  <2>3. QED
    BY <2>2 DEF Credits, f
<1>8. QED
  BY <1>5, <1>6, <1>7 DEF A, P

(* Ordinary lines bill no negative tax and no negative rest. *)
LEMMA OrdinaryLines ==
  ASSUME PricingInv, \A n \in Present : Ordinary(line[n])
  PROVE  SumOfTaxes(line) \in Nat /\ SumWithoutTax(line) \in Nat
<1> DEFINE T == Present
           tax == [n \in T |-> line[n].tax]
           without == [n \in T |-> line[n].total - line[n].tax]
<1>1. \A n \in T : /\ line[n].tax \in Int /\ line[n].total \in Int
                   /\ line[n].tax >= 0 /\ line[n].total - line[n].tax >= 0
  <2>1. SUFFICES ASSUME NEW n \in T
        PROVE  /\ line[n].tax \in Int /\ line[n].total \in Int
               /\ line[n].tax >= 0 /\ line[n].total - line[n].tax >= 0
    OBVIOUS
  <2>2. line[n] \in LineRecord /\ LineDerived(line[n]) /\ Ordinary(line[n])
    BY LinesTogether
  <2>3. CASE line[n].quantity = Null
    BY <2>2, <2>3 DEF LineDerived, Ordinary
  <2>4. CASE line[n].quantity # Null
    <3> DEFINE q == line[n].quantity * line[n].price
               g == Gross(line[n])
    <3>1. q \in Int /\ g = HalfUp(q, 1000)
      BY <2>2, <2>4 DEF LineDerived, Gross
    <3>2. g \in Int
      <4> HIDE DEF q, g
      <4>1. QED
        BY <3>1, RoundingIsClose
    <3>3. line[n].discount \in Int /\ line[n].discount <= g
          /\ line[n].total = g - line[n].discount + line[n].tax
          /\ (g - line[n].discount >= 0 => line[n].tax >= 0)
          /\ line[n].tax \in Int /\ line[n].total \in Int
      BY <2>2, <2>4 DEF LineDerived, Ordinary, LineRecord
    <3> HIDE DEF g
    <3>4. QED
      BY <3>2, <3>3
  <2>5. QED
    BY <2>3, <2>4
<1>2. /\ tax \in [T -> Int] /\ without \in [T -> Int]
      /\ \A n \in T : tax[n] >= 0 /\ without[n] >= 0
  BY <1>1
<1>3. IsFiniteSet(T) /\ There(line) = T
  BY LinesTogether
<1>4. SumOfTaxes(line) = SumFunction(tax) /\ SumWithoutTax(line) = SumFunction(without)
  BY <1>3 DEF SumOfTaxes, SumWithoutTax
<1> HIDE DEF T, tax, without
<1>5. QED
  BY <1>2, <1>3, <1>4, SumFunctionIsNatural

LEMMA BillsBook == PricingInv => BillsAreBooked
<1> SUFFICES ASSUME PricingInv PROVE BillsAreBooked
  OBVIOUS
<1> DEFINE A == header.total
           X == header.tax
<1>1. A = SumOfTotals(line) /\ X = SumOfTaxes(line) /\ A \in Int /\ X \in Int
  BY DEF PricingInv, PricingTypeOK, Totals
<1>2. SumWithoutTax(line) \in Int /\ SumWithoutTax(line) = A - X
  BY <1>1, LinesTogether
<1>3. ASSUME Booked, \A n \in Present : Ordinary(line[n]) PROVE Balanced(Postings)
  <2>1. A > 0 /\ X \in Nat /\ A - X \in Nat
    BY <1>1, <1>2, <1>3, OrdinaryLines DEF Booked
  <2>2. Debits(Postings) = A /\ Credits(Postings) = A
    BY <1>1, ClientCredits, CostCredits DEF Postings
  <2>3. \A p \in Postings : p.debit >= 0 /\ p.credit >= 0 /\ (p.debit > 0 <=> p.credit = 0)
    <3>1. SUFFICES ASSUME NEW p \in Postings
                   PROVE  p.debit >= 0 /\ p.credit >= 0 /\ (p.debit > 0 <=> p.credit = 0)
      OBVIOUS
    <3>2. \A a, x, y : Posting(a, x, y).debit = x /\ Posting(a, x, y).credit = y
      BY DEF Posting
    <3>3. \E a : \/ p = Posting(a, A, 0) \/ p = Posting(a, 0, A)
                \/ (A - X # 0 /\ p = Posting(a, 0, A - X)) \/ (X # 0 /\ p = Posting(a, 0, X))
      <4>1. CASE p \in CostPostings
        BY <4>1 DEF CostPostings
      <4>2. CASE p \in ClientPostings
        <5>1. \/ p = Posting("receivable", A, 0)
              \/ p = Posting("revenue", 0, A - X) /\ A - X # 0
              \/ p = Posting("tax payable", 0, X) /\ X # 0
          <6>1. p.debit # 0 \/ p.credit # 0
            BY <4>2 DEF ClientPostings, MovingMoney
          <6>2. \/ p = Posting("receivable", A, 0) \/ p = Posting("revenue", 0, A - X)
                \/ p = Posting("tax payable", 0, X)
            BY <4>2 DEF ClientPostings, MovingMoney
          <6> HIDE DEF A, X
          <6>3. CASE p = Posting("receivable", A, 0)
            BY <6>3
          <6>4. CASE p = Posting("revenue", 0, A - X)
            <7>1. p.debit = 0 /\ p.credit = A - X
              BY <3>2, <6>4, ZenonT(30)
            <7>2. QED
              BY <6>1, <6>4, <7>1, Zenon
          <6>5. CASE p = Posting("tax payable", 0, X)
            <7>1. p.debit = 0 /\ p.credit = X
              BY <3>2, <6>5, ZenonT(30)
            <7>2. QED
              BY <6>1, <6>5, <7>1, Zenon
          <6>6. QED
            BY <6>2, <6>3, <6>4, <6>5, Zenon
        <5> HIDE DEF A, X
        <5>2. QED
          BY <5>1
      <4>3. QED
        BY <4>1, <4>2 DEF Postings
    <3>4. PICK a : \/ p = Posting(a, A, 0) \/ p = Posting(a, 0, A)
                   \/ (A - X # 0 /\ p = Posting(a, 0, A - X)) \/ (X # 0 /\ p = Posting(a, 0, X))
      BY <3>3
    <3> HIDE DEF A, X
    <3>5. CASE p = Posting(a, A, 0)
      BY <1>1, <2>1, <3>2, <3>5
    <3>6. CASE p = Posting(a, 0, A)
      BY <1>1, <2>1, <3>2, <3>6
    <3>7. CASE A - X # 0 /\ p = Posting(a, 0, A - X)
      BY <1>1, <2>1, <3>2, <3>7
    <3>8. CASE X # 0 /\ p = Posting(a, 0, X)
      BY <1>1, <2>1, <3>2, <3>8
    <3>9. QED
      BY <3>4, <3>5, <3>6, <3>7, <3>8
  <2>4. QED
    BY <2>2, <2>3 DEF Balanced
<1>4. ASSUME entry # {}, kind = "CLIENT"
      PROVE  Credited("tax payable") = SumOfTaxes(line) /\ Credited("revenue") = SumWithoutTax(line)
  <2>1. entry = ClientPostings
    BY <1>4 DEF PricingInv, Postings
  <2>2. QED
    BY <1>1, <1>2, <2>1, ClientCredits DEF Credited
<1>5. ASSUME entry # {}, kind # "CLIENT" PROVE Credited("payable") = SumOfTotals(line)
  <2>1. entry = CostPostings
    BY <1>5 DEF PricingInv, Postings
  <2>2. QED
    BY <1>1, <2>1, CostCredits DEF Credited
<1>6. QED
  BY <1>3, <1>4, <1>5 DEF BillsAreBooked

(* For any lines, amounts, rates and order of requests, a document of      *)
(* ordinary lines balances when it is sent, and a sent one's entry credits *)
(* what its lines bill (book_client_invoice, _invoice_lines).              *)
THEOREM BillsAreAlwaysBooked == PricingSpec => []BillsAreBooked
  BY BillsBook, PricingInitially, PricingStays, PTL DEF PricingSpec
=============================================================================
