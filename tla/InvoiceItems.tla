--------------------------- MODULE InvoiceItems ---------------------------
(***************************************************************************)
(* The line items of draft invoices and the totals derived from them.      *)
(*                                                                         *)
(* An item request reads the item and its parent invoice, then opens a     *)
(* transaction that writes the item and recalculates totals.  A            *)
(* recalculation is a SELECT over the items, at READ COMMITTED, followed   *)
(* by an UPDATE of the invoice row, which waits while another transaction  *)
(* holds that row.  What a transaction wrote is visible to others when it  *)
(* commits; until then it is part of the request's job.                    *)
(***************************************************************************)
EXTENDS Integers, Sequences, FiniteSets, Sums

CONSTANTS
  Requests,   \* the requests that can be in progress at the same time
  Invoices,   \* identifiers of invoices
  Items,      \* identifiers of line items
  None,       \* SQL's NULL
  MaxAmount,  \* bound on the amount of an item, in units
  Ops,        \* the operations clients request in this instance
  Alone       \* those that run only while no other request is in progress

ItemOps == {"create", "update", "move", "destroy", "send", "patch"}

ASSUME InvoiceItemsAssumption ==
  /\ IsFiniteSet(Items)
  /\ None \notin Invoices \cup Items \cup Int
  /\ MaxAmount \in Nat
  /\ Ops \subseteq ItemOps /\ Alone \subseteq Ops

VARIABLES
  items,      \* the committed item rows
  invoices,   \* the committed invoice rows
  job         \* what the worker of each request holds

vars == <<items, invoices, job>>
-----------------------------------------------------------------------------
NoItem == [inv |-> None, amount |-> 0]
Item == [inv : Invoices, amount : 0..MaxAmount] \cup {NoItem}
Header == [status : {"DRAFT", "SENT"}, total : Nat]
NewHeader == [status |-> "DRAFT", total |-> 0]

(* before: the item as read; after: the item as written.  plan: the        *)
(* invoices still to recalculate; sum: what the last SELECT found; totals: *)
(* what the open transaction has written, to the invoice rows it holds.    *)
Unwritten == [i \in Invoices |-> None]
Idle == [phase |-> "idle", item |-> None, before |-> NoItem, after |-> NoItem,
         inv |-> None, header |-> NewHeader, plan |-> <<>>, sum |-> 0, totals |-> Unwritten]
Job == [phase : {"idle", "fetched", "select", "update", "header"},
        item : Items \cup {None}, before : Item, after : Item,
        inv : Invoices \cup {None}, header : Header, plan : Seq(Invoices), sum : Nat,
        totals : [Invoices -> Nat \cup {None}]]

InTransaction(r) == job[r].phase \in {"select", "update"}
ItemFree(r, x) == \A s \in Requests \ {r} : ~(InTransaction(s) /\ job[s].item = x)
InvoiceFree(r, i) == \A s \in Requests \ {r} : job[s].totals[i] = None

(* Which requests meet is the environment's choice. *)
OpOf(j) ==
  CASE j.phase = "idle" -> "idle"
    [] j.phase = "header" -> "patch"
    [] OTHER -> CASE j.before = NoItem -> "create"
                  [] j.after = NoItem -> "destroy"
                  [] OTHER -> IF j.after.inv = j.before.inv THEN "update" ELSE "move"
MayMeet(op) ==
  /\ op \in Alone => \A s \in Requests : job[s] = Idle
  /\ \A s \in Requests : OpOf(job[s]) \notin Alone

(* The rows a transaction sees: the committed ones and its own write. *)
Seen(r) == [items EXCEPT ![job[r].item] = job[r].after]
TotalOf(rows, i) ==
  SumOf([x \in Items |-> IF rows[x].inv = i THEN rows[x].amount ELSE 0])
-----------------------------------------------------------------------------
(* What is read before the transaction. *)

FetchForCreate(r, x, i, a) ==
  /\ "create" \in Ops /\ MayMeet("create")
  /\ job[r] = Idle
  /\ items[x] = NoItem /\ \A s \in Requests : job[s].item # x
  /\ job' = [job EXCEPT ![r] =
       [Idle EXCEPT !.phase = "fetched", !.item = x, !.inv = i, !.header = invoices[i],
                    !.after = [inv |-> i, amount |-> a]]]
  /\ UNCHANGED <<items, invoices>>

FetchForUpdate(r, x, i, a) ==
  /\ job[r] = Idle
  /\ items[x] # NoItem
  /\ IF i = items[x].inv THEN "update" \in Ops ELSE "move" \in Ops
  /\ MayMeet(IF i = items[x].inv THEN "update" ELSE "move")
  /\ job' = [job EXCEPT ![r] =
       [Idle EXCEPT !.phase = "fetched", !.item = x, !.before = items[x],
                    !.inv = items[x].inv, !.header = invoices[items[x].inv],
                    !.after = [inv |-> i, amount |-> a]]]
  /\ UNCHANGED <<items, invoices>>

FetchForDestroy(r, x) ==
  /\ "destroy" \in Ops /\ MayMeet("destroy")
  /\ job[r] = Idle
  /\ items[x] # NoItem
  /\ job' = [job EXCEPT ![r] =
       [Idle EXCEPT !.phase = "fetched", !.item = x, !.before = items[x],
                    !.inv = items[x].inv, !.header = invoices[items[x].inv]]]
  /\ UNCHANGED <<items, invoices>>
-----------------------------------------------------------------------------
(* The transaction.  Creating or changing an item recalculates its parent  *)
(* in the serializer and again in the view; a moved item's new parent is   *)
(* recalculated by the serializer, the old one by the view; removing an    *)
(* item recalculates once.                                                 *)

SerializerOnly(before, after) ==
  IF after = NoItem THEN <<before.inv>> ELSE <<after.inv>>
Plan(before, after) ==
  CASE after = NoItem -> <<before.inv>>
    [] before = NoItem -> <<after.inv, after.inv>>
    [] OTHER -> <<after.inv, before.inv>>

NoDraftCheck(header) == TRUE
RequireDraft(header) == header.status = "DRAFT"

Begin(r) ==
  /\ job[r].phase = "fetched"
  /\ RequireDraft(job[r].header)
  /\ ItemFree(r, job[r].item)
  /\ job' = [job EXCEPT ![r].phase = "select",
                        ![r].plan = Plan(job[r].before, job[r].after)]
  /\ UNCHANGED <<items, invoices>>

SelectItems(r) ==
  /\ job[r].phase = "select" /\ job[r].plan # <<>>
  /\ job' = [job EXCEPT ![r].phase = "update",
                        ![r].sum = TotalOf(Seen(r), Head(job[r].plan))]
  /\ UNCHANGED <<items, invoices>>

UpdateInvoice(r) ==
  /\ job[r].phase = "update"
  /\ InvoiceFree(r, Head(job[r].plan))
  /\ job' = [job EXCEPT ![r].phase = "select",
                        ![r].totals[Head(job[r].plan)] = job[r].sum,
                        ![r].plan = Tail(job[r].plan)]
  /\ UNCHANGED <<items, invoices>>

Commit(r) ==
  /\ job[r].phase = "select" /\ job[r].plan = <<>>
  /\ items' = Seen(r)
  /\ invoices' = [i \in Invoices |->
       IF job[r].totals[i] = None THEN invoices[i]
       ELSE [invoices[i] EXCEPT !.total = job[r].totals[i]]]
  /\ job' = [job EXCEPT ![r] = Idle]

(* The handler answers 403, PostgreSQL breaks a deadlock, the worker dies. *)
Rollback(r) ==
  /\ job[r] # Idle
  /\ job' = [job EXCEPT ![r] = Idle]
  /\ UNCHANGED <<items, invoices>>
-----------------------------------------------------------------------------
(* The header. Settlement has what else sending does. *)

Send(r, i) ==
  /\ "send" \in Ops /\ MayMeet("send")
  /\ job[r] = Idle
  /\ invoices[i].status = "DRAFT"
  /\ InvoiceFree(r, i)
  /\ invoices' = [invoices EXCEPT ![i].status = "SENT"]
  /\ UNCHANGED <<items, job>>

FetchHeader(r, i) ==
  /\ "patch" \in Ops /\ MayMeet("patch")
  /\ job[r] = Idle
  /\ job' = [job EXCEPT ![r] = [Idle EXCEPT !.phase = "header", !.inv = i,
                                            !.header = invoices[i]]]
  /\ UNCHANGED <<items, invoices>>

(* serializer.save() writes every column of the row it read. *)
PatchHeader(r) ==
  /\ job[r].phase = "header"
  /\ RequireDraft(job[r].header)
  /\ InvoiceFree(r, job[r].inv)
  /\ invoices' = [invoices EXCEPT ![job[r].inv] = job[r].header]
  /\ job' = [job EXCEPT ![r] = Idle]
  /\ UNCHANGED items
-----------------------------------------------------------------------------
Init ==
  /\ items = [x \in Items |-> NoItem]
  /\ invoices = [i \in Invoices |-> NewHeader]
  /\ job = [r \in Requests |-> Idle]

Request(r) ==
  \/ \E x \in Items, i \in Invoices, a \in 0..MaxAmount :
       FetchForCreate(r, x, i, a) \/ FetchForUpdate(r, x, i, a)
  \/ \E x \in Items : FetchForDestroy(r, x)
  \/ \E i \in Invoices : Send(r, i) \/ FetchHeader(r, i)

Step(r) ==
  \/ Begin(r) \/ SelectItems(r) \/ UpdateInvoice(r) \/ Commit(r) \/ PatchHeader(r)

Next == \E r \in Requests : Request(r) \/ Step(r) \/ Rollback(r)

Spec == Init /\ [][Next]_vars
-----------------------------------------------------------------------------
(* What the properties below need of the environment: what may leave a     *)
(* total wrong when two of it meet (a moved or removed item, a saved       *)
(* header) runs on its own; and, for the items of sent invoices, sending   *)
(* and moving do.                                                          *)
SafeOps == {"create", "update", "send"}
OthersAlone == Ops \ SafeOps \subseteq Alone
SendAndMoveAlone == {"send", "move"} \cap Ops \subseteq Alone
-----------------------------------------------------------------------------
(* Every variable holds a value of its kind. *)
TypeOK ==
  /\ items \in [Items -> Item]
  /\ invoices \in [Invoices -> Header]
  /\ job \in [Requests -> Job]

(* The stored total of an invoice is the sum of its items, in every        *)
(* committed state (invoicing/services.py, recalculate_invoice_totals).    *)
TotalsFollowItems == \A i \in Invoices : invoices[i].total = TotalOf(items, i)

(* When nothing meets a send or a move, an item of an invoice that has     *)
(* been sent is neither changed, nor removed, nor moved to another invoice *)
(* (the viewsets' _require_draft, invoicing/views.py:164-169).             *)
SentItemsStay ==
  [][\A x \in Items :
       items[x] # NoItem /\ invoices[items[x].inv].status = "SENT" =>
         items'[x] = items[x]]_vars
=============================================================================
