------------------------------ MODULE Pricing ------------------------------
(***************************************************************************)
(* What a document costs: the amounts of its lines, the header they add up *)
(* to, and the entry the header is booked as.  Money is counted in cents,  *)
(* quantities in thousandths, tax rates in percent; every amount is        *)
(* rounded to the cent where the code rounds it.                           *)
(*                                                                         *)
(* One request at a time: how requests meet on a header is the subject of  *)
(* InvoiceItems and Settlement.                                            *)
(***************************************************************************)
EXTENDS Integers, FiniteSets, Functions

CONSTANTS
  Lines, Taxes,        \* identifiers of lines and of tax rates
  Null,                \* SQL's NULL
  Quantities, Prices, Discounts,   \* what clients enter for measured lines
  Charges,             \* totals and taxes clients enter for flat lines
  Rates                \* the rates owners enter

Kinds == {"CLIENT", "SUPPLIER", "CONTRACTOR", "ORDER"}

ASSUME PricingAssumption ==
  /\ IsFiniteSet(Lines)
  /\ Null \notin Taxes \cup Int
  /\ Quantities \cup Prices \cup Discounts \cup Charges \subseteq Int
  /\ Rates \subseteq Nat

VARIABLES
  kind,     \* which of the four documents this is
  rate,     \* the tax rates; Null once a rate is deleted
  line,     \* the lines of the document
  header,   \* its sums
  status,
  entry     \* the lines of its journal entry

pricingVars == <<kind, rate, line, header, status, entry>>
-----------------------------------------------------------------------------
(* n / d to the nearest integer, halves away from zero: ROUND_HALF_UP.     *)
HalfUp(n, d) ==
  IF n >= 0 THEN (2 * n + d) \div (2 * d) ELSE -((d - 2 * n) \div (2 * d))

Gross(l) == HalfUp(l.quantity * l.price, 1000)
TaxOn(net, t) == IF t = Null THEN 0 ELSE HalfUp(net * rate[t], 100)

Measured(q, p, d, t) ==
  [quantity |-> q, price |-> p, discount |-> d, taxed |-> t, tax |-> 0, total |-> 0]
FlatCharge(total, tax, t) ==
  [quantity |-> Null, price |-> Null, discount |-> 0, taxed |-> t, tax |-> tax, total |-> total]
NoLine == FlatCharge(Null, Null, Null)
Present == {n \in Lines : line[n] # NoLine}

(* The amounts of a line, as they are saved with it: derived where there   *)
(* is a quantity, and as the client entered them on a flat line.           *)
ItemAmounts(l) ==
  IF l.quantity = Null THEN l
  ELSE LET net == Gross(l) - l.discount
           tax == TaxOn(net, l.taxed)
       IN  [l EXCEPT !.tax = tax, !.total = net + tax]

(* What clients may enter; only purchase orders look at the signs.         *)
CurrentTaxes == {Null} \cup {t \in Taxes : rate[t] # Null}
ClientInputs == {Measured(q, p, d, t) : q \in Quantities, p \in Prices, d \in Discounts,
                                         t \in CurrentTaxes}
SupplierInputs == {Measured(q, p, 0, t) : q \in Quantities, p \in Prices, t \in CurrentTaxes}
                    \cup {FlatCharge(a, x, t) : a, x \in Charges, t \in CurrentTaxes}
OrderInputs == {Measured(q, p, 0, t) : q \in {x \in Quantities : x > 0},
                                        p \in {x \in Prices : x >= 0}, t \in CurrentTaxes}
Inputs == IF kind = "CLIENT" THEN ClientInputs
          ELSE IF kind = "ORDER" THEN OrderInputs ELSE SupplierInputs
-----------------------------------------------------------------------------
(* The header. *)

There(lines) == {n \in DOMAIN lines : lines[n] # NoLine}
SumOfTotals(lines) == SumFunction([n \in There(lines) |-> lines[n].total])
SumOfTaxes(lines) == SumFunction([n \in There(lines) |-> lines[n].tax])
SumOfDiscounts(lines) == SumFunction([n \in There(lines) |-> lines[n].discount])
SumWithoutTax(lines) == SumFunction([n \in There(lines) |-> lines[n].total - lines[n].tax])
SumOfProducts(lines) == SumFunction([n \in There(lines) |-> lines[n].quantity * lines[n].price])

(* Flat lines have no quantity, so the subtotal is what is left of the     *)
(* totals; elsewhere it is the exact sum of the products, rounded once.    *)
SupplierSubtotal(lines) == SumWithoutTax(lines)
ClientSubtotal(lines) == HalfUp(SumOfProducts(lines), 1000)
AlwaysSupplierSubtotal(lines) == SupplierSubtotal(lines)
Subtotal(lines) ==
  IF kind \in {"SUPPLIER", "CONTRACTOR"} THEN SupplierSubtotal(lines) ELSE ClientSubtotal(lines)

Totals(lines) ==
  [subtotal |-> Subtotal(lines),
   discount |-> SumOfDiscounts(lines),
   tax |-> SumOfTaxes(lines),
   total |-> SumOfTotals(lines)]

Recalculate(lines) ==
  /\ line' = lines
  /\ header' = Totals(lines)

AddLine(n) ==
  /\ status = "DRAFT" /\ line[n] = NoLine
  /\ \E l \in Inputs : Recalculate([line EXCEPT ![n] = ItemAmounts(l)])
  /\ UNCHANGED <<kind, rate, status, entry>>

(* A PATCH may leave anything as it was; a line made flat keeps its        *)
(* amounts unless they are entered too.  What is derived is derived again, *)
(* at today's rate.                                                        *)
MadeFlat(l) == FlatCharge(l.total, l.tax, l.taxed)
ChangeLine(n) ==
  /\ status = "DRAFT" /\ line[n] # NoLine
  /\ \E l \in Inputs \cup {line[n]} \cup
              (IF kind \in {"SUPPLIER", "CONTRACTOR"} THEN {MadeFlat(line[n])} ELSE {}) :
       Recalculate([line EXCEPT ![n] = ItemAmounts(l)])
  /\ UNCHANGED <<kind, rate, status, entry>>

DropLine(n) ==
  /\ status = "DRAFT" /\ line[n] # NoLine
  /\ Recalculate([line EXCEPT ![n] = NoLine])
  /\ UNCHANGED <<kind, rate, status, entry>>
-----------------------------------------------------------------------------
(* Tax rates change under the documents that use them.                     *)

ChangeRate(t) ==
  /\ rate[t] # Null
  /\ \E x \in Rates : rate' = [rate EXCEPT ![t] = x]
  /\ UNCHANGED <<kind, line, header, status, entry>>

(* on_delete=SET_NULL: lines lose the rate and keep their amounts.         *)
DeleteRate(t) ==
  /\ rate[t] # Null
  /\ rate' = [rate EXCEPT ![t] = Null]
  /\ line' = [n \in Lines |-> IF line[n].taxed = t THEN [line[n] EXCEPT !.taxed = Null]
                              ELSE line[n]]
  /\ UNCHANGED <<kind, header, status, entry>>
-----------------------------------------------------------------------------
(* Sending: the header, not the lines, is what is booked.                  *)

Posting(account, debit, credit) == [account |-> account, debit |-> debit, credit |-> credit]
AllOf(postings) == postings
MovingMoney(postings) == {p \in postings : p.debit # 0 \/ p.credit # 0}

ClientPostings ==
  MovingMoney({Posting("receivable", header.total, 0),
               Posting("revenue", 0, header.total - header.tax),
               Posting("tax payable", 0, header.tax)})
CostPostings == {Posting("cost", header.total, 0), Posting("payable", 0, header.total)}
Postings == IF kind = "CLIENT" THEN ClientPostings ELSE CostPostings

Debits(postings) == SumFunction([p \in postings |-> p.debit])
Credits(postings) == SumFunction([p \in postings |-> p.credit])
Balanced(postings) ==
  /\ \A p \in postings : p.debit >= 0 /\ p.credit >= 0 /\ (p.debit > 0 <=> p.credit = 0)
  /\ Debits(postings) = Credits(postings)

(* A document that bills nothing is sent without an entry; an order has    *)
(* none anyway.                                                            *)
Booked == kind # "ORDER" /\ header.total > 0
SendDocument ==
  /\ status = "DRAFT"
  /\ Booked => Balanced(Postings)
  /\ status' = "SENT"
  /\ entry' = IF Booked THEN Postings ELSE {}
  /\ UNCHANGED <<kind, rate, line, header>>
-----------------------------------------------------------------------------
PricingInit ==
  /\ kind \in Kinds
  /\ rate \in [Taxes -> Rates]
  /\ line = [n \in Lines |-> NoLine]
  /\ header = [subtotal |-> 0, discount |-> 0, tax |-> 0, total |-> 0]
  /\ status = "DRAFT"
  /\ entry = {}

PricingNext ==
  \/ \E n \in Lines : AddLine(n) \/ ChangeLine(n) \/ DropLine(n)
  \/ \E t \in Taxes : ChangeRate(t) \/ DeleteRate(t)
  \/ SendDocument

PricingSpec == PricingInit /\ [][PricingNext]_pricingVars
-----------------------------------------------------------------------------
(* Amounts are whole cents, quantities whole thousandths, and a line is at *)
(* a rate that still exists.                                               *)
LineRecord ==
  [quantity : Int \cup {Null}, price : Int \cup {Null}, discount : Int,
   taxed : CurrentTaxes, tax : Int \cup {Null}, total : Int \cup {Null}]
PricingTypeOK ==
  /\ kind \in Kinds /\ rate \in [Taxes -> Rates \cup {Null}]
  /\ line \in [Lines -> LineRecord]
  /\ header \in [subtotal : Int, discount : Int, tax : Int, total : Int]
  /\ status \in {"DRAFT", "SENT"}
  /\ \A p \in entry : {p.debit, p.credit} \subseteq Int

(* The header is one that a reader can check: subtotal less discount plus  *)
(* tax is the total, exactly where flat charges are allowed, and within    *)
(* half a cent for each line and one for the sum where the subtotal is     *)
(* rounded separately, whatever happened to the tax rates meanwhile        *)
(* (recalculate_client_invoice_totals, recalculate_po_totals).             *)
HeaderAddsUp ==
  LET off == header.subtotal - header.discount + header.tax - header.total
      bound == IF kind \in {"SUPPLIER", "CONTRACTOR"} THEN 0 ELSE Cardinality(Present) + 1
  IN  2 * off \in (-bound)..bound

(* An invoice of ordinary lines can be sent, with or without tax, and the  *)
(* entry of a sent one says what its lines bill: the tax as tax, the rest  *)
(* as revenue or the whole as cost, however rates have changed since the   *)
(* lines were saved (book_client_invoice, _invoice_lines).                 *)
Ordinary(l) ==
  IF l.quantity = Null THEN 0 <= l.tax /\ l.tax <= l.total
  ELSE l.quantity > 0 /\ l.price >= 0 /\ 0 <= l.discount /\ l.discount <= Gross(l)
Credited(account) == Credits({p \in entry : p.account = account})
BillsAreBooked ==
  /\ Booked /\ (\A n \in Present : Ordinary(line[n])) => Balanced(Postings)
  /\ entry # {} =>
       IF kind = "CLIENT"
       THEN /\ Credited("tax payable") = SumOfTaxes(line)
            /\ Credited("revenue") = SumWithoutTax(line)
       ELSE Credited("payable") = SumOfTotals(line)
=============================================================================
