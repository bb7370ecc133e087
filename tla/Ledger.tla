------------------------------ MODULE Ledger ------------------------------
(***************************************************************************)
(* What the automatic journal promises the rest of the application.  Each  *)
(* source document contributes at most one amount to the general ledger.   *)
(* It is booked while there is none, and its amount stays as booked until  *)
(* the entry is voided; a voided source may be booked again.  Only the     *)
(* entry of a restated source, a payment, is replaced by one of another    *)
(* amount, and then in one step: nobody sees the ledger without it.        *)
(***************************************************************************)
EXTENDS Integers

CONSTANTS
  Sources,    \* the documents that are recognised in the ledger
  Restated,   \* those whose entry follows a growing document
  Amounts     \* the positive amounts

VARIABLE booked   \* what each source contributes; 0 when nothing

Init == booked = [s \in Sources |-> 0]

Book(s) ==
  /\ booked[s] = 0
  /\ \E a \in Amounts : booked' = [booked EXCEPT ![s] = a]

Void(s) ==
  /\ booked[s] # 0
  /\ booked' = [booked EXCEPT ![s] = 0]

Restate(s) ==
  /\ s \in Restated
  /\ booked[s] # 0
  /\ \E a \in Amounts : booked' = [booked EXCEPT ![s] = a]

Next == \E s \in Sources : Book(s) \/ Void(s) \/ Restate(s)

Spec == Init /\ [][Next]_booked
=============================================================================
