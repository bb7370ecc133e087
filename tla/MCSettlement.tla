--------------------------- MODULE MCSettlement ---------------------------
(***************************************************************************)
(* Small instances of Settlement: which operations clients request, and    *)
(* who bills whom.                                                         *)
(***************************************************************************)
EXTENDS Settlement, TLC

CONSTANTS i1, i2, p1, p2, r1, r2, acme

(* One client for every invoice. *)
OneClient == [x \in Invoices \cup Parties |-> "CLIENT"]

(* Every invoice from one supplier. *)
OneSupplier == [x \in Invoices \cup Parties |-> "SUPPLIER"]

(* All but the void of entries by hand. *)
NoHandVoid == AllOps \ {"void"}

(* A draft may come to bill less than nothing. *)
Credit == -1

(* What decides on a copy of the invoice that nothing keeps current. *)
Unprotected == Copying
Nothing == {}

(* Operations whose interleavings matter most. *)
PayAndVoid == {"send", "delete", "pay", "allocate", "void"}

ASSUME CarefulOrRacing == Careful \/ Ops = PayAndVoid

(* Workers are interchangeable. *)
Workers == Permutations(Requests)
=============================================================================
