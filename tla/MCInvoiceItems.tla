-------------------------- MODULE MCInvoiceItems --------------------------
(* Small instances of InvoiceItems: which operations clients request. *)
EXTENDS InvoiceItems, TLC

CONSTANTS i1, i2, x1, x2, r1, r2

Everything == ItemOps
NotSideBySide == {"move", "destroy", "send", "patch"}

ASSUME OneAtATime == OthersAlone /\ SendAndMoveAlone

Symmetry == Permutations(Requests) \cup Permutations(Items)
=============================================================================
