---------------------------- MODULE MCReceiving ----------------------------
(* Small instances of Receiving: who is sent which operations. *)
EXTENDS Receiving, TLC

CONSTANTS o1, l1, l2, m1, w1, w2, r1, r2

OneMaterial == [l \in Lines |-> m1]

(* One purchasing clerk; the other one works in the warehouses. *)
OneBuyer == [r \in Requests |-> IF r = r1 THEN OrderOps \cup LineOps ELSE StockOps]

ASSUME OneBuyerIsAlone == BuyersAlone /\ LinesStayPut

Alike == Permutations(Orders) \cup Permutations(Warehouses) \cup Permutations(Lines)
=============================================================================
