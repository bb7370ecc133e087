--------------------------- MODULE MCChangeOrders ---------------------------
(* A small instance of ChangeOrders: who is sent what. *)
EXTENDS ChangeOrders

CONSTANTS r1, r2, p1, p2, c1, c2

(* Two desks: each decides on its own change order.  The first also enters *)
(* both, the second one's for project p1, and keeps project p2.            *)
TwoDesks ==
  [r \in Requests |->
    IF r = r1 THEN (DecideOps \cup {"reword"}) \X {c1}
                   \cup {<<"create", <<c1, p1>>>>, <<"create", <<c1, p2>>>>, <<"create", <<c2, p1>>>>}
                   \cup {<<"patch", p2>>}
    ELSE DecideOps \X {c2}]

ASSUME TwoDesksAreSeparate == SeparateDesks /\ OneEditor

(* Additions of two sizes and a deduction. *)
FewAmounts == {-1, 1, 2}
FewValues == {1, 3}
=============================================================================
