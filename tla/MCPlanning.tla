----------------------------- MODULE MCPlanning -----------------------------
(* An instance of Planning: three workloads, and which operations meet.    *)
EXTENDS Planning, TLC

CONSTANTS r1, r2, p1, f1, f2, b1, b2, i1, i2

(* Projects, phases and budgets are worked on in different behaviours: no  *)
(* operation touches two of them.                                          *)
Separate ==
  {{"new project", "patch", "archive"}, {"new phase", "drop phase", "patch", "reorder"},
   {"new budget", "patch", "retotal", "item", "edit item", "drop item", "drop budget"}}

(* What stays right side by side: everything but two validations against   *)
(* one remainder, and full-row saves of one row.                           *)
Harmless ==
  {{op1, op2} : op1 \in {"item", "edit item"}, op2 \in {"patch", "drop item", "drop budget"}}
  \cup {{"retotal", "drop item"}, {"archive"}, {"archive", "patch"},
        {"reorder"}, {"reorder", "drop phase"}, {"reorder", "new phase"}, {"patch", "drop phase"},
        {"patch", "new phase"}}

(* A budget may be created with a total below zero. *)
Debt == -1

ASSUME PlannersTakeTurns == SaversTakeTurns /\ PlacesTakeTurns /\ BudgetsTakeTurns

Alike == Permutations(Phases) \cup Permutations(Budgets) \cup Permutations(Items)
=============================================================================
