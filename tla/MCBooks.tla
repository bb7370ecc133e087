------------------------------ MODULE MCBooks ------------------------------
(* An instance of Books: which operations clients request, and which meet. *)
EXTENDS Books, TLC

CONSTANTS r1, r2, e1, e2, k1, k2, cash, cost, sales, s1, s2, s3

Types == [a \in Accounts |-> IF a = cost THEN "expense"
                             ELSE IF a = sales THEN "revenue" ELSE "other"]

Pounds == {[account |-> cost, amount |-> 1], [account |-> cash, amount |-> -1]}

DraftAndMove == {"draft", "add", "post", "move"}

(* What decides on a copy that nothing keeps current; payments and voids    *)
(* meet freely.                                                            *)
Unprotected == AllOps \ {"record", "draft", "pay", "void", "category"}
Nothing == {}

ASSUME ProtectedButForTheMove == "POSTED" \notin MoveInto => Protected

Alike == Permutations(Requests) \cup Permutations(Expenses) \cup Permutations(Entries)
           \cup Permutations(Slots)
=============================================================================
