----------------------------- MODULE MCPricing -----------------------------
(* An instance of Pricing: few amounts, chosen so that halves are rounded. *)
EXTENDS Pricing, TLC

CONSTANTS n1, n2, t1

HalvesAndWholes == {-500, 500, 2000}
Alike == Permutations(Lines)
=============================================================================
