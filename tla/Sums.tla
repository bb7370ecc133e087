------------------------------- MODULE Sums -------------------------------
(***************************************************************************)
(* SQL's SUM over a finite family of amounts, counted unit by unit: the    *)
(* amount f[x] is the column of units <<x, 1>> .. <<x, f[x]>>, and the sum *)
(* of the family is the number of its units.  There is no recursion in     *)
(* this definition, so the prover can reason about it (see SumsProofs).    *)
(***************************************************************************)
EXTENDS Integers, FiniteSets

UnitsOf(f) == UNION {{x} \X (1..f[x]) : x \in DOMAIN f}

SumOf(f) == Cardinality(UnitsOf(f))

=============================================================================
