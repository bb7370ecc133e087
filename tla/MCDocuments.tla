---------------------------- MODULE MCDocuments ----------------------------
(* An instance of Documents: two workers, three documents, one file name.  *)
EXTENDS Documents, TLC

CONSTANTS w1, w2, d1, d2, d3, plan

Alike == Permutations({w1, w2}) \cup Permutations({d1, d2, d3})
=============================================================================
