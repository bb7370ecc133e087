------------------------------ MODULE MCAlerts ------------------------------
(* An instance of Alerts: one user whose role changes, and one thing to be *)
(* told about, of each kind in turn.                                       *)
EXTENDS Alerts

CONSTANTS r1, r2, ann, s1

ASSUME RunsTakeTurns == OneRunAtATime
=============================================================================
