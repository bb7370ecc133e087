----------------------------- MODULE MCAccounts -----------------------------
(* An instance of Accounts: owners at work, and passwords.                 *)
EXTENDS Accounts, TLC

CONSTANTS r1, r2, u1, u2, l1

Staffing == {"create", "bridge", "update", "activate", "deactivate", "destroy"}
Passwords == {"create", "login", "profile", "password", "set password", "link", "reset"}
Work == {Staffing, Passwords}

(* What takes an owner away is requested one at a time. *)
Harmless == {{op1, op2} : op1 \in AllOps, op2 \in AllOps \ Removing}

(* What leaves role and flag alone shares an account, but for a reset with *)
(* another one and with a save of the whole row.                           *)
Quiet == AllOps \ Changes
Together == {{op1, op2} : op1, op2 \in Quiet} \ {{"reset"}, {"reset", "profile"}}

(* A worker that dies after a save leaves no audit entry. *)
BeforeSaving == {"read", "snapped"}

ASSUME StaffTakeTurns == DeathsAreEarly /\ OwnersTakeTurns
ASSUME VisitorsTakeTurns == LinksTakeTurns

Alike == Permutations(Workers) \cup Permutations(Usernames) \cup Permutations(Links)
=============================================================================
