----------------------------- MODULE MCAttempts -----------------------------
(* An instance of Attempts for TLC: two questions with two options.  In the  *)
(* first edition option 0 of q1 is marked and no option of q2; then the      *)
(* owner marks option 1 of q1 instead, and option 0 of q2.                   *)
EXTENDS AttemptsProofs

CONSTANTS q1, q2

MCBanks == <<[q \in Questions |-> IF q = q1 THEN 0 ELSE None],
             [q \in Questions |-> IF q = q1 THEN 1 ELSE 0]>>
=============================================================================
