--------------------------- MODULE MCAccessControl ---------------------------
(* Small instances of AccessControl. *)
EXTENDS AccessControl, TLC

CONSTANTS u1, u2, h1, h2

ThreadSymmetry == Permutations({h1, h2}) \cup Permutations({u1, u2})
=============================================================================
