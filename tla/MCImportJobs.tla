----------------------------- MODULE MCImportJobs -----------------------------
(* Small instances of ImportJobs. *)
EXTENDS ImportJobs, TLC

CONSTANTS u1, u2, e1, a1, a2

Symmetry == Permutations({u1, u2}) \cup Permutations({a1, a2})
=============================================================================
