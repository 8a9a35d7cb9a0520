------------------------------ MODULE MCSessions ------------------------------
(* Small instances of Sessions. *)
EXTENDS Sessions, TLC

CONSTANTS t1, t2

TabSymmetry == Permutations({t1, t2})
=============================================================================
