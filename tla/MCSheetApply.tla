---------------------------- MODULE MCSheetApply ----------------------------
(* A small instance of SheetApply for TLC. *)
EXTENDS SheetApplyProperties, TLC

CONSTANTS r1, r2, c1, c2, k1, k2

Symmetry == Permutations({c1, c2}) \cup Permutations({k1, k2}) \cup Permutations({r1, r2})
=============================================================================
