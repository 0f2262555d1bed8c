------------------------------ MODULE MCRestore ------------------------------
(* Small instances of Restore for TLC. *)
EXTENDS Restore, TLC

Symmetry == Permutations(Restorers) \cup Permutations(Versions)
=============================================================================
