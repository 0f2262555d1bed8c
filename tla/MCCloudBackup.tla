--------------------------- MODULE MCCloudBackup ---------------------------
(***************************************************************************)
(* Small instances of CloudBackup for TLC.  Times and keys are compared    *)
(* only for equality, and the backups are alike, so all three sets are     *)
(* symmetric (used by the runs without liveness).                          *)
(***************************************************************************)
EXTENDS CloudBackup, TLC

Symmetry ==
  Permutations(Backups) \cup Permutations(Mtimes) \cup Permutations(Keys)
=============================================================================
