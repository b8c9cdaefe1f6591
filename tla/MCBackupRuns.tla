------------------------------ MODULE MCBackupRuns ------------------------------
(* Instances of BackupRuns for TLC.                                          *)
EXTENDS BackupRuns, TLC

\* Calls of startTask are interchangeable, and so are operator requests.
MCSymmetry == Permutations(Callers) \cup Permutations(Operators)
================================================================================
