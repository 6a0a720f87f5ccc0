--------------------------- MODULE MCBackupRestore ---------------------------
(* Two pages, so that a transaction, a copy and a restore can each be half *)
(* done; the faults let each of the three be cut short in one run.         *)
EXTENDS BackupRestore, TLC

MCSymmetry == Permutations(Pages)
=============================================================================
