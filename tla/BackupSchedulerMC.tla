------------------------- MODULE BackupSchedulerMC --------------------------
(***************************************************************************)
(* Instances of BackupScheduler for TLC: handlers are interchangeable.     *)
(***************************************************************************)
EXTENDS BackupScheduler, TLC

HandlerSymmetry == Permutations(Handlers)
=============================================================================
