----------------------- MODULE MCEtcdSnapshotRestore -----------------------
(***************************************************************************)
(* Small instances of the restore controller for TLC.  Backup b1 is a good *)
(* one, taken on m1.  The others are the backups a restore cannot use: b2  *)
(* has no location, the machine of b3 has no internal address, and the     *)
(* machine of b4 is not part of the cluster any more.                      *)
(***************************************************************************)
EXTENDS RestoreRefinement

CONSTANTS m1, m2, m3, b1, b2, b3, b4

MCBackupMachine == [b \in Backups |-> CASE b = b3 -> m2 [] b = b4 -> m3 [] OTHER -> m1]

MCBackupLocation ==
  [b \in Backups |-> [scheme |-> IF b = b2 THEN "unset" ELSE "file", path |-> b]]
=============================================================================
