-------------------------- MODULE RestoreRefinement --------------------------
(***************************************************************************)
(* The restore controller, with its caches, conflicts, failures, restarts  *)
(* and agents, implements RestoreProtocol for a cluster that has one       *)
(* restore and whose machines stay the same.                               *)
(***************************************************************************)
EXTENDS EtcdSnapshotRestore

TheRestore == CHOOSE r \in Restores : TRUE

\* The machine of the restore's backup, once there is a restore.
Target ==
  LET b == restore[TheRestore].backup IN IF b = None THEN None ELSE BackupMachine[b]

Protocol == INSTANCE RestoreProtocol WITH
  Machines <- InitialMachines,
  target   <- Target,
  phase    <- restore[TheRestore].phase,
  up       <- {m \in InitialMachines : node[m].rke2},
  reset    <- Target # None /\ node[Target].lineage = Target

\* Every step of a reconcile, an agent, an informer or a failure is a step of the
\* restore as promised, or changes nothing of it: no step leaves out, repeats or
\* anticipates a part of "stop all, reset one, start it, let the others join, unpause".
ImplementsProtocol == Protocol!Spec
==============================================================================
