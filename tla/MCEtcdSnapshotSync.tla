-------------------------- MODULE MCEtcdSnapshotSync --------------------------
(***************************************************************************)
(* Small instances of the snapshot sync controller for TLC.  Machine m1    *)
(* is in cluster c1 at first; m2, and m1 once it is deleted, may be        *)
(* created in either cluster, with a node of the same name as that of m1   *)
(* or in its place.  Snapshot files of two clusters may have one name too. *)
(***************************************************************************)
EXTENDS EtcdSnapshotSync

CONSTANTS c1, c2, m1, m2, f1, f2

\* Every machine may be in either cluster, where its node is called n1.
MCMachineLives == [m \in Machines |-> [cluster : Clusters, node : {"n1"}]]

MCInitialMachine ==
  [m \in Machines |-> IF m = m1 THEN [cluster |-> c1, node |-> "n1"] ELSE None]

\* The snapshot f2 was taken on a node that no machine has.
MCFileNode == [p \in SnapshotFiles |-> IF p[2] = f2 THEN "n2" ELSE "n1"]

OneFile == {<<c1, f1>>}

\* Two files of one cluster, and one of another cluster that has the name of the first.
AllFiles == {<<c1, f1>>, <<c1, f2>>, <<c2, f1>>}
===============================================================================
