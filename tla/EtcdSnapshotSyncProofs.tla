------------------------ MODULE EtcdSnapshotSyncProofs ------------------------
(***************************************************************************)
(* What the snapshot sync controller guarantees for any number of          *)
(* clusters, machines, snapshot files and events.                          *)
(***************************************************************************)
EXTENDS EtcdSnapshotSync, TLAPS

\* A reconcile works on files of its own cluster; what it saw as ready was reported; and
\* the machine it is about to name is one that has had the file's node since, though it
\* may be gone by then, and the file too.
SyncInv ==
  /\ sync.pc \in {"loop", "create"} => /\ sync.cluster \in Clusters
                                       /\ \A f \in sync.todo : <<sync.cluster, f>> \in SnapshotFiles
  /\ \A p \in SnapshotFiles : sync.seen[p] = "ready" => p \in reported
  /\ sync.pc = "create" =>
       /\ sync.file \in sync.todo /\ sync.machine \in Machines
       /\ <<sync.cluster, sync.file>> \in reported
       /\ sync.machine \in hosts[<<sync.cluster, sync.file>>]

\* The history is that of the files and the machines.
PastInv ==
  /\ \A p \in SnapshotFiles : file[p] = "ready" => p \in reported
  /\ \A p \in reported : HostsOf(machine, p) \subseteq hosts[p]

IInv == TypeOK /\ SyncInv /\ PastInv /\ BackupIsRestorable

Syncs ==
  [pc : {"idle", "loop", "create", "panic"}, cluster : Clusters \cup {None},
   seen : [SnapshotFiles -> FileStates], todo : SUBSET FileNames,
   file : FileNames \cup {None}, machine : Machines \cup {None}]

\* The state of no reconcile, and of a panic.
LEMMA IdleSyncType ==
  ASSUME NEW pc \in {"idle", "panic"}
  PROVE  [IdleSync EXCEPT !.pc = pc] \in Syncs
  BY DEF IdleSync, Syncs, FileStates

\* A step that ends the reconcile, and keeps files and backups, keeps the invariant.
LEMMA EndsReconcile ==
  ASSUME IInv, NEW pc \in {"idle", "panic"}, sync' = [IdleSync EXCEPT !.pc = pc],
         UNCHANGED <<cluster, machine, file, backup, past>>,
         watched' \subseteq Clusters, queue' \subseteq Clusters, events' \in Nat
  PROVE  IInv'
<1>1. TypeOK'
  BY IdleSyncType DEF IInv, TypeOK, Syncs, past
<1>2. SyncInv'
  <2>1. sync'.pc = pc /\ sync'.seen = [p \in SnapshotFiles |-> "absent"]
    BY DEF IdleSync
  <2> QED
    BY <2>1 DEF SyncInv
<1>3. PastInv' /\ BackupIsRestorable'
  BY DEF IInv, PastInv, HostsOf, BackupIsRestorable, past
<1> QED
  BY <1>1, <1>2, <1>3 DEF IInv

\* A step that ends no reconcile and makes no backup keeps the invariant if it forgets
\* nothing of the past.
LEMMA PastKept ==
  ASSUME IInv, UNCHANGED <<sync, backup>>, TypeOK', PastInv',
         reported \subseteq reported', \A p \in SnapshotFiles : hosts[p] \subseteq hosts'[p]
  PROVE  IInv'
<1>1. SyncInv'
  <2>1. reported \subseteq SnapshotFiles
    BY DEF IInv, TypeOK
  <2> QED
    BY <2>1 DEF IInv, SyncInv
<1>2. BackupIsRestorable'
  <2> SUFFICES ASSUME NEW f \in FileNames, backup[f] # None
               PROVE  backup[f].location \in reported' /\ backup[f].machine \in hosts'[backup[f].location]
    BY DEF IInv, BackupIsRestorable
  <2>1. /\ backup[f].location \in SnapshotFiles /\ backup[f].location \in reported
        /\ backup[f].machine \in hosts[backup[f].location]
    BY DEF IInv, TypeOK, BackupIsRestorable
  <2> QED
    BY <2>1
<1> QED
  BY <1>1, <1>2 DEF IInv

\* A change of the files or the machines adds to the history and leaves it complete.
LEMMA Remembers ==
  ASSUME TypeOK, Remember, file' \in [SnapshotFiles -> FileStates]
  PROVE  /\ reported' \subseteq SnapshotFiles /\ hosts' \in [SnapshotFiles -> SUBSET Machines]
         /\ reported \subseteq reported' /\ \A p \in SnapshotFiles : hosts[p] \subseteq hosts'[p]
         /\ PastInv'
<1>1. reported \subseteq SnapshotFiles /\ hosts \in [SnapshotFiles -> SUBSET Machines]
  BY DEF TypeOK
<1>2. ASSUME NEW p \in SnapshotFiles PROVE HostsOf(machine', p) \subseteq Machines
  BY DEF HostsOf
<1>3. reported' \subseteq SnapshotFiles /\ reported \subseteq reported'
  BY <1>1 DEF Remember
<1>4. ASSUME NEW p \in SnapshotFiles
      PROVE  hosts'[p] = IF p \in reported' THEN hosts[p] \cup HostsOf(machine', p) ELSE hosts[p]
  BY DEF Remember
<1>5. hosts' \in [SnapshotFiles -> SUBSET Machines]
  BY <1>1, <1>2 DEF Remember
<1>6. PastInv'
  BY <1>3, <1>4 DEF PastInv, Remember, HostsOf
<1> QED
  BY <1>3, <1>4, <1>5, <1>6

\* The initial state satisfies the invariant.
LEMMA SyncInit == Init => IInv
<1> SUFFICES ASSUME Init PROVE IInv
  OBVIOUS
<1>1. IdleSync = [IdleSync EXCEPT !.pc = "idle"] /\ IdleSync \in Syncs
  BY IdleSyncType DEF IdleSync
<1>2. TypeOK
  BY <1>1, SyncNames DEF Init, TypeOK, Syncs, FileStates
<1>3. SyncInv /\ PastInv
  BY DEF Init, SyncInv, IdleSync, PastInv
<1>4. BackupIsRestorable
  BY DEF Init, BackupIsRestorable
<1> QED
  BY <1>2, <1>3, <1>4 DEF IInv

\* Every step of a reconcile keeps the invariant.  CreateBackup is where it is needed:
\* all that the new backup says was read some calls before.
LEMMA SyncWorker ==
  ASSUME IInv, Worker \/ \E c \in Clusters : SkipCluster(c) \/ ListFiles(c)
  PROVE  IInv'
<1> USE DEF IInv
<1>0. sync \in Syncs /\ file \in [SnapshotFiles -> FileStates]
  BY DEF TypeOK, Syncs
<1>1. ASSUME sync.pc = "loop", NEW f \in sync.todo, Skip(f), SyncOnly PROVE IInv'
  <2>1. sync' \in Syncs /\ SyncInv'
    BY <1>0, <1>1 DEF Skip, Syncs, SyncInv, SyncOnly, past, FileStates
  <2>2. TypeOK'
    BY <1>1, <2>1 DEF TypeOK, Syncs, SyncOnly, past
  <2> QED
    BY <1>1, <2>1, <2>2 DEF SyncOnly, past, PastInv, HostsOf, BackupIsRestorable
<1>2. ASSUME NEW c \in Clusters, SkipCluster(c) PROVE IInv'
  <2>1. CASE UNCHANGED sync
    BY <1>2, <2>1 DEF SkipCluster, TypeOK, SyncInv, PastInv, HostsOf, past, BackupIsRestorable
  <2>2. CASE sync' = [IdleSync EXCEPT !.pc = "panic"]
    BY <1>2, <2>2, EndsReconcile DEF SkipCluster, TypeOK
  <2> QED
    BY <1>2, <2>1, <2>2 DEF SkipCluster
<1>3. ASSUME NEW c \in Clusters, ListFiles(c) PROVE IInv'
  <2>0. [p \in SnapshotFiles |-> IF p[1] = c THEN file[p] ELSE "absent"] \in [SnapshotFiles -> FileStates]
    BY <1>0 DEF FileStates
  <2>1. sync' \in Syncs
    BY <1>3, <2>0 DEF ListFiles, IdleSync, Syncs, Present
  <2>2. TypeOK'
    BY <1>3, <2>1, ZenonT(60) DEF ListFiles, TypeOK, Syncs, past
  <2>3. SyncInv'
    BY <1>3 DEF ListFiles, IdleSync, SyncInv, PastInv, Present, past
  <2> QED
    BY <1>3, <2>2, <2>3 DEF ListFiles, PastInv, HostsOf, past, BackupIsRestorable
<1>4. ASSUME NEW f \in FileNames, MalformedFile(f) PROVE IInv'
  <2>1. sync' = [IdleSync EXCEPT !.pc = "idle"]
    BY <1>4 DEF MalformedFile, ReturnError, IdleSync
  <2> QED
    BY <1>4, <2>1, EndsReconcile DEF MalformedFile, ReturnError, TypeOK, SyncInv
<1>5. ASSUME NEW f \in FileNames, FileNotReady(f) PROVE IInv'
  BY <1>1, <1>5 DEF FileNotReady
<1>6. ASSUME NEW f \in FileNames, findMachineForBackup(f) PROVE IInv'
  <2>1. sync.pc = "loop" /\ f \in sync.todo /\ Seen(f) = "ready" /\ SyncOnly
    BY <1>6 DEF findMachineForBackup
  <2>2. ASSUME NEW m \in MachineOfFile(f),
               sync' = [sync EXCEPT !.pc = "create", !.file = f, !.machine = m]
        PROVE  IInv'
    <3>1. m \in Machines /\ m \in HostsOf(machine, <<sync.cluster, f>>)
      BY DEF MachineOfFile, OwnMachines, HostsOf
    <3>2. <<sync.cluster, f>> \in SnapshotFiles /\ <<sync.cluster, f>> \in reported
      BY <2>1 DEF SyncInv, Seen
    <3>3. m \in hosts[<<sync.cluster, f>>]
      BY <3>1, <3>2 DEF PastInv
    <3>4. sync' \in Syncs
      BY <1>0, <2>2, <3>1 DEF Syncs
    <3>5. SyncInv'
      BY <1>0, <2>1, <2>2, <3>1, <3>2, <3>3 DEF SyncInv, SyncOnly, Syncs, past
    <3>6. TypeOK'
      BY <2>1, <3>4 DEF TypeOK, Syncs, SyncOnly, past
    <3> QED
      BY <2>1, <3>5, <3>6 DEF SyncOnly, PastInv, HostsOf, past, BackupIsRestorable
  <2>3. CASE sync' = [IdleSync EXCEPT !.pc = "panic"]
    BY <2>1, <2>3, EndsReconcile DEF SyncOnly, TypeOK
  <2>4. CASE Skip(f)
    BY <1>1, <2>1, <2>4
  <2> QED
    BY <1>6, <2>2, <2>3, <2>4 DEF findMachineForBackup
<1>7. CASE CreateBackup
  <2>1. /\ sync.cluster \in Clusters /\ sync.file \in FileNames /\ sync.machine \in Machines
        /\ <<sync.cluster, sync.file>> \in SnapshotFiles
        /\ <<sync.cluster, sync.file>> \in reported
        /\ sync.machine \in hosts[<<sync.cluster, sync.file>>]
    BY <1>0, <1>7 DEF CreateBackup, SyncInv, Syncs
  <2>2. sync' \in Syncs /\ SyncInv'
    BY <1>0, <1>7, <2>1 DEF CreateBackup, Skip, Syncs, SyncInv, past, FileStates
  <2>3. NewBackup \in [cluster : Clusters, machine : Machines, location : SnapshotFiles]
    BY <2>1 DEF NewBackup
  <2>4. TypeOK'
    BY <1>7, <2>1, <2>2, <2>3 DEF CreateBackup, TypeOK, Syncs, past
  <2>5. BackupIsRestorable'
    <3> SUFFICES ASSUME NEW f \in FileNames, backup'[f] # None, NEW b, b = backup'[f]
                 PROVE  /\ b.location = <<b.cluster, f>>
                        /\ b.location \in reported' /\ b.machine \in hosts'[b.location]
      BY DEF BackupIsRestorable
    <3>1. UNCHANGED <<reported, hosts>>
      BY <1>7 DEF CreateBackup, past
    <3>2. CASE backup'[f] = backup[f]
      BY <3>1, <3>2 DEF BackupIsRestorable
    <3>3. CASE f = sync.file /\ b = NewBackup
      BY <2>1, <3>1, <3>3 DEF NewBackup
    <3> QED
      BY <1>7, <2>1, <3>2, <3>3 DEF CreateBackup, TypeOK
  <2>6. PastInv'
    BY <1>7 DEF CreateBackup, PastInv, HostsOf, past
  <2> QED
    BY <2>2, <2>4, <2>5, <2>6
<1>8. CASE EndOfFiles
  <2>1. sync' = [IdleSync EXCEPT !.pc = "idle"]
    BY <1>8 DEF EndOfFiles, IdleSync
  <2> QED
    BY <1>8, <2>1, EndsReconcile DEF EndOfFiles, SyncOnly, TypeOK
<1>9. CASE Restart
  <2>1. sync' = [IdleSync EXCEPT !.pc = "idle"]
    BY <1>9 DEF Restart, IdleSync
  <2> QED
    BY <1>9, <2>1, EndsReconcile DEF Restart, TypeOK
<1> QED
  BY <1>2, <1>3, <1>4, <1>5, <1>6, <1>7, <1>8, <1>9 DEF Worker

\* So does everything else: whatever goes away stays in the history.
LEMMA SyncEnvironment == ASSUME IInv, Environment PROVE IInv'
<1> DEFINE ClusterObjects == [exists : BOOLEAN, paused : BOOLEAN, ready : BOOLEAN,
                              controlPlane : {"nil", "other", "RKE2ControlPlane"}]
<1>0. /\ cluster \in [Clusters -> ClusterObjects] /\ TypeOK
      /\ watched \subseteq Clusters /\ queue \subseteq Clusters /\ events \in Nat
  BY DEF IInv, TypeOK
<1>1. ASSUME NEW c \in Clusters, NEW cl \in ClusterObjects, ClusterEvent(c, cl), events' \in Nat
      PROVE  IInv'
  <2>1. TypeOK' /\ UNCHANGED <<sync, backup, file, machine, reported, hosts>>
    BY <1>0, <1>1 DEF ClusterEvent, TypeOK, past
  <2>2. PastInv'
    BY <2>1 DEF IInv, PastInv, HostsOf
  <2> QED
    BY <2>1, <2>2, PastKept
<1>2. ASSUME NEW c \in Clusters, ControlPlaneReady(c) \/ Pause(c) \/ Unpause(c) \/ DeleteCluster(c)
      PROVE  IInv'
  <2>1. events' \in Nat
    BY <1>0, <1>2 DEF ControlPlaneReady, Pause, Unpause, DeleteCluster, Event
  <2>2. cluster[c] \in ClusterObjects
    BY <1>0
  <2>3. /\ [cluster[c] EXCEPT !.ready = TRUE] \in ClusterObjects
        /\ [cluster[c] EXCEPT !.paused = TRUE] \in ClusterObjects
        /\ [cluster[c] EXCEPT !.paused = FALSE] \in ClusterObjects
        /\ [cluster[c] EXCEPT !.exists = FALSE] \in ClusterObjects
    BY <2>2
  <2> HIDE DEF ClusterObjects
  <2>4. \E cl \in ClusterObjects : ClusterEvent(c, cl)
    BY <1>2, <2>3 DEF ControlPlaneReady, Pause, Unpause, DeleteCluster
  <2> QED
    BY <1>1, <2>1, <2>4
<1>3. ASSUME NEW c \in Clusters, NEW kind \in {"nil", "other", "RKE2ControlPlane"},
             ChangeControlPlane(c, kind)
      PROVE  IInv'
  <2>1. events' \in Nat
    BY <1>0, <1>3 DEF ChangeControlPlane, Event
  <2>2. [cluster[c] EXCEPT !.controlPlane = kind] \in ClusterObjects
    BY <1>0
  <2> QED
    BY <1>1, <1>3, <2>1, <2>2 DEF ChangeControlPlane
<1>4. ASSUME NEW m \in Machines, CreateMachine(m) \/ NodeAppears(m) \/ DeleteMachine(m)
      PROVE  IInv'
  <2> DEFINE MachineObjects == [cluster : Clusters, node : Nodes \cup {None}]
  <2>1. \A life \in MachineLives[m] : life \in MachineObjects /\ [life EXCEPT !.node = None] \in MachineObjects
    <3>1. \A life \in MachineLives[m] : life \in [cluster : Clusters, node : Nodes]
      BY SyncNames
    <3> QED
      BY <3>1
  <2>2. PICK new \in {None} \cup MachineObjects : ChangeMachine(m, new)
    <3> HIDE DEF MachineObjects
    <3> QED
      BY <1>4, <2>1 DEF CreateMachine, NodeAppears, DeleteMachine
  <2>3. machine' \in [Machines -> {None} \cup MachineObjects]
    <3>1. machine \in [Machines -> {None} \cup MachineObjects]
      BY <1>0 DEF TypeOK
    <3> QED
      BY <2>2, <3>1 DEF ChangeMachine
  <2>4. UNCHANGED <<cluster, file, backup, watched, queue, sync>> /\ Remember
    BY <2>2 DEF ChangeMachine
  <2>5. events' \in Nat
    BY <1>0, <1>4 DEF CreateMachine, NodeAppears, DeleteMachine, Event
  <2>6. file' \in [SnapshotFiles -> FileStates]
    BY <1>0, <2>4 DEF TypeOK
  <2>7. TypeOK'
    BY <1>0, <2>3, <2>4, <2>5, <2>6, Remembers DEF TypeOK
  <2> QED
    BY <1>0, <2>4, <2>6, <2>7, Remembers, PastKept
<1>5. ASSUME NEW p \in SnapshotFiles,
             TakeSnapshot(p[1], p[2]) \/ WriteStatus(p[1], p[2]) \/ PruneSnapshot(p[1], p[2])
      PROVE  IInv'
  <2>1. p = <<p[1], p[2]>> /\ p[1] \in Clusters
    BY SyncNames
  <2>2. PICK state \in FileStates : FileEvent(p[1], p[2], state)
    BY <1>5 DEF TakeSnapshot, WriteStatus, PruneSnapshot, FileStates
  <2>3. file' = [file EXCEPT ![p] = state]
    BY <2>1, <2>2 DEF FileEvent
  <2>4. file' \in [SnapshotFiles -> FileStates]
    BY <1>0, <2>3 DEF TypeOK
  <2>5. events' \in Nat
    BY <1>0, <1>5 DEF TakeSnapshot, WriteStatus, PruneSnapshot, Event
  <2>6. /\ UNCHANGED <<cluster, machine, backup, watched, sync>> /\ Remember
        /\ queue' \subseteq Clusters
    BY <1>0, <2>1, <2>2 DEF FileEvent
  <2>7. TypeOK'
    BY <1>0, <2>4, <2>5, <2>6, Remembers DEF TypeOK
  <2> QED
    BY <1>0, <2>4, <2>6, <2>7, Remembers, PastKept
<1>6. CASE Resync
  <2>1. TypeOK' /\ UNCHANGED <<sync, backup, file, machine, reported, hosts>>
    BY <1>0, <1>6 DEF Resync, TypeOK, past
  <2>2. PastInv'
    BY <2>1 DEF IInv, PastInv, HostsOf
  <2> QED
    BY <2>1, <2>2, PastKept
<1>7. CASE CallFails
  <2>1. sync' = [IdleSync EXCEPT !.pc = "idle"]
    BY <1>7 DEF CallFails, ReturnError, IdleSync
  <2>2. sync.cluster \in Clusters
    BY <1>7 DEF CallFails, IInv, SyncInv
  <2>3. queue' \subseteq Clusters /\ watched' \subseteq Clusters /\ events' \in Nat
    BY <1>0, <1>7, <2>2 DEF CallFails, ReturnError, Event
  <2>4. UNCHANGED <<cluster, machine, file, backup, past>>
    BY <1>7 DEF CallFails
  <2> QED
    BY <2>1, <2>3, <2>4, EndsReconcile
<1> QED
  BY <1>2, <1>3, <1>4, <1>5, <1>6, <1>7 DEF Environment

\* The invariant holds in every behaviour.
LEMMA SyncInvariant == Spec => []IInv
<1>1. IInv /\ [Next]_vars => IInv'
  <2>1. IInv /\ UNCHANGED vars => IInv'
    BY DEF IInv, vars, TypeOK, SyncInv, PastInv, HostsOf, BackupIsRestorable
  <2> QED
    BY <2>1, SyncWorker, SyncEnvironment DEF Next
<1> QED
  BY <1>1, SyncInit, PTL DEF Spec

\* Every object of the sync controller keeps its type, whatever happens to clusters,
\* machines and files in the middle of a reconcile: a backup always names a machine.
THEOREM SyncTypeCorrect == Spec => []TypeOK
  BY SyncInvariant, PTL DEF IInv

\* A backup stands for a snapshot of its own cluster that was reported ready and names a
\* machine that has had, in that cluster, the node that took it since: for any clusters
\* that share machine, node and file names, although machines are replaced and moved and
\* snapshots removed between any two calls of a reconcile.
THEOREM BackupsAreRestorable == Spec => []BackupIsRestorable
  BY SyncInvariant, PTL DEF IInv
===============================================================================
