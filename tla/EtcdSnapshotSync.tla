--------------------------- MODULE EtcdSnapshotSync ---------------------------
(***************************************************************************)
(* The controller that mirrors the ETCDSnapshotFile objects of the RKE2    *)
(* workload clusters of a namespace into EtcdMachineBackup objects         *)
(* (internal/controller/etcdsnaphotsync_controller.go).                    *)
(*                                                                         *)
(* A reconcile reads the Cluster, starts a watch on the snapshot files of  *)
(* the workload cluster, lists them, and then looks for the machine of     *)
(* each file and creates a backup.  Each of these calls is a step.  The    *)
(* workqueue holds every cluster at most once, and one worker serves it.   *)
(***************************************************************************)
EXTENDS Naturals, FiniteSets

CONSTANTS
  Clusters,        \* clusters of the namespace
  Machines,        \* names of machines of the namespace
  Nodes,           \* names of nodes; each workload cluster has its own nodes
  FileNames,       \* names of ETCDSnapshotFile objects
  SnapshotFiles,   \* <<c, f>>: a file f may come to exist in cluster c
  FileNode,        \* spec.nodeName of the file <<c, f>>
  MachineLives,    \* MachineLives[m]: where machines of name m may come to be, as which node
  InitialMachine,  \* the machines at the start, all of them with a node, or None
  None,            \* no such object
  EventKinds,      \* which events and failures may happen
  MaxEvents        \* and how many of them

ASSUME SyncNames ==
  /\ SnapshotFiles \subseteq Clusters \X FileNames
  /\ FileNode \in [SnapshotFiles -> Nodes]
  /\ MachineLives \in [Machines -> SUBSET [cluster : Clusters, node : Nodes]]
  /\ InitialMachine \in [Machines -> {None} \cup [cluster : Clusters, node : Nodes]]
  /\ None \notin Machines \cup Nodes
  /\ MaxEvents \in Nat

VARIABLES
  cluster,   \* the Cluster objects
  machine,   \* the Machines as the informer has them: None, or spec.clusterName and
             \* status.nodeRef.name, which may be None
  file,      \* file[<<c, f>>]: the ETCDSnapshotFile f of workload cluster c
  backup,    \* the EtcdMachineBackup objects, by name
  watched,   \* clusters whose snapshot files are watched
  queue,     \* the controller's workqueue
  sync,      \* the reconcile in progress
  events,    \* events and failures so far
  reported,  \* history: the files that were reported ready, if only once
  hosts      \* history: the machines that have had a file's node since it was reported

past == <<reported, hosts>>

vars == <<cluster, machine, file, backup, watched, queue, sync, events, reported, hosts>>

IdleSync == [pc |-> "idle", cluster |-> None, seen |-> [p \in SnapshotFiles |-> "absent"],
             todo |-> {}, file |-> None, machine |-> None]

Init ==
  /\ cluster = [c \in Clusters |-> [exists |-> TRUE, paused |-> FALSE,
                                    controlPlane |-> "RKE2ControlPlane", ready |-> FALSE]]
  /\ machine = InitialMachine
  /\ file = [p \in SnapshotFiles |-> "absent"]
  /\ backup = [f \in FileNames |-> None]
  /\ watched = {}
  /\ queue = Clusters
  /\ sync = IdleSync
  /\ events = 0
  /\ reported = {}
  /\ hosts = [p \in SnapshotFiles |-> {}]

-----------------------------------------------------------------------------
(* One reconcile.                                                          *)

\* The early returns of Reconcile: a cluster that is gone, of another kind or not
\* ready is queued again, a paused one is not; a cluster without a control plane
\* reference is a nil pointer dereference.
SkipCluster(c) ==
  /\ sync.pc = "idle" /\ c \in queue
  /\ LET cl == cluster[c] IN
     \/ /\ \/ ~cl.exists
           \/ ~cl.paused /\ cl.controlPlane = "other"
           \/ ~cl.paused /\ cl.controlPlane = "RKE2ControlPlane" /\ ~cl.ready
        /\ UNCHANGED <<queue, sync>>
     \/ /\ cl.exists /\ cl.paused
        /\ queue' = queue \ {c}
        /\ UNCHANGED sync
     \/ /\ cl.exists /\ ~cl.paused /\ cl.controlPlane = "nil"
        /\ sync' = [IdleSync EXCEPT !.pc = "panic"]
        /\ UNCHANGED queue
  /\ UNCHANGED <<cluster, machine, file, backup, watched, events, past>>

\* The files of the cluster that exist.
Present(c) == {f \in FileNames : <<c, f>> \in SnapshotFiles /\ file[<<c, f>>] # "absent"}

\* The rest of Reconcile up to its loop.  A watch that is new reports the files
\* that are there already, and so queues the cluster again.
ListFiles(c) ==
  /\ sync.pc = "idle" /\ c \in queue
  /\ cluster[c].exists /\ ~cluster[c].paused
  /\ cluster[c].controlPlane = "RKE2ControlPlane" /\ cluster[c].ready
  /\ watched' = watched \cup {c}
  /\ queue' = IF c \in watched \/ Present(c) = {} THEN queue \ {c} ELSE queue
  /\ sync' = [IdleSync EXCEPT !.pc = "loop", !.cluster = c, !.todo = Present(c),
                               !.seen = [p \in SnapshotFiles |-> IF p[1] = c THEN file[p] ELSE "absent"]]
  /\ UNCHANGED <<cluster, machine, file, backup, events, past>>

\* Return with an error: the cluster is queued again, after a delay.
ReturnError ==
  /\ sync' = IdleSync
  /\ queue' = queue \cup {sync.cluster}

\* readyToUse of the file as it was listed.
Seen(f) == sync.seen[<<sync.cluster, f>>]

\* extractFieldsFromETCDSnapshotFile fails for a file without a status, and that
\* ends the loop for all files.
MalformedFile(f) ==
  /\ sync.pc = "loop" /\ f \in sync.todo
  /\ Seen(f) = "noStatus"
  /\ ReturnError
  /\ UNCHANGED <<cluster, machine, file, backup, watched, events, past>>

\* The steps that leave everything but the reconcile alone.
SyncOnly == UNCHANGED <<cluster, machine, file, backup, watched, queue, events, past>>

\* The loop goes on with the other files, and what it has read of this one is forgotten.
Skip(f) ==
  sync' = [sync EXCEPT !.pc = "loop", !.todo = @ \ {f}, !.seen[<<sync.cluster, f>>] = "absent",
                       !.file = None, !.machine = None]

FileNotReady(f) ==
  /\ sync.pc = "loop" /\ f \in sync.todo
  /\ Seen(f) = "notReady"
  /\ Skip(f)
  /\ SyncOnly

\* Mutant of OwnMachines: the list is not restricted to the cluster.
AllMachines == {m \in Machines : machine[m] # None}

\* The machines of the namespace that belong to the cluster of the reconcile.
OwnMachines == {m \in Machines : machine[m] # None /\ machine[m].cluster = sync.cluster}

MachineOfFile(f) == {m \in OwnMachines : machine[m].node = FileNode[<<sync.cluster, f>>]}

\* Mutant of findMachineForBackup: the empty machine name is not looked at.
findMachineOrNone(f) ==
  /\ sync.pc = "loop" /\ f \in sync.todo
  /\ Seen(f) = "ready"
  /\ \E m \in IF MachineOfFile(f) = {} THEN {None} ELSE MachineOfFile(f) :
       sync' = [sync EXCEPT !.pc = "create", !.file = f, !.machine = m]
  /\ SyncOnly

\* Mutant of findMachineForBackup: a file without a machine ends the reconcile.
findMachineOrReturn(f) ==
  /\ sync.pc = "loop" /\ f \in sync.todo
  /\ Seen(f) = "ready"
  /\ \/ \E m \in MachineOfFile(f) :
          sync' = [sync EXCEPT !.pc = "create", !.file = f, !.machine = m]
     \/ MachineOfFile(f) = {} /\ sync' = IdleSync
  /\ SyncOnly

\* The list has no order.  A machine that has no nodeRef yet and comes before the
\* one that is looked for is a nil pointer dereference.
findMachineForBackup(f) ==
  /\ sync.pc = "loop" /\ f \in sync.todo
  /\ Seen(f) = "ready"
  /\ \/ \E m \in MachineOfFile(f) :
          sync' = [sync EXCEPT !.pc = "create", !.file = f, !.machine = m]
     \/ /\ \E m \in OwnMachines : machine[m].node = None
        /\ sync' = [IdleSync EXCEPT !.pc = "panic"]
     \/ /\ MachineOfFile(f) = {}
        /\ \A m \in OwnMachines : machine[m].node # None
        /\ Skip(f)
  /\ SyncOnly

\* The spec of the new backup; the location is that of the file, which <<c, f>> names.
NewBackup == [cluster |-> sync.cluster, location |-> <<sync.cluster, sync.file>>,
              machine |-> sync.machine]

\* A backup of that name that exists, of whatever cluster, is left as it is.
CreateBackup ==
  /\ sync.pc = "create"
  /\ backup' = IF backup[sync.file] = None THEN [backup EXCEPT ![sync.file] = NewBackup] ELSE backup
  /\ Skip(sync.file)
  /\ UNCHANGED <<cluster, machine, file, watched, queue, events, past>>

EndOfFiles ==
  /\ sync.pc = "loop" /\ sync.todo = {}
  /\ sync' = IdleSync
  /\ SyncOnly

\* A new process lists all clusters and has no watches.
Restart ==
  /\ sync.pc = "panic"
  /\ sync' = IdleSync
  /\ watched' = {}
  /\ queue' = {c \in Clusters : cluster[c].exists}
  /\ UNCHANGED <<cluster, machine, file, backup, events, past>>

-----------------------------------------------------------------------------
(* Events.                                                                 *)

Event(kind) ==
  /\ kind \in EventKinds
  /\ events < MaxEvents
  /\ events' = events + 1

\* The Cluster object changes, and its event queues it.
ClusterEvent(c, cl) ==
  /\ cluster[c].exists
  /\ cluster' = [cluster EXCEPT ![c] = cl]
  /\ queue' = queue \cup {c}
  /\ UNCHANGED <<machine, file, backup, watched, sync, past>>

ControlPlaneReady(c) ==
  /\ ~cluster[c].ready
  /\ ClusterEvent(c, [cluster[c] EXCEPT !.ready = TRUE])
  /\ UNCHANGED events

\* The restore controller, or a user, pauses and unpauses the cluster.
Pause(c) ==
  /\ ~cluster[c].paused
  /\ Event("pause")
  /\ ClusterEvent(c, [cluster[c] EXCEPT !.paused = TRUE])

Unpause(c) ==
  /\ cluster[c].paused
  /\ ClusterEvent(c, [cluster[c] EXCEPT !.paused = FALSE])
  /\ UNCHANGED events

ChangeControlPlane(c, kind) ==
  /\ Event("controlPlane")
  /\ ClusterEvent(c, [cluster[c] EXCEPT !.controlPlane = kind])

DeleteCluster(c) ==
  /\ Event("delete")
  /\ ClusterEvent(c, [cluster[c] EXCEPT !.exists = FALSE])

\* The machines among mach that have the node that took the file p.
HostsOf(mach, p) ==
  {m \in Machines : mach[m] # None /\ mach[m].cluster = p[1] /\ mach[m].node = FileNode[p]}

\* The history after a step that has changed the machines or the files.
Remember ==
  /\ reported' = reported \cup {p \in SnapshotFiles : file'[p] = "ready"}
  /\ hosts' = [p \in SnapshotFiles |->
                 IF p \in reported' THEN hosts[p] \cup HostsOf(machine', p) ELSE hosts[p]]

\* Machines are not watched.
ChangeMachine(m, new) ==
  /\ machine' = [machine EXCEPT ![m] = new]
  /\ UNCHANGED <<cluster, file, backup, watched, queue, sync>>
  /\ Remember

\* A machine is created, maybe with the name that one of another cluster had before.
CreateMachine(m) ==
  /\ machine[m] = None
  /\ \E life \in MachineLives[m] : ChangeMachine(m, [life EXCEPT !.node = None])
  /\ UNCHANGED events

\* A node belongs to one machine at a time; one that has gone may leave its name to another.
NodeAppears(m) ==
  /\ machine[m] # None /\ machine[m].node = None
  /\ \E life \in MachineLives[m] :
       /\ life.cluster = machine[m].cluster
       /\ \A k \in Machines : machine[k] # life
       /\ ChangeMachine(m, life)
  /\ UNCHANGED events

DeleteMachine(m) == machine[m] # None /\ Event("machine") /\ ChangeMachine(m, None)

\* A snapshot file changes; a watch queues the cluster.
FileEvent(c, f, state) ==
  /\ file' = [file EXCEPT ![<<c, f>>] = state]
  /\ queue' = IF c \in watched THEN queue \cup {c} ELSE queue
  /\ UNCHANGED <<cluster, machine, backup, watched, sync>>
  /\ Remember

\* RKE2 writes a snapshot file, then its status, and removes it when the snapshots to be
\* kept are too many, or someone deletes the snapshot.
TakeSnapshot(c, f) == file[<<c, f>>] = "absent" /\ FileEvent(c, f, "noStatus") /\ UNCHANGED events

PruneSnapshot(c, f) == file[<<c, f>>] # "absent" /\ Event("prune") /\ FileEvent(c, f, "absent")

WriteStatus(c, f) ==
  /\ \/ file[<<c, f>>] = "noStatus" /\ FileEvent(c, f, "notReady")
     \/ file[<<c, f>>] \in {"noStatus", "notReady"} /\ FileEvent(c, f, "ready")
  /\ UNCHANGED events

\* The informer hands out every cluster again, each sync period.
Resync ==
  /\ queue' = queue \cup {c \in Clusters : cluster[c].exists}
  /\ UNCHANGED <<cluster, machine, file, backup, watched, sync, events, past>>

\* Listing or creating fails.  (A watch that fails leaves everything as it was.)
CallFails ==
  /\ Event("error")
  /\ sync.pc \in {"loop", "create"}
  /\ ReturnError
  /\ UNCHANGED <<cluster, machine, file, backup, watched, past>>

-----------------------------------------------------------------------------

Worker ==
  \/ \E f \in FileNames : MalformedFile(f) \/ FileNotReady(f) \/ findMachineForBackup(f)
  \/ CreateBackup
  \/ EndOfFiles
  \/ Restart

Environment ==
  \/ \E c \in Clusters :
       \/ ControlPlaneReady(c) \/ Pause(c) \/ Unpause(c) \/ DeleteCluster(c)
       \/ \E kind \in {"nil", "other", "RKE2ControlPlane"} : ChangeControlPlane(c, kind)
  \/ \E m \in Machines : CreateMachine(m) \/ NodeAppears(m) \/ DeleteMachine(m)
  \/ \E p \in SnapshotFiles :
       TakeSnapshot(p[1], p[2]) \/ WriteStatus(p[1], p[2]) \/ PruneSnapshot(p[1], p[2])
  \/ Resync
  \/ CallFails

Next == Worker \/ (\E c \in Clusters : SkipCluster(c) \/ ListFiles(c)) \/ Environment

Spec == Init /\ [][Next]_vars

\* A reconcile goes on, the queue is served in turn, each sync period the clusters
\* are queued again, and RKE2 gives a snapshot file its status.
Fairness ==
  /\ WF_vars(Worker)
  /\ \A c \in Clusters : SF_vars(SkipCluster(c)) /\ SF_vars(ListFiles(c))
  /\ WF_vars(Resync)
  /\ \A p \in SnapshotFiles : WF_vars(file[p] = "noStatus" /\ WriteStatus(p[1], p[2]))

FairSpec == Spec /\ Fairness

-----------------------------------------------------------------------------
(* What the controller must guarantee.                                     *)

FileStates == {"absent", "noStatus", "notReady", "ready"}

\* Every variable has the shape the Go types and the API schemas give it.
TypeOK ==
  /\ cluster \in [Clusters -> [exists : BOOLEAN, paused : BOOLEAN, ready : BOOLEAN,
                               controlPlane : {"nil", "other", "RKE2ControlPlane"}]]
  /\ machine \in [Machines -> {None} \cup [cluster : Clusters, node : Nodes \cup {None}]]
  /\ file \in [SnapshotFiles -> FileStates]
  /\ backup \in [FileNames -> {None} \cup [cluster : Clusters, machine : Machines,
                                            location : SnapshotFiles]]
  /\ watched \subseteq Clusters /\ queue \subseteq Clusters
  /\ sync \in [pc : {"idle", "loop", "create", "panic"}, cluster : Clusters \cup {None},
               seen : [SnapshotFiles -> FileStates], todo : SUBSET FileNames,
               file : FileNames \cup {None}, machine : Machines \cup {None}]
  /\ events \in Nat
  /\ reported \subseteq SnapshotFiles /\ hosts \in [SnapshotFiles -> SUBSET Machines]

\* What a restore relies on: a backup stands for a snapshot of its own cluster that RKE2
\* reported ready, at that snapshot's location, and names a machine that had, in that
\* cluster, the node that took it, at some time since; although machines are replaced,
\* and re-created in another cluster under the same name, and snapshots are removed,
\* between the listing of the files, the search for the machine and the creation.
BackupIsRestorable ==
  \A f \in FileNames : backup[f] # None =>
    LET b == backup[f] IN
    /\ b.location = <<b.cluster, f>>
    /\ b.location \in reported
    /\ b.machine \in hosts[b.location]

\* "When all machine in the cluster are ready, ETCDMachineBackup object should appear
\* on the management cluster soon": unless the cluster, the machine or the snapshot goes
\* away, or another cluster of the namespace has had a snapshot of the same name.
BackupAppears ==
  \A p \in SnapshotFiles :
    LET c == p[1]
        f == p[2]
        expected == /\ cluster[c].exists /\ ~cluster[c].paused /\ cluster[c].ready
                    /\ cluster[c].controlPlane = "RKE2ControlPlane"
                    /\ file[p] = "ready"
                    /\ \A d \in Clusters \ {c} : <<d, f>> \notin reported
                    /\ \A m \in Machines : machine[m] # [cluster |-> c, node |-> None]
                    /\ HostsOf(machine, p) # {}
        present == backup[f] # None /\ backup[f].cluster = c
    IN []<>(~expected \/ present)

\* "Machine not found for backup, skipping. Will try again later.": a machine that has
\* no node yet never brings the manager down.
NoPanic == sync.pc # "panic"
===============================================================================
