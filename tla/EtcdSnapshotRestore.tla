------------------------ MODULE EtcdSnapshotRestore ------------------------
(***************************************************************************)
(* The controller that restores an etcd snapshot on the machines of one    *)
(* workload cluster (internal/controller/etcdsnapshotrestore_controller.go)*)
(* together with the objects it works on: the ETCDSnapshotRestore objects  *)
(* of the cluster, the CAPI Cluster and its Machines, the plan secrets and *)
(* the system agents behind them.                                          *)
(*                                                                         *)
(* A reconcile is a sequence of calls to the API server, and each call is  *)
(* a step: agents, users, CAPI and the informers move between them.  The   *)
(* controller runs one worker (the --concurrency flag is never used), so   *)
(* there is one reconcile at a time.                                       *)
(*                                                                         *)
(* Reads.  Restores, the Cluster and the Machines come from the informer   *)
(* caches, which lag behind the API server; plan secrets are read from the *)
(* API server (cmd/main.go disables the cache for Secrets).                *)
(*                                                                         *)
(* Writes.  Every patch carries the resourceVersion of the copy it was     *)
(* computed from and fails if the object has been written since.  Two      *)
(* equal copies of a restore, or of a plan secret, are of one version,     *)
(* because neither ever returns to an earlier value; the Cluster does, so  *)
(* the copies that have its current version are recorded in clusterFresh.  *)
(***************************************************************************)
EXTENDS SystemAgent, FiniteSets

CONSTANTS
  Restores,          \* names of ETCDSnapshotRestore objects, all for this cluster
  Backups,           \* names of EtcdMachineBackup objects
  BackupMachine,     \* spec.machineName of a backup
  BackupLocation,    \* spec.location of a backup, "" being the scheme "unset"
  InitialMachines,   \* machines of the cluster at the start, all Running
  InternalIP,        \* machines whose status has an InternalIP address
  None,              \* no such object, or a field that is not set
  FaultKinds,        \* which of the environment's disturbances may happen
  MaxFaults          \* and how many of them

ASSUME Names ==
  /\ None \notin Machines \cup Backups \cup Restores
  /\ BackupMachine \in [Backups -> Machines]
  /\ InitialMachines \subseteq Machines
  /\ MaxFaults \in Nat

VARIABLES
  restore,        \* the ETCDSnapshotRestore objects
  restoreCache,   \* the informer's copies of them
  paused,         \* spec.paused of the Cluster
  clusterFresh,   \* whose copy of the Cluster has its current resourceVersion
  machine,        \* status.phase of the Machines of the cluster
  machineCache,   \* the informer's copies of them
  rec,            \* the reconcile in progress
  faults          \* disturbances so far

vars == <<restore, restoreCache, paused, clusterFresh, machine, machineCache,
          rec, faults, agentVars>>

Phases == {"", "Started", "Shutdown", "Restore", "Finished"}

MachinePhases == {"Absent", "Provisioning", "Running"}

NoRestore == [live |-> FALSE, gen |-> 0, backup |-> None, phase |-> ""]

EmptySecret == [plan |-> NoPlan, applied |-> Checksum(NoPlan)]

\* No reconcile in progress.
IdleRec == [pc |-> "idle", name |-> None, obj |-> NoRestore, phase |-> "",
            machines |-> {}, todo |-> {}, m |-> None, sec |-> EmptySecret,
            ready |-> TRUE]

Init ==
  /\ restore = [r \in Restores |-> NoRestore]
  /\ restoreCache = restore
  /\ paused = FALSE
  /\ clusterFresh = {"cache"}
  /\ machine = [m \in Machines |-> IF m \in InitialMachines THEN "Running" ELSE "Absent"]
  /\ machineCache = machine
  /\ rec = IdleRec
  /\ faults = 0
  /\ secret = [m \in Machines |-> EmptySecret]
  /\ agent = [m \in Machines |-> IdleAgent]
  /\ node = [m \in Machines |->
               IF m \in InitialMachines
               THEN [rke2 |-> TRUE, server |-> Endpoint, manifests |-> TRUE,
                     lineage |-> Original, snapshot |-> {}]
               ELSE [rke2 |-> FALSE, server |-> Endpoint, manifests |-> FALSE,
                     lineage |-> NoData, snapshot |-> {}]]

-----------------------------------------------------------------------------
(* The scope of a reconcile, and the plans it wants.                       *)

\* scope.initMachine, or None for the empty Machine newScope leaves there when
\* the backup's machine is not among the machines of the cluster.
initMachine ==
  LET name == BackupMachine[rec.obj.backup] IN IF name \in rec.machines THEN name ELSE None

\* The address of a machine; None stands for the empty string.
getInternalMachineIP(m) == IF m \in InternalIP THEN m ELSE None

\* The plan that updatePlanSecretWithPlan puts in the secret of rec.m.
wantedPlan ==
  CASE rec.phase = "Started"  -> killPlan
    [] rec.phase = "Shutdown" -> restorePlan(BackupLocation[rec.obj.backup])
    [] OTHER -> IF rec.m = initMachine
                THEN startPlan
                ELSE joinPlan(getInternalMachineIP(initMachine))

\* The loops over all machines; the init machine is handled outside of one.
InMachineLoop == rec.phase = "Started" \/ (rec.phase = "Restore" /\ rec.m # initMachine)

\* Return from reconcileNormal: whether it succeeded or not, the restore is patched.
Return == rec' = [rec EXCEPT !.pc = "status"]

-----------------------------------------------------------------------------
(* One reconcile.                                                          *)

\* Reconcile, reconcileNormal and newScope up to the first call to the API
\* server.  A restore the cache does not have is not reconciled; one whose
\* backup cannot be found, or whose cluster has a machine that is not running,
\* goes straight to the status patch.
Reconcile(r) ==
  /\ rec.pc = "idle"
  /\ restoreCache[r].live
  /\ LET obj == restoreCache[r]
         listed == {m \in Machines : machineCache[m] # "Absent"}
         proceed == /\ obj.backup \in Backups
                    /\ \A m \in listed : machineCache[m] = "Running"
     IN rec' = [IdleRec EXCEPT !.pc = IF proceed THEN "pause" ELSE "status",
                               !.name = r,
                               !.obj = obj,
                               !.phase = IF obj.phase = "" THEN "Started" ELSE obj.phase,
                               !.machines = listed]
  /\ clusterFresh' = IF "cache" \in clusterFresh THEN {"cache", "worker"} ELSE {}
  /\ UNCHANGED <<restore, restoreCache, paused, machine, machineCache, faults, agentVars>>

\* Patch of spec.paused.  A patch that changes nothing makes no new version.
PatchCluster(value) ==
  /\ "worker" \in clusterFresh
  /\ paused' = value
  /\ clusterFresh' = IF paused = value THEN clusterFresh ELSE {"worker"}

\* Mutant of PauseCluster: an error of the patch is logged, not returned.
PauseClusterOrGoOn ==
  /\ rec.pc = "pause"
  /\ PatchCluster(TRUE) \/ ("worker" \notin clusterFresh /\ UNCHANGED <<paused, clusterFresh>>)
  /\ rec' = [rec EXCEPT !.pc = "switch"]
  /\ UNCHANGED <<restore, restoreCache, machine, machineCache, faults, agentVars>>

PauseCluster ==
  /\ rec.pc = "pause"
  /\ \/ PatchCluster(TRUE) /\ rec' = [rec EXCEPT !.pc = "switch"]
     \/ "worker" \notin clusterFresh /\ Return /\ UNCHANGED <<paused, clusterFresh>>
  /\ UNCHANGED <<restore, restoreCache, machine, machineCache, faults, agentVars>>

UnpauseCluster ==
  /\ rec.pc = "unpause"
  /\ \/ PatchCluster(FALSE)
     \/ "worker" \notin clusterFresh /\ UNCHANGED <<paused, clusterFresh>>
  /\ Return
  /\ UNCHANGED <<restore, restoreCache, machine, machineCache, faults, agentVars>>

\* The steps of the worker that write neither the Cluster nor a restore.
WorkerOnly == UNCHANGED <<restore, restoreCache, paused, clusterFresh, machine,
                          machineCache, faults, agent, node>>

stopRKE2OnAllMachines ==
  /\ rec.pc = "switch" /\ rec.phase = "Started"
  /\ rec' = [rec EXCEPT !.pc = "loop", !.todo = rec.machines]
  /\ UNCHANGED secret /\ WorkerOnly

LocationUnset == BackupLocation[rec.obj.backup].scheme = "unset"

\* The location is checked; the test for a nil init machine never fires, and
\* the plan secret of an empty Machine is a nil pointer dereference.
restoreSnaphotOnInitMachine ==
  /\ rec.pc = "switch" /\ rec.phase = "Shutdown"
  /\ \/ LocationUnset /\ Return
     \/ ~LocationUnset /\ initMachine = None /\ rec' = [rec EXCEPT !.pc = "panic"]
     \/ /\ ~LocationUnset /\ initMachine # None
        /\ rec' = [rec EXCEPT !.pc = "get", !.m = initMachine]
  /\ UNCHANGED secret /\ WorkerOnly

startRKE2OnAllMachines ==
  /\ rec.pc = "switch" /\ rec.phase = "Restore"
  /\ \/ getInternalMachineIP(initMachine) = None /\ Return
     \/ /\ getInternalMachineIP(initMachine) # None
        /\ rec' = [rec EXCEPT !.pc = "get", !.m = initMachine]
  /\ UNCHANGED secret /\ WorkerOnly

\* Mutant of finishRestore: nothing is left to do in the last phase.
finishRestorePaused ==
  /\ rec.pc = "switch" /\ rec.phase = "Finished"
  /\ Return
  /\ UNCHANGED secret /\ WorkerOnly

finishRestore ==
  /\ rec.pc = "switch" /\ rec.phase = "Finished"
  /\ rec' = [rec EXCEPT !.pc = "unpause"]
  /\ UNCHANGED secret /\ WorkerOnly

\* The machine list has no order: the informer's index is a map.
NextMachine(m) ==
  /\ rec.pc = "loop"
  /\ m \in rec.todo
  /\ rec' = [rec EXCEPT !.pc = "get", !.m = m, !.todo = @ \ {m}]
  /\ UNCHANGED secret /\ WorkerOnly

LoopEndsIn(phase) ==
  /\ rec.pc = "loop"
  /\ rec.todo = {}
  /\ rec' = [rec EXCEPT !.pc = "status", !.phase = phase]
  /\ UNCHANGED secret /\ WorkerOnly

\* Mutant of EndOfLoop: the last phase is not recorded.
EndOfLoopForgetsFinished ==
  LoopEndsIn(IF rec.ready /\ rec.phase = "Started" THEN "Shutdown" ELSE rec.phase)

\* Mutant of EndOfLoop: a phase that the API declares and nothing handles.
EndOfLoopUnhandledPhase ==
  \/ ~rec.ready /\ LoopEndsIn(rec.phase)
  \/ rec.ready /\ rec.phase = "Started" /\ LoopEndsIn("Shutdown")
  \/ rec.ready /\ rec.phase # "Started" /\ LoopEndsIn("InitialRestartCluster")

EndOfLoop ==
  \/ ~rec.ready /\ LoopEndsIn(rec.phase)
  \/ rec.ready /\ rec.phase = "Started" /\ LoopEndsIn("Shutdown")
  \/ rec.ready /\ rec.phase # "Started" /\ LoopEndsIn("Finished")

getPlanSecretForMachine ==
  /\ rec.pc = "get"
  /\ rec' = [rec EXCEPT !.sec = secret[rec.m],
                        !.pc = IF secret[rec.m].plan = wantedPlan THEN "check" ELSE "fill"]
  /\ UNCHANGED secret /\ WorkerOnly

\* startRKE2OnAllMachines leaves the Data of the init machine's secret nil, as
\* the webhook created it, and the assignment to the nil map panics.
NilData == rec.phase = "Restore" /\ rec.m = initMachine /\ rec.sec = EmptySecret

updatePlanSecretWithPlan ==
  /\ rec.pc = "fill"
  /\ \/ /\ ~NilData
        /\ rec.sec = secret[rec.m]
        /\ secret' = [secret EXCEPT ![rec.m].plan = wantedPlan]
        /\ rec' = [rec EXCEPT !.pc = "check", !.sec.plan = wantedPlan]
     \/ /\ ~NilData
        /\ rec.sec # secret[rec.m]
        /\ Return
        /\ UNCHANGED secret
     \/ /\ NilData
        /\ rec' = [rec EXCEPT !.pc = "panic"]
        /\ UNCHANGED secret
  /\ WorkerOnly

\* Mutant of CheckMachine: the last machine decides for all of them.
CheckLastMachine ==
  /\ rec.pc = "check" /\ InMachineLoop
  /\ rec' = [rec EXCEPT !.pc = "loop",
                        !.ready = isPlanApplied(wantedPlan, secret[rec.m].applied)]
  /\ UNCHANGED secret /\ WorkerOnly

\* In the loops the secret is read again; a machine whose agent has not applied
\* the plan yet does not keep the loop from going on to the others.
CheckMachine ==
  /\ rec.pc = "check" /\ InMachineLoop
  /\ rec' = [rec EXCEPT !.pc = "loop",
                        !.ready = @ /\ isPlanApplied(wantedPlan, secret[rec.m].applied)]
  /\ UNCHANGED secret /\ WorkerOnly

\* The init machine's secret is not read again: the test uses the copy.
CheckInitMachine ==
  /\ rec.pc = "check" /\ ~InMachineLoop
  /\ \/ ~isPlanApplied(wantedPlan, rec.sec.applied) /\ Return
     \/ /\ isPlanApplied(wantedPlan, rec.sec.applied)
        /\ rec.phase = "Shutdown"
        /\ rec' = [rec EXCEPT !.pc = "status", !.phase = "Restore"]
     \/ /\ isPlanApplied(wantedPlan, rec.sec.applied)
        /\ rec.phase # "Shutdown"
        /\ rec' = [rec EXCEPT !.pc = "loop", !.todo = rec.machines \ {rec.m}]
  /\ UNCHANGED secret /\ WorkerOnly

\* Mutant of PatchRestore: an update without the version of the copy.
PatchRestoreUnlocked ==
  /\ rec.pc = "status"
  /\ restore' = [restore EXCEPT ![rec.name].phase = rec.phase]
  /\ rec' = IdleRec
  /\ clusterFresh' = clusterFresh \ {"worker"}
  /\ UNCHANGED <<restoreCache, paused, machine, machineCache, faults, agentVars>>

\* The patch of the object and of its status: both carry the version of the copy
\* the reconcile began with, and only the second changes anything.
PatchRestore ==
  /\ rec.pc = "status"
  /\ IF rec.obj = restore[rec.name]
     THEN restore' = [restore EXCEPT ![rec.name].phase = rec.phase]
     ELSE UNCHANGED restore
  /\ rec' = IdleRec
  /\ clusterFresh' = clusterFresh \ {"worker"}
  /\ UNCHANGED <<restoreCache, paused, machine, machineCache, faults, agentVars>>

-----------------------------------------------------------------------------
(* The manager's process and its caches.                                   *)

DeliverRestore(r) ==
  /\ restoreCache[r] # restore[r]
  /\ restoreCache' = [restoreCache EXCEPT ![r] = restore[r]]
  /\ UNCHANGED <<restore, paused, clusterFresh, machine, machineCache, rec, faults, agentVars>>

DeliverCluster ==
  /\ "cache" \notin clusterFresh
  /\ clusterFresh' = clusterFresh \cup {"cache"}
  /\ UNCHANGED <<restore, restoreCache, paused, machine, machineCache, rec, faults, agentVars>>

DeliverMachines ==
  /\ machineCache # machine
  /\ machineCache' = machine
  /\ UNCHANGED <<restore, restoreCache, paused, clusterFresh, machine, rec, faults, agentVars>>

\* A new process starts with no reconcile and lists everything anew.
NewProcess ==
  /\ rec' = IdleRec
  /\ restoreCache' = restore
  /\ machineCache' = machine
  /\ clusterFresh' = {"cache"}
  /\ UNCHANGED <<restore, paused, machine, agentVars>>

RestartAfterPanic ==
  /\ rec.pc = "panic"
  /\ NewProcess
  /\ UNCHANGED faults

-----------------------------------------------------------------------------
(* Users, other controllers and disturbances.                              *)

Disturbance(kind) ==
  /\ kind \in FaultKinds
  /\ faults < MaxFaults
  /\ faults' = faults + 1

CreateRestore(r, b) ==
  /\ restore[r].gen = 0
  /\ restore' = [restore EXCEPT ![r].live = TRUE, ![r].gen = 1, ![r].backup = b]
  /\ UNCHANGED <<restoreCache, paused, clusterFresh, machine, machineCache, rec, faults, agentVars>>

\* kubectl apply with another backup: the spec changes, the status stays.
EditRestore(r, b) ==
  /\ Disturbance("edit")
  /\ restore[r].live /\ restore[r].backup # b
  /\ restore' = [restore EXCEPT ![r].gen = @ + 1, ![r].backup = b]
  /\ UNCHANGED <<restoreCache, paused, clusterFresh, machine, machineCache, rec, agentVars>>

\* There is no finalizer, and reconcileDelete does nothing.
DeleteRestore(r) ==
  /\ Disturbance("delete")
  /\ restore[r].live
  /\ restore' = [restore EXCEPT ![r].live = FALSE]
  /\ UNCHANGED <<restoreCache, paused, clusterFresh, machine, machineCache, rec, agentVars>>

\* Another controller writes the Cluster object, leaving spec.paused alone.
TouchCluster ==
  /\ Disturbance("touch")
  /\ clusterFresh' = {}
  /\ UNCHANGED <<restore, restoreCache, paused, machine, machineCache, rec, agentVars>>

\* The control plane is scaled up: CAPI does nothing to a paused cluster.
ScaleUp(m) ==
  /\ Disturbance("scale")
  /\ ~paused
  /\ machine[m] = "Absent"
  /\ machine' = [machine EXCEPT ![m] = "Provisioning"]
  /\ UNCHANGED <<restore, restoreCache, paused, clusterFresh, machineCache, rec, agentVars>>

\* The new machine joins a server that is up; CAPI then sees its node.
Bootstrap(m) ==
  /\ machine[m] = "Provisioning" /\ ~node[m].rke2
  /\ \E s \in Machines :
       /\ node[s].rke2
       /\ node' = [node EXCEPT ![m] = [node[s] EXCEPT !.server = Endpoint]]
  /\ UNCHANGED <<restore, restoreCache, paused, clusterFresh, machine, machineCache, rec,
                 faults, secret, agent>>

MachineReady(m) ==
  /\ machine[m] = "Provisioning" /\ node[m].rke2
  /\ ~paused
  /\ machine' = [machine EXCEPT ![m] = "Running"]
  /\ UNCHANGED <<restore, restoreCache, paused, clusterFresh, machineCache, rec, faults, agentVars>>

\* A call to the API server fails for a reason of its own.
CallFails ==
  /\ Disturbance("error")
  /\ rec.pc \in {"pause", "unpause", "get", "fill", "check"}
  /\ Return
  /\ UNCHANGED <<restore, restoreCache, paused, clusterFresh, machine, machineCache, agentVars>>

StatusCallFails ==
  /\ Disturbance("error")
  /\ rec.pc = "status"
  /\ rec' = IdleRec
  /\ clusterFresh' = clusterFresh \ {"worker"}
  /\ UNCHANGED <<restore, restoreCache, paused, machine, machineCache, agentVars>>

Crash ==
  /\ Disturbance("crash")
  /\ rec.pc # "idle"
  /\ NewProcess

AgentCrash(m) ==
  /\ Disturbance("agent")
  /\ AgentRestart(m)
  /\ UNCHANGED <<restore, restoreCache, paused, clusterFresh, machine, machineCache, rec>>

-----------------------------------------------------------------------------

Agent(m) ==
  /\ AgentStep(m)
  /\ UNCHANGED <<restore, restoreCache, paused, clusterFresh, machine, machineCache, rec, faults>>

Worker ==
  \/ \E r \in Restores : Reconcile(r)
  \/ PauseCluster
  \/ UnpauseCluster
  \/ stopRKE2OnAllMachines
  \/ restoreSnaphotOnInitMachine
  \/ startRKE2OnAllMachines
  \/ finishRestore
  \/ \E m \in Machines : NextMachine(m)
  \/ EndOfLoop
  \/ getPlanSecretForMachine
  \/ updatePlanSecretWithPlan
  \/ CheckMachine
  \/ CheckInitMachine
  \/ PatchRestore

Manager ==
  \/ \E r \in Restores : DeliverRestore(r)
  \/ DeliverCluster
  \/ DeliverMachines
  \/ RestartAfterPanic

Environment ==
  \/ \E r \in Restores, b \in Backups \cup {None} : CreateRestore(r, b) \/ EditRestore(r, b)
  \/ \E r \in Restores : DeleteRestore(r)
  \/ TouchCluster
  \/ \E m \in Machines : ScaleUp(m) \/ Bootstrap(m) \/ MachineReady(m) \/ AgentCrash(m)
  \/ CallFails
  \/ StatusCallFails
  \/ Crash

Next == Worker \/ Manager \/ Environment \/ \E m \in Machines : Agent(m)

Spec == Init /\ [][Next]_vars

\* A reconcile that has begun goes on; a restore is reconciled again after every
\* change, requeue, error and resync; informers deliver; agents poll their secret;
\* CAPI provisions the machines of a cluster that is not paused.
Fairness ==
  /\ WF_vars(Worker)
  /\ WF_vars(Manager)
  /\ \A m \in Machines : WF_vars(Agent(m)) /\ WF_vars(Bootstrap(m)) /\ WF_vars(MachineReady(m))

FairSpec == Spec /\ Fairness

-----------------------------------------------------------------------------
(* What the controller must guarantee.                                     *)

Plans ==
  {NoPlan, killPlan, startPlan}
    \cup {restorePlan(BackupLocation[b]) : b \in Backups}
    \cup {joinPlan(m) : m \in Machines \cup {None}}

RestoreObjects == [live : BOOLEAN, gen : Nat, backup : Backups \cup {None}, phase : Phases]

PlanSecrets == [plan : Plans, applied : {Checksum(p) : p \in Plans}]

Nodes ==
  [rke2 : BOOLEAN, server : Machines \cup {None, NoServer, Endpoint}, manifests : BOOLEAN,
   lineage : Lineages,
   snapshot : SUBSET {TrimFilePrefix(BackupLocation[b]) : b \in Backups}]

Reconciles ==
  [pc : {"idle", "pause", "switch", "unpause", "loop", "get", "fill", "check", "status", "panic"},
   name : Restores \cup {None}, obj : RestoreObjects, phase : Phases,
   machines : SUBSET Machines, todo : SUBSET Machines, m : Machines \cup {None},
   sec : PlanSecrets, ready : BOOLEAN]

\* Every variable has the shape the Go types and the API schema give it.
TypeOK ==
  /\ restore \in [Restores -> RestoreObjects]
  /\ restoreCache \in [Restores -> RestoreObjects]
  /\ paused \in BOOLEAN
  /\ clusterFresh \subseteq {"cache", "worker"}
  /\ machine \in [Machines -> MachinePhases]
  /\ machineCache \in [Machines -> MachinePhases]
  /\ rec \in Reconciles
  /\ faults \in Nat
  /\ secret \in [Machines -> PlanSecrets]
  /\ agent \in [Machines -> [plan : Plans, next : Nat \ {0}]]
  /\ node \in [Machines -> Nodes]

\* "Pause CAPI cluster" before anything else: CAPI may not act on the machines of
\* a cluster whose restore has stopped RKE2 and not yet started it again.
PausedWhileDown ==
  \A r \in Restores : restore[r].phase \in {"Shutdown", "Restore"} => paused

\* A machine of the cluster whose RKE2 the controller stopped is never seen by an
\* unpaused CAPI: not before the first phase is recorded, not after the last.
DownMeansPaused ==
  \A m \in Machines : machine[m] = "Running" /\ ~node[m].rke2 => paused

\* stopRKE2OnAllMachines comes first: when the init machine resets its etcd,
\* no other machine of the cluster has RKE2 running.
QuietReset ==
  (\E m \in Machines : AtScript(m, "cluster-reset")) => \A m \in Machines : ~node[m].rke2

\* RKE2 servers that run on etcd data at the same time belong to one etcd cluster:
\* members of the old cluster and of the reset one are never up together.
NoSplitBrain ==
  \A m, n \in Machines :
    node[m].rke2 /\ node[n].rke2 /\ NoData \notin {node[m].lineage, node[n].lineage}
      => node[m].lineage = node[n].lineage

\* The old cluster's bundled manifests are gone from every machine that runs in the
\* cluster of the reset (https://github.com/rancher/rancher/issues/41174).
NoStaleManifests ==
  \A m \in Machines :
    node[m].rke2 /\ node[m].lineage \in Machines => ~node[m].manifests

\* A restore that is Finished has every machine of the cluster back, in the etcd
\* cluster of the backup's machine ("All machines are ready and started RKE2").
FinishedIsRejoined ==
  \A r \in Restores : restore[r].phase = "Finished" =>
    \A m \in Machines : machine[m] = "Running" =>
      node[m].rke2 /\ node[m].lineage = BackupMachine[restore[r].backup]

PhaseSteps ==
  { <<"", "Started">>, <<"", "Shutdown">>, <<"Started", "Shutdown">>,
    <<"Shutdown", "Restore">>, <<"Restore", "Finished">> }

\* Stale caches, conflicts, failed calls and restarts never move the phase of a
\* restore back, nor over a phase, except from none to Shutdown in one reconcile.
PhaseAdvances ==
  [][\A r \in Restores : restore'[r].phase # restore[r].phase =>
       <<restore[r].phase, restore'[r].phase>> \in PhaseSteps]_vars

\* The plans of a restore, by the phase that hands them out.
Stage(plan) ==
  CASE plan = NoPlan -> 0
    [] plan = killPlan -> 1
    [] plan \in {restorePlan(BackupLocation[b]) : b \in Backups} -> 2
    [] OTHER -> 3

\* A reconcile that works on a stale copy of the restore never hands a machine a
\* plan of an earlier phase: one that has started RKE2 is not stopped again.
PlanAdvances ==
  [][\A m \in Machines : Stage(secret'[m].plan) >= Stage(secret[m].plan)]_vars

\* The manager's process never dies of a nil pointer or map: "initMachine must be set".
NoPanic == rec.pc # "panic"

\* "Restore the etcd snapshot on the init machine": the data of a finished restore
\* is the data of the snapshot its backup names.
RestoredFromSnapshot ==
  \A r \in Restores : restore[r].phase = "Finished" =>
    node[BackupMachine[restore[r].backup]].snapshot =
      {TrimFilePrefix(BackupLocation[restore[r].backup])}

\* A restore the API server has, of a backup that can be restored, gets to its end.
RestoreCompletes ==
  \A r \in Restores : (restore[r].live /\ restore[r].backup \in Backups)
                        ~> restore[r].phase = "Finished"

\* "To perform a restore run the following command": also for a restore that was applied
\* before, with another backup.  One that says Finished has, or will have, every machine
\* in the etcd cluster of the machine of the backup that its spec names.
FinishedRestoresBackup ==
  \A r \in Restores, b \in Backups :
    (restore[r].live /\ restore[r].backup = b /\ restore[r].phase = "Finished")
      ~> (restore[r].backup # b \/ \A m \in Machines : node[m].lineage = BackupMachine[b])

\* "Unpause CAPI cluster": a finished restore hands the cluster back to CAPI, and
\* does so again each time that a resync has it pause the cluster once more.
FinishedUnpauses ==
  \A r \in Restores : restore[r].phase = "Finished" ~> ~paused
=============================================================================
