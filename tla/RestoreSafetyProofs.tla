-------------------------- MODULE RestoreSafetyProofs --------------------------
(***************************************************************************)
(* What a restore does to RKE2 and etcd on the machines of a cluster whose *)
(* machines stay the same and whose restore is not edited: the order of    *)
(* stopping, resetting, starting and joining.                              *)
(***************************************************************************)
EXTENDS RestorePlanProofs, RestoreRefinement

\* The cluster has one restore, nobody changes its backup or adds machines.
Undisturbed ==
  /\ Restores = {TheRestore}
  /\ "edit" \notin FaultKinds /\ "scale" \notin FaultKinds

Backup == restore[TheRestore].backup

\* Every copy of the restore names its backup, and the machines are those of the start.
CopyInv ==
  /\ restore[TheRestore].live => restore[TheRestore].gen # 0
  /\ restoreCache[TheRestore].live =>
       restoreCache[TheRestore].backup = Backup /\ restore[TheRestore].gen # 0
  /\ rec.pc # "idle" =>
       rec.obj.backup = Backup /\ restore[TheRestore].gen # 0 /\ rec.machines = InitialMachines
  /\ machine = [m \in Machines |-> IF m \in InitialMachines THEN "Running" ELSE "Absent"]
  /\ machineCache = machine

\* Where the reconcile is, and which machine it is about.
ScopeInv ==
  /\ rec.phase = "Restore" /\ rec.pc \in {"loop", "get", "fill", "check"} =>
       getInternalMachineIP(initMachine) = Target /\ initMachine = Target
  /\ rec.phase = "Shutdown" /\ rec.pc \in {"get", "fill", "check"} => rec.m = Target /\ initMachine = Target

\* The plans that a machine is handed in the course of the restore.
PlansOf(m) ==
  {NoPlan, killPlan} \cup IF m = Target THEN {restorePlan(BackupLocation[Backup]), startPlan}
                                        ELSE {joinPlan(Target)}

Applied(m) == secret[m].applied.sha256 = secret[m].plan

\* The agent of a machine is running its plan and has got to instruction i.
At(m, i) == agent[m].plan # NoPlan /\ agent[m].next >= i

\* The agent runs the plan in its secret, if that is not applied.
HandInv(m) ==
  /\ secret[m].plan \in PlansOf(m) /\ secret[m].applied.sha256 \in PlansOf(m)
  /\ agent[m].plan \in {NoPlan, secret[m].plan}
  /\ Applied(m) => agent[m].plan = NoPlan
  /\ secret[m].plan # NoPlan =>
       Backup \in Backups /\ restore[TheRestore].gen # 0 /\ m \in InitialMachines

\* What the machine is like, by the plan in its secret and how far the agent has got.
NodeInv(m) ==
  /\ m \notin InitialMachines => ~node[m].rke2
  /\ Stage(secret[m].plan) = 0 =>
       node[m].lineage = IF m \in InitialMachines THEN Original ELSE NoData
  /\ Stage(secret[m].plan) = 1 =>
       /\ node[m].lineage = Original
       /\ Applied(m) \/ At(m, 2) => ~node[m].rke2
  /\ Stage(secret[m].plan) = 2 =>
       /\ ~node[m].rke2
       /\ node[m].lineage \in {Original, m}
       /\ node[m].lineage = m \/ At(m, 3) => ~node[m].manifests
       /\ Applied(m) \/ At(m, 4) => node[m].lineage = m
  /\ Stage(secret[m].plan) = 3 /\ m = Target =>
       /\ node[m].lineage = m /\ ~node[m].manifests
       /\ Applied(m) \/ At(m, 2) => node[m].rke2
  /\ Stage(secret[m].plan) = 3 /\ m # Target =>
       /\ node[m].rke2 => node[m].lineage \in {NoData, Target} /\ ~node[m].manifests
       /\ At(m, 3) => node[m].server = Target
       /\ At(m, 4) => node[m].lineage \in {NoData, Target}
       /\ At(m, 5) => ~node[m].manifests
       /\ Applied(m) \/ At(m, 6) => node[m].rke2

MachineInv == \A m \in Machines : HandInv(m) /\ NodeInv(m)

\* The restore, the reconcile in progress or a machine has got to the plans of stage k.
Reaches(k) ==
  \/ Rank(restore[TheRestore].phase) >= k
  \/ rec.pc # "idle" /\ Rank(rec.phase) >= k
  \/ \E m \in Machines : Stage(secret[m].plan) >= k

\* Nothing of a stage is handed out before what it rests on is done.
OrderInv ==
  /\ Reaches(2) => \A m \in InitialMachines : AppliedStage(m) >= 1
  /\ Reaches(3) => Target \in InitialMachines /\ AppliedStage(Target) >= 2
  /\ \A m \in Machines : m # Target /\ Stage(secret[m].plan) = 3 => AppliedStage(Target) = 3
  /\ Reaches(4) => \A m \in InitialMachines : AppliedStage(m) = 3

\* What the reconcile has seen is so.
EvidenceInv ==
  /\ rec.pc \in {"fill", "check"} => Stage(rec.sec.applied.sha256) <= AppliedStage(rec.m)
  /\ rec.phase = "Started" /\ rec.ready /\ rec.pc \in {"loop", "get", "fill", "check"} =>
       \A m \in Visited : AppliedStage(m) >= 1
  /\ /\ rec.phase = "Restore" /\ rec.pc \in {"loop", "get", "fill", "check"}
     /\ rec.pc = "loop" \/ rec.m # Target
     => AppliedStage(Target) = 3

-----------------------------------------------------------------------------
(* The plans of a restore.                                                 *)

LEMMA TheOne ==
  ASSUME Undisturbed
  PROVE  /\ TheRestore \in Restores /\ \A r \in Restores : r = TheRestore
         /\ Backup \in Backups => Target = BackupMachine[Backup] /\ Target \in Machines
BY Names DEF Undisturbed, Target, Backup

\* The instructions of the plans, in their order.
LEMMA PlanScripts ==
  /\ Len(killPlan.instructions) = 1 /\ killPlan.instructions[1].script[1] = "killall"
  /\ Len(startPlan.instructions) = 1 /\ startPlan.instructions[1].script[1] = "start-rke2"
  /\ \A loc : /\ Len(restorePlan(loc).instructions) = 3
              /\ restorePlan(loc).instructions[1].script[1] = "remove-server-url"
              /\ restorePlan(loc).instructions[2].script[1] = "remove-manifests"
              /\ restorePlan(loc).instructions[3].script[1] = "cluster-reset"
  /\ \A ip : /\ Len(joinPlan(ip).instructions) = 5
             /\ joinPlan(ip).instructions[1].script[1] = "remove-server-url"
             /\ joinPlan(ip).instructions[2].script[1] = "add-server-url"
             /\ joinPlan(ip).instructions[2].script[2] = ip
             /\ joinPlan(ip).instructions[3].script[1] = "remove-etcd-data"
             /\ joinPlan(ip).instructions[4].script[1] = "remove-manifests"
             /\ joinPlan(ip).instructions[5].script[1] = "start-rke2"
<1> USE DEF Sh, instructionsAsJson
<1>1. Len(killPlan.instructions) = 1 /\ killPlan.instructions[1].script[1] = "killall"
  BY DEF killPlan, killAllInstruction
<1>2. Len(startPlan.instructions) = 1 /\ startPlan.instructions[1].script[1] = "start-rke2"
  BY DEF startPlan, startRKE2Instruction
<1>3. ASSUME NEW loc
      PROVE  /\ Len(restorePlan(loc).instructions) = 3
             /\ restorePlan(loc).instructions[1].script[1] = "remove-server-url"
             /\ restorePlan(loc).instructions[2].script[1] = "remove-manifests"
             /\ restorePlan(loc).instructions[3].script[1] = "cluster-reset"
  BY DEF restorePlan, removeServerUrlFromConfig, manifestRemovalInstruction, etcdRestoreInstruction
<1>4. ASSUME NEW ip
      PROVE  /\ Len(joinPlan(ip).instructions) = 5
             /\ joinPlan(ip).instructions[1].script[1] = "remove-server-url"
             /\ joinPlan(ip).instructions[2].script[1] = "add-server-url"
             /\ joinPlan(ip).instructions[2].script[2] = ip
             /\ joinPlan(ip).instructions[3].script[1] = "remove-etcd-data"
             /\ joinPlan(ip).instructions[4].script[1] = "remove-manifests"
             /\ joinPlan(ip).instructions[5].script[1] = "start-rke2"
  BY DEF joinPlan, removeServerUrlFromConfig, addServerUrlToConfig, removeEtcdDataInstruction,
         manifestRemovalInstruction, startRKE2Instruction
<1> QED
  BY <1>1, <1>2, <1>3, <1>4

\* A machine has one plan for each stage.
LEMMA PlansByStage ==
  ASSUME Undisturbed, Backup \in Backups, NEW m \in Machines, NEW p \in PlansOf(m)
  PROVE  /\ Stage(p) = 0 <=> p = NoPlan
         /\ Stage(p) = 1 <=> p = killPlan
         /\ Stage(p) = 2 <=> m = Target /\ p = restorePlan(BackupLocation[Backup])
         /\ Stage(p) = 3 <=> p = IF m = Target THEN startPlan ELSE joinPlan(Target)
         /\ \A q \in PlansOf(m) : Stage(p) = Stage(q) => p = q
<1>1. Target \in Machines
  BY TheOne
<1>2. /\ Stage(restorePlan(BackupLocation[Backup])) = 2 /\ Stage(startPlan) = 3
      /\ Stage(joinPlan(Target)) = 3 /\ Stage(NoPlan) = 0 /\ Stage(killPlan) = 1
  BY <1>1, PlanStages
<1> QED
  BY <1>2 DEF PlansOf

-----------------------------------------------------------------------------
(* Copies and scope.                                                       *)

\* The restore is created once, and its backup stays.
LEMMA BackupSteps ==
  ASSUME Undisturbed, TypeInv, [Next]_vars
  PROVE  \/ /\ Backup' = Backup /\ restore'[TheRestore].gen = restore[TheRestore].gen
            /\ restore'[TheRestore].live => restore[TheRestore].live
         \/ /\ restore[TheRestore].gen = 0 /\ restore'[TheRestore].gen = 1
            /\ UNCHANGED <<restoreCache, rec, machine, machineCache, agentVars>>
            /\ restore'[TheRestore].phase = restore[TheRestore].phase
<1>0. restore \in [Restores -> RestoreObjects] /\ TheRestore \in Restores
  BY TheOne DEF TypeInv, TypeOK
<1> USE DEF Backup
<1>1. CASE PatchRestore
  BY <1>0, <1>1 DEF PatchRestore, RestoreObjects
<1>2. CASE Worker /\ ~PatchRestore
  BY <1>2 DEF Worker, Reconcile, PauseCluster, UnpauseCluster, stopRKE2OnAllMachines,
              restoreSnaphotOnInitMachine, startRKE2OnAllMachines, finishRestore, NextMachine,
              EndOfLoop, LoopEndsIn, getPlanSecretForMachine, updatePlanSecretWithPlan, CheckMachine,
              CheckInitMachine, WorkerOnly
<1>3. CASE Manager
  BY <1>3 DEF Manager, DeliverRestore, DeliverCluster, DeliverMachines, RestartAfterPanic, NewProcess
<1>4. ASSUME NEW r \in Restores, NEW b \in Backups \cup {None}, CreateRestore(r, b)
      PROVE  /\ restore[TheRestore].gen = 0 /\ restore'[TheRestore].gen = 1
             /\ UNCHANGED <<restoreCache, rec, machine, machineCache, agentVars>>
             /\ restore'[TheRestore].phase = restore[TheRestore].phase
  BY <1>0, <1>4, TheOne DEF CreateRestore, RestoreObjects
<1>5. ASSUME NEW r \in Restores, NEW b \in Backups \cup {None}, EditRestore(r, b) PROVE FALSE
  BY <1>5 DEF EditRestore, Disturbance, Undisturbed
<1>6. ASSUME NEW r \in Restores, DeleteRestore(r)
      PROVE  /\ Backup' = Backup /\ restore'[TheRestore].gen = restore[TheRestore].gen
             /\ restore'[TheRestore].live => restore[TheRestore].live
  BY <1>0, <1>6, TheOne DEF DeleteRestore, RestoreObjects
<1>7. TouchCluster \/ CallFails \/ StatusCallFails \/ Crash => UNCHANGED restore
  BY DEF TouchCluster, CallFails, StatusCallFails, Crash, NewProcess
<1>8. ASSUME NEW m \in Machines, ScaleUp(m) \/ Bootstrap(m) \/ MachineReady(m) \/ AgentCrash(m)
      PROVE  UNCHANGED restore
  BY <1>8 DEF ScaleUp, Bootstrap, MachineReady, AgentCrash
<1>9. ASSUME NEW m \in Machines, Agent(m) PROVE UNCHANGED restore
  BY <1>9 DEF Agent
<1>10. CASE UNCHANGED vars
  BY <1>10 DEF vars
<1>11. CASE Environment
  BY <1>4, <1>5, <1>6, <1>7, <1>8, <1>11 DEF Environment
<1> QED
  BY <1>1, <1>2, <1>3, <1>9, <1>10, <1>11 DEF Next

\* No machine is added, and none is on its way.
LEMMA MachinesStay ==
  ASSUME Undisturbed, TypeInv, CopyInv, [Next]_vars
  PROVE  machine' = machine
<1>1. ASSUME NEW m \in Machines PROVE ~ScaleUp(m) /\ ~MachineReady(m)
  BY DEF ScaleUp, Disturbance, Undisturbed, MachineReady, CopyInv
<1>2. CASE Worker
  BY <1>2 DEF Worker, Reconcile, PauseCluster, UnpauseCluster, stopRKE2OnAllMachines,
              restoreSnaphotOnInitMachine, startRKE2OnAllMachines, finishRestore, NextMachine,
              EndOfLoop, LoopEndsIn, getPlanSecretForMachine, updatePlanSecretWithPlan, CheckMachine,
              CheckInitMachine, PatchRestore, WorkerOnly
<1>3. CASE Manager
  BY <1>3 DEF Manager, DeliverRestore, DeliverCluster, DeliverMachines, RestartAfterPanic, NewProcess
<1>4. CASE Environment
  BY <1>1, <1>4 DEF Environment, CreateRestore, EditRestore, DeleteRestore, TouchCluster, Bootstrap,
              AgentCrash, CallFails, StatusCallFails, Crash, NewProcess
<1>5. ASSUME NEW m \in Machines, Agent(m) PROVE machine' = machine
  BY <1>5 DEF Agent
<1>6. CASE UNCHANGED vars
  BY <1>6 DEF vars
<1> QED
  BY <1>2, <1>3, <1>4, <1>5, <1>6 DEF Next

\* Every step keeps CopyInv.
LEMMA CopyInvNext ==
  ASSUME Undisturbed, TypeInv, HandedInv, CopyInv, [Next]_vars
  PROVE  CopyInv'
<1>0. restore \in [Restores -> RestoreObjects] /\ TheRestore \in Restores /\ Restores = {TheRestore}
  BY TheOne DEF TypeInv, TypeOK, Undisturbed
<1>1. machine' = machine /\ machineCache' = machineCache
  BY MachinesStay, MachinePhaseSteps DEF CopyInv
<1>2. CASE /\ restore[TheRestore].gen = 0 /\ restore'[TheRestore].gen = 1
           /\ UNCHANGED <<restoreCache, rec, machine, machineCache, agentVars>>
  BY <1>2 DEF CopyInv
<1>3. CASE /\ Backup' = Backup /\ restore'[TheRestore].gen = restore[TheRestore].gen
           /\ restore'[TheRestore].live => restore[TheRestore].live
  <2>1. restore'[TheRestore].live => restore'[TheRestore].gen # 0
    BY <1>3 DEF CopyInv
  <2>2. restoreCache'[TheRestore].live =>
          restoreCache'[TheRestore].backup = Backup' /\ restore'[TheRestore].gen # 0
    <3>1. \/ restoreCache' = restoreCache
          \/ restoreCache'[TheRestore] = restore[TheRestore]
      BY <1>0, CopySteps
    <3> QED
      BY <1>3, <3>1 DEF CopyInv, Backup
  <2>3. rec'.pc # "idle" => rec'.obj.backup = Backup' /\ restore'[TheRestore].gen # 0
    <3>1. \/ rec'.pc = "idle"
          \/ rec.pc # "idle" /\ rec'.obj = rec.obj
          \/ rec'.obj = restoreCache[TheRestore] /\ Reconcile(TheRestore)
      BY <1>0, CopySteps
    <3>2. Reconcile(TheRestore) => restoreCache[TheRestore].live
      BY DEF Reconcile
    <3> QED
      BY <1>3, <3>1, <3>2 DEF CopyInv
  <2>4. rec'.pc # "idle" => rec'.machines = InitialMachines
    <3>1. ASSUME NEW r \in Restores, Reconcile(r) PROVE rec'.machines = InitialMachines
      <4>1. rec'.machines = {m \in Machines : machineCache[m] # "Absent"}
        BY <3>1 DEF Reconcile, IdleRec
      <4> QED
        BY <4>1, Names DEF CopyInv
    <3> QED
      BY <3>1, ScopeSteps DEF CopyInv
  <2> QED
    BY <1>1, <2>1, <2>2, <2>3, <2>4 DEF CopyInv
<1> QED
  BY <1>2, <1>3, BackupSteps

InLoop == rec.pc \in {"loop", "get", "fill", "check"}

\* How a reconcile comes to and goes on with the machines.
LEMMA LoopSteps ==
  ASSUME TypeInv, [Next]_vars, InLoop'
  PROVE  \/ rec' = rec
         \/ stopRKE2OnAllMachines
         \/ /\ rec.pc = "switch" /\ rec.phase = "Shutdown" /\ initMachine # None
            /\ rec' = [rec EXCEPT !.pc = "get", !.m = initMachine]
         \/ /\ rec.pc = "switch" /\ rec.phase = "Restore" /\ getInternalMachineIP(initMachine) # None
            /\ rec' = [rec EXCEPT !.pc = "get", !.m = initMachine]
         \/ /\ \/ \E m \in Machines : NextMachine(m)
               \/ getPlanSecretForMachine \/ updatePlanSecretWithPlan
               \/ CheckMachine \/ CheckInitMachine
            /\ InLoop /\ rec'.phase = rec.phase /\ rec'.obj = rec.obj /\ rec'.machines = rec.machines
            /\ rec'.m = rec.m \/ rec.pc = "loop"
<1>0. rec \in Reconciles
  BY DEF TypeInv, TypeOK
<1> USE DEF InLoop
<1>1. CASE rec' = [rec EXCEPT !.pc = "status"]
  BY <1>0, <1>1 DEF Reconciles
<1>2. CASE \E r \in Restores : Reconcile(r)
  <2>1. ASSUME NEW r \in Restores, Reconcile(r) PROVE rec'.pc \in {"pause", "status"}
    BY <2>1 DEF Reconcile, IdleRec
  <2> QED
    BY <1>2, <2>1
<1>3. CASE PauseCluster \/ UnpauseCluster \/ finishRestore
  BY <1>0, <1>3 DEF PauseCluster, UnpauseCluster, finishRestore, Return, Reconciles
<1>4. CASE PatchRestore
  BY <1>4, IdlePc DEF PatchRestore
<1>5. ASSUME NEW phase, LoopEndsIn(phase) PROVE FALSE
  BY <1>0, <1>5 DEF LoopEndsIn, Reconciles
<1>6. CASE restoreSnaphotOnInitMachine
  BY <1>0, <1>6 DEF restoreSnaphotOnInitMachine, Return, Reconciles
<1>7. CASE startRKE2OnAllMachines
  BY <1>0, <1>7 DEF startRKE2OnAllMachines, Return, Reconciles
<1>8. CASE \E m \in Machines : NextMachine(m)
  BY <1>0, <1>8 DEF NextMachine, Reconciles
<1>9. CASE getPlanSecretForMachine \/ updatePlanSecretWithPlan
  BY <1>0, <1>9, ZenonT(60) DEF getPlanSecretForMachine, updatePlanSecretWithPlan, Return, Reconciles
<1>10. CASE CheckMachine
  BY <1>0, <1>10 DEF CheckMachine, Reconciles
<1>11. CASE CheckInitMachine
  BY <1>0, <1>11 DEF CheckInitMachine, Return, Reconciles
<1> QED
  BY <1>1, <1>2, <1>3, <1>4, <1>5, <1>6, <1>7, <1>8, <1>9, <1>10, <1>11, RecSteps DEF Worker, EndOfLoop

\* Every step keeps ScopeInv.
LEMMA ScopeInvNext ==
  ASSUME Undisturbed, TypeInv, PhaseInv, CopyInv, ScopeInv, [Next]_vars
  PROVE  ScopeInv'
<1>0. rec \in Reconciles
  BY DEF TypeInv, TypeOK
<1>1. ASSUME rec.pc # "idle" PROVE Target' = Target
  BY <1>1, BackupSteps DEF CopyInv, Target, Backup
<1>2. ASSUME Working, initMachine # None PROVE initMachine = Target
  BY <1>2, TheOne DEF Working, initMachine, CopyInv, TypeInv, RecOK
<1>3. ASSUME rec'.obj = rec.obj, rec'.machines = rec.machines PROVE initMachine' = initMachine
  BY <1>3 DEF initMachine
<1> SUFFICES ASSUME InLoop' PROVE ScopeInv'
  BY DEF InLoop, ScopeInv
<1>4. CASE rec' = rec
  BY <1>1, <1>3, <1>4 DEF ScopeInv, InLoop, getInternalMachineIP
<1>5. CASE stopRKE2OnAllMachines
  BY <1>0, <1>5 DEF stopRKE2OnAllMachines, ScopeInv, Reconciles
<1>6. CASE /\ rec.pc = "switch" /\ rec.phase = "Shutdown" /\ initMachine # None
           /\ rec' = [rec EXCEPT !.pc = "get", !.m = initMachine]
  <2>1. rec'.obj = rec.obj /\ rec'.machines = rec.machines /\ rec'.m = initMachine /\ rec'.phase = "Shutdown"
    BY <1>0, <1>6 DEF Reconciles
  <2> QED
    BY <1>1, <1>2, <1>3, <1>6, <2>1 DEF ScopeInv, Working
<1>7. CASE /\ rec.pc = "switch" /\ rec.phase = "Restore" /\ getInternalMachineIP(initMachine) # None
           /\ rec' = [rec EXCEPT !.pc = "get", !.m = initMachine]
  <2>1. rec'.obj = rec.obj /\ rec'.machines = rec.machines /\ rec'.m = initMachine /\ rec'.phase = "Restore"
    BY <1>0, <1>7 DEF Reconciles
  <2>2. initMachine # None /\ getInternalMachineIP(initMachine) = initMachine
    BY <1>7 DEF getInternalMachineIP
  <2> QED
    BY <1>1, <1>2, <1>3, <1>7, <2>1, <2>2 DEF ScopeInv, Working, getInternalMachineIP
<1>8. CASE /\ InLoop /\ rec'.phase = rec.phase /\ rec'.obj = rec.obj /\ rec'.machines = rec.machines
           /\ rec'.m = rec.m \/ rec.pc = "loop"
  <2>1. rec.phase = "Shutdown" => rec.pc # "loop"
    BY DEF PhaseInv
  <2> QED
    BY <1>1, <1>3, <1>8, <2>1 DEF ScopeInv, InLoop, getInternalMachineIP
<1> QED
  BY <1>4, <1>5, <1>6, <1>7, <1>8, LoopSteps

\* What a reconcile hands out is the plan of the machine for its phase.
LEMMA Wanted ==
  ASSUME Undisturbed, TypeInv, PhaseInv, HandedInv, CopyInv, ScopeInv, rec.pc \in {"get", "fill", "check"}
  PROVE  /\ Backup \in Backups /\ restore[TheRestore].gen # 0 /\ rec.m \in InitialMachines
         /\ wantedPlan \in PlansOf(rec.m) /\ Stage(wantedPlan) = Rank(rec.phase)
<1>1. rec.phase \in {"Started", "Shutdown", "Restore"}
  BY DEF PhaseInv
<1>2. rec.obj.backup = Backup /\ Backup \in Backups
  BY DEF CopyInv, TypeInv, RecOK
<1>3. rec.m \in InitialMachines
  BY DEF CopyInv, HandedInv
<1>4. ASSUME rec.phase = "Started" PROVE wantedPlan \in PlansOf(rec.m)
  BY <1>4 DEF wantedPlan, PlansOf
<1>5. ASSUME rec.phase = "Shutdown" PROVE wantedPlan \in PlansOf(rec.m)
  BY <1>2, <1>5 DEF wantedPlan, PlansOf, ScopeInv
<1>6. ASSUME rec.phase = "Restore" PROVE wantedPlan \in PlansOf(rec.m)
  BY <1>6 DEF wantedPlan, PlansOf, ScopeInv
<1> QED
  BY <1>1, <1>2, <1>3, <1>4, <1>5, <1>6, WantedStage DEF CopyInv

\* Which plan an agent is running when it gets to a script.
LEMMA AgentAt ==
  ASSUME Undisturbed, TypeInv, NEW m \in Machines, HandInv(m), NEW op, AtScript(m, op)
  PROVE  /\ agent[m].plan = secret[m].plan /\ ~Applied(m) /\ Backup \in Backups /\ m \in InitialMachines
         /\ op = "killall" => secret[m].plan = killPlan /\ agent[m].next = 1
         /\ op = "remove-server-url" =>
              agent[m].next = 1 /\ (Stage(secret[m].plan) = 2 \/ (Stage(secret[m].plan) = 3 /\ m # Target))
         /\ op = "add-server-url" =>
              Stage(secret[m].plan) = 3 /\ m # Target /\ agent[m].next = 2 /\ Script(m)[2] = Target
         /\ op = "remove-manifests" =>
              \/ Stage(secret[m].plan) = 2 /\ agent[m].next = 2
              \/ Stage(secret[m].plan) = 3 /\ m # Target /\ agent[m].next = 4
         /\ op = "remove-etcd-data" => Stage(secret[m].plan) = 3 /\ m # Target /\ agent[m].next = 3
         /\ op = "cluster-reset" => Stage(secret[m].plan) = 2 /\ m = Target /\ agent[m].next = 3
         /\ op = "start-rke2" =>
              \/ Stage(secret[m].plan) = 3 /\ m = Target /\ agent[m].next = 1
              \/ Stage(secret[m].plan) = 3 /\ m # Target /\ agent[m].next = 5
<1> DEFINE p == secret[m].plan
           i == agent[m].next
<1>1. /\ agent[m].plan = p /\ p # NoPlan /\ ~Applied(m) /\ p \in PlansOf(m) /\ Backup \in Backups
      /\ m \in InitialMachines
  BY DEF HandInv, AtScript, Busy
<1>2. /\ i \in Nat \ {0} /\ ~(i > Len(p.instructions))
      /\ p.instructions[i].script[1] = op /\ Script(m) = p.instructions[i].script
  BY <1>1 DEF AtScript, Done, Script, TypeInv, TypeOK
<1> HIDE DEF p, i
<1>3. CASE p = killPlan
  <2>1. i = 1 /\ op = "killall"
    BY <1>2, <1>3, PlanScripts
  <2> QED
    BY <1>1, <1>3, <2>1 DEF p, i
<1>4. CASE m = Target /\ p = restorePlan(BackupLocation[Backup])
  <2>1. i \in {1, 2, 3}
    BY <1>2, <1>4, PlanScripts
  <2>2. /\ i = 1 => op = "remove-server-url"
        /\ i = 2 => op = "remove-manifests"
        /\ i = 3 => op = "cluster-reset"
    BY <1>2, <1>4, PlanScripts
  <2>3. Stage(p) = 2
    BY <1>1, <1>4, PlansByStage
  <2> QED
    BY <1>1, <1>4, <2>1, <2>2, <2>3 DEF p, i
<1>5. CASE m = Target /\ p = startPlan
  <2>1. i = 1 /\ op = "start-rke2"
    BY <1>2, <1>5, PlanScripts
  <2>2. Stage(p) = 3
    BY <1>1, <1>5, PlansByStage
  <2> QED
    BY <1>1, <1>5, <2>1, <2>2 DEF p, i
<1>6. CASE m # Target /\ p = joinPlan(Target)
  <2>1. i \in {1, 2, 3, 4, 5}
    BY <1>2, <1>6, PlanScripts
  <2>2. /\ i = 1 => op = "remove-server-url"
        /\ i = 2 => op = "add-server-url" /\ Script(m)[2] = Target
        /\ i = 3 => op = "remove-etcd-data"
        /\ i = 4 => op = "remove-manifests"
        /\ i = 5 => op = "start-rke2"
    BY <1>2, <1>6, PlanScripts
  <2>3. Stage(p) = 3
    BY <1>1, <1>6, PlansByStage
  <2> QED
    BY <1>1, <1>6, <2>1, <2>2, <2>3 DEF p, i
<1> QED
  BY <1>1, <1>3, <1>4, <1>5, <1>6 DEF PlansOf

-----------------------------------------------------------------------------
(* The agents and their machines.                                          *)

\* What an agent's step does to its own machine.
LEMMA AgentNode ==
  ASSUME Undisturbed, TypeInv, AgentInv, MachineInv, OrderInv, NEW m \in Machines,
         AgentStep(m) \/ AgentRestart(m), UNCHANGED restore
  PROVE  HandInv(m)' /\ NodeInv(m)'
<1>0. /\ agent \in [Machines -> [plan : Plans, next : Nat \ {0}]] /\ node \in [Machines -> Nodes]
      /\ secret \in [Machines -> PlanSecrets]
  BY DEF TypeInv, TypeOK
<1>1. HandInv(m) /\ NodeInv(m) /\ node[m] \in Nodes /\ agent[m].next \in Nat \ {0}
  BY <1>0 DEF MachineInv
<1>2. UNCHANGED <<Target, Backup, PlansOf(m)>>
  BY DEF Target, Backup, PlansOf
<1>3. Stage(secret[m].plan) \in 0..3 /\ (Stage(secret[m].plan) = 1 <=> secret[m].plan = killPlan)
  BY PlanStages
<1>4. CASE AgentFetch(m)
  <2>1. /\ agent'[m].plan = secret[m].plan /\ agent'[m].next = 1 /\ UNCHANGED <<secret, node>>
        /\ ~Applied(m)
    BY <1>0, <1>4 DEF AgentFetch, isPlanApplied, Checksum, Applied, PlanSecrets
  <2>2. HandInv(m)'
    BY <1>1, <1>2, <2>1 DEF HandInv, Applied
  <2> QED
    BY <1>1, <1>2, <2>1, <2>2 DEF NodeInv, At, Applied
<1>5. CASE ScriptFails(m) \/ AgentRestart(m)
  <2>1. agent'[m].plan = NoPlan /\ UNCHANGED <<secret, node>>
    BY <1>0, <1>5 DEF ScriptFails, AgentRestart, IdleAgent
  <2>2. HandInv(m)'
    BY <1>1, <1>2, <2>1 DEF HandInv, Applied
  <2> QED
    BY <1>1, <1>2, <2>1, <2>2 DEF NodeInv, At, Applied
<1>6. CASE AgentReport(m)
  <2>1. /\ agent'[m].plan = NoPlan /\ UNCHANGED node /\ Done(m) /\ agent[m].plan # NoPlan
        /\ secret'[m].applied.sha256 = agent[m].plan /\ secret'[m].plan = secret[m].plan
    BY <1>0, <1>6 DEF AgentReport, IdleAgent, PlanSecrets, Checksum, Busy
  <2>2. HandInv(m)'
    BY <1>1, <1>2, <2>1 DEF HandInv, Applied
  <2>3. secret[m].plan \in PlansOf(m) /\ Backup \in Backups /\ agent[m].plan = secret[m].plan
    BY <1>1, <2>1 DEF HandInv
  <2>4. /\ Stage(secret[m].plan) = 1 => At(m, 2)
        /\ Stage(secret[m].plan) = 2 => At(m, 4)
        /\ Stage(secret[m].plan) = 3 /\ m = Target => At(m, 2)
        /\ Stage(secret[m].plan) = 3 /\ m # Target => At(m, 6)
    <3>1. /\ Stage(secret[m].plan) = 1 => agent[m].plan = killPlan
          /\ Stage(secret[m].plan) = 2 => agent[m].plan = restorePlan(BackupLocation[Backup])
          /\ Stage(secret[m].plan) = 3 /\ m = Target => agent[m].plan = startPlan
          /\ Stage(secret[m].plan) = 3 /\ m # Target => agent[m].plan = joinPlan(Target)
      BY <2>3, PlansByStage
    <3>2. /\ Len(killPlan.instructions) = 1 /\ Len(startPlan.instructions) = 1
          /\ Len(restorePlan(BackupLocation[Backup]).instructions) = 3
          /\ Len(joinPlan(Target).instructions) = 5
      BY PlanScripts
    <3>3. agent[m].next \in Nat /\ agent[m].next > Len(agent[m].plan.instructions)
      BY <1>0, <2>1 DEF Done
    <3> DEFINE next == agent[m].next
    <3>4. /\ Stage(secret[m].plan) = 1 => next > 1
          /\ Stage(secret[m].plan) = 2 => next > 3
          /\ Stage(secret[m].plan) = 3 /\ m = Target => next > 1
          /\ Stage(secret[m].plan) = 3 /\ m # Target => next > 5
      BY <3>1, <3>2, <3>3, Zenon
    <3>5. \A k \in Nat : next > k => next >= k + 1
      BY <3>3
    <3> QED
      BY <2>1, <3>4, <3>5 DEF At
  <2>5. ~At(m, 2)' /\ ~At(m, 3)' /\ ~At(m, 4)' /\ ~At(m, 5)' /\ ~At(m, 6)'
    BY <2>1 DEF At
  <2> QED
    BY <1>1, <1>2, <2>1, <2>2, <2>4, <2>5 DEF NodeInv
<1>7. ASSUME NEW op, NEW n, Runs(m, op, n)
      PROVE  /\ HandInv(m)' /\ AtScript(m, op) /\ UNCHANGED secret /\ node'[m] = n
             /\ agent'[m].plan = agent[m].plan /\ agent'[m].next = agent[m].next + 1
  <2>1. /\ AtScript(m, op) /\ UNCHANGED secret /\ node'[m] = n
        /\ agent'[m].plan = agent[m].plan /\ agent'[m].next = agent[m].next + 1
    BY <1>0, <1>7 DEF Runs
  <2> QED
    BY <1>1, <1>2, <2>1 DEF HandInv, Applied
<1>8. CASE KillAll(m)
  <2>1. Runs(m, "killall", [node[m] EXCEPT !.rke2 = FALSE])
    BY <1>8 DEF KillAll
  <2>2. ~node'[m].rke2 /\ node'[m].lineage = node[m].lineage
    BY <1>1, <1>7, <2>1 DEF Nodes
  <2> QED
    BY <1>1, <1>2, <1>3, <1>7, <2>1, <2>2, AgentAt DEF NodeInv
<1>9. CASE RemoveServerUrl(m)
  <2>1. Runs(m, "remove-server-url", [node[m] EXCEPT !.server = NoServer])
    BY <1>9 DEF RemoveServerUrl
  <2>2. node'[m].rke2 = node[m].rke2 /\ node'[m].lineage = node[m].lineage /\ node'[m].manifests = node[m].manifests
    BY <1>1, <1>7, <2>1 DEF Nodes
  <2> QED
    BY <1>1, <1>2, <1>3, <1>7, <2>1, <2>2, AgentAt DEF NodeInv, At, Applied
<1>10. CASE AddServerUrl(m)
  <2>1. Runs(m, "add-server-url", [node[m] EXCEPT !.server = Script(m)[2]])
    BY <1>10 DEF AddServerUrl
  <2>2. /\ node'[m].rke2 = node[m].rke2 /\ node'[m].lineage = node[m].lineage
        /\ node'[m].manifests = node[m].manifests /\ node'[m].server = Script(m)[2]
    BY <1>1, <1>7, <2>1 DEF Nodes
  <2> QED
    BY <1>1, <1>2, <1>3, <1>7, <2>1, <2>2, AgentAt DEF NodeInv, At, Applied
<1>11. CASE RemoveManifests(m)
  <2>1. Runs(m, "remove-manifests", [node[m] EXCEPT !.manifests = FALSE])
    BY <1>11 DEF RemoveManifests
  <2>2. /\ node'[m].rke2 = node[m].rke2 /\ node'[m].lineage = node[m].lineage
        /\ ~node'[m].manifests /\ node'[m].server = node[m].server
    BY <1>1, <1>7, <2>1 DEF Nodes
  <2> QED
    BY <1>1, <1>2, <1>3, <1>7, <2>1, <2>2, AgentAt DEF NodeInv, At, Applied
<1>12. CASE RemoveEtcdData(m)
  <2>1. Runs(m, "remove-etcd-data", [node[m] EXCEPT !.lineage = NoData, !.snapshot = {}])
    BY <1>12 DEF RemoveEtcdData
  <2>2. node'[m] = [node[m] EXCEPT !.lineage = NoData, !.snapshot = {}]
    BY <1>7, <2>1
  <2>3. /\ node'[m].rke2 = node[m].rke2 /\ node'[m].lineage = NoData
        /\ node'[m].manifests = node[m].manifests /\ node'[m].server = node[m].server
    BY <1>1, <2>2 DEF Nodes
  <2> QED
    BY <1>1, <1>2, <1>3, <1>7, <2>1, <2>3, AgentAt DEF NodeInv, At, Applied
<1>13. CASE ClusterReset(m)
  <2>1. PICK s : Runs(m, "cluster-reset", [node[m] EXCEPT !.lineage = m, !.snapshot = s])
    BY <1>13 DEF ClusterReset
  <2>2. node'[m] = [node[m] EXCEPT !.lineage = m, !.snapshot = s]
    BY <1>7, <2>1
  <2>3. /\ node'[m].rke2 = node[m].rke2 /\ node'[m].lineage = m
        /\ node'[m].manifests = node[m].manifests /\ node'[m].server = node[m].server
    BY <1>1, <2>2 DEF Nodes
  <2>4. /\ HandInv(m)' /\ UNCHANGED secret /\ m = Target /\ m \in InitialMachines
        /\ Stage(secret[m].plan) = 2 /\ ~Applied(m) /\ agent[m].plan # NoPlan /\ agent[m].next = 3
    BY <1>1, <1>7, <2>1, AgentAt DEF AtScript, Busy
  <2>5. ~node[m].rke2 /\ ~node[m].manifests
    BY <1>1, <2>4 DEF NodeInv, At
  <2> QED
    BY <1>2, <2>3, <2>4, <2>5 DEF NodeInv
<1>14. CASE StartRKE2(m)
  <2>1. PICK n : Runs(m, "start-rke2", n)
    BY <1>14 DEF StartRKE2
  <2>2. /\ AtScript(m, "start-rke2") /\ HandInv(m)' /\ UNCHANGED secret
        /\ agent'[m].plan = agent[m].plan /\ agent'[m].next = agent[m].next + 1
    BY <1>7, <2>1
  <2>3. CASE m = Target
    <3>1. Stage(secret[m].plan) = 3 /\ node[m].lineage = Target
      BY <1>1, <2>2, <2>3, AgentAt DEF NodeInv
    <3>2. Target # NoData
      BY <2>3, MachineNames
    <3>3. Runs(m, "start-rke2", [node[m] EXCEPT !.rke2 = TRUE])
      BY <1>14, <3>1, <3>2 DEF StartRKE2
    <3>4. node'[m].rke2 /\ node'[m].lineage = node[m].lineage /\ node'[m].manifests = node[m].manifests
      BY <1>1, <1>7, <3>3 DEF Nodes
    <3> QED
      BY <1>1, <1>2, <1>3, <2>2, <2>3, <3>1, <3>4, AgentAt DEF NodeInv
  <2>4. CASE m # Target
    <3>0. agent[m].plan # NoPlan
      BY <2>2 DEF AtScript, Busy
    <3>1. /\ Stage(secret[m].plan) = 3 /\ agent[m].next = 5 /\ Backup \in Backups
          /\ m \in InitialMachines
          /\ agent[m].plan = secret[m].plan /\ agent[m].plan # NoPlan
      BY <1>1, <2>2, <2>4, <3>0, AgentAt
    <3>2. /\ node[m].server = Target /\ node[m].lineage \in {NoData, Target} /\ ~node[m].manifests
      BY <1>1, <2>4, <3>1 DEF NodeInv, At
    <3>3. Target \in Machines /\ node[Target].lineage = Target
      <4>1. AppliedStage(Target) = 3 /\ Target \in Machines
        BY <2>4, <3>1, TheOne DEF OrderInv
      <4>2. Stage(secret[Target].plan) = 3
        BY <4>1, PlanStages DEF AgentInv, AgentOK
      <4> QED
        BY <4>1, <4>2 DEF MachineInv, NodeInv
    <3>4. NoServer # Target /\ Endpoint # Target
      BY <3>3, MachineNames
    <3>5. JoinTargets(m) \subseteq {Target}
      BY <3>2, <3>4 DEF JoinTargets
    <3>6. \/ Runs(m, "start-rke2", [node[m] EXCEPT !.rke2 = TRUE])
          \/ \E s : Runs(m, "start-rke2", [node[m] EXCEPT !.rke2 = TRUE, !.lineage = Target, !.snapshot = s])
      BY <1>14, <3>2, <3>3, <3>4, <3>5 DEF StartRKE2
    <3>7. /\ node'[m].rke2 /\ node'[m].lineage \in {NoData, Target}
          /\ node'[m].manifests = node[m].manifests /\ node'[m].server = node[m].server
      <4>1. \/ node'[m] = [node[m] EXCEPT !.rke2 = TRUE]
            \/ \E s : node'[m] = [node[m] EXCEPT !.rke2 = TRUE, !.lineage = Target, !.snapshot = s]
        BY <1>7, <3>6
      <4> QED
        BY <1>1, <3>2, <4>1 DEF Nodes
    <3> QED
      BY <1>2, <2>2, <2>4, <3>1, <3>2, <3>7 DEF NodeInv
  <2> QED
    BY <2>3, <2>4
<1> QED
  BY <1>4, <1>5, <1>6, <1>8, <1>9, <1>10, <1>11, <1>12, <1>13, <1>14 DEF AgentStep

\* What an agent does keeps MachineInv.
LEMMA MachineInvAgent ==
  ASSUME Undisturbed, TypeInv, AgentInv, MachineInv, OrderInv, NEW m \in Machines,
         AgentStep(m) \/ AgentRestart(m), UNCHANGED restore
  PROVE  MachineInv'
<1>0. /\ agent \in [Machines -> [plan : Plans, next : Nat \ {0}]] /\ node \in [Machines -> Nodes]
      /\ secret \in [Machines -> PlanSecrets]
  BY DEF TypeInv, TypeOK
<1>1. \A x \in Machines \ {m} : UNCHANGED <<agent[x], secret[x], node[x]>>
  BY <1>0 DEF AgentStep, AgentRestart, AgentFetch, KillAll, RemoveServerUrl, AddServerUrl,
              RemoveManifests, RemoveEtcdData, ClusterReset, StartRKE2, ScriptFails, AgentReport, Runs
<1>2. UNCHANGED <<Target, Backup>>
  BY DEF Target, Backup
<1>3. ASSUME NEW x \in Machines \ {m} PROVE HandInv(x)' /\ NodeInv(x)'
  <2>1. HandInv(x) /\ NodeInv(x) /\ UNCHANGED <<agent[x], secret[x], node[x]>>
    BY <1>1 DEF MachineInv
  <2>2. UNCHANGED PlansOf(x)
    BY <1>2 DEF PlansOf
  <2>3. HandInv(x)'
    BY <1>2, <2>1, <2>2 DEF HandInv, Applied
  <2> QED
    BY <1>2, <2>1, <2>3 DEF NodeInv, Applied, At
<1>4. HandInv(m)' /\ NodeInv(m)'
  BY AgentNode
<1> QED
  BY <1>3, <1>4 DEF MachineInv

\* A machine that is handed a new plan has applied the one before, and is as that left it.
LEMMA NewPlan ==
  ASSUME Undisturbed, TypeInv, PhaseInv, PlanInv, AgentInv, HandedInv, CopyInv, ScopeInv, MachineInv,
         OrderInv, NEW m \in Machines, m = rec.m, rec.pc = "fill", updatePlanSecretWithPlan,
         secret' = [secret EXCEPT ![m].plan = wantedPlan], secret[m].plan # wantedPlan
  PROVE  HandInv(m)' /\ NodeInv(m)'
<1> DEFINE s == Stage(secret[m].plan)
           a == AppliedStage(m)
           w == Stage(wantedPlan)
<1>1. /\ Backup \in Backups /\ restore[TheRestore].gen # 0 /\ m \in InitialMachines
      /\ wantedPlan \in PlansOf(m) /\ w = Rank(rec.phase) /\ Target \in Machines
  BY Wanted, TheOne DEF TypeInv, RecOK
<1>2. /\ UNCHANGED <<Target, Backup, restore[TheRestore].gen, agent, node>> /\ PlansOf(m)' = PlansOf(m)
  BY DEF updatePlanSecretWithPlan, WorkerOnly, Target, Backup, PlansOf
<1>3. secret'[m].plan = wantedPlan /\ secret'[m].applied = secret[m].applied
  BY <1>1 DEF TypeInv, TypeOK, PlanSecrets
<1>4. HandInv(m) /\ NodeInv(m) /\ AgentOK(m)
  BY <1>1 DEF MachineInv, AgentInv
<1>5. s \in 0..3 /\ a \in 0..3 /\ w \in 1..4 /\ w \in 0..3 /\ a <= s
  BY <1>1, <1>4, PlanStages, PhaseRanks DEF AppliedStage, AgentOK
<1>6. s < w
  <2>1. s # w
    BY <1>1, <1>4, PlansByStage DEF HandInv
  <2>2. s <= Rank(rec.obj.phase) /\ w = Rank(rec.obj.phase)
    BY <1>1, WantedStage, TheOne DEF PlanInv
  <2> QED
    BY <1>5, <2>1, <2>2
<1>7. a = s /\ Applied(m)
  <2>1. w >= 2 => a >= 1
    BY <1>1 DEF OrderInv, Reaches
  <2>2. w >= 3 /\ m = Target => a >= 2
    BY <1>1 DEF OrderInv, Reaches
  <2>3. s = 2 => m = Target
    BY <1>1, <1>4, PlansByStage DEF HandInv
  <2>4. a = s
    BY <1>5, <1>6, <2>1, <2>2, <2>3
  <2> QED
    BY <1>1, <1>4, <2>4, PlansByStage DEF HandInv, AppliedStage, Applied
<1>8. agent[m].plan = NoPlan
  BY <1>4, <1>7 DEF HandInv
<1>9. ~Applied(m)'
  BY <1>2, <1>3, <1>6, <1>7, <1>5 DEF AppliedStage, Applied
<1>10. HandInv(m)'
  BY <1>1, <1>2, <1>3, <1>4, <1>8, <1>9 DEF HandInv
<1>11. NodeInv(m)'
  <2>1. CASE w = 1
    <3>1. node[m].lineage = Original
      BY <1>1, <1>4, <1>5, <1>6, <2>1 DEF NodeInv
    <3> QED
      BY <1>1, <1>2, <1>3, <1>8, <1>9, <2>1, <3>1 DEF NodeInv, At
  <2>2. CASE w = 2
    <3>1. s = 1 /\ m = Target
      BY <1>1, <1>5, <1>6, <1>7, <2>2, PlansByStage DEF OrderInv, Reaches
    <3>2. ~node[m].rke2 /\ node[m].lineage = Original /\ Original # m
      BY <1>4, <1>7, <3>1, MachineNames DEF NodeInv
    <3> QED
      BY <1>1, <1>2, <1>3, <1>8, <1>9, <2>2, <3>1, <3>2 DEF NodeInv, At
  <2>3. CASE w = 3 /\ m = Target
    <3>1. s = 2
      BY <1>1, <1>5, <1>6, <1>7, <2>3 DEF OrderInv, Reaches
    <3>2. node[m].lineage = m /\ ~node[m].manifests
      BY <1>4, <1>7, <3>1 DEF NodeInv
    <3> QED
      BY <1>1, <1>2, <1>3, <1>8, <1>9, <2>3, <3>2 DEF NodeInv, At
  <2>4. CASE w = 3 /\ m # Target
    <3>1. s = 1
      <4>1. s # 2
        BY <1>1, <1>4, <2>4, PlansByStage DEF HandInv
      <4>2. a >= 1
        BY <1>1, <2>4 DEF OrderInv, Reaches
      <4> QED
        BY <1>5, <1>6, <2>4, <4>1, <4>2
    <3>2. ~node[m].rke2
      BY <1>4, <1>7, <3>1 DEF NodeInv
    <3> QED
      BY <1>1, <1>2, <1>3, <1>8, <1>9, <2>4, <3>2 DEF NodeInv, At
  <2> QED
    BY <1>5, <2>1, <2>2, <2>3, <2>4
<1> QED
  BY <1>10, <1>11

\* Every step keeps MachineInv.
LEMMA MachineInvNext ==
  ASSUME Undisturbed, TypeInv, PhaseInv, PlanInv, AgentInv, HandedInv, CopyInv, ScopeInv, MachineInv,
         OrderInv, [Next]_vars
  PROVE  MachineInv'
<1>0. secret \in [Machines -> PlanSecrets]
  BY DEF TypeInv, TypeOK
<1>1. CASE restore[TheRestore].gen = 0 /\ restore'[TheRestore].gen = 1 /\ UNCHANGED agentVars
  <2>1. ASSUME NEW m \in Machines
        PROVE  /\ secret[m].plan = NoPlan /\ secret[m].applied.sha256 = NoPlan /\ agent[m].plan = NoPlan
               /\ NodeInv(m)
    <3>1. secret[m].plan = NoPlan /\ agent[m].plan = NoPlan /\ NodeInv(m)
      BY <1>1 DEF MachineInv, HandInv
    <3>2. AppliedStage(m) <= Stage(secret[m].plan)
      BY DEF AgentInv, AgentOK
    <3> QED
      BY <3>1, <3>2, PlanStages DEF AppliedStage
  <2>2. ASSUME NEW m \in Machines PROVE HandInv(m)' /\ NodeInv(m)'
    <3>1. /\ UNCHANGED <<secret, agent, node>>
          /\ secret[m].plan = NoPlan /\ secret[m].applied.sha256 = NoPlan /\ agent[m].plan = NoPlan
          /\ NodeInv(m)
      BY <1>1, <2>1 DEF agentVars
    <3>2. HandInv(m)'
      BY <3>1 DEF HandInv, PlansOf
    <3> QED
      BY <3>1, <3>2, PlanStages DEF NodeInv
  <2> QED
    BY <2>2 DEF MachineInv
<1>2. CASE UNCHANGED <<Backup, restore[TheRestore].gen, agentVars>>
  <2>1. UNCHANGED <<Target, secret, agent, node>> /\ \A m : UNCHANGED PlansOf(m)
    BY <1>2 DEF Target, Backup, PlansOf, agentVars
  <2> QED
    BY <1>2, <2>1 DEF MachineInv, HandInv, NodeInv, Applied, At
<1>3. CASE /\ rec.pc = "fill" /\ updatePlanSecretWithPlan /\ UNCHANGED <<agent, node>>
           /\ secret' = [secret EXCEPT ![rec.m].plan = wantedPlan]
  <2>1. ASSUME NEW m \in Machines, m # rec.m \/ secret[m].plan = wantedPlan
        PROVE  UNCHANGED <<secret[m], agent[m], node[m]>>
    BY <1>0, <1>3, <2>1 DEF PlanSecrets
  <2>2. UNCHANGED <<Target, Backup, restore[TheRestore].gen>> /\ \A m : UNCHANGED PlansOf(m)
    BY <1>3 DEF updatePlanSecretWithPlan, WorkerOnly, Target, Backup, PlansOf
  <2>3. ASSUME NEW m \in Machines, m # rec.m \/ secret[m].plan = wantedPlan
        PROVE  HandInv(m)' /\ NodeInv(m)'
    <3>1. HandInv(m) /\ NodeInv(m) /\ UNCHANGED <<secret[m], agent[m], node[m]>>
      BY <2>1, <2>3 DEF MachineInv
    <3>2. HandInv(m)'
      BY <2>2, <3>1 DEF HandInv, Applied
    <3> QED
      BY <2>2, <3>1, <3>2 DEF NodeInv, Applied, At
  <2>4. ASSUME NEW m \in Machines, m = rec.m, secret[m].plan # wantedPlan
        PROVE  HandInv(m)' /\ NodeInv(m)'
    BY <1>3, <2>4, NewPlan
  <2> QED
    BY <2>3, <2>4 DEF MachineInv
<1>4. ASSUME NEW m \in Machines, AgentStep(m) \/ AgentRestart(m), UNCHANGED restore PROVE MachineInv'
  BY <1>4, MachineInvAgent
<1>5. ASSUME NEW m \in Machines PROVE ~Bootstrap(m)
  BY DEF Bootstrap, CopyInv
<1> QED
  BY <1>1, <1>2, <1>3, <1>4, <1>5, MachineSteps, BackupSteps

-----------------------------------------------------------------------------
(* The order of the stages.                                                *)

\* The agents go through the stages in their order.
LEMMA AppliedGrows ==
  ASSUME TypeInv, AgentInv, MachineInv, [Next]_vars, NEW m \in Machines
  PROVE  AppliedStage(m) \in 0..3 /\ AppliedStage(m)' \in 0..3 /\ AppliedStage(m) <= AppliedStage(m)'
<1>0. /\ secret \in [Machines -> PlanSecrets] /\ agent \in [Machines -> [plan : Plans, next : Nat \ {0}]]
      /\ node \in [Machines -> Nodes]
  BY DEF TypeInv, TypeOK
<1>1. AppliedStage(m) \in 0..3 /\ AppliedStage(m)' \in 0..3
  BY PlanStages DEF AppliedStage
<1>2. ASSUME secret'[m].applied = secret[m].applied PROVE AppliedStage(m) <= AppliedStage(m)'
  BY <1>1, <1>2 DEF AppliedStage
<1>3. CASE secret' = [secret EXCEPT ![rec.m].plan = wantedPlan]
  BY <1>0, <1>1, <1>2, <1>3 DEF PlanSecrets
<1>4. ASSUME NEW x \in Machines, AgentStep(x) \/ AgentRestart(x)
      PROVE  AppliedStage(m) <= AppliedStage(m)'
  <2>1. CASE AgentReport(x)
    <3>1. CASE x # m
      BY <1>0, <1>2, <2>1, <3>1 DEF AgentReport, PlanSecrets
    <3>2. CASE x = m
      <4>1. secret'[m].applied.sha256 = agent[m].plan /\ agent[m].plan # NoPlan
        BY <1>0, <2>1, <3>2 DEF AgentReport, PlanSecrets, Checksum, Busy
      <4>2. agent[m].plan = secret[m].plan
        BY <4>1 DEF MachineInv, HandInv
      <4> QED
        BY <4>1, <4>2 DEF AppliedStage, AgentInv, AgentOK
    <3> QED
      BY <3>1, <3>2
  <2>2. CASE ~AgentReport(x)
    <3>1. UNCHANGED secret
      BY <1>4, <2>2 DEF AgentStep, AgentRestart, AgentFetch, KillAll, RemoveServerUrl, AddServerUrl,
                  RemoveManifests, RemoveEtcdData, ClusterReset, StartRKE2, ScriptFails, Runs
    <3> QED
      BY <1>2, <3>1
  <2> QED
    BY <2>1, <2>2
<1>5. CASE UNCHANGED agentVars \/ \E x \in Machines : Bootstrap(x)
  BY <1>1, <1>2, <1>5 DEF agentVars, Bootstrap
<1> QED
  BY <1>1, <1>3, <1>4, <1>5, MachineSteps

\* Every step keeps EvidenceInv.
LEMMA EvidenceInvNext ==
  ASSUME Undisturbed, TypeInv, PhaseInv, AgentInv, HandedInv, CopyInv, ScopeInv, ScopeInv', MachineInv,
         EvidenceInv, [Next]_vars
  PROVE  EvidenceInv'
<1>0. rec \in Reconciles
  BY DEF TypeInv, TypeOK
<1>1. \A m \in Machines : /\ AppliedStage(m) \in 0..3 /\ AppliedStage(m)' \in 0..3
                          /\ AppliedStage(m) <= AppliedStage(m)'
  BY AppliedGrows
<1>2. Visited \subseteq Machines
  BY <1>0 DEF Visited, Reconciles
<1>3. Working => rec.obj.backup = Backup /\ Target \in Machines /\ Target' = Target
  <2>1. Working => Backup \in Backups /\ rec.obj.backup = Backup /\ restore[TheRestore].gen # 0
    BY DEF Working, TypeInv, RecOK, CopyInv
  <2> QED
    BY <2>1, TheOne, BackupSteps DEF Target, Backup
<1>4. InLoop => Working
  BY DEF InLoop, Working
<1>5. rec.pc \in {"get", "fill", "check"} => rec.m \in Machines
  BY DEF TypeInv, RecOK
<1> DEFINE Seen == rec.pc \in {"fill", "check"} => Stage(rec.sec.applied.sha256) <= AppliedStage(rec.m)
           Stopped == rec.phase = "Started" /\ rec.ready /\ InLoop => \A m \in Visited : AppliedStage(m) >= 1
           Started == /\ rec.phase = "Restore" /\ InLoop
                      /\ rec.pc = "loop" \/ rec.m # Target
                      => AppliedStage(Target) = 3
<1>6. Seen /\ Stopped /\ Started
  BY DEF EvidenceInv, InLoop
<1> SUFFICES ASSUME InLoop' PROVE Seen' /\ Stopped' /\ Started'
  BY DEF EvidenceInv, InLoop
<1>7. CASE rec' = rec
  <2>1. InLoop /\ Target' = Target /\ Target \in Machines
    BY <1>3, <1>4, <1>7 DEF InLoop
  <2>2. Seen'
    BY <1>1, <1>5, <1>6, <1>7, PlanStages
  <2>3. Stopped'
    BY <1>1, <1>2, <1>6, <1>7, <2>1 DEF Visited
  <2>4. Started'
    BY <1>1, <1>6, <1>7, <2>1
  <2> QED
    BY <2>2, <2>3, <2>4
<1>8. CASE stopRKE2OnAllMachines
  <2>1. rec'.pc = "loop" /\ rec'.phase = "Started" /\ Visited' = {}
    BY <1>0, <1>8 DEF stopRKE2OnAllMachines, Reconciles, Visited
  <2> QED
    BY <2>1
<1>9. CASE /\ rec.pc = "switch" /\ rec.phase = "Shutdown" /\ initMachine # None
           /\ rec' = [rec EXCEPT !.pc = "get", !.m = initMachine]
  <2>1. rec'.pc = "get" /\ rec'.phase = "Shutdown"
    BY <1>0, <1>9 DEF Reconciles
  <2> QED
    BY <2>1
<1>10. CASE /\ rec.pc = "switch" /\ rec.phase = "Restore" /\ getInternalMachineIP(initMachine) # None
            /\ rec' = [rec EXCEPT !.pc = "get", !.m = initMachine]
  <2>1. rec'.pc = "get" /\ rec'.phase = "Restore" /\ rec'.m = initMachine /\ initMachine' = initMachine
    BY <1>0, <1>10 DEF Reconciles, initMachine
  <2>2. rec'.m = Target'
    BY <2>1 DEF ScopeInv
  <2> QED
    BY <2>1, <2>2
<1>11. ASSUME NEW x \in Machines, NextMachine(x) PROVE Seen' /\ Stopped' /\ Started'
  <2>1. /\ rec.pc = "loop" /\ rec'.pc = "get" /\ rec'.phase = rec.phase /\ rec'.ready = rec.ready
        /\ Visited' \subseteq Visited
    BY <1>0, <1>11 DEF NextMachine, Reconciles, Visited
  <2>2. InLoop /\ Target' = Target /\ Target \in Machines
    BY <1>3, <1>4, <2>1 DEF InLoop
  <2>3. Stopped'
    BY <1>1, <1>2, <1>6, <2>1, <2>2
  <2>4. Started'
    BY <1>1, <1>6, <2>1, <2>2
  <2> QED
    BY <2>1, <2>3, <2>4
<1>12. CASE getPlanSecretForMachine \/ updatePlanSecretWithPlan
  <2>1. /\ rec.pc \in {"get", "fill"} /\ rec'.pc \in {"fill", "check"} /\ rec'.phase = rec.phase
        /\ rec'.ready = rec.ready /\ rec'.m = rec.m /\ UNCHANGED Visited
    <3>1. \/ rec.pc = "get" /\ rec' = [rec EXCEPT !.sec = rec'.sec, !.pc = rec'.pc]
          \/ rec.pc = "fill" /\ rec' = [rec EXCEPT !.pc = "check", !.sec = rec'.sec]
      BY <1>0, <1>12 DEF getPlanSecretForMachine, updatePlanSecretWithPlan, Return, Reconciles, InLoop
    <3>2. /\ rec.pc \in {"get", "fill"} /\ rec'.phase = rec.phase
          /\ rec'.ready = rec.ready /\ rec'.m = rec.m /\ rec'.machines = rec.machines /\ rec'.todo = rec.todo
      BY <1>0, <3>1 DEF Reconciles
    <3>3. rec'.pc \in {"fill", "check"}
      BY <1>0, <1>12 DEF getPlanSecretForMachine, updatePlanSecretWithPlan, Return, Reconciles, InLoop
    <3> QED
      BY <3>2, <3>3 DEF Visited
  <2>2. InLoop /\ Target' = Target /\ Target \in Machines /\ rec.m \in Machines
    BY <1>3, <1>4, <1>5, <2>1 DEF InLoop
  <2>3. Stopped'
    BY <1>1, <1>2, <1>6, <2>1, <2>2
  <2>4. Started'
    BY <1>1, <1>6, <2>1, <2>2
  <2>5. CASE getPlanSecretForMachine
    <3>1. rec'.sec = secret[rec.m]
      BY <1>0, <2>5 DEF getPlanSecretForMachine, Reconciles
    <3>2. Seen'
      BY <1>1, <2>1, <2>2, <3>1 DEF AppliedStage
    <3> QED
      BY <2>3, <2>4, <3>2
  <2>6. CASE updatePlanSecretWithPlan
    <3>1. rec.pc = "fill" /\ rec' = [rec EXCEPT !.pc = "check", !.sec.plan = wantedPlan]
      BY <1>0, <2>1, <2>6 DEF updatePlanSecretWithPlan, Return, Reconciles
    <3>2. rec'.sec = [rec.sec EXCEPT !.plan = wantedPlan]
      BY <1>0, <3>1 DEF Reconciles
    <3>3. rec'.sec.applied = rec.sec.applied
      BY <1>0, <3>2 DEF Reconciles, PlanSecrets
    <3>4. Stage(rec.sec.applied.sha256) <= AppliedStage(rec.m)
      BY <1>6, <3>1
    <3>5. Seen'
      BY <1>1, <2>1, <2>2, <3>3, <3>4, PlanStages
    <3> QED
      BY <2>3, <2>4, <3>5
  <2> QED
    BY <1>12, <2>5, <2>6
<1>13. CASE CheckMachine
  <2>1. rec.pc = "check" /\ rec.m \in Machines /\ (rec.phase = "Restore" => rec.m # initMachine)
    BY <1>13 DEF CheckMachine, InMachineLoop, TypeInv, RecOK
  <2>2. rec'.pc = "loop" /\ rec'.phase = rec.phase /\ Visited' \subseteq Visited \cup {rec.m}
    BY <1>0, <1>13 DEF CheckMachine, Reconciles, Visited
  <2>3. rec'.ready = (rec.ready /\ isPlanApplied(wantedPlan, secret[rec.m].applied))
    BY <1>0, <1>13 DEF CheckMachine, Reconciles
  <2>4. isPlanApplied(wantedPlan, secret[rec.m].applied) => secret[rec.m].applied.sha256 = wantedPlan
    BY DEF isPlanApplied, Checksum
  <2>5. InLoop /\ Target' = Target /\ Target \in Machines
    BY <1>3, <1>4, <2>1 DEF InLoop
  <2>6. rec'.ready /\ rec.phase = "Started" => rec.ready /\ AppliedStage(rec.m) = 1
    BY <2>1, <2>3, <2>4, WantedStage, PhaseRanks DEF AppliedStage
  <2>7. Stopped'
    BY <1>1, <1>2, <1>6, <2>1, <2>2, <2>5, <2>6
  <2>8. rec.phase = "Restore" => rec.m # Target
    BY <2>1 DEF ScopeInv
  <2>9. Started'
    BY <1>1, <1>6, <2>2, <2>5, <2>8
  <2> QED
    BY <2>2, <2>7, <2>9
<1>14. CASE CheckInitMachine
  <2>1. rec.pc = "check" /\ rec.m \in Machines /\ rec.phase = "Restore" /\ rec.m = initMachine
    <3>1. rec.pc = "check" /\ rec.phase \in {"Started", "Shutdown", "Restore"}
      BY <1>14 DEF CheckInitMachine, PhaseInv
    <3>2. rec.phase # "Shutdown"
      BY <1>0, <1>14 DEF CheckInitMachine, Return, Reconciles, InLoop
    <3> QED
      BY <1>5, <1>14, <3>1, <3>2 DEF CheckInitMachine, InMachineLoop
  <2>2. rec'.pc = "loop" /\ rec'.phase = rec.phase /\ isPlanApplied(wantedPlan, rec.sec.applied)
    BY <1>0, <1>14 DEF CheckInitMachine, Return, Reconciles, InLoop
  <2>3. rec.sec.applied.sha256 = wantedPlan
    BY <2>2 DEF isPlanApplied, Checksum
  <2>4. AppliedStage(rec.m) >= 3
    <3>1. Stage(rec.sec.applied.sha256) = 3
      BY <2>1, <2>3, WantedStage, PhaseRanks
    <3> QED
      BY <1>1, <1>6, <2>1, <3>1
  <2>5. rec.m = Target /\ Target' = Target
    BY <1>3, <2>1 DEF ScopeInv, Working
  <2> QED
    BY <1>1, <2>1, <2>2, <2>4, <2>5
<1> QED
  BY <1>7, <1>8, <1>9, <1>10, <1>11, <1>12, <1>13, <1>14, LoopSteps

\* How the restore comes to a stage: a reconcile has found the one before it done.
LEMMA ReachSteps ==
  ASSUME Undisturbed, TypeInv, PhaseInv, PlanInv, [Next]_vars, NEW k \in {2, 3, 4}, Reaches(k)'
  PROVE  \/ Reaches(k)
         \/ /\ EndOfLoop /\ rec.pc = "loop" /\ rec.todo = {} /\ rec.ready
            /\ (rec.phase = "Started" /\ k = 2) \/ (rec.phase = "Restore" /\ k = 4)
         \/ /\ rec.pc = "check" /\ rec.phase = "Shutdown" /\ k = 3
            /\ isPlanApplied(wantedPlan, rec.sec.applied)
<1>0. /\ rec \in Reconciles /\ TheRestore \in Restores /\ \A r \in Restores : r = TheRestore
      /\ Restores = {TheRestore}
  BY TheOne DEF TypeInv, TypeOK, Undisturbed
<1>1. CASE Rank(restore'[TheRestore].phase) >= k
  <2>1. CASE \A r \in Restores : restore'[r].phase = restore[r].phase
    BY <1>0, <1>1, <2>1 DEF Reaches
  <2>2. CASE PatchRestore
    <3>1. rec.pc = "status" /\ restore'[TheRestore].phase \in {restore[TheRestore].phase, rec.phase}
      BY <1>0, <2>2 DEF PatchRestore, TypeInv, TypeOK, RecOK, RestoreObjects
    <3> QED
      BY <1>1, <3>1 DEF Reaches
  <2> QED
    BY <2>1, <2>2, RestoreSteps
<1>2. CASE \E m \in Machines : Stage(secret'[m].plan) >= k
  <2>1. PICK m \in Machines : Stage(secret'[m].plan) >= k
    BY <1>2
  <2>2. secret \in [Machines -> PlanSecrets]
    BY DEF TypeInv, TypeOK
  <2>3. secret'[m].plan = secret[m].plan \/ (rec.pc = "fill" /\ secret'[m].plan = wantedPlan)
    BY <2>2, SecretSteps DEF PlanSecrets
  <2>4. CASE secret'[m].plan = secret[m].plan
    BY <2>1, <2>4 DEF Reaches
  <2>5. CASE rec.pc = "fill" /\ secret'[m].plan = wantedPlan
    <3>1. Stage(wantedPlan) = Rank(rec.phase)
      BY <2>5, WantedStage
    <3> QED
      BY <2>1, <2>5, <3>1 DEF Reaches
  <2> QED
    BY <2>3, <2>4, <2>5
<1>3. CASE rec'.pc # "idle" /\ Rank(rec'.phase) >= k
  <2>0. ASSUME rec.pc # "idle", rec'.phase = rec.phase PROVE Reaches(k)
    BY <1>3, <2>0 DEF Reaches
  <2>1. CASE rec' = rec \/ (rec.pc # "idle" /\ rec' = [rec EXCEPT !.pc = "status"])
    <3>1. rec.pc # "idle" /\ rec'.phase = rec.phase
      BY <1>0, <1>3, <2>1 DEF Reconciles
    <3> QED
      BY <2>0, <3>1
  <2>2. CASE Reconcile(TheRestore)
    <3>1. rec'.phase = FirstPhase(restoreCache[TheRestore].phase)
      BY <2>2 DEF Reconcile, IdleRec, FirstPhase
    <3>2. Rank(rec'.phase) <= Rank(restore[TheRestore].phase)
      BY <1>0, <3>1, PhaseRanks DEF PlanInv
    <3>3. Rank(restore[TheRestore].phase) >= k
      BY <1>3, <3>2, PhaseRanks
    <3> QED
      BY <3>3 DEF Reaches
  <2>3. CASE EndOfLoop
    <3>1. rec.phase \in {"Started", "Restore"} /\ rec.pc = "loop" /\ rec.todo = {}
      BY <2>3 DEF EndOfLoop, LoopEndsIn, PhaseInv
    <3>2. \/ rec'.phase = rec.phase
          \/ rec.ready /\ rec.phase = "Started" /\ rec'.phase = "Shutdown"
          \/ rec.ready /\ rec.phase = "Restore" /\ rec'.phase = "Finished"
      BY <1>0, <2>3, <3>1 DEF EndOfLoop, LoopEndsIn, Reconciles
    <3>3. rec.phase = "Restore" /\ k # 4 => Reaches(k)
      BY <3>1, PhaseRanks DEF Reaches
    <3>4. rec'.phase = "Shutdown" => k = 2
      BY <1>3, PhaseRanks
    <3> QED
      BY <2>0, <2>3, <3>1, <3>2, <3>3, <3>4
  <2>4. CASE PauseCluster \/ UnpauseCluster \/ stopRKE2OnAllMachines \/ finishRestore
             \/ (\E m \in Machines : NextMachine(m)) \/ PatchRestore
    <3>1. rec.pc # "idle" /\ rec'.phase = rec.phase
      BY <1>0, <1>3, <2>4, IdlePc
         DEF PauseCluster, UnpauseCluster, stopRKE2OnAllMachines, finishRestore, NextMachine,
             PatchRestore, Return, Reconciles
    <3> QED
      BY <2>0, <3>1
  <2>5. CASE restoreSnaphotOnInitMachine \/ startRKE2OnAllMachines
    <3>1. rec.pc # "idle" /\ rec'.phase = rec.phase
      BY <1>0, <2>5 DEF restoreSnaphotOnInitMachine, startRKE2OnAllMachines, Return, Reconciles
    <3> QED
      BY <2>0, <3>1
  <2>6. CASE getPlanSecretForMachine \/ updatePlanSecretWithPlan
    <3>1. rec.pc # "idle" /\ rec'.phase = rec.phase
      BY <1>0, <2>6 DEF getPlanSecretForMachine, updatePlanSecretWithPlan, Return, Reconciles
    <3> QED
      BY <2>0, <3>1
  <2>7. CASE CheckMachine \/ CheckInitMachine
    <3>1. rec.pc = "check"
      BY <2>7 DEF CheckMachine, CheckInitMachine
    <3>2. \/ rec'.phase = rec.phase
          \/ /\ rec.phase = "Shutdown" /\ rec'.phase = "Restore"
             /\ isPlanApplied(wantedPlan, rec.sec.applied)
      BY <1>0, <2>7 DEF CheckMachine, CheckInitMachine, Return, Reconciles
    <3>3. rec.phase = "Shutdown" /\ k = 2 => Reaches(k)
      BY <3>1, PhaseRanks DEF Reaches
    <3>4. rec'.phase = "Restore" => k # 4
      BY <1>3, PhaseRanks
    <3> QED
      BY <2>0, <3>1, <3>2, <3>3, <3>4
  <2> QED
    BY <1>0, <1>3, <2>1, <2>2, <2>3, <2>4, <2>5, <2>6, <2>7, RecSteps DEF Worker
<1> QED
  BY <1>1, <1>2, <1>3 DEF Reaches

\* Every step keeps OrderInv.
LEMMA OrderInvNext ==
  ASSUME Undisturbed, TypeInv, PhaseInv, PlanInv, AgentInv, HandedInv, UpInv, CopyInv, ScopeInv, MachineInv,
         EvidenceInv, OrderInv, [Next]_vars
  PROVE  OrderInv'
<1>0. rec \in Reconciles /\ InitialMachines \subseteq Machines
  BY Names DEF TypeInv, TypeOK
<1>1. \A m \in Machines : /\ AppliedStage(m) \in 0..3 /\ AppliedStage(m)' \in 0..3
                          /\ AppliedStage(m) <= AppliedStage(m)'
  BY AppliedGrows
<1>2. rec.pc = "loop" /\ rec.todo = {} => Visited = InitialMachines
  BY DEF CopyInv, Visited
<1>3. Reaches(2)' => \A m \in InitialMachines : AppliedStage(m)' >= 1
  <2>1. CASE Reaches(2)
    BY <1>0, <1>1, <2>1 DEF OrderInv
  <2>2. CASE rec.pc = "loop" /\ rec.todo = {} /\ rec.ready /\ rec.phase = "Started"
    BY <1>0, <1>1, <1>2, <2>2 DEF EvidenceInv
  <2> QED
    BY <2>1, <2>2, ReachSteps
<1>4. Reaches(4)' => \A m \in InitialMachines : AppliedStage(m)' = 3
  <2>1. CASE Reaches(4)
    BY <1>0, <1>1, <2>1 DEF OrderInv
  <2>2. CASE rec.pc = "loop" /\ rec.todo = {} /\ rec.ready /\ rec.phase = "Restore"
    BY <1>0, <1>1, <1>2, <2>2 DEF UpInv, LoopStarted
  <2> QED
    BY <2>1, <2>2, ReachSteps
<1>5. Reaches(3) => Target' = Target
  <2> SUFFICES ASSUME Reaches(3), restore[TheRestore].gen = 0 PROVE FALSE
    BY BackupSteps DEF Target, Backup
  <2>1. Target \in Machines /\ AppliedStage(Target) >= 2 /\ AppliedStage(Target) <= Stage(secret[Target].plan)
    BY <1>0 DEF OrderInv, AgentInv, AgentOK
  <2>2. secret[Target].plan # NoPlan
    BY <1>1, <2>1, PlanStages
  <2> QED
    BY <2>1, <2>2 DEF MachineInv, HandInv
<1>6. Reaches(3)' => Target' \in InitialMachines /\ AppliedStage(Target)' >= 2
  <2>1. CASE Reaches(3)
    <3>1. Target \in InitialMachines /\ AppliedStage(Target) >= 2 /\ Target' = Target
      BY <1>5, <2>1 DEF OrderInv
    <3>2. ASSUME NEW x \in InitialMachines, x = Target, x = Target', AppliedStage(x) >= 2
          PROVE  AppliedStage(Target)' >= 2
      BY <1>0, <1>1, <3>2 DEF AppliedStage
    <3> QED
      BY <3>1, <3>2
  <2>2. CASE /\ rec.pc = "check" /\ rec.phase = "Shutdown"
             /\ isPlanApplied(wantedPlan, rec.sec.applied)
    <3>1. rec.m = Target /\ rec.m \in InitialMachines
      BY <2>2, Wanted DEF ScopeInv
    <3>2. Stage(rec.sec.applied.sha256) = 2
      BY <2>2, WantedStage, PhaseRanks DEF isPlanApplied, Checksum
    <3>3. AppliedStage(rec.m) >= 2
      BY <1>0, <1>1, <2>2, <3>1, <3>2 DEF EvidenceInv
    <3>4. Target' = Target
      BY <2>2, BackupSteps DEF CopyInv, Target, Backup
    <3>5. ASSUME NEW x \in InitialMachines, x = Target, x = Target', AppliedStage(x) >= 2
          PROVE  AppliedStage(Target)' >= 2
      BY <1>0, <1>1, <3>5 DEF AppliedStage
    <3> QED
      BY <3>1, <3>3, <3>4, <3>5
  <2> QED
    BY <2>1, <2>2, ReachSteps
<1>7. ASSUME NEW m \in Machines, m # Target', Stage(secret'[m].plan) = 3
      PROVE  AppliedStage(Target)' = 3
  <2>0. Reaches(3)' /\ Target' \in Machines
    BY <1>0, <1>6, <1>7 DEF Reaches
  <2>1. ASSUME Target' = Target, AppliedStage(Target) = 3 PROVE AppliedStage(Target)' = 3
    <3>1. ASSUME NEW x \in Machines, x = Target, x = Target' PROVE AppliedStage(Target)' = 3
      BY <1>1, <2>1, <3>1 DEF AppliedStage
    <3> QED
      BY <2>0, <2>1, <3>1
  <2>2. CASE secret'[m].plan = secret[m].plan
    <3>1. Reaches(3)
      BY <1>7, <2>2 DEF Reaches
    <3> QED
      BY <1>5, <1>7, <2>1, <2>2, <3>1 DEF OrderInv
  <2>3. CASE secret'[m].plan # secret[m].plan
    <3>1. rec.pc = "fill" /\ m = rec.m
      BY <2>3, MachineStays
    <3>2. secret'[m].plan = wantedPlan
      BY <2>3, SecretSteps DEF TypeInv, TypeOK, PlanSecrets
    <3>3. rec.phase = "Restore"
      <4>1. Rank(rec.phase) = 3 /\ rec.phase \in {"Started", "Shutdown", "Restore"}
        BY <1>7, <3>1, <3>2, WantedStage DEF PhaseInv
      <4> QED
        BY <4>1, PhaseRanks
    <3>4. Target' = Target
      BY <3>1, BackupSteps DEF CopyInv, Target, Backup
    <3> QED
      BY <1>7, <2>1, <3>1, <3>3, <3>4 DEF EvidenceInv
  <2> QED
    BY <2>2, <2>3
<1> QED
  BY <1>3, <1>4, <1>6, <1>7 DEF OrderInv

-----------------------------------------------------------------------------
(* The properties.                                                         *)

SafetyInv == CopyInv /\ ScopeInv /\ MachineInv /\ EvidenceInv /\ OrderInv

\* SafetyInv holds at the start.
LEMMA SafetyInit ==
  ASSUME Undisturbed, Init
  PROVE  SafetyInv
<1>1. /\ rec = IdleRec /\ machineCache = machine /\ restore = [r \in Restores |-> NoRestore]
      /\ restoreCache = restore
      /\ secret = [m \in Machines |-> EmptySecret] /\ agent = [m \in Machines |-> IdleAgent]
      /\ machine = [m \in Machines |-> IF m \in InitialMachines THEN "Running" ELSE "Absent"]
  BY DEF Init
<1>2. rec.pc = "idle"
  BY <1>1, IdlePc
<1>3. restore[TheRestore] = NoRestore /\ ~NoRestore.live
  <2>1. restore[TheRestore] = NoRestore
    BY <1>1, TheOne
  <2>2. ~NoRestore.live
    BY Zenon DEF NoRestore
  <2> QED
    BY <2>1, <2>2
<1>4. \A m \in Machines :
        /\ secret[m].plan = NoPlan /\ secret[m].applied.sha256 = NoPlan /\ agent[m].plan = NoPlan
        /\ m \notin InitialMachines => ~node[m].rke2
        /\ node[m].lineage = IF m \in InitialMachines THEN Original ELSE NoData
  BY DEF Init, EmptySecret, Checksum, IdleAgent
<1>5. CopyInv
  BY <1>1, <1>2, <1>3 DEF CopyInv
<1>6. ScopeInv /\ EvidenceInv
  BY <1>2 DEF ScopeInv, EvidenceInv
<1>7. MachineInv
  BY <1>4, PlanStages DEF MachineInv, HandInv, NodeInv, PlansOf, At
<1>8. Rank(restore[TheRestore].phase) = 1
  <2>1. Rank(NoRestore.phase) = 1
    BY Zenon DEF Rank, NoRestore
  <2> QED
    BY <1>3, <2>1
<1>9. OrderInv
  BY <1>2, <1>4, <1>8, PlanStages DEF OrderInv, Reaches
<1> QED
  BY <1>5, <1>6, <1>7, <1>9 DEF SafetyInv

\* SafetyInv is an invariant, together with what holds in any environment.
LEMMA SafetyInvariant ==
  ASSUME Undisturbed
  PROVE  Spec => [](TypeInv /\ PhaseInv /\ PlanInv /\ DownInv /\ RunningInv /\ SafetyInv)
<1>1. Restores = {TheRestore}
  BY DEF Undisturbed
<1>2. Spec => [](TypeInv /\ PhaseInv /\ PlanInv)
  BY <1>1, PlanInvariant
<1>3. Spec => []DownInv
  BY <1>1, DownInvariant
<1>4. Spec => []RunningInv
  BY <1>1, RunningInvariant
<1>5. Init => SafetyInv
  BY SafetyInit
<1>6. TypeInv /\ PhaseInv /\ PlanInv /\ RunningInv /\ SafetyInv /\ [Next]_vars => SafetyInv'
  <2> SUFFICES ASSUME TypeInv, PhaseInv, PlanInv, RunningInv, SafetyInv, [Next]_vars PROVE SafetyInv'
    OBVIOUS
  <2>1. /\ AgentInv /\ HandedInv /\ UpInv
        /\ CopyInv /\ ScopeInv /\ MachineInv /\ EvidenceInv /\ OrderInv
    BY DEF RunningInv, SafetyInv
  <2>2. CopyInv'
    BY <2>1, CopyInvNext
  <2>3. ScopeInv'
    BY <2>1, ScopeInvNext
  <2>4. MachineInv'
    BY <2>1, MachineInvNext
  <2>5. EvidenceInv'
    BY <2>1, <2>3, EvidenceInvNext
  <2>6. OrderInv'
    BY <2>1, OrderInvNext
  <2> QED
    BY <2>2, <2>3, <2>4, <2>5, <2>6 DEF SafetyInv
<1> QED
  BY <1>2, <1>3, <1>4, <1>5, <1>6, PTL DEF Spec

\* A machine on which RKE2 runs with etcd data: before the reset it is a member of the
\* old cluster and has not been handed a plan of the last stage; after, of the new one.
LEMMA RunningMembers ==
  ASSUME Undisturbed, RunningInv, SafetyInv, NEW m \in Machines, node[m].rke2, node[m].lineage # NoData
  PROVE  /\ m \in InitialMachines
         /\ Stage(secret[m].plan) \in {0, 1, 3}
         /\ Stage(secret[m].plan) \in {0, 1} => node[m].lineage = Original
         /\ Stage(secret[m].plan) = 3 => node[m].lineage = Target /\ ~node[m].manifests
<1>1. HandInv(m) /\ NodeInv(m) /\ Stage(secret[m].plan) \in 0..3
  BY PlanStages DEF SafetyInv, MachineInv
<1> QED
  BY <1>1 DEF NodeInv

\* Once a machine has been handed a plan of the last stage, no other is a running member
\* of the old cluster: every machine has applied the plan that stops RKE2.
LEMMA AllHaveStopped ==
  ASSUME Undisturbed, RunningInv, SafetyInv, NEW k \in {2, 3, 4}, Reaches(k),
         NEW m \in InitialMachines
  PROVE  /\ AppliedStage(m) >= 1 /\ Stage(secret[m].plan) \in {1, 2, 3}
         /\ Stage(secret[m].plan) = 1 => Applied(m) /\ ~node[m].rke2
<1>1. /\ \A phase : Rank(phase) \in {1, 2, 3, 4}
      /\ \A p : Stage(p) \in 0..3 /\ (Stage(p) = 1 <=> p = killPlan)
      /\ m \in Machines
  BY PhaseRanks, PlanStages, Names
<1>2. Reaches(2)
  BY <1>1 DEF Reaches
<1>3. AppliedStage(m) >= 1
  BY <1>2 DEF SafetyInv, OrderInv
<1>4. AppliedStage(m) <= Stage(secret[m].plan)
  BY <1>1 DEF RunningInv, AgentInv, AgentOK
<1>5. Stage(secret[m].plan) \in {1, 2, 3}
  BY <1>1, <1>3, <1>4 DEF AppliedStage
<1>6. Stage(secret[m].plan) = 1 => Applied(m)
  BY <1>1, <1>3, <1>4 DEF AppliedStage, Applied
<1> QED
  BY <1>1, <1>3, <1>5, <1>6 DEF SafetyInv, MachineInv, NodeInv

\* While the etcd of a machine is about to be reset, every machine has stopped.
LEMMA ResetNeedsQuiet ==
  ASSUME Undisturbed, TypeInv, RunningInv, SafetyInv
  PROVE  QuietReset
<1> SUFFICES ASSUME NEW t \in Machines, AtScript(t, "cluster-reset"), NEW m \in Machines
             PROVE  ~node[m].rke2
  BY DEF QuietReset
<1>1. t = Target /\ Stage(secret[t].plan) = 2 /\ Backup \in Backups
  BY AgentAt DEF SafetyInv, MachineInv
<1>2. Reaches(2)
  BY <1>1 DEF Reaches
<1>3. NodeInv(m) /\ HandInv(m)
  BY DEF SafetyInv, MachineInv
<1>4. CASE m \notin InitialMachines
  BY <1>3, <1>4 DEF NodeInv
<1>5. CASE m \in InitialMachines /\ Stage(secret[m].plan) = 3
  <2>1. m # Target
    BY <1>1, <1>5
  <2>2. AppliedStage(Target) = 3
    BY <1>5, <2>1 DEF SafetyInv, OrderInv
  <2>3. AppliedStage(t) <= Stage(secret[t].plan)
    BY DEF RunningInv, AgentInv, AgentOK
  <2> QED
    BY <1>1, <2>2, <2>3
<1>6. CASE m \in InitialMachines /\ Stage(secret[m].plan) \in {1, 2}
  BY <1>2, <1>3, <1>6, AllHaveStopped DEF NodeInv
<1> QED
  BY <1>2, <1>4, <1>5, <1>6, AllHaveStopped

\* When the backup's machine resets its etcd, RKE2 runs on no machine of the cluster:
\* the plan for it is handed out only after every machine has reported that RKE2 is
\* stopped, and no machine is started before the reset is reported.
THEOREM ResetIsQuiet ==
  ASSUME Undisturbed
  PROVE  Spec => []QuietReset
<1>1. TypeInv /\ RunningInv /\ SafetyInv => QuietReset
  BY ResetNeedsQuiet
<1> QED
  BY <1>1, SafetyInvariant, PTL

\* Machines whose RKE2 runs on etcd data are members of one etcd cluster: none of the old
\* cluster is up from the moment the first of the new one is started, whatever agents and
\* reconciles repeat or forget.
THEOREM NeverSplitBrain ==
  ASSUME Undisturbed
  PROVE  Spec => []NoSplitBrain
<1>1. TypeInv /\ RunningInv /\ SafetyInv => NoSplitBrain
  <2> SUFFICES ASSUME TypeInv, RunningInv, SafetyInv, NEW m \in Machines, NEW n \in Machines,
                      node[m].rke2, node[n].rke2, node[m].lineage # NoData, node[n].lineage # NoData
               PROVE  node[m].lineage = node[n].lineage
    BY DEF NoSplitBrain
  <2>1. ASSUME NEW x \in Machines, NEW y \in Machines, node[x].rke2, node[x].lineage # NoData,
               Stage(secret[y].plan) = 3
        PROVE  node[x].lineage = Target
    <3>1. Reaches(3)
      BY <2>1 DEF Reaches
    <3>2. x \in InitialMachines
      BY <2>1, RunningMembers
    <3>3. Stage(secret[x].plan) = 3
      BY <2>1, <3>1, <3>2, AllHaveStopped, RunningMembers
    <3> QED
      BY <2>1, <3>3, RunningMembers
  <2> QED
    BY <2>1, RunningMembers
<1> QED
  BY <1>1, SafetyInvariant, PTL

\* A machine that runs in the cluster of the reset has had the old cluster's manifests
\* removed, and no script brings them back.
THEOREM NeverStaleManifests ==
  ASSUME Undisturbed
  PROVE  Spec => []NoStaleManifests
<1>1. TypeInv /\ RunningInv /\ SafetyInv => NoStaleManifests
  <2> SUFFICES ASSUME TypeInv, RunningInv, SafetyInv, NEW m \in Machines,
                      node[m].rke2, node[m].lineage \in Machines
               PROVE  ~node[m].manifests
    BY DEF NoStaleManifests
  <2>1. node[m].lineage # NoData /\ node[m].lineage # Original
    BY MachineNames
  <2> QED
    BY <2>1, RunningMembers
<1> QED
  BY <1>1, SafetyInvariant, PTL

-----------------------------------------------------------------------------
(* The end of a restore.  An agent that restarts between starting RKE2 and its report   *)
(* runs the plan again and removes the etcd data under the running server, which the    *)
(* model shows to be possible; here agents do not restart.                              *)

\* A machine that has joined is a member of the new cluster, and its agent is through
\* with the plan.
Joined(m) ==
  m # Target /\ Stage(secret[m].plan) = 3 /\ node[m].rke2 =>
    node[m].lineage = Target /\ (Applied(m) \/ At(m, 6))

JoinedInv == \A m \in Machines : Joined(m)

\* What an agent does on its own machine keeps Joined.
LEMMA JoinedAgent ==
  ASSUME Undisturbed, TypeInv, RunningInv, SafetyInv, NEW m \in Machines, Joined(m), AgentStep(m),
         UNCHANGED restore
  PROVE  Joined(m)'
<1>0. /\ agent \in [Machines -> [plan : Plans, next : Nat \ {0}]] /\ node[m] \in Nodes
      /\ secret \in [Machines -> PlanSecrets] /\ node \in [Machines -> Nodes]
      /\ HandInv(m) /\ NodeInv(m)
  BY DEF TypeInv, TypeOK, SafetyInv, MachineInv
<1>1. UNCHANGED <<Target, Backup>>
  BY DEF Target, Backup
<1>2. secret'[m].plan = secret[m].plan
  BY <1>0 DEF AgentStep, AgentFetch, KillAll, RemoveServerUrl, AddServerUrl, RemoveManifests,
              RemoveEtcdData, ClusterReset, StartRKE2, ScriptFails, AgentReport, Runs, PlanSecrets
<1> SUFFICES ASSUME m # Target, Stage(secret[m].plan) = 3, node'[m].rke2
             PROVE  node'[m].lineage = Target /\ (Applied(m)' \/ At(m, 6)')
  BY <1>1, <1>2 DEF Joined
<1>3. secret[m].plan # NoPlan /\ Backup \in Backups /\ secret[m].plan = joinPlan(Target)
  BY <1>0, PlanStages, PlansByStage DEF HandInv
<1>4. CASE node[m].rke2
  <2>1. node[m].lineage = Target /\ (Applied(m) \/ At(m, 6))
    BY <1>4 DEF Joined
  <2>2. CASE Applied(m)
    <3>1. ~Busy(m) /\ isPlanApplied(secret[m].plan, secret[m].applied)
      BY <1>0, <2>2 DEF HandInv, Busy, Applied, isPlanApplied, Checksum, PlanSecrets
    <3> QED
      BY <3>1 DEF AgentStep, AgentFetch, KillAll, RemoveServerUrl, AddServerUrl, RemoveManifests,
                  RemoveEtcdData, ClusterReset, StartRKE2, ScriptFails, AgentReport, Runs, AtScript
  <2>3. CASE At(m, 6)
    <3>1. Busy(m) /\ Done(m) /\ agent[m].plan = secret[m].plan
      <4>1. agent[m].plan = secret[m].plan /\ agent[m].plan # NoPlan /\ agent[m].next >= 6
        BY <1>0, <2>3 DEF At, HandInv
      <4>2. Len(agent[m].plan.instructions) = 5 /\ agent[m].next \in Nat
        BY <1>0, <1>3, <4>1, PlanScripts
      <4> QED
        BY <4>1, <4>2 DEF Busy, Done
    <3>2. AgentReport(m)
      BY <3>1 DEF AgentStep, AgentFetch, KillAll, RemoveServerUrl, AddServerUrl, RemoveManifests,
                  RemoveEtcdData, ClusterReset, StartRKE2, ScriptFails, Runs, AtScript
    <3>3. secret'[m].applied.sha256 = secret[m].plan /\ UNCHANGED node
      BY <1>0, <3>1, <3>2 DEF AgentReport, Checksum, PlanSecrets
    <3> QED
      BY <1>2, <2>1, <3>3 DEF Applied
  <2> QED
    BY <2>1, <2>2, <2>3
<1>5. CASE ~node[m].rke2
  <2>1. PICK n : Runs(m, "start-rke2", n)
    <3>1. ASSUME AgentFetch(m) \/ ScriptFails(m) \/ AgentReport(m) PROVE FALSE
      BY <1>5, <3>1 DEF AgentFetch, ScriptFails, AgentReport
    <3>2. ASSUME AgentRestart(m) PROVE node'[m] = node[m]
      BY <3>2 DEF AgentRestart
    <3>3. ASSUME NEW op, NEW n, Runs(m, op, n) PROVE node'[m] = n
      BY <1>0, <3>3 DEF Runs
    <3> QED
      BY <1>5, <3>1, <3>2, <3>3, Scripts
  <2>2. AtScript(m, "start-rke2") /\ Busy(m) /\ ~Done(m) /\ Script(m)[1] = "start-rke2"
    BY <2>1 DEF Runs, AtScript
  <2>3. /\ agent[m].next = 5 /\ agent'[m].next = 6 /\ agent'[m].plan = agent[m].plan
        /\ agent[m].plan # NoPlan
    <3>1. agent[m].next = 5
      BY <1>0, <2>2, AgentAt
    <3> QED
      BY <1>0, <2>1, <2>2, <3>1 DEF Runs, Busy
  <2>4. StartRKE2(m)
    <3>1. ~AgentFetch(m) /\ ~AgentReport(m)
      BY <2>2 DEF AgentFetch, AgentReport
    <3>2. ~ScriptFails(m)
      BY <1>5 DEF ScriptFails
    <3> QED
      BY <2>2, <3>1, <3>2 DEF AgentStep, KillAll, RemoveServerUrl, AddServerUrl, RemoveManifests,
                              RemoveEtcdData, ClusterReset, Runs, AtScript
  <2>5. node[m].server = Target /\ node[m].lineage \in {NoData, Target}
    BY <1>0, <2>3 DEF NodeInv, At
  <2>6. Target \in Machines /\ node[Target].lineage = Target
    <3>1. AppliedStage(Target) = 3 /\ Target \in Machines
      BY <1>3, TheOne DEF SafetyInv, OrderInv
    <3>2. Stage(secret[Target].plan) = 3
      BY <3>1, PlanStages DEF RunningInv, AgentInv, AgentOK
    <3> QED
      BY <3>1, <3>2 DEF SafetyInv, MachineInv, NodeInv
  <2>7. NoServer # Target /\ Endpoint # Target /\ NoData # Target
    BY <2>6, MachineNames
  <2>8. JoinTargets(m) \subseteq {Target}
    BY <2>5, <2>7 DEF JoinTargets
  <2>9. \/ node[m].lineage = Target /\ Runs(m, "start-rke2", [node[m] EXCEPT !.rke2 = TRUE])
        \/ \E s : Runs(m, "start-rke2", [node[m] EXCEPT !.rke2 = TRUE, !.lineage = Target, !.snapshot = s])
    BY <1>5, <2>4, <2>5, <2>6, <2>7, <2>8 DEF StartRKE2
  <2>10. node'[m].lineage = Target
    <3>1. \/ node[m].lineage = Target /\ node'[m] = [node[m] EXCEPT !.rke2 = TRUE]
          \/ \E s : node'[m] = [node[m] EXCEPT !.rke2 = TRUE, !.lineage = Target, !.snapshot = s]
      BY <1>0, <2>9 DEF Runs
    <3> QED
      BY <1>0, <3>1 DEF Nodes
  <2> QED
    BY <2>3, <2>10 DEF At
<1> QED
  BY <1>4, <1>5

\* Every step keeps JoinedInv.
LEMMA JoinedInvNext ==
  ASSUME Undisturbed, "agent" \notin FaultKinds, TypeInv, PhaseInv, RunningInv, SafetyInv, JoinedInv,
         [Next]_vars
  PROVE  JoinedInv'
<1>0. secret \in [Machines -> PlanSecrets]
  BY DEF TypeInv, TypeOK
<1>1. CASE restore[TheRestore].gen = 0 /\ restore'[TheRestore].gen = 1 /\ UNCHANGED agentVars
  <2>1. \A m \in Machines : secret[m].plan = NoPlan
    BY <1>1 DEF SafetyInv, MachineInv, HandInv
  <2> QED
    BY <1>1, <2>1, PlanStages DEF JoinedInv, Joined, agentVars
<1>2. CASE Backup' = Backup
  <2>0. UNCHANGED <<Target, Backup>>
    BY <1>2 DEF Target, Backup
  <2>1. CASE UNCHANGED agentVars
    BY <2>0, <2>1 DEF JoinedInv, Joined, Applied, At, agentVars
  <2>2. CASE /\ rec.pc = "fill" /\ updatePlanSecretWithPlan /\ UNCHANGED <<agent, node>>
             /\ secret' = [secret EXCEPT ![rec.m].plan = wantedPlan]
    <3>1. ASSUME NEW m \in Machines, secret'[m].plan = secret[m].plan, secret'[m].applied = secret[m].applied
          PROVE  Joined(m)'
      BY <2>0, <2>2, <3>1 DEF JoinedInv, Joined, Applied, At
    <3>2. ASSUME NEW m \in Machines, m = rec.m, m # Target, wantedPlan # secret[m].plan,
                 Stage(wantedPlan) = 3
          PROVE  ~node[m].rke2
      <4>1. /\ Backup \in Backups /\ m \in InitialMachines /\ wantedPlan \in PlansOf(m)
            /\ Rank(rec.phase) = 3
        BY <2>2, <3>2, Wanted DEF SafetyInv, RunningInv
      <4>2. Reaches(3)
        BY <2>2, <4>1 DEF Reaches
      <4>3. /\ Stage(secret[m].plan) \in {1, 2, 3}
            /\ Stage(secret[m].plan) = 1 => ~node[m].rke2
        BY <4>1, <4>2, AllHaveStopped
      <4>4. secret[m].plan \in PlansOf(m)
        BY DEF SafetyInv, MachineInv, HandInv
      <4>5. Stage(secret[m].plan) # 2 /\ Stage(secret[m].plan) # 3
        BY <3>2, <4>1, <4>4, PlansByStage
      <4> QED
        BY <4>3, <4>5
    <3>3. ASSUME NEW m \in Machines, m = rec.m, wantedPlan # secret[m].plan PROVE Joined(m)'
      <4>1. secret'[m].plan = wantedPlan /\ UNCHANGED node
        BY <1>0, <2>2, <3>3 DEF PlanSecrets
      <4> QED
        BY <2>0, <3>2, <3>3, <4>1 DEF Joined
    <3>4. \A m \in Machines : \/ m = rec.m /\ wantedPlan # secret[m].plan
                              \/ secret'[m].plan = secret[m].plan /\ secret'[m].applied = secret[m].applied
      BY <1>0, <2>2 DEF PlanSecrets
    <3> QED
      BY <3>1, <3>3, <3>4 DEF JoinedInv
  <2>3. ASSUME NEW m \in Machines, AgentStep(m), UNCHANGED restore PROVE JoinedInv'
    <3>1. \A x \in Machines \ {m} : UNCHANGED <<agent[x], secret[x], node[x]>>
      BY <2>3 DEF AgentStep, AgentFetch, KillAll, RemoveServerUrl, AddServerUrl, RemoveManifests,
                  RemoveEtcdData, ClusterReset, StartRKE2, ScriptFails, AgentReport, Runs, TypeInv, TypeOK
    <3>2. ASSUME NEW x \in Machines \ {m} PROVE Joined(x)'
      <4>1. Joined(x) /\ UNCHANGED <<agent[x], secret[x], node[x]>>
        BY <3>1 DEF JoinedInv
      <4> QED
        BY <2>0, <4>1 DEF Joined, Applied, At
    <3>3. Joined(m)'
      BY <2>3, JoinedAgent DEF JoinedInv
    <3> QED
      BY <3>2, <3>3 DEF JoinedInv
  <2>4. ASSUME NEW m \in Machines, Bootstrap(m) PROVE FALSE
    BY <2>4 DEF Bootstrap, SafetyInv, CopyInv
  <2> QED
    BY <2>1, <2>2, <2>3, <2>4, MachineSteps
<1> QED
  BY <1>1, <1>2, BackupSteps

\* If nobody edits the restore or adds machines and no agent restarts, then a restore that
\* says Finished has every machine of the cluster running in the etcd cluster of the
\* backup's machine.
THEOREM FinishedMeansRejoined ==
  ASSUME Undisturbed, "agent" \notin FaultKinds
  PROVE  Spec => []FinishedIsRejoined
<1>1. Init => JoinedInv
  <2>1. Init => \A m \in Machines : secret[m].plan = NoPlan
    BY DEF Init, EmptySecret
  <2> QED
    BY <2>1, PlanStages DEF JoinedInv, Joined
<1>2. TypeInv /\ PhaseInv /\ RunningInv /\ SafetyInv /\ JoinedInv /\ [Next]_vars => JoinedInv'
  BY JoinedInvNext
<1>3. TypeInv /\ RunningInv /\ SafetyInv /\ JoinedInv => FinishedIsRejoined
  <2> SUFFICES ASSUME RunningInv, SafetyInv, JoinedInv, restore[TheRestore].phase = "Finished",
                      NEW m \in Machines, machine[m] = "Running"
               PROVE  node[m].rke2 /\ node[m].lineage = BackupMachine[Backup]
    BY TheOne DEF FinishedIsRejoined, Backup
  <2>1. m \in InitialMachines
    BY DEF SafetyInv, CopyInv
  <2>2. Reaches(4)
    BY PhaseRanks DEF Reaches
  <2>3. AppliedStage(m) = 3
    BY <2>1, <2>2 DEF SafetyInv, OrderInv
  <2>4. Stage(secret[m].plan) = 3 /\ node[m].rke2
    BY <2>3, PlanStages DEF RunningInv, AgentInv, AgentOK
  <2>5. Backup \in Backups
    BY <2>4, PlanStages DEF SafetyInv, MachineInv, HandInv
  <2>6. node[m].lineage = Target
    BY <2>4 DEF JoinedInv, Joined, SafetyInv, MachineInv, NodeInv
  <2> QED
    BY <2>4, <2>5, <2>6, TheOne
<1> QED
  BY <1>1, <1>2, <1>3, SafetyInvariant, PTL DEF Spec
================================================================================
